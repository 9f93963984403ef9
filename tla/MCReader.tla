------------------------------ MODULE MCReader ------------------------------
(* Small files for Ch10Reader: sequences of packets of a few kinds, with a  *)
(* header of 2 bytes, a secondary header of 1 and a backward scan of 3.     *)
EXTENDS ReaderCursor, FiniteSets, Sequences, SequencesExt

\* A packet: the bytes it takes in the file, its header, and the length claimed by what
\* looks like a header in its payload, 2 bytes in (0 when nothing does).
Kind == [size : Nat, h : Header, fake : Nat]

Intact(n, sec) == [ok |-> TRUE, sec |-> sec, secOk |-> TRUE, len |-> n, tmats |-> FALSE]

Tmats   == [size |-> 3, h |-> [Intact(3, FALSE) EXCEPT !.tmats = TRUE], fake |-> 0]
Empty   == [size |-> 2, h |-> Intact(2, FALSE), fake |-> 0]
Plain   == [size |-> 4, h |-> Intact(4, FALSE), fake |-> 0]
WithSec == [size |-> 4, h |-> Intact(4, TRUE), fake |-> 0]
Fake    == [size |-> 5, h |-> Intact(5, FALSE), fake |-> 3]
Overrun == [Fake EXCEPT !.fake = 9]
Shrunk   == [Fake EXCEPT !.fake = 1]
BadHdr  == [size |-> 4, h |-> [Intact(4, FALSE) EXCEPT !.ok = FALSE], fake |-> 0]
BadSec  == [size |-> 4, h |-> [Intact(4, TRUE) EXCEPT !.secOk = FALSE], fake |-> 0]
Torn    == [size |-> 1, h |-> [Intact(4, FALSE) EXCEPT !.ok = FALSE], fake |-> 0]
NoLen   == [size |-> 2, h |-> Intact(0, FALSE), fake |-> 0]
Cut     == [size |-> 3, h |-> Intact(5, FALSE), fake |-> 0]

Start(k, i) == FoldLeft(LAMBDA a, x : a + x.size, 0, SubSeq(k, 1, i - 1))

FileOf(k) ==
  LET size == Start(k, Len(k) + 1)
      at(q) == {i \in 1..Len(k) : Start(k, i) = q}
      in(q) == {i \in 1..Len(k) : k[i].fake > 0 /\ Start(k, i) + 2 = q}
      fits(q) == q + HEADER_SIZE <= size
  IN [size |-> size,
      pkts |-> {Start(k, i) : i \in 1..Len(k)},
      sig  |-> TRUE,
      cand |-> [q \in {p \in 0..size : fits(p) /\ (at(p) # {} \/ in(p) # {})} |->
                  IF at(q) # {} THEN k[CHOOSE i \in at(q) : TRUE].h
                                   ELSE Intact(k[CHOOSE i \in in(q) : TRUE].fake, FALSE)]]

TornFile == FileOf(<<Tmats, Torn, Plain, Plain>>)
NotCh10  == [size |-> 3, pkts |-> {}, sig |-> FALSE, cand |-> <<>>]

\* All kinds of damage, few packets; the reader may reopen on any of them.
MCFilesAll ==
  {FileOf(<<a, b>>) : a \in {Tmats, BadHdr}, b \in {Empty, WithSec, Fake, BadSec, NoLen, Cut}}
  \cup {FileOf(<<Plain, Fake, Tmats>>), TornFile, NotCh10}

\* Recordings, with sync patterns in payloads.
MCFilesRec ==
  {FileOf(k) : k \in {<<Tmats, WithSec, Empty, Plain>>, <<Tmats, Fake, WithSec>>,
                       <<Fake, Plain>>, <<Tmats, Fake, Empty, WithSec, Fake>>,
                       <<Tmats, Overrun, Empty>>, <<Tmats, Shrunk, Plain>>, <<Tmats>>}}

\* Clean files with damaged headers.
MCFilesTiled ==
  {FileOf(<<a, b, c, Plain>>) : a \in {Tmats, BadHdr}, b \in {Empty, WithSec, BadHdr},
                                c \in {WithSec, BadHdr, BadSec}}

\* Damaged files of both sorts.
MCFilesDamaged == MCFilesAll \cup MCFilesTiled

\* Everything above.
MCFilesCore == MCFilesDamaged \cup MCFilesRec

MCOffsets == 0..6

=============================================================================
