----------------------------- MODULE MessageWalk -----------------------------
(***************************************************************************)
(* The Decode_First / Decode_Next pairs that step through the messages of  *)
(* a data packet (i106_decode_*.c).  A packet here is where its messages   *)
(* are and what their headers say; offsets count the bytes of its data     *)
(* from the channel specific data word on.                                 *)
(***************************************************************************)
EXTENDS Integers, Sequences

CONSTANTS
  Packets,    \* packets to decode
  MAX_COUNT,  \* messages a 1553 packet may claim to have (100000)
  MAX_EXTRA,  \* bound on the calls after the messages have ended
  MAX_GOT     \* bound on the messages the ghost remembers; no walk here returns as many

Checked == {"1553F1", "16PP194", "MSGF0"}
Unchecked == {"ARINC429F0", "CAN", "ETHERNETF0", "ETHERNETF1", "INDEX"}
Uncounted == {"UARTF0", "DISCRETEF1", "VIDEOF0"}
Format == Checked \cup Unchecked \cup Uncounted

\* The command word of a 1553 message whose data it counts.
SuCmdWord == [bTR : BOOLEAN, uSubAddr : 0..31, uWordCnt : 0..31]

\* A message as it was recorded: its bytes after the header, the gap before it and, on a
\* 1553 bus, whether it is between two terminals, and its command.
Message == [len : Nat, gap : Nat, bRT2RT : BOOLEAN, cmd : SuCmdWord]

\* `count' is what the packet claims; `stamped': bIPH, bET or bIntraPktHdr; `node', `size':
\* an index of nodes, one with a file size; `cut': how much of the data is missing; `bad':
\* a message whose length is damaged and what it says, <<0, 0>> for none; `junk': the
\* length or gap a header seems to have where there is none.
Packet == [fmt : Format, count : Nat, msgs : Seq(Message), stamped : BOOLEAN, node : BOOLEAN,
           size : BOOLEAN, cut : Nat, bad : Nat \X Nat, junk : Nat]

ASSUME WalkAssumption ==
  (\A p \in Packets : p \in Packet) /\ {MAX_COUNT, MAX_EXTRA, MAX_GOT} \subseteq Nat

VARIABLES
  pkt,    \* the packet in the buffer
  walk,   \* the Su..._CurrMsg of the caller
  got,    \* ghost: the messages returned
  extra   \* ghost: calls made after the end

walkvars == <<pkt, walk, got, extra>>

Null == -1

\* num: uMsgNum; off: ulCurrOffset or uBytesRead; hdr, when, data: the pointers to the
\* message's header, time and data, as offsets; time: llIntPktTime of ARINC 429, from the
\* packet's time on.
NoWalk == [num |-> 0, off |-> 0, hdr |-> Null, when |-> Null, data |-> Null, time |-> 0,
           status |-> "NONE"]

Found == {"OK", "INDEX_NODE", "INDEX_ROOT", "INDEX_ROOT_LINK"}
Ended == {"NO_MORE_DATA", "BUFFER_OVERRUN"}

-----------------------------------------------------------------------------
(* Sizes of the structures, in bytes.                                       *)

ChanSpec == 4
Stamp == 8
Su1553F1_Header == 14
Su16PP194_Msg == 36
SuMessageF0_Header == 12
SuArinc429F0_Header == 4
SuArinc429F0_Data == 4
SuUartF0_Header == 4
SuCan_Header == 12
SuDiscrete_Data == 4
SuEthernetF0_Header == 12
SuEthernetF1_Header == 28
TransportStream == 188
SuIndex_NodeData == 4
FileOffset == 8

\* Where a length is odd, a filler byte follows.
Evened(n) == n + (n % 2)

-----------------------------------------------------------------------------
(* The packet as it was recorded.                                           *)

Stamped(p) == IF p.stamped THEN Stamp ELSE 0

\* What comes before a message's own bytes.
HeaderOf(p) ==
  CASE p.fmt = "1553F1" -> Su1553F1_Header
    [] p.fmt = "16PP194" -> 0
    [] p.fmt = "MSGF0" -> SuMessageF0_Header
    [] p.fmt = "ARINC429F0" -> SuArinc429F0_Header
    [] p.fmt = "UARTF0" -> Stamped(p) + SuUartF0_Header
    [] p.fmt = "CAN" -> SuCan_Header
    [] p.fmt = "DISCRETEF1" -> Stamp
    [] p.fmt = "ETHERNETF0" -> SuEthernetF0_Header
    [] p.fmt = "ETHERNETF1" -> SuEthernetF1_Header
    [] p.fmt = "VIDEOF0" -> Stamped(p)
    [] p.fmt = "INDEX" -> Stamp + Stamped(p) + (IF p.node THEN SuIndex_NodeData ELSE 0)

FirstPlace(p) == ChanSpec + IF p.fmt = "INDEX" /\ p.size THEN FileOffset ELSE 0

\* Where message k of a packet begins, and what would come after the last.
Place(p, k) ==
  LET P[i \in 1..k] == IF i = 1 THEN FirstPlace(p)
                       ELSE P[i - 1] + HeaderOf(p) + Evened(p.msgs[i - 1].len)
  IN P[k]

\* ulDataLen of the packet's header.
DataLen(p) ==
  LET full == Place(p, Len(p.msgs) + 1) IN IF p.cut > full THEN 0 ELSE full - p.cut

\* The message at an offset, and the length and the gap a header there shows.
At(p, off) == {k \in DOMAIN p.msgs : Place(p, k) = off}
Shown(p, off) ==
  IF At(p, off) = {} THEN p.junk
  ELSE LET k == CHOOSE i \in At(p, off) : TRUE
       IN IF p.bad[1] = k THEN p.bad[2] ELSE p.msgs[k].len
Gap(p, off) == IF At(p, off) = {} THEN p.junk ELSE p.msgs[CHOOSE i \in At(p, off) : TRUE].gap

-----------------------------------------------------------------------------
(* 1553 Format 1, 16PP194 and message data: every length is checked.        *)

Ends(w, status) == [w EXCEPT !.status = status]

\* The pointers to a message with a header of n bytes.
Pointed(w, at, n) == [w EXCEPT !.hdr = at, !.when = at, !.data = at + n, !.status = "OK"]

\* Slip: only the header has to be inside the packet.
Whole_not(p, w, n, len) ==
  IF w.off + n > DataLen(p) THEN Ends(w, "BUFFER_OVERRUN") ELSE Pointed(w, w.hdr, n)

\* The message must end inside the packet's data.
Whole(p, w, n, len) ==
  IF w.off + n + len > DataLen(p) THEN Ends(w, "BUFFER_OVERRUN") ELSE Pointed(w, w.hdr, n)

CheckedFirst(p, n, len) ==
  CASE p.count = 0 -> Ends(NoWalk, "NO_MORE_DATA")
    [] p.count # 0 /\ ChanSpec >= DataLen(p) ->
         Ends([NoWalk EXCEPT !.off = ChanSpec], "BUFFER_OVERRUN")
    [] OTHER -> Whole(p, [NoWalk EXCEPT !.off = ChanSpec, !.hdr = ChanSpec], n, len)

\* Slip: the number of the message is compared for equality.
CheckedNext_eq(p, w, n, was, len) ==
  LET moved == [w EXCEPT !.num = @ + 1, !.off = @ + n + was] IN
  CASE w.num + 1 = p.count -> Ends([w EXCEPT !.num = @ + 1], "NO_MORE_DATA")
    [] w.num + 1 # p.count /\ moved.off >= DataLen(p) -> Ends(moved, "BUFFER_OVERRUN")
    [] OTHER -> Whole(p, [moved EXCEPT !.hdr = @ + n + was], n, len)

\* `was' is the length of the message before, `len' of this one.  The offset moves before
\* it is checked and the pointer only then: past the end the two part.
CheckedNext(p, w, n, was, len) ==
  LET moved == [w EXCEPT !.num = @ + 1, !.off = @ + n + was] IN
  CASE w.num + 1 >= p.count -> Ends([w EXCEPT !.num = @ + 1], "NO_MORE_DATA")
    [] w.num + 1 < p.count /\ moved.off >= DataLen(p) -> Ends(moved, "BUFFER_OVERRUN")
    [] OTHER -> Whole(p, [moved EXCEPT !.hdr = @ + n + was], n, len)

\* A recorder once wrote packets of garbage with huge counts.
First1553F1(p) ==
  IF p.count > MAX_COUNT THEN Ends(NoWalk, "BUFFER_OVERRUN")
  ELSE CheckedFirst(p, Su1553F1_Header, Shown(p, ChanSpec))

Next1553F1(p, w) ==
  LET was == Shown(p, w.hdr) IN
  CheckedNext(p, w, Su1553F1_Header, was, Shown(p, w.hdr + Su1553F1_Header + was))

\* One size for all messages.
First16PP194(p) == CheckedFirst(p, 0, Su16PP194_Msg)

Next16PP194(p, w) == CheckedNext(p, w, 0, Su16PP194_Msg, Su16PP194_Msg)

FirstMSGF0(p) == CheckedFirst(p, SuMessageF0_Header, Shown(p, ChanSpec))

NextMSGF0(p, w) ==
  LET was == Shown(p, w.hdr) IN
  CheckedNext(p, w, SuMessageF0_Header, was, Shown(p, w.hdr + SuMessageF0_Header + was))

-----------------------------------------------------------------------------
(* ARINC 429, Ethernet and index: the count is trusted.                     *)

CountedFirst(p, w) == IF p.count = 0 THEN Ends(NoWalk, "NO_MORE_DATA") ELSE w

\* w is the walk at the next message, if there is one.
CountedNext(p, was, w) ==
  IF was.num + 1 >= p.count THEN Ends([was EXCEPT !.num = @ + 1], "NO_MORE_DATA")
  ELSE [w EXCEPT !.num = @ + 1]

\* The gap of the first message is not used: the packet's time is its time.
FirstArinc429F0(p) ==
  CountedFirst(p, Pointed([NoWalk EXCEPT !.off = ChanSpec], ChanSpec, SuArinc429F0_Header))

NextArinc429F0(p, w) ==
  LET step == SuArinc429F0_Header + SuArinc429F0_Data IN
  CountedNext(p, w, Pointed([w EXCEPT !.off = @ + step, !.time = @ + Gap(p, w.hdr + step)],
                            w.hdr + step, SuArinc429F0_Header))

FirstEthernetF0(p) == CountedFirst(p, Pointed(NoWalk, ChanSpec, SuEthernetF0_Header))

\* Slip: the filler byte after an odd length is forgotten.
NextEthernetF0_odd(p, w) ==
  CountedNext(p, w, Pointed(w, w.hdr + SuEthernetF0_Header + Shown(p, w.hdr), SuEthernetF0_Header))

\* A header begins at an even byte.
NextEthernetF0(p, w) ==
  CountedNext(p, w, Pointed(w, w.hdr + SuEthernetF0_Header + Evened(Shown(p, w.hdr)),
                            SuEthernetF0_Header))

\* The first message's header has the length the packet says (uIPHLength), the others the
\* length of the structure; recorders write the same.
uIPHLength == 28

FirstEthernetF1(p) == CountedFirst(p, Pointed(NoWalk, ChanSpec, uIPHLength))

NextEthernetF1(p, w) ==
  CountedNext(p, w, Pointed(w, w.hdr + SuEthernetF1_Header + Evened(Shown(p, w.hdr)),
                            SuEthernetF1_Header))

\* vFillInMsgPtrs of an index, for the message with number num; w.off is the array's place.
IndexMsg(p, w, num) ==
  LET before == Stamp + Stamped(p) + (IF p.node THEN SuIndex_NodeData ELSE 0)
      status == CASE p.node -> "INDEX_NODE"
                  [] ~p.node /\ num < p.count - 1 -> "INDEX_ROOT"
                  [] OTHER -> "INDEX_ROOT_LINK"
  IN Ends(Pointed(w, w.off + num * (before + FileOffset), before), status)

\* Only the room for one time after the array's start is checked, and only here.
FirstIndex(p) ==
  LET array == ChanSpec + IF p.size THEN FileOffset ELSE 0
      w == [NoWalk EXCEPT !.off = array]
  IN CountedFirst(p, IF array + Stamp >= DataLen(p) THEN Ends(w, "BUFFER_OVERRUN")
                     ELSE IndexMsg(p, w, 0))

NextIndex(p, w) == CountedNext(p, w, IndexMsg(p, w, w.num + 1))

-----------------------------------------------------------------------------
(* UART, CAN, discrete and video: the data end where the packet does.       *)

\* Slip: the walk does not move on to the next message.
Filled_still(p, w, stamped, n, len) ==
  LET hdr == w.off + IF stamped THEN Stamp ELSE 0 IN
  [w EXCEPT !.hdr = hdr, !.data = hdr + n, !.status = "OK",
            !.when = IF stamped THEN w.off ELSE Null]

\* The message at w.off, with a stamp if it has one, a header of n bytes and len bytes.
Filled(p, w, stamped, n, len) ==
  LET hdr == w.off + IF stamped THEN Stamp ELSE 0 IN
  [w EXCEPT !.off = hdr + n + len, !.hdr = hdr, !.data = hdr + n, !.status = "OK",
            !.when = IF stamped THEN w.off ELSE Null]

Left(p, w, filled) ==
  IF DataLen(p) <= w.off THEN Ends(w, "NO_MORE_DATA") ELSE filled

UartMsg(p, w) ==
  Filled(p, w, p.stamped, SuUartF0_Header, Evened(Shown(p, w.off)))

NextUartF0(p, w) == Left(p, w, UartMsg(p, w))

FirstUartF0(p) == NextUartF0(p, [NoWalk EXCEPT !.off = ChanSpec])

\* The header begins with the stamp; the id word counts as data.
CanMsg(p, w) ==
  [Filled(p, w, FALSE, SuCan_Header, Evened(Shown(p, w.off))) EXCEPT !.when = w.off]

FirstCan(p) ==
  LET w == [NoWalk EXCEPT !.off = ChanSpec] IN CountedFirst(p, CanMsg(p, w))

NextCan(p, w) ==
  LET moved == [w EXCEPT !.num = @ + 1] IN
  IF moved.num >= p.count THEN Ends(moved, "NO_MORE_DATA") ELSE Left(p, moved, CanMsg(p, moved))

NextDiscreteF1(p, w) == Left(p, w, Filled(p, w, TRUE, 0, SuDiscrete_Data))

FirstDiscreteF1(p) == NextDiscreteF1(p, [NoWalk EXCEPT !.off = ChanSpec])

\* The first one is not looked at; then the pointers move before they are checked.
FirstVideoF0(p) == Filled(p, [NoWalk EXCEPT !.off = ChanSpec], p.stamped, 0, TransportStream)

NextVideoF0(p, w) ==
  LET moved == Filled(p, w, p.stamped, 0, TransportStream) IN
  IF moved.data >= DataLen(p) THEN Ends(moved, "NO_MORE_DATA") ELSE moved

-----------------------------------------------------------------------------
(* The words of a 1553 message.                                             *)

\* Slip: the bit of a mode code that says whether it has a data word is the wrong way up.
i1553WordCnt_mode(cmd) ==
  CASE cmd.uSubAddr \in {0, 31} -> IF cmd.uWordCnt >= 16 THEN 0 ELSE 1
    [] cmd.uSubAddr \notin {0, 31} /\ cmd.uWordCnt = 0 -> 32
    [] OTHER -> cmd.uWordCnt

\* A mode code has a data word or none; a count of 0 stands for 32.
i1553WordCnt(cmd) ==
  CASE cmd.uSubAddr \in {0, 31} -> IF cmd.uWordCnt >= 16 THEN 1 ELSE 0
    [] cmd.uSubAddr \notin {0, 31} /\ cmd.uWordCnt = 0 -> 32
    [] OTHER -> cmd.uWordCnt

\* vFillInMsgPtrs: where the words of a message are, counted from its first command.
BusWords(m) ==
  LET n == i1553WordCnt(m.cmd) IN
  CASE m.bRT2RT -> [cmd2 |-> 1, stat1 |-> 3 + n, stat2 |-> 2, data |-> 3, count |-> n]
    [] ~m.bRT2RT /\ ~m.cmd.bTR ->
         [cmd2 |-> Null, stat1 |-> 1 + n, stat2 |-> Null, data |-> 1, count |-> n]
    [] OTHER -> [cmd2 |-> Null, stat1 |-> 1, stat2 |-> Null, data |-> 2, count |-> n]

-----------------------------------------------------------------------------
(* The caller's loop.                                                       *)

DecodeFirst(p) ==
  CASE p.fmt = "1553F1" -> First1553F1(p)
    [] p.fmt = "16PP194" -> First16PP194(p)
    [] p.fmt = "MSGF0" -> FirstMSGF0(p)
    [] p.fmt = "ARINC429F0" -> FirstArinc429F0(p)
    [] p.fmt = "ETHERNETF0" -> FirstEthernetF0(p)
    [] p.fmt = "ETHERNETF1" -> FirstEthernetF1(p)
    [] p.fmt = "INDEX" -> FirstIndex(p)
    [] p.fmt = "UARTF0" -> FirstUartF0(p)
    [] p.fmt = "CAN" -> FirstCan(p)
    [] p.fmt = "DISCRETEF1" -> FirstDiscreteF1(p)
    [] p.fmt = "VIDEOF0" -> FirstVideoF0(p)

DecodeNext(p, w) ==
  CASE p.fmt = "1553F1" -> Next1553F1(p, w)
    [] p.fmt = "16PP194" -> Next16PP194(p, w)
    [] p.fmt = "MSGF0" -> NextMSGF0(p, w)
    [] p.fmt = "ARINC429F0" -> NextArinc429F0(p, w)
    [] p.fmt = "ETHERNETF0" -> NextEthernetF0(p, w)
    [] p.fmt = "ETHERNETF1" -> NextEthernetF1(p, w)
    [] p.fmt = "INDEX" -> NextIndex(p, w)
    [] p.fmt = "UARTF0" -> NextUartF0(p, w)
    [] p.fmt = "CAN" -> NextCan(p, w)
    [] p.fmt = "DISCRETEF1" -> NextDiscreteF1(p, w)
    [] p.fmt = "VIDEOF0" -> NextVideoF0(p, w)

WalkInit ==
  /\ pkt \in Packets
  /\ walk = NoWalk /\ got = <<>> /\ extra = 0

Keep(w) ==
  /\ walk' = w
  /\ got' = IF w.status \in Found /\ Len(got) < MAX_GOT THEN Append(got, w) ELSE got
  /\ UNCHANGED pkt

First ==
  /\ walk.status = "NONE"
  /\ Keep(DecodeFirst(pkt))
  /\ UNCHANGED extra

Following ==
  /\ walk.status \in Found
  /\ Keep(DecodeNext(pkt, walk))
  /\ UNCHANGED extra

\* A call after the end.  Where there was no first message, nothing is there to go on from.
AfterEnd ==
  /\ walk.status \in Ended /\ got # <<>> /\ extra < MAX_EXTRA
  /\ Keep(DecodeNext(pkt, walk))
  /\ extra' = extra + 1

WalkNext == First \/ Following \/ AfterEnd

WalkSpec == WalkInit /\ [][WalkNext]_walkvars

\* The caller goes on as long as there are messages.
FairWalk == WF_walkvars(First \/ Following)

-----------------------------------------------------------------------------
(* Properties.                                                              *)

WalkTypeOK ==
  /\ pkt \in Packet
  /\ walk.status \in {"NONE"} \cup Found \cup Ended
  /\ \A i \in DOMAIN got : got[i].status \in Found
  /\ Len(got) < MAX_GOT
  /\ extra \in 0..MAX_EXTRA

\* The bytes of a message in the formats where all have the same.
SizeOf(p) ==
  CASE p.fmt = "16PP194" -> {Su16PP194_Msg}
    [] p.fmt = "ARINC429F0" -> {SuArinc429F0_Data}
    [] p.fmt = "DISCRETEF1" -> {SuDiscrete_Data}
    [] p.fmt = "VIDEOF0" -> {TransportStream}
    [] p.fmt = "INDEX" -> {FileOffset}
    [] OTHER -> Nat

\* A packet as the standard has it, with no more messages than the decoder's limit.  In a
\* 1553 packet lengths are even; message data of an odd length are followed by a filler byte
\* that the decoder does not know of; a video packet is never empty.
Sound(p) ==
  /\ p.fmt \notin Uncounted => p.count = Len(p.msgs)
  /\ p.fmt = "1553F1" => p.count <= MAX_COUNT
  /\ \A k \in DOMAIN p.msgs : /\ p.msgs[k].len \in SizeOf(p)
                              /\ p.fmt \in Checked => p.msgs[k].len % 2 = 0
  /\ p.fmt = "VIDEOF0" => p.msgs # <<>>
  /\ p.cut = 0 /\ p.bad[1] = 0

\* The time between the first message and message k, where every message has its gap.
Elapsed(p, k) ==
  LET T[i \in 1..k] == IF i = 1 THEN 0 ELSE T[i - 1] + p.msgs[i].gap IN T[k]

\* w is at message k of p.
IsMessage(p, w, k) ==
  /\ w.data = Place(p, k) + HeaderOf(p)
  /\ w.when = IF p.fmt \in {"UARTF0", "VIDEOF0"} /\ ~p.stamped THEN Null ELSE Place(p, k)
  /\ p.fmt = "ARINC429F0" => w.time = Elapsed(p, k)
  /\ w.status = CASE p.fmt = "INDEX" /\ p.node -> "INDEX_NODE"
                  [] p.fmt = "INDEX" /\ ~p.node ->
                       IF k = Len(p.msgs) THEN "INDEX_ROOT_LINK" ELSE "INDEX_ROOT"
                  [] OTHER -> "OK"

\* From a packet as the standard has it the loop over Decode_First and Decode_Next returns
\* the messages that were recorded, each once and in order, at its place and with its time,
\* and when it ends it has returned them all.
WalkReturnsMessages ==
  Sound(pkt) =>
    /\ Len(got) <= Len(pkt.msgs)
    /\ \A k \in DOMAIN got : IsMessage(pkt, got[k], k)
    /\ walk.status \in Ended => walk.status = "NO_MORE_DATA" /\ Len(got) = Len(pkt.msgs)

\* How much of the packet a message of a checked format claims.
Claimed(p, w) ==
  IF p.fmt = "16PP194" THEN Su16PP194_Msg ELSE (w.data - w.hdr) + Shown(p, w.hdr)

\* Whatever the counts and lengths in a packet say, a message of a checked format is inside
\* the packet's data; of an uncounted one, and of CAN after the first, its beginning is.
InsideData ==
  \A k \in DOMAIN got :
    LET w == got[k] IN
    /\ pkt.fmt \in Checked => w.hdr = w.off /\ w.hdr + Claimed(pkt, w) <= DataLen(pkt)
    /\ (pkt.fmt \in {"UARTF0", "DISCRETEF1"} \/ (pkt.fmt \in {"CAN", "VIDEOF0"} /\ k > 1))
         => (IF w.when = Null THEN w.hdr ELSE w.when) < DataLen(pkt)

\* When the messages have ended, no later call returns one, although it goes on moving the
\* offsets and counts it keeps.
StopIsFinal == [][walk.status \in Ended => walk'.status \in Ended]_walkvars

\* The loop ends on every packet, with whatever counts and lengths.
WalkEnds == <>(walk.status \in Ended)

\* The words of a message on the bus, of n words in all, that was answered.
BusLayout(m, n) ==
  LET data(k) == [i \in 1..k |-> "DATA"] IN
  CASE m.bRT2RT -> <<"CMD1", "CMD2", "STAT2">> \o data(n - 4) \o <<"STAT1">>
    [] ~m.bRT2RT /\ ~m.cmd.bTR -> <<"CMD1">> \o data(n - 2) \o <<"STAT1">>
    [] OTHER -> <<"CMD1", "STAT1">> \o data(n - 2)

\* The pointers into a 1553 message are to its second command, its status words and all of
\* its data, for receive, transmit and terminal to terminal messages and mode codes.
BusWordsFound ==
  (pkt.fmt = "1553F1" /\ Sound(pkt)) =>
    \A k \in DOMAIN got :
      LET m == pkt.msgs[k]
          words == BusLayout(m, m.len \div 2)
          b == BusWords(m)
      IN /\ {i \in DOMAIN words : words[i] = "DATA"} = (b.data + 1)..(b.data + b.count)
         /\ \A x \in {<<b.cmd2, "CMD2">>, <<b.stat1, "STAT1">>, <<b.stat2, "STAT2">>} :
              {i \in DOMAIN words : words[i] = x[2]} = {x[1] + 1} \ {0}

-----------------------------------------------------------------------------
(* What the claims above rest on, of the packets and the ghost.             *)

\* The ghost can hold the messages of every such packet.
GotIsLarge == \A p \in Packets : Sound(p) => Len(p.msgs) <= MAX_GOT

\* The data words a command asks for, by the standard of the bus: the upper bit of a mode
\* code is their number, and a count goes from 1 to 32, which is written as 0.
BusDataWords(cmd) ==
  IF cmd.uSubAddr \in {0, 31} THEN cmd.uWordCnt \div 16 ELSE ((cmd.uWordCnt + 31) % 32) + 1

\* A message on the bus has the words of its command, its data and its answer.
Answered(m) == m.len \div 2 = BusDataWords(m.cmd) + IF m.bRT2RT THEN 4 ELSE 2

\* The bus monitors in the packets recorded whole messages.
BusAnswers ==
  \A p \in Packets : (p.fmt = "1553F1" /\ Sound(p)) =>
    \A k \in DOMAIN p.msgs : Answered(p.msgs[k])

=============================================================================
