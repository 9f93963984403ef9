---------------------------- MODULE InOrderIndex -----------------------------
(***************************************************************************)
(* The in-order index of a handle (SuInOrderIndex, irig106ch10.c and       *)
(* i106_time.c): built from the file, written to and read from an index    *)
(* file, used to read headers in the order of their times and to go to a   *)
(* time.  It sits on a reader, whose other calls go on as in Ch10Reader.   *)
(***************************************************************************)
EXTENDS HeaderWalk, Sequences, FiniteSets, Functions

CONSTANTS
  RefTime(_, _),  \* aubyRefTime of the header at an offset of a file
  CHUNK,          \* entries by which the array grows (100)
  SeekTimes,      \* relative times callers go to
  MAX_ENTRIES     \* bound on the length of the array and on the entries read from it

ASSUME IndexAssumption ==
  /\ CHUNK \in Nat \ {0} /\ MAX_ENTRIES \in Nat /\ SeekTimes \subseteq Nat
  /\ \A f \in Files : \A q \in DOMAIN f.cand : RefTime(f, q) \in Nat

VARIABLES
  idx,     \* suInOrderIndex; of asuIndex all iArraySize entries
  stored,  \* the index file
  got,     \* ghost: what reading in order by a whole index has returned
  trail    \* ghost: what the index is of, and where reading in it began

ivars == <<idx, stored, got, trail>>
allvars == <<vars, ivars>>

Entry == [at : Nat, time : Nat]

\* An entry never written: realloc() leaves it as it finds it.
Junk == [at |-> NoHeader, time |-> NoHeader]

Junks(n) == [i \in 1..n |-> Junk]

EmptyIndex == [arr |-> <<>>, used |-> 0, curr |-> 0, steps |-> 0, sort |-> "Unsorted"]

\* `whole': each packet of file `of' has one entry; `from' is where reading began.
NoTrail == [whole |-> FALSE, of |-> <<>>, from |-> 0]

IndexInit ==
  /\ Init
  /\ idx = EmptyIndex
  /\ stored = [exists |-> FALSE, entries |-> <<>>, whole |-> FALSE, of |-> <<>>]
  /\ got = <<>> /\ trail = NoTrail

-----------------------------------------------------------------------------
(* vMakeInOrderIndex.                                                       *)

EntriesOf(f, w, n) ==
  [i \in 1..n |-> [at |-> w[i - 1], time |-> RefTime(f, w[i - 1])]]

\* Added behind what is there; room is made a chunk at a time.
Filled(x, new) ==
  LET used == x.used + Len(new)
      short == IF used > Len(x.arr) THEN used - Len(x.arr) ELSE 0
      grown == x.arr \o Junks(((short + CHUNK - 1) \div CHUNK) * CHUNK)
  IN [x EXCEPT !.used = used,
               !.arr = [i \in DOMAIN grown |->
                          IF i \in (x.used + 1)..used THEN new[i - x.used] ELSE grown[i]]]

\* Slip: the sort takes in the entries of the first two packets.
Sorted_all(arr, used) ==
  {s \in {[i \in DOMAIN arr |-> IF i <= used THEN arr[p[i]] ELSE arr[i]] :
            p \in Bijection(1..used, 1..used)} :
     \A i, j \in 1..used : i < j => s[i].time <= s[j].time}

\* All outcomes of the qsort, which leaves the first two entries alone.
Sorted(arr, used) ==
  {s \in {[i \in DOMAIN arr |-> IF i \in 3..used THEN arr[p[i]] ELSE arr[i]] :
            p \in Bijection(3..used, 3..used)} :
     \A i, j \in 3..used : i < j => s[i].time <= s[j].time}

Position(x, q) ==
  LET at == {i \in 0..(x.used - 1) : x.arr[i + 1].at = q}
  IN IF at = {} THEN x.used ELSE CHOOSE i \in at : \A k \in at : i <= k

\* The index is thrown away when the reader did not stand at a packet.
Positioned(x, q) ==
  LET curr == Position(x, q) IN
  IF curr = x.used
    THEN [EmptyIndex EXCEPT !.curr = curr, !.sort = "SortError"]
    ELSE [x EXCEPT !.curr = curr, !.sort = "Sorted"]

\* With less than two entries the number of those to sort is negative, which qsort()
\* takes for a huge one.
MakeInOrderIndex ==
  LET next(q) == Following(file, q, FALSE)
      w == Headers(file, Seek(rd, 0), next)
  IN
  /\ mode # "CLOSED"
  /\ UNCHANGED <<file, mode, stored>>
  /\ got' = <<>>
  /\ \/ /\ mode = "READ"
        /\ \E n \in FirstStop(w, LAMBDA q : q = NoHeader) :
             LET x == Filled(idx, EntriesOf(file, w, n)) IN
             /\ Len(x.arr) <= MAX_ENTRIES
             /\ IF x.used < 2
                  THEN /\ ret' = Returned("Index", "ABORT", NoHeader)
                       /\ UNCHANGED <<rd, idx, trail>>
                  ELSE \E s \in Sorted(x.arr, x.used) :
                         /\ rd' = Seek(OutcomeOf(file, Seek(rd, 0), next, w, n).rd, rd.pos)
                         /\ ret' = Returned("Index", "OK", NoHeader)
                         /\ idx' = Positioned([x EXCEPT !.arr = s], rd.pos)
                         /\ trail' = [whole |-> idx.used = 0 /\ idx'.used > 0, of |-> file,
                                      from |-> idx'.curr]
     \/ /\ mode = "READ_IN_ORDER"
        /\ ret' = Returned("Index", "ABORT", NoHeader)
        /\ UNCHANGED <<rd, idx, trail>>

-----------------------------------------------------------------------------
(* The index file.                                                          *)

\* The file is not truncated: entries of an older, longer index stay at its end.
WriteInOrderIndex ==
  LET mine == SubSeq(idx.arr, 1, idx.used) IN
  /\ mode # "CLOSED"
  /\ stored' = [exists |-> TRUE,
                entries |-> mine \o SubSeq(stored.entries, idx.used + 1, Len(stored.entries)),
                whole |-> trail.whole /\ Len(stored.entries) <= idx.used, of |-> trail.of]
  /\ ret' = Returned("Index", "OK", NoHeader)
  /\ UNCHANGED <<file, mode, rd, idx, got, trail>>

\* The entries go behind all of the array, used or not; a read that fills its chunk is
\* followed by one more.
Loaded(x, entries) ==
  LET n == Len(entries) IN
  [x EXCEPT !.arr = @ \o entries \o Junks(CHUNK - (n % CHUNK)), !.used = @ + n]

\* Neither checked nor positioned: the current entry stays where an earlier use of the
\* handle left it.
ReadInOrderIndex ==
  /\ mode # "CLOSED"
  /\ UNCHANGED <<file, mode, rd, stored>>
  /\ \/ /\ ~stored.exists
        /\ ret' = Returned("Index", "OPEN_ERROR", NoHeader)
        /\ UNCHANGED <<idx, got, trail>>
     \/ /\ stored.exists
        /\ Len(Loaded(idx, stored.entries).arr) <= MAX_ENTRIES
        /\ got' = <<>>
        /\ idx' = [Loaded(idx, stored.entries) EXCEPT !.sort = "Sorted"]
        /\ trail' = [whole |-> stored.whole /\ idx.arr = <<>>, of |-> stored.of,
                     from |-> idx.curr]
        /\ ret' = Returned("Index", "OK", NoHeader)

-----------------------------------------------------------------------------
(* Reading in order.                                                        *)

\* Slip: the place in the index is looked up and used as that of the next entry.
CurrAfter_lookup(o) ==
  IF rd.state = "Unsynced" /\ o.rd.state # "Unsynced" THEN Position(idx, o.at)
  ELSE idx.curr + 1

\* A reader that was not in step looks up the place of the header it has read.
CurrAfter(o) ==
  (IF rd.state = "Unsynced" /\ o.rd.state # "Unsynced" THEN Position(idx, o.at)
   ELSE idx.curr) + 1

\* Offsets an entry may name: that of an entry never written, or behind the array, is any.
OffsetsAt(x, i) ==
  IF i + 1 \in DOMAIN x.arr /\ x.arr[i + 1] # Junk THEN {x.arr[i + 1].at} ELSE Offsets \cup {-1}

ReadEntry ==
  \E q \in OffsetsAt(idx, idx.curr) :
    IF q < 0
      THEN /\ ret' = Returned("ReadNextHeader", "ABORT", NoHeader)
           /\ UNCHANGED <<rd, idx, got>>
      ELSE LET o == IF mode = "READ" THEN NextOutcome(file, Seek(rd, q))
                    ELSE Outcome("WRONG_FILE_MODE", NoHeader, Seek(rd, q))
           IN /\ rd' = o.rd
              /\ ret' = Returned("ReadNextHeader", o.status, o.at)
              /\ idx' = [idx EXCEPT !.curr = CurrAfter(o)]
              /\ got' = IF o.status = "OK" /\ trail.whole THEN Append(got, o.at) ELSE got

\* What ReadNextHeader calls in mode READ_IN_ORDER once there is an index; a program can
\* also call it on a handle opened with READ.
ReadNextHeaderInOrder ==
  /\ mode # "CLOSED" /\ idx.sort = "Sorted"
  /\ UNCHANGED <<file, mode, stored, trail>>
  /\ \/ /\ idx.curr = idx.used
        /\ ret' = Returned("ReadNextHeader", "EOF", NoHeader)
        /\ UNCHANGED <<rd, idx, got>>
     \/ /\ idx.curr # idx.used /\ idx.curr < MAX_ENTRIES
        /\ ReadEntry

\* enI106Ch10SetPosToIrigTime, with the time as a relative one.  The upper bound is read
\* from the entry behind the last one used.  The search moves its limits but not the
\* entry it looks at, so that it ends where it begins.
TimesAt(x, i) ==
  IF i + 1 \in DOMAIN x.arr /\ x.arr[i + 1] # Junk THEN {x.arr[i + 1].time}
  ELSE SeekTimes \cup {0} \cup {t + 1 : t \in SeekTimes}

StepsFor(n) == CHOOSE k \in 0..n : 2^k >= n /\ \A j \in 0..(k - 1) : 2^j < n

Middle(x) == IF x.used = 0 THEN 0 ELSE (x.used - 1) \div 2

\* LastMsg, whose status the caller drops; with READ_IN_ORDER the reader stays.
AtLast ==
  IF mode = "READ" THEN LastOutcome(file, rd) ELSE Outcome("OK", NoHeader, rd)

SetPosToIrigTime(t) ==
  \/ /\ mode # "CLOSED" /\ idx.sort # "Sorted"
     /\ ret' = Returned("SeekTime", "NO_INDEX", NoHeader)
     /\ UNCHANGED <<file, mode, rd, ivars>>
  \/ /\ mode # "CLOSED" /\ idx.sort = "Sorted"
     /\ got' = <<>>
     /\ UNCHANGED stored
     /\ \E first \in TimesAt(idx, 0), beyond \in TimesAt(idx, idx.used) :
          \/ /\ t < first
             /\ rd' = Seek(rd, 0) /\ UNCHANGED <<file, mode>>
             /\ ret' = Returned("SeekTime", "TIME_NOT_FOUND", NoHeader)
             /\ idx' = [idx EXCEPT !.curr = IF mode = "READ_IN_ORDER" THEN 0 ELSE @]
          \/ /\ t >= first /\ t > beyond
             /\ rd' = AtLast.rd /\ UNCHANGED <<file, mode>>
             /\ ret' = Returned("SeekTime",
                                IF AtLast.status = "ABORT" THEN "ABORT" ELSE "TIME_NOT_FOUND",
                                NoHeader)
             /\ idx' = [idx EXCEPT !.curr = IF mode = "READ_IN_ORDER" THEN idx.used - 1
                                            ELSE @]
          \/ /\ t >= first /\ t <= beyond
             /\ ret' = Returned("SeekTime", "OK", NoHeader)
             /\ idx' = [idx EXCEPT !.curr = Middle(idx),
                                   !.steps = IF @ = 0 THEN StepsFor(idx.used) ELSE @]
             /\ UNCHANGED <<file, mode, rd>>
     /\ trail' = [trail EXCEPT !.from = idx'.curr]

-----------------------------------------------------------------------------
(* The reader's own calls.                                                  *)

\* The current entry outlives the close.
CloseIndexed ==
  /\ Close
  /\ idx' = [EmptyIndex EXCEPT !.curr = idx.curr]
  /\ got' = <<>> /\ trail' = NoTrail
  /\ UNCHANGED stored

OpenIndexed(f, m) ==
  /\ Open(f, m)
  /\ UNCHANGED ivars

\* FirstMsg and LastMsg in mode READ_IN_ORDER go to an entry.
GoTo(Call, entry) ==
  /\ Call
  /\ idx' = [idx EXCEPT !.curr = IF mode = "READ_IN_ORDER" THEN entry ELSE @]
  /\ got' = <<>> /\ trail' = [trail EXCEPT !.from = idx'.curr]
  /\ UNCHANGED stored

ReadOn ==
  /\ \/ (mode = "READ" \/ idx.sort # "Sorted") /\ ReadNextHeader
     \/ \E p \in Offsets : SetPos(p)
     \/ \E n \in BuffSizes : ReadData(n)
  /\ UNCHANGED ivars

IndexNext ==
  /\ ret.status # "ABORT"
  /\ \/ mode = "CLOSED" /\ \E f \in Files, m \in Modes : OpenIndexed(f, m)
     \/ CloseIndexed
     \/ GoTo(FirstMsg, 0)
     \/ GoTo(LastMsg, idx.used - 1)
     \/ ReadOn
     \/ MakeInOrderIndex
     \/ WriteInOrderIndex
     \/ ReadInOrderIndex
     \/ ReadNextHeaderInOrder
     \/ \E t \in SeekTimes : SetPosToIrigTime(t)

IndexSpec == IndexInit /\ [][IndexNext]_allvars

-----------------------------------------------------------------------------
(* Properties.                                                              *)

\* The index is of the file that is open, built or loaded once into an empty array.
Faithful ==
  /\ mode # "CLOSED" /\ idx.sort = "Sorted"
  /\ trail.whole /\ trail.of = file
  /\ Recording(file) /\ Clean(file)

Used == SubSeq(idx.arr, 1, idx.used)

\* The index of a sound recording, built or loaded back from its index file by this or a
\* later open, is a permutation of the recording's packets with the times of their headers,
\* sorted by them behind the first two, for which the recorder's order is kept.
IndexIsSortedPermutation ==
  Faithful =>
    /\ {Used[i].at : i \in DOMAIN Used} = file.pkts /\ Len(Used) = Cardinality(file.pkts)
    /\ \A i \in DOMAIN Used : Used[i].time = RefTime(file, Used[i].at)
    /\ \A i, j \in DOMAIN Used : 3 <= i /\ i < j => Used[i].time <= Used[j].time
    /\ \A i \in {1, 2}, j \in DOMAIN Used : i < j => Used[i].at < Used[j].at

\* Reading in order returns each packet from where it began once, in the order of the
\* index, whatever seeks, reads and failed reads the program makes in between, and does
\* not say EOF before it has returned them all.
InOrderOnce ==
  (Faithful /\ mode = "READ" /\ trail.from \in 0..idx.used) =>
    /\ trail.from + Len(got) <= idx.used
    /\ \A i \in DOMAIN got : got[i] = Used[trail.from + i].at
    /\ idx.curr = trail.from + Len(got)

=============================================================================
