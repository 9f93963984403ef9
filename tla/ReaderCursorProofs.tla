-------------------------- MODULE ReaderCursorProofs --------------------------
(***************************************************************************)
(* On recordings the reader implements the cursor of PacketCursor: every   *)
(* initial state is one of the cursor, and every call is one step of it or *)
(* leaves it alone.  Payloads may hold any sync patterns and headers.      *)
(***************************************************************************)
EXTENDS ReaderCursor, Ch10ReaderProofs

\* Files written by a recorder and not damaged since, opened to be read as they lie, into
\* buffers that fall short of the uint32_t range by a header: with a larger one the
\* wrapped data length of a payload's false header would be read and not refused.
OnRecordings ==
  /\ Modes = {"READ"} /\ \A f \in Files : Recording(f)
  /\ \A n \in BuffSizes : n + HEADER_SIZE + SEC_HEADER_SIZE < UINT32

\* What a packet boundary of a recording is followed by.
LEMMA BoundaryFacts ==
  ASSUME OnRecordings, NEW f \in Files
  PROVE  /\ Tiled(f) /\ f.size \in Nat /\ f.size \notin f.pkts
         /\ 0 \in f.pkts
         /\ \A s \in f.pkts : /\ s \in Nat /\ s \in DOMAIN f.cand /\ Good(f, s)
                             /\ s + f.cand[s].len \in f.pkts \cup {f.size}
<1>1. Recording(f)
  BY DEF OnRecordings
<1>2. Tiled(f) /\ 0 \in f.pkts /\ \A s \in f.pkts : Good(f, s)
  BY <1>1 DEF Recording, Tiled
<1>3. \A s \in f.pkts : /\ s \in Nat /\ f.size \in Nat /\ s \in DOMAIN f.cand
                       /\ s + HEADER_SIZE <= f.size
                       /\ s + f.cand[s].len \in f.pkts \cup {f.size}
  BY <1>2, TilingFacts
<1>4. f.size \notin f.pkts
  BY <1>3, ReaderAssumption
<1>. QED
  BY <1>2, <1>3, <1>4

\* The fields of the abstract recording.
LEMMA AsRecordingFields ==
  ASSUME NEW f
  PROVE  /\ AsRecording(f).starts = f.pkts /\ AsRecording(f).end = f.size
         /\ \A s \in f.pkts : AsRecording(f).after[s] = s + f.cand[s].len
BY DEF AsRecording

\* The cursor is one of its places.
LEMMA CursorPlaces ==
  ASSUME NEW f, NEW m, NEW r
  PROVE  CursorOf(f, m, r) \in Cursor!Places(AsRecording(f))
BY AsRecordingFields DEF CursorOf, Cursor!Places, Cursor!Nowhere

\* What the cursor's caller sees of a status.
LEMMA GotFacts ==
  ASSUME NEW st, NEW at
  PROVE  /\ GotOf(Returned("FirstMsg", st, at)) = Cursor!Rewound
         /\ \A op \in {"Close", "SetPos", "LastMsg", "ReadPrevHeader"} :
              GotOf(Returned(op, st, at)) = Cursor!Moved
         /\ \A op \in {"None", "Open", "ReadData"} :
              GotOf(Returned(op, st, at)) = Cursor!Nothing
         /\ st = "EOF" => GotOf(Returned("ReadNextHeader", st, at)) = Cursor!AtEnd
         /\ st = "HEADER_CHKSUM_BAD" =>
              GotOf(Returned("ReadNextHeader", st, at)) = Cursor!Damaged
         /\ st = "OK" => GotOf(Returned("ReadNextHeader", st, at)) = at
BY DEF GotOf, Returned, Cursor!Rewound, Cursor!Moved, Cursor!Nothing, Cursor!AtEnd, Cursor!Damaged

-----------------------------------------------------------------------------

\* The initial states.
LEMMA CursorInits ==
  ASSUME Init PROVE Cursor!CursorInit
<1>1. file \in Files /\ mode = "CLOSED" /\ ret = Returned("None", "OK", NoHeader)
  BY DEF Init
<1>2. CursorOf(file, mode, rd) = Cursor!Nowhere
  BY <1>1 DEF CursorOf, Cursor!Nowhere
<1>3. GotOf(ret) = Cursor!Nothing
  BY <1>1, GotFacts
<1>. QED
  BY <1>1, <1>2, <1>3 DEF Cursor!CursorInit

\* Opening: the first packet comes next, or the one behind it after a warning.
LEMMA OpenSteps ==
  ASSUME OnRecordings, IInv, NEW f \in Files, NEW m \in Modes, Open(f, m)
  PROVE  Cursor!CursorStep
<1>1. CursorOf(file, mode, rd) = Cursor!Nowhere
  BY DEF Open, CursorOf, Cursor!Nowhere
<1>2. CASE ~f.sig
  <2>1. UNCHANGED <<file, mode, rd>> /\ ret' = Returned("Open", "OPEN_ERROR", NoHeader)
    BY <1>2 DEF Open
  <2>2. GotOf(ret') = Cursor!Nothing
    BY <2>1, GotFacts
  <2>3. Cursor!CursorData
    BY <2>1, <2>2 DEF Cursor!CursorData
  <2>. QED
    BY <2>3 DEF Cursor!CursorStep
<1>3. CASE f.sig
  <2>1. file' = f /\ mode' = "READ" /\ m = "READ" /\ OpenFile(f, m)
    BY <1>3 DEF Open, OnRecordings
  <2>2. 0 \in f.pkts /\ Good(f, 0) /\ 0 + f.cand[0].len \in f.pkts \cup {f.size}
    BY BoundaryFacts
  <2>3. Probe(f, m) = {FoundAt(f, 0)}
    BY <2>1, <2>2, SearchAtGood DEF Probe
  <2>4. \/ rd' = [FoundAt(f, 0).rd EXCEPT !.pos = 0, !.state = "ReadHeader"]
        \/ rd' = FoundAt(f, 0).rd
    BY <2>1, <2>3 DEF OpenFile
  <2>5. FoundAt(f, 0).rd \in Reader
    BY <2>2, FoundFacts
  <2>6. NextOffset(rd') \in {0, f.cand[0].len}
    <3>1. CASE rd' = FoundAt(f, 0).rd
      <4>1. NextOffset(rd') = 0 + f.cand[0].len
        BY <2>2, <3>1, FoundNext
      <4>2. f.cand[0].len \in Nat
        BY <2>2, HeaderFacts DEF Good, HeaderOk
      <4>. QED
        BY <4>1, <4>2
    <3>2. CASE rd' = [FoundAt(f, 0).rd EXCEPT !.pos = 0, !.state = "ReadHeader"]
      BY <2>5, <3>2 DEF NextOffset, Reader
    <3>. QED
      BY <2>4, <3>1, <3>2
  <2>7. f.cand[0].len = 0 + f.cand[0].len
    BY <2>2, HeaderFacts DEF Good, HeaderOk
  <2>8. CursorOf(f, mode', rd') \in {0, AsRecording(f).after[0]}
    BY <2>1, <2>2, <2>6, <2>7, AsRecordingFields DEF CursorOf
  <2>9. GotOf(ret') = Cursor!Nothing
    <3>1. \E st : ret' = Returned("Open", st, NoHeader)
      BY <2>1 DEF OpenFile
    <3>. QED
      BY <3>1, GotFacts
  <2>10. Cursor!CursorOpen
    BY <1>1, <2>1, <2>8, <2>9 DEF Cursor!CursorOpen
  <2>. QED
    BY <2>10 DEF Cursor!CursorStep
<1>. QED
  BY <1>2, <1>3

\* Reading the next header: the packet at the cursor, the end, or anything from a place
\* that is not a boundary.
LEMMA NextSteps ==
  ASSUME OnRecordings, IInv, ReadNextHeader
  PROVE  Cursor!CursorStep
<1>1. file \in Files /\ rd \in Reader /\ mode = "READ" /\ UNCHANGED <<file, mode>>
  BY DEF IInv, TypeOK, ReadNextHeader, OnRecordings
<1>. DEFINE p == NextOffset(rd)
            r == SkipToNext(rd)
<1>2. p \in Nat /\ r \in Reader
  BY <1>1, IInvParts, NextOffsetNat DEF ReaderInv
<1>3. PICK o \in HeaderSearch(file, r, p) :
        rd' = o.rd /\ ret' = Returned("ReadNextHeader", o.status, o.at)
  BY <1>1 DEF ReadNextHeader
<1>. HIDE DEF p, r
<1>4. CASE p \in file.pkts
  <2>1. Good(file, p) /\ p + file.cand[p].len \in file.pkts \cup {file.size}
    BY <1>1, <1>4, BoundaryFacts
  <2>2. o = FoundAt(file, p)
    BY <1>1, <1>3, <2>1, SearchAtGood
  <2>3. GotOf(ret') = p
    <3>1. o.status = "OK" /\ o.at = p
      BY <1>1, <2>1, <2>2, FoundFacts
    <3>. QED
      BY <1>3, <3>1, GotFacts
  <2>4. NextOffset(rd') = p + file.cand[p].len
    BY <1>1, <1>3, <2>1, <2>2, FoundNext
  <2>5. CursorOf(file, mode, rd) = p
    BY <1>1, <1>4 DEF CursorOf, p
  <2>6. CursorOf(file, mode, rd') = AsRecording(file).after[p]
    BY <1>1, <1>4, <2>1, <2>4, AsRecordingFields DEF CursorOf
  <2>7. Cursor!CursorNext
    BY <1>1, <1>4, <2>3, <2>5, <2>6, AsRecordingFields DEF Cursor!CursorNext
  <2>. QED
    BY <2>7 DEF Cursor!CursorStep
<1>5. CASE p = file.size
  <2>1. p \notin DOMAIN file.cand
    <3>1. p + HEADER_SIZE > file.size
      BY <1>1, <1>2, <1>5, ReaderAssumption
    <3>. QED
      BY <1>1, <3>1, HeaderFacts, ReaderAssumption
  <2>2. ~BadChecksum(file, p) /\ ~Good(file, p) /\ ~SecTruncated(file, p)
    BY <2>1 DEF BadChecksum, Good, SecTruncated, HeaderOk
  <2>3. SearchStops(file, p) \subseteq {p}
    BY <1>2, <1>5 DEF SearchStops, MaxOf
  <2>4. o = ShortRead(file, r, p)
    BY <1>3, <2>2, <2>3 DEF HeaderSearch
  <2>5. o.status = "EOF" /\ o.rd.state = "Unsynced" /\ o.rd.pos = p
    BY <1>2, <1>5, <2>4 DEF ShortRead, Outcome, Reader, MaxOf
  <2>6. GotOf(ret') = Cursor!AtEnd
    BY <1>3, <2>5, GotFacts
  <2>7. CursorOf(file, mode, rd) = p
    BY <1>1, <1>5 DEF CursorOf, p
  <2>8. CursorOf(file, mode, rd') = p
    BY <1>1, <1>3, <1>5, <2>5 DEF CursorOf, NextOffset
  <2>9. Cursor!CursorEnd
    BY <1>1, <1>5, <2>6, <2>7, <2>8, AsRecordingFields DEF Cursor!CursorEnd
  <2>. QED
    BY <2>9 DEF Cursor!CursorStep
<1>6. CASE p \notin file.pkts \cup {file.size}
  <2>1. CursorOf(file, mode, rd) = Cursor!Nowhere
    BY <1>6 DEF CursorOf, Cursor!Nowhere, p
  <2>2. CursorOf(file, mode, rd') \in Cursor!Places(AsRecording(file))
    BY CursorPlaces
  <2>3. GotOf(ret') \notin {Cursor!Nothing, Cursor!Rewound, Cursor!Moved}
    <3>1. /\ o.status \in {"OK", "EOF", "HEADER_CHKSUM_BAD"}
          /\ o.status = "OK" => o.at \in Nat
      BY <1>1, <1>2, <1>3, SearchFacts, HeaderFacts
    <3>2. GotOf(ret') \in Nat \cup {Cursor!AtEnd, Cursor!Damaged}
      BY <1>3, <3>1, GotFacts
    <3>. QED
      BY <3>2 DEF Cursor!Nothing, Cursor!Rewound, Cursor!Moved, Cursor!AtEnd, Cursor!Damaged
  <2>4. Cursor!CursorLost
    BY <1>1, <2>1, <2>2, <2>3 DEF Cursor!CursorLost
  <2>. QED
    BY <2>4 DEF Cursor!CursorStep
<1>. QED
  BY <1>4, <1>5, <1>6

\* The remainder of a negative number.
LEMMA WrapsAround ==
  ASSUME NEW m \in Nat \ {0}, NEW x \in Nat, 0 < x, x < m
  PROVE  (-x) % m = m - x
OBVIOUS

\* Reading data, in full or refused, leaves the next header where it was: of a recording
\* every packet's data is there, and its length does not wrap.  Only a false header may
\* claim data beyond the end of the file, which the read then leaves the reader at.
LEMMA DataSteps ==
  ASSUME OnRecordings, IInv, NEW n \in BuffSizes, ReadData(n)
  PROVE  Cursor!CursorStep
<1>1. file \in Files /\ rd \in Reader /\ UNCHANGED <<file, mode>>
  BY DEF IInv, TypeOK, ReadData
<1>2. GotOf(ret') = Cursor!Nothing
  <2>1. \E st : ret' = Returned("ReadData", st, NoHeader)
    BY DEF ReadData
  <2>. QED
    BY <2>1, GotFacts
<1>3. \/ NextOffset(rd') = NextOffset(rd)
      \/ NextOffset(rd) > file.size /\ NextOffset(rd') = file.size
  <2>1. CASE rd.state # "ReadData"
    <3>1. rd' = [rd EXCEPT !.state = "Unsynced"]
      BY <2>1 DEF ReadData
    <3>. QED
      BY <1>1, <2>1, <3>1 DEF NextOffset, Reader
  <2>2. CASE rd' = rd
    BY <2>2
  <2>3. CASE rd.state = "ReadData" /\ n >= ReadAmount(rd)
    <3>1. PICK q \in DOMAIN file.cand : Good(file, q) /\ rd = FoundAt(file, q).rd
      BY <2>3 DEF IInv, PositionConsistent
    <3>. DEFINE h == file.cand[q]
    <3>2. /\ q \in Nat /\ h.len \in 0..(UINT32 - 1) /\ HeaderLen(h) \in Nat /\ DataLen(h) \in Nat
          /\ file.size \in Nat
      BY <1>1, HeaderFacts DEF Header
    <3>3. /\ rd.pos = q + HeaderLen(h) /\ rd.hlen = HeaderLen(h) /\ rd.dlen = DataLen(h)
          /\ rd.rpos = 0
      BY <3>1 DEF FoundAt, Outcome
    <3>4. NextOffset(rd) = q + h.len
      BY <1>1, <3>1, FoundNext
    <3>5. ReadAmount(rd) = DataLen(h)
      BY <3>2, <3>3 DEF ReadAmount
    <3>6. q + HeaderLen(h) <= file.size
      <4>1. h.sec => q + (HEADER_SIZE + SEC_HEADER_SIZE) <= file.size
        BY <3>1, <3>2, ReaderAssumption DEF Good, SecFits
      <4>2. q + HEADER_SIZE <= file.size
        BY <1>1, HeaderFacts
      <4>. QED
        BY <4>1, <4>2 DEF HeaderLen
    <3>7. HeaderLen(h) <= h.len
      <4>. SUFFICES ASSUME h.len < HeaderLen(h) PROVE FALSE
        BY <3>2
      <4>1. n \in Nat /\ n + HEADER_SIZE + SEC_HEADER_SIZE < UINT32
        BY ReaderAssumption DEF OnRecordings
      <4>2. HeaderLen(h) <= HEADER_SIZE + SEC_HEADER_SIZE
        BY ReaderAssumption DEF HeaderLen
      <4>. DEFINE x == HeaderLen(h) - h.len
      <4>3. x \in Nat /\ 0 < x /\ x < UINT32 /\ h.len - HeaderLen(h) = -x
        BY <3>2, <4>1, <4>2, ReaderAssumption
      <4>4. DataLen(h) = (-x) % UINT32
        BY <4>3 DEF DataLen
      <4>. HIDE DEF x
      <4>5. DataLen(h) = UINT32 - x
        BY <4>3, <4>4, WrapsAround, ReaderAssumption
      <4>6. x <= HEADER_SIZE + SEC_HEADER_SIZE
        BY <3>2, <4>2, ReaderAssumption DEF x
      <4>. QED
        BY <2>3, <3>5, <4>1, <4>3, <4>5, <4>6, ReaderAssumption
    <3>8. rd.pos + ReadAmount(rd) = q + h.len
      <4>1. DataLen(h) = h.len - HeaderLen(h)
        BY <3>2, <3>7, ReaderAssumption DEF DataLen
      <4>. QED
        BY <3>2, <3>3, <3>5, <4>1
    <3>9. CASE rd' = [rd EXCEPT !.state = "ReadHeader", !.pos = @ + ReadAmount(rd),
                                !.rpos = ReadAmount(rd)]
      <4>1. rd'.state = "ReadHeader" /\ rd'.pos = rd.pos + ReadAmount(rd)
        BY <1>1, <3>9 DEF Reader
      <4>. QED
        BY <3>4, <3>8, <4>1 DEF NextOffset
    <3>10. CASE rd.pos + ReadAmount(rd) > file.size /\ rd' = Seek(rd, MaxOf(rd.pos, file.size))
      <4>1. MaxOf(rd.pos, file.size) = file.size
        BY <3>2, <3>3, <3>6 DEF MaxOf
      <4>2. NextOffset(rd') = file.size
        BY <1>1, <3>10, <4>1 DEF Seek, NextOffset, Reader
      <4>. QED
        BY <3>4, <3>8, <3>10, <4>2
    <3>. QED
      BY <2>3, <3>9, <3>10, <1>1 DEF ReadData
  <2>. QED
    BY <1>1, <2>1, <2>2, <2>3 DEF ReadData
<1>4. \/ CursorOf(file, mode, rd') = CursorOf(file, mode, rd)
      \/ /\ CursorOf(file, mode, rd) = Cursor!Nowhere
         /\ CursorOf(file, mode, rd') = AsRecording(file).end
  <2>1. CASE NextOffset(rd') = NextOffset(rd)
    BY <2>1 DEF CursorOf
  <2>2. CASE NextOffset(rd) > file.size /\ NextOffset(rd') = file.size
    <3>1. NextOffset(rd) \notin file.pkts \cup {file.size}
      BY <1>1, <2>2, BoundaryFacts, HeaderFacts, ReaderAssumption
    <3>2. mode = "READ"
      BY DEF ReadData, IInv, TypeOK, OnRecordings
    <3>. QED
      BY <2>2, <3>1, <3>2, AsRecordingFields DEF CursorOf, Cursor!Nowhere
  <2>. QED
    BY <1>3, <2>1, <2>2
<1>5. Cursor!CursorData
  BY <1>1, <1>2, <1>4 DEF Cursor!CursorData
<1>. QED
  BY <1>5 DEF Cursor!CursorStep

\* Moving by offset, moving backward and closing may lose the boundary; going to the
\* first packet finds it.
LEMMA MoveSteps ==
  ASSUME OnRecordings, IInv,
         \/ Close \/ (\E p \in Offsets : SetPos(p)) \/ FirstMsg \/ LastMsg \/ ReadPrevHeader
  PROVE  Cursor!CursorStep
<1>1. file' = file /\ file \in Files /\ rd \in Reader
  BY DEF Close, SetPos, FirstMsg, LastMsg, ReadPrevHeader, IInv, TypeOK
<1>2. CASE FirstMsg
  <2>1. mode' = "READ" /\ rd' = Seek(rd, 0) /\ ret' = Returned("FirstMsg", "OK", NoHeader)
    BY <1>2 DEF FirstMsg, IInv, TypeOK, OnRecordings
  <2>2. CursorOf(file, mode', rd') = 0
    <3>1. NextOffset(rd') = 0
      BY <1>1, <2>1 DEF Seek, NextOffset, Reader
    <3>. QED
      BY <1>1, <2>1, <3>1, BoundaryFacts DEF CursorOf
  <2>3. GotOf(ret') = Cursor!Rewound
    BY <2>1, GotFacts
  <2>4. Cursor!CursorFirst
    BY <1>1, <2>2, <2>3 DEF Cursor!CursorFirst
  <2>. QED
    BY <2>4 DEF Cursor!CursorStep
<1>3. CASE Close \/ (\E p \in Offsets : SetPos(p)) \/ LastMsg \/ ReadPrevHeader
  <2>1. \E op \in {"Close", "SetPos", "LastMsg", "ReadPrevHeader"} : \E st, at :
          ret' = Returned(op, st, at)
    BY <1>3 DEF Close, SetPos, LastMsg, ReadPrevHeader
  <2>2. GotOf(ret') = Cursor!Moved
    BY <2>1, GotFacts
  <2>3. CursorOf(file, mode', rd') \in Cursor!Places(AsRecording(file))
    BY CursorPlaces
  <2>4. Cursor!CursorJump
    BY <1>1, <2>2, <2>3 DEF Cursor!CursorJump
  <2>. QED
    BY <2>4 DEF Cursor!CursorStep
<1>. QED
  BY <1>2, <1>3

\* The reader implements the cursor on every set of recordings: from a packet boundary,
\* header reads return the recorder's packets one after the other, EOF comes at the end,
\* and neither data reads nor refused ones move the boundary.
THEOREM ReaderImplementsCursor ==
  ASSUME OnRecordings PROVE Spec => ImplementsCursor
<1>1. Init => Cursor!CursorInit
  BY CursorInits
<1>2. IInv /\ [Next]_vars => [Cursor!CursorStep]_(Cursor!cvars)
  <2>. SUFFICES ASSUME IInv, [Next]_vars
                PROVE  [Cursor!CursorStep]_(Cursor!cvars)
    OBVIOUS
  <2>1. ASSUME NEW f \in Files, NEW m \in Modes, Open(f, m) PROVE Cursor!CursorStep
    BY <2>1, OpenSteps
  <2>2. CASE Close \/ (\E p \in Offsets : SetPos(p)) \/ FirstMsg \/ LastMsg \/ ReadPrevHeader
    BY <2>2, MoveSteps
  <2>3. CASE ReadNextHeader
    BY <2>3, NextSteps
  <2>4. ASSUME NEW n \in BuffSizes, ReadData(n) PROVE Cursor!CursorStep
    BY <2>4, DataSteps
  <2>5. CASE UNCHANGED vars
    BY <2>5 DEF vars, Cursor!cvars
  <2>. QED
    BY <2>1, <2>2, <2>3, <2>4, <2>5 DEF Next
<1>. QED
  BY <1>1, <1>2, Inductive, PTL DEF Spec, ImplementsCursor, Cursor!CursorSpec

=============================================================================
