-------------------------- MODULE Ch10ReaderProofs --------------------------
(***************************************************************************)
(* The position and the length fields of the reader stay consistent for    *)
(* every set of files, header lengths, offsets and buffer sizes.  Then     *)
(* what the loops over the headers of a file are built from: that a search *)
(* always ends, what it returns on a clean recording, that going back to a *)
(* position does not lose the place, and that a walk over the headers is   *)
(* well defined.                                                           *)
(***************************************************************************)
EXTENDS HeaderWalk, TLAPS, WellFoundedInduction, FiniteSetTheorems

\* A handle is only kept for a file that starts with the sync pattern.
OpenHasSync == mode # "CLOSED" => file.sig

\* PositionConsistent of a reader r of file f.
InStep(f, r) ==
  /\ r \in Reader
  /\ r.state = "ReadData" => \E q \in DOMAIN f.cand : Good(f, q) /\ r = FoundAt(f, q).rd
  /\ r.state = "ReadHeader" =>
       \/ r.pos = 0
       \/ \E q \in DOMAIN f.cand :
            /\ Good(f, q)
            /\ r.hlen = HeaderLen(f.cand[q]) /\ r.rpos = DataLen(f.cand[q])
            /\ r.pos = q + r.hlen + r.rpos

\* What every call of the reader preserves, whatever else a program calls in between.
ReaderInv ==
  /\ file \in Files /\ mode \in {"CLOSED"} \cup Modes
  /\ InStep(file, rd)
  /\ OpenHasSync

Returns == [op : Ops, status : Status, at : Nat \cup {NoHeader}]

\* TypeOK is not inductive without PositionConsistent: that the seek over the rest of a
\* packet ends at a natural number follows from where the length fields came from.
IInv == TypeOK /\ PositionConsistent /\ OpenHasSync

\* The invariant is that of the reader and the type of what its calls return.
LEMMA IInvParts == IInv <=> ReaderInv /\ ret \in Returns
BY DEF IInv, ReaderInv, InStep, TypeOK, PositionConsistent, Returns

\* What is known of every header the code has checked.
LEMMA HeaderFacts ==
  ASSUME NEW f \in Files, NEW q \in DOMAIN f.cand
  PROVE  /\ q \in Nat /\ q + HEADER_SIZE <= f.size /\ f.size \in Nat
         /\ f.cand[q] \in Header
         /\ f.cand[q].len \in Nat
         /\ HeaderLen(f.cand[q]) \in Nat
         /\ DataLen(f.cand[q]) \in Nat
<1>1. IsFile(f)
  BY ReaderAssumption
<1>2. q \in Nat /\ q + HEADER_SIZE <= f.size /\ f.size \in Nat /\ f.cand[q] \in Header
  BY <1>1, ReaderAssumption DEF IsFile
<1>3. f.cand[q].len \in Nat /\ f.cand[q].sec \in BOOLEAN
  BY <1>2 DEF Header
<1>4. HeaderLen(f.cand[q]) \in Nat
  BY <1>3, ReaderAssumption DEF HeaderLen
<1>5. DataLen(f.cand[q]) \in Nat
  BY <1>3, <1>4, ReaderAssumption DEF DataLen
<1>. QED
  BY <1>2, <1>3, <1>4, <1>5

\* A good header puts the reader in ReadData, just behind it.
LEMMA FoundFacts ==
  ASSUME NEW f \in Files, NEW q, Good(f, q)
  PROVE  /\ q \in DOMAIN f.cand
         /\ FoundAt(f, q).rd \in Reader
         /\ FoundAt(f, q).rd.state = "ReadData"
         /\ FoundAt(f, q).status = "OK"
         /\ FoundAt(f, q).at = q
<1>1. q \in DOMAIN f.cand
  BY DEF Good, HeaderOk
<1>2. /\ q \in Nat /\ f.cand[q].len \in Nat
      /\ HeaderLen(f.cand[q]) \in Nat /\ DataLen(f.cand[q]) \in Nat
  BY <1>1, HeaderFacts
<1>. QED
  BY <1>1, <1>2 DEF FoundAt, Outcome, Reader

\* Every outcome of the search for a header.
LEMMA SearchFacts ==
  ASSUME NEW f \in Files, NEW r \in Reader, NEW p \in Nat, NEW o \in HeaderSearch(f, r, p)
  PROVE  /\ o.rd \in Reader
         /\ o.status \in {"OK", "EOF", "HEADER_CHKSUM_BAD"}
         /\ o.at \in Nat \cup {NoHeader}
         /\ o.rd.state \in {"ReadData", "Unsynced"}
         /\ o.rd.state = "ReadData" => \E q \in DOMAIN f.cand : Good(f, q) /\ o.rd = FoundAt(f, q).rd
         /\ o.status = "OK" => o.rd.state = "ReadData" /\ o.at \in DOMAIN f.cand
<1>1. CASE r.state # "Unsynced" /\ BadChecksum(f, p)
  <2>1. o = ChecksumBad(f, r, p)
    BY <1>1 DEF HeaderSearch
  <2>. DEFINE n == IF f.cand[p].ok THEN HEADER_SIZE + SEC_HEADER_SIZE ELSE HEADER_SIZE
              s == [r EXCEPT !.state = "Unsynced", !.pos = p + n, !.hlen = n]
  <2>2. n \in Nat /\ p + n \in Nat
    BY ReaderAssumption
  <2>3. o = Outcome("HEADER_CHKSUM_BAD", NoHeader, s)
    BY <2>1 DEF ChecksumBad
  <2>4. o.rd = s /\ o.status = "HEADER_CHKSUM_BAD" /\ o.at = NoHeader
    BY <2>3 DEF Outcome
  <2>. HIDE DEF n
  <2>5. s \in Reader /\ s.state = "Unsynced"
    BY <2>2 DEF Reader
  <2>. QED
    BY <2>4, <2>5
<1>2. CASE ~(r.state # "Unsynced" /\ BadChecksum(f, p))
  <2>1. PICK q \in SearchStops(f, p) : o = IF Good(f, q) THEN FoundAt(f, q) ELSE ShortRead(f, r, q)
    BY <1>2 DEF HeaderSearch
  <2>2. f.size \in Nat
    BY ReaderAssumption DEF IsFile
  <2>3. q \in Nat
    BY <2>1, <2>2 DEF SearchStops, MaxOf
  <2>4. CASE Good(f, q)
    BY <2>1, <2>3, <2>4, FoundFacts
  <2>5. CASE ~Good(f, q)
    <3>1. o = ShortRead(f, r, q)
      BY <2>1, <2>5
    <3>2. MaxOf(q, f.size) \in Nat
      BY <2>2, <2>3 DEF MaxOf
    <3>. DEFINE n == IF SecTruncated(f, q) THEN HEADER_SIZE + SEC_HEADER_SIZE ELSE HEADER_SIZE
                s == [r EXCEPT !.state = "Unsynced", !.pos = MaxOf(q, f.size), !.hlen = n]
    <3>3. n \in Nat
      BY ReaderAssumption
    <3>4. o.rd = s /\ o.status = "EOF" /\ o.at = NoHeader
      BY <3>1 DEF ShortRead, Outcome
    <3>5. s \in Reader /\ s.state = "Unsynced"
      BY <3>2, <3>3 DEF Reader
    <3>. QED
      BY <3>4, <3>5
  <2>. QED
    BY <2>4, <2>5
<1>. QED
  BY <1>1, <1>2

\* A seek to a natural number.
LEMMA SeekFacts ==
  ASSUME NEW r \in Reader, NEW p \in Nat
  PROVE  /\ Seek(r, p) \in Reader /\ Seek(r, p).state = "Unsynced" /\ Seek(r, p).pos = p
         /\ \A f : InStep(f, Seek(r, p))
BY DEF Seek, Reader, InStep

\* A search for a header leaves the reader in step.
LEMMA SearchInStep ==
  ASSUME NEW f \in Files, NEW r \in Reader, NEW p \in Nat, NEW o \in HeaderSearch(f, r, p)
  PROVE  InStep(f, o.rd)
BY SearchFacts DEF InStep

\* The place where the next search begins is never negative.
LEMMA NextOffsetNat ==
  ASSUME NEW f \in Files, NEW r, InStep(f, r)
  PROVE  NextOffset(r) \in Nat /\ SkipToNext(r) \in Reader
<1>1. r \in Reader
  BY DEF InStep
<1>2. CASE r.state = "ReadData"
  <2>1. PICK q \in DOMAIN f.cand : Good(f, q) /\ r = FoundAt(f, q).rd
    BY <1>2 DEF InStep
  <2>2. /\ q \in Nat /\ f.cand[q].len \in Nat /\ HeaderLen(f.cand[q]) \in Nat
    BY <2>1, HeaderFacts
  <2>3. /\ r.pos = q + HeaderLen(f.cand[q]) /\ r.hlen = HeaderLen(f.cand[q])
        /\ r.plen = f.cand[q].len /\ r.rpos = 0
    BY <2>1 DEF FoundAt, Outcome
  <2>4. NextOffset(r) = q + f.cand[q].len
    BY <1>2, <2>2, <2>3 DEF NextOffset
  <2>5. NextOffset(r) \in Nat
    BY <2>2, <2>4
  <2>. QED
    BY <1>1, <1>2, <2>5, SeekFacts DEF SkipToNext
<1>3. CASE r.state # "ReadData"
  BY <1>1, <1>3 DEF NextOffset, SkipToNext, Reader
<1>. QED
  BY <1>2, <1>3

-----------------------------------------------------------------------------

\* The initial states.
LEMMA InitIInv == Init => IInv
<1>. SUFFICES ASSUME Init PROVE IInv
  OBVIOUS
<1>1. TypeOK
  BY DEF Init, TypeOK, Reader, Returned, Ops, Status
<1>2. PositionConsistent /\ OpenHasSync
  BY DEF Init, PositionConsistent, OpenHasSync
<1>. QED
  BY <1>1, <1>2 DEF IInv

\* A call on an open handle that leaves the reader in step.
LEMMA InStepPreserves ==
  ASSUME ReaderInv, UNCHANGED <<file, mode>>, InStep(file, rd') \/ rd' = rd
  PROVE  ReaderInv'
BY DEF ReaderInv, InStep, OpenHasSync

\* Open: the probe is a search from the beginning of the file.
LEMMA OpenPreserves ==
  ASSUME ReaderInv, NEW f \in Files, NEW m \in Modes, Open(f, m)
  PROVE  ReaderInv'
<1>1. CASE ~f.sig
  BY <1>1, InStepPreserves DEF Open
<1>2. CASE f.sig
  <2>1. file' = f /\ mode' = m /\ OpenFile(f, m)
    BY <1>2 DEF Open
  <2>2. PICK o \in Probe(f, m) :
          \/ rd' = [o.rd EXCEPT !.pos = 0, !.state = "ReadHeader"]
          \/ rd' = o.rd
    BY <2>1 DEF OpenFile
  <2>3. Seek(rd, 0) \in Reader /\ InStep(f, Seek(rd, 0))
    BY SeekFacts DEF ReaderInv, InStep
  <2>4. InStep(f, o.rd)
    <3>1. CASE m = "READ"
      BY <3>1, <2>3, SearchInStep DEF Probe
    <3>2. CASE m # "READ"
      <4>1. o = Outcome("WRONG_FILE_MODE", NoHeader, Seek(rd, 0))
        BY <3>2 DEF Probe
      <4>. QED
        BY <4>1, <2>3 DEF Outcome
    <3>. QED
      BY <3>1, <3>2
  <2>5. InStep(f, rd')
    <3>1. CASE rd' = [o.rd EXCEPT !.pos = 0, !.state = "ReadHeader"]
      <4>1. rd' \in Reader /\ rd'.pos = 0 /\ rd'.state = "ReadHeader"
        BY <3>1, <2>4 DEF InStep, Reader
      <4>. QED
        BY <4>1 DEF InStep
    <3>. QED
      BY <2>2, <2>4, <3>1
  <2>. QED
    BY <1>2, <2>1, <2>5 DEF ReaderInv, InStep, OpenHasSync
<1>. QED
  BY <1>1, <1>2

-----------------------------------------------------------------------------

\* Reading the next header: a search from behind the packet read last.
LEMMA ReadNextHeaderPreserves ==
  ASSUME ReaderInv, ReadNextHeader PROVE ReaderInv'
<1>1. UNCHANGED <<file, mode>> /\ file \in Files /\ InStep(file, rd)
  BY DEF ReadNextHeader, ReaderInv
<1>2. CASE mode = "READ"
  <2>1. PICK o \in HeaderSearch(file, SkipToNext(rd), NextOffset(rd)) : rd' = o.rd
    BY <1>2 DEF ReadNextHeader
  <2>2. InStep(file, rd')
    BY <1>1, <2>1, NextOffsetNat, SearchInStep
  <2>. QED
    BY <1>1, <2>2, InStepPreserves
<1>3. CASE mode # "READ"
  BY <1>1, <1>3, InStepPreserves DEF ReadNextHeader
<1>. QED
  BY <1>2, <1>3

\* Reading data: done in full it puts the position right behind the data, otherwise
\* the reader is unsynced or has not moved.
LEMMA ReadDataPreserves ==
  ASSUME ReaderInv, NEW n, ReadData(n) PROVE ReaderInv'
<1>1. UNCHANGED <<file, mode>> /\ file \in Files /\ rd \in Reader /\ InStep(file, rd)
  BY DEF ReadData, ReaderInv, InStep
<1>2. file.size \in Nat
  BY <1>1, ReaderAssumption DEF IsFile
<1>3. CASE rd.state # "ReadData"
  <2>1. rd' = [rd EXCEPT !.state = "Unsynced"]
    BY <1>3 DEF ReadData
  <2>2. InStep(file, rd')
    BY <1>1, <2>1 DEF Reader, InStep
  <2>. QED
    BY <1>1, <2>2, InStepPreserves
<1>4. CASE rd' = rd
  BY <1>1, <1>4, InStepPreserves
<1>5. CASE rd' = Seek(rd, MaxOf(rd.pos, file.size))
  <2>1. MaxOf(rd.pos, file.size) \in Nat
    BY <1>1, <1>2 DEF MaxOf, Reader
  <2>. QED
    BY <1>1, <1>5, <2>1, SeekFacts, InStepPreserves
<1>6. CASE /\ rd.state = "ReadData"
           /\ rd' = [rd EXCEPT !.state = "ReadHeader", !.pos = @ + ReadAmount(rd),
                               !.rpos = ReadAmount(rd)]
  <2>1. PICK q \in DOMAIN file.cand : Good(file, q) /\ rd = FoundAt(file, q).rd
    BY <1>1, <1>6 DEF InStep
  <2>2. DataLen(file.cand[q]) \in Nat /\ HeaderLen(file.cand[q]) \in Nat /\ q \in Nat
    BY <1>1, HeaderFacts
  <2>3. /\ rd.pos = q + HeaderLen(file.cand[q]) /\ rd.hlen = HeaderLen(file.cand[q])
        /\ rd.dlen = DataLen(file.cand[q]) /\ rd.rpos = 0
    BY <2>1 DEF FoundAt, Outcome
  <2>4. ReadAmount(rd) = DataLen(file.cand[q])
    BY <2>2, <2>3 DEF ReadAmount
  <2>5. rd.pos \in Nat /\ rd.pos + ReadAmount(rd) \in Nat
    BY <2>2, <2>3, <2>4
  <2>6. /\ rd'.state = "ReadHeader" /\ rd'.pos = rd.pos + ReadAmount(rd)
        /\ rd'.rpos = ReadAmount(rd) /\ rd'.hlen = rd.hlen
    BY <1>1, <1>6 DEF Reader
  <2>7. rd' \in Reader
    BY <1>1, <1>6, <2>2, <2>4, <2>5 DEF Reader
  <2>8. /\ rd'.hlen = HeaderLen(file.cand[q]) /\ rd'.rpos = DataLen(file.cand[q])
        /\ rd'.pos = q + rd'.hlen + rd'.rpos
    BY <2>2, <2>3, <2>4, <2>6
  <2>9. InStep(file, rd')
    BY <2>1, <2>6, <2>7, <2>8 DEF InStep
  <2>. QED
    BY <1>1, <2>9, InStepPreserves
<1>. QED
  BY <1>3, <1>4, <1>5, <1>6 DEF ReadData

\* The candidates ReadPrevHeader tries and the position a fruitless scan leaves.
LEMMA ReadPrevHeaderPreserves ==
  ASSUME ReaderInv, ReadPrevHeader PROVE ReaderInv'
<1>1. UNCHANGED <<file, mode>> /\ file \in Files /\ rd \in Reader
  BY DEF ReadPrevHeader, ReaderInv, InStep
<1>. DEFINE c == CurrOffset(rd)
            hits == Hits(file, rd, c)
<1>2. ASSUME rd' = rd PROVE ReaderInv'
  BY <1>1, <1>2, InStepPreserves
<1>3. ASSUME NEW p \in Nat, rd' = Seek(rd, p) PROVE ReaderInv'
  BY <1>1, <1>3, SeekFacts, InStepPreserves
<1>4. ASSUME NEW q \in hits, NEW o \in Crack(file, rd, q), rd' = o.rd PROVE ReaderInv'
  <2>1. q \in Nat
    BY <1>1, HeaderFacts DEF Hits, Candidates
  <2>2. Seek(rd, q) \in Reader /\ o \in HeaderSearch(file, Seek(rd, q), q)
    BY <1>1, <2>1, SeekFacts DEF Crack
  <2>. QED
    BY <1>1, <1>4, <2>1, <2>2, SearchInStep, InStepPreserves
<1>5. ASSUME rd' \in NoHit(file, rd, c) PROVE ReaderInv'
  <2>1. file.size \in Nat
    BY <1>1, ReaderAssumption DEF IsFile
  <2>2. c \in Int
    BY <1>1 DEF CurrOffset, Reader
  <2>3. LastBlock(c) \in Nat
    BY <2>2, ReaderAssumption DEF LastBlock
  <2>4. AfterScan(file, c) \subseteq Nat
    BY <2>1, <2>3, ReaderAssumption DEF AfterScan
  <2>5. PICK p \in Nat : rd' = Seek(rd, p)
    BY <1>5, <2>1, <2>4 DEF NoHit
  <2>. QED
    BY <1>3, <2>5
<1>. QED
  BY <1>2, <1>3, <1>4, <1>5 DEF ReadPrevHeader

\* The calls that only move the position, and Close.
LEMMA PositioningPreserves ==
  ASSUME ReaderInv, Close \/ (\E p \in Offsets : SetPos(p)) \/ FirstMsg \/ LastMsg
  PROVE  ReaderInv'
<1>1. file \in Files /\ rd \in Reader /\ UNCHANGED file
  BY DEF ReaderInv, InStep, Close, SetPos, FirstMsg, LastMsg
<1>2. CASE Close
  <2>1. mode' = "CLOSED" /\ rd' = [rd EXCEPT !.state = "Closed"]
    BY <1>2 DEF Close
  <2>2. rd' \in Reader /\ rd'.state = "Closed"
    BY <1>1, <2>1 DEF Reader
  <2>. QED
    BY <1>1, <2>1, <2>2 DEF ReaderInv, InStep, OpenHasSync
<1>3. ASSUME NEW p \in Nat, rd' = Seek(rd, p), UNCHANGED mode
      PROVE  ReaderInv'
  BY <1>1, <1>3, SeekFacts, InStepPreserves
<1>4. ASSUME NEW p \in Offsets, SetPos(p) PROVE ReaderInv'
  BY <1>3, <1>4, ReaderAssumption DEF SetPos
<1>5. CASE FirstMsg
  BY <1>3, <1>5 DEF FirstMsg
<1>6. CASE LastMsg
  <2>1. UNCHANGED mode
    BY <1>6 DEF LastMsg
  <2>2. rd' = rd \/ \E p \in Nat : rd' = Seek(rd, p)
    <3>1. file.size \in Nat
      BY <1>1, ReaderAssumption DEF IsFile
    <3>2. LastMsgTries \subseteq Nat
      BY <3>1, ReaderAssumption DEF LastMsgTries
    <3>. QED
      BY <1>6, <3>2 DEF LastMsg
  <2>. QED
    BY <1>1, <1>3, <2>1, <2>2, InStepPreserves
<1>. QED
  BY <1>2, <1>4, <1>5, <1>6

\* The type of what a call returns.
LEMMA StepReturns ==
  ASSUME ReaderInv, ret \in Returns, [Next]_vars PROVE ret' \in Returns
<1>1. file \in Files /\ rd \in Reader /\ InStep(file, rd)
  BY DEF ReaderInv, InStep
<1>2. ASSUME NEW f \in Files, NEW m \in Modes, Open(f, m) PROVE ret' \in Returns
  <2>1. \E st \in {"OK", "OPEN_WARNING", "OPEN_ERROR"} : ret' = Returned("Open", st, NoHeader)
    BY <1>2 DEF Open, OpenFile
  <2>. QED
    BY <2>1 DEF Returns, Returned, Ops, Status
<1>3. CASE Close \/ (\E p \in Offsets : SetPos(p)) \/ FirstMsg \/ LastMsg
  BY <1>3 DEF Close, SetPos, FirstMsg, LastMsg, Returns, Returned, Ops, Status
<1>4. CASE ReadNextHeader
  <2>1. CASE mode = "READ"
    <3>1. PICK o \in HeaderSearch(file, SkipToNext(rd), NextOffset(rd)) :
            ret' = Returned("ReadNextHeader", o.status, o.at)
      BY <1>4, <2>1 DEF ReadNextHeader
    <3>2. o.status \in {"OK", "EOF", "HEADER_CHKSUM_BAD"} /\ o.at \in Nat \cup {NoHeader}
      BY <1>1, <3>1, NextOffsetNat, SearchFacts
    <3>. QED
      BY <3>1, <3>2 DEF Returns, Returned, Ops, Status
  <2>2. CASE mode # "READ"
    BY <1>4, <2>2 DEF ReadNextHeader, Returns, Returned, Ops, Status
  <2>. QED
    BY <2>1, <2>2
<1>5. CASE ReadPrevHeader
  <2>1. ASSUME NEW q \in Hits(file, rd, CurrOffset(rd)), NEW o \in Crack(file, rd, q)
        PROVE  o.at \in Nat \cup {NoHeader}
    <3>1. q \in Nat
      BY <1>1, HeaderFacts DEF Hits, Candidates
    <3>2. Seek(rd, q) \in Reader /\ o \in HeaderSearch(file, Seek(rd, q), q)
      BY <1>1, <3>1, SeekFacts DEF Crack
    <3>. QED
      BY <1>1, <3>1, <3>2, SearchFacts
  <2>2. \E st \in Status, at \in Nat \cup {NoHeader} : ret' = Returned("ReadPrevHeader", st, at)
    BY <1>5, <2>1 DEF ReadPrevHeader, Status
  <2>. QED
    BY <2>2 DEF Returns, Returned, Ops
<1>6. ASSUME NEW n \in BuffSizes, ReadData(n) PROVE ret' \in Returns
  BY <1>6 DEF ReadData, Returns, Returned, Ops, Status
<1>7. CASE UNCHANGED vars
  BY <1>7 DEF vars, Returns
<1>. QED
  BY <1>2, <1>3, <1>4, <1>5, <1>6, <1>7 DEF Next

\* Every call preserves the reader's part of the invariant.
LEMMA StepPreserves ==
  ASSUME ReaderInv, [Next]_vars PROVE ReaderInv'
<1>1. ASSUME NEW f \in Files, NEW m \in Modes, Open(f, m) PROVE ReaderInv'
  BY <1>1, OpenPreserves
<1>2. CASE Close \/ (\E p \in Offsets : SetPos(p)) \/ FirstMsg \/ LastMsg
  BY <1>2, PositioningPreserves
<1>3. CASE ReadNextHeader
  BY <1>3, ReadNextHeaderPreserves
<1>4. CASE ReadPrevHeader
  BY <1>4, ReadPrevHeaderPreserves
<1>5. ASSUME NEW n \in BuffSizes, ReadData(n) PROVE ReaderInv'
  BY <1>5, ReadDataPreserves
<1>6. CASE UNCHANGED vars
  BY <1>6, InStepPreserves DEF vars
<1>. QED
  BY <1>1, <1>2, <1>3, <1>4, <1>5, <1>6 DEF Next

\* The inductive invariant of the reader.
LEMMA Inductive == Spec => []IInv
<1>1. Init => IInv
  BY InitIInv
<1>2. IInv /\ [Next]_vars => IInv'
  <2>. SUFFICES ASSUME IInv, [Next]_vars PROVE IInv'
    OBVIOUS
  <2>1. ReaderInv /\ ret \in Returns
    BY IInvParts
  <2>2. ReaderInv' /\ ret' \in Returns
    BY <2>1, StepPreserves, StepReturns
  <2>. QED
    BY <2>2 DEF IInv, ReaderInv, InStep, TypeOK, PositionConsistent, Returns, OpenHasSync
<1>. QED
  BY <1>1, <1>2, PTL DEF Spec

-----------------------------------------------------------------------------

\* Type correctness: in particular no call leaves the file at a negative position and
\* the data length of a header that claims too little wraps instead of going negative.
THEOREM TypeCorrect == Spec => []TypeOK
<1>1. IInv => TypeOK
  BY DEF IInv
<1>. QED
  BY <1>1, Inductive, PTL

\* The length fields describe the header just before the position, for every sequence of
\* calls on every file: the arithmetic of the next read and of the backward scan is right.
THEOREM PositionAlwaysConsistent == Spec => []PositionConsistent
<1>1. IInv => PositionConsistent
  BY DEF IInv
<1>. QED
  BY <1>1, Inductive, PTL

\* No status a step returns is ABORT but that of a LastMsg on a file with nothing at its
\* beginning, or no room for a header after the first byte.
LEMMA StepNeverAborts ==
  ASSUME IInv, NeverAborts, [Next]_vars PROVE NeverAborts'
<1>. SUFFICES ASSUME file'.size > HEADER_SIZE PROVE ret'.status # "ABORT"
  BY DEF NeverAborts
<1>1. ASSUME NEW f \in Files, NEW m \in Modes, Open(f, m) PROVE ret'.status # "ABORT"
  <2>1. \E st \in {"OK", "OPEN_WARNING", "OPEN_ERROR"} : ret' = Returned("Open", st, NoHeader)
    BY <1>1 DEF Open, OpenFile
  <2>. QED
    BY <2>1 DEF Returned
<1>2. CASE Close \/ (\E p \in Offsets : SetPos(p)) \/ FirstMsg
  BY <1>2 DEF Close, SetPos, FirstMsg, Returned
<1>3. CASE LastMsg
  <2>1. file' = file /\ mode # "CLOSED" /\ file \in Files
    BY <1>3 DEF LastMsg, IInv, TypeOK
  <2>2. file.sig /\ file.size \in Nat /\ IsFile(file)
    BY <2>1, ReaderAssumption DEF IInv, OpenHasSync, IsFile
  <2>3. 0 \in DOMAIN file.cand
    BY <2>1, <2>2, ReaderAssumption DEF IsFile
  <2>4. 0 \in LastMsgTries
    BY <2>1, <2>2, ReaderAssumption DEF LastMsgTries
  <2>. QED
    BY <1>3, <2>3, <2>4 DEF LastMsg, Returned
<1>4. CASE ReadNextHeader
  <2>1. CASE mode = "READ"
    <3>1. PICK o \in HeaderSearch(file, SkipToNext(rd), NextOffset(rd)) :
            ret' = Returned("ReadNextHeader", o.status, o.at)
      BY <1>4, <2>1 DEF ReadNextHeader
    <3>2. o.status \in {"OK", "EOF", "HEADER_CHKSUM_BAD"}
      BY <3>1, IInvParts, NextOffsetNat, SearchFacts DEF ReaderInv
    <3>. QED
      BY <3>1, <3>2 DEF Returned
  <2>2. CASE mode # "READ"
    BY <1>4, <2>2 DEF ReadNextHeader, Returned
  <2>. QED
    BY <2>1, <2>2
<1>5. CASE ReadPrevHeader
  <2>1. ASSUME NEW q, NEW o,
               ret' = Returned("ReadPrevHeader", IF q = 0 THEN "SEEK_ERROR" ELSE "OK", o.at)
        PROVE  ret'.status # "ABORT"
    BY <2>1 DEF Returned
  <2>2. ASSUME NEW st \in {"WRONG_FILE_MODE", "BOF", "SEEK_ERROR"},
               ret' = Returned("ReadPrevHeader", st, NoHeader)
        PROVE  ret'.status # "ABORT"
    BY <2>2 DEF Returned
  <2>. QED
    BY <1>5, <2>1, <2>2 DEF ReadPrevHeader
<1>6. ASSUME NEW n \in BuffSizes, ReadData(n) PROVE ret'.status # "ABORT"
  BY <1>6 DEF ReadData, Returned
<1>7. CASE UNCHANGED vars
  BY <1>7 DEF vars, NeverAborts
<1>. QED
  BY <1>1, <1>2, <1>3, <1>4, <1>5, <1>6, <1>7 DEF Next

\* The search of LastMsg ends at the sync pattern every open file begins with: on files
\* larger than one header it never seeks to a negative offset.
THEOREM NeverAbortsOnFiles == Spec => []NeverAborts
<1>1. Init => NeverAborts
  BY DEF Init, NeverAborts, Returned
<1>2. IInv /\ NeverAborts /\ [Next]_vars => NeverAborts'
  BY StepNeverAborts
<1>. QED
  BY <1>1, <1>2, Inductive, PTL DEF Spec

-----------------------------------------------------------------------------
(* What single calls of the reader do on files whose packets follow one     *)
(* another: no intact packet is passed over, LastMsg finds the last one,    *)
(* ReadPrevHeader the one before.                                           *)

\* The packets of a tiling lie one behind the other.
LEMMA TilingFacts ==
  ASSUME NEW f \in Files, Tiled(f), NEW s \in f.pkts
  PROVE  /\ s \in DOMAIN f.cand /\ s \in Nat /\ f.size \in Nat
         /\ s + HEADER_SIZE <= f.size
         /\ f.cand[s].len \in Nat /\ HeaderLen(f.cand[s]) \in Nat \ {0}
         /\ HeaderLen(f.cand[s]) <= f.cand[s].len
         /\ s + f.cand[s].len \in f.pkts \cup {f.size}
         /\ s + f.cand[s].len <= f.size
         /\ \A t \in f.pkts : t <= s \/ s + f.cand[s].len <= t
<1>1. /\ s \in DOMAIN f.cand /\ HeaderLen(f.cand[s]) <= f.cand[s].len
      /\ s + f.cand[s].len \in f.pkts \cup {f.size}
      /\ \A t \in f.pkts : t <= s \/ s + f.cand[s].len <= t
  BY DEF Tiled
<1>2. /\ s \in Nat /\ s + HEADER_SIZE <= f.size /\ f.size \in Nat
      /\ f.cand[s].len \in Nat /\ HeaderLen(f.cand[s]) \in Nat
  BY <1>1, HeaderFacts
<1>3. HeaderLen(f.cand[s]) # 0
  BY <1>2, ReaderAssumption DEF HeaderLen
<1>4. s + f.cand[s].len <= f.size
  <2>1. CASE s + f.cand[s].len \in f.pkts
    <3>1. s + f.cand[s].len \in DOMAIN f.cand
      BY <2>1 DEF Tiled
    <3>2. s + f.cand[s].len + HEADER_SIZE <= f.size
      BY <3>1, HeaderFacts
    <3>. QED
      BY <1>2, <3>2, ReaderAssumption
  <2>. QED
    BY <1>1, <1>2, <2>1
<1>. QED
  BY <1>1, <1>2, <1>3, <1>4

\* No packet of a tiling begins inside another, and no two end at the same place.
LEMMA PacketsApart ==
  ASSUME NEW f \in Files, Tiled(f), NEW s \in f.pkts, NEW t \in f.pkts,
         s + f.cand[s].len = t + f.cand[t].len
  PROVE  s = t
<1>1. /\ s \in Nat /\ t \in Nat /\ f.cand[s].len \in Nat \ {0} /\ f.cand[t].len \in Nat \ {0}
  BY TilingFacts
<1>2. t <= s \/ s + f.cand[s].len <= t
  BY TilingFacts
<1>3. s <= t \/ t + f.cand[t].len <= s
  BY TilingFacts
<1>. QED
  BY <1>1, <1>2, <1>3

\* The search stops at the first place it can, when it does not report a bad checksum.
LEMMA SearchStopsFirst ==
  ASSUME NEW f \in Files, NEW r, NEW p \in Nat, NEW o \in HeaderSearch(f, r, p),
         ~(r.state # "Unsynced" /\ BadChecksum(f, p))
  PROVE  \E q \in Nat :
           /\ p <= q /\ StopsAt(f, q)
           /\ o = IF Good(f, q) THEN FoundAt(f, q) ELSE ShortRead(f, r, q)
           /\ \A s \in Nat : p <= s /\ StopsAt(f, s) => q <= s
<1>1. PICK q \in SearchStops(f, p) : o = IF Good(f, q) THEN FoundAt(f, q) ELSE ShortRead(f, r, q)
  BY DEF HeaderSearch
<1>2. f.size \in Nat
  BY ReaderAssumption DEF IsFile
<1>3. q \in Nat /\ p <= q /\ StopsAt(f, q) /\ \A s \in p..(q - 1) : ~StopsAt(f, s)
  BY <1>1, <1>2 DEF SearchStops, MaxOf
<1>4. ASSUME NEW s \in Nat, p <= s, StopsAt(f, s) PROVE q <= s
  BY <1>3, <1>4
<1>. QED
  BY <1>1, <1>3, <1>4

\* At a good header the search returns it, and nothing else.
LEMMA SearchAtGood ==
  ASSUME NEW f \in Files, NEW r, NEW p, Good(f, p)
  PROVE  HeaderSearch(f, r, p) = {FoundAt(f, p)}
<1>1. p \in Nat /\ f.size \in Nat /\ p <= f.size
  BY HeaderFacts, ReaderAssumption DEF Good, HeaderOk
<1>2. ~BadChecksum(f, p)
  BY DEF Good, HeaderOk, BadChecksum
<1>3. SearchStops(f, p) = {p}
  <2>1. StopsAt(f, p)
    BY DEF StopsAt
  <2>2. p \in SearchStops(f, p)
    BY <1>1, <2>1 DEF SearchStops, MaxOf
  <2>3. ASSUME NEW q \in SearchStops(f, p) PROVE q = p
    <3>1. q \in Nat /\ p <= q /\ ~(p \in p..(q - 1))
      BY <1>1, <2>1 DEF SearchStops, MaxOf
    <3>. QED
      BY <1>1, <3>1
  <2>. QED
    BY <2>2, <2>3
<1>. QED
  BY <1>2, <1>3 DEF HeaderSearch

\* The next search begins behind the packet whose header was found.
LEMMA FoundNext ==
  ASSUME NEW f \in Files, NEW q, Good(f, q)
  PROVE  NextOffset(FoundAt(f, q).rd) = q + f.cand[q].len
<1>1. q \in Nat /\ f.cand[q].len \in Nat /\ HeaderLen(f.cand[q]) \in Nat
  BY HeaderFacts DEF Good, HeaderOk
<1>. QED
  BY <1>1 DEF FoundAt, Outcome, NextOffset

-----------------------------------------------------------------------------

\* A search that begins at p leaves every intact packet from p on either found or ahead.
LEMMA SearchSkipsNone ==
  ASSUME NEW f \in Files, Tiled(f), Clean(f),
         NEW r \in Reader, NEW p \in Nat, NEW o \in HeaderSearch(f, r, p),
         NEW s \in f.pkts, Good(f, s), p <= s
  PROVE  o.at = s \/ NextOffset(o.rd) <= s
<1>1. s \in Nat /\ s + HEADER_SIZE <= f.size /\ f.size \in Nat
  BY TilingFacts
<1>2. CASE r.state # "Unsynced" /\ BadChecksum(f, p)
  <2>. DEFINE n == IF f.cand[p].ok THEN HEADER_SIZE + SEC_HEADER_SIZE ELSE HEADER_SIZE
  <2>1. o = ChecksumBad(f, r, p)
    BY <1>2 DEF HeaderSearch
  <2>2. o.rd.state = "Unsynced" /\ o.rd.pos = p + n
    BY <2>1 DEF ChecksumBad, Outcome, Reader
  <2>3. p \in f.pkts
    BY <1>2 DEF BadChecksum, Clean
  <2>4. p # s
    BY <1>2 DEF BadChecksum, Good, HeaderOk
  <2>5. p + f.cand[p].len <= s
    BY <1>1, <2>3, <2>4, TilingFacts
  <2>6. n <= f.cand[p].len
    <3>1. n <= HeaderLen(f.cand[p])
      BY <1>2, ReaderAssumption DEF HeaderLen, BadChecksum
    <3>2. HeaderLen(f.cand[p]) \in Nat /\ f.cand[p].len \in Nat /\ HeaderLen(f.cand[p]) <= f.cand[p].len
      BY <2>3, TilingFacts
    <3>. QED
      BY <3>1, <3>2, ReaderAssumption
  <2>7. n \in Nat /\ f.cand[p].len \in Nat
    BY <2>3, TilingFacts, ReaderAssumption
  <2>8. NextOffset(o.rd) = p + n
    BY <2>2 DEF NextOffset
  <2>. HIDE DEF n
  <2>. QED
    BY <1>1, <2>5, <2>6, <2>7, <2>8
<1>3. CASE ~(r.state # "Unsynced" /\ BadChecksum(f, p))
  <2>1. PICK q \in Nat :
           /\ p <= q /\ StopsAt(f, q)
           /\ o = IF Good(f, q) THEN FoundAt(f, q) ELSE ShortRead(f, r, q)
           /\ \A t \in Nat : p <= t /\ StopsAt(f, t) => q <= t
    BY <1>3, SearchStopsFirst
  <2>2. q <= s
    BY <1>1, <2>1 DEF StopsAt
  <2>3. CASE Good(f, q)
    <3>1. q \in f.pkts
      BY <2>3 DEF Good, HeaderOk, Clean
    <3>2. o.at = q /\ NextOffset(o.rd) = q + f.cand[q].len
      BY <2>1, <2>3, FoundFacts, FoundNext
    <3>3. s <= q \/ q + f.cand[q].len <= s
      BY <3>1, TilingFacts
    <3>. QED
      BY <1>1, <2>2, <3>2, <3>3
  <2>4. CASE ~Good(f, q)
    <3>1. SecTruncated(f, q)
      BY <1>1, <2>1, <2>2, <2>4, ReaderAssumption DEF StopsAt
    <3>2. q \in f.pkts
      BY <3>1 DEF SecTruncated, HeaderOk, Clean
    <3>3. HeaderLen(f.cand[q]) <= f.cand[q].len /\ q + f.cand[q].len <= f.size /\ f.cand[q].len \in Nat
      BY <3>2, TilingFacts
    <3>4. HeaderLen(f.cand[q]) = HEADER_SIZE + SEC_HEADER_SIZE
      BY <3>1 DEF SecTruncated, HeaderLen
    <3>. QED
      BY <1>1, <3>1, <3>3, <3>4, ReaderAssumption DEF SecTruncated, SecFits
  <2>. QED
    BY <2>3, <2>4
<1>. QED
  BY <1>2, <1>3

\* Reading forward never passes over an intact packet: from every reachable state of the
\* reader, on every tiling without sync patterns in payloads, however many headers are
\* damaged (enI106Ch10ReadNextHeaderFile).
THEOREM IntactPacketsFound == Spec => NoIntactPacketSkipped
<1>1. ASSUME IInv, ReadNextHeader, mode = "READ", Tiled(file), Clean(file),
             NEW s \in file.pkts, Good(file, s), s >= NextOffset(rd)
      PROVE  ret'.at = s \/ NextOffset(rd') <= s
  <2>1. file \in Files
    BY <1>1 DEF IInv, TypeOK
  <2>2. NextOffset(rd) \in Nat /\ SkipToNext(rd) \in Reader
    BY <1>1, <2>1, IInvParts, NextOffsetNat DEF ReaderInv
  <2>3. PICK o \in HeaderSearch(file, SkipToNext(rd), NextOffset(rd)) :
          rd' = o.rd /\ ret' = Returned("ReadNextHeader", o.status, o.at)
    BY <1>1 DEF ReadNextHeader
  <2>4. s \in Nat
    BY <1>1, <2>1, TilingFacts
  <2>5. o.at = s \/ NextOffset(o.rd) <= s
    BY <1>1, <2>1, <2>2, <2>4, SearchSkipsNone
  <2>. QED
    BY <2>3, <2>5 DEF Returned
<1>2. IInv => [ (ReadNextHeader /\ mode = "READ" /\ Tiled(file) /\ Clean(file))
                => \A s \in file.pkts :
                     (Good(file, s) /\ s >= NextOffset(rd))
                     => (ret'.at = s \/ NextOffset(rd') <= s) ]_vars
  BY <1>1
<1>. QED
  BY <1>2, Inductive, PTL DEF Spec, NoIntactPacketSkipped

-----------------------------------------------------------------------------

\* LastMsg on a recording stops at the packet that ends the file: trying every offset from
\* the end down, it meets no sync pattern before it (enI106Ch10LastMsg).
THEOREM LastPacketFound == Spec => LastMsgFindsLast
<1>1. ASSUME IInv, LastMsg, mode = "READ", Recording(file), Clean(file),
             NEW s \in file.pkts, s + file.cand[s].len = file.size,
             file.cand[s].len > HEADER_SIZE
      PROVE  ret'.status = "OK" /\ NextOffset(rd') = s
  <2>1. file \in Files /\ Tiled(file) /\ rd \in Reader
    BY <1>1 DEF IInv, TypeOK, Recording
  <2>2. s \in Nat /\ file.size \in Nat /\ file.cand[s].len \in Nat
    BY <2>1, TilingFacts
  <2>3. s \in LastMsgTries
    BY <1>1, <2>2, ReaderAssumption DEF LastMsgTries
  <2>4. HeaderOk(file, s)
    BY <1>1 DEF Recording, Good
  <2>5. PICK q \in LastMsgTries :
          /\ HeaderOk(file, q)
          /\ \A t \in LastMsgTries : t > q => ~HeaderOk(file, t)
          /\ rd' = Seek(rd, q)
          /\ ret' = Returned("LastMsg", "OK", NoHeader)
    BY <1>1, <2>3, <2>4 DEF LastMsg
  <2>6. q \in file.pkts /\ q \in Nat /\ q < file.size
    BY <1>1, <2>2, <2>5, ReaderAssumption DEF HeaderOk, Clean, LastMsgTries
  <2>7. q <= s
    BY <1>1, <2>1, <2>2, <2>6, TilingFacts
  <2>8. q = s
    BY <2>2, <2>3, <2>4, <2>5, <2>6, <2>7
  <2>9. NextOffset(rd') = q
    BY <2>1, <2>5, <2>6 DEF Seek, NextOffset, Reader
  <2>. QED
    BY <2>5, <2>8, <2>9 DEF Returned
<1>2. IInv => [ (LastMsg /\ mode = "READ" /\ Recording(file) /\ Clean(file))
                => \A s \in file.pkts :
                     (s + file.cand[s].len = file.size /\ file.cand[s].len > HEADER_SIZE)
                     => ret'.status = "OK" /\ NextOffset(rd') = s ]_vars
  BY <1>1
<1>. QED
  BY <1>2, Inductive, PTL DEF Spec, LastMsgFindsLast

-----------------------------------------------------------------------------

\* The reader of an open file is never in the state of a closed one.
OpenIsNotClosed == mode # "CLOSED" => rd.state # "Closed"

\* Every call on an open file leaves the reader in one of the three open states.
LEMMA StaysOpen ==
  ASSUME IInv, OpenIsNotClosed, [Next]_vars PROVE OpenIsNotClosed'
<1>. SUFFICES ASSUME mode' # "CLOSED" PROVE rd'.state # "Closed"
  BY DEF OpenIsNotClosed
<1>1. rd \in Reader /\ file \in Files
  BY DEF IInv, TypeOK
<1>2. ASSUME NEW r \in Reader, NEW p, rd' = Seek(r, p) PROVE rd'.state # "Closed"
  BY <1>2 DEF Seek, Reader
<1>3. ASSUME NEW f \in Files, NEW m \in Modes, Open(f, m) PROVE rd'.state # "Closed"
  <2>1. CASE f.sig
    <3>1. PICK o \in Probe(f, m) :
            rd' = [o.rd EXCEPT !.pos = 0, !.state = "ReadHeader"] \/ rd' = o.rd
      BY <1>3, <2>1 DEF Open, OpenFile
    <3>2. Seek(rd, 0) \in Reader /\ Seek(rd, 0).state = "Unsynced"
      BY <1>1, SeekFacts
    <3>3. o.rd \in Reader /\ o.rd.state # "Closed"
      <4>1. CASE m = "READ"
        BY <4>1, <3>2, SearchFacts DEF Probe
      <4>2. CASE m # "READ"
        BY <4>2, <3>2 DEF Probe, Outcome
      <4>. QED
        BY <4>1, <4>2
    <3>. QED
      BY <3>1, <3>3 DEF Reader
  <2>2. CASE ~f.sig
    BY <1>3, <2>2 DEF Open, OpenIsNotClosed
  <2>. QED
    BY <2>1, <2>2
<1>4. CASE Close
  BY <1>4 DEF Close
<1>5. CASE (\E p \in Offsets : SetPos(p)) \/ FirstMsg \/ LastMsg
  <2>1. rd' = rd \/ \E p : rd' = Seek(rd, p)
    BY <1>5 DEF SetPos, FirstMsg, LastMsg
  <2>2. mode # "CLOSED"
    BY <1>5 DEF SetPos, FirstMsg, LastMsg
  <2>. QED
    BY <1>1, <1>2, <2>1, <2>2 DEF OpenIsNotClosed
<1>6. CASE ReadNextHeader
  <2>1. CASE mode = "READ"
    <3>1. PICK o \in HeaderSearch(file, SkipToNext(rd), NextOffset(rd)) : rd' = o.rd
      BY <1>6, <2>1 DEF ReadNextHeader
    <3>. QED
      BY <1>1, <3>1, IInvParts, NextOffsetNat, SearchFacts DEF ReaderInv
  <2>2. CASE mode # "READ"
    BY <1>6, <2>2 DEF ReadNextHeader, OpenIsNotClosed
  <2>. QED
    BY <2>1, <2>2
<1>7. CASE ReadPrevHeader
  <2>1. ASSUME NEW q \in Hits(file, rd, CurrOffset(rd)), NEW o \in Crack(file, rd, q), rd' = o.rd
        PROVE  rd'.state # "Closed"
    <3>1. q \in Nat
      BY <1>1, HeaderFacts DEF Hits, Candidates
    <3>2. Seek(rd, q) \in Reader /\ o \in HeaderSearch(file, Seek(rd, q), q)
      BY <1>1, <3>1, SeekFacts DEF Crack
    <3>. QED
      BY <1>1, <2>1, <3>1, <3>2, SearchFacts
  <2>2. ASSUME rd' \in NoHit(file, rd, CurrOffset(rd)) PROVE rd'.state # "Closed"
    <3>1. \E p : rd' = Seek(rd, p)
      BY <2>2 DEF NoHit
    <3>. QED
      BY <1>1, <1>2, <3>1
  <2>. QED
    BY <1>1, <1>2, <1>7, <2>1, <2>2 DEF ReadPrevHeader, OpenIsNotClosed
<1>8. ASSUME NEW n \in BuffSizes, ReadData(n) PROVE rd'.state # "Closed"
  BY <1>1, <1>8 DEF ReadData, OpenIsNotClosed, Seek, Reader
<1>9. CASE UNCHANGED vars
  BY <1>9 DEF vars, OpenIsNotClosed
<1>. QED
  BY <1>3, <1>4, <1>5, <1>6, <1>7, <1>8, <1>9 DEF Next

LEMMA AlwaysStaysOpen == Spec => []OpenIsNotClosed
<1>1. Init => OpenIsNotClosed
  BY DEF Init, OpenIsNotClosed
<1>. QED
  BY <1>1, StaysOpen, Inductive, PTL DEF Spec

\* CurrOffset is where the packet read last begins: of that packet all that is known is
\* where it ends, and the length fields lead back to the same place.
LEMMA CurrOffsetIsLastRead ==
  ASSUME IInv, OpenIsNotClosed, mode # "CLOSED", Tiled(file), Clean(file),
         NEW t, t > 0, LastReadAt(t)
  PROVE  CurrOffset(rd) = t
<1>1. rd \in Reader /\ file \in Files
  BY DEF IInv, TypeOK
<1>2. CASE rd.state = "Unsynced"
  BY <1>2 DEF LastReadAt, CurrOffset
<1>3. CASE rd.state # "Unsynced"
  <2>1. t \in file.pkts /\ t + file.cand[t].len = NextOffset(rd)
    BY <1>3 DEF LastReadAt
  <2>2. t \in Nat \ {0} /\ file.cand[t].len \in Nat \ {0}
    BY <1>1, <2>1, TilingFacts
  <2>3. CASE rd.state = "ReadData"
    <3>1. PICK q \in DOMAIN file.cand : Good(file, q) /\ rd = FoundAt(file, q).rd
      BY <2>3 DEF IInv, PositionConsistent
    <3>2. q \in file.pkts
      BY DEF Clean
    <3>3. NextOffset(rd) = q + file.cand[q].len
      BY <1>1, <3>1, FoundNext
    <3>4. q = t
      BY <1>1, <2>1, <3>2, <3>3, PacketsApart
    <3>5. q \in Nat /\ HeaderLen(file.cand[q]) \in Nat
      BY <1>1, HeaderFacts
    <3>6. /\ rd.pos = q + HeaderLen(file.cand[q]) /\ rd.hlen = HeaderLen(file.cand[q])
          /\ rd.rpos = 0
      BY <3>1 DEF FoundAt, Outcome
    <3>. QED
      BY <2>3, <3>4, <3>5, <3>6 DEF CurrOffset
  <2>4. CASE rd.state = "ReadHeader"
    <3>1. NextOffset(rd) = rd.pos
      BY <2>4 DEF NextOffset
    <3>2. rd.pos # 0
      BY <2>1, <2>2, <3>1
    <3>3. PICK q \in DOMAIN file.cand :
            /\ rd.hlen = HeaderLen(file.cand[q]) /\ rd.rpos = DataLen(file.cand[q])
            /\ rd.pos = q + rd.hlen + rd.rpos
      BY <2>4, <3>2 DEF IInv, PositionConsistent
    <3>4. q \in file.pkts
      BY DEF Clean
    <3>5. /\ q \in Nat /\ HeaderLen(file.cand[q]) \in Nat /\ DataLen(file.cand[q]) \in Nat
          /\ file.cand[q].len \in 0..(UINT32 - 1)
      BY <1>1, HeaderFacts DEF Header
    <3>6. HeaderLen(file.cand[q]) <= file.cand[q].len
      BY <1>1, <3>4, TilingFacts
    <3>7. DataLen(file.cand[q]) = file.cand[q].len - HeaderLen(file.cand[q])
      BY <3>5, <3>6, ReaderAssumption DEF DataLen
    <3>8. rd.pos = q + file.cand[q].len
      BY <3>3, <3>5, <3>7
    <3>9. q = t
      BY <1>1, <2>1, <3>1, <3>4, <3>8, PacketsApart
    <3>. QED
      BY <2>4, <3>3, <3>5, <3>9 DEF CurrOffset
  <2>. QED
    BY <1>1, <1>3, <2>3, <2>4 DEF OpenIsNotClosed, Reader
<1>. QED
  BY <1>2, <1>3

\* On a clean recording the hits of the backward search are the packets before c, and
\* each attempt returns the packet it was made at.
LEMMA HitsArePackets ==
  ASSUME NEW f \in Files, Recording(f), Clean(f), NEW r, NEW c
  PROVE  /\ Hits(f, r, c) = {s \in f.pkts : s < c}
         /\ \A s \in f.pkts : Crack(f, r, s) = {FoundAt(f, s)}
<1>1. ASSUME NEW s \in f.pkts PROVE s \in DOMAIN f.cand /\ Good(f, s) /\ f.cand[s].ok
  BY DEF Recording, Tiled, Good, HeaderOk
<1>2. ASSUME NEW s \in f.pkts PROVE Crack(f, r, s) = {FoundAt(f, s)} /\ FoundAt(f, s).status = "OK"
  BY <1>1, SearchAtGood, FoundFacts DEF Crack
<1>3. Candidates(f, c) = {s \in f.pkts : s < c}
  BY <1>1 DEF Candidates, Clean
<1>. QED
  BY <1>2, <1>3 DEF Hits

\* Reading backward undoes reading forward, whatever calls led to the position: the packet
\* found is the last one that begins before the one most recently read
\* (enI106Ch10ReadPrevHeader).
THEOREM PreviousPacketFound == Spec => PrevIsPredecessor
<1>1. ASSUME IInv, OpenIsNotClosed, NEW t \in {rd.pos} \cup file.pkts,
             ReadPrevHeader, mode = "READ", Recording(file), Clean(file),
             t > 0, LastReadAt(t)
      PROVE  /\ ret'.at \in file.pkts /\ ret'.at < t
             /\ \A s \in file.pkts : s < t => s <= ret'.at
  <2>1. file \in Files /\ Tiled(file)
    BY <1>1 DEF IInv, TypeOK, Recording
  <2>2. CurrOffset(rd) = t
    BY <1>1, <2>1, CurrOffsetIsLastRead
  <2>. DEFINE hits == Hits(file, rd, t)
  <2>3. hits = {s \in file.pkts : s < t} /\ \A s \in file.pkts : Crack(file, rd, s) = {FoundAt(file, s)}
    BY <1>1, <2>1, HitsArePackets
  <2>4. hits # {} /\ ~(t <= 0)
    <3>1. t \in Nat
      BY <1>1, <2>1, TilingFacts DEF IInv, TypeOK, Reader
    <3>. QED
      BY <1>1, <2>1, <2>3, <3>1 DEF Tiled
  <2>5. PICK q \in hits : /\ \A s \in hits : s <= q
                          /\ \E o \in Crack(file, rd, q) :
                               \E st : ret' = Returned("ReadPrevHeader", st, o.at)
    BY <1>1, <2>2, <2>4 DEF ReadPrevHeader
  <2>6. ret'.at = FoundAt(file, q).at
    BY <2>3, <2>5 DEF Returned
  <2>7. ret'.at = q
    BY <2>6 DEF FoundAt, Outcome
  <2>. QED
    BY <2>3, <2>5, <2>7
<1>2. IInv /\ OpenIsNotClosed =>
        [ \A t \in {rd.pos} \cup file.pkts :
            (ReadPrevHeader /\ mode = "READ" /\ Recording(file) /\ Clean(file)
             /\ t > 0 /\ LastReadAt(t))
            => /\ ret'.at \in file.pkts /\ ret'.at < t
               /\ \A s \in file.pkts : s < t => s <= ret'.at ]_vars
  BY <1>1
<1>. QED
  BY <1>2, Inductive, AlwaysStaysOpen, PTL DEF Spec, PrevIsPredecessor

-----------------------------------------------------------------------------
(* Natural numbers and functions defined along them.                        *)

\* Every set of natural numbers that is not empty has a least element.
LEMMA LeastElement ==
  ASSUME NEW T \in SUBSET Nat, T # {}
  PROVE  \E m \in T : \A n \in T : m <= n
<1>. DEFINE R == OpToRel(<, Nat)
<1>1. IsWellFoundedOn(R, Nat)
  BY NatLessThanWellFounded, Zenon
<1>. HIDE DEF R
<1>2. PICK m \in T : \A n \in T : <<n, m>> \notin R
  BY <1>1, WFMin, Zenon
<1>3. ASSUME NEW n \in T PROVE m <= n
  <2>1. <<n, m>> \notin R /\ <<n, m>> \in Nat \X Nat
    BY <1>2
  <2>2. ~(n < m)
    BY <2>1 DEF R, OpToRel
  <2>. QED
    BY <2>2
<1>. QED
  BY <1>3

\* LastMsg, as an outcome: a seek to a header or to the beginning, or the end of the program.
LEMMA LastOutcomeInStep ==
  ASSUME NEW f \in Files, NEW r, InStep(f, r)
  PROVE  LET o == LastOutcome(f, r) IN
         /\ InStep(f, o.rd)
         /\ \/ \E p \in Nat : HeaderOk(f, p) /\ o = Outcome("OK", NoHeader, Seek(r, p))
            \/ o = Outcome("SEEK_ERROR", NoHeader, Seek(r, 0))
            \/ o = Outcome("ABORT", NoHeader, r)
<1>. DEFINE tries == 0..(f.size - HEADER_SIZE - 1)
            ok == {q \in tries : HeaderOk(f, q)}
            m == CHOOSE q \in ok : \A s \in ok : s <= q
            o == LastOutcome(f, r)
<1>1. f.size \in Nat /\ tries \subseteq Nat /\ r \in Reader
  BY ReaderAssumption DEF IsFile, InStep
<1>2. ok # {} => m \in Nat /\ HeaderOk(f, m)
  <2>. SUFFICES ASSUME ok # {} PROVE m \in Nat /\ HeaderOk(f, m)
    OBVIOUS
  <2>1. \E q \in ok : \A s \in ok : s <= q
    <3>. DEFINE up == {f.size - s : s \in ok}
    <3>1. up \in SUBSET Nat /\ up # {}
      BY <1>1, ReaderAssumption
    <3>2. PICK x \in up : \A y \in up : x <= y
      <4>. HIDE DEF up
      <4>. QED
        BY <3>1, LeastElement
    <3>3. PICK q \in ok : x = f.size - q
      BY <3>2
    <3>4. ASSUME NEW s \in ok PROVE s <= q
      <4>1. f.size - s \in up /\ s \in Nat /\ q \in Nat
        BY <1>1
      <4>2. f.size - q <= f.size - s
        BY <3>2, <3>3, <4>1
      <4>. HIDE DEF ok, tries
      <4>. QED
        BY <1>1, <4>1, <4>2
    <3>. QED
      BY <3>4
  <2>2. m \in ok
    <3>. HIDE DEF ok
    <3>. QED
      BY <2>1
  <2>. QED
    BY <1>1, <2>2
<1>. HIDE DEF m
<1>3. \/ ok # {} /\ o = Outcome("OK", NoHeader, Seek(r, m))
      \/ o = Outcome("SEEK_ERROR", NoHeader, Seek(r, 0))
      \/ o = Outcome("ABORT", NoHeader, r)
  BY DEF LastOutcome, m
<1>. HIDE DEF ok, o
<1>4. o.rd = r \/ \E p \in Nat : o.rd = Seek(r, p)
  BY <1>2, <1>3 DEF Outcome
<1>5. InStep(f, o.rd)
  BY <1>1, <1>4, SeekFacts
<1>. QED
  BY <1>2, <1>3, <1>5 DEF o

\* The function that steps from a along g, N times.
IsWalk(N, a, g, w) == w = [n \in 0..N |-> IF n = 0 THEN a ELSE g[w[n - 1]]]

Walk(N, a, g) == CHOOSE w : IsWalk(N, a, g, w)

\* It is well defined.
LEMMA IterationExists ==
  ASSUME NEW N \in Nat, NEW a, NEW g
  PROVE  \E w : IsWalk(N, a, g, w)
<1>. DEFINE Upto(k, w) == IsWalk(k, a, g, w)
            bad == {k \in Nat : ~\E w : Upto(k, w)}
<1>1. SUFFICES ASSUME bad # {} PROVE FALSE
  OBVIOUS
<1>2. PICK k \in bad : \A j \in bad : k <= j
  BY <1>1, LeastElement
<1>3. k # 0
  <2>. DEFINE v == [n \in 0..0 |-> a]
  <2>1. Upto(0, v)
    BY DEF IsWalk
  <2>. HIDE DEF v, Upto
  <2>. QED
    BY <2>1
<1>4. PICK v : Upto(k - 1, v)
  <2>1. k - 1 \in Nat /\ ~(k <= k - 1)
    BY <1>3
  <2>. HIDE DEF Upto
  <2>. QED
    BY <1>2, <2>1
<1>. DEFINE w == [n \in 0..k |-> IF n = k THEN g[v[k - 1]] ELSE v[n]]
<1>5. \A n \in 0..(k - 1) : w[n] = v[n] /\ v[n] = IF n = 0 THEN a ELSE g[v[n - 1]]
  BY <1>4 DEF IsWalk
<1>6. \A n \in 0..k : w[n] = IF n = 0 THEN a ELSE g[w[n - 1]]
  <2>. TAKE n \in 0..k
  <2>1. CASE n = k
    BY <1>3, <1>5, <2>1
  <2>2. CASE n # k
    BY <1>5, <2>2
  <2>. QED
    BY <2>1, <2>2
<1>7. Upto(k, w)
  BY <1>6 DEF IsWalk
<1>. HIDE DEF Upto, w
<1>. QED
  BY <1>7

\* Its values.
LEMMA WalkValues ==
  ASSUME NEW N \in Nat, NEW a, NEW g
  PROVE  LET w == Walk(N, a, g) IN
         /\ DOMAIN w = 0..N /\ w[0] = a
         /\ \A n \in 1..N : w[n] = g[w[n - 1]]
<1>. DEFINE w == Walk(N, a, g)
<1>1. w = [n \in 0..N |-> IF n = 0 THEN a ELSE g[w[n - 1]]]
  <2>1. IsWalk(N, a, g, w)
    BY IterationExists, Zenon DEF Walk
  <2>. QED
    BY <2>1 DEF IsWalk
<1>. HIDE DEF w
<1>2. \A n \in 0..N : w[n] = IF n = 0 THEN a ELSE g[w[n - 1]]
  BY <1>1
<1>3. DOMAIN w = 0..N
  BY <1>1
<1>. QED
  BY <1>2, <1>3 DEF w

-----------------------------------------------------------------------------
(* A single search.                                                         *)

\* The search comes to an end: at the end of the file at the latest.
LEMMA SearchEnds ==
  ASSUME NEW f \in Files, NEW r, NEW p \in Nat
  PROVE  HeaderSearch(f, r, p) # {}
<1>. DEFINE stops == {q \in Nat : p <= q /\ StopsAt(f, q)}
            m == MaxOf(p, f.size)
<1>1. f.size \in Nat /\ m \in Nat /\ p <= m /\ f.size <= m
  BY ReaderAssumption DEF IsFile, MaxOf
<1>. HIDE DEF m
<1>2. m \in stops
  BY <1>1, ReaderAssumption DEF StopsAt
<1>3. PICK q \in stops : \A s \in stops : q <= s
  BY <1>2, LeastElement
<1>4. q \in SearchStops(f, p)
  <2>1. q \in p..m
    BY <1>1, <1>2, <1>3
  <2>2. \A s \in p..(q - 1) : s \in Nat /\ p <= s /\ ~(q <= s)
    BY <1>3
  <2>3. \A s \in p..(q - 1) : ~StopsAt(f, s)
    BY <1>3, <2>2
  <2>. QED
    BY <1>3, <2>1, <2>3 DEF SearchStops, m
<1>. QED
  BY <1>4 DEF HeaderSearch

\* It returns a good header, or none.
LEMMA SearchReturns ==
  ASSUME NEW f \in Files, NEW r, NEW p \in Nat, NEW o \in HeaderSearch(f, r, p)
  PROVE  \/ o.status = "OK" /\ Good(f, o.at) /\ o.at \in Nat /\ o = FoundAt(f, o.at)
         \/ o.status \in {"EOF", "HEADER_CHKSUM_BAD"} /\ o.at = NoHeader
<1>1. CASE r.state # "Unsynced" /\ BadChecksum(f, p)
  BY <1>1 DEF HeaderSearch, ChecksumBad, Outcome
<1>2. CASE ~(r.state # "Unsynced" /\ BadChecksum(f, p))
  <2>1. PICK q \in Nat : o = IF Good(f, q) THEN FoundAt(f, q) ELSE ShortRead(f, r, q)
    BY <1>2, SearchStopsFirst
  <2>2. CASE Good(f, q)
    BY <2>1, <2>2, FoundFacts
  <2>3. CASE ~Good(f, q)
    BY <2>1, <2>3 DEF ShortRead, Outcome
  <2>. QED
    BY <2>2, <2>3
<1>. QED
  BY <1>1, <1>2

\* The next header, for a reader that is in step.
LEMMA NextOutcomeFacts ==
  ASSUME NEW f \in Files, NEW r, InStep(f, r)
  PROVE  LET o == NextOutcome(f, r) IN
         /\ o \in HeaderSearch(f, SkipToNext(r), NextOffset(r))
         /\ InStep(f, o.rd)
         /\ \/ o.status = "OK" /\ Good(f, o.at) /\ o.at \in Nat /\ o = FoundAt(f, o.at)
            \/ o.status \in {"EOF", "HEADER_CHKSUM_BAD"} /\ o.at = NoHeader
<1>1. NextOffset(r) \in Nat /\ SkipToNext(r) \in Reader
  BY NextOffsetNat
<1>2. NextOutcome(f, r) \in HeaderSearch(f, SkipToNext(r), NextOffset(r))
  BY <1>1, SearchEnds DEF NextOutcome
<1>. QED
  BY <1>1, <1>2, SearchReturns, SearchInStep

-----------------------------------------------------------------------------
(* Clean recordings.                                                        *)

\* A recording without sync patterns in payloads.
Sound(f) == Recording(f) /\ Clean(f)

\* The first packet at p or behind, or none.
IsNextPacket(f, p, at) ==
  \/ /\ at \in f.pkts /\ p <= at
     /\ \A s \in f.pkts : p <= s => at <= s
  \/ at = NoHeader /\ \A s \in f.pkts : s < p

\* What a search on a clean recording returns depends on where it begins only.
LEMMA SearchFindsNext ==
  ASSUME NEW f \in Files, Sound(f), NEW r, NEW p \in Nat, NEW o \in HeaderSearch(f, r, p)
  PROVE  IsNextPacket(f, p, o.at)
<1>1. Tiled(f) /\ \A q \in DOMAIN f.cand : q \in f.pkts /\ Good(f, q)
  BY DEF Sound, Recording, Clean
<1>2. \A s \in f.pkts : s \in Nat /\ Good(f, s) /\ s + HEADER_SIZE <= f.size /\ f.size \in Nat
  BY <1>1, TilingFacts
<1>3. ~BadChecksum(f, p) /\ \A q : ~SecTruncated(f, q)
  BY <1>1 DEF BadChecksum, SecTruncated, Good, HeaderOk
<1>4. PICK q \in Nat :
        /\ p <= q /\ StopsAt(f, q)
        /\ o = IF Good(f, q) THEN FoundAt(f, q) ELSE ShortRead(f, r, q)
        /\ \A s \in Nat : p <= s /\ StopsAt(f, s) => q <= s
  BY <1>3, SearchStopsFirst
<1>5. \A s \in f.pkts : p <= s => q <= s
  BY <1>2, <1>4 DEF StopsAt
<1>6. CASE Good(f, q)
  <2>1. q \in f.pkts /\ o.at = q
    BY <1>1, <1>4, <1>6, FoundFacts
  <2>. QED
    BY <1>4, <1>5, <2>1 DEF IsNextPacket
<1>7. CASE ~Good(f, q)
  <2>1. o.at = NoHeader
    BY <1>4, <1>7 DEF ShortRead, Outcome
  <2>2. q + HEADER_SIZE > f.size
    BY <1>3, <1>4, <1>7 DEF StopsAt
  <2>3. \A s \in f.pkts : s < p
    BY <1>2, <1>5, <2>2, ReaderAssumption
  <2>. QED
    BY <2>1, <2>3 DEF IsNextPacket
<1>. QED
  BY <1>6, <1>7

\* It reports no bad checksum.
LEMMA SoundStatus ==
  ASSUME NEW f \in Files, Sound(f), NEW r, NEW p \in Nat, NEW o \in HeaderSearch(f, r, p)
  PROVE  \/ o.status = "OK" /\ o.at \in f.pkts
         \/ o.status = "EOF" /\ o.at = NoHeader
<1>1. \A q \in DOMAIN f.cand : q \in f.pkts /\ Good(f, q)
  BY DEF Sound, Recording, Clean
<1>2. ~BadChecksum(f, p)
  BY <1>1 DEF BadChecksum, Good, HeaderOk
<1>3. PICK q \in Nat : o = IF Good(f, q) THEN FoundAt(f, q) ELSE ShortRead(f, r, q)
  BY <1>2, SearchStopsFirst
<1>4. CASE Good(f, q)
  BY <1>1, <1>3, <1>4, FoundFacts
<1>5. CASE ~Good(f, q)
  BY <1>3, <1>5 DEF ShortRead, Outcome
<1>. QED
  BY <1>4, <1>5

\* There is only one such packet.
LEMMA NextPacketUnique ==
  ASSUME NEW f \in Files, Sound(f), NEW p, NEW q, NEW a, NEW b,
         IsNextPacket(f, p, a), IsNextPacket(f, q, b),
         \A s \in f.pkts : p <= s <=> q <= s,
         p \in Nat, q \in Nat
  PROVE  a = b
<1>1. \A s \in f.pkts : s \in Nat
  BY TilingFacts DEF Sound, Recording
<1>. QED
  BY <1>1 DEF IsNextPacket

\* Going back to the position of a reader, as FindTimePacket, SyncTime and the index calls
\* do: the header read next is the same, also from behind a header whose data were not
\* read, where it was to come behind those data.
LEMMA SeekKeepsPlace ==
  ASSUME NEW f \in Files, Sound(f), NEW r, InStep(f, r), NEW x \in Reader
  PROVE  /\ InStep(f, Seek(x, r.pos))
         /\ NextOutcome(f, Seek(x, r.pos)).at = NextOutcome(f, r).at
<1>1. r \in Reader /\ r.pos \in Nat
  BY DEF InStep, Reader
<1>2. InStep(f, Seek(x, r.pos)) /\ NextOffset(Seek(x, r.pos)) = r.pos
  BY <1>1, SeekFacts DEF NextOffset
<1>3. NextOffset(r) \in Nat
  BY NextOffsetNat
<1>4. IsNextPacket(f, r.pos, NextOutcome(f, Seek(x, r.pos)).at)
  BY <1>1, <1>2, NextOutcomeFacts, SearchFindsNext
<1>5. IsNextPacket(f, NextOffset(r), NextOutcome(f, r).at)
  BY <1>3, NextOutcomeFacts, SearchFindsNext
<1>6. \A s \in f.pkts : r.pos <= s <=> NextOffset(r) <= s
  <2>1. CASE r.state # "ReadData"
    BY <2>1 DEF NextOffset
  <2>2. CASE r.state = "ReadData"
    <3>1. PICK q \in DOMAIN f.cand : Good(f, q) /\ r = FoundAt(f, q).rd
      BY <2>2 DEF InStep
    <3>2. q \in f.pkts /\ Tiled(f)
      BY DEF Sound, Recording, Clean
    <3>3. r.pos = q + HeaderLen(f.cand[q]) /\ NextOffset(r) = q + f.cand[q].len
      BY <3>1, FoundNext DEF FoundAt, Outcome
    <3>4. /\ q \in Nat /\ f.cand[q].len \in Nat /\ HeaderLen(f.cand[q]) \in Nat \ {0}
          /\ HeaderLen(f.cand[q]) <= f.cand[q].len
          /\ \A s \in f.pkts : s <= q \/ q + f.cand[q].len <= s
      BY <3>2, TilingFacts
    <3>5. \A s \in f.pkts : s \in Nat
      BY <3>2, TilingFacts
    <3>. QED
      BY <3>3, <3>4, <3>5
  <2>. QED
    BY <2>1, <2>2
<1>. QED
  BY <1>1, <1>2, <1>3, <1>4, <1>5, <1>6, NextPacketUnique

\* Where there is no next header, there is none after that was found out either.
LEMMA NothingFollowsNothing ==
  ASSUME NEW f \in Files, Sound(f), NEW r, InStep(f, r), NextOutcome(f, r).at = NoHeader
  PROVE  NextOutcome(f, NextOutcome(f, r).rd).at = NoHeader
<1>. DEFINE o == NextOutcome(f, r)
            x == SkipToNext(r)
<1>1. NextOffset(r) \in Nat /\ x \in Reader
  BY NextOffsetNat
<1>2. o \in HeaderSearch(f, x, NextOffset(r)) /\ InStep(f, o.rd)
  BY NextOutcomeFacts
<1>3. ~BadChecksum(f, NextOffset(r))
  BY DEF Sound, Recording, Clean, BadChecksum, Good, HeaderOk
<1>4. PICK q \in Nat : o = IF Good(f, q) THEN FoundAt(f, q) ELSE ShortRead(f, x, q)
  BY <1>1, <1>2, <1>3, SearchStopsFirst
<1>5. ~Good(f, q)
  BY <1>4, FoundFacts DEF NoHeader
<1>6. f.size \in Nat /\ MaxOf(q, f.size) \in Nat /\ f.size <= MaxOf(q, f.size)
  BY ReaderAssumption DEF IsFile, MaxOf
<1>. HIDE DEF x
<1>7. o = ShortRead(f, x, q)
  BY <1>4, <1>5
<1>8. o.rd.state = "Unsynced" /\ o.rd.pos = MaxOf(q, f.size)
  <2>. DEFINE n == IF SecTruncated(f, q) THEN HEADER_SIZE + SEC_HEADER_SIZE ELSE HEADER_SIZE
              y == [x EXCEPT !.state = "Unsynced", !.pos = MaxOf(q, f.size), !.hlen = n]
  <2>1. o = Outcome("EOF", NoHeader, y)
    BY <1>7 DEF ShortRead
  <2>2. y.state = "Unsynced" /\ y.pos = MaxOf(q, f.size)
    BY <1>1 DEF Reader
  <2>. HIDE DEF y, o
  <2>3. o.rd = y
    BY <2>1 DEF Outcome
  <2>. QED
    BY <2>2, <2>3
<1>9. NextOffset(o.rd) = MaxOf(q, f.size)
  BY <1>8 DEF NextOffset
<1>. HIDE DEF o
<1>10. IsNextPacket(f, MaxOf(q, f.size), NextOutcome(f, o.rd).at)
  BY <1>2, <1>6, <1>9, NextOutcomeFacts, SearchFindsNext
<1>11. \A s \in f.pkts : s \in Nat /\ s < f.size
  BY TilingFacts, ReaderAssumption DEF Sound, Recording
<1>. QED
  BY <1>6, <1>10, <1>11 DEF IsNextPacket, o

-----------------------------------------------------------------------------
(* Outcomes along a walk.                                                   *)

\* A good header with the reader behind it, or none.
IsHeaderOutcome(f, o) ==
  /\ o = Outcome(o.status, o.at, o.rd) /\ InStep(f, o.rd)
  /\ \/ o.status = "OK" /\ Good(f, o.at) /\ o.at \in Nat /\ o = FoundAt(f, o.at)
     \/ o.status \in {"EOF", "HEADER_CHKSUM_BAD"} /\ o.at = NoHeader

LEMMA SearchIsHeaderOutcome ==
  ASSUME NEW f \in Files, NEW r \in Reader, NEW p \in Nat, NEW o \in HeaderSearch(f, r, p)
  PROVE  IsHeaderOutcome(f, o)
<1>1. \E st, at, x : o = Outcome(st, at, x)
  BY DEF HeaderSearch, ChecksumBad, FoundAt, ShortRead
<1>2. o = Outcome(o.status, o.at, o.rd)
  BY <1>1 DEF Outcome
<1>. QED
  BY <1>2, SearchReturns, SearchInStep DEF IsHeaderOutcome

LEMMA NextIsHeaderOutcome ==
  ASSUME NEW f \in Files, NEW r, InStep(f, r)
  PROVE  IsHeaderOutcome(f, NextOutcome(f, r))
BY NextOffsetNat, NextOutcomeFacts, SearchIsHeaderOutcome

\* Reading the data behind a good header.
LEMMA DataIsOutcome ==
  ASSUME NEW f \in Files, NEW q, Good(f, q)
  PROVE  LET d == DataOutcome(f, FoundAt(f, q).rd) IN
         /\ d = Outcome(d.status, NoHeader, d.rd) /\ InStep(f, d.rd)
         /\ d.status \in {"BUFFER_TOO_SMALL", "OK", "EOF"}
<1>. DEFINE r == FoundAt(f, q).rd
            n == DataLen(f.cand[q])
            d == DataOutcome(f, r)
<1>1. /\ q \in Nat /\ f.size \in Nat /\ HeaderLen(f.cand[q]) \in Nat /\ n \in Nat
      /\ q \in DOMAIN f.cand
  BY HeaderFacts DEF Good, HeaderOk
<1>2. /\ r \in Reader /\ r.state = "ReadData" /\ r.rpos = 0 /\ r.dlen = n
      /\ r.hlen = HeaderLen(f.cand[q]) /\ r.pos = q + HeaderLen(f.cand[q])
  BY FoundFacts DEF FoundAt, Outcome
<1>3. ReadAmount(r) = n
  BY <1>1, <1>2 DEF ReadAmount
<1>4. InStep(f, r)
  BY <1>1, <1>2 DEF InStep
<1>. HIDE DEF r, n
<1>5. \/ d = Outcome("BUFFER_TOO_SMALL", NoHeader, r)
      \/ d = Outcome("OK", NoHeader, [r EXCEPT !.state = "ReadHeader", !.pos = @ + ReadAmount(r),
                                                !.rpos = ReadAmount(r)])
      \/ d = Outcome("EOF", NoHeader, Seek(r, MaxOf(r.pos, f.size)))
  BY <1>2 DEF DataOutcome
<1>6. CASE d = Outcome("BUFFER_TOO_SMALL", NoHeader, r)
  BY <1>4, <1>6 DEF Outcome, r
<1>7. CASE d = Outcome("OK", NoHeader, [r EXCEPT !.state = "ReadHeader", !.pos = @ + ReadAmount(r),
                                                 !.rpos = ReadAmount(r)])
  <2>. DEFINE x == [r EXCEPT !.state = "ReadHeader", !.pos = @ + ReadAmount(r),
                             !.rpos = ReadAmount(r)]
  <2>1. /\ x.state = "ReadHeader" /\ x.pos = r.pos + n /\ x.rpos = n /\ x.hlen = r.hlen
        /\ x \in Reader
    <3>1. r.pos + n \in Nat
      BY <1>1, <1>2
    <3>2. x = [r EXCEPT !.state = "ReadHeader", !.pos = r.pos + n, !.rpos = n]
      BY <1>2, <1>3 DEF Reader
    <3>. QED
      BY <1>1, <1>2, <3>1, <3>2 DEF Reader
  <2>2. x.pos = q + x.hlen + x.rpos
    BY <1>1, <1>2, <2>1
  <2>. HIDE DEF x
  <2>3. InStep(f, x)
    BY <1>1, <1>2, <2>1, <2>2 DEF InStep, n
  <2>4. d = Outcome("OK", NoHeader, x)
    BY <1>7 DEF x
  <2>. HIDE DEF d
  <2>5. d.status = "OK" /\ d.rd = x
    BY <2>4 DEF Outcome
  <2>. QED
    BY <2>3, <2>4, <2>5 DEF d, r
<1>8. CASE d = Outcome("EOF", NoHeader, Seek(r, MaxOf(r.pos, f.size)))
  <2>1. MaxOf(r.pos, f.size) \in Nat
    BY <1>1, <1>2 DEF MaxOf
  <2>. DEFINE x == Seek(r, MaxOf(r.pos, f.size))
  <2>2. InStep(f, x)
    BY <1>2, <2>1, SeekFacts
  <2>. HIDE DEF x
  <2>3. d = Outcome("EOF", NoHeader, x)
    BY <1>8 DEF x
  <2>. HIDE DEF d
  <2>4. d.status = "EOF" /\ d.rd = x
    BY <2>3 DEF Outcome
  <2>. QED
    BY <2>2, <2>3, <2>4 DEF d, r
<1>. QED
  BY <1>5, <1>6, <1>7, <1>8

\* What follows a good header.
LEMMA FollowingIsHeaderOutcome ==
  ASSUME NEW f \in Files, NEW q, Good(f, q), NEW read \in BOOLEAN
  PROVE  IsHeaderOutcome(f, Following(f, q, read))
<1>. DEFINE found == FoundAt(f, q)
            d == IF read THEN DataOutcome(f, found.rd) ELSE found
<1>1. /\ d = Outcome(d.status, d.at, d.rd) /\ InStep(f, d.rd)
      /\ d.status = "EOF" => d.at = NoHeader
  <2>1. CASE read
    <3>1. d = DataOutcome(f, found.rd)
      BY <2>1
    <3>. HIDE DEF d
    <3>2. d = Outcome(d.status, NoHeader, d.rd) /\ InStep(f, d.rd)
      BY <3>1, DataIsOutcome
    <3>3. d.at = NoHeader
      BY <3>2 DEF Outcome
    <3>. QED
      BY <3>2, <3>3
  <2>2. CASE ~read
    <3>1. d = found
      BY <2>2
    <3>2. found = Outcome(found.status, found.at, found.rd) /\ found.status = "OK"
      BY DEF FoundAt, Outcome
    <3>3. InStep(f, found.rd)
      BY FoundFacts DEF InStep
    <3>. HIDE DEF d, found
    <3>. QED
      BY <3>1, <3>2, <3>3
  <2>. QED
    BY <2>1, <2>2
<1>2. Following(f, q, read) = IF d.status = "EOF" THEN d ELSE NextOutcome(f, d.rd)
  BY DEF Following
<1>. HIDE DEF d
<1>3. CASE d.status = "EOF"
  BY <1>1, <1>2, <1>3 DEF IsHeaderOutcome
<1>4. CASE d.status # "EOF"
  BY <1>1, <1>2, <1>4, NextIsHeaderOutcome
<1>. QED
  BY <1>3, <1>4

\* There are finitely many places a header can be at, so that a walk has a length.
LEMMA CandFinite ==
  ASSUME NEW f \in Files
  PROVE  IsFiniteSet(DOMAIN f.cand) /\ Cardinality(DOMAIN f.cand) \in Nat
<1>1. \A q \in DOMAIN f.cand : q \in Nat /\ q <= f.size /\ f.size \in Nat
  BY HeaderFacts, ReaderAssumption
<1>2. f.size \in Nat
  BY ReaderAssumption DEF IsFile
<1>3. IsFiniteSet(DOMAIN f.cand)
  BY <1>1, <1>2, FS_BoundedSetOfNaturals
<1>. QED
  BY <1>3, FS_CardinalityType

\* A walk along a function that leads from good headers to good headers, or to none, visits
\* good headers until it ends.
LEMMA WalkVisitsGood ==
  ASSUME NEW f \in Files, NEW N \in Nat, NEW a, NEW g, g[NoHeader] = NoHeader,
         a = NoHeader \/ Good(f, a),
         \A q \in DOMAIN f.cand : Good(f, q) => g[q] = NoHeader \/ Good(f, g[q])
  PROVE  \A n \in 0..N : Walk(N, a, g)[n] = NoHeader \/ Good(f, Walk(N, a, g)[n])
<1>. DEFINE w == Walk(N, a, g)
<1>1. w[0] = a /\ \A n \in 1..N : w[n] = g[w[n - 1]]
  BY WalkValues
<1>. HIDE DEF w
<1>. DEFINE bad == {n \in 0..N : ~(w[n] = NoHeader \/ Good(f, w[n]))}
<1>2. SUFFICES ASSUME bad # {} PROVE FALSE
  BY DEF w
<1>3. PICK n \in bad : \A k \in bad : n <= k
  <2>1. bad \in SUBSET Nat
    OBVIOUS
  <2>. HIDE DEF bad
  <2>. QED
    BY <1>2, <2>1, LeastElement
<1>4. n \in 1..N
  BY <1>1, <1>3
<1>5. n - 1 \in 0..N /\ ~(n <= n - 1)
  BY <1>4
<1>6. w[n - 1] = NoHeader \/ Good(f, w[n - 1])
  BY <1>3, <1>5
<1>7. w[n] = g[w[n - 1]]
  BY <1>1, <1>4
<1>8. CASE w[n - 1] = NoHeader
  BY <1>3, <1>7, <1>8
<1>9. CASE Good(f, w[n - 1])
  <2>1. w[n - 1] \in DOMAIN f.cand
    BY <1>9 DEF Good, HeaderOk
  <2>. QED
    BY <1>3, <1>7, <1>9, <2>1
<1>. QED
  BY <1>6, <1>8, <1>9

-----------------------------------------------------------------------------
(* Walks over sound recordings.                                             *)

\* The data of a packet of a sound recording are there, and the buffer that is as large as
\* the packet holds them; behind them the next packet begins.
LEMMA DataOfPacket ==
  ASSUME NEW f \in Files, Sound(f), NEW q \in f.pkts
  PROVE  LET d == DataOutcome(f, FoundAt(f, q).rd) IN
         d.status = "OK" /\ NextOffset(d.rd) = q + f.cand[q].len
<1>. DEFINE r == FoundAt(f, q).rd
            h == f.cand[q]
            d == DataOutcome(f, r)
<1>1. Good(f, q) /\ Tiled(f)
  BY DEF Sound, Recording
<1>2. /\ q \in Nat /\ f.size \in Nat /\ HeaderLen(h) \in Nat /\ h.len \in 0..(UINT32 - 1)
      /\ HeaderLen(h) <= h.len /\ q + h.len <= f.size
  BY <1>1, TilingFacts, HeaderFacts DEF Header
<1>3. DataLen(h) = h.len - HeaderLen(h)
  BY <1>2, ReaderAssumption DEF DataLen
<1>4. /\ r \in Reader /\ r.state = "ReadData" /\ r.rpos = 0 /\ r.dlen = DataLen(h)
      /\ r.plen = h.len /\ r.pos = q + HeaderLen(h)
  BY <1>1, FoundFacts DEF FoundAt, Outcome
<1>. HIDE DEF r, h
<1>5. ReadAmount(r) = h.len - HeaderLen(h)
  BY <1>2, <1>3, <1>4 DEF ReadAmount
<1>6. r.plen >= ReadAmount(r) /\ r.pos + ReadAmount(r) <= f.size
      /\ r.pos + ReadAmount(r) = q + h.len
  BY <1>2, <1>4, <1>5
<1>. DEFINE x == [r EXCEPT !.state = "ReadHeader", !.pos = @ + ReadAmount(r),
                           !.rpos = ReadAmount(r)]
<1>7. ~(r.state # "ReadData") /\ ~(r.plen < ReadAmount(r))
  BY <1>2, <1>4, <1>5
<1>8. d = Outcome("OK", NoHeader, x)
  BY <1>4, <1>6, <1>7 DEF DataOutcome
<1>9. x.state = "ReadHeader" /\ x.pos = q + h.len
  BY <1>4, <1>6 DEF Reader
<1>. HIDE DEF x
<1>10. d.status = "OK" /\ d.rd = x
  BY <1>8 DEF Outcome
<1>11. NextOffset(x) = q + h.len
  BY <1>9 DEF NextOffset
<1>. QED
  BY <1>10, <1>11 DEF r, h

\* What follows a packet of a sound recording is the next packet, whether or not its data
\* were read.
LEMMA FollowingIsNext ==
  ASSUME NEW f \in Files, Sound(f), NEW q \in f.pkts, NEW read \in BOOLEAN
  PROVE  LET o == Following(f, q, read) IN
         /\ IsNextPacket(f, q + 1, o.at)
         /\ o.status \in {"OK", "EOF"}
<1>. DEFINE d == IF read THEN DataOutcome(f, FoundAt(f, q).rd) ELSE FoundAt(f, q)
            o == NextOutcome(f, d.rd)
            p == NextOffset(d.rd)
<1>1. Good(f, q) /\ Tiled(f)
  BY DEF Sound, Recording
<1>2. d.status = "OK" /\ p = q + f.cand[q].len /\ InStep(f, d.rd)
  <2>1. CASE read
    BY <1>1, <2>1, DataOfPacket, DataIsOutcome
  <2>2. CASE ~read
    BY <1>1, <2>2, FoundFacts, FoundNext DEF InStep
  <2>. QED
    BY <2>1, <2>2
<1>3. Following(f, q, read) = o
  BY <1>2 DEF Following
<1>. HIDE DEF d
<1>4. p \in Nat /\ IsNextPacket(f, p, o.at)
  BY <1>2, NextOffsetNat, NextOutcomeFacts, SearchFindsNext
<1>5. IsNextPacket(f, q + 1, o.at)
  <2>1. \A s \in f.pkts : s \in Nat
    BY <1>1, TilingFacts
  <2>2. /\ q \in Nat /\ f.cand[q].len \in Nat /\ f.cand[q].len > 0
        /\ \A s \in f.pkts : s <= q \/ q + f.cand[q].len <= s
    BY <1>1, TilingFacts, ReaderAssumption
  <2>3. \A s \in f.pkts : p <= s <=> q + 1 <= s
    BY <1>2, <2>1, <2>2
  <2>. HIDE DEF p, o
  <2>. QED
    BY <1>4, <2>1, <2>2, <2>3 DEF IsNextPacket
<1>6. o.status \in {"OK", "EOF"}
  <2>1. o \in HeaderSearch(f, SkipToNext(d.rd), p)
    BY <1>2, NextOutcomeFacts
  <2>. QED
    BY <1>4, <2>1, SoundStatus
<1>. QED
  BY <1>3, <1>5, <1>6

\* A walk from the first packet at p or behind over what follows each visits the packets in
\* their order and leaves none out.
LEMMA WalkInOrder ==
  ASSUME NEW f \in Files, Sound(f), NEW N \in Nat, NEW p \in Nat, NEW a, NEW g,
         g[NoHeader] = NoHeader, IsNextPacket(f, p, a),
         \A q \in f.pkts : IsNextPacket(f, q + 1, g[q])
  PROVE  LET w == Walk(N, a, g) IN
         \A n \in 0..N :
           /\ w[n] = NoHeader \/ (w[n] \in f.pkts /\ p <= w[n])
           /\ \A s \in f.pkts : (p <= s /\ (w[n] = NoHeader \/ s < w[n]))
                                  => \E k \in 0..(n - 1) : w[k] = s
           /\ w[n] # NoHeader => \A k \in 0..(n - 1) : w[k] \in f.pkts /\ w[k] < w[n]
<1>. DEFINE w == Walk(N, a, g)
            InOrder(n) ==
              /\ w[n] = NoHeader \/ (w[n] \in f.pkts /\ p <= w[n])
              /\ \A s \in f.pkts : (p <= s /\ (w[n] = NoHeader \/ s < w[n]))
                                     => \E k \in 0..(n - 1) : w[k] = s
              /\ w[n] # NoHeader => \A k \in 0..(n - 1) : w[k] \in f.pkts /\ w[k] < w[n]
<1>1. w[0] = a /\ \A n \in 1..N : w[n] = g[w[n - 1]]
  BY WalkValues
<1>2. \A s \in f.pkts : s \in Nat
  BY TilingFacts DEF Sound, Recording
<1>. HIDE DEF w
<1>3. InOrder(0)
  <2>1. w[0] = NoHeader \/ (w[0] \in f.pkts /\ p <= w[0])
    BY <1>1 DEF IsNextPacket
  <2>2. \A s \in f.pkts : ~(p <= s /\ (w[0] = NoHeader \/ s < w[0]))
    BY <1>1, <1>2 DEF IsNextPacket, NoHeader
  <2>. QED
    BY <2>1, <2>2
<1>4. ASSUME NEW n \in 1..N, InOrder(n - 1) PROVE InOrder(n)
  <2>1. n - 1 \in Nat /\ w[n] = g[w[n - 1]]
    BY <1>1
  <2>2. CASE w[n - 1] = NoHeader
    <3>1. w[n] = NoHeader
      BY <2>1, <2>2
    <3>2. \A s \in f.pkts : p <= s => \E k \in 0..(n - 1 - 1) : w[k] = s
      BY <1>4, <2>2
    <3>3. 0..(n - 1 - 1) \subseteq 0..(n - 1)
      BY <2>1
    <3>. QED
      BY <3>1, <3>2, <3>3
  <2>3. CASE w[n - 1] # NoHeader
    <3>1. w[n - 1] \in f.pkts /\ p <= w[n - 1] /\ w[n - 1] \in Nat
      BY <1>2, <1>4, <2>3
    <3>2. IsNextPacket(f, w[n - 1] + 1, w[n])
      BY <2>1, <3>1
    <3>3. w[n] = NoHeader \/ (w[n] \in f.pkts /\ w[n - 1] < w[n] /\ p <= w[n])
      BY <1>2, <3>1, <3>2 DEF IsNextPacket
    <3>4. ASSUME NEW s \in f.pkts, p <= s, w[n] = NoHeader \/ s < w[n]
          PROVE  \E k \in 0..(n - 1) : w[k] = s
      <4>1. ~(w[n - 1] + 1 <= s)
        BY <1>2, <3>1, <3>2, <3>4 DEF IsNextPacket, NoHeader
      <4>2. CASE s = w[n - 1]
        BY <2>1, <4>2
      <4>3. CASE s # w[n - 1]
        <5>1. s < w[n - 1]
          BY <1>2, <3>1, <4>1, <4>3
        <5>2. \E k \in 0..(n - 1 - 1) : w[k] = s
          BY <1>4, <3>4, <5>1
        <5>. QED
          BY <5>2, <2>1
      <4>. QED
        BY <4>2, <4>3
    <3>5. ASSUME w[n] # NoHeader, NEW k \in 0..(n - 1) PROVE w[k] \in f.pkts /\ w[k] < w[n]
      <4>1. CASE k = n - 1
        BY <3>1, <3>3, <3>5, <4>1
      <4>2. CASE k # n - 1
        <5>1. k \in 0..(n - 1 - 1)
          BY <2>1, <4>2
        <5>2. w[k] \in f.pkts /\ w[k] < w[n - 1]
          BY <1>4, <2>3, <5>1
        <5>. QED
          BY <1>2, <3>1, <3>3, <3>5, <5>2
      <4>. QED
        BY <4>1, <4>2
    <3>. QED
      BY <3>3, <3>4, <3>5
  <2>. QED
    BY <2>2, <2>3
<1>5. ASSUME NEW m \in 0..N, ~InOrder(m) PROVE FALSE
  <2>. DEFINE bad == {n \in 0..N : ~InOrder(n)}
  <2>. HIDE DEF InOrder
  <2>1. PICK n \in bad : \A k \in bad : n <= k
    <3>1. bad \in SUBSET Nat /\ bad # {}
      BY <1>5
    <3>. HIDE DEF bad
    <3>. QED
      BY <3>1, LeastElement
  <2>2. n \in 1..N
    BY <1>3, <2>1
  <2>3. n - 1 \in 0..N /\ ~(n <= n - 1)
    BY <2>2
  <2>4. InOrder(n - 1)
    BY <2>1, <2>3
  <2>. QED
    BY <1>4, <2>1, <2>2, <2>4
<1>. QED
  BY <1>5 DEF w

-----------------------------------------------------------------------------
(* The walks of the code: F[q] is the outcome of the read after the header at q. *)

Steps(f, F) ==
  [q \in DOMAIN f.cand \cup {NoHeader} |-> IF q = NoHeader THEN NoHeader ELSE F[q].at]

HeadersAlong(f, r, F) == Walk(Cardinality(DOMAIN f.cand), NextOutcome(f, r).at, Steps(f, F))

OutcomeAlong(f, r, F, n) ==
  IF n = 0 THEN NextOutcome(f, r) ELSE F[HeadersAlong(f, r, F)[n - 1]]

\* After every good header comes a good header, or none.
LeadsOn(f, F) == \A q \in DOMAIN f.cand : Good(f, q) => IsHeaderOutcome(f, F[q])

\* After every packet comes the next one.
LeadsInOrder(f, F) ==
  \A q \in f.pkts : IsNextPacket(f, q + 1, F[q].at) /\ F[q].status \in {"OK", "EOF"}

\* The numbers of the headers of such a walk.
LEMMA AlongDomain ==
  ASSUME NEW f \in Files, NEW r, NEW F
  PROVE  LET w == HeadersAlong(f, r, F) IN
         /\ DOMAIN w = 0..Cardinality(DOMAIN f.cand)
         /\ w[0] = NextOutcome(f, r).at
         /\ \A n \in DOMAIN w :
              n \in Nat /\ (n # 0 => n - 1 \in DOMAIN w /\ n - 1 \in 0..(n - 1) /\ 0 \in 0..(n - 1))
<1>1. Cardinality(DOMAIN f.cand) \in Nat
  BY CandFinite
<1>. DEFINE w == HeadersAlong(f, r, F)
            N == Cardinality(DOMAIN f.cand)
<1>2. DOMAIN w = 0..N /\ w[0] = NextOutcome(f, r).at
  BY <1>1, WalkValues DEF HeadersAlong
<1>. HIDE DEF w, N
<1>3. \A n \in DOMAIN w :
        n \in Nat /\ (n # 0 => n - 1 \in DOMAIN w /\ n - 1 \in 0..(n - 1) /\ 0 \in 0..(n - 1))
  BY <1>1, <1>2 DEF N
<1>. QED
  BY <1>2, <1>3 DEF w, N

\* Along the walk there are good headers, then none; each outcome is the header's.
LEMMA AlongOutcomes ==
  ASSUME NEW f \in Files, NEW r, InStep(f, r), NEW F, LeadsOn(f, F),
         NEW n \in DOMAIN HeadersAlong(f, r, F),
         \A k \in 0..(n - 1) : HeadersAlong(f, r, F)[k] # NoHeader
  PROVE  /\ IsHeaderOutcome(f, OutcomeAlong(f, r, F, n))
         /\ OutcomeAlong(f, r, F, n).at = HeadersAlong(f, r, F)[n]
         /\ n # 0 => Good(f, HeadersAlong(f, r, F)[n - 1])
<1>. DEFINE N == Cardinality(DOMAIN f.cand)
            a == NextOutcome(f, r).at
            g == Steps(f, F)
            w == HeadersAlong(f, r, F)
<1>1. N \in Nat
  BY CandFinite
<1>2. w = Walk(N, a, g) /\ DOMAIN w = 0..N /\ w[0] = a /\ \A k \in 1..N : w[k] = g[w[k - 1]]
  BY <1>1, WalkValues DEF HeadersAlong
<1>3. g[NoHeader] = NoHeader /\ \A q \in DOMAIN f.cand : g[q] = F[q].at
  BY HeaderFacts DEF Steps, NoHeader
<1>4. IsHeaderOutcome(f, NextOutcome(f, r))
  BY NextIsHeaderOutcome
<1>5. \A k \in 0..N : w[k] = NoHeader \/ Good(f, w[k])
  <2>1. a = NoHeader \/ Good(f, a)
    BY <1>4 DEF IsHeaderOutcome
  <2>2. \A q \in DOMAIN f.cand : Good(f, q) => g[q] = NoHeader \/ Good(f, g[q])
    BY <1>3 DEF LeadsOn, IsHeaderOutcome
  <2>. HIDE DEF N, a, g, w
  <2>. QED
    BY <1>1, <1>2, <1>3, <2>1, <2>2, WalkVisitsGood
<1>. HIDE DEF N, a, g
<1>6. CASE n = 0
  BY <1>2, <1>4, <1>6 DEF OutcomeAlong, a
<1>7. CASE n # 0
  <2>1. n \in 1..N /\ n - 1 \in 0..(n - 1) /\ n - 1 \in 0..N
    BY <1>1, <1>2, <1>7
  <2>2. Good(f, w[n - 1])
    BY <1>5, <2>1
  <2>3. OutcomeAlong(f, r, F, n) = F[w[n - 1]]
    BY <1>7 DEF OutcomeAlong
  <2>4. w[n - 1] \in DOMAIN f.cand
    BY <2>2 DEF Good, HeaderOk
  <2>5. w[n] = F[w[n - 1]].at
    BY <1>2, <1>3, <2>1, <2>4
  <2>. QED
    BY <2>2, <2>3, <2>4, <2>5 DEF LeadsOn
<1>. QED
  BY <1>6, <1>7

\* On a sound recording the walk goes over all packets from the next one on, in their order,
\* and ends at the end of the file.
LEMMA AlongInOrder ==
  ASSUME NEW f \in Files, Sound(f), NEW r, InStep(f, r), NEW F, LeadsInOrder(f, F),
         NEW n \in DOMAIN HeadersAlong(f, r, F)
  PROVE  LET w == HeadersAlong(f, r, F)
             q1 == NextOutcome(f, r).at
         IN /\ w[n] = NoHeader \/ (w[n] \in f.pkts /\ q1 # NoHeader /\ q1 <= w[n])
            /\ \A s \in f.pkts : (q1 # NoHeader /\ q1 <= s /\ (w[n] = NoHeader \/ s < w[n]))
                                   => \E k \in 0..(n - 1) : w[k] = s
            /\ w[n] # NoHeader => \A k \in 0..(n - 1) : w[k] \in f.pkts /\ w[k] < w[n]
            /\ (\A k \in 0..(n - 1) : w[k] # NoHeader)
                 => OutcomeAlong(f, r, F, n).status \in {"OK", "EOF"}
<1>. DEFINE N == Cardinality(DOMAIN f.cand)
            a == NextOutcome(f, r).at
            g == Steps(f, F)
            w == HeadersAlong(f, r, F)
            p == NextOffset(r)
            InOrder(m) ==
              /\ w[m] = NoHeader \/ (w[m] \in f.pkts /\ p <= w[m])
              /\ \A s \in f.pkts : (p <= s /\ (w[m] = NoHeader \/ s < w[m]))
                                     => \E k \in 0..(m - 1) : w[k] = s
              /\ w[m] # NoHeader => \A k \in 0..(m - 1) : w[k] \in f.pkts /\ w[k] < w[m]
<1>1. N \in Nat
  BY CandFinite
<1>2. w = Walk(N, a, g) /\ DOMAIN w = 0..N /\ n \in 0..N
  BY AlongDomain DEF HeadersAlong
<1>3. p \in Nat /\ IsNextPacket(f, p, a) /\ NextOutcome(f, r) \in HeaderSearch(f, SkipToNext(r), p)
  BY NextOffsetNat, NextOutcomeFacts, SearchFindsNext
<1>4. g[NoHeader] = NoHeader /\ \A q \in f.pkts : IsNextPacket(f, q + 1, g[q])
  <2>1. \A q \in f.pkts : q \in DOMAIN f.cand /\ q \in Nat
    BY TilingFacts DEF Sound, Recording
  <2>2. \A q \in f.pkts : g[q] = F[q].at
    BY <2>1 DEF Steps, NoHeader
  <2>3. g[NoHeader] = NoHeader
    BY DEF Steps
  <2>. QED
    BY <2>2, <2>3 DEF LeadsInOrder
<1>. HIDE DEF N, a, g, w, p
<1>5. \A m \in 0..N : InOrder(m)
  BY <1>1, <1>2, <1>3, <1>4, WalkInOrder
<1>6. \A s \in f.pkts : s \in Nat
  BY TilingFacts DEF Sound, Recording
<1>7. \A s \in f.pkts : p <= s <=> (a # NoHeader /\ a <= s)
  BY <1>3, <1>6 DEF IsNextPacket, NoHeader
<1>8. ASSUME \A k \in 0..(n - 1) : w[k] # NoHeader
      PROVE  OutcomeAlong(f, r, F, n).status \in {"OK", "EOF"}
  <2>1. CASE n = 0
    BY <1>3, <2>1, SoundStatus DEF OutcomeAlong
  <2>2. CASE n # 0
    <3>1. n - 1 \in 0..N /\ n - 1 \in 0..(n - 1)
      BY <1>1, <1>2, <2>2
    <3>2. w[n - 1] \in f.pkts
      BY <1>5, <1>8, <3>1
    <3>. QED
      BY <2>2, <3>2 DEF OutcomeAlong, LeadsInOrder, w
  <2>. QED
    BY <2>1, <2>2
<1>9. InOrder(n)
  BY <1>2, <1>5
<1>. HIDE DEF InOrder
<1>10. /\ w[n] = NoHeader \/ (w[n] \in f.pkts /\ a # NoHeader /\ a <= w[n])
       /\ \A s \in f.pkts : (a # NoHeader /\ a <= s /\ (w[n] = NoHeader \/ s < w[n]))
                              => \E k \in 0..(n - 1) : w[k] = s
       /\ w[n] # NoHeader => \A k \in 0..(n - 1) : w[k] \in f.pkts /\ w[k] < w[n]
  BY <1>7, <1>9 DEF InOrder
<1>. QED
  BY <1>8, <1>10 DEF w, a

=============================================================================
