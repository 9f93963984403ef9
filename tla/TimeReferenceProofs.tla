------------------------- MODULE TimeReferenceProofs -------------------------
(***************************************************************************)
(* What SyncTime does to the reader and to the reference, for every set of *)
(* files, time stamps and limits: it always leaves the reader in step; on  *)
(* a sound recording the program goes on with the packet it would have     *)
(* read next, and the time packet taken is the first that will do.         *)
(***************************************************************************)
EXTENDS TimeReference, Ch10ReaderProofs

\* The reference keeps its fields, and a call's result too.
TimeInv ==
  /\ ReaderInv
  /\ DOMAIN tref = {"rel", "time", "relValid", "absValid"}
  /\ DOMAIN ret = {"op", "status", "at"}

-----------------------------------------------------------------------------
(* The walk over the headers that SyncTime makes.                           *)

\* What follows each header.
TimeSteps(f) == [q \in DOMAIN f.cand |-> Following(f, q, IsTimePacket(f, q))]

TimeWalk(f, r) == HeadersAlong(f, r, TimeSteps(f))

\* The outcome that led to the n-th header.
TimeOutcome(f, r, n) == OutcomeAlong(f, r, TimeSteps(f), n)

LEMMA TimeLeadsOn ==
  ASSUME NEW f \in Files
  PROVE  LeadsOn(f, TimeSteps(f)) /\ (Sound(f) => LeadsInOrder(f, TimeSteps(f)))
<1>1. \A q : IsTimePacket(f, q) \in BOOLEAN
  BY DEF IsTimePacket
<1>2. ASSUME NEW q \in DOMAIN f.cand, Good(f, q) PROVE IsHeaderOutcome(f, TimeSteps(f)[q])
  BY <1>1, <1>2, FollowingIsHeaderOutcome DEF TimeSteps
<1>3. ASSUME Sound(f), NEW q \in f.pkts
      PROVE  IsNextPacket(f, q + 1, TimeSteps(f)[q].at) /\ TimeSteps(f)[q].status \in {"OK", "EOF"}
  <2>1. q \in DOMAIN f.cand
    BY <1>3, TilingFacts DEF Sound, Recording
  <2>2. TimeSteps(f)[q] = Following(f, q, IsTimePacket(f, q))
    BY <2>1 DEF TimeSteps
  <2>. QED
    BY <1>1, <1>3, <2>2, FollowingIsNext
<1>. QED
  BY <1>2, <1>3 DEF LeadsOn, LeadsInOrder

\* A search ends at the first header of the walk at which it has to.
LEMMA SearchIsWalk ==
  ASSUME NEW f \in Files, NEW r, InStep(f, r), NEW require, NEW limit,
         NEW o \in Search(f, r, require, limit)
  PROVE  \E n \in DOMAIN TimeWalk(f, r) :
           LET w == TimeWalk(f, r)
               q1 == NextOutcome(f, r).at
           IN /\ o = Found(f, limit, q1, w[n], TimeOutcome(f, r, n))
              /\ w[n] = NoHeader \/ SyncEnds(f, require, limit, q1, w[n])
              /\ \A k \in 0..(n - 1) : w[k] # NoHeader /\ ~SyncEnds(f, require, limit, q1, w[k])
<1>. DEFINE next(q) == Following(f, q, IsTimePacket(f, q))
            q1 == NextOutcome(f, r).at
            w == Headers(f, r, next)
<1>1. w = TimeWalk(f, r)
  <2>. DEFINE N == Cardinality(DOMAIN f.cand)
              g == [q \in DOMAIN f.cand \cup {NoHeader} |->
                      IF q = NoHeader THEN NoHeader ELSE next(q).at]
  <2>1. w = Walk(N, q1, g)
    BY DEF Headers, Walk, IsWalk
  <2>2. g = Steps(f, TimeSteps(f))
    BY DEF TimeSteps, Steps
  <2>. HIDE DEF g, w, q1, N
  <2>. QED
    BY <2>1, <2>2 DEF TimeWalk, HeadersAlong, q1, N
<1>2. PICK n \in DOMAIN w :
        /\ w[n] = NoHeader \/ SyncEnds(f, require, limit, q1, w[n])
        /\ \A k \in 0..(n - 1) : ~(w[k] = NoHeader \/ SyncEnds(f, require, limit, q1, w[k]))
        /\ o = Found(f, limit, q1, w[n], IF n = 0 THEN NextOutcome(f, r) ELSE next(w[n - 1]))
  BY DEF Search, FirstStop, OutcomeOf
<1>. HIDE DEF w
<1>3. TimeOutcome(f, r, n) = IF n = 0 THEN NextOutcome(f, r) ELSE next(w[n - 1])
  <2>1. n # 0 => w[n - 1] \in DOMAIN f.cand
    BY <1>1, <1>2, TimeLeadsOn, AlongOutcomes DEF TimeWalk, Good, HeaderOk
  <2>. QED
    BY <1>1, <2>1 DEF TimeOutcome, OutcomeAlong, TimeSteps, TimeWalk
<1>. QED
  BY <1>1, <1>2, <1>3

\* A search leaves a reader that is in step; when there was no header to begin with, the
\* one that found that out.
LEMMA SearchLeavesInStep ==
  ASSUME NEW f \in Files, NEW r, InStep(f, r), NEW require, NEW limit,
         NEW o \in Search(f, r, require, limit)
  PROVE  /\ InStep(f, o.rd)
         /\ NextOutcome(f, r).status # "OK" => o.rd = NextOutcome(f, r).rd
<1>. DEFINE w == TimeWalk(f, r)
            q1 == NextOutcome(f, r).at
<1>1. PICK n \in DOMAIN w :
        /\ o = Found(f, limit, q1, w[n], TimeOutcome(f, r, n))
        /\ \A k \in 0..(n - 1) : w[k] # NoHeader
  BY SearchIsWalk
<1>. DEFINE p == TimeOutcome(f, r, n)
            d == DataOutcome(f, p.rd)
<1>2. IsHeaderOutcome(f, p) /\ p.at = w[n]
  BY <1>1, TimeLeadsOn, AlongOutcomes DEF TimeWalk, TimeOutcome
<1>3. o.rd = p.rd \/ (w[n] # NoHeader /\ o.rd = d.rd)
  <2>1. p = Outcome(p.status, p.at, p.rd)
    BY <1>2 DEF IsHeaderOutcome
  <2>2. CASE w[n] = NoHeader \/ Beyond(f, limit, q1, w[n])
    <3>. HIDE DEF p, w
    <3>. QED
      BY <1>1, <2>1, <2>2 DEF Found, Outcome, p
  <2>3. CASE ~(w[n] = NoHeader \/ Beyond(f, limit, q1, w[n]))
    <3>1. Good(f, w[n]) /\ p = FoundAt(f, w[n])
      BY <1>2, <2>3 DEF IsHeaderOutcome
    <3>2. d = Outcome(d.status, NoHeader, d.rd)
      BY <3>1, DataIsOutcome
    <3>3. o = [d EXCEPT !.status = IF @ = "OK" THEN @ ELSE "TIME_NOT_FOUND", !.at = w[n]]
      BY <1>1, <2>3 DEF Found
    <3>. HIDE DEF d, w
    <3>. QED
      BY <2>3, <3>2, <3>3 DEF Outcome
  <2>. QED
    BY <2>2, <2>3
<1>4. InStep(f, o.rd)
  <2>1. CASE o.rd = p.rd
    BY <1>2, <2>1 DEF IsHeaderOutcome
  <2>2. CASE w[n] # NoHeader /\ o.rd = d.rd
    <3>1. Good(f, w[n]) /\ p = FoundAt(f, w[n])
      BY <1>2, <2>2 DEF IsHeaderOutcome
    <3>. QED
      BY <2>2, <3>1, DataIsOutcome
  <2>. QED
    BY <1>3, <2>1, <2>2
<1>5. ASSUME NextOutcome(f, r).status # "OK" PROVE o.rd = NextOutcome(f, r).rd
  <2>1. w[0] = q1 /\ (n # 0 => 0 \in 0..(n - 1))
    BY AlongDomain DEF TimeWalk
  <2>2. q1 = NoHeader
    BY <1>5, NextIsHeaderOutcome DEF IsHeaderOutcome
  <2>3. n = 0
    BY <1>1, <2>1, <2>2
  <2>. QED
    BY <1>3, <2>1, <2>2, <2>3 DEF TimeOutcome, OutcomeAlong
<1>. QED
  BY <1>4, <1>5

-----------------------------------------------------------------------------
(* The invariant.                                                           *)

\* SyncTime leaves the reader in step.
LEMMA SyncInStep ==
  ASSUME ReaderInv, NEW require, NEW limit, SyncTime(require, limit)
  PROVE  ReaderInv'
<1>1. UNCHANGED <<file, mode>> /\ file \in Files /\ InStep(file, rd) /\ rd \in Reader
      /\ rd.pos \in Nat
  BY DEF SyncTime, ReaderInv, InStep, Reader
<1>2. CASE mode = "READ_IN_ORDER"
  BY <1>1, <1>2, InStepPreserves DEF SyncTime
<1>3. CASE mode # "READ_IN_ORDER"
  <2>1. PICK o \in Search(file, rd, require, limit) :
          rd' = Restored(o.rd, rd) \/ rd' = o.rd
    BY <1>3 DEF SyncTime
  <2>2. InStep(file, o.rd)
    BY <1>1, SearchLeavesInStep
  <2>3. InStep(file, Restored(o.rd, rd))
    BY <1>1, <2>2, SeekFacts DEF Restored, InStep
  <2>. QED
    BY <1>1, <2>1, <2>2, <2>3, InStepPreserves
<1>. QED
  BY <1>2, <1>3

\* The calls of the reader that a program makes in between.
LEMMA ReadOnPreserves ==
  ASSUME TimeInv, ReadOn
  PROVE  TimeInv'
<1>1. ReaderInv'
  BY PositioningPreserves, ReadNextHeaderPreserves, ReadDataPreserves DEF TimeInv, ReadOn
<1>2. \E op, st, at : ret' = Returned(op, st, at)
  BY DEF ReadOn, Close, ReadNextHeader, ReadData
<1>3. DOMAIN ret' = {"op", "status", "at"}
  BY <1>2 DEF Returned
<1>4. tref' = tref
  BY DEF ReadOn, timevars
<1>. QED
  BY <1>1, <1>3, <1>4 DEF TimeInv

\* A call that leaves the reader alone and sets the reference or returns.
LEMMA ApartFromReader ==
  ASSUME TimeInv, UNCHANGED <<file, mode, rd>>,
         \/ \E op, st, at : ret' = Returned(op, st, at)
         \/ \E op : ret' = [ret EXCEPT !.op = op]
         \/ ret' = ret,
         tref' = tref \/ \E t, rel : tref' = SetTo(tref, t, rel)
  PROVE  TimeInv'
<1>1. ReaderInv'
  BY InStepPreserves DEF TimeInv
<1>2. DOMAIN ret' = {"op", "status", "at"}
  BY DEF TimeInv, Returned
<1>3. DOMAIN tref' = {"rel", "time", "relValid", "absValid"}
  BY DEF TimeInv, SetTo
<1>. QED
  BY <1>1, <1>2, <1>3 DEF TimeInv

LEMMA TimeStepPreserves ==
  ASSUME TimeInv, [TimeNext]_allvars PROVE TimeInv'
<1>1. ASSUME NEW f \in Files, NEW m \in Modes, OpenTimed(f, m) PROVE TimeInv'
  <2>1. Open(f, m) /\ tref' = tref
    BY <1>1 DEF OpenTimed
  <2>2. ReaderInv'
    BY <2>1, OpenPreserves DEF TimeInv
  <2>3. \E op, st, at : ret' = Returned(op, st, at)
    BY <2>1 DEF Open, OpenFile
  <2>4. DOMAIN ret' = {"op", "status", "at"}
    BY <2>3 DEF Returned
  <2>. QED
    BY <2>1, <2>2, <2>4 DEF TimeInv
<1>2. ASSUME NEW require \in BOOLEAN, NEW limit \in Limits, SyncTime(require, limit)
      PROVE  TimeInv'
  <2>1. ReaderInv'
    BY <1>2, SyncInStep DEF TimeInv
  <2>2. \E op, st, at : ret' = Returned(op, st, at)
    BY <1>2 DEF SyncTime
  <2>3. tref' = tref \/ \E t, rel : tref' = SetTo(tref, t, rel)
    BY <1>2 DEF SyncTime
  <2>4. DOMAIN ret' = {"op", "status", "at"}
    BY <2>2 DEF Returned
  <2>5. DOMAIN tref' = {"rel", "time", "relValid", "absValid"}
    BY <2>3 DEF TimeInv, SetTo
  <2>. QED
    BY <2>1, <2>4, <2>5 DEF TimeInv
<1>3. ASSUME NEW t, NEW rel, SetRelTime(t, rel) \/ SetRelTime2(t, rel) PROVE TimeInv'
  BY <1>3, ApartFromReader DEF SetRelTime, SetRelTime2
<1>4. ASSUME NEW msg \in BOOLEAN, FillIn(msg) PROVE TimeInv'
  BY <1>4, ApartFromReader DEF FillIn
<1>5. CASE UNCHANGED allvars
  BY <1>5, ApartFromReader DEF allvars, timevars
<1>. QED
  BY <1>1, <1>2, <1>3, <1>4, <1>5, ReadOnPreserves DEF TimeNext

\* The invariant of the reader holds whatever calls of i106_time.c come in between.
LEMMA TimeInductive == TimeSpec => []TimeInv
<1>1. TimeInit => TimeInv
  <2>. SUFFICES ASSUME TimeInit PROVE TimeInv
    OBVIOUS
  <2>1. ReaderInv
    BY InitIInv, IInvParts DEF TimeInit
  <2>. QED
    BY <2>1 DEF TimeInv, TimeInit, Init, Returned, NoTimeRef
<1>. QED
  BY <1>1, TimeStepPreserves, PTL DEF TimeSpec

\* In a program that also keeps time, reading data never uses stale length fields: they are
\* those of the header just before the position, also after a search that stopped anywhere.
THEOREM TimePositionConsistent == TimeSpec => []PositionConsistent
<1>1. TimeInv => PositionConsistent
  BY DEF TimeInv, ReaderInv, InStep, PositionConsistent
<1>. QED
  BY <1>1, TimeInductive, PTL

-----------------------------------------------------------------------------
(* The place and the packet found.                                          *)

\* Only SyncTime returns as SyncTime.
LEMMA OnlySyncTime ==
  ASSUME TimeInv, TimeNext, ret'.op = "SyncTime"
  PROVE  \E require, limit : SyncTime(require, limit)
<1>1. ASSUME NEW f, NEW m, Open(f, m) PROVE FALSE
  <2>1. \E st, at : ret' = Returned("Open", st, at)
    BY <1>1 DEF Open, OpenFile
  <2>. QED
    BY <2>1 DEF Returned
<1>2. CASE ReadOn
  <2>1. \E op \in {"Close", "ReadNextHeader", "ReadData"} : \E st, at : ret' = Returned(op, st, at)
    BY <1>2 DEF ReadOn, Close, ReadNextHeader, ReadData
  <2>. QED
    BY <2>1 DEF Returned
<1>3. ASSUME NEW t, NEW rel, SetRelTime(t, rel) \/ SetRelTime2(t, rel) PROVE FALSE
  BY <1>3 DEF SetRelTime, SetRelTime2, Returned
<1>4. ASSUME NEW msg, FillIn(msg) PROVE FALSE
  BY <1>4 DEF FillIn, TimeInv
<1>. QED
  BY <1>1, <1>2, <1>3, <1>4 DEF TimeNext, OpenTimed

\* A search for the time does not make the program miss or repeat a packet of a sound
\* recording, whichever way it ends and wherever it began (enI106_SyncTime).
THEOREM SyncReturnsToPlace == TimeSpec => SyncKeepsPlace
<1>1. ASSUME TimeInv, TimeNext, ret'.op = "SyncTime", mode = "READ", Recording(file), Clean(file)
      PROVE  NextOutcome(file, rd').at = NextOutcome(file, rd).at
  <2>1. file \in Files /\ InStep(file, rd) /\ Sound(file)
    BY <1>1 DEF TimeInv, ReaderInv, Sound
  <2>2. PICK require, limit : SyncTime(require, limit)
    BY <1>1, OnlySyncTime
  <2>3. PICK o \in Search(file, rd, require, limit) :
          rd' = IF NextOutcome(file, rd).status = "OK" THEN Restored(o.rd, rd) ELSE o.rd
    BY <1>1, <2>2 DEF SyncTime
  <2>4. InStep(file, o.rd) /\ o.rd \in Reader
    BY <2>1, SearchLeavesInStep DEF InStep
  <2>5. CASE NextOutcome(file, rd).status = "OK"
    BY <2>1, <2>3, <2>4, <2>5, SeekKeepsPlace DEF Restored
  <2>6. CASE NextOutcome(file, rd).status # "OK"
    <3>1. rd' = NextOutcome(file, rd).rd
      BY <2>1, <2>3, <2>6, SearchLeavesInStep
    <3>2. NextOutcome(file, rd).at = NoHeader
      BY <2>1, <2>6, NextIsHeaderOutcome DEF IsHeaderOutcome
    <3>. QED
      BY <2>1, <3>1, <3>2, NothingFollowsNothing
  <2>. QED
    BY <2>5, <2>6
<1>2. TimeInv /\ [TimeNext]_allvars
      => [ (ret'.op = "SyncTime" /\ mode = "READ" /\ Recording(file) /\ Clean(file))
           => NextOutcome(file, rd').at = NextOutcome(file, rd).at ]_allvars
  BY <1>1
<1>. QED
  BY <1>2, TimeInductive, PTL DEF TimeSpec, SyncKeepsPlace

\* The packets a search may take: within its reach and with the time source asked for.
Eligible(f, r, require, limit) ==
  {q \in Reach(f, NextOutcome(f, r).at, limit) :
     /\ IsTimePacket(f, q)
     /\ require => Stamps(f, q).packet[1].src = 1}

\* The search takes the first eligible packet, and fails only when there is none.
LEMMA SearchTakesFirst ==
  ASSUME NEW f \in Files, Sound(f), NEW r, InStep(f, r), NEW require, NEW limit,
         NEW o \in Search(f, r, require, limit)
  PROVE  LET good == Eligible(f, r, require, limit) IN
         \/ o.status = "TIME_NOT_FOUND" /\ good = {}
         \/ o.status = "OK" /\ o.at \in good /\ \A s \in good : o.at <= s
<1>. DEFINE w == TimeWalk(f, r)
            q1 == NextOutcome(f, r).at
            good == Eligible(f, r, require, limit)
            ends(q) == SyncEnds(f, require, limit, q1, q)
<1>1. PICK n \in DOMAIN w :
        /\ o = Found(f, limit, q1, w[n], TimeOutcome(f, r, n))
        /\ w[n] = NoHeader \/ ends(w[n])
        /\ \A k \in 0..(n - 1) : w[k] # NoHeader /\ ~ends(w[k])
  BY SearchIsWalk
<1>. DEFINE p == TimeOutcome(f, r, n)
<1>2. IsHeaderOutcome(f, p) /\ p.at = w[n]
  BY <1>1, TimeLeadsOn, AlongOutcomes DEF TimeWalk, TimeOutcome
<1>3. /\ w[n] = NoHeader \/ (w[n] \in f.pkts /\ q1 # NoHeader /\ q1 <= w[n])
      /\ \A s \in f.pkts : (q1 # NoHeader /\ q1 <= s /\ (w[n] = NoHeader \/ s < w[n]))
                             => \E k \in 0..(n - 1) : w[k] = s
      /\ p.status \in {"OK", "EOF"}
  BY <1>1, TimeLeadsOn, AlongInOrder DEF TimeWalk, TimeOutcome
<1>4. \A s \in f.pkts : s \in Nat /\ Good(f, s) /\ DataOutcome(f, FoundAt(f, s).rd).status = "OK"
  BY TilingFacts, DataOfPacket DEF Sound, Recording
<1>5. \A s \in good :
        /\ s \in f.pkts /\ q1 # NoHeader /\ q1 <= s /\ ends(s) /\ IsTimePacket(f, s)
        /\ \A t \in f.pkts : (q1 <= t /\ t <= s) => ~Beyond(f, limit, q1, t)
  BY DEF Eligible, Reach, SyncEnds, Qualifies
<1>6. \A s \in f.pkts : (s \in good /\ (w[n] = NoHeader \/ s < w[n])) => FALSE
  BY <1>1, <1>3, <1>5
<1>7. CASE w[n] = NoHeader
  <2>1. good = {}
    BY <1>5, <1>6, <1>7
  <2>2. p.status = "EOF"
    <3>1. p.status # "OK"
      BY <1>2, <1>7 DEF IsHeaderOutcome, NoHeader
    <3>. QED
      BY <1>3, <3>1
  <2>3. p = Outcome(p.status, p.at, p.rd)
    BY <1>2 DEF IsHeaderOutcome
  <2>4. o = [p EXCEPT !.status = IF @ = "EOF" THEN "TIME_NOT_FOUND" ELSE @]
    BY <1>1, <1>7 DEF Found
  <2>. HIDE DEF p, good
  <2>5. o.status = "TIME_NOT_FOUND"
    BY <2>2, <2>3, <2>4 DEF Outcome
  <2>. QED
    BY <2>1, <2>5 DEF good
<1>8. CASE w[n] # NoHeader /\ Beyond(f, limit, q1, w[n])
  <2>1. w[n] \in f.pkts /\ q1 <= w[n]
    BY <1>3, <1>8
  <2>2. \A s \in good : ~(w[n] <= s)
    BY <1>5, <1>8, <2>1
  <2>3. good = {}
    BY <1>4, <1>5, <1>6, <2>1, <2>2
  <2>4. p = Outcome(p.status, p.at, p.rd)
    BY <1>2 DEF IsHeaderOutcome
  <2>5. o = [p EXCEPT !.status = "TIME_NOT_FOUND"]
    BY <1>1, <1>8 DEF Found
  <2>. HIDE DEF p, good
  <2>6. o.status = "TIME_NOT_FOUND"
    BY <2>4, <2>5 DEF Outcome
  <2>. QED
    BY <2>3, <2>6 DEF good
<1>9. CASE w[n] # NoHeader /\ ~Beyond(f, limit, q1, w[n])
  <2>. DEFINE d == DataOutcome(f, p.rd)
  <2>1. w[n] \in f.pkts /\ q1 <= w[n] /\ q1 # NoHeader /\ w[n] \in Nat
    BY <1>3, <1>4, <1>9
  <2>2. p = FoundAt(f, w[n])
    BY <1>2, <1>9 DEF IsHeaderOutcome
  <2>3. d.status = "OK" /\ d = Outcome(d.status, NoHeader, d.rd)
    BY <1>4, <2>1, <2>2, DataIsOutcome
  <2>4. o = [d EXCEPT !.status = IF @ = "OK" THEN @ ELSE "TIME_NOT_FOUND", !.at = w[n]]
    BY <1>1, <1>9 DEF Found
  <2>5. o.status = "OK" /\ o.at = w[n]
    <3>. HIDE DEF d, w
    <3>. QED
      BY <2>3, <2>4 DEF Outcome
  <2>6. IsTimePacket(f, w[n]) /\ Qualifies(require, Stamps(f, w[n]).packet[1])
    BY <1>1, <1>4, <1>9, <2>1 DEF SyncEnds
  <2>7. \A t \in f.pkts : (q1 <= t /\ t <= w[n]) => ~Beyond(f, limit, q1, t)
    <3>. TAKE t \in f.pkts
    <3>. HAVE q1 <= t /\ t <= w[n]
    <3>1. CASE t = w[n]
      BY <1>9, <3>1
    <3>2. CASE t # w[n]
      <4>1. t < w[n]
        BY <1>4, <2>1, <3>2
      <4>2. \E k \in 0..(n - 1) : w[k] = t
        BY <1>3, <2>1, <4>1
      <4>. QED
        BY <1>1, <4>2 DEF SyncEnds
    <3>. QED
      BY <3>1, <3>2
  <2>8. w[n] \in good
    BY <2>1, <2>6, <2>7 DEF Eligible, Reach, Qualifies
  <2>9. \A s \in good : w[n] <= s
    BY <1>4, <1>5, <1>6, <2>1
  <2>. HIDE DEF good, w
  <2>. QED
    BY <2>5, <2>8, <2>9 DEF good
<1>. QED
  BY <1>7, <1>8, <1>9

\* A search on a sound recording takes the first time packet from the next header on that
\* is within the limit and has the source asked for, sets the reference to its counter, and
\* fails without touching the reference only if there is none (enI106_SyncTime).
THEOREM SyncTakesFirst == TimeSpec => SyncFindsTime
<1>1. ASSUME TimeInv, NEW require \in BOOLEAN, NEW limit \in Limits,
             mode = "READ", Recording(file), Clean(file), SyncTime(require, limit)
      PROVE  LET good == Eligible(file, rd, require, limit) IN
             IF good = {} THEN ret'.status = "TIME_NOT_FOUND" /\ tref' = tref
             ELSE \E q \in good : /\ \A s \in good : q <= s
                                  /\ ret'.status = "OK" /\ tref'.rel = Stamps(file, q).rel
  <2>. DEFINE good == Eligible(file, rd, require, limit)
  <2>1. PICK o \in Search(file, rd, require, limit) :
          /\ ret' = Returned("SyncTime", o.status, o.at)
          /\ tref' = IF o.status = "OK"
                       THEN SetTo(tref, DecodeTimeF1(Stamps(file, o.at).packet[1]),
                                  Stamps(file, o.at).rel)
                       ELSE tref
    BY <1>1 DEF SyncTime
  <2>2. \/ o.status = "TIME_NOT_FOUND" /\ good = {}
        \/ o.status = "OK" /\ o.at \in good /\ \A s \in good : o.at <= s
    BY <1>1, SearchTakesFirst DEF TimeInv, ReaderInv, Sound
  <2>3. ret'.status = o.status
    BY <2>1 DEF Returned
  <2>. HIDE DEF good
  <2>4. CASE o.status = "TIME_NOT_FOUND" /\ good = {}
    BY <2>1, <2>3, <2>4 DEF good
  <2>5. CASE o.status = "OK" /\ o.at \in good /\ \A s \in good : o.at <= s
    <3>1. tref'.rel = Stamps(file, o.at).rel
      BY <1>1, <2>1, <2>5 DEF SetTo, TimeInv
    <3>. QED
      BY <2>3, <2>5, <3>1 DEF good
  <2>. QED
    BY <2>2, <2>4, <2>5
<1>2. TimeInv =>
      [ \A require \in BOOLEAN, limit \in Limits :
        (ret'.op = "SyncTime" /\ mode = "READ" /\ Recording(file) /\ Clean(file)
         /\ SyncTime(require, limit))
        => LET from == NextOutcome(file, rd).at
               good == {q \in Reach(file, from, limit) :
                          /\ IsTimePacket(file, q)
                          /\ require => Stamps(file, q).packet[1].src = 1}
           IN IF good = {} THEN ret'.status = "TIME_NOT_FOUND" /\ tref' = tref
              ELSE \E q \in good : /\ \A s \in good : q <= s
                                   /\ ret'.status = "OK" /\ tref'.rel = Stamps(file, q).rel ]_allvars
  BY <1>1 DEF Eligible
<1>. QED
  BY <1>2, TimeInductive, PTL DEF TimeSpec, SyncFindsTime

=============================================================================
