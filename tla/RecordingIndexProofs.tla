------------------------- MODULE RecordingIndexProofs ------------------------
(***************************************************************************)
(* What the calls of i106_index.c do to the reader, for every set of       *)
(* files, recorded indexes and channels.                                   *)
(***************************************************************************)
EXTENDS RecordingIndex, Ch10ReaderProofs, SequenceTheorems

\* LastMsg, as an outcome, leaves an unsynced reader or has not moved it.
LEMMA LastOutcomeFacts ==
  ASSUME NEW f \in Files, NEW r, InStep(f, r)
  PROVE  LET o == LastOutcome(f, r) IN
         /\ InStep(f, o.rd)
         /\ o.rd = r \/ \E p \in Nat : o.rd = Seek(r, p)
         /\ (Sound(f) /\ o.status # "ABORT") => \E p \in f.pkts : o.rd = Seek(r, p)
<1>. DEFINE o == LastOutcome(f, r)
<1>1. /\ InStep(f, o.rd)
      /\ \/ \E p \in Nat : HeaderOk(f, p) /\ o = Outcome("OK", NoHeader, Seek(r, p))
         \/ o = Outcome("SEEK_ERROR", NoHeader, Seek(r, 0))
         \/ o = Outcome("ABORT", NoHeader, r)
  BY LastOutcomeInStep
<1>. HIDE DEF o
<1>2. o.rd = r \/ \E p \in Nat : o.rd = Seek(r, p)
  BY <1>1 DEF Outcome
<1>3. ASSUME Sound(f), o.status # "ABORT" PROVE \E p \in f.pkts : o.rd = Seek(r, p)
  <2>1. \A p \in Nat : HeaderOk(f, p) => p \in f.pkts
    BY <1>3 DEF HeaderOk, Sound, Clean
  <2>2. 0 \in f.pkts
    BY <1>3 DEF Sound, Recording, Tiled
  <2>. QED
    BY <1>1, <1>3, <2>1, <2>2 DEF Outcome
<1>. QED
  BY <1>1, <1>2, <1>3 DEF o

-----------------------------------------------------------------------------
(* FindTimePacket.                                                          *)

\* What follows each header.
FindSteps(f) == [q \in DOMAIN f.cand |-> Following(f, q, FALSE)]

FindWalk(f, r) == HeadersAlong(f, Halfway(f, r), FindSteps(f))

FindOutcome(f, r, n) == OutcomeAlong(f, Halfway(f, r), FindSteps(f), n)

\* The walk begins at a place between the beginning of the file and its last packet.
LEMMA HalfwayFacts ==
  ASSUME NEW f \in Files, NEW r, InStep(f, r)
  PROVE  /\ InStep(f, Halfway(f, r))
         /\ (Sound(f) /\ LastOutcome(f, r).status # "ABORT")
              => NextOutcome(f, Halfway(f, r)).at # NoHeader
<1>. DEFINE last == LastOutcome(f, r).rd
            p == last.pos \div 2
<1>1. InStep(f, last) /\ last \in Reader /\ last.pos \in Nat
  BY LastOutcomeFacts DEF InStep, Reader
<1>2. p \in Nat /\ p <= last.pos
  BY <1>1
<1>3. Halfway(f, r) = Seek(last, p)
  BY DEF Halfway
<1>. HIDE DEF p
<1>4. InStep(f, Seek(last, p)) /\ NextOffset(Seek(last, p)) = p
  BY <1>1, <1>2, SeekFacts DEF NextOffset
<1>5. ASSUME Sound(f), LastOutcome(f, r).status # "ABORT"
      PROVE  NextOutcome(f, Halfway(f, r)).at # NoHeader
  <2>1. PICK s \in f.pkts : last = Seek(r, s)
    BY <1>5, LastOutcomeFacts
  <2>2. s \in Nat
    BY <1>5, TilingFacts DEF Sound, Recording
  <2>3. last.pos = s
    BY <2>1, <2>2, SeekFacts DEF InStep
  <2>4. IsNextPacket(f, p, NextOutcome(f, Seek(last, p)).at)
    BY <1>2, <1>4, <1>5, NextOutcomeFacts, SearchFindsNext
  <2>5. ~(s < p)
    BY <1>1, <1>2, <2>2, <2>3
  <2>6. NextOutcome(f, Seek(last, p)).at \in f.pkts
    BY <2>1, <2>4, <2>5 DEF IsNextPacket
  <2>7. \A t \in f.pkts : t \in Nat
    BY <1>5, TilingFacts DEF Sound, Recording
  <2>. QED
    BY <1>3, <2>6, <2>7 DEF NoHeader
<1>. QED
  BY <1>3, <1>4, <1>5

LEMMA FindLeadsOn ==
  ASSUME NEW f \in Files
  PROVE  LeadsOn(f, FindSteps(f))
BY FollowingIsHeaderOutcome DEF LeadsOn, FindSteps

\* The limit of its search is from the first header.
TooLate(f, a, q) == Content(f, q).time > Content(f, a).time + TIME_LIMIT

\* It ends at a header of the walk, none of those before being a time packet, and goes back
\* to where it came from.
FindEnds(f, r, t, o, n) ==
  LET w == FindWalk(f, r)
      p == FindOutcome(f, r, n)
  IN /\ \A k \in 0..(n - 1) : w[k] # NoHeader /\ ~IsTime(f, w[k])
     /\ w[n] = NoHeader \/ TooLate(f, w[0], w[n]) \/ IsTime(f, w[n])
     /\ o.rd = IF w[0] = NoHeader THEN p.rd ELSE Seek(p.rd, r.pos)
     /\ o.tref = IF p.status = "OK" /\ ~TooLate(f, w[0], w[n])
                    /\ DataOutcome(f, p.rd).status = "OK"
                   THEN [packet |-> TRUE, rel |-> Content(f, w[n]).time,
                         abs |-> Content(f, w[n]).abs]
                   ELSE t

LEMMA FindIsWalk ==
  ASSUME NEW f \in Files, NEW r, InStep(f, r), NEW t, NEW o \in FindTimePacket(f, r, t)
  PROVE  \E n \in DOMAIN FindWalk(f, r) : FindEnds(f, r, t, o, n)
<1>. DEFINE from == Halfway(f, r)
            next(q) == Following(f, q, FALSE)
            a == NextOutcome(f, from).at
            w == Headers(f, from, next)
<1>1. w = FindWalk(f, r)
  <2>. DEFINE N == Cardinality(DOMAIN f.cand)
              g == [q \in DOMAIN f.cand \cup {NoHeader} |->
                      IF q = NoHeader THEN NoHeader ELSE next(q).at]
  <2>1. w = Walk(N, a, g)
    BY DEF Headers, Walk, IsWalk
  <2>2. g = Steps(f, FindSteps(f))
    BY DEF FindSteps, Steps
  <2>. HIDE DEF g, w, a, N
  <2>. QED
    BY <2>1, <2>2 DEF FindWalk, HeadersAlong, a, N
<1>. DEFINE p(n) == IF n = 0 THEN NextOutcome(f, from) ELSE next(w[n - 1])
            found(n) == p(n).status = "OK" /\ ~TooLate(f, w[0], w[n])
                        /\ DataOutcome(f, p(n).rd).status = "OK"
            ref(n) == IF found(n) THEN [packet |-> TRUE, rel |-> Content(f, w[n]).time,
                                        abs |-> Content(f, w[n]).abs]
                                  ELSE t
            to(n) == IF w[0] = NoHeader THEN p(n).rd ELSE Seek(p(n).rd, r.pos)
            stop(q) == q = NoHeader \/ TooLate(f, w[0], q) \/ IsTime(f, q)
            ends == FirstStop(w, stop)
<1>2. PICK n \in DOMAIN w :
        /\ stop(w[n]) /\ \A k \in 0..(n - 1) : ~stop(w[k])
        /\ o.rd = to(n) /\ o.tref = ref(n)
  <2>1. o \in {[rd |-> to(n), tref |-> ref(n)] : n \in ends}
    BY DEF FindTimePacket, OutcomeOf, TooLate
  <2>2. PICK n \in ends : o = [rd |-> to(n), tref |-> ref(n)]
    <3>. HIDE DEF ref, to, ends
    <3>. QED
      BY <2>1
  <2>3. o.rd = to(n) /\ o.tref = ref(n)
    <3>. HIDE DEF ref, to
    <3>. QED
      BY <2>2
  <2>4. n \in DOMAIN w /\ stop(w[n]) /\ \A k \in 0..(n - 1) : ~stop(w[k])
    <3>. HIDE DEF stop
    <3>. QED
      BY DEF FirstStop
  <2>. HIDE DEF ref, to, stop
  <2>. QED
    BY <2>3, <2>4
<1>. HIDE DEF w
<1>3. FindOutcome(f, r, n) = p(n)
  <2>1. n # 0 => w[n - 1] \in DOMAIN f.cand
    BY <1>1, <1>2, FindLeadsOn, HalfwayFacts, AlongOutcomes DEF FindWalk, Good, HeaderOk
  <2>. QED
    BY <1>1, <2>1 DEF FindOutcome, OutcomeAlong, FindSteps, FindWalk
<1>4. n \in DOMAIN FindWalk(f, r)
  BY <1>1
<1>. HIDE DEF p
<1>5. FindEnds(f, r, t, o, n)
  BY <1>1, <1>2, <1>3 DEF FindEnds
<1>. QED
  BY <1>4, <1>5

\* FindTimePacket leaves the reader in step, and on a sound recording with room for a header
\* where LastMsg looks, before the packet it would have read next.
LEMMA FindKeepsPlace ==
  ASSUME NEW f \in Files, NEW r, InStep(f, r), NEW t, NEW o \in FindTimePacket(f, r, t)
  PROVE  /\ InStep(f, o.rd)
         /\ (Sound(f) /\ LastOutcome(f, r).status # "ABORT")
              => NextOutcome(f, o.rd).at = NextOutcome(f, r).at
<1>. DEFINE w == FindWalk(f, r)
<1>1. PICK n \in DOMAIN w :
        /\ \A k \in 0..(n - 1) : w[k] # NoHeader
        /\ o.rd = IF w[0] = NoHeader THEN FindOutcome(f, r, n).rd
                  ELSE Seek(FindOutcome(f, r, n).rd, r.pos)
  <2>1. PICK n \in DOMAIN FindWalk(f, r) : FindEnds(f, r, t, o, n)
    BY FindIsWalk
  <2>. QED
    BY <2>1, Zenon DEF FindEnds
<1>. DEFINE x == FindOutcome(f, r, n).rd
<1>2. InStep(f, x) /\ x \in Reader
  BY <1>1, FindLeadsOn, HalfwayFacts, AlongOutcomes
     DEF FindWalk, FindOutcome, IsHeaderOutcome, InStep
<1>3. r \in Reader /\ r.pos \in Nat
  BY DEF InStep, Reader
<1>4. w[0] = NextOutcome(f, Halfway(f, r)).at
  BY AlongDomain DEF FindWalk
<1>. HIDE DEF w, x
<1>5. InStep(f, o.rd)
  BY <1>1, <1>2, <1>3, SeekFacts DEF x
<1>6. ASSUME Sound(f), LastOutcome(f, r).status # "ABORT"
      PROVE  NextOutcome(f, o.rd).at = NextOutcome(f, r).at
  <2>1. o.rd = Seek(x, r.pos)
    BY <1>1, <1>4, <1>6, HalfwayFacts DEF x
  <2>. QED
    BY <1>2, <1>6, <2>1, SeekKeepsPlace
<1>. QED
  BY <1>5, <1>6

-----------------------------------------------------------------------------
(* The walk of enMakeIndex.                                                 *)

MakeSteps(f, ch) ==
  [q \in DOMAIN f.cand |-> PastBadHeader(f, Following(f, q, OfChannel(f, ch, q)))]

MakeWalk(f, r, ch) == HeadersAlong(f, r, MakeSteps(f, ch))

LEMMA MakeLeadsOn ==
  ASSUME NEW f \in Files, NEW ch
  PROVE  /\ LeadsOn(f, MakeSteps(f, ch))
         /\ Sound(f) => LeadsInOrder(f, MakeSteps(f, ch))
<1>1. \A q : OfChannel(f, ch, q) \in BOOLEAN
  BY DEF OfChannel
<1>2. ASSUME NEW q \in DOMAIN f.cand, Good(f, q) PROVE IsHeaderOutcome(f, MakeSteps(f, ch)[q])
  <2>. DEFINE o == Following(f, q, OfChannel(f, ch, q))
  <2>1. IsHeaderOutcome(f, o)
    BY <1>1, <1>2, FollowingIsHeaderOutcome
  <2>2. IsHeaderOutcome(f, NextOutcome(f, o.rd))
    BY <2>1, NextIsHeaderOutcome DEF IsHeaderOutcome
  <2>3. MakeSteps(f, ch)[q] = PastBadHeader(f, o)
    BY DEF MakeSteps
  <2>. HIDE DEF o
  <2>. QED
    BY <2>1, <2>2, <2>3 DEF PastBadHeader
<1>3. ASSUME Sound(f), NEW q \in f.pkts
      PROVE  /\ IsNextPacket(f, q + 1, MakeSteps(f, ch)[q].at)
             /\ MakeSteps(f, ch)[q].status \in {"OK", "EOF"}
  <2>. DEFINE o == Following(f, q, OfChannel(f, ch, q))
  <2>1. q \in DOMAIN f.cand
    BY <1>3, TilingFacts DEF Sound, Recording
  <2>2. IsNextPacket(f, q + 1, o.at) /\ o.status \in {"OK", "EOF"}
    BY <1>1, <1>3, FollowingIsNext
  <2>3. MakeSteps(f, ch)[q] = PastBadHeader(f, o)
    BY <2>1 DEF MakeSteps
  <2>. HIDE DEF o
  <2>. QED
    BY <2>2, <2>3 DEF PastBadHeader
<1>. QED
  BY <1>2, <1>3 DEF LeadsOn, LeadsInOrder

\* enMakeIndex goes on along the walk until there is no header.
LEMMA MakeIsWalk ==
  ASSUME ReaderInv, NEW ch, MakeIndex(ch)
  PROVE  \E o \in FindTimePacket(file, rd, tref) : \E n \in DOMAIN MakeWalk(file, o.rd, ch) :
           LET w == MakeWalk(file, o.rd, ch) IN
           /\ w[n] = NoHeader /\ \A k \in 0..(n - 1) : w[k] # NoHeader
           /\ rd' = OutcomeAlong(file, o.rd, MakeSteps(file, ch), n).rd
           /\ tbl' = AddNodes(Ready(tbl), MadeNodes(file, ch, w, n))
<1>. DEFINE next(q) == PastBadHeader(file, Following(file, q, OfChannel(file, ch, q)))
            w(o) == Headers(file, o.rd, next)
            ends(o) == FirstStop(w(o), LAMBDA q : q = NoHeader)
<1>1. file \in Files /\ InStep(file, rd)
  BY DEF ReaderInv
<1>a. PICK o \in FindTimePacket(file, rd, tref) : \E n \in ends(o) :
        /\ tbl' = AddNodes(Ready(tbl), MadeNodes(file, ch, w(o), n))
        /\ rd' = OutcomeOf(file, o.rd, next, w(o), n).rd
  BY DEF MakeIndex
<1>2. PICK n \in ends(o) :
        /\ tbl' = AddNodes(Ready(tbl), MadeNodes(file, ch, w(o), n))
        /\ rd' = OutcomeOf(file, o.rd, next, w(o), n).rd
  BY <1>a
<1>3. n \in DOMAIN w(o) /\ w(o)[n] = NoHeader /\ \A k \in 0..(n - 1) : w(o)[k] # NoHeader
  BY DEF FirstStop
<1>4. w(o) = MakeWalk(file, o.rd, ch)
  <2>. DEFINE N == Cardinality(DOMAIN file.cand)
              a == NextOutcome(file, o.rd).at
              g == [q \in DOMAIN file.cand \cup {NoHeader} |->
                      IF q = NoHeader THEN NoHeader ELSE next(q).at]
  <2>1. w(o) = Walk(N, a, g)
    BY DEF Headers, Walk, IsWalk
  <2>2. g = Steps(file, MakeSteps(file, ch))
    BY DEF MakeSteps, Steps
  <2>. HIDE DEF g, w, a, N
  <2>. QED
    BY <2>1, <2>2 DEF MakeWalk, HeadersAlong, a, N
<1>5. rd' = (IF n = 0 THEN NextOutcome(file, o.rd) ELSE next(w(o)[n - 1])).rd
  BY <1>2 DEF OutcomeOf
<1>. HIDE DEF w, ends
<1>6. InStep(file, o.rd)
  BY <1>1, FindKeepsPlace
<1>7. OutcomeAlong(file, o.rd, MakeSteps(file, ch), n)
        = IF n = 0 THEN NextOutcome(file, o.rd) ELSE next(w(o)[n - 1])
  <2>1. n # 0 => w(o)[n - 1] \in DOMAIN file.cand
    BY <1>1, <1>3, <1>4, <1>6, MakeLeadsOn, AlongOutcomes DEF MakeWalk, Good, HeaderOk
  <2>. QED
    BY <1>4, <2>1 DEF OutcomeAlong, MakeSteps, MakeWalk
<1>. QED
  BY <1>2, <1>3, <1>4, <1>5, <1>7

-----------------------------------------------------------------------------
(* The invariant.                                                           *)

\* While enReadIndexes runs: it goes back to a place from which the header read next is the
\* one it was to be, whatever the reader has done by then.
JobReturns ==
  /\ DOMAIN job = {"on", "at", "done", "next", "start"}
  /\ job.on =>
       /\ job.start \in Nat
       /\ ret.op \notin {"ReadIndexes", "IndexPresent", "MakeIndex"}
       /\ Sound(file) => \A x \in Reader : NextOutcome(file, Seek(x, job.start)).at = call.ahead

RecInv == ReaderInv /\ JobReturns /\ IndexKeepsPlace

LEMMA ReaderCallPreserves ==
  ASSUME RecInv, ReaderCall PROVE RecInv'
<1>1. ReaderInv'
  BY OpenPreserves, PositioningPreserves, ReadNextHeaderPreserves, ReadDataPreserves
     DEF ReaderCall, RecInv
<1>2. JobReturns'
  BY DEF ReaderCall, RecInv, JobReturns
<1>3. \E op \in {"Open", "Close", "ReadNextHeader", "ReadData"} : \E st, at : ret' = Returned(op, st, at)
  BY DEF ReaderCall, Open, OpenFile, Close, ReadNextHeader, ReadData
<1>4. ret'.op \notin {"ReadIndexes", "IndexPresent"}
  BY <1>3 DEF Returned
<1>. QED
  BY <1>1, <1>2, <1>4 DEF RecInv, IndexKeepsPlace

LEMMA ReadIndexesPreserves ==
  ASSUME RecInv, ReadIndexes PROVE RecInv'
<1>1. UNCHANGED <<file, mode>> /\ file \in Files /\ InStep(file, rd) /\ rd.pos \in Nat
  BY DEF RecInv, ReaderInv, InStep, Reader, ReadIndexes
<1>2. ret'.op \in {"Index", "None"}
  BY DEF ReadIndexes, Returned
<1>3. IndexKeepsPlace'
  BY <1>2 DEF IndexKeepsPlace
<1>4. CASE UNCHANGED <<rd, job>> /\ ~job.on
  <2>1. ReaderInv'
    BY <1>1, <1>4, InStepPreserves DEF RecInv
  <2>2. JobReturns'
    BY <1>4 DEF RecInv, JobReturns
  <2>. QED
    BY <1>3, <2>1, <2>2 DEF RecInv
<1>5. CASE ~UNCHANGED <<rd, job>>
  <2>1. PICK o \in FindTimePacket(file, rd, tref), junk \in Offsets :
          /\ rd' = LastOutcome(file, o.rd).rd
          /\ job' = [on |-> LastOutcome(file, o.rd).status # "ABORT",
                     at |-> LastOutcome(file, o.rd).rd.pos, done |-> 0,
                     next |-> junk, start |-> rd.pos]
          /\ call' = CallOn(Ready(tbl), 0)
    BY <1>5 DEF ReadIndexes
  <2>2. InStep(file, rd')
    BY <1>1, <2>1, FindKeepsPlace, LastOutcomeFacts
  <2>3. call'.ahead = NextOutcome(file, rd).at
    BY <2>1 DEF CallOn
  <2>4. Sound(file) => \A x \in Reader : NextOutcome(file, Seek(x, rd.pos)).at = call'.ahead
    BY <1>1, <2>3, SeekKeepsPlace
  <2>5. JobReturns'
    BY <1>1, <1>2, <2>1, <2>4 DEF JobReturns
  <2>. QED
    BY <1>1, <1>3, <2>2, <2>5, InStepPreserves DEF RecInv
<1>. QED
  BY <1>4, <1>5 DEF ReadIndexes

\* The steps that end enReadIndexes go back to where it was called.
LEMMA EndPreserves ==
  ASSUME RecInv, job.on, UNCHANGED <<file, mode, call>>, NEW status, EndReadIndexes(status)
  PROVE  RecInv'
<1>1. file \in Files /\ rd \in Reader /\ job.start \in Nat
  BY DEF RecInv, ReaderInv, InStep, JobReturns
<1>2. rd' = Seek(rd, job.start) /\ job' = NoJob
  BY DEF EndReadIndexes, Restore
<1>3. ReaderInv'
  BY <1>1, <1>2, SeekFacts, InStepPreserves DEF RecInv
<1>4. JobReturns'
  BY <1>2 DEF JobReturns, NoJob
<1>5. IndexKeepsPlace'
  BY <1>1, <1>2 DEF RecInv, JobReturns, IndexKeepsPlace, Sound
<1>. QED
  BY <1>3, <1>4, <1>5 DEF RecInv

LEMMA RootStepPreserves ==
  ASSUME RecInv, RootStep PROVE RecInv'
<1>1. job.on /\ UNCHANGED <<file, mode, call>>
  BY DEF RootStep
<1>2. ASSUME NEW status, EndReadIndexes(status) PROVE RecInv'
  BY <1>1, <1>2, EndPreserves
<1>3. ASSUME UNCHANGED rd,
             ret' = ret \/ ret' = Returned("Index", "ABORT", NoHeader),
             \/ job' = job
             \/ \E d : job' = [job EXCEPT !.done = d]
             \/ \E a, x, d : job' = [job EXCEPT !.at = a, !.next = x, !.done = d]
      PROVE  RecInv'
  <2>1. /\ DOMAIN job' = {"on", "at", "done", "next", "start"}
        /\ job'.on = job.on /\ job'.start = job.start
    BY <1>3 DEF RecInv, JobReturns
  <2>2. ret'.op \notin {"ReadIndexes", "IndexPresent", "MakeIndex"}
    <3>1. CASE ret' = ret
      BY <1>1, <3>1 DEF RecInv, JobReturns
    <3>2. CASE ret' = Returned("Index", "ABORT", NoHeader)
      BY <3>2 DEF Returned
    <3>. QED
      BY <1>3, <3>1, <3>2
  <2>3. ReaderInv'
    BY <1>1, <1>3, InStepPreserves DEF RecInv
  <2>4. JobReturns'
    BY <1>1, <2>1, <2>2 DEF RecInv, JobReturns
  <2>. QED
    BY <2>2, <2>3, <2>4 DEF RecInv, IndexKeepsPlace
<1>4. ASSUME NEW next, GoToRoot(next) PROVE RecInv'
  BY <1>2, <1>3, <1>4 DEF GoToRoot
<1>5. ASSUME NEW q, RootMessage(q) PROVE RecInv'
  BY <1>2, <1>3, <1>5 DEF RootMessage
<1>. QED
  BY <1>2, <1>4, <1>5 DEF RootStep

LEMMA MakeIndexPreserves ==
  ASSUME RecInv, NEW ch, MakeIndex(ch) PROVE RecInv'
<1>1. /\ UNCHANGED <<file, mode, job>> /\ ~job.on /\ file \in Files /\ InStep(file, rd)
      /\ ret'.op = "MakeIndex" /\ ReaderInv
  BY DEF MakeIndex, RecInv, ReaderInv, Returned
<1>a. PICK o \in FindTimePacket(file, rd, tref) : \E n \in DOMAIN MakeWalk(file, o.rd, ch) :
        /\ \A k \in 0..(n - 1) : MakeWalk(file, o.rd, ch)[k] # NoHeader
        /\ rd' = OutcomeAlong(file, o.rd, MakeSteps(file, ch), n).rd
  BY <1>1, MakeIsWalk
<1>2. PICK n \in DOMAIN MakeWalk(file, o.rd, ch) :
        /\ \A k \in 0..(n - 1) : MakeWalk(file, o.rd, ch)[k] # NoHeader
        /\ rd' = OutcomeAlong(file, o.rd, MakeSteps(file, ch), n).rd
  BY <1>a
<1>3. InStep(file, rd')
  BY <1>1, <1>2, FindKeepsPlace, MakeLeadsOn, AlongOutcomes DEF MakeWalk, IsHeaderOutcome
<1>. QED
  BY <1>1, <1>3, InStepPreserves DEF RecInv, JobReturns, IndexKeepsPlace

LEMMA IndexPresentPreserves ==
  ASSUME RecInv, IndexPresent PROVE RecInv'
<1>1. /\ UNCHANGED <<file, mode, job>> /\ ~job.on /\ file \in Files /\ InStep(file, rd)
      /\ rd \in Reader /\ rd.pos \in Nat
  BY DEF IndexPresent, RecInv, ReaderInv, InStep, Reader
<1>2. call'.ahead = NextOutcome(file, rd).at
  BY DEF IndexPresent, CallOn
<1>3. InStep(file, rd') /\ (Sound(file) => NextOutcome(file, rd').at = NextOutcome(file, rd).at)
  <2>. DEFINE last == LastOutcome(file, rd)
              o == NextOutcome(file, last.rd)
  <2>1. InStep(file, last.rd) /\ InStep(file, o.rd)
    BY <1>1, LastOutcomeFacts, NextOutcomeFacts
  <2>2. last.rd \in Reader /\ o.rd \in Reader
    BY <2>1 DEF InStep
  <2>3. rd' = rd \/ rd' = Seek(last.rd, rd.pos) \/ rd' = Seek(o.rd, rd.pos)
    BY DEF IndexPresent
  <2>4. ASSUME NEW x \in Reader, rd' = Seek(x, rd.pos)
        PROVE  InStep(file, rd') /\ (Sound(file) => NextOutcome(file, rd').at = NextOutcome(file, rd).at)
    BY <1>1, <2>4, SeekFacts, SeekKeepsPlace
  <2>5. CASE rd' = rd
    BY <1>1, <2>5
  <2>. HIDE DEF last, o
  <2>. QED
    BY <2>2, <2>3, <2>4, <2>5
<1>. QED
  BY <1>1, <1>2, <1>3, InStepPreserves DEF RecInv, JobReturns, IndexKeepsPlace, Sound

LEMMA RecStepPreserves ==
  ASSUME RecInv, [RecNext]_allvars PROVE RecInv'
<1>1. CASE InitIndex
  <2>1. UNCHANGED <<file, mode, rd, job, call>> /\ ~job.on /\ ret'.op = "Index"
    BY <1>1 DEF InitIndex, Returned
  <2>. QED
    BY <2>1, InStepPreserves DEF RecInv, JobReturns, IndexKeepsPlace
<1>2. CASE UNCHANGED allvars
  <2>1. UNCHANGED <<file, mode, rd, ret, job, call>>
    BY <1>2 DEF allvars, vars, recvars
  <2>. QED
    BY <2>1, InStepPreserves DEF RecInv, JobReturns, IndexKeepsPlace
<1>. QED
  BY <1>1, <1>2, ReaderCallPreserves, ReadIndexesPreserves, RootStepPreserves,
     MakeIndexPreserves, IndexPresentPreserves DEF RecNext

LEMMA RecInductive == RecSpec => []RecInv
<1>1. RecInit => RecInv
  <2>. SUFFICES ASSUME RecInit PROVE RecInv
    OBVIOUS
  <2>1. ReaderInv
    BY InitIInv, IInvParts DEF RecInit
  <2>. QED
    BY <2>1 DEF RecInv, RecInit, Init, Returned, JobReturns, NoJob, IndexKeepsPlace
<1>2. RecInv /\ [RecNext]_allvars => RecInv'
  BY RecStepPreserves
<1>. QED
  BY <1>1, <1>2, PTL DEF RecSpec

\* Looking for the index of a sound recording, or reading it through any chain of roots, with
\* any content, and also when that fails half way, leaves the program before the packet it
\* would have read next (enIndexPresent, enReadIndexes).
THEOREM IndexReturnsToPlace == RecSpec => []IndexKeepsPlace
<1>1. RecInv => IndexKeepsPlace
  BY DEF RecInv
<1>. QED
  BY <1>1, RecInductive, PTL

-----------------------------------------------------------------------------
(* What enMakeIndex puts into the table.                                    *)

\* The function by which MadeNodes is defined.
IsMade(f, ch, w, n, M) ==
  M = [k \in 0..n |->
         IF k = 0 THEN <<>>
         ELSE IF OfChannel(f, ch, w[k - 1]) THEN Append(M[k - 1], MadeNode(f, ch, w[k - 1]))
         ELSE M[k - 1]]

\* It is well defined.
LEMMA MadeExists ==
  ASSUME NEW f, NEW ch, NEW w, NEW n \in Nat
  PROVE  \E M : IsMade(f, ch, w, n, M)
<1>. DEFINE Made(k, M) == IsMade(f, ch, w, k, M)
            bad == {k \in Nat : ~\E M : Made(k, M)}
            next(k, x) == IF OfChannel(f, ch, w[k - 1]) THEN Append(x, MadeNode(f, ch, w[k - 1]))
                          ELSE x
<1>1. SUFFICES ASSUME bad # {} PROVE FALSE
  OBVIOUS
<1>2. PICK k \in bad : \A j \in bad : k <= j
  BY <1>1, LeastElement
<1>3. k # 0
  <2>. DEFINE v == [i \in 0..0 |-> <<>>]
  <2>1. Made(0, v)
    BY DEF IsMade
  <2>. HIDE DEF v, Made
  <2>. QED
    BY <2>1
<1>4. PICK v : Made(k - 1, v)
  <2>1. k - 1 \in Nat /\ ~(k <= k - 1)
    BY <1>3
  <2>. HIDE DEF Made
  <2>. QED
    BY <1>2, <2>1
<1>. DEFINE x == [i \in 0..k |-> IF i = k THEN next(k, v[k - 1]) ELSE v[i]]
<1>5. \A i \in 0..(k - 1) : v[i] = IF i = 0 THEN <<>> ELSE next(i, v[i - 1])
  BY <1>4 DEF IsMade
<1>. HIDE DEF next
<1>6. \A i \in 0..k : x[i] = IF i = 0 THEN <<>> ELSE next(i, x[i - 1])
  <2>. TAKE i \in 0..k
  <2>0. \A j \in 0..(k - 1) : x[j] = v[j]
    BY <1>3
  <2>1. CASE i = k
    BY <1>3, <2>0, <2>1
  <2>2. CASE i # k
    <3>1. i \in 0..(k - 1) /\ (i # 0 => i - 1 \in 0..(k - 1))
      BY <2>2
    <3>. QED
      BY <1>5, <2>0, <3>1
  <2>. QED
    BY <2>1, <2>2
<1>7. x = [i \in 0..k |-> IF i = 0 THEN <<>> ELSE next(i, x[i - 1])]
  BY <1>6
<1>8. Made(k, x)
  <2>. HIDE DEF x
  <2>. QED
    BY <1>7 DEF IsMade, next
<1>. HIDE DEF Made, x
<1>. QED
  BY <1>8

\* M holds an entry for each of the first n headers that is of the channel, and no other, in
\* the order of the headers.
HoldsThe(f, ch, w, n, M) ==
  LET at(k) == MadeNode(f, ch, w[k]) IN
  /\ M \in Seq({at(k) : k \in 0..(n - 1)})
  /\ \A i \in DOMAIN M : \E k \in 0..(n - 1) : OfChannel(f, ch, w[k]) /\ M[i] = at(k)
  /\ \A k \in 0..(n - 1) : OfChannel(f, ch, w[k]) => \E i \in DOMAIN M : M[i] = at(k)
  /\ \A i, j \in DOMAIN M : i < j =>
       \E k, l \in 0..(n - 1) : k < l /\ M[i] = at(k) /\ M[j] = at(l)

LEMMA MadeHolds ==
  ASSUME NEW f, NEW ch, NEW w, NEW n \in Nat
  PROVE  HoldsThe(f, ch, w, n, MadeNodes(f, ch, w, n))
<1>1. PICK M : IsMade(f, ch, w, n, M) /\ MadeNodes(f, ch, w, n) = M[n]
  <2>. DEFINE M == CHOOSE M : IsMade(f, ch, w, n, M)
  <2>1. IsMade(f, ch, w, n, M)
    BY MadeExists, Zenon
  <2>2. MadeNodes(f, ch, w, n) = M[n]
    BY DEF MadeNodes, IsMade
  <2>. HIDE DEF M
  <2>. QED
    BY <2>1, <2>2
<1>. DEFINE at(k) == MadeNode(f, ch, w[k])
            ofCh(k) == OfChannel(f, ch, w[k])
            Holds(m) == HoldsThe(f, ch, w, m, M[m])
<1>2. M[0] = <<>> /\ \A m \in 1..n : M[m] = IF ofCh(m - 1) THEN Append(M[m - 1], at(m - 1)) ELSE M[m - 1]
  <2>1. M = [k \in 0..n |-> IF k = 0 THEN <<>>
                            ELSE IF ofCh(k - 1) THEN Append(M[k - 1], at(k - 1))
                            ELSE M[k - 1]]
    BY <1>1 DEF IsMade
  <2>. HIDE DEF at, ofCh
  <2>2. \A k \in 0..n : M[k] = IF k = 0 THEN <<>>
                               ELSE IF ofCh(k - 1) THEN Append(M[k - 1], at(k - 1))
                               ELSE M[k - 1]
    BY <2>1
  <2>3. 0 \in 0..n /\ \A m \in 1..n : m \in 0..n /\ m # 0
    OBVIOUS
  <2>. QED
    BY <2>2, <2>3
<1>3. Holds(0)
  BY <1>2 DEF HoldsThe
<1>. HIDE DEF at, ofCh
<1>4. ASSUME NEW m \in 1..n, Holds(m - 1) PROVE Holds(m)
  <2>. DEFINE S == {at(k) : k \in 0..(m - 1)}
              T == {at(k) : k \in 0..(m - 1 - 1)}
              old == M[m - 1]
  <2>1. /\ old \in Seq(T)
        /\ \A i \in DOMAIN old : \E k \in 0..(m - 1 - 1) : ofCh(k) /\ old[i] = at(k)
        /\ \A k \in 0..(m - 1 - 1) : ofCh(k) => \E i \in DOMAIN old : old[i] = at(k)
        /\ \A i, j \in DOMAIN old : i < j =>
             \E k, l \in 0..(m - 1 - 1) : k < l /\ old[i] = at(k) /\ old[j] = at(l)
    BY <1>4 DEF HoldsThe, at, ofCh
  <2>2. /\ 0..(m - 1 - 1) \subseteq 0..(m - 1) /\ m - 1 \in 0..(m - 1)
        /\ \A k \in 0..(m - 1) : (k = m - 1 \/ k \in 0..(m - 1 - 1))
        /\ \A k \in 0..(m - 1 - 1) : k < m - 1
    OBVIOUS
  <2>3. T \subseteq S /\ at(m - 1) \in S
    BY <2>2
  <2>. HIDE DEF S, T
  <2>4. old \in Seq(S)
    BY <2>1, <2>3
  <2>5. CASE ofCh(m - 1)
    <3>. DEFINE new == Append(old, at(m - 1))
    <3>1. M[m] = new
      BY <1>2, <2>5
    <3>2. /\ new \in Seq(S) /\ Len(old) \in Nat
          /\ DOMAIN old = 1..Len(old) /\ DOMAIN new = 1..(Len(old) + 1)
          /\ \A i \in 1..Len(old) : new[i] = old[i]
          /\ new[Len(old) + 1] = at(m - 1)
      BY <2>3, <2>4, AppendProperties, LenProperties
    <3>3. /\ Len(old) + 1 \in DOMAIN new /\ DOMAIN old \subseteq DOMAIN new
          /\ \A i \in DOMAIN new : i \in DOMAIN old \/ i = Len(old) + 1
          /\ \A i \in DOMAIN old : new[i] = old[i] /\ i < Len(old) + 1 /\ ~(Len(old) + 1 < i)
          /\ ~(Len(old) + 1 < Len(old) + 1)
      BY <3>2
    <3>. HIDE DEF new, old
    <3>4. \A i \in DOMAIN new : \E k \in 0..(m - 1) : ofCh(k) /\ new[i] = at(k)
      BY <2>1, <2>2, <2>5, <3>2, <3>3
    <3>5. \A k \in 0..(m - 1) : ofCh(k) => \E i \in DOMAIN new : new[i] = at(k)
      <4>. TAKE k \in 0..(m - 1)
      <4>. HAVE ofCh(k)
      <4>1. CASE k = m - 1
        BY <3>2, <3>3, <4>1
      <4>2. CASE k \in 0..(m - 1 - 1)
        BY <2>1, <3>3, <4>2
      <4>. QED
        BY <2>2, <4>1, <4>2
    <3>6. \A i, j \in DOMAIN new : i < j =>
            \E k, l \in 0..(m - 1) : k < l /\ new[i] = at(k) /\ new[j] = at(l)
      <4>. TAKE i, j \in DOMAIN new
      <4>. HAVE i < j
      <4>1. i \in DOMAIN old
        BY <3>2, <3>3
      <4>2. CASE j \in DOMAIN old
        BY <2>1, <2>2, <3>3, <4>1, <4>2
      <4>3. CASE j = Len(old) + 1
        <5>1. PICK k \in 0..(m - 1 - 1) : old[i] = at(k)
          BY <2>1, <4>1
        <5>2. k \in 0..(m - 1) /\ k < m - 1 /\ m - 1 \in 0..(m - 1)
          BY <2>2
        <5>3. new[i] = at(k) /\ new[j] = at(m - 1)
          BY <3>2, <3>3, <4>1, <4>3, <5>1
        <5>. QED
          BY <5>2, <5>3
      <4>. QED
        BY <3>3, <4>2, <4>3
    <3>. QED
      BY <3>1, <3>2, <3>4, <3>5, <3>6 DEF HoldsThe, S, at, ofCh
  <2>6. CASE ~ofCh(m - 1)
    <3>1. M[m] = old
      BY <1>2, <2>6
    <3>. HIDE DEF old
    <3>2. \A k \in 0..(m - 1) : ofCh(k) => \E i \in DOMAIN old : old[i] = at(k)
      BY <2>1, <2>2, <2>6
    <3>3. \A i \in DOMAIN old : \E k \in 0..(m - 1) : ofCh(k) /\ old[i] = at(k)
      BY <2>1, <2>2
    <3>4. \A i, j \in DOMAIN old : i < j =>
            \E k, l \in 0..(m - 1) : k < l /\ old[i] = at(k) /\ old[j] = at(l)
      BY <2>1, <2>2
    <3>. QED
      BY <2>4, <3>1, <3>2, <3>3, <3>4 DEF HoldsThe, S, at, ofCh
  <2>. QED
    BY <2>5, <2>6
<1>5. Holds(n)
  <2>. DEFINE bad == {k \in 0..n : ~Holds(k)}
  <2>. HIDE DEF Holds
  <2>1. SUFFICES ASSUME bad # {} PROVE FALSE
    OBVIOUS
  <2>2. PICK m \in bad : \A k \in bad : m <= k
    <3>1. bad \in SUBSET Nat
      OBVIOUS
    <3>. HIDE DEF bad
    <3>. QED
      BY <2>1, <3>1, LeastElement
  <2>3. m \in 1..n
    BY <1>3, <2>2
  <2>4. m - 1 \in 0..n /\ ~(m <= m - 1)
    BY <2>3
  <2>. QED
    BY <1>4, <2>2, <2>3, <2>4
<1>. QED
  BY <1>1, <1>5

\* The table enMakeIndex leaves when it began with an empty one.
LEMMA MakeIndexMakes ==
  ASSUME RecInv, NEW ch, MakeIndex(ch) PROVE MakeIndexFindsAll'
<1>. SUFFICES ASSUME call'.fresh, Recording(file'), Clean(file')
              PROVE  /\ {tbl'.nodes[i].at : i \in DOMAIN tbl'.nodes}
                          = {q \in file'.pkts : /\ Content(file', q).chan = call'.chan
                                                /\ call'.ahead # NoHeader /\ q >= call'.ahead}
                     /\ \A i, j \in DOMAIN tbl'.nodes : i < j => tbl'.nodes[i].at < tbl'.nodes[j].at
  BY DEF MakeIndexFindsAll
<1>1. /\ file' = file /\ file \in Files /\ InStep(file, rd) /\ Sound(file) /\ ReaderInv
      /\ LastOutcome(file, rd).status # "ABORT"
      /\ call' = CallOn(Ready(tbl), ch)
  BY DEF MakeIndex, RecInv, ReaderInv, Sound
<1>2. /\ Ready(tbl).nodes = <<>> /\ call'.chan = ch
      /\ call'.ahead = NextOutcome(file, rd).at
  BY <1>1 DEF CallOn
<1>3. PICK o \in FindTimePacket(file, rd, tref) : \E n \in DOMAIN MakeWalk(file, o.rd, ch) :
        /\ MakeWalk(file, o.rd, ch)[n] = NoHeader
        /\ \A k \in 0..(n - 1) : MakeWalk(file, o.rd, ch)[k] # NoHeader
        /\ tbl' = AddNodes(Ready(tbl), MadeNodes(file, ch, MakeWalk(file, o.rd, ch), n))
  BY <1>1, MakeIsWalk
<1>. DEFINE w == MakeWalk(file, o.rd, ch)
<1>4. PICK n \in DOMAIN w :
        /\ w[n] = NoHeader /\ \A k \in 0..(n - 1) : w[k] # NoHeader
        /\ tbl' = AddNodes(Ready(tbl), MadeNodes(file, ch, w, n))
  BY <1>3
<1>. DEFINE M == MadeNodes(file, ch, w, n)
            q1 == call'.ahead
<1>5. InStep(file, o.rd) /\ q1 = NextOutcome(file, o.rd).at
  BY <1>1, <1>2, FindKeepsPlace
<1>6. n \in Nat /\ \A k \in 0..(n - 1) : k \in DOMAIN w
  <2>1. DOMAIN w = 0..Cardinality(DOMAIN file.cand) /\ Cardinality(DOMAIN file.cand) \in Nat
    BY <1>1, AlongDomain, CandFinite DEF MakeWalk
  <2>. QED
    BY <1>4, <2>1
<1>7. \A k \in DOMAIN w :
        /\ w[k] = NoHeader \/ (w[k] \in file.pkts /\ q1 # NoHeader /\ q1 <= w[k])
        /\ \A s \in file.pkts : (q1 # NoHeader /\ q1 <= s /\ (w[k] = NoHeader \/ s < w[k]))
                               => \E j \in 0..(k - 1) : w[j] = s
        /\ w[k] # NoHeader => \A j \in 0..(k - 1) : w[j] \in file.pkts /\ w[j] < w[k]
  BY <1>1, <1>5, MakeLeadsOn, AlongInOrder DEF MakeWalk
<1>8. HoldsThe(file, ch, w, n, M)
  BY <1>6, MadeHolds
<1>9. tbl'.nodes = M
  <2>1. tbl'.nodes = Ready(tbl).nodes \o M
    BY <1>4 DEF AddNodes
  <2>. QED
    BY <1>2, <1>8, <2>1, ConcatEmptySeq DEF HoldsThe
<1>. HIDE DEF w, M, q1
<1>10. \A k : MadeNode(file, ch, w[k]).at = w[k]
  BY DEF MadeNode
<1>11. /\ \A i \in DOMAIN M : \E k \in 0..(n - 1) : OfChannel(file, ch, w[k]) /\ M[i].at = w[k]
       /\ \A k \in 0..(n - 1) : OfChannel(file, ch, w[k]) => \E i \in DOMAIN M : M[i].at = w[k]
       /\ \A i, j \in DOMAIN M : i < j =>
            \E k, l \in 0..(n - 1) : k < l /\ M[i].at = w[k] /\ M[j].at = w[l]
  <2>1. ASSUME NEW i \in DOMAIN M
        PROVE  \E k \in 0..(n - 1) : OfChannel(file, ch, w[k]) /\ M[i].at = w[k]
    <3>1. PICK k \in 0..(n - 1) : OfChannel(file, ch, w[k]) /\ M[i] = MadeNode(file, ch, w[k])
      BY <1>8 DEF HoldsThe
    <3>. QED
      BY <1>10, <3>1
  <2>2. ASSUME NEW k \in 0..(n - 1), OfChannel(file, ch, w[k])
        PROVE  \E i \in DOMAIN M : M[i].at = w[k]
    <3>1. PICK i \in DOMAIN M : M[i] = MadeNode(file, ch, w[k])
      BY <1>8, <2>2 DEF HoldsThe
    <3>. QED
      BY <1>10, <3>1
  <2>3. ASSUME NEW i \in DOMAIN M, NEW j \in DOMAIN M, i < j
        PROVE  \E k, l \in 0..(n - 1) : k < l /\ M[i].at = w[k] /\ M[j].at = w[l]
    <3>1. PICK k \in 0..(n - 1), l \in 0..(n - 1) :
            k < l /\ M[i] = MadeNode(file, ch, w[k]) /\ M[j] = MadeNode(file, ch, w[l])
      BY <1>8, <2>3 DEF HoldsThe
    <3>. QED
      BY <1>10, <3>1
  <2>. QED
    BY <2>1, <2>2, <2>3
<1>12. \A q : q \in {M[i].at : i \in DOMAIN M}
               <=> (/\ q \in file.pkts /\ Content(file, q).chan = ch
                    /\ q1 # NoHeader /\ q1 <= q)
  <2>1. ASSUME NEW i \in DOMAIN M
        PROVE  M[i].at \in file.pkts /\ Content(file, M[i].at).chan = ch
               /\ q1 # NoHeader /\ q1 <= M[i].at
    <3>1. PICK k \in 0..(n - 1) : OfChannel(file, ch, w[k]) /\ M[i].at = w[k]
      BY <1>11
    <3>. QED
      BY <1>4, <1>6, <1>7, <3>1 DEF OfChannel
  <2>2. ASSUME NEW q \in file.pkts, Content(file, q).chan = ch, q1 # NoHeader, q1 <= q
        PROVE  \E i \in DOMAIN M : M[i].at = q
    <3>1. PICK k \in 0..(n - 1) : w[k] = q
      BY <1>4, <1>7, <2>2
    <3>. QED
      BY <1>11, <2>2, <3>1 DEF OfChannel
  <2>. QED
    BY <2>1, <2>2
<1>13. \A i, j \in DOMAIN M : i < j => M[i].at < M[j].at
  <2>. TAKE i, j \in DOMAIN M
  <2>. HAVE i < j
  <2>1. PICK k \in 0..(n - 1), l \in 0..(n - 1) : k < l /\ M[i].at = w[k] /\ M[j].at = w[l]
    BY <1>11
  <2>2. k \in 0..(l - 1)
    BY <1>6, <2>1
  <2>. QED
    BY <1>4, <1>6, <1>7, <2>1, <2>2
<1>14. \A s \in file.pkts : q1 # NoHeader => (q1 <= s <=> s >= q1)
  OBVIOUS
<1>. QED
  BY <1>1, <1>2, <1>9, <1>12, <1>13, <1>14 DEF q1

\* Nothing but enMakeIndex returns as enMakeIndex.
LEMMA MadeStays ==
  ASSUME RecInv, MakeIndexFindsAll, [RecNext]_allvars PROVE MakeIndexFindsAll'
<1>1. CASE ReaderCall
  <2>1. \E op \in {"Open", "Close", "ReadNextHeader", "ReadData"} : \E st, at : ret' = Returned(op, st, at)
    BY <1>1 DEF ReaderCall, Open, OpenFile, Close, ReadNextHeader, ReadData
  <2>. QED
    BY <2>1 DEF MakeIndexFindsAll, Returned
<1>2. CASE InitIndex
  BY <1>2 DEF InitIndex, MakeIndexFindsAll, Returned
<1>3. CASE ReadIndexes
  BY <1>3 DEF ReadIndexes, MakeIndexFindsAll, Returned
<1>4. CASE RootStep
  <2>1. ret.op # "MakeIndex"
    BY <1>4 DEF RootStep, RecInv, JobReturns
  <2>2. ret' = ret \/ \E op \in {"Index", "ReadIndexes"} : \E st, at : ret' = Returned(op, st, at)
    BY <1>4 DEF RootStep, RootMessage, GoToRoot, EndReadIndexes
  <2>3. ret'.op # "MakeIndex"
    BY <2>1, <2>2 DEF Returned
  <2>. QED
    BY <2>3 DEF MakeIndexFindsAll
<1>5. ASSUME NEW ch, MakeIndex(ch) PROVE MakeIndexFindsAll'
  BY <1>5, MakeIndexMakes
<1>6. CASE IndexPresent
  BY <1>6 DEF IndexPresent, MakeIndexFindsAll, Returned
<1>7. CASE UNCHANGED allvars
  <2>1. UNCHANGED <<file, ret, tbl, call>>
    BY <1>7 DEF allvars, vars, recvars
  <2>. QED
    BY <2>1 DEF MakeIndexFindsAll
<1>. QED
  BY <1>1, <1>2, <1>3, <1>4, <1>5, <1>6, <1>7 DEF RecNext

\* An index made of a channel of a sound recording, into an empty table, names each packet of
\* the channel from the one that would have been read next, once, in the order of the file:
\* the search for a time packet that comes first loses none (enMakeIndex).
THEOREM MadeIndexComplete == RecSpec => []MakeIndexFindsAll
<1>1. RecInit => MakeIndexFindsAll
  BY DEF RecInit, Init, MakeIndexFindsAll, Returned
<1>2. RecInv /\ MakeIndexFindsAll /\ [RecNext]_allvars => MakeIndexFindsAll'
  BY MadeStays
<1>. QED
  BY <1>1, <1>2, RecInductive, PTL DEF RecSpec

-----------------------------------------------------------------------------
(* Reading the index of a sound recording: the last packet and the time     *)
(* reference.                                                               *)

LEMMA LastPacketIsLast ==
  ASSUME NEW f \in Files, Sound(f)
  PROVE  /\ LastPacket(f) \in f.pkts /\ LastPacket(f) \in Nat
         /\ \A s \in f.pkts : s <= LastPacket(f)
<1>1. 0 \in f.pkts /\ f.size \in Nat /\ \A s \in f.pkts : s \in Nat /\ s <= f.size
  BY TilingFacts DEF Sound, Recording, Tiled
<1>. DEFINE T == {f.size - s : s \in f.pkts}
<1>2. T \in SUBSET Nat /\ T # {}
  BY <1>1
<1>. HIDE DEF T
<1>3. PICK m \in T : \A n \in T : m <= n
  BY <1>2, LeastElement
<1>4. PICK q \in f.pkts : m = f.size - q
  BY <1>3 DEF T
<1>5. \A s \in f.pkts : s <= q
  <2>1. \A s \in f.pkts : f.size - s \in T
    BY DEF T
  <2>. QED
    BY <1>1, <1>3, <1>4, <2>1
<1>6. \E p \in f.pkts : \A s \in f.pkts : s <= p
  BY <1>4, <1>5
<1>. QED
  BY <1>1, <1>6 DEF LastPacket

\* LastMsg goes to the last packet when it has data.
LEMMA LastIsFound ==
  ASSUME NEW f \in Files, Sound(f), f.cand[LastPacket(f)].len > HEADER_SIZE, NEW r
  PROVE  LastOutcome(f, r) = Outcome("OK", NoHeader, Seek(r, LastPacket(f)))
<1>. DEFINE z == LastPacket(f)
            tries == 0..(f.size - HEADER_SIZE - 1)
            ok == {q \in tries : HeaderOk(f, q)}
<1>1. z \in f.pkts /\ z \in Nat /\ \A s \in f.pkts : s <= z
  BY LastPacketIsLast
<1>2. /\ f.size \in Nat /\ f.cand[z].len \in Nat
      /\ z + f.cand[z].len <= f.size /\ HEADER_SIZE \in Nat
  BY <1>1, TilingFacts, ReaderAssumption DEF Sound, Recording
<1>3. HeaderOk(f, z) /\ \A q : HeaderOk(f, q) => q \in f.pkts
  BY <1>1 DEF Sound, Recording, Clean, Good, HeaderOk
<1>4. z \in ok /\ \A q \in ok : q <= z /\ q \in Nat
  <2>. HIDE DEF z
  <2>1. z \in tries
    BY <1>1, <1>2 DEF z
  <2>. QED
    BY <1>1, <1>3, <2>1
<1>. HIDE DEF z, ok
<1>5. (CHOOSE q \in ok : \A s \in ok : s <= q) = z
  BY <1>1, <1>4
<1>. QED
  BY <1>4, <1>5 DEF LastOutcome, z, ok

\* What reading the index rests on.
Readable(f) == Indexed(f) /\ Timed(f)

\* The reference fits the clock of the recording.
KeepsTime(f, t) ==
  /\ t.abs \in Nat /\ t.rel \in Nat
  /\ \A q \in f.pkts : Content(f, q).abs = t.abs + (Content(f, q).time - t.rel)

\* FindTimePacket finds a time packet that is there, whatever the reference was.
LEMMA FindsTime ==
  ASSUME NEW f \in Files, Sound(f), Timed(f), f.cand[LastPacket(f)].len > HEADER_SIZE,
         NEW r, InStep(f, r), NEW t, NEW o \in FindTimePacket(f, r, t)
  PROVE  KeepsTime(f, o.tref)
<1>. DEFINE z == LastPacket(f)
            half == z \div 2
            from == Halfway(f, r)
            w == FindWalk(f, r)
<1>1. z \in f.pkts /\ z \in Nat /\ half \in Nat /\ \A s \in f.pkts : s \in Nat
  BY LastPacketIsLast, TilingFacts DEF Sound, Recording
<1>2. InStep(f, from) /\ IsNextPacket(f, half, NextOutcome(f, from).at)
  <2>. DEFINE l == Seek(r, z)
  <2>1. r \in Reader
    BY DEF InStep
  <2>2. l \in Reader /\ l.pos = z
    BY <1>1, <2>1, SeekFacts
  <2>3. from = Seek(l, half)
    BY <2>2, LastIsFound DEF Halfway, Outcome
  <2>. HIDE DEF l, z, half, from
  <2>4. InStep(f, Seek(l, half)) /\ NextOffset(Seek(l, half)) = half
    BY <1>1, <2>2, SeekFacts DEF NextOffset
  <2>. QED
    BY <1>1, <2>3, <2>4, NextOutcomeFacts, SearchFindsNext
<1>3. PICK q \in f.pkts :
        LET between == {p \in f.pkts : half <= p /\ p <= q} IN
        /\ IsTime(f, q) /\ q \in between
        /\ \A p, s \in between : Content(f, s).time <= Content(f, p).time + TIME_LIMIT
  BY DEF Timed
<1>4. PICK n \in DOMAIN w : FindEnds(f, r, t, o, n)
  BY FindIsWalk
<1>5. w[0] = NextOutcome(f, from).at
  BY AlongDomain DEF FindWalk
<1>. HIDE DEF from, half
<1>6. w[0] \in f.pkts /\ half <= w[0] /\ w[0] <= q /\ w[0] # NoHeader
  <2>1. half <= q
    BY <1>3
  <2>2. ~(q < half)
    BY <1>1, <2>1
  <2>. QED
    BY <1>1, <1>2, <1>5, <2>1, <2>2 DEF IsNextPacket, NoHeader
<1>7. LeadsInOrder(f, FindSteps(f))
  <2>1. \A p \in f.pkts : p \in DOMAIN f.cand
    BY TilingFacts DEF Sound, Recording
  <2>2. FALSE \in BOOLEAN
    OBVIOUS
  <2>. QED
    BY <2>1, <2>2, FollowingIsNext DEF LeadsInOrder, FindSteps
<1>8. /\ w[n] = NoHeader \/ (w[n] \in f.pkts /\ w[0] <= w[n])
      /\ (w[n] = NoHeader \/ q < w[n]) => \E k \in 0..(n - 1) : w[k] = q
  BY <1>2, <1>4, <1>5, <1>6, <1>7, AlongInOrder DEF FindWalk, from
<1>9. w[n] \in f.pkts /\ w[0] <= w[n] /\ w[n] <= q /\ w[n] # NoHeader
  <2>1. ~\E k \in 0..(n - 1) : w[k] = q
    BY <1>3, <1>4 DEF FindEnds
  <2>2. w[n] # NoHeader
    BY <1>8, <2>1
  <2>3. w[n] \in f.pkts /\ w[0] <= w[n] /\ ~(q < w[n])
    BY <1>8, <2>1, <2>2
  <2>. HIDE DEF w
  <2>. QED
    BY <1>1, <2>2, <2>3
<1>10. ~TooLate(f, w[0], w[n])
  <2>1. half <= w[n]
    BY <1>1, <1>6, <1>9
  <2>2. Content(f, w[n]).time <= Content(f, w[0]).time + TIME_LIMIT
    BY <1>3, <1>6, <1>9, <2>1
  <2>3. Content(f, w[n]).time \in Nat /\ Content(f, w[0]).time \in Nat /\ TIME_LIMIT \in Nat
    BY <1>6, <1>9, RecordingAssumption, TilingFacts DEF Sound, Recording, Body
  <2>. QED
    BY <2>2, <2>3 DEF TooLate
<1>11. LET p == FindOutcome(f, r, n) IN
       p.status = "OK" /\ DataOutcome(f, p.rd).status = "OK"
  <2>. DEFINE p == FindOutcome(f, r, n)
  <2>0. \A k \in 0..(n - 1) : w[k] # NoHeader
    BY <1>4 DEF FindEnds
  <2>1. IsHeaderOutcome(f, p) /\ p.at = w[n]
    BY <1>2, <1>4, <2>0, FindLeadsOn, AlongOutcomes DEF FindWalk, FindOutcome, from
  <2>. HIDE DEF p, w
  <2>2. p.status = "OK" /\ p = FoundAt(f, w[n])
    BY <1>9, <2>1 DEF IsHeaderOutcome
  <2>3. DataOutcome(f, p.rd).status = "OK"
    BY <1>9, <2>2, DataOfPacket
  <2>. QED
    BY <2>2, <2>3 DEF p
<1>12. o.tref = [packet |-> TRUE, rel |-> Content(f, w[n]).time, abs |-> Content(f, w[n]).abs]
  BY <1>4, <1>10, <1>11 DEF FindEnds
<1>. HIDE DEF w
<1>13. \A s \in f.pkts : Content(f, s).time \in Nat /\ Content(f, s).abs \in Nat
  BY RecordingAssumption, TilingFacts DEF Sound, Recording, Body
<1>14. \A s \in f.pkts : Content(f, s).abs - Content(f, s).time
                           = Content(f, w[n]).abs - Content(f, w[n]).time
  BY <1>9 DEF Timed
<1>. QED
  BY <1>9, <1>12, <1>13, <1>14 DEF KeepsTime

-----------------------------------------------------------------------------
(* The chain of roots.                                                      *)

\* A walk that comes to a place that follows itself visits no other place twice before.
LEMMA WalkToEnd ==
  ASSUME NEW N \in Nat, NEW a, NEW g, NEW m \in 0..N,
         g[Walk(N, a, g)[m]] = Walk(N, a, g)[m],
         \A k \in 0..(m - 1) : g[Walk(N, a, g)[k]] # Walk(N, a, g)[k]
  PROVE  LET w == Walk(N, a, g) IN
         /\ \A i \in m..N : w[i] = w[m]
         /\ \A i, j \in 0..m : w[i] = w[j] => i = j
<1>. DEFINE w == Walk(N, a, g)
<1>1. \A n \in 1..N : w[n] = g[w[n - 1]]
  BY WalkValues
<1>2. g[w[m]] = w[m] /\ \A k \in 0..(m - 1) : g[w[k]] # w[k]
  OBVIOUS
<1>. HIDE DEF w
<1>3. ASSUME NEW i \in m..N, w[i] # w[m] PROVE FALSE
  <2>. DEFINE bad == {k \in m..N : w[k] # w[m]}
  <2>1. bad \in SUBSET Nat /\ bad # {}
    BY <1>3
  <2>2. PICK k \in bad : \A l \in bad : k <= l
    <3>. HIDE DEF bad
    <3>. QED
      BY <2>1, LeastElement
  <2>3. k \in 1..N /\ k - 1 \in m..N
    BY <2>2
  <2>4. ~(k <= k - 1)
    BY <2>3
  <2>5. w[k - 1] = w[m]
    BY <2>2, <2>3, <2>4
  <2>. QED
    BY <1>1, <1>2, <2>2, <2>3, <2>5
<1>4. ASSUME NEW i \in 0..m, NEW j \in 0..m, i < j, w[i] = w[j] PROVE FALSE
  <2>. DEFINE bad == {d \in 0..(m - j) : w[i + d] # w[j + d]}
  <2>1. CASE bad = {}
    <3>1. m - j \in 0..(m - j) /\ j + (m - j) = m /\ i + (m - j) \in 0..(m - 1)
      BY <1>4
    <3>2. w[i + (m - j)] = w[m]
      BY <2>1, <3>1
    <3>. QED
      BY <1>2, <3>1, <3>2
  <2>2. CASE bad # {}
    <3>1. bad \in SUBSET Nat
      BY <1>4
    <3>2. PICK d \in bad : \A l \in bad : d <= l
      <4>. HIDE DEF bad
      <4>. QED
        BY <2>2, <3>1, LeastElement
    <3>3. d # 0
      BY <1>4, <3>2
    <3>4. d - 1 \in 0..(m - j) /\ ~(d <= d - 1)
      BY <1>4, <3>2, <3>3
    <3>5. w[i + (d - 1)] = w[j + (d - 1)]
      BY <3>2, <3>4
    <3>6. /\ i + d \in 1..N /\ j + d \in 1..N
          /\ (i + d) - 1 = i + (d - 1) /\ (j + d) - 1 = j + (d - 1)
      BY <1>4, <3>2, <3>3
    <3>7. w[i + d] = g[w[i + (d - 1)]] /\ w[j + d] = g[w[j + (d - 1)]]
      BY <1>1, <3>6
    <3>. QED
      BY <3>2, <3>5, <3>7
  <2>. QED
    BY <2>1, <2>2
<1>5. \A i, j \in 0..m : w[i] = w[j] => i = j
  <2>1. \A i, j \in 0..m : i < j \/ j < i \/ i = j
    OBVIOUS
  <2>. QED
    BY <1>4, <2>1
<1>. QED
  BY <1>3, <1>5 DEF w

\* What the last message of a packet names, and the roots in the order they are read.
Link(f) ==
  [q \in Nat |-> IF q \in f.pkts /\ Content(f, q).msgs # <<>> THEN Last(Content(f, q).msgs).at ELSE q]

Root(f) == Walk(Cardinality(f.pkts), LastPacket(f), Link(f))

LEMMA RootFacts ==
  ASSUME NEW f \in Files, Sound(f)
  PROVE  /\ Cardinality(f.pkts) \in Nat
         /\ RootChain(f) = {Root(f)[n] : n \in 0..Cardinality(f.pkts)}
         /\ Root(f)[0] = LastPacket(f)
         /\ \A n \in 1..Cardinality(f.pkts) : Root(f)[n] = Link(f)[Root(f)[n - 1]]
<1>. DEFINE N == Cardinality(f.pkts)
            a == LastPacket(f)
            g == Link(f)
<1>1. N \in Nat
  <2>1. f.pkts \subseteq DOMAIN f.cand
    BY TilingFacts DEF Sound, Recording
  <2>. QED
    BY <2>1, CandFinite, FS_Subset, FS_CardinalityType
<1>2. DOMAIN Root(f) = 0..N /\ Root(f)[0] = a /\ \A n \in 1..N : Root(f)[n] = g[Root(f)[n - 1]]
  BY <1>1, WalkValues DEF Root
<1>3. RootChain(f) = {Root(f)[n] : n \in DOMAIN Root(f)}
  <2>. DEFINE R == CHOOSE R : R = [n \in 0..N |-> IF n = 0 THEN a ELSE g[R[n - 1]]]
  <2>1. Root(f) = R
    BY DEF Root, Walk, IsWalk
  <2>2. RootChain(f) = {R[n] : n \in DOMAIN R}
    BY DEF RootChain, Link
  <2>. HIDE DEF R
  <2>. QED
    BY <2>1, <2>2
<1>. QED
  BY <1>1, <1>2, <1>3

\* The last of them is the first that names itself.
EndsAt(f, m) ==
  /\ m \in 0..Cardinality(f.pkts)
  /\ Link(f)[Root(f)[m]] = Root(f)[m]
  /\ \A k \in 0..(m - 1) : Link(f)[Root(f)[k]] # Root(f)[k]

\* The roots of an indexed recording have messages and come to an end, none twice.
LEMMA ChainFacts ==
  ASSUME NEW f \in Files, Indexed(f)
  PROVE  /\ Sound(f)
         /\ \A q \in RootChain(f) :
              /\ q \in f.pkts /\ q \in Nat /\ Content(f, q).type = "INDEX"
              /\ ~Content(f, q).node /\ ~Content(f, q).short /\ Content(f, q).msgs # <<>>
              /\ f.cand[q].len > HEADER_SIZE
              /\ Link(f)[q] = Last(Content(f, q).msgs).at
         /\ \E m : EndsAt(f, m)
         /\ \A m : EndsAt(f, m) =>
              /\ RootChain(f) = {Root(f)[n] : n \in 0..m}
              /\ \A i, j \in 0..m : Root(f)[i] = Root(f)[j] => i = j
<1>1. Sound(f)
  BY DEF Indexed, Sound
<1>2. ASSUME NEW q \in RootChain(f)
      PROVE  /\ q \in f.pkts /\ q \in Nat /\ Content(f, q).type = "INDEX"
             /\ ~Content(f, q).node /\ ~Content(f, q).short /\ Content(f, q).msgs # <<>>
             /\ f.cand[q].len > HEADER_SIZE
             /\ Link(f)[q] = Last(Content(f, q).msgs).at
  <2>1. /\ q \in f.pkts /\ Content(f, q).type = "INDEX" /\ Content(f, q).node = FALSE
        /\ ~Content(f, q).short /\ Content(f, q).msgs # <<>> /\ f.cand[q].len > HEADER_SIZE
    BY DEF Indexed
  <2>2. q \in Nat
    BY <1>1, <2>1, TilingFacts DEF Sound, Recording
  <2>. QED
    BY <2>1, <2>2 DEF Link
<1>. DEFINE N == Cardinality(f.pkts)
<1>3. N \in Nat /\ RootChain(f) = {Root(f)[n] : n \in 0..N}
  BY <1>1, RootFacts
<1>4. \E m : EndsAt(f, m)
  <2>. DEFINE T == {n \in 0..N : Link(f)[Root(f)[n]] = Root(f)[n]}
  <2>1. T \in SUBSET Nat /\ T # {}
    <3>1. PICK q \in RootChain(f) : Last(Content(f, q).msgs).at = q
      BY DEF Indexed
    <3>2. PICK n \in 0..N : q = Root(f)[n]
      BY <1>3
    <3>3. Link(f)[Root(f)[n]] = Root(f)[n]
      BY <1>2, <3>1, <3>2
    <3>. QED
      BY <3>3
  <2>2. PICK m \in T : \A n \in T : m <= n
    <3>. HIDE DEF T
    <3>. QED
      BY <2>1, LeastElement
  <2>3. \A k \in 0..(m - 1) : k \in 0..N /\ ~(m <= k)
    BY <1>3, <2>2
  <2>. QED
    BY <2>2, <2>3 DEF EndsAt
<1>5. ASSUME NEW m, EndsAt(f, m)
      PROVE  /\ RootChain(f) = {Root(f)[n] : n \in 0..m}
             /\ \A i, j \in 0..m : Root(f)[i] = Root(f)[j] => i = j
  <2>. DEFINE w == Root(f)
  <2>1. m \in 0..N /\ (\A i \in m..N : w[i] = w[m]) /\ \A i, j \in 0..m : w[i] = w[j] => i = j
    BY <1>3, <1>5, WalkToEnd DEF EndsAt, Root
  <2>. HIDE DEF w, N
  <2>2. /\ m \in 0..m /\ \A n \in 0..m : n \in 0..N
        /\ \A n \in 0..N : n \in 0..m \/ n \in m..N
    BY <1>3, <2>1
  <2>3. {w[n] : n \in 0..N} = {w[n] : n \in 0..m}
    BY <2>1, <2>2
  <2>. QED
    BY <1>3, <2>1, <2>3 DEF w, N
<1>. QED
  BY <1>1, <1>2, <1>4, <1>5

-----------------------------------------------------------------------------
(* Tables that hold one entry for each that was recorded.                   *)

TableEntry == [chan : Nat, type : {"DATA", "TIME", "INDEX"}, at : Nat, time : Nat, abs : Nat]

\* x is what the recorder's entry e says, with the clock's time of its packet.
Recorded(f, x, e) ==
  x.at = EntryOf(f, e).at /\ x.time = EntryOf(f, e).time /\ x.abs = Content(f, x.at).abs

\* The nodes are the recorder's entries E, each once, in some order.
Records(f, ns, E) ==
  /\ ns \in Seq(TableEntry)
  /\ \E b \in Bijection(1..Len(ns), E) : \A i \in 1..Len(ns) : Recorded(f, ns[i], b[i])

LEMMA RecordsNone ==
  ASSUME NEW f PROVE Records(f, <<>>, {})
<1>. DEFINE b == [i \in 1..0 |-> 0]
<1>1. b \in [1..0 -> {}] /\ 1..0 = {}
  OBVIOUS
<1>2. b \in Bijection(1..0, {})
  BY <1>1 DEF Bijection, Injection, IsInjective, Surjection
<1>3. <<>> \in Seq(TableEntry) /\ Len(<<>>) = 0
  OBVIOUS
<1>. QED
  BY <1>1, <1>2, <1>3 DEF Records

\* Entries that were not among them are added.
LEMMA RecordsMore ==
  ASSUME NEW f, NEW ns, NEW E, Records(f, ns, E), NEW new \in Seq(TableEntry), NEW F,
         E \cap F = {}, NEW c \in Bijection(1..Len(new), F),
         \A i \in 1..Len(new) : Recorded(f, new[i], c[i])
  PROVE  Records(f, ns \o new, E \cup F)
<1>1. PICK b \in Bijection(1..Len(ns), E) : \A i \in 1..Len(ns) : Recorded(f, ns[i], b[i])
  BY DEF Records
<1>. DEFINE n == Len(ns)
            m == Len(new)
            both == ns \o new
            d == [i \in 1..(n + m) |-> IF i <= n THEN b[i] ELSE c[i - n]]
<1>2. ns \in Seq(TableEntry) /\ n \in Nat /\ m \in Nat
  BY DEF Records
<1>3. /\ both \in Seq(TableEntry) /\ Len(both) = n + m
      /\ \A i \in 1..(n + m) : both[i] = IF i <= n THEN ns[i] ELSE new[i - n]
  BY <1>2, ConcatProperties
<1>4. /\ \A i \in 1..n : b[i] \in E
      /\ \A i, j \in 1..n : b[i] = b[j] => i = j
      /\ \A e \in E : \E i \in 1..n : b[i] = e
  BY DEF Bijection, Injection, IsInjective, Surjection
<1>5. /\ \A i \in 1..m : c[i] \in F
      /\ \A i, j \in 1..m : c[i] = c[j] => i = j
      /\ \A e \in F : \E i \in 1..m : c[i] = e
  BY DEF Bijection, Injection, IsInjective, Surjection
<1>. HIDE DEF n, m, both
<1>6. /\ \A i \in 1..(n + m) : (i \in 1..n /\ i <= n) \/ (~(i <= n) /\ i - n \in 1..m)
      /\ \A i \in 1..n : i \in 1..(n + m) /\ i <= n
      /\ \A i \in 1..m : i + n \in 1..(n + m) /\ ~(i + n <= n) /\ (i + n) - n = i
      /\ \A i, j \in 1..(n + m) : i - n = j - n => i = j
  BY <1>2
<1>7. \A i \in 1..(n + m) : (i <= n => d[i] = b[i]) /\ (~(i <= n) => d[i] = c[i - n])
  OBVIOUS
<1>8. d \in [1..(n + m) -> E \cup F]
  BY <1>4, <1>5, <1>6
<1>. HIDE DEF d
<1>9. ASSUME NEW i \in 1..(n + m), NEW j \in 1..(n + m), d[i] = d[j] PROVE i = j
  <2>1. CASE i <= n /\ j <= n
    BY <1>4, <1>6, <1>7, <1>9, <2>1
  <2>2. CASE ~(i <= n) /\ ~(j <= n)
    BY <1>5, <1>6, <1>7, <1>9, <2>2
  <2>3. CASE i <= n /\ ~(j <= n)
    BY <1>4, <1>5, <1>6, <1>7, <1>9, <2>3
  <2>4. CASE ~(i <= n) /\ j <= n
    BY <1>4, <1>5, <1>6, <1>7, <1>9, <2>4
  <2>. QED
    BY <2>1, <2>2, <2>3, <2>4
<1>10. ASSUME NEW e \in E \cup F PROVE \E i \in 1..(n + m) : d[i] = e
  <2>1. CASE e \in E
    BY <1>4, <1>6, <1>7, <2>1
  <2>2. CASE e \in F
    <3>1. PICK i \in 1..m : c[i] = e
      BY <1>5, <2>2
    <3>2. i + n \in 1..(n + m) /\ d[i + n] = e
      BY <1>6, <1>7, <3>1
    <3>. QED
      BY <3>2
  <2>. QED
    BY <2>1, <2>2
<1>11. d \in Bijection(1..(n + m), E \cup F)
  BY <1>8, <1>9, <1>10 DEF Bijection, Injection, IsInjective, Surjection
<1>12. \A i \in 1..(n + m) : Recorded(f, both[i], d[i])
  <2>. TAKE i \in 1..(n + m)
  <2>1. CASE i <= n
    <3>1. both[i] = ns[i] /\ d[i] = b[i] /\ i \in 1..n
      BY <1>3, <1>6, <1>7, <2>1
    <3>. QED
      BY <1>1, <3>1 DEF n
  <2>2. CASE ~(i <= n)
    <3>1. both[i] = new[i - n] /\ d[i] = c[i - n] /\ i - n \in 1..m
      BY <1>3, <1>6, <1>7, <2>2
    <3>. QED
      BY <3>1 DEF m
  <2>. QED
    BY <2>1, <2>2
<1>. QED
  BY <1>3, <1>11, <1>12 DEF Records, both

\* Another order of them records the same.
LEMMA RecordsReordered ==
  ASSUME NEW f, NEW ns, NEW E, Records(f, ns, E), NEW p \in Bijection(1..Len(ns), 1..Len(ns))
  PROVE  Records(f, [i \in 1..Len(ns) |-> ns[p[i]]], E)
<1>1. PICK b \in Bijection(1..Len(ns), E) : \A i \in 1..Len(ns) : Recorded(f, ns[i], b[i])
  BY DEF Records
<1>. DEFINE n == Len(ns)
            s == [i \in 1..n |-> ns[p[i]]]
            d == [i \in 1..n |-> b[p[i]]]
<1>2. ns \in [1..n -> TableEntry] /\ n \in Nat
  BY DEF Records
<1>3. /\ \A i \in 1..n : b[i] \in E
      /\ \A i, j \in 1..n : b[i] = b[j] => i = j
      /\ \A e \in E : \E i \in 1..n : b[i] = e
  BY DEF Bijection, Injection, IsInjective, Surjection
<1>4. /\ \A i \in 1..n : p[i] \in 1..n
      /\ \A i, j \in 1..n : p[i] = p[j] => i = j
      /\ \A k \in 1..n : \E i \in 1..n : p[i] = k
  BY DEF Bijection, Injection, IsInjective, Surjection
<1>. HIDE DEF n
<1>5. s \in [1..n -> TableEntry]
  BY <1>2, <1>4
<1>6. s \in Seq(TableEntry) /\ Len(s) = n
  <2>. HIDE DEF s
  <2>. QED
    BY <1>2, <1>5
<1>7. d \in Bijection(1..n, E)
  <2>1. d \in [1..n -> E]
    BY <1>3, <1>4
  <2>2. \A i \in 1..n : d[i] = b[p[i]]
    OBVIOUS
  <2>. HIDE DEF d
  <2>3. ASSUME NEW i \in 1..n, NEW j \in 1..n, d[i] = d[j] PROVE i = j
    <3>1. b[p[i]] = b[p[j]] /\ p[i] \in 1..n /\ p[j] \in 1..n
      BY <1>4, <2>2, <2>3
    <3>2. p[i] = p[j]
      BY <1>3, <3>1
    <3>. QED
      BY <1>4, <3>2
  <2>4. \A e \in E : \E i \in 1..n : d[i] = e
    <3>. TAKE e \in E
    <3>1. PICK k \in 1..n : b[k] = e
      BY <1>3
    <3>2. PICK i \in 1..n : p[i] = k
      BY <1>4
    <3>. QED
      BY <2>2, <3>1, <3>2
  <2>. QED
    BY <2>1, <2>3, <2>4 DEF Bijection, Injection, IsInjective, Surjection
<1>8. \A i \in 1..n : Recorded(f, s[i], d[i])
  BY <1>1, <1>4 DEF n
<1>. HIDE DEF s, d
<1>9. Records(f, s, E)
  BY <1>6, <1>7, <1>8 DEF Records
<1>. QED
  BY <1>9 DEF s, n

\* There are as many as were recorded, of the packets that were.
LEMMA RecordsAll ==
  ASSUME NEW f, NEW ns, NEW E, Records(f, ns, E)
  PROVE  /\ Len(ns) = Cardinality(E)
         /\ {ns[i].at : i \in DOMAIN ns} = {EntryOf(f, e).at : e \in E}
         /\ \A i \in DOMAIN ns : ns[i].abs = Content(f, ns[i].at).abs /\ ns[i].time \in Nat
<1>1. PICK b \in Bijection(1..Len(ns), E) : \A i \in 1..Len(ns) : Recorded(f, ns[i], b[i])
  BY DEF Records
<1>. DEFINE n == Len(ns)
<1>2. n \in Nat /\ DOMAIN ns = 1..n /\ ns \in [1..n -> TableEntry]
  BY DEF Records
<1>3. n = Cardinality(E)
  <2>2. ExistsBijection(1..n, E)
    BY <1>1 DEF ExistsBijection
  <2>. HIDE DEF n
  <2>. QED
    BY <1>2, <2>2, FS_CountingElements
<1>4. /\ \A i \in 1..n : b[i] \in E
      /\ \A e \in E : \E i \in 1..n : b[i] = e
  BY DEF Bijection, Injection, IsInjective, Surjection
<1>5. \A i \in 1..n : ns[i].at = EntryOf(f, b[i]).at /\ ns[i].abs = Content(f, ns[i].at).abs
  BY <1>1 DEF Recorded
<1>6. \A i \in 1..n : ns[i].time \in Nat
  BY <1>2 DEF TableEntry
<1>. HIDE DEF n
<1>7. {ns[i].at : i \in 1..n} = {EntryOf(f, e).at : e \in E}
  BY <1>4, <1>5
<1>. QED
  BY <1>2, <1>3, <1>5, <1>6, <1>7 DEF n

-----------------------------------------------------------------------------
(* The entries read when the loop is at a message of a root.                *)

\* Those of the first n roots, and of the messages of the next root that were done.
ReadSoFar(f, n, done) ==
  {e \in IndexEntries(f) : \/ \E k \in 0..(n - 1) : e[1] = Root(f)[k]
                           \/ e[1] = Root(f)[n] /\ e[2] <= done}

LEMMA EntryIs ==
  ASSUME NEW f, NEW e
  PROVE  e \in IndexEntries(f) <=>
           \E q \in RootChain(f) : \E i \in 1..(Len(Content(f, q).msgs) - 1) :
             \E j \in DOMAIN Content(f, Content(f, q).msgs[i].at).msgs : e = <<q, i, j>>
<1>. DEFINE M(q) == Content(f, q).msgs
            node(q, i) == {<<q, i, n>> : n \in DOMAIN M(M(q)[i].at)}
            root(q) == UNION {node(q, i) : i \in 1..(Len(M(q)) - 1)}
<1>1. IndexEntries(f) = UNION {root(q) : q \in RootChain(f)}
  BY DEF IndexEntries
<1>2. ASSUME NEW q PROVE e \in root(q) <=> \E i \in 1..(Len(M(q)) - 1) : e \in node(q, i)
  <2>. HIDE DEF node, M
  <2>. QED
    OBVIOUS
<1>3. e \in IndexEntries(f) <=> \E q \in RootChain(f) : e \in root(q)
  <2>. HIDE DEF root
  <2>. QED
    BY <1>1
<1>. QED
  BY <1>2, <1>3

LEMMA SoFarNone ==
  ASSUME NEW f PROVE ReadSoFar(f, 0, 0) = {}
<1>1. \A e \in IndexEntries(f) : ~(e[2] <= 0)
  BY EntryIs
<1>2. 0..(0 - 1) = {}
  OBVIOUS
<1>. QED
  BY <1>1, <1>2 DEF ReadSoFar

\* A root all of whose messages but the last were done is one of the first.
LEMMA SoFarRoot ==
  ASSUME NEW f, NEW n \in Nat
  PROVE  ReadSoFar(f, n, Len(Content(f, Root(f)[n]).msgs) - 1) = ReadSoFar(f, n + 1, 0)
<1>. DEFINE l == Len(Content(f, Root(f)[n]).msgs) - 1
<1>1. ASSUME NEW e \in IndexEntries(f)
      PROVE  ((\E k \in 0..(n - 1) : e[1] = Root(f)[k]) \/ (e[1] = Root(f)[n] /\ e[2] <= l))
             <=> ((\E k \in 0..((n + 1) - 1) : e[1] = Root(f)[k])
                  \/ (e[1] = Root(f)[n + 1] /\ e[2] <= 0))
  <2>1. PICK q \in RootChain(f) : \E i \in 1..(Len(Content(f, q).msgs) - 1) :
             \E j \in DOMAIN Content(f, Content(f, q).msgs[i].at).msgs : e = <<q, i, j>>
    BY EntryIs
  <2>2. PICK i \in 1..(Len(Content(f, q).msgs) - 1) : e[1] = q /\ e[2] = i
    BY <2>1
  <2>3. ~(e[2] <= 0)
    BY <2>2
  <2>4. e[1] = Root(f)[n] => e[2] <= l
    <3>1. ASSUME q = Root(f)[n] PROVE i <= l
      BY <3>1
    <3>. QED
      BY <2>2, <3>1
  <2>5. \A k : k \in 0..((n + 1) - 1) <=> k \in 0..(n - 1) \/ k = n
    OBVIOUS
  <2>. HIDE DEF l
  <2>. QED
    BY <2>3, <2>4, <2>5
<1>. HIDE DEF l
<1>2. ReadSoFar(f, n, l) = ReadSoFar(f, n + 1, 0)
  BY <1>1 DEF ReadSoFar
<1>. QED
  BY <1>2 DEF l

\* At the end of the chain these are all.
LEMMA SoFarAll ==
  ASSUME NEW f \in Files, Indexed(f), NEW n, EndsAt(f, n)
  PROVE  ReadSoFar(f, n + 1, 0) = IndexEntries(f)
<1>1. n \in Nat
  BY ChainFacts, RootFacts DEF EndsAt
<1>2. ASSUME NEW e \in IndexEntries(f) PROVE \E k \in 0..((n + 1) - 1) : e[1] = Root(f)[k]
  <2>1. e[1] \in RootChain(f)
    BY EntryIs
  <2>2. RootChain(f) = {Root(f)[k] : k \in 0..n}
    BY ChainFacts
  <2>3. (n + 1) - 1 = n
    BY <1>1
  <2>. QED
    BY <2>1, <2>2, <2>3
<1>. QED
  BY <1>2 DEF ReadSoFar

\* One more message of a root.
LEMMA SoFarMore ==
  ASSUME NEW f \in Files, Indexed(f), NEW m, EndsAt(f, m), NEW n \in 0..m, NEW i \in Nat,
         i < Len(Content(f, Root(f)[n]).msgs) - 1
  PROVE  LET q == Root(f)[n]
             F == {<<q, i + 1, j>> : j \in DOMAIN Content(f, Content(f, q).msgs[i + 1].at).msgs}
         IN /\ ReadSoFar(f, n, i + 1) = ReadSoFar(f, n, i) \cup F
            /\ ReadSoFar(f, n, i) \cap F = {}
<1>. DEFINE q == Root(f)[n]
            M(s) == Content(f, s).msgs
            D == DOMAIN M(M(q)[i + 1].at)
            F == {<<q, i + 1, j>> : j \in D}
<1>1. /\ m \in Nat /\ n \in Nat /\ q \in RootChain(f)
      /\ \A k \in 0..(n - 1) : Root(f)[k] # q
  <2>1. m \in Nat
    BY ChainFacts, RootFacts DEF EndsAt
  <2>2. n \in 0..m /\ n \in Nat /\ \A k \in 0..(n - 1) : k \in 0..m /\ k # n
    BY <2>1
  <2>. HIDE DEF q
  <2>3. q \in RootChain(f)
    BY <2>2, ChainFacts DEF q
  <2>4. \A k, j \in 0..m : Root(f)[k] = Root(f)[j] => k = j
    BY ChainFacts
  <2>. QED
    BY <2>1, <2>2, <2>3, <2>4 DEF q
<1>2. Len(M(q)) \in Nat /\ i + 1 \in 1..(Len(M(q)) - 1)
  <2>1. M(q) \in Seq(Message)
    BY <1>1, ChainFacts, RecordingAssumption, TilingFacts DEF Sound, Recording, Body
  <2>. QED
    BY <2>1
<1>. DEFINE before(e) == \E k \in 0..(n - 1) : e[1] = Root(f)[k]
<1>3. ASSUME NEW e \in F
      PROVE  e \in IndexEntries(f) /\ e[1] = q /\ e[2] = i + 1 /\ ~before(e)
  <2>1. PICK j \in D : e = <<q, i + 1, j>>
    OBVIOUS
  <2>2. e \in IndexEntries(f)
    BY <1>1, <1>2, <2>1, EntryIs
  <2>3. e[1] = q /\ e[2] = i + 1
    BY <2>1
  <2>. HIDE DEF q, F, D
  <2>. QED
    BY <1>1, <2>2, <2>3
<1>4. ASSUME NEW e \in IndexEntries(f), e[1] = q, e[2] = i + 1 PROVE e \in F
  <2>1. PICK s \in RootChain(f) : \E k \in 1..(Len(M(s)) - 1) :
               \E j \in DOMAIN M(M(s)[k].at) : e = <<s, k, j>>
    BY EntryIs
  <2>2. PICK k \in 1..(Len(M(s)) - 1) : \E j \in DOMAIN M(M(s)[k].at) : e = <<s, k, j>>
    BY <2>1
  <2>3. PICK j \in DOMAIN M(M(s)[k].at) : e = <<s, k, j>>
    BY <2>2
  <2>4. s = q /\ k = i + 1
    BY <1>4, <2>3
  <2>. QED
    BY <2>3, <2>4
<1>5. \A e \in IndexEntries(f) : e[2] \in Nat
  BY EntryIs
<1>. HIDE DEF F, q
<1>6. \A e \in IndexEntries(f) : e[2] <= i + 1 <=> e[2] <= i \/ e[2] = i + 1
  BY <1>5
<1>7. \A e \in F : ~(e[2] <= i)
  BY <1>3
<1>8. ReadSoFar(f, n, i + 1) = ReadSoFar(f, n, i) \cup F
  <2>1. \A e : e \in ReadSoFar(f, n, i + 1) <=>
          e \in IndexEntries(f) /\ (before(e) \/ (e[1] = q /\ e[2] <= i + 1))
    BY DEF ReadSoFar, q
  <2>2. \A e : e \in ReadSoFar(f, n, i) <=>
          e \in IndexEntries(f) /\ (before(e) \/ (e[1] = q /\ e[2] <= i))
    BY DEF ReadSoFar, q
  <2>. HIDE DEF before
  <2>3. \A e : e \in ReadSoFar(f, n, i + 1) <=> e \in ReadSoFar(f, n, i) \/ e \in F
    BY <1>3, <1>4, <1>6, <2>1, <2>2
  <2>. QED
    BY <2>3
<1>9. ReadSoFar(f, n, i) \cap F = {}
  <2>1. \A e : e \in ReadSoFar(f, n, i) => before(e) \/ e[2] <= i
    BY DEF ReadSoFar
  <2>. HIDE DEF before
  <2>. QED
    BY <1>3, <1>7, <2>1
<1>. QED
  BY <1>8, <1>9 DEF F, q

-----------------------------------------------------------------------------
(* Reading a packet by its offset, and the entries of a node.               *)

LEMMA PacketIsRead ==
  ASSUME NEW f \in Files, Sound(f), NEW r \in Reader, NEW q \in f.pkts
  PROVE  /\ HeaderSearch(f, Seek(r, q), q) = {FoundAt(f, q)}
         /\ NextOutcome(f, Seek(r, q)) = FoundAt(f, q)
         /\ DataOutcome(f, FoundAt(f, q).rd).status = "OK"
<1>1. Good(f, q) /\ q \in Nat
  BY TilingFacts DEF Sound, Recording
<1>. DEFINE s == Seek(r, q)
<1>2. NextOffset(s) = q /\ SkipToNext(s) = s
  <2>1. s.state = "Unsynced" /\ s.pos = q
    BY <1>1, SeekFacts
  <2>. HIDE DEF s
  <2>. QED
    BY <2>1 DEF NextOffset, SkipToNext
<1>3. NextOutcome(f, s) \in HeaderSearch(f, s, q)
  <2>1. InStep(f, s)
    BY <1>1, SeekFacts
  <2>. HIDE DEF s
  <2>. QED
    BY <1>2, <2>1, NextOutcomeFacts
<1>. QED
  BY <1>1, <1>3, SearchAtGood, DataOfPacket

LEMMA IndexPacketIsRead ==
  ASSUME NEW f \in Files, Sound(f), NEW r \in Reader, NEW q \in f.pkts,
         Content(f, q).type = "INDEX", ~Content(f, q).short
  PROVE  IndexPacket(f, r, q) = {[status |-> "OK", body |-> Content(f, q)]}
<1>. DEFINE o == FoundAt(f, q)
<1>1. o.status = "OK" /\ o.at = q /\ DataOutcome(f, o.rd).status = "OK"
  BY PacketIsRead DEF FoundAt, Outcome
<1>2. HeaderSearch(f, Seek(r, q), q) = {o}
  BY PacketIsRead
<1>. HIDE DEF o
<1>3. PacketRead(o, DataOutcome(f, o.rd), Content(f, o.at)) = [status |-> "OK", body |-> Content(f, q)]
  BY <1>1 DEF PacketRead
<1>. QED
  BY <1>2, <1>3 DEF IndexPacket

\* The entries of a node of an indexed recording are what the recorder put there, with the
\* clock's time of their packets.
LEMMA NodesAreRecorded ==
  ASSUME NEW f \in Files, Indexed(f), rd \in Reader, NEW t, KeepsTime(f, t),
         NEW q \in RootChain(f), NEW i \in 1..(Len(Content(f, q).msgs) - 1)
  PROVE  LET p == Content(f, q).msgs[i].at
             new == Nodes(f, t, Content(f, p))
         IN /\ p \in f.pkts /\ Content(f, p).type = "INDEX"
            /\ Content(f, p).node /\ ~Content(f, p).short
            /\ new \in Seq(TableEntry) /\ Len(new) = Len(Content(f, p).msgs)
            /\ \A j \in 1..Len(new) : Recorded(f, new[j], <<q, i, j>>)
<1>. DEFINE p == Content(f, q).msgs[i].at
            body == Content(f, p)
            new == Nodes(f, t, body)
<1>1. Sound(f) /\ \A s \in f.pkts : s \in DOMAIN f.cand
  BY TilingFacts DEF Indexed, Sound, Recording
<1>2. /\ p \in f.pkts /\ body.type = "INDEX" /\ body.node = TRUE /\ ~body.short
  BY DEF Indexed
<1>. HIDE DEF p
<1>3. /\ body.msgs \in Seq(Message) /\ body.intra \in BOOLEAN
      /\ DOMAIN body.msgs = 1..Len(body.msgs) /\ Len(body.msgs) \in Nat
      /\ \A j \in DOMAIN body.msgs : body.msgs[j] \in Message
  <2>1. body.msgs \in Seq(Message) /\ body.intra \in BOOLEAN
    BY <1>1, <1>2, RecordingAssumption DEF Body
  <2>. HIDE DEF body
  <2>. QED
    BY <2>1
<1>4. ASSUME NEW j \in DOMAIN body.msgs
      PROVE  LET m == body.msgs[j]
                 x == Node(f, t, body, m)
             IN x \in TableEntry /\ Recorded(f, x, <<q, i, j>>)
  <2>. DEFINE m == body.msgs[j]
              e == <<q, i, j>>
              c == Content(f, m.at)
              x == Node(f, t, body, m)
  <2>1. e \in IndexEntries(f)
    BY EntryIs DEF p
  <2>2. EntryOf(f, e) = m
    BY DEF EntryOf, p
  <2>3. /\ m.at \in f.pkts /\ m.chan = c.chan /\ m.type = c.type
        /\ m.time = c.time /\ m.abs = c.abs
    BY <2>1, <2>2 DEF Indexed
  <2>4. m \in Message
    BY <1>3
  <2>. HIDE DEF m, e, body
  <2>5. AbsTime(f, t, body, m) = c.abs
    <3>. DEFINE o == NextOutcome(f, Seek(rd, m.at))
    <3>1. o = FoundAt(f, m.at) /\ DataOutcome(f, o.rd).status = "OK"
      BY <1>1, <2>3, PacketIsRead
    <3>. HIDE DEF o
    <3>2. o.status = "OK" /\ o.at = m.at
      BY <3>1 DEF FoundAt, Outcome
    <3>3. CASE body.intra
      BY <2>3, <3>3 DEF AbsTime
    <3>4. CASE ~body.intra /\ m.type = "TIME"
      <4>1. IsTime(f, o.at)
        BY <2>3, <3>2, <3>4 DEF IsTime
      <4>. QED
        BY <3>1, <3>2, <3>4, <4>1 DEF AbsTime, o
    <3>5. CASE ~body.intra /\ m.type # "TIME"
      BY <2>3, <3>5 DEF AbsTime, KeepsTime
    <3>. QED
      BY <3>3, <3>4, <3>5
  <2>6. x = [chan |-> m.chan, type |-> m.type, at |-> m.at, time |-> m.time, abs |-> c.abs]
    BY <2>5 DEF Node
  <2>7. c.abs \in Nat
    BY <1>1, <2>3, RecordingAssumption DEF Body
  <2>. HIDE DEF x, c
  <2>8. x \in TableEntry
    BY <2>4, <2>6, <2>7 DEF TableEntry, Message
  <2>9. Recorded(f, x, e)
    <3>1. x.at = m.at /\ x.time = m.time /\ x.abs = c.abs
      BY <2>6
    <3>. QED
      BY <2>2, <3>1 DEF Recorded, c
  <2>. QED
    BY <2>8, <2>9 DEF x, e, m
<1>5. new = [j \in 1..Len(body.msgs) |-> Node(f, t, body, body.msgs[j])]
  BY <1>3 DEF Nodes
<1>. HIDE DEF new, body
<1>6. new \in [1..Len(body.msgs) -> TableEntry]
  BY <1>3, <1>4, <1>5
<1>7. new \in Seq(TableEntry) /\ Len(new) = Len(body.msgs)
  BY <1>3, <1>6
<1>8. \A j \in 1..Len(new) : Recorded(f, new[j], <<q, i, j>>)
  BY <1>3, <1>4, <1>5, <1>7
<1>. QED
  BY <1>2, <1>7, <1>8 DEF new, body, p

-----------------------------------------------------------------------------
(* The invariant of reading an index, which goes on over many steps.        *)

\* The loop is at root n of the chain, with the messages before job.done of it read.
AtRoot(n) ==
  /\ \E m : EndsAt(file, m) /\ n \in 0..m
  /\ job.at = Root(file)[n]
  /\ job.done \in Nat /\ job.done < Len(Content(file, job.at).msgs)
  /\ Records(file, tbl.nodes, ReadSoFar(file, n, job.done))

JobRecords ==
  (job.on /\ call.fresh /\ Readable(file)) => KeepsTime(file, tref) /\ \E n \in Nat : AtRoot(n)

ReadInv == "nodes" \in DOMAIN tbl /\ JobRecords /\ IndexIsRecorded

LEMMA StartRecords ==
  ASSUME RecInv, ReadInv, ReadIndexes PROVE ReadInv'
<1>1. /\ UNCHANGED <<file, mode>> /\ file \in Files /\ InStep(file, rd) /\ ~job.on
      /\ tbl' = Ready(tbl)
  BY DEF RecInv, ReaderInv, ReadIndexes
<1>2. "nodes" \in DOMAIN tbl'
  BY <1>1 DEF Ready, EmptyTable, ReadInv
<1>3. IndexIsRecorded'
  BY DEF ReadIndexes, Returned, IndexIsRecorded
<1>4. ASSUME job'.on, call'.fresh, Readable(file)
      PROVE  KeepsTime(file, tref') /\ \E n \in Nat : AtRoot(n)'
  <2>0. Indexed(file) /\ Timed(file) /\ Sound(file)
    BY <1>1, <1>4, ChainFacts DEF Readable
  <2>1. PICK o \in FindTimePacket(file, rd, tref), junk \in Offsets :
          LET last == LastOutcome(file, o.rd) IN
          /\ tref' = o.tref
          /\ job' = [on |-> last.status # "ABORT", at |-> last.rd.pos, done |-> 0,
                     next |-> junk, start |-> rd.pos]
          /\ call' = CallOn(Ready(tbl), 0)
    BY <1>1, <1>4 DEF ReadIndexes
  <2>. DEFINE z == LastPacket(file)
  <2>2. /\ Root(file)[0] = z /\ z \in RootChain(file)
        /\ \E m : EndsAt(file, m)
    <3>1. Root(file)[0] = z /\ Cardinality(file.pkts) \in Nat
          /\ RootChain(file) = {Root(file)[n] : n \in 0..Cardinality(file.pkts)}
      BY <1>1, <2>0, RootFacts
    <3>2. 0 \in 0..Cardinality(file.pkts)
      BY <3>1
    <3>. QED
      BY <1>1, <2>0, <3>1, <3>2, ChainFacts
  <2>3. /\ z \in file.pkts /\ z \in Nat /\ file.cand[z].len > HEADER_SIZE
        /\ Content(file, z).msgs # <<>>
    BY <1>1, <2>0, <2>2, ChainFacts
  <2>4. KeepsTime(file, tref')
    BY <1>1, <2>0, <2>1, <2>3, FindsTime
  <2>5. job'.at = z /\ job'.done = 0
    <3>1. InStep(file, o.rd) /\ o.rd \in Reader
      BY <1>1, FindKeepsPlace DEF InStep
    <3>2. LastOutcome(file, o.rd).rd = Seek(o.rd, z)
      BY <1>1, <2>0, <2>3, LastIsFound DEF Outcome
    <3>3. Seek(o.rd, z).pos = z
      BY <2>3, <3>1, SeekFacts
    <3>. QED
      BY <2>1, <3>2, <3>3
  <2>6. tbl'.nodes = <<>>
    BY <1>1, <1>4, <2>1 DEF CallOn
  <2>7. 0 < Len(Content(file, z).msgs)
    <3>1. Content(file, z).msgs \in Seq(Message)
      BY <1>1, <2>0, <2>3, TilingFacts, RecordingAssumption DEF Sound, Recording, Body
    <3>. QED
      BY <2>3, <3>1
  <2>8. PICK m : EndsAt(file, m) /\ 0 \in 0..m
    <3>1. PICK m : EndsAt(file, m)
      BY <2>2
    <3>2. m \in Nat
      BY <1>1, <2>0, <3>1, RootFacts DEF EndsAt
    <3>3. 0 \in 0..m
      BY <3>2
    <3>. QED
      BY <3>1, <3>3
  <2>9. Records(file, tbl'.nodes, ReadSoFar(file, 0, 0))
    BY <2>6, SoFarNone, RecordsNone
  <2>. HIDE DEF z
  <2>10. AtRoot(0)'
    BY <1>1, <2>2, <2>5, <2>7, <2>8, <2>9 DEF AtRoot
  <2>. QED
    BY <2>4, <2>10
<1>5. JobRecords'
  BY <1>1, <1>4 DEF JobRecords
<1>. QED
  BY <1>2, <1>3, <1>5 DEF ReadInv

\* The end of the loop at the last root.
LEMMA EndRecords ==
  ASSUME NEW E, file \in Files, Readable(file), "nodes" \in DOMAIN tbl, UNCHANGED file,
         Records(file, tbl.nodes, E), E = IndexEntries(file), tbl' \in Sorted(tbl)
  PROVE  IndexIsRecorded'
<1>. DEFINE ns == tbl.nodes
            n == Len(ns)
<1>1. PICK p \in Bijection(1..n, 1..n) :
        LET s == [i \in 1..n |-> ns[p[i]]] IN
        /\ tbl' = [tbl EXCEPT !.nodes = s]
        /\ \A i, j \in 1..n : i < j => s[i].time <= s[j].time
  BY DEF Sorted
<1>. DEFINE s == [i \in 1..n |-> ns[p[i]]]
<1>2. tbl'.nodes = s /\ DOMAIN s = 1..n /\ \A i, j \in 1..n : i < j => s[i].time <= s[j].time
  BY <1>1
<1>3. Records(file, s, E)
  BY RecordsReordered
<1>. HIDE DEF s, n
<1>4. /\ Len(s) = Cardinality(E)
      /\ {s[i].at : i \in DOMAIN s} = {EntryOf(file, e).at : e \in E}
      /\ \A i \in DOMAIN s : s[i].abs = Content(file, s[i].at).abs /\ s[i].time \in Nat
  BY <1>3, RecordsAll
<1>. QED
  BY <1>2, <1>4 DEF IndexIsRecorded

LEMMA TableStays ==
  ASSUME RootStep, "nodes" \in DOMAIN tbl PROVE "nodes" \in DOMAIN tbl'
<1>1. tbl' = tbl \/ tbl' \in Sorted(tbl) \/ \E new : tbl' = AddNodes(tbl, new)
  <2>1. ASSUME NEW status, EndReadIndexes(status) PROVE tbl' \in Sorted(tbl)
    BY <2>1 DEF EndReadIndexes
  <2>2. ASSUME NEW next, GoToRoot(next) PROVE tbl' = tbl \/ tbl' \in Sorted(tbl)
    BY <2>1, <2>2 DEF GoToRoot
  <2>3. ASSUME NEW q, RootMessage(q)
        PROVE  tbl' = tbl \/ tbl' \in Sorted(tbl) \/ \E new : tbl' = AddNodes(tbl, new)
    BY <2>1, <2>3 DEF RootMessage
  <2>. QED
    BY <2>1, <2>2, <2>3 DEF RootStep
<1>2. CASE tbl' \in Sorted(tbl)
  <2>1. \E s : tbl' = [tbl EXCEPT !.nodes = s]
    BY <1>2 DEF Sorted
  <2>. QED
    BY <2>1
<1>3. ASSUME NEW new, tbl' = AddNodes(tbl, new) PROVE "nodes" \in DOMAIN tbl'
  BY <1>3 DEF AddNodes
<1>. QED
  BY <1>1, <1>2, <1>3

\* A message of a root: the node it names is read, or the program ends.
LEMMA MessageRecords ==
  ASSUME RecInv, job.on, Readable(file), UNCHANGED <<file, tref, call>>,
         "nodes" \in DOMAIN tbl, KeepsTime(file, tref), NEW n \in Nat, AtRoot(n),
         job.done < Len(Content(file, job.at).msgs) - 1,
         RootMessage(Content(file, job.at).msgs[job.done + 1].at)
  PROVE  JobRecords' /\ IndexIsRecorded'
<1>. DEFINE q == job.at
            i == job.done + 1
            at == Content(file, q).msgs[i].at
            new == Nodes(file, tref, Content(file, at))
<1>1. file \in Files /\ rd \in Reader /\ Indexed(file) /\ Sound(file)
  BY ChainFacts DEF RecInv, ReaderInv, InStep, Readable
<1>2. PICK m : EndsAt(file, m) /\ n \in 0..m
  BY DEF AtRoot
<1>3. /\ q = Root(file)[n] /\ q \in RootChain(file) /\ job.done \in Nat
      /\ Content(file, q).msgs \in Seq(Message) /\ i \in 1..(Len(Content(file, q).msgs) - 1)
  <2>1. q = Root(file)[n] /\ q \in RootChain(file)
    BY <1>1, <1>2, ChainFacts DEF AtRoot
  <2>2. q \in file.pkts
    BY <1>1, <2>1, ChainFacts
  <2>3. Content(file, q).msgs \in Seq(Message)
    BY <1>1, <2>2, TilingFacts, RecordingAssumption DEF Sound, Recording, Body
  <2>. QED
    BY <2>1, <2>3 DEF AtRoot
<1>4. /\ at \in file.pkts /\ Content(file, at).type = "INDEX"
      /\ Content(file, at).node /\ ~Content(file, at).short
      /\ new \in Seq(TableEntry) /\ Len(new) = Len(Content(file, at).msgs)
      /\ \A j \in 1..Len(new) : Recorded(file, new[j], <<q, i, j>>)
  <2>. HIDE DEF q, i
  <2>. QED
    BY <1>1, <1>3, NodesAreRecorded
<1>5. IndexPacket(file, rd, at) = {[status |-> "OK", body |-> Content(file, at)]}
  <2>. HIDE DEF at
  <2>. QED
    BY <1>1, <1>4, IndexPacketIsRead
<1>6. \/ /\ tbl' = AddNodes(tbl, new) /\ job' = [job EXCEPT !.done = @ + 1]
         /\ UNCHANGED <<rd, ret>>
      \/ ret' = Returned("Index", "ABORT", NoHeader) /\ UNCHANGED <<rd, tbl, job>>
  <2>. DEFINE p == [status |-> "OK", body |-> Content(file, at)]
  <2>1. PICK status : /\ status = NodeStatus(tref, p)
                      /\ \/ /\ status = "OK"
                            /\ tbl' = AddNodes(tbl, Nodes(file, tref, p.body))
                            /\ job' = [job EXCEPT !.done = @ + 1]
                            /\ UNCHANGED <<rd, ret>>
                         \/ /\ status = "ABORT"
                            /\ ret' = Returned("Index", "ABORT", NoHeader)
                            /\ UNCHANGED <<rd, tbl, job>>
                         \/ status \notin {"OK", "ABORT"} /\ EndReadIndexes(status)
    <3>. HIDE DEF at
    <3>1. RootMessage(at)
      BY DEF at, q, i
    <3>. QED
      BY <1>5, <3>1 DEF RootMessage
  <2>2. p.body = Content(file, at) /\ p.status = "OK"
    OBVIOUS
  <2>. HIDE DEF p, at
  <2>3. NodeStatus(tref, p) \in {"OK", "ABORT"}
    BY <1>4, <2>2 DEF NodeStatus
  <2>. QED
    BY <2>1, <2>2, <2>3
<1>7. DOMAIN job = {"on", "at", "done", "next", "start"} /\ ret.op # "ReadIndexes"
  BY DEF RecInv, JobReturns
<1>8. IndexIsRecorded'
  <2>1. ret'.op # "ReadIndexes"
    BY <1>6, <1>7 DEF Returned
  <2>. QED
    BY <2>1 DEF IndexIsRecorded
<1>9. CASE ret' = Returned("Index", "ABORT", NoHeader) /\ UNCHANGED <<rd, tbl, job>>
  <2>1. AtRoot(n)'
    BY <1>9 DEF AtRoot
  <2>2. KeepsTime(file, tref)'
    OBVIOUS
  <2>. QED
    BY <1>8, <2>1, <2>2 DEF JobRecords
<1>10. CASE tbl' = AddNodes(tbl, new) /\ job' = [job EXCEPT !.done = @ + 1]
  <2>. DEFINE F == {<<q, i, j>> : j \in DOMAIN Content(file, at).msgs}
  <2>1. /\ ReadSoFar(file, n, i) = ReadSoFar(file, n, job.done) \cup F
        /\ ReadSoFar(file, n, job.done) \cap F = {}
    <3>1. job.done < Len(Content(file, Root(file)[n]).msgs) - 1
      BY <1>3
    <3>. DEFINE r == Root(file)[n]
                G == {<<r, job.done + 1, j>> :
                        j \in DOMAIN Content(file, Content(file, r).msgs[job.done + 1].at).msgs}
    <3>2. /\ ReadSoFar(file, n, job.done + 1) = ReadSoFar(file, n, job.done) \cup G
          /\ ReadSoFar(file, n, job.done) \cap G = {}
      BY <1>1, <1>2, <1>3, <3>1, SoFarMore
    <3>3. F = G
      BY <1>3
    <3>. QED
      BY <3>2, <3>3
  <2>. DEFINE c == [j \in 1..Len(new) |-> <<q, i, j>>]
  <2>2. Content(file, at).msgs \in Seq(Message)
    BY <1>1, <1>4, TilingFacts, RecordingAssumption DEF Sound, Recording, Body
  <2>3. DOMAIN Content(file, at).msgs = 1..Len(new)
    BY <1>4, <2>2
  <2>4. c \in Bijection(1..Len(new), F) /\ \A j \in 1..Len(new) : c[j] = <<q, i, j>>
    <3>. HIDE DEF q, i, at, new
    <3>1. \A j \in 1..Len(new) : c[j] = <<q, i, j>>
      OBVIOUS
    <3>2. c \in [1..Len(new) -> F]
      BY <2>3
    <3>. HIDE DEF c
    <3>. QED
      BY <2>3, <3>1, <3>2 DEF Bijection, Injection, IsInjective, Surjection
  <2>5. Records(file, tbl.nodes, ReadSoFar(file, n, job.done))
    BY DEF AtRoot
  <2>6. Records(file, tbl.nodes \o new, ReadSoFar(file, n, job.done) \cup F)
    <3>1. \A j \in 1..Len(new) : Recorded(file, new[j], c[j])
      <4>. HIDE DEF c, q, i, at, new
      <4>. QED
        BY <1>4, <2>4
    <3>. HIDE DEF c, F, q, i, at, new
    <3>. QED
      BY <1>4, <2>1, <2>4, <2>5, <3>1, RecordsMore
  <2>7. /\ tbl'.nodes = tbl.nodes \o new
        /\ job'.at = job.at /\ job'.done = i
    <3>. HIDE DEF new
    <3>. QED
      BY <1>7, <1>10 DEF AddNodes
  <2>8. i \in Nat /\ i < Len(Content(file, q).msgs)
    BY <1>3
  <2>9. Records(file, tbl'.nodes, ReadSoFar(file, n, i))
    <3>. HIDE DEF F, new, i
    <3>. QED
      BY <2>1, <2>6, <2>7
  <2>10. AtRoot(n)'
    <3>1. job'.at = Root(file)[n]
      BY <1>3, <2>7
    <3>. HIDE DEF i
    <3>. QED
      BY <1>2, <2>7, <2>8, <2>9, <3>1 DEF AtRoot
  <2>11. KeepsTime(file, tref)'
    OBVIOUS
  <2>. QED
    BY <1>8, <2>10, <2>11 DEF JobRecords
<1>. QED
  BY <1>6, <1>9, <1>10

\* The last message of a root: the next root is read, or this was the last one.
LEMMA LinkRecords ==
  ASSUME RecInv, job.on, Readable(file), UNCHANGED <<file, tref, call>>,
         "nodes" \in DOMAIN tbl, KeepsTime(file, tref), NEW n \in Nat, AtRoot(n),
         job.done = Len(Content(file, job.at).msgs) - 1,
         GoToRoot(Last(Content(file, job.at).msgs).at)
  PROVE  JobRecords' /\ IndexIsRecorded'
<1>. DEFINE q == job.at
            next == Last(Content(file, q).msgs).at
<1>1. file \in Files /\ Indexed(file) /\ Sound(file)
  BY ChainFacts DEF RecInv, ReaderInv, Readable
<1>2. PICK m : EndsAt(file, m) /\ n \in 0..m
  BY DEF AtRoot
<1>3. q = Root(file)[n] /\ q \in RootChain(file) /\ next = Link(file)[q]
  BY <1>1, <1>2, ChainFacts DEF AtRoot
<1>4. Records(file, tbl.nodes, ReadSoFar(file, n + 1, 0))
  <2>1. Records(file, tbl.nodes, ReadSoFar(file, n, Len(Content(file, Root(file)[n]).msgs) - 1))
    BY <1>3 DEF AtRoot
  <2>. QED
    BY <2>1, SoFarRoot
<1>5. m \in 0..Cardinality(file.pkts) /\ Cardinality(file.pkts) \in Nat
  BY <1>1, <1>2, RootFacts DEF EndsAt
<1>6. CASE next = q
  <2>1. n = m
    <3>1. ~(n \in 0..(m - 1))
      BY <1>2, <1>3, <1>6 DEF EndsAt
    <3>. QED
      BY <1>2, <1>5, <3>1
  <2>2. ReadSoFar(file, n + 1, 0) = IndexEntries(file)
    BY <1>1, <1>2, <2>1, SoFarAll
  <2>3. EndReadIndexes("OK")
    BY <1>6 DEF GoToRoot
  <2>4. tbl' \in Sorted(tbl) /\ job' = NoJob
    BY <2>3 DEF EndReadIndexes
  <2>5. IndexIsRecorded'
    BY <1>1, <1>4, <2>2, <2>4, EndRecords
  <2>. QED
    BY <2>4, <2>5 DEF JobRecords, NoJob
<1>7. CASE next # q
  <2>1. job' = [job EXCEPT !.at = next, !.next = next, !.done = 0] /\ UNCHANGED <<rd, tbl, ret>>
    BY <1>7 DEF GoToRoot
  <2>2. DOMAIN job = {"on", "at", "done", "next", "start"} /\ ret.op # "ReadIndexes"
    BY DEF RecInv, JobReturns
  <2>3. job'.at = next /\ job'.done = 0
    <3>. HIDE DEF next
    <3>. QED
      BY <2>1, <2>2
  <2>4. n # m
    BY <1>2, <1>3, <1>7 DEF EndsAt
  <2>5. n + 1 \in 0..m /\ n + 1 \in 1..Cardinality(file.pkts) /\ (n + 1) - 1 = n
    BY <1>2, <1>5, <2>4
  <2>6. next = Root(file)[n + 1]
    BY <1>1, <1>3, <2>5, RootFacts
  <2>7. next \in RootChain(file)
    BY <1>1, <1>5, <2>5, <2>6, RootFacts
  <2>8. 0 < Len(Content(file, next).msgs)
    <3>. HIDE DEF next
    <3>1. next \in file.pkts /\ Content(file, next).msgs # <<>>
      BY <1>1, <2>7, ChainFacts
    <3>2. Content(file, next).msgs \in Seq(Message)
      BY <1>1, <3>1, TilingFacts, RecordingAssumption DEF Sound, Recording, Body
    <3>. QED
      BY <3>1, <3>2
  <2>9. AtRoot(n + 1)'
    <3>. HIDE DEF next
    <3>1. tbl' = tbl
      BY <2>1
    <3>. QED
      BY <1>2, <1>4, <2>3, <2>5, <2>6, <2>8, <3>1 DEF AtRoot
  <2>10. KeepsTime(file, tref)' /\ n + 1 \in Nat
    OBVIOUS
  <2>11. IndexIsRecorded'
    BY <2>1, <2>2 DEF IndexIsRecorded
  <2>. QED
    BY <2>9, <2>10, <2>11 DEF JobRecords
<1>. QED
  BY <1>6, <1>7

LEMMA RootRecords ==
  ASSUME RecInv, ReadInv, RootStep PROVE ReadInv'
<1>1. /\ job.on /\ UNCHANGED <<file, mode, inited, tref, call>>
      /\ "nodes" \in DOMAIN tbl /\ "nodes" \in DOMAIN tbl'
  BY TableStays DEF RootStep, ReadInv
<1>2. CASE ~(call.fresh /\ Readable(file))
  BY <1>1, <1>2 DEF ReadInv, JobRecords, IndexIsRecorded, Readable
<1>3. CASE call.fresh /\ Readable(file)
  <2>1. KeepsTime(file, tref)
    BY <1>1, <1>3 DEF ReadInv, JobRecords
  <2>2. PICK n \in Nat : AtRoot(n)
    BY <1>1, <1>3 DEF ReadInv, JobRecords
  <2>. DEFINE q == job.at
  <2>3. /\ q \in file.pkts /\ Content(file, q).type = "INDEX" /\ ~Content(file, q).node
        /\ ~Content(file, q).short /\ Content(file, q).msgs # <<>>
    <3>1. file \in Files /\ Indexed(file)
      BY <1>3 DEF RecInv, ReaderInv, Readable
    <3>2. q \in RootChain(file)
      BY <2>2, <3>1, ChainFacts DEF AtRoot
    <3>. QED
      BY <3>1, <3>2, ChainFacts
  <2>4. IndexPacket(file, rd, q) = {[status |-> "OK", body |-> Content(file, q)]}
    <3>1. file \in Files /\ Sound(file) /\ rd \in Reader
      BY <1>3, ChainFacts DEF RecInv, ReaderInv, InStep, Readable
    <3>. HIDE DEF q
    <3>. QED
      BY <2>3, <3>1, IndexPacketIsRead
  <2>5. \/ /\ job.done < Len(Content(file, q).msgs) - 1
           /\ RootMessage(Content(file, q).msgs[job.done + 1].at)
        \/ /\ job.done = Len(Content(file, q).msgs) - 1
           /\ GoToRoot(Last(Content(file, q).msgs).at)
    <3>1. PICK p \in IndexPacket(file, rd, q) :
            \/ p.status # "OK"
            \/ p.status = "OK" /\ p.body.msgs = <<>>
            \/ p.status = "OK" /\ p.body.msgs # <<>> /\ p.body.node
            \/ /\ job.done < Len(p.body.msgs) - 1
               /\ RootMessage(p.body.msgs[job.done + 1].at)
            \/ /\ job.done = Len(p.body.msgs) - 1
               /\ GoToRoot(Last(p.body.msgs).at)
      BY DEF RootStep
    <3>2. p.status = "OK" /\ p.body = Content(file, q)
      BY <2>4
    <3>. QED
      BY <2>3, <3>1, <3>2
  <2>6. JobRecords' /\ IndexIsRecorded'
    BY <1>1, <1>3, <2>1, <2>2, <2>5, MessageRecords, LinkRecords
  <2>. QED
    BY <1>1, <2>6 DEF ReadInv
<1>. QED
  BY <1>2, <1>3

LEMMA ReadStays ==
  ASSUME RecInv, ReadInv, [RecNext]_allvars PROVE ReadInv'
<1>1. ASSUME UNCHANGED job, ~job.on, ret'.op # "ReadIndexes", "nodes" \in DOMAIN tbl'
      PROVE  ReadInv'
  BY <1>1 DEF ReadInv, JobRecords, IndexIsRecorded
<1>2. CASE ReaderCall
  <2>1. \E op \in {"Open", "Close", "ReadNextHeader", "ReadData"} : \E st, at : ret' = Returned(op, st, at)
    BY <1>2 DEF ReaderCall, Open, OpenFile, Close, ReadNextHeader, ReadData
  <2>2. ret'.op # "ReadIndexes"
    BY <2>1 DEF Returned
  <2>3. UNCHANGED <<job, tbl>> /\ ~job.on
    BY <1>2 DEF ReaderCall
  <2>. QED
    BY <1>1, <2>2, <2>3 DEF ReadInv
<1>3. CASE InitIndex
  <2>1. UNCHANGED job /\ ~job.on /\ ret'.op # "ReadIndexes" /\ "nodes" \in DOMAIN tbl'
    BY <1>3 DEF InitIndex, Returned, EmptyTable
  <2>. QED
    BY <1>1, <2>1
<1>4. ASSUME NEW ch, MakeIndex(ch) PROVE ReadInv'
  <2>1. UNCHANGED job /\ ~job.on /\ ret'.op # "ReadIndexes"
    BY <1>4 DEF MakeIndex, Returned
  <2>2. \E new : tbl' = AddNodes(Ready(tbl), new)
    BY <1>4 DEF MakeIndex
  <2>3. "nodes" \in DOMAIN tbl'
    BY <2>2 DEF AddNodes
  <2>. QED
    BY <1>1, <2>1, <2>3
<1>5. CASE IndexPresent
  <2>1. UNCHANGED <<job, tbl>> /\ ~job.on /\ ret'.op # "ReadIndexes"
    BY <1>5 DEF IndexPresent, Returned
  <2>. QED
    BY <1>1, <2>1 DEF ReadInv
<1>6. CASE UNCHANGED allvars
  <2>1. UNCHANGED <<file, ret, tbl, tref, job, call>>
    BY <1>6 DEF allvars, vars, recvars
  <2>. QED
    BY <2>1 DEF ReadInv, JobRecords, IndexIsRecorded, AtRoot
<1>. QED
  BY <1>2, <1>3, <1>4, <1>5, <1>6, StartRecords, RootRecords DEF RecNext

\* When an index was read to its end into an empty table, and the recording is one a recorder
\* indexed and timed, then the table holds each entry of all its nodes once, in the order of
\* time, with the time the clock showed for its packet, whatever was read, opened or indexed
\* with the handle before (enReadIndexes).
THEOREM IndexRecorded == RecSpec => []IndexIsRecorded
<1>1. RecInit => ReadInv
  <2>. SUFFICES ASSUME RecInit PROVE ReadInv
    OBVIOUS
  <2>1. "nodes" \in DOMAIN tbl /\ ~job.on /\ ret.op # "ReadIndexes"
    BY DEF RecInit, Init, Returned, NoJob
  <2>. QED
    BY <2>1 DEF ReadInv, JobRecords, IndexIsRecorded
<1>2. RecInv /\ ReadInv /\ [RecNext]_allvars => ReadInv'
  BY ReadStays
<1>3. ReadInv => IndexIsRecorded
  BY DEF ReadInv
<1>. QED
  BY <1>1, <1>2, <1>3, RecInductive, PTL DEF RecSpec

=============================================================================
