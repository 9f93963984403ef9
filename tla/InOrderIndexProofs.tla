------------------------- MODULE InOrderIndexProofs --------------------------
(***************************************************************************)
(* An index by time lists each packet of a sound recording once, and       *)
(* reading in order returns what it lists, for every set of files, times   *)
(* and sizes of the array.                                                 *)
(***************************************************************************)
EXTENDS InOrderIndex, Ch10ReaderProofs

-----------------------------------------------------------------------------
(* Sequences, and the room made for them.                                   *)

LEMMA FunctionIsSeq ==
  ASSUME NEW S, NEW n \in Nat, NEW e \in [1..n -> S]
  PROVE  e \in Seq(S) /\ Len(e) = n /\ DOMAIN e = 1..n
OBVIOUS

LEMMA PrefixFacts ==
  ASSUME NEW S, NEW s \in Seq(S), NEW n \in Nat, n <= Len(s)
  PROVE  LET t == SubSeq(s, 1, n) IN
         /\ t \in Seq(S) /\ Len(t) = n /\ DOMAIN t = 1..n
         /\ \A i \in 1..n : t[i] = s[i]
OBVIOUS

LEMMA JoinedFacts ==
  ASSUME NEW S, NEW s \in Seq(S), NEW t \in Seq(S)
  PROVE  /\ s \o t \in Seq(S) /\ Len(s \o t) = Len(s) + Len(t)
         /\ \A i \in 1..Len(s) : (s \o t)[i] = s[i]
         /\ \A i \in 1..Len(t) : (s \o t)[Len(s) + i] = t[i]
OBVIOUS

\* A whole number of chunks is enough for what is short.
LEMMA ChunksFit ==
  ASSUME NEW short \in Nat
  PROVE  LET k == ((short + CHUNK - 1) \div CHUNK) * CHUNK IN
         k \in Nat /\ k >= short
<1>1. CHUNK \in Nat /\ CHUNK > 0
  BY IndexAssumption
<1>. DEFINE d == (short + CHUNK - 1) \div CHUNK
<1>2. d \in Nat /\ d * CHUNK + CHUNK > short + CHUNK - 1
  BY <1>1
<1>3. d * CHUNK \in Nat
  BY <1>1, <1>2
<1>. QED
  BY <1>1, <1>2, <1>3

LEMMA JunksFacts ==
  ASSUME NEW S, Junk \in S, NEW n \in Nat
  PROVE  Junks(n) \in Seq(S) /\ Len(Junks(n)) = n
<1>1. Junks(n) \in [1..n -> S]
  BY DEF Junks
<1>. QED
  BY <1>1, FunctionIsSeq

-----------------------------------------------------------------------------
(* The array of the index.                                                  *)

Slot == [at : Int, time : Int]

\* An index has the fields it has, and room for the entries it uses.
IsIndex(x) ==
  /\ DOMAIN x = {"arr", "used", "curr", "steps", "sort"}
  /\ x.arr \in Seq(Slot) /\ x.used \in Nat /\ x.used <= Len(x.arr)

LEMMA JunkIsSlot == Junk \in Slot
BY DEF Junk, Slot, NoHeader

\* Only the entries decide, whatever becomes of the other fields.
LEMMA IndexWith ==
  ASSUME NEW x, IsIndex(x), NEW c, NEW k, NEW st
  PROVE  /\ IsIndex([x EXCEPT !.curr = c]) /\ IsIndex([x EXCEPT !.curr = c, !.steps = k])
         /\ IsIndex([x EXCEPT !.sort = st]) /\ IsIndex([x EXCEPT !.curr = c, !.sort = st])
<1>1. IsIndex([x EXCEPT !.curr = c]) /\ IsIndex([x EXCEPT !.sort = st])
  BY DEF IsIndex
<1>2. IsIndex([x EXCEPT !.curr = c, !.steps = k]) /\ IsIndex([x EXCEPT !.curr = c, !.sort = st])
  BY DEF IsIndex
<1>. QED
  BY <1>1, <1>2

LEMMA EmptyIsIndex ==
  ASSUME NEW c, NEW st
  PROVE  /\ IsIndex(EmptyIndex) /\ IsIndex([EmptyIndex EXCEPT !.curr = c])
         /\ IsIndex([EmptyIndex EXCEPT !.curr = c, !.sort = st])
         /\ EmptyIndex.used = 0 /\ [EmptyIndex EXCEPT !.curr = c].used = 0
         /\ [EmptyIndex EXCEPT !.curr = c, !.sort = st].used = 0
<1>1. IsIndex(EmptyIndex) /\ EmptyIndex.used = 0
  <2>1. DOMAIN EmptyIndex = {"arr", "used", "curr", "steps", "sort"}
    BY DEF EmptyIndex
  <2>2. EmptyIndex.arr = <<>> /\ EmptyIndex.used = 0
    BY DEF EmptyIndex
  <2>. QED
    BY <2>1, <2>2 DEF IsIndex
<1>. QED
  BY <1>1, IndexWith DEF IsIndex

\* New entries go behind those that are used.
LEMMA FilledFacts ==
  ASSUME NEW x, IsIndex(x), NEW new \in Seq(Slot)
  PROVE  LET y == Filled(x, new) IN
         /\ IsIndex(y) /\ y.used = x.used + Len(new)
         /\ \A i \in 1..Len(new) : y.arr[x.used + i] = new[i]
<1>. DEFINE used == x.used + Len(new)
            short == IF used > Len(x.arr) THEN used - Len(x.arr) ELSE 0
            room == ((short + CHUNK - 1) \div CHUNK) * CHUNK
            grown == x.arr \o Junks(room)
            arr == [i \in DOMAIN grown |-> IF i \in (x.used + 1)..used THEN new[i - x.used] ELSE grown[i]]
<1>1. x.arr \in Seq(Slot) /\ x.used \in Nat /\ Len(x.arr) \in Nat /\ Len(new) \in Nat
  BY DEF IsIndex
<1>2. short \in Nat /\ used <= Len(x.arr) + short
  BY <1>1
<1>3. room \in Nat /\ room >= short
  <2>. HIDE DEF short
  <2>. QED
    BY <1>2, ChunksFit
<1>4. Filled(x, new) = [x EXCEPT !.used = used, !.arr = arr]
  BY Zenon DEF Filled
<1>. HIDE DEF room
<1>5. /\ grown \in Seq(Slot) /\ Len(grown) \in Nat /\ Len(grown) = Len(x.arr) + room
      /\ DOMAIN grown = 1..Len(grown)
  <2>1. Junks(room) \in Seq(Slot) /\ Len(Junks(room)) = room
    BY <1>3, JunksFacts, JunkIsSlot
  <2>2. grown \in Seq(Slot) /\ Len(grown) = Len(x.arr) + room
    <3>. DEFINE a == x.arr
                j == Junks(room)
    <3>1. a \in Seq(Slot) /\ j \in Seq(Slot) /\ Len(j) = room
      BY <1>1, <2>1
    <3>. HIDE DEF a, j
    <3>2. a \o j \in Seq(Slot) /\ Len(a \o j) = Len(a) + Len(j)
      BY <3>1, JoinedFacts
    <3>. QED
      BY <3>1, <3>2 DEF a, j
  <2>. QED
    BY <2>2
<1>6. used \in Nat /\ used <= Len(grown)
  BY <1>1, <1>2, <1>3, <1>5
<1>. HIDE DEF grown, short, used
<1>7. \A i \in (x.used + 1)..used : i - x.used \in 1..Len(new)
  BY <1>1 DEF used
<1>8. arr \in [1..Len(grown) -> Slot]
  BY <1>1, <1>5, <1>7
<1>9. arr \in Seq(Slot) /\ Len(arr) = Len(grown)
  BY <1>5, <1>8, FunctionIsSeq
<1>10. \A i \in 1..Len(new) : x.used + i \in (x.used + 1)..used /\ x.used + i \in 1..Len(grown)
  BY <1>1, <1>5, <1>6 DEF used
<1>11. \A i \in 1..Len(new) : arr[x.used + i] = new[i]
  <2>. TAKE i \in 1..Len(new)
  <2>1. x.used + i \in (x.used + 1)..used /\ x.used + i \in DOMAIN grown /\ (x.used + i) - x.used = i
    BY <1>1, <1>5, <1>10
  <2>. QED
    BY <2>1
<1>. HIDE DEF arr
<1>12. /\ DOMAIN Filled(x, new) = {"arr", "used", "curr", "steps", "sort"}
       /\ Filled(x, new).arr = arr /\ Filled(x, new).used = used
  BY <1>4 DEF IsIndex
<1>. QED
  BY <1>6, <1>9, <1>11, <1>12 DEF IsIndex, used

\* The entries of an index file go behind the array, which is then longer than what is used.
LEMMA LoadedFacts ==
  ASSUME NEW x, IsIndex(x), NEW es \in Seq(Slot)
  PROVE  LET y == Loaded(x, es) IN
         /\ IsIndex(y) /\ y.curr = x.curr
         /\ x.arr = <<>> => y.used = Len(es) /\ SubSeq(y.arr, 1, y.used) = es
<1>. DEFINE n == Len(es)
            room == CHUNK - (n % CHUNK)
            both == x.arr \o es
            arr == both \o Junks(room)
            used == x.used + n
<1>1. x.arr \in Seq(Slot) /\ x.used \in Nat /\ Len(x.arr) \in Nat /\ n \in Nat /\ x.used <= Len(x.arr)
  BY DEF IsIndex
<1>2. room \in Nat
  BY <1>1, IndexAssumption
<1>3. Loaded(x, es) = [x EXCEPT !.arr = arr, !.used = used]
  BY DEF Loaded
<1>. HIDE DEF room, n
<1>4. both \in Seq(Slot) /\ Len(both) = Len(x.arr) + n
  BY <1>1, JoinedFacts DEF n
<1>. HIDE DEF both
<1>5. /\ arr \in Seq(Slot) /\ Len(arr) = Len(both) + room
      /\ \A i \in 1..Len(both) : arr[i] = both[i]
  <2>1. Junks(room) \in Seq(Slot) /\ Len(Junks(room)) = room
    BY <1>2, JunksFacts, JunkIsSlot
  <2>. QED
    BY <1>4, <2>1, JoinedFacts
<1>. HIDE DEF arr
<1>6. LET y == Loaded(x, es) IN
      /\ DOMAIN y = {"arr", "used", "curr", "steps", "sort"}
      /\ y.arr = arr /\ y.used = used /\ y.curr = x.curr
  BY <1>3 DEF IsIndex
<1>7. used \in Nat /\ used <= Len(arr)
  BY <1>1, <1>2, <1>4, <1>5
<1>8. ASSUME x.arr = <<>> PROVE used = Len(es) /\ SubSeq(arr, 1, used) = es
  <2>1. used = n /\ both = es
    BY <1>1, <1>8 DEF both
  <2>2. SubSeq(arr, 1, n) \in Seq(Slot) /\ Len(SubSeq(arr, 1, n)) = n /\ \A i \in 1..n : SubSeq(arr, 1, n)[i] = arr[i]
    BY <1>1, <1>5, <1>7, <2>1, PrefixFacts
  <2>. QED
    BY <1>5, <2>1, <2>2 DEF n
<1>. HIDE DEF used
<1>. QED
  BY <1>5, <1>6, <1>7, <1>8 DEF IsIndex

\* Where the index is not thrown away its entries stay as they are.
LEMMA PositionedFacts ==
  ASSUME NEW x, IsIndex(x), NEW q
  PROVE  LET y == Positioned(x, q) IN
         /\ IsIndex(y)
         /\ y.used > 0 => y.arr = x.arr /\ y.used = x.used
<1>. DEFINE c == Position(x, q)
<1>1. CASE c = x.used
  <2>1. Positioned(x, q) = [EmptyIndex EXCEPT !.curr = c, !.sort = "SortError"]
    BY <1>1 DEF Positioned
  <2>. HIDE DEF c
  <2>2. /\ IsIndex([EmptyIndex EXCEPT !.curr = c, !.sort = "SortError"])
        /\ [EmptyIndex EXCEPT !.curr = c, !.sort = "SortError"].used = 0
    BY EmptyIsIndex
  <2>. QED
    BY <2>1, <2>2
<1>2. CASE c # x.used
  <2>1. Positioned(x, q) = [x EXCEPT !.curr = c, !.sort = "Sorted"]
    BY <1>2 DEF Positioned
  <2>. HIDE DEF c
  <2>2. IsIndex([x EXCEPT !.curr = c, !.sort = "Sorted"])
    BY IndexWith
  <2>3. /\ [x EXCEPT !.curr = c, !.sort = "Sorted"].arr = x.arr
        /\ [x EXCEPT !.curr = c, !.sort = "Sorted"].used = x.used
    BY DEF IsIndex
  <2>. QED
    BY <2>1, <2>2, <2>3
<1>. QED
  BY <1>1, <1>2

-----------------------------------------------------------------------------
(* The walk over the headers that fills the index.                          *)

NextSteps(f) == [q \in DOMAIN f.cand |-> Following(f, q, FALSE)]

NextWalk(f, r) == HeadersAlong(f, r, NextSteps(f))

LEMMA NextLeads ==
  ASSUME NEW f \in Files
  PROVE  LeadsOn(f, NextSteps(f)) /\ (Sound(f) => LeadsInOrder(f, NextSteps(f)))
<1>1. LeadsOn(f, NextSteps(f))
  BY FollowingIsHeaderOutcome DEF LeadsOn, NextSteps
<1>2. ASSUME Sound(f), NEW q \in f.pkts
      PROVE  /\ IsNextPacket(f, q + 1, NextSteps(f)[q].at)
             /\ NextSteps(f)[q].status \in {"OK", "EOF"}
  <2>1. q \in DOMAIN f.cand
    BY <1>2, TilingFacts DEF Sound, Recording
  <2>2. NextSteps(f)[q] = Following(f, q, FALSE)
    BY <2>1 DEF NextSteps
  <2>. QED
    BY <1>2, <2>2, FollowingIsNext
<1>. QED
  BY <1>1, <1>2 DEF LeadsInOrder

\* The walk of vMakeInOrderIndex is that from the beginning of the file to its end.
LEMMA MakeIsInOrderWalk ==
  ASSUME ReaderInv, MakeInOrderIndex
  PROVE  LET w == NextWalk(file, Seek(rd, 0)) IN
         \/ mode = "READ_IN_ORDER" /\ UNCHANGED <<rd, idx, trail>>
         \/ /\ mode = "READ"
            /\ \E n \in DOMAIN w :
                 LET x == Filled(idx, EntriesOf(file, w, n)) IN
                 /\ w[n] = NoHeader /\ \A k \in 0..(n - 1) : w[k] # NoHeader
                 /\ \/ x.used < 2 /\ UNCHANGED <<rd, idx, trail>>
                    \/ /\ ~(x.used < 2)
                       /\ rd' = Seek(OutcomeAlong(file, Seek(rd, 0), NextSteps(file), n).rd, rd.pos)
                       /\ \E s \in Sorted(x.arr, x.used) :
                            idx' = Positioned([x EXCEPT !.arr = s], rd.pos)
                       /\ trail' = [whole |-> idx.used = 0 /\ idx'.used > 0, of |-> file,
                                    from |-> idx'.curr]
<1>. DEFINE r == Seek(rd, 0)
            next(q) == Following(file, q, FALSE)
            w == Headers(file, r, next)
            ends == FirstStop(w, LAMBDA q : q = NoHeader)
            x(n) == Filled(idx, EntriesOf(file, w, n))
<1>1. file \in Files /\ rd \in Reader
  BY DEF ReaderInv, InStep
<1>2. InStep(file, r)
  BY <1>1, SeekFacts
<1>3. w = NextWalk(file, r)
  <2>. DEFINE N == Cardinality(DOMAIN file.cand)
              a == NextOutcome(file, r).at
              g == [q \in DOMAIN file.cand \cup {NoHeader} |->
                      IF q = NoHeader THEN NoHeader ELSE next(q).at]
  <2>1. w = Walk(N, a, g)
    BY DEF Headers, Walk, IsWalk
  <2>2. g = Steps(file, NextSteps(file))
    BY DEF NextSteps, Steps
  <2>. HIDE DEF g, w, a, N
  <2>. QED
    BY <2>1, <2>2 DEF NextWalk, HeadersAlong, a, N
<1>4. ASSUME NEW n \in ends
      PROVE  /\ n \in DOMAIN w /\ w[n] = NoHeader /\ \A k \in 0..(n - 1) : w[k] # NoHeader
             /\ OutcomeOf(file, r, next, w, n) = OutcomeAlong(file, r, NextSteps(file), n)
  <2>1. n \in DOMAIN w /\ w[n] = NoHeader /\ \A k \in 0..(n - 1) : w[k] # NoHeader
    BY DEF FirstStop
  <2>. HIDE DEF w, ends, r
  <2>2. n # 0 => w[n - 1] \in DOMAIN file.cand
    BY <1>1, <1>2, <1>3, <2>1, NextLeads, AlongOutcomes DEF NextWalk, Good, HeaderOk
  <2>3. OutcomeAlong(file, r, NextSteps(file), n)
          = IF n = 0 THEN NextOutcome(file, r) ELSE next(w[n - 1])
    BY <1>3, <2>2 DEF OutcomeAlong, NextSteps, NextWalk
  <2>4. OutcomeOf(file, r, next, w, n) = IF n = 0 THEN NextOutcome(file, r) ELSE next(w[n - 1])
    BY DEF OutcomeOf
  <2>. QED
    BY <2>1, <2>3, <2>4
<1>5. \/ mode = "READ_IN_ORDER" /\ UNCHANGED <<rd, idx, trail>>
      \/ /\ mode = "READ"
         /\ \E n \in ends :
              \/ x(n).used < 2 /\ UNCHANGED <<rd, idx, trail>>
              \/ /\ ~(x(n).used < 2)
                 /\ \E s \in Sorted(x(n).arr, x(n).used) :
                      /\ rd' = Seek(OutcomeOf(file, r, next, w, n).rd, rd.pos)
                      /\ idx' = Positioned([x(n) EXCEPT !.arr = s], rd.pos)
                      /\ trail' = [whole |-> idx.used = 0 /\ idx'.used > 0, of |-> file,
                                   from |-> idx'.curr]
  BY Zenon DEF MakeInOrderIndex
<1>6. CASE mode = "READ_IN_ORDER" /\ UNCHANGED <<rd, idx, trail>>
  BY <1>6, Zenon
<1>7. CASE ~(mode = "READ_IN_ORDER" /\ UNCHANGED <<rd, idx, trail>>)
  <2>1. PICK n \in ends :
          \/ x(n).used < 2 /\ UNCHANGED <<rd, idx, trail>>
          \/ /\ ~(x(n).used < 2)
             /\ \E s \in Sorted(x(n).arr, x(n).used) :
                  /\ rd' = Seek(OutcomeOf(file, r, next, w, n).rd, rd.pos)
                  /\ idx' = Positioned([x(n) EXCEPT !.arr = s], rd.pos)
                  /\ trail' = [whole |-> idx.used = 0 /\ idx'.used > 0, of |-> file,
                               from |-> idx'.curr]
    BY <1>5, <1>7, Zenon
  <2>. DEFINE y == Filled(idx, EntriesOf(file, NextWalk(file, r), n))
              v == NextWalk(file, r)
              o == OutcomeAlong(file, r, NextSteps(file), n)
  <2>2. x(n) = y /\ OutcomeOf(file, r, next, w, n) = o
    BY <1>3, <1>4
  <2>3. n \in DOMAIN v /\ v[n] = NoHeader /\ \A k \in 0..(n - 1) : v[k] # NoHeader
    <3>. HIDE DEF w, v
    <3>. QED
      BY <1>3, <1>4 DEF v
  <2>4. \/ y.used < 2 /\ UNCHANGED <<rd, idx, trail>>
        \/ /\ ~(y.used < 2)
           /\ rd' = Seek(o.rd, rd.pos)
           /\ \E s \in Sorted(y.arr, y.used) : idx' = Positioned([y EXCEPT !.arr = s], rd.pos)
           /\ trail' = [whole |-> idx.used = 0 /\ idx'.used > 0, of |-> file, from |-> idx'.curr]
    <3>. HIDE DEF x, y, w, o
    <3>. QED
      BY <2>1, <2>2
  <2>5. mode = "READ"
    BY <1>5, <1>7, Zenon
  <2>. QED
    BY <2>3, <2>4, <2>5, Zenon
<1>. QED
  BY <1>6, <1>7, Zenon

-----------------------------------------------------------------------------
(* What an index lists.                                                     *)

\* es has each packet of f once, with the time of its header, sorted but for the first two.
Lists(f, es) ==
  /\ \A i \in DOMAIN es : es[i].at \in f.pkts /\ es[i].time = RefTime(f, es[i].at)
  /\ \A q \in f.pkts : \E i \in DOMAIN es : es[i].at = q
  /\ \A i, j \in DOMAIN es : es[i].at = es[j].at => i = j
  /\ \A i, j \in DOMAIN es : 3 <= i /\ i < j => es[i].time <= es[j].time
  /\ \A i \in {1, 2}, j \in DOMAIN es : i < j => es[i].at < es[j].at

\* w is the packets of f from the first to the last.
Through(f, w, n) ==
  /\ \A k \in 0..(n - 1) : w[k] \in f.pkts
  /\ \A k, l \in 0..(n - 1) : k < l => w[k] < w[l]
  /\ \A q \in f.pkts : \E k \in 0..(n - 1) : w[k] = q

LEMMA EntriesFacts ==
  ASSUME NEW f \in Files, NEW n \in Nat, NEW w, \A k \in 0..(n - 1) : w[k] \in DOMAIN f.cand
  PROVE  LET es == EntriesOf(f, w, n) IN
         /\ es \in Seq(Slot) /\ Len(es) = n
         /\ \A i \in 1..n : es[i].at = w[i - 1] /\ es[i].time = RefTime(f, w[i - 1])
<1>1. \A q \in DOMAIN f.cand : q \in Int /\ RefTime(f, q) \in Int
  BY HeaderFacts, IndexAssumption
<1>2. \A i \in 1..n : i - 1 \in 0..(n - 1)
  OBVIOUS
<1>3. EntriesOf(f, w, n) \in [1..n -> Slot]
  BY <1>1, <1>2 DEF EntriesOf, Slot
<1>4. \A i \in 1..n : EntriesOf(f, w, n)[i] = [at |-> w[i - 1], time |-> RefTime(f, w[i - 1])]
  BY DEF EntriesOf
<1>. QED
  BY <1>3, <1>4, FunctionIsSeq

\* On a sound recording the walk from its beginning goes through all of it, and never finds
\* nothing at once.
LEMMA WalkGoesThrough ==
  ASSUME NEW f \in Files, Sound(f), NEW r \in Reader,
         NEW n \in DOMAIN NextWalk(f, Seek(r, 0)), NextWalk(f, Seek(r, 0))[n] = NoHeader,
         \A k \in 0..(n - 1) : NextWalk(f, Seek(r, 0))[k] # NoHeader
  PROVE  n \in Nat \ {0} /\ Through(f, NextWalk(f, Seek(r, 0)), n)
<1>. DEFINE x == Seek(r, 0)
            w == NextWalk(f, x)
            q1 == NextOutcome(f, x).at
<1>1. InStep(f, x) /\ NextOffset(x) = 0
  BY SeekFacts DEF NextOffset
<1>2. 0 \in f.pkts /\ \A s \in f.pkts : s \in Nat
  BY TilingFacts DEF Sound, Recording, Tiled
<1>3. IsNextPacket(f, 0, q1)
  BY <1>1, NextOutcomeFacts, SearchFindsNext
<1>4. q1 = 0
  BY <1>2, <1>3 DEF IsNextPacket
<1>5. /\ DOMAIN w = 0..Cardinality(DOMAIN f.cand) /\ w[0] = q1
      /\ Cardinality(DOMAIN f.cand) \in Nat
  BY AlongDomain, CandFinite DEF NextWalk
<1>6. \A k \in DOMAIN w :
        /\ w[k] = NoHeader \/ (w[k] \in f.pkts /\ q1 # NoHeader /\ q1 <= w[k])
        /\ \A s \in f.pkts : (q1 # NoHeader /\ q1 <= s /\ (w[k] = NoHeader \/ s < w[k]))
                               => \E j \in 0..(k - 1) : w[j] = s
        /\ w[k] # NoHeader => \A j \in 0..(k - 1) : w[j] \in f.pkts /\ w[j] < w[k]
  BY <1>1, NextLeads, AlongInOrder DEF NextWalk
<1>7. n \in DOMAIN w /\ w[n] = NoHeader /\ \A k \in 0..(n - 1) : w[k] # NoHeader
  OBVIOUS
<1>. HIDE DEF w, q1
<1>8. n \in Nat \ {0} /\ \A k \in 0..(n - 1) : k \in DOMAIN w
  BY <1>4, <1>5, <1>7 DEF NoHeader
<1>9. \A k \in 0..(n - 1) : w[k] \in f.pkts
  BY <1>6, <1>7, <1>8
<1>10. \A k, l \in 0..(n - 1) : k < l => k \in 0..(l - 1)
  BY <1>8
<1>11. \A k, l \in 0..(n - 1) : k < l => w[k] < w[l]
  BY <1>6, <1>7, <1>8, <1>10
<1>12. \A q \in f.pkts : \E k \in 0..(n - 1) : w[k] = q
  BY <1>2, <1>4, <1>6, <1>7 DEF NoHeader
<1>. QED
  BY <1>8, <1>9, <1>11, <1>12 DEF Through, w

LEMMA SortedIsSeq ==
  ASSUME NEW arr \in Seq(Slot), NEW n \in Nat, n <= Len(arr), NEW s \in Sorted(arr, n)
  PROVE  s \in Seq(Slot) /\ Len(s) = Len(arr)
<1>1. PICK p \in Bijection(3..n, 3..n) :
        s = [i \in DOMAIN arr |-> IF i \in 3..n THEN arr[p[i]] ELSE arr[i]]
  BY DEF Sorted
<1>2. \A i \in 3..n : p[i] \in 3..n
  BY DEF Bijection, Injection
<1>3. DOMAIN arr = 1..Len(arr) /\ \A i \in 1..Len(arr) : arr[i] \in Slot
  OBVIOUS
<1>4. \A i \in 3..n : p[i] \in 1..Len(arr)
  <2>1. \A j \in 3..n : j \in 1..Len(arr)
    OBVIOUS
  <2>. QED
    BY <1>2, <2>1
<1>5. s \in [1..Len(arr) -> Slot]
  BY <1>1, <1>3, <1>4
<1>. QED
  BY <1>5, FunctionIsSeq

\* Every outcome of the sort is the walk in another order, the first two as they were.
LEMMA SortedLists ==
  ASSUME NEW f \in Files, Sound(f), NEW n \in Nat, NEW w, Through(f, w, n),
         NEW arr \in Seq(Slot), n <= Len(arr),
         \A i \in 1..n : arr[i].at = w[i - 1] /\ arr[i].time = RefTime(f, w[i - 1]),
         NEW s \in Sorted(arr, n)
  PROVE  Lists(f, SubSeq(s, 1, n))
<1>1. PICK p \in Bijection(3..n, 3..n) :
        /\ s = [i \in DOMAIN arr |-> IF i \in 3..n THEN arr[p[i]] ELSE arr[i]]
        /\ \A i, j \in 3..n : i < j => s[i].time <= s[j].time
  BY DEF Sorted
<1>. DEFINE to(i) == IF i \in 3..n THEN p[i] ELSE i
            es == SubSeq(s, 1, n)
<1>2. /\ \A i \in 3..n : p[i] \in 3..n
      /\ \A i, j \in 3..n : p[i] = p[j] => i = j
      /\ \A j \in 3..n : \E i \in 3..n : p[i] = j
  BY DEF Bijection, Injection, IsInjective, Surjection
<1>3. \A i \in 1..n : to(i) \in 1..n
  BY <1>2
<1>4. \A i, j \in 1..n : to(i) = to(j) => i = j
  BY <1>2
<1>5. \A j \in 1..n : \E i \in 1..n : to(i) = j
  <2>. TAKE j \in 1..n
  <2>1. CASE j \in 3..n
    <3>1. PICK i \in 3..n : p[i] = j
      BY <1>2, <2>1
    <3>. QED
      BY <3>1
  <2>2. CASE j \notin 3..n
    BY <2>2
  <2>. QED
    BY <2>1, <2>2
<1>6. DOMAIN arr = 1..Len(arr) /\ \A i \in 1..n : i \in DOMAIN arr
  OBVIOUS
<1>7. s \in Seq(Slot) /\ Len(s) = Len(arr) /\ \A i \in 1..n : s[i] = arr[to(i)]
  BY <1>1, <1>6, SortedIsSeq
<1>8. /\ DOMAIN es = 1..n
      /\ \A i \in 1..n : es[i] = s[i]
  BY <1>7, PrefixFacts
<1>. HIDE DEF es, to
<1>9. \A i \in 1..n : es[i].at = w[to(i) - 1] /\ es[i].time = RefTime(f, w[to(i) - 1])
  BY <1>3, <1>7, <1>8
<1>10. \A i \in 1..n : to(i) - 1 \in 0..(n - 1)
  BY <1>3
<1>11. \A k \in 0..(n - 1) : w[k] \in Int
  <2>1. \A q \in f.pkts : q \in Nat
    BY TilingFacts DEF Sound, Recording
  <2>2. \A k \in 0..(n - 1) : w[k] \in f.pkts
    BY DEF Through
  <2>. QED
    BY <2>1, <2>2
<1>12. \A i \in DOMAIN es : es[i].at \in f.pkts /\ es[i].time = RefTime(f, es[i].at)
  BY <1>8, <1>9, <1>10 DEF Through
<1>13. ASSUME NEW q \in f.pkts PROVE \E i \in DOMAIN es : es[i].at = q
  <2>1. PICK k \in 0..(n - 1) : w[k] = q
    BY DEF Through
  <2>2. k + 1 \in 1..n /\ (k + 1) - 1 = k
    OBVIOUS
  <2>3. PICK i \in 1..n : to(i) = k + 1
    BY <1>5, <2>2
  <2>. QED
    BY <1>8, <1>9, <2>1, <2>2, <2>3
<1>14. ASSUME NEW i \in DOMAIN es, NEW j \in DOMAIN es, es[i].at = es[j].at PROVE i = j
  <2>1. w[to(i) - 1] = w[to(j) - 1]
    BY <1>8, <1>9, <1>14
  <2>2. to(i) - 1 = to(j) - 1
    <3>. DEFINE a == to(i) - 1
                b == to(j) - 1
    <3>1. a \in 0..(n - 1) /\ b \in 0..(n - 1) /\ w[a] = w[b]
      BY <1>8, <1>10, <2>1
    <3>. HIDE DEF a, b
    <3>2. a = b
      BY <1>11, <3>1 DEF Through
    <3>. QED
      BY <3>2 DEF a, b
  <2>3. to(i) \in 1..n /\ to(j) \in 1..n
    BY <1>3, <1>8
  <2>. QED
    BY <1>4, <1>8, <2>2, <2>3
<1>15. \A i, j \in DOMAIN es : 3 <= i /\ i < j => es[i].time <= es[j].time
  <2>1. \A i, j \in 1..n : 3 <= i /\ i < j => i \in 3..n /\ j \in 3..n
    OBVIOUS
  <2>. QED
    BY <1>1, <1>8, <2>1
<1>16. ASSUME NEW i \in {1, 2}, NEW j \in DOMAIN es, i < j PROVE es[i].at < es[j].at
  <2>1. i \in 1..n /\ to(i) = i /\ to(j) \in 1..n /\ i < to(j)
    <3>1. i \in Nat /\ j \in 1..n /\ i \in 1..n /\ i \notin 3..n
      BY <1>8, <1>16
    <3>2. to(i) = i /\ to(j) \in 1..n
      BY <1>3, <3>1 DEF to
    <3>3. CASE j \in 3..n
      <4>1. to(j) \in 3..n
        BY <1>2, <3>3 DEF to
      <4>. QED
        BY <3>1, <3>2, <4>1
    <3>4. CASE j \notin 3..n
      <4>1. to(j) = j
        BY <3>4 DEF to
      <4>. QED
        BY <1>16, <3>1, <3>2, <4>1
    <3>. QED
      BY <3>3, <3>4
  <2>2. i - 1 \in 0..(n - 1) /\ to(j) - 1 \in 0..(n - 1) /\ i - 1 < to(j) - 1
    BY <2>1
  <2>3. w[i - 1] < w[to(j) - 1]
    BY <2>2 DEF Through
  <2>. QED
    BY <1>8, <1>9, <2>1, <2>3
<1>. QED
  BY <1>12, <1>13, <1>14, <1>15, <1>16 DEF Lists, es

-----------------------------------------------------------------------------
(* The invariant.                                                           *)

\* What the program has read from the index file, or put there, lists the packets of the
\* file that it was of; a handle that is closed has no such index.
IndexInv ==
  /\ ReaderInv
  /\ IsIndex(idx) /\ stored.entries \in Seq(Slot) /\ got \in Seq(Nat)
  /\ DOMAIN trail = {"whole", "of", "from"}
  /\ trail.whole => mode # "CLOSED" /\ (Sound(trail.of) => Lists(trail.of, Used))
  /\ stored.whole => (Sound(stored.of) => Lists(stored.of, stored.entries))

\* A step that leaves the entries alone keeps it.
LEMMA KeptEntries ==
  ASSUME IndexInv, ReaderInv', mode' = mode, stored' = stored, got' \in Seq(Nat),
         IsIndex(idx'), idx'.arr = idx.arr, idx'.used = idx.used,
         DOMAIN trail' = DOMAIN trail, trail'.whole = trail.whole, trail'.of = trail.of
  PROVE  IndexInv'
<1>1. Used' = Used
  BY DEF Used
<1>. QED
  BY <1>1 DEF IndexInv

\* A walk that has not stopped before n has been at headers of the file.
LEMMA WalkAtHeaders ==
  ASSUME NEW f \in Files, NEW r, InStep(f, r), NEW n \in DOMAIN NextWalk(f, r),
         \A k \in 0..(n - 1) : NextWalk(f, r)[k] # NoHeader
  PROVE  /\ n \in Nat /\ \A k \in 0..(n - 1) : NextWalk(f, r)[k] \in DOMAIN f.cand
         /\ InStep(f, OutcomeAlong(f, r, NextSteps(f), n).rd)
<1>. DEFINE w == NextWalk(f, r)
<1>1. DOMAIN w = 0..Cardinality(DOMAIN f.cand) /\ Cardinality(DOMAIN f.cand) \in Nat
  BY AlongDomain, CandFinite DEF NextWalk
<1>2. n \in Nat
  BY <1>1
<1>3. ASSUME NEW k \in 0..(n - 1) PROVE w[k] \in DOMAIN f.cand
  <2>. DEFINE m == k + 1
  <2>1. m \in DOMAIN w /\ m # 0 /\ m - 1 = k /\ \A j \in 0..(m - 1) : j \in 0..(n - 1)
    BY <1>1, <1>2
  <2>2. \A j \in 0..(m - 1) : w[j] # NoHeader
    BY <2>1
  <2>. HIDE DEF m
  <2>3. Good(f, w[m - 1])
    BY <2>1, <2>2, NextLeads, AlongOutcomes DEF NextWalk
  <2>. QED
    BY <2>1, <2>3 DEF Good, HeaderOk
<1>4. InStep(f, OutcomeAlong(f, r, NextSteps(f), n).rd)
  BY NextLeads, AlongOutcomes DEF NextWalk, IsHeaderOutcome
<1>. QED
  BY <1>2, <1>3, <1>4

LEMMA MakeKeepsInv ==
  ASSUME IndexInv, MakeInOrderIndex PROVE IndexInv'
<1>1. /\ UNCHANGED <<file, mode, stored>> /\ got' = <<>> /\ mode # "CLOSED"
      /\ file \in Files /\ rd \in Reader /\ rd.pos \in Nat /\ ReaderInv
  BY DEF MakeInOrderIndex, IndexInv, ReaderInv, InStep, Reader
<1>. DEFINE r == Seek(rd, 0)
            w == NextWalk(file, r)
<1>2. InStep(file, r)
  BY <1>1, SeekFacts
<1>3. CASE UNCHANGED <<rd, idx, trail>>
  <2>1. ReaderInv'
    BY <1>1, <1>3, InStepPreserves
  <2>. QED
    BY <1>1, <1>3, <2>1, KeptEntries DEF IndexInv
<1>4. CASE ~UNCHANGED <<rd, idx, trail>>
  <2>1. PICK n \in DOMAIN w :
          LET x == Filled(idx, EntriesOf(file, w, n)) IN
          /\ w[n] = NoHeader /\ \A k \in 0..(n - 1) : w[k] # NoHeader
          /\ rd' = Seek(OutcomeAlong(file, r, NextSteps(file), n).rd, rd.pos)
          /\ \E s \in Sorted(x.arr, x.used) : idx' = Positioned([x EXCEPT !.arr = s], rd.pos)
          /\ trail' = [whole |-> idx.used = 0 /\ idx'.used > 0, of |-> file, from |-> idx'.curr]
    BY <1>1, <1>4, MakeIsInOrderWalk, Zenon
  <2>. DEFINE es == EntriesOf(file, w, n)
              x == Filled(idx, es)
              o == OutcomeAlong(file, r, NextSteps(file), n)
  <2>2. PICK s \in Sorted(x.arr, x.used) : idx' = Positioned([x EXCEPT !.arr = s], rd.pos)
    BY <2>1
  <2>3. n \in Nat /\ (\A k \in 0..(n - 1) : w[k] \in DOMAIN file.cand) /\ InStep(file, o.rd)
    BY <1>1, <1>2, <2>1, WalkAtHeaders
  <2>4. /\ es \in Seq(Slot) /\ Len(es) = n
        /\ \A i \in 1..n : es[i].at = w[i - 1] /\ es[i].time = RefTime(file, w[i - 1])
    BY <1>1, <2>3, EntriesFacts
  <2>5. /\ rd' = Seek(o.rd, rd.pos)
        /\ trail' = [whole |-> idx.used = 0 /\ idx'.used > 0, of |-> file, from |-> idx'.curr]
        /\ w[n] = NoHeader /\ \A k \in 0..(n - 1) : w[k] # NoHeader
    BY <2>1
  <2>. HIDE DEF es, o, w
  <2>6. IsIndex(x) /\ x.used = idx.used + n /\ \A i \in 1..n : x.arr[idx.used + i] = es[i]
    BY <2>4, FilledFacts DEF IndexInv
  <2>. HIDE DEF x
  <2>7. ReaderInv'
    <3>1. o.rd \in Reader
      BY <2>3 DEF InStep
    <3>. QED
      BY <1>1, <2>5, <3>1, SeekFacts, InStepPreserves
  <2>8. s \in Seq(Slot) /\ Len(s) = Len(x.arr)
    BY <2>6, SortedIsSeq DEF IsIndex
  <2>. DEFINE y == [x EXCEPT !.arr = s]
  <2>9. IsIndex(y) /\ y.arr = s /\ y.used = x.used
    BY <2>6, <2>8 DEF IsIndex
  <2>10. idx' = Positioned(y, rd.pos)
    BY <2>2
  <2>. HIDE DEF y
  <2>11. IsIndex(idx') /\ (idx'.used > 0 => idx'.arr = s /\ idx'.used = x.used)
    BY <2>9, <2>10, PositionedFacts
  <2>12. ASSUME idx.used = 0, idx'.used > 0, Sound(file) PROVE Lists(file, SubSeq(s, 1, n))
    <3>1. Through(file, w, n)
      BY <1>1, <2>5, <2>12, WalkGoesThrough DEF w
    <3>2. /\ x.arr \in Seq(Slot) /\ x.used = n /\ n <= Len(x.arr)
          /\ \A i \in 1..n : x.arr[i].at = w[i - 1] /\ x.arr[i].time = RefTime(file, w[i - 1])
      BY <2>3, <2>4, <2>6, <2>12 DEF IsIndex
    <3>3. s \in Sorted(x.arr, n)
      BY <2>2, <3>2
    <3>. QED
      BY <1>1, <2>3, <2>12, <3>1, <3>2, <3>3, SortedLists
  <2>13. trail'.whole => mode' # "CLOSED" /\ (Sound(trail'.of) => Lists(trail'.of, Used'))
    <3>1. trail'.of = file /\ (trail'.whole => idx.used = 0 /\ idx'.used > 0)
      BY <2>5
    <3>2. (idx.used = 0 /\ idx'.used > 0) => Used' = SubSeq(s, 1, n)
      BY <2>3, <2>6, <2>11 DEF Used
    <3>. QED
      BY <1>1, <2>12, <3>1, <3>2
  <2>14. DOMAIN trail' = {"whole", "of", "from"}
    BY <2>5
  <2>. QED
    BY <1>1, <2>7, <2>11, <2>13, <2>14 DEF IndexInv
<1>. QED
  BY <1>3, <1>4

\* When the index file was no longer than the index, it is the index.
LEMMA WriteKeepsInv ==
  ASSUME IndexInv, WriteInOrderIndex PROVE IndexInv'
<1>. DEFINE mine == SubSeq(idx.arr, 1, idx.used)
            old == SubSeq(stored.entries, idx.used + 1, Len(stored.entries))
<1>1. /\ UNCHANGED <<file, mode, rd, idx, got, trail>> /\ mode # "CLOSED"
      /\ stored'.entries = mine \o old
      /\ stored'.of = trail.of
      /\ stored'.whole = (trail.whole /\ Len(stored.entries) <= idx.used)
  BY DEF WriteInOrderIndex
<1>2. /\ idx.arr \in Seq(Slot) /\ idx.used \in Nat /\ idx.used <= Len(idx.arr)
      /\ stored.entries \in Seq(Slot)
  BY DEF IndexInv, IsIndex
<1>3. mine \in Seq(Slot) /\ Len(mine) = idx.used
  BY <1>2, PrefixFacts
<1>4. old \in Seq(Slot)
  BY <1>2
<1>5. Len(stored.entries) <= idx.used => Len(old) = 0
  BY <1>2
<1>6. Used = mine /\ Used' = mine
  BY <1>1 DEF Used
<1>. HIDE DEF mine, old
<1>7. mine \o old \in Seq(Slot)
  BY <1>3, <1>4
<1>8. Len(stored.entries) <= idx.used => mine \o old = mine
  BY <1>3, <1>4, <1>5
<1>9. ReaderInv'
  BY <1>1, InStepPreserves DEF IndexInv
<1>10. stored'.whole => (Sound(stored'.of) => Lists(stored'.of, stored'.entries))
  BY <1>1, <1>6, <1>8 DEF IndexInv
<1>. QED
  BY <1>1, <1>6, <1>7, <1>9, <1>10 DEF IndexInv

LEMMA ReadKeepsInv ==
  ASSUME IndexInv, ReadInOrderIndex PROVE IndexInv'
<1>1. UNCHANGED <<file, mode, rd, stored>> /\ mode # "CLOSED"
  BY DEF ReadInOrderIndex
<1>2. ReaderInv'
  BY <1>1, InStepPreserves DEF IndexInv
<1>3. CASE UNCHANGED <<idx, got, trail>>
  BY <1>1, <1>2, <1>3, KeptEntries DEF IndexInv
<1>4. CASE ~UNCHANGED <<idx, got, trail>>
  <2>. DEFINE y == Loaded(idx, stored.entries)
  <2>1. /\ got' = <<>> /\ idx' = [y EXCEPT !.sort = "Sorted"]
        /\ trail' = [whole |-> stored.whole /\ idx.arr = <<>>, of |-> stored.of, from |-> idx.curr]
    BY <1>4 DEF ReadInOrderIndex
  <2>2. /\ IsIndex(y)
        /\ idx.arr = <<>> => y.used = Len(stored.entries) /\ SubSeq(y.arr, 1, y.used) = stored.entries
    BY LoadedFacts DEF IndexInv
  <2>. HIDE DEF y
  <2>3. IsIndex(idx') /\ idx'.arr = y.arr /\ idx'.used = y.used
    BY <2>1, <2>2, IndexWith DEF IsIndex
  <2>4. trail'.whole => mode' # "CLOSED" /\ (Sound(trail'.of) => Lists(trail'.of, Used'))
    <3>1. trail'.of = stored.of /\ (trail'.whole => stored.whole /\ idx.arr = <<>>)
      BY <2>1
    <3>2. idx.arr = <<>> => Used' = stored.entries
      BY <2>2, <2>3 DEF Used
    <3>. QED
      BY <1>1, <3>1, <3>2 DEF IndexInv
  <2>5. DOMAIN trail' = {"whole", "of", "from"}
    BY <2>1
  <2>. QED
    BY <1>1, <1>2, <2>1, <2>3, <2>4, <2>5 DEF IndexInv
<1>. QED
  BY <1>3, <1>4

\* The header of an entry is read from where the entry says.
LEMMA InOrderKeepsInv ==
  ASSUME IndexInv, ReadNextHeaderInOrder PROVE IndexInv'
<1>1. UNCHANGED <<file, mode, stored, trail>> /\ file \in Files /\ rd \in Reader
      /\ ReaderInv /\ IsIndex(idx) /\ got \in Seq(Nat)
  BY DEF ReadNextHeaderInOrder, IndexInv, ReaderInv, InStep
<1>2. CASE UNCHANGED <<rd, idx, got>>
  <2>1. ReaderInv'
    BY <1>1, <1>2, InStepPreserves
  <2>. QED
    BY <1>1, <1>2, <2>1, KeptEntries
<1>3. CASE ~UNCHANGED <<rd, idx, got>>
  <2>. DEFINE o(q) == IF mode = "READ" THEN NextOutcome(file, Seek(rd, q))
                      ELSE Outcome("WRONG_FILE_MODE", NoHeader, Seek(rd, q))
  <2>1. PICK q \in OffsetsAt(idx, idx.curr) :
          /\ ~(q < 0)
          /\ rd' = o(q).rd
          /\ idx' = [idx EXCEPT !.curr = CurrAfter(o(q))]
          /\ got' = IF o(q).status = "OK" /\ trail.whole THEN Append(got, o(q).at) ELSE got
    BY <1>3, Zenon DEF ReadNextHeaderInOrder, ReadEntry
  <2>2. q \in Nat
    <3>1. \A i \in DOMAIN idx.arr : idx.arr[i] \in Slot
      BY <1>1 DEF IsIndex
    <3>2. CASE idx.curr + 1 \in DOMAIN idx.arr /\ idx.arr[idx.curr + 1] # Junk
      <4>. DEFINE e == idx.arr[idx.curr + 1]
      <4>1. q = e.at
        BY <3>2 DEF OffsetsAt
      <4>2. e \in Slot
        BY <3>1, <3>2
      <4>. HIDE DEF e
      <4>3. e.at \in Int
        BY <4>2 DEF Slot
      <4>. QED
        BY <2>1, <4>1, <4>3
    <3>3. CASE ~(idx.curr + 1 \in DOMAIN idx.arr /\ idx.arr[idx.curr + 1] # Junk)
      <4>1. q \in Offsets \cup {-1}
        BY <3>3, Zenon DEF OffsetsAt
      <4>. QED
        BY <2>1, <4>1, ReaderAssumption
    <3>. QED
      BY <3>2, <3>3
  <2>3. InStep(file, Seek(rd, q))
    BY <1>1, <2>2, SeekFacts
  <2>4. InStep(file, o(q).rd) /\ (o(q).status = "OK" => o(q).at \in Nat)
    <3>1. CASE mode = "READ"
      BY <1>1, <2>3, <3>1, NextOutcomeFacts
    <3>2. CASE mode # "READ"
      BY <2>3, <3>2 DEF Outcome
    <3>. QED
      BY <3>1, <3>2
  <2>. HIDE DEF o
  <2>5. ReaderInv'
    BY <1>1, <2>1, <2>4, InStepPreserves
  <2>6. got' \in Seq(Nat)
    BY <1>1, <2>1, <2>4
  <2>7. IsIndex(idx') /\ idx'.arr = idx.arr /\ idx'.used = idx.used
    BY <1>1, <2>1, IndexWith DEF IsIndex
  <2>. QED
    BY <1>1, <2>5, <2>6, <2>7, KeptEntries
<1>. QED
  BY <1>2, <1>3

\* A seek moves the current entry and the reader, and nothing that is listed.
LEMMA SeekKeepsInv ==
  ASSUME IndexInv, NEW t, SetPosToIrigTime(t) PROVE IndexInv'
<1>1. file \in Files /\ rd \in Reader /\ ReaderInv /\ IsIndex(idx) /\ got \in Seq(Nat)
      /\ DOMAIN trail = {"whole", "of", "from"}
  BY DEF IndexInv, ReaderInv, InStep
<1>2. CASE UNCHANGED <<file, mode, rd, ivars>>
  <2>1. ReaderInv' /\ UNCHANGED <<file, mode, rd, idx, stored, got, trail>>
    BY <1>1, <1>2, InStepPreserves DEF ivars
  <2>2. DOMAIN trail' = DOMAIN trail /\ trail'.whole = trail.whole /\ trail'.of = trail.of
        /\ IsIndex(idx') /\ idx'.arr = idx.arr /\ idx'.used = idx.used /\ got' \in Seq(Nat)
    BY <1>1, <2>1
  <2>. QED
    BY <2>1, <2>2, KeptEntries
<1>3. CASE ~UNCHANGED <<file, mode, rd, ivars>>
  <2>1. /\ got' = <<>> /\ UNCHANGED stored /\ trail' = [trail EXCEPT !.from = idx'.curr]
        /\ \/ rd' = Seek(rd, 0) /\ UNCHANGED <<file, mode>>
           \/ rd' = AtLast.rd /\ UNCHANGED <<file, mode>>
           \/ UNCHANGED <<file, mode, rd>>
        /\ \/ \E c : idx' = [idx EXCEPT !.curr = c]
           \/ \E c, k : idx' = [idx EXCEPT !.curr = c, !.steps = k]
    BY <1>3, Zenon DEF SetPosToIrigTime
  <2>2. ReaderInv' /\ UNCHANGED <<file, mode>>
    <3>1. CASE rd' = Seek(rd, 0) /\ UNCHANGED <<file, mode>>
      BY <1>1, <3>1, SeekFacts, InStepPreserves
    <3>2. CASE rd' = AtLast.rd /\ UNCHANGED <<file, mode>>
      <4>1. mode = "READ" => InStep(file, LastOutcome(file, rd).rd)
        BY LastOutcomeInStep DEF IndexInv, ReaderInv
      <4>. QED
        BY <1>1, <3>2, <4>1, InStepPreserves DEF AtLast, Outcome
    <3>3. CASE UNCHANGED <<file, mode, rd>>
      BY <1>1, <3>3, InStepPreserves
    <3>. QED
      BY <2>1, <3>1, <3>2, <3>3
  <2>3. IsIndex(idx') /\ idx'.arr = idx.arr /\ idx'.used = idx.used
    BY <1>1, <2>1, IndexWith DEF IsIndex
  <2>4. DOMAIN trail' = DOMAIN trail /\ trail'.whole = trail.whole /\ trail'.of = trail.of
    BY <1>1, <2>1
  <2>5. got' \in Seq(Nat) /\ stored' = stored
    <3>1. got' = <<>> /\ stored' = stored
      BY <2>1, Zenon
    <3>. QED
      BY <3>1
  <2>. QED
    BY <2>2, <2>3, <2>4, <2>5, KeptEntries
<1>. QED
  BY <1>2, <1>3

LEMMA ReaderCallsKeepInv ==
  ASSUME IndexInv,
         \/ mode = "CLOSED" /\ \E f \in Files, m \in Modes : OpenIndexed(f, m)
         \/ CloseIndexed
         \/ GoTo(FirstMsg, 0)
         \/ GoTo(LastMsg, idx.used - 1)
         \/ ReadOn
  PROVE  IndexInv'
<1>1. ReaderInv /\ IsIndex(idx) /\ got \in Seq(Nat) /\ DOMAIN trail = {"whole", "of", "from"}
  BY DEF IndexInv
<1>2. CASE mode = "CLOSED" /\ \E f \in Files, m \in Modes : OpenIndexed(f, m)
  <2>1. ReaderInv' /\ UNCHANGED <<idx, stored, got, trail>>
    BY <1>1, <1>2, OpenPreserves DEF OpenIndexed, ivars
  <2>. QED
    BY <1>2, <2>1 DEF IndexInv, Used
<1>3. CASE CloseIndexed
  <2>1. ReaderInv'
    BY <1>1, <1>3, PositioningPreserves DEF CloseIndexed
  <2>2. IsIndex(idx')
    BY <1>3, EmptyIsIndex DEF CloseIndexed
  <2>3. got' = <<>> /\ stored' = stored /\ DOMAIN trail' = {"whole", "of", "from"} /\ ~trail'.whole
    BY <1>3 DEF CloseIndexed, NoTrail
  <2>. QED
    BY <2>1, <2>2, <2>3 DEF IndexInv
<1>4. CASE GoTo(FirstMsg, 0) \/ GoTo(LastMsg, idx.used - 1)
  <2>1. /\ FirstMsg \/ LastMsg
        /\ \E c : idx' = [idx EXCEPT !.curr = c]
        /\ got' = <<>> /\ trail' = [trail EXCEPT !.from = idx'.curr] /\ UNCHANGED stored
    BY <1>4, Zenon DEF GoTo
  <2>2. ReaderInv' /\ mode' = mode
    BY <1>1, <2>1, PositioningPreserves DEF FirstMsg, LastMsg
  <2>3. IsIndex(idx') /\ idx'.arr = idx.arr /\ idx'.used = idx.used
    BY <1>1, <2>1, IndexWith DEF IsIndex
  <2>4. DOMAIN trail' = DOMAIN trail /\ trail'.whole = trail.whole /\ trail'.of = trail.of
    BY <1>1, <2>1
  <2>5. got' \in Seq(Nat) /\ stored' = stored
    BY <2>1
  <2>. QED
    BY <2>2, <2>3, <2>4, <2>5, KeptEntries
<1>5. CASE ReadOn
  <2>1. /\ ReadNextHeader \/ (\E p \in Offsets : SetPos(p)) \/ (\E n \in BuffSizes : ReadData(n))
        /\ UNCHANGED <<idx, stored, got, trail>>
    BY <1>5 DEF ReadOn, ivars
  <2>2. ReaderInv'
    BY <1>1, <2>1, PositioningPreserves, ReadNextHeaderPreserves, ReadDataPreserves
  <2>3. mode' = mode
    BY <2>1 DEF ReadNextHeader, SetPos, ReadData
  <2>. QED
    BY <1>1, <2>1, <2>2, <2>3, KeptEntries
<1>. QED
  BY <1>2, <1>3, <1>4, <1>5

LEMMA IndexStepInv ==
  ASSUME IndexInv, [IndexNext]_allvars PROVE IndexInv'
<1>1. CASE UNCHANGED allvars
  <2>1. UNCHANGED <<file, mode, rd, idx, stored, got, trail>>
    BY <1>1 DEF allvars, vars, ivars
  <2>2. ReaderInv'
    BY <2>1, InStepPreserves DEF IndexInv
  <2>. QED
    BY <2>1, <2>2, KeptEntries DEF IndexInv
<1>2. CASE IndexNext
  BY <1>2, ReaderCallsKeepInv, MakeKeepsInv, WriteKeepsInv, ReadKeepsInv, InOrderKeepsInv,
     SeekKeepsInv, Zenon DEF IndexNext
<1>. QED
  BY <1>1, <1>2

LEMMA IndexInductive == IndexSpec => []IndexInv
<1>1. IndexInit => IndexInv
  <2>. SUFFICES ASSUME IndexInit PROVE IndexInv
    OBVIOUS
  <2>1. ReaderInv
    BY InitIInv, IInvParts DEF IndexInit
  <2>2. /\ idx = EmptyIndex /\ stored.entries = <<>> /\ stored.whole = FALSE
        /\ got = <<>> /\ trail = NoTrail
    BY DEF IndexInit
  <2>3. DOMAIN trail = {"whole", "of", "from"} /\ ~trail.whole
    BY <2>2 DEF NoTrail
  <2>4. stored.entries \in Seq(Slot) /\ got \in Seq(Nat)
    BY <2>2
  <2>5. IsIndex(idx) /\ ~stored.whole
    BY <2>2, EmptyIsIndex
  <2>. QED
    BY <2>1, <2>3, <2>4, <2>5 DEF IndexInv
<1>2. IndexInv /\ [IndexNext]_allvars => IndexInv'
  BY IndexStepInv
<1>. QED
  BY <1>1, <1>2, PTL DEF IndexSpec

-----------------------------------------------------------------------------
(* The properties.                                                          *)

\* A list of all packets, each once, is as long as there are packets.
LEMMA ListLength ==
  ASSUME NEW f, NEW es \in Seq(Slot), Lists(f, es)
  PROVE  {es[i].at : i \in DOMAIN es} = f.pkts /\ Len(es) = Cardinality(f.pkts)
<1>1. {es[i].at : i \in DOMAIN es} = f.pkts
  BY DEF Lists
<1>. DEFINE n == Len(es)
            b == [i \in 1..n |-> es[i].at]
<1>2. n \in Nat /\ DOMAIN es = 1..n
  OBVIOUS
<1>. HIDE DEF n
<1>3. b \in Bijection(1..n, f.pkts)
  <2>1. b \in [1..n -> f.pkts]
    BY <1>2 DEF Lists
  <2>2. \A i \in 1..n : b[i] = es[i].at
    OBVIOUS
  <2>3. \A i, j \in 1..n : b[i] = b[j] => i = j
    BY <1>2, <2>2 DEF Lists
  <2>4. \A q \in f.pkts : \E i \in 1..n : b[i] = q
    BY <1>2, <2>2 DEF Lists
  <2>. HIDE DEF b
  <2>. QED
    BY <2>1, <2>3, <2>4 DEF Bijection, Injection, IsInjective, Surjection
<1>4. Cardinality(f.pkts) = n
  <2>1. ExistsBijection(1..n, f.pkts)
    BY <1>3 DEF ExistsBijection
  <2>. QED
    BY <1>2, <2>1, FS_CountingElements
<1>. QED
  BY <1>1, <1>4 DEF n

\* The index that is built of a sound recording, or loaded back from what was written of
\* one, has each of its packets once with the time of its header, and all but the first two
\* in the order of these times: whatever the outcome of the sort, the room in the array
\* and the older contents of the index file.
THEOREM IndexListsPackets == IndexSpec => []IndexIsSortedPermutation
<1>1. ASSUME IndexInv, Faithful PROVE Lists(file, Used) /\ Used \in Seq(Slot)
  <2>1. Lists(file, Used)
    BY <1>1 DEF IndexInv, Faithful, Sound
  <2>. QED
    BY <1>1, <2>1, PrefixFacts DEF IndexInv, IsIndex, Used
<1>2. IndexInv => IndexIsSortedPermutation
  <2>1. SUFFICES ASSUME IndexInv, Faithful
                 PROVE  /\ {Used[i].at : i \in DOMAIN Used} = file.pkts
                        /\ Len(Used) = Cardinality(file.pkts)
                        /\ \A i \in DOMAIN Used : Used[i].time = RefTime(file, Used[i].at)
                        /\ \A i, j \in DOMAIN Used : 3 <= i /\ i < j => Used[i].time <= Used[j].time
                        /\ \A i \in {1, 2}, j \in DOMAIN Used : i < j => Used[i].at < Used[j].at
    BY DEF IndexIsSortedPermutation
  <2>2. Lists(file, Used) /\ Used \in Seq(Slot)
    BY <1>1, <2>1
  <2>. QED
    BY <2>2, ListLength DEF Lists
<1>. QED
  BY <1>2, IndexInductive, PTL

\* Where nothing is read in order, or reading begins anew, nothing can go wrong.
LEMMA OnceKept ==
  ASSUME InOrderOnce, UNCHANGED <<file, mode, got>>, UNCHANGED <<idx, trail>>
  PROVE  InOrderOnce'
BY DEF InOrderOnce, Faithful, Used

LEMMA OnceAnew ==
  ASSUME got' = <<>>, trail'.from = idx'.curr
  PROVE  InOrderOnce'
<1>1. SUFFICES ASSUME trail'.from \in 0..idx'.used
               PROVE  /\ trail'.from + Len(got') <= idx'.used
                      /\ \A i \in DOMAIN got' : got'[i] = Used'[trail'.from + i].at
                      /\ idx'.curr = trail'.from + Len(got')
  BY DEF InOrderOnce
<1>2. Len(got') = 0 /\ DOMAIN got' = {} /\ trail'.from \in Int /\ trail'.from <= idx'.used
  BY <1>1
<1>. QED
  BY <1>2

\* An entry of a whole index is where it says: reading it finds its packet, and looking the
\* packet up finds the entry.
LEMMA EntryIsFound ==
  ASSUME NEW f \in Files, Sound(f), NEW r \in Reader, NEW x, IsIndex(x),
         Lists(f, SubSeq(x.arr, 1, x.used)), NEW c \in 0..(x.used - 1)
  PROVE  LET q == x.arr[c + 1].at IN
         /\ OffsetsAt(x, c) = {q} /\ q \in f.pkts /\ q \in Nat
         /\ NextOutcome(f, Seek(r, q)) = FoundAt(f, q)
         /\ Position(x, q) = c
<1>. DEFINE es == SubSeq(x.arr, 1, x.used)
            n == x.used
            q == x.arr[c + 1].at
<1>1. n \in Nat /\ n <= Len(x.arr) /\ x.arr \in Seq(Slot)
  BY DEF IsIndex
<1>2. DOMAIN es = 1..n /\ \A i \in 1..n : es[i] = x.arr[i]
  BY <1>1, PrefixFacts
<1>. HIDE DEF es, n
<1>3. c + 1 \in 1..n /\ c + 1 \in DOMAIN x.arr
  <2>1. c \in Nat /\ c + 1 <= n
    BY <1>1 DEF n
  <2>. QED
    BY <1>1, <2>1
<1>4. q \in f.pkts
  BY <1>2, <1>3 DEF Lists, es
<1>5. q \in Nat /\ Good(f, q)
  BY <1>4, TilingFacts DEF Sound, Recording
<1>6. OffsetsAt(x, c) = {q}
  <2>1. x.arr[c + 1] # Junk
    BY <1>5 DEF Junk, NoHeader
  <2>. QED
    BY <1>3, <2>1 DEF OffsetsAt
<1>7. NextOutcome(f, Seek(r, q)) = FoundAt(f, q)
  <2>1. NextOffset(Seek(r, q)) = q
    BY <1>5, SeekFacts DEF NextOffset
  <2>2. HeaderSearch(f, SkipToNext(Seek(r, q)), q) = {FoundAt(f, q)}
    BY <1>5, SearchAtGood
  <2>. QED
    BY <2>1, <2>2 DEF NextOutcome
<1>8. Position(x, q) = c
  <2>. DEFINE at == {i \in 0..(x.used - 1) : x.arr[i + 1].at = q}
  <2>1. ASSUME NEW i \in at PROVE i = c
    <3>1. i + 1 \in 1..n /\ i \in Int /\ c \in Int
      <4>1. i \in 0..(n - 1)
        BY <2>1 DEF n
      <4>. QED
        BY <1>1, <4>1
    <3>2. es[i + 1].at = es[c + 1].at
      BY <1>2, <1>3, <2>1, <3>1
    <3>3. i + 1 = c + 1
      BY <1>2, <1>3, <3>1, <3>2 DEF Lists, es
    <3>. QED
      BY <3>1, <3>3
  <2>2. c \in at
    OBVIOUS
  <2>. HIDE DEF at
  <2>3. at = {c} /\ c <= c
    <3>1. c \in Nat
      BY <1>1
    <3>2. at = {c}
      BY <2>1, <2>2, Zenon
    <3>. QED
      BY <3>1, <3>2
  <2>4. Position(x, q) = CHOOSE i \in at : \A k \in at : i <= k
    BY <2>2 DEF Position, at
  <2>. QED
    BY <2>3, <2>4
<1>. QED
  BY <1>4, <1>5, <1>6, <1>7, <1>8

LEMMA InOrderReadsOnce ==
  ASSUME IndexInv, InOrderOnce, ReadNextHeaderInOrder PROVE InOrderOnce'
<1>1. UNCHANGED <<file, mode, stored, trail>> /\ file \in Files /\ rd \in Reader
      /\ IsIndex(idx) /\ got \in Seq(Nat)
  BY DEF ReadNextHeaderInOrder, IndexInv, ReaderInv, InStep
<1>2. CASE UNCHANGED <<rd, idx, got>>
  BY <1>1, <1>2, OnceKept
<1>3. CASE ~UNCHANGED <<rd, idx, got>>
  <2>. DEFINE o(q) == IF mode = "READ" THEN NextOutcome(file, Seek(rd, q))
                      ELSE Outcome("WRONG_FILE_MODE", NoHeader, Seek(rd, q))
  <2>1. /\ idx.curr # idx.used
        /\ \E q \in OffsetsAt(idx, idx.curr) :
             /\ idx' = [idx EXCEPT !.curr = CurrAfter(o(q))]
             /\ got' = IF o(q).status = "OK" /\ trail.whole THEN Append(got, o(q).at) ELSE got
    BY <1>3, Zenon DEF ReadNextHeaderInOrder, ReadEntry
  <2>. HIDE DEF o
  <2>2. /\ idx'.arr = idx.arr /\ idx'.used = idx.used /\ idx'.sort = idx.sort
        /\ Used' = Used
    <3>1. idx'.arr = idx.arr /\ idx'.used = idx.used /\ idx'.sort = idx.sort
      BY <1>1, <2>1 DEF IsIndex
    <3>. QED
      BY <3>1 DEF Used
  <2>3. SUFFICES ASSUME Faithful, mode = "READ", trail.from \in 0..idx.used
                 PROVE  /\ trail.from + Len(got') <= idx.used
                        /\ \A i \in DOMAIN got' : got'[i] = Used[trail.from + i].at
                        /\ idx'.curr = trail.from + Len(got')
    BY <1>1, <2>2 DEF InOrderOnce, Faithful
  <2>. DEFINE c == idx.curr
              q == idx.arr[c + 1].at
              m == Len(got)
  <2>4. /\ trail.from + m <= idx.used /\ c = trail.from + m
        /\ \A i \in DOMAIN got : got[i] = Used[trail.from + i].at
    BY <2>3 DEF InOrderOnce
  <2>5. idx.used \in Nat /\ trail.from \in Nat /\ m \in Nat /\ idx.used <= Len(idx.arr)
        /\ idx.arr \in Seq(Slot)
    BY <1>1, <2>3 DEF IsIndex
  <2>6. c \in 0..(idx.used - 1)
    <3>1. c # idx.used
      BY <2>1
    <3>. HIDE DEF c, m
    <3>. QED
      BY <2>4, <2>5, <3>1
  <2>7. Sound(file) /\ Lists(file, Used) /\ trail.whole
    BY <2>3 DEF IndexInv, Faithful, Sound
  <2>. HIDE DEF c
  <2>8. /\ OffsetsAt(idx, c) = {q} /\ q \in Nat
        /\ NextOutcome(file, Seek(rd, q)) = FoundAt(file, q)
        /\ Position(idx, q) = c
    BY <1>1, <2>6, <2>7, EntryIsFound DEF Used
  <2>. HIDE DEF q
  <2>9. o(q) = FoundAt(file, q)
    BY <2>3, <2>8 DEF o
  <2>10. o(q).status = "OK" /\ o(q).at = q /\ o(q).rd.state = "ReadData"
    BY <2>9 DEF FoundAt, Outcome
  <2>11. CurrAfter(o(q)) = c + 1
    BY <2>8, <2>10 DEF CurrAfter, c
  <2>12. idx' = [idx EXCEPT !.curr = c + 1] /\ got' = Append(got, q)
    BY <2>1, <2>7, <2>8, <2>10, <2>11 DEF c
  <2>13. idx'.curr = c + 1
    BY <1>1, <2>12 DEF IsIndex
  <2>14. /\ Len(got') = m + 1 /\ DOMAIN got' = 1..(m + 1)
         /\ (\A i \in 1..m : got'[i] = got[i]) /\ got'[m + 1] = q
    BY <1>1, <2>8, <2>12
  <2>15. Used[c + 1].at = q
    <3>1. c + 1 \in 1..idx.used
      BY <2>5, <2>6
    <3>. QED
      BY <2>5, <3>1, PrefixFacts DEF Used, q
  <2>16. trail.from + (m + 1) = c + 1 /\ c + 1 <= idx.used
    BY <2>4, <2>5, <2>6 DEF c
  <2>17. DOMAIN got = 1..m
    BY <1>1
  <2>. HIDE DEF m
  <2>18. \A i \in DOMAIN got' : got'[i] = Used[trail.from + i].at
    <3>. TAKE i \in DOMAIN got'
    <3>1. CASE i = m + 1
      BY <2>14, <2>15, <2>16, <3>1
    <3>2. CASE i \in 1..m
      BY <2>4, <2>14, <2>17, <3>2
    <3>3. i = m + 1 \/ i \in 1..m
      BY <2>5, <2>14
    <3>. QED
      BY <3>1, <3>2, <3>3
  <2>. QED
    BY <2>13, <2>14, <2>16, <2>18
<1>. QED
  BY <1>2, <1>3

\* Making an index of a sound recording cannot fail where there is one already.
LEMMA MakeReadsAnew ==
  ASSUME IndexInv, InOrderOnce, MakeInOrderIndex PROVE InOrderOnce'
<1>1. /\ UNCHANGED <<file, mode>> /\ got' = <<>> /\ mode # "CLOSED" /\ ReaderInv
      /\ file \in Files /\ rd \in Reader /\ IsIndex(idx)
  BY DEF MakeInOrderIndex, IndexInv, ReaderInv, InStep
<1>. DEFINE r == Seek(rd, 0)
            w == NextWalk(file, r)
<1>2. CASE mode = "READ_IN_ORDER"
  BY <1>1, <1>2 DEF InOrderOnce
<1>3. CASE mode = "READ" /\ \E n \in DOMAIN w :
             LET x == Filled(idx, EntriesOf(file, w, n)) IN
             /\ w[n] = NoHeader /\ \A k \in 0..(n - 1) : w[k] # NoHeader
             /\ x.used < 2 /\ UNCHANGED <<rd, idx, trail>>
  <2>1. PICK n \in DOMAIN w :
          /\ w[n] = NoHeader /\ \A k \in 0..(n - 1) : w[k] # NoHeader
          /\ Filled(idx, EntriesOf(file, w, n)).used < 2
          /\ UNCHANGED <<idx, trail>>
    BY <1>3
  <2>2. ASSUME Faithful PROVE FALSE
    <3>1. Sound(file) /\ Lists(file, Used)
      BY <1>1, <2>2 DEF IndexInv, Faithful, Sound
    <3>2. n \in Nat \ {0}
      BY <1>1, <2>1, <3>1, WalkGoesThrough
    <3>3. \A k \in 0..(n - 1) : w[k] \in DOMAIN file.cand
      BY <1>1, <2>1, SeekFacts, WalkAtHeaders
    <3>4. EntriesOf(file, w, n) \in Seq(Slot) /\ Len(EntriesOf(file, w, n)) = n
      <4>. HIDE DEF w
      <4>. QED
        BY <1>1, <3>2, <3>3, EntriesFacts
    <3>5. Filled(idx, EntriesOf(file, w, n)).used = idx.used + n
      <4>. DEFINE es == EntriesOf(file, w, n)
      <4>1. es \in Seq(Slot) /\ Len(es) = n
        BY <3>4
      <4>. HIDE DEF es
      <4>2. Filled(idx, es).used = idx.used + Len(es)
        BY <1>1, <4>1, FilledFacts
      <4>. QED
        BY <4>1, <4>2 DEF es
    <3>6. idx.used \in Nat \ {0}
      <4>1. 0 \in file.pkts
        BY <3>1 DEF Sound, Recording, Tiled
      <4>2. PICK i \in DOMAIN Used : TRUE
        BY <3>1, <4>1 DEF Lists
      <4>3. DOMAIN Used = 1..idx.used /\ idx.used \in Nat
        BY <1>1, PrefixFacts DEF IsIndex, Used
      <4>. QED
        BY <4>2, <4>3
    <3>. QED
      BY <2>1, <3>2, <3>5, <3>6
  <2>3. Faithful' = Faithful
    BY <1>1, <2>1 DEF Faithful
  <2>. QED
    BY <2>2, <2>3 DEF InOrderOnce
<1>4. CASE trail'.from = idx'.curr
  BY <1>1, <1>4, OnceAnew
<1>. QED
  <2>1. \/ mode = "READ_IN_ORDER"
        \/ /\ mode = "READ"
           /\ \E n \in DOMAIN w :
                LET x == Filled(idx, EntriesOf(file, w, n)) IN
                /\ w[n] = NoHeader /\ \A k \in 0..(n - 1) : w[k] # NoHeader
                /\ \/ x.used < 2 /\ UNCHANGED <<rd, idx, trail>>
                   \/ trail' = [whole |-> idx.used = 0 /\ idx'.used > 0, of |-> file,
                                from |-> idx'.curr]
    BY <1>1, MakeIsInOrderWalk, Zenon
  <2>2. ASSUME trail' = [whole |-> idx.used = 0 /\ idx'.used > 0, of |-> file, from |-> idx'.curr]
        PROVE  trail'.from = idx'.curr
    BY <2>2
  <2>. QED
    BY <1>2, <1>3, <1>4, <2>1, <2>2, Zenon

LEMMA OnceStep ==
  ASSUME IndexInv, InOrderOnce, [IndexNext]_allvars PROVE InOrderOnce'
<1>1. IsIndex(idx) /\ DOMAIN trail = {"whole", "of", "from"}
  BY DEF IndexInv
<1>2. CASE UNCHANGED allvars
  BY <1>2, OnceKept DEF allvars, vars, ivars
<1>3. CASE mode = "CLOSED" /\ \E f \in Files, m \in Modes : OpenIndexed(f, m)
  <2>1. ~trail'.whole
    BY <1>3 DEF OpenIndexed, ivars, IndexInv
  <2>. QED
    BY <2>1 DEF InOrderOnce, Faithful
<1>4. CASE CloseIndexed
  BY <1>4 DEF CloseIndexed, Close, InOrderOnce, Faithful
<1>5. CASE GoTo(FirstMsg, 0) \/ GoTo(LastMsg, idx.used - 1)
  <2>1. got' = <<>> /\ trail' = [trail EXCEPT !.from = idx'.curr]
    BY <1>5 DEF GoTo
  <2>. QED
    BY <1>1, <2>1, OnceAnew
<1>6. CASE ReadOn
  BY <1>6, OnceKept DEF ReadOn, ReadNextHeader, SetPos, ReadData, ivars
<1>7. CASE WriteInOrderIndex
  BY <1>7, OnceKept DEF WriteInOrderIndex
<1>8. CASE ReadInOrderIndex
  <2>1. CASE UNCHANGED <<file, mode, idx, got, trail>>
    BY <2>1, OnceKept
  <2>2. CASE ~UNCHANGED <<file, mode, idx, got, trail>>
    <3>. DEFINE y == Loaded(idx, stored.entries)
    <3>1. got' = <<>> /\ idx' = [y EXCEPT !.sort = "Sorted"] /\ trail'.from = idx.curr
      BY <1>8, <2>2 DEF ReadInOrderIndex
    <3>2. IsIndex(y) /\ y.curr = idx.curr
      BY LoadedFacts DEF IndexInv
    <3>. HIDE DEF y
    <3>3. idx'.curr = idx.curr
      BY <3>1, <3>2 DEF IsIndex
    <3>. QED
      BY <3>1, <3>3, OnceAnew
  <2>. QED
    BY <2>1, <2>2
<1>9. ASSUME NEW t, SetPosToIrigTime(t) PROVE InOrderOnce'
  <2>1. CASE UNCHANGED <<file, mode, rd, ivars>>
    BY <2>1, OnceKept DEF ivars
  <2>2. CASE ~UNCHANGED <<file, mode, rd, ivars>>
    <3>1. got' = <<>> /\ trail' = [trail EXCEPT !.from = idx'.curr]
      BY <1>9, <2>2, Zenon DEF SetPosToIrigTime
    <3>. QED
      BY <1>1, <3>1, OnceAnew
  <2>. QED
    BY <2>1, <2>2
<1>. QED
  BY <1>2, <1>3, <1>4, <1>5, <1>6, <1>7, <1>8, <1>9, InOrderReadsOnce, MakeReadsAnew, Zenon
     DEF IndexNext

\* Reading a sound recording in order returns what the index lists, from the entry where
\* reading began on, each once and none left out, and says EOF only after the last.
THEOREM EachReadOnce == IndexSpec => []InOrderOnce
<1>1. IndexInit => InOrderOnce
  BY DEF IndexInit, NoTrail, InOrderOnce, Faithful
<1>2. IndexInv /\ InOrderOnce /\ [IndexNext]_allvars => InOrderOnce'
  BY OnceStep
<1>. QED
  BY <1>1, <1>2, IndexInductive, PTL DEF IndexSpec

=============================================================================
