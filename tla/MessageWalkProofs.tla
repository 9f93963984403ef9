-------------------------- MODULE MessageWalkProofs ---------------------------
(***************************************************************************)
(* The loops over the messages of a packet, for packets of any number of   *)
(* messages of any length, sound or damaged: what they return, that it is  *)
(* inside the packet, and that an end is one.                              *)
(***************************************************************************)
EXTENDS MessageWalk, TLAPS, WellFoundedInduction

-----------------------------------------------------------------------------
(* Running totals.                                                          *)

\* What holds of 1, and of the number behind each that it holds of, holds of all.
LEMMA Upward ==
  ASSUME NEW n \in Nat, NEW T, 1 \in T, \A k \in 1..(n - 1) : k \in T => k + 1 \in T
  PROVE  \A k \in 1..n : k \in T
<1>. DEFINE bad == (1..n) \ T
            R == OpToRel(<, Nat)
<1>1. SUFFICES ASSUME bad # {} PROVE FALSE
  OBVIOUS
<1>2. IsWellFoundedOn(R, Nat) /\ bad \in SUBSET Nat
  <2>1. IsWellFoundedOn(R, Nat)
    BY NatLessThanWellFounded, Zenon
  <2>2. bad \in SUBSET Nat
    OBVIOUS
  <2>. QED
    BY <2>1, <2>2, Zenon
<1>3. PICK m \in bad : \A k \in bad : <<k, m>> \notin R
  <2>. HIDE DEF R, bad
  <2>. QED
    BY <1>1, <1>2, WFMin, Zenon
<1>4. m \in 1..n /\ m # 1 /\ m \notin T
  BY <1>3
<1>5. m - 1 \in 1..(n - 1) /\ m - 1 + 1 = m
  BY <1>4
<1>6. m - 1 \in bad /\ m - 1 \in Nat /\ m \in Nat /\ m - 1 < m
  BY <1>4, <1>5
<1>7. <<m - 1, m>> \in R
  BY <1>6 DEF OpToRel
<1>. QED
  BY <1>3, <1>6, <1>7

\* T adds up the numbers s from a on.
IsTotal(n, a, s, T) ==
  /\ T \in [1..n -> Nat]
  /\ \A i \in 1..n : T[i] = IF i = 1 THEN a ELSE T[i - 1] + s[i]

LEMMA TotalExists ==
  ASSUME NEW n \in Nat, NEW a \in Nat, NEW s \in [1..n -> Nat]
  PROVE  \E T : IsTotal(n, a, s, T)
<1>. DEFINE Upto(k, T) == /\ T \in [1..k -> Nat]
                          /\ \A i \in 1..k : T[i] = IF i = 1 THEN a ELSE T[i - 1] + s[i]
            good == {k \in 1..n : \E T : Upto(k, T)}
<1>1. CASE n = 0
  <2>1. IsTotal(0, a, s, [i \in 1..0 |-> 0])
    BY DEF IsTotal
  <2>. QED
    BY <1>1, <2>1
<1>2. CASE n # 0
  <2>1. 1 \in good
    <3>. DEFINE T == [i \in 1..1 |-> a]
    <3>1. Upto(1, T)
      OBVIOUS
    <3>. HIDE DEF T, Upto
    <3>. QED
      BY <1>2, <3>1
  <2>2. ASSUME NEW k \in 1..(n - 1), k \in good PROVE k + 1 \in good
    <3>1. PICK T : Upto(k, T)
      <4>. HIDE DEF Upto
      <4>. QED
        BY <2>2
    <3>. DEFINE U == [i \in 1..(k + 1) |-> IF i = k + 1 THEN T[k] + s[k + 1] ELSE T[i]]
    <3>2. U \in [1..(k + 1) -> Nat]
      BY <3>1
    <3>3. ASSUME NEW i \in 1..(k + 1)
          PROVE  U[i] = IF i = 1 THEN a ELSE U[i - 1] + s[i]
      <4>1. CASE i = k + 1
        BY <3>1, <4>1
      <4>2. CASE i # k + 1
        <5>1. i \in 1..k /\ U[i] = T[i] /\ (i # 1 => U[i - 1] = T[i - 1])
          BY <4>2
        <5>. QED
          BY <3>1, <5>1
      <4>. QED
        BY <4>1, <4>2
    <3>4. Upto(k + 1, U)
      <4>. HIDE DEF U
      <4>. QED
        BY <3>2, <3>3
    <3>. HIDE DEF U, Upto
    <3>. QED
      BY <3>4
  <2>3. n \in good
    <3>. HIDE DEF good
    <3>1. \A k \in 1..n : k \in good
      BY <2>1, <2>2, Upward
    <3>. QED
      BY <1>2, <3>1
  <2>. QED
    BY <2>3 DEF IsTotal
<1>. QED
  BY <1>1, <1>2

\* A function defined along a total is that total.
LEMMA TotalIsAt ==
  ASSUME NEW n \in Nat, NEW a, NEW s, NEW T, IsTotal(n, a, s, T), NEW k \in 1..n,
         NEW P, P[1] = a,
         \A i \in 2..k : P[i - 1] = T[i - 1] => P[i] = T[i - 1] + s[i]
  PROVE  P[k] = T[k]
<1>. DEFINE same == {i \in 1..k : P[i] = T[i]}
<1>1. 1 \in same
  BY DEF IsTotal
<1>2. ASSUME NEW i \in 1..(k - 1), i \in same PROVE i + 1 \in same
  <2>1. i + 1 \in 2..k /\ i + 1 \in 1..n /\ i + 1 # 1 /\ i + 1 - 1 = i
    OBVIOUS
  <2>2. T[i + 1] = T[i] + s[i + 1]
    BY <2>1 DEF IsTotal
  <2>3. P[i + 1] = T[i] + s[i + 1]
    BY <1>2, <2>1
  <2>. QED
    BY <2>1, <2>2, <2>3
<1>3. k \in same
  <2>. HIDE DEF same
  <2>1. k \in Nat /\ \A i \in 1..k : i \in same
    BY <1>1, <1>2, Upward
  <2>. QED
    BY <2>1
<1>. QED
  BY <1>3

-----------------------------------------------------------------------------
(* Where messages are, and what headers show.                               *)

LEMMA PacketFacts ==
  ASSUME NEW p \in Packet
  PROVE  /\ Len(p.msgs) \in Nat /\ DOMAIN p.msgs = 1..Len(p.msgs)
         /\ HeaderOf(p) \in Nat /\ FirstPlace(p) \in Nat /\ FirstPlace(p) >= ChanSpec
         /\ \A k \in 1..Len(p.msgs) :
              /\ p.msgs[k].len \in Nat /\ p.msgs[k].gap \in Nat
              /\ Evened(p.msgs[k].len) \in Nat /\ Evened(p.msgs[k].len) >= p.msgs[k].len
<1>1. p.msgs \in Seq(Message) /\ p.fmt \in Format
  BY DEF Packet
<1>2. HeaderOf(p) \in Nat
  BY <1>1 DEF HeaderOf, Format, Checked, Unchecked, Uncounted, Stamped, Stamp, Su1553F1_Header,
     SuMessageF0_Header, SuArinc429F0_Header, SuUartF0_Header, SuCan_Header,
     SuEthernetF0_Header, SuEthernetF1_Header, SuIndex_NodeData
<1>3. FirstPlace(p) \in Nat /\ FirstPlace(p) >= ChanSpec
  BY DEF FirstPlace, ChanSpec, FileOffset
<1>4. ASSUME NEW k \in 1..Len(p.msgs)
      PROVE  /\ p.msgs[k].len \in Nat /\ p.msgs[k].gap \in Nat
             /\ Evened(p.msgs[k].len) \in Nat /\ Evened(p.msgs[k].len) >= p.msgs[k].len
  <2>1. p.msgs[k] \in Message
    BY <1>1
  <2>2. p.msgs[k].len \in Nat /\ p.msgs[k].gap \in Nat
    BY <2>1 DEF Message
  <2>. QED
    BY <2>2 DEF Evened
<1>. QED
  BY <1>1, <1>2, <1>3, <1>4

\* The bytes before message i that are not before the one before it.
Strides(p) ==
  [i \in 1..(Len(p.msgs) + 1) |->
     IF i = 1 THEN 0 ELSE HeaderOf(p) + Evened(p.msgs[i - 1].len)]

\* Place is well defined.
LEMMA PlaceFacts ==
  ASSUME NEW p \in Packet
  PROVE  /\ \A k \in 1..(Len(p.msgs) + 1) : Place(p, k) \in Nat
         /\ Place(p, 1) = FirstPlace(p)
         /\ \A k \in 1..Len(p.msgs) :
              Place(p, k + 1) = Place(p, k) + HeaderOf(p) + Evened(p.msgs[k].len)
<1>. DEFINE n == Len(p.msgs) + 1
            a == FirstPlace(p)
            h == HeaderOf(p)
            e(i) == Evened(p.msgs[i - 1].len)
            s == Strides(p)
<1>1. n \in Nat /\ n >= 1 /\ a \in Nat /\ h \in Nat /\ \A i \in 2..n : e(i) \in Nat
  <2>1. \A i \in 2..n : i - 1 \in 1..Len(p.msgs)
    BY PacketFacts
  <2>. QED
    BY <2>1, PacketFacts
<1>. HIDE DEF h, e
<1>2. s \in [1..n -> Nat] /\ \A i \in 2..n : s[i] = h + e(i)
  <2>1. s = [i \in 1..n |-> IF i = 1 THEN 0 ELSE h + e(i)]
    BY DEF Strides, h, e
  <2>. HIDE DEF s
  <2>. QED
    BY <1>1, <2>1
<1>. HIDE DEF n, a, s
<1>3. PICK T : IsTotal(n, a, s, T)
  BY <1>1, <1>2, TotalExists
<1>4. T \in [1..n -> Nat] /\ T[1] = a /\ \A i \in 2..n : T[i] = T[i - 1] + s[i]
  BY <1>1, <1>3 DEF IsTotal
<1>5. ASSUME NEW k \in 1..n PROVE Place(p, k) = T[k]
  <2>. DEFINE IsPlaces(P) == P = [i \in 1..k |-> IF i = 1 THEN a ELSE P[i - 1] + h + e(i)]
              P == CHOOSE f : IsPlaces(f)
              R == [i \in 1..k |-> T[i]]
  <2>1. IsPlaces(R)
    <3>1. ASSUME NEW i \in 1..k PROVE R[i] = IF i = 1 THEN a ELSE R[i - 1] + h + e(i)
      <4>1. CASE i = 1
        BY <1>4, <4>1
      <4>2. CASE i # 1
        <5>1. i \in 2..n /\ i - 1 \in 1..k /\ i - 1 \in 1..n
          BY <1>1, <4>2
        <5>2. T[i] = T[i - 1] + (h + e(i)) /\ T[i - 1] \in Nat /\ e(i) \in Nat
          BY <1>1, <1>2, <1>4, <5>1
        <5>. QED
          BY <1>1, <4>2, <5>1, <5>2
      <4>. QED
        BY <4>1, <4>2
    <3>2. R = [i \in 1..k |-> IF i = 1 THEN a ELSE R[i - 1] + h + e(i)]
      BY <3>1
    <3>. HIDE DEF R
    <3>. QED
      BY <3>2
  <2>2. IsPlaces(P)
    <3>. HIDE DEF R, IsPlaces
    <3>. QED
      BY <2>1
  <2>3. Place(p, k) = P[k]
    BY DEF Place, a, h, e
  <2>. HIDE DEF P
  <2>4. P[1] = a /\ \A i \in 2..k : P[i] = P[i - 1] + h + e(i)
    <3>1. \A i \in 1..k : P[i] = IF i = 1 THEN a ELSE P[i - 1] + h + e(i)
      BY <2>2
    <3>. QED
      BY <1>1, <3>1
  <2>5. \A i \in 2..k : P[i - 1] = T[i - 1] => P[i] = T[i - 1] + s[i]
    <3>1. \A i \in 2..k : /\ i \in 2..n /\ i - 1 \in 1..n /\ T[i - 1] \in Nat
                          /\ e(i) \in Nat /\ s[i] = h + e(i)
      BY <1>1, <1>2, <1>4
    <3>. QED
      BY <1>1, <2>4, <3>1
  <2>6. P[k] = T[k]
    BY <1>1, <1>3, <2>4, <2>5, TotalIsAt
  <2>. QED
    BY <2>3, <2>6
<1>6. \A k \in 1..(n - 1) : Place(p, k + 1) = Place(p, k) + HeaderOf(p) + Evened(p.msgs[k].len)
  <2>. TAKE k \in 1..(n - 1)
  <2>1. k \in 1..n /\ k + 1 \in 2..n /\ k + 1 \in 1..n /\ k + 1 - 1 = k
    BY <1>1
  <2>2. T[k + 1] = T[k] + (h + e(k + 1)) /\ T[k] \in Nat /\ e(k + 1) \in Nat
    BY <1>1, <1>2, <1>4, <2>1
  <2>3. T[k + 1] = T[k] + h + e(k + 1)
    BY <1>1, <2>2
  <2>4. e(k + 1) = Evened(p.msgs[k].len)
    BY <2>1 DEF e
  <2>. QED
    BY <1>5, <2>1, <2>3, <2>4 DEF h
<1>7. n - 1 = Len(p.msgs) /\ n = Len(p.msgs) + 1 /\ 1 \in 1..n
  BY <1>1, PacketFacts DEF n
<1>. QED
  BY <1>4, <1>5, <1>6, <1>7 DEF a

\* What comes later in a packet is behind.
LEMMA PlacesRise ==
  ASSUME NEW p \in Packet, NEW j \in 1..(Len(p.msgs) + 1), NEW k \in 1..(Len(p.msgs) + 1), j <= k
  PROVE  Place(p, j) <= Place(p, k)
<1>. DEFINE n == Len(p.msgs) + 1 - j + 1
            behind == {i \in 1..n : Place(p, j) <= Place(p, i + j - 1)}
<1>1. Len(p.msgs) \in Nat /\ n \in Nat
  BY PacketFacts
<1>2. 1 \in behind
  BY <1>1, PlaceFacts
<1>3. ASSUME NEW i \in 1..(n - 1), i \in behind PROVE i + 1 \in behind
  <2>1. i + j - 1 \in 1..Len(p.msgs) /\ i + j - 1 + 1 = i + 1 + j - 1
        /\ i + j - 1 \in 1..(Len(p.msgs) + 1) /\ i + 1 \in 1..n
    BY <1>1
  <2>2. Place(p, i + j - 1) <= Place(p, i + j - 1 + 1)
    <3>. DEFINE q == i + j - 1
    <3>1. q \in 1..Len(p.msgs) /\ q \in 1..(Len(p.msgs) + 1)
      BY <2>1
    <3>. HIDE DEF q
    <3>2. /\ Place(p, q + 1) = Place(p, q) + HeaderOf(p) + Evened(p.msgs[q].len)
          /\ Place(p, q) \in Nat /\ HeaderOf(p) \in Nat /\ Evened(p.msgs[q].len) \in Nat
      BY <3>1, PlaceFacts, PacketFacts
    <3>3. Place(p, q) <= Place(p, q + 1)
      BY <3>2
    <3>. QED
      BY <3>3 DEF q
  <2>. QED
    BY <1>1, <1>3, <2>1, <2>2, PlaceFacts
<1>4. k - j + 1 \in 1..n /\ k - j + 1 + j - 1 = k
  BY <1>1
<1>5. k - j + 1 \in behind
  <2>. HIDE DEF behind, n
  <2>. QED
    BY <1>1, <1>2, <1>3, <1>4, Upward
<1>. QED
  BY <1>4, <1>5

LEMMA ShownFacts ==
  ASSUME NEW p \in Packet
  PROVE  /\ DataLen(p) \in Nat
         /\ \A off : Shown(p, off) \in Nat /\ Gap(p, off) \in Nat
<1>1. DataLen(p) \in Nat
  <2>1. Len(p.msgs) + 1 \in 1..(Len(p.msgs) + 1) /\ p.cut \in Nat
    BY PacketFacts DEF Packet
  <2>2. Place(p, Len(p.msgs) + 1) \in Nat
    BY <2>1, PlaceFacts
  <2>. QED
    BY <2>1, <2>2 DEF DataLen
<1>2. ASSUME NEW off PROVE Shown(p, off) \in Nat /\ Gap(p, off) \in Nat
  <2>1. p.junk \in Nat /\ p.bad[2] \in Nat
    BY DEF Packet
  <2>2. CASE At(p, off) = {}
    BY <2>1, <2>2 DEF Shown, Gap
  <2>3. CASE At(p, off) # {}
    <3>. DEFINE k == CHOOSE i \in At(p, off) : TRUE
    <3>1. k \in At(p, off)
      BY <2>3
    <3>2. k \in 1..Len(p.msgs)
      BY <3>1, PacketFacts DEF At
    <3>3. p.msgs[k].len \in Nat /\ p.msgs[k].gap \in Nat
      BY <3>2, PacketFacts
    <3>4. Shown(p, off) = IF p.bad[1] = k THEN p.bad[2] ELSE p.msgs[k].len
      BY <2>3 DEF Shown
    <3>5. Gap(p, off) = p.msgs[k].gap
      BY <2>3 DEF Gap
    <3>. HIDE DEF k
    <3>. QED
      BY <2>1, <3>3, <3>4, <3>5
  <2>. QED
    BY <2>2, <2>3
<1>. QED
  BY <1>1, <1>2

-----------------------------------------------------------------------------
(* Single steps of a walk.                                                  *)

WalkStatus == {"NONE"} \cup Found \cup Ended

Walks == [num : Nat, off : Nat, hdr : Int, when : Int, data : Int, time : Int,
          status : WalkStatus]

\* The bytes of the message a walk points to that are behind its header, for the decoder.
MsgLen(p, w) == IF p.fmt = "16PP194" THEN Su16PP194_Msg ELSE Shown(p, w.hdr)

\* Where the offsets of a walk that has found a message agree.
Standing(p, w) ==
  /\ p.fmt \in Checked => w.hdr = w.off
  /\ p.fmt = "VIDEOF0" => w.off >= w.data

\* Why a walk that has ended finds nothing more.
Exhausted(p, w) ==
  /\ p.fmt \in Checked => \/ w.num >= p.count
                          \/ w.off >= DataLen(p)
                          \/ w.off + HeaderOf(p) + MsgLen(p, w) > DataLen(p)
  /\ p.fmt \in Unchecked => w.num >= p.count \/ (p.fmt = "CAN" /\ w.off >= DataLen(p))
  /\ p.fmt \in {"UARTF0", "DISCRETEF1"} => w.off >= DataLen(p)
  /\ p.fmt = "VIDEOF0" => w.data >= DataLen(p) /\ w.off >= w.data

\* What InsideData says of message k.
Inside(p, w, k) ==
  /\ p.fmt \in Checked => w.hdr = w.off /\ w.hdr + Claimed(p, w) <= DataLen(p)
  /\ (p.fmt \in {"UARTF0", "DISCRETEF1"} \/ (p.fmt \in {"CAN", "VIDEOF0"} /\ k > 1))
       => (IF w.when = Null THEN w.hdr ELSE w.when) < DataLen(p)

LEMMA EndsFacts ==
  ASSUME NEW w \in Walks, NEW st \in WalkStatus
  PROVE  LET v == Ends(w, st) IN
         /\ v \in Walks /\ v.status = st /\ v.num = w.num /\ v.off = w.off /\ v.hdr = w.hdr
         /\ v.data = w.data
BY DEF Ends, Walks

LEMMA PointedFacts ==
  ASSUME NEW w \in Walks, NEW at \in Int, NEW n \in Nat
  PROVE  LET v == Pointed(w, at, n) IN
         /\ v \in Walks /\ v.status = "OK" /\ v.num = w.num /\ v.off = w.off
         /\ v.hdr = at /\ v.when = at /\ v.data = at + n /\ v.time = w.time
<1>. DEFINE v == Pointed(w, at, n)
            d == at + n
<1>1. d \in Int /\ "OK" \in WalkStatus
  BY DEF WalkStatus, Found
<1>2. v = [w EXCEPT !.hdr = at, !.when = at, !.data = d, !.status = "OK"]
  BY DEF Pointed
<1>. HIDE DEF v, d
<1>3. v \in Walks
  BY <1>1, <1>2, Zenon DEF Walks
<1>4. v.status = "OK" /\ v.num = w.num /\ v.off = w.off /\ v.time = w.time
  BY <1>2 DEF Walks
<1>5. v.hdr = at /\ v.when = at /\ v.data = d
  BY <1>2 DEF Walks
<1>. QED
  BY <1>3, <1>4, <1>5 DEF v, d

LEMMA WholeFacts ==
  ASSUME NEW p \in Packet, NEW w \in Walks, NEW n \in Nat, NEW len \in Nat
  PROVE  LET v == Whole(p, w, n, len) IN
         /\ v \in Walks /\ v.num = w.num /\ v.off = w.off /\ v.hdr = w.hdr
         /\ \/ v.status = "BUFFER_OVERRUN" /\ w.off + n + len > DataLen(p)
            \/ /\ v.status = "OK" /\ v.when = w.hdr /\ v.data = w.hdr + n
               /\ w.off + n + len <= DataLen(p)
<1>1. w.off \in Nat /\ w.hdr \in Int /\ DataLen(p) \in Nat /\ "BUFFER_OVERRUN" \in WalkStatus
  BY ShownFacts DEF Walks, WalkStatus, Ended
<1>2. CASE w.off + n + len > DataLen(p)
  BY <1>1, <1>2, EndsFacts DEF Whole
<1>3. CASE ~(w.off + n + len > DataLen(p))
  BY <1>1, <1>3, PointedFacts DEF Whole
<1>. QED
  BY <1>2, <1>3

LEMMA NoWalkFacts ==
  /\ NoWalk \in Walks /\ NoWalk.num = 0 /\ NoWalk.off = 0 /\ NoWalk.hdr = Null
  /\ NoWalk.data = Null /\ NoWalk.time = 0 /\ NoWalk.status = "NONE"
BY DEF NoWalk, Walks, Null, WalkStatus

\* What the first call of a checked format does.
LEMMA CheckedFirstFacts ==
  ASSUME NEW p \in Packet, NEW n \in Nat, NEW len \in Nat
  PROVE  LET v == CheckedFirst(p, n, len) IN
         /\ v \in Walks /\ v.num = 0
         /\ \/ v.status = "NO_MORE_DATA" /\ p.count = 0
            \/ v.status = "BUFFER_OVERRUN" /\ (ChanSpec >= DataLen(p) \/ ChanSpec + n + len > DataLen(p))
            \/ /\ v.status = "OK" /\ v.off = ChanSpec /\ v.hdr = ChanSpec /\ v.when = ChanSpec
               /\ v.data = ChanSpec + n /\ p.count # 0
               /\ ChanSpec + n + len <= DataLen(p)
<1>. DEFINE w == [NoWalk EXCEPT !.off = ChanSpec, !.hdr = ChanSpec]
            u == [NoWalk EXCEPT !.off = ChanSpec]
<1>1. w \in Walks /\ w.num = 0 /\ w.off = ChanSpec /\ w.hdr = ChanSpec /\ u \in Walks /\ u.num = 0
  <2>1. ChanSpec \in Nat /\ ChanSpec \in Int
    BY DEF ChanSpec
  <2>2. w \in Walks /\ u \in Walks
    BY <2>1, NoWalkFacts, Zenon DEF Walks
  <2>. QED
    BY <2>2, NoWalkFacts DEF Walks
<1>2. p.count \in Nat /\ DataLen(p) \in Nat /\ ChanSpec \in Nat
      /\ "BUFFER_OVERRUN" \in WalkStatus /\ "NO_MORE_DATA" \in WalkStatus
  BY ShownFacts DEF Packet, ChanSpec, WalkStatus, Ended
<1>. HIDE DEF w, u
<1>3. CASE p.count = 0
  <2>1. CheckedFirst(p, n, len) = Ends(NoWalk, "NO_MORE_DATA")
    BY <1>3 DEF CheckedFirst
  <2>. QED
    BY <1>2, <1>3, <2>1, NoWalkFacts, EndsFacts
<1>4. CASE p.count # 0 /\ ChanSpec >= DataLen(p)
  <2>1. CheckedFirst(p, n, len) = Ends(u, "BUFFER_OVERRUN")
    BY <1>4 DEF CheckedFirst, u
  <2>. QED
    BY <1>1, <1>2, <1>4, <2>1, EndsFacts
<1>5. CASE p.count # 0 /\ ~(ChanSpec >= DataLen(p))
  <2>. DEFINE v == Whole(p, w, n, len)
  <2>1. CheckedFirst(p, n, len) = v
    BY <1>5 DEF CheckedFirst, w
  <2>2. /\ v \in Walks /\ v.num = w.num /\ v.off = w.off /\ v.hdr = w.hdr
        /\ \/ v.status = "BUFFER_OVERRUN" /\ w.off + n + len > DataLen(p)
           \/ /\ v.status = "OK" /\ v.when = w.hdr /\ v.data = w.hdr + n
              /\ w.off + n + len <= DataLen(p)
    BY <1>1, WholeFacts
  <2>. HIDE DEF v
  <2>. QED
    BY <1>1, <1>5, <2>1, <2>2
<1>. QED
  BY <1>3, <1>4, <1>5

\* What the calls after it do, at a message of `was' bytes before one of `len'.
LEMMA CheckedNextFacts ==
  ASSUME NEW p \in Packet, NEW w \in Walks, NEW n \in Nat, NEW was \in Nat, NEW len \in Nat
  PROVE  LET v == CheckedNext(p, w, n, was, len) IN
         /\ v \in Walks /\ v.num = w.num + 1
         /\ \/ v.status = "NO_MORE_DATA" /\ v.num >= p.count
            \/ /\ v.status = "BUFFER_OVERRUN" /\ v.num < p.count /\ v.off = w.off + n + was
               /\ v.off >= DataLen(p)
            \/ /\ v.off = w.off + n + was /\ v.hdr = w.hdr + n + was /\ v.num < p.count
               /\ v.status = "BUFFER_OVERRUN" /\ v.off + n + len > DataLen(p)
            \/ /\ v.off = w.off + n + was /\ v.hdr = w.hdr + n + was /\ v.num < p.count
               /\ v.status = "OK" /\ v.when = v.hdr /\ v.data = v.hdr + n
               /\ v.off < DataLen(p) /\ v.off + n + len <= DataLen(p)
<1>. DEFINE m == [w EXCEPT !.num = @ + 1, !.off = @ + n + was]
            c == [w EXCEPT !.num = @ + 1]
            h == [m EXCEPT !.hdr = @ + n + was]
<1>1. /\ m \in Walks /\ m.num = w.num + 1 /\ m.off = w.off + n + was
      /\ c \in Walks /\ c.num = w.num + 1
      /\ h \in Walks /\ h.num = w.num + 1 /\ h.off = w.off + n + was /\ h.hdr = w.hdr + n + was
  <2>1. w.num + 1 \in Nat /\ w.off + n + was \in Nat /\ w.hdr + n + was \in Int
    BY DEF Walks
  <2>2. m \in Walks /\ c \in Walks
    BY <2>1, Zenon DEF Walks
  <2>3. m.num = w.num + 1 /\ m.off = w.off + n + was /\ m.hdr = w.hdr
    BY DEF Walks
  <2>4. c.num = w.num + 1
    BY DEF Walks
  <2>. HIDE DEF m
  <2>5. h \in Walks
    BY <2>1, <2>2, <2>3, Zenon DEF Walks
  <2>6. h.num = m.num /\ h.off = m.off /\ h.hdr = m.hdr + n + was
    BY <2>2 DEF Walks
  <2>. QED
    BY <2>2, <2>3, <2>4, <2>5, <2>6
<1>2. p.count \in Nat /\ DataLen(p) \in Nat /\ w.num \in Nat /\ w.off \in Nat /\ w.hdr \in Int
      /\ "BUFFER_OVERRUN" \in WalkStatus /\ "NO_MORE_DATA" \in WalkStatus
  BY ShownFacts DEF Packet, Walks, WalkStatus, Ended
<1>3. CASE w.num + 1 >= p.count
  <2>1. CheckedNext(p, w, n, was, len) = Ends(c, "NO_MORE_DATA")
    <3>1. ~(w.num + 1 < p.count)
      BY <1>2, <1>3
    <3>. QED
      BY <1>3, <3>1 DEF CheckedNext, c
  <2>. HIDE DEF c
  <2>. QED
    BY <1>1, <1>2, <1>3, <2>1, EndsFacts
<1>4. CASE w.num + 1 < p.count /\ m.off >= DataLen(p)
  <2>1. CheckedNext(p, w, n, was, len) = Ends(m, "BUFFER_OVERRUN")
    <3>1. ~(w.num + 1 >= p.count)
      BY <1>2, <1>4
    <3>. QED
      BY <1>4, <3>1 DEF CheckedNext, m
  <2>. HIDE DEF m
  <2>. QED
    BY <1>1, <1>2, <1>4, <2>1, EndsFacts
<1>5. CASE w.num + 1 < p.count /\ ~(m.off >= DataLen(p))
  <2>. DEFINE v == Whole(p, h, n, len)
  <2>1. CheckedNext(p, w, n, was, len) = v
    <3>1. ~(w.num + 1 >= p.count)
      BY <1>2, <1>5
    <3>. QED
      BY <1>5, <3>1 DEF CheckedNext, m, h
  <2>2. m.off < DataLen(p)
    <3>. HIDE DEF m
    <3>. QED
      BY <1>1, <1>2, <1>5
  <2>. HIDE DEF m, h
  <2>3. /\ v \in Walks /\ v.num = h.num /\ v.off = h.off /\ v.hdr = h.hdr
        /\ \/ v.status = "BUFFER_OVERRUN" /\ h.off + n + len > DataLen(p)
           \/ /\ v.status = "OK" /\ v.when = h.hdr /\ v.data = h.hdr + n
              /\ h.off + n + len <= DataLen(p)
    BY <1>1, WholeFacts
  <2>. HIDE DEF v
  <2>. QED
    BY <1>1, <1>5, <2>1, <2>2, <2>3
<1>6. w.num + 1 >= p.count \/ w.num + 1 < p.count
  BY <1>2
<1>. HIDE DEF m
<1>. QED
  BY <1>3, <1>4, <1>5, <1>6

LEMMA CountedNextFacts ==
  ASSUME NEW p \in Packet, NEW was \in Walks, NEW w \in Walks, w.num = was.num
  PROVE  LET v == CountedNext(p, was, w) IN
         /\ v \in Walks /\ v.num = was.num + 1
         /\ \/ v.status = "NO_MORE_DATA" /\ v.num >= p.count
            \/ /\ v.num < p.count /\ v.status = w.status /\ v.off = w.off /\ v.hdr = w.hdr
               /\ v.when = w.when /\ v.data = w.data /\ v.time = w.time
<1>. DEFINE c == [was EXCEPT !.num = @ + 1]
            u == [w EXCEPT !.num = @ + 1]
<1>1. p.count \in Nat /\ was.num \in Nat /\ was.num + 1 \in Nat /\ "NO_MORE_DATA" \in WalkStatus
  BY DEF Packet, Walks, WalkStatus, Ended
<1>2. c \in Walks /\ u \in Walks
  BY <1>1, Zenon DEF Walks
<1>3. c.num = was.num + 1 /\ u.num = was.num + 1 /\ u.status = w.status /\ u.off = w.off
  BY DEF Walks
<1>4. u.hdr = w.hdr /\ u.when = w.when /\ u.data = w.data /\ u.time = w.time
  BY DEF Walks
<1>5. CASE was.num + 1 >= p.count
  <2>1. CountedNext(p, was, w) = Ends(c, "NO_MORE_DATA")
    BY <1>5 DEF CountedNext
  <2>. HIDE DEF c
  <2>. QED
    BY <1>1, <1>2, <1>3, <1>5, <2>1, EndsFacts
<1>6. CASE ~(was.num + 1 >= p.count)
  <2>1. CountedNext(p, was, w) = u
    BY <1>6 DEF CountedNext
  <2>. HIDE DEF u
  <2>. QED
    BY <1>1, <1>2, <1>3, <1>4, <1>6, <2>1
<1>. QED
  BY <1>5, <1>6

\* A walk that has found a message with its parts at these places.
FoundMsg(w, off, hdr, data, when) ==
  [w EXCEPT !.off = off, !.hdr = hdr, !.data = data, !.status = "OK", !.when = when]

LEMMA FoundMsgFacts ==
  ASSUME NEW w \in Walks, NEW off \in Nat, NEW hdr \in Int, NEW data \in Int, NEW when \in Int
  PROVE  LET v == FoundMsg(w, off, hdr, data, when) IN
         /\ v \in Walks /\ v.status = "OK" /\ v.num = w.num
         /\ v.off = off /\ v.hdr = hdr /\ v.data = data /\ v.when = when
<1>. DEFINE v == FoundMsg(w, off, hdr, data, when)
<1>1. "OK" \in WalkStatus
  BY DEF WalkStatus, Found
<1>2. v \in Walks
  BY <1>1, Zenon DEF Walks, FoundMsg
<1>3. v.status = "OK" /\ v.num = w.num
  BY DEF Walks, FoundMsg
<1>4. v.off = off /\ v.hdr = hdr
  BY DEF Walks, FoundMsg
<1>5. v.data = data /\ v.when = when
  BY DEF Walks, FoundMsg
<1>. HIDE DEF v
<1>. QED
  BY <1>2, <1>3, <1>4, <1>5 DEF v

\* A message with its stamp before it, and without.
StampedMsg(p, w, n, len) == Filled(p, w, TRUE, n, len)
PlainMsg(p, w, n, len) == Filled(p, w, FALSE, n, len)

LEMMA StampedMsgFacts ==
  ASSUME NEW p, NEW w \in Walks, NEW n \in Nat, NEW len \in Nat
  PROVE  LET v == StampedMsg(p, w, n, len) IN
         /\ v \in Walks /\ v.status = "OK" /\ v.num = w.num
         /\ v.off = w.off + Stamp + n + len /\ v.hdr = w.off + Stamp
         /\ v.data = w.off + Stamp + n /\ v.when = w.off
<1>. DEFINE v == StampedMsg(p, w, n, len)
            hdr == w.off + Stamp
            data == hdr + n
            off == hdr + n + len
            when == w.off
<1>1. hdr \in Int /\ data \in Int /\ off \in Nat /\ when \in Int
  BY DEF Walks, Stamp
<1>2. v = FoundMsg(w, off, hdr, data, when)
  BY DEF StampedMsg, Filled, FoundMsg
<1>. HIDE DEF v, hdr, data, off, when
<1>3. /\ v \in Walks /\ v.status = "OK" /\ v.num = w.num
      /\ v.off = off /\ v.hdr = hdr /\ v.data = data /\ v.when = when
  BY <1>1, <1>2, FoundMsgFacts
<1>. QED
  BY <1>3 DEF v, hdr, data, off, when

LEMMA PlainMsgFacts ==
  ASSUME NEW p, NEW w \in Walks, NEW n \in Nat, NEW len \in Nat
  PROVE  LET v == PlainMsg(p, w, n, len) IN
         /\ v \in Walks /\ v.status = "OK" /\ v.num = w.num
         /\ v.off = w.off + n + len /\ v.hdr = w.off /\ v.data = w.off + n /\ v.when = Null
<1>. DEFINE v == PlainMsg(p, w, n, len)
            hdr == w.off + 0
            data == hdr + n
            off == hdr + n + len
<1>1. hdr \in Int /\ data \in Int /\ off \in Nat /\ Null \in Int /\ hdr = w.off
  BY DEF Walks, Null
<1>2. v = FoundMsg(w, off, hdr, data, Null)
  BY DEF PlainMsg, Filled, FoundMsg
<1>. HIDE DEF v, hdr, data, off
<1>3. /\ v \in Walks /\ v.status = "OK" /\ v.num = w.num
      /\ v.off = off /\ v.hdr = hdr /\ v.data = data /\ v.when = Null
  BY <1>1, <1>2, FoundMsgFacts
<1>. QED
  BY <1>1, <1>3 DEF v, data, off

LEMMA IndexMsgFacts ==
  ASSUME NEW p \in Packet, p.fmt = "INDEX", NEW w \in Walks, NEW num \in Nat
  PROVE  LET v == IndexMsg(p, w, num)
             at == w.off + num * (HeaderOf(p) + FileOffset)
         IN /\ v \in Walks /\ v.num = w.num /\ v.off = w.off
            /\ v.hdr = at /\ v.when = at /\ v.data = at + HeaderOf(p)
            /\ v.status = CASE p.node -> "INDEX_NODE"
                            [] ~p.node /\ num < p.count - 1 -> "INDEX_ROOT"
                            [] OTHER -> "INDEX_ROOT_LINK"
<1>. DEFINE before == Stamp + Stamped(p) + (IF p.node THEN SuIndex_NodeData ELSE 0)
            at == w.off + num * (before + FileOffset)
            st == CASE p.node -> "INDEX_NODE"
                    [] ~p.node /\ num < p.count - 1 -> "INDEX_ROOT"
                    [] OTHER -> "INDEX_ROOT_LINK"
            u == Pointed(w, at, before)
<1>1. before = HeaderOf(p)
  BY DEF HeaderOf
<1>2. before \in Nat
  BY <1>1, PacketFacts
<1>. HIDE DEF before
<1>3. at \in Int
  <2>1. before + FileOffset \in Nat
    BY <1>2 DEF FileOffset
  <2>2. num * (before + FileOffset) \in Nat
    <3>. DEFINE c == before + FileOffset
    <3>. HIDE DEF c
    <3>1. c \in Nat => num * c \in Nat
      OBVIOUS
    <3>. QED
      BY <2>1, <3>1 DEF c
  <2>. DEFINE d == num * (before + FileOffset)
  <2>. HIDE DEF d
  <2>3. d \in Nat => w.off + d \in Int
    BY DEF Walks
  <2>. QED
    BY <2>2, <2>3 DEF d
<1>4. st \in WalkStatus
  BY DEF WalkStatus, Found
<1>5. IndexMsg(p, w, num) = Ends(u, st)
  BY Zenon DEF IndexMsg, before
<1>. HIDE DEF at, st
<1>6. u \in Walks /\ u.num = w.num /\ u.off = w.off /\ u.hdr = at /\ u.when = at /\ u.data = at + before
  BY <1>2, <1>3, PointedFacts
<1>. HIDE DEF u
<1>7. LET v == Ends(u, st) IN v \in Walks /\ v.status = st /\ v.num = u.num /\ v.off = u.off
                              /\ v.hdr = u.hdr /\ v.data = u.data
  BY <1>4, <1>6, EndsFacts
<1>8. Ends(u, st).when = u.when
  BY <1>6 DEF Ends, Walks
<1>. QED
  BY <1>1, <1>5, <1>6, <1>7, <1>8 DEF at, st

LEMMA CanMsgFacts ==
  ASSUME NEW p \in Packet, NEW w \in Walks
  PROVE  LET v == CanMsg(p, w) IN
         /\ v \in Walks /\ v.status = "OK" /\ v.num = w.num
         /\ v.off = w.off + SuCan_Header + Evened(Shown(p, w.off))
         /\ v.hdr = w.off /\ v.data = w.off + SuCan_Header /\ v.when = w.off
<1>. DEFINE len == Evened(Shown(p, w.off))
            u == PlainMsg(p, w, SuCan_Header, len)
            v == [u EXCEPT !.when = w.off]
<1>1. len \in Nat /\ SuCan_Header \in Nat /\ w.off \in Nat /\ w.off \in Int
  BY ShownFacts DEF Evened, SuCan_Header, Walks
<1>. HIDE DEF len
<1>2. /\ u \in Walks /\ u.status = "OK" /\ u.num = w.num
      /\ u.off = w.off + SuCan_Header + len /\ u.hdr = w.off
      /\ u.data = w.off + SuCan_Header
  BY <1>1, PlainMsgFacts
<1>. HIDE DEF u
<1>3. /\ v \in Walks /\ v.status = u.status /\ v.num = u.num
      /\ v.off = u.off /\ v.hdr = u.hdr /\ v.data = u.data /\ v.when = w.off
  <2>1. v \in Walks
    BY <1>1, <1>2, Zenon DEF Walks
  <2>. QED
    BY <1>2, <2>1 DEF Walks
<1>4. CanMsg(p, w) = v
  BY DEF CanMsg, PlainMsg, u, len
<1>. HIDE DEF v
<1>. QED
  BY <1>2, <1>3, <1>4 DEF len

-----------------------------------------------------------------------------
(* The three families of decoders.                                          *)

\* The bytes of the next message of a checked format.
NextLen(p, w) ==
  IF p.fmt = "16PP194" THEN Su16PP194_Msg ELSE Shown(p, w.hdr + HeaderOf(p) + MsgLen(p, w))

LEMMA NextChecked ==
  ASSUME NEW p \in Packet, p.fmt \in Checked, NEW w \in Walks
  PROVE  /\ DecodeNext(p, w) = CheckedNext(p, w, HeaderOf(p), MsgLen(p, w), NextLen(p, w))
         /\ MsgLen(p, w) \in Nat /\ NextLen(p, w) \in Nat
<1>1. MsgLen(p, w) \in Nat /\ NextLen(p, w) \in Nat
  BY ShownFacts DEF MsgLen, NextLen, Su16PP194_Msg
<1>2. CASE p.fmt = "1553F1"
  BY <1>1, <1>2 DEF DecodeNext, HeaderOf, MsgLen, NextLen, Next1553F1
<1>3. CASE p.fmt = "16PP194"
  BY <1>1, <1>3 DEF DecodeNext, HeaderOf, MsgLen, NextLen, Next16PP194
<1>4. CASE p.fmt = "MSGF0"
  BY <1>1, <1>4 DEF DecodeNext, HeaderOf, MsgLen, NextLen, NextMSGF0
<1>. QED
  BY <1>1, <1>2, <1>3, <1>4 DEF Checked

\* The bytes of the first one.
FirstLen(p) == IF p.fmt = "16PP194" THEN Su16PP194_Msg ELSE Shown(p, ChanSpec)

LEMMA FirstChecked ==
  ASSUME NEW p \in Packet, p.fmt \in Checked
  PROVE  /\ DecodeFirst(p) = IF p.fmt = "1553F1" /\ p.count > MAX_COUNT
                             THEN Ends(NoWalk, "BUFFER_OVERRUN")
                             ELSE CheckedFirst(p, HeaderOf(p), FirstLen(p))
         /\ FirstLen(p) \in Nat
<1>1. FirstLen(p) \in Nat
  BY ShownFacts DEF FirstLen, Su16PP194_Msg
<1>2. CASE p.fmt = "1553F1"
  BY <1>1, <1>2 DEF DecodeFirst, HeaderOf, FirstLen, First1553F1
<1>3. CASE p.fmt = "16PP194"
  BY <1>1, <1>3 DEF DecodeFirst, HeaderOf, FirstLen, First16PP194
<1>4. CASE p.fmt = "MSGF0"
  BY <1>1, <1>4 DEF DecodeFirst, HeaderOf, FirstLen, FirstMSGF0
<1>. QED
  BY <1>1, <1>2, <1>3, <1>4 DEF Checked

\* Of the formats whose count is trusted, but for CAN: w moved on to the next message.
Onward(p, w) ==
  CASE p.fmt = "ARINC429F0" ->
         LET step == SuArinc429F0_Header + SuArinc429F0_Data IN
         Pointed([w EXCEPT !.off = @ + step, !.time = @ + Gap(p, w.hdr + step)],
                 w.hdr + step, SuArinc429F0_Header)
    [] p.fmt = "ETHERNETF0" ->
         Pointed(w, w.hdr + SuEthernetF0_Header + Evened(Shown(p, w.hdr)), SuEthernetF0_Header)
    [] p.fmt = "ETHERNETF1" ->
         Pointed(w, w.hdr + SuEthernetF1_Header + Evened(Shown(p, w.hdr)), SuEthernetF1_Header)
    [] p.fmt = "INDEX" -> IndexMsg(p, w, w.num + 1)

LEMMA NextCounted ==
  ASSUME NEW p \in Packet, p.fmt \in Unchecked \ {"CAN"}, NEW w \in Walks
  PROVE  /\ DecodeNext(p, w) = CountedNext(p, w, Onward(p, w))
         /\ Onward(p, w) \in Walks /\ Onward(p, w).num = w.num /\ Onward(p, w).status \in Found
         /\ p.fmt \in {"ETHERNETF0", "ETHERNETF1"} =>
              LET at == w.hdr + HeaderOf(p) + Evened(Shown(p, w.hdr)) IN
              /\ Onward(p, w).status = "OK" /\ Onward(p, w).hdr = at /\ Onward(p, w).when = at
              /\ Onward(p, w).data = at + HeaderOf(p)
         /\ p.fmt = "ARINC429F0" =>
              LET at == w.hdr + SuArinc429F0_Header + SuArinc429F0_Data IN
              /\ Onward(p, w).status = "OK" /\ Onward(p, w).hdr = at /\ Onward(p, w).when = at
              /\ Onward(p, w).data = at + HeaderOf(p)
              /\ Onward(p, w).time = w.time + Gap(p, at)
<1>. DEFINE len == Evened(Shown(p, w.hdr))
<1>1. len \in Nat /\ w.hdr \in Int /\ w.num + 1 \in Nat /\ "OK" \in Found
  BY ShownFacts DEF Evened, Walks, Found
<1>. HIDE DEF len
<1>2. CASE p.fmt = "ARINC429F0"
  <2>. DEFINE step == SuArinc429F0_Header + SuArinc429F0_Data
              at == w.hdr + step
              u == [w EXCEPT !.off = @ + step, !.time = @ + Gap(p, w.hdr + step)]
  <2>1. step \in Nat /\ SuArinc429F0_Header \in Nat /\ at = w.hdr + SuArinc429F0_Header + SuArinc429F0_Data
        /\ at \in Int /\ HeaderOf(p) = SuArinc429F0_Header
    BY <1>1, <1>2 DEF SuArinc429F0_Header, SuArinc429F0_Data, HeaderOf
  <2>2. w.off + step \in Nat /\ w.time + Gap(p, at) \in Int
    <3>1. Gap(p, at) \in Nat /\ w.off \in Nat /\ w.time \in Int
      BY ShownFacts DEF Walks
    <3>. QED
      BY <2>1, <3>1
  <2>. HIDE DEF step
  <2>3. u \in Walks /\ u.num = w.num /\ u.time = w.time + Gap(p, at)
    <3>1. u \in Walks
      BY <2>2, Zenon DEF Walks
    <3>2. u.num = w.num /\ u.time = w.time + Gap(p, at)
      BY DEF Walks
    <3>. QED
      BY <3>1, <3>2
  <2>4. Onward(p, w) = Pointed(u, at, SuArinc429F0_Header)
    BY <1>2 DEF Onward, step
  <2>5. DecodeNext(p, w) = CountedNext(p, w, Pointed(u, at, SuArinc429F0_Header))
    BY <1>2 DEF DecodeNext, NextArinc429F0, step
  <2>. HIDE DEF u, at
  <2>. QED
    BY <1>1, <1>2, <2>1, <2>3, <2>4, <2>5, PointedFacts
<1>3. CASE p.fmt = "ETHERNETF0"
  <2>. DEFINE at == w.hdr + SuEthernetF0_Header + len
  <2>1. at \in Int /\ SuEthernetF0_Header \in Nat /\ HeaderOf(p) = SuEthernetF0_Header
    BY <1>1, <1>3 DEF SuEthernetF0_Header, HeaderOf
  <2>2. Onward(p, w) = Pointed(w, at, SuEthernetF0_Header)
    BY <1>3 DEF Onward, len
  <2>3. DecodeNext(p, w) = CountedNext(p, w, Pointed(w, at, SuEthernetF0_Header))
    BY <1>3 DEF DecodeNext, NextEthernetF0, len
  <2>. QED
    BY <1>1, <1>3, <2>1, <2>2, <2>3, PointedFacts DEF len
<1>4. CASE p.fmt = "ETHERNETF1"
  <2>. DEFINE at == w.hdr + SuEthernetF1_Header + len
  <2>1. at \in Int /\ SuEthernetF1_Header \in Nat /\ HeaderOf(p) = SuEthernetF1_Header
    BY <1>1, <1>4 DEF SuEthernetF1_Header, HeaderOf
  <2>2. Onward(p, w) = Pointed(w, at, SuEthernetF1_Header)
    BY <1>4 DEF Onward, len
  <2>3. DecodeNext(p, w) = CountedNext(p, w, Pointed(w, at, SuEthernetF1_Header))
    BY <1>4 DEF DecodeNext, NextEthernetF1, len
  <2>. QED
    BY <1>1, <1>4, <2>1, <2>2, <2>3, PointedFacts DEF len
<1>5. CASE p.fmt = "INDEX"
  <2>1. Onward(p, w) = IndexMsg(p, w, w.num + 1)
    BY <1>5 DEF Onward
  <2>2. DecodeNext(p, w) = CountedNext(p, w, IndexMsg(p, w, w.num + 1))
    BY <1>5 DEF DecodeNext, NextIndex
  <2>3. IndexMsg(p, w, w.num + 1) \in Walks /\ IndexMsg(p, w, w.num + 1).num = w.num
    BY <1>1, <1>5, IndexMsgFacts
  <2>4. IndexMsg(p, w, w.num + 1).status \in Found
    BY <1>1, <1>5, IndexMsgFacts DEF Found
  <2>. QED
    BY <1>5, <2>1, <2>2, <2>3, <2>4
<1>. QED
  BY <1>2, <1>3, <1>4, <1>5 DEF Unchecked

\* Of the formats without a count: the bytes of the message at w.off, and w at that message.
BodyLen(p, w) ==
  CASE p.fmt = "UARTF0" -> Evened(Shown(p, w.off))
    [] p.fmt = "DISCRETEF1" -> SuDiscrete_Data
    [] p.fmt = "VIDEOF0" -> TransportStream

BodyAt(p, w) ==
  CASE p.fmt = "UARTF0" /\ p.stamped -> StampedMsg(p, w, SuUartF0_Header, BodyLen(p, w))
    [] p.fmt = "UARTF0" /\ ~p.stamped -> PlainMsg(p, w, SuUartF0_Header, BodyLen(p, w))
    [] p.fmt = "DISCRETEF1" -> StampedMsg(p, w, 0, BodyLen(p, w))
    [] p.fmt = "VIDEOF0" /\ p.stamped -> StampedMsg(p, w, 0, BodyLen(p, w))
    [] p.fmt = "VIDEOF0" /\ ~p.stamped -> PlainMsg(p, w, 0, BodyLen(p, w))

LEMMA BodyFacts ==
  ASSUME NEW p \in Packet, p.fmt \in Uncounted, NEW w \in Walks
  PROVE  LET v == BodyAt(p, w) IN
         /\ v \in Walks /\ v.status = "OK" /\ v.num = w.num
         /\ BodyLen(p, w) \in Nat /\ w.off \in Nat
         /\ v.off = w.off + HeaderOf(p) + BodyLen(p, w) /\ v.data = w.off + HeaderOf(p)
         /\ v.when = IF p.fmt \in {"UARTF0", "VIDEOF0"} /\ ~p.stamped THEN Null ELSE w.off
         /\ v.hdr = IF p.fmt \in {"UARTF0", "VIDEOF0"} /\ ~p.stamped THEN w.off ELSE w.off + Stamp
         /\ (IF v.when = Null THEN v.hdr ELSE v.when) = w.off
<1>. DEFINE len == BodyLen(p, w)
            v == BodyAt(p, w)
            plain == p.fmt \in {"UARTF0", "VIDEOF0"} /\ ~p.stamped
<1>1. len \in Nat /\ w.off \in Nat /\ 0 \in Nat /\ SuUartF0_Header \in Nat /\ p.stamped \in BOOLEAN
      /\ w.off # Null
  <2>1. w.off \in Nat /\ p.stamped \in BOOLEAN /\ SuUartF0_Header \in Nat
    BY DEF Walks, Packet, SuUartF0_Header
  <2>2. len \in Nat
    BY ShownFacts DEF BodyLen, Uncounted, Evened, SuDiscrete_Data, TransportStream
  <2>. QED
    BY <2>1, <2>2 DEF Null
<1>2. CASE p.fmt = "UARTF0" /\ p.stamped
  <2>1. v = StampedMsg(p, w, SuUartF0_Header, len)
    BY <1>2 DEF BodyAt
  <2>2. HeaderOf(p) = Stamp + SuUartF0_Header /\ Stamp \in Nat
    BY <1>2 DEF HeaderOf, Stamped, Stamp
  <2>. HIDE DEF v, len
  <2>3. /\ v \in Walks /\ v.status = "OK" /\ v.num = w.num
        /\ v.off = w.off + HeaderOf(p) + len /\ v.data = w.off + HeaderOf(p)
        /\ v.when = w.off /\ v.hdr = w.off + Stamp
    BY <1>1, <2>1, <2>2, StampedMsgFacts
  <2>. QED
    BY <1>1, <1>2, <2>3 DEF len, v
<1>3. CASE p.fmt = "UARTF0" /\ ~p.stamped
  <2>1. v = PlainMsg(p, w, SuUartF0_Header, len)
    BY <1>3 DEF BodyAt
  <2>2. HeaderOf(p) = SuUartF0_Header
    BY <1>3 DEF HeaderOf, Stamped, SuUartF0_Header
  <2>. HIDE DEF v, len
  <2>3. /\ v \in Walks /\ v.status = "OK" /\ v.num = w.num
        /\ v.off = w.off + HeaderOf(p) + len /\ v.data = w.off + HeaderOf(p)
        /\ v.when = Null /\ v.hdr = w.off
    BY <1>1, <2>1, <2>2, PlainMsgFacts
  <2>. QED
    BY <1>1, <1>3, <2>3 DEF len, v
<1>4. CASE p.fmt = "DISCRETEF1" \/ (p.fmt = "VIDEOF0" /\ p.stamped)
  <2>1. v = StampedMsg(p, w, 0, len)
    BY <1>4 DEF BodyAt
  <2>2. HeaderOf(p) = Stamp /\ Stamp \in Nat
    BY <1>4 DEF HeaderOf, Stamped, Stamp
  <2>. HIDE DEF v, len
  <2>3. /\ v \in Walks /\ v.status = "OK" /\ v.num = w.num
        /\ v.off = w.off + HeaderOf(p) + len /\ v.data = w.off + HeaderOf(p)
        /\ v.when = w.off /\ v.hdr = w.off + Stamp
    BY <1>1, <2>1, <2>2, StampedMsgFacts
  <2>. QED
    BY <1>1, <1>4, <2>3 DEF len, v
<1>5. CASE p.fmt = "VIDEOF0" /\ ~p.stamped
  <2>1. v = PlainMsg(p, w, 0, len)
    BY <1>5 DEF BodyAt
  <2>2. HeaderOf(p) = 0
    BY <1>5 DEF HeaderOf, Stamped
  <2>. HIDE DEF v, len
  <2>3. /\ v \in Walks /\ v.status = "OK" /\ v.num = w.num
        /\ v.off = w.off + HeaderOf(p) + len /\ v.data = w.off + HeaderOf(p)
        /\ v.when = Null /\ v.hdr = w.off
    BY <1>1, <2>1, <2>2, PlainMsgFacts
  <2>. QED
    BY <1>1, <1>5, <2>3 DEF len, v
<1>. QED
  BY <1>1, <1>2, <1>3, <1>4, <1>5 DEF Uncounted

LEMMA NextUncounted ==
  ASSUME NEW p \in Packet, p.fmt \in Uncounted, NEW w \in Walks
  PROVE  DecodeNext(p, w) =
           IF p.fmt = "VIDEOF0"
             THEN IF BodyAt(p, w).data >= DataLen(p) THEN Ends(BodyAt(p, w), "NO_MORE_DATA")
                  ELSE BodyAt(p, w)
             ELSE IF DataLen(p) <= w.off THEN Ends(w, "NO_MORE_DATA") ELSE BodyAt(p, w)
<1>0. p.stamped = TRUE \/ p.stamped = FALSE
  BY DEF Packet
<1>1. CASE p.fmt = "UARTF0"
  <2>1. DecodeNext(p, w) = Left(p, w, UartMsg(p, w))
    BY <1>1 DEF DecodeNext, NextUartF0
  <2>2. UartMsg(p, w) = BodyAt(p, w)
    BY <1>0, <1>1 DEF UartMsg, BodyAt, BodyLen, StampedMsg, PlainMsg
  <2>. QED
    BY <1>1, <2>1, <2>2 DEF Left
<1>2. CASE p.fmt = "DISCRETEF1"
  <2>1. DecodeNext(p, w) = Left(p, w, BodyAt(p, w))
    BY <1>2 DEF DecodeNext, NextDiscreteF1, BodyAt, BodyLen, StampedMsg
  <2>. QED
    BY <1>2, <2>1 DEF Left
<1>3. CASE p.fmt = "VIDEOF0"
  <2>1. Filled(p, w, p.stamped, 0, TransportStream) = BodyAt(p, w)
    BY <1>0, <1>3 DEF BodyAt, BodyLen, StampedMsg, PlainMsg
  <2>2. DecodeNext(p, w) = NextVideoF0(p, w)
    BY <1>3 DEF DecodeNext
  <2>. QED
    BY <1>3, <2>1, <2>2, Zenon DEF NextVideoF0
<1>. QED
  BY <1>1, <1>2, <1>3 DEF Uncounted

LEMMA NextCanFacts ==
  ASSUME NEW p \in Packet, p.fmt = "CAN", NEW w \in Walks
  PROVE  LET v == DecodeNext(p, w)
             m == [w EXCEPT !.num = @ + 1]
         IN /\ m \in Walks /\ m.num = w.num + 1 /\ m.off = w.off
            /\ v = IF w.num + 1 >= p.count \/ DataLen(p) <= w.off THEN Ends(m, "NO_MORE_DATA")
                   ELSE CanMsg(p, m)
<1>. DEFINE m == [w EXCEPT !.num = @ + 1]
<1>1. m \in Walks /\ m.num = w.num + 1 /\ m.off = w.off
  <2>1. w.num + 1 \in Nat
    BY DEF Walks
  <2>2. m \in Walks
    BY <2>1, Zenon DEF Walks
  <2>. QED
    BY <2>2 DEF Walks
<1>2. DecodeNext(p, w) = IF m.num >= p.count THEN Ends(m, "NO_MORE_DATA")
                         ELSE Left(p, m, CanMsg(p, m))
  BY Zenon DEF DecodeNext, NextCan
<1>. HIDE DEF m
<1>3. DecodeNext(p, w) = IF w.num + 1 >= p.count \/ DataLen(p) <= w.off
                           THEN Ends(m, "NO_MORE_DATA") ELSE CanMsg(p, m)
  BY <1>1, <1>2 DEF Left
<1>. QED
  BY <1>1, <1>3 DEF m

-----------------------------------------------------------------------------
(* Every packet, sound or damaged.                                          *)

\* What a call that is not the first returns.
Goes(p, v) ==
  /\ v \in Walks /\ v.status \in Found \cup Ended
  /\ v.status \in Ended => Exhausted(p, v)
  /\ v.status \in Found => Standing(p, v) /\ \A k \in Nat : Inside(p, v, k)

LEMMA NextCheckedGoes ==
  ASSUME NEW p \in Packet, p.fmt \in Checked, NEW w \in Walks,
         Standing(p, w) \/ Exhausted(p, w)
  PROVE  /\ Goes(p, DecodeNext(p, w))
         /\ Exhausted(p, w) => DecodeNext(p, w).status \in Ended
<1>. DEFINE n == HeaderOf(p)
            was == MsgLen(p, w)
            len == NextLen(p, w)
            v == DecodeNext(p, w)
<1>1. n \in Nat /\ was \in Nat /\ len \in Nat /\ v = CheckedNext(p, w, n, was, len)
  BY PacketFacts, NextChecked
<1>2. w.off \in Nat /\ w.hdr \in Int /\ w.num \in Nat /\ p.count \in Nat /\ DataLen(p) \in Nat
  BY ShownFacts DEF Walks, Packet
<1>3. p.fmt \notin Unchecked /\ p.fmt \notin Uncounted
      /\ p.fmt \notin {"UARTF0", "DISCRETEF1", "CAN", "VIDEOF0"}
  BY DEF Checked, Unchecked, Uncounted
<1>4. v.hdr = w.hdr + n + was => MsgLen(p, v) = len
  BY DEF MsgLen, NextLen
<1>. DEFINE u == CheckedNext(p, w, n, was, len)
<1>0. v = u
  BY <1>1
<1>. HIDE DEF v, n, was, len
<1>01. /\ u \in Walks /\ u.num = w.num + 1
       /\ \/ u.status = "NO_MORE_DATA" /\ u.num >= p.count
          \/ /\ u.status = "BUFFER_OVERRUN" /\ u.num < p.count /\ u.off = w.off + n + was
             /\ u.off >= DataLen(p)
          \/ /\ u.off = w.off + n + was /\ u.hdr = w.hdr + n + was /\ u.num < p.count
             /\ u.status = "BUFFER_OVERRUN" /\ u.off + n + len > DataLen(p)
          \/ /\ u.off = w.off + n + was /\ u.hdr = w.hdr + n + was /\ u.num < p.count
             /\ u.status = "OK" /\ u.when = u.hdr /\ u.data = u.hdr + n
             /\ u.off < DataLen(p) /\ u.off + n + len <= DataLen(p)
  BY <1>1, CheckedNextFacts
<1>. HIDE DEF u
<1>5. v \in Walks /\ v.num = w.num + 1 /\ v.hdr \in Int
  BY <1>0, <1>01 DEF Walks
<1>6. CASE v.status = "NO_MORE_DATA" /\ v.num >= p.count
  BY <1>3, <1>5, <1>6 DEF Goes, Exhausted, Found, Ended, v
<1>7. CASE v.status = "BUFFER_OVERRUN" /\ v.off >= DataLen(p)
  BY <1>3, <1>5, <1>7 DEF Goes, Exhausted, Found, Ended, v
<1>8. CASE /\ v.off = w.off + n + was /\ v.hdr = w.hdr + n + was
           /\ v.status = "BUFFER_OVERRUN" /\ v.off + n + len > DataLen(p)
  BY <1>3, <1>4, <1>5, <1>8 DEF Goes, Exhausted, Found, Ended, n, v
<1>9. CASE /\ v.off = w.off + n + was /\ v.hdr = w.hdr + n + was /\ v.num < p.count
           /\ v.status = "OK" /\ v.data = v.hdr + n
           /\ v.off < DataLen(p) /\ v.off + n + len <= DataLen(p)
  <2>1. ~Exhausted(p, w)
    <3>1. ~(w.num >= p.count) /\ ~(w.off >= DataLen(p)) /\ ~(w.off + n + was > DataLen(p))
      BY <1>1, <1>2, <1>5, <1>9
    <3>. QED
      BY <3>1 DEF Exhausted, n, was
  <2>2. v.off = v.hdr
    BY <1>9, <2>1 DEF Standing
  <2>3. v.hdr + Claimed(p, v) <= DataLen(p)
    <3>1. CASE p.fmt = "16PP194"
      <4>1. Claimed(p, v) = len /\ n = 0
        BY <3>1 DEF Claimed, NextLen, HeaderOf, n, len
      <4>. QED
        BY <1>1, <1>2, <1>5, <1>9, <2>2, <4>1
    <3>2. CASE p.fmt # "16PP194"
      <4>1. Claimed(p, v) = n + len
        <5>1. len = Shown(p, v.hdr)
          BY <1>4, <1>9, <3>2 DEF MsgLen
        <5>2. Claimed(p, v) = (v.data - v.hdr) + Shown(p, v.hdr)
          BY <3>2 DEF Claimed
        <5>3. v.data - v.hdr = n
          BY <1>1, <1>5, <1>9
        <5>. QED
          BY <5>1, <5>2, <5>3
      <4>. QED
        BY <1>1, <1>2, <1>5, <1>9, <2>2, <4>1
    <3>. QED
      BY <3>1, <3>2
  <2>4. \A k \in Nat : Inside(p, v, k)
    BY <1>3, <2>2, <2>3 DEF Inside
  <2>. QED
    BY <1>3, <1>5, <1>9, <2>1, <2>2, <2>4 DEF Goes, Standing, Found, Ended, v
<1>10. \/ v.status = "NO_MORE_DATA" /\ v.num >= p.count
       \/ v.status = "BUFFER_OVERRUN" /\ v.off >= DataLen(p)
       \/ /\ v.off = w.off + n + was /\ v.hdr = w.hdr + n + was
          /\ v.status = "BUFFER_OVERRUN" /\ v.off + n + len > DataLen(p)
       \/ /\ v.off = w.off + n + was /\ v.hdr = w.hdr + n + was /\ v.num < p.count
          /\ v.status = "OK" /\ v.data = v.hdr + n
          /\ v.off < DataLen(p) /\ v.off + n + len <= DataLen(p)
  BY <1>0, <1>01
<1>. QED
  BY <1>6, <1>7, <1>8, <1>9, <1>10

LEMMA NextCountedGoes ==
  ASSUME NEW p \in Packet, p.fmt \in Unchecked \ {"CAN"}, NEW w \in Walks
  PROVE  /\ Goes(p, DecodeNext(p, w))
         /\ Exhausted(p, w) => DecodeNext(p, w).status \in Ended
<1>. DEFINE v == DecodeNext(p, w)
            u == Onward(p, w)
<1>1. v = CountedNext(p, w, u) /\ u \in Walks /\ u.num = w.num /\ u.status \in Found
  BY NextCounted
<1>2. p.fmt \in Unchecked /\ p.fmt # "CAN" /\ p.fmt \notin Checked /\ p.fmt \notin Uncounted
      /\ p.fmt \notin {"UARTF0", "DISCRETEF1", "CAN", "VIDEOF0"}
      /\ w.num \in Nat /\ p.count \in Nat
  BY DEF Checked, Unchecked, Uncounted, Walks, Packet
<1>. HIDE DEF v, u
<1>3. /\ v \in Walks /\ v.num = w.num + 1
      /\ \/ v.status = "NO_MORE_DATA" /\ v.num >= p.count
         \/ v.num < p.count /\ v.status \in Found
  BY <1>1, CountedNextFacts
<1>4. CASE v.status = "NO_MORE_DATA" /\ v.num >= p.count
  BY <1>2, <1>3, <1>4 DEF Goes, Exhausted, Found, Ended, v
<1>5. CASE v.num < p.count /\ v.status \in Found
  <2>1. ~Exhausted(p, w)
    BY <1>2, <1>3, <1>5 DEF Exhausted
  <2>2. v.status \notin Ended
    BY <1>5 DEF Found, Ended
  <2>3. Goes(p, v)
    BY <1>2, <1>3, <1>5, <2>2 DEF Goes, Standing, Inside
  <2>. QED
    BY <2>1, <2>3 DEF v
<1>. QED
  BY <1>3, <1>4, <1>5

LEMMA NextCanGoes ==
  ASSUME NEW p \in Packet, p.fmt = "CAN", NEW w \in Walks
  PROVE  /\ Goes(p, DecodeNext(p, w))
         /\ Exhausted(p, w) => DecodeNext(p, w).status \in Ended
<1>. DEFINE v == DecodeNext(p, w)
            m == [w EXCEPT !.num = @ + 1]
<1>1. /\ m \in Walks /\ m.num = w.num + 1 /\ m.off = w.off
      /\ v = IF w.num + 1 >= p.count \/ DataLen(p) <= w.off THEN Ends(m, "NO_MORE_DATA")
             ELSE CanMsg(p, m)
  BY NextCanFacts
<1>. HIDE DEF v, m
<1>2. p.fmt \in Unchecked /\ p.fmt \notin Checked
      /\ w.num \in Nat /\ w.off \in Nat /\ p.count \in Nat /\ DataLen(p) \in Nat
      /\ "NO_MORE_DATA" \in WalkStatus
  BY ShownFacts DEF Checked, Unchecked, Walks, Packet, WalkStatus, Ended
<1>3. CASE w.num + 1 >= p.count \/ DataLen(p) <= w.off
  <2>1. v \in Walks /\ v.status = "NO_MORE_DATA" /\ v.num = w.num + 1 /\ v.off = w.off
    BY <1>1, <1>2, <1>3, EndsFacts
  <2>. QED
    BY <1>2, <1>3, <2>1 DEF Goes, Exhausted, Found, Ended, v
<1>4. CASE ~(w.num + 1 >= p.count \/ DataLen(p) <= w.off)
  <2>1. v \in Walks /\ v.status = "OK" /\ v.hdr = w.off /\ v.when = w.off
    BY <1>1, <1>4, CanMsgFacts
  <2>2. ~Exhausted(p, w) /\ w.off < DataLen(p)
    BY <1>2, <1>4 DEF Exhausted
  <2>3. \A k \in Nat : Inside(p, v, k)
    BY <1>2, <2>1, <2>2 DEF Inside
  <2>4. Standing(p, v) /\ v.status \in Found /\ v.status \notin Ended
    BY <1>2, <2>1 DEF Standing, Found, Ended
  <2>. QED
    BY <2>1, <2>2, <2>3, <2>4 DEF Goes, v
<1>. QED
  BY <1>3, <1>4

LEMMA NextUncountedGoes ==
  ASSUME NEW p \in Packet, p.fmt \in Uncounted, NEW w \in Walks
  PROVE  /\ Goes(p, DecodeNext(p, w))
         /\ Exhausted(p, w) => DecodeNext(p, w).status \in Ended
<1>. DEFINE v == DecodeNext(p, w)
            b == BodyAt(p, w)
            h == HeaderOf(p)
            len == BodyLen(p, w)
<1>1. /\ b \in Walks /\ b.status = "OK" /\ len \in Nat /\ w.off \in Nat /\ h \in Nat
      /\ b.off = w.off + h + len /\ b.data = w.off + h
      /\ (IF b.when = Null THEN b.hdr ELSE b.when) = w.off
  BY BodyFacts, PacketFacts
<1>2. v = IF p.fmt = "VIDEOF0"
            THEN IF b.data >= DataLen(p) THEN Ends(b, "NO_MORE_DATA") ELSE b
            ELSE IF DataLen(p) <= w.off THEN Ends(w, "NO_MORE_DATA") ELSE b
  BY NextUncounted
<1>. HIDE DEF v, b, h, len
<1>3. /\ p.fmt \notin Checked /\ p.fmt \notin Unchecked /\ p.fmt # "CAN"
      /\ p.fmt \in {"UARTF0", "DISCRETEF1"} \/ p.fmt = "VIDEOF0"
      /\ DataLen(p) \in Nat /\ "NO_MORE_DATA" \in WalkStatus /\ w.data \in Int
  BY ShownFacts DEF Checked, Unchecked, Uncounted, WalkStatus, Ended, Walks
<1>4. CASE p.fmt = "VIDEOF0" /\ b.data >= DataLen(p)
  <2>1. v \in Walks /\ v.status = "NO_MORE_DATA" /\ v.off = b.off /\ v.data = b.data
    BY <1>1, <1>2, <1>3, <1>4, EndsFacts
  <2>2. v.off >= v.data
    BY <1>1, <2>1
  <2>. QED
    BY <1>3, <1>4, <2>1, <2>2 DEF Goes, Exhausted, Found, Ended, v
<1>5. CASE p.fmt # "VIDEOF0" /\ DataLen(p) <= w.off
  <2>1. v \in Walks /\ v.status = "NO_MORE_DATA" /\ v.off = w.off
    BY <1>2, <1>3, <1>5, EndsFacts
  <2>. QED
    BY <1>1, <1>3, <1>5, <2>1 DEF Goes, Exhausted, Found, Ended, v
<1>6. CASE /\ p.fmt = "VIDEOF0" => ~(b.data >= DataLen(p))
           /\ p.fmt # "VIDEOF0" => ~(DataLen(p) <= w.off)
  <2>1. v = b
    BY <1>2, <1>6
  <2>2. w.off < DataLen(p)
    BY <1>1, <1>3, <1>6
  <2>3. \A k \in Nat : Inside(p, v, k)
    BY <1>1, <1>3, <2>1, <2>2 DEF Inside
  <2>4. Standing(p, v) /\ v.status \in Found /\ v.status \notin Ended
    BY <1>1, <1>3, <2>1 DEF Standing, Found, Ended
  <2>5. ~Exhausted(p, w)
    <3>1. CASE p.fmt = "VIDEOF0"
      <4>1. ~(w.data >= DataLen(p) /\ w.off >= w.data)
        BY <1>1, <1>3, <2>2
      <4>. QED
        BY <3>1, <4>1 DEF Exhausted
    <3>2. CASE p.fmt # "VIDEOF0"
      BY <1>1, <1>3, <2>2, <3>2 DEF Exhausted
    <3>. QED
      BY <3>1, <3>2
  <2>. QED
    BY <1>1, <2>1, <2>3, <2>4, <2>5 DEF Goes, v
<1>. QED
  BY <1>4, <1>5, <1>6

LEMMA NextGoes ==
  ASSUME NEW p \in Packet, NEW w \in Walks, Standing(p, w) \/ Exhausted(p, w)
  PROVE  /\ Goes(p, DecodeNext(p, w))
         /\ Exhausted(p, w) => DecodeNext(p, w).status \in Ended
<1>1. p.fmt \in Checked \/ p.fmt \in Unchecked \ {"CAN"} \/ p.fmt = "CAN" \/ p.fmt \in Uncounted
  BY DEF Packet, Format
<1>. QED
  BY <1>1, NextCheckedGoes, NextCountedGoes, NextCanGoes, NextUncountedGoes

-----------------------------------------------------------------------------
(* First calls.                                                             *)

\* A walk at an offset, before it finds anything.
From(off) == [NoWalk EXCEPT !.off = off]

LEMMA FromFacts ==
  ASSUME NEW off \in Nat
  PROVE  LET w == From(off) IN
         /\ w \in Walks /\ w.num = 0 /\ w.off = off /\ w.hdr = Null /\ w.data = Null
         /\ w.time = 0 /\ w.status = "NONE"
<1>. DEFINE w == From(off)
<1>1. w \in Walks
  BY NoWalkFacts, Zenon DEF Walks, From
<1>2. w.num = 0 /\ w.off = off /\ w.hdr = Null /\ w.data = Null
  BY NoWalkFacts DEF Walks, From
<1>3. w.time = 0 /\ w.status = "NONE"
  BY NoWalkFacts DEF Walks, From
<1>. QED
  BY <1>1, <1>2, <1>3

\* Of the formats whose count is trusted: what the first call finds if the count is not 0.
Foremost(p) ==
  CASE p.fmt = "ARINC429F0" -> Pointed(From(ChanSpec), ChanSpec, SuArinc429F0_Header)
    [] p.fmt = "ETHERNETF0" -> Pointed(NoWalk, ChanSpec, SuEthernetF0_Header)
    [] p.fmt = "ETHERNETF1" -> Pointed(NoWalk, ChanSpec, SuEthernetF1_Header)
    [] p.fmt = "CAN" -> CanMsg(p, From(ChanSpec))
    [] p.fmt = "INDEX" -> IF FirstPlace(p) + Stamp >= DataLen(p)
                            THEN Ends(From(FirstPlace(p)), "BUFFER_OVERRUN")
                            ELSE IndexMsg(p, From(FirstPlace(p)), 0)

LEMMA FirstCounted ==
  ASSUME NEW p \in Packet, p.fmt \in Unchecked
  PROVE  DecodeFirst(p) = IF p.count = 0 THEN Ends(NoWalk, "NO_MORE_DATA") ELSE Foremost(p)
<1>1. CASE p.fmt = "ARINC429F0"
  BY <1>1 DEF DecodeFirst, FirstArinc429F0, CountedFirst, Foremost, From
<1>2. CASE p.fmt = "ETHERNETF0"
  BY <1>2 DEF DecodeFirst, FirstEthernetF0, CountedFirst, Foremost
<1>3. CASE p.fmt = "ETHERNETF1"
  BY <1>3 DEF DecodeFirst, FirstEthernetF1, CountedFirst, Foremost, uIPHLength, SuEthernetF1_Header
<1>4. CASE p.fmt = "CAN"
  BY <1>4 DEF DecodeFirst, FirstCan, CountedFirst, Foremost, From
<1>5. CASE p.fmt = "INDEX"
  <2>. DEFINE array == ChanSpec + IF p.size THEN FileOffset ELSE 0
  <2>1. array = FirstPlace(p)
    BY <1>5 DEF FirstPlace
  <2>2. DecodeFirst(p) = CountedFirst(p, IF array + Stamp >= DataLen(p)
                                           THEN Ends(From(array), "BUFFER_OVERRUN")
                                           ELSE IndexMsg(p, From(array), 0))
    BY <1>5, Zenon DEF DecodeFirst, FirstIndex, From
  <2>3. Foremost(p) = IF array + Stamp >= DataLen(p)
                        THEN Ends(From(array), "BUFFER_OVERRUN") ELSE IndexMsg(p, From(array), 0)
    BY <1>5, <2>1 DEF Foremost
  <2>. QED
    BY <2>2, <2>3, Zenon DEF CountedFirst
<1>. QED
  BY <1>1, <1>2, <1>3, <1>4, <1>5 DEF Unchecked

LEMMA ForemostFacts ==
  ASSUME NEW p \in Packet, p.fmt \in Unchecked
  PROVE  LET v == Foremost(p) IN
         /\ v \in Walks /\ v.num = 0
         /\ p.fmt # "INDEX" => /\ v.status = "OK" /\ v.hdr = FirstPlace(p)
                               /\ v.when = FirstPlace(p) /\ v.data = FirstPlace(p) + HeaderOf(p)
         /\ p.fmt = "ARINC429F0" => v.time = 0
         /\ p.fmt = "CAN" =>
              v.off = FirstPlace(p) + HeaderOf(p) + Evened(Shown(p, FirstPlace(p)))
         /\ p.fmt = "INDEX" =>
              \/ v.status = "BUFFER_OVERRUN" /\ FirstPlace(p) + Stamp >= DataLen(p)
              \/ /\ v.off = FirstPlace(p) /\ v.hdr = FirstPlace(p) /\ v.when = FirstPlace(p)
                 /\ v.data = FirstPlace(p) + HeaderOf(p)
                 /\ v.status = CASE p.node -> "INDEX_NODE"
                                 [] ~p.node /\ 0 < p.count - 1 -> "INDEX_ROOT"
                                 [] OTHER -> "INDEX_ROOT_LINK"
<1>. DEFINE v == Foremost(p)
            a == FirstPlace(p)
            h == HeaderOf(p)
<1>1. a \in Nat /\ h \in Nat /\ (p.fmt # "INDEX" => a = ChanSpec) /\ ChanSpec \in Nat
  <2>1. p.fmt # "INDEX" => a = ChanSpec
    BY DEF FirstPlace, ChanSpec
  <2>. QED
    BY <2>1, PacketFacts DEF ChanSpec
<1>2. CASE p.fmt = "ARINC429F0"
  <2>1. v = Pointed(From(a), a, h)
    BY <1>1, <1>2 DEF Foremost, HeaderOf
  <2>. HIDE DEF v, a, h
  <2>. QED
    BY <1>1, <1>2, <2>1, FromFacts, PointedFacts DEF v, a, h
<1>3. CASE p.fmt \in {"ETHERNETF0", "ETHERNETF1"}
  <2>1. v = Pointed(NoWalk, a, h)
    BY <1>1, <1>3 DEF Foremost, HeaderOf
  <2>. HIDE DEF v, a, h
  <2>2. a \in Int /\ h \in Nat /\ NoWalk \in Walks /\ NoWalk.num = 0
    BY <1>1, NoWalkFacts
  <2>3. v \in Walks /\ v.status = "OK" /\ v.num = 0 /\ v.hdr = a /\ v.when = a /\ v.data = a + h
    BY <2>1, <2>2, PointedFacts
  <2>. QED
    BY <1>3, <2>3 DEF v, a, h
<1>4. CASE p.fmt = "CAN"
  <2>. DEFINE w == From(a)
  <2>1. v = CanMsg(p, w) /\ h = SuCan_Header
    BY <1>1, <1>4 DEF Foremost, HeaderOf
  <2>2. w \in Walks /\ w.off = a /\ w.num = 0
    BY <1>1, FromFacts
  <2>. HIDE DEF v, a, h, w
  <2>3. /\ v \in Walks /\ v.status = "OK" /\ v.num = w.num
        /\ v.off = w.off + h + Evened(Shown(p, w.off))
        /\ v.hdr = w.off /\ v.data = w.off + h /\ v.when = w.off
    BY <2>1, <2>2, CanMsgFacts
  <2>. QED
    BY <1>1, <1>4, <2>2, <2>3 DEF v, a, h
<1>5. CASE p.fmt = "INDEX"
  <2>. DEFINE w == From(a)
              u == IndexMsg(p, w, 0)
  <2>1. w \in Walks /\ w.off = a /\ w.num = 0 /\ 0 \in Nat /\ "BUFFER_OVERRUN" \in WalkStatus
    BY <1>1, FromFacts DEF WalkStatus, Ended
  <2>2. v = IF a + Stamp >= DataLen(p) THEN Ends(w, "BUFFER_OVERRUN") ELSE u
    BY <1>5 DEF Foremost
  <2>. HIDE DEF w
  <2>3. CASE a + Stamp >= DataLen(p)
    <3>. HIDE DEF v, a
    <3>1. v \in Walks /\ v.num = w.num /\ v.status = "BUFFER_OVERRUN"
      BY <2>1, <2>2, <2>3, EndsFacts
    <3>. QED
      BY <1>5, <2>1, <2>3, <3>1 DEF v, a
  <2>4. CASE ~(a + Stamp >= DataLen(p))
    <3>. DEFINE at == w.off + 0 * (h + FileOffset)
    <3>1. at = a
      BY <1>1, <2>1 DEF FileOffset
    <3>2. /\ u \in Walks /\ u.num = w.num /\ u.off = w.off
          /\ u.hdr = at /\ u.when = at /\ u.data = at + h
          /\ u.status = CASE p.node -> "INDEX_NODE"
                            [] ~p.node /\ 0 < p.count - 1 -> "INDEX_ROOT"
                            [] OTHER -> "INDEX_ROOT_LINK"
      BY <1>5, <2>1, IndexMsgFacts
    <3>. HIDE DEF v, u, at
    <3>3. v = u
      BY <2>2, <2>4
    <3>. QED
      BY <1>5, <2>1, <3>1, <3>2, <3>3 DEF v
  <2>. QED
    BY <2>3, <2>4
<1>. QED
  BY <1>2, <1>3, <1>4, <1>5 DEF Unchecked

LEMMA FirstUncounted ==
  ASSUME NEW p \in Packet, p.fmt \in Uncounted
  PROVE  /\ DecodeFirst(p) = IF p.fmt = "VIDEOF0" THEN BodyAt(p, From(ChanSpec))
                             ELSE DecodeNext(p, From(ChanSpec))
         /\ FirstPlace(p) = ChanSpec
<1>0. p.stamped = TRUE \/ p.stamped = FALSE
  BY DEF Packet
<1>1. FirstPlace(p) = ChanSpec
  BY DEF FirstPlace, Uncounted, ChanSpec
<1>2. CASE p.fmt = "UARTF0"
  BY <1>1, <1>2 DEF DecodeFirst, DecodeNext, FirstUartF0, From
<1>3. CASE p.fmt = "DISCRETEF1"
  BY <1>1, <1>3 DEF DecodeFirst, DecodeNext, FirstDiscreteF1, From
<1>4. CASE p.fmt = "VIDEOF0"
  <2>1. DecodeFirst(p) = Filled(p, From(ChanSpec), p.stamped, 0, TransportStream)
    BY <1>4 DEF DecodeFirst, FirstVideoF0, From
  <2>2. Filled(p, From(ChanSpec), p.stamped, 0, TransportStream) = BodyAt(p, From(ChanSpec))
    BY <1>0, <1>4 DEF BodyAt, BodyLen, StampedMsg, PlainMsg
  <2>. QED
    BY <1>1, <1>4, <2>1, <2>2
<1>. QED
  BY <1>2, <1>3, <1>4 DEF Uncounted

LEMMA FirstGoes ==
  ASSUME NEW p \in Packet
  PROVE  LET v == DecodeFirst(p) IN
         /\ v \in Walks /\ v.status \in Found \cup Ended
         /\ v.status \in Found => Standing(p, v) /\ Inside(p, v, 1)
<1>. DEFINE v == DecodeFirst(p)
<1>0. "BUFFER_OVERRUN" \in WalkStatus /\ "NO_MORE_DATA" \in WalkStatus
      /\ "BUFFER_OVERRUN" \in Ended \ Found /\ "NO_MORE_DATA" \in Ended \ Found
      /\ "OK" \in Found /\ ChanSpec \in Nat /\ DataLen(p) \in Nat
  BY ShownFacts DEF WalkStatus, Found, Ended, ChanSpec
<1>1. CASE p.fmt \in Checked
  <2>. DEFINE n == HeaderOf(p)
              len == FirstLen(p)
              u == CheckedFirst(p, n, len)
  <2>1. n \in Nat /\ len \in Nat
        /\ v = IF p.fmt = "1553F1" /\ p.count > MAX_COUNT THEN Ends(NoWalk, "BUFFER_OVERRUN") ELSE u
    BY <1>1, PacketFacts, FirstChecked
  <2>. HIDE DEF v, n, len
  <2>2. /\ u \in Walks
        /\ \/ u.status \in {"NO_MORE_DATA", "BUFFER_OVERRUN"}
           \/ /\ u.status = "OK" /\ u.off = ChanSpec /\ u.hdr = ChanSpec
              /\ u.data = ChanSpec + n /\ ChanSpec + n + len <= DataLen(p)
    BY <2>1, CheckedFirstFacts
  <2>. HIDE DEF u
  <2>3. CASE p.fmt = "1553F1" /\ p.count > MAX_COUNT
    <3>1. v \in Walks /\ v.status = "BUFFER_OVERRUN"
      BY <1>0, <2>1, <2>3, NoWalkFacts, EndsFacts
    <3>. QED
      BY <1>0, <3>1 DEF v
  <2>4. CASE v = u /\ u.status \in {"NO_MORE_DATA", "BUFFER_OVERRUN"}
    BY <1>0, <2>2, <2>4 DEF v
  <2>5. CASE /\ v = u /\ u.status = "OK" /\ u.off = ChanSpec /\ u.hdr = ChanSpec
             /\ u.data = ChanSpec + n /\ ChanSpec + n + len <= DataLen(p)
    <3>1. p.fmt \notin {"UARTF0", "DISCRETEF1", "CAN", "VIDEOF0"}
      BY <1>1 DEF Checked
    <3>2. u.hdr + Claimed(p, u) <= DataLen(p)
      <4>1. CASE p.fmt = "16PP194"
        <5>1. Claimed(p, u) = len /\ n = 0
          BY <4>1 DEF Claimed, FirstLen, HeaderOf, n, len
        <5>. QED
          BY <1>0, <2>1, <2>5, <5>1
      <4>2. CASE p.fmt # "16PP194"
        <5>1. len = Shown(p, u.hdr) /\ Claimed(p, u) = (u.data - u.hdr) + Shown(p, u.hdr)
          BY <2>5, <4>2 DEF Claimed, FirstLen, len
        <5>2. u.data - u.hdr = n
          BY <1>0, <2>1, <2>5
        <5>3. Claimed(p, u) = n + len
          BY <5>1, <5>2
        <5>. QED
          BY <1>0, <2>1, <2>5, <5>3
      <4>. QED
        BY <4>1, <4>2
    <3>3. Standing(p, v) /\ Inside(p, v, 1)
      BY <2>5, <3>1, <3>2 DEF Standing, Inside
    <3>. QED
      BY <1>0, <2>2, <2>5, <3>3 DEF v
  <2>. QED
    BY <2>1, <2>2, <2>3, <2>4, <2>5
<1>2. CASE p.fmt \in Unchecked
  <2>. DEFINE u == Foremost(p)
  <2>1. v = IF p.count = 0 THEN Ends(NoWalk, "NO_MORE_DATA") ELSE u
    BY <1>2, FirstCounted
  <2>2. u \in Walks /\ u.status \in Found \cup Ended
    <3>1. u \in Walks /\ (p.fmt # "INDEX" => u.status = "OK")
      BY <1>2, ForemostFacts
    <3>2. CASE p.fmt = "INDEX"
      <4>1. \/ u.status = "BUFFER_OVERRUN"
            \/ u.status = CASE p.node -> "INDEX_NODE"
                              [] ~p.node /\ 0 < p.count - 1 -> "INDEX_ROOT"
                              [] OTHER -> "INDEX_ROOT_LINK"
        BY <1>2, <3>2, ForemostFacts
      <4>. HIDE DEF u
      <4>. QED
        BY <3>1, <4>1 DEF Found, Ended
    <3>. QED
      BY <1>0, <3>1, <3>2
  <2>3. p.fmt \notin Checked /\ p.fmt \notin {"UARTF0", "DISCRETEF1", "VIDEOF0"}
    BY <1>2 DEF Checked, Unchecked
  <2>4. Standing(p, v) /\ Inside(p, v, 1)
    BY <2>3 DEF Standing, Inside
  <2>. HIDE DEF v, u
  <2>5. CASE p.count = 0
    <3>1. v \in Walks /\ v.status = "NO_MORE_DATA"
      BY <1>0, <2>1, <2>5, NoWalkFacts, EndsFacts
    <3>. QED
      BY <1>0, <3>1 DEF v
  <2>6. CASE p.count # 0
    BY <2>1, <2>2, <2>4, <2>6 DEF v
  <2>. QED
    BY <2>5, <2>6
<1>3. CASE p.fmt \in Uncounted
  <2>. DEFINE w == From(ChanSpec)
              b == BodyAt(p, w)
  <2>1. w \in Walks /\ w.off = ChanSpec
    BY <1>0, FromFacts
  <2>2. CASE p.fmt # "VIDEOF0"
    <3>1. v = DecodeNext(p, w)
      BY <1>3, <2>2, FirstUncounted
    <3>. HIDE DEF v, w
    <3>2. Goes(p, v)
      BY <1>3, <2>1, <3>1, NextUncountedGoes
    <3>3. v.status \in Found => Inside(p, v, 1)
      <4>1. 1 \in Nat
        OBVIOUS
      <4>. QED
        BY <3>2, <4>1 DEF Goes
    <3>. QED
      BY <3>2, <3>3 DEF Goes, v
  <2>3. CASE p.fmt = "VIDEOF0"
    <3>1. v = b
      BY <1>3, <2>3, FirstUncounted
    <3>. HIDE DEF w
    <3>2. b \in Walks /\ b.status = "OK" /\ BodyLen(p, w) \in Nat /\ w.off \in Nat
          /\ b.off = w.off + HeaderOf(p) + BodyLen(p, w) /\ b.data = w.off + HeaderOf(p)
      BY <1>3, <2>1, BodyFacts
    <3>. HIDE DEF v, b
    <3>3. b.off >= b.data
      BY <3>2, PacketFacts
    <3>4. p.fmt \notin Checked /\ p.fmt \notin {"UARTF0", "DISCRETEF1"}
      BY <2>3 DEF Checked
    <3>. QED
      BY <1>0, <3>1, <3>2, <3>3, <3>4 DEF Standing, Inside, v
  <2>. QED
    BY <2>2, <2>3
<1>. QED
  BY <1>1, <1>2, <1>3 DEF Packet, Format

-----------------------------------------------------------------------------
(* The walk.                                                                *)

\* What any walk keeps, whatever its packet says.
WalkInv ==
  /\ pkt \in Packets /\ walk \in Walks /\ got \in Seq(Walks)
  /\ walk.status = "NONE" => walk = NoWalk /\ got = <<>>
  /\ walk.status \in Found => Standing(pkt, walk)
  /\ walk.status \in Ended /\ got # <<>> => Exhausted(pkt, walk)
  /\ \A k \in DOMAIN got : got[k].status \in Found /\ Inside(pkt, got[k], k)

LEMMA KeepInv ==
  ASSUME pkt \in Packet, WalkInv, NEW v, Keep(v), v \in Walks, v.status \in Found \cup Ended,
         v.status \in Found => Standing(pkt, v) /\ Inside(pkt, v, Len(got) + 1),
         v.status \in Ended /\ got # <<>> => Exhausted(pkt, v)
  PROVE  WalkInv'
<1>1. pkt' = pkt /\ walk' = v
      /\ got' = IF v.status \in Found /\ Len(got) < MAX_GOT THEN Append(got, v) ELSE got
  BY DEF Keep
<1>2. v.status # "NONE" /\ (v.status \in Found => v.status \notin Ended)
  BY DEF Found, Ended
<1>3. CASE got' = got /\ (v.status \in Ended \/ ~(v.status \in Found /\ Len(got) < MAX_GOT))
  BY <1>1, <1>2, <1>3, Zenon DEF WalkInv
<1>4. CASE v.status \in Found /\ got' = Append(got, v)
  <2>1. got \in Seq(Walks)
    BY DEF WalkInv
  <2>2. got' \in Seq(Walks) /\ Len(got') = Len(got) + 1 /\ got'[Len(got) + 1] = v
        /\ \A k \in 1..Len(got) : got'[k] = got[k]
    BY <1>4, <2>1
  <2>3. \A k \in DOMAIN got' : got'[k].status \in Found /\ Inside(pkt, got'[k], k)
    <3>. TAKE k \in DOMAIN got'
    <3>1. k \in 1..(Len(got) + 1) /\ Len(got) \in Nat
      BY <2>1, <2>2
    <3>2. CASE k = Len(got) + 1
      BY <1>4, <2>2, <3>2
    <3>3. CASE k # Len(got) + 1
      <4>1. k \in 1..Len(got) /\ k \in DOMAIN got
        BY <2>1, <3>1, <3>3
      <4>. QED
        BY <2>2, <4>1 DEF WalkInv
    <3>. QED
      BY <3>2, <3>3
  <2>. QED
    BY <1>1, <1>2, <1>4, <2>2, <2>3, Zenon DEF WalkInv
<1>. QED
  BY <1>1, <1>3, <1>4, Zenon

LEMMA WalkInitInv == WalkInit => WalkInv
<1>. SUFFICES ASSUME WalkInit PROVE WalkInv
  OBVIOUS
<1>1. pkt \in Packets /\ walk = NoWalk /\ got = <<>>
  BY DEF WalkInit
<1>2. walk \in Walks /\ walk.status = "NONE" /\ "NONE" \notin Found \cup Ended
  BY <1>1, NoWalkFacts DEF Found, Ended
<1>3. got \in Seq(Walks) /\ DOMAIN got = {}
  BY <1>1
<1>. QED
  BY <1>1, <1>2, <1>3, Zenon DEF WalkInv

\* A call keeps the invariant, and one after the end returns no message.
LEMMA WalkStepInv ==
  ASSUME WalkInv, [WalkNext]_walkvars
  PROVE  WalkInv' /\ (walk.status \in Ended => walk'.status \in Ended)
<1>0. pkt \in Packet /\ walk \in Walks /\ Len(got) \in Nat
  BY WalkAssumption DEF WalkInv
<1>1. CASE First
  <2>. DEFINE v == DecodeFirst(pkt)
  <2>1. walk.status = "NONE" /\ Keep(v)
    BY <1>1 DEF First
  <2>2. /\ v \in Walks /\ v.status \in Found \cup Ended
        /\ v.status \in Found => Standing(pkt, v) /\ Inside(pkt, v, 1)
    BY <1>0, FirstGoes
  <2>. HIDE DEF v
  <2>3. got = <<>> /\ Len(got) + 1 = 1
    BY <2>1 DEF WalkInv
  <2>4. WalkInv'
    BY <1>0, <2>1, <2>2, <2>3, KeepInv
  <2>. QED
    BY <2>1, <2>4 DEF Ended
<1>2. CASE Following \/ AfterEnd
  <2>. DEFINE v == DecodeNext(pkt, walk)
  <2>1. /\ Keep(v)
        /\ walk.status \in Found \/ (walk.status \in Ended /\ got # <<>>)
    BY <1>2 DEF Following, AfterEnd
  <2>2. Standing(pkt, walk) \/ Exhausted(pkt, walk)
    BY <2>1 DEF WalkInv
  <2>3. Goes(pkt, v) /\ (Exhausted(pkt, walk) => v.status \in Ended)
    BY <1>0, <2>2, NextGoes
  <2>. HIDE DEF v
  <2>4. Len(got) + 1 \in Nat
    BY <1>0
  <2>5. WalkInv'
    BY <1>0, <2>1, <2>3, <2>4, KeepInv DEF Goes
  <2>6. walk' = v
    BY <2>1 DEF Keep
  <2>7. walk.status \in Ended => Exhausted(pkt, walk)
    BY <2>1 DEF WalkInv, Found, Ended
  <2>. QED
    BY <2>3, <2>5, <2>6, <2>7
<1>3. CASE UNCHANGED walkvars
  BY <1>3, Zenon DEF walkvars, WalkInv
<1>. QED
  BY <1>1, <1>2, <1>3 DEF WalkNext

\* The pointers a caller gets are into the packet's data, for packets with any counts, any
\* lengths and any part missing (the formats whose length checks promise it).
THEOREM InsideDataAlways == WalkSpec => []InsideData
<1>1. WalkInv => InsideData
  BY DEF WalkInv, InsideData, Inside
<1>. QED
  BY <1>1, WalkInitInv, WalkStepInv, PTL DEF WalkSpec

\* Decode_Next does not find messages again once it has said that there are none.
THEOREM StopIsFinalAlways == WalkSpec => StopIsFinal
<1>1. WalkInv /\ [WalkNext]_walkvars => [walk.status \in Ended => walk'.status \in Ended]_walkvars
  BY WalkStepInv
<1>. QED
  BY <1>1, WalkInitInv, WalkStepInv, PTL DEF WalkSpec, StopIsFinal

-----------------------------------------------------------------------------
(* A packet as the standard has it.                                         *)

\* Elapsed is well defined.
LEMMA ElapsedFacts ==
  ASSUME NEW p \in Packet
  PROVE  /\ \A k \in 1..Len(p.msgs) : Elapsed(p, k) \in Nat
         /\ Len(p.msgs) >= 1 => Elapsed(p, 1) = 0
         /\ \A k \in 1..(Len(p.msgs) - 1) : Elapsed(p, k + 1) = Elapsed(p, k) + p.msgs[k + 1].gap
<1>. DEFINE n == Len(p.msgs)
            g(i) == p.msgs[i].gap
            s == [i \in 1..n |-> g(i)]
<1>1. n \in Nat /\ \A i \in 1..n : g(i) \in Nat
  BY PacketFacts
<1>. HIDE DEF n, g
<1>2. s \in [1..n -> Nat] /\ \A i \in 1..n : s[i] = g(i)
  BY <1>1
<1>. HIDE DEF s
<1>3. PICK T : IsTotal(n, 0, s, T)
  <2>1. 0 \in Nat
    OBVIOUS
  <2>. QED
    BY <1>1, <1>2, <2>1, TotalExists
<1>4. T \in [1..n -> Nat] /\ (n >= 1 => T[1] = 0) /\ \A i \in 2..n : T[i] = T[i - 1] + s[i]
  BY <1>1, <1>3 DEF IsTotal
<1>5. ASSUME NEW k \in 1..n PROVE Elapsed(p, k) = T[k]
  <2>. DEFINE IsTimes(P) == P = [i \in 1..k |-> IF i = 1 THEN 0 ELSE P[i - 1] + g(i)]
              P == CHOOSE f : IsTimes(f)
              R == [i \in 1..k |-> T[i]]
  <2>1. IsTimes(R)
    <3>1. ASSUME NEW i \in 1..k PROVE R[i] = IF i = 1 THEN 0 ELSE R[i - 1] + g(i)
      <4>1. CASE i = 1
        BY <1>1, <1>4, <4>1
      <4>2. CASE i # 1
        <5>1. i \in 2..n /\ i - 1 \in 1..k /\ i \in 1..n
          BY <1>1, <4>2
        <5>2. T[i] = T[i - 1] + g(i)
          BY <1>2, <1>4, <5>1
        <5>. QED
          BY <1>1, <4>2, <5>1, <5>2
      <4>. QED
        BY <4>1, <4>2
    <3>2. R = [i \in 1..k |-> IF i = 1 THEN 0 ELSE R[i - 1] + g(i)]
      BY <3>1
    <3>. HIDE DEF R
    <3>. QED
      BY <3>2
  <2>2. IsTimes(P)
    <3>. HIDE DEF R, IsTimes
    <3>. QED
      BY <2>1
  <2>3. Elapsed(p, k) = P[k]
    BY DEF Elapsed, g
  <2>. HIDE DEF P
  <2>4. P[1] = 0 /\ \A i \in 2..k : P[i] = P[i - 1] + g(i)
    <3>1. \A i \in 1..k : P[i] = IF i = 1 THEN 0 ELSE P[i - 1] + g(i)
      BY <2>2
    <3>. QED
      BY <1>1, <3>1
  <2>5. \A i \in 2..k : P[i - 1] = T[i - 1] => P[i] = T[i - 1] + s[i]
    <3>1. \A i \in 2..k : i \in 1..n /\ s[i] = g(i)
      BY <1>1, <1>2
    <3>. QED
      BY <2>4, <3>1
  <2>6. P[k] = T[k]
    BY <1>1, <1>3, <2>4, <2>5, TotalIsAt
  <2>. QED
    BY <2>3, <2>6
<1>6. \A k \in 1..(n - 1) : Elapsed(p, k + 1) = Elapsed(p, k) + p.msgs[k + 1].gap
  <2>. TAKE k \in 1..(n - 1)
  <2>1. k \in 1..n /\ k + 1 \in 2..n /\ k + 1 \in 1..n /\ k + 1 - 1 = k
    BY <1>1
  <2>2. T[k + 1] = T[k] + g(k + 1)
    BY <1>2, <1>4, <2>1
  <2>. QED
    BY <1>5, <2>1, <2>2 DEF g
<1>7. n >= 1 => Elapsed(p, 1) = 0
  <2>1. n >= 1 => 1 \in 1..n
    BY <1>1
  <2>. QED
    BY <1>4, <1>5, <2>1
<1>. QED
  BY <1>4, <1>5, <1>6, <1>7 DEF n

\* In every format a message takes up room, so no two are at one place.
LEMMA StridesArePositive ==
  ASSUME NEW p \in Packet, Sound(p), NEW k \in 1..Len(p.msgs)
  PROVE  HeaderOf(p) + Evened(p.msgs[k].len) > 0
<1>. DEFINE m == p.msgs[k]
            h == HeaderOf(p)
<1>1. h \in Nat /\ m.len \in Nat /\ Evened(m.len) \in Nat /\ Evened(m.len) >= m.len
      /\ k \in DOMAIN p.msgs
  BY PacketFacts
<1>2. m.len \in SizeOf(p)
  BY <1>1 DEF Sound
<1>3. p.stamped \in BOOLEAN
  BY DEF Packet
<1>4. h > 0 \/ m.len > 0
  <2>1. CASE p.fmt = "16PP194"
    BY <1>2, <2>1 DEF SizeOf, Su16PP194_Msg
  <2>2. CASE p.fmt = "VIDEOF0"
    BY <1>2, <2>2 DEF SizeOf, TransportStream
  <2>3. CASE p.fmt \notin {"16PP194", "VIDEOF0"}
    <3>1. p.fmt \in Format
      BY DEF Packet
    <3>. QED
      BY <1>3, <2>3, <3>1 DEF HeaderOf, Format, Checked, Unchecked, Uncounted, Stamped, Stamp,
         Su1553F1_Header, SuMessageF0_Header, SuArinc429F0_Header, SuUartF0_Header, SuCan_Header,
         SuEthernetF0_Header, SuEthernetF1_Header, SuIndex_NodeData
  <2>. QED
    BY <2>1, <2>2, <2>3
<1>. HIDE DEF h, m
<1>5. h + Evened(m.len) > 0
  BY <1>1, <1>4
<1>. QED
  BY <1>5 DEF h, m

LEMMA PlacesDiffer ==
  ASSUME NEW p \in Packet, Sound(p), NEW j \in 1..(Len(p.msgs) + 1),
         NEW k \in 1..(Len(p.msgs) + 1), j < k
  PROVE  Place(p, j) < Place(p, k)
<1>1. j \in 1..Len(p.msgs) /\ j + 1 \in 1..(Len(p.msgs) + 1) /\ j + 1 <= k
  BY PacketFacts
<1>2. /\ Place(p, j + 1) = Place(p, j) + HeaderOf(p) + Evened(p.msgs[j].len)
      /\ Place(p, j) \in Nat /\ Place(p, j + 1) \in Nat /\ Place(p, k) \in Nat
      /\ HeaderOf(p) \in Nat /\ Evened(p.msgs[j].len) \in Nat
  BY <1>1, PlaceFacts, PacketFacts
<1>3. HeaderOf(p) + Evened(p.msgs[j].len) > 0
  BY <1>1, StridesArePositive
<1>4. Place(p, j + 1) <= Place(p, k)
  BY <1>1, PlacesRise
<1>. QED
  BY <1>2, <1>3, <1>4

\* A decoder at the place of a message sees that message, and all of it is in the data.
LEMMA SoundFacts ==
  ASSUME NEW p \in Packet, Sound(p)
  PROVE  /\ DataLen(p) = Place(p, Len(p.msgs) + 1)
         /\ \A k \in 1..Len(p.msgs) :
              /\ Shown(p, Place(p, k)) = p.msgs[k].len /\ Gap(p, Place(p, k)) = p.msgs[k].gap
              /\ p.msgs[k].len \in SizeOf(p)
              /\ Place(p, k) < DataLen(p) /\ Place(p, k + 1) <= DataLen(p)
              /\ p.fmt \in Checked => Evened(p.msgs[k].len) = p.msgs[k].len
<1>. DEFINE n == Len(p.msgs)
<1>1. n \in Nat /\ DOMAIN p.msgs = 1..n /\ n + 1 \in 1..(n + 1)
  BY PacketFacts
<1>2. DataLen(p) = Place(p, n + 1)
  <2>1. p.cut = 0
    BY DEF Sound
  <2>2. Place(p, n + 1) \in Nat
    BY <1>1, PlaceFacts
  <2>. QED
    BY <2>1, <2>2 DEF DataLen
<1>3. ASSUME NEW k \in 1..n
      PROVE  /\ Shown(p, Place(p, k)) = p.msgs[k].len /\ Gap(p, Place(p, k)) = p.msgs[k].gap
             /\ p.msgs[k].len \in SizeOf(p)
             /\ Place(p, k) < DataLen(p) /\ Place(p, k + 1) <= DataLen(p)
             /\ p.fmt \in Checked => Evened(p.msgs[k].len) = p.msgs[k].len
  <2>1. k \in 1..(n + 1) /\ k + 1 \in 1..(n + 1) /\ k < n + 1 /\ k + 1 <= n + 1 /\ k \in DOMAIN p.msgs
        /\ k # 0
    BY <1>1
  <2>2. At(p, Place(p, k)) = {k}
    <3>1. ASSUME NEW i \in 1..n, i # k PROVE Place(p, i) # Place(p, k)
      <4>1. i \in 1..(n + 1) /\ (i < k \/ k < i)
        BY <1>1, <3>1
      <4>2. Place(p, i) < Place(p, k) \/ Place(p, k) < Place(p, i)
        BY <2>1, <4>1, PlacesDiffer
      <4>. QED
        BY <2>1, <4>1, <4>2, PlaceFacts
    <3>. QED
      BY <1>1, <3>1 DEF At
  <2>3. (CHOOSE i \in At(p, Place(p, k)) : TRUE) = k /\ At(p, Place(p, k)) # {}
    BY <2>2
  <2>4. p.bad[1] # k
    BY <2>1 DEF Sound
  <2>5. Shown(p, Place(p, k)) = p.msgs[k].len
    BY <2>3, <2>4 DEF Shown
  <2>6. Gap(p, Place(p, k)) = p.msgs[k].gap
    BY <2>3 DEF Gap
  <2>7. Place(p, k) < DataLen(p) /\ Place(p, k + 1) <= DataLen(p)
    BY <1>1, <1>2, <2>1, PlacesDiffer, PlacesRise
  <2>8. p.msgs[k].len \in SizeOf(p) /\ (p.fmt \in Checked => p.msgs[k].len % 2 = 0)
    BY <2>1 DEF Sound
  <2>9. p.fmt \in Checked => Evened(p.msgs[k].len) = p.msgs[k].len
    BY <2>8, PacketFacts DEF Evened
  <2>. QED
    BY <2>5, <2>6, <2>7, <2>8, <2>9
<1>. QED
  BY <1>2, <1>3

-----------------------------------------------------------------------------
(* The walk over such a packet.                                             *)

\* w has found message k, and what it keeps leads on to the next.
AtMsg(p, w, k) ==
  /\ IsMessage(p, w, k)
  /\ p.fmt \in Checked \cup Unchecked => w.num = k - 1 /\ w.hdr = Place(p, k)
  /\ p.fmt \in Checked => w.off = Place(p, k)
  /\ p.fmt = "INDEX" => w.off = FirstPlace(p)
  /\ p.fmt \in Uncounted \cup {"CAN"} => w.off = Place(p, k + 1)

\* What a walk over it that has ended says of later calls.
AtEnd(p, w) == w.status = "NO_MORE_DATA" /\ (p.fmt \in Checked => w.num >= p.count)

LEMMA IsPlainMessage ==
  ASSUME NEW p \in Packet, p.fmt \notin {"INDEX", "ARINC429F0"}, NEW w, NEW k,
         w.data = Place(p, k) + HeaderOf(p), w.status = "OK",
         w.when = IF p.fmt \in {"UARTF0", "VIDEOF0"} /\ ~p.stamped THEN Null ELSE Place(p, k)
  PROVE  IsMessage(p, w, k)
BY DEF IsMessage

LEMMA SoundNextChecked ==
  ASSUME NEW p \in Packet, Sound(p), p.fmt \in Checked, NEW k \in 1..Len(p.msgs),
         NEW w \in Walks, AtMsg(p, w, k)
  PROVE  IF k < Len(p.msgs) THEN AtMsg(p, DecodeNext(p, w), k + 1) ELSE AtEnd(p, DecodeNext(p, w))
<1>. DEFINE n == Len(p.msgs)
            h == HeaderOf(p)
            was == MsgLen(p, w)
            len == NextLen(p, w)
            v == DecodeNext(p, w)
            u == CheckedNext(p, w, h, was, len)
            a == Place(p, k)
            b == Place(p, k + 1)
<1>1. n \in Nat /\ h \in Nat /\ p.count = n /\ a \in Nat /\ b \in Nat /\ k \in 1..n
      /\ w.num = k - 1 /\ w.hdr = a /\ w.off = a /\ DataLen(p) \in Nat
  <2>1. p.count = n
    BY DEF Sound, Checked, Uncounted
  <2>2. k \in 1..(n + 1) /\ k + 1 \in 1..(n + 1)
    BY PacketFacts
  <2>. QED
    BY <2>1, <2>2, PacketFacts, PlaceFacts, ShownFacts DEF AtMsg
<1>2. was = p.msgs[k].len /\ b = a + h + was
  <2>1. Shown(p, a) = p.msgs[k].len /\ p.msgs[k].len \in SizeOf(p)
        /\ Evened(p.msgs[k].len) = p.msgs[k].len
    BY SoundFacts
  <2>2. b = a + h + p.msgs[k].len
    BY <2>1, PlaceFacts
  <2>3. was = p.msgs[k].len
    BY <1>1, <2>1 DEF MsgLen, SizeOf
  <2>. QED
    BY <2>2, <2>3
<1>3. v = u /\ was \in Nat /\ len \in Nat
  BY NextChecked
<1>4. ASSUME k < n
      PROVE  b < DataLen(p) /\ b + h + len <= DataLen(p)
  <2>1. k + 1 \in 1..n
    BY <1>1, <1>4
  <2>2. Shown(p, b) = p.msgs[k + 1].len /\ p.msgs[k + 1].len \in SizeOf(p)
        /\ Evened(p.msgs[k + 1].len) = p.msgs[k + 1].len
        /\ b < DataLen(p) /\ Place(p, k + 1 + 1) <= DataLen(p)
    BY <2>1, SoundFacts
  <2>3. Place(p, k + 1 + 1) = b + h + p.msgs[k + 1].len
    BY <2>1, <2>2, PlaceFacts
  <2>4. len = p.msgs[k + 1].len
    BY <1>1, <1>2, <2>2 DEF NextLen, SizeOf
  <2>. QED
    BY <2>2, <2>3, <2>4
<1>5. p.fmt \notin Unchecked \cup Uncounted
      /\ p.fmt \notin {"INDEX", "ARINC429F0", "CAN", "UARTF0", "VIDEOF0"}
  BY DEF Checked, Unchecked, Uncounted
<1>6. IF k < n THEN IsMessage(p, v, k + 1) <=> (/\ v.data = b + h /\ v.when = b /\ v.status = "OK") ELSE TRUE
  BY <1>5 DEF IsMessage
<1>. HIDE DEF v, was, len, h, n, a, b
<1>7. /\ u \in Walks /\ u.num = w.num + 1
      /\ \/ u.status = "NO_MORE_DATA" /\ u.num >= p.count
         \/ /\ u.status = "BUFFER_OVERRUN" /\ u.num < p.count /\ u.off = w.off + h + was
            /\ u.off >= DataLen(p)
         \/ /\ u.off = w.off + h + was /\ u.hdr = w.hdr + h + was /\ u.num < p.count
            /\ u.status = "BUFFER_OVERRUN" /\ u.off + h + len > DataLen(p)
         \/ /\ u.off = w.off + h + was /\ u.hdr = w.hdr + h + was /\ u.num < p.count
            /\ u.status = "OK" /\ u.when = u.hdr /\ u.data = u.hdr + h
            /\ u.off < DataLen(p) /\ u.off + h + len <= DataLen(p)
  <2>1. h \in Nat /\ was \in Nat /\ len \in Nat
    BY <1>1, <1>3
  <2>. QED
    BY <2>1, CheckedNextFacts
<1>. HIDE DEF u
<1>8. CASE k < n
  <2>1. b < DataLen(p) /\ b + h + len <= DataLen(p)
    BY <1>4, <1>8
  <2>2. ~(u.num >= p.count)
    BY <1>1, <1>7, <1>8
  <2>3. /\ u.num = k /\ u.off = b /\ u.hdr = b /\ u.status = "OK" /\ u.when = b /\ u.data = b + h
    BY <1>1, <1>2, <1>3, <1>7, <2>1, <2>2
  <2>4. k = k + 1 - 1
    BY <1>1
  <2>5. IsMessage(p, v, k + 1)
    BY <1>3, <1>6, <1>8, <2>3
  <2>6. AtMsg(p, v, k + 1)
    BY <1>3, <1>5, <2>3, <2>4, <2>5 DEF AtMsg, b
  <2>. QED
    BY <1>8, <2>6 DEF n, v
<1>9. CASE ~(k < n)
  <2>1. u.status = "NO_MORE_DATA" /\ u.num >= p.count
    BY <1>1, <1>7, <1>9
  <2>. QED
    BY <1>3, <1>9, <2>1 DEF AtEnd, n, v
<1>. QED
  BY <1>8, <1>9

LEMMA SoundNextCounted ==
  ASSUME NEW p \in Packet, Sound(p), p.fmt \in Unchecked \ {"CAN", "INDEX"},
         NEW k \in 1..Len(p.msgs), NEW w \in Walks, AtMsg(p, w, k)
  PROVE  IF k < Len(p.msgs) THEN AtMsg(p, DecodeNext(p, w), k + 1) ELSE AtEnd(p, DecodeNext(p, w))
<1>. DEFINE n == Len(p.msgs)
            h == HeaderOf(p)
            v == DecodeNext(p, w)
            u == Onward(p, w)
            b == Place(p, k + 1)
<1>1. n \in Nat /\ h \in Nat /\ p.count = n /\ k \in 1..n /\ w.num = k - 1 /\ w.hdr = Place(p, k)
      /\ Place(p, k) \in Nat
  <2>1. p.count = n
    BY DEF Sound, Unchecked, Uncounted
  <2>2. k \in 1..(n + 1) /\ p.fmt \in Unchecked
    BY PacketFacts
  <2>. QED
    BY <2>1, <2>2, PacketFacts, PlaceFacts DEF AtMsg
<1>2. p.fmt \in {"ETHERNETF0", "ETHERNETF1", "ARINC429F0"} /\ p.fmt \notin Checked \cup Uncounted
      /\ p.fmt \notin {"INDEX", "CAN", "UARTF0", "VIDEOF0"}
  BY DEF Checked, Unchecked, Uncounted
<1>3. /\ v = CountedNext(p, w, u) /\ u \in Walks /\ u.num = w.num
      /\ u.status = "OK" /\ u.hdr = b /\ u.when = b /\ u.data = b + h
      /\ p.fmt = "ARINC429F0" => u.time = w.time + Gap(p, b)
  <2>1. Shown(p, Place(p, k)) = p.msgs[k].len /\ p.msgs[k].len \in SizeOf(p)
        /\ b = Place(p, k) + h + Evened(p.msgs[k].len)
    BY SoundFacts, PlaceFacts
  <2>2. CASE p.fmt = "ARINC429F0"
    <3>1. p.msgs[k].len = SuArinc429F0_Data /\ h = SuArinc429F0_Header
      BY <2>1, <2>2 DEF SizeOf, HeaderOf
    <3>2. Evened(p.msgs[k].len) = SuArinc429F0_Data
      BY <3>1 DEF Evened, SuArinc429F0_Data
    <3>3. b = w.hdr + SuArinc429F0_Header + SuArinc429F0_Data
      BY <1>1, <2>1, <3>1, <3>2
    <3>. QED
      BY <2>2, <3>3, NextCounted
  <2>3. CASE p.fmt \in {"ETHERNETF0", "ETHERNETF1"}
    <3>1. b = w.hdr + h + Evened(Shown(p, w.hdr))
      BY <1>1, <2>1
    <3>. QED
      BY <2>3, <3>1, NextCounted
  <2>. QED
    BY <1>2, <2>2, <2>3
<1>4. p.fmt = "ARINC429F0" /\ k < n => w.time + Gap(p, b) = Elapsed(p, k + 1)
  <2>1. p.fmt = "ARINC429F0" => w.time = Elapsed(p, k)
    BY DEF AtMsg, IsMessage
  <2>2. k < n => k \in 1..(n - 1) /\ k + 1 \in 1..n
    BY <1>1
  <2>3. k < n => Gap(p, b) = p.msgs[k + 1].gap
    BY <2>2, SoundFacts
  <2>. QED
    BY <2>1, <2>2, <2>3, ElapsedFacts
<1>. HIDE DEF v, u
<1>5. /\ v.num = w.num + 1
      /\ \/ v.status = "NO_MORE_DATA" /\ v.num >= p.count
         \/ /\ v.num < p.count /\ v.status = u.status /\ v.off = u.off /\ v.hdr = u.hdr
            /\ v.when = u.when /\ v.data = u.data /\ v.time = u.time
  BY <1>3, CountedNextFacts
<1>6. CASE k < n
  <2>1. v.num = k + 1 - 1 /\ v.status = "OK" /\ v.hdr = b /\ v.when = b /\ v.data = b + h
        /\ (p.fmt = "ARINC429F0" => v.time = Elapsed(p, k + 1))
    <3>1. v.num = k + 1 - 1 /\ ~(v.num >= p.count)
      BY <1>1, <1>5, <1>6
    <3>. QED
      BY <1>3, <1>4, <1>5, <1>6, <3>1
  <2>2. IsMessage(p, v, k + 1)
    BY <1>2, <2>1 DEF IsMessage
  <2>3. AtMsg(p, v, k + 1)
    BY <1>2, <2>1, <2>2 DEF AtMsg
  <2>. QED
    BY <1>6, <2>3 DEF v
<1>7. CASE ~(k < n)
  <2>1. v.status = "NO_MORE_DATA"
    BY <1>1, <1>5, <1>7
  <2>. QED
    BY <1>2, <1>7, <2>1 DEF AtEnd, v
<1>. QED
  BY <1>6, <1>7

\* The messages of an index are in an array.
LEMMA IndexPlaces ==
  ASSUME NEW p \in Packet, Sound(p), p.fmt = "INDEX", NEW k \in 1..(Len(p.msgs) + 1)
  PROVE  Place(p, k) = FirstPlace(p) + (k - 1) * (HeaderOf(p) + FileOffset)
<1>. DEFINE n == Len(p.msgs)
            a == FirstPlace(p)
            h == HeaderOf(p)
            c == h + FileOffset
            there == {i \in 1..(n + 1) : Place(p, i) = a + (i - 1) * c}
<1>1. n \in Nat /\ a \in Nat /\ h \in Nat /\ c \in Nat
  BY PacketFacts DEF FileOffset
<1>2. 1 \in there
  <2>1. Place(p, 1) = a /\ 1 \in 1..(n + 1)
    BY <1>1, PlaceFacts
  <2>. HIDE DEF c, a
  <2>2. a = a + (1 - 1) * c
    BY <1>1
  <2>. QED
    BY <2>1, <2>2
<1>3. ASSUME NEW i \in 1..n, i \in there PROVE i + 1 \in there
  <2>1. p.msgs[i].len \in SizeOf(p)
    BY SoundFacts
  <2>2. Evened(p.msgs[i].len) = FileOffset
    BY <2>1 DEF SizeOf, Evened, FileOffset
  <2>3. Place(p, i + 1) = Place(p, i) + h + FileOffset /\ Place(p, i) = a + (i - 1) * c
    BY <1>3, <2>2, PlaceFacts
  <2>4. Place(p, i + 1) = Place(p, i) + c
    <3>1. FileOffset \in Nat /\ Place(p, i) \in Nat
      <4>1. i \in 1..(n + 1)
        BY <1>1
      <4>. QED
        BY <4>1, PlaceFacts DEF FileOffset
    <3>. QED
      BY <1>1, <2>3, <3>1
  <2>. HIDE DEF c, a
  <2>5. a + (i - 1) * c + c = a + (i + 1 - 1) * c
    BY <1>1
  <2>6. i + 1 \in 1..(n + 1)
    BY <1>1
  <2>. QED
    BY <2>3, <2>4, <2>5, <2>6
<1>. HIDE DEF c, there, n
<1>4. \A i \in 1..(n + 1) : i \in there
  <2>. DEFINE m == n + 1
  <2>1. m \in Nat /\ m - 1 = n
    BY <1>1
  <2>. HIDE DEF m
  <2>2. \A i \in 1..n : i \in there => i + 1 \in there
    BY <1>3
  <2>3. \A i \in 1..(m - 1) : i \in there => i + 1 \in there
    BY <2>1, <2>2, Zenon
  <2>4. \A i \in 1..m : i \in there
    BY <1>2, <2>1, <2>3, Upward
  <2>. QED
    BY <2>4 DEF m
<1>. QED
  BY <1>4 DEF c, there, n

LEMMA SoundNextIndex ==
  ASSUME NEW p \in Packet, Sound(p), p.fmt = "INDEX",
         NEW k \in 1..Len(p.msgs), NEW w \in Walks, AtMsg(p, w, k)
  PROVE  IF k < Len(p.msgs) THEN AtMsg(p, DecodeNext(p, w), k + 1) ELSE AtEnd(p, DecodeNext(p, w))
<1>. DEFINE n == Len(p.msgs)
            h == HeaderOf(p)
            v == DecodeNext(p, w)
            u == IndexMsg(p, w, w.num + 1)
            b == Place(p, k + 1)
            at == w.off + (w.num + 1) * (h + FileOffset)
            st == CASE p.node -> "INDEX_NODE"
                    [] ~p.node /\ w.num + 1 < p.count - 1 -> "INDEX_ROOT"
                    [] OTHER -> "INDEX_ROOT_LINK"
<1>1. p.fmt \in Unchecked /\ p.fmt \notin Checked \cup Uncounted \cup {"CAN", "UARTF0", "VIDEOF0"}
  BY DEF Checked, Unchecked, Uncounted
<1>2. n \in Nat /\ h \in Nat /\ p.count = n /\ k \in 1..n /\ w.num = k - 1 /\ w.off = FirstPlace(p)
      /\ p.node \in BOOLEAN
  <2>1. p.count = n
    BY <1>1 DEF Sound
  <2>. QED
    BY <1>1, <2>1, PacketFacts DEF AtMsg, Packet
<1>3. v = CountedNext(p, w, u) /\ w.num + 1 \in Nat
  BY <1>2 DEF DecodeNext, NextIndex
<1>4. /\ u \in Walks /\ u.num = w.num /\ u.off = w.off
      /\ u.hdr = at /\ u.when = at /\ u.data = at + h /\ u.status = st
  BY <1>3, IndexMsgFacts
<1>5. at = b
  <2>1. k + 1 \in 1..(n + 1) /\ w.num + 1 = k + 1 - 1
    BY <1>2
  <2>2. b = FirstPlace(p) + (k + 1 - 1) * (h + FileOffset)
    BY <2>1, IndexPlaces
  <2>. QED
    BY <1>2, <2>1, <2>2
<1>6. k < n => st = CASE p.node -> "INDEX_NODE"
                      [] ~p.node -> IF k + 1 = n THEN "INDEX_ROOT_LINK" ELSE "INDEX_ROOT"
  <2>1. k < n => (w.num + 1 < p.count - 1 <=> k + 1 # n)
    BY <1>2
  <2>. QED
    BY <1>2, <2>1
<1>. HIDE DEF v, u, at, st
<1>7. /\ v.num = w.num + 1
      /\ \/ v.status = "NO_MORE_DATA" /\ v.num >= p.count
         \/ /\ v.num < p.count /\ v.status = u.status /\ v.off = u.off /\ v.hdr = u.hdr
            /\ v.when = u.when /\ v.data = u.data /\ v.time = u.time
  BY <1>3, <1>4, CountedNextFacts
<1>8. CASE k < n
  <2>1. v.num = k + 1 - 1 /\ v.status = st /\ v.hdr = b /\ v.when = b /\ v.data = b + h
        /\ v.off = FirstPlace(p)
    <3>1. v.num = k + 1 - 1 /\ ~(v.num >= p.count)
      BY <1>2, <1>7, <1>8
    <3>. QED
      BY <1>2, <1>4, <1>5, <1>7, <3>1
  <2>2. IsMessage(p, v, k + 1)
    BY <1>1, <1>2, <1>6, <1>8, <2>1 DEF IsMessage
  <2>3. AtMsg(p, v, k + 1)
    BY <1>1, <2>1, <2>2 DEF AtMsg
  <2>. QED
    BY <1>8, <2>3 DEF v
<1>9. CASE ~(k < n)
  <2>1. v.status = "NO_MORE_DATA"
    BY <1>2, <1>7, <1>9
  <2>. QED
    BY <1>1, <1>9, <2>1 DEF AtEnd, v
<1>. QED
  BY <1>8, <1>9

LEMMA SoundNextCan ==
  ASSUME NEW p \in Packet, Sound(p), p.fmt = "CAN",
         NEW k \in 1..Len(p.msgs), NEW w \in Walks, AtMsg(p, w, k)
  PROVE  IF k < Len(p.msgs) THEN AtMsg(p, DecodeNext(p, w), k + 1) ELSE AtEnd(p, DecodeNext(p, w))
<1>. DEFINE n == Len(p.msgs)
            h == HeaderOf(p)
            v == DecodeNext(p, w)
            m == [w EXCEPT !.num = @ + 1]
            u == CanMsg(p, m)
            b == Place(p, k + 1)
<1>1. p.fmt \in Unchecked /\ p.fmt \notin Checked \cup Uncounted \cup {"INDEX", "ARINC429F0"}
      /\ "NO_MORE_DATA" \in WalkStatus
  BY DEF Checked, Unchecked, Uncounted, WalkStatus, Ended
<1>2. n \in Nat /\ h = SuCan_Header /\ p.count = n /\ k \in 1..n /\ w.num = k - 1 /\ w.off = b
      /\ b \in Nat /\ DataLen(p) \in Nat
  <2>1. p.count = n
    BY <1>1 DEF Sound
  <2>2. k + 1 \in 1..(n + 1)
    BY PacketFacts
  <2>3. h = SuCan_Header
    BY DEF HeaderOf
  <2>. QED
    BY <1>1, <2>1, <2>2, <2>3, PacketFacts, PlaceFacts, ShownFacts DEF AtMsg
<1>3. /\ m \in Walks /\ m.num = w.num + 1 /\ m.off = w.off
      /\ v = IF w.num + 1 >= p.count \/ DataLen(p) <= w.off THEN Ends(m, "NO_MORE_DATA") ELSE u
  BY NextCanFacts
<1>. HIDE DEF m
<1>4. /\ u.status = "OK" /\ u.num = m.num
      /\ u.off = m.off + SuCan_Header + Evened(Shown(p, m.off))
      /\ u.hdr = m.off /\ u.data = m.off + SuCan_Header /\ u.when = m.off
  BY <1>3, CanMsgFacts
<1>5. CASE k < n
  <2>1. k + 1 \in 1..n
    BY <1>2, <1>5
  <2>2. Shown(p, b) = p.msgs[k + 1].len /\ b < DataLen(p)
    BY <2>1, SoundFacts
  <2>3. Place(p, k + 1 + 1) = b + h + Evened(p.msgs[k + 1].len)
    BY <2>1, PlaceFacts
  <2>. HIDE DEF v, u, h, b, n
  <2>4. v = u
    BY <1>2, <1>3, <1>5, <2>2
  <2>5. /\ v.status = "OK" /\ v.num = k + 1 - 1 /\ v.hdr = b /\ v.when = b /\ v.data = b + h
        /\ v.off = Place(p, k + 1 + 1)
    BY <1>2, <1>3, <1>4, <2>2, <2>3, <2>4
  <2>6. IsMessage(p, v, k + 1)
    BY <1>1, <2>5 DEF IsMessage, h, b
  <2>7. AtMsg(p, v, k + 1)
    BY <1>1, <2>5, <2>6 DEF AtMsg, b
  <2>. QED
    BY <1>5, <2>7 DEF v, n
<1>6. CASE ~(k < n)
  <2>. HIDE DEF v
  <2>1. v = Ends(m, "NO_MORE_DATA")
    BY <1>2, <1>3, <1>6
  <2>2. v.status = "NO_MORE_DATA"
    BY <1>1, <1>3, <2>1, EndsFacts
  <2>. QED
    BY <1>1, <1>6, <2>2 DEF AtEnd, v
<1>. QED
  BY <1>5, <1>6

\* The body at the place of a message is that message.
LEMMA SoundBody ==
  ASSUME NEW p \in Packet, Sound(p), p.fmt \in Uncounted,
         NEW k \in 1..Len(p.msgs), NEW w \in Walks, w.off = Place(p, k)
  PROVE  /\ AtMsg(p, BodyAt(p, w), k) /\ w.off < DataLen(p)
         /\ p.fmt = "VIDEOF0" => BodyAt(p, w).data < DataLen(p)
<1>. DEFINE n == Len(p.msgs)
            h == HeaderOf(p)
            b == BodyAt(p, w)
            len == BodyLen(p, w)
            plain == p.fmt \in {"UARTF0", "VIDEOF0"} /\ ~p.stamped
<1>1. /\ b.status = "OK" /\ b.off = w.off + h + len /\ b.data = w.off + h
      /\ b.when = IF plain THEN Null ELSE w.off
      /\ len \in Nat /\ h \in Nat /\ w.off \in Nat
  BY BodyFacts, PacketFacts
<1>2. /\ Shown(p, Place(p, k)) = p.msgs[k].len /\ p.msgs[k].len \in SizeOf(p)
      /\ w.off < DataLen(p) /\ Place(p, k + 1) <= DataLen(p)
      /\ Place(p, k + 1) = Place(p, k) + h + Evened(p.msgs[k].len)
  BY SoundFacts, PlaceFacts
<1>3. len = Evened(p.msgs[k].len)
  <2>1. CASE p.fmt = "UARTF0"
    BY <1>2, <2>1 DEF BodyLen
  <2>2. CASE p.fmt = "DISCRETEF1"
    BY <1>2, <2>2 DEF BodyLen, SizeOf, Evened, SuDiscrete_Data
  <2>3. CASE p.fmt = "VIDEOF0"
    BY <1>2, <2>3 DEF BodyLen, SizeOf, Evened, TransportStream
  <2>. QED
    BY <2>1, <2>2, <2>3 DEF Uncounted
<1>4. b.off = Place(p, k + 1)
  BY <1>1, <1>2, <1>3
<1>5. p.fmt \notin Checked \cup Unchecked \cup {"INDEX", "ARINC429F0", "CAN"}
  BY DEF Checked, Unchecked, Uncounted
<1>6. p.fmt = "VIDEOF0" => b.data < DataLen(p)
  <2>1. p.fmt = "VIDEOF0" => len = TransportStream
    BY DEF BodyLen
  <2>2. DataLen(p) \in Nat /\ Place(p, k + 1) = b.data + len
    BY <1>1, <1>4, ShownFacts
  <2>3. len > 0 => b.data < DataLen(p)
    BY <1>1, <1>2, <2>2
  <2>. QED
    BY <2>1, <2>3 DEF TransportStream
<1>7. IsMessage(p, b, k)
  <2>1. b.data = Place(p, k) + HeaderOf(p) /\ b.status = "OK"
        /\ b.when = IF p.fmt \in {"UARTF0", "VIDEOF0"} /\ ~p.stamped THEN Null ELSE Place(p, k)
    BY <1>1
  <2>. HIDE DEF b
  <2>. QED
    BY <1>5, <2>1, IsPlainMessage
<1>8. AtMsg(p, b, k)
  <2>. HIDE DEF b
  <2>. QED
    BY <1>4, <1>5, <1>7 DEF AtMsg
<1>. QED
  BY <1>2, <1>6, <1>8

LEMMA SoundNextUncounted ==
  ASSUME NEW p \in Packet, Sound(p), p.fmt \in Uncounted,
         NEW k \in 0..Len(p.msgs), NEW w \in Walks, w.off = Place(p, k + 1)
  PROVE  IF k < Len(p.msgs) THEN AtMsg(p, DecodeNext(p, w), k + 1) ELSE AtEnd(p, DecodeNext(p, w))
<1>. DEFINE n == Len(p.msgs)
            v == DecodeNext(p, w)
            b == BodyAt(p, w)
<1>1. v = IF p.fmt = "VIDEOF0"
            THEN IF b.data >= DataLen(p) THEN Ends(b, "NO_MORE_DATA") ELSE b
            ELSE IF DataLen(p) <= w.off THEN Ends(w, "NO_MORE_DATA") ELSE b
  BY NextUncounted
<1>2. b \in Walks /\ b.data = w.off + HeaderOf(p) /\ HeaderOf(p) \in Nat /\ w.off \in Nat
      /\ n \in Nat /\ DataLen(p) \in Nat /\ "NO_MORE_DATA" \in WalkStatus
  BY BodyFacts, PacketFacts, ShownFacts DEF WalkStatus, Ended
<1>. HIDE DEF v, b
<1>3. CASE k < n
  <2>1. k + 1 \in 1..n
    BY <1>2, <1>3
  <2>2. /\ AtMsg(p, b, k + 1) /\ w.off < DataLen(p)
        /\ p.fmt = "VIDEOF0" => b.data < DataLen(p)
    BY <2>1, SoundBody DEF b
  <2>3. v = b
    BY <1>1, <1>2, <2>2
  <2>. QED
    BY <1>3, <2>2, <2>3 DEF v
<1>4. CASE ~(k < n)
  <2>1. k + 1 = n + 1
    BY <1>2, <1>4
  <2>2. w.off = DataLen(p)
    BY <2>1, SoundFacts
  <2>3. v.status = "NO_MORE_DATA"
    <3>1. v = Ends(b, "NO_MORE_DATA") \/ v = Ends(w, "NO_MORE_DATA")
      BY <1>1, <1>2, <2>2
    <3>. QED
      BY <1>2, <3>1, EndsFacts
  <2>4. p.fmt \notin Checked
    BY DEF Checked, Uncounted
  <2>. QED
    BY <1>4, <2>3, <2>4 DEF AtEnd, v
<1>. QED
  BY <1>3, <1>4

\* Each call finds the message after the one before, and the one after the last finds none.
LEMMA SoundNext ==
  ASSUME NEW p \in Packet, Sound(p), NEW k \in 1..Len(p.msgs), NEW w \in Walks, AtMsg(p, w, k)
  PROVE  IF k < Len(p.msgs) THEN AtMsg(p, DecodeNext(p, w), k + 1) ELSE AtEnd(p, DecodeNext(p, w))
<1>1. CASE p.fmt \in Uncounted
  <2>1. k \in 0..Len(p.msgs) /\ w.off = Place(p, k + 1)
    BY <1>1, PacketFacts DEF AtMsg
  <2>. QED
    BY <1>1, <2>1, SoundNextUncounted
<1>2. CASE p.fmt \in Checked \/ p.fmt \in Unchecked \ {"CAN", "INDEX"}
           \/ p.fmt = "CAN" \/ p.fmt = "INDEX"
  BY <1>2, SoundNextChecked, SoundNextCounted, SoundNextCan, SoundNextIndex
<1>. QED
  BY <1>1, <1>2 DEF Packet, Format

LEMMA SoundFirstChecked ==
  ASSUME NEW p \in Packet, Sound(p), p.fmt \in Checked
  PROVE  IF p.msgs = <<>> THEN AtEnd(p, DecodeFirst(p)) ELSE AtMsg(p, DecodeFirst(p), 1)
<1>. DEFINE n == Len(p.msgs)
            h == HeaderOf(p)
            len == FirstLen(p)
            v == DecodeFirst(p)
            u == CheckedFirst(p, h, len)
            a == Place(p, 1)
<1>1. p.fmt \notin Unchecked \cup Uncounted
      /\ p.fmt \notin {"INDEX", "ARINC429F0", "CAN", "UARTF0", "VIDEOF0"}
  BY DEF Checked, Unchecked, Uncounted
<1>2. n \in Nat /\ (p.msgs = <<>> <=> n = 0) /\ h \in Nat /\ len \in Nat /\ p.count = n
      /\ a = ChanSpec /\ ChanSpec \in Nat /\ DataLen(p) \in Nat /\ "NO_MORE_DATA" \in WalkStatus
  <2>1. p.count = n
    BY <1>1 DEF Sound
  <2>2. FirstPlace(p) = ChanSpec /\ ChanSpec \in Nat
    BY <1>1 DEF FirstPlace, ChanSpec
  <2>3. len \in Nat
    BY FirstChecked
  <2>4. p.msgs \in Seq(Message)
    BY DEF Packet
  <2>5. p.msgs = <<>> <=> n = 0
    BY <2>4
  <2>. QED
    BY <2>1, <2>2, <2>3, <2>5, PacketFacts, PlaceFacts, ShownFacts DEF WalkStatus, Ended
<1>3. v = u
  <2>1. p.fmt = "1553F1" => p.count <= MAX_COUNT
    BY DEF Sound
  <2>2. MAX_COUNT \in Nat
    BY WalkAssumption
  <2>3. ~(p.fmt = "1553F1" /\ p.count > MAX_COUNT)
    BY <1>2, <2>1, <2>2
  <2>. QED
    BY <2>3, FirstChecked
<1>4. CASE n = 0
  <2>1. u = Ends(NoWalk, "NO_MORE_DATA") /\ p.count = 0
    BY <1>2, <1>4 DEF CheckedFirst
  <2>. HIDE DEF u, v
  <2>2. u.status = "NO_MORE_DATA" /\ u.num = 0
    BY <1>2, <2>1, NoWalkFacts, EndsFacts
  <2>3. AtEnd(p, v)
    BY <1>3, <2>1, <2>2 DEF AtEnd
  <2>. QED
    BY <1>2, <1>4, <2>3 DEF v
<1>5. CASE n # 0
  <2>1. 1 \in 1..n
    BY <1>2, <1>5
  <2>2. /\ Shown(p, a) = p.msgs[1].len /\ p.msgs[1].len \in SizeOf(p) /\ a < DataLen(p)
        /\ Place(p, 1 + 1) <= DataLen(p) /\ Evened(p.msgs[1].len) = p.msgs[1].len
    BY <2>1, SoundFacts
  <2>3. len = p.msgs[1].len
    BY <1>2, <2>2 DEF FirstLen, SizeOf
  <2>4. a + h + len <= DataLen(p)
    <3>1. Place(p, 1 + 1) = a + h + Evened(p.msgs[1].len)
      BY <2>1, PlaceFacts
    <3>. QED
      BY <2>2, <2>3, <3>1
  <2>5. \/ u.status = "NO_MORE_DATA" /\ p.count = 0
        \/ u.status = "BUFFER_OVERRUN" /\ (ChanSpec >= DataLen(p) \/ ChanSpec + h + len > DataLen(p))
        \/ /\ u.status = "OK" /\ u.off = ChanSpec /\ u.hdr = ChanSpec /\ u.when = ChanSpec
           /\ u.data = ChanSpec + h /\ p.count # 0
           /\ ChanSpec + h + len <= DataLen(p)
    <3>. HIDE DEF h, len
    <3>. QED
      BY <1>2, CheckedFirstFacts
  <2>6. u.num = 0
    <3>. HIDE DEF h, len
    <3>. QED
      BY <1>2, CheckedFirstFacts
  <2>. HIDE DEF u, v, h, len, a
  <2>7. /\ v.status = "OK" /\ v.off = a /\ v.hdr = a /\ v.when = a /\ v.data = a + h
        /\ v.num = 1 - 1
    BY <1>2, <1>3, <1>5, <2>2, <2>4, <2>5, <2>6
  <2>8. IsMessage(p, v, 1)
    BY <1>1, <2>7 DEF IsMessage, a, h
  <2>9. AtMsg(p, v, 1)
    BY <1>1, <2>7, <2>8 DEF AtMsg, a
  <2>. QED
    BY <1>2, <1>5, <2>9 DEF v
<1>. QED
  BY <1>4, <1>5

LEMMA SoundFirstCounted ==
  ASSUME NEW p \in Packet, Sound(p), p.fmt \in Unchecked
  PROVE  IF p.msgs = <<>> THEN AtEnd(p, DecodeFirst(p)) ELSE AtMsg(p, DecodeFirst(p), 1)
<1>. DEFINE n == Len(p.msgs)
            h == HeaderOf(p)
            v == DecodeFirst(p)
            u == Foremost(p)
            a == Place(p, 1)
<1>1. p.fmt \notin Checked \cup Uncounted \cup {"UARTF0", "VIDEOF0"} /\ p.node \in BOOLEAN
      /\ "NO_MORE_DATA" \in WalkStatus
  BY DEF Checked, Unchecked, Uncounted, Packet, WalkStatus, Ended
<1>2. n \in Nat /\ (p.msgs = <<>> <=> n = 0) /\ h \in Nat /\ p.count = n
      /\ a = FirstPlace(p) /\ a \in Nat /\ DataLen(p) \in Nat
  <2>1. p.count = n
    BY <1>1 DEF Sound
  <2>2. p.msgs \in Seq(Message)
    BY DEF Packet
  <2>3. p.msgs = <<>> <=> n = 0
    BY <2>2
  <2>. QED
    BY <2>1, <2>3, PacketFacts, PlaceFacts, ShownFacts
<1>3. v = IF p.count = 0 THEN Ends(NoWalk, "NO_MORE_DATA") ELSE u
  BY FirstCounted
<1>4. CASE n = 0
  <2>. HIDE DEF v
  <2>1. v.status = "NO_MORE_DATA"
    BY <1>1, <1>2, <1>3, <1>4, NoWalkFacts, EndsFacts
  <2>. QED
    BY <1>1, <1>2, <1>4, <2>1 DEF AtEnd, v
<1>5. CASE n # 0
  <2>1. 1 \in 1..n
    BY <1>2, <1>5
  <2>2. /\ Shown(p, a) = p.msgs[1].len /\ p.msgs[1].len \in SizeOf(p)
        /\ Place(p, 1 + 1) <= DataLen(p) /\ Place(p, 1 + 1) = a + h + Evened(p.msgs[1].len)
    BY <2>1, SoundFacts, PlaceFacts
  <2>3. /\ u.num = 0
        /\ p.fmt # "INDEX" => u.status = "OK" /\ u.hdr = a /\ u.when = a /\ u.data = a + h
        /\ p.fmt = "ARINC429F0" => u.time = 0
        /\ p.fmt = "CAN" => u.off = a + h + Evened(Shown(p, a))
        /\ p.fmt = "INDEX" =>
             \/ a + Stamp >= DataLen(p)
             \/ /\ u.off = a /\ u.hdr = a /\ u.when = a /\ u.data = a + h
                /\ u.status = CASE p.node -> "INDEX_NODE"
                                [] ~p.node /\ 0 < p.count - 1 -> "INDEX_ROOT"
                                [] OTHER -> "INDEX_ROOT_LINK"
    <3>. HIDE DEF a
    <3>. QED
      BY <1>2, ForemostFacts
  <2>4. p.fmt = "INDEX" => ~(a + Stamp >= DataLen(p))
    <3>1. p.fmt = "INDEX" => h >= Stamp /\ Evened(p.msgs[1].len) = FileOffset
      BY <2>2 DEF HeaderOf, Stamped, Stamp, SizeOf, Evened, FileOffset, SuIndex_NodeData
    <3>. HIDE DEF a, h
    <3>. QED
      BY <1>2, <2>2, <3>1 DEF Stamp, FileOffset
  <2>5. p.fmt = "ARINC429F0" => u.time = Elapsed(p, 1)
    <3>1. n >= 1
      BY <1>2, <1>5
    <3>. QED
      BY <2>3, <3>1, ElapsedFacts
  <2>6. 0 < p.count - 1 <=> 1 # n
    <3>1. n \in Nat /\ n # 0 /\ p.count = n
      BY <1>2, <1>5
    <3>. HIDE DEF n
    <3>2. 0 < n - 1 <=> 1 # n
      BY <3>1
    <3>. QED
      BY <3>1, <3>2
  <2>. HIDE DEF u, v, h, a
  <2>7. v = u
    BY <1>2, <1>3, <1>5
  <2>8. /\ u.data = a + h /\ u.when = a /\ u.hdr = a /\ u.num = 1 - 1
        /\ p.fmt = "CAN" => u.off = Place(p, 1 + 1)
    BY <2>2, <2>3, <2>4
  <2>9. u.status = CASE p.fmt = "INDEX" /\ p.node -> "INDEX_NODE"
                     [] p.fmt = "INDEX" /\ ~p.node ->
                          IF 1 = n THEN "INDEX_ROOT_LINK" ELSE "INDEX_ROOT"
                     [] OTHER -> "OK"
    <3>1. CASE p.fmt = "INDEX"
      BY <1>1, <2>3, <2>4, <2>6, <3>1
    <3>2. CASE p.fmt # "INDEX"
      BY <2>3, <3>2
    <3>. QED
      BY <3>1, <3>2
  <2>10. IsMessage(p, u, 1)
    BY <1>1, <2>5, <2>8, <2>9 DEF IsMessage, a, h, n
  <2>11. p.fmt = "INDEX" => u.off = FirstPlace(p)
    BY <1>2, <2>3, <2>4
  <2>12. AtMsg(p, v, 1)
    BY <1>1, <2>7, <2>8, <2>10, <2>11 DEF AtMsg, a
  <2>. QED
    BY <1>2, <1>5, <2>12 DEF v
<1>. QED
  BY <1>4, <1>5

\* The first call finds the first message, or none where there is none.
LEMMA SoundFirst ==
  ASSUME NEW p \in Packet, Sound(p)
  PROVE  IF p.msgs = <<>> THEN AtEnd(p, DecodeFirst(p)) ELSE AtMsg(p, DecodeFirst(p), 1)
<1>1. CASE p.fmt \in Uncounted
  <2>. DEFINE n == Len(p.msgs)
              w == From(ChanSpec)
              v == DecodeFirst(p)
  <2>1. n \in Nat /\ ChanSpec \in Nat /\ Place(p, 1) = ChanSpec
    BY <1>1, FirstUncounted, PacketFacts, PlaceFacts DEF ChanSpec
  <2>2. w \in Walks /\ w.off = Place(p, 1)
    BY <2>1, FromFacts
  <2>3. p.msgs = <<>> <=> n = 0
    <3>1. p.msgs \in Seq(Message)
      BY DEF Packet
    <3>. QED
      BY <3>1
  <2>. HIDE DEF w
  <2>4. CASE p.fmt = "VIDEOF0"
    <3>1. 1 \in 1..n /\ p.msgs # <<>>
      BY <2>1, <2>3, <2>4 DEF Sound
    <3>2. v = BodyAt(p, w)
      BY <1>1, <2>4, FirstUncounted DEF w
    <3>. QED
      BY <1>1, <2>2, <3>1, <3>2, SoundBody
  <2>5. CASE p.fmt # "VIDEOF0"
    <3>1. 0 \in 0..n /\ 0 + 1 = 1
      BY <2>1
    <3>2. v = DecodeNext(p, w)
      BY <1>1, <2>5, FirstUncounted DEF w
    <3>3. IF 0 < n THEN AtMsg(p, DecodeNext(p, w), 0 + 1) ELSE AtEnd(p, DecodeNext(p, w))
      <4>. DEFINE k == 0
      <4>1. k \in 0..n /\ k + 1 = 1
        BY <3>1
      <4>. HIDE DEF k
      <4>2. IF k < n THEN AtMsg(p, DecodeNext(p, w), k + 1) ELSE AtEnd(p, DecodeNext(p, w))
        BY <1>1, <2>2, <4>1, SoundNextUncounted
      <4>. QED
        BY <4>2 DEF k
    <3>. HIDE DEF v
    <3>4. IF 0 < n THEN AtMsg(p, v, 1) ELSE AtEnd(p, v)
      BY <3>1, <3>2, <3>3
    <3>. QED
      BY <2>1, <2>3, <3>4 DEF v
  <2>. QED
    BY <2>4, <2>5
<1>. QED
  BY <1>1, SoundFirstChecked, SoundFirstCounted DEF Packet, Format

\* Calls after the end say again that there are no more data.
LEMMA SoundLast ==
  ASSUME NEW p \in Packet, NEW w \in Walks, AtEnd(p, w), DecodeNext(p, w).status \in Ended
  PROVE  AtEnd(p, DecodeNext(p, w))
<1>. DEFINE v == DecodeNext(p, w)
<1>0. "NO_MORE_DATA" \in WalkStatus /\ "NO_MORE_DATA" \notin Found /\ "OK" \notin Ended
  BY DEF WalkStatus, Found, Ended
<1>1. CASE p.fmt \in Checked
  <2>. DEFINE n == HeaderOf(p)
              was == MsgLen(p, w)
              len == NextLen(p, w)
              c == [w EXCEPT !.num = @ + 1]
  <2>1. n \in Nat /\ was \in Nat /\ len \in Nat /\ v = CheckedNext(p, w, n, was, len)
    BY <1>1, PacketFacts, NextChecked
  <2>2. w.num \in Nat /\ p.count \in Nat /\ w.num >= p.count
    BY <1>1 DEF Walks, Packet, AtEnd
  <2>3. c \in Walks /\ c.num = w.num + 1
    <3>1. w.num + 1 \in Nat
      BY <2>2
    <3>2. c \in Walks
      BY <3>1, Zenon DEF Walks
    <3>. QED
      BY <3>2 DEF Walks
  <2>. HIDE DEF v, n, was, len
  <2>4. v = Ends(c, "NO_MORE_DATA")
    <3>1. w.num + 1 >= p.count /\ ~(w.num + 1 < p.count)
      BY <2>2
    <3>. QED
      BY <2>1, <3>1 DEF CheckedNext
  <2>. HIDE DEF c
  <2>5. v.status = "NO_MORE_DATA" /\ v.num = w.num + 1
    BY <1>0, <2>3, <2>4, EndsFacts
  <2>. QED
    BY <2>2, <2>5 DEF AtEnd, v
<1>2. CASE p.fmt \in Unchecked \ {"CAN"}
  <2>. DEFINE u == Onward(p, w)
  <2>1. v = CountedNext(p, w, u) /\ u \in Walks /\ u.num = w.num /\ u.status \in Found
    BY <1>2, NextCounted
  <2>. HIDE DEF v, u
  <2>2. v.status = "NO_MORE_DATA" \/ v.status \in Found
    BY <2>1, CountedNextFacts
  <2>3. v.status = "NO_MORE_DATA"
    BY <2>2 DEF Found, Ended, v
  <2>. QED
    BY <1>2, <2>3 DEF AtEnd, Checked, Unchecked, v
<1>3. CASE p.fmt = "CAN"
  <2>. DEFINE m == [w EXCEPT !.num = @ + 1]
  <2>1. m \in Walks /\ (v = Ends(m, "NO_MORE_DATA") \/ v = CanMsg(p, m))
    BY <1>3, NextCanFacts
  <2>. HIDE DEF v, m
  <2>2. v.status = "NO_MORE_DATA" \/ v.status = "OK"
    BY <1>0, <2>1, EndsFacts, CanMsgFacts
  <2>3. v.status = "NO_MORE_DATA"
    BY <1>0, <2>2 DEF v
  <2>. QED
    BY <1>3, <2>3 DEF AtEnd, Checked, v
<1>4. CASE p.fmt \in Uncounted
  <2>. DEFINE b == BodyAt(p, w)
  <2>1. b \in Walks /\ b.status = "OK"
    BY <1>4, BodyFacts
  <2>2. v = Ends(b, "NO_MORE_DATA") \/ v = Ends(w, "NO_MORE_DATA") \/ v = b
    BY <1>4, NextUncounted
  <2>. HIDE DEF v, b
  <2>3. v.status = "NO_MORE_DATA" \/ v.status = "OK"
    BY <1>0, <2>1, <2>2, EndsFacts
  <2>4. v.status = "NO_MORE_DATA"
    BY <1>0, <2>3 DEF v
  <2>. QED
    BY <1>4, <2>4 DEF AtEnd, Checked, Uncounted, v
<1>. QED
  BY <1>1, <1>2, <1>3, <1>4 DEF Packet, Format

\* The messages returned so far are the first ones of the packet, and the walk is at the last
\* of them, or they are all.
SoundInv ==
  Sound(pkt) =>
    /\ Len(got) <= Len(pkt.msgs)
    /\ \A k \in DOMAIN got : IsMessage(pkt, got[k], k)
    /\ walk.status \in Found => Len(got) >= 1 /\ AtMsg(pkt, walk, Len(got))
    /\ walk.status \in Ended => AtEnd(pkt, walk) /\ Len(got) = Len(pkt.msgs)

LEMMA SoundStepInv ==
  ASSUME GotIsLarge, WalkInv, SoundInv, [WalkNext]_walkvars
  PROVE  SoundInv'
<1>1. CASE UNCHANGED walkvars
  BY <1>1, Zenon DEF walkvars, SoundInv
<1>2. SUFFICES ASSUME WalkNext, Sound(pkt) PROVE SoundInv'
  <2>1. CASE WalkNext /\ ~Sound(pkt)
    <3>1. pkt' = pkt
      BY <2>1 DEF WalkNext, First, Following, AfterEnd, Keep
    <3>. QED
      BY <2>1, <3>1 DEF SoundInv
  <2>. QED
    BY <1>1, <1>2, <2>1
<1>. DEFINE n == Len(pkt.msgs)
<1>3. pkt \in Packet /\ walk \in Walks /\ got \in Seq(Walks) /\ Len(got) \in Nat
      /\ DOMAIN got = 1..Len(got) /\ n \in Nat /\ n <= MAX_GOT /\ MAX_GOT \in Nat
      /\ (pkt.msgs = <<>> <=> n = 0)
  <2>1. pkt \in Packet /\ pkt \in Packets /\ walk \in Walks /\ got \in Seq(Walks)
    BY WalkAssumption DEF WalkInv
  <2>2. n <= MAX_GOT
    BY <1>2, <2>1 DEF GotIsLarge
  <2>3. pkt.msgs \in Seq(Message) /\ MAX_GOT \in Nat
    BY <2>1, WalkAssumption DEF Packet
  <2>. QED
    BY <2>1, <2>2, <2>3
<1>4. /\ Len(got) <= n
      /\ \A k \in DOMAIN got : IsMessage(pkt, got[k], k)
      /\ walk.status \in Found => Len(got) >= 1 /\ AtMsg(pkt, walk, Len(got))
      /\ walk.status \in Ended => AtEnd(pkt, walk) /\ Len(got) = n
  BY <1>2 DEF SoundInv
<1>5. ASSUME NEW v \in Walks, Keep(v), IF Len(got) < n THEN AtMsg(pkt, v, Len(got) + 1) ELSE AtEnd(pkt, v),
             v.status \in Found \cup Ended
      PROVE  SoundInv'
  <2>1. pkt' = pkt /\ walk' = v
        /\ got' = IF v.status \in Found /\ Len(got) < MAX_GOT THEN Append(got, v) ELSE got
    BY <1>5 DEF Keep
  <2>2. CASE Len(got) < n
    <3>1. AtMsg(pkt, v, Len(got) + 1) /\ IsMessage(pkt, v, Len(got) + 1)
      BY <1>5, <2>2 DEF AtMsg
    <3>2. v.status \in Found /\ v.status \notin Ended
      <4>1. v.status \in {"INDEX_NODE", "INDEX_ROOT", "INDEX_ROOT_LINK", "OK"}
        BY <3>1, Zenon DEF IsMessage
      <4>. QED
        BY <4>1 DEF Found, Ended
    <3>3. got' = Append(got, v)
      <4>1. Len(got) < MAX_GOT
        <5>. HIDE DEF n
        <5>. QED
          BY <1>3, <2>2
      <4>. QED
        BY <2>1, <3>2, <4>1
    <3>4. Len(got') = Len(got) + 1 /\ got'[Len(got) + 1] = v /\ DOMAIN got' = 1..(Len(got) + 1)
          /\ \A k \in 1..Len(got) : got'[k] = got[k]
      BY <1>3, <3>3
    <3>5. \A k \in DOMAIN got' : IsMessage(pkt, got'[k], k)
      <4>. TAKE k \in DOMAIN got'
      <4>1. CASE k = Len(got) + 1
        BY <3>1, <3>4, <4>1
      <4>2. CASE k # Len(got) + 1
        <5>1. k \in DOMAIN got /\ k \in 1..Len(got)
          BY <1>3, <3>4, <4>2
        <5>. QED
          BY <1>4, <3>4, <5>1
      <4>. QED
        BY <4>1, <4>2
    <3>6. Len(got') <= n /\ Len(got') >= 1
      BY <1>3, <2>2, <3>4
    <3>. QED
      BY <2>1, <3>1, <3>2, <3>4, <3>5, <3>6, Zenon DEF SoundInv
  <2>3. CASE ~(Len(got) < n)
    <3>1. AtEnd(pkt, v) /\ Len(got) = n
      BY <1>3, <1>4, <1>5, <2>3
    <3>2. v.status \notin Found
      BY <3>1 DEF AtEnd, Found
    <3>3. got' = got
      BY <2>1, <3>2
    <3>. QED
      BY <1>4, <2>1, <3>1, <3>2, <3>3, Zenon DEF SoundInv
  <2>. QED
    BY <2>2, <2>3
<1>6. CASE First
  <2>. DEFINE v == DecodeFirst(pkt)
  <2>1. Keep(v) /\ got = <<>>
    BY <1>6 DEF First, WalkInv
  <2>2. Len(got) = 0 /\ Len(got) + 1 = 1
    BY <2>1
  <2>3. v \in Walks /\ v.status \in Found \cup Ended
    BY <1>3, FirstGoes
  <2>4. IF pkt.msgs = <<>> THEN AtEnd(pkt, v) ELSE AtMsg(pkt, v, 1)
    BY <1>2, <1>3, SoundFirst
  <2>. HIDE DEF v
  <2>5. IF Len(got) < n THEN AtMsg(pkt, v, Len(got) + 1) ELSE AtEnd(pkt, v)
    BY <1>3, <2>2, <2>4
  <2>. QED
    BY <1>5, <2>1, <2>3, <2>5
<1>7. CASE Following \/ AfterEnd
  <2>. DEFINE v == DecodeNext(pkt, walk)
  <2>1. Keep(v) /\ (walk.status \in Found \/ (walk.status \in Ended /\ got # <<>>))
    BY <1>7 DEF Following, AfterEnd
  <2>2. Standing(pkt, walk) \/ Exhausted(pkt, walk)
    BY <2>1 DEF WalkInv
  <2>3. Goes(pkt, v) /\ (Exhausted(pkt, walk) => v.status \in Ended)
    BY <1>3, <2>2, NextGoes
  <2>4. v \in Walks /\ v.status \in Found \cup Ended
    BY <2>3 DEF Goes
  <2>5. CASE walk.status \in Found
    <3>1. Len(got) \in 1..n /\ AtMsg(pkt, walk, Len(got))
      BY <1>3, <1>4, <2>5
    <3>2. IF Len(got) < n THEN AtMsg(pkt, v, Len(got) + 1) ELSE AtEnd(pkt, v)
      BY <1>2, <1>3, <3>1, SoundNext
    <3>. HIDE DEF v
    <3>. QED
      BY <1>5, <2>1, <2>4, <3>2
  <2>6. CASE walk.status \in Ended /\ got # <<>>
    <3>1. AtEnd(pkt, walk) /\ Len(got) = n
      BY <1>4, <2>6
    <3>2. v.status \in Ended
      BY <2>3, <2>6 DEF WalkInv
    <3>3. AtEnd(pkt, v)
      BY <1>3, <3>1, <3>2, SoundLast
    <3>. HIDE DEF v
    <3>4. ~(Len(got) < n)
      BY <1>3, <3>1
    <3>. QED
      BY <1>5, <2>1, <2>4, <3>3, <3>4
  <2>. QED
    BY <2>1, <2>5, <2>6
<1>. QED
  BY <1>2, <1>6, <1>7 DEF WalkNext

\* From a packet as the standard has it, of any format and any number of messages, the loop
\* over Decode_First and Decode_Next returns each message once, in order, at its place and
\* with its time; and when the loop ends it has returned them all.
THEOREM WalkReturnsAll == GotIsLarge /\ WalkSpec => []WalkReturnsMessages
<1>1. WalkInit => SoundInv
  <2>1. SUFFICES ASSUME WalkInit PROVE SoundInv
    OBVIOUS
  <2>2. got = <<>> /\ walk.status = "NONE" /\ pkt \in Packet
    BY <2>1, NoWalkFacts, WalkAssumption DEF WalkInit
  <2>3. Len(got) = 0 /\ DOMAIN got = {} /\ Len(pkt.msgs) \in Nat
        /\ walk.status \notin Found /\ walk.status \notin Ended
    BY <2>2, PacketFacts DEF Found, Ended
  <2>. QED
    BY <2>3 DEF SoundInv
<1>2. SoundInv => WalkReturnsMessages
  BY DEF SoundInv, WalkReturnsMessages, AtEnd
<1>3. CASE GotIsLarge
  <2>1. WalkInv /\ SoundInv /\ [WalkNext]_walkvars => SoundInv'
    BY <1>3, SoundStepInv
  <2>2. WalkInv /\ [WalkNext]_walkvars => WalkInv'
    BY WalkStepInv
  <2>. QED
    BY <1>1, <1>2, <2>1, <2>2, WalkInitInv, PTL DEF WalkSpec
<1>4. CASE ~GotIsLarge
  BY <1>4
<1>. QED
  BY <1>3, <1>4

-----------------------------------------------------------------------------
(* The words of a 1553 message.                                             *)

BusWord == {"CMD1", "CMD2", "STAT1", "STAT2", "DATA"}

LEMMA Joined ==
  ASSUME NEW S, NEW s \in Seq(S), NEW t \in Seq(S)
  PROVE  /\ s \o t \in Seq(S) /\ Len(s \o t) = Len(s) + Len(t)
         /\ \A i \in 1..(Len(s) + Len(t)) :
              (s \o t)[i] = IF i <= Len(s) THEN s[i] ELSE t[i - Len(s)]
OBVIOUS

LEMMA LayoutFacts ==
  ASSUME NEW head \in Seq(BusWord), NEW c \in Nat
  PROVE  LET w == head \o [i \in 1..c |-> "DATA"] \o <<"STAT1">> IN
         /\ DOMAIN w = 1..(Len(head) + c + 1)
         /\ \A i \in DOMAIN w :
              w[i] = IF i <= Len(head) THEN head[i]
                     ELSE IF i <= Len(head) + c THEN "DATA" ELSE "STAT1"
<1>. DEFINE D == [i \in 1..c |-> "DATA"]
            u == head \o D
            w == u \o <<"STAT1">>
<1>1. D \in Seq(BusWord) /\ Len(D) = c /\ \A i \in 1..c : D[i] = "DATA"
  BY DEF BusWord
<1>. HIDE DEF D
<1>2. u \in Seq(BusWord) /\ Len(u) = Len(head) + c /\ Len(head) \in Nat
      /\ \A i \in 1..(Len(head) + c) : u[i] = IF i <= Len(head) THEN head[i] ELSE "DATA"
  BY <1>1
<1>. HIDE DEF u
<1>3. DOMAIN w = 1..(Len(u) + 1) /\ \A i \in 1..(Len(u) + 1) : w[i] = IF i <= Len(u) THEN u[i] ELSE "STAT1"
  BY <1>2 DEF BusWord
<1>. HIDE DEF w
<1>4. /\ DOMAIN w = 1..(Len(head) + c + 1)
      /\ \A i \in DOMAIN w : w[i] = IF i <= Len(head) THEN head[i]
                                    ELSE IF i <= Len(head) + c THEN "DATA" ELSE "STAT1"
  BY <1>2, <1>3
<1>. QED
  BY <1>4 DEF w, u, D

LEMMA AnsweredFound ==
  ASSUME NEW m \in Message, Answered(m)
  PROVE  LET words == BusLayout(m, m.len \div 2)
             b == BusWords(m)
         IN /\ {i \in DOMAIN words : words[i] = "DATA"} = (b.data + 1)..(b.data + b.count)
            /\ \A x \in {<<b.cmd2, "CMD2">>, <<b.stat1, "STAT1">>, <<b.stat2, "STAT2">>} :
                 {i \in DOMAIN words : words[i] = x[2]} = {x[1] + 1} \ {0}
<1>. DEFINE c == i1553WordCnt(m.cmd)
            n == m.len \div 2
            words == BusLayout(m, n)
            b == BusWords(m)
            At_(s) == {i \in DOMAIN words : words[i] = s}
<1>1. c \in Nat
  BY DEF Message, SuCmdWord, i1553WordCnt
<1>2. m.bRT2RT \in BOOLEAN /\ m.cmd.bTR \in BOOLEAN
  BY DEF Message, SuCmdWord
<1>3. n = c + IF m.bRT2RT THEN 4 ELSE 2
  <2>. DEFINE k == m.cmd.uWordCnt
  <2>1. k \in 0..31
    BY DEF Message, SuCmdWord
  <2>2. c = BusDataWords(m.cmd)
    <3>1. k \div 16 = IF k >= 16 THEN 1 ELSE 0
      BY <2>1
    <3>2. ((k + 31) % 32) + 1 = IF k = 0 THEN 32 ELSE k
      BY <2>1
    <3>. HIDE DEF k
    <3>3. c = CASE m.cmd.uSubAddr \in {0, 31} -> IF k >= 16 THEN 1 ELSE 0
                [] m.cmd.uSubAddr \notin {0, 31} /\ k = 0 -> 32
                [] OTHER -> k
      BY DEF i1553WordCnt, c, k
    <3>4. BusDataWords(m.cmd) = IF m.cmd.uSubAddr \in {0, 31} THEN k \div 16 ELSE ((k + 31) % 32) + 1
      BY DEF BusDataWords, k
    <3>5. CASE m.cmd.uSubAddr \in {0, 31}
      BY <3>1, <3>3, <3>4, <3>5
    <3>6. CASE m.cmd.uSubAddr \notin {0, 31}
      BY <3>2, <3>3, <3>4, <3>6
    <3>. QED
      BY <3>5, <3>6
  <2>. QED
    BY <2>2 DEF Answered
<1>. HIDE DEF c, n
<1>4. SUFFICES /\ At_("DATA") = (b.data + 1)..(b.data + b.count)
               /\ At_("CMD2") = {b.cmd2 + 1} \ {0}
               /\ At_("STAT1") = {b.stat1 + 1} \ {0}
               /\ At_("STAT2") = {b.stat2 + 1} \ {0}
  <2>. HIDE DEF words, b
  <2>1. ASSUME NEW x \in {<<b.cmd2, "CMD2">>, <<b.stat1, "STAT1">>, <<b.stat2, "STAT2">>}
        PROVE  {i \in DOMAIN words : words[i] = x[2]} = {x[1] + 1} \ {0}
    <3>1. CASE x = <<b.cmd2, "CMD2">>
      <4>1. x[1] = b.cmd2 /\ x[2] = "CMD2"
        BY <3>1
      <4>. QED
        BY <1>4, <4>1
    <3>2. CASE x = <<b.stat1, "STAT1">>
      <4>1. x[1] = b.stat1 /\ x[2] = "STAT1"
        BY <3>2
      <4>. QED
        BY <1>4, <4>1
    <3>3. CASE x = <<b.stat2, "STAT2">>
      <4>1. x[1] = b.stat2 /\ x[2] = "STAT2"
        BY <3>3
      <4>. QED
        BY <1>4, <4>1
    <3>. QED
      BY <3>1, <3>2, <3>3
  <2>. QED
    BY <1>4, <2>1 DEF n, words, b
<1>5. CASE m.bRT2RT
  <2>. DEFINE head == <<"CMD1", "CMD2", "STAT2">>
  <2>1. words = head \o [i \in 1..c |-> "DATA"] \o <<"STAT1">>
    <3>1. n - 4 = c
      BY <1>1, <1>3, <1>5
    <3>2. words = head \o [i \in 1..(n - 4) |-> "DATA"] \o <<"STAT1">>
      BY <1>5 DEF BusLayout
    <3>. QED
      BY <3>1, <3>2
  <2>2. head \in Seq(BusWord) /\ Len(head) = 3 /\ head[1] = "CMD1" /\ head[2] = "CMD2"
        /\ head[3] = "STAT2"
    BY DEF BusWord
  <2>3. b.cmd2 = 1 /\ b.stat1 = 3 + c /\ b.stat2 = 2 /\ b.data = 3 /\ b.count = c
    BY <1>5 DEF BusWords, c
  <2>. HIDE DEF words, head, b
  <2>4. /\ DOMAIN words = 1..(3 + c + 1)
        /\ \A i \in DOMAIN words : words[i] = IF i <= 3 THEN head[i]
                                              ELSE IF i <= 3 + c THEN "DATA" ELSE "STAT1"
    BY <1>1, <2>1, <2>2, LayoutFacts
  <2>5. /\ words[1] = "CMD1" /\ words[2] = "CMD2" /\ words[3] = "STAT2"
        /\ \A i \in 4..(3 + c) : words[i] = "DATA"
        /\ words[4 + c] = "STAT1"
        /\ \A i \in DOMAIN words : i \in {1, 2, 3} \/ i \in 4..(3 + c) \/ i = 4 + c
        /\ 1 \in DOMAIN words /\ 2 \in DOMAIN words /\ 3 \in DOMAIN words /\ 4 + c \in DOMAIN words
        /\ 4..(3 + c) \subseteq DOMAIN words
    BY <1>1, <2>2, <2>4
  <2>6. At_("DATA") = 4..(3 + c) /\ At_("CMD2") = {2} /\ At_("STAT1") = {4 + c} /\ At_("STAT2") = {3}
    BY <2>5
  <2>7. {1 + 1} \ {0} = {2} /\ {3 + c + 1} \ {0} = {4 + c} /\ {2 + 1} \ {0} = {3}
    BY <1>1
  <2>. QED
    BY <1>1, <2>3, <2>6, <2>7
<1>6. CASE ~m.bRT2RT /\ ~m.cmd.bTR
  <2>. DEFINE head == <<"CMD1">>
  <2>1. words = head \o [i \in 1..c |-> "DATA"] \o <<"STAT1">>
    <3>1. n - 2 = c
      BY <1>1, <1>3, <1>6
    <3>2. words = head \o [i \in 1..(n - 2) |-> "DATA"] \o <<"STAT1">>
      BY <1>6 DEF BusLayout
    <3>. QED
      BY <3>1, <3>2
  <2>2. head \in Seq(BusWord) /\ Len(head) = 1 /\ head[1] = "CMD1"
    BY DEF BusWord
  <2>3. b.cmd2 = Null /\ b.stat1 = 1 + c /\ b.stat2 = Null /\ b.data = 1 /\ b.count = c
    BY <1>6 DEF BusWords, c
  <2>. HIDE DEF words, head, b
  <2>4. /\ DOMAIN words = 1..(1 + c + 1)
        /\ \A i \in DOMAIN words : words[i] = IF i <= 1 THEN head[i]
                                              ELSE IF i <= 1 + c THEN "DATA" ELSE "STAT1"
    BY <1>1, <2>1, <2>2, LayoutFacts
  <2>5. /\ words[1] = "CMD1" /\ \A i \in 2..(1 + c) : words[i] = "DATA"
        /\ words[2 + c] = "STAT1"
        /\ \A i \in DOMAIN words : i = 1 \/ i \in 2..(1 + c) \/ i = 2 + c
        /\ 1 \in DOMAIN words /\ 2 + c \in DOMAIN words
        /\ 2..(1 + c) \subseteq DOMAIN words
    BY <1>1, <2>2, <2>4
  <2>6. At_("DATA") = 2..(1 + c) /\ At_("CMD2") = {} /\ At_("STAT1") = {2 + c} /\ At_("STAT2") = {}
    BY <2>5
  <2>7. {Null + 1} \ {0} = {} /\ {1 + c + 1} \ {0} = {2 + c}
    BY <1>1 DEF Null
  <2>. QED
    BY <1>1, <2>3, <2>6, <2>7
<1>7. CASE ~m.bRT2RT /\ m.cmd.bTR
  <2>. DEFINE head == <<"CMD1", "STAT1">>
              D == [i \in 1..c |-> "DATA"]
  <2>1. words = head \o D
    <3>1. n - 2 = c
      BY <1>1, <1>3, <1>7
    <3>2. words = head \o [i \in 1..(n - 2) |-> "DATA"]
      BY <1>7 DEF BusLayout
    <3>. QED
      BY <3>1, <3>2
  <2>2. head \in Seq(BusWord) /\ Len(head) = 2 /\ head[1] = "CMD1" /\ head[2] = "STAT1"
        /\ D \in Seq(BusWord) /\ Len(D) = c /\ \A i \in 1..c : D[i] = "DATA"
    BY <1>1 DEF BusWord
  <2>3. b.cmd2 = Null /\ b.stat1 = 1 /\ b.stat2 = Null /\ b.data = 2 /\ b.count = c
    BY <1>7 DEF BusWords, c
  <2>. HIDE DEF words, head, b, D
  <2>4. /\ DOMAIN words = 1..(2 + c)
        /\ \A i \in DOMAIN words : words[i] = IF i <= 2 THEN head[i] ELSE "DATA"
    <3>1. words \in Seq(BusWord) /\ Len(words) = Len(head) + Len(D)
          /\ \A i \in 1..(Len(head) + Len(D)) :
               words[i] = IF i <= Len(head) THEN head[i] ELSE D[i - Len(head)]
      BY <2>1, <2>2, Joined
    <3>2. DOMAIN words = 1..(2 + c)
      BY <2>2, <3>1
    <3>3. \A i \in 1..(2 + c) : i > 2 => i - 2 \in 1..c
      BY <1>1
    <3>. QED
      BY <2>2, <3>1, <3>2, <3>3
  <2>5. /\ words[1] = "CMD1" /\ words[2] = "STAT1" /\ \A i \in 3..(2 + c) : words[i] = "DATA"
        /\ \A i \in DOMAIN words : i \in {1, 2} \/ i \in 3..(2 + c)
        /\ 1 \in DOMAIN words /\ 2 \in DOMAIN words
        /\ 3..(2 + c) \subseteq DOMAIN words
    BY <1>1, <2>2, <2>4
  <2>6. At_("DATA") = 3..(2 + c) /\ At_("CMD2") = {} /\ At_("STAT1") = {2} /\ At_("STAT2") = {}
    BY <2>5
  <2>7. {Null + 1} \ {0} = {} /\ {1 + 1} \ {0} = {2}
    BY DEF Null
  <2>. QED
    BY <1>1, <2>3, <2>6, <2>7
<1>. QED
  BY <1>2, <1>5, <1>6, <1>7

\* Of every message of a sound 1553 packet, whatever its command, the pointers are to its
\* second command, its status words and all of its data words.
THEOREM BusWordsFoundAlways == GotIsLarge /\ BusAnswers /\ WalkSpec => []BusWordsFound
<1>1. ASSUME BusAnswers, WalkInv, WalkReturnsMessages PROVE BusWordsFound
  <2>1. SUFFICES ASSUME pkt.fmt = "1553F1", Sound(pkt), NEW k \in DOMAIN got
                 PROVE  LET m == pkt.msgs[k]
                            words == BusLayout(m, m.len \div 2)
                            b == BusWords(m)
                        IN /\ {i \in DOMAIN words : words[i] = "DATA"} = (b.data + 1)..(b.data + b.count)
                           /\ \A x \in {<<b.cmd2, "CMD2">>, <<b.stat1, "STAT1">>, <<b.stat2, "STAT2">>} :
                                {i \in DOMAIN words : words[i] = x[2]} = {x[1] + 1} \ {0}
    BY Zenon DEF BusWordsFound
  <2>2. pkt \in Packets /\ pkt \in Packet /\ got \in Seq(Walks) /\ Len(got) <= Len(pkt.msgs)
    BY <1>1, <2>1, WalkAssumption DEF WalkInv, WalkReturnsMessages
  <2>3. k \in DOMAIN pkt.msgs
    BY <2>2, PacketFacts
  <2>4. pkt.msgs[k] \in Message
    BY <2>2, <2>3 DEF Packet
  <2>5. Answered(pkt.msgs[k])
    BY <1>1, <2>1, <2>2, <2>3 DEF BusAnswers
  <2>. QED
    BY <2>4, <2>5, AnsweredFound
<1>2. WalkSpec => []WalkInv
  BY WalkInitInv, WalkStepInv, PTL DEF WalkSpec
<1>3. CASE BusAnswers
  <2>1. WalkInv /\ WalkReturnsMessages => BusWordsFound
    BY <1>1, <1>3
  <2>. QED
    BY <1>2, <2>1, WalkReturnsAll, PTL
<1>4. CASE ~BusAnswers
  BY <1>4
<1>. QED
  BY <1>3, <1>4

=============================================================================
