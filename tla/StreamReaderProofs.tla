-------------------------- MODULE StreamReaderProofs --------------------------
(***************************************************************************)
(* What a stream handle gives its caller, for every sender, every network  *)
(* and every sequence of reads: a buffer of whole packets, the data of the *)
(* header that was read, headers in the order they were sent, and all of   *)
(* them where nothing goes wrong on the way.                               *)
(***************************************************************************)
EXTENDS StreamReader, TLAPS, SequenceTheorems, WellFoundedInduction

-----------------------------------------------------------------------------
(* Induction up to a number, over the set of those for which a fact holds.  *)

LEMMA UpTo ==
  ASSUME NEW n \in Nat, NEW T, 0 \in T, \A k \in 0..(n - 1) : k \in T => k + 1 \in T
  PROVE  \A k \in 0..n : k \in T
<1>. DEFINE bad == (0..n) \ T
            R == OpToRel(<, Nat)
<1>1. SUFFICES ASSUME bad # {} PROVE FALSE
  OBVIOUS
<1>2. IsWellFoundedOn(R, Nat)
  BY NatLessThanWellFounded, Zenon
<1>3. bad \in SUBSET Nat
  OBVIOUS
<1>4. PICK m \in bad : \A k \in bad : <<k, m>> \notin R
  <2>. HIDE DEF R, bad
  <2>. QED
    BY <1>1, <1>2, <1>3, WFMin, Zenon
<1>5. m # 0 /\ m - 1 \in 0..(n - 1) /\ m - 1 \notin T
  <2>1. m # 0 /\ m \in 0..n /\ m \notin T
    BY <1>4
  <2>2. m - 1 \in 0..(n - 1) /\ m - 1 + 1 = m
    BY <2>1
  <2>. QED
    BY <2>1, <2>2
<1>6. m - 1 \in bad /\ <<m - 1, m>> \in R
  <2>1. m - 1 \in bad /\ m - 1 \in Nat /\ m \in Nat /\ m - 1 < m
    BY <1>3, <1>5
  <2>. QED
    BY <2>1 DEF OpToRel
<1>. QED
  BY <1>4, <1>6

-----------------------------------------------------------------------------
(* FlattenSeq.                                                              *)

\* The function by which FlattenSeq is defined.
IsFlatten(ss, f) ==
  f = [i \in 1..Len(ss) |-> IF i = 1 THEN ss[i] ELSE f[i - 1] \o ss[i]]

\* It is well defined.
LEMMA FlattenExists ==
  ASSUME NEW ss, Len(ss) \in Nat
  PROVE  \E f : IsFlatten(ss, f)
<1>. DEFINE Made(n, f) == f = [i \in 1..n |-> IF i = 1 THEN ss[i] ELSE f[i - 1] \o ss[i]]
            T == {n \in Nat : \E f : Made(n, f)}
<1>1. 0 \in T
  <2>. DEFINE f == [i \in 1..0 |-> {}]
  <2>1. Made(0, f)
    OBVIOUS
  <2>. HIDE DEF Made, f
  <2>. QED
    BY <2>1
<1>2. ASSUME NEW n \in 0..(Len(ss) - 1), n \in T PROVE n + 1 \in T
  <2>1. PICK f : Made(n, f)
    BY <1>2
  <2>. DEFINE g == [i \in 1..(n + 1) |-> IF i = n + 1
                      THEN IF i = 1 THEN ss[i] ELSE f[i - 1] \o ss[i] ELSE f[i]]
  <2>2. \A i \in 1..n : f[i] = IF i = 1 THEN ss[i] ELSE f[i - 1] \o ss[i]
    BY <2>1
  <2>3. \A i \in 1..n : g[i] = f[i]
    OBVIOUS
  <2>4. \A i \in 1..(n + 1) : g[i] = IF i = 1 THEN ss[i] ELSE g[i - 1] \o ss[i]
    <3>. TAKE i \in 1..(n + 1)
    <3>1. i = 1 \/ i - 1 \in 1..n
      OBVIOUS
    <3>2. CASE i = n + 1
      BY <2>3, <3>1, <3>2
    <3>3. CASE i # n + 1
      BY <2>2, <2>3, <3>1, <3>3
    <3>. QED
      BY <3>2, <3>3
  <2>5. g = [i \in 1..(n + 1) |-> IF i = 1 THEN ss[i] ELSE g[i - 1] \o ss[i]]
    <3>1. DOMAIN g = 1..(n + 1) /\ g = [i \in 1..(n + 1) |-> g[i]]
      OBVIOUS
    <3>. HIDE DEF g
    <3>. QED
      BY <2>4, <3>1
  <2>6. Made(n + 1, g)
    <3>. HIDE DEF g
    <3>. QED
      BY <2>5
  <2>. HIDE DEF Made, g
  <2>. QED
    BY <2>6
<1>3. Len(ss) \in T
  <2>. HIDE DEF T
  <2>1. \A k \in 0..Len(ss) : k \in T
    BY <1>1, <1>2, UpTo
  <2>. QED
    BY <2>1
<1>. QED
  BY <1>3 DEF IsFlatten

\* What goes on to hold as each sequence is put behind those before it holds of the whole:
\* C[n] is what may come of the first n.
LEMMA FlattenGrows ==
  ASSUME NEW S, NEW C, NEW ss \in Seq(Seq(S)),
         <<>> \in C[0],
         \A n \in 0..(Len(ss) - 1) : \A a \in C[n] : a \o ss[n + 1] \in C[n + 1]
  PROVE  FlattenSeq(ss) \in C[Len(ss)]
<1>1. Len(ss) \in Nat
  OBVIOUS
<1>2. CASE Len(ss) = 0
  <2>1. ss = <<>>
    BY <1>2
  <2>. QED
    BY <1>2, <2>1 DEF FlattenSeq
<1>3. CASE Len(ss) # 0
  <2>1. PICK f : IsFlatten(ss, f) /\ FlattenSeq(ss) = f[Len(ss)]
    <3>. DEFINE f == CHOOSE f : IsFlatten(ss, f)
    <3>1. IsFlatten(ss, f)
      BY <1>1, FlattenExists, Zenon
    <3>2. FlattenSeq(ss) = f[Len(ss)]
      BY <1>3 DEF FlattenSeq, IsFlatten
    <3>. HIDE DEF f
    <3>. QED
      BY <3>1, <3>2
  <2>2. \A i \in 1..Len(ss) : f[i] = IF i = 1 THEN ss[i] ELSE f[i - 1] \o ss[i]
    BY <2>1 DEF IsFlatten
  <2>. DEFINE T == {n \in Nat : n = 0 \/ f[n] \in C[n]}
  <2>3. ASSUME NEW n \in 0..(Len(ss) - 1), n \in T PROVE n + 1 \in T
    <3>1. n + 1 \in 1..Len(ss) /\ n \in Nat /\ n + 1 - 1 = n
      BY <1>1
    <3>. DEFINE m == n + 1
    <3>2. CASE n = 0
      <4>0. <<>> \o ss[n + 1] \in C[n + 1]
        BY <3>2
      <4>1. ss[m] \in Seq(S) /\ f[m] = ss[m] /\ <<>> \o ss[m] \in C[m]
        <5>1. m \in 1..Len(ss) /\ m = 1
          BY <3>1, <3>2
        <5>. HIDE DEF m
        <5>2. ss[m] \in Seq(S) /\ f[m] = ss[m]
          BY <2>2, <5>1
        <5>. QED
          BY <4>0, <5>2 DEF m
      <4>2. <<>> \o ss[m] = ss[m]
        <5>. HIDE DEF m
        <5>. QED
          BY <4>1
      <4>. QED
        BY <3>1, <4>1, <4>2
    <3>3. CASE n # 0
      <4>1. f[n] \in C[n]
        BY <2>3, <3>1, <3>3
      <4>2. m \in 1..Len(ss) /\ m # 1 /\ m - 1 = n
        BY <3>1, <3>3
      <4>4. f[n] \o ss[m] \in C[m]
        BY <2>3, <4>1
      <4>. HIDE DEF m
      <4>3. f[m] = f[n] \o ss[m]
        BY <2>2, <4>2
      <4>5. f[n + 1] \in C[n + 1]
        BY <4>3, <4>4 DEF m
      <4>. QED
        BY <3>1, <4>5
    <3>. QED
      BY <3>2, <3>3
  <2>4. Len(ss) \in T
    <3>1. 0 \in T
      OBVIOUS
    <3>. HIDE DEF T
    <3>2. \A k \in 0..Len(ss) : k \in T
      BY <1>1, <2>3, <3>1, UpTo
    <3>. QED
      BY <1>1, <3>2
  <2>. QED
    BY <1>3, <2>1, <2>4
<1>. QED
  BY <1>2, <1>3

\* The same of sequences that are all alike.
LEMMA FlattenIn ==
  ASSUME NEW S, NEW C, NEW ss \in Seq(Seq(S)),
         <<>> \in C[0],
         \A i \in 1..Len(ss) : ss[i] \in C[1],
         \A n \in Nat : \A a \in C[n], b \in C[1] : a \o b \in C[n + 1]
  PROVE  FlattenSeq(ss) \in C[Len(ss)]
<1>1. ASSUME NEW n \in 0..(Len(ss) - 1), NEW a \in C[n] PROVE a \o ss[n + 1] \in C[n + 1]
  <2>1. n \in Nat /\ n + 1 \in 1..Len(ss)
    OBVIOUS
  <2>. QED
    BY <2>1
<1>. QED
  BY <1>1, FlattenGrows

-----------------------------------------------------------------------------
(* What is in a datagram.                                                   *)

\* In data, u is followed by v: within a packet, or at the border of two.
Joined(ps, u, v) == v = <<u[1], u[2] + 1>> \/ (u[2] = ps[u[1]].len - 1 /\ v[2] = 0)

\* Data that is made of whole packets of ps.
WholePackets(ps, data) ==
  /\ data \in Seq(Unit) /\ data # <<>>
  /\ \A i \in 1..Len(data) : data[i][1] \in 1..Len(ps)
  /\ data[1][2] = 0 /\ data[Len(data)][2] = ps[data[Len(data)][1]].len - 1
  /\ \A i \in 2..Len(data) : Joined(ps, data[i - 1], data[i])

LEMMA PacketFacts ==
  ASSUME NEW q \in Packets
  PROVE  /\ q.len \in Nat \ {0} /\ HeaderLen(q) \in Nat \ {0} /\ HeaderLen(q) <= q.len
         /\ q.sec \in BOOLEAN /\ HEADER_SIZE <= HeaderLen(q)
<1>1. q \in Packet /\ q.len >= HeaderLen(q)
  BY NetAssumption
<1>2. HEADER_SIZE \in Nat \ {0} /\ SEC_HEADER_SIZE \in Nat \ {0}
  BY NetAssumption
<1>. QED
  BY <1>1, <1>2 DEF Packet, HeaderLen

LEMMA UnitsFacts ==
  ASSUME NEW p \in Nat, NEW from \in Nat, NEW n \in Nat
  PROVE  /\ Units(p, from, n) \in Seq(Unit) /\ Len(Units(p, from, n)) = n
         /\ \A i \in 1..n : Units(p, from, n)[i] = <<p, from + i - 1>>
<1>1. \A i \in 1..n : <<p, from + i - 1>> \in Unit
  BY DEF Unit
<1>. QED
  BY <1>1 DEF Units

LEMMA WholeUnits ==
  ASSUME NEW ps \in Seq(Packets), NEW p \in 1..Len(ps)
  PROVE  WholePackets(ps, Units(p, 0, ps[p].len))
<1>. DEFINE n == ps[p].len
            d == Units(p, 0, n)
<1>1. n \in Nat \ {0}
  BY PacketFacts
<1>. HIDE DEF n
<1>2. d \in Seq(Unit) /\ Len(d) = n /\ \A i \in 1..n : d[i] = <<p, i - 1>>
  <2>0. p \in Nat /\ 0 \in Nat /\ n \in Nat
    BY <1>1
  <2>1. d \in Seq(Unit) /\ Len(d) = n /\ \A i \in 1..n : d[i] = <<p, 0 + i - 1>>
    BY <2>0, UnitsFacts
  <2>2. \A i \in 1..n : 0 + i - 1 = i - 1
    BY <1>1
  <2>. HIDE DEF d
  <2>. QED
    BY <2>1, <2>2
<1>. HIDE DEF d
<1>3. d # <<>>
  BY <1>1, <1>2
<1>4. d[1] = <<p, 0>> /\ d[n] = <<p, n - 1>>
  BY <1>1, <1>2
<1>5. \A i \in 2..n : d[i] = <<d[i - 1][1], d[i - 1][2] + 1>>
  <2>. TAKE i \in 2..n
  <2>1. i \in 1..n /\ i - 1 \in 1..n
    BY <1>1
  <2>2. d[i] = <<p, i - 1>> /\ d[i - 1] = <<p, i - 1 - 1>>
    BY <1>2, <2>1
  <2>3. d[i - 1][1] = p /\ d[i - 1][2] = i - 1 - 1 /\ i - 1 - 1 + 1 = i - 1
    BY <2>1, <2>2
  <2>. HIDE DEF d
  <2>. QED
    BY <2>2, <2>3
<1>6. \A i \in 1..n : d[i][1] = p
  BY <1>2
<1>7. d[n][1] = p /\ d[n][2] = n - 1 /\ d[1][2] = 0
  BY <1>4
<1>8. WholePackets(ps, d)
  BY <1>2, <1>3, <1>5, <1>6, <1>7 DEF WholePackets, Joined, n
<1>. QED
  BY <1>8 DEF d, n

LEMMA WholeConcat ==
  ASSUME NEW ps \in Seq(Packets), NEW a, NEW b, WholePackets(ps, a), WholePackets(ps, b)
  PROVE  WholePackets(ps, a \o b)
<1>. DEFINE d == a \o b
            n == Len(a)
<1>1. /\ a \in Seq(Unit) /\ b \in Seq(Unit) /\ a # <<>> /\ b # <<>>
      /\ n \in Nat /\ n > 0 /\ Len(b) \in Nat /\ Len(b) > 0
  BY DEF WholePackets
<1>2. /\ d \in Seq(Unit) /\ Len(d) = n + Len(b)
      /\ \A i \in 1..n : d[i] = a[i]
      /\ \A i \in (n + 1)..(n + Len(b)) : d[i] = b[i - n]
  BY <1>1
<1>. HIDE DEF d
<1>3. d[1] = a[1] /\ d[n] = a[n] /\ d[n + 1] = b[1] /\ d[n + Len(b)] = b[Len(b)] /\ d # <<>>
  <2>1. 1 \in 1..n /\ n \in 1..n
    BY <1>1
  <2>2. /\ n + 1 \in (n + 1)..(n + Len(b)) /\ n + 1 - n = 1
        /\ n + Len(b) \in (n + 1)..(n + Len(b)) /\ n + Len(b) - n = Len(b)
    BY <1>1
  <2>. HIDE DEF n
  <2>3. d[1] = a[1] /\ d[n] = a[n]
    BY <1>2, <2>1
  <2>4. d[n + 1] = b[1] /\ d[n + Len(b)] = b[Len(b)]
    BY <1>1, <1>2, <2>2
  <2>5. d # <<>>
    BY <1>1, <1>2
  <2>. QED
    BY <2>3, <2>4, <2>5
<1>4. \A i \in 1..Len(d) : d[i][1] \in 1..Len(ps)
  <2>. TAKE i \in 1..Len(d)
  <2>1. CASE i <= n
    BY <1>1, <1>2, <2>1 DEF WholePackets
  <2>2. CASE i > n
    <3>. DEFINE j == i - n
    <3>1. j \in 1..Len(b) /\ d[i] = b[j]
      BY <1>1, <1>2, <2>2
    <3>. HIDE DEF j
    <3>. QED
      BY <3>1 DEF WholePackets
  <2>. QED
    BY <1>1, <2>1, <2>2
<1>5. \A i \in 2..Len(d) : Joined(ps, d[i - 1], d[i])
  <2>. TAKE i \in 2..Len(d)
  <2>1. CASE i <= n
    <3>1. i - 1 \in 1..n /\ i \in 2..n /\ i \in 1..n
      BY <1>1, <2>1
    <3>. QED
      BY <1>2, <3>1 DEF WholePackets
  <2>2. CASE i = n + 1
    <3>1. d[i - 1] = a[n] /\ d[i] = b[1]
      BY <1>1, <1>3, <2>2
    <3>2. a[n][2] = ps[a[n][1]].len - 1 /\ b[1][2] = 0
      BY DEF WholePackets
    <3>. QED
      BY <3>1, <3>2 DEF Joined
  <2>3. CASE i > n + 1
    <3>. DEFINE j == i - n
    <3>1. j \in 2..Len(b) /\ d[i] = b[j]
      BY <1>1, <1>2, <2>3
    <3>2. d[i - 1] = b[j - 1]
      <4>1. i - 1 \in (n + 1)..(n + Len(b)) /\ i - 1 - n = j - 1
        BY <1>1, <1>2, <2>3
      <4>. HIDE DEF j
      <4>. QED
        BY <1>2, <4>1
    <3>. HIDE DEF j
    <3>. QED
      BY <3>1, <3>2 DEF WholePackets
  <2>. QED
    BY <1>1, <1>2, <2>1, <2>2, <2>3
<1>6. d[1][2] = 0 /\ d[Len(d)][2] = ps[d[Len(d)][1]].len - 1
  BY <1>2, <1>3 DEF WholePackets
<1>7. WholePackets(ps, d)
  BY <1>2, <1>3, <1>4, <1>5, <1>6 DEF WholePackets
<1>. QED
  BY <1>7 DEF d

\* Sending more packets makes no difference to those already sent.
LEMMA WholeGrows ==
  ASSUME NEW ps \in Seq(Packets), NEW qs \in Seq(Packets), NEW data, WholePackets(ps, data)
  PROVE  WholePackets(ps \o qs, data)
<1>. DEFINE all == ps \o qs
<1>1. all \in Seq(Packets) /\ Len(all) >= Len(ps) /\ \A p \in 1..Len(ps) : all[p] = ps[p]
  OBVIOUS
<1>. HIDE DEF all
<1>2. data \in Seq(Unit) /\ data # <<>> /\ Len(data) \in 1..Len(data) /\ data[1][2] = 0
  BY DEF WholePackets
<1>3. \A i \in 1..Len(data) : data[i][1] \in 1..Len(ps) /\ data[i][1] \in 1..Len(all)
  BY <1>1 DEF WholePackets
<1>4. data[Len(data)][2] = all[data[Len(data)][1]].len - 1
  BY <1>1, <1>2, <1>3 DEF WholePackets
<1>5. \A i \in 2..Len(data) : Joined(all, data[i - 1], data[i])
  <2>. TAKE i \in 2..Len(data)
  <2>1. i - 1 \in 1..Len(data) /\ Joined(ps, data[i - 1], data[i])
    BY <1>2 DEF WholePackets
  <2>2. all[data[i - 1][1]] = ps[data[i - 1][1]]
    BY <1>1, <1>3, <2>1
  <2>. QED
    BY <2>1, <2>2 DEF Joined
<1>6. WholePackets(all, data)
  BY <1>2, <1>3, <1>4, <1>5 DEF WholePackets
<1>. QED
  BY <1>6 DEF all

-----------------------------------------------------------------------------
(* What is sent: runs of datagrams.                                         *)

\* d is a part of packet p.
PartOf(ps, p, d) ==
  /\ d.type = "Seg" /\ d.data = Units(p, d.off, Len(d.data))
  /\ d.off + Len(d.data) <= ps[p].len

\* c is the part of p before d.
PartBefore(ps, p, c, d) == PartOf(ps, p, c) /\ c.off + Len(c.data) = d.off

\* Each datagram is of whole packets, or a part of a packet that comes right behind the part
\* before it.
IsRun(ps, ds) ==
  /\ ds \in Seq(Datagram)
  /\ \A k \in 1..Len(ds) :
       \/ ds[k].type = "Full" /\ WholePackets(ps, ds[k].data)
       \/ \E p \in 1..Len(ps) :
            /\ PartOf(ps, p, ds[k])
            /\ ds[k].off = 0 \/ (k > 1 /\ PartBefore(ps, p, ds[k - 1], ds[k]))

LEMMA Behind ==
  ASSUME NEW S, NEW s \in Seq(S), NEW t \in Seq(S)
  PROVE  /\ s \o t \in Seq(S) /\ Len(s \o t) = Len(s) + Len(t)
         /\ \A i \in 1..Len(s) : (s \o t)[i] = s[i]
         /\ \A i \in (Len(s) + 1)..(Len(s) + Len(t)) : (s \o t)[i] = t[i - Len(s)]
OBVIOUS

LEMMA RunConcat ==
  ASSUME NEW ps, NEW a, NEW b, IsRun(ps, a), IsRun(ps, b)
  PROVE  IsRun(ps, a \o b)
<1>. DEFINE d == a \o b
            n == Len(a)
<1>1. a \in Seq(Datagram) /\ b \in Seq(Datagram) /\ n \in Nat
  BY DEF IsRun
<1>2. /\ d \in Seq(Datagram) /\ Len(d) = n + Len(b) /\ Len(b) \in Nat
      /\ \A i \in 1..n : d[i] = a[i]
      /\ \A i \in (n + 1)..(n + Len(b)) : d[i] = b[i - n]
  BY <1>1
<1>. HIDE DEF d
<1>3. ASSUME NEW k \in 1..Len(d)
      PROVE  \/ d[k].type = "Full" /\ WholePackets(ps, d[k].data)
             \/ \E p \in 1..Len(ps) :
                  /\ PartOf(ps, p, d[k])
                  /\ d[k].off = 0 \/ (k > 1 /\ PartBefore(ps, p, d[k - 1], d[k]))
  <2>1. CASE k <= n
    <3>1. k \in 1..n /\ (k > 1 => k - 1 \in 1..n)
      BY <1>1, <2>1
    <3>2. d[k] = a[k] /\ (k > 1 => d[k - 1] = a[k - 1])
      BY <1>2, <3>1
    <3>. QED
      BY <3>1, <3>2 DEF IsRun
  <2>2. CASE k > n
    <3>. DEFINE j == k - n
    <3>1. j \in 1..Len(b) /\ d[k] = b[j]
      BY <1>1, <1>2, <2>2
    <3>2. j > 1 => k > 1 /\ d[k - 1] = b[j - 1]
      <4>1. j > 1 => k > 1 /\ k - 1 \in (n + 1)..(n + Len(b)) /\ k - 1 - n = j - 1
        BY <1>1, <1>2, <2>2
      <4>. HIDE DEF j
      <4>. QED
        BY <1>1, <1>2, <4>1
    <3>. HIDE DEF j
    <3>. QED
      BY <3>1, <3>2 DEF IsRun
  <2>. QED
    BY <1>1, <2>1, <2>2
<1>4. IsRun(ps, d)
  BY <1>2, <1>3 DEF IsRun
<1>. QED
  BY <1>4 DEF d

LEMMA RunPrefix ==
  ASSUME NEW ps, NEW ds, IsRun(ps, ds), NEW n \in 0..Len(ds)
  PROVE  IsRun(ps, SubSeq(ds, 1, n)) /\ Len(SubSeq(ds, 1, n)) = n
<1>. DEFINE d == SubSeq(ds, 1, n)
<1>1. ds \in Seq(Datagram) /\ n \in Nat /\ Len(ds) \in Nat
  BY DEF IsRun
<1>2. d \in Seq(Datagram) /\ Len(d) = n /\ \A i \in 1..n : d[i] = ds[i]
  BY <1>1
<1>. HIDE DEF d
<1>3. \A k \in 1..n : k \in 1..Len(ds) /\ (k > 1 => k - 1 \in 1..n)
  BY <1>1
<1>4. IsRun(ps, d)
  BY <1>2, <1>3 DEF IsRun
<1>. QED
  BY <1>2, <1>4 DEF d

LEMMA RunGrows ==
  ASSUME NEW ps \in Seq(Packets), NEW qs \in Seq(Packets), NEW ds, IsRun(ps, ds)
  PROVE  IsRun(ps \o qs, ds)
<1>. DEFINE all == ps \o qs
<1>1. all \in Seq(Packets) /\ Len(all) >= Len(ps) /\ \A p \in 1..Len(ps) : all[p] = ps[p]
  OBVIOUS
<1>2. \A data : WholePackets(ps, data) => WholePackets(all, data)
  BY WholeGrows
<1>. HIDE DEF all
<1>3. \A p \in 1..Len(ps) : p \in 1..Len(all)
  BY <1>1
<1>4. \A p \in 1..Len(ps) : \A c : PartOf(ps, p, c) => PartOf(all, p, c)
  BY <1>1 DEF PartOf
<1>5. \A p \in 1..Len(ps) : \A c, d : PartBefore(ps, p, c, d) => PartBefore(all, p, c, d)
  BY <1>4 DEF PartBefore
<1>6. IsRun(all, ds)
  BY <1>2, <1>3, <1>4, <1>5 DEF IsRun
<1>. QED
  BY <1>6 DEF all

\* The number of a datagram does not matter to what is in it.
LEMMA RunNumbered ==
  ASSUME NEW ps, NEW ds, IsRun(ps, ds), NEW s \in Nat
  PROVE  /\ IsRun(ps, Numbered(ds, s)) /\ Len(Numbered(ds, s)) = Len(ds)
         /\ \A k \in 1..Len(ds) : Numbered(ds, s)[k].seq = (s + k - 1) % SEQ_MOD
<1>. DEFINE d == Numbered(ds, s)
<1>1. ds \in Seq(Datagram) /\ Len(ds) \in Nat /\ DOMAIN ds = 1..Len(ds)
  BY DEF IsRun
<1>2. \A k \in 1..Len(ds) : /\ (s + k - 1) % SEQ_MOD \in 0..(SEQ_MOD - 1)
                           /\ ds[k] \in Datagram
                           /\ d[k] = [ds[k] EXCEPT !.seq = (s + k - 1) % SEQ_MOD]
  <2>1. \A k \in 1..Len(ds) : (s + k - 1) % SEQ_MOD \in 0..(SEQ_MOD - 1)
    BY <1>1, NetAssumption
  <2>. QED
    BY <1>1, <2>1 DEF Numbered
<1>3. \A k \in 1..Len(ds) : /\ d[k] \in Datagram /\ d[k].seq = (s + k - 1) % SEQ_MOD
                           /\ d[k].type = ds[k].type /\ d[k].off = ds[k].off
                           /\ d[k].data = ds[k].data
  BY <1>2 DEF Datagram
<1>4. d \in Seq(Datagram) /\ Len(d) = Len(ds)
  <2>1. DOMAIN d = 1..Len(ds) /\ d = [k \in 1..Len(ds) |-> d[k]]
    BY <1>1 DEF Numbered
  <2>. HIDE DEF d
  <2>. QED
    BY <1>1, <1>3, <2>1
<1>. HIDE DEF d
<1>5. \A p \in 1..Len(ps), k \in 1..Len(ds) : PartOf(ps, p, ds[k]) => PartOf(ps, p, d[k])
  BY <1>3 DEF PartOf
<1>6. \A p \in 1..Len(ps), j, k \in 1..Len(ds) :
        PartBefore(ps, p, ds[j], ds[k]) => PartBefore(ps, p, d[j], d[k])
  BY <1>3, <1>5 DEF PartBefore
<1>7. \A k \in 1..Len(ds) : k > 1 => k - 1 \in 1..Len(ds)
  BY <1>1
<1>8. IsRun(ps, d)
  <2>1. ASSUME NEW k \in 1..Len(ds)
        PROVE  \/ d[k].type = "Full" /\ WholePackets(ps, d[k].data)
               \/ \E p \in 1..Len(ps) :
                    /\ PartOf(ps, p, d[k])
                    /\ d[k].off = 0 \/ (k > 1 /\ PartBefore(ps, p, d[k - 1], d[k]))
    BY <1>3, <1>5, <1>6, <1>7 DEF IsRun
  <2>. QED
    BY <1>4, <2>1 DEF IsRun
<1>. QED
  BY <1>3, <1>4, <1>8 DEF d

LEMMA TimesPlus ==
  ASSUME NEW m \in Nat, NEW a \in Nat, NEW b \in Nat
  PROVE  m * (a + b) = m * a + m * b /\ (a <= b => m * a <= m * b) /\ m * a \in Nat
OBVIOUS

\* The places of the segments: each begins where the one before it ends.
LEMMA SegmentPlaces ==
  ASSUME NEW w \in Nat \ {0}, NEW len \in Nat, NEW k \in 1..((len + w - 1) \div w)
  PROVE  /\ (k - 1) * w \in Nat /\ (k - 1) * w < len
         /\ k > 1 => (k - 2) * w \in Nat /\ (k - 2) * w + w = (k - 1) * w
<1>. DEFINE K == (len + w - 1) \div w
<1>1. K \in Nat /\ K * w <= len + w - 1 /\ k \in Nat /\ k <= K
  OBVIOUS
<1>. HIDE DEF K
<1>2. k * w <= K * w
  BY <1>1
<1>3. (k - 1) * w = k * w - w /\ (k - 2) * w = k * w - w - w
  BY <1>1
<1>4. k * w \in Nat /\ k * w >= w /\ (k > 1 => k * w >= w + w)
  BY <1>1
<1>. QED
  BY <1>1, <1>2, <1>3, <1>4

\* How many datagrams a packet takes.
LEMMA SegmentCount ==
  ASSUME NEW w \in Nat \ {0}, NEW len \in Nat, NEW m \in Nat, len <= m * w
  PROVE  (len + w - 1) \div w \in Nat /\ (len + w - 1) \div w <= m
<1>. DEFINE K == (len + w - 1) \div w
<1>1. K \in Nat /\ K * w <= len + w - 1
  OBVIOUS
<1>. HIDE DEF K
<1>2. ASSUME K >= m + 1 PROVE FALSE
  <2>1. (m + 1) * w <= K * w
    BY <1>1, <1>2
  <2>2. (m + 1) * w = m * w + w
    OBVIOUS
  <2>. QED
    BY <1>1, <2>1, <2>2
<1>3. K <= m
  BY <1>1, <1>2
<1>. QED
  BY <1>1, <1>3 DEF K

LEMMA SegmentsRun ==
  ASSUME NEW ps \in Seq(Packets), NEW p \in 1..Len(ps)
  PROVE  IsRun(ps, Segments(p, ps[p].len))
<1>. DEFINE w == MAX_UDP_WRITE_SIZE
            len == ps[p].len
            K == (len + w - 1) \div w
            off(k) == (k - 1) * w
            n(k) == MinOf(w, len - off(k))
            d(k) == [seq |-> 0, type |-> "Seg", off |-> off(k), data |-> Units(p, off(k), n(k))]
            ds == Segments(p, len)
<1>1. w \in Nat \ {0} /\ len \in Nat \ {0} /\ p \in Nat /\ 0 \in 0..(SEQ_MOD - 1)
  <2>1. ps[p] \in Packets /\ p \in Nat
    OBVIOUS
  <2>2. w \in Nat \ {0} /\ 0 \in 0..(SEQ_MOD - 1)
    BY NetAssumption
  <2>. QED
    BY <2>1, <2>2, PacketFacts
<1>. HIDE DEF w, len
<1>2. K \in Nat
  BY <1>1
<1>3. ds = [k \in 1..K |-> d(k)]
  BY DEF Segments, w
<1>. HIDE DEF K
<1>4. ASSUME NEW k \in 1..K
      PROVE  /\ off(k) \in Nat /\ n(k) \in Nat /\ off(k) + n(k) <= len
             /\ k > 1 => off(k - 1) + n(k - 1) = off(k)
  <2>1. /\ (k - 1) * w \in Nat /\ (k - 1) * w < len
        /\ k > 1 => (k - 2) * w \in Nat /\ (k - 2) * w + w = (k - 1) * w
    BY <1>1, SegmentPlaces DEF K
  <2>2. k > 1 => k - 1 - 1 = k - 2
    BY <1>2
  <2>. QED
    BY <1>1, <2>1, <2>2 DEF MinOf
<1>. HIDE DEF off, n
<1>5. ASSUME NEW k \in 1..K PROVE d(k) \in Datagram /\ PartOf(ps, p, d(k))
  <2>1. Units(p, off(k), n(k)) \in Seq(Unit) /\ Len(Units(p, off(k), n(k))) = n(k)
    BY <1>1, <1>4, UnitsFacts
  <2>. QED
    BY <1>1, <1>4, <2>1 DEF Datagram, PartOf, len
<1>6. ASSUME NEW k \in 1..K, k > 1 PROVE PartBefore(ps, p, d(k - 1), d(k))
  <2>1. k - 1 \in 1..K
    BY <1>2, <1>6
  <2>2. Len(Units(p, off(k - 1), n(k - 1))) = n(k - 1)
    BY <1>1, <1>4, <2>1, UnitsFacts
  <2>3. PartOf(ps, p, d(k - 1))
    BY <1>5, <2>1
  <2>. QED
    BY <1>4, <1>6, <2>2, <2>3 DEF PartBefore
<1>7. off(1) = 0
  BY <1>1 DEF off
<1>8. ds \in Seq(Datagram) /\ Len(ds) = K /\ \A k \in 1..K : ds[k] = d(k)
  <2>. HIDE DEF d, ds
  <2>1. DOMAIN ds = 1..K
    BY <1>3
  <2>. QED
    BY <1>2, <1>3, <1>5, <2>1
<1>9. \A k \in 1..K : d(k).off = off(k) /\ (k = 1 \/ (k > 1 /\ k - 1 \in 1..K))
  BY <1>2
<1>. HIDE DEF d, ds
<1>10. \A k \in 1..Len(ds) : /\ PartOf(ps, p, ds[k])
                             /\ ds[k].off = 0 \/ (k > 1 /\ PartBefore(ps, p, ds[k - 1], ds[k]))
  BY <1>5, <1>6, <1>7, <1>8, <1>9
<1>11. IsRun(ps, ds)
  BY <1>8, <1>10 DEF IsRun
<1>. QED
  BY <1>11 DEF ds, len

\* What a packet is sent as.
LEMMA PartsRun ==
  ASSUME NEW ps \in Seq(Packets), NEW p \in 1..Len(ps)
  PROVE  IsRun(ps, Parts(p, ps[p].len))
<1>1. CASE ps[p].len > MAX_UDP_WRITE_SIZE
  BY <1>1, SegmentsRun DEF Parts
<1>2. CASE ~(ps[p].len > MAX_UDP_WRITE_SIZE)
  <2>. DEFINE d == FullDatagram(Units(p, 0, ps[p].len))
  <2>1. WholePackets(ps, Units(p, 0, ps[p].len))
    BY WholeUnits
  <2>2. d \in Datagram /\ d.type = "Full" /\ d.data = Units(p, 0, ps[p].len)
    BY <2>1, NetAssumption DEF FullDatagram, Datagram, WholePackets
  <2>. HIDE DEF d
  <2>3. IsRun(ps, <<d>>)
    BY <2>1, <2>2 DEF IsRun
  <2>. QED
    BY <1>2, <2>3 DEF Parts, d
<1>. QED
  BY <1>1, <1>2

LEMMA PartsCount ==
  ASSUME NEW m, FewerThanNumbers(m), NEW q \in Packets, NEW p
  PROVE  Len(Parts(p, q.len)) \in 0..m
<1>1. m \in Nat /\ m >= 1 /\ q.len \in Nat /\ q.len <= m * MAX_UDP_WRITE_SIZE
  BY PacketFacts DEF FewerThanNumbers
<1>2. CASE q.len > MAX_UDP_WRITE_SIZE
  <2>. DEFINE K == (q.len + MAX_UDP_WRITE_SIZE - 1) \div MAX_UDP_WRITE_SIZE
  <2>1. K \in Nat /\ K <= m
    <3>1. MAX_UDP_WRITE_SIZE \in Nat \ {0}
      BY NetAssumption
    <3>. QED
      BY <1>1, <3>1, SegmentCount
  <2>2. Parts(p, q.len) = Segments(p, q.len)
    BY <1>2 DEF Parts
  <2>3. Len(Segments(p, q.len)) = K
    <3>. HIDE DEF K
    <3>. QED
      BY <2>1 DEF Segments, K
  <2>. QED
    BY <1>1, <2>1, <2>2, <2>3
<1>3. CASE ~(q.len > MAX_UDP_WRITE_SIZE)
  <2>1. Len(Parts(p, q.len)) = 1
    BY <1>3 DEF Parts
  <2>. QED
    BY <1>1, <2>1
<1>. QED
  BY <1>2, <1>3

\* The sender handles all of the caller's packets, or those before its assert fails.
LEMMA HandledFacts ==
  ASSUME NEW b \in Seq(Packets)
  PROVE  Handled(b) \in 0..Len(b)
<1>. DEFINE found(n) == Overshoots(b, n + 1) /\ \A i \in 1..n : ~Overshoots(b, i)
            T == {k \in Nat : \A i \in 1..k : ~Overshoots(b, i)}
<1>1. Len(b) \in Nat
  OBVIOUS
<1>2. CASE \E i \in DOMAIN b : Overshoots(b, i)
  <2>1. \E n \in 0..Len(b) : found(n)
    <3>1. SUFFICES ASSUME \A n \in 0..Len(b) : ~found(n) PROVE FALSE
      OBVIOUS
    <3>. HIDE DEF found
    <3>2. 0 \in T
      OBVIOUS
    <3>3. ASSUME NEW k \in 0..(Len(b) - 1), k \in T PROVE k + 1 \in T
      <4>1. ~Overshoots(b, k + 1)
        <5>1. k \in 0..Len(b) /\ \A i \in 1..k : ~Overshoots(b, i)
          BY <1>1, <3>3
        <5>2. ~found(k)
          BY <3>1, <5>1
        <5>. QED
          BY <5>1, <5>2 DEF found
      <4>2. \A i \in 1..(k + 1) : i = k + 1 \/ i \in 1..k
        BY <1>1
      <4>. QED
        BY <1>1, <3>3, <4>1, <4>2
    <3>4. Len(b) \in T
      <4>. HIDE DEF T
      <4>1. \A k \in 0..Len(b) : k \in T
        BY <1>1, <3>2, <3>3, UpTo
      <4>. QED
        BY <1>1, <4>1
    <3>. QED
      BY <1>2, <3>4
  <2>. HIDE DEF found
  <2>2. Handled(b) = CHOOSE n \in 0..Len(b) : found(n)
    BY <1>2 DEF Handled, found
  <2>. QED
    BY <2>1, <2>2
<1>3. CASE ~(\E i \in DOMAIN b : Overshoots(b, i))
  BY <1>1, <1>3 DEF Handled
<1>. QED
  BY <1>2, <1>3

\* What the sender puts on the wire for a buffer of packets.
BurstOf(b, counts) ==
  FlattenSeq([i \in 1..Handled(b) |-> SubSeq(PartsOf(b, i), 1, counts[i])])

LEMMA CountsFacts ==
  ASSUME NEW m, FewerThanNumbers(m), NEW b \in Seq(Packets),
         NEW counts \in {Complete(b)} \cup CutShort(b), NEW i \in 1..Handled(b)
  PROVE  counts[i] \in 0..Len(PartsOf(b, i))
<1>. DEFINE n(j) == Len(PartsOf(b, j))
<1>1. \A j \in 1..Handled(b) : n(j) \in Nat /\ n(j) \in 0..n(j)
  <2>. TAKE j \in 1..Handled(b)
  <2>1. b[j] \in Packets
    BY HandledFacts
  <2>2. n(j) \in 0..m /\ m \in Nat
    BY <2>1, PartsCount DEF PartsOf, FewerThanNumbers
  <2>. HIDE DEF n
  <2>. QED
    BY <2>2
<1>2. Complete(b)[i] = n(i) /\ DOMAIN Complete(b) = 1..Handled(b)
  BY DEF Complete
<1>3. CASE counts = Complete(b)
  BY <1>1, <1>2, <1>3
<1>4. CASE counts \in CutShort(b)
  <2>1. PICK c \in 1..Handled(b) : \E k \in 0..(n(c) - 1) :
          counts = [Complete(b) EXCEPT ![c] = k]
    BY <1>4 DEF CutShort
  <2>2. PICK k \in 0..(n(c) - 1) : counts = [Complete(b) EXCEPT ![c] = k]
    BY <2>1
  <2>3. counts[i] = IF i = c THEN k ELSE n(i)
    BY <1>2, <2>2
  <2>4. k \in 0..n(c)
    <3>. HIDE DEF n
    <3>. QED
      BY <1>1
  <2>. HIDE DEF n
  <2>5. counts[i] \in 0..n(i)
    BY <1>1, <2>3, <2>4
  <2>. QED
    BY <2>5 DEF n
<1>. QED
  BY <1>3, <1>4

\* They are a run, and not too many.
LEMMA BurstRun ==
  ASSUME NEW m, FewerThanNumbers(m), sent \in Seq(Packets), NEW b \in Seq(Packets),
         NEW counts \in {Complete(b)} \cup CutShort(b)
  PROVE  /\ IsRun(sent \o SubSeq(b, 1, Handled(b)), BurstOf(b, counts))
         /\ Len(BurstOf(b, counts)) <= m * Handled(b)
<1>. DEFINE h == Handled(b)
            qs == SubSeq(b, 1, h)
            ps == sent \o qs
            x(i) == SubSeq(PartsOf(b, i), 1, counts[i])
            ss == [i \in 1..h |-> x(i)]
            runs(n) == {ds \in Seq(Datagram) : IsRun(ps, ds) /\ Len(ds) <= m * n}
            C == [n \in Nat |-> runs(n)]
<1>1. h \in 0..Len(b) /\ Len(b) \in Nat /\ m \in Nat
  BY HandledFacts DEF FewerThanNumbers
<1>2. /\ qs \in Seq(Packets) /\ Len(qs) = h /\ \A i \in 1..h : qs[i] = b[i]
  BY <1>1
<1>3. /\ ps \in Seq(Packets) /\ Len(ps) = Len(sent) + h /\ Len(sent) \in Nat
      /\ \A i \in 1..h : Len(sent) + i \in 1..Len(ps) /\ ps[Len(sent) + i] = b[i]
  BY <1>1, <1>2
<1>4. ASSUME NEW i \in 1..h
      PROVE  IsRun(ps, x(i)) /\ Len(x(i)) \in 0..m
  <2>1. IsRun(ps, PartsOf(b, i))
    <3>1. PartsOf(b, i) = Parts(Len(sent) + i, ps[Len(sent) + i].len)
      BY <1>3 DEF PartsOf
    <3>. HIDE DEF ps
    <3>. QED
      BY <1>3, <3>1, PartsRun
  <2>2. counts[i] \in 0..Len(PartsOf(b, i))
    BY CountsFacts
  <2>3. Len(PartsOf(b, i)) \in 0..m
    <3>1. b[i] \in Packets
      BY <1>1
    <3>. QED
      BY <3>1, PartsCount DEF PartsOf
  <2>. HIDE DEF ps
  <2>4. IsRun(ps, SubSeq(PartsOf(b, i), 1, counts[i]))
        /\ Len(SubSeq(PartsOf(b, i), 1, counts[i])) = counts[i]
    BY <2>1, <2>2, RunPrefix
  <2>. QED
    BY <1>1, <2>2, <2>3, <2>4
<1>. HIDE DEF ps
<1>5. \A i \in 1..h : x(i) \in Seq(Datagram)
  BY <1>4 DEF IsRun
<1>. HIDE DEF x
<1>6. ss \in Seq(Seq(Datagram)) /\ Len(ss) = h /\ \A i \in 1..h : ss[i] = x(i)
  BY <1>1, <1>5
<1>. HIDE DEF ss
<1>7. FlattenSeq(ss) \in C[Len(ss)]
  <2>2. <<>> \in C[0]
    <3>1. IsRun(ps, <<>>) /\ Len(<<>>) <= m * 0
      BY <1>1 DEF IsRun
    <3>. QED
      BY <3>1
  <2>3. \A i \in 1..Len(ss) : ss[i] \in C[1]
    <3>1. m * 1 = m
      BY <1>1
    <3>. QED
      BY <1>4, <1>5, <1>6, <3>1
  <2>4. ASSUME NEW n \in Nat, NEW a \in C[n], NEW c \in C[1] PROVE a \o c \in C[n + 1]
    <3>1. /\ a \in Seq(Datagram) /\ IsRun(ps, a) /\ Len(a) <= m * n
          /\ c \in Seq(Datagram) /\ IsRun(ps, c) /\ Len(c) <= m * 1
      BY <2>4
    <3>2. m * (n + 1) = m * n + m * 1 /\ m * n \in Nat /\ m * 1 \in Nat
      BY <1>1
    <3>3. IsRun(ps, a \o c)
      BY <3>1, RunConcat
    <3>4. a \o c \in Seq(Datagram) /\ Len(a \o c) <= m * (n + 1)
      BY <3>1, <3>2
    <3>. QED
      BY <3>3, <3>4
  <2>. HIDE DEF C
  <2>. QED
    BY <1>6, <2>2, <2>3, <2>4, FlattenIn
<1>8. FlattenSeq(ss) = BurstOf(b, counts)
  BY DEF ss, x, BurstOf
<1>9. IsRun(ps, FlattenSeq(ss)) /\ Len(FlattenSeq(ss)) <= m * h
  BY <1>1, <1>6, <1>7
<1>. QED
  BY <1>8, <1>9 DEF ps

\* A datagram of another sender, with several packets in it, is one of whole packets.
LEMMA BundleWhole ==
  ASSUME sent \in Seq(Packets), NEW b \in Seq(Packets), b # <<>>
  PROVE  WholePackets(sent \o b,
           FlattenSeq([i \in DOMAIN b |-> Units(Len(sent) + i, 0, b[i].len)]))
<1>. DEFINE h == Len(b)
            ps == sent \o b
            x(i) == Units(Len(sent) + i, 0, b[i].len)
            ss == [i \in DOMAIN b |-> x(i)]
            whole == {data \in Seq(Unit) : WholePackets(ps, data)}
            C == [n \in Nat |-> IF n = 0 THEN {<<>>} ELSE whole]
<1>1. h \in Nat \ {0} /\ DOMAIN b = 1..h
  OBVIOUS
<1>2. /\ ps \in Seq(Packets) /\ Len(ps) = Len(sent) + h /\ Len(sent) \in Nat
      /\ \A i \in 1..h : Len(sent) + i \in 1..Len(ps) /\ ps[Len(sent) + i] = b[i]
  BY <1>1
<1>. HIDE DEF ps
<1>3. \A i \in 1..h : WholePackets(ps, x(i)) /\ x(i) \in Seq(Unit)
  <2>. TAKE i \in 1..h
  <2>1. WholePackets(ps, Units(Len(sent) + i, 0, ps[Len(sent) + i].len))
    BY <1>2, WholeUnits
  <2>. QED
    BY <1>2, <2>1 DEF WholePackets
<1>. HIDE DEF x, h
<1>4. ss \in Seq(Seq(Unit)) /\ Len(ss) = h /\ \A i \in 1..h : ss[i] = x(i)
  BY <1>1, <1>3
<1>. HIDE DEF ss
<1>5. FlattenSeq(ss) \in C[Len(ss)]
  <2>2. <<>> \in C[0]
    OBVIOUS
  <2>3. \A i \in 1..Len(ss) : ss[i] \in C[1]
    BY <1>3, <1>4
  <2>4. ASSUME NEW n \in Nat, NEW a \in C[n], NEW c \in C[1] PROVE a \o c \in C[n + 1]
    <3>1. WholePackets(ps, c) /\ c \in Seq(Unit) /\ C[n + 1] = whole
      BY <2>4
    <3>2. CASE n = 0
      <4>1. a = <<>> /\ a \o c = c
        BY <2>4, <3>1, <3>2
      <4>. HIDE DEF C
      <4>. QED
        BY <3>1, <4>1
    <3>3. CASE n # 0
      <4>1. WholePackets(ps, a) /\ a \in Seq(Unit)
        BY <2>4, <3>3
      <4>2. WholePackets(ps, a \o c) /\ a \o c \in Seq(Unit)
        BY <1>2, <3>1, <4>1, WholeConcat
      <4>. HIDE DEF C
      <4>. QED
        BY <3>1, <4>2
    <3>. QED
      BY <3>2, <3>3
  <2>. HIDE DEF C
  <2>. QED
    BY <1>4, <2>2, <2>3, <2>4, FlattenIn
<1>6. WholePackets(ps, FlattenSeq(ss))
  BY <1>1, <1>4, <1>5
<1>. QED
  BY <1>6 DEF ps, ss, x

-----------------------------------------------------------------------------
(* The log of all datagrams sent, by their numbers.                         *)

\* Where the numbers begin, log is what was sent: fewer than there are numbers.  What is on
\* the wire is part of it, or is no data stream.
Logged(m, first, log) ==
  /\ FewerThanNumbers(m) /\ first \in 0..(SEQ_MOD - 1)
  /\ sent \in Seq(Packets) /\ Len(sent) <= MAX_LOAD /\ mishaps.n \in Nat
  /\ IsRun(sent, log) /\ Len(log) <= m * Len(sent)
  /\ \A k \in 1..Len(log) : log[k].seq = (first + k - 1) % SEQ_MOD
  /\ snd.seq = (first + Len(log)) % SEQ_MOD
  /\ wire \in Seq(Datagram)
  /\ \A i \in 1..Len(wire) : wire[i].type \in {"Full", "Seg"} =>
       \E k \in 1..Len(log) : wire[i] = log[k]

LEMMA ModSmall ==
  ASSUME NEW x \in 0..(2 * SEQ_MOD - 1)
  PROVE  x % SEQ_MOD = IF x < SEQ_MOD THEN x ELSE x - SEQ_MOD
BY NetAssumption

LEMMA FewLogged ==
  ASSUME NEW m, NEW n \in Nat, NEW l \in Nat, FewerThanNumbers(m), l <= m * n, n <= MAX_LOAD
  PROVE  l < SEQ_MOD
<1>1. m \in Nat /\ MAX_LOAD \in Nat /\ SEQ_MOD \in Nat /\ m * MAX_LOAD < SEQ_MOD
  BY NetAssumption DEF FewerThanNumbers
<1>2. m * n <= m * MAX_LOAD /\ m * n \in Nat /\ m * MAX_LOAD \in Nat
  BY <1>1, TimesPlus
<1>. QED
  BY <1>1, <1>2

\* The next number is that of the next datagram and of no other.
LEMMA NextNumber ==
  ASSUME NEW m, NEW first, NEW log, Logged(m, first, log),
         NEW j \in 1..Len(log), NEW k \in 1..Len(log), log[k].seq = log[j].seq + 1
  PROVE  k = j + 1
<1>1. /\ first \in 0..(SEQ_MOD - 1) /\ SEQ_MOD \in Nat \ {0} /\ Len(log) \in Nat
      /\ Len(sent) \in Nat
  BY NetAssumption DEF Logged, IsRun
<1>2. Len(log) < SEQ_MOD
  BY <1>1, FewLogged DEF Logged
<1>. DEFINE x == first + j - 1
            y == first + k - 1
<1>3. x \in 0..(2 * SEQ_MOD - 1) /\ y \in 0..(2 * SEQ_MOD - 1)
  BY <1>1, <1>2
<1>4. y % SEQ_MOD = (x % SEQ_MOD) + 1
  BY DEF Logged
<1>5. /\ x % SEQ_MOD = IF x < SEQ_MOD THEN x ELSE x - SEQ_MOD
      /\ y % SEQ_MOD = IF y < SEQ_MOD THEN y ELSE y - SEQ_MOD
  <2>. HIDE DEF x, y
  <2>. QED
    BY <1>3, ModSmall
<1>. DEFINE u == x % SEQ_MOD
            v == y % SEQ_MOD
<1>6. /\ u = IF x < SEQ_MOD THEN x ELSE x - SEQ_MOD
      /\ v = IF y < SEQ_MOD THEN y ELSE y - SEQ_MOD
      /\ v = u + 1
  BY <1>4, <1>5
<1>. HIDE DEF u, v
<1>. QED
  BY <1>1, <1>2, <1>3, <1>6

\* The packets qs are sent in the run ds of datagrams.
Sends(m, qs, ds) ==
  /\ qs \in Seq(Packets) /\ IsRun(sent \o qs, ds) /\ Len(ds) <= m * Len(qs)
  /\ Len(sent) + Len(qs) <= MAX_LOAD
  /\ sent' = sent \o qs /\ wire' = wire \o Numbered(ds, snd.seq)
  /\ snd'.seq = (snd.seq + Len(ds)) % SEQ_MOD /\ mishaps'.n \in Nat

LEMMA SendLogs ==
  ASSUME NEW m, NEW first, NEW log, Logged(m, first, log), NEW qs, NEW ds, Sends(m, qs, ds)
  PROVE  \E all : /\ Logged(m, first, all)' /\ Len(log) <= Len(all)
                  /\ \A k \in 1..Len(log) : all[k] = log[k]
<1>a. /\ qs \in Seq(Packets) /\ IsRun(sent \o qs, ds) /\ Len(ds) <= m * Len(qs)
      /\ Len(sent) + Len(qs) <= MAX_LOAD
      /\ sent' = sent \o qs /\ wire' = wire \o Numbered(ds, snd.seq)
      /\ snd'.seq = (snd.seq + Len(ds)) % SEQ_MOD /\ mishaps'.n \in Nat
  BY DEF Sends
<1>. USE <1>a
<1>. DEFINE nds == Numbered(ds, snd.seq)
            l == Len(log)
            n == Len(ds)
<1>0. PICK all : all = log \o nds
  OBVIOUS
<1>1. /\ first \in 0..(SEQ_MOD - 1) /\ SEQ_MOD \in Nat \ {0} /\ l \in Nat /\ n \in Nat
      /\ Len(sent) \in Nat /\ Len(qs) \in Nat /\ m \in Nat /\ sent \in Seq(Packets)
  BY NetAssumption DEF Logged, IsRun, FewerThanNumbers
<1>2. l + n <= m * (Len(sent) + Len(qs))
  <2>1. m * (Len(sent) + Len(qs)) = m * Len(sent) + m * Len(qs)
        /\ m * Len(sent) \in Nat /\ m * Len(qs) \in Nat
    BY <1>1
  <2>2. l <= m * Len(sent)
    BY DEF Logged
  <2>. HIDE DEF l, n
  <2>. QED
    BY <1>1, <2>1, <2>2 DEF n
<1>3. l + n < SEQ_MOD
  <2>. HIDE DEF l, n
  <2>1. FewerThanNumbers(m) /\ l + n \in Nat /\ Len(sent) + Len(qs) \in Nat
    BY <1>1 DEF Logged
  <2>. QED
    BY <1>1, <1>2, <2>1, FewLogged
<1>4. snd.seq = (first + l) % SEQ_MOD /\ snd.seq \in 0..(SEQ_MOD - 1)
  BY <1>1 DEF Logged
<1>5. \A i \in 0..n : (snd.seq + i) % SEQ_MOD = (first + l + i) % SEQ_MOD
  <2>. TAKE i \in 0..n
  <2>. DEFINE a == first + l
              c == a + i
              t == snd.seq + i
  <2>. HIDE DEF l, n
  <2>1. a \in 0..(2 * SEQ_MOD - 1) /\ c \in 0..(2 * SEQ_MOD - 1) /\ i \in Nat
        /\ c < SEQ_MOD + SEQ_MOD
    BY <1>1, <1>3
  <2>2. snd.seq = IF a < SEQ_MOD THEN a ELSE a - SEQ_MOD
    <3>1. snd.seq = a % SEQ_MOD
      BY <1>4
    <3>. HIDE DEF a
    <3>. QED
      BY <2>1, <3>1, ModSmall
  <2>. HIDE DEF a
  <2>3. CASE a < SEQ_MOD
    <3>1. snd.seq = first + l
      BY <2>2, <2>3 DEF a
    <3>. QED
      BY <3>1
  <2>4. CASE ~(a < SEQ_MOD)
    <3>1. t = c - SEQ_MOD /\ t \in 0..(SEQ_MOD - 1) /\ ~(c < SEQ_MOD)
          /\ t \in 0..(2 * SEQ_MOD - 1)
      BY <1>1, <2>1, <2>2, <2>4
    <3>. HIDE DEF c, t
    <3>2. t % SEQ_MOD = t
      BY <1>1, <3>1, ModSmall
    <3>3. c % SEQ_MOD = c - SEQ_MOD
      BY <1>1, <2>1, <3>1, ModSmall
    <3>4. t % SEQ_MOD = c % SEQ_MOD
      BY <3>1, <3>2, <3>3
    <3>. QED
      BY <3>4 DEF c, t, a
  <2>. QED
    BY <2>3, <2>4 DEF a
<1>6. /\ IsRun(sent \o qs, nds) /\ Len(nds) = n
      /\ \A k \in 1..n : nds[k].seq = (snd.seq + k - 1) % SEQ_MOD
  <2>1. snd.seq \in Nat
    BY <1>1, <1>4
  <2>. QED
    BY <2>1, RunNumbered
<1>7. IsRun(sent \o qs, log)
  BY <1>1, RunGrows DEF Logged
<1>. HIDE DEF nds
<1>8. IsRun(sent \o qs, all)
  BY <1>0, <1>6, <1>7, RunConcat
<1>9. /\ log \in Seq(Datagram) /\ nds \in Seq(Datagram) /\ Len(all) = l + n
      /\ \A k \in 1..l : all[k] = log[k]
      /\ \A k \in (l + 1)..(l + n) : all[k] = nds[k - l]
  <2>1. log \in Seq(Datagram) /\ nds \in Seq(Datagram) /\ l = Len(log) /\ Len(nds) = n
    BY <1>6 DEF Logged, IsRun
  <2>. HIDE DEF l, n
  <2>. QED
    BY <1>0, <1>1, <2>1, Behind
<1>. HIDE DEF l, n
<1>10. \A k \in 1..Len(all) : all[k].seq = (first + k - 1) % SEQ_MOD
  <2>. TAKE k \in 1..Len(all)
  <2>1. CASE k <= l
    <3>1. k \in 1..l
      BY <1>1, <1>9, <2>1
    <3>. QED
      BY <1>9, <3>1 DEF Logged, l
  <2>2. CASE k > l
    <3>. DEFINE j == k - l
    <3>1. j \in 1..n /\ j - 1 \in 0..n /\ all[k] = nds[j] /\ first + l + (j - 1) = first + k - 1
      BY <1>1, <1>9, <2>2
    <3>2. snd.seq + j - 1 = snd.seq + (j - 1)
      BY <1>1, <1>4
    <3>. HIDE DEF j
    <3>. QED
      BY <1>5, <1>6, <3>1, <3>2
  <2>. QED
    BY <1>1, <1>9, <2>1, <2>2
<1>11. snd'.seq = (first + Len(all)) % SEQ_MOD
  <2>1. n \in 0..n /\ first + l + n = first + Len(all)
    BY <1>1, <1>9
  <2>. QED
    BY <1>5, <2>1 DEF n
<1>12. wire' \in Seq(Datagram) /\ \A i \in 1..Len(wire') : wire'[i].type \in {"Full", "Seg"} =>
         \E k \in 1..Len(all) : wire'[i] = all[k]
  <2>. DEFINE w == Len(wire)
  <2>1. wire \in Seq(Datagram) /\ w \in Nat /\ nds \in Seq(Datagram) /\ wire' = wire \o nds
    BY <1>9 DEF Logged, nds
  <2>2. /\ wire' \in Seq(Datagram) /\ Len(wire') = w + n
        /\ \A i \in 1..w : wire'[i] = wire[i]
        /\ \A i \in (w + 1)..(w + n) : wire'[i] = nds[i - w]
    <3>1. wire \in Seq(Datagram) /\ w = Len(wire) /\ Len(nds) = n
      BY <1>6, <2>1
    <3>. HIDE DEF w, n
    <3>2. /\ wire \o nds \in Seq(Datagram) /\ Len(wire \o nds) = w + n
          /\ \A i \in 1..w : (wire \o nds)[i] = wire[i]
          /\ \A i \in (w + 1)..(w + n) : (wire \o nds)[i] = nds[i - w]
      BY <2>1, <3>1, Behind
    <3>. QED
      BY <2>1, <3>2
  <2>. HIDE DEF w
  <2>3. ASSUME NEW i \in 1..Len(wire'), wire'[i].type \in {"Full", "Seg"}
        PROVE  \E k \in 1..Len(all) : wire'[i] = all[k]
    <3>1. CASE i <= w
      <4>1. i \in 1..w
        BY <1>1, <2>1, <2>2, <3>1
      <4>2. PICK k \in 1..l : wire[i] = log[k]
        BY <2>2, <2>3, <4>1 DEF Logged, l, w
      <4>3. k \in 1..Len(all)
        BY <1>1, <1>9
      <4>. QED
        BY <1>9, <2>2, <4>1, <4>2, <4>3
    <3>2. CASE i > w
      <4>1. i - w \in 1..n /\ wire'[i] = nds[i - w]
        BY <1>1, <2>1, <2>2, <3>2
      <4>. DEFINE k == l + (i - w)
      <4>3. k \in (l + 1)..(l + n) /\ k - l = i - w /\ k \in 1..Len(all)
        BY <1>1, <1>9, <2>1, <4>1
      <4>. HIDE DEF k
      <4>4. all[k] = nds[i - w]
        BY <1>9, <4>3
      <4>. QED
        BY <4>1, <4>3, <4>4
    <3>3. i <= w \/ i > w
      BY <1>1, <2>1, <2>2
    <3>. QED
      BY <3>1, <3>2, <3>3
  <2>. QED
    BY <2>2, <2>3
<1>13. sent' \in Seq(Packets) /\ Len(sent') = Len(sent) + Len(qs)
  BY <1>1
<1>14. Logged(m, first, all)'
  <2>1. FewerThanNumbers(m) /\ FewerThanNumbers(m)'
    BY DEF Logged, FewerThanNumbers
  <2>2. IsRun(sent', all) /\ Len(all) <= m * Len(sent')
    BY <1>2, <1>8, <1>9, <1>13
  <2>3. sent' \in Seq(Packets) /\ Len(sent') <= MAX_LOAD /\ mishaps'.n \in Nat
    BY <1>13
  <2>. QED
    <3>1. \A k \in 1..Len(all) : all[k].seq = (first + k - 1) % SEQ_MOD
      BY <1>10
    <3>2. (snd').seq = (first + Len(all)) % SEQ_MOD
      BY <1>11
    <3>3. first \in 0..(SEQ_MOD - 1) /\ wire' \in Seq(Datagram)
      BY <1>1, <1>12
    <3>4. (FewerThanNumbers(m) /\ IsRun(sent, all) /\ Len(all) <= m * Len(sent))'
      BY <2>1, <2>2
    <3>5. (sent \in Seq(Packets) /\ Len(sent) <= MAX_LOAD /\ mishaps.n \in Nat)'
      BY <2>3
    <3>6. (snd.seq = (first + Len(all)) % SEQ_MOD /\ wire \in Seq(Datagram))'
      BY <3>2, <3>3
    <3>7. (\A i \in 1..Len(wire) : wire[i].type \in {"Full", "Seg"} =>
            \E k \in 1..Len(all) : wire[i] = all[k])'
      BY <1>12
    <3>. QED
      BY <3>1, <3>3, <3>4, <3>5, <3>6, <3>7 DEF Logged
<1>15. Len(log) <= Len(all) /\ \A k \in 1..Len(log) : all[k] = log[k]
  BY <1>1, <1>9 DEF l
<1>. QED
  BY <1>14, <1>15, Zenon

-----------------------------------------------------------------------------
(* The receive buffer.                                                      *)

Receiver == [ready : BOOLEAN, gotFirst : BOOLEAN, drop : BOOLEAN, seq : Nat, pos : Nat,
             dataLen : Nat, bufLen : Nat, buf : UNION {[0..(n - 1) -> Unit] : n \in Nat}]

IsReceiver(r) == r \in Receiver /\ DOMAIN r.buf = 0..(r.bufLen - 1)

\* What the buffer holds.
Contents(r) == [i \in 1..r.dataLen |-> r.buf[i - 1]]

\* The buffer begins with the first n units of packet p.
StartsWith(r, p, n) == n <= r.bufLen /\ \A i \in 0..(n - 1) : r.buf[i] = <<p, i>>

\* The buffer holds a packet from its beginning to the end of the part log[k].
HoldsUpTo(r, log, k) ==
  \E p \in 1..Len(sent) :
    /\ PartOf(sent, p, log[k]) /\ Len(log[k].data) > 0
    /\ StartsWith(r, p, log[k].off + Len(log[k].data))
    /\ r.dataLen = sent[p].len /\ r.dataLen <= r.bufLen

\* What is put together ends with the last datagram taken: the next number continues it.
Partial(r, log) == \E k \in 1..Len(log) : HoldsUpTo(r, log, k) /\ r.seq = log[k].seq

\* The receiver's part of the invariant.
Held(r, log) ==
  /\ IsReceiver(r)
  /\ r.ready => WholePackets(sent, Contents(r))
  /\ (r.gotFirst /\ ~r.ready) => Partial(r, log)

LEMMA DumpFacts ==
  ASSUME NEW r, IsReceiver(r)
  PROVE  LET x == DumpNetStream(r) IN
         /\ IsReceiver(x) /\ x.ready = FALSE /\ x.gotFirst = FALSE
         /\ x.seq = r.seq /\ x.bufLen = r.bufLen /\ x.buf = r.buf /\ x.dataLen = r.dataLen
         /\ x.drop = r.drop
BY DEF DumpNetStream, IsReceiver, Receiver

LEMMA StoreFacts ==
  ASSUME NEW r, IsReceiver(r), NEW at \in Nat, NEW data \in Seq(Unit)
  PROVE  LET x == Store(r, at, data) IN
         /\ IsReceiver(x) /\ x.ready = r.ready /\ x.gotFirst = r.gotFirst /\ x.seq = r.seq
         /\ x.bufLen = r.bufLen /\ x.dataLen = r.dataLen
         /\ \A i \in 0..(r.bufLen - 1) :
              x.buf[i] = IF i >= at /\ i - at < Len(data) THEN data[i - at + 1] ELSE r.buf[i]
<1>. DEFINE new == [i \in DOMAIN r.buf |->
                      IF i >= at /\ i - at < Len(data) THEN data[i - at + 1] ELSE r.buf[i]]
            x == Store(r, at, data)
<1>1. r \in Receiver /\ DOMAIN r.buf = 0..(r.bufLen - 1) /\ r.bufLen \in Nat
  BY DEF IsReceiver, Receiver
<1>2. \A i \in 0..(r.bufLen - 1) : r.buf[i] \in Unit
  <2>1. PICK n \in Nat : r.buf \in [0..(n - 1) -> Unit]
    BY <1>1 DEF Receiver
  <2>2. DOMAIN r.buf = 0..(n - 1)
    BY <2>1
  <2>. QED
    BY <1>1, <2>1, <2>2
<1>3. new \in [0..(r.bufLen - 1) -> Unit]
  <2>1. ASSUME NEW i \in 0..(r.bufLen - 1) PROVE new[i] \in Unit
    <3>1. CASE i >= at /\ i - at < Len(data)
      <4>1. i - at + 1 \in 1..Len(data)
        BY <1>1, <3>1
      <4>2. new[i] = data[i - at + 1]
        BY <1>1, <3>1
      <4>3. \A j \in 1..Len(data) : data[j] \in Unit
        OBVIOUS
      <4>. QED
        BY <4>1, <4>2, <4>3
    <3>2. CASE ~(i >= at /\ i - at < Len(data))
      BY <1>1, <1>2, <3>2
    <3>. QED
      BY <3>1, <3>2
  <2>. QED
    BY <1>1, <2>1
<1>4. x = [r EXCEPT !.buf = new]
  BY DEF Store
<1>5. \A i \in 0..(r.bufLen - 1) :
        new[i] = IF i >= at /\ i - at < Len(data) THEN data[i - at + 1] ELSE r.buf[i]
  BY <1>1
<1>. HIDE DEF new, x
<1>6. x \in Receiver
  BY <1>1, <1>3, <1>4 DEF Receiver
<1>7. /\ x.ready = r.ready /\ x.gotFirst = r.gotFirst /\ x.seq = r.seq
      /\ x.bufLen = r.bufLen /\ x.dataLen = r.dataLen /\ x.buf = new
  BY <1>1, <1>4 DEF Receiver
<1>8. DOMAIN x.buf = 0..(r.bufLen - 1)
  BY <1>3, <1>7
<1>. QED
  BY <1>5, <1>6, <1>7, <1>8 DEF IsReceiver, x

LEMMA FirstSegmentFacts ==
  ASSUME NEW r, IsReceiver(r), BufferedLen(r) \in Nat
  PROVE  LET x == FirstSegment(r) IN
         /\ IsReceiver(x) /\ x.ready = r.ready /\ x.gotFirst = TRUE /\ x.seq = r.seq
         /\ x.dataLen = BufferedLen(r) /\ x.dataLen <= x.bufLen /\ r.bufLen <= x.bufLen
         /\ \A i \in 0..(r.bufLen - 1) : x.buf[i] = r.buf[i]
<1>. DEFINE n == BufferedLen(r)
            size == IF n > r.bufLen THEN n + RCV_BUFFER_SLACK ELSE r.bufLen
            new == [i \in 0..(size - 1) |-> IF i < r.bufLen THEN r.buf[i] ELSE Junk]
            x == FirstSegment(r)
<1>1. r \in Receiver /\ DOMAIN r.buf = 0..(r.bufLen - 1) /\ r.bufLen \in Nat
  BY DEF IsReceiver, Receiver
<1>2. \A i \in 0..(r.bufLen - 1) : r.buf[i] \in Unit
  <2>1. PICK k \in Nat : r.buf \in [0..(k - 1) -> Unit]
    BY <1>1 DEF Receiver
  <2>2. DOMAIN r.buf = 0..(k - 1)
    BY <2>1
  <2>. QED
    BY <1>1, <2>1, <2>2
<1>. HIDE DEF n
<1>3. size \in Nat /\ size >= r.bufLen /\ n <= size /\ n \in Nat
  BY <1>1, NetAssumption DEF n
<1>4. x = [r EXCEPT !.bufLen = size, !.buf = new, !.gotFirst = TRUE, !.dataLen = n]
  BY DEF FirstSegment, n
<1>. HIDE DEF size
<1>5. new \in [0..(size - 1) -> Unit] /\ \A i \in 0..(r.bufLen - 1) : new[i] = r.buf[i]
  <2>1. Junk \in Unit
    BY DEF Junk, Unit
  <2>2. \A i \in 0..(size - 1) : (IF i < r.bufLen THEN r.buf[i] ELSE Junk) \in Unit
    BY <1>1, <1>2, <1>3, <2>1
  <2>. QED
    BY <1>1, <1>3, <2>2
<1>. HIDE DEF new, x
<1>6. x \in Receiver
  BY <1>1, <1>3, <1>4, <1>5 DEF Receiver
<1>7. /\ x.ready = r.ready /\ x.gotFirst = TRUE /\ x.seq = r.seq /\ x.bufLen = size
      /\ x.dataLen = n /\ x.buf = new
  BY <1>1, <1>4 DEF Receiver
<1>8. DOMAIN x.buf = 0..(size - 1)
  BY <1>5, <1>7
<1>. QED
  BY <1>3, <1>5, <1>6, <1>7, <1>8 DEF IsReceiver, x, n

\* A datagram out of turn leaves nothing of the packet being put together; one in turn has
\* the part behind it.
LEMMA FollowFacts ==
  ASSUME NEW m, NEW first, NEW log, Logged(m, first, log), NEW r, Held(r, log), ~r.ready,
         NEW d \in Datagram
  PROVE  LET x == FollowSeq(r, d) IN
         /\ IsReceiver(x) /\ x.ready = FALSE /\ x.seq = d.seq
         /\ \A k \in 1..Len(log) : (x.gotFirst /\ d = log[k]) =>
              k - 1 \in 1..Len(log) /\ HoldsUpTo(x, log, k - 1)
<1>. DEFINE y == IF d.seq # r.seq + 1 THEN DumpNetStream(r) ELSE r
            x == FollowSeq(r, d)
<1>1. /\ IsReceiver(y) /\ y.ready = FALSE
      /\ y.buf = r.buf /\ y.bufLen = r.bufLen /\ y.dataLen = r.dataLen
      /\ y.gotFirst => r.gotFirst /\ d.seq = r.seq + 1
  <2>1. IsReceiver(r) /\ r.ready = FALSE
    BY DEF Held, IsReceiver, Receiver
  <2>. QED
    BY <2>1, DumpFacts
<1>2. x = [y EXCEPT !.seq = d.seq] /\ d.seq \in Nat
  BY NetAssumption DEF FollowSeq, Datagram
<1>. HIDE DEF y, x
<1>3. /\ IsReceiver(x) /\ x.ready = FALSE /\ x.seq = d.seq /\ x.gotFirst = y.gotFirst
      /\ x.buf = r.buf /\ x.bufLen = r.bufLen /\ x.dataLen = r.dataLen
  BY <1>1, <1>2 DEF IsReceiver, Receiver
<1>4. ASSUME NEW k \in 1..Len(log), x.gotFirst, d = log[k]
      PROVE  k - 1 \in 1..Len(log) /\ HoldsUpTo(x, log, k - 1)
  <2>1. r.gotFirst /\ log[k].seq = r.seq + 1
    BY <1>1, <1>3, <1>4
  <2>2. PICK j \in 1..Len(log) : HoldsUpTo(r, log, j) /\ r.seq = log[j].seq
    BY <2>1 DEF Held, Partial
  <2>3. k = j + 1
    BY <2>1, <2>2, NextNumber
  <2>4. k - 1 = j
    BY <2>3
  <2>5. HoldsUpTo(x, log, j)
    BY <1>3, <2>2 DEF HoldsUpTo, StartsWith
  <2>. QED
    BY <2>4, <2>5
<1>. QED
  BY <1>3, <1>4 DEF x

LEMMA TakeFullHeld ==
  ASSUME NEW r, IsReceiver(r), ~r.ready, NEW d \in Datagram, WholePackets(sent, d.data), NEW log
  PROVE  LET x == TakeFull(r, d) IN
         Held(x, log) /\ IF x.ready THEN Contents(x) = d.data ELSE ~x.gotFirst
<1>. DEFINE w == Store(r, 0, d.data)
            x == [w EXCEPT !.dataLen = Len(d.data), !.ready = TRUE, !.pos = 0]
<1>1. d.data \in Seq(Unit) /\ Len(d.data) \in Nat /\ r.bufLen \in Nat
  BY DEF Datagram, IsReceiver, Receiver
<1>2. /\ IsReceiver(w) /\ w.bufLen = r.bufLen
      /\ \A i \in 0..(r.bufLen - 1) : i < Len(d.data) => w.buf[i] = d.data[i + 1]
  <2>. DEFINE data == d.data
              at == 0
  <2>1. data \in Seq(Unit) /\ at \in Nat
    BY <1>1
  <2>2. w = Store(r, at, data)
    OBVIOUS
  <2>. HIDE DEF data, at, w
  <2>3. /\ IsReceiver(w) /\ w.bufLen = r.bufLen
        /\ \A i \in 0..(r.bufLen - 1) :
             w.buf[i] = IF i >= at /\ i - at < Len(data) THEN data[i - at + 1] ELSE r.buf[i]
    BY <2>1, <2>2, StoreFacts
  <2>4. at = 0 /\ data = d.data
    BY DEF at, data
  <2>5. ASSUME NEW i \in 0..(r.bufLen - 1), i < Len(data) PROVE w.buf[i] = data[i + 1]
    <3>1. i >= at /\ i - at < Len(data) /\ i - at + 1 = i + 1
      BY <1>1, <2>4, <2>5
    <3>. QED
      BY <2>3, <3>1
  <2>. QED
    BY <2>3, <2>4, <2>5
<1>. HIDE DEF w
<1>3. CASE Len(d.data) > r.bufLen
  <2>1. TakeFull(r, d) = DumpNetStream(w)
    BY <1>3 DEF TakeFull, w
  <2>. QED
    BY <1>2, <2>1, DumpFacts DEF Held
<1>4. CASE ~(Len(d.data) > r.bufLen)
  <2>1. TakeFull(r, d) = x
    BY <1>4 DEF TakeFull, w
  <2>2. /\ IsReceiver(x) /\ x.ready = TRUE /\ x.dataLen = Len(d.data) /\ x.buf = w.buf
    BY <1>1, <1>2 DEF IsReceiver, Receiver
  <2>. HIDE DEF x
  <2>3. \A i \in 1..Len(d.data) : w.buf[i - 1] = d.data[i]
    <3>. TAKE i \in 1..Len(d.data)
    <3>1. i - 1 \in 0..(r.bufLen - 1) /\ i - 1 < Len(d.data) /\ i - 1 + 1 = i
      BY <1>1, <1>4
    <3>. QED
      BY <1>2, <3>1
  <2>4. Contents(x) = [i \in 1..Len(d.data) |-> d.data[i]]
    BY <2>2, <2>3 DEF Contents
  <2>5. [i \in 1..Len(d.data) |-> d.data[i]] = d.data
    BY <1>1
  <2>. QED
    BY <2>1, <2>2, <2>4, <2>5 DEF Held
<1>. QED
  BY <1>3, <1>4

\* Only its first unit begins a packet.
OneHead(r) == \A i \in 1..(r.dataLen - 1) : ~IsHead(r.buf[i])

\* What is put together in x begins with d, or is that of r gone on with.
GoneOnWith(r, d, x) ==
  x.ready \/ x.gotFirst =>
    IF d.off = 0 THEN Len(d.data) > 0 /\ x.buf[0] = d.data[1]
                 ELSE r.gotFirst /\ x.buf[0] = r.buf[0]

\* With the part d of p behind the parts before it, the packet is whole or still partial.
LEMMA Assembled ==
  ASSUME NEW m, NEW first, NEW log, Logged(m, first, log), NEW k \in 1..Len(log),
         NEW f, IsReceiver(f), ~f.ready, f.gotFirst, f.seq = log[k].seq,
         NEW p \in 1..Len(sent), PartOf(sent, p, log[k]), Len(log[k].data) > 0,
         StartsWith(f, p, log[k].off + Len(log[k].data)),
         f.dataLen = sent[p].len, f.dataLen <= f.bufLen
  PROVE  LET whole == [f EXCEPT !.ready = TRUE, !.gotFirst = FALSE, !.pos = 0]
             y == IF log[k].off + Len(log[k].data) >= BufferedLen(f) THEN whole ELSE f
         IN Held(y, log) /\ y.buf = f.buf /\ (y.ready => OneHead(y))
<1>. DEFINE n == log[k].off + Len(log[k].data)
            x == [f EXCEPT !.ready = TRUE, !.gotFirst = FALSE, !.pos = 0]
<1>1. log[k].off \in Nat /\ Len(log[k].data) \in Nat /\ n \in Nat /\ n > 0
  <2>1. log \in Seq(Datagram)
    BY DEF Logged, IsRun
  <2>2. log[k] \in Datagram
    BY <2>1
  <2>3. log[k].off \in Nat /\ Len(log[k].data) \in Nat
    BY <2>2 DEF Datagram
  <2>. QED
    BY <2>3
<1>2. n <= f.bufLen /\ \A i \in 0..(n - 1) : f.buf[i] = <<p, i>>
  <2>1. StartsWith(f, p, n)
    OBVIOUS
  <2>. HIDE DEF n
  <2>. QED
    BY <2>1 DEF StartsWith
<1>3. BufferedLen(f) = sent[p].len
  <2>. HIDE DEF n
  <2>1. 0 \in 0..(n - 1)
    BY <1>1
  <2>2. f.buf[0] = <<p, 0>>
    BY <1>2, <2>1
  <2>. QED
    BY <2>2 DEF BufferedLen
<1>4. CASE n >= sent[p].len
  <2>1. n = sent[p].len
    <3>1. sent[p].len \in Nat
      BY PacketFacts DEF Logged
    <3>. QED
      BY <1>1, <1>4, <3>1 DEF PartOf
  <2>. HIDE DEF n
  <2>2. IsReceiver(x) /\ x.ready = TRUE /\ x.gotFirst = FALSE /\ x.buf = f.buf /\ x.dataLen = n
    BY <1>2, <2>1 DEF IsReceiver, Receiver
  <2>. HIDE DEF x
  <2>3. \A i \in 1..n : f.buf[i - 1] = <<p, 0 + i - 1>>
    <3>. TAKE i \in 1..n
    <3>1. i - 1 \in 0..(n - 1) /\ 0 + i - 1 = i - 1
      BY <1>1
    <3>. QED
      BY <1>2, <3>1
  <2>4. Contents(x) = Units(p, 0, n)
    BY <2>2, <2>3 DEF Contents, Units
  <2>5. WholePackets(sent, Contents(x))
    BY <2>1, <2>4, WholeUnits DEF Logged
  <2>6. Held(x, log)
    BY <2>2, <2>5 DEF Held
  <2>7. OneHead(x)
    <3>1. ASSUME NEW i \in 1..(n - 1) PROVE x.buf[i][2] # 0
      <4>1. i \in 0..(n - 1) /\ i # 0
        BY <1>1
      <4>. QED
        BY <1>2, <2>2, <4>1
    <3>. QED
      BY <2>2, <3>1 DEF OneHead, IsHead
  <2>. QED
    BY <1>3, <1>4, <2>2, <2>6, <2>7 DEF n, x
<1>5. CASE ~(n >= sent[p].len)
  <2>1. HoldsUpTo(f, log, k)
    BY DEF HoldsUpTo
  <2>2. Held(f, log)
    BY <2>1 DEF Held, Partial
  <2>. QED
    BY <1>3, <1>5, <2>2
<1>. QED
  BY <1>4, <1>5

LEMMA TakeSegmentHeld ==
  ASSUME NEW m, NEW first, NEW log, Logged(m, first, log), NEW k \in 1..Len(log),
         NEW r, IsReceiver(r), ~r.ready, log[k].type = "Seg", r.seq = log[k].seq,
         r.gotFirst => k - 1 \in 1..Len(log) /\ HoldsUpTo(r, log, k - 1)
  PROVE  LET x == TakeSegment(r, log[k]) IN
         Held(x, log) /\ GoneOnWith(r, log[k], x) /\ (x.ready => OneHead(x))
<1>. DEFINE d == log[k]
            n == Len(d.data)
            at == IF r.gotFirst THEN d.off ELSE 0
            w == Store(r, at, d.data)
            f == IF d.off = 0 THEN FirstSegment(w) ELSE w
            full == [f EXCEPT !.ready = TRUE, !.gotFirst = FALSE, !.pos = 0]
<1>1. /\ d \in Datagram /\ d.off \in Nat /\ d.data \in Seq(Unit) /\ n \in Nat /\ at \in Nat
      /\ r.bufLen \in Nat /\ r.gotFirst \in BOOLEAN /\ r.ready = FALSE
      /\ HEADER_STRUCT \in Nat /\ HEADER_STRUCT > 0
  <2>1. d \in Datagram
    BY DEF Logged, IsRun
  <2>2. HEADER_STRUCT \in Nat /\ HEADER_STRUCT > 0
    BY NetAssumption
  <2>. QED
    BY <2>1, <2>2 DEF Datagram, IsReceiver, Receiver
<1>2. PICK p \in 1..Len(sent) :
        PartOf(sent, p, d) /\ (d.off = 0 \/ (k > 1 /\ PartBefore(sent, p, log[k - 1], d)))
  BY DEF Logged, IsRun
<1>. HIDE DEF d, at
<1>3. /\ IsReceiver(w) /\ w.bufLen = r.bufLen /\ w.dataLen = r.dataLen /\ w.seq = r.seq
      /\ w.ready = FALSE /\ w.gotFirst = r.gotFirst
      /\ \A i \in 0..(r.bufLen - 1) :
           w.buf[i] = IF i >= at /\ i - at < n THEN d.data[i - at + 1] ELSE r.buf[i]
  BY <1>1, StoreFacts
<1>4. TakeSegment(r, d) =
        IF n > r.bufLen - at THEN DumpNetStream(w)
        ELSE IF n < HEADER_STRUCT THEN [DumpNetStream(w) EXCEPT !.drop = TRUE]
        ELSE IF f.gotFirst /\ d.off + n >= BufferedLen(f) THEN full
        ELSE f
  BY DEF TakeSegment, at
<1>. HIDE DEF w
<1>5. CASE n > r.bufLen - at
  <2>1. TakeSegment(r, d) = DumpNetStream(w)
    BY <1>4, <1>5
  <2>. QED
    BY <1>3, <2>1, DumpFacts DEF Held, GoneOnWith, d
<1>6. CASE ~(n > r.bufLen - at) /\ n < HEADER_STRUCT
  <2>. DEFINE y == DumpNetStream(w)
              x == [y EXCEPT !.drop = TRUE]
  <2>1. IsReceiver(y) /\ y.ready = FALSE /\ y.gotFirst = FALSE
    BY <1>3, DumpFacts
  <2>2. TakeSegment(r, d) = x
    BY <1>4, <1>6
  <2>. HIDE DEF y
  <2>3. IsReceiver(x) /\ x.ready = FALSE /\ x.gotFirst = FALSE
    BY <2>1 DEF IsReceiver, Receiver
  <2>. HIDE DEF x
  <2>. QED
    BY <2>2, <2>3 DEF Held, GoneOnWith, d
<1>7. CASE ~(n > r.bufLen - at) /\ ~(n < HEADER_STRUCT)
  <2>1. /\ n > 0 /\ at + n <= r.bufLen
        /\ TakeSegment(r, d) = IF f.gotFirst /\ d.off + n >= BufferedLen(f) THEN full ELSE f
    BY <1>1, <1>4, <1>7
  <2>2. \A i \in at..(at + n - 1) : w.buf[i] = d.data[i - at + 1]
    <3>. HIDE DEF n
    <3>. TAKE i \in at..(at + n - 1)
    <3>1. i \in 0..(r.bufLen - 1) /\ i >= at /\ i - at < n
      BY <1>1, <2>1
    <3>. QED
      BY <1>3, <3>1 DEF n
  <2>3. \A i \in 0..(at - 1) : w.buf[i] = r.buf[i]
    <3>. HIDE DEF n
    <3>. TAKE i \in 0..(at - 1)
    <3>1. i \in 0..(r.bufLen - 1) /\ ~(i >= at)
      BY <1>1, <2>1
    <3>. QED
      BY <1>3, <3>1
  <2>4. \A j \in 1..n : d.data[j] = <<p, d.off + j - 1>>
    <3>. DEFINE data == d.data
    <3>1. data = Units(p, d.off, n)
      BY <1>2 DEF PartOf
    <3>. HIDE DEF n, data
    <3>2. \A j \in 1..n : data[j] = <<p, d.off + j - 1>>
      BY <1>1, <3>1 DEF Units
    <3>. QED
      BY <3>2 DEF data
  <2>. HIDE DEF n
  <2>5. CASE d.off = 0
    <3>1. at = 0
      BY <2>5 DEF at
    <3>2. \A i \in 0..(n - 1) : w.buf[i] = <<p, i>>
      <4>. TAKE i \in 0..(n - 1)
      <4>1. i \in at..(at + n - 1) /\ i - at + 1 \in 1..n /\ d.off + (i - at + 1) - 1 = i
        BY <1>1, <2>5, <3>1
      <4>. QED
        BY <2>2, <2>4, <4>1
    <3>3. BufferedLen(w) = sent[p].len /\ sent[p].len \in Nat
      <4>1. w.buf[0] = <<p, 0>>
        BY <1>1, <2>1, <3>2
      <4>2. sent[p] \in Packets
        BY DEF Logged
      <4>. QED
        BY <4>1, <4>2, PacketFacts DEF BufferedLen
    <3>4. f = FirstSegment(w)
      BY <2>5
    <3>. HIDE DEF f
    <3>5. /\ IsReceiver(f) /\ f.ready = FALSE /\ f.gotFirst = TRUE /\ f.seq = r.seq
          /\ f.dataLen = sent[p].len /\ f.dataLen <= f.bufLen /\ r.bufLen <= f.bufLen
          /\ f.bufLen \in Nat
          /\ \A i \in 0..(r.bufLen - 1) : f.buf[i] = w.buf[i]
      <4>1. LET x == FirstSegment(w) IN
            /\ IsReceiver(x) /\ x.ready = w.ready /\ x.gotFirst = TRUE /\ x.seq = w.seq
            /\ x.dataLen = BufferedLen(w) /\ x.dataLen <= x.bufLen /\ w.bufLen <= x.bufLen
            /\ \A i \in 0..(w.bufLen - 1) : x.buf[i] = w.buf[i]
        BY <1>3, <3>3, FirstSegmentFacts
      <4>. QED
        BY <1>3, <3>3, <3>4, <4>1 DEF IsReceiver, Receiver
    <3>6. StartsWith(f, p, d.off + n)
      <4>1. d.off + n = n /\ n <= f.bufLen
        BY <1>1, <2>1, <2>5, <3>1, <3>5
      <4>2. ASSUME NEW i \in 0..(n - 1) PROVE f.buf[i] = <<p, i>>
        <5>1. i \in 0..(r.bufLen - 1)
          BY <1>1, <2>1, <3>1
        <5>. QED
          BY <3>2, <3>5, <5>1
      <4>. QED
        BY <4>1, <4>2 DEF StartsWith
    <3>. DEFINE y == IF d.off + n >= BufferedLen(f) THEN full ELSE f
    <3>7. Held(y, log) /\ y.buf = f.buf /\ (y.ready => OneHead(y))
      BY <1>2, <2>1, <3>5, <3>6, Assembled DEF d, n
    <3>8. TakeSegment(r, d) = y
      BY <2>1, <3>5
    <3>. HIDE DEF y
    <3>9. y.buf[0] = d.data[1]
      <4>1. 0 \in 0..(r.bufLen - 1) /\ 0 \in 0..(n - 1) /\ 1 \in 1..n /\ d.off + 1 - 1 = 0
        BY <1>1, <2>1, <2>5, <3>1
      <4>. QED
        BY <2>4, <3>2, <3>5, <3>7, <4>1
    <3>. QED
      BY <2>1, <2>5, <3>7, <3>8, <3>9 DEF GoneOnWith, d, n
  <2>6. CASE d.off # 0 /\ ~r.gotFirst
    <3>1. f = w
      BY <2>6
    <3>. HIDE DEF f
    <3>2. TakeSegment(r, d) = w /\ w.gotFirst = FALSE
      BY <1>1, <1>3, <2>1, <2>6, <3>1
    <3>. QED
      BY <1>3, <3>2 DEF Held, GoneOnWith, d
  <2>7. CASE d.off # 0 /\ r.gotFirst
    <3>1. at = d.off /\ f = w
      BY <2>7 DEF at
    <3>. DEFINE c == log[k - 1]
    <3>2. PICK q \in 1..Len(sent) :
            /\ PartOf(sent, q, c) /\ Len(c.data) > 0
            /\ StartsWith(r, q, c.off + Len(c.data))
            /\ r.dataLen = sent[q].len /\ r.dataLen <= r.bufLen
      BY <2>7 DEF HoldsUpTo
    <3>3. PartOf(sent, p, c) /\ c.off + Len(c.data) = d.off
      BY <1>2, <2>7 DEF PartBefore
    <3>4. c.off \in Nat /\ Len(c.data) \in Nat /\ Len(c.data) > 0 /\ c.off + Len(c.data) = at
      <4>1. c \in Datagram
        BY <2>7 DEF Logged, IsRun
      <4>. QED
        BY <3>1, <3>2, <3>3, <4>1 DEF Datagram
    <3>5. q = p
      <4>. DEFINE l == Len(c.data)
                  data == c.data
      <4>1. data = Units(p, c.off, l) /\ data = Units(q, c.off, l) /\ l \in Nat /\ l > 0
        BY <3>2, <3>3, <3>4 DEF PartOf
      <4>. HIDE DEF c, l, data
      <4>2. data[1] = <<p, c.off + 1 - 1>> /\ data[1] = <<q, c.off + 1 - 1>>
        BY <4>1 DEF Units
      <4>. QED
        BY <4>2
    <3>. HIDE DEF c, f
    <3>0. \A i \in 0..(at - 1) : r.buf[i] = <<p, i>>
      BY <3>2, <3>4, <3>5 DEF StartsWith
    <3>6. \A i \in 0..(at + n - 1) : w.buf[i] = <<p, i>>
      <4>. TAKE i \in 0..(at + n - 1)
      <4>1. CASE i < at
        <5>1. i \in 0..(at - 1)
          BY <1>1, <4>1
        <5>. QED
          BY <2>3, <3>0, <5>1
      <4>2. CASE i >= at
        <5>1. i \in at..(at + n - 1) /\ i - at + 1 \in 1..n /\ d.off + (i - at + 1) - 1 = i
          BY <1>1, <3>1, <4>2
        <5>. QED
          BY <2>2, <2>4, <5>1
      <4>. QED
        BY <1>1, <4>1, <4>2
    <3>7. /\ IsReceiver(f) /\ f.ready = FALSE /\ f.gotFirst = TRUE /\ f.seq = r.seq
          /\ f.dataLen = sent[p].len /\ f.dataLen <= f.bufLen
      BY <1>1, <1>3, <2>7, <3>1, <3>2, <3>5
    <3>9. StartsWith(f, p, d.off + n)
      <4>1. d.off + n = at + n /\ at + n <= f.bufLen
        BY <1>1, <1>3, <2>1, <3>1
      <4>2. \A i \in 0..(at + n - 1) : f.buf[i] = <<p, i>>
        BY <3>1, <3>6
      <4>. DEFINE e == at + n
      <4>3. e <= f.bufLen /\ \A i \in 0..(e - 1) : f.buf[i] = <<p, i>>
        BY <1>1, <4>1, <4>2
      <4>. HIDE DEF e
      <4>4. StartsWith(f, p, e)
        BY <4>3 DEF StartsWith
      <4>. QED
        BY <4>1, <4>4 DEF e
    <3>. DEFINE y == IF d.off + n >= BufferedLen(f) THEN full ELSE f
    <3>8. Held(y, log) /\ y.buf = f.buf /\ (y.ready => OneHead(y))
      BY <1>2, <2>1, <3>7, <3>9, Assembled DEF d, n
    <3>10. TakeSegment(r, d) = y
      BY <2>1, <3>7
    <3>. HIDE DEF y
    <3>11. y.buf[0] = r.buf[0]
      <4>1. 0 \in 0..(at - 1)
        BY <3>4
      <4>. QED
        BY <2>3, <3>1, <3>8, <4>1
    <3>. QED
      BY <2>7, <3>8, <3>10, <3>11 DEF GoneOnWith, d
  <2>. QED
    BY <1>1, <2>5, <2>6, <2>7
<1>. QED
  BY <1>5, <1>6, <1>7

\* Whatever comes in, what is held afterwards is whole, or in order as far as it goes.
LEMMA TakeHeld ==
  ASSUME NEW m, NEW first, NEW log, Logged(m, first, log), NEW r, Held(r, log), ~r.ready,
         NEW d \in Datagram, d.type # "Short",
         d.type \in {"Full", "Seg"} => \E k \in 1..Len(log) : d = log[k]
  PROVE  Held(Take(r, d), log)
<1>. DEFINE x == FollowSeq(r, d)
<1>1. /\ IsReceiver(x) /\ x.ready = FALSE /\ x.seq = d.seq
      /\ \A k \in 1..Len(log) : (x.gotFirst /\ d = log[k]) =>
           k - 1 \in 1..Len(log) /\ HoldsUpTo(x, log, k - 1)
  BY FollowFacts
<1>. HIDE DEF x
<1>2. CASE d.type = "Full"
  <2>1. PICK k \in 1..Len(log) : d = log[k]
    BY <1>2
  <2>2. WholePackets(sent, d.data)
    BY <1>2, <2>1 DEF Logged, IsRun, PartOf
  <2>3. Take(r, d) = TakeFull(x, d)
    BY <1>2 DEF Take, x
  <2>. QED
    BY <1>1, <2>2, <2>3, TakeFullHeld
<1>3. CASE d.type = "Seg"
  <2>1. PICK k \in 1..Len(log) : d = log[k]
    BY <1>3
  <2>2. Take(r, d) = TakeSegment(x, d)
    BY <1>3 DEF Take, x
  <2>3. Held(TakeSegment(x, log[k]), log)
    BY <1>1, <1>3, <2>1, TakeSegmentHeld
  <2>. QED
    BY <2>1, <2>2, <2>3
<1>4. CASE d.type = "Junk"
  <2>1. Take(r, d) = DumpNetStream(x)
    BY <1>4 DEF Take, x
  <2>. QED
    BY <1>1, <2>1, DumpFacts DEF Held
<1>. QED
  BY <1>2, <1>3, <1>4 DEF Datagram

-----------------------------------------------------------------------------
(* Reading from the receive buffer.                                         *)

\* From a unit of a packet on, the buffer has the rest of that packet.
LEMMA RestOfPacket ==
  ASSUME sent \in Seq(Packets), NEW r, IsReceiver(r), WholePackets(sent, Contents(r)),
         NEW i \in Nat, i < r.dataLen, NEW p, NEW h, r.buf[i] = <<p, h>>, h < sent[p].len
  PROVE  /\ p \in 1..Len(sent) /\ h \in Nat
         /\ \A j \in 0..(sent[p].len - h - 1) : i + j < r.dataLen /\ r.buf[i + j] = <<p, h + j>>
<1>. DEFINE data == Contents(r)
            n == sent[p].len - h - 1
            T == {j \in Nat : i + j < r.dataLen /\ r.buf[i + j] = <<p, h + j>>}
<1>1. /\ r.dataLen \in Nat /\ data \in Seq(Unit) /\ Len(data) = r.dataLen
      /\ \A k \in 1..r.dataLen : data[k] = r.buf[k - 1]
  BY DEF IsReceiver, Receiver, Contents, WholePackets
<1>2. /\ \A k \in 1..Len(data) : data[k][1] \in 1..Len(sent)
      /\ data[Len(data)][2] = sent[data[Len(data)][1]].len - 1
      /\ \A k \in 2..Len(data) : Joined(sent, data[k - 1], data[k])
  BY DEF WholePackets
<1>. HIDE DEF data
<1>3. p \in 1..Len(sent) /\ h \in Nat
  <2>1. i + 1 \in 1..r.dataLen /\ i + 1 - 1 = i
    BY <1>1
  <2>2. data[i + 1] = <<p, h>> /\ data[i + 1] \in Unit
    BY <1>1, <2>1
  <2>3. data[i + 1][1] \in 1..Len(sent)
    BY <1>1, <1>2, <2>1
  <2>. QED
    BY <2>2, <2>3 DEF Unit
<1>4. sent[p].len \in Nat /\ n \in Nat
  <2>1. sent[p] \in Packets
    BY <1>3
  <2>2. sent[p].len \in Nat
    BY <2>1, PacketFacts
  <2>. QED
    BY <1>3, <2>2
<1>5. 0 \in T
  <2>1. i + 0 = i /\ h + 0 = h
    BY <1>3
  <2>. QED
    BY <2>1
<1>6. ASSUME NEW j \in 0..(n - 1), j \in T PROVE j + 1 \in T
  <2>. DEFINE at == i + j + 1
              l == sent[p].len
  <2>0. j \in Nat /\ i + j < r.dataLen /\ l \in Nat /\ j < l - h - 1
    BY <1>3, <1>4, <1>6
  <2>2. r.buf[i + j] = <<p, h + j>>
    BY <1>6
  <2>. HIDE DEF T, n, l
  <2>1. /\ j \in Nat /\ at \in 1..r.dataLen /\ at - 1 = i + j /\ h + j \in Nat
        /\ h + j # l - 1 /\ i + (j + 1) = at /\ h + (j + 1) = h + j + 1
    BY <1>1, <1>3, <2>0
  <2>. HIDE DEF at
  <2>3. data[at] = <<p, h + j>>
    BY <1>1, <2>1, <2>2
  <2>4. at # Len(data)
    BY <1>2, <2>1, <2>3 DEF l
  <2>5. at + 1 \in 2..Len(data) /\ at + 1 - 1 = at /\ at + 1 \in 1..r.dataLen /\ at < r.dataLen
    <3>. DEFINE size == r.dataLen
    <3>1. size \in Nat /\ Len(data) = size /\ at \in 1..size /\ at # size
      BY <1>1, <2>1, <2>4
    <3>. HIDE DEF size
    <3>2. at + 1 \in 2..size /\ at + 1 - 1 = at /\ at + 1 \in 1..size /\ at < size
      BY <3>1
    <3>. QED
      BY <3>1, <3>2 DEF size
  <2>. DEFINE next == at + 1
  <2>9. next \in 2..Len(data) /\ next - 1 = at /\ next \in 1..r.dataLen
    BY <2>1, <2>5
  <2>. HIDE DEF next
  <2>6. Joined(sent, data[at], data[next])
    BY <1>2, <2>9
  <2>7. data[next] = <<p, h + j + 1>>
    BY <2>1, <2>3, <2>6 DEF Joined, l
  <2>8. r.buf[at] = <<p, h + j + 1>>
    BY <1>1, <2>7, <2>9
  <2>. QED
    BY <2>1, <2>5, <2>8 DEF T
<1>. HIDE DEF T, n
<1>7. \A j \in 0..n : j \in T
  BY <1>4, <1>5, <1>6, UpTo
<1>. QED
  BY <1>3, <1>7 DEF T, n

\* What is copied to the caller.
LEMMA CopiedFacts ==
  ASSUME NEW r, IsReceiver(r), NEW want \in Nat
  PROVE  LET got == Copied(r, want) IN
         /\ Len(got) \in 0..want
         /\ Len(got) > 0 => r.pos + Len(got) <= r.dataLen
         /\ got = [i \in 1..Len(got) |-> r.buf[r.pos + i - 1]]
<1>. DEFINE all == [i \in 1..r.dataLen |-> r.buf[i - 1]]
            to == MinOf(r.dataLen, r.pos + want)
            n == IF r.pos + 1 <= to THEN to - r.pos ELSE 0
            got == Copied(r, want)
<1>1. r.pos \in Nat /\ r.dataLen \in Nat
  BY DEF IsReceiver, Receiver
<1>2. /\ to \in Nat /\ to <= r.dataLen /\ to <= r.pos + want
  BY <1>1 DEF MinOf
<1>3. got = SubSeq(all, r.pos + 1, to)
  BY DEF Copied
<1>. HIDE DEF to, all
<1>4. n \in 0..want /\ (n > 0 => r.pos + n <= r.dataLen)
  BY <1>1, <1>2
<1>5. /\ Len(got) = n /\ got = [i \in 1..n |-> got[i]]
      /\ \A i \in 1..n : got[i] = all[r.pos + 1 + i - 1]
  <2>. DEFINE S == {all[i] : i \in 1..r.dataLen}
              m == r.pos + 1
  <2>1. m \in Int /\ to \in Int /\ (m <= to <=> r.pos + 1 <= to) /\ to - m + 1 = to - r.pos
    BY <1>1, <1>2
  <2>2. \A i \in m..to : all[i] \in S
    BY <1>1, <1>2
  <2>3. got = SubSeq(all, m, to)
    BY <1>3
  <2>. HIDE DEF S, m, got
  <2>4. /\ got \in Seq(S)
        /\ Len(got) = IF m <= to THEN to - m + 1 ELSE 0
        /\ \A i \in 1..(to - m + 1) : got[i] = all[m + i - 1]
    BY <2>1, <2>2, <2>3, SubSeqProperties
  <2>5. Len(got) = n /\ \A i \in 1..n : i \in 1..(to - m + 1)
    BY <1>1, <1>2, <2>1, <2>4
  <2>. HIDE DEF n
  <2>. QED
    BY <2>4, <2>5 DEF m
<1>6. \A i \in 1..n : got[i] = r.buf[r.pos + i - 1]
  <2>. TAKE i \in 1..n
  <2>. DEFINE at == r.pos + i
  <2>1. at \in 1..r.dataLen /\ r.pos + 1 + i - 1 = at
    BY <1>1, <1>4
  <2>2. got[i] = all[r.pos + 1 + i - 1]
    BY <1>5
  <2>. HIDE DEF at, got
  <2>3. all[at] = r.buf[at - 1]
    BY <2>1 DEF all
  <2>4. got[i] = r.buf[at - 1]
    BY <2>1, <2>2, <2>3, Zenon
  <2>. QED
    BY <1>1, <1>4, <2>4 DEF at
<1>. HIDE DEF n, got
<1>. QED
  BY <1>4, <1>5, <1>6 DEF got

LEMMA AfterCopyFacts ==
  ASSUME NEW r, IsReceiver(r), NEW n \in Nat
  PROVE  LET x == AfterCopy(r, n) IN
         /\ IsReceiver(x) /\ (x.ready <=> r.pos + n < r.dataLen) /\ x.pos = r.pos + n
         /\ x.buf = r.buf /\ x.dataLen = r.dataLen /\ x.bufLen = r.bufLen
<1>. DEFINE b == r.pos + n < r.dataLen
            x == AfterCopy(r, n)
<1>1. b \in BOOLEAN /\ r.pos + n \in Nat
  BY DEF IsReceiver, Receiver
<1>2. x = [r EXCEPT !.pos = r.pos + n, !.ready = b]
  BY DEF AfterCopy, IsReceiver, Receiver
<1>. HIDE DEF b, x
<1>3. IsReceiver(x) /\ x.ready = b /\ x.pos = r.pos + n
      /\ x.buf = r.buf /\ x.dataLen = r.dataLen /\ x.bufLen = r.bufLen
  BY <1>1, <1>2 DEF IsReceiver, Receiver
<1>. QED
  BY <1>3 DEF b, x

LEMMA BeginFacts ==
  ASSUME NEW r, IsReceiver(r)
  PROVE  LET x == Begin(r) IN
         /\ IsReceiver(x) /\ x.ready = r.ready /\ (r.ready => x = r)
         /\ (~r.ready => x.gotFirst = FALSE) /\ x.buf = r.buf /\ x.dataLen = r.dataLen
BY DumpFacts DEF Begin, IsReceiver, Receiver

LEMMA MoveFacts ==
  ASSUME NEW r, IsReceiver(r), NEW n \in Int
  PROVE  LET x == MoveReadPointer(r, n) IN
         /\ IsReceiver(x) /\ (x.ready => r.ready) /\ x.buf = r.buf /\ x.dataLen = r.dataLen
<1>1. r.pos \in Nat /\ r.dataLen \in Nat
  BY DEF IsReceiver, Receiver
<1>2. CASE r.pos + n < 0
  BY <1>2 DEF MoveReadPointer, IsReceiver, Receiver
<1>3. CASE ~(r.pos + n < 0) /\ r.pos + n >= r.dataLen
  BY <1>3 DEF MoveReadPointer, IsReceiver, Receiver
<1>4. CASE ~(r.pos + n < 0) /\ ~(r.pos + n >= r.dataLen)
  <2>1. r.pos + n \in Nat
    BY <1>1, <1>4
  <2>. QED
    BY <1>4, <2>1 DEF MoveReadPointer, IsReceiver, Receiver
<1>. QED
  BY <1>2, <1>3, <1>4

-----------------------------------------------------------------------------
(* The network.                                                             *)

LEMMA RemovedFrom ==
  ASSUME NEW S, NEW s \in Seq(S), NEW i \in 1..Len(s)
  PROVE  RemoveAt(s, i) \in Seq(S) /\ Len(RemoveAt(s, i)) = Len(s) - 1
<1>. DEFINE a == SubSeq(s, 1, i - 1)
            b == SubSeq(s, i + 1, Len(s))
<1>1. Len(s) \in Nat /\ i - 1 \in Int /\ i + 1 \in Int /\ Len(s) \in Int
  OBVIOUS
<1>2. a \in Seq(S) /\ Len(a) = i - 1
  BY <1>1, SubSeqProperties
<1>3. b \in Seq(S) /\ Len(b) = Len(s) - i
  BY <1>1, SubSeqProperties
<1>. HIDE DEF a, b
<1>4. a \o b \in Seq(S) /\ Len(a \o b) = Len(s) - 1
  BY <1>1, <1>2, <1>3
<1>. QED
  BY <1>4 DEF RemoveAt, a, b

LEMMA InsertedInto ==
  ASSUME NEW S, NEW s \in Seq(S), NEW i \in 1..(Len(s) + 1), NEW e \in S
  PROVE  InsertAt(s, i, e) \in Seq(S)
BY DEF InsertAt

\* The datagrams that may be on the wire: of the log, or no data stream.
OnWire(log) ==
  {d \in Datagram : d.type \in {"Full", "Seg"} => \E k \in 1..Len(log) : d = log[k]}

LEMMA WireFacts ==
  ASSUME NEW m, NEW first, NEW log, Logged(m, first, log)
  PROVE  wire \in Seq(OnWire(log))
<1>1. wire \in Seq(Datagram) /\ Len(wire) \in Nat
  BY DEF Logged
<1>2. \A i \in 1..Len(wire) : wire[i] \in OnWire(log)
  <2>. TAKE i \in 1..Len(wire)
  <2>1. wire[i] \in Datagram
    BY <1>1
  <2>2. wire[i].type \in {"Full", "Seg"} => \E k \in 1..Len(log) : wire[i] = log[k]
    BY DEF Logged
  <2>. QED
    BY <2>1, <2>2 DEF OnWire
<1>3. wire = [i \in 1..Len(wire) |-> wire[i]]
  BY <1>1
<1>. QED
  BY <1>1, <1>2, <1>3

\* What the network does leaves the log as it is.
LEMMA StillLogged ==
  ASSUME NEW m, NEW first, NEW log, Logged(m, first, log), UNCHANGED <<sent, snd>>,
         mishaps'.n \in Nat, wire' \in Seq(OnWire(log))
  PROVE  Logged(m, first, log)'
<1>1. /\ wire' \in Seq(Datagram)
      /\ \A i \in 1..Len(wire') : wire'[i].type \in {"Full", "Seg"} =>
           \E k \in 1..Len(log) : wire'[i] = log[k]
  <2>1. \A i \in 1..Len(wire') : wire'[i] \in OnWire(log)
    OBVIOUS
  <2>2. OnWire(log) \subseteq Datagram
    BY DEF OnWire
  <2>3. wire' \in Seq(Datagram)
    <3>1. wire' = [i \in 1..Len(wire') |-> wire'[i]] /\ Len(wire') \in Nat
      OBVIOUS
    <3>. QED
      BY <2>1, <2>2, <3>1
  <2>. QED
    BY <2>1, <2>3 DEF OnWire
<1>. QED
  BY <1>1 DEF Logged

LEMMA NetworkLogged ==
  ASSUME NEW m, NEW first, NEW log, Logged(m, first, log), Network
  PROVE  Logged(m, first, log)'
<1>. DEFINE D == OnWire(log)
<1>1. wire \in Seq(D) /\ Len(wire) \in Nat /\ DOMAIN wire = 1..Len(wire)
      /\ \A i \in 1..Len(wire) : wire[i] \in D
  BY WireFacts
<1>2. \A t \in {"Junk", "Short"} : [seq |-> 0, type |-> t, off |-> 0, data |-> <<>>] \in D
  <2>1. 0 \in 0..(SEQ_MOD - 1) /\ <<>> \in Seq(Unit)
    BY NetAssumption
  <2>. QED
    BY <2>1 DEF OnWire, Datagram
<1>. HIDE DEF D
<1>3. mishaps'.n \in Nat
  <2>1. \A kind : WentWrong(kind) => mishaps'.n \in Nat
    BY DEF Logged, WentWrong
  <2>. QED
    BY <2>1 DEF Network, Lose, Overtake, Duplicate, Stray
<1>4. wire' \in Seq(D)
  <2>1. ASSUME NEW i \in DOMAIN wire, Lose(i) PROVE wire' \in Seq(D)
    BY <1>1, <2>1, RemovedFrom DEF Lose
  <2>2. ASSUME NEW i \in DOMAIN wire, NEW j \in DOMAIN wire, Overtake(i, j) PROVE wire' \in Seq(D)
    <3>. DEFINE s == RemoveAt(wire, j)
    <3>1. s \in Seq(D) /\ Len(s) = Len(wire) - 1
      BY <1>1, RemovedFrom
    <3>2. i \in 1..(Len(s) + 1) /\ wire[j] \in D /\ wire' = InsertAt(s, i, wire[j])
      BY <1>1, <2>2, <3>1 DEF Overtake
    <3>. HIDE DEF s
    <3>. QED
      BY <3>1, <3>2, InsertedInto
  <2>3. ASSUME NEW i \in DOMAIN wire, NEW j \in 2..(Len(wire) + 1), Duplicate(i, j)
        PROVE  wire' \in Seq(D)
    <3>1. j \in 1..(Len(wire) + 1) /\ wire[i] \in D /\ wire' = InsertAt(wire, j, wire[i])
      BY <1>1, <2>3 DEF Duplicate
    <3>. QED
      BY <1>1, <3>1, InsertedInto
  <2>4. ASSUME NEW t \in {"Junk", "Short"}, Stray(t) PROVE wire' \in Seq(D)
    BY <1>1, <1>2, <2>4 DEF Stray
  <2>. QED
    BY <2>1, <2>2, <2>3, <2>4 DEF Network
<1>. QED
  BY <1>3, <1>4, StillLogged DEF Network, D

-----------------------------------------------------------------------------
(* The inductive invariant.                                                 *)

\* Only a read that waits for a buffer goes on with what is put together.
BufferHeld(log) ==
  /\ IsReceiver(rcv)
  /\ rcv.ready => WholePackets(sent, Contents(rcv))
  /\ (Waiting /\ rcv.gotFirst /\ ~rcv.ready) => Partial(rcv, log)

\* The buffer is ready, and at place h of packet p.
AtPlace(p, h) == rcv.ready /\ rcv.pos < rcv.dataLen /\ rcv.buf[rcv.pos] = <<p, h>>

\* The data of the packet whose header was read is where the next read of data starts.
DataAhead ==
  rd.state = "ReadData" =>
    /\ rd.pkt \in 1..Len(sent) /\ rd.rpos = 0
    /\ rd.hlen = HeaderLen(sent[rd.pkt]) /\ rd.dlen = sent[rd.pkt].len - rd.hlen
    /\ (call.op \in {"None", "Data"} /\ rd.dlen > 0) => AtPlace(rd.pkt, rd.hlen)

CallFits ==
  /\ call.op \in {"None", "Header", "SecHeader", "Data"} /\ call.want \in Nat
  /\ call.op = "Header" => call.want = HEADER_SIZE
  /\ call.op = "SecHeader" =>
       call.want = SEC_HEADER_SIZE /\ call.pkt \in 1..Len(sent) /\ sent[call.pkt].sec
  /\ call.op = "Data" => rd.state = "ReadData" /\ call.want = rd.dlen

DataReturned ==
  ret.op = "Data" /\ ret.status = "OK" => rd.pkt \in 1..Len(sent) /\ DataOfHeader

ReaderFits == rd \in Reader /\ DataAhead /\ CallFits /\ DataReturned

StreamInv(m) == \E first, log : Logged(m, first, log) /\ BufferHeld(log) /\ ReaderFits

\* Sending more makes no difference to what is held of the packets sent before.
LEMMA StillHeld ==
  ASSUME NEW m, NEW first, NEW log, Logged(m, first, log), BufferHeld(log), ReaderFits,
         NEW qs \in Seq(Packets), sent' = sent \o qs, UNCHANGED <<rcv, rd, call, ret>>,
         NEW all, Len(all) \in Nat, Len(log) <= Len(all), \A k \in 1..Len(log) : all[k] = log[k]
  PROVE  BufferHeld(all)' /\ ReaderFits'
<1>1. /\ sent \in Seq(Packets) /\ sent' \in Seq(Packets)
      /\ \A p \in 1..Len(sent) : p \in 1..Len(sent') /\ sent'[p] = sent[p]
  <2>1. sent \in Seq(Packets)
    BY DEF Logged
  <2>. QED
    BY <2>1
<1>2. rcv.ready => WholePackets(sent', Contents(rcv))
  BY <1>1, WholeGrows DEF BufferHeld
<1>3. ASSUME Waiting, rcv.gotFirst, ~rcv.ready PROVE Partial(rcv, all)'
  <2>1. PICK k \in 1..Len(log) : HoldsUpTo(rcv, log, k) /\ rcv.seq = log[k].seq
    BY <1>3 DEF BufferHeld, Partial
  <2>2. k \in 1..Len(all) /\ all[k] = log[k]
    <3>1. Len(log) \in Nat
      BY DEF Logged, IsRun
    <3>. QED
      BY <3>1
  <2>3. PICK p \in 1..Len(sent) :
          /\ PartOf(sent, p, log[k]) /\ Len(log[k].data) > 0
          /\ StartsWith(rcv, p, log[k].off + Len(log[k].data))
          /\ rcv.dataLen = sent[p].len /\ rcv.dataLen <= rcv.bufLen
    BY <2>1 DEF HoldsUpTo
  <2>4. p \in 1..Len(sent') /\ PartOf(sent', p, all[k]) /\ sent'[p] = sent[p]
    BY <1>1, <2>2, <2>3 DEF PartOf
  <2>5. HoldsUpTo(rcv, all, k)'
    BY <2>2, <2>3, <2>4 DEF HoldsUpTo
  <2>. QED
    BY <2>1, <2>2, <2>5 DEF Partial
<1>4. BufferHeld(all)'
  BY <1>2, <1>3 DEF BufferHeld, Waiting
<1>5. DataAhead'
  BY <1>1 DEF ReaderFits, DataAhead, AtPlace
<1>6. CallFits'
  BY <1>1 DEF ReaderFits, CallFits
<1>7. DataReturned'
  BY <1>1 DEF ReaderFits, DataReturned, DataOfHeader
<1>. QED
  BY <1>4, <1>5, <1>6, <1>7 DEF ReaderFits

-----------------------------------------------------------------------------
(* Every step keeps the invariant.                                          *)

LEMMA BurstSent ==
  ASSUME NEW m, NEW first, NEW log, Logged(m, first, log), BufferHeld(log), ReaderFits,
         NEW b \in Bursts, NEW counts \in {Complete(b)} \cup CutShort(b),
         WriteNetStream(b, counts), UNCHANGED <<rd, call, ret>>
  PROVE  StreamInv(m)'
<1>. DEFINE h == Handled(b)
            qs == SubSeq(b, 1, h)
<1>1. b \in Seq(Packets) /\ sent \in Seq(Packets) /\ FewerThanNumbers(m) /\ mishaps.n \in Nat
  BY StreamAssumption DEF Logged
<1>2. h \in 0..Len(b) /\ qs \in Seq(Packets) /\ Len(qs) = h
  BY <1>1, HandledFacts
<1>3. PICK ds : ds = BurstOf(b, counts)
  OBVIOUS
<1>4. IsRun(sent \o qs, ds) /\ Len(ds) <= m * Len(qs)
  BY <1>1, <1>2, <1>3, BurstRun
<1>5. Len(sent) + Len(qs) <= MAX_LOAD
  <2>1. Len(sent) + Len(b) + mishaps.n <= MAX_LOAD
    BY DEF WriteNetStream
  <2>. QED
    BY <1>1, <1>2, <2>1, NetAssumption
<1>6. /\ sent' = sent \o qs /\ wire' = wire \o Numbered(ds, snd.seq)
      /\ snd'.seq = (snd.seq + Len(ds)) % SEQ_MOD /\ UNCHANGED <<rcv, rd, call, ret>>
  BY <1>3 DEF WriteNetStream, BurstOf
<1>7. mishaps'.n \in Nat
  <2>1. CASE counts = Complete(b)
    <3>1. PICK kinds : mishaps' = [mishaps EXCEPT !.kinds = kinds]
      BY <2>1 DEF WriteNetStream
    <3>. QED
      BY <1>1, <3>1
  <2>2. CASE counts # Complete(b)
    BY <1>1, <2>2 DEF WriteNetStream, WentWrong
  <2>. QED
    BY <2>1, <2>2
<1>. HIDE DEF qs, h
<1>0. Sends(m, qs, ds)
  BY <1>2, <1>4, <1>5, <1>6, <1>7 DEF Sends
<1>8. PICK all : /\ Logged(m, first, all)' /\ Len(log) <= Len(all)
                 /\ \A k \in 1..Len(log) : all[k] = log[k]
  BY <1>0, SendLogs
<1>9. Len(all) \in Nat
  BY <1>8 DEF Logged, IsRun
<1>10. BufferHeld(all)' /\ ReaderFits'
  BY <1>2, <1>6, <1>8, <1>9, StillHeld
<1>. QED
  BY <1>8, <1>10 DEF StreamInv

LEMMA BundleSent ==
  ASSUME NEW m, NEW first, NEW log, Logged(m, first, log), BufferHeld(log), ReaderFits,
         NEW b \in Bundles, RecorderSends(b), UNCHANGED <<rd, call, ret>>
  PROVE  StreamInv(m)'
<1>1. /\ b \in Seq(Packets) /\ b # <<>> /\ Len(b) \in Nat \ {0} /\ sent \in Seq(Packets)
      /\ FewerThanNumbers(m) /\ mishaps.n \in Nat
  BY StreamAssumption DEF Logged
<1>2. PICK data : data = FlattenSeq([i \in DOMAIN b |-> Units(Len(sent) + i, 0, b[i].len)])
  OBVIOUS
<1>3. PICK ds : ds = <<FullDatagram(data)>>
  OBVIOUS
<1>4. IsRun(sent \o b, ds)
  <2>1. WholePackets(sent \o b, data)
    BY <1>1, <1>2, BundleWhole
  <2>2. FullDatagram(data) \in Datagram /\ FullDatagram(data).type = "Full"
        /\ FullDatagram(data).data = data
    BY <2>1, NetAssumption DEF FullDatagram, Datagram, WholePackets
  <2>. QED
    BY <1>3, <2>1, <2>2 DEF IsRun
<1>5. Len(ds) = 1 /\ Len(ds) <= m * Len(b)
  <2>1. m \in Nat \ {0}
    BY <1>1 DEF FewerThanNumbers
  <2>2. 1 <= m * Len(b)
    <3>. DEFINE n == Len(b)
    <3>1. n \in Nat /\ n >= 1
      BY <1>1
    <3>. HIDE DEF n
    <3>2. m * 1 <= m * n
      BY <2>1, <3>1, TimesPlus
    <3>. QED
      BY <2>1, <3>2 DEF n
  <2>. QED
    BY <1>3, <2>2
<1>6. Len(sent) + Len(b) <= MAX_LOAD
  <2>1. Len(sent) + Len(b) + mishaps.n <= MAX_LOAD
    BY DEF RecorderSends
  <2>. QED
    BY <1>1, <2>1, NetAssumption
<1>7. /\ sent' = sent \o b /\ wire' = wire \o Numbered(ds, snd.seq)
      /\ UNCHANGED <<rcv, rd, call, ret>> /\ mishaps'.n \in Nat
  BY <1>1, <1>2, <1>3 DEF RecorderSends
<1>8. snd'.seq = (snd.seq + Len(ds)) % SEQ_MOD
  <2>1. snd' = [snd EXCEPT !.seq = (@ + 1) % SEQ_MOD]
    BY DEF RecorderSends
  <2>. QED
    BY <1>5, <2>1
<1>0. Sends(m, b, ds)
  BY <1>1, <1>4, <1>5, <1>6, <1>7, <1>8 DEF Sends
<1>9. PICK all : /\ Logged(m, first, all)' /\ Len(log) <= Len(all)
                 /\ \A k \in 1..Len(log) : all[k] = log[k]
  BY <1>0, SendLogs
<1>10. Len(all) \in Nat
  BY <1>9 DEF Logged, IsRun
<1>11. BufferHeld(all)' /\ ReaderFits'
  BY <1>1, <1>7, <1>9, <1>10, StillHeld
<1>. QED
  BY <1>9, <1>11 DEF StreamInv

\* The buffer stays as it is, or is given up.
LEMMA BufferKept ==
  ASSUME NEW log, BufferHeld(log), sent' = sent, IsReceiver(rcv'),
         rcv'.buf = rcv.buf, rcv'.dataLen = rcv.dataLen, rcv'.ready => rcv.ready,
         call'.op = "None" \/ rcv'.ready \/ ~rcv'.gotFirst
  PROVE  BufferHeld(log)'
<1>1. rcv'.ready => WholePackets(sent', Contents(rcv'))
  BY DEF BufferHeld, Contents
<1>. QED
  BY <1>1 DEF BufferHeld, Waiting

\* A ready buffer that stays in its place is as good for the reader as before.
LEMMA ReaderStays ==
  ASSUME ReaderFits, UNCHANGED <<sent, rd, call, ret>>,
         rcv.ready => /\ rcv'.ready /\ rcv'.pos = rcv.pos /\ rcv'.dataLen = rcv.dataLen
                      /\ rcv'.buf = rcv.buf
  PROVE  ReaderFits'
<1>1. DataAhead'
  BY DEF ReaderFits, DataAhead, AtPlace
<1>2. CallFits'
  BY DEF ReaderFits, CallFits
<1>3. DataReturned'
  BY DEF ReaderFits, DataReturned, DataOfHeader
<1>. QED
  BY <1>1, <1>2, <1>3 DEF ReaderFits

\* One turn of the loop that waits for a buffer.
LEMMA Received ==
  ASSUME NEW m, NEW first, NEW log, Logged(m, first, log), BufferHeld(log), ReaderFits,
         NetReceive
  PROVE  StreamInv(m)'
<1>. DEFINE D == OnWire(log)
<1>1. /\ Waiting /\ UNCHANGED <<sent, snd, mishaps, rd, call, ret>>
      /\ wire # <<>> /\ wire' = Tail(wire) /\ mishaps'.n \in Nat
  BY DEF NetReceive, Receive, DropNext, Logged
<1>2. wire \in Seq(D)
  BY WireFacts
<1>3. Head(wire) \in D /\ wire' \in Seq(D)
  <2>. HIDE DEF D
  <2>. QED
    BY <1>1, <1>2
<1>4. Logged(m, first, log)'
  BY <1>1, <1>3, StillLogged
<1>5. CASE Receive
  <2>1. PICK x : x = Take(rcv, Head(wire))
    OBVIOUS
  <2>2. ~rcv.ready /\ rcv' = x /\ Head(wire).type # "Short"
    BY <1>5, <2>1 DEF Receive
  <2>3. Held(rcv, log)
    BY <1>1 DEF BufferHeld, Held
  <2>4. /\ Head(wire) \in Datagram
        /\ Head(wire).type \in {"Full", "Seg"} => \E k \in 1..Len(log) : Head(wire) = log[k]
    BY <1>3 DEF OnWire
  <2>5. Held(x, log)
    BY <2>1, <2>2, <2>3, <2>4, TakeHeld
  <2>6. Held(x, log)'
    BY <1>1, <2>5 DEF Held, Partial, HoldsUpTo
  <2>7. BufferHeld(log)'
    BY <2>2, <2>6 DEF BufferHeld, Held
  <2>8. ReaderFits'
    BY <1>1, <2>2, ReaderStays
  <2>. QED
    BY <1>4, <2>7, <2>8 DEF StreamInv
<1>6. CASE DropNext
  <2>1. /\ rcv' = [rcv EXCEPT !.drop = FALSE] /\ IsReceiver(rcv)
    BY <1>6 DEF DropNext, BufferHeld
  <2>2. /\ IsReceiver(rcv') /\ rcv'.ready = rcv.ready /\ rcv'.gotFirst = rcv.gotFirst
        /\ rcv'.seq = rcv.seq /\ rcv'.pos = rcv.pos /\ rcv'.dataLen = rcv.dataLen
        /\ rcv'.bufLen = rcv.bufLen /\ rcv'.buf = rcv.buf
    BY <2>1 DEF IsReceiver, Receiver
  <2>3. rcv'.ready => WholePackets(sent', Contents(rcv'))
    BY <1>1, <2>2 DEF BufferHeld, Contents
  <2>4. Partial(rcv, log) => Partial(rcv, log)'
    BY <1>1, <2>2 DEF Partial, HoldsUpTo, StartsWith
  <2>5. BufferHeld(log)'
    BY <1>1, <2>2, <2>3, <2>4 DEF BufferHeld, Waiting
  <2>6. ReaderFits'
    BY <1>1, <2>2, ReaderStays
  <2>. QED
    BY <1>4, <2>5, <2>6 DEF StreamInv
<1>. QED
  BY <1>5, <1>6 DEF NetReceive

\* A read that fails leaves the reader unsynced.
LEMMA FailedFits ==
  ASSUME ReaderFits, Waiting, NEW status, status # "OK", ReadFailed(status)
  PROVE  ReaderFits' /\ call'.op = "None"
<1>1. /\ HEADER_SIZE \in Nat /\ SEC_HEADER_SIZE \in Nat /\ HEADER_SIZE + SEC_HEADER_SIZE \in Nat
      /\ rd \in Reader /\ call.op \in {"Header", "SecHeader", "Data"}
  BY NetAssumption DEF ReaderFits, CallFits, Waiting
<1>2. PICK h \in Nat : rd' = [rd EXCEPT !.state = "Unsynced", !.hlen = h]
  <2>1. CASE call.op = "Header"
    BY <1>1, <2>1 DEF ReadFailed
  <2>2. CASE call.op = "SecHeader"
    BY <1>1, <2>2 DEF ReadFailed
  <2>3. CASE call.op = "Data"
    BY <1>1, <2>3 DEF ReadFailed, Reader
  <2>. QED
    BY <1>1, <2>1, <2>2, <2>3
<1>3. rd' \in Reader /\ rd'.state = "Unsynced"
  BY <1>1, <1>2 DEF Reader
<1>4. call'.op = "None" /\ call'.want = 0 /\ ret'.status = status
  BY DEF ReadFailed, Idle, Call, Returned
<1>. QED
  BY <1>3, <1>4 DEF ReaderFits, DataAhead, CallFits, DataReturned

LEMMA ReceiveFailed ==
  ASSUME NEW m, NEW first, NEW log, Logged(m, first, log), BufferHeld(log), ReaderFits,
         NetReceiveFails
  PROVE  StreamInv(m)'
<1>1. Waiting /\ ReceiveFails /\ ReadFailed("READ_ERROR") /\ UNCHANGED <<sent, snd, mishaps>>
  BY DEF NetReceiveFails
<1>2. UNCHANGED wire /\ rcv' = DumpNetStream(rcv)
  BY <1>1 DEF ReceiveFails
<1>3. Logged(m, first, log)'
  BY <1>1, <1>2, WireFacts, StillLogged DEF Logged
<1>4. ReaderFits' /\ call'.op = "None"
  BY <1>1, FailedFits
<1>5. IsReceiver(rcv') /\ ~rcv'.ready /\ rcv'.buf = rcv.buf /\ rcv'.dataLen = rcv.dataLen
  BY <1>2, DumpFacts DEF BufferHeld
<1>6. BufferHeld(log)'
  BY <1>1, <1>4, <1>5, BufferKept
<1>. QED
  BY <1>3, <1>4, <1>6 DEF StreamInv

LEMMA HeaderCalled ==
  ASSUME NEW m, NEW first, NEW log, Logged(m, first, log), BufferHeld(log), ReaderFits,
         ReadNextHeader
  PROVE  StreamInv(m)'
<1>1. /\ UNCHANGED <<sent, snd, wire, mishaps, rd>> /\ ret'.op = "None"
      /\ call'.op = "Header" /\ call'.want = HEADER_SIZE /\ HEADER_SIZE \in Nat
  BY NetAssumption DEF ReadNextHeader, Call, Nothing, Returned
<1>2. Logged(m, first, log)'
  BY <1>1, WireFacts, StillLogged DEF Logged
<1>3. PICK x : x = Skipped(rd)
  OBVIOUS
<1>4. IsReceiver(x) /\ (x.ready => rcv.ready) /\ x.buf = rcv.buf /\ x.dataLen = rcv.dataLen
  <2>1. IsReceiver(rcv) /\ rd.plen - rd.hlen - rd.rpos \in Int
    BY DEF BufferHeld, ReaderFits, Reader
  <2>2. CASE rd.state = "ReadData"
    <3>1. x = MoveReadPointer(rcv, rd.plen - rd.hlen - rd.rpos)
      BY <1>3, <2>2 DEF Skipped
    <3>. QED
      BY <2>1, <3>1, MoveFacts
  <2>3. CASE rd.state # "ReadData"
    BY <1>3, <2>1, <2>3 DEF Skipped
  <2>. QED
    BY <2>2, <2>3
<1>5. /\ IsReceiver(rcv') /\ rcv'.buf = rcv.buf /\ rcv'.dataLen = rcv.dataLen
      /\ rcv'.ready => rcv.ready
      /\ rcv'.ready \/ ~rcv'.gotFirst
  <2>1. rcv' = Begin(x)
    BY <1>3 DEF ReadNextHeader
  <2>. QED
    BY <1>4, <2>1, BeginFacts
<1>6. BufferHeld(log)'
  BY <1>1, <1>5, BufferKept
<1>7. ReaderFits'
  BY <1>1 DEF ReaderFits, DataAhead, CallFits, DataReturned
<1>. QED
  BY <1>2, <1>6, <1>7 DEF StreamInv

LEMMA DataCalled ==
  ASSUME NEW m, NEW first, NEW log, Logged(m, first, log), BufferHeld(log), ReaderFits,
         NEW n, ReadData(n)
  PROVE  StreamInv(m)'
<1>1. call.op = "None" /\ UNCHANGED <<sent, snd, wire, mishaps>>
  BY DEF ReadData
<1>2. Logged(m, first, log)'
  BY <1>1, WireFacts, StillLogged DEF Logged
<1>3. CASE /\ rd.state # "ReadData"
           /\ rd' = [rd EXCEPT !.state = "Unsynced"]
           /\ ret' = Returned("Data", "READ_ERROR", <<>>)
           /\ UNCHANGED <<rcv, call>>
  <2>1. rd' \in Reader /\ rd'.state = "Unsynced" /\ ret'.status = "READ_ERROR"
    BY <1>3 DEF ReaderFits, Reader, Returned
  <2>2. ReaderFits'
    BY <1>1, <1>3, <2>1 DEF ReaderFits, DataAhead, CallFits, DataReturned
  <2>3. BufferHeld(log)'
    BY <1>1, <1>3, BufferKept DEF BufferHeld
  <2>. QED
    BY <1>2, <2>2, <2>3 DEF StreamInv
<1>4. CASE ret' = Returned("Data", "BUFFER_TOO_SMALL", <<>>) /\ UNCHANGED <<rcv, rd, call>>
  <2>1. ret'.status = "BUFFER_TOO_SMALL"
    BY <1>4 DEF Returned
  <2>2. ReaderFits'
    BY <1>1, <1>4, <2>1 DEF ReaderFits, DataAhead, AtPlace, CallFits, DataReturned
  <2>3. BufferHeld(log)'
    BY <1>1, <1>4, BufferKept DEF BufferHeld
  <2>. QED
    BY <1>2, <2>2, <2>3 DEF StreamInv
<1>5. CASE /\ rd.state = "ReadData"
           /\ rcv' = Begin(rcv)
           /\ call' = Call("Data", ReadAmount, 0)
           /\ ret' = Nothing
           /\ UNCHANGED rd
  <2>1. /\ IsReceiver(rcv') /\ rcv'.ready = rcv.ready /\ (rcv.ready => rcv' = rcv)
        /\ ~rcv.ready => rcv'.gotFirst = FALSE
        /\ rcv'.buf = rcv.buf /\ rcv'.dataLen = rcv.dataLen
    BY <1>5, BeginFacts DEF BufferHeld
  <2>2. rd.dlen \in Nat /\ ReadAmount = rd.dlen
    BY <1>5 DEF ReadAmount, ReaderFits, Reader, DataAhead
  <2>3. call'.op = "Data" /\ call'.want = rd.dlen /\ ret'.op = "None"
    BY <1>5, <2>2 DEF Call, Nothing, Returned
  <2>4. BufferHeld(log)'
    BY <1>1, <2>1, BufferKept
  <2>5. DataAhead'
    BY <1>1, <1>5, <2>1, <2>3 DEF ReaderFits, DataAhead, AtPlace
  <2>6. ReaderFits'
    BY <1>5, <2>2, <2>3, <2>5 DEF ReaderFits, CallFits, DataReturned
  <2>. QED
    BY <1>2, <2>4, <2>6 DEF StreamInv
<1>. QED
  BY <1>3, <1>4, <1>5 DEF ReadData

\* What is left of the buffer once what is got is copied.
LEMMA RestFacts ==
  ASSUME NEW log, BufferHeld(log), ReaderFits, Ready
  PROVE  /\ IsReceiver(rcv) /\ IsReceiver(Rest) /\ WholePackets(sent, Contents(rcv))
         /\ Len(Got) \in Nat /\ Rest.buf = rcv.buf /\ Rest.dataLen = rcv.dataLen
         /\ Rest.pos = rcv.pos + Len(Got) /\ (Rest.ready <=> Rest.pos < rcv.dataLen)
         /\ rcv.pos \in Nat /\ rcv.dataLen \in Nat
         /\ Len(Got) > 0 => rcv.pos < rcv.dataLen
         /\ Got = [i \in 1..Len(Got) |-> rcv.buf[rcv.pos + i - 1]]
<1>. DEFINE n == Len(Got)
<1>1. /\ IsReceiver(rcv) /\ WholePackets(sent, Contents(rcv)) /\ call.want \in Nat
      /\ rcv.pos \in Nat /\ rcv.dataLen \in Nat
  BY DEF BufferHeld, ReaderFits, CallFits, Ready, IsReceiver, Receiver
<1>2. /\ n \in 0..call.want
      /\ n > 0 => rcv.pos + n <= rcv.dataLen
      /\ Got = [i \in 1..n |-> rcv.buf[rcv.pos + i - 1]]
  BY <1>1, CopiedFacts DEF Got
<1>3. n \in Nat /\ (n > 0 => rcv.pos < rcv.dataLen) /\ Rest = AfterCopy(rcv, n)
  BY <1>1, <1>2 DEF Rest
<1>. HIDE DEF n
<1>4. /\ IsReceiver(Rest) /\ (Rest.ready <=> rcv.pos + n < rcv.dataLen) /\ Rest.pos = rcv.pos + n
      /\ Rest.buf = rcv.buf /\ Rest.dataLen = rcv.dataLen
  BY <1>1, <1>3, AfterCopyFacts
<1>. QED
  BY <1>1, <1>2, <1>3, <1>4 DEF n

LEMMA ShortRead ==
  ASSUME NEW m, NEW first, NEW log, Logged(m, first, log), BufferHeld(log), ReaderFits,
         ReadShort
  PROVE  StreamInv(m)'
<1>1. /\ Ready /\ Waiting /\ rcv' = Rest /\ ReadFailed("EOF") /\ UNCHANGED <<sent, snd, wire, mishaps>>
  BY DEF ReadShort, Ready
<1>2. Logged(m, first, log)'
  BY <1>1, WireFacts, StillLogged DEF Logged
<1>3. ReaderFits' /\ call'.op = "None"
  BY <1>1, FailedFits
<1>4. IsReceiver(rcv') /\ rcv'.buf = rcv.buf /\ rcv'.dataLen = rcv.dataLen /\ rcv.ready
  BY <1>1, RestFacts DEF Ready
<1>5. BufferHeld(log)'
  BY <1>1, <1>3, <1>4, BufferKept
<1>. QED
  BY <1>2, <1>3, <1>5 DEF StreamInv

\* A bad header is reported, or another buffer is waited for.
LEMMA BadHeader ==
  ASSUME NEW log, BufferHeld(log), ReaderFits, Ready, UNCHANGED sent, NEW sync, HeaderBad(sync)
  PROVE  BufferHeld(log)' /\ ReaderFits'
<1>1. IsReceiver(Rest) /\ Rest.buf = rcv.buf /\ Rest.dataLen = rcv.dataLen /\ rcv.ready
  BY RestFacts DEF Ready
<1>2. CASE rcv' = Rest /\ ReadFailed("HEADER_CHKSUM_BAD")
  <2>1. ReaderFits' /\ call'.op = "None"
    BY <1>2, FailedFits DEF Ready
  <2>2. BufferHeld(log)'
    BY <1>1, <1>2, <2>1, BufferKept
  <2>. QED
    BY <2>1, <2>2
<1>3. CASE /\ rcv' = DumpNetStream(Rest)
           /\ rd' = [rd EXCEPT !.state = "Unsynced"]
           /\ call' = Call("Header", HEADER_SIZE, 0)
           /\ UNCHANGED ret
  <2>1. PICK x : x = Rest
    OBVIOUS
  <2>2. /\ IsReceiver(rcv') /\ rcv'.ready = FALSE /\ rcv'.gotFirst = FALSE
        /\ rcv'.buf = rcv.buf /\ rcv'.dataLen = rcv.dataLen
    BY <1>1, <1>3, <2>1, DumpFacts
  <2>3. BufferHeld(log)'
    BY <2>2, BufferKept
  <2>4. rd' \in Reader /\ rd'.state = "Unsynced" /\ rd'.pkt = rd.pkt
    BY <1>3 DEF ReaderFits, Reader
  <2>5. call'.op = "Header" /\ call'.want = HEADER_SIZE /\ HEADER_SIZE \in Nat
    BY <1>3, NetAssumption DEF Call
  <2>6. DataReturned'
    BY <1>3, <2>4 DEF ReaderFits, DataReturned, DataOfHeader
  <2>7. ReaderFits'
    BY <2>4, <2>5, <2>6 DEF ReaderFits, DataAhead, CallFits
  <2>. QED
    BY <2>3, <2>7
<1>. QED
  BY <1>2, <1>3 DEF HeaderBad

\* A good header: its data is next in the buffer.
LEMMA GoodHeader ==
  ASSUME NEW log, BufferHeld(log), ReaderFits, sent \in Seq(Packets), Ready, UNCHANGED sent,
         NEW p, NEW h, rcv.pos < rcv.dataLen, rcv.buf[rcv.pos] = <<p, h>>,
         h < sent[p].len, h + Len(Got) = HeaderLen(sent[p]), HeaderDone(Rest, p)
  PROVE  BufferHeld(log)' /\ ReaderFits'
<1>. DEFINE len == sent[p].len
            hlen == HeaderLen(sent[p])
            n == Len(Got)
<1>1. /\ IsReceiver(rcv) /\ IsReceiver(Rest) /\ WholePackets(sent, Contents(rcv))
      /\ n \in Nat /\ Rest.buf = rcv.buf /\ Rest.dataLen = rcv.dataLen
      /\ Rest.pos = rcv.pos + n /\ (Rest.ready <=> Rest.pos < rcv.dataLen)
      /\ rcv.pos \in Nat /\ rcv.ready /\ rcv.dataLen \in Nat
  BY RestFacts DEF Ready
<1>2. /\ p \in 1..Len(sent) /\ h \in Nat
      /\ \A j \in 0..(len - h - 1) : rcv.pos + j < rcv.dataLen /\ rcv.buf[rcv.pos + j] = <<p, h + j>>
  <2>1. PICK i : i = rcv.pos
    OBVIOUS
  <2>2. i \in Nat /\ i < rcv.dataLen /\ rcv.buf[i] = <<p, h>>
    BY <1>1, <2>1
  <2>3. /\ p \in 1..Len(sent) /\ h \in Nat
        /\ \A j \in 0..(sent[p].len - h - 1) :
             i + j < rcv.dataLen /\ rcv.buf[i + j] = <<p, h + j>>
    BY <1>1, <2>2, RestOfPacket
  <2>. QED
    BY <2>1, <2>3
<1>3. len \in Nat /\ hlen \in Nat /\ len - hlen \in Nat
  <2>1. sent[p] \in Packets
    BY <1>2
  <2>2. len \in Nat /\ hlen \in Nat /\ hlen <= len
    BY <2>1, PacketFacts
  <2>. QED
    BY <2>2
<1>4. /\ rcv' = Rest /\ ret'.op = "Header" /\ call'.op = "None" /\ call'.want = 0
      /\ rd' = [state |-> "ReadData", hlen |-> hlen, plen |-> len, dlen |-> len - hlen,
                rpos |-> 0, pkt |-> p]
  BY DEF HeaderDone, Idle, Call, Returned
<1>5. h + n = hlen
  OBVIOUS
<1>. HIDE DEF len, hlen, n
<1>6. /\ rd' \in Reader /\ rd'.state = "ReadData" /\ rd'.pkt = p /\ rd'.hlen = hlen
      /\ rd'.dlen = len - hlen /\ rd'.rpos = 0
  <2>1. p \in Nat
    BY <1>2
  <2>. QED
    BY <1>3, <1>4, <2>1 DEF Reader
<1>7. BufferHeld(log)'
  BY <1>1, <1>4, BufferKept
<1>8. ASSUME rd'.dlen > 0 PROVE AtPlace(rd.pkt, rd.hlen)'
  <2>1. n \in 0..(len - h - 1)
    BY <1>1, <1>2, <1>3, <1>5, <1>6, <1>8
  <2>2. rcv.pos + n < rcv.dataLen /\ rcv.buf[rcv.pos + n] = <<p, h + n>>
    BY <1>2, <2>1
  <2>3. rcv'.ready /\ rcv'.pos < rcv'.dataLen /\ rcv'.buf[rcv'.pos] = <<p, hlen>>
    BY <1>1, <1>4, <1>5, <2>2
  <2>. QED
    BY <1>6, <2>3 DEF AtPlace
<1>9. DataAhead'
  BY <1>2, <1>6, <1>8 DEF DataAhead, len, hlen
<1>. QED
  BY <1>4, <1>6, <1>7, <1>9 DEF ReaderFits, CallFits, DataReturned

LEMMA HeaderFinished ==
  ASSUME NEW m, NEW first, NEW log, Logged(m, first, log), BufferHeld(log), ReaderFits,
         FinishHeader
  PROVE  StreamInv(m)'
<1>. DEFINE p == HeaderRead
<1>1. /\ Ready /\ call.op = "Header" /\ UNCHANGED <<sent, snd, wire, mishaps>>
      /\ Len(Got) = call.want /\ call.want = HEADER_SIZE /\ HEADER_SIZE \in Nat \ {0}
      /\ SEC_HEADER_SIZE \in Nat
  BY NetAssumption DEF FinishHeader, ReaderFits, CallFits
<1>2. Logged(m, first, log)' /\ sent \in Seq(Packets)
  BY <1>1, WireFacts, StillLogged DEF Logged
<1>3. SUFFICES BufferHeld(log)' /\ ReaderFits'
  BY <1>2 DEF StreamInv
<1>4. CASE HeaderBad(p # 0)
  <2>1. PICK sync : sync = (p # 0)
    OBVIOUS
  <2>. QED
    BY <1>1, <1>4, <2>1, BadHeader
<1>5. ASSUME p # 0
      PROVE  /\ rcv.pos < rcv.dataLen /\ rcv.buf[rcv.pos] = <<p, 0>>
             /\ p \in 1..Len(sent) /\ sent[p] \in Packets /\ 0 < sent[p].len
  <2>1. /\ Len(Got) > 0 /\ rcv.pos \in Nat /\ rcv.dataLen \in Nat /\ rcv.pos < rcv.dataLen
        /\ WholePackets(sent, Contents(rcv))
    BY <1>1, RestFacts
  <2>2. Got[1] = rcv.buf[rcv.pos]
    <3>1. Got[1] = rcv.buf[rcv.pos + 1 - 1]
      BY <1>1, <2>1, RestFacts
    <3>. QED
      BY <2>1, <3>1
  <2>3. rcv.buf[rcv.pos] \in Unit /\ rcv.buf[rcv.pos][1] \in 1..Len(sent)
    <3>. DEFINE i == rcv.pos + 1
                data == Contents(rcv)
    <3>1. i \in 1..rcv.dataLen /\ i - 1 = rcv.pos
      BY <2>1
    <3>2. data \in Seq(Unit) /\ \A k \in 1..Len(data) : data[k][1] \in 1..Len(sent)
      BY <2>1 DEF WholePackets
    <3>3. Len(data) = rcv.dataLen /\ \A k \in 1..rcv.dataLen : data[k] = rcv.buf[k - 1]
      BY <2>1 DEF Contents
    <3>. HIDE DEF i, data
    <3>4. data[i] = rcv.buf[rcv.pos] /\ data[i] \in Unit /\ data[i][1] \in 1..Len(sent)
      BY <3>1, <3>2, <3>3
    <3>. QED
      BY <3>4
  <2>4. Got[1][2] = 0 /\ p = Got[1][1]
    BY <1>5 DEF HeaderRead
  <2>5. rcv.buf[rcv.pos] = <<p, 0>> /\ p \in 1..Len(sent)
    BY <2>2, <2>3, <2>4 DEF Unit
  <2>6. sent[p] \in Packets
    BY <1>2, <2>5
  <2>. QED
    BY <2>1, <2>5, <2>6, PacketFacts
<1>6. CASE p # 0 /\ sent[p].ok /\ ~sent[p].sec /\ HeaderDone(Rest, p)
  <2>1. PICK q : q = p
    OBVIOUS
  <2>2. HeaderLen(sent[q]) = HEADER_SIZE
    BY <1>6, <2>1 DEF HeaderLen
  <2>3. /\ rcv.pos < rcv.dataLen /\ rcv.buf[rcv.pos] = <<q, 0>> /\ 0 < sent[q].len
        /\ 0 + Len(Got) = HeaderLen(sent[q]) /\ HeaderDone(Rest, q)
    BY <1>1, <1>5, <1>6, <2>1, <2>2
  <2>. QED
    BY <1>1, <1>2, <2>3, GoodHeader
<1>7. CASE /\ p # 0 /\ sent[p].ok /\ sent[p].sec
           /\ rcv' = Begin(Rest)
           /\ call' = Call("SecHeader", SEC_HEADER_SIZE, p)
           /\ UNCHANGED <<rd, ret>>
  <2>1. PICK x : x = Rest
    OBVIOUS
  <2>2. IsReceiver(x) /\ x.buf = rcv.buf /\ x.dataLen = rcv.dataLen /\ rcv.ready
    BY <1>1, <2>1, RestFacts DEF Ready
  <2>3. /\ IsReceiver(rcv') /\ rcv'.buf = rcv.buf /\ rcv'.dataLen = rcv.dataLen
        /\ rcv'.ready \/ ~rcv'.gotFirst
    BY <1>7, <2>1, <2>2, BeginFacts
  <2>4. BufferHeld(log)'
    BY <1>1, <2>2, <2>3, BufferKept
  <2>5. call'.op = "SecHeader" /\ call'.want = SEC_HEADER_SIZE /\ call'.pkt = p
    BY <1>7 DEF Call
  <2>6. CallFits'
    BY <1>1, <1>5, <1>7, <2>5 DEF CallFits
  <2>7. DataAhead' /\ DataReturned' /\ rd' \in Reader
    BY <1>1, <1>7, <2>5 DEF ReaderFits, DataAhead, DataReturned, DataOfHeader
  <2>. QED
    BY <2>4, <2>6, <2>7 DEF ReaderFits
<1>. QED
  BY <1>4, <1>6, <1>7 DEF FinishHeader

LEMMA SecHeaderFinished ==
  ASSUME NEW m, NEW first, NEW log, Logged(m, first, log), BufferHeld(log), ReaderFits,
         FinishSecHeader
  PROVE  StreamInv(m)'
<1>1. /\ Ready /\ call.op = "SecHeader" /\ UNCHANGED <<sent, snd, wire, mishaps>>
      /\ Len(Got) = call.want /\ call.want = SEC_HEADER_SIZE
      /\ HEADER_SIZE \in Nat /\ SEC_HEADER_SIZE \in Nat \ {0}
      /\ call.pkt \in 1..Len(sent) /\ sent[call.pkt].sec
  BY NetAssumption DEF FinishSecHeader, ReaderFits, CallFits
<1>2. Logged(m, first, log)' /\ sent \in Seq(Packets)
  BY <1>1, WireFacts, StillLogged DEF Logged
<1>3. SUFFICES BufferHeld(log)' /\ ReaderFits'
  BY <1>2 DEF StreamInv
<1>4. CASE HeaderBad(TRUE)
  BY <1>1, <1>4, BadHeader
<1>5. CASE Got = Units(call.pkt, HEADER_SIZE, SEC_HEADER_SIZE) /\ HeaderDone(Rest, call.pkt)
  <2>1. PICK p : p = call.pkt
    OBVIOUS
  <2>2. HeaderLen(sent[p]) = HEADER_SIZE + SEC_HEADER_SIZE
    BY <1>1, <2>1 DEF HeaderLen
  <2>3. sent[p] \in Packets
    BY <1>1, <1>2, <2>1
  <2>4. HEADER_SIZE < sent[p].len /\ HEADER_SIZE + Len(Got) = HeaderLen(sent[p])
    <3>1. HeaderLen(sent[p]) <= sent[p].len /\ sent[p].len \in Nat
      BY <2>3, PacketFacts
    <3>. QED
      BY <1>1, <2>2, <3>1
  <2>5. rcv.pos < rcv.dataLen /\ rcv.buf[rcv.pos] = <<p, HEADER_SIZE>>
    <3>1. rcv.pos < rcv.dataLen /\ rcv.pos \in Nat
      BY <1>1, RestFacts
    <3>2. Got[1] = rcv.buf[rcv.pos + 1 - 1]
      BY <1>1, RestFacts
    <3>3. Got[1] = <<p, HEADER_SIZE + 1 - 1>>
      BY <1>1, <1>5, <2>1 DEF Units
    <3>4. rcv.pos + 1 - 1 = rcv.pos /\ HEADER_SIZE + 1 - 1 = HEADER_SIZE
      BY <1>1, <3>1
    <3>. QED
      BY <3>1, <3>2, <3>3, <3>4
  <2>6. HeaderDone(Rest, p)
    BY <1>5, <2>1
  <2>. QED
    BY <1>1, <1>2, <2>4, <2>5, <2>6, GoodHeader
<1>. QED
  BY <1>4, <1>5 DEF FinishSecHeader

LEMMA DataFinished ==
  ASSUME NEW m, NEW first, NEW log, Logged(m, first, log), BufferHeld(log), ReaderFits,
         FinishData
  PROVE  StreamInv(m)'
<1>. DEFINE n == Len(Got)
<1>1. /\ Ready /\ call.op = "Data" /\ rcv' = Rest /\ UNCHANGED <<sent, snd, wire, mishaps>>
      /\ rd' = [rd EXCEPT !.state = "ReadHeader", !.rpos = call.want]
      /\ ret' = Returned("Data", "OK", Got) /\ call' = Idle
      /\ n = call.want /\ call.want = rd.dlen /\ rd.state = "ReadData" /\ rd \in Reader
      /\ rd.pkt \in 1..Len(sent) /\ rd.hlen = HeaderLen(sent[rd.pkt])
      /\ rd.dlen = sent[rd.pkt].len - rd.hlen
  BY DEF FinishData, ReaderFits, CallFits, DataAhead
<1>2. Logged(m, first, log)' /\ sent \in Seq(Packets)
  BY <1>1, WireFacts, StillLogged DEF Logged
<1>3. /\ rd' \in Reader /\ rd'.state = "ReadHeader" /\ rd'.pkt = rd.pkt
      /\ call'.op = "None" /\ call'.want = 0 /\ ret'.data = Got
      /\ n \in Nat
  BY <1>1 DEF Reader, Idle, Call, Returned
<1>4. /\ IsReceiver(rcv) /\ IsReceiver(Rest) /\ WholePackets(sent, Contents(rcv))
      /\ Rest.buf = rcv.buf /\ Rest.dataLen = rcv.dataLen
      /\ rcv.pos \in Nat /\ rcv.dataLen \in Nat /\ rcv.ready
      /\ Got = [i \in 1..n |-> rcv.buf[rcv.pos + i - 1]]
  BY <1>1, RestFacts DEF Ready
<1>5. BufferHeld(log)'
  BY <1>1, <1>3, <1>4, BufferKept
<1>6. Got = Units(rd.pkt, rd.hlen, n)
  <2>1. PICK p, h, at : p = rd.pkt /\ h = rd.hlen /\ at = rcv.pos
    OBVIOUS
  <2>. HIDE DEF n
  <2>2. ASSUME NEW i \in 1..n PROVE rcv.buf[rcv.pos + i - 1] = <<rd.pkt, rd.hlen + i - 1>>
    <3>1. rd.dlen > 0 /\ n \in Nat /\ n = rd.dlen /\ h \in Nat /\ at \in Nat
      BY <1>1, <1>3, <1>4, <2>1 DEF Reader
    <3>2. rcv.pos < rcv.dataLen /\ rcv.buf[rcv.pos] = <<rd.pkt, rd.hlen>>
      BY <1>1, <3>1 DEF ReaderFits, DataAhead, AtPlace
    <3>3. at < rcv.dataLen /\ rcv.buf[at] = <<p, h>> /\ h < sent[p].len /\ n = sent[p].len - h
      <4>1. sent[p] \in Packets
        BY <1>1, <1>2, <2>1
      <4>2. sent[p].len \in Nat
        BY <4>1, PacketFacts
      <4>. QED
        BY <1>1, <2>1, <3>1, <3>2, <4>2
    <3>4. /\ p \in 1..Len(sent) /\ h \in Nat
          /\ \A j \in 0..(sent[p].len - h - 1) :
               at + j < rcv.dataLen /\ rcv.buf[at + j] = <<p, h + j>>
      BY <1>2, <1>4, <3>1, <3>3, RestOfPacket
    <3>5. i - 1 \in 0..(n - 1) /\ at + (i - 1) = at + i - 1 /\ h + (i - 1) = h + i - 1
      BY <3>1
    <3>6. sent[p].len - h - 1 = n - 1
      BY <3>3
    <3>7. rcv.buf[at + (i - 1)] = <<p, h + (i - 1)>>
      BY <3>4, <3>5, <3>6
    <3>. QED
      BY <2>1, <3>5, <3>7
  <2>. QED
    BY <1>4, <2>2 DEF Units
<1>7. DataOfHeader'
  BY <1>1, <1>3, <1>6 DEF DataOfHeader
<1>8. ReaderFits'
  BY <1>1, <1>3, <1>7 DEF ReaderFits, DataAhead, CallFits, DataReturned
<1>. QED
  BY <1>2, <1>5, <1>8 DEF StreamInv

-----------------------------------------------------------------------------
(* The theorems.                                                            *)

LEMMA StreamStep ==
  ASSUME NEW m, StreamInv(m), [Next]_vars
  PROVE  StreamInv(m)'
<1>1. PICK first, log : Logged(m, first, log) /\ BufferHeld(log) /\ ReaderFits
  BY DEF StreamInv
<1>2. CASE Send
  <2>1. ASSUME NEW b \in Bursts, NEW counts \in {Complete(b)} \cup CutShort(b),
               WriteNetStream(b, counts), UNCHANGED <<rd, call, ret>>
        PROVE  StreamInv(m)'
    BY <1>1, <2>1, BurstSent
  <2>2. ASSUME NEW b \in Bundles, RecorderSends(b), UNCHANGED <<rd, call, ret>>
        PROVE  StreamInv(m)'
    BY <1>1, <2>2, BundleSent
  <2>. QED
    BY <1>2, <2>1, <2>2 DEF Send
<1>3. CASE Deliver
  <2>1. Network /\ UNCHANGED <<sent, rcv, rd, call, ret>>
    BY <1>3 DEF Deliver, Network
  <2>2. Logged(m, first, log)'
    BY <1>1, <2>1, NetworkLogged
  <2>3. BufferHeld(log)'
    BY <1>1, <2>1 DEF BufferHeld, Waiting, Partial, HoldsUpTo
  <2>4. ReaderFits'
    BY <1>1, <2>1, ReaderStays
  <2>. QED
    BY <2>2, <2>3, <2>4 DEF StreamInv
<1>4. CASE ReadNextHeader
  BY <1>1, <1>4, HeaderCalled
<1>5. ASSUME NEW n \in BuffSizes, ReadData(n) PROVE StreamInv(m)'
  BY <1>1, <1>5, DataCalled
<1>6. CASE NetReceive
  BY <1>1, <1>6, Received
<1>7. CASE NetReceiveFails
  BY <1>1, <1>7, ReceiveFailed
<1>8. CASE ReadShort
  BY <1>1, <1>8, ShortRead
<1>9. CASE FinishHeader
  BY <1>1, <1>9, HeaderFinished
<1>10. CASE FinishSecHeader
  BY <1>1, <1>10, SecHeaderFinished
<1>11. CASE FinishData
  BY <1>1, <1>11, DataFinished
<1>12. CASE UNCHANGED vars
  <2>1. UNCHANGED <<sent, snd, wire, rcv, mishaps, rd, call, ret>>
    BY <1>12 DEF vars
  <2>2. Logged(m, first, log)'
    BY <1>1, <2>1, WireFacts, StillLogged DEF Logged
  <2>3. BufferHeld(log)'
    BY <1>1, <2>1 DEF BufferHeld, Waiting, Partial, HoldsUpTo
  <2>4. ReaderFits'
    BY <1>1, <2>1, ReaderStays
  <2>. QED
    BY <2>2, <2>3, <2>4 DEF StreamInv
<1>. QED
  BY <1>2, <1>3, <1>4, <1>5, <1>6, <1>7, <1>8, <1>9, <1>10, <1>11, <1>12 DEF Next, Read

LEMMA StreamStart ==
  ASSUME NEW m, FewerThanNumbers(m), Init
  PROVE  StreamInv(m)
<1>1. /\ sent = <<>> /\ wire = <<>> /\ mishaps.n = 0
      /\ rcv = [ready |-> FALSE, gotFirst |-> FALSE, drop |-> FALSE, seq |-> 0, pos |-> 0,
                dataLen |-> 0, bufLen |-> RCV_BUFFER_START_SIZE,
                buf |-> [i \in 0..(RCV_BUFFER_START_SIZE - 1) |-> Junk]]
  BY DEF Init, NetInit
<1>2. PICK first : first \in 0..(SEQ_MOD - 1) /\ snd.seq = first
  BY NetAssumption DEF Init, NetInit
<1>3. Logged(m, first, <<>>)
  <2>1. IsRun(sent, <<>>)
    BY DEF IsRun
  <2>2. m * 0 = 0 /\ MAX_LOAD \in Nat
    BY NetAssumption DEF FewerThanNumbers
  <2>3. (first + 0) % SEQ_MOD = first
    BY <1>2, NetAssumption
  <2>. QED
    BY <1>1, <1>2, <2>1, <2>2, <2>3 DEF Logged
<1>4. IsReceiver(rcv) /\ rcv.ready = FALSE /\ rcv.gotFirst = FALSE
  <2>1. RCV_BUFFER_START_SIZE \in Nat /\ Junk \in Unit
    BY NetAssumption DEF Junk, Unit
  <2>2. [i \in 0..(RCV_BUFFER_START_SIZE - 1) |-> Junk] \in [0..(RCV_BUFFER_START_SIZE - 1) -> Unit]
    BY <2>1
  <2>. QED
    BY <1>1, <2>1, <2>2 DEF IsReceiver, Receiver
<1>5. BufferHeld(<<>>)
  BY <1>4 DEF BufferHeld
<1>6. ReaderFits
  BY DEF Init, Idle, Nothing, Call, Returned, Reader, ReaderFits, DataAhead, CallFits, DataReturned
<1>. QED
  BY <1>3, <1>5, <1>6 DEF StreamInv

\* However a sender fails and whatever the network loses, repeats or puts out of order,
\* ReadNetStream hands the reader only whole packets: true of every session that sends
\* fewer datagrams than there are sequence numbers (a gap of exactly 2^24 datagrams looks
\* like none to enI106_ReadNetStream, i106_data_stream.c:898).
THEOREM BufferAlwaysWhole ==
  ASSUME NEW m, FewerThanNumbers(m)
  PROVE  Spec => []BufferIntact
<1>1. Init => StreamInv(m)
  BY StreamStart
<1>2. StreamInv(m) /\ [Next]_vars => StreamInv(m)'
  BY StreamStep
<1>3. StreamInv(m) => BufferIntact
  <2>1. SUFFICES ASSUME StreamInv(m), rcv.ready, rcv.dataLen > 0 PROVE BufferIntact
    BY DEF BufferIntact
  <2>. DEFINE data == Contents(rcv)
              size == rcv.dataLen
  <2>2. IsReceiver(rcv) /\ WholePackets(sent, data)
    BY <2>1 DEF StreamInv, BufferHeld
  <2>3. size \in Nat /\ size > 0 /\ Len(data) = size /\ \A i \in 1..size : data[i] = rcv.buf[i - 1]
    BY <2>1, <2>2 DEF Contents, IsReceiver, Receiver
  <2>4. /\ data \in Seq(Unit)
        /\ data[1][2] = 0 /\ data[size][2] = sent[data[size][1]].len - 1
        /\ \A i \in 2..size : Joined(sent, data[i - 1], data[i])
    BY <2>2, <2>3 DEF WholePackets
  <2>. HIDE DEF data, size
  <2>5. rcv.buf[0] = data[1] /\ rcv.buf[size - 1] = data[size]
    BY <2>3
  <2>6. ASSUME NEW i \in 1..(size - 1)
        PROVE  Follows(rcv.buf[i - 1], rcv.buf[i]) \/ (IsEnd(rcv.buf[i - 1]) /\ IsHead(rcv.buf[i]))
    <3>. DEFINE k == i + 1
    <3>1. k \in 2..size /\ k - 1 = i /\ i \in 1..size /\ k \in 1..size
      BY <2>3
    <3>. HIDE DEF k
    <3>2. rcv.buf[i - 1] = data[i] /\ rcv.buf[i] = data[k] /\ Joined(sent, data[i], data[k])
      BY <2>3, <2>4, <3>1
    <3>. QED
      BY <3>2 DEF Joined, Follows, IsEnd, IsHead
  <2>. QED
    BY <2>4, <2>5, <2>6 DEF BufferIntact, IsHead, IsEnd, size
<1>. QED
  BY <1>1, <1>2, <1>3, PTL DEF Spec

\* The data that ReadData returns is that of the packet whose header was returned before it,
\* all of it and nothing else, in every such session.
THEOREM DataIsOfItsHeader ==
  ASSUME NEW m, FewerThanNumbers(m)
  PROVE  Spec => []DataOfHeader
<1>1. Init => StreamInv(m)
  BY StreamStart
<1>2. StreamInv(m) /\ [Next]_vars => StreamInv(m)'
  BY StreamStep
<1>3. StreamInv(m) => DataOfHeader
  BY DEF StreamInv, ReaderFits, DataReturned, DataOfHeader
<1>. QED
  BY <1>1, <1>2, <1>3, PTL DEF Spec

-----------------------------------------------------------------------------
(* The order of the packets that begin in a sequence of datagrams.          *)

\* The packets that begin in data were sent one after the other.
Rising(data) ==
  \A i, j \in 1..Len(data) : i < j /\ IsHead(data[i]) /\ IsHead(data[j]) => data[i][1] < data[j][1]

\* Those that begin in ds were sent after packet a, or not after packet b.
HeadsAfter(a, ds) ==
  \A k \in 1..Len(ds) : \A i \in 1..Len(ds[k].data) : IsHead(ds[k].data[i]) => a < ds[k].data[i][1]
HeadsUpTo(b, ds) ==
  \A k \in 1..Len(ds) : \A i \in 1..Len(ds[k].data) : IsHead(ds[k].data[i]) => ds[k].data[i][1] <= b

\* Those that begin in c were sent before those that begin in d.
Before(c, d) ==
  \A i \in 1..Len(c), j \in 1..Len(d) : IsHead(c[i]) /\ IsHead(d[j]) => c[i][1] < d[j][1]

\* Packets after a and up to b begin in ds, in the order they were sent.
InTurn(a, b, ds) ==
  /\ ds \in Seq(Datagram) /\ HeadsAfter(a, ds) /\ HeadsUpTo(b, ds)
  /\ \A k \in 1..Len(ds) : Rising(ds[k].data)
  /\ \A j, k \in 1..Len(ds) : j < k => Before(ds[j].data, ds[k].data)

LEMMA HeadUnit ==
  ASSUME NEW ds \in Seq(Datagram), NEW k \in 1..Len(ds), NEW i \in 1..Len(ds[k].data)
  PROVE  ds[k].data \in Seq(Unit) /\ ds[k].data[i] \in Unit /\ ds[k].data[i][1] \in Nat
<1>1. ds[k] \in Datagram
  OBVIOUS
<1>2. ds[k].data \in Seq(Unit)
  BY <1>1 DEF Datagram
<1>3. ds[k].data[i] \in Unit
  BY <1>2
<1>. QED
  BY <1>2, <1>3 DEF Unit

LEMMA InTurnWider ==
  ASSUME NEW ds, NEW a \in Nat, NEW b \in Nat, InTurn(a, b, ds),
         NEW l \in Nat, NEW u \in Nat, l <= a, b <= u
  PROVE  InTurn(l, u, ds)
<1>1. \A k \in 1..Len(ds) : \A i \in 1..Len(ds[k].data) :
        IsHead(ds[k].data[i]) => l < ds[k].data[i][1] /\ ds[k].data[i][1] <= u
  <2>. TAKE k \in 1..Len(ds)
  <2>. TAKE i \in 1..Len(ds[k].data)
  <2>1. HAVE IsHead(ds[k].data[i])
  <2>2. PICK p : p = ds[k].data[i][1]
    OBVIOUS
  <2>3. a < p /\ p <= b
    BY <2>1, <2>2 DEF InTurn, HeadsAfter, HeadsUpTo
  <2>4. p \in Nat
    BY <2>2, HeadUnit DEF InTurn
  <2>5. l < p /\ p <= u
    BY <2>3, <2>4
  <2>. QED
    BY <2>2, <2>5
<1>. QED
  BY <1>1 DEF InTurn, HeadsAfter, HeadsUpTo

LEMMA InTurnConcat ==
  ASSUME NEW a \in Nat, NEW b \in Nat, NEW c \in Nat, a <= b, b <= c,
         NEW ds, InTurn(a, b, ds), NEW es, InTurn(b, c, es)
  PROVE  InTurn(a, c, ds \o es)
<1>. DEFINE all == ds \o es
            n == Len(ds)
            m == Len(es)
<1>1. /\ ds \in Seq(Datagram) /\ es \in Seq(Datagram) /\ n \in Nat /\ m \in Nat
      /\ all \in Seq(Datagram) /\ Len(all) = n + m
      /\ \A k \in 1..n : all[k] = ds[k]
      /\ \A k \in (n + 1)..(n + m) : all[k] = es[k - n] /\ k - n \in 1..m
  <2>1. ds \in Seq(Datagram) /\ es \in Seq(Datagram)
    BY DEF InTurn
  <2>. QED
    BY <2>1, Behind
<1>. HIDE DEF all
<1>2. \A k \in 1..Len(all) : k \in 1..n \/ k \in (n + 1)..(n + m)
  BY <1>1
<1>3. InTurn(a, c, ds) /\ InTurn(a, c, es)
  BY InTurnWider
<1>. HIDE DEF n, m
<1>4. HeadsAfter(a, all) /\ HeadsUpTo(c, all) /\ \A k \in 1..Len(all) : Rising(all[k].data)
  BY <1>1, <1>2, <1>3 DEF InTurn, HeadsAfter, HeadsUpTo, n, m
<1>5. ASSUME NEW j \in 1..Len(all), NEW k \in 1..Len(all), j < k
      PROVE  Before(all[j].data, all[k].data)
  <2>1. CASE k \in 1..n
    <3>1. j \in 1..n
      BY <1>1, <1>5, <2>1
    <3>. QED
      BY <1>1, <1>5, <2>1, <3>1 DEF InTurn, n
  <2>2. CASE j \in (n + 1)..(n + m)
    <3>. DEFINE x == j - n
                y == k - n
    <3>1. k \in (n + 1)..(n + m)
      BY <1>1, <1>2, <1>5, <2>2
    <3>2. all[j] = es[x] /\ all[k] = es[y] /\ x \in 1..m /\ y \in 1..m /\ x < y
      BY <1>1, <1>5, <2>2, <3>1
    <3>. HIDE DEF x, y
    <3>. QED
      BY <3>2 DEF InTurn, m
  <2>3. CASE j \in 1..n /\ k \in (n + 1)..(n + m)
    <3>. DEFINE y == k - n
    <3>1. all[j] = ds[j] /\ all[k] = es[y] /\ y \in 1..m
      BY <1>1, <2>3
    <3>. HIDE DEF y
    <3>2. ASSUME NEW i \in 1..Len(ds[j].data), NEW h \in 1..Len(es[y].data),
                 IsHead(ds[j].data[i]), IsHead(es[y].data[h])
          PROVE  ds[j].data[i][1] < es[y].data[h][1]
      <4>1. PICK p, q : p = ds[j].data[i][1] /\ q = es[y].data[h][1]
        OBVIOUS
      <4>2. p <= b /\ b < q
        BY <2>3, <3>1, <3>2, <4>1 DEF InTurn, HeadsAfter, HeadsUpTo, n, m
      <4>3. p \in Nat
        BY <1>1, <2>3, <4>1, HeadUnit DEF n
      <4>4. q \in Nat
        BY <1>1, <3>1, <4>1, HeadUnit DEF m
      <4>5. p < q
        BY <4>2, <4>3, <4>4
      <4>. QED
        BY <4>1, <4>5
    <3>. QED
      BY <3>1, <3>2 DEF Before
  <2>. QED
    BY <1>2, <2>1, <2>2, <2>3
<1>6. InTurn(a, c, all)
  BY <1>1, <1>4, <1>5 DEF InTurn
<1>. QED
  BY <1>6 DEF all

\* The datagrams es are some of ds, in their order.
Thinned(ds, es) ==
  /\ es \in Seq(Datagram)
  /\ \E f \in [1..Len(es) -> 1..Len(ds)] :
       /\ \A k \in 1..Len(es) : es[k].data = ds[f[k]].data
       /\ \A j, k \in 1..Len(es) : j < k => f[j] < f[k]

LEMMA ThinnedInTurn ==
  ASSUME NEW ds, NEW es, Thinned(ds, es)
  PROVE  /\ \A a, b : InTurn(a, b, ds) => InTurn(a, b, es)
         /\ \A a : HeadsAfter(a, ds) => HeadsAfter(a, es)
<1>1. PICK f \in [1..Len(es) -> 1..Len(ds)] :
        /\ \A k \in 1..Len(es) : es[k].data = ds[f[k]].data
        /\ \A j, k \in 1..Len(es) : j < k => f[j] < f[k]
  BY DEF Thinned
<1>2. \A k \in 1..Len(es) : f[k] \in 1..Len(ds) /\ es[k].data = ds[f[k]].data
  BY <1>1
<1>3. \A a : HeadsAfter(a, ds) => HeadsAfter(a, es)
  BY <1>2 DEF HeadsAfter
<1>4. ASSUME NEW a, NEW b, InTurn(a, b, ds) PROVE InTurn(a, b, es)
  <2>1. HeadsUpTo(b, es) /\ \A k \in 1..Len(es) : Rising(es[k].data)
    BY <1>2, <1>4 DEF InTurn, HeadsUpTo
  <2>2. \A j, k \in 1..Len(es) : j < k => Before(es[j].data, es[k].data)
    BY <1>1, <1>2, <1>4 DEF InTurn
  <2>. QED
    BY <1>3, <1>4, <2>1, <2>2 DEF InTurn, Thinned
<1>. QED
  BY <1>3, <1>4

\* The first of them.
LEMMA FirstOfThem ==
  ASSUME NEW ds \in Seq(Datagram), NEW n \in 0..Len(ds)
  PROVE  Thinned(ds, SubSeq(ds, 1, n))
<1>. DEFINE es == SubSeq(ds, 1, n)
            f == [k \in 1..Len(es) |-> k]
<1>1. es \in Seq(Datagram) /\ Len(es) = n /\ \A k \in 1..n : es[k] = ds[k]
  OBVIOUS
<1>. HIDE DEF es
<1>2. f \in [1..Len(es) -> 1..Len(ds)] /\ \A k \in 1..Len(es) : f[k] = k /\ es[k] = ds[f[k]]
  BY <1>1
<1>3. \A j, k \in 1..Len(es) : j < k => f[j] < f[k]
  BY <1>1
<1>. HIDE DEF f
<1>4. Thinned(ds, es)
  BY <1>1, <1>2, <1>3 DEF Thinned
<1>. QED
  BY <1>4 DEF es

\* All but the first.
LEMMA RestOfThem ==
  ASSUME NEW ds \in Seq(Datagram), ds # <<>>
  PROVE  Thinned(ds, Tail(ds))
<1>. DEFINE es == Tail(ds)
            f == [k \in 1..Len(es) |-> k + 1]
<1>1. es \in Seq(Datagram) /\ Len(es) = Len(ds) - 1 /\ \A k \in 1..Len(es) : es[k] = ds[k + 1]
  OBVIOUS
<1>2. Len(ds) \in Nat /\ Len(es) \in Nat
  OBVIOUS
<1>. HIDE DEF es
<1>3. f \in [1..Len(es) -> 1..Len(ds)] /\ \A k \in 1..Len(es) : es[k] = ds[f[k]]
  BY <1>1, <1>2
<1>4. \A j, k \in 1..Len(es) : j < k => f[j] < f[k]
  BY <1>2
<1>. HIDE DEF f
<1>5. Thinned(ds, es)
  BY <1>1, <1>3, <1>4 DEF Thinned
<1>. QED
  BY <1>5 DEF es

\* All but one.
LEMMA AllButOne ==
  ASSUME NEW ds \in Seq(Datagram), NEW i \in 1..Len(ds)
  PROVE  Thinned(ds, RemoveAt(ds, i))
<1>. DEFINE es == RemoveAt(ds, i)
            a == SubSeq(ds, 1, i - 1)
            b == SubSeq(ds, i + 1, Len(ds))
            f == [k \in 1..Len(es) |-> IF k < i THEN k ELSE k + 1]
<1>1. Len(ds) \in Nat /\ i - 1 \in Int /\ i + 1 \in Int /\ Len(ds) \in Int
  OBVIOUS
<1>2. a \in Seq(Datagram) /\ Len(a) = i - 1 /\ \A k \in 1..(i - 1) : a[k] = ds[k]
  BY <1>1
<1>3. b \in Seq(Datagram) /\ Len(b) = Len(ds) - i /\ \A k \in 1..(Len(ds) - i) : b[k] = ds[i + k]
  BY <1>1
<1>4. es = a \o b
  BY DEF RemoveAt
<1>. HIDE DEF a, b, es
<1>5. es \in Seq(Datagram) /\ Len(es) = Len(ds) - 1
  BY <1>1, <1>2, <1>3, <1>4
<1>6. ASSUME NEW k \in 1..Len(es)
      PROVE  f[k] \in 1..Len(ds) /\ es[k] = ds[f[k]]
  <2>1. CASE k < i
    <3>1. k \in 1..(i - 1) /\ k \in 1..Len(a) /\ f[k] = k /\ k \in 1..Len(ds)
      BY <1>1, <1>2, <1>5, <2>1
    <3>2. es[k] = a[k]
      BY <1>2, <1>3, <1>4, <3>1
    <3>. QED
      BY <1>2, <3>1, <3>2
  <2>2. CASE ~(k < i)
    <3>. DEFINE j == k - Len(a)
    <3>1. k \in (Len(a) + 1)..(Len(a) + Len(b)) /\ f[k] = k + 1 /\ j \in 1..(Len(ds) - i)
          /\ i + j = k + 1 /\ k + 1 \in 1..Len(ds)
      BY <1>1, <1>2, <1>3, <1>5, <2>2
    <3>2. es[k] = b[j]
      BY <1>2, <1>3, <1>4, <3>1, Behind
    <3>. HIDE DEF j, f
    <3>. QED
      BY <1>3, <3>1, <3>2
  <2>. QED
    BY <2>1, <2>2
<1>7. \A j, k \in 1..Len(es) : j < k => f[j] < f[k]
  BY <1>1, <1>5
<1>8. f \in [1..Len(es) -> 1..Len(ds)]
  BY <1>6
<1>. HIDE DEF f
<1>9. Thinned(ds, es)
  BY <1>5, <1>6, <1>7, <1>8 DEF Thinned
<1>. QED
  BY <1>9 DEF es

-----------------------------------------------------------------------------
(* The sender keeps the order.                                              *)

\* Packets after a and up to b begin in data, in their order.
DataInTurn(a, b, data) ==
  /\ data \in Seq(Unit) /\ Rising(data)
  /\ \A i \in 1..Len(data) : IsHead(data[i]) => a < data[i][1] /\ data[i][1] <= b

\* Of all the data of a packet, only the first unit begins one.
LEMMA UnitsInTurn ==
  ASSUME NEW p \in Nat \ {0}, NEW from \in Nat, NEW n \in Nat
  PROVE  /\ DataInTurn(p - 1, p, Units(p, from, n))
         /\ from > 0 => \A i \in 1..n : ~IsHead(Units(p, from, n)[i])
<1>. DEFINE data == Units(p, from, n)
<1>1. data \in Seq(Unit) /\ Len(data) = n /\ \A i \in 1..n : data[i] = <<p, from + i - 1>>
  BY UnitsFacts
<1>. HIDE DEF data
<1>2. \A i \in 1..n : data[i][1] = p /\ (IsHead(data[i]) => i = 1 /\ from = 0)
  <2>. TAKE i \in 1..n
  <2>1. data[i][1] = p /\ data[i][2] = from + i - 1
    BY <1>1
  <2>2. from + i - 1 = 0 => i = 1 /\ from = 0
    OBVIOUS
  <2>. QED
    BY <2>1, <2>2 DEF IsHead
<1>3. Rising(data)
  BY <1>1, <1>2 DEF Rising
<1>4. p - 1 < p /\ p <= p
  OBVIOUS
<1>5. DataInTurn(p - 1, p, data)
  BY <1>1, <1>2, <1>3, <1>4 DEF DataInTurn
<1>6. from > 0 => \A i \in 1..n : ~IsHead(data[i])
  BY <1>2
<1>. QED
  BY <1>5, <1>6 DEF data

LEMMA DataInTurnConcat ==
  ASSUME NEW a \in Nat, NEW b \in Nat, NEW c \in Nat, a <= b, b <= c,
         NEW x, DataInTurn(a, b, x), NEW y, DataInTurn(b, c, y)
  PROVE  DataInTurn(a, c, x \o y)
<1>. DEFINE all == x \o y
            n == Len(x)
            m == Len(y)
<1>1. /\ x \in Seq(Unit) /\ y \in Seq(Unit) /\ n \in Nat /\ m \in Nat
      /\ all \in Seq(Unit) /\ Len(all) = n + m
      /\ \A k \in 1..n : all[k] = x[k]
      /\ \A k \in (n + 1)..(n + m) : all[k] = y[k - n] /\ k - n \in 1..m
  <2>1. x \in Seq(Unit) /\ y \in Seq(Unit)
    BY DEF DataInTurn
  <2>. QED
    BY <2>1, Behind
<1>2. (\A k \in 1..n : x[k][1] \in Nat) /\ (\A k \in 1..m : y[k][1] \in Nat)
  <2>1. (\A k \in 1..n : x[k] \in Unit) /\ (\A k \in 1..m : y[k] \in Unit)
    BY <1>1
  <2>. HIDE DEF n, m
  <2>. QED
    BY <2>1 DEF Unit
<1>. HIDE DEF all, n, m
<1>3. \A k \in 1..Len(all) : k \in 1..n \/ k \in (n + 1)..(n + m)
  BY <1>1
<1>4. ASSUME NEW k \in 1..n, IsHead(x[k])
      PROVE  x[k][1] \in Nat /\ a < x[k][1] /\ x[k][1] <= b
  BY <1>2, <1>4 DEF DataInTurn, n
<1>5. ASSUME NEW k \in 1..m, IsHead(y[k])
      PROVE  y[k][1] \in Nat /\ b < y[k][1] /\ y[k][1] <= c
  BY <1>2, <1>5 DEF DataInTurn, m
<1>6. ASSUME NEW k \in 1..Len(all), IsHead(all[k])
      PROVE  a < all[k][1] /\ all[k][1] <= c
  <2>1. CASE k \in 1..n
    <3>1. PICK p : p = x[k][1]
      OBVIOUS
    <3>2. all[k] = x[k] /\ p \in Nat /\ a < p /\ p <= b
      BY <1>1, <1>4, <1>6, <2>1, <3>1
    <3>3. a < p /\ p <= c
      BY <3>2
    <3>. QED
      BY <3>1, <3>2, <3>3
  <2>2. CASE k \in (n + 1)..(n + m)
    <3>. DEFINE j == k - n
    <3>1. all[k] = y[j] /\ j \in 1..m
      BY <1>1, <2>2
    <3>. HIDE DEF j
    <3>2. PICK p : p = y[j][1]
      OBVIOUS
    <3>3. p \in Nat /\ b < p /\ p <= c
      BY <1>5, <1>6, <3>1, <3>2
    <3>4. a < p /\ p <= c
      BY <3>3
    <3>. QED
      BY <3>1, <3>2, <3>4
  <2>. QED
    BY <1>3, <2>1, <2>2
<1>7. ASSUME NEW j \in 1..Len(all), NEW k \in 1..Len(all), j < k, IsHead(all[j]), IsHead(all[k])
      PROVE  all[j][1] < all[k][1]
  <2>1. CASE k \in 1..n
    <3>1. j \in 1..n
      BY <1>1, <1>7, <2>1
    <3>. QED
      BY <1>1, <1>7, <2>1, <3>1 DEF DataInTurn, Rising, n
  <2>2. CASE j \in (n + 1)..(n + m)
    <3>. DEFINE u == j - n
                v == k - n
    <3>1. k \in (n + 1)..(n + m)
      BY <1>1, <1>3, <1>7, <2>2
    <3>2. all[j] = y[u] /\ all[k] = y[v] /\ u \in 1..m /\ v \in 1..m /\ u < v
      BY <1>1, <1>7, <2>2, <3>1
    <3>. HIDE DEF u, v
    <3>. QED
      BY <1>7, <3>2 DEF DataInTurn, Rising, m
  <2>3. CASE j \in 1..n /\ k \in (n + 1)..(n + m)
    <3>. DEFINE v == k - n
    <3>1. all[j] = x[j] /\ all[k] = y[v] /\ v \in 1..m
      BY <1>1, <2>3
    <3>. HIDE DEF v
    <3>2. PICK p, q : p = x[j][1] /\ q = y[v][1]
      OBVIOUS
    <3>3. p \in Nat /\ p <= b
      BY <1>4, <1>7, <2>3, <3>1, <3>2
    <3>4. q \in Nat /\ b < q
      BY <1>5, <1>7, <3>1, <3>2
    <3>5. p < q
      BY <3>3, <3>4
    <3>. QED
      BY <3>1, <3>2, <3>5
  <2>. QED
    BY <1>3, <2>1, <2>2, <2>3
<1>8. DataInTurn(a, c, all)
  BY <1>1, <1>6, <1>7 DEF DataInTurn, Rising
<1>. QED
  BY <1>8 DEF all

\* A datagram by itself.
LEMMA OneInTurn ==
  ASSUME NEW a, NEW b, NEW d \in Datagram, DataInTurn(a, b, d.data)
  PROVE  InTurn(a, b, <<d>>)
<1>. DEFINE ds == <<d>>
<1>1. ds \in Seq(Datagram) /\ Len(ds) = 1 /\ \A k \in 1..Len(ds) : ds[k] = d /\ k = 1
  OBVIOUS
<1>. HIDE DEF ds
<1>2. \A j, k \in 1..Len(ds) : ~(j < k)
  BY <1>1
<1>3. InTurn(a, b, ds)
  BY <1>1, <1>2 DEF InTurn, HeadsAfter, HeadsUpTo, DataInTurn
<1>. QED
  BY <1>3 DEF ds

LEMMA SegmentsInTurn ==
  ASSUME NEW p \in Nat \ {0}, NEW q \in Packets
  PROVE  InTurn(p - 1, p, Segments(p, q.len))
<1>. DEFINE w == MAX_UDP_WRITE_SIZE
            len == q.len
            K == (len + w - 1) \div w
            off(k) == (k - 1) * w
            n(k) == MinOf(w, len - off(k))
            d(k) == [seq |-> 0, type |-> "Seg", off |-> off(k), data |-> Units(p, off(k), n(k))]
            ds == Segments(p, len)
<1>1. w \in Nat \ {0} /\ len \in Nat \ {0} /\ 0 \in 0..(SEQ_MOD - 1)
  BY NetAssumption, PacketFacts
<1>. HIDE DEF w, len
<1>2. K \in Nat
  BY <1>1
<1>3. ds = [k \in 1..K |-> d(k)]
  BY DEF Segments, w
<1>. HIDE DEF K
<1>4. ASSUME NEW k \in 1..K
      PROVE  off(k) \in Nat /\ n(k) \in Nat /\ (k > 1 => off(k) > 0)
  <2>1. /\ (k - 1) * w \in Nat /\ (k - 1) * w < len
        /\ k > 1 => (k - 2) * w \in Nat /\ (k - 2) * w + w = (k - 1) * w
    BY <1>1, SegmentPlaces DEF K
  <2>. QED
    BY <1>1, <2>1 DEF MinOf
<1>. HIDE DEF off, n
<1>5. ASSUME NEW k \in 1..K
      PROVE  /\ d(k) \in Datagram /\ DataInTurn(p - 1, p, d(k).data)
             /\ k > 1 => \A i \in 1..Len(d(k).data) : ~IsHead(d(k).data[i])
  <2>1. /\ Units(p, off(k), n(k)) \in Seq(Unit) /\ Len(Units(p, off(k), n(k))) = n(k)
    BY <1>1, <1>4, UnitsFacts
  <2>2. /\ DataInTurn(p - 1, p, Units(p, off(k), n(k)))
        /\ off(k) > 0 => \A i \in 1..n(k) : ~IsHead(Units(p, off(k), n(k))[i])
    BY <1>4, UnitsInTurn
  <2>. QED
    BY <1>1, <1>4, <2>1, <2>2 DEF Datagram
<1>6. ds \in Seq(Datagram) /\ Len(ds) = K /\ \A k \in 1..K : ds[k] = d(k)
  <2>. HIDE DEF d, ds
  <2>1. DOMAIN ds = 1..K
    BY <1>3
  <2>. QED
    BY <1>2, <1>3, <1>5, <2>1
<1>. HIDE DEF d, ds
<1>7. \A j, k \in 1..Len(ds) : j < k => Before(ds[j].data, ds[k].data)
  <2>1. ASSUME NEW j \in 1..K, NEW k \in 1..K, j < k PROVE Before(ds[j].data, ds[k].data)
    <3>1. k > 1
      BY <1>2, <2>1
    <3>. QED
      BY <1>5, <1>6, <3>1 DEF Before
  <2>. QED
    BY <1>6, <2>1
<1>8. InTurn(p - 1, p, ds)
  BY <1>5, <1>6, <1>7 DEF InTurn, HeadsAfter, HeadsUpTo, DataInTurn
<1>. QED
  BY <1>8 DEF ds, len

LEMMA PartsInTurn ==
  ASSUME NEW p \in Nat \ {0}, NEW q \in Packets
  PROVE  InTurn(p - 1, p, Parts(p, q.len))
<1>1. CASE q.len > MAX_UDP_WRITE_SIZE
  BY <1>1, SegmentsInTurn DEF Parts
<1>2. CASE ~(q.len > MAX_UDP_WRITE_SIZE)
  <2>. DEFINE d == FullDatagram(Units(p, 0, q.len))
  <2>1. q.len \in Nat /\ 0 \in Nat
    BY PacketFacts
  <2>2. DataInTurn(p - 1, p, Units(p, 0, q.len))
    BY <2>1, UnitsInTurn
  <2>3. d \in Datagram /\ d.data = Units(p, 0, q.len)
    BY <2>2, NetAssumption DEF FullDatagram, Datagram, DataInTurn
  <2>. HIDE DEF d
  <2>4. InTurn(p - 1, p, <<d>>)
    BY <2>2, <2>3, OneInTurn
  <2>. QED
    BY <1>2, <2>4 DEF Parts, d
<1>. QED
  BY <1>1, <1>2

LEMMA NumberedInTurn ==
  ASSUME NEW a, NEW b, NEW ds, InTurn(a, b, ds), NEW s \in Nat
  PROVE  InTurn(a, b, Numbered(ds, s))
<1>. DEFINE d == Numbered(ds, s)
<1>1. ds \in Seq(Datagram) /\ Len(ds) \in Nat /\ DOMAIN ds = 1..Len(ds)
  BY DEF InTurn
<1>2. \A k \in 1..Len(ds) : /\ (s + k - 1) % SEQ_MOD \in 0..(SEQ_MOD - 1)
                           /\ ds[k] \in Datagram
                           /\ d[k] = [ds[k] EXCEPT !.seq = (s + k - 1) % SEQ_MOD]
  <2>1. \A k \in 1..Len(ds) : (s + k - 1) % SEQ_MOD \in 0..(SEQ_MOD - 1)
    BY <1>1, NetAssumption
  <2>. QED
    BY <1>1, <2>1 DEF Numbered
<1>3. \A k \in 1..Len(ds) : d[k] \in Datagram /\ d[k].data = ds[k].data
  BY <1>2 DEF Datagram
<1>4. d \in Seq(Datagram) /\ Len(d) = Len(ds)
  <2>1. DOMAIN d = 1..Len(ds) /\ d = [k \in 1..Len(ds) |-> d[k]]
    BY <1>1 DEF Numbered
  <2>. HIDE DEF d
  <2>. QED
    BY <1>1, <1>3, <2>1
<1>. HIDE DEF d
<1>5. InTurn(a, b, d)
  BY <1>3, <1>4 DEF InTurn, HeadsAfter, HeadsUpTo
<1>. QED
  BY <1>5 DEF d

\* What the sender puts on the wire for the caller's buffer.
LEMMA BurstInTurn ==
  ASSUME NEW m, FewerThanNumbers(m), sent \in Seq(Packets), NEW b \in Seq(Packets),
         NEW counts \in {Complete(b)} \cup CutShort(b)
  PROVE  InTurn(Len(sent), Len(sent) + Handled(b), BurstOf(b, counts))
<1>. DEFINE h == Handled(b)
            l == Len(sent)
            x(i) == SubSeq(PartsOf(b, i), 1, counts[i])
            ss == [i \in 1..h |-> x(i)]
            C == [n \in Nat |-> {ds \in Seq(Datagram) : InTurn(l, l + n, ds)}]
<1>1. h \in 0..Len(b) /\ Len(b) \in Nat /\ l \in Nat
  BY HandledFacts
<1>2. ASSUME NEW i \in 1..h PROVE x(i) \in Seq(Datagram) /\ InTurn(l + i - 1, l + i, x(i))
  <2>1. l + i \in Nat \ {0} /\ b[i] \in Packets
    BY <1>1
  <2>2. InTurn(l + i - 1, l + i, PartsOf(b, i))
    BY <2>1, PartsInTurn DEF PartsOf
  <2>3. counts[i] \in 0..Len(PartsOf(b, i)) /\ PartsOf(b, i) \in Seq(Datagram)
    BY <2>2, CountsFacts DEF InTurn
  <2>4. Thinned(PartsOf(b, i), x(i))
    BY <2>3, FirstOfThem
  <2>. HIDE DEF x
  <2>. QED
    BY <2>2, <2>4, ThinnedInTurn DEF InTurn
<1>. HIDE DEF x, h, l
<1>3. ss \in Seq(Seq(Datagram)) /\ Len(ss) = h /\ \A i \in 1..h : ss[i] = x(i)
  BY <1>1, <1>2
<1>. HIDE DEF ss
<1>4. <<>> \in C[0]
  <2>1. InTurn(l, l + 0, <<>>)
    BY DEF InTurn, HeadsAfter, HeadsUpTo
  <2>. QED
    BY <2>1
<1>5. ASSUME NEW n \in 0..(Len(ss) - 1), NEW a \in C[n] PROVE a \o ss[n + 1] \in C[n + 1]
  <2>. DEFINE i == n + 1
              e == l + n
  <2>1. n \in Nat /\ i \in 1..h /\ l + i - 1 = e /\ l + i = e + 1 /\ i \in Nat /\ e \in Nat
    BY <1>1, <1>3
  <2>2. a \in Seq(Datagram) /\ InTurn(l, e, a)
    BY <1>5, <2>1
  <2>. HIDE DEF i
  <2>3. InTurn(e, e + 1, ss[i]) /\ ss[i] \in Seq(Datagram)
    <3>. HIDE DEF e
    <3>. QED
      BY <1>2, <1>3, <2>1
  <2>4. InTurn(l, l + i, a \o ss[i])
    <3>1. l <= e /\ e <= e + 1 /\ e + 1 \in Nat
      BY <1>1, <2>1
    <3>. HIDE DEF e
    <3>2. InTurn(l, e + 1, a \o ss[i])
      BY <1>1, <2>1, <2>2, <2>3, <3>1, InTurnConcat
    <3>. QED
      BY <2>1, <3>2
  <2>5. a \o ss[i] \in C[i]
    BY <2>1, <2>4 DEF InTurn
  <2>. HIDE DEF C
  <2>. QED
    BY <2>5 DEF i
<1>6. FlattenSeq(ss) \in C[Len(ss)]
  <2>. HIDE DEF C
  <2>. QED
    BY <1>3, <1>4, <1>5, FlattenGrows
<1>7. InTurn(l, l + h, FlattenSeq(ss))
  BY <1>1, <1>3, <1>6
<1>8. FlattenSeq(ss) = BurstOf(b, counts)
  BY DEF ss, x, h, BurstOf
<1>. QED
  BY <1>7, <1>8 DEF l, h

\* The data of several packets that a recorder puts in one datagram.
LEMMA BundleInTurn ==
  ASSUME sent \in Seq(Packets), NEW b \in Seq(Packets)
  PROVE  DataInTurn(Len(sent), Len(sent) + Len(b),
           FlattenSeq([i \in DOMAIN b |-> Units(Len(sent) + i, 0, b[i].len)]))
<1>. DEFINE h == Len(b)
            l == Len(sent)
            x(i) == Units(l + i, 0, b[i].len)
            ss == [i \in DOMAIN b |-> x(i)]
            C == [n \in Nat |-> {data \in Seq(Unit) : DataInTurn(l, l + n, data)}]
<1>1. h \in Nat /\ l \in Nat /\ DOMAIN b = 1..h
  OBVIOUS
<1>2. ASSUME NEW i \in 1..h PROVE x(i) \in Seq(Unit) /\ DataInTurn(l + i - 1, l + i, x(i))
  <2>1. l + i \in Nat \ {0} /\ b[i] \in Packets /\ 0 \in Nat
    BY <1>1
  <2>2. b[i].len \in Nat
    BY <2>1, PacketFacts
  <2>3. DataInTurn(l + i - 1, l + i, x(i))
    BY <2>1, <2>2, UnitsInTurn
  <2>. HIDE DEF x
  <2>. QED
    BY <2>3 DEF DataInTurn
<1>. HIDE DEF x, h, l
<1>3. ss \in Seq(Seq(Unit)) /\ Len(ss) = h /\ \A i \in 1..h : ss[i] = x(i)
  BY <1>1, <1>2
<1>. HIDE DEF ss
<1>4. <<>> \in C[0]
  <2>1. DataInTurn(l, l + 0, <<>>)
    BY DEF DataInTurn, Rising
  <2>. QED
    BY <2>1
<1>5. ASSUME NEW n \in 0..(Len(ss) - 1), NEW a \in C[n] PROVE a \o ss[n + 1] \in C[n + 1]
  <2>. DEFINE i == n + 1
              e == l + n
  <2>1. n \in Nat /\ i \in 1..h /\ l + i - 1 = e /\ l + i = e + 1 /\ i \in Nat /\ e \in Nat
    BY <1>1, <1>3
  <2>2. a \in Seq(Unit) /\ DataInTurn(l, e, a)
    BY <1>5, <2>1
  <2>. HIDE DEF i
  <2>3. DataInTurn(e, e + 1, ss[i]) /\ ss[i] \in Seq(Unit)
    <3>. HIDE DEF e
    <3>. QED
      BY <1>2, <1>3, <2>1
  <2>4. DataInTurn(l, l + i, a \o ss[i])
    <3>1. l <= e /\ e <= e + 1 /\ e + 1 \in Nat
      BY <1>1, <2>1
    <3>. HIDE DEF e
    <3>2. DataInTurn(l, e + 1, a \o ss[i])
      BY <1>1, <2>1, <2>2, <2>3, <3>1, DataInTurnConcat
    <3>. QED
      BY <2>1, <3>2
  <2>5. a \o ss[i] \in C[i]
    BY <2>1, <2>4 DEF DataInTurn
  <2>. HIDE DEF C
  <2>. QED
    BY <2>5 DEF i
<1>6. FlattenSeq(ss) \in C[Len(ss)]
  <2>. HIDE DEF C
  <2>. QED
    BY <1>3, <1>4, <1>5, FlattenGrows
<1>7. DataInTurn(l, l + h, FlattenSeq(ss))
  BY <1>1, <1>3, <1>6
<1>. QED
  BY <1>7 DEF ss, x, h, l

-----------------------------------------------------------------------------
(* The receiver keeps the order.                                            *)

\* Nothing came out of its order, or twice.
InStep == mishaps.kinds \cap {"Reordered", "Duplicated"} = {}

\* The packet whose header was read last, of its secondary header not yet checked.
Mark == IF call.op = "SecHeader" THEN call.pkt ELSE rd.pkt

\* Packets begin in the buffer in their order: those not yet read after packet a, and all of
\* them before those that begin in ds.
BufferInTurn(a, r, ds) ==
  r.ready =>
    /\ Rising(Contents(r))
    /\ \A i \in 0..(r.dataLen - 1) : IsHead(r.buf[i]) =>
         HeadsAfter(r.buf[i][1], ds) /\ (r.pos <= i => a < r.buf[i][1])

\* The same of a packet that is in part received.
PartialInTurn(a, r, ds) ==
  r.gotFirst /\ ~r.ready => a < r.buf[0][1] /\ HeadsAfter(r.buf[0][1], ds)

ReceiverInTurn(a, r, ds) == BufferInTurn(a, r, ds) /\ PartialInTurn(a, r, ds)

LEMMA HeadsAfterConcat ==
  ASSUME NEW a, NEW ds \in Seq(Datagram), NEW es \in Seq(Datagram),
         HeadsAfter(a, ds), HeadsAfter(a, es)
  PROVE  HeadsAfter(a, ds \o es)
<1>. DEFINE all == ds \o es
            n == Len(ds)
            m == Len(es)
<1>1. /\ n \in Nat /\ m \in Nat /\ Len(all) = n + m
      /\ \A k \in 1..n : all[k] = ds[k]
      /\ \A k \in (n + 1)..(n + m) : all[k] = es[k - n] /\ k - n \in 1..m
  BY Behind
<1>. HIDE DEF all
<1>2. \A k \in 1..Len(all) : k \in 1..n \/ k \in (n + 1)..(n + m)
  BY <1>1
<1>. HIDE DEF n, m
<1>3. HeadsAfter(a, all)
  BY <1>1, <1>2 DEF HeadsAfter, n, m
<1>. QED
  BY <1>3 DEF all

\* A first datagram, and those behind it.
LEMMA HeadInTurn ==
  ASSUME NEW a \in Nat, NEW b \in Nat, NEW ds, InTurn(a, b, ds), ds # <<>>
  PROVE  /\ Head(ds) \in Datagram /\ Rising(Head(ds).data) /\ InTurn(a, b, Tail(ds))
         /\ \A i \in 1..Len(Head(ds).data) : IsHead(Head(ds).data[i]) =>
              a < Head(ds).data[i][1] /\ HeadsAfter(Head(ds).data[i][1], Tail(ds))
         /\ \A p : HeadsAfter(p, ds) => HeadsAfter(p, Tail(ds))
<1>1. ds \in Seq(Datagram) /\ Len(ds) \in Nat \ {0} /\ 1 \in 1..Len(ds) /\ Head(ds) = ds[1]
  BY DEF InTurn
<1>2. Thinned(ds, Tail(ds))
  BY <1>1, RestOfThem
<1>. DEFINE t == Tail(ds)
<1>3. t \in Seq(Datagram) /\ Len(t) = Len(ds) - 1 /\ \A k \in 1..Len(t) : t[k] = ds[k + 1]
  BY <1>1
<1>4. \A k \in 1..Len(t) : k + 1 \in 1..Len(ds) /\ 1 < k + 1 /\ t[k] = ds[k + 1]
  BY <1>1, <1>3
<1>5. ASSUME NEW k \in 1..Len(t) PROVE Before(ds[1].data, t[k].data)
  <2>. DEFINE j == k + 1
  <2>1. j \in 1..Len(ds) /\ 1 < j /\ t[k] = ds[j]
    BY <1>4
  <2>. HIDE DEF j, t
  <2>. QED
    BY <1>1, <2>1 DEF InTurn
<1>. HIDE DEF t
<1>6. ASSUME NEW i \in 1..Len(ds[1].data), IsHead(ds[1].data[i])
      PROVE  a < ds[1].data[i][1] /\ HeadsAfter(ds[1].data[i][1], t)
  BY <1>1, <1>5, <1>6 DEF InTurn, HeadsAfter, Before
<1>7. InTurn(a, b, t) /\ \A p : HeadsAfter(p, ds) => HeadsAfter(p, t)
  BY <1>2, ThinnedInTurn DEF t
<1>8. ds[1] \in Datagram /\ Rising(ds[1].data)
  BY <1>1 DEF InTurn
<1>. QED
  BY <1>1, <1>6, <1>7, <1>8 DEF t

LEMMA FullTaken ==
  ASSUME NEW a \in Nat, NEW b \in Nat, NEW ds, InTurn(a, b, ds), ds # <<>>,
         NEW x, IsReceiver(x), IF x.ready THEN Contents(x) = Head(ds).data ELSE ~x.gotFirst
  PROVE  ReceiverInTurn(a, x, Tail(ds))
<1>. DEFINE t == Tail(ds)
            d == Head(ds)
<1>1. /\ Rising(d.data)
      /\ \A i \in 1..Len(d.data) : IsHead(d.data[i]) =>
           a < d.data[i][1] /\ HeadsAfter(d.data[i][1], t)
  BY HeadInTurn
<1>. HIDE DEF t, d
<1>2. ASSUME x.ready PROVE BufferInTurn(a, x, t)
  <2>1. Contents(x) = d.data /\ x.dataLen \in Nat
    BY <1>2 DEF d, IsReceiver, Receiver
  <2>2. Len(d.data) = x.dataLen /\ \A j \in 1..x.dataLen : d.data[j] = x.buf[j - 1]
    BY <2>1 DEF Contents
  <2>3. ASSUME NEW i \in 0..(x.dataLen - 1), IsHead(x.buf[i])
        PROVE  HeadsAfter(x.buf[i][1], t) /\ a < x.buf[i][1]
    <3>. DEFINE j == i + 1
    <3>1. j \in 1..x.dataLen /\ j - 1 = i
      BY <2>1
    <3>. HIDE DEF j
    <3>2. d.data[j] = x.buf[i]
      BY <2>2, <3>1
    <3>. QED
      BY <1>1, <2>2, <2>3, <3>1, <3>2
  <2>. QED
    BY <1>1, <2>1, <2>3 DEF BufferInTurn
<1>3. PartialInTurn(a, x, t)
  BY DEF PartialInTurn
<1>4. ReceiverInTurn(a, x, t)
  BY <1>2, <1>3 DEF ReceiverInTurn, BufferInTurn
<1>. QED
  BY <1>4 DEF t

\* A segment goes on with the packet in part received, or begins one.
LEMMA SegmentTaken ==
  ASSUME NEW a \in Nat, NEW b \in Nat, NEW ds, InTurn(a, b, ds), ds # <<>>,
         NEW p, PartOf(sent, p, Head(ds)),
         NEW r, PartialInTurn(a, r, ds), ~r.ready,
         NEW x, IsReceiver(x), GoneOnWith(r, Head(ds), x), x.ready => OneHead(x)
  PROVE  ReceiverInTurn(a, x, Tail(ds))
<1>. DEFINE t == Tail(ds)
            d == Head(ds)
<1>1. /\ d \in Datagram
      /\ \A i \in 1..Len(d.data) : IsHead(d.data[i]) =>
           a < d.data[i][1] /\ HeadsAfter(d.data[i][1], t)
      /\ \A q : HeadsAfter(q, ds) => HeadsAfter(q, t)
  BY HeadInTurn
<1>2. PartOf(sent, p, d)
  OBVIOUS
<1>3. GoneOnWith(r, d, x)
  OBVIOUS
<1>. HIDE DEF t, d
<1>4. ASSUME x.ready \/ x.gotFirst
      PROVE  a < x.buf[0][1] /\ HeadsAfter(x.buf[0][1], t)
  <2>1. CASE d.off = 0
    <3>1. Len(d.data) > 0 /\ x.buf[0] = d.data[1]
      BY <1>3, <1>4, <2>1 DEF GoneOnWith
    <3>2. 1 \in 1..Len(d.data)
      BY <1>1, <3>1 DEF Datagram
    <3>3. d.data[1] = <<p, 0>>
      <4>1. d.data = Units(p, 0, Len(d.data))
        BY <1>2, <2>1 DEF PartOf
      <4>2. d.data[1] = <<p, 0 + 1 - 1>>
        BY <3>2, <4>1 DEF Units
      <4>. QED
        BY <4>2
    <3>4. IsHead(d.data[1])
      BY <3>3 DEF IsHead
    <3>. QED
      BY <1>1, <3>1, <3>2, <3>4
  <2>2. CASE d.off # 0
    <3>1. r.gotFirst /\ x.buf[0] = r.buf[0]
      BY <1>3, <1>4, <2>2 DEF GoneOnWith
    <3>. QED
      BY <1>1, <3>1 DEF PartialInTurn
  <2>. QED
    BY <2>1, <2>2
<1>5. ASSUME x.ready PROVE BufferInTurn(a, x, t)
  <2>1. OneHead(x) /\ x.dataLen \in Nat
    BY <1>5 DEF IsReceiver, Receiver
  <2>2. \A i \in 0..(x.dataLen - 1) : IsHead(x.buf[i]) => i = 0
    BY <2>1 DEF OneHead
  <2>3. Rising(Contents(x))
    <3>1. /\ Len(Contents(x)) = x.dataLen
          /\ \A i \in 1..x.dataLen : Contents(x)[i] = x.buf[i - 1] /\ i - 1 \in 0..(x.dataLen - 1)
      BY <2>1 DEF Contents
    <3>2. \A i \in 1..x.dataLen : IsHead(Contents(x)[i]) => i = 1
      <4>. TAKE i \in 1..x.dataLen
      <4>1. HAVE IsHead(Contents(x)[i])
      <4>2. i - 1 = 0
        BY <2>2, <3>1, <4>1
      <4>. QED
        BY <4>2
    <3>. QED
      BY <3>1, <3>2 DEF Rising
  <2>. QED
    BY <1>4, <1>5, <2>2, <2>3 DEF BufferInTurn
<1>6. ReceiverInTurn(a, x, t)
  BY <1>4, <1>5 DEF ReceiverInTurn, BufferInTurn, PartialInTurn
<1>. QED
  BY <1>6 DEF t

LEMMA TakenInTurn ==
  ASSUME NEW m, NEW first, NEW log, Logged(m, first, log),
         NEW r, Held(r, log), ~r.ready,
         NEW a \in Nat, NEW b \in Nat, NEW ds, InTurn(a, b, ds), ds # <<>>,
         PartialInTurn(a, r, ds), Head(ds).type # "Short",
         Head(ds).type \in {"Full", "Seg"} => \E k \in 1..Len(log) : Head(ds) = log[k]
  PROVE  ReceiverInTurn(a, Take(r, Head(ds)), Tail(ds))
<1>. DEFINE d == Head(ds)
            x == FollowSeq(r, d)
<1>1. d \in Datagram
  BY HeadInTurn
<1>2. /\ IsReceiver(x) /\ x.ready = FALSE /\ x.seq = d.seq
      /\ \A k \in 1..Len(log) : (x.gotFirst /\ d = log[k]) =>
           k - 1 \in 1..Len(log) /\ HoldsUpTo(x, log, k - 1)
  <2>. HIDE DEF d
  <2>. QED
    BY <1>1, FollowFacts
<1>3. PartialInTurn(a, x, ds)
  <2>1. IsReceiver(r) /\ r.ready = FALSE
    BY DEF Held, IsReceiver, Receiver
  <2>2. x.buf = r.buf /\ (x.gotFirst => r.gotFirst)
    <3>. DEFINE y == IF d.seq # r.seq + 1 THEN DumpNetStream(r) ELSE r
    <3>1. IsReceiver(y) /\ y.buf = r.buf /\ (y.gotFirst => r.gotFirst)
      BY <2>1, DumpFacts
    <3>2. x = [y EXCEPT !.seq = d.seq]
      BY DEF FollowSeq
    <3>. HIDE DEF y, x
    <3>. QED
      BY <3>1, <3>2 DEF IsReceiver, Receiver
  <2>. HIDE DEF x
  <2>. QED
    BY <2>1, <2>2 DEF PartialInTurn
<1>4. /\ d.type = "Full" => Take(r, d) = TakeFull(x, d)
      /\ d.type = "Seg" => Take(r, d) = TakeSegment(x, d)
      /\ d.type = "Junk" => Take(r, d) = DumpNetStream(x)
  BY DEF Take
<1>5. d = Head(ds)
  OBVIOUS
<1>. HIDE DEF x, d
<1>6. PICK y : y = Take(r, d)
  OBVIOUS
<1>7. ReceiverInTurn(a, y, Tail(ds))
  <2>1. CASE d.type = "Full"
    <3>1. PICK k \in 1..Len(log) : d = log[k]
      BY <1>5, <2>1
    <3>2. WholePackets(sent, d.data)
      BY <2>1, <3>1 DEF Logged, IsRun, PartOf
    <3>3. y = TakeFull(x, d)
      BY <1>4, <1>6, <2>1
    <3>4. Held(y, log) /\ IF y.ready THEN Contents(y) = d.data ELSE ~y.gotFirst
      BY <1>1, <1>2, <3>2, <3>3, TakeFullHeld
    <3>. QED
      BY <1>5, <3>4, FullTaken DEF Held
  <2>2. CASE d.type = "Seg"
    <3>1. PICK k \in 1..Len(log) : d = log[k]
      BY <1>5, <2>2
    <3>2. PICK p : PartOf(sent, p, d)
      BY <2>2, <3>1 DEF Logged, IsRun
    <3>3. y = TakeSegment(x, log[k])
      BY <1>4, <1>6, <2>2, <3>1
    <3>4. Held(y, log) /\ GoneOnWith(x, log[k], y) /\ (y.ready => OneHead(y))
      BY <1>2, <2>2, <3>1, <3>3, TakeSegmentHeld
    <3>5. GoneOnWith(x, Head(ds), y) /\ PartOf(sent, p, Head(ds)) /\ IsReceiver(y)
      BY <1>5, <3>1, <3>2, <3>4 DEF Held
    <3>. QED
      BY <1>2, <1>3, <3>4, <3>5, SegmentTaken
  <2>3. CASE d.type = "Junk"
    <3>1. y = DumpNetStream(x)
      BY <1>4, <1>6, <2>3
    <3>2. y.ready = FALSE /\ y.gotFirst = FALSE
      BY <1>2, <3>1, DumpFacts
    <3>. QED
      BY <3>2 DEF ReceiverInTurn, BufferInTurn, PartialInTurn
  <2>. QED
    BY <1>1, <1>5, <2>1, <2>2, <2>3 DEF Datagram
<1>. QED
  BY <1>5, <1>6, <1>7

\* The packet whose header was read last has been sent; a reader in its data knows its length.
MarkFits ==
  /\ rd.pkt \in 0..Len(sent)
  /\ rd.state = "ReadData" => rd.plen = sent[rd.pkt].len
  /\ mishaps \in [n : Nat, kinds : SUBSET Mishap]

\* After the last header come the packets in the buffer, then those on their way.
AllInTurn ==
  /\ call.op = "SecHeader" => rd.pkt < call.pkt
  /\ InTurn(Mark, Len(sent), wire)
  /\ BufferInTurn(Mark, rcv, wire)
  /\ Waiting => PartialInTurn(Mark, rcv, wire)

OrderInv == MarkFits /\ (InStep => AllInTurn)

LEMMA MarkFacts ==
  ASSUME ReaderFits, MarkFits, sent \in Seq(Packets)
  PROVE  Mark \in 0..Len(sent) /\ Mark \in Nat /\ Len(sent) \in Nat
<1>1. Len(sent) \in Nat
  OBVIOUS
<1>2. Mark \in 0..Len(sent)
  BY DEF Mark, MarkFits, ReaderFits, CallFits
<1>. QED
  BY <1>1, <1>2

\* The units in the buffer.
LEMMA BufferUnits ==
  ASSUME sent \in Seq(Packets), NEW r, IsReceiver(r), r.ready, WholePackets(sent, Contents(r))
  PROVE  /\ r.dataLen \in Nat /\ r.pos \in Nat /\ Len(Contents(r)) = r.dataLen
         /\ \A i \in 1..r.dataLen : Contents(r)[i] = r.buf[i - 1]
         /\ \A i \in 0..(r.dataLen - 1) : r.buf[i][1] \in 1..Len(sent)
<1>1. r.dataLen \in Nat /\ r.pos \in Nat
  BY DEF IsReceiver, Receiver
<1>2. Len(Contents(r)) = r.dataLen /\ \A i \in 1..r.dataLen : Contents(r)[i] = r.buf[i - 1]
  BY <1>1 DEF Contents
<1>3. \A i \in 1..r.dataLen : Contents(r)[i][1] \in 1..Len(sent)
  BY <1>2 DEF WholePackets
<1>4. ASSUME NEW i \in 0..(r.dataLen - 1) PROVE r.buf[i][1] \in 1..Len(sent)
  <2>. DEFINE j == i + 1
  <2>1. j \in 1..r.dataLen /\ j - 1 = i
    BY <1>1
  <2>. HIDE DEF j
  <2>. QED
    BY <1>2, <1>3, <2>1
<1>. QED
  BY <1>1, <1>2, <1>4

\* More is sent.
LEMMA WireGrows ==
  ASSUME NEW m, NEW first, NEW log, Logged(m, first, log), BufferHeld(log), ReaderFits,
         MarkFits, AllInTurn, UNCHANGED <<rcv, rd, call>>, Len(sent') \in Nat, Len(sent) <= Len(sent'),
         NEW es, InTurn(Len(sent), Len(sent'), es), wire' = wire \o es
  PROVE  AllInTurn'
<1>1. sent \in Seq(Packets) /\ Mark \in Nat /\ Mark <= Len(sent) /\ Len(sent) \in Nat
  BY MarkFacts DEF Logged
<1>2. /\ Mark' = Mark /\ (call'.op = "SecHeader" => rd'.pkt < call'.pkt)
      /\ InTurn(Mark, Len(sent), wire)
  BY DEF Mark, AllInTurn
<1>3. InTurn(Mark', Len(sent'), wire')
  <2>1. InTurn(Mark, Len(sent'), wire')
    BY <1>1, <1>2, InTurnConcat
  <2>. QED
    BY <1>2, <2>1
<1>4. ASSUME NEW p \in 1..Len(sent), HeadsAfter(p, wire) PROVE HeadsAfter(p, wire')
  <2>1. p \in Nat /\ p <= Len(sent) /\ Len(sent') <= Len(sent') /\ p <= Len(sent')
    BY <1>1
  <2>2. HeadsAfter(p, es)
    <3>1. InTurn(p, Len(sent'), es)
      BY <1>1, <2>1, InTurnWider
    <3>. QED
      BY <3>1 DEF InTurn
  <2>. QED
    BY <1>2, <1>4, <2>2, HeadsAfterConcat DEF InTurn
<1>5. BufferInTurn(Mark', rcv', wire')
  <2>1. SUFFICES ASSUME rcv.ready PROVE BufferInTurn(Mark, rcv, wire')
    BY <1>2 DEF BufferInTurn
  <2>2. \A i \in 0..(rcv.dataLen - 1) : rcv.buf[i][1] \in 1..Len(sent)
    BY <1>1, <2>1, BufferUnits DEF BufferHeld
  <2>. QED
    BY <1>4, <2>1, <2>2 DEF AllInTurn, BufferInTurn
<1>6. ASSUME Waiting' PROVE PartialInTurn(Mark', rcv', wire')
  <2>1. SUFFICES ASSUME rcv.gotFirst, ~rcv.ready PROVE PartialInTurn(Mark, rcv, wire')
    BY <1>2 DEF PartialInTurn
  <2>2. Waiting /\ PartialInTurn(Mark, rcv, wire)
    BY <1>6 DEF Waiting, AllInTurn
  <2>3. PICK k \in 1..Len(log) : HoldsUpTo(rcv, log, k)
    BY <2>1, <2>2 DEF BufferHeld, Partial
  <2>4. PICK p \in 1..Len(sent), n \in Int : n > 0 /\ StartsWith(rcv, p, n)
    <3>1. PICK p \in 1..Len(sent) : /\ PartOf(sent, p, log[k]) /\ Len(log[k].data) > 0
                                    /\ StartsWith(rcv, p, log[k].off + Len(log[k].data))
      BY <2>3 DEF HoldsUpTo
    <3>2. Partial(rcv, log)
      BY <2>1, <2>2 DEF BufferHeld
    <3>. DEFINE n == log[k].off + Len(log[k].data)
    <3>3. n > 0 /\ n \in Int
      <4>1. log[k] \in Datagram
        BY DEF Logged, IsRun
      <4>2. log[k].off \in Nat /\ Len(log[k].data) \in Nat
        BY <4>1 DEF Datagram
      <4>. QED
        BY <3>1, <4>2
    <3>. QED
      BY <3>1, <3>3
  <2>5. rcv.buf[0][1] = p
    <3>1. 0 \in 0..(n - 1)
      BY <2>4
    <3>2. rcv.buf[0] = <<p, 0>>
      BY <2>4, <3>1 DEF StartsWith
    <3>. QED
      BY <3>2
  <2>. QED
    BY <1>4, <2>1, <2>2, <2>5 DEF PartialInTurn
<1>. QED
  BY <1>2, <1>3, <1>5, <1>6 DEF AllInTurn

\* Some of what is on its way goes, and the buffer stays.
LEMMA WireThins ==
  ASSUME AllInTurn, UNCHANGED <<sent, rd, call>>, Thinned(wire, wire'),
         rcv'.ready = rcv.ready, rcv'.gotFirst = rcv.gotFirst, rcv'.pos = rcv.pos,
         rcv'.dataLen = rcv.dataLen, rcv'.buf = rcv.buf
  PROVE  AllInTurn'
<1>1. /\ Mark' = Mark /\ (call'.op = "SecHeader" => rd'.pkt < call'.pkt)
      /\ (Waiting' <=> Waiting)
  BY DEF Mark, AllInTurn, Waiting
<1>2. /\ InTurn(Mark, Len(sent), wire')
      /\ \A a : HeadsAfter(a, wire) => HeadsAfter(a, wire')
  BY ThinnedInTurn DEF AllInTurn
<1>3. Contents(rcv') = Contents(rcv)
  BY DEF Contents
<1>4. BufferInTurn(Mark, rcv', wire') /\ (Waiting => PartialInTurn(Mark, rcv', wire'))
  BY <1>2, <1>3 DEF AllInTurn, BufferInTurn, PartialInTurn
<1>. QED
  BY <1>1, <1>2, <1>4 DEF AllInTurn

\* The reader goes on in the buffer, or gives it up, with no new header.
LEMMA BufferReadOn ==
  ASSUME NEW log, BufferHeld(log), ReaderFits, MarkFits, AllInTurn, sent \in Seq(Packets),
         UNCHANGED <<sent, wire>>, rcv'.buf = rcv.buf, rcv'.dataLen = rcv.dataLen,
         rcv'.ready => rcv.ready /\ rcv'.pos \in Nat /\ rcv.pos <= rcv'.pos,
         call'.op = "None" \/ rcv'.ready \/ ~rcv'.gotFirst,
         Mark' \in Nat, Mark' <= Mark, call'.op = "SecHeader" => rd'.pkt < call'.pkt
  PROVE  AllInTurn'
<1>1. Mark \in Nat /\ Mark <= Len(sent) /\ Len(sent) \in Nat
  BY MarkFacts
<1>2. InTurn(Mark', Len(sent), wire)
  BY <1>1, InTurnWider DEF AllInTurn
<1>3. BufferInTurn(Mark', rcv', wire)
  <2>1. SUFFICES ASSUME rcv'.ready PROVE BufferInTurn(Mark', rcv', wire)
    BY DEF BufferInTurn
  <2>2. /\ rcv.ready /\ rcv.dataLen \in Nat /\ rcv.pos \in Nat
        /\ \A i \in 0..(rcv.dataLen - 1) : rcv.buf[i][1] \in 1..Len(sent)
    BY <2>1, BufferUnits DEF BufferHeld
  <2>3. Contents(rcv') = Contents(rcv)
    BY DEF Contents
  <2>4. /\ Rising(Contents(rcv))
        /\ \A i \in 0..(rcv.dataLen - 1) : IsHead(rcv.buf[i]) =>
             HeadsAfter(rcv.buf[i][1], wire) /\ (rcv.pos <= i => Mark < rcv.buf[i][1])
    BY <2>2 DEF AllInTurn, BufferInTurn
  <2>5. ASSUME NEW i \in 0..(rcv.dataLen - 1), IsHead(rcv.buf[i]), rcv'.pos <= i
        PROVE  Mark' < rcv.buf[i][1]
    <3>1. PICK p : p = rcv.buf[i][1]
      OBVIOUS
    <3>2. rcv.pos <= i
      BY <2>1, <2>2, <2>5
    <3>3. Mark < p /\ p \in Nat
      BY <2>2, <2>4, <2>5, <3>1, <3>2
    <3>4. Mark' < p
      BY <1>1, <3>3
    <3>. QED
      BY <3>1, <3>4
  <2>. QED
    BY <2>3, <2>4, <2>5 DEF BufferInTurn
<1>4. Waiting' => PartialInTurn(Mark', rcv', wire)
  BY DEF Waiting, PartialInTurn
<1>. QED
  BY <1>2, <1>3, <1>4 DEF AllInTurn

\* At the head of a packet in the buffer.
AtHead(p) == rcv.ready /\ rcv.pos < rcv.dataLen /\ rcv.buf[rcv.pos] = <<p, 0>>

\* The header of the next packet in the buffer is read.
LEMMA BufferNextHeader ==
  ASSUME NEW log, BufferHeld(log), ReaderFits, MarkFits, AllInTurn, sent \in Seq(Packets),
         NEW p, AtHead(p),
         UNCHANGED <<sent, wire>>, rcv'.buf = rcv.buf, rcv'.dataLen = rcv.dataLen,
         rcv'.ready => rcv'.pos \in Nat /\ rcv.pos < rcv'.pos,
         call'.op = "None" \/ rcv'.ready \/ ~rcv'.gotFirst,
         Mark' = p
  PROVE  Mark < p /\ ((call'.op = "SecHeader" => rd'.pkt < call'.pkt) => AllInTurn')
<1>1. Mark \in Nat /\ Mark <= Len(sent) /\ Len(sent) \in Nat
  BY MarkFacts
<1>2. /\ rcv.dataLen \in Nat /\ rcv.pos \in Nat /\ Len(Contents(rcv)) = rcv.dataLen
      /\ \A i \in 1..rcv.dataLen : Contents(rcv)[i] = rcv.buf[i - 1]
      /\ \A i \in 0..(rcv.dataLen - 1) : rcv.buf[i][1] \in 1..Len(sent)
  BY BufferUnits DEF BufferHeld, AtHead
<1>3. /\ Rising(Contents(rcv))
      /\ \A i \in 0..(rcv.dataLen - 1) : IsHead(rcv.buf[i]) =>
           HeadsAfter(rcv.buf[i][1], wire) /\ (rcv.pos <= i => Mark < rcv.buf[i][1])
  BY DEF AllInTurn, BufferInTurn, AtHead
<1>4. PICK at : at = rcv.pos
  OBVIOUS
<1>5. /\ at \in 0..(rcv.dataLen - 1) /\ rcv.pos <= at
      /\ rcv.buf[at] = <<p, 0>> /\ IsHead(rcv.buf[at]) /\ rcv.buf[at][1] = p
  <2>1. at \in 0..(rcv.dataLen - 1) /\ rcv.pos <= at /\ rcv.buf[at] = <<p, 0>>
    BY <1>2, <1>4 DEF AtHead
  <2>. QED
    BY <2>1 DEF IsHead
<1>6. Mark < p /\ HeadsAfter(p, wire) /\ p \in 1..Len(sent)
  BY <1>2, <1>3, <1>5
<1>7. InTurn(p, Len(sent), wire)
  BY <1>6 DEF AllInTurn, InTurn
<1>8. BufferInTurn(p, rcv', wire)
  <2>1. SUFFICES ASSUME rcv'.ready PROVE BufferInTurn(p, rcv', wire)
    BY DEF BufferInTurn
  <2>2. Contents(rcv') = Contents(rcv)
    BY DEF Contents
  <2>3. ASSUME NEW i \in 0..(rcv.dataLen - 1), IsHead(rcv.buf[i]), rcv'.pos <= i
        PROVE  p < rcv.buf[i][1]
    <3>. DEFINE j == at + 1
                k == i + 1
    <3>1. j \in 1..rcv.dataLen /\ k \in 1..rcv.dataLen /\ j < k /\ j - 1 = at /\ k - 1 = i
      BY <1>2, <1>4, <1>5, <2>1, <2>3
    <3>. HIDE DEF j, k
    <3>2. Contents(rcv)[j] = rcv.buf[at] /\ Contents(rcv)[k] = rcv.buf[i]
      BY <1>2, <3>1
    <3>3. Contents(rcv)[j][1] < Contents(rcv)[k][1]
      BY <1>2, <1>3, <1>5, <2>3, <3>1, <3>2 DEF Rising
    <3>. QED
      BY <1>5, <3>2, <3>3
  <2>. QED
    BY <1>3, <2>2, <2>3 DEF BufferInTurn
<1>9. Waiting' => PartialInTurn(p, rcv', wire)
  BY DEF Waiting, PartialInTurn
<1>. QED
  BY <1>6, <1>7, <1>8, <1>9 DEF AllInTurn

\* Trouble is added to what there was.
TroubleKept ==
  mishaps' \in [n : Nat, kinds : SUBSET Mishap] /\ mishaps.kinds \subseteq mishaps'.kinds

LEMMA WentWrongKept ==
  ASSUME MarkFits, NEW kind \in Mishap, WentWrong(kind)
  PROVE  TroubleKept /\ kind \in mishaps'.kinds
<1>1. mishaps' = [n |-> mishaps.n + 1, kinds |-> mishaps.kinds \cup {kind}]
  BY DEF WentWrong
<1>. QED
  BY <1>1 DEF MarkFits, TroubleKept

LEMMA TroublesKept ==
  ASSUME MarkFits, NEW ds, mishaps' = [mishaps EXCEPT !.kinds = @ \cup Troubles(ds)]
  PROVE  TroubleKept
<1>1. Troubles(ds) \subseteq Mishap
  BY DEF Troubles, Mishap
<1>. QED
  BY <1>1 DEF MarkFits, TroubleKept

\* Packets are sent.
LEMMA SentInOrder ==
  ASSUME NEW m, NEW first, NEW log, Logged(m, first, log), BufferHeld(log), ReaderFits, OrderInv,
         NEW qs \in Seq(Packets), NEW ds, InTurn(Len(sent), Len(sent) + Len(qs), ds),
         sent' = sent \o qs, wire' = wire \o Numbered(ds, snd.seq), UNCHANGED <<rcv, rd, call>>,
         TroubleKept
  PROVE  OrderInv'
<1>1. sent \in Seq(Packets) /\ Len(sent) \in Nat /\ Len(qs) \in Nat /\ MarkFits
  BY DEF Logged, OrderInv
<1>2. Len(sent') = Len(sent) + Len(qs) /\ \A p \in 1..Len(sent) : sent'[p] = sent[p]
  BY <1>1, Behind
<1>3. InTurn(Len(sent), Len(sent'), Numbered(ds, snd.seq))
  <2>1. snd.seq \in Nat
    <3>1. first \in Nat /\ Len(log) \in Nat /\ SEQ_MOD \in Nat \ {0}
      BY NetAssumption DEF Logged, IsRun
    <3>. QED
      BY <3>1 DEF Logged
  <2>. QED
    BY <1>2, <2>1, NumberedInTurn
<1>4. MarkFits'
  <2>1. rd.pkt \in 0..Len(sent')
    BY <1>1, <1>2 DEF MarkFits
  <2>2. ASSUME rd.state = "ReadData" PROVE rd.plen = sent'[rd.pkt].len
    <3>1. rd.pkt \in 1..Len(sent)
      BY <2>2 DEF ReaderFits, DataAhead
    <3>2. rd.plen = sent[rd.pkt].len
      BY <1>1, <2>2 DEF MarkFits
    <3>3. sent'[rd.pkt] = sent[rd.pkt]
      BY <1>2, <3>1
    <3>. QED
      BY <3>2, <3>3
  <2>. QED
    BY <2>1, <2>2 DEF MarkFits, TroubleKept
<1>5. ASSUME InStep' PROVE AllInTurn'
  <2>1. AllInTurn
    <3>1. mishaps.kinds \subseteq mishaps'.kinds
      BY DEF TroubleKept
    <3>2. InStep
      BY <1>5, <3>1 DEF InStep
    <3>. QED
      BY <3>2 DEF OrderInv
  <2>2. Len(sent') \in Nat /\ Len(sent) <= Len(sent')
    BY <1>1, <1>2
  <2>. QED
    BY <1>1, <1>3, <2>1, <2>2, WireGrows
<1>. QED
  BY <1>4, <1>5 DEF OrderInv

LEMMA BurstOrder ==
  ASSUME NEW m, NEW first, NEW log, Logged(m, first, log), BufferHeld(log), ReaderFits, OrderInv,
         NEW b \in Bursts, NEW counts \in {Complete(b)} \cup CutShort(b),
         WriteNetStream(b, counts), UNCHANGED <<rd, call, ret>>
  PROVE  OrderInv'
<1>. DEFINE h == Handled(b)
            qs == SubSeq(b, 1, h)
<1>1. /\ b \in Seq(Packets) /\ sent \in Seq(Packets) /\ FewerThanNumbers(m) /\ MarkFits
  BY StreamAssumption DEF Logged, OrderInv
<1>2. h \in 0..Len(b) /\ qs \in Seq(Packets) /\ Len(qs) = h
  BY <1>1, HandledFacts
<1>3. PICK ds : ds = BurstOf(b, counts)
  OBVIOUS
<1>4. /\ sent' = sent \o qs /\ wire' = wire \o Numbered(ds, snd.seq)
      /\ UNCHANGED <<rcv, rd, call, ret>>
  BY <1>3 DEF WriteNetStream, BurstOf
<1>5. TroubleKept
  <2>1. CASE counts = Complete(b)
    BY <1>1, <1>3, <2>1, TroublesKept DEF WriteNetStream, BurstOf
  <2>2. CASE counts # Complete(b)
    <3>1. WentWrong("SendError") /\ "SendError" \in Mishap
      BY <2>2 DEF WriteNetStream, Mishap
    <3>. QED
      BY <1>1, <3>1, WentWrongKept
  <2>. QED
    BY <2>1, <2>2
<1>6. InTurn(Len(sent), Len(sent) + Len(qs), ds)
  BY <1>1, <1>2, <1>3, BurstInTurn
<1>. HIDE DEF qs, h
<1>. QED
  BY <1>2, <1>4, <1>5, <1>6, SentInOrder

LEMMA BundleOrder ==
  ASSUME NEW m, NEW first, NEW log, Logged(m, first, log), BufferHeld(log), ReaderFits, OrderInv,
         NEW b \in Bundles, RecorderSends(b), UNCHANGED <<rd, call, ret>>
  PROVE  OrderInv'
<1>1. b \in Seq(Packets) /\ sent \in Seq(Packets) /\ MarkFits
  BY StreamAssumption DEF Logged, OrderInv
<1>2. PICK data : data = FlattenSeq([i \in DOMAIN b |-> Units(Len(sent) + i, 0, b[i].len)])
  OBVIOUS
<1>3. PICK ds : ds = <<FullDatagram(data)>>
  OBVIOUS
<1>4. InTurn(Len(sent), Len(sent) + Len(b), ds)
  <2>1. DataInTurn(Len(sent), Len(sent) + Len(b), data)
    BY <1>1, <1>2, BundleInTurn
  <2>2. FullDatagram(data) \in Datagram /\ FullDatagram(data).data = data
    BY <2>1, NetAssumption DEF FullDatagram, Datagram, DataInTurn
  <2>. QED
    BY <1>3, <2>1, <2>2, OneInTurn
<1>5. /\ sent' = sent \o b /\ wire' = wire \o Numbered(ds, snd.seq)
      /\ UNCHANGED <<rcv, rd, call, ret>>
      /\ mishaps' = [mishaps EXCEPT !.kinds = @ \cup Troubles(ds)]
  BY <1>2, <1>3 DEF RecorderSends
<1>6. TroubleKept
  BY <1>1, <1>5, TroublesKept
<1>. QED
  BY <1>1, <1>4, <1>5, <1>6, SentInOrder

LEMMA NetworkOrder ==
  ASSUME NEW m, NEW first, NEW log, Logged(m, first, log), BufferHeld(log), ReaderFits, OrderInv,
         Network, UNCHANGED <<rd, call, ret>>
  PROVE  OrderInv'
<1>1. /\ UNCHANGED <<sent, snd, rcv, rd, call>> /\ MarkFits /\ Len(sent) \in Nat
      /\ wire \in Seq(Datagram)
  BY DEF Network, Logged, OrderInv
<1>2. ASSUME TroubleKept PROVE MarkFits' /\ (InStep' => AllInTurn)
  BY <1>1, <1>2 DEF MarkFits, TroubleKept, InStep, OrderInv
<1>3. ASSUME NEW i \in DOMAIN wire, Lose(i) PROVE OrderInv'
  <2>1. wire' = RemoveAt(wire, i) /\ WentWrong("Lost") /\ "Lost" \in Mishap
    BY <1>3 DEF Lose, Mishap
  <2>2. TroubleKept
    BY <1>1, <2>1, WentWrongKept
  <2>3. Thinned(wire, wire')
    <3>1. i \in 1..Len(wire)
      BY <1>1
    <3>. QED
      BY <1>1, <2>1, <3>1, AllButOne
  <2>. QED
    BY <1>1, <1>2, <2>2, <2>3, WireThins DEF OrderInv
<1>4. ASSUME NEW i, NEW j, Overtake(i, j) PROVE OrderInv'
  <2>1. WentWrong("Reordered") /\ "Reordered" \in Mishap
    BY <1>4 DEF Overtake, Mishap
  <2>2. TroubleKept /\ ~InStep'
    BY <1>1, <2>1, WentWrongKept DEF InStep
  <2>. QED
    BY <1>2, <2>2 DEF OrderInv
<1>5. ASSUME NEW i, NEW j, Duplicate(i, j) PROVE OrderInv'
  <2>1. WentWrong("Duplicated") /\ "Duplicated" \in Mishap
    BY <1>5 DEF Duplicate, Mishap
  <2>2. TroubleKept /\ ~InStep'
    BY <1>1, <2>1, WentWrongKept DEF InStep
  <2>. QED
    BY <1>2, <2>2 DEF OrderInv
<1>6. ASSUME NEW t \in {"Junk", "Short"}, Stray(t) PROVE OrderInv'
  <2>. DEFINE d == [seq |-> 0, type |-> t, off |-> 0, data |-> <<>>]
  <2>1. wire' = wire \o <<d>> /\ WentWrong("Stray") /\ "Stray" \in Mishap
    BY <1>1, <1>6 DEF Stray, Mishap
  <2>2. TroubleKept
    BY <1>1, <2>1, WentWrongKept
  <2>3. d \in Datagram /\ d.data = <<>>
    BY NetAssumption DEF Datagram
  <2>4. DataInTurn(Len(sent), Len(sent), d.data)
    BY <2>3 DEF DataInTurn, Rising
  <2>. HIDE DEF d
  <2>5. InTurn(Len(sent), Len(sent'), <<d>>)
    BY <1>1, <2>3, <2>4, OneInTurn
  <2>6. Len(sent') \in Nat /\ Len(sent) <= Len(sent')
    BY <1>1
  <2>. QED
    BY <1>1, <1>2, <2>1, <2>2, <2>5, <2>6, WireGrows DEF OrderInv
<1>. QED
  BY <1>3, <1>4, <1>5, <1>6 DEF Network

\* A step of the reader: nothing is sent, and no trouble comes up.
ReaderMoves == UNCHANGED <<sent, wire, mishaps>>

\* Then the invariant is as good as the buffer.
LEMMA ReaderMoved ==
  ASSUME OrderInv, ReaderMoves, rd'.pkt \in 0..Len(sent),
         rd'.state = "ReadData" => rd'.plen = sent[rd'.pkt].len,
         AllInTurn => AllInTurn'
  PROVE  OrderInv'
BY DEF OrderInv, MarkFits, InStep, ReaderMoves

LEMMA ReceivedOrder ==
  ASSUME NEW m, NEW first, NEW log, Logged(m, first, log), BufferHeld(log), ReaderFits, OrderInv,
         NetReceive
  PROVE  OrderInv'
<1>1. /\ Waiting /\ UNCHANGED <<sent, mishaps, rd, call>> /\ wire # <<>> /\ wire' = Tail(wire)
      /\ sent \in Seq(Packets) /\ MarkFits /\ MarkFits'
  BY DEF NetReceive, Receive, DropNext, Logged, OrderInv, MarkFits
<1>2. SUFFICES ASSUME AllInTurn PROVE AllInTurn'
  BY <1>1 DEF OrderInv, InStep
<1>3. /\ Mark \in Nat /\ Len(sent) \in Nat /\ InTurn(Mark, Len(sent), wire)
      /\ wire \in Seq(Datagram) /\ Mark' = Mark
  <2>1. Mark \in Nat /\ Len(sent) \in Nat
    BY <1>1, MarkFacts
  <2>2. InTurn(Mark, Len(sent), wire) /\ wire \in Seq(Datagram)
    BY <1>2 DEF AllInTurn, InTurn
  <2>3. Mark' = Mark
    BY <1>1 DEF Mark
  <2>. QED
    BY <2>1, <2>2, <2>3
<1>4. CASE Receive
  <2>1. ~rcv.ready /\ rcv' = Take(rcv, Head(wire)) /\ Head(wire).type # "Short"
    BY <1>4 DEF Receive
  <2>2. Held(rcv, log)
    BY <1>1 DEF BufferHeld, Held
  <2>3. Head(wire).type \in {"Full", "Seg"} => \E k \in 1..Len(log) : Head(wire) = log[k]
    <3>1. Head(wire) = wire[1] /\ 1 \in 1..Len(wire)
      BY <1>1, <1>3
    <3>. QED
      BY <3>1 DEF Logged
  <2>4. PartialInTurn(Mark, rcv, wire)
    BY <1>1, <1>2 DEF AllInTurn
  <2>5. ReceiverInTurn(Mark, rcv', Tail(wire))
    BY <1>1, <1>3, <2>1, <2>2, <2>3, <2>4, TakenInTurn
  <2>6. InTurn(Mark, Len(sent), Tail(wire))
    BY <1>1, <1>3, HeadInTurn
  <2>. QED
    BY <1>1, <1>2, <1>3, <2>5, <2>6 DEF AllInTurn, ReceiverInTurn
<1>5. CASE DropNext
  <2>1. rcv' = [rcv EXCEPT !.drop = FALSE] /\ IsReceiver(rcv)
    BY <1>5 DEF DropNext, BufferHeld
  <2>2. /\ rcv'.ready = rcv.ready /\ rcv'.gotFirst = rcv.gotFirst /\ rcv'.pos = rcv.pos
        /\ rcv'.dataLen = rcv.dataLen /\ rcv'.buf = rcv.buf
    BY <2>1 DEF IsReceiver, Receiver
  <2>3. Thinned(wire, wire')
    BY <1>1, <1>3, RestOfThem
  <2>. QED
    BY <1>1, <1>2, <2>2, <2>3, WireThins
<1>. QED
  BY <1>4, <1>5 DEF NetReceive

\* A read that fails keeps the header read last.
LEMMA FailedKeeps ==
  ASSUME ReaderFits, Waiting, NEW status, ReadFailed(status)
  PROVE  rd'.pkt = rd.pkt /\ rd'.state = "Unsynced" /\ call'.op = "None" /\ Mark' = rd.pkt
<1>1. /\ HEADER_SIZE \in Nat /\ SEC_HEADER_SIZE \in Nat
      /\ rd \in Reader /\ call.op \in {"Header", "SecHeader", "Data"}
  BY NetAssumption DEF ReaderFits, CallFits, Waiting
<1>2. PICK h : rd' = [rd EXCEPT !.state = "Unsynced", !.hlen = h]
  <2>1. CASE call.op = "Header"
    BY <1>1, <2>1 DEF ReadFailed
  <2>2. CASE call.op = "SecHeader"
    BY <1>1, <2>2 DEF ReadFailed
  <2>3. CASE call.op = "Data"
    BY <1>1, <2>3 DEF ReadFailed, Reader
  <2>. QED
    BY <1>1, <2>1, <2>2, <2>3
<1>3. rd'.pkt = rd.pkt /\ rd'.state = "Unsynced"
  BY <1>1, <1>2 DEF Reader
<1>4. call'.op = "None"
  BY DEF ReadFailed, Idle, Call
<1>. QED
  BY <1>3, <1>4 DEF Mark

\* The header read last is not after the one being read.
LEMMA LastNotAfterMark ==
  ASSUME ReaderFits, MarkFits, AllInTurn, sent \in Seq(Packets)
  PROVE  rd.pkt \in Nat /\ rd.pkt <= Mark
<1>1. rd.pkt \in Nat /\ Mark \in Nat
  BY MarkFacts DEF MarkFits
<1>2. CASE call.op = "SecHeader"
  BY <1>1, <1>2 DEF AllInTurn, Mark
<1>3. CASE call.op # "SecHeader"
  BY <1>1, <1>3 DEF Mark
<1>. QED
  BY <1>1, <1>2, <1>3

\* The reader keeps the header read last, and goes on in the buffer or gives it up.
LEMMA ReadOnOrder ==
  ASSUME NEW m, NEW first, NEW log, Logged(m, first, log), BufferHeld(log), ReaderFits, OrderInv,
         ReaderMoves, rd'.pkt = rd.pkt, rd'.state = "ReadData" => rd' = rd,
         call'.op # "SecHeader", rcv'.buf = rcv.buf, rcv'.dataLen = rcv.dataLen,
         rcv'.ready => rcv.ready /\ rcv'.pos \in Nat /\ rcv.pos <= rcv'.pos,
         call'.op = "None" \/ rcv'.ready \/ ~rcv'.gotFirst
  PROVE  OrderInv'
<1>1. sent \in Seq(Packets) /\ MarkFits /\ Mark' = rd.pkt
  BY DEF Logged, OrderInv, Mark
<1>2. ASSUME AllInTurn PROVE AllInTurn'
  <2>1. Mark' \in Nat /\ Mark' <= Mark
    BY <1>1, <1>2, LastNotAfterMark
  <2>. QED
    BY <1>1, <1>2, <2>1, BufferReadOn DEF ReaderMoves
<1>. QED
  BY <1>1, <1>2, ReaderMoved DEF MarkFits

LEMMA ReceiveFailedOrder ==
  ASSUME NEW m, NEW first, NEW log, Logged(m, first, log), BufferHeld(log), ReaderFits, OrderInv,
         NetReceiveFails
  PROVE  OrderInv'
<1>1. /\ Waiting /\ ReadFailed("READ_ERROR") /\ UNCHANGED <<sent, wire, mishaps>>
      /\ rcv' = DumpNetStream(rcv)
  BY DEF NetReceiveFails, ReceiveFails
<1>2. rd'.pkt = rd.pkt /\ rd'.state = "Unsynced" /\ call'.op = "None"
  BY <1>1, FailedKeeps
<1>3. IsReceiver(rcv') /\ ~rcv'.ready /\ rcv'.buf = rcv.buf /\ rcv'.dataLen = rcv.dataLen
  BY <1>1, DumpFacts DEF BufferHeld
<1>. QED
  BY <1>1, <1>2, <1>3, ReadOnOrder DEF ReaderMoves

LEMMA HeaderCalledOrder ==
  ASSUME NEW m, NEW first, NEW log, Logged(m, first, log), BufferHeld(log), ReaderFits, OrderInv,
         ReadNextHeader
  PROVE  OrderInv'
<1>1. UNCHANGED <<sent, wire, mishaps, rd>> /\ call'.op = "Header"
  BY DEF ReadNextHeader, Call
<1>2. PICK x : x = Skipped(rd)
  OBVIOUS
<1>3. IsReceiver(rcv) /\ rcv.pos \in Nat /\ rcv.dataLen \in Nat
  BY DEF BufferHeld, IsReceiver, Receiver
<1>4. /\ IsReceiver(x) /\ (x.ready => rcv.ready /\ x.pos \in Nat /\ rcv.pos <= x.pos)
      /\ x.buf = rcv.buf /\ x.dataLen = rcv.dataLen
  <2>1. CASE rd.state = "ReadData"
    <3>1. PICK n \in Nat : n = rd.plen - rd.hlen - rd.rpos
      <4>1. /\ rd.pkt \in 1..Len(sent) /\ rd.rpos = 0 /\ rd.hlen = HeaderLen(sent[rd.pkt])
            /\ rd.plen = sent[rd.pkt].len
        BY <2>1 DEF ReaderFits, DataAhead, OrderInv, MarkFits
      <4>2. sent[rd.pkt] \in Packets
        BY <4>1 DEF Logged
      <4>3. rd.plen \in Nat /\ rd.hlen \in Nat /\ rd.hlen <= rd.plen
        BY <4>1, <4>2, PacketFacts
      <4>. QED
        BY <4>1, <4>3
    <3>2. x = MoveReadPointer(rcv, n)
      BY <1>2, <2>1, <3>1 DEF Skipped
    <3>3. IsReceiver(x) /\ (x.ready => rcv.ready) /\ x.buf = rcv.buf /\ x.dataLen = rcv.dataLen
      <4>1. n \in Int
        OBVIOUS
      <4>. QED
        BY <1>3, <3>2, <4>1, MoveFacts
    <3>4. x.ready => x.pos = rcv.pos + n
      <4>1. CASE rcv.pos + n >= rcv.dataLen
        BY <1>3, <3>2, <4>1 DEF MoveReadPointer, IsReceiver, Receiver
      <4>2. CASE ~(rcv.pos + n >= rcv.dataLen)
        BY <1>3, <3>2, <4>2 DEF MoveReadPointer, IsReceiver, Receiver
      <4>. QED
        BY <4>1, <4>2
    <3>. QED
      BY <1>3, <3>3, <3>4
  <2>2. CASE rd.state # "ReadData"
    BY <1>2, <1>3, <2>2 DEF Skipped
  <2>. QED
    BY <2>1, <2>2
<1>5. /\ rcv'.buf = rcv.buf /\ rcv'.dataLen = rcv.dataLen
      /\ rcv'.ready => rcv.ready /\ rcv'.pos \in Nat /\ rcv.pos <= rcv'.pos
      /\ rcv'.ready \/ ~rcv'.gotFirst
  <2>1. rcv' = Begin(x)
    BY <1>2 DEF ReadNextHeader
  <2>. QED
    BY <1>4, <2>1, BeginFacts
<1>. QED
  BY <1>1, <1>5, ReadOnOrder DEF ReaderMoves

LEMMA DataCalledOrder ==
  ASSUME NEW m, NEW first, NEW log, Logged(m, first, log), BufferHeld(log), ReaderFits, OrderInv,
         NEW n, ReadData(n)
  PROVE  OrderInv'
<1>1. /\ call.op = "None" /\ UNCHANGED <<sent, wire, mishaps>> /\ rd \in Reader
      /\ IsReceiver(rcv) /\ rcv.pos \in Nat /\ rcv.pos <= rcv.pos
  BY DEF ReadData, ReaderFits, BufferHeld, IsReceiver, Receiver
<1>2. CASE rd' = [rd EXCEPT !.state = "Unsynced"] /\ UNCHANGED <<rcv, call>>
  <2>1. rd'.pkt = rd.pkt /\ rd'.state = "Unsynced"
    BY <1>1, <1>2 DEF Reader
  <2>. QED
    BY <1>1, <1>2, <2>1, ReadOnOrder DEF ReaderMoves
<1>3. CASE UNCHANGED <<rcv, rd, call>>
  BY <1>1, <1>3, ReadOnOrder DEF ReaderMoves
<1>4. CASE rcv' = Begin(rcv) /\ call' = Call("Data", ReadAmount, 0) /\ UNCHANGED rd
  <2>1. call'.op = "Data"
    BY <1>4 DEF Call
  <2>2. /\ rcv'.ready = rcv.ready /\ (rcv.ready => rcv' = rcv)
        /\ ~rcv.ready => rcv'.gotFirst = FALSE
        /\ rcv'.buf = rcv.buf /\ rcv'.dataLen = rcv.dataLen
    BY <1>1, <1>4, BeginFacts
  <2>. QED
    BY <1>1, <1>4, <2>1, <2>2, ReadOnOrder DEF ReaderMoves
<1>. QED
  BY <1>2, <1>3, <1>4 DEF ReadData

\* What is left of the buffer lies ahead.
LEMMA RestAhead ==
  ASSUME NEW log, BufferHeld(log), ReaderFits, Ready
  PROVE  /\ IsReceiver(Rest) /\ Rest.buf = rcv.buf /\ Rest.dataLen = rcv.dataLen /\ rcv.ready
         /\ Rest.pos \in Nat /\ rcv.pos \in Nat /\ rcv.pos <= Rest.pos
         /\ (Len(Got) > 0 => rcv.pos < Rest.pos) /\ Waiting
<1>1. /\ IsReceiver(Rest) /\ Rest.buf = rcv.buf /\ Rest.dataLen = rcv.dataLen
      /\ Len(Got) \in Nat /\ rcv.pos \in Nat /\ Rest.pos = rcv.pos + Len(Got)
  BY RestFacts
<1>. QED
  BY <1>1 DEF Ready

LEMMA ShortReadOrder ==
  ASSUME NEW m, NEW first, NEW log, Logged(m, first, log), BufferHeld(log), ReaderFits, OrderInv,
         ReadShort
  PROVE  OrderInv'
<1>1. Ready /\ rcv' = Rest /\ ReadFailed("EOF") /\ UNCHANGED <<sent, wire, mishaps>>
  BY DEF ReadShort
<1>2. /\ rcv'.buf = rcv.buf /\ rcv'.dataLen = rcv.dataLen /\ rcv.ready
      /\ rcv'.pos \in Nat /\ rcv.pos <= rcv'.pos /\ Waiting
  BY <1>1, RestAhead
<1>3. rd'.pkt = rd.pkt /\ rd'.state = "Unsynced" /\ call'.op = "None"
  BY <1>1, <1>2, FailedKeeps
<1>. QED
  BY <1>1, <1>2, <1>3, ReadOnOrder DEF ReaderMoves

LEMMA BadHeaderOrder ==
  ASSUME NEW m, NEW first, NEW log, Logged(m, first, log), BufferHeld(log), ReaderFits, OrderInv,
         Ready, UNCHANGED <<sent, wire, mishaps>>, NEW sync, HeaderBad(sync)
  PROVE  OrderInv'
<1>1. PICK x : x = Rest
  OBVIOUS
<1>2. /\ IsReceiver(x) /\ x.buf = rcv.buf /\ x.dataLen = rcv.dataLen /\ rcv.ready
      /\ x.pos \in Nat /\ rcv.pos <= x.pos /\ Waiting /\ rd \in Reader
  BY <1>1, RestAhead DEF ReaderFits
<1>3. CASE rcv' = x /\ ReadFailed("HEADER_CHKSUM_BAD")
  <2>1. rd'.pkt = rd.pkt /\ rd'.state = "Unsynced" /\ call'.op = "None"
    BY <1>2, <1>3, FailedKeeps
  <2>. QED
    BY <1>2, <1>3, <2>1, ReadOnOrder DEF ReaderMoves
<1>4. CASE /\ rcv' = DumpNetStream(x)
           /\ rd' = [rd EXCEPT !.state = "Unsynced"]
           /\ call' = Call("Header", HEADER_SIZE, 0)
  <2>1. ~rcv'.ready /\ ~rcv'.gotFirst /\ rcv'.buf = rcv.buf /\ rcv'.dataLen = rcv.dataLen
    BY <1>2, <1>4, DumpFacts
  <2>2. rd'.pkt = rd.pkt /\ rd'.state = "Unsynced" /\ call'.op = "Header"
    BY <1>2, <1>4 DEF Reader, Call
  <2>. QED
    BY <2>1, <2>2, ReadOnOrder DEF ReaderMoves
<1>. QED
  BY <1>1, <1>3, <1>4 DEF HeaderBad

LEMMA DataFinishedOrder ==
  ASSUME NEW m, NEW first, NEW log, Logged(m, first, log), BufferHeld(log), ReaderFits, OrderInv,
         FinishData
  PROVE  OrderInv'
<1>1. /\ Ready /\ rcv' = Rest /\ UNCHANGED <<sent, wire, mishaps>> /\ rd \in Reader
      /\ rd' = [rd EXCEPT !.state = "ReadHeader", !.rpos = call.want] /\ call' = Idle
  BY DEF FinishData, ReaderFits
<1>2. /\ rcv'.buf = rcv.buf /\ rcv'.dataLen = rcv.dataLen /\ rcv.ready
      /\ rcv'.pos \in Nat /\ rcv.pos <= rcv'.pos
  BY <1>1, RestAhead
<1>3. rd'.pkt = rd.pkt /\ rd'.state = "ReadHeader" /\ call'.op = "None"
  BY <1>1 DEF Reader, Idle, Call
<1>. QED
  BY <1>1, <1>2, <1>3, ReadOnOrder DEF ReaderMoves

\* A header with its sync pattern: the reader is at the head of its packet.
LEMMA HeaderAtHead ==
  ASSUME NEW log, BufferHeld(log), ReaderFits, sent \in Seq(Packets),
         Ready, Len(Got) = call.want, call.op = "Header", HeaderRead # 0
  PROVE  AtHead(HeaderRead) /\ HeaderRead \in 1..Len(sent) /\ rcv.pos < Rest.pos
<1>1. call.want = HEADER_SIZE /\ HEADER_SIZE \in Nat \ {0} /\ Len(Got) > 0
  BY NetAssumption DEF ReaderFits, CallFits
<1>2. /\ IsReceiver(rcv) /\ rcv.ready /\ WholePackets(sent, Contents(rcv))
      /\ rcv.pos \in Nat /\ rcv.dataLen \in Nat /\ rcv.pos < rcv.dataLen
      /\ Got = [i \in 1..Len(Got) |-> rcv.buf[rcv.pos + i - 1]]
  BY <1>1, RestFacts DEF Ready
<1>3. PICK at : at = rcv.pos
  OBVIOUS
<1>4. Got[1] = rcv.buf[at]
  <2>1. 1 \in 1..Len(Got) /\ at + 1 - 1 = at
    BY <1>1, <1>2, <1>3
  <2>2. Got[1] = rcv.buf[at + 1 - 1]
    BY <1>2, <1>3, <2>1
  <2>. QED
    BY <2>1, <2>2
<1>5. rcv.buf[at] \in Unit /\ rcv.buf[at][1] \in 1..Len(sent)
  <2>1. at \in 0..(rcv.dataLen - 1)
    BY <1>2, <1>3
  <2>2. rcv.buf[at][1] \in 1..Len(sent)
    BY <1>2, <2>1, BufferUnits
  <2>3. rcv.buf[at] \in Unit
    <3>. DEFINE j == at + 1
                data == Contents(rcv)
    <3>1. j \in 1..rcv.dataLen /\ j - 1 = at
      BY <1>2, <2>1
    <3>2. data \in Seq(Unit) /\ Len(data) = rcv.dataLen
          /\ \A k \in 1..rcv.dataLen : data[k] = rcv.buf[k - 1]
      BY <1>2, BufferUnits DEF WholePackets
    <3>. HIDE DEF j, data
    <3>3. data[j] \in Unit /\ data[j] = rcv.buf[at]
      BY <3>1, <3>2
    <3>. QED
      BY <3>3
  <2>. QED
    BY <2>2, <2>3
<1>6. Got[1][2] = 0 /\ HeaderRead = Got[1][1]
  BY DEF HeaderRead
<1>7. rcv.buf[at] = <<HeaderRead, 0>> /\ HeaderRead \in 1..Len(sent)
  BY <1>4, <1>5, <1>6 DEF Unit
<1>8. rcv.pos < Rest.pos
  BY <1>1, RestAhead
<1>. QED
  BY <1>2, <1>3, <1>7, <1>8 DEF AtHead

LEMMA HeaderFinishedOrder ==
  ASSUME NEW m, NEW first, NEW log, Logged(m, first, log), BufferHeld(log), ReaderFits, OrderInv,
         FinishHeader
  PROVE  OrderInv' /\ (AllInTurn /\ call'.op = "None" /\ ret'.status = "OK" => rd.pkt < rd'.pkt)
<1>1. PICK p : p = HeaderRead
  OBVIOUS
<1>2. PICK x : x = Rest
  OBVIOUS
<1>3. /\ Ready /\ call.op = "Header" /\ Len(Got) = call.want /\ UNCHANGED <<sent, wire, mishaps>>
      /\ sent \in Seq(Packets) /\ MarkFits /\ rd.pkt \in Nat /\ Mark = rd.pkt
  BY DEF FinishHeader, Logged, OrderInv, MarkFits, Mark
<1>4. /\ IsReceiver(x) /\ x.buf = rcv.buf /\ x.dataLen = rcv.dataLen /\ x.pos \in Nat
      /\ p # 0 => AtHead(p) /\ p \in 1..Len(sent) /\ rcv.pos < x.pos
  BY <1>1, <1>2, <1>3, RestAhead, HeaderAtHead
<1>5. CASE HeaderBad(p # 0)
  <2>1. PICK sync : sync = (p # 0)
    OBVIOUS
  <2>2. OrderInv'
    BY <1>3, <1>5, <2>1, BadHeaderOrder
  <2>3. call'.op = "None" => ret'.status # "OK"
    BY <1>5 DEF HeaderBad, ReadFailed, Returned, Call
  <2>. QED
    BY <2>2, <2>3
<1>6. CASE p # 0 /\ HeaderDone(x, p)
  <2>1. /\ rcv' = x /\ rd'.pkt = p /\ rd'.plen = sent[p].len /\ call'.op = "None" /\ Mark' = p
    BY <1>6 DEF HeaderDone, Idle, Call, Mark
  <2>2. AllInTurn => rd.pkt < p /\ AllInTurn'
    BY <1>3, <1>4, <1>6, <2>1, BufferNextHeader
  <2>3. rd'.pkt \in 0..Len(sent)
    BY <1>3, <1>4, <1>6, <2>1
  <2>4. OrderInv'
    BY <1>3, <2>1, <2>2, <2>3, ReaderMoved DEF ReaderMoves
  <2>. QED
    BY <2>1, <2>2, <2>4
<1>7. CASE /\ p # 0
           /\ rcv' = Begin(x)
           /\ call' = Call("SecHeader", SEC_HEADER_SIZE, p)
           /\ UNCHANGED <<rd, ret>>
  <2>1. call'.op = "SecHeader" /\ call'.pkt = p /\ Mark' = p
    BY <1>7 DEF Call, Mark
  <2>2. /\ rcv'.buf = rcv.buf /\ rcv'.dataLen = rcv.dataLen
        /\ rcv'.ready => rcv'.pos \in Nat /\ rcv.pos < rcv'.pos
        /\ rcv'.ready \/ ~rcv'.gotFirst
    BY <1>4, <1>7, BeginFacts
  <2>3. AllInTurn => rd.pkt < p /\ ((call'.op = "SecHeader" => rd'.pkt < call'.pkt) => AllInTurn')
    BY <1>3, <1>4, <1>7, <2>1, <2>2, BufferNextHeader
  <2>4. AllInTurn => AllInTurn'
    BY <1>7, <2>1, <2>3
  <2>5. OrderInv'
    BY <1>3, <1>7, <2>4, ReaderMoved DEF ReaderMoves, MarkFits
  <2>. QED
    BY <2>1, <2>5
<1>. QED
  BY <1>1, <1>2, <1>5, <1>6, <1>7 DEF FinishHeader

LEMMA SecHeaderFinishedOrder ==
  ASSUME NEW m, NEW first, NEW log, Logged(m, first, log), BufferHeld(log), ReaderFits, OrderInv,
         FinishSecHeader
  PROVE  OrderInv' /\ (AllInTurn /\ call'.op = "None" /\ ret'.status = "OK" => rd.pkt < rd'.pkt)
<1>1. /\ Ready /\ call.op = "SecHeader" /\ UNCHANGED <<sent, wire, mishaps>>
      /\ sent \in Seq(Packets) /\ MarkFits /\ call.pkt \in 1..Len(sent) /\ Mark = call.pkt
  BY DEF FinishSecHeader, Logged, OrderInv, ReaderFits, CallFits, Mark
<1>2. CASE HeaderBad(TRUE)
  <2>1. OrderInv'
    BY <1>1, <1>2, BadHeaderOrder
  <2>2. call'.op = "None" => ret'.status # "OK"
    BY <1>2 DEF HeaderBad, ReadFailed, Returned, Call
  <2>. QED
    BY <2>1, <2>2
<1>3. CASE HeaderDone(Rest, call.pkt)
  <2>1. PICK p : p = call.pkt
    OBVIOUS
  <2>2. /\ rcv' = Rest /\ rd'.pkt = p /\ rd'.plen = sent[p].len /\ call'.op = "None"
        /\ Mark' = p
    BY <1>3, <2>1 DEF HeaderDone, Idle, Call, Mark
  <2>3. /\ rcv'.buf = rcv.buf /\ rcv'.dataLen = rcv.dataLen /\ rcv.ready
        /\ rcv'.pos \in Nat /\ rcv.pos <= rcv'.pos
    BY <1>1, <2>2, RestAhead
  <2>4. Mark' \in Nat /\ Mark' <= Mark
    BY <1>1, <2>1, <2>2
  <2>5. AllInTurn => AllInTurn'
    BY <1>1, <2>2, <2>3, <2>4, BufferReadOn
  <2>6. rd'.pkt \in 0..Len(sent)
    BY <1>1, <2>1, <2>2
  <2>7. OrderInv'
    BY <1>1, <2>2, <2>5, <2>6, ReaderMoved DEF ReaderMoves
  <2>8. AllInTurn => rd.pkt < rd'.pkt
    BY <1>1, <2>1, <2>2 DEF AllInTurn
  <2>. QED
    BY <2>7, <2>8
<1>. QED
  BY <1>2, <1>3 DEF FinishSecHeader

LEMMA OrderStep ==
  ASSUME NEW m, StreamInv(m), OrderInv, [Next]_vars
  PROVE  OrderInv'
<1>1. PICK first, log : Logged(m, first, log) /\ BufferHeld(log) /\ ReaderFits
  BY DEF StreamInv
<1>2. CASE Send
  <2>1. ASSUME NEW b \in Bursts, NEW counts \in {Complete(b)} \cup CutShort(b),
               WriteNetStream(b, counts), UNCHANGED <<rd, call, ret>>
        PROVE  OrderInv'
    BY <1>1, <2>1, BurstOrder
  <2>2. ASSUME NEW b \in Bundles, RecorderSends(b), UNCHANGED <<rd, call, ret>>
        PROVE  OrderInv'
    BY <1>1, <2>2, BundleOrder
  <2>. QED
    BY <1>2, <2>1, <2>2 DEF Send
<1>3. CASE Deliver
  BY <1>1, <1>3, NetworkOrder DEF Deliver
<1>4. CASE ReadNextHeader
  BY <1>1, <1>4, HeaderCalledOrder
<1>5. ASSUME NEW n \in BuffSizes, ReadData(n) PROVE OrderInv'
  BY <1>1, <1>5, DataCalledOrder
<1>6. CASE NetReceive
  BY <1>1, <1>6, ReceivedOrder
<1>7. CASE NetReceiveFails
  BY <1>1, <1>7, ReceiveFailedOrder
<1>8. CASE ReadShort
  BY <1>1, <1>8, ShortReadOrder
<1>9. CASE FinishHeader
  BY <1>1, <1>9, HeaderFinishedOrder
<1>10. CASE FinishSecHeader
  BY <1>1, <1>10, SecHeaderFinishedOrder
<1>11. CASE FinishData
  BY <1>1, <1>11, DataFinishedOrder
<1>12. CASE UNCHANGED vars
  <2>1. UNCHANGED <<sent, wire, rcv, mishaps, rd, call>>
    BY <1>12 DEF vars
  <2>2. MarkFits' = MarkFits /\ InStep' = InStep
    BY <2>1 DEF MarkFits, InStep
  <2>3. AllInTurn => AllInTurn'
    <3>1. Mark' = Mark /\ Contents(rcv') = Contents(rcv)
      BY <2>1 DEF Mark, Contents
    <3>. QED
      BY <2>1, <3>1 DEF AllInTurn, BufferInTurn, PartialInTurn, Waiting
  <2>. QED
    BY <2>2, <2>3 DEF OrderInv
<1>. QED
  BY <1>2, <1>3, <1>4, <1>5, <1>6, <1>7, <1>8, <1>9, <1>10, <1>11, <1>12 DEF Next, Read

LEMMA OrderStart ==
  ASSUME Init
  PROVE  OrderInv
<1>1. /\ sent = <<>> /\ wire = <<>> /\ mishaps = [n |-> 0, kinds |-> {}]
      /\ rcv.ready = FALSE /\ rcv.gotFirst = FALSE
      /\ rd.pkt = 0 /\ rd.state = "ReadHeader" /\ call.op = "None"
  BY DEF Init, NetInit, Idle, Call
<1>2. MarkFits
  BY <1>1 DEF MarkFits
<1>3. InTurn(Mark, Len(sent), wire)
  BY <1>1 DEF InTurn, HeadsAfter, HeadsUpTo
<1>4. AllInTurn
  BY <1>1, <1>3 DEF AllInTurn, BufferInTurn, Waiting
<1>. QED
  BY <1>2, <1>4 DEF OrderInv

\* A header is returned by no other step than these.
LEMMA HeaderReturnedBy ==
  ASSUME Next, HeaderReturned
  PROVE  FinishHeader \/ FinishSecHeader
<1>0. call.op # "None" /\ call'.op = "None" /\ ret'.op = "Header" /\ ret'.status = "OK"
  BY DEF HeaderReturned
<1>1. ~Send /\ ~Deliver /\ ~NetReceive
  BY <1>0 DEF Send, Deliver, NetReceive
<1>2. ~ReadNextHeader /\ \A n \in BuffSizes : ~ReadData(n)
  BY <1>0 DEF ReadNextHeader, ReadData
<1>3. ~NetReceiveFails /\ ~ReadShort
  BY <1>0 DEF NetReceiveFails, ReadShort, ReadFailed, Returned
<1>4. ~FinishData
  BY <1>0 DEF FinishData, Returned
<1>. QED
  BY <1>1, <1>2, <1>3, <1>4 DEF Next, Read

\* Unless datagrams overtake each other or come twice, headers are returned in the order in
\* which their packets were sent and none twice, whatever is lost or dropped, in every such
\* session: what ReadNetStream gives up is never gone back to.
THEOREM HeadersKeepOrder ==
  ASSUME NEW m, FewerThanNumbers(m)
  PROVE  Spec => OrderKept
<1>1. Init => StreamInv(m) /\ OrderInv
  BY StreamStart, OrderStart
<1>2. StreamInv(m) /\ OrderInv /\ [Next]_vars => (StreamInv(m) /\ OrderInv)'
  BY StreamStep, OrderStep
<1>3. StreamInv(m) /\ OrderInv /\ [Next]_vars =>
        [HeaderReturned /\ mishaps.kinds \cap {"Reordered", "Duplicated"} = {}
           => rd'.pkt > rd.pkt]_vars
  <2>1. SUFFICES ASSUME StreamInv(m), OrderInv, Next, HeaderReturned, InStep
                 PROVE  rd'.pkt > rd.pkt
    BY DEF InStep
  <2>2. PICK first, log : Logged(m, first, log) /\ BufferHeld(log) /\ ReaderFits
    BY <2>1 DEF StreamInv
  <2>3. AllInTurn /\ MarkFits /\ rd.pkt \in Nat
    BY <2>1 DEF OrderInv, MarkFits
  <2>4. call.op # "None" /\ call'.op = "None" /\ ret'.op = "Header" /\ ret'.status = "OK"
    BY <2>1 DEF HeaderReturned
  <2>5. FinishHeader \/ FinishSecHeader
    BY <2>1, HeaderReturnedBy
  <2>6. rd.pkt < rd'.pkt
    <3>1. CASE FinishHeader
      BY <2>1, <2>2, <2>3, <2>4, <3>1, HeaderFinishedOrder
    <3>2. CASE FinishSecHeader
      BY <2>1, <2>2, <2>3, <2>4, <3>2, SecHeaderFinishedOrder
    <3>. QED
      BY <2>5, <3>1, <3>2
  <2>. QED
    BY <2>6
<1>. QED
  BY <1>1, <1>2, <1>3, PTL DEF Spec, OrderKept

-----------------------------------------------------------------------------
(* Nothing is skipped.                                                      *)

\* There is more of the packet than this part of it and those before.
Unfinished(ps, d) == d.type = "Seg" /\ d.off + Len(d.data) < ps[d.data[1][1]].len

\* Each datagram is of whole packets or a part of one, and what has been begun goes on in
\* the datagram behind it.
Linked(ps, ds) ==
  /\ ds \in Seq(Datagram)
  /\ \A k \in 1..Len(ds) :
       /\ ds[k].type = "Seg" \/ (ds[k].type = "Full" /\ ds[k].off = 0)
       /\ ds[k].data # <<>> /\ ds[k].data[1][1] \in 1..Len(ps)
       /\ Unfinished(ps, ds[k]) <=> (k < Len(ds) /\ ds[k + 1].off > 0)

\* The receiver drops no such datagram that comes when it is expected.
Taken(ds) ==
  \A k \in 1..Len(ds) :
    /\ Len(ds[k].data) <= RCV_BUFFER_START_SIZE
    /\ ds[k].type = "Seg" => HEADER_STRUCT <= Len(ds[k].data)
    /\ (k > 1 /\ ds[k].off > 0) => ds[k].seq = ds[k - 1].seq + 1

\* Packet p begins in ds.
OnItsWay(p, ds) == \E k \in 1..Len(ds) : \E i \in 1..Len(ds[k].data) : ds[k].data[i] = <<p, 0>>

\* It begins in the buffer, in what is not read yet or not yet whole.
InBuffer(p, r) ==
  IF r.ready THEN \E i \in 0..(r.dataLen - 1) : r.pos <= i /\ r.buf[i] = <<p, 0>>
             ELSE r.gotFirst /\ r.buf[0] = <<p, 0>>

AllAhead == \A p \in (Mark + 1)..Len(sent) : InBuffer(p, rcv) \/ OnItsWay(p, wire)

\* The receiver goes on with a packet when the next datagram does.
Expected ==
  /\ rcv.gotFirst <=> (wire # <<>> /\ wire[1].off > 0)
  /\ rcv.gotFirst => Waiting /\ ~rcv.ready /\ wire[1].seq = rcv.seq + 1
  /\ ~rcv.drop /\ RCV_BUFFER_START_SIZE <= rcv.bufLen

\* The next unit read is of a header.
HeaderDue ==
  \/ call.op = "Header"
  \/ call.op \in {"None", "Data"} /\ (rd.state # "ReadData" \/ rd.dlen = 0)

AtBorder ==
  HeaderDue /\ rcv.ready => rcv.pos < rcv.dataLen /\ IsHead(rcv.buf[rcv.pos])

SecAhead == call.op = "SecHeader" => call.pkt = rd.pkt + 1 /\ AtPlace(call.pkt, HEADER_SIZE)

NoneLost == Linked(sent, wire) /\ Taken(wire) /\ Expected /\ AtBorder /\ SecAhead /\ AllAhead

SkipInv == Flawless => NoneLost

-----------------------------------------------------------------------------
(* Reading on in the buffer.                                                *)

\* No unit of whole packets lies beyond the end of its packet.
LEMMA WholeBounded ==
  ASSUME NEW ps \in Seq(Packets), NEW data, WholePackets(ps, data), NEW i \in 1..Len(data)
  PROVE  data[i] \in Unit /\ data[i][2] < ps[data[i][1]].len
<1>. DEFINE n == Len(data) - 1
            T == {k \in Nat : k <= n => data[Len(data) - k][2] < ps[data[Len(data) - k][1]].len}
<1>1. data \in Seq(Unit) /\ Len(data) \in Nat \ {0} /\ n \in Nat
  BY DEF WholePackets
<1>2. \A j \in 1..Len(data) : /\ data[j] \in Unit /\ data[j][2] \in Nat
                              /\ data[j][1] \in 1..Len(ps) /\ ps[data[j][1]].len \in Nat
  <2>. SUFFICES ASSUME NEW j \in 1..Len(data)
                PROVE  /\ data[j] \in Unit /\ data[j][2] \in Nat
                       /\ data[j][1] \in 1..Len(ps) /\ ps[data[j][1]].len \in Nat
    OBVIOUS
  <2>1. data[j] \in Unit /\ data[j][1] \in 1..Len(ps)
    BY DEF WholePackets
  <2>2. data[j][2] \in Nat
    BY <2>1 DEF Unit
  <2>3. ps[data[j][1]] \in Packets
    BY <2>1
  <2>. QED
    BY <2>1, <2>2, <2>3, PacketFacts
<1>3. 0 \in T
  <2>1. data[Len(data)][2] = ps[data[Len(data)][1]].len - 1 /\ Len(data) \in 1..Len(data)
    BY <1>1 DEF WholePackets
  <2>. QED
    BY <1>1, <1>2, <2>1
<1>4. ASSUME NEW k \in 0..(n - 1), k \in T PROVE k + 1 \in T
  <2>. DEFINE j == Len(data) - k
  <2>1. j \in 2..Len(data) /\ j - 1 \in 1..Len(data) /\ j \in 1..Len(data) /\ j - 1 = Len(data) - (k + 1)
    BY <1>1
  <2>2. data[j][2] < ps[data[j][1]].len
    BY <1>4, <1>1
  <2>3. Joined(ps, data[j - 1], data[j])
    BY <2>1 DEF WholePackets
  <2>. HIDE DEF j
  <2>4. CASE data[j] = <<data[j - 1][1], data[j - 1][2] + 1>>
    <3>1. data[j][1] = data[j - 1][1] /\ data[j][2] = data[j - 1][2] + 1
      BY <2>4
    <3>2. data[j - 1][2] < ps[data[j - 1][1]].len
      BY <3>1, <2>2, <2>1, <1>2
    <3>. QED
      BY <3>2, <2>1
  <2>5. CASE data[j - 1][2] = ps[data[j - 1][1]].len - 1
    <3>1. data[j - 1][2] < ps[data[j - 1][1]].len
      BY <2>5, <2>1, <1>2
    <3>. QED
      BY <3>1, <2>1
  <2>. QED
    BY <2>3, <2>4, <2>5 DEF Joined
<1>5. \A k \in 0..n : k \in T
  <2>. HIDE DEF T
  <2>. QED
    BY <1>1, <1>3, <1>4, UpTo
<1>. QED
  <2>. DEFINE k == Len(data) - i
  <2>1. k \in 0..n /\ Len(data) - k = i /\ k \in Nat /\ k <= n
    BY <1>1
  <2>2. k \in T
    BY <2>1, <1>5
  <2>3. data[Len(data) - k][2] < ps[data[Len(data) - k][1]].len
    BY <2>1, <2>2
  <2>. QED
    BY <2>1, <2>3, <1>2

\* n units of packet p are read from place h on: of the packets that begin in the buffer
\* only p can be among them, and behind a whole packet another begins.
LEMMA ReadOver ==
  ASSUME sent \in Seq(Packets), NEW r, IsReceiver(r), WholePackets(sent, Contents(r)),
         r.pos < r.dataLen, NEW p, NEW h, r.buf[r.pos] = <<p, h>>,
         NEW n \in Nat, h + n <= sent[p].len
  PROVE  /\ p \in 1..Len(sent) /\ h \in Nat /\ r.pos \in Nat /\ r.dataLen \in Nat
         /\ h < sent[p].len /\ r.pos + n <= r.dataLen
         /\ \A j \in 0..(n - 1) : r.buf[r.pos + j] = <<p, h + j>>
         /\ \A i \in r.pos..(r.dataLen - 1) : IsHead(r.buf[i]) => r.pos + n <= i \/ r.buf[i] = <<p, 0>>
         /\ h > 0 => \A i \in r.pos..(r.dataLen - 1) : IsHead(r.buf[i]) => r.pos + n <= i
         /\ (h + n = sent[p].len /\ r.pos + n < r.dataLen) => IsHead(r.buf[r.pos + n])
         /\ (h + n < sent[p].len) => r.pos + n < r.dataLen /\ r.buf[r.pos + n] = <<p, h + n>>
<1>1. /\ r.pos \in Nat /\ r.dataLen \in Nat /\ Len(Contents(r)) = r.dataLen
      /\ \A i \in 1..r.dataLen : Contents(r)[i] = r.buf[i - 1]
  BY DEF IsReceiver, Receiver, Contents
<1>2. \A i \in 0..(r.dataLen - 1) : r.buf[i] \in Unit /\ r.buf[i][2] < sent[r.buf[i][1]].len
  <2>. SUFFICES ASSUME NEW i \in 0..(r.dataLen - 1)
                PROVE  r.buf[i] \in Unit /\ r.buf[i][2] < sent[r.buf[i][1]].len
    OBVIOUS
  <2>1. i + 1 \in 1..r.dataLen /\ Contents(r)[i + 1] = r.buf[i]
    BY <1>1
  <2>. QED
    BY <2>1, <1>1, WholeBounded
<1>3. r.pos \in 0..(r.dataLen - 1) /\ r.buf[r.pos][1] = p /\ r.buf[r.pos][2] = h
  BY <1>1
<1>4. h \in Nat /\ h < sent[p].len
  BY <1>2, <1>3 DEF Unit
<1>5. /\ p \in 1..Len(sent)
      /\ \A j \in 0..(sent[p].len - h - 1) :
           r.pos + j < r.dataLen /\ r.buf[r.pos + j] = <<p, h + j>>
  <2>. DEFINE i == r.pos
  <2>1. i \in Nat /\ i < r.dataLen /\ r.buf[i] = <<p, h>> /\ h < sent[p].len
    BY <1>1, <1>4
  <2>. HIDE DEF i
  <2>2. /\ p \in 1..Len(sent)
        /\ \A j \in 0..(sent[p].len - h - 1) : i + j < r.dataLen /\ r.buf[i + j] = <<p, h + j>>
    BY <2>1, RestOfPacket
  <2>. QED
    BY <2>2 DEF i
<1>6. sent[p].len \in Nat \ {0}
  <2>1. sent[p] \in Packets
    BY <1>5
  <2>. QED
    BY <2>1, PacketFacts
<1>7. \A j \in 0..(n - 1) : r.pos + j < r.dataLen /\ r.buf[r.pos + j] = <<p, h + j>>
  <2>. SUFFICES ASSUME NEW j \in 0..(n - 1)
                PROVE  r.pos + j < r.dataLen /\ r.buf[r.pos + j] = <<p, h + j>>
    OBVIOUS
  <2>1. j \in 0..(sent[p].len - h - 1)
    BY <1>4, <1>6
  <2>. QED
    BY <2>1, <1>5
<1>8. r.pos + n <= r.dataLen
  <2>1. CASE n = 0
    BY <2>1, <1>1
  <2>2. CASE n # 0
    <3>1. n - 1 \in 0..(n - 1)
      BY <2>2
    <3>2. r.pos + (n - 1) < r.dataLen
      BY <3>1, <1>7
    <3>. QED
      BY <3>2, <1>1
  <2>. QED
    BY <2>1, <2>2
<1>9. ASSUME NEW i \in r.pos..(r.dataLen - 1), IsHead(r.buf[i]), ~(r.pos + n <= i)
      PROVE  h = 0 /\ r.buf[i] = <<p, 0>>
  <2>1. i - r.pos \in 0..(n - 1) /\ r.pos + (i - r.pos) = i
    BY <1>1, <1>9
  <2>2. r.buf[i] = <<p, h + (i - r.pos)>>
    BY <2>1, <1>7
  <2>3. h + (i - r.pos) = 0
    BY <2>2, <1>9 DEF IsHead
  <2>. QED
    BY <2>1, <2>2, <2>3, <1>4
<1>10. ASSUME h + n = sent[p].len, r.pos + n < r.dataLen PROVE IsHead(r.buf[r.pos + n])
  <2>. DEFINE j == sent[p].len - h - 1
              i == r.pos + n
  <2>0. \A l \in Nat : h < l /\ h + n = l =>
          l - h - 1 \in 0..(l - h - 1) /\ r.pos + (l - h - 1) = i - 1 /\ h + (l - h - 1) = l - 1
    BY <1>4, <1>1
  <2>1. j \in 0..(sent[p].len - h - 1) /\ r.pos + j = i - 1 /\ h + j = sent[p].len - 1
    BY <2>0, <1>4, <1>6, <1>10
  <2>2. r.buf[i - 1] = <<p, sent[p].len - 1>>
    BY <2>1, <1>5
  <2>3. i + 1 \in 2..r.dataLen /\ i \in 1..r.dataLen /\ i \in 0..(r.dataLen - 1) /\ i + 1 \in 1..r.dataLen
    BY <2>1, <1>1, <1>10
  <2>4. Contents(r)[i + 1] = r.buf[i] /\ Contents(r)[i] = r.buf[i - 1]
    BY <2>3, <1>1
  <2>5. Joined(sent, r.buf[i - 1], r.buf[i])
    <3>1. Joined(sent, Contents(r)[i + 1 - 1], Contents(r)[i + 1])
      BY <2>3, <1>1 DEF WholePackets
    <3>2. i + 1 - 1 = i
      BY <2>3
    <3>. QED
      BY <3>1, <3>2, <2>4
  <2>6. r.buf[i] # <<p, sent[p].len>>
    <3>1. ASSUME r.buf[i] = <<p, sent[p].len>> PROVE FALSE
      <4>1. r.buf[i][1] = p /\ r.buf[i][2] = sent[p].len
        BY <3>1
      <4>. QED
        BY <4>1, <2>3, <1>2, <1>6
    <3>. QED
      BY <3>1
  <2>7. r.buf[i - 1][1] = p /\ r.buf[i - 1][2] = sent[p].len - 1
    BY <2>2
  <2>8. r.buf[i - 1][2] + 1 = sent[p].len
    BY <2>7, <1>6
  <2>9. CASE r.buf[i] = <<r.buf[i - 1][1], r.buf[i - 1][2] + 1>>
    BY <2>9, <2>6, <2>7, <2>8
  <2>10. CASE r.buf[i][2] = 0
    BY <2>10 DEF IsHead
  <2>. QED
    BY <2>5, <2>9, <2>10 DEF Joined
<1>11. ASSUME h + n < sent[p].len PROVE r.pos + n < r.dataLen /\ r.buf[r.pos + n] = <<p, h + n>>
  <2>1. n \in 0..(sent[p].len - h - 1)
    BY <1>11, <1>4, <1>6
  <2>. QED
    BY <2>1, <1>5
<1>12. \A i \in r.pos..(r.dataLen - 1) : IsHead(r.buf[i]) =>
         r.pos + n <= i \/ (h = 0 /\ r.buf[i] = <<p, 0>>)
  BY <1>9, Zenon
<1>13. \A j \in 0..(n - 1) : r.buf[r.pos + j] = <<p, h + j>>
  BY <1>7, Zenon
<1>14. h > 0 => \A i \in r.pos..(r.dataLen - 1) : IsHead(r.buf[i]) => r.pos + n <= i
  BY <1>12
<1>15. \A i \in r.pos..(r.dataLen - 1) : IsHead(r.buf[i]) => r.pos + n <= i \/ r.buf[i] = <<p, 0>>
  BY <1>12, Zenon
<1>. QED
  BY <1>1, <1>4, <1>5, <1>8, <1>13, <1>14, <1>15, <1>10, <1>11, Zenon

\* The buffer is read or skipped up to where no packet begins that is after the mark.
LEMMA NoneLeftBehind ==
  ASSUME NoneLost, UNCHANGED <<sent, wire>>, ~rcv.gotFirst, ~rcv'.gotFirst,
         rcv'.drop = rcv.drop, rcv'.bufLen = rcv.bufLen, rcv'.buf = rcv.buf,
         rcv'.dataLen = rcv.dataLen, rcv.pos \in Nat, rcv.dataLen \in Nat,
         Mark \in Nat, Mark' \in Nat, Mark <= Mark', sent \in Seq(Packets),
         rcv.ready => \A i \in rcv.pos..(rcv.dataLen - 1) : IsHead(rcv.buf[i]) =>
                        (rcv'.ready /\ rcv'.pos <= i) \/ rcv.buf[i][1] <= Mark'
  PROVE  (Linked(sent, wire) /\ Taken(wire) /\ Expected /\ AllAhead)'
<1>1. Linked(sent, wire)' /\ Taken(wire)'
  BY DEF NoneLost, Linked, Taken, Unfinished
<1>2. Expected'
  BY DEF NoneLost, Expected
<1>3. AllAhead'
  <2>. SUFFICES ASSUME NEW p \in (Mark' + 1)..Len(sent)
                PROVE  InBuffer(p, rcv') \/ OnItsWay(p, wire)
    BY DEF AllAhead
  <2>1. p \in (Mark + 1)..Len(sent) /\ p \in Nat /\ ~(p <= Mark')
    <3>1. \A a, b, l \in Nat : a <= b =>
            \A q \in (b + 1)..l : q \in (a + 1)..l /\ q \in Nat /\ ~(q <= b)
      OBVIOUS
    <3>2. Len(sent) \in Nat
      OBVIOUS
    <3>. QED
      BY <3>1, <3>2, Zenon
  <2>2. InBuffer(p, rcv) \/ OnItsWay(p, wire)
    BY <2>1 DEF NoneLost, AllAhead
  <2>3. CASE InBuffer(p, rcv)
    <3>1. rcv.ready
      BY <2>3 DEF InBuffer
    <3>2. PICK i \in 0..(rcv.dataLen - 1) : rcv.pos <= i /\ rcv.buf[i] = <<p, 0>>
      BY <2>3, <3>1 DEF InBuffer
    <3>3. i \in rcv.pos..(rcv.dataLen - 1) /\ IsHead(rcv.buf[i]) /\ rcv.buf[i][1] = p
      BY <3>2 DEF IsHead
    <3>4. rcv'.ready /\ rcv'.pos <= i
      BY <3>1, <3>3, <2>1
    <3>. QED
      BY <3>2, <3>4 DEF InBuffer
  <2>. QED
    BY <2>2, <2>3
<1>. QED
  BY <1>1, <1>2, <1>3

\* With nothing lost, a buffer in which a packet is begun is not ready.
LEMMA BufferFacts ==
  ASSUME NEW m, NEW first, NEW log, Logged(m, first, log), BufferHeld(log), ReaderFits, OrderInv,
         NoneLost
  PROVE  /\ sent \in Seq(Packets) /\ IsReceiver(rcv) /\ rcv.pos \in Nat /\ rcv.dataLen \in Nat
         /\ Mark \in Nat /\ MarkFits /\ rd \in Reader
         /\ rcv.ready => WholePackets(sent, Contents(rcv))
         /\ (rcv.ready \/ call.op = "None") => ~rcv.gotFirst
<1>1. sent \in Seq(Packets) /\ IsReceiver(rcv) /\ rd \in Reader /\ MarkFits
  BY DEF Logged, BufferHeld, ReaderFits, OrderInv
<1>2. rcv.pos \in Nat /\ rcv.dataLen \in Nat
  BY <1>1 DEF IsReceiver, Receiver
<1>3. Mark \in Nat
  BY <1>1, MarkFacts
<1>4. (rcv.ready \/ call.op = "None") => ~rcv.gotFirst
  BY DEF NoneLost, Expected, Waiting
<1>. QED
  BY <1>1, <1>2, <1>3, <1>4 DEF BufferHeld

\* The rest of the packet whose header was read is passed over.
LEMMA DataPassed ==
  ASSUME NEW m, NEW first, NEW log, Logged(m, first, log), BufferHeld(log), ReaderFits, OrderInv,
         NoneLost, rd.state = "ReadData", call.op \in {"None", "Data"}
  PROVE  /\ rd.dlen \in Nat /\ rd.plen - rd.hlen - rd.rpos = rd.dlen
         /\ (rcv.ready \/ rd.dlen > 0) =>
              /\ rcv.ready /\ rcv.pos + rd.dlen <= rcv.dataLen
              /\ \A i \in rcv.pos..(rcv.dataLen - 1) : IsHead(rcv.buf[i]) => rcv.pos + rd.dlen <= i
              /\ rcv.pos + rd.dlen < rcv.dataLen => IsHead(rcv.buf[rcv.pos + rd.dlen])
<1>. DEFINE p == rd.pkt
            h == rd.hlen
            n == rd.dlen
<1>1. /\ sent \in Seq(Packets) /\ IsReceiver(rcv) /\ rcv.pos \in Nat /\ rcv.dataLen \in Nat
      /\ MarkFits /\ rd \in Reader
      /\ rcv.ready => WholePackets(sent, Contents(rcv))
  BY BufferFacts
<1>2. /\ p \in 1..Len(sent) /\ rd.rpos = 0 /\ h = HeaderLen(sent[p]) /\ n = sent[p].len - h
      /\ n > 0 => AtPlace(p, h)
  BY DEF ReaderFits, DataAhead
<1>3. n \in Nat /\ h \in Nat \ {0} /\ sent[p].len \in Nat /\ rd.plen = sent[p].len
  <2>1. sent[p] \in Packets
    BY <1>1, <1>2
  <2>2. rd.plen = sent[p].len
    BY <1>1 DEF MarkFits
  <2>. QED
    BY <2>1, <2>2, <1>1, <1>2, PacketFacts DEF Reader
<1>4. h + n = sent[p].len /\ rd.plen - h - rd.rpos = n
  BY <1>2, <1>3
<1>5. CASE n > 0
  <2>. DEFINE r == rcv
  <2>1. rcv.ready /\ rcv.pos < rcv.dataLen /\ rcv.buf[rcv.pos] = <<p, h>>
    BY <1>2, <1>5 DEF AtPlace
  <2>2. /\ rcv.pos + n <= rcv.dataLen
        /\ h > 0 => \A i \in rcv.pos..(rcv.dataLen - 1) : IsHead(rcv.buf[i]) => rcv.pos + n <= i
        /\ (h + n = sent[p].len /\ rcv.pos + n < rcv.dataLen) => IsHead(rcv.buf[rcv.pos + n])
    <3>1. WholePackets(sent, Contents(rcv)) /\ h + n <= sent[p].len
      BY <1>1, <2>1, <1>4, <1>3
    <3>. HIDE DEF p, h, n
    <3>. QED
      BY <1>1, <2>1, <3>1, <1>3, ReadOver
  <2>. QED
    BY <2>1, <2>2, <1>3, <1>4
<1>6. CASE ~(n > 0)
  <2>1. n = 0
    BY <1>6, <1>3
  <2>2. rcv.ready => rcv.pos < rcv.dataLen /\ IsHead(rcv.buf[rcv.pos])
    BY <2>1 DEF NoneLost, AtBorder, HeaderDue
  <2>3. rcv.pos + n = rcv.pos
    BY <2>1, <1>1
  <2>. QED
    BY <2>1, <2>2, <2>3, <1>1, <1>3, <1>4
<1>. QED
  BY <1>5, <1>6

\* The next header is called for.
LEMMA HeaderCalledAhead ==
  ASSUME NEW m, NEW first, NEW log, Logged(m, first, log), BufferHeld(log), ReaderFits, OrderInv,
         NoneLost, ReadNextHeader
  PROVE  NoneLost'
<1>1. /\ sent \in Seq(Packets) /\ IsReceiver(rcv) /\ rcv.pos \in Nat /\ rcv.dataLen \in Nat
      /\ Mark \in Nat /\ rd \in Reader /\ ~rcv.gotFirst
  BY BufferFacts DEF ReadNextHeader
<1>2. /\ call.op = "None" /\ rcv' = Begin(Skipped(rd)) /\ call' = Call("Header", HEADER_SIZE, 0)
      /\ UNCHANGED <<sent, snd, wire, mishaps, rd>>
  BY DEF ReadNextHeader
<1>3. call'.op = "Header" /\ Mark' = Mark /\ Mark' \in Nat
  BY <1>1, <1>2 DEF Call, Mark
<1>. DEFINE x == Skipped(rd)
            n == IF rd.state = "ReadData" THEN rd.dlen ELSE 0
<1>4. /\ IsReceiver(x) /\ x.gotFirst = rcv.gotFirst /\ x.drop = rcv.drop /\ x.bufLen = rcv.bufLen
      /\ x.buf = rcv.buf /\ x.dataLen = rcv.dataLen
  <2>1. CASE rd.state = "ReadData"
    <3>1. x = MoveReadPointer(rcv, rd.dlen) /\ rd.dlen \in Int
      BY <2>1, <1>2, DataPassed DEF Skipped
    <3>2. IsReceiver(MoveReadPointer(rcv, rd.dlen))
      BY <1>1, <3>1, MoveFacts
    <3>. QED
      BY <1>1, <3>1, <3>2 DEF MoveReadPointer, IsReceiver, Receiver
  <2>2. CASE rd.state # "ReadData"
    BY <2>2, <1>1 DEF Skipped
  <2>. QED
    BY <2>1, <2>2
<1>5. x.ready => /\ rcv.ready /\ rcv.pos + n < rcv.dataLen /\ x.pos = rcv.pos + n
                 /\ IsHead(rcv.buf[rcv.pos + n])
  <2>1. CASE rd.state = "ReadData"
    <3>1. /\ x = MoveReadPointer(rcv, rd.dlen) /\ rd.dlen \in Nat
          /\ (rcv.ready /\ rcv.pos + rd.dlen < rcv.dataLen) => IsHead(rcv.buf[rcv.pos + rd.dlen])
      BY <2>1, <1>2, DataPassed DEF Skipped
    <3>2. ~(rcv.pos + rd.dlen < 0) /\ n = rd.dlen
      BY <3>1, <1>1, <2>1
    <3>3. CASE rcv.pos + rd.dlen >= rcv.dataLen
      <4>1. x.ready = FALSE
        BY <3>1, <3>2, <3>3, <1>1 DEF MoveReadPointer, IsReceiver, Receiver
      <4>. QED
        BY <4>1
    <3>4. CASE ~(rcv.pos + rd.dlen >= rcv.dataLen)
      <4>1. x = [rcv EXCEPT !.pos = @ + rd.dlen]
        BY <3>1, <3>2, <3>4 DEF MoveReadPointer
      <4>2. x.ready = rcv.ready /\ x.pos = rcv.pos + rd.dlen
        BY <4>1, <1>1 DEF IsReceiver, Receiver
      <4>. QED
        BY <4>2, <3>1, <3>2, <3>4, <1>1
    <3>. QED
      BY <3>3, <3>4
  <2>2. CASE rd.state # "ReadData"
    <3>1. x = rcv /\ n = 0 /\ HeaderDue
      BY <2>2, <1>2 DEF Skipped, HeaderDue
    <3>2. rcv.pos + n = rcv.pos
      BY <3>1, <1>1
    <3>. QED
      BY <3>1, <3>2 DEF NoneLost, AtBorder
  <2>. QED
    BY <2>1, <2>2
<1>6. rcv.ready => \A i \in rcv.pos..(rcv.dataLen - 1) : IsHead(rcv.buf[i]) =>
                     x.ready /\ x.pos <= i
  <2>1. CASE rd.state = "ReadData"
    <3>1. /\ x = MoveReadPointer(rcv, rd.dlen) /\ rd.dlen \in Nat
          /\ rcv.ready => \A i \in rcv.pos..(rcv.dataLen - 1) : IsHead(rcv.buf[i]) => rcv.pos + rd.dlen <= i
      BY <2>1, <1>2, DataPassed DEF Skipped
    <3>2. ~(rcv.pos + rd.dlen < 0)
      BY <3>1, <1>1
    <3>3. SUFFICES ASSUME rcv.ready, NEW i \in rcv.pos..(rcv.dataLen - 1), IsHead(rcv.buf[i])
                   PROVE  x.ready /\ x.pos <= i
      OBVIOUS
    <3>4. rcv.pos + rd.dlen <= i /\ ~(rcv.pos + rd.dlen >= rcv.dataLen)
      BY <3>1, <3>3, <1>1
    <3>5. x = [rcv EXCEPT !.pos = @ + rd.dlen]
      BY <3>1, <3>2, <3>4 DEF MoveReadPointer
    <3>. QED
      BY <3>5, <3>4, <3>3, <1>1 DEF IsReceiver, Receiver
  <2>2. CASE rd.state # "ReadData"
    <3>1. x = rcv
      BY <2>2 DEF Skipped
    <3>. QED
      BY <3>1, <1>1
  <2>. QED
    BY <2>1, <2>2
<1>. HIDE DEF x, n
<1>7. /\ rcv'.ready = x.ready /\ (x.ready => rcv' = x) /\ ~rcv'.gotFirst
      /\ rcv'.drop = rcv.drop /\ rcv'.bufLen = rcv.bufLen /\ rcv'.buf = rcv.buf
      /\ rcv'.dataLen = rcv.dataLen
  <2>1. rcv' = Begin(x)
    BY <1>2 DEF x
  <2>2. CASE x.ready
    <3>1. rcv' = x
      BY <2>1, <2>2 DEF Begin
    <3>. QED
      BY <3>1, <1>4, <1>1
  <2>3. CASE ~x.ready
    <3>1. rcv' = DumpNetStream(x)
      BY <2>1, <2>3 DEF Begin
    <3>2. x.ready = FALSE
      BY <2>3, <1>4 DEF IsReceiver, Receiver
    <3>. QED
      BY <3>1, <3>2, <1>4, DumpFacts
  <2>. QED
    BY <2>2, <2>3
<1>8. (Linked(sent, wire) /\ Taken(wire) /\ Expected /\ AllAhead)'
  <2>1. rcv.ready => \A i \in rcv.pos..(rcv.dataLen - 1) : IsHead(rcv.buf[i]) =>
                       (rcv'.ready /\ rcv'.pos <= i) \/ rcv.buf[i][1] <= Mark'
    BY <1>6, <1>7
  <2>2. Mark <= Mark' /\ UNCHANGED <<sent, wire>>
    BY <1>1, <1>2, <1>3
  <2>. QED
    BY <2>1, <2>2, <1>1, <1>3, <1>7, NoneLeftBehind
<1>9. AtBorder'
  BY <1>1, <1>5, <1>7, <1>4 DEF AtBorder
<1>10. SecAhead'
  BY <1>3 DEF SecAhead
<1>. QED
  BY <1>8, <1>9, <1>10 DEF NoneLost

\* Data is called for.
LEMMA DataCalledAhead ==
  ASSUME NEW m, NEW first, NEW log, Logged(m, first, log), BufferHeld(log), ReaderFits, OrderInv,
         NoneLost, NEW n, ReadData(n)
  PROVE  NoneLost'
<1>1. /\ sent \in Seq(Packets) /\ IsReceiver(rcv) /\ rcv.pos \in Nat /\ rcv.dataLen \in Nat
      /\ Mark \in Nat /\ rd \in Reader /\ ~rcv.gotFirst
  BY BufferFacts DEF ReadData
<1>2. call.op = "None" /\ UNCHANGED <<sent, wire>>
  BY DEF ReadData
<1>3. /\ call'.op \in {"None", "Data"} /\ rd'.pkt = rd.pkt
      /\ call'.op = "Data" => rd' = rd
      /\ rd'.state # "ReadData" \/ rd' = rd
      /\ rcv' = rcv \/ rcv' = Begin(rcv)
      /\ rd' = rd \/ rd.state # "ReadData"
  <2>1. CASE rd.state # "ReadData"
    BY <2>1, <1>1, <1>2 DEF ReadData, Reader
  <2>2. CASE rd.state = "ReadData"
    BY <2>2, <1>2 DEF ReadData, Call
  <2>. QED
    BY <2>1, <2>2
<1>4. Mark' = Mark
  BY <1>2, <1>3 DEF Mark
<1>5. /\ rcv'.ready = rcv.ready /\ (rcv.ready => rcv' = rcv) /\ ~rcv'.gotFirst
      /\ rcv'.drop = rcv.drop /\ rcv'.bufLen = rcv.bufLen /\ rcv'.buf = rcv.buf
      /\ rcv'.dataLen = rcv.dataLen
  <2>1. CASE rcv' = rcv
    BY <2>1, <1>1
  <2>2. CASE rcv' = Begin(rcv)
    BY <2>2, <1>1, BeginFacts, DumpFacts DEF Begin
  <2>. QED
    BY <2>1, <2>2, <1>3
<1>6. (Linked(sent, wire) /\ Taken(wire) /\ Expected /\ AllAhead)'
  <2>1. rcv.ready => \A i \in rcv.pos..(rcv.dataLen - 1) : IsHead(rcv.buf[i]) =>
                       (rcv'.ready /\ rcv'.pos <= i) \/ rcv.buf[i][1] <= Mark'
    BY <1>5, <1>1
  <2>2. Mark <= Mark' /\ Mark' \in Nat
    BY <1>1, <1>4
  <2>. QED
    BY <2>1, <2>2, <1>1, <1>2, <1>5, NoneLeftBehind
<1>7. AtBorder'
  <2>1. HeaderDue' => HeaderDue
    BY <1>2, <1>3 DEF HeaderDue
  <2>. QED
    BY <2>1, <1>5 DEF NoneLost, AtBorder
<1>8. SecAhead'
  BY <1>3 DEF SecAhead
<1>. QED
  BY <1>6, <1>7, <1>8 DEF NoneLost

LEMMA AllCopied ==
  ASSUME NEW r, IsReceiver(r), NEW want \in Nat, r.pos + want <= r.dataLen
  PROVE  Len(Copied(r, want)) = want
<1>. DEFINE all == [i \in 1..r.dataLen |-> r.buf[i - 1]]
            from == r.pos + 1
            to == r.pos + want
            S == {all[i] : i \in 1..r.dataLen}
<1>1. r.pos \in Nat /\ r.dataLen \in Nat
  BY DEF IsReceiver, Receiver
<1>2. MinOf(r.dataLen, to) = to
  BY <1>1 DEF MinOf
<1>3. Copied(r, want) = SubSeq(all, from, to)
  BY <1>2 DEF Copied
<1>4. from \in Int /\ to \in Int /\ (IF from <= to THEN to - from + 1 ELSE 0) = want
  BY <1>1
<1>5. \A i \in from..to : all[i] \in S
  BY <1>1
<1>. HIDE DEF all, from, to, S
<1>6. Len(SubSeq(all, from, to)) = IF from <= to THEN to - from + 1 ELSE 0
  BY <1>4, <1>5, SubSeqProperties
<1>. QED
  BY <1>3, <1>4, <1>6

\* A header that is due is at hand in a buffer that is ready.
LEMMA HeaderAtHand ==
  ASSUME NEW m, NEW first, NEW log, Logged(m, first, log), BufferHeld(log), ReaderFits, OrderInv,
         NoneLost, Ready, call.op = "Header"
  PROVE  \E p \in 1..Len(sent) : AtHead(p) /\ HEADER_SIZE <= sent[p].len
<1>1. /\ sent \in Seq(Packets) /\ IsReceiver(rcv) /\ rcv.pos \in Nat /\ rcv.dataLen \in Nat
      /\ rcv.ready /\ WholePackets(sent, Contents(rcv))
  BY BufferFacts DEF Ready
<1>2. rcv.pos < rcv.dataLen /\ IsHead(rcv.buf[rcv.pos])
  BY <1>1 DEF NoneLost, AtBorder, HeaderDue
<1>3. PICK at : at = rcv.pos + 1
  OBVIOUS
<1>4. at \in 1..rcv.dataLen /\ at - 1 = rcv.pos
  BY <1>1, <1>2, <1>3
<1>5. /\ Contents(rcv)[at] = rcv.buf[rcv.pos] /\ Len(Contents(rcv)) = rcv.dataLen
  BY <1>1, <1>4, BufferUnits
<1>6. Contents(rcv)[at] \in Unit /\ Contents(rcv)[at][1] \in 1..Len(sent)
  BY <1>1, <1>4, <1>5 DEF WholePackets
<1>7. PICK p \in 1..Len(sent) : rcv.buf[rcv.pos] = <<p, 0>>
  BY <1>2, <1>5, <1>6 DEF Unit, IsHead
<1>8. HEADER_SIZE <= sent[p].len
  <2>1. sent[p] \in Packets
    BY <1>1
  <2>2. HEADER_SIZE \in Nat
    BY NetAssumption
  <2>. QED
    BY <2>1, <2>2, PacketFacts
<1>. QED
  BY <1>1, <1>2, <1>7, <1>8 DEF AtHead

\* A read that finds a buffer ready gets all it wants.
LEMMA ReadInFull ==
  ASSUME NEW m, NEW first, NEW log, Logged(m, first, log), BufferHeld(log), ReaderFits, OrderInv,
         NoneLost, Ready
  PROVE  Len(Got) = call.want
<1>1. /\ sent \in Seq(Packets) /\ IsReceiver(rcv) /\ rcv.pos \in Nat /\ rcv.dataLen \in Nat
      /\ rcv.ready /\ WholePackets(sent, Contents(rcv))
  BY BufferFacts DEF Ready
<1>2. call.want \in Nat /\ call.op \in {"Header", "SecHeader", "Data"}
  BY DEF ReaderFits, CallFits, Ready, Waiting
<1>3. rcv.pos + call.want <= rcv.dataLen
  <2>1. CASE call.op = "Header"
    <3>1. PICK p \in 1..Len(sent) : AtHead(p) /\ HEADER_SIZE <= sent[p].len
      BY <2>1, HeaderAtHand
    <3>2. rcv.pos < rcv.dataLen /\ rcv.buf[rcv.pos] = <<p, 0>> /\ call.want = HEADER_SIZE
      BY <2>1, <3>1 DEF AtHead, ReaderFits, CallFits
    <3>3. 0 + call.want <= sent[p].len
      BY <3>1, <3>2, <1>2
    <3>. QED
      BY <1>1, <1>2, <3>2, <3>3, ReadOver
  <2>2. CASE call.op = "SecHeader"
    <3>1. PICK p : p = call.pkt
      OBVIOUS
    <3>2. /\ p \in 1..Len(sent) /\ sent[p].sec /\ call.want = SEC_HEADER_SIZE /\ AtPlace(p, HEADER_SIZE)
      BY <2>2, <3>1 DEF ReaderFits, CallFits, NoneLost, SecAhead
    <3>3. HEADER_SIZE + call.want <= sent[p].len
      <4>1. sent[p] \in Packets
        BY <1>1, <3>2
      <4>. QED
        BY <4>1, <3>2, PacketFacts DEF HeaderLen
    <3>. QED
      BY <1>1, <1>2, <3>2, <3>3, ReadOver DEF AtPlace
  <2>3. CASE call.op = "Data"
    <3>1. call.want = rd.dlen /\ rd.state = "ReadData"
      BY <2>3 DEF ReaderFits, CallFits
    <3>. QED
      BY <1>1, <2>3, <3>1, DataPassed
  <2>. QED
    BY <1>2, <2>1, <2>2, <2>3
<1>. QED
  BY <1>1, <1>2, <1>3, AllCopied DEF Got

\* The reader takes what it got from the buffer.
LEMMA RestOfBuffer ==
  ASSUME NEW m, NEW first, NEW log, Logged(m, first, log), BufferHeld(log), ReaderFits, OrderInv,
         NoneLost, Ready
  PROVE  /\ Rest.pos = rcv.pos + call.want /\ (Rest.ready <=> Rest.pos < rcv.dataLen)
         /\ Rest.gotFirst = rcv.gotFirst /\ Rest.drop = rcv.drop /\ Rest.bufLen = rcv.bufLen
         /\ Rest.buf = rcv.buf /\ Rest.dataLen = rcv.dataLen /\ ~rcv.gotFirst /\ rcv.ready
         /\ call.want \in Nat /\ IsReceiver(Rest)
<1>1. Len(Got) = call.want
  BY ReadInFull
<1>2. /\ IsReceiver(rcv) /\ Rest.pos = rcv.pos + call.want /\ (Rest.ready <=> Rest.pos < rcv.dataLen)
      /\ Rest.buf = rcv.buf /\ Rest.dataLen = rcv.dataLen /\ call.want \in Nat /\ IsReceiver(Rest)
  BY <1>1, RestFacts
<1>3. Rest.gotFirst = rcv.gotFirst /\ Rest.drop = rcv.drop /\ Rest.bufLen = rcv.bufLen
  BY <1>2 DEF Rest, AfterCopy, IsReceiver, Receiver
<1>4. ~rcv.gotFirst /\ rcv.ready
  BY BufferFacts DEF Ready
<1>. QED
  BY <1>2, <1>3, <1>4

\* The last part of the header of packet p is read, or all of it.
LEMMA HeaderDoneAhead ==
  ASSUME NEW m, NEW first, NEW log, Logged(m, first, log), BufferHeld(log), ReaderFits, OrderInv,
         NoneLost, Ready, UNCHANGED <<sent, wire>>, NEW p, NEW h, AtPlace(p, h),
         h + call.want = HeaderLen(sent[p]), HeaderDone(Rest, p), Mark <= p
  PROVE  NoneLost'
<1>1. /\ sent \in Seq(Packets) /\ IsReceiver(rcv) /\ rcv.pos \in Nat /\ rcv.dataLen \in Nat
      /\ Mark \in Nat /\ WholePackets(sent, Contents(rcv))
  BY BufferFacts DEF Ready
<1>2. /\ rcv' = Rest /\ call'.op = "None" /\ rd'.pkt = p /\ rd'.state = "ReadData"
      /\ rd'.dlen = sent[p].len - HeaderLen(sent[p]) /\ Mark' = p
  BY DEF HeaderDone, Idle, Call, Mark
<1>. DEFINE n == call.want
<1>3. /\ rcv'.pos = rcv.pos + n /\ (rcv'.ready <=> rcv'.pos < rcv.dataLen)
      /\ ~rcv'.gotFirst /\ rcv'.drop = rcv.drop /\ rcv'.bufLen = rcv.bufLen
      /\ rcv'.buf = rcv.buf /\ rcv'.dataLen = rcv.dataLen /\ ~rcv.gotFirst /\ n \in Nat
  BY <1>2, RestOfBuffer
<1>. HIDE DEF n
<1>4. rcv.pos < rcv.dataLen /\ rcv.buf[rcv.pos] = <<p, h>>
  BY DEF AtPlace
<1>5. p \in 1..Len(sent)
  <2>1. PICK at : at = rcv.pos
    OBVIOUS
  <2>2. at \in 0..(rcv.dataLen - 1) /\ rcv.buf[at] = <<p, h>>
    BY <1>1, <1>4, <2>1
  <2>3. rcv.buf[at][1] \in 1..Len(sent)
    BY <1>1, <2>2, BufferUnits DEF Ready
  <2>. QED
    BY <2>2, <2>3
<1>6. h + n <= sent[p].len /\ HeaderLen(sent[p]) \in Nat /\ sent[p].len \in Nat /\ h + n = HeaderLen(sent[p])
  <2>1. sent[p] \in Packets
    BY <1>1, <1>5
  <2>. QED
    BY <2>1, PacketFacts DEF n
<1>7. /\ \A i \in rcv.pos..(rcv.dataLen - 1) : IsHead(rcv.buf[i]) => rcv.pos + n <= i \/ rcv.buf[i] = <<p, 0>>
      /\ (h + n = sent[p].len /\ rcv.pos + n < rcv.dataLen) => IsHead(rcv.buf[rcv.pos + n])
  <2>1. sent \in Seq(Packets) /\ IsReceiver(rcv) /\ n \in Nat /\ h + n <= sent[p].len
    BY <1>1, <1>3, <1>6
  <2>. QED
    <3>1. \A i \in rcv.pos..(rcv.dataLen - 1) : IsHead(rcv.buf[i]) => rcv.pos + n <= i \/ rcv.buf[i] = <<p, 0>>
      BY <1>1, <1>4, <2>1, ReadOver
    <3>2. (h + n = sent[p].len /\ rcv.pos + n < rcv.dataLen) => IsHead(rcv.buf[rcv.pos + n])
      BY <1>1, <1>4, <2>1, ReadOver
    <3>. QED
      BY <3>1, <3>2
<1>8. (Linked(sent, wire) /\ Taken(wire) /\ Expected /\ AllAhead)'
  <2>1. \A i \in rcv.pos..(rcv.dataLen - 1) : IsHead(rcv.buf[i]) =>
          (rcv'.ready /\ rcv'.pos <= i) \/ rcv.buf[i][1] <= Mark'
    <3>. SUFFICES ASSUME NEW i \in rcv.pos..(rcv.dataLen - 1), IsHead(rcv.buf[i])
                  PROVE  (rcv'.ready /\ rcv'.pos <= i) \/ rcv.buf[i][1] <= Mark'
      OBVIOUS
    <3>1. CASE rcv.pos + n <= i
      BY <3>1, <1>1, <1>3
    <3>2. CASE rcv.buf[i] = <<p, 0>>
      <4>1. rcv.buf[i][1] = p
        BY <3>2
      <4>. QED
        BY <4>1, <1>2, <1>5
    <3>. QED
      BY <1>7, <3>1, <3>2
  <2>2. Mark <= Mark' /\ Mark' \in Nat
    BY <1>2, <1>5
  <2>. QED
    BY <2>1, <2>2, <1>1, <1>3, NoneLeftBehind
<1>9. AtBorder'
  <2>1. HeaderDue' => h + n = sent[p].len
    BY <1>2, <1>6 DEF HeaderDue
  <2>. QED
    BY <2>1, <1>3, <1>7 DEF AtBorder
<1>10. SecAhead'
  BY <1>2 DEF SecAhead
<1>. QED
  BY <1>8, <1>9, <1>10 DEF NoneLost

\* With nothing damaged every header checks out.
LEMMA HeaderFinishedAhead ==
  ASSUME NEW m, NEW first, NEW log, Logged(m, first, log), BufferHeld(log), ReaderFits, OrderInv,
         NoneLost, AllInTurn, Flawless, FinishHeader
  PROVE  NoneLost' /\ (HeaderReturned => rd'.pkt = rd.pkt + 1)
<1>1. /\ sent \in Seq(Packets) /\ IsReceiver(rcv) /\ rcv.pos \in Nat /\ rcv.dataLen \in Nat
      /\ Mark \in Nat /\ rcv.ready /\ WholePackets(sent, Contents(rcv))
  BY BufferFacts DEF FinishHeader, Ready
<1>2. /\ Ready /\ call.op = "Header" /\ Len(Got) = call.want /\ call.want = HEADER_SIZE
      /\ UNCHANGED <<sent, wire>> /\ HEADER_SIZE \in Nat \ {0} /\ SEC_HEADER_SIZE \in Nat \ {0}
      /\ Mark = rd.pkt
  BY NetAssumption DEF FinishHeader, ReaderFits, CallFits, Mark
<1>3. PICK p \in 1..Len(sent) : AtHead(p) /\ HEADER_SIZE <= sent[p].len
  BY <1>2, HeaderAtHand
<1>4. rcv.pos < rcv.dataLen /\ rcv.buf[rcv.pos] = <<p, 0>> /\ AtPlace(p, 0)
  BY <1>3 DEF AtHead, AtPlace
<1>5. HeaderRead = p
  <2>1. PICK at : at = rcv.pos
    OBVIOUS
  <2>2. Got = [i \in 1..Len(Got) |-> rcv.buf[at + i - 1]]
    BY <1>2, <2>1, RestFacts
  <2>3. 1 \in 1..Len(Got) /\ at + 1 - 1 = at
    BY <1>1, <1>2, <2>1
  <2>4. Got[1] = rcv.buf[at]
    <3>. HIDE DEF Got
    <3>. QED
      BY <2>2, <2>3
  <2>5. Got[1][1] = p /\ Got[1][2] = 0
    BY <2>1, <2>4, <1>4
  <2>. QED
    BY <2>5 DEF HeaderRead
<1>6. p = rd.pkt + 1
  <2>1. Mark < p
    <3>1. PICK at : at = rcv.pos
      OBVIOUS
    <3>2. at \in 0..(rcv.dataLen - 1) /\ rcv.buf[at] = <<p, 0>> /\ rcv.pos <= at
      BY <1>1, <1>4, <3>1
    <3>3. Mark < rcv.buf[at][1]
      BY <1>1, <3>2 DEF AllInTurn, BufferInTurn, IsHead
    <3>. QED
      BY <3>2, <3>3
  <2>2. ASSUME Mark + 1 < p PROVE FALSE
    <3>. DEFINE q == Mark + 1
    <3>1. q \in (Mark + 1)..Len(sent) /\ q < p /\ q \in Nat
      BY <1>1, <2>2
    <3>2. InBuffer(q, rcv) \/ OnItsWay(q, wire)
      BY <3>1 DEF NoneLost, AllAhead
    <3>. HIDE DEF q
    <3>3. PICK at : at = rcv.pos
      OBVIOUS
    <3>4. at \in 0..(rcv.dataLen - 1) /\ rcv.buf[at] = <<p, 0>>
      BY <1>1, <1>4, <3>3
    <3>5. CASE InBuffer(q, rcv)
      <4>1. PICK i \in 0..(rcv.dataLen - 1) : at <= i /\ rcv.buf[i] = <<q, 0>>
        BY <3>5, <1>1, <3>3 DEF InBuffer
      <4>2. i # at
        <5>1. ASSUME i = at PROVE FALSE
          <6>1. p = q
            BY <5>1, <4>1, <3>4
          <6>. QED
            BY <6>1, <3>1
        <5>. QED
          BY <5>1
      <4>3. /\ Len(Contents(rcv)) = rcv.dataLen
            /\ \A k \in 1..rcv.dataLen : Contents(rcv)[k] = rcv.buf[k - 1]
        BY <1>1, BufferUnits
      <4>4. at + 1 \in 1..rcv.dataLen /\ i + 1 \in 1..rcv.dataLen /\ at + 1 < i + 1
        BY <1>1, <3>4, <4>1, <4>2
      <4>5. Contents(rcv)[at + 1] = <<p, 0>> /\ Contents(rcv)[i + 1] = <<q, 0>>
        BY <3>4, <4>1, <4>3, <4>4
      <4>6. Rising(Contents(rcv))
        BY <1>1 DEF AllInTurn, BufferInTurn
      <4>7. p < q
        BY <4>3, <4>4, <4>5, <4>6 DEF Rising, IsHead
      <4>. QED
        BY <4>7, <3>1
    <3>6. CASE OnItsWay(q, wire)
      <4>1. PICK k \in 1..Len(wire) : \E i \in 1..Len(wire[k].data) : wire[k].data[i] = <<q, 0>>
        BY <3>6 DEF OnItsWay
      <4>2. PICK i \in 1..Len(wire[k].data) : wire[k].data[i] = <<q, 0>>
        BY <4>1
      <4>3. HeadsAfter(p, wire)
        <5>1. IsHead(rcv.buf[at]) /\ rcv.buf[at][1] = p
          BY <3>4 DEF IsHead
        <5>. QED
          BY <5>1, <3>4, <1>1 DEF AllInTurn, BufferInTurn
      <4>4. p < q
        BY <4>2, <4>3 DEF HeadsAfter, IsHead
      <4>. QED
        BY <4>4, <3>1
    <3>. QED
      BY <3>2, <3>5, <3>6
  <2>. QED
    BY <1>1, <1>2, <2>1, <2>2
<1>7. p # 0 /\ sent[p] \in Packets /\ sent[p].ok
  BY <1>1 DEF Flawless
<1>8. CASE ~sent[p].sec
  <2>1. HeaderDone(Rest, p)
    BY <1>5, <1>7, <1>8 DEF FinishHeader
  <2>2. 0 + call.want = HeaderLen(sent[p]) /\ Mark <= p
    BY <1>2, <1>6, <1>8, <1>1 DEF HeaderLen
  <2>3. NoneLost'
    BY <1>2, <1>4, <2>1, <2>2, HeaderDoneAhead
  <2>4. rd'.pkt = p
    BY <2>1 DEF HeaderDone
  <2>. QED
    BY <2>3, <2>4, <1>6
<1>9. CASE sent[p].sec
  <2>1. /\ rcv' = Begin(Rest) /\ call' = Call("SecHeader", SEC_HEADER_SIZE, p) /\ UNCHANGED <<rd, ret>>
    BY <1>5, <1>7, <1>9 DEF FinishHeader
  <2>2. call'.op = "SecHeader" /\ call'.pkt = p /\ rd'.pkt = rd.pkt /\ Mark' = p
    BY <2>1 DEF Call, Mark
  <2>3. 0 + HEADER_SIZE < sent[p].len
    BY <1>2, <1>7, <1>9, PacketFacts DEF HeaderLen
  <2>4. PICK n \in Nat : n = HEADER_SIZE
    BY <1>2
  <2>5. /\ \A i \in rcv.pos..(rcv.dataLen - 1) :
             IsHead(rcv.buf[i]) => rcv.pos + HEADER_SIZE <= i \/ rcv.buf[i] = <<p, 0>>
        /\ rcv.pos + HEADER_SIZE < rcv.dataLen
        /\ rcv.buf[rcv.pos + HEADER_SIZE] = <<p, HEADER_SIZE>>
    <3>1. PICK h : h = 0
      OBVIOUS
    <3>2. h + n <= sent[p].len /\ h + n < sent[p].len /\ rcv.buf[rcv.pos] = <<p, h>> /\ h + n = n
      BY <1>3, <1>4, <2>3, <2>4, <3>1
    <3>3. \A i \in rcv.pos..(rcv.dataLen - 1) : IsHead(rcv.buf[i]) => rcv.pos + n <= i \/ rcv.buf[i] = <<p, 0>>
      BY <1>1, <1>4, <3>2, ReadOver
    <3>4. (h + n < sent[p].len) => rcv.pos + n < rcv.dataLen /\ rcv.buf[rcv.pos + n] = <<p, h + n>>
      BY <1>1, <1>4, <3>2, ReadOver
    <3>. QED
      BY <2>4, <3>2, <3>3, <3>4
  <2>6. /\ Rest.pos = rcv.pos + HEADER_SIZE /\ (Rest.ready <=> Rest.pos < rcv.dataLen)
        /\ Rest.gotFirst = rcv.gotFirst /\ Rest.drop = rcv.drop /\ Rest.bufLen = rcv.bufLen
        /\ Rest.buf = rcv.buf /\ Rest.dataLen = rcv.dataLen /\ ~rcv.gotFirst
    BY <1>2, RestOfBuffer
  <2>7. Rest.ready /\ rcv' = Rest
    BY <2>1, <2>5, <2>6 DEF Begin
  <2>8. (Linked(sent, wire) /\ Taken(wire) /\ Expected /\ AllAhead)'
    <3>1. \A i \in rcv.pos..(rcv.dataLen - 1) : IsHead(rcv.buf[i]) =>
            (rcv'.ready /\ rcv'.pos <= i) \/ rcv.buf[i][1] <= Mark'
      <4>. SUFFICES ASSUME NEW i \in rcv.pos..(rcv.dataLen - 1), IsHead(rcv.buf[i])
                    PROVE  (rcv'.ready /\ rcv'.pos <= i) \/ rcv.buf[i][1] <= Mark'
        OBVIOUS
      <4>1. CASE rcv.pos + HEADER_SIZE <= i
        BY <4>1, <2>6, <2>7
      <4>2. CASE rcv.buf[i] = <<p, 0>>
        <5>1. rcv.buf[i][1] = p
          BY <4>2
        <5>. QED
          BY <5>1, <2>2
      <4>. QED
        BY <2>5, <4>1, <4>2
    <3>2. Mark <= Mark' /\ Mark' \in Nat
      BY <1>1, <1>2, <1>6, <2>2
    <3>. QED
      BY <3>1, <3>2, <1>1, <1>2, <2>6, <2>7, NoneLeftBehind
  <2>9. AtBorder'
    BY <2>2 DEF AtBorder, HeaderDue
  <2>10. SecAhead'
    BY <1>2, <1>6, <2>2, <2>5, <2>6, <2>7 DEF SecAhead, AtPlace
  <2>. QED
    BY <2>2, <2>8, <2>9, <2>10 DEF NoneLost, HeaderReturned
<1>. QED
  BY <1>7, <1>8, <1>9, PacketFacts

LEMMA SecHeaderFinishedAhead ==
  ASSUME NEW m, NEW first, NEW log, Logged(m, first, log), BufferHeld(log), ReaderFits, OrderInv,
         NoneLost, Flawless, FinishSecHeader
  PROVE  NoneLost' /\ rd'.pkt = rd.pkt + 1
<1>1. /\ sent \in Seq(Packets) /\ IsReceiver(rcv) /\ rcv.pos \in Nat /\ rcv.dataLen \in Nat
      /\ Mark \in Nat /\ rcv.ready /\ WholePackets(sent, Contents(rcv))
  BY BufferFacts DEF FinishSecHeader, Ready
<1>2. PICK p : p = call.pkt
  OBVIOUS
<1>3. /\ Ready /\ call.op = "SecHeader" /\ Len(Got) = call.want /\ call.want = SEC_HEADER_SIZE
      /\ UNCHANGED <<sent, wire>> /\ HEADER_SIZE \in Nat \ {0} /\ SEC_HEADER_SIZE \in Nat \ {0}
      /\ Mark = p /\ p \in 1..Len(sent) /\ sent[p].sec /\ p = rd.pkt + 1
      /\ AtPlace(p, HEADER_SIZE)
  BY <1>2, NetAssumption DEF FinishSecHeader, ReaderFits, CallFits, Mark, NoneLost, SecAhead
<1>4. rcv.pos < rcv.dataLen /\ rcv.buf[rcv.pos] = <<p, HEADER_SIZE>>
  BY <1>3 DEF AtPlace
<1>5. HEADER_SIZE + SEC_HEADER_SIZE = HeaderLen(sent[p]) /\ HeaderLen(sent[p]) <= sent[p].len
  <2>1. sent[p] \in Packets
    BY <1>1, <1>3
  <2>. QED
    BY <1>3, <2>1, PacketFacts DEF HeaderLen
<1>6. Got = Units(p, HEADER_SIZE, SEC_HEADER_SIZE)
  <2>1. Got = [i \in 1..SEC_HEADER_SIZE |-> rcv.buf[rcv.pos + i - 1]]
    BY <1>3, RestFacts
  <2>2. \A j \in 0..(SEC_HEADER_SIZE - 1) : rcv.buf[rcv.pos + j] = <<p, HEADER_SIZE + j>>
    <3>1. PICK at : at = rcv.pos
      OBVIOUS
    <3>2. PICK h : h = HEADER_SIZE
      OBVIOUS
    <3>3. at \in Nat /\ at < rcv.dataLen /\ rcv.buf[at] = <<p, h>> /\ h < sent[p].len
      <4>1. sent[p].len \in Nat
        BY <1>1, <1>3, PacketFacts
      <4>. QED
        BY <1>1, <1>3, <1>4, <1>5, <3>1, <3>2, <4>1
    <3>4. \A j \in 0..(sent[p].len - h - 1) : at + j < rcv.dataLen /\ rcv.buf[at + j] = <<p, h + j>>
      BY <1>1, <3>3, RestOfPacket
    <3>5. \A j \in 0..(SEC_HEADER_SIZE - 1) : j \in 0..(sent[p].len - h - 1)
      <4>1. sent[p].len \in Nat
        BY <1>1, <1>3, PacketFacts
      <4>. QED
        BY <1>3, <1>5, <3>2, <4>1
    <3>. QED
      BY <3>1, <3>2, <3>4, <3>5
  <2>3. ASSUME NEW i \in 1..SEC_HEADER_SIZE
        PROVE  rcv.buf[rcv.pos + i - 1] = <<p, HEADER_SIZE + i - 1>>
    <3>1. i - 1 \in 0..(SEC_HEADER_SIZE - 1) /\ rcv.pos + (i - 1) = rcv.pos + i - 1
          /\ HEADER_SIZE + (i - 1) = HEADER_SIZE + i - 1
      BY <1>1, <1>3
    <3>2. rcv.buf[rcv.pos + (i - 1)] = <<p, HEADER_SIZE + (i - 1)>>
      BY <2>2, <3>1
    <3>. QED
      BY <3>1, <3>2
  <2>. HIDE DEF Got
  <2>. QED
    BY <2>1, <2>3 DEF Units
<1>7. sent[p].secOk
  BY <1>1, <1>3 DEF Flawless
<1>8. HeaderDone(Rest, p)
  BY <1>2, <1>6, <1>7 DEF FinishSecHeader
<1>9. NoneLost'
  <2>1. HEADER_SIZE + call.want = HeaderLen(sent[p]) /\ Mark <= p
    BY <1>1, <1>3, <1>5
  <2>. QED
    BY <1>3, <1>8, <2>1, HeaderDoneAhead
<1>10. rd'.pkt = rd.pkt + 1
  BY <1>3, <1>8 DEF HeaderDone
<1>. QED
  BY <1>9, <1>10

LEMMA DataFinishedAhead ==
  ASSUME NEW m, NEW first, NEW log, Logged(m, first, log), BufferHeld(log), ReaderFits, OrderInv,
         NoneLost, FinishData
  PROVE  NoneLost'
<1>1. /\ sent \in Seq(Packets) /\ IsReceiver(rcv) /\ rcv.pos \in Nat /\ rcv.dataLen \in Nat
      /\ Mark \in Nat /\ rcv.ready /\ rd \in Reader
  BY BufferFacts DEF FinishData, Ready
<1>2. /\ Ready /\ call.op = "Data" /\ call.want = rd.dlen /\ rd.state = "ReadData"
      /\ UNCHANGED <<sent, wire>> /\ rcv' = Rest /\ call'.op = "None" /\ rd'.pkt = rd.pkt
  BY <1>1 DEF FinishData, ReaderFits, CallFits, Idle, Call, Reader
<1>3. Mark' = Mark
  BY <1>2 DEF Mark
<1>4. /\ rcv'.pos = rcv.pos + rd.dlen /\ (rcv'.ready <=> rcv'.pos < rcv.dataLen)
      /\ ~rcv'.gotFirst /\ rcv'.drop = rcv.drop /\ rcv'.bufLen = rcv.bufLen
      /\ rcv'.buf = rcv.buf /\ rcv'.dataLen = rcv.dataLen /\ ~rcv.gotFirst
  BY <1>2, RestOfBuffer
<1>5. /\ \A i \in rcv.pos..(rcv.dataLen - 1) : IsHead(rcv.buf[i]) => rcv.pos + rd.dlen <= i
      /\ rcv.pos + rd.dlen < rcv.dataLen => IsHead(rcv.buf[rcv.pos + rd.dlen])
      /\ rd.dlen \in Nat
  BY <1>1, <1>2, DataPassed
<1>6. (Linked(sent, wire) /\ Taken(wire) /\ Expected /\ AllAhead)'
  <2>1. \A i \in rcv.pos..(rcv.dataLen - 1) : IsHead(rcv.buf[i]) =>
          (rcv'.ready /\ rcv'.pos <= i) \/ rcv.buf[i][1] <= Mark'
    BY <1>1, <1>4, <1>5
  <2>2. Mark <= Mark' /\ Mark' \in Nat
    BY <1>1, <1>3
  <2>. QED
    BY <2>1, <2>2, <1>1, <1>2, <1>4, NoneLeftBehind
<1>7. AtBorder'
  BY <1>4, <1>5 DEF AtBorder
<1>8. SecAhead'
  BY <1>2 DEF SecAhead
<1>. QED
  BY <1>6, <1>7, <1>8 DEF NoneLost

-----------------------------------------------------------------------------
(* What comes when it is expected is taken.                                 *)

\* A part of packet p for which there is room, the first or one that goes on.
LEMMA SegmentAccepted ==
  ASSUME NEW r, IsReceiver(r), ~r.ready, NEW d \in Datagram, HEADER_STRUCT <= Len(d.data),
         NEW p, sent[p].len \in Nat, d.data[1] = <<p, d.off>>,
         IF d.off = 0 THEN ~r.gotFirst /\ Len(d.data) <= r.bufLen
                      ELSE r.gotFirst /\ r.buf[0] = <<p, 0>> /\ d.off + Len(d.data) <= r.bufLen
  PROVE  LET x == TakeSegment(r, d) IN
         /\ x.buf[0] = <<p, 0>> /\ x.drop = r.drop /\ r.bufLen <= x.bufLen /\ x.seq = r.seq
         /\ IF d.off + Len(d.data) >= sent[p].len
              THEN x.ready /\ ~x.gotFirst /\ x.pos = 0
              ELSE ~x.ready /\ x.gotFirst
<1>. DEFINE n == Len(d.data)
            at == IF r.gotFirst THEN d.off ELSE 0
            w == Store(r, at, d.data)
            f == IF d.off = 0 THEN FirstSegment(w) ELSE w
            full == [f EXCEPT !.ready = TRUE, !.gotFirst = FALSE, !.pos = 0]
<1>1. /\ d.off \in Nat /\ d.data \in Seq(Unit) /\ n \in Nat /\ at \in Nat
      /\ r.bufLen \in Nat /\ r.ready = FALSE /\ r.gotFirst \in BOOLEAN
      /\ HEADER_STRUCT \in Nat /\ HEADER_STRUCT > 0 /\ n > 0
      /\ at = d.off
  <2>1. HEADER_STRUCT \in Nat /\ HEADER_STRUCT > 0
    BY NetAssumption
  <2>. QED
    BY <2>1 DEF Datagram, IsReceiver, Receiver
<1>2. at + n <= r.bufLen
  BY <1>1
<1>3. TakeSegment(r, d) =
        IF n > r.bufLen - at THEN DumpNetStream(w)
        ELSE IF n < HEADER_STRUCT THEN [DumpNetStream(w) EXCEPT !.drop = TRUE]
        ELSE IF f.gotFirst /\ d.off + n >= BufferedLen(f) THEN full
        ELSE f
  BY DEF TakeSegment
<1>4. ~(n > r.bufLen - at) /\ ~(n < HEADER_STRUCT)
  BY <1>1, <1>2
<1>5. TakeSegment(r, d) = IF f.gotFirst /\ d.off + n >= BufferedLen(f) THEN full ELSE f
  BY <1>3, <1>4
<1>. HIDE DEF at, n
<1>6. /\ IsReceiver(w) /\ w.bufLen = r.bufLen /\ w.seq = r.seq /\ w.dataLen = r.dataLen
      /\ w.ready = FALSE /\ w.gotFirst = r.gotFirst
      /\ \A i \in 0..(r.bufLen - 1) :
           w.buf[i] = IF i >= at /\ i - at < Len(d.data) THEN d.data[i - at + 1] ELSE r.buf[i]
  BY <1>1, StoreFacts
<1>7. w.drop = r.drop
  BY DEF Store, IsReceiver, Receiver
<1>8. w.buf[0] = <<p, 0>>
  <2>1. 0 \in 0..(r.bufLen - 1)
    BY <1>1, <1>2
  <2>2. CASE d.off = 0
    <3>1. 0 >= at /\ 0 - at < Len(d.data) /\ 0 - at + 1 = 1
      BY <1>1, <2>2 DEF n
    <3>. QED
      BY <1>6, <2>1, <2>2, <3>1
  <2>3. CASE d.off # 0
    <3>1. ~(0 >= at) /\ r.buf[0] = <<p, 0>>
      BY <1>1, <2>3
    <3>. QED
      BY <1>6, <2>1, <3>1
  <2>. QED
    BY <2>2, <2>3
<1>9. BufferedLen(w) = sent[p].len
  BY <1>8 DEF BufferedLen
<1>. HIDE DEF w
<1>10. /\ IsReceiver(f) /\ f.gotFirst = TRUE /\ f.ready = FALSE /\ f.seq = r.seq
       /\ f.buf[0] = <<p, 0>> /\ f.drop = r.drop /\ r.bufLen <= f.bufLen
  <2>1. CASE d.off = 0
    <3>1. f = FirstSegment(w)
      BY <2>1
    <3>2. LET x == FirstSegment(w) IN
          /\ IsReceiver(x) /\ x.ready = w.ready /\ x.gotFirst = TRUE /\ x.seq = w.seq
          /\ w.bufLen <= x.bufLen
          /\ \A i \in 0..(w.bufLen - 1) : x.buf[i] = w.buf[i]
      BY <1>6, <1>9, FirstSegmentFacts
    <3>3. FirstSegment(w).drop = w.drop
      BY <1>6 DEF FirstSegment, IsReceiver, Receiver
    <3>4. 0 \in 0..(w.bufLen - 1)
      BY <1>1, <1>2, <1>6
    <3>. QED
      BY <1>6, <1>7, <1>8, <3>1, <3>2, <3>3, <3>4
  <2>2. CASE d.off # 0
    BY <2>2, <1>1, <1>6, <1>7, <1>8
  <2>. QED
    BY <2>1, <2>2
<1>11. BufferedLen(f) = sent[p].len
  BY <1>10 DEF BufferedLen
<1>. HIDE DEF f
<1>12. /\ full.buf[0] = <<p, 0>> /\ full.drop = r.drop /\ r.bufLen <= full.bufLen /\ full.seq = r.seq
       /\ full.ready = TRUE /\ full.gotFirst = FALSE /\ full.pos = 0
  BY <1>10 DEF IsReceiver, Receiver
<1>. HIDE DEF full
<1>13. CASE d.off + n >= sent[p].len
  BY <1>5, <1>10, <1>11, <1>12, <1>13 DEF n
<1>14. CASE ~(d.off + n >= sent[p].len)
  BY <1>5, <1>10, <1>11, <1>14 DEF n
<1>. QED
  BY <1>13, <1>14

LEMMA FullAccepted ==
  ASSUME NEW r, IsReceiver(r), ~r.ready, ~r.gotFirst, NEW d \in Datagram, Len(d.data) <= r.bufLen
  PROVE  LET x == TakeFull(r, d) IN
         /\ x.ready /\ ~x.gotFirst /\ x.pos = 0 /\ x.drop = r.drop /\ x.bufLen = r.bufLen
         /\ x.dataLen = Len(d.data)
<1>. DEFINE w == Store(r, 0, d.data)
<1>1. d.data \in Seq(Unit) /\ Len(d.data) \in Nat /\ r.bufLen \in Nat
  BY DEF Datagram, IsReceiver, Receiver
<1>2. IsReceiver(w) /\ w.gotFirst = r.gotFirst /\ w.bufLen = r.bufLen
  BY <1>1, StoreFacts
<1>3. w.drop = r.drop
  BY DEF Store, IsReceiver, Receiver
<1>. HIDE DEF w
<1>4. TakeFull(r, d) = [w EXCEPT !.dataLen = Len(d.data), !.ready = TRUE, !.pos = 0]
  BY <1>1 DEF TakeFull, w
<1>. QED
  BY <1>2, <1>3, <1>4 DEF IsReceiver, Receiver

LEMMA FollowKeeps ==
  ASSUME NEW r, IsReceiver(r), NEW d \in Datagram
  PROVE  LET x == FollowSeq(r, d) IN
         /\ IsReceiver(x) /\ x.drop = r.drop /\ x.bufLen = r.bufLen /\ x.buf = r.buf /\ x.dataLen = r.dataLen
         /\ x.seq = d.seq /\ (~r.ready => x.ready = FALSE)
         /\ IF d.seq = r.seq + 1 THEN x.gotFirst = r.gotFirst ELSE ~x.gotFirst
<1>1. d.seq \in Nat
  BY NetAssumption DEF Datagram
<1>2. CASE d.seq # r.seq + 1
  <2>. DEFINE y == DumpNetStream(r)
  <2>1. /\ IsReceiver(y) /\ y.ready = FALSE /\ y.gotFirst = FALSE
        /\ y.bufLen = r.bufLen /\ y.buf = r.buf /\ y.dataLen = r.dataLen /\ y.drop = r.drop
    BY DumpFacts
  <2>. HIDE DEF y
  <2>2. FollowSeq(r, d) = [y EXCEPT !.seq = d.seq]
    BY <1>2 DEF FollowSeq, y
  <2>. QED
    BY <1>1, <1>2, <2>1, <2>2 DEF IsReceiver, Receiver
<1>3. CASE d.seq = r.seq + 1
  <2>1. FollowSeq(r, d) = [r EXCEPT !.seq = d.seq]
    BY <1>3 DEF FollowSeq
  <2>. QED
    BY <1>1, <1>3, <2>1 DEF IsReceiver, Receiver
<1>. QED
  BY <1>2, <1>3

\* What a segment is of.
LEMMA SegmentFacts ==
  ASSUME NEW m, NEW first, NEW log, Logged(m, first, log), NEW k \in 1..Len(log),
         log[k].type = "Seg", log[k].data # <<>>
  PROVE  \E p \in 1..Len(sent) :
           /\ PartOf(sent, p, log[k])
           /\ log[k].off = 0 \/ (k > 1 /\ PartBefore(sent, p, log[k - 1], log[k]))
           /\ log[k].data[1] = <<p, log[k].off>> /\ sent[p].len \in Nat
           /\ \A i \in 1..Len(log[k].data) : log[k].data[i] = <<p, log[k].off + i - 1>>
<1>. DEFINE d == log[k]
            data == d.data
            n == Len(data)
<1>1. d \in Datagram /\ d.off \in Nat /\ data \in Seq(Unit) /\ n \in Nat /\ n > 0
  <2>1. d \in Datagram
    BY DEF Logged, IsRun
  <2>. QED
    BY <2>1 DEF Datagram
<1>2. PICK p \in 1..Len(sent) :
        PartOf(sent, p, d) /\ (d.off = 0 \/ (k > 1 /\ PartBefore(sent, p, log[k - 1], d)))
  BY DEF Logged, IsRun
<1>3. data = Units(p, d.off, n)
  BY <1>2 DEF PartOf
<1>4. \A i \in 1..n : data[i] = <<p, d.off + i - 1>>
  <2>. HIDE DEF d, data, n
  <2>. QED
    BY <1>1, <1>3 DEF Units
<1>5. data[1] = <<p, d.off>>
  <2>1. 1 \in 1..n /\ d.off + 1 - 1 = d.off
    BY <1>1
  <2>. QED
    BY <1>4, <2>1
<1>6. sent[p].len \in Nat
  <2>1. sent[p] \in Packets
    BY DEF Logged
  <2>. QED
    BY <2>1, PacketFacts
<1>. QED
  BY <1>2, <1>4, <1>5, <1>6

\* There is room for a part that goes on with what is held, and it is of the same packet.
LEMMA RoomForNext ==
  ASSUME NEW m, NEW first, NEW log, Logged(m, first, log), NEW k \in 1..Len(log),
         NEW r, IsReceiver(r), k - 1 \in 1..Len(log), HoldsUpTo(r, log, k - 1),
         NEW p \in 1..Len(sent), PartOf(sent, p, log[k]), PartBefore(sent, p, log[k - 1], log[k])
  PROVE  r.buf[0] = <<p, 0>> /\ log[k].off + Len(log[k].data) <= r.bufLen
<1>. DEFINE c == log[k - 1]
            d == log[k]
<1>1. PICK q \in 1..Len(sent) :
        /\ PartOf(sent, q, c) /\ Len(c.data) > 0 /\ StartsWith(r, q, c.off + Len(c.data))
        /\ r.dataLen = sent[q].len /\ r.dataLen <= r.bufLen
  BY DEF HoldsUpTo
<1>2. c.off \in Nat /\ Len(c.data) \in Nat /\ d.off \in Nat /\ Len(d.data) \in Nat
  <2>1. c \in Datagram /\ d \in Datagram
    BY DEF Logged, IsRun
  <2>. QED
    BY <2>1 DEF Datagram
<1>3. q = p
  <2>. DEFINE l == Len(c.data)
              data == c.data
  <2>1. data = Units(p, c.off, l) /\ data = Units(q, c.off, l) /\ l \in Nat /\ l > 0
    BY <1>1, <1>2 DEF PartOf, PartBefore
  <2>. HIDE DEF c, l, data
  <2>2. data[1] = <<p, c.off + 1 - 1>> /\ data[1] = <<q, c.off + 1 - 1>>
    BY <2>1 DEF Units
  <2>. QED
    BY <2>2
<1>4. r.buf[0] = <<p, 0>>
  <2>. DEFINE n == c.off + Len(c.data)
  <2>1. 0 \in 0..(n - 1)
    BY <1>1, <1>2
  <2>2. StartsWith(r, p, n)
    BY <1>1, <1>3
  <2>. HIDE DEF n
  <2>3. \A i \in 0..(n - 1) : r.buf[i] = <<p, i>>
    BY <2>2 DEF StartsWith
  <2>. QED
    BY <2>1, <2>3
<1>5. d.off + Len(d.data) <= r.bufLen
  <2>1. d.off + Len(d.data) <= sent[p].len /\ sent[p].len = r.dataLen /\ r.dataLen <= r.bufLen
    BY <1>1, <1>3 DEF PartOf
  <2>2. r.dataLen \in Nat /\ r.bufLen \in Nat
    BY DEF IsReceiver, Receiver
  <2>. HIDE DEF d
  <2>. QED
    BY <1>2, <2>1, <2>2
<1>. QED
  BY <1>4, <1>5

LEMMA TailLinked ==
  ASSUME NEW ps, NEW ds, ds # <<>>, Linked(ps, ds), Taken(ds)
  PROVE  Linked(ps, Tail(ds)) /\ Taken(Tail(ds))
<1>1. /\ ds \in Seq(Datagram) /\ Tail(ds) \in Seq(Datagram) /\ Len(Tail(ds)) = Len(ds) - 1
      /\ Len(ds) \in Nat /\ \A k \in 1..(Len(ds) - 1) : Tail(ds)[k] = ds[k + 1]
  BY DEF Linked
<1>. DEFINE es == Tail(ds)
<1>. HIDE DEF es
<1>2. ASSUME NEW k \in 1..Len(es)
      PROVE  /\ es[k].type = "Seg" \/ (es[k].type = "Full" /\ es[k].off = 0)
             /\ es[k].data # <<>> /\ es[k].data[1][1] \in 1..Len(ps)
             /\ Unfinished(ps, es[k]) <=> (k < Len(es) /\ es[k + 1].off > 0)
  <2>1. k + 1 \in 1..Len(ds) /\ es[k] = ds[k + 1] /\ (k < Len(es) <=> k + 1 < Len(ds))
        /\ (k < Len(es) => es[k + 1] = ds[k + 1 + 1])
    BY <1>1 DEF es
  <2>. QED
    BY <2>1 DEF Linked
<1>3. ASSUME NEW k \in 1..Len(es)
      PROVE  /\ Len(es[k].data) <= RCV_BUFFER_START_SIZE
             /\ es[k].type = "Seg" => HEADER_STRUCT <= Len(es[k].data)
             /\ (k > 1 /\ es[k].off > 0) => es[k].seq = es[k - 1].seq + 1
  <2>1. k + 1 \in 1..Len(ds) /\ es[k] = ds[k + 1] /\ k + 1 > 1
        /\ (k > 1 => es[k - 1] = ds[k + 1 - 1])
    BY <1>1 DEF es
  <2>. QED
    BY <2>1 DEF Taken
<1>4. Linked(ps, es)
  BY <1>1, <1>2 DEF Linked, es
<1>5. Taken(es)
  BY <1>3 DEF Taken
<1>. QED
  BY <1>4, <1>5 DEF es

\* A packet that is whole in the buffer begins there, and so does one partly received.
LEMMA BegunInBuffer ==
  ASSUME NEW x, NEW p, x.buf[0] = <<p, 0>>, x.ready \in BOOLEAN,
         x.ready => x.pos = 0 /\ x.dataLen \in Nat /\ x.dataLen > 0, ~x.ready => x.gotFirst
  PROVE  InBuffer(p, x)
<1>1. CASE x.ready
  <2>1. 0 \in 0..(x.dataLen - 1) /\ x.pos <= 0
    BY <1>1
  <2>. QED
    BY <1>1, <2>1 DEF InBuffer
<1>2. CASE ~x.ready
  BY <1>2 DEF InBuffer
<1>. QED
  BY <1>1, <1>2

\* The next datagram is a part of a packet.
LEMMA SegmentExpected ==
  ASSUME NEW m, NEW first, NEW log, Logged(m, first, log), Held(rcv, log), ~rcv.ready,
         Linked(sent, wire), Taken(wire), Expected, wire # <<>>,
         NEW k \in 1..Len(log), wire[1] = log[k], wire[1].type = "Seg"
  PROVE  LET x == Take(rcv, wire[1])
             p == wire[1].data[1][1]
         IN /\ x.buf[0] = <<p, 0>> /\ x.drop = rcv.drop /\ rcv.bufLen <= x.bufLen
            /\ x.seq = wire[1].seq
            /\ (wire[1].off > 0 => rcv.buf[0] = <<p, 0>>)
            /\ \A i \in 1..Len(wire[1].data) : wire[1].data[i] = <<p, wire[1].off + i - 1>>
            /\ IF Unfinished(sent, wire[1]) THEN ~x.ready /\ x.gotFirst
                                            ELSE x.ready /\ ~x.gotFirst /\ x.pos = 0
<1>. DEFINE d == wire[1]
            r == FollowSeq(rcv, d)
<1>1. /\ wire \in Seq(Datagram) /\ 1 \in 1..Len(wire) /\ d \in Datagram /\ IsReceiver(rcv)
      /\ d.off \in Nat /\ Len(d.data) \in Nat /\ d.data # <<>> /\ HEADER_STRUCT <= Len(d.data)
      /\ Len(d.data) <= RCV_BUFFER_START_SIZE /\ RCV_BUFFER_START_SIZE <= rcv.bufLen
      /\ RCV_BUFFER_START_SIZE \in Nat /\ rcv.bufLen \in Nat
  <2>1. wire \in Seq(Datagram) /\ 1 \in 1..Len(wire) /\ d \in Datagram /\ IsReceiver(rcv)
    BY DEF Logged, Held
  <2>2. d.off \in Nat /\ Len(d.data) \in Nat
    BY <2>1 DEF Datagram
  <2>3. rcv.bufLen \in Nat /\ RCV_BUFFER_START_SIZE \in Nat
    BY <2>1, NetAssumption DEF IsReceiver, Receiver
  <2>4. d.data # <<>>
    BY <2>1 DEF Linked
  <2>5. HEADER_STRUCT <= Len(d.data) /\ Len(d.data) <= RCV_BUFFER_START_SIZE
    BY <2>1 DEF Taken
  <2>. QED
    BY <2>1, <2>2, <2>3, <2>4, <2>5 DEF Expected
<1>2. PICK p \in 1..Len(sent) :
        /\ PartOf(sent, p, log[k])
        /\ log[k].off = 0 \/ (k > 1 /\ PartBefore(sent, p, log[k - 1], log[k]))
        /\ log[k].data[1] = <<p, log[k].off>> /\ sent[p].len \in Nat
        /\ \A i \in 1..Len(log[k].data) : log[k].data[i] = <<p, log[k].off + i - 1>>
  BY <1>1, SegmentFacts
<1>3. d.data[1] = <<p, d.off>> /\ d.data[1][1] = p
  BY <1>2
<1>4. /\ IsReceiver(r) /\ r.drop = rcv.drop /\ r.bufLen = rcv.bufLen /\ r.buf = rcv.buf
      /\ r.seq = d.seq /\ r.ready = FALSE
      /\ IF d.seq = rcv.seq + 1 THEN r.gotFirst = rcv.gotFirst ELSE ~r.gotFirst
  BY <1>1, FollowKeeps
<1>5. \A j \in 1..Len(log) : (r.gotFirst /\ d = log[j]) =>
        j - 1 \in 1..Len(log) /\ HoldsUpTo(r, log, j - 1)
  BY <1>1, FollowFacts
<1>. HIDE DEF r
<1>6. IF d.off = 0 THEN ~r.gotFirst /\ Len(d.data) <= r.bufLen
                   ELSE r.gotFirst /\ r.buf[0] = <<p, 0>> /\ d.off + Len(d.data) <= r.bufLen
  <2>1. CASE d.off = 0
    <3>1. ~rcv.gotFirst
      BY <1>1, <2>1 DEF Expected
    <3>2. ~r.gotFirst /\ Len(d.data) <= r.bufLen
      BY <1>1, <1>4, <3>1
    <3>. QED
      BY <2>1, <3>2
  <2>2. CASE d.off # 0
    <3>1. rcv.gotFirst /\ d.seq = rcv.seq + 1
      BY <1>1, <2>2 DEF Expected
    <3>2. r.gotFirst
      BY <1>4, <3>1
    <3>3. k - 1 \in 1..Len(log) /\ HoldsUpTo(r, log, k - 1)
      BY <1>5, <3>2
    <3>4. PartBefore(sent, p, log[k - 1], log[k])
      BY <1>2, <2>2
    <3>5. r.buf[0] = <<p, 0>> /\ log[k].off + Len(log[k].data) <= r.bufLen
      BY <1>2, <1>4, <3>3, <3>4, RoomForNext
    <3>. QED
      BY <2>2, <3>2, <3>5
  <2>. QED
    BY <2>1, <2>2
<1>7. LET x == TakeSegment(r, d) IN
      /\ x.buf[0] = <<p, 0>> /\ x.drop = r.drop /\ r.bufLen <= x.bufLen /\ x.seq = r.seq
      /\ IF d.off + Len(d.data) >= sent[p].len
           THEN x.ready /\ ~x.gotFirst /\ x.pos = 0
           ELSE ~x.ready /\ x.gotFirst
  <2>1. IsReceiver(r) /\ ~r.ready /\ d \in Datagram /\ HEADER_STRUCT <= Len(d.data)
    BY <1>1, <1>4
  <2>2. sent[p].len \in Nat /\ d.data[1] = <<p, d.off>>
    BY <1>2, <1>3
  <2>. HIDE DEF d
  <2>. QED
    BY <1>6, <2>1, <2>2, SegmentAccepted
<1>8. Take(rcv, d) = TakeSegment(r, d)
  BY DEF Take, r
<1>9. Unfinished(sent, d) <=> ~(d.off + Len(d.data) >= sent[p].len)
  BY <1>1, <1>2, <1>3 DEF Unfinished
<1>10. d.off > 0 => rcv.buf[0] = <<p, 0>>
  BY <1>1, <1>4, <1>6
<1>11. \A i \in 1..Len(d.data) : d.data[i] = <<p, d.off + i - 1>>
  BY <1>2
<1>. QED
  BY <1>3, <1>4, <1>7, <1>8, <1>9, <1>10, <1>11

\* The next datagram is of whole packets.
LEMMA FullExpected ==
  ASSUME NEW m, NEW first, NEW log, Logged(m, first, log), Held(rcv, log), ~rcv.ready,
         Linked(sent, wire), Taken(wire), Expected, wire # <<>>,
         NEW k \in 1..Len(log), wire[1] = log[k], wire[1].type = "Full"
  PROVE  LET x == Take(rcv, wire[1]) IN
         /\ x.ready /\ ~x.gotFirst /\ x.pos = 0 /\ x.drop = rcv.drop /\ x.bufLen = rcv.bufLen
         /\ Contents(x) = wire[1].data /\ ~Unfinished(sent, wire[1]) /\ ~rcv.gotFirst
<1>. DEFINE d == wire[1]
            r == FollowSeq(rcv, d)
<1>1. /\ wire \in Seq(Datagram) /\ 1 \in 1..Len(wire) /\ d \in Datagram /\ IsReceiver(rcv)
      /\ d.off = 0 /\ Len(d.data) <= rcv.bufLen
  <2>1. wire \in Seq(Datagram) /\ 1 \in 1..Len(wire) /\ d \in Datagram /\ IsReceiver(rcv)
    BY DEF Logged, Held
  <2>2. Len(d.data) \in Nat /\ rcv.bufLen \in Nat
    BY <2>1 DEF Datagram, IsReceiver, Receiver
  <2>. QED
    BY <2>1, <2>2, NetAssumption DEF Linked, Taken, Expected
<1>2. ~rcv.gotFirst
  BY <1>1 DEF Expected
<1>3. /\ IsReceiver(r) /\ r.drop = rcv.drop /\ r.bufLen = rcv.bufLen /\ r.ready = FALSE /\ ~r.gotFirst
  BY <1>1, <1>2, FollowKeeps
<1>. HIDE DEF r
<1>4. WholePackets(sent, d.data)
  BY DEF Logged, IsRun, PartOf
<1>5. LET x == TakeFull(r, d) IN
      /\ x.ready /\ ~x.gotFirst /\ x.pos = 0 /\ x.drop = r.drop /\ x.bufLen = r.bufLen
  BY <1>1, <1>3, FullAccepted
<1>6. LET x == TakeFull(r, d) IN IF x.ready THEN Contents(x) = d.data ELSE ~x.gotFirst
  BY <1>1, <1>3, <1>4, TakeFullHeld
<1>7. Take(rcv, d) = TakeFull(r, d)
  BY DEF Take, r
<1>8. ~Unfinished(sent, d)
  BY DEF Unfinished
<1>. QED
  BY <1>2, <1>3, <1>5, <1>6, <1>7, <1>8

\* A datagram comes in.
LEMMA ReceivedAhead ==
  ASSUME NEW m, NEW first, NEW log, Logged(m, first, log), BufferHeld(log), ReaderFits, OrderInv,
         NoneLost, NetReceive
  PROVE  NoneLost'
<1>1. /\ Waiting /\ UNCHANGED <<sent, snd, mishaps, rd, call, ret>>
      /\ ~rcv.ready /\ wire # <<>> /\ rcv' = Take(rcv, Head(wire)) /\ wire' = Tail(wire)
  BY DEF NetReceive, Receive, DropNext, NoneLost, Expected
<1>2. PICK x : x = rcv'
  OBVIOUS
<1>3. /\ sent \in Seq(Packets) /\ wire \in Seq(Datagram) /\ Head(wire) = wire[1] /\ Len(wire) \in Nat
      /\ 1 \in 1..Len(wire) /\ Linked(sent, wire) /\ Taken(wire) /\ Expected
  BY <1>1 DEF Logged, NoneLost
<1>4. x = Take(rcv, wire[1]) /\ Held(rcv, log)
  BY <1>1, <1>2, <1>3 DEF BufferHeld, Held
<1>5. wire[1] \in Datagram /\ wire[1].type \in {"Full", "Seg"}
  BY <1>3 DEF Linked
<1>6. PICK k \in 1..Len(log) : wire[1] = log[k]
  BY <1>3, <1>5 DEF Logged
<1>7. Held(x, log)
  BY <1>1, <1>4, <1>5, <1>6, TakeHeld
<1>8. IsReceiver(x) /\ x.ready \in BOOLEAN /\ x.dataLen \in Nat
  BY <1>7 DEF Held, IsReceiver, Receiver
<1>9. x.ready => x.dataLen > 0 /\ IsHead(x.buf[0])
  <2>1. SUFFICES ASSUME x.ready PROVE x.dataLen > 0 /\ IsHead(x.buf[0])
    OBVIOUS
  <2>2. WholePackets(sent, Contents(x))
    BY <1>7, <2>1 DEF Held
  <2>3. /\ Len(Contents(x)) = x.dataLen /\ \A i \in 1..x.dataLen : Contents(x)[i] = x.buf[i - 1]
    BY <1>3, <1>8, <2>1, <2>2, BufferUnits
  <2>4. x.dataLen > 0 /\ Contents(x)[1][2] = 0
    BY <2>2, <2>3, <1>8 DEF WholePackets
  <2>5. 1 \in 1..x.dataLen /\ 1 - 1 = 0
    BY <2>4, <1>8
  <2>. QED
    BY <2>3, <2>4, <2>5 DEF IsHead
<1>10. /\ x.ready => x.pos = 0
       /\ x.ready \/ x.gotFirst
       /\ x.gotFirst <=> Unfinished(sent, wire[1])
       /\ x.gotFirst => ~x.ready /\ x.seq = wire[1].seq
       /\ x.drop = rcv.drop /\ rcv.bufLen <= x.bufLen
  <2>1. CASE wire[1].type = "Full"
    <3>1. rcv.bufLen <= rcv.bufLen
      BY <1>4 DEF Held, IsReceiver, Receiver
    <3>. QED
      BY <1>1, <1>3, <1>4, <1>6, <2>1, <3>1, FullExpected
  <2>2. CASE wire[1].type = "Seg"
    BY <1>1, <1>3, <1>4, <1>6, <2>2, SegmentExpected
  <2>. QED
    BY <1>5, <2>1, <2>2
<1>11. Linked(sent, wire)' /\ Taken(wire)'
  <2>1. Linked(sent, Tail(wire)) /\ Taken(Tail(wire))
    BY <1>1, <1>3, TailLinked
  <2>. QED
    BY <1>1, <2>1
<1>12. Expected'
  <2>1. /\ Len(wire') = Len(wire) - 1 /\ wire' \in Seq(Datagram)
        /\ 1 < Len(wire) => wire'[1] = wire[2]
        /\ wire' # <<>> <=> 1 < Len(wire)
    <3>1. /\ wire' = Tail(wire) /\ wire # <<>> /\ wire \in Seq(Datagram) /\ Len(wire) \in Nat
      BY <1>1, <1>3
    <3>2. Len(wire') = Len(wire) - 1 /\ wire' \in Seq(Datagram)
      BY <3>1
    <3>3. 1 < Len(wire) => wire'[1] = wire[2]
      BY <3>1
    <3>4. wire' # <<>> <=> Len(wire') # 0
      BY <3>2
    <3>. QED
      BY <3>1, <3>2, <3>3, <3>4
  <2>2. x.gotFirst <=> (wire' # <<>> /\ wire'[1].off > 0)
    BY <1>3, <1>10, <2>1 DEF Linked
  <2>3. x.gotFirst => wire'[1].seq = x.seq + 1
    <3>1. SUFFICES ASSUME x.gotFirst PROVE wire'[1].seq = x.seq + 1
      OBVIOUS
    <3>2. 2 \in 1..Len(wire) /\ wire'[1] = wire[2] /\ wire[2].off > 0 /\ 2 > 1 /\ 2 - 1 = 1
      BY <1>3, <2>1, <2>2, <3>1
    <3>3. wire[2].seq = wire[2 - 1].seq + 1
      BY <1>3, <3>2 DEF Taken
    <3>. QED
      BY <1>10, <3>1, <3>2, <3>3
  <2>4. Waiting'
    BY <1>1 DEF Waiting
  <2>5. ~x.drop /\ RCV_BUFFER_START_SIZE <= x.bufLen
    <3>1. RCV_BUFFER_START_SIZE \in Nat /\ rcv.bufLen \in Nat /\ x.bufLen \in Nat
      BY <1>4, <1>8, NetAssumption DEF Held, IsReceiver, Receiver
    <3>. QED
      BY <1>3, <1>10, <3>1 DEF Expected
  <2>. QED
    BY <1>2, <1>10, <2>2, <2>3, <2>4, <2>5 DEF Expected
<1>13. AtBorder'
  BY <1>2, <1>8, <1>9, <1>10 DEF AtBorder
<1>14. SecAhead'
  BY <1>1 DEF NoneLost, SecAhead, AtPlace
<1>15. Mark' = Mark
  BY <1>1 DEF Mark
<1>16. ASSUME NEW q, InBuffer(q, rcv) \/ OnItsWay(q, wire)
       PROVE  InBuffer(q, x) \/ OnItsWay(q, wire')
  <2>1. CASE InBuffer(q, rcv)
    <3>1. rcv.gotFirst /\ rcv.buf[0] = <<q, 0>>
      BY <1>1, <2>1 DEF InBuffer
    <3>2. wire[1].off > 0
      BY <1>3, <3>1 DEF Expected
    <3>3. wire[1].type = "Seg"
      BY <1>3, <3>2 DEF Linked
    <3>. DEFINE p == wire[1].data[1][1]
    <3>4. x.buf[0] = <<p, 0>> /\ rcv.buf[0] = <<p, 0>>
      BY <1>1, <1>3, <1>4, <1>6, <3>2, <3>3, SegmentExpected
    <3>5. x.buf[0] = <<q, 0>>
      BY <3>1, <3>4
    <3>. QED
      BY <1>8, <1>9, <1>10, <3>5, BegunInBuffer
  <2>2. CASE OnItsWay(q, wire)
    <3>1. PICK j \in 1..Len(wire) : \E i \in 1..Len(wire[j].data) : wire[j].data[i] = <<q, 0>>
      BY <2>2 DEF OnItsWay
    <3>2. CASE j # 1
      <4>1. j - 1 \in 1..Len(wire') /\ wire'[j - 1] = wire[j]
        BY <1>1, <1>3, <3>1, <3>2
      <4>. QED
        BY <3>1, <4>1 DEF OnItsWay
    <3>3. CASE j = 1 /\ wire[1].type = "Seg"
      <4>. DEFINE p == wire[1].data[1][1]
      <4>1. PICK i \in 1..Len(wire[1].data) : wire[1].data[i] = <<q, 0>>
        BY <3>1, <3>3
      <4>2. /\ x.buf[0] = <<p, 0>>
            /\ \A l \in 1..Len(wire[1].data) : wire[1].data[l] = <<p, wire[1].off + l - 1>>
        BY <1>1, <1>3, <1>4, <1>6, <3>3, SegmentExpected
      <4>. HIDE DEF p
      <4>3. wire[1].data[i] = <<p, wire[1].off + i - 1>>
        BY <4>1, <4>2
      <4>4. p = q
        BY <4>1, <4>3
      <4>. QED
        BY <1>8, <1>9, <1>10, <4>2, <4>4, BegunInBuffer
    <3>4. CASE j = 1 /\ wire[1].type = "Full"
      <4>1. PICK i \in 1..Len(wire[1].data) : wire[1].data[i] = <<q, 0>>
        BY <3>1, <3>4
      <4>2. x.ready /\ x.pos = 0 /\ Contents(x) = wire[1].data
        BY <1>1, <1>3, <1>4, <1>6, <3>4, FullExpected
      <4>3. WholePackets(sent, Contents(x))
        BY <1>7, <4>2 DEF Held
      <4>4. /\ Len(Contents(x)) = x.dataLen /\ \A l \in 1..x.dataLen : Contents(x)[l] = x.buf[l - 1]
        BY <1>3, <1>8, <4>2, <4>3, BufferUnits
      <4>5. i \in 1..x.dataLen /\ x.buf[i - 1] = <<q, 0>>
        BY <4>1, <4>2, <4>4
      <4>6. i - 1 \in 0..(x.dataLen - 1) /\ x.pos <= i - 1
        BY <4>2, <4>5, <1>8
      <4>. QED
        BY <4>2, <4>5, <4>6 DEF InBuffer
    <3>. QED
      BY <1>5, <3>2, <3>3, <3>4
  <2>. QED
    BY <1>16, <2>1, <2>2
<1>17. AllAhead'
  <2>1. ASSUME NEW q \in (Mark + 1)..Len(sent) PROVE InBuffer(q, rcv') \/ OnItsWay(q, wire')
    BY <1>2, <1>16 DEF NoneLost, AllAhead
  <2>. QED
    BY <1>1, <1>15, <2>1 DEF AllAhead
<1>. QED
  BY <1>11, <1>12, <1>13, <1>14, <1>17 DEF NoneLost

-----------------------------------------------------------------------------
(* What is sent goes on where it has been begun.                            *)

LEMMA LinkedConcat ==
  ASSUME NEW ps, NEW a, NEW b, Linked(ps, a), Linked(ps, b), b # <<>> => b[1].off = 0
  PROVE  Linked(ps, a \o b)
<1>. DEFINE c == a \o b
<1>1. a \in Seq(Datagram) /\ b \in Seq(Datagram) /\ Len(a) \in Nat /\ Len(b) \in Nat
  BY DEF Linked
<1>2. /\ c \in Seq(Datagram) /\ Len(c) = Len(a) + Len(b)
      /\ \A i \in 1..Len(a) : c[i] = a[i]
      /\ \A i \in (Len(a) + 1)..(Len(a) + Len(b)) : c[i] = b[i - Len(a)]
  BY <1>1, Behind
<1>. HIDE DEF c
<1>3. ASSUME NEW k \in 1..Len(c)
      PROVE  /\ c[k].type = "Seg" \/ (c[k].type = "Full" /\ c[k].off = 0)
             /\ c[k].data # <<>> /\ c[k].data[1][1] \in 1..Len(ps)
             /\ Unfinished(ps, c[k]) <=> (k < Len(c) /\ c[k + 1].off > 0)
  <2>1. CASE k < Len(a)
    <3>1. /\ k \in 1..Len(a) /\ c[k] = a[k] /\ c[k + 1] = a[k + 1]
          /\ (k < Len(c) <=> k < Len(a))
      BY <1>1, <1>2, <2>1
    <3>. QED
      BY <3>1 DEF Linked
  <2>2. CASE k = Len(a)
    <3>1. k \in 1..Len(a) /\ c[k] = a[k] /\ ~(k < Len(a))
      BY <1>1, <1>2, <2>2
    <3>2. ~Unfinished(ps, c[k])
      BY <3>1 DEF Linked
    <3>3. k < Len(c) => c[k + 1] = b[1] /\ b # <<>>
      BY <1>1, <1>2, <2>2
    <3>. QED
      BY <3>1, <3>2, <3>3 DEF Linked
  <2>3. CASE k > Len(a)
    <3>. DEFINE j == k - Len(a)
    <3>1. /\ j \in 1..Len(b) /\ k \in (Len(a) + 1)..(Len(a) + Len(b)) /\ k - Len(a) = j
          /\ (k < Len(c) <=> j < Len(b)) /\ (k + 1) - Len(a) = j + 1
          /\ (j < Len(b) => k + 1 \in (Len(a) + 1)..(Len(a) + Len(b)))
      BY <1>1, <1>2, <2>3
    <3>2. c[k] = b[j] /\ (j < Len(b) => c[k + 1] = b[j + 1])
      <4>. HIDE DEF j
      <4>. QED
        BY <1>2, <3>1
    <3>. HIDE DEF j
    <3>. QED
      BY <3>1, <3>2 DEF Linked
  <2>. QED
    BY <1>1, <2>1, <2>2, <2>3
<1>4. Linked(ps, c)
  BY <1>2, <1>3 DEF Linked
<1>. QED
  BY <1>4 DEF c

LEMMA TakenConcat ==
  ASSUME NEW a \in Seq(Datagram), NEW b \in Seq(Datagram), Taken(a), Taken(b),
         b # <<>> => b[1].off = 0
  PROVE  Taken(a \o b)
<1>. DEFINE c == a \o b
<1>1. /\ c \in Seq(Datagram) /\ Len(c) = Len(a) + Len(b) /\ Len(a) \in Nat /\ Len(b) \in Nat
      /\ \A i \in 1..Len(a) : c[i] = a[i]
      /\ \A i \in (Len(a) + 1)..(Len(a) + Len(b)) : c[i] = b[i - Len(a)]
  BY Behind
<1>. HIDE DEF c
<1>2. ASSUME NEW k \in 1..Len(c)
      PROVE  /\ Len(c[k].data) <= RCV_BUFFER_START_SIZE
             /\ c[k].type = "Seg" => HEADER_STRUCT <= Len(c[k].data)
             /\ (k > 1 /\ c[k].off > 0) => c[k].seq = c[k - 1].seq + 1
  <2>1. CASE k <= Len(a)
    <3>1. k \in 1..Len(a) /\ c[k] = a[k] /\ (k > 1 => c[k - 1] = a[k - 1])
      BY <1>1, <2>1
    <3>. QED
      BY <3>1 DEF Taken
  <2>2. CASE k = Len(a) + 1
    <3>1. 1 \in 1..Len(b) /\ c[k] = b[1] /\ b # <<>>
      BY <1>1, <2>2
    <3>2. b[1].off = 0 /\ ~(b[1].off > 0)
      BY <3>1
    <3>. QED
      BY <3>1, <3>2 DEF Taken
  <2>3. CASE k > Len(a) + 1
    <3>. DEFINE j == k - Len(a)
    <3>1. /\ j \in 1..Len(b) /\ j > 1 /\ k - Len(a) = j /\ (k - 1) - Len(a) = j - 1
          /\ k \in (Len(a) + 1)..(Len(a) + Len(b)) /\ k - 1 \in (Len(a) + 1)..(Len(a) + Len(b))
      BY <1>1, <2>3
    <3>. HIDE DEF j
    <3>2. c[k] = b[j] /\ c[k - 1] = b[j - 1]
      BY <1>1, <3>1
    <3>. QED
      BY <3>1, <3>2 DEF Taken
  <2>. QED
    BY <1>1, <2>1, <2>2, <2>3
<1>3. Taken(c)
  BY <1>2 DEF Taken
<1>. QED
  BY <1>3 DEF c

LEMMA WayConcat ==
  ASSUME NEW a \in Seq(Datagram), NEW b \in Seq(Datagram), NEW p, OnItsWay(p, a) \/ OnItsWay(p, b)
  PROVE  OnItsWay(p, a \o b)
<1>. DEFINE c == a \o b
<1>1. /\ Len(c) = Len(a) + Len(b) /\ Len(a) \in Nat /\ Len(b) \in Nat
      /\ \A i \in 1..Len(a) : c[i] = a[i]
      /\ \A i \in (Len(a) + 1)..(Len(a) + Len(b)) : c[i] = b[i - Len(a)]
  BY Behind
<1>. HIDE DEF c
<1>2. CASE OnItsWay(p, a)
  <2>1. PICK k \in 1..Len(a) : \E i \in 1..Len(a[k].data) : a[k].data[i] = <<p, 0>>
    BY <1>2 DEF OnItsWay
  <2>2. k \in 1..Len(c) /\ c[k] = a[k]
    BY <1>1
  <2>3. OnItsWay(p, c)
    BY <2>1, <2>2 DEF OnItsWay
  <2>. QED
    BY <2>3 DEF c
<1>3. CASE OnItsWay(p, b)
  <2>1. PICK k \in 1..Len(b) : \E i \in 1..Len(b[k].data) : b[k].data[i] = <<p, 0>>
    BY <1>3 DEF OnItsWay
  <2>2. PICK j : j = Len(a) + k
    OBVIOUS
  <2>3. j \in (Len(a) + 1)..(Len(a) + Len(b)) /\ j - Len(a) = k /\ j \in 1..Len(c)
    BY <1>1, <2>2
  <2>4. c[j] = b[k]
    BY <1>1, <2>3
  <2>5. OnItsWay(p, c)
    BY <2>1, <2>3, <2>4 DEF OnItsWay
  <2>. QED
    BY <2>5 DEF c
<1>. QED
  BY <1>2, <1>3

LEMMA LinkedGrows ==
  ASSUME NEW ps \in Seq(Packets), NEW qs \in Seq(Packets), NEW ds, Linked(ps, ds)
  PROVE  Linked(ps \o qs, ds)
<1>. DEFINE all == ps \o qs
<1>1. /\ Len(all) = Len(ps) + Len(qs) /\ Len(ps) \in Nat /\ Len(qs) \in Nat
      /\ \A i \in 1..Len(ps) : all[i] = ps[i]
  BY Behind
<1>. HIDE DEF all
<1>2. ASSUME NEW k \in 1..Len(ds)
      PROVE  /\ ds[k].data[1][1] \in 1..Len(all)
             /\ Unfinished(all, ds[k]) <=> Unfinished(ps, ds[k])
  <2>1. ds[k].data[1][1] \in 1..Len(ps)
    BY DEF Linked
  <2>. QED
    BY <1>1, <2>1 DEF Unfinished
<1>3. Linked(all, ds)
  BY <1>2 DEF Linked
<1>. QED
  BY <1>3 DEF all

\* There are as many segments as the packet fills.
LEMMA SegmentsFill ==
  ASSUME NEW w \in Nat \ {0}, NEW len \in Nat, NEW k \in Nat \ {0}
  PROVE  k < (len + w - 1) \div w <=> k * w < len
<1>. DEFINE K == (len + w - 1) \div w
<1>1. K \in Nat /\ K * w <= len + w - 1 /\ len + w - 1 < K * w + w
  OBVIOUS
<1>. HIDE DEF K
<1>2. ASSUME k < K PROVE k * w < len
  <2>1. (k + 1) * w <= K * w
    BY <1>1, <1>2
  <2>2. (k + 1) * w = k * w + w /\ k * w \in Nat
    OBVIOUS
  <2>. QED
    BY <1>1, <2>1, <2>2
<1>3. ASSUME ~(k < K) PROVE ~(k * w < len)
  <2>1. K * w <= k * w
    BY <1>1, <1>3
  <2>2. k * w \in Nat /\ K * w \in Nat
    BY <1>1
  <2>. QED
    BY <1>1, <2>1, <2>2
<1>. QED
  BY <1>2, <1>3 DEF K

\* The datagrams of packet p, from its beginning on and with none left unfinished.
Delivers(ps, p, ds) == Linked(ps, ds) /\ (ds # <<>> => ds[1].off = 0) /\ OnItsWay(p, ds)

LEMMA SegmentsLinked ==
  ASSUME NEW ps \in Seq(Packets), NEW p \in 1..Len(ps)
  PROVE  Delivers(ps, p, Segments(p, ps[p].len))
<1>. DEFINE w == MAX_UDP_WRITE_SIZE
            len == ps[p].len
            K == (len + w - 1) \div w
            off(k) == (k - 1) * w
            n(k) == MinOf(w, len - off(k))
            d(k) == [seq |-> 0, type |-> "Seg", off |-> off(k), data |-> Units(p, off(k), n(k))]
            ds == Segments(p, len)
<1>1. w \in Nat \ {0} /\ len \in Nat \ {0} /\ p \in Nat /\ 0 \in 0..(SEQ_MOD - 1)
  <2>1. ps[p] \in Packets /\ p \in Nat
    OBVIOUS
  <2>2. w \in Nat \ {0} /\ 0 \in 0..(SEQ_MOD - 1)
    BY NetAssumption
  <2>. QED
    BY <2>1, <2>2, PacketFacts
<1>. HIDE DEF w, len
<1>2. K \in Nat
  BY <1>1
<1>3. ds = [k \in 1..K |-> d(k)]
  BY DEF Segments, w
<1>4. K > 0
  <2>1. ASSUME K = 0 PROVE FALSE
    <3>1. len + w - 1 < K * w + w
      BY <1>1
    <3>2. K * w = 0
      BY <1>1, <2>1
    <3>. HIDE DEF K
    <3>. QED
      BY <1>1, <3>1, <3>2
  <2>. HIDE DEF K
  <2>. QED
    BY <1>2, <2>1
<1>5. ASSUME NEW k \in 1..K
      PROVE  /\ off(k) \in Nat /\ n(k) \in Nat \ {0} /\ (k < K => off(k + 1) > 0)
             /\ off(k) + n(k) < len <=> k < K
  <2>1. (k - 1) * w \in Nat /\ (k - 1) * w < len
    BY <1>1, SegmentPlaces DEF K
  <2>2. k < K <=> k * w < len
    BY <1>1, SegmentsFill DEF K
  <2>3. k \in Nat \ {0} /\ k * w = (k - 1) * w + w /\ k * w > 0 /\ k + 1 - 1 = k /\ k * w \in Nat
    BY <1>1, <1>2
  <2>4. off(k) = (k - 1) * w /\ off(k + 1) = k * w
    BY <2>3
  <2>. HIDE DEF K, off
  <2>5. n(k) = IF w <= len - off(k) THEN w ELSE len - off(k)
    BY DEF MinOf
  <2>. HIDE DEF n
  <2>. QED
    BY <1>1, <2>1, <2>2, <2>3, <2>4, <2>5
<1>6. off(1) = 0
  BY <1>1
<1>. HIDE DEF K, off, n
<1>7. ASSUME NEW k \in 1..K
      PROVE  /\ d(k) \in Datagram /\ d(k).type = "Seg" /\ d(k).off = off(k) /\ d(k).data # <<>>
             /\ d(k).data[1] = <<p, off(k)>> /\ Len(d(k).data) = n(k)
  <2>. DEFINE data == Units(p, off(k), n(k))
  <2>1. data \in Seq(Unit) /\ Len(data) = n(k) /\ \A i \in 1..n(k) : data[i] = <<p, off(k) + i - 1>>
    BY <1>1, <1>5, UnitsFacts
  <2>2. 1 \in 1..n(k) /\ off(k) + 1 - 1 = off(k)
    BY <1>5
  <2>3. d(k).data = data
    OBVIOUS
  <2>. HIDE DEF data
  <2>4. data # <<>> /\ data[1] = <<p, off(k)>>
    BY <1>5, <2>1, <2>2
  <2>. QED
    BY <1>1, <1>5, <2>1, <2>3, <2>4 DEF Datagram
<1>8. ds \in Seq(Datagram) /\ Len(ds) = K /\ \A k \in 1..K : ds[k] = d(k)
  <2>. HIDE DEF d, ds
  <2>1. DOMAIN ds = 1..K
    BY <1>3
  <2>. QED
    BY <1>2, <1>3, <1>7, <2>1
<1>. HIDE DEF d, ds
<1>9. ASSUME NEW k \in 1..Len(ds)
      PROVE  /\ ds[k].type = "Seg" \/ (ds[k].type = "Full" /\ ds[k].off = 0)
             /\ ds[k].data # <<>> /\ ds[k].data[1][1] \in 1..Len(ps)
             /\ Unfinished(ps, ds[k]) <=> (k < Len(ds) /\ ds[k + 1].off > 0)
  <2>1. k \in 1..K /\ ds[k] = d(k) /\ (k < K => k + 1 \in 1..K)
    BY <1>2, <1>8
  <2>2. /\ ds[k].type = "Seg" /\ ds[k].data # <<>> /\ ds[k].data[1][1] = p
        /\ Len(ds[k].data) = n(k) /\ ds[k].off = off(k)
    BY <1>7, <2>1
  <2>3. Unfinished(ps, ds[k]) <=> k < K
    BY <1>5, <2>1, <2>2 DEF Unfinished, len
  <2>4. k < K => ds[k + 1].off > 0
    BY <1>5, <1>7, <1>8, <2>1
  <2>. QED
    BY <1>8, <2>2, <2>3, <2>4
<1>10. 1 \in 1..Len(ds) /\ ds[1].off = 0 /\ ds[1].data # <<>> /\ ds[1].data[1] = <<p, 0>>
       /\ Len(ds[1].data) \in Nat \ {0}
  <2>1. 1 \in 1..K
    BY <1>2, <1>4
  <2>. QED
    BY <1>5, <1>6, <1>7, <1>8, <2>1
<1>11. OnItsWay(p, ds)
  <2>1. 1 \in 1..Len(ds[1].data)
    BY <1>10
  <2>. QED
    BY <1>10, <2>1 DEF OnItsWay
<1>12. Delivers(ps, p, ds)
  BY <1>8, <1>9, <1>10, <1>11 DEF Linked, Delivers
<1>. QED
  BY <1>12 DEF ds, len

\* A datagram of whole packets.
LEMMA FullLinked ==
  ASSUME NEW ps, NEW data, WholePackets(ps, data)
  PROVE  LET ds == <<FullDatagram(data)>> IN
         /\ Linked(ps, ds) /\ ds[1].off = 0
         /\ \A p : (\E i \in 1..Len(data) : data[i] = <<p, 0>>) => OnItsWay(p, ds)
<1>. DEFINE d == FullDatagram(data)
<1>1. /\ d \in Datagram /\ d.type = "Full" /\ d.off = 0 /\ d.data = data
      /\ data # <<>> /\ data[1][1] \in 1..Len(ps)
  <2>1. data \in Seq(Unit) /\ data # <<>> /\ 1 \in 1..Len(data)
    BY DEF WholePackets
  <2>2. data[1][1] \in 1..Len(ps)
    BY <2>1 DEF WholePackets
  <2>. QED
    BY <2>1, <2>2, NetAssumption DEF FullDatagram, Datagram
<1>. HIDE DEF d
<1>2. <<d>> \in Seq(Datagram) /\ Len(<<d>>) = 1 /\ <<d>>[1] = d /\ ~Unfinished(ps, d)
  BY <1>1 DEF Unfinished
<1>3. Linked(ps, <<d>>)
  BY <1>1, <1>2 DEF Linked
<1>4. ASSUME NEW p, NEW i \in 1..Len(data), data[i] = <<p, 0>> PROVE OnItsWay(p, <<d>>)
  BY <1>1, <1>2, <1>4 DEF OnItsWay
<1>. QED
  BY <1>1, <1>3, <1>4 DEF d

LEMMA PartsLinked ==
  ASSUME NEW ps \in Seq(Packets), NEW p \in 1..Len(ps)
  PROVE  Delivers(ps, p, Parts(p, ps[p].len))
<1>1. CASE ps[p].len > MAX_UDP_WRITE_SIZE
  BY <1>1, SegmentsLinked DEF Parts
<1>2. CASE ~(ps[p].len > MAX_UDP_WRITE_SIZE)
  <2>. DEFINE n == ps[p].len
              data == Units(p, 0, n)
              ds == <<FullDatagram(data)>>
  <2>1. WholePackets(ps, data)
    BY WholeUnits
  <2>2. n \in Nat \ {0} /\ p \in Nat
    <3>1. ps[p] \in Packets /\ p \in Nat
      OBVIOUS
    <3>. QED
      BY <3>1, PacketFacts
  <2>3. Parts(p, n) = ds
    BY <1>2 DEF Parts
  <2>. HIDE DEF n
  <2>4. Len(data) = n /\ \A i \in 1..n : data[i] = <<p, 0 + i - 1>>
    BY <2>2, UnitsFacts, 0 \in Nat
  <2>. HIDE DEF data
  <2>5. 1 \in 1..Len(data) /\ data[1] = <<p, 0>>
    BY <2>2, <2>4
  <2>6. Delivers(ps, p, ds)
    BY <2>1, <2>5, FullLinked DEF Delivers
  <2>. QED
    BY <2>3, <2>6 DEF n
<1>. QED
  BY <1>1, <1>2

\* Numbering changes nothing else.
LEMMA NumberedSame ==
  ASSUME NEW ds \in Seq(Datagram), NEW s \in Nat
  PROVE  /\ Numbered(ds, s) \in Seq(Datagram) /\ Len(Numbered(ds, s)) = Len(ds)
         /\ \A k \in 1..Len(ds) :
              /\ Numbered(ds, s)[k].seq = (s + k - 1) % SEQ_MOD
              /\ Numbered(ds, s)[k].type = ds[k].type /\ Numbered(ds, s)[k].off = ds[k].off
              /\ Numbered(ds, s)[k].data = ds[k].data
<1>. DEFINE d == Numbered(ds, s)
<1>1. Len(ds) \in Nat /\ DOMAIN ds = 1..Len(ds)
  OBVIOUS
<1>2. \A k \in 1..Len(ds) : /\ (s + k - 1) % SEQ_MOD \in 0..(SEQ_MOD - 1)
                           /\ ds[k] \in Datagram
                           /\ d[k] = [ds[k] EXCEPT !.seq = (s + k - 1) % SEQ_MOD]
  <2>1. \A k \in 1..Len(ds) : (s + k - 1) % SEQ_MOD \in 0..(SEQ_MOD - 1)
    BY <1>1, NetAssumption
  <2>. QED
    BY <1>1, <2>1 DEF Numbered
<1>3. \A k \in 1..Len(ds) : /\ d[k] \in Datagram /\ d[k].seq = (s + k - 1) % SEQ_MOD
                           /\ d[k].type = ds[k].type /\ d[k].off = ds[k].off
                           /\ d[k].data = ds[k].data
  BY <1>2 DEF Datagram
<1>4. d \in Seq(Datagram) /\ Len(d) = Len(ds)
  <2>1. DOMAIN d = 1..Len(ds) /\ d = [k \in 1..Len(ds) |-> d[k]]
    BY <1>1 DEF Numbered
  <2>. HIDE DEF d
  <2>. QED
    BY <1>1, <1>3, <2>1
<1>. QED
  BY <1>3, <1>4

\* Numbered from the sender's number on, and without a trouble among them, they are taken.
LEMMA NumberedLinked ==
  ASSUME NEW ps, NEW ds, Linked(ps, ds), snd.seq \in 0..(SEQ_MOD - 1), Len(ds) < SEQ_MOD,
         ds # <<>> => ds[1].off = 0, Troubles(ds) = {}
  PROVE  LET es == Numbered(ds, snd.seq) IN
         /\ Linked(ps, es) /\ Taken(es) /\ (es # <<>> => es[1].off = 0)
         /\ \A p : OnItsWay(p, ds) => OnItsWay(p, es)
<1>. DEFINE es == Numbered(ds, snd.seq)
            s == snd.seq
<1>1. /\ ds \in Seq(Datagram) /\ Len(ds) \in Nat /\ SEQ_MOD \in Nat \ {0} /\ s \in Nat /\ DOMAIN ds = 1..Len(ds)
  BY NetAssumption DEF Linked
<1>2. /\ es \in Seq(Datagram) /\ Len(es) = Len(ds)
      /\ \A k \in 1..Len(ds) :
           /\ es[k].seq = (s + k - 1) % SEQ_MOD
           /\ es[k].type = ds[k].type /\ es[k].off = ds[k].off /\ es[k].data = ds[k].data
  BY <1>1, NumberedSame
<1>3. ASSUME NEW k \in 1..Len(ds)
      PROVE  /\ Len(ds[k].data) <= RCV_BUFFER_START_SIZE
             /\ ds[k].type = "Seg" => HEADER_STRUCT <= Len(ds[k].data)
             /\ ds[k].off > 0 => (s + k - 1) % SEQ_MOD # 0
  <2>1. k \in DOMAIN ds /\ ds[k] \in Datagram
    BY <1>1
  <2>2. Len(ds[k].data) \in Nat /\ RCV_BUFFER_START_SIZE \in Nat /\ HEADER_STRUCT \in Nat
    BY <2>1, NetAssumption DEF Datagram
  <2>3. ~(Len(ds[k].data) > RCV_BUFFER_START_SIZE)
    <3>1. "TooLong" \notin Troubles(ds)
      OBVIOUS
    <3>. QED
      BY <2>1, <3>1 DEF Troubles
  <2>4. ~(ds[k].type = "Seg" /\ Len(ds[k].data) < HEADER_STRUCT)
    <3>1. "ShortTail" \notin Troubles(ds)
      OBVIOUS
    <3>. QED
      BY <2>1, <3>1 DEF Troubles
  <2>5. ~(ds[k].off > 0 /\ (s + k - 1) % SEQ_MOD = 0)
    <3>1. "Wrapped" \notin Troubles(ds)
      OBVIOUS
    <3>. QED
      BY <2>1, <3>1 DEF Troubles
  <2>. QED
    BY <2>2, <2>3, <2>4, <2>5
<1>. HIDE DEF es
<1>4. ASSUME NEW k \in 1..Len(es), k > 1, es[k].off > 0 PROVE es[k].seq = es[k - 1].seq + 1
  <2>. DEFINE x == s + k - 1
              y == s + k - 2
  <2>1. k \in 1..Len(ds) /\ k - 1 \in 1..Len(ds) /\ s + (k - 1) - 1 = y
    BY <1>1, <1>2, <1>4
  <2>2. /\ x \in 0..(2 * SEQ_MOD - 1) /\ y \in 0..(2 * SEQ_MOD - 1) /\ x = y + 1 /\ x \in Nat /\ y \in Nat
    BY <1>1, <2>1
  <2>3. es[k].seq = x % SEQ_MOD /\ es[k - 1].seq = y % SEQ_MOD /\ x % SEQ_MOD # 0
    BY <1>2, <1>3, <1>4, <2>1
  <2>. HIDE DEF x, y
  <2>4. /\ x % SEQ_MOD = IF x < SEQ_MOD THEN x ELSE x - SEQ_MOD
        /\ y % SEQ_MOD = IF y < SEQ_MOD THEN y ELSE y - SEQ_MOD
    BY <2>2, ModSmall
  <2>. DEFINE u == x % SEQ_MOD
              v == y % SEQ_MOD
  <2>5. /\ es[k].seq = u /\ es[k - 1].seq = v /\ u # 0
        /\ u = IF x < SEQ_MOD THEN x ELSE x - SEQ_MOD
        /\ v = IF y < SEQ_MOD THEN y ELSE y - SEQ_MOD
    BY <2>3, <2>4
  <2>. HIDE DEF u, v
  <2>6. u = v + 1
    BY <1>1, <2>2, <2>5
  <2>. QED
    BY <2>5, <2>6
<1>5. Taken(es)
  BY <1>2, <1>3, <1>4 DEF Taken
<1>6. Linked(ps, es)
  <2>1. ASSUME NEW k \in 1..Len(es)
        PROVE  /\ es[k].type = "Seg" \/ (es[k].type = "Full" /\ es[k].off = 0)
               /\ es[k].data # <<>> /\ es[k].data[1][1] \in 1..Len(ps)
               /\ Unfinished(ps, es[k]) <=> (k < Len(es) /\ es[k + 1].off > 0)
    <3>1. k \in 1..Len(ds) /\ (k < Len(ds) => k + 1 \in 1..Len(ds))
      BY <1>1, <1>2
    <3>2. Unfinished(ps, es[k]) <=> Unfinished(ps, ds[k])
      BY <1>2, <3>1 DEF Unfinished
    <3>. QED
      BY <1>2, <3>1, <3>2 DEF Linked
  <2>. QED
    BY <1>2, <2>1 DEF Linked
<1>7. es # <<>> => es[1].off = 0
  <2>1. es # <<>> => ds # <<>> /\ 1 \in 1..Len(ds)
    BY <1>1, <1>2
  <2>. QED
    BY <1>2, <2>1
<1>8. \A p : OnItsWay(p, ds) => OnItsWay(p, es)
  BY <1>2 DEF OnItsWay
<1>. QED
  BY <1>5, <1>6, <1>7, <1>8 DEF es

\* All the caller's packets that are handled are on their way.
LEMMA BurstLinked ==
  ASSUME NEW m, FewerThanNumbers(m), sent \in Seq(Packets), NEW b \in Seq(Packets)
  PROVE  LET ps == sent \o SubSeq(b, 1, Handled(b))
             ds == BurstOf(b, Complete(b))
         IN /\ Linked(ps, ds) /\ (ds # <<>> => ds[1].off = 0)
            /\ \A p \in (Len(sent) + 1)..Len(ps) : OnItsWay(p, ds)
<1>. DEFINE h == Handled(b)
            l == Len(sent)
            qs == SubSeq(b, 1, h)
            ps == sent \o qs
            x(i) == SubSeq(PartsOf(b, i), 1, Complete(b)[i])
            ss == [i \in 1..h |-> x(i)]
            All(n, ds) == /\ Linked(ps, ds) /\ (ds # <<>> => ds[1].off = 0)
                          /\ \A p \in (l + 1)..(l + n) : OnItsWay(p, ds)
            C == [n \in Nat |-> {ds \in Seq(Datagram) : All(n, ds)}]
<1>1. h \in 0..Len(b) /\ Len(b) \in Nat /\ h \in Nat /\ l \in Nat
  BY HandledFacts
<1>2. qs \in Seq(Packets) /\ Len(qs) = h /\ \A i \in 1..h : qs[i] = b[i]
  BY <1>1
<1>3. /\ ps \in Seq(Packets) /\ Len(ps) = l + h
      /\ \A i \in 1..h : l + i \in 1..Len(ps) /\ ps[l + i] = b[i]
  BY <1>1, <1>2
<1>. HIDE DEF ps, qs
<1>4. ASSUME NEW i \in 1..h PROVE x(i) \in Seq(Datagram) /\ Delivers(ps, l + i, x(i))
  <2>1. PartsOf(b, i) = Parts(l + i, ps[l + i].len)
    BY <1>3 DEF PartsOf
  <2>2. Delivers(ps, l + i, PartsOf(b, i))
    <3>1. PICK p \in 1..Len(ps) : p = l + i
      BY <1>3
    <3>2. Delivers(ps, p, Parts(p, ps[p].len))
      BY <1>3, PartsLinked
    <3>. QED
      BY <2>1, <3>1, <3>2
  <2>3. PartsOf(b, i) \in Seq(Datagram) /\ Complete(b)[i] = Len(PartsOf(b, i))
    BY <2>2 DEF Delivers, Linked, Complete
  <2>4. x(i) = PartsOf(b, i)
    BY <2>3
  <2>. QED
    BY <2>2, <2>3, <2>4
<1>. HIDE DEF x, h, l
<1>5. ss \in Seq(Seq(Datagram)) /\ Len(ss) = h /\ \A i \in 1..h : ss[i] = x(i)
  BY <1>1, <1>4
<1>. HIDE DEF ss
<1>6. <<>> \in C[0]
  <2>1. Linked(ps, <<>>)
    BY DEF Linked
  <2>2. All(0, <<>>)
    BY <1>1, <2>1
  <2>. QED
    BY <2>2
<1>7. ASSUME NEW n \in 0..(Len(ss) - 1), NEW a \in C[n] PROVE a \o ss[n + 1] \in C[n + 1]
  <2>. DEFINE i == n + 1
              c == ss[n + 1]
  <2>1. n \in Nat /\ i \in 1..h /\ i \in Nat
    BY <1>1, <1>5
  <2>2. a \in Seq(Datagram) /\ All(n, a)
    BY <1>7, <2>1
  <2>3. c \in Seq(Datagram) /\ Delivers(ps, l + i, c)
    BY <1>4, <1>5, <2>1
  <2>. HIDE DEF c
  <2>4. Linked(ps, a \o c)
    BY <2>2, <2>3, LinkedConcat DEF Delivers
  <2>5. (a \o c) # <<>> => (a \o c)[1].off = 0
    <3>1. CASE a = <<>>
      <4>1. a \o c = c
        BY <2>3, <3>1
      <4>. QED
        BY <2>3, <4>1 DEF Delivers
    <3>2. CASE a # <<>>
      <4>1. (a \o c)[1] = a[1]
        BY <2>2, <2>3, <3>2, Behind
      <4>. QED
        BY <2>2, <3>2, <4>1
    <3>. QED
      BY <3>1, <3>2
  <2>6. ASSUME NEW p \in (l + 1)..(l + i) PROVE OnItsWay(p, a \o c)
    <3>1. p = l + i \/ p \in (l + 1)..(l + n)
      BY <1>1, <2>1
    <3>2. OnItsWay(p, a) \/ OnItsWay(p, c)
      BY <2>2, <2>3, <3>1 DEF Delivers
    <3>. QED
      BY <2>2, <2>3, <3>2, WayConcat
  <2>7. a \o c \in Seq(Datagram)
    BY <2>2, <2>3
  <2>8. All(i, a \o c)
    BY <2>4, <2>5, <2>6
  <2>. HIDE DEF All
  <2>. QED
    BY <2>1, <2>7, <2>8 DEF c
<1>8. FlattenSeq(ss) \in C[Len(ss)]
  <2>. HIDE DEF C
  <2>. QED
    BY <1>5, <1>6, <1>7, FlattenGrows
<1>9. FlattenSeq(ss) = BurstOf(b, Complete(b))
  BY DEF ss, x, h, BurstOf
<1>10. All(h, FlattenSeq(ss))
  <2>. HIDE DEF All
  <2>. QED
    BY <1>1, <1>5, <1>8
<1>. QED
  BY <1>3, <1>9, <1>10 DEF ps, qs, h, l

\* All the packets a recorder bundles begin in its datagram.
LEMMA BundleBegins ==
  ASSUME sent \in Seq(Packets), NEW b \in Seq(Packets)
  PROVE  LET data == FlattenSeq([i \in DOMAIN b |-> Units(Len(sent) + i, 0, b[i].len)]) IN
         \A p \in (Len(sent) + 1)..(Len(sent) + Len(b)) : \E i \in 1..Len(data) : data[i] = <<p, 0>>
<1>. DEFINE h == Len(b)
            l == Len(sent)
            x(i) == Units(l + i, 0, b[i].len)
            ss == [i \in DOMAIN b |-> x(i)]
            Begins(p, data) == \E i \in 1..Len(data) : data[i] = <<p, 0>>
            C == [n \in Nat |-> {data \in Seq(Unit) : \A p \in (l + 1)..(l + n) : Begins(p, data)}]
<1>1. h \in Nat /\ l \in Nat /\ DOMAIN b = 1..h
  OBVIOUS
<1>2. ASSUME NEW i \in 1..h PROVE x(i) \in Seq(Unit) /\ Begins(l + i, x(i))
  <2>. DEFINE n == b[i].len
              p == l + i
              data == Units(p, 0, n)
  <2>1. p \in Nat /\ n \in Nat \ {0}
    <3>1. b[i] \in Packets
      BY <1>1
    <3>. QED
      BY <1>1, <3>1, PacketFacts
  <2>2. x(i) = data
    OBVIOUS
  <2>. HIDE DEF n, p, x
  <2>3. data \in Seq(Unit) /\ Len(data) = n /\ \A j \in 1..n : data[j] = <<p, 0 + j - 1>>
    BY <2>1, UnitsFacts, 0 \in Nat
  <2>. HIDE DEF data
  <2>4. 1 \in 1..Len(data) /\ data[1] = <<p, 0>>
    BY <2>1, <2>3
  <2>. QED
    BY <2>2, <2>3, <2>4 DEF p
<1>. HIDE DEF x, h, l
<1>3. ss \in Seq(Seq(Unit)) /\ Len(ss) = h /\ \A i \in 1..h : ss[i] = x(i)
  BY <1>1, <1>2
<1>. HIDE DEF ss
<1>4. <<>> \in C[0]
  BY <1>1
<1>5. ASSUME NEW n \in 0..(Len(ss) - 1), NEW a \in C[n] PROVE a \o ss[n + 1] \in C[n + 1]
  <2>. DEFINE i == n + 1
              c == ss[n + 1]
              ac == a \o c
  <2>1. n \in Nat /\ i \in 1..h /\ i \in Nat
    BY <1>1, <1>3
  <2>2. a \in Seq(Unit) /\ \A p \in (l + 1)..(l + n) : Begins(p, a)
    BY <1>5, <2>1
  <2>3. c \in Seq(Unit) /\ Begins(l + i, c)
    BY <1>2, <1>3, <2>1
  <2>. HIDE DEF c
  <2>4. /\ ac \in Seq(Unit) /\ Len(ac) = Len(a) + Len(c) /\ Len(a) \in Nat /\ Len(c) \in Nat
        /\ \A j \in 1..Len(a) : ac[j] = a[j]
        /\ \A j \in (Len(a) + 1)..(Len(a) + Len(c)) : ac[j] = c[j - Len(a)]
    BY <2>2, <2>3, Behind
  <2>. HIDE DEF ac
  <2>5. ASSUME NEW p \in (l + 1)..(l + i) PROVE Begins(p, ac)
    <3>1. p = l + i \/ p \in (l + 1)..(l + n)
      BY <1>1, <2>1
    <3>2. CASE p \in (l + 1)..(l + n)
      <4>1. PICK j \in 1..Len(a) : a[j] = <<p, 0>>
        BY <2>2, <3>2
      <4>2. j \in 1..Len(ac) /\ ac[j] = <<p, 0>>
        BY <2>4, <4>1
      <4>. QED
        BY <4>2
    <3>3. CASE p = l + i
      <4>1. PICK k \in 1..Len(c) : c[k] = <<p, 0>>
        BY <2>3, <3>3
      <4>2. PICK j : j = Len(a) + k
        OBVIOUS
      <4>3. j \in (Len(a) + 1)..(Len(a) + Len(c)) /\ j - Len(a) = k /\ j \in 1..Len(ac)
        BY <2>4, <4>2
      <4>4. ac[j] = <<p, 0>>
        BY <2>4, <4>1, <4>3
      <4>. QED
        BY <4>3, <4>4
    <3>. QED
      BY <3>1, <3>2, <3>3
  <2>. HIDE DEF Begins
  <2>. QED
    BY <2>1, <2>4, <2>5 DEF c, ac
<1>6. FlattenSeq(ss) \in C[Len(ss)]
  <2>. HIDE DEF C
  <2>. QED
    BY <1>3, <1>4, <1>5, FlattenGrows
<1>7. \A p \in (l + 1)..(l + h) : Begins(p, FlattenSeq(ss))
  <2>. HIDE DEF Begins
  <2>. QED
    BY <1>1, <1>3, <1>6
<1>. QED
  BY <1>7 DEF ss, x, h, l

\* Packets are sent, in datagrams that no trouble is with.
LEMMA SentAhead ==
  ASSUME NEW m, NEW first, NEW log, Logged(m, first, log), BufferHeld(log), ReaderFits, OrderInv,
         NoneLost, NEW qs \in Seq(Packets), sent' = sent \o qs, NEW ds, Linked(sent', ds),
         ds # <<>> => ds[1].off = 0, \A p \in (Len(sent) + 1)..Len(sent') : OnItsWay(p, ds),
         Len(ds) < SEQ_MOD, Troubles(ds) = {},
         wire' = wire \o Numbered(ds, snd.seq), UNCHANGED <<rcv, rd, call>>
  PROVE  NoneLost'
<1>. DEFINE es == Numbered(ds, snd.seq)
<1>1. /\ sent \in Seq(Packets) /\ wire \in Seq(Datagram) /\ Mark \in Nat /\ Mark <= Len(sent)
      /\ Len(sent) \in Nat
  BY MarkFacts DEF Logged, OrderInv
<1>2. snd.seq \in 0..(SEQ_MOD - 1)
  <2>1. first \in Nat /\ Len(log) \in Nat /\ SEQ_MOD \in Nat \ {0}
    BY NetAssumption DEF Logged, IsRun
  <2>. QED
    BY <2>1 DEF Logged
<1>3. /\ Linked(sent', es) /\ Taken(es) /\ (es # <<>> => es[1].off = 0)
      /\ \A p : OnItsWay(p, ds) => OnItsWay(p, es)
  BY <1>2, NumberedLinked
<1>4. es \in Seq(Datagram)
  BY <1>3 DEF Linked
<1>. HIDE DEF es
<1>5. wire' = wire \o es
  BY DEF es
<1>6. Linked(sent', wire')
  <2>1. Linked(sent, wire)
    BY DEF NoneLost
  <2>2. Linked(sent', wire)
    BY <1>1, <2>1, LinkedGrows
  <2>. QED
    BY <1>3, <1>5, <2>2, LinkedConcat
<1>7. Taken(wire')
  BY <1>1, <1>3, <1>4, <1>5, TakenConcat DEF NoneLost
<1>8. Expected'
  <2>1. CASE wire = <<>>
    <3>1. wire' = es
      BY <1>4, <1>5, <2>1
    <3>2. ~(wire' # <<>> /\ wire'[1].off > 0)
      BY <1>3, <3>1
    <3>3. ~rcv.gotFirst
      BY <2>1 DEF NoneLost, Expected
    <3>. QED
      BY <3>2, <3>3 DEF NoneLost, Expected
  <2>2. CASE wire # <<>>
    <3>1. wire' # <<>> /\ wire'[1] = wire[1]
      BY <1>1, <1>4, <1>5, <2>2
    <3>. QED
      BY <2>2, <3>1 DEF NoneLost, Expected, Waiting
  <2>. QED
    BY <2>1, <2>2
<1>9. AtBorder'
  <2>1. ASSUME HeaderDue, rcv.ready PROVE rcv.pos < rcv.dataLen /\ rcv.buf[rcv.pos][2] = 0
    BY <2>1 DEF NoneLost, AtBorder, IsHead
  <2>2. HeaderDue' = HeaderDue
    BY DEF HeaderDue
  <2>. QED
    BY <2>1, <2>2 DEF AtBorder, IsHead
<1>10. SecAhead'
  BY DEF NoneLost, SecAhead, AtPlace
<1>11. AllAhead'
  <2>1. Mark' = Mark
    BY DEF Mark
  <2>2. ASSUME NEW p \in (Mark + 1)..Len(sent') PROVE InBuffer(p, rcv) \/ OnItsWay(p, wire')
    <3>1. Len(sent') \in Nat
      BY <1>1
    <3>2. CASE p \in (Mark + 1)..Len(sent)
      BY <1>1, <1>4, <1>5, <3>2, WayConcat DEF NoneLost, AllAhead
    <3>3. CASE p \in (Len(sent) + 1)..Len(sent')
      <4>1. OnItsWay(p, es)
        BY <1>3, <3>3
      <4>. QED
        BY <1>1, <1>4, <1>5, <4>1, WayConcat
    <3>. QED
      BY <1>1, <3>1, <3>2, <3>3
  <2>3. \A p \in (Mark' + 1)..Len(sent') : InBuffer(p, rcv') \/ OnItsWay(p, wire')
    BY <2>1, <2>2
  <2>. QED
    BY <2>3 DEF AllAhead
<1>. QED
  BY <1>6, <1>7, <1>8, <1>9, <1>10, <1>11 DEF NoneLost

\* No trouble comes up where there is none after the step.
LEMMA BurstAhead ==
  ASSUME NEW m, NEW first, NEW log, Logged(m, first, log), BufferHeld(log), ReaderFits, OrderInv,
         NoneLost, NEW b \in Bursts, NEW counts \in {Complete(b)} \cup CutShort(b),
         WriteNetStream(b, counts), UNCHANGED <<rd, call, ret>>, mishaps'.kinds = {}
  PROVE  NoneLost'
<1>. DEFINE h == Handled(b)
            qs == SubSeq(b, 1, h)
<1>1. /\ b \in Seq(Packets) /\ sent \in Seq(Packets) /\ FewerThanNumbers(m) /\ MarkFits
      /\ mishaps.n \in Nat
  BY StreamAssumption DEF Logged, OrderInv
<1>2. h \in 0..Len(b) /\ qs \in Seq(Packets) /\ Len(qs) = h
  BY <1>1, HandledFacts
<1>3. PICK ds : ds = BurstOf(b, counts)
  OBVIOUS
<1>4. /\ sent' = sent \o qs /\ wire' = wire \o Numbered(ds, snd.seq)
      /\ UNCHANGED <<rcv, rd, call>>
  BY <1>3 DEF WriteNetStream, BurstOf
<1>5. counts = Complete(b)
  <2>1. ASSUME counts # Complete(b) PROVE FALSE
    <3>1. WentWrong("SendError") /\ "SendError" \in Mishap
      BY <2>1 DEF WriteNetStream, Mishap
    <3>. QED
      BY <1>1, <3>1, WentWrongKept
  <2>. QED
    BY <2>1
<1>6. Troubles(ds) = {}
  <2>1. mishaps' = [mishaps EXCEPT !.kinds = @ \cup Troubles(ds)]
    BY <1>3, <1>5 DEF WriteNetStream, BurstOf
  <2>. QED
    BY <1>1, <2>1 DEF MarkFits
<1>7. /\ Linked(sent', ds) /\ (ds # <<>> => ds[1].off = 0)
      /\ \A p \in (Len(sent) + 1)..Len(sent') : OnItsWay(p, ds)
  BY <1>1, <1>3, <1>4, <1>5, BurstLinked
<1>8. Len(ds) < SEQ_MOD
  <2>1. Len(ds) <= m * h
    BY <1>1, <1>3, BurstRun
  <2>2. Len(sent) + Len(b) + mishaps.n <= MAX_LOAD
    BY DEF WriteNetStream
  <2>3. h <= MAX_LOAD /\ h \in Nat /\ Len(ds) \in Nat
    <3>1. ds \in Seq(Datagram)
      BY <1>7 DEF Linked
    <3>. QED
      BY <1>1, <1>2, <2>2, <3>1, NetAssumption
  <2>. HIDE DEF h
  <2>. QED
    BY <1>1, <2>1, <2>3, FewLogged
<1>. HIDE DEF qs, h
<1>. QED
  BY <1>2, <1>4, <1>6, <1>7, <1>8, SentAhead

LEMMA BundleAhead ==
  ASSUME NEW m, NEW first, NEW log, Logged(m, first, log), BufferHeld(log), ReaderFits, OrderInv,
         NoneLost, NEW b \in Bundles, RecorderSends(b), UNCHANGED <<rd, call, ret>>,
         mishaps'.kinds = {}
  PROVE  NoneLost'
<1>1. /\ b \in Seq(Packets) /\ b # <<>> /\ Len(b) \in Nat \ {0} /\ sent \in Seq(Packets)
      /\ FewerThanNumbers(m) /\ MarkFits /\ mishaps.n \in Nat
  BY StreamAssumption DEF Logged, OrderInv
<1>2. PICK data : data = FlattenSeq([i \in DOMAIN b |-> Units(Len(sent) + i, 0, b[i].len)])
  OBVIOUS
<1>3. PICK ds : ds = <<FullDatagram(data)>>
  OBVIOUS
<1>4. /\ sent' = sent \o b /\ wire' = wire \o Numbered(ds, snd.seq)
      /\ UNCHANGED <<rcv, rd, call>>
      /\ mishaps' = [mishaps EXCEPT !.kinds = @ \cup Troubles(ds)]
  BY <1>2, <1>3 DEF RecorderSends
<1>5. Troubles(ds) = {}
  BY <1>1, <1>4 DEF MarkFits
<1>6. /\ Linked(sent', ds) /\ ds[1].off = 0
      /\ \A p : (\E i \in 1..Len(data) : data[i] = <<p, 0>>) => OnItsWay(p, ds)
  <2>1. WholePackets(sent', data)
    BY <1>1, <1>2, <1>4, BundleWhole
  <2>. QED
    BY <1>3, <2>1, FullLinked
<1>7. \A p \in (Len(sent) + 1)..Len(sent') : OnItsWay(p, ds)
  <2>1. Len(sent') = Len(sent) + Len(b)
    BY <1>1, <1>4
  <2>2. \A p \in (Len(sent) + 1)..Len(sent') : \E i \in 1..Len(data) : data[i] = <<p, 0>>
    BY <1>1, <1>2, <2>1, BundleBegins
  <2>. QED
    BY <1>6, <2>2
<1>8. Len(ds) < SEQ_MOD
  <2>1. Len(ds) = 1
    BY <1>3
  <2>2. 1 <= m * 1 /\ 1 <= MAX_LOAD
    <3>1. Len(sent) + Len(b) + mishaps.n <= MAX_LOAD
      BY DEF RecorderSends
    <3>2. Len(sent) \in Nat /\ m \in Nat \ {0}
      BY <1>1 DEF FewerThanNumbers
    <3>. QED
      BY <1>1, <3>1, <3>2, NetAssumption
  <2>. QED
    BY <1>1, <2>1, <2>2, FewLogged
<1>. QED
  BY <1>1, <1>4, <1>5, <1>6, <1>7, <1>8, SentAhead

\* What was flawless to here was so before.
LEMMA FlawlessBefore ==
  ASSUME sent \in Seq(Packets), NEW qs \in Seq(Packets), sent' = sent \o qs,
         mishaps.kinds \subseteq mishaps'.kinds, Flawless'
  PROVE  Flawless /\ mishaps'.kinds = {}
<1>1. /\ Len(sent) \in Nat /\ Len(sent') = Len(sent) + Len(qs) /\ Len(qs) \in Nat
      /\ sent' \in Seq(Packets) /\ \A i \in 1..Len(sent) : sent'[i] = sent[i]
  BY Behind
<1>2. DOMAIN sent = 1..Len(sent) /\ DOMAIN sent' = 1..Len(sent')
  BY <1>1
<1>3. ASSUME NEW i \in DOMAIN sent PROVE sent[i].ok /\ (sent[i].sec => sent[i].secOk)
  <2>1. i \in DOMAIN sent' /\ sent'[i] = sent[i]
    BY <1>1, <1>2
  <2>2. sent'[i].ok /\ (sent'[i].sec => sent'[i].secOk)
    BY <2>1 DEF Flawless
  <2>. QED
    BY <2>1, <2>2
<1>4. mishaps'.kinds = {} /\ mishaps.kinds = {}
  BY DEF Flawless
<1>. QED
  BY <1>3, <1>4 DEF Flawless

LEMMA BurstFlawless ==
  ASSUME sent \in Seq(Packets), MarkFits, NEW b \in Bursts, NEW counts, WriteNetStream(b, counts),
         Flawless'
  PROVE  Flawless /\ mishaps'.kinds = {}
<1>1. b \in Seq(Packets)
  BY StreamAssumption
<1>2. PICK qs : qs = SubSeq(b, 1, Handled(b))
  OBVIOUS
<1>3. sent' = sent \o qs /\ qs \in Seq(Packets)
  BY <1>1, <1>2, HandledFacts DEF WriteNetStream
<1>4. TroubleKept
  <2>1. CASE counts = Complete(b)
    BY <2>1, TroublesKept DEF WriteNetStream
  <2>2. CASE counts # Complete(b)
    <3>1. WentWrong("SendError") /\ "SendError" \in Mishap
      BY <2>2 DEF WriteNetStream, Mishap
    <3>. QED
      BY <3>1, WentWrongKept
  <2>. QED
    BY <2>1, <2>2
<1>. QED
  BY <1>3, <1>4, FlawlessBefore DEF TroubleKept

LEMMA BundleFlawless ==
  ASSUME sent \in Seq(Packets), MarkFits, NEW b \in Bundles, RecorderSends(b), Flawless'
  PROVE  Flawless /\ mishaps'.kinds = {}
<1>1. b \in Seq(Packets) /\ sent' = sent \o b
  BY StreamAssumption DEF RecorderSends
<1>2. TroubleKept
  BY TroublesKept DEF RecorderSends
<1>. QED
  BY <1>1, <1>2, FlawlessBefore DEF TroubleKept

\* Whatever the network does is a mishap.
LEMMA NetworkFlaws ==
  ASSUME MarkFits, Network
  PROVE  ~Flawless'
<1>1. PICK kind \in Mishap : WentWrong(kind)
  BY DEF Network, Lose, Overtake, Duplicate, Stray, Mishap
<1>2. kind \in mishaps'.kinds
  BY <1>1, WentWrongKept
<1>. QED
  BY <1>2 DEF Flawless

\* No datagram comes up short, and nothing less is read than was wanted.
LEMMA NoReadFails ==
  ASSUME NEW m, NEW first, NEW log, Logged(m, first, log), BufferHeld(log), ReaderFits, OrderInv,
         NoneLost
  PROVE  ~NetReceiveFails /\ ~ReadShort
<1>1. ~NetReceiveFails
  <2>1. SUFFICES ASSUME wire # <<>>, Head(wire).type = "Short" PROVE FALSE
    BY DEF NetReceiveFails, ReceiveFails
  <2>2. wire \in Seq(Datagram) /\ Linked(sent, wire)
    BY DEF Logged, NoneLost
  <2>3. 1 \in 1..Len(wire) /\ Head(wire) = wire[1]
    BY <2>1, <2>2
  <2>. QED
    BY <2>1, <2>2, <2>3 DEF Linked
<1>2. ~ReadShort
  BY ReadInFull DEF ReadShort
<1>. QED
  BY <1>1, <1>2

LEMMA SkipStep ==
  ASSUME NEW m, StreamInv(m), OrderInv, SkipInv, [Next]_vars
  PROVE  SkipInv'
<1>1. SUFFICES ASSUME Flawless' PROVE NoneLost'
  BY DEF SkipInv
<1>2. PICK first, log : Logged(m, first, log) /\ BufferHeld(log) /\ ReaderFits
  BY DEF StreamInv
<1>3. sent \in Seq(Packets) /\ MarkFits
  BY <1>2 DEF Logged, OrderInv
<1>4. CASE Send
  <2>1. ASSUME NEW b \in Bursts, NEW counts \in {Complete(b)} \cup CutShort(b),
               WriteNetStream(b, counts), UNCHANGED <<rd, call, ret>>
        PROVE  NoneLost'
    <3>1. NoneLost /\ mishaps'.kinds = {}
      BY <1>1, <1>3, <2>1, BurstFlawless DEF SkipInv
    <3>. QED
      BY <1>2, <2>1, <3>1, BurstAhead
  <2>2. ASSUME NEW b \in Bundles, RecorderSends(b), UNCHANGED <<rd, call, ret>>
        PROVE  NoneLost'
    <3>1. NoneLost /\ mishaps'.kinds = {}
      BY <1>1, <1>3, <2>2, BundleFlawless DEF SkipInv
    <3>. QED
      BY <1>2, <2>2, <3>1, BundleAhead
  <2>. QED
    BY <1>4, <2>1, <2>2 DEF Send
<1>5. CASE Deliver
  BY <1>1, <1>3, <1>5, NetworkFlaws DEF Deliver
<1>6. ASSUME UNCHANGED <<sent, mishaps>> PROVE Flawless /\ NoneLost /\ AllInTurn
  <2>1. Flawless
    BY <1>1, <1>6 DEF Flawless
  <2>2. InStep
    BY <2>1 DEF Flawless, InStep
  <2>. QED
    BY <2>1, <2>2 DEF SkipInv, OrderInv
<1>7. CASE ReadNextHeader
  BY <1>2, <1>6, <1>7, HeaderCalledAhead DEF ReadNextHeader
<1>8. ASSUME NEW n \in BuffSizes, ReadData(n) PROVE NoneLost'
  <2>1. UNCHANGED <<sent, mishaps>>
    BY <1>8 DEF ReadData
  <2>. QED
    BY <1>2, <1>6, <1>8, <2>1, DataCalledAhead
<1>9. CASE NetReceive
  <2>1. UNCHANGED <<sent, mishaps>>
    BY <1>9 DEF NetReceive
  <2>. QED
    BY <1>2, <1>6, <1>9, <2>1, ReceivedAhead
<1>10. CASE NetReceiveFails \/ ReadShort
  <2>1. UNCHANGED <<sent, mishaps>>
    BY <1>10 DEF NetReceiveFails, ReadShort
  <2>. QED
    BY <1>2, <1>6, <1>10, <2>1, NoReadFails
<1>11. CASE FinishHeader
  <2>1. UNCHANGED <<sent, mishaps>>
    BY <1>11 DEF FinishHeader
  <2>. QED
    BY <1>2, <1>6, <1>11, <2>1, HeaderFinishedAhead
<1>12. CASE FinishSecHeader
  <2>1. UNCHANGED <<sent, mishaps>>
    BY <1>12 DEF FinishSecHeader
  <2>. QED
    BY <1>2, <1>6, <1>12, <2>1, SecHeaderFinishedAhead
<1>13. CASE FinishData
  <2>1. UNCHANGED <<sent, mishaps>>
    BY <1>13 DEF FinishData
  <2>. QED
    BY <1>2, <1>6, <1>13, <2>1, DataFinishedAhead
<1>14. CASE UNCHANGED vars
  <2>1. UNCHANGED <<sent, wire, rcv, mishaps, rd, call>>
    BY <1>14 DEF vars
  <2>2. NoneLost
    BY <1>6, <2>1
  <2>3. Linked(sent', wire') /\ Taken(wire') /\ Expected'
    BY <2>1, <2>2 DEF NoneLost, Expected, Waiting
  <2>4. AtBorder' /\ SecAhead'
    BY <2>1, <2>2 DEF NoneLost, AtBorder, HeaderDue, IsHead, SecAhead, AtPlace
  <2>5. AllAhead'
    BY <2>1, <2>2 DEF NoneLost, AllAhead, Mark
  <2>. QED
    BY <2>3, <2>4, <2>5 DEF NoneLost
<1>. QED
  BY <1>4, <1>5, <1>7, <1>8, <1>9, <1>10, <1>11, <1>12, <1>13, <1>14 DEF Next, Read

LEMMA SkipStart ==
  ASSUME Init
  PROVE  SkipInv
<1>1. /\ sent = <<>> /\ wire = <<>> /\ rcv.ready = FALSE /\ rcv.gotFirst = FALSE
      /\ rcv.drop = FALSE /\ rcv.bufLen = RCV_BUFFER_START_SIZE
      /\ rd.pkt = 0 /\ call.op = "None" /\ RCV_BUFFER_START_SIZE \in Nat
  BY NetAssumption DEF Init, NetInit, Idle, Call
<1>2. Linked(sent, wire) /\ Taken(wire)
  BY <1>1 DEF Linked, Taken
<1>3. Expected /\ AtBorder /\ SecAhead
  BY <1>1 DEF Expected, AtBorder, SecAhead
<1>4. AllAhead
  BY <1>1 DEF AllAhead, Mark
<1>. QED
  BY <1>2, <1>3, <1>4 DEF SkipInv, NoneLost

\* With nothing lost, overtaken or come twice, no sending cut short, every checksum good and
\* no datagram such as enI106_ReadNetStream drops by itself (i106_data_stream.c:900, 970,
\* 982), the reader is given the header of every packet sent, in turn: whether the data
\* before it was read, passed over or asked for at the wrong time, and however sending and
\* reading take turns.
THEOREM NoneSkipped ==
  ASSUME NEW m, FewerThanNumbers(m)
  PROVE  Spec => NothingSkipped
<1>1. Init => StreamInv(m) /\ OrderInv /\ SkipInv
  BY StreamStart, OrderStart, SkipStart
<1>2. StreamInv(m) /\ OrderInv /\ SkipInv /\ [Next]_vars => (StreamInv(m) /\ OrderInv /\ SkipInv)'
  BY StreamStep, OrderStep, SkipStep
<1>3. StreamInv(m) /\ OrderInv /\ SkipInv /\ [Next]_vars =>
        [HeaderReturned /\ Flawless => rd'.pkt = rd.pkt + 1]_vars
  <2>1. SUFFICES ASSUME StreamInv(m), OrderInv, SkipInv, Next, HeaderReturned, Flawless
                 PROVE  rd'.pkt = rd.pkt + 1
    OBVIOUS
  <2>2. PICK first, log : Logged(m, first, log) /\ BufferHeld(log) /\ ReaderFits
    BY <2>1 DEF StreamInv
  <2>3. NoneLost /\ AllInTurn
    BY <2>1 DEF SkipInv, OrderInv, Flawless, InStep
  <2>4. FinishHeader \/ FinishSecHeader
    BY <2>1, HeaderReturnedBy
  <2>5. CASE FinishHeader
    BY <2>1, <2>2, <2>3, <2>5, HeaderFinishedAhead
  <2>6. CASE FinishSecHeader
    BY <2>1, <2>2, <2>3, <2>6, SecHeaderFinishedAhead
  <2>. QED
    BY <2>4, <2>5, <2>6
<1>. QED
  BY <1>1, <1>2, <1>3, PTL DEF Spec, NothingSkipped

=============================================================================
