------------------------------ MODULE NetStream ------------------------------
(***************************************************************************)
(* Live data streaming over UDP (i106_data_stream.c): the sender that      *)
(* splits Chapter 10 packets over datagrams, the network between, and the  *)
(* receive buffer in which a handle puts them together again.              *)
(*                                                                         *)
(* Lengths are counted in units of 12 bytes.  A unit of data is a pair of  *)
(* the packet it belongs to, numbered in the order they were sent, and its *)
(* place in that packet, so that what is in a buffer can be told.          *)
(***************************************************************************)
EXTENDS Integers, Sequences, SequencesExt

CONSTANTS
  HEADER_SIZE,            \* units of a packet header (24 bytes)
  SEC_HEADER_SIZE,        \* units of a secondary header (12)
  HEADER_STRUCT,          \* sizeof(SuI106Ch10Header), both headers (36)
  MAX_UDP_WRITE_SIZE,     \* most data the sender puts in a datagram (32726)
  RCV_BUFFER_START_SIZE,  \* receive buffer at the start (32768)
  RCV_BUFFER_SLACK,       \* what it grows by beyond a packet too large (0x4000)
  SEQ_MOD,                \* the sequence number of a datagram has 24 bits
  Packets,                \* the packets that are sent
  FirstSeqs,              \* sequence numbers the sender may be at to begin with
  MAX_UDP,                \* most data another sender puts in a datagram
  MAX_LOAD                \* bound on the packets sent and the mishaps, together

Packet == [len : Nat, ok : BOOLEAN, sec : BOOLEAN, secOk : BOOLEAN]

HeaderLen(p) == IF p.sec THEN HEADER_SIZE + SEC_HEADER_SIZE ELSE HEADER_SIZE

ASSUME NetAssumption ==
  /\ HEADER_SIZE \in Nat \ {0} /\ SEC_HEADER_SIZE \in Nat \ {0}
  /\ HEADER_STRUCT = HEADER_SIZE + SEC_HEADER_SIZE
  /\ MAX_UDP_WRITE_SIZE \in Nat /\ MAX_UDP_WRITE_SIZE >= HEADER_STRUCT
  /\ RCV_BUFFER_START_SIZE \in Nat /\ RCV_BUFFER_START_SIZE >= MAX_UDP_WRITE_SIZE
  /\ RCV_BUFFER_SLACK \in Nat /\ SEQ_MOD \in Nat \ {0}
  /\ Packets \subseteq Packet /\ \A p \in Packets : p.len >= HeaderLen(p)
  /\ FirstSeqs \subseteq 0..(SEQ_MOD - 1)
  /\ MAX_UDP \in Nat /\ MAX_LOAD \in Nat

VARIABLES
  sent,     \* every packet sent so far
  snd,      \* sender: uUdpSeqNum, and whether the program is still up
  wire,     \* datagrams on their way, up to the receive socket
  rcv,      \* receiver: the fields of m_suNetHandle, and the datagram DropBadPacket awaits
  mishaps   \* ghost: how much went wrong on the way, and what kinds of trouble there were

Junk == <<0, 0>>
Unit == Nat \X Nat

\* "Short" stands for less than the 13 bytes a peek asks for, "Junk" for a message type
\* other than 0 and 1.
Datagram == [seq : 0..(SEQ_MOD - 1), type : {"Full", "Seg", "Junk", "Short"}, off : Nat,
             data : Seq(Unit)]

Mishap == {"Lost", "Reordered", "Duplicated", "Stray", "SendError",
           "Wrapped", "ShortTail", "TooLong"}

-----------------------------------------------------------------------------
(* The sender.                                                              *)

MinOf(a, b) == IF a <= b THEN a ELSE b

\* n units of packet p from place `from' on.
Units(p, from, n) == [i \in 1..n |-> <<p, from + i - 1>>]

FullDatagram(data) == [seq |-> 0, type |-> "Full", off |-> 0, data |-> data]

Segments(p, len) ==
  [k \in 1..((len + MAX_UDP_WRITE_SIZE - 1) \div MAX_UDP_WRITE_SIZE) |->
     LET off == (k - 1) * MAX_UDP_WRITE_SIZE IN
     [seq |-> 0, type |-> "Seg", off |-> off,
      data |-> Units(p, off, MinOf(MAX_UDP_WRITE_SIZE, len - off))]]

Parts(p, len) ==
  IF len > MAX_UDP_WRITE_SIZE THEN Segments(p, len) ELSE <<FullDatagram(Units(p, 0, len))>>

\* Each datagram sent takes the next sequence number; the bit field keeps 24 bits.
Numbered(ds, s) == [k \in DOMAIN ds |-> [ds[k] EXCEPT !.seq = (s + k - 1) % SEQ_MOD]]

\* Two packets that fit in one datagram: advancing to the second, the pointer goes up by
\* that many headers and not bytes, and the assert() on what it finds there fails.
Overshoots(b, i) == i < Len(b) /\ b[i].len + b[i + 1].len <= MAX_UDP_WRITE_SIZE

\* The packets of the caller's buffer that are sent before that happens.
Handled(b) ==
  IF \E i \in DOMAIN b : Overshoots(b, i)
    THEN CHOOSE n \in 0..Len(b) : /\ Overshoots(b, n + 1)
                                  /\ \A i \in 1..n : ~Overshoots(b, i)
    ELSE Len(b)

PartsOf(b, i) == Parts(Len(sent) + i, b[i].len)

\* How many parts of each packet go out: all, unless sending a segment fails, which gives
\* up the rest of that packet and takes no sequence number.
Complete(b) == [i \in 1..Handled(b) |-> Len(PartsOf(b, i))]
CutShort(b) ==
  UNION {{[Complete(b) EXCEPT ![c] = k] : k \in 0..(Len(PartsOf(b, c)) - 1)} :
           c \in {i \in 1..Handled(b) : b[i].len > MAX_UDP_WRITE_SIZE}}

\* What makes a receiver drop these datagrams with nothing wrong on the way: the number
\* wraps inside a packet, a last segment is short, the datagram is more than the buffer.
Troubles(ds) ==
  {t \in {"Wrapped", "ShortTail", "TooLong"} : \E k \in DOMAIN ds :
     CASE t = "Wrapped"   -> ds[k].off > 0 /\ (snd.seq + k - 1) % SEQ_MOD = 0
       [] t = "ShortTail" -> ds[k].type = "Seg" /\ Len(ds[k].data) < HEADER_STRUCT
       [] t = "TooLong"   -> Len(ds[k].data) > RCV_BUFFER_START_SIZE}

WentWrong(kind) ==
  /\ Len(sent) + mishaps.n < MAX_LOAD
  /\ mishaps' = [n |-> mishaps.n + 1, kinds |-> mishaps.kinds \cup {kind}]

\* A datagram of whole packets that cannot be sent has its number all the same, and is
\* as good as lost.
WriteNetStream(b, counts) ==
  LET ds == FlattenSeq([i \in 1..Handled(b) |-> SubSeq(PartsOf(b, i), 1, counts[i])]) IN
  /\ snd.up
  /\ Len(sent) + Len(b) + mishaps.n <= MAX_LOAD
  /\ sent' = sent \o SubSeq(b, 1, Handled(b))
  /\ wire' = wire \o Numbered(ds, snd.seq)
  /\ snd' = [seq |-> (snd.seq + Len(ds)) % SEQ_MOD, up |-> Handled(b) = Len(b)]
  /\ IF counts = Complete(b)
       THEN mishaps' = [mishaps EXCEPT !.kinds = @ \cup Troubles(ds)]
       ELSE WentWrong("SendError")
  /\ UNCHANGED rcv

\* Another sender, a recorder, does put several packets in a datagram.
RecorderSends(b) ==
  LET data == FlattenSeq([i \in DOMAIN b |-> Units(Len(sent) + i, 0, b[i].len)])
      ds   == <<FullDatagram(data)>>
  IN
  /\ snd.up
  /\ Len(sent) + Len(b) + mishaps.n <= MAX_LOAD
  /\ Len(data) <= MAX_UDP
  /\ sent' = sent \o b
  /\ wire' = wire \o Numbered(ds, snd.seq)
  /\ snd' = [snd EXCEPT !.seq = (@ + 1) % SEQ_MOD]
  /\ mishaps' = [mishaps EXCEPT !.kinds = @ \cup Troubles(ds)]
  /\ UNCHANGED rcv

-----------------------------------------------------------------------------
(* The network.                                                             *)

\* A datagram does not get there; what comes up short stays once it is there.
Lose(i) ==
  /\ wire[i].type # "Short"
  /\ wire' = RemoveAt(wire, i)
  /\ WentWrong("Lost")

Overtake(i, j) ==
  /\ i < j
  /\ wire' = InsertAt(RemoveAt(wire, j), i, wire[j])
  /\ WentWrong("Reordered")

Duplicate(i, j) ==
  /\ i < j
  /\ wire' = InsertAt(wire, j, wire[i])
  /\ WentWrong("Duplicated")

\* Something that is no data stream comes in at the port.
Stray(t) ==
  /\ wire' = Append(wire, [seq |-> 0, type |-> t, off |-> 0, data |-> <<>>])
  /\ WentWrong("Stray")

Network ==
  /\ \/ \E i \in DOMAIN wire : Lose(i)
     \/ \E i, j \in DOMAIN wire : Overtake(i, j)
     \/ \E i \in DOMAIN wire, j \in 2..(Len(wire) + 1) : Duplicate(i, j)
     \/ \E t \in {"Junk", "Short"} : Stray(t)
  /\ UNCHANGED <<sent, snd, rcv>>

-----------------------------------------------------------------------------
(* The receive buffer.                                                      *)

DumpNetStream(r) == [r EXCEPT !.ready = FALSE, !.gotFirst = FALSE, !.pos = 0]

MoveReadPointer(r, n) ==
  IF r.pos + n < 0 THEN [r EXCEPT !.pos = 0]
  ELSE IF r.pos + n >= r.dataLen THEN [r EXCEPT !.pos = 0, !.ready = FALSE]
  ELSE [r EXCEPT !.pos = @ + n]

\* Coming into ReadNetStream: without a buffer ready, a new one is begun.
Begin(r) == IF r.ready THEN r ELSE DumpNetStream(r)

\* What is received goes into the buffer from `at' on, as far as there is room.
Store(r, at, data) ==
  [r EXCEPT !.buf = [i \in DOMAIN @ |->
                       IF i >= at /\ i - at < Len(data) THEN data[i - at + 1] ELSE @[i]]]

\* Slip: a gap in the sequence numbers goes unnoticed.
FollowSeq_blind(r, d) == [r EXCEPT !.seq = d.seq]

\* The number before is not taken modulo 2^24.
FollowSeq(r, d) ==
  [(IF d.seq # r.seq + 1 THEN DumpNetStream(r) ELSE r) EXCEPT !.seq = d.seq]

TakeFull(r, d) ==
  LET w == Store(r, 0, d.data) IN
  IF Len(d.data) > r.bufLen
    THEN DumpNetStream(w)
    ELSE [w EXCEPT !.dataLen = Len(d.data), !.ready = TRUE, !.pos = 0]

\* ulPacketLen of the header at the start of the buffer.
BufferedLen(r) == sent[r.buf[0][1]].len

FirstSegment(r) ==
  LET n == BufferedLen(r)
      size == IF n > r.bufLen THEN n + RCV_BUFFER_SLACK ELSE r.bufLen
  IN [r EXCEPT !.bufLen = size,
               !.buf = [i \in 0..(size - 1) |-> IF i < r.bufLen THEN @[i] ELSE Junk],
               !.gotFirst = TRUE, !.dataLen = n]

\* A datagram with less data than a header structure is dropped, and with it the next.
TakeSegment(r, d) ==
  LET at == IF r.gotFirst THEN d.off ELSE 0
      w == Store(r, at, d.data)
      f == IF d.off = 0 THEN FirstSegment(w) ELSE w
  IN IF Len(d.data) > r.bufLen - at THEN DumpNetStream(w)
     ELSE IF Len(d.data) < HEADER_STRUCT THEN [DumpNetStream(w) EXCEPT !.drop = TRUE]
     ELSE IF f.gotFirst /\ d.off + Len(d.data) >= BufferedLen(f)
       THEN [f EXCEPT !.ready = TRUE, !.gotFirst = FALSE, !.pos = 0]
     ELSE f

Take(r, d) ==
  CASE d.type = "Full" -> TakeFull(FollowSeq(r, d), d)
    [] d.type = "Seg"  -> TakeSegment(FollowSeq(r, d), d)
    [] d.type = "Junk" -> DumpNetStream(FollowSeq(r, d))

\* One turn of the loop of ReadNetStream, which waits for a datagram.
Receive ==
  /\ ~rcv.ready /\ ~rcv.drop
  /\ wire # <<>> /\ Head(wire).type # "Short"
  /\ rcv' = Take(rcv, Head(wire))
  /\ wire' = Tail(wire)

\* DropBadPacket after the bad datagram has been taken out already.
DropNext ==
  /\ rcv.drop /\ wire # <<>>
  /\ wire' = Tail(wire)
  /\ rcv' = [rcv EXCEPT !.drop = FALSE]

\* A peek that comes up short fails the read, and leaves the datagram where it is.
ReceiveFails ==
  /\ ~rcv.ready /\ ~rcv.drop
  /\ wire # <<>> /\ Head(wire).type = "Short"
  /\ rcv' = DumpNetStream(rcv)
  /\ UNCHANGED wire

Copied(r, want) == SubSeq([i \in 1..r.dataLen |-> r.buf[i - 1]], r.pos + 1,
                          MinOf(r.dataLen, r.pos + want))

\* Slip: reading does not advance.
AfterCopy_stays(r, n) == [r EXCEPT !.ready = r.pos + n < r.dataLen]

AfterCopy(r, n) == [r EXCEPT !.pos = @ + n, !.ready = r.pos + n < r.dataLen]

NetInit ==
  /\ sent = <<>>
  /\ \E s \in FirstSeqs : snd = [seq |-> s, up |-> TRUE]
  /\ wire = <<>>
  /\ rcv = [ready |-> FALSE, gotFirst |-> FALSE, drop |-> FALSE, seq |-> 0, pos |-> 0,
            dataLen |-> 0, bufLen |-> RCV_BUFFER_START_SIZE,
            buf |-> [i \in 0..(RCV_BUFFER_START_SIZE - 1) |-> Junk]]
  /\ mishaps = [n |-> 0, kinds |-> {}]

=============================================================================
