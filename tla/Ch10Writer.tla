----------------------------- MODULE Ch10Writer ------------------------------
(***************************************************************************)
(* A file written through a handle opened with I106_OVERWRITE              *)
(* (irig106ch10.c): the layout of a packet, the pieces in which WriteMsg   *)
(* and WriteMsg2 write it, and writes that store less than they were       *)
(* asked to, as on a full disk.                                            *)
(*                                                                         *)
(* A byte of the file is a pair of the packet it belongs to, numbered in   *)
(* the order the writes began, and its place in that packet.  A packet     *)
(* begins with SYNC_SIZE bytes of sync pattern.                            *)
(***************************************************************************)
EXTENDS Integers, Sequences, SequencesExt, FiniteSets

CONSTANTS
  HEADER_SIZE,      \* bytes of a packet header (24)
  SEC_HEADER_SIZE,  \* bytes of a secondary header (12)
  SYNC_SIZE,        \* bytes of the sync pattern (2)
  BYTE,             \* values of a byte (256)
  UINT32,           \* uint32_t arithmetic is modulo this (2^32)
  Messages,         \* what callers write
  TRUNCATES,        \* whether the build's open() has O_TRUNC: Windows has, GCC has not
  MAX_SESSIONS,     \* bound on the times the file is opened for writing
  MAX_WRITES,       \* bound on the packets written
  MAX_FAILURES      \* bound on the writes that fail

Byte == 0..(BYTE - 1)

\* The channel specific data and the other data, in a buffer or two; `chksum' is the width
\* of the data checksum that the flags call for.
Message == [sec : BOOLEAN, csdw : Seq(Byte), data : Seq(Byte), chksum : {0, 1, 2, 4}]

ASSUME WriterAssumption ==
  /\ SYNC_SIZE \in Nat \ {0} /\ HEADER_SIZE \in Nat /\ HEADER_SIZE >= SYNC_SIZE
  /\ SEC_HEADER_SIZE \in Nat \ {0}
  /\ BYTE \in Nat \ {0} /\ UINT32 = BYTE^4 /\ UINT32 % 4 = 0
  /\ \A m \in Messages : m \in Message
  /\ TRUNCATES \in BOOLEAN
  /\ MAX_SESSIONS \in Nat /\ MAX_WRITES \in Nat /\ MAX_FAILURES \in Nat

VARIABLES
  disk,  \* the bytes of the file
  wr,    \* the handle: open or not, the file position, ulTotalBytesWritten; ghost: session
  log    \* ghost: every packet whose write began

wvars == <<disk, wr, log>>

-----------------------------------------------------------------------------
(* The layout of a packet.                                                  *)

HeaderLen(m) == IF m.sec THEN HEADER_SIZE + SEC_HEADER_SIZE ELSE HEADER_SIZE

DataLen(m) == Len(m.csdw) + Len(m.data)

\* Data and checksum, with filler up to a multiple of four.
DataBuffReqSize(n, chksum) == LET s == n + chksum + 3 IN (s - (s % 4)) % UINT32

\* ulPacketLen as uAddDataFillerChecksum2 sets it.
PacketLen(m) == (HeaderLen(m) + DataBuffReqSize(DataLen(m), m.chksum)) % UINT32

\* Slip: no room for the checksum in the trailer.
FillSize_noChecksum(m) ==
  DataBuffReqSize(DataLen(m), m.chksum) - DataLen(m) - m.chksum

\* Filler and checksum, in a buffer of their own.
FillSize(m) == (DataBuffReqSize(DataLen(m), m.chksum) - DataLen(m)) % UINT32

\* The n words of w bytes at the start of a buffer, the low byte first.  A last word that
\* the buffer does not fill has zeros in its high bytes.
WordsOf(buff, w, n) ==
  [i \in 1..n |->
     LET at(k) == (i - 1) * w + k IN
     FoldLeft(LAMBDA a, k : a + (IF at(k) <= Len(buff) THEN buff[at(k)] ELSE 0) * BYTE^(k - 1),
              0, [k \in 1..w |-> k])]

\* Slip: the bytes behind the last whole word are left out.
CalcDataChecksum_whole(w, buff, sum) ==
  IF w = 0 THEN sum
  ELSE FoldLeft(LAMBDA a, x : (a + x) % BYTE^w, sum, WordsOf(buff, w, Len(buff) \div w))

CalcDataChecksum(w, buff, sum) ==
  IF w = 0 THEN sum
  ELSE FoldLeft(LAMBDA a, x : (a + x) % BYTE^w, sum, WordsOf(buff, w, (Len(buff) + w - 1) \div w))

\* What uAddDataFillerChecksum2 puts behind the data, of which csdw and buff are the two
\* buffers: zeros, and the sum at the very end.
Trailer(m, csdw, buff) ==
  LET sum == CalcDataChecksum(m.chksum, buff, CalcDataChecksum(m.chksum, csdw, 0)) IN
  [i \in 1..(FillSize(m) - m.chksum) |-> 0]
    \o [k \in 1..m.chksum |-> (sum \div BYTE^(k - 1)) % BYTE]

\* The pieces written, by either call.
Pieces(m)  == <<HeaderLen(m), PacketLen(m) - HeaderLen(m)>>
Pieces2(m) == <<HeaderLen(m), Len(m.csdw), Len(m.data), FillSize(m)>>

Size(pieces) == FoldLeft(LAMBDA a, n : a + n, 0, pieces)

-----------------------------------------------------------------------------
(* The calls.                                                               *)

WriterInit ==
  /\ disk = <<>>
  /\ wr = [open |-> FALSE, pos |-> 0, total |-> 0, session |-> 0]
  /\ log = <<>>

\* Slip: writing goes on at the end of the file.
OpenOverwrite_append ==
  /\ ~wr.open /\ wr.session < MAX_SESSIONS
  /\ wr' = [open |-> TRUE, pos |-> Len(disk), total |-> 0, session |-> wr.session + 1]
  /\ UNCHANGED <<disk, log>>

OpenOverwrite ==
  /\ ~wr.open /\ wr.session < MAX_SESSIONS
  /\ disk' = IF TRUNCATES THEN <<>> ELSE disk
  /\ wr' = [open |-> TRUE, pos |-> 0, total |-> 0, session |-> wr.session + 1]
  /\ UNCHANGED log

Overlaid(d, at, s) ==
  SubSeq(d, 1, at) \o s \o SubSeq(d, at + Len(s) + 1, Len(d))

Failed(i) == log[i].stored < log[i].size

\* The pieces are written one after the other until one is stored short: the file then
\* has some of their bytes, and the next write goes on behind them.
Write(m, pieces, trailer) ==
  /\ wr.open /\ Len(log) < MAX_WRITES
  /\ \E n \in 0..Size(pieces) :
       LET whole == n = Size(pieces)
           p == Len(log) + 1
       IN /\ whole \/ Cardinality({i \in DOMAIN log : Failed(i)}) < MAX_FAILURES
          /\ disk' = Overlaid(disk, wr.pos, [i \in 1..n |-> <<p, i - 1>>])
          /\ wr' = [wr EXCEPT !.pos = @ + n, !.total = IF whole THEN @ + PacketLen(m) ELSE @]
          /\ log' = Append(log, [msg |-> m, at |-> wr.pos, len |-> PacketLen(m),
                                 size |-> Size(pieces), stored |-> n, session |-> wr.session,
                                 data |-> m.csdw \o m.data \o trailer])

\* Of a caller that has the channel specific data in one buffer with the rest, and used
\* uAddDataFillerChecksum, and of one that has not.
WriteMsg(m) == Write(m, Pieces(m), Trailer(m, <<>>, m.csdw \o m.data))
WriteMsg2(m) == Write(m, Pieces2(m), Trailer(m, m.csdw, m.data))

Close ==
  /\ wr.open
  /\ wr' = [wr EXCEPT !.open = FALSE]
  /\ UNCHANGED <<disk, log>>

WriterStep ==
  \/ OpenOverwrite \/ Close
  \/ \E m \in Messages : WriteMsg(m) \/ WriteMsg2(m)

=============================================================================
