--------------------------- MODULE WriteReadBack ----------------------------
(***************************************************************************)
(* A file is written with Ch10Writer, perhaps more than once, and then     *)
(* read from the front with the calls of Ch10Reader.                       *)
(***************************************************************************)
EXTENDS Ch10Writer

VARIABLES
  file, mode, rd, ret,  \* the reader's
  seen                  \* ghost: the offsets of the headers it has returned

rvars == <<file, mode, rd, ret>>
vars == <<disk, wr, log, file, mode, rd, ret, seen>>

NoFile == [size |-> 0, cand |-> <<>>, pkts |-> {}, sig |-> FALSE]

Reader == INSTANCE Ch10Reader WITH
            BACKUP_SIZE <- 1, Files <- {NoFile}, Offsets <- {}, BuffSizes <- {UINT32},
            Modes <- {"READ"}

\* Bytes i to j of some packet, at offset q.
Has(q, i, j) == \E p \in DOMAIN log : \A k \in i..j : disk[q + k + 1] = <<p, k>>

SyncAt(q) == q + SYNC_SIZE <= Len(disk) /\ Has(q, 0, SYNC_SIZE - 1)

OwnerAt(q) == disk[q + 1][1]

\* What is on the disk, as the reader sees it.  Bytes of two packets in one header make
\* its checksum bad.
FileOnDisk ==
  [size |-> Len(disk),
   pkts |-> {},
   sig  |-> SyncAt(0),
   cand |-> [q \in {p \in 0..(Len(disk) - HEADER_SIZE) : SyncAt(p)} |->
               LET m == log[OwnerAt(q)].msg IN
               [ok    |-> Has(q, 0, HEADER_SIZE - 1),
                sec   |-> m.sec,
                secOk |-> m.sec /\ q + HeaderLen(m) <= Len(disk) /\ Has(q, 0, HeaderLen(m) - 1),
                len   |-> log[OwnerAt(q)].len,
                tmats |-> FALSE]]]

Init ==
  /\ WriterInit
  /\ file = NoFile /\ mode = "CLOSED"
  /\ rd = [state |-> "Closed", pos |-> 0, hlen |-> 0, plen |-> 0, dlen |-> 0, rpos |-> 0]
  /\ ret = [op |-> "None", status |-> "OK", at |-> -1]
  /\ seen = {}

Writing ==
  /\ ret.op = "None"
  /\ WriterStep
  /\ UNCHANGED <<rvars, seen>>

\* The program opens the file, goes to its beginning whatever the open said of the first
\* packet, and reads until the end, data or not.
OpenToRead == ret.op = "None" /\ ~wr.open /\ Reader!Open(FileOnDisk, "READ")

Rewind == ret.op = "Open" /\ Reader!FirstMsg

NextHeader == ret.op \in {"FirstMsg", "ReadNextHeader", "ReadData"} /\ Reader!ReadNextHeader

NextData == ret.op = "ReadNextHeader" /\ ret.status = "OK" /\ Reader!ReadData(UINT32)

Reading ==
  /\ ret.status # "EOF"
  /\ OpenToRead \/ Rewind \/ NextHeader \/ NextData
  /\ seen' = seen \cup ({ret'.at} \ {-1})
  /\ UNCHANGED wvars

Next == Writing \/ Reading

Spec == Init /\ [][Next]_vars

-----------------------------------------------------------------------------

AtEnd == ret.status = "EOF"

\* What the reader may take a packet for whose write failed: a whole one, once all of its
\* header is there, or else no more than a header.
Claimed(t) ==
  IF t.stored >= HeaderLen(t.msg) THEN t.len
  ELSE IF t.stored >= HEADER_SIZE THEN HeaderLen(t.msg) ELSE HEADER_SIZE

Hides(t, s) == t.stored < t.size /\ t.stored > 0 /\ t.at < s.at /\ s.at < t.at + Claimed(t)

\* Every packet written whole since the file was last opened is read back, but for those
\* that begin where a packet of a failed write should have been: writes that fail cost no
\* more than that, however many come after, and an older, longer recording underneath
\* costs nothing.
ReadsBack ==
  AtEnd => \A i \in DOMAIN log :
    LET s == log[i] IN
    (s.session = wr.session /\ s.stored = s.size /\ ~ \E j \in DOMAIN log :
        log[j].session = wr.session /\ Hides(log[j], s))
      => s.at \in seen

\* A sum over all words of a packet's data, filler and all, but for the checksum itself.
SumOf(m, data) ==
  LET n == Len(data) - m.chksum IN
  FoldLeft(LAMBDA a, k : (a + data[k] * BYTE^((k - 1) % m.chksum)) % BYTE^m.chksum, 0,
           [k \in 1..n |-> k])

\* Data that are read back in the bytes of one packet have at their end the checksum of all
\* that is before it, in whichever buffers they were written, if the channel specific data
\* are whole words or all there is.
ChecksumReadBack ==
  (ret.op = "ReadData" /\ ret.status = "OK") =>
    \A i \in DOMAIN log :
      LET s == log[i]
          m == s.msg
          n == rd.rpos
          buff == [k \in 1..n |-> disk[rd.pos - n + k]]
          data == [k \in 1..n |-> s.data[buff[k][2] - HeaderLen(m) + 1]]
      IN (/\ m.chksum > 0 /\ n = s.len - HeaderLen(m)
          /\ \A k \in 1..n : buff[k] = <<i, HeaderLen(m) + k - 1>>
          /\ m.data = <<>> \/ Len(m.csdw) % m.chksum = 0)
         => \A k \in 1..m.chksum :
              data[n - m.chksum + k] = (SumOf(m, data) \div BYTE^(k - 1)) % BYTE

\* Packets of an older recording come, if at all, behind the last byte of the new one.
OldOnlyBehind ==
  \A q \in seen : log[OwnerAt(q)].session # wr.session => q >= wr.pos

=============================================================================
