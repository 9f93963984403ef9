---------------------------- MODULE StreamReader -----------------------------
(***************************************************************************)
(* A handle opened with enI106Ch10OpenStreamRead: header and data reads of *)
(* irig106ch10.c over the receive buffer of NetStream.  A read that finds  *)
(* no buffer ready waits for datagrams, one at a time, while the sender    *)
(* and the network go on; `call' is where the program is meanwhile.        *)
(***************************************************************************)
EXTENDS NetStream

CONSTANTS
  Bursts,     \* the buffers callers hand to WriteNetStream: sequences of packets
  Bundles,    \* the packets a recorder puts in one datagram
  BuffSizes   \* the buffer sizes callers pass to ReadData

ASSUME StreamAssumption ==
  /\ Bursts \subseteq Seq(Packets) /\ \A b \in Bursts : b # <<>>
  /\ Bundles \subseteq Seq(Packets) /\ \A b \in Bundles : b # <<>>
  /\ BuffSizes \subseteq Nat

VARIABLES
  rd,    \* enFileState, the ulCurr... fields, and (ghost) the packet whose header came last
  call,  \* the read going on: of a header, a secondary header, or data
  ret    \* what the last call returned: operation, status, data; nothing while one goes on

vars == <<sent, snd, wire, rcv, mishaps, rd, call, ret>>

Reader == [state : {"ReadHeader", "ReadData", "Unsynced"}, hlen : Nat, plen : Nat,
           dlen : Nat, rpos : Nat, pkt : Nat]

\* `pkt' is the packet whose header is read, once its first part is.
Call(op, want, p) == [op |-> op, want |-> want, pkt |-> p]

Idle == Call("None", 0, 0)

Returned(op, status, data) == [op |-> op, status |-> status, data |-> data]

Nothing == Returned("None", "OK", <<>>)

Init ==
  /\ NetInit
  /\ rd = [state |-> "ReadHeader", hlen |-> 0, plen |-> 0, dlen |-> 0, rpos |-> 0, pkt |-> 0]
  /\ call = Idle
  /\ ret = Nothing

\* Slip: the rest of the packet is not skipped.
Skipped_not(r) == rcv

\* From ReadData the read pointer moves over what is left of the packet.
Skipped(r) ==
  IF r.state = "ReadData" THEN MoveReadPointer(rcv, r.plen - r.hlen - r.rpos) ELSE rcv

ReadNextHeader ==
  /\ call.op = "None"
  /\ rcv' = Begin(Skipped(rd))
  /\ call' = Call("Header", HEADER_SIZE, 0)
  /\ ret' = Nothing
  /\ UNCHANGED <<sent, snd, wire, mishaps, rd>>

\* Slip: the header is counted as data.
ReadAmount_whole == rd.plen - rd.rpos

ReadAmount == rd.dlen - rd.rpos

ReadData(n) ==
  /\ call.op = "None"
  /\ UNCHANGED <<sent, snd, wire, mishaps>>
  /\ \/ /\ rd.state # "ReadData"
        /\ rd' = [rd EXCEPT !.state = "Unsynced"]
        /\ ret' = Returned("Data", "READ_ERROR", <<>>)
        /\ UNCHANGED <<rcv, call>>
     \/ /\ rd.state = "ReadData" /\ n < ReadAmount
        /\ ret' = Returned("Data", "BUFFER_TOO_SMALL", <<>>)
        /\ UNCHANGED <<rcv, rd, call>>
     \/ /\ rd.state = "ReadData" /\ n >= ReadAmount
        /\ rcv' = Begin(rcv)
        /\ call' = Call("Data", ReadAmount, 0)
        /\ ret' = Nothing
        /\ UNCHANGED rd

\* The read of a header or of data fails: an error, or less than was wanted.
ReadFailed(status) ==
  /\ rd' = [rd EXCEPT !.state = "Unsynced",
                      !.hlen = CASE call.op = "Header"    -> HEADER_SIZE
                                 [] call.op = "SecHeader" -> HEADER_SIZE + SEC_HEADER_SIZE
                                 [] call.op = "Data"      -> @]
  /\ ret' = Returned(IF call.op = "Data" THEN "Data" ELSE "Header", status, <<>>)
  /\ call' = Idle

Waiting == call.op # "None"

NetReceive ==
  /\ Waiting /\ (Receive \/ DropNext)
  /\ UNCHANGED <<sent, snd, mishaps, rd, call, ret>>

NetReceiveFails ==
  /\ Waiting /\ ReceiveFails
  /\ ReadFailed("READ_ERROR")
  /\ UNCHANGED <<sent, snd, mishaps>>

\* A buffer is ready: `got' of it goes to the caller.
Got == Copied(rcv, call.want)
Rest == AfterCopy(rcv, Len(Got))

Ready == Waiting /\ rcv.ready

ReadShort ==
  /\ Ready /\ Len(Got) # call.want
  /\ rcv' = Rest
  /\ ReadFailed("EOF")
  /\ UNCHANGED <<sent, snd, wire, mishaps>>

\* The packet the header just read begins, 0 without a sync pattern.
HeaderRead == IF Got[1][2] = 0 THEN Got[1][1] ELSE 0

\* The header checked out, with packet length and all.
HeaderDone(r, p) ==
  /\ rcv' = r
  /\ rd' = [state |-> "ReadData", hlen |-> HeaderLen(sent[p]), plen |-> sent[p].len,
            dlen |-> sent[p].len - HeaderLen(sent[p]), rpos |-> 0, pkt |-> p]
  /\ ret' = Returned("Header", "OK", <<>>)
  /\ call' = Idle

\* A bad checksum is reported by a reader in step.  An unsynced one, and any that finds
\* no sync pattern, dumps the buffer and waits for another.
HeaderBad(sync) ==
  IF sync /\ rd.state # "Unsynced"
    THEN /\ rcv' = Rest
         /\ ReadFailed("HEADER_CHKSUM_BAD")
    ELSE /\ rcv' = DumpNetStream(Rest)
         /\ rd' = [rd EXCEPT !.state = "Unsynced"]
         /\ call' = Call("Header", HEADER_SIZE, 0)
         /\ UNCHANGED ret

FinishHeader ==
  LET p == HeaderRead IN
  /\ Ready /\ call.op = "Header" /\ Len(Got) = call.want
  /\ UNCHANGED <<sent, snd, wire, mishaps>>
  /\ \/ /\ ~(p # 0 /\ sent[p].ok)
        /\ HeaderBad(p # 0)
     \/ /\ p # 0 /\ sent[p].ok /\ ~sent[p].sec
        /\ HeaderDone(Rest, p)
     \/ /\ p # 0 /\ sent[p].ok /\ sent[p].sec
        /\ rcv' = Begin(Rest)
        /\ call' = Call("SecHeader", SEC_HEADER_SIZE, p)
        /\ UNCHANGED <<rd, ret>>

FinishSecHeader ==
  /\ Ready /\ call.op = "SecHeader" /\ Len(Got) = call.want
  /\ UNCHANGED <<sent, snd, wire, mishaps>>
  /\ IF Got = Units(call.pkt, HEADER_SIZE, SEC_HEADER_SIZE) /\ sent[call.pkt].secOk
       THEN HeaderDone(Rest, call.pkt)
       ELSE HeaderBad(TRUE)

FinishData ==
  /\ Ready /\ call.op = "Data" /\ Len(Got) = call.want
  /\ rcv' = Rest
  /\ rd' = [rd EXCEPT !.state = "ReadHeader", !.rpos = call.want]
  /\ ret' = Returned("Data", "OK", Got)
  /\ call' = Idle
  /\ UNCHANGED <<sent, snd, wire, mishaps>>

Send ==
  /\ \/ \E b \in Bursts : \E counts \in {Complete(b)} \cup CutShort(b) : WriteNetStream(b, counts)
     \/ \E b \in Bundles : RecorderSends(b)
  /\ UNCHANGED <<rd, call, ret>>

Deliver == Network /\ UNCHANGED <<rd, call, ret>>

Read ==
  \/ ReadNextHeader \/ (\E n \in BuffSizes : ReadData(n))
  \/ NetReceive \/ NetReceiveFails \/ ReadShort
  \/ FinishHeader \/ FinishSecHeader \/ FinishData

Next == Send \/ Deliver \/ Read

Spec == Init /\ [][Next]_vars

-----------------------------------------------------------------------------
(* What the receiving end promises.                                         *)

\* No packet takes more than m datagrams, and a session sends fewer than there are sequence
\* numbers: none has the number of another.
FewerThanNumbers(m) ==
  /\ m \in Nat \ {0}
  /\ \A q \in Packets : q.len <= m * MAX_UDP_WRITE_SIZE
  /\ m * MAX_LOAD < SEQ_MOD

IsHead(u) == u[2] = 0
IsEnd(u) == u[2] = sent[u[1]].len - 1
Follows(u, v) == v = <<u[1], u[2] + 1>>

\* A buffer is handed to the reader only with whole packets in it, put together from
\* segments of one packet and in their places, whatever the network and a failing sender
\* did: a buffer begun before a gap is never finished after it (i106_data_stream.c:898).
BufferIntact ==
  rcv.ready /\ rcv.dataLen > 0 =>
    LET last == rcv.dataLen - 1 IN
    /\ IsHead(rcv.buf[0]) /\ IsEnd(rcv.buf[last])
    /\ \A i \in 1..last :
         \/ Follows(rcv.buf[i - 1], rcv.buf[i])
         \/ IsEnd(rcv.buf[i - 1]) /\ IsHead(rcv.buf[i])

\* The data a successful ReadData returns is all the data of the packet whose header was
\* returned before it, though the buffer may have been dumped or refilled between.
DataOfHeader ==
  ret.op = "Data" /\ ret.status = "OK" =>
    LET hlen == HeaderLen(sent[rd.pkt]) IN
    ret.data = Units(rd.pkt, hlen, sent[rd.pkt].len - hlen)

HeaderReturned == call.op # "None" /\ call'.op = "None" /\ ret'.op = "Header" /\ ret'.status = "OK"

\* Unless datagrams overtake each other or come twice, headers are returned in the order
\* their packets were sent and none comes twice, whatever is lost or dropped.
OrderKept ==
  [][HeaderReturned /\ mishaps.kinds \cap {"Reordered", "Duplicated"} = {}
       => rd'.pkt > rd.pkt]_vars

Flawless ==
  mishaps.kinds = {} /\ \A i \in DOMAIN sent : sent[i].ok /\ (sent[i].sec => sent[i].secOk)

\* With nothing lost or damaged, and no trouble that makes the receiver drop datagrams,
\* every header is returned, in turn, whether the data before it was read, skipped or
\* read at the wrong time.
NothingSkipped == [][HeaderReturned /\ Flawless => rd'.pkt = rd.pkt + 1]_vars

=============================================================================
