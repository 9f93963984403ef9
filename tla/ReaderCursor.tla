---------------------------- MODULE ReaderCursor ----------------------------
(***************************************************************************)
(* The reader of Ch10Reader implements the cursor of PacketCursor on       *)
(* recordings, whatever sync patterns their payloads contain.              *)
(***************************************************************************)
EXTENDS Ch10Reader

AsRecording(f) == [starts |-> f.pkts,
                   after  |-> [s \in f.pkts |-> s + f.cand[s].len],
                   end    |-> f.size]

\* The packet boundary at which the next header read begins.
CursorOf(f, m, r) ==
  IF m = "READ" /\ NextOffset(r) \in f.pkts \cup {f.size} THEN NextOffset(r) ELSE -3

GotOf(x) ==
  CASE x.op = "FirstMsg" -> -4
    [] x.op \in {"Close", "SetPos", "LastMsg", "ReadPrevHeader"} -> -5
    [] x.op \in {"None", "Open", "ReadData"} -> -1
    [] x.op = "ReadNextHeader" ->
         CASE x.status = "EOF" -> -2
           [] x.status = "HEADER_CHKSUM_BAD" -> -6
           [] OTHER -> x.at

Cursor == INSTANCE PacketCursor WITH
            Recordings <- {AsRecording(f) : f \in Files},
            rec <- AsRecording(file),
            cursor <- CursorOf(file, mode, rd),
            got <- GotOf(ret)

\* Every behaviour of the reader over recordings is one of the cursor: from a packet
\* boundary, header reads return the recorder's packets one after the other with none
\* left out or made up from payload bytes, however data reads, refused data reads and
\* rewinds are mixed in, and EOF comes at the end and nowhere else.
ImplementsCursor == Cursor!CursorSpec

=============================================================================
