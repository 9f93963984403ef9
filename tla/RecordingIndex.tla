--------------------------- MODULE RecordingIndex ----------------------------
(***************************************************************************)
(* The index a recorder puts into its file (i106_index.c and               *)
(* i106_decode_index.c): root index packets, linked from the last packet   *)
(* of the file backward, name node index packets, which name packets.      *)
(* Reading it fills a table in memory, one for each handle.                *)
(***************************************************************************)
EXTENDS HeaderWalk, SequencesExt, FiniteSets

CONSTANTS
  Content(_, _),  \* what the packet at an offset of a file holds
  Channels,       \* channels callers index
  TIME_LIMIT,     \* how far FindTimePacket looks (10 s)
  INCREMENT,      \* entries the table grows by at first (1000)
  MAX_NODES       \* bound on the table when it is read or made

(* A message of an index packet: for a node the packet it names, for a root a node     *)
(* packet or, the last one, the next root.                                             *)
Message == [chan : Nat, type : {"DATA", "TIME", "INDEX"}, at : Nat, time : Nat, abs : Nat]

\* `abs' is the clock when the packet was recorded; what a time packet says.  `intra':
\* messages have an absolute time of their own.  `short': less data than one message.
Body == [chan : Nat, type : {"DATA", "TIME", "INDEX"}, time : Nat, abs : Nat,
         node : BOOLEAN, intra : BOOLEAN, short : BOOLEAN, msgs : Seq(Message)]

ASSUME RecordingAssumption ==
  /\ \A f \in Files : \A q \in DOMAIN f.cand : Content(f, q) \in Body
  /\ Channels \subseteq Nat /\ TIME_LIMIT \in Nat
  /\ INCREMENT \in Nat \ {0} /\ MAX_NODES \in Nat

VARIABLES
  inited,  \* m_bIndexesInited
  tbl,     \* the nodes in psuIndexTable, uNodesAvailable and uNodeIncrement
  tref,    \* pvTimeF1Packet, suTimeF1Hdr and suTimeF1
  job,     \* enReadIndexes: the root it is at, its messages done, the next root, where
           \* it was called
  call     \* ghost: what the last index call began with

recvars == <<inited, tbl, tref, job, call>>
allvars == <<vars, recvars>>

NoJob == [on |-> FALSE, at |-> 0, done |-> 0, next |-> 0, start |-> 0]

\* `fresh': the table was empty; `ahead': the header that would have been read next.
CallOn(t, ch) ==
  [fresh |-> t.nodes = <<>>, ahead |-> NextOutcome(file, rd).at, chan |-> ch]

NoCall == [fresh |-> FALSE, ahead |-> NoHeader, chan |-> 0]

\* InitIndex with nothing to free: the reference itself stays.
EmptyTable == [nodes |-> <<>>, avail |-> 0, inc |-> INCREMENT]

RecInit ==
  /\ Init
  /\ inited = FALSE
  /\ tbl = [nodes |-> <<>>, avail |-> 0, inc |-> 0]
  /\ tref = [packet |-> FALSE, rel |-> 0, abs |-> 0]
  /\ job = NoJob /\ call = NoCall

\* A time left unset, or decoded from what is no time packet.
Garbage == -1

-----------------------------------------------------------------------------
(* FindTimePacket: a time reference from the middle of the file.            *)

IsTime(f, q) == Content(f, q).type = "TIME"

\* An offset in the middle need not be that of a packet.
Halfway(f, r) == LET last == LastOutcome(f, r).rd IN Seek(last, last.pos \div 2)

\* Slip: the place is not restored when no time packet is found.
FindTimePacket_moves(f, r, t) ==
  LET from == Halfway(f, r)
      next(q) == Following(f, q, FALSE)
      w == Headers(f, from, next)
      late(q) == Content(f, q).time > Content(f, w[0]).time + TIME_LIMIT
      stop(q) == q = NoHeader \/ late(q) \/ IsTime(f, q)
  IN {LET o == OutcomeOf(f, from, next, w, n)
          found == o.status = "OK" /\ ~late(w[n]) /\ DataOutcome(f, o.rd).status = "OK"
      IN [rd |-> IF w[n] = NoHeader THEN o.rd ELSE Seek(o.rd, r.pos),
          tref |-> IF found THEN [packet |-> TRUE, rel |-> Content(f, w[n]).time,
                                  abs |-> Content(f, w[n]).abs]
                            ELSE t] : n \in FirstStop(w, stop)}

\* It ends at a time packet, at one later than the limit, or when there is no header.  The
\* place is restored, but not when the first header cannot be read.
FindTimePacket(f, r, t) ==
  LET from == Halfway(f, r)
      next(q) == Following(f, q, FALSE)
      w == Headers(f, from, next)
      late(q) == Content(f, q).time > Content(f, w[0]).time + TIME_LIMIT
      stop(q) == q = NoHeader \/ late(q) \/ IsTime(f, q)
  IN {LET o == OutcomeOf(f, from, next, w, n)
          found == o.status = "OK" /\ ~late(w[n]) /\ DataOutcome(f, o.rd).status = "OK"
      IN [rd |-> IF w[0] = NoHeader THEN o.rd ELSE Seek(o.rd, r.pos),
          tref |-> IF found THEN [packet |-> TRUE, rel |-> Content(f, w[n]).time,
                                  abs |-> Content(f, w[n]).abs]
                            ELSE t] : n \in FirstStop(w, stop)}

-----------------------------------------------------------------------------
(* The table.                                                               *)

\* AddNodeToIndex makes room for one more than n entries when there is none left, each
\* time half as much again.
RoomFor(avail, inc, n) == IF avail <= n THEN <<avail + inc, (inc * 3) \div 2>> ELSE <<avail, inc>>

AddNodes(t, new) ==
  LET used == Len(t.nodes)
      R[i \in 0..Len(new)] == IF i = 0 THEN <<t.avail, t.inc>>
                              ELSE LET r == R[i - 1] IN RoomFor(r[1], r[2], used + i - 1)
      room == R[Len(new)]
  IN [nodes |-> t.nodes \o new, avail |-> room[1], inc |-> room[2]]

\* Slip: the order is left as it was read.
Sorted_not(t) == {t}

\* Outcomes of SortIndexes.
Sorted(t) ==
  LET n == Len(t.nodes)
      arranged == {[i \in 1..n |-> t.nodes[p[i]]] : p \in Bijection(1..n, 1..n)}
  IN {[t EXCEPT !.nodes = s] :
        s \in {a \in arranged : \A i, j \in 1..n : i < j => a[i].time <= a[j].time}}

InitIndex ==
  /\ ~job.on
  /\ tbl' = EmptyTable
  /\ tref' = [tref EXCEPT !.packet = FALSE]
  /\ ret' = Returned("Index", "OK", NoHeader)
  /\ UNCHANGED <<file, mode, rd, inited, job, call>>

\* InitIndexes, the first time an index is read or made.
Ready(t) == IF inited THEN t ELSE EmptyTable

-----------------------------------------------------------------------------
(* Reading the index packets.                                               *)

\* Reading an index packet: its messages, or why it has none to use.  Like HeaderSearch a
\* set of one element.
PacketRead(o, d, c) ==
  CASE o.status # "OK" -> [status |-> o.status]
    [] o.status = "OK" /\ c.type # "INDEX" -> [status |-> "INVALID_DATA"]
    [] o.status = "OK" /\ c.type = "INDEX" /\ d.status # "OK" -> [status |-> d.status]
    [] OTHER -> [status |-> IF c.short /\ c.msgs # <<>> THEN "BUFFER_OVERRUN" ELSE "OK",
                 body |-> c]

IndexPacket(f, r, q) ==
  {PacketRead(o, DataOutcome(f, o.rd), Content(f, o.at)) : o \in HeaderSearch(f, Seek(r, q), q)}

\* The absolute time of an indexed packet: from the message, from the time packet it
\* names, or from its relative time and the reference.
AbsTime(f, rf, body, m) ==
  LET o == NextOutcome(f, Seek(rd, m.at)) IN
  CASE body.intra -> m.abs
    [] ~body.intra /\ m.type = "TIME" ->
         IF o.status = "OK" /\ DataOutcome(f, o.rd).status = "OK"
            /\ IsTime(f, o.at)
           THEN Content(f, o.at).abs ELSE Garbage
    [] OTHER -> rf.abs + (m.time - rf.rel)

Node(f, rf, body, m) ==
  [chan |-> m.chan, type |-> m.type, at |-> m.at, time |-> m.time,
   abs |-> AbsTime(f, rf, body, m)]

\* ProcessNodeIndexPacket: the entries of a node packet read.  A message with its own time
\* is decoded with the flags of the time packet found, a null reference when none was.
NodeStatus(rf, p) ==
  CASE p.status # "OK" -> p.status
    [] p.status = "OK" /\ p.body.msgs = <<>> -> "OK"
    [] p.status = "OK" /\ p.body.msgs # <<>> /\ ~p.body.node -> "INVALID_DATA"
    [] p.status = "OK" /\ p.body.msgs # <<>> /\ p.body.node ->
         IF p.body.intra /\ ~rf.packet THEN "ABORT" ELSE "OK"

Nodes(f, rf, body) == [i \in DOMAIN body.msgs |-> Node(f, rf, body, body.msgs[i])]

\* The beginning of enReadIndexes.  `next' is not set yet.
ReadIndexes ==
  /\ mode # "CLOSED" /\ ~job.on /\ Len(tbl.nodes) <= MAX_NODES
  /\ inited' = TRUE
  /\ UNCHANGED <<file, mode>>
  /\ \/ /\ mode = "READ_IN_ORDER"
        /\ tbl' = Ready(tbl)
        /\ ret' = Returned("Index", "WRONG_FILE_MODE", NoHeader)
        /\ UNCHANGED <<rd, tref, job, call>>
     \/ /\ mode = "READ"
        /\ \E o \in FindTimePacket(file, rd, tref), junk \in Offsets :
             LET last == LastOutcome(file, o.rd) IN
             /\ tref' = o.tref /\ rd' = last.rd
             /\ ret' = Returned("None", last.status, NoHeader)
             /\ job' = [on |-> last.status # "ABORT", at |-> last.rd.pos, done |-> 0,
                        next |-> junk, start |-> rd.pos]
             /\ call' = CallOn(Ready(tbl), 0)
             /\ tbl' = Ready(tbl)

\* Slip: the position goes to where the last root packet was.
Restore_not(j) == rd

Restore(j) == Seek(rd, j.start)

\* The rest of enReadIndexes, when the loop over the roots ends.
EndReadIndexes(status) ==
  /\ tbl' \in Sorted(tbl)
  /\ rd' = Restore(job)
  /\ ret' = Returned("ReadIndexes", IF status = "INVALID_DATA" THEN "NO_INDEX" ELSE status,
                     NoHeader)
  /\ job' = NoJob

\* Slip: the loop does not go on to the next root.
GoToRoot_stays(next) ==
  \/ next = job.at /\ EndReadIndexes("OK")
  \/ /\ next # job.at
     /\ job' = [job EXCEPT !.next = next]
     /\ UNCHANGED <<rd, tbl, ret>>

GoToRoot(next) ==
  \/ next = job.at /\ EndReadIndexes("OK")
  \/ /\ next # job.at
     /\ job' = [job EXCEPT !.at = next, !.next = next, !.done = 0]
     /\ UNCHANGED <<rd, tbl, ret>>

\* What one message of a root says to do: read the node packet it names.  The nodes read
\* before a bad one stay.
RootMessage(q) ==
  \E p \in IndexPacket(file, rd, q), status \in Status \cup {"INVALID_DATA", "BUFFER_OVERRUN"} :
    /\ status = NodeStatus(tref, p)
    /\ \/ /\ status = "OK"
          /\ tbl' = AddNodes(tbl, Nodes(file, tref, p.body))
          /\ job' = [job EXCEPT !.done = @ + 1]
          /\ UNCHANGED <<rd, ret>>
       \/ /\ status = "ABORT"
          /\ ret' = Returned("Index", "ABORT", NoHeader)
          /\ UNCHANGED <<rd, tbl, job>>
       \/ status \notin {"OK", "ABORT"} /\ EndReadIndexes(status)

\* The loop over the root packets and ProcessRootIndexPacket, a message at a time.  Only
\* the last message of a root sets the next one.
RootStep ==
  /\ job.on
  /\ UNCHANGED <<file, mode, inited, tref, call>>
  /\ \E p \in IndexPacket(file, rd, job.at) :
       \/ p.status # "OK" /\ EndReadIndexes(p.status)
       \/ p.status = "OK" /\ p.body.msgs = <<>> /\ GoToRoot(job.next)
       \/ p.status = "OK" /\ p.body.msgs # <<>> /\ p.body.node
          /\ EndReadIndexes("INVALID_DATA")
       \/ /\ p.status = "OK" /\ p.body.msgs # <<>> /\ ~p.body.node
          /\ \/ /\ job.done < Len(p.body.msgs) - 1
                /\ RootMessage(p.body.msgs[job.done + 1].at)
             \/ /\ job.done = Len(p.body.msgs) - 1
                /\ GoToRoot(Last(p.body.msgs).at)

-----------------------------------------------------------------------------
(* Making an index of a channel, and the other calls.                       *)

OfChannel(f, ch, q) == Content(f, q).chan = ch

\* The absolute time is not filled in.
MadeNode(f, ch, q) ==
  [chan |-> ch, type |-> Content(f, q).type, at |-> q, time |-> Content(f, q).time,
   abs |-> Garbage]

\* The entries of the packets of a channel among the first n headers of a walk.
MadeNodes(f, ch, w, n) ==
  LET M[k \in 0..n] ==
        IF k = 0 THEN <<>>
        ELSE IF OfChannel(f, ch, w[k - 1]) THEN Append(M[k - 1], MadeNode(f, ch, w[k - 1]))
        ELSE M[k - 1]
  IN M[n]

\* A bad header does not end the loop.
PastBadHeader(f, o) == IF o.status = "HEADER_CHKSUM_BAD" THEN NextOutcome(f, o.rd) ELSE o

\* enMakeIndex, from where the reader is to the end of the file; only EOF ends the loop,
\* so that it never returns in the wrong mode.  (A file too short for a header ends the
\* program in LastMsg, here as in ReadIndexes.)
MakeIndex(ch) ==
  /\ mode = "READ" /\ ~job.on /\ Len(tbl.nodes) <= MAX_NODES
  /\ LastOutcome(file, rd).status # "ABORT"
  /\ inited' = TRUE
  /\ UNCHANGED <<file, mode, job>>
  /\ \E o \in FindTimePacket(file, rd, tref) :
       LET next(q) == PastBadHeader(file, Following(file, q, OfChannel(file, ch, q)))
           w == Headers(file, o.rd, next)
       IN
       \E n \in FirstStop(w, LAMBDA q : q = NoHeader) :
         /\ tref' = o.tref
         /\ tbl' = AddNodes(Ready(tbl), MadeNodes(file, ch, w, n))
         /\ rd' = OutcomeOf(file, o.rd, next, w, n).rd
         /\ ret' = Returned("MakeIndex", "OK", NoHeader)
         /\ call' = CallOn(Ready(tbl), ch)

\* enIndexPresent: whether the last packet is one of an index.
IndexPresent ==
  /\ mode # "CLOSED" /\ ~job.on
  /\ LET last == LastOutcome(file, rd)
         o == NextOutcome(file, last.rd)
     IN \/ /\ mode # "READ"
           /\ ret' = Returned("IndexPresent", "NOT_OPEN", NoHeader)
           /\ UNCHANGED rd
        \/ /\ mode = "READ" /\ last.status # "OK"
           /\ rd' = Seek(last.rd, rd.pos)
           /\ ret' = Returned("IndexPresent", last.status, NoHeader)
        \/ /\ mode = "READ" /\ last.status = "OK"
           /\ rd' = Seek(o.rd, rd.pos)
           /\ ret' = Returned("IndexPresent", o.status,
                              IF o.status = "OK" /\ Content(file, o.at).type = "INDEX"
                                THEN o.at ELSE NoHeader)
  /\ call' = CallOn(tbl, 0)
  /\ UNCHANGED <<file, mode, inited, tbl, tref, job>>

\* The table and the reference outlive the close, and serve the next file.
ReaderCall ==
  /\ ~job.on
  /\ \/ mode = "CLOSED" /\ \E f \in Files, m \in Modes : Open(f, m)
     \/ Close
     \/ ReadNextHeader
     \/ \E n \in BuffSizes : ReadData(n)
  /\ call' = NoCall
  /\ UNCHANGED <<inited, tbl, tref, job>>

RecNext ==
  /\ ret.status # "ABORT"
  /\ \/ ReaderCall
     \/ InitIndex
     \/ ReadIndexes
     \/ RootStep
     \/ \E ch \in Channels : MakeIndex(ch)
     \/ IndexPresent

RecSpec == RecInit /\ [][RecNext]_allvars /\ WF_allvars(ret.status # "ABORT" /\ RootStep)

-----------------------------------------------------------------------------
(* Properties.                                                              *)

\* The roots of a file, from the last packet on.
LastPacket(f) == CHOOSE q \in f.pkts : \A s \in f.pkts : s <= q

RootChain(f) ==
  LET linked == [q \in Nat |->
        IF q \in f.pkts /\ Content(f, q).msgs # <<>> THEN Last(Content(f, q).msgs).at ELSE q]
      R[n \in 0..Cardinality(f.pkts)] == IF n = 0 THEN LastPacket(f) ELSE linked[R[n - 1]]
  IN {R[n] : n \in DOMAIN R}

\* <<root, message of the root, message of the node>> of each entry of the index.
IndexEntries(f) ==
  LET msgs(q) == Content(f, q).msgs
      ofNode(q, i) == {<<q, i, n>> : n \in DOMAIN msgs(msgs(q)[i].at)}
      ofRoot(q) == UNION {ofNode(q, i) : i \in 1..(Len(msgs(q)) - 1)}
  IN UNION {ofRoot(q) : q \in RootChain(f)}

EntryOf(f, e) == Content(f, Content(f, e[1]).msgs[e[2]].at).msgs[e[3]]

\* A recording as a recorder indexes it: roots that end in one linked to itself, nodes
\* below them, each of which names packets by their channel, type and time.
Indexed(f) ==
  LET msgs(q) == Content(f, q).msgs
      index(q, node) == /\ q \in f.pkts /\ Content(f, q).type = "INDEX"
                        /\ Content(f, q).node = node /\ ~Content(f, q).short
                        /\ f.cand[q].len > HEADER_SIZE
  IN /\ Recording(f) /\ Clean(f)
     /\ \A q \in RootChain(f) : index(q, FALSE) /\ msgs(q) # <<>>
     /\ \E q \in RootChain(f) : Last(msgs(q)).at = q
     /\ \A q \in RootChain(f) : \A i \in 1..(Len(msgs(q)) - 1) : index(msgs(q)[i].at, TRUE)
     /\ \A e \in IndexEntries(f) :
          LET m == EntryOf(f, e) IN
          /\ m.at \in f.pkts
          /\ \A x \in {"chan", "type", "time", "abs"} : m[x] = Content(f, m.at)[x]

\* The clock runs with the relative time, time packets have data, and from the middle of the
\* file on there is one before which no packet is later than another by more than the limit.
Timed(f) ==
  /\ \A p, q \in f.pkts : Content(f, p).abs - Content(f, p).time
                             = Content(f, q).abs - Content(f, q).time
  /\ \A q \in f.pkts : IsTime(f, q) => f.cand[q].len > HEADER_SIZE
  /\ \E q \in f.pkts :
       LET between == {p \in f.pkts : LastPacket(f) \div 2 <= p /\ p <= q} IN
       /\ IsTime(f, q) /\ q \in between
       /\ \A p, s \in between : Content(f, s).time <= Content(f, p).time + TIME_LIMIT

\* Reading the index of a recording through all its roots into an empty table gives one
\* entry for each the recorder made, in the order of their times, with the time the clock
\* showed when the packet was recorded, whatever file and time reference the handle had
\* before.
IndexIsRecorded ==
  (ret.op = "ReadIndexes" /\ ret.status = "OK" /\ call.fresh
   /\ Indexed(file) /\ Timed(file))
  => /\ Len(tbl.nodes) = Cardinality(IndexEntries(file))
     /\ {tbl.nodes[i].at : i \in DOMAIN tbl.nodes}
          = {EntryOf(file, e).at : e \in IndexEntries(file)}
     /\ \A i \in DOMAIN tbl.nodes :
          LET n == tbl.nodes[i] IN
          /\ n.abs = Content(file, n.at).abs
          /\ \A j \in DOMAIN tbl.nodes : i < j => n.time <= tbl.nodes[j].time

\* A program that looks for the index or reads it while it reads a recording goes on with
\* the packet it would have read next, also when it had a header but not yet its data.
IndexKeepsPlace ==
  (ret.op \in {"ReadIndexes", "IndexPresent"} /\ Recording(file) /\ Clean(file))
  => NextOutcome(file, rd).at = call.ahead

\* Making an index of a channel into an empty table finds each packet of the channel from
\* where the reader is, in the order of the file; the search for a time packet does not
\* lose the place.
MakeIndexFindsAll ==
  (ret.op = "MakeIndex" /\ call.fresh /\ Recording(file) /\ Clean(file))
  => /\ {tbl.nodes[i].at : i \in DOMAIN tbl.nodes}
          = {q \in file.pkts : /\ Content(file, q).chan = call.chan
                               /\ call.ahead # NoHeader /\ q >= call.ahead}
     /\ \A i, j \in DOMAIN tbl.nodes : i < j => tbl.nodes[i].at < tbl.nodes[j].at

\* Reading the index of a recording whose roots end comes to its end.  (Without a time
\* packet the program may end first, in AddIndexNodeToIndex.)
ReadIndexesReturns == (job.on /\ Indexed(file) /\ Timed(file)) ~> (~job.on)

=============================================================================
