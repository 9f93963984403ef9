----------------------------- MODULE MCRecIndex ------------------------------
(* Small indexed recordings for RecordingIndex.                               *)
EXTENDS RecordingIndex, MCReader

\* A packet: how much of the file it takes, and what it holds.
Packet(kind, type, time) ==
  [kind |-> kind,
   body |-> [chan |-> IF type = "DATA" THEN 1 ELSE 0, type |-> type, time |-> time,
             abs |-> time + 5, node |-> FALSE, intra |-> FALSE, short |-> FALSE,
             msgs |-> <<>>]]

Index(node, intra, time, msgs) ==
  LET p == Packet(Plain, "INDEX", time) IN
  [p EXCEPT !.body.node = node, !.body.intra = intra, !.body.msgs = msgs]

Names(chan, type, at, time) ==
  [chan |-> chan, type |-> type, at |-> at, time |-> time, abs |-> time + 5]

To(at) == Names(0, "INDEX", at, 0)

IndexedFile(ps) ==
  LET k == [i \in DOMAIN ps |-> ps[i].kind] IN
  FileOf(k) @@ [body |-> [q \in {Start(k, i) : i \in DOMAIN k} |->
                            ps[CHOOSE i \in DOMAIN k : Start(k, i) = q].body]]

MCContent(f, q) == f.body[q]

Setup == Packet(Tmats, "DATA", 0)

\* Two roots, of which the last is read first.  The time packet comes late after the other
\* root if that has an early time.
TwoRoots(intra, early) ==
  IndexedFile(<<Setup, Packet(Plain, "DATA", 1),
                Index(TRUE, intra, 2, <<Names(1, "DATA", 3, 1)>>),
                Index(FALSE, FALSE, IF early THEN 0 ELSE 2, <<To(7), To(11)>>),
                Packet(Plain, "TIME", 3),
                Index(TRUE, FALSE, 4, <<Names(0, "TIME", 15, 3)>>),
                Index(FALSE, FALSE, 4, <<To(19), To(11)>>)>>)

\* No time packet.
Timeless ==
  IndexedFile(<<Setup, Packet(Plain, "DATA", 2),
                Index(TRUE, TRUE, 3, <<Names(1, "DATA", 3, 2)>>),
                Index(FALSE, FALSE, 3, <<To(7), To(11)>>)>>)

\* Roots that link to each other, one without messages, one with too little data, one that
\* names a root, and none.
Cyclic == IndexedFile(<<Setup, Index(FALSE, FALSE, 1, <<To(7)>>), Index(FALSE, FALSE, 1, <<To(3)>>)>>)
NoMsgs == IndexedFile(<<Setup, Index(FALSE, FALSE, 1, <<>>)>>)
Short  == IndexedFile(<<Setup, [Index(FALSE, FALSE, 1, <<To(3)>>) EXCEPT !.body.short = TRUE]>>)
Wrong  == IndexedFile(<<Setup, Index(FALSE, FALSE, 1, <<To(3), To(3)>>)>>)
Plainly == IndexedFile(<<Setup, Packet(Plain, "DATA", 2)>>)

MCRecFiles ==
  {TwoRoots(FALSE, FALSE), TwoRoots(TRUE, FALSE), TwoRoots(FALSE, TRUE), Timeless, Cyclic,
   NoMsgs, Short, Wrong, Plainly}

=============================================================================
