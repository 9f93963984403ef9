---------------------------- MODULE PacketCursor ----------------------------
(***************************************************************************)
(* What a reader of a recording promises its caller: a cursor that stands  *)
(* at a packet, or at the end of the recording, and moves to the next      *)
(* packet with every header read.  Positioning by byte offset or backward  *)
(* may lose the boundary; going to the first packet, or opening again,     *)
(* finds it.                                                               *)
(***************************************************************************)
EXTENDS Integers

CONSTANT Recordings  \* records: the packets' `starts', where each one ends
                     \* (`after', a function on starts), and the `end' of the last

VARIABLES
  rec,      \* the recording
  cursor,   \* the offset of the packet the next header read returns, or the end
  got       \* what the last call returned: an offset or one of the values below

cvars == <<rec, cursor, got>>

Nothing == -1
AtEnd   == -2
Rewound == -4
Moved   == -5
Damaged == -6
Nowhere == -3  \* the cursor is not on a packet boundary, or nothing is open

Places(r) == r.starts \cup {r.end, Nowhere}

CursorInit == rec \in Recordings /\ cursor = Nowhere /\ got = Nothing

\* The first packet comes next, or the one behind it when the open gave a warning.
CursorOpen ==
  /\ cursor = Nowhere
  /\ rec' \in Recordings
  /\ cursor' \in {0, rec'.after[0]}
  /\ got' = Nothing

CursorNext ==
  /\ cursor \in rec.starts
  /\ got' = cursor
  /\ cursor' = rec.after[cursor]
  /\ UNCHANGED rec

CursorEnd ==
  /\ cursor = rec.end
  /\ got' = AtEnd
  /\ UNCHANGED <<rec, cursor>>

\* Reading data, with a buffer large enough or not, in turn or not.  A lost cursor may
\* be at the end afterwards: where the data of a header that was none would run beyond it.
CursorData ==
  /\ got' = Nothing
  /\ cursor' = cursor \/ (cursor = Nowhere /\ cursor' = rec.end)
  /\ UNCHANGED rec

CursorFirst == cursor' = 0 /\ got' = Rewound /\ UNCHANGED rec

\* Moving by offset, moving backward, and closing.
CursorJump == cursor' \in Places(rec) /\ got' = Moved /\ UNCHANGED rec

\* Reading a header with a lost cursor.
CursorLost ==
  /\ cursor = Nowhere
  /\ cursor' \in Places(rec)
  /\ got' \notin {Nothing, Rewound, Moved}
  /\ UNCHANGED rec

CursorStep ==
  \/ CursorOpen \/ CursorNext \/ CursorEnd \/ CursorData
  \/ CursorFirst \/ CursorJump \/ CursorLost

CursorSpec == CursorInit /\ [][CursorStep]_cvars

=============================================================================
