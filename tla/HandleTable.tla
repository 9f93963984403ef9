---------------------------- MODULE HandleTable -----------------------------
(***************************************************************************)
(* The table of handles of irig106ch10.c and, beside it, the socket of     *)
(* each handle in i106_data_stream.c, over the operating system's table of *)
(* file descriptors.  A descriptor is a small number the system hands out  *)
(* again as soon as it is free, so a stale copy of one names somebody      *)
(* else's file.  What a read, a seek or a write does to the file is left   *)
(* to Ch10Reader; here only whose descriptor it goes to matters.           *)
(***************************************************************************)
EXTENDS Integers

CONSTANTS
  MAX_HANDLES,  \* slots of the table (100)
  MAX_FDS       \* descriptors the system has

ASSUME TableAssumption == MAX_HANDLES \in Nat \ {0} /\ MAX_FDS \in Nat \ {0}

Handle == 0..(MAX_HANDLES - 1)
Fd == 0..(MAX_FDS - 1)

\* Owners of a descriptor that are not a handle: the program around the library, nobody.
App == -1
Free == -2
NoFd == -1

FileModes == {"READ", "READ_IN_ORDER", "OVERWRITE"}
StreamModes == {"READ_NET_STREAM", "WRITE_NET_STREAM"}

VARIABLES
  slot,   \* g_suI106Handle: bInUse, enFileMode, iFile
  sock,   \* m_suNetHandle: enNetMode, suIrigSocket
  fds,    \* the system's descriptors: who opened each
  touch,  \* the last close(), read() or write(): the handle it was for, the owner it hit
  lapse   \* ghost: a stream open has failed, or a stream handle was given to WriteMsg

vars == <<slot, sock, fds, touch, lapse>>

TypeOK ==
  /\ slot \in [Handle -> [inUse : BOOLEAN, mode : {"CLOSED"} \cup FileModes \cup StreamModes,
                          iFile : Fd \cup {NoFd}]]
  /\ sock \in [Handle -> [mode : {"CLOSED"} \cup StreamModes, fd : Fd \cup {NoFd}]]
  /\ fds \in [Fd -> Handle \cup {App, Free}]
  /\ touch \in [for : Handle \cup {App}, hit : Handle \cup {App, Free}]
  /\ lapse \in BOOLEAN

\* Static storage: iFile and the socket are 0 before the first open, and descriptor 0 is
\* the program's own.
Init ==
  /\ slot = [h \in Handle |-> [inUse |-> FALSE, mode |-> "CLOSED", iFile |-> 0]]
  /\ sock = [h \in Handle |-> [mode |-> "CLOSED", fd |-> 0]]
  /\ fds = [d \in Fd |-> IF d = 0 THEN App ELSE Free]
  /\ touch = [for |-> App, hit |-> App]
  /\ lapse = FALSE

\* GetNextHandle and the system's choice: the lowest that is free.
NextHandle(h) == ~slot[h].inUse /\ \A k \in Handle : k < h => slot[k].inUse
NextFd(d) == fds[d] = Free /\ \A e \in Fd : e < d => fds[e] # Free

OwnerOf(d) == IF d \in Fd THEN fds[d] ELSE Free

-----------------------------------------------------------------------------
(* Opening files.                                                           *)

\* The file opens and looks like a recording (OK or OPEN_WARNING), or is to be written.
OpenFile(h, m, d) ==
  /\ NextHandle(h) /\ NextFd(d)
  /\ slot' = [slot EXCEPT ![h] = [inUse |-> TRUE, mode |-> m, iFile |-> d]]
  /\ fds' = [fds EXCEPT ![d] = h]
  /\ UNCHANGED <<sock, touch, lapse>>

\* open() fails: the slot is given back.
OpenFileFails(h) ==
  /\ NextHandle(h)
  /\ slot' = [slot EXCEPT ![h].inUse = FALSE, ![h].iFile = NoFd]
  /\ UNCHANGED <<sock, fds, touch, lapse>>

\* Slip: the file that is no recording is not closed.
OpenFileRejected_noClose(h, d) ==
  /\ NextHandle(h) /\ NextFd(d)
  /\ slot' = [slot EXCEPT ![h].inUse = FALSE, ![h].iFile = d]
  /\ fds' = [fds EXCEPT ![d] = h]
  /\ UNCHANGED <<sock, touch, lapse>>

\* Not a recording: the file is closed and the slot given back, iFile keeps the number.
OpenFileRejected(h, d) ==
  /\ NextHandle(h) /\ NextFd(d)
  /\ slot' = [slot EXCEPT ![h].inUse = FALSE, ![h].iFile = d]
  /\ touch' = [for |-> h, hit |-> h]
  /\ UNCHANGED <<sock, fds, lapse>>

\* A mode Open does not know (APPEND).
OpenBadMode(h) ==
  /\ NextHandle(h)
  /\ slot' = [slot EXCEPT ![h].inUse = FALSE, ![h].mode = "CLOSED"]
  /\ UNCHANGED <<sock, fds, touch, lapse>>

-----------------------------------------------------------------------------
(* Opening network streams.                                                 *)

OpenStream(h, m, d) ==
  /\ NextHandle(h) /\ NextFd(d)
  /\ slot' = [slot EXCEPT ![h].inUse = TRUE, ![h].mode = m]
  /\ sock' = [sock EXCEPT ![h] = [mode |-> m, fd |-> d]]
  /\ fds' = [fds EXCEPT ![d] = h]
  /\ UNCHANGED <<touch, lapse>>

\* socket() fails, or bind() fails and the socket is closed again.  The slot stays in
\* use, its mode CLOSED, its iFile whatever it was.
OpenStreamFails(h, s) ==
  /\ NextHandle(h)
  /\ slot' = [slot EXCEPT ![h].inUse = TRUE]
  /\ sock' = [sock EXCEPT ![h].fd = s]
  /\ lapse' = TRUE
  /\ UNCHANGED <<fds, touch>>

-----------------------------------------------------------------------------
(* Using and closing a handle.                                              *)

\* Slip: every handle is a file.
FdToClose_file(h) == slot[h].iFile

\* enI106_CloseNetStream goes by the stream's own mode, enI106Ch10Close by the file
\* mode, where everything that is no stream counts as a file.
FdToClose(h) ==
  IF slot[h].mode \in StreamModes
    THEN IF sock[h].mode \in StreamModes THEN sock[h].fd ELSE NoFd
    ELSE slot[h].iFile

\* Slip: the slot is not given back.
Close_keepsSlot(h) ==
  LET d == FdToClose(h) IN
  /\ slot[h].inUse
  /\ touch' = IF d = NoFd THEN touch ELSE [for |-> h, hit |-> OwnerOf(d)]
  /\ fds' = [e \in Fd |-> IF e = d THEN Free ELSE fds[e]]
  /\ slot' = [slot EXCEPT ![h].mode = "CLOSED", ![h].iFile = NoFd]
  /\ sock' = IF slot[h].mode \in StreamModes THEN [sock EXCEPT ![h].mode = "CLOSED"] ELSE sock
  /\ UNCHANGED lapse

Close(h) ==
  LET d == FdToClose(h) IN
  /\ slot[h].inUse
  /\ touch' = IF d = NoFd THEN touch ELSE [for |-> h, hit |-> OwnerOf(d)]
  /\ fds' = [e \in Fd |-> IF e = d THEN Free ELSE fds[e]]
  /\ slot' = [slot EXCEPT ![h] = [inUse |-> FALSE, mode |-> "CLOSED", iFile |-> NoFd]]
  /\ sock' = IF slot[h].mode \in StreamModes THEN [sock EXCEPT ![h].mode = "CLOSED"] ELSE sock
  /\ UNCHANGED lapse

\* Every call that reads, seeks or writes the file of a handle; the mode checks of the
\* calls let through the file modes and, in WriteMsg, WRITE_NET_STREAM.
UseFile(h) ==
  /\ slot[h].inUse /\ slot[h].mode \in FileModes \cup {"WRITE_NET_STREAM"}
  /\ slot[h].iFile # NoFd
  /\ touch' = [for |-> h, hit |-> OwnerOf(slot[h].iFile)]
  /\ lapse' = (lapse \/ slot[h].mode \notin FileModes)
  /\ UNCHANGED <<slot, sock, fds>>

\* Receiving and sending go to the socket, if the stream is open.
UseStream(h) ==
  /\ slot[h].inUse /\ slot[h].mode \in StreamModes /\ sock[h].mode = slot[h].mode
  /\ touch' = [for |-> h, hit |-> OwnerOf(sock[h].fd)]
  /\ UNCHANGED <<slot, sock, fds, lapse>>

\* The program around the library opens and closes files of its own.
AppOpen(d) ==
  /\ NextFd(d)
  /\ fds' = [fds EXCEPT ![d] = App]
  /\ UNCHANGED <<slot, sock, touch, lapse>>

AppClose(d) ==
  /\ fds[d] = App
  /\ fds' = [fds EXCEPT ![d] = Free]
  /\ UNCHANGED <<slot, sock, touch, lapse>>

Next ==
  \/ \E h \in Handle :
       \/ \E d \in Fd, m \in FileModes : OpenFile(h, m, d)
       \/ OpenFileFails(h)
       \/ \E d \in Fd : OpenFileRejected(h, d)
       \/ OpenBadMode(h)
       \/ \E d \in Fd, m \in StreamModes : OpenStream(h, m, d)
       \/ \E s \in Fd \cup {NoFd} : OpenStreamFails(h, s)
       \/ Close(h)
       \/ UseFile(h)
       \/ UseStream(h)
  \/ \E d \in Fd : AppOpen(d) \/ AppClose(d)

Spec == Init /\ [][Next]_vars

-----------------------------------------------------------------------------
(* Properties.                                                              *)

\* Whatever was opened, rejected, reused and closed before, in whatever order, a call made
\* for one handle reads, writes or closes that handle's own file or socket only, as long as
\* no stream open has failed and no stream handle was given to WriteMsg.
TouchesOwnFd == ~lapse => touch.hit = touch.for

\* Until then, the descriptor a handle in use would close is its own: none is shared or
\* closed behind its owner's back.
HoldsOwnFd == ~lapse => \A h \in Handle : slot[h].inUse => OwnerOf(FdToClose(h)) = h

\* Whatever has failed, a descriptor opened for a handle is the one the handle will close: no
\* path through the opens, their failures and Close leaks it.
NoFdLeaked ==
  \A d \in Fd, h \in Handle : fds[d] = h => slot[h].inUse /\ FdToClose(h) = d

=============================================================================
