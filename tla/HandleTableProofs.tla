------------------------- MODULE HandleTableProofs --------------------------
(***************************************************************************)
(* For every size of the handle table and of the system's table: nothing   *)
(* opened for a handle is ever leaked, whatever fails, and as long as no   *)
(* stream open has failed and no stream handle was given to WriteMsg,      *)
(* every call touches the descriptor of its own handle.                    *)
(***************************************************************************)
EXTENDS HandleTable, TLAPS

\* What OpenFile... and OpenStream... change: only h's entries, and h owned nothing.
OnlyHandle(h) ==
  /\ \A k \in Handle \ {h} : slot'[k] = slot[k] /\ sock'[k] = sock[k]

LEMMA TypeInit == Init => TypeOK
<1> SUFFICES ASSUME Init PROVE TypeOK
  OBVIOUS
<1>1. 0 \in Fd
  BY TableAssumption DEF Fd
<1>2. slot \in [Handle -> [inUse : BOOLEAN, mode : {"CLOSED"} \cup FileModes \cup StreamModes,
                           iFile : Fd \cup {NoFd}]]
  BY <1>1 DEF Init
<1>3. sock \in [Handle -> [mode : {"CLOSED"} \cup StreamModes, fd : Fd \cup {NoFd}]]
  BY <1>1 DEF Init
<1> QED
  BY <1>2, <1>3 DEF Init, TypeOK

\* A descriptor, or nothing.
LEMMA FdToCloseType == ASSUME TypeOK, NEW h \in Handle PROVE FdToClose(h) \in Fd \cup {NoFd}
  BY DEF TypeOK, FdToClose

LEMMA OwnerType == ASSUME TypeOK, NEW d PROVE OwnerOf(d) \in Handle \cup {App, Free}
  BY DEF TypeOK, OwnerOf

LEMMA TypeStep == TypeOK /\ [Next]_vars => TypeOK'
<1> SUFFICES ASSUME TypeOK, [Next]_vars PROVE TypeOK'
  OBVIOUS
<1>1. ASSUME NEW h \in Handle, NEW d \in Fd, NEW m \in FileModes, OpenFile(h, m, d)
      PROVE TypeOK'
  BY <1>1 DEF OpenFile, TypeOK
<1>2. ASSUME NEW h \in Handle, OpenFileFails(h) PROVE TypeOK'
  BY <1>2 DEF OpenFileFails, TypeOK
<1>3. ASSUME NEW h \in Handle, NEW d \in Fd, OpenFileRejected(h, d) PROVE TypeOK'
  BY <1>3 DEF OpenFileRejected, TypeOK
<1>4. ASSUME NEW h \in Handle, OpenBadMode(h) PROVE TypeOK'
  BY <1>4 DEF OpenBadMode, TypeOK
<1>5. ASSUME NEW h \in Handle, NEW d \in Fd, NEW m \in StreamModes, OpenStream(h, m, d)
      PROVE TypeOK'
  BY <1>5 DEF OpenStream, TypeOK
<1>6. ASSUME NEW h \in Handle, NEW s \in Fd \cup {NoFd}, OpenStreamFails(h, s) PROVE TypeOK'
  BY <1>6 DEF OpenStreamFails, TypeOK
<1>7. ASSUME NEW h \in Handle, Close(h) PROVE TypeOK'
  <2>1. touch' \in [for : Handle \cup {App}, hit : Handle \cup {App, Free}]
    BY <1>7, OwnerType DEF Close, TypeOK
  <2>2. slot' \in [Handle -> [inUse : BOOLEAN, mode : {"CLOSED"} \cup FileModes \cup StreamModes,
                              iFile : Fd \cup {NoFd}]]
    BY <1>7 DEF Close, TypeOK
  <2>3. sock' \in [Handle -> [mode : {"CLOSED"} \cup StreamModes, fd : Fd \cup {NoFd}]]
    BY <1>7 DEF Close, TypeOK
  <2>4. fds' \in [Fd -> Handle \cup {App, Free}]
    BY <1>7 DEF Close, TypeOK
  <2> QED
    BY <1>7, <2>1, <2>2, <2>3, <2>4 DEF Close, TypeOK
<1>8. ASSUME NEW h \in Handle, UseFile(h) PROVE TypeOK'
  BY <1>8, OwnerType DEF UseFile, TypeOK
<1>9. ASSUME NEW h \in Handle, UseStream(h) PROVE TypeOK'
  BY <1>9, OwnerType DEF UseStream, TypeOK
<1>10. ASSUME NEW d \in Fd, AppOpen(d) \/ AppClose(d) PROVE TypeOK'
  BY <1>10 DEF AppOpen, AppClose, TypeOK
<1>11. CASE UNCHANGED vars
  BY <1>11 DEF vars, TypeOK
<1> QED
  BY <1>1, <1>2, <1>3, <1>4, <1>5, <1>6, <1>7, <1>8, <1>9, <1>10, <1>11 DEF Next

\* In every state the slots, the sockets and the descriptors have the values the code
\* gives them.
THEOREM TableTypeCorrect == Spec => []TypeOK
<1> QED
  BY TypeInit, TypeStep, PTL DEF Spec

-----------------------------------------------------------------------------
(* No leak, whatever fails.                                                 *)

\* What Close would close depends on the handle's own entries only.
LEMMA SameEntries ==
  ASSUME NEW h \in Handle, slot'[h] = slot[h], sock'[h] = sock[h]
  PROVE  FdToClose(h)' = FdToClose(h)
  BY DEF FdToClose

\* A handle that is not in use owns no descriptor.
LEMMA FreshOwnsNothing ==
  ASSUME NoFdLeaked, NEW h \in Handle, ~slot[h].inUse, NEW d \in Fd
  PROVE  fds[d] # h
  BY DEF NoFdLeaked

\* Calls that change the entries of a fresh handle, and give no descriptor away.
LEMMA FreshKeepsNoLeak ==
  ASSUME TypeOK, NoFdLeaked, NEW h \in Handle, ~slot[h].inUse, OnlyHandle(h),
         UNCHANGED fds
  PROVE  NoFdLeaked'
<1> SUFFICES ASSUME NEW d \in Fd, NEW k \in Handle, fds[d] = k
             PROVE  slot'[k].inUse /\ FdToClose(k)' = d
  BY DEF NoFdLeaked
<1>1. k # h
  BY FreshOwnsNothing
<1>2. slot'[k] = slot[k] /\ FdToClose(k)' = FdToClose(k)
  BY <1>1, SameEntries DEF OnlyHandle
<1> QED
  BY <1>2 DEF NoFdLeaked

\* Calls that give descriptor d to a fresh handle, which holds on to it.
LEMMA GrantKeepsNoLeak ==
  ASSUME TypeOK, NoFdLeaked, NEW h \in Handle, ~slot[h].inUse, OnlyHandle(h),
         NEW d \in Fd, fds' = [fds EXCEPT ![d] = h], slot'[h].inUse, FdToClose(h)' = d
  PROVE  NoFdLeaked'
<1> SUFFICES ASSUME NEW e \in Fd, NEW k \in Handle, fds'[e] = k
             PROVE  slot'[k].inUse /\ FdToClose(k)' = e
  BY DEF NoFdLeaked
<1>1. CASE e = d
  <2>1. k = h
    BY <1>1 DEF TypeOK
  <2> QED
    BY <2>1, <1>1
<1>2. CASE e # d
  <2>1. fds[e] = k
    BY <1>2 DEF TypeOK
  <2>2. k # h
    BY <2>1, FreshOwnsNothing
  <2>3. slot'[k] = slot[k] /\ FdToClose(k)' = FdToClose(k)
    BY <2>2, SameEntries DEF OnlyHandle
  <2> QED
    BY <2>1, <2>3 DEF NoFdLeaked
<1> QED
  BY <1>1, <1>2

LEMMA CloseKeepsNoLeak ==
  ASSUME TypeOK, NoFdLeaked, NEW h \in Handle, Close(h)
  PROVE  NoFdLeaked'
<1> SUFFICES ASSUME NEW e \in Fd, NEW k \in Handle, fds'[e] = k
             PROVE  slot'[k].inUse /\ FdToClose(k)' = e
  BY DEF NoFdLeaked
<1>1. fds[e] = k /\ e # FdToClose(h)
  BY DEF Close, Handle, Free
<1>2. k # h
  BY <1>1 DEF NoFdLeaked
<1>3. slot'[k] = slot[k] /\ sock'[k] = sock[k]
  BY <1>2 DEF Close, TypeOK
<1>4. FdToClose(k)' = FdToClose(k)
  BY <1>3, SameEntries
<1> QED
  BY <1>1, <1>3, <1>4 DEF NoFdLeaked

LEMMA NoLeakStep == TypeOK /\ NoFdLeaked /\ [Next]_vars => NoFdLeaked'
<1> SUFFICES ASSUME TypeOK, NoFdLeaked, [Next]_vars PROVE NoFdLeaked'
  OBVIOUS
<1>1. ASSUME NEW h \in Handle, NEW d \in Fd, NEW m \in FileModes, OpenFile(h, m, d)
      PROVE NoFdLeaked'
  <2>1. ~slot[h].inUse /\ OnlyHandle(h) /\ slot'[h].inUse /\ FdToClose(h)' = d
    BY <1>1 DEF OpenFile, NextHandle, OnlyHandle, FdToClose, TypeOK, FileModes, StreamModes
  <2> QED
    BY <1>1, <2>1, GrantKeepsNoLeak DEF OpenFile
<1>2. ASSUME NEW h \in Handle,
             \/ OpenFileFails(h)
             \/ \E d \in Fd : OpenFileRejected(h, d)
             \/ OpenBadMode(h)
             \/ \E s \in Fd \cup {NoFd} : OpenStreamFails(h, s)
      PROVE NoFdLeaked'
  <2>1. ~slot[h].inUse /\ OnlyHandle(h) /\ UNCHANGED fds
    BY <1>2 DEF OpenFileFails, OpenFileRejected, OpenBadMode, OpenStreamFails, NextHandle,
                OnlyHandle, TypeOK
  <2> QED
    BY <2>1, FreshKeepsNoLeak
<1>3. ASSUME NEW h \in Handle, NEW d \in Fd, NEW m \in StreamModes, OpenStream(h, m, d)
      PROVE NoFdLeaked'
  <2>1. ~slot[h].inUse /\ OnlyHandle(h) /\ slot'[h].inUse /\ FdToClose(h)' = d
    BY <1>3 DEF OpenStream, NextHandle, OnlyHandle, FdToClose, TypeOK
  <2> QED
    BY <1>3, <2>1, GrantKeepsNoLeak DEF OpenStream
<1>4. ASSUME NEW h \in Handle, Close(h) PROVE NoFdLeaked'
  BY <1>4, CloseKeepsNoLeak
<1>5. ASSUME NEW h \in Handle, UseFile(h) \/ UseStream(h) PROVE NoFdLeaked'
  BY <1>5 DEF UseFile, UseStream, NoFdLeaked, FdToClose
<1>6. ASSUME NEW d \in Fd, AppOpen(d) \/ AppClose(d) PROVE NoFdLeaked'
  <2>1. /\ \A e \in Fd, k \in Handle : fds'[e] = k => fds[e] = k
        /\ UNCHANGED <<slot, sock>>
    BY <1>6, TableAssumption DEF AppOpen, AppClose, TypeOK, App, Free, Handle
  <2> QED
    BY <2>1 DEF NoFdLeaked, FdToClose
<1>7. CASE UNCHANGED vars
  BY <1>7 DEF vars, NoFdLeaked, FdToClose
<1> QED
  BY <1>1, <1>2, <1>3, <1>4, <1>5, <1>6, <1>7 DEF Next

LEMMA NoLeakInit == Init => NoFdLeaked
  BY DEF Init, NoFdLeaked, App, Free, Handle

\* Whatever fails, a descriptor opened for a handle is the one its Close closes.
THEOREM DescriptorsNeverLeak == Spec => []NoFdLeaked
<1> QED
  BY TypeInit, TypeStep, NoLeakInit, NoLeakStep, PTL DEF Spec

-----------------------------------------------------------------------------
(* No stranger's descriptor before the first lapse.                         *)

\* What is needed of the other properties to take TouchesOwnFd through a step.
OwnInv == TypeOK /\ NoFdLeaked /\ HoldsOwnFd /\ TouchesOwnFd

\* A handle whose entries stay keeps its descriptor if nobody else is given it.
LEMMA KeepsOwn ==
  ASSUME HoldsOwnFd, ~lapse, NEW k \in Handle, slot'[k] = slot[k], sock'[k] = sock[k], slot[k].inUse,
         \A e \in Fd : fds[e] = k => fds'[e] = k
  PROVE  OwnerOf(FdToClose(k))' = k
<1> DEFINE d == FdToClose(k)
<1>1. d' = d
  BY SameEntries
<1>2. d \in Fd /\ fds[d] = k
  BY DEF HoldsOwnFd, OwnerOf, Handle, Free
<1> QED
  BY <1>1, <1>2 DEF OwnerOf

LEMMA OwnInit == Init => OwnInv
<1>1. Init => HoldsOwnFd
  BY DEF Init, HoldsOwnFd
<1>2. Init => TouchesOwnFd
  BY DEF Init, TouchesOwnFd
<1> QED
  BY <1>1, <1>2, TypeInit, NoLeakInit DEF OwnInv

\* A descriptor is given to a handle, and the rest keep theirs.
LEMMA GrantKeepsOwn ==
  ASSUME OwnInv, ~lapse, NEW h \in Handle, OnlyHandle(h), NEW d \in Fd, fds[d] = Free,
         fds' = [fds EXCEPT ![d] = h], FdToClose(h)' = d
  PROVE  HoldsOwnFd'
<1> USE DEF OwnInv
<1> SUFFICES ASSUME NEW k \in Handle, slot'[k].inUse PROVE OwnerOf(FdToClose(k))' = k
  BY DEF HoldsOwnFd
<1>1. CASE k = h
  BY <1>1 DEF OwnerOf, TypeOK
<1>2. CASE k # h
  <2>1. \A e \in Fd : fds[e] = k => fds'[e] = k
    BY DEF TypeOK, Free, Handle
  <2>2. slot'[k] = slot[k] /\ sock'[k] = sock[k]
    BY <1>2 DEF OnlyHandle
  <2> QED
    BY <2>1, <2>2, KeepsOwn
<1> QED
  BY <1>1, <1>2

\* The entries of a handle that is not in use afterwards change, and the rest keep theirs.
LEMMA IdleKeepsOwn ==
  ASSUME OwnInv, ~lapse, NEW h \in Handle, OnlyHandle(h), ~slot'[h].inUse,
         \A e \in Fd, k \in Handle \ {h} : fds[e] = k => fds'[e] = k
  PROVE  HoldsOwnFd'
<1> SUFFICES ASSUME NEW k \in Handle, slot'[k].inUse PROVE OwnerOf(FdToClose(k))' = k
  BY DEF HoldsOwnFd
<1>1. k \in Handle \ {h} /\ slot'[k] = slot[k] /\ sock'[k] = sock[k]
  BY DEF OnlyHandle
<1> QED
  BY <1>1, KeepsOwn DEF OwnInv

LEMMA CloseKeepsOwn ==
  ASSUME OwnInv, ~lapse, NEW h \in Handle, Close(h)
  PROVE  HoldsOwnFd' /\ TouchesOwnFd'
<1> USE DEF OwnInv
<1>1. OnlyHandle(h) /\ ~slot'[h].inUse
  BY DEF Close, OnlyHandle, TypeOK
<1>2. OwnerOf(FdToClose(h)) = h
  BY DEF Close, HoldsOwnFd
<1>3. FdToClose(h) \in Fd /\ fds[FdToClose(h)] = h
  BY <1>2 DEF OwnerOf, Handle, Free
<1>4. \A e \in Fd, k \in Handle \ {h} : fds[e] = k => fds'[e] = k
  BY <1>3 DEF Close
<1>5. TouchesOwnFd'
  BY <1>2 DEF Close, TouchesOwnFd
<1> QED
  BY <1>1, <1>4, <1>5, IdleKeepsOwn

LEMMA UseKeepsOwn ==
  ASSUME OwnInv, ~lapse', NEW h \in Handle, UseFile(h) \/ UseStream(h)
  PROVE  HoldsOwnFd' /\ TouchesOwnFd'
<1> USE DEF OwnInv
<1>1. HoldsOwnFd'
  BY DEF UseFile, UseStream, HoldsOwnFd, OwnerOf, FdToClose
<1>2. OwnerOf(FdToClose(h)) = h
  BY DEF UseFile, UseStream, HoldsOwnFd
<1>3. CASE UseFile(h)
  <2>1. FdToClose(h) = slot[h].iFile
    BY <1>3 DEF UseFile, FdToClose, FileModes, StreamModes
  <2> QED
    BY <1>1, <1>2, <1>3, <2>1 DEF UseFile, TouchesOwnFd
<1>4. CASE UseStream(h)
  <2>1. FdToClose(h) = sock[h].fd
    BY <1>4 DEF UseStream, FdToClose
  <2> QED
    BY <1>1, <1>2, <1>4, <2>1 DEF UseStream, TouchesOwnFd
<1> QED
  BY <1>3, <1>4

\* A lapse is never undone.
LEMMA LapseStays == TypeOK /\ [Next]_vars /\ ~lapse' => ~lapse
  BY DEF Next, vars, OpenFile, OpenFileFails, OpenFileRejected, OpenBadMode, OpenStream,
         OpenStreamFails, Close, UseFile, UseStream, AppOpen, AppClose

LEMMA OwnStep == OwnInv /\ [Next]_vars => OwnInv'
<1> SUFFICES ASSUME OwnInv, [Next]_vars, ~lapse' PROVE HoldsOwnFd' /\ TouchesOwnFd'
  BY TypeStep, NoLeakStep DEF OwnInv, HoldsOwnFd, TouchesOwnFd
<1>0. ~lapse
  BY LapseStays DEF OwnInv
<1> USE DEF OwnInv
<1>1. ASSUME NEW h \in Handle, NEW d \in Fd, NEW m \in FileModes, OpenFile(h, m, d)
      PROVE HoldsOwnFd' /\ TouchesOwnFd'
  <2>1. OnlyHandle(h) /\ FdToClose(h)' = d /\ fds[d] = Free /\ fds' = [fds EXCEPT ![d] = h]
    BY <1>1 DEF OpenFile, NextFd, OnlyHandle, FdToClose, TypeOK, FileModes, StreamModes
  <2> QED
    BY <1>0, <1>1, <2>1, GrantKeepsOwn DEF OpenFile, TouchesOwnFd
<1>2. ASSUME NEW h \in Handle,
             OpenFileFails(h) \/ OpenBadMode(h) \/ \E d \in Fd : OpenFileRejected(h, d)
      PROVE HoldsOwnFd' /\ TouchesOwnFd'
  <2>1. OnlyHandle(h) /\ ~slot'[h].inUse /\ UNCHANGED fds /\ TouchesOwnFd'
    BY <1>2 DEF OpenFileFails, OpenBadMode, OpenFileRejected, OnlyHandle, TypeOK, TouchesOwnFd
  <2> QED
    BY <1>0, <2>1, IdleKeepsOwn
<1>3. ASSUME NEW h \in Handle, NEW d \in Fd, NEW m \in StreamModes, OpenStream(h, m, d)
      PROVE HoldsOwnFd' /\ TouchesOwnFd'
  <2>1. OnlyHandle(h) /\ FdToClose(h)' = d /\ fds[d] = Free /\ fds' = [fds EXCEPT ![d] = h]
    BY <1>3 DEF OpenStream, NextFd, OnlyHandle, FdToClose, TypeOK
  <2> QED
    BY <1>0, <1>3, <2>1, GrantKeepsOwn DEF OpenStream, TouchesOwnFd
<1>4. ASSUME NEW h \in Handle, NEW s \in Fd \cup {NoFd}, OpenStreamFails(h, s) PROVE FALSE
  BY <1>4 DEF OpenStreamFails
<1>5. ASSUME NEW h \in Handle, Close(h) PROVE HoldsOwnFd' /\ TouchesOwnFd'
  BY <1>0, <1>5, CloseKeepsOwn
<1>6. ASSUME NEW h \in Handle, UseFile(h) \/ UseStream(h) PROVE HoldsOwnFd' /\ TouchesOwnFd'
  BY <1>0, <1>6, UseKeepsOwn
<1>7. ASSUME NEW d \in Fd, AppOpen(d) \/ AppClose(d) PROVE HoldsOwnFd' /\ TouchesOwnFd'
  <2>1. /\ \A e \in Fd, k \in Handle : fds[e] = k => fds'[e] = k
        /\ UNCHANGED <<slot, sock, touch, lapse>>
    BY <1>7, TableAssumption DEF AppOpen, AppClose, NextFd, TypeOK, App, Free, Handle
  <2> QED
    BY <2>1, KeepsOwn DEF HoldsOwnFd, TouchesOwnFd
<1>8. CASE UNCHANGED vars
  BY <1>0, <1>8 DEF vars, HoldsOwnFd, TouchesOwnFd, OwnerOf, FdToClose
<1> QED
  BY <1>1, <1>2, <1>3, <1>4, <1>5, <1>6, <1>7, <1>8 DEF Next

\* Before the first failed stream open, or stream handle given to WriteMsg, every call
\* touches its own handle's file or socket and no other.
THEOREM OwnDescriptorOnly ==
  Spec => []TouchesOwnFd
<1>1. OwnInv /\ [Next]_vars => OwnInv'
  BY OwnStep
<1>2. OwnInv => TouchesOwnFd
  BY DEF OwnInv
<1> QED
  BY OwnInit, <1>1, <1>2, PTL DEF Spec

\* Up to the same moment the descriptor in a handle's entry is always that handle's.
THEOREM OwnDescriptorHeld ==
  Spec => []HoldsOwnFd
<1>1. OwnInv /\ [Next]_vars => OwnInv'
  BY OwnStep
<1>2. OwnInv => HoldsOwnFd
  BY DEF OwnInv
<1> QED
  BY OwnInit, <1>1, <1>2, PTL DEF Spec

=============================================================================
