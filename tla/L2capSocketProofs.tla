------------------------- MODULE L2capSocketProofs -------------------------
(***************************************************************************)
(* Proofs about L2capSocket and its refinement of L2capChannel, for any    *)
(* number of threads, descriptors, devices and interrupts.                 *)
(***************************************************************************)
EXTENDS L2capSocketRefines, FiniteSetTheorems, TLAPS

-----------------------------------------------------------------------------
(* Types. *)

\* No call, whatever fails in it, leaves a variable outside its type.
LEMMA TypeStep == TypeOK /\ [Next]_vars => TypeOK'
<1> SUFFICES ASSUME TypeOK, [Next]_vars PROVE TypeOK'
  OBVIOUS
<1> USE FdsAssumption, DevicesAssumption, BoundsAssumption
    DEF TypeOK, object, streams, thread, kernel, Goto, Throw, Ops, LinkStates,
        Locked, Points, None
<1>1. ASSUME NEW t \in Threads, Invoke(t) PROVE TypeOK'
  <2>1. CASE CallConnect(t)
    BY <2>1 DEF CallConnect, Call
  <2>2. CASE CallOther(t)
    BY <2>2 DEF CallOther, Call
  <2>3. CASE GetInputStream(t)
    BY <2>3 DEF GetInputStream
  <2>4. CASE GetOutputStream(t)
    BY <2>4 DEF GetOutputStream
  <2> QED BY <1>1, <2>1, <2>2, <2>3, <2>4 DEF Invoke
<1>2. ASSUME NEW t \in Threads, Step(t) PROVE TypeOK'
  <2>1. CASE Lock(t)
    <3>1. pc[t] = "lock" /\ permits' \in Nat
      BY <2>1 DEF Lock
    <3>2. pc' \in [Threads -> Points]
      BY <2>1 DEF Lock, FirstPoint
    <3> QED BY <2>1, <3>1, <3>2 DEF Lock
  <2>2. CASE LockInterrupted(t)
    BY <2>2 DEF LockInterrupted
  <2>3. CASE Release(t)
    BY <2>3 DEF Release, AfterRelease
  <2>4. CASE NativeCloseOk(t)
    BY <2>4 DEF NativeCloseOk, Close, IsOpen
  <2>5. CASE NativeCloseFails(t)
    BY <2>5 DEF NativeCloseFails
  <2>6. CASE ClearFields(t)
    BY <2>6 DEF ClearFields
  <2>7. CASE GetSocketOk(t)
    BY <2>7 DEF GetSocketOk
  <2>8. CASE GetSocketFails(t)
    BY <2>8 DEF GetSocketFails
  <2>9. CASE SetSockOptOk(t) \/ SetSockOptFails(t)
    BY <2>9 DEF SetSockOptOk, SetSockOptFails
  <2>10. CASE NativeConnectBegin(t)
    BY <2>10 DEF NativeConnectBegin
  <2>11. CASE NativeConnectOk(t)
    BY <2>11 DEF NativeConnectOk
  <2>12. CASE NativeConnectFails(t)
    BY <2>12 DEF NativeConnectFails
  <2>13. CASE SetFields(t)
    BY <2>13 DEF SetFields
  <2>14. CASE SetInputStream(t) \/ SetOutputStream(t)
    BY <2>14 DEF SetInputStream, SetOutputStream
  <2>15. CASE NativeReadBegin(t)
    BY <2>15 DEF NativeReadBegin
  <2>16. CASE NativeReadOk(t)
    <3>1. inbox' \in [Fds -> 0..MaxInbox]
      <4>1. inbox[fd[t]] \in 0..MaxInbox /\ inbox[fd[t]] > 0
        BY <2>16 DEF NativeReadOk
      <4>2. inbox[fd[t]] - 1 \in 0..MaxInbox
        BY <4>1
      <4> QED BY <2>16, <4>2 DEF NativeReadOk
    <3> QED BY <2>16, <3>1 DEF NativeReadOk
  <2>17. CASE NativeReadFails(t)
    BY <2>17 DEF NativeReadFails
  <2>18. CASE NativeNothing(t) \/ NativeWriteFails(t)
    BY <2>18 DEF NativeNothing, NativeWriteFails
  <2>20. CASE NativeWriteBegin(t)
    BY <2>20 DEF NativeWriteBegin
  <2>19. CASE NativeWriteOk(t)
    <3>1. outbox[fd[t]] \in 0..MaxOutbox /\ outbox[fd[t]] < MaxOutbox
      BY <2>19 DEF NativeWriteOk
    <3>2. outbox[fd[t]] + 1 \in 0..MaxOutbox
      BY <3>1
    <3> QED BY <2>19, <3>2 DEF NativeWriteOk
  <2> HIDE DEF TypeOK, object, streams, thread, kernel
  <2> QED
    BY <1>2, <2>1, <2>2, <2>3, <2>4, <2>5, <2>6, <2>7, <2>8, <2>9, <2>10,
       <2>11, <2>12, <2>13, <2>14, <2>15, <2>16, <2>17, <2>18, <2>19, <2>20 DEF Step
<1>3. ASSUME NEW f \in Fds, Peer(f) PROVE TypeOK'
  <2>1. CASE PeerSends(f)
    BY <2>1 DEF PeerSends
  <2>2. CASE LinkLost(f)
    BY <2>2 DEF LinkLost
  <2>3. CASE PeerReceives(f)
    <3>1. outbox[f] \in 0..MaxOutbox /\ outbox[f] > 0
      BY <2>3 DEF PeerReceives
    <3>2. outbox[f] - 1 \in 0..MaxOutbox
      BY <3>1
    <3> QED BY <2>3, <3>2 DEF PeerReceives
  <2> QED BY <1>3, <2>1, <2>2, <2>3 DEF Peer
<1>4. CASE UNCHANGED vars
  BY <1>4 DEF vars
<1> HIDE DEF TypeOK
<1> QED BY <1>1, <1>2, <1>3, <1>4 DEF Next

\* The object, the threads and the kernel only ever hold values of their types.
THEOREM TypeCorrect == Spec => []TypeOK
<1>1. Init => TypeOK
  <2> SUFFICES ASSUME Init PROVE TypeOK
    OBVIOUS
  <2>1. 0 \in 0..MaxInbox /\ 0 \in 0..MaxOutbox /\ 0 \in 0..MaxInterrupts
    BY BoundsAssumption
  <2>2. pc \in [Threads -> Points] /\ (\A t \in Threads : pc[t] # "lock")
    BY DEF Init, Points
  <2> QED
    BY <2>1, <2>2 DEF Init, TypeOK, LinkStates
<1> QED BY <1>1, TypeStep, PTL DEF Spec

-----------------------------------------------------------------------------
(* Safety.  The inductive invariant adds to MutualExclusion and             *)
(* OneDescriptor what the thread that holds the lock knows: when it is about *)
(* to make a socket there is none, and the descriptor its blocking call uses *)
(* is still the one of the object.                                          *)

\* At most one call holds the lock, and the semaphore counts it.
LockInv ==
  /\ permits \in {0, 1}
  /\ permits = 0 => \E t \in Threads : InLock(t)
  /\ \A t \in Threads : InLock(t) => permits = 0
  /\ \A t, u \in Threads : InLock(t) /\ InLock(u) => t = u

SocketInv ==
  /\ \A f \in Fds : IsOpen(f) <=> f = nativeSocket
  /\ \A t \in Threads : pc[t] \in {"clear", "getSocket"} => nativeSocket = None
  /\ \A t \in Threads :
       pc[t] \in {"connecting", "reading", "writing"} => fd[t] = nativeSocket

IInv == interrupts = 0 => LockInv /\ SocketInv

\* A step that leaves every thread's side of the lock, and permits, alone keeps
\* LockInv.
LEMMA LockSame ==
  ASSUME LockInv, permits' = permits,
         \A t \in Threads : InLock(t)' <=> InLock(t)
  PROVE  LockInv'
BY DEF LockInv

\* So does a step of one thread inside the lock.
LEMMA InsideKeepsLock ==
  ASSUME TypeOK, LockInv, NEW t \in Threads, NEW point \in Locked,
         InLock(t), Goto(t, point), permits' = permits
  PROVE  LockInv'
BY DEF TypeOK, LockInv, InLock, Goto

\* And a step of one thread outside.
LEMMA OutsideKeepsLock ==
  ASSUME TypeOK, LockInv, NEW t \in Threads, NEW point \in Points \ Locked,
         ~InLock(t), Goto(t, point), permits' = permits
  PROVE  LockInv'
BY DEF TypeOK, LockInv, InLock, Goto

\* Only an interrupted lock() breaks the semaphore.
LEMMA LockStep ==
  ASSUME TypeOK, LockInv, [Next]_vars, interrupts' = 0, interrupts = 0
  PROVE  LockInv'
<1>1. ASSUME NEW t \in Threads, Invoke(t) PROVE LockInv'
  <2>1. CASE CallConnect(t) \/ CallOther(t)
    <3>1. pc[t] = "idle" /\ Goto(t, "lock") /\ permits' = permits
      BY <2>1 DEF CallConnect, CallOther, Call
    <3> QED BY <3>1, OutsideKeepsLock DEF InLock, Points, Locked
  <2>2. CASE GetInputStream(t) \/ GetOutputStream(t)
    <3>1. pc' = pc /\ permits' = permits
      BY <2>2 DEF GetInputStream, GetOutputStream
    <3> QED BY <3>1, LockSame DEF InLock
  <2> QED BY <1>1, <2>1, <2>2 DEF Invoke
<1>2. ASSUME NEW t \in Threads, Step(t) PROVE LockInv'
  <2>1. CASE Lock(t)
    <3>1. FirstPoint(op[t]) \in Locked
      BY <2>1 DEF Lock, TypeOK, FirstPoint, Ops, Locked
    <3>2. pc[t] = "lock" /\ permits = 1 /\ permits' = 0
      BY <2>1 DEF Lock, LockInv
    <3>3. \A u \in Threads : ~InLock(u)
      BY <3>2 DEF LockInv
    <3>4. pc' = [pc EXCEPT ![t] = FirstPoint(op[t])]
      BY <2>1 DEF Lock, Goto
    <3>5. \A u \in Threads : InLock(u)' <=> u = t
      BY <3>1, <3>3, <3>4 DEF TypeOK, InLock
    <3> QED BY <3>2, <3>5 DEF LockInv
  <2>2. CASE LockInterrupted(t)
    BY <2>2 DEF LockInterrupted
  <2>3. CASE Release(t)
    <3>1. InLock(t) /\ permits' = permits + 1
      BY <2>3 DEF Release, InLock, Locked
    <3>2. permits' = 1
      BY <3>1 DEF LockInv
    <3>3. pc' = [pc EXCEPT ![t] = AfterRelease(t)]
      BY <2>3 DEF Release, Goto
    <3>4. AfterRelease(t) \notin Locked
      BY DEF AfterRelease, Locked
    <3>5. \A u \in Threads : ~InLock(u)'
      BY <3>1, <3>3, <3>4 DEF TypeOK, InLock, LockInv
    <3> QED BY <3>2, <3>5 DEF LockInv
  <2>4. CASE \/ NativeCloseOk(t) \/ NativeCloseFails(t) \/ ClearFields(t)
             \/ GetSocketOk(t) \/ GetSocketFails(t)
             \/ SetSockOptOk(t) \/ SetSockOptFails(t)
             \/ NativeConnectBegin(t) \/ NativeConnectOk(t)
             \/ NativeConnectFails(t) \/ SetFields(t)
    <3>1. /\ InLock(t)
          /\ \E point \in Locked : Goto(t, point)
          /\ permits' = permits
      BY <2>4
         DEF NativeCloseOk, NativeCloseFails, ClearFields, GetSocketOk,
             GetSocketFails, SetSockOptOk, SetSockOptFails, NativeConnectBegin,
             NativeConnectOk, NativeConnectFails, SetFields, Throw, InLock,
             Locked
    <3> QED BY <3>1, InsideKeepsLock
  <2>5. CASE \/ NativeReadBegin(t) \/ NativeReadOk(t) \/ NativeReadFails(t)
             \/ NativeNothing(t) \/ NativeWriteBegin(t)
             \/ NativeWriteOk(t) \/ NativeWriteFails(t)
    <3>1. /\ InLock(t)
          /\ \E point \in Locked : Goto(t, point)
          /\ permits' = permits
      BY <2>5
         DEF NativeReadBegin, NativeReadOk, NativeReadFails, NativeNothing, NativeWriteBegin,
             NativeWriteOk, NativeWriteFails, Throw, InLock, Locked
    <3> QED BY <3>1, InsideKeepsLock
  <2>6. CASE SetInputStream(t) \/ SetOutputStream(t)
    <3>1. /\ ~InLock(t)
          /\ \E point \in Points \ Locked : Goto(t, point)
          /\ permits' = permits
      BY <2>6 DEF SetInputStream, SetOutputStream, InLock, Points, Locked
    <3> QED BY <3>1, OutsideKeepsLock
  <2> QED BY <1>2, <2>1, <2>2, <2>3, <2>4, <2>5, <2>6 DEF Step
<1>3. ASSUME NEW f \in Fds, Peer(f) PROVE LockInv'
  <2>1. pc' = pc /\ permits' = permits
    BY <1>3 DEF Peer, PeerSends, PeerReceives, LinkLost, thread
  <2> QED BY <2>1, LockSame DEF InLock
<1>4. CASE UNCHANGED vars
  <2>1. pc' = pc /\ permits' = permits
    BY <1>4 DEF vars, thread
  <2> QED BY <2>1, LockSame DEF InLock
<1> QED BY <1>1, <1>2, <1>3, <1>4 DEF Next

\* A step that moves no thread into a state SocketInv speaks of, and leaves the
\* descriptors alone, keeps it.
LEMMA SocketSame ==
  ASSUME SocketInv, nativeSocket' = nativeSocket,
         \A f \in Fds : IsOpen(f)' <=> IsOpen(f),
         \A t \in Threads :
           pc'[t] = pc[t] \/ pc'[t] \notin {"clear", "getSocket", "connecting", "reading", "writing"},
         \A t \in Threads : fd'[t] = fd[t] \/ pc'[t] \notin {"connecting", "reading", "writing"}
  PROVE  SocketInv'
BY DEF SocketInv

\* A thread about to make a socket is the only one inside the lock.
LEMMA Alone ==
  ASSUME LockInv, NEW t \in Threads, InLock(t), NEW u \in Threads, u # t
  PROVE  pc[u] \notin {"clear", "getSocket", "connecting", "reading", "writing"}
BY DEF LockInv, InLock, Locked

LEMMA SocketStep ==
  ASSUME TypeOK, LockInv, SocketInv, [Next]_vars, interrupts' = 0, interrupts = 0
  PROVE  SocketInv'
<1> DEFINE Special == {"clear", "getSocket", "connecting", "reading", "writing"}
<1>1. ASSUME NEW t \in Threads, Invoke(t) PROVE SocketInv'
  <2>1. /\ nativeSocket' = nativeSocket /\ link' = link /\ fd' = fd
        /\ pc' = pc \/ pc' = [pc EXCEPT ![t] = "lock"]
    BY <1>1 DEF Invoke, CallConnect, CallOther, Call, GetInputStream,
                GetOutputStream, object, kernel, Goto
  <2>2. \A u \in Threads : pc'[u] = pc[u] \/ pc'[u] \notin Special
    BY <2>1 DEF TypeOK
  <2> QED BY <2>1, <2>2, SocketSame DEF IsOpen
<1>2. ASSUME NEW t \in Threads, Step(t) PROVE SocketInv'
  <2>1. CASE Lock(t)
    <3>1. /\ nativeSocket' = nativeSocket /\ link' = link /\ fd' = fd
          /\ pc' = [pc EXCEPT ![t] = FirstPoint(op[t])]
          /\ op[t] \in Ops
      BY <2>1 DEF Lock, object, kernel, Goto, TypeOK
    <3>2. /\ FirstPoint(op[t]) \notin Special \ {"getSocket"}
          /\ FirstPoint(op[t]) = "getSocket" => ~HasSocket
      BY <3>1 DEF FirstPoint, Ops
    <3>3. ~HasSocket => nativeSocket = None
      BY FdsAssumption DEF HasSocket, TypeOK, None
    <3>4. \A u \in Threads : pc'[u] = IF u = t THEN FirstPoint(op[t]) ELSE pc[u]
      BY <3>1 DEF TypeOK
    <3> QED BY <3>1, <3>2, <3>3, <3>4 DEF SocketInv, IsOpen
  <2>2. CASE LockInterrupted(t)
    BY <2>2 DEF LockInterrupted
  <2>3. CASE Release(t)
    <3>1. /\ nativeSocket' = nativeSocket /\ link' = link
          /\ pc' = [pc EXCEPT ![t] = AfterRelease(t)]
          /\ fd' = [fd EXCEPT ![t] = None]
      BY <2>3 DEF Release, object, kernel, Goto
    <3>2. AfterRelease(t) \notin Special
      BY DEF AfterRelease
    <3>3. \A u \in Threads : pc'[u] = pc[u] \/ pc'[u] \notin Special
      BY <3>1, <3>2 DEF TypeOK
    <3>4. \A u \in Threads : fd'[u] = fd[u] \/ pc'[u] \notin {"connecting", "reading", "writing"}
      BY <3>1, <3>2 DEF TypeOK
    <3> QED BY <3>1, <3>3, <3>4, SocketSame DEF IsOpen
  <2>4. CASE NativeCloseOk(t)
    <3>1. /\ nativeSocket \in Fds /\ nativeSocket' = None
          /\ link' = [link EXCEPT ![nativeSocket] = "closed"]
          /\ pc' = [pc EXCEPT ![t] = "clear"] /\ InLock(t)
      BY <2>4 DEF NativeCloseOk, Close, IsOpen, Goto, InLock, Locked
    <3>2. \A u \in Threads : u # t => pc'[u] \notin Special
      BY <3>1, Alone DEF TypeOK
    <3>3. pc'[t] = "clear"
      BY <3>1 DEF TypeOK
    <3>4. \A f \in Fds : ~IsOpen(f)'
      BY <3>1 DEF TypeOK, SocketInv, IsOpen
    <3>5. None \notin Fds
      BY FdsAssumption DEF None
    <3> QED BY <3>1, <3>2, <3>3, <3>4, <3>5 DEF SocketInv
  <2>5. CASE ClearFields(t)
    <3>1. /\ nativeSocket' = nativeSocket /\ link' = link /\ fd' = fd
          /\ nativeSocket = None
          /\ pc' = [pc EXCEPT ![t] = pc'[t]] /\ pc'[t] \in {"getSocket", "finally"}
      BY <2>5 DEF ClearFields, kernel, Goto, SocketInv, TypeOK
    <3> QED BY <3>1 DEF SocketInv, IsOpen, TypeOK
  <2>6. CASE GetSocketOk(t)
    <3>1. /\ pc[t] = "getSocket" /\ InLock(t) /\ nativeSocket = None
          /\ pc' = [pc EXCEPT ![t] = "setSockOpt"]
      BY <2>6 DEF GetSocketOk, Goto, SocketInv, InLock, Locked
    <3>2. PICK f \in Fds : /\ link' = [link EXCEPT ![f] = "unconnected"]
                           /\ nativeSocket' = f
      BY <2>6 DEF GetSocketOk
    <3>3. \A g \in Fds : ~IsOpen(g)
      BY <3>1, FdsAssumption DEF SocketInv, None
    <3>4. \A g \in Fds : IsOpen(g)' <=> g = f
      BY <3>2, <3>3 DEF IsOpen, TypeOK
    <3>5. \A u \in Threads : pc'[u] \notin Special
      BY <3>1, Alone DEF TypeOK
    <3> QED BY <3>2, <3>4, <3>5 DEF SocketInv
  <2>7. CASE GetSocketFails(t)
    <3>1. /\ nativeSocket' = nativeSocket /\ link' = link /\ fd' = fd
          /\ pc' = [pc EXCEPT ![t] = "finally"]
      BY <2>7 DEF GetSocketFails, kernel, Goto, Throw, SocketInv
    <3>2. \A u \in Threads : pc'[u] = pc[u] \/ pc'[u] \notin Special
      BY <3>1 DEF TypeOK
    <3> QED BY <3>1, <3>2, SocketSame DEF IsOpen
  <2>8. CASE NativeConnectBegin(t) \/ NativeReadBegin(t) \/ NativeWriteBegin(t)
    <3>1. /\ nativeSocket' = nativeSocket /\ link' = link
          /\ fd' = [fd EXCEPT ![t] = nativeSocket]
          /\ pc' = [pc EXCEPT ![t] = pc'[t]] /\ pc'[t] \in {"connecting", "reading", "writing"}
      BY <2>8 DEF NativeConnectBegin, NativeReadBegin, NativeWriteBegin, object, kernel, Goto,
                  TypeOK
    <3> QED BY <3>1 DEF SocketInv, IsOpen, TypeOK
  <2>9. CASE NativeConnectOk(t)
    <3>1. /\ nativeSocket' = nativeSocket /\ fd' = fd
          /\ fd[t] \in Fds /\ link[fd[t]] = "unconnected"
          /\ link' = [link EXCEPT ![fd[t]] = "connected"]
          /\ pc' = [pc EXCEPT ![t] = "setFields"]
      BY <2>9 DEF NativeConnectOk, object, Goto
    <3>2. \A u \in Threads : pc'[u] = pc[u] \/ pc'[u] \notin Special
      BY <3>1 DEF TypeOK
    <3>3. \A f \in Fds : IsOpen(f)' <=> IsOpen(f)
      BY <3>1 DEF IsOpen, TypeOK
    <3> QED BY <3>1, <3>2, <3>3, SocketSame
  <2>10. CASE \/ NativeCloseFails(t) \/ SetSockOptOk(t) \/ SetSockOptFails(t)
              \/ NativeConnectFails(t) \/ SetFields(t)
              \/ SetInputStream(t) \/ SetOutputStream(t)
              \/ NativeReadOk(t) \/ NativeReadFails(t)
              \/ NativeNothing(t) \/ NativeWriteOk(t) \/ NativeWriteFails(t)
    <3>1. /\ nativeSocket' = nativeSocket /\ link' = link /\ fd' = fd
          /\ \E point \in {"finally", "nativeConnect", "setOut", "idle"} :
               pc' = [pc EXCEPT ![t] = point]
      BY <2>10
         DEF NativeCloseFails, SetSockOptOk, SetSockOptFails,
             NativeConnectFails, SetFields, SetInputStream, SetOutputStream,
             NativeReadOk, NativeReadFails, NativeNothing, NativeWriteOk, NativeWriteFails,
             object, kernel, Goto, Throw
    <3>2. \A u \in Threads : pc'[u] = pc[u] \/ pc'[u] \notin Special
      BY <3>1 DEF TypeOK
    <3> QED BY <3>1, <3>2, SocketSame DEF IsOpen
  <2> QED BY <1>2, <2>1, <2>2, <2>3, <2>4, <2>5, <2>6, <2>7, <2>8, <2>9, <2>10
          DEF Step
<1>3. ASSUME NEW f \in Fds, Peer(f) PROVE SocketInv'
  <2>1. /\ nativeSocket' = nativeSocket /\ fd' = fd /\ pc' = pc
        /\ link' = link \/ (link[f] = "connected" /\ link' = [link EXCEPT ![f] = "lost"])
    BY <1>3 DEF Peer, PeerSends, PeerReceives, LinkLost, object, thread
  <2>2. \A g \in Fds : IsOpen(g)' <=> IsOpen(g)
    BY <2>1 DEF IsOpen, TypeOK
  <2> QED BY <2>1, <2>2, SocketSame
<1>4. CASE UNCHANGED vars
  <2>1. nativeSocket' = nativeSocket /\ link' = link /\ fd' = fd /\ pc' = pc
    BY <1>4 DEF vars, object, thread, kernel
  <2> QED BY <2>1, SocketSame DEF IsOpen
<1> QED BY <1>1, <1>2, <1>3, <1>4 DEF Next

\* An interrupted lock() leaves the object and the kernel alone; no other step
\* counts an interrupt.
LEMMA InterruptCounts ==
  ASSUME [Next]_vars
  PROVE  \/ interrupts' = interrupts
         \/ interrupts' = interrupts + 1 /\ UNCHANGED <<nativeSocket, link>>
<1>1. ASSUME NEW t \in Threads, Invoke(t) PROVE interrupts' = interrupts
  BY <1>1 DEF Invoke, CallConnect, CallOther, Call, GetInputStream,
              GetOutputStream
<1>2. ASSUME NEW t \in Threads, Step(t), ~LockInterrupted(t)
      PROVE  interrupts' = interrupts
  BY <1>2
     DEF Step, Lock, Release, NativeCloseOk, NativeCloseFails, ClearFields,
         GetSocketOk, GetSocketFails, SetSockOptOk, SetSockOptFails,
         NativeConnectBegin, NativeConnectOk, NativeConnectFails, SetFields,
         SetInputStream, SetOutputStream, NativeReadBegin, NativeReadOk,
         NativeReadFails, NativeNothing, NativeWriteBegin, NativeWriteOk, NativeWriteFails
<1>3. ASSUME NEW t \in Threads, LockInterrupted(t)
      PROVE  interrupts' = interrupts + 1 /\ UNCHANGED <<nativeSocket, link>>
  BY <1>3 DEF LockInterrupted, object, kernel
<1>4. ASSUME NEW f \in Fds, Peer(f) PROVE interrupts' = interrupts
  BY <1>4 DEF Peer, PeerSends, PeerReceives, LinkLost
<1>5. CASE UNCHANGED vars
  BY <1>5 DEF vars
<1> QED BY <1>1, <1>2, <1>3, <1>4, <1>5 DEF Next

\* The inductive invariant: no step, of any call of any thread, breaks it.
LEMMA IInvStep == TypeOK /\ IInv /\ [Next]_vars => IInv'
<1> SUFFICES ASSUME TypeOK, IInv, [Next]_vars, (interrupts = 0)'
             PROVE  (LockInv /\ SocketInv)'
  BY DEF IInv
<1>1. interrupts \in Nat
  BY BoundsAssumption DEF TypeOK
<1>2. interrupts = 0 /\ interrupts' = 0
  BY <1>1, InterruptCounts
<1> QED BY <1>2, LockStep, SocketStep DEF IInv

LEMMA Invariance == Spec => [](TypeOK /\ IInv)
<1>1. Init => IInv
  <2> SUFFICES ASSUME Init PROVE IInv
    OBVIOUS
  <2>1. \A t \in Threads : pc[t] = "idle"
    BY DEF Init
  <2>2. LockInv
    BY <2>1 DEF Init, LockInv, InLock, Locked
  <2>3. SocketInv
    BY <2>1, FdsAssumption DEF Init, SocketInv, IsOpen, None
  <2> QED BY <2>2, <2>3 DEF IInv
<1> QED BY <1>1, IInvStep, TypeCorrect, PTL DEF Spec

\* Until a waiting thread is interrupted, two calls are never inside the lock
\* together, and no path of any call keeps the semaphore or frees it twice.
THEOREM Mutex == Spec => []MutualExclusion
<1>1. IInv => MutualExclusion
  BY DEF IInv, LockInv, MutualExclusion
<1> QED BY <1>1, Invariance, PTL

\* Until a waiting thread is interrupted, connect and close leak no descriptor,
\* and nativeSocket never names a closed one.
THEOREM NoLeak == Spec => []OneDescriptor
<1>1. TypeOK /\ IInv => OneDescriptor
  <2> SUFFICES ASSUME TypeOK, SocketInv
               PROVE  {f \in Fds : IsOpen(f)} = {nativeSocket} \ {None}
    BY DEF IInv, OneDescriptor
  <2>1. nativeSocket \in Fds \cup {None} /\ None \notin Fds
    BY FdsAssumption DEF TypeOK, None
  <2>2. \A f \in Fds : IsOpen(f) <=> f = nativeSocket
    BY DEF SocketInv
  <2> QED BY <2>1, <2>2
<1> QED BY <1>1, Invariance, PTL

\* Until a waiting thread is interrupted, no other thread closes or replaces
\* the descriptor under a blocked connect or read.
THEOREM Stable == Spec => DescriptorStable
<1> DEFINE Unmoved ==
      \A t \in Threads, f \in Fds :
        interrupts = 0 /\ BlockedOn(t, f) /\ BlockedOn(t, f)' =>
          nativeSocket' = f /\ IsOpen(f)'
<1>1. TypeOK /\ IInv /\ IInv' /\ [Next]_vars => Unmoved
  <2> SUFFICES ASSUME IInv, IInv', [Next]_vars,
                      NEW t \in Threads, NEW f \in Fds,
                      interrupts = 0, BlockedOn(t, f), BlockedOn(t, f)'
               PROVE  nativeSocket' = f /\ IsOpen(f)'
    OBVIOUS
  <2>1. CASE interrupts' = 0
    BY <2>1 DEF IInv, SocketInv, BlockedOn
  <2>2. CASE interrupts' # 0
    <3>1. UNCHANGED <<nativeSocket, link>>
      BY <2>2, InterruptCounts
    <3>2. nativeSocket = f /\ IsOpen(f)
      BY DEF IInv, SocketInv, BlockedOn
    <3> QED BY <3>1, <3>2 DEF IsOpen
  <2> QED BY <2>1, <2>2
<1> HIDE DEF Unmoved
<1>2. TypeOK /\ IInv /\ (TypeOK /\ IInv)' /\ [Next]_vars => [Unmoved]_vars
  BY <1>1
<1>3. Spec => [][Unmoved]_vars
  BY <1>2, Invariance, PTL DEF Spec
<1> QED BY <1>3 DEF DescriptorStable, Unmoved

-----------------------------------------------------------------------------
(* What an interrupt does to the semaphore: each thread inside the lock, or  *)
(* in a finally block, has one permit to give back.                          *)

Inside == {t \in Threads : InLock(t)}

PermitInv ==
  /\ IsFiniteSet(Inside)
  /\ permits + Cardinality(Inside) = 1 + interrupts

\* A thread that goes from one point to another on the same side of the lock
\* changes nothing.
LEMMA InsideSame ==
  ASSUME PermitInv, permits' = permits, interrupts' = interrupts,
         \A t \in Threads : InLock(t)' <=> InLock(t)
  PROVE  PermitInv'
<1>1. Inside' = Inside
  BY DEF Inside
<1> QED BY <1>1 DEF PermitInv

LEMMA PermitStep == TypeOK /\ PermitInv /\ [Next]_vars => PermitInv'
<1> SUFFICES ASSUME TypeOK, PermitInv, [Next]_vars PROVE PermitInv'
  OBVIOUS
<1>0. permits \in Int /\ interrupts \in Int /\ Cardinality(Inside) \in Int
  BY BoundsAssumption, FS_CardinalityType DEF TypeOK, PermitInv
<1>1. ASSUME NEW t \in Threads, Invoke(t) PROVE PermitInv'
  <2>1. /\ permits' = permits /\ interrupts' = interrupts
        /\ pc' = pc \/ (pc[t] = "idle" /\ pc' = [pc EXCEPT ![t] = "lock"])
    BY <1>1 DEF Invoke, CallConnect, CallOther, Call, GetInputStream,
                GetOutputStream, Goto
  <2>2. \A u \in Threads : InLock(u)' <=> InLock(u)
    BY <2>1 DEF TypeOK, InLock, Locked
  <2> QED BY <2>1, <2>2, InsideSame
<1>2. ASSUME NEW t \in Threads, Lock(t) \/ LockInterrupted(t) PROVE PermitInv'
  <2>1. /\ pc[t] = "lock" /\ t \notin Inside
        /\ \E point \in Locked : pc' = [pc EXCEPT ![t] = point]
    BY <1>2 DEF Lock, LockInterrupted, TypeOK, FirstPoint, Ops, Locked, Inside,
                InLock, Goto
  <2>2. Inside' = Inside \cup {t}
    BY <2>1 DEF TypeOK, Inside, InLock
  <2>3. IsFiniteSet(Inside') /\ Cardinality(Inside') = Cardinality(Inside) + 1
    BY <2>1, <2>2, FS_AddElement DEF PermitInv
  <2>4. CASE permits' = permits - 1 /\ interrupts' = interrupts
    BY <1>0, <2>3, <2>4 DEF PermitInv
  <2>5. CASE permits' = permits /\ interrupts' = interrupts + 1
    BY <1>0, <2>3, <2>5 DEF PermitInv
  <2> QED BY <1>2, <2>4, <2>5 DEF Lock, LockInterrupted
<1>3. ASSUME NEW t \in Threads, Release(t) PROVE PermitInv'
  <2>1. /\ pc[t] = "finally" /\ t \in Inside
        /\ pc' = [pc EXCEPT ![t] = AfterRelease(t)]
        /\ AfterRelease(t) \notin Locked
        /\ permits' = permits + 1 /\ interrupts' = interrupts
    BY <1>3 DEF Release, AfterRelease, Locked, Inside, InLock, Goto
  <2>2. Inside' = Inside \ {t}
    BY <2>1 DEF TypeOK, Inside, InLock
  <2>3. IsFiniteSet(Inside') /\ Cardinality(Inside') = Cardinality(Inside) - 1
    BY <2>1, <2>2, FS_RemoveElement DEF PermitInv
  <2> QED BY <1>0, <2>1, <2>3 DEF PermitInv
<1>4. ASSUME NEW t \in Threads, Step(t),
             ~Lock(t), ~LockInterrupted(t), ~Release(t)
      PROVE  PermitInv'
  <2>1. CASE SetInputStream(t) \/ SetOutputStream(t)
    <3>1. /\ permits' = permits /\ interrupts' = interrupts
          /\ pc[t] \notin Locked
          /\ \E point \in Points \ Locked : pc' = [pc EXCEPT ![t] = point]
      BY <2>1 DEF SetInputStream, SetOutputStream, Locked, Points, Goto
    <3>2. \A u \in Threads : InLock(u)' <=> InLock(u)
      BY <3>1 DEF TypeOK, InLock
    <3> QED BY <3>1, <3>2, InsideSame
  <2>2. CASE ~SetInputStream(t) /\ ~SetOutputStream(t)
    <3>1. /\ permits' = permits /\ interrupts' = interrupts
          /\ pc[t] \in Locked
          /\ \E point \in Locked : pc' = [pc EXCEPT ![t] = point]
      BY <1>4, <2>2
         DEF Step, NativeCloseOk, NativeCloseFails, ClearFields, GetSocketOk,
             GetSocketFails, SetSockOptOk, SetSockOptFails, NativeConnectBegin,
             NativeConnectOk, NativeConnectFails, SetFields, NativeReadBegin,
             NativeReadOk, NativeReadFails, NativeNothing, NativeWriteBegin, NativeWriteOk, NativeWriteFails,
             Throw, Goto, Locked
    <3>2. \A u \in Threads : InLock(u)' <=> InLock(u)
      BY <3>1 DEF TypeOK, InLock
    <3> QED BY <3>1, <3>2, InsideSame
  <2> QED BY <2>1, <2>2
<1>5. ASSUME UNCHANGED vars \/ \E f \in Fds : Peer(f) PROVE PermitInv'
  <2>1. permits' = permits /\ interrupts' = interrupts /\ pc' = pc
    BY <1>5 DEF vars, Peer, PeerSends, PeerReceives, LinkLost, thread
  <2> QED BY <2>1, InsideSame DEF InLock
<1> QED BY <1>1, <1>2, <1>3, <1>4, <1>5 DEF Next

\* However often waiting threads are interrupted, the semaphore ends up with
\* exactly one permit more for each interrupt, and never gives one away
\* otherwise.
THEOREM InterruptsAddPermits == Spec => []OnePermitPerInterrupt
<1>1. Init => PermitInv
  <2> SUFFICES ASSUME Init PROVE PermitInv
    OBVIOUS
  <2>1. Inside = {}
    BY DEF Init, Inside, InLock, Locked
  <2> QED BY <2>1, FS_EmptySet DEF Init, PermitInv
<1>2. TypeOK /\ PermitInv => OnePermitPerInterrupt
  <2> SUFFICES ASSUME TypeOK, PermitInv, \A t \in Threads : ~InLock(t)
               PROVE  permits = 1 + interrupts
    BY DEF OnePermitPerInterrupt
  <2>1. Inside = {}
    BY DEF Inside
  <2>2. permits + 0 = 1 + interrupts
    BY <2>1, FS_EmptySet DEF PermitInv
  <2> QED BY <2>2 DEF TypeOK
<1> QED BY <1>1, <1>2, PermitStep, TypeCorrect, PTL DEF Spec

-----------------------------------------------------------------------------
(* The course of a connect: which device it is for, and who still has to     *)
(* make the streams.                                                         *)

ConnectPoints == {"getSocket", "setSockOpt", "nativeConnect", "connecting", "setFields"}

CallOf(t) ==
  /\ pc[t] \in ConnectPoints => op[t] = "connect"
  /\ threw[t] => pc[t] = "finally"
  /\ op[t] = "connect" => target[t] \in Devices

CallInv == \A t \in Threads : CallOf(t)

\* Will the thread still assign the stream?
PendingIn(t) == pc[t] = "setIn" \/ (pc[t] = "finally" /\ op[t] = "connect" /\ ~threw[t])
PendingOut(t) == pc[t] = "setOut" \/ PendingIn(t)

StreamInv ==
  remoteDevice # NoDevice =>
    /\ inputStream \/ \E t \in Threads : PendingIn(t)
    /\ outputStream \/ \E t \in Threads : PendingOut(t)

\* A step of one thread is seen by no other.
Alike(u) == pc'[u] = pc[u] /\ op'[u] = op[u] /\ target'[u] = target[u] /\ threw'[u] = threw[u]

LEMMA StepOfOne ==
  ASSUME TypeOK, NEW t \in Threads, Invoke(t) \/ Step(t),
         NEW u \in Threads \ {t}
  PROVE  Alike(u)
<1> USE DEF Alike, TypeOK
<1>1. CASE Invoke(t)
  BY <1>1 DEF Invoke, CallConnect, CallOther, Call, GetInputStream,
              GetOutputStream, Goto
<1>2. CASE Lock(t) \/ LockInterrupted(t) \/ Release(t)
  BY <1>2 DEF Lock, LockInterrupted, Release, Goto
<1>3. CASE \/ NativeCloseOk(t) \/ NativeCloseFails(t) \/ ClearFields(t)
           \/ GetSocketOk(t) \/ GetSocketFails(t)
  BY <1>3 DEF NativeCloseOk, NativeCloseFails, ClearFields, GetSocketOk,
              GetSocketFails, Throw, Goto
<1>4. CASE \/ SetSockOptOk(t) \/ SetSockOptFails(t)
           \/ NativeConnectBegin(t) \/ NativeConnectOk(t) \/ NativeConnectFails(t)
  BY <1>4 DEF SetSockOptOk, SetSockOptFails, NativeConnectBegin,
              NativeConnectOk, NativeConnectFails, Throw, Goto
<1>5. CASE \/ SetFields(t) \/ SetInputStream(t) \/ SetOutputStream(t)
           \/ NativeReadBegin(t) \/ NativeReadOk(t) \/ NativeReadFails(t)
           \/ NativeNothing(t) \/ NativeWriteBegin(t)
           \/ NativeWriteOk(t) \/ NativeWriteFails(t)
  BY <1>5 DEF SetFields, SetInputStream, SetOutputStream, NativeReadBegin,
              NativeReadOk, NativeReadFails, NativeNothing, NativeWriteBegin, NativeWriteOk, NativeWriteFails,
              Throw, Goto
<1> HIDE DEF Alike, TypeOK
<1> QED BY <1>1, <1>2, <1>3, <1>4, <1>5 DEF Step

\* The peers, and a stuttering step, are seen by no thread.
LEMMA StepOfNone ==
  ASSUME UNCHANGED vars \/ \E f \in Fds : Peer(f)
  PROVE  UNCHANGED <<permits, object, streams, thread, interrupts>>
BY DEF vars, Peer, PeerSends, PeerReceives, LinkLost

LEMMA CallStep == TypeOK /\ CallInv /\ [Next]_vars => CallInv'
<1> SUFFICES ASSUME TypeOK, CallInv, [Next]_vars PROVE CallInv'
  OBVIOUS
<1>1. ASSUME NEW t \in Threads, Invoke(t) \/ Step(t), CallOf(t)' PROVE CallInv'
  <2> SUFFICES ASSUME NEW u \in Threads \ {t} PROVE CallOf(u)'
    BY <1>1 DEF CallInv
  <2>1. CallOf(u) /\ Alike(u)
    BY <1>1, StepOfOne DEF CallInv
  <2> QED BY <2>1 DEF CallOf, Alike
<1>2. ASSUME NEW t \in Threads, Invoke(t) \/ Step(t) PROVE CallOf(t)'
  <2> USE DEF CallOf, TypeOK, ConnectPoints
  <2>0. CallOf(t)
    BY DEF CallInv
  <2>1. CASE Invoke(t)
    BY <2>0, <2>1 DEF Invoke, CallConnect, CallOther, Call, GetInputStream,
                GetOutputStream, Goto
  <2>2. CASE Lock(t)
    BY <2>0, <2>2 DEF Lock, Goto, FirstPoint, Ops
  <2>3. CASE LockInterrupted(t) \/ Release(t)
    BY <2>0, <2>3, DevicesAssumption DEF LockInterrupted, Release, AfterRelease, Goto
  <2>4. CASE \/ NativeCloseOk(t) \/ NativeCloseFails(t) \/ ClearFields(t)
             \/ GetSocketOk(t) \/ GetSocketFails(t)
    BY <2>0, <2>4 DEF NativeCloseOk, NativeCloseFails, ClearFields, GetSocketOk,
                GetSocketFails, Throw, Goto
  <2>5. CASE \/ SetSockOptOk(t) \/ SetSockOptFails(t)
             \/ NativeConnectBegin(t) \/ NativeConnectOk(t) \/ NativeConnectFails(t)
    BY <2>0, <2>5 DEF SetSockOptOk, SetSockOptFails, NativeConnectBegin,
                NativeConnectOk, NativeConnectFails, Throw, Goto
  <2>6. CASE \/ SetFields(t) \/ SetInputStream(t) \/ SetOutputStream(t)
             \/ NativeReadBegin(t) \/ NativeReadOk(t) \/ NativeReadFails(t)
             \/ NativeNothing(t) \/ NativeWriteBegin(t)
             \/ NativeWriteOk(t) \/ NativeWriteFails(t)
    BY <2>0, <2>6 DEF SetFields, SetInputStream, SetOutputStream,
                NativeReadBegin, NativeReadOk, NativeReadFails, NativeNothing, NativeWriteBegin,
                NativeWriteOk, NativeWriteFails, Throw, Goto
  <2> HIDE DEF CallOf, TypeOK
  <2> QED BY <1>2, <2>1, <2>2, <2>3, <2>4, <2>5, <2>6 DEF Step
<1>3. CASE UNCHANGED vars \/ \E f \in Fds : Peer(f)
  BY <1>3, StepOfNone DEF CallInv, CallOf, thread
<1> QED BY <1>1, <1>2, <1>3 DEF Next

\* A stream that is there, or that a thread has still to make, stays so until
\* the device is cleared.
LEMMA StreamStep ==
  TypeOK /\ CallInv /\ StreamInv /\ [Next]_vars => StreamInv'
<1> SUFFICES ASSUME TypeOK, CallInv, StreamInv, [Next]_vars PROVE StreamInv'
  OBVIOUS
<1>1. ASSUME NEW t \in Threads, Invoke(t) \/ Step(t), ~ClearFields(t)
      PROVE  StreamInv'
  <2>1. \A u \in Threads \ {t} : (PendingIn(u) => PendingIn(u)') /\ (PendingOut(u) => PendingOut(u)')
    <3> SUFFICES ASSUME NEW u \in Threads \ {t} PROVE Alike(u)
      BY DEF PendingIn, PendingOut, Alike
    <3> QED BY <1>1, StepOfOne
  <2>2. /\ inputStream \/ PendingIn(t) => inputStream' \/ PendingIn(t)'
        /\ outputStream \/ PendingOut(t) => outputStream' \/ PendingOut(t)'
        /\ remoteDevice' = remoteDevice \/ PendingIn(t)'
    <3> USE DEF PendingIn, PendingOut, TypeOK
    <3>1. CASE Invoke(t)
      BY <3>1 DEF Invoke, CallConnect, CallOther, Call, GetInputStream,
                  GetOutputStream, Goto, object, streams
    <3>2. CASE Lock(t) \/ LockInterrupted(t)
      BY <3>2 DEF Lock, LockInterrupted, Goto, object, streams
    <3>3. CASE Release(t)
      BY <3>3 DEF Release, AfterRelease, Goto, object, streams
    <3>4. CASE \/ NativeCloseOk(t) \/ NativeCloseFails(t)
               \/ GetSocketOk(t) \/ GetSocketFails(t)
      BY <3>4 DEF NativeCloseOk, NativeCloseFails, GetSocketOk, GetSocketFails,
                  Throw, Goto, object, streams
    <3>5. CASE \/ SetSockOptOk(t) \/ SetSockOptFails(t)
               \/ NativeConnectBegin(t) \/ NativeConnectOk(t) \/ NativeConnectFails(t)
      BY <3>5 DEF SetSockOptOk, SetSockOptFails, NativeConnectBegin,
                  NativeConnectOk, NativeConnectFails, Throw, Goto, object, streams
    <3>6. CASE SetFields(t)
      BY <3>6 DEF SetFields, Goto, streams, CallInv, CallOf, ConnectPoints
    <3>7. CASE \/ SetInputStream(t) \/ SetOutputStream(t)
               \/ NativeReadBegin(t) \/ NativeReadOk(t) \/ NativeReadFails(t)
               \/ NativeNothing(t) \/ NativeWriteBegin(t)
               \/ NativeWriteOk(t) \/ NativeWriteFails(t)
      BY <3>7 DEF SetInputStream, SetOutputStream, NativeReadBegin,
                  NativeReadOk, NativeReadFails, NativeNothing, NativeWriteBegin,
                  NativeWriteOk, NativeWriteFails, Throw, Goto, object, streams
    <3> HIDE DEF PendingIn, PendingOut, TypeOK
    <3> QED BY <1>1, <3>1, <3>2, <3>3, <3>4, <3>5, <3>6, <3>7 DEF Step
  <2>3. PendingIn(t)' => PendingOut(t)'
    BY DEF PendingOut
  <2> QED BY <2>1, <2>2, <2>3 DEF StreamInv
<1>2. ASSUME NEW t \in Threads, ClearFields(t) PROVE StreamInv'
  BY <1>2 DEF ClearFields, StreamInv
<1>3. CASE UNCHANGED vars \/ \E f \in Fds : Peer(f)
  BY <1>3, StepOfNone DEF StreamInv, PendingIn, PendingOut, object, streams, thread
<1> QED BY <1>1, <1>2, <1>3 DEF Next

LEMMA CallInvariance == Spec => [](CallInv /\ StreamInv)
<1>1. Init => CallInv /\ StreamInv
  BY DevicesAssumption DEF Init, CallInv, CallOf, ConnectPoints, StreamInv
<1> QED BY <1>1, CallStep, StreamStep, TypeCorrect, PTL DEF Spec

\* The streams a connect makes after it has given the lock back are never lost
\* to another connect or close, even with a semaphore that interrupts have
\* broken (L2capStreamSocket.java 13 to 16).
THEOREM Streams == Spec => []ConnectedHasStreams
<1>1. CallInv /\ StreamInv => ConnectedHasStreams
  BY DEF StreamInv, ConnectedHasStreams, PendingIn, PendingOut, InLock, Locked
<1> QED BY <1>1, CallInvariance, PTL

-----------------------------------------------------------------------------
(* The channel of the object: it is not connected until connect(2) returns,  *)
(* and remoteDevice follows the far end of it.                               *)

\* The kernel has nothing for a descriptor without a connection.
KernelInv ==
  \A f \in Fds : link[f] \in {"closed", "unconnected"} => 
    far[f] = NoDevice /\ inbox[f] = 0 /\ outbox[f] = 0

ChannelOf(t) ==
  /\ pc[t] \in {"setSockOpt", "nativeConnect", "connecting"} =>
       nativeSocket \in Fds /\ link[nativeSocket] = "unconnected"
  /\ pc[t] = "setFields" => nativeSocket \in Fds /\ far[nativeSocket] = target[t]

\* Between the step on the descriptor and the one on the field, they differ.
DeviceInv ==
  (\A t \in Threads : pc[t] \notin {"clear", "setFields"}) => remoteDevice = Device

ChannelInv == (\A t \in Threads : ChannelOf(t)) /\ DeviceInv

LEMMA KernelStep == TypeOK /\ KernelInv /\ [Next]_vars => KernelInv'
<1> SUFFICES ASSUME TypeOK, KernelInv, [Next]_vars PROVE KernelInv'
  OBVIOUS
<1> USE DEF TypeOK, KernelInv
<1>1. ASSUME NEW t \in Threads, Step(t), kernel' # kernel PROVE KernelInv'
  <2>1. CASE NativeCloseOk(t)
    BY <2>1 DEF NativeCloseOk, Close
  <2>2. CASE GetSocketOk(t)
    BY <2>2 DEF GetSocketOk
  <2>3. CASE NativeConnectOk(t)
    BY <2>3 DEF NativeConnectOk
  <2>4. CASE NativeReadOk(t)
    BY <2>4 DEF NativeReadOk
  <2>5. CASE NativeWriteOk(t)
    BY <2>5 DEF NativeWriteOk
  <2> HIDE DEF TypeOK, KernelInv
  <2> QED
    BY <1>1, <2>1, <2>2, <2>3, <2>4, <2>5
       DEF Step, Lock, LockInterrupted, Release, NativeCloseFails, ClearFields,
           GetSocketFails, SetSockOptOk, SetSockOptFails, NativeConnectBegin,
           NativeConnectFails, SetFields, SetInputStream, SetOutputStream,
           NativeReadBegin, NativeReadFails, NativeNothing, NativeWriteBegin,
           NativeWriteFails
<1>2. ASSUME NEW f \in Fds, Peer(f) PROVE KernelInv'
  BY <1>2 DEF Peer, PeerSends, PeerReceives, LinkLost
<1>3. CASE kernel' = kernel
  BY <1>3 DEF kernel
<1>4. ASSUME NEW t \in Threads, Invoke(t) PROVE kernel' = kernel
  BY <1>4 DEF Invoke, CallConnect, CallOther, Call, GetInputStream,
              GetOutputStream
<1> HIDE DEF TypeOK, KernelInv
<1> QED BY <1>1, <1>2, <1>3, <1>4 DEF Next, vars

\* Outside the lock a call touches neither the descriptor nor the device.
LEMMA OutsideKeepsChannel ==
  ASSUME TypeOK, ChannelInv, NEW t \in Threads,
         UNCHANGED <<object, kernel>>,
         pc[t] \notin {"clear", "setFields"},
         pc'[t] \notin {"clear", "setSockOpt", "nativeConnect", "connecting", "setFields"},
         \A u \in Threads \ {t} : Alike(u)
  PROVE  ChannelInv'
<1>1. ASSUME NEW u \in Threads PROVE ChannelOf(u)'
  <2>1. CASE u = t
    BY <2>1 DEF ChannelOf
  <2>2. CASE u # t
    BY <2>2 DEF ChannelInv, ChannelOf, Alike, object, kernel
  <2> QED BY <2>1, <2>2
<1>2. DeviceInv'
  BY DEF ChannelInv, DeviceInv, Device, Alike, object, kernel
<1> QED BY <1>1, <1>2 DEF ChannelInv

\* Inside it, it is the only one that does.
LEMMA InsideKeepsChannel ==
  ASSUME LockInv, NEW t \in Threads, InLock(t),
         \A u \in Threads \ {t} : Alike(u),
         ChannelOf(t)',
         pc'[t] \notin {"clear", "setFields"} => (remoteDevice = Device)'
  PROVE  ChannelInv'
<1>1. ASSUME NEW u \in Threads \ {t} PROVE pc'[u] \notin Locked
  BY <1>1 DEF LockInv, InLock, Alike
<1>2. ASSUME NEW u \in Threads PROVE ChannelOf(u)'
  BY <1>1, <1>2 DEF ChannelOf, Locked
<1> QED BY <1>2 DEF ChannelInv, DeviceInv

LEMMA ChannelStep ==
  ASSUME TypeOK, LockInv, SocketInv, KernelInv, ChannelInv, [Next]_vars,
         interrupts' = interrupts
  PROVE  ChannelInv'
<1>1. ASSUME NEW t \in Threads,
             \/ Invoke(t) \/ Lock(t) \/ Release(t)
             \/ SetInputStream(t) \/ SetOutputStream(t)
      PROVE  ChannelInv'
  <2>1. \A u \in Threads \ {t} : Alike(u)
    BY <1>1, StepOfOne DEF Step
  <2>2. /\ UNCHANGED <<object, kernel>>
        /\ pc[t] \notin {"clear", "setFields"}
    BY <1>1 DEF Invoke, CallConnect, CallOther, Call, GetInputStream,
                GetOutputStream, Lock, Release, SetInputStream, SetOutputStream
  <2>3. pc'[t] \notin {"clear", "setSockOpt", "nativeConnect", "connecting", "setFields"}
    BY <1>1 DEF Invoke, CallConnect, CallOther, Call, GetInputStream,
                GetOutputStream, Lock, Release, AfterRelease, SetInputStream,
                SetOutputStream, Goto, FirstPoint, TypeOK, Ops
  <2> QED BY <2>1, <2>2, <2>3, OutsideKeepsChannel
<1>2. ASSUME NEW t \in Threads, Step(t),
             ~(\/ Lock(t) \/ LockInterrupted(t) \/ Release(t)
               \/ SetInputStream(t) \/ SetOutputStream(t))
      PROVE  ChannelInv'
  <2>1. \A u \in Threads \ {t} : Alike(u)
    BY <1>2, StepOfOne
  <2>2. InLock(t)
    BY <1>2
       DEF Step, NativeCloseOk, NativeCloseFails, ClearFields, GetSocketOk,
           GetSocketFails, SetSockOptOk, SetSockOptFails, NativeConnectBegin,
           NativeConnectOk, NativeConnectFails, SetFields, NativeReadBegin,
           NativeReadOk, NativeReadFails, NativeNothing, NativeWriteBegin, NativeWriteOk, NativeWriteFails,
           InLock, Locked
  <2>3. \A u \in Threads \ {t} : pc[u] \notin {"clear", "setFields"}
    BY <2>2 DEF LockInv, InLock, Locked
  <2>4. /\ ChannelOf(t)
        /\ pc[t] \notin {"clear", "setFields"} => remoteDevice = Device
    BY <2>3 DEF ChannelInv, DeviceInv
  <2>5. None \notin Fds
    BY FdsAssumption DEF None
  <2> DEFINE Settles ==
        /\ ChannelOf(t)'
        /\ pc'[t] \notin {"clear", "setFields"} => (remoteDevice = Device)'
  <2> SUFFICES Settles
    BY <2>1, <2>2, InsideKeepsChannel
  <2> USE DEF TypeOK, ChannelOf, Device
  <2>6. CASE NativeCloseOk(t)
    BY <2>6 DEF NativeCloseOk, Close, Goto
  <2>7. CASE ClearFields(t)
    <3>1. nativeSocket = None
      BY <2>7 DEF ClearFields, SocketInv
    <3> QED BY <2>7, <3>1 DEF ClearFields, Goto, kernel
  <2>8. CASE GetSocketOk(t)
    <3>1. nativeSocket = None /\ remoteDevice = NoDevice
      BY <2>4, <2>8 DEF GetSocketOk, SocketInv
    <3>2. PICK f \in Fds : /\ link[f] = "closed" /\ nativeSocket' = f
                           /\ link' = [link EXCEPT ![f] = "unconnected"]
      BY <2>8 DEF GetSocketOk
    <3>3. far[f] = NoDevice
      BY <3>2 DEF KernelInv
    <3>4. UNCHANGED <<remoteDevice, far>> /\ pc'[t] = "setSockOpt"
      BY <2>8 DEF GetSocketOk, Goto
    <3> QED BY <2>5, <3>1, <3>2, <3>3, <3>4
  <2>9. CASE GetSocketFails(t)
    <3>1. nativeSocket = None /\ remoteDevice = NoDevice
      BY <2>4, <2>9 DEF GetSocketFails, SocketInv
    <3> QED BY <2>9, <3>1 DEF GetSocketFails, Throw, Goto
  <2>10. CASE \/ SetSockOptOk(t) \/ NativeConnectBegin(t) \/ NativeReadBegin(t)
    BY <2>4, <2>10 DEF SetSockOptOk, NativeConnectBegin, NativeReadBegin, Goto,
                       object, kernel
  <2>11. CASE NativeConnectOk(t)
    <3>1. fd[t] = nativeSocket
      BY <2>11 DEF NativeConnectOk, SocketInv
    <3> QED BY <2>11, <3>1 DEF NativeConnectOk, Goto, object
  <2>12. CASE SetFields(t)
    BY <2>4, <2>5, <2>12 DEF SetFields, Goto, kernel
  <2>13. CASE NativeReadOk(t)
    BY <2>4, <2>13 DEF NativeReadOk, Goto, object
  <2>14. CASE \/ NativeCloseFails(t) \/ SetSockOptFails(t)
              \/ NativeConnectFails(t) \/ NativeReadFails(t)
              \/ NativeNothing(t) \/ NativeWriteBegin(t)
              \/ NativeWriteOk(t) \/ NativeWriteFails(t)
    BY <2>4, <2>14
       DEF NativeCloseFails, SetSockOptFails, NativeConnectFails,
           NativeReadFails, NativeNothing, NativeWriteBegin, NativeWriteOk, NativeWriteFails, Throw, Goto,
           object, kernel
  <2> HIDE DEF TypeOK, ChannelOf, Device
  <2> QED
    BY <1>2, <2>6, <2>7, <2>8, <2>9, <2>10, <2>11, <2>12, <2>13, <2>14 DEF Step
<1>3. ASSUME UNCHANGED vars \/ \E f \in Fds : Peer(f) PROVE ChannelInv'
  <2>1. UNCHANGED <<object, far, thread>>
    BY <1>3 DEF vars, kernel, Peer, PeerSends, PeerReceives, LinkLost
  <2>2. \A f \in Fds : link[f] = "unconnected" => link'[f] = "unconnected"
    BY <1>3 DEF vars, kernel, Peer, PeerSends, PeerReceives, LinkLost, TypeOK
  <2>3. ASSUME NEW u \in Threads PROVE ChannelOf(u)'
    BY <2>1, <2>2 DEF ChannelInv, ChannelOf, object, thread
  <2>4. DeviceInv'
    BY <2>1 DEF ChannelInv, DeviceInv, Device, object, thread
  <2> QED BY <2>3, <2>4 DEF ChannelInv
<1>4. ASSUME NEW t \in Threads, LockInterrupted(t) PROVE FALSE
  BY <1>4, BoundsAssumption DEF LockInterrupted, TypeOK
<1> QED BY <1>1, <1>2, <1>3, <1>4 DEF Next, Step

IInvChannel == KernelInv /\ (interrupts = 0 => ChannelInv)

LEMMA ChannelInvariance == Spec => []IInvChannel
<1>1. Init => IInvChannel
  <2> SUFFICES ASSUME Init PROVE IInvChannel
    OBVIOUS
  <2>1. \A t \in Threads : pc[t] = "idle"
    BY DEF Init
  <2> QED BY <2>1 DEF Init, IInvChannel, KernelInv, ChannelInv, ChannelOf, DeviceInv, Device
<1>2. TypeOK /\ IInv /\ IInvChannel /\ [Next]_vars => IInvChannel'
  <2> SUFFICES ASSUME TypeOK, IInv, IInvChannel, [Next]_vars, (interrupts = 0)'
               PROVE  ChannelInv'
    BY KernelStep DEF IInvChannel
  <2>1. interrupts \in Nat
    BY BoundsAssumption DEF TypeOK
  <2>2. interrupts = 0 /\ interrupts' = interrupts
    BY <2>1, InterruptCounts
  <2> QED BY <2>2, ChannelStep DEF IInv, IInvChannel
<1> QED BY <1>1, <1>2, Invariance, PTL DEF Spec

\* Until a waiting thread is interrupted, whoever asks the object between two
\* calls is told the device its channel is really connected to, after any mix
\* of connects, closes and failures of other threads.
THEOREM DeviceTrue == Spec => []RemoteDeviceIsTrue
<1>1. TypeOK /\ IInvChannel => RemoteDeviceIsTrue
  BY DEF IInvChannel, ChannelInv, DeviceInv, Device, RemoteDeviceIsTrue, InLock, Locked
<1> QED BY <1>1, ChannelInvariance, TypeCorrect, PTL

-----------------------------------------------------------------------------
(* The object as a channel: every step is one of L2capChannel, or none.      *)

BusyOf(t) ==
  CASE pc[t] = "connecting" -> "connect"
    [] pc[t] = "reading"    -> "read"
    [] pc[t] = "writing"    -> "write"
    [] OTHER                -> "no"

BusyInside == \A t \in Threads : InLock(t) => Busy = BusyOf(t)

\* The call that holds the lock is the one that may be blocked.
LEMMA BusyIsLock == LockInv => BusyInside
BY DEF LockInv, BusyInside, BusyOf, Busy, InLock, Locked

\* Away from connect(2), read(2), write(2) and the descriptor the channel stays
\* as it is.
LEMMA ChannelSame ==
  ASSUME UNCHANGED <<nativeSocket, kernel>>,
         \A u \in Threads : \A point \in {"connecting", "reading", "writing"} :
           pc'[u] = point <=> pc[u] = point
  PROVE  UNCHANGED <<State, Device, Waiting, Unsent, Busy>>
<1>1. UNCHANGED <<State, Device, Waiting, Unsent>>
  BY DEF State, Device, Waiting, Unsent, kernel
<1>2. UNCHANGED Busy
  BY DEF Busy
<1> QED BY <1>1, <1>2

LEMMA ChannelRefined ==
  ASSUME TypeOK, LockInv, LockInv', SocketInv, CallInv, KernelInv, ChannelInv, [Next]_vars,
         interrupts' = interrupts
  PROVE  Channel!Promised \/ UNCHANGED <<State, Device, Waiting, Unsent, Busy>>
<1>0. BusyInside /\ BusyInside'
  BY BusyIsLock, PTL
<1> USE DEF Channel!Promised
<1>1. ASSUME NEW t \in Threads,
             \/ Invoke(t) \/ Lock(t) \/ Release(t)
             \/ SetInputStream(t) \/ SetOutputStream(t)
      PROVE  UNCHANGED <<State, Device, Waiting, Unsent, Busy>>
  <2>1. \A u \in Threads \ {t} : pc'[u] = pc[u]
    BY <1>1, StepOfOne DEF Step, Alike
  <2>2. UNCHANGED <<nativeSocket, kernel>>
    BY <1>1 DEF Invoke, CallConnect, CallOther, Call, GetInputStream, object,
                GetOutputStream, Lock, Release, SetInputStream, SetOutputStream
  <2>3. {pc[t], pc'[t]} \cap {"connecting", "reading", "writing"} = {}
    BY <1>1 DEF Invoke, CallConnect, CallOther, Call, GetInputStream,
                GetOutputStream, Lock, Release, AfterRelease, SetInputStream,
                SetOutputStream, Goto, FirstPoint, TypeOK, Ops
  <2> QED BY <2>1, <2>2, <2>3, ChannelSame
<1>2. ASSUME NEW t \in Threads,
             \/ NativeCloseFails(t) \/ ClearFields(t)
             \/ SetSockOptOk(t) \/ SetSockOptFails(t) \/ SetFields(t)
             \/ NativeNothing(t)
      PROVE  UNCHANGED <<State, Device, Waiting, Unsent, Busy>>
  <2>1. \A u \in Threads \ {t} : pc'[u] = pc[u]
    BY <1>2, StepOfOne DEF Step, Alike
  <2>2. /\ UNCHANGED <<nativeSocket, kernel>>
        /\ {pc[t], pc'[t]} \cap {"connecting", "reading", "writing"} = {}
    BY <1>2 DEF NativeCloseFails, ClearFields, SetSockOptOk, SetSockOptFails,
                SetFields, NativeNothing, Throw, Goto, object, TypeOK
  <2> QED BY <2>1, <2>2, ChannelSame
<1>3. ASSUME NEW t \in Threads, GetSocketFails(t)
      PROVE  UNCHANGED <<State, Device, Waiting, Unsent, Busy>>
  <2>1. \A u \in Threads \ {t} : pc'[u] = pc[u]
    BY <1>3, StepOfOne DEF Step, Alike
  <2>2. /\ UNCHANGED <<nativeSocket, kernel>>
        /\ {pc[t], pc'[t]} \cap {"connecting", "reading", "writing"} = {}
    BY <1>3 DEF GetSocketFails, Throw, Goto, SocketInv, TypeOK
  <2> QED BY <2>1, <2>2, ChannelSame
<1>4. ASSUME NEW t \in Threads, NativeCloseOk(t) PROVE Channel!Drop
  <2>1. /\ nativeSocket \in Fds /\ link[nativeSocket] # "closed" /\ nativeSocket' = None
        /\ pc[t] = "nativeClose" /\ pc'[t] = "clear"
    BY <1>4 DEF NativeCloseOk, IsOpen, Goto, TypeOK
  <2>2. Busy = "no" /\ Busy' = "no"
    BY <1>0, <2>1 DEF BusyInside, BusyOf, InLock, Locked
  <2>3. /\ State # "none" /\ State' = "none" /\ Device' = NoDevice
        /\ Waiting' = 0 /\ Unsent' = 0
    BY <2>1, FdsAssumption DEF State, Device, Waiting, Unsent, None, TypeOK, LinkStates
  <2> QED BY <2>2, <2>3 DEF Channel!Drop
<1>5. ASSUME NEW t \in Threads, GetSocketOk(t) PROVE Channel!Open
  <2>1. PICK f \in Fds : /\ link[f] = "closed" /\ nativeSocket' = f
                         /\ link' = [link EXCEPT ![f] = "unconnected"]
    BY <1>5 DEF GetSocketOk
  <2>2. /\ pc[t] = "getSocket" /\ pc'[t] = "setSockOpt" /\ nativeSocket = None
        /\ UNCHANGED <<far, inbox, outbox>>
    BY <1>5 DEF GetSocketOk, Goto, TypeOK, SocketInv
  <2>3. Busy = "no" /\ Busy' = "no"
    BY <1>0, <2>2 DEF BusyInside, BusyOf, InLock, Locked
  <2>4. far[f] = NoDevice /\ inbox[f] = 0 /\ outbox[f] = 0 /\ f # None
    BY <2>1, FdsAssumption DEF KernelInv, None
  <2>5. State = "none" /\ State' = "unconnected" /\ UNCHANGED <<Device, Waiting, Unsent>>
    BY <2>1, <2>2, <2>4 DEF State, Device, Waiting, Unsent, TypeOK
  <2> QED BY <2>3, <2>5 DEF Channel!Open
<1>6. ASSUME NEW t \in Threads, NativeConnectBegin(t) PROVE Channel!BeginConnect
  <2>1. /\ pc[t] = "nativeConnect" /\ pc'[t] = "connecting"
        /\ UNCHANGED <<nativeSocket, kernel>>
    BY <1>6 DEF NativeConnectBegin, Goto, TypeOK, object
  <2>2. Busy = "no" /\ Busy' = "connect"
    BY <1>0, <2>1 DEF BusyInside, BusyOf, InLock, Locked
  <2>3. nativeSocket # None /\ link[nativeSocket] = "unconnected"
    BY <2>1, FdsAssumption DEF ChannelInv, ChannelOf, None
  <2>4. State = "unconnected" /\ UNCHANGED <<State, Device, Waiting, Unsent>>
    BY <2>1, <2>3 DEF State, Device, Waiting, Unsent, kernel
  <2> QED BY <2>2, <2>4 DEF Channel!BeginConnect
<1>7. ASSUME NEW t \in Threads, NativeConnectOk(t) \/ NativeConnectFails(t)
      PROVE  Channel!EndConnect
  <2>1. /\ pc[t] = "connecting" /\ pc'[t] \in {"setFields", "finally"}
        /\ UNCHANGED <<nativeSocket, inbox, outbox>>
    BY <1>7 DEF NativeConnectOk, NativeConnectFails, Throw, Goto, TypeOK, object, kernel
  <2>2. Busy = "connect" /\ Busy' = "no"
    BY <1>0, <2>1 DEF BusyInside, BusyOf, InLock, Locked
  <2>3. CASE NativeConnectOk(t)
    <3>0. fd[t] = nativeSocket
      BY <2>1 DEF SocketInv
    <3>1. /\ nativeSocket \in Fds /\ nativeSocket # None
          /\ link' = [link EXCEPT ![nativeSocket] = "connected"]
          /\ far' = [far EXCEPT ![nativeSocket] = target[t]]
      BY <2>3, <3>0, FdsAssumption DEF NativeConnectOk, None
    <3>2. target[t] \in Devices
      BY <2>1 DEF CallInv, CallOf, ConnectPoints
    <3>3. State' = "connected" /\ Device' \in Devices /\ UNCHANGED <<Waiting, Unsent>>
      BY <2>1, <3>1, <3>2 DEF State, Device, Waiting, Unsent, TypeOK
    <3> QED BY <2>2, <3>3 DEF Channel!EndConnect
  <2>4. CASE NativeConnectFails(t)
    <3>1. UNCHANGED <<State, Device, Waiting, Unsent>>
      BY <2>4 DEF NativeConnectFails, State, Device, Waiting, Unsent, object, kernel
    <3> QED BY <2>2, <3>1 DEF Channel!EndConnect
  <2> QED BY <1>7, <2>3, <2>4
<1>8. ASSUME NEW t \in Threads, NativeReadBegin(t) PROVE Channel!BeginRead
  <2>1. pc[t] = "nativeRead" /\ pc'[t] = "reading" /\ UNCHANGED <<nativeSocket, kernel>>
    BY <1>8 DEF NativeReadBegin, Goto, TypeOK, object
  <2>2. Busy = "no" /\ Busy' = "read"
    BY <1>0, <2>1 DEF BusyInside, BusyOf, InLock, Locked
  <2>3. UNCHANGED <<State, Device, Waiting, Unsent>>
    BY <2>1 DEF State, Device, Waiting, Unsent, kernel
  <2> QED BY <2>2, <2>3 DEF Channel!BeginRead
<1>9. ASSUME NEW t \in Threads, NativeReadOk(t) \/ NativeReadFails(t) PROVE Channel!EndRead
  <2>1. /\ pc[t] = "reading" /\ pc'[t] = "finally" /\ fd[t] = nativeSocket
        /\ UNCHANGED <<nativeSocket, link, far, outbox>>
    BY <1>9 DEF NativeReadOk, NativeReadFails, Throw, Goto, TypeOK, object, kernel, SocketInv
  <2>2. Busy = "read" /\ Busy' = "no"
    BY <1>0, <2>1 DEF BusyInside, BusyOf, InLock, Locked
  <2>3. UNCHANGED <<State, Device, Unsent>>
    BY <2>1 DEF State, Device, Unsent
  <2>4. CASE NativeReadOk(t)
    <3>1. /\ nativeSocket \in Fds /\ nativeSocket # None /\ inbox[nativeSocket] > 0
          /\ inbox' = [inbox EXCEPT ![nativeSocket] = inbox[nativeSocket] - 1]
      BY <2>1, <2>4, FdsAssumption DEF NativeReadOk, None
    <3>2. Waiting > 0 /\ Waiting' = Waiting - 1
      BY <2>1, <3>1 DEF Waiting, TypeOK
    <3> QED BY <2>2, <2>3, <3>2 DEF Channel!EndRead
  <2>5. CASE NativeReadFails(t)
    <3>1. UNCHANGED Waiting
      BY <2>1, <2>5 DEF NativeReadFails, Waiting, kernel
    <3> QED BY <2>2, <2>3, <3>1 DEF Channel!EndRead
  <2> QED BY <1>9, <2>4, <2>5
<1>10. ASSUME NEW t \in Threads, NativeWriteBegin(t) PROVE Channel!BeginWrite
  <2>1. pc[t] = "nativeWrite" /\ pc'[t] = "writing" /\ UNCHANGED <<nativeSocket, kernel>>
    BY <1>10 DEF NativeWriteBegin, Goto, TypeOK, object
  <2>2. Busy = "no" /\ Busy' = "write"
    BY <1>0, <2>1 DEF BusyInside, BusyOf, InLock, Locked
  <2>3. UNCHANGED <<State, Device, Waiting, Unsent>>
    BY <2>1 DEF State, Device, Waiting, Unsent, kernel
  <2> QED BY <2>2, <2>3 DEF Channel!BeginWrite
<1>11. ASSUME NEW t \in Threads, NativeWriteOk(t) \/ NativeWriteFails(t) PROVE Channel!EndWrite
  <2>1. /\ pc[t] = "writing" /\ pc'[t] = "finally" /\ fd[t] = nativeSocket
        /\ UNCHANGED <<nativeSocket, link, far, inbox>>
    BY <1>11 DEF NativeWriteOk, NativeWriteFails, Throw, Goto, TypeOK, object, kernel, SocketInv
  <2>2. Busy = "write" /\ Busy' = "no"
    BY <1>0, <2>1 DEF BusyInside, BusyOf, InLock, Locked
  <2>3. UNCHANGED <<State, Device, Waiting>>
    BY <2>1 DEF State, Device, Waiting
  <2>4. CASE NativeWriteOk(t)
    <3>1. /\ nativeSocket \in Fds /\ nativeSocket # None
          /\ link[nativeSocket] = "connected" /\ outbox[nativeSocket] < MaxOutbox
          /\ outbox' = [outbox EXCEPT ![nativeSocket] = outbox[nativeSocket] + 1]
      BY <2>1, <2>4, FdsAssumption DEF NativeWriteOk, None
    <3>2. State = "connected" /\ Unsent < MaxOutbox /\ Unsent' = Unsent + 1
      BY <2>1, <3>1 DEF State, Unsent, TypeOK
    <3> QED BY <2>2, <2>3, <3>2 DEF Channel!EndWrite
  <2>5. CASE NativeWriteFails(t)
    <3>1. UNCHANGED Unsent
      BY <2>1, <2>5 DEF NativeWriteFails, Unsent, kernel
    <3> QED BY <2>2, <2>3, <3>1 DEF Channel!EndWrite
  <2> QED BY <1>11, <2>4, <2>5
<1>12. ASSUME NEW f \in Fds, Peer(f)
       PROVE  Channel!Deliver \/ Channel!Take \/ Channel!Lose
  <2>1. f = nativeSocket /\ nativeSocket # None /\ link[f] = "connected"
    BY <1>12, FdsAssumption DEF Peer, PeerSends, PeerReceives, LinkLost, SocketInv, IsOpen, None
  <2>2. UNCHANGED <<nativeSocket, pc, far>>
    BY <1>12 DEF Peer, PeerSends, PeerReceives, LinkLost, object, thread
  <2>3. State = "connected" /\ UNCHANGED <<Device, Busy>>
    BY <2>1, <2>2 DEF State, Device, Busy
  <2>4. CASE PeerSends(f)
    <3>1. /\ Waiting < MaxInbox /\ Waiting' = Waiting + 1
          /\ UNCHANGED <<State, Unsent>>
      BY <2>1, <2>2, <2>4 DEF PeerSends, Waiting, Unsent, State, TypeOK
    <3> QED BY <2>3, <3>1 DEF Channel!Deliver
  <2>5. CASE LinkLost(f)
    <3>1. State' = "lost" /\ UNCHANGED <<Waiting, Unsent>>
      BY <2>1, <2>2, <2>5 DEF LinkLost, Waiting, Unsent, State, TypeOK
    <3> QED BY <2>3, <3>1 DEF Channel!Lose
  <2>6. CASE PeerReceives(f)
    <3>1. /\ Unsent > 0 /\ Unsent' = Unsent - 1
          /\ UNCHANGED <<State, Waiting>>
      BY <2>1, <2>2, <2>6 DEF PeerReceives, Waiting, Unsent, State, TypeOK
    <3> QED BY <2>3, <3>1 DEF Channel!Take
  <2> QED BY <1>12, <2>4, <2>5, <2>6 DEF Peer
<1>13. ASSUME NEW t \in Threads, LockInterrupted(t) PROVE FALSE
  BY <1>13, BoundsAssumption DEF LockInterrupted, TypeOK
<1>14. CASE UNCHANGED vars
  BY <1>14, ChannelSame DEF vars, object, thread
<1> QED
  BY <1>1, <1>2, <1>3, <1>4, <1>5, <1>6, <1>7, <1>8, <1>9, <1>10, <1>11, <1>12,
     <1>13, <1>14
     DEF Next, Step

\* Any number of threads that connect, close, read and write one object make
\* together one channel that one call at a time opens, connects, reads,
\* writes and drops, until a waiting thread is interrupted (NativeSocket.java and
\* L2capSocket.java).
THEOREM OneChannel == Spec => ImplementsChannel
<1>1. Init => Channel!Init
  <2> SUFFICES ASSUME Init PROVE Channel!Init
    OBVIOUS
  <2>1. (interrupts > 0) = FALSE
    BY DEF Init
  <2>2. State = "none" /\ Device = NoDevice /\ Waiting = 0 /\ Unsent = 0 /\ Busy = "no"
    BY DEF Init, State, Device, Waiting, Unsent, Busy
  <2> QED BY <2>1, <2>2 DEF Channel!Init
<1>2. TypeOK /\ IInv /\ CallInv /\ IInvChannel /\ IInv' /\ TypeOK' /\ [Next]_vars
        => [Channel!Next]_(Channel!chan)
  <2> SUFFICES ASSUME TypeOK, IInv, CallInv, IInvChannel, IInv', TypeOK', [Next]_vars
               PROVE  Channel!Next \/ UNCHANGED Channel!chan
    OBVIOUS
  <2>1. interrupts \in Nat /\ interrupts' \in Nat
    BY BoundsAssumption DEF TypeOK
  <2>2. CASE interrupts' # 0
    <3>1. (interrupts' > 0) = TRUE
      BY <2>1, <2>2
    <3> QED BY <3>1 DEF Channel!Next, Channel!Break
  <2>3. CASE interrupts' = 0
    <3>1. interrupts = 0
      BY <2>1, <2>3, InterruptCounts
    <3>2. Channel!Promised \/ UNCHANGED <<State, Device, Waiting, Unsent, Busy>>
      BY <2>3, <3>1, ChannelRefined DEF IInv, IInvChannel
    <3>3. (interrupts > 0) = FALSE /\ (interrupts' > 0) = FALSE
      BY <2>3, <3>1
    <3> QED BY <3>2, <3>3 DEF Channel!Next, Channel!chan
  <2> QED BY <2>2, <2>3
<1> QED
  BY <1>1, <1>2, Invariance, CallInvariance, ChannelInvariance, PTL
     DEF Spec, ImplementsChannel, Channel!Spec
=============================================================================
