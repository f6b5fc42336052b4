---------------------------- MODULE L2capSocket ----------------------------
(***************************************************************************)
(* One libhidroid L2capSocket object, shared by the threads of an          *)
(* application: L2capSocket.java, NativeSocket.java, the two stream        *)
(* classes and the JNI code below them.                                    *)
(*                                                                         *)
(* A call takes the semaphore of NativeSocket, runs its native steps,      *)
(* assigns the fields of the object and gives the semaphore back in a      *)
(* `finally' block.  Two things happen outside the semaphore: the getters  *)
(* of the streams, and the creation of the streams by the subclass's       *)
(* connect once super.connect has returned.                                *)
(*                                                                         *)
(* The kernel is external: a descriptor is closed, unconnected, connected  *)
(* or lost (its far end went away), and holds the packets not read yet and *)
(* those written that the far end has not taken yet.                       *)
(***************************************************************************)
EXTENDS Integers

CONSTANTS
  Threads,        \* the application threads that share the object
  Fds,            \* the descriptors socket(2) may return
  Devices,        \* the remote devices a caller may connect to
  NoDevice,       \* null
  MaxInbox,       \* bound: packets the kernel queues for one channel
  MaxOutbox,      \* packets of one channel the kernel takes before write(2) blocks
  MaxInterrupts   \* bound: Thread.interrupt() that hit a waiting thread

\* L2capSocket.connect takes descriptor 0 for "no socket" (get() > 0), so
\* the object needs socket(2) to return a positive one: 0 to 2 are open in
\* every Android process.
ASSUME FdsAssumption == Fds \subseteq Int /\ \A f \in Fds : f > 0

ASSUME DevicesAssumption == NoDevice \notin Devices

ASSUME BoundsAssumption ==
  MaxInbox \in Nat /\ MaxOutbox \in Nat /\ MaxInterrupts \in Nat

VARIABLES
  permits,        \* NativeSocket.mutex
  nativeSocket,   \* NativeSocket.socket: a descriptor, or -1
  remoteDevice,   \* L2capSocket.remoteDevice, set and reset with psm
  inputStream,    \* L2capSocket.inputStream # null
  outputStream,   \* L2capSocket.outputStream # null
  pc,             \* where each thread is in its call
  op,             \* the method each thread is in, "none" outside the try
  target,         \* the remoteDevice argument of connect
  fd,             \* `s' of the JNI call a thread is blocked in, -1 outside
  threw,          \* is an exception being thrown?
  holds,          \* the streams the threads got from the getters
  link,           \* kernel: state of each descriptor
  far,            \* kernel: device at the far end of each descriptor
  inbox,          \* kernel: packets waiting on each descriptor
  outbox,         \* kernel: packets of each descriptor not taken by the far end
  interrupts      \* how many waiting threads were interrupted so far

object == <<nativeSocket, remoteDevice>>
streams == <<inputStream, outputStream>>
thread == <<pc, op, target, fd, threw, holds>>
kernel == <<link, far, inbox, outbox>>
vars == <<permits, object, streams, thread, kernel, interrupts>>

None == -1
Ops == {"connect", "close", "read", "write"}
LinkStates == {"closed", "unconnected", "connected", "lost"}

\* The points of a call between lock() and the release() of the finally block.
Locked == {"nativeClose", "clear", "getSocket", "setSockOpt", "nativeConnect",
           "connecting", "setFields", "nativeRead", "reading", "nativeWrite",
           "writing", "finally"}

Points == {"idle", "lock", "setIn", "setOut"} \cup Locked

InLock(t) == pc[t] \in Locked

TypeOK ==
  /\ permits \in Nat
  /\ nativeSocket \in Fds \cup {None}
  /\ remoteDevice \in Devices \cup {NoDevice}
  /\ inputStream \in BOOLEAN
  /\ outputStream \in BOOLEAN
  /\ pc \in [Threads -> Points]
  /\ op \in [Threads -> Ops \cup {"none"}]
  /\ \A t \in Threads : pc[t] = "lock" => op[t] \in Ops
  /\ target \in [Threads -> Devices \cup {NoDevice}]
  /\ fd \in [Threads -> Fds \cup {None}]
  /\ threw \in [Threads -> BOOLEAN]
  /\ holds \in SUBSET {"in", "out"}
  /\ link \in [Fds -> LinkStates]
  /\ far \in [Fds -> Devices \cup {NoDevice}]
  /\ inbox \in [Fds -> 0..MaxInbox]
  /\ outbox \in [Fds -> 0..MaxOutbox]
  /\ interrupts \in 0..MaxInterrupts

Init ==
  /\ permits = 1
  /\ nativeSocket = None
  /\ remoteDevice = NoDevice
  /\ inputStream = FALSE
  /\ outputStream = FALSE
  /\ pc = [t \in Threads |-> "idle"]
  /\ op = [t \in Threads |-> "none"]
  /\ target = [t \in Threads |-> NoDevice]
  /\ fd = [t \in Threads |-> None]
  /\ threw = [t \in Threads |-> FALSE]
  /\ holds = {}
  /\ link = [f \in Fds |-> "closed"]
  /\ far = [f \in Fds |-> NoDevice]
  /\ inbox = [f \in Fds |-> 0]
  /\ outbox = [f \in Fds |-> 0]
  /\ interrupts = 0

-----------------------------------------------------------------------------
(* A thread calls a method, or one of the getters of the streams. *)

Goto(t, point) == pc' = [pc EXCEPT ![t] = point]

Call(t, o, d) ==
  /\ pc[t] = "idle"
  /\ o = "read" => "in" \in holds
  /\ o = "write" => "out" \in holds
  /\ Goto(t, "lock")
  /\ op' = [op EXCEPT ![t] = o]
  /\ target' = [target EXCEPT ![t] = d]
  /\ UNCHANGED <<permits, object, streams, fd, threw, holds, kernel, interrupts>>

CallConnect(t) == \E d \in Devices : Call(t, "connect", d)
CallOther(t) == \E o \in Ops \ {"connect"} : Call(t, o, NoDevice)

\* The getter throws, and changes nothing, while there is no stream.
GetInputStream(t) ==
  /\ pc[t] = "idle"
  /\ inputStream
  /\ holds' = holds \cup {"in"}
  /\ UNCHANGED <<permits, object, streams, pc, op, target, fd, threw, kernel,
                 interrupts>>

GetOutputStream(t) ==
  /\ pc[t] = "idle"
  /\ outputStream
  /\ holds' = holds \cup {"out"}
  /\ UNCHANGED <<permits, object, streams, pc, op, target, fd, threw, kernel,
                 interrupts>>

-----------------------------------------------------------------------------
(* The semaphore. *)

\* Mutant: connect asks for a device instead of a descriptor.
HasSocket_Device == remoteDevice # NoDevice

\* Does connect find a socket to close first?
HasSocket == nativeSocket > 0

FirstPoint(o) ==
  CASE o = "connect" -> IF HasSocket THEN "nativeClose" ELSE "getSocket"
    [] o = "close"   -> "nativeClose"
    [] o = "read"    -> "nativeRead"
    [] o = "write"   -> "nativeWrite"

Lock(t) ==
  /\ pc[t] = "lock"
  /\ permits > 0
  /\ permits' = permits - 1
  /\ Goto(t, FirstPoint(op[t]))
  /\ UNCHANGED <<object, streams, op, target, fd, threw, holds, kernel,
                 interrupts>>

\* acquire() throws InterruptedException: no permit was taken, but lock() is
\* inside the try block, so the finally block runs all the same.
LockInterrupted(t) ==
  /\ pc[t] = "lock"
  /\ interrupts < MaxInterrupts
  /\ interrupts' = interrupts + 1
  /\ threw' = [threw EXCEPT ![t] = TRUE]
  /\ Goto(t, "finally")
  /\ UNCHANGED <<permits, object, streams, op, target, fd, holds, kernel>>

\* A connect that did not throw goes on in the subclass, without the lock.
AfterRelease(t) == IF op[t] = "connect" /\ ~threw[t] THEN "setIn" ELSE "idle"

\* Mutant: the catch block releases too.
Release_Twice(t) ==
  /\ pc[t] = "finally"
  /\ permits' = permits + (IF threw[t] THEN 2 ELSE 1)
  /\ Goto(t, AfterRelease(t))
  /\ op' = [op EXCEPT ![t] = "none"]
  /\ target' = [target EXCEPT ![t] = NoDevice]
  /\ fd' = [fd EXCEPT ![t] = None]
  /\ threw' = [threw EXCEPT ![t] = FALSE]
  /\ UNCHANGED <<object, streams, holds, kernel, interrupts>>

Release(t) ==
  /\ pc[t] = "finally"
  /\ permits' = permits + 1
  /\ Goto(t, AfterRelease(t))
  /\ op' = [op EXCEPT ![t] = "none"]
  /\ target' = [target EXCEPT ![t] = NoDevice]
  /\ fd' = [fd EXCEPT ![t] = None]
  /\ threw' = [threw EXCEPT ![t] = FALSE]
  /\ UNCHANGED <<object, streams, holds, kernel, interrupts>>

\* A native step throws IOException: the rest of the try block is skipped.
Throw(t) ==
  /\ threw' = [threw EXCEPT ![t] = TRUE]
  /\ Goto(t, "finally")

-----------------------------------------------------------------------------
(* The native steps and the assignments of connect and close. *)

IsOpen(f) == f \in Fds /\ link[f] # "closed"

Close(f) ==
  /\ link' = [link EXCEPT ![f] = "closed"]
  /\ far' = [far EXCEPT ![f] = NoDevice]
  /\ inbox' = [inbox EXCEPT ![f] = 0]
  /\ outbox' = [outbox EXCEPT ![f] = 0]

NativeCloseOk(t) ==
  /\ pc[t] = "nativeClose"
  /\ IsOpen(nativeSocket)
  /\ Close(nativeSocket)
  /\ nativeSocket' = None
  /\ Goto(t, "clear")
  /\ UNCHANGED <<permits, remoteDevice, streams, op, target, fd, threw, holds,
                 interrupts>>

NativeCloseFails(t) ==
  /\ pc[t] = "nativeClose"
  /\ ~IsOpen(nativeSocket)
  /\ Throw(t)
  /\ UNCHANGED <<permits, object, streams, op, target, fd, holds, kernel,
                 interrupts>>

\* Mutant: remoteDevice is not reset.
ClearFields_KeepDevice(t) ==
  /\ pc[t] = "clear"
  /\ inputStream' = FALSE
  /\ outputStream' = FALSE
  /\ Goto(t, IF op[t] = "connect" THEN "getSocket" ELSE "finally")
  /\ UNCHANGED <<permits, object, op, target, fd, threw, holds, kernel,
                 interrupts>>

ClearFields(t) ==
  /\ pc[t] = "clear"
  /\ remoteDevice' = NoDevice
  /\ inputStream' = FALSE
  /\ outputStream' = FALSE
  /\ Goto(t, IF op[t] = "connect" THEN "getSocket" ELSE "finally")
  /\ UNCHANGED <<permits, nativeSocket, op, target, fd, threw, holds, kernel,
                 interrupts>>

GetSocketOk(t) ==
  /\ pc[t] = "getSocket"
  /\ \E f \in Fds :
       /\ link[f] = "closed"
       /\ link' = [link EXCEPT ![f] = "unconnected"]
       /\ nativeSocket' = f
  /\ Goto(t, "setSockOpt")
  /\ UNCHANGED <<permits, remoteDevice, streams, op, target, fd, threw, holds,
                 far, inbox, outbox, interrupts>>

\* socket(2) failed: its result is stored before it is tested.
GetSocketFails(t) ==
  /\ pc[t] = "getSocket"
  /\ nativeSocket' = None
  /\ Throw(t)
  /\ UNCHANGED <<permits, remoteDevice, streams, op, target, fd, holds, kernel,
                 interrupts>>

SetSockOptOk(t) ==
  /\ pc[t] = "setSockOpt"
  /\ IsOpen(nativeSocket)
  /\ Goto(t, "nativeConnect")
  /\ UNCHANGED <<permits, object, streams, op, target, fd, threw, holds, kernel,
                 interrupts>>

SetSockOptFails(t) ==
  /\ pc[t] = "setSockOpt"
  /\ Throw(t)
  /\ UNCHANGED <<permits, object, streams, op, target, fd, holds, kernel,
                 interrupts>>

\* nativeConnect reads the descriptor, then blocks in connect(2).
NativeConnectBegin(t) ==
  /\ pc[t] = "nativeConnect"
  /\ fd' = [fd EXCEPT ![t] = nativeSocket]
  /\ Goto(t, "connecting")
  /\ UNCHANGED <<permits, object, streams, op, target, threw, holds, kernel,
                 interrupts>>

NativeConnectOk(t) ==
  /\ pc[t] = "connecting"
  /\ fd[t] \in Fds
  /\ link[fd[t]] = "unconnected"
  /\ link' = [link EXCEPT ![fd[t]] = "connected"]
  /\ far' = [far EXCEPT ![fd[t]] = target[t]]
  /\ Goto(t, "setFields")
  /\ UNCHANGED <<permits, object, streams, op, target, fd, threw, holds, inbox,
                 outbox, interrupts>>

\* Mutant: a connect that fails is tried again at once.
NativeConnectFails_Retry(t) ==
  /\ pc[t] = "connecting"
  /\ Goto(t, "nativeConnect")
  /\ UNCHANGED <<permits, object, streams, op, target, fd, threw, holds, kernel,
                 interrupts>>

\* The descriptor stays in nativeSocket, open and not connected.
NativeConnectFails(t) ==
  /\ pc[t] = "connecting"
  /\ Throw(t)
  /\ UNCHANGED <<permits, object, streams, op, target, fd, holds, kernel,
                 interrupts>>

SetFields(t) ==
  /\ pc[t] = "setFields"
  /\ remoteDevice' = target[t]
  /\ Goto(t, "finally")
  /\ UNCHANGED <<permits, nativeSocket, streams, op, target, fd, threw, holds,
                 kernel, interrupts>>

\* Mutant: the output stream is forgotten.
SetInputStream_Only(t) ==
  /\ pc[t] = "setIn"
  /\ inputStream' = TRUE
  /\ Goto(t, "idle")
  /\ UNCHANGED <<permits, object, outputStream, op, target, fd, threw, holds,
                 kernel, interrupts>>

\* The subclass's connect, after super.connect and outside the lock.
SetInputStream(t) ==
  /\ pc[t] = "setIn"
  /\ inputStream' = TRUE
  /\ Goto(t, "setOut")
  /\ UNCHANGED <<permits, object, outputStream, op, target, fd, threw, holds,
                 kernel, interrupts>>

SetOutputStream(t) ==
  /\ pc[t] = "setOut"
  /\ outputStream' = TRUE
  /\ Goto(t, "idle")
  /\ UNCHANGED <<permits, object, inputStream, op, target, fd, threw, holds,
                 kernel, interrupts>>

-----------------------------------------------------------------------------
(* The streams. *)

\* An empty array, or an offset behind its end: nothing is read or written, and
\* the descriptor is not even looked up.
NativeNothing(t) ==
  /\ pc[t] \in {"nativeRead", "nativeWrite"}
  /\ Goto(t, "finally")
  /\ UNCHANGED <<permits, object, streams, op, target, fd, threw, holds, kernel,
                 interrupts>>

\* Mutant: the semaphore is given back before the read blocks.
NativeReadBegin_Unlocked(t) ==
  /\ pc[t] = "nativeRead"
  /\ fd' = [fd EXCEPT ![t] = nativeSocket]
  /\ permits' = permits + 1
  /\ Goto(t, "reading")
  /\ UNCHANGED <<object, streams, op, target, threw, holds, kernel, interrupts>>

\* nativeRead reads the descriptor, then blocks in read(2).
NativeReadBegin(t) ==
  /\ pc[t] = "nativeRead"
  /\ fd' = [fd EXCEPT ![t] = nativeSocket]
  /\ Goto(t, "reading")
  /\ UNCHANGED <<permits, object, streams, op, target, threw, holds, kernel,
                 interrupts>>

NativeReadOk(t) ==
  /\ pc[t] = "reading"
  /\ fd[t] \in Fds
  /\ inbox[fd[t]] > 0
  /\ inbox' = [inbox EXCEPT ![fd[t]] = @ - 1]
  /\ Goto(t, "finally")
  /\ UNCHANGED <<permits, object, streams, op, target, fd, threw, holds, link,
                 far, outbox, interrupts>>

\* An error or 0 bytes, both of which throw: the far end is gone, or read(2)
\* gives up on a channel that is still there.
NativeReadFails(t) ==
  /\ pc[t] = "reading"
  /\ Throw(t)
  /\ UNCHANGED <<permits, object, streams, op, target, fd, holds, kernel,
                 interrupts>>

\* nativeWrite reads the descriptor, then blocks in write(2).
NativeWriteBegin(t) ==
  /\ pc[t] = "nativeWrite"
  /\ fd' = [fd EXCEPT ![t] = nativeSocket]
  /\ Goto(t, "writing")
  /\ UNCHANGED <<permits, object, streams, op, target, threw, holds, kernel,
                 interrupts>>

\* The kernel has room for the packet, at once or after the far end took one.
NativeWriteOk(t) ==
  /\ pc[t] = "writing"
  /\ fd[t] \in Fds
  /\ link[fd[t]] = "connected"
  /\ outbox[fd[t]] < MaxOutbox
  /\ outbox' = [outbox EXCEPT ![fd[t]] = @ + 1]
  /\ Goto(t, "finally")
  /\ UNCHANGED <<permits, object, streams, op, target, fd, threw, holds, link,
                 far, inbox, interrupts>>

\* For want of a channel, or on one that is there.
NativeWriteFails(t) ==
  /\ pc[t] = "writing"
  /\ Throw(t)
  /\ UNCHANGED <<permits, object, streams, op, target, fd, holds, kernel,
                 interrupts>>

-----------------------------------------------------------------------------
(* The far end of a connected channel. *)

PeerSends(f) ==
  /\ link[f] = "connected"
  /\ inbox[f] < MaxInbox
  /\ inbox' = [inbox EXCEPT ![f] = @ + 1]
  /\ UNCHANGED <<permits, object, streams, thread, link, far, outbox, interrupts>>

PeerReceives(f) ==
  /\ link[f] = "connected"
  /\ outbox[f] > 0
  /\ outbox' = [outbox EXCEPT ![f] = @ - 1]
  /\ UNCHANGED <<permits, object, streams, thread, link, far, inbox, interrupts>>

LinkLost(f) ==
  /\ link[f] = "connected"
  /\ link' = [link EXCEPT ![f] = "lost"]
  /\ UNCHANGED <<permits, object, streams, thread, far, inbox, outbox, interrupts>>

-----------------------------------------------------------------------------
\* What a thread does once it has called a method, until the method ends.
Step(t) ==
  \/ Lock(t) \/ LockInterrupted(t) \/ Release(t)
  \/ NativeCloseOk(t) \/ NativeCloseFails(t) \/ ClearFields(t)
  \/ GetSocketOk(t) \/ GetSocketFails(t)
  \/ SetSockOptOk(t) \/ SetSockOptFails(t)
  \/ NativeConnectBegin(t) \/ NativeConnectOk(t) \/ NativeConnectFails(t)
  \/ SetFields(t) \/ SetInputStream(t) \/ SetOutputStream(t)
  \/ NativeNothing(t)
  \/ NativeReadBegin(t) \/ NativeReadOk(t) \/ NativeReadFails(t)
  \/ NativeWriteBegin(t) \/ NativeWriteOk(t) \/ NativeWriteFails(t)

Invoke(t) ==
  CallConnect(t) \/ CallOther(t) \/ GetInputStream(t) \/ GetOutputStream(t)

Peer(f) == PeerSends(f) \/ PeerReceives(f) \/ LinkLost(f)

Next ==
  \/ \E t \in Threads : Invoke(t) \/ Step(t)
  \/ \E f \in Fds : Peer(f)

Spec == Init /\ [][Next]_vars

\* A call waits in the kernel: for a packet of the far end, or for room.
Blocked(t) ==
  \/ /\ pc[t] = "reading"
     /\ fd[t] \in Fds
     /\ link[fd[t]] = "connected" /\ inbox[fd[t]] = 0
  \/ /\ pc[t] = "writing"
     /\ fd[t] \in Fds
     /\ link[fd[t]] = "connected" /\ outbox[fd[t]] = MaxOutbox

\* A thread that runs keeps running, and the kernel ends a connect(2) one way
\* or the other.  Nothing makes a caller call, nor a far end speak, listen or
\* leave; and a call that is blocked may fail, but need not.
Fairness == \A t \in Threads : WF_vars(~Blocked(t) /\ Step(t))

FairSpec == Spec /\ Fairness

-----------------------------------------------------------------------------
(* Properties.  Those that begin with interrupts = 0 rest on the semaphore,  *)
(* which an interrupted lock() breaks: see OnePermitPerInterrupt.             *)

\* As long as no waiting thread was interrupted, at most one call is between
\* lock() and release(), and the semaphore is free exactly when none is.
MutualExclusion ==
  interrupts = 0 =>
    /\ \A t, u \in Threads : InLock(t) /\ InLock(u) => t = u
    /\ permits = IF \E t \in Threads : InLock(t) THEN 0 ELSE 1

\* What an interrupted lock() does is for ever: the finally block gives back a
\* permit it never took, so with no call under way there is one permit more for
\* each interrupt.
OnePermitPerInterrupt ==
  (\A t \in Threads : ~InLock(t)) => permits = 1 + interrupts

\* No descriptor is leaked, and none is used after it was closed: the open
\* descriptors are the one in nativeSocket, whatever connect, close and their
\* failures did in any thread.
OneDescriptor ==
  interrupts = 0 => {f \in Fds : IsOpen(f)} = {nativeSocket} \ {None}

\* Whenever no call holds the lock, getRemoteDevice tells the device the
\* channel was connected to, and null if there is no connected channel.
RemoteDeviceIsTrue ==
  interrupts = 0 /\ (\A t \in Threads : ~InLock(t)) =>
    remoteDevice = IF nativeSocket = None THEN NoDevice ELSE far[nativeSocket]

\* Once every connect has returned, a connected object has both its streams,
\* even if other threads closed or connected it in between, and even with a
\* semaphore that an interrupt has broken.
ConnectedHasStreams ==
  (\A t \in Threads : ~InLock(t) /\ pc[t] \notin {"setIn", "setOut"})
    /\ remoteDevice # NoDevice
  => inputStream /\ outputStream

\* No other thread closes or replaces the descriptor a call is blocked on.
BlockedOn(t, f) == pc[t] \in {"reading", "writing", "connecting"} /\ fd[t] = f

DescriptorStable ==
  [][\A t \in Threads, f \in Fds :
       interrupts = 0 /\ BlockedOn(t, f) /\ BlockedOn(t, f)' =>
         nativeSocket' = f /\ IsOpen(f)']_vars

\* Every path gives the semaphore back: what may keep it for ever is a read of a
\* channel whose far end is silent, or a write to one that takes nothing.
LockReturned ==
  permits = 0 ~> permits > 0 \/ \E t \in Threads : Blocked(t)

\* Claimed at L2capSocket.java:158-159: close() "causes blocked calls on this
\* socket in other threads to immediately throw an IOException".
CloseUnblocks ==
  \A t, u \in Threads :
    t # u /\ pc[t] \in {"reading", "writing"} /\ pc[u] = "lock" /\ op[u] = "close"
      ~> pc[t] \notin {"reading", "writing"}

=============================================================================
