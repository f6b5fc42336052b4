---------------------------- MODULE L2capChannel ---------------------------
(***************************************************************************)
(* What an L2capSocket object promises to the threads that share it: it    *)
(* owns at most one L2CAP channel, a channel is dropped before another is  *)
(* opened, it is connected to one device for its whole life, packets are   *)
(* taken from and given to the channel that is there, and no step of       *)
(* another call touches the channel while a call is blocked in it.  Any    *)
(* call may fail.  An interrupt of a thread that waits for the object      *)
(* breaks it, and nothing is promised of a broken object.                  *)
(***************************************************************************)
EXTENDS Naturals

CONSTANTS Devices, NoDevice, MaxInbox, MaxOutbox

VARIABLES
  state,    \* of the channel: "none", "unconnected", "connected" or "lost"
  device,   \* at the far end of the channel
  waiting,  \* packets the object has not read yet
  unsent,   \* packets of the object the far end has not taken yet
  busy,     \* the blocking call in progress: "no", "connect", "read" or "write"
  broken    \* was a waiting thread interrupted?

chan == <<state, device, waiting, unsent, busy, broken>>

Init ==
  /\ state = "none"
  /\ device = NoDevice
  /\ waiting = 0
  /\ unsent = 0
  /\ busy = "no"
  /\ broken = FALSE

Open ==
  /\ busy = "no"
  /\ state = "none"
  /\ state' = "unconnected"
  /\ UNCHANGED <<device, waiting, unsent, busy>>

\* close(), or the first step of a connect of an object that has a channel.
Drop ==
  /\ busy = "no"
  /\ state # "none"
  /\ state' = "none"
  /\ device' = NoDevice
  /\ waiting' = 0
  /\ unsent' = 0
  /\ UNCHANGED busy

BeginConnect ==
  /\ busy = "no"
  /\ state = "unconnected"
  /\ busy' = "connect"
  /\ UNCHANGED <<state, device, waiting, unsent>>

EndConnect ==
  /\ busy = "connect"
  /\ busy' = "no"
  /\ \/ /\ state' = "connected"
        /\ device' \in Devices
        /\ UNCHANGED <<waiting, unsent>>
     \/ UNCHANGED <<state, device, waiting, unsent>>

BeginRead ==
  /\ busy = "no"
  /\ busy' = "read"
  /\ UNCHANGED <<state, device, waiting, unsent>>

\* A read returns a packet of the channel, or fails.
EndRead ==
  /\ busy = "read"
  /\ busy' = "no"
  /\ \/ /\ waiting > 0
        /\ waiting' = waiting - 1
     \/ UNCHANGED waiting
  /\ UNCHANGED <<state, device, unsent>>

BeginWrite ==
  /\ busy = "no"
  /\ busy' = "write"
  /\ UNCHANGED <<state, device, waiting, unsent>>

\* A write gives its packet to a connected channel, or fails.
EndWrite ==
  /\ busy = "write"
  /\ busy' = "no"
  /\ \/ /\ state = "connected"
        /\ unsent < MaxOutbox
        /\ unsent' = unsent + 1
     \/ UNCHANGED unsent
  /\ UNCHANGED <<state, device, waiting>>

\* The far end speaks, listens or goes away.
Deliver ==
  /\ state = "connected"
  /\ waiting < MaxInbox
  /\ waiting' = waiting + 1
  /\ UNCHANGED <<state, device, unsent, busy>>

Take ==
  /\ state = "connected"
  /\ unsent > 0
  /\ unsent' = unsent - 1
  /\ UNCHANGED <<state, device, waiting, busy>>

Lose ==
  /\ state = "connected"
  /\ state' = "lost"
  /\ UNCHANGED <<device, waiting, unsent, busy>>

Promised ==
  \/ Open \/ Drop
  \/ BeginConnect \/ EndConnect
  \/ BeginRead \/ EndRead
  \/ BeginWrite \/ EndWrite
  \/ Deliver \/ Take \/ Lose

\* Breaking the object, and any step of a broken one.
Break == broken' = TRUE

Next == (Promised /\ broken = FALSE /\ broken' = FALSE) \/ Break

Spec == Init /\ [][Next]_chan
=============================================================================
