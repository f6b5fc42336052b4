------------------------- MODULE L2capSocketRefines ------------------------
(***************************************************************************)
(* L2capSocket, whatever its threads do, implements L2capChannel: the      *)
(* channel is the one of the descriptor in nativeSocket, the blocking call *)
(* in progress is the one a thread is in, and the object is broken once a  *)
(* lock() was interrupted.                                                 *)
(***************************************************************************)
EXTENDS L2capSocket

State == IF nativeSocket = None THEN "none" ELSE link[nativeSocket]
Device == IF nativeSocket = None THEN NoDevice ELSE far[nativeSocket]
Waiting == IF nativeSocket = None THEN 0 ELSE inbox[nativeSocket]
Unsent == IF nativeSocket = None THEN 0 ELSE outbox[nativeSocket]

Busy ==
  IF \E t \in Threads : pc[t] = "connecting" THEN "connect"
  ELSE IF \E t \in Threads : pc[t] = "reading" THEN "read"
  ELSE IF \E t \in Threads : pc[t] = "writing" THEN "write"
  ELSE "no"

Channel == INSTANCE L2capChannel
  WITH state <- State, device <- Device, waiting <- Waiting, unsent <- Unsent,
       busy <- Busy, broken <- interrupts > 0

\* No interleaving of connect, close, read and write, nor any failure in them,
\* lets a thread see anything but one channel handled by one call at a time,
\* up to the first interrupt.
ImplementsChannel == Channel!Spec
=============================================================================
