------------------------------ MODULE HidLink ------------------------------
(***************************************************************************)
(* The two L2CAP channels of a client that connects to a HID host, as the  *)
(* programs stuffkeys and hello-jni see them: the descriptor table of the  *)
(* process, the call l2cap_connect both programs copied from hidd.c, and a *)
(* host that accepts, refuses, talks and goes away.  The kernel and the    *)
(* host are not code of the repository: they are modelled by what the two  *)
(* programs can observe of them.                                           *)
(***************************************************************************)
EXTENDS Integers, Sequences

CONSTANTS
  MaxFd,        \* descriptors 1..MaxFd can be handed out
  MaxMessages   \* bound: unread messages of the host on one channel

ASSUME LinkAssumption == MaxFd \in Nat /\ MaxMessages \in Nat

VARIABLES
  table,      \* descriptor -> "free", a channel, or "other": of another thread
  up,         \* channel -> does the host hold its end?
  inbox,      \* channel -> messages of the host that nobody has read
  reports,    \* the keyboard reports that reached the host, in order
  reachable   \* would the host accept a connection now?

linkVars == <<table, up, inbox, reports, reachable>>

Channels == {"control", "interrupt"}
Fds == 1..MaxFd
NoFd == -1

Free == {f \in Fds : table[f] = "free"}
IsLowest(f) == f \in Free /\ \A g \in Free : f <= g
IsOpen(c) == \E f \in Fds : table[f] = c

LinkTypeOK ==
  /\ table \in [Fds -> {"free", "other"} \cup Channels]
  /\ up \in [Channels -> BOOLEAN]
  /\ inbox \in [Channels -> 0..MaxMessages]
  /\ reachable \in BOOLEAN

LinkInit ==
  /\ table = [f \in Fds |-> "free"]
  /\ up = [c \in Channels |-> FALSE]
  /\ inbox = [c \in Channels |-> 0]
  /\ reports = <<>>
  /\ reachable \in BOOLEAN

-----------------------------------------------------------------------------
\* Mutant: the failing paths forget close(sk).
l2cap_connect_Leak(c, d) ==
  /\ \E f \in Free :
       /\ IsLowest(f) /\ table' = [table EXCEPT ![f] = c]
       /\ d = IF reachable THEN f ELSE NoFd
  /\ up' = [up EXCEPT ![c] = reachable]
  /\ UNCHANGED <<inbox, reports, reachable>>

(* l2cap_connect(c) returning d: a new socket, bound and connected.  When   *)
(* bind or connect fails the new socket is closed before the call returns.  *)
l2cap_connect(c, d) ==
  \/ /\ reachable /\ IsLowest(d)
     /\ table' = [table EXCEPT ![d] = c]
     /\ up' = [up EXCEPT ![c] = TRUE]
     /\ UNCHANGED <<inbox, reports, reachable>>
  \/ /\ ~reachable \/ Free = {}
     /\ d = NoFd
     /\ UNCHANGED linkVars

\* close(d) of a descriptor of this process.
CloseFd(d) ==
  /\ table' = [table EXCEPT ![d] = "free"]
  /\ up' = [c \in Channels |-> up[c] /\ table[d] # c]
  /\ UNCHANGED <<inbox, reports, reachable>>

\* Can a send on d reach the host on channel c?  It may fail all the same: for
\* want of memory, by a signal, by an error of the device.
CanSend(d, c) == d \in Fds /\ table[d] = c /\ up[c]

\* Does poll() report POLLIN for d?  A message is there or the link is gone.
Readable(d) ==
  /\ d \in Fds /\ table[d] \in Channels
  /\ inbox[table[d]] > 0 \/ ~up[table[d]]

-----------------------------------------------------------------------------
(* The host.                                                                *)

\* SET_PROTOCOL on the control channel, or an LED report on the interrupt one.
HostSends(c) ==
  /\ up[c] /\ inbox[c] < MaxMessages
  /\ inbox' = [inbox EXCEPT ![c] = @ + 1]
  /\ UNCHANGED <<table, up, reports, reachable>>

\* The host closes one channel, or the radio link breaks under it.
HostDrops(c) ==
  /\ up[c]
  /\ up' = [up EXCEPT ![c] = FALSE]
  /\ UNCHANGED <<table, inbox, reports, reachable>>

\* The host, or the adapter, comes or goes for new connections.
HostTurns ==
  /\ reachable' = ~reachable
  /\ UNCHANGED <<table, up, inbox, reports>>

Host ==
  \/ \E c \in Channels : HostSends(c) \/ HostDrops(c)
  \/ HostTurns

-----------------------------------------------------------------------------
(* The stage a session has reached, read off the table and the two          *)
(* descriptors the program keeps: the mapping to KeyboardClient.            *)
Stage(c, i) ==
  CASE IsOpen("control") /\ IsOpen("interrupt") -> "both"
    [] IsOpen("control") /\ ~IsOpen("interrupt") ->
         IF i > 0 THEN "draining" ELSE "control"
    [] ~IsOpen("control") /\ IsOpen("interrupt") -> "interrupt alone"
    [] OTHER -> IF c > 0 THEN "over" ELSE "closed"
=============================================================================
