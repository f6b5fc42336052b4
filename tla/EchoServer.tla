----------------------------- MODULE EchoServer -----------------------------
(***************************************************************************)
(* l2capServer: main.c accepts one client at a time on PSM 0x1001, reads   *)
(* from it once, answers what it has read and closes the connection.       *)
(* Whoever connects is a client here; its side is the including module's.  *)
(***************************************************************************)
EXTENDS Naturals, SequencesExt

CONSTANTS
  Backlog,        \* clients that the kernel keeps for accept
  NoClient,       \* accept has returned nobody
  Ended           \* the client has closed its end

ASSUME EchoServerAssumption == Backlog \in Nat \ {0} /\ NoClient # Ended

VARIABLES
  serverPc,       \* "start", "accept", "read", "write", "close" or "ended"
  backlog,        \* clients that are connected and not accepted
  client,         \* the one that is served
  requests,       \* clients that have written what is not read
  answers         \* clients that have been answered what they have not read

server == <<serverPc, backlog, client, requests, answers>>

ServerInit(point) ==
  /\ serverPc = point
  /\ backlog = <<>> /\ client = NoClient
  /\ requests = {} /\ answers = {}

-----------------------------------------------------------------------------
(* The clients. *)

Listens == serverPc \notin {"start", "ended"} /\ Len(backlog) < Backlog

\* A client closes its end, or loses the link; all do; a client connects.
Gone(c) ==
  /\ backlog' = RemoveFirst(backlog, c)
  /\ client' = IF client = c THEN Ended ELSE client
  /\ requests' = requests \ {c} /\ answers' = answers \ {c}
  /\ UNCHANGED serverPc

AllGone ==
  /\ backlog' = <<>>
  /\ client' = IF client = NoClient THEN NoClient ELSE Ended
  /\ requests' = {} /\ answers' = {}
  /\ UNCHANGED serverPc

Arrive(c) ==
  /\ Listens /\ backlog' = Append(backlog, c)
  /\ UNCHANGED <<serverPc, client, requests, answers>>

Ask(c) ==
  /\ requests' = requests \cup {c}
  /\ UNCHANGED <<serverPc, backlog, client, answers>>

Receive(c) ==
  /\ answers' = answers \ {c}
  /\ UNCHANGED <<serverPc, backlog, client, requests>>

-----------------------------------------------------------------------------
(* main.  Each action drops the clients it disconnects. *)

\* socket, bind and listen; each may fail.
Listen ==
  /\ serverPc = "start"
  /\ serverPc' \in {"accept", "ended"}
  /\ UNCHANGED <<backlog, client, requests, answers>>

Accept ==
  /\ serverPc = "accept" /\ backlog # <<>>
  /\ client' = Head(backlog) /\ backlog' = Tail(backlog)
  /\ serverPc' = "read"
  /\ UNCHANGED <<requests, answers>>

\* A failed accept ends the program.
AcceptFails(dropped) ==
  /\ serverPc = "accept" /\ dropped = Range(backlog)
  /\ serverPc' = "ended" /\ backlog' = <<>>
  /\ requests' = requests \ dropped
  /\ UNCHANGED <<client, answers>>

\* read waits for data, for the end of the client, which is data of no bytes, or
\* for an error.
Read ==
  /\ serverPc = "read"
  /\ \/ client \in requests \cup {Ended} /\ serverPc' = "write"
     \/ serverPc' = "close"
  /\ requests' = requests \ {client}
  /\ UNCHANGED <<backlog, client, answers>>

\* A write that fails is only logged.
Answer ==
  /\ serverPc = "write"
  /\ answers' \in {answers, answers \cup ({client} \ {Ended})}
  /\ serverPc' = "close"
  /\ UNCHANGED <<backlog, client, requests>>

CloseClient(dropped) ==
  /\ serverPc = "close" /\ dropped = {client} \ {Ended}
  /\ serverPc' = "accept" /\ client' = NoClient
  /\ UNCHANGED <<backlog, requests, answers>>
=============================================================================
