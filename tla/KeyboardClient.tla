--------------------------- MODULE KeyboardClient ---------------------------
(***************************************************************************)
(* What a program that types into a HID host promises, whatever the host   *)
(* and its own system calls do: one session, whose interrupt channel lives *)
(* inside the life of its control channel, and the reports of its script,  *)
(* each at most once and in their order.  A program that may skip leaves   *)
(* out the reports whose sending failed; one that may not stops at the     *)
(* first of them, so that the host holds a prefix of the script.           *)
(***************************************************************************)
EXTENDS Naturals, Sequences

CONSTANTS
  Script,    \* the reports to send, in order
  MaySkip    \* may a report be left out and the next one sent?

VARIABLES
  stage,    \* how far the session has come
  next,     \* index in Script of the report whose turn it is
  reports   \* what the host has received

Init == stage = "closed" /\ next = 1 /\ reports = <<>>

OpenControl ==
  stage = "closed" /\ stage' = "control" /\ UNCHANGED <<next, reports>>

OpenInterrupt ==
  stage = "control" /\ stage' = "both" /\ UNCHANGED <<next, reports>>

\* The turn of the next report: only with both channels open.
Turn ==
  /\ stage = "both" /\ next <= Len(Script)
  /\ next' = next + 1
  /\ UNCHANGED stage

Deliver == Turn /\ reports' = Append(reports, Script[next])

Skip == MaySkip /\ Turn /\ UNCHANGED reports

CloseInterrupt ==
  stage = "both" /\ stage' = "draining" /\ UNCHANGED <<next, reports>>

CloseControl ==
  stage = "draining" /\ stage' = "over" /\ UNCHANGED <<next, reports>>

\* The process dies with both channels open.
Vanish ==
  stage = "both" /\ stage' = "over" /\ UNCHANGED <<next, reports>>

Next ==
  \/ OpenControl \/ OpenInterrupt \/ Deliver \/ Skip
  \/ CloseInterrupt \/ CloseControl \/ Vanish

Spec == Init /\ [][Next]_<<stage, next, reports>>
=============================================================================
