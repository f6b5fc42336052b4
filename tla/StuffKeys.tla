----------------------------- MODULE StuffKeys -----------------------------
(***************************************************************************)
(* stuffkeys: connect both channels, retrying for ever, acknowledge what   *)
(* the host has said by then, type a fixed string and exit.  Each system   *)
(* call that can observe the host is a step of its own.                    *)
(***************************************************************************)
EXTENDS HidLink

CONSTANTS
  Keys,       \* KEYS, the string that is typed
  Question,   \* the key of Keys that needs shift
  NoKey       \* 0 in REPORT[4]

ASSUME KeysAssumption ==
  /\ Keys \in Seq(STRING) /\ Len(Keys) > 0
  /\ NoKey \in STRING /\ \A j \in DOMAIN Keys : Keys[j] # NoKey

VARIABLES
  bdaddr_a,   \* an option has named the host
  pc,
  acs, ais,   \* descriptors of the control and of the interrupt channel
  ready,      \* channels poll() reported and the loop has not reached
  k,          \* index in Keys
  report      \* REPORT: byte 2 (shift) and byte 4 (key), static

progVars == <<bdaddr_a, pc, acs, ais, ready, k, report>>
vars == <<linkVars, progVars>>

TypeOK ==
  /\ LinkTypeOK
  /\ bdaddr_a \in BOOLEAN
  /\ pc \in {"main", "control", "interrupt", "poll", "serve", "ack", "press",
             "release", "error", "closing", "exited"}
  /\ acs \in Fds \cup {NoFd} /\ ais \in Fds \cup {NoFd}
  /\ ready \subseteq Channels
  /\ k \in 1..Len(Keys) + 1
  /\ report \in [shift : BOOLEAN, key : STRING]

Init ==
  /\ LinkInit
  /\ bdaddr_a = FALSE
  /\ pc = "main" /\ acs = NoFd /\ ais = NoFd /\ ready = {}
  /\ k = 1 /\ report = [shift |-> FALSE, key |-> NoKey]

-----------------------------------------------------------------------------
\* main counts the options -a and -b together: two of one kind pass.
Main ==
  /\ pc = "main"
  /\ \E a, b \in 0..2 :
       /\ bdaddr_a' = (a > 0)
       /\ pc' = IF a + b < 2 THEN "exited" ELSE "control"
  /\ UNCHANGED <<linkVars, acs, ais, ready, k, report>>

\* while (acs < 0) acs = l2cap_connect(CTRL), with a sleep after a failure.  An
\* address that no option has set is no host's.
ConnectControl ==
  /\ pc = "control"
  /\ \/ bdaddr_a /\ \E d \in Fds \cup {NoFd} : l2cap_connect("control", d) /\ acs' = d
     \/ ~bdaddr_a /\ UNCHANGED <<linkVars, acs>>
  /\ pc' = IF acs' < 0 THEN "control" ELSE "interrupt"
  /\ UNCHANGED <<bdaddr_a, ais, ready, k, report>>

\* The same loop for the interrupt channel; it never looks at acs again.
ConnectInterrupt ==
  /\ pc = "interrupt"
  /\ \E d \in Fds \cup {NoFd} : l2cap_connect("interrupt", d) /\ ais' = d
  /\ pc' = IF ais' < 0 THEN "interrupt" ELSE "poll"
  /\ UNCHANGED <<bdaddr_a, acs, ready, k, report>>

\* Mutant: poll() without a timeout.
Poll_Forever ==
  /\ pc = "poll" /\ pc' = "serve"
  /\ ready' = {table[d] : d \in {f \in {acs, ais} : Readable(f)}}
  /\ ready' # {}
  /\ UNCHANGED <<linkVars, bdaddr_a, acs, ais, k, report>>

\* poll() for one millisecond, once in the life of the program.
Poll ==
  /\ pc = "poll"
  /\ \/ /\ ready' = {table[d] : d \in {f \in {acs, ais} : Readable(f)}}
        /\ pc' = "serve"
     \/ pc' = "error" /\ UNCHANGED ready
  /\ UNCHANGED <<linkVars, bdaddr_a, acs, ais, k, report>>

\* The loop over the two descriptors: recv() on the first one left.  A lost
\* link answers 0 or -1, a message that is queued may still be read, and recv()
\* may fail while the link is there.
Receive ==
  LET c == IF "control" \in ready THEN "control" ELSE "interrupt" IN
  /\ pc = "serve" /\ ready # {}
  /\ ready' = ready \ {c}
  /\ \/ /\ inbox[c] > 0
        /\ inbox' = [inbox EXCEPT ![c] = @ - 1]
        /\ pc' = "ack"
     \/ pc' = "error" /\ UNCHANGED inbox
  /\ UNCHANGED <<table, up, reports, reachable, bdaddr_a, acs, ais, k, report>>

\* Every message is acknowledged on the control channel, pf[0].  A send that
\* fails, for whatever reason, ends the session.
Ack ==
  /\ pc = "ack"
  /\ \/ CanSend(acs, "control") /\ pc' = "serve"
     \/ pc' = "error"
  /\ UNCHANGED <<linkVars, bdaddr_a, acs, ais, ready, k, report>>

Served ==
  /\ pc = "serve" /\ ready = {}
  /\ pc' = "press"
  /\ UNCHANGED <<linkVars, bdaddr_a, acs, ais, ready, k, report>>

\* send(REPORT) on the interrupt channel, with pc and k as they are after a
\* success; any failure goes to the error label.
SendReport(next, index) ==
  /\ \/ /\ CanSend(ais, "interrupt")
        /\ reports' = Append(reports, report')
        /\ pc' = next /\ k' = index
     \/ pc' = "error" /\ UNCHANGED <<reports, k>>
  /\ UNCHANGED <<table, up, inbox, reachable, bdaddr_a, acs, ais, ready>>

\* The shift byte is set for the question mark, and nothing clears it.
Press ==
  /\ pc = "press"
  /\ report' = [shift |-> report.shift \/ Keys[k] = Question, key |-> Keys[k]]
  /\ SendReport("release", k)

Release ==
  /\ pc = "release"
  /\ report' = [report EXCEPT !.key = NoKey]
  /\ SendReport(IF k < Len(Keys) THEN "press" ELSE "error", k + 1)

\* Mutant: the channels are closed in the order they were opened.
CloseInterrupt_ControlFirst ==
  /\ pc = "error" /\ pc' = "closing"
  /\ CloseFd(acs)
  /\ UNCHANGED <<bdaddr_a, acs, ais, ready, k, report>>

\* The label error, which the end of the string falls into: the interrupt
\* channel is closed first, then the control channel, then exit(1).
CloseInterrupt ==
  /\ pc = "error" /\ pc' = "closing"
  /\ CloseFd(ais)
  /\ UNCHANGED <<bdaddr_a, acs, ais, ready, k, report>>

CloseControl ==
  /\ pc = "closing" /\ pc' = "exited"
  /\ CloseFd(acs)
  /\ UNCHANGED <<bdaddr_a, acs, ais, ready, k, report>>

Client ==
  \/ Main \/ ConnectControl \/ ConnectInterrupt \/ Poll \/ Receive \/ Ack \/ Served
  \/ Press \/ Release \/ CloseInterrupt \/ CloseControl

Next == Client \/ (Host /\ UNCHANGED progVars)

Spec == Init /\ [][Next]_vars

\* The program runs when it can: no call waits for the host.
FairSpec == Spec /\ WF_vars(Client)

-----------------------------------------------------------------------------
(* Properties.                                                              *)

\* The script: a press and a release per key, shift from the question mark on.
Shifted(j) == \E m \in 1..j : Keys[m] = Question

StuffScript ==
  [n \in 1..2 * Len(Keys) |->
     LET j == (n + 1) \div 2 IN
     [shift |-> Shifted(j), key |-> IF n % 2 = 1 THEN Keys[j] ELSE NoKey]]

\* stuffkeys.c as a whole keeps the promise of KeyboardClient: the interrupt
\* channel is open only inside the life of the control channel, there is one
\* session, and what the host gets is a prefix of the script, whichever
\* channel breaks, whichever call fails and whenever.
Abstract == INSTANCE KeyboardClient
              WITH Script <- StuffScript, MaySkip <- FALSE,
                   stage <- Stage(acs, ais), next <- Len(reports) + 1
TypesTheScript == Abstract!Spec

\* The retry loops (lines 115-130) hold no descriptor over a failed attempt,
\* however many there are, and the exit leaves none open.
NothingLeaks ==
  /\ \A f \in Fds : table[f] \in Channels => f \in {acs, ais}
  /\ pc = "exited" => Free = Fds

\* If the host accepts connections from some time on, the program ends: no
\* answer and no silence of the host keeps it (poll waits a millisecond).  Only
\* two options -b and no -a, which main lets pass (line 241), keep it for good.
Ends == <>[]reachable => <>(pc = "exited") \/ <>[](pc = "control" /\ ~bdaddr_a)
=============================================================================
