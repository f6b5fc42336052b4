------------------------------ MODULE HelloJni ------------------------------
(***************************************************************************)
(* hello-jni: the same client behind a JNI method.  The process is a Java  *)
(* virtual machine: the method may be called again, other threads open and *)
(* close files, and the descriptors cs and is are static.  The calls come  *)
(* from onCreate on the one GUI thread, so two of them never overlap: it   *)
(* runs su, makes the call and waits for su.                               *)
(***************************************************************************)
EXTENDS HidLink

CONSTANTS
  FirstKey, LastKey,   \* the loop over key codes: 16..99 in the code
  MaxCalls             \* bound: calls of the method

ASSUME JniAssumption ==
  /\ FirstKey \in Nat \ {0} /\ LastKey \in Nat /\ FirstKey <= LastKey
  /\ MaxCalls \in Nat

VARIABLES
  pc,
  su,          \* the last su: a root shell, "refused", or none
  cs, is,      \* static descriptors, 0 at the start and never reset
  ready,       \* descriptors poll() reported and the loop has not reached
  keycode,
  calls,       \* calls of the method so far
  stray        \* history: a call touched a file of another thread

native == <<cs, is, ready, keycode>>
progVars == <<pc, su, native, calls, stray>>
vars == <<linkVars, progVars>>

Gone == {"exited", "crashed"}

Init ==
  /\ LinkInit
  /\ pc = "idle" /\ su = "none" /\ cs = 0 /\ is = 0 /\ ready = {}
  /\ keycode = FirstKey /\ calls = 0
  /\ stray = FALSE

\* Using d: is it a file that another thread has opened meanwhile?
Touch(d) == stray' = (stray \/ (d \in Fds /\ table[d] = "other"))

\* The process ends and the kernel closes everything it held.
Die(how) ==
  /\ pc' = how
  /\ table' = [f \in Fds |-> "free"]
  /\ up' = [c \in Channels |-> FALSE]

\* The file's own copy of l2cap_connect.
Connect(channel, d) == l2cap_connect(channel, d)

-----------------------------------------------------------------------------
\* onCreate runs su, and calls stringFromJNI unless su is missing, which is an
\* IOException.
onCreate ==
  /\ pc = "idle" /\ calls < MaxCalls
  /\ \/ su' \in {"shell", "refused"} /\ pc' = "control" /\ calls' = calls + 1
     \/ su' = "none" /\ UNCHANGED <<pc, calls>>
  /\ UNCHANGED <<linkVars, native, stray>>

\* while (cs <= 0) cs = l2cap_connect(CTRL): nothing to do in a later call.
ConnectControl ==
  /\ pc = "control"
  /\ \/ cs > 0 /\ pc' = "nop" /\ UNCHANGED <<linkVars, cs>>
     \/ /\ cs <= 0
        /\ \E d \in Fds \cup {NoFd} : Connect("control", d) /\ cs' = d
        /\ pc' = IF cs' <= 0 THEN "control" ELSE "nop"
  /\ UNCHANGED <<su, is, ready, keycode, calls, stray>>

\* send(cs, NOP); its result is only logged.
SendNop ==
  /\ pc = "nop" /\ pc' = "interrupt"
  /\ Touch(cs)
  /\ UNCHANGED <<linkVars, su, native, calls>>

ConnectInterrupt ==
  /\ pc = "interrupt"
  /\ \/ is > 0 /\ pc' = "poll" /\ UNCHANGED <<linkVars, is>>
     \/ /\ is <= 0
        /\ \E d \in Fds \cup {NoFd} : Connect("interrupt", d) /\ is' = d
        /\ pc' = IF is' <= 0 THEN "interrupt" ELSE "poll"
  /\ UNCHANGED <<su, cs, ready, keycode, calls, stray>>

\* Mutant: poll() without a timeout.
Poll_Forever ==
  /\ pc = "poll" /\ pc' = "serve"
  /\ ready' = {f \in {cs, is} : Readable(f)} /\ ready' # {}
  /\ UNCHANGED <<linkVars, su, cs, is, keycode, calls, stray>>

\* poll() for one millisecond.  A file of another thread may be readable; a
\* closed descriptor is reported as POLLNVAL, which the loop does not test.
Poll ==
  /\ pc = "poll"
  /\ \/ /\ \E s \in SUBSET {f \in {cs, is} : table[f] = "other"} :
             ready' = {f \in {cs, is} : Readable(f)} \cup s
        /\ pc' = "serve" /\ UNCHANGED <<table, up>>
     \/ Die("exited") /\ UNCHANGED ready
  /\ UNCHANGED <<inbox, reports, reachable, su, cs, is, keycode, calls,
                 stray>>

\* recv() on the next descriptor.  It may fail on any file, which exits.  A lost
\* link answers 0, which continues the loop.  Data are formatted by
\* sprintf(logmsg[j], ...), a char taken for an address: the process dies before
\* the acknowledgement.
Receive ==
  LET d == IF cs \in ready THEN cs ELSE is
      Continue == pc' = "serve" /\ UNCHANGED <<table, up>> IN
  /\ pc = "serve" /\ ready # {}
  /\ ready' = ready \ {d}
  /\ Touch(d)
  /\ \/ /\ d \in Fds /\ table[d] \in Channels /\ inbox[table[d]] > 0
        /\ inbox' = [inbox EXCEPT ![table[d]] = @ - 1]
        /\ Die("crashed")
     \/ /\ d \in Fds /\ table[d] \in Channels /\ ~up[table[d]]
        /\ Continue /\ UNCHANGED inbox
     \/ /\ d \in Fds /\ table[d] = "other"
        /\ Continue \/ Die("crashed")
        /\ UNCHANGED inbox
     \/ Die("exited") /\ UNCHANGED inbox
  /\ UNCHANGED <<reports, reachable, su, cs, is, keycode, calls>>

Served ==
  /\ pc = "serve" /\ ready = {}
  /\ pc' = "press" /\ keycode' = FirstKey
  /\ UNCHANGED <<linkVars, su, cs, is, ready, calls, stray>>

\* sendChar(code): one report on `is`.  Its result and errno are only logged,
\* whether the channel is gone or the call failed for a moment.
sendChar(code) ==
  /\ \/ CanSend(is, "interrupt") /\ reports' = Append(reports, code)
     \/ UNCHANGED reports
  /\ Touch(is)
  /\ UNCHANGED <<table, up, inbox, reachable, su, cs, is, ready, calls>>

Press ==
  /\ pc = "press" /\ pc' = "release"
  /\ sendChar(keycode)
  /\ UNCHANGED keycode

\* Mutant: the key is pressed twice and never released.
Release_Again ==
  /\ pc = "release"
  /\ sendChar(keycode)
  /\ keycode' = keycode + 1
  /\ pc' = IF keycode' <= LastKey THEN "press" ELSE "closeis"

Release ==
  /\ pc = "release"
  /\ sendChar(0)
  /\ keycode' = keycode + 1
  /\ pc' = IF keycode' <= LastKey THEN "press" ELSE "closeis"

\* close(is); sleep(2); close(cs): other threads run in between.
CloseIs ==
  /\ pc = "closeis" /\ pc' = "closecs"
  /\ CloseFd(is) /\ Touch(is)
  /\ UNCHANGED <<su, native, calls>>

\* Mutant: the second close() closes `is` again.
CloseCs_Is ==
  /\ pc = "closecs" /\ pc' = "waitFor"
  /\ CloseFd(is) /\ Touch(is)
  /\ UNCHANGED <<su, native, calls>>

CloseCs ==
  /\ pc = "closecs" /\ pc' = "waitFor"
  /\ CloseFd(cs) /\ Touch(cs)
  /\ UNCHANGED <<su, native, calls>>

\* p.waitFor(): nothing is written to a root shell, and it does not end.
WaitFor ==
  /\ pc = "waitFor" /\ su = "refused"
  /\ pc' = "idle"
  /\ UNCHANGED <<linkVars, su, native, calls, stray>>

Client ==
  \/ ConnectControl \/ SendNop \/ ConnectInterrupt \/ Poll \/ Receive \/ Served
  \/ Press \/ Release \/ CloseIs \/ CloseCs \/ WaitFor

-----------------------------------------------------------------------------
(* The other threads of the process.                                        *)

OtherOpens ==
  /\ pc \notin Gone
  /\ \E f \in Free : IsLowest(f) /\ table' = [table EXCEPT ![f] = "other"]
  /\ UNCHANGED <<up, inbox, reports, reachable, progVars>>

OtherCloses ==
  /\ \E f \in Fds : table[f] = "other" /\ table' = [table EXCEPT ![f] = "free"]
  /\ UNCHANGED <<up, inbox, reports, reachable, progVars>>

Next ==
  \/ onCreate \/ Client \/ OtherOpens \/ OtherCloses
  \/ Host /\ UNCHANGED progVars

Spec == Init /\ [][Next]_vars

\* The thread in the call runs; nobody has to call, and nobody has to open or
\* close a file.
FairSpec == Spec /\ WF_vars(Client)

-----------------------------------------------------------------------------
(* Properties.                                                              *)

\* The script: every key code pressed and released.
JniScript ==
  [n \in 1..2 * (LastKey - FirstKey + 1) |->
     IF n % 2 = 1 THEN FirstKey + n \div 2 ELSE 0]

\* The place in the script.  Only the first call has one: a later call finds its
\* channels closed.
Position ==
  IF calls > 1 THEN Len(JniScript) + 1
  ELSE 2 * (keycode - FirstKey) + IF pc = "release" THEN 2 ELSE 1

\* Over all its calls the method keeps the promise of KeyboardClient: one
\* session, and no report is sent twice, out of order or after the session.  As
\* sendChar ignores failures (123 to 145), any report may be missing.  A second
\* call starts no second session: cs and is are never reset (481, 505).
Abstract == INSTANCE KeyboardClient
              WITH Script <- JniScript, MaySkip <- TRUE,
                   stage <- Stage(cs, is), next <- Position
TypesTheScript == Abstract!Spec

\* The first call uses and closes its own descriptors only, whatever other
\* threads open in between: only a later call, whose cs and is are the numbers
\* of closed descriptors, can touch a file of another thread.
FirstCallUsesItsOwn == stray => calls > 1

\* If the host accepts connections from some time on, the GUI thread is back from
\* onCreate, or the call has taken the process with it, or the thread waits for
\* a root shell that was granted: with root rights it never comes back (line 56
\* of HelloJni.java).
CallEnds ==
  <>[]reachable /\ <>[](Free # {}) =>
    (pc = "control" ~>
       pc \in {"idle"} \cup Gone \/ (pc = "waitFor" /\ su = "shell"))
=============================================================================
