--------------------------- MODULE HelloJniProofs ---------------------------
(***************************************************************************)
(* hello-jni for any descriptors, key codes, hosts and number of calls: it *)
(* implements KeyboardClient, and its first call keeps to its own files.   *)
(* The invariant says, for the first call, which of its two descriptors    *)
(* are channels at each program point; for every later call, that neither  *)
(* is.                                                                     *)
(***************************************************************************)
EXTENDS HelloJni, TLAPS

Connected == {"poll", "serve", "press", "release", "closeis"}
Points == {"idle", "control", "nop", "interrupt", "closecs", "waitFor"} \cup Connected \cup Gone

\* The channels are open on a and i, and nowhere else.
OpenAt(a, i) ==
  \A f \in Fds : /\ (table[f] = "control") <=> (f = a)
                 /\ (table[f] = "interrupt") <=> (f = i)

\* The one session has not begun; it is over.
Unopened == calls = 0 \/ (calls = 1 /\ pc = "control")
Past == calls > 1 \/ (calls = 1 /\ pc \in {"waitFor", "idle"} \cup Gone)

SlotInv ==
  /\ table \in [Fds -> {"free", "other"} \cup Channels]
  /\ calls \in Nat /\ pc \in Points
  /\ calls = 0 => pc = "idle"
  /\ Unopened => cs \in {0, NoFd} /\ is = 0 /\ OpenAt(NoFd, NoFd)
  /\ calls = 1 /\ pc \in {"nop", "interrupt"} =>
       cs \in Fds /\ is \in {0, NoFd} /\ OpenAt(cs, NoFd)
  /\ calls = 1 /\ pc \in Connected => cs \in Fds /\ is \in Fds /\ cs # is /\ OpenAt(cs, is)
  /\ calls = 1 /\ pc = "closecs" => cs \in Fds /\ is \in Fds /\ OpenAt(cs, NoFd)
  /\ Past => cs \in Fds /\ is \in Fds /\ OpenAt(NoFd, NoFd)

StrayInv == stray \in BOOLEAN /\ (stray => calls > 1)

\* Which key the first call has reached.
Early == Unopened \/ (calls = 1 /\ pc \in {"nop", "interrupt", "poll", "serve"})
Typed == calls = 1 /\ pc \in {"closeis", "closecs", "waitFor", "idle"}

KeyInv ==
  /\ keycode \in Nat
  /\ Early => keycode = FirstKey
  /\ calls = 1 /\ pc \in {"press", "release"} => keycode \in FirstKey..LastKey
  /\ Typed => keycode = LastKey + 1

IInv == SlotInv /\ StrayInv /\ KeyInv

-----------------------------------------------------------------------------
(* The descriptors.                                                         *)

LEMMA FdsArePositive == /\ Fds \subseteq Nat \ {0} /\ NoFd = -1
                        /\ NoFd \notin Fds /\ 0 \notin Fds
                        /\ \A f \in Fds : f > 0
BY LinkAssumption DEF Fds, NoFd

\* A free descriptor becomes a channel; a channel is closed.
LEMMA Opened ==
  ASSUME SlotInv, NEW d \in Fds, NEW c \in Channels, table[d] = "free",
         table' = [table EXCEPT ![d] = c]
  PROVE  /\ table' \in [Fds -> {"free", "other"} \cup Channels]
         /\ OpenAt(NoFd, NoFd) /\ c = "control" => OpenAt(d, NoFd)'
         /\ \A a \in Fds : OpenAt(a, NoFd) /\ c = "interrupt" => a # d /\ OpenAt(a, d)'
BY FdsArePositive DEF SlotInv, OpenAt, Channels, NoFd

LEMMA Closed ==
  ASSUME SlotInv, NEW d \in Fds, CloseFd(d)
  PROVE  /\ table' \in [Fds -> {"free", "other"} \cup Channels]
         /\ \A a \in Fds : OpenAt(a, d) /\ a # d => OpenAt(a, NoFd)'
         /\ OpenAt(d, NoFd) => OpenAt(NoFd, NoFd)'
         /\ OpenAt(NoFd, NoFd) => OpenAt(NoFd, NoFd)'
BY FdsArePositive DEF SlotInv, OpenAt, Channels, CloseFd, NoFd

\* The process dies: it has no channel left.
LEMMA Died ==
  ASSUME NEW how \in Gone, Die(how)
  PROVE  /\ table' \in [Fds -> {"free", "other"} \cup Channels]
         /\ OpenAt(NoFd, NoFd)' /\ pc' = how
BY FdsArePositive DEF Die, OpenAt, NoFd

\* Other threads take free descriptors and give back their own.
LEMMA OtherFiles ==
  ASSUME SlotInv, OtherOpens \/ OtherCloses
  PROVE  /\ table' \in [Fds -> {"free", "other"} \cup Channels]
         /\ \A f \in Fds : \A c \in Channels : (table'[f] = c) <=> (table[f] = c)
         /\ UNCHANGED <<up, inbox, reports, reachable, progVars>>
<1>1. PICK f \in Fds : \/ table[f] = "free" /\ table' = [table EXCEPT ![f] = "other"]
                       \/ table[f] = "other" /\ table' = [table EXCEPT ![f] = "free"]
  BY DEF OtherOpens, OtherCloses, Free
<1>2. UNCHANGED <<up, inbox, reports, reachable, progVars>>
  BY DEF OtherOpens, OtherCloses
<1> QED
  BY <1>1, <1>2 DEF SlotInv, Channels

\* The host does not touch the descriptors, nor what it has received.
LEMMA HostFacts == Host => UNCHANGED <<table, reports>>
BY DEF Host, HostSends, HostDrops, HostTurns

-----------------------------------------------------------------------------
(* The stage of KeyboardClient at each point.                               *)

StageAtPc ==
  /\ Unopened => Stage(cs, is) = "closed"
  /\ calls = 1 /\ pc \in {"nop", "interrupt"} => Stage(cs, is) = "control"
  /\ calls = 1 /\ pc \in Connected => Stage(cs, is) = "both"
  /\ calls = 1 /\ pc = "closecs" => Stage(cs, is) = "draining"
  /\ Past => Stage(cs, is) = "over"

LEMMA StageOf == SlotInv => StageAtPc
<1> SUFFICES ASSUME SlotInv PROVE StageAtPc
  OBVIOUS
<1> USE FdsArePositive
<1>1. OpenAt(NoFd, NoFd) => ~IsOpen("control") /\ ~IsOpen("interrupt")
  BY DEF OpenAt, IsOpen
<1>2. \A a \in Fds : OpenAt(a, NoFd) => IsOpen("control") /\ ~IsOpen("interrupt")
  BY DEF OpenAt, IsOpen
<1>3. \A a, i \in Fds : OpenAt(a, i) => IsOpen("control") /\ IsOpen("interrupt")
  BY DEF OpenAt, IsOpen
<1>4. Unopened => Stage(cs, is) = "closed"
  BY <1>1 DEF SlotInv, Stage
<1>5. calls = 1 /\ pc \in {"nop", "interrupt"} => Stage(cs, is) = "control"
  BY <1>2 DEF SlotInv, Stage
<1>6. calls = 1 /\ pc \in Connected => Stage(cs, is) = "both"
  BY <1>3 DEF SlotInv, Stage
<1>7. calls = 1 /\ pc = "closecs" => Stage(cs, is) = "draining"
  BY <1>2 DEF SlotInv, Stage
<1>8. Past => Stage(cs, is) = "over"
  BY <1>1 DEF SlotInv, Stage
<1> QED
  BY <1>4, <1>5, <1>6, <1>7, <1>8 DEF StageAtPc

-----------------------------------------------------------------------------
(* The invariant.                                                           *)

LEMMA InitIInv == Init => IInv
<1> SUFFICES ASSUME Init PROVE IInv
  OBVIOUS
<1>1. table = [f \in Fds |-> "free"] /\ up = [c \in Channels |-> FALSE] /\ reports = <<>>
  BY DEF Init, LinkInit
<1>2. pc = "idle" /\ cs = 0 /\ is = 0 /\ calls = 0 /\ keycode = FirstKey /\ stray = FALSE
  BY DEF Init
<1>3. SlotInv
  BY <1>1, <1>2, FdsArePositive DEF SlotInv, OpenAt, Points, Unopened, Past
<1>4. KeyInv
  BY <1>1, <1>2, JniAssumption DEF KeyInv, Early, Typed, Unopened
<1> QED
  BY <1>2, <1>3, <1>4 DEF IInv, StrayInv

\* The descriptors at every step.
LEMMA SlotStep ==
  ASSUME SlotInv, [Next]_vars
  PROVE  SlotInv'
<1> USE FdsArePositive DEF Points, Connected, Gone, Unopened, Past
<1>0. /\ table \in [Fds -> {"free", "other"} \cup Channels]
      /\ calls \in Nat /\ pc \in Points
      /\ calls = 0 => pc = "idle"
  BY DEF SlotInv
<1>1. CASE onCreate
  <2>1. /\ pc = "idle" /\ UNCHANGED <<table, cs, is>>
        /\ (pc' = "control" /\ calls' = calls + 1) \/ UNCHANGED <<pc, calls>>
    BY <1>1 DEF onCreate, linkVars, native
  <2> QED
    BY <1>0, <2>1 DEF SlotInv, OpenAt
<1>2. CASE ConnectControl
  <2>1. pc = "control" /\ calls \in Nat \ {0} /\ UNCHANGED <<is, calls>>
    BY <1>0, <1>2 DEF ConnectControl
  <2>2. CASE cs > 0 /\ pc' = "nop" /\ UNCHANGED <<table, cs>>
    BY <1>0, <2>1, <2>2 DEF SlotInv, OpenAt
  <2>3. CASE /\ cs <= 0 /\ pc' = (IF cs' <= 0 THEN "control" ELSE "nop")
             /\ \E d \in Fds \cup {NoFd} : Connect("control", d) /\ cs' = d
    <3>1. calls = 1 /\ OpenAt(NoFd, NoFd) /\ is = 0
      <4>1. ~(calls > 1)
        <5>1. calls > 1 => cs \in Fds
          BY DEF SlotInv
        <5>2. calls > 1 => cs \in Nat /\ cs > 0
          BY <5>1
        <5> QED
          BY <1>0, <2>3, <5>1, <5>2
      <4> QED
        BY <1>0, <2>1, <4>1 DEF SlotInv
    <3>2. CASE cs' = NoFd /\ UNCHANGED table
      BY <1>0, <2>1, <2>3, <3>1, <3>2 DEF SlotInv, OpenAt
    <3>3. CASE cs' \in Fds /\ table[cs'] = "free" /\ table' = [table EXCEPT ![cs'] = "control"]
      <4>1. /\ table' \in [Fds -> {"free", "other"} \cup Channels]
            /\ OpenAt(cs, NoFd)'
        BY <3>1, <3>3, Opened DEF Channels, OpenAt
      <4> QED
        BY <1>0, <2>1, <2>3, <3>1, <3>3, <4>1 DEF SlotInv
    <3> QED
      BY <2>3, <3>2, <3>3 DEF Connect, l2cap_connect, IsLowest, Free, linkVars
  <2> QED
    BY <1>2, <2>2, <2>3 DEF ConnectControl, linkVars
<1>3. CASE ConnectInterrupt
  <2>1. pc = "interrupt" /\ calls \in Nat \ {0} /\ UNCHANGED <<cs, calls>>
    BY <1>0, <1>3 DEF ConnectInterrupt
  <2>2. CASE is > 0 /\ pc' = "poll" /\ UNCHANGED <<table, is>>
    <3>1. calls > 1
      BY <1>0, <2>1, <2>2 DEF SlotInv
    <3> QED
      BY <1>0, <2>1, <2>2, <3>1 DEF SlotInv, OpenAt
  <2>3. CASE /\ is <= 0 /\ pc' = (IF is' <= 0 THEN "interrupt" ELSE "poll")
             /\ \E d \in Fds \cup {NoFd} : Connect("interrupt", d) /\ is' = d
    <3>1. calls = 1 /\ cs \in Fds /\ OpenAt(cs, NoFd)
      <4>1. ~(calls > 1)
        <5>1. calls > 1 => is \in Fds
          BY DEF SlotInv
        <5>2. calls > 1 => is \in Nat /\ is > 0
          BY <5>1
        <5> QED
          BY <1>0, <2>3, <5>1, <5>2
      <4> QED
        BY <1>0, <2>1, <4>1 DEF SlotInv
    <3>2. CASE is' = NoFd /\ UNCHANGED table
      BY <1>0, <2>1, <2>3, <3>1, <3>2 DEF SlotInv, OpenAt
    <3>3. CASE is' \in Fds /\ table[is'] = "free" /\ table' = [table EXCEPT ![is'] = "interrupt"]
      <4>1. /\ table' \in [Fds -> {"free", "other"} \cup Channels]
            /\ cs # is' /\ OpenAt(cs, is)'
        <5>1. PICK d \in Fds : d = is'
          BY <3>3
        <5>2. table[d] = "free" /\ table' = [table EXCEPT ![d] = "interrupt"]
          BY <3>3, <5>1
        <5>3. table' \in [Fds -> {"free", "other"} \cup Channels] /\ cs # d
              /\ \A f \in Fds : /\ (table'[f] = "control") <=> (f = cs)
                                /\ (table'[f] = "interrupt") <=> (f = d)
          BY <1>0, <3>1, <5>2 DEF Channels, OpenAt
        <5> QED
          BY <2>1, <5>1, <5>3 DEF OpenAt
      <4> QED
        BY <1>0, <2>1, <2>3, <3>1, <3>3, <4>1 DEF SlotInv
    <3> QED
      BY <2>3, <3>2, <3>3 DEF Connect, l2cap_connect, IsLowest, Free, linkVars
  <2> QED
    BY <1>3, <2>2, <2>3 DEF ConnectInterrupt, linkVars
<1>4. ASSUME pc \in Connected, UNCHANGED <<cs, is, calls>>, NEW how \in Gone, Die(how)
      PROVE  SlotInv'
  <2>1. calls > 0 /\ cs \in Fds /\ is \in Fds
    BY <1>0, <1>4 DEF SlotInv
  <2>2. /\ table' \in [Fds -> {"free", "other"} \cup Channels]
        /\ OpenAt(NoFd, NoFd)' /\ pc' = how
    BY <1>4, Died
  <2> QED
    BY <1>0, <1>4, <2>1, <2>2 DEF SlotInv
<1>5. ASSUME pc \in Connected, pc' \in Connected, UNCHANGED <<table, cs, is, calls>>
      PROVE  SlotInv'
  BY <1>0, <1>5 DEF SlotInv, OpenAt
<1>6. CASE SendNop
  BY <1>0, <1>6 DEF SendNop, linkVars, native, SlotInv, OpenAt
<1>7. CASE Poll \/ Receive
  <2>1. pc \in Connected /\ UNCHANGED <<cs, is, calls>>
    BY <1>7 DEF Poll, Receive
  <2>2. (\E how \in Gone : Die(how)) \/ (pc' = "serve" /\ UNCHANGED table)
    BY <1>7 DEF Poll, Receive
  <2> QED
    BY <1>4, <1>5, <2>1, <2>2
<1>8. CASE Served \/ Press
  BY <1>5, <1>8 DEF Served, Press, sendChar, linkVars
<1>9. CASE Release
  <2>1. pc = "release" /\ pc' \in {"press", "closeis"} /\ UNCHANGED <<table, cs, is, calls>>
    BY <1>9 DEF Release, sendChar
  <2> QED
    BY <1>5, <2>1
<1>10. CASE CloseIs
  <2>1. pc = "closeis" /\ pc' = "closecs" /\ CloseFd(is) /\ UNCHANGED <<cs, is, calls>>
    BY <1>10 DEF CloseIs, native
  <2>2. calls > 0 /\ cs \in Fds /\ is \in Fds
    BY <1>0, <2>1 DEF SlotInv
  <2>3. table' \in [Fds -> {"free", "other"} \cup Channels]
    BY <2>1, <2>2, Closed
  <2>4. CASE calls = 1
    <3>1. OpenAt(cs, is) /\ cs # is
      BY <2>1, <2>4 DEF SlotInv
    <3>2. OpenAt(cs, NoFd)'
      BY <2>1, <2>2, <3>1, Closed DEF OpenAt
    <3> QED
      BY <1>0, <2>1, <2>2, <2>3, <2>4, <3>2 DEF SlotInv
  <2>5. CASE calls > 1
    <3>1. OpenAt(NoFd, NoFd)'
      BY <2>1, <2>2, <2>5, Closed DEF SlotInv
    <3> QED
      BY <1>0, <2>1, <2>2, <2>3, <2>5, <3>1 DEF SlotInv
  <2> QED
    BY <1>0, <2>2, <2>4, <2>5
<1>11. CASE CloseCs
  <2>1. pc = "closecs" /\ pc' = "waitFor" /\ CloseFd(cs) /\ UNCHANGED <<cs, is, calls>>
    BY <1>11 DEF CloseCs, native
  <2>2. calls > 0 /\ cs \in Fds /\ is \in Fds /\ (OpenAt(cs, NoFd) \/ OpenAt(NoFd, NoFd))
    BY <1>0, <2>1 DEF SlotInv
  <2>3. table' \in [Fds -> {"free", "other"} \cup Channels] /\ OpenAt(NoFd, NoFd)'
    BY <2>1, <2>2, Closed
  <2> QED
    BY <1>0, <2>1, <2>2, <2>3 DEF SlotInv
<1>12. CASE WaitFor
  BY <1>0, <1>12 DEF WaitFor, linkVars, native, SlotInv, OpenAt
<1>13. CASE OtherOpens \/ OtherCloses
  <2>1. UNCHANGED <<pc, cs, is, calls>>
    BY <1>13, OtherFiles DEF progVars, native
  <2>2. \A a, i \in Fds \cup {NoFd} : OpenAt(a, i) => OpenAt(a, i)'
    BY <1>13, OtherFiles DEF OpenAt, Channels
  <2>3. table' \in [Fds -> {"free", "other"} \cup Channels]
    BY <1>13, OtherFiles
  <2> QED
    BY <1>0, <2>1, <2>2, <2>3 DEF SlotInv
<1>14. CASE (Host /\ UNCHANGED progVars) \/ UNCHANGED vars
  <2>1. UNCHANGED <<table, pc, cs, is, calls>>
    BY <1>14 DEF Host, HostSends, HostDrops, HostTurns, progVars, native, vars, linkVars
  <2> QED
    BY <1>0, <2>1 DEF SlotInv, OpenAt
<1> QED
  BY <1>1, <1>2, <1>3, <1>6, <1>7, <1>8, <1>9, <1>10, <1>11, <1>12, <1>13, <1>14
     DEF Next, Client

\* The key codes at every step.
LEMMA KeyStep ==
  ASSUME SlotInv, KeyInv, [Next]_vars
  PROVE  KeyInv'
<1>0. /\ keycode \in Nat /\ calls \in Nat /\ (calls = 0 => pc = "idle")
      /\ FirstKey \in Nat /\ LastKey \in Nat /\ FirstKey <= LastKey
  BY JniAssumption DEF KeyInv, SlotInv
<1> USE DEF KeyInv, Early, Typed, Unopened, Gone
\* A step that stays on one side of the loop over the keys.
<1>1. ASSUME UNCHANGED keycode, pc' \notin {"press", "release"},
             Early' => Early, Typed' => Typed
      PROVE  KeyInv'
  BY <1>0, <1>1
<1>2. CASE onCreate
  <2>1. /\ pc = "idle" /\ UNCHANGED keycode
        /\ (pc' = "control" /\ calls' = calls + 1) \/ UNCHANGED <<pc, calls>>
    BY <1>2 DEF onCreate, native
  <2> QED
    BY <1>0, <1>1, <2>1
<1>3. CASE ConnectControl \/ ConnectInterrupt \/ SendNop
  <2>1. /\ pc \in {"control", "nop", "interrupt"} /\ pc' \in {"control", "nop", "interrupt", "poll"}
        /\ UNCHANGED <<keycode, calls>>
    BY <1>3 DEF ConnectControl, ConnectInterrupt, SendNop, native
  <2> QED
    BY <1>0, <1>1, <2>1
<1>4. CASE Poll \/ Receive
  <2>1. /\ pc \in {"poll", "serve"} /\ pc' \in {"serve"} \cup Gone
        /\ UNCHANGED <<keycode, calls>>
    BY <1>4 DEF Poll, Receive, Die
  <2> QED
    BY <1>0, <1>1, <2>1
<1>5. CASE Served
  BY <1>0, <1>5 DEF Served
<1>6. CASE Press
  BY <1>0, <1>6 DEF Press, sendChar
<1>7. CASE Release
  <2>1. /\ pc = "release" /\ keycode' = keycode + 1 /\ UNCHANGED calls
        /\ pc' = IF keycode' <= LastKey THEN "press" ELSE "closeis"
    BY <1>7 DEF Release, sendChar
  <2> QED
    BY <1>0, <2>1
<1>8. CASE CloseIs \/ CloseCs \/ WaitFor
  <2>1. /\ pc \in {"closeis", "closecs", "waitFor"} /\ pc' \in {"closecs", "waitFor", "idle"}
        /\ UNCHANGED <<keycode, calls>>
    BY <1>8 DEF CloseIs, CloseCs, WaitFor, native
  <2> QED
    BY <1>0, <1>1, <2>1
<1>9. CASE OtherOpens \/ OtherCloses \/ (Host /\ UNCHANGED progVars) \/ UNCHANGED vars
  <2>1. UNCHANGED <<pc, calls, keycode>>
    BY <1>9, OtherFiles DEF progVars, native, vars
  <2> QED
    BY <1>0, <2>1
<1> QED
  BY <1>2, <1>3, <1>4, <1>5, <1>6, <1>7, <1>8, <1>9 DEF Next, Client

\* In the first call the descriptors it uses are its own channels.
LEMMA StrayStep ==
  ASSUME SlotInv, StrayInv, [Next]_vars
  PROVE  StrayInv'
<1>0. calls \in Nat /\ stray \in BOOLEAN /\ (stray => calls > 1) /\ (calls = 0 => pc = "idle")
  BY DEF SlotInv, StrayInv
<1>1. ASSUME NEW d, d = cs \/ d = is, Touch(d), UNCHANGED calls, pc # "idle",
             calls = 1 => d \in Fds /\ table[d] \in Channels
      PROVE  StrayInv'
  BY <1>0, <1>1 DEF StrayInv, Touch, Channels
<1>2. ASSUME UNCHANGED stray, calls' = calls \/ calls' = calls + 1
      PROVE  StrayInv'
  BY <1>0, <1>2 DEF StrayInv
<1>3. CASE SendNop
  <2>1. pc = "nop" /\ Touch(cs) /\ UNCHANGED calls
    BY <1>3 DEF SendNop
  <2> QED
    BY <1>1, <2>1 DEF SlotInv, OpenAt, Channels
<1>4. CASE Receive
  <2>1. pc = "serve" /\ Touch(IF cs \in ready THEN cs ELSE is) /\ UNCHANGED calls
    BY <1>4 DEF Receive
  <2>2. calls = 1 => \A d \in {cs, is} : d \in Fds /\ table[d] \in Channels
    BY <2>1 DEF SlotInv, OpenAt, Connected, Channels
  <2> QED
    BY <1>1, <2>1, <2>2
<1>5. CASE Press \/ Release
  <2>1. pc \in Connected /\ pc # "idle" /\ Touch(is) /\ UNCHANGED calls
    BY <1>5 DEF Press, Release, sendChar, Connected
  <2>2. calls = 1 => is \in Fds /\ table[is] \in Channels
    BY <2>1 DEF SlotInv, OpenAt, Channels
  <2> QED
    BY <1>1, <2>1, <2>2
<1>6. CASE CloseIs
  <2>1. pc = "closeis" /\ Touch(is) /\ UNCHANGED calls
    BY <1>6 DEF CloseIs
  <2> QED
    BY <1>1, <2>1 DEF SlotInv, OpenAt, Connected, Channels
<1>7. CASE CloseCs
  <2>1. pc = "closecs" /\ Touch(cs) /\ UNCHANGED calls
    BY <1>7 DEF CloseCs
  <2> QED
    BY <1>1, <2>1 DEF SlotInv, OpenAt, Channels
<1>8. CASE onCreate \/ ConnectControl \/ ConnectInterrupt \/ Poll \/ Served \/ WaitFor
  BY <1>2, <1>8 DEF onCreate, ConnectControl, ConnectInterrupt, Poll, Served, WaitFor
<1>9. CASE OtherOpens \/ OtherCloses
  BY <1>2, <1>9, OtherFiles DEF progVars
<1>10. CASE (Host /\ UNCHANGED progVars) \/ UNCHANGED vars
  BY <1>2, <1>10 DEF progVars, vars
<1> QED
  BY <1>3, <1>4, <1>5, <1>6, <1>7, <1>8, <1>9, <1>10 DEF Next, Client

-----------------------------------------------------------------------------
(* The theorems.                                                            *)

LEMMA Invariance == Spec => []IInv
<1>1. IInv /\ [Next]_vars => IInv'
  BY SlotStep, KeyStep, StrayStep DEF IInv
<1> QED
  BY InitIInv, <1>1, PTL DEF Spec

\* However many files other threads open and close meanwhile, the first call
\* sends on, reads and closes its own descriptors only (hello-jni.c 481 to 568).
THEOREM FirstCallIsClean == Spec => []FirstCallUsesItsOwn
<1>1. IInv => FirstCallUsesItsOwn
  BY DEF IInv, StrayInv, FirstCallUsesItsOwn
<1> QED
  BY <1>1, Invariance, PTL

\* The reports of the script.
LEMMA ScriptValues ==
  /\ Len(JniScript) = 2 * (LastKey - FirstKey + 1)
  /\ \A code \in FirstKey..LastKey :
       /\ JniScript[2 * (code - FirstKey) + 1] = code
       /\ JniScript[2 * (code - FirstKey) + 2] = 0
       /\ 2 * (code - FirstKey) + 1 < Len(JniScript)
<1>0. /\ FirstKey \in Nat /\ LastKey \in Nat /\ FirstKey <= LastKey
      /\ LastKey - FirstKey + 1 \in Nat
  BY JniAssumption
<1>1. Len(JniScript) = 2 * (LastKey - FirstKey + 1)
  BY <1>0 DEF JniScript
<1>2. ASSUME NEW code \in FirstKey..LastKey
      PROVE  /\ JniScript[2 * (code - FirstKey) + 1] = code
             /\ JniScript[2 * (code - FirstKey) + 2] = 0
             /\ 2 * (code - FirstKey) + 1 < Len(JniScript)
  <2> DEFINE m == code - FirstKey
  <2>1. m \in Nat /\ m <= LastKey - FirstKey
    BY <1>0
  <2>2. /\ 2 * m + 1 \in 1..2 * (LastKey - FirstKey + 1)
        /\ 2 * m + 2 \in 1..2 * (LastKey - FirstKey + 1)
        /\ (2 * m + 1) % 2 = 1 /\ (2 * m + 2) % 2 = 0 /\ (2 * m + 1) \div 2 = m
    BY <1>0, <2>1
  <2>3. JniScript[2 * m + 1] = FirstKey + m /\ JniScript[2 * m + 2] = 0
    BY <2>2 DEF JniScript
  <2> QED
    BY <1>0, <1>1, <2>1, <2>2, <2>3
<1> QED
  BY <1>1, <1>2

\* A press and a release are the turns of their reports, sent or not.
LEMMA KeyIsNext ==
  ASSUME KeyInv, calls = 1, Press \/ Release,
         Stage(cs, is) = "both", Stage(cs, is)' = "both"
  PROVE  Abstract!Deliver \/ Abstract!Skip
<1>1. /\ pc \in {"press", "release"} /\ keycode \in FirstKey..LastKey /\ UNCHANGED calls
  BY DEF KeyInv, Press, Release, sendChar
<1>2. /\ JniScript[2 * (keycode - FirstKey) + 1] = keycode
      /\ JniScript[2 * (keycode - FirstKey) + 2] = 0
      /\ 2 * (keycode - FirstKey) + 1 < Len(JniScript)
  BY <1>1, ScriptValues
<1>3. FirstKey \in Nat /\ LastKey \in Nat /\ keycode \in Nat /\ Len(JniScript) \in Nat
  BY <1>1, JniAssumption, ScriptValues
<1>4. /\ Position \in Nat /\ Position <= Len(JniScript) /\ Position' = Position + 1
      /\ JniScript[Position] = IF pc = "press" THEN keycode ELSE 0
  <2>1. CASE Press
    <3>1. pc = "press" /\ pc' = "release" /\ keycode' = keycode
      BY <2>1 DEF Press
    <3>2. Position = 2 * (keycode - FirstKey) + 1 /\ Position' = 2 * (keycode - FirstKey) + 2
      BY <1>1, <3>1 DEF Position
    <3> QED
      BY <1>1, <1>2, <1>3, <3>1, <3>2
  <2>2. CASE Release
    <3>1. pc = "release" /\ pc' \in {"press", "closeis"} /\ keycode' = keycode + 1
      BY <2>2 DEF Release
    <3>2. Position = 2 * (keycode - FirstKey) + 2
          /\ Position' = 2 * ((keycode + 1) - FirstKey) + 1
      BY <1>1, <3>1 DEF Position
    <3> QED
      BY <1>1, <1>2, <1>3, <3>1, <3>2
  <2> QED
    BY <2>1, <2>2
<1>5. \/ reports' = Append(reports, IF pc = "press" THEN keycode ELSE 0)
      \/ UNCHANGED reports
  BY DEF Press, Release, sendChar
<1> QED
  BY <1>4, <1>5 DEF Abstract!Deliver, Abstract!Skip, Abstract!Turn

\* Over all its calls hello-jni implements KeyboardClient: one session, the
\* interrupt channel inside the life of the control channel, and no report sent
\* twice or out of order.  sendChar ignores failures, so any report may be missing.
THEOREM Implements == Spec => TypesTheScript
<1>1. Init => Abstract!Init
  <2> SUFFICES ASSUME Init PROVE Abstract!Init
    OBVIOUS
  <2>1. StageAtPc /\ Unopened /\ keycode = FirstKey /\ calls = 0 /\ pc = "idle"
    BY InitIInv, StageOf DEF IInv, Init, Unopened
  <2>2. Position = 1
    BY <2>1, JniAssumption DEF Position
  <2> QED
    BY <2>1, <2>2 DEF Abstract!Init, Init, LinkInit, StageAtPc
<1>2. IInv /\ IInv' /\ [Next]_vars => [Abstract!Next]_<<Stage(cs, is), Position, reports>>
  <2> SUFFICES ASSUME IInv, IInv', [Next]_vars
               PROVE  [Abstract!Next]_<<Stage(cs, is), Position, reports>>
    OBVIOUS
  <2> USE DEF Unopened, Past, Connected, Gone
  <2>0. /\ calls \in Nat /\ (calls = 0 => pc = "idle") /\ pc \in Points
        /\ calls' \in Nat /\ (calls' = 0 => pc' = "idle") /\ pc' \in Points
        /\ StageAtPc /\ StageAtPc'
    <3>1. StageAtPc /\ StageAtPc'
      BY StageOf, PTL DEF IInv
    <3> QED
      BY <3>1 DEF IInv, SlotInv
  \* Whatever a later call does, the session is over and the host gets nothing.
  <2>1. ASSUME calls > 1, calls' = calls, UNCHANGED reports
        PROVE  [Abstract!Next]_<<Stage(cs, is), Position, reports>>
    BY <2>0, <2>1 DEF StageAtPc, Position
  \* A step of the first call that does not come near the keys.
  <2>2. ASSUME UNCHANGED <<calls, keycode>>, pc # "release", pc' # "release"
        PROVE  UNCHANGED Position
    BY <2>2 DEF Position
  <2>3. CASE onCreate
    <3>1. /\ pc = "idle" /\ UNCHANGED <<reports, keycode>>
          /\ (pc' = "control" /\ calls' = calls + 1) \/ UNCHANGED <<pc, calls>>
      BY <2>3 DEF onCreate, linkVars, native
    <3>2. UNCHANGED Position
      <4>1. calls = 1 => keycode = LastKey + 1
        BY <3>1 DEF IInv, KeyInv, Typed
      <4>2. FirstKey \in Nat /\ LastKey \in Nat /\ Len(JniScript) = 2 * (LastKey - FirstKey + 1)
        BY JniAssumption, ScriptValues
      <4> QED
        BY <2>0, <3>1, <4>1, <4>2 DEF Position
    <3> QED
      BY <2>0, <3>1, <3>2 DEF StageAtPc
  <2>4. CASE ConnectControl
    <3>1. pc = "control" /\ pc' \in {"control", "nop"} /\ UNCHANGED <<reports, calls, keycode>>
      BY <2>4 DEF ConnectControl, Connect, l2cap_connect, linkVars
    <3> QED
      BY <2>0, <2>1, <2>2, <3>1 DEF StageAtPc, Abstract!Next, Abstract!OpenControl
  <2>5. CASE SendNop
    <3>1. pc = "nop" /\ pc' = "interrupt" /\ UNCHANGED <<reports, calls, keycode>>
      BY <2>5 DEF SendNop, linkVars, native
    <3> QED
      BY <2>0, <2>1, <2>2, <3>1 DEF StageAtPc
  <2>6. CASE ConnectInterrupt
    <3>1. pc = "interrupt" /\ pc' \in {"interrupt", "poll"} /\ UNCHANGED <<reports, calls, keycode>>
      BY <2>6 DEF ConnectInterrupt, Connect, l2cap_connect, linkVars
    <3> QED
      BY <2>0, <2>1, <2>2, <3>1 DEF StageAtPc, Abstract!Next, Abstract!OpenInterrupt
  <2>7. CASE Poll \/ Receive
    <3>1. /\ pc \in {"poll", "serve"} /\ pc' \in {"serve"} \cup Gone
          /\ UNCHANGED <<reports, calls, keycode>>
      BY <2>7 DEF Poll, Receive, Die
    <3> QED
      BY <2>0, <2>1, <2>2, <3>1 DEF StageAtPc, Abstract!Next, Abstract!Vanish
  <2>8. CASE Served
    <3>1. pc = "serve" /\ pc' = "press" /\ UNCHANGED <<reports, calls>> /\ keycode' = FirstKey
      BY <2>8 DEF Served, linkVars
    <3>2. calls = 1 => keycode = FirstKey
      BY <3>1 DEF IInv, KeyInv, Early
    <3>3. CASE calls = 1
      BY <2>0, <2>2, <3>1, <3>2, <3>3 DEF StageAtPc
    <3> QED
      BY <2>0, <2>1, <3>1, <3>3
  <2>9. CASE Press \/ Release
    <3>1. pc \in {"press", "release"} /\ pc' \in {"press", "release", "closeis"}
          /\ UNCHANGED calls
      BY <2>9 DEF Press, Release, sendChar
    <3>2. CASE calls = 1
      <4>1. Stage(cs, is) = "both" /\ Stage(cs, is)' = "both"
        BY <2>0, <3>1, <3>2 DEF StageAtPc
      <4> QED
        BY <2>9, <3>2, <4>1, KeyIsNext DEF IInv, Abstract!Next
    <3>3. CASE calls > 1
      <4>1. ~CanSend(is, "interrupt")
        BY <3>3 DEF IInv, SlotInv, OpenAt, CanSend, NoFd, Fds
      <4>2. UNCHANGED reports
        BY <2>9, <4>1 DEF Press, Release, sendChar
      <4> QED
        BY <2>1, <3>1, <3>3, <4>2
    <3> QED
      BY <2>0, <3>1, <3>2, <3>3
  <2>10. CASE CloseIs
    <3>1. pc = "closeis" /\ pc' = "closecs" /\ UNCHANGED <<reports, calls, keycode>>
      BY <2>10 DEF CloseIs, CloseFd, native
    <3> QED
      BY <2>0, <2>1, <2>2, <3>1 DEF StageAtPc, Abstract!Next, Abstract!CloseInterrupt
  <2>11. CASE CloseCs
    <3>1. pc = "closecs" /\ pc' = "waitFor" /\ UNCHANGED <<reports, calls, keycode>>
      BY <2>11 DEF CloseCs, CloseFd, native
    <3> QED
      BY <2>0, <2>1, <2>2, <3>1 DEF StageAtPc, Abstract!Next, Abstract!CloseControl
  <2>12. CASE WaitFor
    <3>1. pc = "waitFor" /\ pc' = "idle" /\ UNCHANGED <<reports, calls, keycode>>
      BY <2>12 DEF WaitFor, linkVars, native
    <3> QED
      BY <2>0, <2>1, <2>2, <3>1 DEF StageAtPc
  <2>13. CASE OtherOpens \/ OtherCloses \/ (Host /\ UNCHANGED progVars) \/ UNCHANGED vars
    <3>1. UNCHANGED <<pc, calls, reports, keycode>>
      BY <2>13, OtherFiles, HostFacts DEF IInv, progVars, native, vars, linkVars
    <3>2. UNCHANGED Position
      BY <3>1 DEF Position
    <3> QED
      BY <2>0, <2>1, <3>1, <3>2 DEF StageAtPc, Points
  <2> QED
    BY <2>3, <2>4, <2>5, <2>6, <2>7, <2>8, <2>9, <2>10, <2>11, <2>12, <2>13 DEF Next, Client
<1> QED
  BY Invariance, <1>1, <1>2, PTL DEF Spec, TypesTheScript, Abstract!Spec
=============================================================================
