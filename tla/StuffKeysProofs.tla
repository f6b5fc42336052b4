-------------------------- MODULE StuffKeysProofs --------------------------
(***************************************************************************)
(* stuffkeys for every string, every number of descriptors and every host: *)
(* it leaks no descriptor and implements KeyboardClient.  The invariant    *)
(* says which descriptors are open at each program point and where in the  *)
(* script the next report stands.                                          *)
(***************************************************************************)
EXTENDS StuffKeys, TLAPS

Reports == [shift : BOOLEAN, key : STRING]

\* The descriptor table of a process whose channels are a and i.
TableWith(a, i) ==
  [f \in Fds |-> IF f = a THEN "control" ELSE IF f = i THEN "interrupt"
                 ELSE "free"]

Connected == {"poll", "serve", "ack", "press", "release", "error"}

SlotInv ==
  /\ pc \in {"main", "control", "interrupt", "closing", "exited"} \cup Connected
  /\ pc \in {"main", "control"} => /\ acs = NoFd /\ ais = NoFd
                                   /\ table = TableWith(NoFd, NoFd)
  /\ pc = "interrupt" => /\ acs \in Fds /\ ais = NoFd
                         /\ table = TableWith(acs, NoFd)
  /\ pc \in Connected => /\ acs \in Fds /\ ais \in Fds /\ acs # ais
                         /\ table = TableWith(acs, ais)
  /\ pc = "closing" => /\ acs \in Fds /\ ais \in Fds
                       /\ table = TableWith(acs, NoFd)
  /\ pc = "exited" => /\ acs \in Fds \cup {NoFd}
                      /\ table = TableWith(NoFd, NoFd)

\* What has been sent, at the points from which something is still sent.
ScriptInv ==
  /\ reports \in Seq(Reports)
  /\ report \in Reports
  /\ pc \in {"main", "control", "interrupt", "poll", "serve", "ack"} =>
       k = 1 /\ reports = <<>> /\ report.shift = FALSE
  /\ pc = "press" => /\ k \in 1..Len(Keys)
                     /\ Len(reports) = 2 * k - 2
                     /\ report.shift = Shifted(k - 1)
  /\ pc = "release" => /\ k \in 1..Len(Keys)
                       /\ Len(reports) = 2 * k - 1
                       /\ report.shift = Shifted(k)

IInv == SlotInv /\ ScriptInv

-----------------------------------------------------------------------------
(* The table and the stage.                                                 *)

\* The two values that stand for no descriptor are none.
LEMMA NoFdIsNone == NoFd \notin Fds
  BY LinkAssumption DEF NoFd, Fds

\* Closing a descriptor takes it out of the table.
LEMMA ClosedTable ==
  ASSUME NEW a \in Fds
  PROVE  /\ \A i \in Fds \ {a} :
              [TableWith(a, i) EXCEPT ![i] = "free"] = TableWith(a, NoFd)
         /\ [TableWith(a, NoFd) EXCEPT ![a] = "free"] = TableWith(NoFd, NoFd)
<1>1. ASSUME NEW i \in Fds \ {a}
      PROVE  [TableWith(a, i) EXCEPT ![i] = "free"] = TableWith(a, NoFd)
  BY NoFdIsNone DEF TableWith
<1>2. [TableWith(a, NoFd) EXCEPT ![a] = "free"] = TableWith(NoFd, NoFd)
  BY NoFdIsNone DEF TableWith
<1> QED
  BY <1>1, <1>2

\* Connecting on a free descriptor puts it into the table.
LEMMA OpenedTable ==
  ASSUME NEW d \in Fds
  PROVE  /\ [TableWith(NoFd, NoFd) EXCEPT ![d] = "control"] = TableWith(d, NoFd)
         /\ \A a \in Fds \ {d} :
              [TableWith(a, NoFd) EXCEPT ![d] = "interrupt"] = TableWith(a, d)
<1>1. [TableWith(NoFd, NoFd) EXCEPT ![d] = "control"] = TableWith(d, NoFd)
  BY NoFdIsNone DEF TableWith
<1>2. ASSUME NEW a \in Fds \ {d}
      PROVE  [TableWith(a, NoFd) EXCEPT ![d] = "interrupt"] = TableWith(a, d)
  BY NoFdIsNone DEF TableWith
<1> QED
  BY <1>1, <1>2

\* The stage of KeyboardClient at each program point.
StageAtPc ==
  /\ pc \in {"main", "control"} => Stage(acs, ais) = "closed"
  /\ pc = "interrupt" => Stage(acs, ais) = "control"
  /\ pc \in Connected => Stage(acs, ais) = "both"
  /\ pc = "closing" => Stage(acs, ais) = "draining"
  /\ pc = "exited" => Stage(acs, ais) = IF acs \in Fds THEN "over" ELSE "closed"

LEMMA StageOf == SlotInv => StageAtPc
<1> SUFFICES ASSUME SlotInv PROVE StageAtPc
  OBVIOUS
<1> USE DEF StageAtPc
<1>1. CASE pc \in {"main", "control"}
  <2>1. acs = NoFd /\ table = TableWith(NoFd, NoFd)
    BY <1>1 DEF SlotInv
  <2>2. ~IsOpen("control") /\ ~IsOpen("interrupt")
    BY <2>1, NoFdIsNone DEF IsOpen, TableWith
  <2>3. Stage(acs, ais) = "closed"
    BY <2>1, <2>2 DEF Stage, NoFd
  <2> QED
    BY <2>3, <1>1 DEF Connected
<1>2. CASE pc = "interrupt"
  BY <1>2, LinkAssumption DEF SlotInv, Stage, IsOpen, TableWith, Fds, NoFd, Connected
<1>3. CASE pc \in Connected
  <2>1. table[acs] = "control" /\ table[ais] = "interrupt"
    BY <1>3 DEF SlotInv, TableWith
  <2> QED
    BY <2>1, <1>3 DEF SlotInv, Stage, IsOpen, Connected
<1>4. CASE pc = "closing"
  BY <1>4, LinkAssumption DEF SlotInv, Stage, IsOpen, TableWith, Fds, NoFd, Connected
<1>5. CASE pc = "exited"
  <2>1. acs \in Fds \cup {NoFd} /\ table = TableWith(NoFd, NoFd)
    BY <1>5 DEF SlotInv
  <2>2. ~IsOpen("control") /\ ~IsOpen("interrupt")
    BY <2>1, NoFdIsNone DEF IsOpen, TableWith
  <2>3. acs > 0 <=> acs \in Fds
    BY <2>1, LinkAssumption DEF Fds, NoFd
  <2>4. Stage(acs, ais) = IF acs \in Fds THEN "over" ELSE "closed"
    BY <2>2, <2>3 DEF Stage
  <2> QED
    BY <2>4, <1>5 DEF Connected
<1> QED
  BY <1>1, <1>2, <1>3, <1>4, <1>5 DEF SlotInv

-----------------------------------------------------------------------------
(* The invariant.                                                           *)

LEMMA InitIInv == Init => IInv
  BY KeysAssumption DEF Init, LinkInit, IInv, SlotInv, ScriptInv, TableWith,
     Connected, Reports, NoFd, Fds

\* The channels at every step.
LEMMA SlotStep == SlotInv /\ [Next]_vars => SlotInv'
<1> SUFFICES ASSUME SlotInv, [Next]_vars
             PROVE  SlotInv'
  OBVIOUS
<1>0. CASE Main \/ (ConnectControl /\ ~bdaddr_a)
  <2>1. /\ pc \in {"main", "control"} /\ pc' \in {"exited", "control"}
        /\ UNCHANGED <<table, acs, ais>>
    BY <1>0 DEF Main, ConnectControl, SlotInv, NoFd, linkVars
  <2> QED
    BY <2>1 DEF SlotInv, Connected, TableWith
<1>1. CASE ConnectControl /\ bdaddr_a
  <2> PICK d \in Fds \cup {NoFd} : l2cap_connect("control", d) /\ acs' = d
    BY <1>1 DEF ConnectControl
  <2>1. pc = "control" /\ ais = NoFd /\ table = TableWith(NoFd, NoFd)
    BY <1>1 DEF ConnectControl, SlotInv
  <2>2. pc' = (IF acs' < 0 THEN "control" ELSE "interrupt") /\ ais' = ais
    BY <1>1 DEF ConnectControl
  <2>3. CASE d = NoFd
    <3>1. UNCHANGED table /\ acs' = NoFd
      BY <2>3, NoFdIsNone DEF l2cap_connect, IsLowest, Free, linkVars
    <3> QED
      BY <3>1, <2>1, <2>2 DEF SlotInv, Connected, NoFd, TableWith
  <2>4. CASE d \in Fds
    <3>1. table' = [table EXCEPT ![d] = "control"]
      BY <2>4, NoFdIsNone DEF l2cap_connect
    <3>2. table' = TableWith(d, NoFd)
      BY <3>1, <2>1, <2>4, OpenedTable
    <3>3. pc' = "interrupt"
      BY <2>2, <2>4 DEF Fds
    <3> QED
      BY <3>2, <3>3, <2>1, <2>2, <2>4 DEF SlotInv, Connected, TableWith
  <2> QED
    BY <2>3, <2>4
<1>2. CASE ConnectInterrupt
  <2> PICK d \in Fds \cup {NoFd} : l2cap_connect("interrupt", d) /\ ais' = d
    BY <1>2 DEF ConnectInterrupt
  <2>1. pc = "interrupt" /\ acs \in Fds /\ table = TableWith(acs, NoFd)
    BY <1>2 DEF ConnectInterrupt, SlotInv, Connected
  <2>2. pc' = (IF ais' < 0 THEN "interrupt" ELSE "poll") /\ acs' = acs
    BY <1>2 DEF ConnectInterrupt
  <2>3. CASE d = NoFd
    <3>1. UNCHANGED table /\ ais' = NoFd
      BY <2>3, NoFdIsNone DEF l2cap_connect, IsLowest, Free, linkVars
    <3> QED
      BY <3>1, <2>1, <2>2 DEF SlotInv, Connected, NoFd, TableWith
  <2>4. CASE d \in Fds
    <3>1. table' = [table EXCEPT ![d] = "interrupt"] /\ table[d] = "free"
      BY <2>4, NoFdIsNone DEF l2cap_connect, IsLowest, Free
    <3>2. d # acs
      BY <3>1, <2>1 DEF TableWith
    <3>3. table' = TableWith(acs, d)
      BY <3>1, <3>2, <2>1, <2>4, OpenedTable
    <3>4. pc' = "poll"
      BY <2>2, <2>4 DEF Fds
    <3> QED
      BY <3>2, <3>3, <3>4, <2>1, <2>2, <2>4 DEF SlotInv, Connected, TableWith
  <2> QED
    BY <2>3, <2>4
<1>3. CASE Poll \/ Receive \/ Ack \/ Served
  BY <1>3 DEF Poll, Receive, Ack, Served, linkVars, SlotInv, Connected, TableWith
<1>4. CASE Press \/ Release
  BY <1>4 DEF Press, Release, SendReport, SlotInv, Connected, TableWith
<1>5. CASE CloseInterrupt
  BY <1>5, ClosedTable DEF CloseInterrupt, CloseFd, SlotInv, Connected
<1>6. CASE CloseControl
  BY <1>6, ClosedTable DEF CloseControl, CloseFd, SlotInv, Connected, NoFd, Fds
<1>7. CASE Host /\ UNCHANGED progVars
  BY <1>7 DEF Host, HostSends, HostDrops, HostTurns, progVars, SlotInv,
              Connected, TableWith
<1>8. CASE UNCHANGED vars
  BY <1>8 DEF vars, linkVars, progVars, SlotInv, Connected, TableWith
<1> QED
  BY <1>0, <1>1, <1>2, <1>3, <1>4, <1>5, <1>6, <1>7, <1>8 DEF Next, Client

\* Shift is held once the question mark has been reached.
LEMMA ShiftedNext ==
  ASSUME NEW n \in Nat \ {0}
  PROVE  Shifted(n) <=> Shifted(n - 1) \/ Keys[n] = Question
  BY DEF Shifted

\* The script at every step.
LEMMA ScriptStep == ScriptInv /\ [Next]_vars => ScriptInv'
<1> SUFFICES ASSUME ScriptInv, [Next]_vars
             PROVE  ScriptInv'
  OBVIOUS
<1>1. CASE Main \/ ConnectControl \/ ConnectInterrupt
  BY <1>1 DEF Main, ConnectControl, ConnectInterrupt, l2cap_connect, linkVars, ScriptInv
<1>2. CASE Poll \/ Receive \/ Ack
  BY <1>2 DEF Poll, Receive, Ack, linkVars, ScriptInv
<1>3. CASE Served
  <2>1. k = 1 /\ reports = <<>> /\ report.shift = FALSE
    BY <1>3 DEF Served, ScriptInv
  <2>2. Shifted(0) = FALSE
    BY DEF Shifted
  <2>3. Len(Keys) \in Nat /\ Len(Keys) > 0
    BY KeysAssumption
  <2>4. pc' = "press" /\ UNCHANGED <<k, reports, report>>
    BY <1>3 DEF Served, linkVars
  <2>5. Len(reports) = 0
    BY <2>1
  <2> QED
    <3>1. Len(reports') = 2 * k' - 2 /\ k' - 1 = 0 /\ k' \in 1..Len(Keys)
      BY <2>1, <2>3, <2>4, <2>5
    <3>2. report'.shift = Shifted(k' - 1)
      BY <3>1, <2>1, <2>2, <2>4
    <3>3. reports' \in Seq(Reports) /\ report' \in Reports
      BY <2>4 DEF ScriptInv
    <3> QED
      BY <3>1, <3>2, <3>3, <2>4 DEF ScriptInv
<1>4. CASE Press
  <2>1. /\ k \in 1..Len(Keys) /\ Len(reports) = 2 * k - 2
        /\ report \in Reports /\ reports \in Seq(Reports)
        /\ report.shift = Shifted(k - 1)
    BY <1>4 DEF Press, ScriptInv
  <2>2. report' = [shift |-> report.shift \/ Keys[k] = Question, key |-> Keys[k]]
    BY <1>4 DEF Press
  <2>3. Keys[k] \in STRING /\ k \in Nat \ {0}
    BY <2>1, KeysAssumption
  <2>4. report' \in Reports /\ report'.shift = Shifted(k)
    <3>1. Shifted(k) = (Shifted(k - 1) \/ Keys[k] = Question)
      BY <2>3, ShiftedNext DEF Shifted
    <3>2. report'.shift = (report.shift \/ Keys[k] = Question)
      BY <2>2
    <3>3. report'.shift = Shifted(k)
      BY <2>1, <3>1, <3>2
    <3>4. report' \in Reports
      BY <2>2, <2>3 DEF Reports
    <3> QED
      BY <3>3, <3>4
  <2>5. k' = k
    BY <1>4 DEF Press, SendReport
  <2>6. CASE pc' = "release" /\ reports' = Append(reports, report')
    <3>1. reports' \in Seq(Reports) /\ Len(reports') = 2 * k - 1
      BY <2>1, <2>4, <2>6
    <3> QED
      BY <3>1, <2>1, <2>4, <2>5, <2>6 DEF ScriptInv
  <2>7. CASE pc' = "error" /\ UNCHANGED reports
    BY <2>7, <2>1, <2>4 DEF ScriptInv
  <2> QED
    BY <1>4, <2>6, <2>7 DEF Press, SendReport
<1>5. CASE Release
  <2>1. /\ k \in 1..Len(Keys) /\ Len(reports) = 2 * k - 1
        /\ report \in Reports /\ reports \in Seq(Reports)
        /\ report.shift = Shifted(k)
    BY <1>5 DEF Release, ScriptInv
  <2>2. report' = [report EXCEPT !.key = NoKey]
    BY <1>5 DEF Release
  <2>3. report' \in Reports /\ report'.shift = Shifted(k)
    BY <2>1, <2>2, KeysAssumption DEF Reports
  <2>4. CASE pc' = "error"
    <3>1. reports' \in Seq(Reports)
      <4>1. reports' = Append(reports, report') \/ reports' = reports
        BY <1>5 DEF Release, SendReport
      <4>2. Append(reports, report') \in Seq(Reports)
        BY <2>1, <2>3
      <4> QED
        BY <4>1, <4>2, <2>1
    <3> QED
      BY <3>1, <2>3, <2>4 DEF ScriptInv
  <2>5. CASE pc' # "error"
    <3>1. pc' = "press" /\ k < Len(Keys) /\ reports' = Append(reports, report')
          /\ k' = k + 1
      BY <1>5, <2>5 DEF Release, SendReport
    <3>2. reports' \in Seq(Reports) /\ Len(reports') = 2 * k
      BY <2>1, <2>3, <3>1
    <3>3. k' \in 1..Len(Keys) /\ k' - 1 = k /\ Len(reports') = 2 * k' - 2
      BY <3>1, <3>2, <2>1, KeysAssumption
    <3> QED
      BY <3>1, <3>2, <3>3, <2>3 DEF ScriptInv
  <2> QED
    BY <2>4, <2>5
<1>6. CASE CloseInterrupt \/ CloseControl
  BY <1>6 DEF CloseInterrupt, CloseControl, CloseFd, ScriptInv
<1>7. CASE Host /\ UNCHANGED progVars
  BY <1>7 DEF Host, HostSends, HostDrops, HostTurns, progVars, ScriptInv
<1>8. CASE UNCHANGED vars
  BY <1>8 DEF vars, linkVars, progVars, ScriptInv
<1> QED
  BY <1>1, <1>2, <1>3, <1>4, <1>5, <1>6, <1>7, <1>8 DEF Next, Client

-----------------------------------------------------------------------------
(* The reports are those of the script.                                     *)

LEMMA ScriptLength ==
  /\ Len(StuffScript) = 2 * Len(Keys)
  /\ \A n \in 1..2 * Len(Keys) :
       StuffScript[n] = [shift |-> Shifted((n + 1) \div 2),
                         key |-> IF n % 2 = 1 THEN Keys[(n + 1) \div 2] ELSE NoKey]
<1>1. Len(Keys) \in Nat
  BY KeysAssumption
<1> QED
  BY <1>1 DEF StuffScript

\* A press sends the report whose turn it is.
LEMMA PressIsNext ==
  ASSUME ScriptInv, Press
  PROVE  report' = StuffScript[Len(reports) + 1] /\ Len(reports) < Len(StuffScript)
<1>1. k \in 1..Len(Keys) /\ Len(reports) = 2 * k - 2 /\ report.shift = Shifted(k - 1)
  BY DEF Press, ScriptInv
<1>2. Len(Keys) \in Nat
  BY KeysAssumption
<1>3. /\ Len(reports) + 1 = 2 * k - 1 /\ 2 * k - 1 \in 1..2 * Len(Keys)
      /\ ((2 * k - 1) + 1) \div 2 = k /\ (2 * k - 1) % 2 = 1
  BY <1>1, <1>2
<1>4. StuffScript[2 * k - 1] = [shift |-> Shifted(k), key |-> Keys[k]]
  BY <1>3, ScriptLength
<1>5. Shifted(k) = (report.shift \/ Keys[k] = Question)
  <2>1. k \in Nat \ {0}
    BY <1>1, <1>2
  <2>2. Shifted(k) = (Shifted(k - 1) \/ Keys[k] = Question)
    BY <2>1, ShiftedNext DEF Shifted
  <2> QED
    BY <1>1, <2>2
<1> QED
  BY <1>1, <1>2, <1>3, <1>4, <1>5, ScriptLength DEF Press

\* A release sends the report whose turn it is.
LEMMA ReleaseIsNext ==
  ASSUME ScriptInv, Release
  PROVE  report' = StuffScript[Len(reports) + 1] /\ Len(reports) < Len(StuffScript)
<1>1. /\ k \in 1..Len(Keys) /\ Len(reports) = 2 * k - 1
      /\ report \in Reports /\ report.shift = Shifted(k)
  BY DEF Release, ScriptInv
<1>2. Len(Keys) \in Nat
  BY KeysAssumption
<1>3. /\ Len(reports) + 1 = 2 * k /\ 2 * k \in 1..2 * Len(Keys)
      /\ (2 * k + 1) \div 2 = k /\ (2 * k) % 2 = 0
  BY <1>1, <1>2
<1>4. StuffScript[2 * k] = [shift |-> Shifted(k), key |-> NoKey]
  BY <1>3, ScriptLength
<1>5. report' = [shift |-> Shifted(k), key |-> NoKey]
  BY <1>1 DEF Release, Reports
<1> QED
  BY <1>1, <1>2, <1>3, <1>4, <1>5, ScriptLength

\* A report sent in its turn is a step of KeyboardClient.
LEMMA Delivered ==
  ASSUME reports \in Seq(Reports), report' \in Reports,
         Stage(acs, ais) = "both", Stage(acs, ais)' = "both",
         report' = StuffScript[Len(reports) + 1], Len(reports) < Len(StuffScript),
         reports' = Append(reports, report')
  PROVE  Abstract!Next
<1>1. Len(reports) \in Nat /\ Len(reports') = Len(reports) + 1
  OBVIOUS
<1>2. Len(StuffScript) \in Nat
  BY ScriptLength, KeysAssumption
<1> QED
  BY <1>1, <1>2 DEF Abstract!Next, Abstract!Deliver, Abstract!Turn

-----------------------------------------------------------------------------
(* The theorems.                                                            *)

THEOREM Invariance == Spec => []IInv
<1>1. IInv /\ [Next]_vars => IInv'
  BY SlotStep, ScriptStep DEF IInv
<1> QED
  BY InitIInv, <1>1, PTL DEF Spec

\* stuffkeys leaks no descriptor, over any number of failed attempts, and
\* exits with none open.
THEOREM NoLeak == Spec => []NothingLeaks
<1>1. IInv => NothingLeaks
  BY NoFdIsNone DEF IInv, SlotInv, NothingLeaks, TableWith, Channels, Free, Connected
<1> QED
  BY Invariance, <1>1, PTL

\* stuffkeys implements KeyboardClient: one session, the interrupt channel
\* inside the life of the control channel, a prefix of the script.  The turn in
\* the script is read off the number of reports the host has.
THEOREM Implements == Spec => TypesTheScript
<1>1. Init => Abstract!Init
  <2> SUFFICES ASSUME Init PROVE Abstract!Init
    OBVIOUS
  <2>1. SlotInv /\ pc = "main"
    BY InitIInv DEF IInv, Init
  <2> QED
    BY <2>1, StageOf DEF Abstract!Init, Init, LinkInit, StageAtPc
<1>2. IInv /\ IInv' /\ [Next]_vars =>
        [Abstract!Next]_<<Stage(acs, ais), Len(reports) + 1, reports>>
  <2> SUFFICES ASSUME IInv, IInv', [Next]_vars
               PROVE  [Abstract!Next]_<<Stage(acs, ais), Len(reports) + 1, reports>>
    OBVIOUS
  <2>1. StageAtPc /\ StageAtPc'
    BY StageOf, PTL DEF IInv
  <2>2. SlotInv /\ ScriptInv
    BY DEF IInv
  <2>0. CASE Main
    <3>1. pc = "main" /\ pc' \in {"exited", "control"} /\ UNCHANGED <<acs, reports>>
      BY <2>0 DEF Main, linkVars
    <3>2. acs \notin Fds
      BY <3>1, <2>2, NoFdIsNone DEF SlotInv
    <3> QED
      BY <3>1, <3>2, <2>1 DEF StageAtPc
  <2>3. CASE ConnectControl
    <3>1. pc = "control" /\ pc' \in {"control", "interrupt"} /\ UNCHANGED reports
      BY <2>3 DEF ConnectControl, l2cap_connect, linkVars
    <3> QED
      BY <3>1, <2>1 DEF StageAtPc, Abstract!Next, Abstract!OpenControl
  <2>4. CASE ConnectInterrupt
    <3>1. pc = "interrupt" /\ pc' \in {"interrupt", "poll"} /\ UNCHANGED reports
      BY <2>4 DEF ConnectInterrupt, l2cap_connect, linkVars
    <3> QED
      BY <3>1, <2>1 DEF StageAtPc, Connected, Abstract!Next, Abstract!OpenInterrupt
  <2>5. CASE Poll \/ Receive \/ Ack \/ Served
    <3>1. pc \in Connected /\ pc' \in Connected /\ UNCHANGED reports
      BY <2>5 DEF Poll, Receive, Ack, Served, linkVars, Connected
    <3> QED
      BY <3>1, <2>1 DEF StageAtPc
  <2>6. CASE Press
    <3>1. pc = "press" /\ pc' \in {"release", "error"}
      BY <2>6 DEF Press, SendReport
    <3>2. Stage(acs, ais) = "both" /\ Stage(acs, ais)' = "both"
      BY <3>1, <2>1 DEF StageAtPc, Connected
    <3>3. CASE reports' = Append(reports, report')
      <4>1. report' = StuffScript[Len(reports) + 1] /\ Len(reports) < Len(StuffScript)
        BY <2>6, <2>2, PressIsNext
      <4>2. reports \in Seq(Reports) /\ report' \in Reports
        BY <2>2, ScriptStep DEF ScriptInv
      <4> QED
        BY <4>1, <4>2, <3>2, <3>3, Delivered
    <3>4. CASE UNCHANGED reports
      BY <3>2, <3>4
    <3> QED
      BY <3>3, <3>4, <2>6 DEF Press, SendReport
  <2>7. CASE Release
    <3>1. pc = "release" /\ pc' \in {"press", "error"}
      BY <2>7 DEF Release, SendReport
    <3>2. Stage(acs, ais) = "both" /\ Stage(acs, ais)' = "both"
      BY <3>1, <2>1 DEF StageAtPc, Connected
    <3>3. CASE reports' = Append(reports, report')
      <4>1. report' = StuffScript[Len(reports) + 1] /\ Len(reports) < Len(StuffScript)
        BY <2>7, <2>2, ReleaseIsNext
      <4>2. reports \in Seq(Reports) /\ report' \in Reports
        BY <2>2, ScriptStep DEF ScriptInv
      <4> QED
        BY <4>1, <4>2, <3>2, <3>3, Delivered
    <3>4. CASE UNCHANGED reports
      BY <3>2, <3>4
    <3> QED
      BY <3>3, <3>4, <2>7 DEF Release, SendReport
  <2>8. CASE CloseInterrupt
    <3>1. pc = "error" /\ pc' = "closing" /\ UNCHANGED reports
      BY <2>8 DEF CloseInterrupt, CloseFd
    <3> QED
      BY <3>1, <2>1 DEF StageAtPc, Connected, Abstract!Next, Abstract!CloseInterrupt
  <2>9. CASE CloseControl
    <3>1. pc = "closing" /\ pc' = "exited" /\ UNCHANGED <<acs, reports>>
      BY <2>9 DEF CloseControl, CloseFd
    <3>2. acs \in Fds
      BY <3>1, <2>2 DEF SlotInv
    <3> QED
      BY <3>1, <3>2, <2>1 DEF StageAtPc, Abstract!Next, Abstract!CloseControl
  <2>10. CASE (Host /\ UNCHANGED progVars) \/ UNCHANGED vars
    <3>1. UNCHANGED <<pc, acs, reports>>
      BY <2>10 DEF Host, HostSends, HostDrops, HostTurns, progVars, vars, linkVars
    <3> QED
      BY <3>1, <2>1, <2>2 DEF StageAtPc, SlotInv
  <2> QED
    BY <2>0, <2>3, <2>4, <2>5, <2>6, <2>7, <2>8, <2>9, <2>10 DEF Next, Client
<1> QED
  BY Invariance, <1>1, <1>2, PTL DEF Spec, TypesTheScript, Abstract!Spec
=============================================================================
