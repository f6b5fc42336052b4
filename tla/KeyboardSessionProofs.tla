----------------------- MODULE KeyboardSessionProofs -----------------------
(***************************************************************************)
(* Proofs about KeyboardSession, for any number of runs at once and of     *)
(* keyboards, pipes of any size and any number of failures and missing     *)
(* programs.                                                               *)
(***************************************************************************)
EXTENDS KeyboardSession, TLAPS

DaemonPoints ==
  {"none", "sdp_open", "sdp_add_keyboard", "ctrl", "intr", "accept", "serve", "dead"}
Ways == {"early", "closed", "quit", "killed"}
Losses == {"set-up", "overlap"} \cup Reverts

RunType ==
  /\ wrappers \in [Runs -> Seq(1..8)]
  /\ child \in [Runs -> Sessions \cup {0}]
  /\ lapse \in [Runs -> SUBSET Losses]
  /\ adapter \in [scan : {"pscan", "piscan"}, class : {"default", "keyboard"}]

KeyboardType ==
  /\ sessions \in 0..MaxSessions
  /\ window \in [Sessions -> Opened \cup {"none", "exited"}]
  /\ left \in [Sessions -> Ways \cup {"none"}]
  /\ bthid_pid \in [Sessions -> Sessions \cup {-1, 0}]
  /\ daemon \in [Sessions -> DaemonPoints]
  /\ psm \in [{"ctrl", "intr"} -> Sessions \cup {0}]
  /\ signalled \subseteq Sessions /\ excused \subseteq Sessions

SessionType == RunType /\ KeyboardType

-----------------------------------------------------------------------------
(* The wrapper and its copies.                                              *)

LEMMA SessionsAreNat == MaxSessions \in Nat /\ Sessions \subseteq Nat \ {0}
BY SessionAssumption DEF Sessions

\* Where each kind of work stands in the wrapper.
LEMMA StageNumbers ==
  ASSUME NEW n \in 1..8
  PROVE  /\ (Stages[n] = "waiting") <=> (n = 5)
         /\ (Stages[n] = "end") <=> (n = 8)
         /\ (Stages[n] = "keyboard") <=> (n = 4)
         /\ (Stages[n] \in Tools) <=> (n \in {1, 2, 3, 6, 7})
         /\ (Stages[n] \in Reverts) <=> (n \in {6, 7})
         /\ (Stages[n] = "piscan") <=> (n = 1)
         /\ (Stages[n] = "keyboard class") <=> (n = 2)
         /\ (Stages[n] = "pscan") <=> (n = 6)
         /\ (Stages[n] = "default class") <=> (n = 7)
<1>1. n \in {1, 2, 3, 4, 5, 6, 7, 8}
  OBVIOUS
<1>2. /\ Stages[1] = "piscan" /\ Stages[2] = "keyboard class" /\ Stages[3] = "sdpd"
      /\ Stages[4] = "keyboard" /\ Stages[5] = "waiting" /\ Stages[6] = "pscan"
      /\ Stages[7] = "default class" /\ Stages[8] = "end"
  BY DEF Stages
<1> USE DEF Tools, Reverts
<1>3. CASE n = 1  BY <1>2, <1>3
<1>4. CASE n = 2  BY <1>2, <1>4
<1>5. CASE n = 3  BY <1>2, <1>5
<1>6. CASE n = 4  BY <1>2, <1>6
<1>7. CASE n = 5  BY <1>2, <1>7
<1>8. CASE n = 6  BY <1>2, <1>8
<1>9. CASE n = 7  BY <1>2, <1>9
<1>10. CASE n = 8  BY <1>2, <1>10
<1> QED
  BY <1>1, <1>3, <1>4, <1>5, <1>6, <1>7, <1>8, <1>9, <1>10

\* A run that is under way has a wrapper at work, at some stage.
LEMMA TopOf ==
  ASSUME RunType, NEW r \in Runs, r \in Busy
  PROVE  /\ wrappers[r] \in Seq(1..8) /\ wrappers[r] # <<>>
         /\ Len(wrappers[r]) \in Nat \ {0} /\ DOMAIN wrappers[r] = 1..Len(wrappers[r])
         /\ Stage(r) = wrappers[r][Len(wrappers[r])] /\ Stage(r) \in 1..8
         /\ Here(r) = Stages[Stage(r)]
<1>1. wrappers[r] \in Seq(1..8) /\ wrappers[r] # <<>>
  BY DEF RunType, Busy
<1>2. Len(wrappers[r]) \in Nat \ {0} /\ DOMAIN wrappers[r] = 1..Len(wrappers[r])
  BY <1>1
<1> QED
  BY <1>1, <1>2 DEF Stage, Here, Last

\* The wrapper at work goes to another stage.
LEMMA MovedOn ==
  ASSUME RunType, NEW r \in Runs, r \in Busy, NEW n \in 1..8
  PROVE  /\ Moved(r, n) \in Seq(1..8) /\ Moved(r, n) # <<>>
         /\ Len(Moved(r, n)) = Len(wrappers[r]) /\ Last(Moved(r, n)) = n
         /\ \A i \in 1..Len(wrappers[r]) :
              Moved(r, n)[i] = IF i = Len(wrappers[r]) THEN n ELSE wrappers[r][i]
BY TopOf DEF Moved, Last

\* It does, and a copy above it.
LEMMA CopyMade ==
  ASSUME RunType, NEW r \in Runs, r \in Busy, NEW n \in 1..8
  PROVE  LET t == Append(Moved(r, n), n) IN
         /\ t \in Seq(1..8) /\ t # <<>>
         /\ Len(t) = Len(wrappers[r]) + 1 /\ Last(t) = n
         /\ \A i \in 1..Len(wrappers[r]) : t[i] = IF i = Len(wrappers[r]) THEN n ELSE wrappers[r][i]
<1> DEFINE m == Moved(r, n)
<1>1. /\ m \in Seq(1..8) /\ Len(m) = Len(wrappers[r])
      /\ \A i \in 1..Len(wrappers[r]) : m[i] = IF i = Len(wrappers[r]) THEN n ELSE wrappers[r][i]
  <2>1. /\ Moved(r, n) \in Seq(1..8) /\ Len(Moved(r, n)) = Len(wrappers[r])
        /\ \A i \in 1..Len(wrappers[r]) :
             Moved(r, n)[i] = IF i = Len(wrappers[r]) THEN n ELSE wrappers[r][i]
    BY MovedOn
  <2> QED
    BY <2>1
<1>2. Len(wrappers[r]) \in Nat
  BY TopOf
<1> HIDE DEF m
<1> DEFINE t == Append(m, n)
<1>4. /\ t \in Seq(1..8) /\ Len(t) = Len(wrappers[r]) + 1 /\ t[Len(t)] = n
      /\ \A i \in 1..Len(m) : t[i] = m[i]
  BY <1>1, <1>2
<1> HIDE DEF t
<1>5. /\ t \in Seq(1..8) /\ t # <<>> /\ Len(t) = Len(wrappers[r]) + 1 /\ Last(t) = n
      /\ \A i \in 1..Len(wrappers[r]) : t[i] = IF i = Len(wrappers[r]) THEN n ELSE wrappers[r][i]
  BY <1>1, <1>2, <1>4 DEF Last
<1> QED
  BY <1>5 DEF t, m

\* The copy ends, and the one below it goes on.
LEMMA CopyEnds ==
  ASSUME RunType, NEW r \in Runs, r \in Busy
  PROVE  LET t == Front(wrappers[r]) IN
         /\ t \in Seq(1..8) /\ Len(t) = Len(wrappers[r]) - 1
         /\ \A i \in 1..Len(t) : t[i] = wrappers[r][i]
<1> DEFINE t == Front(wrappers[r])
<1>1. t = [i \in 1..Len(wrappers[r]) - 1 |-> wrappers[r][i]]
  BY TopOf DEF Front
<1>2. \A i \in 1..Len(wrappers[r]) - 1 : wrappers[r][i] \in 1..8
  BY TopOf
<1>3. Len(wrappers[r]) - 1 \in Nat
  BY TopOf
<1> HIDE DEF t
<1>4. t \in Seq(1..8) /\ Len(t) = Len(wrappers[r]) - 1 /\ \A i \in 1..Len(t) : t[i] = wrappers[r][i]
  BY <1>1, <1>2, <1>3
<1> QED
  BY <1>4 DEF t

\* What the wrapper at work does.
Works(r) == Wrapper(r) \/ NoFork(r)

\* It goes on by a stage, or past the keyboard, alone or with a copy, or ends.  A
\* step without its effect is noted.
LEMMA WorkFacts ==
  ASSUME RunType, NEW r \in Runs, Works(r)
  PROVE  /\ r \in Busy
         /\ wrappers' = [wrappers EXCEPT ![r] = wrappers'[r]]
         /\ \/ wrappers'[r] = Moved(r, Stage(r) + 1) /\ Stage(r) # 8
            \/ wrappers'[r] = Moved(r, 6) /\ Stage(r) = 4
            \/ /\ wrappers'[r] = Append(Moved(r, Stage(r) + 1), Stage(r) + 1)
               /\ Stage(r) \in {1, 2, 3, 6, 7} /\ Loses(r)
            \/ wrappers'[r] = Front(wrappers[r]) /\ Stage(r) = 8
         /\ lapse' = lapse \/ Loses(r)
         /\ Stage(r) \in {1, 2, 3, 6, 7} => Loses(r) \/ RunTool(r)
         /\ Stage(r) = 5 => window[child[r]] = "exited"
         /\ adapter' = adapter \/ RunTool(r)
<1>1. r \in Busy
  BY DEF Works, Wrapper, RunTool, ToolFails, FallThrough, StartKeyboard, NoKeyboard,
         WaitKeyboard, EndWrapper, NoFork
<1>2. Stage(r) \in 1..8 /\ Here(r) = Stages[Stage(r)]
  BY <1>1, TopOf
<1>3. wrappers \in [Runs -> Seq(1..8)]
  BY DEF RunType
<1>4. CASE RunTool(r) \/ ToolFails(r)
  <2>1. Stage(r) \in {1, 2, 3, 6, 7} /\ GoesTo(r, Stage(r) + 1)
    BY <1>2, <1>4, StageNumbers DEF RunTool, ToolFails
  <2>2. (lapse' = lapse /\ RunTool(r)) \/ (Loses(r) /\ adapter' = adapter)
    <3>1. RunTool(r) => lapse' = lapse
      BY DEF RunTool
    <3>2. ToolFails(r) => Loses(r) /\ adapter' = adapter
      BY DEF ToolFails, device
    <3> QED
      BY <1>4, <3>1, <3>2
  <2> QED
    BY <1>1, <1>3, <2>1, <2>2 DEF GoesTo
<1>5. CASE FallThrough(r)
  <2>1. Stage(r) \in {1, 2, 3, 6, 7} /\ Loses(r) /\ adapter' = adapter
    BY <1>2, <1>5, StageNumbers DEF FallThrough, device
  <2>2. wrappers' = [wrappers EXCEPT ![r] = Append(Moved(r, Stage(r) + 1), Stage(r) + 1)]
    BY <1>5 DEF FallThrough
  <2> QED
    BY <1>1, <1>3, <2>1, <2>2
<1>6. CASE NoFork(r)
  <2>1. Loses(r) /\ adapter' = adapter
    BY <1>6 DEF NoFork, device
  <2>2. CASE Here(r) = "keyboard"
    <3>1. Stage(r) = 4 /\ GoesTo(r, Stage(r) + 2)
      BY <1>2, <1>6, <2>2, StageNumbers DEF NoFork
    <3>2. GoesTo(r, 6)
      BY <3>1
    <3> QED
      BY <1>1, <1>3, <2>1, <3>1, <3>2 DEF GoesTo
  <2>3. CASE Here(r) # "keyboard"
    <3>1. Stage(r) \in {1, 2, 3, 6, 7} /\ GoesTo(r, Stage(r) + 1)
      BY <1>2, <1>6, <2>3, StageNumbers DEF NoFork
    <3> QED
      BY <1>1, <1>3, <2>1, <3>1 DEF GoesTo
  <2> QED
    BY <2>2, <2>3
<1>7. CASE StartKeyboard(r) \/ NoKeyboard(r)
  <2>1. Stage(r) = 4 /\ lapse' = lapse /\ adapter' = adapter
    BY <1>2, <1>7, StageNumbers DEF StartKeyboard, NoKeyboard, device
  <2>2. GoesTo(r, Stage(r) + 1) \/ GoesTo(r, 6)
    BY <1>7, <2>1 DEF StartKeyboard, NoKeyboard
  <2> QED
    BY <1>1, <1>3, <2>1, <2>2 DEF GoesTo
<1>8. CASE WaitKeyboard(r)
  <2>1. Stage(r) = 5 /\ lapse' = lapse /\ adapter' = adapter /\ window[child[r]] = "exited"
    BY <1>2, <1>8, StageNumbers DEF WaitKeyboard, device
  <2>2. GoesTo(r, Stage(r) + 1)
    BY <1>8 DEF WaitKeyboard
  <2> QED
    BY <1>1, <1>3, <2>1, <2>2 DEF GoesTo
<1>9. CASE EndWrapper(r)
  <2>1. Stage(r) = 8 /\ lapse' = lapse /\ adapter' = adapter
    BY <1>2, <1>9, StageNumbers DEF EndWrapper, device
  <2>2. wrappers' = [wrappers EXCEPT ![r] = Front(wrappers[r])]
    BY <1>9 DEF EndWrapper
  <2> QED
    BY <1>1, <1>3, <2>1, <2>2
<1> QED
  BY <1>4, <1>5, <1>6, <1>7, <1>8, <1>9 DEF Works, Wrapper

\* So it stays a sequence of stages.
LEMMA WorkType ==
  ASSUME RunType, NEW r \in Runs, Works(r)
  PROVE  /\ wrappers' \in [Runs -> Seq(1..8)]
         /\ lapse' \in [Runs -> SUBSET Losses]
         /\ adapter' \in [scan : {"pscan", "piscan"}, class : {"default", "keyboard"}]
         /\ \A s \in Runs \ {r} : wrappers'[s] = wrappers[s] /\ lapse'[s] = lapse[s]
         /\ lapse[r] \subseteq lapse'[r]
<1>1. r \in Busy /\ Stage(r) \in 1..8 /\ Here(r) = Stages[Stage(r)]
  BY WorkFacts, TopOf
<1>2. wrappers'[r] \in Seq(1..8)
  <2>1. Stage(r) # 8 => Stage(r) + 1 \in 1..8
    BY <1>1
  <2>2. CASE \E n \in 1..8 : wrappers'[r] = Moved(r, n)
    BY <1>1, <2>2, MovedOn
  <2>3. CASE \E n \in 1..8 : wrappers'[r] = Append(Moved(r, n), n)
    BY <1>1, <2>3, CopyMade
  <2>4. CASE wrappers'[r] = Front(wrappers[r])
    BY <1>1, <2>4, CopyEnds
  <2>5. \/ wrappers'[r] = Moved(r, Stage(r) + 1) /\ Stage(r) # 8
        \/ wrappers'[r] = Moved(r, 6)
        \/ wrappers'[r] = Append(Moved(r, Stage(r) + 1), Stage(r) + 1) /\ Stage(r) # 8
        \/ wrappers'[r] = Front(wrappers[r])
    BY <1>1, WorkFacts
  <2>6. 6 \in 1..8
    OBVIOUS
  <2> QED
    BY <2>1, <2>2, <2>3, <2>4, <2>5, <2>6
<1>3. wrappers' = [wrappers EXCEPT ![r] = wrappers'[r]] /\ wrappers \in [Runs -> Seq(1..8)]
  BY WorkFacts DEF RunType
<1>4. lapse \in [Runs -> SUBSET Losses]
  BY DEF RunType
<1>5. lapse' = lapse \/ \E l \in SUBSET Losses : lapse' = [lapse EXCEPT ![r] = @ \cup l]
  <2>1. (IF Here(r) \in Reverts THEN {Here(r)} ELSE {"set-up"}) \in SUBSET Losses
    BY DEF Losses
  <2> QED
    BY <2>1, WorkFacts DEF Loses
<1>6. adapter' \in [scan : {"pscan", "piscan"}, class : {"default", "keyboard"}]
  <2>1. adapter \in [scan : {"pscan", "piscan"}, class : {"default", "keyboard"}]
    BY DEF RunType
  <2>2. CASE RunTool(r)
    <3>1. adapter' = CASE Here(r) \in {"piscan", "pscan"} -> [adapter EXCEPT !.scan = Here(r)]
                       [] Here(r) = "keyboard class" -> [adapter EXCEPT !.class = "keyboard"]
                       [] Here(r) = "default class" -> [adapter EXCEPT !.class = "default"]
                       [] OTHER -> adapter
      BY <2>2 DEF RunTool
    <3> QED
      BY <2>1, <3>1
  <2> QED
    BY <2>1, <2>2, WorkFacts
<1> QED
  BY <1>2, <1>3, <1>4, <1>5, <1>6

\* What a step of the wrapper leaves alone, if it does not start a keyboard.
LEMMA WorkFrame ==
  ASSUME NEW r \in Runs, Works(r)
  PROVE  /\ UNCHANGED <<left, psm, signalled, excused>>
         /\ StartKeyboard(r) \/ UNCHANGED <<child, windows, daemon>>
BY DEF Works, Wrapper, RunTool, ToolFails, FallThrough, StartKeyboard, NoKeyboard,
       WaitKeyboard, EndWrapper, NoFork, windows, daemons

-----------------------------------------------------------------------------
(* Keyboards and their daemons.                                             *)

\* The window of session p takes a step.
WindowMoves(p) ==
  \/ OpenWindow(p) \/ LeaveEarly(p) \/ Close(p) \/ Press(p) \/ bthid_send(p)
  \/ Quit(p) \/ QuitAll(p)

\* The daemon of session p does.
DaemonMoves(p) ==
  \/ Terminate(p) \/ Connected(p) \/ Registered(p) \/ Listen(p)
  \/ Accept(p) \/ Read(p) \/ Out(p) \/ WriteFails(p)

\* Every step is one of these.
LEMMA Moves ==
  ASSUME [Next]_vars
  PROVE  \/ SdpdStops \/ UNCHANGED vars
         \/ \E r \in Runs : RunWrapper(r) \/ Works(r)
         \/ \E p \in Sessions : WindowMoves(p) \/ DaemonMoves(p)
BY DEF Next, Works, WindowMoves, DaemonMoves

\* Nothing happens to a keyboard.
Quiet == UNCHANGED <<child, sessions, window, left, bthid_pid, daemon, psm, signalled, excused>>

LEMMA QuietSteps ==
  ASSUME NEW r, SdpdStops \/ UNCHANGED vars \/ RunWrapper(r)
  PROVE  Quiet /\ adapter' = adapter
BY DEF SdpdStops, vars, RunWrapper, Quiet, device, runs, windows, daemons

\* A window that goes on, and one that is left without a word to the daemon.
Stays(p) ==
  /\ \E w \in Opened : window' = [window EXCEPT ![p] = w]
  /\ UNCHANGED <<left, signalled, runs>>
Deserts(p) ==
  /\ \E how \in {"early", "closed"} : Leaves(p, how)
  /\ UNCHANGED <<signalled, runs>>

LEMMA WindowFacts ==
  ASSUME NEW p \in Sessions, WindowMoves(p)
  PROVE  /\ UNCHANGED <<adapter, child, sessions, bthid_pid, daemon, psm, excused>>
         /\ window[p] \in Opened
         /\ Stays(p) \/ Deserts(p) \/ Quit(p) \/ QuitAll(p)
<1> USE DEF device, runs, daemons, Opened
<1>1. CASE OpenWindow(p) \/ Press(p) \/ bthid_send(p)
  BY <1>1 DEF OpenWindow, Press, bthid_send, Stays
<1>2. CASE LeaveEarly(p) \/ Close(p)
  BY <1>2 DEF LeaveEarly, Close, Deserts
<1>3. CASE Quit(p)
  BY <1>3 DEF Quit
<1>4. CASE QuitAll(p)
  BY <1>4 DEF QuitAll
<1> QED
  BY <1>1, <1>2, <1>3, <1>4 DEF WindowMoves

\* A daemon that goes on without dying and without taking a channel.
Proceeds(p) ==
  /\ UNCHANGED <<psm, signalled, excused>>
  /\ \/ daemon' = daemon /\ p \in Alive
     \/ daemon[p] = "sdp_open" /\ Goto(p, "sdp_add_keyboard")
     \/ daemon[p] = "sdp_add_keyboard" /\ Goto(p, "ctrl")
     \/ daemon[p] = "accept" /\ Goto(p, "serve")
     \/ daemon[p] = "serve" /\ Goto(p, "accept")

LEMMA DaemonFacts ==
  ASSUME KeyboardType, signalled \subseteq Alive, NEW p \in Sessions, DaemonMoves(p)
  PROVE  /\ UNCHANGED <<device, runs, windows>>
         /\ p \in Alive
         /\ Proceeds(p) \/ Listen(p) \/ (Dies(p) /\ excused' = excused)
<1> USE DEF daemons, Alive
<1>1. CASE Terminate(p)
  BY <1>1 DEF Terminate
<1>2. CASE Connected(p)
  BY <1>2 DEF Connected, Proceeds
<1>3. CASE Registered(p)
  BY <1>3 DEF Registered, Proceeds
<1>4. CASE Listen(p)
  <2>1. daemon[p] \in {"ctrl", "intr"}
    BY <1>4 DEF Listen, KeyboardType
  <2> QED
    BY <1>4, <2>1 DEF Listen
<1>5. CASE Accept(p)
  BY <1>5 DEF Accept, Proceeds
<1>6. CASE Read(p)
  BY <1>6 DEF Read, Proceeds
<1>7. CASE Out(p)
  BY <1>7 DEF Out, Proceeds
<1>8. CASE WriteFails(p)
  BY <1>8 DEF WriteFails
<1> QED
  BY <1>1, <1>2, <1>3, <1>4, <1>5, <1>6, <1>7, <1>8 DEF DaemonMoves

\* Sessions start one after the other, and a daemon is the one its window knows.
StandingOf(p) ==
  /\ p > sessions => window[p] = "none" /\ left[p] = "none" /\ daemon[p] = "none"
  /\ p =< sessions => window[p] # "none"
  /\ (window[p] = "exited") <=> (left[p] # "none")
  /\ p \in Alive => bthid_pid[p] = p

Standing == signalled \subseteq Alive /\ \A p \in Sessions : StandingOf(p)

\* A daemon whose window was left by the quit key, or killed, has its SIGTERM to come.
Told == \A p \in Sessions : left[p] \in {"quit", "killed"} /\ p \in Alive => p \in signalled

\* Only daemons that live hold a channel.
Listeners == \A c \in {"ctrl", "intr"} : psm[c] # 0 => psm[c] \in Alive

\* Some other window was left without a word to its daemon.
Orphaned(p) == \E q \in Sessions \ {p} : left[q] \in {"early", "closed"}

\* Where a daemon is that has tried to take a channel.
Past == [ctrl |-> {"intr", "accept", "serve"}, intr |-> {"accept", "serve"}]

UnheardOf(p, c) ==
  p \notin excused /\ daemon[p] \in Past[c] /\ psm[c] # p => Orphaned(p)

Unheard == \A p \in Sessions : \A c \in {"ctrl", "intr"} : UnheardOf(p, c)

HearInv == KeyboardType /\ Standing /\ Told /\ Listeners /\ Unheard

LEMMA InitHear == Init => HearInv
<1> SUFFICES ASSUME Init PROVE HearInv
  OBVIOUS
<1>1. /\ window = [p \in Sessions |-> "none"] /\ left = [p \in Sessions |-> "none"]
      /\ bthid_pid = [p \in Sessions |-> 0] /\ daemon = [p \in Sessions |-> "none"]
      /\ psm = [c \in {"ctrl", "intr"} |-> 0] /\ sessions = 0
      /\ signalled = {} /\ excused = {}
  BY DEF Init
<1>2. KeyboardType
  <2>1. sessions \in 0..MaxSessions
    BY <1>1, SessionsAreNat
  <2>2. daemon \in [Sessions -> DaemonPoints]
    BY <1>1 DEF DaemonPoints
  <2> QED
    BY <1>1, <2>1, <2>2 DEF KeyboardType
<1>3. Standing
  BY <1>1, SessionsAreNat DEF Standing, StandingOf, Alive
<1> QED
  BY <1>1, <1>2, <1>3 DEF HearInv, Told, Listeners, Unheard, UnheardOf, Alive, Past

LEMMA HearQuiet ==
  ASSUME HearInv, Quiet
  PROVE  HearInv'
<1>1. Alive' = Alive
  BY DEF Quiet, Alive
<1>2. KeyboardType' /\ Standing'
  BY <1>1 DEF HearInv, Quiet, KeyboardType, Standing, StandingOf
<1> QED
  BY <1>1, <1>2 DEF HearInv, Quiet, Told, Listeners, Unheard, UnheardOf, Orphaned

LEMMA HearStart ==
  ASSUME HearInv, NEW r \in Runs, StartKeyboard(r)
  PROVE  HearInv'
<1> DEFINE q == sessions + 1
<1>1. /\ q \in Sessions /\ sessions' = q /\ sessions' \in 0..MaxSessions /\ sessions \in Nat
      /\ window' = [window EXCEPT ![q] = "main"]
      /\ UNCHANGED <<left, psm, signalled, excused>>
  BY SessionsAreNat DEF StartKeyboard, HearInv, KeyboardType, Sessions
<1>2. \/ daemon' = [daemon EXCEPT ![q] = "sdp_open"] /\ bthid_pid' = [bthid_pid EXCEPT ![q] = q]
      \/ daemon' = daemon /\ bthid_pid' = [bthid_pid EXCEPT ![q] = -1]
  BY DEF StartKeyboard
<1>3. KeyboardType
  BY DEF HearInv
<1>4. StandingOf(q) /\ window[q] = "none" /\ left[q] = "none" /\ daemon[q] = "none" /\ q \notin Alive
  BY <1>1 DEF HearInv, Standing, StandingOf, Alive
<1> HIDE DEF q
<1>5. KeyboardType'
  <2>1. window' \in [Sessions -> Opened \cup {"none", "exited"}]
    BY <1>1, <1>3 DEF KeyboardType, Opened
  <2>2. daemon' \in [Sessions -> DaemonPoints]
    BY <1>1, <1>2, <1>3 DEF KeyboardType, DaemonPoints
  <2>3. bthid_pid' \in [Sessions -> Sessions \cup {-1, 0}]
    BY <1>1, <1>2, <1>3 DEF KeyboardType
  <2> QED
    BY <1>1, <1>3, <2>1, <2>2, <2>3 DEF KeyboardType
<1>6. \A p \in Sessions \ {q} : /\ window'[p] = window[p] /\ daemon'[p] = daemon[p]
                                /\ bthid_pid'[p] = bthid_pid[p]
  BY <1>1, <1>2, <1>3 DEF KeyboardType
<1>7. /\ window'[q] = "main"
      /\ \/ daemon'[q] = "none"
         \/ daemon'[q] = "sdp_open" /\ bthid_pid'[q] = q
  BY <1>1, <1>2, <1>3, <1>4 DEF KeyboardType
<1>8. Standing'
  <2>1. Alive \subseteq Alive'
    BY <1>4, <1>6 DEF Alive
  <2>2. ASSUME NEW p \in Sessions PROVE StandingOf(p)'
    <3>1. StandingOf(p) /\ p \in Nat
      BY SessionsAreNat DEF HearInv, Standing
    <3>2. CASE p = q
      BY <1>1, <1>4, <1>7, <3>1, <3>2 DEF StandingOf, Alive
    <3>3. CASE p # q
      <4>1. (p > sessions') => (p > sessions)
        BY <1>1, <3>1 DEF q
      <4>2. (p =< sessions') => (p =< sessions)
        BY <1>1, <3>1, <3>3 DEF q
      <4> QED
        BY <1>1, <1>6, <3>1, <3>3, <4>1, <4>2 DEF StandingOf, Alive
    <3> QED
      BY <3>2, <3>3
  <2> QED
    BY <1>1, <2>1, <2>2 DEF HearInv, Standing
<1>9. Told' /\ Listeners'
  BY <1>1, <1>4, <1>6 DEF HearInv, Told, Listeners, Alive
<1>10. Unheard'
  <2>1. \A p \in Sessions, c \in {"ctrl", "intr"} : daemon'[p] \in Past[c] => daemon[p] \in Past[c]
    BY <1>6, <1>7 DEF Past
  <2> QED
    BY <1>1, <2>1 DEF HearInv, Unheard, UnheardOf, Orphaned
<1> QED
  BY <1>5, <1>8, <1>9, <1>10 DEF HearInv

\* A window tells its daemon, or leaves it behind.
LEMMA HearWindow ==
  ASSUME HearInv, NEW q \in Sessions, WindowMoves(q)
  PROVE  HearInv'
<1>1. /\ UNCHANGED <<sessions, bthid_pid, daemon, psm, excused>> /\ window[q] \in Opened
      /\ Stays(q) \/ Deserts(q) \/ Quit(q) \/ QuitAll(q)
  BY WindowFacts
<1>2. KeyboardType /\ Standing /\ Alive' = Alive
  BY <1>1 DEF HearInv, Alive
<1>3. left[q] = "none" /\ window[q] \notin {"none", "exited"}
  BY <1>1, <1>2 DEF Standing, StandingOf, Opened
\* What holds of every window and its daemon afterwards.
<1> DEFINE Good(p) ==
      /\ window'[p] \in Opened \cup {"none", "exited"} /\ left'[p] \in Ways \cup {"none"}
      /\ window'[p] = "none" <=> window[p] = "none"
      /\ (window'[p] = "exited") <=> (left'[p] # "none")
      /\ left[p] # "none" => left'[p] = left[p]
      /\ left'[p] \in {"quit", "killed"} /\ p \in Alive => p \in signalled'
<1>4. /\ window' = [p \in Sessions |-> window'[p]] /\ left' = [p \in Sessions |-> left'[p]]
      /\ signalled \subseteq signalled' /\ signalled' \subseteq Alive
      /\ \A p \in Sessions : Good(p)
  <2>0. /\ \A p \in Sessions : /\ window[p] \in Opened \cup {"none", "exited"}
                               /\ left[p] \in Ways \cup {"none"}
                               /\ (window[p] = "exited") <=> (left[p] # "none")
                               /\ left[p] \in {"quit", "killed"} /\ p \in Alive => p \in signalled
        /\ window = [p \in Sessions |-> window[p]] /\ left = [p \in Sessions |-> left[p]]
        /\ signalled \subseteq Alive
    BY <1>2 DEF HearInv, KeyboardType, Standing, StandingOf, Told
  <2>1. CASE Stays(q)
    <3>1. PICK w \in Opened : window' = [window EXCEPT ![q] = w]
      BY <2>1 DEF Stays
    <3>2. left' = left /\ signalled' = signalled
      BY <2>1 DEF Stays
    <3>3. w \notin {"none", "exited"}
      BY DEF Opened
    <3> QED
      BY <1>3, <2>0, <3>1, <3>2, <3>3
  <2>2. CASE Deserts(q)
    <3>1. PICK how \in {"early", "closed"} : Leaves(q, how)
      BY <2>2 DEF Deserts
    <3>2. signalled' = signalled
      BY <2>2 DEF Deserts
    <3> QED
      BY <1>3, <2>0, <3>1, <3>2 DEF Leaves, Ways
  <2>3. CASE Quit(q)
    <3>1. Leaves(q, "quit") /\ signalled' = signalled \cup ({bthid_pid[q]} \cap Alive)
      BY <2>3 DEF Quit
    <3>2. q \in Alive => bthid_pid[q] = q
      BY <1>2 DEF Standing, StandingOf
    <3> QED
      BY <1>3, <2>0, <3>1, <3>2 DEF Leaves, Ways
  <2>4. CASE QuitAll(q)
    <3>1. /\ window' = [p \in Sessions |-> IF window[p] \in Opened THEN "exited" ELSE window[p]]
          /\ left' = [p \in Sessions |-> CASE p = q -> "quit"
                                          [] p # q /\ window[p] \in Opened -> "killed"
                                          [] OTHER -> left[p]]
          /\ signalled' = signalled \cup Alive
      BY <2>4 DEF QuitAll
    <3>2. \A p \in Sessions : Good(p)
      <4> SUFFICES ASSUME NEW p \in Sessions PROVE Good(p)
        OBVIOUS
      <4>1. CASE window[p] \in Opened
        <5>1. window'[p] = "exited" /\ left'[p] \in {"quit", "killed"} /\ left[p] = "none"
          BY <1>3, <2>0, <3>1, <4>1 DEF Opened
        <5> QED
          BY <3>1, <4>1, <5>1 DEF Ways, Opened
      <4>2. CASE window[p] \notin Opened
        <5>1. window'[p] = window[p] /\ left'[p] = left[p]
          BY <1>1, <3>1, <4>2
        <5> QED
          BY <2>0, <3>1, <5>1
      <4> QED
        BY <4>1, <4>2
    <3> QED
      BY <2>0, <3>1, <3>2
  <2> QED
    BY <1>1, <2>1, <2>2, <2>3, <2>4
<1>5. KeyboardType'
  <2>1. window' \in [Sessions -> Opened \cup {"none", "exited"}]
    BY <1>4
  <2>2. left' \in [Sessions -> Ways \cup {"none"}]
    BY <1>4
  <2>3. signalled' \subseteq Sessions
    BY <1>4 DEF Alive
  <2> QED
    BY <1>1, <1>2, <2>1, <2>2, <2>3 DEF KeyboardType
<1>6. Standing'
  <2> SUFFICES ASSUME NEW p \in Sessions PROVE StandingOf(p)'
    BY <1>2, <1>4 DEF Standing
  <2>1. p > sessions => left[p] = "none" /\ left'[p] = "none"
    BY <1>2, <1>4 DEF Standing, StandingOf
  <2> QED
    BY <1>1, <1>2, <1>4, <2>1 DEF Standing, StandingOf
<1>7. Told'
  BY <1>2, <1>4 DEF Told
<1>8. Listeners'
  BY <1>1, <1>2 DEF HearInv, Listeners
<1>9. Unheard'
  <2>1. \A p \in Sessions : Orphaned(p) => Orphaned(p)'
    BY <1>4 DEF Orphaned
  <2> QED
    BY <1>1, <2>1 DEF HearInv, Unheard, UnheardOf
<1> QED
  BY <1>5, <1>6, <1>7, <1>8, <1>9 DEF HearInv

\* A daemon that takes a channel finds it taken only by one that its window did not
\* tell to go, or is excused.
LEMMA HearListen ==
  ASSUME HearInv, NEW q \in Sessions, Listen(q)
  PROVE  HearInv'
<1> DEFINE c0 == daemon[q]
<1>0. /\ psm \in [{"ctrl", "intr"} -> Sessions \cup {0}]
      /\ daemon \in [Sessions -> DaemonPoints]
      /\ KeyboardType /\ Standing
  BY DEF HearInv, KeyboardType
<1>1. /\ c0 \in {"ctrl", "intr"} /\ Goto(q, IF c0 = "ctrl" THEN "intr" ELSE "accept")
      /\ \/ psm[c0] = 0 /\ psm' = [psm EXCEPT ![c0] = q] /\ excused' = excused
         \/ psm[c0] # 0 /\ psm' = psm /\ (q \in excused' \/ ~NoOrphan(psm[c0]))
         \/ psm' = psm /\ q \in excused'
      /\ excused \subseteq excused' /\ excused' \subseteq excused \cup {q}
      /\ UNCHANGED <<sessions, window, left, bthid_pid, signalled>>
  BY <1>0 DEF Listen, windows
<1>2. Alive' = Alive /\ q \in Alive
  BY <1>0, <1>1 DEF Alive, Goto
<1>3. KeyboardType'
  BY <1>0, <1>1 DEF KeyboardType, Goto, DaemonPoints
<1>4. Standing'
  <2>1. \A p \in Sessions : daemon'[p] = "none" <=> daemon[p] = "none"
    BY <1>0, <1>1 DEF Goto
  <2> QED
    BY <1>0, <1>1, <1>2, <2>1 DEF Standing, StandingOf
<1>5. Told' /\ Listeners'
  BY <1>0, <1>1, <1>2 DEF HearInv, Told, Listeners
<1>6. ASSUME NEW p \in Sessions, NEW c \in {"ctrl", "intr"},
             p \notin excused', daemon'[p] \in Past[c], psm'[c] # p
      PROVE  Orphaned(p)'
  <2> SUFFICES Orphaned(p)
    BY <1>1 DEF Orphaned
  <2>1. CASE daemon[p] \in Past[c]
    <3>1. psm[c] # p /\ p \notin excused
      \* Nobody loses a channel to another.
      BY <1>0, <1>1, <1>6 DEF Sessions
    <3> QED
      BY <2>1, <3>1 DEF HearInv, Unheard, UnheardOf
  <2>2. CASE daemon[p] \notin Past[c]
    <3>1. p = q /\ c = c0
      BY <1>0, <1>1, <1>6, <2>2 DEF Goto, Past
    <3>2. psm[c] # 0 /\ psm[c] # p /\ ~NoOrphan(psm[c])
      BY <1>0, <1>1, <1>6, <3>1
    <3>3. PICK r \in Alive : psm[c] = r /\ r # p /\ r \in Sessions
      BY <3>2 DEF HearInv, Listeners, Alive
    <3>4. r \notin signalled /\ window[r] \notin Opened
      BY <3>2, <3>3 DEF NoOrphan
    <3>5. window[r] = "exited"
      <4>1. r =< sessions
        BY <1>0, <3>3, SessionsAreNat DEF Standing, StandingOf, Alive, KeyboardType
      <4> QED
        BY <1>0, <3>3, <3>4, <4>1 DEF Standing, StandingOf, KeyboardType
    <3>6. left[r] \in Ways /\ left[r] \notin {"quit", "killed"}
      BY <1>0, <3>3, <3>4, <3>5 DEF HearInv, Told, Standing, StandingOf, KeyboardType
    <3> QED
      BY <3>3, <3>6 DEF Orphaned, Ways
  <2> QED
    BY <2>1, <2>2
<1> QED
  BY <1>3, <1>4, <1>5, <1>6 DEF HearInv, Unheard, UnheardOf

LEMMA HearDaemon ==
  ASSUME HearInv, NEW q \in Sessions, DaemonMoves(q)
  PROVE  HearInv'
<1>0. KeyboardType /\ Standing /\ signalled \subseteq Alive
  BY DEF HearInv, Standing
<1>1. UNCHANGED <<sessions, window, left, bthid_pid>> /\ q \in Alive
  BY <1>0, DaemonFacts DEF windows
<1>2. CASE Listen(q)
  BY <1>2, HearListen
<1>3. CASE Proceeds(q)
  <2>1. UNCHANGED <<psm, signalled, excused>>
    BY <1>3 DEF Proceeds
  <2>2. \/ daemon' = daemon
        \/ \E d \in DaemonPoints \ {"none", "dead"} : daemon' = [daemon EXCEPT ![q] = d]
    BY <1>3 DEF Proceeds, Goto, DaemonPoints
  <2>3. Alive' = Alive /\ \A p \in Sessions : daemon'[p] = "none" <=> daemon[p] = "none"
    BY <1>0, <1>1, <2>2 DEF Alive, KeyboardType
  <2>4. KeyboardType' /\ Standing'
    BY <1>0, <1>1, <2>1, <2>2, <2>3 DEF KeyboardType, Standing, StandingOf
  <2>5. \A p \in Sessions, c \in {"ctrl", "intr"} : daemon'[p] \in Past[c] => daemon[p] \in Past[c]
    <3>1. \A p \in Sessions \ {q} : daemon'[p] = daemon[p]
      BY <1>0, <2>2 DEF KeyboardType
    <3>2. \/ daemon'[q] \in {"sdp_add_keyboard", "ctrl", daemon[q]}
          \/ {daemon[q], daemon'[q]} \subseteq {"accept", "serve"}
      BY <1>0, <1>3 DEF Proceeds, Goto, KeyboardType
    <3>3. \A c \in {"ctrl", "intr"} : daemon'[q] \in Past[c] => daemon[q] \in Past[c]
      BY <3>2 DEF Past
    <3> QED
      BY <3>1, <3>3
  <2> QED
    BY <1>1, <2>1, <2>3, <2>4, <2>5
       DEF HearInv, Told, Listeners, Unheard, UnheardOf, Orphaned
<1>4. CASE Dies(q) /\ excused' = excused
  <2>1. /\ daemon' = [daemon EXCEPT ![q] = "dead"] /\ signalled' = signalled \ {q}
        /\ psm' = [c \in DOMAIN psm |-> IF psm[c] = q THEN 0 ELSE psm[c]]
    BY <1>4 DEF Dies, Goto
  <2>2. Alive' = Alive \ {q} /\ \A p \in Sessions : daemon'[p] = "none" <=> daemon[p] = "none"
    BY <1>0, <1>1, <2>1 DEF Alive, KeyboardType
  <2>3. KeyboardType'
    BY <1>0, <1>1, <1>4, <2>1 DEF KeyboardType, DaemonPoints
  <2>4. Standing'
    BY <1>0, <1>1, <2>1, <2>2 DEF Standing, StandingOf
  <2>5. Told' /\ Listeners'
    BY <1>0, <1>1, <2>1, <2>2 DEF HearInv, Told, Listeners, KeyboardType
  <2>6. \A p \in Sessions, c \in {"ctrl", "intr"} :
          daemon'[p] \in Past[c] => daemon[p] \in Past[c] /\ p # q
    <3>1. daemon'[q] = "dead" /\ \A p \in Sessions \ {q} : daemon'[p] = daemon[p]
      BY <1>0, <2>1 DEF KeyboardType
    <3>2. \A c \in {"ctrl", "intr"} : "dead" \notin Past[c]
      BY DEF Past
    <3> QED
      BY <3>1, <3>2
  <2>7. Unheard'
    <3> SUFFICES ASSUME NEW p \in Sessions, NEW c \in {"ctrl", "intr"},
                        p \notin excused', daemon'[p] \in Past[c], psm'[c] # p
                 PROVE  Orphaned(p)'
      BY DEF Unheard, UnheardOf
    <3>1. psm[c] # p /\ p \notin excused /\ daemon[p] \in Past[c]
      BY <1>0, <1>4, <2>1, <2>6 DEF KeyboardType
    <3> QED
      BY <1>1, <3>1 DEF HearInv, Unheard, UnheardOf, Orphaned
  <2> QED
    BY <2>3, <2>4, <2>5, <2>7 DEF HearInv
<1> QED
  BY <1>0, <1>2, <1>3, <1>4, DaemonFacts

LEMMA HearStep ==
  ASSUME HearInv, [Next]_vars
  PROVE  HearInv'
<1>1. ASSUME NEW r \in Runs, RunWrapper(r) \/ Works(r) PROVE HearInv'
  <2>1. CASE StartKeyboard(r)
    BY <2>1, HearStart
  <2>2. CASE ~StartKeyboard(r)
    <3>1. Quiet
      BY <1>1, <2>2, QuietSteps, WorkFrame DEF Quiet, windows
    <3> QED
      BY <3>1, HearQuiet
  <2> QED
    BY <2>1, <2>2
<1>2. CASE SdpdStops \/ UNCHANGED vars
  BY <1>2, QuietSteps, HearQuiet
<1> QED
  BY <1>1, <1>2, HearWindow, HearDaemon, Moves

LEMMA HearInvariance == Spec => []HearInv
BY InitHear, HearStep, PTL DEF Spec

\* However many runs overlap, and however their windows are closed, left and killed: a
\* daemon that does not hear a host, although no call of its own failed and neither a
\* dying daemon nor one with a window had its channel, has an orphan to thank for it
\* (xkbd.c 240, 256 and 449, hidcd.c 89).
THEOREM DeafDaemonsHaveOrphans == Spec => []DeafBehindOrphan
<1>1. HearInv => DeafBehindOrphan
  <2> SUFFICES ASSUME HearInv, NEW p \in Sessions, Deaf(p), p \notin excused
               PROVE  Orphaned(p)
    BY DEF DeafBehindOrphan, Orphaned
  <2>1. PICK c \in {"ctrl", "intr"} : psm[c] # p
    BY DEF Deaf
  <2>2. daemon[p] \in Past[c]
    BY DEF Deaf, Past
  <2> QED
    BY <2>1, <2>2 DEF HearInv, Unheard, UnheardOf
<1> QED
  BY <1>1, HearInvariance, PTL

-----------------------------------------------------------------------------
(* The adapter.                                                             *)

\* A run that has met no other is the only one.
Alone(r) == r \in Busy /\ "overlap" \notin lapse[r] => \A s \in Busy : s = r

\* A run that has lost no step has set the adapter up as far as it has come.
SetUp(r) ==
  r \in Busy /\ lapse[r] = {} =>
    /\ Len(wrappers[r]) = 1
    /\ Stage(r) \in 2..6 => adapter.scan = "piscan"
    /\ Stage(r) \in 3..7 => adapter.class = "keyboard"

\* A run waits for every window.
Waits(r, p) == r \in Busy /\ child[r] = p /\ Stage(r) = 5
Awaited == \A p \in Sessions : window[p] \in Opened => \E r \in Runs : Waits(r, p)

AdapterInv ==
  RunType /\ (\A r \in Runs : Alone(r) /\ SetUp(r)) /\ Awaited /\ AdapterIsReverted

LEMMA InitAdapter == Init => AdapterInv
<1> SUFFICES ASSUME Init PROVE AdapterInv
  OBVIOUS
<1>1. /\ wrappers = [r \in Runs |-> <<>>] /\ child = [r \in Runs |-> 0]
      /\ lapse = [r \in Runs |-> {}] /\ adapter = [scan |-> "pscan", class |-> "default"]
      /\ window = [p \in Sessions |-> "none"]
  BY DEF Init, Default
<1>2. RunType
  <2>1. <<>> \in Seq(1..8)
    OBVIOUS
  <2> QED
    BY <1>1, <2>1 DEF RunType
<1>3. Busy = {}
  BY <1>1 DEF Busy
<1>4. Awaited
  BY <1>1 DEF Awaited, Opened
<1>5. AdapterIsReverted
  BY <1>1 DEF AdapterIsReverted
<1> QED
  BY <1>2, <1>3, <1>4, <1>5 DEF AdapterInv, Alone, SetUp

\* Nothing happens to the runs and the adapter, and no window opens.
LEMMA AdapterStays ==
  ASSUME AdapterInv, UNCHANGED <<wrappers, child, lapse, adapter>>,
         \A p \in Sessions : window'[p] \in Opened => window[p] \in Opened
  PROVE  AdapterInv'
<1>1. Busy' = Busy /\ \A r \in Runs : Stage(r)' = Stage(r)
  BY DEF Busy, Stage
<1>2. \A r, n : Ahead(r, n)' = Ahead(r, n)
  BY DEF Ahead
<1>3. RunType' /\ AdapterIsReverted'
  BY <1>2 DEF AdapterInv, RunType, AdapterIsReverted
<1>4. \A r \in Runs : Alone(r)' /\ SetUp(r)'
  BY <1>1 DEF AdapterInv, Alone, SetUp
<1>5. Awaited'
  BY <1>1 DEF AdapterInv, Awaited, Waits
<1> QED
  BY <1>3, <1>4, <1>5 DEF AdapterInv

LEMMA AdapterWindow ==
  ASSUME AdapterInv, NEW q \in Sessions, WindowMoves(q)
  PROVE  AdapterInv'
<1>1. UNCHANGED <<adapter, child>> /\ window[q] \in Opened
      /\ (Stays(q) \/ Deserts(q) \/ Quit(q) \/ QuitAll(q))
  BY WindowFacts
<1>2. CASE Stays(q) \/ Deserts(q) \/ Quit(q)
  <2>1. UNCHANGED <<wrappers, lapse>>
    BY <1>2 DEF Stays, Deserts, Quit, runs
  <2>2. \E w : window' = [window EXCEPT ![q] = w]
    BY <1>2 DEF Stays, Deserts, Quit, Leaves
  <2>3. ASSUME NEW p \in Sessions, window'[p] \in Opened PROVE window[p] \in Opened
    <3>1. CASE p = q
      BY <1>1, <3>1
    <3>2. CASE p # q
      <4>1. window'[p] = window[p]
        BY <2>2, <3>2
      <4> QED
        BY <2>3, <4>1
    <3> QED
      BY <3>1, <3>2
  <2> QED
    BY <1>1, <2>1, <2>3, AdapterStays
<1>3. CASE QuitAll(q)
  <2>1. /\ window' = [p \in Sessions |-> IF window[p] \in Opened THEN "exited" ELSE window[p]]
        /\ wrappers' = [r \in Runs |-> <<>>]
        /\ lapse' = [r \in Runs |-> IF r \in Busy THEN lapse[r] \cup Reverts ELSE lapse[r]]
    BY <1>3 DEF QuitAll
  <2>2. RunType'
    <3>1. <<>> \in Seq(1..8)
      OBVIOUS
    <3>2. \A r \in Runs : lapse'[r] \in SUBSET Losses
      BY <2>1 DEF AdapterInv, RunType, Losses
    <3> QED
      BY <1>1, <2>1, <3>1, <3>2 DEF AdapterInv, RunType
  <2>3. Busy' = {}
    BY <2>1 DEF Busy
  <2>4. Awaited'
    BY <2>1 DEF Awaited, Opened
  <2>5. \A r \in Runs : \A n : Ahead(r, n) => r \in Busy
    <3>1. DOMAIN <<>> = {}
      OBVIOUS
    <3> QED
      BY <3>1 DEF Ahead, Busy
  <2>6. AdapterIsReverted'
    BY <1>1, <2>1, <2>5 DEF AdapterInv, AdapterIsReverted, Reverts
  <2> QED
    BY <2>2, <2>3, <2>4, <2>6 DEF AdapterInv, Alone, SetUp
<1> QED
  BY <1>1, <1>2, <1>3

LEMMA AdapterBegin ==
  ASSUME AdapterInv, NEW r \in Runs, RunWrapper(r)
  PROVE  AdapterInv'
<1>1. /\ r \notin Busy /\ wrappers' = [wrappers EXCEPT ![r] = <<1>>]
      /\ lapse' = [s \in Runs |-> (IF s = r THEN {} ELSE lapse[s])
                    \cup (IF Busy # {} /\ s \in Busy \cup {r} THEN {"overlap"} ELSE {})]
      /\ UNCHANGED <<adapter, child, window>>
  BY DEF RunWrapper, device, windows
<1>2. /\ wrappers \in [Runs -> Seq(1..8)] /\ lapse \in [Runs -> SUBSET Losses]
      /\ <<1>> \in Seq(1..8) /\ RunType
  BY DEF AdapterInv, RunType
<1>3. RunType'
  <2>1. \A s \in Runs : lapse'[s] \in SUBSET Losses
    BY <1>1, <1>2 DEF Losses
  <2> QED
    BY <1>1, <1>2, <2>1 DEF RunType
<1>4. /\ Busy' = Busy \cup {r} /\ wrappers'[r] = <<1>> /\ Stage(r)' = 1
      /\ \A s \in Runs \ {r} : wrappers'[s] = wrappers[s] /\ Stage(s)' = Stage(s)
  <2>1. Last(<<1>>) = 1
    BY DEF Last
  <2> QED
    BY <1>1, <1>2, <2>1 DEF Busy, Stage
<1>5. \A s \in Runs : Alone(s)'
  BY <1>1, <1>4 DEF Alone, Busy
<1>6. \A s \in Runs : SetUp(s)'
  <2>1. Len(<<1>>) = 1
    OBVIOUS
  <2>2. \A s \in Runs \ {r} : lapse'[s] = {} => lapse[s] = {}
    BY <1>1
  <2> QED
    BY <1>1, <1>4, <2>1, <2>2 DEF AdapterInv, SetUp
<1>7. Awaited'
  BY <1>1, <1>4 DEF AdapterInv, Awaited, Waits
<1>8. AdapterIsReverted'
  <2>1. \A n \in {6, 7} : Ahead(r, n)'
    <3>1. 1 \in DOMAIN <<1>> /\ <<1>>[1] = 1
      OBVIOUS
    <3> QED
      BY <1>4, <3>1 DEF Ahead
  <2>2. \A s \in Runs \ {r} : lapse[s] \subseteq lapse'[s]
    BY <1>1
  <2>3. \A s \in Runs \ {r} : \A n : Ahead(s, n)' = Ahead(s, n)
    BY <1>4 DEF Ahead
  <2> QED
    BY <1>1, <2>1, <2>2, <2>3 DEF AdapterInv, AdapterIsReverted
<1> QED
  BY <1>3, <1>5, <1>6, <1>7, <1>8 DEF AdapterInv

\* What has to be reverted has a step to come, in a run, or lost there.
Undo == [n \in {6, 7} |-> Stages[n]]
Pending(s, n) == Ahead(s, n) \/ Undo[n] \in lapse[s]

\* It remains so until that step is done.
LEMMA PendingStays ==
  ASSUME RunType, NEW r \in Runs, Works(r), NEW s \in Runs, NEW n \in {6, 7}, Pending(s, n)
  PROVE  Pending(s, n)' \/ (RunTool(r) /\ Stage(r) = n)
<1>1. CASE Undo[n] \in lapse[s]
  <2>1. lapse[s] \subseteq lapse'[s]
    BY WorkType
  <2> QED
    BY <1>1, <2>1 DEF Pending, Undo
<1>2. CASE s # r
  <2>1. wrappers'[s] = wrappers[s] /\ lapse'[s] = lapse[s]
    BY <1>2, WorkType
  <2> QED
    BY <2>1 DEF Pending, Ahead, Undo
<1>3. CASE Ahead(s, n) /\ s = r
  <2>1. PICK i \in DOMAIN wrappers[r] : wrappers[r][i] =< n
    BY <1>3 DEF Ahead
  <2>2. /\ r \in Busy /\ Stage(r) \in 1..8 /\ Here(r) = Stages[Stage(r)]
        /\ Len(wrappers[r]) \in Nat \ {0} /\ i \in 1..Len(wrappers[r])
        /\ Stage(r) = wrappers[r][Len(wrappers[r])]
    BY <2>1, WorkFacts, TopOf
  <2>3. CASE Stage(r) = n
    <3>1. CASE Loses(r)
      <4>1. Here(r) \in Reverts /\ Here(r) = Undo[n]
        BY <2>2, <2>3, StageNumbers DEF Undo
      <4>2. Undo[n] \in lapse'[r]
        BY <3>1, <4>1 DEF Loses, RunType
      <4>3. Undo' = Undo
        BY DEF Undo
      <4> QED
        BY <1>3, <4>2, <4>3 DEF Pending
    <3>2. CASE RunTool(r)
      BY <2>3, <3>2
    <3> QED
      BY <2>3, <3>1, <3>2, WorkFacts
  <2>4. CASE Stage(r) # n
    <3> DEFINE t == wrappers'[r]
    <3>1. SUFFICES \E k \in DOMAIN t : t[k] =< n
      BY <1>3 DEF Pending, Ahead
    <3>5. \/ t = Moved(r, Stage(r) + 1) /\ Stage(r) # 8
          \/ t = Moved(r, 6) /\ Stage(r) = 4
          \/ t = Append(Moved(r, Stage(r) + 1), Stage(r) + 1) /\ Stage(r) # 8
          \/ t = Front(wrappers[r]) /\ Stage(r) = 8
      BY <2>2, WorkFacts DEF t
    <3> HIDE DEF t
    \* The wrapper at work goes on, and stays short of the step if it was.
    <3>2. ASSUME NEW m \in 1..8, m = Stage(r) + 1 \/ (m = 6 /\ Stage(r) = 4), t = Moved(r, m)
          PROVE  \E k \in DOMAIN t : t[k] =< n
      <4>0. /\ Moved(r, m) \in Seq(1..8) /\ Len(Moved(r, m)) = Len(wrappers[r])
            /\ \A k \in 1..Len(wrappers[r]) :
                 Moved(r, m)[k] = IF k = Len(wrappers[r]) THEN m ELSE wrappers[r][k]
        BY <2>2, MovedOn
      <4>1. /\ Len(t) = Len(wrappers[r]) /\ DOMAIN t = 1..Len(t)
            /\ \A k \in 1..Len(wrappers[r]) : t[k] = IF k = Len(wrappers[r]) THEN m ELSE wrappers[r][k]
        BY <3>2, <4>0
      <4>2. i = Len(wrappers[r]) => m =< n
        BY <2>1, <2>2, <2>4, <3>2
      <4>3. t[i] =< n
        BY <2>1, <2>2, <4>1, <4>2
      <4> QED
        BY <2>2, <4>1, <4>3
    <3>3. ASSUME NEW m \in 1..8, m = Stage(r) + 1, t = Append(Moved(r, m), m)
          PROVE  \E k \in DOMAIN t : t[k] =< n
      <4>0. r \in Busy /\ m \in 1..8 /\ t = Append(Moved(r, m), m)
        BY <2>2, <3>3
      <4> DEFINE u == Append(Moved(r, m), m)
      <4>1a. /\ u \in Seq(1..8) /\ Len(u) = Len(wrappers[r]) + 1
             /\ \A k \in 1..Len(wrappers[r]) : u[k] = IF k = Len(wrappers[r]) THEN m ELSE wrappers[r][k]
        BY <4>0, CopyMade
      <4> HIDE DEF u
      <4>1. /\ t \in Seq(1..8) /\ Len(t) = Len(wrappers[r]) + 1
            /\ \A k \in 1..Len(wrappers[r]) : t[k] = IF k = Len(wrappers[r]) THEN m ELSE wrappers[r][k]
        BY <4>0, <4>1a DEF u
      <4>2. i = Len(wrappers[r]) => m =< n
        BY <2>1, <2>2, <2>4, <3>3
      <4>3. t[i] =< n /\ i \in DOMAIN t
        BY <2>1, <2>2, <4>1, <4>2
      <4> QED
        BY <4>3
    <3>4. CASE t = Front(wrappers[r]) /\ Stage(r) = 8
      <4>1. /\ t \in Seq(1..8) /\ Len(t) = Len(wrappers[r]) - 1
            /\ \A k \in 1..Len(t) : t[k] = wrappers[r][k]
        <5>1. LET u == Front(wrappers[r]) IN
              /\ u \in Seq(1..8) /\ Len(u) = Len(wrappers[r]) - 1
              /\ \A k \in 1..Len(u) : u[k] = wrappers[r][k]
          BY <2>2, CopyEnds
        <5> QED
          BY <3>4, <5>1
      <4>2. i # Len(wrappers[r])
        <5>1. wrappers[r][Len(wrappers[r])] = 8 /\ ~(8 =< n)
          BY <2>2, <3>4
        <5> QED
          BY <2>1, <5>1
      <4>3. t[i] =< n /\ i \in DOMAIN t
        BY <2>1, <2>2, <4>1, <4>2
      <4> QED
        BY <4>3
    <3>6. (Stage(r) # 8 => Stage(r) + 1 \in 1..8) /\ 6 \in 1..8
      BY <2>2
    <3> QED
      BY <3>2, <3>3, <3>4, <3>5, <3>6
  <2> QED
    BY <2>3, <2>4
<1> QED
  BY <1>1, <1>2, <1>3 DEF Pending

\* What a tool that does not fail makes of the adapter.
LEMMA ToolEffect ==
  ASSUME RunType, NEW r \in Runs, RunTool(r)
  PROVE  /\ Stage(r) \in {1, 2, 3, 6, 7}
         /\ Stage(r) = 1 => adapter'.scan = "piscan" /\ adapter'.class = adapter.class
         /\ Stage(r) = 2 => adapter'.class = "keyboard" /\ adapter'.scan = adapter.scan
         /\ Stage(r) = 3 => adapter' = adapter
         /\ Stage(r) = 6 => adapter'.scan = "pscan" /\ adapter'.class = adapter.class
         /\ Stage(r) = 7 => adapter'.class = "default" /\ adapter'.scan = adapter.scan
<1>1. /\ r \in Busy /\ Here(r) \in Tools
      /\ adapter' = CASE Here(r) \in {"piscan", "pscan"} -> [adapter EXCEPT !.scan = Here(r)]
                      [] Here(r) = "keyboard class" -> [adapter EXCEPT !.class = "keyboard"]
                      [] Here(r) = "default class" -> [adapter EXCEPT !.class = "default"]
                      [] OTHER -> adapter
  BY DEF RunTool
<1>2. /\ Stage(r) \in {1, 2, 3, 6, 7}
      /\ Here(r) = "piscan" <=> Stage(r) = 1
      /\ Here(r) = "pscan" <=> Stage(r) = 6
      /\ Here(r) = "keyboard class" <=> Stage(r) = 2
      /\ Here(r) = "default class" <=> Stage(r) = 7
  <2>1. Stage(r) \in 1..8 /\ Here(r) = Stages[Stage(r)]
    BY <1>1, TopOf
  <2> QED
    BY <1>1, <2>1, StageNumbers
<1>3. adapter \in [scan : {"pscan", "piscan"}, class : {"default", "keyboard"}]
  BY DEF RunType
<1>4. CASE Stage(r) = 1
  BY <1>1, <1>2, <1>3, <1>4
<1>5. CASE Stage(r) = 2
  BY <1>1, <1>2, <1>3, <1>5
<1>6. CASE Stage(r) = 3
  <2>1. Here(r) = "sdpd"
    <3>1. Here(r) = Stages[Stage(r)]
      BY <1>1, TopOf
    <3>2. Stages[3] = "sdpd"
      BY DEF Stages
    <3> QED
      BY <1>6, <3>1, <3>2
  <2>2. adapter' = adapter
    BY <1>1, <2>1
  <2> QED
    BY <1>6, <2>2
<1>7. CASE Stage(r) = 6
  BY <1>1, <1>2, <1>3, <1>7
<1>8. CASE Stage(r) = 7
  <2>1. /\ Here(r) \notin {"piscan", "pscan"} /\ Here(r) # "keyboard class"
        /\ Here(r) = "default class"
    BY <1>2, <1>8
  <2>2. adapter' = [adapter EXCEPT !.class = "default"]
    BY <1>1, <2>1
  <2> QED
    BY <1>3, <1>8, <2>2
<1> QED
  BY <1>2, <1>4, <1>5, <1>6, <1>7, <1>8

\* A run that loses no step sets the adapter up one stage after the other.
LEMMA SetUpStep ==
  ASSUME AdapterInv, NEW r \in Runs, Works(r)
  PROVE  SetUp(r)'
<1> SUFFICES ASSUME wrappers'[r] # <<>>, lapse'[r] = {}
             PROVE  /\ Len(wrappers'[r]) = 1
                    /\ Stage(r)' \in 2..6 => adapter'.scan = "piscan"
                    /\ Stage(r)' \in 3..7 => adapter'.class = "keyboard"
  BY DEF SetUp, Busy
<1>1. RunType /\ r \in Busy /\ Stage(r) \in 1..8
  BY WorkFacts, TopOf DEF AdapterInv
<1>2. lapse[r] = {} /\ ~Loses(r)
  <2>1. lapse[r] \subseteq lapse'[r]
    BY <1>1, WorkType
  <2>2. Loses(r) => lapse'[r] # {}
    BY DEF Loses, AdapterInv, RunType
  <2> QED
    BY <2>1, <2>2
<1>3. /\ Len(wrappers[r]) = 1
      /\ Stage(r) \in 2..6 => adapter.scan = "piscan"
      /\ Stage(r) \in 3..7 => adapter.class = "keyboard"
  BY <1>1, <1>2 DEF AdapterInv, SetUp
<1>4. PICK m \in 1..8 : /\ m = Stage(r) + 1 \/ (m = 6 /\ Stage(r) = 4)
                        /\ wrappers'[r] = Moved(r, m)
  <2>1. \/ wrappers'[r] = Moved(r, Stage(r) + 1) /\ Stage(r) # 8
        \/ wrappers'[r] = Moved(r, 6) /\ Stage(r) = 4
        \/ wrappers'[r] = Front(wrappers[r])
    BY <1>1, <1>2, WorkFacts
  <2>2. wrappers'[r] # Front(wrappers[r])
    <3>1. Front(wrappers[r]) \in Seq(1..8) /\ Len(Front(wrappers[r])) = 0
      BY <1>1, <1>3, CopyEnds
    <3> QED
      BY <3>1
  <2>3. Stage(r) # 8 => Stage(r) + 1 \in 1..8
    BY <1>1
  <2> QED
    BY <2>1, <2>2, <2>3
<1>5. Len(wrappers'[r]) = 1 /\ Stage(r)' = m
  BY <1>1, <1>3, <1>4, MovedOn DEF Stage
<1>6. adapter' = adapter \/ RunTool(r)
  BY <1>1, WorkFacts
<1>7. Stage(r) \in {1, 2, 3, 6, 7} => RunTool(r)
  BY <1>1, <1>2, WorkFacts
<1>8. CASE RunTool(r)
  <2>1. m = Stage(r) + 1
    BY <1>1, <1>4, <1>8, ToolEffect
  <2>2. Stage(r) \in {1, 2, 3, 6, 7}
    BY <1>1, <1>8, ToolEffect
  <2>3. CASE Stage(r) = 1
    BY <1>1, <1>3, <1>5, <1>8, <2>1, <2>3, ToolEffect
  <2>4. CASE Stage(r) = 2
    BY <1>1, <1>3, <1>5, <1>8, <2>1, <2>4, ToolEffect
  <2>5. CASE Stage(r) = 3
    BY <1>1, <1>3, <1>5, <1>8, <2>1, <2>5, ToolEffect
  <2>6. CASE Stage(r) = 6
    BY <1>1, <1>3, <1>5, <1>8, <2>1, <2>6, ToolEffect
  <2>7. CASE Stage(r) = 7
    BY <1>1, <1>3, <1>5, <1>8, <2>1, <2>7, ToolEffect
  <2> QED
    BY <2>2, <2>3, <2>4, <2>5, <2>6, <2>7
<1>9. CASE ~RunTool(r)
  <2>1. adapter' = adapter /\ Stage(r) \in {4, 5, 8}
    BY <1>1, <1>6, <1>7, <1>9
  <2> QED
    BY <1>3, <1>4, <1>5, <2>1
<1> QED
  BY <1>5, <1>8, <1>9

LEMMA AdapterWork ==
  ASSUME HearInv, AdapterInv, NEW r \in Runs, Works(r)
  PROVE  AdapterInv'
<1>1. /\ RunType /\ r \in Busy /\ Stage(r) \in 1..8 /\ Here(r) = Stages[Stage(r)]
      /\ \A s \in Runs \ {r} : wrappers'[s] = wrappers[s] /\ lapse'[s] = lapse[s]
      /\ lapse[r] \subseteq lapse'[r]
  BY WorkFacts, WorkType, TopOf DEF AdapterInv
<1>2. /\ child' \in [Runs -> Sessions \cup {0}] /\ \A s \in Runs \ {r} : child'[s] = child[s]
      /\ \A p \in Sessions : window'[p] \in Opened => window[p] \in Opened \/ Waits(r, p)'
  <2>1. CASE StartKeyboard(r)
    <3>0. PICK q : q = sessions + 1
      OBVIOUS
    <3>1. /\ q \in Sessions /\ child' = [child EXCEPT ![r] = q]
          /\ window' = [window EXCEPT ![q] = "main"]
          /\ GoesTo(r, Stage(r) + 1) /\ Here(r) = "keyboard"
      BY <2>1, <3>0, SessionsAreNat DEF StartKeyboard, HearInv, KeyboardType, Sessions
    <3>2. Stage(r) = 4
      BY <1>1, <3>1, StageNumbers
    <3>3. wrappers'[r] = Moved(r, 5)
      BY <1>1, <3>1, <3>2 DEF GoesTo, RunType
    <3>4. wrappers'[r] # <<>> /\ Stage(r)' = 5
      <4>1. 5 \in 1..8
        OBVIOUS
      <4> QED
        BY <1>1, <3>3, <4>1, MovedOn DEF Stage
    <3>5. Waits(r, q)'
      BY <1>1, <3>1, <3>4 DEF Waits, Busy, RunType
    <3>6. \A p \in Sessions \ {q} : window'[p] = window[p]
      BY <3>1
    <3>7. child' \in [Runs -> Sessions \cup {0}] /\ \A s \in Runs \ {r} : child'[s] = child[s]
      BY <1>1, <3>1 DEF RunType
    <3> QED
      BY <3>5, <3>6, <3>7
  <2>2. CASE ~StartKeyboard(r)
    <3>1. child' = child /\ window' = window
      BY <2>2, WorkFrame DEF windows
    <3> QED
      BY <1>1, <3>1 DEF RunType
  <2> QED
    BY <2>1, <2>2
<1>3. RunType'
  BY <1>1, <1>2, WorkType DEF RunType
<1>4. \A s \in Runs : Alone(s)'
  <2>1. Busy' \subseteq Busy
    BY <1>1 DEF Busy
  <2> QED
    BY <1>1, <2>1 DEF AdapterInv, Alone
<1>5. \A s \in Runs : SetUp(s)'
  <2> SUFFICES ASSUME NEW s \in Runs, s # r, s \in Busy', lapse'[s] = {} PROVE FALSE
    BY SetUpStep DEF SetUp
  <2>1. s \in Busy /\ lapse[s] = {}
    BY <1>1 DEF Busy
  <2> QED
    BY <1>1, <2>1 DEF AdapterInv, Alone
<1>6. Awaited'
  <2> SUFFICES ASSUME NEW p \in Sessions, window[p] \in Opened
               PROVE  \E s \in Runs : Waits(s, p)'
    BY <1>2 DEF Awaited
  <2>1. PICK s \in Runs : Waits(s, p)
    BY DEF AdapterInv, Awaited
  <2>2. s # r
    <3>1. Stage(r) = 5 => window[child[r]] = "exited"
      BY <1>1, WorkFacts
    <3> QED
      BY <2>1, <3>1 DEF Waits, Opened
  <2>3. Waits(s, p)'
    BY <1>1, <1>2, <2>1, <2>2 DEF Waits, Busy, Stage
  <2> QED
    BY <2>3
<1>7. AdapterIsReverted'
  <2>1. adapter' = adapter \/ RunTool(r)
    BY <1>1, WorkFacts
  <2>2. /\ adapter.scan = "piscan" => \E s \in Runs : Pending(s, 6)
        /\ adapter.class = "keyboard" => \E s \in Runs : Pending(s, 7)
    BY DEF AdapterInv, AdapterIsReverted, Pending, Undo, Stages
  \* A tool at an early stage has the one that reverts it to come.
  <2>3. ASSUME NEW n \in {6, 7}, RunTool(r), Stage(r) \in {1, 2} PROVE Pending(r, n)'
    <3>1. wrappers'[r] = Moved(r, Stage(r) + 1)
      <4>1. GoesTo(r, Stage(r) + 1) /\ wrappers \in [Runs -> Seq(1..8)]
        BY <1>1, <2>3 DEF RunTool, RunType
      <4> QED
        BY <4>1 DEF GoesTo
    <3>2. /\ wrappers'[r] \in Seq(1..8) /\ Len(wrappers'[r]) \in Nat \ {0}
          /\ wrappers'[r][Len(wrappers'[r])] = Stage(r) + 1
      <4>1. PICK n1 \in 1..8 : n1 = Stage(r) + 1
        BY <2>3
      <4>2. /\ Moved(r, n1) \in Seq(1..8) /\ Len(Moved(r, n1)) = Len(wrappers[r])
            /\ \A i \in 1..Len(wrappers[r]) :
                 Moved(r, n1)[i] = IF i = Len(wrappers[r]) THEN n1 ELSE wrappers[r][i]
        BY <1>1, MovedOn
      <4>3. Len(wrappers[r]) \in Nat \ {0}
        BY <1>1, TopOf
      <4> QED
        BY <3>1, <4>1, <4>2, <4>3
    <3>3. Len(wrappers'[r]) \in DOMAIN wrappers'[r] /\ wrappers'[r][Len(wrappers'[r])] =< n
      BY <2>3, <3>2
    <3> QED
      BY <3>3 DEF Pending, Ahead
  <2>4. adapter'.scan = "piscan" => \E s \in Runs : Pending(s, 6)'
    <3> SUFFICES ASSUME adapter'.scan = "piscan" PROVE \E s \in Runs : Pending(s, 6)'
      OBVIOUS
    <3>1. ~(RunTool(r) /\ Stage(r) = 6)
      BY <1>1, ToolEffect
    <3>2. CASE adapter.scan = "piscan"
      BY <1>1, <2>2, <3>1, <3>2, PendingStays
    <3>3. CASE adapter.scan # "piscan"
      <4>1. RunTool(r) /\ Stage(r) = 1
        BY <1>1, <2>1, <3>3, ToolEffect
      <4> QED
        BY <2>3, <4>1
    <3> QED
      BY <3>2, <3>3
  <2>5. adapter'.class = "keyboard" => \E s \in Runs : Pending(s, 7)'
    <3> SUFFICES ASSUME adapter'.class = "keyboard" PROVE \E s \in Runs : Pending(s, 7)'
      OBVIOUS
    <3>1. ~(RunTool(r) /\ Stage(r) = 7)
      BY <1>1, ToolEffect
    <3>2. CASE adapter.class = "keyboard"
      BY <1>1, <2>2, <3>1, <3>2, PendingStays
    <3>3. CASE adapter.class # "keyboard"
      <4>1. RunTool(r) /\ Stage(r) = 2
        BY <1>1, <2>1, <3>3, ToolEffect
      <4> QED
        BY <2>3, <4>1
    <3> QED
      BY <3>2, <3>3
  <2> QED
    BY <2>4, <2>5 DEF AdapterIsReverted, Pending, Undo, Stages
<1> QED
  BY <1>3, <1>4, <1>5, <1>6, <1>7 DEF AdapterInv

LEMMA AdapterStep ==
  ASSUME HearInv, AdapterInv, [Next]_vars
  PROVE  AdapterInv'
<1>1. CASE SdpdStops \/ UNCHANGED vars
  <2>1. UNCHANGED <<wrappers, child, lapse, adapter, window>>
    BY <1>1 DEF SdpdStops, vars, device, runs, windows
  <2> QED
    BY <2>1, AdapterStays
<1>2. ASSUME NEW p \in Sessions, DaemonMoves(p) PROVE AdapterInv'
  <2>1. UNCHANGED <<wrappers, child, lapse, adapter, window>>
    BY <1>2, DaemonFacts DEF HearInv, Standing, device, runs, windows
  <2> QED
    BY <2>1, AdapterStays
<1> QED
  BY <1>1, <1>2, AdapterWindow, AdapterBegin, AdapterWork, Moves

LEMMA AdapterInvariance == Spec => []AdapterInv
BY InitAdapter, AdapterStep, HearInvariance, PTL DEF Spec

\* However many keyboards are started, and whatever earlier runs have left behind: while
\* a window is open the adapter is set up, unless the run of that window has lost a step
\* or met another run (xkbdbthidwrapper.c 31 to 52).
THEOREM AdapterIsSetUp == Spec => []AdapterIsReady
<1>1. AdapterInv => AdapterIsReady
  <2> SUFFICES ASSUME AdapterInv, NEW p \in Sessions, window[p] \in Opened
               PROVE  adapter = Ready \/ \E r \in Runs : child[r] = p /\ lapse[r] # {}
    BY DEF AdapterIsReady
  <2>1. PICK r \in Runs : Waits(r, p)
    BY DEF AdapterInv, Awaited
  <2>2. CASE lapse[r] # {}
    BY <2>1, <2>2 DEF Waits
  <2>3. CASE lapse[r] = {}
    <3>1. adapter.scan = "piscan" /\ adapter.class = "keyboard"
      BY <2>1, <2>3 DEF AdapterInv, SetUp, Waits
    <3> QED
      BY <3>1 DEF AdapterInv, RunType, Ready
  <2> QED
    BY <2>2, <2>3
<1> QED
  BY <1>1, AdapterInvariance, PTL

\* However runs overlap and windows end, kill(-1) included: the adapter is discoverable,
\* or a keyboard, only as long as some run has the step that reverts it to come or has
\* lost it (xkbdbthidwrapper.c 53 to 64).
THEOREM AdapterReverts == Spec => []AdapterIsReverted
<1>1. AdapterInv => AdapterIsReverted
  BY DEF AdapterInv
<1> QED
  BY <1>1, AdapterInvariance, PTL

-----------------------------------------------------------------------------
(* The records a host reads.                                                *)

\* A stack of protocols leads to its channel.
LEMMA ChannelOf ==
  ASSUME NEW c
  PROVE  Channel(Protocols(c)) = c
<1> DEFINE l2cap == <<L2CAP_UUID, c>>  hidp == <<HIDP_UUID>>
<1>1. Range(Protocols(c)) = {l2cap, hidp}
  BY DEF Range, Protocols
<1>2. l2cap[1] = L2CAP_UUID /\ hidp[1] # L2CAP_UUID /\ l2cap[2] = c
  BY DEF L2CAP_UUID, HIDP_UUID
<1> HIDE DEF l2cap, hidp
<1>3. \A p \in {l2cap, hidp} : p[1] = L2CAP_UUID <=> p = l2cap
  BY <1>2
<1>4. (CHOOSE p \in {l2cap, hidp} : p[1] = L2CAP_UUID) = l2cap
  BY <1>3
<1> QED
  BY <1>1, <1>2, <1>4 DEF Channel

\* The groups, the classes, the profile and the channels.
LEMMA ListsHold ==
  ASSUME NEW ctrl, NEW intr
  PROVE  /\ DOMAIN Lists(ctrl, intr) = {1, 4, 5, 6, 9, 13}
         /\ Lists(ctrl, intr)[4] = Protocols(ctrl)
         /\ Lists(ctrl, intr)[13] = <<Protocols(intr)>>
         /\ Lists(ctrl, intr)[9] = << <<HID_PROFILE_ID, \h100>> >>
<1> USE DEF SDP_ATTR_SVCLASS_ID_LIST, SDP_ATTR_PROTO_DESC_LIST, SDP_ATTR_BROWSE_GRP_LIST,
            SDP_ATTR_LANG_BASE_ATTR_ID_LIST, SDP_ATTR_PFILE_DESC_LIST,
            SDP_ATTR_ADD_PROTO_DESC_LIST
<1>1. DOMAIN General = {1, 5, 6, 9} /\ General[9] = << <<HID_PROFILE_ID, \h100>> >>
  BY DEF General, add_lang_attr, sdp_attr_add_new
<1> DEFINE first == sdp_attr_add_new(General, 4, Protocols(ctrl))
<1>2. /\ DOMAIN first = {1, 4, 5, 6, 9} /\ first[4] = Protocols(ctrl) /\ first[9] = General[9]
  BY <1>1 DEF sdp_attr_add_new
<1>3. Lists(ctrl, intr) = sdp_attr_add_new(first, 13, <<Protocols(intr)>>)
  BY DEF Lists
<1> HIDE DEF first
<1> QED
  BY <1>1, <1>2, <1>3 DEF sdp_attr_add_new

\* The first block of numbers, the descriptor and the languages on top of them.
LEMMA DescribedHolds ==
  ASSUME NEW r, NEW descriptor, DOMAIN r \subseteq 0..\h1ff,
         NEW s, s = Described(r, descriptor)
  PROVE  /\ DOMAIN s = DOMAIN r \cup \h200..\h207
         /\ \A i \in 1..6 : s[\h200 + i - 1] = hid_attr[i]
         /\ Descriptor(s) = descriptor
         /\ \A id \in DOMAIN r : s[id] = r[id]
<1> DEFINE s1 == Numbered(r, \h200, hid_attr)
           s2 == sdp_attr_add_new(s1, \h206, << <<hid_spec_type, descriptor>> >>)
           s3 == sdp_attr_add_new(s2, \h207, <<hid_attr_lang>>)
<1>1. Described(r, descriptor) = s3
  BY DEF Described, SDP_ATTR_HID_DEVICE_RELEASE_NUMBER, SDP_ATTR_HID_DESCRIPTOR_LIST,
         SDP_ATTR_HID_LANG_ID_BASE_LIST
<1>2. Len(hid_attr) = 6
  BY DEF hid_attr
<1>3. /\ DOMAIN s1 = DOMAIN r \cup \h200..\h205
      /\ \A i \in 1..6 : s1[\h200 + i - 1] = hid_attr[i]
      /\ \A id \in DOMAIN r : s1[id] = r[id]
  <2> DEFINE ids == \h200..(\h200 + Len(hid_attr) - 1)
  <2>1. ids = \h200..\h205
    BY <1>2
  <2>2. s1 = [id \in DOMAIN r \cup ids |-> IF id \in ids THEN hid_attr[id - \h200 + 1] ELSE r[id]]
    BY DEF Numbered
  <2>3. \A i \in 1..6 : \h200 + i - 1 \in \h200..\h205 /\ (\h200 + i - 1) - \h200 + 1 = i
    OBVIOUS
  <2>4. \A id \in DOMAIN r : id \notin \h200..\h205
    OBVIOUS
  <2> HIDE DEF s1, ids
  <2> QED
    BY <2>1, <2>2, <2>3, <2>4
<1> HIDE DEF s1
<1>4. /\ DOMAIN s2 = DOMAIN r \cup \h200..\h206
      /\ \A i \in 1..6 : s2[\h200 + i - 1] = hid_attr[i]
      /\ s2[\h206] = << <<hid_spec_type, descriptor>> >>
      /\ \A id \in DOMAIN r : s2[id] = r[id]
  BY <1>3 DEF sdp_attr_add_new
<1> HIDE DEF s2
<1>5. /\ DOMAIN s3 = DOMAIN r \cup \h200..\h207
      /\ \A i \in 1..6 : s3[\h200 + i - 1] = hid_attr[i]
      /\ s3[\h206] = << <<hid_spec_type, descriptor>> >>
      /\ \A id \in DOMAIN r : s3[id] = r[id]
  BY <1>4 DEF sdp_attr_add_new
<1> HIDE DEF s3
<1>6. Descriptor(s3) = descriptor
  <2>1. Range(s3[\h206]) = {<<hid_spec_type, descriptor>>}
    <3> HIDE DEF hid_spec_type
    <3> QED
      BY <1>5 DEF Range
  <2> DEFINE e == CHOOSE e \in Range(s3[\h206]) : e[1] = hid_spec_type
  <2>2. e = <<hid_spec_type, descriptor>>
    BY <2>1
  <2>3. Descriptor(s3) = e[2]
    BY DEF Descriptor, SDP_ATTR_HID_DESCRIPTOR_LIST
  <2> HIDE DEF e
  <2>4. e[2] = descriptor
    BY <2>2
  <2> QED
    BY <2>3, <2>4
<1> QED
  BY <1>1, <1>5, <1>6

\* The flags on top of those: nothing that was there is disturbed.
LEMMA FlagsHold ==
  ASSUME NEW r, DOMAIN r \subseteq 0..\h207
  PROVE  LET s == WithFlags(r) IN
         /\ s[\h208] = hid_attr2[1]
         /\ \A i \in 1..5 : s[\h20a + i - 1] = hid_attr2[i + 1]
         /\ \A id \in DOMAIN r : s[id] = r[id]
<1> DEFINE rest == Tail(hid_attr2)
           s1 == sdp_attr_add_new(r, \h208, Head(hid_attr2))
           s2 == Numbered(s1, \h20a, rest)
<1>1. WithFlags(r) = s2
  BY DEF WithFlags, SDP_ATTR_HID_SDP_DISABLE, SDP_ATTR_HID_REMOTE_WAKEUP
<1>2. /\ Head(hid_attr2) = hid_attr2[1] /\ Len(rest) = 5
      /\ \A i \in 1..5 : rest[i] = hid_attr2[i + 1]
  BY DEF hid_attr2
<1> HIDE DEF rest
<1>3. /\ DOMAIN s1 = DOMAIN r \cup {\h208} /\ s1[\h208] = hid_attr2[1]
      /\ \A id \in DOMAIN r : s1[id] = r[id]
  <2>1. \A id \in DOMAIN r : id # \h208
    OBVIOUS
  <2> HIDE DEF hid_attr2
  <2> QED
    BY <1>2, <2>1 DEF sdp_attr_add_new
<1> HIDE DEF s1
<1>4. /\ \A i \in 1..5 : s2[\h20a + i - 1] = rest[i]
      /\ \A id \in DOMAIN s1 \ (\h20a..\h20e) : s2[id] = s1[id]
  <2> DEFINE ids == \h20a..(\h20a + Len(rest) - 1)
  <2>1. ids = \h20a..\h20e
    BY <1>2
  <2>2. s2 = [id \in DOMAIN s1 \cup ids |->
                IF id \in ids THEN rest[id - \h20a + 1] ELSE s1[id]]
    BY DEF Numbered
  <2>3. \A i \in 1..5 : \h20a + i - 1 \in \h20a..\h20e /\ (\h20a + i - 1) - \h20a + 1 = i
    OBVIOUS
  <2> HIDE DEF s2, ids
  <2> QED
    BY <2>1, <2>2, <2>3
<1> HIDE DEF s2
<1>5. \A id \in DOMAIN s1 : id \notin \h20a..\h20e
  BY <1>3
<1> QED
  BY <1>1, <1>2, <1>3, <1>4, <1>5

\* Both records are understood, if a host reads the reports by the descriptor.
LEMMA RecordsUnderstood ==
  ASSUME ReportsRead(hid_spec)
  PROVE  {KeyboardRecord, SdpTestRecord} \subseteq Understandable
<1> DEFINE l == Lists(17, 19)
           d == Described(l, hid_spec)
           r == WithFlags(d)
<1>1. KeyboardRecord = r /\ SdpTestRecord = r
  BY DEF KeyboardRecord, SdpTestRecord, SdpTestLists, sdp_test_spec,
         L2CAP_PSM_HIDP_CTRL, L2CAP_PSM_HIDP_INTR
<1>2. /\ DOMAIN l = {1, 4, 5, 6, 9, 13}
      /\ l[4] = Protocols(17) /\ l[13] = <<Protocols(19)>>
      /\ l[9] = << <<HID_PROFILE_ID, \h100>> >>
  BY ListsHold
<1> HIDE DEF l
<1>3. /\ DOMAIN d = DOMAIN l \cup \h200..\h207
      /\ \A i \in 1..6 : d[\h200 + i - 1] = hid_attr[i]
      /\ Descriptor(d) = hid_spec
      /\ \A id \in DOMAIN l : d[id] = l[id]
  <2>1. DOMAIN l \subseteq 0..\h1ff
    BY <1>2
  <2>2. d = Described(l, hid_spec)
    OBVIOUS
  <2> HIDE DEF d
  <2> QED
    BY <2>1, <2>2, DescribedHolds
<1> HIDE DEF d
<1>4. /\ r[\h208] = hid_attr2[1]
      /\ \A i \in 1..5 : r[\h20a + i - 1] = hid_attr2[i + 1]
      /\ \A id \in DOMAIN d : r[id] = d[id]
  BY <1>2, <1>3, FlagsHold
<1> HIDE DEF r
<1>5. /\ r[4] = Protocols(17) /\ r[13] = <<Protocols(19)>>
      /\ r[9] = << <<HID_PROFILE_ID, \h100>> >>
      /\ r[\h206] = d[\h206]
  BY <1>2, <1>3, <1>4
<1>6. ChannelsFound(r)
  <2>1. Channel(r[4]) = 17
    BY <1>5, ChannelOf
  <2>2. Head(r[13]) = Protocols(19)
    BY <1>5
  <2>3. Channel(Head(r[13])) = 19
    BY <2>2, ChannelOf
  <2> QED
    BY <2>1, <2>3
       DEF ChannelsFound, SDP_ATTR_PROTO_DESC_LIST, SDP_ATTR_ADD_PROTO_DESC_LIST,
           L2CAP_PSM_HIDP_CTRL, L2CAP_PSM_HIDP_INTR
<1>7. AttributesFound(r)
  <2>1. /\ r[\h200] = \h100 /\ r[\h201] = \h111 /\ r[\h202] = \h40 /\ r[\h203] = \h0d
        /\ r[\h204] = 1 /\ r[\h205] = 1
    <3>1. \A i \in 1..6 : r[\h200 + i - 1] = hid_attr[i]
      <4>1. \A i \in 1..6 : \h200 + i - 1 \in DOMAIN d
        BY <1>3
      <4> QED
        BY <4>1, <1>3, <1>4
    <3>2. /\ r[\h200 + 1 - 1] = hid_attr[1] /\ r[\h200 + 2 - 1] = hid_attr[2]
          /\ r[\h200 + 3 - 1] = hid_attr[3] /\ r[\h200 + 4 - 1] = hid_attr[4]
          /\ r[\h200 + 5 - 1] = hid_attr[5] /\ r[\h200 + 6 - 1] = hid_attr[6]
      BY <3>1
    <3> QED
      BY <3>2 DEF hid_attr
  <2>2. /\ r[\h208] = 0 /\ r[\h20a] = 1 /\ r[\h20b] = \h100 /\ r[\h20d] = 1 /\ r[\h20e] = 1
    <3>1. /\ r[\h20a + 1 - 1] = hid_attr2[2] /\ r[\h20a + 2 - 1] = hid_attr2[3]
          /\ r[\h20a + 4 - 1] = hid_attr2[5] /\ r[\h20a + 5 - 1] = hid_attr2[6]
      BY <1>4
    <3> QED
      BY <3>1, <1>4 DEF hid_attr2
  <2>3. r[9][1][2] = \h100
    BY <1>5
  <2>4. KeyboardClass % 256 = \h40
    BY DEF KeyboardClass
  <2> QED
    BY <2>1, <2>2, <2>3, <2>4
       DEF AttributesFound, SDP_ATTR_HID_DEVICE_RELEASE_NUMBER, SDP_ATTR_HID_PARSER_VERSION,
           SDP_ATTR_HID_DEVICE_SUBCLASS, SDP_ATTR_HID_COUNTRY_CODE, SDP_ATTR_HID_VIRTUAL_CABLE,
           SDP_ATTR_HID_RECONNECT_INITIATE, SDP_ATTR_HID_PROFILE_VERSION,
           SDP_ATTR_PFILE_DESC_LIST, SDP_ATTR_HID_SDP_DISABLE, SDP_ATTR_HID_REMOTE_WAKEUP,
           SDP_ATTR_HID_NORMALLY_CONNECTABLE, SDP_ATTR_HID_BOOT_DEVICE
<1>8. ReportsRead(Descriptor(r))
  <2>1. Descriptor(r) = Descriptor(d)
    BY <1>5 DEF Descriptor, SDP_ATTR_HID_DESCRIPTOR_LIST
  <2> QED
    BY <2>1, <1>3
<1> QED
  BY <1>1, <1>6, <1>7, <1>8 DEF Understandable, Understood

\* Whatever registers a record registers that of a keyboard.
Registrations == \A p \in DOMAIN records : records[p] = KeyboardRecord

LEMMA DisconnectKeeps ==
  ASSUME NEW programs, Registrations, Disconnect(programs)
  PROVE  Registrations'
BY DEF Registrations, Disconnect

LEMMA RegistrationStep ==
  ASSUME Registrations, [Next]_vars
  PROVE  Registrations'
<1>1. CASE UNCHANGED vars
  BY <1>1 DEF vars, service, Registrations
<1>2. CASE UNCHANGED records
  BY <1>2 DEF Registrations
<1>3. CASE SdpdStops
  BY <1>3 DEF SdpdStops, SdpdEnds, Registrations
<1>4. ASSUME NEW p \in Sessions, Dies(p)
      PROVE  Registrations'
  BY <1>4, DisconnectKeeps DEF Dies
<1>5. ASSUME NEW p \in Sessions, Connected(p)
      PROVE  Registrations'
  BY <1>2, <1>4, <1>5 DEF Connected, sdp_open
<1>6. ASSUME NEW p \in Sessions, Registered(p)
      PROVE  Registrations'
  <2>1. CASE p \in sdp_session
    <3>1. records' = [q \in DOMAIN records \cup {p} |->
                        IF q = p THEN KeyboardRecord ELSE records[q]]
      BY <1>6, <2>1 DEF Registered, sdp_add_keyboard
    <3> QED
      BY <3>1 DEF Registrations
  <2>2. CASE p \notin sdp_session
    BY <1>4, <1>6, <2>2 DEF Registered
  <2> QED
    BY <2>1, <2>2
<1>7. ASSUME NEW r \in Runs, RunWrapper(r) \/ Works(r)
      PROVE  Registrations'
  BY <1>2, <1>7
     DEF Works, RunWrapper, Wrapper, RunTool, ToolFails, FallThrough, StartKeyboard, NoKeyboard,
         WaitKeyboard, EndWrapper, NoFork, service
<1>8. ASSUME NEW p \in Sessions, WindowMoves(p)
      PROVE  Registrations'
  <2>1. CASE QuitAll(p)
    BY <1>2, <2>1 DEF QuitAll, SdpdEnds, service, Registrations
  <2>2. CASE ~QuitAll(p)
    BY <1>2, <1>8, <2>2 DEF WindowMoves, OpenWindow, LeaveEarly, Close, Press, bthid_send,
           Quit, service
  <2> QED
    BY <2>1, <2>2
<1>9. ASSUME NEW p \in Sessions, Listen(p) \/ Accept(p) \/ Read(p) \/ Out(p)
      PROVE  Registrations'
  BY <1>2, <1>9 DEF Listen, Accept, Read, Out, service
<1>10. ASSUME NEW p \in Sessions, Terminate(p) \/ WriteFails(p)
       PROVE  Registrations'
  BY <1>4, <1>10 DEF Terminate, WriteFails
<1> QED
  BY <1>1, <1>3, <1>5, <1>6, <1>7, <1>8, <1>9, <1>10, Moves DEF DaemonMoves

\* A host reads the reports by the descriptor: that is a computation on the
\* bytes of one descriptor, which TLC does.  Then it understands every record
\* there ever is, and that of sdp-test.
THEOREM RecordsAreUnderstood ==
  ASSUME ReportsRead(hid_spec)
  PROVE  Spec => []HostUnderstands
<1>1. Init => Registrations
  BY DEF Init, ServiceInit, Registrations
<1>2. Registrations /\ [Next]_vars => Registrations'
  BY RegistrationStep
<1>3. Registrations => HostUnderstands
  <2> SUFFICES ASSUME Registrations PROVE HostUnderstands
    OBVIOUS
  <2>1. Range(records) \subseteq {KeyboardRecord}
    BY DEF Registrations, Range
  <2> QED
    BY <2>1, RecordsUnderstood DEF HostUnderstands
<1> QED
  BY <1>1, <1>2, <1>3, PTL DEF Spec
=============================================================================
