--------------------------- MODULE KeyboardSession --------------------------
(***************************************************************************)
(* The processes of xkbd-bthid on a device: xkbdbthidwrapper, which sets   *)
(* the adapter up, runs the keyboard and reverts the adapter; the keyboard *)
(* window (main of xkbd.c); the daemon it forks (bthid of hidcd.c), seen   *)
(* from outside; and the service discovery daemon.  Every run of the       *)
(* wrapper starts from the menu, at any time: runs may overlap, and each   *)
(* may leave processes to the next.                                        *)
(***************************************************************************)
EXTENDS SdpService

CONSTANTS
  Runs,           \* runs of the wrapper that may be under way at once
  MaxSessions,    \* bound: keyboards started; later ones are left out
  PipeCapacity,   \* bound: events the pipe to a daemon holds
  MaxFailures,    \* bound: forks, tools and listens that fail, and ends of sdpd
  MaxMissing      \* bound: programs that are not installed

ASSUME SessionAssumption ==
  MaxSessions \in Nat \ {0} /\ PipeCapacity \in Nat \ {0} /\ {MaxFailures, MaxMissing} \subseteq Nat

VARIABLES
  installed,      \* the programs the wrapper finds
  adapter,        \* hci0: [scan, class]
  wrappers,       \* run -> the wrapper and its copies, the one that runs last; where each is
  child,          \* run -> the session it has started last, or 0
  lapse,          \* run -> steps that were lost, "set-up" for all that do not revert; "overlap"
  sessions,       \* keyboards started
  window,         \* session -> where main is
  left,           \* session -> how the window ended
  pipe,           \* session -> events in the pipe
  bthid_pid,      \* session -> the session whose daemon it is, or -1
  daemon,         \* session -> where the daemon is
  psm,            \* channel -> the session whose daemon listens, or 0
  signalled,      \* daemons with a SIGTERM under way
  excused,        \* sessions whose daemon something else than an orphan kept from a channel
  failures        \* forks, tools and listens that have failed, and ends of sdpd

device == <<installed, adapter>>
runs == <<wrappers, child, lapse>>
windows == <<sessions, window, left, bthid_pid>>
daemons == <<daemon, psm, signalled, excused>>
vars == <<service, device, runs, windows, pipe, daemons, failures>>

Sessions == 1..MaxSessions
Programs == {"hciconfig", "sdpd", "xkbdbthid"}
Default == [scan |-> "pscan", class |-> "default"]
Ready == [scan |-> "piscan", class |-> "keyboard"]

Init ==
  /\ \E running \in BOOLEAN : ServiceInit(running)
  /\ installed \in {some \in SUBSET Programs : Cardinality(Programs \ some) =< MaxMissing}
  /\ adapter = Default
  /\ wrappers = [r \in Runs |-> <<>>] /\ child = [r \in Runs |-> 0]
  /\ lapse = [r \in Runs |-> {}]
  /\ sessions = 0
  /\ window = [p \in Sessions |-> "none"] /\ left = [p \in Sessions |-> "none"]
  /\ pipe = [p \in Sessions |-> 0]
  /\ bthid_pid = [p \in Sessions |-> 0]
  /\ daemon = [p \in Sessions |-> "none"]
  /\ psm = [c \in {"ctrl", "intr"} |-> 0]
  /\ signalled = {} /\ excused = {} /\ failures = 0

Fails == failures < MaxFailures /\ failures' = failures + 1

-----------------------------------------------------------------------------
(* xkbdbthidwrapper.c.  A wrapper waits for its child: only the last one    *)
(* of the sequence of a run is at work.                                     *)

Stages == <<"piscan", "keyboard class", "sdpd", "keyboard", "waiting",
            "pscan", "default class", "end">>
Busy == {r \in Runs : wrappers[r] # <<>>}
Stage(r) == Last(wrappers[r])
Here(r) == Stages[Stage(r)]
Moved(r, i) == [wrappers[r] EXCEPT ![Len(wrappers[r])] = i]
GoesTo(r, i) == wrappers' = [wrappers EXCEPT ![r] = Moved(r, i)]
Reverts == {"pscan", "default class"}
Loses(r) ==
  lapse' = [lapse EXCEPT ![r] = @ \cup (IF Here(r) \in Reverts THEN {Here(r)} ELSE {"set-up"})]

Program(stage) == IF stage = "sdpd" THEN stage ELSE "hciconfig"
Tools == {"piscan", "keyboard class", "sdpd"} \cup Reverts

\* Nothing looks whether another run is under way.
RunWrapper(r) ==
  /\ r \notin Busy /\ sessions < MaxSessions
  /\ wrappers' = [wrappers EXCEPT ![r] = <<1>>]
  /\ lapse' = [s \in Runs |-> (IF s = r THEN {} ELSE lapse[s])
                \cup (IF Busy # {} /\ s \in Busy \cup {r} THEN {"overlap"} ELSE {})]
  /\ UNCHANGED <<service, device, child, windows, pipe, daemons, failures>>

RunTool(r) ==
  /\ r \in Busy /\ Here(r) \in Tools /\ Program(Here(r)) \in installed
  /\ adapter' = CASE Here(r) \in {"piscan", "pscan"} -> [adapter EXCEPT !.scan = Here(r)]
                  [] Here(r) = "keyboard class" -> [adapter EXCEPT !.class = "keyboard"]
                  [] Here(r) = "default class" -> [adapter EXCEPT !.class = "default"]
                  [] OTHER -> adapter
  /\ sdpd' = (sdpd \/ Here(r) = "sdpd")
  /\ GoesTo(r, Stage(r) + 1)
  /\ UNCHANGED <<sdp_session, records, installed, child, lapse, windows, pipe, daemons, failures>>

\* A tool that fails leaves everything as it was.  Its status is not looked at.
ToolFails(r) ==
  /\ r \in Busy /\ Here(r) \in Tools /\ Program(Here(r)) \in installed
  /\ Fails /\ Loses(r)
  /\ GoesTo(r, Stage(r) + 1)
  /\ UNCHANGED <<service, device, child, windows, pipe, daemons>>

\* A child whose exec fails goes on as a wrapper of its own, and its parent
\* does the same work once more after it.
FallThrough(r) ==
  /\ r \in Busy /\ Here(r) \in Tools /\ Program(Here(r)) \notin installed
  /\ Loses(r)
  /\ wrappers' = [wrappers EXCEPT ![r] = Append(Moved(r, Stage(r) + 1), Stage(r) + 1)]
  /\ UNCHANGED <<service, device, child, windows, pipe, daemons, failures>>

\* fork returns -1, which is taken for a child: the step is left out.
NoFork(r) ==
  /\ r \in Busy /\ Here(r) \in Tools \cup {"keyboard"}
  /\ Fails /\ Loses(r)
  /\ GoesTo(r, Stage(r) + (IF Here(r) = "keyboard" THEN 2 ELSE 1))
  /\ UNCHANGED <<service, device, child, windows, pipe, daemons>>

\* xkbdbthid forks its daemon first, before it looks at an option.  A fork that
\* fails makes -1 of bthid_pid.
StartKeyboard(r) ==
  LET p == sessions + 1 IN
  /\ r \in Busy /\ Here(r) = "keyboard"
  /\ "xkbdbthid" \in installed /\ sessions < MaxSessions
  /\ GoesTo(r, Stage(r) + 1)
  /\ child' = [child EXCEPT ![r] = p]
  /\ sessions' = p
  /\ window' = [window EXCEPT ![p] = "main"]
  /\ \/ daemon' = [daemon EXCEPT ![p] = "sdp_open"] /\ bthid_pid' = [bthid_pid EXCEPT ![p] = p]
        /\ UNCHANGED failures
     \/ UNCHANGED daemon /\ bthid_pid' = [bthid_pid EXCEPT ![p] = -1]
        /\ Fails
  /\ UNCHANGED <<service, device, lapse, left, pipe, psm, signalled, excused>>

\* This child exits when its exec fails.
NoKeyboard(r) ==
  /\ r \in Busy /\ Here(r) = "keyboard"
  /\ "xkbdbthid" \notin installed \/ sessions = MaxSessions
  /\ GoesTo(r, Stage(r) + 2)
  /\ UNCHANGED <<service, device, child, lapse, windows, pipe, daemons, failures>>

\* Mutant: the wrapper does not wait for the keyboard.
WaitKeyboard_Not(r) ==
  /\ r \in Busy /\ Here(r) = "waiting"
  /\ GoesTo(r, Stage(r) + 1)
  /\ UNCHANGED <<service, device, child, lapse, windows, pipe, daemons, failures>>

\* Mutant: the wrapper ends with the keyboard, and reverts nothing.
WaitKeyboard_Ends(r) ==
  /\ r \in Busy /\ Here(r) = "waiting"
  /\ window[child[r]] = "exited"
  /\ GoesTo(r, Stage(r) + 3)
  /\ UNCHANGED <<service, device, child, lapse, windows, pipe, daemons, failures>>

\* Mutant: the wrapper waits for the daemon as well.
WaitKeyboard_Daemon(r) ==
  /\ r \in Busy /\ Here(r) = "waiting"
  /\ window[child[r]] = "exited" /\ daemon[child[r]] \in {"none", "dead"}
  /\ GoesTo(r, Stage(r) + 1)
  /\ UNCHANGED <<service, device, child, lapse, windows, pipe, daemons, failures>>

\* The window, not the daemon, is the child that is waited for.
WaitKeyboard(r) ==
  /\ r \in Busy /\ Here(r) = "waiting"
  /\ window[child[r]] = "exited"
  /\ GoesTo(r, Stage(r) + 1)
  /\ UNCHANGED <<service, device, child, lapse, windows, pipe, daemons, failures>>

EndWrapper(r) ==
  /\ r \in Busy /\ Here(r) = "end"
  /\ wrappers' = [wrappers EXCEPT ![r] = Front(@)]
  /\ UNCHANGED <<service, device, child, lapse, windows, pipe, daemons, failures>>

Wrapper(r) ==
  \/ RunTool(r) \/ ToolFails(r) \/ FallThrough(r)
  \/ StartKeyboard(r) \/ NoKeyboard(r) \/ WaitKeyboard(r) \/ EndWrapper(r)

-----------------------------------------------------------------------------
(* main of xkbd.c.  The window keeps both ends of the pipe open, and so     *)
(* does the daemon, which therefore never reads the end of it.              *)

Opened == {"main", "open", "writing", "quitting"}

OpenWindow(p) ==
  /\ window[p] = "main"
  /\ window' = [window EXCEPT ![p] = "open"]
  /\ UNCHANGED <<service, device, runs, sessions, left, bthid_pid, pipe, daemons, failures>>

Leaves(p, how) ==
  window' = [window EXCEPT ![p] = "exited"] /\ left' = [left EXCEPT ![p] = how]

\* Options -v, -o and -t, an unknown option, no display, no keyboard file.
LeaveEarly(p) ==
  /\ window[p] = "main" /\ Leaves(p, "early")
  /\ UNCHANGED <<service, device, runs, sessions, bthid_pid, pipe, daemons, failures>>

\* WM_DELETE_WINDOW.
Close(p) ==
  /\ window[p] = "open" /\ Leaves(p, "closed")
  /\ UNCHANGED <<service, device, runs, sessions, bthid_pid, pipe, daemons, failures>>

\* A key: its event is written before anything else happens in the window.
Press(p) ==
  /\ window[p] = "open"
  /\ \E next \in {"writing", "quitting"} : window' = [window EXCEPT ![p] = next]
  /\ UNCHANGED <<service, device, runs, sessions, left, bthid_pid, pipe, daemons, failures>>

Written(p) ==
  /\ pipe[p] < PipeCapacity
  /\ pipe' = [pipe EXCEPT ![p] = @ + 1]

bthid_send(p) ==
  /\ window[p] = "writing" /\ Written(p)
  /\ window' = [window EXCEPT ![p] = "open"]
  /\ UNCHANGED <<service, device, runs, sessions, left, bthid_pid, daemons, failures>>

Alive == {p \in Sessions : daemon[p] \notin {"none", "dead"}}

\* Mutant: the daemon is left to notice by itself.
Quit_NoKill(p) ==
  /\ window[p] = "quitting" /\ Written(p) /\ Leaves(p, "quit")
  /\ UNCHANGED <<service, device, runs, sessions, bthid_pid, daemons, failures>>

\* The quit key.
Quit(p) ==
  /\ window[p] = "quitting" /\ bthid_pid[p] # -1 /\ Written(p) /\ Leaves(p, "quit")
  /\ signalled' = signalled \cup ({bthid_pid[p]} \cap Alive)
  /\ UNCHANGED <<service, device, runs, sessions, bthid_pid, daemon, psm, excused, failures>>

\* kill(-1, SIGTERM) reaches every process of the user: the other windows, all the
\* daemons, the wrappers, with what they still had to do, and the sdpd a wrapper of
\* the user has started.
QuitAll(p) ==
  /\ window[p] = "quitting" /\ bthid_pid[p] = -1 /\ Written(p)
  /\ window' = [q \in Sessions |-> IF window[q] \in Opened THEN "exited" ELSE window[q]]
  /\ left' = [q \in Sessions |-> CASE q = p -> "quit"
                                   [] q # p /\ window[q] \in Opened -> "killed"
                                   [] OTHER -> left[q]]
  /\ signalled' = signalled \cup Alive
  /\ wrappers' = [r \in Runs |-> <<>>]
  /\ lapse' = [r \in Runs |-> IF r \in Busy THEN lapse[r] \cup Reverts ELSE lapse[r]]
  /\ UNCHANGED service \/ SdpdEnds
  /\ UNCHANGED <<device, child, sessions, bthid_pid, daemon, psm, excused, failures>>

-----------------------------------------------------------------------------
(* The daemon.                                                              *)

Goto(p, point) == daemon' = [daemon EXCEPT ![p] = point]

\* The kernel closes the sockets, sdpd drops the record.
Dies(p) ==
  /\ Goto(p, "dead")
  /\ psm' = [c \in DOMAIN psm |-> IF psm[c] = p THEN 0 ELSE psm[c]]
  /\ signalled' = signalled \ {p}
  /\ Disconnect({p})

Terminate(p) ==
  /\ p \in signalled /\ Dies(p)
  /\ UNCHANGED <<device, runs, windows, pipe, excused, failures>>

Connected(p) ==
  /\ daemon[p] = "sdp_open"
  /\ IF sdpd THEN sdp_open(p) /\ Goto(p, "sdp_add_keyboard") /\ UNCHANGED <<psm, signalled>>
     ELSE Dies(p)
  /\ UNCHANGED <<device, runs, windows, pipe, excused, failures>>

Registered(p) ==
  /\ daemon[p] = "sdp_add_keyboard"
  /\ IF p \in sdp_session
       THEN sdp_add_keyboard(p) /\ Goto(p, "ctrl") /\ UNCHANGED <<psm, signalled>>
       ELSE Dies(p)
  /\ UNCHANGED <<device, runs, windows, pipe, excused, failures>>

\* The daemon that has a channel is no orphan: it is dying, or its window is open.
NoOrphan(holder) == holder \in signalled \/ window[holder] \in Opened

\* l2cap_listen: another socket may have the channel, or socket, bind or listen may
\* fail by itself, and the daemon goes on with descriptor -1.
Listen(p) ==
  LET c == daemon[p] IN
  /\ c \in DOMAIN psm
  /\ \/ psm[c] = 0 /\ psm' = [psm EXCEPT ![c] = p] /\ UNCHANGED <<excused, failures>>
     \/ /\ psm[c] # 0 /\ UNCHANGED <<psm, failures>>
        /\ excused' = IF NoOrphan(psm[c]) THEN excused \cup {p} ELSE excused
     \/ Fails /\ excused' = excused \cup {p} /\ UNCHANGED psm
  /\ Goto(p, IF c = "ctrl" THEN "intr" ELSE "accept")
  /\ UNCHANGED <<service, device, runs, windows, pipe, signalled>>

\* A host connects; there is nothing to wait for on descriptor -1.
Accept(p) ==
  /\ daemon[p] = "accept" /\ Goto(p, "serve")
  /\ UNCHANGED <<service, device, runs, windows, pipe, psm, signalled, excused, failures>>

Read(p) ==
  /\ daemon[p] = "serve" /\ pipe[p] > 0
  /\ pipe' = [pipe EXCEPT ![p] = @ - 1]
  /\ UNCHANGED <<service, device, runs, windows, daemons, failures>>

\* The host leaves: the pipe is looked at before the channels are.
Out(p) ==
  /\ daemon[p] = "serve" /\ p \in Range(psm) /\ Goto(p, "accept")
  /\ pipe' = [pipe EXCEPT ![p] = IF @ > 0 THEN @ - 1 ELSE 0]
  /\ UNCHANGED <<service, device, runs, windows, psm, signalled, excused, failures>>

\* A report cannot be written.
WriteFails(p) ==
  /\ daemon[p] = "serve" /\ pipe[p] > 0 /\ Dies(p)
  /\ pipe' = [pipe EXCEPT ![p] = @ - 1]
  /\ UNCHANGED <<device, runs, windows, excused, failures>>

\* Somebody stops the service discovery daemon.
SdpdStops ==
  /\ SdpdEnds /\ Fails
  /\ UNCHANGED <<device, runs, windows, pipe, daemons>>

Next ==
  \/ SdpdStops
  \/ \E r \in Runs : RunWrapper(r) \/ Wrapper(r) \/ NoFork(r)
  \/ \E p \in Sessions :
       \/ OpenWindow(p) \/ LeaveEarly(p) \/ Close(p)
       \/ Press(p) \/ bthid_send(p) \/ Quit(p) \/ QuitAll(p)
       \/ Terminate(p) \/ Connected(p) \/ Registered(p) \/ Listen(p)
       \/ Accept(p) \/ Read(p) \/ Out(p) \/ WriteFails(p)

Spec == Init /\ [][Next]_vars

\* Every process runs when it can, and the user does not keep a window for
\* ever.  Nobody has to connect.
FairSpec ==
  /\ Spec
  /\ \A r \in Runs : WF_vars(Wrapper(r))
  /\ \A p \in Sessions :
       /\ WF_vars(OpenWindow(p) \/ LeaveEarly(p))
       /\ SF_vars(Close(p))
       /\ WF_vars(bthid_send(p) \/ Quit(p) \/ QuitAll(p))
       /\ WF_vars(Terminate(p) \/ Connected(p) \/ Registered(p) \/ Listen(p))
       /\ WF_vars(Read(p))

-----------------------------------------------------------------------------
(* Properties.                                                              *)

Deaf(p) == daemon[p] \in {"accept", "serve"} /\ p \notin {psm["ctrl"]} \cap {psm["intr"]}

\* A daemon that did not get both channels, although no call of its own failed and
\* no daemon that was dying or had its window open was in its way, has an orphan to
\* thank for it: some other window was not left by the quit key (lines 240, 256 and
\* 449 of xkbd.c).
DeafBehindOrphan ==
  \A p \in Sessions : Deaf(p) /\ p \notin excused =>
    \E q \in Sessions \ {p} : left[q] \in {"early", "closed"}

\* While a window is open the adapter is set up, whatever earlier runs have left
\* behind, unless the run of that window has lost a step or met another run.
AdapterIsReady ==
  \A p \in Sessions : window[p] \in Opened =>
    adapter = Ready \/ \E r \in Runs : child[r] = p /\ lapse[r] # {}

\* The run has a wrapper that has not come to the end of a stage.
Ahead(r, stage) == \E i \in DOMAIN wrappers[r] : wrappers[r][i] =< stage

\* The adapter does not stay discoverable, or a keyboard, unless the last step that
\* would have reverted it was lost in some run: however runs overlap, one of them has
\* that step still to come.
AdapterIsReverted ==
  /\ adapter.scan = "piscan" => \E r \in Runs : Ahead(r, 6) \/ "pscan" \in lapse[r]
  /\ adapter.class = "keyboard" => \E r \in Runs : Ahead(r, 7) \/ "default class" \in lapse[r]

\* A host that reads a registered record, or the one of sdp-test, finds the
\* channels the programs use and every attribute under the id that is meant,
\* although their ids are counted from the first (lines 274 and 297 of sdp.c), and
\* makes the keys down of every report by the descriptor.
HostUnderstands ==
  Range(records) \cup {SdpTestRecord} \subseteq Understandable

\* A window that waits for a pipe nobody reads.
Stuck(p) ==
  window[p] \in {"writing", "quitting"} /\ pipe[p] = PipeCapacity /\ daemon[p] # "serve"

\* A run of the wrapper ends, copies and all, whatever fails or is missing, once the
\* user closes its windows; only a window of its own that is stuck keeps it, for good.
RunEnds ==
  \A r \in Runs : []<>(r \notin Busy) \/ <>[](\E p \in Sessions : child[r] = p /\ Stuck(p))
=============================================================================
