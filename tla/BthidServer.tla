----------------------------- MODULE BthidServer ---------------------------
(***************************************************************************)
(* The daemon of xkbd-bthid, bthid() of hidcd.c: it accepts a control and  *)
(* an interrupt channel, then polls the pipe of the keyboard and the two   *)
(* channels until one of these ends, and accepts again.  The hosts and the *)
(* kernel's backlogs of the two listening sockets are its environment.     *)
(*                                                                         *)
(* What a host sends on the interrupt channel is read and dropped: only    *)
(* the end of that channel is modelled.                                    *)
(***************************************************************************)
EXTENDS HidReport, Sequences, SequencesExt

CONSTANTS
  Hosts,          \* Bluetooth hosts
  None,           \* descriptor -1, or no accepted channel
  Typed,          \* bound: the events the keyboard program sends
  PipeCapacity,   \* bound: events the pipe holds
  InboxBound      \* bound: control messages a host has in flight

ASSUME ConstantsAssumption ==
  /\ None \notin Hosts
  /\ NoKey \notin Keys
  /\ Keys \cap (Modifiers \cup {Quit}) = {}
  /\ Typed \subseteq Events
  /\ PipeCapacity \in Nat \ {0}
  /\ InboxBound \in Nat \ {0}

VARIABLES
  pipe,           \* events written by the keyboard program and not read
  listening,      \* the channels whose l2cap_listen succeeded
  ctrlQueue,      \* css: hosts whose control channel waits to be accepted
  intrQueue,      \* iss: the same for the interrupt channel
  inbox,          \* control messages of a host that waits in ctrlQueue
  pc,             \* where the daemon is
  ready,          \* descriptors with revents left to handle
  cs, csUp, csIn, \* accepted control channel: host, still open, unread messages
  is, isUp,       \* accepted interrupt channel
  state,          \* a SET_PROTOCOL has been acknowledged
  bitmask,        \* modifiers down
  shown,          \* modifiers in the last report to host is
  asked,          \* hosts of this session whose SET_PROTOCOL was read
  answered,       \* hosts of this session whose SET_PROTOCOL was answered
  reported,       \* hosts of this session that got a report
  tidy,           \* hosts that closed nothing since they opened ctrl afresh
  lapses          \* what sessions the daemon is not up to have happened

queues == <<listening, ctrlQueue, intrQueue, inbox>>
ctrl == <<cs, csUp, csIn>>
intr == <<is, isUp>>
keyboard == <<state, bitmask>>
history == <<asked, answered, reported, tidy, lapses>>
vars == <<pipe, queues, pc, ready, ctrl, intr, keyboard, shown, history>>

Messages == {"boot", "other"}

\* again: a session after state became 1; carried: one that starts with a
\* modifier down; mixed: channels of two hosts; aborted: the control channel
\* ended while the daemon waited for the interrupt channel.
Lapses == {"again", "carried", "mixed", "aborted"}

TypeOK ==
  /\ pipe \in Seq(Typed) /\ Len(pipe) <= PipeCapacity
  /\ listening \subseteq {"ctrl", "intr"}
  /\ ctrlQueue \in Seq(Hosts) /\ intrQueue \in Seq(Hosts)
  /\ inbox \in [Hosts -> Seq(Messages)]
  /\ pc \in {"acceptCtrl", "acceptIntr", "serve", "out", "dead"}
  /\ ready \subseteq {"ip", "cs", "is"}
  /\ cs \in Hosts \cup {None} /\ csUp \in BOOLEAN /\ csIn \in Seq(Messages)
  /\ is \in Hosts \cup {None} /\ isUp \in BOOLEAN
  /\ state \in {0, 1}
  /\ bitmask \subseteq Modifiers /\ shown \subseteq Modifiers
  /\ answered \subseteq asked /\ asked \subseteq Hosts
  /\ reported \subseteq Hosts /\ tidy \subseteq Hosts
  /\ lapses \subseteq Lapses

HasCtrl(h) == h \in ToSet(ctrlQueue) \/ (cs = h /\ csUp)
HasIntr(h) == h \in ToSet(intrQueue) \/ (is = h /\ isUp)

\* l2cap_listen fails for want of rights, or when the psm is taken.
Init ==
  /\ pipe = <<>>
  /\ listening \in SUBSET {"ctrl", "intr"}
  /\ ctrlQueue = <<>> /\ intrQueue = <<>>
  /\ inbox = [h \in Hosts |-> <<>>]
  /\ pc = "acceptCtrl" /\ ready = {}
  /\ cs = None /\ csUp = FALSE /\ csIn = <<>>
  /\ is = None /\ isUp = FALSE
  /\ state = 0 /\ bitmask = {} /\ shown = {}
  /\ asked = {} /\ answered = {} /\ reported = {} /\ tidy = {} /\ lapses = {}

-----------------------------------------------------------------------------
(* The daemon. *)

\* accept() blocks on an empty backlog, and fails on descriptor -1.
AcceptCtrl ==
  /\ pc = "acceptCtrl"
  /\ pc' = "acceptIntr"
  /\ IF "ctrl" \in listening
       THEN /\ ctrlQueue # <<>>
            /\ ctrlQueue' = Tail(ctrlQueue)
            /\ cs' = Head(ctrlQueue)
            /\ csUp' = TRUE
            /\ csIn' = inbox[cs']
            /\ inbox' = [inbox EXCEPT ![cs'] = <<>>]
       ELSE cs' = None /\ UNCHANGED <<ctrlQueue, csUp, csIn, inbox>>
  /\ UNCHANGED <<pipe, listening, intrQueue, ready, intr, keyboard, shown, history>>

\* Mutant: the report protocol is taken as agreed when a host connects.
AcceptIntr_Agreed ==
  /\ pc = "acceptIntr"
  /\ pc' = "serve"
  /\ ready' = {}
  /\ shown' = {}
  /\ state' = 1
  /\ intrQueue # <<>>
  /\ intrQueue' = Tail(intrQueue)
  /\ is' = Head(intrQueue)
  /\ isUp' = TRUE
  /\ lapses' = lapses \cup (IF state = 1 THEN {"again"} ELSE {})
  /\ UNCHANGED <<pipe, listening, ctrlQueue, inbox, ctrl, bitmask,
                 asked, answered, reported, tidy>>

\* The interrupt channel may be that of another host.
AcceptIntr ==
  /\ pc = "acceptIntr"
  /\ pc' = "serve"
  /\ ready' = {}
  /\ shown' = {}
  /\ IF "intr" \in listening
       THEN /\ intrQueue # <<>>
            /\ intrQueue' = Tail(intrQueue)
            /\ is' = Head(intrQueue)
            /\ isUp' = TRUE
       ELSE is' = None /\ UNCHANGED <<intrQueue, isUp>>
  /\ lapses' = lapses \cup (IF state = 1 THEN {"again"} ELSE {})
                      \cup (IF bitmask # {} THEN {"carried"} ELSE {})
                      \cup (IF is' # cs THEN {"mixed"} ELSE {})
                      \cup (IF cs # None /\ ~csUp THEN {"aborted"} ELSE {})
  /\ UNCHANGED <<pipe, listening, ctrlQueue, inbox, ctrl, keyboard,
                 asked, answered, reported, tidy>>

\* Mutant: the pipe is not polled.
ReadyFds_NoPipe ==
  {f \in {"cs", "is"} :
     \/ f = "cs" /\ cs # None /\ (csIn # <<>> \/ ~csUp)
     \/ f = "is" /\ is # None /\ ~isUp}

\* A negative descriptor is never ready.
ReadyFds ==
  {f \in {"ip", "cs", "is"} :
     \/ f = "ip" /\ pipe # <<>>
     \/ f = "cs" /\ cs # None /\ (csIn # <<>> \/ ~csUp)
     \/ f = "is" /\ is # None /\ ~isUp}

Poll ==
  /\ pc = "serve" /\ ready = {} /\ ReadyFds # {}
  /\ ready' = ReadyFds
  /\ UNCHANGED <<pipe, queues, pc, ctrl, intr, keyboard, shown, history>>

\* Mutant: events are reported before SET_PROTOCOL.
Accepts_Always(e) == e.code # Quit

\* The quit event changes nothing: its 0xffff is in `code', where the keyboard
\* program puts it, and not in `value'.
Accepts(e) == e.code # Quit /\ state = 1

\* exit(-1), or SIGTERM: the kernel closes every channel.
Die ==
  /\ pc' = "dead"
  /\ ready' = {}
  /\ listening' = {} /\ ctrlQueue' = <<>> /\ intrQueue' = <<>>
  /\ inbox' = [h \in Hosts |-> <<>>]
  /\ csUp' = FALSE /\ csIn' = <<>> /\ isUp' = FALSE
  /\ UNCHANGED <<cs, is>>

\* An event is read before the ends of the channels are looked at; a report
\* that cannot be written ends the daemon.
HandleEvent ==
  /\ pc = "serve" /\ "ip" \in ready
  /\ pipe' = Tail(pipe)
  /\ LET e == Head(pipe)
         reports == Accepts(e) /\ IsReported(bitmask, e)
     IN /\ bitmask' = IF Accepts(e) THEN NewBitmask(bitmask, e) ELSE bitmask
        /\ \/ /\ ~reports
              /\ ready' = ready \ {"ip"}
              /\ UNCHANGED <<queues, pc, ctrl, intr, shown, reported>>
           \/ /\ reports /\ is # None /\ isUp
              /\ shown' = bitmask'
              /\ reported' = reported \cup {is}
              /\ ready' = ready \ {"ip"}
              /\ UNCHANGED <<queues, pc, ctrl, intr>>
           \/ /\ reports /\ ~(is # None /\ isUp)
              /\ Die
              /\ UNCHANGED <<shown, reported>>
  /\ UNCHANGED <<state, asked, answered, tidy, lapses>>

\* Mutant: a message that is not SET_PROTOCOL ends the session.
HandleCtrl_Strict ==
  /\ pc = "serve" /\ "ip" \notin ready /\ "cs" \in ready
  /\ IF csIn = <<>> \/ Head(csIn) # "boot"
       THEN /\ pc' = "out" /\ ready' = {}
            /\ UNCHANGED <<csIn, state, asked, answered>>
       ELSE /\ csIn' = Tail(csIn)
            /\ state' = 1
            /\ asked' = asked \cup {cs}
            /\ answered' = IF state = 0 /\ csUp
                            THEN answered \cup {cs} ELSE answered
            /\ ready' = ready \ {"cs"}
            /\ UNCHANGED pc
  /\ UNCHANGED <<pipe, queues, cs, csUp, intr, bitmask, shown, reported, tidy, lapses>>

\* Unread messages come before the end of the channel.  Only the first
\* SET_PROTOCOL of the daemon's life is acknowledged.
HandleCtrl ==
  /\ pc = "serve" /\ "ip" \notin ready /\ "cs" \in ready
  /\ IF csIn = <<>>
       THEN /\ pc' = "out" /\ ready' = {}
            /\ UNCHANGED <<csIn, state, asked, answered>>
       ELSE /\ csIn' = Tail(csIn)
            /\ IF Head(csIn) = "boot"
                 THEN /\ state' = 1
                      /\ asked' = asked \cup {cs}
                      /\ answered' = IF state = 0 /\ csUp
                                      THEN answered \cup {cs} ELSE answered
                 ELSE UNCHANGED <<state, asked, answered>>
            /\ ready' = ready \ {"cs"}
            /\ UNCHANGED pc
  /\ UNCHANGED <<pipe, queues, cs, csUp, intr, bitmask, shown, reported, tidy, lapses>>

\* Mutant: the end of the interrupt channel is ignored.
HandleIntr_Ignored ==
  /\ pc = "serve" /\ ready = {"is"}
  /\ ready' = {}
  /\ UNCHANGED <<pipe, queues, pc, ctrl, intr, keyboard, shown, history>>

HandleIntr ==
  /\ pc = "serve" /\ ready = {"is"}
  /\ pc' = "out" /\ ready' = {}
  /\ UNCHANGED <<pipe, queues, ctrl, intr, keyboard, shown, history>>

\* state, bitmask and the key counter outlive the session.
Out ==
  /\ pc = "out"
  /\ pc' = "acceptCtrl"
  /\ cs' = None /\ csUp' = FALSE /\ csIn' = <<>>
  /\ is' = None /\ isUp' = FALSE
  /\ asked' = {} /\ answered' = {} /\ reported' = {}
  /\ UNCHANGED <<pipe, queues, ready, keyboard, shown, tidy, lapses>>

Daemon ==
  AcceptCtrl \/ AcceptIntr \/ Poll \/ HandleEvent \/ HandleCtrl \/ HandleIntr \/ Out

-----------------------------------------------------------------------------
(* The keyboard program and the hosts. *)

\* bthid_send; the program blocks while the pipe is full, even when the daemon
\* is dead, because it holds the reading end as well.
Type(e) ==
  /\ Len(pipe) < PipeCapacity
  /\ pipe' = Append(pipe, e)
  /\ UNCHANGED <<queues, pc, ready, ctrl, intr, keyboard, shown, history>>

\* The quit key: kill(bthid_pid, SIGTERM), anywhere in the daemon.
Kill ==
  /\ pc # "dead"
  /\ Die
  /\ UNCHANGED <<pipe, keyboard, shown, history>>

\* A host opens its control channel first; the kernel completes the connection
\* before accept().
OpenCtrl(h) ==
  /\ "ctrl" \in listening /\ ~HasCtrl(h)
  /\ ctrlQueue' = Append(ctrlQueue, h)
  /\ tidy' = IF HasIntr(h) THEN tidy ELSE tidy \cup {h}
  /\ UNCHANGED <<pipe, listening, intrQueue, inbox, pc, ready, ctrl, intr,
                 keyboard, shown, asked, answered, reported, lapses>>

OpenIntr(h) ==
  /\ "intr" \in listening /\ HasCtrl(h) /\ ~HasIntr(h)
  /\ intrQueue' = Append(intrQueue, h)
  /\ UNCHANGED <<pipe, listening, ctrlQueue, inbox, pc, ready, ctrl, intr,
                 keyboard, shown, history>>

Send(h, message) ==
  /\ \/ /\ h \in ToSet(ctrlQueue) /\ Len(inbox[h]) < InboxBound
        /\ inbox' = [inbox EXCEPT ![h] = Append(@, message)]
        /\ UNCHANGED csIn
     \/ /\ cs = h /\ csUp /\ Len(csIn) < InboxBound
        /\ csIn' = Append(csIn, message)
        /\ UNCHANGED inbox
  /\ UNCHANGED <<pipe, listening, ctrlQueue, intrQueue, pc, ready, cs, csUp,
                 intr, keyboard, shown, history>>

\* The kernel drops a channel that ends in the backlog.
EndCtrl(h) ==
  /\ HasCtrl(h)
  /\ ctrlQueue' = RemoveFirst(ctrlQueue, h)
  /\ inbox' = [inbox EXCEPT ![h] = <<>>]
  /\ csUp' = (csUp /\ cs # h)
  /\ tidy' = tidy \ {h}
  /\ UNCHANGED <<pipe, listening, intrQueue, pc, ready, cs, csIn, intr,
                 keyboard, shown, asked, answered, reported, lapses>>

EndIntr(h) ==
  /\ HasIntr(h)
  /\ intrQueue' = RemoveFirst(intrQueue, h)
  /\ isUp' = (isUp /\ is # h)
  /\ tidy' = tidy \ {h}
  /\ UNCHANGED <<pipe, listening, ctrlQueue, inbox, pc, ready, ctrl, is,
                 keyboard, shown, asked, answered, reported, lapses>>

Host(h) ==
  \/ OpenCtrl(h) \/ OpenIntr(h) \/ EndCtrl(h) \/ EndIntr(h)
  \/ \E message \in Messages : Send(h, message)

Next ==
  \/ Daemon \/ Kill
  \/ \E e \in Typed : Type(e)
  \/ \E h \in Hosts : Host(h)

Spec == Init /\ [][Next]_vars

\* The daemon is one process that runs whenever it can.
FairSpec == Spec /\ WF_vars(Daemon)

-----------------------------------------------------------------------------
(* Properties. *)

\* Keys go only to a host that has asked for the boot protocol in this session,
\* in a session that is the daemon's first and is one host's.
ReportedToBoot ==
  lapses \cap {"again", "mixed"} = {} => reported \subseteq asked

\* A host that asks for the boot protocol gets its answer, while its channel
\* lasts and in sessions up to the first in which any host asked.
BootAnswered ==
  csUp /\ "again" \notin lapses => (cs \in asked => cs \in answered)

\* The host of the interrupt channel shows the modifiers the daemon has as
\* down, unless a session began with one down.
HostAgrees ==
  pc = "serve" /\ "carried" \notin lapses => shown = bitmask

\* A host that has opened both channels and closed neither keeps them, unless
\* sessions were mixed, or an aborted one came before.
KeptWhileOpen ==
  [][ \A h \in tidy :
        /\ pc = "out" /\ pc' = "acceptCtrl"
        /\ HasCtrl(h) /\ HasIntr(h)
        /\ lapses \cap {"mixed", "aborted"} = {}
        => (HasCtrl(h) /\ HasIntr(h))' ]_vars

Served(h) == cs = h /\ csUp /\ is = h /\ isUp

\* A host that in the end keeps both channels open is served, whatever attempts
\* it gave up before, as long as the daemon lives.  (With one host: a second
\* one may hold the daemon for ever.)
EventuallyServed ==
  \A h \in Hosts :
    <>[](HasCtrl(h) /\ HasIntr(h)) => <>[](pc = "dead" \/ Served(h))

\* While a session lasts, what is typed is read.
PipeRead ==
  <>[](pc = "serve") => []<>(pipe = <<>>) \/ []<><<HandleEvent>>_vars
=============================================================================
