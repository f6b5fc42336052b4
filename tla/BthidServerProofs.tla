------------------------- MODULE BthidServerProofs -------------------------
(* Proofs about BthidServer, for any hosts, events and bounds. *)
EXTENDS BthidServer, SequenceTheorems, WellFoundedInduction, TLAPS

\* Up to the first session that begins with state = 1, state is 1 only in a
\* session whose own control channel asked for it.
StateIsFresh ==
  pc \in {"serve", "out"} /\ "again" \notin lapses /\ state = 1 => cs \in asked

\* The two channels of a session are of one host, unless some were mixed.
OneHost ==
  pc = "serve" /\ "mixed" \notin lapses => is = cs

\* Nothing has been asked, answered or reported in a session not yet begun.
NothingYet ==
  pc \in {"acceptCtrl", "acceptIntr"} => asked = {} /\ reported = {}

IInv ==
  /\ state \in {0, 1}
  /\ StateIsFresh
  /\ OneHost
  /\ NothingYet
  /\ ReportedToBoot
  /\ BootAnswered

USE DEF IInv, StateIsFresh, OneHost, NothingYet, ReportedToBoot, BootAnswered

LEMMA InitIInv == Init => IInv
BY DEF Init

\* The two calls of accept begin a session.
LEMMA AcceptStep ==
  ASSUME IInv, AcceptCtrl \/ AcceptIntr
  PROVE  IInv'
<1>1. CASE AcceptCtrl
  BY <1>1 DEF AcceptCtrl, intr, keyboard, history
<1>2. CASE AcceptIntr
  <2>1. state' = state /\ asked' = asked /\ reported' = reported
    BY <1>2 DEF AcceptIntr, keyboard
  <2>2. cs' = cs /\ pc' = "serve" /\ asked = {} /\ reported = {}
    BY <1>2 DEF AcceptIntr, ctrl
  <2>3. state = 1 => "again" \in lapses'
    BY <1>2 DEF AcceptIntr
  <2>4. is' # cs => "mixed" \in lapses'
    BY <1>2 DEF AcceptIntr
  <2> QED
    BY <2>1, <2>2, <2>3, <2>4
<1> QED
  BY <1>1, <1>2

\* A report goes to host is, which is cs, which has asked.
LEMMA HandleEventStep ==
  ASSUME IInv, HandleEvent
  PROVE  IInv'
<1> DEFINE e == Head(pipe)
           reports == Accepts(e) /\ IsReported(bitmask, e)
<1>1. /\ pc = "serve"
      /\ UNCHANGED <<state, asked, answered, tidy, lapses>>
  BY DEF HandleEvent
<1>2. CASE /\ ~reports
           /\ UNCHANGED <<queues, pc, ctrl, intr, shown, reported>>
  BY <1>1, <1>2 DEF ctrl, intr
<1>3. CASE /\ reports
           /\ reported' = reported \cup {is}
           /\ UNCHANGED <<queues, pc, ctrl, intr>>
  <2>1. state = 1
    BY <1>3 DEF Accepts
  <2> QED
    BY <1>1, <1>3, <2>1 DEF ctrl, intr
<1>4. CASE Die /\ UNCHANGED <<shown, reported>>
  BY <1>1, <1>4 DEF Die
<1> QED
  BY <1>2, <1>3, <1>4 DEF HandleEvent

\* SET_PROTOCOL is answered when it is the first, and there is no other first
\* one without "again".
LEMMA HandleCtrlStep ==
  ASSUME IInv, HandleCtrl
  PROVE  IInv'
<1>1. /\ pc = "serve"
      /\ UNCHANGED <<cs, csUp, is, isUp, reported, lapses>>
  BY DEF HandleCtrl, intr
<1>2. CASE pc' = "out" /\ UNCHANGED <<state, asked, answered>>
  BY <1>1, <1>2
<1>3. CASE UNCHANGED <<pc, state, asked, answered>>
  BY <1>1, <1>3
<1>4. CASE /\ state' = 1 /\ asked' = asked \cup {cs} /\ pc' = pc
           /\ answered' = IF state = 0 /\ csUp THEN answered \cup {cs} ELSE answered
  BY <1>1, <1>4
<1> QED
  BY <1>1, <1>2, <1>3, <1>4 DEF HandleCtrl

\* The rest of the daemon, its death and the keyboard program.
LEMMA QuietStep ==
  ASSUME IInv,
         \/ Poll \/ HandleIntr \/ Out \/ Kill
         \/ \E e \in Typed : Type(e)
         \/ UNCHANGED vars
  PROVE  IInv'
<1>1. CASE Poll \/ HandleIntr
  BY <1>1 DEF Poll, HandleIntr, ctrl, intr, keyboard, history
<1>2. CASE Out
  BY <1>2 DEF Out, keyboard
<1>3. CASE Kill
  BY <1>3 DEF Kill, Die, keyboard, history
<1>4. CASE \E e \in Typed : Type(e)
  BY <1>4 DEF Type, ctrl, intr, keyboard, history
<1>5. CASE UNCHANGED vars
  BY <1>5 DEF vars, ctrl, intr, keyboard, history
<1> QED
  BY <1>1, <1>2, <1>3, <1>4, <1>5

\* A host changes its channels and their messages, never what the daemon knows.
LEMMA HostStep ==
  ASSUME IInv, NEW h \in Hosts, Host(h)
  PROVE  IInv'
<1>1. UNCHANGED <<pc, cs, is, state, asked, answered, reported, lapses>>
  BY DEF Host, OpenCtrl, OpenIntr, EndCtrl, EndIntr, Send, ctrl, intr, keyboard,
         history
<1>2. csUp' => csUp
  BY DEF Host, OpenCtrl, OpenIntr, EndCtrl, EndIntr, Send, ctrl
<1> QED
  BY <1>1, <1>2

LEMMA Invariance == Spec => []IInv
<1>1. IInv /\ [Next]_vars => IInv'
  BY AcceptStep, HandleEventStep, HandleCtrlStep, QuietStep, HostStep
     DEF Next, Daemon
<1> QED
  BY InitIInv, <1>1, PTL DEF Spec

\* However many hosts come, go and cross, a host gets keys only after it asked
\* for the boot protocol, in sessions before the first "again" or "mixed" one
\* (hidcd.c 233 and 309).
THEOREM BootBeforeKeys == Spec => []ReportedToBoot
<1>1. IInv => ReportedToBoot
  OBVIOUS
<1> QED
  BY <1>1, Invariance, PTL

\* The host that asks for the boot protocol in the first session in which any
\* does gets its answer while its channel lasts (hidcd.c 309 to 314).
THEOREM BootAcknowledged == Spec => []BootAnswered
<1>1. IInv => BootAnswered
  OBVIOUS
<1> QED
  BY <1>1, Invariance, PTL

-----------------------------------------------------------------------------
(* What the host shows, and what a host keeps. *)

\* A host shows the modifiers the daemon holds down, in every session up to the
\* first that begins with one down: a session that begins with none begins in
\* agreement, and an event that is not reported has changed nothing
\* (hidcd.c 237 to 292).
THEOREM HostShows == Spec => []HostAgrees
<1>1. Init => HostAgrees
  BY DEF Init, HostAgrees
<1>2. ASSUME HostAgrees, [Next]_vars
      PROVE  HostAgrees'
  <2>1. ASSUME UNCHANGED <<bitmask, shown>>, lapses \subseteq lapses',
               pc' = "serve" => pc = "serve"
        PROVE  HostAgrees'
    BY <1>2, <2>1 DEF HostAgrees
  <2>2. CASE AcceptIntr
    <3>1. shown' = {} /\ bitmask' = bitmask
      BY <2>2 DEF AcceptIntr, keyboard
    <3>2. bitmask # {} => "carried" \in lapses'
      BY <2>2 DEF AcceptIntr
    <3> QED
      BY <3>1, <3>2 DEF HostAgrees
  <2>3. CASE HandleEvent
    <3> DEFINE e == Head(pipe)
               reports == Accepts(e) /\ IsReported(bitmask, e)
    <3>1. /\ pc = "serve" /\ lapses' = lapses
          /\ bitmask' = IF Accepts(e) THEN NewBitmask(bitmask, e) ELSE bitmask
      BY <2>3 DEF HandleEvent
    <3>2. CASE ~reports /\ shown' = shown
      <4>1. bitmask' = bitmask
        BY <3>1, <3>2 DEF IsReported
      <4> QED
        BY <1>2, <3>1, <3>2, <4>1 DEF HostAgrees
    <3>3. CASE shown' = bitmask'
      BY <3>3 DEF HostAgrees
    <3>4. CASE Die
      BY <3>4 DEF Die, HostAgrees
    <3> QED
      BY <2>3, <3>2, <3>3, <3>4 DEF HandleEvent
  <2>4. CASE AcceptCtrl \/ Poll \/ HandleCtrl \/ HandleIntr \/ Out
    BY <2>1, <2>4 DEF AcceptCtrl, Poll, HandleCtrl, HandleIntr, Out, keyboard, history
  <2>5. CASE Kill \/ (\E e \in Typed : Type(e)) \/ UNCHANGED vars
    BY <2>1, <2>5 DEF Kill, Die, Type, vars, keyboard, history
  <2>6. CASE \E h \in Hosts : Host(h)
    BY <2>1, <2>6 DEF Host, OpenCtrl, OpenIntr, EndCtrl, EndIntr, Send, keyboard,
                      history
  <2> QED
    BY <1>2, <2>2, <2>3, <2>4, <2>5, <2>6 DEF Next, Daemon
<1> QED
  BY <1>1, <1>2, PTL DEF Spec

\* What is left of a backlog when a host leaves it is a backlog.
LEMMA RemoveFirstType ==
  ASSUME NEW S, NEW s \in Seq(S), NEW e
  PROVE  RemoveFirst(s, e) \in Seq(S)
<1> DEFINE I == {i \in 1..Len(s) : s[i] = e}
           m == SelectInSeq(s, LAMBDA v : v = e)
<1>1. CASE I = {}
  BY <1>1 DEF RemoveFirst
<1>2. CASE I # {}
  <2>1. PICK x \in I : \A y \in I : ~ (<<y, x>> \in OpToRel(<, Nat))
    <3>1. I \subseteq Nat
      OBVIOUS
    <3> HIDE DEF I
    <3> QED
      BY <3>1, <1>2, NatLessThanWellFounded, WFMin
  <2>2. x \in I /\ \A y \in I : x <= y
    <3>1. ASSUME NEW y \in I PROVE x <= y
      <4>1. x \in Nat /\ y \in Nat
        OBVIOUS
      <4>2. <<y, x>> \notin OpToRel(<, Nat)
        BY <2>1, <3>1
      <4>3. ~ (y < x)
        <5> HIDE DEF I
        <5> QED
          BY <4>1, <4>2 DEF OpToRel
      <4> QED
        BY <4>1, <4>3
    <3> QED
      BY <3>1
  <2>3. Min(I) \in I
    BY <2>2 DEF Min
  <2>4. m = Min(I)
    BY <1>2 DEF SelectInSeq
  <2>5. m \in 1..Len(s)
    BY <2>3, <2>4
  <2>6. RemoveFirst(s, e) = RemoveAt(s, m)
    BY <1>2 DEF RemoveFirst
  <2> HIDE DEF m
  <2>7. SubSeq(s, 1, m - 1) \in Seq(S)
    BY <2>5, SubSeqProperties
  <2>8. SubSeq(s, m + 1, Len(s)) \in Seq(S)
    BY <2>5, SubSeqProperties
  <2> QED
    BY <2>6, <2>7, <2>8, ConcatProperties DEF RemoveAt
<1> QED
  BY <1>1, <1>2

\* A descriptor found ready without a message to read has ended.
ReadyHasEnded ==
  /\ pc # "serve" => ready = {}
  /\ "cs" \in ready /\ csIn = <<>> => ~csUp
  /\ "is" \in ready => ~isUp

\* Only the end of a channel ends a session.
OutHasEnded == pc = "out" => ~csUp \/ ~isUp

\* In a session of one host, of which one channel has ended, the host is the
\* one that ended it.
HalfIsUntidy ==
  pc \in {"serve", "out"} /\ lapses \cap {"mixed", "aborted"} = {} =>
    /\ is = cs
    /\ cs # None /\ ((csUp /\ ~isUp) \/ (~csUp /\ isUp)) => cs \notin tidy

\* What the channels hold.
ChannelType ==
  /\ ctrlQueue \in Seq(Hosts)
  /\ inbox \in [Hosts -> Seq(Messages)]
  /\ csIn \in Seq(Messages)
  /\ tidy \subseteq Hosts

SessionInv == ReadyHasEnded /\ OutHasEnded /\ HalfIsUntidy

KeptInv == ChannelType /\ SessionInv

\* Every step keeps the type.
LEMMA ChannelTypeStep ==
  ASSUME ChannelType, [Next]_vars
  PROVE  ChannelType'
<1> USE DEF ChannelType
<1>0. <<>> \in Seq(Messages)
  OBVIOUS
<1>1. CASE AcceptCtrl
  <2>1. CASE "ctrl" \in listening
    <3>1. ctrlQueue # <<>> /\ ctrlQueue' = Tail(ctrlQueue) /\ cs' = Head(ctrlQueue)
      BY <1>1, <2>1 DEF AcceptCtrl
    <3>2. cs' \in Hosts /\ ctrlQueue' \in Seq(Hosts)
      BY <3>1, HeadTailProperties
    <3>3. csIn' = inbox[cs'] /\ inbox' = [inbox EXCEPT ![cs'] = <<>>]
      BY <1>1, <2>1 DEF AcceptCtrl
    <3>4. csIn' \in Seq(Messages)
      BY <3>2, <3>3
    <3>5. inbox' \in [Hosts -> Seq(Messages)]
      BY <1>0, <3>3
    <3> QED
      BY <1>1, <3>2, <3>4, <3>5 DEF AcceptCtrl, history
  <2>2. CASE "ctrl" \notin listening
    BY <1>1, <2>2 DEF AcceptCtrl, history
  <2> QED
    BY <2>1, <2>2
<1>2. CASE AcceptIntr \/ Poll \/ HandleIntr \/ Out
  <2>1. UNCHANGED <<ctrlQueue, inbox, tidy>>
    BY <1>2 DEF AcceptIntr, Poll, HandleIntr, Out, queues, history
  <2>2. csIn' = csIn \/ csIn' = <<>>
    BY <1>2 DEF AcceptIntr, Poll, HandleIntr, Out, ctrl
  <2> QED
    BY <1>0, <2>1, <2>2
<1>3. ASSUME Die, UNCHANGED tidy
      PROVE  ChannelType'
  BY <1>3 DEF Die
<1>4. CASE HandleEvent
  <2>1. tidy' = tidy
    BY <1>4 DEF HandleEvent
  <2>2. CASE UNCHANGED <<queues, ctrl>>
    BY <2>1, <2>2 DEF queues, ctrl
  <2> QED
    BY <1>4, <1>3, <2>1, <2>2 DEF HandleEvent
<1>5. CASE HandleCtrl
  <2>1. UNCHANGED <<queues, tidy>>
    BY <1>5 DEF HandleCtrl
  <2>2. csIn' = csIn \/ (csIn # <<>> /\ csIn' = Tail(csIn))
    BY <1>5 DEF HandleCtrl
  <2>3. csIn' \in Seq(Messages)
    BY <2>2, HeadTailProperties
  <2> QED
    BY <2>1, <2>3 DEF queues
<1>6. CASE Kill
  BY <1>3, <1>6 DEF Kill, history
<1>7. CASE (\E e \in Typed : Type(e)) \/ UNCHANGED vars
  BY <1>7 DEF Type, vars, queues, ctrl, history
<1>8. ASSUME NEW h \in Hosts, Host(h)
      PROVE  ChannelType'
  <2>1. CASE OpenCtrl(h) \/ OpenIntr(h) \/ EndIntr(h)
    <3>1. ctrlQueue' = ctrlQueue \/ ctrlQueue' = Append(ctrlQueue, h)
      BY <2>1 DEF OpenCtrl, OpenIntr, EndIntr
    <3>2. Append(ctrlQueue, h) \in Seq(Hosts)
      BY AppendProperties
    <3>3. inbox' = inbox /\ csIn' = csIn /\ tidy' \subseteq Hosts
      BY <2>1 DEF OpenCtrl, OpenIntr, EndIntr, ctrl, history
    <3> QED
      BY <3>1, <3>2, <3>3
  <2>2. CASE EndCtrl(h)
    <3>1. ctrlQueue' \in Seq(Hosts)
      BY <2>2, RemoveFirstType DEF EndCtrl
    <3>2. inbox' \in [Hosts -> Seq(Messages)]
      BY <2>2 DEF EndCtrl
    <3> QED
      BY <2>2, <3>1, <3>2 DEF EndCtrl
  <2>3. ASSUME NEW message \in Messages, Send(h, message)
        PROVE  ChannelType'
    <3>1. UNCHANGED <<ctrlQueue, tidy>>
      BY <2>3 DEF Send, history
    <3>2. inbox' \in [Hosts -> Seq(Messages)]
      <4>1. inbox[h] \in Seq(Messages)
        OBVIOUS
      <4>2. Append(inbox[h], message) \in Seq(Messages)
        BY <4>1, AppendProperties
      <4>3. inbox' = inbox \/ inbox' = [inbox EXCEPT ![h] = Append(@, message)]
        BY <2>3 DEF Send
      <4> QED
        BY <4>2, <4>3
    <3>3. csIn' \in Seq(Messages)
      <4>1. Append(csIn, message) \in Seq(Messages)
        BY AppendProperties
      <4>2. csIn' = csIn \/ csIn' = Append(csIn, message)
        BY <2>3 DEF Send
      <4> QED
        BY <4>1, <4>2
    <3> QED
      BY <3>1, <3>2, <3>3
  <2> QED
    BY <1>8, <2>1, <2>2, <2>3 DEF Host
<1> QED
  BY <1>1, <1>2, <1>4, <1>5, <1>6, <1>7, <1>8 DEF Next, Daemon

\* A session begins with both channels open, or is marked.
LEMMA KeptAccept ==
  ASSUME SessionInv, AcceptCtrl \/ AcceptIntr
  PROVE  SessionInv'
<1> USE DEF SessionInv, ReadyHasEnded, OutHasEnded, HalfIsUntidy
<1>1. CASE AcceptCtrl
  <2>1. /\ pc' = "acceptIntr" /\ ready' = ready /\ isUp' = isUp
    BY <1>1 DEF AcceptCtrl, intr
  <2>2. ready' = {}
    BY <1>1, <2>1 DEF AcceptCtrl
  <2> QED
    BY <2>1, <2>2
<1>2. CASE AcceptIntr
  <2>1. /\ pc' = "serve" /\ ready' = {} /\ cs' = cs /\ csUp' = csUp
        /\ tidy' = tidy
    BY <1>2 DEF AcceptIntr, ctrl
  <2>2. /\ is' # cs => "mixed" \in lapses'
        /\ cs # None /\ ~csUp => "aborted" \in lapses'
    BY <1>2 DEF AcceptIntr
  <2>3. isUp' \/ is' = None
    BY <1>2 DEF AcceptIntr
  <2> QED
    BY <2>1, <2>2, <2>3
<1> QED
  BY <1>1, <1>2

\* A session ends with one of its channels.
LEMMA KeptDaemon ==
  ASSUME SessionInv, Poll \/ HandleEvent \/ HandleCtrl \/ HandleIntr \/ Out
  PROVE  SessionInv'
<1> USE DEF SessionInv, ReadyHasEnded, OutHasEnded, HalfIsUntidy
<1>1. CASE Poll
  <2>1. /\ pc' = pc /\ pc = "serve" /\ ready' = ReadyFds
        /\ UNCHANGED <<cs, csUp, csIn, is, isUp, tidy, lapses>>
    BY <1>1 DEF Poll, ctrl, intr, history
  <2>2. /\ "cs" \in ReadyFds /\ csIn = <<>> => ~csUp
        /\ "is" \in ReadyFds => ~isUp
    BY DEF ReadyFds
  <2> QED
    BY <2>1, <2>2
<1>2. CASE HandleEvent
  <2>1. UNCHANGED <<tidy, lapses>> /\ pc = "serve"
    BY <1>2 DEF HandleEvent
  <2>2. CASE ready' = ready \ {"ip"} /\ UNCHANGED <<pc, ctrl, intr>>
    BY <2>1, <2>2 DEF ctrl, intr
  <2>3. CASE Die
    BY <2>3 DEF Die
  <2> QED
    BY <1>2, <2>2, <2>3 DEF HandleEvent
<1>3. CASE HandleCtrl
  <2>1. /\ UNCHANGED <<cs, csUp, is, isUp, tidy, lapses>>
        /\ pc = "serve" /\ "cs" \in ready
    BY <1>3 DEF HandleCtrl, intr
  <2>2. CASE csIn = <<>> /\ pc' = "out" /\ ready' = {}
    BY <2>1, <2>2
  <2>3. CASE pc' = pc /\ ready' = ready \ {"cs"}
    BY <2>1, <2>3
  <2> QED
    BY <1>3, <2>2, <2>3 DEF HandleCtrl
<1>4. CASE HandleIntr
  BY <1>4 DEF HandleIntr, ctrl, intr, history
<1>5. CASE Out
  BY <1>5 DEF Out
<1> QED
  BY <1>1, <1>2, <1>3, <1>4, <1>5

\* A host that ends a channel is not tidy, nor is one that opens its control
\* channel anew while the daemon holds its interrupt channel.
LEMMA KeptHost ==
  ASSUME ChannelType, SessionInv, NEW h \in Hosts, Host(h)
  PROVE  SessionInv'
<1> USE DEF SessionInv, ReadyHasEnded, OutHasEnded, HalfIsUntidy
<1>1. UNCHANGED <<pc, ready, cs, is, lapses>>
  BY DEF Host, OpenCtrl, OpenIntr, EndCtrl, EndIntr, Send, ctrl, intr, history
<1>2. CASE OpenCtrl(h)
  <2>1. /\ UNCHANGED <<csUp, csIn, isUp>> /\ ~HasCtrl(h)
        /\ tidy' = IF HasIntr(h) THEN tidy ELSE tidy \cup {h}
    BY <1>2 DEF OpenCtrl, ctrl, intr
  <2>2. ASSUME h = cs, is = cs, (csUp /\ ~isUp) \/ (~csUp /\ isUp)
        PROVE  tidy' = tidy
    BY <2>1, <2>2 DEF HasCtrl, HasIntr
  <2> QED
    BY <1>1, <2>1, <2>2
<1>3. CASE OpenIntr(h)
  BY <1>1, <1>3 DEF OpenIntr, ctrl, intr, history
<1>4. CASE EndCtrl(h)
  <2>1. /\ csUp' = (csUp /\ cs # h) /\ tidy' = tidy \ {h}
        /\ UNCHANGED <<csIn, isUp>>
    BY <1>4 DEF EndCtrl, intr
  <2> QED
    BY <1>1, <2>1
<1>5. CASE EndIntr(h)
  <2>1. /\ isUp' = (isUp /\ is # h) /\ tidy' = tidy \ {h}
        /\ UNCHANGED <<csIn, csUp>>
    BY <1>5 DEF EndIntr, ctrl
  <2> QED
    BY <1>1, <2>1
<1>6. ASSUME NEW message \in Messages, Send(h, message)
      PROVE  SessionInv'
  <2>1. UNCHANGED <<csUp, isUp, tidy>>
    BY <1>6 DEF Send, intr, history
  <2>2. csIn' = csIn \/ csIn' = Append(csIn, message)
    BY <1>6 DEF Send
  <2>3. csIn' = <<>> => csIn = <<>>
    BY <2>2, AppendProperties DEF ChannelType
  <2> QED
    BY <1>1, <2>1, <2>3
<1> QED
  BY <1>2, <1>3, <1>4, <1>5, <1>6 DEF Host

LEMMA KeptInvariance == Spec => []KeptInv
<1>1. Init => KeptInv
  BY DEF Init, KeptInv, ChannelType, SessionInv, ReadyHasEnded, OutHasEnded,
         HalfIsUntidy
<1>2. KeptInv /\ [Next]_vars => KeptInv'
  <2> SUFFICES ASSUME ChannelType, SessionInv, [Next]_vars
               PROVE  SessionInv'
    BY ChannelTypeStep DEF KeptInv
  <2>1. CASE Kill \/ (\E e \in Typed : Type(e)) \/ UNCHANGED vars
    BY <2>1 DEF Kill, Die, Type, vars, ctrl, intr, history, SessionInv,
                ReadyHasEnded, OutHasEnded, HalfIsUntidy
  <2> QED
    BY <2>1, KeptAccept, KeptDaemon, KeptHost DEF Next, Daemon
<1> QED
  BY <1>1, <1>2, PTL DEF Spec

\* The daemon hangs up on no host that has both channels open and closed
\* neither, in sessions before the first "mixed" or "aborted" one
\* (hidcd.c 216 to 231 and 325).
THEOREM OpenIsKept == Spec => KeptWhileOpen
<1> DEFINE Kept ==
      \A h \in tidy :
        /\ pc = "out" /\ pc' = "acceptCtrl"
        /\ HasCtrl(h) /\ HasIntr(h)
        /\ lapses \cap {"mixed", "aborted"} = {}
        => (HasCtrl(h) /\ HasIntr(h))'
<1>1. KeptInv /\ [Next]_vars => [Kept]_vars
  <2> SUFFICES ASSUME KeptInv, Next, NEW h \in tidy,
                      pc = "out", pc' = "acceptCtrl", HasCtrl(h), HasIntr(h),
                      lapses \cap {"mixed", "aborted"} = {}
               PROVE  (HasCtrl(h) /\ HasIntr(h))'
    OBVIOUS
  <2>1. UNCHANGED <<ctrlQueue, intrQueue>>
    <3>1. ASSUME NEW g \in Hosts, Host(g) PROVE pc' = pc
      BY <3>1 DEF Host, OpenCtrl, OpenIntr, EndCtrl, EndIntr, Send
    <3>2. ASSUME NEW e \in Typed, Type(e) PROVE pc' = pc
      BY <3>2 DEF Type
    <3>3. Out
      BY <3>1, <3>2 DEF Next, Daemon, AcceptCtrl, AcceptIntr, Poll, HandleEvent,
                        HandleCtrl, HandleIntr, Kill, Die
    <3> QED
      BY <3>3 DEF Out, queues
  <2>2. (~csUp \/ ~isUp) /\ is = cs
    BY DEF KeptInv, SessionInv, OutHasEnded, HalfIsUntidy
  <2>3. (csUp /\ ~isUp) \/ (~csUp /\ isUp) => h # cs
    BY ConstantsAssumption
       DEF KeptInv, ChannelType, SessionInv, HalfIsUntidy
  <2>4. h \in ToSet(ctrlQueue) /\ h \in ToSet(intrQueue)
    BY <2>2, <2>3 DEF HasCtrl, HasIntr
  <2> QED
    BY <2>1, <2>4 DEF HasCtrl, HasIntr
<1> HIDE DEF Kept
<1>2. Spec => [][Kept]_vars
  BY <1>1, KeptInvariance, PTL DEF Spec
<1> QED
  BY <1>2 DEF KeptWhileOpen, Kept
====
