------------------------- MODULE XkbdKeyboardProofs ------------------------
(***************************************************************************)
(* Proofs about XkbdKeyboard, for any keys and a pipe of any size: first   *)
(* about its drawing alone, then about what reaches the host, which takes  *)
(* the events still on their way into account.                             *)
(***************************************************************************)
EXTENDS XkbdKeyboard, SequenceTheorems, TLAPS

\* The part of the type invariant that the drawing needs.
ShownType == state \subseteq Faces \cup {CapsLock} /\ locked \subseteq Faces

IInv == ShownType /\ LockedIsSet

\* button_set_txt_ks gives a button one modifier at most.
LEMMA FaceIsOne ==
  ASSUME NEW b
  PROVE  \/ Face(b) = {}
         \/ \E f \in Faces : Face(b) = {f}
BY DEF Face, Faces

\* A press or a repeat locks what is set and unlocks what is locked.
LEMMA LockOnlySet ==
  ASSUME NEW b, IInv
  PROVE  NewLocked(b) \subseteq Faces /\ NewLocked(b) \subseteq state
<1>1. CASE Face(b) = {}
  BY <1>1 DEF IInv, ShownType, LockedIsSet, NewLocked, IsLocked, IsSet
<1>2. ASSUME NEW f \in Faces, Face(b) = {f}
      PROVE  NewLocked(b) \subseteq Faces /\ NewLocked(b) \subseteq state
  BY <1>2 DEF IInv, ShownType, LockedIsSet, NewLocked, IsLocked, IsSet, Toggle
<1> QED
  BY <1>1, <1>2, FaceIsOne

\* A release unlocks and unsets together, and resets nothing that is locked.
LEMMA ReleaseKeepsLocked ==
  ASSUME NEW b, IInv
  PROVE  /\ NewState(b) \subseteq Faces \cup {CapsLock}
         /\ NewLocked(b) \subseteq NewState(b)
<1>1. CASE Face(b) = {}
  <2>1. NewLocked(b) = locked
    BY <1>1 DEF NewLocked, IsLocked, IsSet
  <2>2. CASE b = CapsLock
    BY <1>1, <2>1, <2>2, KeysAssumption DEF IInv, ShownType, LockedIsSet, NewState, Toggle
  <2>3. CASE b # CapsLock
    BY <1>1, <2>1, <2>3, KeysAssumption DEF IInv, ShownType, LockedIsSet, NewState
  <2> QED
    BY <2>2, <2>3
<1>2. ASSUME NEW f \in Faces, Face(b) = {f}
      PROVE  /\ NewState(b) \subseteq Faces \cup {CapsLock}
             /\ NewLocked(b) \subseteq NewState(b)
  BY <1>2 DEF IInv, ShownType, LockedIsSet, NewState, NewLocked, IsLocked,
              IsSet, Toggle
<1> QED
  BY <1>1, <1>2, FaceIsOne

\* No step draws a modifier as locked that it does not draw as set.
LEMMA IInvStep ==
  ASSUME IInv, [Next]_vars
  PROVE  IInv'
<1>1. ASSUME NEW b \in Buttons, ButtonPress(b)
      PROVE  IInv'
  BY <1>1, LockOnlySet
     DEF ButtonPress, Process, IInv, ShownType, LockedIsSet
<1>2. CASE Repeat
  BY <1>2, LockOnlySet DEF Repeat, Process, IInv, ShownType, LockedIsSet
<1>3. CASE ButtonRelease
  BY <1>3, LockOnlySet, ReleaseKeepsLocked
     DEF ButtonRelease, Process, IInv, ShownType, LockedIsSet
<1>4. CASE UNCHANGED shown
  BY <1>4 DEF shown, IInv, ShownType, LockedIsSet
<1>5. CASE ButtonPressNowhere \/ WriteEvent \/ Exit \/ Receive \/ UNCHANGED vars
  BY <1>4, <1>5 DEF ButtonPressNowhere, WriteEvent, Exit, Receive, vars, shown
<1> QED
  BY <1>1, <1>2, <1>3, <1>5 DEF Next

\* Whatever is pressed, held, crossed or left to repeat, a modifier drawn as
\* locked is drawn as set (hidcd.c 343 to 372).
THEOREM LockedShown ==
  Spec => []LockedIsSet
<1>1. Init => IInv
  BY DEF Init, IInv, ShownType, LockedIsSet
<1>2. IInv /\ [Next]_vars => IInv'
  BY IInvStep
<1>3. IInv => LockedIsSet
  BY DEF IInv
<1> QED
  BY <1>1, <1>2, <1>3, PTL DEF Spec

-----------------------------------------------------------------------------
(* Types. *)

LEMMA EventType ==
  ASSUME NEW c \in Codes, NEW v \in 0..2
  PROVE  Event(c, v) \in Events /\ Event(c, v).code = c /\ Event(c, v).value = v
BY DEF Event, Events

LEMMA ButtonsHaveCodes ==
  /\ Buttons \subseteq Codes
  /\ Sticky \subseteq Codes
  /\ Keys \subseteq Codes
BY KeysAssumption DEF Buttons, Codes, Modifiers, Sticky

\* The releases are none or one, of a modifier that is sticky.
LEMMA ReleasesOne ==
  ASSUME sticky \subseteq Sticky
  PROVE  \/ sticky = {} /\ ReleaseSticky = <<>>
         \/ FirstSticky \in sticky /\ ReleaseSticky = <<Event(FirstSticky, 0)>>
BY DEF ReleaseSticky, FirstSticky, Sticky

LEMMA SendsType ==
  ASSUME TypeOK, NEW b \in Buttons, NEW u \in 0..2
  PROVE  Sends(b, u) \in Seq(Events)
<1>1. <<>> \in Seq(Events)
  OBVIOUS
<1>2. \A c \in Codes, v \in 0..2 : <<Event(c, v)>> \in Seq(Events)
  <2>1. \A c \in Codes, v \in 0..2 : Event(c, v) \in Events
    BY EventType
  <2> QED
    BY <2>1
<1>3. ReleaseSticky \in Seq(Events)
  <2>1. sticky \subseteq Sticky
    BY DEF TypeOK
  <2>2. CASE ReleaseSticky = <<>>
    BY <1>1, <2>2
  <2>3. CASE FirstSticky \in sticky /\ ReleaseSticky = <<Event(FirstSticky, 0)>>
    <3>1. FirstSticky \in Codes /\ 0 \in 0..2
      BY <2>1, <2>3, ButtonsHaveCodes
    <3>2. <<Event(FirstSticky, 0)>> \in Seq(Events)
      BY <1>2, <3>1
    <3> QED
      BY <2>3, <3>2
  <2> QED
    BY <2>1, <2>2, <2>3, ReleasesOne
<1>4. CASE b \in Sticky
  BY <1>1, <1>2, <1>4, ButtonsHaveCodes DEF Sends
<1>5. CASE b \notin Sticky /\ b = Quit
  BY <1>2, <1>5, ButtonsHaveCodes DEF Sends
<1>6. CASE b \notin Sticky /\ b # Quit
  <2>1. Sends(b, u) = <<Event(b, u)>> \o ReleaseSticky
    BY <1>6 DEF Sends
  <2>2. <<Event(b, u)>> \in Seq(Events)
    BY <1>2, ButtonsHaveCodes
  <2> QED
    BY <1>3, <2>1, <2>2, ConcatProperties
<1> QED
  BY <1>4, <1>5, <1>6

LEMMA FacesType ==
  ASSUME TypeOK, NEW b
  PROVE  /\ NewState(b) \subseteq Faces \cup {CapsLock}
         /\ NewLocked(b) \subseteq Faces
         /\ Face(b) \subseteq Faces
<1>1. Face(b) \subseteq Faces
  BY DEF Face, Faces
<1>2. NewState(b) \subseteq Faces \cup {CapsLock}
  BY <1>1 DEF NewState, Toggle, TypeOK
<1>3. NewLocked(b) \subseteq Faces
  BY <1>1 DEF NewLocked, Toggle, TypeOK
<1> QED
  BY <1>1, <1>2, <1>3

LEMMA ProcessType ==
  ASSUME TypeOK, NEW b \in Buttons, NEW u \in 0..2, Process(b, u)
  PROVE  /\ gui' \in {"running", "quitting", "exited", "killed"}
         /\ todo' \in Seq(Events)
         /\ sticky' \subseteq Sticky
         /\ locked' \subseteq Faces
<1>1. gui' \in {"running", "quitting", "exited", "killed"}
  BY DEF Process, TypeOK
<1>2. todo' \in Seq(Events)
  BY SendsType DEF Process
<1>3. sticky' \subseteq Sticky
  BY DEF Process, NewSticky, TypeOK
<1>4. locked' \subseteq Faces
  BY FacesType DEF Process
<1> QED
  BY <1>1, <1>2, <1>3, <1>4

LEMMA ReceiveType ==
  ASSUME NEW e \in Events, bitmask \subseteq Modifiers, key \in Keys \cup {NoKey}
  PROVE  /\ NewBitmask(bitmask, e) \subseteq Modifiers
         /\ ReportKey(e) \in Keys \cup {NoKey}
BY DEF NewBitmask, ReportKey, IsKey

LEMMA TypeStep ==
  ASSUME TypeOK, [Next]_vars
  PROVE  TypeOK'
<1>1. ASSUME NEW b \in Buttons, ButtonPress(b)
      PROVE  TypeOK'
  <2>1. lapses' \subseteq Lapses
    BY <1>1 DEF ButtonPress, Lapse, Crossed, Lapses, TypeOK
  <2> QED
    BY <1>1, <2>1, ProcessType DEF ButtonPress, receiver, TypeOK
<1>2. CASE ButtonPressNowhere
  BY <1>2 DEF ButtonPressNowhere, Crossed, Lapses, shown, receiver, TypeOK
<1>3. CASE ButtonRelease
  <2>1. active \in Buttons
    BY <1>3 DEF ButtonRelease, TypeOK
  <2>2. lapses' \subseteq Lapses
    BY <1>3 DEF ButtonRelease, Lapse, Lapses, TypeOK
  <2>3. state' \subseteq Faces \cup {CapsLock}
    BY <1>3, FacesType DEF ButtonRelease
  <2> QED
    BY <1>3, <2>1, <2>2, <2>3, ProcessType DEF ButtonRelease, receiver, TypeOK
<1>4. CASE Repeat
  <2>1. active \in Buttons
    BY <1>4 DEF Repeat, TypeOK
  <2>2. lapses' \subseteq Lapses
    BY <1>4 DEF Repeat, Lapse, Lapses, TypeOK
  <2> QED
    BY <1>4, <2>1, <2>2, ProcessType DEF Repeat, receiver, TypeOK
<1>5. CASE WriteEvent
  <2>1. Head(todo) \in Events /\ Tail(todo) \in Seq(Events)
    BY <1>5 DEF WriteEvent, TypeOK
  <2>2. pipe' \in Seq(Events) /\ Len(pipe') = Len(pipe) + 1
    BY <1>5, <2>1, AppendProperties DEF WriteEvent, TypeOK
  <2>3. Len(pipe') <= PipeCapacity
    BY <1>5, <2>2, LenProperties, PipeAssumption DEF WriteEvent, TypeOK
  <2> QED
    BY <1>5, <2>1, <2>2, <2>3 DEF WriteEvent, shown, receiver, TypeOK
<1>6. CASE Exit
  BY <1>6 DEF Exit, shown, receiver, TypeOK
<1>7. CASE Receive
  <2>1. Head(pipe) \in Events /\ Tail(pipe) \in Seq(Events)
        /\ Len(Tail(pipe)) = Len(pipe) - 1
    BY <1>7 DEF Receive, TypeOK
  <2>2. Len(pipe') <= PipeCapacity
    BY <1>7, <2>1, LenProperties, PipeAssumption DEF Receive, TypeOK
  <2>3. bitmask' \subseteq Modifiers /\ key' \in Keys \cup {NoKey}
    BY <1>7, <2>1, ReceiveType DEF Receive, TypeOK
  <2> QED
    BY <1>7, <2>1, <2>2, <2>3 DEF Receive, shown, TypeOK
<1>8. CASE UNCHANGED vars
  BY <1>8 DEF vars, shown, receiver, TypeOK
<1> QED
  BY <1>1, <1>2, <1>3, <1>4, <1>5, <1>6, <1>7, <1>8 DEF Next

LEMMA TypeInit ==
  Init => TypeOK
<1> SUFFICES ASSUME Init PROVE TypeOK
  OBVIOUS
<1>1. <<>> \in Seq(Events) /\ Len(<<>>) = 0
  OBVIOUS
<1>2. lapses \subseteq Lapses
  BY DEF Init, Lapses
<1> QED
  BY <1>1, <1>2, PipeAssumption DEF Init, TypeOK

-----------------------------------------------------------------------------
(* The events on their way. *)

\* What is written to the pipe and what is still to be written, in order.
Pending == pipe \o todo

\* The last event in q about a code of K has a value of V; without any, base
\* holds.
Ends(q, K, V, base) ==
  \/ base /\ \A i \in 1..Len(q) : q[i].code \notin K
  \/ \E i \in 1..Len(q) :
       /\ q[i].code \in K /\ q[i].value \in V
       /\ \A j \in (i + 1)..Len(q) : q[j].code \notin K

LEMMA EndsEmpty ==
  ASSUME NEW q \in Seq(Events), q = <<>>, NEW K, NEW V, NEW base \in BOOLEAN
  PROVE  Ends(q, K, V, base) <=> base
BY DEF Ends

LEMMA EndsAppend ==
  ASSUME NEW q \in Seq(Events), NEW e \in Events, NEW K, NEW V, NEW base \in BOOLEAN,
         \/ e.code \in K /\ e.value \in V
         \/ e.code \notin K /\ Ends(q, K, V, base)
  PROVE  Ends(Append(q, e), K, V, base)
<1> DEFINE r == Append(q, e)
<1>1. Len(q) \in Nat /\ Len(r) = Len(q) + 1 /\ r[Len(q) + 1] = e
      /\ \A i \in 1..Len(q) : r[i] = q[i]
  BY AppendProperties, LenProperties
<1>2. CASE e.code \in K /\ e.value \in V
  <2>1. Len(q) + 1 \in 1..Len(r) /\ \A j \in (Len(q) + 2)..Len(r) : FALSE
    BY <1>1
  <2> QED
    BY <1>1, <1>2, <2>1 DEF Ends
<1>3. CASE e.code \notin K /\ Ends(q, K, V, base)
  <2>1. CASE base /\ \A i \in 1..Len(q) : q[i].code \notin K
    <3>1. \A i \in 1..Len(r) : r[i].code \notin K
      BY <1>1, <1>3, <2>1
    <3> QED
      BY <2>1, <3>1 DEF Ends
  <2>2. ASSUME NEW i \in 1..Len(q), q[i].code \in K, q[i].value \in V,
               \A j \in (i + 1)..Len(q) : q[j].code \notin K
        PROVE  Ends(r, K, V, base)
    <3>1. i \in 1..Len(r) /\ r[i] = q[i]
      BY <1>1
    <3>2. \A j \in (i + 1)..Len(r) : r[j].code \notin K
      BY <1>1, <1>3, <2>2
    <3> QED
      BY <2>2, <3>1, <3>2 DEF Ends
  <2> QED
    BY <1>3, <2>1, <2>2 DEF Ends
<1> QED
  BY <1>2, <1>3

LEMMA EndsTail ==
  ASSUME NEW q \in Seq(Events), q # <<>>, NEW K, NEW V,
         NEW before \in BOOLEAN, NEW after \in BOOLEAN,
         Head(q).code \notin K /\ before => after,
         Head(q).code \in K /\ Head(q).value \in V => after,
         Ends(q, K, V, before)
  PROVE  Ends(Tail(q), K, V, after)
<1> DEFINE r == Tail(q)
<1>1. Len(q) \in Nat \ {0} /\ Len(r) = Len(q) - 1 /\ Head(q) = q[1]
      /\ \A i \in 1..Len(r) : r[i] = q[i + 1]
  BY HeadTailProperties, LenProperties, EmptySeq
<1>2. CASE before /\ \A i \in 1..Len(q) : q[i].code \notin K
  <2>1. \A i \in 1..Len(r) : r[i].code \notin K
    BY <1>1, <1>2
  <2>2. Head(q).code \notin K
    BY <1>1, <1>2
  <2> QED
    BY <1>2, <2>1, <2>2 DEF Ends
<1>3. ASSUME NEW i \in 1..Len(q), q[i].code \in K, q[i].value \in V,
             \A j \in (i + 1)..Len(q) : q[j].code \notin K
      PROVE  Ends(r, K, V, after)
  <2>1. CASE i = 1
    <3>1. \A j \in 1..Len(r) : r[j].code \notin K
      BY <1>1, <1>3, <2>1
    <3>2. after
      BY <1>1, <1>3, <2>1
    <3> QED
      BY <3>1, <3>2 DEF Ends
  <2>2. CASE i # 1
    <3>1. i - 1 \in 1..Len(r) /\ r[i - 1] = q[i]
      BY <1>1, <2>2
    <3>2. \A j \in ((i - 1) + 1)..Len(r) : r[j].code \notin K
      BY <1>1, <1>3, <2>2
    <3> QED
      BY <1>3, <3>1, <3>2 DEF Ends
  <2> QED
    BY <2>1, <2>2
<1> QED
  BY <1>2, <1>3 DEF Ends

\* bthid_send moves an event along and changes nothing of their order.
LEMMA WritingKeepsOrder ==
  ASSUME TypeOK, WriteEvent
  PROVE  Pending' = Pending
<1>1. todo \in Seq(Events) /\ pipe \in Seq(Events) /\ todo # <<>>
  BY DEF TypeOK, WriteEvent
<1>2. Head(todo) \in Events /\ Tail(todo) \in Seq(Events)
  BY <1>1
<1>3. todo = <<Head(todo)>> \o Tail(todo)
  BY <1>1, <1>2
<1>4. Append(pipe, Head(todo)) = pipe \o <<Head(todo)>>
  BY <1>1, <1>2
<1>5. <<Head(todo)>> \in Seq(Events)
  BY <1>2
<1>6. pipe' \o todo' = pipe \o (<<Head(todo)>> \o Tail(todo))
  BY <1>1, <1>2, <1>4, <1>5, ConcatAssociative DEF WriteEvent
<1> QED
  BY <1>3, <1>6 DEF Pending

LEMMA ReadingTakesFirst ==
  ASSUME TypeOK, Receive
  PROVE  /\ Pending \in Seq(Events)
         /\ Pending # <<>>
         /\ Head(Pending) = Head(pipe)
         /\ Head(Pending) \in Events
         /\ Pending' = Tail(Pending)
<1>1. todo \in Seq(Events) /\ pipe \in Seq(Events) /\ pipe # <<>>
      /\ todo' = todo /\ pipe' = Tail(pipe)
  BY DEF TypeOK, Receive
<1>2. Pending \in Seq(Events)
  BY <1>1, ConcatProperties DEF Pending
<1>3. Len(pipe) > 0 /\ Head(pipe) \in Events
  BY <1>1
<1>4. Len(Pending) = Len(pipe) + Len(todo) /\ Pending[1] = pipe[1]
  BY <1>1, <1>3, ConcatProperties DEF Pending
<1>5. Pending # <<>> /\ Head(Pending) = Head(pipe)
  BY <1>1, <1>2, <1>3, <1>4
<1>6. Tail(Pending) = Tail(pipe) \o todo
  BY <1>1, <1>3 DEF Pending
<1> QED
  BY <1>1, <1>2, <1>3, <1>5, <1>6 DEF Pending

-----------------------------------------------------------------------------
(* The inductive invariant of what reaches the host. *)

\* No two modifiers are sticky together, but for the lapse of that name.
One ==
  "chord" \notin lapses => ~AtLeastTwo(sticky)

\* Once everything on its way has arrived, a modifier that is not sticky is up.
Released ==
  "chord" \notin lapses =>
    \A m \in Sticky \ sticky : Ends(Pending, {m}, {0}, m \notin bitmask)

\* Once everything on its way has arrived, no key is down unless one is held.
KeyUp ==
  "crossed" \notin lapses /\ active \notin Keys =>
    Ends(Pending, Keys, {0}, key = NoKey)

\* Without a lapse, the modifiers that will be down are those that are sticky.
Exact ==
  lapses = {} =>
    /\ \A m \in Modifiers \ sticky : Ends(Pending, {m}, {0}, m \notin bitmask)
    /\ \A m \in sticky : Ends(Pending, {m}, {1, 2}, m \in bitmask)

\* The modifiers shown as set, Caps Lock left aside.
Set == state \ {CapsLock}

\* Without a lapse, the drawing follows the sticky modifiers, and while a button
\* is held it is half a tap behind them: the second half comes at the release.
Drawn ==
  lapses = {} /\ gui = "running" =>
    /\ active \in Keys \cup Sticky \cup {NoButton}
    /\ active = NoButton => locked = {} /\ Set = UNION {Face(m) : m \in sticky}
    /\ active \in Keys => /\ sticky = {} /\ locked = {}
                          /\ active = CapsLock => Set = {}
    /\ active \in Sticky =>
         \/ sticky = {active} /\ Set = {} /\ locked = {}
         \/ sticky = {} /\ Set = Face(active) /\ locked = Face(active)

HostInv == TypeOK /\ One /\ Released /\ KeyUp /\ Exact /\ Drawn

LEMMA DisjointCodes ==
  /\ Sticky \cap Keys = {}
  /\ Sticky \subseteq Modifiers
  /\ Quit \notin Keys /\ Quit \notin Sticky /\ Quit \notin Modifiers
  /\ NoButton \notin Keys /\ NoButton \notin Sticky
  /\ RightModifiers \cap (Keys \cup Sticky \cup {NoButton}) = {}
BY KeysAssumption DEF Sticky, Modifiers, Quit, Codes

\* What bthid_process_keypress adds to the events on their way, and what it
\* makes of the sticky modifiers.
SendsNothing(b, u) ==
  b \in Sticky /\ u = 0 /\ Pending' = Pending /\ sticky' = sticky

SendsRelease(b, u) ==
  /\ b \in sticky /\ u # 0
  /\ Pending' = Append(Pending, Event(b, 0))
  /\ sticky' = {}

SendsPress(b, u) ==
  /\ b \in Sticky \ sticky /\ u # 0
  /\ Pending' = Append(Pending, Event(b, 1))
  /\ sticky' = sticky \cup {b}

SendsQuit(b, u) ==
  /\ b = Quit
  /\ Pending' = Append(Pending, Event(b, u))
  /\ sticky' = sticky

SendsKey(b, u) ==
  /\ b \notin Sticky \cup {Quit}
  /\ sticky = {}
  /\ Pending' = Append(Pending, Event(b, u))
  /\ sticky' = {}

SendsKeyAndRelease(b, u, f) ==
  /\ b \notin Sticky \cup {Quit}
  /\ Pending' = Append(Append(Pending, Event(b, u)), Event(f, 0))
  /\ sticky' = {}

LEMMA ProcessEffect ==
  ASSUME TypeOK, NEW b \in Buttons, NEW u \in 0..2, Process(b, u), UNCHANGED pipe
  PROVE  /\ Pending \in Seq(Events)
         /\ \/ SendsNothing(b, u) \/ SendsRelease(b, u) \/ SendsPress(b, u)
            \/ SendsQuit(b, u) \/ SendsKey(b, u)
            \/ \E f \in sticky : SendsKeyAndRelease(b, u, f)
<1>1. pipe \in Seq(Events) /\ todo = <<>> /\ sticky \subseteq Sticky
  BY DEF TypeOK, Process
<1>2. Pending = pipe /\ Pending' = pipe \o Sends(b, u)
  BY <1>1 DEF Pending, Process
<1>3. sticky' = NewSticky(b, u)
  BY DEF Process
<1>4. \A c \in Codes, v \in 0..2 : /\ Event(c, v) \in Events
                                   /\ pipe \o <<Event(c, v)>> = Append(pipe, Event(c, v))
  <2>1. \A c \in Codes, v \in 0..2 : Event(c, v) \in Events
    BY EventType
  <2> QED
    BY <1>1, <2>1
<1>5. CASE b \in Sticky /\ u = 0
  BY <1>1, <1>2, <1>3, <1>5 DEF Sends, NewSticky, SendsNothing
<1>6. CASE b \in sticky /\ u # 0
  <2>1. Sends(b, u) = <<Event(b, 0)>>
    BY <1>1, <1>6 DEF Sends
  <2>2. Pending' = Append(Pending, Event(b, 0))
    BY <1>2, <1>4, <2>1, ButtonsHaveCodes
  <2> QED
    BY <1>1, <1>2, <1>3, <1>6, <2>2 DEF NewSticky, SendsRelease
<1>7. CASE b \in Sticky \ sticky /\ u # 0
  <2>1. Sends(b, u) = <<Event(b, 1)>>
    BY <1>1, <1>7 DEF Sends
  <2>2. Pending' = Append(Pending, Event(b, 1))
    BY <1>2, <1>4, <2>1, ButtonsHaveCodes
  <2> QED
    BY <1>1, <1>2, <1>3, <1>7, <2>2 DEF NewSticky, SendsPress
<1>8. CASE b = Quit
  <2>1. Sends(b, u) = <<Event(b, u)>>
    BY <1>8, DisjointCodes DEF Sends
  <2>2. Pending' = Append(Pending, Event(b, u))
    BY <1>2, <1>4, <2>1, ButtonsHaveCodes
  <2> QED
    BY <1>1, <1>2, <1>3, <1>8, <2>2, DisjointCodes DEF NewSticky, SendsQuit
<1>9. CASE b \notin Sticky \cup {Quit}
  <2>1. Sends(b, u) = <<Event(b, u)>> \o ReleaseSticky /\ sticky' = {}
    BY <1>3, <1>9 DEF Sends, NewSticky
  <2>2. CASE sticky = {} /\ ReleaseSticky = <<>>
    <3>1. <<Event(b, u)>> \o <<>> = <<Event(b, u)>>
      OBVIOUS
    <3>2. Pending' = Append(Pending, Event(b, u))
      BY <1>2, <1>4, <2>1, <2>2, <3>1, ButtonsHaveCodes
    <3> QED
      BY <1>1, <1>2, <1>9, <2>1, <2>2, <3>2 DEF SendsKey
  <2>3. CASE FirstSticky \in sticky /\ ReleaseSticky = <<Event(FirstSticky, 0)>>
    <3> DEFINE e == Event(b, u)
               f == Event(FirstSticky, 0)
    <3>1. e \in Events /\ f \in Events
      BY <1>1, <1>4, <2>3, ButtonsHaveCodes
    <3>2. <<e>> \in Seq(Events) /\ <<f>> \in Seq(Events)
      BY <3>1
    <3>3. pipe \o (<<e>> \o <<f>>) = (pipe \o <<e>>) \o <<f>>
      BY <1>1, <3>2, ConcatAssociative
    <3>4. Append(pipe, e) \in Seq(Events)
      BY <1>1, <3>1, AppendProperties
    <3>5. (pipe \o <<e>>) \o <<f>> = Append(Append(pipe, e), f)
      <4> HIDE DEF e, f
      <4>1. pipe \o <<e>> = Append(pipe, e)
        BY <1>1, <3>1
      <4>2. \A q \in Seq(Events) : q \o <<f>> = Append(q, f)
        BY <3>1
      <4> QED
        BY <3>4, <4>1, <4>2
    <3> QED
      BY <1>1, <1>2, <1>9, <2>1, <2>3, <3>3, <3>5 DEF SendsKeyAndRelease
  <2> QED
    BY <1>1, <2>2, <2>3, ReleasesOne
<1> QED
  BY <1>1, <1>2, <1>5, <1>6, <1>7, <1>8, <1>9

\* An event about a code of K settles K, any other leaves it alone.
LEMMA Settles ==
  ASSUME NEW q \in Seq(Events), NEW c \in Codes, NEW v \in 0..2, NEW K, NEW V,
         NEW base \in BOOLEAN, c \in K, v \in V
  PROVE  Ends(Append(q, Event(c, v)), K, V, base)
BY EventType, EndsAppend

LEMMA LeavesAlone ==
  ASSUME NEW q \in Seq(Events), NEW c \in Codes, NEW v \in 0..2, NEW K, NEW V,
         NEW base \in BOOLEAN, c \notin K, Ends(q, K, V, base)
  PROVE  /\ Append(q, Event(c, v)) \in Seq(Events)
         /\ Ends(Append(q, Event(c, v)), K, V, base)
<1>1. Event(c, v) \in Events /\ Event(c, v).code = c
  BY EventType
<1>2. Append(q, Event(c, v)) \in Seq(Events)
  BY <1>1, AppendProperties
<1> QED
  BY <1>1, <1>2, EndsAppend

\* A call of bthid_process_keypress changes nothing at the host yet.
Called(b, u) ==
  /\ Process(b, u)
  /\ UNCHANGED <<pipe, receiver>>
  /\ lapses \subseteq lapses'
  /\ AtLeastTwo(sticky') => "chord" \in lapses'

LEMMA OneSticky ==
  ASSUME TypeOK, One, "chord" \notin lapses, NEW b \in sticky
  PROVE  sticky = {b}
BY DEF One, AtLeastTwo

\* A modifier that is neither sticky nor the button is left alone.
LEMMA OthersCalled ==
  ASSUME TypeOK, NEW b \in Buttons, NEW u \in 0..2, Called(b, u),
         NEW m \in Codes \ sticky, m # b \/ SendsNothing(b, u),
         NEW V, NEW base \in BOOLEAN, Ends(Pending, {m}, V, base)
  PROVE  Ends(Pending', {m}, V, base)
<1>1. Pending \in Seq(Events) /\ sticky \subseteq Sticky /\ b \in Codes
  BY ProcessEffect, ButtonsHaveCodes DEF Called, TypeOK
<1>2. CASE SendsNothing(b, u)
  BY <1>2 DEF SendsNothing
<1>3. CASE /\ m # b
           /\ SendsRelease(b, u) \/ SendsPress(b, u) \/ SendsQuit(b, u) \/ SendsKey(b, u)
  <2>1. PICK v \in 0..2 : Pending' = Append(Pending, Event(b, v))
    BY <1>3 DEF SendsRelease, SendsPress, SendsQuit, SendsKey
  <2> QED
    BY <1>1, <1>3, <2>1, LeavesAlone
<1>4. ASSUME m # b, NEW f \in sticky, SendsKeyAndRelease(b, u, f)
      PROVE  Ends(Pending', {m}, V, base)
  <2> DEFINE q == Append(Pending, Event(b, u))
  <2>1. Pending' = Append(q, Event(f, 0)) /\ f \in Codes /\ f # m
    BY <1>1, <1>4, ButtonsHaveCodes DEF SendsKeyAndRelease
  <2>2. q \in Seq(Events) /\ Ends(q, {m}, V, base)
    BY <1>1, <1>4, LeavesAlone
  <2> HIDE DEF q
  <2> QED
    BY <2>1, <2>2, LeavesAlone
<1> QED
  BY <1>2, <1>3, <1>4, ProcessEffect DEF Called

\* A modifier that is sticky no more is released.
LEMMA StickyCalled ==
  ASSUME TypeOK, One, "chord" \notin lapses, NEW b \in Buttons, NEW u \in 0..2,
         Called(b, u), NEW m \in sticky \ sticky', NEW base \in BOOLEAN
  PROVE  Ends(Pending', {m}, {0}, base)
<1>1. Pending \in Seq(Events) /\ sticky \subseteq Sticky /\ b \in Codes /\ m \in Codes
      /\ sticky = {m}
  BY ProcessEffect, ButtonsHaveCodes, OneSticky DEF Called, TypeOK
<1>2. CASE SendsRelease(b, u)
  <2>1. Pending' = Append(Pending, Event(m, 0))
    BY <1>1, <1>2 DEF SendsRelease
  <2> QED
    BY <1>1, <2>1, Settles
<1>3. ASSUME NEW f \in sticky, SendsKeyAndRelease(b, u, f)
      PROVE  Ends(Pending', {m}, {0}, base)
  <2> DEFINE q == Append(Pending, Event(b, u))
  <2>1. Pending' = Append(q, Event(m, 0))
    BY <1>1, <1>3 DEF SendsKeyAndRelease
  <2>2. q \in Seq(Events)
    BY <1>1, EventType, AppendProperties
  <2> HIDE DEF q
  <2> QED
    BY <1>1, <2>1, <2>2, Settles
<1>4. SendsRelease(b, u) \/ \E f \in sticky : SendsKeyAndRelease(b, u, f)
  BY <1>1, ProcessEffect DEF Called, SendsNothing, SendsPress, SendsQuit, SendsKey
<1> QED
  BY <1>2, <1>3, <1>4

\* After a call, too, a modifier that is not sticky will be up.
LEMMA NotStickyCalled ==
  ASSUME TypeOK, One, "chord" \notin lapses, NEW b \in Buttons, NEW u \in 0..2,
         Called(b, u), NEW m \in Modifiers \ sticky', m # b \/ b \in Sticky,
         NEW base \in BOOLEAN, m \notin sticky => Ends(Pending, {m}, {0}, base)
  PROVE  Ends(Pending', {m}, {0}, base)
<1>1. m \in Codes
  BY DEF Codes
<1>2. CASE m \in sticky
  BY <1>2, StickyCalled
<1>3. CASE m \notin sticky
  <2>1. m # b \/ SendsNothing(b, u)
    BY <1>3, ProcessEffect, DisjointCodes
       DEF Called, SendsRelease, SendsPress, SendsQuit, SendsKey, SendsKeyAndRelease
  <2> QED
    BY <1>1, <1>3, <2>1, OthersCalled
<1> QED
  BY <1>2, <1>3

LEMMA ReleasedCalled ==
  ASSUME TypeOK, One, Released, NEW b \in Buttons, NEW u \in 0..2, Called(b, u)
  PROVE  Released'
<1>1. bitmask' = bitmask /\ lapses \subseteq lapses'
  BY DEF Called, receiver
<1>2. ASSUME "chord" \notin lapses', NEW m \in Sticky \ sticky'
      PROVE  Ends(Pending', {m}, {0}, m \notin bitmask)
  <2> DEFINE up == m \notin bitmask
  <2>1. "chord" \notin lapses /\ m \in Modifiers \ sticky' /\ (m # b \/ b \in Sticky)
    BY <1>1, <1>2, DisjointCodes
  <2>2. m \notin sticky => Ends(Pending, {m}, {0}, up)
    BY <2>1 DEF Released
  <2>3. up \in BOOLEAN
    OBVIOUS
  <2> HIDE DEF up
  <2>4. Ends(Pending', {m}, {0}, up)
    BY <2>1, <2>2, <2>3, NotStickyCalled
  <2> QED
    BY <2>4 DEF up
<1> QED
  BY <1>1, <1>2 DEF Released

\* Keys: a call leaves them alone, unless it is about one.
LEMMA KeysCalled ==
  ASSUME TypeOK, NEW b \in Buttons \ Keys, NEW u \in 0..2, Called(b, u),
         NEW base \in BOOLEAN, Ends(Pending, Keys, {0}, base)
  PROVE  Ends(Pending', Keys, {0}, base)
<1>1. Pending \in Seq(Events) /\ sticky \subseteq Sticky /\ b \in Codes
  BY ProcessEffect, ButtonsHaveCodes DEF Called, TypeOK
<1>2. CASE SendsNothing(b, u)
  BY <1>2 DEF SendsNothing
<1>3. CASE SendsRelease(b, u) \/ SendsPress(b, u) \/ SendsQuit(b, u) \/ SendsKey(b, u)
  <2>1. PICK v \in 0..2 : Pending' = Append(Pending, Event(b, v))
    BY <1>3 DEF SendsRelease, SendsPress, SendsQuit, SendsKey
  <2> QED
    BY <1>1, <2>1, LeavesAlone
<1>4. ASSUME NEW f \in sticky, SendsKeyAndRelease(b, u, f)
      PROVE  Ends(Pending', Keys, {0}, base)
  <2> DEFINE q == Append(Pending, Event(b, u))
  <2>1. Pending' = Append(q, Event(f, 0)) /\ f \in Codes /\ f \notin Keys
    BY <1>1, <1>4, ButtonsHaveCodes, DisjointCodes DEF SendsKeyAndRelease
  <2>2. q \in Seq(Events) /\ Ends(q, Keys, {0}, base)
    BY <1>1, LeavesAlone
  <2> HIDE DEF q
  <2> QED
    BY <2>1, <2>2, LeavesAlone
<1> QED
  BY <1>2, <1>3, <1>4, ProcessEffect DEF Called

\* The release of a key lets go of the keys.
LEMMA KeyLetGo ==
  ASSUME TypeOK, NEW b \in Keys, b \in Buttons, Called(b, 0), NEW base \in BOOLEAN
  PROVE  Ends(Pending', Keys, {0}, base)
<1> DEFINE q == Append(Pending, Event(b, 0))
<1>1. Pending \in Seq(Events) /\ sticky \subseteq Sticky /\ b \in Codes /\ b # Quit
      /\ b \notin Sticky
  BY ProcessEffect, ButtonsHaveCodes, DisjointCodes DEF Called, TypeOK
<1>2. q \in Seq(Events) /\ Ends(q, Keys, {0}, base)
  BY <1>1, EventType, Settles, AppendProperties
<1>3. CASE SendsKey(b, 0)
  BY <1>2, <1>3 DEF SendsKey
<1>4. ASSUME NEW f \in sticky, SendsKeyAndRelease(b, 0, f)
      PROVE  Ends(Pending', Keys, {0}, base)
  <2>1. Pending' = Append(q, Event(f, 0)) /\ f \in Codes /\ f \notin Keys
    BY <1>1, <1>4, ButtonsHaveCodes, DisjointCodes DEF SendsKeyAndRelease
  <2> HIDE DEF q
  <2> QED
    BY <1>2, <2>1, LeavesAlone
<1> HIDE DEF q
<1>5. SendsKey(b, 0) \/ \E f \in sticky : SendsKeyAndRelease(b, 0, f)
  BY <1>1, ProcessEffect
     DEF Called, SendsNothing, SendsRelease, SendsPress, SendsQuit
<1> QED
  BY <1>3, <1>4, <1>5

LEMMA ExactCalled ==
  ASSUME TypeOK, One, Exact, NEW b \in Buttons \ RightModifiers, NEW u \in 0..2,
         Called(b, u)
  PROVE  Exact'
<1>1. bitmask' = bitmask /\ lapses \subseteq lapses'
  BY DEF Called, receiver
<1> SUFFICES ASSUME lapses' = {}
             PROVE  /\ \A m \in Modifiers \ sticky' :
                         Ends(Pending', {m}, {0}, m \notin bitmask)
                    /\ \A m \in sticky' : Ends(Pending', {m}, {1, 2}, m \in bitmask)
  BY <1>1 DEF Exact
<1>2. /\ lapses = {} /\ Pending \in Seq(Events) /\ b \in Codes
      /\ sticky \subseteq Sticky /\ sticky' \subseteq Sticky
  BY <1>1, ProcessEffect, ProcessType, ButtonsHaveCodes DEF Called, TypeOK
<1>3. ASSUME NEW m \in Modifiers \ sticky'
      PROVE  Ends(Pending', {m}, {0}, m \notin bitmask)
  <2> DEFINE up == m \notin bitmask
  <2>1. m # b \/ b \in Sticky
    BY DisjointCodes, KeysAssumption DEF Buttons, Sticky
  <2>2. m \notin sticky => Ends(Pending, {m}, {0}, up)
    BY <1>2 DEF Exact
  <2>3. up \in BOOLEAN
    OBVIOUS
  <2> HIDE DEF up
  <2>4. Ends(Pending', {m}, {0}, up)
    BY <1>2, <2>1, <2>2, <2>3, NotStickyCalled
  <2> QED
    BY <2>4 DEF up
<1>4. ASSUME NEW m \in sticky'
      PROVE  Ends(Pending', {m}, {1, 2}, m \in bitmask)
  <2> DEFINE down == m \in bitmask
  <2>1. m \in sticky => Ends(Pending, {m}, {1, 2}, down)
    BY <1>2 DEF Exact
  <2>2. down \in BOOLEAN
    OBVIOUS
  <2> HIDE DEF down
  <2>3. CASE SendsNothing(b, u)
    BY <2>1, <2>3 DEF SendsNothing, down
  <2>4. CASE SendsQuit(b, u)
    <3>1. m # b /\ m \in sticky /\ Pending' = Append(Pending, Event(b, u))
      BY <1>2, <2>4, DisjointCodes DEF SendsQuit
    <3>2. Ends(Pending', {m}, {1, 2}, down)
      BY <1>2, <2>1, <2>2, <3>1, LeavesAlone
    <3> QED
      BY <3>2 DEF down
  <2>5. CASE SendsPress(b, u)
    <3>1. Pending' = Append(Pending, Event(b, 1)) /\ (m = b \/ (m \in sticky /\ m # b))
      BY <2>5 DEF SendsPress
    <3>2. m = b => Ends(Pending', {m}, {1, 2}, down)
      BY <1>2, <2>2, <3>1, Settles
    <3>3. m # b => Ends(Pending', {m}, {1, 2}, down)
      BY <1>2, <2>1, <2>2, <3>1, LeavesAlone
    <3> QED
      BY <3>2, <3>3 DEF down
  <2> QED
    BY <2>3, <2>4, <2>5, ProcessEffect
       DEF Called, SendsRelease, SendsKey, SendsKeyAndRelease
<1> QED
  BY <1>3, <1>4

-----------------------------------------------------------------------------
(* What the daemon makes of the event it reads. *)

LEMMA ReadModifier ==
  ASSUME NEW e \in Events, NEW m \in Modifiers
  PROVE  /\ e.code \notin {m} /\ m \notin bitmask => m \notin NewBitmask(bitmask, e)
         /\ e.code \notin {m} /\ m \in bitmask => m \in NewBitmask(bitmask, e)
         /\ e.code \in {m} /\ e.value \in {0} => m \notin NewBitmask(bitmask, e)
         /\ e.code \in {m} /\ e.value \in {1, 2} => m \in NewBitmask(bitmask, e)
BY DEF NewBitmask

LEMMA ReadKey ==
  ASSUME TypeOK, Receive, NEW e \in Events, e = Head(pipe)
  PROVE  /\ e.code \notin Keys /\ key = NoKey => key' = NoKey
         /\ e.code \in Keys /\ e.value \in {0} => key' = NoKey
BY DEF Receive, ReportKey, IsReported, IsKey

LEMMA HostReads ==
  ASSUME HostInv, Receive
  PROVE  Released' /\ KeyUp' /\ Exact'
<1>1. /\ Pending \in Seq(Events) /\ Pending # <<>> /\ Pending' = Tail(Pending)
      /\ Head(Pending) \in Events /\ Head(Pending) = Head(pipe)
  BY ReadingTakesFirst DEF HostInv
<1>2. /\ bitmask' = NewBitmask(bitmask, Head(Pending))
      /\ UNCHANGED <<lapses, sticky, active>>
  BY <1>1 DEF Receive
<1>3. sticky \subseteq Modifiers
  BY DisjointCodes DEF HostInv, TypeOK
<1>4. ASSUME NEW m \in Modifiers, Ends(Pending, {m}, {0}, m \notin bitmask)
      PROVE  Ends(Pending', {m}, {0}, m \notin bitmask')
  <2> DEFINE before == m \notin bitmask
             after == m \notin bitmask'
  <2>1. /\ before \in BOOLEAN /\ after \in BOOLEAN
        /\ Head(Pending).code \notin {m} /\ before => after
        /\ Head(Pending).code \in {m} /\ Head(Pending).value \in {0} => after
    BY <1>1, <1>2, ReadModifier
  <2>2. Ends(Pending, {m}, {0}, before)
    BY <1>4
  <2> HIDE DEF before, after
  <2>3. Ends(Pending', {m}, {0}, after)
    BY <1>1, <2>1, <2>2, EndsTail
  <2> QED
    BY <2>3 DEF after
<1>5. ASSUME NEW m \in Modifiers, Ends(Pending, {m}, {1, 2}, m \in bitmask)
      PROVE  Ends(Pending', {m}, {1, 2}, m \in bitmask')
  <2> DEFINE before == m \in bitmask
             after == m \in bitmask'
  <2>1. /\ before \in BOOLEAN /\ after \in BOOLEAN
        /\ Head(Pending).code \notin {m} /\ before => after
        /\ Head(Pending).code \in {m} /\ Head(Pending).value \in {1, 2} => after
    BY <1>1, <1>2, ReadModifier
  <2>2. Ends(Pending, {m}, {1, 2}, before)
    BY <1>5
  <2> HIDE DEF before, after
  <2>3. Ends(Pending', {m}, {1, 2}, after)
    BY <1>1, <2>1, <2>2, EndsTail
  <2> QED
    BY <2>3 DEF after
<1>6. Released'
  <2> SUFFICES ASSUME "chord" \notin lapses', NEW m \in Sticky \ sticky'
               PROVE  Ends(Pending, {m}, {0}, m \notin bitmask)' 
    BY DEF Released
  <2>1. Ends(Pending, {m}, {0}, m \notin bitmask)
    BY <1>2 DEF HostInv, Released
  <2>2. m \in Modifiers
    BY DisjointCodes
  <2> QED
    BY <1>4, <2>1, <2>2
<1>7. Exact'
  <2> SUFFICES ASSUME lapses' = {}
               PROVE  /\ \A m \in Modifiers \ sticky' :
                           Ends(Pending', {m}, {0}, m \notin bitmask')
                      /\ \A m \in sticky' : Ends(Pending', {m}, {1, 2}, m \in bitmask')
    BY DEF Exact
  <2>1. /\ \A m \in Modifiers \ sticky : Ends(Pending, {m}, {0}, m \notin bitmask)
        /\ \A m \in sticky : Ends(Pending, {m}, {1, 2}, m \in bitmask)
    BY <1>2 DEF HostInv, Exact
  <2>2. ASSUME NEW m \in Modifiers \ sticky'
        PROVE  Ends(Pending', {m}, {0}, m \notin bitmask')
    BY <1>2, <1>4, <2>1
  <2>3. ASSUME NEW m \in sticky'
        PROVE  Ends(Pending', {m}, {1, 2}, m \in bitmask')
    BY <1>2, <1>3, <1>5, <2>1
  <2> QED
    BY <2>2, <2>3
<1>8. KeyUp'
  <2> SUFFICES ASSUME "crossed" \notin lapses', active' \notin Keys
               PROVE  Ends(Pending', Keys, {0}, key' = NoKey)
    BY DEF KeyUp
  <2> DEFINE before == key = NoKey
             after == key' = NoKey
  <2>1. Ends(Pending, Keys, {0}, before)
    BY <1>2 DEF HostInv, KeyUp
  <2>2. /\ before \in BOOLEAN /\ after \in BOOLEAN
        /\ Head(Pending).code \notin Keys /\ before => after
        /\ Head(Pending).code \in Keys /\ Head(Pending).value \in {0} => after
    BY <1>1, ReadKey DEF HostInv
  <2> HIDE DEF before, after
  <2>3. Ends(Pending', Keys, {0}, after)
    BY <1>1, <2>1, <2>2, EndsTail
  <2> QED
    BY <2>3 DEF after
<1> QED
  BY <1>6, <1>7, <1>8

-----------------------------------------------------------------------------
(* What is drawn while a button is pressed, held and released. *)

LEMMA FacesOf ==
  /\ \A b \in Keys \cup {Quit} : Face(b) = {}
  /\ \A b \in Sticky : Face(b) # {} /\ Face(b) \subseteq Faces
  /\ CapsLock \notin Faces
<1>1. \A b \in Keys \cup {Quit} : Face(b) = {}
  BY DisjointCodes, KeysAssumption DEF Face, Modifiers, Quit
<1>2. \A b \in Sticky : Face(b) # {} /\ Face(b) \subseteq Faces
  BY DEF Face, Sticky, Faces
<1>3. CapsLock \notin Faces
  BY KeysAssumption
<1> QED
  BY <1>1, <1>2, <1>3

LEMMA SetType ==
  ASSUME TypeOK
  PROVE  Set \subseteq Faces /\ Set = state \cap Faces
BY FacesOf DEF Set, TypeOK

LEMMA PressDrawn ==
  ASSUME HostInv, NEW b \in Buttons, ButtonPress(b)
  PROVE  Drawn'
<1> SUFFICES ASSUME lapses' = {}, gui' = "running"
             PROVE  Drawn'
  BY DEF Drawn
<1>1. /\ lapses = {} /\ active = NoButton /\ active' = b /\ ~AtLeastTwo(sticky')
      /\ b \notin RightModifiers /\ (b = CapsLock => state \cap Faces = {})
  BY DEF ButtonPress, Lapse, Crossed
<1>2. gui = "running" /\ b # Quit /\ state' = state
      /\ locked' = NewLocked(b) /\ sticky' = NewSticky(b, 1)
  BY DEF ButtonPress, Process
<1>3. locked = {} /\ Set = UNION {Face(m) : m \in sticky}
  BY <1>1, <1>2 DEF HostInv, Drawn
<1>4. Set' = Set /\ Set \subseteq Faces /\ Set = state \cap Faces
  BY <1>2, SetType DEF HostInv, Set
<1>5. b \in Keys \cup Sticky
  BY <1>1, <1>2 DEF Buttons, Sticky
<1>6. CASE b \in Keys
  <2>1. locked' = {}
    BY <1>2, <1>3, <1>6, FacesOf DEF NewLocked, IsLocked, IsSet
  <2>2. sticky' = {}
    BY <1>2, <1>6, DisjointCodes DEF NewSticky
  <2>3. b = CapsLock => Set' = {}
    BY <1>1, <1>4
  <2>4. b \notin Sticky /\ b # NoButton
    BY <1>6, DisjointCodes
  <2> QED
    BY <1>1, <1>6, <2>1, <2>2, <2>3, <2>4 DEF Drawn
<1>7. CASE b \in sticky
  <2>1. sticky = {b} /\ b \in Sticky
    BY <1>1, <1>7, OneSticky DEF HostInv, TypeOK
  <2>2. sticky' = {}
    BY <1>2, <1>7, <2>1 DEF NewSticky
  <2>3. Set = Face(b)
    BY <1>3, <2>1
  <2>4. IsSet(b)
    BY <1>4, <2>1, <2>3, FacesOf DEF IsSet
  <2>5. locked' = Face(b)
    BY <1>2, <1>3, <2>4 DEF NewLocked, Toggle
  <2>6. b \notin Keys /\ b # NoButton
    BY <2>1, DisjointCodes
  <2> QED
    BY <1>1, <1>4, <2>1, <2>2, <2>3, <2>5, <2>6 DEF Drawn
<1>8. CASE b \in Sticky \ sticky
  <2>1. sticky' = sticky \cup {b}
    BY <1>2, <1>8 DEF NewSticky
  <2>2. sticky = {}
    BY <1>1, <1>8, <2>1 DEF AtLeastTwo
  <2>3. Set = {}
    BY <1>3, <2>2
  <2>4. ~IsSet(b) /\ ~IsLocked(b)
    BY <1>3, <1>4, <1>8, <2>3, FacesOf DEF IsSet, IsLocked
  <2>5. locked' = {}
    BY <1>2, <1>3, <2>4 DEF NewLocked
  <2>6. b \notin Keys /\ b # NoButton
    BY <1>8, DisjointCodes
  <2> QED
    BY <1>1, <1>4, <1>8, <2>1, <2>2, <2>3, <2>5, <2>6 DEF Drawn
<1> QED
  BY <1>5, <1>6, <1>7, <1>8

LEMMA ReleaseDrawn ==
  ASSUME HostInv, ButtonRelease
  PROVE  Drawn'
<1> SUFFICES ASSUME lapses' = {}, gui' = "running"
             PROVE  Drawn'
  BY DEF Drawn
<1> DEFINE b == active
<1>1. /\ lapses = {} /\ active # NoButton /\ active' = NoButton
      /\ state' = NewState(b)
  BY DEF ButtonRelease, Lapse
<1>2. /\ gui = "running"
      /\ locked' = NewLocked(b) /\ sticky' = NewSticky(b, 0)
  BY DEF ButtonRelease, Process
<1>3. b \in Keys \cup Sticky
  BY <1>1, <1>2 DEF HostInv, Drawn
<1>4. Set \subseteq Faces /\ Set = state \cap Faces /\ state \subseteq Faces \cup {CapsLock}
  BY SetType DEF HostInv, TypeOK
<1> SUFFICES locked' = {} /\ Set' = UNION {Face(m) : m \in sticky'}
  BY <1>1, DisjointCodes DEF Drawn
<1>5. CASE b \in Keys
  <2>1. sticky = {} /\ locked = {} /\ (b = CapsLock => Set = {})
    BY <1>1, <1>2, <1>5 DEF HostInv, Drawn
  <2>2. Face(b) = {} /\ b \notin Sticky /\ b # Quit
    BY <1>5, FacesOf, DisjointCodes
  <2>3. locked' = {} /\ sticky' = {}
    BY <1>2, <2>1, <2>2 DEF NewLocked, NewSticky, IsLocked, IsSet
  <2>4. Set' = {}
    BY <1>1, <1>4, <2>1, <2>2, FacesOf DEF NewState, Toggle, Set
  <2> QED
    BY <2>3, <2>4
<1>6. CASE b \in Sticky
  <2>1. sticky' = sticky
    BY <1>2, <1>6 DEF NewSticky
  <2>2. Face(b) # {} /\ Face(b) \subseteq Faces /\ CapsLock \notin Faces
    BY <1>6, FacesOf
  <2>3. CASE sticky = {b} /\ Set = {} /\ locked = {}
    <3>1. ~IsSet(b) /\ ~IsLocked(b)
      BY <1>4, <2>2, <2>3 DEF IsSet, IsLocked
    <3>2. locked' = {}
      BY <1>2, <2>3, <3>1 DEF NewLocked
    <3>3. state' = Toggle(state, Face(b))
      BY <1>1, <2>2, <3>1 DEF NewState
    <3>4. Set' = Face(b)
      BY <1>4, <2>2, <2>3, <3>3 DEF Set, Toggle
    <3> QED
      BY <2>1, <2>3, <3>2, <3>4
  <2>4. CASE sticky = {} /\ Set = Face(b) /\ locked = Face(b)
    <3>1. IsSet(b) /\ IsLocked(b)
      BY <1>4, <2>2, <2>4 DEF IsSet, IsLocked
    <3>2. locked' = {}
      BY <1>2, <2>4, <3>1 DEF NewLocked, Toggle
    <3>3. state' = Toggle(state, Face(b))
      BY <1>1, <2>2, <3>1 DEF NewState
    <3>4. Set' = {}
      BY <1>4, <2>2, <2>4, <3>3 DEF Set, Toggle
    <3> QED
      BY <2>1, <2>4, <3>2, <3>4
  <2> QED
    BY <1>1, <1>2, <1>6, <2>3, <2>4 DEF HostInv, Drawn
<1> QED
  BY <1>3, <1>5, <1>6

LEMMA RepeatDrawn ==
  ASSUME HostInv, Repeat
  PROVE  Drawn'
<1> SUFFICES ASSUME lapses' = {}, gui' = "running"
             PROVE  Drawn'
  BY DEF Drawn
<1>1. /\ lapses = {} /\ active # NoButton /\ active' = active /\ state' = state
      /\ Face(active) = {}
  BY DEF Repeat, Lapse
<1>2. gui = "running" /\ locked' = NewLocked(active) /\ sticky' = NewSticky(active, 2)
  BY DEF Repeat, Process
<1>3. active \in Keys
  BY <1>1, <1>2, FacesOf DEF HostInv, Drawn
<1>4. sticky = {} /\ locked = {} /\ (active = CapsLock => Set = {})
  BY <1>1, <1>2, <1>3 DEF HostInv, Drawn
<1>5. locked' = {} /\ sticky' = {} /\ Set' = Set
  BY <1>1, <1>2, <1>3, <1>4, DisjointCodes DEF NewLocked, NewSticky, IsLocked, IsSet, Set
<1>6. active \notin Sticky /\ active # NoButton
  BY <1>3, DisjointCodes
<1> QED
  BY <1>1, <1>3, <1>4, <1>5, <1>6 DEF Drawn

-----------------------------------------------------------------------------
(* The invariant holds at first and in every step. *)

LEMMA HostInit ==
  Init => HostInv
<1> SUFFICES ASSUME Init PROVE HostInv
  OBVIOUS
<1>1. TypeOK
  BY TypeInit
<1>2. bitmask = {} /\ key = NoKey /\ active = NoButton /\ state = {} /\ locked = {}
  BY DEF Init
<1>3. Pending \in Seq(Events) /\ Pending = <<>>
  BY DEF Init, Pending
<1>4. lapses = {} => sticky = {}
  BY DEF Init
<1>5. \A K, V : Ends(Pending, K, V, TRUE)
  BY <1>3, EndsEmpty
<1>6. One
  BY DEF Init, One
<1>7. Released
  <2> SUFFICES ASSUME NEW m \in Sticky
               PROVE  Ends(Pending, {m}, {0}, m \notin bitmask)
    BY DEF Released
  <2>1. (m \notin bitmask) = TRUE
    BY <1>2
  <2> QED
    BY <1>5, <2>1
<1>8. KeyUp
  <2>1. (key = NoKey) = TRUE
    BY <1>2
  <2> QED
    BY <1>5, <2>1 DEF KeyUp
<1>9. Exact
  <2> SUFFICES ASSUME NEW m \in Modifiers, sticky = {}
               PROVE  Ends(Pending, {m}, {0}, m \notin bitmask)
    BY <1>4 DEF Exact
  <2>1. (m \notin bitmask) = TRUE
    BY <1>2
  <2> QED
    BY <1>5, <2>1
<1>10. Drawn
  BY <1>2, <1>4, DisjointCodes DEF Drawn, Set
<1> QED
  BY <1>1, <1>6, <1>7, <1>8, <1>9, <1>10 DEF HostInv

\* A press, a release and a repeat are calls, and a call keeps what is to come
\* in step; what it means for the keys depends on the button that is held then.
LEMMA CalledKeeps ==
  ASSUME HostInv, NEW b \in Buttons, NEW u \in 0..2, Called(b, u),
         b \in RightModifiers => lapses' # {}
  PROVE  One' /\ Released' /\ Exact'
<1>1. One'
  BY DEF Called, One
<1>2. Released'
  BY ReleasedCalled DEF HostInv
<1>3. Exact'
  BY ExactCalled DEF HostInv, Exact
<1> QED
  BY <1>1, <1>2, <1>3

LEMMA KeyUpAgain ==
  ASSUME HostInv, NEW b \in Buttons \ Keys, NEW u \in 0..2, Called(b, u),
         "crossed" \notin lapses' => active \notin Keys
  PROVE  KeyUp'
<1>1. key' = key /\ lapses \subseteq lapses'
  BY DEF Called, receiver
<1> SUFFICES ASSUME "crossed" \notin lapses'
             PROVE  Ends(Pending', Keys, {0}, key = NoKey)
  BY <1>1 DEF KeyUp
<1> DEFINE base == key = NoKey
<1>2. Ends(Pending, Keys, {0}, base) /\ base \in BOOLEAN
  BY <1>1 DEF HostInv, KeyUp
<1> HIDE DEF base
<1>3. Ends(Pending', Keys, {0}, base)
  BY <1>2, KeysCalled DEF HostInv
<1> QED
  BY <1>3 DEF base

LEMMA HostStep ==
  ASSUME HostInv, [Next]_vars
  PROVE  HostInv'
<1>1. TypeOK'
  BY TypeStep DEF HostInv
<1>2. ASSUME NEW b \in Buttons, ButtonPress(b)
      PROVE  HostInv'
  <2>1. Called(b, 1) /\ active' = b
    BY <1>2 DEF ButtonPress, Called, Lapse
  <2>2. One' /\ Released' /\ Exact'
    BY <1>2, <2>1, CalledKeeps DEF ButtonPress, Lapse
  <2>3. KeyUp'
    <3>1. CASE b \in Keys
      BY <2>1, <3>1 DEF KeyUp
    <3>2. CASE b \notin Keys
      <4>1. "crossed" \notin lapses' => active \notin Keys
        BY <1>2, DisjointCodes DEF ButtonPress, Lapse, Crossed
      <4> QED
        BY <2>1, <3>2, <4>1, KeyUpAgain
    <3> QED
      BY <3>1, <3>2
  <2> QED
    BY <1>1, <1>2, <2>2, <2>3, PressDrawn DEF HostInv
<1>3. CASE ButtonRelease
  <2>1. active \in Buttons /\ Called(active, 0) /\ active' = NoButton
    BY <1>3 DEF ButtonRelease, Called, Lapse, HostInv, TypeOK
  <2>2. One' /\ Released' /\ Exact'
    BY <1>3, <2>1, CalledKeeps DEF ButtonRelease, Lapse
  <2>3. KeyUp'
    <3>1. CASE active \in Keys
      <4> DEFINE base == key = NoKey
      <4>1. base \in BOOLEAN /\ key' = key
        BY <2>1 DEF Called, receiver
      <4> HIDE DEF base
      <4>2. Ends(Pending', Keys, {0}, base)
        BY <2>1, <3>1, <4>1, KeyLetGo DEF HostInv
      <4> QED
        BY <4>1, <4>2 DEF KeyUp, base
    <3>2. CASE active \notin Keys
      BY <2>1, <3>2, KeyUpAgain
    <3> QED
      BY <3>1, <3>2
  <2> QED
    BY <1>1, <1>3, <2>2, <2>3, ReleaseDrawn DEF HostInv
<1>4. CASE Repeat
  <2>1. active \in Buttons /\ Called(active, 2) /\ active' = active
    BY <1>4 DEF Repeat, Called, Lapse, HostInv, TypeOK
  <2>2. One' /\ Released' /\ Exact'
    BY <1>4, <2>1, CalledKeeps DEF Repeat, Lapse
  <2>3. KeyUp'
    <3>1. CASE active \in Keys
      BY <2>1, <3>1 DEF KeyUp
    <3>2. CASE active \notin Keys
      BY <2>1, <3>2, KeyUpAgain
    <3> QED
      BY <3>1, <3>2
  <2> QED
    BY <1>1, <1>4, <2>2, <2>3, RepeatDrawn DEF HostInv
<1>5. ASSUME Pending' = Pending, UNCHANGED <<lapses, sticky, receiver>>,
             "crossed" \in lapses \/ active' = active
      PROVE  One' /\ Released' /\ KeyUp' /\ Exact'
  BY <1>5 DEF receiver, HostInv, One, Released, KeyUp, Exact
<1>6. ASSUME UNCHANGED <<lapses, sticky, active, state, locked>>,
             gui' \in {gui, "exited", "killed"}
      PROVE  Drawn'
  BY <1>6 DEF HostInv, Drawn, Set
<1>7. CASE ButtonPressNowhere
  <2>1. /\ Pending' = Pending /\ UNCHANGED <<sticky, receiver>>
        /\ "crossed" \in lapses' /\ lapses \subseteq lapses'
    BY <1>7 DEF ButtonPressNowhere, Pending, Crossed
  <2>2. One' /\ Released'
    BY <2>1 DEF receiver, HostInv, One, Released
  <2>3. KeyUp' /\ Exact' /\ Drawn'
    BY <2>1 DEF KeyUp, Exact, Drawn
  <2> QED
    BY <1>1, <2>2, <2>3 DEF HostInv
<1>8. CASE WriteEvent
  BY <1>1, <1>5, <1>6, <1>8, WritingKeepsOrder DEF WriteEvent, shown, HostInv
<1>9. CASE Exit
  <2>1. Pending' = Pending
    BY <1>9 DEF Exit, Pending
  <2> QED
    BY <1>1, <1>5, <1>6, <1>9, <2>1 DEF Exit, shown, HostInv
<1>10. CASE Receive
  <2>1. One'
    BY <1>10 DEF Receive, HostInv, One
  <2> QED
    BY <1>1, <1>6, <1>10, <2>1, HostReads DEF Receive, shown, HostInv
<1>11. CASE UNCHANGED vars
  <2>1. Pending' = Pending
    BY <1>11 DEF vars, Pending
  <2> QED
    BY <1>1, <1>5, <1>6, <1>11, <2>1 DEF vars, shown, HostInv
<1> QED
  BY <1>2, <1>3, <1>4, <1>7, <1>8, <1>9, <1>10, <1>11 DEF Next

LEMMA HostAlways ==
  Spec => []HostInv
<1>1. Init => HostInv
  BY HostInit
<1>2. HostInv /\ [Next]_vars => HostInv'
  BY HostStep
<1> QED
  BY <1>1, <1>2, PTL DEF Spec

LEMMA NothingPending ==
  ASSUME Settled, NEW K, NEW V, NEW base \in BOOLEAN, Ends(Pending, K, V, base)
  PROVE  base
<1>1. Pending = <<>>
  BY DEF Settled, Pending
<1>2. Ends(<<>>, K, V, base)
  BY <1>1
<1>3. <<>> \in Seq(Events)
  OBVIOUS
<1> QED
  BY <1>2, <1>3, EndsEmpty

\* Whatever bthid_state started as, no sticky modifier stays down at the host
\* behind the keyboard's back, unless two were sticky together (hidcd.c 386 to
\* 447): for every layout and every pipe.
THEOREM ModifiersAreReleased ==
  Spec => []NoStuckModifier
<1>1. HostInv => NoStuckModifier
  <2> SUFFICES ASSUME HostInv, Settled, "chord" \notin lapses, NEW m \in Sticky \ sticky
               PROVE  m \notin bitmask
    BY DEF NoStuckModifier
  <2> DEFINE up == m \notin bitmask
  <2>1. Ends(Pending, {m}, {0}, up) /\ up \in BOOLEAN
    BY DEF HostInv, Released
  <2> HIDE DEF up
  <2>2. up
    BY <2>1, NothingPending
  <2> QED
    BY <2>2 DEF up
<1> QED
  BY <1>1, HostAlways, PTL

\* Once the held button is released and everything has arrived, no key is down
\* at the host, unless a second press came before the first was released (kb.c
\* 785 to 839).
THEOREM KeysAreReleased ==
  Spec => []NoStuckKey
<1>1. HostInv => NoStuckKey
  <2> SUFFICES ASSUME HostInv, Settled, active = NoButton, "crossed" \notin lapses
               PROVE  key = NoKey
    BY DEF NoStuckKey
  <2> DEFINE base == key = NoKey
  <2>1. Ends(Pending, Keys, {0}, base) /\ base \in BOOLEAN
    BY DisjointCodes DEF HostInv, KeyUp
  <2> HIDE DEF base
  <2>2. base
    BY <2>1, NothingPending
  <2> QED
    BY <2>2 DEF base
<1> QED
  BY <1>1, HostAlways, PTL

\* The modifiers drawn as set are those down at the host, although the drawing
\* and bthid_state are kept apart (hidcd.c 343 to 447), as long as the user
\* taps the keys on the left one after the other.
THEOREM DrawingIsTrue ==
  Spec => []DisplayAgrees
<1>1. HostInv => DisplayAgrees
  <2> SUFFICES ASSUME HostInv, Settled, active = NoButton, lapses = {}, gui = "running"
               PROVE  Set = UNION {Face(b) : b \in bitmask}
    BY DEF DisplayAgrees, Set
  <2>1. Set = UNION {Face(m) : m \in sticky}
    BY DEF HostInv, Drawn
  <2>2. ASSUME NEW m \in Modifiers \ sticky
        PROVE  m \notin bitmask
    <3> DEFINE up == m \notin bitmask
    <3>1. Ends(Pending, {m}, {0}, up) /\ up \in BOOLEAN
      BY DEF HostInv, Exact
    <3> HIDE DEF up
    <3>2. up
      BY <3>1, NothingPending
    <3> QED
      BY <3>2 DEF up
  <2>3. ASSUME NEW m \in sticky
        PROVE  m \in bitmask
    <3> DEFINE down == m \in bitmask
    <3>1. Ends(Pending, {m}, {1, 2}, down) /\ down \in BOOLEAN
      BY DEF HostInv, Exact
    <3> HIDE DEF down
    <3>2. down
      BY <3>1, NothingPending
    <3> QED
      BY <3>2 DEF down
  <2>4. bitmask \subseteq Modifiers
    BY DEF HostInv, TypeOK
  <2>5. bitmask = sticky
    BY <2>2, <2>3, <2>4
  <2> QED
    BY <2>1, <2>5
<1> QED
  BY <1>1, HostAlways, PTL

=============================================================================
