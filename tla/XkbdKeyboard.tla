---------------------------- MODULE XkbdKeyboard ---------------------------
(***************************************************************************)
(* The on-screen keyboard of xkbd-bthid: the X event loop of xkbd.c, the   *)
(* button handling of kb.c and bthid_process_keypress of hidcd.c, which    *)
(* makes Shift, Ctrl and Alt sticky and writes events to the pipe of the   *)
(* daemon.                                                                 *)
(*                                                                         *)
(* The receiver is a daemon with a host connected: it reports every event  *)
(* it reads.  BthidServer models the daemon itself.                        *)
(***************************************************************************)
EXTENDS HidReport, Sequences

CONSTANTS
  CapsLock,       \* the one key that also changes the drawing
  NoButton,       \* NULL
  RightModifiers, \* the right-hand modifiers of the layout
  PipeCapacity    \* bound: events the pipe holds (PIPE_BUF / sizeof event)

Faces == {"shift", "ctrl", "alt"}

ASSUME KeysAssumption ==
  /\ CapsLock \in Keys \ Faces
  /\ Keys \cap (Modifiers \cup {Quit}) = {}
  /\ NoButton \notin Codes
  /\ RightModifiers \subseteq {"rctrl", "rshift"}
  /\ NoKey \notin Keys

ASSUME PipeAssumption == PipeCapacity \in Nat \ {0}

VARIABLES
  gui,            \* "running", "quitting" (the quit event is being written),
                  \* "exited" (the daemon lives on) or "killed" (it does not)
  active,         \* active_but
  state,          \* kb->state: modifiers and Caps Lock shown as set
  locked,         \* kb->state_locked: modifiers shown as locked
  sticky,         \* kb->bthid_state: sticky modifiers sent as pressed
  todo,           \* events bthid_process_keypress has still to write
  pipe,           \* events written and not read yet
  bitmask,        \* receiver: modifiers down at the host
  key,            \* receiver: key down at the host
  lapses          \* what the user did, or the heap held, that the code is not up to

shown == <<state, locked>>
receiver == <<bitmask, key>>
vars == <<gui, active, shown, sticky, todo, pipe, receiver, lapses>>

Sticky == {"lalt", "lctrl", "lshift"}
Buttons == Keys \cup {"lalt", "lctrl", "lshift", Quit} \cup RightModifiers
\* garbage: bthid_state started as such; chord: two modifiers sticky together;
\* crossed: a press before the release of the last; untidy: a modifier held
\* until it repeats, a right-hand modifier, or Caps Lock while one is set.
Lapses == {"garbage", "chord", "crossed", "untidy"}

\* button->modifier, set from the keysym of the button by button_set_txt_ks.
Face(b) ==
  IF b \in {"lshift", "rshift"} THEN {"shift"}
  ELSE IF b \in {"lctrl", "rctrl"} THEN {"ctrl"}
  ELSE IF b = "lalt" THEN {"alt"}
  ELSE {}

TypeOK ==
  /\ gui \in {"running", "quitting", "exited", "killed"}
  /\ active \in Buttons \cup {NoButton}
  /\ state \subseteq Faces \cup {CapsLock}
  /\ locked \subseteq Faces
  /\ sticky \subseteq Sticky
  /\ todo \in Seq(Events)
  /\ pipe \in Seq(Events)
  /\ Len(pipe) <= PipeCapacity
  /\ bitmask \subseteq Modifiers
  /\ key \in Keys \cup {NoKey}
  /\ lapses \subseteq Lapses

AtLeastTwo(S) == \E x, y \in S : x # y

\* kb_new never sets bthid_state, so it starts with whatever malloc returned.
Init ==
  /\ gui = "running"
  /\ active = NoButton
  /\ state = {}
  /\ locked = {}
  /\ sticky \in SUBSET Sticky
  /\ todo = <<>>
  /\ pipe = <<>>
  /\ bitmask = {}
  /\ key = NoKey
  /\ lapses = (IF sticky = {} THEN {} ELSE {"garbage"})
                \cup (IF AtLeastTwo(sticky) THEN {"chord"} ELSE {})

-----------------------------------------------------------------------------
(* bthid_process_keypress: the keyboard's own view.                         *)

Toggle(S, T) == (S \ T) \cup (T \ S)

IsLocked(b) == Face(b) \cap locked # {}
IsSet(b) == Face(b) \cap state # {}

NewLocked(b) ==
  IF IsLocked(b) \/ IsSet(b) THEN Toggle(locked, Face(b)) ELSE locked

\* Mutant: a modifier that was locked is only unlocked.
NewState_KeepSet(b) ==
  IF Face(b) # {} THEN IF IsSet(b) THEN state ELSE Toggle(state, Face(b))
  ELSE IF b = CapsLock THEN Toggle(state, {CapsLock})
  ELSE IF state \cap Faces # {} THEN (state \cap {CapsLock}) \cup locked
  ELSE state

\* Mutant: another key resets what is locked, too.
NewState_DropLocked(b) ==
  IF Face(b) # {}
    THEN IF IsSet(b) /\ ~IsLocked(b) THEN state ELSE Toggle(state, Face(b))
  ELSE IF b = CapsLock THEN Toggle(state, {CapsLock})
  ELSE state \cap {CapsLock}

NewState(b) ==
  IF Face(b) # {}
    THEN IF IsSet(b) /\ ~IsLocked(b) THEN state ELSE Toggle(state, Face(b))
  ELSE IF b = CapsLock THEN Toggle(state, {CapsLock})
  ELSE IF state \cap Faces # {} THEN (state \cap {CapsLock}) \cup locked
  ELSE state

-----------------------------------------------------------------------------
(* bthid_process_keypress: the events for the daemon.                       *)

Event(c, v) == [code |-> c, value |-> v]

\* The tests for ALT_L, CTRL_L and SHIFT_L come in this order, and each clears
\* the whole of bthid_state (& !KB_STATE_ALT_L is & 0): one modifier at most is
\* released.
FirstSticky ==
  IF "lalt" \in sticky THEN "lalt"
  ELSE IF "lctrl" \in sticky THEN "lctrl"
  ELSE "lshift"

ReleaseSticky == IF sticky = {} THEN <<>> ELSE <<Event(FirstSticky, 0)>>

\* Mutant: a key is only sent when it is pressed.
Sends_NoKeyUp(b, updown) ==
  IF b \in Sticky
    THEN IF updown = 0 THEN <<>>
         ELSE <<Event(b, IF b \in sticky THEN 0 ELSE 1)>>
  ELSE IF b = Quit \/ updown = 0 THEN ReleaseSticky
  ELSE <<Event(b, updown)>> \o ReleaseSticky

\* The quit key leaves the program right after its event.
Sends(b, updown) ==
  IF b \in Sticky
    THEN IF updown = 0 THEN <<>>
         ELSE <<Event(b, IF b \in sticky THEN 0 ELSE 1)>>
  ELSE IF b = Quit THEN <<Event(b, updown)>>
  ELSE <<Event(b, updown)>> \o ReleaseSticky

\* Mutant: the press of one modifier forgets the others.
NewSticky_One(b, updown) ==
  IF b \in Sticky
    THEN IF updown = 0 THEN sticky
         ELSE IF b \in sticky THEN {}
         ELSE {b}
  ELSE IF b = Quit THEN sticky
  ELSE {}

NewSticky(b, updown) ==
  IF b \in Sticky
    THEN IF updown = 0 THEN sticky
         ELSE IF b \in sticky THEN {}
         ELSE sticky \cup {b}
  ELSE IF b = Quit THEN sticky
  ELSE {}

\* A write to the pipe blocks while it is full, and the event loop with it.
Process(b, updown) ==
  /\ gui = "running"
  /\ todo = <<>>
  /\ todo' = Sends(b, updown)
  /\ sticky' = NewSticky(b, updown)
  /\ locked' = NewLocked(b)
  /\ gui' = IF b = Quit THEN "quitting" ELSE gui

Lapse(b, kinds) ==
  lapses' = lapses \cup kinds
              \cup (IF AtLeastTwo(sticky') THEN {"chord"} ELSE {})
              \cup (IF \/ b \in RightModifiers
                       \/ b = CapsLock /\ state \cap Faces # {}
                    THEN {"untidy"} ELSE {})

-----------------------------------------------------------------------------
(* The event loop. *)

Crossed == IF active = NoButton THEN {} ELSE {"crossed"}

\* A press on a button.  The new state is computed and thrown away.
ButtonPress(b) ==
  /\ Process(b, 1)
  /\ active' = b
  /\ Lapse(b, Crossed)
  /\ UNCHANGED <<state, pipe, receiver>>

\* A press on no button: the one that is held is forgotten.
ButtonPressNowhere ==
  /\ gui = "running"
  /\ todo = <<>>
  /\ active # NoButton
  /\ active' = NoButton
  /\ lapses' = lapses \cup Crossed
  /\ UNCHANGED <<gui, shown, sticky, todo, pipe, receiver>>

ButtonRelease ==
  /\ active # NoButton
  /\ Process(active, 0)
  /\ state' = NewState(active)
  /\ active' = NoButton
  /\ Lapse(active, {})
  /\ UNCHANGED <<pipe, receiver>>

\* kb_do_repeat, at any time while a button is held.
Repeat ==
  /\ active # NoButton
  /\ Process(active, 2)
  /\ Lapse(active, IF Face(active) # {} THEN {"untidy"} ELSE {})
  /\ UNCHANGED <<active, state, pipe, receiver>>

\* bthid_send.
WriteEvent ==
  /\ todo # <<>>
  /\ Len(pipe) < PipeCapacity
  /\ pipe' = Append(pipe, Head(todo))
  /\ todo' = Tail(todo)
  /\ UNCHANGED <<gui, active, shown, sticky, receiver, lapses>>

\* The quit key kills the daemon; WM_DELETE_WINDOW ends the event loop and
\* leaves the daemon alone.
Exit ==
  /\ gui \in {"running", "quitting"}
  /\ todo = <<>>
  /\ gui' = IF gui = "quitting" THEN "killed" ELSE "exited"
  /\ UNCHANGED <<active, shown, sticky, todo, pipe, receiver, lapses>>

\* The daemon reads an event and reports it to the host.
Receive ==
  /\ gui # "killed"
  /\ pipe # <<>>
  /\ pipe' = Tail(pipe)
  /\ bitmask' = NewBitmask(bitmask, Head(pipe))
  /\ key' = IF IsReported(bitmask, Head(pipe)) THEN ReportKey(Head(pipe)) ELSE key
  /\ UNCHANGED <<gui, active, shown, sticky, todo, lapses>>

Next ==
  \/ \E b \in Buttons : ButtonPress(b)
  \/ ButtonPressNowhere \/ ButtonRelease \/ Repeat
  \/ WriteEvent \/ Exit \/ Receive

Spec == Init /\ [][Next]_vars

-----------------------------------------------------------------------------
(* Properties. *)

\* Everything the program has sent has reached the host.
Settled == todo = <<>> /\ pipe = <<>>

\* Whatever bthid_state started as, no sticky modifier stays down at the host
\* behind the keyboard's back, unless two were sticky together.
NoStuckModifier ==
  Settled /\ "chord" \notin lapses => bitmask \cap Sticky \subseteq sticky

\* Once the held button is released, no key is down at the host, unless a
\* second press came before the release of the first.
NoStuckKey ==
  Settled /\ active = NoButton /\ "crossed" \notin lapses => key = NoKey

\* The modifiers drawn as set are those down at the host, as long as the user
\* taps the keys on the left one after the other (see Lapses).
DisplayAgrees ==
  Settled /\ active = NoButton /\ lapses = {} /\ gui = "running" =>
    state \ {CapsLock} = UNION {Face(b) : b \in bitmask}

\* A modifier drawn as locked is set, whatever is pressed, held or crossed.
LockedIsSet == locked \subseteq state

\* Claimed at hidcd.c:425, "release shift/ctrl/alt when pressing other key":
\* with another key pressed, no sticky modifier is down at the host.
OtherKeyReleases ==
  Settled /\ active \in Keys /\ lapses \subseteq {"chord"} =>
    bitmask \cap Sticky = {}

=============================================================================
