----------------------------- MODULE XkbdLayout -----------------------------
(***************************************************************************)
(* The keyboard in its window: the geometry kb_size of kb.c gives rows and *)
(* keys, the key a click finds, the drawing of the keys by button.c, the   *)
(* layouts and the repeat timer, driven by the event loop of xkbd.c through*)
(* libXkbd.c.  XkbdConfig supplies every keyboard a file can describe.     *)
(*                                                                         *)
(* What a key press sends is the business of XkbdKeyboard; here it counts  *)
(* only for the modifiers it sets, locks and clears.                       *)
(***************************************************************************)
EXTENDS XkbdConfig

CONSTANTS
  RoundedDown,    \* quotients (float)a/b * c falls short of: <<a, b, c>>
  MaxPolls,       \* bound: rounds of the event loop a key is held
  MaxOvertaken    \* bound: keys whose release is lost before all is drawn again

VARIABLES
  vbox,           \* the current layout
  cells,          \* the geometry of its rows and keys
  drawn,          \* what the backing pixmap shows of each key
  active,         \* active_but
  state,          \* kb->state
  locked,         \* kb->state_locked
  timer, delay,   \* the static variables of kb_do_repeat
  press,          \* the press in progress: polls, and whether a poll came before it
  overtaken       \* keys left as they were when their release was lost

gui == <<vbox, cells, drawn, active, state, locked, timer, delay, press, overtaken>>
vars == <<window, status, config, gui>>

Kb == layouts[vbox]
Places(l) == UNION {{r} \X DOMAIN layouts[l].rows[r].keys : r \in DOMAIN layouts[l].rows}
At(p) == Kb.rows[p[1]].keys[p[2]]
Faces == {"shift", "ctrl", "alt", "meta", "mod"}

LayoutInit ==
  /\ Init
  /\ vbox = 1
  /\ cells = <<>>
  /\ drawn = <<>>
  /\ active = None
  /\ state = {}
  /\ locked = {}
  /\ timer = 0
  /\ delay = FALSE
  /\ press = [polls |-> 0, alone |-> TRUE, fired |-> FALSE]
  /\ overtaken = {}

-----------------------------------------------------------------------------
(* kb_size: the geometry of a layout for its actual size.                   *)

\* (int)((float)a / b * c)
Scale(a, b, c) ==
  IF <<a, b, c>> \in RoundedDown /\ (a * c) % b = 0 THEN (a * c) \div b - 1
  ELSE (a * c) \div b

\* An empty row has no last key, one without width divides 0 by 0.
Sizable(l) == \A row \in RowsOf(l) : row.keys # <<>> /\ row.minw > 0

Before(s, i) == Total(s, i - 1)

\* The last key of a row gets what the others leave of the window.
RowCells(l, r) ==
  LET row == l.rows[r]
      h == Scale(row.minh, l.minh, l.h)
      share == [k \in DOMAIN row.keys |-> Scale(row.keys[k].c_width, row.minw, l.w)]
      n == Len(row.keys)
      rest_of_row == l.w - Before(share, n + 1) - 1
  IN [h |-> h,
      keys |-> [k \in 1..n |->
                 [x |-> Before(share, k),
                  w |-> IF k = n THEN share[k] + rest_of_row ELSE share[k],
                  h |-> IF r = Len(l.rows) THEN h - 1 ELSE h]]]

Geometry(l) ==
  LET rows == [r \in DOMAIN l.rows |-> RowCells(l, r)]
      heights == [r \in DOMAIN rows |-> rows[r].h]
  IN [r \in DOMAIN rows |->
       [y |-> Before(heights, r), h |-> rows[r].h, keys |-> rows[r].keys]]

-----------------------------------------------------------------------------
(* button_render: the colours and the text of a key.                        *)

HasText(b, t) == b.txt[t].chars > 0
KeysymOf == [default |-> "default_ks", shift |-> "shift_ks", mod |-> "mod_ks"]

\* The text for a state of the keyboard.
Label(b, st) ==
  LET wanted ==
        IF st \cap {"shift", "caps"} # {} /\ HasText(b, "shift")
          THEN IF {"shift", "caps"} \subseteq st THEN IF b.obey THEN "default" ELSE "shift"
               ELSE IF "caps" \in st /\ ~b.obey THEN "default"
               ELSE "shift"
        ELSE IF "mod" \in st /\ HasText(b, "mod") THEN "mod"
        ELSE "default"
  IN IF HasText(b, wanted) THEN wanted ELSE "none"

\* A key without keysyms and texts is a spacer and is never drawn; an image
\* has no text.
Face(b, mode, st) ==
  IF \A t \in Texts : ~HasText(b, t) /\ b.ks[KeysymOf[t]] = NoSymbol THEN <<"spacer">>
  ELSE IF b.pixmap THEN <<mode, "image">>
  ELSE <<mode, Label(b, st)>>

Mode(b, st, lk) ==
  IF b.modifier \in lk THEN "locked" ELSE IF b.modifier \in st THEN "pressed" ELSE "released"

kb_render(l, st, lk) ==
  [p \in Places(l) |-> LET b == layouts[l].rows[p[1]].keys[p[2]] IN Face(b, Mode(b, st, lk), st)]

Blank == [p \in Places(vbox) |-> <<"blank">>]

-----------------------------------------------------------------------------
(* bthid_process_keypress: state_locked, and the state it returns.          *)

IsModifier(b) == b.modifier \in Faces

NewLocked(b) ==
  IF ~IsModifier(b) THEN locked
  ELSE IF b.modifier \in locked THEN locked \ {b.modifier}
  ELSE IF b.modifier \in state THEN locked \cup {b.modifier}
  ELSE locked

Toggled(m) == IF m \in state THEN state \ {m} ELSE state \cup {m}

NewState(b) ==
  IF IsModifier(b)
    THEN IF b.modifier \in state \ locked THEN state ELSE Toggled(b.modifier)
  ELSE IF b.modifier = "caps" THEN Toggled("caps")
  ELSE IF state \cap Faces # {} THEN (state \cap {"caps"}) \cup locked
  ELSE state

-----------------------------------------------------------------------------
(* Where a click goes.                                                      *)

Inside(x, y, r, k) ==
  LET row == cells[r]
      key == row.keys[k]
  IN /\ y > row.y /\ y < row.y + row.h
     /\ x > key.x /\ x < key.x + key.w
     /\ y < row.y + key.h

\* The key a point is strictly inside of; rows and keys are tried in order.
kb_find_button(x, y) ==
  LET hits == {p \in Places(vbox) : Inside(x, y, p[1], p[2])} IN
    IF hits = {} \/ x > Kb.w \/ y > Kb.h THEN None
    ELSE CHOOSE p \in hits : \A q \in hits : p[1] < q[1] \/ (p[1] = q[1] /\ p[2] <= q[2])

-----------------------------------------------------------------------------
(* libXkbd.c and the event loop of xkbd.c.                                  *)

Stop(how) ==
  /\ status' = how
  /\ UNCHANGED <<window, layouts, gui>>

\* xkbd_realize: kb_size without kb_render.  A pixmap of no size is an X
\* error, which ends the program.
Realize ==
  LET l == [layouts[1] EXCEPT !.w = IF @ = 0 THEN layouts[1].minw ELSE @,
                              !.h = IF @ = 0 THEN layouts[1].minh ELSE @]
  IN /\ status = "sized"
     /\ UNCHANGED <<parser, options>>
     /\ IF l.w = 0 \/ l.h = 0 THEN Stop("exited")
        ELSE IF ~Sizable(1) THEN Stop("undefined")
        ELSE /\ status' = "running"
             /\ layouts' = [layouts EXCEPT ![1] = l]
             /\ window' = <<l.w, l.h>>
             /\ cells' = Geometry(l)
             /\ drawn' = Blank
             /\ overtaken' = Places(1)
             /\ UNCHANGED <<vbox, active, state, locked, timer, delay, press>>

\* button_render and button_paint of one key.
Redrawn(p, mode) == [drawn EXCEPT ![p] = Face(At(p), mode, state)]

Repainted(l, st, lk) ==
  /\ drawn' = kb_render(l, st, lk)
  /\ overtaken' = {}

\* ConfigureNotify: xkbd_resize, of the current layout.
Configure(size) ==
  /\ status = "running"
  /\ size # <<Kb.w, Kb.h>> /\ 0 \notin {size[1], size[2]}
  /\ window' = size
  /\ layouts' = [layouts EXCEPT ![vbox].w = size[1], ![vbox].h = size[2]]
  /\ cells' = Geometry(layouts'[vbox])
  /\ Repainted(vbox, state, locked)
  /\ UNCHANGED <<status, parser, options, vbox, active, state, locked, timer, delay, press>>

\* xkbd_repaint sizes the keys again, too.
Expose ==
  /\ status = "running"
  /\ cells' = Geometry(Kb)
  /\ Repainted(vbox, state, locked)
  /\ UNCHANGED <<window, status, config, vbox, active, state, locked, timer, delay, press>>

\* At whatever point of the window.
Clicked == {kb_find_button(x, y) : x \in 0..window[1], y \in 0..window[2]}

ButtonPress(p) ==
  /\ active = None \/ Cardinality(overtaken) < MaxOvertaken
  /\ active' = p
  /\ drawn' = IF p = None THEN drawn ELSE Redrawn(p, "pressed")
  /\ locked' = IF p = None THEN locked ELSE NewLocked(At(p))
  /\ overtaken' = IF active = None THEN overtaken ELSE overtaken \cup {active}
  /\ press' = [polls |-> 0, alone |-> press.alone /\ active = None, fired |-> FALSE]
  /\ UNCHANGED <<window, status, config, vbox, cells, state, timer, delay>>

\* kb_switch_layout: the new layout takes over the four sizes of the old one.
\* Its number comes from the file and is not compared with their count.
kb_switch_layout(n, st, lk) ==
  IF n > Len(layouts) \/ (n \in DOMAIN layouts /\ ~Sizable(n))
    THEN /\ status' = "undefined"
         /\ UNCHANGED <<layouts, vbox, cells, drawn, overtaken>>
    ELSE /\ vbox' = n
         /\ layouts' = [layouts EXCEPT ![n] =
              [@ EXCEPT !.w = Kb.w, !.h = Kb.h, !.minw = Kb.minw, !.minh = Kb.minh]]
         /\ cells' = Geometry(layouts'[n])
         /\ Repainted(n, st, lk)
         /\ UNCHANGED status

\* Mutant: all keys are drawn again only when the state has changed.
Repaints_NewState(b) == NewState(b) # state

Repaints(b) == NewState(b) # state \/ b.modifier \in NewState(b)

ButtonRelease ==
  LET b == At(active) IN
     /\ status = "running"
     /\ active # None
     /\ active' = None
     /\ state' = NewState(b)
     /\ locked' = NewLocked(b)
     /\ press' = [press EXCEPT !.alone = FALSE, !.fired = FALSE]
     /\ IF b.layout_switch > -1 THEN kb_switch_layout(b.layout_switch + 1, state', locked')
        ELSE /\ IF Repaints(b) THEN Repainted(vbox, state', locked')
                ELSE /\ drawn' = Redrawn(active, "released")
                     /\ overtaken' = overtaken \ {active}
             /\ UNCHANGED <<status, layouts, vbox, cells>>
     /\ UNCHANGED <<window, parser, options, timer, delay>>

Fires ==
  timer + 1 = IF delay THEN options.repeat_time ELSE options.repeat_delay

\* Mutant: the timer goes on where the last key left it.
Poll_NoReset ==
  /\ status = "running"
  /\ active = None
  /\ press' = [press EXCEPT !.alone = TRUE]
  /\ UNCHANGED <<window, status, config, vbox, cells, drawn, active, state, locked,
                 timer, delay, overtaken>>

\* kb_do_repeat at the end of a round of the event loop, with no key held.
Poll ==
  /\ status = "running"
  /\ active = None
  /\ timer' = 0
  /\ delay' = FALSE
  /\ press' = [press EXCEPT !.alone = TRUE]
  /\ UNCHANGED <<window, status, config, vbox, cells, drawn, active, state, locked, overtaken>>

\* A held key is processed again when the timer fires: a modifier is locked or
\* unlocked, and not drawn.
PollHeld ==
  /\ status = "running"
  /\ active # None
  /\ press.polls < MaxPolls
  /\ timer' = IF Fires THEN 0 ELSE timer + 1
  /\ delay' = (delay \/ Fires)
  /\ locked' = IF Fires THEN NewLocked(At(active)) ELSE locked
  /\ press' = [press EXCEPT !.polls = @ + 1, !.fired = Fires]
  /\ UNCHANGED <<window, status, config, vbox, cells, drawn, active, state, overtaken>>

Next ==
  \/ ReadLine /\ UNCHANGED gui
  \/ Realize \/ Expose \/ ButtonRelease \/ Poll \/ PollHeld
  \/ \E size \in WindowSizes : Configure(size)
  \/ status = "running" /\ \E p \in Clicked : ButtonPress(p)

Spec == LayoutInit /\ [][Next]_vars

-----------------------------------------------------------------------------
(* Properties. *)

Points == (0..Kb.w) \X (0..Kb.h)

\* The rows and keys of the current layout lie in the window as it is now, in
\* whatever order it was sized and layouts were switched, and leave no gap: a
\* point that belongs to no key is on the edge of a row or of a key, or in the
\* strip below the last row that rounding leaves.
KeysTileTheWindow ==
  status = "running" =>
    /\ <<Kb.w, Kb.h>> = window
    /\ \A r \in DOMAIN cells : cells[r].y + cells[r].h <= Kb.h
    /\ \A p \in Points : kb_find_button(p[1], p[2]) = None =>
         \/ p[1] \in {0, Kb.w - 1, Kb.w}
         \/ \A r \in DOMAIN cells : p[2] <= cells[r].y \/ p[2] >= cells[r].y + cells[r].keys[1].h
         \/ \E q \in Places(vbox) : p[1] = cells[q[1]].keys[q[2]].x

\* Once the window was exposed, every key is drawn for the state of the
\* keyboard, however keys were pressed, released or left to repeat: all but
\* the one that is held, those whose release was lost to a later press, and
\* the modifiers these share.
DrawnAgrees ==
  LET unsure == overtaken \cup ({active} \ {None})
      excused(p) == p \in unsure \/ \E q \in unsure : IsModifier(At(p)) /\ At(q).modifier = At(p).modifier
  IN status = "running" =>
       \A p \in Places(vbox) : excused(p) \/ drawn[p] = Face(At(p), Mode(At(p), state, locked), state)

\* No key repeats before it was held for repeat_delay rounds of the event
\* loop, if a round without a key came before it.
RepeatsAfterDelay ==
  status = "running" /\ press.fired /\ press.alone => press.polls >= options.repeat_delay
=============================================================================
