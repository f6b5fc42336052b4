----------------------------- MODULE HidReport -----------------------------
(***************************************************************************)
(* The events the keyboard program writes to its daemon, and what the      *)
(* daemon makes of each: bthid() of hidcd.c, lines 232 to 292.             *)
(***************************************************************************)
EXTENDS Naturals

CONSTANTS
  Keys,    \* every scan code but the modifiers
  NoKey    \* 0 in a report: no key

\* Bits 0 to 2 and 4 to 6 of the modifier byte; the scan codes the daemon
\* treats as modifiers.
Modifiers == {"lctrl", "lshift", "lalt", "rctrl", "rshift", "ralt"}

\* An input_event.  The value is 0 for a release, 1 for a press, 2 for a
\* repeat; the code 0xffff has a type of its own.
Quit == "quit"
Codes == Modifiers \cup Keys \cup {Quit}
IsKey(code) == code \in Keys
Events == [code : Codes, value : 0..2]

\* bitmask[], as the set of the modifiers whose bit is 1.
NewBitmask(bitmask, e) ==
  IF e.code \notin Modifiers THEN bitmask
  ELSE IF e.value # 0 THEN bitmask \cup {e.code}
  ELSE bitmask \ {e.code}

\* pkg[4]: every report carries one key or none.
ReportKey(e) == IF IsKey(e.code) /\ e.value > 0 THEN e.code ELSE NoKey

\* Mutant: only keys are reported.
IsReported_KeysOnly(bitmask, e) == IsKey(e.code)

\* A key event changes `press', so it is always reported; a modifier event is
\* reported if it changes the modifier byte.
IsReported(bitmask, e) ==
  IsKey(e.code) \/ NewBitmask(bitmask, e) # bitmask
=============================================================================
