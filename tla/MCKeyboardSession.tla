-------------------------- MODULE MCKeyboardSession -------------------------
(***************************************************************************)
(* Runs of the wrapper are all alike: for the invariants it does not       *)
(* matter which is which.                                                  *)
(***************************************************************************)
EXTENDS KeyboardSession

Symmetry == Permutations(Runs)
=============================================================================
