----------------------------- MODULE MCHidTester ---------------------------
(* Instances of HidTester for TLC. *)
EXTENDS HidTester, TLC

Symmetry == Permutations(Threads) \cup Permutations(Sockets)
=============================================================================
