---------------------------- MODULE MCBthidServer --------------------------
(* Instances of BthidServer for TLC. *)
EXTENDS BthidServer, TLC

CONSTANTS k1

\* A key, a modifier and the quit key, pressed and released.
MCTyped ==
  [code : {k1, "lshift"}, value : {0, 1}] \cup [code : {Quit}, value : {1}]

\* One press, enough to be reported.
MCPress == [code : {k1}, value : {1}]

HostSymmetry == Permutations(Hosts)
=============================================================================
