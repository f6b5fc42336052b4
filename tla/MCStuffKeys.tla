---------------------------- MODULE MCStuffKeys ----------------------------
(* Three keys: one before, one at and one after the question mark.          *)
EXTENDS StuffKeys
MCKeys == <<"who", "question", "enter">>
=============================================================================
