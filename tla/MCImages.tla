------------------------------ MODULE MCImages ------------------------------
(* Values of the constants of Images for TLC.                               *)
EXTENDS Images, TLC

CONSTANTS s1, f1, g1, c1, c2, c3

Places == {"profile", "logo"}

Purpose == [a \in Assets |-> IF a = g1 THEN "logo" ELSE "profile"]

Symmetry == Permutations(Calls)
=============================================================================
