------------------------ MODULE MCCpaVerification ------------------------
(* Values of the constants of CpaVerification for TLC.                    *)
EXTENDS CpaVerification, TLC

CONSTANTS u1, u2, q1, q2, q3, c1, c2, c3, c4, c5, c6

Symmetry == Permutations(Requests) \union Permutations(Calls)
=============================================================================
