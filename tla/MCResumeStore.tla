-------------------------- MODULE MCResumeStore --------------------------
(* Values of the constants of ResumeStore for TLC.                        *)
EXTENDS ResumeStore, TLC

CONSTANTS d1, d2, d3, c1, c2, c3, c4, c5

AllEndpoints == {"createResume", "setPrimaryResume", "deleteResume"}

Symmetry == Permutations(Calls)
==========================================================================
