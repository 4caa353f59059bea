--------------------------- MODULE MCFitAnalysis ---------------------------
(* Values of the constants of FitAnalysis for TLC.                          *)
EXTENDS FitAnalysis, TLC

CONSTANTS d1, d2, c1, c2, j1, f1, f2, f3

ResumeEndpoints == {"createResume", "deleteResume"}

Symmetry == Permutations(Calls) \union Permutations(FitCalls)
============================================================================
