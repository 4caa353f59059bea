------------------------------ MODULE MCJobsPage ------------------------------
(* Values of the constants of JobsPage for TLC.                               *)
EXTENDS JobsPage, TLC

CONSTANTS f1, f2, m1, m2, j1, j2, t1, t2

Symmetry == Permutations(Filters) \union Permutations(Postings) \union Permutations(Toggles)
===============================================================================
