------------------------------ MODULE MCBacklog ------------------------------
(* Values of the constants of BacklogAnalysis for TLC.                        *)
EXTENDS BacklogAnalysis

CONSTANTS r1, r2, c1, c2, s1, s2

\* All issues are of the first repository; a job on the second has none to copy.
OfFirst == [i \in Issues |-> r1]

\* Any two issues may be alike, or none of them.
AnyAlike == SUBSET {p \in SUBSET Issues : Cardinality(p) = 2}
NoneAlike == {{}}
=============================================================================
