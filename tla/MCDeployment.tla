-------------------------- MODULE MCDeployment --------------------------
(* Values of the constants of Deployment for TLC.                        *)
EXTENDS Deployment, TLC

CONSTANTS d1, d2, d3, p0, p1, p2, p3

Symmetry == Permutations(Deploys) \union Permutations(Procs \ {FirstProc})
=========================================================================
