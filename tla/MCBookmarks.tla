---------------------------- MODULE MCBookmarks ----------------------------
(* Values of the constants of Bookmarks for TLC.                            *)
EXTENDS Bookmarks, TLC

CONSTANTS j1, j2, c1, c2, c3

Symmetry == Permutations(Jobs) \union Permutations(Calls)
============================================================================
