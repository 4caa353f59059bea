---------------------------- MODULE MCCommunity ----------------------------
(* Values of the constants of Community for TLC.                           *)
EXTENDS Community, TLC

CONSTANTS u1, u2, m1, p1, p2, a1, a2, a3, c1, c2, c3, c4

AllEndpoints == {"createPost", "createAnswer", "likePost", "likeAnswer",
                 "getPost", "resolvePost"}

Symmetry == UNION {Permutations(S) : S \in {Users, Calls, SeedAnswers,
                                            Answers \ SeedAnswers}}
=============================================================================
