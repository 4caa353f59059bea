----------------------------- MODULE Membership -----------------------------
(***************************************************************************)
(* What CPA verification promises a job seeker: they apply with one        *)
(* request, and the decision on that request alone makes them a member or  *)
(* not.  A member stays one until they apply again.                        *)
(***************************************************************************)
CONSTANTS Users, SeedMembers, Requests

VARIABLES
  standing,   (* outsider, applicant or member                             *)
  open        (* the requests of each user that wait for a decision        *)

vars == <<standing, open>>

Init ==
  /\ standing = [u \in Users |-> IF u \in SeedMembers THEN "member" ELSE "outsider"]
  /\ open = [u \in Users |-> {}]

Apply(u) ==
  /\ standing[u] # "applicant"
  /\ standing' = [standing EXCEPT ![u] = "applicant"]
  /\ \E q \in Requests : open' = [open EXCEPT ![u] = {q}]

Decide(u) ==
  /\ standing[u] = "applicant"
  /\ \E verdict \in {"member", "outsider"} :
       standing' = [standing EXCEPT ![u] = verdict]
  /\ open' = [open EXCEPT ![u] = {}]

Next == \E u \in Users : Apply(u) \/ Decide(u)

Spec == Init /\ [][Next]_vars
=============================================================================
