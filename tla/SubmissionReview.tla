-------------------------- MODULE SubmissionReview --------------------------
(***************************************************************************)
(* What moderation promises a company: a submission waits for review until *)
(* it is withdrawn or one administrator decides on it, the decision is     *)
(* final, and approving it publishes one job (a new posting) or none (an   *)
(* edit of a posting).  JobModeration is shown to implement this until two *)
(* of its calls overlap.                                                   *)
(***************************************************************************)
CONSTANTS Submissions, Jobs

VARIABLES
  review,     (* what became of each submission                            *)
  edit,       (* the submissions that propose an edit                      *)
  published   (* <<s, j>>: job j was published for submission s            *)

vars == <<review, edit, published>>

Init ==
  /\ review \in [Submissions -> {"absent", "waiting"}]
  /\ edit \subseteq {s \in Submissions : review[s] = "waiting"}
  /\ published = {}

Decide(s, from, to) ==
  /\ review[s] = from
  /\ review' = [review EXCEPT ![s] = to]

Submit(s) ==
  /\ Decide(s, "absent", "waiting")
  /\ edit' \in {edit, edit \union {s}}
  /\ UNCHANGED published

\* A withdrawn submission is gone with everything it said.
Withdraw(s) ==
  /\ Decide(s, "waiting", "withdrawn")
  /\ edit' = edit \ {s}
  /\ UNCHANGED published

Reject(s) == Decide(s, "waiting", "rejected") /\ UNCHANGED <<edit, published>>

ApproveEdit(s) ==
  /\ s \in edit
  /\ Decide(s, "waiting", "approved")
  /\ UNCHANGED <<edit, published>>

ApproveNew(s) ==
  /\ s \notin edit
  /\ Decide(s, "waiting", "approved")
  /\ \E j \in Jobs : /\ \A p \in published : p[2] # j
                     /\ published' = published \union {<<s, j>>}
  /\ UNCHANGED edit

Next == \E s \in Submissions :
  Submit(s) \/ Withdraw(s) \/ Reject(s) \/ ApproveEdit(s) \/ ApproveNew(s)

Spec == Init /\ [][Next]_vars
=============================================================================
