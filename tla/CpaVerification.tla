-------------------------- MODULE CpaVerification --------------------------
(***************************************************************************)
(* CPA verification: a job seeker asks to be verified (MypageService), an  *)
(* administrator approves or rejects the request (AdminService), and the   *)
(* job seeker's profile decides whether the trainee board is open to them. *)
(* As in JobModeration an action is one awaited statement, the reads of a  *)
(* transaction lock nothing, and its writes are one step with the commit.  *)
(*                                                                         *)
(* A request keeps the applicant's birth date and registration number      *)
(* until it is reviewed; the two columns are one flag here, pii.           *)
(***************************************************************************)
EXTENDS Naturals, FiniteSets

CONSTANTS
  Users,
  SeedMembers,   (* users the seed verifies without a request              *)
  Requests,      (* ids of personalVerificationRequest rows                *)
  Stages,        (* PersonalCareerStage                                    *)
  Unplaced,      (* CPA_UNPLACED, the stage without employment             *)
  Calls,         (* HTTP requests; each runs one endpoint once             *)
  MaxInFlight,   (* calls served at the same time                          *)
  None

ASSUME VerificationAssumption ==
  /\ SeedMembers \subseteq Users
  /\ Unplaced \in Stages
  /\ None \notin Users \union Requests \union Stages

VARIABLES
  profile,   (* PersonalProfile rows by user                               *)
  request,   (* PersonalVerificationRequest rows                           *)
  call,      (* where each call stands                                     *)
  overlap    (* history: two calls have been in flight at once             *)

vars == <<profile, request, call, overlap>>

-----------------------------------------------------------------------------
\* cpa "NONE" is a user without a profile row; since says whether verifiedAt is
\* set.
ProfileRow == [cpa        : {"NONE", "UNVERIFIED", "PENDING", "CPA_VERIFIED"},
               stage      : Stages \union {None},
               employment : {"UNKNOWN", "NONE", "HAS_EMPLOYMENT"},
               since      : BOOLEAN]

NoProfile == [cpa |-> "NONE", stage |-> None, employment |-> "UNKNOWN",
              since |-> FALSE]

\* A row with status "NONE" is an id not used yet.
RequestRow == [status : {"NONE", "PENDING", "APPROVED", "REJECTED"},
               user   : Users \union {None},
               stage  : Stages \union {None},
               pii    : BOOLEAN]

NoRequest == [status |-> "NONE", user |-> None, stage |-> None, pii |-> FALSE]

\* create: about to run the transaction of createPersonalVerificationRequest;
\* approve, reject: the request was found pending, the writes are next.
Call == [pc    : {"idle", "create", "approve", "reject", "done", "lost"},
         user  : Users \union {None},
         stage : Stages \union {None},
         req   : Requests \union {None}]

Idle == [pc |-> "idle", user |-> None, stage |-> None, req |-> None]
Done == [Idle EXCEPT !.pc = "done"]
Lost == [Idle EXCEPT !.pc = "lost"]

InFlight == {c \in Calls : call[c].pc \in {"create", "approve", "reject"}}

\* employmentHistoryForCareerStage.
Employment(stage) == IF stage = Unplaced THEN "NONE" ELSE "HAS_EMPLOYMENT"

\* The profile an approval writes.
VerifiedProfile(stage) ==
  [cpa |-> "CPA_VERIFIED", stage |-> stage, employment |-> Employment(stage),
   since |-> TRUE]

Init ==
  /\ profile \in {f \in [Users -> {NoProfile} \union {VerifiedProfile(g) : g \in Stages}] :
                    \A u \in Users : f[u] = NoProfile <=> u \notin SeedMembers}
  /\ request = [q \in Requests |-> NoRequest]
  /\ call = [c \in Calls |-> Idle]
  /\ overlap = FALSE

-----------------------------------------------------------------------------
(* What the handlers write and check.  The operators named Mutant... are    *)
(* plausible mistakes in the one that follows; nothing refers to them here. *)

Starts(c) == call[c].pc = "idle" /\ Cardinality(InFlight) < MaxInFlight

Becomes(c, local) == call' = [call EXCEPT ![c] = local]

\* The user has no request waiting for review.
NoPending(u) ==
  \A q \in Requests : ~(request[q].user = u /\ request[q].status = "PENDING")

\* The request is there and assertVerificationPending lets it pass.
AssertPending(q) == request[q].status = "PENDING"

\* The profile after a request is created; an existing row keeps the stage and
\* the date of an earlier verification.
MutantKeepsAccess(old) == [old EXCEPT !.cpa = IF @ = "NONE" THEN "PENDING" ELSE @]
PendingProfile(old) == [old EXCEPT !.cpa = "PENDING"]

\* The profile after a rejection, whatever it was before.
MutantKeepsMember(old) ==
  IF old.cpa = "CPA_VERIFIED" THEN old ELSE [NoProfile EXCEPT !.cpa = "UNVERIFIED"]
MutantKeepsPending(old) == [NoProfile EXCEPT !.cpa = old.cpa]
RejectedProfile(old) == [NoProfile EXCEPT !.cpa = "UNVERIFIED"]

\* A reviewed request loses the personal data.
Reviewed(row, status) == [row EXCEPT !.status = status, !.pii = FALSE]

-----------------------------------------------------------------------------
\* createPersonalVerificationRequest looks for a pending request of the user,
\* outside the transaction that follows.
CreateCheck(c) ==
  /\ Starts(c)
  /\ \E u \in Users, g \in Stages :
       /\ NoPending(u)
       /\ Becomes(c, [Idle EXCEPT !.pc = "create", !.user = u, !.stage = g])
  /\ UNCHANGED <<profile, request>>

\* The transaction: the profile is upserted to PENDING, the request inserted.
CreateCommit(c) ==
  /\ call[c].pc = "create"
  /\ LET u == call[c].user
     IN  /\ profile' = [profile EXCEPT ![u] = PendingProfile(@)]
         /\ \E q \in Requests :
              /\ request[q].status = "NONE"
              /\ request' = [request EXCEPT ![q] =
                   [status |-> "PENDING", user |-> u, stage |-> call[c].stage,
                    pii |-> TRUE]]
  /\ Becomes(c, Done)

\* approvePersonalVerificationRequest: the transaction reads the request ...
ApproveFind(c) ==
  /\ Starts(c)
  /\ \E q \in Requests :
       /\ AssertPending(q)
       /\ Becomes(c, [Idle EXCEPT !.pc = "approve", !.req = q])
  /\ UNCHANGED <<profile, request>>

\* ... and writes the profile and the request.
ApproveCommit(c) ==
  /\ call[c].pc = "approve"
  /\ LET q == call[c].req
     IN  /\ profile' = [profile EXCEPT ![request[q].user] =
                          VerifiedProfile(request[q].stage)]
         /\ request' = [request EXCEPT ![q] = Reviewed(@, "APPROVED")]
  /\ Becomes(c, Done)

\* rejectPersonalVerificationRequest, in the same two steps.
RejectFind(c) ==
  /\ Starts(c)
  /\ \E q \in Requests :
       /\ AssertPending(q)
       /\ Becomes(c, [Idle EXCEPT !.pc = "reject", !.req = q])
  /\ UNCHANGED <<profile, request>>

RejectCommit(c) ==
  /\ call[c].pc = "reject"
  /\ LET q == call[c].req
     IN  /\ profile' = [profile EXCEPT ![request[q].user] = RejectedProfile(@)]
         /\ request' = [request EXCEPT ![q] = Reviewed(@, "REJECTED")]
  /\ Becomes(c, Done)

\* The call ends where it stands, its transaction is rolled back.
Lose(c) ==
  /\ c \in InFlight
  /\ Becomes(c, Lost)
  /\ UNCHANGED <<profile, request>>

Step(c) ==
  \/ CreateCheck(c) \/ CreateCommit(c)
  \/ ApproveFind(c) \/ ApproveCommit(c)
  \/ RejectFind(c) \/ RejectCommit(c)
  \/ Lose(c)

TwoInFlight == \E b, c \in InFlight : b # c

Next == /\ \E c \in Calls : Step(c)
        /\ overlap' = (overlap \/ TwoInFlight')

Spec == Init /\ [][Next]_vars

-----------------------------------------------------------------------------
(* Properties                                                              *)

RowKinds ==
  /\ profile \in [Users -> ProfileRow]
  /\ request \in [Requests -> RequestRow]
  /\ call \in [Calls -> Call]
  /\ \A q \in Requests : request[q].status # "NONE" =>
       request[q].user \in Users /\ request[q].stage \in Stages
  /\ \A c \in Calls :
       /\ call[c].pc = "create" => call[c].user \in Users /\ call[c].stage \in Stages
       /\ call[c].pc \in {"approve", "reject"} =>
            call[c].req \in Requests /\ request[call[c].req].status # "NONE"

\* The rows and calls are of their kinds; who holds a call or a request is there.
TypeOK == RowKinds /\ overlap \in BOOLEAN

\* However applications and reviews race, a verified profile rests on an
\* approved request of that user for exactly its career stage (or on the seed,
\* while the user has never applied): no rejection leaves a member behind whose
\* approval it overwrote.
MembershipBacked ==
  \A u \in Users : profile[u].cpa = "CPA_VERIFIED" =>
    /\ profile[u] = VerifiedProfile(profile[u].stage)
    /\ \/ \E q \in Requests : /\ request[q].user = u /\ request[q].status = "APPROVED"
                              /\ request[q].stage = profile[u].stage
       \/ u \in SeedMembers /\ \A q \in Requests : request[q].user # u

\* A profile shown as PENDING has a request an administrator can still decide,
\* so nobody waits for a review that no list offers.
PendingHasRequest ==
  \A u \in Users : profile[u].cpa = "PENDING" => ~NoPending(u)

-----------------------------------------------------------------------------
(* What the conflict messages promise.  Each is broken when calls overlap;  *)
(* its form Apart, while no two calls have been in flight at once, is what  *)
(* the handlers keep, wherever calls are lost.                              *)

\* "A pending CPA verification request already exists.": a user has one at most,
\* unless calls overlapped.
OnePendingRequestApart ==
  ~overlap => \A p, q \in Requests :
    AssertPending(p) /\ AssertPending(q) /\ request[p].user = request[q].user => p = q

DecisionsStand ==
  \A q \in Requests : request[q].status \in {"APPROVED", "REJECTED"} =>
    request'[q] = request[q]

\* "CPA verification request is already reviewed.": a decision is final.
ReviewedIsFinal == [][DecisionsStand]_vars
ReviewedIsFinalApart == [][~overlap' => DecisionsStand]_vars

Standing(row) == CASE row.cpa = "CPA_VERIFIED" -> "member"
                   [] row.cpa = "PENDING" -> "applicant"
                   [] OTHER -> "outsider"

\* The promise of Membership, kept step by step as long as no two calls have been
\* in flight at once.
Promise == INSTANCE Membership WITH
  standing <- [u \in Users |-> Standing(profile[u])],
  open     <- [u \in Users |-> {q \in Requests : request[q].user = u /\ AssertPending(q)}]

ImplementsMembership ==
  Promise!Init /\ [][~overlap' => [Promise!Next]_(Promise!vars)]_vars

-----------------------------------------------------------------------------
(* The inductive invariant behind the properties                           *)

\* A call that is alone still stands on what it read.
Alone(c) ==
  /\ call[c].pc = "create" => NoPending(call[c].user)
  /\ call[c].pc \in {"approve", "reject"} => AssertPending(call[c].req)

\* Calls not seen overlapping are alone, and a pending request shows in its
\* user's profile.
Apart == ~overlap =>
  /\ ~TwoInFlight /\ \A c \in Calls : Alone(c)
  /\ \A q \in Requests : AssertPending(q) => profile[request[q].user].cpa = "PENDING"

\* What holds however calls overlap.
Core == RowKinds /\ MembershipBacked /\ PendingHasRequest

IInv == Core /\ overlap \in BOOLEAN /\ Apart /\ OnePendingRequestApart
=============================================================================
