----------------------- MODULE CpaVerificationProofs -----------------------
(***************************************************************************)
(* Theorems about CpaVerification, for any number of users, requests and   *)
(* calls in flight.                                                        *)
(***************************************************************************)
EXTENDS CpaVerification, TLAPS

-----------------------------------------------------------------------------
\* The rows the code writes are of their kinds.
LEMMA Kinds ==
  /\ NoProfile \in ProfileRow /\ NoRequest \in RequestRow
  /\ Idle \in Call /\ Done \in Call /\ Lost \in Call
  /\ \A g \in Stages : VerifiedProfile(g) \in ProfileRow
  /\ \A old \in ProfileRow : /\ PendingProfile(old) \in ProfileRow
                             /\ RejectedProfile(old) \in ProfileRow
  /\ \A row \in RequestRow, st \in {"APPROVED", "REJECTED"} :
       Reviewed(row, st) \in RequestRow
  BY DEF NoProfile, ProfileRow, NoRequest, RequestRow, Idle, Done, Lost, Call,
         VerifiedProfile, Employment, PendingProfile, RejectedProfile, Reviewed

\* The invariant holds at the start.
LEMMA InitCore == Init => Core
<1> SUFFICES ASSUME Init PROVE Core
  OBVIOUS
<1>1. RowKinds
  BY Kinds DEF Init, RowKinds, NoRequest, Idle
<1>2. MembershipBacked
  <2> SUFFICES ASSUME NEW u \in Users, profile[u].cpa = "CPA_VERIFIED"
               PROVE  /\ profile[u] = VerifiedProfile(profile[u].stage)
                      /\ u \in SeedMembers /\ \A q \in Requests : request[q].user # u
    BY DEF MembershipBacked
  <2>1. profile[u] # NoProfile
    BY DEF NoProfile
  <2>2. u \in SeedMembers
    BY <2>1 DEF Init
  <2>3. profile[u] = VerifiedProfile(profile[u].stage)
    BY <2>1 DEF Init, VerifiedProfile
  <2>4. QED
    BY <2>2, <2>3, VerificationAssumption DEF Init, NoRequest
<1>3. PendingHasRequest
  BY DEF Init, PendingHasRequest, NoProfile, VerifiedProfile
<1>4. QED
  BY <1>1, <1>2, <1>3 DEF Core

-----------------------------------------------------------------------------
\* A step that writes no row.
LEMMA ReadStep ==
  ASSUME Core, NEW c \in Calls, NEW l \in Call, Becomes(c, l),
         UNCHANGED <<profile, request>>,
         l.pc = "create" => l.user \in Users /\ l.stage \in Stages,
         l.pc \in {"approve", "reject"} =>
           l.req \in Requests /\ request[l.req].status # "NONE"
  PROVE  Core'
<1>1. RowKinds'
  BY DEF Core, RowKinds, Becomes
<1>2. MembershipBacked' /\ PendingHasRequest'
  BY DEF Core, MembershipBacked, PendingHasRequest, NoPending
<1>3. QED
  BY <1>1, <1>2 DEF Core

\* A transaction writes the profile of user u as prof and the row of request q
\* as row; it must leave the two in agreement.
LEMMA CommitStep ==
  ASSUME Core, NEW c \in Calls, Becomes(c, Done),
         NEW u \in Users, NEW q \in Requests, NEW prof \in ProfileRow,
         NEW row \in RequestRow,
         profile' = [profile EXCEPT ![u] = prof],
         request' = [request EXCEPT ![q] = row],
         request[q].user = u \/ request[q].status = "NONE",
         row.user = u, row.stage \in Stages, row.status # "NONE",
         prof.cpa = "CPA_VERIFIED" =>
           /\ row.status = "APPROVED" /\ prof = VerifiedProfile(row.stage)
           /\ prof.stage = row.stage,
         prof.cpa = "PENDING" => row.status = "PENDING"
  PROVE  Core'
<1>1. RowKinds'
  BY Kinds DEF Core, RowKinds, Becomes, Done, Idle
<1>2. ASSUME NEW v \in Users, v # u
      PROVE  /\ profile'[v] = profile[v]
             /\ \A p \in Requests : request[p].user = v /\ request[p].status # "NONE" =>
                  request'[p] = request[p]
             /\ \A p \in Requests : request'[p].user = v => request[p].user = v
  BY <1>2 DEF Core, RowKinds
<1>3. request'[q] = row /\ profile'[u] = prof
  BY DEF Core, RowKinds
<1>4. MembershipBacked'
  <2> SUFFICES ASSUME NEW v \in Users, profile'[v].cpa = "CPA_VERIFIED"
               PROVE  /\ profile'[v] = VerifiedProfile(profile'[v].stage)
                      /\ \/ \E p \in Requests :
                              /\ request'[p].user = v /\ request'[p].status = "APPROVED"
                              /\ request'[p].stage = profile'[v].stage
                         \/ v \in SeedMembers /\ \A p \in Requests : request'[p].user # v
    BY DEF MembershipBacked, VerifiedProfile, Employment
  <2>1. CASE v = u
    BY <1>3, <2>1
  <2>2. CASE v # u
    BY <1>2, <2>2 DEF Core, MembershipBacked
  <2>3. QED
    BY <2>1, <2>2
<1>5. PendingHasRequest'
  <2> SUFFICES ASSUME NEW v \in Users, profile'[v].cpa = "PENDING"
               PROVE  \E p \in Requests : request'[p].user = v
                                          /\ request'[p].status = "PENDING"
    BY DEF PendingHasRequest, NoPending
  <2>1. CASE v = u
    BY <1>3, <2>1
  <2>2. CASE v # u
    BY <1>2, <2>2 DEF Core, PendingHasRequest, NoPending
  <2>3. QED
    BY <2>1, <2>2
<1>6. QED
  BY <1>1, <1>4, <1>5 DEF Core

\* Every step keeps the invariant.
LEMMA StepCore ==
  ASSUME Core, NEW c \in Calls, Step(c)
  PROVE  Core'
<1> USE Kinds
<1>0. /\ profile \in [Users -> ProfileRow] /\ request \in [Requests -> RequestRow]
      /\ call \in [Calls -> Call]
  BY DEF Core, RowKinds
<1>1. CASE CreateCheck(c)
  <2>1. PICK u \in Users, g \in Stages :
          Becomes(c, [Idle EXCEPT !.pc = "create", !.user = u, !.stage = g])
    BY <1>1 DEF CreateCheck
  <2> DEFINE l == [Idle EXCEPT !.pc = "create", !.user = u, !.stage = g]
  <2>2. l \in Call /\ l.pc = "create" /\ l.user = u /\ l.stage = g
    BY DEF Idle, Call
  <2> HIDE DEF l
  <2>3. Becomes(c, l)
    BY <2>1 DEF l
  <2>4. QED
    BY <1>1, <2>2, <2>3, ReadStep DEF CreateCheck
<1>2. CASE CreateCommit(c)
  <2> DEFINE u   == call[c].user
             row == [status |-> "PENDING", user |-> u, stage |-> call[c].stage,
                     pii |-> TRUE]
  <2>1. PICK q \in Requests :
          request[q].status = "NONE" /\ request' = [request EXCEPT ![q] = row]
    BY <1>2 DEF CreateCommit
  <2>2. u \in Users /\ call[c].stage \in Stages
    BY <1>2 DEF CreateCommit, Core, RowKinds
  <2>3. row \in RequestRow /\ row.user = u /\ row.stage \in Stages /\ row.status = "PENDING"
    BY <2>2 DEF RequestRow
  <2>4. PendingProfile(profile[u]) \in ProfileRow /\ PendingProfile(profile[u]).cpa = "PENDING"
    BY <1>0, <2>2 DEF PendingProfile, ProfileRow
  <2>5. profile' = [profile EXCEPT ![u] = PendingProfile(profile[u])] /\ Becomes(c, Done)
    BY <1>2 DEF CreateCommit
  <2> HIDE DEF u, row
  <2>6. QED
    BY <2>1, <2>2, <2>3, <2>4, <2>5, CommitStep
<1>3. CASE ApproveFind(c) \/ RejectFind(c)
  <2>1. PICK q \in Requests, pc \in {"approve", "reject"} :
          /\ AssertPending(q)
          /\ Becomes(c, [Idle EXCEPT !.pc = pc, !.req = q])
    BY <1>3 DEF ApproveFind, RejectFind
  <2> DEFINE l == [Idle EXCEPT !.pc = pc, !.req = q]
  <2>2. l \in Call /\ l.pc = pc /\ l.req = q
    BY DEF Idle, Call
  <2>3. Becomes(c, l) /\ request[q].status # "NONE"
    BY <2>1 DEF AssertPending
  <2> HIDE DEF l
  <2>4. QED
    BY <1>3, <2>2, <2>3, ReadStep DEF ApproveFind, RejectFind
<1>4. CASE ApproveCommit(c)
  <2> DEFINE q   == call[c].req
             u   == request[q].user
             row == Reviewed(request[q], "APPROVED")
             p   == VerifiedProfile(request[q].stage)
  <2>1. q \in Requests /\ u \in Users /\ request[q].stage \in Stages
    BY <1>4 DEF ApproveCommit, Core, RowKinds
  <2>2. /\ row \in RequestRow /\ row.user = u /\ row.stage = request[q].stage
        /\ row.status = "APPROVED"
    <3>1. request[q] \in RequestRow
      BY <1>0, <2>1
    <3>2. QED
      BY <3>1 DEF Reviewed, RequestRow
  <2>3. p \in ProfileRow /\ p.stage = row.stage /\ p.cpa = "CPA_VERIFIED"
        /\ p = VerifiedProfile(row.stage)
    BY <2>1, <2>2 DEF VerifiedProfile
  <2>4. /\ profile' = [profile EXCEPT ![u] = p]
        /\ request' = [request EXCEPT ![q] = row] /\ Becomes(c, Done)
    BY <1>4 DEF ApproveCommit
  <2>5. request[q].user = u
    OBVIOUS
  <2> HIDE DEF q, u, row, p
  <2>6. QED
    BY <2>1, <2>2, <2>3, <2>4, <2>5, CommitStep
<1>5. CASE RejectCommit(c)
  <2> DEFINE q   == call[c].req
             u   == request[q].user
             row == Reviewed(request[q], "REJECTED")
             p   == RejectedProfile(profile[u])
  <2>1. q \in Requests /\ u \in Users /\ request[q].stage \in Stages
    BY <1>5 DEF RejectCommit, Core, RowKinds
  <2>2. /\ row \in RequestRow /\ row.user = u /\ row.stage = request[q].stage
        /\ row.status = "REJECTED"
    <3>1. request[q] \in RequestRow
      BY <1>0, <2>1
    <3>2. QED
      BY <3>1 DEF Reviewed, RequestRow
  <2>3. p \in ProfileRow /\ p.cpa = "UNVERIFIED"
    BY <1>0, <2>1 DEF RejectedProfile, NoProfile
  <2>4. /\ profile' = [profile EXCEPT ![u] = p]
        /\ request' = [request EXCEPT ![q] = row] /\ Becomes(c, Done)
    BY <1>5 DEF RejectCommit
  <2>5. request[q].user = u
    OBVIOUS
  <2> HIDE DEF q, u, row, p
  <2>6. QED
    BY <2>1, <2>2, <2>3, <2>4, <2>5, CommitStep
<1>6. CASE Lose(c)
  <2>1. Lost.pc = "lost"
    BY DEF Lost, Idle
  <2>2. QED
    BY <1>6, <2>1, ReadStep DEF Lose
<1>7. QED
  BY <1>1, <1>2, <1>3, <1>4, <1>5, <1>6 DEF Step


-----------------------------------------------------------------------------
(* Calls that do not overlap                                               *)

\* While no overlap is seen, a call that takes a step is the only one in flight.
LEMMA Solo ==
  ASSUME RowKinds, Apart, ~overlap, ~TwoInFlight', NEW c \in Calls, Step(c)
  PROVE  \A b \in Calls \ {c} : b \notin InFlight /\ call'[b] = call[b]
<1>0. call \in [Calls -> Call]
  BY DEF RowKinds
<1>1. \E l \in Call : Becomes(c, l)
  <2>1. ASSUME NEW u \in Users, NEW g \in Stages
        PROVE  [Idle EXCEPT !.pc = "create", !.user = u, !.stage = g] \in Call
    BY DEF Idle, Call
  <2>2. ASSUME NEW q \in Requests, NEW pc \in {"approve", "reject"}
        PROVE  [Idle EXCEPT !.pc = pc, !.req = q] \in Call
    BY DEF Idle, Call
  <2>3. CASE CreateCheck(c)
    BY <2>1, <2>3 DEF CreateCheck
  <2>4. CASE ApproveFind(c) \/ RejectFind(c)
    BY <2>2, <2>4 DEF ApproveFind, RejectFind
  <2>5. QED
    BY <2>3, <2>4, Kinds DEF Step, CreateCommit, ApproveCommit, RejectCommit, Lose
<1>2. \A b \in Calls \ {c} : call'[b] = call[b]
  BY <1>0, <1>1 DEF Becomes
<1>3. c \in InFlight \/ c \in InFlight'
  <2>1. CASE CreateCheck(c)
    BY <1>0, <2>1 DEF CreateCheck, Becomes, Idle, InFlight
  <2>2. CASE ApproveFind(c)
    BY <1>0, <2>2 DEF ApproveFind, Becomes, Idle, InFlight
  <2>3. CASE RejectFind(c)
    BY <1>0, <2>3 DEF RejectFind, Becomes, Idle, InFlight
  <2>4. QED
    BY <2>1, <2>2, <2>3 DEF Step, CreateCommit, ApproveCommit, RejectCommit, Lose,
       InFlight
<1>4. QED
  BY <1>2, <1>3 DEF Apart, TwoInFlight, InFlight

\* A step that writes no row, by a call that stands on what it read.
LEMMA ApartRead ==
  ASSUME Core, Apart, ~overlap, NEW c \in Calls, NEW l \in Call, Becomes(c, l),
         UNCHANGED <<profile, request>>, ~TwoInFlight',
         \A b \in Calls \ {c} : b \notin InFlight /\ call'[b] = call[b],
         l.pc = "create" => NoPending(l.user),
         l.pc \in {"approve", "reject"} => AssertPending(l.req)
  PROVE  Apart'
<1>1. call'[c] = l
  BY DEF Core, RowKinds, Becomes
<1>2. \A b \in Calls : Alone(b)'
  BY <1>1 DEF Alone, InFlight, NoPending, AssertPending
<1>3. \A q \in Requests : AssertPending(q)' => profile'[request'[q].user].cpa = "PENDING"
  BY DEF Apart, AssertPending
<1>4. QED
  BY <1>2, <1>3 DEF Apart

\* After its commit a call holds nothing.
LEMMA CallsRest ==
  ASSUME RowKinds, NEW c \in Calls, Becomes(c, Done),
         \A b \in Calls \ {c} : b \notin InFlight /\ call'[b] = call[b]
  PROVE  \A b \in Calls : Alone(b)'
<1>1. call'[c].pc = "done"
  BY DEF RowKinds, Becomes, Done, Idle
<1>2. QED
  BY <1>1 DEF Alone, InFlight

\* What a call does that is alone: it keeps the conflict messages' promises and
\* takes a step of Membership.
LEMMA StepApart ==
  ASSUME Core, Apart, OnePendingRequestApart, ~overlap, ~TwoInFlight',
         NEW c \in Calls, Step(c)
  PROVE  /\ Apart' /\ OnePendingRequestApart'
         /\ DecisionsStand /\ [Promise!Next]_(Promise!vars)
<1> DEFINE Goal == /\ Apart' /\ OnePendingRequestApart'
                   /\ DecisionsStand /\ [Promise!Next]_(Promise!vars)
<1>0. /\ profile \in [Users -> ProfileRow] /\ request \in [Requests -> RequestRow]
      /\ call \in [Calls -> Call] /\ RowKinds
      /\ \A b \in Calls \ {c} : b \notin InFlight /\ call'[b] = call[b]
      /\ \A q \in Requests : AssertPending(q) =>
           request[q].user \in Users /\ profile[request[q].user].cpa = "PENDING"
      /\ \A p, q \in Requests :
           AssertPending(p) /\ AssertPending(q) /\ request[p].user = request[q].user
             => p = q
  BY Solo DEF Core, RowKinds, Apart, OnePendingRequestApart, AssertPending
<1>1. ASSUME UNCHANGED <<profile, request>>, Apart'
      PROVE  Goal
  BY <1>0, <1>1 DEF OnePendingRequestApart, AssertPending, DecisionsStand, Promise!vars
<1>2. CASE CreateCheck(c)
  <2>1. PICK u \in Users, g \in Stages :
          /\ NoPending(u)
          /\ Becomes(c, [Idle EXCEPT !.pc = "create", !.user = u, !.stage = g])
    BY <1>2 DEF CreateCheck
  <2> DEFINE l == [Idle EXCEPT !.pc = "create", !.user = u, !.stage = g]
  <2>2. l \in Call /\ l.pc = "create" /\ l.user = u
    BY DEF Idle, Call
  <2>3. Becomes(c, l)
    BY <2>1
  <2> HIDE DEF l
  <2>4. Apart'
    BY <1>0, <1>2, <2>1, <2>2, <2>3, ApartRead DEF CreateCheck
  <2>5. QED
    BY <1>1, <1>2, <2>4 DEF CreateCheck
<1>3. CASE ApproveFind(c) \/ RejectFind(c)
  <2>1. PICK q \in Requests, pc \in {"approve", "reject"} :
          /\ AssertPending(q)
          /\ Becomes(c, [Idle EXCEPT !.pc = pc, !.req = q])
    BY <1>3 DEF ApproveFind, RejectFind
  <2> DEFINE l == [Idle EXCEPT !.pc = pc, !.req = q]
  <2>2. l \in Call /\ l.pc = pc /\ l.req = q
    BY DEF Idle, Call
  <2>3. Becomes(c, l)
    BY <2>1
  <2> HIDE DEF l
  <2>4. Apart'
    BY <1>0, <1>3, <2>1, <2>2, <2>3, ApartRead DEF ApproveFind, RejectFind
  <2>5. QED
    BY <1>1, <1>3, <2>4 DEF ApproveFind, RejectFind
<1>4. CASE Lose(c)
  <2>1. Lost \in Call /\ Lost.pc = "lost" /\ Becomes(c, Lost)
    BY <1>4, Kinds DEF Lost, Idle, Lose
  <2>2. Apart'
    BY <1>0, <1>4, <2>1, ApartRead DEF Lose
  <2>3. QED
    BY <1>1, <1>4, <2>2 DEF Lose
<1>5. CASE CreateCommit(c)
  <2>0. PICK u \in Users : u = call[c].user
    BY <1>5 DEF CreateCommit, Core, RowKinds
  <2> DEFINE row == [status |-> "PENDING", user |-> u, stage |-> call[c].stage,
                     pii |-> TRUE]
  <2>1. PICK q \in Requests :
          request[q].status = "NONE" /\ request' = [request EXCEPT ![q] = row]
    BY <1>5, <2>0 DEF CreateCommit
  <2>2. /\ NoPending(u) /\ profile[u].cpa # "PENDING"
        /\ profile' = [profile EXCEPT ![u] = PendingProfile(profile[u])]
        /\ Becomes(c, Done)
    BY <1>5, <2>0 DEF CreateCommit, Apart, Alone, Core, PendingHasRequest
  <2>3. profile[u] \in ProfileRow /\ PendingProfile(profile[u]).cpa = "PENDING"
    BY <1>0, <2>2 DEF PendingProfile, ProfileRow
  <2>4. row.user = u /\ row.status = "PENDING"
    OBVIOUS
  <2> HIDE DEF row
  <2>5. /\ request'[q] = row /\ \A p \in Requests \ {q} : request'[p] = request[p]
        /\ profile'[u].cpa = "PENDING" /\ \A v \in Users \ {u} : profile'[v] = profile[v]
    BY <1>0, <2>1, <2>2, <2>3
  <2>6. Apart'
    <3>1. \A b \in Calls : Alone(b)'
      BY <1>0, <2>2, CallsRest
    <3>2. \A p \in Requests : request'[p].status = "PENDING" =>
            profile'[request'[p].user].cpa = "PENDING"
      BY <1>0, <2>4, <2>5 DEF AssertPending
    <3>3. QED
      BY <3>1, <3>2 DEF Apart, AssertPending
  <2>7. OnePendingRequestApart'
    BY <1>0, <2>2, <2>4, <2>5 DEF OnePendingRequestApart, AssertPending, NoPending
  <2>8. DecisionsStand
    BY <2>1, <2>5 DEF DecisionsStand
  <2>9. Promise!Apply(u)
    <3>1. Standing(profile[u]) # "applicant" /\ Standing(profile'[u]) = "applicant"
      BY <2>2, <2>5 DEF Standing
    <3>2. [v \in Users |-> Standing(profile'[v])] =
            [[v \in Users |-> Standing(profile[v])] EXCEPT ![u] = "applicant"]
      <4>1. \A v \in Users : Standing(profile'[v]) =
              IF v = u THEN "applicant" ELSE Standing(profile[v])
        BY <2>5, <3>1
      <4>2. QED
        BY <2>2, <4>1
    <3>3. {p \in Requests : request'[p].user = u /\ request'[p].status = "PENDING"} = {q}
      BY <2>2, <2>4, <2>5 DEF NoPending
    <3>4. ASSUME NEW v \in Users \ {u}
          PROVE  {p \in Requests : request'[p].user = v /\ request'[p].status = "PENDING"}
                 = {p \in Requests : request[p].user = v /\ request[p].status = "PENDING"}
      BY <2>1, <2>4, <2>5
    <3>5. [v \in Users |-> {p \in Requests :
                              request'[p].user = v /\ request'[p].status = "PENDING"}] =
          [[v \in Users |-> {p \in Requests :
                              request[p].user = v /\ request[p].status = "PENDING"}]
             EXCEPT ![u] = {q}]
      BY <2>2, <3>3, <3>4
    <3>6. QED
      BY <2>2, <3>1, <3>2, <3>5 DEF Promise!Apply, AssertPending
  <2>10. QED
    <3>1. Promise!Next
      BY <2>2, <2>9 DEF Promise!Next
    <3>2. QED
      BY <2>6, <2>7, <2>8, <3>1
<1>6. CASE ApproveCommit(c) \/ RejectCommit(c)
  <2> DEFINE q == call[c].req
  <2>0. PICK u \in Users : u = request[q].user
    BY <1>6 DEF ApproveCommit, RejectCommit, Core, RowKinds
  <2>1. q \in Requests /\ AssertPending(q) /\ Becomes(c, Done)
    BY <1>6 DEF ApproveCommit, RejectCommit, Core, RowKinds, Apart, Alone
  <2>2. profile[u].cpa = "PENDING" /\ request[q] \in RequestRow
    BY <1>0, <2>0, <2>1
  <2>3. PICK prof \in ProfileRow, verdict \in {"APPROVED", "REJECTED"} :
          /\ profile' = [profile EXCEPT ![u] = prof]
          /\ request' = [request EXCEPT ![q] = Reviewed(request[q], verdict)]
          /\ prof.cpa \in {"CPA_VERIFIED", "UNVERIFIED"}
    <3>1. CASE ApproveCommit(c)
      <4>1. request[q].stage \in Stages
        BY <2>1, <2>2 DEF Core, RowKinds, AssertPending
      <4>2. /\ VerifiedProfile(request[q].stage) \in ProfileRow
            /\ VerifiedProfile(request[q].stage).cpa = "CPA_VERIFIED"
        BY <4>1, Kinds DEF VerifiedProfile
      <4>3. QED
        BY <2>0, <3>1, <4>2 DEF ApproveCommit
    <3>2. CASE RejectCommit(c)
      <4>1. /\ RejectedProfile(profile[u]) \in ProfileRow
            /\ RejectedProfile(profile[u]).cpa = "UNVERIFIED"
        BY <1>0, <2>2, Kinds DEF RejectedProfile, NoProfile
      <4>2. QED
        BY <2>0, <3>2, <4>1 DEF RejectCommit
    <3>3. QED
      BY <1>6, <3>1, <3>2
  <2> DEFINE row == Reviewed(request[q], verdict)
  <2>4. row.user = u /\ row.status # "PENDING"
    BY <2>0, <2>2 DEF Reviewed, RequestRow
  <2>5. request' = [request EXCEPT ![q] = row]
    BY <2>3
  <2>6. request[q].user = u
    BY <2>0
  <2> HIDE DEF q, row
  <2>7. /\ request'[q] = row /\ \A p \in Requests \ {q} : request'[p] = request[p]
        /\ profile'[u] = prof /\ \A v \in Users \ {u} : profile'[v] = profile[v]
    BY <1>0, <2>1, <2>2, <2>3, <2>5
  <2>8. Apart'
    <3>1. \A b \in Calls : Alone(b)'
      BY <1>0, <2>1, CallsRest
    <3>2. \A p \in Requests : request'[p].status = "PENDING" =>
            profile'[request'[p].user].cpa = "PENDING"
      BY <1>0, <2>1, <2>4, <2>6, <2>7 DEF AssertPending
    <3>3. QED
      BY <3>1, <3>2 DEF Apart, AssertPending
  <2>9. OnePendingRequestApart'
    BY <1>0, <2>4, <2>7 DEF OnePendingRequestApart, AssertPending
  <2>10. DecisionsStand
    BY <2>1, <2>7 DEF DecisionsStand, AssertPending
  <2>11. Promise!Decide(u)
    <3>1. PICK to \in {"member", "outsider"} : Standing(prof) = to
      BY <2>3 DEF Standing
    <3>2. Standing(profile[u]) = "applicant"
      BY <2>2 DEF Standing
    <3>3. [v \in Users |-> Standing(profile'[v])] =
            [[v \in Users |-> Standing(profile[v])] EXCEPT ![u] = to]
      BY <2>2, <2>7, <3>1
    <3>4. {p \in Requests : request'[p].user = u /\ request'[p].status = "PENDING"} = {}
      BY <1>0, <2>1, <2>4, <2>6, <2>7 DEF AssertPending
    <3>5. ASSUME NEW v \in Users \ {u}
          PROVE  {p \in Requests : request'[p].user = v /\ request'[p].status = "PENDING"}
                 = {p \in Requests : request[p].user = v /\ request[p].status = "PENDING"}
      BY <2>4, <2>6, <2>7
    <3>6. [v \in Users |-> {p \in Requests :
                              request'[p].user = v /\ request'[p].status = "PENDING"}] =
          [[v \in Users |-> {p \in Requests :
                              request[p].user = v /\ request[p].status = "PENDING"}]
             EXCEPT ![u] = {}]
      <4> DEFINE waits(v)  == {p \in Requests : request[p].user = v /\ request[p].status = "PENDING"}
                 waited(v) == {p \in Requests :
                                 request'[p].user = v /\ request'[p].status = "PENDING"}
      <4>1. waited(u) = {} /\ \A v \in Users \ {u} : waited(v) = waits(v)
        BY <3>4, <3>5
      <4> HIDE DEF waits, waited
      <4>2. [v \in Users |-> waited(v)] = [[v \in Users |-> waits(v)] EXCEPT ![u] = {}]
        BY <4>1, <2>2
      <4> QED BY <4>2 DEF waits, waited
    <3>7. QED
      BY <2>2, <3>2, <3>3, <3>6 DEF Promise!Decide, AssertPending
  <2>12. QED
    <3>1. Promise!Next
      BY <2>2, <2>11 DEF Promise!Next
    <3>2. QED
      BY <2>8, <2>9, <2>10, <3>1
<1>7. QED
  BY <1>2, <1>3, <1>4, <1>5, <1>6 DEF Step

-----------------------------------------------------------------------------
(* The theorems                                                            *)

\* The invariant holds at the start.
LEMMA InitIInv == Init => IInv
<1> SUFFICES ASSUME Init PROVE IInv
  OBVIOUS
<1>1. Apart /\ OnePendingRequestApart /\ overlap \in BOOLEAN
  BY DEF Init, Apart, OnePendingRequestApart, AssertPending, NoRequest, Alone,
     TwoInFlight, InFlight, Idle
<1>2. QED
  BY <1>1, InitCore DEF IInv

\* A step with no overlap seen so far.
LEMMA NextApart ==
  ASSUME IInv, [Next]_vars, ~overlap'
  PROVE  /\ Apart' /\ OnePendingRequestApart'
         /\ DecisionsStand /\ [Promise!Next]_(Promise!vars)
<1>1. CASE UNCHANGED vars
  <2>1. Apart' /\ OnePendingRequestApart'
    BY <1>1 DEF IInv, vars, Apart, OnePendingRequestApart, AssertPending, NoPending,
       Alone, TwoInFlight, InFlight
  <2>2. DecisionsStand /\ UNCHANGED Promise!vars
    BY <1>1 DEF vars, DecisionsStand, Promise!vars, AssertPending
  <2>3. QED
    BY <2>1, <2>2
<1>2. CASE Next
  <2>1. PICK c \in Calls : Step(c)
    BY <1>2 DEF Next
  <2>2. ~overlap /\ ~TwoInFlight'
    BY <1>2 DEF Next, IInv
  <2>3. QED
    BY <2>1, <2>2, StepApart DEF IInv
<1>3. QED
  BY <1>1, <1>2

\* Every step keeps the invariant.
LEMMA StepIInv == IInv /\ [Next]_vars => IInv'
<1> SUFFICES ASSUME IInv, [Next]_vars PROVE IInv'
  OBVIOUS
<1>1. Core' /\ overlap' \in BOOLEAN
  <2>1. CASE UNCHANGED vars
    BY <2>1 DEF IInv, Core, vars, RowKinds, MembershipBacked, PendingHasRequest, NoPending
  <2>2. CASE Next
    BY <2>2, StepCore DEF Next, IInv
  <2>3. QED
    BY <2>1, <2>2
<1>2. Apart' /\ OnePendingRequestApart'
  <2>1. CASE overlap'
    BY <2>1 DEF Apart, OnePendingRequestApart
  <2>2. CASE ~overlap'
    BY <2>2, NextApart
  <2>3. QED
    BY <2>1, <2>2
<1>3. QED
  BY <1>1, <1>2 DEF IInv

\* The invariant of the proofs.
THEOREM Invariance == Spec => []IInv
  BY InitIInv, StepIInv, PTL DEF Spec

\* Rows and calls always have their kinds.
THEOREM TypeCorrect == Spec => []TypeOK
<1>1. IInv => TypeOK
  BY DEF IInv, Core, TypeOK
<1>2. QED
  BY <1>1, Invariance, PTL

\* However applications and reviews overlap, a member's profile rests on an
\* approved request for its career stage.
THEOREM Backed == Spec => []MembershipBacked
<1>1. IInv => MembershipBacked
  BY DEF IInv, Core
<1>2. QED
  BY <1>1, Invariance, PTL

\* A profile shown as pending always has a request to decide.
THEOREM Decidable == Spec => []PendingHasRequest
<1>1. IInv => PendingHasRequest
  BY DEF IInv, Core
<1>2. QED
  BY <1>1, Invariance, PTL

\* Unless calls overlapped, nobody has two requests waiting for review.
THEOREM OnePending == Spec => []OnePendingRequestApart
<1>1. IInv => OnePendingRequestApart
  BY DEF IInv
<1>2. QED
  BY <1>1, Invariance, PTL

\* Unless calls overlapped, a decision on a request is final.
THEOREM DecisionsFinal == Spec => ReviewedIsFinalApart
<1>1. IInv /\ [Next]_vars => [~overlap' => DecisionsStand]_vars
  BY NextApart
<1>2. QED
  BY <1>1, Invariance, PTL DEF Spec, ReviewedIsFinalApart

\* Unless calls overlapped, verification keeps what Membership promises.
THEOREM Refinement == Spec => ImplementsMembership
<1>1. Init => Promise!Init
  <2> SUFFICES ASSUME Init PROVE Promise!Init
    OBVIOUS
  <2>1. \A u \in Users : Standing(profile[u]) = IF u \in SeedMembers THEN "member"
                                                ELSE "outsider"
    BY DEF Init, Standing, NoProfile, VerifiedProfile
  <2>2. \A u \in Users : {q \in Requests : request[q].user = u /\ AssertPending(q)} = {}
    BY DEF Init, AssertPending, NoRequest
  <2>3. QED
    BY <2>1, <2>2 DEF Promise!Init
<1>2. IInv /\ [Next]_vars => (~overlap' => [Promise!Next]_(Promise!vars))
  BY NextApart
<1>3. QED
  BY <1>1, <1>2, Invariance, PTL DEF Spec, ImplementsMembership
=============================================================================
