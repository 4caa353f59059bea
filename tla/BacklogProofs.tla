---------------------------- MODULE BacklogProofs ----------------------------
(***************************************************************************)
(* The safety properties of the legacy backlog server, for any number of   *)
(* repositories, issues, pages, calls and analyses, and however GitHub     *)
(* changes meanwhile.  Backlog and BacklogAnalysis state the invariants:   *)
(* SyncInv is about the server and GitHub, which analyses only read,       *)
(* GroupInv, ClassInv and WholeInv about the groups, which the server's    *)
(* other steps only remove.  UnionFindIsExact is about the operators       *)
(* alone: any similarity of any finite set of items.                       *)
(***************************************************************************)
EXTENDS BacklogAnalysis, FiniteSetTheorems, TLAPS

-----------------------------------------------------------------------------
(* The list of issues on GitHub                                            *)

\* The number of issues on the list from i on.
LEMMA PositionKind ==
  ASSUME NEW i \in Issues
  PROVE  /\ Position(i) \in Nat
         /\ \A r \in Repos : IsFiniteSet(Listed(r)) /\ Cardinality(Listed(r)) \in Nat
         /\ Position(i) <= Cardinality(Listed(RepoOf[i]))
         /\ i \in Listed(RepoOf[i]) => Position(i) > 0
<1> DEFINE after == {k \in Listed(RepoOf[i]) : k >= i}
<1>1. \A r \in Repos : IsFiniteSet(Listed(r)) /\ Cardinality(Listed(r)) \in Nat
  <2>1. SUFFICES ASSUME NEW r \in Repos
                 PROVE  IsFiniteSet(Listed(r)) /\ Cardinality(Listed(r)) \in Nat
    OBVIOUS
  <2>2. Listed(r) \in SUBSET Issues /\ IsFiniteSet(Issues)
    BY BacklogAssumption DEF Listed
  <2>3. IsFiniteSet(Listed(r))
    BY <2>2, FS_Subset
  <2> QED BY <2>3, FS_CardinalityType
<1>2. RepoOf[i] \in Repos /\ i \in Nat
  BY BacklogAssumption
<1>3. /\ IsFiniteSet(after) /\ Cardinality(after) \in Nat
      /\ Cardinality(after) <= Cardinality(Listed(RepoOf[i]))
  <2>1. after \in SUBSET Listed(RepoOf[i])
    OBVIOUS
  <2>2. IsFiniteSet(after) /\ Cardinality(after) <= Cardinality(Listed(RepoOf[i]))
    BY <1>1, <1>2, <2>1, FS_Subset
  <2> QED BY <2>2, FS_CardinalityType
<1>4. i \in Listed(RepoOf[i]) => Cardinality(after) > 0
  <2>1. i \in Listed(RepoOf[i]) => i \in after
    BY <1>2
  <2>2. Cardinality(after) = 0 <=> after = {}
    BY <1>3, FS_EmptySet
  <2> QED BY <1>3, <2>1, <2>2
<1> QED BY <1>1, <1>3, <1>4 DEF Position

\* As long as none is removed, an issue is only pushed to later pages.
LEMMA Pushed ==
  ASSUME NEW i \in Issues, NEW page \in Nat, Ahead(i, page),
         Listed(RepoOf[i]) \subseteq Listed(RepoOf[i])'
  PROVE  Ahead(i, page)'
<1> DEFINE before == {k \in Listed(RepoOf[i]) : k >= i}
           after == {k \in Listed(RepoOf[i])' : k >= i}
<1>1. RepoOf[i] \in Repos /\ IsFiniteSet(Issues)
  BY BacklogAssumption
<1>2. IsFiniteSet(after) /\ before \in SUBSET after
  <2>1. after \in SUBSET Issues
    BY DEF Listed
  <2> QED BY <1>1, <2>1, FS_Subset
<1>3. Cardinality(before) <= Cardinality(after)
  BY <1>2, FS_Subset
<1>4. Cardinality(before) \in Nat /\ Cardinality(after) \in Nat
  <2>1. IsFiniteSet(before)
    BY <1>2, FS_Subset
  <2> QED BY <1>2, <2>1, FS_CardinalityType
<1>5. Position(i) = Cardinality(before) /\ Position(i)' = Cardinality(after)
  BY DEF Position
<1>6. (page - 1) * PageSize \in Int
  BY BacklogAssumption
<1> HIDE DEF before, after
<1> QED BY <1>3, <1>4, <1>5, <1>6 DEF Ahead

\* Facts of the invariant that every step needs.
LEMMA Facts ==
  ASSUME SyncInv, NEW c \in Calls
  PROVE  /\ repo \in [Repos -> {"free", "connected", "deleted"}]
         /\ github \in [Issues -> {"absent", "open", "closed", "gone"}]
         /\ item \in [Issues -> {"none", "open", "closed"}]
         /\ job \in [Calls -> {"none", "QUEUED", "RUNNING", "SUCCEEDED", "FAILED", "deleted"}]
         /\ call \in [Calls -> Call] /\ call[c] \in Call
         /\ seen \in [Calls -> Seen] /\ seen[c] \in Seen
         /\ up \in BOOLEAN /\ changes \in 0..MaxChanges
         /\ Sound(c) /\ Covered(c) /\ Closes(c)
         /\ seen[c].due \subseteq Issues /\ seen[c].beside \subseteq Calls
         /\ call[c].page \in Nat /\ call[c].batch \in [Issues -> {"none", "open", "closed"}]
         /\ call[c].more \in BOOLEAN /\ seen[c].moved \in BOOLEAN
  BY DEF SyncInv, BacklogTypes, Seen, Call

-----------------------------------------------------------------------------
(* A step of one call                                                      *)

\* It is enough to look at that call, and at what it does to the rows and on
\* GitHub.
LEMMA ServeFrame ==
  ASSUME SyncInv, NEW c \in InFlight, NEW l \in Call, Becomes(c, l),
         UNCHANGED <<repo, seen, up, changes>>,
         l.op = call[c].op, l.repo = call[c].repo, l.id = call[c].id, l.pc # "idle",
         job' \in [Calls -> {"none", "QUEUED", "RUNNING", "SUCCEEDED", "FAILED", "deleted"}],
         \A d \in Calls : d # c => job'[d] = job[d],
         item' \in [Issues -> {"none", "open", "closed"}],
         github' \in [Issues -> {"absent", "open", "closed", "gone"}],
         \A i \in Issues : item[i] # "none" => item'[i] # "none",
         \A i \in Issues : item'[i] = "open" =>
           item[i] = "open" \/ (Syncs(c) /\ call[c].batch[i] = "open"),
         \A i \in Issues : github[i] \in {"open", "closed"} => github'[i] \in {"open", "closed"},
         \A i \in Issues : github[i] \in {"closed", "gone"} => github'[i] \in {"closed", "gone"},
         \A i \in Issues : l.batch[i] = "open" => call[c].batch[i] = "open" \/ github[i] = "open",
         Sound(c)', Covered(c)', Closes(c)',
         l.op = "close" /\ l.pc = "done" => item'[l.id] # "open"
  PROVE  SyncInv'
<1>1. c \in Calls /\ call \in [Calls -> Call]
  BY DEF InFlight, SyncInv, BacklogTypes
<1>2. /\ call' \in [Calls -> Call] /\ call'[c] = l
      /\ \A d \in Calls : d # c => call'[d] = call[d]
      /\ \A d \in Calls : call'[d].op = call[d].op /\ call'[d].id = call[d].id
      /\ InFlight' \subseteq InFlight
  BY <1>1 DEF Becomes, InFlight
<1>3. BacklogTypes'
  BY <1>2 DEF SyncInv, BacklogTypes
<1>4. Together'
  <2>1. \A d \in Calls : call[d].pc # "idle" => call'[d].pc # "idle"
    BY <1>2
  <2>2. \A d \in Calls : seen[d].beside \subseteq Calls
    BY Facts
  <2> QED BY <1>2, <2>1, <2>2 DEF SyncInv, Together, InFlight
<1>5. \A r \in Repos : Listed(r) \subseteq Listed(r)'
  BY DEF Listed
<1>6. ASSUME NEW d \in Calls, d # c PROVE Sound(d)' /\ Covered(d)' /\ Closes(d)'
  <2>1. /\ call'[d] = call[d] /\ job'[d] = job[d] /\ seen' = seen /\ repo' = repo
        /\ (d \in InFlight') = (d \in InFlight)
    BY <1>2, <1>6 DEF InFlight
  <2>2. Sound(d)'
    <3>1. Sound(d)
      BY Facts
    <3> QED BY <2>1, <3>1 DEF Sound, JobThere, Syncs, Idle, NoBatch
  <2>3. Covered(d)'
    <3>1. SUFFICES ASSUME Syncs(d), repo[call[d].repo] = "connected", ~seen[d].moved
                   PROVE  /\ d \in InFlight' => seen[d].due \subseteq Listed(call[d].repo)'
                          /\ \A i \in seen[d].due : item'[i] # "none" \/ ToCome(d, i)'
      BY <2>1 DEF Covered, Syncs
    <3>2. /\ d \in InFlight => seen[d].due \subseteq Listed(call[d].repo)
          /\ \A i \in seen[d].due : item[i] # "none" \/ ToCome(d, i)
      BY <3>1, Facts DEF Covered
    <3>3. call[d].repo \in Repos
      BY <3>1, Facts DEF Sound, Idle, Syncs
    <3>4. \A i \in Issues : ToCome(d, i) => ToCome(d, i)'
      <4>1. SUFFICES ASSUME NEW i \in Issues, ToCome(d, i) PROVE ToCome(d, i)'
        OBVIOUS
      <4>2. PICK page \in Nat : page = call[d].page
        BY Facts
      <4>3. Ahead(i, page) => Ahead(i, page)'
        BY <1>5, Pushed, BacklogAssumption
      <4> QED BY <2>1, <4>1, <4>2, <4>3 DEF ToCome, Ahead
    <3> QED BY <1>5, <2>1, <3>2, <3>3, <3>4, Facts
  <2>4. Closes(d)'
    <3>1. SUFFICES ASSUME call[d].op = "close", ~seen[d].moved
                   PROVE  /\ call[d].pc \in {"closeRow", "done"} =>
                               github'[call[d].id] \in {"closed", "gone"}
                          /\ call[d].pc = "done" => \A e \in InFlight' :
                               e \in seen[d].beside \/ call'[e].batch[call[d].id] # "open"
      BY <2>1 DEF Closes
    <3>2. call[d].id \in Issues
      BY <3>1, Facts DEF Sound
    <3>3. /\ call[d].pc \in {"closeRow", "done"} => github[call[d].id] \in {"closed", "gone"}
          /\ call[d].pc = "done" => \A e \in InFlight :
               e \in seen[d].beside \/ call[e].batch[call[d].id] # "open"
      BY <3>1, Facts DEF Closes
    <3>4. ASSUME call[d].pc = "done", NEW e \in InFlight'
          PROVE  e \in seen[d].beside \/ call'[e].batch[call[d].id] # "open"
      <4>1. e \in InFlight /\ e \in Calls
        BY <1>2, <3>4 DEF InFlight
      <4>2. CASE e = c
        BY <1>2, <3>2, <3>3, <3>4, <4>1, <4>2
      <4>3. CASE e # c
        BY <1>2, <3>3, <3>4, <4>1, <4>3
      <4> QED BY <4>2, <4>3
    <3> QED BY <3>2, <3>3, <3>4
  <2> QED BY <2>2, <2>3, <2>4
<1>7. ClosedStaysApart'
  <2>1. SUFFICES ASSUME NEW d \in Calls, call'[d].op = "close", call'[d].pc = "done",
                        item'[call'[d].id] = "open", ~seen[d].moved
                 PROVE  \E e \in Calls : e \in seen[d].beside /\ call'[e].op \in {"job", "sync"}
    BY DEF ClosedStaysApart
  <2>2. d # c /\ call'[d] = call[d]
    BY <1>2, <2>1
  <2>3. call[d].id \in Issues /\ call[d].op = "close" /\ call[d].pc = "done"
    BY <2>1, <2>2, Facts DEF Sound
  <2>4. CASE item[call[d].id] = "open"
    BY <1>2, <2>1, <2>2, <2>3, <2>4 DEF SyncInv, ClosedStaysApart
  <2>5. CASE Syncs(c) /\ call[c].batch[call[d].id] = "open"
    <3>1. c \in seen[d].beside
      BY <2>1, <2>3, <2>5, Facts DEF Closes
    <3> QED BY <1>1, <1>2, <2>5, <3>1 DEF Syncs
  <2> QED BY <2>1, <2>2, <2>3, <2>4, <2>5
<1>8. \A d \in Calls : Sound(d)' /\ Covered(d)' /\ Closes(d)'
  BY <1>6
<1> QED BY <1>3, <1>4, <1>7, <1>8 DEF SyncInv

\* The process ends, and all calls in flight with it.
LEMMA DieFrame ==
  ASSUME SyncInv, NEW cause, Dies(cause), UNCHANGED <<repo, github, item, job, changes, seen>>,
         \A c \in InFlight : c \in cause => call[c].op = "job" /\ repo[call[c].repo] = "deleted"
  PROVE  SyncInv'
<1> DEFINE ends(c) == IF c \in cause THEN "crashed" ELSE "lost"
<1>1. /\ up' = FALSE /\ call \in [Calls -> Call]
      /\ call' = [c \in Calls |->
           IF c \in InFlight THEN [call[c] EXCEPT !.pc = ends(c)] ELSE call[c]]
  BY DEF Dies, SyncInv, BacklogTypes
<1>2. \A c \in Calls : [call[c] EXCEPT !.pc = ends(c)] \in Call
  <2>1. SUFFICES ASSUME NEW c \in Calls PROVE [call[c] EXCEPT !.pc = ends(c)] \in Call
    OBVIOUS
  <2>2. call[c] \in Call /\ ends(c) \in Pc
    BY <1>1 DEF Pc
  <2> HIDE DEF ends
  <2> QED BY <2>2 DEF Call
<1>3. call' \in [Calls -> Call]
  BY <1>1, <1>2
<1>4. \A c \in Calls :
        /\ call'[c].op = call[c].op /\ call'[c].repo = call[c].repo /\ call'[c].id = call[c].id
        /\ call'[c].batch = call[c].batch
        /\ c \in InFlight => call'[c].pc = ends(c)
        /\ c \notin InFlight => call'[c] = call[c]
  BY <1>1 DEF Call
<1> HIDE DEF ends
<1>5. InFlight' = {}
  BY <1>4 DEF InFlight, Ended, ends
<1>6. BacklogTypes'
  BY <1>1, <1>3 DEF SyncInv, BacklogTypes
<1>7. Together'
  <2>1. \A c \in Calls : call[c].pc # "idle" => call'[c].pc # "idle"
    BY <1>4 DEF ends
  <2>2. \A c \in Calls : seen[c].beside \subseteq Calls
    BY Facts
  <2> QED BY <1>5, <2>1, <2>2 DEF SyncInv, Together
<1>8. ASSUME NEW c \in Calls PROVE Sound(c)' /\ Covered(c)' /\ Closes(c)'
  <2>1. CASE c \notin InFlight
    <3>1. call'[c] = call[c] /\ c \notin InFlight'
      BY <1>4, <1>5, <2>1
    <3>2. Sound(c)'
      <4>1. Sound(c)
        BY Facts
      <4> QED BY <2>1, <3>1, <4>1 DEF Sound, JobThere, Syncs, Idle, NoBatch
    <3>3. Covered(c)'
      BY <2>1, <3>1, Facts DEF Covered, Syncs, ToCome, Ahead, Position, Listed
    <3>4. Closes(c)'
      BY <1>5, <3>1, Facts DEF Closes
    <3> QED BY <3>2, <3>3, <3>4
  <2>2. CASE c \in InFlight
    <3>1. /\ call'[c].pc \in {"crashed", "lost"} /\ c \notin InFlight'
          /\ call'[c].pc = "crashed" => call[c].op = "job" /\ repo[call[c].repo] = "deleted"
          /\ call[c].pc # "idle"
      BY <1>4, <1>5, <2>2 DEF ends, InFlight
    <3>2. Sound(c)'
      <4>1. Sound(c)
        BY Facts
      <4> QED BY <1>4, <3>1, <4>1 DEF Sound, Syncs, NoBatch
    <3>3. Covered(c)'
      BY <3>1 DEF Covered, ToCome
    <3>4. Closes(c)'
      BY <3>1 DEF Closes
    <3> QED BY <3>2, <3>3, <3>4
  <2> QED BY <2>1, <2>2
<1>9. ClosedStaysApart'
  <2>1. SUFFICES ASSUME NEW c \in Calls, call'[c].op = "close", call'[c].pc = "done",
                        item[call'[c].id] = "open"
                 PROVE  \/ seen[c].moved
                        \/ \E d \in Calls : d \in seen[c].beside /\ call'[d].op \in {"job", "sync"}
    BY DEF ClosedStaysApart
  <2>2. call[c].pc = "done"
    BY <1>4, <2>1 DEF ends
  <2> QED BY <1>4, <2>1, <2>2 DEF SyncInv, ClosedStaysApart
<1> QED BY <1>6, <1>7, <1>8, <1>9 DEF SyncInv

\* A request is served.
LEMMA BeginFrame ==
  ASSUME SyncInv, NEW c \in Calls, NEW l \in Call, Begins(c, l),
         UNCHANGED <<repo, github, item, up, changes>>,
         job' \in [Calls -> {"none", "QUEUED", "RUNNING", "SUCCEEDED", "FAILED", "deleted"}],
         \A d \in Calls : d # c => job'[d] = job[d],
         l.pc \notin {"idle", "done"}, l.pc \notin {"item", "progress"},
         l.batch = NoBatch, Sound(c)',
         Syncs(c)' => l.pc \in {"begin", "page"} /\ l.page = 1,
         l.op = "close" => l.pc = "patch"
  PROVE  SyncInv'
<1> DEFINE mine == [due |-> Listed(l.repo), moved |-> FALSE, beside |-> InFlight]
           theirs(d) == [seen[d] EXCEPT !.beside = @ \union {c}]
<1>1. /\ call[c].pc = "idle" /\ call \in [Calls -> Call] /\ call' = [call EXCEPT ![c] = l]
      /\ seen' = [d \in Calls |-> CASE d = c -> mine
                                    [] d \in InFlight -> theirs(d)
                                    [] OTHER -> seen[d]]
  BY DEF Begins, Becomes, SyncInv, BacklogTypes
<1>2. /\ call' \in [Calls -> Call] /\ call'[c] = l
      /\ \A d \in Calls : d # c => call'[d] = call[d]
  BY <1>1
<1>3. c \notin InFlight /\ InFlight \subseteq Calls /\ InFlight' \subseteq InFlight \union {c}
  BY <1>1, <1>2 DEF InFlight
<1>4. /\ mine \in Seen
      /\ \A d \in Calls : theirs(d) \in Seen /\ theirs(d).due = seen[d].due
                          /\ theirs(d).moved = seen[d].moved
                          /\ theirs(d).beside = seen[d].beside \union {c}
  <2>1. mine \in Seen
    BY <1>3 DEF Seen, Listed
  <2>2. ASSUME NEW d \in Calls
        PROVE  /\ theirs(d) \in Seen /\ theirs(d).due = seen[d].due
               /\ theirs(d).moved = seen[d].moved
               /\ theirs(d).beside = seen[d].beside \union {c}
    <3>1. seen[d] \in Seen
      BY Facts
    <3> QED BY <3>1 DEF Seen
  <2> QED BY <2>1, <2>2
<1> HIDE DEF theirs, mine
<1>5. /\ seen' \in [Calls -> Seen] /\ seen'[c] = mine
      /\ \A d \in Calls : d # c => seen'[d] = IF d \in InFlight THEN theirs(d) ELSE seen[d]
  <2> DEFINE now(d) == CASE d = c -> mine [] d \in InFlight -> theirs(d) [] OTHER -> seen[d]
  <2>1. \A d \in Calls : seen[d] \in Seen
    BY Facts
  <2>2. /\ now(c) = mine
        /\ \A d \in Calls : d # c => now(d) = IF d \in InFlight THEN theirs(d) ELSE seen[d]
    <3>1. now(c) = mine
      BY <1>3
    <3>2. ASSUME NEW d \in Calls, d # c
          PROVE  now(d) = IF d \in InFlight THEN theirs(d) ELSE seen[d]
      BY <3>2
    <3> QED BY <3>1, <3>2
  <2>3. seen' = [d \in Calls |-> now(d)]
    BY <1>1
  <2> HIDE DEF now
  <2>4. \A d \in Calls : now(d) \in Seen
    BY <1>4, <2>1, <2>2
  <2> QED BY <2>2, <2>3, <2>4
<1>6. \A d \in Calls : d # c => /\ seen'[d].due = seen[d].due /\ seen'[d].moved = seen[d].moved
                                /\ seen[d].beside \subseteq seen'[d].beside
                                /\ seen'[d].beside \subseteq seen[d].beside \union {c}
                                /\ d \in InFlight => c \in seen'[d].beside
  BY <1>4, <1>5
<1>7. BacklogTypes'
  BY <1>2, <1>5 DEF SyncInv, BacklogTypes
<1>8. Together'
  <2>1. ASSUME NEW d \in InFlight', NEW e \in InFlight', d # e PROVE e \in seen'[d].beside
    <3>1. CASE d = c
      BY <1>3, <1>5, <2>1, <3>1 DEF mine
    <3>2. CASE d # c /\ e = c
      BY <1>3, <1>6, <2>1, <3>2
    <3>3. CASE d # c /\ e # c
      BY <1>3, <1>6, <2>1, <3>3 DEF SyncInv, Together
    <3> QED BY <3>1, <3>2, <3>3
  <2>2. ASSUME NEW d \in Calls, NEW e \in seen'[d].beside PROVE call'[e].pc # "idle"
    <3>1. CASE e = c
      BY <1>2, <3>1
    <3>2. CASE e # c
      <4>1. call[e].pc # "idle" /\ e \in Calls
        <5>1. CASE d = c
          BY <1>3, <1>5, <2>2, <5>1 DEF InFlight, mine
        <5>2. CASE d # c
          BY <1>6, <2>2, <3>2, <5>2, Facts DEF SyncInv, Together
        <5> QED BY <5>1, <5>2
      <4> QED BY <1>2, <3>2, <4>1
    <3> QED BY <3>1, <3>2
  <2> QED BY <2>1, <2>2 DEF Together
<1>9. ASSUME NEW d \in Calls, d # c PROVE Sound(d)' /\ Covered(d)' /\ Closes(d)'
  <2>1. /\ call'[d] = call[d] /\ job'[d] = job[d] /\ seen'[d].due = seen[d].due
        /\ seen'[d].moved = seen[d].moved /\ repo' = repo /\ item' = item /\ github' = github
        /\ (d \in InFlight') = (d \in InFlight) /\ seen[d].beside \subseteq seen'[d].beside
    BY <1>2, <1>6, <1>9 DEF InFlight
  <2>2. Sound(d)'
    <3>1. Sound(d)
      BY Facts
    <3> QED BY <2>1, <3>1 DEF Sound, JobThere, Syncs, Idle, NoBatch
  <2>3. Covered(d)'
    BY <2>1, Facts DEF Covered, Syncs, ToCome, Ahead, Position, Listed
  <2>4. Closes(d)'
    <3>1. \A e \in InFlight' : (e \in InFlight /\ call'[e] = call[e]) \/ call'[e].batch = NoBatch
      BY <1>2, <1>3
    <3>2. call[d].op = "close" => NoBatch[call[d].id] # "open"
      BY Facts DEF Sound, NoBatch
    <3> QED BY <2>1, <3>1, <3>2, Facts DEF Closes
  <2> QED BY <2>2, <2>3, <2>4
<1>10. Covered(c)'
  <2>1. SUFFICES ASSUME Syncs(c)'
                 PROVE  /\ Listed(l.repo) \subseteq Listed(l.repo)'
                        /\ \A i \in Listed(l.repo) : ToCome(c, i)'
    BY <1>2, <1>5 DEF Covered, mine
  <2>2. Listed(l.repo)' = Listed(l.repo)
    BY DEF Listed
  <2>3. \A i \in Listed(l.repo) : Ahead(i, 1)'
    <3>1. SUFFICES ASSUME NEW i \in Listed(l.repo) PROVE Ahead(i, 1)'
      OBVIOUS
    <3>2. i \in Issues /\ i \in Listed(RepoOf[i])
      BY DEF Listed
    <3>3. Position(i) \in Nat /\ Position(i) > 0
      BY <3>2, PositionKind
    <3>4. (1 - 1) * PageSize = 0
      BY BacklogAssumption
    <3>5. Position(i)' = Position(i)
      BY DEF Position, Listed
    <3> QED BY <3>3, <3>4, <3>5 DEF Ahead
  <2> QED BY <1>2, <2>1, <2>2, <2>3 DEF ToCome, Ahead
<1>11. Closes(c)'
  BY <1>2 DEF Closes
<1>12. ClosedStaysApart'
  <2>1. SUFFICES ASSUME NEW d \in Calls, call'[d].op = "close", call'[d].pc = "done",
                        item[call'[d].id] = "open", ~seen'[d].moved
                 PROVE  \E e \in Calls : e \in seen'[d].beside /\ call'[e].op \in {"job", "sync"}
    BY DEF ClosedStaysApart
  <2>2. d # c /\ call'[d] = call[d] /\ seen'[d].moved = seen[d].moved
    BY <1>2, <1>6, <2>1
  <2>3. PICK e \in Calls : e \in seen[d].beside /\ call[e].op \in {"job", "sync"}
    BY <2>1, <2>2 DEF SyncInv, ClosedStaysApart
  <2>4. e # c
    BY <1>1, <2>3 DEF SyncInv, Together
  <2> QED BY <1>2, <1>6, <2>2, <2>3, <2>4
<1> QED BY <1>7, <1>8, <1>9, <1>10, <1>11, <1>12 DEF SyncInv

-----------------------------------------------------------------------------
(* GitHub, repositories and the process                                    *)

\* No call takes a step: what calls know stays true, but for the marks of those
\* that have something taken from under them.
LEMMA OthersFrame ==
  ASSUME SyncInv, UNCHANGED call, BacklogTypes',
         \A c \in Calls : /\ seen'[c].due = seen[c].due /\ seen'[c].beside = seen[c].beside
                          /\ seen[c].moved => seen'[c].moved,
         \A c \in InFlight : ~seen'[c].moved =>
           \A i \in Issues : RepoOf[i] = call[c].repo /\ github[i] \in {"open", "closed"}
             => github'[i] \in {"open", "closed"},
         \A c \in Calls : ~seen'[c].moved =>
           \A i \in Issues : call[c].id = i /\ github[i] \in {"closed", "gone"}
             => github'[i] \in {"closed", "gone"},
         \A r \in Repos : repo[r] # "free" => repo'[r] = repo[r] \/ repo'[r] = "deleted",
         \A i \in Issues : item'[i] = item[i]
                           \/ (item'[i] = "none" /\ repo'[RepoOf[i]] = "deleted"),
         \A c \in Calls : JobThere(c) => JobThere(c)' \/ repo'[call[c].repo] = "deleted"
  PROVE  SyncInv'
<1>1. InFlight' = InFlight
  BY DEF InFlight
<1>2. Together'
  BY <1>1 DEF SyncInv, Together, InFlight
<1>3. ASSUME NEW c \in Calls PROVE Sound(c)' /\ Covered(c)' /\ Closes(c)'
  <2>1. /\ Sound(c) /\ Covered(c) /\ Closes(c) /\ seen[c].due \subseteq Issues
        /\ call[c].page \in Nat
    BY Facts
  <2>2. Sound(c)'
    <3>1. call[c].pc # "idle" => call[c].repo \in Repos
      BY <2>1 DEF Sound
    <3>2. Syncs(c) => call[c].pc # "idle"
      BY <2>1 DEF Sound, Syncs, Idle
    <3>3. call[c].pc # "idle" /\ repo[call[c].repo] = "deleted" => repo'[call[c].repo] = "deleted"
      BY <3>1
    <3>4. /\ call[c].op = "job" /\ c \in InFlight =>
               JobThere(c)' \/ repo'[call[c].repo] = "deleted"
          /\ call[c].pc = "crashed" => repo'[call[c].repo] = "deleted"
      BY <2>1, <3>3 DEF Sound, InFlight
    <3>5. Syncs(c) => repo'[call[c].repo] # "free"
      BY <2>1, <3>1, <3>2 DEF Sound
    <3>6. \A i \in seen'[c].due : RepoOf[i] = call[c].repo
      BY <2>1 DEF Sound
    <3> QED BY <1>1, <2>1, <3>4, <3>5, <3>6 DEF Sound, Syncs, Idle, NoBatch
  <2>3. Covered(c)'
    <3>1. SUFFICES ASSUME Syncs(c), repo'[call[c].repo] = "connected", ~seen'[c].moved
                   PROVE  /\ c \in InFlight => seen[c].due \subseteq Listed(call[c].repo)'
                          /\ \A i \in seen[c].due : item'[i] # "none" \/ ToCome(c, i)'
      BY <1>1 DEF Covered, Syncs
    <3>2. call[c].repo \in Repos /\ repo[call[c].repo] = "connected"
      BY <2>1, <3>1 DEF Sound, Syncs, Idle
    <3>3. /\ c \in InFlight => seen[c].due \subseteq Listed(call[c].repo)
          /\ \A i \in seen[c].due : item[i] # "none" \/ ToCome(c, i)
      BY <2>1, <3>1, <3>2 DEF Covered
    <3>4. c \in InFlight => Listed(call[c].repo) \subseteq Listed(call[c].repo)'
      BY <3>1 DEF Listed
    <3>5. ASSUME NEW i \in seen[c].due PROVE item'[i] # "none" \/ ToCome(c, i)'
      <4>1. i \in Issues /\ RepoOf[i] = call[c].repo
        BY <2>1, <3>5 DEF Sound
      <4>2. CASE item[i] # "none"
        BY <3>1, <4>1, <4>2
      <4>3. CASE ToCome(c, i)
        <5>1. PICK page \in Nat : page = call[c].page
          BY <2>1
        <5>2. c \in InFlight /\ Ahead(i, page) => Ahead(i, page)'
          BY <3>4, <4>1, Pushed
        <5>3. call[c].pc \in {"begin", "page", "item", "progress"} => c \in InFlight
          BY DEF InFlight, Ended
        <5> QED BY <4>3, <5>1, <5>2, <5>3 DEF ToCome, Ahead
      <4> QED BY <3>3, <3>5, <4>2, <4>3
    <3> QED BY <3>3, <3>4, <3>5
  <2>4. Closes(c)'
    <3>1. call[c].op = "close" => call[c].id \in Issues
      BY <2>1 DEF Sound
    <3> QED BY <1>1, <2>1, <3>1 DEF Closes
  <2> QED BY <2>2, <2>3, <2>4
<1>4. ClosedStaysApart'
  <2>1. SUFFICES ASSUME NEW c \in Calls, call[c].op = "close", call[c].pc = "done",
                        item'[call[c].id] = "open", ~seen'[c].moved
                 PROVE  \E d \in Calls : d \in seen'[c].beside /\ call[d].op \in {"job", "sync"}
    BY DEF ClosedStaysApart
  <2>2. call[c].id \in Issues
    BY <2>1, Facts DEF Sound
  <2>3. item[call[c].id] = "open" /\ ~seen[c].moved /\ seen'[c].beside = seen[c].beside
    BY <2>1, <2>2
  <2> QED BY <2>1, <2>3 DEF SyncInv, ClosedStaysApart
<1> QED BY <1>2, <1>3, <1>4 DEF SyncInv

LEMMA OpenIssueStep ==
  ASSUME SyncInv, NEW i \in Issues, OpenIssue(i)
  PROVE  SyncInv'
<1>1. /\ github' = [github EXCEPT ![i] = "open"] /\ github[i] = "absent"
      /\ changes' = changes + 1 /\ changes < MaxChanges
      /\ UNCHANGED <<repo, item, job, call, up, seen>>
  BY DEF OpenIssue, server
<1>2. BacklogTypes'
  BY <1>1, BacklogAssumption DEF SyncInv, BacklogTypes
<1>3. \A k \in Issues : k # i => github'[k] = github[k]
  BY <1>1, <1>2 DEF SyncInv, BacklogTypes
<1>4. /\ \A k \in Issues : github[k] \in {"open", "closed"} => github'[k] \in {"open", "closed"}
      /\ \A k \in Issues : github[k] \in {"closed", "gone"} => github'[k] \in {"closed", "gone"}
  BY <1>1, <1>3
<1>5. \A c \in Calls : JobThere(c) => JobThere(c)'
  BY <1>1 DEF JobThere
<1> QED BY <1>1, <1>2, <1>4, <1>5, OthersFrame

\* A step that marks calls as moved, and nothing else about them.
LEMMA Marks ==
  ASSUME SyncInv, NEW S \in SUBSET Calls,
         seen' = [c \in Calls |-> [seen[c] EXCEPT !.moved = @ \/ c \in S]]
  PROVE  /\ seen' \in [Calls -> Seen]
         /\ \A c \in Calls : /\ seen'[c].due = seen[c].due /\ seen'[c].beside = seen[c].beside
                             /\ seen'[c].moved = (seen[c].moved \/ c \in S)
<1> DEFINE now(c) == [seen[c] EXCEPT !.moved = @ \/ c \in S]
<1>1. ASSUME NEW c \in Calls
      PROVE  /\ now(c) \in Seen /\ now(c).due = seen[c].due /\ now(c).beside = seen[c].beside
             /\ now(c).moved = (seen[c].moved \/ c \in S)
  <2>1. seen[c] \in Seen
    BY Facts
  <2> QED BY <2>1 DEF Seen
<1>2. seen' = [c \in Calls |-> now(c)]
  OBVIOUS
<1> HIDE DEF now
<1> QED BY <1>1, <1>2

LEMMA ChangeIssueStep ==
  ASSUME SyncInv, NEW i \in Issues, ChangeIssue(i)
  PROVE  SyncInv'
<1>1. /\ changes' = changes + 1 /\ changes < MaxChanges
      /\ UNCHANGED <<repo, item, job, call, up>>
  BY DEF ChangeIssue, server
<1>2. github \in [Issues -> {"absent", "open", "closed", "gone"}]
  BY DEF SyncInv, BacklogTypes
<1>3. \A c \in Calls : JobThere(c) => JobThere(c)'
  BY <1>1 DEF JobThere
<1>4. CASE github[i] = "open" /\ github' = [github EXCEPT ![i] = "closed"] /\ UNCHANGED seen
  <2>1. BacklogTypes'
    BY <1>1, <1>4, BacklogAssumption DEF SyncInv, BacklogTypes
  <2>2. /\ \A k \in Issues : github[k] \in {"open", "closed"} => github'[k] \in {"open", "closed"}
        /\ \A k \in Issues : github[k] \in {"closed", "gone"} => github'[k] \in {"closed", "gone"}
    BY <1>2, <1>4
  <2> QED BY <1>1, <1>3, <1>4, <2>1, <2>2, OthersFrame
<1>5. CASE /\ github[i] = "closed" /\ github' = [github EXCEPT ![i] = "open"]
           /\ seen' = [c \in Calls |-> [seen[c] EXCEPT !.moved = @ \/ call[c].id = i]]
  <2> DEFINE S == {c \in Calls : call[c].id = i}
  <2>1. seen' = [c \in Calls |-> [seen[c] EXCEPT !.moved = @ \/ c \in S]]
    BY <1>5
  <2>2. /\ seen' \in [Calls -> Seen]
        /\ \A c \in Calls : /\ seen'[c].due = seen[c].due /\ seen'[c].beside = seen[c].beside
                            /\ seen'[c].moved = (seen[c].moved \/ c \in S)
    BY <2>1, Marks
  <2>3. BacklogTypes'
    BY <1>1, <1>5, <2>2, BacklogAssumption DEF SyncInv, BacklogTypes
  <2>4. \A k \in Issues : github[k] \in {"open", "closed"} => github'[k] \in {"open", "closed"}
    BY <1>2, <1>5
  <2>5. \A c \in Calls : ~seen'[c].moved =>
          \A k \in Issues : call[c].id = k /\ github[k] \in {"closed", "gone"}
            => github'[k] \in {"closed", "gone"}
    BY <1>2, <1>5, <2>2
  <2>6. \A c \in Calls : seen[c].moved => seen'[c].moved
    BY <2>2
  <2> HIDE DEF S
  <2> QED BY <1>1, <1>3, <2>2, <2>3, <2>4, <2>5, <2>6, OthersFrame
<1> QED BY <1>4, <1>5 DEF ChangeIssue

LEMMA RemoveIssueStep ==
  ASSUME SyncInv, NEW i \in Issues, RemoveIssue(i)
  PROVE  SyncInv'
<1> DEFINE S == {c \in InFlight : call[c].repo = RepoOf[i]}
<1>1. /\ changes' = changes + 1 /\ changes < MaxChanges
      /\ UNCHANGED <<repo, item, job, call, up>>
      /\ github[i] \in {"open", "closed"} /\ github' = [github EXCEPT ![i] = "gone"]
  BY DEF RemoveIssue, server
<1>2. github \in [Issues -> {"absent", "open", "closed", "gone"}]
  BY DEF SyncInv, BacklogTypes
<1>3. \A c \in Calls : JobThere(c) => JobThere(c)'
  BY <1>1 DEF JobThere
<1>4. /\ seen' = [c \in Calls |-> [seen[c] EXCEPT !.moved = @ \/ c \in S]]
      /\ S \in SUBSET Calls
  BY DEF RemoveIssue, InFlight
<1>5. /\ seen' \in [Calls -> Seen]
      /\ \A c \in Calls : /\ seen'[c].due = seen[c].due /\ seen'[c].beside = seen[c].beside
                          /\ seen'[c].moved = (seen[c].moved \/ c \in S)
  BY <1>4, Marks
<1>6. BacklogTypes'
  BY <1>1, <1>5, BacklogAssumption DEF SyncInv, BacklogTypes
<1>7. \A k \in Issues : k # i => github'[k] = github[k]
  BY <1>1, <1>2
<1>8. \A c \in InFlight : ~seen'[c].moved =>
        \A k \in Issues : RepoOf[k] = call[c].repo /\ github[k] \in {"open", "closed"}
          => github'[k] \in {"open", "closed"}
  BY <1>5, <1>7 DEF InFlight
<1>9. \A k \in Issues : github[k] \in {"closed", "gone"} => github'[k] \in {"closed", "gone"}
  BY <1>1, <1>2
<1>10. \A c \in Calls : seen[c].moved => seen'[c].moved
  BY <1>5
<1> HIDE DEF S
<1> QED BY <1>1, <1>3, <1>5, <1>6, <1>8, <1>9, <1>10, OthersFrame

LEMMA ConnectStep ==
  ASSUME SyncInv, NEW r \in Repos, Connect(r)
  PROVE  SyncInv'
<1>1. /\ repo[r] = "free" /\ repo' = [repo EXCEPT ![r] = "connected"]
      /\ UNCHANGED <<github, item, job, call, up, changes, seen>>
  BY DEF Connect
<1>2. BacklogTypes'
  BY <1>1 DEF SyncInv, BacklogTypes
<1>3. \A k \in Repos : repo[k] # "free" => repo'[k] = repo[k]
  BY <1>1 DEF SyncInv, BacklogTypes
<1>4. \A c \in Calls : JobThere(c) => JobThere(c)'
  BY <1>1 DEF JobThere
<1> QED BY <1>1, <1>2, <1>3, <1>4, OthersFrame

LEMMA DisconnectStep ==
  ASSUME SyncInv, NEW r \in Repos, Disconnect(r)
  PROVE  SyncInv'
<1>1. /\ repo[r] = "connected" /\ repo' = [repo EXCEPT ![r] = "deleted"]
      /\ item' = ItemsWithout(r) /\ job' = JobsWithout(r)
      /\ UNCHANGED <<github, call, up, changes, seen>>
  BY DEF Disconnect
<1>2. /\ repo \in [Repos -> {"free", "connected", "deleted"}]
      /\ item \in [Issues -> {"none", "open", "closed"}]
      /\ job \in [Calls -> {"none", "QUEUED", "RUNNING", "SUCCEEDED", "FAILED", "deleted"}]
  BY DEF SyncInv, BacklogTypes
<1>3. repo'[r] = "deleted" /\ \A k \in Repos : repo'[k] = repo[k] \/ repo'[k] = "deleted"
  BY <1>1, <1>2
<1>4. /\ item' \in [Issues -> {"none", "open", "closed"}]
      /\ \A i \in Issues : item'[i] = item[i]
                           \/ (item'[i] = "none" /\ repo'[RepoOf[i]] = "deleted")
  BY <1>1, <1>2, <1>3 DEF ItemsWithout
<1>5. /\ job' \in [Calls -> {"none", "QUEUED", "RUNNING", "SUCCEEDED", "FAILED", "deleted"}]
      /\ \A c \in Calls : JobThere(c) => JobThere(c)' \/ repo'[call[c].repo] = "deleted"
  BY <1>1, <1>2, <1>3 DEF JobsWithout, JobThere
<1>6. BacklogTypes'
  BY <1>1, <1>2, <1>4, <1>5 DEF SyncInv, BacklogTypes
<1> QED BY <1>1, <1>3, <1>4, <1>5, <1>6, OthersFrame

LEMMA OthersStep ==
  ASSUME SyncInv, Others
  PROVE  SyncInv'
<1>1. CASE Kill
  <2>1. UNCHANGED <<repo, github, item, job, changes, seen>> /\ Dies({})
    BY <1>1 DEF Kill, server
  <2> QED BY <2>1, DieFrame
<1>2. CASE Start
  <2>1. up' = TRUE /\ UNCHANGED <<repo, github, item, job, call, changes, seen>>
    BY <1>2 DEF Start, server
  <2>2. BacklogTypes' /\ \A c \in Calls : JobThere(c) => JobThere(c)'
    BY <2>1 DEF SyncInv, BacklogTypes, JobThere
  <2> QED BY <2>1, <2>2, OthersFrame
<1> QED BY <1>1, <1>2, OpenIssueStep, ChangeIssueStep, RemoveIssueStep, ConnectStep,
           DisconnectStep DEF Others

-----------------------------------------------------------------------------
(* Synchronisation                                                         *)

LEMMA StartSyncStep ==
  ASSUME SyncInv, NEW c \in Calls, StartSync(c)
  PROVE  SyncInv'
<1>1. PICK r \in Repos, op \in {"job", "sync"} :
        /\ repo[r] = "connected"
        /\ Begins(c, [Idle EXCEPT !.op = op, !.repo = r,
                                  !.pc = IF op = "job" THEN "begin" ELSE "page"])
        /\ job' = IF op = "job" THEN [job EXCEPT ![c] = "QUEUED"] ELSE job
  BY DEF StartSync
<1> DEFINE l == [Idle EXCEPT !.op = op, !.repo = r,
                             !.pc = IF op = "job" THEN "begin" ELSE "page"]
<1>2. NoBatch \in [Issues -> {"none", "open", "closed"}]
  BY DEF NoBatch
<1>3. /\ l \in Call /\ l.op = op /\ l.repo = r /\ l.page = 1 /\ l.batch = NoBatch
      /\ l.pc = IF op = "job" THEN "begin" ELSE "page"
  BY <1>2 DEF Call, Idle, Pc
<1> HIDE DEF l
<1>4. Begins(c, l)
  BY <1>1 DEF l
<1>5. UNCHANGED <<repo, github, item, up, changes>>
  BY DEF StartSync
<1>6. /\ job' \in [Calls -> {"none", "QUEUED", "RUNNING", "SUCCEEDED", "FAILED", "deleted"}]
      /\ \A d \in Calls : d # c => job'[d] = job[d]
      /\ op = "job" => job'[c] = "QUEUED"
  BY <1>1, Facts
<1>7. call'[c] = l /\ seen'[c].due = Listed(r)
  <2>1. c \notin InFlight
    BY <1>4 DEF Begins, InFlight
  <2> QED BY <1>3, <1>4, <2>1, Facts DEF Begins, Becomes
<1>8. Sound(c)'
  BY <1>1, <1>3, <1>5, <1>6, <1>7 DEF Sound, Syncs, JobThere, Listed
<1> QED BY <1>3, <1>4, <1>5, <1>6, <1>7, <1>8, BeginFrame DEF Syncs

LEMMA StartCloseStep ==
  ASSUME SyncInv, NEW c \in Calls, StartClose(c)
  PROVE  SyncInv'
<1>1. PICK i \in Issues :
        Begins(c, [Idle EXCEPT !.op = "close", !.repo = RepoOf[i], !.id = i, !.pc = "patch"])
  BY DEF StartClose
<1> DEFINE l == [Idle EXCEPT !.op = "close", !.repo = RepoOf[i], !.id = i, !.pc = "patch"]
<1>2. NoBatch \in [Issues -> {"none", "open", "closed"}] /\ RepoOf[i] \in Repos
  BY BacklogAssumption DEF NoBatch
<1>3. /\ l \in Call /\ l.op = "close" /\ l.repo = RepoOf[i] /\ l.id = i /\ l.batch = NoBatch
      /\ l.pc = "patch"
  BY <1>2 DEF Call, Idle, Pc
<1> HIDE DEF l
<1>4. Begins(c, l)
  BY <1>1 DEF l
<1>5. UNCHANGED <<repo, github, item, job, up, changes>>
  BY DEF StartClose, server
<1>6. call'[c] = l /\ seen'[c].due = Listed(RepoOf[i])
  <2>1. c \notin InFlight
    BY <1>4 DEF Begins, InFlight
  <2> QED BY <1>3, <1>4, <2>1, Facts DEF Begins, Becomes
<1>7. NoBatch' = NoBatch
  BY DEF NoBatch
<1>8. Sound(c)'
  BY <1>2, <1>3, <1>6, <1>7 DEF Sound, Syncs, Listed
<1> QED BY <1>3, <1>4, <1>5, <1>6, <1>8, Facts, BeginFrame DEF Syncs

\* A step of a call that changes only where it stands and, for a job, its row.
LEMMA GoesFrame ==
  ASSUME SyncInv, NEW c \in InFlight, NEW pc \in Pc, Goes(c, pc),
         UNCHANGED <<repo, github, item, up, changes, seen>>,
         job' \in [Calls -> {"none", "QUEUED", "RUNNING", "SUCCEEDED", "FAILED", "deleted"}],
         \A d \in Calls : d # c => job'[d] = job[d],
         pc \notin {"idle", "crashed", "patch", "closeRow"}, call[c].op # "close",
         pc \in {"begin", "finish", "fail"} => call[c].op = "job",
         call[c].op = "job" /\ pc \notin Ended =>
           job'[c] \in {"QUEUED", "RUNNING"} \/ repo[call[c].repo] = "deleted",
         repo[call[c].repo] = "connected" /\ ~seen[c].moved =>
           \A i \in seen[c].due :
             item[i] # "none" \/ (ToCome(c, i) => ToCome(c, i)')
  PROVE  SyncInv'
<1> DEFINE l == [call[c] EXCEPT !.pc = pc]
<1>1. c \in Calls /\ call[c] \in Call /\ Sound(c) /\ Covered(c) /\ call[c].op \notin {"none", "close"}
      /\ call[c].repo \in Repos
  BY Facts DEF InFlight, Sound, Call
<1>2. /\ l \in Call /\ l.op = call[c].op /\ l.repo = call[c].repo /\ l.id = call[c].id
      /\ l.batch = call[c].batch /\ l.more = call[c].more /\ l.page = call[c].page /\ l.pc = pc
  BY <1>1 DEF Call
<1> HIDE DEF l
<1>3. Becomes(c, l)
  BY DEF Goes, l
<1>4. call'[c] = l /\ (c \in InFlight' => pc \notin Ended)
  BY <1>1, <1>2, <1>3, Facts DEF Becomes, InFlight
<1>5. Sound(c)'
  <2>1. call[c].op # "job" => Syncs(c)
    BY <1>1 DEF Syncs, Call
  <2> QED BY <1>1, <1>2, <1>4 DEF Sound, Syncs, JobThere
<1>6. Covered(c)'
  <2>1. Syncs(c)
    BY <1>1 DEF Syncs, Call
  <2>2. SUFFICES ASSUME repo[call[c].repo] = "connected", ~seen[c].moved
                 PROVE  /\ seen[c].due \subseteq Listed(call[c].repo)
                        /\ \A i \in seen[c].due : item[i] # "none" \/ ToCome(c, i)'
    BY <1>2, <1>4 DEF Covered, Listed
  <2> QED BY <1>1, <2>1, <2>2 DEF Covered
<1>7. Closes(c)'
  BY <1>1, <1>2, <1>4 DEF Closes
<1>8. /\ github' \in [Issues -> {"absent", "open", "closed", "gone"}]
      /\ item' \in [Issues -> {"none", "open", "closed"}]
  BY <1>1, Facts
<1> QED BY <1>1, <1>2, <1>3, <1>5, <1>6, <1>7, <1>8, ServeFrame

\* What a step of a sync says of itself.
LEMMA Serving ==
  ASSUME SyncInv, NEW c \in Calls, call[c].pc \in Pc \ ({"idle"} \union Ended)
  PROVE  /\ c \in InFlight
         /\ call[c].pc \notin {"patch", "closeRow"} => Syncs(c)
         /\ call[c].repo \in Repos
         /\ call[c].op = "job" => JobThere(c) \/ repo[call[c].repo] = "deleted"
<1>1. c \in InFlight
  BY DEF InFlight
<1>2. Sound(c) /\ call[c].op \in {"none", "job", "sync", "close"}
  BY Facts DEF Call
<1> QED BY <1>1, <1>2 DEF Sound, Syncs, Ended

\* The sync throws: its request fails, or its job goes to the catch block.
LEMMA FailsStep ==
  ASSUME SyncInv, NEW c \in InFlight, Syncs(c), Fails(c),
         UNCHANGED <<repo, github, item, job, up, changes, seen>>
  PROVE  SyncInv'
<1> DEFINE pc == Throws(call[c])
<1>1. /\ pc \in {"fail", "failed"} /\ (pc = "fail" => call[c].op = "job") /\ Goes(c, pc)
      /\ call[c].op # "close"
  BY DEF Throws, Fails, Syncs
<1> HIDE DEF pc
<1>2. c \in Calls /\ call[c] \in Call /\ call \in [Calls -> Call]
  BY Facts DEF InFlight
<1>3. call'[c].pc = pc
  BY <1>1, <1>2 DEF Goes, Becomes, Call
<1>4. call[c].op = "job" => job[c] \in {"QUEUED", "RUNNING"} \/ repo[call[c].repo] = "deleted"
  <2>1. Sound(c)
    BY <1>2, Facts
  <2> QED BY <2>1 DEF Sound, JobThere
<1>5. \A i \in seen[c].due : ToCome(c, i)'
  BY <1>1, <1>3 DEF ToCome
<1>6. pc \in Pc
  BY <1>1 DEF Pc
<1> QED BY <1>1, <1>2, <1>4, <1>5, <1>6, Facts, GoesFrame

\* A step to a later place that leaves nothing behind.
LEMMA OnStep ==
  ASSUME SyncInv, NEW c \in InFlight, Syncs(c), NEW pc \in {"page", "progress", "stamp", "finish", "done"},
         Goes(c, pc), UNCHANGED <<repo, github, item, up, changes, seen>>,
         job' = job \/ \E s \in {"RUNNING", "SUCCEEDED"} : job' = [job EXCEPT ![c] = s],
         pc = "finish" => call[c].op = "job",
         JobThere(c) /\ pc # "done" => job'[c] \in {"QUEUED", "RUNNING"},
         \A i \in seen[c].due : ToCome(c, i) => ToCome(c, i)'
  PROVE  SyncInv'
<1>1. c \in Calls /\ call[c].op # "close"
  BY DEF InFlight, Syncs
<1>2. /\ job' \in [Calls -> {"none", "QUEUED", "RUNNING", "SUCCEEDED", "FAILED", "deleted"}]
      /\ \A d \in Calls : d # c => job'[d] = job[d]
  BY <1>1, Facts
<1>3. call[c].op = "job" /\ pc \notin Ended =>
        job'[c] \in {"QUEUED", "RUNNING"} \/ repo[call[c].repo] = "deleted"
  <2>1. Sound(c)
    BY <1>1, Facts
  <2> QED BY <2>1 DEF Sound, Ended
<1>4. pc \in Pc
  BY DEF Pc
<1> QED BY <1>1, <1>2, <1>3, <1>4, GoesFrame

LEMMA BeginStep ==
  ASSUME SyncInv, NEW c \in Calls, Begin(c)
  PROVE  SyncInv'
<1>1. call[c].pc = "begin" /\ UNCHANGED <<repo, item, github, changes, seen>>
  BY DEF Begin
<1>2. /\ c \in InFlight /\ Syncs(c)
      /\ call[c].op = "job" => JobThere(c) \/ repo[call[c].repo] = "deleted"
  BY <1>1, Serving DEF Pc, Ended
<1>3. Sound(c) /\ call \in [Calls -> Call]
  BY Facts
<1>4. CASE JobThere(c)
  <2>1. job' = [job EXCEPT ![c] = "RUNNING"] /\ Goes(c, "page") /\ UNCHANGED up
    BY <1>4 DEF Begin
  <2>2. job'[c] = "RUNNING"
    BY <2>1, Facts
  <2>3. /\ call'[c].pc = "page" /\ call'[c].page = call[c].page
        /\ github' = github
    BY <1>1, <1>3, <2>1 DEF Goes, Becomes, Call
  <2>4. \A i \in seen[c].due : ToCome(c, i) => ToCome(c, i)'
    BY <1>1, <2>3 DEF ToCome, Ahead, Position, Listed
  <2> QED BY <1>1, <1>2, <2>1, <2>2, <2>4, OnStep
<1>5. CASE ~JobThere(c)
  <2>1. Dies({c}) /\ UNCHANGED job
    BY <1>5 DEF Begin
  <2>2. call[c].op = "job" /\ repo[call[c].repo] = "deleted"
    BY <1>1, <1>2, <1>3, <1>5 DEF Sound
  <2> QED BY <1>1, <2>1, <2>2, DieFrame
<1> QED BY <1>4, <1>5

LEMMA MarkFailedStep ==
  ASSUME SyncInv, NEW c \in Calls, MarkFailed(c)
  PROVE  SyncInv'
<1>1. call[c].pc = "fail" /\ UNCHANGED <<repo, item, github, changes, seen>>
  BY DEF MarkFailed
<1>2. /\ c \in InFlight /\ Syncs(c)
      /\ call[c].op = "job" => JobThere(c) \/ repo[call[c].repo] = "deleted"
  BY <1>1, Serving DEF Pc, Ended
<1>3. Sound(c) /\ call \in [Calls -> Call]
  BY Facts
<1>4. CASE JobThere(c)
  <2>1. job' = [job EXCEPT ![c] = "FAILED"] /\ Goes(c, "failed") /\ UNCHANGED up
    BY <1>4 DEF MarkFailed
  <2>2. call'[c].pc = "failed"
    BY <1>1, <1>3, <2>1 DEF Goes, Becomes, Call
  <2>3. \A i \in seen[c].due : ToCome(c, i)'
    BY <2>2 DEF ToCome
  <2>4. /\ job' \in [Calls -> {"none", "QUEUED", "RUNNING", "SUCCEEDED", "FAILED", "deleted"}]
        /\ \A d \in Calls : d # c => job'[d] = job[d]
    BY <2>1, Facts
  <2>5. "failed" \in Pc /\ "failed" \in Ended /\ call[c].op # "close"
    BY <1>2 DEF Pc, Ended, Syncs
  <2> QED BY <1>1, <1>2, <2>1, <2>3, <2>4, <2>5, GoesFrame
<1>5. CASE ~JobThere(c)
  <2>1. Dies({c}) /\ UNCHANGED job
    BY <1>5 DEF MarkFailed
  <2>2. call[c].op = "job" /\ repo[call[c].repo] = "deleted"
    BY <1>1, <1>2, <1>3, <1>5 DEF Sound
  <2> QED BY <1>1, <2>1, <2>2, DieFrame
<1> QED BY <1>4, <1>5

LEMMA ProgressStep ==
  ASSUME SyncInv, NEW c \in Calls, Progress(c)
  PROVE  SyncInv'
<1>1. call[c].pc = "progress" /\ UNCHANGED <<repo, item, job, github, up, changes, seen>>
  BY DEF Progress, server
<1>2. c \in InFlight /\ Syncs(c)
  BY <1>1, Serving DEF Pc, Ended
<1>3. CASE Fails(c)
  BY <1>1, <1>2, <1>3, FailsStep
<1>4. CASE Goes(c, IF call[c].more THEN "page" ELSE "stamp")
  <2> DEFINE pc == IF call[c].more THEN "page" ELSE "stamp"
  <2>1. call'[c] = [call[c] EXCEPT !.pc = pc] /\ call[c] \in Call
    BY <1>4, Facts DEF Goes, Becomes
  <2>2. call'[c].pc = pc /\ call'[c].page = call[c].page /\ github' = github
    BY <1>1, <2>1 DEF Call
  <2>3. \A i \in seen[c].due : ToCome(c, i) => ToCome(c, i)'
    BY <1>1, <2>2 DEF ToCome, Ahead, Position, Listed
  <2>4. pc \in {"page", "stamp"} /\ Goes(c, pc)
    BY <1>4
  <2> HIDE DEF pc
  <2> QED BY <1>1, <1>2, <2>3, <2>4, OnStep DEF JobThere
<1> QED BY <1>3, <1>4 DEF Progress

LEMMA StampStep ==
  ASSUME SyncInv, NEW c \in Calls, Stamp(c)
  PROVE  SyncInv'
<1>1. call[c].pc = "stamp" /\ UNCHANGED <<repo, item, job, github, up, changes, seen>>
  BY DEF Stamp, server
<1>2. c \in InFlight /\ Syncs(c)
  BY <1>1, Serving DEF Pc, Ended
<1>3. CASE Fails(c)
  BY <1>1, <1>2, <1>3, FailsStep
<1>4. CASE Goes(c, IF call[c].op = "job" THEN "finish" ELSE "done")
  <2> DEFINE pc == IF call[c].op = "job" THEN "finish" ELSE "done"
  <2>1. \A i \in seen[c].due : ~ToCome(c, i)
    BY <1>1 DEF ToCome
  <2>2. pc \in {"finish", "done"} /\ (pc = "finish" => call[c].op = "job") /\ Goes(c, pc)
    BY <1>4
  <2> HIDE DEF pc
  <2> QED BY <1>1, <1>2, <2>1, <2>2, OnStep DEF JobThere
<1> QED BY <1>3, <1>4 DEF Stamp

LEMMA FinishStep ==
  ASSUME SyncInv, NEW c \in Calls, Finish(c)
  PROVE  SyncInv'
<1>1. call[c].pc = "finish" /\ UNCHANGED <<repo, item, github, up, changes, seen>>
  BY DEF Finish
<1>2. c \in InFlight /\ Syncs(c)
  BY <1>1, Serving DEF Pc, Ended
<1>3. CASE Fails(c) /\ UNCHANGED job
  BY <1>1, <1>2, <1>3, FailsStep
<1>4. CASE job' = [job EXCEPT ![c] = "SUCCEEDED"] /\ Goes(c, "done")
  <2>1. \A i \in seen[c].due : ~ToCome(c, i)
    BY <1>1 DEF ToCome
  <2> QED BY <1>1, <1>2, <1>4, <2>1, OnStep
<1> QED BY <1>3, <1>4 DEF Finish

\* An issue that is still ahead is on this page, or there is a next page and it
\* is ahead of that one.
LEMMA Turning ==
  ASSUME NEW i \in Issues, NEW page \in Nat, i \in Listed(RepoOf[i]), Ahead(i, page)
  PROVE  \/ OnPage(i, page)
         \/ HasNext(RepoOf[i], page) /\ Ahead(i, Following(page))
<1> DEFINE through == page * PageSize
<1>1. RepoOf[i] \in Repos /\ through \in Nat
  BY BacklogAssumption
<1>2. /\ Position(i) \in Nat /\ Cardinality(Listed(RepoOf[i])) \in Nat
      /\ Position(i) <= Cardinality(Listed(RepoOf[i]))
  BY <1>1, PositionKind
<1>3. OnPage(i, page) <=> Ahead(i, page) /\ Position(i) <= through
  BY DEF OnPage
<1>4. HasNext(RepoOf[i], page) <=> Cardinality(Listed(RepoOf[i])) > through
  BY DEF HasNext
<1>5. Ahead(i, Following(page)) <=> Position(i) > through
  <2>1. (page + 1) - 1 = page
    OBVIOUS
  <2> QED BY <2>1 DEF Ahead, Following
<1> HIDE DEF through
<1> QED BY <1>1, <1>2, <1>3, <1>4, <1>5

\* What a page says of an issue is what GitHub says.
LEMMA AnswerKind ==
  ASSUME SyncInv, NEW r \in Repos, NEW page \in Nat
  PROVE  /\ Answer(r, page) \in [Issues -> {"none", "open", "closed"}]
         /\ \A i \in Issues : /\ Answer(r, page)[i] = "open" => github[i] = "open"
                              /\ i \in Listed(r) /\ OnPage(i, page) => Answer(r, page)[i] # "none"
  BY DEF Answer, Listed

LEMMA FetchPageStep ==
  ASSUME SyncInv, NEW c \in Calls, FetchPage(c)
  PROVE  SyncInv'
<1>1. call[c].pc = "page" /\ UNCHANGED <<repo, item, job, github, up, changes, seen>>
  BY DEF FetchPage, server
<1>2. c \in InFlight /\ Syncs(c) /\ call[c].repo \in Repos
  BY <1>1, Serving DEF Pc, Ended
<1>3. CASE Fails(c)
  BY <1>1, <1>2, <1>3, FailsStep
<1>4. CASE Becomes(c, [call[c] EXCEPT !.pc = "item",
                                      !.batch = Answer(call[c].repo, call[c].page),
                                      !.more = HasNext(call[c].repo, call[c].page),
                                      !.page = Following(call[c].page)])
  <2> DEFINE r == call[c].repo
             page == call[c].page
             l == [call[c] EXCEPT !.pc = "item", !.batch = Answer(r, page),
                                  !.more = HasNext(r, page), !.page = Following(page)]
  <2>1. Sound(c) /\ Covered(c) /\ call[c] \in Call /\ call \in [Calls -> Call] /\ page \in Nat
    BY Facts
  <2>2. /\ Answer(r, page) \in [Issues -> {"none", "open", "closed"}]
        /\ \A i \in Issues : Answer(r, page)[i] = "open" => github[i] = "open"
        /\ \A i \in Issues : i \in Listed(r) /\ OnPage(i, page) => Answer(r, page)[i] # "none"
    BY <1>2, <2>1, AnswerKind
  <2>3. HasNext(r, page) \in BOOLEAN /\ Following(page) \in Nat
    BY <2>1 DEF HasNext, Following
  <2>4. /\ l \in Call /\ l.op = call[c].op /\ l.repo = r /\ l.id = call[c].id /\ l.pc = "item"
        /\ l.batch = Answer(r, page) /\ l.more = HasNext(r, page) /\ l.page = Following(page)
    BY <2>1, <2>2, <2>3 DEF Call, Pc
  <2>5. Becomes(c, l)
    BY <1>4
  <2> HIDE DEF l
  <2>6. call'[c] = l /\ c \in InFlight'
    BY <2>1, <2>4, <2>5 DEF Becomes, InFlight, Ended
  <2>7. Sound(c)'
    BY <1>1, <1>2, <2>1, <2>4, <2>6 DEF Sound, Syncs, JobThere
  <2>8. Covered(c)'
    <3>1. SUFFICES ASSUME repo[r] = "connected", ~seen[c].moved
                   PROVE  /\ seen[c].due \subseteq Listed(r)
                          /\ \A i \in seen[c].due : item[i] # "none" \/ ToCome(c, i)'
      BY <1>1, <2>4, <2>6 DEF Covered, Listed
    <3>2. /\ seen[c].due \subseteq Listed(r)
          /\ \A i \in seen[c].due : item[i] # "none" \/ ToCome(c, i)
      BY <1>2, <2>1, <3>1 DEF Covered
    <3>3. ASSUME NEW i \in seen[c].due, ToCome(c, i) PROVE ToCome(c, i)'
      <4>1. i \in Issues /\ i \in Listed(r) /\ RepoOf[i] = r
        BY <3>2 DEF Listed
      <4>2. Ahead(i, page)
        BY <1>1, <3>3 DEF ToCome
      <4>3. OnPage(i, page) \/ (HasNext(r, page) /\ Ahead(i, Following(page)))
        BY <2>1, <4>1, <4>2, Turning
      <4>4. PICK next \in Nat : next = Following(page)
        BY <2>3
      <4>5. Ahead(i, next) => Ahead(i, next)'
        BY <1>1 DEF Ahead, Position, Listed
      <4>6. /\ call'[c].pc = "item" /\ call'[c].batch = Answer(r, page)
            /\ call'[c].more = HasNext(r, page) /\ call'[c].page = next
        BY <2>4, <2>6, <4>4
      <4> QED BY <2>2, <4>1, <4>3, <4>4, <4>5, <4>6 DEF ToCome, Ahead
    <3> QED BY <3>2, <3>3
  <2>9. l.op # "close"
    BY <1>2, <2>4 DEF Syncs
  <2>10. Closes(c)'
    BY <2>6, <2>9 DEF Closes
  <2> QED BY <1>1, <1>2, <2>2, <2>4, <2>5, <2>7, <2>8, <2>9, <2>10, Facts, ServeFrame
<1> QED BY <1>3, <1>4 DEF FetchPage

LEMMA UpsertStep ==
  ASSUME SyncInv, NEW c \in Calls, Upsert(c)
  PROVE  SyncInv'
<1> DEFINE left == {i \in Issues : call[c].batch[i] # "none"}
<1>1. call[c].pc = "item" /\ UNCHANGED <<repo, job, github, up, changes, seen>>
  BY DEF Upsert
<1>2. c \in InFlight /\ Syncs(c) /\ call[c].repo \in Repos
  BY <1>1, Serving DEF Pc, Ended
<1>3. Sound(c) /\ Covered(c) /\ call[c] \in Call /\ call \in [Calls -> Call]
  BY Facts
<1>4. \/ left = {} /\ Goes(c, "progress") /\ UNCHANGED item
      \/ Fails(c) /\ UNCHANGED item
      \/ \E i \in left : /\ item' = [item EXCEPT ![i] = call[c].batch[i]]
                         /\ Becomes(c, [call[c] EXCEPT !.batch[i] = "none"])
  BY DEF Upsert
<1>5. CASE left = {} /\ Goes(c, "progress") /\ UNCHANGED item
  <2>1. call'[c].pc = "progress" /\ call'[c].page = call[c].page /\ call'[c].more = call[c].more
    BY <1>3, <1>5 DEF Goes, Becomes, Call
  <2>2. ASSUME NEW i \in seen[c].due, ToCome(c, i) PROVE ToCome(c, i)'
    <3>1. i \in Issues /\ call[c].batch[i] = "none"
      BY <1>5, Facts
    <3>2. call[c].more /\ Ahead(i, call[c].page)
      BY <1>1, <2>2, <3>1 DEF ToCome
    <3> QED BY <1>1, <2>1, <3>2 DEF ToCome, Ahead, Position, Listed
  <2> QED BY <1>1, <1>2, <1>5, <2>2, OnStep DEF JobThere
<1>6. CASE Fails(c) /\ UNCHANGED item
  BY <1>1, <1>2, <1>6, FailsStep
<1>7. ASSUME NEW i \in left, item' = [item EXCEPT ![i] = call[c].batch[i]],
             Becomes(c, [call[c] EXCEPT !.batch[i] = "none"])
      PROVE  SyncInv'
  <2> DEFINE l == [call[c] EXCEPT !.batch[i] = "none"]
  <2>1. /\ i \in Issues /\ call[c].batch[i] \in {"open", "closed"}
        /\ call[c].batch \in [Issues -> {"none", "open", "closed"}]
    BY <1>7, Facts
  <2>2. /\ l \in Call /\ l.op = call[c].op /\ l.repo = call[c].repo /\ l.id = call[c].id
        /\ l.pc = "item" /\ l.page = call[c].page /\ l.more = call[c].more
        /\ l.batch = [call[c].batch EXCEPT ![i] = "none"]
    BY <1>1, <1>3, <2>1 DEF Call
  <2>3. Becomes(c, l)
    BY <1>7
  <2> HIDE DEF l
  <2>4. call'[c] = l /\ c \in InFlight'
    BY <1>3, <2>2, <2>3 DEF Becomes, InFlight, Ended
  <2>5. /\ item' \in [Issues -> {"none", "open", "closed"}] /\ item'[i] = call[c].batch[i]
        /\ \A k \in Issues : k # i => item'[k] = item[k] /\ l.batch[k] = call[c].batch[k]
        /\ l.batch[i] = "none"
    BY <1>7, <2>1, <2>2, Facts
  <2>6. l.op # "close"
    BY <1>2, <2>2 DEF Syncs
  <2>7. Sound(c)'
    BY <1>1, <1>2, <1>3, <2>2, <2>4, <2>6 DEF Sound, Syncs, JobThere
  <2>8. Covered(c)'
    <3>1. SUFFICES ASSUME repo[call[c].repo] = "connected", ~seen[c].moved
                   PROVE  /\ seen[c].due \subseteq Listed(call[c].repo)
                          /\ \A k \in seen[c].due : item'[k] # "none" \/ ToCome(c, k)'
      BY <1>1, <2>2, <2>4 DEF Covered, Listed
    <3>2. /\ seen[c].due \subseteq Listed(call[c].repo)
          /\ \A k \in seen[c].due : item[k] # "none" \/ ToCome(c, k)
      BY <1>2, <1>3, <3>1 DEF Covered
    <3>3. ASSUME NEW k \in seen[c].due PROVE item'[k] # "none" \/ ToCome(c, k)'
      <4>1. k \in Issues
        BY Facts
      <4>2. CASE k = i
        BY <2>1, <2>5, <4>2
      <4>3. CASE k # i /\ item[k] # "none"
        BY <2>5, <4>1, <4>3
      <4>4. CASE k # i /\ ToCome(c, k)
        BY <1>1, <2>2, <2>4, <2>5, <4>1, <4>4 DEF ToCome, Ahead, Position, Listed
      <4> QED BY <3>2, <4>2, <4>3, <4>4
    <3> QED BY <3>2, <3>3
  <2>9. Closes(c)'
    BY <2>4, <2>6 DEF Closes
  <2>10. /\ \A k \in Issues : item[k] # "none" => item'[k] # "none"
         /\ \A k \in Issues : item'[k] = "open" =>
              item[k] = "open" \/ (Syncs(c) /\ call[c].batch[k] = "open")
         /\ \A k \in Issues : l.batch[k] = "open" => call[c].batch[k] = "open" \/ github[k] = "open"
    BY <1>2, <2>1, <2>5
  <2> QED BY <1>1, <1>2, <2>2, <2>3, <2>5, <2>6, <2>7, <2>8, <2>9, <2>10, Facts, ServeFrame
<1> QED BY <1>4, <1>5, <1>6, <1>7

-----------------------------------------------------------------------------
(* Closing an item                                                         *)

\* A step of a call that closes an item.
LEMMA CloseFrame ==
  ASSUME SyncInv, NEW c \in InFlight, call[c].op = "close",
         NEW pc \in {"closeRow", "done", "failed"}, Goes(c, pc),
         UNCHANGED <<repo, job, up, changes, seen>>,
         item' = item \/ (item[call[c].id] # "none" /\ item' = [item EXCEPT ![call[c].id] = "closed"]),
         github' = github \/ (github[call[c].id] # "gone"
                              /\ github' = [github EXCEPT ![call[c].id] = "closed"]),
         ~seen[c].moved /\ pc \in {"closeRow", "done"} => github'[call[c].id] \in {"closed", "gone"},
         pc = "done" => item'[call[c].id] # "open"
  PROVE  SyncInv'
<1> DEFINE id == call[c].id
           l == [call[c] EXCEPT !.pc = pc]
<1>1. /\ c \in Calls /\ call[c] \in Call /\ call \in [Calls -> Call] /\ Sound(c)
      /\ item \in [Issues -> {"none", "open", "closed"}]
      /\ github \in [Issues -> {"absent", "open", "closed", "gone"}]
  BY Facts DEF InFlight
<1>2. id \in Issues /\ call[c].batch = NoBatch /\ call[c].repo \in Repos
  BY <1>1 DEF Sound, InFlight
<1>3. /\ l \in Call /\ l.op = "close" /\ l.repo = call[c].repo /\ l.id = id /\ l.pc = pc
      /\ l.batch = NoBatch
  BY <1>1, <1>2 DEF Call, Pc
<1>4. Becomes(c, l)
  BY DEF Goes
<1> HIDE DEF l
<1>5. call'[c] = l
  BY <1>1, <1>4 DEF Becomes
<1>6. /\ item' \in [Issues -> {"none", "open", "closed"}]
      /\ \A i \in Issues : item[i] # "none" => item'[i] # "none"
      /\ \A i \in Issues : item'[i] = "open" => item[i] = "open"
  BY <1>1, <1>2
<1>7. /\ github' \in [Issues -> {"absent", "open", "closed", "gone"}]
      /\ \A i \in Issues : github[i] \in {"open", "closed"} => github'[i] \in {"open", "closed"}
      /\ \A i \in Issues : github[i] \in {"closed", "gone"} => github'[i] \in {"closed", "gone"}
  BY <1>1, <1>2
<1>8. Sound(c)'
  <2>1. NoBatch' = NoBatch
    BY DEF NoBatch
  <2> QED BY <1>1, <1>2, <1>3, <1>5, <2>1 DEF Sound, Syncs
<1>9. Covered(c)'
  BY <1>3, <1>5 DEF Covered, Syncs
<1>10. Closes(c)'
  <2>1. pc = "done" => c \notin InFlight'
    BY <1>3, <1>5 DEF InFlight, Ended
  <2>2. \A d \in InFlight' : d # c => d \in InFlight
    BY <1>1, <1>4 DEF Becomes, InFlight
  <2>3. \A d \in InFlight : d # c => d \in seen[c].beside
    BY DEF SyncInv, Together
  <2>4. pc = "done" => \A d \in InFlight' : d \in seen[c].beside
    BY <2>1, <2>2, <2>3
  <2> QED BY <1>3, <1>5, <2>4 DEF Closes
<1>11. /\ \A i \in Issues : l.batch[i] # "open"
       /\ job \in [Calls -> {"none", "QUEUED", "RUNNING", "SUCCEEDED", "FAILED", "deleted"}]
  BY <1>1, <1>3, Facts DEF NoBatch
<1>12. l.op = call[c].op /\ l.pc # "idle" /\ (l.op = "close" /\ l.pc = "done" => item'[l.id] # "open")
  BY <1>3
<1> QED BY <1>3, <1>4, <1>6, <1>7, <1>8, <1>9, <1>10, <1>11, <1>12, ServeFrame

LEMMA PatchStep ==
  ASSUME SyncInv, NEW c \in Calls, Patch(c)
  PROVE  SyncInv'
<1> DEFINE id == call[c].id
           closed == [github EXCEPT ![id] = "closed"]
<1>1. call[c].pc = "patch" /\ UNCHANGED <<repo, item, job, up, changes, seen>>
  BY DEF Patch, server
<1>2. c \in InFlight /\ call[c].op = "close" /\ id \in Issues
  BY <1>1, Facts DEF InFlight, Ended, Sound
<1>3. github \in [Issues -> {"absent", "open", "closed", "gone"}]
  BY Facts
<1>4. CASE github[id] # "gone" /\ github' = closed /\ Goes(c, AfterPatch)
  <2>1. Goes(c, "closeRow") /\ github'[id] = "closed"
    BY <1>2, <1>3, <1>4 DEF AfterPatch
  <2> QED BY <1>1, <1>2, <1>4, <2>1, CloseFrame
<1>5. CASE /\ github' \in {github, IF github[id] # "gone" THEN closed ELSE github}
           /\ Goes(c, "failed")
  <2>1. github' = github \/ (github[id] # "gone" /\ github' = closed)
    BY <1>5
  <2> QED BY <1>1, <1>2, <1>5, <2>1, CloseFrame
<1> QED BY <1>4, <1>5 DEF Patch

LEMMA CloseRowStep ==
  ASSUME SyncInv, NEW c \in Calls, CloseRow(c)
  PROVE  SyncInv'
<1> DEFINE id == call[c].id
<1>1. call[c].pc = "closeRow" /\ UNCHANGED <<repo, github, job, up, changes, seen>>
  BY DEF CloseRow
<1>2. c \in InFlight /\ call[c].op = "close" /\ id \in Issues
  BY <1>1, Facts DEF InFlight, Ended, Sound
<1>3. item \in [Issues -> {"none", "open", "closed"}]
  BY Facts
<1>4. CASE item[id] # "none" /\ item' = [item EXCEPT ![id] = "closed"] /\ Goes(c, "done")
  <2>1. item'[id] # "open"
    BY <1>2, <1>3, <1>4
  <2>2. ~seen[c].moved => github'[id] \in {"closed", "gone"}
    <3>1. Closes(c)
      BY Facts
    <3> QED BY <1>1, <1>2, <3>1 DEF Closes
  <2> QED BY <1>1, <1>2, <1>4, <2>1, <2>2, CloseFrame
<1>5. CASE Goes(c, "failed") /\ UNCHANGED item
  BY <1>1, <1>2, <1>5, CloseFrame
<1> QED BY <1>4, <1>5 DEF CloseRow

-----------------------------------------------------------------------------
(* The server as a whole                                                   *)

LEMMA ServesStep ==
  ASSUME SyncInv, NEW c \in Calls, Serves(c)
  PROVE  SyncInv'
  BY BeginStep, FetchPageStep, UpsertStep, ProgressStep, StampStep, FinishStep, MarkFailedStep,
     PatchStep, CloseRowStep DEF Serves

\* Analyses change nothing of it.
LEMMA StillStep ==
  ASSUME SyncInv, UNCHANGED backlog
  PROVE  SyncInv'
<1>1. UNCHANGED <<repo, github, item, job, call, up, changes, seen>>
  BY DEF backlog
<1>2. BacklogTypes' /\ \A c \in Calls : JobThere(c) => JobThere(c)'
  BY <1>1 DEF SyncInv, BacklogTypes, JobThere
<1> QED BY <1>1, <1>2, OthersFrame

LEMMA SyncInit ==
  ASSUME Init
  PROVE  SyncInv
<1>1. NoBatch \in [Issues -> {"none", "open", "closed"}]
  BY DEF NoBatch
<1>2. Idle \in Call /\ NothingSeen \in Seen
  BY <1>1 DEF Idle, Call, Pc, NothingSeen, Seen
<1>3. \A c \in Calls : call[c] = Idle /\ seen[c] = NothingSeen
  BY DEF Init, BacklogInit
<1>4. InFlight = {}
  BY <1>3 DEF InFlight, Idle
<1>5. BacklogTypes
  BY <1>2, BacklogAssumption DEF Init, BacklogInit, BacklogTypes
<1>6. Together /\ ClosedStaysApart
  BY <1>3, <1>4 DEF Together, ClosedStaysApart, Idle, NothingSeen
<1>7. \A c \in Calls : Sound(c) /\ Covered(c) /\ Closes(c)
  <2>1. SUFFICES ASSUME NEW c \in Calls PROVE Sound(c) /\ Covered(c) /\ Closes(c)
    OBVIOUS
  <2>2. call[c] = Idle /\ call[c].op = "none" /\ call[c].pc = "idle" /\ seen[c].due = {}
    <3>1. Idle.op = "none" /\ Idle.pc = "idle" /\ NothingSeen.due = {}
      BY DEF Idle, NothingSeen
    <3> QED BY <1>3, <3>1
  <2>3. Sound(c)
    BY <1>4, <2>2 DEF Sound, Syncs
  <2>4. Covered(c)
    BY <2>2 DEF Covered, Syncs
  <2>5. Closes(c)
    BY <2>2 DEF Closes
  <2> QED BY <2>3, <2>4, <2>5
<1> QED BY <1>5, <1>6, <1>7 DEF SyncInv

LEMMA SyncNext ==
  ASSUME SyncInv, [Next]_vars
  PROVE  SyncInv'
<1>1. ASSUME NEW c \in Calls, CallStep(c) PROVE SyncInv'
  BY <1>1, StartSyncStep, StartCloseStep, ServesStep DEF CallStep
<1>2. ASSUME Others PROVE SyncInv'
  BY <1>2, OthersStep
<1>3. ASSUME UNCHANGED backlog PROVE SyncInv'
  BY <1>3, StillStep
<1> QED BY <1>1, <1>2, <1>3 DEF Next, StudyStep, vars

LEMMA SyncAlways == Spec => []SyncInv
<1>1. Init => SyncInv
  BY SyncInit
<1>2. SyncInv /\ [Next]_vars => SyncInv'
  BY SyncNext
<1> QED BY <1>1, <1>2, PTL DEF Spec

\* A sync that ended well has copied all that GitHub had when it began and that
\* nobody removed meanwhile, however the pages moved under it (GithubService:
\* the loop over the pages).
THEOREM SyncsAreComplete == Spec => []SyncedAll
<1>1. SyncInv => SyncedAll
  <2>1. SUFFICES ASSUME SyncInv, NEW c \in Calls, Syncs(c), call[c].pc = "done",
                        repo[call[c].repo] = "connected", ~seen[c].moved
                 PROVE  \A i \in seen[c].due : item[i] # "none"
    BY DEF SyncedAll, Syncs
  <2>2. Covered(c)
    BY <2>1, Facts
  <2>3. \A i \in seen[c].due : ~ToCome(c, i)
    BY <2>1 DEF ToCome
  <2> QED BY <2>1, <2>2, <2>3 DEF Covered
<1> QED BY <1>1, SyncAlways, PTL

\* The process ends itself only under a job whose repository is gone: then the
\* job row is gone with it and the update that nothing catches has no row.
THEOREM CrashesHaveOneCause == Spec => []CrashNeedsDisconnect
<1>1. SyncInv => CrashNeedsDisconnect
  <2>1. ASSUME SyncInv, NEW c \in Calls PROVE Sound(c)
    BY <2>1, Facts
  <2> QED BY <2>1 DEF CrashNeedsDisconnect, Sound
<1> QED BY <1>1, SyncAlways, PTL

\* Closing an item here and copying the list beside it can show the item open
\* again; a sync that begins later cannot, nor can anything else but a reopening.
THEOREM ClosedStaysClosed == Spec => []ClosedStaysApart
<1>1. SyncInv => ClosedStaysApart
  BY DEF SyncInv
<1> QED BY <1>1, SyncAlways, PTL

-----------------------------------------------------------------------------
(* The rows of the jobs                                                    *)

\* A call that is under way moves, and its row, if it has one, with it.
LEMMA RowMoves ==
  ASSUME JobInv, NEW c \in InFlight, NEW l, Becomes(c, l), l.op = call[c].op,
         \A d \in Calls : d # c => job'[d] = job[d],
         \/ /\ job'[c] = job[c]
            /\ l.op = "job" => l.pc \in {"page", "item", "progress", "stamp", "finish", "fail"}
         \/ l.op = "job" /\ <<job'[c], l.pc>> \in {<<"RUNNING", "page">>, <<"SUCCEEDED", "done">>,
                                                  <<"FAILED", "failed">>}
  PROVE  \A d \in Calls : JobRow(d)'
<1>1. c \in Calls /\ SyncInv
  BY DEF InFlight, JobInv
<1>2. call'[c] = l /\ \A d \in Calls : d # c => call'[d] = call[d]
  BY <1>1, Facts DEF Becomes
<1>3. JobRow(c)'
  <2>1. JobRow(c) /\ call[c].pc \notin {"done", "failed"}
    BY <1>1 DEF JobInv, InFlight, Ended
  <2> QED BY <1>2, <2>1 DEF JobRow, JobThere
<1>4. ASSUME NEW d \in Calls, d # c PROVE JobRow(d)'
  BY <1>2, <1>4 DEF JobInv, JobRow, JobThere
<1> QED BY <1>3, <1>4

LEMMA RowGoes ==
  ASSUME JobInv, NEW c \in InFlight, NEW pc, Goes(c, pc),
         \A d \in Calls : d # c => job'[d] = job[d],
         \/ /\ job'[c] = job[c]
            /\ call[c].op = "job" => pc \in {"page", "item", "progress", "stamp", "finish", "fail"}
         \/ /\ call[c].op = "job"
            /\ <<job'[c], pc>> \in {<<"RUNNING", "page">>, <<"SUCCEEDED", "done">>, <<"FAILED", "failed">>}
  PROVE  \A d \in Calls : JobRow(d)'
<1> DEFINE l == [call[c] EXCEPT !.pc = pc]
<1>1. l.op = call[c].op /\ l.pc = pc
  BY Facts DEF JobInv, InFlight, Call
<1>2. Becomes(c, l)
  BY DEF Goes
<1> HIDE DEF l
<1> QED BY <1>1, <1>2, RowMoves

\* With the process every call under way is lost, but for the one whose row is gone.
LEMMA RowDies ==
  ASSUME JobInv, NEW cause, Dies(cause), UNCHANGED job, \A c \in Calls : c \in cause => ~JobThere(c)
  PROVE  \A d \in Calls : JobRow(d)'
<1>1. SUFFICES ASSUME NEW d \in Calls PROVE JobRow(d)'
  OBVIOUS
<1>2. JobRow(d) /\ call[d] \in Call
  BY Facts DEF JobInv
<1>3. CASE d \notin InFlight
  <2>1. call'[d] = call[d]
    BY <1>3 DEF Dies
  <2> QED BY <1>2, <2>1 DEF JobRow, JobThere
<1>4. CASE d \in InFlight
  <2>1. call[d].pc \notin {"done", "failed"}
    BY <1>4 DEF InFlight, Ended
  <2>2. /\ call'[d].op = call[d].op
        /\ call'[d].pc = IF d \in cause THEN "crashed" ELSE "lost"
    BY <1>2, <1>4 DEF Dies, Call
  <2> QED BY <1>2, <2>1, <2>2 DEF JobRow, JobThere
<1> QED BY <1>3, <1>4

LEMMA RowBegins ==
  ASSUME JobInv, NEW c \in Calls, StartSync(c) \/ StartClose(c)
  PROVE  \A d \in Calls : JobRow(d)'
<1>1. /\ SyncInv /\ call \in [Calls -> Call]
      /\ job \in [Calls -> {"none", "QUEUED", "RUNNING", "SUCCEEDED", "FAILED", "deleted"}]
  BY Facts DEF JobInv
<1>2. PICK l : /\ Begins(c, l) /\ l.op \in {"job", "sync", "close"}
               /\ l.op = "job" => l.pc = "begin" /\ job' = [job EXCEPT ![c] = "QUEUED"]
               /\ l.op # "job" => UNCHANGED job
  <2>1. CASE StartClose(c)
    <3>1. PICK i \in Issues :
            Begins(c, [Idle EXCEPT !.op = "close", !.repo = RepoOf[i], !.id = i, !.pc = "patch"])
      BY <2>1 DEF StartClose
    <3>2. [Idle EXCEPT !.op = "close", !.repo = RepoOf[i], !.id = i, !.pc = "patch"].op = "close"
      BY DEF Idle
    <3>3. UNCHANGED job
      BY <2>1 DEF StartClose, server
    <3> QED BY <3>1, <3>2, <3>3
  <2>2. CASE StartSync(c)
    <3>1. PICK r \in Repos, op \in {"job", "sync"} :
            /\ Begins(c, [Idle EXCEPT !.op = op, !.repo = r,
                                      !.pc = IF op = "job" THEN "begin" ELSE "page"])
            /\ job' = IF op = "job" THEN [job EXCEPT ![c] = "QUEUED"] ELSE job
      BY <2>2 DEF StartSync
    <3> DEFINE l == [Idle EXCEPT !.op = op, !.repo = r,
                                 !.pc = IF op = "job" THEN "begin" ELSE "page"]
    <3>2. l.op = op /\ l.pc = IF op = "job" THEN "begin" ELSE "page"
      BY DEF Idle
    <3>3. Begins(c, l)
      BY <3>1
    <3> HIDE DEF l
    <3> QED BY <3>1, <3>2, <3>3
  <2> QED BY <2>1, <2>2
<1>3. /\ call'[c] = l /\ call[c].pc = "idle"
      /\ \A d \in Calls : d # c => call'[d] = call[d] /\ job'[d] = job[d]
  BY <1>1, <1>2 DEF Begins, Becomes
<1>4. job[c] = "none"
  <2>1. call[c] = Idle
    BY <1>1, <1>3, Facts DEF Sound
  <2> QED BY <1>1, <2>1 DEF JobInv, JobRow, Idle
<1>5. JobRow(c)'
  BY <1>1, <1>2, <1>3, <1>4 DEF JobRow, JobThere
<1>6. ASSUME NEW d \in Calls, d # c PROVE JobRow(d)'
  BY <1>3, <1>6 DEF JobInv, JobRow, JobThere
<1> QED BY <1>5, <1>6

LEMMA RowServes ==
  ASSUME JobInv, NEW c \in Calls, Serves(c)
  PROVE  \A d \in Calls : JobRow(d)'
<1>1. /\ SyncInv /\ call \in [Calls -> Call] /\ Sound(c) /\ call[c] \in Call
      /\ job \in [Calls -> {"none", "QUEUED", "RUNNING", "SUCCEEDED", "FAILED", "deleted"}]
  BY Facts DEF JobInv
<1>2. c \in InFlight
  BY DEF Serves, Begin, FetchPage, Upsert, Progress, Stamp, Finish, MarkFailed, Patch, CloseRow,
         InFlight, Ended
<1>3. ASSUME Fails(c), UNCHANGED job PROVE \A d \in Calls : JobRow(d)'
  <2>1. Goes(c, Throws(call[c])) /\ (call[c].op = "job" => Throws(call[c]) = "fail")
    BY <1>3 DEF Fails, Throws
  <2> QED BY <1>2, <1>3, <2>1, RowGoes
<1>4. CASE Begin(c) \/ MarkFailed(c)
  <2>1. call[c].op = "job"
    BY <1>1, <1>4 DEF Begin, MarkFailed, Sound
  <2>2. CASE JobThere(c)
    <3>1. \/ job' = [job EXCEPT ![c] = "RUNNING"] /\ Goes(c, "page")
          \/ job' = [job EXCEPT ![c] = "FAILED"] /\ Goes(c, "failed")
      BY <1>4, <2>2 DEF Begin, MarkFailed
    <3>2. /\ \A d \in Calls : d # c => job'[d] = job[d]
          /\ \/ job'[c] = "RUNNING" /\ Goes(c, "page")
             \/ job'[c] = "FAILED" /\ Goes(c, "failed")
      BY <1>1, <3>1
    <3> QED BY <1>2, <2>1, <3>2, RowGoes
  <2>3. CASE ~JobThere(c)
    <3>1. Dies({c}) /\ UNCHANGED job
      BY <1>4, <2>3 DEF Begin, MarkFailed
    <3> QED BY <2>3, <3>1, RowDies
  <2> QED BY <2>2, <2>3
<1>5. CASE FetchPage(c)
  <2>1. UNCHANGED job
    BY <1>5 DEF FetchPage, server
  <2>2. CASE Fails(c)
    BY <1>3, <2>1, <2>2
  <2>3. CASE ~Fails(c)
    <3> DEFINE l == [call[c] EXCEPT !.pc = "item",
                                    !.batch = Answer(call[c].repo, call[c].page),
                                    !.more = HasNext(call[c].repo, call[c].page),
                                    !.page = Following(call[c].page)]
    <3>1. Becomes(c, l)
      BY <1>5, <2>3 DEF FetchPage
    <3>2. l.pc = "item" /\ l.op = call[c].op
      BY <1>1 DEF Call
    <3> HIDE DEF l
    <3> QED BY <1>2, <2>1, <3>1, <3>2, RowMoves
  <2> QED BY <2>2, <2>3
<1>6. CASE Upsert(c)
  <2>1. UNCHANGED job /\ call[c].pc = "item"
    BY <1>6 DEF Upsert
  <2>2. \/ Goes(c, "progress") \/ Fails(c)
        \/ \E i \in Issues : Becomes(c, [call[c] EXCEPT !.batch[i] = "none"])
    BY <1>6 DEF Upsert
  <2>3. CASE Goes(c, "progress")
    BY <1>2, <2>1, <2>3, RowGoes
  <2>4. ASSUME NEW i \in Issues, Becomes(c, [call[c] EXCEPT !.batch[i] = "none"])
        PROVE  \A d \in Calls : JobRow(d)'
    <3> DEFINE l == [call[c] EXCEPT !.batch[i] = "none"]
    <3>1. l.pc = "item" /\ l.op = call[c].op
      BY <1>1, <2>1 DEF Call
    <3>2. Becomes(c, l)
      BY <2>4
    <3> HIDE DEF l
    <3> QED BY <1>2, <2>1, <3>1, <3>2, RowMoves
  <2> QED BY <1>3, <2>1, <2>2, <2>3, <2>4
<1>7. CASE Progress(c) \/ Stamp(c)
  <2>1. UNCHANGED job
    BY <1>7 DEF Progress, Stamp, server
  <2>2. \/ Fails(c)
        \/ \E pc \in {"page", "stamp", "finish", "done"} :
             Goes(c, pc) /\ (call[c].op = "job" => pc # "done")
    BY <1>7 DEF Progress, Stamp
  <2> QED BY <1>2, <1>3, <2>1, <2>2, RowGoes
<1>8. CASE Finish(c)
  <2>1. CASE JobThere(c)
    <3>1. /\ job' = [job EXCEPT ![c] = "SUCCEEDED"] /\ Goes(c, "done")
          /\ call[c].op = "job"
      BY <1>1, <1>8, <2>1 DEF Finish, Sound
    <3>2. job'[c] = "SUCCEEDED" /\ \A d \in Calls : d # c => job'[d] = job[d]
      BY <1>1, <3>1
    <3> QED BY <1>2, <3>1, <3>2, RowGoes
  <2>2. CASE ~JobThere(c)
    BY <1>3, <1>8, <2>2 DEF Finish
  <2> QED BY <2>1, <2>2
<1>9. CASE Patch(c) \/ CloseRow(c)
  <2>1. UNCHANGED job /\ call[c].op = "close"
    BY <1>1, <1>9 DEF Patch, CloseRow, server, Sound
  <2>2. \E pc \in {"closeRow", "failed", "done"} : Goes(c, pc)
    BY <1>9 DEF Patch, CloseRow, AfterPatch
  <2> QED BY <1>2, <2>1, <2>2, RowGoes
<1> QED BY <1>4, <1>5, <1>6, <1>7, <1>8, <1>9 DEF Serves

LEMMA RowOthers ==
  ASSUME JobInv, Others
  PROVE  \A d \in Calls : JobRow(d)'
<1>1. ASSUME UNCHANGED call, \A c \in Calls : job'[c] \in {job[c], "deleted"},
             \A c \in Calls : job'[c] # "none" => job[c] # "none"
      PROVE  \A d \in Calls : JobRow(d)'
  <2>1. SUFFICES ASSUME NEW d \in Calls PROVE JobRow(d)'
    OBVIOUS
  <2>2. JobRow(d)
    BY DEF JobInv
  <2> QED BY <1>1, <2>2 DEF JobRow, JobThere
<1>2. CASE \E r \in Repos : Disconnect(r)
  BY <1>1, <1>2 DEF Disconnect, JobsWithout
<1>3. CASE Kill
  BY <1>3, RowDies DEF Kill, server
<1>4. CASE ~Kill /\ ~ \E r \in Repos : Disconnect(r)
  <2>1. UNCHANGED <<job, call>>
    BY <1>4 DEF Others, OpenIssue, ChangeIssue, RemoveIssue, Connect, Start, server
  <2> QED BY <1>1, <2>1
<1> QED BY <1>2, <1>3, <1>4

LEMMA RowNext ==
  ASSUME JobInv, [Next]_vars
  PROVE  JobInv'
<1>1. SyncInv'
  BY SyncNext DEF JobInv
<1>2. ASSUME NEW c \in Calls, CallStep(c) PROVE \A d \in Calls : JobRow(d)'
  BY <1>2, RowBegins, RowServes DEF CallStep
<1>3. ASSUME Others PROVE \A d \in Calls : JobRow(d)'
  BY <1>3, RowOthers
<1>4. ASSUME UNCHANGED backlog PROVE \A d \in Calls : JobRow(d)'
  <2>1. UNCHANGED <<job, call>>
    BY <1>4 DEF backlog
  <2> QED BY <2>1 DEF JobInv, JobRow, JobThere
<1> QED BY <1>1, <1>2, <1>3, <1>4 DEF Next, StudyStep, vars, JobInv

\* Whoever polls a job (RepositoriesService.getSyncJob) is told the truth: RUNNING and
\* QUEUED stand for work under way or lost with the process, SUCCEEDED for a complete
\* copy.
THEOREM JobsAreTruthful == Spec => []JobsTellTruth
<1>1. Init => JobInv
  <2>1. Init => \A c \in Calls : job[c] = "none"
    BY DEF Init, BacklogInit
  <2> QED BY <2>1, SyncInit DEF JobInv, JobRow, JobThere
<1>2. JobInv /\ [Next]_vars => JobInv'
  BY RowNext
<1>3. JobInv /\ SyncedAll => JobsTellTruth
  <2>1. SUFFICES ASSUME JobInv, SyncedAll, NEW c \in Calls
                 PROVE  /\ JobThere(c) => c \in InFlight \/ call[c].pc = "lost"
                        /\ job[c] = "FAILED" => call[c].pc = "failed"
                        /\ job[c] = "SUCCEEDED" /\ repo[call[c].repo] = "connected" =>
                             seen[c].moved \/ \A i \in seen[c].due : item[i] # "none"
    BY DEF JobsTellTruth
  <2>2. JobRow(c)
    BY <2>1 DEF JobInv
  <2>3. JobThere(c) => c \in InFlight \/ call[c].pc = "lost"
    BY <2>2 DEF JobRow, InFlight, Ended
  <2>4. job[c] = "SUCCEEDED" => call[c].op = "job" /\ call[c].pc = "done"
    BY <2>2 DEF JobRow
  <2>5. job[c] = "FAILED" => call[c].pc = "failed"
    BY <2>2 DEF JobRow
  <2> QED BY <2>1, <2>3, <2>4, <2>5 DEF SyncedAll
<1> QED BY <1>1, <1>2, <1>3, SyncsAreComplete, PTL DEF Spec

-----------------------------------------------------------------------------
(* The union-find structure                                                *)

\* Following d from any element of D ends at one that d leaves where it is: every
\* set of elements has one that is left there, or led out of the set.
Leads(d, D) ==
  /\ d \in [D -> D]
  /\ \A A \in SUBSET D : A # {} => \E x \in A : d[x] = x \/ d[x] \notin A

\* A family of subsets of a finite set has a minimal one.
LEMMA MinimalSubset ==
  ASSUME NEW D, IsFiniteSet(D), NEW W \in SUBSET SUBSET D, W # {}
  PROVE  \E T \in W : \A U \in W : U \subseteq T => U = T
<1>1. W \subseteq FiniteSubsetsOf(D)
  BY FS_FiniteSubsetsOfFinite
<1>2. \E T \in W : \A U \in W : <<U, T>> \notin StrictSubsetOrdering(D)
  BY <1>1, FS_StrictSubsetOrderingWellFounded, WFMin
<1> QED BY <1>2 DEF StrictSubsetOrdering

\* Recursion along d defines a function.
LEMMA Recursion ==
  ASSUME NEW D, IsFiniteSet(D), NEW d, Leads(d, D),
         NEW V, NEW base \in [D -> V], NEW G \in [D \X V -> V]
  PROVE  \E f \in [D -> V] : \A x \in D :
           f[x] = IF d[x] = x THEN base[x] ELSE G[<<x, f[d[x]]>>]
<1> DEFINE Val(f, x) == IF d[x] = x THEN base[x] ELSE G[<<x, f[d[x]]>>]
           Solves(f, B) == f \in [B -> V] /\ \A x \in B : d[x] \in B /\ f[x] = Val(f, x)
           W == {T \in SUBSET D : \E f : Solves(f, D \ T)}
<1>1. D \in W
  <2>1. Solves([x \in {} |-> x], D \ D)
    OBVIOUS
  <2> QED BY <2>1
<1>2. PICK T \in W : \A U \in W : U \subseteq T => U = T
  <2> HIDE DEF W
  <2>1. W \in SUBSET SUBSET D
    BY DEF W
  <2> QED BY <1>1, <2>1, MinimalSubset
<1>3. PICK f : Solves(f, D \ T)
  OBVIOUS
<1>4. ASSUME T # {} PROVE FALSE
  <2>1. PICK x \in T : d[x] = x \/ d[x] \notin T
    BY <1>4 DEF Leads
  <2> DEFINE B == D \ (T \ {x})
             g == [y \in B |-> IF y = x THEN Val(f, x) ELSE f[y]]
  <2>2. x \in D /\ d[x] \in B /\ B = (D \ T) \union {x} /\ x \notin D \ T /\ d \in [D -> D]
    BY <2>1 DEF Leads
  <2>3. Val(f, x) \in V
    <3>1. CASE d[x] = x
      BY <2>2, <3>1
    <3>2. CASE d[x] # x
      <4>1. f[d[x]] \in V
        BY <1>3, <2>2, <3>2
      <4> QED BY <2>2, <3>2, <4>1
    <3> QED BY <3>1, <3>2
  <2>4. g \in [B -> V]
    <3> HIDE DEF Val
    <3> QED BY <1>3, <2>2, <2>3
  <2>5. ASSUME NEW y \in B PROVE d[y] \in B /\ g[y] = Val(g, y)
    <3>1. CASE y = x
      BY <2>2, <3>1
    <3>2. CASE y # x
      <4>1. y \in D \ T /\ d[y] \in D \ T /\ f[y] = Val(f, y) /\ d[y] # x
        BY <1>3, <2>2, <3>2
      <4> QED BY <2>2, <3>2, <4>1
    <3> QED BY <3>1, <3>2
  <2>6. T \ {x} \in W
    BY <2>4, <2>5
  <2> QED BY <1>2, <2>1, <2>6
<1> QED BY <1>3, <1>4

LEMMA RootRule ==
  ASSUME NEW S, IsFiniteSet(S), NEW parent, Leads(parent, S)
  PROVE  /\ Root(parent) \in [S -> S]
         /\ \A x \in S : Root(parent)[x] = IF parent[x] = x THEN x ELSE Root(parent)[parent[x]]
<1> DEFINE Is(r) == r = [x \in DOMAIN parent |-> IF parent[x] = x THEN x ELSE r[parent[x]]]
<1>1. parent \in [S -> S] /\ DOMAIN parent = S
  BY DEF Leads
<1>2. PICK f \in [S -> S] : \A x \in S : f[x] = IF parent[x] = x THEN x ELSE f[parent[x]]
  <2> DEFINE base == [x \in S |-> x]
             G == [p \in S \X S |-> p[2]]
  <2>1. base \in [S -> S] /\ G \in [S \X S -> S]
    OBVIOUS
  <2>2. /\ \A x \in S : base[x] = x
        /\ \A x, y \in S : G[<<x, y>>] = y
    OBVIOUS
  <2> HIDE DEF base, G
  <2>3. PICK f \in [S -> S] : \A x \in S : f[x] = IF parent[x] = x THEN base[x] ELSE G[<<x, f[parent[x]]>>]
    BY <2>1, Recursion
  <2>4. ASSUME NEW x \in S PROVE f[x] = IF parent[x] = x THEN x ELSE f[parent[x]]
    <3>1. parent[x] \in S /\ f[parent[x]] \in S
      BY <1>1, <2>3
    <3> QED BY <2>2, <2>3, <3>1
  <2> QED BY <2>3, <2>4
<1>3. Is(f)
  BY <1>1, <1>2
<1>4. Root(parent) = CHOOSE r : Is(r)
  BY DEF Root
<1>5. Is(Root(parent))
  <2> HIDE DEF Is
  <2> QED BY <1>3, <1>4
<1> DEFINE r == Root(parent)
           A == {x \in S : r[x] \notin S}
<1>6. r = [x \in S |-> r[x]] /\ \A x \in S : r[x] = IF parent[x] = x THEN x ELSE r[parent[x]]
  BY <1>1, <1>5
<1>7. A = {}
  <2>1. \A x \in A : parent[x] # x /\ parent[x] \in A
    BY <1>1, <1>6
  <2> QED BY <2>1 DEF Leads
<1> QED BY <1>6, <1>7

\* The items find visits end at the same root.
LEMMA VisitedRule ==
  ASSUME NEW S, IsFiniteSet(S), NEW parent, Leads(parent, S), NEW x \in S
  PROVE  /\ Visited(parent)[x] \subseteq S
         /\ x \in Visited(parent)[x] /\ Root(parent)[x] \in Visited(parent)[x]
         /\ \A y \in Visited(parent)[x] : Root(parent)[y] = Root(parent)[x]
<1> DEFINE Next1(w, y) == {y} \union IF parent[y] = y THEN {} ELSE w[parent[y]]
           Is(w) == w = [y \in DOMAIN parent |-> Next1(w, y)]
<1>1. parent \in [S -> S] /\ DOMAIN parent = S
  BY DEF Leads
<1>2. PICK f \in [S -> SUBSET S] : \A y \in S : f[y] = Next1(f, y)
  <2> DEFINE V == SUBSET S
             base == [y \in S |-> {y}]
             G == [p \in S \X V |-> {p[1]} \union p[2]]
  <2>1. base \in [S -> V] /\ G \in [S \X V -> V]
    OBVIOUS
  <2>2. /\ \A y \in S : base[y] = {y}
        /\ \A y \in S, T \in V : G[<<y, T>>] = {y} \union T
    OBVIOUS
  <2> HIDE DEF V, base, G
  <2>3. PICK f \in [S -> V] :
          \A y \in S : f[y] = IF parent[y] = y THEN base[y] ELSE G[<<y, f[parent[y]]>>]
    BY <2>1, Recursion
  <2>4. ASSUME NEW y \in S PROVE f[y] = Next1(f, y)
    <3>1. parent[y] \in S /\ f[parent[y]] \in V
      BY <1>1, <2>3
    <3>2. f[y] = IF parent[y] = y THEN {y} ELSE {y} \union f[parent[y]]
      BY <2>2, <2>3, <3>1
    <3> QED BY <3>2
  <2> QED BY <2>3, <2>4 DEF V
<1>3. Is(f)
  BY <1>1, <1>2
<1>4. Visited(parent) = CHOOSE w : Is(w)
  BY DEF Visited
<1>5. Is(Visited(parent))
  <2> HIDE DEF Is
  <2> QED BY <1>3, <1>4
<1> DEFINE way == Visited(parent)
           root == Root(parent)
           A == {y \in S : ~ /\ way[y] \subseteq S /\ y \in way[y] /\ root[y] \in way[y]
                             /\ \A z \in way[y] : root[z] = root[y]}
<1>6. \A y \in S : way[y] = {y} \union IF parent[y] = y THEN {} ELSE way[parent[y]]
  BY <1>1, <1>5
<1>7. \A y \in S : root[y] = IF parent[y] = y THEN y ELSE root[parent[y]]
  BY RootRule
<1> HIDE DEF way, root
<1>8. ASSUME NEW y \in A PROVE parent[y] # y /\ parent[y] \in A
  <2>1. CASE parent[y] = y
    <3>1. way[y] = {y} /\ root[y] = y
      BY <1>6, <1>7, <2>1
    <3> QED BY <3>1
  <2>2. CASE parent[y] # y
    <3>1. way[y] = {y} \union way[parent[y]] /\ root[y] = root[parent[y]] /\ parent[y] \in S
      BY <1>1, <1>6, <1>7, <2>2
    <3> QED BY <2>2, <3>1
  <2> QED BY <2>1, <2>2
<1>9. A = {}
  BY <1>8 DEF Leads
<1> QED BY <1>9 DEF way, root

\* A root stays where it is, and is its own root.
LEMMA RootStays ==
  ASSUME NEW S, IsFiniteSet(S), NEW parent, Leads(parent, S), NEW x \in S
  PROVE  /\ Root(parent)[x] \in S
         /\ parent[Root(parent)[x]] = Root(parent)[x]
         /\ Root(parent)[Root(parent)[x]] = Root(parent)[x]
<1> DEFINE root == Root(parent)
           A == {y \in S : parent[root[y]] # root[y]}
<1>1. parent \in [S -> S]
  BY DEF Leads
<1>2. root \in [S -> S] /\ \A y \in S : root[y] = IF parent[y] = y THEN y ELSE root[parent[y]]
  BY RootRule
<1> HIDE DEF root
<1>3. \A y \in A : parent[y] # y /\ parent[y] \in A
  BY <1>1, <1>2
<1>4. A = {}
  BY <1>3 DEF Leads
<1> QED BY <1>2, <1>4 DEF root

\* find shortens the ways and leaves every root.
LEMMA FindKeeps ==
  ASSUME NEW S, IsFiniteSet(S), NEW parent, Leads(parent, S), NEW x \in S
  PROVE  Leads(Find(parent, x), S) /\ Root(Find(parent, x)) = Root(parent)
<1> DEFINE way  == Visited(parent)[x]
           root == Root(parent)
           g    == Find(parent, x)
<1>1. parent \in [S -> S] /\ DOMAIN parent = S
  BY DEF Leads
<1>2. /\ root \in [S -> S]
      /\ \A y \in S : root[y] = IF parent[y] = y THEN y ELSE root[parent[y]]
      /\ \A y \in S : parent[root[y]] = root[y] /\ root[root[y]] = root[y]
  BY RootRule, RootStays
<1>3. way \subseteq S /\ x \in way /\ root[x] \in way /\ \A y \in way : root[y] = root[x]
  BY VisitedRule
<1>4. g = [y \in S |-> IF y \in way THEN root[x] ELSE parent[y]]
  BY <1>1 DEF Find
<1> HIDE DEF way, root, g
<1>5. g \in [S -> S]
  BY <1>1, <1>2, <1>4
<1>6. Leads(g, S)
  <2>1. ASSUME NEW A \in SUBSET S, A # {}, \A y \in A : g[y] # y /\ g[y] \in A
        PROVE  FALSE
    <3>1. root[x] \notin A
      BY <1>2, <1>3, <1>4, <2>1
    <3>2. \A y \in A : y \notin way /\ g[y] = parent[y]
      BY <1>4, <2>1, <3>1
    <3> QED BY <2>1, <3>2 DEF Leads
  <2> QED BY <1>5, <2>1 DEF Leads
<1> DEFINE new == Root(g)
           A == {y \in S : new[y] # root[y]}
<1>7. new \in [S -> S] /\ \A y \in S : new[y] = IF g[y] = y THEN y ELSE new[g[y]]
  BY <1>6, RootRule
<1> HIDE DEF new
<1>8. ASSUME NEW y \in A PROVE g[y] # y /\ g[y] \in A
  <2>1. g[y] \in S /\ root[g[y]] = root[y]
    BY <1>1, <1>2, <1>3, <1>4
  <2>2. g[y] = y => root[y] = y
    BY <1>2, <1>3, <1>4
  <2> QED BY <1>7, <2>1, <2>2
<1>9. A = {}
  BY <1>6, <1>8 DEF Leads
<1>10. new = root
  BY <1>2, <1>7, <1>9
<1> QED BY <1>6, <1>10 DEF new, g, root

\* union puts the items under the root of b under the root of a.
LEMMA UniteMerges ==
  ASSUME NEW S, IsFiniteSet(S), NEW parent, Leads(parent, S), NEW a \in S, NEW b \in S
  PROVE  /\ Leads(Unite(parent, a, b), S)
         /\ \A y \in S : Root(Unite(parent, a, b))[y] =
                           IF Root(parent)[y] = Root(parent)[b] THEN Root(parent)[a]
                           ELSE Root(parent)[y]
<1> DEFINE found == Find(Find(parent, a), b)
           root  == Root(parent)
           g     == Unite(parent, a, b)
<1>1. Leads(found, S) /\ Root(found) = root
  BY FindKeeps
<1>2. /\ found \in [S -> S] /\ root \in [S -> S]
      /\ \A y \in S : root[y] = IF found[y] = y THEN y ELSE root[found[y]]
      /\ \A y \in S : found[root[y]] = root[y] /\ root[root[y]] = root[y]
  BY <1>1, RootRule, RootStays DEF Leads
<1>3. g = [found EXCEPT ![root[b]] = root[a]]
  BY <1>1 DEF Unite
<1> HIDE DEF found, root, g
<1>4. /\ g \in [S -> S] /\ g[root[b]] = root[a] /\ g[root[a]] = root[a]
      /\ \A y \in S : y # root[b] => g[y] = found[y]
  BY <1>2, <1>3
<1>5. Leads(g, S)
  <2>1. ASSUME NEW A \in SUBSET S, A # {}, \A y \in A : g[y] # y /\ g[y] \in A
        PROVE  FALSE
    <3>1. root[a] \notin A /\ root[b] \notin A
      BY <1>4, <2>1
    <3>2. \A y \in A : g[y] = found[y]
      BY <1>4, <3>1
    <3> QED BY <1>1, <2>1, <3>2 DEF Leads
  <2> QED BY <1>4, <2>1 DEF Leads
<1> DEFINE new == Root(g)
           now(y) == IF root[y] = root[b] THEN root[a] ELSE root[y]
           A == {y \in S : new[y] # now(y)}
<1>6. new \in [S -> S] /\ \A y \in S : new[y] = IF g[y] = y THEN y ELSE new[g[y]]
  BY <1>5, RootRule
<1> HIDE DEF new
<1>7. ASSUME NEW y \in A PROVE g[y] # y /\ g[y] \in A
  <2>1. CASE y = root[b]
    <3>1. g[y] = root[a] /\ now(y) = root[a] /\ now(root[a]) = root[a] /\ root[a] \in S
      BY <1>2, <1>4, <2>1
    <3> QED BY <1>6, <2>1, <3>1
  <2>2. CASE y # root[b]
    <3>1. g[y] = found[y] /\ g[y] \in S
      BY <1>4, <2>2
    <3>2. root[g[y]] = root[y]
      BY <1>2, <3>1
    <3>3. g[y] = y => root[y] = y
      BY <1>2, <3>1
    <3> QED BY <1>6, <2>2, <3>1, <3>2, <3>3
  <2> QED BY <2>1, <2>2
<1>8. A = {}
  BY <1>5, <1>7 DEF Leads
<1> QED BY <1>5, <1>8 DEF new, root, g

\* Two chained sets with a similar pair across them are chained together.
LEMMA ChainedTogether ==
  ASSUME NEW K, NEW L, Chained(K), Chained(L), NEW a \in K, NEW b \in L, {a, b} \in alike
  PROVE  Chained(K \union L)
<1> SUFFICES ASSUME NEW A \in SUBSET (K \union L), A # {}, A # K \union L
             PROVE  \E x \in A, y \in (K \union L) \ A : {x, y} \in alike
  BY DEF Chained
<1>1. CASE A \intersect K \notin {{}, K}
  <2>1. A \intersect K \in (SUBSET K) \ {{}, K}
    BY <1>1
  <2>2. \E x \in A \intersect K, y \in K \ (A \intersect K) : {x, y} \in alike
    BY <2>1 DEF Chained
  <2> QED BY <2>2
<1>2. CASE A \intersect L \notin {{}, L}
  <2>1. A \intersect L \in (SUBSET L) \ {{}, L}
    BY <1>2
  <2>2. \E x \in A \intersect L, y \in L \ (A \intersect L) : {x, y} \in alike
    BY <2>1 DEF Chained
  <2> QED BY <2>2
<1>3. CASE A \intersect K = K /\ A \intersect L = {}
  BY <1>3
<1>4. CASE A \intersect K = {} /\ A \intersect L = L
  <2>1. {b, a} = {a, b}
    OBVIOUS
  <2> QED BY <1>4, <2>1
<1> QED BY <1>1, <1>2, <1>3, <1>4

\* The least of a set of numbers.
LEMMA LeastNumber ==
  ASSUME NEW T \in SUBSET Nat, T # {}
  PROVE  \E x \in T : \A y \in T : x <= y
<1> DEFINE R == {ss \in Nat \X Nat : ss[1] < ss[2]}
<1>1. IsWellFoundedOn(R, Nat)
  BY NatLessThanWellFounded DEF OpToRel
<1>2. PICK x \in T : \A y \in T : ~ (<<y, x>> \in R)
  <2> HIDE DEF R
  <2> QED BY <1>1, WFMin
<1>3. ASSUME NEW y \in T PROVE x <= y
  <2>1. ~(y < x) /\ x \in Nat /\ y \in Nat
    BY <1>2
  <2> QED BY <2>1
<1> QED BY <1>3

\* The loops come to one of the pairs last.
LEMMA LastPairIn ==
  ASSUME NEW pairs \in SUBSET (Nat \X Nat), pairs # {}
  PROVE  LastPair(pairs) \in pairs
<1> DEFINE Last(p) == \A q \in pairs : q[1] > p[1] \/ (q[1] = p[1] /\ q[2] >= p[2])
<1>1. PICK m \in {p[1] : p \in pairs} : \A n \in {p[1] : p \in pairs} : m <= n
  <2> DEFINE T == {p[1] : p \in pairs}
  <2>1. T \in SUBSET Nat /\ T # {}
    OBVIOUS
  <2> HIDE DEF T
  <2>2. \E x \in T : \A y \in T : x <= y
    BY <2>1, LeastNumber
  <2> QED BY <2>2 DEF T
<1> DEFINE P == {p \in pairs : p[1] = m}
<1>2. PICK k \in {p[2] : p \in P} : \A n \in {p[2] : p \in P} : k <= n
  <2> DEFINE T == {p[2] : p \in P}
  <2>1. T \in SUBSET Nat /\ T # {}
    BY <1>1
  <2> HIDE DEF T
  <2>2. \E x \in T : \A y \in T : x <= y
    BY <2>1, LeastNumber
  <2> QED BY <2>2 DEF T
<1>3. PICK p \in pairs : p[1] = m /\ p[2] = k
  BY <1>2
<1>4. ASSUME NEW q \in pairs PROVE q[1] > p[1] \/ (q[1] = p[1] /\ q[2] >= p[2])
  <2>1. q[1] \in Nat /\ q[2] \in Nat /\ m \in Nat /\ k \in Nat
    BY <1>3
  <2>2. m <= q[1] /\ (q[1] = m => k <= q[2])
    BY <1>1, <1>2
  <2> QED BY <1>3, <2>1, <2>2
<1>5. Last(p)
  BY <1>4
<1>6. LastPair(pairs) = CHOOSE o \in pairs : Last(o)
  BY DEF LastPair
<1> HIDE DEF Last
<1> QED BY <1>5, <1>6

\* What the structure is after the loops have come to some of the pairs: all
\* similar ones of them have one root, and a class has no part that no similar pair
\* ties to the rest.
Grouped(S, f, pairs) ==
  /\ Leads(f, S)
  /\ \A p \in pairs : {p[1], p[2]} \in alike => Root(f)[p[1]] = Root(f)[p[2]]
  /\ \A r \in S : Chained({x \in S : Root(f)[x] = r})

LEMMA JoinedSound ==
  ASSUME NEW S, IsFiniteSet(S), NEW pairs \in SUBSET (S \X S), NEW p \in pairs, NEW f,
         Grouped(S, f, pairs \ {p})
  PROVE  Grouped(S, Joined(p, f), pairs)
<1> DEFINE g == Joined(p, f)
           a == p[1]
           b == p[2]
           root == Root(f)
           Of(r) == {x \in S : root[x] = r}
<1>1. a \in S /\ b \in S /\ p = <<a, b>> /\ Leads(f, S) /\ root \in [S -> S]
  BY RootRule DEF Grouped
<1>2. /\ \A q \in pairs \ {p} : {q[1], q[2]} \in alike => root[q[1]] = root[q[2]]
      /\ \A r \in S : Chained(Of(r))
  BY DEF Grouped
<1> HIDE DEF a, b
<1>3. CASE {a, b} \notin alike
  BY <1>2, <1>3 DEF Joined, Grouped, a, b
<1>4. CASE {a, b} \in alike
  <2> DEFINE new == Root(g)
             Now(r) == {x \in S : new[x] = r}
  <2>1. g = Unite(f, a, b)
    BY <1>4 DEF Joined, a, b
  <2>2. Leads(g, S) /\ \A y \in S : new[y] = IF root[y] = root[b] THEN root[a] ELSE root[y]
    <3>1. /\ Leads(Unite(f, a, b), S)
          /\ \A y \in S : Root(Unite(f, a, b))[y] =
                            IF Root(f)[y] = Root(f)[b] THEN Root(f)[a] ELSE Root(f)[y]
      <4>1. Leads(f, S) /\ a \in S /\ b \in S
        BY <1>1
      <4> HIDE DEF g, root
      <4> QED BY <4>1, UniteMerges
    <3> HIDE DEF g
    <3> QED BY <2>1, <3>1
  <2> HIDE DEF g, new, root
  <2>3. ASSUME NEW q \in pairs, {q[1], q[2]} \in alike PROVE new[q[1]] = new[q[2]]
    <3>1. q[1] \in S /\ q[2] \in S
      OBVIOUS
    <3>2. CASE q = p
      BY <1>1, <2>2, <3>2 DEF a, b
    <3>3. CASE q # p
      BY <1>2, <2>2, <2>3, <3>1, <3>3
    <3> QED BY <3>2, <3>3
  <2>4. ASSUME NEW r \in S PROVE Chained(Now(r))
    <3>1. CASE r = root[a] /\ root[a] # root[b]
      <4>1. Now(r) = Of(root[a]) \union Of(root[b])
        BY <2>2, <3>1
      <4>2. Chained(Of(root[a])) /\ Chained(Of(root[b])) /\ a \in Of(root[a]) /\ b \in Of(root[b])
        BY <1>1, <1>2
      <4> HIDE DEF Of, Now
      <4>3. Chained(Of(root[a]) \union Of(root[b]))
        BY <1>4, <4>2, ChainedTogether
      <4> QED BY <4>1, <4>3
    <3>2. CASE r # root[a] /\ r = root[b]
      <4>1. Now(r) = {}
        BY <2>2, <3>2
      <4> HIDE DEF Now
      <4> QED BY <4>1 DEF Chained
    <3>3. CASE root[a] = root[b] \/ (r # root[a] /\ r # root[b])
      <4>1. Now(r) = Of(r)
        BY <2>2, <3>3
      <4> HIDE DEF Now, Of
      <4> QED BY <1>2, <4>1
    <3> QED BY <3>1, <3>2, <3>3
  <2> QED BY <2>2, <2>3, <2>4 DEF Grouped, g, new
<1> QED BY <1>3, <1>4

LEMMA UnitedSound ==
  ASSUME NEW S \in SUBSET Nat, IsFiniteSet(S)
  PROVE  Grouped(S, United(S), Pairs(S))
<1> DEFINE P == Pairs(S)
           start == [x \in S |-> x]
           V == {f \in [S -> S] : Leads(f, S)}
           Value(w, s) == IF s = {} THEN start ELSE Joined(LastPair(s), w[s \ {LastPair(s)}])
           Is(w) == w = [s \in SUBSET P |-> Value(w, s)]
           d == [s \in SUBSET P |-> IF s = {} THEN {} ELSE s \ {LastPair(s)}]
<1>1. P \subseteq S \X S /\ P \subseteq Nat \X Nat /\ IsFiniteSet(P) /\ IsFiniteSet(SUBSET P)
  <2>1. P \subseteq S \X S
    BY DEF Pairs
  <2>2. IsFiniteSet(S \X S)
    BY FS_Product
  <2>3. IsFiniteSet(P)
    BY <2>1, <2>2, FS_Subset
  <2>4. IsFiniteSet(SUBSET P)
    BY <2>3, FS_SUBSET
  <2> QED BY <2>1, <2>3, <2>4
<1>2. \A s \in SUBSET P : s # {} => LastPair(s) \in s
  BY <1>1, LastPairIn
<1> HIDE DEF P
<1>3. Leads(d, SUBSET P)
  <2>1. d \in [SUBSET P -> SUBSET P]
    OBVIOUS
  <2>2. ASSUME NEW A \in SUBSET SUBSET P, A # {}
        PROVE  \E T \in A : d[T] = T \/ d[T] \notin A
    <3>1. PICK T \in A : \A U \in A : U \subseteq T => U = T
      BY <1>1, <2>2, MinimalSubset
    <3>2. CASE T = {}
      BY <3>2
    <3>3. CASE T # {}
      <4>1. d[T] = T \ {LastPair(T)} /\ d[T] # T
        BY <1>2, <3>3
      <4> QED BY <3>1, <4>1
    <3> QED BY <3>2, <3>3
  <2> HIDE DEF d
  <2> QED BY <2>1, <2>2 DEF Leads
<1>4. start \in V
  <2>1. Leads(start, S)
    BY DEF Leads
  <2> QED BY <2>1
<1>5. ASSUME NEW s \in SUBSET P, s # {}, NEW f \in V PROVE Joined(LastPair(s), f) \in V
  <2>1. /\ LastPair(s)[1] \in S /\ LastPair(s)[2] \in S
        /\ Leads(f, S) /\ f \in [S -> S]
    BY <1>1, <1>2, <1>5
  <2>2. Leads(Unite(f, LastPair(s)[1], LastPair(s)[2]), S)
    BY <2>1, UniteMerges
  <2>3. Joined(LastPair(s), f) \in {f, Unite(f, LastPair(s)[1], LastPair(s)[2])}
    BY DEF Joined
  <2> QED BY <2>1, <2>2, <2>3 DEF Leads
<1> HIDE DEF V, start
<1>6. \E w : Is(w)
  <2> DEFINE base == [s \in SUBSET P |-> start]
             G == [q \in (SUBSET P) \X V |-> IF q[1] = {} THEN start ELSE Joined(LastPair(q[1]), q[2])]
  <2>1. base \in [SUBSET P -> V] /\ G \in [(SUBSET P) \X V -> V]
    BY <1>4, <1>5
  <2>2. /\ \A s \in SUBSET P : base[s] = start
        /\ \A s \in SUBSET P, f \in V : s # {} => G[<<s, f>>] = Joined(LastPair(s), f)
    OBVIOUS
  <2>3. \A s \in SUBSET P : /\ d[s] \in SUBSET P /\ (d[s] = s <=> s = {})
                            /\ s # {} => d[s] = s \ {LastPair(s)}
    BY <1>2
  <2> HIDE DEF base, G, d
  <2>4. PICK w \in [SUBSET P -> V] :
          \A s \in SUBSET P : w[s] = IF d[s] = s THEN base[s] ELSE G[<<s, w[d[s]]>>]
    <3> DEFINE D == SUBSET P
    <3> HIDE DEF D
    <3>1. IsFiniteSet(D) /\ Leads(d, D) /\ base \in [D -> V] /\ G \in [D \X V -> V]
      BY <1>1, <1>3, <2>1 DEF D
    <3>2. \E w \in [D -> V] : \A s \in D : w[s] = IF d[s] = s THEN base[s] ELSE G[<<s, w[d[s]]>>]
      BY <3>1, Recursion
    <3> QED BY <3>2 DEF D
  <2>5. ASSUME NEW s \in SUBSET P PROVE w[s] = Value(w, s)
    <3>1. CASE s = {}
      BY <2>2, <2>3, <2>4, <3>1
    <3>2. CASE s # {}
      <4>1. w[d[s]] \in V
        BY <2>3, <2>4
      <4>2. w[s] = G[<<s, w[d[s]]>>]
        BY <2>3, <2>4, <3>2
      <4>3. w[s] = Joined(LastPair(s), w[d[s]])
        BY <2>2, <3>2, <4>1, <4>2
      <4>4. d[s] = s \ {LastPair(s)}
        BY <2>3, <3>2
      <4> QED BY <3>2, <4>3, <4>4
    <3> QED BY <3>1, <3>2
  <2> HIDE DEF Value
  <2>6. Is(w)
    BY <2>4, <2>5
  <2> QED BY <2>6
<1> DEFINE iter == CHOOSE w : Is(w)
<1>7. United(S) = iter[P]
  BY DEF United, MapThenFoldSet, P, Pairs, start
<1>8. Is(iter)
  <2> HIDE DEF Is
  <2> QED BY <1>6
<1>9. \A s \in SUBSET P : iter[s] = Value(iter, s)
  <2> HIDE DEF Value, iter
  <2> QED BY <1>8
<1> HIDE DEF iter, d
<1> DEFINE A == {s \in SUBSET P : ~Grouped(S, iter[s], s)}
<1>10. A = {}
  <2>1. ASSUME A # {} PROVE FALSE
    <3>1. PICK T \in A : \A U \in A : U \subseteq T => U = T
      <4> HIDE DEF A
      <4>1. A \in SUBSET SUBSET P
        BY DEF A
      <4> QED BY <1>1, <2>1, <4>1, MinimalSubset
    <3>2. CASE T = {}
      <4>1. iter[T] = start
        BY <1>9, <3>2
      <4>2. Leads(start, S) /\ \A x \in S : Root(start)[x] = x
        <5>1. Leads(start, S)
          BY <1>4 DEF V
        <5>2. \A x \in S : Root(start)[x] = IF start[x] = x THEN x ELSE Root(start)[start[x]]
          BY <5>1, RootRule
        <5>3. \A x \in S : start[x] = x
          BY DEF start
        <5> QED BY <5>1, <5>2, <5>3
      <4>3. \A r \in S : {x \in S : Root(start)[x] = r} = {r}
        BY <4>2
      <4>4. \A r \in S : Chained({r})
        BY DEF Chained
      <4> QED BY <3>2, <4>1, <4>2, <4>3, <4>4 DEF Grouped
    <3>3. CASE T # {}
      <4>1. LastPair(T) \in T /\ iter[T] = Joined(LastPair(T), iter[T \ {LastPair(T)}])
        BY <1>2, <1>9, <3>3
      <4>2. T \ {LastPair(T)} \in SUBSET P /\ T \ {LastPair(T)} \notin A
        BY <3>1, <4>1
      <4>3. Grouped(S, iter[T \ {LastPair(T)}], T \ {LastPair(T)})
        BY <4>2
      <4>4. T \in SUBSET (S \X S)
        BY <1>1
      <4>5. Grouped(S, iter[T], T)
        BY <4>1, <4>3, <4>4, JoinedSound
      <4> QED BY <4>5
    <3> QED BY <3>2, <3>3
  <2> QED BY <2>1
<1> QED BY <1>7, <1>10 DEF P

\* The items with one root are a class of the similarity.
LEMMA RootsAreClasses ==
  ASSUME NEW S \in SUBSET Nat, IsFiniteSet(S), NEW r \in S
  PROVE  Class({x \in S : Root(United(S))[x] = r}, S)
<1> DEFINE root == Root(United(S))
           k == {x \in S : root[x] = r}
<1>1. Grouped(S, United(S), Pairs(S))
  BY UnitedSound
<1>2. Chained(k)
  BY <1>1 DEF Grouped
<1>3. ASSUME NEW x \in k, NEW y \in S \ k PROVE {x, y} \notin alike
  <2>1. x \in S /\ y \in S /\ root[x] = r /\ root[y] # r
    OBVIOUS
  <2>2. \A p \in Pairs(S) : {p[1], p[2]} \in alike => root[p[1]] = root[p[2]]
    BY <1>1 DEF Grouped
  <2> HIDE DEF root
  <2>3. CASE x > y
    <3>1. <<x, y>> \in Pairs(S)
      BY <2>1, <2>3 DEF Pairs
    <3> QED BY <2>1, <2>2, <3>1
  <2>4. CASE y > x
    <3>1. <<y, x>> \in Pairs(S) /\ {y, x} = {x, y}
      BY <2>1, <2>4 DEF Pairs
    <3> QED BY <2>1, <2>2, <3>1
  <2>5. x > y \/ y > x
    <3>1. x \in Nat /\ y \in Nat /\ x # y
      BY <2>1
    <3> QED BY <3>1
  <2> QED BY <2>3, <2>4, <2>5
<1> QED BY <1>2, <1>3 DEF Class

\* A class that has an item of another class is that class.
LEMMA ClassesApart ==
  ASSUME NEW S, NEW k, NEW m, Class(k, S), Class(m, S), k \intersect m # {}
  PROVE  k \subseteq m
<1>1. ASSUME ~(k \subseteq m) PROVE FALSE
  <2> DEFINE A == k \intersect m
  <2>1. A \in (SUBSET k) \ {{}, k}
    BY <1>1
  <2>2. PICK x \in A, y \in k \ A : {x, y} \in alike
    BY <2>1 DEF Class, Chained
  <2>3. x \in m /\ y \in S \ m
    BY <2>2 DEF Class
  <2> QED BY <2>2, <2>3 DEF Class
<1> QED BY <1>1

\* On any items, the groups of analyzeRepository are exactly the classes of the
\* similarity with two items and more: union-find (UnionFind.union, find), with the
\* shortening of ways and the order of the loops, returns what it is meant to.
THEOREM UnionFindIsExact ==
  ASSUME NEW S \in SUBSET Nat, IsFiniteSet(S)
  PROVE  Duplicates(S) = {k \in SUBSET S : Class(k, S) /\ Cardinality(k) >= 2}
<1> DEFINE root == Root(United(S))
           Of(r) == {x \in S : root[x] = r}
<1>1. Duplicates(S) = {k \in {Of(r) : r \in S} : Cardinality(k) >= 2}
  BY DEF Duplicates
<1>2. \A r \in S : Class(Of(r), S)
  BY RootsAreClasses
<1>3. \A x \in S : root[x] \in S
  <2>1. Leads(United(S), S)
    BY UnitedSound DEF Grouped
  <2> QED BY <2>1, RootRule
<1> HIDE DEF root
<1>4. ASSUME NEW k \in SUBSET S, Class(k, S), Cardinality(k) >= 2
      PROVE  \E r \in S : k = Of(r)
  <2>1. k # {}
    BY <1>4, FS_EmptySet
  <2>2. PICK x : x \in k
    BY <2>1
  <2> DEFINE m == Of(root[x])
  <2>3. x \in m /\ Class(m, S)
    BY <1>2, <1>3, <2>2
  <2> HIDE DEF m
  <2>4. k = m
    BY <1>4, <2>2, <2>3, ClassesApart
  <2> QED BY <1>3, <2>2, <2>4 DEF m
<1>5. \A r \in S : Of(r) \in SUBSET S
  OBVIOUS
<1> HIDE DEF Of
<1> QED BY <1>1, <1>2, <1>4, <1>5

-----------------------------------------------------------------------------
(* The analyses                                                            *)

\* The groups of a set of items are subsets of it and have no item in common:
\* whatever the structure is, an item has one root in it.
LEMMA DuplicatesApart ==
  ASSUME NEW S
  PROVE  /\ Duplicates(S) \subseteq SUBSET S
         /\ \A k, m \in Duplicates(S) : k # m => k \intersect m = {}
<1> DEFINE root == Root(United(S))
           Of(r) == {x \in S : root[x] = r}
<1>1. Duplicates(S) \subseteq {Of(r) : r \in S}
  BY DEF Duplicates
<1> HIDE DEF root
<1> QED BY <1>1

\* At most one analysis in flight.
LEMMA OneBusy ==
  ASSUME NEW S, IsFiniteSet(S), Cardinality(S) <= 1, NEW s \in S, NEW t \in S
  PROVE  s = t
<1>1. Cardinality(S) \in Nat
  BY FS_CardinalityType
<1>2. Cardinality(S) # 0
  BY FS_EmptySet
<1>3. PICK x : S = {x}
  <2>1. Cardinality(S) = 1
    BY <1>1, <1>2
  <2> QED BY <2>1, FS_Singleton
<1> QED BY <1>3

LEMMA GroupFacts ==
  ASSUME GroupInv, NEW s \in Studies
  PROVE  /\ group \subseteq Group /\ priority \subseteq Issues
         /\ study \in [Studies -> Study] /\ study[s] \in Study
         /\ s \in Busy => /\ study[s].repo \in Repos
                          /\ study[s].items \subseteq OfRepo(study[s].repo)
                          /\ \A k \in study[s].todo : k \subseteq OfRepo(study[s].repo)
         /\ \A g \in group : g.key \subseteq OfRepo(g.repo)
         /\ ~overlap => \A g, h \in group : g # h => g.key \intersect h.key = {}
         /\ ~overlap /\ s \in Busy => Cleared(s)
  BY DEF GroupInv, TypeOK, AtHome, OneGroupApart

\* After a step of an analysis no other is in flight unless analyses overlap.
LEMMA StudyAlone ==
  ASSUME GroupInv, NEW s \in Studies, NEW l \in Study, Moves(s, l),
         s \in Busy \/ l.pc = "clear", overlap' = (overlap \/ Cardinality(Busy') > 1)
  PROVE  /\ study' \in [Studies -> Study] /\ study'[s] = l
         /\ \A t \in Studies : t # s => study'[t] = study[t]
         /\ IsFiniteSet(Busy') /\ Cardinality(Busy') \in Nat /\ Busy' \subseteq Busy \union {s}
         /\ ~overlap' => ~overlap /\ Cardinality(Busy') <= 1 /\ \A t \in Busy' : t = s
<1>1. study \in [Studies -> Study]
  BY GroupFacts
<1>2. /\ study' \in [Studies -> Study] /\ study'[s] = l
      /\ \A t \in Studies : t # s => study'[t] = study[t]
  BY <1>1 DEF Moves
<1>3. Busy' \subseteq Busy \union {s}
  BY <1>2 DEF Busy
<1>4. IsFiniteSet(Busy) /\ IsFiniteSet(Busy')
  <2>1. IsFiniteSet(Busy)
    BY DEF GroupInv
  <2>2. IsFiniteSet(Busy \union {s})
    BY <2>1, FS_AddElement
  <2> QED BY <1>3, <2>1, <2>2, FS_Subset
<1>5. Cardinality(Busy') \in Nat
  BY <1>4, FS_CardinalityType
<1>6. ~overlap' => ~overlap /\ Cardinality(Busy') <= 1 /\ Cardinality(Busy) <= 1
  <2>1. ~overlap' => ~overlap /\ ~(Cardinality(Busy') > 1)
    BY Zenon
  <2>2. ~overlap => Cardinality(Busy) <= 1
    BY DEF GroupInv
  <2>3. ~(Cardinality(Busy') > 1) => Cardinality(Busy') <= 1
    BY <1>5
  <2> QED BY <2>1, <2>2, <2>3
<1>7. ASSUME ~overlap', NEW t \in Busy' PROVE t = s
  <2>1. CASE s \in Busy
    BY <1>3, <1>4, <1>6, <1>7, <2>1, OneBusy
  <2>2. CASE l.pc = "clear"
    <3>1. s \in Busy'
      BY <1>2, <2>2 DEF Busy
    <3> QED BY <1>4, <1>6, <1>7, <3>1, OneBusy
  <2> QED BY <2>1, <2>2
<1> QED BY <1>2, <1>3, <1>4, <1>5, <1>6, <1>7

\* A step of an analysis: the others are as they were, and not in flight unless
\* analyses overlap.
LEMMA StudyFrame ==
  ASSUME GroupInv, BacklogTypes', NEW s \in Studies, NEW l \in Study, Moves(s, l),
         l.pc \in {"clear", "group", "member", "classify", "done", "failed"},
         s \in Busy \/ l.pc = "clear",
         overlap' = (overlap \/ Cardinality(Busy') > 1),
         group' \subseteq Group, priority' \subseteq Issues,
         l.repo \in Repos, l.items \subseteq OfRepo(l.repo),
         \A k \in l.todo : k \subseteq OfRepo(l.repo),
         \A g \in group' : g.key \subseteq OfRepo(g.repo),
         ~overlap => \A g, h \in group' : g # h => g.key \intersect h.key = {},
         ~overlap => Cleared(s)'
  PROVE  GroupInv'
<1>1. /\ study' \in [Studies -> Study] /\ study'[s] = l
      /\ \A t \in Studies : t # s => study'[t] = study[t]
      /\ IsFiniteSet(Busy') /\ Busy' \subseteq Busy \union {s}
      /\ ~overlap' => ~overlap /\ Cardinality(Busy') <= 1 /\ \A t \in Busy' : t = s
  BY StudyAlone
<1>2. TypeOK'
  BY <1>1 DEF TypeOK
<1>3. AtHome'
  <2>1. ASSUME NEW t \in Busy'
        PROVE  /\ study'[t].repo \in Repos /\ study'[t].items \subseteq OfRepo(study'[t].repo)
               /\ \A k \in study'[t].todo : k \subseteq OfRepo(study'[t].repo)
    <3>1. t # s => t \in Busy /\ t \in Studies
      BY <1>1, <2>1 DEF Busy
    <3> QED BY <1>1, <3>1, GroupFacts
  <2> QED BY <2>1 DEF AtHome, OfRepo
<1>4. OneGroupApart'
  BY <1>1 DEF OneGroupApart
<1>5. ~overlap' => \A t \in Busy' : Cleared(t)'
  BY <1>1
<1> QED BY <1>1, <1>2, <1>3, <1>4, <1>5 DEF GroupInv

LEMMA StartAnalysisStep ==
  ASSUME GroupInv, BacklogTypes', NEW s \in Studies, StartAnalysis(s),
         overlap' = (overlap \/ Cardinality(Busy') > 1)
  PROVE  GroupInv'
<1>1. PICK r \in Repos :
        Moves(s, [NoStudy EXCEPT !.pc = "clear", !.repo = r,
                                 !.items = {i \in Issues : RepoOf[i] = r /\ item[i] # "none"}])
  BY DEF StartAnalysis
<1> DEFINE items == {i \in Issues : RepoOf[i] = r /\ item[i] # "none"}
           l == [NoStudy EXCEPT !.pc = "clear", !.repo = r, !.items = items]
<1>2. items \subseteq OfRepo(r) /\ items \subseteq Issues
  BY DEF OfRepo
<1> HIDE DEF items
<1>3. l \in Study /\ l.pc = "clear" /\ l.repo = r /\ l.items = items /\ l.todo = {}
  BY <1>2 DEF NoStudy, Study
<1> HIDE DEF l
<1>4. Moves(s, l)
  BY <1>1 DEF l, items
<1>5. group' = group /\ priority' = priority
  BY DEF StartAnalysis
<1>6. Cleared(s)'
  <2>1. study'[s] = l
    BY <1>4, GroupFacts DEF Moves
  <2> QED BY <1>3, <2>1 DEF Cleared
<1> QED BY <1>2, <1>3, <1>4, <1>5, <1>6, GroupFacts, StudyFrame

LEMMA ClearStep ==
  ASSUME GroupInv, BacklogTypes', NEW s \in Studies, Clear(s),
         overlap' = (overlap \/ Cardinality(Busy') > 1)
  PROVE  GroupInv'
<1> DEFINE items == study[s].items
           l == IF items = {} THEN [study[s] EXCEPT !.pc = "done"]
                ELSE [study[s] EXCEPT !.pc = "group", !.todo = Duplicates(items)]
<1>1. /\ study[s].pc = "clear" /\ s \in Busy /\ group' = OthersGroups(study[s].repo)
      /\ priority' = priority /\ Moves(s, l)
  BY DEF Clear, Busy
<1>2. /\ study[s] \in Study /\ items \subseteq Issues /\ items \subseteq OfRepo(study[s].repo)
      /\ study[s].repo \in Repos /\ \A k \in study[s].todo : k \subseteq OfRepo(study[s].repo)
  BY <1>1, GroupFacts DEF Study
<1>3. /\ Duplicates(items) \subseteq SUBSET items
      /\ \A k, m \in Duplicates(items) : k # m => k \intersect m = {}
  BY DuplicatesApart
<1>4. Duplicates(items) \subseteq SUBSET Issues
  BY <1>2, <1>3
<1>5. /\ l \in Study /\ l.repo = study[s].repo /\ l.items = items /\ l.pc \in {"done", "group"}
      /\ l.pc = "group" => l.todo = Duplicates(items)
      /\ l.pc = "done" => l.todo = study[s].todo
  BY <1>2, <1>4 DEF Study
<1> HIDE DEF l, items
<1>6. \A k \in l.todo : k \subseteq OfRepo(l.repo)
  BY <1>2, <1>3, <1>5
<1>7. group' \subseteq group /\ \A g \in group' : g.repo # study[s].repo
  BY <1>1 DEF OthersGroups
<1>8. Cleared(s)'
  <2>1. study'[s] = l
    BY <1>1, GroupFacts DEF Moves
  <2> QED BY <1>3, <1>5, <1>7, <2>1 DEF Cleared
<1>9. /\ group' \subseteq Group /\ \A g \in group' : g.key \subseteq OfRepo(g.repo)
      /\ ~overlap => \A g, h \in group' : g # h => g.key \intersect h.key = {}
      /\ priority' \subseteq Issues
  BY <1>1, <1>7, GroupFacts
<1> QED BY <1>1, <1>2, <1>5, <1>6, <1>8, <1>9, StudyFrame

\* An analysis goes on with what it holds, and leaves the groups alone.
LEMMA StudyGoes ==
  ASSUME GroupInv, BacklogTypes', NEW s \in Busy, NEW l \in Study, Moves(s, l),
         l.repo = study[s].repo, l.items = study[s].items, l.todo \subseteq study[s].todo,
         l.pc \in {"group", "classify", "done", "failed"},
         l.pc = "group" => study[s].pc = "member",
         UNCHANGED group, priority' \subseteq Issues,
         overlap' = (overlap \/ Cardinality(Busy') > 1)
  PROVE  GroupInv'
<1>1. s \in Studies
  BY DEF Busy
<1>2. study'[s] = l
  BY <1>1, GroupFacts DEF Moves
<1>3. ~overlap => Cleared(s)'
  BY <1>1, <1>2, GroupFacts DEF Cleared
<1> QED BY <1>1, <1>3, GroupFacts, StudyFrame

LEMMA CreateGroupStep ==
  ASSUME GroupInv, BacklogTypes', NEW s \in Studies, CreateGroup(s),
         overlap' = (overlap \/ Cardinality(Busy') > 1)
  PROVE  GroupInv'
<1> DEFINE r == study[s].repo
<1>1. study[s].pc = "group" /\ s \in Busy /\ priority' = priority
  BY DEF CreateGroup, Busy
<1>2. /\ study[s] \in Study /\ study[s].items \subseteq Issues /\ r \in Repos
      /\ study[s].todo \subseteq SUBSET Issues
      /\ \A k \in study[s].todo : k \subseteq OfRepo(r)
      /\ study[s].items \subseteq OfRepo(r)
      /\ priority' \subseteq Issues
  BY <1>1, GroupFacts DEF Study
<1>3. CASE Moves(s, [study[s] EXCEPT !.pc = "classify", !.left = study[s].items]) /\ UNCHANGED group
  <2> DEFINE l == [study[s] EXCEPT !.pc = "classify", !.left = study[s].items]
  <2>1. /\ l \in Study /\ l.repo = r /\ l.items = study[s].items /\ l.todo = study[s].todo
        /\ l.pc = "classify"
    BY <1>2 DEF Study
  <2>2. Moves(s, l)
    BY <1>3
  <2> HIDE DEF l
  <2> QED BY <1>1, <1>2, <1>3, <2>1, <2>2, StudyGoes
<1>4. CASE Moves(s, [study[s] EXCEPT !.pc = "failed"]) /\ UNCHANGED group
  <2> DEFINE l == [study[s] EXCEPT !.pc = "failed"]
  <2>1. /\ l \in Study /\ l.repo = r /\ l.items = study[s].items /\ l.todo = study[s].todo
        /\ l.pc = "failed"
    BY <1>2 DEF Study
  <2>2. Moves(s, l)
    BY <1>4
  <2> HIDE DEF l
  <2> QED BY <1>1, <1>2, <1>4, <2>1, <2>2, StudyGoes
<1>5. ASSUME NEW k \in study[s].todo,
             group' = group \union {[repo |-> r, key |-> k, by |-> s, has |-> {}]},
             Moves(s, [study[s] EXCEPT !.pc = "member", !.key = k, !.left = k,
                                       !.todo = study[s].todo \ {k}])
      PROVE  GroupInv'
  <2> DEFINE l == [study[s] EXCEPT !.pc = "member", !.key = k, !.left = k,
                                   !.todo = study[s].todo \ {k}]
             new == [repo |-> r, key |-> k, by |-> s, has |-> {}]
  <2>1. k \subseteq Issues /\ k \subseteq OfRepo(r)
    BY <1>2
  <2>2. /\ l \in Study /\ l.repo = r /\ l.items = study[s].items /\ l.todo = study[s].todo \ {k}
        /\ l.pc = "member"
    BY <1>2, <2>1 DEF Study
  <2>3. Moves(s, l)
    BY <1>5
  <2> HIDE DEF l
  <2>4. new \in Group /\ new.repo = r /\ new.key = k
    BY <1>2, <2>1 DEF Group
  <2> HIDE DEF new
  <2>5. group' = group \union {new}
    BY <1>5 DEF new
  <2>6. \A g \in group : g.key \subseteq OfRepo(g.repo)
    BY GroupFacts
  <2>7. ~overlap => \A g \in group : g.key \intersect k = {}
    <3>1. ASSUME ~overlap, NEW g \in group PROVE g.key \intersect k = {}
      <4>1. CASE g.repo = r
        BY <1>1, <3>1, <4>1, GroupFacts DEF Cleared
      <4>2. CASE g.repo # r
        BY <2>1, <2>6, <4>2 DEF OfRepo
      <4> QED BY <4>1, <4>2
    <3> QED BY <3>1
  <2>8. ~overlap => \A g, h \in group' : g # h => g.key \intersect h.key = {}
    BY <2>4, <2>5, <2>7, GroupFacts
  <2>9. ~overlap => Cleared(s)'
    <3>1. study'[s] = l
      BY <2>3, GroupFacts DEF Moves
    <3>2. ASSUME ~overlap
          PROVE  /\ \A m, n \in l.todo : m # n => m \intersect n = {}
                 /\ \A m \in l.todo, g \in group' : g.repo = l.repo => g.key \intersect m = {}
      <4>1. /\ \A m, n \in study[s].todo : m # n => m \intersect n = {}
            /\ \A m \in study[s].todo, g \in group : g.repo = r => g.key \intersect m = {}
        BY <1>1, <3>2, GroupFacts DEF Cleared
      <4> QED BY <2>2, <2>4, <2>5, <4>1
    <3> QED BY <3>1, <3>2 DEF Cleared
  <2>10. group' \subseteq Group /\ \A g \in group' : g.key \subseteq OfRepo(g.repo)
    BY <2>1, <2>4, <2>5, <2>6, GroupFacts
  <2> QED BY <1>1, <1>2, <2>2, <2>3, <2>8, <2>9, <2>10, StudyFrame
<1> QED BY <1>3, <1>4, <1>5 DEF CreateGroup

LEMMA AddMemberStep ==
  ASSUME GroupInv, BacklogTypes', NEW s \in Studies, AddMember(s),
         overlap' = (overlap \/ Cardinality(Busy') > 1)
  PROVE  GroupInv'
<1> DEFINE Written(g) == g.by = s /\ g.key = study[s].key
<1>1. study[s].pc = "member" /\ s \in Busy /\ priority' = priority
  BY DEF AddMember, Busy
<1>2. /\ study[s] \in Study /\ study[s].left \subseteq Issues /\ priority' \subseteq Issues
      /\ study[s].repo \in Repos /\ study[s].items \subseteq OfRepo(study[s].repo)
      /\ \A k \in study[s].todo : k \subseteq OfRepo(study[s].repo)
  BY <1>1, GroupFacts DEF Study
<1>3. ASSUME NEW pc \in {"group", "failed"}, Moves(s, [study[s] EXCEPT !.pc = pc]), UNCHANGED group
      PROVE  GroupInv'
  <2> DEFINE l == [study[s] EXCEPT !.pc = pc]
  <2>1. /\ l \in Study /\ l.repo = study[s].repo /\ l.items = study[s].items
        /\ l.todo = study[s].todo /\ l.pc = pc
    BY <1>2 DEF Study
  <2>2. Moves(s, l)
    BY <1>3
  <2> HIDE DEF l
  <2> QED BY <1>1, <1>2, <1>3, <2>1, <2>2, StudyGoes
<1>4. ASSUME NEW i \in study[s].left, Moves(s, [study[s] EXCEPT !.left = study[s].left \ {i}]),
             group' = {IF Written(g) THEN [g EXCEPT !.has = g.has \union {i}] ELSE g : g \in group}
      PROVE  GroupInv'
  <2> DEFINE l == [study[s] EXCEPT !.left = study[s].left \ {i}]
             now(g) == IF Written(g) THEN [g EXCEPT !.has = g.has \union {i}] ELSE g
  <2>1. /\ l \in Study /\ l.repo = study[s].repo /\ l.items = study[s].items
        /\ l.todo = study[s].todo /\ l.pc = "member"
    BY <1>1, <1>2 DEF Study
  <2>2. Moves(s, l)
    BY <1>4
  <2> HIDE DEF l
  <2>3. \A g \in Group : now(g) \in Group /\ now(g).repo = g.repo /\ now(g).key = g.key
    BY <1>2 DEF Group
  <2>4. group' = {now(g) : g \in group} /\ group \subseteq Group
    BY <1>4, GroupFacts
  <2> HIDE DEF now, Written
  <2>5. \A h \in group' : \E g \in group : h = now(g) /\ h.repo = g.repo /\ h.key = g.key
    BY <2>3, <2>4
  <2>6. group' \subseteq Group /\ \A h \in group' : h.key \subseteq OfRepo(h.repo)
    BY <2>3, <2>4, <2>5, GroupFacts
  <2>7. ~overlap => \A g, h \in group' : g # h => g.key \intersect h.key = {}
    <3>1. ~overlap => \A g, h \in group : g # h => g.key \intersect h.key = {}
      BY GroupFacts
    <3> QED BY <2>5, <3>1
  <2>8. ~overlap => Cleared(s)'
    <3>1. study'[s] = l
      BY <2>2, GroupFacts DEF Moves
    <3>2. ASSUME ~overlap
          PROVE  /\ \A m, n \in l.todo : m # n => m \intersect n = {}
                 /\ \A m \in l.todo, g \in group' : g.repo = l.repo => g.key \intersect m = {}
      <4>1. /\ \A m, n \in study[s].todo : m # n => m \intersect n = {}
            /\ \A m \in study[s].todo, g \in group : g.repo = l.repo => g.key \intersect m = {}
        BY <1>1, <2>1, <3>2, GroupFacts DEF Cleared
      <4> QED BY <2>1, <2>5, <4>1
    <3> QED BY <3>1, <3>2 DEF Cleared
  <2> QED BY <1>1, <1>2, <2>1, <2>2, <2>6, <2>7, <2>8, StudyFrame
<1> QED BY <1>3, <1>4 DEF AddMember

LEMMA ClassifyStep ==
  ASSUME GroupInv, BacklogTypes', NEW s \in Studies, Classify(s),
         overlap' = (overlap \/ Cardinality(Busy') > 1)
  PROVE  GroupInv'
<1>1. study[s].pc = "classify" /\ s \in Busy /\ group' = group
  BY DEF Classify, Busy
<1>2. study[s] \in Study /\ study[s].left \subseteq Issues /\ priority \subseteq Issues
  BY GroupFacts DEF Study
<1>3. ASSUME NEW pc \in {"done", "failed"}, Moves(s, [study[s] EXCEPT !.pc = pc]), priority' = priority
      PROVE  GroupInv'
  <2> DEFINE l == [study[s] EXCEPT !.pc = pc]
  <2>1. /\ l \in Study /\ l.repo = study[s].repo /\ l.items = study[s].items
        /\ l.todo = study[s].todo /\ l.pc = pc
    BY <1>2 DEF Study
  <2>2. Moves(s, l)
    BY <1>3
  <2> HIDE DEF l
  <2> QED BY <1>1, <1>2, <1>3, <2>1, <2>2, StudyGoes
<1>4. ASSUME NEW i \in study[s].left, priority' = priority \union {i},
             Moves(s, [study[s] EXCEPT !.left = study[s].left \ {i}])
      PROVE  GroupInv'
  <2> DEFINE l == [study[s] EXCEPT !.left = study[s].left \ {i}]
  <2>1. /\ l \in Study /\ l.repo = study[s].repo /\ l.items = study[s].items
        /\ l.todo = study[s].todo /\ l.pc = "classify"
    BY <1>1, <1>2 DEF Study
  <2>2. Moves(s, l)
    BY <1>4
  <2> HIDE DEF l
  <2> QED BY <1>1, <1>2, <1>4, <2>1, <2>2, StudyGoes
<1> QED BY <1>3, <1>4 DEF Classify

\* A step of the server only takes groups away, and ends analyses.
LEMMA BesideStep ==
  ASSUME GroupInv, BacklogTypes', Beside, overlap' = (overlap \/ Cardinality(Busy') > 1)
  PROVE  GroupInv'
<1> DEFINE ends(s) == ~up' /\ s \in Busy
           now(s) == IF ends(s) THEN [study[s] EXCEPT !.pc = "lost"] ELSE study[s]
<1>1. group' \subseteq group /\ priority' \subseteq priority /\ study' = [s \in Studies |-> now(s)]
  BY DEF Beside
<1>2. ASSUME NEW s \in Studies
      PROVE  now(s) \in Study /\ (now(s) = study[s] \/ now(s).pc = "lost")
  <2>1. study[s] \in Study
    BY GroupFacts
  <2> QED BY <2>1 DEF Study
<1> HIDE DEF now
<1>3. study' \in [Studies -> Study] /\ \A s \in Studies : study'[s] = now(s)
  BY <1>1, <1>2
<1>4. Busy' \subseteq Busy /\ \A s \in Busy' : study'[s] = study[s]
  BY <1>2, <1>3 DEF Busy
<1>5. /\ group \subseteq Group /\ priority \subseteq Issues
      /\ IsFiniteSet(Busy) /\ IsFiniteSet(Busy') /\ Cardinality(Busy') \in Nat
      /\ Cardinality(Busy') <= Cardinality(Busy)
  <2>1. IsFiniteSet(Busy) /\ group \subseteq Group /\ priority \subseteq Issues
    BY DEF GroupInv, TypeOK
  <2> QED BY <1>4, <2>1, FS_Subset, FS_CardinalityType
<1>6. ~overlap' => ~overlap /\ Cardinality(Busy') <= 1
  <2>1. ~overlap' => ~overlap /\ ~(Cardinality(Busy') > 1)
    BY Zenon
  <2>2. ~(Cardinality(Busy') > 1) => Cardinality(Busy') <= 1
    BY <1>5
  <2> QED BY <2>1, <2>2
<1>7. TypeOK'
  BY <1>1, <1>3, <1>5 DEF TypeOK
<1>8. AtHome'
  BY <1>1, <1>4 DEF GroupInv, AtHome, OfRepo
<1>9. OneGroupApart'
  BY <1>1, <1>6 DEF GroupInv, OneGroupApart
<1>10. ~overlap' => \A s \in Busy' : Cleared(s)'
  <2>1. ASSUME ~overlap', NEW s \in Busy' PROVE Cleared(s)'
    <3>1. Cleared(s) /\ study'[s] = study[s]
      BY <1>4, <1>6, <2>1 DEF GroupInv
    <3> QED BY <1>1, <3>1 DEF Cleared
  <2> QED BY <2>1
<1> QED BY <1>5, <1>6, <1>7, <1>8, <1>9, <1>10 DEF GroupInv

LEMMA GroupInit ==
  ASSUME Init
  PROVE  GroupInv
<1>1. NoStudy \in Study /\ NoStudy.pc = "idle"
  BY DEF NoStudy, Study
<1>2. study = [s \in Studies |-> NoStudy] /\ group = {} /\ priority = {}
  BY DEF Init
<1>3. Busy = {}
  BY <1>1, <1>2 DEF Busy
<1>4. TypeOK
  BY <1>1, <1>2, SyncInit DEF TypeOK, SyncInv
<1>5. AtHome /\ OneGroupApart
  BY <1>2, <1>3 DEF AtHome, OneGroupApart
<1>6. IsFiniteSet(Busy) /\ Cardinality(Busy) <= 1
  BY <1>3, FS_EmptySet
<1> QED BY <1>3, <1>4, <1>5, <1>6 DEF GroupInv

LEMMA GroupNext ==
  ASSUME GroupInv, BacklogTypes', [Next]_vars
  PROVE  GroupInv'
<1>1. CASE Next
  <2>1. overlap' = (overlap \/ Cardinality(Busy') > 1)
    BY <1>1 DEF Next
  <2>2. ASSUME NEW s \in Studies, StudyStep(s) PROVE GroupInv'
    BY <2>1, <2>2, StartAnalysisStep, ClearStep, CreateGroupStep, AddMemberStep, ClassifyStep
       DEF StudyStep, Analyses
  <2>3. ASSUME Beside PROVE GroupInv'
    BY <2>1, <2>3, BesideStep
  <2> QED BY <1>1, <2>2, <2>3 DEF Next, CallStep
<1>2. CASE UNCHANGED vars
  <2>1. UNCHANGED <<group, priority, study, overlap>>
    BY <1>2 DEF vars, analysis
  <2> QED BY <2>1 DEF GroupInv, TypeOK, AtHome, OneGroupApart, Cleared, Busy, OfRepo
<1> QED BY <1>1, <1>2

LEMMA GroupAlways == Spec => []GroupInv
<1>1. Init => GroupInv
  BY GroupInit
<1>2. GroupInv /\ BacklogTypes' /\ [Next]_vars => GroupInv'
  BY GroupNext
<1>3. SyncInv => BacklogTypes
  BY DEF SyncInv
<1> QED BY <1>1, <1>2, <1>3, SyncAlways, PTL DEF Spec

\* The rows, the calls, the groups and the analyses are of their kinds.
THEOREM BacklogKinds == Spec => []TypeOK
<1>1. GroupInv => TypeOK
  BY DEF GroupInv
<1> QED BY <1>1, GroupAlways, PTL

\* Analyses one after the other put no item into two groups: each takes the groups
\* of its repository away before it writes those of the one structure it built
\* (AnalysisService.analyzeRepository), even when the one before it failed half-way.
THEOREM GroupsStayApart == Spec => []OneGroupApart
<1>1. GroupInv => OneGroupApart
  BY DEF GroupInv
<1> QED BY <1>1, GroupAlways, PTL

\* Class, for the pairs R that are alike.
ClassOf(k, S, R) ==
  /\ k \subseteq S
  /\ \A A \in (SUBSET k) \ {{}, k} : \E x \in A, y \in k \ A : {x, y} \in R
  /\ \A x \in k, y \in S \ k : {x, y} \notin R

ClassesHold(grp, std, R) ==
  /\ \A g \in grp : ClassOf(g.key, std[g.by].items, R) /\ std[g.by].pc # "idle"
  /\ \A s \in Studies :
       std[s].pc \in {"group", "member"} => \A k \in std[s].todo : ClassOf(k, std[s].items, R)

LEMMA ClassInvMeans ==
  /\ ClassInv <=> ClassesHold(group, study, alike)
  /\ ClassInv' <=> ClassesHold(group', study', alike')
  BY DEF ClassInv, GroupsAreClasses, Class, Chained, ClassesHold, ClassOf

\* A step of an analysis that keeps the items it read, if it has read them, writes
\* classes of them only and plans to write no others.
LEMMA ClassFrame ==
  ASSUME TypeOK, ClassInv, UNCHANGED alike, NEW s \in Studies, NEW l \in Study, Moves(s, l),
         l.pc # "idle", study[s].pc = "idle" \/ l.items = study[s].items,
         l.pc \in {"group", "member"} => \A k \in l.todo : ClassOf(k, l.items, alike),
         \A h \in group' : \/ \E g \in group : h.key = g.key /\ h.by = g.by
                           \/ h.by = s /\ ClassOf(h.key, l.items, alike)
  PROVE  ClassInv'
<1>1. /\ study' \in [Studies -> Study] /\ study'[s] = l
      /\ \A t \in Studies : t # s => study'[t] = study[t]
  BY DEF TypeOK, Moves
<1>2. ClassesHold(group, study, alike) /\ group \subseteq Group
  BY ClassInvMeans DEF TypeOK
<1>3. ASSUME NEW h \in group' PROVE ClassOf(h.key, study'[h.by].items, alike) /\ study'[h.by].pc # "idle"
  <2>1. CASE h.by = s /\ ClassOf(h.key, l.items, alike)
    BY <1>1, <2>1
  <2>2. ASSUME NEW g \in group, h.key = g.key, h.by = g.by
        PROVE  ClassOf(h.key, study'[h.by].items, alike) /\ study'[h.by].pc # "idle"
    <3>1. /\ ClassOf(g.key, study[g.by].items, alike) /\ study[g.by].pc # "idle"
          /\ g.by \in Studies
      BY <1>2 DEF ClassesHold, Group
    <3> QED BY <1>1, <2>2, <3>1
  <2> QED BY <2>1, <2>2
<1>4. ASSUME NEW t \in Studies, study'[t].pc \in {"group", "member"}, NEW k \in study'[t].todo
      PROVE  ClassOf(k, study'[t].items, alike)
  BY <1>1, <1>2, <1>4 DEF ClassesHold
<1>5. ClassesHold(group', study', alike')
  BY <1>3, <1>4 DEF ClassesHold
<1> QED BY <1>5, ClassInvMeans

\* It goes on with what it holds, and leaves the groups alone.
LEMMA ClassGoes ==
  ASSUME TypeOK, ClassInv, UNCHANGED alike, NEW s \in Studies, NEW l \in Study, Moves(s, l),
         l.pc # "idle", l.items = study[s].items, l.todo \subseteq study[s].todo,
         l.pc \in {"group", "member"} => study[s].pc \in {"group", "member"},
         \A h \in group' : \E g \in group : h.key = g.key /\ h.by = g.by
  PROVE  ClassInv'
<1>1. l.pc \in {"group", "member"} => \A k \in l.todo : ClassOf(k, l.items, alike)
  BY ClassInvMeans DEF ClassesHold
<1> QED BY <1>1, ClassFrame

LEMMA ClassStudies ==
  ASSUME TypeOK, ClassInv, UNCHANGED alike, NEW s \in Studies, Analyses(s)
  PROVE  ClassInv'
<1> DEFINE l == study[s]
<1>1. l \in Study /\ group \subseteq Group
  BY DEF TypeOK
<1>2. ASSUME UNCHANGED group PROVE \A h \in group' : \E g \in group : h.key = g.key /\ h.by = g.by
  BY <1>2
<1>3. CASE StartAnalysis(s)
  <2>1. PICK r \in Repos :
          Moves(s, [NoStudy EXCEPT !.pc = "clear", !.repo = r,
                                   !.items = {i \in Issues : RepoOf[i] = r /\ item[i] # "none"}])
    BY <1>3 DEF StartAnalysis
  <2> DEFINE items == {i \in Issues : RepoOf[i] = r /\ item[i] # "none"}
             m == [NoStudy EXCEPT !.pc = "clear", !.repo = r, !.items = items]
  <2>2. items \subseteq Issues
    OBVIOUS
  <2> HIDE DEF items
  <2>3. m \in Study /\ m.pc = "clear"
    BY <2>2 DEF NoStudy, Study
  <2> HIDE DEF m
  <2>4. Moves(s, m) /\ UNCHANGED group /\ study[s].pc = "idle"
    BY <1>3, <2>1 DEF StartAnalysis, m, items
  <2> QED BY <1>2, <2>3, <2>4, ClassFrame
<1>4. CASE Clear(s)
  <2> DEFINE m == IF l.items = {} THEN [l EXCEPT !.pc = "done"]
                  ELSE [l EXCEPT !.pc = "group", !.todo = Duplicates(l.items)]
  <2>1. Moves(s, m) /\ group' \subseteq group
    BY <1>4 DEF Clear, OthersGroups
  <2>2. l.items \in SUBSET Nat /\ IsFiniteSet(l.items) /\ l.items \subseteq Issues
    <3>1. l.items \in SUBSET Issues
      BY <1>1 DEF Study
    <3> QED BY <3>1, BacklogAssumption, FS_Subset
  <2>3. Duplicates(l.items) \subseteq SUBSET Issues
    BY <2>2, DuplicatesApart
  <2>4. \A k \in Duplicates(l.items) : ClassOf(k, l.items, alike)
    BY <2>2, UnionFindIsExact DEF Class, Chained, ClassOf
  <2>5. /\ m \in Study /\ m.items = l.items /\ m.pc \in {"done", "group"}
        /\ m.pc = "group" => m.todo = Duplicates(l.items)
    BY <1>1, <2>3 DEF Study
  <2> HIDE DEF m, l
  <2> QED BY <2>1, <2>4, <2>5, ClassFrame DEF l
<1>5. CASE CreateGroup(s)
  <2>1. ASSUME NEW m, m = [l EXCEPT !.pc = "classify", !.left = l.items] \/ m = [l EXCEPT !.pc = "failed"],
               Moves(s, m), UNCHANGED group
        PROVE  ClassInv'
    <3>1. m \in Study /\ m.items = l.items /\ m.todo = l.todo /\ m.pc \in {"classify", "failed"}
      BY <1>1, <2>1 DEF Study
    <3> QED BY <1>2, <2>1, <3>1, ClassGoes
  <2>2. ASSUME NEW k \in l.todo,
               group' = group \union {[repo |-> l.repo, key |-> k, by |-> s, has |-> {}]},
               Moves(s, [l EXCEPT !.pc = "member", !.key = k, !.left = k, !.todo = l.todo \ {k}])
        PROVE  ClassInv'
    <3> DEFINE m == [l EXCEPT !.pc = "member", !.key = k, !.left = k, !.todo = l.todo \ {k}]
    <3>1. l.todo \in SUBSET SUBSET Issues /\ l.pc = "group"
      BY <1>1, <1>5 DEF Study, CreateGroup
    <3>2. m \in Study /\ m.items = l.items /\ m.todo \subseteq l.todo /\ m.pc = "member"
      BY <1>1, <3>1 DEF Study
    <3>3. Moves(s, m)
      BY <2>2
    <3> HIDE DEF m
    <3>4. \A j \in l.todo : ClassOf(j, l.items, alike)
      BY <3>1, ClassInvMeans DEF ClassesHold
    <3>5. \A h \in group' : \/ \E g \in group : h.key = g.key /\ h.by = g.by
                            \/ h.by = s /\ ClassOf(h.key, m.items, alike)
      BY <2>2, <3>2, <3>4
    <3> QED BY <3>2, <3>3, <3>4, <3>5, ClassFrame
  <2> QED BY <1>5, <2>1, <2>2 DEF CreateGroup
<1>6. CASE AddMember(s)
  <2>1. l.pc = "member"
    BY <1>6 DEF AddMember
  <2>2. ASSUME NEW pc \in {"group", "failed"}, Moves(s, [l EXCEPT !.pc = pc]), UNCHANGED group
        PROVE  ClassInv'
    <3> DEFINE m == [l EXCEPT !.pc = pc]
    <3>1. m \in Study /\ m.items = l.items /\ m.todo = l.todo /\ m.pc = pc
      BY <1>1 DEF Study
    <3>2. Moves(s, m)
      BY <2>2
    <3> HIDE DEF m
    <3> QED BY <1>2, <2>1, <2>2, <3>1, <3>2, ClassGoes
  <2>3. ASSUME NEW i \in l.left, Moves(s, [l EXCEPT !.left = l.left \ {i}]),
               group' = {IF g.by = s /\ g.key = l.key THEN [g EXCEPT !.has = g.has \union {i}] ELSE g :
                           g \in group}
        PROVE  ClassInv'
    <3> DEFINE m == [l EXCEPT !.left = l.left \ {i}]
    <3>1. m \in Study /\ m.items = l.items /\ m.todo = l.todo /\ m.pc = "member"
      BY <1>1, <2>1 DEF Study
    <3>2. Moves(s, m)
      BY <2>3
    <3> HIDE DEF m
    <3>3. \A h \in group' : \E g \in group : h.key = g.key /\ h.by = g.by
      BY <1>1, <2>3 DEF Group
    <3> QED BY <2>1, <3>1, <3>2, <3>3, ClassGoes
  <2> QED BY <1>6, <2>2, <2>3 DEF AddMember
<1>7. CASE Classify(s)
  <2>1. ASSUME NEW m, Moves(s, m), UNCHANGED group,
               \/ m = [l EXCEPT !.pc = "done"] \/ m = [l EXCEPT !.pc = "failed"]
               \/ \E i \in l.left : m = [l EXCEPT !.left = l.left \ {i}]
        PROVE  ClassInv'
    <3>1. l.pc = "classify"
      BY <1>7 DEF Classify
    <3>2. /\ m \in Study /\ m.items = l.items /\ m.todo = l.todo
          /\ m.pc \in {"done", "failed", "classify"}
      BY <1>1, <2>1, <3>1 DEF Study
    <3> QED BY <1>2, <2>1, <3>2, ClassGoes
  <2> QED BY <1>7, <2>1 DEF Classify
<1> QED BY <1>3, <1>4, <1>5, <1>6, <1>7 DEF Analyses

\* A step of the server takes groups away and ends analyses.
LEMMA ClassBeside ==
  ASSUME TypeOK, ClassInv, UNCHANGED alike, Beside
  PROVE  ClassInv'
<1>1. /\ group' \subseteq group /\ group \subseteq Group /\ study \in [Studies -> Study]
      /\ ClassesHold(group, study, alike)
  BY ClassInvMeans DEF TypeOK, Beside
<1>2. ASSUME NEW s \in Studies
      PROVE  /\ study'[s].items = study[s].items /\ study'[s].todo = study[s].todo
             /\ study'[s].pc \in {study[s].pc, "lost"}
  <2>1. study'[s] = study[s] \/ study'[s] = [study[s] EXCEPT !.pc = "lost"]
    BY DEF Beside
  <2>2. study[s] \in Study
    BY <1>1
  <2> QED BY <2>1, <2>2 DEF Study
<1>3. ClassesHold(group', study', alike')
  <2>1. \A g \in group' : g \in group /\ g.by \in Studies
    BY <1>1 DEF Group
  <2> QED BY <1>1, <1>2, <2>1 DEF ClassesHold
<1> QED BY <1>3, ClassInvMeans

LEMMA ClassNext ==
  ASSUME TypeOK, ClassInv, [Next]_vars
  PROVE  ClassInv'
<1>1. CASE Next
  BY <1>1, ClassStudies, ClassBeside DEF Next, CallStep, StudyStep
<1>2. CASE UNCHANGED vars
  <2>1. UNCHANGED <<group, study, alike>>
    BY <1>2 DEF vars, analysis
  <2> QED BY <2>1, ClassInvMeans
<1> QED BY <1>1, <1>2

\* Every duplicate group is a connected component of the similarity on the items its
\* analysis read: union with path compression (UnionFind), over the pairs in the
\* order of the loops, tears none apart and joins none by chance, and what is written
\* later, while others analyse, sync and disconnect, is still one of them.
THEOREM GroupsAreComponents == Spec => []GroupsAreClasses
<1>1. Init => ClassInv
  <2>1. Init => group = {} /\ \A s \in Studies : study[s].pc = "idle"
    BY DEF Init, NoStudy
  <2> QED BY <2>1 DEF ClassInv, GroupsAreClasses
<1>2. TypeOK /\ ClassInv /\ [Next]_vars => ClassInv'
  BY ClassNext
<1>3. ClassInv => GroupsAreClasses
  BY DEF ClassInv
<1> QED BY <1>1, <1>2, <1>3, BacklogKinds, PTL DEF Spec

\* Classes and SoFar, for the pairs R that are alike and what the state holds.
ClassesOf(S, R) == {k \in SUBSET S : ClassOf(k, S, R) /\ Cardinality(k) >= 2}

RowOf(l, s, k) ==
  [repo |-> l.repo, key |-> k, by |-> s,
   has |-> IF l.pc = "member" /\ k = l.key THEN k \ l.left ELSE k]

SoFarOf(l, s, grp, rp, R) ==
  l.pc \in {"group", "member", "classify"} /\ rp[l.repo] = "connected" =>
    /\ l.todo \subseteq ClassesOf(l.items, R) /\ (l.pc = "classify" => l.todo = {})
    /\ l.pc = "member" => l.key \in ClassesOf(l.items, R) \ l.todo /\ l.left \subseteq l.key
    /\ {g \in grp : g.repo = l.repo} = {RowOf(l, s, k) : k \in ClassesOf(l.items, R) \ l.todo}

LEMMA SoFarMeans ==
  /\ \A S : Classes(S) = ClassesOf(S, alike)
  /\ \A s : SoFar(s) <=> SoFarOf(study[s], s, group, repo, alike)
  /\ (\A s \in Studies : SoFar(s))' <=>
       \A s \in Studies : SoFarOf(study'[s], s, group', repo', alike')
  BY DEF Classes, ClassesOf, Class, Chained, ClassOf, SoFar, SoFarOf, Row, RowOf

\* A step of an analysis in flight, or of one that begins, tells what it has written.
LEMMA WholeFrame ==
  ASSUME GroupInv, WholeInv, UNCHANGED <<alike, repo>>, NEW s \in Studies, NEW l \in Study,
         Moves(s, l), s \in Busy \/ l.pc = "clear", repo[l.repo] # "free",
         overlap' = (overlap \/ Cardinality(Busy') > 1),
         ~overlap => SoFarOf(l, s, group', repo, alike)
  PROVE  WholeInv'
<1>1. /\ study' \in [Studies -> Study] /\ study'[s] = l
      /\ \A t \in Studies : t # s => study'[t] = study[t]
      /\ Busy' \subseteq Busy \union {s}
      /\ ~overlap' => ~overlap /\ \A t \in Busy' : t = s
  BY StudyAlone
<1>2. \A t \in Busy' : repo'[study'[t].repo] # "free"
  <2>1. \A t \in Busy : t \in Studies
    BY DEF Busy
  <2> QED BY <1>1, <2>1 DEF WholeInv
<1>3. ASSUME ~overlap', NEW t \in Studies PROVE SoFarOf(study'[t], t, group', repo', alike')
  <2>1. CASE t = s
    BY <1>1, <1>3, <2>1
  <2>2. CASE t # s
    <3>1. study'[t].pc \notin {"group", "member", "classify"}
      BY <1>1, <1>3, <2>2 DEF Busy
    <3> QED BY <3>1 DEF SoFarOf
  <2> QED BY <2>1, <2>2
<1>4. ~overlap' => (\A t \in Studies : SoFar(t))'
  BY <1>3, SoFarMeans
<1> QED BY <1>2, <1>4 DEF WholeInv

\* It goes on to where it has nothing to tell, or changes no group it tells of.
LEMMA WholeGoes ==
  ASSUME GroupInv, WholeInv, UNCHANGED <<alike, repo>>, NEW s \in Busy, NEW l \in Study,
         Moves(s, l), l.repo = study[s].repo,
         overlap' = (overlap \/ Cardinality(Busy') > 1),
         l.pc \in {"done", "failed"}
  PROVE  WholeInv'
<1>1. s \in Studies /\ repo[l.repo] # "free"
  BY DEF Busy, WholeInv
<1>2. SoFarOf(l, s, group', repo, alike)
  BY DEF SoFarOf
<1> QED BY <1>1, <1>2, WholeFrame

LEMMA WholeStudies ==
  ASSUME GroupInv, WholeInv, UNCHANGED <<alike, repo>>, NEW s \in Studies, Analyses(s),
         overlap' = (overlap \/ Cardinality(Busy') > 1)
  PROVE  WholeInv'
<1> DEFINE l == study[s]
           r == l.repo
           C == ClassesOf(l.items, alike)
           Here(grp) == {g \in grp : g.repo = r}
<1>1. l \in Study /\ group \subseteq Group
  BY DEF GroupInv, TypeOK
<1>2. s \in Busy => repo[r] # "free"
  BY DEF WholeInv
<1>3. ASSUME ~overlap, l.pc \in {"group", "member", "classify"}, repo[r] = "connected"
      PROVE  /\ l.todo \subseteq C /\ (l.pc = "classify" => l.todo = {})
             /\ l.pc = "member" => l.key \in C \ l.todo /\ l.left \subseteq l.key
             /\ Here(group) = {RowOf(l, s, k) : k \in C \ l.todo}
  <2>1. SoFarOf(l, s, group, repo, alike)
    BY <1>3, SoFarMeans DEF WholeInv
  <2> QED BY <1>3, <2>1 DEF SoFarOf
<1>4. CASE StartAnalysis(s)
  <2>1. PICK p \in Repos :
          /\ repo[p] = "connected"
          /\ Moves(s, [NoStudy EXCEPT !.pc = "clear", !.repo = p,
                                      !.items = {i \in Issues : RepoOf[i] = p /\ item[i] # "none"}])
    BY <1>4 DEF StartAnalysis
  <2> DEFINE items == {i \in Issues : RepoOf[i] = p /\ item[i] # "none"}
             m == [NoStudy EXCEPT !.pc = "clear", !.repo = p, !.items = items]
  <2>2. items \subseteq Issues
    OBVIOUS
  <2> HIDE DEF items
  <2>3. m \in Study /\ m.pc = "clear" /\ m.repo = p
    BY <2>2 DEF NoStudy, Study
  <2> HIDE DEF m
  <2>4. Moves(s, m) /\ repo[m.repo] # "free"
    BY <2>1, <2>3 DEF m, items
  <2>5. SoFarOf(m, s, group', repo, alike)
    BY <2>3 DEF SoFarOf
  <2> QED BY <2>3, <2>4, <2>5, WholeFrame
<1>5. CASE Clear(s)
  <2> DEFINE m == IF l.items = {} THEN [l EXCEPT !.pc = "done"]
                  ELSE [l EXCEPT !.pc = "group", !.todo = Duplicates(l.items)]
  <2>1. Moves(s, m) /\ group' = OthersGroups(r) /\ s \in Busy
    BY <1>5 DEF Clear, Busy
  <2>2. l.items \in SUBSET Nat /\ IsFiniteSet(l.items) /\ l.items \subseteq Issues
    <3>1. l.items \in SUBSET Issues
      BY <1>1 DEF Study
    <3> QED BY <3>1, BacklogAssumption, FS_Subset
  <2>3. Duplicates(l.items) = C
    <3>1. Duplicates(l.items) = Classes(l.items)
      BY <2>2, UnionFindIsExact DEF Classes
    <3> QED BY <3>1, SoFarMeans
  <2>4. C \subseteq SUBSET Issues
    BY <2>2 DEF ClassesOf
  <2>5. /\ m \in Study /\ m.items = l.items /\ m.repo = r /\ m.pc \in {"done", "group"}
        /\ m.pc = "group" => m.todo = C
    BY <1>1, <2>3, <2>4 DEF Study
  <2>6. Here(group') = {}
    BY <2>1 DEF OthersGroups
  <2> HIDE DEF m
  <2>7. SoFarOf(m, s, group', repo, alike)
    <3>1. m.pc = "group" => m.todo = ClassesOf(m.items, alike) /\ {g \in group' : g.repo = m.repo} = {}
      BY <2>5, <2>6
    <3> QED BY <2>5, <3>1 DEF SoFarOf
  <2> QED BY <1>2, <2>1, <2>5, <2>7, WholeFrame
<1>6. CASE CreateGroup(s)
  <2>1. l.pc = "group" /\ s \in Busy
    BY <1>6 DEF CreateGroup, Busy
  <2>2. ASSUME l.todo = {}, Moves(s, [l EXCEPT !.pc = "classify", !.left = l.items]), UNCHANGED group
        PROVE  WholeInv'
    <3> DEFINE m == [l EXCEPT !.pc = "classify", !.left = l.items]
    <3>1. /\ m \in Study /\ m.items = l.items /\ m.repo = r /\ m.pc = "classify" /\ m.todo = {}
      BY <1>1, <2>2 DEF Study
    <3>2. Moves(s, m)
      BY <2>2
    <3> HIDE DEF m
    <3>3. \A k : RowOf(m, s, k) = RowOf(l, s, k)
      BY <2>1, <3>1 DEF RowOf
    <3>4. ~overlap => SoFarOf(m, s, group', repo, alike)
      BY <1>3, <2>1, <2>2, <3>1, <3>3 DEF SoFarOf
    <3> QED BY <1>2, <2>1, <3>1, <3>2, <3>4, WholeFrame
  <2>3. ASSUME Moves(s, [l EXCEPT !.pc = "failed"]) PROVE WholeInv'
    <3> DEFINE m == [l EXCEPT !.pc = "failed"]
    <3>1. m \in Study /\ m.repo = r /\ m.pc = "failed"
      BY <1>1 DEF Study
    <3>2. Moves(s, m)
      BY <2>3
    <3> HIDE DEF m
    <3> QED BY <2>1, <3>1, <3>2, WholeGoes
  <2>4. ASSUME NEW k \in l.todo,
               group' = group \union {[repo |-> r, key |-> k, by |-> s, has |-> {}]},
               Moves(s, [l EXCEPT !.pc = "member", !.key = k, !.left = k, !.todo = l.todo \ {k}])
        PROVE  WholeInv'
    <3> DEFINE m == [l EXCEPT !.pc = "member", !.key = k, !.left = k, !.todo = l.todo \ {k}]
               new == [repo |-> r, key |-> k, by |-> s, has |-> {}]
    <3>1. l.todo \in SUBSET SUBSET Issues
      BY <1>1 DEF Study
    <3>2. /\ m \in Study /\ m.items = l.items /\ m.repo = r /\ m.pc = "member"
          /\ m.todo = l.todo \ {k} /\ m.key = k /\ m.left = k
      BY <1>1, <3>1 DEF Study
    <3>3. Moves(s, m)
      BY <2>4
    <3>4. new.repo = r /\ group' = group \union {new}
      BY <2>4
    <3>5. RowOf(m, s, k) = new /\ \A j : j # k => RowOf(m, s, j) = RowOf(l, s, j)
      BY <2>1, <3>2 DEF RowOf
    <3> HIDE DEF m, new
    <3>6. ASSUME ~overlap, repo[r] = "connected"
          PROVE  /\ m.todo \subseteq C /\ m.key \in C \ m.todo
                 /\ Here(group') = {RowOf(m, s, j) : j \in C \ m.todo}
      <4>1. l.todo \subseteq C /\ Here(group) = {RowOf(l, s, j) : j \in C \ l.todo}
        BY <1>3, <2>1, <3>6
      <4>2. Here(group') = Here(group) \union {new}
        BY <3>4
      <4>3. C \ m.todo = (C \ l.todo) \union {k} /\ k \notin C \ l.todo
        BY <3>2, <4>1
      <4> HIDE DEF C, Here
      <4>4. {RowOf(m, s, j) : j \in C \ m.todo} = {RowOf(l, s, j) : j \in C \ l.todo} \union {new}
        BY <3>5, <4>3
      <4> QED BY <3>2, <4>1, <4>2, <4>3, <4>4
    <3>7. ~overlap => SoFarOf(m, s, group', repo, alike)
      BY <3>2, <3>6 DEF SoFarOf
    <3> QED BY <1>2, <2>1, <3>2, <3>3, <3>7, WholeFrame
  <2> QED BY <1>6, <2>2, <2>3, <2>4 DEF CreateGroup
<1>7. CASE AddMember(s)
  <2>1. l.pc = "member" /\ s \in Busy
    BY <1>7 DEF AddMember, Busy
  <2>2. ASSUME Moves(s, [l EXCEPT !.pc = "failed"]) PROVE WholeInv'
    <3> DEFINE m == [l EXCEPT !.pc = "failed"]
    <3>1. m \in Study /\ m.repo = r /\ m.pc = "failed"
      BY <1>1 DEF Study
    <3>2. Moves(s, m)
      BY <2>2
    <3> HIDE DEF m
    <3> QED BY <2>1, <3>1, <3>2, WholeGoes
  <2>3. ASSUME l.left = {}, Moves(s, [l EXCEPT !.pc = "group"]), UNCHANGED group
        PROVE  WholeInv'
    <3> DEFINE m == [l EXCEPT !.pc = "group"]
    <3>1. m \in Study /\ m.items = l.items /\ m.repo = r /\ m.pc = "group" /\ m.todo = l.todo
      BY <1>1 DEF Study
    <3>2. Moves(s, m)
      BY <2>3
    <3> HIDE DEF m
    <3>3. \A k : RowOf(m, s, k) = RowOf(l, s, k)
      BY <2>1, <2>3, <3>1 DEF RowOf
    <3>4. ~overlap => SoFarOf(m, s, group', repo, alike)
      BY <1>3, <2>1, <2>3, <3>1, <3>3 DEF SoFarOf
    <3> QED BY <1>2, <2>1, <3>1, <3>2, <3>4, WholeFrame
  <2>4. ASSUME NEW i \in l.left, Moves(s, [l EXCEPT !.left = l.left \ {i}]),
               group' = {IF g.by = s /\ g.key = l.key THEN [g EXCEPT !.has = g.has \union {i}] ELSE g :
                           g \in group}
        PROVE  WholeInv'
    <3> DEFINE m == [l EXCEPT !.left = l.left \ {i}]
               now(g) == IF g.by = s /\ g.key = l.key THEN [g EXCEPT !.has = g.has \union {i}] ELSE g
    <3>1. /\ m \in Study /\ m.items = l.items /\ m.repo = r /\ m.pc = "member"
          /\ m.todo = l.todo /\ m.key = l.key /\ m.left = l.left \ {i}
      BY <1>1, <2>1 DEF Study
    <3>2. Moves(s, m)
      BY <2>4
    <3> HIDE DEF m
    <3>3. ASSUME ~overlap, repo[r] = "connected"
          PROVE  /\ m.todo \subseteq C /\ m.key \in C \ m.todo /\ m.left \subseteq m.key
                 /\ Here(group') = {RowOf(m, s, j) : j \in C \ m.todo}
      <4>1. /\ l.todo \subseteq C /\ l.key \in C \ l.todo /\ l.left \subseteq l.key
            /\ Here(group) = {RowOf(l, s, j) : j \in C \ l.todo}
        BY <1>3, <2>1, <3>3
      <4>2. ASSUME NEW j PROVE now(RowOf(l, s, j)) = RowOf(m, s, j)
        <5>1. CASE j = l.key
          <6>1. /\ RowOf(l, s, j) = [repo |-> r, key |-> j, by |-> s, has |-> j \ l.left]
                /\ RowOf(m, s, j) = [repo |-> r, key |-> j, by |-> s, has |-> j \ (l.left \ {i})]
            BY <2>1, <3>1, <5>1 DEF RowOf
          <6>2. j \ (l.left \ {i}) = (j \ l.left) \union {i}
            BY <4>1, <5>1
          <6> QED BY <5>1, <6>1, <6>2
        <5>2. CASE j # l.key
          <6>1. /\ RowOf(l, s, j) = [repo |-> r, key |-> j, by |-> s, has |-> j]
                /\ RowOf(m, s, j) = [repo |-> r, key |-> j, by |-> s, has |-> j]
            BY <2>1, <3>1, <5>2 DEF RowOf
          <6> QED BY <5>2, <6>1
        <5> QED BY <5>1, <5>2
      <4>3. \A g \in group : now(g).repo = g.repo
        BY <1>1 DEF Group
      <4>4. group' = {now(g) : g \in group}
        BY <2>4
      <4> HIDE DEF now, C
      <4>5. Here(group') = {now(g) : g \in Here(group)}
        BY <4>3, <4>4
      <4> HIDE DEF Here
      <4>6. Here(group') = {now(RowOf(l, s, j)) : j \in C \ l.todo}
        BY <4>1, <4>5
      <4> QED BY <3>1, <4>1, <4>2, <4>6
    <3>4. ~overlap => SoFarOf(m, s, group', repo, alike)
      BY <3>1, <3>3 DEF SoFarOf
    <3> QED BY <1>2, <2>1, <3>1, <3>2, <3>4, WholeFrame
  <2> QED BY <1>7, <2>2, <2>3, <2>4 DEF AddMember
<1>8. CASE Classify(s)
  <2>1. l.pc = "classify" /\ s \in Busy /\ UNCHANGED group
    BY <1>8 DEF Classify, Busy
  <2>2. ASSUME NEW pc \in {"done", "failed"}, Moves(s, [l EXCEPT !.pc = pc]) PROVE WholeInv'
    <3> DEFINE m == [l EXCEPT !.pc = pc]
    <3>1. m \in Study /\ m.repo = r /\ m.pc = pc
      BY <1>1 DEF Study
    <3>2. Moves(s, m)
      BY <2>2
    <3> HIDE DEF m
    <3> QED BY <2>1, <2>2, <3>1, <3>2, WholeGoes
  <2>3. ASSUME NEW i \in l.left, Moves(s, [l EXCEPT !.left = l.left \ {i}]) PROVE WholeInv'
    <3> DEFINE m == [l EXCEPT !.left = l.left \ {i}]
    <3>1. m \in Study /\ m.items = l.items /\ m.repo = r /\ m.pc = "classify" /\ m.todo = l.todo
      BY <1>1, <2>1 DEF Study
    <3>2. Moves(s, m)
      BY <2>3
    <3> HIDE DEF m
    <3>3. \A k : RowOf(m, s, k) = RowOf(l, s, k)
      BY <2>1, <3>1 DEF RowOf
    <3>4. ~overlap => SoFarOf(m, s, group', repo, alike)
      BY <1>3, <2>1, <3>1, <3>3 DEF SoFarOf
    <3> QED BY <1>2, <2>1, <3>1, <3>2, <3>4, WholeFrame
  <2> QED BY <1>8, <2>2, <2>3 DEF Classify
<1> QED BY <1>4, <1>5, <1>6, <1>7, <1>8 DEF Analyses

\* A repository is connected once, and never again after it was disconnected.
LEMMA RepoSteps ==
  ASSUME BacklogTypes,
         Others \/ \E c \in Calls : StartSync(c) \/ StartClose(c) \/ Serves(c)
  PROVE  \A r \in Repos : repo[r] # "free" => repo'[r] \in {repo[r], "deleted"}
<1>1. repo \in [Repos -> {"free", "connected", "deleted"}]
  BY DEF BacklogTypes
<1>2. ASSUME NEW r \in Repos, Connect(r) \/ Disconnect(r)
      PROVE  \A k \in Repos : repo[k] # "free" => repo'[k] \in {repo[k], "deleted"}
  BY <1>1, <1>2 DEF Connect, Disconnect
<1>3. ASSUME ~ \E r \in Repos : Connect(r) \/ Disconnect(r) PROVE repo' = repo
  <2>1. ASSUME Others PROVE repo' = repo
    BY <1>3, <2>1 DEF Others, OpenIssue, ChangeIssue, RemoveIssue, Kill, Start, server
  <2>2. ASSUME NEW c \in Calls, StartSync(c) \/ StartClose(c) PROVE repo' = repo
    BY <2>2 DEF StartSync, StartClose, server
  <2>3. ASSUME NEW c \in Calls, Serves(c) PROVE repo' = repo
    BY <2>3 DEF Serves, Begin, FetchPage, Upsert, Progress, Stamp, Finish, MarkFailed, Patch,
                CloseRow, server
  <2> QED BY <2>1, <2>2, <2>3
<1> QED BY <1>2, <1>3

\* A step of the server takes the groups of a repository with it, and ends analyses.
LEMMA WholeBeside ==
  ASSUME GroupInv, WholeInv, UNCHANGED alike, Beside,
         \A r \in Repos : repo[r] # "free" => repo'[r] \in {repo[r], "deleted"},
         overlap' = (overlap \/ Cardinality(Busy') > 1)
  PROVE  WholeInv'
<1>1. /\ study \in [Studies -> Study] /\ group' = {g \in group : repo'[g.repo] = "connected"}
      /\ study' = [s \in Studies |-> IF ~up' /\ s \in Busy THEN [study[s] EXCEPT !.pc = "lost"]
                                                          ELSE study[s]]
  BY DEF GroupInv, TypeOK, Beside
<1>2. ASSUME NEW s \in Studies PROVE study'[s] = study[s] \/ study'[s].pc = "lost"
  <2>1. study'[s] = study[s] \/ study'[s] = [study[s] EXCEPT !.pc = "lost"]
    BY <1>1
  <2>2. study[s] \in Study
    BY <1>1
  <2> QED BY <2>1, <2>2 DEF Study
<1>3. ~overlap' => ~overlap
  BY Zenon
<1>4. ASSUME NEW s \in Busy
      PROVE  s \in Studies /\ study[s].repo \in Repos /\ repo[study[s].repo] # "free"
  BY GroupFacts DEF Busy, WholeInv
<1>5. \A s \in Busy' : repo'[study'[s].repo] # "free"
  <2>1. ASSUME NEW s \in Busy' PROVE s \in Busy /\ study'[s] = study[s]
    BY <1>2 DEF Busy
  <2>2. \A s \in Busy : repo'[study[s].repo] # "free"
    BY <1>4
  <2> QED BY <2>1, <2>2
<1>6. ASSUME ~overlap', NEW s \in Studies PROVE SoFarOf(study'[s], s, group', repo', alike)
  <2> DEFINE l == study[s]
  <2>1. CASE study'[s].pc = "lost"
    BY <2>1 DEF SoFarOf
  <2>2. CASE study'[s] = l /\ l.pc \in {"group", "member", "classify"} /\ repo'[l.repo] = "connected"
    <3>1. s \in Busy
      BY <2>2 DEF Busy
    <3>2. repo[l.repo] = "connected"
      BY <1>4, <2>2, <3>1
    <3>3. {g \in group' : g.repo = l.repo} = {g \in group : g.repo = l.repo}
      BY <1>1, <2>2
    <3>4. SoFarOf(l, s, group, repo, alike)
      BY <1>3, <1>6, SoFarMeans DEF WholeInv
    <3> QED BY <2>2, <3>2, <3>3, <3>4 DEF SoFarOf
  <2>3. CASE study'[s] = l /\ ~(l.pc \in {"group", "member", "classify"} /\ repo'[l.repo] = "connected")
    BY <2>3 DEF SoFarOf
  <2> QED BY <1>2, <2>1, <2>2, <2>3
<1>7. ~overlap' => (\A s \in Studies : SoFar(s))'
  BY <1>6, SoFarMeans
<1> QED BY <1>5, <1>7 DEF WholeInv

LEMMA WholeNext ==
  ASSUME GroupInv, WholeInv, [Next]_vars
  PROVE  WholeInv'
<1>1. CASE Next
  <2>1. overlap' = (overlap \/ Cardinality(Busy') > 1) /\ UNCHANGED alike
    BY <1>1 DEF Next
  <2>2. ASSUME NEW s \in Studies, StudyStep(s) PROVE WholeInv'
    <3>1. UNCHANGED <<alike, repo>> /\ Analyses(s)
      BY <2>1, <2>2 DEF StudyStep, backlog
    <3> QED BY <2>1, <3>1, WholeStudies
  <2>3. ASSUME Beside, Others \/ \E c \in Calls : StartSync(c) \/ StartClose(c) \/ Serves(c)
        PROVE  WholeInv'
    <3>1. BacklogTypes
      BY DEF GroupInv, TypeOK
    <3>2. \A r \in Repos : repo[r] # "free" => repo'[r] \in {repo[r], "deleted"}
      BY <2>3, <3>1, RepoSteps
    <3> QED BY <2>1, <2>3, <3>2, WholeBeside
  <2> QED BY <1>1, <2>2, <2>3 DEF Next, CallStep
<1>2. CASE UNCHANGED vars
  <2>1. UNCHANGED <<group, study, alike, overlap, repo>>
    BY <1>2 DEF vars, analysis, backlog
  <2>2. (\A s \in Studies : SoFar(s))' <=> \A s \in Studies : SoFar(s)
    BY <2>1, SoFarMeans
  <2> QED BY <2>1, <2>2 DEF WholeInv, Busy
<1> QED BY <1>1, <1>2

\* An analysis that ran alone leaves, when it turns to the priorities, exactly the
\* classes of two items and more with all their items, although it writes them row by
\* row and in no transaction (AnalysisService.analyzeRepository).
THEOREM AnalysesAreWhole == Spec => []WholeApart
<1>1. Init => WholeInv
  <2>1. Init => Busy = {} /\ \A s \in Studies : study[s].pc = "idle"
    BY DEF Init, NoStudy, Busy
  <2> QED BY <2>1 DEF WholeInv, SoFar
<1>2. GroupInv /\ WholeInv /\ [Next]_vars => WholeInv'
  BY WholeNext
<1>3. WholeInv => WholeApart
  <2>1. ASSUME WholeInv, ~overlap, NEW s \in Studies, study[s].pc = "classify",
               repo[study[s].repo] = "connected"
        PROVE  {g \in group : g.repo = study[s].repo} =
                 {[repo |-> study[s].repo, key |-> k, by |-> s, has |-> k] :
                    k \in Classes(study[s].items)}
    BY <2>1 DEF WholeInv, SoFar, Row
  <2> QED BY <2>1 DEF WholeApart
<1> QED BY <1>1, <1>2, <1>3, GroupAlways, PTL DEF Spec
=============================================================================
