--------------------------- MODULE BacklogAnalysis ---------------------------
(***************************************************************************)
(* AnalysisService of the legacy server: duplicate groups by the text of   *)
(* the work items, found with a union-find structure, and a priority for   *)
(* each item, while syncs bring items, repositories are disconnected and   *)
(* other analyses run.  Groups and priorities are written one statement at *)
(* a time and in no transaction.                                           *)
(***************************************************************************)
EXTENDS Backlog, Folds

CONSTANTS
  Studies,       (* requests to analyse a repository                       *)
  Similarities   (* which issues may have texts that are alike: sets of    *)
                 (* pairs                                                  *)

VARIABLES
  alike,     (* the pairs of issues whose texts reach the threshold        *)
  group,     (* DuplicateGroup rows with their items                       *)
  priority,  (* the items with an AnalysisResult row                       *)
  study,     (* where each analysis stands and its local variables         *)
  overlap    (* history: two analyses have been in flight at once          *)

backlog == <<repo, github, item, job, call, up, changes, seen>>
analysis == <<group, priority, study>>
vars == <<backlog, analysis, alike, overlap>>

-----------------------------------------------------------------------------
\* items: the snapshot of the items; todo: the groups still to be written;
\* key: the one being written; left: its items, or the items without a
\* priority, still to come.
Study == [pc    : {"idle", "clear", "group", "member", "classify",
                   "done", "failed", "lost"},
          repo  : Repos \union {None},
          items : SUBSET Issues,
          todo  : SUBSET SUBSET Issues,
          key   : SUBSET Issues,
          left  : SUBSET Issues]

NoStudy == [pc |-> "idle", repo |-> None, items |-> {}, todo |-> {}, key |-> {}, left |-> {}]

\* A group of repository repo with this key, written by an analysis; has: its
\* DuplicateGroupItem rows.
Group == [repo : Repos, key : SUBSET Issues, by : Studies, has : SUBSET Issues]

Busy == {s \in Studies : study[s].pc \in {"clear", "group", "member", "classify"}}

Moves(s, local) == study' = [study EXCEPT ![s] = local]

-----------------------------------------------------------------------------
(* The union-find structure: parent is a function on the items.             *)

Root(parent) ==
  LET root[x \in DOMAIN parent] == IF parent[x] = x THEN x ELSE root[parent[x]]
  IN  root

\* The items find visits from x.
Visited(parent) ==
  LET way[x \in DOMAIN parent] == {x} \union IF parent[x] = x THEN {} ELSE way[parent[x]]
  IN  way

\* find(x) hangs all it visits under the root.
Find(parent, x) ==
  [y \in DOMAIN parent |-> IF y \in Visited(parent)[x] THEN Root(parent)[x] ELSE parent[y]]

\* union(a, b).
MutantUnite(parent, a, b) == [parent EXCEPT ![b] = Root(parent)[a]]
Unite(parent, a, b) ==
  LET found == Find(Find(parent, a), b)
  IN  [found EXCEPT ![Root(found)[b]] = Root(found)[a]]

\* The pairs i < j of the two loops, which take the items newest first, and of some
\* of them the one the loops come to last.
Pairs(S) == {p \in S \X S : p[1] > p[2]}

LastPair(pairs) ==
  CHOOSE p \in pairs : \A q \in pairs : q[1] > p[1] \/ (q[1] = p[1] /\ q[2] >= p[2])

Joined(p, parent) == IF {p[1], p[2]} \in alike THEN Unite(parent, p[1], p[2]) ELSE parent

\* The structure after the two loops.
United(S) ==
  MapThenFoldSet(Joined, [x \in S |-> x], LAMBDA p : p, LastPair, Pairs(S))

\* The groups of two items and more.
Duplicates(S) ==
  LET root  == Root(United(S))
      Of(r) == {x \in S : root[x] = r}
  IN  {g \in {Of(r) : r \in S} : Cardinality(g) >= 2}

-----------------------------------------------------------------------------
\* The repository and its items are read.
StartAnalysis(s) ==
  /\ up /\ study[s].pc = "idle"
  /\ \E r \in Repos :
       /\ repo[r] = "connected"
       /\ Moves(s, [NoStudy EXCEPT !.pc = "clear", !.repo = r,
                                   !.items = {i \in Issues : RepoOf[i] = r /\ item[i] # "none"}])
  /\ UNCHANGED <<group, priority>>

\* deleteMany of the groups; then the groups are computed.
MutantOthersGroups(r) == group
OthersGroups(r) == {g \in group : g.repo # r}

Clear(s) ==
  /\ study[s].pc = "clear"
  /\ group' = OthersGroups(study[s].repo)
  /\ Moves(s, IF study[s].items = {}
              THEN [study[s] EXCEPT !.pc = "done"]
              ELSE [study[s] EXCEPT !.pc = "group", !.todo = Duplicates(study[s].items)])
  /\ UNCHANGED priority

\* The next group is created, unless its repository is gone or another analysis
\* has created one with this key; after the last come the priorities.
CreateGroup(s) ==
  /\ study[s].pc = "group"
  /\ LET l == study[s]
     IN  \/ /\ l.todo = {}
            /\ Moves(s, [l EXCEPT !.pc = "classify", !.left = l.items])
            /\ UNCHANGED group
         \/ \E k \in l.todo :
              IF repo[l.repo] # "connected" \/ \E g \in group : g.repo = l.repo /\ g.key = k
              THEN Moves(s, [l EXCEPT !.pc = "failed"]) /\ UNCHANGED group
              ELSE /\ group' = group \union {[repo |-> l.repo, key |-> k, by |-> s, has |-> {}]}
                   /\ Moves(s, [l EXCEPT !.pc = "member", !.key = k, !.left = k, !.todo = @ \ {k}])
  /\ UNCHANGED priority

\* The next item of the group, if group and item are still there.
AddMember(s) ==
  /\ study[s].pc = "member"
  /\ LET l == study[s]
         Written(g) == g.by = s /\ g.key = l.key
     IN  \/ /\ l.left = {} /\ Moves(s, [l EXCEPT !.pc = "group"]) /\ UNCHANGED group
         \/ \E i \in l.left :
              IF item[i] # "none" /\ \E g \in group : Written(g)
              THEN /\ group' = {IF Written(g) THEN [g EXCEPT !.has = @ \union {i}] ELSE g : g \in group}
                   /\ Moves(s, [l EXCEPT !.left = @ \ {i}])
              ELSE Moves(s, [l EXCEPT !.pc = "failed"]) /\ UNCHANGED group
  /\ UNCHANGED priority

\* The model classifies the next item, or answers with an error; the result is
\* upserted.
Classify(s) ==
  /\ study[s].pc = "classify"
  /\ LET l == study[s]
     IN  \/ l.left = {} /\ Moves(s, [l EXCEPT !.pc = "done"]) /\ UNCHANGED priority
         \/ \E i \in l.left :
              /\ item[i] # "none"
              /\ priority' = priority \union {i}
              /\ Moves(s, [l EXCEPT !.left = @ \ {i}])
         \/ l.left # {} /\ Moves(s, [l EXCEPT !.pc = "failed"]) /\ UNCHANGED priority
  /\ UNCHANGED group

Analyses(s) ==
  \/ StartAnalysis(s) \/ Clear(s) \/ CreateGroup(s) \/ AddMember(s) \/ Classify(s)

\* A step of the rest takes groups and priorities with their repository and items,
\* and analyses with the process.
Beside ==
  /\ group' = {g \in group : repo'[g.repo] = "connected"}
  /\ priority' = {i \in priority : item'[i] # "none"}
  /\ study' = [s \in Studies |-> IF ~up' /\ s \in Busy THEN [study[s] EXCEPT !.pc = "lost"]
                                                       ELSE study[s]]

-----------------------------------------------------------------------------
TypeOK ==
  /\ BacklogTypes
  /\ group \subseteq Group /\ priority \subseteq Issues /\ study \in [Studies -> Study]

Init ==
  /\ BacklogInit
  /\ alike \in Similarities
  /\ group = {} /\ priority = {}
  /\ study = [s \in Studies |-> NoStudy]
  /\ overlap = FALSE

CallStep(c) == (StartSync(c) \/ StartClose(c) \/ Serves(c)) /\ Beside
StudyStep(s) == Analyses(s) /\ UNCHANGED backlog

Next ==
  /\ \/ \E c \in Calls : CallStep(c)
     \/ Others /\ Beside
     \/ \E s \in Studies : StudyStep(s)
  /\ overlap' = (overlap \/ Cardinality(Busy') > 1)
  /\ UNCHANGED alike

Spec == Init /\ [][Next]_vars

\* The server goes on with what it began; requests, GitHub, kills and starts
\* are up to others.
FairSpec == Spec /\ \A c \in Calls : WF_vars(Serves(c) /\ Beside /\ UNCHANGED <<alike, overlap>>)

-----------------------------------------------------------------------------
(* Properties                                                              *)

\* What union-find finds are the connected components of the similarity, on the
\* items the analysis read: none torn apart, none joined without a chain of
\* similar items.
Chained(k) ==
  \A A \in (SUBSET k) \ {{}, k} : \E x \in A, y \in k \ A : {x, y} \in alike

Class(k, S) ==
  /\ k \subseteq S /\ Chained(k)
  /\ \A x \in k, y \in S \ k : {x, y} \notin alike

Classes(S) == {k \in SUBSET S : Class(k, S) /\ Cardinality(k) >= 2}

GroupsAreClasses == \A g \in group : Class(g.key, study[g.by].items)

\* An item is in one duplicate group at most, unless analyses overlapped: each
\* clears what the one before has left, even one that failed half-way.
OneGroupApart ==
  ~overlap => \A g, h \in group : g # h => g.key \intersect h.key = {}

\* An analysis that ran alone and turns to the priorities has left in its repository,
\* while that is connected, exactly the classes of two items and more, each with all
\* of its items.
WholeApart ==
  ~overlap => \A s \in Studies :
    study[s].pc = "classify" /\ repo[study[s].repo] = "connected" =>
      {g \in group : g.repo = study[s].repo} =
        {[repo |-> study[s].repo, key |-> k, by |-> s, has |-> k] : k \in Classes(study[s].items)}

-----------------------------------------------------------------------------
(* The inductive invariants behind them                                    *)

\* What an analysis has still to write are classes of the items it read, which
\* stay what they are until it is over and after.
ClassInv ==
  /\ GroupsAreClasses
  /\ \A g \in group : study[g.by].pc # "idle"
  /\ \A s \in Studies :
       study[s].pc \in {"group", "member"} => \A k \in study[s].todo : Class(k, study[s].items)

OfRepo(r) == {i \in Issues : RepoOf[i] = r}

\* Groups and analyses keep to their repository.
AtHome ==
  /\ \A g \in group : g.key \subseteq OfRepo(g.repo)
  /\ \A s \in Busy : /\ study[s].repo \in Repos /\ study[s].items \subseteq OfRepo(study[s].repo)
                      /\ \A k \in study[s].todo : k \subseteq OfRepo(study[s].repo)

\* An analysis that is alone has cleared the way for the groups it will write.
Cleared(s) ==
  study[s].pc \in {"group", "member"} =>
    /\ \A k, m \in study[s].todo : k # m => k \intersect m = {}
    /\ \A k \in study[s].todo, g \in group : g.repo = study[s].repo => g.key \intersect k = {}

GroupInv ==
  /\ TypeOK /\ AtHome /\ OneGroupApart
  /\ IsFiniteSet(Busy) /\ (~overlap => Cardinality(Busy) <= 1)
  /\ ~overlap => \A s \in Busy : Cleared(s)

\* The group k of analysis s, and what s, alone, has written so far: the classes but
\* those still to come, each with all its items but the one being written.
Row(s, k) ==
  [repo |-> study[s].repo, key |-> k, by |-> s,
   has |-> IF study[s].pc = "member" /\ k = study[s].key THEN k \ study[s].left ELSE k]

SoFar(s) ==
  LET l == study[s]
  IN  l.pc \in {"group", "member", "classify"} /\ repo[l.repo] = "connected" =>
        /\ l.todo \subseteq Classes(l.items) /\ (l.pc = "classify" => l.todo = {})
        /\ l.pc = "member" => l.key \in Classes(l.items) \ l.todo /\ l.left \subseteq l.key
        /\ {g \in group : g.repo = l.repo} = {Row(s, k) : k \in Classes(l.items) \ l.todo}

WholeInv ==
  /\ \A s \in Busy : repo[study[s].repo] # "free"
  /\ ~overlap => \A s \in Studies : SoFar(s)
=============================================================================
