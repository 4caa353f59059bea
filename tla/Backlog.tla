------------------------------ MODULE Backlog ------------------------------
(***************************************************************************)
(* The legacy issue-backlog server (src/backend): connected repositories,  *)
(* the work items copied from GitHub, the sync that copies them, in a      *)
(* request or as a job in the background, and closing an item from here.   *)
(*                                                                         *)
(* An action is one awaited statement or GitHub request.  A background job *)
(* is a promise nobody awaits: when it rejects, Node ends the process, and *)
(* nothing looks for unfinished jobs when it starts again.  The database   *)
(* answers; statements fail for rows that are not there.                   *)
(***************************************************************************)
EXTENDS Naturals, FiniteSets

CONSTANTS
  Repos,         (* ConnectedRepository ids                                *)
  Connected,     (* those connected at the start                           *)
  Issues,        (* numbers of issues and pull requests, oldest first      *)
  RepoOf,        (* the repository of each                                 *)
  SeedIssues,    (* those on GitHub at the start                           *)
  SeedItems,     (* those synced before                                    *)
  PageSize,      (* per_page of the GitHub request                         *)
  Calls,         (* requests; each runs one endpoint once                  *)
  MaxInFlight,   (* requests and jobs under way at the same time           *)
  MaxChanges,    (* issues opened, closed, reopened or removed by others   *)
  None

ASSUME BacklogAssumption ==
  /\ Connected \subseteq Repos
  /\ Issues \subseteq Nat /\ IsFiniteSet(Issues) /\ RepoOf \in [Issues -> Repos]
  /\ SeedItems \subseteq SeedIssues /\ SeedIssues \subseteq Issues
  /\ PageSize \in Nat \ {0} /\ MaxChanges \in Nat

VARIABLES
  repo,      (* ConnectedRepository rows                                   *)
  github,    (* the issues on GitHub                                       *)
  item,      (* WorkItem rows: their state, none without a row             *)
  job,       (* SyncJob rows, by the call that created them                *)
  call,      (* where each call stands and its local variables             *)
  up,        (* the server process runs                                    *)
  changes,   (* how much was changed on GitHub                             *)
  seen       (* history: per call, what GitHub has had since it began, and *)
             (* what happened beside it                                    *)

server == <<repo, item, job>>

-----------------------------------------------------------------------------
\* begin: the job is QUEUED and its promise about to run; fail: in the catch
\* block of the job.
Pc == {"idle", "begin", "page", "item", "progress", "stamp", "finish", "fail",
       "patch", "closeRow", "done", "failed", "lost", "crashed"}

Ended == {"done", "failed", "lost", "crashed"}

\* batch: what the page said of each issue on it; more: it has a next link.
Call == [pc    : Pc,
         op    : {"none", "job", "sync", "close"},
         repo  : Repos \union {None},
         id    : Issues \union {None},
         page  : Nat,
         more  : BOOLEAN,
         batch : [Issues -> {"none", "open", "closed"}]]

NoBatch == [i \in Issues |-> "none"]

Idle == [pc |-> "idle", op |-> "none", repo |-> None, id |-> None,
         page |-> 1, more |-> FALSE, batch |-> NoBatch]

\* due: the issues GitHub had when the call began; moved: since then one was
\* removed from the list, or the one to close was reopened; beside: the calls
\* that were in flight with it.
Seen == [due : SUBSET Issues, moved : BOOLEAN, beside : SUBSET Calls]

NothingSeen == [due |-> {}, moved |-> FALSE, beside |-> {}]

Listed(r) == {i \in Issues : RepoOf[i] = r /\ github[i] \in {"open", "closed"}}

InFlight == {c \in Calls : call[c].pc \notin {"idle"} \union Ended}

BacklogInit ==
  /\ repo = [r \in Repos |-> IF r \in Connected THEN "connected" ELSE "free"]
  /\ github = [i \in Issues |-> IF i \in SeedIssues THEN "open" ELSE "absent"]
  /\ item = [i \in Issues |-> IF i \in SeedItems /\ RepoOf[i] \in Connected
                              THEN "open" ELSE "none"]
  /\ job = [c \in Calls |-> "none"]
  /\ call = [c \in Calls |-> Idle]
  /\ up = TRUE
  /\ changes = 0
  /\ seen = [c \in Calls |-> NothingSeen]

-----------------------------------------------------------------------------
Becomes(c, local) == call' = [call EXCEPT ![c] = local]
Goes(c, pc) == Becomes(c, [call[c] EXCEPT !.pc = pc])

\* A request is served: c begins beside the calls in flight, which see it too.
Begins(c, local) ==
  /\ up /\ call[c].pc = "idle" /\ Cardinality(InFlight) < MaxInFlight
  /\ Becomes(c, local)
  /\ seen' = [d \in Calls |->
       CASE d = c          -> [due |-> Listed(local.repo), moved |-> FALSE, beside |-> InFlight]
         [] d \in InFlight -> [seen[d] EXCEPT !.beside = @ \union {c}]
         [] OTHER          -> seen[d]]

(* The operators named Mutant... are plausible mistakes in the one that     *)
(* follows; nothing refers to them here.                                    *)

\* Issues are listed newest first, open and closed ones.
Position(i) == Cardinality({k \in Listed(RepoOf[i]) : k >= i})

\* An issue is not on the pages before this one, or on this one.
Ahead(i, page) == Position(i) > (page - 1) * PageSize
OnPage(i, page) == Ahead(i, page) /\ Position(i) <= page * PageSize

\* The answer to a page request, and its rel="next".
Answer(r, page) == [i \in Issues |-> IF i \in Listed(r) /\ OnPage(i, page)
                                     THEN github[i] ELSE "none"]
MutantHasNext(r, page) == Cardinality(Listed(r)) > (page + 1) * PageSize
HasNext(r, page) == Cardinality(Listed(r)) > page * PageSize

\* The page after this one.
MutantFollowing(page) == page
Following(page) == page + 1

\* onDelete: Cascade, from the repository to its items and its jobs.
ItemsWithout(r) == [i \in Issues |-> IF RepoOf[i] = r THEN "none" ELSE item[i]]
MutantJobsWithout(r) == [c \in Calls |-> IF job[c] # "none" THEN "deleted" ELSE "none"]
JobsWithout(r) == [c \in Calls |-> IF call[c].repo = r /\ job[c] # "none"
                                   THEN "deleted" ELSE job[c]]

\* What an error thrown by the sync does: a job goes to its catch block, a
\* request answers with the error.
Throws(l) == IF l.op = "job" THEN "fail" ELSE "failed"

\* closeItem has closed the issue; the row follows.
MutantAfterPatch == "done"
AfterPatch == "closeRow"

Fails(c) == Goes(c, Throws(call[c]))

\* A rejection nobody handles, or a kill: everything in flight is gone.
Dies(cause) ==
  /\ up' = FALSE
  /\ call' = [c \in Calls |->
       IF c \in InFlight THEN [call[c] EXCEPT !.pc = IF c \in cause THEN "crashed" ELSE "lost"]
                         ELSE call[c]]

JobThere(c) == job[c] \in {"QUEUED", "RUNNING"}

-----------------------------------------------------------------------------
(* GitHub and the process                                                  *)

\* Someone opens an issue: it has the next number.
OpenIssue(i) ==
  /\ changes < MaxChanges /\ changes' = changes + 1
  /\ github[i] = "absent"
  /\ \A k \in Issues : RepoOf[k] = RepoOf[i] /\ k < i => github[k] # "absent"
  /\ github' = [github EXCEPT ![i] = "open"]
  /\ UNCHANGED <<server, call, up, seen>>

ChangeIssue(i) ==
  /\ changes < MaxChanges /\ changes' = changes + 1
  /\ \/ github[i] = "open" /\ github' = [github EXCEPT ![i] = "closed"] /\ UNCHANGED seen
     \/ /\ github[i] = "closed" /\ github' = [github EXCEPT ![i] = "open"]
        /\ seen' = [c \in Calls |-> [seen[c] EXCEPT !.moved = @ \/ call[c].id = i]]
  /\ UNCHANGED <<server, call, up>>

\* An issue is deleted or transferred: those after it move up the list.
RemoveIssue(i) ==
  /\ changes < MaxChanges /\ changes' = changes + 1
  /\ github[i] \in {"open", "closed"}
  /\ github' = [github EXCEPT ![i] = "gone"]
  /\ seen' = [c \in Calls |->
       [seen[c] EXCEPT !.moved = @ \/ (c \in InFlight /\ call[c].repo = RepoOf[i])]]
  /\ UNCHANGED <<server, call, up>>

Kill == up /\ Dies({}) /\ UNCHANGED <<server, github, changes, seen>>
Start == ~up /\ up' = TRUE /\ UNCHANGED <<server, github, call, changes, seen>>

-----------------------------------------------------------------------------
(* Repositories                                                            *)

\* connectRepository: the upsert.
Connect(r) ==
  /\ up /\ repo[r] = "free"
  /\ repo' = [repo EXCEPT ![r] = "connected"]
  /\ UNCHANGED <<github, item, job, call, up, changes, seen>>

\* deleteConnectedRepository: the row, with all that refers to it.
Disconnect(r) ==
  /\ up /\ repo[r] = "connected"
  /\ repo' = [repo EXCEPT ![r] = "deleted"]
  /\ item' = ItemsWithout(r)
  /\ job' = JobsWithout(r)
  /\ UNCHANGED <<github, call, up, changes, seen>>

-----------------------------------------------------------------------------
(* Synchronisation                                                         *)

\* createSyncJob inserts the row and lets runSyncJob go; syncRepository is
\* awaited by the request.
StartSync(c) ==
  /\ \E r \in Repos, op \in {"job", "sync"} :
       /\ repo[r] = "connected"
       /\ Begins(c, [Idle EXCEPT !.op = op, !.repo = r,
                                 !.pc = IF op = "job" THEN "begin" ELSE "page"])
       /\ job' = IF op = "job" THEN [job EXCEPT ![c] = "QUEUED"] ELSE job
  /\ UNCHANGED <<repo, item, github, up, changes>>

\* The first update of runSyncJob is outside its try block.
Begin(c) ==
  /\ call[c].pc = "begin"
  /\ IF JobThere(c)
     THEN job' = [job EXCEPT ![c] = "RUNNING"] /\ Goes(c, "page") /\ UNCHANGED up
     ELSE Dies({c}) /\ UNCHANGED job
  /\ UNCHANGED <<repo, item, github, changes, seen>>

\* A page of the list; the token may be gone or GitHub answer with an error.
FetchPage(c) ==
  /\ call[c].pc = "page"
  /\ \/ LET l == call[c]
        IN  Becomes(c, [l EXCEPT !.pc = "item",
                                 !.batch = Answer(l.repo, l.page),
                                 !.more = HasNext(l.repo, l.page),
                                 !.page = Following(l.page)])
     \/ Fails(c)
  /\ UNCHANGED <<server, github, up, changes, seen>>

\* The next entry of the page is upserted; the page is through after the last.
Upsert(c) ==
  /\ call[c].pc = "item"
  /\ LET left == {i \in Issues : call[c].batch[i] # "none"}
     IN  \/ left = {} /\ Goes(c, "progress") /\ UNCHANGED item
         \/ \E i \in left :
              /\ \A k \in left : k <= i
              /\ IF repo[call[c].repo] = "connected"
                 THEN /\ item' = [item EXCEPT ![i] = call[c].batch[i]]
                      /\ Becomes(c, [call[c] EXCEPT !.batch[i] = "none"])
                 ELSE Fails(c) /\ UNCHANGED item
  /\ UNCHANGED <<repo, job, github, up, changes, seen>>

\* onProgress of a job; then the next page, if there is one.
Progress(c) ==
  /\ call[c].pc = "progress"
  /\ IF call[c].op = "job" /\ ~JobThere(c)
     THEN Fails(c)
     ELSE Goes(c, IF call[c].more THEN "page" ELSE "stamp")
  /\ UNCHANGED <<server, github, up, changes, seen>>

\* lastSyncedAt of the repository; with it a sync in a request is complete.
Stamp(c) ==
  /\ call[c].pc = "stamp"
  /\ IF repo[call[c].repo] = "connected"
     THEN Goes(c, IF call[c].op = "job" THEN "finish" ELSE "done")
     ELSE Fails(c)
  /\ UNCHANGED <<server, github, up, changes, seen>>

Finish(c) ==
  /\ call[c].pc = "finish"
  /\ IF JobThere(c)
     THEN job' = [job EXCEPT ![c] = "SUCCEEDED"] /\ Goes(c, "done")
     ELSE Fails(c) /\ UNCHANGED job
  /\ UNCHANGED <<repo, item, github, up, changes, seen>>

\* The catch block: nothing catches what it throws.
MarkFailed(c) ==
  /\ call[c].pc = "fail"
  /\ IF JobThere(c)
     THEN job' = [job EXCEPT ![c] = "FAILED"] /\ Goes(c, "failed") /\ UNCHANGED up
     ELSE Dies({c}) /\ UNCHANGED job
  /\ UNCHANGED <<repo, item, github, changes, seen>>

-----------------------------------------------------------------------------
(* Closing an item                                                         *)

StartClose(c) ==
  /\ \E i \in Issues :
       /\ item[i] # "none"
       /\ Begins(c, [Idle EXCEPT !.op = "close", !.repo = RepoOf[i], !.id = i, !.pc = "patch"])
  /\ UNCHANGED <<server, github, up, changes>>

\* PATCH of the issue; its answer may be an error, or lost.
Patch(c) ==
  /\ call[c].pc = "patch"
  /\ LET i == call[c].id
         closed == [github EXCEPT ![i] = "closed"]
     IN  \/ github[i] # "gone" /\ github' = closed /\ Goes(c, AfterPatch)
         \/ github' \in {github, IF github[i] # "gone" THEN closed ELSE github} /\ Goes(c, "failed")
  /\ UNCHANGED <<server, up, changes, seen>>

CloseRow(c) ==
  /\ call[c].pc = "closeRow"
  /\ IF item[call[c].id] # "none"
     THEN item' = [item EXCEPT ![call[c].id] = "closed"] /\ Goes(c, "done")
     ELSE Goes(c, "failed") /\ UNCHANGED item
  /\ UNCHANGED <<repo, job, github, up, changes, seen>>

-----------------------------------------------------------------------------
Serves(c) ==
  \/ Begin(c) \/ FetchPage(c) \/ Upsert(c) \/ Progress(c) \/ Stamp(c) \/ Finish(c)
  \/ MarkFailed(c) \/ Patch(c) \/ CloseRow(c)

Others ==
  \/ \E i \in Issues : OpenIssue(i) \/ ChangeIssue(i) \/ RemoveIssue(i)
  \/ \E r \in Repos : Connect(r) \/ Disconnect(r)
  \/ Kill \/ Start

-----------------------------------------------------------------------------
(* Properties                                                              *)

\* A sync that ended well has copied every issue GitHub had when it began,
\* although pages move while it reads them: issues opened meanwhile only push
\* others to a later page.  Only one that was removed meanwhile may make it
\* miss another.
SyncedAll ==
  \A c \in Calls :
    call[c].op \in {"job", "sync"} /\ call[c].pc = "done" /\ repo[call[c].repo] = "connected"
      => seen[c].moved \/ \A i \in seen[c].due : item[i] # "none"

\* The server ends itself only when a repository is disconnected under a job
\* that syncs this very repository.
CrashNeedsDisconnect ==
  \A c \in Calls : call[c].pc = "crashed" => call[c].op = "job" /\ repo[call[c].repo] = "deleted"

\* An item closed from here is not shown open again, unless it was reopened on
\* GitHub or a sync was under way beside the closing.
ClosedStaysApart ==
  \A c \in Calls :
    call[c].op = "close" /\ call[c].pc = "done" /\ item[call[c].id] = "open"
      => \/ seen[c].moved
         \/ \E d \in Calls : d \in seen[c].beside /\ call[d].op \in {"job", "sync"}

\* A job that was created ends, succeeded or failed, is deleted with its
\* repository or lost with the process; it is not retried for ever.
JobsEnd ==
  \A c \in Calls : (job[c] = "QUEUED") ~> (job[c] \notin {"QUEUED", "RUNNING"} \/ call[c].pc = "lost")

\* What the row of a job says is true: one that is not over is still worked on, or
\* was lost with the process; one that succeeded has copied what SyncedAll promises.
JobsTellTruth ==
  \A c \in Calls :
    /\ JobThere(c) => c \in InFlight \/ call[c].pc = "lost"
    /\ job[c] = "FAILED" => call[c].pc = "failed"
    /\ job[c] = "SUCCEEDED" /\ repo[call[c].repo] = "connected" =>
         seen[c].moved \/ \A i \in seen[c].due : item[i] # "none"

-----------------------------------------------------------------------------
(* The inductive invariant behind the safety properties                    *)

\* The rows, GitHub and the calls are of their kinds.
BacklogTypes ==
  /\ repo \in [Repos -> {"free", "connected", "deleted"}]
  /\ github \in [Issues -> {"absent", "open", "closed", "gone"}]
  /\ item \in [Issues -> {"none", "open", "closed"}]
  /\ job \in [Calls -> {"none", "QUEUED", "RUNNING", "SUCCEEDED", "FAILED", "deleted"}]
  /\ call \in [Calls -> Call] /\ seen \in [Calls -> Seen]
  /\ up \in BOOLEAN /\ changes \in 0..MaxChanges

Syncs(c) == call[c].op \in {"job", "sync"}

\* Where calls of each kind can stand; a job has its row until it ends, or its
\* repository is gone.
Sound(c) ==
  LET l == call[c] IN
  /\ l.pc = "idle" => l = Idle
  /\ l.pc # "idle" => l.op # "none" /\ l.repo \in Repos
  /\ l.op = "close" => /\ l.id \in Issues /\ l.batch = NoBatch
                       /\ l.pc \in {"patch", "closeRow", "done", "failed", "lost"}
  /\ l.pc \in {"patch", "closeRow"} => l.op = "close"
  /\ l.pc \in {"begin", "finish", "fail", "crashed"} => l.op = "job"
  /\ l.op = "job" /\ c \in InFlight => JobThere(c) \/ repo[l.repo] = "deleted"
  /\ l.pc = "crashed" => repo[l.repo] = "deleted"
  /\ Syncs(c) => repo[l.repo] # "free"
  /\ \A i \in seen[c].due : RepoOf[i] = l.repo

\* What a sync has still to copy, of all it is due, is on the page it holds or
\* on one that it will ask for.
ToCome(c, i) ==
  LET l == call[c] IN
  \/ l.pc \in {"begin", "page"} /\ Ahead(i, l.page)
  \/ l.pc = "item" /\ l.batch[i] # "none"
  \/ l.pc \in {"item", "progress"} /\ l.more /\ Ahead(i, l.page)
  \/ l.pc \in {"fail", "failed", "lost", "crashed"}

Covered(c) ==
  Syncs(c) /\ repo[call[c].repo] = "connected" /\ ~seen[c].moved =>
    /\ c \in InFlight => seen[c].due \subseteq Listed(call[c].repo)
    /\ \A i \in seen[c].due : item[i] # "none" \/ ToCome(c, i)

\* The calls in flight know each other.
Together ==
  /\ \A c, d \in InFlight : c # d => d \in seen[c].beside
  /\ \A c \in Calls : \A d \in seen[c].beside : call[d].pc # "idle"

\* Once closed from here, and not reopened, an issue is open in no answer that
\* a later sync has.
Closes(c) ==
  call[c].op = "close" /\ ~seen[c].moved =>
    /\ call[c].pc \in {"closeRow", "done"} => github[call[c].id] \in {"closed", "gone"}
    /\ call[c].pc = "done" =>
         \A d \in InFlight : d \in seen[c].beside \/ call[d].batch[call[c].id] # "open"

SyncInv ==
  /\ BacklogTypes /\ Together /\ ClosedStaysApart
  /\ \A c \in Calls : Sound(c) /\ Covered(c) /\ Closes(c)

\* Where a call stands and what the row of its job says go together.
JobRow(c) ==
  /\ job[c] # "none" => call[c].op = "job"
  /\ JobThere(c) => call[c].pc \notin {"idle", "done", "failed", "crashed"}
  /\ job[c] = "SUCCEEDED" => call[c].pc = "done"
  /\ job[c] = "FAILED" => call[c].pc = "failed"

JobInv == SyncInv /\ \A c \in Calls : JobRow(c)
=============================================================================
