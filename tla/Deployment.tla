---------------------------- MODULE Deployment ----------------------------
(***************************************************************************)
(* Deployments to the one EC2 host: the workflow posts to /ops/deploy, the *)
(* API process spawns deploy-ec2.sh and answers when it ends, the script   *)
(* rebuilds the checkout it runs from and leaves a restart-api.sh behind   *)
(* that replaces the API process.  A script may also be run by hand.       *)
(*                                                                         *)
(* An action is one command of a script that touches the host, or one      *)
(* await of the API.  Commits are numbered in the order they were pushed.  *)
(* A command may fail, a script may be killed, and bash reads its script   *)
(* from the file while it runs.  Port, files and lock are the host's, so   *)
(* every script and process shares them.  The text of deploy-ec2.sh is     *)
(* taken to be the same in all commits; npm and the node process it starts *)
(* count as one process.  A script runs from a copy of itself, unless its  *)
(* environment says that it does (DEPLOY_SCRIPT_REEXECUTED=1): a process   *)
(* that a restart started has that from the script that left the restart,  *)
(* and hands it on to the scripts it spawns.                               *)
(***************************************************************************)
EXTENDS Naturals, FiniteSets

CONSTANTS
  Deploys,     (* runs of deploy-ec2.sh                                    *)
  Procs,       (* API processes                                            *)
  FirstProc,   (* the one that serves at the start                         *)
  Inheriting,  (* those with DEPLOY_SCRIPT_REEXECUTED=1 in the environment *)
  MaxHead,     (* bound on the commits pushed to the branch                *)
  None

ASSUME DeploymentAssumption ==
  /\ FirstProc \in Procs
  /\ Procs \ {FirstProc} \subseteq Inheriting /\ Inheriting \subseteq Procs
  /\ None \notin Procs \union Nat
  /\ MaxHead \in Nat

VARIABLES
  head,      (* the newest commit of the branch at GitHub                  *)
  origin,    (* origin/develop of the checkout, what git fetch last saw    *)
  tree,      (* the commit checked out                                     *)
  deps,      (* the commit node_modules is complete for, or None           *)
  schema,    (* the newest commit whose migrations are applied             *)
  dist,      (* the commit apps/api/dist is complete for, or None          *)
  lock,      (* whether the directory .run/deploy.lock exists              *)
  script,    (* the file .run/deploy-ec2.active.sh: "full" or "empty"      *)
  job,       (* where each deployment stands                               *)
  restart,   (* where the restart-api.sh it started stands                 *)
  proc,      (* the API processes                                          *)
  pidFile,   (* the process named in .run/api.pid                          *)
  killed,    (* history: scripts that were killed                          *)
  disturbed  (* history: a restart failed, or something interfered with it *)

host == <<origin, tree, deps, schema, dist>>
vars == <<head, host, lock, script, job, restart, proc, pidFile, killed, disturbed>>

-----------------------------------------------------------------------------
Commits == 0..MaxHead

Pc == {"idle", "check", "truncate", "write", "lock",
       "fetch", "reset", "install", "installing", "migrate",
       "build", "building", "sync", "restart", "await", "ended"}

\* Between mkdir and the EXIT trap.
Held == {"fetch", "reset", "install", "installing", "migrate",
         "build", "building", "sync", "restart", "await"}

\* via: the process that spawned the script, None when run by hand; sha: the
\* commit of the push that triggered it; v: the commit it checked out;
\* exit: "ok" is status 0, "busy" is 75, "cut" is 0 from a script cut short.
Job == [pc     : Pc,
        via    : Procs \union {None},
        sha    : Commits,
        v      : Commits \union {None},
        exit   : {"none", "ok", "busy", "error", "cut", "killed", "unserved"},
        client : {"none", "waiting", "health", "ended"}]

NoJob == [pc |-> "idle", via |-> None, sha |-> 0, v |-> None,
          exit |-> "none", client |-> "none"]

Restart == [pc : {"none", "sleep", "term", "wait", "start", "writePid", "done", "failed"},
            old : Procs \union {None}, new : Procs \union {None}]

NoRestart == [pc |-> "none", old |-> None, new |-> None]

Proc == [st : {"free", "booting", "up", "stopping", "dead"}, v : Commits]

Init ==
  /\ head = 0 /\ origin = 0 /\ tree = 0 /\ deps = 0 /\ schema = 0 /\ dist = 0
  /\ lock = FALSE /\ script = "full"
  /\ job = [d \in Deploys |-> NoJob]
  /\ restart = [d \in Deploys |-> NoRestart]
  /\ proc = [p \in Procs |-> [st |-> IF p = FirstProc THEN "up" ELSE "free", v |-> 0]]
  /\ pidFile = FirstProc
  /\ killed = {} /\ disturbed = FALSE

Holds(d) == job[d].pc \in Held
Alive(p) == p \in Procs /\ proc[p].st \in {"booting", "up", "stopping"}
Restarting == {d \in Deploys : restart[d].pc \notin {"none", "done", "failed"}}
Booting == {p \in Procs : proc[p].st = "booting"}

-----------------------------------------------------------------------------
(* The operators named Mutant... are plausible mistakes in the one that     *)
(* follows; nothing refers to them here.                                    *)

\* An exit with this status removes the lock directory.
MutantNoTrapOnError(d, status) == Holds(d) /\ status # "error"
Releases(d, status) == Holds(d)

\* mkdir finds the lock directory; with -p that would be no error.
MutantTaken == FALSE
Taken == lock

Exits(d, status) ==
  /\ job' = [job EXCEPT ![d].pc = "ended", ![d].exit = status]
  /\ lock' = IF Releases(d, status) THEN FALSE ELSE lock

Goes(d, pc) ==
  /\ job' = [job EXCEPT ![d].pc = pc]
  /\ UNCHANGED lock

\* Script d runs from the copy.
Copied(d) == job[d].via \notin Inheriting

\* The statement of d is next, and bash can read it.
At(d, pc) == job[d].pc = pc /\ (script = "full" \/ ~Copied(d))

\* The command at pc is next; it succeeds and the script goes on at next, or it
\* fails and set -e ends the script.
Fails(d, pc) == At(d, pc) /\ Exits(d, "error")
Passes(d, pc, next) == At(d, pc) /\ Goes(d, next)

\* The statement that follows the build steps one by one.
MutantThen(pc) ==
  CASE pc = "installing" -> "build" [] pc = "building" -> "migrate" [] pc = "migrate" -> "sync"
Then(pc) ==
  CASE pc = "installing" -> "migrate" [] pc = "migrate" -> "build" [] pc = "building" -> "sync"

\* The commit git reset --hard checks out.
MutantResetTarget == tree
ResetTarget == origin

\* What restart-api.sh does after it has sent SIGTERM.
MutantAfterTerm == "start"
AfterTerm == "wait"

-----------------------------------------------------------------------------
(* The workflow and the API                                                 *)

Push ==
  /\ head < MaxHead
  /\ head' = head + 1
  /\ UNCHANGED <<host, lock, script, job, restart, proc, pidFile, killed, disturbed>>

\* The jobs of the workflow run one at a time; the API that is up serves it.
Post(d) ==
  /\ job[d].pc = "idle"
  /\ \A e \in Deploys : job[e].client \in {"none", "ended"}
  /\ \E p \in Procs, s \in 0..head :
       /\ proc[p].st = "up"
       /\ job' = [job EXCEPT ![d] = [NoJob EXCEPT !.pc = "check", !.via = p, !.sha = s,
                                                  !.client = "waiting"]]
  /\ UNCHANGED <<head, host, lock, script, restart, proc, pidFile, killed, disturbed>>

\* The script run from a shell on the host.
RunByHand(d) ==
  /\ job[d].pc = "idle"
  /\ job' = [job EXCEPT ![d].pc = "truncate"]
  /\ UNCHANGED <<head, host, lock, script, restart, proc, pidFile, killed, disturbed>>

\* pathExists(lockPath), then spawn; the script copies itself first or not at all.
Check(d) ==
  /\ job[d].pc = "check"
  /\ IF ~Alive(job[d].via) THEN Exits(d, "unserved")
     ELSE IF lock THEN Exits(d, "busy")
     ELSE Goes(d, IF Copied(d) THEN "truncate" ELSE "lock")
  /\ UNCHANGED <<head, host, script, restart, proc, pidFile, killed, disturbed>>

\* The script ended, or the API process did; curl stops waiting.
Answer(d) ==
  /\ job[d].client = "waiting"
  /\ job[d].pc = "ended" \/ ~Alive(job[d].via)
  /\ job' = [job EXCEPT ![d].client =
               IF Alive(job[d].via) /\ job[d].exit \in {"ok", "cut"} THEN "health" ELSE "ended"]
  /\ UNCHANGED <<head, host, lock, script, restart, proc, pidFile, killed, disturbed>>

\* curl --max-time passes; or the health check is answered or gives up.
ClientEnds(d) ==
  /\ job[d].client \in {"waiting", "health"}
  /\ job' = [job EXCEPT ![d].client = "ended"]
  /\ UNCHANGED <<head, host, lock, script, restart, proc, pidFile, killed, disturbed>>

-----------------------------------------------------------------------------
(* deploy-ec2.sh                                                            *)

\* cp opens the copy for writing, whoever is running it; then fills it, and the
\* script executes it.
Truncate(d) ==
  /\ job[d].pc = "truncate"
  /\ script' = "empty"
  /\ Goes(d, "write")
  /\ UNCHANGED <<head, host, restart, proc, pidFile, killed, disturbed>>

Write(d) ==
  /\ job[d].pc = "write"
  /\ script' = "full"
  /\ Goes(d, "lock")
  /\ UNCHANGED <<head, host, restart, proc, pidFile, killed, disturbed>>

\* bash finds the end of its script where the next statement was: the script
\* ends with the status of the last command, which was 0.
CutShort(d) ==
  /\ script = "empty" /\ Copied(d)
  /\ job[d].pc \in Held \union {"lock"}
  /\ Exits(d, "cut")
  /\ disturbed' = TRUE
  /\ UNCHANGED <<head, host, script, restart, proc, pidFile, killed>>

\* mkdir of the lock directory.
TakeLock(d) ==
  /\ At(d, "lock")
  /\ IF Taken
     THEN Exits(d, "busy") /\ UNCHANGED disturbed
     ELSE /\ job' = [job EXCEPT ![d].pc = "fetch"]
          /\ lock' = TRUE
          /\ disturbed' = (disturbed \/ Restarting # {} \/ Booting # {})
  /\ UNCHANGED <<head, host, script, restart, proc, pidFile, killed>>

Fetch(d) ==
  /\ \/ Passes(d, "fetch", "reset") /\ origin' = head
     \/ Fails(d, "fetch") /\ UNCHANGED origin
  /\ UNCHANGED <<head, tree, deps, schema, dist, script, restart, proc, pidFile, killed, disturbed>>

Reset(d) ==
  /\ \/ /\ At(d, "reset")
        /\ tree' = ResetTarget
        /\ job' = [job EXCEPT ![d].pc = "install", ![d].v = tree']
        /\ UNCHANGED lock
     \/ Fails(d, "reset") /\ UNCHANGED tree
  /\ UNCHANGED <<head, origin, deps, schema, dist, script, restart, proc, pidFile, killed, disturbed>>

\* npm ci removes node_modules before it fills it.
Install(d) ==
  /\ \/ Passes(d, "install", "installing") /\ deps' = None
     \/ Passes(d, "installing", Then("installing")) /\ deps' = tree
     \/ Fails(d, "installing") /\ UNCHANGED deps
  /\ UNCHANGED <<head, origin, tree, schema, dist, script, restart, proc, pidFile, killed, disturbed>>

\* Migrations that were applied before are skipped.
Migrate(d) ==
  /\ \/ Passes(d, "migrate", Then("migrate")) /\ schema' = IF tree > schema THEN tree ELSE schema
     \/ Fails(d, "migrate") /\ UNCHANGED schema
  /\ UNCHANGED <<head, origin, tree, deps, dist, script, restart, proc, pidFile, killed, disturbed>>

\* nest build deletes dist (deleteOutDir) before it fills it.
Build(d) ==
  /\ \/ Passes(d, "build", "building") /\ dist' = None
     \/ Passes(d, "building", Then("building")) /\ dist' = tree
     \/ Fails(d, "building") /\ UNCHANGED dist
  /\ UNCHANGED <<head, origin, tree, deps, schema, script, restart, proc, pidFile, killed, disturbed>>

\* deploy:web:s3, and restart-web-static.sh when it is configured.
SyncWeb(d) ==
  /\ Passes(d, "sync", "restart") \/ Fails(d, "sync")
  /\ UNCHANGED <<head, host, script, restart, proc, pidFile, killed, disturbed>>

\* The API asked to defer the restart: it is left behind and the script ends.
\* Otherwise the script waits for it.
StartRestart(d) ==
  /\ At(d, "restart")
  /\ restart' = [restart EXCEPT ![d].pc = "sleep"]
  /\ IF job[d].via = None THEN Goes(d, "await") ELSE Exits(d, "ok")
  /\ UNCHANGED <<head, host, script, proc, pidFile, killed, disturbed>>

AwaitRestart(d) ==
  /\ At(d, "await")
  /\ \/ restart[d].pc = "done" /\ Exits(d, "ok")
     \/ restart[d].pc = "failed" /\ Exits(d, "error")
  /\ UNCHANGED <<head, host, script, restart, proc, pidFile, killed, disturbed>>

Script(d) ==
  \/ Truncate(d) \/ Write(d) \/ CutShort(d) \/ TakeLock(d) \/ Fetch(d) \/ Reset(d)
  \/ Install(d) \/ Migrate(d) \/ Build(d) \/ SyncWeb(d) \/ StartRestart(d) \/ AwaitRestart(d)

\* SIGKILL: no trap runs, and a cp under way is left as it is.
Kill(d) ==
  /\ job[d].pc \notin {"idle", "check", "ended"}
  /\ job' = [job EXCEPT ![d].pc = "ended", ![d].exit = "killed"]
  /\ killed' = killed \union {d}
  /\ disturbed' = TRUE
  /\ UNCHANGED <<head, host, lock, script, restart, proc, pidFile>>

-----------------------------------------------------------------------------
(* restart-api.sh and the API processes                                     *)

\* The delay is over; the set-up fails, or the pid file is read.
ReadPid(d) ==
  /\ restart[d].pc = "sleep"
  /\ \/ /\ restart' = [restart EXCEPT ![d].old = pidFile,
                         ![d].pc = IF Alive(pidFile) THEN "term" ELSE "start"]
        /\ UNCHANGED disturbed
     \/ restart' = [restart EXCEPT ![d].pc = "failed"] /\ disturbed' = TRUE
  /\ UNCHANGED <<head, host, lock, script, job, proc, pidFile, killed>>

Stopped(p) == [proc EXCEPT ![p].st = IF Alive(p) THEN "stopping" ELSE @]

Term(d) ==
  /\ restart[d].pc = "term"
  /\ proc' = Stopped(restart[d].old)
  /\ restart' = [restart EXCEPT ![d].pc = AfterTerm]
  /\ UNCHANGED <<head, host, lock, script, job, pidFile, killed, disturbed>>

\* The process is gone, or is killed after ten seconds.
Wait(d) ==
  /\ restart[d].pc = "wait"
  /\ proc' = [proc EXCEPT ![restart[d].old].st = "dead"]
  /\ restart' = [restart EXCEPT ![d].pc = "start"]
  /\ UNCHANGED <<head, host, lock, script, job, pidFile, killed, disturbed>>

StartApi(d) ==
  /\ restart[d].pc = "start"
  /\ \E p \in Procs :
       /\ proc[p].st = "free"
       /\ proc' = [proc EXCEPT ![p].st = "booting"]
       /\ restart' = [restart EXCEPT ![d].pc = "writePid", ![d].new = p]
  /\ UNCHANGED <<head, host, lock, script, job, pidFile, killed, disturbed>>

WritePid(d) ==
  /\ restart[d].pc = "writePid"
  /\ pidFile' = restart[d].new
  /\ restart' = [restart EXCEPT ![d].pc = "done"]
  /\ UNCHANGED <<head, host, lock, script, job, proc, killed, disturbed>>

RestartStep(d) == ReadPid(d) \/ Term(d) \/ Wait(d) \/ StartApi(d) \/ WritePid(d)

\* The process loads dist and node_modules and listens on the port, if they are
\* complete and no other process has it.
Boot(p) ==
  /\ proc[p].st = "booting"
  /\ proc' = [proc EXCEPT ![p] =
       IF deps # None /\ dist # None /\ \A q \in Procs : proc[q].st \notin {"up", "stopping"}
       THEN [st |-> "up", v |-> dist] ELSE [@ EXCEPT !.st = "dead"]]
  /\ UNCHANGED <<head, host, lock, script, job, restart, pidFile, killed, disturbed>>

Die(p) ==
  /\ proc[p].st = "stopping"
  /\ proc' = [proc EXCEPT ![p].st = "dead"]
  /\ UNCHANGED <<head, host, lock, script, job, restart, pidFile, killed, disturbed>>

-----------------------------------------------------------------------------
Next ==
  \/ Push
  \/ \E d \in Deploys :
       \/ Post(d) \/ RunByHand(d) \/ Check(d) \/ Answer(d) \/ ClientEnds(d)
       \/ Script(d) \/ Kill(d) \/ RestartStep(d)
  \/ \E p \in Procs : Boot(p) \/ Die(p)

\* A script that was started, a restart it left behind and a process that boots
\* or was told to stop get to run; nobody has to push, post or give up, and a
\* script need not be killed.
Fairness ==
  /\ \A d \in Deploys : WF_vars(Check(d)) /\ WF_vars(Answer(d))
                        /\ WF_vars(Script(d)) /\ WF_vars(RestartStep(d))
  /\ \A p \in Procs : WF_vars(Boot(p)) /\ WF_vars(Die(p))

Spec == Init /\ [][Next]_vars
FairSpec == Spec /\ Fairness

-----------------------------------------------------------------------------
(* Properties                                                               *)

TypeOK ==
  /\ head \in Commits /\ origin \in Commits /\ tree \in Commits /\ schema \in Commits
  /\ deps \in Commits \union {None} /\ dist \in Commits \union {None}
  /\ lock \in BOOLEAN /\ script \in {"full", "empty"}
  /\ job \in [Deploys -> Job]
  /\ restart \in [Deploys -> Restart]
  /\ proc \in [Procs -> Proc]
  /\ pidFile \in Procs
  /\ killed \subseteq Deploys /\ disturbed \in BOOLEAN

\* However many deployments are triggered, by the workflow and by hand, and
\* whichever of them are refused, cut short or killed, at most one is between
\* mkdir and its EXIT trap: no two scripts work on the checkout at once.
OneDeployment ==
  \A d, e \in Deploys : Holds(d) /\ Holds(e) => d = e

\* No build and no API process is newer than the migrations applied to the
\* database, also when a deployment fails or dies half way.
SchemaCoversCode ==
  /\ dist = None \/ dist <= schema
  /\ \A p \in Procs : proc[p].v <= schema

\* A deployment that ends well has deployed the push that triggered it, or a
\* later one, although the script never looks at DEPLOY_TARGET_SHA.  (A script
\* cut short also exits with 0; see README.)
OkIncludesRequested ==
  \A d \in Deploys : job[d].exit = "ok" => job[d].v # None /\ job[d].v >= job[d].sha

\* The lock of a deployment that fails, is cut short or ends is released; only
\* one that was killed leaves it for ever.
LockReleased ==
  lock ~> (~lock \/ killed # {})

\* A deployment that ended well takes effect: an API of its commit or a later
\* one comes up, unless the restart failed, or a deployment was killed, cut
\* short, or started before the restart was over.
TakesEffect ==
  \A d \in Deploys :
    job[d].exit = "ok" ~>
      disturbed \/ (job[d].v # None /\ \E p \in Procs : proc[p].st = "up" /\ proc[p].v >= job[d].v)

-----------------------------------------------------------------------------
(* The inductive invariant behind the safety properties                     *)

HolderHasLock == \A d \in Deploys : Holds(d) => lock

\* The checkout the API is built from has been migrated.
BuildsMigrated ==
  \A d \in Deploys : job[d].pc \in {"build", "building"} => tree <= schema

\* What was fetched and checked out is as new as the push.
Fetched ==
  \A d \in Deploys :
    /\ job[d].sha <= head
    /\ job[d].pc = "reset" => job[d].sha <= origin
    /\ job[d].pc \in Held \ {"fetch", "reset"} => job[d].v # None /\ job[d].v >= job[d].sha

Started ==
  \A d \in Deploys : restart[d].pc = "writePid" => restart[d].new \in Procs

IInv == /\ TypeOK /\ Started /\ HolderHasLock /\ OneDeployment
        /\ SchemaCoversCode /\ BuildsMigrated
        /\ Fetched /\ OkIncludesRequested

-----------------------------------------------------------------------------
(* What LockReleased and TakesEffect say of single states                   *)

\* A lock directory that no script will remove is left of one that was killed.
LockExplained == lock => killed # {} \/ \E d \in Deploys : Holds(d)

\* As long as nothing interfered, a deployment that ended well has taken effect,
\* or a restart or a process that boots still stands between.
EffectComes ==
  ~disturbed => \A d \in Deploys :
    job[d].exit = "ok" => \/ Restarting # {} \/ Booting # {}
                          \/ job[d].v # None /\ \E p \in Procs : proc[p].st = "up" /\ proc[p].v >= job[d].v

\* The checkout only gets newer, and a script that ended well has ended.
Versions ==
  /\ tree <= origin /\ origin <= head
  /\ \A d \in Deploys : /\ job[d].v # None => job[d].v <= tree
                        /\ job[d].exit = "ok" => job[d].pc = "ended"

\* What a script has installed and built stays until it ends.
Built(d) ==
  /\ job[d].pc \in {"migrate", "build", "building", "sync", "restart"} => deps # None
  /\ job[d].pc \in {"sync", "restart"} => dist = tree

\* One restart at a time, and no script changes the checkout until the process it
\* started has loaded it.
RestartsAlone ==
  /\ \A d, e \in Restarting : d = e
  /\ Restarting # {} \/ Booting # {} =>
       /\ deps # None /\ dist = tree
       /\ \A d \in Deploys : Holds(d) => job[d].pc = "await"

\* Only the process of the pid file is alive, so the port is free for the next.
OneAlive(d) ==
  LET r == restart[d] IN
  /\ r.pc \in {"term", "wait"} => r.old = pidFile
  /\ r.pc = "start" => \A p \in Procs : ~Alive(p)
  /\ r.pc = "writePid" => /\ \A p \in Procs : Alive(p) => p = r.new
                          /\ proc[r.new].st = "booting" \/ (proc[r.new].st = "up" /\ proc[r.new].v = dist)

PidFileNames ==
  \A p \in Procs : Alive(p) => p = pidFile \/ \E d \in Deploys : restart[d].pc = "writePid"

Comes(d) ==
  job[d].exit = "ok" \/ job[d].pc = "await" =>
    \/ Restarting # {} \/ Booting # {}
    \/ \E p \in Procs : proc[p].st = "up" /\ proc[p].v >= job[d].v

EffectInv ==
  /\ IInv /\ Versions
  /\ ~disturbed => /\ RestartsAlone /\ PidFileNames
                   /\ \A d \in Deploys : Built(d) /\ OneAlive(d) /\ Comes(d)
=============================================================================
