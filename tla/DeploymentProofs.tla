------------------------- MODULE DeploymentProofs -------------------------
(***************************************************************************)
(* The safety properties of Deployment for any number of deployments,      *)
(* processes and commits.  IInv adds to them what the holder of the lock   *)
(* may rely on: the lock directory exists while a script is between mkdir  *)
(* and its trap, so what that script fetched, checked out and migrated is  *)
(* still so when it builds.                                                *)
(***************************************************************************)
EXTENDS Deployment, TLAPS

USE DeploymentAssumption

THEOREM InitInv == Init => IInv
<1>1. SUFFICES ASSUME Init PROVE IInv
  OBVIOUS
<1>2. TypeOK
  <2>1. 0 \in Commits
    BY DEF Commits
  <2>2. NoJob \in Job /\ NoRestart \in Restart
    BY <2>1 DEF Job, NoJob, Pc, Restart, NoRestart
  <2>3. \A p \in Procs : [st |-> IF p = FirstProc THEN "up" ELSE "free", v |-> 0] \in Proc
    BY <2>1 DEF Proc
  <2> QED BY <1>1, <2>1, <2>2, <2>3 DEF Init, TypeOK
<1>3. HolderHasLock /\ OneDeployment /\ SchemaCoversCode /\ BuildsMigrated
  BY <1>1 DEF Init, HolderHasLock, OneDeployment, SchemaCoversCode, BuildsMigrated, Holds, Held, NoJob
<1>4. Fetched /\ OkIncludesRequested
  BY <1>1 DEF Init, Fetched, OkIncludesRequested, Held, NoJob
<1>5. Started
  BY <1>1 DEF Init, NoRestart, Started
<1> QED BY <1>2, <1>3, <1>4, <1>5 DEF IInv

-----------------------------------------------------------------------------
(* A step of the workflow or of the API changes no file of the host, and    *)
(* takes no script past mkdir.                                              *)

LEMMA PushStep == ASSUME IInv, Push PROVE IInv'
<1>1. head \in Nat /\ head' = head + 1 /\ head < MaxHead
  BY DEF IInv, TypeOK, Push, Commits
<1>2. UNCHANGED <<origin, tree, deps, schema, dist, lock, script, job, restart, proc, pidFile,
                  killed, disturbed>>
  BY DEF Push, host
<1>3. TypeOK'
  BY <1>1, <1>2 DEF IInv, TypeOK, Commits
<1>4. (HolderHasLock /\ OneDeployment /\ SchemaCoversCode /\ BuildsMigrated /\ OkIncludesRequested)'
  BY <1>2 DEF IInv, HolderHasLock, OneDeployment, SchemaCoversCode, BuildsMigrated,
              OkIncludesRequested, Holds
<1>5. Fetched'
  BY <1>1, <1>2 DEF IInv, Fetched, TypeOK, Job, Commits
<1>6. Started'
  BY <1>2 DEF IInv, Started
<1> QED BY <1>3, <1>4, <1>5, <1>6 DEF IInv

LEMMA ClientStep ==
  ASSUME IInv, NEW d \in Deploys, Answer(d) \/ ClientEnds(d) PROVE IInv'
<1>1. PICK c \in {"health", "ended"} : job' = [job EXCEPT ![d].client = c]
  BY DEF Answer, ClientEnds
<1>2. UNCHANGED <<head, origin, tree, deps, schema, dist, lock, script, restart, proc, pidFile,
                  killed, disturbed>>
  BY DEF Answer, ClientEnds, host
<1>3. job \in [Deploys -> Job]
  BY DEF IInv, TypeOK
<1>4. /\ job' \in [Deploys -> Job]
      /\ \A e \in Deploys : /\ job'[e].pc = job[e].pc /\ job'[e].sha = job[e].sha
                            /\ job'[e].v = job[e].v /\ job'[e].exit = job[e].exit
  BY <1>1, <1>3 DEF Job
<1>5. TypeOK'
  BY <1>2, <1>4 DEF IInv, TypeOK
<1>6. (HolderHasLock /\ OneDeployment /\ SchemaCoversCode /\ BuildsMigrated)'
  BY <1>2, <1>4 DEF IInv, HolderHasLock, OneDeployment, SchemaCoversCode, BuildsMigrated, Holds
<1>7. (Fetched /\ OkIncludesRequested)'
  BY <1>2, <1>4 DEF IInv, Fetched, OkIncludesRequested
<1>8. Started'
  BY <1>2 DEF IInv, Started
<1> QED BY <1>5, <1>6, <1>7, <1>8 DEF IInv

\* A new job: its push is in the branch already.
LEMMA StartStep ==
  ASSUME IInv, NEW d \in Deploys, Post(d) \/ RunByHand(d) PROVE IInv'
<1>1. job \in [Deploys -> Job] /\ head \in Commits
  BY DEF IInv, TypeOK
<1>2. UNCHANGED <<head, origin, tree, deps, schema, dist, lock, script, restart, proc, pidFile,
                  killed, disturbed>>
  BY DEF Post, RunByHand, host
<1>3. /\ job' \in [Deploys -> Job]
      /\ job'[d].pc \in {"check", "truncate"} /\ job'[d].sha <= head
      /\ \/ job'[d].exit = "none"
         \/ job'[d].exit = job[d].exit /\ job'[d].v = job[d].v /\ job'[d].sha = job[d].sha
      /\ \A e \in Deploys : e # d => job'[e] = job[e]
  <2>1. CASE RunByHand(d)
    <3>1. job' = [job EXCEPT ![d].pc = "truncate"]
      BY <2>1 DEF RunByHand
    <3> QED BY <3>1, <1>1 DEF Job, Pc, IInv, Fetched
  <2>2. CASE Post(d)
    <3>1. PICK p \in Procs, s \in 0..head :
            job' = [job EXCEPT ![d] = [NoJob EXCEPT !.pc = "check", !.via = p, !.sha = s,
                                                    !.client = "waiting"]]
      BY <2>2 DEF Post
    <3>2. s \in Commits /\ s <= head
      BY <3>1, <1>1 DEF Commits
    <3> QED BY <3>1, <3>2, <1>1 DEF Job, Pc, NoJob
  <2> QED BY <2>1, <2>2
<1>4. TypeOK'
  BY <1>2, <1>3 DEF IInv, TypeOK
<1>5. ~Holds(d)' /\ \A e \in Deploys : e # d => Holds(e)' = Holds(e)
  BY <1>3 DEF Holds, Held
<1>6. (HolderHasLock /\ OneDeployment /\ SchemaCoversCode)'
  BY <1>2, <1>5 DEF IInv, HolderHasLock, OneDeployment, SchemaCoversCode
<1>7. BuildsMigrated'
  BY <1>2, <1>3 DEF IInv, BuildsMigrated
<1>8. Fetched'
  BY <1>2, <1>3 DEF IInv, Fetched, Held
<1>9. OkIncludesRequested'
  BY <1>2, <1>3 DEF IInv, OkIncludesRequested
<1>10. Started'
  BY <1>2 DEF IInv, Started
<1> QED BY <1>4, <1>6, <1>7, <1>8, <1>9, <1>10 DEF IInv

-----------------------------------------------------------------------------
(* The two ways a statement of the script ends.                             *)

\* What an action may do to the host while the script of d is elsewhere or ends.
Kept == UNCHANGED <<head, origin, tree, schema, dist, proc>>

JobInv == /\ job \in [Deploys -> Job] /\ lock \in BOOLEAN
          /\ HolderHasLock /\ OneDeployment /\ SchemaCoversCode /\ BuildsMigrated
          /\ Fetched /\ OkIncludesRequested

LEMMA ExitKeeps ==
  ASSUME IInv, NEW d \in Deploys,
         NEW status \in {"ok", "busy", "error", "cut", "killed", "unserved"},
         Exits(d, status) \/ (/\ job' = [job EXCEPT ![d].pc = "ended", ![d].exit = status]
                              /\ lock' = lock),
         status = "ok" => job[d].v # None /\ job[d].v >= job[d].sha,
         Kept
  PROVE  JobInv'
<1>1. job \in [Deploys -> Job] /\ lock \in BOOLEAN
  BY DEF IInv, TypeOK
<1>2. /\ job' = [job EXCEPT ![d].pc = "ended", ![d].exit = status]
      /\ lock' = lock \/ (lock' = FALSE /\ Holds(d))
  BY DEF Exits, Releases
<1>3. /\ job' \in [Deploys -> Job]
      /\ job'[d].pc = "ended" /\ job'[d].exit = status
      /\ job'[d].v = job[d].v /\ job'[d].sha = job[d].sha
      /\ \A e \in Deploys : e # d => job'[e] = job[e]
  <2>1. job[d] \in Job
    BY <1>1
  <2>2. [job[d] EXCEPT !.pc = "ended", !.exit = status] \in Job
    BY <2>1 DEF Job, Pc
  <2>3. job' = [job EXCEPT ![d] = [job[d] EXCEPT !.pc = "ended", !.exit = status]]
    BY <1>1, <1>2
  <2>4. /\ [job[d] EXCEPT !.pc = "ended", !.exit = status].pc = "ended"
        /\ [job[d] EXCEPT !.pc = "ended", !.exit = status].exit = status
        /\ [job[d] EXCEPT !.pc = "ended", !.exit = status].v = job[d].v
        /\ [job[d] EXCEPT !.pc = "ended", !.exit = status].sha = job[d].sha
    BY <2>1 DEF Job
  <2> QED BY <1>1, <2>2, <2>3, <2>4
<1>4. ~Holds(d)' /\ \A e \in Deploys : e # d => Holds(e)' = Holds(e)
  BY <1>3 DEF Holds, Held
<1>5. lock' \in BOOLEAN
  BY <1>1, <1>2
<1>6. HolderHasLock' /\ OneDeployment'
  <2>1. ASSUME NEW e \in Deploys, Holds(e)' PROVE lock'
    <3>1. e # d /\ Holds(e) /\ lock
      BY <1>4, <2>1 DEF IInv, HolderHasLock
    <3>2. ~Holds(d)
      BY <3>1 DEF IInv, OneDeployment
    <3> QED BY <3>1, <3>2, <1>2
  <2> QED BY <2>1, <1>4 DEF IInv, HolderHasLock, OneDeployment
<1>7. SchemaCoversCode'
  BY DEF IInv, SchemaCoversCode, Kept
<1>8. BuildsMigrated'
  BY <1>3 DEF IInv, BuildsMigrated, Kept
<1>9. Fetched'
  BY <1>3 DEF IInv, Fetched, Held, Kept
<1>10. OkIncludesRequested'
  BY <1>3 DEF IInv, OkIncludesRequested
<1> QED BY <1>3, <1>5, <1>6, <1>7, <1>8, <1>9, <1>10 DEF JobInv

\* The script of d goes on at pc; if it holds the lock, it may also have changed
\* the remote branch it knows, the schema or the build.
LEMMA GoesKeeps ==
  ASSUME IInv, NEW d \in Deploys, NEW pc \in Pc, Goes(d, pc),
         pc \in Held => Holds(d),
         UNCHANGED <<head, tree, proc>>,
         origin' = origin \/ Holds(d),
         schema' \in Commits, schema <= schema',
         dist' = dist \/ dist' = None \/ (dist' = tree /\ tree <= schema'),
         pc = "reset" => job[d].sha <= origin',
         pc \in {"build", "building"} => tree <= schema',
         pc \in Held \ {"fetch", "reset"} => job[d].v # None /\ job[d].v >= job[d].sha
  PROVE  JobInv'
<1>1. /\ job \in [Deploys -> Job] /\ lock \in BOOLEAN
      /\ tree \in Commits /\ schema \in Commits /\ dist \in Commits \union {None}
      /\ proc \in [Procs -> Proc]
  BY DEF IInv, TypeOK
<1>2. job' = [job EXCEPT ![d].pc = pc] /\ lock' = lock
  BY DEF Goes
<1>3. /\ job' \in [Deploys -> Job]
      /\ job'[d].pc = pc /\ job'[d].exit = job[d].exit
      /\ job'[d].v = job[d].v /\ job'[d].sha = job[d].sha
      /\ \A e \in Deploys : e # d => job'[e] = job[e]
  BY <1>1, <1>2 DEF Job
<1>4. \A e \in Deploys : Holds(e)' => Holds(e)
  BY <1>3 DEF Holds
<1>5. HolderHasLock' /\ OneDeployment'
  BY <1>2, <1>4 DEF IInv, HolderHasLock, OneDeployment
<1>6. SchemaCoversCode'
  <2>1. schema \in Nat /\ schema' \in Nat /\ \A p \in Procs : proc[p].v \in Nat
    BY <1>1 DEF Commits, Proc
  <2>2. dist' = None \/ dist' <= schema'
    <3>1. CASE dist' = dist /\ dist # None
      <4>1. dist \in Nat /\ dist <= schema
        BY <1>1, <3>1 DEF Commits, IInv, SchemaCoversCode
      <4> QED BY <4>1, <3>1, <2>1
    <3> QED BY <3>1
  <2>3. ASSUME NEW p \in Procs PROVE proc'[p].v <= schema'
    <3>1. proc[p].v <= schema
      BY DEF IInv, SchemaCoversCode
    <3> QED BY <3>1, <2>1
  <2> QED BY <2>2, <2>3 DEF SchemaCoversCode
<1>7. BuildsMigrated'
  <2>1. tree \in Nat /\ schema \in Nat /\ schema' \in Nat
    BY <1>1 DEF Commits
  <2>2. ASSUME NEW e \in Deploys, job'[e].pc \in {"build", "building"} PROVE tree' <= schema'
    <3>1. CASE e = d
      BY <2>2, <3>1, <1>3
    <3>2. CASE e # d
      <4>1. tree <= schema
        BY <2>2, <3>2, <1>3 DEF IInv, BuildsMigrated
      <4> QED BY <4>1, <2>1
    <3> QED BY <3>1, <3>2
  <2> QED BY <2>2 DEF BuildsMigrated
<1>8. Fetched'
  <2>1. ASSUME NEW e \in Deploys, e # d, job'[e].pc = "reset" PROVE job'[e].sha <= origin'
    <3>1. Holds(e) /\ job[e].sha <= origin
      BY <2>1, <1>3 DEF IInv, Fetched, Holds, Held
    <3>2. ~Holds(d)
      BY <3>1, <2>1 DEF IInv, OneDeployment
    <3> QED BY <3>1, <3>2, <2>1, <1>3
  <2> QED BY <2>1, <1>3 DEF IInv, Fetched
<1>9. OkIncludesRequested'
  BY <1>3 DEF IInv, OkIncludesRequested
<1> QED BY <1>1, <1>2, <1>3, <1>5, <1>6, <1>7, <1>8, <1>9 DEF JobInv

-----------------------------------------------------------------------------
(* The statements.                                                          *)

LEMMA CheckStep == ASSUME IInv, NEW d \in Deploys, Check(d) PROVE IInv'
<1>1. /\ Kept /\ UNCHANGED <<deps, script, restart, pidFile, killed, disturbed>>
      /\ Exits(d, "unserved") \/ Exits(d, "busy") \/ Goes(d, "truncate") \/ Goes(d, "lock")
  BY DEF Check, Kept, host
<1>2. {"truncate", "lock"} \subseteq Pc \ Held
  BY DEF Pc, Held
<1>3. JobInv'
  <2>1. CASE Exits(d, "unserved")
    BY <1>1, <2>1, ExitKeeps
  <2>2. CASE Exits(d, "busy")
    BY <1>1, <2>2, ExitKeeps
  <2>3. ASSUME NEW pc \in {"truncate", "lock"}, Goes(d, pc) PROVE JobInv'
    <3>1. schema \in Nat /\ schema \in Commits /\ schema <= schema
      BY DEF IInv, TypeOK, Commits
    <3>2. pc \in Pc \ Held
      BY <1>2
    <3>3. CASE pc = "truncate"
      BY <1>1, <2>3, <3>1, <3>2, <3>3, GoesKeeps DEF Kept
    <3>4. CASE pc = "lock"
      BY <1>1, <2>3, <3>1, <3>2, <3>4, GoesKeeps DEF Kept
    <3> QED BY <3>3, <3>4
  <2> QED BY <1>1, <2>1, <2>2, <2>3
<1> QED BY <1>1, <1>3 DEF IInv, JobInv, TypeOK, Kept, Started

LEMMA CopyStep ==
  ASSUME IInv, NEW d \in Deploys, Truncate(d) \/ Write(d) PROVE IInv'
<1>1. /\ Kept /\ UNCHANGED <<deps, restart, pidFile, killed, disturbed>>
      /\ script' \in {"full", "empty"}
      /\ Goes(d, "write") \/ Goes(d, "lock")
  BY DEF Truncate, Write, Kept, host
<1>2. {"write", "lock"} \subseteq Pc \ Held
  BY DEF Pc, Held
<1>3. schema \in Commits /\ schema <= schema
  BY DEF IInv, TypeOK, Commits
<1>4. JobInv'
  <2>1. CASE Goes(d, "write")
    BY <1>1, <1>2, <1>3, <2>1, GoesKeeps DEF Kept
  <2>2. CASE Goes(d, "lock")
    BY <1>1, <1>2, <1>3, <2>2, GoesKeeps DEF Kept
  <2> QED BY <1>1, <2>1, <2>2
<1> QED BY <1>1, <1>4 DEF IInv, JobInv, TypeOK, Kept, Started

LEMMA EndStep ==
  ASSUME IInv, NEW d \in Deploys, CutShort(d) \/ Kill(d) PROVE IInv'
<1>1. /\ Kept /\ UNCHANGED <<deps, script, restart, pidFile>>
      /\ killed' \subseteq Deploys /\ disturbed' \in BOOLEAN
  BY DEF CutShort, Kill, Kept, host, IInv, TypeOK
<1>2. JobInv'
  <2>1. CASE CutShort(d)
    <3>1. Exits(d, "cut")
      BY <2>1 DEF CutShort
    <3> QED BY <1>1, <3>1, ExitKeeps
  <2>2. CASE Kill(d)
    <3>1. job' = [job EXCEPT ![d].pc = "ended", ![d].exit = "killed"] /\ lock' = lock
      BY <2>2 DEF Kill
    <3> QED BY <1>1, <3>1, ExitKeeps
  <2> QED BY <2>1, <2>2
<1> QED BY <1>1, <1>2 DEF IInv, JobInv, TypeOK, Kept, Started

\* mkdir succeeds only when nobody holds the lock.
LEMMA TakeLockStep == ASSUME IInv, NEW d \in Deploys, TakeLock(d) PROVE IInv'
<1>1. /\ Kept /\ UNCHANGED <<deps, script, restart, pidFile, killed>>
      /\ disturbed' \in BOOLEAN
  BY DEF TakeLock, Taken, Kept, host, IInv, TypeOK
<1>2. CASE lock
  <2>1. Exits(d, "busy")
    BY <1>2 DEF TakeLock, Taken
  <2>2. JobInv'
    BY <1>1, <2>1, ExitKeeps
  <2> QED BY <1>1, <2>2 DEF IInv, JobInv, TypeOK, Kept, Started
<1>3. CASE ~lock
  <2>1. job' = [job EXCEPT ![d].pc = "fetch"] /\ lock' = TRUE
    BY <1>3 DEF TakeLock, Taken
  <2>2. job \in [Deploys -> Job]
    BY DEF IInv, TypeOK
  <2>3. /\ job' \in [Deploys -> Job]
        /\ job'[d].pc = "fetch" /\ job'[d].exit = job[d].exit
        /\ job'[d].v = job[d].v /\ job'[d].sha = job[d].sha
        /\ \A e \in Deploys : e # d => job'[e] = job[e]
    BY <2>1, <2>2 DEF Job, Pc
  <2>4. \A e \in Deploys : ~Holds(e)
    BY <1>3 DEF IInv, HolderHasLock
  <2>5. \A e \in Deploys : Holds(e)' => e = d
    BY <2>3, <2>4 DEF Holds
  <2>6. TypeOK'
    BY <1>1, <2>1, <2>3 DEF IInv, TypeOK, Kept
  <2>7. (HolderHasLock /\ OneDeployment)'
    BY <2>1, <2>5 DEF HolderHasLock, OneDeployment
  <2>8. (SchemaCoversCode /\ BuildsMigrated)'
    BY <1>1, <2>3 DEF IInv, SchemaCoversCode, BuildsMigrated, Kept
  <2>9. (Fetched /\ OkIncludesRequested)'
    BY <1>1, <2>3 DEF IInv, Fetched, OkIncludesRequested, Kept
  <2>10. Started'
    BY <1>1 DEF IInv, Started
  <2> QED BY <2>6, <2>7, <2>8, <2>9, <2>10 DEF IInv
<1> QED BY <1>2, <1>3

LEMMA FetchStep == ASSUME IInv, NEW d \in Deploys, Fetch(d) PROVE IInv'
<1>1. /\ UNCHANGED <<head, tree, deps, schema, dist, script, restart, proc, pidFile, killed, disturbed>>
      /\ job[d].pc = "fetch" /\ Holds(d)
  BY DEF Fetch, Passes, Fails, At, Holds, Held
<1>2. /\ head \in Commits /\ schema \in Commits /\ schema <= schema
      /\ "reset" \in Pc /\ job[d].sha <= head
  BY DEF IInv, TypeOK, Commits, Pc, Fetched
<1>3. JobInv' /\ origin' \in Commits
  <2>1. CASE Passes(d, "fetch", "reset") /\ origin' = head
    <3>1. Goes(d, "reset")
      BY <2>1 DEF Passes
    <3> QED BY <1>1, <1>2, <2>1, <3>1, GoesKeeps
  <2>2. CASE Fails(d, "fetch") /\ UNCHANGED origin
    <3>1. Exits(d, "error") /\ origin' \in Commits
      BY <2>2 DEF Fails, IInv, TypeOK
    <3> QED BY <1>1, <2>2, <3>1, ExitKeeps DEF Kept
  <2> QED BY <2>1, <2>2 DEF Fetch
<1> QED BY <1>1, <1>3 DEF IInv, JobInv, TypeOK, Started

LEMMA ResetStep == ASSUME IInv, NEW d \in Deploys, Reset(d) PROVE IInv'
<1>1. /\ UNCHANGED <<head, origin, deps, schema, dist, script, restart, proc, pidFile, killed, disturbed>>
      /\ job[d].pc = "reset" /\ Holds(d)
  BY DEF Reset, Fails, At, Holds, Held
<1>2. CASE Fails(d, "reset") /\ UNCHANGED tree
  <2>1. Exits(d, "error")
    BY <1>2 DEF Fails
  <2>2. JobInv'
    BY <1>1, <1>2, <2>1, ExitKeeps DEF Kept
  <2> QED BY <1>1, <1>2, <2>2 DEF IInv, JobInv, TypeOK, Started
<1>3. CASE ~(Fails(d, "reset") /\ UNCHANGED tree)
  <2>1. /\ tree' = origin /\ lock' = lock
        /\ job' = [job EXCEPT ![d].pc = "install", ![d].v = origin]
    BY <1>3 DEF Reset, ResetTarget
  <2>2. job \in [Deploys -> Job] /\ origin \in Commits
    BY DEF IInv, TypeOK
  <2>3. /\ job' \in [Deploys -> Job]
        /\ job'[d].pc = "install" /\ job'[d].exit = job[d].exit
        /\ job'[d].v = origin /\ job'[d].sha = job[d].sha
        /\ \A e \in Deploys : e # d => job'[e] = job[e]
    BY <2>1, <2>2 DEF Job, Pc
  <2>4. job[d].sha <= origin /\ origin # None
    BY <1>1, <2>2 DEF IInv, Fetched, Commits
  <2>5. \A e \in Deploys : Holds(e)' <=> Holds(e)
    BY <1>1, <2>3 DEF Holds, Held
  <2>6. TypeOK'
    BY <1>1, <2>1, <2>2, <2>3 DEF IInv, TypeOK
  <2>7. (HolderHasLock /\ OneDeployment /\ SchemaCoversCode)'
    BY <1>1, <2>1, <2>5 DEF IInv, HolderHasLock, OneDeployment, SchemaCoversCode
  <2>8. BuildsMigrated'
    <3>1. ASSUME NEW e \in Deploys, job'[e].pc \in {"build", "building"} PROVE FALSE
      <4>1. e # d /\ Holds(e)
        BY <3>1, <2>3 DEF Holds, Held
      <4> QED BY <4>1, <1>1 DEF IInv, OneDeployment
    <3> QED BY <3>1 DEF BuildsMigrated
  <2>9. Fetched'
    BY <1>1, <2>3, <2>4 DEF IInv, Fetched
  <2>10. OkIncludesRequested'
    BY <2>3, <2>4 DEF IInv, OkIncludesRequested
  <2>11. Started'
    BY <1>1 DEF IInv, Started
  <2> QED BY <2>6, <2>7, <2>8, <2>9, <2>10, <2>11 DEF IInv
<1> QED BY <1>2, <1>3

\* The steps of the holder after the checkout: it fails, or goes on at next.
LEMMA BuildStep ==
  ASSUME IInv, NEW d \in Deploys, Install(d) \/ Migrate(d) \/ Build(d) \/ SyncWeb(d)
  PROVE  IInv'
<1>1. /\ UNCHANGED <<head, origin, tree, script, restart, proc, pidFile, killed, disturbed>>
      /\ job[d].pc \in Held \ {"fetch", "reset"} /\ Holds(d)
  BY DEF Install, Migrate, Build, SyncWeb, Passes, Fails, At, Holds, Held, host
<1>2. /\ tree \in Nat /\ schema \in Nat /\ tree \in Commits /\ schema \in Commits /\ schema <= schema
      /\ deps \in Commits \union {None} /\ dist \in Commits \union {None}
      /\ {"installing", "migrate", "build", "building", "sync", "restart"} \subseteq Pc
      /\ job[d].v # None /\ job[d].v >= job[d].sha
  BY <1>1 DEF IInv, TypeOK, Commits, Pc, Fetched
<1>3. CASE Install(d)
  <2>1. UNCHANGED <<schema, dist>> /\ deps' \in Commits \union {None}
    BY <1>2, <1>3 DEF Install
  <2>2. Goes(d, "installing") \/ Goes(d, "migrate") \/ Exits(d, "error")
    BY <1>3 DEF Install, Passes, Fails, Then
  <2>3. JobInv'
    <3>1. CASE Goes(d, "installing")
      BY <1>1, <1>2, <2>1, <3>1, GoesKeeps
    <3>2. CASE Goes(d, "migrate")
      BY <1>1, <1>2, <2>1, <3>2, GoesKeeps
    <3>3. CASE Exits(d, "error")
      BY <1>1, <2>1, <3>3, ExitKeeps DEF Kept
    <3> QED BY <2>2, <3>1, <3>2, <3>3
  <2> QED BY <1>1, <2>1, <2>3 DEF IInv, JobInv, TypeOK, Started
<1>4. CASE Migrate(d)
  <2>1. UNCHANGED <<deps, dist>>
    BY <1>4 DEF Migrate
  <2>2. CASE Passes(d, "migrate", "build") /\ schema' = IF tree > schema THEN tree ELSE schema
    <3>1. schema' \in Commits /\ schema <= schema' /\ tree <= schema'
      BY <1>2, <2>2
    <3>2. Goes(d, "build")
      BY <2>2 DEF Passes
    <3>3. JobInv'
      BY <1>1, <1>2, <2>1, <3>1, <3>2, GoesKeeps
    <3> QED BY <1>1, <2>1, <3>1, <3>3 DEF IInv, JobInv, TypeOK, Started
  <2>3. CASE Fails(d, "migrate") /\ UNCHANGED schema
    <3>1. Exits(d, "error")
      BY <2>3 DEF Fails
    <3>2. JobInv'
      BY <1>1, <2>1, <2>3, <3>1, ExitKeeps DEF Kept
    <3> QED BY <1>1, <2>1, <2>3, <3>2 DEF IInv, JobInv, TypeOK, Started
  <2> QED BY <1>4, <2>2, <2>3 DEF Migrate, Then
<1>5. CASE Build(d)
  <2>1. UNCHANGED <<deps, schema>>
    BY <1>5 DEF Build
  <2>2. tree <= schema
    BY <1>5 DEF Build, Passes, Fails, At, IInv, BuildsMigrated
  <2>3. CASE Passes(d, "build", "building") /\ dist' = None
    <3>1. Goes(d, "building")
      BY <2>3 DEF Passes
    <3>2. JobInv'
      BY <1>1, <1>2, <2>1, <2>2, <2>3, <3>1, GoesKeeps
    <3> QED BY <1>1, <2>1, <2>3, <3>2 DEF IInv, JobInv, TypeOK, Started
  <2>4. CASE Passes(d, "building", "sync") /\ dist' = tree
    <3>1. Goes(d, "sync")
      BY <2>4 DEF Passes
    <3>2. JobInv'
      BY <1>1, <1>2, <2>1, <2>2, <2>4, <3>1, GoesKeeps
    <3> QED BY <1>1, <1>2, <2>1, <2>4, <3>2 DEF IInv, JobInv, TypeOK, Started
  <2>5. CASE Fails(d, "building") /\ UNCHANGED dist
    <3>1. Exits(d, "error")
      BY <2>5 DEF Fails
    <3>2. JobInv'
      BY <1>1, <2>1, <2>5, <3>1, ExitKeeps DEF Kept
    <3> QED BY <1>1, <2>1, <2>5, <3>2 DEF IInv, JobInv, TypeOK, Started
  <2> QED BY <1>5, <2>3, <2>4, <2>5 DEF Build, Then
<1>6. CASE SyncWeb(d)
  <2>1. UNCHANGED <<deps, schema, dist>>
    BY <1>6 DEF SyncWeb, host
  <2>2. JobInv'
    <3>1. CASE Passes(d, "sync", "restart")
      <4>1. Goes(d, "restart")
        BY <3>1 DEF Passes
      <4> QED BY <1>1, <1>2, <2>1, <4>1, GoesKeeps
    <3>2. CASE Fails(d, "sync")
      <4>1. Exits(d, "error")
        BY <3>2 DEF Fails
      <4> QED BY <1>1, <2>1, <4>1, ExitKeeps DEF Kept
    <3> QED BY <1>6, <3>1, <3>2 DEF SyncWeb
  <2> QED BY <1>1, <2>1, <2>2 DEF IInv, JobInv, TypeOK, Started
<1> QED BY <1>3, <1>4, <1>5, <1>6

LEMMA LastStep ==
  ASSUME IInv, NEW d \in Deploys, StartRestart(d) \/ AwaitRestart(d) PROVE IInv'
<1>1. /\ Kept /\ UNCHANGED <<deps, script, pidFile, killed, disturbed>>
      /\ job[d].pc \in {"restart", "await"} /\ Holds(d)
  BY DEF StartRestart, AwaitRestart, At, Kept, host, Holds, Held
<1>2. /\ schema \in Commits /\ schema <= schema /\ "await" \in Pc
      /\ job[d].v # None /\ job[d].v >= job[d].sha
  BY <1>1 DEF IInv, TypeOK, Commits, Pc, Fetched, Held
<1>3. Goes(d, "await") \/ Exits(d, "ok") \/ Exits(d, "error")
  BY DEF StartRestart, AwaitRestart
<1>4. JobInv'
  <2>1. CASE Goes(d, "await")
    BY <1>1, <1>2, <2>1, GoesKeeps DEF Kept
  <2>2. CASE Exits(d, "ok")
    BY <1>1, <1>2, <2>2, ExitKeeps
  <2>3. CASE Exits(d, "error")
    BY <1>1, <2>3, ExitKeeps
  <2> QED BY <1>3, <2>1, <2>2, <2>3
<1>5. restart' \in [Deploys -> Restart] /\ Started'
  <2>1. restart \in [Deploys -> Restart] /\ Started
    BY DEF IInv, TypeOK
  <2>2. restart' = restart \/ restart' = [restart EXCEPT ![d].pc = "sleep"]
    BY DEF StartRestart, AwaitRestart
  <2> QED BY <2>1, <2>2 DEF Restart, Started
<1> QED BY <1>1, <1>4, <1>5 DEF IInv, JobInv, TypeOK, Kept

-----------------------------------------------------------------------------
(* The restarts and the API processes: a process runs a build whose         *)
(* migrations are applied.                                                  *)

LEMMA ProcKeeps ==
  ASSUME IInv, UNCHANGED <<head, origin, tree, deps, schema, dist, lock, script, job, killed>>,
         restart' \in [Deploys -> Restart], proc' \in [Procs -> Proc],
         pidFile' \in Procs, disturbed' \in BOOLEAN,
         Started', \A p \in Procs : proc'[p].v <= schema
  PROVE  IInv'
<1>1. TypeOK'
  BY DEF IInv, TypeOK
<1>2. (HolderHasLock /\ OneDeployment /\ BuildsMigrated /\ Fetched /\ OkIncludesRequested)'
  BY DEF IInv, HolderHasLock, OneDeployment, BuildsMigrated, Fetched, OkIncludesRequested, Holds
<1>3. SchemaCoversCode'
  BY DEF IInv, SchemaCoversCode
<1> QED BY <1>1, <1>2, <1>3 DEF IInv

LEMMA RestartSteps == ASSUME IInv, NEW d \in Deploys, RestartStep(d) PROVE IInv'
<1>1. /\ restart \in [Deploys -> Restart] /\ proc \in [Procs -> Proc]
      /\ pidFile \in Procs /\ disturbed \in BOOLEAN /\ schema \in Nat
      /\ Started /\ \A p \in Procs : proc[p].v <= schema
  BY DEF IInv, TypeOK, SchemaCoversCode, Commits
<1>2. UNCHANGED <<head, origin, tree, deps, schema, dist, lock, script, job, killed>>
  BY DEF RestartStep, ReadPid, Term, Wait, StartApi, WritePid, host
<1>3. CASE ReadPid(d)
  <2>1. restart' \in [Deploys -> Restart]
    BY <1>1, <1>3 DEF ReadPid, Restart
  <2>2. Started' /\ disturbed' \in BOOLEAN
    BY <1>1, <1>3 DEF ReadPid, Restart, Started
  <2> QED BY <1>1, <1>2, <1>3, <2>1, <2>2, ProcKeeps DEF ReadPid
<1>4. CASE Term(d)
  <2>1. restart' \in [Deploys -> Restart] /\ Started'
    BY <1>1, <1>4 DEF Term, Restart, AfterTerm, Started
  <2>2. proc' \in [Procs -> Proc] /\ \A p \in Procs : proc'[p].v = proc[p].v
    BY <1>1, <1>4 DEF Term, Stopped, Proc, Alive
  <2> QED BY <1>1, <1>2, <1>4, <2>1, <2>2, ProcKeeps DEF Term
<1>5. CASE Wait(d)
  <2>1. restart' \in [Deploys -> Restart] /\ Started'
    BY <1>1, <1>5 DEF Wait, Restart, Started
  <2>2. proc' \in [Procs -> Proc] /\ \A p \in Procs : proc'[p].v = proc[p].v
    BY <1>1, <1>5 DEF Wait, Proc
  <2> QED BY <1>1, <1>2, <1>5, <2>1, <2>2, ProcKeeps DEF Wait
<1>6. CASE StartApi(d)
  <2>1. PICK p \in Procs : /\ proc' = [proc EXCEPT ![p].st = "booting"]
                          /\ restart' = [restart EXCEPT ![d].pc = "writePid", ![d].new = p]
    BY <1>6 DEF StartApi
  <2>2. restart' \in [Deploys -> Restart] /\ Started'
    BY <1>1, <2>1 DEF Restart, Started
  <2>3. proc' \in [Procs -> Proc] /\ \A q \in Procs : proc'[q].v = proc[q].v
    BY <1>1, <2>1 DEF Proc
  <2> QED BY <1>1, <1>2, <1>6, <2>2, <2>3, ProcKeeps DEF StartApi
<1>7. CASE WritePid(d)
  <2>1. restart' \in [Deploys -> Restart] /\ Started' /\ pidFile' \in Procs
    BY <1>1, <1>7 DEF WritePid, Restart, Started
  <2> QED BY <1>1, <1>2, <1>7, <2>1, ProcKeeps DEF WritePid
<1> QED BY <1>3, <1>4, <1>5, <1>6, <1>7 DEF RestartStep

LEMMA ProcStep == ASSUME IInv, NEW p \in Procs, Boot(p) \/ Die(p) PROVE IInv'
<1>1. /\ restart \in [Deploys -> Restart] /\ proc \in [Procs -> Proc]
      /\ pidFile \in Procs /\ disturbed \in BOOLEAN
      /\ Started /\ dist \in Commits \union {None}
      /\ dist = None \/ dist <= schema
      /\ \A q \in Procs : proc[q].v <= schema
  BY DEF IInv, TypeOK, SchemaCoversCode
<1>2. /\ UNCHANGED <<head, origin, tree, deps, schema, dist, lock, script, job, killed>>
      /\ UNCHANGED <<restart, pidFile, disturbed>>
  BY DEF Boot, Die, host
<1>3. proc' \in [Procs -> Proc] /\ \A q \in Procs : proc'[q].v <= schema
  <2>1. CASE Die(p)
    BY <1>1, <2>1 DEF Die, Proc
  <2>2. CASE Boot(p)
    <3>1. CASE proc' = [proc EXCEPT ![p] = [st |-> "up", v |-> dist]] /\ dist # None
      BY <1>1, <3>1 DEF Proc
    <3>2. CASE proc' = [proc EXCEPT ![p] = [@ EXCEPT !.st = "dead"]]
      BY <1>1, <3>2 DEF Proc
    <3> QED BY <2>2, <3>1, <3>2 DEF Boot
  <2> QED BY <2>1, <2>2
<1> QED BY <1>1, <1>2, <1>3, ProcKeeps DEF Started

-----------------------------------------------------------------------------
LEMMA NextStep == ASSUME IInv, [Next]_vars PROVE IInv'
<1>1. CASE UNCHANGED vars
  <2>1. TypeOK' /\ Started'
    BY <1>1 DEF IInv, TypeOK, Started, vars, host
  <2>2. (HolderHasLock /\ OneDeployment /\ SchemaCoversCode)'
    BY <1>1 DEF IInv, HolderHasLock, OneDeployment, SchemaCoversCode, Holds, vars, host
  <2>3. (BuildsMigrated /\ Fetched /\ OkIncludesRequested)'
    BY <1>1 DEF IInv, BuildsMigrated, Fetched, OkIncludesRequested, vars, host
  <2> QED BY <2>1, <2>2, <2>3 DEF IInv
<1>2. CASE Push
  BY <1>2, PushStep
<1>3. ASSUME NEW d \in Deploys,
             \/ Post(d) \/ RunByHand(d) \/ Check(d) \/ Answer(d) \/ ClientEnds(d)
             \/ Script(d) \/ Kill(d) \/ RestartStep(d)
      PROVE  IInv'
  BY <1>3, StartStep, CheckStep, ClientStep, CopyStep, EndStep, TakeLockStep, FetchStep,
     ResetStep, BuildStep, LastStep, RestartSteps DEF Script
<1>4. ASSUME NEW p \in Procs, Boot(p) \/ Die(p) PROVE IInv'
  BY <1>4, ProcStep
<1> QED BY <1>1, <1>2, <1>3, <1>4 DEF Next

LEMMA Invariance == Spec => []IInv
<1>1. IInv /\ [Next]_vars => IInv'
  BY NextStep
<1> QED BY InitInv, <1>1, PTL DEF Spec

\* Every variable keeps its type.
THEOREM TypeCorrect == Spec => []TypeOK
BY Invariance, PTL DEF IInv

\* However many deployments are triggered and whatever happens to them, at most
\* one script is between mkdir and its EXIT trap (deploy-ec2.sh).
THEOREM DeploysOneAtATime == Spec => []OneDeployment
BY Invariance, PTL DEF IInv

\* No build and no API process is newer than the schema it uses.
THEOREM SchemaFirst == Spec => []SchemaCoversCode
BY Invariance, PTL DEF IInv

\* A script that ends with status 0 and was not cut short has deployed the
\* push that triggered it.
THEOREM DeploysRequested == Spec => []OkIncludesRequested
BY Invariance, PTL DEF IInv

-----------------------------------------------------------------------------
(* What TakesEffect says of single states.                                  *)

LEMMA EffectStart == Init => EffectInv
<1>1. SUFFICES ASSUME Init PROVE EffectInv
  OBVIOUS
<1>2. IInv
  BY <1>1, InitInv
<1>3. Versions
  BY <1>1 DEF Init, Versions, NoJob
<1>4. Restarting = {} /\ Booting = {}
  BY <1>1 DEF Init, Restarting, Booting, NoRestart
<1>5. RestartsAlone
  BY <1>4 DEF RestartsAlone
<1>6. PidFileNames
  BY <1>1 DEF Init, PidFileNames, Alive
<1>7. ASSUME NEW d \in Deploys PROVE Built(d) /\ OneAlive(d) /\ Comes(d)
  BY <1>1 DEF Init, NoJob, NoRestart, Built, OneAlive, Comes
<1> QED BY <1>2, <1>3, <1>5, <1>6, <1>7 DEF EffectInv

\* The steps of the workflow, the API and the scripts up to the restart: the script
\* of d moves, and changes the checkout only while it holds the lock.
LEMMA JobKeeps ==
  ASSUME EffectInv, IInv', NEW d \in Deploys,
         UNCHANGED <<restart, proc, pidFile>>, disturbed => disturbed',
         \A e \in Deploys : e # d => job'[e] = job[e],
         tree <= tree', tree' <= origin', origin' <= head',
         job'[d].v \in {None, job[d].v, tree'},
         job'[d].exit = "ok" => job'[d].pc = "ended",
         ~disturbed' =>
           /\ job'[d].exit = "ok" => /\ job[d].exit = "ok" \/ job[d].pc = "await"
                                    /\ job'[d].v = job[d].v
           /\ job'[d].pc # "await" /\ Built(d)'
           /\ job'[d].pc \in Held => Restarting = {} /\ Booting = {}
           /\ UNCHANGED <<tree, deps, dist>> \/ (Holds(d) /\ job[d].pc # "await")
  PROVE  EffectInv'
<1>1. /\ tree \in Nat /\ tree' \in Nat /\ job \in [Deploys -> Job] /\ job' \in [Deploys -> Job]
      /\ Commits \subseteq Nat
  BY DEF EffectInv, IInv, TypeOK, Commits
<1>2. Versions'
  <2>1. ASSUME NEW e \in Deploys, job'[e].v # None PROVE job'[e].v <= tree'
    <3>1. CASE job'[e].v = tree'
      BY <3>1, <1>1
    <3>2. CASE job'[e].v = job[e].v
      <4>1. job[e].v <= tree /\ job[e].v \in Nat
        BY <1>1, <2>1, <3>2 DEF EffectInv, Versions, Job
      <4> QED BY <1>1, <3>2, <4>1
    <3> QED BY <2>1, <3>1, <3>2
  <2>2. \A e \in Deploys : job'[e].exit = "ok" => job'[e].pc = "ended"
    BY DEF EffectInv, Versions
  <2> QED BY <2>1, <2>2 DEF Versions
<1>3. SUFFICES ASSUME ~disturbed'
               PROVE  /\ RestartsAlone' /\ PidFileNames'
                      /\ \A e \in Deploys : (Built(e) /\ OneAlive(e) /\ Comes(e))'
  BY <1>2 DEF EffectInv
<1>4. /\ RestartsAlone /\ PidFileNames /\ OneDeployment
      /\ \A e \in Deploys : Built(e) /\ OneAlive(e) /\ Comes(e)
  BY <1>3 DEF EffectInv, IInv
<1>5. Restarting' = Restarting /\ Booting' = Booting
  BY DEF Restarting, Booting
<1>6. Restarting # {} \/ Booting # {} => UNCHANGED <<tree, deps, dist>>
  BY <1>3, <1>4 DEF RestartsAlone
<1>7. \A e \in Deploys : e # d => Holds(e)' = Holds(e) /\ (Holds(e) => UNCHANGED <<tree, deps, dist>>)
  BY <1>3, <1>4 DEF OneDeployment, Holds
<1>8. RestartsAlone'
  <2>1. \A e, f \in Restarting' : e = f
    BY <1>4, <1>5 DEF RestartsAlone
  <2>2. ASSUME Restarting # {} \/ Booting # {}
        PROVE  /\ deps' # None /\ dist' = tree'
               /\ \A e \in Deploys : Holds(e)' => job'[e].pc = "await"
    <3>1. deps' # None /\ dist' = tree'
      BY <1>4, <1>6, <2>2 DEF RestartsAlone
    <3>2. ~Holds(d)'
      BY <1>3, <2>2 DEF Holds
    <3> QED BY <1>4, <1>7, <2>2, <3>1, <3>2 DEF RestartsAlone
  <2> QED BY <1>5, <2>1, <2>2 DEF RestartsAlone
<1>9. PidFileNames'
  BY <1>4 DEF PidFileNames, Alive
<1>10. ASSUME NEW e \in Deploys PROVE (Built(e) /\ OneAlive(e) /\ Comes(e))'
  <2>1. Built(e)'
    BY <1>3, <1>4, <1>7 DEF Built, Holds, Held
  <2>2. OneAlive(e)'
    <3>1. restart[e].pc = "writePid" => UNCHANGED dist
      BY <1>6 DEF Restarting
    <3> QED BY <1>4, <3>1 DEF OneAlive, Alive
  <2>3. Comes(e)'
    <3>1. CASE e = d
      BY <1>3, <1>4, <1>5, <3>1 DEF Comes
    <3>2. CASE e # d
      BY <1>4, <1>5, <3>2 DEF Comes
    <3> QED BY <3>1, <3>2
  <2> QED BY <2>1, <2>2, <2>3
<1> QED BY <1>8, <1>9, <1>10

LEMMA PushEffect == ASSUME EffectInv, Push, IInv' PROVE EffectInv'
<1>1. /\ head \in Nat /\ origin \in Nat /\ head' = head + 1 /\ origin <= head
  BY DEF EffectInv, IInv, TypeOK, Push, Commits, Versions
<1>2. UNCHANGED <<origin, tree, deps, dist, job, restart, proc, pidFile, disturbed>>
  BY DEF Push, host
<1>3. Versions'
  BY <1>1, <1>2 DEF EffectInv, Versions
<1>4. Restarting' = Restarting /\ Booting' = Booting
  BY <1>2 DEF Restarting, Booting
<1>5. RestartsAlone => RestartsAlone'
  BY <1>2, <1>4 DEF RestartsAlone, Holds
<1>6. PidFileNames => PidFileNames'
  BY <1>2 DEF PidFileNames, Alive
<1>7. ASSUME NEW d \in Deploys
      PROVE  Built(d) /\ OneAlive(d) /\ Comes(d) => (Built(d) /\ OneAlive(d) /\ Comes(d))'
  BY <1>2, <1>4 DEF Built, OneAlive, Alive, Comes
<1> QED BY <1>2, <1>3, <1>5, <1>6, <1>7 DEF EffectInv

\* What a state tells of tree, origin and head, and of the holder of the lock.
LEMMA EffectMeans ==
  ASSUME EffectInv
  PROVE  /\ tree \in Nat /\ origin \in Nat /\ head \in Nat /\ job \in [Deploys -> Job]
         /\ None \notin Nat /\ Commits \subseteq Nat
         /\ tree <= tree /\ origin <= origin /\ head <= head
         /\ tree <= origin /\ origin <= head /\ tree <= head
         /\ \A d \in Deploys : job[d].exit = "ok" => job[d].pc = "ended"
         /\ ~disturbed => \A d \in Deploys :
              /\ Built(d)
              /\ Holds(d) /\ job[d].pc # "await" => Restarting = {} /\ Booting = {}
<1>1. /\ tree \in Nat /\ origin \in Nat /\ head \in Nat /\ job \in [Deploys -> Job]
      /\ Commits \subseteq Nat /\ tree <= origin /\ origin <= head
      /\ \A d \in Deploys : job[d].exit = "ok" => job[d].pc = "ended"
  BY DEF EffectInv, IInv, TypeOK, Commits, Versions
<1>2. ~disturbed => \A d \in Deploys :
         /\ Built(d)
         /\ Holds(d) /\ job[d].pc # "await" => Restarting = {} /\ Booting = {}
  BY DEF EffectInv, RestartsAlone
<1> QED BY <1>1, <1>2

\* How a script stands after its last statement, or after another one.
LEMMA ExitMoves ==
  ASSUME job \in [Deploys -> Job], NEW d \in Deploys,
         NEW status \in {"ok", "busy", "error", "cut", "killed", "unserved"},
         Exits(d, status) \/ job' = [job EXCEPT ![d].pc = "ended", ![d].exit = status]
  PROVE  /\ \A e \in Deploys : e # d => job'[e] = job[e]
         /\ job'[d].pc = "ended" /\ job'[d].exit = status /\ job'[d].v = job[d].v
<1> DEFINE l == [job[d] EXCEPT !.pc = "ended", !.exit = status]
<1>1. l.pc = "ended" /\ l.exit = status /\ l.v = job[d].v
  BY DEF Job
<1>2. job' = [job EXCEPT ![d] = l]
  BY DEF Exits
<1> QED BY <1>1, <1>2

LEMMA GoMoves ==
  ASSUME job \in [Deploys -> Job], NEW d \in Deploys, NEW pc \in Pc,
         Goes(d, pc) \/ job' = [job EXCEPT ![d].pc = pc]
  PROVE  /\ \A e \in Deploys : e # d => job'[e] = job[e]
         /\ job'[d].pc = pc /\ job'[d].exit = job[d].exit /\ job'[d].v = job[d].v
<1>1. job' = [job EXCEPT ![d].pc = pc]
  BY DEF Goes
<1> QED BY <1>1 DEF Job

\* Outside the lock: a script is started, refused, or copied.
LEMMA OutsideEffect ==
  ASSUME EffectInv, IInv', NEW d \in Deploys,
         \/ Post(d) \/ RunByHand(d) \/ Check(d) \/ Answer(d) \/ ClientEnds(d)
         \/ Truncate(d) \/ Write(d)
  PROVE  EffectInv'
<1>1. /\ UNCHANGED <<head, origin, tree, deps, dist, restart, proc, pidFile, disturbed>>
      /\ job \in [Deploys -> Job]
  BY EffectMeans DEF Post, RunByHand, Check, Answer, ClientEnds, Truncate, Write, host
<1>2. CASE Answer(d) \/ ClientEnds(d)
  <2>1. PICK c \in {"health", "ended"} : job' = [job EXCEPT ![d].client = c]
    BY <1>2 DEF Answer, ClientEnds
  <2>2. \A e \in Deploys : /\ job'[e].pc = job[e].pc /\ job'[e].v = job[e].v
                           /\ job'[e].exit = job[e].exit
    BY <1>1, <2>1 DEF Job
  <2>3. Restarting' = Restarting /\ Booting' = Booting
    BY <1>1 DEF Restarting, Booting
  <2>4. Versions'
    BY <1>1, <2>2 DEF EffectInv, Versions
  <2>5. RestartsAlone => RestartsAlone'
    BY <1>1, <2>2, <2>3 DEF RestartsAlone, Holds
  <2>6. PidFileNames => PidFileNames'
    BY <1>1 DEF PidFileNames, Alive
  <2>7. ASSUME NEW e \in Deploys
        PROVE  Built(e) /\ OneAlive(e) /\ Comes(e) => (Built(e) /\ OneAlive(e) /\ Comes(e))'
    BY <1>1, <2>2, <2>3 DEF Built, OneAlive, Alive, Comes
  <2> QED BY <1>1, <2>4, <2>5, <2>6, <2>7 DEF EffectInv
<1>3. CASE ~(Answer(d) \/ ClientEnds(d))
  <2>1. /\ \A e \in Deploys : e # d => job'[e] = job[e]
        /\ job'[d].pc \in {"check", "truncate", "write", "lock", "ended"}
        /\ job'[d].v \in {None, job[d].v} /\ job'[d].exit # "ok"
    <3>1. CASE Post(d)
      BY <1>1, <3>1 DEF Post, NoJob
    <3>2. CASE RunByHand(d)
      BY <1>1, <3>2, GoMoves, EffectMeans DEF RunByHand, Pc
    <3>3. CASE Check(d)
      <4>1. /\ job[d].pc = "check" /\ job[d].exit # "ok" /\ {"truncate", "lock"} \subseteq Pc
            /\ \/ Exits(d, "unserved") \/ Exits(d, "busy")
               \/ Goes(d, "truncate") \/ Goes(d, "lock")
        BY <3>3, EffectMeans DEF Check, Pc
      <4>2. CASE Exits(d, "unserved")
        BY <1>1, <4>2, ExitMoves
      <4>3. CASE Exits(d, "busy")
        BY <1>1, <4>3, ExitMoves
      <4>4. CASE Goes(d, "truncate")
        BY <1>1, <4>1, <4>4, GoMoves
      <4>5. CASE Goes(d, "lock")
        BY <1>1, <4>1, <4>5, GoMoves
      <4> QED BY <4>1, <4>2, <4>3, <4>4, <4>5
    <3>4. CASE Truncate(d) \/ Write(d)
      <4>1. PICK pc \in {"write", "lock"} : Goes(d, pc) /\ job[d].exit # "ok"
        BY <3>4, EffectMeans DEF Truncate, Write
      <4>2. pc \in Pc
        BY DEF Pc
      <4> QED BY <1>1, <4>1, <4>2, GoMoves
    <3> QED BY <1>3, <3>1, <3>2, <3>3, <3>4
  <2>2. Built(d)' /\ job'[d].pc \notin Held /\ job'[d].pc # "await"
    BY <2>1 DEF Built, Held
  <2> QED BY <1>1, <2>1, <2>2, EffectMeans, JobKeeps
<1> QED BY <1>2, <1>3

\* A script that ends early, or takes the lock.
LEMMA EndEffect ==
  ASSUME EffectInv, IInv', NEW d \in Deploys, CutShort(d) \/ Kill(d) \/ TakeLock(d)
  PROVE  EffectInv'
<1>1. /\ UNCHANGED <<head, origin, tree, deps, dist, restart, proc, pidFile>>
      /\ job \in [Deploys -> Job]
      /\ disturbed => disturbed'
  BY EffectMeans DEF CutShort, Kill, TakeLock, host
<1>2. /\ \A e \in Deploys : e # d => job'[e] = job[e]
      /\ job'[d].v = job[d].v
      /\ job'[d].pc \in {"fetch", "ended"}
      /\ job'[d].pc = "fetch" /\ ~disturbed' => Restarting = {} /\ Booting = {}
      /\ job'[d].exit # "ok"
  <2>1. CASE CutShort(d)
    <3>1. Exits(d, "cut")
      BY <2>1 DEF CutShort
    <3> QED BY <1>1, <3>1, ExitMoves
  <2>2. CASE Kill(d)
    <3>1. job' = [job EXCEPT ![d].pc = "ended", ![d].exit = "killed"]
      BY <2>2 DEF Kill
    <3> QED BY <1>1, <3>1, ExitMoves
  <2>3. CASE TakeLock(d)
    <3>1. CASE Taken
      <4>1. Exits(d, "busy")
        BY <2>3, <3>1 DEF TakeLock
      <4> QED BY <1>1, <4>1, ExitMoves
    <3>2. CASE ~Taken
      <4>1. job' = [job EXCEPT ![d].pc = "fetch"] /\ job[d].pc = "lock" /\ "fetch" \in Pc
        BY <2>3, <3>2 DEF TakeLock, At, Pc
      <4>2. ~disturbed' => Restarting = {} /\ Booting = {}
        BY <2>3, <3>2 DEF TakeLock
      <4>3. job[d].exit # "ok"
        BY <4>1, EffectMeans
      <4> QED BY <1>1, <4>1, <4>2, <4>3, GoMoves
    <3> QED BY <3>1, <3>2
  <2> QED BY <2>1, <2>2, <2>3
<1>3. Built(d)' /\ job'[d].pc # "await" /\ (job'[d].pc \in Held => job'[d].pc = "fetch")
  BY <1>2 DEF Built, Held
<1> QED BY <1>1, <1>2, <1>3, EffectMeans, JobKeeps

\* The statements from the fetch to the copy of the web files.
LEMMA HolderEffect ==
  ASSUME EffectInv, IInv', NEW d \in Deploys,
         \/ Fetch(d) \/ Reset(d) \/ Install(d) \/ Migrate(d) \/ Build(d) \/ SyncWeb(d)
  PROVE  EffectInv'
<1>1. /\ UNCHANGED <<head, restart, proc, pidFile, disturbed>>
      /\ job \in [Deploys -> Job] /\ Holds(d) /\ job[d].pc # "await"
  BY EffectMeans DEF Fetch, Reset, Install, Migrate, Build, SyncWeb, Passes, Fails, At, Holds,
                     Held, host
<1>2. CASE \E pc \in Pc : Fails(d, pc) /\ UNCHANGED host
  <2>1. /\ \A e \in Deploys : e # d => job'[e] = job[e]
        /\ job'[d].v = job[d].v /\ job'[d].pc = "ended" /\ job'[d].exit = "error"
    BY <1>1, <1>2, ExitMoves DEF Fails
  <2>2. Built(d)' /\ job'[d].pc \notin Held
    BY <2>1 DEF Built, Held
  <2> QED BY <1>1, <1>2, <2>1, <2>2, EffectMeans, JobKeeps DEF host
<1>3. CASE ~\E pc \in Pc : Fails(d, pc) /\ UNCHANGED host
  <2> DEFINE Onward(pc) ==
        /\ job'[d].pc = pc /\ job'[d].exit = job[d].exit
        /\ \A e \in Deploys : e # d => job'[e] = job[e]
        /\ job'[d].v = IF pc = "install" THEN tree' ELSE job[d].v
        /\ tree' = IF pc = "install" THEN origin ELSE tree
        /\ origin' = IF pc = "reset" THEN head ELSE origin
        /\ pc \in {"migrate", "build", "building", "sync", "restart"} /\ ~disturbed => deps' # None
        /\ pc \in {"sync", "restart"} /\ ~disturbed => dist' = tree'
  <2>1. {"fetch", "reset", "installing", "migrate", "build", "building", "sync", "restart"} \subseteq Pc
    BY DEF Pc
  <2>2. /\ tree # None
        /\ job[d].pc \in {"migrate", "build", "building", "sync"} /\ ~disturbed => deps # None
        /\ job[d].pc = "sync" /\ ~disturbed => dist = tree
    BY EffectMeans DEF Built
  <2>3. ASSUME NEW pc \in Pc, Goes(d, pc), pc # "install",
               tree' = tree, origin' = IF pc = "reset" THEN head ELSE origin,
               pc \in {"migrate", "build", "building", "sync", "restart"} /\ ~disturbed => deps' # None,
               pc \in {"sync", "restart"} /\ ~disturbed => dist' = tree
        PROVE  Onward(pc)
    BY <1>1, <2>3, GoMoves
  <2>4. PICK pc \in {"reset", "install", "installing", "migrate", "build", "building", "sync", "restart"} :
          Onward(pc)
    <3>1. CASE Fetch(d)
      <4>1. ~(Fails(d, "fetch") /\ UNCHANGED origin)
        BY <1>3, <2>1, <3>1 DEF Fetch, host
      <4>2. Goes(d, "reset") /\ tree' = tree /\ origin' = head
        BY <3>1, <4>1 DEF Fetch, Passes
      <4> QED BY <2>1, <2>3, <4>2
    <3>2. CASE Reset(d)
      <4>1. ~(Fails(d, "reset") /\ UNCHANGED tree)
        BY <1>3, <2>1, <3>2 DEF Reset, host
      <4>2. tree' = origin /\ job' = [job EXCEPT ![d].pc = "install", ![d].v = tree']
        BY <3>2, <4>1 DEF Reset, ResetTarget
      <4>3. UNCHANGED origin
        BY <3>2 DEF Reset
      <4> DEFINE l == [job[d] EXCEPT !.pc = "install", !.v = tree']
      <4>4. l.pc = "install" /\ l.v = tree' /\ l.exit = job[d].exit
        BY <1>1 DEF Job
      <4>5. job' = [job EXCEPT ![d] = l]
        BY <4>2
      <4> HIDE DEF l
      <4> QED BY <1>1, <4>2, <4>3, <4>4, <4>5
    <3>3. CASE Install(d)
      <4>1. ~(Fails(d, "installing") /\ UNCHANGED deps)
        BY <1>3, <2>1, <3>3 DEF Install, host
      <4>2. /\ Goes(d, "installing") \/ (Goes(d, "migrate") /\ deps' # None)
            /\ UNCHANGED <<tree, origin>>
        BY <2>2, <3>3, <4>1 DEF Install, Passes, Then
      <4>3. CASE Goes(d, "installing")
        BY <2>1, <2>3, <4>2, <4>3
      <4>4. CASE Goes(d, "migrate") /\ deps' # None
        BY <2>1, <2>3, <4>2, <4>4
      <4> QED BY <4>2, <4>3, <4>4
    <3>4. CASE Migrate(d)
      <4>1. ~(Fails(d, "migrate") /\ UNCHANGED schema)
        BY <1>3, <2>1, <3>4 DEF Migrate, host
      <4>2. /\ job[d].pc = "migrate" /\ Goes(d, "build") /\ UNCHANGED <<tree, origin, deps>>
        BY <3>4, <4>1 DEF Migrate, Passes, At, Then
      <4> QED BY <2>1, <2>2, <2>3, <4>2
    <3>5. CASE Build(d)
      <4>1. ~(Fails(d, "building") /\ UNCHANGED dist)
        BY <1>3, <2>1, <3>5 DEF Build, host
      <4>2. /\ job[d].pc \in {"build", "building"} /\ UNCHANGED <<tree, origin, deps>>
            /\ Goes(d, "building") \/ (Goes(d, "sync") /\ dist' = tree)
        BY <3>5, <4>1 DEF Build, Passes, At, Then
      <4>3. CASE Goes(d, "building")
        BY <2>1, <2>2, <2>3, <4>2, <4>3
      <4>4. CASE Goes(d, "sync") /\ dist' = tree
        BY <2>1, <2>2, <2>3, <4>2, <4>4
      <4> QED BY <4>2, <4>3, <4>4
    <3>6. CASE SyncWeb(d)
      <4>1. ~Fails(d, "sync")
        BY <1>3, <2>1, <3>6 DEF SyncWeb, host
      <4>2. job[d].pc = "sync" /\ Goes(d, "restart") /\ UNCHANGED host
        BY <3>6, <4>1 DEF SyncWeb, Passes, At
      <4> QED BY <2>1, <2>2, <2>3, <4>2 DEF host
    <3> QED BY <3>1, <3>2, <3>3, <3>4, <3>5, <3>6
  <2>5. job'[d].exit # "ok"
    BY <1>1, <2>4, EffectMeans DEF Holds, Held
  <2>6. ~disturbed => Built(d)'
    BY <2>4 DEF Built
  <2>7. tree <= tree' /\ tree' <= origin' /\ origin' <= head'
    BY <1>1, <2>4, EffectMeans
  <2>8. job'[d].v \in {job[d].v, tree'} /\ job'[d].pc # "await"
    BY <2>4
  <2> HIDE DEF Onward
  <2> QED BY <1>1, <2>4, <2>5, <2>6, <2>7, <2>8, EffectMeans, JobKeeps DEF Onward
<1> QED BY <1>2, <1>3

\* The last statement leaves a restart behind, and perhaps waits for it.
LEMMA LastEffect ==
  ASSUME EffectInv, IInv', NEW d \in Deploys, StartRestart(d) \/ AwaitRestart(d)
  PROVE  EffectInv'
<1>1. /\ UNCHANGED <<head, origin, tree, deps, dist, proc, pidFile, disturbed>>
      /\ job \in [Deploys -> Job] /\ restart \in [Deploys -> Restart] /\ "await" \in Pc
  BY DEF EffectInv, IInv, TypeOK, StartRestart, AwaitRestart, host, Pc
<1>2. CASE AwaitRestart(d)
  <2>1. PICK status \in {"ok", "error"} : Exits(d, status)
    BY <1>2 DEF AwaitRestart
  <2>2. job[d].pc = "await" /\ UNCHANGED restart
    BY <1>2 DEF AwaitRestart, At
  <2>3. /\ \A e \in Deploys : e # d => job'[e] = job[e]
        /\ job'[d].pc = "ended" /\ job'[d].v = job[d].v
    BY <1>1, <2>1, ExitMoves
  <2>4. Built(d)' /\ job'[d].pc \notin Held
    BY <2>3 DEF Built, Held
  <2> QED BY <1>1, <2>2, <2>3, <2>4, EffectMeans, JobKeeps
<1>3. CASE StartRestart(d)
  <2>1. /\ job[d].pc = "restart" /\ restart' = [restart EXCEPT ![d].pc = "sleep"]
        /\ Goes(d, "await") \/ Exits(d, "ok")
    BY <1>3 DEF StartRestart, At
  <2>2. /\ \A e \in Deploys : e # d => job'[e] = job[e]
        /\ job'[d].pc \in {"await", "ended"} /\ job'[d].v = job[d].v
        /\ job'[d].pc = "ended" \/ job'[d].exit = job[d].exit
    <3>1. CASE Goes(d, "await")
      BY <1>1, <3>1, GoMoves
    <3>2. CASE Exits(d, "ok")
      BY <1>1, <3>2, ExitMoves
    <3> QED BY <2>1, <3>1, <3>2
  <2>3. /\ \A e \in Deploys : e # d => restart'[e] = restart[e]
        /\ restart'[d].pc = "sleep"
    BY <1>1, <2>1 DEF Restart
  <2>4. Versions'
    BY <1>1, <2>1, <2>2 DEF EffectInv, Versions
  <2>5. SUFFICES ASSUME ~disturbed'
                 PROVE  /\ RestartsAlone' /\ PidFileNames'
                        /\ \A e \in Deploys : (Built(e) /\ OneAlive(e) /\ Comes(e))'
    BY <2>4 DEF EffectInv
  <2>6. /\ ~disturbed /\ PidFileNames /\ OneDeployment /\ Holds(d)
        /\ \A e \in Deploys : Built(e) /\ OneAlive(e) /\ Comes(e)
    BY <1>1, <2>1, <2>5 DEF EffectInv, IInv, Holds, Held
  <2>7. Restarting = {} /\ Booting = {}
    BY <2>1, <2>6, EffectMeans
  <2>8. \A e \in Deploys : restart[e].pc \in {"none", "done", "failed"}
    BY <2>7 DEF Restarting
  <2>9. Restarting' = {d}
    BY <2>3, <2>8 DEF Restarting
  <2>10. RestartsAlone'
    <3>1. deps' # None /\ dist' = tree'
      BY <1>1, <2>1, <2>6 DEF Built
    <3>2. ASSUME NEW e \in Deploys, Holds(e)' PROVE job'[e].pc = "await"
      <4>1. CASE e = d
        BY <2>2, <3>2, <4>1 DEF Holds, Held
      <4>2. CASE e # d
        BY <2>2, <2>6, <3>2, <4>2 DEF Holds, OneDeployment
      <4> QED BY <4>1, <4>2
    <3> QED BY <2>9, <3>1, <3>2 DEF RestartsAlone
  <2>11. PidFileNames'
    BY <1>1, <2>6, <2>8 DEF PidFileNames, Alive
  <2>12. ASSUME NEW e \in Deploys PROVE (Built(e) /\ OneAlive(e) /\ Comes(e))'
    <3>1. CASE e = d
      BY <2>2, <2>3, <2>9, <3>1 DEF Built, OneAlive, Comes
    <3>2. CASE e # d
      BY <1>1, <2>2, <2>3, <2>6, <2>9, <3>2 DEF Built, OneAlive, Alive, Comes
    <3> QED BY <3>1, <3>2
  <2> QED BY <2>10, <2>11, <2>12
<1> QED BY <1>2, <1>3

\* What a process of the build that is checked out is worth: no deployment that
\* ended well is newer.
LEMMA NewestServes ==
  ASSUME EffectInv, dist = tree
  PROVE  \A e \in Deploys : job[e].exit = "ok" \/ job[e].pc = "await" => dist >= job[e].v
<1>1. ASSUME NEW e \in Deploys, job[e].exit = "ok" \/ job[e].pc = "await" PROVE dist >= job[e].v
  <2>1. job[e].v # None
    BY <1>1 DEF EffectInv, IInv, OkIncludesRequested, Fetched, Held
  <2>2. job[e].v \in Nat /\ job[e].v <= tree /\ tree \in Nat
    BY <2>1 DEF EffectInv, IInv, TypeOK, Job, Commits, Versions
  <2> QED BY <2>2
<1> QED BY <1>1

\* A step of the only restart, or of the process of the pid file.
LEMMA RestartKeeps ==
  ASSUME EffectInv, IInv', NEW d \in Deploys,
         UNCHANGED <<head, origin, tree, deps, dist, job>>, disturbed => disturbed',
         \A e \in Deploys : e # d => restart'[e] = restart[e],
         ~disturbed' =>
           /\ \A e \in Restarting : e = d
           /\ Restarting # {} \/ Booting # {}
           /\ OneAlive(d)' /\ PidFileNames'
           /\ \/ Restarting' # {} \/ Booting' # {}
              \/ \E p \in Procs : proc'[p].st = "up" /\ proc'[p].v = dist
  PROVE  EffectInv'
<1>1. Versions'
  BY DEF EffectInv, Versions
<1>2. SUFFICES ASSUME ~disturbed'
               PROVE  /\ RestartsAlone' /\ \A e \in Deploys : (Built(e) /\ OneAlive(e) /\ Comes(e))'
  BY <1>1 DEF EffectInv
<1>3. /\ ~disturbed /\ RestartsAlone
      /\ \A e \in Deploys : Built(e) /\ OneAlive(e) /\ Comes(e)
  BY <1>2 DEF EffectInv
<1>4. \A e \in Deploys : e # d => restart'[e].pc \in {"none", "done", "failed"}
  BY <1>2 DEF Restarting
<1>5. /\ deps # None /\ dist = tree
      /\ \A e \in Deploys : Holds(e) => job[e].pc = "await"
  BY <1>2, <1>3 DEF RestartsAlone
<1>6. RestartsAlone'
  <2>1. \A e \in Restarting' : e = d
    BY <1>4 DEF Restarting
  <2> QED BY <1>5, <2>1 DEF RestartsAlone, Holds
<1>7. ASSUME NEW e \in Deploys PROVE (Built(e) /\ OneAlive(e) /\ Comes(e))'
  <2>1. Built(e)'
    BY <1>3 DEF Built
  <2>2. OneAlive(e)'
    BY <1>2, <1>4 DEF OneAlive
  <2>3. Comes(e)'
    BY <1>2, <1>5, NewestServes DEF Comes
  <2> QED BY <2>1, <2>2, <2>3
<1> QED BY <1>6, <1>7

LEMMA RestartEffect ==
  ASSUME EffectInv, IInv', NEW d \in Deploys, RestartStep(d) PROVE EffectInv'
<1>1. /\ UNCHANGED <<head, origin, tree, deps, dist, job>>
      /\ restart \in [Deploys -> Restart] /\ proc \in [Procs -> Proc] /\ pidFile \in Procs
      /\ Started
  BY DEF EffectInv, IInv, TypeOK, RestartStep, ReadPid, Term, Wait, StartApi, WritePid, host
<1>2. \A e \in Deploys : e # d => restart'[e] = restart[e]
  BY <1>1 DEF RestartStep, ReadPid, Term, Wait, StartApi, WritePid
<1>3. disturbed => disturbed'
  BY DEF RestartStep, ReadPid, Term, Wait, StartApi, WritePid
<1>4. d \in Restarting
  BY DEF Restarting, RestartStep, ReadPid, Term, Wait, StartApi, WritePid
<1>5. SUFFICES ASSUME ~disturbed'
               PROVE  /\ OneAlive(d)' /\ PidFileNames'
                      /\ \/ Restarting' # {} \/ Booting' # {}
                         \/ \E p \in Procs : proc'[p].st = "up" /\ proc'[p].v = dist
  <2>1. ~disturbed' => \A e \in Restarting : e = d
    BY <1>3, <1>4 DEF EffectInv, RestartsAlone
  <2> QED BY <1>1, <1>2, <1>3, <1>4, <1>5, <2>1, RestartKeeps
<1>6. PidFileNames /\ OneAlive(d) /\ \A e \in Restarting : e = d
  BY <1>3, <1>4, <1>5 DEF EffectInv, RestartsAlone
<1>7. restart[d].pc # "writePid" => \A p \in Procs : Alive(p) => p = pidFile
  BY <1>6 DEF PidFileNames, Restarting
<1>8. ASSUME restart'[d].pc \notin {"none", "done", "failed"} PROVE Restarting' # {}
  BY <1>8 DEF Restarting
<1>9. CASE ReadPid(d)
  <2>1. /\ restart[d].pc = "sleep" /\ UNCHANGED <<proc, pidFile>>
        /\ restart'[d].old = pidFile
        /\ restart'[d].pc = IF Alive(pidFile) THEN "term" ELSE "start"
    BY <1>1, <1>5, <1>9 DEF ReadPid, Restart
  <2>2. PidFileNames' /\ OneAlive(d)'
    BY <1>7, <2>1 DEF PidFileNames, OneAlive, Alive
  <2> QED BY <1>8, <2>1, <2>2
<1>10. CASE Term(d)
  <2>1. /\ restart[d].pc = "term" /\ UNCHANGED pidFile
        /\ restart'[d].old = restart[d].old /\ restart'[d].pc = "wait"
        /\ proc' = Stopped(restart[d].old)
    BY <1>1, <1>10 DEF Term, AfterTerm, Restart
  <2>2. \A p \in Procs : Alive(p)' => Alive(p)
    BY <1>1, <2>1 DEF Stopped, Alive, Proc
  <2>3. PidFileNames'
    BY <1>7, <2>1, <2>2 DEF PidFileNames
  <2>4. OneAlive(d)'
    BY <1>6, <2>1 DEF OneAlive
  <2> QED BY <1>8, <2>1, <2>3, <2>4
<1>11. CASE Wait(d)
  <2>1. /\ restart[d].pc = "wait" /\ UNCHANGED pidFile
        /\ restart'[d].pc = "start" /\ restart[d].old = pidFile
        /\ proc' = [proc EXCEPT ![pidFile].st = "dead"]
    BY <1>1, <1>6, <1>11 DEF Wait, Restart, OneAlive
  <2>2. \A p \in Procs : ~Alive(p)'
    BY <1>1, <1>7, <2>1 DEF Alive, Proc
  <2>3. PidFileNames' /\ OneAlive(d)'
    BY <2>1, <2>2 DEF PidFileNames, OneAlive
  <2> QED BY <1>8, <2>1, <2>3
<1>12. CASE StartApi(d)
  <2>1. PICK p \in Procs :
          /\ restart[d].pc = "start"
          /\ proc' = [proc EXCEPT ![p].st = "booting"]
          /\ restart' = [restart EXCEPT ![d].pc = "writePid", ![d].new = p]
    BY <1>12 DEF StartApi
  <2> DEFINE r == [restart[d] EXCEPT !.pc = "writePid", !.new = p]
  <2>2. r.pc = "writePid" /\ r.new = p
    BY <1>1 DEF Restart
  <2>3. restart'[d] = r
    BY <1>1, <2>1
  <2> HIDE DEF r
  <2>4. proc'[p].st = "booting" /\ \A q \in Procs : Alive(q)' => q = p
    BY <1>1, <1>6, <2>1 DEF OneAlive, Alive, Proc
  <2>5. PidFileNames' /\ OneAlive(d)'
    BY <2>2, <2>3, <2>4 DEF PidFileNames, OneAlive
  <2> QED BY <1>8, <2>2, <2>3, <2>5
<1>13. CASE WritePid(d)
  <2>1. /\ restart[d].pc = "writePid" /\ UNCHANGED proc
        /\ pidFile' = restart[d].new /\ restart[d].new \in Procs
        /\ restart'[d].pc = "done"
    BY <1>1, <1>13 DEF WritePid, Restart, Started
  <2>2. PidFileNames'
    BY <1>6, <2>1 DEF PidFileNames, OneAlive, Alive
  <2>3. OneAlive(d)'
    BY <2>1 DEF OneAlive
  <2>4. Booting' # {} \/ \E p \in Procs : proc'[p].st = "up" /\ proc'[p].v = dist
    BY <1>6, <2>1 DEF OneAlive, Booting
  <2> QED BY <2>2, <2>3, <2>4
<1> QED BY <1>9, <1>10, <1>11, <1>12, <1>13 DEF RestartStep

\* The port is free for the process that boots, and its files are complete.
LEMMA BootEffect == ASSUME EffectInv, IInv', NEW p \in Procs, Boot(p) PROVE EffectInv'
<1>1. /\ UNCHANGED <<head, origin, tree, deps, dist, job, restart, pidFile, disturbed>>
      /\ proc \in [Procs -> Proc] /\ proc[p].st = "booting" /\ p \in Booting /\ Alive(p)
      /\ dist # None => dist \in Nat
  BY DEF EffectInv, IInv, TypeOK, Boot, host, Booting, Alive, Commits
<1>2. Versions' /\ Restarting' = Restarting
  BY <1>1 DEF EffectInv, Versions, Restarting
<1>3. SUFFICES ASSUME ~disturbed
               PROVE  /\ RestartsAlone' /\ PidFileNames'
                      /\ \A e \in Deploys : (Built(e) /\ OneAlive(e) /\ Comes(e))'
  BY <1>1, <1>2 DEF EffectInv
<1>4. /\ RestartsAlone /\ PidFileNames
      /\ \A e \in Deploys : Built(e) /\ OneAlive(e) /\ Comes(e)
  BY <1>3 DEF EffectInv
<1>5. deps # None /\ dist = tree /\ tree # None
  BY <1>1, <1>4, EffectMeans DEF RestartsAlone
<1>6. \A q \in Procs : Alive(q) => q = p
  <2>1. CASE \E e \in Deploys : restart[e].pc = "writePid"
    BY <1>1, <1>4, <2>1 DEF OneAlive
  <2>2. CASE ~\E e \in Deploys : restart[e].pc = "writePid"
    BY <1>1, <1>4, <2>2 DEF PidFileNames
  <2> QED BY <2>1, <2>2
<1>7. proc' = [proc EXCEPT ![p] = [st |-> "up", v |-> dist]]
  BY <1>1, <1>5, <1>6 DEF Boot, Alive
<1>8. /\ proc'[p].st = "up" /\ proc'[p].v = dist
      /\ \A q \in Procs : q # p => proc'[q] = proc[q]
      /\ \A q \in Procs : Alive(q)' => Alive(q)
  BY <1>1, <1>7 DEF Alive
<1>9. RestartsAlone'
  BY <1>1, <1>2, <1>4, <1>5 DEF RestartsAlone, Holds
<1>10. PidFileNames'
  BY <1>1, <1>4, <1>8 DEF PidFileNames
<1>11. ASSUME NEW e \in Deploys PROVE (Built(e) /\ OneAlive(e) /\ Comes(e))'
  <2>1. Built(e)'
    BY <1>1, <1>4 DEF Built
  <2>2. OneAlive(e)'
    <3>1. restart[e].pc = "writePid" => p = restart[e].new
      BY <1>1, <1>4 DEF OneAlive
    <3> QED BY <1>1, <1>4, <1>8, <3>1 DEF OneAlive
  <2>3. Comes(e)'
    BY <1>1, <1>5, <1>8, NewestServes DEF Comes
  <2> QED BY <2>1, <2>2, <2>3
<1> QED BY <1>9, <1>10, <1>11

LEMMA DieEffect == ASSUME EffectInv, IInv', NEW p \in Procs, Die(p) PROVE EffectInv'
<1>1. /\ UNCHANGED <<head, origin, tree, deps, dist, job, restart, pidFile, disturbed>>
      /\ proc \in [Procs -> Proc] /\ proc[p].st = "stopping"
      /\ proc' = [proc EXCEPT ![p].st = "dead"]
  BY DEF EffectInv, IInv, TypeOK, Die, host
<1>2. /\ proc'[p].st = "dead" /\ \A q \in Procs : q # p => proc'[q] = proc[q]
      /\ \A q \in Procs : Alive(q)' => Alive(q)
  BY <1>1 DEF Alive, Proc
<1>3. Versions' /\ Restarting' = Restarting /\ Booting' = Booting
  BY <1>1, <1>2 DEF EffectInv, Versions, Restarting, Booting
<1>4. RestartsAlone => RestartsAlone'
  BY <1>1, <1>3 DEF RestartsAlone, Holds
<1>5. PidFileNames => PidFileNames'
  BY <1>1, <1>2 DEF PidFileNames
<1>6. ASSUME NEW e \in Deploys, Built(e), OneAlive(e), Comes(e)
      PROVE  (Built(e) /\ OneAlive(e) /\ Comes(e))'
  <2>1. Built(e)'
    BY <1>1, <1>6 DEF Built
  <2>2. OneAlive(e)'
    <3>1. restart[e].pc = "writePid" => restart[e].new # p
      BY <1>1, <1>6 DEF OneAlive
    <3>2. restart[e].pc = "writePid" => restart[e].new \in Procs
      BY DEF EffectInv, IInv, Started
    <3> QED BY <1>1, <1>2, <1>6, <3>1, <3>2 DEF OneAlive
  <2>3. Comes(e)'
    BY <1>1, <1>2, <1>3, <1>6 DEF Comes
  <2> QED BY <2>1, <2>2, <2>3
<1> QED BY <1>1, <1>3, <1>4, <1>5, <1>6 DEF EffectInv

LEMMA EffectNext == ASSUME EffectInv, [Next]_vars PROVE EffectInv'
<1>1. IInv'
  BY NextStep DEF EffectInv
<1>2. CASE UNCHANGED vars
  <2>1. UNCHANGED <<head, origin, tree, deps, dist, job, restart, proc, pidFile, disturbed>>
    BY <1>2 DEF vars, host
  <2>2. Versions' /\ Restarting' = Restarting /\ Booting' = Booting
    BY <2>1 DEF EffectInv, Versions, Restarting, Booting
  <2>3. RestartsAlone => RestartsAlone'
    BY <2>1, <2>2 DEF RestartsAlone, Holds
  <2>4. PidFileNames => PidFileNames'
    BY <2>1 DEF PidFileNames, Alive
  <2>5. ASSUME NEW e \in Deploys, Built(e), OneAlive(e), Comes(e)
        PROVE  (Built(e) /\ OneAlive(e) /\ Comes(e))'
    BY <2>1, <2>2, <2>5 DEF Built, OneAlive, Alive, Comes
  <2> QED BY <1>1, <2>1, <2>2, <2>3, <2>4, <2>5 DEF EffectInv
<1>3. CASE Push
  BY <1>1, <1>3, PushEffect
<1>4. ASSUME NEW d \in Deploys,
             \/ Post(d) \/ RunByHand(d) \/ Check(d) \/ Answer(d) \/ ClientEnds(d)
             \/ Script(d) \/ Kill(d) \/ RestartStep(d)
      PROVE  EffectInv'
  BY <1>1, <1>4, OutsideEffect, EndEffect, HolderEffect, LastEffect, RestartEffect DEF Script
<1>5. ASSUME NEW p \in Procs, Boot(p) \/ Die(p) PROVE EffectInv'
  BY <1>1, <1>5, BootEffect, DieEffect
<1> QED BY <1>2, <1>3, <1>4, <1>5 DEF Next

\* While nothing interferes, a deployment that ended well is served, or the restart
\* it left behind or the process that boots has still to run (restart-api.sh): what
\* TakesEffect promises can be late, but is never lost.
THEOREM EffectIsNotLost == Spec => []EffectComes
<1>1. EffectInv /\ [Next]_vars => EffectInv'
  BY EffectNext
<1>2. EffectInv => EffectComes
  <2>1. SUFFICES ASSUME EffectInv, ~disturbed, NEW d \in Deploys, job[d].exit = "ok"
                 PROVE  \/ Restarting # {} \/ Booting # {}
                        \/ job[d].v # None /\ \E p \in Procs : proc[p].st = "up" /\ proc[p].v >= job[d].v
    BY DEF EffectComes
  <2>2. Comes(d) /\ job[d].v # None
    BY <2>1 DEF EffectInv, IInv, OkIncludesRequested
  <2> QED BY <2>1, <2>2 DEF Comes
<1> QED BY EffectStart, <1>1, <1>2, PTL DEF Spec

-----------------------------------------------------------------------------
(* What LockReleased says of single states.                                 *)

\* The lock outlives a step of the script of d only in the hands of d, or where d
\* had nothing to do with it.
LEMMA LockKeeps ==
  ASSUME LockExplained, NEW d \in Deploys, UNCHANGED killed,
         \A e \in Deploys : e # d => job'[e] = job[e],
         Holds(d)' \/ ~lock' \/ (~Holds(d) /\ lock' = lock)
  PROVE  LockExplained'
BY DEF LockExplained, Holds

LEMMA LockNext == ASSUME IInv, LockExplained, [Next]_vars PROVE LockExplained'
<1>1. job \in [Deploys -> Job] /\ killed \subseteq Deploys
  BY DEF IInv, TypeOK
<1>2. ASSUME UNCHANGED <<lock, killed>>, \A d \in Deploys : job'[d].pc = job[d].pc
      PROVE  LockExplained'
  BY <1>2 DEF LockExplained, Holds
<1>3. ASSUME NEW d \in Deploys, UNCHANGED killed,
             NEW status \in {"ok", "busy", "error", "cut", "killed", "unserved"}, Exits(d, status)
      PROVE  LockExplained'
  <2>1. \A e \in Deploys : e # d => job'[e] = job[e]
    BY <1>1, <1>3, ExitMoves
  <2>2. ~lock' \/ (~Holds(d) /\ lock' = lock)
    BY <1>3 DEF Exits, Releases
  <2> QED BY <1>3, <2>1, <2>2, LockKeeps
<1>4. ASSUME NEW d \in Deploys, UNCHANGED killed, NEW pc \in Pc, Goes(d, pc), Holds(d) => pc \in Held
      PROVE  LockExplained'
  <2>1. (\A e \in Deploys : e # d => job'[e] = job[e]) /\ job'[d].pc = pc
    BY <1>1, <1>4, GoMoves
  <2>2. Holds(d)' \/ (~Holds(d) /\ lock' = lock)
    BY <1>4, <2>1 DEF Goes, Holds
  <2> QED BY <1>4, <2>1, <2>2, LockKeeps
<1>5. CASE UNCHANGED vars
  BY <1>2, <1>5 DEF vars
<1>6. CASE Push \/ \E p \in Procs : Boot(p) \/ Die(p)
  BY <1>2, <1>6 DEF Push, Boot, Die
<1>7. ASSUME NEW d \in Deploys,
             \/ Post(d) \/ RunByHand(d) \/ Check(d) \/ Answer(d) \/ ClientEnds(d)
             \/ Script(d) \/ Kill(d) \/ RestartStep(d)
      PROVE  LockExplained'
  <2>1. CASE Answer(d) \/ ClientEnds(d)
    <3>1. PICK c \in {"health", "ended"} : job' = [job EXCEPT ![d].client = c]
      BY <2>1 DEF Answer, ClientEnds
    <3>2. \A e \in Deploys : job'[e].pc = job[e].pc
      BY <1>1, <3>1 DEF Job
    <3> QED BY <1>2, <2>1, <3>2 DEF Answer, ClientEnds
  <2>2. CASE RestartStep(d)
    BY <1>2, <2>2 DEF RestartStep, ReadPid, Term, Wait, StartApi, WritePid
  <2>3. CASE Post(d) \/ RunByHand(d)
    <3>1. /\ \A e \in Deploys : e # d => job'[e] = job[e]
          /\ UNCHANGED <<lock, killed>> /\ ~Holds(d)
      BY <1>1, <2>3 DEF Post, RunByHand, Holds, Held
    <3> QED BY <3>1, LockKeeps
  <2>4. CASE Kill(d)
    <3>1. killed' = killed \union {d}
      BY <2>4 DEF Kill
    <3> QED BY <3>1 DEF LockExplained
  <2>5. CASE TakeLock(d)
    <3>1. CASE Taken
      BY <1>3, <2>5, <3>1 DEF TakeLock
    <3>2. CASE ~Taken
      <4>1. job' = [job EXCEPT ![d].pc = "fetch"] /\ UNCHANGED killed /\ "fetch" \in Pc
        BY <2>5, <3>2 DEF TakeLock, Pc
      <4>2. (\A e \in Deploys : e # d => job'[e] = job[e]) /\ Holds(d)'
        BY <1>1, <4>1, GoMoves DEF Holds, Held
      <4> QED BY <4>1, <4>2, LockKeeps
    <3> QED BY <3>1, <3>2
  <2>6. CASE Reset(d) /\ ~Fails(d, "reset")
    <3> DEFINE l == [job[d] EXCEPT !.pc = "install", !.v = tree']
    <3>1. l.pc = "install"
      BY <1>1 DEF Job
    <3>2. job' = [job EXCEPT ![d] = l] /\ UNCHANGED killed
      BY <2>6 DEF Reset
    <3> HIDE DEF l
    <3>3. (\A e \in Deploys : e # d => job'[e] = job[e]) /\ Holds(d)'
      BY <1>1, <3>1, <3>2 DEF Holds, Held
    <3> QED BY <3>2, <3>3, LockKeeps
  <2>7. CASE Check(d) \/ Truncate(d) \/ Write(d) \/ CutShort(d)
    <3>1. /\ UNCHANGED killed /\ {"truncate", "write", "lock"} \subseteq Pc
          /\ \/ \E status \in {"cut", "busy", "unserved"} : Exits(d, status)
             \/ ~Holds(d) /\ \E pc \in {"truncate", "write", "lock"} : Goes(d, pc)
      BY <2>7 DEF Check, Truncate, Write, CutShort, Holds, Held, Pc
    <3> QED BY <1>3, <1>4, <3>1
  <2>8. CASE \/ Fetch(d) \/ (Reset(d) /\ Fails(d, "reset")) \/ Install(d) \/ Migrate(d)
             \/ Build(d) \/ SyncWeb(d) \/ StartRestart(d) \/ AwaitRestart(d)
    <3>1. /\ UNCHANGED killed /\ Held \subseteq Pc
          /\ \/ \E status \in {"ok", "error"} : Exits(d, status)
             \/ \E pc \in Held : Goes(d, pc)
      BY <2>8 DEF Fetch, Reset, Install, Migrate, Build, SyncWeb, StartRestart, AwaitRestart,
                  Passes, Fails, Then, Held, Pc
    <3> QED BY <1>3, <1>4, <3>1
  <2> QED BY <1>7, <2>1, <2>2, <2>3, <2>4, <2>5, <2>6, <2>7, <2>8 DEF Script
<1> QED BY <1>5, <1>6, <1>7 DEF Next

\* The lock directory is there only while a script between mkdir and its EXIT trap
\* (deploy-ec2.sh) is, or after one was killed.
THEOREM LocksExplained == Spec => []LockExplained
<1>1. Init => LockExplained
  BY DEF Init, LockExplained
<1>2. IInv /\ LockExplained /\ [Next]_vars => LockExplained'
  BY LockNext
<1> QED BY Invariance, <1>1, <1>2, PTL DEF Spec
=============================================================================
