--------------------------- MODULE JobModeration ---------------------------
(***************************************************************************)
(* Job postings and the moderation of the submissions companies make       *)
(* about them: AdminService and CompaniesService of apps/api, with the     *)
(* notifications their handlers send when a job changes.                   *)
(*                                                                         *)
(* A call is one HTTP request.  Every handler is a sequence of awaited     *)
(* database statements, so one action is one statement and other calls run *)
(* in between.  PostgreSQL runs at READ COMMITTED: a read inside an        *)
(* interactive transaction sees the last committed rows and locks nothing, *)
(* and the rows a transaction has written stay locked until it commits.    *)
(* Hence the reads of a transaction are steps of their own and its writes  *)
(* are one step with the commit; a write to a row that is gone (P2025)     *)
(* rolls the whole transaction back.                                       *)
(*                                                                         *)
(* A payload stands for all the fields a company or an admin writes about  *)
(* a job (title, description, families, deadline, ...).  A DTO cannot lack *)
(* originalUrl, so the originalUrl check of approval always passes and is  *)
(* left out, and so is the company lookup of every company endpoint: a     *)
(* company and its owner are one actor here.                               *)
(***************************************************************************)
EXTENDS Naturals, FiniteSets

CONSTANTS
  Companies, Users,
  Jobs,          (* ids of job rows; SeedJobs exist from the start         *)
  SeedJobs,
  Submissions,   (* ids of jobSubmission rows                              *)
  SeedSubmissions, (* those that wait for review from the start            *)
  Requests,      (* the calls of a behaviour; each runs one endpoint once  *)
  Payloads,
  Deadline,      (* the deadline (type and date) each payload carries      *)
  DueSoon,       (* payloads whose fixed deadline is in the next 7 days    *)
  Times,         (* what an updatedAt can be; updates can share one        *)
  Bookmarkers,   (* users who bookmarked the job                           *)
  TagAudience,   (* job seekers subscribed to a label of the job           *)
  Endpoints,     (* the endpoints clients use in this workload             *)
  MaxInFlight,   (* calls served at the same time                          *)
  None

ASSUME ConstantsAssumption ==
  /\ SeedJobs \subseteq Jobs
  /\ SeedSubmissions \subseteq Submissions
  /\ DOMAIN Deadline = Payloads
  /\ DueSoon \subseteq Payloads
  /\ Bookmarkers \in [Jobs -> SUBSET Users]
  /\ TagAudience \in [Jobs -> SUBSET Users]
  /\ None \notin Companies \union Jobs \union Submissions \union Payloads \union Times

\* No code writes a JobLabel or a bookmark here: only seeded jobs have them.
ASSUME AudienceAssumption ==
  \A j \in Jobs \ SeedJobs : Bookmarkers[j] = {} /\ TagAudience[j] = {}

VARIABLES
  job,          (* Job rows; stamp is updatedAt, in milliseconds           *)
  submission,   (* JobSubmission rows                                      *)
  statusNotes,  (* Notification rows BOOKMARK_STATUS_CHANGED               *)
  tagNotes,     (* Notification rows TAG_NEW_JOB                           *)
  soonNotes,    (* Notification rows BOOKMARK_DEADLINE_SOON                *)
  call,         (* where each call stands and its local variables          *)
  origin,       (* history: the submission whose approval created the job  *)
  log,          (* history: the committed updates of job rows              *)
  overlap       (* history: two calls have been in flight at once          *)

db    == <<job, submission, statusNotes, tagNotes, soonNotes>>
notes == <<statusNotes, tagNotes, soonNotes>>
vars  == <<job, submission, statusNotes, tagNotes, soonNotes, call, origin, log,
           overlap>>

-----------------------------------------------------------------------------
JobStatus == {"DRAFT", "OPEN", "CLOSED"}

\* A row with status "NONE" is an id not used yet; stamp is None until an update
\* (nothing reads the updatedAt of an INSERT).  edition is a history no code reads:
\* how many updates made the row what it is.
JobRow == [status  : JobStatus \union {"NONE"},
           company : Companies \union {None},
           data    : Payloads \union {None},
           stamp   : Times \union {None},
           edition : Nat]

\* The row an INSERT makes.
NewRow(status, company, data) ==
  [status |-> status, company |-> company, data |-> data, stamp |-> None, edition |-> 0]

NoJob == NewRow("NONE", None, None)

\* target is set exactly for submissionType UPDATE; "DELETED" rows are gone.
SubmissionRow ==
  [status   : {"NONE", "PENDING", "APPROVED", "REJECTED", "DELETED"},
   company  : Companies \union {None},
   data     : Payloads \union {None},
   target   : Jobs \union {None},
   approved : Jobs \union {None}]

NoSubmission == [status |-> "NONE", company |-> None, data |-> None,
                 target |-> None, approved |-> None]

\* The notices a handler still has to send, in this order.
Notice == {"status", "tag", "soon"}

\* Statements a call can be about to execute, and where a call can end.
Pc == {"idle", "updateJob", "updateJobStatus", "closeMyJob",
       "approve", "approveUpdate", "reject",
       "edit", "createEdit", "updateSubmission", "cancel",
       "emit", "insertTag", "insertSoon", "done", "lost"}

\* The local variables of a handler, None or empty while not in use.
Call == [pc      : Pc,
         sub     : Submissions \union {None},
         job     : Jobs \union {None},
         company : Companies \union {None},
         data    : Payloads \union {None},
         prev    : JobRow,
         cur     : JobRow,
         todo    : SUBSET Notice]

Idle == [pc |-> "idle", sub |-> None, job |-> None, company |-> None,
         data |-> None, prev |-> NoJob, cur |-> NoJob, todo |-> {}]
Done == [Idle EXCEPT !.pc = "done"]
Lost == [Idle EXCEPT !.pc = "lost"]

InFlight == {r \in Requests : call[r].pc \notin {"idle", "done", "lost"}}

\* Notification rows; (user, dedupe key) is unique, and the fields after user
\* are what the dedupe key of each type is made of.
StatusNotice == [user : Users, job : Jobs,
                 status : JobStatus \union {"NONE"}, stamp : Times \union {None}]
TagNotice == [user : Users, job : Jobs]
SoonNotice == [user : Users, job : Jobs, deadline : {Deadline[p] : p \in Payloads}]

\* A committed update of a job row: what its handler had read, what the row was
\* and what it became.
LogEntry == [job : Jobs, by : Requests, seen : JobRow, from : JobRow, to : JobRow]

\* Seeded submissions were made one after the other: one pending edit per job.
Init ==
  /\ job \in {f \in [Jobs -> {NoJob} \union
                     {NewRow(st, c, p) : st \in JobStatus, c \in Companies,
                                         p \in Payloads}] :
                \A j \in Jobs : f[j] = NoJob <=> j \notin SeedJobs}
  /\ submission \in {f \in [Submissions -> {NoSubmission} \union
                            [status : {"PENDING"}, company : Companies, data : Payloads,
                             target : SeedJobs \union {None}, approved : {None}]] :
                       /\ \A s \in Submissions : f[s] = NoSubmission <=> s \notin SeedSubmissions
                       /\ \A s, t \in SeedSubmissions :
                            f[s].target = f[t].target /\ f[s].target # None => s = t}
  /\ statusNotes = {} /\ tagNotes = {} /\ soonNotes = {}
  /\ call = [r \in Requests |-> Idle]
  /\ origin = [j \in Jobs |-> None]
  /\ log = {}
  /\ overlap = FALSE

-----------------------------------------------------------------------------
\* A client calls an endpoint.
Calls(r, endpoint) ==
  /\ call[r].pc = "idle"
  /\ endpoint \in Endpoints
  /\ Cardinality(InFlight) < MaxInFlight

\* Call r stands before the statement pc.
At(r, pc) == call[r].pc = pc

Becomes(r, local) == call' = [call EXCEPT ![r] = local]

\* The handler throws or returns: nothing is left of its local state.
Returns(r) == Becomes(r, Done)

\* What is left to do once the notices in local.todo are the only work.
Emitting(local) ==
  IF local.todo = {} THEN Done ELSE [local EXCEPT !.pc = "emit"]

\* emitJobNotifications: which notices an update of a job calls for.  The two
\* mutants tell bookmarkers of closings only, and tag subscribers of drafts only.
MutantTellClosings(prev, cur) ==
  {n \in Notice :
     \/ n = "status" /\ prev.status = "OPEN" /\ cur.status # "OPEN"
     \/ n = "tag"    /\ prev.status # "OPEN" /\ cur.status = "OPEN"
     \/ n = "soon"   /\ Deadline[prev.data] # Deadline[cur.data]}
MutantTellDrafts(prev, cur) ==
  {n \in Notice :
     \/ n = "status" /\ prev.status # cur.status
     \/ n = "tag"    /\ prev.status = "DRAFT" /\ cur.status = "OPEN"
     \/ n = "soon"   /\ Deadline[prev.data] # Deadline[cur.data]}
Emissions(prev, cur) ==
  {n \in Notice :
     \/ n = "status" /\ prev.status # cur.status
     \/ n = "tag"    /\ prev.status # "OPEN" /\ cur.status = "OPEN"
     \/ n = "soon"   /\ cur.status = "OPEN"
                     /\ Deadline[prev.data] # Deadline[cur.data]}

\* What an UPDATE leaves of a row it gives these values.  updatedAt is taken when
\* the statement is sent: updates of one millisecond share it, and it need not
\* follow the order of the commits.
Updated(row, old, now) ==
  [row EXCEPT !.stamp = now, !.edition = old.edition + 1]

\* UPDATE of one job row by call r, whose handler had read the row as seen.
WriteJob(r, j, row, seen) ==
  /\ job' = [job EXCEPT ![j] = row]
  /\ log' = log \union {[job |-> j, by |-> r, seen |-> seen,
                         from |-> job[j], to |-> row]}

\* Call r has written job j as row and goes on with the given notices.
Announcing(j, row, todo) ==
  Emitting([Idle EXCEPT !.job = j, !.cur = row, !.todo = todo])

Announce(r, j, row, todo) == Becomes(r, Announcing(j, row, todo))

-----------------------------------------------------------------------------
(* What the handlers look for.  The operators named Mutant... are plausible *)
(* mistakes in the one that follows them; nothing refers to them here.      *)

\* assertPending.
AssertPending(s) == submission[s].status = "PENDING"

\* The company's own submission, still pending (the findFirst filters of
\* updateMyJobSubmission and cancelMyJobSubmission).
MutantFindOwn(s) == submission[s].status \notin {"NONE", "DELETED"}
FindOwnPending(s) == submission[s].status = "PENDING"

\* An open job of company c.
OpenJobOf(j, c) == job[j].status = "OPEN" /\ job[j].company = c

\* No edit of job j waits for review.
MutantNoPendingCreate(j) ==
  \A s \in Submissions : ~(submission[s].target = None /\ AssertPending(s))
NoPendingEdit(j) ==
  \A s \in Submissions : ~(submission[s].target = j /\ AssertPending(s))

\* An update or delete by id of this row fails (P2025).
MutantNeverGone(s) == FALSE
Gone(s) == submission[s].status = "DELETED"

\* The id of a row to insert.
FreshJob(j) == job[j].status = "NONE"

-----------------------------------------------------------------------------
(* Company endpoints                                                       *)

\* createJobSubmission: one INSERT.
CreateJobSubmission(r) ==
  /\ Calls(r, "createJobSubmission")
  /\ \E s \in Submissions, c \in Companies, p \in Payloads :
       /\ submission[s].status = "NONE"
       /\ submission' = [submission EXCEPT ![s] =
            [NoSubmission EXCEPT !.status = "PENDING", !.company = c, !.data = p]]
  /\ Returns(r)
  /\ UNCHANGED <<job, notes, origin, log>>

\* createJobEditSubmission reads the job, which must be the company's and open.
EditFindJob(r) ==
  /\ Calls(r, "createJobEditSubmission")
  /\ \E c \in Companies, j \in Jobs, p \in Payloads :
       /\ OpenJobOf(j, c)
       /\ Becomes(r, [Idle EXCEPT !.pc = "edit", !.job = j,
                                  !.company = c, !.data = p])
  /\ UNCHANGED <<db, origin, log>>

\* Then it looks for an edit of that job that still waits for review.
EditCheckPending(r) ==
  /\ At(r, "edit")
  /\ IF NoPendingEdit(call[r].job)
     THEN Becomes(r, [call[r] EXCEPT !.pc = "createEdit"])
     ELSE Returns(r)
  /\ UNCHANGED <<db, origin, log>>

EditCreate(r) ==
  /\ At(r, "createEdit")
  /\ \E s \in Submissions :
       /\ submission[s].status = "NONE"
       /\ submission' = [submission EXCEPT ![s] =
            [NoSubmission EXCEPT !.status = "PENDING", !.company = call[r].company,
                                 !.data = call[r].data, !.target = call[r].job]]
  /\ Returns(r)
  /\ UNCHANGED <<job, notes, origin, log>>

\* updateMyJobSubmission: find the company's own pending submission ...
UpdateSubmissionFind(r) ==
  /\ Calls(r, "updateMyJobSubmission")
  /\ \E s \in Submissions, p \in Payloads :
       /\ FindOwnPending(s)
       /\ Becomes(r, [Idle EXCEPT !.pc = "updateSubmission", !.sub = s, !.data = p])
  /\ UNCHANGED <<db, origin, log>>

\* ... and overwrite its fields by id, whatever its status has become.
UpdateSubmissionWrite(r) ==
  /\ At(r, "updateSubmission")
  /\ submission' = IF Gone(call[r].sub) THEN submission
                   ELSE [submission EXCEPT ![call[r].sub].data = call[r].data]
  /\ Returns(r)
  /\ UNCHANGED <<job, notes, origin, log>>

\* cancelMyJobSubmission: the same search ...
CancelFind(r) ==
  /\ Calls(r, "cancelMyJobSubmission")
  /\ \E s \in Submissions :
       /\ FindOwnPending(s)
       /\ Becomes(r, [Idle EXCEPT !.pc = "cancel", !.sub = s])
  /\ UNCHANGED <<db, origin, log>>

\* ... and a DELETE by id.
CancelDelete(r) ==
  /\ At(r, "cancel")
  /\ submission' = [submission EXCEPT ![call[r].sub] =
                      [NoSubmission EXCEPT !.status = "DELETED"]]
  /\ Returns(r)
  /\ UNCHANGED <<job, notes, origin, log>>

\* closeMyJob: find the company's open job ...
CloseMyJobFind(r) ==
  /\ Calls(r, "closeMyJob")
  /\ \E j \in Jobs, c \in Companies :
       /\ OpenJobOf(j, c)
       /\ Becomes(r, [Idle EXCEPT !.pc = "closeMyJob", !.job = j, !.prev = job[j]])
  /\ UNCHANGED <<db, origin, log>>

\* ... close it by id, and tell the bookmarkers whatever it was before.
CloseMyJobWrite(r) ==
  /\ At(r, "closeMyJob")
  /\ \E now \in Times :
       LET j   == call[r].job
           row == Updated([job[j] EXCEPT !.status = "CLOSED"], job[j], now)
       IN  /\ WriteJob(r, j, row, call[r].prev)
           /\ Announce(r, j, row, {"status"})
  /\ UNCHANGED <<submission, notes, origin>>

-----------------------------------------------------------------------------
(* Administrator endpoints on jobs                                         *)

\* createJob: one INSERT; an open job is announced to tag subscribers.
CreateJob(r) ==
  /\ Calls(r, "createJob")
  /\ \E j \in Jobs, c \in Companies, p \in Payloads, st \in JobStatus :
       LET row == NewRow(st, c, p)
       IN  /\ FreshJob(j)
           /\ job' = [job EXCEPT ![j] = row]
           /\ Announce(r, j, row, IF st = "OPEN" THEN {"tag"} ELSE {})
  /\ UNCHANGED <<submission, notes, origin, log>>

\* updateJob reads the row, to know later what changed; it may move the job to
\* another company and sets every field, status included.
UpdateJobRead(r) ==
  /\ Calls(r, "updateJob")
  /\ \E j \in Jobs, c \in Companies, p \in Payloads, st \in JobStatus :
       /\ job[j].status # "NONE"
       /\ Becomes(r, [Idle EXCEPT
            !.pc = "updateJob", !.job = j, !.prev = job[j],
            !.cur = NewRow(st, c, p)])
  /\ UNCHANGED <<db, origin, log>>

UpdateJobWrite(r) ==
  /\ At(r, "updateJob")
  /\ \E now \in Times :
       LET j   == call[r].job
           row == Updated(call[r].cur, job[j], now)
       IN  /\ WriteJob(r, j, row, call[r].prev)
           /\ Announce(r, j, row, Emissions(call[r].prev, row))
  /\ UNCHANGED <<submission, notes, origin>>

\* isJobStatus, the check of the status a client sends.
ValidStatus == JobStatus

\* updateJobStatus (and closeJob) reads the row ...
UpdateJobStatusRead(r) ==
  /\ Calls(r, "updateJobStatus")
  /\ \E j \in Jobs, st \in ValidStatus :
       /\ job[j].status # "NONE"
       /\ Becomes(r, [Idle EXCEPT !.pc = "updateJobStatus", !.job = j,
                                  !.prev = job[j], !.cur.status = st])
  /\ UNCHANGED <<db, origin, log>>

\* ... and writes the status alone.
UpdateJobStatusWrite(r) ==
  /\ At(r, "updateJobStatus")
  /\ \E now \in Times :
       LET j   == call[r].job
           row == Updated([job[j] EXCEPT !.status = call[r].cur.status], job[j], now)
       IN  /\ WriteJob(r, j, row, call[r].prev)
           /\ Announce(r, j, row, Emissions(call[r].prev, row))
  /\ UNCHANGED <<submission, notes, origin>>

\* refreshJobCheckedAt: an UPDATE of lastCheckedAt, and so of updatedAt, that tells
\* nobody.  The findUnique before it asks whether the job exists; job rows never go
\* away, so it is no step of its own.
RefreshJobCheckedAt(r) ==
  /\ Calls(r, "refreshJobCheckedAt")
  /\ \E j \in Jobs, now \in Times :
       /\ job[j].status # "NONE"
       /\ WriteJob(r, j, Updated(job[j], job[j], now), job[j])
  /\ Returns(r)
  /\ UNCHANGED <<submission, notes, origin>>

-----------------------------------------------------------------------------
(* Administrator endpoints on submissions                                  *)

\* approveJobSubmission: the transaction reads the submission (assertPending).
ApproveFind(r) ==
  /\ Calls(r, "approveJobSubmission")
  /\ \E s \in Submissions :
       LET row == submission[s]
       IN  /\ AssertPending(s)
           /\ Becomes(r, [Idle EXCEPT !.pc = "approve", !.sub = s, !.job = row.target,
                                      !.company = row.company, !.data = row.data])
  /\ UNCHANGED <<db, origin, log>>

\* For an edit it then reads the target, which must be open and the company's.
ApproveFindTarget(r) ==
  /\ At(r, "approve") /\ call[r].job # None
  /\ IF OpenJobOf(call[r].job, call[r].company)
     THEN Becomes(r, [call[r] EXCEPT !.pc = "approveUpdate",
                                     !.prev = job[call[r].job]])
     ELSE Returns(r)
  /\ UNCHANGED <<db, origin, log>>

\* The writes of the transaction find the submission's row gone.
ApproveRollback(r) ==
  /\ At(r, "approveUpdate") \/ (At(r, "approve") /\ call[r].job = None)
  /\ Gone(call[r].sub)
  /\ Returns(r)
  /\ UNCHANGED <<db, origin, log>>

\* The target takes the submitted fields and keeps the rest of its row.
MutantEditOfReadRow(r) == [call[r].prev EXCEPT !.data = call[r].data]
EditedTarget(r) == [job[call[r].job] EXCEPT !.data = call[r].data]

\* Edit: the target's row and the submission's.
ApproveUpdateCommit(r) ==
  /\ At(r, "approveUpdate")
  /\ ~Gone(call[r].sub)
  /\ \E now \in Times :
       LET j   == call[r].job
           row == Updated(EditedTarget(r), job[j], now)
       IN  /\ WriteJob(r, j, row, call[r].prev)
           /\ Announce(r, j, row, Emissions(call[r].prev, row))
  /\ submission' = [submission EXCEPT ![call[r].sub].status = "APPROVED"]
  /\ UNCHANGED <<notes, origin>>

\* New posting: an open job row, and the submission refers to it.
ApproveCreateCommit(r) ==
  /\ At(r, "approve") /\ call[r].job = None
  /\ ~Gone(call[r].sub)
  /\ \E j \in Jobs :
       LET row == NewRow("OPEN", call[r].company, call[r].data)
       IN  /\ FreshJob(j)
           /\ job' = [job EXCEPT ![j] = row]
           /\ submission' = [submission EXCEPT ![call[r].sub].status = "APPROVED",
                                               ![call[r].sub].approved = j]
           /\ origin' = [origin EXCEPT ![j] = call[r].sub]
           /\ Announce(r, j, row, {"tag"})
  /\ UNCHANGED <<notes, log>>

\* rejectJobSubmission: read (assertPending), then update by id; no transaction.
RejectFind(r) ==
  /\ Calls(r, "rejectJobSubmission")
  /\ \E s \in Submissions :
       /\ AssertPending(s)
       /\ Becomes(r, [Idle EXCEPT !.pc = "reject", !.sub = s])
  /\ UNCHANGED <<db, origin, log>>

RejectWrite(r) ==
  /\ At(r, "reject")
  /\ submission' = IF Gone(call[r].sub) THEN submission
                   ELSE [submission EXCEPT ![call[r].sub].status = "REJECTED"]
  /\ Returns(r)
  /\ UNCHANGED <<job, notes, origin, log>>

-----------------------------------------------------------------------------
(* Notices, sent after the update is committed                             *)

Without(local, n) == Emitting([local EXCEPT !.todo = @ \ {n}])
Sent(r, n) == Becomes(r, Without(call[r], n))

\* notifyBookmarkStatusChanged: the text and the dedupe key are built from the
\* arguments, not from the job row it reads.
MutantStatusNote(u, local) ==
  [user |-> u, job |-> local.job, status |-> job[local.job].status,
   stamp |-> local.cur.stamp]
StatusNote(u, local) ==
  [user |-> u, job |-> local.job, status |-> local.cur.status,
   stamp |-> local.cur.stamp]

NotifyStatus(r) ==
  /\ At(r, "emit") /\ "status" \in call[r].todo
  /\ statusNotes' = statusNotes \union
       {StatusNote(u, call[r]) : u \in Bookmarkers[call[r].job]}
  /\ Sent(r, "status")
  /\ UNCHANGED <<job, submission, tagNotes, soonNotes, origin, log>>

\* notifyTagSubscribersForNewJob reads the job again and gives up unless it is
\* open and has labels somebody follows.
NotifyTagRead(r) ==
  /\ At(r, "emit") /\ "status" \notin call[r].todo /\ "tag" \in call[r].todo
  /\ IF job[call[r].job].status = "OPEN" /\ TagAudience[call[r].job] # {}
     THEN Becomes(r, [call[r] EXCEPT !.pc = "insertTag"])
     ELSE Sent(r, "tag")
  /\ UNCHANGED <<db, origin, log>>

\* createMany with skipDuplicates; the dedupe key names the job only.
NotifyTagInsert(r) ==
  /\ At(r, "insertTag")
  /\ tagNotes' = tagNotes \union
       {[user |-> u, job |-> call[r].job] : u \in TagAudience[call[r].job]}
  /\ Sent(r, "tag")
  /\ UNCHANGED <<job, submission, statusNotes, soonNotes, origin, log>>

\* notifyBookmarkDeadlineSoonForJob reads the job again (isDeadlineSoon).
NotifySoonRead(r) ==
  /\ At(r, "emit") /\ call[r].todo = {"soon"}
  /\ LET row == job[call[r].job]
     IN  IF row.status = "OPEN" /\ row.data \in DueSoon
            /\ Bookmarkers[call[r].job] # {}
         THEN Becomes(r, [call[r] EXCEPT !.pc = "insertSoon", !.cur = row])
         ELSE Sent(r, "soon")
  /\ UNCHANGED <<db, origin, log>>

\* The dedupe key names the job and the deadline's date.
NotifySoonInsert(r) ==
  /\ At(r, "insertSoon")
  /\ soonNotes' = soonNotes \union
       {[user |-> u, job |-> call[r].job, deadline |-> Deadline[call[r].cur.data]] :
          u \in Bookmarkers[call[r].job]}
  /\ Sent(r, "soon")
  /\ UNCHANGED <<job, submission, statusNotes, tagNotes, origin, log>>

\* The connection drops, the statement times out or the process restarts: the
\* call ends where it stands, an open transaction is rolled back.
Lose(r) ==
  /\ r \in InFlight
  /\ Becomes(r, Lost)
  /\ UNCHANGED <<db, origin, log>>

CompanyStep(r) ==
  \/ CreateJobSubmission(r)
  \/ EditFindJob(r) \/ EditCheckPending(r) \/ EditCreate(r)
  \/ UpdateSubmissionFind(r) \/ UpdateSubmissionWrite(r)
  \/ CancelFind(r) \/ CancelDelete(r)
  \/ CloseMyJobFind(r) \/ CloseMyJobWrite(r)

AdminStep(r) ==
  \/ CreateJob(r)
  \/ UpdateJobRead(r) \/ UpdateJobWrite(r)
  \/ UpdateJobStatusRead(r) \/ UpdateJobStatusWrite(r)
  \/ RefreshJobCheckedAt(r)
  \/ ApproveFind(r) \/ ApproveFindTarget(r) \/ ApproveRollback(r)
  \/ ApproveUpdateCommit(r) \/ ApproveCreateCommit(r)
  \/ RejectFind(r) \/ RejectWrite(r)

NoticeStep(r) ==
  \/ NotifyStatus(r)
  \/ NotifyTagRead(r) \/ NotifyTagInsert(r)
  \/ NotifySoonRead(r) \/ NotifySoonInsert(r)

Step(r) == CompanyStep(r) \/ AdminStep(r) \/ NoticeStep(r) \/ Lose(r)

TwoInFlight == \E q, r \in InFlight : q # r

Next == /\ \E r \in Requests : Step(r)
        /\ overlap' = (overlap \/ TwoInFlight')

Spec == Init /\ [][Next]_vars

-----------------------------------------------------------------------------
(* Properties                                                              *)

RowKinds ==
  /\ job \in [Jobs -> JobRow]
  /\ submission \in [Submissions -> SubmissionRow]
  /\ statusNotes \subseteq StatusNotice
  /\ tagNotes \subseteq TagNotice
  /\ soonNotes \subseteq SoonNotice
  /\ call \in [Requests -> Call]
  /\ origin \in [Jobs -> Submissions \union {None}]
  /\ log \subseteq LogEntry

\* Every row, notification and local variable is of its kind.
TypeOK == RowKinds /\ overlap \in BOOLEAN

\* However calls overlap, a notification tells of something that was committed:
\* a status notification of an update of that job, with that updatedAt, to that
\* status; a deadline notification of an update that left the job open with that
\* deadline, near; a tag notification of an update that left the job open.  The
\* notices are sent after the commit, when the row may have changed again.
NoticesTruthful ==
  /\ \A n \in statusNotes : \E w \in log :
       w.job = n.job /\ w.to.status = n.status /\ w.to.stamp = n.stamp
  /\ \A n \in soonNotes : \E w \in log :
       /\ w.job = n.job /\ w.to.status = "OPEN"
       /\ w.to.data \in DueSoon /\ Deadline[w.to.data] = n.deadline
  /\ \A n \in tagNotes : \E w \in log :
       w.job = n.job /\ w.to.status = "OPEN"

\* The rows job w.job had had until update w, the one it replaced included.
Before(w) ==
  {v.from : v \in {x \in log : x.job = w.job /\ x.to.edition <= w.to.edition}}

\* Update w changed the status, and its handler cannot have mistaken that for no
\* change: the status it read was still there, or the job never had the new one.
NewStatus(w) ==
  /\ w.from.status # w.to.status
  /\ w.seen.status = w.from.status \/ \A row \in Before(w) : row.status # w.to.status

\* The same of the deadline.
NewDeadline(w) ==
  /\ Deadline[w.from.data] # Deadline[w.to.data]
  /\ \/ Deadline[w.seen.data] = Deadline[w.from.data]
     \/ \A row \in Before(w) : Deadline[row.data] # Deadline[w.to.data]

\* However updates overlap: once its handler ran to its end, the bookmarkers were
\* told of every update that gave a job a status it had never had, and of every one
\* that changed the status its handler had read; and they are told of no status the
\* job did not enter.  An update that changes the status goes untold in one case
\* only: its handler read the very status it writes, the job was given another
\* meanwhile (emitJobNotifications compares with the row read, not the one replaced).
StatusNotesExact ==
  /\ \A w \in log :
       NewStatus(w) /\ call[w.by].pc = "done" =>
         \A u \in Bookmarkers[w.job] :
           [user |-> u, job |-> w.job, status |-> w.to.status,
            stamp |-> w.to.stamp] \in statusNotes
  /\ \A n \in statusNotes : \E w \in log :
       w.job = n.job /\ w.to.status = n.status /\ w.from.status # n.status

\* A job that stands as its last update made it, whose handler has ended, has been
\* announced: to tag subscribers if that update opened it, to bookmarkers if it gave
\* the open job a deadline in the coming week.  The case left out is that of
\* StatusNotesExact: a handler that read the job open, or with that deadline,
\* overlapped the update that took it away, and announces nothing.
SettledJobAnnounced ==
  \A w \in log :
    w.to = job[w.job] /\ w.to.status = "OPEN" /\ call[w.by].pc = "done" =>
      /\ NewStatus(w) =>
           \A u \in TagAudience[w.job] : [user |-> u, job |-> w.job] \in tagNotes
      /\ w.to.data \in DueSoon /\ NewDeadline(w) =>
           \A u \in Bookmarkers[w.job] :
             [user |-> u, job |-> w.job, deadline |-> Deadline[w.to.data]]
               \in soonNotes

\* A job is published from a submission only while the submission's row exists:
\* one cancelled before the approval commits is never published, and publishing
\* and marking it APPROVED are one step (the $transaction of approval).
CancelledIsNeverPublished ==
  [][\A j \in Jobs :
       origin'[j] # origin[j] =>
         /\ submission[origin'[j]].status \notin {"NONE", "DELETED"}
         /\ submission'[origin'[j]].status = "APPROVED"
         /\ submission'[origin'[j]].approved = j]_vars

\* A closed or draft job is opened only by an administrator's updateJob or
\* updateJobStatus asking for OPEN (updateJob also does when it is sent no status):
\* approving an edit whose target was closed meanwhile, or any company call, never
\* reopens it.
OnlyAdminReopens ==
  [][\A j \in Jobs :
       job[j].status \in {"CLOSED", "DRAFT"} /\ job'[j].status = "OPEN" =>
         \E r \in Requests :
           /\ call[r].pc \in {"updateJob", "updateJobStatus"}
           /\ call[r].cur.status = "OPEN" /\ call'[r] # call[r]]_vars

-----------------------------------------------------------------------------
(* What the messages of the handlers promise.  TLC refutes each when calls  *)
(* overlap; its form Apart, while no two calls have been in flight at once, *)
(* is what the handlers keep, wherever calls are lost.                      *)

\* A submission is published as one job at most.
PublishedOnce ==
  \A i, j \in Jobs : origin[i] = origin[j] /\ origin[i] # None => i = j

DecisionsStand ==
  \A s \in Submissions :
    submission[s].status \in {"APPROVED", "REJECTED"} => submission'[s] = submission[s]

\* A reviewed submission is final: no later approval, rejection, change of its
\* fields or cancellation touches it (assertPending, and the PENDING filters of
\* updateMyJobSubmission and cancelMyJobSubmission).
ReviewedIsFinal == [][DecisionsStand]_vars
ReviewedIsFinalApart == [][~overlap' => DecisionsStand]_vars

\* A job has at most one edit waiting for review, unless calls overlapped.
OnePendingEditApart ==
  ~overlap => \A s, t \in Submissions :
    /\ AssertPending(s) /\ AssertPending(t)
    /\ submission[s].target = submission[t].target /\ submission[s].target # None
    => s = t

EditsMeetOpenJobs ==
  \A s \in Submissions :
    LET target == submission[s].target
    IN  target # None /\ submission[s].status = "PENDING"
          /\ submission'[s].status = "APPROVED" =>
            job[target].status = "OPEN"
            /\ job[target].company = submission[s].company

\* An edit is applied only to a job that is open and the submitter's.
EditsOnlyOpenJobs == [][EditsMeetOpenJobs]_vars
EditsOnlyOpenJobsApart == [][~overlap' => EditsMeetOpenJobs]_vars

\* The promise of SubmissionReview: moderation implements it step by step as long
\* as no two calls have been in flight at once.
Outcome(row) ==
  CASE row.status = "NONE"     -> "absent"
    [] row.status = "PENDING"  -> "waiting"
    [] row.status = "APPROVED" -> "approved"
    [] row.status = "REJECTED" -> "rejected"
    [] row.status = "DELETED"  -> "withdrawn"

Review == INSTANCE SubmissionReview WITH
  review    <- [s \in Submissions |-> Outcome(submission[s])],
  edit      <- {s \in Submissions : submission[s].target # None},
  published <- {<<origin[j], j>> : j \in {i \in Jobs : origin[i] # None}}

ImplementsReview ==
  Review!Init /\ [][~overlap' => [Review!Next]_(Review!vars)]_vars

-----------------------------------------------------------------------------
(* The inductive invariant behind TypeOK and NoticesTruthful               *)

\* A call about to use a job or a submission holds the id of a row that was
\* there; job rows never go away.
WellFormed(c) ==
  /\ c.pc \in {"updateJob", "updateJobStatus", "closeMyJob", "approveUpdate",
               "edit", "createEdit", "emit", "insertTag", "insertSoon"} =>
       c.job \in Jobs /\ job[c.job].status # "NONE"
  /\ c.pc \in {"approve", "approveUpdate", "reject", "updateSubmission", "cancel"} =>
       c.sub \in Submissions /\ submission[c.sub].status # "NONE"
  /\ c.pc \in {"updateJob", "updateJobStatus"} => c.cur.status \in JobStatus
  /\ c.pc = "insertSoon" => c.cur.data \in DueSoon
  /\ c.pc \in {"insertTag", "insertSoon"} => "status" \notin c.todo

CallsWellFormed == \A r \in Requests : WellFormed(call[r])

\* Updated jobs exist, and the last update of a job is what its row says.
RowsLogged ==
  /\ \A j \in SeedJobs : job[j].status # "NONE"
  /\ \A w \in log : /\ job[w.job].status # "NONE"
                   /\ \E v \in log : v.job = w.job /\ v.to = job[w.job]

\* The notices a call still owes, and those it is about to insert, tell of
\* committed updates.
Logged(c) ==
  /\ c.pc \in {"emit", "insertTag", "insertSoon"} /\ c.job \in SeedJobs =>
       \E w \in log : w.job = c.job
  /\ c.pc = "emit" /\ "status" \in c.todo =>
       \E w \in log : w.job = c.job /\ w.to = c.cur
  /\ c.pc = "insertTag" =>
       \E w \in log : w.job = c.job /\ w.to.status = "OPEN"
  /\ c.pc = "insertSoon" =>
       \E w \in log : w.job = c.job /\ w.to = c.cur /\ c.cur.status = "OPEN"

CallsLogged == \A r \in Requests : Logged(call[r])

\* A submission's job is the one its approval created, and a job created from a
\* submission is a row that exists.
OriginsSound ==
  /\ \A s \in Submissions :
       submission[s].approved # None => origin[submission[s].approved] = s
  /\ \A j \in Jobs :
       origin[j] # None => job[j].status # "NONE" /\ submission[origin[j]].status # "NONE"

\* The invariant of the proofs, kept by every step.
IInv == /\ RowKinds /\ overlap \in BOOLEAN /\ CallsWellFormed /\ RowsLogged /\ CallsLogged
        /\ NoticesTruthful /\ OriginsSound

\* A call that is alone still stands on what it read.
Alone(c) ==
  /\ c.pc \in {"approve", "approveUpdate", "reject", "updateSubmission", "cancel"} =>
       AssertPending(c.sub)
  /\ c.pc \in {"approve", "approveUpdate"} =>
       c.job = submission[c.sub].target /\ c.company = submission[c.sub].company
  /\ c.pc = "approveUpdate" => OpenJobOf(c.job, c.company)
  /\ c.pc = "createEdit" => NoPendingEdit(c.job)

\* Calls not seen overlapping are alone; the invariant behind the promises Apart.
Apart == ~overlap => ~TwoInFlight /\ \A r \in Requests : Alone(call[r])

\* An id not used yet proposes nothing.
UnusedIsBlank ==
  \A s \in Submissions : submission[s].status = "NONE" => submission[s].target = None

AInv == Apart /\ OnePendingEditApart /\ UnusedIsBlank

-----------------------------------------------------------------------------
(* The inductive invariant behind StatusNotesExact and SettledJobAnnounced *)

Owing == {"emit", "insertTag", "insertSoon"}

\* A call updates one job at most, and its notices are about that job.
Follows(w) ==
  LET c == call[w.by] IN
  /\ c.pc \in Owing \union {"done", "lost"}
  /\ c.pc \in Owing => c.job = w.job
  /\ c.pc = "emit" /\ "status" \in c.todo => c.cur = w.to /\ w.seen.status # w.to.status

\* The notices an update calls for are owed by its call, sent, or lost with it.
StatusTold(w) ==
  w.seen.status # w.to.status =>
    \/ call[w.by].pc = "lost"
    \/ call[w.by].pc = "emit" /\ "status" \in call[w.by].todo
    \/ \A u \in Bookmarkers[w.job] :
         [user |-> u, job |-> w.job, status |-> w.to.status, stamp |-> w.to.stamp] \in statusNotes

TagTold(w) ==
  w.seen.status # "OPEN" =>
    \/ call[w.by].pc = "lost"
    \/ call[w.by].pc \in {"emit", "insertTag"} /\ "tag" \in call[w.by].todo
    \/ \A u \in TagAudience[w.job] : [user |-> u, job |-> w.job] \in tagNotes

SoonTold(w) ==
  w.to.data \in DueSoon /\ Deadline[w.seen.data] # Deadline[w.to.data] =>
    \/ call[w.by].pc = "lost"
    \/ call[w.by].pc \in {"emit", "insertTag"} /\ "soon" \in call[w.by].todo
    \/ call[w.by].pc = "insertSoon" /\ call[w.by].cur = w.to
    \/ \A u \in Bookmarkers[w.job] :
         [user |-> u, job |-> w.job, deadline |-> Deadline[w.to.data]] \in soonNotes

\* Each update has raised the edition; whether the tag and deadline notices are
\* sent is decided by the row as it is then, so they are certain only for an
\* update that still stands.
Told(w) ==
  /\ w.to.edition <= job[w.job].edition
  /\ Follows(w) /\ StatusTold(w)
  /\ w.to = job[w.job] /\ w.to.status = "OPEN" => TagTold(w) /\ SoonTold(w)

\* The rows a job has or has had.
Rows(j) == {job[j]} \union {w.from : w \in {x \in log : x.job = j}}

\* An update has brought job j to this status.
Entered(j, status) ==
  \E w \in log : w.job = j /\ w.to.status = status /\ w.from.status # status

\* A handler about to update has read a row its job had, and where that differs
\* from the row now an update was between.
Comparing == {"updateJob", "updateJobStatus", "closeMyJob", "approveUpdate"}
ReadKnown(c) ==
  c.pc \in Comparing =>
    /\ c.prev \in Rows(c.job)
    /\ c.prev.status # job[c.job].status => Entered(c.job, job[c.job].status)

\* So did the handler of a committed update.
SeenKnown(w) ==
  /\ w.seen \in Before(w)
  /\ w.seen.status # w.to.status => Entered(w.job, w.to.status)

ReadsKnown == (\A r \in Requests : ReadKnown(call[r])) /\ \A w \in log : SeenKnown(w)

\* Each status notice, sent or owed, goes back to an update of the status.
StatusTraced ==
  /\ \A n \in statusNotes : \E w \in log :
       /\ w.job = n.job /\ w.to.status = n.status /\ w.to.stamp = n.stamp
       /\ w.seen.status # w.to.status
  /\ \A r \in Requests :
       /\ call[r].pc = "emit" /\ "status" \in call[r].todo => \E w \in log : w.by = r
       /\ call[r].pc = "closeMyJob" => call[r].prev.status = "OPEN"

ToldInv == ReadsKnown /\ StatusTraced /\ \A w \in log : Told(w)
=============================================================================
