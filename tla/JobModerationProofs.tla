------------------------ MODULE JobModerationProofs ------------------------
(***************************************************************************)
(* Theorems about JobModeration, for every number of jobs, submissions,    *)
(* calls, companies and users, and however the calls overlap or are lost.  *)
(* The last part is what moderation keeps while no two calls have been in  *)
(* flight at once: one pending edit per job, final reviews, edits of open  *)
(* jobs only, and the promise of SubmissionReview.                         *)
(***************************************************************************)
EXTENDS JobModeration, TLAPS

-----------------------------------------------------------------------------
(* The kinds of the values the actions build                               *)

\* The constant rows and local states are of their types.
LEMMA ConstantKinds ==
  /\ NoJob \in JobRow
  /\ NoSubmission \in SubmissionRow
  /\ Idle \in Call /\ Done \in Call /\ Lost \in Call
  BY DEF NoJob, NewRow, JobRow, NoSubmission, SubmissionRow, Idle, Done, Lost, Call, Pc

\* Going on to the notices keeps a local state a local state.
LEMMA EmittingKind ==
  ASSUME NEW l \in Call
  PROVE  Emitting(l) \in Call
  BY ConstantKinds DEF Emitting, Call, Pc

\* So does having sent one of them.
LEMMA WithoutKind ==
  ASSUME NEW l \in Call, NEW n
  PROVE  Without(l, n) \in Call
<1>1. [l EXCEPT !.todo = @ \ {n}] \in Call
  BY DEF Call
<1>2. QED
  BY <1>1, EmittingKind DEF Without

\* The state of a call after it updated or created a job.
LEMMA AnnouncingKind ==
  ASSUME NEW j \in Jobs, NEW row \in JobRow, NEW todo \in SUBSET Notice
  PROVE  Announcing(j, row, todo) \in Call
<1>1. [Idle EXCEPT !.job = j, !.cur = row, !.todo = todo] \in Call
  BY ConstantKinds DEF Idle, Call
<1>2. QED
  BY <1>1, EmittingKind DEF Announcing

\* An inserted row.
LEMMA NewRowKind ==
  ASSUME NEW st \in JobStatus, NEW c \in Companies \union {None},
         NEW p \in Payloads \union {None}
  PROVE  NewRow(st, c, p) \in JobRow /\ NewRow(st, c, p).status = st
  BY DEF NewRow, JobRow

\* A row with a new status, as closeMyJob and updateJobStatus write it.
LEMMA StatusKind ==
  ASSUME NEW row \in JobRow, NEW st \in JobStatus
  PROVE  [row EXCEPT !.status = st] \in JobRow /\ [row EXCEPT !.status = st].status = st
  BY DEF JobRow

\* A row with new fields, as approving an edit writes it.
LEMMA DataKind ==
  ASSUME NEW row \in JobRow, NEW p \in Payloads \union {None}
  PROVE  /\ [row EXCEPT !.data = p] \in JobRow
         /\ [row EXCEPT !.data = p].status = row.status
  BY DEF JobRow

\* The row an UPDATE leaves.
LEMMA UpdatedKind ==
  ASSUME NEW row \in JobRow, NEW old \in JobRow, NEW now \in Times
  PROVE  /\ Updated(row, old, now) \in JobRow
         /\ Updated(row, old, now).status = row.status
         /\ Updated(row, old, now).data = row.data
         /\ Updated(row, old, now).edition = old.edition + 1
<1> DEFINE new == [row EXCEPT !.stamp = now, !.edition = old.edition + 1]
<1>1. old.edition + 1 \in Nat
  BY DEF JobRow
<1>2. /\ new \in JobRow /\ new.status = row.status /\ new.data = row.data
      /\ new.edition = old.edition + 1
  BY <1>1 DEF JobRow
<1>3. QED
  BY <1>2 DEF Updated

\* An update of the status alone.
LEMMA StatusUpdated ==
  ASSUME NEW row \in JobRow, NEW st \in JobStatus, NEW now \in Times
  PROVE  /\ Updated([row EXCEPT !.status = st], row, now) \in JobRow
         /\ Updated([row EXCEPT !.status = st], row, now).status = st
         /\ Updated([row EXCEPT !.status = st], row, now).edition = row.edition + 1
<1> DEFINE new == [row EXCEPT !.status = st]
<1>1. new \in JobRow /\ new.status = st
  BY StatusKind
<1> HIDE DEF new
<1>2. QED
  BY <1>1, UpdatedKind DEF new

\* Only declared notices are emitted.
LEMMA EmissionsKind ==
  ASSUME NEW prev, NEW cur
  PROVE  Emissions(prev, cur) \in SUBSET Notice
  BY DEF Emissions

\* closeMyJob owes what any closing of an open job calls for.
LEMMA ClosingEmissions ==
  ASSUME NEW prev \in JobRow, NEW cur \in JobRow, prev.status = "OPEN", cur.status = "CLOSED"
  PROVE  Emissions(prev, cur) = {"status"}
  BY DEF Emissions, Notice

-----------------------------------------------------------------------------
(* Updates of job rows                                                     *)

\* The five steps that update a job row.
Writes(r) ==
  \/ CloseMyJobWrite(r) \/ UpdateJobWrite(r) \/ UpdateJobStatusWrite(r)
  \/ RefreshJobCheckedAt(r) \/ ApproveUpdateCommit(r)

\* What they have in common: the row is there and gets the next edition, it is
\* compared with itself or with the row the handler had read, and the notices owed
\* are those the comparison calls for; closeMyJob asks for one without comparing.
Updates(r) ==
  \E j \in Jobs, row \in JobRow, seen \in JobRow, todo \in SUBSET Notice :
    /\ job[j].status # "NONE" /\ row.status # "NONE"
    /\ row.edition = job[j].edition + 1
    /\ \/ seen = job[j]
       \/ call[r].pc \in Comparing /\ j = call[r].job /\ seen = call[r].prev
    /\ \/ todo = Emissions(seen, row)
       \/ /\ call[r].pc = "closeMyJob" /\ seen = call[r].prev
          /\ row.status = "CLOSED" /\ todo = {"status"}
    /\ WriteJob(r, j, row, seen) /\ Announce(r, j, row, todo)

\* refreshJobCheckedAt changes nothing a notice could tell of.
LEMMA RefreshSilent ==
  ASSUME NEW old \in JobRow, NEW row, row.status = old.status, row.data = old.data
  PROVE  Emissions(old, row) = {}
  BY DEF Emissions

LEMMA WritesUpdates ==
  ASSUME RowKinds, CallsWellFormed, NEW r \in Requests, Writes(r)
  PROVE  Updates(r)
<1>0. /\ call[r] \in Call /\ job \in [Jobs -> JobRow] /\ WellFormed(call[r])
      /\ call[r].prev \in JobRow /\ call[r].cur \in JobRow
      /\ call[r].data \in Payloads \union {None}
  BY DEF RowKinds, CallsWellFormed, Call
<1>1. ASSUME call[r].pc \in Comparing
      PROVE  /\ call[r].job \in Jobs /\ job[call[r].job].status # "NONE"
             /\ job[call[r].job] \in JobRow
  BY <1>0, <1>1 DEF WellFormed, Comparing
<1>2. ASSUME NEW row \in JobRow, row.status # "NONE", call[r].pc \in Comparing,
             row.edition = job[call[r].job].edition + 1,
             WriteJob(r, call[r].job, row, call[r].prev),
             Announce(r, call[r].job, row, Emissions(call[r].prev, row))
      PROVE  Updates(r)
  BY <1>0, <1>1, <1>2, EmissionsKind DEF Updates
<1>3. CASE CloseMyJobWrite(r)
  <2>1. call[r].pc = "closeMyJob" /\ call[r].pc \in Comparing /\ "CLOSED" \in JobStatus
    BY <1>3 DEF CloseMyJobWrite, At, Comparing, JobStatus
  <2>2. PICK now \in Times :
          LET row == Updated([job[call[r].job] EXCEPT !.status = "CLOSED"], job[call[r].job], now)
          IN  /\ WriteJob(r, call[r].job, row, call[r].prev)
              /\ Announce(r, call[r].job, row, {"status"})
    BY <1>3 DEF CloseMyJobWrite
  <2> DEFINE row == Updated([job[call[r].job] EXCEPT !.status = "CLOSED"], job[call[r].job], now)
  <2>3. /\ row \in JobRow /\ row.status = "CLOSED"
        /\ row.edition = job[call[r].job].edition + 1
    BY <1>1, <2>1, StatusUpdated
  <2>4. /\ WriteJob(r, call[r].job, row, call[r].prev)
        /\ Announce(r, call[r].job, row, {"status"}) /\ {"status"} \in SUBSET Notice
    BY <2>2 DEF Notice
  <2> HIDE DEF row
  <2>5. QED
    BY <1>0, <1>1, <2>1, <2>3, <2>4 DEF Updates
<1>4. CASE UpdateJobWrite(r)
  <2>1. call[r].pc \in Comparing /\ call[r].cur.status \in JobStatus
    BY <1>0, <1>4 DEF UpdateJobWrite, At, Comparing, WellFormed
  <2>2. PICK now \in Times :
          LET row == Updated(call[r].cur, job[call[r].job], now)
          IN  /\ WriteJob(r, call[r].job, row, call[r].prev)
              /\ Announce(r, call[r].job, row, Emissions(call[r].prev, row))
    BY <1>4 DEF UpdateJobWrite
  <2> DEFINE row == Updated(call[r].cur, job[call[r].job], now)
  <2>3. /\ row \in JobRow /\ row.status # "NONE"
        /\ row.edition = job[call[r].job].edition + 1
    BY <1>0, <1>1, <2>1, UpdatedKind DEF JobStatus
  <2>4. /\ WriteJob(r, call[r].job, row, call[r].prev)
        /\ Announce(r, call[r].job, row, Emissions(call[r].prev, row))
    BY <2>2
  <2> HIDE DEF row
  <2>5. QED
    BY <1>2, <2>1, <2>3, <2>4
<1>5. CASE UpdateJobStatusWrite(r)
  <2>1. call[r].pc \in Comparing /\ call[r].cur.status \in JobStatus
    BY <1>0, <1>5 DEF UpdateJobStatusWrite, At, Comparing, WellFormed
  <2>2. PICK now \in Times :
          LET row == Updated([job[call[r].job] EXCEPT !.status = call[r].cur.status],
                             job[call[r].job], now)
          IN  /\ WriteJob(r, call[r].job, row, call[r].prev)
              /\ Announce(r, call[r].job, row, Emissions(call[r].prev, row))
    BY <1>5 DEF UpdateJobStatusWrite
  <2> DEFINE row == Updated([job[call[r].job] EXCEPT !.status = call[r].cur.status],
                            job[call[r].job], now)
  <2>3. /\ row \in JobRow /\ row.status = call[r].cur.status
        /\ row.edition = job[call[r].job].edition + 1
    BY <1>1, <2>1, StatusUpdated
  <2>4. /\ WriteJob(r, call[r].job, row, call[r].prev)
        /\ Announce(r, call[r].job, row, Emissions(call[r].prev, row))
    BY <2>2
  <2> HIDE DEF row
  <2>5. row.status # "NONE"
    BY <2>1, <2>3 DEF JobStatus
  <2>6. QED
    BY <1>2, <2>1, <2>3, <2>4, <2>5
<1>6. CASE RefreshJobCheckedAt(r)
  <2>1. PICK j \in Jobs, now \in Times :
          /\ job[j].status # "NONE" /\ WriteJob(r, j, Updated(job[j], job[j], now), job[j])
          /\ Becomes(r, Done)
    BY <1>6 DEF RefreshJobCheckedAt, Returns
  <2> DEFINE row == Updated(job[j], job[j], now)
  <2>2. /\ job[j] \in JobRow /\ row \in JobRow /\ row.status = job[j].status
        /\ row.data = job[j].data /\ row.edition = job[j].edition + 1
    BY <1>0, UpdatedKind
  <2>3. WriteJob(r, j, row, job[j])
    BY <2>1
  <2> HIDE DEF row
  <2>4. Emissions(job[j], row) = {}
    BY <2>2, RefreshSilent
  <2>5. Announcing(j, row, {}) = Done
    BY DEF Announcing, Emitting, Idle
  <2>6. QED
    BY <2>1, <2>2, <2>3, <2>4, <2>5, EmissionsKind DEF Updates, Announce
<1>7. CASE ApproveUpdateCommit(r)
  <2>1. call[r].pc \in Comparing
    BY <1>7 DEF ApproveUpdateCommit, At, Comparing
  <2>2. PICK now \in Times :
          LET row == Updated(EditedTarget(r), job[call[r].job], now)
          IN  /\ WriteJob(r, call[r].job, row, call[r].prev)
              /\ Announce(r, call[r].job, row, Emissions(call[r].prev, row))
    BY <1>7 DEF ApproveUpdateCommit
  <2> DEFINE row == Updated(EditedTarget(r), job[call[r].job], now)
  <2>3. EditedTarget(r) \in JobRow /\ EditedTarget(r).status = job[call[r].job].status
    BY <1>0, <1>1, <2>1, DataKind DEF EditedTarget
  <2>4. /\ row \in JobRow /\ row.status # "NONE"
        /\ row.edition = job[call[r].job].edition + 1
    BY <1>1, <2>1, <2>3, UpdatedKind
  <2>5. /\ WriteJob(r, call[r].job, row, call[r].prev)
        /\ Announce(r, call[r].job, row, Emissions(call[r].prev, row))
    BY <2>2
  <2> HIDE DEF row
  <2>6. QED
    BY <1>2, <2>1, <2>4, <2>5
<1>8. QED
  BY <1>3, <1>4, <1>5, <1>6, <1>7 DEF Writes

-----------------------------------------------------------------------------
(* Type correctness                                                        *)

\* Giving a call a new local state.
LEMMA BecomesType ==
  ASSUME RowKinds, NEW r \in Requests, NEW l \in Call, Becomes(r, l)
  PROVE  call' \in [Requests -> Call]
  BY DEF RowKinds, Becomes

\* A step that writes no table.
LEMMA ReadType ==
  ASSUME RowKinds, NEW r \in Requests, NEW l \in Call, Becomes(r, l),
         UNCHANGED <<db, origin, log>>
  PROVE  RowKinds'
  BY BecomesType DEF RowKinds, db

\* A step that writes the submission table alone and returns.
LEMMA SubmissionType ==
  ASSUME RowKinds, NEW r \in Requests, Returns(r),
         submission' \in [Submissions -> SubmissionRow],
         UNCHANGED <<job, notes, origin, log>>
  PROVE  RowKinds'
  BY BecomesType, ConstantKinds DEF RowKinds, notes, Returns

\* An update of a job row.
LEMMA UpdateType ==
  ASSUME RowKinds, NEW r \in Requests, Updates(r),
         submission' \in [Submissions -> SubmissionRow], UNCHANGED <<notes, origin>>
  PROVE  RowKinds'
<1>1. PICK j \in Jobs, row \in JobRow, seen \in JobRow, todo \in SUBSET Notice :
        WriteJob(r, j, row, seen) /\ Announce(r, j, row, todo)
  BY DEF Updates
<1>2. job' \in [Jobs -> JobRow]
  BY <1>1 DEF RowKinds, WriteJob
<1>3. log' \subseteq LogEntry
  BY <1>1 DEF RowKinds, WriteJob, LogEntry
<1>4. call' \in [Requests -> Call]
  BY <1>1, AnnouncingKind, BecomesType DEF Announce
<1>5. QED
  BY <1>2, <1>3, <1>4 DEF RowKinds, notes

\* Every step of a company's call keeps the kinds.
LEMMA CompanyType ==
  ASSUME RowKinds, CallsWellFormed, NEW r \in Requests, CompanyStep(r)
  PROVE  RowKinds'
<1> USE ConstantKinds
<1>0. call[r] \in Call /\ job \in [Jobs -> JobRow]
      /\ submission \in [Submissions -> SubmissionRow]
  BY DEF RowKinds
<1>1. CASE CreateJobSubmission(r)
  <2>1. PICK s \in Submissions, c \in Companies, p \in Payloads :
          submission' = [submission EXCEPT ![s] =
            [NoSubmission EXCEPT !.status = "PENDING", !.company = c, !.data = p]]
    BY <1>1 DEF CreateJobSubmission
  <2>2. [NoSubmission EXCEPT !.status = "PENDING", !.company = c, !.data = p]
          \in SubmissionRow
    BY DEF NoSubmission, SubmissionRow
  <2>3. submission' \in [Submissions -> SubmissionRow]
    BY <1>0, <2>1, <2>2
  <2>4. QED
    BY <1>1, <2>3, SubmissionType DEF CreateJobSubmission
<1>2. CASE EditFindJob(r)
  <2>1. PICK c \in Companies, j \in Jobs, p \in Payloads :
          Becomes(r, [Idle EXCEPT !.pc = "edit", !.job = j,
                                  !.company = c, !.data = p])
    BY <1>2 DEF EditFindJob
  <2>2. [Idle EXCEPT !.pc = "edit", !.job = j, !.company = c, !.data = p] \in Call
    BY DEF Idle, Call, Pc
  <2>3. QED
    BY <1>2, <2>1, <2>2, ReadType DEF EditFindJob
<1>3. CASE EditCheckPending(r)
  <2>1. [call[r] EXCEPT !.pc = "createEdit"] \in Call
    BY <1>0 DEF Call, Pc
  <2>2. QED
    BY <1>3, <2>1, ReadType DEF EditCheckPending, Returns
<1>4. CASE EditCreate(r)
  <2> DEFINE row == [NoSubmission EXCEPT !.status = "PENDING",
                       !.company = call[r].company, !.data = call[r].data,
                       !.target = call[r].job]
  <2>1. PICK s \in Submissions : submission' = [submission EXCEPT ![s] = row]
    BY <1>4 DEF EditCreate
  <2>2. row \in SubmissionRow
    BY <1>0 DEF NoSubmission, SubmissionRow, Call
  <2>3. submission' \in [Submissions -> SubmissionRow]
    BY <1>0, <2>1, <2>2
  <2>4. QED
    BY <1>4, <2>3, SubmissionType DEF EditCreate
<1>5. CASE UpdateSubmissionFind(r)
  <2>1. PICK s \in Submissions, p \in Payloads :
          Becomes(r, [Idle EXCEPT !.pc = "updateSubmission", !.sub = s, !.data = p])
    BY <1>5 DEF UpdateSubmissionFind
  <2>2. [Idle EXCEPT !.pc = "updateSubmission", !.sub = s, !.data = p] \in Call
    BY DEF Idle, Call, Pc
  <2>3. QED
    BY <1>5, <2>1, <2>2, ReadType DEF UpdateSubmissionFind
<1>6. CASE UpdateSubmissionWrite(r)
  <2>1. submission' \in [Submissions -> SubmissionRow]
    BY <1>0, <1>6 DEF UpdateSubmissionWrite, SubmissionRow, Call
  <2>2. QED
    BY <1>6, <2>1, SubmissionType DEF UpdateSubmissionWrite
<1>7. CASE CancelFind(r)
  <2>1. PICK s \in Submissions :
          Becomes(r, [Idle EXCEPT !.pc = "cancel", !.sub = s])
    BY <1>7 DEF CancelFind
  <2>2. [Idle EXCEPT !.pc = "cancel", !.sub = s] \in Call
    BY DEF Idle, Call, Pc
  <2>3. QED
    BY <1>7, <2>1, <2>2, ReadType DEF CancelFind
<1>8. CASE CancelDelete(r)
  <2>1. submission' \in [Submissions -> SubmissionRow]
    BY <1>0, <1>8 DEF CancelDelete, NoSubmission, SubmissionRow
  <2>2. QED
    BY <1>8, <2>1, SubmissionType DEF CancelDelete
<1>9. CASE CloseMyJobFind(r)
  <2>1. PICK j \in Jobs :
          Becomes(r, [Idle EXCEPT !.pc = "closeMyJob", !.job = j, !.prev = job[j]])
    BY <1>9 DEF CloseMyJobFind
  <2>2. [Idle EXCEPT !.pc = "closeMyJob", !.job = j, !.prev = job[j]] \in Call
    BY <1>0 DEF Idle, Call, Pc
  <2>3. QED
    BY <1>9, <2>1, <2>2, ReadType DEF CloseMyJobFind
<1>10. CASE CloseMyJobWrite(r)
  BY <1>0, <1>10, WritesUpdates, UpdateType DEF CloseMyJobWrite, Writes
<1>11. QED
  BY <1>1, <1>2, <1>3, <1>4, <1>5, <1>6, <1>7, <1>8, <1>9, <1>10 DEF CompanyStep

\* Every step of an administrator's call keeps the kinds.
LEMMA AdminType ==
  ASSUME RowKinds, CallsWellFormed, NEW r \in Requests, AdminStep(r)
  PROVE  RowKinds'
<1> USE ConstantKinds
<1>0. call[r] \in Call /\ job \in [Jobs -> JobRow]
      /\ submission \in [Submissions -> SubmissionRow]
      /\ call[r].prev \in JobRow /\ call[r].cur \in JobRow
  BY DEF RowKinds, Call
<1>1. CASE CreateJob(r)
  <2>1. PICK j \in Jobs, c \in Companies, p \in Payloads, st \in JobStatus :
          LET row == NewRow(st, c, p)
          IN  /\ job' = [job EXCEPT ![j] = row]
              /\ Announce(r, j, row, IF st = "OPEN" THEN {"tag"} ELSE {})
    BY <1>1 DEF CreateJob
  <2> DEFINE row == NewRow(st, c, p)
  <2>2. row \in JobRow
    BY NewRowKind
  <2>3. job' \in [Jobs -> JobRow]
    BY <1>0, <2>1, <2>2
  <2>4. call' \in [Requests -> Call]
    <3> DEFINE todo == IF st = "OPEN" THEN {"tag"} ELSE {}
    <3>1. todo \in SUBSET Notice
      BY DEF Notice
    <3>2. Becomes(r, Announcing(j, row, todo))
      BY <2>1 DEF Announce
    <3> HIDE DEF row, todo
    <3>3. QED
      BY <2>2, <3>1, <3>2, AnnouncingKind, BecomesType
  <2>5. QED
    BY <1>1, <2>3, <2>4 DEF CreateJob, RowKinds, notes
<1>2. CASE UpdateJobRead(r)
  <2>1. PICK j \in Jobs, c \in Companies, p \in Payloads, st \in JobStatus :
          Becomes(r, [Idle EXCEPT
            !.pc = "updateJob", !.job = j, !.prev = job[j],
            !.cur = NewRow(st, c, p)])
    BY <1>2 DEF UpdateJobRead
  <2> DEFINE row == NewRow(st, c, p)
  <2>2. row \in JobRow
    BY NewRowKind
  <2>3. [Idle EXCEPT !.pc = "updateJob", !.job = j, !.prev = job[j],
                     !.cur = row] \in Call
    BY <1>0, <2>2 DEF Idle, Call, Pc
  <2>4. QED
    BY <1>2, <2>1, <2>3, ReadType DEF UpdateJobRead
<1>3. CASE UpdateJobWrite(r) \/ UpdateJobStatusWrite(r) \/ RefreshJobCheckedAt(r)
  BY <1>0, <1>3, WritesUpdates, UpdateType
     DEF UpdateJobWrite, UpdateJobStatusWrite, RefreshJobCheckedAt, Writes
<1>4. CASE UpdateJobStatusRead(r)
  <2>1. PICK j \in Jobs, st \in JobStatus :
          Becomes(r, [Idle EXCEPT !.pc = "updateJobStatus", !.job = j,
                                  !.prev = job[j], !.cur.status = st])
    BY <1>4 DEF UpdateJobStatusRead, ValidStatus
  <2>2. [Idle EXCEPT !.pc = "updateJobStatus", !.job = j,
                     !.prev = job[j], !.cur.status = st] \in Call
    <3>1. [NoJob EXCEPT !.status = st] \in JobRow
      BY ConstantKinds, StatusKind
    <3>2. [Idle EXCEPT !.cur.status = st] = [Idle EXCEPT !.cur = [NoJob EXCEPT !.status = st]]
      BY DEF Idle
    <3>3. QED
      BY <1>0, <3>1, <3>2 DEF Idle, Call, Pc
  <2>3. QED
    BY <1>4, <2>1, <2>2, ReadType DEF UpdateJobStatusRead
<1>6. CASE ApproveFind(r)
  <2>1. PICK s \in Submissions :
          Becomes(r, [Idle EXCEPT !.pc = "approve", !.sub = s,
            !.job = submission[s].target, !.company = submission[s].company,
            !.data = submission[s].data])
    BY <1>6 DEF ApproveFind
  <2>2. [Idle EXCEPT !.pc = "approve", !.sub = s,
            !.job = submission[s].target, !.company = submission[s].company,
            !.data = submission[s].data] \in Call
    BY <1>0 DEF Idle, Call, Pc, SubmissionRow
  <2>3. QED
    BY <1>6, <2>1, <2>2, ReadType DEF ApproveFind
<1>7. CASE ApproveFindTarget(r)
  <2>1. CASE Returns(r)
    BY <1>7, <2>1, ReadType DEF ApproveFindTarget, Returns
  <2>2. CASE ~Returns(r)
    <3>1. /\ OpenJobOf(call[r].job, call[r].company) /\ call[r].job # None
          /\ Becomes(r, [call[r] EXCEPT !.pc = "approveUpdate",
                                        !.prev = job[call[r].job]])
      BY <1>7, <2>2 DEF ApproveFindTarget
    <3>2. job[call[r].job] \in JobRow
      BY <1>0, <3>1 DEF Call
    <3>3. [call[r] EXCEPT !.pc = "approveUpdate", !.prev = job[call[r].job]] \in Call
      BY <1>0, <3>2 DEF Call, Pc
    <3>4. QED
      BY <1>7, <3>1, <3>3, ReadType DEF ApproveFindTarget
  <2>3. QED
    BY <2>1, <2>2
<1>8. CASE ApproveRollback(r)
  BY <1>8, ReadType DEF ApproveRollback, Returns
<1>9. CASE ApproveUpdateCommit(r)
  <2>1. submission' \in [Submissions -> SubmissionRow]
    BY <1>0, <1>9 DEF ApproveUpdateCommit, SubmissionRow
  <2>2. QED
    BY <1>9, <2>1, WritesUpdates, UpdateType DEF ApproveUpdateCommit, Writes
<1>10. CASE ApproveCreateCommit(r)
  <2> DEFINE row == NewRow("OPEN", call[r].company, call[r].data)
  <2>1. PICK j \in Jobs :
          /\ job' = [job EXCEPT ![j] = row]
          /\ submission' = [submission EXCEPT ![call[r].sub].status = "APPROVED",
                                              ![call[r].sub].approved = j]
          /\ origin' = [origin EXCEPT ![j] = call[r].sub]
          /\ Announce(r, j, row, {"tag"})
    BY <1>10 DEF ApproveCreateCommit
  <2>2. row \in JobRow
    BY <1>0, NewRowKind DEF JobStatus, Call
  <2>3. job' \in [Jobs -> JobRow]
    BY <1>0, <2>1, <2>2
  <2>4. submission' \in [Submissions -> SubmissionRow]
    BY <1>0, <2>1 DEF SubmissionRow
  <2>5. origin' \in [Jobs -> Submissions \union {None}]
    BY <1>0, <2>1 DEF RowKinds, Call
  <2>6. {"tag"} \in SUBSET Notice
    BY DEF Notice
  <2>7. Becomes(r, Announcing(j, row, {"tag"}))
    BY <2>1 DEF Announce
  <2> HIDE DEF row
  <2>8. call' \in [Requests -> Call]
    BY <2>2, <2>6, <2>7, AnnouncingKind, BecomesType
  <2>9. QED
    BY <1>10, <2>3, <2>4, <2>5, <2>8 DEF ApproveCreateCommit, RowKinds, notes
<1>11. CASE RejectFind(r)
  <2>1. PICK s \in Submissions : Becomes(r, [Idle EXCEPT !.pc = "reject", !.sub = s])
    BY <1>11 DEF RejectFind
  <2>2. [Idle EXCEPT !.pc = "reject", !.sub = s] \in Call
    BY DEF Idle, Call, Pc
  <2>3. QED
    BY <1>11, <2>1, <2>2, ReadType DEF RejectFind
<1>12. CASE RejectWrite(r)
  <2>1. submission' \in [Submissions -> SubmissionRow]
    BY <1>0, <1>12 DEF RejectWrite, SubmissionRow
  <2>2. QED
    BY <1>12, <2>1, SubmissionType DEF RejectWrite
<1>13. QED
  BY <1>1, <1>2, <1>3, <1>4, <1>6, <1>7, <1>8, <1>9, <1>10, <1>11, <1>12
     DEF AdminStep

\* Every notice sent keeps the kinds.
LEMMA NoticeType ==
  ASSUME RowKinds, CallsWellFormed, NEW r \in Requests, NoticeStep(r)
  PROVE  RowKinds'
<1>0. call[r] \in Call /\ job \in [Jobs -> JobRow] /\ call[r].cur \in JobRow
  BY DEF RowKinds, Call
<1>1. CASE NotifyStatus(r)
  <2>1. call[r].job \in Jobs
    BY <1>1 DEF NotifyStatus, At, CallsWellFormed, WellFormed
  <2>2. \A u \in Bookmarkers[call[r].job] : StatusNote(u, call[r]) \in StatusNotice
    BY <1>0, <2>1, ConstantsAssumption DEF StatusNote, StatusNotice, JobRow
  <2>3. statusNotes' \subseteq StatusNotice
    BY <1>1, <2>2 DEF NotifyStatus, RowKinds
  <2>4. call' \in [Requests -> Call]
    BY <1>0, <1>1, WithoutKind, BecomesType DEF NotifyStatus, Sent
  <2>5. QED
    BY <1>1, <2>3, <2>4 DEF NotifyStatus, RowKinds
<1>2. CASE NotifyTagRead(r)
  <2>1. [call[r] EXCEPT !.pc = "insertTag"] \in Call
    BY <1>0 DEF Call, Pc
  <2>2. QED
    BY <1>0, <1>2, <2>1, WithoutKind, ReadType DEF NotifyTagRead, Sent
<1>3. CASE NotifyTagInsert(r)
  <2>1. call[r].job \in Jobs
    BY <1>3 DEF NotifyTagInsert, At, CallsWellFormed, WellFormed
  <2>2. tagNotes' \subseteq TagNotice
    BY <1>3, <2>1, ConstantsAssumption DEF NotifyTagInsert, RowKinds, TagNotice
  <2>3. call' \in [Requests -> Call]
    BY <1>0, <1>3, WithoutKind, BecomesType DEF NotifyTagInsert, Sent
  <2>4. QED
    BY <1>3, <2>2, <2>3 DEF NotifyTagInsert, RowKinds
<1>4. CASE NotifySoonRead(r)
  <2> DEFINE row == job[call[r].job]
  <2>1. call[r].job \in Jobs
    BY <1>4 DEF NotifySoonRead, At, CallsWellFormed, WellFormed
  <2>2. [call[r] EXCEPT !.pc = "insertSoon", !.cur = row] \in Call
    BY <1>0, <2>1 DEF Call, Pc
  <2>3. QED
    BY <1>0, <1>4, <2>2, WithoutKind, ReadType DEF NotifySoonRead, Sent
<1>5. CASE NotifySoonInsert(r)
  <2>1. call[r].job \in Jobs /\ call[r].cur.data \in Payloads
    BY <1>5, ConstantsAssumption DEF NotifySoonInsert, At, CallsWellFormed, WellFormed
  <2>2. soonNotes' \subseteq SoonNotice
    BY <1>5, <2>1, ConstantsAssumption DEF NotifySoonInsert, RowKinds, SoonNotice
  <2>3. call' \in [Requests -> Call]
    BY <1>0, <1>5, WithoutKind, BecomesType DEF NotifySoonInsert, Sent
  <2>4. QED
    BY <1>5, <2>2, <2>3 DEF NotifySoonInsert, RowKinds
<1>6. QED
  BY <1>1, <1>2, <1>3, <1>4, <1>5 DEF NoticeStep

\* Every step keeps the kinds.
LEMMA TypePreserved ==
  ASSUME RowKinds, CallsWellFormed, NEW r \in Requests, Step(r)
  PROVE  RowKinds'
<1>1. CASE Lose(r)
  BY <1>1, ConstantKinds, ReadType DEF Lose
<1>2. QED
  BY <1>1, CompanyType, AdminType, NoticeType DEF Step

-----------------------------------------------------------------------------
(* What every step keeps                                                   *)

\* Rows of jobs and submissions stay, the log grows, and the other calls are
\* where they were.
Kept(r) ==
  /\ \A j \in Jobs : job[j].status # "NONE" => job'[j].status # "NONE"
  /\ \A s \in Submissions :
       submission[s].status # "NONE" => submission'[s].status # "NONE"
  /\ log \subseteq log'
  /\ \A q \in Requests \ {r} : call'[q] = call[q]

\* A step that updates a job row keeps it: the new status is not "NONE".
LEMMA UpdateKeeps ==
  ASSUME RowKinds, NEW r \in Requests, Updates(r),
         \A s \in Submissions :
           submission[s].status # "NONE" => submission'[s].status # "NONE"
  PROVE  Kept(r)
<1>1. PICK j \in Jobs, row \in JobRow, seen \in JobRow, todo \in SUBSET Notice :
        row.status # "NONE" /\ WriteJob(r, j, row, seen) /\ Announce(r, j, row, todo)
  BY DEF Updates
<1>2. QED
  BY <1>1 DEF RowKinds, WriteJob, Announce, Becomes, Kept

\* A step that writes no table.
LEMMA ReadKeeps ==
  ASSUME RowKinds, NEW r \in Requests, NEW l, Becomes(r, l),
         UNCHANGED <<job, submission, log>>
  PROVE  Kept(r)
  BY DEF RowKinds, Becomes, Kept

\* No step of a company's call takes a row away or touches another call.
LEMMA CompanyKeeps ==
  ASSUME RowKinds, CallsWellFormed, NEW r \in Requests, CompanyStep(r)
  PROVE  Kept(r)
<1>0. call[r] \in Call /\ job \in [Jobs -> JobRow]
      /\ submission \in [Submissions -> SubmissionRow]
  BY DEF RowKinds
<1>1. CASE CreateJobSubmission(r)
  BY <1>1, <1>0 DEF CreateJobSubmission, Returns, Becomes, Kept, NoSubmission, RowKinds
<1>2. CASE EditFindJob(r)
  BY <1>2, ReadKeeps DEF EditFindJob, db
<1>3. CASE EditCheckPending(r)
  BY <1>3, ReadKeeps DEF EditCheckPending, Returns, db
<1>4. CASE EditCreate(r)
  BY <1>4, <1>0 DEF EditCreate, Returns, Becomes, Kept, NoSubmission, RowKinds
<1>5. CASE UpdateSubmissionFind(r)
  BY <1>5, ReadKeeps DEF UpdateSubmissionFind, db
<1>6. CASE UpdateSubmissionWrite(r)
  <2>1. \A s \in Submissions : submission'[s].status = submission[s].status
    BY <1>0, <1>6 DEF UpdateSubmissionWrite, SubmissionRow
  <2>2. QED
    BY <1>6, <2>1 DEF UpdateSubmissionWrite, Returns, Becomes, Kept, RowKinds
<1>7. CASE CancelFind(r)
  BY <1>7, ReadKeeps DEF CancelFind, db
<1>8. CASE CancelDelete(r)
  BY <1>8, <1>0 DEF CancelDelete, Returns, Becomes, Kept, NoSubmission, RowKinds
<1>9. CASE CloseMyJobFind(r)
  BY <1>9, ReadKeeps DEF CloseMyJobFind, db
<1>10. CASE CloseMyJobWrite(r)
  BY <1>10, WritesUpdates, UpdateKeeps DEF CloseMyJobWrite, Writes
<1>11. QED
  BY <1>1, <1>2, <1>3, <1>4, <1>5, <1>6, <1>7, <1>8, <1>9, <1>10 DEF CompanyStep

\* Nor does a step of an administrator's call.
LEMMA AdminKeeps ==
  ASSUME RowKinds, CallsWellFormed, NEW r \in Requests, AdminStep(r)
  PROVE  Kept(r)
<1>0. call[r] \in Call /\ job \in [Jobs -> JobRow]
      /\ submission \in [Submissions -> SubmissionRow]
      /\ call[r].prev \in JobRow /\ call[r].cur \in JobRow
  BY DEF RowKinds, Call
<1>1. CASE CreateJob(r)
  <2>1. PICK j \in Jobs, st \in JobStatus, c \in Companies, p \in Payloads :
          job' = [job EXCEPT ![j] = NewRow(st, c, p)]
    BY <1>1 DEF CreateJob
  <2>2. NewRow(st, c, p).status # "NONE"
    BY NewRowKind DEF JobStatus
  <2>3. QED
    BY <1>0, <1>1, <2>1, <2>2 DEF CreateJob, Announce, Becomes, Kept, RowKinds
<1>2. CASE UpdateJobRead(r)
  BY <1>2, ReadKeeps DEF UpdateJobRead, db
<1>3. CASE UpdateJobWrite(r) \/ UpdateJobStatusWrite(r) \/ RefreshJobCheckedAt(r)
  BY <1>3, WritesUpdates, UpdateKeeps
     DEF UpdateJobWrite, UpdateJobStatusWrite, RefreshJobCheckedAt, Writes
<1>4. CASE UpdateJobStatusRead(r)
  BY <1>4, ReadKeeps DEF UpdateJobStatusRead, db
<1>6. CASE ApproveFind(r)
  BY <1>6, ReadKeeps DEF ApproveFind, db
<1>7. CASE ApproveFindTarget(r)
  BY <1>7, ReadKeeps DEF ApproveFindTarget, Returns, db
<1>8. CASE ApproveRollback(r)
  BY <1>8, ReadKeeps DEF ApproveRollback, Returns, db
<1>9. CASE ApproveUpdateCommit(r)
  <2>1. \A s \in Submissions :
          submission[s].status # "NONE" => submission'[s].status # "NONE"
    BY <1>0, <1>9 DEF ApproveUpdateCommit, SubmissionRow
  <2>2. QED
    BY <1>9, <2>1, WritesUpdates, UpdateKeeps DEF ApproveUpdateCommit, Writes
<1>10. CASE ApproveCreateCommit(r)
  <2>1. \A s \in Submissions :
          submission[s].status # "NONE" => submission'[s].status # "NONE"
    BY <1>0, <1>10 DEF ApproveCreateCommit, SubmissionRow
  <2>2. QED
    BY <1>0, <1>10, <2>1 DEF ApproveCreateCommit, NewRow, Announce, Becomes, Kept, RowKinds
<1>11. CASE RejectFind(r)
  BY <1>11, ReadKeeps DEF RejectFind, db
<1>12. CASE RejectWrite(r)
  <2>1. \A s \in Submissions :
          submission[s].status # "NONE" => submission'[s].status # "NONE"
    BY <1>0, <1>12 DEF RejectWrite, SubmissionRow
  <2>2. QED
    BY <1>12, <2>1 DEF RejectWrite, Returns, Becomes, Kept, RowKinds
<1>13. QED
  BY <1>1, <1>2, <1>3, <1>4, <1>6, <1>7, <1>8, <1>9, <1>10, <1>11, <1>12
     DEF AdminStep

\* Nor does any other step.
LEMMA StepKeeps ==
  ASSUME RowKinds, CallsWellFormed, NEW r \in Requests, Step(r)
  PROVE  Kept(r)
<1>1. CASE NoticeStep(r)
  BY <1>1, ReadKeeps DEF NoticeStep, NotifyStatus, NotifyTagRead, NotifyTagInsert,
                         NotifySoonRead, NotifySoonInsert, Sent, db
<1>2. CASE Lose(r)
  BY <1>2, ReadKeeps DEF Lose, db
<1>3. QED
  BY <1>1, <1>2, CompanyKeeps, AdminKeeps DEF Step

-----------------------------------------------------------------------------
(* Calls hold ids of rows that are there                                   *)

\* After its update a call is done, or has the job and the new row at hand.
LEMMA AnnouncingIs ==
  ASSUME NEW j, NEW row, NEW todo
  PROVE  \/ Announcing(j, row, todo) = Done
         \/ /\ Announcing(j, row, todo).pc = "emit"
            /\ Announcing(j, row, todo).job = j
            /\ Announcing(j, row, todo).cur = row
            /\ Announcing(j, row, todo).todo = todo
  BY DEF Announcing, Emitting, Idle

\* After a notice it is done, or goes on with the same job and row.
LEMMA WithoutIs ==
  ASSUME NEW l \in Call, NEW n
  PROVE  \/ Without(l, n) = Done
         \/ /\ Without(l, n).pc = "emit"
            /\ Without(l, n).job = l.job
            /\ Without(l, n).cur = l.cur
            /\ Without(l, n).todo = l.todo \ {n}
  BY DEF Without, Emitting, Call

\* The calls a step does not belong to stay well formed.
LEMMA OthersWellFormed ==
  ASSUME CallsWellFormed, RowKinds, NEW r \in Requests, Kept(r),
         NEW q \in Requests \ {r}
  PROVE  WellFormed(call[q])'
  BY DEF CallsWellFormed, WellFormed, Kept

\* A call that has ended is well formed.
LEMMA EndedWellFormed ==
  ASSUME RowKinds, NEW r \in Requests, Becomes(r, Done) \/ Becomes(r, Lost)
  PROVE  WellFormed(call[r])'
  BY DEF RowKinds, Becomes, WellFormed, Done, Lost, Idle

\* So is one that has updated or created a job.
LEMMA AnnouncedWellFormed ==
  ASSUME RowKinds, NEW r \in Requests, NEW j \in Jobs, NEW row, NEW todo,
         Announce(r, j, row, todo), job'[j].status # "NONE"
  PROVE  WellFormed(call[r])'
<1>1. call'[r] = Announcing(j, row, todo)
  BY DEF Announce, Becomes, RowKinds
<1>2. CASE Announcing(j, row, todo) = Done
  BY <1>2, EndedWellFormed DEF Announce
<1>3. CASE Announcing(j, row, todo) # Done
  BY <1>1, <1>3, AnnouncingIs DEF WellFormed
<1>4. QED
  BY <1>2, <1>3

\* One that has updated a job in particular.
LEMMA UpdateWellFormed ==
  ASSUME RowKinds, NEW r \in Requests, Updates(r), Kept(r)
  PROVE  WellFormed(call[r])'
<1>1. PICK j \in Jobs, row \in JobRow, todo \in SUBSET Notice :
        job[j].status # "NONE" /\ Announce(r, j, row, todo)
  BY DEF Updates
<1>2. QED
  BY <1>1, AnnouncedWellFormed DEF Kept

\* A company's call that takes a step is well formed afterwards.
LEMMA CompanyWellFormed ==
  ASSUME RowKinds, CallsWellFormed, NEW r \in Requests, CompanyStep(r), Kept(r)
  PROVE  WellFormed(call[r])'
<1>0. /\ WellFormed(call[r]) /\ call[r] \in Call
      /\ job \in [Jobs -> JobRow] /\ submission \in [Submissions -> SubmissionRow]
  BY DEF CallsWellFormed, RowKinds
<1>1. CASE CreateJobSubmission(r) \/ EditCreate(r) \/ UpdateSubmissionWrite(r)
           \/ CancelDelete(r)
  BY <1>1, EndedWellFormed DEF CreateJobSubmission, EditCreate,
     UpdateSubmissionWrite, CancelDelete, Returns
<1>2. CASE EditFindJob(r)
  BY <1>2 DEF EditFindJob, OpenJobOf, Becomes, RowKinds, WellFormed, Idle, db
<1>3. CASE EditCheckPending(r)
  <2>1. CASE Returns(r)
    BY <2>1, EndedWellFormed DEF Returns
  <2>2. CASE ~Returns(r)
    BY <1>0, <1>3, <2>2 DEF EditCheckPending, At, Becomes, RowKinds, WellFormed, Call, db
  <2>3. QED
    BY <2>1, <2>2
<1>4. CASE UpdateSubmissionFind(r)
  BY <1>4 DEF UpdateSubmissionFind, FindOwnPending, Becomes, RowKinds, WellFormed, Idle, db
<1>5. CASE CancelFind(r)
  BY <1>5 DEF CancelFind, FindOwnPending, Becomes, RowKinds, WellFormed, Idle, db
<1>6. CASE CloseMyJobFind(r)
  BY <1>6 DEF CloseMyJobFind, OpenJobOf, Becomes, RowKinds, WellFormed, Idle, db
<1>7. CASE CloseMyJobWrite(r)
  BY <1>7, WritesUpdates, UpdateWellFormed DEF Writes
<1>8. QED
  BY <1>1, <1>2, <1>3, <1>4, <1>5, <1>6, <1>7 DEF CompanyStep

\* So is an administrator's.
LEMMA AdminWellFormed ==
  ASSUME RowKinds, CallsWellFormed, NEW r \in Requests, AdminStep(r), Kept(r)
  PROVE  WellFormed(call[r])'
<1>0. /\ WellFormed(call[r]) /\ call[r] \in Call
      /\ job \in [Jobs -> JobRow] /\ submission \in [Submissions -> SubmissionRow]
  BY DEF CallsWellFormed, RowKinds
<1>1. CASE CreateJob(r)
  <2>1. PICK j \in Jobs, c \in Companies, p \in Payloads, st \in JobStatus :
          LET row == NewRow(st, c, p)
          IN  /\ job' = [job EXCEPT ![j] = row]
              /\ Announce(r, j, row, IF st = "OPEN" THEN {"tag"} ELSE {})
    BY <1>1 DEF CreateJob
  <2>2. job'[j].status # "NONE"
    BY <1>0, <2>1, NewRowKind DEF JobStatus
  <2>3. QED
    BY <2>1, <2>2, AnnouncedWellFormed
<1>2. CASE UpdateJobRead(r)
  BY <1>0, <1>2 DEF UpdateJobRead, NewRow, Becomes, RowKinds, WellFormed, Idle, db
<1>3. CASE Writes(r)
  BY <1>3, WritesUpdates, UpdateWellFormed
<1>4. CASE UpdateJobStatusRead(r)
  <2>1. PICK j \in Jobs, st \in JobStatus :
          /\ job[j].status # "NONE"
          /\ Becomes(r, [Idle EXCEPT !.pc = "updateJobStatus", !.job = j,
                                     !.prev = job[j], !.cur.status = st])
    BY <1>4 DEF UpdateJobStatusRead, ValidStatus
  <2>2. /\ call'[r].pc = "updateJobStatus" /\ call'[r].job = j
        /\ call'[r].cur.status = st
    BY <2>1 DEF Becomes, RowKinds, Idle, NoJob, NewRow
  <2>3. QED
    BY <1>4, <2>1, <2>2 DEF WellFormed, UpdateJobStatusRead, db
<1>6. CASE ApproveFind(r)
  BY <1>6 DEF ApproveFind, AssertPending, Becomes, RowKinds, WellFormed, Idle, db
<1>7. CASE ApproveFindTarget(r)
  <2>1. CASE Returns(r)
    BY <2>1, EndedWellFormed DEF Returns
  <2>2. CASE ~Returns(r)
    <3>1. /\ OpenJobOf(call[r].job, call[r].company) /\ call[r].job \in Jobs
          /\ Becomes(r, [call[r] EXCEPT !.pc = "approveUpdate",
                                        !.prev = job[call[r].job]])
      BY <1>0, <1>7, <2>2 DEF ApproveFindTarget, Call
    <3>2. QED
      BY <1>0, <1>7, <3>1
         DEF ApproveFindTarget, At, OpenJobOf, Becomes, RowKinds, WellFormed, Call, db
  <2>3. QED
    BY <2>1, <2>2
<1>9. CASE ApproveCreateCommit(r)
  <2>1. PICK j \in Jobs :
          LET row == NewRow("OPEN", call[r].company, call[r].data)
          IN  job' = [job EXCEPT ![j] = row] /\ Announce(r, j, row, {"tag"})
    BY <1>9 DEF ApproveCreateCommit
  <2>2. job'[j].status # "NONE"
    BY <1>0, <2>1 DEF NewRow
  <2>3. QED
    BY <2>1, <2>2, AnnouncedWellFormed
<1>10. CASE RejectFind(r)
  BY <1>10 DEF RejectFind, AssertPending, Becomes, RowKinds, WellFormed, Idle, db
<1>11. CASE ApproveRollback(r) \/ RejectWrite(r)
  BY <1>11, EndedWellFormed DEF ApproveRollback, RejectWrite, Returns
<1>12. QED
  BY <1>1, <1>2, <1>3, <1>4, <1>6, <1>7, <1>9, <1>10, <1>11 DEF AdminStep, Writes

\* So is one that sends a notice.
LEMMA NoticeWellFormed ==
  ASSUME RowKinds, CallsWellFormed, NEW r \in Requests, NoticeStep(r)
  PROVE  WellFormed(call[r])'
<1>0. /\ WellFormed(call[r]) /\ call[r] \in Call
      /\ call[r].pc \in {"emit", "insertTag", "insertSoon"}
      /\ job' = job
  BY DEF CallsWellFormed, RowKinds, NoticeStep, NotifyStatus, NotifyTagRead,
         NotifyTagInsert, NotifySoonRead, NotifySoonInsert, At, db
<1>1. ASSUME NEW n, Sent(r, n)
      PROVE  WellFormed(call[r])'
  <2>1. call'[r] = Without(call[r], n)
    BY <1>1 DEF Sent, Becomes, RowKinds
  <2>2. CASE Without(call[r], n) = Done
    BY <1>1, <2>2, EndedWellFormed DEF Sent
  <2>3. CASE Without(call[r], n) # Done
    BY <1>0, <2>1, <2>3, WithoutIs DEF WellFormed
  <2>4. QED
    BY <2>2, <2>3
<1>2. CASE NotifyTagRead(r) /\ ~Sent(r, "tag")
  BY <1>0, <1>2 DEF NotifyTagRead, Becomes, RowKinds, WellFormed, Call
<1>3. CASE NotifySoonRead(r) /\ ~Sent(r, "soon")
  <2> DEFINE row == job[call[r].job]
             l   == [call[r] EXCEPT !.pc = "insertSoon", !.cur = row]
  <2>1. /\ row.data \in DueSoon /\ Becomes(r, l)
        /\ call[r].todo = {"soon"} /\ call[r].pc = "emit"
    BY <1>3 DEF NotifySoonRead, At
  <2>2. /\ l.pc = "insertSoon" /\ l.job = call[r].job /\ l.cur = row
        /\ l.todo = {"soon"}
    BY <1>0, <2>1 DEF Call
  <2>3. call'[r] = l
    BY <2>1 DEF Becomes, RowKinds
  <2>4. l.job \in Jobs /\ job'[l.job].status # "NONE"
    BY <1>0, <2>1, <2>2 DEF WellFormed
  <2> HIDE DEF row, l
  <2>5. QED
    BY <2>1, <2>2, <2>3, <2>4 DEF WellFormed
<1>4. QED
  BY <1>1, <1>2, <1>3 DEF NoticeStep, NotifyStatus, NotifyTagInsert, NotifySoonInsert

\* Every step keeps all calls well formed.
LEMMA WellFormedPreserved ==
  ASSUME RowKinds, CallsWellFormed, NEW r \in Requests, Step(r)
  PROVE  CallsWellFormed'
<1>1. Kept(r)
  BY StepKeeps
<1>2. WellFormed(call[r])'
  BY <1>1, CompanyWellFormed, AdminWellFormed, NoticeWellFormed, EndedWellFormed
     DEF Step, Lose
<1>3. QED
  BY <1>1, <1>2, OthersWellFormed DEF CallsWellFormed

-----------------------------------------------------------------------------
(* The log of updates                                                      *)

\* The two that insert one: nobody has updated it, and at most tag subscribers
\* are told.
Inserts(r) ==
  \E j \in Jobs, row \in JobRow, todo \in SUBSET {"tag"} :
    /\ job[j].status = "NONE" /\ job' = [job EXCEPT ![j] = row]
    /\ Announce(r, j, row, todo) /\ log' = log

\* A company's call updates a job or leaves all of them alone, and is not
\* about to send a notice in that case.
LEMMA CompanyEffect ==
  ASSUME RowKinds, CallsWellFormed, NEW r \in Requests, CompanyStep(r)
  PROVE  \/ Writes(r) /\ Updates(r)
         \/ UNCHANGED <<job, log>> /\ call'[r].pc \notin {"emit", "insertTag", "insertSoon"}
<1>0. call[r] \in Call /\ job \in [Jobs -> JobRow] /\ WellFormed(call[r])
  BY DEF RowKinds, CallsWellFormed
<1>1. CASE CloseMyJobWrite(r)
  BY <1>1, WritesUpdates DEF Writes
<1>2. CASE ~CloseMyJobWrite(r)
  <2>1. call'[r].pc \notin {"emit", "insertTag", "insertSoon"}
    <3>1. CASE Returns(r)
      BY <3>1 DEF Returns, Becomes, RowKinds, Done, Idle
    <3>2. CASE EditFindJob(r)
      BY <3>2 DEF EditFindJob, Becomes, RowKinds, Idle
    <3>3. CASE EditCheckPending(r) /\ ~Returns(r)
      BY <1>0, <3>3 DEF EditCheckPending, Becomes, RowKinds, Call
    <3>4. CASE UpdateSubmissionFind(r)
      BY <3>4 DEF UpdateSubmissionFind, Becomes, RowKinds, Idle
    <3>5. CASE CancelFind(r)
      BY <3>5 DEF CancelFind, Becomes, RowKinds, Idle
    <3>6. CASE CloseMyJobFind(r)
      BY <3>6 DEF CloseMyJobFind, Becomes, RowKinds, Idle
    <3>7. QED
      BY <1>2, <3>1, <3>2, <3>3, <3>4, <3>5, <3>6 DEF CompanyStep,
         CreateJobSubmission, EditCreate, UpdateSubmissionWrite, CancelDelete
  <2>2. UNCHANGED <<job, log>>
    BY <1>2 DEF CompanyStep, CreateJobSubmission, EditFindJob, EditCheckPending,
       EditCreate, UpdateSubmissionFind, UpdateSubmissionWrite, CancelFind,
       CancelDelete, CloseMyJobFind, db
  <2>3. QED
    BY <2>1, <2>2
<1>3. QED
  BY <1>1, <1>2

\* An administrator's call may also insert one.
LEMMA AdminEffect ==
  ASSUME RowKinds, CallsWellFormed, NEW r \in Requests, AdminStep(r)
  PROVE  \/ Writes(r) /\ Updates(r)
         \/ Inserts(r)
         \/ UNCHANGED <<job, log>> /\ call'[r].pc \notin {"emit", "insertTag", "insertSoon"}
<1>0. /\ call[r] \in Call /\ job \in [Jobs -> JobRow] /\ WellFormed(call[r])
      /\ call[r].prev \in JobRow /\ call[r].cur \in JobRow
  BY DEF RowKinds, CallsWellFormed, Call
<1>1. CASE CreateJob(r)
  <2>1. PICK j \in Jobs, c \in Companies, p \in Payloads, st \in JobStatus :
          LET row == NewRow(st, c, p)
          IN  /\ FreshJob(j)
              /\ job' = [job EXCEPT ![j] = row]
              /\ Announce(r, j, row, IF st = "OPEN" THEN {"tag"} ELSE {})
    BY <1>1 DEF CreateJob
  <2> DEFINE row  == NewRow(st, c, p)
             todo == IF st = "OPEN" THEN {"tag"} ELSE {}
  <2>2. row \in JobRow /\ todo \in SUBSET {"tag"} /\ log' = log
    BY <1>1, NewRowKind DEF CreateJob
  <2>3. /\ job[j].status = "NONE" /\ job' = [job EXCEPT ![j] = row]
        /\ Announce(r, j, row, todo)
    BY <2>1 DEF FreshJob
  <2> HIDE DEF row, todo
  <2>4. QED
    BY <2>2, <2>3 DEF Inserts
<1>2. CASE ApproveCreateCommit(r)
  <2>1. PICK j \in Jobs :
          LET row == NewRow("OPEN", call[r].company, call[r].data)
          IN  /\ FreshJob(j) /\ job' = [job EXCEPT ![j] = row]
              /\ Announce(r, j, row, {"tag"})
    BY <1>2 DEF ApproveCreateCommit
  <2> DEFINE row == NewRow("OPEN", call[r].company, call[r].data)
  <2>2. row \in JobRow /\ log' = log
    BY <1>0, <1>2, NewRowKind DEF JobStatus, Call, ApproveCreateCommit
  <2>3. /\ job[j].status = "NONE" /\ job' = [job EXCEPT ![j] = row]
        /\ Announce(r, j, row, {"tag"})
    BY <2>1 DEF FreshJob
  <2> HIDE DEF row
  <2>4. QED
    BY <2>2, <2>3 DEF Inserts
<1>3. CASE Writes(r)
  BY <1>3, WritesUpdates
<1>6. CASE UpdateJobStatusRead(r)
  <2>1. PICK j \in Jobs, st \in JobStatus :
          Becomes(r, [Idle EXCEPT !.pc = "updateJobStatus", !.job = j,
                                  !.prev = job[j], !.cur.status = st])
    BY <1>6 DEF UpdateJobStatusRead, ValidStatus
  <2>2. call'[r].pc = "updateJobStatus"
    BY <2>1 DEF Becomes, RowKinds, Idle, NoJob, NewRow
  <2>3. QED
    BY <1>6, <2>2 DEF UpdateJobStatusRead, db
<1>7. CASE UpdateJobRead(r) \/ ApproveFind(r) \/ ApproveFindTarget(r)
           \/ ApproveRollback(r) \/ RejectFind(r) \/ RejectWrite(r)
  <2>1. call'[r].pc \notin {"emit", "insertTag", "insertSoon"}
    <3>1. CASE Returns(r)
      BY <3>1 DEF Returns, Becomes, RowKinds, Done, Idle
    <3>2. CASE UpdateJobRead(r)
      BY <3>2 DEF UpdateJobRead, Becomes, RowKinds, Idle
    <3>3. CASE ApproveFind(r)
      BY <3>3 DEF ApproveFind, Becomes, RowKinds, Idle
    <3>4. CASE ApproveFindTarget(r) /\ ~Returns(r)
      BY <1>0, <3>4 DEF ApproveFindTarget, Becomes, RowKinds, Call
    <3>5. CASE RejectFind(r)
      BY <3>5 DEF RejectFind, Becomes, RowKinds, Idle
    <3>6. QED
      BY <1>7, <3>1, <3>2, <3>3, <3>4, <3>5 DEF ApproveRollback, RejectWrite
  <2>2. UNCHANGED <<job, log>>
    BY <1>7 DEF UpdateJobRead, ApproveFind, ApproveFindTarget, ApproveRollback,
       RejectFind, RejectWrite, db
  <2>3. QED
    BY <2>1, <2>2
<1>8. QED
  BY <1>1, <1>2, <1>3, <1>6, <1>7 DEF AdminStep, Writes

\* Sending notices and losing a call update no job.
LEMMA NoticeEffect ==
  ASSUME NEW r \in Requests, NoticeStep(r) \/ Lose(r)
  PROVE  UNCHANGED <<job, log>>
  BY DEF NoticeStep, NotifyStatus, NotifyTagRead, NotifyTagInsert, NotifySoonRead,
         NotifySoonInsert, Lose, db

\* Every step keeps the log in agreement with the rows.
LEMMA RowsLoggedPreserved ==
  ASSUME RowKinds, CallsWellFormed, RowsLogged, NEW r \in Requests, Step(r)
  PROVE  RowsLogged'
<1>0. job \in [Jobs -> JobRow] /\ log \subseteq LogEntry /\ SeedJobs \subseteq Jobs
  BY ConstantsAssumption DEF RowKinds
<1>1. CASE Updates(r)
  <2>1. PICK j \in Jobs, row \in JobRow, seen \in JobRow :
          row.status # "NONE" /\ WriteJob(r, j, row, seen)
    BY <1>1 DEF Updates
  <2> DEFINE e == [job |-> j, by |-> r, seen |-> seen, from |-> job[j], to |-> row]
  <2>2. /\ e.job = j /\ e.to = row
        /\ job' = [job EXCEPT ![j] = row] /\ log' = log \union {e}
    BY <2>1 DEF WriteJob
  <2> HIDE DEF e
  <2>3. ASSUME NEW w \in log'
        PROVE  /\ job'[w.job].status # "NONE"
               /\ \E v \in log' : v.job = w.job /\ v.to = job'[w.job]
    <3>1. CASE w.job = j
      BY <1>0, <2>1, <2>2, <3>1
    <3>2. CASE w.job # j
      <4>1. w \in log /\ w.job \in Jobs
        BY <1>0, <2>2, <3>2 DEF LogEntry
      <4>2. job'[w.job] = job[w.job]
        BY <1>0, <2>2, <3>2, <4>1
      <4>3. QED
        BY <2>2, <4>1, <4>2 DEF RowsLogged
    <3>3. QED
      BY <3>1, <3>2
  <2>4. \A i \in SeedJobs : job'[i].status # "NONE"
    BY <1>0, <2>1, <2>2 DEF RowsLogged
  <2>5. QED
    BY <2>3, <2>4 DEF RowsLogged
<1>2. CASE Inserts(r)
  <2>1. PICK j \in Jobs, row \in JobRow :
          job[j].status = "NONE" /\ job' = [job EXCEPT ![j] = row] /\ log' = log
    BY <1>2 DEF Inserts
  <2>2. \A i \in Jobs : job[i].status # "NONE" => job'[i] = job[i]
    BY <1>0, <2>1
  <2>3. QED
    BY <1>0, <2>1, <2>2 DEF RowsLogged, LogEntry
<1>3. CASE UNCHANGED <<job, log>>
  BY <1>3 DEF RowsLogged
<1>4. QED
  BY <1>1, <1>2, <1>3, CompanyEffect, AdminEffect, NoticeEffect DEF Step

-----------------------------------------------------------------------------
(* Notices tell of logged updates                                          *)

\* The calls a step does not belong to still have their updates in the log.
LEMMA OthersLogged ==
  ASSUME CallsLogged, NEW r \in Requests, Kept(r), NEW q \in Requests \ {r}
  PROVE  Logged(call[q])'
  BY DEF CallsLogged, Logged, Kept

\* A call about to send no notice owes nothing.
LEMMA SilentLogged ==
  ASSUME NEW r \in Requests, call'[r].pc \notin {"emit", "insertTag", "insertSoon"}
  PROVE  Logged(call[r])'
  BY DEF Logged

\* A call that just updated a job has that update in the log.
LEMMA UpdateLogged ==
  ASSUME RowKinds, NEW r \in Requests, Updates(r)
  PROVE  Logged(call[r])'
<1>1. PICK j \in Jobs, row \in JobRow, seen \in JobRow, todo \in SUBSET Notice :
        WriteJob(r, j, row, seen) /\ Announce(r, j, row, todo)
  BY DEF Updates
<1>2. \E w \in log' : w.job = j /\ w.to = row
  <2> DEFINE e == [job |-> j, by |-> r, seen |-> seen, from |-> job[j], to |-> row]
  <2>1. e \in log' /\ e.job = j /\ e.to = row
    BY <1>1 DEF WriteJob
  <2>2. QED
    BY <2>1
<1>3. call'[r] = Announcing(j, row, todo)
  BY <1>1 DEF Announce, Becomes, RowKinds
<1>4. QED
  BY <1>2, <1>3, AnnouncingIs DEF Logged, Done, Idle

\* A call that just created a job owes only a tag notice, and the job is no
\* seeded one.
LEMMA InsertLogged ==
  ASSUME RowKinds, RowsLogged, NEW r \in Requests, Inserts(r)
  PROVE  Logged(call[r])'
<1>1. PICK j \in Jobs, row \in JobRow, todo \in SUBSET {"tag"} :
        job[j].status = "NONE" /\ Announce(r, j, row, todo)
  BY DEF Inserts
<1>2. call'[r] = Announcing(j, row, todo)
  BY <1>1 DEF Announce, Becomes, RowKinds
<1>3. j \notin SeedJobs /\ "status" \notin todo
  BY <1>1 DEF RowsLogged
<1>4. QED
  BY <1>2, <1>3, AnnouncingIs DEF Logged, Done, Idle

\* A seeded job about which a call sends notices has an update that left it as
\* its row says.
LEMMA SeedJobLogged ==
  ASSUME RowsLogged, CallsLogged, NEW r \in Requests,
         call[r].pc \in {"emit", "insertTag", "insertSoon"}, call[r].job \in SeedJobs
  PROVE  \E w \in log : w.job = call[r].job /\ w.to = job[call[r].job]
<1>1. PICK w \in log : w.job = call[r].job
  BY DEF CallsLogged, Logged
<1>2. QED
  BY <1>1 DEF RowsLogged

\* Notices that are still owed or about to be inserted tell of logged updates.
LEMMA NoticeLogged ==
  ASSUME RowKinds, CallsWellFormed, RowsLogged, CallsLogged,
         NEW r \in Requests, NoticeStep(r)
  PROVE  Logged(call[r])'
<1>0. /\ WellFormed(call[r]) /\ call[r] \in Call /\ Logged(call[r])
      /\ call[r].pc \in {"emit", "insertTag", "insertSoon"}
      /\ call[r].job \in Jobs
      /\ job' = job /\ log' = log
  BY NoticeEffect DEF CallsWellFormed, WellFormed, CallsLogged, RowKinds, NoticeStep,
     NotifyStatus, NotifyTagRead, NotifyTagInsert, NotifySoonRead,
     NotifySoonInsert, At
<1>1. ASSUME NEW n, Sent(r, n), n = "status" \/ "status" \notin call[r].todo
      PROVE  Logged(call[r])'
  <2>1. call'[r] = Without(call[r], n)
    BY <1>1 DEF Sent, Becomes, RowKinds
  <2>2. "status" \notin call[r].todo \ {n}
    BY <1>1
  <2>3. QED
    BY <1>0, <2>1, <2>2, WithoutIs DEF Logged, Done, Idle
<1>2. CASE NotifyTagRead(r) /\ ~Sent(r, "tag")
  <2>1. /\ job[call[r].job].status = "OPEN" /\ TagAudience[call[r].job] # {}
        /\ Becomes(r, [call[r] EXCEPT !.pc = "insertTag"])
    BY <1>2 DEF NotifyTagRead
  <2>2. call[r].job \in SeedJobs
    BY <1>0, <2>1, AudienceAssumption
  <2>3. PICK w \in log : w.job = call[r].job /\ w.to = job[call[r].job]
    BY <1>0, <2>2, SeedJobLogged
  <2>4. call'[r].pc = "insertTag" /\ call'[r].job = call[r].job
    BY <1>0, <2>1 DEF Becomes, RowKinds, Call
  <2>5. QED
    BY <1>0, <2>1, <2>3, <2>4 DEF Logged
<1>3. CASE NotifySoonRead(r) /\ ~Sent(r, "soon")
  <2> DEFINE row == job[call[r].job]
  <2>1. /\ row.status = "OPEN" /\ Bookmarkers[call[r].job] # {}
        /\ Becomes(r, [call[r] EXCEPT !.pc = "insertSoon", !.cur = row])
    BY <1>3 DEF NotifySoonRead
  <2>2. call[r].job \in SeedJobs
    BY <1>0, <2>1, AudienceAssumption
  <2>3. PICK w \in log : w.job = call[r].job /\ w.to = row
    BY <1>0, <2>2, SeedJobLogged
  <2>4. call'[r].pc = "insertSoon" /\ call'[r].job = call[r].job /\ call'[r].cur = row
    BY <1>0, <2>1 DEF Becomes, RowKinds, Call
  <2> HIDE DEF row
  <2>5. QED
    BY <1>0, <2>1, <2>3, <2>4 DEF Logged
<1>4. CASE NotifyStatus(r)
  BY <1>1, <1>4 DEF NotifyStatus
<1>5. CASE NotifyTagRead(r) /\ Sent(r, "tag")
  BY <1>1, <1>5 DEF NotifyTagRead
<1>6. CASE NotifySoonRead(r) /\ Sent(r, "soon")
  BY <1>1, <1>6 DEF NotifySoonRead
<1>7. CASE NotifyTagInsert(r) \/ NotifySoonInsert(r)
  BY <1>0, <1>1, <1>7 DEF NotifyTagInsert, NotifySoonInsert, At, WellFormed
<1>8. QED
  BY <1>2, <1>3, <1>4, <1>5, <1>6, <1>7 DEF NoticeStep

\* Every step keeps this for all calls.
LEMMA LoggedPreserved ==
  ASSUME RowKinds, CallsWellFormed, RowsLogged, CallsLogged, NEW r \in Requests, Step(r)
  PROVE  CallsLogged'
<1>1. ASSUME Lose(r) PROVE Logged(call[r])'
  BY <1>1, SilentLogged DEF Lose, Becomes, RowKinds, Lost, Idle
<1>2. Logged(call[r])'
  BY <1>1, CompanyEffect, AdminEffect, SilentLogged, UpdateLogged, InsertLogged,
     NoticeLogged DEF Step
<1>3. QED
  BY <1>2, StepKeeps, OthersLogged DEF CallsLogged

\* So every notification tells of a logged update.
LEMMA TruthPreserved ==
  ASSUME RowKinds, CallsWellFormed, CallsLogged, NoticesTruthful,
         NEW r \in Requests, Step(r)
  PROVE  NoticesTruthful'
<1>0. log \subseteq log' /\ WellFormed(call[r]) /\ Logged(call[r])
  BY StepKeeps DEF Kept, CallsWellFormed, CallsLogged
<1>1. CASE NotifyStatus(r)
  <2>1. PICK w \in log : w.job = call[r].job /\ w.to = call[r].cur
    BY <1>0, <1>1 DEF NotifyStatus, At, Logged
  <2>2. \A n \in statusNotes' \ statusNotes :
          w.job = n.job /\ w.to.status = n.status /\ w.to.stamp = n.stamp
    BY <1>1, <2>1 DEF NotifyStatus, StatusNote
  <2>3. QED
    BY <1>0, <1>1, <2>2 DEF NotifyStatus, NoticesTruthful
<1>2. CASE NotifyTagInsert(r)
  <2>1. PICK w \in log : w.job = call[r].job /\ w.to.status = "OPEN"
    BY <1>0, <1>2 DEF NotifyTagInsert, At, Logged
  <2>2. \A n \in tagNotes' \ tagNotes : w.job = n.job
    BY <1>2, <2>1 DEF NotifyTagInsert
  <2>3. QED
    BY <1>0, <1>2, <2>1, <2>2 DEF NotifyTagInsert, NoticesTruthful
<1>3. CASE NotifySoonInsert(r)
  <2>1. PICK w \in log : /\ w.job = call[r].job /\ w.to = call[r].cur
                         /\ w.to.status = "OPEN" /\ w.to.data \in DueSoon
    BY <1>0, <1>3 DEF NotifySoonInsert, At, Logged, WellFormed
  <2>2. \A n \in soonNotes' \ soonNotes :
          w.job = n.job /\ Deadline[w.to.data] = n.deadline
    BY <1>3, <2>1 DEF NotifySoonInsert
  <2>3. QED
    BY <1>0, <1>3, <2>1, <2>2 DEF NotifySoonInsert, NoticesTruthful
<1>4. CASE UNCHANGED notes
  BY <1>0, <1>4 DEF NoticesTruthful, notes
<1>5. CASE CompanyStep(r)
  BY <1>4, <1>5 DEF CompanyStep, CreateJobSubmission, EditFindJob, EditCheckPending,
     EditCreate, UpdateSubmissionFind, UpdateSubmissionWrite, CancelFind,
     CancelDelete, CloseMyJobFind, CloseMyJobWrite, db, notes
<1>6. CASE AdminStep(r)
  BY <1>4, <1>6 DEF AdminStep, CreateJob, UpdateJobRead, UpdateJobWrite,
     UpdateJobStatusRead, UpdateJobStatusWrite, RefreshJobCheckedAt, ApproveFind, ApproveFindTarget,
     ApproveRollback, ApproveUpdateCommit, ApproveCreateCommit, RejectFind,
     RejectWrite, db, notes
<1>7. CASE NotifyTagRead(r) \/ NotifySoonRead(r) \/ Lose(r)
  BY <1>4, <1>7 DEF NotifyTagRead, NotifySoonRead, Lose, db, notes
<1>8. QED
  BY <1>1, <1>2, <1>3, <1>5, <1>6, <1>7 DEF Step, NoticeStep

-----------------------------------------------------------------------------
(* Jobs published from submissions                                         *)

\* A step that creates no job from a submission and sets no approvedJobId.
LEMMA OwnKept ==
  ASSUME RowKinds, OriginsSound, NEW r \in Requests, Kept(r), origin' = origin,
         \A s \in Submissions : submission'[s].approved \in {None, submission[s].approved}
  PROVE  OriginsSound'
<1>1. \A s \in Submissions : submission'[s].approved # None =>
        origin'[submission'[s].approved] = s
  BY DEF OriginsSound
<1>2. \A j \in Jobs : origin'[j] # None =>
        job'[j].status # "NONE" /\ submission'[origin'[j]].status # "NONE"
  BY DEF OriginsSound, RowKinds, Kept
<1>3. QED
  BY <1>1, <1>2 DEF OriginsSound

\* Every step keeps approvedJobId pointing at the submission's own job.
LEMMA OwnPreserved ==
  ASSUME RowKinds, CallsWellFormed, OriginsSound, NEW r \in Requests, Step(r)
  PROVE  OriginsSound'
<1>0. /\ Kept(r) /\ WellFormed(call[r])
      /\ submission \in [Submissions -> SubmissionRow]
      /\ job \in [Jobs -> JobRow] /\ origin \in [Jobs -> Submissions \union {None}]
  BY StepKeeps DEF CallsWellFormed, RowKinds
<1>1. CASE ApproveCreateCommit(r)
  <2>1. PICK j \in Jobs :
          /\ FreshJob(j)
          /\ job' = [job EXCEPT ![j] = NewRow("OPEN", call[r].company, call[r].data)]
          /\ submission' = [submission EXCEPT ![call[r].sub].status = "APPROVED",
                                              ![call[r].sub].approved = j]
          /\ origin' = [origin EXCEPT ![j] = call[r].sub]
    BY <1>0, <1>1 DEF ApproveCreateCommit
  <2> DEFINE s0 == call[r].sub
  <2>2. s0 \in Submissions /\ submission[s0].status # "NONE"
    BY <1>0, <1>1 DEF ApproveCreateCommit, At, WellFormed
  <2>3. origin[j] = None
    BY <2>1 DEF OriginsSound, FreshJob
  <2>4. /\ submission'[s0].approved = j /\ origin'[j] = s0
        /\ \A s \in Submissions \ {s0} : submission'[s] = submission[s]
        /\ \A i \in Jobs \ {j} : origin'[i] = origin[i]
    BY <1>0, <2>1, <2>2 DEF SubmissionRow
  <2> HIDE DEF s0
  <2>5. ASSUME NEW s \in Submissions, submission'[s].approved # None
        PROVE  origin'[submission'[s].approved] = s
    <3>1. CASE s = s0
      BY <2>4, <3>1
    <3>2. CASE s # s0
      <4>1. submission[s].approved \in Jobs /\ origin[submission[s].approved] = s
        BY <1>0, <2>4, <2>5, <3>2 DEF OriginsSound, SubmissionRow
      <4>2. submission[s].approved # j
        BY <2>3, <4>1, ConstantsAssumption
      <4>3. QED
        BY <2>4, <3>2, <4>1, <4>2
    <3>3. QED
      BY <3>1, <3>2
  <2>6. ASSUME NEW i \in Jobs, origin'[i] # None
        PROVE  job'[i].status # "NONE" /\ submission'[origin'[i]].status # "NONE"
    <3>1. CASE i = j
      <4>1. submission'[s0].status # "NONE"
        BY <1>0, <2>2 DEF Kept
      <4>2. QED
        BY <1>0, <2>1, <2>4, <3>1, <4>1 DEF NewRow
    <3>2. CASE i # j
      BY <1>0, <2>4, <2>6, <3>2 DEF OriginsSound, Kept
    <3>3. QED
      BY <3>1, <3>2
  <2>7. QED
    BY <2>5, <2>6 DEF OriginsSound
<1>2. CASE CompanyStep(r)
  <2>1. \A s \in Submissions : submission'[s].approved \in {None, submission[s].approved}
    <3>1. CASE CreateJobSubmission(r)
      BY <1>0, <3>1 DEF CreateJobSubmission, NoSubmission
    <3>2. CASE EditCreate(r)
      BY <1>0, <3>2 DEF EditCreate, NoSubmission
    <3>3. CASE UpdateSubmissionWrite(r)
      BY <1>0, <3>3 DEF UpdateSubmissionWrite, SubmissionRow
    <3>4. CASE CancelDelete(r)
      BY <1>0, <3>4 DEF CancelDelete, NoSubmission
    <3>5. CASE submission' = submission
      BY <3>5
    <3>6. QED
      BY <1>2, <3>1, <3>2, <3>3, <3>4, <3>5 DEF CompanyStep, EditFindJob,
         EditCheckPending, UpdateSubmissionFind, CancelFind, CloseMyJobFind,
         CloseMyJobWrite, db
  <2>2. origin' = origin
    BY <1>2 DEF CompanyStep, CreateJobSubmission, EditFindJob, EditCheckPending,
       EditCreate, UpdateSubmissionFind, UpdateSubmissionWrite, CancelFind,
       CancelDelete, CloseMyJobFind, CloseMyJobWrite
  <2>3. QED
    BY <1>0, <2>1, <2>2, OwnKept
<1>3. CASE AdminStep(r) /\ ~ApproveCreateCommit(r)
  <2>1. \A s \in Submissions : submission'[s].approved \in {None, submission[s].approved}
    <3>1. CASE ApproveUpdateCommit(r)
      BY <1>0, <3>1 DEF ApproveUpdateCommit, SubmissionRow
    <3>2. CASE RejectWrite(r)
      BY <1>0, <3>2 DEF RejectWrite, SubmissionRow
    <3>3. CASE submission' = submission
      BY <3>3
    <3>4. QED
      BY <1>3, <3>1, <3>2, <3>3 DEF AdminStep, CreateJob, UpdateJobRead,
         UpdateJobWrite, UpdateJobStatusRead, UpdateJobStatusWrite, RefreshJobCheckedAt, ApproveFind,
         ApproveFindTarget, ApproveRollback, RejectFind, db
  <2>2. origin' = origin
    BY <1>3 DEF AdminStep, CreateJob, UpdateJobRead, UpdateJobWrite,
       UpdateJobStatusRead, UpdateJobStatusWrite, RefreshJobCheckedAt, ApproveFind, ApproveFindTarget,
       ApproveRollback, ApproveUpdateCommit, RejectFind, RejectWrite
  <2>3. QED
    BY <1>0, <2>1, <2>2, OwnKept
<1>4. CASE NoticeStep(r) \/ Lose(r)
  <2>1. UNCHANGED <<submission, origin>>
    BY <1>4 DEF NoticeStep, NotifyStatus, NotifyTagRead, NotifyTagInsert,
       NotifySoonRead, NotifySoonInsert, Lose, db
  <2>2. QED
    BY <1>0, <2>1, OwnKept
<1>5. QED
  BY <1>1, <1>2, <1>3, <1>4 DEF Step

-----------------------------------------------------------------------------
(* The theorems                                                            *)

\* The invariant holds at the start.
LEMMA InitIInv == Init => IInv
<1> SUFFICES ASSUME Init PROVE IInv
  OBVIOUS
<1>1. job \in [Jobs -> JobRow]
  BY ConstantKinds, NewRowKind DEF Init
<1>2. /\ submission \in [Submissions -> SubmissionRow]
      /\ \A s \in Submissions : submission[s].approved = None
  BY ConstantKinds, ConstantsAssumption DEF Init, SubmissionRow, NoSubmission
<1>3. RowKinds
  BY <1>1, <1>2, ConstantKinds DEF Init, RowKinds
<1>4. CallsWellFormed /\ CallsLogged
  BY DEF Init, CallsWellFormed, WellFormed, CallsLogged, Logged, Idle
<1>5. RowsLogged
  <2>1. \A j \in SeedJobs : job[j].status # "NONE"
    <3>1. \A j \in SeedJobs : j \in Jobs /\ job[j] # NoJob
      BY ConstantsAssumption DEF Init
    <3>2. QED
      BY <3>1, NewRowKind DEF Init, JobStatus
  <2>2. QED
    BY <2>1 DEF Init, RowsLogged
<1>6. NoticesTruthful /\ OriginsSound
  BY <1>2 DEF Init, NoticesTruthful, OriginsSound
<1>7. QED
  BY <1>3, <1>4, <1>5, <1>6 DEF IInv, Init

\* Every step keeps it.
LEMMA StepIInv == IInv /\ [Next]_vars => IInv'
<1> SUFFICES ASSUME IInv, [Next]_vars PROVE IInv'
  OBVIOUS
<1>1. CASE UNCHANGED vars
  <2>1. /\ RowKinds' /\ NoticesTruthful' /\ OriginsSound' /\ RowsLogged'
        /\ overlap' \in BOOLEAN
    BY <1>1 DEF IInv, vars, RowKinds, NoticesTruthful, OriginsSound, RowsLogged
  <2>2. CallsWellFormed' /\ CallsLogged'
    BY <1>1 DEF IInv, vars, CallsWellFormed, WellFormed, CallsLogged, Logged
  <2>3. QED
    BY <2>1, <2>2 DEF IInv
<1>2. CASE Next
  <2>1. PICK r \in Requests : Step(r)
    BY <1>2 DEF Next
  <2>2. overlap' \in BOOLEAN
    BY <1>2 DEF Next, IInv
  <2>3. QED
    BY <2>1, <2>2, TypePreserved, WellFormedPreserved, RowsLoggedPreserved, LoggedPreserved,
       TruthPreserved, OwnPreserved DEF IInv
<1>3. QED
  BY <1>1, <1>2

\* The inductive invariant: calls hold ids of existing rows, the log agrees with
\* the rows, and what a call still has to send is logged.
THEOREM Invariance == Spec => []IInv
  BY InitIInv, StepIInv, PTL DEF Spec

\* Rows, notifications and local variables always have their kinds.
THEOREM TypeCorrect == Spec => []TypeOK
<1>1. IInv => TypeOK
  BY DEF IInv, TypeOK
<1>2. QED
  BY <1>1, Invariance, PTL

\* However many calls overlap and wherever they are lost, no bookmarker or tag
\* subscriber is told of something that was not committed.
THEOREM Truthful == Spec => []NoticesTruthful
<1>1. IInv => NoticesTruthful
  BY DEF IInv
<1>2. QED
  BY <1>1, Invariance, PTL

\* Of the steps, only approving a new posting creates a job from a submission.
LEMMA StepCancelled ==
  ASSUME IInv, [Next]_vars, NEW j \in Jobs, origin'[j] # origin[j]
  PROVE  /\ submission[origin'[j]].status \notin {"NONE", "DELETED"}
         /\ submission'[origin'[j]].status = "APPROVED"
         /\ submission'[origin'[j]].approved = j
<1>0. /\ origin \in [Jobs -> Submissions \union {None}]
      /\ submission \in [Submissions -> SubmissionRow]
  BY DEF IInv, RowKinds
<1>1. PICK r \in Requests : ApproveCreateCommit(r)
  <2>1. PICK r \in Requests : Step(r)
    BY DEF vars, Next
  <2>2. QED
    BY <2>1 DEF Step, CompanyStep, AdminStep, NoticeStep, CreateJobSubmission,
       EditFindJob, EditCheckPending, EditCreate, UpdateSubmissionFind,
       UpdateSubmissionWrite, CancelFind, CancelDelete, CloseMyJobFind,
       CloseMyJobWrite, CreateJob, UpdateJobRead, UpdateJobWrite,
       UpdateJobStatusRead, UpdateJobStatusWrite, RefreshJobCheckedAt, ApproveFind, ApproveFindTarget,
       ApproveRollback, ApproveUpdateCommit, RejectFind, RejectWrite, NotifyStatus,
       NotifyTagRead, NotifyTagInsert, NotifySoonRead, NotifySoonInsert, Lose
<1>2. PICK i \in Jobs :
        /\ submission' = [submission EXCEPT ![call[r].sub].status = "APPROVED",
                                            ![call[r].sub].approved = i]
        /\ origin' = [origin EXCEPT ![i] = call[r].sub]
  BY <1>1 DEF ApproveCreateCommit
<1>3. /\ call[r].sub \in Submissions
      /\ submission[call[r].sub].status \notin {"NONE", "DELETED"}
  BY <1>1 DEF IInv, CallsWellFormed, WellFormed, ApproveCreateCommit, At, Gone
<1>4. i = j /\ origin'[j] = call[r].sub
  BY <1>0, <1>2
<1>5. QED
  BY <1>0, <1>2, <1>3, <1>4 DEF SubmissionRow

\* A submission cancelled before its approval commits is never published, and
\* publishing it marks it APPROVED in the same transaction.
THEOREM NeverPublishedCancelled == Spec => CancelledIsNeverPublished
<1>1. IInv /\ [Next]_vars =>
        [\A j \in Jobs :
           origin'[j] # origin[j] =>
             /\ submission[origin'[j]].status \notin {"NONE", "DELETED"}
             /\ submission'[origin'[j]].status = "APPROVED"
             /\ submission'[origin'[j]].approved = j]_vars
  BY StepCancelled
<1>2. QED
  BY <1>1, Invariance, PTL DEF Spec, CancelledIsNeverPublished

\* Only updateJob and updateJobStatus turn a closed or draft job open.
LEMMA StepReopens ==
  ASSUME IInv, [Next]_vars, NEW j \in Jobs, job[j].status \in {"CLOSED", "DRAFT"},
         job'[j].status = "OPEN"
  PROVE  \E r \in Requests : /\ call[r].pc \in {"updateJob", "updateJobStatus"}
                             /\ call[r].cur.status = "OPEN" /\ call'[r] # call[r]
<1>1. PICK r \in Requests : Step(r)
  BY DEF vars, Next
<1>0. /\ RowKinds /\ CallsWellFormed /\ WellFormed(call[r]) /\ call[r] \in Call
      /\ job \in [Jobs -> JobRow] /\ call \in [Requests -> Call]
      /\ call[r].cur \in JobRow /\ job[j] \in JobRow
  BY DEF IInv, CallsWellFormed, RowKinds, Call
<1>2. CASE UpdateJobWrite(r)
  <2>1. PICK now \in Times :
          LET i   == call[r].job
              row == Updated(call[r].cur, job[i], now)
          IN  /\ job' = [job EXCEPT ![i] = row]
              /\ call'[r] = Announcing(i, row, Emissions(call[r].prev, row))
    BY <1>0, <1>2 DEF UpdateJobWrite, WriteJob, Announce, Becomes
  <2> DEFINE i   == call[r].job
             row == Updated(call[r].cur, job[i], now)
  <2>2. /\ call[r].pc = "updateJob" /\ i \in Jobs /\ job[i] \in JobRow
        /\ job' = [job EXCEPT ![i] = row]
        /\ call'[r] = Announcing(i, row, Emissions(call[r].prev, row))
    BY <1>0, <1>2, <2>1 DEF UpdateJobWrite, At, WellFormed
  <2>3. row.status = call[r].cur.status
    BY <1>0, <2>2, UpdatedKind
  <2>4. call'[r].pc # "updateJob"
    BY <2>2, AnnouncingIs DEF Done, Idle
  <2> HIDE DEF i, row
  <2>5. QED
    BY <1>0, <2>2, <2>3, <2>4
<1>3. CASE UpdateJobStatusWrite(r)
  <2>1. PICK now \in Times :
          LET i   == call[r].job
              row == Updated([job[i] EXCEPT !.status = call[r].cur.status], job[i], now)
          IN  /\ job' = [job EXCEPT ![i] = row]
              /\ call'[r] = Announcing(i, row, Emissions(call[r].prev, row))
    BY <1>0, <1>3 DEF UpdateJobStatusWrite, WriteJob, Announce, Becomes
  <2> DEFINE i   == call[r].job
             row == Updated([job[i] EXCEPT !.status = call[r].cur.status], job[i], now)
  <2>2. /\ call[r].pc = "updateJobStatus" /\ i \in Jobs /\ job[i] \in JobRow
        /\ call[r].cur.status \in JobStatus
        /\ job' = [job EXCEPT ![i] = row]
        /\ call'[r] = Announcing(i, row, Emissions(call[r].prev, row))
    BY <1>0, <1>3, <2>1 DEF UpdateJobStatusWrite, At, WellFormed
  <2>3. row.status = call[r].cur.status
    BY <2>2, StatusUpdated
  <2>4. call'[r].pc # "updateJobStatus"
    BY <2>2, AnnouncingIs DEF Done, Idle
  <2> HIDE DEF i, row
  <2>5. QED
    BY <1>0, <2>2, <2>3, <2>4
<1>4. CASE ApproveUpdateCommit(r)
  <2>1. PICK now \in Times :
          job' = [job EXCEPT ![call[r].job] =
                    Updated(EditedTarget(r), job[call[r].job], now)]
    BY <1>4 DEF ApproveUpdateCommit, WriteJob
  <2>2. /\ call[r].job \in Jobs /\ call[r].data \in Payloads \union {None}
        /\ job[call[r].job] \in JobRow
    BY <1>0, <1>4 DEF ApproveUpdateCommit, At, WellFormed, Call
  <2>3. /\ EditedTarget(r) \in JobRow
        /\ EditedTarget(r).status = job[call[r].job].status
    BY <2>2, DataKind DEF EditedTarget
  <2>4. Updated(EditedTarget(r), job[call[r].job], now).status = job[call[r].job].status
    BY <2>2, <2>3, UpdatedKind
  <2>5. QED
    BY <1>0, <2>1, <2>2, <2>4
<1>5. CASE CloseMyJobWrite(r)
  <2>1. PICK now \in Times :
          job' = [job EXCEPT ![call[r].job] =
                    Updated([job[call[r].job] EXCEPT !.status = "CLOSED"],
                            job[call[r].job], now)]
    BY <1>5 DEF CloseMyJobWrite, WriteJob
  <2>2. call[r].job \in Jobs /\ job[call[r].job] \in JobRow /\ "CLOSED" \in JobStatus
    BY <1>0, <1>5 DEF CloseMyJobWrite, At, WellFormed, JobStatus
  <2>3. Updated([job[call[r].job] EXCEPT !.status = "CLOSED"], job[call[r].job], now).status
          = "CLOSED"
    BY <2>2, StatusUpdated
  <2>4. QED
    BY <1>0, <2>1, <2>2, <2>3
<1>12. CASE RefreshJobCheckedAt(r)
  <2>1. PICK i \in Jobs, now \in Times :
          job' = [job EXCEPT ![i] = Updated(job[i], job[i], now)]
    BY <1>12 DEF RefreshJobCheckedAt, WriteJob
  <2>2. Updated(job[i], job[i], now).status = job[i].status
    BY <1>0, UpdatedKind
  <2>3. QED
    BY <1>0, <2>1, <2>2
<1>6. CASE CreateJob(r)
  BY <1>0, <1>6 DEF CreateJob, FreshJob
<1>7. CASE ApproveCreateCommit(r)
  BY <1>0, <1>7 DEF ApproveCreateCommit, FreshJob
<1>8. CASE job' = job
  BY <1>8
<1>9. CASE CompanyStep(r)
  BY <1>5, <1>8, <1>9 DEF CompanyStep, CreateJobSubmission, EditFindJob,
     EditCheckPending, EditCreate, UpdateSubmissionFind, UpdateSubmissionWrite,
     CancelFind, CancelDelete, CloseMyJobFind, db
<1>10. CASE AdminStep(r)
  BY <1>2, <1>3, <1>4, <1>6, <1>7, <1>8, <1>10, <1>12 DEF AdminStep, UpdateJobRead,
     UpdateJobStatusRead, ApproveFind, ApproveFindTarget, ApproveRollback,
     RejectFind, RejectWrite, db
<1>11. QED
  BY <1>1, <1>8, <1>9, <1>10, NoticeEffect DEF Step

\* Approving an edit whose target was closed meanwhile, or any call of a
\* company, never reopens a job.
THEOREM ReopenedByAdmin == Spec => OnlyAdminReopens
<1>1. IInv /\ [Next]_vars =>
        [\A j \in Jobs :
           job[j].status \in {"CLOSED", "DRAFT"} /\ job'[j].status = "OPEN" =>
             \E r \in Requests :
               /\ call[r].pc \in {"updateJob", "updateJobStatus"}
               /\ call[r].cur.status = "OPEN" /\ call'[r] # call[r]]_vars
  BY StepReopens
<1>2. QED
  BY <1>1, Invariance, PTL DEF Spec, OnlyAdminReopens

-----------------------------------------------------------------------------
(* A call that is alone                                                    *)

\* The statements whose call relies on what it read about a submission.
Relying == {"approve", "approveUpdate", "reject", "updateSubmission", "cancel",
            "createEdit"}

\* Apart from the three handlers of a single statement, a call is in flight before
\* or after each of its steps.
LEMMA Busy ==
  ASSUME RowKinds, NEW r \in Requests, Step(r),
         ~CreateJobSubmission(r), ~CreateJob(r), ~RefreshJobCheckedAt(r)
  PROVE  r \in InFlight \/ r \in InFlight'
<1>1. CASE EditFindJob(r)
  BY <1>1 DEF EditFindJob, Becomes, RowKinds, InFlight, Idle
<1>2. CASE UpdateSubmissionFind(r)
  BY <1>2 DEF UpdateSubmissionFind, Becomes, RowKinds, InFlight, Idle
<1>3. CASE CancelFind(r)
  BY <1>3 DEF CancelFind, Becomes, RowKinds, InFlight, Idle
<1>4. CASE CloseMyJobFind(r)
  BY <1>4 DEF CloseMyJobFind, Becomes, RowKinds, InFlight, Idle
<1>5. CASE UpdateJobRead(r)
  BY <1>5 DEF UpdateJobRead, Becomes, RowKinds, InFlight, Idle
<1>6. CASE UpdateJobStatusRead(r)
  BY <1>6 DEF UpdateJobStatusRead, Becomes, RowKinds, InFlight, Idle
<1>7. CASE ApproveFind(r)
  BY <1>7 DEF ApproveFind, Becomes, RowKinds, InFlight, Idle
<1>8. CASE RejectFind(r)
  BY <1>8 DEF RejectFind, Becomes, RowKinds, InFlight, Idle
<1>9. CASE EditCheckPending(r) \/ EditCreate(r) \/ UpdateSubmissionWrite(r)
           \/ CancelDelete(r) \/ CloseMyJobWrite(r)
  BY <1>9 DEF EditCheckPending, EditCreate, UpdateSubmissionWrite, CancelDelete,
     CloseMyJobWrite, At, InFlight
<1>10. CASE UpdateJobWrite(r) \/ UpdateJobStatusWrite(r) \/ ApproveFindTarget(r)
            \/ ApproveRollback(r) \/ ApproveUpdateCommit(r) \/ ApproveCreateCommit(r)
            \/ RejectWrite(r)
  BY <1>10 DEF UpdateJobWrite, UpdateJobStatusWrite, RefreshJobCheckedAt, ApproveFindTarget,
     ApproveRollback, ApproveUpdateCommit, ApproveCreateCommit, RejectWrite, At, InFlight
<1>11. CASE NoticeStep(r) \/ Lose(r)
  BY <1>11 DEF NoticeStep, NotifyStatus, NotifyTagRead, NotifyTagInsert,
     NotifySoonRead, NotifySoonInsert, Lose, At, InFlight
<1>12. QED
  BY <1>1, <1>2, <1>3, <1>4, <1>5, <1>6, <1>7, <1>8, <1>9, <1>10, <1>11
     DEF Step, CompanyStep, AdminStep

\* The handlers of a single statement only add a row, or touch one: what other calls
\* read of submissions and open jobs still stands.
LEMMA InsertKeeps ==
  ASSUME RowKinds, NEW r \in Requests,
         CreateJobSubmission(r) \/ CreateJob(r) \/ RefreshJobCheckedAt(r),
         NEW c \in Call, WellFormed(c), Alone(c)
  PROVE  Alone(c)'
<1>0. submission \in [Submissions -> SubmissionRow] /\ job \in [Jobs -> JobRow]
  BY DEF RowKinds
<1>1. CASE CreateJobSubmission(r)
  <2>1. PICK s \in Submissions, k \in Companies, p \in Payloads :
          /\ submission[s].status = "NONE"
          /\ submission' = [submission EXCEPT ![s] =
               [NoSubmission EXCEPT !.status = "PENDING", !.company = k, !.data = p]]
    BY <1>1 DEF CreateJobSubmission
  <2>2. /\ job' = job /\ submission'[s].target = None
        /\ \A t \in Submissions \ {s} : submission'[t] = submission[t]
    BY <1>0, <1>1, <2>1 DEF CreateJobSubmission, NoSubmission
  <2>3. c.pc = "createEdit" => NoPendingEdit(c.job)'
    BY <2>2, ConstantsAssumption DEF Alone, NoPendingEdit, AssertPending, WellFormed
  <2>4. c.pc \in Relying \ {"createEdit"} => c.sub \in Submissions \ {s}
    BY <2>1 DEF WellFormed, Relying
  <2>5. QED
    BY <2>2, <2>3, <2>4 DEF Alone, AssertPending, OpenJobOf, Relying
<1>2. CASE CreateJob(r)
  <2>1. PICK j \in Jobs : /\ job[j].status = "NONE" /\ submission' = submission
                          /\ \A i \in Jobs \ {j} : job'[i] = job[i]
    BY <1>0, <1>2 DEF CreateJob, FreshJob
  <2>2. c.pc = "approveUpdate" => OpenJobOf(c.job, c.company)'
    BY <2>1 DEF Alone, OpenJobOf, WellFormed
  <2>3. QED
    BY <2>1, <2>2 DEF Alone, AssertPending, NoPendingEdit
<1>3. CASE RefreshJobCheckedAt(r)
  <2>1. PICK j \in Jobs, now \in Times :
          /\ submission' = submission
          /\ job' = [job EXCEPT ![j] = Updated(job[j], job[j], now)]
    BY <1>3 DEF RefreshJobCheckedAt, WriteJob
  <2>2. /\ Updated(job[j], job[j], now).status = job[j].status
        /\ Updated(job[j], job[j], now).company = job[j].company
    BY <1>0 DEF Updated, JobRow
  <2>3. \A i \in Jobs : job'[i].status = job[i].status /\ job'[i].company = job[i].company
    BY <1>0, <2>1, <2>2
  <2>4. c.pc = "approveUpdate" => OpenJobOf(c.job, c.company)'
    BY <2>3 DEF Alone, OpenJobOf, WellFormed
  <2>5. QED
    BY <2>1, <2>4 DEF Alone, AssertPending, NoPendingEdit
<1>4. QED
  BY <1>1, <1>2, <1>3

\* When a call steps and is alone, every other call stands on what it read.
LEMMA Solo ==
  ASSUME RowKinds, CallsWellFormed, Apart, ~overlap, ~TwoInFlight',
         NEW r \in Requests, Step(r), NEW q \in Requests \ {r}
  PROVE  call'[q] = call[q] /\ Alone(call[q])'
<1>1. call'[q] = call[q]
  BY StepKeeps DEF Kept
<1>2. Alone(call[q]) /\ WellFormed(call[q]) /\ call[q] \in Call /\ ~TwoInFlight
  BY DEF Apart, CallsWellFormed, RowKinds
<1>3. CASE CreateJobSubmission(r) \/ CreateJob(r) \/ RefreshJobCheckedAt(r)
  <2>1. PICK c \in Call : c = call[q]
    BY <1>2
  <2>2. Alone(c)'
    BY <1>2, <1>3, <2>1, InsertKeeps
  <2>3. QED
    BY <1>1, <2>1, <2>2 DEF Alone
<1>4. CASE ~CreateJobSubmission(r) /\ ~CreateJob(r) /\ ~RefreshJobCheckedAt(r)
  <2>1. q \notin InFlight
    BY <1>1, <1>2, <1>4, Busy DEF TwoInFlight, InFlight
  <2>2. call[q].pc \notin Relying
    BY <2>1 DEF InFlight, Relying
  <2>3. QED
    BY <1>1, <2>2 DEF Alone, Relying
<1>5. QED
  BY <1>3, <1>4

-----------------------------------------------------------------------------
(* The call that steps                                                     *)

\* A call that relies on nothing, wherever the step leads it.
LEMMA Unreliant ==
  ASSUME RowKinds, NEW r \in Requests, Step(r), ~EditCheckPending(r),
         ~UpdateSubmissionFind(r), ~CancelFind(r), ~ApproveFind(r),
         ~ApproveFindTarget(r), ~RejectFind(r)
  PROVE  call'[r].pc \notin Relying
<1>0. call[r] \in Call /\ r \in DOMAIN call
  BY DEF RowKinds
<1>1. CASE Returns(r) \/ Lose(r)
  BY <1>0, <1>1 DEF Returns, Lose, Becomes, Done, Lost, Idle, Relying
<1>2. CASE EditFindJob(r)
  BY <1>0, <1>2 DEF EditFindJob, Becomes, Idle, Relying
<1>3. CASE CloseMyJobFind(r)
  BY <1>0, <1>3 DEF CloseMyJobFind, Becomes, Idle, Relying
<1>4. CASE UpdateJobRead(r)
  BY <1>0, <1>4 DEF UpdateJobRead, Becomes, Idle, Relying
<1>5. CASE UpdateJobStatusRead(r)
  <2>1. PICK j \in Jobs, st \in ValidStatus :
          call'[r] = [Idle EXCEPT !.pc = "updateJobStatus", !.job = j,
                                  !.prev = job[j], !.cur.status = st]
    BY <1>0, <1>5 DEF UpdateJobStatusRead, Becomes
  <2>2. call'[r].pc = "updateJobStatus"
    BY <2>1 DEF Idle
  <2>3. QED
    BY <2>2 DEF Relying
<1>6. ASSUME NEW j, NEW row, NEW todo, Announce(r, j, row, todo)
      PROVE  call'[r].pc \notin Relying
  <2>1. call'[r] = Announcing(j, row, todo)
    BY <1>0, <1>6 DEF Announce, Becomes
  <2>2. QED
    BY <2>1, AnnouncingIs DEF Done, Idle, Relying
<1>7. ASSUME NEW n, Sent(r, n)
      PROVE  call'[r].pc \notin Relying
  <2>1. call'[r] = Without(call[r], n)
    BY <1>0, <1>7 DEF Sent, Becomes
  <2>2. QED
    BY <1>0, <2>1, WithoutIs DEF Done, Idle, Relying
<1>8. CASE NotifyTagRead(r) /\ ~Sent(r, "tag")
  BY <1>0, <1>8 DEF NotifyTagRead, Becomes, Call, Relying
<1>9. CASE NotifySoonRead(r) /\ ~Sent(r, "soon")
  BY <1>0, <1>9 DEF NotifySoonRead, Becomes, Call, Relying
<1>10. CASE CompanyStep(r)
  BY <1>1, <1>2, <1>3, <1>6, <1>10 DEF CompanyStep, CreateJobSubmission, EditCreate,
     UpdateSubmissionWrite, CancelDelete, CloseMyJobWrite
<1>11. CASE AdminStep(r)
  BY <1>1, <1>4, <1>5, <1>6, <1>11 DEF AdminStep, CreateJob, UpdateJobWrite,
     UpdateJobStatusWrite, RefreshJobCheckedAt, ApproveRollback, ApproveUpdateCommit, ApproveCreateCommit,
     RejectWrite
<1>12. CASE NoticeStep(r)
  BY <1>7, <1>8, <1>9, <1>12 DEF NoticeStep, NotifyStatus, NotifyTagRead,
     NotifyTagInsert, NotifySoonRead, NotifySoonInsert
<1>13. QED
  BY <1>1, <1>10, <1>11, <1>12 DEF Step

\* A call that has just read stands on what it read.
LEMMA OwnAlone ==
  ASSUME RowKinds, NEW r \in Requests, Step(r), Alone(call[r])
  PROVE  Alone(call[r])'
<1>0. call[r] \in Call /\ r \in DOMAIN call
  BY DEF RowKinds
<1>1. CASE EditCheckPending(r)
  <2>1. \/ call'[r] = Done
        \/ /\ call'[r] = [call[r] EXCEPT !.pc = "createEdit"]
           /\ NoPendingEdit(call[r].job) /\ submission' = submission
    BY <1>0, <1>1 DEF EditCheckPending, Returns, Becomes, db
  <2>2. QED
    BY <1>0, <2>1 DEF Alone, Done, Idle, Call, NoPendingEdit, AssertPending
<1>2. CASE UpdateSubmissionFind(r)
  <2>1. PICK s \in Submissions, p \in Payloads :
          /\ AssertPending(s) /\ submission' = submission
          /\ call'[r] = [Idle EXCEPT !.pc = "updateSubmission", !.sub = s, !.data = p]
    BY <1>0, <1>2 DEF UpdateSubmissionFind, FindOwnPending, AssertPending, Becomes, db
  <2>2. QED
    BY <2>1 DEF Alone, Idle, AssertPending
<1>3. CASE CancelFind(r)
  <2>1. PICK s \in Submissions :
          /\ AssertPending(s) /\ submission' = submission
          /\ call'[r] = [Idle EXCEPT !.pc = "cancel", !.sub = s]
    BY <1>0, <1>3 DEF CancelFind, FindOwnPending, AssertPending, Becomes, db
  <2>2. QED
    BY <2>1 DEF Alone, Idle, AssertPending
<1>4. CASE ApproveFind(r)
  <2>1. PICK s \in Submissions :
          /\ AssertPending(s) /\ submission' = submission
          /\ call'[r] = [Idle EXCEPT !.pc = "approve", !.sub = s,
               !.job = submission[s].target, !.company = submission[s].company,
               !.data = submission[s].data]
    BY <1>0, <1>4 DEF ApproveFind, Becomes, db
  <2>2. QED
    BY <2>1 DEF Alone, Idle, AssertPending
<1>5. CASE ApproveFindTarget(r)
  <2>1. \/ call'[r] = Done
        \/ /\ call'[r] = [call[r] EXCEPT !.pc = "approveUpdate",
                                         !.prev = job[call[r].job]]
           /\ call[r].pc = "approve" /\ OpenJobOf(call[r].job, call[r].company)
           /\ submission' = submission /\ job' = job
    BY <1>0, <1>5 DEF ApproveFindTarget, Returns, Becomes, At, db
  <2>2. QED
    BY <1>0, <2>1 DEF Alone, Done, Idle, Call, OpenJobOf, AssertPending
<1>6. CASE RejectFind(r)
  <2>1. PICK s \in Submissions :
          /\ AssertPending(s) /\ submission' = submission
          /\ call'[r] = [Idle EXCEPT !.pc = "reject", !.sub = s]
    BY <1>0, <1>6 DEF RejectFind, Becomes, db
  <2>2. QED
    BY <2>1 DEF Alone, Idle, AssertPending
<1>7. CASE call'[r].pc \notin Relying
  BY <1>7 DEF Alone, Relying
<1>8. QED
  BY <1>1, <1>2, <1>3, <1>4, <1>5, <1>6, <1>7, Unreliant

\* Hence a lone call stands on what it read, and so do all others.
LEMMA ApartPreserved ==
  ASSUME RowKinds, CallsWellFormed, Apart, ~overlap, ~TwoInFlight',
         NEW r \in Requests, Step(r)
  PROVE  Apart'
<1>1. Alone(call[r])'
  BY OwnAlone DEF Apart
<1>2. \A q \in Requests : Alone(call[q])'
  BY <1>1, Solo
<1>3. QED
  BY <1>2 DEF Apart

-----------------------------------------------------------------------------
(* What a lone call does to the submissions                                *)

\* The promises a step has to keep.
Keeps == /\ OnePendingEditApart' /\ UnusedIsBlank'
         /\ DecisionsStand /\ EditsMeetOpenJobs /\ [Review!Next]_(Review!vars)

\* A step that leaves submissions and published jobs alone.
LEMMA NoChange ==
  ASSUME OnePendingEditApart, UnusedIsBlank, ~overlap, UNCHANGED <<submission, origin>>
  PROVE  Keeps
<1>1. OnePendingEditApart' /\ UnusedIsBlank'
  BY DEF OnePendingEditApart, UnusedIsBlank, AssertPending
<1>2. DecisionsStand /\ EditsMeetOpenJobs
  BY DEF DecisionsStand, EditsMeetOpenJobs
<1>3. UNCHANGED Review!vars
  BY DEF Review!vars
<1>4. QED
  BY <1>1, <1>2, <1>3 DEF Keeps

\* A step that writes one undecided submission: what the promises see of it.
LEMMA RowWritten ==
  ASSUME RowKinds, OnePendingEditApart, UnusedIsBlank, ~overlap,
         NEW s \in Submissions, NEW row \in SubmissionRow,
         submission' = [submission EXCEPT ![s] = row], row.status # "NONE",
         submission[s].status \notin {"APPROVED", "REJECTED"},
         row.status = "PENDING" /\ row.target # None =>
           \/ NoPendingEdit(row.target)
           \/ AssertPending(s) /\ row.target = submission[s].target
  PROVE  /\ OnePendingEditApart' /\ UnusedIsBlank' /\ DecisionsStand
         /\ \A t \in Submissions \ {s} : submission'[t] = submission[t]
         /\ submission'[s] = row
         /\ [t \in Submissions |-> Outcome(submission'[t])] =
              [[t \in Submissions |-> Outcome(submission[t])] EXCEPT ![s] = Outcome(row)]
         /\ {t \in Submissions : submission'[t].target # None} =
              IF row.target # None
              THEN {t \in Submissions : submission[t].target # None} \union {s}
              ELSE {t \in Submissions : submission[t].target # None} \ {s}
<1>1. /\ submission'[s] = row
      /\ \A t \in Submissions \ {s} : submission'[t] = submission[t]
  BY DEF RowKinds
<1>2. OnePendingEditApart'
  BY <1>1 DEF OnePendingEditApart, AssertPending, NoPendingEdit
<1>3. UnusedIsBlank' /\ DecisionsStand
  BY <1>1 DEF UnusedIsBlank, DecisionsStand
<1>4. \A t \in Submissions : Outcome(submission'[t]) =
        IF t = s THEN Outcome(row) ELSE Outcome(submission[t])
  BY <1>1
<1>5. QED
  BY <1>1, <1>2, <1>3, <1>4

\* A submission is made.
LEMMA Submitted ==
  ASSUME RowKinds, OnePendingEditApart, UnusedIsBlank, ~overlap, origin' = origin,
         NEW s \in Submissions, NEW row \in SubmissionRow,
         submission[s].status = "NONE", row.status = "PENDING",
         submission' = [submission EXCEPT ![s] = row],
         row.target # None => NoPendingEdit(row.target)
  PROVE  Keeps
<1>1. EditsMeetOpenJobs
  BY RowWritten DEF EditsMeetOpenJobs
<1>2. Review!Submit(s)
  <2>1. s \notin {t \in Submissions : submission[t].target # None}
    BY DEF UnusedIsBlank
  <2>2. Outcome(submission[s]) = "absent" /\ Outcome(row) = "waiting"
    BY DEF Outcome
  <2>3. {t \in Submissions : submission'[t].target # None} \in
          {{t \in Submissions : submission[t].target # None},
           {t \in Submissions : submission[t].target # None} \union {s}}
    BY <2>1, RowWritten
  <2>4. [t \in Submissions |-> Outcome(submission'[t])] =
          [[t \in Submissions |-> Outcome(submission[t])] EXCEPT ![s] = "waiting"]
    BY <2>2, RowWritten
  <2>5. QED
    BY <2>2, <2>3, <2>4 DEF Review!Submit, Review!Decide
<1>3. Review!Next
  BY <1>2 DEF Review!Next
<1>4. QED
  BY <1>1, <1>3, RowWritten DEF Keeps

\* A waiting submission gets other fields.
LEMMA Rewritten ==
  ASSUME RowKinds, OnePendingEditApart, UnusedIsBlank, ~overlap, origin' = origin,
         NEW s \in Submissions, NEW row \in SubmissionRow,
         AssertPending(s), row.status = "PENDING", row.target = submission[s].target,
         submission' = [submission EXCEPT ![s] = row]
  PROVE  Keeps
<1>1. EditsMeetOpenJobs
  BY RowWritten DEF EditsMeetOpenJobs, AssertPending
<1>2. Outcome(row) = Outcome(submission[s])
  BY DEF Outcome, AssertPending
<1>3. \A t \in Submissions : /\ Outcome(submission'[t]) = Outcome(submission[t])
                             /\ submission'[t].target = submission[t].target
  BY <1>2, RowWritten DEF AssertPending
<1>4. UNCHANGED Review!vars
  BY <1>3 DEF Review!vars
<1>5. QED
  BY <1>1, <1>4, RowWritten DEF Keeps, AssertPending

\* A waiting submission is withdrawn.
LEMMA Withdrawn ==
  ASSUME RowKinds, OnePendingEditApart, UnusedIsBlank, ~overlap, origin' = origin,
         NEW s \in Submissions, NEW row \in SubmissionRow,
         AssertPending(s), row.status = "DELETED", row.target = None,
         submission' = [submission EXCEPT ![s] = row]
  PROVE  Keeps
<1>1. EditsMeetOpenJobs
  BY RowWritten DEF EditsMeetOpenJobs, AssertPending
<1>2. Review!Withdraw(s)
  <2>1. Outcome(submission[s]) = "waiting" /\ Outcome(row) = "withdrawn"
    BY DEF Outcome, AssertPending
  <2>2. {t \in Submissions : submission'[t].target # None} =
          {t \in Submissions : submission[t].target # None} \ {s}
    BY RowWritten DEF AssertPending
  <2>3. [t \in Submissions |-> Outcome(submission'[t])] =
          [[t \in Submissions |-> Outcome(submission[t])] EXCEPT ![s] = "withdrawn"]
    BY <2>1, RowWritten DEF AssertPending
  <2>4. QED
    BY <2>1, <2>2, <2>3 DEF Review!Withdraw, Review!Decide
<1>3. Review!Next
  BY <1>2 DEF Review!Next
<1>4. QED
  BY <1>1, <1>3, RowWritten DEF Keeps, AssertPending

\* A waiting submission is rejected, or a waiting edit of an open job approved.
LEMMA Decided ==
  ASSUME RowKinds, OnePendingEditApart, UnusedIsBlank, ~overlap, origin' = origin,
         NEW s \in Submissions, NEW row \in SubmissionRow, AssertPending(s),
         row.target = submission[s].target,
         \/ row.status = "REJECTED"
         \/ /\ row.status = "APPROVED" /\ submission[s].target # None
            /\ OpenJobOf(submission[s].target, submission[s].company),
         submission' = [submission EXCEPT ![s] = row]
  PROVE  Keeps
<1>1. EditsMeetOpenJobs
  BY RowWritten DEF EditsMeetOpenJobs, AssertPending, OpenJobOf
<1>2. Review!Reject(s) \/ Review!ApproveEdit(s)
  <2>1. /\ Outcome(submission[s]) = "waiting"
        /\ Outcome(row) = IF row.status = "REJECTED" THEN "rejected" ELSE "approved"
    BY DEF Outcome, AssertPending
  <2>2. \A t \in Submissions : submission'[t].target = submission[t].target
    BY RowWritten DEF AssertPending
  <2>3. {t \in Submissions : submission'[t].target # None} =
          {t \in Submissions : submission[t].target # None}
    BY <2>2
  <2>4. [t \in Submissions |-> Outcome(submission'[t])] =
          [[t \in Submissions |-> Outcome(submission[t])] EXCEPT ![s] = Outcome(row)]
    BY <2>1, RowWritten DEF AssertPending
  <2>5. QED
    BY <2>1, <2>3, <2>4 DEF Review!Reject, Review!ApproveEdit, Review!Decide
<1>3. Review!Next
  BY <1>2 DEF Review!Next
<1>4. QED
  BY <1>1, <1>3, RowWritten DEF Keeps, AssertPending

\* A waiting new posting is approved as job j.
LEMMA Published ==
  ASSUME RowKinds, OnePendingEditApart, UnusedIsBlank, ~overlap,
         NEW s \in Submissions, NEW row \in SubmissionRow, NEW j \in Jobs,
         AssertPending(s), submission[s].target = None, row.target = None,
         row.status = "APPROVED", submission' = [submission EXCEPT ![s] = row],
         origin[j] = None, origin' = [origin EXCEPT ![j] = s]
  PROVE  Keeps
<1>1. EditsMeetOpenJobs
  BY RowWritten DEF EditsMeetOpenJobs, AssertPending
<1>2. Review!ApproveNew(s)
  <2>1. Outcome(submission[s]) = "waiting" /\ Outcome(row) = "approved"
    BY DEF Outcome, AssertPending
  <2>2. \A t \in Submissions : submission'[t].target = submission[t].target
    BY RowWritten DEF AssertPending
  <2>3. {t \in Submissions : submission'[t].target # None} =
          {t \in Submissions : submission[t].target # None}
    BY <2>2
  <2>4. [t \in Submissions |-> Outcome(submission'[t])] =
          [[t \in Submissions |-> Outcome(submission[t])] EXCEPT ![s] = "approved"]
    BY <2>1, RowWritten DEF AssertPending
  <2> DEFINE pub == {<<origin[i], i>> : i \in {k \in Jobs : origin[k] # None}}
  <2>5. \A p \in pub : p[2] # j
    OBVIOUS
  <2>6. {<<origin'[i], i>> : i \in {k \in Jobs : origin'[k] # None}}
          = pub \union {<<s, j>>}
    <3>1. origin'[j] = s /\ s # None /\ \A i \in Jobs \ {j} : origin'[i] = origin[i]
      BY ConstantsAssumption DEF RowKinds
    <3>2. QED
      BY <3>1
  <2>7. s \notin {t \in Submissions : submission[t].target # None}
    OBVIOUS
  <2>8. QED
    BY <2>1, <2>3, <2>4, <2>5, <2>6, <2>7 DEF Review!ApproveNew, Review!Decide
<1>3. Review!Next
  BY <1>2 DEF Review!Next
<1>4. QED
  BY <1>1, <1>3, RowWritten DEF Keeps, AssertPending

\* Whatever a lone call does, the promises are kept.
LEMMA StepKept ==
  ASSUME RowKinds, CallsWellFormed, OriginsSound, Apart, OnePendingEditApart,
         UnusedIsBlank, ~overlap, NEW r \in Requests, Step(r)
  PROVE  Keeps
<1> DEFINE s == call[r].sub
<1>0. /\ submission \in [Submissions -> SubmissionRow] /\ call[r] \in Call
      /\ Alone(call[r]) /\ WellFormed(call[r])
  BY DEF RowKinds, Apart, CallsWellFormed
<1>1. CASE CreateJobSubmission(r)
  <2>1. PICK t \in Submissions, c \in Companies, p \in Payloads :
          /\ submission[t].status = "NONE"
          /\ submission' = [submission EXCEPT ![t] =
               [NoSubmission EXCEPT !.status = "PENDING", !.company = c, !.data = p]]
    BY <1>1 DEF CreateJobSubmission
  <2> DEFINE row == [NoSubmission EXCEPT !.status = "PENDING", !.company = c, !.data = p]
  <2>2. row \in SubmissionRow /\ row.status = "PENDING" /\ row.target = None
    BY DEF NoSubmission, SubmissionRow
  <2>3. submission' = [submission EXCEPT ![t] = row] /\ origin' = origin
    BY <1>1, <2>1 DEF CreateJobSubmission
  <2> HIDE DEF row
  <2>4. QED
    BY <2>1, <2>2, <2>3, Submitted
<1>2. CASE EditCreate(r)
  <2> DEFINE row == [NoSubmission EXCEPT !.status = "PENDING",
                       !.company = call[r].company, !.data = call[r].data,
                       !.target = call[r].job]
  <2>1. PICK t \in Submissions :
          submission[t].status = "NONE" /\ submission' = [submission EXCEPT ![t] = row]
    BY <1>2 DEF EditCreate
  <2>2. row \in SubmissionRow /\ row.status = "PENDING" /\ row.target = call[r].job
    BY <1>0 DEF NoSubmission, SubmissionRow, Call
  <2>3. NoPendingEdit(row.target) /\ origin' = origin
    BY <1>0, <1>2, <2>2 DEF EditCreate, At, Alone
  <2> HIDE DEF row
  <2>4. QED
    BY <2>1, <2>2, <2>3, Submitted
<1>3. CASE UpdateSubmissionWrite(r)
  <2> DEFINE row == [submission[s] EXCEPT !.data = call[r].data]
  <2>1. s \in Submissions /\ AssertPending(s) /\ origin' = origin
    BY <1>0, <1>3 DEF UpdateSubmissionWrite, At, Alone, WellFormed
  <2>2. /\ row \in SubmissionRow /\ row.status = "PENDING"
        /\ row.target = submission[s].target
    BY <1>0, <2>1 DEF SubmissionRow, Call, AssertPending
  <2>3. submission' = [submission EXCEPT ![s] = row]
    BY <1>3, <2>1 DEF UpdateSubmissionWrite, Gone, AssertPending
  <2> HIDE DEF row, s
  <2>4. QED
    BY <2>1, <2>2, <2>3, Rewritten
<1>4. CASE CancelDelete(r)
  <2> DEFINE row == [NoSubmission EXCEPT !.status = "DELETED"]
  <2>1. s \in Submissions /\ AssertPending(s) /\ origin' = origin
    BY <1>0, <1>4 DEF CancelDelete, At, Alone, WellFormed
  <2>2. row \in SubmissionRow /\ row.status = "DELETED" /\ row.target = None
    BY DEF NoSubmission, SubmissionRow
  <2>3. submission' = [submission EXCEPT ![s] = row]
    BY <1>4 DEF CancelDelete
  <2> HIDE DEF row, s
  <2>4. QED
    BY <2>1, <2>2, <2>3, Withdrawn
<1>5. CASE RejectWrite(r)
  <2> DEFINE row == [submission[s] EXCEPT !.status = "REJECTED"]
  <2>1. s \in Submissions /\ AssertPending(s) /\ origin' = origin
    BY <1>0, <1>5 DEF RejectWrite, At, Alone, WellFormed
  <2>2. /\ row \in SubmissionRow /\ row.status = "REJECTED"
        /\ row.target = submission[s].target
    BY <1>0, <2>1 DEF SubmissionRow
  <2>3. submission' = [submission EXCEPT ![s] = row]
    BY <1>5, <2>1 DEF RejectWrite, Gone, AssertPending
  <2> HIDE DEF row, s
  <2>4. QED
    BY <2>1, <2>2, <2>3, Decided
<1>6. CASE ApproveUpdateCommit(r)
  <2> DEFINE row == [submission[s] EXCEPT !.status = "APPROVED"]
  <2>1. /\ s \in Submissions /\ AssertPending(s) /\ origin' = origin
        /\ submission[s].target # None
        /\ OpenJobOf(submission[s].target, submission[s].company)
    BY <1>0, <1>6, ConstantsAssumption DEF ApproveUpdateCommit, At, Alone, WellFormed
  <2>2. /\ row \in SubmissionRow /\ row.status = "APPROVED"
        /\ row.target = submission[s].target
    BY <1>0, <2>1 DEF SubmissionRow
  <2>3. submission' = [submission EXCEPT ![s] = row]
    BY <1>6 DEF ApproveUpdateCommit
  <2> HIDE DEF row, s
  <2>4. QED
    BY <2>1, <2>2, <2>3, Decided
<1>7. CASE ApproveCreateCommit(r)
  <2>1. PICK j \in Jobs :
          /\ FreshJob(j) /\ origin' = [origin EXCEPT ![j] = s]
          /\ submission' = [submission EXCEPT ![s].status = "APPROVED", ![s].approved = j]
    BY <1>7 DEF ApproveCreateCommit
  <2> DEFINE row == [submission[s] EXCEPT !.status = "APPROVED", !.approved = j]
  <2>2. s \in Submissions /\ AssertPending(s) /\ submission[s].target = None
    BY <1>0, <1>7 DEF ApproveCreateCommit, At, Alone, WellFormed
  <2>3. row \in SubmissionRow /\ row.status = "APPROVED" /\ row.target = None
    <3>1. submission[s] \in SubmissionRow
      BY <1>0, <2>2
    <3> HIDE DEF s
    <3>2. QED
      BY <2>1, <2>2, <3>1 DEF SubmissionRow
  <2>4. submission' = [submission EXCEPT ![s] = row]
    <3>1. \A t \in Submissions : submission'[t] = IF t = s THEN row ELSE submission[t]
      BY <1>0, <2>1, <2>2 DEF SubmissionRow
    <3>2. QED
      BY <1>0, <2>1, <3>1
  <2>5. origin[j] = None
    BY <2>1 DEF OriginsSound, FreshJob
  <2> HIDE DEF row, s
  <2>6. QED
    BY <2>1, <2>2, <2>3, <2>4, <2>5, Published
<1>8. CASE UNCHANGED <<submission, origin>>
  BY <1>8, NoChange
<1>9. CASE CompanyStep(r)
  BY <1>1, <1>2, <1>3, <1>4, <1>8, <1>9 DEF CompanyStep, EditFindJob,
     EditCheckPending, UpdateSubmissionFind, CancelFind, CloseMyJobFind,
     CloseMyJobWrite, db
<1>10. CASE AdminStep(r)
  BY <1>5, <1>6, <1>7, <1>8, <1>10 DEF AdminStep, CreateJob, UpdateJobRead,
     UpdateJobWrite, UpdateJobStatusRead, UpdateJobStatusWrite, RefreshJobCheckedAt, ApproveFind,
     ApproveFindTarget, ApproveRollback, RejectFind, db
<1>11. CASE NoticeStep(r) \/ Lose(r)
  BY <1>8, <1>11 DEF NoticeStep, NotifyStatus, NotifyTagRead, NotifyTagInsert,
     NotifySoonRead, NotifySoonInsert, Lose, db
<1>12. QED
  BY <1>9, <1>10, <1>11 DEF Step

-----------------------------------------------------------------------------
(* The theorems                                                            *)

\* A step of a behaviour in which no two calls have been in flight at once.
LEMMA NextApart ==
  ASSUME IInv, AInv, [Next]_vars, ~overlap'
  PROVE  Apart' /\ Keeps
<1>1. CASE UNCHANGED vars
  <2>1. Apart'
    BY <1>1 DEF AInv, vars, Apart, Alone, AssertPending, OpenJobOf, NoPendingEdit,
       TwoInFlight, InFlight
  <2>2. QED
    BY <1>1, <2>1, NoChange DEF AInv, vars
<1>2. CASE Next
  <2>1. PICK r \in Requests : Step(r)
    BY <1>2 DEF Next
  <2>2. ~overlap /\ ~TwoInFlight'
    BY <1>2 DEF Next, IInv
  <2>3. QED
    BY <2>1, <2>2, ApartPreserved, StepKept DEF IInv, AInv
<1>3. QED
  BY <1>1, <1>2

\* An id not used yet stays blank, overlap or not.
LEMMA BlankPreserved ==
  ASSUME IInv, UnusedIsBlank, [Next]_vars
  PROVE  UnusedIsBlank'
<1>1. submission \in [Submissions -> SubmissionRow]
  BY DEF IInv, RowKinds
<1>2. CASE submission' = submission
  BY <1>2 DEF UnusedIsBlank
<1>3. ASSUME NEW r \in Requests, Step(r) PROVE UnusedIsBlank'
  <2>1. CASE CompanyStep(r)
    <3>1. CASE CreateJobSubmission(r)
      BY <1>1, <3>1 DEF CreateJobSubmission, NoSubmission, UnusedIsBlank
    <3>2. CASE EditCreate(r)
      BY <1>1, <3>2 DEF EditCreate, NoSubmission, UnusedIsBlank
    <3>3. CASE UpdateSubmissionWrite(r)
      BY <1>1, <3>3 DEF UpdateSubmissionWrite, UnusedIsBlank, SubmissionRow
    <3>4. CASE CancelDelete(r)
      BY <1>1, <3>4 DEF CancelDelete, NoSubmission, UnusedIsBlank
    <3>5. QED
      BY <1>2, <2>1, <3>1, <3>2, <3>3, <3>4 DEF CompanyStep, EditFindJob,
         EditCheckPending, UpdateSubmissionFind, CancelFind, CloseMyJobFind,
         CloseMyJobWrite, db
  <2>2. CASE AdminStep(r)
    <3>1. CASE ApproveUpdateCommit(r)
      BY <1>1, <3>1 DEF ApproveUpdateCommit, UnusedIsBlank, SubmissionRow
    <3>2. CASE ApproveCreateCommit(r)
      BY <1>1, <3>2 DEF ApproveCreateCommit, UnusedIsBlank, SubmissionRow
    <3>3. CASE RejectWrite(r)
      BY <1>1, <3>3 DEF RejectWrite, UnusedIsBlank, SubmissionRow
    <3>4. QED
      BY <1>2, <2>2, <3>1, <3>2, <3>3 DEF AdminStep, CreateJob, UpdateJobRead,
         UpdateJobWrite, UpdateJobStatusRead, UpdateJobStatusWrite, RefreshJobCheckedAt, ApproveFind,
         ApproveFindTarget, ApproveRollback, RejectFind, db
  <2>3. CASE NoticeStep(r) \/ Lose(r)
    BY <1>2, <2>3 DEF NoticeStep, NotifyStatus, NotifyTagRead, NotifyTagInsert,
       NotifySoonRead, NotifySoonInsert, Lose, db
  <2>4. QED
    BY <1>3, <2>1, <2>2, <2>3 DEF Step
<1>4. QED
  BY <1>2, <1>3 DEF Next, vars

\* The invariant of the promises, at the start and after every step.
LEMMA InitAInv == Init => AInv
<1> SUFFICES ASSUME Init PROVE AInv
  OBVIOUS
<1>1. Apart
  BY DEF Init, Apart, TwoInFlight, InFlight, Alone, Idle
<1>2. OnePendingEditApart
  <2>1. \A s \in Submissions : AssertPending(s) => s \in SeedSubmissions
    BY DEF Init, AssertPending, NoSubmission
  <2>2. QED
    BY <2>1 DEF Init, OnePendingEditApart
<1>3. UnusedIsBlank
  BY DEF Init, UnusedIsBlank, NoSubmission
<1>4. QED
  BY <1>1, <1>2, <1>3 DEF AInv

LEMMA StepAInv == IInv /\ AInv /\ [Next]_vars => AInv'
<1> SUFFICES ASSUME IInv, AInv, [Next]_vars PROVE AInv'
  OBVIOUS
<1>1. UnusedIsBlank'
  BY BlankPreserved DEF AInv
<1>2. CASE overlap'
  BY <1>1, <1>2 DEF AInv, Apart, OnePendingEditApart
<1>3. CASE ~overlap'
  BY <1>1, <1>3, NextApart DEF AInv, Keeps
<1>4. QED
  BY <1>2, <1>3

\* Until two calls have overlapped, a call stands on what it read.
THEOREM AloneInvariance == Spec => []AInv
  BY InitAInv, StepAInv, Invariance, PTL DEF Spec

\* Unless calls overlapped, a job has at most one edit waiting for review.
THEOREM OnePendingEdit == Spec => []OnePendingEditApart
<1>1. AInv => OnePendingEditApart
  BY DEF AInv
<1>2. QED
  BY <1>1, AloneInvariance, PTL

\* Unless calls overlapped, a review is final.
THEOREM ReviewsFinal == Spec => ReviewedIsFinalApart
<1>1. IInv /\ AInv /\ [Next]_vars => [~overlap' => DecisionsStand]_vars
  BY NextApart DEF Keeps
<1>2. QED
  BY <1>1, Invariance, AloneInvariance, PTL DEF Spec, ReviewedIsFinalApart

\* Unless calls overlapped, an edit is applied only to an open job of its company.
THEOREM EditsMeetOpen == Spec => EditsOnlyOpenJobsApart
<1>1. IInv /\ AInv /\ [Next]_vars => [~overlap' => EditsMeetOpenJobs]_vars
  BY NextApart DEF Keeps
<1>2. QED
  BY <1>1, Invariance, AloneInvariance, PTL DEF Spec, EditsOnlyOpenJobsApart

\* Unless calls overlapped, moderation keeps what SubmissionReview promises.
THEOREM ReviewRefinement == Spec => ImplementsReview
<1>1. Init => Review!Init
  <2> SUFFICES ASSUME Init PROVE Review!Init
    OBVIOUS
  <2>1. \A s \in Submissions :
          /\ Outcome(submission[s]) \in {"absent", "waiting"}
          /\ submission[s].target # None => Outcome(submission[s]) = "waiting"
    BY DEF Init, Outcome, NoSubmission
  <2>2. {<<origin[j], j>> : j \in {i \in Jobs : origin[i] # None}} = {}
    BY DEF Init
  <2>3. QED
    BY <2>1, <2>2 DEF Review!Init
<1>2. IInv /\ AInv /\ [Next]_vars => (~overlap' => [Review!Next]_(Review!vars))
  BY NextApart DEF Keeps
<1>3. QED
  BY <1>1, <1>2, Invariance, AloneInvariance, PTL DEF Spec, ImplementsReview

-----------------------------------------------------------------------------
(* Every notice an update calls for, and no other                          *)

\* What a step that updates a job row does: the edition grows, the notices owed are
\* those the comparison calls for, and the row compared is one the job has or had.
Revises(r) ==
  \E j \in Jobs, row \in JobRow, seen \in JobRow :
    /\ job[j].status # "NONE" /\ row.edition = job[j].edition + 1
    /\ \/ seen = job[j]
       \/ call[r].pc \in Comparing /\ j = call[r].job /\ seen = call[r].prev
    /\ WriteJob(r, j, row, seen) /\ Announce(r, j, row, Emissions(seen, row))

LEMMA WritesRevises ==
  ASSUME RowKinds, CallsWellFormed, StatusTraced, NEW r \in Requests, Writes(r)
  PROVE  Revises(r) /\ call[r].pc \notin Owing \union {"done", "lost"} /\ UNCHANGED notes
<1>1. call[r].pc \notin Owing \union {"done", "lost"} /\ UNCHANGED notes
  BY DEF Writes, CloseMyJobWrite, UpdateJobWrite, UpdateJobStatusWrite, RefreshJobCheckedAt,
     ApproveUpdateCommit, At, Calls, Owing, notes
<1>2. PICK j \in Jobs, row \in JobRow, seen \in JobRow, todo \in SUBSET Notice :
        /\ job[j].status # "NONE" /\ row.edition = job[j].edition + 1
        /\ \/ seen = job[j]
           \/ call[r].pc \in Comparing /\ j = call[r].job /\ seen = call[r].prev
        /\ \/ todo = Emissions(seen, row)
           \/ /\ call[r].pc = "closeMyJob" /\ seen = call[r].prev
              /\ row.status = "CLOSED" /\ todo = {"status"}
        /\ WriteJob(r, j, row, seen) /\ Announce(r, j, row, todo)
  BY WritesUpdates DEF Updates
<1>3. todo = Emissions(seen, row)
  <2>1. CASE call[r].pc = "closeMyJob" /\ seen = call[r].prev /\ row.status = "CLOSED"
             /\ todo = {"status"}
    BY <2>1, ClosingEmissions DEF StatusTraced
  <2>2. QED
    BY <1>2, <2>1
<1>4. QED
  BY <1>1, <1>2, <1>3 DEF Revises

\* A call about to compare has just read the row; closeMyJob reads it open.
Fresh(r) ==
  call'[r].pc \in Comparing =>
    /\ job' = job /\ call'[r].prev = job[call'[r].job]
    /\ call'[r].pc = "closeMyJob" => call'[r].prev.status = "OPEN"

LEMMA ReadsAreFresh ==
  ASSUME RowKinds, CallsWellFormed, NEW r \in Requests, CompanyStep(r) \/ AdminStep(r), ~Writes(r)
  PROVE  Fresh(r)
<1> USE DEF Fresh, Comparing
<1>0. call[r] \in Call /\ call \in [Requests -> Call]
  BY DEF RowKinds
<1>1. CASE Returns(r)
  BY <1>0, <1>1 DEF Returns, Becomes, Done, Idle
<1>2. CASE EditFindJob(r)
  BY <1>0, <1>2 DEF EditFindJob, Becomes, Idle
<1>3. CASE EditCheckPending(r) /\ ~Returns(r)
  BY <1>0, <1>3 DEF EditCheckPending, Becomes, Call
<1>4. CASE UpdateSubmissionFind(r)
  BY <1>0, <1>4 DEF UpdateSubmissionFind, Becomes, Idle
<1>5. CASE CancelFind(r)
  BY <1>0, <1>5 DEF CancelFind, Becomes, Idle
<1>6. CASE UpdateJobRead(r)
  <2>1. PICK j \in Jobs, c \in Companies, p \in Payloads, st \in JobStatus :
          Becomes(r, [Idle EXCEPT !.pc = "updateJob", !.job = j, !.prev = job[j],
                                  !.cur = NewRow(st, c, p)])
    BY <1>6 DEF UpdateJobRead
  <2>2. /\ call'[r].pc = "updateJob" /\ call'[r].job = j /\ call'[r].prev = job[j]
        /\ job' = job
    BY <1>0, <1>6, <2>1 DEF UpdateJobRead, Becomes, Idle, db
  <2>3. QED
    BY <2>2
<1>7. CASE UpdateJobStatusRead(r)
  <2>1. PICK j \in Jobs, st \in JobStatus :
          call'[r] = [Idle EXCEPT !.pc = "updateJobStatus", !.job = j,
                                  !.prev = job[j], !.cur.status = st]
    BY <1>0, <1>7 DEF UpdateJobStatusRead, ValidStatus, Becomes
  <2>2. /\ call'[r].pc = "updateJobStatus" /\ call'[r].job = j /\ call'[r].prev = job[j]
        /\ job' = job
    BY <1>7, <2>1 DEF UpdateJobStatusRead, Idle, db
  <2>3. QED
    BY <2>2
<1>8. CASE ApproveFind(r)
  BY <1>0, <1>8 DEF ApproveFind, Becomes, Idle
<1>9. CASE ApproveFindTarget(r) /\ ~Returns(r)
  <2>1. /\ call'[r] = [call[r] EXCEPT !.pc = "approveUpdate", !.prev = job[call[r].job]]
        /\ job' = job
    BY <1>0, <1>9 DEF ApproveFindTarget, Becomes, db
  <2>2. /\ call'[r].pc = "approveUpdate" /\ call'[r].job = call[r].job
        /\ call'[r].prev = job[call[r].job]
    BY <1>0, <2>1 DEF Call
  <2>3. QED
    BY <2>1, <2>2
<1>10. CASE RejectFind(r)
  BY <1>0, <1>10 DEF RejectFind, Becomes, Idle
<1>11. CASE CreateJob(r) \/ ApproveCreateCommit(r)
  <2>1. PICK j, row, todo : call'[r] = Announcing(j, row, todo)
    <3>1. CASE CreateJob(r)
      <4>1. PICK j \in Jobs, c \in Companies, p \in Payloads, st \in JobStatus :
              LET row == NewRow(st, c, p)
              IN  Announce(r, j, row, IF st = "OPEN" THEN {"tag"} ELSE {})
        BY <3>1 DEF CreateJob
      <4>2. QED
        BY <1>0, <4>1 DEF Announce, Becomes
    <3>2. CASE ApproveCreateCommit(r)
      BY <1>0, <3>2 DEF ApproveCreateCommit, Announce, Becomes
    <3>3. QED
      BY <1>11, <3>1, <3>2
  <2>2. QED
    BY <2>1, AnnouncingIs DEF Done, Idle
<1>12. CASE CloseMyJobFind(r)
  <2>1. PICK j \in Jobs, c \in Companies :
          /\ OpenJobOf(j, c) /\ job' = job
          /\ call'[r] = [Idle EXCEPT !.pc = "closeMyJob", !.job = j, !.prev = job[j]]
    BY <1>0, <1>12 DEF CloseMyJobFind, Becomes, db
  <2>2. call'[r].job = j /\ call'[r].prev = job[j]
    BY <2>1 DEF Idle
  <2>3. QED
    BY <2>1, <2>2 DEF OpenJobOf
<1>13. QED
  BY <1>1, <1>2, <1>3, <1>4, <1>5, <1>6, <1>7, <1>8, <1>9, <1>10, <1>11, <1>12
     DEF CompanyStep, AdminStep, Writes, CreateJobSubmission, EditCreate,
         UpdateSubmissionWrite, CancelDelete, ApproveRollback, RejectWrite

\* What the other steps leave alone, apart from those that send notices.
LEMMA OtherSteps ==
  ASSUME RowKinds, CallsWellFormed, NEW r \in Requests, CompanyStep(r) \/ AdminStep(r), ~Writes(r)
  PROVE  /\ UNCHANGED <<notes, log>> /\ call[r].pc \notin Owing \union {"done", "lost"}
         /\ \A j \in Jobs : job[j].status # "NONE" => job'[j] = job[j]
         /\ call'[r].pc = "emit" => "status" \notin call'[r].todo
         /\ Fresh(r)
<1>0. call[r] \in Call /\ job \in [Jobs -> JobRow] /\ call \in [Requests -> Call]
  BY DEF RowKinds
<1>1. UNCHANGED notes /\ call[r].pc \notin Owing \union {"done", "lost"}
  <2>1. CASE CompanyStep(r)
    BY <2>1 DEF CompanyStep, CreateJobSubmission, EditFindJob, EditCheckPending,
       EditCreate, UpdateSubmissionFind, UpdateSubmissionWrite, CancelFind,
       CancelDelete, CloseMyJobFind, CloseMyJobWrite, db, notes, At, Calls, Owing
  <2>2. CASE AdminStep(r)
    BY <2>2 DEF AdminStep, CreateJob, UpdateJobRead, UpdateJobWrite,
       UpdateJobStatusRead, UpdateJobStatusWrite, RefreshJobCheckedAt, ApproveFind, ApproveFindTarget,
       ApproveRollback, ApproveUpdateCommit, ApproveCreateCommit, RejectFind,
       RejectWrite, db, notes, At, Calls, Owing
  <2>3. QED
    BY <2>1, <2>2
<1>2. Inserts(r) \/ (UNCHANGED <<job, log>> /\ call'[r].pc \notin {"emit", "insertTag", "insertSoon"})
  BY CompanyEffect, AdminEffect
<1>3. CASE Inserts(r)
  <2>1. PICK j \in Jobs, row \in JobRow, todo \in SUBSET {"tag"} :
          /\ job[j].status = "NONE" /\ job' = [job EXCEPT ![j] = row] /\ log' = log
          /\ call'[r] = Announcing(j, row, todo)
    BY <1>0, <1>3 DEF Inserts, Announce, Becomes
  <2>2. \A i \in Jobs : job[i].status # "NONE" => job'[i] = job[i]
    BY <1>0, <2>1
  <2>3. call'[r].pc \in {"emit", "done"} /\ (call'[r].pc = "emit" => "status" \notin call'[r].todo)
    BY <2>1, AnnouncingIs DEF Done, Idle
  <2>4. QED
    BY <1>1, <2>1, <2>2, <2>3, ReadsAreFresh
<1>4. CASE UNCHANGED <<job, log>> /\ call'[r].pc \notin {"emit", "insertTag", "insertSoon"}
  BY <1>1, <1>4, ReadsAreFresh
<1>5. QED
  BY <1>2, <1>3, <1>4

\* What an entry of the log is made of.
LEMMA EntryKind ==
  ASSUME RowKinds, NEW w \in log
  PROVE  /\ w.job \in Jobs /\ w.by \in Requests /\ w.seen \in JobRow /\ w.to \in JobRow
         /\ w.to.edition \in Nat /\ job[w.job] \in JobRow /\ job[w.job].edition \in Nat
  BY DEF RowKinds, LogEntry, JobRow

\* The updates of other calls, when a step adds notices and, at most, gives the
\* row a later edition.
LEMMA OtherUpdates ==
  ASSUME RowKinds, NEW r \in Requests, Kept(r), NEW w \in log, w.by # r, Told(w),
         statusNotes \subseteq statusNotes', tagNotes \subseteq tagNotes',
         soonNotes \subseteq soonNotes',
         job'[w.job] = job[w.job] \/ job'[w.job].edition = job[w.job].edition + 1
  PROVE  Told(w)'
<1>1. call'[w.by] = call[w.by]
  BY EntryKind DEF Kept
<1>2. w.to.edition <= job'[w.job].edition /\ (w.to = job'[w.job] => w.to = job[w.job])
  BY EntryKind DEF Told
<1>3. Follows(w)' /\ StatusTold(w)'
  BY <1>1 DEF Told, Follows, StatusTold
<1>4. TagTold(w) => TagTold(w)'
  BY <1>1 DEF TagTold
<1>5. SoonTold(w) => SoonTold(w)'
  BY <1>1 DEF SoonTold
<1>6. QED
  BY <1>2, <1>3, <1>4, <1>5 DEF Told

\* A call that begins to announce.
LEMMA AnnouncingGoes ==
  ASSUME NEW j, NEW row, NEW todo
  PROVE  /\ Announcing(j, row, todo).pc \in {"emit", "done"}
         /\ \A n \in todo : Announcing(j, row, todo).pc = "emit"
         /\ Announcing(j, row, todo).pc = "emit" =>
              /\ Announcing(j, row, todo).job = j /\ Announcing(j, row, todo).cur = row
              /\ Announcing(j, row, todo).todo = todo
  BY DEF Announcing, Emitting, Idle, Done

\* A call that has sent one of its notices.
LEMMA WithoutGoes ==
  ASSUME NEW l \in Call, NEW n
  PROVE  /\ Without(l, n).pc \in {"emit", "done"}
         /\ \A m \in l.todo : m # n => Without(l, n).pc = "emit"
         /\ Without(l, n).pc = "emit" =>
              /\ Without(l, n).job = l.job /\ Without(l, n).cur = l.cur
              /\ Without(l, n).todo = l.todo \ {n}
<1>1. [l EXCEPT !.todo = @ \ {n}].todo = l.todo \ {n}
  BY DEF Call
<1>2. CASE l.todo \ {n} = {}
  BY <1>1, <1>2 DEF Without, Emitting, Done, Idle
<1>3. CASE l.todo \ {n} # {}
  BY <1>1, <1>3 DEF Without, Emitting, Call
<1>4. QED
  BY <1>2, <1>3

\* An update is announced as it should be from the moment it is committed.
LEMMA NewUpdateTold ==
  ASSUME RowKinds, NEW r \in Requests, NEW j \in Jobs, NEW row \in JobRow, NEW seen \in JobRow,
         job'[j] = row, Announce(r, j, row, Emissions(seen, row)),
         NEW w, w.job = j, w.by = r, w.seen = seen, w.to = row
  PROVE  Told(w)'
<1> DEFINE todo == Emissions(seen, row)
<1>1. /\ call'[r].pc \in {"emit", "done"} /\ (\A n \in todo : call'[r].pc = "emit")
      /\ call'[r].pc = "emit" =>
           call'[r].job = j /\ call'[r].cur = row /\ call'[r].todo = todo
  <2>1. call'[r] = Announcing(j, row, todo)
    BY DEF RowKinds, Announce, Becomes
  <2> HIDE DEF todo
  <2>2. QED
    BY <2>1, AnnouncingGoes
<1>2. /\ "status" \in todo <=> seen.status # row.status
      /\ row.status = "OPEN" /\ seen.status # "OPEN" => "tag" \in todo
      /\ row.status = "OPEN" /\ Deadline[seen.data] # Deadline[row.data] => "soon" \in todo
  BY DEF Emissions, Notice
<1> HIDE DEF todo
<1>3. Follows(w)'
  BY <1>1, <1>2 DEF Follows, Owing
<1>4. StatusTold(w)'
  BY <1>1, <1>2 DEF StatusTold
<1>5. row.status = "OPEN" => TagTold(w)'
  BY <1>1, <1>2 DEF TagTold
<1>6. row.status = "OPEN" => SoonTold(w)'
  BY <1>1, <1>2 DEF SoonTold
<1>7. row.edition <= job'[j].edition
  BY DEF JobRow
<1>8. QED
  BY <1>3, <1>4, <1>5, <1>6, <1>7 DEF Told

\* What has been stays known.
LEMMA HistoryGrows ==
  ASSUME log \subseteq log'
  PROVE  /\ \A i : job[i] \in Rows(i)' => Rows(i) \subseteq Rows(i)'
         /\ \A w : Before(w) \subseteq Before(w)'
         /\ \A i, st : Entered(i, st) => Entered(i, st)'
<1>1. ASSUME NEW i, job[i] \in Rows(i)', NEW row \in Rows(i) PROVE row \in Rows(i)'
  <2>1. row = job[i] \/ \E w \in log : w.job = i /\ row = w.from
    BY <1>1 DEF Rows
  <2>2. ASSUME NEW w \in log, w.job = i, row = w.from PROVE row \in Rows(i)'
    <3>1. w \in log' /\ w.job = i /\ row = w.from
      BY <2>2
    <3>2. QED
      BY <3>1 DEF Rows
  <2>3. QED
    BY <1>1, <2>1, <2>2
<1>2. ASSUME NEW w, NEW row \in Before(w) PROVE row \in Before(w)'
  <2>1. PICK v \in log : /\ v.job = w.job /\ v.to.edition <= w.to.edition
                         /\ row = v.from
    BY <1>2 DEF Before
  <2>2. v \in log' /\ v.job = w.job /\ v.to.edition <= w.to.edition /\ row = v.from
    BY <2>1
  <2>3. QED
    BY <2>2 DEF Before
<1>3. \A i, st : Entered(i, st) => Entered(i, st)'
  BY DEF Entered
<1>4. QED
  BY <1>1, <1>2, <1>3

\* Calls that know what they read still do after a step that leaves their job alone.
LEMMA ReadStays ==
  ASSUME NEW q, ReadKnown(call[q]), call'[q] = call[q], log \subseteq log',
         job'[call[q].job] = job[call[q].job]
  PROVE  ReadKnown(call[q])'
<1>1. PICK i, st : i = call[q].job /\ st = job[i].status /\ job'[i] = job[i]
  OBVIOUS
<1>2. job[i] \in Rows(i)'
  BY <1>1 DEF Rows
<1>3. ASSUME call[q].pc \in Comparing
      PROVE  call[q].prev \in Rows(i)' /\ (call[q].prev.status # st => Entered(i, st)')
  <2>1. /\ call[q].prev \in Rows(i)
        /\ call[q].prev.status # st => Entered(i, st)
    BY <1>1, <1>3 DEF ReadKnown
  <2>2. Rows(i) \subseteq Rows(i)'
    BY <1>2, HistoryGrows
  <2>3. QED
    BY <2>1, <2>2, HistoryGrows
<1>4. QED
  BY <1>1, <1>3 DEF ReadKnown

LEMMA SeenStays ==
  ASSUME NEW w, SeenKnown(w), log \subseteq log'
  PROVE  SeenKnown(w)'
BY HistoryGrows DEF SeenKnown

LEMMA RevisesTold ==
  ASSUME RowKinds, CallsWellFormed, ToldInv, NEW r \in Requests, Kept(r), Revises(r), UNCHANGED notes,
         call[r].pc \notin Owing \union {"done", "lost"}
  PROVE  ToldInv'
<1>1. PICK j \in Jobs, row \in JobRow, seen \in JobRow :
        /\ row.edition = job[j].edition + 1
        /\ \/ seen = job[j]
           \/ call[r].pc \in Comparing /\ j = call[r].job /\ seen = call[r].prev
        /\ WriteJob(r, j, row, seen) /\ Announce(r, j, row, Emissions(seen, row))
  BY DEF Revises
<1>2. PICK e : /\ e.job = j /\ e.by = r /\ e.seen = seen /\ e.from = job[j] /\ e.to = row
               /\ log' = log \union {e}
               /\ job' = [job EXCEPT ![j] = row] /\ job \in [Jobs -> JobRow]
  <2> DEFINE e == [job |-> j, by |-> r, seen |-> seen, from |-> job[j], to |-> row]
  <2>1. /\ e.job = j /\ e.by = r /\ e.seen = seen /\ e.from = job[j] /\ e.to = row
        /\ log' = log \union {e}
        /\ job' = [job EXCEPT ![j] = row] /\ job \in [Jobs -> JobRow]
    BY <1>1 DEF WriteJob, RowKinds
  <2>2. QED
    BY <2>1
<1>3. job'[j] = row /\ \A i \in Jobs : i # j => job'[i] = job[i]
  BY <1>2
<1>4. ASSUME NEW w \in log PROVE w.by # r /\ Told(w) /\ w.to.edition <= job[w.job].edition
  BY <1>4 DEF ToldInv, Told, Follows
<1>5. ASSUME NEW w \in log PROVE Told(w)'
  <2>1. job'[w.job] = job[w.job] \/ job'[w.job].edition = job[w.job].edition + 1
    BY <1>1, <1>3, EntryKind
  <2>2. QED
    BY <1>4, <2>1, OtherUpdates DEF notes
<1>6. Told(e)'
  BY <1>1, <1>2, <1>3, NewUpdateTold
<1>7. ReadsKnown'
  <2>1. log \subseteq log' /\ e \in log'
    BY <1>2
  <2>2. job[j].status # row.status => Entered(j, row.status)'
    BY <1>2, <2>1 DEF Entered
  <2>3. job[j] \in Rows(j)'
    BY <1>2, <2>1 DEF Rows
  <2>4. ASSUME NEW q \in Requests PROVE ReadKnown(call[q])'
    <3>1. CASE q = r
      <4>1. call'[r] = Announcing(j, row, Emissions(seen, row))
        BY <1>1 DEF RowKinds, Announce, Becomes
      <4>2. QED
        BY <3>1, <4>1, AnnouncingGoes DEF ReadKnown, Comparing
    <3>2. CASE q # r
      <4>1. call'[q] = call[q] /\ ReadKnown(call[q])
        BY <3>2 DEF Kept, ToldInv, ReadsKnown
      <4>2. CASE call[q].job # j /\ call[q].pc \in Comparing
        <5>1. call[q].job \in Jobs
          BY <4>2 DEF CallsWellFormed, WellFormed, Comparing
        <5>2. QED
          BY <1>3, <2>1, <4>1, <4>2, <5>1, ReadStays
      <4>3. CASE call[q].job = j /\ call[q].pc \in Comparing
        <5>1. call[q].prev \in Rows(j)'
          BY <2>1, <2>3, <4>1, <4>3, HistoryGrows DEF ReadKnown
        <5>2. call[q].prev.status # row.status => Entered(j, row.status)'
          BY <2>1, <2>2, <4>1, <4>3, HistoryGrows DEF ReadKnown
        <5>3. QED
          BY <1>3, <4>1, <4>3, <5>1, <5>2 DEF ReadKnown
      <4>4. CASE call[q].pc \notin Comparing
        BY <4>1, <4>4 DEF ReadKnown
      <4>5. QED
        BY <4>2, <4>3, <4>4
    <3>3. QED
      BY <3>1, <3>2
  <2>5. \A w \in log : SeenKnown(w)'
    BY <2>1, SeenStays DEF ToldInv, ReadsKnown
  <2>6. seen \in Before(e)'
    <3>1. row.edition \in Nat /\ job[j].edition \in Nat
      BY <1>2 DEF JobRow
    <3>2. job[j] \in Before(e)'
      BY <1>2, <2>1, <3>1 DEF Before
    <3>3. ASSUME NEW w \in log, w.job = j PROVE w.from \in Before(e)'
      <4>1. w.to.edition <= row.edition
        BY <1>1, <1>4, <3>1, <3>3, EntryKind
      <4>2. w \in log' /\ w.job = e.job /\ w.to.edition <= e.to.edition
        BY <1>2, <2>1, <3>3, <4>1
      <4>3. QED
        BY <4>2 DEF Before
    <3>4. seen \in Rows(j)
      <4>1. ReadKnown(call[r])
        BY DEF ToldInv, ReadsKnown
      <4>2. job[j] \in Rows(j)
        BY DEF Rows
      <4>3. QED
        BY <1>1, <4>1, <4>2 DEF ReadKnown
    <3>5. seen = job[j] \/ \E w \in log : w.job = j /\ seen = w.from
      BY <3>4 DEF Rows
    <3>6. QED
      BY <3>2, <3>3, <3>5
  <2>7. seen.status # row.status => Entered(j, row.status)'
    <3>1. ReadKnown(call[r])
      BY DEF ToldInv, ReadsKnown
    <3>2. PICK st : st = job[j].status
      OBVIOUS
    <3>3. seen.status # st => Entered(j, st)
      BY <1>1, <3>1, <3>2 DEF ReadKnown
    <3>4. seen.status # st => Entered(j, st)'
      BY <2>1, <3>3, HistoryGrows
    <3>5. QED
      BY <2>2, <3>2, <3>4
  <2>8. SeenKnown(e)'
    BY <1>2, <2>6, <2>7 DEF SeenKnown
  <2>9. \A w \in log' : SeenKnown(w)'
    BY <1>2, <2>5, <2>8
  <2>10. QED
    BY <2>4, <2>9 DEF ReadsKnown
<1>8. StatusTraced'
  <2>1. /\ call'[r].pc # "closeMyJob" /\ \A q \in Requests \ {r} : call'[q] = call[q]
        /\ statusNotes' = statusNotes
    <3>1. call'[r] = Announcing(j, row, Emissions(seen, row))
      BY <1>1 DEF RowKinds, Announce, Becomes
    <3>2. QED
      BY <3>1, AnnouncingGoes DEF Kept, notes
  <2>2. QED
    BY <1>2, <2>1 DEF ToldInv, StatusTraced
<1>9. QED
  BY <1>2, <1>5, <1>6, <1>7, <1>8 DEF ToldInv

\* A step that neither updates a job nor sends a notice.
LEMMA QuietTold ==
  ASSUME RowKinds, CallsWellFormed, RowsLogged, ToldInv, NEW r \in Requests, Kept(r),
         UNCHANGED <<notes, log>>, Fresh(r),
         \A w \in log : w.by = r => Told(w)',
         \A j \in Jobs : job[j].status # "NONE" => job'[j] = job[j],
         call'[r].pc = "emit" => "status" \notin call'[r].todo
  PROVE  ToldInv'
<1>1. ASSUME NEW w \in log PROVE Told(w)'
  <2>1. Told(w) /\ job'[w.job] = job[w.job]
    BY EntryKind DEF ToldInv, RowsLogged
  <2>2. QED
    BY <2>1, OtherUpdates DEF notes
<1>2. ReadsKnown'
  <2>1. ASSUME NEW q \in Requests PROVE ReadKnown(call[q])'
    <3>1. CASE q = r
      BY <3>1 DEF Fresh, ReadKnown, Rows
    <3>2. CASE q # r /\ call[q].pc \in Comparing
      <4>1. call'[q] = call[q] /\ job'[call[q].job] = job[call[q].job]
        BY <3>2 DEF Kept, CallsWellFormed, WellFormed, Comparing
      <4>2. ReadKnown(call[q])
        BY DEF ToldInv, ReadsKnown
      <4>3. QED
        BY <4>1, <4>2, ReadStays
    <3>3. CASE q # r /\ call[q].pc \notin Comparing
      BY <3>3 DEF Kept, ReadKnown
    <3>4. QED
      BY <3>1, <3>2, <3>3
  <2>2. \A w \in log' : SeenKnown(w)'
    BY SeenStays DEF ToldInv, ReadsKnown
  <2>3. QED
    BY <2>1, <2>2 DEF ReadsKnown
<1>3. StatusTraced'
  <2>1. \A q \in Requests \ {r} : call'[q] = call[q]
    BY DEF Kept
  <2>2. QED
    BY <2>1 DEF ToldInv, StatusTraced, Fresh, Comparing, notes
<1>4. QED
  BY <1>1, <1>2, <1>3 DEF ToldInv

\* A call that has sent one of its notices, or found that nobody is to be told.
LEMMA SentTold ==
  ASSUME RowKinds, NEW r \in Requests, NEW n \in Notice, NEW w \in log, w.by = r, Told(w),
         WellFormed(call[r]), call[r].pc \in Owing, Sent(r, n), job' = job,
         statusNotes \subseteq statusNotes', tagNotes \subseteq tagNotes',
         soonNotes \subseteq soonNotes',
         n = "status" => call[r].pc = "emit", n = "status" \/ "status" \notin call[r].todo,
         n = "soon" \/ call[r].pc # "insertSoon",
         n = "status" /\ w.seen.status # w.to.status =>
           \A u \in Bookmarkers[w.job] :
             [user |-> u, job |-> w.job, status |-> w.to.status, stamp |-> w.to.stamp]
               \in statusNotes',
         n = "tag" /\ w.to = job[w.job] /\ w.to.status = "OPEN" =>
           \A u \in TagAudience[w.job] : [user |-> u, job |-> w.job] \in tagNotes',
         n = "soon" /\ w.to = job[w.job] /\ w.to.status = "OPEN" /\ w.to.data \in DueSoon
           /\ (call[r].pc = "insertSoon" => call[r].cur = w.to) =>
           \A u \in Bookmarkers[w.job] :
             [user |-> u, job |-> w.job, deadline |-> Deadline[w.to.data]] \in soonNotes'
  PROVE  Told(w)'
<1>1. /\ call'[r].pc \in {"emit", "done"}
      /\ \A m \in call[r].todo : m # n => call'[r].pc = "emit"
      /\ call'[r].pc = "emit" => /\ call'[r].job = call[r].job /\ call'[r].cur = call[r].cur
                                 /\ call'[r].todo = call[r].todo \ {n}
  <2>1. call[r] \in Call /\ call'[r] = Without(call[r], n)
    BY DEF RowKinds, Sent, Becomes
  <2>2. QED
    BY <2>1, WithoutGoes
<1>2. Follows(w)'
  BY <1>1 DEF Told, Follows, Owing
<1>3. StatusTold(w)'
  <2>1. CASE n = "status"
    BY <2>1 DEF StatusTold
  <2>2. CASE "status" \notin call[r].todo
    BY <2>2 DEF Told, StatusTold, Owing
  <2>3. QED
    BY <2>1, <2>2
<1>4. ASSUME w.to = job[w.job], w.to.status = "OPEN" PROVE TagTold(w)'
  <2>1. CASE n = "tag"
    BY <1>4, <2>1 DEF TagTold
  <2>2. CASE n # "tag"
    BY <1>1, <1>4, <2>2 DEF Told, TagTold, Owing
  <2>3. QED
    BY <2>1, <2>2
<1>5. ASSUME w.to = job[w.job], w.to.status = "OPEN" PROVE SoonTold(w)'
  <2>1. SUFFICES ASSUME w.to.data \in DueSoon, Deadline[w.seen.data] # Deadline[w.to.data]
                 PROVE  \/ call'[r].pc = "emit" /\ "soon" \in call'[r].todo
                        \/ \A u \in Bookmarkers[w.job] :
                             [user |-> u, job |-> w.job, deadline |-> Deadline[w.to.data]]
                               \in soonNotes'
    BY DEF SoonTold
  <2>2. \/ call[r].pc \in {"emit", "insertTag"} /\ "soon" \in call[r].todo
        \/ call[r].pc = "insertSoon" /\ call[r].cur = w.to
        \/ \A u \in Bookmarkers[w.job] :
             [user |-> u, job |-> w.job, deadline |-> Deadline[w.to.data]] \in soonNotes
    BY <1>5, <2>1 DEF Told, SoonTold, Owing
  <2>3. CASE n = "soon"
    BY <1>5, <2>1, <2>2, <2>3
  <2>4. CASE n # "soon"
    BY <1>1, <2>2, <2>4
  <2>5. QED
    BY <2>3, <2>4
<1>6. QED
  BY <1>2, <1>3, <1>4, <1>5 DEF Told

\* A call that is about to insert.
LEMMA ReadTold ==
  ASSUME RowKinds, NEW r \in Requests, NEW w \in log, w.by = r, Told(w), call[r].pc = "emit",
         UNCHANGED <<job, notes>>, "status" \notin call[r].todo,
         call'[r].job = call[r].job, call'[r].todo = call[r].todo,
         \/ call'[r].pc = "insertTag"
         \/ call'[r].pc = "insertSoon" /\ call'[r].cur = job[call[r].job] /\ call[r].todo = {"soon"}
  PROVE  Told(w)'
<1>1. call[r].job = w.job
  BY DEF Told, Follows, Owing
<1>2. Follows(w)'
  BY DEF Told, Follows, Owing
<1>3. StatusTold(w)'
  BY DEF Told, StatusTold, notes
<1>4. TagTold(w) => TagTold(w)'
  BY DEF TagTold, notes
<1>5. w.to = job[w.job] /\ SoonTold(w) => SoonTold(w)'
  BY <1>1 DEF SoonTold, notes
<1>6. QED
  BY <1>2, <1>3, <1>4, <1>5 DEF Told

\* Sending a notice is what the updates of the call called for.
LEMMA NoticeTold ==
  ASSUME RowKinds, CallsWellFormed, ToldInv, NEW r \in Requests, NoticeStep(r),
         NEW w \in log, w.by = r
  PROVE  Told(w)'
<1>0. /\ Told(w) /\ WellFormed(call[r]) /\ call[r] \in Call /\ call \in [Requests -> Call]
      /\ call[r].pc \in Owing /\ call[r].job = w.job /\ job' = job
  BY NoticeEffect DEF ToldInv, Told, Follows, CallsWellFormed, RowKinds, NoticeStep, NotifyStatus,
     NotifyTagRead, NotifyTagInsert, NotifySoonRead, NotifySoonInsert, At, Owing
<1>1. CASE NotifyStatus(r)
  <2>1. /\ call[r].pc = "emit" /\ "status" \in call[r].todo /\ Sent(r, "status")
        /\ statusNotes' = statusNotes \union
             {StatusNote(u, call[r]) : u \in Bookmarkers[call[r].job]}
        /\ UNCHANGED <<tagNotes, soonNotes>>
    BY <1>1 DEF NotifyStatus, At
  <2>2. call[r].cur = w.to
    BY <1>0, <2>1 DEF Told, Follows
  <2>3. \A u \in Bookmarkers[w.job] :
          [user |-> u, job |-> w.job, status |-> w.to.status, stamp |-> w.to.stamp]
            \in statusNotes'
    BY <1>0, <2>1, <2>2 DEF StatusNote
  <2>4. QED
    BY <1>0, <2>1, <2>3, SentTold DEF Notice
<1>2. CASE NotifyTagRead(r) /\ Sent(r, "tag") /\ ~(job[w.job].status = "OPEN" /\ TagAudience[w.job] # {})
  <2>1. /\ call[r].pc = "emit" /\ "status" \notin call[r].todo
        /\ UNCHANGED <<statusNotes, tagNotes, soonNotes>>
    BY <1>2 DEF NotifyTagRead, At, db
  <2>2. QED
    BY <1>0, <1>2, <2>1, SentTold DEF Notice
<1>3. CASE NotifyTagRead(r) /\ Becomes(r, [call[r] EXCEPT !.pc = "insertTag"])
  <2>1. /\ call[r].pc = "emit" /\ "status" \notin call[r].todo /\ UNCHANGED <<job, notes>>
    BY <1>3 DEF NotifyTagRead, At, db, notes
  <2>2. /\ call'[r].pc = "insertTag" /\ call'[r].job = call[r].job
        /\ call'[r].todo = call[r].todo
    BY <1>0, <1>3 DEF Becomes, Call
  <2>3. QED
    BY <1>0, <2>1, <2>2, ReadTold
<1>4. CASE NotifyTagInsert(r)
  <2>1. /\ call[r].pc = "insertTag" /\ Sent(r, "tag")
        /\ tagNotes' = tagNotes \union
             {[user |-> u, job |-> call[r].job] : u \in TagAudience[call[r].job]}
        /\ UNCHANGED <<statusNotes, soonNotes>>
    BY <1>4 DEF NotifyTagInsert, At
  <2>2. "status" \notin call[r].todo
    BY <1>0, <2>1 DEF WellFormed
  <2>3. \A u \in TagAudience[w.job] : [user |-> u, job |-> w.job] \in tagNotes'
    BY <1>0, <2>1
  <2>4. QED
    BY <1>0, <2>1, <2>2, <2>3, SentTold DEF Notice
<1>5. CASE /\ NotifySoonRead(r) /\ Sent(r, "soon")
           /\ ~(/\ job[w.job].status = "OPEN" /\ job[w.job].data \in DueSoon
                /\ Bookmarkers[w.job] # {})
  <2>1. /\ call[r].pc = "emit" /\ call[r].todo = {"soon"}
        /\ UNCHANGED <<statusNotes, tagNotes, soonNotes>>
    BY <1>5 DEF NotifySoonRead, At, db
  <2>2. QED
    BY <1>0, <1>5, <2>1, SentTold DEF Notice
<1>6. CASE NotifySoonRead(r) /\ Becomes(r, [call[r] EXCEPT !.pc = "insertSoon", !.cur = job[call[r].job]])
  <2>1. /\ call[r].pc = "emit" /\ call[r].todo = {"soon"} /\ UNCHANGED <<job, notes>>
    BY <1>6 DEF NotifySoonRead, At, db, notes
  <2>2. /\ call'[r].pc = "insertSoon" /\ call'[r].job = call[r].job
        /\ call'[r].todo = call[r].todo /\ call'[r].cur = job[call[r].job]
    BY <1>0, <1>6 DEF Becomes, Call
  <2>3. QED
    BY <1>0, <2>1, <2>2, ReadTold
<1>7. CASE NotifySoonInsert(r)
  <2>1. /\ call[r].pc = "insertSoon" /\ Sent(r, "soon")
        /\ soonNotes' = soonNotes \union
             {[user |-> u, job |-> call[r].job, deadline |-> Deadline[call[r].cur.data]] :
                u \in Bookmarkers[call[r].job]}
        /\ UNCHANGED <<statusNotes, tagNotes>>
    BY <1>7 DEF NotifySoonInsert, At
  <2>2. "status" \notin call[r].todo
    BY <1>0, <2>1 DEF WellFormed
  <2>3. call[r].cur = w.to => \A u \in Bookmarkers[w.job] :
          [user |-> u, job |-> w.job, deadline |-> Deadline[w.to.data]] \in soonNotes'
    BY <1>0, <2>1
  <2>4. QED
    BY <1>0, <2>1, <2>2, <2>3, SentTold DEF Notice
<1>8. QED
  BY <1>0, <1>1, <1>2, <1>3, <1>4, <1>5, <1>6, <1>7 DEF NoticeStep, NotifyTagRead, NotifySoonRead

LEMMA NoticesTold ==
  ASSUME RowKinds, CallsWellFormed, ToldInv, NEW r \in Requests, Kept(r), NoticeStep(r)
  PROVE  ToldInv'
<1>0. /\ job' = job /\ log' = log /\ call[r].pc \in Owing /\ call[r] \in Call
      /\ call \in [Requests -> Call] /\ WellFormed(call[r])
  BY NoticeEffect DEF RowKinds, CallsWellFormed, NoticeStep, NotifyStatus, NotifyTagRead,
     NotifyTagInsert, NotifySoonRead, NotifySoonInsert, At, Owing
<1>1. /\ statusNotes \subseteq statusNotes' /\ tagNotes \subseteq tagNotes'
      /\ soonNotes \subseteq soonNotes'
  BY DEF NoticeStep, NotifyStatus, NotifyTagRead, NotifyTagInsert, NotifySoonRead,
     NotifySoonInsert, db
<1>2. ASSUME NEW w \in log PROVE Told(w)'
  <2>1. CASE w.by = r
    BY <2>1, NoticeTold
  <2>2. CASE w.by # r
    BY <1>0, <1>1, <2>2, OtherUpdates DEF ToldInv
  <2>3. QED
    BY <2>1, <2>2
<1>4. \A n \in statusNotes' : \E w \in log :
        /\ w.job = n.job /\ w.to.status = n.status /\ w.to.stamp = n.stamp
        /\ w.seen.status # w.to.status
  <2>1. CASE NotifyStatus(r)
    <3>1. /\ call[r].pc = "emit" /\ "status" \in call[r].todo
          /\ statusNotes' = statusNotes \union
               {StatusNote(u, call[r]) : u \in Bookmarkers[call[r].job]}
      BY <2>1 DEF NotifyStatus, At
    <3>2. PICK w \in log : w.by = r
      BY <3>1 DEF ToldInv, StatusTraced
    <3>3. call[r].cur = w.to /\ w.seen.status # w.to.status /\ call[r].job = w.job
      BY <3>1, <3>2 DEF ToldInv, Told, Follows, Owing
    <3>4. QED
      BY <3>1, <3>3 DEF ToldInv, StatusTraced, StatusNote
  <2>2. CASE ~NotifyStatus(r)
    <3>1. statusNotes' = statusNotes
      BY <2>2 DEF NoticeStep, NotifyTagRead, NotifyTagInsert, NotifySoonRead, NotifySoonInsert, db
    <3>2. QED
      BY <3>1 DEF ToldInv, StatusTraced
  <2>3. QED
    BY <2>1, <2>2
<1>5. /\ call'[r].pc \notin Comparing
      /\ call'[r].pc = "emit" /\ "status" \in call'[r].todo =>
           call[r].pc = "emit" /\ "status" \in call[r].todo
  <2> USE DEF Comparing
  <2>1. ASSUME NEW n, Sent(r, n) PROVE /\ call'[r].pc \in {"emit", "done"}
                                       /\ call'[r].pc = "emit" => call'[r].todo = call[r].todo \ {n}
    <3>1. call'[r] = Without(call[r], n)
      BY <1>0, <2>1 DEF Sent, Becomes
    <3>2. QED
      BY <1>0, <3>1, WithoutGoes
  <2>2. CASE NotifyTagRead(r) /\ ~Sent(r, "tag")
    BY <1>0, <2>2 DEF NotifyTagRead, Becomes, Call
  <2>3. CASE NotifySoonRead(r) /\ ~Sent(r, "soon")
    <3>1. Becomes(r, [call[r] EXCEPT !.pc = "insertSoon", !.cur = job[call[r].job]])
      BY <2>3 DEF NotifySoonRead
    <3>2. call'[r].pc = "insertSoon"
      BY <1>0, <3>1 DEF Becomes, Call
    <3>3. QED
      BY <3>2
  <2>4. CASE NotifyStatus(r) \/ (NotifyTagRead(r) /\ Sent(r, "tag"))
             \/ (NotifySoonRead(r) /\ Sent(r, "soon"))
    BY <2>1, <2>4 DEF NotifyStatus, NotifyTagRead, NotifySoonRead, At
  <2>5. CASE NotifyTagInsert(r) \/ NotifySoonInsert(r)
    BY <1>0, <2>1, <2>5 DEF NotifyTagInsert, NotifySoonInsert, At, WellFormed
  <2>6. QED
    BY <2>2, <2>3, <2>4, <2>5 DEF NoticeStep
<1>6. StatusTraced'
  <2>1. \A q \in Requests \ {r} : call'[q] = call[q]
    BY DEF Kept
  <2>2. QED
    BY <1>0, <1>4, <1>5, <2>1 DEF ToldInv, StatusTraced, Comparing
<1>7. ReadsKnown'
  <2>1. ASSUME NEW q \in Requests PROVE ReadKnown(call[q])'
    <3>1. CASE call'[q].pc \in Comparing
      <4>1. call'[q] = call[q] /\ ReadKnown(call[q])
        BY <1>5, <3>1 DEF Kept, ToldInv, ReadsKnown
      <4>2. QED
        BY <1>0, <4>1, ReadStays
    <3>2. CASE call'[q].pc \notin Comparing
      BY <3>2 DEF ReadKnown
    <3>3. QED
      BY <3>1, <3>2
  <2>2. \A w \in log' : SeenKnown(w)'
    BY <1>0, SeenStays DEF ToldInv, ReadsKnown
  <2>3. QED
    BY <2>1, <2>2 DEF ReadsKnown
<1>8. QED
  BY <1>0, <1>2, <1>6, <1>7 DEF ToldInv

LEMMA StepTold == IInv /\ ToldInv /\ [Next]_vars => ToldInv'
<1> SUFFICES ASSUME IInv, ToldInv, [Next]_vars PROVE ToldInv'
  OBVIOUS
<1>1. CASE UNCHANGED vars
  <2>1. ASSUME NEW q \in Requests PROVE ReadKnown(call[q])'
    BY <1>1, ReadStays DEF vars, ToldInv, ReadsKnown
  <2>2. \A w \in log' : SeenKnown(w)'
    BY <1>1, SeenStays DEF vars, ToldInv, ReadsKnown
  <2>3. StatusTraced' /\ \A w \in log' : Told(w)'
    BY <1>1 DEF vars, ToldInv, StatusTraced, Told, Follows, StatusTold, TagTold, SoonTold
  <2>4. QED
    BY <2>1, <2>2, <2>3 DEF ToldInv, ReadsKnown
<1>2. ASSUME NEW r \in Requests, Step(r) PROVE ToldInv'
  <2>1. RowKinds /\ CallsWellFormed /\ RowsLogged /\ Kept(r) /\ StatusTraced
    BY <1>2, StepKeeps DEF IInv, ToldInv
  <2>2. CASE Writes(r)
    BY <2>1, <2>2, WritesRevises, RevisesTold
  <2>3. CASE NoticeStep(r)
    BY <2>1, <2>3, NoticesTold
  <2>4. CASE (CompanyStep(r) \/ AdminStep(r)) /\ ~Writes(r)
    <3>1. /\ UNCHANGED <<notes, log>> /\ call[r].pc \notin Owing \union {"done", "lost"}
          /\ \A j \in Jobs : job[j].status # "NONE" => job'[j] = job[j]
          /\ call'[r].pc = "emit" => "status" \notin call'[r].todo
          /\ Fresh(r)
      BY <2>1, <2>4, OtherSteps
    <3>2. \A w \in log : w.by # r
      BY <3>1 DEF ToldInv, Told, Follows
    <3>3. QED
      BY <2>1, <3>1, <3>2, QuietTold
  <2>5. CASE Lose(r)
    <3>1. /\ UNCHANGED <<job, notes, log>> /\ call'[r] = Lost
      BY <2>1, <2>5 DEF Lose, db, notes, RowKinds, Becomes
    <3>2. call'[r].pc = "lost"
      BY <3>1 DEF Lost, Idle
    <3>3. ASSUME NEW w \in log, w.by = r PROVE Told(w)'
      <4>1. w.to.edition <= job'[w.job].edition
        BY <3>1 DEF ToldInv, Told
      <4>2. Follows(w)' /\ StatusTold(w)' /\ TagTold(w)' /\ SoonTold(w)'
        BY <3>2, <3>3 DEF Follows, StatusTold, TagTold, SoonTold, Owing
      <4>3. QED
        BY <4>1, <4>2 DEF Told
    <3>4. Fresh(r)
      BY <3>2 DEF Fresh, Comparing
    <3>5. QED
      BY <2>1, <3>1, <3>2, <3>3, <3>4, QuietTold
  <2>6. QED
    BY <1>2, <2>2, <2>3, <2>4, <2>5 DEF Step
<1>3. QED
  BY <1>1, <1>2 DEF Next

\* The notices an update calls for are owed, sent or lost, and no status notice
\* is without its update.
THEOREM ToldInvariance == Spec => []ToldInv
<1>1. Init => ToldInv
  BY DEF Init, ToldInv, ReadsKnown, ReadKnown, StatusTraced, Comparing, Idle
<1>2. QED
  BY <1>1, StepTold, Invariance, PTL DEF Spec

\* An update that gave the job a new status was compared with a row of another.
LEMMA NewIsSeen ==
  ASSUME RowKinds, ToldInv, NEW w \in log
  PROVE  /\ NewStatus(w) => w.seen.status # w.to.status
         /\ NewDeadline(w) => Deadline[w.seen.data] # Deadline[w.to.data]
<1>1. w.seen \in Before(w)
  BY DEF ToldInv, ReadsKnown, SeenKnown
<1>2. QED
  BY <1>1 DEF NewStatus, NewDeadline

\* However updates overlap, bookmarkers are told of every status the job had never
\* had, of every change of the status a handler had read, and of no other.
THEOREM StatusNotesAreExact == Spec => []StatusNotesExact
<1>1. IInv /\ ToldInv => StatusNotesExact
  <2> SUFFICES ASSUME IInv, ToldInv PROVE StatusNotesExact
    OBVIOUS
  <2>1. ASSUME NEW w \in log, NewStatus(w), call[w.by].pc = "done", NEW u \in Bookmarkers[w.job]
        PROVE  [user |-> u, job |-> w.job, status |-> w.to.status, stamp |-> w.to.stamp]
                 \in statusNotes
    <3>1. w.seen.status # w.to.status
      BY <2>1, NewIsSeen DEF IInv
    <3>2. QED
      BY <2>1, <3>1 DEF ToldInv, Told, StatusTold
  <2>2. ASSUME NEW n \in statusNotes
        PROVE  \E w \in log :
                 w.job = n.job /\ w.to.status = n.status /\ w.from.status # n.status
    <3>1. PICK v \in log : v.job = n.job /\ v.to.status = n.status /\ v.seen.status # v.to.status
      BY <2>2 DEF ToldInv, StatusTraced
    <3>2. Entered(v.job, v.to.status)
      BY <3>1 DEF ToldInv, ReadsKnown, SeenKnown
    <3>3. QED
      BY <3>1, <3>2 DEF Entered
  <2>3. QED
    BY <2>1, <2>2 DEF StatusNotesExact
<1>2. QED
  BY <1>1, Invariance, ToldInvariance, PTL

\* An update that still stands, and opened the job or brought its deadline near, has
\* told those who wait for it once its handler has ended.
THEOREM SettledJobsAnnounced == Spec => []SettledJobAnnounced
<1>1. IInv /\ ToldInv => SettledJobAnnounced
  <2> SUFFICES ASSUME IInv, ToldInv, NEW w \in log, w.to = job[w.job], w.to.status = "OPEN",
                      call[w.by].pc = "done"
               PROVE  /\ NewStatus(w) =>
                           \A u \in TagAudience[w.job] : [user |-> u, job |-> w.job] \in tagNotes
                      /\ w.to.data \in DueSoon /\ NewDeadline(w) =>
                           \A u \in Bookmarkers[w.job] :
                             [user |-> u, job |-> w.job, deadline |-> Deadline[w.to.data]]
                               \in soonNotes
    BY DEF SettledJobAnnounced
  <2>1. /\ NewStatus(w) => w.seen.status # "OPEN"
        /\ NewDeadline(w) => Deadline[w.seen.data] # Deadline[w.to.data]
    BY NewIsSeen DEF IInv
  <2>2. TagTold(w) /\ SoonTold(w)
    BY DEF ToldInv, Told
  <2>3. QED
    BY <2>1, <2>2 DEF TagTold, SoonTold
<1>2. QED
  BY <1>1, Invariance, ToldInvariance, PTL
=============================================================================
