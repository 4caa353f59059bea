# Accountit: verification project

TLA+ models of Accountit, a job board for accountants: companies submit job
postings, administrators review them, job seekers keep resumes and bookmarks, ask
to be verified as CPAs and discuss on community boards. The modules here model
the server (`apps/api`, NestJS over Prisma and PostgreSQL) at the grain at which
its requests interleave, one awaited statement at a time, and around it the
deployment of the one host it runs on, the page of job postings in the browser
(`apps/web`), and the server of the older issue-backlog application that is kept in
the tree (`backend`).

## 1. The system

### Parts, state and operations

| Part | Code | State | Operations that change it |
|---|---|---|---|
| Job postings and moderation | `admin/admin.service.ts`, `companies/companies.service.ts` | `Job`, `JobSubmission` rows | create, update, refresh, close a job; submit, change, cancel, approve, reject a posting or an edit of one |
| Notifications | `notifications/notifications.service.ts` | `Notification` rows, unique by (user, dedupe key) | fan-out when a job changes; notice when a bookmark is made; backfill when the list is opened; mark read |
| CPA verification | `mypage/mypage.service.ts`, `admin/admin.service.ts` | `PersonalVerificationRequest`, `PersonalProfile` | apply, approve, reject |
| Resumes | `mypage/mypage.service.ts` | `Resume` rows, files in S3 or on disk | upload, choose the primary one, delete |
| Job fit analysis | `mypage/*` | `JobFitAnalysis`, unique by (user, job, resume) | create or reuse, with an AI call in between |
| Bookmarks, engagement | `mypage/mypage.service.ts`, `jobs/jobs.service.ts` | `Bookmark`, `JobEngagementEvent` | add, remove, count views |
| Images | `assets/assets.service.ts`, profile and company services | `Asset` rows, objects, references of users and companies | reserve, upload, complete, delete, replace |
| Company profiles | `companies`, `admin` services | `Company`, `CompanyProfileSubmission` | submit, approve, reject |
| Community | `community/community.service.ts` | posts, answers, counters | post, answer, like, accept an answer |
| Accounts, saved searches, subscriptions | `users`, `auth` services | `User`, presets, tag subscriptions | sign up, log in, save, subscribe |
| Search, calendar, directory | `jobs`, `companies` services | none (reads) | list, filter |
| AI drafting | `company-job-autofill.service.ts`, `job-fit-analysis-ai.service.ts` | none | one request to a language model |
| Deployment | `ops/ops-deploy.service.ts`, `scripts/*.sh` | a lock directory, the running processes | trigger, deploy, restart |
| Web client | `apps/web` | browser state | calls the API; the jobs page fetches list, calendar and bookmarks as the user clicks |
| Legacy application | `backend/`, `frontend/` | repositories, work items, sync jobs, duplicate groups in SQLite | connect, sync in a request or in the background, close an item, analyse |

### How the parts interact

Everything shared is in PostgreSQL and in the object store. A handler is an `async`
function: it may be suspended at every `await`, and other requests (of other users,
other tabs, retries) run meanwhile. There is no in-process lock and no queue.
Prisma runs at the database's default isolation, READ COMMITTED:

- a statement outside a transaction is atomic and sees what was committed when it
  started;
- the reads of an interactive `$transaction` lock nothing, so a check inside a
  transaction is as stale as one outside it; only its writes, made visible together by
  the commit, are atomic;
- `update({where: {id}})` does not repeat the condition (status, owner) that an earlier
  read checked; it fails only if the row is gone, which rolls its transaction back;
- an `UPDATE ... WHERE condition` picks its rows from its snapshot, waits for their
  locks and re-evaluates the condition on those rows only.

A job update calls the notification service after the commit; approval of a posting
creates a job; approval of a verification request writes the profile which the
community's trainee board reads; a resume is used by the fit analysis and deleted with
it; company and profile images refer to assets. A deployment replaces the checkout and
the process under all of this, and the post that triggers it is served by the very
process it will replace. In the browser each change of a filter, the page or the month
starts a request, and the answers come in any order.

### What is hard here

Check-then-act across two statements (nearly every write), stale comparisons that decide
which notices are sent, several statements or a statement and a storage request that
fail half way, calls that are lost with the process, limits counted before the insert;
in the deployment, a script that replaces the file it is read from, a lock that a killed
script leaves, a restart that outlives the script; in the browser, late answers; in the
legacy server, pages that move while they are read, rows deleted under a background
job whose rejection ends the process, and jobs that a restart leaves unfinished.
PROJECT.json lists each place at its line (`hazards`), with the properties that would
catch it going wrong, or, where the code does not prevent it, with a note that says what
is still promised.

### What makes each part correct

- Moderation: a submission is decided once, published once, never after it was
  cancelled; an edit never reopens a job; bookmarkers and subscribers are told of what
  happened, and only of that.
- Verification: a verified profile rests on an approval; a pending profile on a request
  somebody can decide; one decision per request.
- Resumes: a listed resume can be downloaded; files without a row come only from
  interrupted or failed calls; the limit; exactly one primary resume.
- Community: a post and its answers agree on which answer is accepted, one answer has the
  mark, no like or view is lost, only members act on the trainee board.
- Deployment: one at a time, never ahead of the migrations, with the commit that was
  asked for; the lock is released and the new API comes up.
- Images: what a page shows can be fetched; what storage keeps without a row is accounted
  for; a profile shows one picture.
- Bookmarks: the events that analytics count explain the bookmarks there are; a notice is
  earned; opening the list makes up for notices missed.
- Fit analysis: an analysis that is kept rests on a file that was there; each answer of
  the language model is accounted for.
- Jobs page: list and calendar are those of what is chosen; the page shown exists unless
  the list lost pages or failed to load since the filters were chosen; a lit heart is a
  bookmark.
- Legacy server: a sync copies everything, an item closed stays closed, jobs end, nothing
  but a disconnected repository ends the process, duplicate groups are the classes of
  similar items.

## 2. Modules

| Module | What it is |
|---|---|
| `JobModeration` | Jobs, submissions and the notices of job changes. |
| `SubmissionReview` | What moderation promises a company: an abstract specification. |
| `JobModerationProofs` | Theorems about `JobModeration`: what holds however calls overlap, what until they do (the refinement among it), and that no notice is missed. |
| `CpaVerification` | Verification requests and profiles. |
| `Membership` | What verification promises a job seeker: an abstract specification. |
| `CpaVerificationProofs` | Theorems about `CpaVerification`. |
| `ResumeStore` | Resume rows and files of one user. |
| `Community` | Posts, answers, counters, acceptance and the trainee gate. |
| `CommunityProofs` | Theorems about `Community`. |
| `Images`, `ImagesProofs` | The image assets of one account from reservation to deletion, and the places that show them. |
| `FitAnalysis` | Job fit analyses; extends `ResumeStore`, whose calls go on beside it. |
| `ResumeProofs` | Theorems about `ResumeStore` and `FitAnalysis`. |
| `Bookmarks` | Bookmarks, engagement events and deadline notices of one user. |
| `Deployment`, `DeploymentProofs` | Workflow, trigger, `deploy-ec2.sh`, `restart-api.sh` and the API processes of the host. |
| `JobsPage` | The page of job postings in the browser. |
| `BookmarksProofs` | Theorems about `Bookmarks` and about `JobsPage`, whose hearts are bookmarks. |
| `Backlog` | The legacy server: repositories, syncs, jobs, closing an item. |
| `BacklogAnalysis` | Duplicate groups and priorities; extends `Backlog`. |
| `BacklogProofs` | Theorems about `Backlog`, while analyses run beside it, and about `BacklogAnalysis`. |
| `MC*` | Values of the constants for TLC, shared by the `.cfg` files. |

**State.** A table is a function from ids to rows; a row not inserted yet has a status
of its own ("NONE", "free", or no author), so an insert picks such an id. `call` maps
each request to its program counter, the statement it will execute next, and the local
variables its handler keeps across the `await`.

**Actions.** One action per awaited statement: `ApproveFind` is the `findUnique` and
`assertPending` of `approveJobSubmission`, `ApproveFindTarget` its `findFirst` of the
target, `ApproveUpdateCommit` and `ApproveCreateCommit` the writes with the commit. A
guard that throws in the code leaves the call idle or ends it. `Lose` ends a call
anywhere: a crash, a timeout, a dropped connection, a deadlock the database breaks; an
open transaction is rolled back and its locks are released. Notices are separate steps
after the commit, in the order of `emitJobNotifications`, each with its own read of the
job.

An `UPDATE ... WHERE` of READ COMMITTED chooses its rows from a snapshot and may then
wait, so where rows are cleared by condition the statement is two actions. In
`ResumeStore` `setPrimaryResume` keeps the row locks of its transaction; in `Community`
`Clear` is the snapshot of `resolvePost`'s `updateMany` and `Accept` the moment it has
the locks, with the two updates by id and the commit. `updateMany` there has the
condition `postId`, which never changes, so the rows of its snapshot are the rows it
clears; an answer inserted in between is not among them (`late`).

Outside the API the grain is what can be interleaved there. In `Deployment` an action is
one command of a script that touches the host, or one await of `OpsDeployService`; any
command may fail (`set -e` ends the script through its EXIT trap) and a script may be
killed between two commands, which skips the trap. In `JobsPage` it is an event of the
user, a render with the effects it runs, a microtask, a request being served, or the
callback of an answer. In `Backlog` it is an awaited statement or a GitHub request; a
background job is started with `void runSyncJob(...)`, so an error in its catch block is
an unhandled rejection, which ends the Node process and every call with it (`Dies`).
`Kill` and `Start` end and start the process from outside; nothing resumes a job.

In `ResumeStore` a storage write may fail after it stored the file, an INSERT may be
committed and answered with an error, a removal may fail silently.

**Abstractions.** A payload stands for all fields a client writes about a job, kept
apart only by its deadline; texts are left out. `stamp` is a job's `updatedAt`, part of the
key of a status notice: any of `Times`, so that two updates may share a millisecond. A company and its owner are one actor,
so the company lookup before each company endpoint always succeeds. The fields of a
verification request are its user, its stage and whether personal data is still stored.
`SeedResumes` are resumes uploaded earlier, with their files; the rows of the demo seed
(`prisma/mock.ts`) have no files and are not such resumes. `SeedSubmissions` wait for
review from the start, in any legal combination. The boards `CPA_PREP` and `SENIOR` are
treated alike by the code and are one here. In `Community` `ReviewProfile` is what
`CpaVerification` does to the one column the gate reads: any user may become a member
or cease to be one at any time. No endpoint deletes a post or an answer; `createPost`
of the trainee board reads the gate before the post exists, all others after they read
the post. `listPosts` only reads.

- `Images`: one account, since every query filters on the owner. A presigned PUT needs no
  call of the API, so the client may write an object at any time after the row, again
  too; a file on the local disk is written in two steps, so it can be read half written.
- `Bookmarks`: one user. Bookmarks of companies have neither events nor notices, and the
  events of views and clicks are left out. Dates are days.
- `FitAnalysis`: the two queries of a `Promise.all` run in one order; a job is open or
  not; of the sample of the resume only what became of the file is kept.
- `Deployment`: commits are numbered in the order of their pushes and `deploy-ec2.sh` has
  the same text in all of them; `npm` and the `node` it starts are one process. The
  script runs from `.run/deploy-ec2.active.sh`, which a second deployment overwrites while
  the first is read. If bash reads on after `cp` has truncated the file and before it is
  filled again, it finds the end and exits with 0 (`CutShort`). Such a deployment ends as
  "cut", not as "ok", and `OkIncludesRequested` does not speak of it. A script whose
  environment holds `DEPLOY_SCRIPT_REEXECUTED=1` takes no copy and runs from the file of
  the checkout (`Copied`). An API that a restart started has that variable from the script
  that left the restart, and hands it to the scripts it spawns: `Inheriting` has every
  process but the first, which may or may not have been started in that way.
- `JobsPage`: the page is mounted and has read its URL. The server is its bookmarks, with
  an id each, and how many pages it has for each filter (`pages`, none at all among them),
  which changes by one at any time (`JobsChange`). The pagination offers what
  `pagination.tsx` does for the count of the last list: the pages of a group and the first
  of the groups beside it. `calendarLoading`, true only before the first calendar, is left out. The
  page of companies fetches its list in the same way.
- `Backlog`: SQLite statements fail only for rows that are not there. A repository that is
  connected again is a new row. Issues and pull requests have one sequence of numbers. A
  failure to get a token is an error of the page request.
- `BacklogAnalysis`: texts do not change; which of them are alike is any relation of
  `Similarities`. The model that writes a priority may fail, which ends the analysis.

**History.** Variables that no guard and no write of the code's state depends on.
`JobModeration`: `log` holds each committed update of a job with the row its handler
had read, the row it replaced and the one it made, `edition` numbers the updates of a row,
`origin` is the submission whose approval created a job. `Community`: `log` holds
what calls committed, `admitted` who has ever been verified, `late` the answers inserted
while another of the post was being accepted. `overlap` (the other modules of the API;
in `BacklogAnalysis`, of analyses) says whether two calls have ever been in flight at the
same time. `Deployment`: `killed` holds the scripts that were killed, `disturbed` whether
a restart failed or was interfered with. `Bookmarks`: `wasSoon` holds the deadlines that
have been due soon, `sure` those due soon and bookmarked ever since a call began.
`FitAnalysis`: `paid` counts the answers of the language model. `Backlog`: `seen` holds
what GitHub has had since a call began and what ran beside it. `JobsPage`: `amiss` says
whether a list failed to load, or the server came to have fewer pages, since the filters
were chosen; `marred` holds the postings whose heart may be wrong by one of the causes
`HeartsTrue` names.

**Promises Apart.** The handlers check a condition in one statement and write in
another, so many of the things their messages promise are true only while calls do not
overlap. Such a promise `P` is stated as `~overlap => P`, an action as
`[][~overlap' => A]_vars`, a refinement as each step before the first overlap being a
step of the abstract specification. These are properties of the full model: calls may
still be lost anywhere, with everything that leaves behind, and one call follows
another; nothing but the overlap is excluded. The runs and proofs show that nothing but
overlap breaks the promise; section 3 lists what it breaks. A hazard that is such an
overlap is not covered by the promise Apart, and PROJECT.json says so in its note.

## 3. Runs

TLC explores every interleaving of a bounded number of calls; `MaxInFlight` bounds how
many are served at once.

| Run | Question | Bounds |
|---|---|---|
| `JobNotices` | Do notices tell of committed updates, and of every change, compared with the row it replaced? | 2 jobs (1 bookmarked), 3 overlapping calls, 2 deadlines, 2 values of `updatedAt` |
| `Moderation` | What holds of submissions and edits however calls overlap, and what until they do? | 2 companies, 1 seeded and 2 new jobs, 3 submissions (2 waiting from the start), 3 overlapping calls, one payload, one `updatedAt` |
| `VerificationRaces` | Are members and applicants backed by requests, and does verification implement `Membership` until calls overlap? | 2 users (1 a seeded member), 3 requests, 5 calls, 3 at once |
| `ResumeRaces` | Are rows and files consistent under failures and races; the limit and the primary resume until calls overlap? | 3 resumes (2 uploaded earlier), limit 2, 4 calls, 3 at once |
| `CommunityRaces` | Do acceptances, counters and the trainee gate stand overlapping calls? | 2 users, 1 administrator, 2 posts (1 seeded), 3 answers (2 seeded), 3 overlapping calls |
| `Deployments` | One deployment at a time, never ahead of its migrations, with the commit asked for; is the lock released, does the new API come up? | 2 deployments, 3 processes (1 serving), 2 pushes; `FairSpec` |
| `ImageRaces` | Can what is shown be fetched, and is what storage keeps accounted for? | 2 profile pictures (S3 and disk), 1 logo on the disk, 3 overlapping calls |
| `BookmarkRaces` | Do events explain bookmarks, are notices earned, does the list tell all? | 2 jobs, 3 overlapping calls, a window of 0 days, 1 day passes |
| `FitRaces` | Does an analysis rest on a file that was there; what happens to answers paid for? | 2 resumes (1 uploaded earlier), 2 uploads or deletions at once, 1 job, 3 requests, 2 at once |
| `BacklogSync` | Has a sync copied everything, what ends the process, does a closed item stay closed, do jobs end? | 2 repositories (1 connected), 3 issues (2 on GitHub, 1 copied), pages of 1, 2 calls, 1 change on GitHub, any kills, starts, disconnections; `FairSpec` |
| `BacklogGroups` | Are duplicate groups the classes of similar items, and is an item in one of them? | 1 repository, 3 issues (2 copied), all 8 similarities, 1 call, 2 analyses |
| `JobsPage` | Are list, calendar, page and hearts those of the server and the choices? | 2 filters with 0 to 2 pages each, groups of 1 page, 2 months, 2 jobs, 2 clicks on hearts, 3 events of the user and others |

The bounds are those at which the interesting cases happen. Three calls are the least
with which a notice is computed from one update, sent after a second one and read after
a third. A double decision needs two calls on one row, and a third lets one be lost or
the target be closed. A wrong primary needs two resumes and a third to be promoted or
refused by the limit; the fourth call uploads, removes and marks in one behaviour. Two
acceptances and an answer in between are the least that leave two marks; a third
answer lets the acceptances choose among seeded ones. `JobNotices` and `Moderation`
share the work: the first has readers of notices and no submissions, the second
submissions and no readers, and `updateJob` and `closeMyJob` run in both.

Two deployments are the least of which one can wait, be refused, or overwrite the script
of the other; the third process is the one the second leaves, and two pushes let a
deployment fetch more than the one that asked for it (for safety the theorems cover any
number). Three calls on images hold a completion, a repeated upload and a replacement at
once. With a window of 0 days a deadline is soon on one day and over on the next, so one
day is enough to pass in and out of it; an update that moves a deadline, a bookmark and a
list overlap in three calls. Three requests for an analysis are the least with which two
miss the cache and a third finds what they left; the resume they read is uploaded, or
deleted, meanwhile. Pages of 1 make every change on GitHub move an item over the boundary
of a page; one change is what can make a sync miss an issue or list one twice, and a
second repository is the first one connected again. Three items are the least that are
joined by a chain. In the browser two pages that can become one or none make a page that
no longer exists; groups of one page make every click one of an arrow to another group
(the theorems cover any size). Three events are a choice, another before the answer of the first, and a
change on the server; two clicks overlap on one heart or on two.

Each property has a mutant (PROJECT.json), a plausible mistake in one definition, that
TLC finds to violate it under the same bounds. Calls, and rows without seeded contents,
are interchangeable, which justifies the symmetry sets; the two runs with liveness have
none. Type invariants are theorems; no run lists them.

No run checks deadlock: each call, deployment and click runs once, so every behaviour
ends when all are done. That nothing waits for ever where something has to come is what
`LockReleased`, `TakesEffect` and `JobsEnd` say.

### Fairness and liveness

- `Deployments` assumes weak fairness of each script, of each restart left behind, of the
  await of the process that spawned a script, and of a process that boots or was told to
  stop: the operating system schedules what was started. Nobody has to push, post, or
  give up waiting, and a script need not be killed.
- `BacklogSync` assumes weak fairness of what the server does for each call while the
  process runs: the event loop resumes an awaited promise. Users, GitHub, kills and starts
  are up to others.
- In the other components a call may be lost at every statement, the code retries
  nothing and nothing waits for an event, so they promise nothing eventually.

### Promises that overlap breaks

The handlers' own messages promise some things that two overlapping calls break, because
the condition is checked in one statement and not repeated in the write. The definitions
are in the modules, and TLC refutes each of them when it is listed as a property; the runs
or the proofs have the form Apart.

| Definition | What overlap does |
|---|---|
| `JobModeration!PublishedOnce` | Two approvals publish one submission twice. |
| `JobModeration!ReviewedIsFinal` | A company changes or deletes a submission already approved. |
| `JobModeration!EditsOnlyOpenJobs` | An edit is applied to a job closed after it was read. |
| `CpaVerification!ReviewedIsFinal` | A decided verification request is decided again. |
| `ResumeStore!WithinLimit` | More resumes than the limit. |
| `ResumeStore!AtMostOnePrimary` | Two primary resumes. |

Two edits of one job waiting at once (`OnePendingEditApart`), two pending verification
requests of one user (`OnePendingRequestApart`), a picture and a URL on one profile
(`OneImageApart`), an item in two duplicate groups (`OneGroupApart`) and an item closed
here that a sync shows open again (`ClosedStaysApart`) arise in the same way. Two answers
of a post may be marked accepted when one comes while another is being accepted
(`OneAcceptedUnlessLate`).

Other exceptions the properties name are states the system stays in: a killed deployment
leaves the lock, and every later one is refused until the directory is removed by hand
(`LockReleased`); a sync job under way when the process ends stays QUEUED or RUNNING
(`JobsEnd`); an event or an answer of the model that was paid for is lost with its call
(`EventsExplainBookmarks`, `PaidAccounted`).

- `StatusNotesExact` and `SettledJobAnnounced`: `emitJobNotifications` compares a write
  with the row its handler had read, not with the row it replaced. A handler that read a
  job open, and writes it open after another call closed it, reopens it and tells nobody;
  with a deadline it is the same. That is the only change that goes untold: one is told if
  the row read still agreed with the row replaced, and whenever the job had never had the
  new value.
- `PageExists`: a list that failed to load leaves the pagination with the numbers of an
  earlier one; and a page clicked on a count that is older than the closing of a job, or
  whose jobs closed, is past the end. It is shown empty, and when one page or none is left
  without a pagination, until a filter is changed.
- `HeartsTrue`: a heart stays wrong until the page is loaded again if its bookmark was
  changed on another page, its clicks overlapped, were answered while the first list of
  bookmarks was on its way, or were carried out without an answer. If the first list fails,
  all hearts start dark: those of stored bookmarks stay dark, since a click on one asks for
  a second bookmark and is refused (409). A lit heart has its bookmark even then.

## 4. Proofs

TLAPS checks these for every value of the constants: any number of users, rows and
calls, lost in any way.

| Theorem | Property |
|---|---|
| `JobModerationProofs!TypeCorrect`, `Truthful` | `TypeOK`, `NoticesTruthful` |
| `JobModerationProofs!NeverPublishedCancelled`, `ReopenedByAdmin` | `CancelledIsNeverPublished`, `OnlyAdminReopens` |
| `JobModerationProofs!StatusNotesAreExact`, `SettledJobsAnnounced` | `StatusNotesExact`, `SettledJobAnnounced` |
| `JobModerationProofs!OnePendingEdit`, `ReviewsFinal`, `EditsMeetOpen` | `OnePendingEditApart`, `ReviewedIsFinalApart`, `EditsOnlyOpenJobsApart` |
| `JobModerationProofs!ReviewRefinement` | `ImplementsReview` |
| `CpaVerificationProofs!TypeCorrect`, `Backed`, `Decidable` | `TypeOK`, `MembershipBacked`, `PendingHasRequest` |
| `CpaVerificationProofs!OnePending`, `DecisionsFinal` | `OnePendingRequestApart`, `ReviewedIsFinalApart` |
| `CpaVerificationProofs!Refinement` | `ImplementsMembership` |
| `ResumeProofs!TypeCorrect`, `Downloadable`, `Orphans` | `TypeOK`, `RowHasObject`, `OrphansExplained` |
| `ResumeProofs!Limited`, `OnePrimary` | `WithinLimitApart`, `AtMostOnePrimaryApart` |
| `ResumeProofs!AnalysesSawTheResume`, `StillDownloadable` | `SawTheResume`, `RowHasObject` of the composition |
| `ResumeProofs!AnswersAccounted` | `PaidAccounted` |
| `ResumeProofs!AnalysesOnlyRead` | `FitSpec => Spec`: the composition implements `ResumeStore` |
| `CommunityProofs!TypeCorrect`, `Shown`, `OneMark` | `TypeOK`, `AcceptedIsShown`, `OneAcceptedUnlessLate` |
| `CommunityProofs!Counters`, `Guarded` | `CountersExact`, `TraineeBoardGuarded` |
| `DeploymentProofs!TypeCorrect`, `DeploysOneAtATime` | `TypeOK`, `OneDeployment` |
| `DeploymentProofs!SchemaFirst`, `DeploysRequested` | `SchemaCoversCode`, `OkIncludesRequested` |
| `DeploymentProofs!LocksExplained`, `EffectIsNotLost` | `LockExplained`, `EffectComes` |
| `ImagesProofs!TypeCorrect`, `Fetchable` | `TypeOK`, `ShownHasObject` |
| `ImagesProofs!OrphansAreLate`, `OneImage` | `OrphansWrittenLate`, `OneImageApart` |
| `BookmarksProofs!BookmarksTypes`, `EventsAgree` | `TypeOK`, `EventsExplainBookmarks` |
| `BookmarksProofs!NoticesHaveReasons`, `ListCatchesUp` | `NoticesEarned`, `ListTellsAll` |
| `BookmarksProofs!PageKinds`, `ListStaysCurrent` | `PageTypes`, `ListIsCurrent` of `JobsPage` |
| `BookmarksProofs!PagesExist`, `HeartsTellTheTruth` | `PageExists`, `HeartsTrue` of `JobsPage` |
| `BacklogProofs!SyncsAreComplete`, `CrashesHaveOneCause` | `SyncedAll`, `CrashNeedsDisconnect` |
| `BacklogProofs!ClosedStaysClosed`, `JobsAreTruthful` | `ClosedStaysApart`, `JobsTellTruth` |
| `BacklogProofs!BacklogKinds`, `GroupsStayApart` | `TypeOK` of the composition, `OneGroupApart` |
| `BacklogProofs!UnionFindIsExact` | what `Duplicates` returns are exactly the `Classes` |
| `BacklogProofs!GroupsAreComponents`, `AnalysesAreWhole` | `GroupsAreClasses`, `WholeApart` |

Those of the type invariants, and `OnePendingRequestApart`, `ReviewedIsFinalApart`,
`EditsOnlyOpenJobsApart`, `OneImageApart`, `WholeApart`, `LockExplained`, `EffectComes` and
`JobsTellTruth`, are proved only, and so is `UnionFindIsExact`; the runs check the rest as
well.

**Assumptions.** Only the named ASSUMEs of the modules: seeds are subsets, the
placeholder `None` is none of the values (where a proof needs that), ids of posts are
none of answers and administrators are not users, the audience functions are defined on the jobs and only
seeded jobs have labels and bookmarks (no endpoint of the model writes either),
`Resumes` is finite (the insert counts rows) and the seeded resumes are within the
limit, `Issues` is a finite set of numbers (a page of the list counts those before it), there
are filters and months to choose from, a group of the pagination has a page at least,
bounds are natural numbers, the first API process is one of the processes and all others
inherit the environment of a script, each asset has a purpose, and one of the
purposes is the profile. TLC evaluates them in every run.

**Arguments.** Each module proof is an inductive invariant.

- `JobModeration!IInv` adds to the properties what calls hold between their statements:
  the ids of rows that were there (`CallsWellFormed`; job rows are never deleted), that
  the notices a call still owes tell of logged updates (`CallsLogged`), and that the
  last update of a job is what its row says (`RowsLogged`), so that a notice built from
  a fresh read of the row is truthful too. Without the last two a notice step could
  not be related to the log. `OriginsSound` says that the job a submission names is the one
  its approval created, which the refinement needs.
- `JobModeration!AInv` is the invariant of the promises Apart, proved on top of `IInv`.
  `Apart` says that while no overlap has been seen one call at most is in flight and
  what it read is still so (`Alone`): its submission is pending, its target open, no
  edit of its job waits. A step that would make this false is one of a second call,
  and that step sets `overlap`. `UnusedIsBlank` is needed because an insert may pick any
  unused id. From `AInv` each step before the first overlap maps to a step of
  `SubmissionReview` or to a stutter.
- `CpaVerification!IInv` is `Core` with `Apart`. `Core` is `TypeOK` with
  `MembershipBacked` and `PendingHasRequest`: together they are inductive. A rejection
  may overwrite the profile of a member, but never leave one without an approval; an
  approval may leave pending requests, never a pending profile without one. `Apart`
  adds that a pending request shows in its user's profile, which the refinement needs.
- `ResumeStore!IInv`: `Core` has `Sound`, what row and file each call may rely on at
  each statement, and `OwnIds`, that an id is generated for one upload only. `Within` is
  the frame the steps share: a step of one call uses up no row and no file another call
  relies on. `Alone` carries what the limit and the primary mark need: an upload about
  to store or insert still has room, and the locks a call about to mark a primary
  resume holds are those of the primary rows.
- `Community!IInv`: `Holds` (rows a call read still exist and an answer stays with its
  post), `LetIn` (whoever is past the gate of the trainee board has been verified
  once), `Clears` (the rows an `updateMany` under way will clear are of its post, and
  all of them but the late ones), and `LogSound` (a call that has not ended has counted
  nothing, so what it logs is new and raises one counter by one). `Kept` is the frame:
  rows stay on their boards and posts, and an answer that comes during an acceptance is
  late. `Clears` is what makes one mark: when the acceptance commits, every other
  accepted answer of the post is in its rows or late.

- `Deployment!IInv`: `HolderHasLock` and `OneDeployment` are inductive together (the
  `mkdir` that takes the lock fails while anybody holds it, a kill keeps it, and only its
  holder removes it); with at most one holder nobody else moves the checkout, so what was
  migrated is at least what is built (`BuildsMigrated`) and what was fetched, checked out
  is at least what was asked for (`Fetched`). `Started` says that a restart about to write
  the pid file has started a process.
- `Deployment!EffectInv` stands on it. `Versions`: the checkout only gets newer, so the
  newest build satisfies every deployment that ended well. While nothing interferes there
  is one restart at a time and no script moves the checkout until the process it started
  has loaded it (`RestartsAlone`); a script that reaches the restart has a complete build
  (`Built`); only the process of the pid file is alive, so the one that boots finds the
  port free (`PidFileNames`, `OneAlive`). `LockExplained` needs only `IInv`: a script that
  ends takes the lock with it, and nobody but its holder can have it.
- `Images!IInv`: `ShownIsReady` (a place shows a completed asset of its purpose), `Stored`
  (a completed asset has its object, or a call that stopped accounts for it), and `Sound`,
  what each call may rely on between its statements. `Apart` and `Alone` carry
  `OneImageApart` as in `JobModeration`.
- `FitAnalysis!FitInv` takes `ResumeStore!IInv` unchanged: the steps of an analysis leave
  its variables alone, and a deletion of a resume takes its analyses with it. `SampleSound`
  follows the sample from the storage to the insert: one that found no file is of a resume
  whose row is gone, so the insert fails, or whose upload failed. `PaidInv` adds the count
  (`Paid`): a request that owes an answer raises `paid` and the number of those who owe by
  one, the insert moves one from the owing to the analysis, and a resume that is deleted
  takes both sides out of the equation and never comes back (`OwedSound`).
- `JobModeration!ToldInv` stands on `IInv` and says of each logged update where its
  notices are: still owed by its call, sent, or lost with it (`StatusTold`, `TagTold`,
  `SoonTold`). `Follows` ties the call to the update. These speak of the row the handler had
  read; `ReadsKnown` leads from it to the row replaced: what a handler compares with is a
  row its job had (`Before`), and if the status it read is gone, or it wrote another, some
  update brought the job to the status it has (`Entered`). So a handler that mistakes a
  change for none has read the very value it writes, and the job had had it before.
  `StatusTraced` is the other direction, that each notice goes back to an update whose
  handler saw a change; with `Entered` there was one. A tag or deadline notice is built from a fresh read of the row: it
  is due only to a job left as the update made it, and then the read finds just that.
- `Bookmarks!IInv`: `Accounted` counts, per job, the calls that stand between a bookmark and
  its event; a step changes one call, so it moves each count by one at most. `Sound` says
  what each call has established where it stands; bookmark ids and notices only grow, and
  the set `sure` of a call only shrinks, so the other calls keep it (`Frame`).
- `JobsPage!PageInv`: the request whose answer is not ignored is the one for what is
  chosen, and once nothing is loading so is what is shown (`ListFollows`,
  `CalendarFollows`). `PagesFollow` says the same of the filters alone, also between a
  click on a page number and the render, and that, while nothing is amiss, the count the
  pagination has is no more than the server's and the page chosen exists: without it the
  pagination could count the pages of other filters. That every page offered is within the
  count, or before the page it is offered beside, is lemma `OfferedPages`. `HeartsFollow`: of the clicks on a posting that is not marred one at
  most is under way; what it has been told is what the server has, and the hearts, or the
  first list of bookmarks that will replace them, agree with the server whenever no answer
  is on its way.
- `Backlog!SyncInv`: `Covered` says that what a sync has still to copy is on the page it
  holds or on one it will ask for (`ToCome`). It is an invariant because, unless an issue
  is removed, positions in the list only grow (lemma `Pushed`), so what is ahead of a page
  stays ahead. `Closes` says that no sync that began after an item was closed holds it as
  open, and `Together` that calls in flight at once know each other. `GroupInv`: an
  analysis that is alone has cleared the groups of its repository and writes classes of
  one union-find structure, which are disjoint whatever that structure is (`Cleared`);
  groups and analyses keep to their repository (`AtHome`).
- `Backlog!JobInv` ties the row of a job to where its call stands (`JobRow`): the two change
  in one step, the process may die before any of them, and a repository that goes takes the
  row. With `SyncedAll` it gives `JobsTellTruth`.
- `UnionFindIsExact` is about the operators alone, on any finite set of numbers. No set of
  items is closed under the parents but for its roots (`Leads`: each nonempty set has a root
  or an item whose parent is outside); `find` and `union` keep that, and `find` keeps every
  root. The induction theorems of the library have an operator as a parameter, which no
  installed prover can instantiate; recursion along the parents, and over the pairs, is
  proved instead with a minimal subset of the items, or of the pairs, on which no solution
  is known yet (`MinimalSubset`, `Recursion`). The fold keeps `Grouped`: similar items of the
  pairs taken so far have one root, and the items of one root are chained.
- `BacklogAnalysis!ClassInv` adds to `GroupsAreClasses` that what an analysis has still to
  write are classes of the items it read, which no step changes until it is over.
  `WholeInv` says of an analysis that is alone what it has written so far (`SoFar`): the
  classes but those still to come, each with all its items but the one being written; when
  nothing is to come that is `WholeApart`.

The action properties follow from the same invariants, one step per action.

Of the properties the runs check, three are only model-checked.

**Only model-checked.** `LockReleased`, `TakesEffect` and `JobsEnd` are liveness under
fairness, out of the prover's reach. What they say of single states is proved: a lock that
is there has a script that will remove it (`LockExplained`), a deployment that ended well
is served or has a restart before it (`EffectComes`), and a job that is not over is under
way or lost (`JobsTellTruth`). That those steps happen is what the runs add, from fairness.

## 5. Not modelled

- Submissions of company profiles: the check and the write of `SubmissionReview` once
  more, over other columns; images of a company are in `Images`.
- Accounts, saved searches, tag subscriptions, views and clicks: single statements on rows
  of the caller. Deletion of a user with everything that cascades from it: no endpoint
  does it.
- Search, the calendar and the directory of the API, and every other read: no state of
  their own; what they return is the SQL they build.
- AI drafting: one request to a language model. The call made by the fit analysis is a
  step of `FitAnalysis`.
- Authentication and roles (guards before the handlers), validation of request bodies, the
  texts of notices, parsing of the environment, shared enumerations, demo rows.
- The other pages of the web client: forms over single requests, and views without state
  beyond one answer. The list of companies fetches as the list of jobs does.
- Of the legacy application the OAuth login, its lists, and the browser that polls a job.

Most of the tree is layout, request bodies, SQL and demo data of this kind, so the mapped
lines are a small share of it; they are the code in which steps interleave.

## 6. What could follow

1. `CompanyProfiles`, with `SubmissionReview` as its abstract specification too.
2. The composition of `Community` with `CpaVerification`, in which `ReviewProfile` is a
   step of the latter.
3. Pure operators (salary ranges, deadline windows, preset normalisation) against
   reference definitions.
