----------------------------- MODULE Bookmarks -----------------------------
(***************************************************************************)
(* The bookmarks of one user on jobs (MypageService), the engagement       *)
(* events that company analytics count, and the "deadline soon" notices    *)
(* (NotificationsService), which come from three places: bookmarking a job *)
(* that is due soon, an update of a job by an administrator, and opening   *)
(* the list of notices.  Bookmarks of companies have neither events nor    *)
(* notices.  Queries filter on the user, so one user is enough; no code    *)
(* deletes a job.                                                          *)
(*                                                                         *)
(* An action is one awaited statement; no transaction spans two of them.   *)
(***************************************************************************)
EXTENDS Naturals, FiniteSets

CONSTANTS
  Jobs,          (* job ids                                                *)
  SoonDays,      (* DEADLINE_SOON_DAYS                                     *)
  MaxDay,        (* bound: the days that pass                              *)
  Calls,         (* the requests; each runs one endpoint once              *)
  MaxInFlight,   (* calls served at the same time                          *)
  None

ASSUME BookmarksAssumption == SoonDays \in Nat /\ MaxDay \in Nat /\ None \notin Nat

VARIABLES
  today,     (* the date                                                   *)
  job,       (* Job rows                                                   *)
  marked,    (* the jobs with a Bookmark row                               *)
  born,      (* bookmarks made so far, by job: the id of the last one      *)
  events,    (* JobEngagementEvent rows of the user, counted               *)
  notice,    (* Notification rows, by job and date of the deadline         *)
  call,      (* where each call stands and its local variables             *)
  wasSoon,   (* history: <<job, date>> that have been due soon             *)
  sure       (* history: those due soon and bookmarked ever since a call   *)
             (* began, until its end                                       *)

vars == <<today, job, marked, born, events, notice, call, wasSoon, sure>>

-----------------------------------------------------------------------------
Days == 0 .. (MaxDay + SoonDays)

\* due: the date of a FIXED_DATE deadline.
Job == [open : BOOLEAN, due : Days \union {None}]

\* dedupeKey: bookmark:deadline-soon:<job>:<date of the deadline>.
Keys == Jobs \X Days

Pc == {"idle", "insert", "addedEvent", "deleteRow", "removedEvent",
       "soonJob", "soonUsers", "listJobs", "soonInsert", "mark",
       "done", "failed", "lost"}

Ended == {"done", "failed", "lost"}

\* id: the bookmark that was found; todo: notices to be inserted, or marked as
\* read; owed: the bookmark is written or deleted and its event is not recorded.
Call == [pc   : Pc,
         op   : {"none", "createBookmark", "deleteBookmark", "updateJob", "list",
                 "markRead"},
         job  : Jobs \union {None},
         id   : Nat,
         todo : SUBSET Keys,
         owed : BOOLEAN]

Idle == [pc |-> "idle", op |-> "none", job |-> None, id |-> 0, todo |-> {},
         owed |-> FALSE]

InFlight == {c \in Calls : call[c].pc \notin {"idle"} \union Ended}

\* isDeadlineSoon, and the same condition as a query.
Soon(j) == /\ job[j].open /\ job[j].due # None
           /\ job[j].due >= today /\ job[j].due <= today + SoonDays

SoonKeys(jobs) == {<<j, job[j].due>> : j \in {i \in jobs : Soon(i)}}

Init ==
  /\ today = 0
  /\ job \in [Jobs -> Job]
  /\ marked \in SUBSET Jobs
  /\ born = [j \in Jobs |-> IF j \in marked THEN 1 ELSE 0]
  /\ events = [j \in Jobs |-> [added |-> born[j], removed |-> 0]]
  /\ notice = [k \in Keys |-> "none"]
  /\ call = [c \in Calls |-> Idle]
  /\ wasSoon = SoonKeys(Jobs)
  /\ sure = [c \in Calls |-> {}]

-----------------------------------------------------------------------------
Starts(c) == call[c].pc = "idle" /\ Cardinality(InFlight) < MaxInFlight
At(c, pc) == call[c].pc = pc
Becomes(c, local) == call' = [call EXCEPT ![c] = local]
Goes(c, pc) == Becomes(c, [call[c] EXCEPT !.pc = pc])

(* The operators named Mutant... are plausible mistakes in the one that     *)
(* follows; nothing refers to them here.                                    *)

\* Unique (userId, targetType, targetId): INSERT fails when the job is marked.
MutantInserts(j) == TRUE
Inserts(j) == j \notin marked

\* DELETE by id: the bookmark that was found is still there.
Deletes(j, id) == j \in marked /\ born[j] = id

\* createMany with skipDuplicates: an existing notice is left as it is.
Noticed(k) == [notice EXCEPT ![k] = IF @ = "none" THEN "unread" ELSE @]

\* Whether the user is told of an update of job j.
MutantTold(j) == born[j] > 0 \/ Soon(j)
Told(j) == j \in marked

\* The notices left to insert after k.
MutantRest(todo, k) == {}
Rest(todo, k) == todo \ {k}

Rows == <<job, marked, born, events, notice>>

-----------------------------------------------------------------------------
(* MypageService                                                            *)

\* createBookmark: one that exists is a conflict ...
CreateFind(c) ==
  /\ Starts(c)
  /\ \E j \in Jobs :
       Becomes(c, [Idle EXCEPT !.pc = IF j \in marked THEN "failed" ELSE "insert",
                               !.op = "createBookmark", !.job = j])
  /\ UNCHANGED Rows

\* ... otherwise it is inserted, unless another call was faster (P2002) ...
Insert(c) ==
  /\ At(c, "insert")
  /\ IF Inserts(call[c].job)
     THEN /\ marked' = marked \union {call[c].job}
          /\ born' = [born EXCEPT ![call[c].job] = @ + 1]
          /\ Becomes(c, [call[c] EXCEPT !.pc = "addedEvent", !.owed = TRUE])
     ELSE UNCHANGED <<marked, born>> /\ Goes(c, "failed")
  /\ UNCHANGED <<job, events, notice>>

\* ... BOOKMARK_ADDED is recorded, and a notice is due if the deadline is soon.
AddedEvent(c) ==
  /\ At(c, "addedEvent")
  /\ \/ /\ events' = [events EXCEPT ![call[c].job].added = @ + 1]
        /\ Becomes(c, [call[c] EXCEPT !.pc = "soonJob", !.owed = FALSE])
     \/ UNCHANGED events /\ Goes(c, "failed")
  /\ UNCHANGED <<job, marked, born, notice>>

\* deleteBookmark: the bookmark is found by id and user ...
DeleteFind(c) ==
  /\ Starts(c)
  /\ \E j \in marked :
       Becomes(c, [Idle EXCEPT !.pc = "deleteRow", !.op = "deleteBookmark", !.job = j,
                               !.id = born[j]])
  /\ UNCHANGED Rows

\* ... deleted by id, which fails if it is gone (P2025) ...
DeleteRow(c) ==
  /\ At(c, "deleteRow")
  /\ IF Deletes(call[c].job, call[c].id)
     THEN /\ marked' = marked \ {call[c].job}
          /\ Becomes(c, [call[c] EXCEPT !.pc = "removedEvent", !.owed = TRUE])
     ELSE UNCHANGED marked /\ Goes(c, "failed")
  /\ UNCHANGED <<job, born, events, notice>>

\* ... and BOOKMARK_REMOVED is recorded.
RemovedEvent(c) ==
  /\ At(c, "removedEvent")
  /\ \/ /\ events' = [events EXCEPT ![call[c].job].removed = @ + 1]
        /\ Becomes(c, [call[c] EXCEPT !.pc = "done", !.owed = FALSE])
     \/ UNCHANGED events /\ Goes(c, "failed")
  /\ UNCHANGED <<job, marked, born, notice>>

-----------------------------------------------------------------------------
(* AdminService and NotificationsService                                    *)

\* An administrator changes status or deadline; the notices follow.
UpdateJob(c) ==
  /\ Starts(c)
  /\ \E j \in Jobs, r \in Job :
       /\ job' = [job EXCEPT ![j] = r]
       /\ Becomes(c, [Idle EXCEPT !.pc = "soonJob", !.op = "updateJob", !.job = j])
  /\ UNCHANGED <<marked, born, events, notice>>

\* createDeadlineSoonNotificationForUserJob, notifyBookmarkDeadlineSoonForJob:
\* the job is read; nothing follows if it is not due soon ...
SoonJob(c) ==
  /\ At(c, "soonJob")
  /\ Becomes(c, [call[c] EXCEPT
       !.todo = SoonKeys({call[c].job}),
       !.pc = IF ~Soon(call[c].job) THEN "done"
              ELSE IF call[c].op = "updateJob" THEN "soonUsers" ELSE "soonInsert"])
  /\ UNCHANGED Rows

\* ... the second reads who has bookmarked it ...
SoonUsers(c) ==
  /\ At(c, "soonUsers")
  /\ Goes(c, IF Told(call[c].job) THEN "soonInsert" ELSE "done")
  /\ UNCHANGED Rows

\* list, unreadCount: the jobs bookmarked ...
ListBookmarks(c) ==
  /\ Starts(c)
  /\ Becomes(c, [Idle EXCEPT !.pc = IF marked = {} THEN "done" ELSE "listJobs",
                             !.op = "list", !.todo = marked \X Days])
  /\ UNCHANGED Rows

\* ... those of them due soon ...
ListJobs(c) ==
  /\ At(c, "listJobs")
  /\ Becomes(c, [call[c] EXCEPT
       !.todo = @ \intersect SoonKeys(Jobs),
       !.pc = IF call[c].todo \intersect SoonKeys(Jobs) = {} THEN "done" ELSE "soonInsert"])
  /\ UNCHANGED Rows

\* ... createDeadlineSoonNotifications, one job after the other.
SoonInsert(c) ==
  /\ At(c, "soonInsert")
  /\ \E k \in call[c].todo :
       /\ notice' = Noticed(k)
       /\ Becomes(c, [call[c] EXCEPT !.todo = Rest(@, k),
                                     !.pc = IF Rest(call[c].todo, k) = {} THEN "done" ELSE @])
  /\ UNCHANGED <<job, marked, born, events>>

\* markRead: the notice is found; one that was read is answered at once ...
MarkReadFind(c) ==
  /\ Starts(c)
  /\ \E k \in Keys :
       /\ notice[k] # "none"
       /\ Becomes(c, [Idle EXCEPT !.pc = IF notice[k] = "read" THEN "done" ELSE "mark",
                                  !.op = "markRead", !.todo = {k}])
  /\ UNCHANGED Rows

\* ... and marked.
MarkRead(c) ==
  /\ At(c, "mark")
  /\ notice' = [k \in Keys |-> IF k \in call[c].todo THEN "read" ELSE notice[k]]
  /\ Goes(c, "done")
  /\ UNCHANGED <<job, marked, born, events>>

\* markAllRead: one UPDATE.
MarkAllRead(c) ==
  /\ Starts(c)
  /\ notice' = [k \in Keys |-> IF notice[k] = "unread" THEN "read" ELSE notice[k]]
  /\ Becomes(c, [Idle EXCEPT !.pc = "done", !.op = "markRead"])
  /\ UNCHANGED <<job, marked, born, events>>

\* The process restarts, or the database does not answer.
Lose(c) ==
  /\ c \in InFlight
  /\ Goes(c, "lost")
  /\ UNCHANGED Rows

Step(c) ==
  /\ \/ CreateFind(c) \/ Insert(c) \/ AddedEvent(c)
     \/ DeleteFind(c) \/ DeleteRow(c) \/ RemovedEvent(c)
     \/ UpdateJob(c) \/ SoonJob(c) \/ SoonUsers(c)
     \/ ListBookmarks(c) \/ ListJobs(c) \/ SoonInsert(c)
     \/ MarkReadFind(c) \/ MarkRead(c) \/ MarkAllRead(c) \/ Lose(c)
  /\ UNCHANGED today

NextDay ==
  /\ today < MaxDay
  /\ today' = today + 1
  /\ UNCHANGED <<job, marked, born, events, notice, call>>

\* What is due soon and bookmarked.
Tracked == SoonKeys(marked)

Next ==
  /\ NextDay \/ \E c \in Calls : Step(c)
  /\ wasSoon' = wasSoon \union SoonKeys(Jobs)'
  /\ sure' = [c \in Calls |->
                IF call[c].pc \in Ended THEN sure[c]
                ELSE IF call'[c].pc = "idle" THEN {}
                ELSE IF call[c].pc = "idle" THEN Tracked'
                ELSE sure[c] \intersect Tracked']

Spec == Init /\ [][Next]_vars

-----------------------------------------------------------------------------
(* Properties                                                              *)

Kinds ==
  /\ today \in 0 .. MaxDay
  /\ job \in [Jobs -> Job]
  /\ marked \subseteq Jobs
  /\ born \in [Jobs -> Nat]
  /\ events \in [Jobs -> [added : Nat, removed : Nat]]
  /\ notice \in [Keys -> {"none", "unread", "read"}]
  /\ call \in [Calls -> Call]
  /\ \A c \in Calls : call[c].pc \in {"insert", "addedEvent", "deleteRow", "removedEvent",
                                      "soonJob", "soonUsers"} => call[c].job \in Jobs

\* Rows and calls are of their kinds.
TypeOK == Kinds /\ wasSoon \subseteq Keys /\ sure \in [Calls -> SUBSET Keys]

Owed(j, op) == {c \in Calls : call[c].job = j /\ call[c].op = op /\ call[c].owed}

\* What analytics count agrees with the bookmarks there are: additions minus
\* removals are the current bookmark, but for the calls that stand or stopped
\* between a bookmark and its event.  Calls that overlap, on the same bookmark
\* too, record nothing twice and miss nothing.
EventsExplainBookmarks ==
  \A j \in Jobs :
    events[j].added + Cardinality(Owed(j, "createBookmark"))
      = events[j].removed + Cardinality(Owed(j, "deleteBookmark"))
        + (IF j \in marked THEN 1 ELSE 0)

\* A notice is of a deadline that was soon, of an open job, and for a user who
\* had bookmarked the job, although job and bookmark are read one after the
\* other and may have changed when the notice is inserted.
NoticesEarned ==
  \A k \in Keys : notice[k] # "none" => k \in wasSoon /\ born[k[1]] > 0

\* Opening the list makes up for every notice missed before: what was due soon
\* and bookmarked during all of the call has its notice when it is answered.
ListTellsAll ==
  \A c \in Calls : call[c].op = "list" /\ call[c].pc = "done" =>
    \A k \in sure[c] : notice[k] # "none"
-----------------------------------------------------------------------------
(* Why they hold                                                           *)

\* The keys a notice may be inserted for, now and from now on.
Earned == {k \in wasSoon : born[k[1]] > 0}

\* What each call has established where it stands.
Sound(c) ==
  LET l == call[c] IN
  /\ l.owed => l.pc \in {"addedEvent", "removedEvent", "failed", "lost"}
  /\ l.pc \in {"addedEvent", "removedEvent"} => l.owed
  /\ l.pc \in {"insert", "addedEvent"} => l.op = "createBookmark"
  /\ l.pc \in {"deleteRow", "removedEvent"} => l.op = "deleteBookmark"
  /\ l.pc \in {"soonJob", "soonUsers", "mark"} => l.op # "list"
  /\ l.pc = "addedEvent" \/ (l.pc = "soonJob" /\ l.op # "updateJob") => born[l.job] > 0
  /\ l.pc = "soonUsers" => l.todo \subseteq wasSoon /\ \A k \in l.todo : k[1] = l.job
  /\ l.pc = "listJobs" => l.op = "list" /\ sure[c] \subseteq l.todo
                          /\ \A k \in l.todo : born[k[1]] > 0
  /\ l.pc = "soonInsert" => l.todo \subseteq Earned
  /\ l.pc = "mark" => \A k \in l.todo : notice[k] # "none"
  /\ l.op = "list" /\ l.pc \in {"soonInsert", "done"} =>
       \A k \in sure[c] : notice[k] # "none" \/ (l.pc = "soonInsert" /\ k \in l.todo)

\* Bookmarks, events and notices of one job agree with the calls about it.
Accounted(j) ==
  /\ IsFiniteSet(Owed(j, "createBookmark")) /\ IsFiniteSet(Owed(j, "deleteBookmark"))
  /\ events[j].added + Cardinality(Owed(j, "createBookmark"))
       = events[j].removed + Cardinality(Owed(j, "deleteBookmark"))
         + (IF j \in marked THEN 1 ELSE 0)

IInv ==
  /\ TypeOK
  /\ SoonKeys(Jobs) \subseteq wasSoon
  /\ \A j \in marked : born[j] > 0
  /\ NoticesEarned
  /\ \A j \in Jobs : Accounted(j)
  /\ \A c \in Calls : Sound(c)
=============================================================================
