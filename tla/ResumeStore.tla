---------------------------- MODULE ResumeStore ----------------------------
(***************************************************************************)
(* The resumes of one job seeker (MypageService): a row in the database    *)
(* and a file in object storage (S3 or the local disk) per resume, and one *)
(* resume marked primary.  Every query filters on the user, so users do    *)
(* not interact and one is enough.                                         *)
(*                                                                         *)
(* An action is one awaited statement or storage request; other calls of   *)
(* the user (a second tab, a retry) run in between.  An UPDATE ... WHERE   *)
(* of PostgreSQL at READ COMMITTED chooses its rows from the snapshot it   *)
(* starts with, waits for their locks, and checks the condition again on   *)
(* what was committed meanwhile; only setPrimaryResume holds locks over    *)
(* several statements.                                                     *)
(***************************************************************************)
EXTENDS Naturals, FiniteSets

CONSTANTS
  Resumes,       (* resume ids                                             *)
  SeedResumes,   (* the resumes the user uploaded earlier                  *)
  Limit,         (* RESUME_LIMIT                                           *)
  Calls,         (* the requests; each runs one endpoint once              *)
  Endpoints,     (* the endpoints this workload uses                       *)
  MaxInFlight,   (* calls served at the same time                          *)
  None

ASSUME ResumeAssumption ==
  /\ IsFiniteSet(Resumes)
  /\ SeedResumes \subseteq Resumes
  /\ Limit \in Nat /\ Cardinality(SeedResumes) <= Limit
  /\ None \notin Resumes

VARIABLES
  row,       (* Resume rows                                                *)
  objects,   (* ids whose file is in storage; the id determines the key    *)
  call,      (* where each call stands and its local variables             *)
  overlap    (* history: two calls have been in flight at once             *)

vars == <<row, objects, call, overlap>>

-----------------------------------------------------------------------------
\* at orders the rows by createdAt; seeded rows are a tie.
Row == [state : {"free", "live", "deleted"}, primary : BOOLEAN, at : Nat]

\* Statements a call can be about to execute; kept: answered ok, but the file
\* could not be removed; failed: answered with an error; lost: never answered.
Pc == {"idle", "put", "insert", "undo",
       "clear", "clearing", "mark",
       "deleteRow", "findNext", "promote", "removeObject",
       "done", "kept", "failed", "lost"}

Ended == {"done", "kept", "failed", "lost"}

\* flag: the new resume will be primary, or the deleted one was; next: the
\* resume to promote; rows: those an UPDATE chose, or whose locks are held.
Call == [pc   : Pc,
         op   : {"none", "create", "setPrimary", "delete"},
         id   : Resumes \union {None},
         flag : BOOLEAN,
         next : Resumes \union {None},
         rows : SUBSET Resumes]

Idle == [pc |-> "idle", op |-> "none", id |-> None, flag |-> FALSE,
         next |-> None, rows |-> {}]

Live == {i \in Resumes : row[i].state = "live"}
Primaries == {i \in Live : row[i].primary}

InFlight == {c \in Calls : call[c].pc \notin {"idle"} \union Ended}

Init ==
  /\ row \in {f \in [Resumes -> [state : {"free", "live"}, primary : BOOLEAN, at : {0}]] :
                /\ \A i \in Resumes : f[i].state = "live" <=> i \in SeedResumes
                /\ \A i \in Resumes \ SeedResumes : ~f[i].primary
                /\ SeedResumes = {} \/ \E i \in SeedResumes :
                     \A j \in SeedResumes : f[j].primary <=> j = i}
  /\ objects = SeedResumes
  /\ call = [c \in Calls |-> Idle]
  /\ overlap = FALSE

-----------------------------------------------------------------------------
Starts(c, endpoint) ==
  /\ call[c].pc = "idle"
  /\ endpoint \in Endpoints
  /\ Cardinality(InFlight) < MaxInFlight

Becomes(c, local) == call' = [call EXCEPT ![c] = local]
Goes(c, pc) == Becomes(c, [call[c] EXCEPT !.pc = pc])

\* setPrimaryResume of another call holds the lock of the row.
LockedByOther(c, i) ==
  \E d \in Calls \ {c} : call[d].pc = "mark" /\ i \in call[d].rows

(* The operators named Mutant... are plausible mistakes in the one that     *)
(* follows; nothing refers to them here.                                    *)

\* count < RESUME_LIMIT.
MutantRoom == Cardinality(Live) <= Limit
Room == Cardinality(Live) < Limit

\* isPrimary of a new row: count === 0.
First == Live = {}

\* The rows updateMany clears.
MutantClear(rows) == rows \intersect SeedResumes
Clear(rows) == rows \intersect Primaries

\* The statement that follows the DELETE of a row.
MutantAfterDelete(wasPrimary) == IF wasPrimary THEN "done" ELSE "removeObject"
AfterDelete(wasPrimary) == IF wasPrimary THEN "findNext" ELSE "removeObject"

\* Call c removes the file now.
MutantRemoving(c) == call[c].pc \in {"undo", "removeObject", "deleteRow"}
Removing(c) == call[c].pc \in {"undo", "removeObject"}

\* The newest of the user's remaining resumes.
Newest == {i \in Live : \A j \in Live : row[j].at <= row[i].at}

-----------------------------------------------------------------------------
(* createResume                                                             *)

\* COUNT of the user's resumes; the id is a new UUID.
CreateCount(c) ==
  /\ Starts(c, "createResume")
  /\ Room
  /\ \E i \in Resumes :
       /\ row[i].state = "free"
       /\ \A d \in Calls : call[d].id # i
       /\ Becomes(c, [Idle EXCEPT !.pc = "put", !.op = "create", !.id = i,
                                  !.flag = First])
  /\ UNCHANGED <<row, objects>>

\* writeResumeObject; a failed write is not cleaned up and may leave a file.
PutObject(c) ==
  /\ call[c].pc = "put"
  /\ \/ objects' = objects \union {call[c].id} /\ Goes(c, "insert")
     \/ objects' \in {objects, objects \union {call[c].id}} /\ Goes(c, "failed")
  /\ UNCHANGED row

\* INSERT of the row ...
NewRow(c) == [row EXCEPT ![call[c].id] =
  [state   |-> "live",
   primary |-> call[c].flag,
   at      |-> Cardinality({i \in Resumes : row[i].state # "free"}) + 1]]

InsertRow(c) ==
  /\ call[c].pc = "insert"
  /\ row' = NewRow(c)
  /\ Goes(c, "done")
  /\ UNCHANGED objects

\* ... which may fail, or be committed although its answer is an error (the
\* connection breaks): the handler then removes the file again.
InsertFails(c) ==
  /\ call[c].pc = "insert"
  /\ row' \in {row, NewRow(c)}
  /\ Goes(c, "undo")
  /\ UNCHANGED objects

-----------------------------------------------------------------------------
(* setPrimaryResume                                                         *)

\* The resume is looked up outside the transaction.
SetPrimaryFind(c) ==
  /\ Starts(c, "setPrimaryResume")
  /\ \E i \in Live :
       Becomes(c, [Idle EXCEPT !.pc = "clear", !.op = "setPrimary", !.id = i])
  /\ UNCHANGED <<row, objects>>

\* updateMany chooses the primary rows of its snapshot ...
ClearSnapshot(c) ==
  /\ call[c].pc = "clear"
  /\ Becomes(c, [call[c] EXCEPT !.pc = "clearing", !.rows = Primaries])
  /\ UNCHANGED <<row, objects>>

\* ... waits for their locks, and clears those that are still primary.
ClearPrimaries(c) ==
  /\ call[c].pc = "clearing"
  /\ \A i \in call[c].rows : ~LockedByOther(c, i)
  /\ Becomes(c, [call[c] EXCEPT !.pc = "mark", !.rows = Clear(@)])
  /\ UNCHANGED <<row, objects>>

\* UPDATE by id and COMMIT; a row that is gone rolls the transaction back.
MarkPrimary(c) ==
  /\ call[c].pc = "mark"
  /\ ~LockedByOther(c, call[c].id)
  /\ IF call[c].id \in Live
     THEN /\ row' = [i \in Resumes |->
                       IF i = call[c].id THEN [row[i] EXCEPT !.primary = TRUE]
                       ELSE IF i \in call[c].rows THEN [row[i] EXCEPT !.primary = FALSE]
                       ELSE row[i]]
          /\ Goes(c, "done")
     ELSE UNCHANGED row /\ Goes(c, "failed")
  /\ UNCHANGED objects

-----------------------------------------------------------------------------
(* deleteResume                                                             *)

\* The row is read, isPrimary with it.
DeleteFind(c) ==
  /\ Starts(c, "deleteResume")
  /\ \E i \in Live :
       Becomes(c, [Idle EXCEPT !.pc = "deleteRow", !.op = "delete", !.id = i,
                               !.flag = row[i].primary])
  /\ UNCHANGED <<row, objects>>

\* DELETE by id.
DeleteRow(c) ==
  /\ call[c].pc = "deleteRow"
  /\ ~LockedByOther(c, call[c].id)
  /\ IF call[c].id \in Live
     THEN /\ row' = [row EXCEPT ![call[c].id].state = "deleted",
                                ![call[c].id].primary = FALSE]
          /\ Goes(c, AfterDelete(call[c].flag))
     ELSE UNCHANGED row /\ Goes(c, "failed")
  /\ UNCHANGED objects

\* After the primary resume, the newest of the others is looked up ...
FindNext(c) ==
  /\ call[c].pc = "findNext"
  /\ \/ \E i \in Newest : Becomes(c, [call[c] EXCEPT !.pc = "promote", !.next = i])
     \/ Newest = {} /\ Goes(c, "removeObject")
  /\ UNCHANGED <<row, objects>>

\* ... and becomes primary; if it is gone the handler throws here.
Promote(c) ==
  /\ call[c].pc = "promote"
  /\ ~LockedByOther(c, call[c].next)
  /\ IF call[c].next \in Live
     THEN row' = [row EXCEPT ![call[c].next].primary = TRUE] /\ Goes(c, "removeObject")
     ELSE UNCHANGED row /\ Goes(c, "failed")
  /\ UNCHANGED objects

\* deleteResumeObject, at the end of deleteResume and to undo an upload whose
\* insert failed; an error of the storage is swallowed.
RemoveObject(c) ==
  /\ Removing(c)
  /\ \/ objects' = objects \ {call[c].id}
        /\ Goes(c, IF call[c].op = "create" THEN "failed" ELSE "done")
     \/ UNCHANGED objects
        /\ Goes(c, IF call[c].op = "create" THEN "failed" ELSE "kept")
  /\ UNCHANGED row

\* The process restarts or the client is gone and the call with it; an open
\* transaction is rolled back and its locks are free.
Lose(c) ==
  /\ c \in InFlight
  /\ Goes(c, "lost")
  /\ UNCHANGED <<row, objects>>

Step(c) ==
  \/ CreateCount(c) \/ PutObject(c) \/ InsertRow(c) \/ InsertFails(c)
  \/ SetPrimaryFind(c) \/ ClearSnapshot(c) \/ ClearPrimaries(c) \/ MarkPrimary(c)
  \/ DeleteFind(c) \/ DeleteRow(c) \/ FindNext(c) \/ Promote(c)
  \/ RemoveObject(c) \/ Lose(c)

TwoInFlight == \E b, c \in InFlight : b # c

Next == /\ \E c \in Calls : Step(c)
        /\ overlap' = (overlap \/ TwoInFlight')

Spec == Init /\ [][Next]_vars

-----------------------------------------------------------------------------
(* Properties                                                              *)

RowKinds ==
  /\ row \in [Resumes -> Row]
  /\ objects \subseteq Resumes
  /\ call \in [Calls -> Call]
  /\ \A c \in Calls : /\ call[c].pc # "idle" => call[c].id \in Resumes
                      /\ call[c].pc = "promote" => call[c].next \in Resumes

\* The rows and calls are of their kinds, and a call past its first statement
\* holds the ids of resumes.
TypeOK == RowKinds /\ overlap \in BOOLEAN

\* The upload of i was answered with an error.
UploadFailed(i) ==
  \E c \in Calls : call[c].op = "create" /\ call[c].id = i /\ call[c].pc = "failed"

\* A listed resume can be downloaded, wherever calls stop: the file is written
\* before the row and removed after it.  The one exception is a row whose INSERT
\* was committed but answered with an error.
RowHasObject == \A i \in Live : i \in objects \/ UploadFailed(i)

\* Call c is an upload or a deletion of i that is still running, was lost, threw,
\* or could not remove the file.
LeftBy(c, i) == /\ call[c].id = i /\ call[c].op \in {"create", "delete"}
                /\ c \in InFlight \/ call[c].pc \in {"kept", "failed", "lost"}

\* A file without a row was left by such a call; nothing else leaks files.
OrphansExplained == \A i \in objects \ Live : \E c \in Calls : LeftBy(c, i)

-----------------------------------------------------------------------------
(* What the messages of the handlers promise.  TLC refutes each when calls  *)
(* of the user overlap; its form Apart, while no two calls have been in     *)
(* flight at once, is what the handlers keep, wherever calls fail or are    *)
(* lost.                                                                    *)

\* "You can upload up to ${RESUME_LIMIT} resumes."
WithinLimit == Cardinality(Live) <= Limit
WithinLimitApart == ~overlap => WithinLimit

\* One resume at most is the primary one.
AtMostOnePrimary == \A i, j \in Primaries : i = j
AtMostOnePrimaryApart == ~overlap => AtMostOnePrimary

-----------------------------------------------------------------------------
(* The inductive invariant behind the properties                          *)

\* Which row and file a call may rely on between its statements.
Sound(c) ==
  LET l == call[c]
  IN  /\ l.pc = "idle" => l.op = "none"
      /\ l.pc \in {"put", "insert", "undo"} => l.op = "create"
      /\ l.pc \in {"clear", "clearing", "mark"} => l.op = "setPrimary"
      /\ l.pc \in {"deleteRow", "findNext", "promote", "removeObject"} => l.op = "delete"
      /\ l.pc \in {"put", "insert"} => row[l.id].state = "free"
      /\ l.pc = "insert" => l.id \in objects
      /\ l.op \in {"setPrimary", "delete"} => row[l.id].state # "free"
      /\ l.pc \in {"findNext", "promote", "removeObject"} => row[l.id].state = "deleted"

\* An id is generated for one upload only.
OwnIds ==
  \A c, d \in Calls :
    call[c].op = "create" /\ call[d].op = "create" /\ call[c].id = call[d].id => c = d

\* What holds however calls overlap.
Core == /\ RowKinds /\ (\A c \in Calls : Sound(c)) /\ OwnIds
        /\ RowHasObject /\ OrphansExplained

\* A call that is alone still stands on what it read.
Alone(c) ==
  LET l == call[c]
  IN  /\ l.pc \in {"put", "insert"} => Room /\ (l.flag => First)
      /\ l.pc \in {"clearing", "mark"} => l.rows = Primaries
      /\ l.pc = "deleteRow" => l.flag = row[l.id].primary
      /\ l.pc \in {"findNext", "promote"} => Primaries = {}

\* Calls not seen overlapping are alone.
Apart == ~overlap => ~TwoInFlight /\ \A c \in Calls : Alone(c)

IInv == /\ Core /\ overlap \in BOOLEAN /\ Apart
        /\ WithinLimitApart /\ AtMostOnePrimaryApart
=============================================================================
