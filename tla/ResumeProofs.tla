---------------------------- MODULE ResumeProofs ----------------------------
(***************************************************************************)
(* Theorems about ResumeStore and FitAnalysis, for any number of resumes,  *)
(* jobs and calls, any limit, and wherever calls fail or are lost.  A step *)
(* of the composition is a step of ResumeStore or leaves it alone, so its  *)
(* invariant carries over; SampleSound adds what a request for an analysis *)
(* knows of its resume while it waits for the model, and Paid what became  *)
(* of each of the model's answers.                                         *)
(***************************************************************************)
EXTENDS FitAnalysis, FiniteSetTheorems, TLAPS

-----------------------------------------------------------------------------
(* The local state of a call                                               *)

\* Going on to another statement changes the pc alone.
LEMMA GoesIs ==
  ASSUME RowKinds, NEW c \in Calls, NEW pc \in Pc, Goes(c, pc)
  PROVE  /\ call' \in [Calls -> Call]
         /\ \A d \in Calls \ {c} : call'[d] = call[d]
         /\ call'[c].pc = pc /\ call'[c].op = call[c].op /\ call'[c].id = call[c].id
         /\ call'[c].next = call[c].next
<1>1. call \in [Calls -> Call]
  BY DEF RowKinds
<1>2. [call[c] EXCEPT !.pc = pc] \in Call
  BY <1>1 DEF Call
<1>3. QED
  BY <1>1, <1>2 DEF Goes, Becomes, Call

\* A call that is given the local state l.
LEMMA BecomesIs ==
  ASSUME RowKinds, NEW c \in Calls, NEW l \in Call, Becomes(c, l)
  PROVE  /\ call' \in [Calls -> Call]
         /\ \A d \in Calls \ {c} : call'[d] = call[d]
         /\ call'[c] = l
  BY DEF RowKinds, Becomes

\* A step of call c: no row turns free again or comes back, and the rows it uses
\* up and the files it removes are its own or those of deleted resumes.
Within(c) ==
  /\ call' \in [Calls -> Call] /\ row' \in [Resumes -> Row] /\ objects' \subseteq Resumes
  /\ \A d \in Calls \ {c} : call'[d] = call[d]
  /\ call'[c].pc # "idle" /\ call'[c].id \in Resumes
  /\ call'[c].pc = "promote" => call'[c].next \in Resumes
  /\ \A i \in Resumes : row[i].state # "free" => row'[i].state # "free"
  /\ \A i \in Resumes : row[i].state = "deleted" => row'[i].state = "deleted"
  /\ \A i \in Resumes : row[i].state = "free" /\ row'[i].state # "free" =>
       call[c].op = "create" /\ call[c].id = i
  /\ \A i \in objects \ objects' :
       row[i].state = "deleted" \/ (call[c].op = "create" /\ call[c].id = i)
  /\ \/ call'[c].op = call[c].op /\ call'[c].id = call[c].id
     \/ call'[c].op = "create" => \A d \in Calls : call[d].id # call'[c].id

\* Such a step keeps the kinds, what the other calls rely on and the ids apart.
LEMMA WithinKeeps ==
  ASSUME Core, NEW c \in Calls, Within(c), Sound(c)'
  PROVE  RowKinds' /\ (\A d \in Calls : Sound(d)') /\ OwnIds'
<1>1. RowKinds'
  BY DEF Core, RowKinds, Within
<1>2. ASSUME NEW d \in Calls, d # c
      PROVE  Sound(d)'
  <2>1. Sound(d) /\ call'[d] = call[d] /\ (call[d].pc # "idle" => call[d].id \in Resumes)
    BY <1>2 DEF Core, Within, RowKinds
  <2>2. call[d].pc \in {"put", "insert"} => ~(call[c].op = "create" /\ call[c].id = call[d].id)
    BY <1>2, <2>1 DEF Core, OwnIds, Sound
  <2>3. call[d].pc \in {"put", "insert"} => row'[call[d].id].state = "free"
    BY <2>1, <2>2 DEF Sound, Within
  <2>4. call[d].pc = "insert" => call[d].id \in objects'
    BY <2>1, <2>2 DEF Sound, Within
  <2>5. call[d].pc \in {"findNext", "promote", "removeObject"} =>
          row'[call[d].id].state = "deleted"
    BY <2>1 DEF Sound, Within
  <2>6. call[d].op \in {"setPrimary", "delete"} => row'[call[d].id].state # "free"
    BY <2>1 DEF Sound, Within
  <2>7. QED
    BY <2>1, <2>3, <2>4, <2>5, <2>6 DEF Sound
<1>3. OwnIds'
  BY DEF Core, OwnIds, Within
<1>4. QED
  BY <1>1, <1>2, <1>3

\* A step that lists no resume without its file, and removes files only of
\* resumes it does not list, or answers that the upload failed.
LEMMA DownloadsKept ==
  ASSUME Core, NEW c \in Calls, Within(c), call[c].pc \notin Ended,
         \A i \in Live' : (i \in Live /\ (i \in objects => i \in objects' \/ UploadFailed(i)'))
                         \/ i \in objects'
  PROVE  RowHasObject'
<1>1. \A i \in Resumes : UploadFailed(i) => UploadFailed(i)'
  BY DEF UploadFailed, Within, Ended
<1>2. QED
  BY <1>1 DEF Core, RowHasObject, Live

\* A step that leaves no file behind except as LeftBy says.
LEMMA OrphansKept ==
  ASSUME Core, NEW c \in Calls, Within(c),
         \A i \in objects' \ Live' :
           (i \in objects \ Live /\ ~LeftBy(c, i)) \/ LeftBy(c, i)'
  PROVE  OrphansExplained'
<1>1. ASSUME NEW i \in objects' \ Live'
      PROVE  \E d \in Calls : LeftBy(d, i)'
  <2>1. CASE LeftBy(c, i)'
    BY <2>1
  <2>2. CASE i \in objects \ Live /\ ~LeftBy(c, i)
    <3>1. PICK d \in Calls : LeftBy(d, i)
      BY <2>2 DEF Core, OrphansExplained
    <3>2. d # c /\ call'[d] = call[d]
      BY <2>2, <3>1 DEF Within
    <3>3. QED
      BY <3>1, <3>2 DEF LeftBy, InFlight
  <2>3. QED
    BY <1>1, <2>1, <2>2
<1>2. QED
  BY <1>1 DEF OrphansExplained

\* The three together.
LEMMA StepKeeps ==
  ASSUME Core, NEW c \in Calls, Within(c), Sound(c)', call[c].pc \notin Ended,
         \A i \in Live' : (i \in Live /\ (i \in objects => i \in objects' \/ UploadFailed(i)'))
                         \/ i \in objects',
         \A i \in objects' \ Live' :
           (i \in objects \ Live /\ ~LeftBy(c, i)) \/ LeftBy(c, i)'
  PROVE  Core'
  BY WithinKeeps, DownloadsKept, OrphansKept DEF Core

-----------------------------------------------------------------------------
(* Steps that write nothing                                                *)

\* The first statement of a call: a lookup.
LEMMA StartStep ==
  ASSUME Core, NEW c \in Calls, call[c].pc = "idle", NEW l \in Call, Becomes(c, l),
         UNCHANGED <<row, objects>>, l.id \in Resumes,
         \/ /\ l.pc = "put" /\ l.op = "create" /\ row[l.id].state = "free"
            /\ \A d \in Calls : call[d].id # l.id
         \/ l.pc = "clear" /\ l.op = "setPrimary" /\ row[l.id].state = "live"
         \/ l.pc = "deleteRow" /\ l.op = "delete" /\ row[l.id].state = "live"
  PROVE  Core'
<1>1. /\ call' \in [Calls -> Call] /\ call'[c] = l
      /\ \A d \in Calls \ {c} : call'[d] = call[d]
  BY BecomesIs DEF Core
<1>2. Within(c)
  BY <1>1 DEF Within, Core, RowKinds
<1>3. Sound(c)'
  BY <1>1 DEF Sound
<1>4. ~LeftBy(c, l.id) /\ \A i \in Resumes : ~LeftBy(c, i)
  BY DEF LeftBy, InFlight
<1>5. Live' = Live /\ call[c].pc \notin Ended
  BY DEF Live, Ended
<1>6. QED
  BY <1>2, <1>3, <1>4, <1>5, StepKeeps DEF Core, RowKinds

\* A call goes on to another statement, or ends other than well, and writes
\* nothing.
LEMMA ReadStep ==
  ASSUME Core, NEW c \in Calls, NEW l \in Call, Becomes(c, l),
         UNCHANGED <<row, objects>>,
         c \in InFlight, l.op = call[c].op, l.id = call[c].id,
         \/ l.pc \in {"kept", "failed", "lost"}
         \/ call[c].op = "setPrimary" /\ l.pc \in {"clearing", "mark"}
         \/ /\ call[c].pc = "findNext" /\ l.pc \in {"promote", "removeObject"}
            /\ l.pc = "promote" => l.next \in Resumes
  PROVE  Core'
<1>1. /\ call' \in [Calls -> Call] /\ call'[c] = l
      /\ \A d \in Calls \ {c} : call'[d] = call[d]
  BY BecomesIs DEF Core
<1>2. Within(c)
  BY <1>1 DEF Within, Core, RowKinds, InFlight
<1>3. Sound(c)'
  BY <1>1 DEF Sound, Core
<1>4. \A i \in Resumes : LeftBy(c, i) => LeftBy(c, i)'
  BY <1>1 DEF LeftBy, InFlight, Ended
<1>5. Live' = Live /\ call[c].pc \notin Ended
  BY DEF Live, Ended, InFlight
<1>6. QED
  BY <1>2, <1>3, <1>4, <1>5, StepKeeps DEF Core, RowKinds

-----------------------------------------------------------------------------
(* Steps that write a row or a file                                        *)

\* The row an INSERT writes.
LEMMA NewRowKind ==
  ASSUME RowKinds, NEW c \in Calls, call[c].id \in Resumes
  PROVE  /\ NewRow(c) \in [Resumes -> Row]
         /\ NewRow(c)[call[c].id].state = "live"
         /\ \A i \in Resumes : i # call[c].id => NewRow(c)[i] = row[i]
<1>1. Cardinality({i \in Resumes : row[i].state # "free"}) \in Nat
  BY ResumeAssumption, FS_Subset, FS_CardinalityType
<1>2. Cardinality({i \in Resumes : row[i].state # "free"}) + 1 \in Nat
  BY <1>1
<1>3. call[c].flag \in BOOLEAN
  BY DEF RowKinds, Call
<1> DEFINE n == Cardinality({i \in Resumes : row[i].state # "free"}) + 1
           new == [state |-> "live", primary |-> call[c].flag, at |-> n]
<1>4. new \in Row /\ new.state = "live"
  BY <1>2, <1>3 DEF Row
<1>5. NewRow(c) = [row EXCEPT ![call[c].id] = new]
  BY DEF NewRow
<1> HIDE DEF new
<1>6. QED
  BY <1>4, <1>5 DEF RowKinds

\* Storing the file of an upload.
LEMMA PutStep ==
  ASSUME Core, NEW c \in Calls, PutObject(c)
  PROVE  Core'
<1>1. PICK pc \in {"insert", "failed"} :
        /\ Goes(c, pc) /\ objects' \in {objects, objects \union {call[c].id}}
        /\ pc = "insert" => call[c].id \in objects'
  BY DEF PutObject
<1>2. /\ call[c].pc = "put" /\ row' = row /\ call[c].op = "create"
      /\ call[c].id \in Resumes /\ row[call[c].id].state = "free"
  BY DEF PutObject, Core, Sound, RowKinds
<1>3. /\ call' \in [Calls -> Call] /\ \A d \in Calls \ {c} : call'[d] = call[d]
      /\ call'[c].pc = pc /\ call'[c].op = "create" /\ call'[c].id = call[c].id
  BY <1>1, <1>2, GoesIs DEF Core, Pc
<1>4. Within(c)
  BY <1>1, <1>2, <1>3 DEF Within, Core, RowKinds
<1>5. Sound(c)'
  BY <1>1, <1>2, <1>3 DEF Sound
<1>6. \A i : i = call[c].id => LeftBy(c, i)'
  BY <1>3 DEF LeftBy, InFlight, Ended
<1>7. /\ Live' = Live /\ objects \subseteq objects' /\ call[c].pc \notin Ended
      /\ \A i \in objects' : i \in objects \/ i = call[c].id
      /\ \A i : LeftBy(c, i) => i = call[c].id
  BY <1>1, <1>2 DEF Live, Ended, LeftBy
<1>8. \A i \in Live' :
        (i \in Live /\ (i \in objects => i \in objects' \/ UploadFailed(i)')) \/ i \in objects'
  BY <1>7
<1>9. \A i \in objects' \ Live' :
        (i \in objects \ Live /\ ~LeftBy(c, i)) \/ LeftBy(c, i)'
  BY <1>6, <1>7
<1>10. QED
  BY <1>4, <1>5, <1>7, <1>8, <1>9, StepKeeps

\* The INSERT of an upload, whatever its answer.
LEMMA InsertStep ==
  ASSUME Core, NEW c \in Calls, InsertRow(c) \/ InsertFails(c)
  PROVE  Core'
<1>1. PICK pc \in {"done", "undo"} :
        /\ Goes(c, pc) /\ row' \in {row, NewRow(c)}
        /\ pc = "done" => row' = NewRow(c)
  BY DEF InsertRow, InsertFails
<1>2. /\ call[c].pc = "insert" /\ objects' = objects /\ call[c].op = "create"
      /\ call[c].id \in Resumes /\ call[c].id \in objects
      /\ row[call[c].id].state = "free"
  BY DEF InsertRow, InsertFails, Core, Sound, RowKinds
<1>3. /\ call' \in [Calls -> Call] /\ \A d \in Calls \ {c} : call'[d] = call[d]
      /\ call'[c].pc = pc /\ call'[c].op = "create" /\ call'[c].id = call[c].id
  BY <1>1, <1>2, GoesIs DEF Core, Pc
<1>4. /\ row' \in [Resumes -> Row]
      /\ \A i \in Resumes : i # call[c].id => row'[i] = row[i]
      /\ row'[call[c].id].state \in {"free", "live"}
      /\ pc = "done" => row'[call[c].id].state = "live"
  <2>1. CASE row' = NewRow(c)
    BY <1>2, <2>1, NewRowKind DEF Core
  <2>2. CASE row' = row /\ pc # "done"
    BY <1>2, <2>2 DEF Core, RowKinds
  <2>3. QED
    BY <1>1, <2>1, <2>2
<1>5. Within(c)
  BY <1>2, <1>3, <1>4 DEF Within, Core, RowKinds
<1>6. Sound(c)'
  BY <1>1, <1>2, <1>3 DEF Sound
<1>7. \A i : i = call[c].id /\ i \notin Live' => LeftBy(c, i)'
  BY <1>1, <1>2, <1>3, <1>4 DEF LeftBy, InFlight, Ended, Live
<1>8. /\ \A i \in Live' : i \in Live \/ i = call[c].id
      /\ Live \subseteq Live' /\ call[c].pc \notin Ended
      /\ \A i : LeftBy(c, i) => i = call[c].id
  BY <1>2, <1>4 DEF Live, Ended, LeftBy
<1>9. \A i \in Live' :
        (i \in Live /\ (i \in objects => i \in objects' \/ UploadFailed(i)')) \/ i \in objects'
  BY <1>2, <1>8
<1>10. \A i \in objects' \ Live' :
        (i \in objects \ Live /\ ~LeftBy(c, i)) \/ LeftBy(c, i)'
  BY <1>2, <1>7, <1>8
<1>11. QED
  BY <1>5, <1>6, <1>8, <1>9, <1>10, StepKeeps

\* Marking or promoting a resume changes no state of a row.
LEMMA FlagStep ==
  ASSUME Core, NEW c \in Calls, NEW pc \in {"done", "removeObject"}, Goes(c, pc),
         objects' = objects, row' \in [Resumes -> Row],
         \A i \in Resumes : row'[i].state = row[i].state,
         \/ call[c].pc = "mark" /\ pc = "done"
         \/ call[c].pc = "promote" /\ pc = "removeObject"
  PROVE  Core'
<1>1. /\ call' \in [Calls -> Call] /\ \A d \in Calls \ {c} : call'[d] = call[d]
      /\ call'[c].pc = pc /\ call'[c].op = call[c].op /\ call'[c].id = call[c].id
  BY GoesIs DEF Core, Pc
<1>2. call[c].id \in Resumes /\ Sound(c)
  BY DEF Core, RowKinds
<1>3. Within(c)
  BY <1>1, <1>2 DEF Within, Core, RowKinds
<1>4. Sound(c)'
  BY <1>1, <1>2 DEF Sound
<1>5. \A i : LeftBy(c, i) => LeftBy(c, i)'
  BY <1>1, <1>2 DEF LeftBy, InFlight, Ended, Sound
<1>6. Live' = Live /\ call[c].pc \notin Ended
  BY DEF Live, Ended
<1>7. QED
  BY <1>3, <1>4, <1>5, <1>6, StepKeeps

\* The DELETE of a row.
LEMMA DeleteStep ==
  ASSUME Core, NEW c \in Calls, NEW pc \in {"findNext", "removeObject"}, Goes(c, pc),
         call[c].pc = "deleteRow", objects' = objects,
         row' = [row EXCEPT ![call[c].id].state = "deleted",
                            ![call[c].id].primary = FALSE]
  PROVE  Core'
<1>1. /\ call' \in [Calls -> Call] /\ \A d \in Calls \ {c} : call'[d] = call[d]
      /\ call'[c].pc = pc /\ call'[c].op = call[c].op /\ call'[c].id = call[c].id
  BY GoesIs DEF Core, Pc
<1>2. /\ call[c].id \in Resumes /\ call[c].op = "delete"
      /\ row[call[c].id].state # "free"
  BY DEF Core, RowKinds, Sound
<1>3. /\ row' \in [Resumes -> Row] /\ row'[call[c].id].state = "deleted"
      /\ \A i \in Resumes : i # call[c].id => row'[i] = row[i]
  BY <1>2 DEF Core, RowKinds, Row
<1>4. Within(c)
  BY <1>1, <1>2, <1>3 DEF Within, Core, RowKinds
<1>5. Sound(c)'
  BY <1>1, <1>2, <1>3 DEF Sound
<1>6. /\ \A i : i = call[c].id => LeftBy(c, i)'
      /\ \A i : LeftBy(c, i) => i = call[c].id
  BY <1>1, <1>2 DEF LeftBy, InFlight, Ended
<1>7. /\ Live' \subseteq Live /\ call[c].pc \notin Ended
      /\ \A i \in Live : i \in Live' \/ i = call[c].id
  BY <1>2, <1>3 DEF Live, Ended
<1>8. \A i \in Live' :
        (i \in Live /\ (i \in objects => i \in objects' \/ UploadFailed(i)')) \/ i \in objects'
  BY <1>7
<1>9. \A i \in objects' \ Live' :
        (i \in objects \ Live /\ ~LeftBy(c, i)) \/ LeftBy(c, i)'
  BY <1>6, <1>7
<1>10. QED
  BY <1>4, <1>5, <1>7, <1>8, <1>9, StepKeeps

\* Removing the file, which may fail.
LEMMA RemoveStep ==
  ASSUME Core, NEW c \in Calls, RemoveObject(c)
  PROVE  Core'
<1>1. PICK pc \in {"done", "kept", "failed"} :
        /\ Goes(c, pc) /\ objects' \in {objects, objects \ {call[c].id}}
        /\ pc = "done" => call[c].id \notin objects'
        /\ pc = "failed" <=> call[c].op = "create"
  BY DEF RemoveObject
<1>2. /\ call[c].pc \in {"undo", "removeObject"} /\ row' = row
      /\ call[c].id \in Resumes /\ Sound(c)
  BY DEF RemoveObject, Removing, Core, RowKinds
<1>3. /\ call' \in [Calls -> Call] /\ \A d \in Calls \ {c} : call'[d] = call[d]
      /\ call'[c].pc = pc /\ call'[c].op = call[c].op /\ call'[c].id = call[c].id
  BY <1>1, GoesIs DEF Core, Pc
<1>4. \/ call[c].op = "create"
      \/ call[c].op = "delete" /\ row[call[c].id].state = "deleted"
  BY <1>2 DEF Sound
<1>5. Within(c)
  BY <1>1, <1>2, <1>3, <1>4 DEF Within, Core, RowKinds
<1>6. Sound(c)'
  BY <1>1, <1>2, <1>3, <1>4 DEF Sound
<1>7. \A i : call[c].op = "create" /\ i = call[c].id => UploadFailed(i)'
  BY <1>1, <1>3 DEF UploadFailed
<1>8. \A i \in objects' : LeftBy(c, i) => LeftBy(c, i)'
  BY <1>1, <1>3 DEF LeftBy, InFlight, Ended
<1>9. /\ Live' = Live /\ call[c].pc \notin Ended /\ objects' \subseteq objects
      /\ \A i \in objects : i \in objects' \/ i = call[c].id
      /\ call[c].op = "delete" => call[c].id \notin Live
  BY <1>1, <1>2, <1>4 DEF Live, Ended
<1>10. \A i \in Live' :
        (i \in Live /\ (i \in objects => i \in objects' \/ UploadFailed(i)')) \/ i \in objects'
  BY <1>4, <1>7, <1>9
<1>11. \A i \in objects' \ Live' :
        (i \in objects \ Live /\ ~LeftBy(c, i)) \/ LeftBy(c, i)'
  BY <1>8, <1>9
<1>12. QED
  BY <1>5, <1>6, <1>9, <1>10, <1>11, StepKeeps

-----------------------------------------------------------------------------
(* What holds however calls overlap                                        *)

\* The invariant holds at the start.
LEMMA InitCore == Init => Core
<1> SUFFICES ASSUME Init PROVE Core
  OBVIOUS
<1>1. row \in [Resumes -> Row]
  BY DEF Init, Row
<1>2. call \in [Calls -> Call]
  BY DEF Init, Call, Idle, Pc
<1>3. RowKinds
  BY <1>1, <1>2, ResumeAssumption DEF Init, RowKinds, Idle
<1>4. (\A c \in Calls : Sound(c)) /\ OwnIds
  BY DEF Init, Sound, OwnIds, Idle
<1>5. Live = SeedResumes
  BY ResumeAssumption DEF Init, Live
<1>6. RowHasObject /\ OrphansExplained
  BY <1>5 DEF Init, RowHasObject, OrphansExplained
<1>7. QED
  BY <1>3, <1>4, <1>6 DEF Core

\* Every step keeps it.
LEMMA StepCore ==
  ASSUME Core, NEW c \in Calls, Step(c)
  PROVE  Core'
<1>0. row \in [Resumes -> Row] /\ call \in [Calls -> Call]
  BY DEF Core, RowKinds
<1>1. CASE CreateCount(c)
  <2>1. PICK i \in Resumes :
          /\ row[i].state = "free" /\ \A d \in Calls : call[d].id # i
          /\ Becomes(c, [Idle EXCEPT !.pc = "put", !.op = "create", !.id = i,
                                     !.flag = First])
    BY <1>1 DEF CreateCount
  <2> DEFINE l == [Idle EXCEPT !.pc = "put", !.op = "create", !.id = i, !.flag = First]
  <2>2. l \in Call /\ l.pc = "put" /\ l.op = "create" /\ l.id = i
    BY DEF Idle, Call, Pc, First
  <2> HIDE DEF l
  <2>3. Becomes(c, l) /\ call[c].pc = "idle" /\ UNCHANGED <<row, objects>>
    BY <1>1, <2>1 DEF l, CreateCount, Starts
  <2>4. QED
    BY <2>1, <2>2, <2>3, StartStep
<1>2. CASE SetPrimaryFind(c)
  <2>1. PICK i \in Live :
          Becomes(c, [Idle EXCEPT !.pc = "clear", !.op = "setPrimary", !.id = i])
    BY <1>2 DEF SetPrimaryFind
  <2> DEFINE l == [Idle EXCEPT !.pc = "clear", !.op = "setPrimary", !.id = i]
  <2>2. l \in Call /\ l.pc = "clear" /\ l.op = "setPrimary" /\ l.id = i
    BY DEF Idle, Call, Pc, Live
  <2> HIDE DEF l
  <2>3. Becomes(c, l) /\ call[c].pc = "idle" /\ UNCHANGED <<row, objects>>
    BY <1>2, <2>1 DEF l, SetPrimaryFind, Starts
  <2>4. QED
    BY <2>2, <2>3, StartStep DEF Live
<1>3. CASE DeleteFind(c)
  <2>1. PICK i \in Live :
          Becomes(c, [Idle EXCEPT !.pc = "deleteRow", !.op = "delete", !.id = i,
                                  !.flag = row[i].primary])
    BY <1>3 DEF DeleteFind
  <2> DEFINE l == [Idle EXCEPT !.pc = "deleteRow", !.op = "delete", !.id = i,
                               !.flag = row[i].primary]
  <2>2. row[i].primary \in BOOLEAN /\ i \in Resumes
    BY <1>0 DEF Live, Row
  <2>3. l \in Call /\ l.pc = "deleteRow" /\ l.op = "delete" /\ l.id = i
    BY <2>2 DEF Idle, Call, Pc
  <2> HIDE DEF l
  <2>4. Becomes(c, l) /\ call[c].pc = "idle" /\ UNCHANGED <<row, objects>>
    BY <1>3, <2>1 DEF l, DeleteFind, Starts
  <2>5. QED
    BY <2>2, <2>3, <2>4, StartStep DEF Live
<1>4. CASE ClearSnapshot(c) \/ ClearPrimaries(c)
  <2>1. PICK pc \in {"clearing", "mark"}, rows \in SUBSET Resumes :
          Becomes(c, [call[c] EXCEPT !.pc = pc, !.rows = rows])
    BY <1>4 DEF ClearSnapshot, ClearPrimaries, Primaries, Live, Clear
  <2> DEFINE l == [call[c] EXCEPT !.pc = pc, !.rows = rows]
  <2>2. call[c].op = "setPrimary" /\ c \in InFlight /\ UNCHANGED <<row, objects>>
    BY <1>4 DEF ClearSnapshot, ClearPrimaries, InFlight, Ended, Core, Sound
  <2>3. l \in Call /\ l.pc = pc /\ l.op = call[c].op /\ l.id = call[c].id
    BY <1>0 DEF Call, Pc
  <2>4. QED
    BY <2>1, <2>2, <2>3, ReadStep
<1>5. ASSUME NEW pc \in {"failed", "lost"}, Goes(c, pc),
             c \in InFlight, UNCHANGED <<row, objects>>
      PROVE  Core'
  <2> DEFINE l == [call[c] EXCEPT !.pc = pc]
  <2>1. l \in Call /\ l.pc = pc /\ l.op = call[c].op /\ l.id = call[c].id
    BY <1>0 DEF Call, Pc
  <2>2. Becomes(c, l)
    BY <1>5 DEF Goes
  <2> HIDE DEF l
  <2>3. QED
    BY <1>5, <2>1, <2>2, ReadStep
<1>6. CASE MarkPrimary(c)
  <2>1. CASE Goes(c, "failed") /\ UNCHANGED <<row, objects>>
    BY <1>5, <1>6, <2>1 DEF MarkPrimary, InFlight, Ended
  <2>2. CASE ~(Goes(c, "failed") /\ UNCHANGED <<row, objects>>)
    <3>1. /\ call[c].pc = "mark" /\ Goes(c, "done") /\ objects' = objects
          /\ row' = [i \in Resumes |->
                       IF i = call[c].id THEN [row[i] EXCEPT !.primary = TRUE]
                       ELSE IF i \in call[c].rows THEN [row[i] EXCEPT !.primary = FALSE]
                       ELSE row[i]]
      BY <1>6, <2>2 DEF MarkPrimary
    <3>2. ASSUME NEW i \in Resumes
          PROVE  row'[i] \in Row /\ row'[i].state = row[i].state
      <4>1. row[i] \in Row
        BY <1>0
      <4>2. \A b \in BOOLEAN : /\ [row[i] EXCEPT !.primary = b] \in Row
                              /\ [row[i] EXCEPT !.primary = b].state = row[i].state
        BY <4>1 DEF Row
      <4>3. QED
        BY <3>1, <4>1, <4>2
    <3>3. row' \in [Resumes -> Row]
      BY <3>1, <3>2
    <3>4. QED
      BY <3>1, <3>2, <3>3, FlagStep
  <2>3. QED
    BY <2>1, <2>2
<1>7. CASE DeleteRow(c)
  BY <1>5, <1>7, DeleteStep DEF DeleteRow, AfterDelete, InFlight, Ended
<1>8. CASE FindNext(c)
  <2>1. PICK l \in Call :
          /\ Becomes(c, l) /\ l.op = call[c].op /\ l.id = call[c].id
          /\ l.pc \in {"promote", "removeObject"}
          /\ l.pc = "promote" => l.next \in Resumes
    <3>1. CASE Goes(c, "removeObject")
      <4>1. [call[c] EXCEPT !.pc = "removeObject"] \in Call
        BY <1>0 DEF Call, Pc
      <4>2. QED
        BY <1>0, <3>1, <4>1 DEF Goes, Call
    <3>2. CASE ~Goes(c, "removeObject")
      <4>1. PICK i \in Newest : Becomes(c, [call[c] EXCEPT !.pc = "promote", !.next = i])
        BY <1>8, <3>2 DEF FindNext
      <4>2. i \in Resumes
        BY <4>1 DEF Newest, Live
      <4>3. [call[c] EXCEPT !.pc = "promote", !.next = i] \in Call
        BY <1>0, <4>2 DEF Call, Pc
      <4>4. QED
        BY <1>0, <4>1, <4>2, <4>3 DEF Call
    <3>3. QED
      BY <3>1, <3>2
  <2>2. QED
    BY <1>8, <2>1, ReadStep DEF FindNext, InFlight, Ended
<1>9. CASE Promote(c)
  <2>1. CASE Goes(c, "failed") /\ UNCHANGED <<row, objects>>
    BY <1>5, <1>9, <2>1 DEF Promote, InFlight, Ended
  <2>2. CASE ~(Goes(c, "failed") /\ UNCHANGED <<row, objects>>)
    <3>1. /\ call[c].pc = "promote" /\ Goes(c, "removeObject") /\ objects' = objects
          /\ row' = [row EXCEPT ![call[c].next].primary = TRUE]
      BY <1>9, <2>2 DEF Promote
    <3>2. row' \in [Resumes -> Row] /\ \A i \in Resumes : row'[i].state = row[i].state
      BY <1>0, <3>1 DEF Row
    <3>3. QED
      BY <3>1, <3>2, FlagStep
  <2>3. QED
    BY <2>1, <2>2
<1>10. CASE Lose(c)
  BY <1>5, <1>10 DEF Lose
<1>11. QED
  BY <1>1, <1>2, <1>3, <1>4, <1>6, <1>7, <1>8, <1>9, <1>10, PutStep, InsertStep,
     RemoveStep DEF Step

-----------------------------------------------------------------------------
(* Calls that do not overlap                                               *)

\* While no overlap is seen, a call that takes a step is the only one in flight.
LEMMA Solo ==
  ASSUME RowKinds, Apart, ~overlap, ~TwoInFlight', NEW c \in Calls, Step(c)
  PROVE  \A b \in Calls \ {c} : b \notin InFlight /\ call'[b] = call[b]
<1>0. call \in [Calls -> Call]
  BY DEF RowKinds
<1>1. \E l : call' = [call EXCEPT ![c] = l]
  BY DEF Step, CreateCount, PutObject, InsertRow, InsertFails, SetPrimaryFind,
     ClearSnapshot, ClearPrimaries, MarkPrimary, DeleteFind, DeleteRow, FindNext,
     Promote, RemoveObject, Lose, Becomes, Goes
<1>2. \A b \in Calls \ {c} : call'[b] = call[b]
  BY <1>0, <1>1
<1>3. c \in InFlight \/ c \in InFlight'
  <2>1. CASE CreateCount(c)
    BY <1>0, <2>1 DEF CreateCount, Becomes, Idle, InFlight, Ended
  <2>2. CASE SetPrimaryFind(c)
    BY <1>0, <2>2 DEF SetPrimaryFind, Becomes, Idle, InFlight, Ended
  <2>3. CASE DeleteFind(c)
    BY <1>0, <2>3 DEF DeleteFind, Becomes, Idle, InFlight, Ended
  <2>4. QED
    BY <2>1, <2>2, <2>3 DEF Step, PutObject, InsertRow, InsertFails, ClearSnapshot,
       ClearPrimaries, MarkPrimary, DeleteRow, FindNext, Promote, RemoveObject,
       Removing, Lose, InFlight, Ended
<1>4. QED
  BY <1>2, <1>3 DEF Apart, TwoInFlight, InFlight

\* A step that leaves the rows alone.
LEMMA RowsSame ==
  ASSUME row' = row, WithinLimit, AtMostOnePrimary
  PROVE  /\ WithinLimit' /\ AtMostOnePrimary' /\ Live' = Live /\ Primaries' = Primaries
         /\ (Room => Room') /\ (First => First')
<1>1. Live' = Live
  BY DEF Live
<1>2. Primaries' = Primaries
  BY <1>1 DEF Primaries
<1>3. QED
  BY <1>1, <1>2 DEF WithinLimit, AtMostOnePrimary, Room, First

\* Rows that are live are so many as the limit allows.
LEMMA LiveFinite ==
  /\ IsFiniteSet(Live) /\ Cardinality(Live) \in Nat
  /\ \A S \in SUBSET Live : Cardinality(S) \in Nat /\ Cardinality(S) <= Cardinality(Live)
<1>1. IsFiniteSet(Live)
  BY ResumeAssumption, FS_Subset DEF Live
<1>2. QED
  BY <1>1, FS_Subset, FS_CardinalityType

\* What a call does that is alone keeps the limit and the primary resume.
LEMMA StepApart ==
  ASSUME Core, Apart, WithinLimit, AtMostOnePrimary, ~overlap, ~TwoInFlight',
         NEW c \in Calls, Step(c)
  PROVE  Apart' /\ WithinLimit' /\ AtMostOnePrimary'
<1>0. /\ row \in [Resumes -> Row] /\ call \in [Calls -> Call] /\ RowKinds
      /\ Alone(c) /\ Sound(c) /\ (call[c].pc # "idle" => call[c].id \in Resumes)
      /\ call[c] \in Call
  BY DEF Core, RowKinds, Apart
<1>1. ASSUME Alone(c)', WithinLimit', AtMostOnePrimary'
      PROVE  Apart' /\ WithinLimit' /\ AtMostOnePrimary'
  <2>1. \A b \in Calls \ {c} : b \notin InFlight /\ call'[b] = call[b]
    BY <1>0, Solo
  <2>2. \A b \in Calls \ {c} : Alone(b)'
    BY <2>1 DEF Alone, InFlight, Ended
  <2>3. QED
    BY <1>1, <2>2 DEF Apart
<1>2. ASSUME row' = row, Alone(c)'
      PROVE  Apart' /\ WithinLimit' /\ AtMostOnePrimary'
  BY <1>1, <1>2, RowsSame
<1>3. CASE CreateCount(c)
  <2>1. /\ call'[c].pc = "put" /\ call'[c].flag = First /\ Room /\ row' = row
    BY <1>0, <1>3 DEF CreateCount, Becomes, Idle
  <2>2. Alone(c)'
    BY <2>1, RowsSame DEF Alone
  <2>3. QED
    BY <1>2, <2>1, <2>2
<1>4. CASE PutObject(c)
  <2>1. /\ call[c].pc = "put" /\ call'[c].pc \in {"insert", "failed"}
        /\ call'[c].flag = call[c].flag /\ row' = row
    BY <1>0, <1>4 DEF PutObject, Goes, Becomes, Call
  <2>2. Alone(c)'
    BY <1>0, <2>1, RowsSame DEF Alone
  <2>3. QED
    BY <1>2, <2>1, <2>2
<1>5. CASE InsertRow(c) \/ InsertFails(c)
  <2>1. /\ call[c].pc = "insert" /\ call'[c].pc \in {"done", "undo"}
        /\ row' \in {row, NewRow(c)} /\ call[c].id \in Resumes
    BY <1>0, <1>5 DEF InsertRow, InsertFails, Goes, Becomes, Call
  <2>2. Alone(c)'
    BY <2>1 DEF Alone
  <2>3. CASE row' = row
    BY <1>2, <2>2, <2>3
  <2>4. CASE row' = NewRow(c)
    <3>1. /\ Live' = Live \union {call[c].id} /\ call[c].id \notin Live
          /\ \A i \in Live : row'[i] = row[i]
          /\ row'[call[c].id].primary = call[c].flag
      <4>1. call[c].id \notin Live
        BY <1>0, <2>1 DEF Sound, Live
      <4>2. row'[call[c].id].primary = call[c].flag
        BY <1>0, <2>1, <2>4 DEF NewRow
      <4>3. QED
        BY <1>0, <2>1, <2>4, <4>1, <4>2, NewRowKind DEF Live
    <3>2. Room /\ (call[c].flag => First)
      BY <1>0, <2>1 DEF Alone
    <3>3. WithinLimit'
      <4>1. Cardinality(Live \union {call[c].id}) = Cardinality(Live) + 1
        BY <3>1, LiveFinite, FS_AddElement
      <4>2. QED
        BY <3>1, <3>2, <4>1, LiveFinite, ResumeAssumption DEF Room, WithinLimit
    <3>4. AtMostOnePrimary'
      <4>1. CASE call[c].flag
        BY <3>1, <3>2, <4>1 DEF First, AtMostOnePrimary, Primaries
      <4>2. CASE ~call[c].flag
        BY <3>1, <4>2 DEF AtMostOnePrimary, Primaries
      <4>3. QED
        BY <4>1, <4>2
    <3>5. QED
      BY <1>1, <2>2, <3>3, <3>4
  <2>5. QED
    BY <2>1, <2>3, <2>4
<1>6. CASE SetPrimaryFind(c)
  <2>1. call'[c].pc = "clear" /\ row' = row
    BY <1>0, <1>6 DEF SetPrimaryFind, Becomes, Idle
  <2>2. QED
    BY <1>2, <2>1 DEF Alone
<1>7. CASE ClearSnapshot(c)
  <2>1. call'[c].pc = "clearing" /\ call'[c].rows = Primaries /\ row' = row
    BY <1>0, <1>7 DEF ClearSnapshot, Becomes, Call
  <2>2. QED
    BY <1>2, <2>1, RowsSame DEF Alone
<1>8. CASE ClearPrimaries(c)
  <2>1. /\ call[c].pc = "clearing" /\ call'[c].pc = "mark"
        /\ call'[c].rows = Clear(call[c].rows) /\ row' = row
    BY <1>0, <1>8 DEF ClearPrimaries, Becomes, Call
  <2>2. Clear(call[c].rows) = Primaries
    BY <1>0, <2>1 DEF Clear, Alone
  <2>3. QED
    BY <1>2, <2>1, <2>2, RowsSame DEF Alone
<1>9. CASE MarkPrimary(c)
  <2>1. CASE row' = row /\ call'[c].pc = "failed"
    BY <1>2, <2>1 DEF Alone
  <2>2. CASE ~(row' = row /\ call'[c].pc = "failed")
    <3>1. /\ call[c].pc = "mark" /\ call'[c].pc = "done" /\ call[c].id \in Live
          /\ row' = [i \in Resumes |->
                       IF i = call[c].id THEN [row[i] EXCEPT !.primary = TRUE]
                       ELSE IF i \in call[c].rows THEN [row[i] EXCEPT !.primary = FALSE]
                       ELSE row[i]]
      BY <1>0, <1>9, <2>2 DEF MarkPrimary, Goes, Becomes, Call
    <3>2. \A i \in Resumes : row'[i].state = row[i].state
      BY <1>0, <3>1 DEF Row
    <3>3. Live' = Live
      BY <3>2 DEF Live
    <3>4. \A i \in Live : row'[i].primary => i = call[c].id
      <4>1. call[c].rows = Primaries
        BY <1>0, <3>1 DEF Alone
      <4>2. QED
        BY <1>0, <3>1, <4>1 DEF Primaries, Live, Row
    <3>5. WithinLimit' /\ AtMostOnePrimary'
      BY <3>3, <3>4 DEF WithinLimit, AtMostOnePrimary, Primaries
    <3>6. QED
      BY <1>1, <3>1, <3>5 DEF Alone
  <2>3. QED
    BY <2>1, <2>2
<1>10. CASE DeleteFind(c)
  <2>1. PICK i \in Live :
          Becomes(c, [Idle EXCEPT !.pc = "deleteRow", !.op = "delete", !.id = i,
                                  !.flag = row[i].primary])
    BY <1>10 DEF DeleteFind
  <2>2. /\ call'[c].pc = "deleteRow" /\ call'[c].id = i /\ row' = row
        /\ call'[c].flag = row[i].primary
    BY <1>0, <1>10, <2>1 DEF DeleteFind, Becomes, Idle
  <2>3. QED
    BY <1>2, <2>2 DEF Alone
<1>11. CASE DeleteRow(c)
  <2>1. CASE row' = row /\ call'[c].pc = "failed"
    BY <1>2, <2>1 DEF Alone
  <2>2. CASE ~(row' = row /\ call'[c].pc = "failed")
    <3>1. /\ call[c].pc = "deleteRow" /\ call[c].id \in Live
          /\ call'[c].pc = AfterDelete(call[c].flag)
          /\ row' = [row EXCEPT ![call[c].id].state = "deleted",
                                ![call[c].id].primary = FALSE]
      BY <1>0, <1>11, <2>2 DEF DeleteRow, Goes, Becomes, Call
    <3>2. row'[call[c].id].state = "deleted"
          /\ \A i \in Resumes \ {call[c].id} : row'[i] = row[i]
      BY <1>0, <3>1 DEF Row, Live
    <3>3. Live' = Live \ {call[c].id} /\ Primaries' = Primaries \ {call[c].id}
      BY <3>2 DEF Live, Primaries
    <3>4. WithinLimit'
      BY <3>3, LiveFinite, ResumeAssumption DEF WithinLimit
    <3>5. AtMostOnePrimary'
      BY <3>3 DEF AtMostOnePrimary
    <3>6. call'[c].pc = "findNext" => Primaries' = {}
      <4>1. call[c].flag => call[c].id \in Primaries
        BY <1>0, <3>1 DEF Alone, Primaries
      <4>2. call[c].id \in Primaries => Primaries \ {call[c].id} = {}
        BY DEF AtMostOnePrimary
      <4>3. call'[c].pc = "findNext" => call[c].flag
        BY <3>1 DEF AfterDelete
      <4>4. QED
        BY <3>3, <4>1, <4>2, <4>3
    <3>7. Alone(c)'
      BY <3>1, <3>6 DEF Alone, AfterDelete
    <3>8. QED
      BY <1>1, <3>4, <3>5, <3>7
  <2>3. QED
    BY <2>1, <2>2
<1>12. CASE FindNext(c)
  <2>1. /\ call[c].pc = "findNext" /\ row' = row
        /\ call'[c].pc \in {"promote", "removeObject"}
    BY <1>0, <1>12 DEF FindNext, Goes, Becomes, Call
  <2>2. QED
    BY <1>0, <1>2, <2>1, RowsSame DEF Alone
<1>13. CASE Promote(c)
  <2>1. CASE row' = row /\ call'[c].pc = "failed"
    BY <1>2, <2>1 DEF Alone
  <2>2. CASE ~(row' = row /\ call'[c].pc = "failed")
    <3>1. /\ call[c].pc = "promote" /\ call'[c].pc = "removeObject"
          /\ call[c].next \in Live /\ row' = [row EXCEPT ![call[c].next].primary = TRUE]
      BY <1>0, <1>13, <2>2 DEF Promote, Goes, Becomes, Call
    <3>2. /\ \A i \in Resumes : row'[i].state = row[i].state
          /\ \A i \in Resumes \ {call[c].next} : row'[i] = row[i]
      BY <1>0, <3>1 DEF Row
    <3>3. Live' = Live /\ Primaries = {}
      BY <1>0, <3>1, <3>2 DEF Live, Alone
    <3>4. WithinLimit' /\ AtMostOnePrimary'
      BY <3>2, <3>3 DEF WithinLimit, AtMostOnePrimary, Primaries, Live
    <3>5. QED
      BY <1>1, <3>1, <3>4 DEF Alone
  <2>3. QED
    BY <2>1, <2>2
<1>14. CASE RemoveObject(c) \/ Lose(c)
  <2>1. row' = row /\ call'[c].pc \in {"done", "kept", "failed", "lost"}
    BY <1>0, <1>14 DEF RemoveObject, Lose, Goes, Becomes, Call
  <2>2. QED
    BY <1>2, <2>1 DEF Alone
<1>15. QED
  BY <1>3, <1>4, <1>5, <1>6, <1>7, <1>8, <1>9, <1>10, <1>11, <1>12, <1>13, <1>14
  DEF Step

-----------------------------------------------------------------------------
(* The theorems                                                            *)

\* The invariant holds at the start.
LEMMA InitIInv == Init => IInv
<1> SUFFICES ASSUME Init PROVE IInv
  OBVIOUS
<1>1. Live = SeedResumes
  BY ResumeAssumption DEF Init, Live
<1>2. WithinLimitApart
  BY <1>1, ResumeAssumption DEF WithinLimitApart, WithinLimit
<1>3. AtMostOnePrimaryApart
  BY <1>1 DEF Init, AtMostOnePrimaryApart, AtMostOnePrimary, Primaries
<1>4. Apart /\ overlap \in BOOLEAN
  BY DEF Init, Apart, TwoInFlight, InFlight, Alone, Idle
<1>5. QED
  BY <1>2, <1>3, <1>4, InitCore DEF IInv

\* Every step keeps it.
LEMMA StepIInv == IInv /\ [Next]_vars => IInv'
<1> SUFFICES ASSUME IInv, [Next]_vars PROVE IInv'
  OBVIOUS
<1>1. CASE UNCHANGED vars
  <2>1. Core' /\ overlap' \in BOOLEAN
    BY <1>1 DEF vars, IInv, Core, RowKinds, Sound, OwnIds, RowHasObject,
       OrphansExplained, Live, UploadFailed, LeftBy, InFlight
  <2>2. Apart' /\ WithinLimitApart' /\ AtMostOnePrimaryApart'
    BY <1>1 DEF vars, IInv, Apart, TwoInFlight, InFlight, Alone, Room, First,
       WithinLimitApart, WithinLimit, AtMostOnePrimaryApart, AtMostOnePrimary,
       Primaries, Live
  <2>3. QED
    BY <2>1, <2>2 DEF IInv
<1>2. CASE Next
  <2>1. PICK c \in Calls : Step(c)
    BY <1>2 DEF Next
  <2>2. Core' /\ overlap' \in BOOLEAN
    BY <1>2, <2>1, StepCore DEF Next, IInv
  <2>3. CASE overlap'
    BY <2>2, <2>3 DEF IInv, Apart, WithinLimitApart, AtMostOnePrimaryApart
  <2>4. CASE ~overlap'
    <3>1. ~overlap /\ ~TwoInFlight'
      BY <1>2, <2>4 DEF Next, IInv
    <3>2. Apart' /\ WithinLimit' /\ AtMostOnePrimary'
      BY <2>1, <3>1, StepApart DEF IInv, WithinLimitApart, AtMostOnePrimaryApart
    <3>3. QED
      BY <2>2, <3>2 DEF IInv, WithinLimitApart, AtMostOnePrimaryApart
  <2>5. QED
    BY <2>3, <2>4
<1>3. QED
  BY <1>1, <1>2

\* The invariant of the proofs.
THEOREM Invariance == Spec => []IInv
  BY InitIInv, StepIInv, PTL DEF Spec

\* Rows and calls always have their kinds.
THEOREM TypeCorrect == Spec => []TypeOK
<1>1. IInv => TypeOK
  BY DEF IInv, Core, TypeOK
<1>2. QED
  BY <1>1, Invariance, PTL

\* A listed resume can be downloaded: its file is in storage, unless its upload
\* was answered with an error.
THEOREM Downloadable == Spec => []RowHasObject
<1>1. IInv => RowHasObject
  BY DEF IInv, Core
<1>2. QED
  BY <1>1, Invariance, PTL

\* Only uploads and deletions that were lost, threw or could not reach the
\* storage leave files behind.
THEOREM Orphans == Spec => []OrphansExplained
<1>1. IInv => OrphansExplained
  BY DEF IInv, Core
<1>2. QED
  BY <1>1, Invariance, PTL

\* Unless calls overlapped, a user stays within the limit, even when an upload is
\* answered with an error after its row was committed.
THEOREM Limited == Spec => []WithinLimitApart
<1>1. IInv => WithinLimitApart
  BY DEF IInv
<1>2. QED
  BY <1>1, Invariance, PTL

\* Unless calls overlapped, a user has one primary resume at most.
THEOREM OnePrimary == Spec => []AtMostOnePrimaryApart
<1>1. IInv => AtMostOnePrimaryApart
  BY DEF IInv
<1>2. QED
  BY <1>1, Invariance, PTL

-----------------------------------------------------------------------------
(* Analyses                                                                *)

\* Rows move from free over live to deleted, and a failed upload stays failed.
LEMMA ResumeProgress ==
  ASSUME IInv, [Next]_vars
  PROVE  \A i \in Resumes : /\ row[i].state # "free" => row'[i].state # "free"
                            /\ row[i].state = "deleted" => row'[i].state = "deleted"
                            /\ UploadFailed(i) => UploadFailed(i)'
<1>1. CASE UNCHANGED vars
  BY <1>1 DEF vars, UploadFailed
<1>2. CASE Next
  <2>1. PICK c \in Calls : Step(c)
    BY <1>2 DEF Next
  <2>2. row \in [Resumes -> Row] /\ call \in [Calls -> Call]
    BY DEF IInv, Core, RowKinds
  <2>3. call[c].pc \notin Ended
    BY <2>1 DEF Step, CreateCount, PutObject, InsertRow, InsertFails, SetPrimaryFind,
                ClearSnapshot, ClearPrimaries, MarkPrimary, DeleteFind, DeleteRow, FindNext,
                Promote, RemoveObject, Lose, Starts, Removing, InFlight, Ended
  <2>4. \A d \in Calls \ {c} : call'[d] = call[d]
    BY <2>1, <2>2 DEF Step, CreateCount, PutObject, InsertRow, InsertFails, SetPrimaryFind,
                ClearSnapshot, ClearPrimaries, MarkPrimary, DeleteFind, DeleteRow, FindNext,
                Promote, RemoveObject, Lose, Goes, Becomes
  <2>5. \A i \in Resumes : UploadFailed(i) => UploadFailed(i)'
    BY <2>3, <2>4 DEF UploadFailed, Ended
  <2>6. \A i \in Resumes : /\ row[i].state # "free" => row'[i].state # "free"
                           /\ row[i].state = "deleted" => row'[i].state = "deleted"
    <3>1. CASE InsertRow(c) \/ InsertFails(c)
      <4>1. call[c].id \in Resumes /\ row[call[c].id].state = "free"
        BY <3>1 DEF IInv, Core, RowKinds, Sound, InsertRow, InsertFails
      <4>2. row' = row \/ row' = NewRow(c)
        BY <3>1 DEF InsertRow, InsertFails
      <4>3. \A i \in Resumes \ {call[c].id} : NewRow(c)[i] = row[i]
        BY <2>2 DEF NewRow
      <4> QED BY <4>1, <4>2, <4>3
    <3>2. CASE MarkPrimary(c)
      BY <3>2, <2>2 DEF MarkPrimary, Row
    <3>3. CASE DeleteRow(c)
      BY <3>3, <2>2 DEF DeleteRow, Live, Row
    <3>4. CASE Promote(c)
      BY <3>4, <2>2 DEF Promote, Row
    <3>5. ASSUME ~(InsertRow(c) \/ InsertFails(c)), ~MarkPrimary(c), ~DeleteRow(c), ~Promote(c)
          PROVE  row' = row
      BY <3>5, <2>1 DEF Step, CreateCount, PutObject, SetPrimaryFind, ClearSnapshot,
                        ClearPrimaries, DeleteFind, FindNext, RemoveObject, Lose
    <3> QED BY <3>1, <3>2, <3>3, <3>4, <3>5
  <2> QED BY <2>5, <2>6
<1> QED BY <1>1, <1>2

LEMMA FitInitInv == FitInit => FitInv
<1> SUFFICES ASSUME FitInit PROVE FitInv
  OBVIOUS
<1>1. IInv
  BY InitIInv DEF FitInit
<1>2. FitIdle \in FitCall
  BY DEF FitIdle, FitCall, FitPc, FitEnded
<1>3. FitTypeOK
  BY <1>2 DEF FitInit, FitTypeOK, FitIdle, Analysis, Sample
<1>4. SawTheResume /\ \A c \in FitCalls : SampleSound(c)
  BY DEF FitInit, SawTheResume, SampleSound, FitIdle
<1> QED BY <1>1, <1>3, <1>4 DEF FitInv

\* A resume is uploaded or deleted, or marked, or nothing happens to it.
LEMMA ResumeStepInv == ASSUME FitInv, ResumeStep PROVE FitInv'
<1>1. IInv /\ [Next]_vars
  BY DEF FitInv, ResumeStep
<1>2. IInv'
  BY <1>1, StepIInv
<1>3. \A i \in Resumes : /\ row[i].state # "free" => row'[i].state # "free"
                         /\ row[i].state = "deleted" => row'[i].state = "deleted"
                         /\ UploadFailed(i) => UploadFailed(i)'
  BY <1>1, ResumeProgress
<1>4. /\ analysis \in [Pairs -> Analysis] /\ fit \in [FitCalls -> FitCall]
      /\ \A p \in Pairs : p[2] \in Resumes
  BY DEF FitInv, FitTypeOK, Pairs
<1>5. \A p \in Pairs : analysis'[p] = analysis[p] \/ analysis'[p] = "none"
  BY <1>4 DEF ResumeStep
<1>6. FitTypeOK'
  BY <1>4 DEF FitInv, FitTypeOK, ResumeStep, Analysis, Sample
<1>7. SawTheResume'
  BY <1>3, <1>4, <1>5 DEF FitInv, SawTheResume
<1>8. \A c \in FitCalls : SampleSound(c)'
  <2>1. SUFFICES ASSUME NEW c \in FitCalls PROVE SampleSound(c)'
    OBVIOUS
  <2>2. fit' = fit /\ SampleSound(c)
    BY DEF FitInv, ResumeStep
  <2>3. fit[c].pc \in {"findJob", "sample", "generate", "insert"} => fit[c].pair[2] \in Resumes
    BY <1>4 DEF FitInv, FitTypeOK
  <2> QED BY <1>3, <2>2, <2>3 DEF SampleSound
<1> QED BY <1>2, <1>6, <1>7, <1>8 DEF FitInv

LEMMA StaysInv == ASSUME IInv, Stays PROVE IInv'
<1>1. [Next]_vars
  BY DEF Stays, vars
<1> QED BY <1>1, StepIInv

\* A request for an analysis takes a step.
LEMMA FitStepInv == ASSUME FitInv, NEW c \in FitCalls, FitStep(c) PROVE FitInv'
<1>1. Stays /\ UNCHANGED open
  BY DEF FitStep, FitFind, FitFindResume, FitFindJob, ReadSample, Generate, StoreAnalysis, FitLose
<1>2. IInv'
  BY <1>1, StaysInv DEF FitInv
<1>3. /\ analysis \in [Pairs -> Analysis] /\ fit \in [FitCalls -> FitCall]
      /\ paid \in [Pairs -> Nat] /\ open \subseteq Jobs
      /\ \A p \in Pairs : p[2] \in Resumes
  BY DEF FitInv, FitTypeOK, Pairs
<1>4. \A i \in Resumes : UploadFailed(i)' = UploadFailed(i)
  BY <1>1 DEF Stays, UploadFailed
<1>5. \A d \in FitCalls \ {c} : fit'[d] = fit[d]
  BY <1>3 DEF FitStep, FitFind, FitFindResume, FitFindJob, ReadSample, Generate, StoreAnalysis,
              FitLose, FitGoes, FitBecomes
<1>6. \A d \in FitCalls \ {c} : SampleSound(d)'
  <2>1. SUFFICES ASSUME NEW d \in FitCalls \ {c} PROVE SampleSound(d)'
    OBVIOUS
  <2>2. fit'[d] = fit[d] /\ row' = row /\ call' = call /\ SampleSound(d)
    BY <1>1, <1>5 DEF FitInv, Stays
  <2> QED BY <2>2 DEF SampleSound, UploadFailed
<1> DEFINE Kind == /\ fit'[c] \in FitCall
                   /\ fit'[c].pc # "idle" => fit'[c].pair \in Pairs
                   /\ fit'[c].pc \in {"generate", "insert"} => fit'[c].sample \in Sample
<1>7. fit[c] \in FitCall /\ SampleSound(c)
  BY <1>3 DEF FitInv
<1>8. row' = row /\ call' = call
  BY <1>1 DEF Stays
<1>9. ASSUME Kind, SampleSound(c)', fit' \in [FitCalls -> FitCall],
             analysis' \in [Pairs -> Analysis], paid' \in [Pairs -> Nat], SawTheResume'
      PROVE  FitInv'
  <2>1. \A d \in FitCalls : /\ fit'[d].pc # "idle" => fit'[d].pair \in Pairs
                            /\ fit'[d].pc \in {"generate", "insert"} => fit'[d].sample \in Sample
    BY <1>5, <1>9 DEF FitInv, FitTypeOK
  <2>2. FitTypeOK'
    BY <1>1, <1>3, <1>9, <2>1 DEF FitTypeOK
  <2> QED BY <1>2, <1>6, <1>9, <2>2 DEF FitInv
<1>10. ASSUME UNCHANGED analysis PROVE SawTheResume' /\ analysis' \in [Pairs -> Analysis]
  BY <1>3, <1>4, <1>10 DEF FitInv, SawTheResume
<1>11. CASE FitFind(c)
  <2>1. PICK p \in Pairs, pc \in {"findResume", "reused"} :
          fit' = [fit EXCEPT ![c] = [FitIdle EXCEPT !.pc = pc, !.pair = p]]
    BY <1>11 DEF FitFind, FitBecomes
  <2>2. /\ fit'[c] \in FitCall /\ fit'[c].pc = pc /\ fit'[c].pair = p
        /\ fit' \in [FitCalls -> FitCall]
    BY <2>1, <1>3 DEF FitCall, FitIdle, FitPc, FitEnded
  <2>3. SampleSound(c)'
    BY <2>2, <2>1 DEF SampleSound
  <2>4. UNCHANGED <<analysis, paid>>
    BY <1>11 DEF FitFind
  <2>5. Kind
    BY <2>1, <2>2
  <2> QED BY <1>3, <1>9, <1>10, <2>2, <2>3, <2>4, <2>5
<1>12. ASSUME NEW pc \in FitPc, FitGoes(c, pc)
       PROVE  /\ fit' \in [FitCalls -> FitCall] /\ fit'[c] \in FitCall
              /\ fit'[c].pc = pc /\ fit'[c].pair = fit[c].pair /\ fit'[c].sample = fit[c].sample
  BY <1>3, <1>12 DEF FitGoes, FitBecomes, FitCall
<1>13. fit[c].pc # "idle" => fit[c].pair \in Pairs
  BY DEF FitInv, FitTypeOK
<1>14. CASE FitFindResume(c)
  <2>1. PICK pc \in {"findJob", "failed"} :
          FitGoes(c, pc) /\ (pc = "findJob" => row[fit[c].pair[2]].state = "live")
    BY <1>14 DEF FitFindResume
  <2>2. pc \in FitPc
    BY <2>1 DEF FitPc, FitEnded
  <2>3. /\ fit' \in [FitCalls -> FitCall] /\ fit'[c] \in FitCall
        /\ fit'[c].pc = pc /\ fit'[c].pair = fit[c].pair
    BY <1>12, <2>1, <2>2
  <2>4. SampleSound(c)'
    BY <2>1, <2>3, <1>8 DEF SampleSound
  <2>5. Kind
    BY <2>1, <2>3, <1>13, <1>14 DEF FitFindResume, FitAt
  <2> QED BY <1>3, <1>9, <1>10, <2>3, <2>4, <2>5, <1>14 DEF FitFindResume
<1>15. CASE FitFindJob(c)
  <2>1. PICK pc \in {"sample", "failed"} : FitGoes(c, pc)
    BY <1>15 DEF FitFindJob
  <2>2. pc \in FitPc
    BY <2>1 DEF FitPc, FitEnded
  <2>3. /\ fit' \in [FitCalls -> FitCall] /\ fit'[c] \in FitCall
        /\ fit'[c].pc = pc /\ fit'[c].pair = fit[c].pair
    BY <1>12, <2>1, <2>2
  <2>4. row[fit[c].pair[2]].state # "free"
    BY <1>7, <1>15 DEF FitFindJob, FitAt, SampleSound
  <2>5. SampleSound(c)'
    BY <2>1, <2>3, <2>4, <1>8 DEF SampleSound
  <2>6. Kind
    BY <2>1, <2>3, <1>13, <1>15 DEF FitFindJob, FitAt
  <2> QED BY <1>3, <1>9, <1>10, <2>3, <2>5, <2>6, <1>15 DEF FitFindJob
<1>16. CASE ReadSample(c)
  <2>1. PICK s \in Sample :
          /\ fit' = [fit EXCEPT ![c] = [fit[c] EXCEPT !.pc = "generate", !.sample = s]]
          /\ s = "absent" => fit[c].pair[2] \notin objects
    BY <1>16 DEF ReadSample, FitBecomes, Sample
  <2>2. fit[c].pair \in Pairs /\ fit[c].pair[2] \in Resumes
    BY <1>3, <1>13, <1>16 DEF ReadSample, FitAt
  <2>3. /\ fit' \in [FitCalls -> FitCall] /\ fit'[c] \in FitCall /\ fit'[c].sample = s
        /\ fit'[c].pc = "generate" /\ fit'[c].pair = fit[c].pair
    BY <2>1, <1>3 DEF FitCall, FitPc
  <2>4. row[fit[c].pair[2]].state \in {"live", "deleted"}
    <3>1. row[fit[c].pair[2]] \in Row
      BY <2>2 DEF FitInv, IInv, Core, RowKinds
    <3> QED BY <3>1, <1>7, <1>16 DEF ReadSample, FitAt, SampleSound, Row
  <2>5. fit[c].pair[2] \notin objects =>
          row[fit[c].pair[2]].state = "deleted" \/ UploadFailed(fit[c].pair[2])
    BY <2>2, <2>4 DEF FitInv, IInv, Core, RowHasObject, Live
  <2>6. SampleSound(c)'
    BY <2>1, <2>2, <2>3, <2>4, <2>5, <1>4, <1>8 DEF SampleSound
  <2>7. Kind
    BY <2>1, <2>2, <2>3
  <2> QED BY <1>3, <1>9, <1>10, <2>3, <2>6, <2>7, <1>16 DEF ReadSample
<1>17. CASE Generate(c)
  <2>1. PICK pc \in {"insert", "failed"}, b \in BOOLEAN :
          fit' = [fit EXCEPT ![c] = [fit[c] EXCEPT !.pc = pc, !.owed = b]]
    <3>1. fit[c].owed \in BOOLEAN /\ [fit[c] EXCEPT !.pc = "failed", !.owed = fit[c].owed]
                                       = [fit[c] EXCEPT !.pc = "failed"]
      BY <1>7 DEF FitCall
    <3> QED BY <1>17, <3>1 DEF Generate, FitBecomes, FitGoes
  <2>2. fit[c].pc = "generate" /\ fit[c].pair \in Pairs /\ fit[c].pair[2] \in Resumes
    BY <1>3, <1>13, <1>17 DEF Generate, FitAt
  <2>3. /\ fit' \in [FitCalls -> FitCall] /\ fit'[c] \in FitCall
        /\ fit'[c].pc = pc /\ fit'[c].pair = fit[c].pair /\ fit'[c].sample = fit[c].sample
    BY <2>1, <1>3 DEF FitCall, FitPc, FitEnded
  <2>4. SampleSound(c)'
    BY <2>1, <2>2, <2>3, <1>4, <1>7, <1>8 DEF SampleSound
  <2>5. Kind
    BY <2>1, <2>2, <2>3 DEF FitInv, FitTypeOK
  <2>6. paid' \in [Pairs -> Nat]
    BY <1>3, <1>17, <2>2 DEF Generate
  <2> QED BY <1>3, <1>9, <1>10, <2>3, <2>4, <2>5, <2>6, <1>17 DEF Generate
<1>18. CASE StoreAnalysis(c)
  <2>0. /\ fit[c].pc = "insert" /\ fit[c].pair \in Pairs /\ fit[c].pair[2] \in Resumes
        /\ fit[c].sample \in Sample /\ paid' = paid
    BY <1>3, <1>13, <1>18 DEF StoreAnalysis, FitAt, FitInv, FitTypeOK
  <2>1. PICK pc \in {"done", "failed"}, b \in BOOLEAN :
          fit' = [fit EXCEPT ![c] = [fit[c] EXCEPT !.pc = pc, !.owed = b]]
    <3>1. fit[c].owed \in BOOLEAN /\ [fit[c] EXCEPT !.pc = "failed", !.owed = fit[c].owed]
                                       = [fit[c] EXCEPT !.pc = "failed"]
      BY <1>7 DEF FitCall
    <3> QED BY <1>18, <3>1 DEF StoreAnalysis, FitBecomes, FitGoes
  <2>2. /\ fit' \in [FitCalls -> FitCall] /\ fit'[c] \in FitCall
        /\ fit'[c].pc = pc /\ fit'[c].pair = fit[c].pair
    BY <2>1, <1>3 DEF FitCall, FitPc, FitEnded
  <2>3. SampleSound(c)' /\ Kind
    BY <2>0, <2>1, <2>2 DEF SampleSound
  <2>4. CASE Storable(fit[c].pair)
    <3>1. analysis' = [analysis EXCEPT ![fit[c].pair] = fit[c].sample]
      BY <2>4, <1>18 DEF StoreAnalysis
    <3>2. fit[c].sample = "absent" => UploadFailed(fit[c].pair[2])
      BY <2>0, <2>4, <1>7 DEF SampleSound, Storable
    <3>3. SawTheResume' /\ analysis' \in [Pairs -> Analysis]
      BY <3>1, <3>2, <2>0, <1>3, <1>4 DEF FitInv, SawTheResume, Analysis
    <3> QED BY <1>3, <1>9, <2>0, <2>2, <2>3, <3>3
  <2>5. CASE ~Storable(fit[c].pair)
    BY <2>5, <1>3, <1>9, <1>10, <2>0, <2>2, <2>3, <1>18 DEF StoreAnalysis
  <2> QED BY <2>4, <2>5
<1>19. CASE FitLose(c)
  <2>1. "lost" \in FitPc
    BY DEF FitPc
  <2>2. FitGoes(c, "lost")
    BY <1>19 DEF FitLose
  <2>3. /\ fit' \in [FitCalls -> FitCall] /\ fit'[c] \in FitCall
        /\ fit'[c].pc = "lost" /\ fit'[c].pair = fit[c].pair
    BY <1>12, <2>1, <2>2
  <2>4. fit[c].pair \in Pairs
    BY <1>13, <1>19 DEF FitLose, Fitting
  <2>5. SampleSound(c)' /\ Kind
    BY <2>3, <2>4 DEF SampleSound
  <2> QED BY <1>3, <1>9, <1>10, <2>3, <2>5, <1>19 DEF FitLose
<1> QED BY <1>11, <1>14, <1>15, <1>16, <1>17, <1>18, <1>19 DEF FitStep

LEMMA FitNextInv == FitInv /\ [FitNext]_allVars => FitInv'
<1> SUFFICES ASSUME FitInv, [FitNext]_allVars PROVE FitInv'
  OBVIOUS
<1>1. CASE ResumeStep
  BY <1>1, ResumeStepInv
<1>2. CASE \E c \in FitCalls : FitStep(c)
  BY <1>2, FitStepInv
<1>3. CASE JobChanges \/ UNCHANGED allVars
  <2>1. Stays /\ UNCHANGED <<analysis, fit, paid>> /\ (open' \subseteq Jobs)
    BY <1>3 DEF JobChanges, allVars, Stays, FitInv, FitTypeOK
  <2>2. IInv'
    BY <2>1, StaysInv DEF FitInv
  <2>3. FitTypeOK'
    BY <2>1 DEF FitInv, FitTypeOK
  <2>4. SawTheResume' /\ \A c \in FitCalls : SampleSound(c)'
    BY <2>1 DEF FitInv, SawTheResume, SampleSound, UploadFailed, Stays
  <2> QED BY <2>2, <2>3, <2>4 DEF FitInv
<1> QED BY <1>1, <1>2, <1>3 DEF FitNext

-----------------------------------------------------------------------------
\* The invariant of the proofs.
THEOREM FitInvariance == FitSpec => []FitInv
  BY FitInitInv, FitNextInv, PTL DEF FitSpec

\* A stored analysis was given the resume's file, or its reading failed, unless
\* the upload of the resume was answered with an error.
THEOREM AnalysesSawTheResume == FitSpec => []SawTheResume
<1>1. FitInv => SawTheResume
  BY DEF FitInv
<1>2. QED
  BY <1>1, FitInvariance, PTL

\* The composition implements ResumeStore: analyses read resumes and files and
\* change neither, so all that is proved of ResumeStore holds beside them.
THEOREM AnalysesOnlyRead == FitSpec => Spec
<1>1. FitInit => Init
  BY DEF FitInit
<1>2. [FitNext]_allVars => [Next]_vars
  <2>1. ResumeStep => Next
    BY DEF ResumeStep
  <2>2. ASSUME JobChanges \/ \E c \in FitCalls : FitStep(c) PROVE UNCHANGED vars
    BY <2>2 DEF JobChanges, FitStep, FitFind, FitFindResume, FitFindJob, ReadSample, Generate,
                StoreAnalysis, FitLose, Stays, vars
  <2>3. UNCHANGED allVars => UNCHANGED vars
    BY DEF allVars, vars
  <2> QED BY <2>1, <2>2, <2>3 DEF FitNext
<1> QED BY <1>1, <1>2, PTL DEF FitSpec, Spec

\* The guarantees of ResumeStore hold in the composition.
THEOREM StillDownloadable == FitSpec => []RowHasObject
<1>1. FitInv => RowHasObject
  BY DEF FitInv, IInv, Core
<1>2. QED
  BY <1>1, FitInvariance, PTL

-----------------------------------------------------------------------------
(* Answers of the model                                                    *)

\* What a step of one request does to the answers that are not stored.
LEMMA UnstoredMoves ==
  ASSUME fit \in [FitCalls -> FitCall], NEW c \in FitCalls, NEW f \in FitCall,
         FitBecomes(c, f), NEW p \in Pairs, IsFiniteSet(Unstored(p))
  PROVE  /\ IsFiniteSet(Unstored(p)')
         /\ Cardinality(Unstored(p)) \in Nat
         /\ f.pair = p /\ f.owed /\ c \notin Unstored(p)
              => Cardinality(Unstored(p)') = Cardinality(Unstored(p)) + 1
         /\ ~(f.pair = p /\ f.owed) /\ c \in Unstored(p)
              => Cardinality(Unstored(p)') = Cardinality(Unstored(p)) - 1
         /\ (f.pair = p /\ f.owed <=> c \in Unstored(p)) => Unstored(p)' = Unstored(p)
<1>1. fit'[c] = f /\ \A d \in FitCalls : d # c => fit'[d] = fit[d]
  BY DEF FitBecomes
<1>2. Cardinality(Unstored(p)) \in Nat
  BY FS_CardinalityType
<1>3. CASE f.pair = p /\ f.owed
  <2>1. Unstored(p)' = Unstored(p) \union {c}
    BY <1>1, <1>3 DEF Unstored
  <2>2. /\ IsFiniteSet(Unstored(p) \union {c})
        /\ Cardinality(Unstored(p) \union {c})
             = IF c \in Unstored(p) THEN Cardinality(Unstored(p))
               ELSE Cardinality(Unstored(p)) + 1
    BY FS_AddElement
  <2>3. c \in Unstored(p) => Unstored(p)' = Unstored(p)
    BY <2>1
  <2> QED BY <1>2, <1>3, <2>1, <2>2, <2>3
<1>4. CASE ~(f.pair = p /\ f.owed)
  <2>1. Unstored(p)' = Unstored(p) \ {c}
    BY <1>1, <1>4 DEF Unstored
  <2>2. /\ IsFiniteSet(Unstored(p) \ {c})
        /\ Cardinality(Unstored(p) \ {c})
             = IF c \in Unstored(p) THEN Cardinality(Unstored(p)) - 1
               ELSE Cardinality(Unstored(p))
    BY FS_RemoveElement
  <2>3. c \notin Unstored(p) => Unstored(p)' = Unstored(p)
    BY <2>1
  <2> QED BY <1>2, <1>4, <2>1, <2>2, <2>3
<1> QED BY <1>3, <1>4

LEMMA PaidInitially == FitInit => PaidInv
<1> SUFFICES ASSUME FitInit PROVE PaidInv
  OBVIOUS
<1>1. \A c \in FitCalls : fit[c] = FitIdle
  BY DEF FitInit
<1>2. \A c \in FitCalls : OwedSound(c)
  BY <1>1 DEF OwedSound, FitIdle
<1>3. \A p \in Pairs : Paid(p)
  <2>1. SUFFICES ASSUME NEW p \in Pairs PROVE Paid(p)
    OBVIOUS
  <2>2. Unstored(p) = {}
    BY <1>1 DEF Unstored, FitIdle
  <2>3. analysis[p] = "none" /\ paid[p] = 0
    BY DEF FitInit
  <2> QED BY <2>2, <2>3, FS_EmptySet DEF Paid
<1> QED BY <1>2, <1>3, FitInitInv DEF PaidInv

\* A new resume has no answers yet; with a deleted one they cease to count.
LEMMA ResumeStepPaid == ASSUME PaidInv, ResumeStep PROVE PaidInv'
<1>1. FitInv' /\ IInv /\ [Next]_vars /\ UNCHANGED <<fit, paid>>
  BY ResumeStepInv DEF PaidInv, FitInv, ResumeStep
<1>2. \A i \in Resumes : /\ row[i].state # "free" => row'[i].state # "free"
                         /\ row[i].state = "deleted" => row'[i].state = "deleted"
  BY <1>1, ResumeProgress
<1>3. /\ fit \in [FitCalls -> FitCall] /\ paid \in [Pairs -> Nat]
      /\ \A p \in Pairs : p[2] \in Resumes
      /\ \A c \in FitCalls : fit[c].pc # "idle" => fit[c].pair \in Pairs
  BY DEF PaidInv, FitInv, FitTypeOK, Pairs
<1>4. \A i \in Resumes : row[i].state \in {"free", "live", "deleted"}
  BY <1>1 DEF IInv, Core, RowKinds, Row
<1>5. \A c \in FitCalls : OwedSound(c)'
  <2>1. SUFFICES ASSUME NEW c \in FitCalls PROVE OwedSound(c)'
    OBVIOUS
  <2>2. OwedSound(c) /\ fit' = fit
    BY <1>1 DEF PaidInv
  <2>3. fit[c].owed => fit[c].pair[2] \in Resumes
    BY <1>3, <2>2 DEF OwedSound
  <2> QED BY <1>2, <2>2, <2>3 DEF OwedSound
<1>6. ASSUME NEW p \in Pairs PROVE Paid(p)'
  <2>1. /\ Paid(p) /\ Unstored(p)' = Unstored(p) /\ paid' = paid /\ p[2] \in Resumes
    BY <1>1, <1>3 DEF PaidInv, Unstored
  <2>2. analysis'[p] = IF row'[p[2]].state = "live" THEN analysis[p] ELSE "none"
    BY DEF ResumeStep
  <2>3. row'[p[2]].state = "free" => row[p[2]].state = "free"
    BY <1>2, <2>1
  <2>4. CASE row'[p[2]].state # "live"
    BY <2>1, <2>2, <2>3, <2>4 DEF Paid
  <2>5. CASE row'[p[2]].state = "live" /\ row[p[2]].state = "live"
    BY <2>1, <2>2, <2>5 DEF Paid
  <2>6. CASE row'[p[2]].state = "live" /\ row[p[2]].state # "live"
    <3>1. row[p[2]].state = "free"
      BY <1>2, <1>4, <2>1, <2>6
    <3>2. Unstored(p) = {}
      BY <3>1 DEF PaidInv, OwedSound, Unstored
    <3>3. analysis'[p] = "none" /\ paid[p] = 0
      BY <2>1, <2>2, <2>6, <3>1 DEF Paid
    <3> QED BY <2>1, <2>6, <3>2, <3>3, FS_EmptySet DEF Paid
  <2> QED BY <2>4, <2>5, <2>6
<1> QED BY <1>1, <1>5, <1>6 DEF PaidInv

\* A request for an analysis takes a step.
LEMMA FitStepPaid == ASSUME PaidInv, NEW c \in FitCalls, FitStep(c) PROVE PaidInv'
<1>1. FitInv' /\ row' = row
  BY FitStepInv DEF PaidInv, FitStep, FitFind, FitFindResume, FitFindJob, ReadSample, Generate,
                    StoreAnalysis, FitLose, Stays
<1>2. /\ fit \in [FitCalls -> FitCall] /\ paid \in [Pairs -> Nat] /\ fit[c] \in FitCall
      /\ analysis \in [Pairs -> Analysis] /\ \A p \in Pairs : p[2] \in Resumes
  BY DEF PaidInv, FitInv, FitTypeOK, Pairs
<1>3. /\ OwedSound(c) /\ SampleSound(c) /\ (fit[c].pc # "idle" => fit[c].pair \in Pairs)
      /\ fit[c].owed \in BOOLEAN
  BY <1>2 DEF PaidInv, FitInv, FitTypeOK, FitCall
<1>4. ASSUME NEW f \in FitCall, FitBecomes(c, f),
             f.owed => f.pc \in {"insert", "failed", "lost"} /\ row[f.pair[2]].state # "free",
             f.pc = "insert" => f.owed,
             \A p \in Pairs : Paid(p)'
      PROVE  PaidInv'
  <2>1. fit'[c] = f /\ \A d \in FitCalls : d # c => fit'[d] = fit[d]
    BY <1>2, <1>4 DEF FitBecomes
  <2>2. \A d \in FitCalls : OwedSound(d)'
    BY <1>1, <1>4, <2>1 DEF PaidInv, OwedSound
  <2> QED BY <1>1, <1>4, <2>2 DEF PaidInv
<1>5. ASSUME NEW f \in FitCall, FitBecomes(c, f), UNCHANGED <<analysis, paid>>,
             f.owed = fit[c].owed, f.owed => f.pair = fit[c].pair
      PROVE  \A p \in Pairs : Paid(p)'
  <2>1. SUFFICES ASSUME NEW p \in Pairs PROVE Paid(p)'
    OBVIOUS
  <2>2. Paid(p) /\ (f.pair = p /\ f.owed <=> c \in Unstored(p))
    BY <1>5 DEF PaidInv, Unstored
  <2>3. Unstored(p)' = Unstored(p)
    BY <1>2, <1>5, <2>2, UnstoredMoves DEF Paid
  <2> QED BY <1>1, <1>5, <2>2, <2>3 DEF Paid
<1>6. CASE FitFind(c)
  <2>1. PICK p \in Pairs :
          FitBecomes(c, [FitIdle EXCEPT
            !.pc = IF analysis[p] = "none" THEN "findResume" ELSE "reused", !.pair = p])
    BY <1>6 DEF FitFind
  <2> DEFINE f == [FitIdle EXCEPT
                     !.pc = IF analysis[p] = "none" THEN "findResume" ELSE "reused", !.pair = p]
  <2>2. f \in FitCall /\ f.owed = FALSE /\ f.pc # "insert"
    BY DEF FitCall, FitIdle, FitPc, FitEnded
  <2> HIDE DEF f
  <2>3. FitBecomes(c, f) BY <2>1 DEF f
  <2>4. fit[c].owed = FALSE
    BY <1>3, <1>6 DEF FitFind, FitAt, OwedSound
  <2>5. UNCHANGED <<analysis, paid>> BY <1>6 DEF FitFind
  <2>6. \A q \in Pairs : Paid(q)' BY <1>5, <2>2, <2>3, <2>4, <2>5
  <2> QED BY <1>4, <2>2, <2>3, <2>6
<1>7. ASSUME NEW pc \in FitPc, FitGoes(c, pc), UNCHANGED <<analysis, paid>>,
             fit[c].owed => pc \in {"insert", "failed", "lost"}, pc # "insert"
      PROVE  PaidInv'
  <2> DEFINE f == [fit[c] EXCEPT !.pc = pc]
  <2>1. f \in FitCall /\ f.owed = fit[c].owed /\ f.pair = fit[c].pair /\ f.pc = pc
    BY <1>2 DEF FitCall
  <2> HIDE DEF f
  <2>2. FitBecomes(c, f) BY <1>7 DEF FitGoes, f
  <2>3. \A q \in Pairs : Paid(q)' BY <1>5, <1>7, <2>1, <2>2
  <2>4. f.owed => row[f.pair[2]].state # "free" BY <1>3, <2>1 DEF OwedSound
  <2> QED BY <1>4, <1>7, <2>1, <2>2, <2>3, <2>4
<1>8. {"findJob", "failed", "sample", "lost", "done", "generate", "insert"} \subseteq FitPc
  BY DEF FitPc, FitEnded
<1>9. CASE FitFindResume(c) \/ FitFindJob(c)
  <2>1. fit[c].owed = FALSE
    BY <1>3, <1>9 DEF FitFindResume, FitFindJob, FitAt, OwedSound
  <2>2. PICK pc \in {"findJob", "sample", "failed"} : FitGoes(c, pc)
    BY <1>9 DEF FitFindResume, FitFindJob
  <2>3. UNCHANGED <<analysis, paid>> BY <1>9 DEF FitFindResume, FitFindJob
  <2> QED BY <1>7, <1>8, <2>1, <2>2, <2>3
<1>10. CASE ReadSample(c)
  <2>1. PICK s \in Sample : FitBecomes(c, [fit[c] EXCEPT !.pc = "generate", !.sample = s])
    BY <1>10 DEF ReadSample, Sample
  <2> DEFINE f == [fit[c] EXCEPT !.pc = "generate", !.sample = s]
  <2>2. fit[c].owed = FALSE
    BY <1>3, <1>10 DEF ReadSample, FitAt, OwedSound
  <2>3. f \in FitCall /\ f.owed = FALSE /\ f.pc = "generate"
    BY <1>2, <1>8, <2>2 DEF FitCall
  <2> HIDE DEF f
  <2>4. FitBecomes(c, f) BY <2>1 DEF f
  <2>5. UNCHANGED <<analysis, paid>> BY <1>10 DEF ReadSample
  <2>6. \A q \in Pairs : Paid(q)' BY <1>5, <2>2, <2>3, <2>4, <2>5
  <2> QED BY <1>4, <2>3, <2>4, <2>6
<1>11. CASE Generate(c)
  <2>1. /\ fit[c].pc = "generate" /\ fit[c].owed = FALSE /\ fit[c].pair \in Pairs
        /\ row[fit[c].pair[2]].state # "free" /\ UNCHANGED analysis
    BY <1>3, <1>11 DEF Generate, FitAt, OwedSound, SampleSound
  <2>2. CASE UNCHANGED paid /\ FitGoes(c, "failed")
    BY <1>7, <1>8, <2>1, <2>2
  <2>3. CASE /\ paid' = [paid EXCEPT ![fit[c].pair] = @ + 1]
             /\ FitBecomes(c, [fit[c] EXCEPT !.pc = "insert", !.owed = TRUE])
    <3> DEFINE f == [fit[c] EXCEPT !.pc = "insert", !.owed = TRUE]
    <3>1. f \in FitCall /\ f.owed = TRUE /\ f.pair = fit[c].pair /\ f.pc = "insert"
      BY <1>2, <1>8 DEF FitCall
    <3> HIDE DEF f
    <3>2. FitBecomes(c, f) BY <2>3 DEF f
    <3>3. ASSUME NEW p \in Pairs PROVE Paid(p)'
      <4>1. /\ Paid(p) /\ c \notin Unstored(p) /\ analysis' = analysis /\ paid[p] \in Nat
        BY <1>2, <2>1, <3>3 DEF PaidInv, Unstored
      <4>2. /\ IsFiniteSet(Unstored(p)') /\ Cardinality(Unstored(p)) \in Nat
            /\ f.pair = p => Cardinality(Unstored(p)') = Cardinality(Unstored(p)) + 1
            /\ f.pair # p => Unstored(p)' = Unstored(p)
        BY <1>2, <3>1, <3>2, <4>1, UnstoredMoves DEF Paid
      <4>3. CASE f.pair = p
        <5>1. paid'[p] = paid[p] + 1 /\ row[p[2]].state # "free"
          BY <1>2, <2>1, <2>3, <3>1, <4>3
        <5> QED BY <1>1, <4>1, <4>2, <4>3, <5>1 DEF Paid
      <4>4. CASE f.pair # p
        <5>1. paid'[p] = paid[p]
          BY <1>2, <2>3, <3>1, <4>4
        <5> QED BY <1>1, <4>1, <4>2, <4>4, <5>1 DEF Paid
      <4> QED BY <4>3, <4>4
    <3> QED BY <1>4, <2>1, <3>1, <3>2, <3>3
  <2> QED BY <1>11, <2>2, <2>3 DEF Generate
<1>12. CASE StoreAnalysis(c)
  <2>1. /\ fit[c].pc = "insert" /\ fit[c].owed = TRUE /\ fit[c].pair \in Pairs
        /\ fit[c].sample \in Sample /\ UNCHANGED paid
    BY <1>3, <1>12 DEF StoreAnalysis, FitAt, OwedSound, PaidInv, FitInv, FitTypeOK
  <2>2. CASE ~Storable(fit[c].pair)
    <3>1. UNCHANGED analysis /\ FitGoes(c, "failed")
      BY <1>12, <2>2 DEF StoreAnalysis
    <3> QED BY <1>7, <1>8, <2>1, <3>1
  <2>3. CASE Storable(fit[c].pair)
    <3> DEFINE f == [fit[c] EXCEPT !.pc = "done", !.owed = FALSE]
    <3>1. f \in FitCall /\ f.owed = FALSE /\ f.pc = "done"
      BY <1>2, <1>8 DEF FitCall
    <3> HIDE DEF f
    <3>2. /\ FitBecomes(c, f) /\ analysis' = [analysis EXCEPT ![fit[c].pair] = fit[c].sample]
      BY <1>12, <2>3 DEF StoreAnalysis, f
    <3>3. ASSUME NEW p \in Pairs PROVE Paid(p)'
      <4>1. /\ Paid(p) /\ paid' = paid /\ paid[p] \in Nat
            /\ c \in Unstored(p) <=> fit[c].pair = p
        BY <1>2, <2>1, <3>3 DEF PaidInv, Unstored
      <4>2. /\ IsFiniteSet(Unstored(p)') /\ Cardinality(Unstored(p)) \in Nat
            /\ fit[c].pair = p => Cardinality(Unstored(p)') = Cardinality(Unstored(p)) - 1
            /\ fit[c].pair # p => Unstored(p)' = Unstored(p)
        BY <1>2, <3>1, <3>2, <4>1, UnstoredMoves DEF Paid
      <4>3. CASE fit[c].pair = p
        <5>1. /\ analysis[p] = "none" /\ analysis'[p] # "none"
              /\ row[p[2]].state = "live"
          BY <1>2, <2>1, <2>3, <3>2, <4>3 DEF Storable, Sample
        <5> QED BY <1>1, <4>1, <4>2, <4>3, <5>1 DEF Paid
      <4>4. CASE fit[c].pair # p
        <5>1. analysis'[p] = analysis[p]
          BY <1>2, <3>2, <4>4
        <5> QED BY <1>1, <4>1, <4>2, <4>4, <5>1 DEF Paid
      <4> QED BY <4>3, <4>4
    <3> QED BY <1>4, <3>1, <3>2, <3>3
  <2> QED BY <2>2, <2>3
<1>13. CASE FitLose(c)
  <2>1. FitGoes(c, "lost") /\ UNCHANGED <<analysis, paid>>
    BY <1>13 DEF FitLose
  <2> QED BY <1>7, <1>8, <2>1
<1> QED BY <1>6, <1>9, <1>10, <1>11, <1>12, <1>13 DEF FitStep

LEMMA PaidStep == PaidInv /\ [FitNext]_allVars => PaidInv'
<1> SUFFICES ASSUME PaidInv, [FitNext]_allVars PROVE PaidInv'
  OBVIOUS
<1>1. CASE ResumeStep
  BY <1>1, ResumeStepPaid
<1>2. CASE \E c \in FitCalls : FitStep(c)
  BY <1>2, FitStepPaid
<1>3. CASE JobChanges \/ UNCHANGED allVars
  <2>1. UNCHANGED <<row, analysis, fit, paid>>
    BY <1>3 DEF JobChanges, allVars, Stays
  <2>2. FitInv'
    BY FitNextInv DEF PaidInv
  <2> QED BY <2>1, <2>2 DEF PaidInv, OwedSound, Paid, Unstored
<1> QED BY <1>1, <1>2, <1>3 DEF FitNext

\* For a resume that is still there, no answer of the model is unaccounted for:
\* it is the stored analysis, or that of a request that stopped or was overtaken.
THEOREM AnswersAccounted == FitSpec => []PaidAccounted
<1>1. PaidInv => PaidAccounted
  BY DEF PaidInv, Paid, PaidAccounted
<1>2. QED
  BY PaidInitially, PaidStep, <1>1, PTL DEF FitSpec
=============================================================================
