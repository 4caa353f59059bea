---------------------------- MODULE FitAnalysis ----------------------------
(***************************************************************************)
(* The job fit analyses of one user (createJobFitAnalysis), together with  *)
(* the resumes they are made from: ResumeStore goes on uploading and       *)
(* deleting while an analysis reads the file, waits for the language model *)
(* and stores what it answered, once for each job and resume.              *)
(***************************************************************************)
EXTENDS ResumeStore

CONSTANTS
  Jobs,          (* job ids                                                *)
  FitCalls,      (* the requests for an analysis                           *)
  FitMaxInFlight (* those served at the same time                          *)

VARIABLES
  open,      (* the jobs that are OPEN                                     *)
  analysis,  (* JobFitAnalysis rows: what the model was given of the resume*)
  fit,       (* where each request stands and its local variables          *)
  paid       (* answers of the model, by job and resume                    *)

fitVars == <<open, analysis, fit, paid>>
allVars == <<row, objects, call, overlap, open, analysis, fit, paid>>

-----------------------------------------------------------------------------
Pairs == Jobs \X Resumes

\* text: the text of the file; unread: nothing, as storage answered with an
\* error; absent: nothing, as there was no file.
Sample == {"text", "unread", "absent"}

Analysis == Sample \union {"none"}

FitPc == {"idle", "findResume", "findJob", "sample", "generate", "insert",
          "done", "reused", "failed", "lost"}

FitEnded == {"done", "reused", "failed", "lost"}

\* owed: the model has answered and the analysis is not stored.
FitCall == [pc : FitPc, pair : Pairs \union {None}, sample : Sample \union {None},
            owed : BOOLEAN]

FitIdle == [pc |-> "idle", pair |-> None, sample |-> None, owed |-> FALSE]

Fitting == {c \in FitCalls : fit[c].pc \notin {"idle"} \union FitEnded}

FitInit ==
  /\ Init
  /\ open \in SUBSET Jobs
  /\ analysis = [p \in Pairs |-> "none"]
  /\ fit = [c \in FitCalls |-> FitIdle]
  /\ paid = [p \in Pairs |-> 0]

-----------------------------------------------------------------------------
FitAt(c, pc) == fit[c].pc = pc
FitBecomes(c, local) == fit' = [fit EXCEPT ![c] = local]
FitGoes(c, pc) == FitBecomes(c, [fit[c] EXCEPT !.pc = pc])

Stays == UNCHANGED <<row, objects, call, overlap>>

(* The operators named Mutant... are plausible mistakes in the one that     *)
(* follows; nothing refers to them here.                                    *)

\* The foreign key to the resume and the key (userId, jobId, resumeId).
MutantStorable(p) == row[p[2]].state = "live"
Storable(p) == row[p[2]].state = "live" /\ analysis[p] = "none"

\* The analysis is looked up, and reused if there is one ...
FitFind(c) ==
  /\ FitAt(c, "idle")
  /\ Cardinality(Fitting) < FitMaxInFlight
  /\ \E p \in Pairs :
       FitBecomes(c, [FitIdle EXCEPT
         !.pc = IF analysis[p] = "none" THEN "findResume" ELSE "reused", !.pair = p])
  /\ Stays /\ UNCHANGED <<open, analysis, paid>>

\* ... the resume must be the user's ...
FitFindResume(c) ==
  /\ FitAt(c, "findResume")
  /\ FitGoes(c, IF row[fit[c].pair[2]].state = "live" THEN "findJob" ELSE "failed")
  /\ Stays /\ UNCHANGED <<open, analysis, paid>>

\* ... and the job OPEN (the two queries run at once) ...
FitFindJob(c) ==
  /\ FitAt(c, "findJob")
  /\ FitGoes(c, IF fit[c].pair[1] \in open THEN "sample" ELSE "failed")
  /\ Stays /\ UNCHANGED <<open, analysis, paid>>

\* ... readResumeTextSample swallows every error ...
ReadSample(c) ==
  /\ FitAt(c, "sample")
  /\ \E s \in IF fit[c].pair[2] \in objects THEN {"text", "unread"} ELSE {"absent"} :
       FitBecomes(c, [fit[c] EXCEPT !.pc = "generate", !.sample = s])
  /\ Stays /\ UNCHANGED <<open, analysis, paid>>

\* ... the model answers, or the call fails ...
Generate(c) ==
  /\ FitAt(c, "generate")
  /\ \/ /\ paid' = [paid EXCEPT ![fit[c].pair] = @ + 1]
        /\ FitBecomes(c, [fit[c] EXCEPT !.pc = "insert", !.owed = TRUE])
     \/ UNCHANGED paid /\ FitGoes(c, "failed")
  /\ Stays /\ UNCHANGED <<open, analysis>>

\* ... and its analysis is inserted, whatever became of the job.
StoreAnalysis(c) ==
  /\ FitAt(c, "insert")
  /\ IF Storable(fit[c].pair)
     THEN /\ analysis' = [analysis EXCEPT ![fit[c].pair] = fit[c].sample]
          /\ FitBecomes(c, [fit[c] EXCEPT !.pc = "done", !.owed = FALSE])
     ELSE UNCHANGED analysis /\ FitGoes(c, "failed")
  /\ Stays /\ UNCHANGED <<open, paid>>

\* The process restarts, or the client is gone.
FitLose(c) ==
  /\ c \in Fitting
  /\ FitGoes(c, "lost")
  /\ Stays /\ UNCHANGED <<open, analysis, paid>>

FitStep(c) ==
  \/ FitFind(c) \/ FitFindResume(c) \/ FitFindJob(c) \/ ReadSample(c)
  \/ Generate(c) \/ StoreAnalysis(c) \/ FitLose(c)

\* Jobs are published and closed (JobModeration).
JobChanges ==
  /\ \E j \in Jobs : open' \in {open \union {j}, open \ {j}}
  /\ Stays /\ UNCHANGED <<analysis, fit, paid>>

\* Resumes come and go; deleting one deletes its analyses (onDelete: Cascade).
ResumeStep ==
  /\ Next
  /\ analysis' = [p \in Pairs |-> IF row'[p[2]].state = "live" THEN analysis[p] ELSE "none"]
  /\ UNCHANGED <<open, fit, paid>>

FitNext == ResumeStep \/ JobChanges \/ \E c \in FitCalls : FitStep(c)

FitSpec == FitInit /\ [][FitNext]_allVars

-----------------------------------------------------------------------------
(* Properties                                                              *)

FitTypeOK ==
  /\ open \subseteq Jobs
  /\ analysis \in [Pairs -> Analysis]
  /\ fit \in [FitCalls -> FitCall]
  /\ paid \in [Pairs -> Nat]
  /\ \A c \in FitCalls : /\ fit[c].pc # "idle" => fit[c].pair \in Pairs
                         /\ fit[c].pc \in {"generate", "insert"} => fit[c].sample \in Sample

\* An analysis is kept and reused for ever, so it must not rest on a file that
\* was not there: a resume deleted (row first, file last) while its analysis is
\* made takes the analysis with it.  The exception is a resume whose upload was
\* answered with an error although its row was committed.
SawTheResume ==
  \A p \in Pairs : analysis[p] = "absent" => UploadFailed(p[2])

Unstored(p) == {c \in FitCalls : fit[c].pair = p /\ fit[c].owed}

\* For a resume that is still there, each answer of the model is the stored
\* analysis or that of a request which stopped, or was overtaken by another,
\* before it was stored.
PaidAccounted ==
  \A p \in Pairs : row[p[2]].state = "live" =>
    paid[p] = Cardinality(Unstored(p)) + (IF analysis[p] = "none" THEN 0 ELSE 1)

-----------------------------------------------------------------------------
(* The inductive invariant behind the properties                           *)

\* A sample of a file that was not there is of a resume that is deleted, or
\* whose upload failed.
SampleSound(c) ==
  LET f == fit[c]
  IN  /\ f.pc \in {"findJob", "sample", "generate", "insert"} => row[f.pair[2]].state # "free"
      /\ f.pc \in {"generate", "insert"} /\ f.sample = "absent"
           => row[f.pair[2]].state = "deleted" \/ UploadFailed(f.pair[2])

FitInv == IInv /\ FitTypeOK /\ SawTheResume /\ \A c \in FitCalls : SampleSound(c)

\* The answers of the model for a pair are of requests that found the resume,
\* and go with it: a deleted resume has no analysis, and never comes back.
Paid(p) ==
  /\ IsFiniteSet(Unstored(p))
  /\ row[p[2]].state # "live" => analysis[p] = "none"
  /\ row[p[2]].state = "free" => paid[p] = 0
  /\ row[p[2]].state = "live" =>
       paid[p] = Cardinality(Unstored(p)) + (IF analysis[p] = "none" THEN 0 ELSE 1)

OwedSound(c) ==
  LET f == fit[c]
  IN  /\ f.owed => f.pc \in {"insert", "failed", "lost"} /\ row[f.pair[2]].state # "free"
      /\ f.pc = "insert" => f.owed

PaidInv == FitInv /\ (\A c \in FitCalls : OwedSound(c)) /\ \A p \in Pairs : Paid(p)
=============================================================================
