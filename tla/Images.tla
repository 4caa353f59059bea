------------------------------- MODULE Images -------------------------------
(***************************************************************************)
(* The image assets of one account (AssetsService) and the profile picture,*)
(* logo and background that refer to them (MypageService, CompaniesService).*)
(* An asset is a row, PENDING until its upload is completed, and an object *)
(* in S3 or a file on the local disk.  The client writes to S3 itself with *)
(* a presigned URL; a local file is written by the API.                    *)
(*                                                                         *)
(* An action is one awaited statement, storage request or file operation;  *)
(* none of the handlers holds a transaction over two of them.              *)
(***************************************************************************)
EXTENDS Naturals, FiniteSets

CONSTANTS
  Assets,        (* asset ids                                              *)
  Local,         (* those created while the driver is "local"              *)
  Purposes,      (* purposes of images: the places that show one           *)
  PurposeOf,     (* the purpose of each asset; it never changes            *)
  Calls,         (* the requests; each runs one endpoint once              *)
  MaxInFlight,   (* calls served at the same time                          *)
  None

ASSUME ImagesAssumption ==
  /\ Local \subseteq Assets
  /\ "profile" \in Purposes
  /\ PurposeOf \in [Assets -> Purposes]
  /\ None \notin Assets

VARIABLES
  row,       (* Asset rows                                                 *)
  object,    (* what storage has under the key of each asset               *)
  shown,     (* profileImageAssetId, logoAssetId, backgroundAssetId        *)
  url,       (* profileImageUrl is set                                     *)
  call,      (* where each call stands and its local variables             *)
  overlap    (* history: two calls have been in flight at once             *)

vars == <<row, object, shown, url, call, overlap>>

-----------------------------------------------------------------------------
Row == {"free", "pending", "ready", "deleted"}

\* partial: a local file opened for writing and not yet written to its end.
Object == {"none", "partial", "whole"}

Pc == {"idle", "open", "write", "head", "complete",
       "readCurrent", "findOld", "removeObject", "deleteRow",
       "connect", "setUrl", "clearUrl",
       "done", "failed", "lost"}

Ended == {"done", "failed", "lost"}

\* old: the image deleteAsset is called for; flag: of setUrl, the new URL is
\* not empty; of remove, there was a URL; of an upload, it wrote an asset that
\* was no longer pending.
Call == [pc   : Pc,
         op   : {"none", "create", "upload", "complete", "show", "setUrl", "remove"},
         id   : Assets \union {None},
         old  : Assets \union {None},
         flag : BOOLEAN]

Idle == [pc |-> "idle", op |-> "none", id |-> None, old |-> None, flag |-> FALSE]

Exists(a) == row[a] \in {"pending", "ready"}

InFlight == {c \in Calls : call[c].pc \notin {"idle"} \union Ended}

\* Assets uploaded earlier: completed ones have their object, and each place
\* shows one of them or none; a profile shows an asset or a URL.
Init ==
  /\ row \in [Assets -> {"free", "pending", "ready"}]
  /\ object \in [Assets -> {"none", "whole"}]
  /\ \A a \in Assets : /\ row[a] = "free" => object[a] = "none"
                       /\ row[a] = "ready" => object[a] = "whole"
  /\ shown \in [Purposes -> {a \in Assets : row[a] = "ready"} \union {None}]
  /\ \A p \in Purposes : shown[p] # None => PurposeOf[shown[p]] = p
  /\ url \in BOOLEAN
  /\ ~(url /\ shown["profile"] # None)
  /\ call = [c \in Calls |-> Idle]
  /\ overlap = FALSE

-----------------------------------------------------------------------------
Starts(c) == call[c].pc = "idle" /\ Cardinality(InFlight) < MaxInFlight
At(c, pc) == call[c].pc = pc
Becomes(c, local) == call' = [call EXCEPT ![c] = local]
Goes(c, pc) == Becomes(c, [call[c] EXCEPT !.pc = pc])

(* The operators named Mutant... are plausible mistakes in the one that     *)
(* follows; nothing refers to them here.                                    *)

\* assertUploadedObjectMatches: the object has the size of the request.
MutantUploaded(a) == object[a] # "partial"
Uploaded(a) == object[a] = "whole"

\* The object is gone: rm with force, or DeleteObject.
MutantRemoved(a) == IF a \in Local THEN [object EXCEPT ![a] = "none"] ELSE object
Removed(a) == [object EXCEPT ![a] = "none"]

\* onDelete: SetNull.
Unreferenced(a) == [p \in Purposes |-> IF shown[p] = a THEN None ELSE shown[p]]

\* profileImageUrl = null comes with a new profile picture.
UrlBeside(a) == IF PurposeOf[a] = "profile" THEN FALSE ELSE url

\* The statement that follows deleteAsset, or its omission.
AfterDelete(l) ==
  CASE l.op = "show"   -> "connect"
    [] l.op = "setUrl" -> "setUrl"
    [] OTHER           -> IF l.flag THEN "clearUrl" ELSE "done"

\* deleteAsset is called for the asset the profile refers to, if any.
Deletes(l) ==
  LET current == shown["profile"]
  IN  IF current = None THEN [l EXCEPT !.pc = AfterDelete(l)]
                        ELSE [l EXCEPT !.pc = "findOld", !.old = current]

-----------------------------------------------------------------------------
(* Uploads                                                                  *)

\* createImageUploadUrl: INSERT of a PENDING asset; the id is new.
CreateUploadUrl(c) ==
  /\ Starts(c)
  /\ \E a \in Assets :
       /\ row[a] = "free"
       /\ row' = [row EXCEPT ![a] = "pending"]
       /\ Becomes(c, [Idle EXCEPT !.pc = "done", !.op = "create", !.id = a])
  /\ UNCHANGED <<object, shown, url>>

\* The client writes to S3: any number of times until the URL expires, which
\* nothing ties to the state of the asset.
PutObject(c) ==
  /\ Starts(c)
  /\ \E a \in Assets \ Local :
       /\ row[a] # "free"
       /\ object' = [object EXCEPT ![a] = "whole"]
       /\ Becomes(c, [Idle EXCEPT !.pc = "done", !.op = "upload", !.id = a,
                                  !.flag = row[a] # "pending"])
  /\ UNCHANGED <<row, shown, url>>

\* uploadLocalAsset: the asset must be PENDING ...
UploadFind(c) ==
  /\ Starts(c)
  /\ \E a \in Local :
       /\ row[a] = "pending"
       /\ Becomes(c, [Idle EXCEPT !.pc = "open", !.op = "upload", !.id = a])
  /\ UNCHANGED <<row, object, shown, url>>

\* ... writeFile opens and truncates the file ...
UploadOpen(c) ==
  /\ At(c, "open")
  /\ \/ /\ object' = [object EXCEPT ![call[c].id] = "partial"]
        /\ Becomes(c, [call[c] EXCEPT !.pc = "write",
                                      !.flag = row[call[c].id] # "pending"])
     \/ UNCHANGED object /\ Goes(c, "failed")
  /\ UNCHANGED <<row, shown, url>>

\* ... and writes it, unless it was removed meanwhile; the disk may be full.
UploadWrite(c) ==
  /\ At(c, "write")
  /\ \/ /\ object' = [object EXCEPT ![call[c].id] = IF @ = "none" THEN @ ELSE "whole"]
        /\ Goes(c, "done")
     \/ UNCHANGED object /\ Goes(c, "failed")
  /\ UNCHANGED <<row, shown, url>>

\* completeUpload: a READY asset is answered at once ...
CompleteFind(c) ==
  /\ Starts(c)
  /\ \E a \in Assets :
       /\ Exists(a)
       /\ Becomes(c, [Idle EXCEPT !.pc = IF row[a] = "ready" THEN "done" ELSE "head",
                                  !.op = "complete", !.id = a])
  /\ UNCHANGED <<row, object, shown, url>>

\* ... otherwise the object is looked up and compared with the request ...
CompleteHead(c) ==
  /\ At(c, "head")
  /\ Goes(c, IF Uploaded(call[c].id) THEN "complete" ELSE "failed")
  /\ UNCHANGED <<row, object, shown, url>>

\* ... and the row becomes READY, if it is still there.
CompleteUpdate(c) ==
  /\ At(c, "complete")
  /\ IF Exists(call[c].id)
     THEN row' = [row EXCEPT ![call[c].id] = "ready"] /\ Goes(c, "done")
     ELSE UNCHANGED row /\ Goes(c, "failed")
  /\ UNCHANGED <<object, shown, url>>

-----------------------------------------------------------------------------
(* Showing and removing images                                             *)

\* updateProfile with an asset, updateLogo, updateBackground: a READY asset is
\* looked up; only updateProfile deletes the image it replaces.
ShowFind(c) ==
  /\ Starts(c)
  /\ \E a \in Assets :
       /\ row[a] = "ready"
       /\ Becomes(c, [Idle EXCEPT
            !.pc = IF PurposeOf[a] = "profile" THEN "readCurrent" ELSE "connect",
            !.op = "show", !.id = a])
  /\ UNCHANGED <<row, object, shown, url>>

\* The current profile picture is read; another one is to be deleted.
ReadCurrent(c) ==
  /\ At(c, "readCurrent")
  /\ Becomes(c, IF shown["profile"] = call[c].id
                THEN [call[c] EXCEPT !.pc = "connect"]
                ELSE Deletes(call[c]))
  /\ UNCHANGED <<row, object, shown, url>>

\* updateProfile with a URL, possibly empty, reads the current picture.
SetUrlFind(c) ==
  /\ Starts(c)
  /\ \E given \in BOOLEAN :
       Becomes(c, Deletes([Idle EXCEPT !.op = "setUrl", !.flag = given]))
  /\ UNCHANGED <<row, object, shown, url>>

\* deleteProfileImage reads picture and URL.
RemoveFind(c) ==
  /\ Starts(c)
  /\ Becomes(c, Deletes([Idle EXCEPT !.op = "remove", !.flag = url]))
  /\ UNCHANGED <<row, object, shown, url>>

\* deleteAsset: a row that is gone is no error here ...
FindOld(c) ==
  /\ At(c, "findOld")
  /\ Goes(c, IF Exists(call[c].old) THEN "removeObject" ELSE AfterDelete(call[c]))
  /\ UNCHANGED <<row, object, shown, url>>

\* ... the object is removed; an error may come after it was ...
RemoveObject(c) ==
  /\ At(c, "removeObject")
  /\ \/ object' = Removed(call[c].old) /\ Goes(c, "deleteRow")
     \/ object' \in {object, Removed(call[c].old)} /\ Goes(c, "failed")
  /\ UNCHANGED <<row, shown, url>>

\* ... and the row is deleted, with every reference to it; one that is gone by
\* now is an error (P2025).
DeleteRow(c) ==
  /\ At(c, "deleteRow")
  /\ IF Exists(call[c].old)
     THEN /\ row' = [row EXCEPT ![call[c].old] = "deleted"]
          /\ shown' = Unreferenced(call[c].old)
          /\ Goes(c, AfterDelete(call[c]))
     ELSE UNCHANGED <<row, shown>> /\ Goes(c, "failed")
  /\ UNCHANGED <<object, url>>

\* The reference is set (connect); an asset that is gone is an error.
Connect(c) ==
  /\ At(c, "connect")
  /\ IF Exists(call[c].id)
     THEN /\ shown' = [shown EXCEPT ![PurposeOf[call[c].id]] = call[c].id]
          /\ url' = UrlBeside(call[c].id)
          /\ Goes(c, "done")
     ELSE UNCHANGED <<shown, url>> /\ Goes(c, "failed")
  /\ UNCHANGED <<row, object>>

\* UPDATE of profileImageUrl alone, by updateProfile and deleteProfileImage.
SetUrl(c) ==
  /\ \/ At(c, "setUrl") /\ url' = call[c].flag
     \/ At(c, "clearUrl") /\ url' = FALSE
  /\ Goes(c, "done")
  /\ UNCHANGED <<row, object, shown>>

\* The process restarts, or the database does not answer.
Lose(c) ==
  /\ c \in InFlight
  /\ Goes(c, "lost")
  /\ UNCHANGED <<row, object, shown, url>>

Step(c) ==
  \/ CreateUploadUrl(c) \/ PutObject(c)
  \/ UploadFind(c) \/ UploadOpen(c) \/ UploadWrite(c)
  \/ CompleteFind(c) \/ CompleteHead(c) \/ CompleteUpdate(c)
  \/ ShowFind(c) \/ ReadCurrent(c) \/ SetUrlFind(c) \/ RemoveFind(c)
  \/ FindOld(c) \/ RemoveObject(c) \/ DeleteRow(c)
  \/ Connect(c) \/ SetUrl(c) \/ Lose(c)

TwoInFlight == \E b, c \in InFlight : b # c

Next == /\ \E c \in Calls : Step(c)
        /\ overlap' = (overlap \/ TwoInFlight')

Spec == Init /\ [][Next]_vars

-----------------------------------------------------------------------------
(* Properties                                                              *)

Kinds ==
  /\ row \in [Assets -> Row]
  /\ object \in [Assets -> Object]
  /\ shown \in [Purposes -> Assets \union {None}]
  /\ url \in BOOLEAN
  /\ call \in [Calls -> Call]
  /\ \A c \in Calls :
       /\ call[c].op \in {"create", "upload", "complete", "show"} => call[c].id \in Assets
       /\ call[c].pc \in {"open", "write"} => call[c].op = "upload"
       /\ call[c].pc \in {"head", "complete"} => call[c].op = "complete"
       /\ call[c].pc \in {"readCurrent", "connect"} => call[c].op = "show"
       /\ call[c].pc \in {"findOld", "removeObject", "deleteRow"} => call[c].old \in Assets

\* The rows, references and calls are of their kinds, and a call holds the ids
\* its next statement uses.
TypeOK == Kinds /\ overlap \in BOOLEAN

\* A deletion of a got to the object and then stopped, or is about to delete
\* the row.
HalfDeleted(a) ==
  \E c \in Calls : call[c].old = a /\ call[c].pc \in {"deleteRow", "failed", "lost"}

\* A repeated upload of a is rewriting the local file, or stopped doing so.
HalfWritten(a) ==
  \E c \in Calls : /\ call[c].op = "upload" /\ call[c].id = a
                   /\ call[c].pc \in {"write", "failed", "lost"}

\* What a profile or company page links to can be fetched, however uploads,
\* completions and replacements overlap: an image is missing only while, or
\* after, a deletion of it stopped between object and row, and truncated only
\* by a second upload of the same local file that raced with the completion.
ShownHasObject ==
  \A p \in Purposes :
    LET a == shown[p]
    IN  a # None => \/ object[a] = "whole"
                    \/ object[a] = "none" /\ HalfDeleted(a)
                    \/ object[a] = "partial" /\ HalfWritten(a)

\* An upload wrote a when it was not pending any more.
WrittenLate(a) ==
  \E c \in Calls : call[c].op = "upload" /\ call[c].id = a /\ call[c].flag

\* deleteAsset leaves nothing behind in storage, whichever calls race on the
\* asset: an object without a row was written by an upload that came after the
\* completion of the asset.
OrphansWrittenLate ==
  \A a \in Assets : row[a] = "deleted" /\ object[a] # "none" => WrittenLate(a)

\* The profile has an uploaded picture or a URL, not both (the picture would
\* hide the URL just chosen), unless calls of the user overlapped; failing and
\* lost calls do not break this.
OneImageApart == ~overlap => ~(url /\ shown["profile"] # None)

-----------------------------------------------------------------------------
(* The inductive invariant behind the properties                           *)

\* What a place shows is a completed asset made for it.
ShownIsReady ==
  \A p \in Purposes : shown[p] # None => row[shown[p]] = "ready" /\ PurposeOf[shown[p]] = p

\* A completed asset, or one about to be, has its object or lost it to a half
\* deletion or upload.
Accounted(a) ==
  \/ object[a] = "whole"
  \/ object[a] = "none" /\ HalfDeleted(a)
  \/ object[a] = "partial" /\ HalfWritten(a)

Stored ==
  \A a \in Assets :
    /\ row[a] = "ready" => Accounted(a)
    /\ object[a] = "partial" => HalfWritten(a)
    /\ row[a] = "free" => object[a] = "none"

\* What a call relies on between its statements.
Sound(c) ==
  LET l == call[c]
  IN  /\ l.pc = "idle" => l.op = "none" /\ l.old = None
      /\ l.pc = "open" => ~l.flag
      /\ l.op \in {"create", "upload", "complete"} => row[l.id] # "free"
      /\ l.pc = "complete" => row[l.id] = "deleted" \/ Accounted(l.id)
      /\ l.op = "show" => row[l.id] \in {"ready", "deleted"}
      /\ l.old # None => row[l.old] \in {"ready", "deleted"}
      /\ l.old # None /\ l.pc \notin {"findOld", "removeObject", "deleteRow", "failed", "lost"}
           => row[l.old] = "deleted"
      /\ l.pc = "deleteRow" => object[l.old] = "none" \/ WrittenLate(l.old)

\* A call that is alone still stands on what it read.
Alone(c) ==
  c \in InFlight =>
    /\ call[c].pc = "setUrl" => call[c].op = "setUrl"
    /\ call[c].op = "setUrl" =>
         \/ shown["profile"] = None
         \/ call[c].pc # "setUrl" /\ shown["profile"] = call[c].old

Apart == ~overlap => ~TwoInFlight /\ \A c \in Calls : Alone(c)

IInv == /\ TypeOK /\ ShownIsReady /\ Stored /\ (\A c \in Calls : Sound(c))
        /\ OrphansWrittenLate /\ Apart /\ OneImageApart
=============================================================================
