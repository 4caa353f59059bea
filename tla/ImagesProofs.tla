---------------------------- MODULE ImagesProofs ----------------------------
(***************************************************************************)
(* The properties of Images for any number of assets, places and calls.    *)
(* The invariant says of every completed asset, shown or not, where its    *)
(* object went; Frame reduces each step to what it does to the object and  *)
(* row of one asset and to the call that takes it.                         *)
(***************************************************************************)
EXTENDS Images, TLAPS

USE ImagesAssumption

Core == /\ Kinds /\ ShownIsReady /\ Stored /\ (\A c \in Calls : Sound(c))
        /\ OrphansWrittenLate

\* Rows only move on.
Onward == \A a \in Assets :
  /\ row[a] # "free" => row'[a] # "free"
  /\ row[a] \in {"ready", "deleted"} => row'[a] \in {"ready", "deleted"}
  /\ row[a] = "deleted" => row'[a] = "deleted"

\* What call c explains, it goes on explaining, unless it is no longer needed.
Explains(c) == \A a \in Assets :
  /\ call[c].old = a /\ call[c].pc \in {"deleteRow", "failed", "lost"}
       => \/ call'[c].old = a /\ call'[c].pc \in {"deleteRow", "failed", "lost"}
          \/ row'[a] = "deleted"
  /\ call[c].op = "upload" /\ call[c].id = a /\ call[c].pc \in {"write", "failed", "lost"}
       => \/ /\ call'[c].op = "upload" /\ call'[c].id = a
             /\ call'[c].pc \in {"write", "failed", "lost"}
          \/ object'[a] # "partial"
  /\ call[c].op = "upload" /\ call[c].id = a /\ call[c].flag
       => call'[c].op = "upload" /\ call'[c].id = a /\ call'[c].flag

\* An object changes only as follows.
ObjectMoves == \A a \in Assets :
  object'[a] # object[a] =>
    \/ object'[a] = "none" /\ HalfDeleted(a)'
    \/ object'[a] = "partial" /\ HalfWritten(a)' /\ (row[a] # "pending" => WrittenLate(a)')
    \/ object'[a] = "whole" /\ (object[a] = "none" /\ row[a] # "pending" => WrittenLate(a)')

LEMMA Frame ==
  ASSUME Core, NEW c \in Calls, NEW l \in Call, Becomes(c, l),
         row' \in [Assets -> Row], object' \in [Assets -> Object],
         shown' \in [Purposes -> Assets \union {None}], url' \in BOOLEAN,
         l.op \in {"create", "upload", "complete", "show"} => l.id \in Assets,
         l.pc \in {"open", "write"} => l.op = "upload",
         l.pc \in {"head", "complete"} => l.op = "complete",
         l.pc \in {"readCurrent", "connect"} => l.op = "show",
         l.pc \in {"findOld", "removeObject", "deleteRow"} => l.old \in Assets,
         Onward, Explains(c), ObjectMoves,
         \A a \in Assets : row'[a] = "free" => object'[a] = "none",
         \A a \in Assets : row'[a] = "ready" /\ row[a] # "ready" => Accounted(a),
         \A a \in Assets : row'[a] = "deleted" /\ row[a] # "deleted"
           => object'[a] = object[a] /\ (object[a] = "none" \/ WrittenLate(a)),
         ShownIsReady', Sound(c)'
  PROVE  Core'
<1>1. call \in [Calls -> Call] /\ row \in [Assets -> Row] /\ object \in [Assets -> Object]
  BY DEF Core, Kinds
<1>2. /\ call' \in [Calls -> Call] /\ call'[c] = l
      /\ \A d \in Calls \ {c} : call'[d] = call[d]
  BY <1>1 DEF Becomes
<1>3. Kinds'
  <2>1. \A d \in Calls \ {c} :
       /\ call'[d].op \in {"create", "upload", "complete", "show"} => call'[d].id \in Assets
       /\ call'[d].pc \in {"open", "write"} => call'[d].op = "upload"
       /\ call'[d].pc \in {"head", "complete"} => call'[d].op = "complete"
       /\ call'[d].pc \in {"readCurrent", "connect"} => call'[d].op = "show"
       /\ call'[d].pc \in {"findOld", "removeObject", "deleteRow"} => call'[d].old \in Assets
    BY <1>2 DEF Core, Kinds
  <2> QED BY <1>2, <2>1 DEF Kinds
<1>4. \A a \in Assets : HalfDeleted(a) => HalfDeleted(a)' \/ row'[a] = "deleted"
  <2>1. SUFFICES ASSUME NEW a \in Assets, HalfDeleted(a), row'[a] # "deleted"
                 PROVE  HalfDeleted(a)'
    OBVIOUS
  <2>2. PICK d \in Calls : call[d].old = a /\ call[d].pc \in {"deleteRow", "failed", "lost"}
    BY <2>1 DEF HalfDeleted
  <2>3. call'[d].old = a /\ call'[d].pc \in {"deleteRow", "failed", "lost"}
    BY <1>2, <2>1, <2>2 DEF Explains
  <2> QED BY <2>3 DEF HalfDeleted
<1>5. \A a \in Assets : HalfWritten(a) => HalfWritten(a)' \/ object'[a] # "partial"
  <2>1. SUFFICES ASSUME NEW a \in Assets, HalfWritten(a), object'[a] = "partial"
                 PROVE  HalfWritten(a)'
    OBVIOUS
  <2>2. PICK d \in Calls : /\ call[d].op = "upload" /\ call[d].id = a
                           /\ call[d].pc \in {"write", "failed", "lost"}
    BY <2>1 DEF HalfWritten
  <2>3. /\ call'[d].op = "upload" /\ call'[d].id = a
        /\ call'[d].pc \in {"write", "failed", "lost"}
    BY <1>2, <2>1, <2>2 DEF Explains
  <2> QED BY <2>3 DEF HalfWritten
<1>6. \A a \in Assets : WrittenLate(a) => WrittenLate(a)'
  <2>1. SUFFICES ASSUME NEW a \in Assets, WrittenLate(a) PROVE WrittenLate(a)'
    OBVIOUS
  <2>2. PICK d \in Calls : call[d].op = "upload" /\ call[d].id = a /\ call[d].flag
    BY <2>1 DEF WrittenLate
  <2>3. call'[d].op = "upload" /\ call'[d].id = a /\ call'[d].flag
    BY <1>2, <2>2 DEF Explains
  <2> QED BY <2>3 DEF WrittenLate
<1>7. \A a \in Assets : Accounted(a) => Accounted(a)' \/ row'[a] = "deleted"
  <2>1. SUFFICES ASSUME NEW a \in Assets, Accounted(a), row'[a] # "deleted"
                 PROVE  Accounted(a)'
    OBVIOUS
  <2>2. CASE object'[a] = object[a]
    BY <1>4, <1>5, <2>1, <2>2 DEF Accounted
  <2>3. CASE object'[a] # object[a]
    BY <2>3 DEF ObjectMoves, Accounted
  <2> QED BY <2>2, <2>3
<1>8. Stored'
  <2>1. SUFFICES ASSUME NEW a \in Assets
                 PROVE  /\ row'[a] = "ready" => Accounted(a)'
                        /\ object'[a] = "partial" => HalfWritten(a)'
    BY DEF Stored
  <2>2. row'[a] = "ready" => Accounted(a)'
    BY <1>7 DEF Core, Stored
  <2>3. object'[a] = "partial" => HalfWritten(a)'
    BY <1>5 DEF Core, Stored, ObjectMoves
  <2> QED BY <2>2, <2>3
<1>9. \A a \in Assets : /\ row[a] \in {"ready", "deleted"}
                        /\ object[a] = "none" \/ WrittenLate(a)
                        => object'[a] = "none" \/ WrittenLate(a)'
  BY <1>6 DEF ObjectMoves
<1>10. OrphansWrittenLate'
  <2>1. SUFFICES ASSUME NEW a \in Assets, row'[a] = "deleted"
                 PROVE  object'[a] = "none" \/ WrittenLate(a)'
    BY DEF OrphansWrittenLate
  <2>2. row[a] = "deleted" => object[a] = "none" \/ WrittenLate(a)
    BY DEF Core, OrphansWrittenLate
  <2>3. object[a] = "none" \/ WrittenLate(a)
    BY <2>1, <2>2
  <2>4. CASE row[a] = "deleted"
    BY <1>9, <2>3, <2>4
  <2>5. CASE row[a] # "deleted"
    BY <1>6, <2>1, <2>3, <2>5
  <2> QED BY <2>4, <2>5
<1>11. \A d \in Calls : Sound(d)'
  <2>1. SUFFICES ASSUME NEW d \in Calls \ {c} PROVE Sound(d)'
    OBVIOUS
  <2>2. call'[d] = call[d] /\ Sound(d) /\ call[d] \in Call
    BY <1>1, <1>2 DEF Core
  <2>3. /\ call[d].op \in {"create", "upload", "complete", "show"} => call[d].id \in Assets
        /\ call[d].pc = "complete" => call[d].id \in Assets
        /\ call[d].pc = "deleteRow" => call[d].old \in Assets
        /\ call[d].old # None => call[d].old \in Assets
    BY <2>2 DEF Core, Kinds, Call
  <2>4. ASSUME NEW a \in Assets, call[d].pc = "complete", call[d].id = a
        PROVE  row'[a] = "deleted" \/ Accounted(a)'
    BY <1>7, <2>2, <2>4 DEF Sound, Onward
  <2>5. ASSUME NEW a \in Assets, call[d].pc = "deleteRow", call[d].old = a
        PROVE  object'[a] = "none" \/ WrittenLate(a)'
    <3>1. /\ row[a] \in {"ready", "deleted"}
          /\ object[a] = "none" \/ WrittenLate(a)
      BY <2>2, <2>5 DEF Sound
    <3> QED BY <1>9, <3>1
  <2>6. /\ call'[d].pc = "complete" => row'[call'[d].id] = "deleted" \/ Accounted(call[d].id)'
        /\ call'[d].pc = "deleteRow" => object'[call'[d].old] = "none" \/ WrittenLate(call[d].old)'
    BY <2>2, <2>3, <2>4, <2>5 DEF Accounted, WrittenLate, HalfDeleted, HalfWritten
  <2>7. /\ call'[d].pc = "idle" => call'[d].op = "none" /\ call'[d].old = None
        /\ call'[d].pc = "open" => ~call'[d].flag
        /\ call'[d].op \in {"create", "upload", "complete"} => row'[call'[d].id] # "free"
        /\ call'[d].op = "show" => row'[call'[d].id] \in {"ready", "deleted"}
        /\ call'[d].old # None => row'[call'[d].old] \in {"ready", "deleted"}
        /\ call'[d].old # None
             /\ call'[d].pc \notin {"findOld", "removeObject", "deleteRow", "failed", "lost"}
             => row'[call'[d].old] = "deleted"
    BY <2>2, <2>3 DEF Sound, Onward
  <2> QED BY <2>6, <2>7 DEF Sound
<1> QED BY <1>3, <1>8, <1>10, <1>11 DEF Core

-----------------------------------------------------------------------------
(* Steps that change neither rows nor objects nor references               *)

LEMMA ReadStep ==
  ASSUME Core, NEW c \in Calls, NEW l \in Call, Becomes(c, l),
         UNCHANGED <<row, object, shown>>, url' \in BOOLEAN,
         call[c].pc \notin Ended,
         l.op \in {"create", "upload", "complete", "show"} => l.id \in Assets,
         l.pc \in {"open", "write"} => l.op = "upload",
         l.pc \in {"head", "complete"} => l.op = "complete",
         l.pc \in {"readCurrent", "connect"} => l.op = "show",
         l.pc \in {"findOld", "removeObject", "deleteRow"} => l.old \in Assets,
         call[c].op = "upload" =>
           l.op = "upload" /\ l.id = call[c].id /\ l.flag = call[c].flag,
         call[c].pc \in {"write", "deleteRow"} => l.pc = "lost" /\ l.old = call[c].old,
         l.pc # "idle", l.pc = "open" => ~l.flag,
         l.op \in {"create", "upload", "complete"} => row[l.id] # "free",
         l.pc = "complete" => row[l.id] = "deleted" \/ object[l.id] = "whole",
         l.op = "show" => row[l.id] \in {"ready", "deleted"},
         l.old # None => row[l.old] \in {"ready", "deleted"},
         l.old # None /\ l.pc \notin {"findOld", "removeObject", "deleteRow", "failed", "lost"}
           => row[l.old] = "deleted",
         l.pc # "deleteRow"
  PROVE  Core'
<1>1. call \in [Calls -> Call] /\ row \in [Assets -> Row] /\ object \in [Assets -> Object]
      /\ shown \in [Purposes -> Assets \union {None}] /\ call'[c] = l
  BY DEF Core, Kinds, Becomes
<1>2. call[c].pc \in {"write"} => call[c].op = "upload"
  BY DEF Core, Kinds
<1>3. Onward /\ ObjectMoves
  BY DEF Onward, ObjectMoves
<1>4. Explains(c)
  BY <1>1, <1>2 DEF Explains, Ended
<1>5. Sound(c)'
  BY <1>1 DEF Sound, Accounted
<1>6. /\ ShownIsReady'
      /\ \A a \in Assets : row'[a] = "free" => object'[a] = "none"
      /\ \A a \in Assets : row'[a] = "ready" /\ row[a] # "ready" => Accounted(a)
      /\ \A a \in Assets : row'[a] = "deleted" /\ row[a] # "deleted"
           => object'[a] = object[a] /\ (object[a] = "none" \/ WrittenLate(a))
  BY DEF Core, ShownIsReady, Stored
<1>7. row' \in [Assets -> Row] /\ object' \in [Assets -> Object]
      /\ shown' \in [Purposes -> Assets \union {None}]
  BY <1>1
<1> QED BY <1>3, <1>4, <1>5, <1>6, <1>7, Frame

\* The call goes on with the same locals.
LEMMA GoesStep ==
  ASSUME Core, NEW c \in Calls, NEW pc \in Pc, Goes(c, pc),
         UNCHANGED <<row, object, shown>>, url' \in BOOLEAN,
         c \in InFlight,
         pc \notin {"idle", "open", "write", "deleteRow", "readCurrent", "head", "findOld"},
         pc = "complete" => call[c].op = "complete" /\ object[call[c].id] = "whole",
         pc = "removeObject" => call[c].pc = "findOld",
         pc = "connect" => call[c].op = "show",
         call[c].pc \in {"write", "deleteRow"} => pc = "lost",
         call[c].old # None /\ pc \notin {"removeObject", "failed", "lost"}
           => row[call[c].old] = "deleted"
  PROVE  Core'
<1> DEFINE l == [call[c] EXCEPT !.pc = pc]
<1>1. call[c] \in Call /\ Sound(c)
  BY DEF Core, Kinds
<1>2. l \in Call /\ Becomes(c, l)
  BY <1>1 DEF Call, Goes
<1>3. l.pc = pc /\ l.op = call[c].op /\ l.id = call[c].id /\ l.old = call[c].old
      /\ l.flag = call[c].flag
  BY <1>1 DEF Call
<1>4. call[c].pc \notin Ended
  BY DEF InFlight
<1>5. /\ l.op \in {"create", "upload", "complete", "show"} => l.id \in Assets
      /\ l.pc = "removeObject" => l.old \in Assets
  BY <1>3 DEF Core, Kinds
<1>6. /\ l.op \in {"create", "upload", "complete"} => row[l.id] # "free"
      /\ l.op = "show" => row[l.id] \in {"ready", "deleted"}
      /\ l.old # None => row[l.old] \in {"ready", "deleted"}
  BY <1>1, <1>3 DEF Sound
<1> HIDE DEF l
<1> QED BY <1>2, <1>3, <1>4, <1>5, <1>6, ReadStep

\* A call that begins, with l as its first locals, reads only.
LEMMA StartStep ==
  ASSUME Core, NEW c \in Calls, NEW l \in Call, Becomes(c, l), call[c].pc = "idle",
         UNCHANGED <<row, object, shown, url>>,
         \/ /\ l.old = None
            /\ \/ l.pc \in {"setUrl", "clearUrl", "done"} /\ l.op \in {"setUrl", "remove"}
               \/ /\ l.pc = "open" /\ l.op = "upload" /\ ~l.flag
                  /\ l.id \in Assets /\ row[l.id] = "pending"
               \/ /\ l.pc \in {"done", "head"} /\ l.op = "complete"
                  /\ l.id \in Assets /\ Exists(l.id)
               \/ /\ l.pc \in {"readCurrent", "connect"} /\ l.op = "show"
                  /\ l.id \in Assets /\ row[l.id] = "ready"
         \/ /\ l.pc = "findOld" /\ l.op \in {"setUrl", "remove"}
            /\ l.old \in Assets /\ row[l.old] = "ready"
  PROVE  Core'
<1>1. call[c].op = "none" /\ url' \in BOOLEAN
  BY DEF Core, Kinds, Sound
<1> QED BY <1>1, ReadStep DEF Exists, Ended

\* Deletes gives a call whose next statement is sound.
LEMMA DeletesIs ==
  ASSUME Core, NEW l \in Call, l.op \in {"show", "setUrl", "remove"}
  PROVE  LET m == Deletes(l)
         IN  /\ m \in Call /\ m.op = l.op /\ m.id = l.id /\ m.flag = l.flag
             /\ \/ /\ shown["profile"] = None /\ m.old = l.old
                   /\ m.pc = AfterDelete(l)
                \/ /\ m.pc = "findOld" /\ m.old = shown["profile"]
                   /\ m.old \in Assets /\ row[m.old] = "ready"
<1>1. shown["profile"] \in Assets \union {None}
  BY DEF Core, Kinds
<1>2. shown["profile"] # None => row[shown["profile"]] = "ready"
  BY DEF Core, ShownIsReady
<1>3. AfterDelete(l) \in {"connect", "setUrl", "clearUrl", "done"}
  BY DEF AfterDelete
<1>4. CASE shown["profile"] = None
  <2>1. Deletes(l) = [l EXCEPT !.pc = AfterDelete(l)]
    BY <1>4 DEF Deletes
  <2> QED BY <1>3, <1>4, <2>1 DEF Call, Pc
<1>5. CASE shown["profile"] # None
  <2>1. Deletes(l) = [l EXCEPT !.pc = "findOld", !.old = shown["profile"]]
    BY <1>5 DEF Deletes
  <2> QED BY <1>1, <1>2, <1>5, <2>1 DEF Call, Pc
<1> QED BY <1>4, <1>5

LEMMA NewCall ==
  ASSUME NEW pc \in Pc, NEW op \in {"create", "upload", "complete", "show", "setUrl", "remove"},
         NEW id \in Assets \union {None}, NEW flag \in BOOLEAN
  PROVE  LET l == [Idle EXCEPT !.pc = pc, !.op = op, !.id = id, !.flag = flag]
         IN  /\ l \in Call /\ l.pc = pc /\ l.op = op /\ l.id = id /\ l.flag = flag
             /\ l.old = None
  BY DEF Idle, Call, Pc

-----------------------------------------------------------------------------
(* Steps that write                                                         *)

\* The row of a new asset.
LEMMA CreateStep == ASSUME Core, NEW c \in Calls, CreateUploadUrl(c) PROVE Core'
<1>1. PICK a \in Assets : /\ row[a] = "free"
                          /\ row' = [row EXCEPT ![a] = "pending"]
                          /\ Becomes(c, [Idle EXCEPT !.pc = "done", !.op = "create", !.id = a])
  BY DEF CreateUploadUrl
<1> DEFINE l == [Idle EXCEPT !.pc = "done", !.op = "create", !.id = a]
<1>2. /\ l \in Call /\ l.pc = "done" /\ l.op = "create" /\ l.id = a /\ l.old = None
      /\ l.flag = FALSE
  BY DEF Idle, Call, Pc
<1>3. /\ row \in [Assets -> Row] /\ call \in [Calls -> Call] /\ call[c].pc = "idle"
      /\ call[c].op = "none" /\ call[c].old = None
      /\ UNCHANGED <<object, shown, url>> /\ call'[c] = l
  BY <1>1, <1>2 DEF CreateUploadUrl, Starts, Core, Kinds, Sound, Becomes
<1> HIDE DEF l
<1>4. Onward /\ ObjectMoves /\ Explains(c)
  BY <1>1, <1>3 DEF Onward, ObjectMoves, Explains
<1>5. Sound(c)'
  BY <1>1, <1>2, <1>3 DEF Sound
<1>6. /\ ShownIsReady' /\ row' \in [Assets -> Row]
      /\ object' \in [Assets -> Object] /\ shown' \in [Purposes -> Assets \union {None}]
      /\ url' \in BOOLEAN
      /\ \A b \in Assets : row'[b] = "free" => object'[b] = "none"
      /\ \A b \in Assets : row'[b] = "ready" => row[b] = "ready"
      /\ \A b \in Assets : row'[b] = "deleted" => row[b] = "deleted"
  BY <1>1, <1>3 DEF Core, Kinds, ShownIsReady, Stored, Row
<1>7. Becomes(c, l)
  BY <1>1 DEF l
<1> QED BY <1>2, <1>4, <1>5, <1>6, <1>7, Frame

\* A presigned PUT.
LEMMA PutStep == ASSUME Core, NEW c \in Calls, PutObject(c) PROVE Core'
<1>1. PICK a \in Assets \ Local :
        /\ row[a] # "free"
        /\ object' = [object EXCEPT ![a] = "whole"]
        /\ Becomes(c, [Idle EXCEPT !.pc = "done", !.op = "upload", !.id = a,
                                   !.flag = row[a] # "pending"])
  BY DEF PutObject
<1> DEFINE l == [Idle EXCEPT !.pc = "done", !.op = "upload", !.id = a,
                             !.flag = row[a] # "pending"]
<1>2. /\ l \in Call /\ l.pc = "done" /\ l.op = "upload" /\ l.id = a /\ l.old = None
      /\ (l.flag <=> row[a] # "pending")
  BY DEF Idle, Call, Pc
<1>3. /\ object \in [Assets -> Object] /\ call \in [Calls -> Call] /\ call[c].pc = "idle"
      /\ call[c].op = "none" /\ call[c].old = None
      /\ UNCHANGED <<row, shown, url>> /\ call'[c] = l
  BY <1>1, <1>2 DEF PutObject, Starts, Core, Kinds, Sound, Becomes
<1> HIDE DEF l
<1>4. Onward /\ Explains(c)
  BY <1>1, <1>3 DEF Onward, Explains
<1>5. row[a] # "pending" => WrittenLate(a)'
  BY <1>2, <1>3 DEF WrittenLate
<1>6. ObjectMoves
  BY <1>1, <1>3, <1>5 DEF ObjectMoves
<1>7. Sound(c)'
  BY <1>1, <1>2, <1>3 DEF Sound
<1>8. /\ ShownIsReady' /\ row' \in [Assets -> Row]
      /\ object' \in [Assets -> Object] /\ shown' \in [Purposes -> Assets \union {None}]
      /\ url' \in BOOLEAN
      /\ \A b \in Assets : row'[b] = "free" => object'[b] = "none"
  BY <1>1, <1>3 DEF Core, Kinds, ShownIsReady, Stored, Object
<1>9. Becomes(c, l)
  BY <1>1 DEF l
<1> QED BY <1>2, <1>3, <1>4, <1>6, <1>7, <1>8, <1>9, Frame

\* The local file is opened, or could not be.
LEMMA OpenStep == ASSUME Core, NEW c \in Calls, UploadOpen(c) PROVE Core'
<1>0. PICK a \in Assets : a = call[c].id
  BY DEF UploadOpen, At, Core, Kinds
<1>1. /\ object \in [Assets -> Object] /\ call \in [Calls -> Call] /\ call[c] \in Call
      /\ call[c].pc = "open" /\ call[c].op = "upload" /\ a \in Assets /\ ~call[c].flag
      /\ row[a] # "free" /\ Sound(c)
      /\ UNCHANGED <<row, shown, url>>
  BY <1>0 DEF UploadOpen, At, Core, Kinds, Sound
<1>2. PICK pc \in {"write", "failed"}, flag \in BOOLEAN :
        /\ Becomes(c, [call[c] EXCEPT !.pc = pc, !.flag = flag])
        /\ object' = object \/ /\ object' = [object EXCEPT ![a] = "partial"] /\ pc = "write"
                               /\ flag = (row[a] # "pending")
  <2>1. [call[c] EXCEPT !.pc = "failed", !.flag = call[c].flag] = [call[c] EXCEPT !.pc = "failed"]
        /\ call[c].flag \in BOOLEAN
    BY <1>1 DEF Call
  <2> QED BY <1>0, <2>1 DEF UploadOpen, Goes
<1> DEFINE l == [call[c] EXCEPT !.pc = pc, !.flag = flag]
<1>3. /\ l \in Call /\ l.pc = pc /\ l.op = "upload" /\ l.id = a /\ l.old = call[c].old
      /\ l.flag = flag /\ call'[c] = l
  BY <1>0, <1>1, <1>2 DEF Call, Pc, Becomes
<1>4. Becomes(c, l)
  BY <1>2
<1> HIDE DEF l
<1>5. Onward /\ Explains(c)
  BY <1>0, <1>1, <1>3 DEF Onward, Explains, Sound
<1>6. ObjectMoves
  <2>1. HalfWritten(a)'
    BY <1>3 DEF HalfWritten
  <2>2. flag => WrittenLate(a)'
    BY <1>3 DEF WrittenLate
  <2>3. object' # object => object' = [object EXCEPT ![a] = "partial"]
                              /\ flag = (row[a] # "pending")
    BY <1>2
  <2> QED BY <1>1, <2>1, <2>2, <2>3 DEF ObjectMoves
<1>7. Sound(c)'
  <2>1. call[c].old # None => row[call[c].old] \in {"ready", "deleted"}
                                /\ row[call[c].old] = "deleted"
    BY <1>1 DEF Sound
  <2> QED BY <1>1, <1>2, <1>3, <2>1 DEF Sound
<1>8. /\ ShownIsReady' /\ row' \in [Assets -> Row]
      /\ object' \in [Assets -> Object] /\ shown' \in [Purposes -> Assets \union {None}]
      /\ url' \in BOOLEAN
      /\ \A b \in Assets : row'[b] = "free" => object'[b] = "none"
  BY <1>1, <1>2 DEF Core, Kinds, ShownIsReady, Stored, Object
<1> QED BY <1>1, <1>3, <1>4, <1>5, <1>6, <1>7, <1>8, Frame

\* The file is written to its end, or not.
LEMMA WriteStep == ASSUME Core, NEW c \in Calls, UploadWrite(c) PROVE Core'
<1> DEFINE a == call[c].id
<1>1. /\ object \in [Assets -> Object] /\ call \in [Calls -> Call] /\ call[c] \in Call
      /\ call[c].pc = "write" /\ call[c].op = "upload" /\ a \in Assets
      /\ row[a] # "free" /\ Sound(c)
      /\ UNCHANGED <<row, shown, url>>
  BY DEF UploadWrite, At, Core, Kinds, Sound
<1>2. PICK pc \in {"done", "failed"} :
        /\ Becomes(c, [call[c] EXCEPT !.pc = pc])
        /\ \/ object' = object /\ pc = "failed"
           \/ /\ pc = "done"
              /\ object' = [object EXCEPT ![a] = IF @ = "none" THEN @ ELSE "whole"]
  BY DEF UploadWrite, Goes
<1> DEFINE l == [call[c] EXCEPT !.pc = pc]
<1>3. /\ l \in Call /\ l.pc = pc /\ l.op = "upload" /\ l.id = a /\ l.old = call[c].old
      /\ l.flag = call[c].flag /\ call'[c] = l
  BY <1>1, <1>2 DEF Call, Pc, Becomes
<1>4. Becomes(c, l)
  BY <1>2
<1> HIDE DEF l
<1>5. object'[a] # "partial" \/ pc = "failed"
  BY <1>1, <1>2 DEF Object
<1>6. Onward /\ Explains(c)
  BY <1>1, <1>2, <1>3, <1>5 DEF Onward, Explains
<1>7. ObjectMoves
  BY <1>1, <1>2 DEF ObjectMoves
<1>8. Sound(c)'
  <2>1. call[c].old # None => row[call[c].old] = "deleted"
    BY <1>1 DEF Sound
  <2> QED BY <1>1, <1>2, <1>3, <2>1 DEF Sound
<1>9. /\ ShownIsReady' /\ row' \in [Assets -> Row]
      /\ object' \in [Assets -> Object] /\ shown' \in [Purposes -> Assets \union {None}]
      /\ url' \in BOOLEAN
      /\ \A b \in Assets : row'[b] = "free" => object'[b] = "none"
  BY <1>1, <1>2 DEF Core, Kinds, ShownIsReady, Stored, Object
<1> QED BY <1>1, <1>2, <1>3, <1>4, <1>6, <1>7, <1>8, <1>9, Frame

\* A pending asset becomes READY.
LEMMA CompleteStep == ASSUME Core, NEW c \in Calls, CompleteUpdate(c) PROVE Core'
<1> DEFINE a == call[c].id
<1>1. /\ row \in [Assets -> Row] /\ call \in [Calls -> Call] /\ call[c] \in Call
      /\ call[c].pc = "complete" /\ call[c].op = "complete" /\ a \in Assets
      /\ Sound(c) /\ (row[a] = "deleted" \/ Accounted(a))
      /\ UNCHANGED <<object, shown, url>>
  BY DEF CompleteUpdate, At, Core, Kinds, Sound
<1>2. PICK pc \in {"done", "failed"} :
        /\ Becomes(c, [call[c] EXCEPT !.pc = pc])
        /\ row' = row \/ (row' = [row EXCEPT ![a] = "ready"] /\ Exists(a))
  BY DEF CompleteUpdate, Goes
<1> DEFINE l == [call[c] EXCEPT !.pc = pc]
<1>3. /\ l \in Call /\ l.pc = pc /\ l.op = "complete" /\ l.id = a /\ l.old = call[c].old
      /\ call'[c] = l
  BY <1>1, <1>2 DEF Call, Pc, Becomes
<1>4. Becomes(c, l)
  BY <1>2
<1>5. \A b \in Assets : b # a => row'[b] = row[b]
  BY <1>1, <1>2
<1>6. row'[a] = row[a] \/ (row'[a] = "ready" /\ row[a] \in {"pending", "ready"} /\ Accounted(a))
  BY <1>1, <1>2 DEF Exists
<1> HIDE DEF l, a
<1>7. Onward
  <2>1. \A b \in Assets : \/ row'[b] = row[b]
                          \/ row'[b] = "ready" /\ row[b] \in {"pending", "ready"}
    BY <1>5, <1>6
  <2> QED BY <2>1 DEF Onward
<1>8. Explains(c) /\ ObjectMoves
  BY <1>1 DEF Explains, ObjectMoves
<1>9. Sound(c)'
  <2>1. call[c].old # None => row[call[c].old] = "deleted" /\ call[c].old \in Assets
    BY <1>1 DEF Sound, Call
  <2>2. row[a] # "free"
    BY <1>1 DEF Sound, a
  <2>3. row'[a] # "free"
    BY <1>1, <1>7, <2>2 DEF Onward
  <2>4. call[c].old # None => row'[call[c].old] = "deleted"
    BY <1>7, <2>1 DEF Onward
  <2> QED BY <1>2, <1>3, <2>3, <2>4 DEF Sound
<1>10. /\ ShownIsReady' /\ row' \in [Assets -> Row]
      /\ object' \in [Assets -> Object] /\ shown' \in [Purposes -> Assets \union {None}]
      /\ url' \in BOOLEAN
  <2>1. \A b \in Assets : row[b] = "ready" => row'[b] = "ready"
    BY <1>5, <1>6
  <2>2. ShownIsReady'
    BY <1>1, <2>1 DEF Core, Kinds, ShownIsReady
  <2> QED BY <1>1, <1>2, <2>2 DEF Core, Kinds, Row
<1>11. /\ \A b \in Assets : row'[b] = "free" => object'[b] = "none"
       /\ \A b \in Assets : row'[b] = "ready" /\ row[b] # "ready" => Accounted(b)
       /\ \A b \in Assets : row'[b] = "deleted" => row[b] = "deleted"
  BY <1>1, <1>5, <1>6 DEF Core, Stored
<1> QED BY <1>1, <1>2, <1>3, <1>4, <1>7, <1>8, <1>9, <1>10, <1>11, Frame

\* The object is removed, or could not be, or was without an answer.
LEMMA RemoveStep == ASSUME Core, NEW c \in Calls, RemoveObject(c) PROVE Core'
<1>0. PICK a \in Assets : a = call[c].old
  BY DEF RemoveObject, At, Core, Kinds
<1>1. /\ object \in [Assets -> Object] /\ call \in [Calls -> Call] /\ call[c] \in Call
      /\ call[c].pc = "removeObject" /\ Sound(c) /\ a # None
      /\ row[a] \in {"ready", "deleted"}
      /\ UNCHANGED <<row, shown, url>>
  BY <1>0 DEF RemoveObject, At, Core, Kinds, Sound
<1>2. PICK pc \in {"deleteRow", "failed"} :
        /\ Becomes(c, [call[c] EXCEPT !.pc = pc])
        /\ \/ object' = object /\ pc = "failed"
           \/ object' = [object EXCEPT ![a] = "none"]
  BY <1>0 DEF RemoveObject, Goes, Removed
<1> DEFINE l == [call[c] EXCEPT !.pc = pc]
<1>3. /\ l \in Call /\ l.pc = pc /\ l.op = call[c].op /\ l.id = call[c].id /\ l.old = a
      /\ l.flag = call[c].flag /\ call'[c] = l
  BY <1>0, <1>1, <1>2 DEF Call, Pc, Becomes
<1>4. Becomes(c, l)
  BY <1>2
<1> HIDE DEF l
<1>5. HalfDeleted(a)'
  BY <1>3 DEF HalfDeleted
<1>6. Onward /\ Explains(c)
  BY <1>1, <1>2, <1>3 DEF Onward, Explains
<1>7. ObjectMoves
  BY <1>1, <1>2, <1>5 DEF ObjectMoves
<1>8. Sound(c)'
  BY <1>0, <1>1, <1>2, <1>3 DEF Sound
<1>9. /\ ShownIsReady' /\ row' \in [Assets -> Row]
      /\ object' \in [Assets -> Object] /\ shown' \in [Purposes -> Assets \union {None}]
      /\ url' \in BOOLEAN
      /\ \A b \in Assets : row'[b] = "free" => object'[b] = "none"
  BY <1>1, <1>2 DEF Core, Kinds, ShownIsReady, Stored, Object
<1>10. l.op \in {"create", "upload", "complete", "show"} => l.id \in Assets
  BY <1>3 DEF Core, Kinds
<1> QED BY <1>1, <1>2, <1>3, <1>4, <1>6, <1>7, <1>8, <1>9, <1>10, Frame

LEMMA AfterDeleteIs ==
  ASSUME Core, NEW c \in Calls
  PROVE  /\ AfterDelete(call[c]) \in {"connect", "setUrl", "clearUrl", "done"}
         /\ AfterDelete(call[c]) = "connect" => call[c].op = "show"
         /\ AfterDelete(call[c]) = "setUrl" => call[c].op = "setUrl"
  BY DEF AfterDelete

\* The row is deleted, and every reference to it; the object is gone already.
LEMMA DeleteStep == ASSUME Core, NEW c \in Calls, DeleteRow(c) PROVE Core'
<1>0. PICK a \in Assets : a = call[c].old
  BY DEF DeleteRow, At, Core, Kinds
<1>1. /\ row \in [Assets -> Row] /\ shown \in [Purposes -> Assets \union {None}]
      /\ call \in [Calls -> Call] /\ call[c] \in Call
      /\ call[c].pc = "deleteRow" /\ Sound(c)
      /\ row[a] \in {"ready", "deleted"} /\ (object[a] = "none" \/ WrittenLate(a))
      /\ UNCHANGED <<object, url>>
  BY <1>0 DEF DeleteRow, At, Core, Kinds, Sound
<1>2. CASE Exists(a)
  <2>1. /\ row' = [row EXCEPT ![a] = "deleted"]
        /\ shown' = Unreferenced(a)
        /\ Becomes(c, [call[c] EXCEPT !.pc = AfterDelete(call[c])])
    BY <1>0, <1>2 DEF DeleteRow, Goes
  <2> DEFINE l == [call[c] EXCEPT !.pc = AfterDelete(call[c])]
  <2>2. /\ AfterDelete(call[c]) \in {"connect", "setUrl", "clearUrl", "done"}
        /\ AfterDelete(call[c]) = "connect" => call[c].op = "show"
    BY AfterDeleteIs
  <2>3. /\ l \in Call /\ l.pc = AfterDelete(call[c]) /\ l.op = call[c].op /\ l.old = a
        /\ l.id = call[c].id /\ l.flag = call[c].flag /\ call'[c] = l
    BY <1>0, <1>1, <2>1, <2>2 DEF Call, Pc, Becomes
  <2>4. Becomes(c, l)
    BY <2>1
  <2> HIDE DEF l
  <2>5. row'[a] = "deleted" /\ \A b \in Assets : b # a => row'[b] = row[b]
    BY <1>1, <2>1
  <2>6. Onward /\ ObjectMoves
    BY <1>1, <2>5 DEF Onward, ObjectMoves
  <2>7. Explains(c)
    BY <1>1, <2>3, <2>5, <1>0 DEF Explains
  <2>8. ShownIsReady' /\ shown' \in [Purposes -> Assets \union {None}]
    BY <1>1, <2>1, <2>5 DEF Core, ShownIsReady, Unreferenced
  <2>9. l.op \in {"create", "upload", "complete", "show"} => l.id \in Assets
    BY <2>3 DEF Core, Kinds
  <2>10. Sound(c)'
    <3>1. /\ call[c].op \in {"create", "upload", "complete"} => row[call[c].id] # "free"
          /\ call[c].op = "show" => row[call[c].id] \in {"ready", "deleted"}
      BY <1>1 DEF Sound
    <3>2. /\ l.op \in {"create", "upload", "complete"} => row'[l.id] # "free"
          /\ l.op = "show" => row'[l.id] \in {"ready", "deleted"}
      BY <2>3, <2>6, <2>9, <3>1 DEF Onward
    <3> QED BY <2>2, <2>3, <2>5, <3>2 DEF Sound
  <2>11. /\ row' \in [Assets -> Row] /\ object' \in [Assets -> Object] /\ url' \in BOOLEAN
         /\ \A b \in Assets : row'[b] = "free" => object'[b] = "none"
         /\ \A b \in Assets : row'[b] = "ready" => row[b] = "ready"
         /\ \A b \in Assets : row'[b] = "deleted" /\ row[b] # "deleted" => b = a
    BY <1>1, <2>1, <2>5 DEF Core, Kinds, Stored, Row
  <2> QED BY <1>1, <2>2, <2>3, <2>4, <2>6, <2>7, <2>8, <2>9, <2>10, <2>11, Frame
<1>3. CASE ~Exists(a)
  <2>1. UNCHANGED <<row, object, shown, url>> /\ Goes(c, "failed")
    BY <1>0, <1>1, <1>3 DEF DeleteRow
  <2> DEFINE l == [call[c] EXCEPT !.pc = "failed"]
  <2>2. /\ l \in Call /\ l.pc = "failed" /\ l.op = call[c].op /\ l.old = a
        /\ l.id = call[c].id /\ l.flag = call[c].flag /\ call'[c] = l
    BY <1>0, <1>1, <2>1 DEF Call, Pc, Becomes, Goes
  <2>3. Becomes(c, l)
    BY <2>1 DEF Goes
  <2> HIDE DEF l
  <2>4. Onward /\ ObjectMoves
    BY <2>1 DEF Onward, ObjectMoves
  <2>5. Explains(c)
    BY <1>1, <2>2, <1>0 DEF Explains
  <2>6. l.op \in {"create", "upload", "complete", "show"} => l.id \in Assets
    BY <2>2 DEF Core, Kinds
  <2>7. Sound(c)'
    BY <1>0, <1>1, <2>1, <2>2 DEF Sound
  <2>8. /\ ShownIsReady' /\ row' \in [Assets -> Row]
        /\ object' \in [Assets -> Object] /\ shown' \in [Purposes -> Assets \union {None}]
        /\ url' \in BOOLEAN
        /\ \A b \in Assets : row'[b] = "free" => object'[b] = "none"
    BY <2>1 DEF Core, Kinds, ShownIsReady, Stored
  <2> QED BY <2>1, <2>2, <2>3, <2>4, <2>5, <2>6, <2>7, <2>8, Frame
<1> QED BY <1>2, <1>3

\* A place shows another asset.
LEMMA ConnectStep == ASSUME Core, NEW c \in Calls, Connect(c) PROVE Core'
<1>0. PICK a \in Assets : a = call[c].id
  BY DEF Connect, At, Core, Kinds
<1>1. /\ row \in [Assets -> Row] /\ shown \in [Purposes -> Assets \union {None}]
      /\ call \in [Calls -> Call] /\ call[c] \in Call /\ url \in BOOLEAN
      /\ call[c].pc = "connect" /\ call[c].op = "show" /\ Sound(c)
      /\ row[a] \in {"ready", "deleted"}
      /\ UNCHANGED <<row, object>>
  BY <1>0 DEF Connect, At, Core, Kinds, Sound
<1>2. PICK pc \in {"done", "failed"} :
        /\ Becomes(c, [call[c] EXCEPT !.pc = pc])
        /\ \/ UNCHANGED <<shown, url>>
           \/ /\ Exists(a) /\ shown' = [shown EXCEPT ![PurposeOf[a]] = a]
              /\ url' \in BOOLEAN
  BY <1>0, <1>1 DEF Connect, Goes, UrlBeside
<1> DEFINE l == [call[c] EXCEPT !.pc = pc]
<1>3. /\ l \in Call /\ l.pc = pc /\ l.op = "show" /\ l.id = a /\ l.old = call[c].old
      /\ l.flag = call[c].flag /\ call'[c] = l
  BY <1>0, <1>1, <1>2 DEF Call, Pc, Becomes
<1>4. Becomes(c, l)
  BY <1>2
<1> HIDE DEF l
<1>5. Onward /\ ObjectMoves /\ Explains(c)
  BY <1>1 DEF Onward, ObjectMoves, Explains
<1>6. Sound(c)'
  <2>1. call[c].old # None => row[call[c].old] = "deleted"
    BY <1>1 DEF Sound
  <2> QED BY <1>0, <1>1, <1>2, <1>3, <2>1 DEF Sound
<1>7. ShownIsReady' /\ shown' \in [Purposes -> Assets \union {None}]
  <2>1. Exists(a) => row[a] = "ready"
    BY <1>1 DEF Exists
  <2> QED BY <1>1, <1>2, <2>1 DEF Core, ShownIsReady
<1>8. /\ row' \in [Assets -> Row] /\ object' \in [Assets -> Object] /\ url' \in BOOLEAN
      /\ \A b \in Assets : row'[b] = "free" => object'[b] = "none"
  BY <1>1, <1>2 DEF Core, Kinds, Stored
<1> QED BY <1>1, <1>2, <1>3, <1>4, <1>5, <1>6, <1>7, <1>8, Frame

-----------------------------------------------------------------------------
LEMMA InitCore == Init => Core
<1> SUFFICES ASSUME Init PROVE Core
  OBVIOUS
<1>1. Idle \in Call
  BY DEF Idle, Call, Pc
<1>2. Kinds
  BY <1>1 DEF Init, Kinds, Idle, Row, Object
<1>3. ShownIsReady /\ OrphansWrittenLate
  BY DEF Init, ShownIsReady, OrphansWrittenLate
<1>4. Stored /\ \A c \in Calls : Sound(c)
  BY <1>2 DEF Init, Stored, Sound, Idle, Accounted, Kinds
<1> QED BY <1>2, <1>3, <1>4 DEF Core

LEMMA StepCore == ASSUME Core, NEW c \in Calls, Step(c) PROVE Core'
<1>0. /\ call \in [Calls -> Call] /\ call[c] \in Call /\ url \in BOOLEAN /\ Sound(c)
      /\ call[c].pc = "idle" => call[c].op = "none" /\ call[c].old = None
  BY DEF Core, Kinds, Sound
<1>1. CASE UploadFind(c)
  <2>1. PICK a \in Local : row[a] = "pending"
                 /\ Becomes(c, [Idle EXCEPT !.pc = "open", !.op = "upload", !.id = a])
    BY <1>1 DEF UploadFind
  <2> DEFINE l == [Idle EXCEPT !.pc = "open", !.op = "upload", !.id = a]
  <2>2. /\ l \in Call /\ l.pc = "open" /\ l.op = "upload" /\ l.id = a /\ ~l.flag /\ l.old = None
        /\ a \in Assets
    BY DEF Idle, Call, Pc
  <2>3. Becomes(c, l) /\ call[c].pc = "idle" /\ UNCHANGED <<row, object, shown, url>>
    BY <1>1, <2>1 DEF UploadFind, Starts
  <2> HIDE DEF l
  <2> QED BY <2>1, <2>2, <2>3, StartStep
<1>2. CASE CompleteFind(c)
  <2>1. PICK a \in Assets, pc \in {"done", "head"} : Exists(a)
                 /\ Becomes(c, [Idle EXCEPT !.pc = pc, !.op = "complete", !.id = a])
    BY <1>2 DEF CompleteFind
  <2> DEFINE l == [Idle EXCEPT !.pc = pc, !.op = "complete", !.id = a]
  <2>2. l \in Call /\ l.pc = pc /\ l.op = "complete" /\ l.id = a /\ l.old = None
    BY DEF Idle, Call, Pc
  <2>3. Becomes(c, l) /\ call[c].pc = "idle" /\ UNCHANGED <<row, object, shown, url>>
    BY <1>2, <2>1 DEF CompleteFind, Starts
  <2> HIDE DEF l
  <2> QED BY <2>1, <2>2, <2>3, StartStep
<1>3. CASE ShowFind(c)
  <2>1. PICK a \in Assets, pc \in {"readCurrent", "connect"} : row[a] = "ready"
                 /\ Becomes(c, [Idle EXCEPT !.pc = pc, !.op = "show", !.id = a])
    BY <1>3 DEF ShowFind
  <2> DEFINE l == [Idle EXCEPT !.pc = pc, !.op = "show", !.id = a]
  <2>2. l \in Call /\ l.pc = pc /\ l.op = "show" /\ l.id = a /\ l.old = None
    BY DEF Idle, Call, Pc
  <2>3. Becomes(c, l) /\ call[c].pc = "idle" /\ UNCHANGED <<row, object, shown, url>>
    BY <1>3, <2>1 DEF ShowFind, Starts
  <2> HIDE DEF l
  <2> QED BY <2>1, <2>2, <2>3, StartStep
<1>4. CASE SetUrlFind(c) \/ RemoveFind(c)
  <2>1. PICK op \in {"setUrl", "remove"}, given \in BOOLEAN :
          Becomes(c, Deletes([Idle EXCEPT !.op = op, !.flag = given]))
    BY <1>0, <1>4 DEF SetUrlFind, RemoveFind
  <2> DEFINE k == [Idle EXCEPT !.op = op, !.flag = given]
             l == Deletes(k)
  <2>2. k \in Call /\ k.op = op /\ k.old = None /\ k.flag = given
    BY DEF Idle, Call, Pc
  <2>3. AfterDelete(k) \in {"setUrl", "clearUrl", "done"}
    BY <2>2 DEF AfterDelete
  <2>4. Becomes(c, l) /\ call[c].pc = "idle" /\ UNCHANGED <<row, object, shown, url>>
    BY <1>4, <2>1 DEF SetUrlFind, RemoveFind, Starts
  <2> HIDE DEF k
  <2>5. /\ l \in Call /\ l.op = op
        /\ \/ l.old = None /\ l.pc = AfterDelete(k)
           \/ l.pc = "findOld" /\ l.old \in Assets /\ row[l.old] = "ready"
    BY <2>2, DeletesIs
  <2> HIDE DEF l
  <2> QED BY <2>3, <2>4, <2>5, StartStep
<1>5. CASE ReadCurrent(c)
  <2>0. /\ call[c].pc = "readCurrent" /\ call[c].op = "show" /\ call[c].id \in Assets
        /\ UNCHANGED <<row, object, shown, url>> /\ row[call[c].id] \in {"ready", "deleted"}
        /\ (call[c].old # None => row[call[c].old] = "deleted")
    BY <1>0, <1>5 DEF ReadCurrent, At, Core, Kinds, Sound
  <2> DEFINE k == [call[c] EXCEPT !.pc = "connect"]
             m == Deletes(call[c])
  <2>1. /\ k \in Call /\ k.pc = "connect" /\ k.op = "show" /\ k.id = call[c].id
        /\ k.old = call[c].old
    BY <1>0, <2>0 DEF Call, Pc
  <2>2. /\ m \in Call /\ m.op = "show" /\ m.id = call[c].id
        /\ \/ m.old = call[c].old /\ m.pc = "connect"
           \/ m.pc = "findOld" /\ m.old \in Assets /\ row[m.old] = "ready"
    BY <1>0, <2>0, DeletesIs DEF AfterDelete
  <2>3. PICK l \in {k, m} : Becomes(c, l)
    BY <1>5 DEF ReadCurrent
  <2> HIDE DEF k, m
  <2>4. /\ l \in Call /\ l.op = "show" /\ l.id = call[c].id
        /\ \/ l.old = call[c].old /\ l.pc = "connect"
           \/ l.pc = "findOld" /\ l.old \in Assets /\ row[l.old] = "ready"
    BY <2>1, <2>2, <2>3
  <2> QED BY <1>0, <2>0, <2>3, <2>4, ReadStep DEF Ended
<1>6. CASE FindOld(c)
  <2>1. /\ call[c].pc = "findOld" /\ UNCHANGED <<row, object, shown, url>>
        /\ call[c].old \in Assets /\ row[call[c].old] \in {"ready", "deleted"}
        /\ c \in InFlight
    BY <1>0, <1>6 DEF FindOld, At, Core, Kinds, Sound, InFlight, Ended
  <2>2. /\ AfterDelete(call[c]) \in {"connect", "setUrl", "clearUrl", "done"}
        /\ AfterDelete(call[c]) = "connect" => call[c].op = "show"
    BY AfterDeleteIs
  <2>3. PICK pc \in {"removeObject", "connect", "setUrl", "clearUrl", "done"} :
          /\ Goes(c, pc)
          /\ pc = "connect" => call[c].op = "show"
          /\ pc = "removeObject" \/ row[call[c].old] = "deleted"
    BY <1>6, <2>1, <2>2 DEF FindOld, Exists
  <2>4. pc \in Pc
    BY DEF Pc
  <2> QED BY <1>0, <2>1, <2>3, <2>4, GoesStep
<1>7. CASE CompleteHead(c)
  <2>1. /\ call[c].pc = "head" /\ UNCHANGED <<row, object, shown, url>> /\ c \in InFlight
        /\ call[c].op = "complete" /\ (call[c].old # None => row[call[c].old] = "deleted")
    BY <1>0, <1>7 DEF CompleteHead, At, Core, Kinds, Sound, InFlight, Ended
  <2>2. PICK pc \in {"complete", "failed"} :
          Goes(c, pc) /\ (pc = "complete" => object[call[c].id] = "whole")
    BY <1>7 DEF CompleteHead, Uploaded
  <2>3. pc \in Pc
    BY DEF Pc
  <2> QED BY <1>0, <2>1, <2>2, <2>3, GoesStep
<1>8. CASE SetUrl(c)
  <2>1. /\ call[c].pc \in {"setUrl", "clearUrl"} /\ UNCHANGED <<row, object, shown>>
        /\ url' \in BOOLEAN /\ c \in InFlight /\ Goes(c, "done")
        /\ (call[c].old # None => row[call[c].old] = "deleted")
    BY <1>0, <1>8 DEF SetUrl, At, Core, Kinds, Sound, InFlight, Ended, Call
  <2>2. "done" \in Pc
    BY DEF Pc
  <2> QED BY <1>0, <2>1, <2>2, GoesStep
<1>9. CASE Lose(c)
  <2>1. "lost" \in Pc /\ c \in InFlight /\ Goes(c, "lost") /\ UNCHANGED <<row, object, shown, url>>
    BY <1>9 DEF Lose, Pc
  <2> QED BY <1>0, <2>1, GoesStep
<1> QED BY <1>1, <1>2, <1>3, <1>4, <1>5, <1>6, <1>7, <1>8, <1>9, CreateStep, PutStep, OpenStep,
           WriteStep, CompleteStep, RemoveStep, DeleteStep, ConnectStep DEF Step

-----------------------------------------------------------------------------
(* Calls that are alone                                                     *)

\* A step that lets another call go on beside it shows and clears nothing.
LEMMA Besides ==
  ASSUME Core, ~TwoInFlight, NEW c \in Calls, NEW d \in Calls \ {c}, d \in InFlight, Step(c)
  PROVE  UNCHANGED <<shown, url>>
<1>1. call[c].pc \in {"idle"} \union Ended
  BY DEF TwoInFlight, InFlight
<1> QED BY <1>1 DEF Step, CreateUploadUrl, PutObject, UploadFind, UploadOpen, UploadWrite,
             CompleteFind, CompleteHead, CompleteUpdate, ShowFind, ReadCurrent, SetUrlFind,
             RemoveFind, FindOld, RemoveObject, DeleteRow, Connect, SetUrl, Lose, At, Ended

\* What the call itself relies on, before it sets a URL.
LEMMA AloneStep ==
  ASSUME Core, NEW c \in Calls, Alone(c), Step(c)
  PROVE  Alone(c)'
<1>0. /\ call \in [Calls -> Call] /\ call[c] \in Call /\ Sound(c)
      /\ shown \in [Purposes -> Assets \union {None}]
  BY DEF Core, Kinds
<1>1. CASE SetUrlFind(c)
  <2>1. PICK given \in BOOLEAN : Becomes(c, Deletes([Idle EXCEPT !.op = "setUrl", !.flag = given]))
    BY <1>1 DEF SetUrlFind
  <2> DEFINE k == [Idle EXCEPT !.op = "setUrl", !.flag = given]
  <2>2. k \in Call /\ k.op = "setUrl"
    BY DEF Idle, Call, Pc
  <2>3. call'[c] = Deletes(k) /\ shown' = shown
    BY <1>0, <1>1, <2>1 DEF Becomes, SetUrlFind
  <2> HIDE DEF k
  <2>4. \/ shown["profile"] = None
        \/ Deletes(k).pc = "findOld" /\ Deletes(k).old = shown["profile"]
    BY <2>2, DeletesIs
  <2>5. Deletes(k).op = "setUrl"
    BY <2>2, DeletesIs
  <2> QED BY <2>3, <2>4, <2>5 DEF Alone
<1>2. CASE FindOld(c)
  <2>1. /\ call[c].pc = "findOld" /\ shown' = shown /\ call[c].old \in Assets
        /\ c \in InFlight
    BY <1>2 DEF FindOld, At, Core, Kinds, InFlight, Ended
  <2>2. PICK pc \in {"removeObject"} \union {AfterDelete(call[c])} :
          Goes(c, pc) /\ (pc # "removeObject" => ~Exists(call[c].old))
    BY <1>2 DEF FindOld
  <2>3. call'[c].op = call[c].op /\ call'[c].old = call[c].old /\ call'[c].pc = pc
    BY <1>0, <2>2 DEF Goes, Becomes, Call
  <2>4. ~Exists(call[c].old) => shown["profile"] # call[c].old
    BY <2>1 DEF Core, ShownIsReady, Exists
  <2>5. pc = "setUrl" => call[c].op = "setUrl"
    BY <2>2 DEF AfterDelete
  <2> QED BY <2>1, <2>2, <2>3, <2>4, <2>5 DEF Alone
<1>3. CASE DeleteRow(c)
  <2>1. /\ call[c].pc = "deleteRow" /\ call[c].old \in Assets /\ c \in InFlight
    BY <1>3 DEF DeleteRow, At, Core, Kinds, InFlight, Ended
  <2>2. CASE Exists(call[c].old)
    <3>1. shown' = Unreferenced(call[c].old) /\ Goes(c, AfterDelete(call[c]))
      BY <1>3, <2>2 DEF DeleteRow
    <3>2. call'[c].op = call[c].op /\ (call'[c].pc = "setUrl" => call[c].op = "setUrl")
      BY <1>0, <3>1 DEF Goes, Becomes, Call, AfterDelete
    <3>3. call[c].op = "setUrl" => shown'["profile"] = None
      BY <1>0, <2>1, <3>1 DEF Alone, Unreferenced
    <3> QED BY <3>2, <3>3 DEF Alone
  <2>3. CASE ~Exists(call[c].old)
    <3>1. Goes(c, "failed")
      BY <1>3, <2>3 DEF DeleteRow
    <3>2. call'[c].pc = "failed"
      BY <1>0, <3>1 DEF Goes, Becomes, Call
    <3> QED BY <3>2 DEF Alone, InFlight, Ended
  <2> QED BY <2>2, <2>3
<1>4. CASE RemoveObject(c)
  <2>1. /\ call[c].pc = "removeObject" /\ shown' = shown /\ c \in InFlight
    BY <1>4 DEF RemoveObject, At, InFlight, Ended
  <2>2. PICK pc \in {"deleteRow", "failed"} : Goes(c, pc)
    BY <1>4 DEF RemoveObject
  <2>3. call'[c].op = call[c].op /\ call'[c].old = call[c].old /\ call'[c].pc = pc
    BY <1>0, <2>2 DEF Goes, Becomes, Call
  <2> QED BY <2>1, <2>3 DEF Alone
<1>5. CASE SetUrl(c) \/ Lose(c)
  <2>1. PICK pc \in {"done", "lost"} : Goes(c, pc)
    BY <1>5 DEF SetUrl, Lose
  <2>2. call'[c].pc = pc
    BY <1>0, <2>1 DEF Goes, Becomes
  <2> QED BY <2>2 DEF Alone, InFlight, Ended
<1>6. CASE \/ UploadOpen(c) \/ UploadWrite(c) \/ CompleteHead(c) \/ CompleteUpdate(c)
           \/ ReadCurrent(c) \/ Connect(c)
  <2>1. call[c].op # "setUrl"
    BY <1>6 DEF UploadOpen, UploadWrite, CompleteHead, CompleteUpdate, ReadCurrent, Connect, At,
                Core, Kinds
  <2>2. call'[c].op = call[c].op /\ call'[c].pc # "setUrl"
    <3>1. CASE ReadCurrent(c)
      <4>1. call[c].op = "show"
        BY <3>1 DEF ReadCurrent, At, Core, Kinds
      <4>2. Deletes(call[c]).op = call[c].op /\ Deletes(call[c]).pc # "setUrl"
        BY <1>0, <4>1, DeletesIs DEF AfterDelete
      <4>3. /\ [call[c] EXCEPT !.pc = "connect"].op = call[c].op
            /\ [call[c] EXCEPT !.pc = "connect"].pc = "connect"
        BY <1>0 DEF Call
      <4> QED BY <1>0, <3>1, <4>2, <4>3 DEF ReadCurrent, Becomes
    <3>2. CASE ~ReadCurrent(c)
      <4>1. \/ Becomes(c, [call[c] EXCEPT !.pc = "write", !.flag = row[call[c].id] # "pending"])
            \/ \E pc \in {"done", "failed", "complete"} : Goes(c, pc)
        BY <1>6, <3>2 DEF UploadOpen, UploadWrite, CompleteHead, CompleteUpdate, Connect
      <4>2. CASE Becomes(c, [call[c] EXCEPT !.pc = "write", !.flag = row[call[c].id] # "pending"])
        <5>1. call'[c] = [call[c] EXCEPT !.pc = "write", !.flag = row[call[c].id] # "pending"]
          BY <1>0, <4>2 DEF Becomes
        <5> QED BY <1>0, <5>1 DEF Call
      <4>3. ASSUME NEW pc \in {"done", "failed", "complete"}, Goes(c, pc)
            PROVE  call'[c].op = call[c].op /\ call'[c].pc # "setUrl"
        <5>1. call'[c] = [call[c] EXCEPT !.pc = pc]
          BY <1>0, <4>3 DEF Goes, Becomes
        <5> QED BY <1>0, <5>1 DEF Call
      <4> QED BY <4>1, <4>2, <4>3
    <3> QED BY <3>1, <3>2
  <2> QED BY <2>1, <2>2 DEF Alone
<1>7. CASE \/ CreateUploadUrl(c) \/ PutObject(c) \/ UploadFind(c) \/ CompleteFind(c)
           \/ ShowFind(c) \/ RemoveFind(c)
  <2>1. call'[c].op # "setUrl" /\ call'[c].pc # "setUrl"
    <3>1. CASE RemoveFind(c)
      <4> DEFINE k == [Idle EXCEPT !.op = "remove", !.flag = url]
      <4>1. k \in Call /\ k.op = "remove"
        BY DEF Idle, Call, Pc, Core, Kinds
      <4>2. call'[c] = Deletes(k)
        BY <1>0, <3>1 DEF RemoveFind, Becomes
      <4> HIDE DEF k
      <4>3. Deletes(k).op = "remove" /\ Deletes(k).pc # "setUrl"
        BY <4>1, DeletesIs DEF AfterDelete
      <4> QED BY <4>2, <4>3
    <3>2. CASE ~RemoveFind(c)
      <4>1. CASE CreateUploadUrl(c)
        BY <1>0, <4>1 DEF CreateUploadUrl, Becomes, Idle
      <4>2. CASE PutObject(c)
        BY <1>0, <4>2 DEF PutObject, Becomes, Idle
      <4>3. CASE UploadFind(c)
        BY <1>0, <4>3 DEF UploadFind, Becomes, Idle
      <4>4. CASE CompleteFind(c)
        BY <1>0, <4>4 DEF CompleteFind, Becomes, Idle
      <4>5. CASE ShowFind(c)
        BY <1>0, <4>5 DEF ShowFind, Becomes, Idle
      <4> QED BY <1>7, <3>2, <4>1, <4>2, <4>3, <4>4, <4>5
    <3> QED BY <3>1, <3>2
  <2> QED BY <2>1 DEF Alone
<1> QED BY <1>1, <1>2, <1>3, <1>4, <1>5, <1>6, <1>7 DEF Step

LEMMA StepApart ==
  ASSUME Core, NEW c \in Calls, Step(c), ~overlap, Apart, OneImageApart, ~TwoInFlight'
  PROVE  /\ \A d \in Calls : Alone(d)'
         /\ ~(url' /\ shown'["profile"] # None)
<1>0. /\ call \in [Calls -> Call] /\ shown \in [Purposes -> Assets \union {None}]
      /\ \A d \in Calls : call[d] \in Call
      /\ \A d \in Calls : Alone(d)
      /\ ~TwoInFlight /\ ~(url /\ shown["profile"] # None)
  BY DEF Apart, OneImageApart, Core, Kinds
<1>1. Alone(c)'
  BY <1>0, AloneStep
<1>2. ASSUME NEW d \in Calls \ {c} PROVE Alone(d)'
  <2>1. call'[d] = call[d]
    BY <1>0 DEF Step, CreateUploadUrl, PutObject, UploadFind, UploadOpen, UploadWrite,
             CompleteFind, CompleteHead, CompleteUpdate, ShowFind, ReadCurrent, SetUrlFind,
             RemoveFind, FindOld, RemoveObject, DeleteRow, Connect, SetUrl, Lose, Goes, Becomes
  <2>2. CASE d \in InFlight
    <3>1. UNCHANGED <<shown, url>>
      BY <1>0, <2>2, Besides
    <3> QED BY <1>0, <2>1, <3>1 DEF Alone, InFlight
  <2>3. CASE d \notin InFlight
    BY <2>1, <2>3 DEF Alone, InFlight
  <2> QED BY <2>2, <2>3
<1>3. ~(url' /\ shown'["profile"] # None)
  <2>1. CASE Connect(c)
    <3>1. call[c].id \in Assets
      BY <2>1 DEF Connect, At, Core, Kinds
    <3>2. CASE Exists(call[c].id)
      <4>1. /\ shown' = [shown EXCEPT ![PurposeOf[call[c].id]] = call[c].id]
            /\ url' = UrlBeside(call[c].id)
        BY <2>1, <3>2 DEF Connect
      <4>2. CASE PurposeOf[call[c].id] = "profile"
        BY <4>1, <4>2 DEF UrlBeside
      <4>3. CASE PurposeOf[call[c].id] # "profile"
        <5>1. url' = url /\ shown'["profile"] = shown["profile"]
          BY <1>0, <3>1, <4>1, <4>3 DEF UrlBeside
        <5> QED BY <5>1, <1>0
      <4> QED BY <4>2, <4>3
    <3>3. CASE ~Exists(call[c].id)
      BY <2>1, <3>3, <1>0 DEF Connect
    <3> QED BY <3>2, <3>3
  <2>2. CASE SetUrl(c)
    <3>1. shown' = shown
      BY <2>2 DEF SetUrl
    <3>2. CASE call[c].pc = "clearUrl"
      BY <2>2, <3>2 DEF SetUrl, At
    <3>3. CASE call[c].pc = "setUrl"
      <4>1. CASE call[c].op = "setUrl"
        <5>1. shown["profile"] = None
          BY <1>0, <3>3, <4>1 DEF Alone, InFlight, Ended
        <5> QED BY <3>1, <5>1
      <4>2. CASE call[c].op # "setUrl"
        BY <1>0, <3>3, <4>2 DEF Alone, InFlight, Ended
      <4> QED BY <4>1, <4>2
    <3> QED BY <2>2, <3>2, <3>3 DEF SetUrl, At
  <2>3. CASE DeleteRow(c)
    <3>1. url' = url
      BY <2>3 DEF DeleteRow
    <3>2. shown' = shown \/ shown' = Unreferenced(call[c].old)
      BY <2>3 DEF DeleteRow
    <3>3. shown'["profile"] \in {shown["profile"], None}
      BY <1>0, <3>2 DEF Unreferenced
    <3> QED BY <1>0, <3>1, <3>3
  <2>4. ASSUME ~Connect(c), ~SetUrl(c), ~DeleteRow(c) PROVE UNCHANGED <<shown, url>>
    BY <2>4 DEF Step, CreateUploadUrl, PutObject, UploadFind, UploadOpen, UploadWrite,
             CompleteFind, CompleteHead, CompleteUpdate, ShowFind, ReadCurrent, SetUrlFind,
             RemoveFind, FindOld, RemoveObject, Lose
  <2> QED BY <1>0, <2>1, <2>2, <2>3, <2>4
<1> QED BY <1>1, <1>2, <1>3

LEMMA InitIInv == Init => IInv
<1> SUFFICES ASSUME Init PROVE IInv
  OBVIOUS
<1>1. Core /\ overlap = FALSE
  BY InitCore DEF Init
<1>2. InFlight = {}
  BY DEF Init, InFlight, Idle
<1>3. Apart /\ OneImageApart
  BY <1>2 DEF Apart, TwoInFlight, Alone, OneImageApart, Init
<1> QED BY <1>1, <1>3 DEF IInv, TypeOK, Core

LEMMA StepIInv == IInv /\ [Next]_vars => IInv'
<1> SUFFICES ASSUME IInv, [Next]_vars PROVE IInv'
  OBVIOUS
<1>1. Core /\ overlap \in BOOLEAN
  BY DEF IInv, TypeOK, Core
<1>2. CASE UNCHANGED vars
  BY <1>2 DEF vars, IInv, TypeOK, Kinds, ShownIsReady, Stored, Sound, OrphansWrittenLate, Apart,
              OneImageApart, Accounted, HalfDeleted, HalfWritten, WrittenLate, TwoInFlight,
              InFlight, Alone
<1>3. CASE Next
  <2>1. PICK c \in Calls : Step(c)
    BY <1>3 DEF Next
  <2>2. Core' /\ overlap' = (overlap \/ TwoInFlight')
    BY <1>1, <1>3, <2>1, StepCore DEF Next
  <2>3. overlap' \in BOOLEAN
    BY <2>2 DEF TwoInFlight
  <2>4. CASE overlap'
    BY <2>2, <2>3, <2>4 DEF IInv, TypeOK, Core, Apart, OneImageApart
  <2>5. CASE ~overlap'
    <3>1. ~overlap /\ ~TwoInFlight'
      BY <2>2, <2>5
    <3>2. /\ \A d \in Calls : Alone(d)'
          /\ ~(url' /\ shown'["profile"] # None)
      BY <1>1, <2>1, <3>1, StepApart DEF IInv
    <3>3. Apart' /\ OneImageApart'
      BY <3>1, <3>2 DEF Apart, OneImageApart
    <3> QED BY <2>2, <2>3, <3>3 DEF IInv, TypeOK, Core
  <2> QED BY <2>4, <2>5
<1> QED BY <1>2, <1>3

-----------------------------------------------------------------------------
\* The invariant of the proofs.
THEOREM Invariance == Spec => []IInv
  BY InitIInv, StepIInv, PTL DEF Spec

\* Rows, references and calls always have their kinds.
THEOREM TypeCorrect == Spec => []TypeOK
<1>1. IInv => TypeOK
  BY DEF IInv
<1>2. QED
  BY <1>1, Invariance, PTL

\* What a page links to can be fetched, but for a deletion or a second upload of
\* that very image which is under way or stopped.
THEOREM Fetchable == Spec => []ShownHasObject
<1>1. IInv => ShownHasObject
  <2>1. SUFFICES ASSUME IInv, NEW p \in Purposes, shown[p] # None
                 PROVE  \/ object[shown[p]] = "whole"
                        \/ object[shown[p]] = "none" /\ HalfDeleted(shown[p])
                        \/ object[shown[p]] = "partial" /\ HalfWritten(shown[p])
    BY DEF ShownHasObject
  <2>2. shown[p] \in Assets /\ row[shown[p]] = "ready"
    BY <2>1 DEF IInv, TypeOK, Kinds, ShownIsReady
  <2>3. Accounted(shown[p])
    BY <2>1, <2>2 DEF IInv, Stored
  <2> QED BY <2>3 DEF Accounted
<1>2. QED
  BY <1>1, Invariance, PTL

\* Storage keeps an object whose row is deleted only if an upload wrote it after
\* the asset was completed.
THEOREM OrphansAreLate == Spec => []OrphansWrittenLate
<1>1. IInv => OrphansWrittenLate
  BY DEF IInv
<1>2. QED
  BY <1>1, Invariance, PTL

\* Unless calls overlapped, a profile has a picture or a URL, not both.
THEOREM OneImage == Spec => []OneImageApart
<1>1. IInv => OneImageApart
  BY DEF IInv
<1>2. QED
  BY <1>1, Invariance, PTL
=============================================================================
