-------------------------- MODULE BookmarksProofs --------------------------
(***************************************************************************)
(* The properties of Bookmarks, for any number of jobs, days and calls,    *)
(* and of JobsPage, the page that shows them and sends some of the calls,  *)
(* for any number of filters, postings and clicks.                         *)
(*                                                                         *)
(* Bookmarks states the invariant (IInv): what each call has established   *)
(* where it stands, and for each job how its events are counted.  Frame    *)
(* reduces a step to the call that takes it; the others keep what they     *)
(* know, because bookmark ids and notices only grow and the jobs known to  *)
(* have been tracked throughout a call only become fewer.                  *)
(***************************************************************************)
EXTENDS Bookmarks, JobsPage, FiniteSetTheorems, TLAPS

USE BookmarksAssumption

\* The history part of Next.
History ==
  /\ wasSoon' = wasSoon \union SoonKeys(Jobs)'
  /\ sure' = [c \in Calls |->
                IF call[c].pc \in Ended THEN sure[c]
                ELSE IF call'[c].pc = "idle" THEN {}
                ELSE IF call[c].pc = "idle" THEN Tracked'
                ELSE sure[c] \intersect Tracked']

-----------------------------------------------------------------------------
(* Counting                                                                *)

\* Whether a call with these local variables owes an event of this kind.
Owes(l, j, op) == l.job = j /\ l.op = op /\ l.owed

\* What a step of one call does to the calls that owe an event of a kind.
LEMMA OwedMoves ==
  ASSUME call \in [Calls -> Call], NEW c \in Calls, NEW l \in Call, Becomes(c, l),
         NEW j, NEW op, IsFiniteSet(Owed(j, op))
  PROVE  /\ IsFiniteSet(Owed(j, op)')
         /\ Cardinality(Owed(j, op)) \in Nat
         /\ Owes(l, j, op) /\ c \notin Owed(j, op)
              => Cardinality(Owed(j, op)') = Cardinality(Owed(j, op)) + 1
         /\ ~Owes(l, j, op) /\ c \in Owed(j, op)
              => Cardinality(Owed(j, op)') = Cardinality(Owed(j, op)) - 1
         /\ (Owes(l, j, op) <=> c \in Owed(j, op))
              => Cardinality(Owed(j, op)') = Cardinality(Owed(j, op))
<1>1. /\ call'[c] = l
      /\ \A d \in Calls : d # c => call'[d] = call[d]
  BY DEF Becomes
<1>2. Cardinality(Owed(j, op)) \in Nat
  BY FS_CardinalityType
<1>3. CASE Owes(l, j, op)
  <2>1. Owed(j, op)' = Owed(j, op) \union {c}
    BY <1>1, <1>3 DEF Owed, Owes
  <2>2. /\ IsFiniteSet(Owed(j, op) \union {c})
        /\ Cardinality(Owed(j, op) \union {c})
             = IF c \in Owed(j, op) THEN Cardinality(Owed(j, op))
               ELSE Cardinality(Owed(j, op)) + 1
    BY FS_AddElement
  <2> QED BY <1>2, <1>3, <2>1, <2>2
<1>4. CASE ~Owes(l, j, op)
  <2>1. Owed(j, op)' = Owed(j, op) \ {c}
    BY <1>1, <1>4 DEF Owed, Owes
  <2>2. /\ IsFiniteSet(Owed(j, op) \ {c})
        /\ Cardinality(Owed(j, op) \ {c})
             = IF c \in Owed(j, op) THEN Cardinality(Owed(j, op)) - 1
               ELSE Cardinality(Owed(j, op))
    BY FS_RemoveElement
  <2> QED BY <1>2, <1>4, <2>1, <2>2
<1> QED BY <1>3, <1>4

\* A call that goes on without having written a bookmark or an event leaves
\* the count of every job as it is.
LEMMA CountKept ==
  ASSUME IInv, NEW c \in Calls, NEW l \in Call, Becomes(c, l),
         UNCHANGED <<marked, events>>,
         \/ call[c].owed = FALSE /\ l.owed = FALSE
         \/ call[c].owed = l.owed /\ call[c].job = l.job /\ call[c].op = l.op
  PROVE  \A j \in Jobs : Accounted(j)'
<1>1. /\ call \in [Calls -> Call] /\ call'[c] = l
      /\ \A d \in Calls : d # c => call'[d] = call[d]
  BY DEF IInv, TypeOK, Kinds, Becomes
<1>2. \A j \in Jobs : /\ Owed(j, "createBookmark")' = Owed(j, "createBookmark")
                      /\ Owed(j, "deleteBookmark")' = Owed(j, "deleteBookmark")
  BY <1>1 DEF Owed
<1> QED BY <1>2 DEF IInv, Accounted

-----------------------------------------------------------------------------
(* The calls that stand still                                              *)

\* What they know stays true.
LEMMA Bystander ==
  ASSUME IInv, History, NEW d \in Calls, call'[d] = call[d],
         born \in [Jobs -> Nat], born' \in [Jobs -> Nat],
         \A j \in Jobs : born[j] <= born'[j],
         \A k \in Keys : notice[k] # "none" => notice'[k] # "none"
  PROVE  Sound(d)'
<1>1. Sound(d) /\ call[d] \in Call /\ wasSoon \subseteq wasSoon' /\ wasSoon \subseteq Keys
  BY DEF IInv, TypeOK, Kinds, History
<1>2. sure'[d] \subseteq sure[d] /\ sure[d] \subseteq Keys
  <2>1. call'[d].pc = "idle" \/ call[d].pc # "idle"
    OBVIOUS
  <2> QED BY <2>1 DEF History, IInv, TypeOK
<1>3. call[d].todo \subseteq Keys /\ call[d].owed \in BOOLEAN
  BY <1>1 DEF Call
<1>4. \A k \in Keys : k[1] \in Jobs
  BY DEF Keys
<1>5. \A j \in Jobs : born[j] > 0 => born'[j] > 0
  OBVIOUS
<1>6. /\ call'[d].pc = "addedEvent" \/ (call'[d].pc = "soonJob" /\ call'[d].op # "updateJob")
           => born'[call'[d].job] > 0
      /\ call'[d].pc = "soonUsers" => call'[d].todo \subseteq wasSoon'
  <2>1. call[d].pc \in {"addedEvent", "soonJob"} => call[d].job \in Jobs
    BY DEF IInv, TypeOK, Kinds
  <2> QED BY <1>1, <1>5, <2>1 DEF Sound
<1>7. call'[d].pc = "listJobs" => sure'[d] \subseteq call'[d].todo
                                  /\ \A k \in call'[d].todo : born'[k[1]] > 0
  BY <1>1, <1>2, <1>3, <1>4, <1>5 DEF Sound
<1>8. call'[d].pc = "soonInsert" => call'[d].todo \subseteq Earned'
  BY <1>1, <1>3, <1>4, <1>5 DEF Sound, Earned
<1>9. call'[d].pc = "mark" => \A k \in call'[d].todo : notice'[k] # "none"
  BY <1>1, <1>3 DEF Sound
<1>10. call'[d].op = "list" /\ call'[d].pc \in {"soonInsert", "done"} =>
         \A k \in sure'[d] : notice'[k] # "none"
                             \/ (call'[d].pc = "soonInsert" /\ k \in call'[d].todo)
  BY <1>1, <1>2 DEF Sound
<1>11. /\ call'[d].owed => call'[d].pc \in {"addedEvent", "removedEvent", "failed", "lost"}
       /\ call'[d].pc \in {"addedEvent", "removedEvent"} => call'[d].owed
       /\ call'[d].pc \in {"insert", "addedEvent"} => call'[d].op = "createBookmark"
       /\ call'[d].pc \in {"deleteRow", "removedEvent"} => call'[d].op = "deleteBookmark"
       /\ call'[d].pc \in {"soonJob", "soonUsers", "mark"} => call'[d].op # "list"
       /\ call'[d].pc = "soonUsers" => \A k \in call'[d].todo : k[1] = call'[d].job
       /\ call'[d].pc = "listJobs" => call'[d].op = "list"
  BY <1>1 DEF Sound
<1> QED BY <1>6, <1>7, <1>8, <1>9, <1>10, <1>11 DEF Sound

\* What was due soon is remembered, and what is.
LEMMA Remembers ==
  ASSUME IInv, History, today' \in 0 .. MaxDay, job' \in [Jobs -> Job],
         marked' \subseteq Jobs
  PROVE  /\ SoonKeys(Jobs)' \subseteq wasSoon' /\ wasSoon' \subseteq Keys
         /\ sure' \in [Calls -> SUBSET Keys]
         /\ Tracked' \subseteq SoonKeys(Jobs)'
<1>1. SoonKeys(Jobs)' \subseteq Keys
  <2>1. SUFFICES ASSUME NEW j \in Jobs, Soon(j)' PROVE <<j, job'[j].due>> \in Keys
    BY DEF SoonKeys
  <2>2. job'[j].due \in Days
    BY <2>1 DEF Soon, Job
  <2> QED BY <2>2 DEF Keys
<1>2. Tracked' \subseteq SoonKeys(Jobs)'
  BY DEF Tracked, SoonKeys
<1>3. SoonKeys(Jobs)' \subseteq wasSoon' /\ wasSoon' \subseteq Keys
  BY <1>1 DEF History, IInv, TypeOK
<1>4. sure' \in [Calls -> SUBSET Keys]
  <2>1. \A c \in Calls : sure[c] \subseteq Keys
    BY DEF IInv, TypeOK
  <2>2. Tracked' \subseteq Keys
    BY <1>1, <1>2
  <2> DEFINE S(c) == IF call[c].pc \in Ended THEN sure[c]
                     ELSE IF call'[c].pc = "idle" THEN {}
                     ELSE IF call[c].pc = "idle" THEN Tracked'
                     ELSE sure[c] \intersect Tracked'
  <2>3. \A c \in Calls : S(c) \subseteq Keys
    BY <2>1, <2>2
  <2>4. sure' = [c \in Calls |-> S(c)]
    BY DEF History
  <2> HIDE DEF S
  <2> QED BY <2>3, <2>4
<1> QED BY <1>2, <1>3, <1>4

-----------------------------------------------------------------------------
(* A step of one call                                                      *)

\* It is enough to look at that call, and at what it does to the rows.
LEMMA Frame ==
  ASSUME IInv, History, NEW c \in Calls, NEW l \in Call, Becomes(c, l), UNCHANGED today,
         job' \in [Jobs -> Job], marked' \subseteq Jobs, born' \in [Jobs -> Nat],
         events' \in [Jobs -> [added : Nat, removed : Nat]],
         notice' \in [Keys -> {"none", "unread", "read"}],
         l.pc \in {"insert", "addedEvent", "deleteRow", "removedEvent", "soonJob",
                   "soonUsers"} => l.job \in Jobs,
         \A j \in Jobs : born[j] <= born'[j],
         \A j \in marked' : born'[j] > 0,
         \A k \in Keys : notice[k] # "none" => notice'[k] # "none",
         \A k \in Keys : notice'[k] # "none" => notice[k] # "none" \/ k \in Earned,
         \A j \in Jobs : Accounted(j)',
         Sound(c)'
  PROVE  IInv'
<1>1. call' \in [Calls -> Call] /\ call'[c] = l /\ \A d \in Calls : d # c => call'[d] = call[d]
  BY DEF IInv, TypeOK, Kinds, Becomes
<1>2. today' \in 0 .. MaxDay /\ born \in [Jobs -> Nat]
  BY DEF IInv, TypeOK, Kinds
<1>3. \A d \in Calls : call'[d].pc \in {"insert", "addedEvent", "deleteRow", "removedEvent",
                                        "soonJob", "soonUsers"} => call'[d].job \in Jobs
  BY <1>1 DEF IInv, TypeOK, Kinds
<1>4. /\ SoonKeys(Jobs)' \subseteq wasSoon' /\ wasSoon' \subseteq Keys
      /\ sure' \in [Calls -> SUBSET Keys]
  BY <1>2, Remembers
<1>5. TypeOK'
  BY <1>1, <1>2, <1>3, <1>4 DEF TypeOK, Kinds
<1>6. \A d \in Calls : Sound(d)'
  BY <1>1, <1>2, Bystander
<1>7. NoticesEarned'
  <2>1. SUFFICES ASSUME NEW k \in Keys, notice'[k] # "none"
                 PROVE  k \in wasSoon' /\ born'[k[1]] > 0
    BY DEF NoticesEarned
  <2>2. k \in wasSoon /\ born[k[1]] > 0
    BY <2>1 DEF IInv, NoticesEarned, Earned
  <2>3. k[1] \in Jobs /\ born[k[1]] <= born'[k[1]]
    BY DEF Keys
  <2> QED BY <1>2, <2>2, <2>3 DEF History
<1> QED BY <1>4, <1>5, <1>6, <1>7 DEF IInv

\* What the step of a call makes of the jobs tracked throughout it.
LEMMA SureMoves ==
  ASSUME IInv, History, NEW c \in Calls, NEW l \in Call, Becomes(c, l), l.pc # "idle",
         call[c].pc \notin Ended
  PROVE  sure'[c] = IF call[c].pc = "idle" THEN Tracked' ELSE sure[c] \intersect Tracked'
<1>1. call'[c] = l
  BY DEF IInv, TypeOK, Kinds, Becomes
<1> QED BY <1>1 DEF History

\* A step that only reads.
LEMMA ReadStep ==
  ASSUME IInv, History, NEW c \in Calls, NEW l \in Call, Becomes(c, l),
         UNCHANGED <<today, marked, born, events, notice>>, job' \in [Jobs -> Job],
         l.pc \in {"insert", "addedEvent", "deleteRow", "removedEvent", "soonJob",
                   "soonUsers"} => l.job \in Jobs,
         \/ call[c].owed = FALSE /\ l.owed = FALSE
         \/ call[c].owed = l.owed /\ call[c].job = l.job /\ call[c].op = l.op,
         Sound(c)'
  PROVE  IInv'
<1>1. \A j \in Jobs : Accounted(j)'
  BY CountKept
<1>2. /\ marked' \subseteq Jobs /\ born' \in [Jobs -> Nat] /\ born \in [Jobs -> Nat]
      /\ events' \in [Jobs -> [added : Nat, removed : Nat]]
      /\ notice' \in [Keys -> {"none", "unread", "read"}]
      /\ \A j \in marked' : born'[j] > 0
  BY DEF IInv, TypeOK, Kinds
<1> QED BY <1>1, <1>2, Frame

\* A step after which a call has nothing to insert or to record.
LEMMA Rests ==
  ASSUME IInv, NEW c \in Calls, NEW l \in Call, Becomes(c, l),
         \/ l.pc = "failed" \/ l.pc = "lost"
         \/ l.pc = "done" /\ l.owed = FALSE /\ l.op # "list"
         \/ l.pc = "insert" /\ l.owed = FALSE /\ l.op = "createBookmark"
         \/ l.pc = "deleteRow" /\ l.owed = FALSE /\ l.op = "deleteBookmark"
         \/ l.pc = "soonJob" /\ l.owed = FALSE /\ l.op = "updateJob"
  PROVE  Sound(c)'
<1>1. call'[c] = l
  BY DEF IInv, TypeOK, Kinds, Becomes
<1> QED BY <1>1 DEF Sound

-----------------------------------------------------------------------------
(* The actions                                                             *)

\* Facts of the invariant that every action needs.
LEMMA Facts ==
  ASSUME IInv, NEW c \in Calls
  PROVE  /\ call \in [Calls -> Call] /\ call[c] \in Call /\ Sound(c)
         /\ today \in 0 .. MaxDay /\ job \in [Jobs -> Job] /\ marked \subseteq Jobs
         /\ born \in [Jobs -> Nat] /\ events \in [Jobs -> [added : Nat, removed : Nat]]
         /\ notice \in [Keys -> {"none", "unread", "read"}]
         /\ (call[c].pc \in {"insert", "addedEvent", "deleteRow", "removedEvent", "soonJob",
                             "soonUsers"} => call[c].job \in Jobs)
         /\ sure[c] \subseteq Keys /\ wasSoon \subseteq Keys
         /\ \A j \in marked : born[j] > 0
  BY DEF IInv, TypeOK, Kinds

LEMMA CreateFindStep ==
  ASSUME IInv, History, UNCHANGED today, NEW c \in Calls, CreateFind(c)
  PROVE  IInv'
<1>1. PICK j \in Jobs :
        Becomes(c, [Idle EXCEPT !.pc = IF j \in marked THEN "failed" ELSE "insert",
                                !.op = "createBookmark", !.job = j])
  BY DEF CreateFind
<1> DEFINE l == [Idle EXCEPT !.pc = IF j \in marked THEN "failed" ELSE "insert",
                             !.op = "createBookmark", !.job = j]
<1>2. /\ l \in Call /\ l.owed = FALSE /\ l.op = "createBookmark" /\ l.job \in Jobs
      /\ l.pc = "failed" \/ l.pc = "insert"
  BY DEF Call, Idle, Pc
<1>3. call[c].owed = FALSE
  BY Facts DEF CreateFind, Starts, Sound, Call
<1> HIDE DEF l
<1>4. Becomes(c, l) BY <1>1 DEF l
<1>5. Sound(c)' BY <1>2, <1>4, Rests
<1>6. job' \in [Jobs -> Job] BY Facts DEF CreateFind, Rows
<1> QED BY <1>2, <1>3, <1>4, <1>5, <1>6, ReadStep DEF CreateFind, Rows

LEMMA DeleteFindStep ==
  ASSUME IInv, History, UNCHANGED today, NEW c \in Calls, DeleteFind(c)
  PROVE  IInv'
<1>1. PICK j \in marked :
        Becomes(c, [Idle EXCEPT !.pc = "deleteRow", !.op = "deleteBookmark", !.job = j,
                                !.id = born[j]])
  BY DEF DeleteFind
<1> DEFINE l == [Idle EXCEPT !.pc = "deleteRow", !.op = "deleteBookmark", !.job = j,
                             !.id = born[j]]
<1>2. /\ l \in Call /\ l.owed = FALSE /\ l.op = "deleteBookmark" /\ l.job \in Jobs
      /\ l.pc = "deleteRow"
  BY Facts DEF Call, Idle, Pc
<1>3. call[c].owed = FALSE
  BY Facts DEF DeleteFind, Starts, Sound, Call
<1> HIDE DEF l
<1>4. Becomes(c, l) BY <1>1 DEF l
<1>5. Sound(c)' BY <1>2, <1>4, Rests
<1>6. job' \in [Jobs -> Job] BY Facts DEF DeleteFind, Rows
<1> QED BY <1>2, <1>3, <1>4, <1>5, <1>6, ReadStep DEF DeleteFind, Rows

LEMMA UpdateJobStep ==
  ASSUME IInv, History, UNCHANGED today, NEW c \in Calls, UpdateJob(c)
  PROVE  IInv'
<1>1. PICK j \in Jobs, r \in Job :
        /\ job' = [job EXCEPT ![j] = r]
        /\ Becomes(c, [Idle EXCEPT !.pc = "soonJob", !.op = "updateJob", !.job = j])
  BY DEF UpdateJob
<1> DEFINE l == [Idle EXCEPT !.pc = "soonJob", !.op = "updateJob", !.job = j]
<1>2. /\ l \in Call /\ l.owed = FALSE /\ l.op = "updateJob" /\ l.job \in Jobs
      /\ l.pc = "soonJob"
  BY DEF Call, Idle, Pc
<1>3. call[c].owed = FALSE
  BY Facts DEF UpdateJob, Starts, Sound, Call
<1> HIDE DEF l
<1>4. Becomes(c, l) BY <1>1 DEF l
<1>5. Sound(c)' BY <1>2, <1>4, Rests
<1>6. job' \in [Jobs -> Job] BY <1>1, Facts
<1> QED BY <1>2, <1>3, <1>4, <1>5, <1>6, ReadStep DEF UpdateJob

LEMMA LoseStep ==
  ASSUME IInv, History, UNCHANGED today, NEW c \in Calls, Lose(c)
  PROVE  IInv'
<1> DEFINE l == [call[c] EXCEPT !.pc = "lost"]
<1>2. /\ l \in Call /\ l.owed = call[c].owed /\ l.op = call[c].op /\ l.job = call[c].job
      /\ l.pc = "lost"
  BY Facts DEF Call, Pc
<1> HIDE DEF l
<1>4. Becomes(c, l) BY DEF Lose, Goes, l
<1>5. Sound(c)' BY <1>2, <1>4, Rests
<1>6. job' \in [Jobs -> Job] BY Facts DEF Lose, Rows
<1> QED BY <1>2, <1>4, <1>5, <1>6, ReadStep DEF Lose, Rows

\* The bookmark is inserted, with a new id, and its event is owed.
LEMMA InsertStep ==
  ASSUME IInv, History, UNCHANGED today, NEW c \in Calls, Insert(c)
  PROVE  IInv'
<1> DEFINE j == call[c].job
<1>1. /\ call[c].pc = "insert" /\ call[c].op = "createBookmark" /\ j \in Jobs
      /\ call[c].owed = FALSE /\ UNCHANGED <<job, events, notice>>
  BY Facts DEF Insert, At, Sound, Call
<1>2. CASE ~Inserts(j)
  <2> DEFINE l == [call[c] EXCEPT !.pc = "failed"]
  <2>1. /\ l \in Call /\ l.owed = FALSE /\ l.pc = "failed"
    BY <1>1, Facts DEF Call, Pc
  <2> HIDE DEF l
  <2>2. Becomes(c, l) /\ UNCHANGED <<marked, born>> BY <1>2 DEF Insert, Goes, l
  <2>3. Sound(c)' BY <2>1, <2>2, Rests
  <2>4. job' \in [Jobs -> Job] BY <1>1, Facts
  <2> QED BY <1>1, <2>1, <2>2, <2>3, <2>4, ReadStep
<1>3. CASE Inserts(j)
  <2> DEFINE l == [call[c] EXCEPT !.pc = "addedEvent", !.owed = TRUE]
  <2>1. /\ l \in Call /\ l.owed = TRUE /\ l.pc = "addedEvent" /\ l.job = j
        /\ l.op = "createBookmark" /\ l.todo = call[c].todo
    BY <1>1, Facts DEF Call, Pc
  <2> HIDE DEF l
  <2>2. /\ Becomes(c, l) /\ marked' = marked \union {j}
        /\ born' = [born EXCEPT ![j] = @ + 1]
    BY <1>3 DEF Insert, l
  <2>3. /\ born' \in [Jobs -> Nat] /\ born'[j] > 0
        /\ \A i \in Jobs : born[i] <= born'[i]
        /\ \A i \in marked' : born'[i] > 0
    BY <1>1, <2>2, Facts
  <2>4. call'[c] = l
    BY <2>2, Facts DEF Becomes
  <2>5. Sound(c)'
    BY <2>1, <2>3, <2>4 DEF Sound
  <2>6. ASSUME NEW i \in Jobs PROVE Accounted(i)'
    <3>1. /\ Accounted(i) /\ events[i] \in [added : Nat, removed : Nat]
          /\ events'[i] = events[i] /\ call \in [Calls -> Call]
      BY <1>1, <2>6, Facts DEF IInv
    <3>2. /\ c \notin Owed(i, "createBookmark") /\ c \notin Owed(i, "deleteBookmark")
      BY <1>1 DEF Owed
    <3>3. /\ IsFiniteSet(Owed(i, "deleteBookmark")')
          /\ Cardinality(Owed(i, "deleteBookmark")')
               = Cardinality(Owed(i, "deleteBookmark"))
          /\ Cardinality(Owed(i, "deleteBookmark")) \in Nat
      <4>1. ~Owes(l, i, "deleteBookmark") BY <2>1 DEF Owes
      <4> QED BY <2>1, <2>2, <3>1, <3>2, <4>1, OwedMoves DEF Accounted
    <3>4. CASE i = j
      <4>1. Owes(l, i, "createBookmark") BY <2>1, <3>4 DEF Owes
      <4>2. /\ IsFiniteSet(Owed(i, "createBookmark")')
            /\ Cardinality(Owed(i, "createBookmark")')
                 = Cardinality(Owed(i, "createBookmark")) + 1
            /\ Cardinality(Owed(i, "createBookmark")) \in Nat
        BY <2>1, <2>2, <3>1, <3>2, <4>1, OwedMoves DEF Accounted
      <4>3. i \notin marked /\ i \in marked'
        BY <1>3, <2>2, <3>4 DEF Inserts
      <4> QED BY <3>1, <3>3, <4>2, <4>3 DEF Accounted
    <3>5. CASE i # j
      <4>1. ~Owes(l, i, "createBookmark") BY <2>1, <3>5 DEF Owes
      <4>2. /\ IsFiniteSet(Owed(i, "createBookmark")')
            /\ Cardinality(Owed(i, "createBookmark")')
                 = Cardinality(Owed(i, "createBookmark"))
            /\ Cardinality(Owed(i, "createBookmark")) \in Nat
        BY <2>1, <2>2, <3>1, <3>2, <4>1, OwedMoves DEF Accounted
      <4>3. (i \in marked') = (i \in marked)
        BY <2>2, <3>5
      <4> QED BY <3>1, <3>3, <4>2, <4>3 DEF Accounted
    <3> QED BY <3>4, <3>5
  <2>7. job' \in [Jobs -> Job] /\ marked' \subseteq Jobs
        /\ events' \in [Jobs -> [added : Nat, removed : Nat]]
        /\ notice' \in [Keys -> {"none", "unread", "read"}]
    BY <1>1, <2>2, Facts
  <2> QED BY <1>1, <2>1, <2>2, <2>3, <2>5, <2>6, <2>7, Frame
<1> QED BY <1>2, <1>3

\* The event is recorded, or the call fails and owes it for good.
LEMMA AddedEventStep ==
  ASSUME IInv, History, UNCHANGED today, NEW c \in Calls, AddedEvent(c)
  PROVE  IInv'
<1> DEFINE j == call[c].job
<1>1. /\ call[c].pc = "addedEvent" /\ call[c].op = "createBookmark" /\ j \in Jobs
      /\ call[c].owed = TRUE /\ born[j] > 0 /\ UNCHANGED <<job, marked, born, notice>>
  BY Facts DEF AddedEvent, At, Sound, Call
<1>2. /\ job' \in [Jobs -> Job] /\ marked' \subseteq Jobs /\ born' \in [Jobs -> Nat]
      /\ notice' \in [Keys -> {"none", "unread", "read"}]
      /\ \A i \in marked' : born'[i] > 0
  BY <1>1, Facts
<1>3. CASE UNCHANGED events /\ Goes(c, "failed")
  <2> DEFINE l == [call[c] EXCEPT !.pc = "failed"]
  <2>1. /\ l \in Call /\ l.owed = call[c].owed /\ l.op = call[c].op /\ l.job = j
        /\ l.pc = "failed"
    BY <1>1, Facts DEF Call, Pc
  <2> HIDE DEF l
  <2>2. Becomes(c, l) BY <1>3 DEF Goes, l
  <2>3. Sound(c)' BY <2>1, <2>2, Rests
  <2> QED BY <1>1, <1>2, <1>3, <2>1, <2>2, <2>3, ReadStep
<1>4. CASE /\ events' = [events EXCEPT ![j].added = @ + 1]
           /\ Becomes(c, [call[c] EXCEPT !.pc = "soonJob", !.owed = FALSE])
  <2> DEFINE l == [call[c] EXCEPT !.pc = "soonJob", !.owed = FALSE]
  <2>1. /\ l \in Call /\ l.owed = FALSE /\ l.pc = "soonJob" /\ l.job = j
        /\ l.op = "createBookmark" /\ l.todo = call[c].todo
    BY <1>1, Facts DEF Call, Pc
  <2> HIDE DEF l
  <2>2. Becomes(c, l) BY <1>4 DEF l
  <2>3. /\ events' \in [Jobs -> [added : Nat, removed : Nat]]
        /\ events'[j].added = events[j].added + 1 /\ events'[j].removed = events[j].removed
        /\ \A i \in Jobs : i # j => events'[i] = events[i]
    BY <1>1, <1>4, Facts
  <2>4. call'[c] = l
    BY <2>2, Facts DEF Becomes
  <2>5. Sound(c)'
    BY <1>1, <2>1, <2>4 DEF Sound
  <2>6. ASSUME NEW i \in Jobs PROVE Accounted(i)'
    <3>1. /\ Accounted(i) /\ events[i] \in [added : Nat, removed : Nat]
          /\ call \in [Calls -> Call] /\ (i \in marked') = (i \in marked)
      BY <1>1, <2>6, Facts DEF IInv
    <3>2. /\ c \notin Owed(i, "deleteBookmark")
          /\ c \in Owed(i, "createBookmark") <=> i = j
      BY <1>1 DEF Owed
    <3>3. ~Owes(l, i, "deleteBookmark") /\ ~Owes(l, i, "createBookmark")
      BY <2>1 DEF Owes
    <3>4. /\ IsFiniteSet(Owed(i, "deleteBookmark")')
          /\ Cardinality(Owed(i, "deleteBookmark")')
               = Cardinality(Owed(i, "deleteBookmark"))
          /\ Cardinality(Owed(i, "deleteBookmark")) \in Nat
      BY <2>1, <2>2, <3>1, <3>2, <3>3, OwedMoves DEF Accounted
    <3>5. /\ IsFiniteSet(Owed(i, "createBookmark")')
          /\ Cardinality(Owed(i, "createBookmark")) \in Nat
          /\ Cardinality(Owed(i, "createBookmark")')
               = IF i = j THEN Cardinality(Owed(i, "createBookmark")) - 1
                 ELSE Cardinality(Owed(i, "createBookmark"))
      BY <2>1, <2>2, <3>1, <3>2, <3>3, OwedMoves DEF Accounted
    <3>6. CASE i = j
      BY <2>3, <3>1, <3>4, <3>5, <3>6 DEF Accounted
    <3>7. CASE i # j
      BY <2>3, <3>1, <3>4, <3>5, <3>7 DEF Accounted
    <3> QED BY <3>6, <3>7
  <2> QED BY <1>1, <1>2, <2>1, <2>2, <2>3, <2>5, <2>6, Facts, Frame
<1> QED BY <1>3, <1>4 DEF AddedEvent

\* The bookmark is deleted, if it is still the one that was found.
LEMMA DeleteRowStep ==
  ASSUME IInv, History, UNCHANGED today, NEW c \in Calls, DeleteRow(c)
  PROVE  IInv'
<1> DEFINE j == call[c].job
<1>1. /\ call[c].pc = "deleteRow" /\ call[c].op = "deleteBookmark" /\ j \in Jobs
      /\ call[c].owed = FALSE /\ UNCHANGED <<job, born, events, notice>>
  BY Facts DEF DeleteRow, At, Sound, Call
<1>2. /\ job' \in [Jobs -> Job] /\ born' \in [Jobs -> Nat]
      /\ events' \in [Jobs -> [added : Nat, removed : Nat]]
      /\ notice' \in [Keys -> {"none", "unread", "read"}]
  BY <1>1, Facts
<1>3. CASE ~Deletes(j, call[c].id)
  <2> DEFINE l == [call[c] EXCEPT !.pc = "failed"]
  <2>1. /\ l \in Call /\ l.owed = FALSE /\ l.pc = "failed"
    BY <1>1, Facts DEF Call, Pc
  <2> HIDE DEF l
  <2>2. Becomes(c, l) /\ UNCHANGED marked BY <1>3 DEF DeleteRow, Goes, l
  <2>3. Sound(c)' BY <2>1, <2>2, Rests
  <2> QED BY <1>1, <1>2, <2>1, <2>2, <2>3, ReadStep
<1>4. CASE Deletes(j, call[c].id)
  <2> DEFINE l == [call[c] EXCEPT !.pc = "removedEvent", !.owed = TRUE]
  <2>1. /\ l \in Call /\ l.owed = TRUE /\ l.pc = "removedEvent" /\ l.job = j
        /\ l.op = "deleteBookmark" /\ l.todo = call[c].todo
    BY <1>1, Facts DEF Call, Pc
  <2> HIDE DEF l
  <2>2. Becomes(c, l) /\ marked' = marked \ {j}
    BY <1>4 DEF DeleteRow, l
  <2>3. /\ marked' \subseteq Jobs
        /\ \A i \in Jobs : born[i] <= born'[i]
        /\ \A i \in marked' : born'[i] > 0
    BY <1>1, <2>2, Facts
  <2>4. call'[c] = l
    BY <2>2, Facts DEF Becomes
  <2>5. Sound(c)'
    BY <2>1, <2>4 DEF Sound
  <2>6. ASSUME NEW i \in Jobs PROVE Accounted(i)'
    <3>1. /\ Accounted(i) /\ events[i] \in [added : Nat, removed : Nat]
          /\ events'[i] = events[i] /\ call \in [Calls -> Call]
      BY <1>1, <2>6, Facts DEF IInv
    <3>2. c \notin Owed(i, "createBookmark") /\ c \notin Owed(i, "deleteBookmark")
      BY <1>1 DEF Owed
    <3>3. ~Owes(l, i, "createBookmark") /\ (Owes(l, i, "deleteBookmark") <=> i = j)
      BY <2>1 DEF Owes
    <3>4. /\ IsFiniteSet(Owed(i, "createBookmark")')
          /\ Cardinality(Owed(i, "createBookmark")')
               = Cardinality(Owed(i, "createBookmark"))
          /\ Cardinality(Owed(i, "createBookmark")) \in Nat
      BY <2>1, <2>2, <3>1, <3>2, <3>3, OwedMoves DEF Accounted
    <3>5. /\ IsFiniteSet(Owed(i, "deleteBookmark")')
          /\ Cardinality(Owed(i, "deleteBookmark")) \in Nat
          /\ Cardinality(Owed(i, "deleteBookmark")')
               = IF i = j THEN Cardinality(Owed(i, "deleteBookmark")) + 1
                 ELSE Cardinality(Owed(i, "deleteBookmark"))
      BY <2>1, <2>2, <3>1, <3>2, <3>3, OwedMoves DEF Accounted
    <3>6. CASE i = j
      <4>1. i \in marked /\ i \notin marked'
        BY <1>4, <2>2, <3>6 DEF Deletes
      <4> QED BY <3>1, <3>4, <3>5, <3>6, <4>1 DEF Accounted
    <3>7. CASE i # j
      <4>1. (i \in marked') = (i \in marked)
        BY <2>2, <3>7
      <4> QED BY <3>1, <3>4, <3>5, <3>7, <4>1 DEF Accounted
    <3> QED BY <3>6, <3>7
  <2> QED BY <1>1, <1>2, <2>1, <2>2, <2>3, <2>5, <2>6, Frame
<1> QED BY <1>3, <1>4

LEMMA RemovedEventStep ==
  ASSUME IInv, History, UNCHANGED today, NEW c \in Calls, RemovedEvent(c)
  PROVE  IInv'
<1> DEFINE j == call[c].job
<1>1. /\ call[c].pc = "removedEvent" /\ call[c].op = "deleteBookmark" /\ j \in Jobs
      /\ call[c].owed = TRUE /\ UNCHANGED <<job, marked, born, notice>>
  BY Facts DEF RemovedEvent, At, Sound, Call
<1>2. /\ job' \in [Jobs -> Job] /\ marked' \subseteq Jobs /\ born' \in [Jobs -> Nat]
      /\ notice' \in [Keys -> {"none", "unread", "read"}]
      /\ \A i \in marked' : born'[i] > 0
  BY <1>1, Facts
<1>3. CASE UNCHANGED events /\ Goes(c, "failed")
  <2> DEFINE l == [call[c] EXCEPT !.pc = "failed"]
  <2>1. /\ l \in Call /\ l.owed = call[c].owed /\ l.op = call[c].op /\ l.job = j
        /\ l.pc = "failed"
    BY <1>1, Facts DEF Call, Pc
  <2> HIDE DEF l
  <2>2. Becomes(c, l) BY <1>3 DEF Goes, l
  <2>3. Sound(c)' BY <2>1, <2>2, Rests
  <2> QED BY <1>1, <1>2, <1>3, <2>1, <2>2, <2>3, ReadStep
<1>4. CASE /\ events' = [events EXCEPT ![j].removed = @ + 1]
           /\ Becomes(c, [call[c] EXCEPT !.pc = "done", !.owed = FALSE])
  <2> DEFINE l == [call[c] EXCEPT !.pc = "done", !.owed = FALSE]
  <2>1. /\ l \in Call /\ l.owed = FALSE /\ l.pc = "done" /\ l.job = j
        /\ l.op = "deleteBookmark" /\ l.op # "list"
    BY <1>1, Facts DEF Call, Pc
  <2> HIDE DEF l
  <2>2. Becomes(c, l) BY <1>4 DEF l
  <2>3. /\ events' \in [Jobs -> [added : Nat, removed : Nat]]
        /\ events'[j].removed = events[j].removed + 1 /\ events'[j].added = events[j].added
        /\ \A i \in Jobs : i # j => events'[i] = events[i]
    BY <1>1, <1>4, Facts
  <2>5. Sound(c)'
    BY <2>1, <2>2, Rests
  <2>6. ASSUME NEW i \in Jobs PROVE Accounted(i)'
    <3>1. /\ Accounted(i) /\ events[i] \in [added : Nat, removed : Nat]
          /\ call \in [Calls -> Call] /\ (i \in marked') = (i \in marked)
      BY <1>1, <2>6, Facts DEF IInv
    <3>2. /\ c \notin Owed(i, "createBookmark")
          /\ c \in Owed(i, "deleteBookmark") <=> i = j
      BY <1>1 DEF Owed
    <3>3. ~Owes(l, i, "deleteBookmark") /\ ~Owes(l, i, "createBookmark")
      BY <2>1 DEF Owes
    <3>4. /\ IsFiniteSet(Owed(i, "createBookmark")')
          /\ Cardinality(Owed(i, "createBookmark")')
               = Cardinality(Owed(i, "createBookmark"))
          /\ Cardinality(Owed(i, "createBookmark")) \in Nat
      BY <2>1, <2>2, <3>1, <3>2, <3>3, OwedMoves DEF Accounted
    <3>5. /\ IsFiniteSet(Owed(i, "deleteBookmark")')
          /\ Cardinality(Owed(i, "deleteBookmark")) \in Nat
          /\ Cardinality(Owed(i, "deleteBookmark")')
               = IF i = j THEN Cardinality(Owed(i, "deleteBookmark")) - 1
                 ELSE Cardinality(Owed(i, "deleteBookmark"))
      BY <2>1, <2>2, <3>1, <3>2, <3>3, OwedMoves DEF Accounted
    <3>6. CASE i = j
      BY <2>3, <3>1, <3>4, <3>5, <3>6 DEF Accounted
    <3>7. CASE i # j
      BY <2>3, <3>1, <3>4, <3>5, <3>7 DEF Accounted
    <3> QED BY <3>6, <3>7
  <2> QED BY <1>1, <1>2, <2>1, <2>2, <2>3, <2>5, <2>6, Facts, Frame
<1> QED BY <1>3, <1>4 DEF RemovedEvent

\* What is due soon for one job.
LEMMA SoonKeyOf ==
  ASSUME NEW jobs, NEW k \in SoonKeys(jobs)
  PROVE  k[1] \in jobs /\ Soon(k[1]) /\ k = <<k[1], job[k[1]].due>>
BY DEF SoonKeys

LEMMA SoonKeysGrow ==
  ASSUME NEW some, NEW all, some \subseteq all
  PROVE  SoonKeys(some) \subseteq SoonKeys(all)
BY DEF SoonKeys

\* Jobs and date unchanged, what is due soon is as before.
LEMMA SoonKept ==
  ASSUME UNCHANGED <<today, job>>
  PROVE  SoonKeys(Jobs)' = SoonKeys(Jobs) /\ Tracked' = SoonKeys(marked')
BY DEF Tracked, SoonKeys, Soon

LEMMA SoonJobStep ==
  ASSUME IInv, History, UNCHANGED today, NEW c \in Calls, SoonJob(c)
  PROVE  IInv'
<1> DEFINE j == call[c].job
           pc == IF ~Soon(j) THEN "done"
                 ELSE IF call[c].op = "updateJob" THEN "soonUsers" ELSE "soonInsert"
           l == [call[c] EXCEPT !.todo = SoonKeys({j}), !.pc = pc]
<1>1. /\ call[c].pc = "soonJob" /\ j \in Jobs /\ call[c].owed = FALSE
      /\ call[c].op # "list" /\ (call[c].op # "updateJob" => born[j] > 0)
      /\ UNCHANGED Rows
  BY Facts DEF SoonJob, At, Sound, Call
<1>2. SoonKeys({j}) \subseteq wasSoon /\ \A k \in SoonKeys({j}) : k[1] = j
  BY <1>1, SoonKeysGrow, SoonKeyOf DEF IInv
<1>3. SoonKeys({j}) \subseteq Keys
  BY <1>2, Facts
<1>4. /\ l \in Call /\ l.owed = FALSE /\ l.job = j /\ l.op = call[c].op
      /\ l.todo = SoonKeys({j}) /\ l.pc \in {"done", "soonUsers", "soonInsert"}
      /\ (l.pc = "soonUsers" => l.op = "updateJob")
      /\ (l.pc = "soonInsert" => l.op # "updateJob")
  BY <1>1, <1>3, Facts DEF Call, Pc
<1> HIDE DEF l, pc
<1>5. Becomes(c, l) BY DEF SoonJob, l, pc
<1>6. call'[c] = l
  BY <1>5, Facts DEF Becomes
<1>7. wasSoon \subseteq wasSoon' /\ born' = born
  BY <1>1 DEF History, Rows
<1>8. l.pc = "soonInsert" => SoonKeys({j}) \subseteq Earned'
  BY <1>1, <1>2, <1>4, <1>7 DEF Earned
<1>9. Sound(c)'
  BY <1>1, <1>2, <1>4, <1>6, <1>7, <1>8 DEF Sound
<1>10. job' \in [Jobs -> Job] BY <1>1, Facts DEF Rows
<1> QED BY <1>1, <1>4, <1>5, <1>9, <1>10, ReadStep DEF Rows

LEMMA SoonUsersStep ==
  ASSUME IInv, History, UNCHANGED today, NEW c \in Calls, SoonUsers(c)
  PROVE  IInv'
<1> DEFINE j == call[c].job
           pc == IF Told(j) THEN "soonInsert" ELSE "done"
           l == [call[c] EXCEPT !.pc = pc]
<1>1. /\ call[c].pc = "soonUsers" /\ j \in Jobs /\ call[c].owed = FALSE
      /\ call[c].op # "list" /\ call[c].todo \subseteq wasSoon
      /\ (\A k \in call[c].todo : k[1] = j) /\ UNCHANGED Rows
  BY Facts DEF SoonUsers, At, Sound, Call
<1>2. /\ l \in Call /\ l.owed = FALSE /\ l.op = call[c].op /\ l.todo = call[c].todo
      /\ l.pc \in {"done", "soonInsert"} /\ (l.pc = "soonInsert" => born[j] > 0)
  BY <1>1, Facts DEF Call, Pc, Told
<1> HIDE DEF l, pc
<1>3. Becomes(c, l) BY DEF SoonUsers, Goes, l, pc
<1>4. call'[c] = l
  BY <1>3, Facts DEF Becomes
<1>5. wasSoon \subseteq wasSoon' /\ born' = born
  BY <1>1 DEF History, Rows
<1>6. l.pc = "soonInsert" => l.todo \subseteq Earned'
  BY <1>1, <1>2, <1>5 DEF Earned
<1>7. Sound(c)'
  BY <1>1, <1>2, <1>4, <1>6 DEF Sound
<1>8. job' \in [Jobs -> Job] BY <1>1, Facts DEF Rows
<1> QED BY <1>1, <1>2, <1>3, <1>7, <1>8, ReadStep DEF Rows

\* The list starts from the jobs bookmarked, so from all that will be tracked
\* throughout the call ...
LEMMA ListBookmarksStep ==
  ASSUME IInv, History, UNCHANGED today, NEW c \in Calls, ListBookmarks(c)
  PROVE  IInv'
<1> DEFINE l == [Idle EXCEPT !.pc = IF marked = {} THEN "done" ELSE "listJobs",
                             !.op = "list", !.todo = marked \X Days]
<1>1. call[c].pc = "idle" /\ call[c].owed = FALSE /\ UNCHANGED Rows
  BY Facts DEF ListBookmarks, Starts, Sound, Call
<1>2. marked \X Days \subseteq Keys
  BY Facts DEF Keys
<1>3. /\ l \in Call /\ l.owed = FALSE /\ l.op = "list" /\ l.todo = marked \X Days
      /\ l.pc \in {"done", "listJobs"} /\ (l.pc = "done" => marked = {})
  BY <1>2 DEF Call, Idle, Pc
<1> HIDE DEF l
<1>4. Becomes(c, l) BY DEF ListBookmarks, l
<1>5. call'[c] = l
  BY <1>4, Facts DEF Becomes
<1>6. sure'[c] = SoonKeys(marked)
  <2>1. sure'[c] = Tracked'
    BY <1>1, <1>3, <1>4, SureMoves DEF Ended
  <2>2. SoonKeys(marked)' = SoonKeys(marked)
    BY <1>1 DEF Rows, SoonKeys, Soon
  <2> QED BY <2>1, <2>2 DEF Tracked
<1>7. SoonKeys(marked) \subseteq marked \X Days
  <2>1. SUFFICES ASSUME NEW k \in SoonKeys(marked) PROVE k \in marked \X Days
    OBVIOUS
  <2>2. k[1] \in marked /\ Soon(k[1]) /\ k = <<k[1], job[k[1]].due>>
    BY SoonKeyOf
  <2>3. job[k[1]].due \in Days
    BY <2>2, Facts DEF Soon, Job
  <2> QED BY <2>2, <2>3
<1>8. /\ (\A k \in l.todo : born'[k[1]] > 0) /\ sure'[c] \subseteq l.todo
      /\ (l.pc = "done" => sure'[c] = {})
  BY <1>1, <1>3, <1>6, <1>7, Facts DEF Rows
<1>9. Sound(c)'
  BY <1>3, <1>5, <1>8 DEF Sound
<1>10. job' \in [Jobs -> Job] BY <1>1, Facts DEF Rows
<1> QED BY <1>1, <1>3, <1>4, <1>9, <1>10, ReadStep DEF Rows

\* ... keeps those due soon, and so all that are tracked still ...
LEMMA ListJobsStep ==
  ASSUME IInv, History, UNCHANGED today, NEW c \in Calls, ListJobs(c)
  PROVE  IInv'
<1> DEFINE left == call[c].todo \intersect SoonKeys(Jobs)
           l == [call[c] EXCEPT !.todo = left,
                                !.pc = IF left = {} THEN "done" ELSE "soonInsert"]
<1>1. /\ call[c].pc = "listJobs" /\ call[c].owed = FALSE /\ call[c].op = "list"
      /\ sure[c] \subseteq call[c].todo /\ (\A k \in call[c].todo : born[k[1]] > 0)
      /\ UNCHANGED Rows
  BY Facts DEF ListJobs, At, Sound, Call
<1>2. /\ l \in Call /\ l.owed = FALSE /\ l.op = "list" /\ l.todo = left
      /\ l.pc \in {"done", "soonInsert"} /\ (l.pc = "done" => left = {})
  BY <1>1, Facts DEF Call, Pc
<1>3. Becomes(c, l)
  BY DEF ListJobs, At
<1>4. sure'[c] \subseteq left
  <2>1. sure'[c] = sure[c] \intersect Tracked'
    BY <1>1, <1>2, <1>3, SureMoves DEF Ended
  <2>2. Tracked' \subseteq SoonKeys(Jobs)
    <3>1. UNCHANGED <<today, job>> /\ marked' \subseteq Jobs
      BY <1>1, Facts DEF Rows
    <3> QED BY <3>1, SoonKept, SoonKeysGrow
  <2> QED BY <1>1, <2>1, <2>2
<1>5. left \subseteq Earned'
  <2>1. SoonKeys(Jobs) \subseteq wasSoon' /\ born' = born
    BY <1>1 DEF IInv, History, Rows
  <2> QED BY <1>1, <2>1 DEF Earned
<1> HIDE DEF l, left
<1>6. call'[c] = l
  BY <1>3, Facts DEF Becomes
<1>7. Sound(c)'
  BY <1>2, <1>4, <1>5, <1>6 DEF Sound
<1>8. job' \in [Jobs -> Job] BY <1>1, Facts DEF Rows
<1> QED BY <1>1, <1>2, <1>3, <1>7, <1>8, ReadStep DEF Rows

\* ... and inserts their notices.
LEMMA SoonInsertStep ==
  ASSUME IInv, History, UNCHANGED today, NEW c \in Calls, SoonInsert(c)
  PROVE  IInv'
<1>1. /\ call[c].pc = "soonInsert" /\ call[c].owed = FALSE /\ call[c].todo \subseteq Earned
      /\ call[c].todo \subseteq Keys /\ UNCHANGED <<job, marked, born, events>>
  BY Facts DEF SoonInsert, At, Sound, Call
<1>2. PICK k \in call[c].todo :
        /\ notice' = Noticed(k)
        /\ Becomes(c, [call[c] EXCEPT !.todo = Rest(@, k),
                                      !.pc = IF Rest(call[c].todo, k) = {} THEN "done" ELSE @])
  BY DEF SoonInsert
<1> DEFINE left == Rest(call[c].todo, k)
           l == [call[c] EXCEPT !.todo = left, !.pc = IF left = {} THEN "done" ELSE @]
<1>3. left = call[c].todo \ {k}
  BY DEF Rest
<1>4. /\ l \in Call /\ l.owed = FALSE /\ l.op = call[c].op /\ l.todo = left
      /\ l.job = call[c].job
      /\ ((l.pc = "done" /\ left = {}) \/ l.pc = "soonInsert")
  BY <1>1, <1>3, Facts DEF Call, Pc
<1>5. Becomes(c, l) BY <1>2
<1> HIDE DEF l, left
<1>6. call'[c] = l
  BY <1>5, Facts DEF Becomes
<1>7. /\ notice' \in [Keys -> {"none", "unread", "read"}] /\ notice'[k] # "none"
      /\ \A i \in Keys : i # k => notice'[i] = notice[i]
      /\ notice[k] # "none" => notice'[k] = notice[k]
  BY <1>1, <1>2, Facts DEF Noticed
<1>8. sure'[c] \subseteq sure[c] /\ sure[c] \subseteq Keys
  BY <1>1, <1>4, <1>5, SureMoves, Facts DEF Ended
<1>9. l.op = "list" => \A i \in sure'[c] : notice'[i] # "none"
                                           \/ (l.pc = "soonInsert" /\ i \in l.todo)
  <2>1. SUFFICES ASSUME l.op = "list", NEW i \in sure'[c], notice'[i] = "none"
                 PROVE  l.pc = "soonInsert" /\ i \in l.todo
    OBVIOUS
  <2>2. i \in Keys /\ i \in sure[c] /\ i # k
    BY <1>7, <1>8, <2>1
  <2>3. notice[i] = "none"
    BY <1>7, <2>1, <2>2
  <2>4. i \in call[c].todo
    BY <1>1, <1>4, <2>1, <2>2, <2>3, Facts DEF Sound
  <2> QED BY <1>3, <1>4, <2>2, <2>4
<1>10. l.todo \subseteq Earned'
  BY <1>1, <1>3, <1>4 DEF Earned, History
<1>11. Sound(c)'
  BY <1>4, <1>6, <1>9, <1>10 DEF Sound
<1>12. \A j \in Jobs : Accounted(j)'
  BY <1>1, <1>4, <1>5, CountKept
<1>13. /\ job' \in [Jobs -> Job] /\ marked' \subseteq Jobs /\ born' \in [Jobs -> Nat]
       /\ events' \in [Jobs -> [added : Nat, removed : Nat]]
       /\ \A j \in marked' : born'[j] > 0
       /\ \A j \in Jobs : born[j] <= born'[j]
  BY <1>1, Facts
<1>14. /\ \A i \in Keys : notice[i] # "none" => notice'[i] # "none"
       /\ \A i \in Keys : notice'[i] # "none" => notice[i] # "none" \/ i \in Earned
  BY <1>1, <1>2, <1>7
<1> QED BY <1>4, <1>5, <1>7, <1>11, <1>12, <1>13, <1>14, Frame

LEMMA MarkReadFindStep ==
  ASSUME IInv, History, UNCHANGED today, NEW c \in Calls, MarkReadFind(c)
  PROVE  IInv'
<1>1. call[c].pc = "idle" /\ call[c].owed = FALSE /\ UNCHANGED Rows
  BY Facts DEF MarkReadFind, Starts, Sound, Call
<1>2. PICK k \in Keys :
        /\ notice[k] # "none"
        /\ Becomes(c, [Idle EXCEPT !.pc = IF notice[k] = "read" THEN "done" ELSE "mark",
                                   !.op = "markRead", !.todo = {k}])
  BY DEF MarkReadFind
<1> DEFINE l == [Idle EXCEPT !.pc = IF notice[k] = "read" THEN "done" ELSE "mark",
                             !.op = "markRead", !.todo = {k}]
<1>3. /\ l \in Call /\ l.owed = FALSE /\ l.op = "markRead" /\ l.todo = {k}
      /\ l.pc \in {"done", "mark"}
  BY DEF Call, Idle, Pc
<1> HIDE DEF l
<1>4. Becomes(c, l) BY <1>2 DEF l
<1>5. call'[c] = l
  BY <1>4, Facts DEF Becomes
<1>6. Sound(c)'
  BY <1>1, <1>2, <1>3, <1>5 DEF Sound, Rows
<1>7. job' \in [Jobs -> Job] BY <1>1, Facts DEF Rows
<1> QED BY <1>1, <1>3, <1>4, <1>6, <1>7, ReadStep DEF Rows

\* Marking as read, one notice or all: none appears, none goes.
LEMMA MarkStep ==
  ASSUME IInv, History, UNCHANGED today, NEW c \in Calls, NEW l \in Call, Becomes(c, l),
         UNCHANGED <<job, marked, born, events>>, call[c].owed = FALSE, l.owed = FALSE,
         l.pc = "done", l.op # "list",
         notice' \in [Keys -> {"none", "unread", "read"}],
         \A k \in Keys : (notice'[k] = "none") = (notice[k] = "none")
  PROVE  IInv'
<1>1. Sound(c)'
  BY Rests
<1>2. \A j \in Jobs : Accounted(j)'
  BY CountKept
<1>3. /\ job' \in [Jobs -> Job] /\ marked' \subseteq Jobs /\ born' \in [Jobs -> Nat]
      /\ events' \in [Jobs -> [added : Nat, removed : Nat]]
      /\ \A j \in marked' : born'[j] > 0
      /\ \A j \in Jobs : born[j] <= born'[j]
  BY Facts
<1> QED BY <1>1, <1>2, <1>3, Frame

LEMMA MarkReadStep ==
  ASSUME IInv, History, UNCHANGED today, NEW c \in Calls, MarkRead(c)
  PROVE  IInv'
<1> DEFINE l == [call[c] EXCEPT !.pc = "done"]
<1>1. /\ call[c].pc = "mark" /\ call[c].owed = FALSE
      /\ (\A k \in call[c].todo : notice[k] # "none")
      /\ UNCHANGED <<job, marked, born, events>>
  BY Facts DEF MarkRead, At, Sound, Call
<1>2. call[c].op # "list"
  BY <1>1, Facts DEF Sound
<1>3. l \in Call /\ l.owed = FALSE /\ l.op = call[c].op /\ l.pc = "done"
  BY <1>1, Facts DEF Call, Pc
<1> HIDE DEF l
<1>4. Becomes(c, l) BY DEF MarkRead, Goes, l
<1>5. /\ notice' \in [Keys -> {"none", "unread", "read"}]
      /\ \A k \in Keys : (notice'[k] = "none") = (notice[k] = "none")
  BY <1>1, Facts DEF MarkRead
<1> QED BY <1>1, <1>2, <1>3, <1>4, <1>5, MarkStep

LEMMA MarkAllReadStep ==
  ASSUME IInv, History, UNCHANGED today, NEW c \in Calls, MarkAllRead(c)
  PROVE  IInv'
<1> DEFINE l == [Idle EXCEPT !.pc = "done", !.op = "markRead"]
<1>1. call[c].owed = FALSE /\ UNCHANGED <<job, marked, born, events>>
  BY Facts DEF MarkAllRead, Starts, Sound, Call
<1>2. l \in Call /\ l.owed = FALSE /\ l.op = "markRead" /\ l.pc = "done"
  BY DEF Call, Idle, Pc
<1> HIDE DEF l
<1>3. Becomes(c, l) BY DEF MarkAllRead, l
<1>4. /\ notice' \in [Keys -> {"none", "unread", "read"}]
      /\ \A k \in Keys : (notice'[k] = "none") = (notice[k] = "none")
  BY Facts DEF MarkAllRead
<1> QED BY <1>1, <1>2, <1>3, <1>4, MarkStep

\* A day passes: more has been due soon, and less is tracked.
LEMMA NextDayStep ==
  ASSUME IInv, History, NextDay
  PROVE  IInv'
<1>1. /\ today' \in 0 .. MaxDay /\ job' \in [Jobs -> Job] /\ marked' \subseteq Jobs
      /\ born \in [Jobs -> Nat] /\ born' \in [Jobs -> Nat]
      /\ UNCHANGED <<job, marked, born, events, notice, call>>
  BY DEF NextDay, IInv, TypeOK, Kinds
<1>2. /\ SoonKeys(Jobs)' \subseteq wasSoon' /\ wasSoon' \subseteq Keys
      /\ sure' \in [Calls -> SUBSET Keys]
  BY <1>1, Remembers
<1>3. TypeOK'
  BY <1>1, <1>2 DEF IInv, TypeOK, Kinds
<1>4. \A d \in Calls : Sound(d)'
  <2>1. \A j \in Jobs : born[j] <= born'[j]
    BY <1>1
  <2> QED BY <1>1, <2>1, Bystander
<1>5. NoticesEarned'
  BY <1>1 DEF IInv, NoticesEarned, History
<1>6. \A j \in Jobs : Accounted(j)'
  BY <1>1 DEF IInv, Accounted, Owed
<1>7. \A j \in marked' : born'[j] > 0
  BY <1>1 DEF IInv
<1> QED BY <1>2, <1>3, <1>4, <1>5, <1>6, <1>7 DEF IInv

-----------------------------------------------------------------------------
LEMMA Initially == Init => IInv
<1> SUFFICES ASSUME Init PROVE IInv
  OBVIOUS
<1>1. /\ today = 0 /\ job \in [Jobs -> Job] /\ marked \subseteq Jobs
      /\ \A c \in Calls : call[c] = Idle /\ sure[c] = {}
      /\ wasSoon = SoonKeys(Jobs)
      /\ \A k \in Keys : notice[k] = "none"
  BY DEF Init
<1>2. Idle \in Call
  BY DEF Idle, Call, Pc
<1>3. born \in [Jobs -> Nat] /\ \A j \in Jobs : born[j] = IF j \in marked THEN 1 ELSE 0
  BY DEF Init
<1>4. /\ events \in [Jobs -> [added : Nat, removed : Nat]]
      /\ \A j \in Jobs : events[j].added = born[j] /\ events[j].removed = 0
  BY <1>3 DEF Init
<1>5. wasSoon \subseteq Keys
  <2>1. SUFFICES ASSUME NEW k \in SoonKeys(Jobs) PROVE k \in Keys
    BY <1>1
  <2>2. k[1] \in Jobs /\ Soon(k[1]) /\ k = <<k[1], job[k[1]].due>>
    BY SoonKeyOf
  <2>3. job[k[1]].due \in Days
    BY <1>1, <2>2 DEF Soon, Job
  <2> QED BY <2>2, <2>3 DEF Keys
<1>6. TypeOK
  <2>1. call \in [Calls -> Call] /\ sure \in [Calls -> SUBSET Keys]
    BY <1>2 DEF Init
  <2>2. notice \in [Keys -> {"none", "unread", "read"}]
    BY DEF Init
  <2> QED BY <1>1, <1>3, <1>4, <1>5, <2>1, <2>2 DEF TypeOK, Kinds, Idle
<1>7. \A c \in Calls : Sound(c)
  BY <1>1 DEF Sound, Idle
<1>8. \A j \in Jobs : Accounted(j)
  <2>1. SUFFICES ASSUME NEW j \in Jobs PROVE Accounted(j)
    OBVIOUS
  <2>2. Owed(j, "createBookmark") = {} /\ Owed(j, "deleteBookmark") = {}
    BY <1>1 DEF Owed, Idle
  <2> QED BY <1>3, <1>4, <2>2, FS_EmptySet DEF Accounted
<1>9. NoticesEarned
  BY <1>1 DEF NoticesEarned
<1>10. \A j \in marked : born[j] > 0
  BY <1>1, <1>3
<1> QED BY <1>1, <1>6, <1>7, <1>8, <1>9, <1>10 DEF IInv

LEMMA Inductive == IInv /\ [Next]_vars => IInv'
<1> SUFFICES ASSUME IInv, [Next]_vars PROVE IInv'
  OBVIOUS
<1>1. CASE UNCHANGED vars
  BY <1>1 DEF vars, IInv, TypeOK, Kinds, NoticesEarned, Accounted, Owed, Sound, Earned,
              SoonKeys, Soon
<1>2. CASE Next
  <2>1. History
    BY <1>2 DEF Next, History
  <2>2. CASE NextDay
    BY <2>1, <2>2, NextDayStep
  <2>3. ASSUME NEW c \in Calls, Step(c) PROVE IInv'
    BY <2>1, <2>3, CreateFindStep, InsertStep, AddedEventStep, DeleteFindStep, DeleteRowStep,
       RemovedEventStep, UpdateJobStep, SoonJobStep, SoonUsersStep, ListBookmarksStep,
       ListJobsStep, SoonInsertStep, MarkReadFindStep, MarkReadStep, MarkAllReadStep, LoseStep
       DEF Step
  <2> QED BY <1>2, <2>2, <2>3 DEF Next
<1> QED BY <1>1, <1>2

-----------------------------------------------------------------------------
\* The rows and the calls' variables are always of their kinds.
THEOREM BookmarksTypes == Spec => []TypeOK
<1>1. IInv => TypeOK
  BY DEF IInv
<1> QED BY Initially, Inductive, <1>1, PTL DEF Spec

\* Whatever calls overlap, and wherever one of them stops, the engagement
\* events of a job count its bookmark exactly, but for the calls that have
\* written or deleted it and have not recorded that.
THEOREM EventsAgree == Spec => []EventsExplainBookmarks
<1>1. IInv => EventsExplainBookmarks
  BY DEF IInv, Accounted, EventsExplainBookmarks
<1> QED BY Initially, Inductive, <1>1, PTL DEF Spec

\* No deadline notice without a deadline that was soon and a bookmark that
\* there was, on any of the three ways a notice comes about.
THEOREM NoticesHaveReasons == Spec => []NoticesEarned
<1>1. IInv => NoticesEarned
  BY DEF IInv
<1> QED BY Initially, Inductive, <1>1, PTL DEF Spec

\* A list of notices that was answered has made up for every notice that was
\* missed before, for the jobs tracked throughout the call.
THEOREM ListCatchesUp == Spec => []ListTellsAll
<1>1. IInv => ListTellsAll
  BY DEF IInv, Sound, ListTellsAll
<1> QED BY Initially, Inductive, <1>1, PTL DEF Spec

-----------------------------------------------------------------------------
(* The page: what is chosen and what is shown                              *)

\* All that can be said of the list, the calendar and the page number.
Choices == ListFollows /\ CalendarFollows /\ PagesFollow

LEMMA ChoicesKept ==
  ASSUME Choices, UNCHANGED chosenVars
  PROVE  Choices'
BY DEF Choices, ListFollows, ListOf, CalendarFollows, PagesFollow, Live, chosenVars

LEMMA HeartsKept ==
  ASSUME HeartsFollow, UNCHANGED heartVars
  PROVE  HeartsFollow'
BY DEF HeartsFollow, heartVars, Lit, Served, Pending, Settled

LEMMA SetFiltersStep ==
  ASSUME PageTypes, Choices, NEW f \in Filters, SetFilters(f)
  PROVE  PageTypes' /\ Choices'
<1>1. /\ chosen' = [chosen EXCEPT !.filters = f]
      /\ touched' = touched \union {"filters"} \union (IF f # chosen.filters THEN {"query"} ELSE {})
      /\ UNCHANGED <<fetches, due, list, loading, error, calendar, calendarError, pages, amiss, heartVars>>
      /\ happened' = happened + 1 /\ happened < MaxEvents
  BY DEF SetFilters, Event
<1>2. PageTypes'
  BY <1>1, JobsPageAssumption DEF PageTypes, Chosen, heartVars
<1>3. ListFollows' /\ CalendarFollows'
  BY <1>1 DEF ListFollows, CalendarFollows
<1>4. PagesFollow'
  <2>1. CASE f = chosen.filters
    <3>1. chosen' = chosen
      BY <1>1, <2>1 DEF PageTypes, Chosen
    <3> QED BY <1>1, <2>1, <3>1 DEF Choices, PagesFollow, Live
  <2>2. CASE f # chosen.filters
    BY <1>1, <2>2 DEF Choices, PagesFollow
  <2> QED BY <2>1, <2>2
<1> QED BY <1>2, <1>3, <1>4 DEF Choices

\* The pages offered are among those counted, or before the one shown.
LEMMA OfferedPages ==
  ASSUME NEW page \in Nat \ {0}, NEW count \in Nat, NEW p \in Offered(page, count)
  PROVE  p \in Nat \ {0} /\ (p <= count \/ p <= page)
<1>1. p \in 1..count \/ p \in 1..page
  BY DEF Offered
<1> QED BY <1>1

LEMMA SetPageStep ==
  ASSUME PageTypes, Choices, SetPage
  PROVE  PageTypes' /\ Choices'
<1>1. /\ touched' = touched \union {"page"}
      /\ UNCHANGED <<fetches, due, list, loading, error, calendar, calendarError, pages, amiss, heartVars>>
      /\ happened' = happened + 1 /\ happened < MaxEvents
      /\ ~due /\ ~loading /\ list # Nothing
  BY DEF SetPage, Event
<1>2. PICK p \in Offered(chosen.page, list.pages) : chosen' = [chosen EXCEPT !.page = p]
  BY DEF SetPage
<1>3. list.pages \in Nat /\ chosen.page \in Nat \ {0}
  BY <1>1 DEF PageTypes, Listed, Chosen
<1>4. p \in Nat \ {0} /\ (p <= list.pages \/ p <= chosen.page)
  BY <1>2, <1>3, OfferedPages
<1>5. PageTypes'
  BY <1>1, <1>2, <1>4, JobsPageAssumption DEF PageTypes, Chosen, heartVars
<1>6. /\ chosen'.filters = chosen.filters /\ chosen'.month = chosen.month
      /\ chosen'.page = p
  BY <1>2 DEF PageTypes, Chosen
<1>7. ListFollows'
  BY <1>1 DEF ListFollows
<1>8. CalendarFollows'
  BY <1>1, <1>6 DEF Choices, CalendarFollows, Live
<1>9. PagesFollow'
  <2>1. amiss = {} /\ "query" \notin touched => p = 1 \/ p <= pages[chosen.filters]
    <3>1. SUFFICES ASSUME amiss = {}, "query" \notin touched
                   PROVE  p = 1 \/ p <= pages[chosen.filters]
      OBVIOUS
    <3>2. /\ list.pages <= pages[chosen.filters]
          /\ chosen.page = 1 \/ chosen.page <= pages[chosen.filters]
      BY <1>1, <3>1 DEF Choices, PagesFollow
    <3>3. pages[chosen.filters] \in Nat
      BY DEF PageTypes, Chosen
    <3> QED BY <1>3, <1>4, <3>2, <3>3
  <2> QED BY <1>1, <1>6, <2>1 DEF Choices, PagesFollow, Live
<1> QED BY <1>5, <1>7, <1>8, <1>9 DEF Choices

LEMMA JobsChangeStep ==
  ASSUME PageTypes, Choices, NEW f \in Filters, JobsChange(f)
  PROVE  PageTypes' /\ Choices'
<1>1. /\ UNCHANGED <<chosen, touched, fetches, due, list, loading, error, calendar,
                     calendarError, heartVars>>
      /\ happened' = happened + 1 /\ happened < MaxEvents
  BY DEF JobsChange
<1>2. PICK n \in 0..MaxPages :
        /\ pages' = [pages EXCEPT ![f] = n]
        /\ amiss' = IF f = chosen.filters /\ n < pages[f] THEN amiss \union {"fell"} ELSE amiss
  BY DEF JobsChange
<1>3. n \in Nat /\ pages \in [Filters -> Nat]
  BY JobsPageAssumption DEF PageTypes
<1>4. pages' \in [Filters -> Nat] /\ amiss' \subseteq {"failed", "fell"} /\ amiss \subseteq amiss'
  BY <1>2, <1>3 DEF PageTypes
<1>5. PageTypes'
  BY <1>1, <1>4, JobsPageAssumption DEF PageTypes, heartVars
<1>6. ListFollows' /\ CalendarFollows'
  BY <1>1 DEF Choices, ListFollows, CalendarFollows, Live, ListOf
<1>7. "fell" \notin amiss' => pages[chosen.filters] <= pages'[chosen.filters]
  <2>1. chosen.filters \in Filters
    BY DEF PageTypes, Chosen
  <2> QED BY <1>2, <1>3, <2>1
<1>8. PagesFollow'
  <2>1. chosen.filters \in Filters /\ chosen.page \in Nat
        /\ (list # Nothing => list.pages \in Nat)
    BY DEF PageTypes, Chosen, Listed
  <2>2. pages[chosen.filters] \in Nat /\ pages'[chosen.filters] \in Nat
    BY <1>3, <1>4, <2>1
  <2>3. "query" \notin touched /\ ~due /\ ~loading /\ ~error =>
          /\ list # Nothing /\ list.filters = chosen.filters
          /\ "fell" \notin amiss' => list.pages <= pages'[chosen.filters]
    BY <1>4, <1>7, <2>1, <2>2 DEF Choices, PagesFollow
  <2>4. "query" \notin touched /\ amiss' = {} =>
          chosen.page = 1 \/ chosen.page <= pages'[chosen.filters]
    BY <1>4, <1>7, <2>1, <2>2 DEF Choices, PagesFollow
  <2> QED BY <1>1, <1>4, <2>3, <2>4 DEF Choices, PagesFollow, Live
<1> QED BY <1>5, <1>6, <1>8 DEF Choices

LEMMA SetMonthStep ==
  ASSUME PageTypes, Choices, NEW m \in Months, SetMonth(m)
  PROVE  PageTypes' /\ Choices'
<1>1. /\ chosen' = [chosen EXCEPT !.month = m]
      /\ touched' = touched \union {"month"}
      /\ UNCHANGED <<fetches, due, list, loading, error, calendar, calendarError, pages, amiss, heartVars>>
      /\ happened' = happened + 1 /\ happened < MaxEvents
  BY DEF SetMonth, Event
<1>2. PageTypes'
  BY <1>1, JobsPageAssumption DEF PageTypes, Chosen, heartVars
<1>3. chosen'.filters = chosen.filters /\ chosen'.page = chosen.page
  BY <1>1 DEF PageTypes, Chosen
<1>4. ListFollows' /\ CalendarFollows' /\ PagesFollow'
  BY <1>1, <1>3 DEF Choices, ListFollows, ListOf, CalendarFollows, PagesFollow, Live
<1> QED BY <1>2, <1>4 DEF Choices

LEMMA MicrotaskStep ==
  ASSUME PageTypes, Choices, Microtask
  PROVE  PageTypes' /\ Choices'
<1>1. PageTypes'
  BY DEF PageTypes, Microtask, heartVars
<1>2. Choices'
  BY DEF Microtask, Choices, ListFollows, CalendarFollows, PagesFollow, Live
<1> QED BY <1>1, <1>2

\* An answer is not mistaken for having none.
LEMMA ListedIsSomething == \A new \in Listed : new # Nothing
BY JobsPageAssumption DEF Listed

LEMMA JobsAnswerStep ==
  ASSUME PageTypes, Choices, NEW f \in fetches, JobsAnswer(f)
  PROVE  PageTypes' /\ Choices'
<1>1. /\ UNCHANGED <<chosen, touched, due, calendar, calendarError, pages, happened, heartVars>>
      /\ fetches' = fetches \ {f} /\ f.what = "jobs"
  BY DEF JobsAnswer
<1>2. f \in Fetch /\ f.want \in Wanted /\ f.live \in BOOLEAN
  BY <1>1 DEF PageTypes, Fetch
<1> DEFINE new == [filters |-> f.want.filters, page |-> f.want.page,
                   pages |-> pages[f.want.filters]]
<1>3. /\ new \in Listed /\ new.filters = f.want.filters /\ new.page = f.want.page
      /\ new.pages = pages[f.want.filters] /\ pages[f.want.filters] \in Nat
  BY <1>2 DEF PageTypes, Wanted, Listed
<1>4. f.live => /\ loading' = FALSE
                /\ \/ list' = new /\ error' = FALSE /\ amiss' = amiss
                   \/ list' = list /\ error' = TRUE /\ amiss' = amiss \union {"failed"}
  BY DEF JobsAnswer
<1>5. ~f.live => UNCHANGED <<list, loading, error, amiss>>
  BY DEF JobsAnswer
<1> HIDE DEF new
<1>6. PageTypes'
  <2>1. /\ list' \in Listed \union {Nothing} /\ amiss' \subseteq {"failed", "fell"}
        /\ {loading', error'} \subseteq BOOLEAN
    BY <1>2, <1>3, <1>4, <1>5 DEF PageTypes
  <2>2. fetches' \subseteq Fetch
    BY <1>1 DEF PageTypes
  <2> QED BY <1>1, <2>1, <2>2 DEF PageTypes, heartVars
<1>7. Live("jobs")' \subseteq Live("jobs") /\ Live("calendar")' = Live("calendar")
  BY <1>1 DEF Live
<1>8. CalendarFollows'
  BY <1>1, <1>7 DEF Choices, CalendarFollows
<1>9. ListFollows' /\ PagesFollow'
  <2>1. CASE ~f.live
    BY <1>1, <1>5, <1>7, <2>1 DEF Choices, ListFollows, PagesFollow, ListOf
  <2>2. CASE f.live /\ list' = list /\ error' /\ amiss' = amiss \union {"failed"}
    BY <1>1, <1>4, <1>7, <2>2 DEF Choices, ListFollows, PagesFollow
  <2>3. CASE f.live /\ list' = new /\ ~error' /\ amiss' = amiss
    <3>1. f \in Live("jobs")
      BY <1>1, <2>3 DEF Live
    <3>2. new # Nothing
      BY <1>3, ListedIsSomething
    <3>3. ListFollows'
      <4>1. touched \intersect {"filters", "page"} = {} =>
              f.want = [filters |-> chosen.filters, page |-> chosen.page]
        BY <3>1 DEF Choices, ListFollows
      <4>2. touched \intersect {"filters", "page"} = {} =>
              new.filters = chosen.filters /\ new.page = chosen.page
        BY <1>3, <4>1
      <4> QED BY <1>1, <1>7, <2>3, <3>2, <4>2 DEF Choices, ListFollows, ListOf
    <3>4. PagesFollow'
      <4>1. "query" \notin touched => f.want.filters = chosen.filters
        BY <3>1 DEF Choices, PagesFollow
      <4>2. "query" \notin touched =>
              new.filters = chosen.filters /\ new.pages <= pages[chosen.filters]
        BY <1>3, <4>1
      <4> QED BY <1>1, <1>7, <2>3, <3>2, <4>2 DEF Choices, PagesFollow
    <3> QED BY <3>3, <3>4
  <2> QED BY <1>2, <1>4, <2>1, <2>2, <2>3
<1> QED BY <1>6, <1>8, <1>9 DEF Choices

LEMMA CalendarAnswerStep ==
  ASSUME PageTypes, Choices, NEW f \in fetches, CalendarAnswer(f)
  PROVE  PageTypes' /\ Choices'
<1>1. /\ UNCHANGED <<chosen, touched, due, list, loading, error, pages, amiss, happened,
                     heartVars>>
      /\ fetches' = fetches \ {f} /\ f.what = "calendar"
  BY DEF CalendarAnswer
<1>2. f \in Fetch /\ f.want \in Shown /\ f.live \in BOOLEAN
  BY <1>1 DEF PageTypes, Fetch
<1>3. PageTypes'
  <2>1. CASE f.live
    BY <1>1, <1>2, <2>1 DEF CalendarAnswer, PageTypes, heartVars
  <2>2. CASE ~f.live
    BY <1>1, <1>2, <2>2 DEF CalendarAnswer, PageTypes, heartVars
  <2> QED BY <2>1, <2>2
<1>4. Live("calendar")' \subseteq Live("calendar") /\ Live("jobs")' = Live("jobs")
  BY <1>1 DEF Live
<1>5. ListFollows' /\ PagesFollow'
  BY <1>1, <1>4 DEF Choices, ListFollows, ListOf, PagesFollow
<1>6. CalendarFollows'
  <2>1. CASE f.live
    <3>1. f \in Live("calendar")
      BY <1>1, <2>1 DEF Live
    <3>2. \/ calendar' = f.want
          \/ calendarError' = TRUE
      BY <2>1 DEF CalendarAnswer
    <3> QED BY <1>1, <1>4, <3>1, <3>2 DEF Choices, CalendarFollows
  <2>2. CASE ~f.live
    <3>1. UNCHANGED <<calendar, calendarError>> /\ Live("calendar")' = Live("calendar")
      BY <1>1, <2>2 DEF CalendarAnswer, Live
    <3> QED BY <1>1, <3>1 DEF Choices, CalendarFollows
  <2> QED BY <2>1, <2>2
<1> QED BY <1>3, <1>5, <1>6 DEF Choices

LEMMA RenderStep ==
  ASSUME PageTypes, Choices, Render
  PROVE  PageTypes' /\ Choices'
<1> DEFINE jobs   == touched \intersect {"filters", "page"} # {}
           days   == touched \intersect {"filters", "month"} # {}
           page   == IF "query" \in touched THEN 1 ELSE chosen.page
           asked  == [what |-> "jobs", live |-> TRUE,
                      want |-> [filters |-> chosen.filters, page |-> chosen.page]]
           turned == [what |-> "calendar", live |-> TRUE,
                      want |-> [filters |-> chosen.filters, month |-> chosen.month]]
           Old(what) == {f \in Ignored(what) : f.what = what}
<1>1. /\ fetches' = (IF jobs THEN Old("jobs") \union {asked}
                             ELSE {f \in fetches : f.what = "jobs"})
                    \union (IF days THEN Old("calendar") \union {turned}
                                    ELSE {f \in fetches : f.what = "calendar"})
      /\ due' = (due \/ jobs)
      /\ chosen' = [chosen EXCEPT !.page = page]
      /\ touched' = IF page # chosen.page THEN {"page"} ELSE {}
      /\ amiss' = IF "query" \in touched THEN {} ELSE amiss
      /\ UNCHANGED <<list, loading, error, calendar, calendarError, pages, happened, heartVars>>
  BY DEF Render, PageAfter
<1>2. page \in Nat \ {0}
  BY DEF PageTypes, Chosen
<1>3. /\ chosen' \in Chosen /\ chosen'.page = page
      /\ chosen'.filters = chosen.filters /\ chosen'.month = chosen.month
  BY <1>1, <1>2 DEF PageTypes, Chosen
<1>4. \A f \in Old("jobs") \union Old("calendar") : f \in Fetch /\ ~f.live
  BY DEF Ignored, PageTypes, Fetch
<1>5. asked \in Fetch /\ turned \in Fetch
  BY DEF PageTypes, Chosen, Fetch, Wanted, Shown
<1>6. PageTypes'
  <2>1. fetches' \subseteq Fetch
    BY <1>1, <1>4, <1>5 DEF PageTypes
  <2>2. due' \in BOOLEAN /\ touched' \subseteq {"filters", "query", "page", "month"}
    BY <1>1 DEF PageTypes
  <2>3. amiss' \subseteq {"failed", "fell"}
    BY <1>1 DEF PageTypes
  <2> QED BY <1>1, <1>3, <2>1, <2>2, <2>3 DEF PageTypes, heartVars
<1>7. /\ Live("jobs")' = IF jobs THEN {asked} ELSE Live("jobs")
      /\ Live("calendar")' = IF days THEN {turned} ELSE Live("calendar")
  <2>1. \A f \in Old("jobs") : f.what = "jobs"
    OBVIOUS
  <2>2. \A f \in Old("calendar") : f.what = "calendar"
    OBVIOUS
  <2> HIDE DEF Old
  <2> QED BY <1>1, <1>4, <2>1, <2>2 DEF Live
<1> HIDE DEF Old
<1>8. ~jobs => page = chosen.page
  BY DEF Choices, PagesFollow
<1>9. page = chosen.page => chosen' = chosen /\ touched' = {}
  BY <1>1 DEF PageTypes, Chosen
<1>10. asked.want = [filters |-> chosen.filters, page |-> chosen.page]
       /\ turned.want = [filters |-> chosen.filters, month |-> chosen.month]
  OBVIOUS
<1> HIDE DEF asked, turned, page
<1>11. ListFollows'
  <2>1. CASE ~jobs
    BY <1>1, <1>7, <1>8, <1>9, <2>1 DEF Choices, ListFollows, ListOf
  <2>2. CASE jobs /\ page = chosen.page
    BY <1>1, <1>7, <1>9, <1>10, <2>2 DEF ListFollows
  <2>3. CASE page # chosen.page
    BY <1>1, <2>3 DEF ListFollows
  <2> QED BY <2>1, <2>2, <2>3
<1>12. CalendarFollows'
  <2>1. CASE ~days
    <3>1. ~days => Live("calendar")' = Live("calendar")
      BY <1>7
    <3> QED BY <1>1, <1>3, <2>1, <3>1 DEF Choices, CalendarFollows
  <2>2. CASE days
    <3>1. Live("calendar")' = {turned}
      BY <1>7, <2>2
    <3> QED BY <1>3, <1>10, <3>1 DEF CalendarFollows
  <2> QED BY <2>1, <2>2
<1>13. PagesFollow'
  <2>1. "query" \in touched => jobs
    BY DEF Choices, PagesFollow
  <2>2. "query" \notin touched'
    BY <1>1
  <2>3. \A f \in Live("jobs")' : f.want.filters = chosen'.filters
    <3>1. CASE jobs
      BY <1>3, <1>7, <1>10, <3>1
    <3>2. CASE ~jobs
      BY <1>3, <1>7, <2>1, <3>2 DEF Choices, PagesFollow
    <3> QED BY <3>1, <3>2
  <2>4. ~due' /\ ~loading' =>
          /\ error' => "failed" \in amiss'
          /\ ~error' => /\ list' # Nothing /\ list'.filters = chosen'.filters
                        /\ "fell" \notin amiss' => list'.pages <= pages'[chosen'.filters]
    BY <1>1, <1>3, <2>1 DEF Choices, PagesFollow
  <2>5. amiss' = {} => chosen'.page = 1 \/ chosen'.page <= pages'[chosen'.filters]
    <3>1. CASE "query" \in touched
      BY <1>3, <3>1 DEF page
    <3>2. CASE "query" \notin touched
      BY <1>1, <1>3, <3>2 DEF page, Choices, PagesFollow
    <3> QED BY <3>1, <3>2
  <2> QED BY <2>2, <2>3, <2>4, <2>5 DEF PagesFollow
<1> QED BY <1>6, <1>11, <1>12, <1>13 DEF Choices

-----------------------------------------------------------------------------
(* Hearts: the bookmarks of the user                                       *)

LEMMA BootSteps ==
  ASSUME PageTypes, HeartsFollow, BootUser \/ BootServe \/ BootAnswer
  PROVE  PageTypes' /\ HeartsFollow'
<1>1. UNCHANGED <<chosenVars, bookmark, toggle, happened>>
  BY DEF BootUser, BootServe, BootAnswer
<1>2. CASE BootUser
  <2>1. UNCHANGED <<hearts, marred>> /\ boot' \in Boot /\ boot'.pc \in {"asked", "done"}
        /\ (boot'.pc = "asked" <=> boot'.seeker)
    <3>1. boot \in Boot /\ ~boot.seeker
      BY <1>2 DEF BootUser, PageTypes, HeartsFollow
    <3>2. \/ boot' = [boot EXCEPT !.pc = "asked", !.seeker = TRUE]
          \/ boot' = [boot EXCEPT !.pc = "done"]
      BY <1>2 DEF BootUser
    <3>3. UNCHANGED <<hearts, marred>>
      BY <1>2 DEF BootUser
    <3> QED BY <3>1, <3>2, <3>3 DEF Boot
  <2>2. PageTypes'
    BY <1>1, <2>1 DEF PageTypes, chosenVars
  <2>3. HeartsFollow'
    BY <1>1, <2>1 DEF HeartsFollow, Pending, Served
  <2> QED BY <2>2, <2>3
<1>3. CASE BootServe
  <2>1. /\ UNCHANGED <<hearts, marred>> /\ boot' \in Boot
        /\ boot'.pc = "answered" /\ boot'.saw = Bookmarked /\ boot'.seeker
    <3>1. boot \in Boot /\ boot.seeker /\ Bookmarked \subseteq Postings
      BY <1>3 DEF PageTypes, Bookmarked, HeartsFollow, BootServe
    <3>2. boot' = [boot EXCEPT !.pc = "answered", !.saw = Bookmarked] /\ UNCHANGED <<hearts, marred>>
      BY <1>3 DEF BootServe
    <3> QED BY <3>1, <3>2 DEF Boot
  <2>2. \A j \in Postings : j \in Lit' <=> bookmark[j].id # 0
    BY <2>1 DEF Lit, Bookmarked
  <2>3. PageTypes'
    BY <1>1, <2>1 DEF PageTypes, chosenVars
  <2>4. HeartsFollow'
    BY <1>1, <2>1, <2>2 DEF HeartsFollow, Pending, Served
  <2> QED BY <2>3, <2>4
<1>4. CASE BootAnswer
  <2>1. /\ boot' \in Boot /\ boot'.pc \in {"done", "failed"} /\ boot'.seeker = boot.seeker
        /\ hearts' \subseteq Postings /\ marred' = marred
        /\ \/ boot.pc = "answered" /\ hearts' = Lit
           \/ boot'.pc = "failed" /\ hearts' = hearts
    <3>1. boot \in Boot /\ hearts \subseteq Postings /\ marred' = marred
      BY <1>4 DEF BootAnswer, PageTypes
    <3>2. CASE boot.pc = "answered" /\ hearts' = boot.saw
               /\ boot' = [boot EXCEPT !.pc = "done", !.saw = {}]
      BY <3>1, <3>2 DEF Boot, Lit
    <3>3. CASE UNCHANGED hearts /\ boot' = [boot EXCEPT !.pc = "failed", !.saw = {}]
      BY <3>1, <3>3 DEF Boot
    <3> QED BY <1>4, <3>2, <3>3 DEF BootAnswer
  <2>2. PageTypes'
    BY <1>1, <2>1 DEF PageTypes, chosenVars
  <2>3. HeartsFollow'
    <3>1. CASE boot.pc = "answered" /\ hearts' = Lit
      <4>1. boot.seeker
        BY <3>1 DEF HeartsFollow
      <4>2. Lit' = Lit
        BY <2>1, <3>1 DEF Lit
      <4> QED BY <1>1, <2>1, <3>1, <4>1, <4>2 DEF HeartsFollow, Pending, Served
    <3>2. CASE boot'.pc = "failed" /\ hearts' = hearts
      BY <1>1, <2>1, <3>2 DEF HeartsFollow, Pending, Served
    <3> QED BY <2>1, <3>1, <3>2
  <2> QED BY <2>2, <2>3
<1> QED BY <1>2, <1>3, <1>4

LEMMA ElsewhereStep ==
  ASSUME PageTypes, HeartsFollow, NEW j \in Postings, Elsewhere(j)
  PROVE  PageTypes' /\ HeartsFollow'
<1>1. /\ UNCHANGED <<chosenVars, boot, hearts, toggle>>
      /\ marred' = marred \union {j}
      /\ happened < MaxEvents /\ happened' = happened + 1
  BY DEF Elsewhere
<1>2. /\ bookmark' \in [Postings -> [id : Nat, last : Nat]]
      /\ \A k \in Postings \ {j} : bookmark'[k] = bookmark[k]
  BY DEF Elsewhere, PageTypes
<1>3. PageTypes'
  BY <1>1, <1>2, JobsPageAssumption DEF PageTypes, chosenVars
<1>4. HeartsFollow'
  BY <1>1, <1>2 DEF HeartsFollow, Pending, Served, Lit
<1> QED BY <1>3, <1>4

LEMMA ClickStep ==
  ASSUME PageTypes, HeartsFollow, NEW t \in Toggles, Click(t)
  PROVE  PageTypes' /\ HeartsFollow'
<1>1. /\ UNCHANGED <<chosenVars, boot, hearts, bookmark>>
      /\ happened < MaxEvents /\ happened' = happened + 1
      /\ toggle[t].pc = "idle"
  BY DEF Click, Event
<1>2. PICK j \in Postings :
        /\ toggle' = [toggle EXCEPT ![t] =
             [NoToggle EXCEPT !.job = j, !.pc = IF j \in hearts THEN "lookup" ELSE "create"]]
        /\ marred' = IF \E u \in Pending : toggle[u].job = j THEN marred \union {j} ELSE marred
  BY DEF Click
<1>3. /\ toggle'[t] \in Toggle /\ toggle'[t].job = j
      /\ toggle'[t].pc \in {"lookup", "create"}
      /\ \A u \in Toggles \ {t} : toggle'[u] = toggle[u]
  BY <1>2 DEF PageTypes, NoToggle, Toggle
<1>4. toggle' \in [Toggles -> Toggle]
  BY <1>2, <1>3 DEF PageTypes
<1>5. PageTypes'
  BY <1>1, <1>2, <1>4, JobsPageAssumption DEF PageTypes, chosenVars
<1>6. /\ Pending' = Pending \union {t} /\ t \notin Pending
      /\ \A k : Served(k)' = Served(k) \ {t} /\ t \notin Served(k)
  BY <1>1, <1>3 DEF Pending, Served, Settled
<1>7. Lit' = Lit /\ marred \subseteq marred'
  BY <1>1, <1>2 DEF Lit
<1>8. \A u \in Pending : toggle[u].job = j => j \in marred'
  BY <1>2
<1>9. Pending \subseteq Toggles /\ \A k : Served(k) \subseteq Toggles
  BY DEF Pending, Served
<1>10. /\ \A u \in Toggles : toggle'[u].pc \in {"found", "delete"}
            => toggle'[u].bm[1] = toggle'[u].job
       /\ \A u \in Pending' : toggle'[u].job \in Postings
  BY <1>3, <1>6, <1>9 DEF HeartsFollow
<1>11. \A u, v \in Pending' : u # v /\ toggle'[u].job = toggle'[v].job => toggle'[u].job \in marred'
  BY <1>3, <1>6, <1>7, <1>8, <1>9 DEF HeartsFollow
<1>12. \A k \in Postings \ marred' : \A u \in Served(k)' :
         toggle'[u].pc = "created" <=> bookmark'[k].id # 0
  BY <1>1, <1>3, <1>6, <1>7, <1>9 DEF HeartsFollow
<1>13. boot'.seeker /\ boot'.pc \in {"answered", "done"} =>
         \A k \in Postings \ marred' :
           Served(k)' = {} => (k \in Lit' <=> bookmark'[k].id # 0)
  BY <1>1, <1>6, <1>7 DEF HeartsFollow
<1>14. \A k \in Postings \ marred' :
         Served(k)' = {} /\ k \in hearts' => bookmark'[k].id # 0
  BY <1>1, <1>6, <1>7 DEF HeartsFollow
<1> QED BY <1>1, <1>5, <1>10, <1>11, <1>12, <1>13, <1>14 DEF HeartsFollow

\* A click under way is the only one on its posting, unless that is marred.
LEMMA OnlyOne ==
  ASSUME HeartsFollow, NEW t \in Pending, toggle[t].job \notin marred
  PROVE  Served(toggle[t].job) = IF toggle[t].pc \in {"created", "deleted"} THEN {t} ELSE {}
<1>1. Served(toggle[t].job) \subseteq Pending /\ t \in Toggles
  BY DEF Served, Pending, Settled
<1>2. \A u \in Served(toggle[t].job) : u = t
  BY <1>1 DEF HeartsFollow, Served
<1> QED BY <1>1, <1>2 DEF Served

\* A step of a click that is under way, on posting j, to the local variables l.
LEMMA ToggleMoves ==
  ASSUME PageTypes, HeartsFollow, NEW t \in Pending, NEW j, NEW l \in Toggle,
         toggle[t].job = j, l.job = j, toggle' = [toggle EXCEPT ![t] = l],
         l.pc # "idle", l.pc \in {"found", "delete"} => l.bm[1] = j,
         marred \subseteq marred', boot' = boot,
         \A k \in Postings \ {j} : /\ bookmark'[k] = bookmark[k]
                                    /\ (k \in Lit' <=> k \in Lit) /\ (k \in hearts' <=> k \in hearts),
         j \notin marred' =>
           /\ l.pc = "created" => bookmark'[j].id # 0
           /\ l.pc = "deleted" => bookmark'[j].id = 0
           /\ boot.seeker /\ boot.pc \in {"answered", "done"} /\ l.pc \notin {"created", "deleted"}
                => (j \in Lit' <=> bookmark'[j].id # 0)
           /\ l.pc \notin {"created", "deleted"} /\ j \in hearts' => bookmark'[j].id # 0
  PROVE  toggle' \in [Toggles -> Toggle] /\ HeartsFollow'
<1>1. t \in Toggles
  BY DEF Pending
<1>2. toggle'[t] = l /\ \A u \in Toggles \ {t} : toggle'[u] = toggle[u]
  BY <1>1 DEF PageTypes
<1>3. toggle' \in [Toggles -> Toggle]
  BY <1>1, <1>2 DEF PageTypes
<1>4. Pending' \subseteq Pending /\ \A u \in Pending : toggle'[u].job = toggle[u].job
  BY <1>1, <1>2 DEF Pending
<1>5. \A u \in Toggles : toggle'[u].pc \in {"found", "delete"} => toggle'[u].bm[1] = toggle'[u].job
  BY <1>2 DEF HeartsFollow
<1>6. /\ \A u \in Pending' : toggle'[u].job \in Postings
      /\ \A u, v \in Pending' : u # v /\ toggle'[u].job = toggle'[v].job => toggle'[u].job \in marred'
  BY <1>4 DEF HeartsFollow
<1>7. \A k : k # j => Served(k)' = Served(k) /\ \A u \in Served(k) : toggle'[u] = toggle[u]
  BY <1>1, <1>2 DEF Served
<1>8. j \notin marred' => Served(j)' = IF l.pc \in {"created", "deleted"} THEN {t} ELSE {}
  <2>1. SUFFICES ASSUME j \notin marred', NEW u \in Toggles \ {t}
                 PROVE  ~(toggle'[u].job = j /\ toggle'[u].pc \in {"created", "deleted"})
    BY <1>1, <1>2 DEF Served
  <2>2. u \notin Served(toggle[t].job)
    BY <2>1, OnlyOne
  <2> QED BY <1>2, <2>1, <2>2 DEF Served
<1>9. \A k \in Postings \ marred' : \A u \in Served(k)' :
        toggle'[u].pc = "created" <=> bookmark'[k].id # 0
  <2>1. SUFFICES ASSUME NEW k \in Postings \ marred', NEW u \in Served(k)'
                 PROVE  toggle'[u].pc = "created" <=> bookmark'[k].id # 0
    OBVIOUS
  <2>2. CASE k = j
    BY <1>2, <1>8, <2>1, <2>2
  <2>3. CASE k # j
    BY <1>7, <2>1, <2>3 DEF HeartsFollow
  <2> QED BY <2>2, <2>3
<1>10. boot'.seeker /\ boot'.pc \in {"answered", "done"} =>
         \A k \in Postings \ marred' :
           Served(k)' = {} => (k \in Lit' <=> bookmark'[k].id # 0)
  <2>1. SUFFICES ASSUME boot.seeker, boot.pc \in {"answered", "done"},
                        NEW k \in Postings \ marred', Served(k)' = {}
                 PROVE  k \in Lit' <=> bookmark'[k].id # 0
    OBVIOUS
  <2>2. CASE k = j
    BY <1>8, <2>1, <2>2
  <2>3. CASE k # j
    BY <1>7, <2>1, <2>3 DEF HeartsFollow
  <2> QED BY <2>2, <2>3
<1>11. \A k \in Postings \ marred' :
         Served(k)' = {} /\ k \in hearts' => bookmark'[k].id # 0
  <2>1. SUFFICES ASSUME NEW k \in Postings \ marred', Served(k)' = {}, k \in hearts'
                 PROVE  bookmark'[k].id # 0
    OBVIOUS
  <2>2. CASE k = j
    BY <1>8, <2>1, <2>2
  <2>3. CASE k # j
    BY <1>7, <2>1, <2>3 DEF HeartsFollow
  <2> QED BY <2>2, <2>3
<1>12. /\ boot'.pc = "user" => ~boot'.seeker
       /\ boot'.pc \in {"asked", "answered"} => boot'.seeker
  BY DEF HeartsFollow
<1> QED BY <1>3, <1>5, <1>6, <1>9, <1>10, <1>11, <1>12 DEF HeartsFollow

\* Where a request of a click leads: what the server does to its bookmark.
LEMMA ServeEffect ==
  ASSUME PageTypes, HeartsFollow, NEW t \in Pending, NEW j \in Postings,
         toggle[t].job = j, Serve(t)
  PROVE  \E l \in Toggle :
           /\ toggle' = [toggle EXCEPT ![t] = l] /\ l.job = j /\ l.pc # "idle"
           /\ l.pc \in {"found", "delete"} => l.bm[1] = j
           /\ \/ l.pc = "created" /\ bookmark'[j].id # 0
              \/ l.pc = "deleted" /\ bookmark'[j].id = 0
              \/ l.pc \in {"done", "failed", "found"} /\ bookmark' = bookmark
           /\ bookmark' \in [Postings -> [id : Nat, last : Nat]]
           /\ \A k \in Postings \ {j} : bookmark'[k] = bookmark[k]
<1> DEFINE Goal(l) ==
      /\ toggle' = [toggle EXCEPT ![t] = l] /\ l.job = j /\ l.pc # "idle"
      /\ l.pc \in {"found", "delete"} => l.bm[1] = j
      /\ \/ l.pc = "created" /\ bookmark'[j].id # 0
         \/ l.pc = "deleted" /\ bookmark'[j].id = 0
         \/ l.pc \in {"done", "failed", "found"} /\ bookmark' = bookmark
      /\ bookmark' \in [Postings -> [id : Nat, last : Nat]]
      /\ \A k \in Postings \ {j} : bookmark'[k] = bookmark[k]
<1>1. t \in Toggles /\ toggle[t] \in Toggle
  BY DEF Pending, PageTypes
<1>2. \A pc \in {"created", "deleted", "done", "failed"} :
        LET l == [toggle[t] EXCEPT !.pc = pc]
        IN  l \in Toggle /\ l.job = j /\ l.pc = pc
            /\ (Turns(t, pc) => toggle' = [toggle EXCEPT ![t] = l])
  BY <1>1 DEF Toggle, Turns, PageTypes
<1>3. CASE toggle[t].pc = "create"
  <2>1. CASE bookmark[j].id = 0
    <3>1. /\ Turns(t, "created")
          /\ bookmark' = [bookmark EXCEPT ![j] = [id |-> @.last + 1, last |-> @.last + 1]]
      BY <1>3, <2>1 DEF Serve
    <3>2. bookmark[j] \in [id : Nat, last : Nat]
      BY DEF PageTypes
    <3>3. /\ bookmark' \in [Postings -> [id : Nat, last : Nat]] /\ bookmark'[j].id # 0
          /\ \A k \in Postings \ {j} : bookmark'[k] = bookmark[k]
      BY <3>1, <3>2 DEF PageTypes
    <3>4. Goal([toggle[t] EXCEPT !.pc = "created"])
      BY <1>2, <3>1, <3>3
    <3> QED BY <1>2, <3>4
  <2>2. CASE bookmark[j].id # 0
    <3>1. Turns(t, "failed") /\ bookmark' = bookmark
      BY <1>3, <2>2 DEF Serve
    <3>2. Goal([toggle[t] EXCEPT !.pc = "failed"])
      BY <1>2, <3>1 DEF PageTypes
    <3> QED BY <1>2, <3>2
  <2> QED BY <2>1, <2>2
<1>4. CASE toggle[t].pc = "lookup"
  <2>1. bookmark' = bookmark
    BY <1>4 DEF Serve
  <2>2. CASE Turns(t, "done")
    <3>1. Goal([toggle[t] EXCEPT !.pc = "done"])
      BY <1>2, <2>1, <2>2 DEF PageTypes
    <3> QED BY <1>2, <3>1
  <2>3. ASSUME NEW k \in Find(j),
               toggle' = [toggle EXCEPT ![t] = [pc |-> "found", job |-> j,
                                                bm |-> <<k, bookmark[k].id>>]]
        PROVE  \E l \in Toggle : Goal(l)
    <3>1. k = j /\ bookmark[k].id \in Nat
      BY DEF Find, PageTypes
    <3>2. [pc |-> "found", job |-> j, bm |-> <<k, bookmark[k].id>>] \in Toggle
      BY <3>1 DEF Toggle
    <3>3. Goal([pc |-> "found", job |-> j, bm |-> <<k, bookmark[k].id>>])
      BY <2>1, <2>3, <3>1 DEF PageTypes
    <3> QED BY <3>2, <3>3
  <2> QED BY <1>4, <2>2, <2>3 DEF Serve
<1>5. CASE toggle[t].pc = "delete"
  <2>1. toggle[t].bm[1] = j
    BY <1>1, <1>5 DEF HeartsFollow
  <2>2. CASE bookmark[j].id = toggle[t].bm[2]
    <3>1. bookmark' = [bookmark EXCEPT ![j].id = 0] /\ Turns(t, "deleted")
      BY <1>5, <2>1, <2>2 DEF Serve
    <3>2. /\ bookmark' \in [Postings -> [id : Nat, last : Nat]] /\ bookmark'[j].id = 0
          /\ \A k \in Postings \ {j} : bookmark'[k] = bookmark[k]
      BY <3>1 DEF PageTypes
    <3>3. Goal([toggle[t] EXCEPT !.pc = "deleted"])
      BY <1>2, <3>1, <3>2
    <3> QED BY <1>2, <3>3
  <2>3. CASE bookmark[j].id # toggle[t].bm[2]
    <3>1. bookmark' = bookmark /\ Turns(t, "failed")
      BY <1>5, <2>1, <2>3 DEF Serve
    <3>2. Goal([toggle[t] EXCEPT !.pc = "failed"])
      BY <1>2, <3>1 DEF PageTypes
    <3> QED BY <1>2, <3>2
  <2> QED BY <2>2, <2>3
<1> QED BY <1>3, <1>4, <1>5 DEF Serve

LEMMA ServeStep ==
  ASSUME PageTypes, HeartsFollow, NEW t \in Toggles, Serve(t)
  PROVE  PageTypes' /\ HeartsFollow'
<1>1. /\ UNCHANGED <<chosenVars, boot, hearts, marred, happened>>
      /\ toggle[t].pc \in {"create", "lookup", "delete"}
  BY DEF Serve
<1>2. t \in Pending
  BY <1>1 DEF Pending, Settled
<1>3. PICK j \in Postings : toggle[t].job = j
  BY <1>2 DEF HeartsFollow
<1>4. PICK l \in Toggle :
        /\ toggle' = [toggle EXCEPT ![t] = l] /\ l.job = j /\ l.pc # "idle"
        /\ l.pc \in {"found", "delete"} => l.bm[1] = j
        /\ \/ l.pc = "created" /\ bookmark'[j].id # 0
           \/ l.pc = "deleted" /\ bookmark'[j].id = 0
           \/ l.pc \in {"done", "failed", "found"} /\ bookmark' = bookmark
        /\ bookmark' \in [Postings -> [id : Nat, last : Nat]]
        /\ \A k \in Postings \ {j} : bookmark'[k] = bookmark[k]
  BY <1>2, <1>3, ServeEffect
<1>5. Lit' = Lit
  BY <1>1 DEF Lit
<1>6. j \notin marred =>
        /\ boot.seeker /\ boot.pc \in {"answered", "done"} => (j \in Lit <=> bookmark[j].id # 0)
        /\ j \in hearts => bookmark[j].id # 0
  BY <1>1, <1>2, <1>3, OnlyOne DEF HeartsFollow
<1>7. toggle' \in [Toggles -> Toggle] /\ HeartsFollow'
  BY <1>1, <1>2, <1>3, <1>4, <1>5, <1>6, ToggleMoves
<1>8. PageTypes'
  BY <1>1, <1>4, <1>7 DEF PageTypes, chosenVars
<1> QED BY <1>7, <1>8

LEMMA ReceiveStep ==
  ASSUME PageTypes, HeartsFollow, NEW t \in Toggles, Receive(t)
  PROVE  PageTypes' /\ HeartsFollow'
<1>1. /\ UNCHANGED <<chosenVars, boot, bookmark, happened>>
      /\ toggle[t].pc \in {"found", "created", "deleted"}
  BY DEF Receive
<1>2. t \in Pending /\ toggle[t] \in Toggle
  BY <1>1 DEF Pending, Settled, PageTypes
<1>3. PICK j \in Postings : toggle[t].job = j
  BY <1>2 DEF HeartsFollow
<1>4. \A pc \in {"delete", "done"} :
        LET l == [toggle[t] EXCEPT !.pc = pc]
        IN  l \in Toggle /\ l.job = j /\ l.pc = pc /\ l.bm = toggle[t].bm
            /\ (Turns(t, pc) => toggle' = [toggle EXCEPT ![t] = l])
  BY <1>2, <1>3 DEF Toggle, Turns, PageTypes
<1>5. CASE toggle[t].pc = "found"
  <2>1. Turns(t, "delete") /\ UNCHANGED <<hearts, marred>>
    BY <1>5 DEF Receive
  <2>2. Lit' = Lit
    BY <1>1, <2>1 DEF Lit
  <2>3. j \notin marred =>
          /\ boot.seeker /\ boot.pc \in {"answered", "done"} => (j \in Lit <=> bookmark[j].id # 0)
          /\ j \in hearts => bookmark[j].id # 0
    BY <1>2, <1>3, <1>5, OnlyOne DEF HeartsFollow
  <2>4. toggle[t].bm[1] = j
    BY <1>3, <1>5 DEF HeartsFollow
  <2>5. PICK l \in Toggle : /\ l.job = j /\ l.pc = "delete" /\ l.bm[1] = j
                            /\ toggle' = [toggle EXCEPT ![t] = l]
    <3>1. [toggle[t] EXCEPT !.pc = "delete"].bm[1] = j
      BY <1>4, <2>4
    <3> QED BY <1>4, <2>1, <3>1
  <2>6. toggle' \in [Toggles -> Toggle] /\ HeartsFollow'
    BY <1>1, <1>2, <1>3, <2>1, <2>2, <2>3, <2>5, ToggleMoves
  <2> QED BY <1>1, <2>1, <2>6 DEF PageTypes, chosenVars
<1>6. CASE toggle[t].pc \in {"created", "deleted"}
  <2>1. /\ Turns(t, "done")
        /\ hearts' = IF toggle[t].pc = "created" THEN hearts \union {j} ELSE hearts \ {j}
        /\ marred' = IF boot.pc = "answered" THEN marred \union {j} ELSE marred
    BY <1>3, <1>6 DEF Receive
  <2>2. hearts' \subseteq Postings /\ marred' \subseteq Postings
    BY <2>1 DEF PageTypes
  <2>3. j \notin marred => (toggle[t].pc = "created" <=> bookmark[j].id # 0)
    BY <1>2, <1>3, <1>6, OnlyOne DEF HeartsFollow
  <2>4. /\ \A k \in Postings \ {j} : (k \in Lit' <=> k \in Lit) /\ (k \in hearts' <=> k \in hearts)
        /\ j \in hearts' <=> toggle[t].pc = "created"
        /\ boot.pc = "done" => (j \in Lit' <=> toggle[t].pc = "created")
    BY <1>1, <1>6, <2>1 DEF Lit
  <2>5. PICK l \in Toggle : /\ l.job = j /\ l.pc = "done"
                            /\ toggle' = [toggle EXCEPT ![t] = l]
    BY <1>4, <2>1
  <2>6. toggle' \in [Toggles -> Toggle] /\ HeartsFollow'
    BY <1>1, <1>2, <1>3, <2>1, <2>3, <2>4, <2>5, ToggleMoves
  <2> QED BY <1>1, <2>2, <2>6 DEF PageTypes, chosenVars
<1> QED BY <1>1, <1>5, <1>6

LEMMA FailStep ==
  ASSUME PageTypes, HeartsFollow, NEW t \in Toggles, Fail(t)
  PROVE  PageTypes' /\ HeartsFollow'
<1>1. /\ UNCHANGED <<chosenVars, boot, hearts, bookmark, happened>>
      /\ t \in Pending /\ Turns(t, "failed") /\ toggle[t] \in Toggle
      /\ marred' = IF toggle[t].pc \in {"created", "deleted"} THEN marred \union {toggle[t].job}
                                                              ELSE marred
  BY DEF Fail, PageTypes
<1>2. PICK j \in Postings : toggle[t].job = j
  BY <1>1 DEF HeartsFollow
<1>3. PICK l \in Toggle : l.job = j /\ l.pc = "failed" /\ toggle' = [toggle EXCEPT ![t] = l]
  <2>1. /\ [toggle[t] EXCEPT !.pc = "failed"] \in Toggle
        /\ [toggle[t] EXCEPT !.pc = "failed"].job = j
        /\ [toggle[t] EXCEPT !.pc = "failed"].pc = "failed"
        /\ toggle' = [toggle EXCEPT ![t] = [toggle[t] EXCEPT !.pc = "failed"]]
    BY <1>1, <1>2 DEF Toggle, Turns, PageTypes
  <2> QED BY <2>1
<1>4. Lit' = Lit
  BY <1>1 DEF Lit
<1>5. j \notin marred' =>
        /\ boot.seeker /\ boot.pc \in {"answered", "done"} => (j \in Lit <=> bookmark[j].id # 0)
        /\ j \in hearts => bookmark[j].id # 0
  BY <1>1, <1>2, OnlyOne DEF HeartsFollow
<1>6. toggle' \in [Toggles -> Toggle] /\ HeartsFollow'
  BY <1>1, <1>2, <1>3, <1>4, <1>5, ToggleMoves
<1>7. marred' \subseteq Postings
  BY <1>1, <1>2 DEF PageTypes
<1> QED BY <1>1, <1>6, <1>7 DEF PageTypes, chosenVars

-----------------------------------------------------------------------------
LEMMA PageInvInitially == PageInit => PageInv
<1> SUFFICES ASSUME PageInit PROVE PageInv
  OBVIOUS
<1>1. /\ chosen \in [filters : Filters, page : {1}, month : Months]
      /\ chosen.page = 1
  BY JobsPageAssumption DEF PageInit
<1>2. toggle \in [Toggles -> {NoToggle}] /\ NoToggle \in Toggle
  BY DEF PageInit, NoToggle, Toggle
<1>3. bookmark \in [Postings -> [id : Nat, last : Nat]]
  BY DEF PageInit
<1>4. PageTypes
  <2>1. chosen \in Chosen
    BY <1>1 DEF Chosen
  <2>2. boot \in Boot
    BY DEF PageInit, Boot
  <2>3. toggle \in [Toggles -> Toggle]
    BY <1>2
  <2>4. happened \in 0..MaxEvents
    BY JobsPageAssumption DEF PageInit
  <2>5. pages \in [Filters -> Nat]
    BY JobsPageAssumption DEF PageInit
  <2> QED BY <1>3, <2>1, <2>2, <2>3, <2>4, <2>5 DEF PageInit, PageTypes
<1>5. ListFollows /\ CalendarFollows
  BY DEF PageInit, ListFollows, CalendarFollows
<1>6. PagesFollow
  BY <1>1 DEF PageInit, PagesFollow, Live
<1>7. HeartsFollow
  BY <1>2 DEF PageInit, HeartsFollow, NoToggle, Pending, Served
<1> QED BY <1>4, <1>5, <1>6, <1>7 DEF PageInv

LEMMA PageInvKept == PageInv /\ [PageNext]_pageVars => PageInv'
<1> SUFFICES ASSUME PageInv, [PageNext]_pageVars PROVE PageInv'
  OBVIOUS
<1>1. PageTypes /\ Choices /\ HeartsFollow
  BY DEF PageInv, Choices
<1>2. SUFFICES PageTypes' /\ Choices' /\ HeartsFollow'
  BY DEF PageInv, Choices
<1>3. CASE UNCHANGED pageVars
  BY <1>1, <1>3, ChoicesKept, HeartsKept DEF pageVars, PageTypes, chosenVars, heartVars
<1>4. ASSUME \/ \E f \in Filters : SetFilters(f)
             \/ SetPage
             \/ \E f \in Filters : JobsChange(f)
             \/ \E m \in Months : SetMonth(m)
             \/ Render \/ Microtask
             \/ \E f \in fetches : JobsAnswer(f) \/ CalendarAnswer(f)
      PROVE  PageTypes' /\ Choices' /\ HeartsFollow'
  <2>1. PageTypes' /\ Choices'
    BY <1>1, <1>4, SetFiltersStep, SetPageStep, JobsChangeStep, SetMonthStep, RenderStep,
       MicrotaskStep, JobsAnswerStep, CalendarAnswerStep
  <2>2. UNCHANGED heartVars
    BY <1>4 DEF SetFilters, SetPage, JobsChange, SetMonth, Render, Microtask, JobsAnswer, CalendarAnswer
  <2> QED BY <1>1, <2>1, <2>2, HeartsKept
<1>5. ASSUME \/ BootUser \/ BootServe \/ BootAnswer
             \/ \E t \in Toggles : Click(t) \/ Serve(t) \/ Receive(t) \/ Fail(t)
             \/ \E j \in Postings : Elsewhere(j)
      PROVE  PageTypes' /\ Choices' /\ HeartsFollow'
  <2>1. PageTypes' /\ HeartsFollow'
    BY <1>1, <1>5, BootSteps, ClickStep, ServeStep, ReceiveStep, FailStep, ElsewhereStep
  <2>2. UNCHANGED chosenVars
    BY <1>5 DEF BootUser, BootServe, BootAnswer, Click, Serve, Receive, Fail, Elsewhere
  <2> QED BY <1>1, <2>1, <2>2, ChoicesKept
<1> QED BY <1>3, <1>4, <1>5 DEF PageNext

LEMMA PageAlways == PageSpec => []PageInv
BY PageInvInitially, PageInvKept, PTL DEF PageSpec

\* What the page holds is of its kinds.
THEOREM PageKinds == PageSpec => []PageTypes
<1>1. PageInv => PageTypes
  BY DEF PageInv
<1> QED BY PageAlways, <1>1, PTL

\* In whatever order requests are answered, or fail, list and calendar are those
\* of what is chosen unless the page says otherwise.
THEOREM ListStaysCurrent == PageSpec => []ListIsCurrent
<1>1. PageInv => ListIsCurrent
  BY DEF PageInv, ListFollows, CalendarFollows, ListIsCurrent, Rendered, Live
<1> QED BY PageAlways, <1>1, PTL

\* Filters that change never leave the page on a number the server does not have,
\* unless, since they were chosen, a list failed to load or the pages became fewer.
THEOREM PagesExist == PageSpec => []PageExists
<1>1. PageInv => PageExists
  BY DEF PageInv, PagesFollow, PageExists, Rendered
<1> QED BY PageAlways, <1>1, PTL

\* However clicks on different hearts overlap, each heart at rest tells of the
\* bookmark on the server, and after the first list failed a lit one still does.
THEOREM HeartsTellTheTruth == PageSpec => []HeartsTrue
<1>1. PageInv => HeartsTrue
  <2>1. \A j : Served(j) \subseteq Pending
    BY DEF Served, Pending, Settled
  <2> QED BY <2>1 DEF PageInv, HeartsFollow, HeartsTrue, Lit, Served
<1> QED BY PageAlways, <1>1, PTL
=============================================================================
