-------------------------- MODULE CommunityProofs --------------------------
(***************************************************************************)
(* Theorems about Community, for any number of users, posts, answers and   *)
(* calls, however the calls overlap, are lost, or members come and go.     *)
(***************************************************************************)
EXTENDS Community, FiniteSetTheorems, TLAPS

-----------------------------------------------------------------------------
(* Kinds                                                                   *)

\* The rows and local states that actions start from.
LEMMA Kinds ==
  /\ Idle \in Call /\ Done \in Call
  /\ Idle.pc = "idle" /\ Done.pc = "done" /\ Done.work = "idle"
  /\ \A u \in Users \union {None}, b \in Boards :
       /\ NewPost(u, b) \in PostRow
       /\ NewPost(u, b).author = u /\ NewPost(u, b).board = b
       /\ NewPost(u, b).accepted = None /\ NewPost(u, b).status # "ANSWERED"
       /\ NewPost(u, b).views = 0 /\ NewPost(u, b).likes = 0
  /\ \A u \in Users \union {None}, p \in Posts \union {None} :
       /\ NewAnswer(u, p) \in AnswerRow
       /\ NewAnswer(u, p).post = p /\ ~NewAnswer(u, p).accepted
       /\ NewAnswer(u, p).likes = 0
  BY DEF Idle, Done, Call, Pc, NewPost, PostRow, NewAnswer, AnswerRow, Boards

\* A call about to read, and one sent on to another statement.
LEMMA EntersKind ==
  ASSUME RowKinds, NEW c \in Calls, NEW work \in Work,
         NEW who \in Users \union Admins \union {None}, NEW p \in Posts,
         NEW a \in Answers \union {None}, NEW n \in Nat, Enters(c, work, who, p, a, n)
  PROVE  /\ call' \in [Calls -> Call]
         /\ call'[c].pc \in {"gate", work} /\ call'[c].work = work
         /\ call'[c].who = who /\ call'[c].post = p /\ call'[c].answer = a
         /\ post[p].board = "TRAINEE" => call'[c].pc = "gate"
  BY DEF RowKinds, Enters, Becomes, Idle, Call, Pc, Work

LEMMA GoesKind ==
  ASSUME RowKinds, NEW c \in Calls, NEW pc \in Pc, Goes(c, pc)
  PROVE  /\ call' \in [Calls -> Call]
         /\ call'[c].pc = pc /\ call'[c].work = call[c].work
         /\ call'[c].who = call[c].who /\ call'[c].post = call[c].post
         /\ call'[c].answer = call[c].answer /\ call'[c].rows = call[c].rows
  BY DEF RowKinds, Goes, Becomes, Call

LEMMA DoneKind ==
  ASSUME RowKinds, NEW c \in Calls, Becomes(c, Done)
  PROVE  call' \in [Calls -> Call] /\ call'[c] = Done
  BY Kinds DEF RowKinds, Becomes

\* The steps of a call that write no row.
Reads(c) == UNCHANGED <<post, answer, verified, admitted, late, log>>

\* A call that ends owes nothing.
LEMMA EndedCall ==
  ASSUME RowKinds, NEW c \in Calls, Becomes(c, Done)
  PROVE  Holds(c)' /\ LetIn(c)' /\ Clears(c)'
  BY DoneKind DEF Done, Idle, Holds, LetIn, Clears, Work

\* The first read, of a row that exists.
LEMMA EnteredCall ==
  ASSUME RowKinds, NEW c \in Calls, Reads(c), NEW work \in Work,
         NEW who \in Users \union Admins \union {None}, NEW p \in Written,
         NEW a \in Answers \union {None}, NEW n \in Nat, Enters(c, work, who, p, a, n),
         work = "insertAnswer" => who \in Users,
         work = "findAnswer" => a \in Answers,
         work = "likeAnswer" => a \in Answers /\ answer[a].post = p
  PROVE  /\ call' \in [Calls -> Call] /\ call'[c].pc # "accept"
         /\ Holds(c)' /\ LetIn(c)'
<1>1. /\ p \in Posts /\ Written' = Written /\ UNCHANGED <<post, answer, admitted>>
      /\ call'[c].pc # "insertPost"
  BY EntersKind DEF Written, Reads, Work
<1>2. /\ call' \in [Calls -> Call]
      /\ call'[c].pc \in {"gate", work} /\ call'[c].work = work
      /\ call'[c].who = who /\ call'[c].post = p /\ call'[c].answer = a
      /\ post[p].board = "TRAINEE" => call'[c].pc = "gate"
  BY <1>1, EntersKind
<1>3. Holds(c)'
  BY <1>1, <1>2 DEF Holds, Work
<1>4. LetIn(c)'
  BY <1>1, <1>2 DEF LetIn
<1>5. QED
  BY <1>2, <1>3, <1>4 DEF Work

\* A call that reads holds on to what it read, and is past the gate only if let in.
LEMMA ReadCall ==
  ASSUME RowKinds, Blank, verified \subseteq admitted, NEW c \in Calls, Holds(c), LetIn(c),
         \/ CreatePostGate(c) \/ FindPost(c) \/ FindLiked(c) \/ Gate(c)
         \/ FindAnswer(c) \/ Clear(c) \/ Reread(c) \/ Lose(c)
  PROVE  /\ Reads(c) /\ call[c].pc # "done" /\ call' \in [Calls -> Call]
         /\ Holds(c)' /\ LetIn(c)' /\ Clears(c)'
<1>0. /\ call \in [Calls -> Call] /\ call[c] \in Call
      /\ post \in [Posts -> PostRow] /\ answer \in [Answers -> AnswerRow]
  BY DEF RowKinds
<1>1. CASE CreatePostGate(c)
  <2>1. PICK u \in Users :
          Granted(u) /\ Becomes(c, [Idle EXCEPT !.pc = "insertPost", !.who = u])
    BY <1>1 DEF CreatePostGate
  <2>2. /\ call' \in [Calls -> Call] /\ call'[c].pc = "insertPost"
        /\ call'[c].who = u /\ call'[c].work = "idle"
    BY <1>0, <2>1 DEF Becomes, Idle, Call, Pc
  <2>3. u \in admitted' \union Admins
    BY <1>1, <2>1 DEF CreatePostGate, Granted
  <2>4. QED
    BY <1>1, <2>1, <2>2, <2>3 DEF CreatePostGate, Starts, Reads, Holds, LetIn, Clears, Work
<1>2. CASE FindPost(c)
  <2>1. Reads(c) /\ call[c].pc = "idle"
    BY <1>2 DEF FindPost, Reads, Starts
  <2>2. PICK p \in Written :
          \/ \E u \in Users : Enters(c, "insertAnswer", u, p, None, 0)
          \/ \E u \in Users : Enters(c, "likePost", u, p, None, post[p].likes)
          \/ \E w \in Users \union Admins \union {None} :
               Enters(c, "view", w, p, None, post[p].views)
          \/ \E u \in Users, a \in Answers : Enters(c, "findAnswer", u, p, a, 0)
    BY <1>2 DEF FindPost
  <2>3. post[p].likes \in Nat /\ post[p].views \in Nat
    BY <1>0, <2>2 DEF Written, PostRow
  <2>4. PICK work \in Work, w \in Users \union Admins \union {None},
             a \in Answers \union {None}, n \in Nat :
          /\ Enters(c, work, w, p, a, n)
          /\ work = "insertAnswer" => w \in Users
          /\ work = "findAnswer" => a \in Answers
          /\ work # "likeAnswer"
    BY <2>2, <2>3 DEF Work
  <2>5. /\ call' \in [Calls -> Call] /\ call'[c].pc # "accept"
        /\ Holds(c)' /\ LetIn(c)'
    BY <2>1, <2>4, EnteredCall
  <2>6. QED
    BY <2>1, <2>5 DEF Clears
<1>3. CASE FindLiked(c)
  <2>1. Reads(c) /\ call[c].pc = "idle"
    BY <1>3 DEF FindLiked, Reads, Starts
  <2>2. PICK u \in Users, a \in Given :
          Enters(c, "likeAnswer", u, answer[a].post, a, answer[a].likes)
    BY <1>3 DEF FindLiked
  <2>3. answer[a].post \in Written /\ answer[a].likes \in Nat /\ a \in Answers
    BY <1>0, <2>2 DEF Blank, Given, AnswerRow
  <2>4. "likeAnswer" \in Work
    BY DEF Work
  <2>5. /\ call' \in [Calls -> Call] /\ call'[c].pc # "accept"
        /\ Holds(c)' /\ LetIn(c)'
    BY <2>1, <2>2, <2>3, <2>4, EnteredCall
  <2>6. QED
    BY <2>1, <2>5 DEF Clears
<1>4. CASE Gate(c)
  <2>1. Reads(c) /\ call[c].pc = "gate"
    BY <1>4 DEF Gate, Reads, At
  <2>2. CASE Becomes(c, Done)
    BY <2>1, <2>2, EndedCall, DoneKind
  <2>3. CASE ~Becomes(c, Done)
    <3>1. Granted(call[c].who) /\ Goes(c, call[c].work) /\ call[c].work \in Work
      BY <1>4, <2>1, <2>3 DEF Gate, Holds
    <3>2. call[c].work \in Pc
      BY <3>1 DEF Work, Pc
    <3>3. /\ call' \in [Calls -> Call]
          /\ call'[c].pc = call[c].work /\ call'[c].work = call[c].work
          /\ call'[c].who = call[c].who /\ call'[c].post = call[c].post
          /\ call'[c].answer = call[c].answer
      BY <3>1, <3>2, GoesKind
    <3>4. Written' = Written /\ UNCHANGED <<post, answer, admitted, verified>>
      BY <2>1 DEF Written, Reads
    <3>5. Holds(c)'
      BY <2>1, <3>1, <3>3, <3>4 DEF Holds, Work
    <3>6. LetIn(c)' /\ Clears(c)'
      BY <3>1, <3>3, <3>4 DEF LetIn, Clears, Work, Granted
    <3>7. QED
      BY <2>1, <3>3, <3>5, <3>6
  <2>4. QED
    BY <2>2, <2>3
<1>5. CASE FindAnswer(c)
  <2>1. Reads(c) /\ call[c].pc = "findAnswer"
    BY <1>5 DEF FindAnswer, Reads, At
  <2>2. CASE Becomes(c, Done)
    BY <2>1, <2>2, EndedCall, DoneKind
  <2>3. CASE ~Becomes(c, Done)
    <3>1. answer[call[c].answer].post = call[c].post /\ Goes(c, "clear")
      BY <1>5, <2>3 DEF FindAnswer
    <3>2. /\ call' \in [Calls -> Call]
          /\ call'[c].pc = "clear" /\ call'[c].work = call[c].work
          /\ call'[c].who = call[c].who /\ call'[c].post = call[c].post
          /\ call'[c].answer = call[c].answer
      BY <3>1, GoesKind DEF Pc
    <3>3. Written' = Written /\ UNCHANGED <<post, answer, admitted>>
      BY <2>1 DEF Written, Reads
    <3>4. Holds(c)' /\ LetIn(c)' /\ Clears(c)'
      BY <2>1, <3>1, <3>2, <3>3 DEF Holds, LetIn, Clears, Work
    <3>5. QED
      BY <2>1, <3>2, <3>4
  <2>4. QED
    BY <2>2, <2>3
<1>6. CASE Clear(c)
  <2>1. Reads(c) /\ call[c].pc = "clear"
    BY <1>6 DEF Clear, Reads, At
  <2>2. ToClear(call[c].post) \subseteq Answers
    BY DEF ToClear
  <2>3. /\ call' \in [Calls -> Call]
        /\ call'[c].pc = "accept" /\ call'[c].work = call[c].work
        /\ call'[c].who = call[c].who /\ call'[c].post = call[c].post
        /\ call'[c].answer = call[c].answer /\ call'[c].rows = ToClear(call[c].post)
    BY <1>0, <1>6, <2>2 DEF Clear, Becomes, Call, Pc
  <2>4. Written' = Written /\ UNCHANGED <<post, answer, admitted>>
    BY <2>1 DEF Written, Reads
  <2>5. Holds(c)' /\ LetIn(c)' /\ Clears(c)'
    BY <2>1, <2>3, <2>4 DEF Holds, LetIn, Clears, ToClear, Work
  <2>6. QED
    BY <2>1, <2>3, <2>5
<1>7. CASE Reread(c)
  <2> DEFINE p == call[c].post
             n == post[p].views
             w == call[c].who
  <2>1. Reads(c) /\ call[c].pc = "reread" /\ p \in Written
    BY <1>7 DEF Reread, Reads, At, Holds
  <2>2. Enters(c, "view", w, p, None, n) /\ n \in Nat
        /\ w \in Users \union Admins \union {None} /\ "view" \in Work
    BY <1>0, <1>7, <2>1 DEF Reread, Written, PostRow, Call, Work
  <2> HIDE DEF p, n, w
  <2>3. /\ call' \in [Calls -> Call] /\ call'[c].pc # "accept"
        /\ Holds(c)' /\ LetIn(c)'
    BY <2>1, <2>2, EnteredCall
  <2>4. QED
    BY <2>1, <2>3 DEF Clears
<1>8. CASE Lose(c)
  BY <1>8, EndedCall, DoneKind DEF Lose, InFlight, Reads
<1>9. QED
  BY <1>1, <1>2, <1>3, <1>4, <1>5, <1>6, <1>7, <1>8

-----------------------------------------------------------------------------
(* Writes                                                                  *)

\* What every step keeps: rows stay, on their boards and posts, and an answer
\* that comes while another is being accepted is late.
Kept(c) ==
  /\ \A p \in Written : p \in Written' /\ post'[p].board = post[p].board
  /\ \A a \in Given : a \in Given' /\ answer'[a].post = answer[a].post
  /\ \A d \in Calls \ {c} : call'[d] = call[d]
  /\ verified' \subseteq admitted' /\ admitted \subseteq admitted'
  /\ late \subseteq late' /\ log \subseteq log'
  /\ \A a \in Given' \ Given, d \in Calls :
       At(d, "accept") /\ call[d].post = answer'[a].post => a \in late'

\* A step that reads keeps everything.
LEMMA ReadKeeps ==
  ASSUME RowKinds, verified \subseteq admitted, NEW c \in Calls, Reads(c),
         NEW l, Becomes(c, l)
  PROVE  Kept(c)
  BY DEF RowKinds, Becomes, Kept, Reads, Written, Given

\* A post is written.
Posted(c, p, u, b) ==
  /\ post' = [post EXCEPT ![p] = NewPost(u, b)]
  /\ Commits(c, u, "post", p, p)
  /\ Becomes(c, Done)
  /\ UNCHANGED <<answer, verified, admitted, late>>

LEMMA PostedIs ==
  ASSUME RowKinds, Blank, verified \subseteq admitted, NEW c \in Calls,
         NEW p \in Posts \ Written, NEW u \in Users, NEW b \in Boards, Posted(c, p, u, b)
  PROVE  /\ RowKinds' /\ Blank' /\ Kept(c)
         /\ Written' = Written \union {p} /\ Given' = Given
         /\ post'[p] = NewPost(u, b)
         /\ \A q \in Posts \ {p} : post'[q] = post[q]
<1>1. /\ post \in [Posts -> PostRow] /\ NewPost(u, b) \in PostRow
      /\ NewPost(u, b).author = u /\ u # None
  BY Kinds, CommunityAssumption DEF RowKinds
<1>2. /\ post' \in [Posts -> PostRow] /\ post'[p] = NewPost(u, b)
      /\ \A q \in Posts \ {p} : post'[q] = post[q]
  BY <1>1 DEF Posted
<1>3. Written' = Written \union {p} /\ Given' = Given
  BY <1>1, <1>2 DEF Written, Given, Posted
<1>4. log' \subseteq LogEntry
  BY DEF RowKinds, Posted, Commits, LogEntry
<1>5. RowKinds'
  BY <1>2, <1>4, DoneKind DEF RowKinds, Posted
<1>6. Blank'
  BY <1>2, <1>3 DEF Blank, Posted
<1>7. Kept(c)
  BY <1>2, <1>3 DEF Kept, Posted, Becomes, RowKinds, Commits
<1>8. QED
  BY <1>2, <1>3, <1>5, <1>6, <1>7

\* The row of a post changes, but not its author or board.
LEMMA PostChanged ==
  ASSUME RowKinds, Blank, verified \subseteq admitted, NEW c \in Calls,
         NEW p \in Written, NEW row \in PostRow, NEW l \in Call,
         row.author = post[p].author, row.board = post[p].board,
         post' = [post EXCEPT ![p] = row], Becomes(c, l),
         log \subseteq log', log' \subseteq LogEntry,
         UNCHANGED <<answer, verified, admitted, late>>
  PROVE  /\ RowKinds' /\ Blank' /\ Kept(c)
         /\ Written' = Written /\ Given' = Given
         /\ post'[p] = row /\ \A q \in Posts \ {p} : post'[q] = post[q]
<1>1. post \in [Posts -> PostRow] /\ p \in Posts
  BY DEF RowKinds, Written
<1>2. /\ post' \in [Posts -> PostRow] /\ post'[p] = row
      /\ \A q \in Posts \ {p} : post'[q] = post[q]
  BY <1>1
<1>3. Written' = Written /\ Given' = Given
  BY <1>2 DEF Written, Given
<1>4. RowKinds'
  BY <1>2 DEF RowKinds, Becomes
<1>5. Blank' /\ Kept(c)
  BY <1>2, <1>3 DEF Blank, Kept, Becomes, RowKinds
<1>6. QED
  BY <1>2, <1>3, <1>4, <1>5

\* An answer is written.
LEMMA Answered ==
  ASSUME RowKinds, Blank, verified \subseteq admitted, NEW c \in Calls, Holds(c),
         InsertAnswer(c)
  PROVE  /\ RowKinds' /\ Blank' /\ Kept(c) /\ Written' = Written
         /\ \E a \in Answers \ Given :
              /\ Commits(c, call[c].who, "answer", call[c].post, a)
              /\ Given' = Given \union {a} /\ answer'[a].likes = 0 /\ ~answer'[a].accepted
              /\ \A b \in Answers \ {a} : answer'[b] = answer[b]
<1> DEFINE u == call[c].who
           p == call[c].post
<1>1. /\ p \in Written /\ p \in Posts /\ p # None /\ u \in Users
      /\ u \in Users \union {None} /\ p \in Posts \union {None}
  BY CommunityAssumption DEF InsertAnswer, At, Holds, Written, Work
<1>2. PICK a \in Answers \ Given :
        /\ answer' = [answer EXCEPT ![a] = NewAnswer(u, p)]
        /\ Commits(c, u, "answer", p, a)
        /\ late' = late \union {b \in {a} : \E d \in Calls : At(d, "accept") /\ call[d].post = p}
  BY DEF InsertAnswer
<1>3. /\ NewAnswer(u, p) \in AnswerRow
      /\ NewAnswer(u, p).post = p /\ ~NewAnswer(u, p).accepted
      /\ NewAnswer(u, p).likes = 0
  BY <1>1, Kinds
<1>4. UNCHANGED <<post, verified, admitted>> /\ Becomes(c, Done)
  BY DEF InsertAnswer
<1> HIDE DEF u
<1>5. /\ answer' \in [Answers -> AnswerRow] /\ answer'[a] = NewAnswer(u, p)
      /\ \A b \in Answers \ {a} : answer'[b] = answer[b]
  BY <1>2, <1>3 DEF RowKinds
<1>6. Written' = Written /\ Given' = Given \union {a}
  BY <1>1, <1>2, <1>3, <1>4, <1>5 DEF Written, Given
<1>7. log' \subseteq LogEntry
  BY <1>1, <1>2 DEF RowKinds, Commits, LogEntry
<1>8. RowKinds'
  BY <1>2, <1>4, <1>5, <1>7, DoneKind DEF RowKinds
<1>9. Blank'
  <2>1. \A q \in Posts \ Written' : post'[q] = NoPost
    BY <1>4, <1>6 DEF Blank
  <2>2. \A b \in Answers \ Given' : answer'[b] = NoAnswer
    BY <1>5, <1>6 DEF Blank
  <2>3. ASSUME NEW b \in Given'
        PROVE  answer'[b].post \in Written'
    <3>1. CASE b = a
      BY <1>1, <1>3, <1>5, <1>6, <3>1
    <3>2. CASE b # a
      BY <1>5, <1>6, <2>3, <3>2 DEF Blank, Given
    <3>3. QED
      BY <3>1, <3>2
  <2>4. QED
    BY <2>1, <2>2, <2>3 DEF Blank
<1>10. Kept(c)
  BY <1>2, <1>3, <1>4, <1>5, <1>6 DEF Kept, Becomes, RowKinds, Commits
<1>11. QED
  BY <1>2, <1>3, <1>5, <1>6, <1>8, <1>9, <1>10 DEF u

\* The rows of answers change, but not their posts.
LEMMA AnswersChanged ==
  ASSUME RowKinds, Blank, verified \subseteq admitted, NEW c \in Calls, NEW l \in Call,
         answer' \in [Answers -> AnswerRow],
         \A a \in Answers : answer'[a].post = answer[a].post,
         \A a \in Answers \ Given : answer'[a] = answer[a],
         post' \in [Posts -> PostRow],
         \A p \in Posts : post'[p].author = post[p].author /\ post'[p].board = post[p].board,
         \A p \in Posts \ Written : post'[p] = post[p],
         Becomes(c, l), log \subseteq log', log' \subseteq LogEntry,
         UNCHANGED <<verified, admitted, late>>
  PROVE  /\ RowKinds' /\ Blank' /\ Kept(c)
         /\ Written' = Written /\ Given' = Given
<1>1. Written' = Written /\ Given' = Given
  BY DEF Written, Given
<1>2. RowKinds'
  BY DEF RowKinds, Becomes
<1>3. Blank'
  BY <1>1 DEF Blank, Given
<1>4. Kept(c)
  BY <1>1 DEF Kept, Becomes, RowKinds, Written, Given
<1>5. QED
  BY <1>1, <1>2, <1>3, <1>4

-----------------------------------------------------------------------------
(* What a step leaves true of the other calls and of the log               *)

\* The other calls hold what they held.
LEMMA OtherCalls ==
  ASSUME RowKinds, NEW c \in Calls, Kept(c), NEW d \in Calls, d # c,
         Holds(d), LetIn(d), Clears(d)
  PROVE  Holds(d)' /\ LetIn(d)' /\ Clears(d)'
<1> DEFINE l == call[d]
<1>1. /\ call'[d] = l /\ l \in Call /\ Written \subseteq Posts /\ None \notin Posts
      /\ Written \subseteq Written' /\ Given \subseteq Given'
  BY CommunityAssumption DEF Kept, RowKinds, Written
<1>2. ASSUME l.answer \in Answers, answer[l.answer].post = l.post, l.post \in Written
      PROVE  answer'[l.answer].post = l.post
  BY <1>1, <1>2 DEF Kept, Given
<1>3. Holds(d)'
  BY <1>1, <1>2 DEF Holds, Work
<1>4. LetIn(d)'
  BY <1>1 DEF LetIn, Holds, Kept
<1>5. ASSUME l.pc = "accept"
      PROVE  /\ l.rows \subseteq ToClear(l.post)'
             /\ ToClear(l.post)' \ late' \subseteq l.rows
  <2>1. l.post \in Written /\ l.post # None
    BY <1>1, <1>5 DEF Holds
  <2>2. l.rows \subseteq ToClear(l.post)'
    BY <1>1, <1>5, <2>1 DEF Clears, ToClear, Kept, Given
  <2>3. ASSUME NEW a \in Answers, answer'[a].post = l.post, a \notin late'
        PROVE  a \in l.rows
    <3>1. a \in Given' /\ a \notin late
      BY <2>1, <2>3 DEF Given, Kept
    <3>2. a \in Given
      BY <1>5, <2>3, <3>1 DEF Kept, At
    <3>3. answer[a].post = l.post
      BY <2>3, <3>2 DEF Kept
    <3>4. QED
      BY <1>5, <3>1, <3>3 DEF Clears, ToClear
  <2>4. QED
    BY <2>2, <2>3, <1>1 DEF ToClear
<1>6. Clears(d)'
  BY <1>1, <1>5 DEF Clears, ToClear
<1>7. QED
  BY <1>3, <1>4, <1>6

\* The log entries of one kind on one row.
Noted(k, o) == {w \in log : w.what = k /\ w.on = o}

\* A step of a call that has not ended logs at most one thing, of somebody let in.
LEMMA LogGrows ==
  ASSUME RowKinds, LogSound, TraineeBoardGuarded, NEW c \in Calls, Kept(c),
         call[c].pc # "done", NEW who, NEW what, NEW p, NEW row,
         Commits(c, who, what, p, row),
         p \in Written',
         what \in {"likePost", "view"} => row \in Written',
         what = "likeAnswer" => row \in Given',
         what \in Counted => call'[c].pc = "done",
         post'[p].board = "TRAINEE" => who \in admitted' \union Admins
  PROVE  /\ LogSound' /\ TraineeBoardGuarded'
         /\ \A k \in Counted, o \in Posts \union Answers :
              /\ Cardinality(Noted(k, o)) \in Nat
              /\ Cardinality(Noted(k, o)') = IF k = what /\ o = row
                   THEN Cardinality(Noted(k, o)) + 1 ELSE Cardinality(Noted(k, o))
<1> DEFINE e == [by |-> c, who |-> who, what |-> what, post |-> p, on |-> row]
<1>1. /\ log' = log \union {e}
      /\ e.by = c /\ e.who = who /\ e.what = what /\ e.post = p /\ e.on = row
  BY DEF Commits
<1>2. IsFiniteSet(log) /\ IsFiniteSet(log')
  BY <1>1, FS_AddElement DEF LogSound
<1> HIDE DEF e
<1>3. ASSUME NEW w \in log, w.what \in Counted
      PROVE  w.by # c /\ call'[w.by].pc = "done"
  BY <1>3 DEF LogSound, Kept, RowKinds, LogEntry
<1>4. LogSound'
  <2>1. ASSUME NEW w \in log
        PROVE  /\ w.post \in Written'
               /\ w.what \in {"likePost", "view"} => w.on \in Written'
               /\ w.what = "likeAnswer" => w.on \in Given'
               /\ w.what \in Counted => call'[w.by].pc = "done"
    BY <1>3 DEF LogSound, Kept
  <2>2. QED
    BY <1>1, <1>2, <2>1 DEF LogSound
<1>5. TraineeBoardGuarded'
  <2>1. ASSUME NEW w \in log, post'[w.post].board = "TRAINEE"
        PROVE  w.who \in admitted' \union Admins
    BY <2>1 DEF LogSound, Kept, TraineeBoardGuarded
  <2>2. QED
    BY <1>1, <2>1 DEF TraineeBoardGuarded
<1>6. ASSUME NEW k \in Counted, NEW o \in Posts \union Answers
      PROVE  /\ Cardinality(Noted(k, o)) \in Nat
             /\ Cardinality(Noted(k, o)') = IF k = what /\ o = row
                  THEN Cardinality(Noted(k, o)) + 1 ELSE Cardinality(Noted(k, o))
  <2>1. IsFiniteSet(Noted(k, o)) /\ Cardinality(Noted(k, o)) \in Nat
    <3>1. Noted(k, o) \subseteq log
      BY DEF Noted
    <3>2. QED
      BY <1>2, <3>1, FS_Subset, FS_CardinalityType
  <2>2. CASE k = what /\ o = row
    <3>1. e \notin Noted(k, o)
      BY <1>1, <1>3, <2>2 DEF Noted
    <3>2. Noted(k, o)' = Noted(k, o) \union {e}
      BY <1>1, <2>2 DEF Noted
    <3>3. Cardinality(Noted(k, o) \union {e}) = Cardinality(Noted(k, o)) + 1
      BY <2>1, <3>1, FS_AddElement
    <3>4. QED
      BY <2>1, <2>2, <3>2, <3>3
  <2>3. CASE ~(k = what /\ o = row)
    <3>1. Noted(k, o)' = Noted(k, o)
      BY <1>1, <2>3 DEF Noted
    <3>2. QED
      BY <2>1, <2>3, <3>1
  <2>4. QED
    BY <2>2, <2>3
<1>7. QED
  BY <1>4, <1>5, <1>6

\* The answers accepted, and the posts that show them, stay as they are when no
\* acceptance commits.
LEMMA ShownKept ==
  ASSUME RowKinds, Blank, AcceptedIsShown, OneAcceptedUnlessLate, NEW c \in Calls, Kept(c),
         \A p \in Posts : /\ post'[p].accepted = post[p].accepted
                          /\ post'[p].status = "ANSWERED" <=> post[p].status = "ANSWERED",
         \A a \in Answers : answer'[a].accepted = answer[a].accepted
  PROVE  AcceptedIsShown' /\ OneAcceptedUnlessLate'
<1>1. \A p \in Posts : post[p].accepted \in Answers \union {None}
  BY DEF RowKinds, PostRow
<1>2. AcceptedIsShown'
  <2>1. ASSUME NEW p \in Posts, post[p].accepted # None
        PROVE  /\ answer'[post[p].accepted].post = p
               /\ answer'[post[p].accepted].accepted
    <3>1. /\ post[p].accepted \in Answers /\ answer[post[p].accepted].post = p
          /\ answer[post[p].accepted].accepted /\ p # None
      BY <1>1, <2>1, CommunityAssumption DEF AcceptedIsShown
    <3>2. post[p].accepted \in Given
      BY <3>1 DEF Given
    <3>3. QED
      BY <3>1, <3>2 DEF Kept
  <2>2. QED
    BY <2>1 DEF AcceptedIsShown
<1>3. ASSUME NEW a \in Answers, answer[a].accepted
      PROVE  a \in Given /\ answer'[a].post = answer[a].post
  <2>1. ~NoAnswer.accepted
    BY DEF NoAnswer, NewAnswer
  <2>2. a \in Given
    BY <1>3, <2>1 DEF Blank
  <2>3. QED
    BY <2>2 DEF Kept
<1>4. OneAcceptedUnlessLate'
  BY <1>3 DEF OneAcceptedUnlessLate, Kept
<1>5. QED
  BY <1>2, <1>4

-----------------------------------------------------------------------------
(* The steps                                                               *)

\* What each of the lemmas below takes from the invariant.
LEMMA CallFacts ==
  ASSUME IInv, NEW c \in Calls
  PROVE  /\ RowKinds /\ Blank /\ verified \subseteq admitted
         /\ Holds(c) /\ LetIn(c) /\ Clears(c)
         /\ LogSound /\ CountersExact
         /\ AcceptedIsShown /\ OneAcceptedUnlessLate /\ TraineeBoardGuarded
         /\ call[c] \in Call
         /\ post \in [Posts -> PostRow] /\ answer \in [Answers -> AnswerRow]
  BY DEF IInv, RowKinds

\* The invariant of all calls, from that of the one that stepped.
LEMMA AllCalls ==
  ASSUME IInv, NEW c \in Calls, Kept(c), Holds(c)', LetIn(c)', Clears(c)'
  PROVE  /\ \A d \in Calls : Holds(d)' /\ LetIn(d)' /\ Clears(d)'
         /\ verified' \subseteq admitted'
<1>1. ASSUME NEW d \in Calls
      PROVE  Holds(d)' /\ LetIn(d)' /\ Clears(d)'
  <2>1. CASE d = c
    BY <2>1
  <2>2. CASE d # c
    BY <2>2, OtherCalls DEF IInv
  <2>3. QED
    BY <2>1, <2>2
<1>2. QED
  BY <1>1 DEF Kept

\* A post whose counters do not move while nothing counted is logged.
LEMMA CountersKept ==
  ASSUME RowKinds, CountersExact,
         \A k \in Counted, o \in Posts \union Answers :
           Cardinality(Noted(k, o)') = Cardinality(Noted(k, o)),
         \A p \in Posts : post'[p].likes = post[p].likes /\ post'[p].views = post[p].views,
         \A a \in Answers : answer'[a].likes = answer[a].likes
  PROVE  CountersExact'
  BY DEF CountersExact, Noted, Counted

\* Calls that read.
LEMMA ReadStep ==
  ASSUME IInv, NEW c \in Calls,
         \/ CreatePostGate(c) \/ FindPost(c) \/ FindLiked(c) \/ Gate(c)
         \/ FindAnswer(c) \/ Clear(c) \/ Reread(c) \/ Lose(c)
  PROVE  IInv'
<1>1. /\ Reads(c) /\ call[c].pc # "done" /\ call' \in [Calls -> Call]
      /\ Holds(c)' /\ LetIn(c)' /\ Clears(c)'
  BY CallFacts, ReadCall
<1>2. \E l : Becomes(c, l)
  BY DEF CreatePostGate, FindPost, FindLiked, Gate, FindAnswer, Clear, Reread, Lose,
         Enters, Goes
<1>3. Kept(c)
  BY <1>1, <1>2, CallFacts, ReadKeeps
<1>4. /\ \A d \in Calls : Holds(d)' /\ LetIn(d)' /\ Clears(d)'
      /\ verified' \subseteq admitted'
  BY <1>1, <1>3, AllCalls
<1>5. RowKinds' /\ Blank' /\ Written' = Written /\ Given' = Given
  BY <1>1, CallFacts DEF RowKinds, Blank, Written, Given, Reads
<1>6. LogSound'
  <2>1. ASSUME NEW w \in log, w.what \in Counted
        PROVE  call'[w.by].pc = "done"
    BY <1>1, <1>3, <2>1, CallFacts DEF LogSound, Kept, RowKinds, LogEntry
  <2>2. QED
    BY <1>1, <1>5, <2>1, CallFacts DEF LogSound, Reads
<1>7. CountersExact' /\ AcceptedIsShown' /\ OneAcceptedUnlessLate' /\ TraineeBoardGuarded'
  BY <1>1, CallFacts DEF Reads, CountersExact, AcceptedIsShown, OneAcceptedUnlessLate,
                         TraineeBoardGuarded
<1>8. QED
  BY <1>4, <1>5, <1>6, <1>7 DEF IInv

\* A post is written, on the trainee board only by somebody let in.
LEMMA PostStep ==
  ASSUME IInv, NEW c \in Calls, call[c].pc # "done",
         NEW p \in Posts \ Written, NEW u \in Users, NEW b \in Boards, Posted(c, p, u, b),
         b = "TRAINEE" => u \in admitted \union Admins
  PROVE  IInv'
<1>1. /\ RowKinds' /\ Blank' /\ Kept(c)
      /\ Written' = Written \union {p} /\ Given' = Given
      /\ post'[p] = NewPost(u, b)
      /\ \A q \in Posts \ {p} : post'[q] = post[q]
  BY CallFacts, PostedIs
<1>2. /\ Becomes(c, Done) /\ Commits(c, u, "post", p, p) /\ answer' = answer
      /\ admitted' = admitted /\ p \in Written'
  BY <1>1 DEF Posted
<1>3. /\ \A d \in Calls : Holds(d)' /\ LetIn(d)' /\ Clears(d)'
      /\ verified' \subseteq admitted'
  BY <1>1, <1>2, CallFacts, EndedCall, AllCalls
<1>4. /\ post'[p].board = b /\ post'[p].accepted = None /\ post'[p].status # "ANSWERED"
      /\ post'[p].likes = 0 /\ post'[p].views = 0
  BY <1>1, Kinds
<1>5. /\ post[p].accepted = None /\ post[p].status # "ANSWERED"
      /\ post[p].likes = 0 /\ post[p].views = 0
  <2>1. post[p] = NewPost(None, "CPA_PREP") /\ "CPA_PREP" \in Boards
    BY CallFacts DEF Blank, NoPost, Boards
  <2>2. QED
    BY <2>1, Kinds
<1>6. /\ LogSound' /\ TraineeBoardGuarded'
      /\ \A k \in Counted, o \in Posts \union Answers :
           Cardinality(Noted(k, o)') = Cardinality(Noted(k, o))
  <2>1. "post" \notin Counted
    BY DEF Counted
  <2>2. /\ LogSound' /\ TraineeBoardGuarded'
        /\ \A k \in Counted, o \in Posts \union Answers :
              /\ Cardinality(Noted(k, o)) \in Nat
              /\ Cardinality(Noted(k, o)') = IF k = "post" /\ o = p
                   THEN Cardinality(Noted(k, o)) + 1 ELSE Cardinality(Noted(k, o))
    BY <1>1, <1>2, <1>4, <2>1, CallFacts, LogGrows
  <2>3. QED
    BY <2>1, <2>2
<1>7. AcceptedIsShown' /\ OneAcceptedUnlessLate'
  BY <1>1, <1>2, <1>4, <1>5, CallFacts, ShownKept
<1>8. CountersExact'
  BY <1>1, <1>2, <1>4, <1>5, <1>6, CallFacts, CountersKept
<1>9. QED
  BY <1>1, <1>3, <1>6, <1>7, <1>8 DEF IInv

\* A like or a view of a post is counted.
LEMMA CountPostStep ==
  ASSUME IInv, NEW c \in Calls, LikePost(c) \/ View(c)
  PROVE  IInv'
<1> DEFINE l == call[c]
           p == l.post
<1>1. PICK what \in {"likePost", "view"} : 
        /\ l.pc = what
        /\ what = "likePost" =>
             post' = [post EXCEPT ![p] = [post[p] EXCEPT !.likes = post[p].likes + 1]]
        /\ what = "view" =>
             post' = [post EXCEPT ![p] = [post[p] EXCEPT !.views = post[p].views + 1]]
        /\ Commits(c, l.who, what, p, p)
        /\ Becomes(c, Done) /\ UNCHANGED <<answer, verified, admitted, late>>
  BY DEF LikePost, View, At, Incremented
<1>2. /\ p \in Written /\ p \in Posts
      /\ post[p].board = "TRAINEE" => l.who \in admitted \union Admins
  BY <1>1, CallFacts DEF Holds, LetIn, Written
<1>3. PICK row \in PostRow :
        /\ post' = [post EXCEPT ![p] = row]
        /\ row.author = post[p].author /\ row.board = post[p].board
        /\ row.status = post[p].status /\ row.accepted = post[p].accepted
        /\ row.likes = IF what = "likePost" THEN post[p].likes + 1 ELSE post[p].likes
        /\ row.views = IF what = "view" THEN post[p].views + 1 ELSE post[p].views
  <2>1. CASE what = "likePost"
    BY <1>1, <1>2, <2>1, CallFacts DEF PostRow
  <2>2. CASE what = "view"
    BY <1>1, <1>2, <2>2, CallFacts DEF PostRow
  <2>3. QED
    BY <2>1, <2>2
<1>4. log \subseteq log' /\ log' \subseteq LogEntry
  BY <1>1, <1>2, CallFacts DEF Commits, LogEntry, RowKinds, Call
<1>5. /\ RowKinds' /\ Blank' /\ Kept(c)
      /\ Written' = Written /\ Given' = Given
      /\ post'[p] = row /\ \A q \in Posts \ {p} : post'[q] = post[q]
  BY <1>1, <1>2, <1>3, <1>4, CallFacts, PostChanged, Kinds
<1>6. /\ \A d \in Calls : Holds(d)' /\ LetIn(d)' /\ Clears(d)'
      /\ verified' \subseteq admitted'
  BY <1>1, <1>5, CallFacts, EndedCall, AllCalls
<1>7. /\ LogSound' /\ TraineeBoardGuarded'
      /\ \A k \in Counted, o \in Posts \union Answers :
            /\ Cardinality(Noted(k, o)) \in Nat
            /\ Cardinality(Noted(k, o)') = IF k = what /\ o = p
                 THEN Cardinality(Noted(k, o)) + 1 ELSE Cardinality(Noted(k, o))
  <2>1. call[c].pc # "done" /\ call'[c].pc = "done"
    BY <1>1, CallFacts, DoneKind, Kinds
  <2>2. /\ p \in Written' /\ what # "likeAnswer"
        /\ post'[p].board = "TRAINEE" => l.who \in admitted' \union Admins
    BY <1>1, <1>2, <1>3, <1>5
  <2>3. QED
    BY <1>1, <1>5, <2>1, <2>2, CallFacts, LogGrows
<1>8. AcceptedIsShown' /\ OneAcceptedUnlessLate'
  BY <1>1, <1>3, <1>5, CallFacts, ShownKept
<1>9. CountersExact'
  <2>1. ASSUME NEW q \in Posts
        PROVE  /\ post'[q].likes = Cardinality(Noted("likePost", q)')
               /\ post'[q].views = Cardinality(Noted("view", q)')
    <3>1. /\ post[q].likes = Cardinality(Noted("likePost", q))
          /\ post[q].views = Cardinality(Noted("view", q))
      BY CallFacts DEF CountersExact, Noted
    <3>2. /\ Cardinality(Noted("likePost", q)') = IF "likePost" = what /\ q = p
               THEN Cardinality(Noted("likePost", q)) + 1 ELSE Cardinality(Noted("likePost", q))
          /\ Cardinality(Noted("view", q)') = IF "view" = what /\ q = p
               THEN Cardinality(Noted("view", q)) + 1 ELSE Cardinality(Noted("view", q))
      BY <1>7 DEF Counted
    <3>3. CASE q = p
      BY <1>3, <1>5, <3>1, <3>2, <3>3
    <3>4. CASE q # p
      BY <1>5, <3>1, <3>2, <3>4
    <3>5. QED
      BY <3>3, <3>4
  <2>2. ASSUME NEW a \in Answers
        PROVE  answer'[a].likes = Cardinality(Noted("likeAnswer", a)')
    <3>1. answer[a].likes = Cardinality(Noted("likeAnswer", a)) /\ answer' = answer
      BY <1>1, CallFacts DEF CountersExact, Noted
    <3>2. Cardinality(Noted("likeAnswer", a)') = Cardinality(Noted("likeAnswer", a))
      BY <1>1, <1>7 DEF Counted
    <3>3. QED
      BY <3>1, <3>2
  <2>3. QED
    BY <2>1, <2>2 DEF CountersExact, Noted
<1>10. QED
  BY <1>5, <1>6, <1>7, <1>8, <1>9 DEF IInv

\* A like of an answer is counted.
LEMMA LikeAnswerStep ==
  ASSUME IInv, NEW c \in Calls, LikeAnswer(c)
  PROVE  IInv'
<1> DEFINE l == call[c]
           p == l.post
           x == l.answer
<1>1. /\ l.pc = "likeAnswer" /\ l.work = "likeAnswer"
      /\ p \in Written /\ p # None /\ x \in Answers /\ answer[x].post = p
      /\ post[p].board = "TRAINEE" => l.who \in admitted \union Admins
  BY CallFacts, CommunityAssumption DEF LikeAnswer, At, Holds, LetIn, Work, Written
<1>2. /\ answer' = [answer EXCEPT ![x].likes = answer[x].likes + 1]
      /\ Commits(c, l.who, "likeAnswer", p, x)
      /\ Becomes(c, Done) /\ UNCHANGED <<post, verified, admitted, late>>
  BY DEF LikeAnswer, Incremented
<1>3. /\ answer' \in [Answers -> AnswerRow]
      /\ answer'[x].likes = answer[x].likes + 1
      /\ \A a \in Answers \ {x} : answer'[a] = answer[a]
      /\ \A a \in Answers : /\ answer'[a].post = answer[a].post
                            /\ answer'[a].accepted = answer[a].accepted
  BY <1>1, <1>2, CallFacts DEF AnswerRow
<1>4. log \subseteq log' /\ log' \subseteq LogEntry /\ x \in Given
  BY <1>1, <1>2, CallFacts DEF Commits, LogEntry, RowKinds, Call, Written, Given
<1>5. RowKinds' /\ Blank' /\ Kept(c) /\ Written' = Written /\ Given' = Given
  <2>1. \A a \in Answers \ Given : answer'[a] = answer[a]
    BY <1>3, <1>4
  <2>2. QED
    BY <1>2, <1>3, <1>4, <2>1, CallFacts, Kinds, AnswersChanged
<1>6. /\ \A d \in Calls : Holds(d)' /\ LetIn(d)' /\ Clears(d)'
      /\ verified' \subseteq admitted'
  BY <1>2, <1>5, CallFacts, EndedCall, AllCalls
<1>7. /\ LogSound' /\ TraineeBoardGuarded'
      /\ \A k \in Counted, o \in Posts \union Answers :
            /\ Cardinality(Noted(k, o)) \in Nat
            /\ Cardinality(Noted(k, o)') = IF k = "likeAnswer" /\ o = x
                 THEN Cardinality(Noted(k, o)) + 1 ELSE Cardinality(Noted(k, o))
  <2>1. call[c].pc # "done" /\ call'[c].pc = "done"
    BY <1>1, <1>2, CallFacts, DoneKind, Kinds
  <2>2. /\ p \in Written' /\ x \in Given'
        /\ post'[p].board = "TRAINEE" => l.who \in admitted' \union Admins
    BY <1>1, <1>2, <1>4, <1>5
  <2>3. QED
    BY <1>2, <1>5, <2>1, <2>2, CallFacts, LogGrows
<1>8. AcceptedIsShown' /\ OneAcceptedUnlessLate'
  BY <1>2, <1>3, <1>5, CallFacts, ShownKept
<1>9. CountersExact'
  <2>1. ASSUME NEW q \in Posts
        PROVE  /\ post'[q].likes = Cardinality(Noted("likePost", q)')
               /\ post'[q].views = Cardinality(Noted("view", q)')
    <3>1. /\ post[q].likes = Cardinality(Noted("likePost", q)) /\ post' = post
          /\ post[q].views = Cardinality(Noted("view", q))
      BY <1>2, CallFacts DEF CountersExact, Noted
    <3>2. /\ Cardinality(Noted("likePost", q)') = Cardinality(Noted("likePost", q))
          /\ Cardinality(Noted("view", q)') = Cardinality(Noted("view", q))
      BY <1>7 DEF Counted
    <3>3. QED
      BY <3>1, <3>2
  <2>2. ASSUME NEW a \in Answers
        PROVE  answer'[a].likes = Cardinality(Noted("likeAnswer", a)')
    <3>1. answer[a].likes = Cardinality(Noted("likeAnswer", a))
      BY CallFacts DEF CountersExact, Noted
    <3>2. Cardinality(Noted("likeAnswer", a)') = IF a = x
            THEN Cardinality(Noted("likeAnswer", a)) + 1 ELSE Cardinality(Noted("likeAnswer", a))
      BY <1>7 DEF Counted
    <3>3. CASE a = x
      BY <1>3, <3>1, <3>2, <3>3
    <3>4. CASE a # x
      BY <1>3, <3>1, <3>2, <3>4
    <3>5. QED
      BY <3>3, <3>4
  <2>3. QED
    BY <2>1, <2>2 DEF CountersExact, Noted
<1>10. QED
  BY <1>5, <1>6, <1>7, <1>8, <1>9 DEF IInv

\* An answer comes, late if one of its post is just being accepted.
LEMMA AnswerStep ==
  ASSUME IInv, NEW c \in Calls, InsertAnswer(c)
  PROVE  IInv'
<1> DEFINE l == call[c]
           p == l.post
<1>1. /\ l.pc = "insertAnswer" /\ p \in Written /\ UNCHANGED <<post, admitted>>
      /\ Becomes(c, Done)
      /\ post[p].board = "TRAINEE" => l.who \in admitted \union Admins
  BY CallFacts DEF InsertAnswer, At, Holds, LetIn
<1>2. /\ RowKinds' /\ Blank' /\ Kept(c) /\ Written' = Written
      /\ \E a \in Answers \ Given :
           /\ Commits(c, l.who, "answer", p, a)
           /\ Given' = Given \union {a} /\ answer'[a].likes = 0 /\ ~answer'[a].accepted
           /\ \A b \in Answers \ {a} : answer'[b] = answer[b]
  BY CallFacts, Answered
<1>3. PICK a \in Answers \ Given :
        /\ Commits(c, l.who, "answer", p, a)
        /\ Given' = Given \union {a} /\ answer'[a].likes = 0 /\ ~answer'[a].accepted
        /\ \A b \in Answers \ {a} : answer'[b] = answer[b]
  BY <1>2
<1>4. /\ \A d \in Calls : Holds(d)' /\ LetIn(d)' /\ Clears(d)'
      /\ verified' \subseteq admitted'
  BY <1>1, <1>2, CallFacts, EndedCall, AllCalls
<1>5. answer[a].likes = 0 /\ ~answer[a].accepted
  BY <1>3, CallFacts DEF Blank, NoAnswer, NewAnswer
<1>6. \A b \in Answers : /\ answer'[b].accepted = answer[b].accepted
                         /\ answer'[b].likes = answer[b].likes
  <2>1. answer[a].accepted \in BOOLEAN /\ answer'[a].accepted \in BOOLEAN
    BY <1>2, CallFacts DEF RowKinds, AnswerRow
  <2>2. QED
    BY <1>3, <1>5, <2>1
<1>7. /\ LogSound' /\ TraineeBoardGuarded'
      /\ \A k \in Counted, o \in Posts \union Answers :
           Cardinality(Noted(k, o)') = Cardinality(Noted(k, o))
  <2>1. "answer" \notin Counted /\ call[c].pc # "done"
    BY <1>1 DEF Counted
  <2>2. p \in Written' /\ (post'[p].board = "TRAINEE" => l.who \in admitted' \union Admins)
    BY <1>1, <1>2
  <2>3. /\ LogSound' /\ TraineeBoardGuarded'
        /\ \A k \in Counted, o \in Posts \union Answers :
              /\ Cardinality(Noted(k, o)) \in Nat
              /\ Cardinality(Noted(k, o)') = IF k = "answer" /\ o = a
                   THEN Cardinality(Noted(k, o)) + 1 ELSE Cardinality(Noted(k, o))
    BY <1>2, <1>3, <2>1, <2>2, CallFacts, LogGrows
  <2>4. QED
    BY <2>1, <2>3
<1>8. AcceptedIsShown' /\ OneAcceptedUnlessLate'
  BY <1>1, <1>2, <1>6, CallFacts, ShownKept
<1>9. CountersExact'
  BY <1>1, <1>6, <1>7, CallFacts, CountersKept
<1>10. QED
  BY <1>2, <1>4, <1>7, <1>8, <1>9 DEF IInv

\* An acceptance commits: what it cleared is what else was accepted for the post,
\* but for the late answers.
LEMMA AcceptStep ==
  ASSUME IInv, NEW c \in Calls, Accept(c)
  PROVE  IInv'
<1> DEFINE l == call[c]
           p == l.post
           x == l.answer
<1>1. /\ l.pc = "accept" /\ p \in Written /\ p \in Posts /\ p # None
      /\ x \in Answers /\ x # None /\ answer[x].post = p /\ x \in Given
      /\ l.rows \subseteq {a \in Answers : answer[a].post = p}
      /\ {a \in Answers : answer[a].post = p} \ late \subseteq l.rows
      /\ post[p].board = "TRAINEE" => l.who \in admitted \union Admins
  BY CallFacts, CommunityAssumption
     DEF Accept, At, Holds, LetIn, Clears, ToClear, Work, Written, Given
<1>2. /\ answer' = [a \in Answers |-> [answer[a] EXCEPT !.accepted =
                     a = x \/ (answer[a].accepted /\ a \notin l.rows)]]
      /\ post' = [post EXCEPT ![p].status = "ANSWERED", ![p].accepted = x]
      /\ Commits(c, l.who, "accept", p, x)
      /\ Goes(c, "reread") /\ UNCHANGED <<verified, admitted, late>>
  BY DEF Accept, Accepted
<1>3. /\ answer' \in [Answers -> AnswerRow]
      /\ \A a \in Answers :
           /\ answer'[a].post = answer[a].post /\ answer'[a].likes = answer[a].likes
           /\ answer'[a].accepted <=> a = x \/ (answer[a].accepted /\ a \notin l.rows)
  BY <1>2, CallFacts DEF AnswerRow
<1>4. \A a \in Answers \ Given : answer'[a] = answer[a]
  <2>1. ASSUME NEW a \in Answers \ Given
        PROVE  answer'[a] = answer[a]
    <3>1. a # x /\ ~answer[a].accepted /\ answer[a] \in AnswerRow
          /\ answer[a].accepted = FALSE
      BY <1>1, CallFacts DEF Blank, NoAnswer, NewAnswer
    <3>2. answer'[a] = [answer[a] EXCEPT !.accepted = FALSE]
      BY <1>2, <3>1
    <3>3. QED
      BY <3>1, <3>2 DEF AnswerRow
  <2>2. QED
    BY <2>1
<1>5. /\ post' \in [Posts -> PostRow]
      /\ post'[p].status = "ANSWERED" /\ post'[p].accepted = x
      /\ \A q \in Posts : /\ post'[q].author = post[q].author /\ post'[q].board = post[q].board
                          /\ post'[q].likes = post[q].likes /\ post'[q].views = post[q].views
      /\ \A q \in Posts \ {p} : post'[q] = post[q]
  BY <1>1, <1>2, CallFacts DEF PostRow
<1>6. /\ call' \in [Calls -> Call]
      /\ call'[c].pc = "reread" /\ call'[c].work = l.work
      /\ call'[c].who = l.who /\ call'[c].post = p /\ call'[c].answer = x
  BY <1>2, CallFacts, GoesKind DEF Pc
<1>7. log \subseteq log' /\ log' \subseteq LogEntry
  BY <1>1, <1>2, CallFacts DEF Commits, LogEntry, RowKinds, Call
<1>8. RowKinds' /\ Blank' /\ Kept(c) /\ Written' = Written /\ Given' = Given
  <2>1. PICK k \in Call : Becomes(c, k)
    BY <1>2, <1>6, CallFacts DEF Goes, Becomes, RowKinds
  <2>2. \A q \in Posts \ Written : post'[q] = post[q]
    BY <1>1, <1>5
  <2>3. QED
    BY <1>2, <1>3, <1>4, <1>5, <1>7, <2>1, <2>2, CallFacts, AnswersChanged
<1>9. Holds(c)' /\ LetIn(c)' /\ Clears(c)'
  <2>1. Holds(c)'
    BY <1>1, <1>3, <1>6, <1>8, CallFacts DEF Holds, Work
  <2>2. LetIn(c)' /\ Clears(c)'
    BY <1>1, <1>2, <1>5, <1>6 DEF LetIn, Clears
  <2>3. QED
    BY <2>1, <2>2
<1>10. /\ \A d \in Calls : Holds(d)' /\ LetIn(d)' /\ Clears(d)'
       /\ verified' \subseteq admitted'
  BY <1>8, <1>9, AllCalls
<1>11. /\ LogSound' /\ TraineeBoardGuarded'
       /\ \A k \in Counted, o \in Posts \union Answers :
            Cardinality(Noted(k, o)') = Cardinality(Noted(k, o))
  <2>1. "accept" \notin Counted /\ call[c].pc # "done"
    BY <1>1 DEF Counted
  <2>2. /\ p \in Written' /\ Commits(c, l.who, "accept", p, x) /\ Kept(c)
        /\ post'[p].board = "TRAINEE" => l.who \in admitted' \union Admins
    BY <1>1, <1>2, <1>5, <1>8
  <2>3. /\ LogSound' /\ TraineeBoardGuarded'
        /\ \A k \in Counted, o \in Posts \union Answers :
              /\ Cardinality(Noted(k, o)) \in Nat
              /\ Cardinality(Noted(k, o)') = IF k = "accept" /\ o = x
                   THEN Cardinality(Noted(k, o)) + 1 ELSE Cardinality(Noted(k, o))
    <3> HIDE DEF p, x
    <3>1. QED
      BY <2>1, <2>2, CallFacts, LogGrows
  <2>4. QED
    BY <2>1, <2>3
<1>12. AcceptedIsShown'
  <2>1. ASSUME NEW q \in Posts
        PROVE  /\ post'[q].accepted # None <=> post'[q].status = "ANSWERED"
               /\ post'[q].accepted # None =>
                    /\ answer'[post'[q].accepted].post = q
                    /\ answer'[post'[q].accepted].accepted
    <3>1. CASE q = p
      BY <1>1, <1>3, <1>5, <3>1
    <3>2. CASE q # p
      <4>1. post'[q] = post[q] /\ post[q].accepted \in Answers \union {None}
        BY <1>5, <3>2, CallFacts DEF PostRow
      <4>2. QED
        BY <1>1, <1>3, <3>2, <4>1, CallFacts DEF AcceptedIsShown
    <3>3. QED
      BY <3>1, <3>2
  <2>2. QED
    BY <2>1 DEF AcceptedIsShown
<1>13. OneAcceptedUnlessLate'
  <2>1. ASSUME NEW a \in Answers \ late, NEW b \in Answers \ late,
               answer'[a].accepted, answer'[b].accepted, answer'[a].post = answer'[b].post
        PROVE  a = b
    <3>1. answer[a].post = answer[b].post
      BY <1>3, <2>1
    <3>2. CASE answer[a].post = p
      BY <1>1, <1>3, <2>1, <3>1, <3>2
    <3>3. CASE answer[a].post # p
      BY <1>1, <1>3, <2>1, <3>1, <3>3, CallFacts DEF OneAcceptedUnlessLate
    <3>4. QED
      BY <3>2, <3>3
  <2>2. QED
    BY <1>2, <2>1 DEF OneAcceptedUnlessLate
<1>14. CountersExact'
  BY <1>3, <1>5, <1>11, CallFacts, CountersKept
<1>15. QED
  BY <1>8, <1>10, <1>11, <1>12, <1>13, <1>14 DEF IInv

-----------------------------------------------------------------------------
(* The theorems                                                            *)

\* Members come and go.
LEMMA ProfileStep ==
  ASSUME IInv, NEW u \in Users, ReviewProfile(u)
  PROVE  IInv'
<1>1. /\ UNCHANGED <<post, answer, call, late, log>>
      /\ verified' \subseteq admitted' /\ admitted \subseteq admitted'
      /\ verified' \subseteq Users /\ admitted' \subseteq Users
  BY DEF ReviewProfile, IInv, RowKinds
<1>2. RowKinds' /\ Blank' /\ LogSound' /\ CountersExact'
      /\ AcceptedIsShown' /\ OneAcceptedUnlessLate' /\ TraineeBoardGuarded'
  BY <1>1 DEF IInv, RowKinds, Blank, Written, Given, LogSound, CountersExact,
              AcceptedIsShown, OneAcceptedUnlessLate, TraineeBoardGuarded
<1>3. \A c \in Calls : Holds(c)' /\ LetIn(c)' /\ Clears(c)'
  BY <1>1 DEF IInv, Holds, LetIn, Clears, ToClear, Written
<1>4. QED
  BY <1>1, <1>2, <1>3 DEF IInv

\* It holds at the start.
LEMMA InitIInv == Init => IInv
<1> SUFFICES ASSUME Init PROVE IInv
  OBVIOUS
<1>1. /\ call = [c \in Calls |-> Idle] /\ verified \subseteq Users
      /\ admitted = verified /\ late = {} /\ log = {}
  BY DEF Init
<1>2. ASSUME NEW p \in Posts
      PROVE  /\ post[p] \in PostRow /\ post[p].accepted = None /\ post[p].status # "ANSWERED"
             /\ post[p].likes = 0 /\ post[p].views = 0
             /\ p \in Written => p \in SeedPosts
             /\ p \in SeedPosts => p \in Written
             /\ p \notin Written => post[p] = NoPost
  <2>1. /\ \/ post[p] = NoPost
           \/ \E u \in Users, b \in Boards : post[p] = NewPost(u, b)
        /\ post[p] # NoPost <=> p \in SeedPosts
    BY DEF Init
  <2>2. NoPost = NewPost(None, "CPA_PREP") /\ "CPA_PREP" \in Boards /\ None \notin Users
    BY CommunityAssumption DEF NoPost, Boards
  <2>3. NoPost.author = None
    BY <2>2, Kinds
  <2>4. QED
    BY <2>1, <2>2, <2>3, Kinds DEF Written
<1>3. ASSUME NEW a \in Answers
      PROVE  /\ answer[a] \in AnswerRow /\ ~answer[a].accepted /\ answer[a].likes = 0
             /\ a \notin Given => answer[a] = NoAnswer
             /\ a \in Given => answer[a].post \in SeedPosts
  <2>1. \/ answer[a] = NoAnswer
        \/ \E u \in Users, p \in SeedPosts : answer[a] = NewAnswer(u, p)
    BY DEF Init
  <2>2. NoAnswer = NewAnswer(None, None) /\ SeedPosts \subseteq Posts /\ None \notin Posts
    BY CommunityAssumption DEF NoAnswer
  <2>3. QED
    BY <2>1, <2>2, Kinds DEF Given
<1>4. /\ post = [p \in Posts |-> post[p]] /\ answer = [a \in Answers |-> answer[a]]
  BY DEF Init
<1>5. RowKinds
  BY <1>1, <1>2, <1>3, <1>4, Kinds DEF RowKinds
<1>6. Blank
  BY <1>2, <1>3, CommunityAssumption DEF Blank, Given
<1>7. \A c \in Calls : Holds(c) /\ LetIn(c) /\ Clears(c)
  BY <1>1 DEF Idle, Holds, LetIn, Clears, Work
<1>8. LogSound /\ TraineeBoardGuarded
  BY <1>1, FS_EmptySet DEF LogSound, TraineeBoardGuarded
<1>9. CountersExact
  <2>1. \A k, o : {w \in log : w.what = k /\ w.on = o} = {}
    BY <1>1
  <2>2. Cardinality({}) = 0
    BY FS_EmptySet
  <2>3. QED
    BY <1>2, <1>3, <2>1, <2>2 DEF CountersExact
<1>10. AcceptedIsShown /\ OneAcceptedUnlessLate
  BY <1>2, <1>3 DEF AcceptedIsShown, OneAcceptedUnlessLate
<1>11. QED
  BY <1>1, <1>5, <1>6, <1>7, <1>8, <1>9, <1>10 DEF IInv

\* Every step keeps it.
LEMMA StepIInv == IInv /\ [Next]_vars => IInv'
<1> SUFFICES ASSUME IInv, [Next]_vars PROVE IInv'
  OBVIOUS
<1>1. CASE UNCHANGED vars
  <2>1. UNCHANGED <<post, answer, verified, call, admitted, late, log>>
    BY <1>1 DEF vars
  <2>2. RowKinds' /\ Blank' /\ LogSound' /\ CountersExact' /\ verified' \subseteq admitted'
    BY <2>1 DEF IInv, RowKinds, Blank, Written, Given, LogSound, CountersExact
  <2>3. AcceptedIsShown' /\ OneAcceptedUnlessLate' /\ TraineeBoardGuarded'
    BY <2>1 DEF IInv, AcceptedIsShown, OneAcceptedUnlessLate, TraineeBoardGuarded
  <2>4. \A c \in Calls : Holds(c)' /\ LetIn(c)' /\ Clears(c)'
    BY <2>1 DEF IInv, Holds, LetIn, Clears, ToClear, Written
  <2>5. QED
    BY <2>2, <2>3, <2>4 DEF IInv
<1>2. ASSUME NEW c \in Calls, Step(c)
      PROVE  IInv'
  <2>1. CASE CreatePost(c)
    <3>1. PICK u \in Users, b \in Boards \ {"TRAINEE"}, p \in Posts \ Written :
            Posted(c, p, u, b)
      BY <2>1 DEF CreatePost, Posted
    <3>2. call[c].pc # "done" /\ b \in Boards /\ b # "TRAINEE"
      BY <2>1, <3>1 DEF CreatePost, Starts
    <3>3. QED
      BY <3>1, <3>2, PostStep
  <2>2. CASE InsertPost(c)
    <3>1. PICK p \in Posts \ Written : Posted(c, p, call[c].who, "TRAINEE")
      BY <2>2 DEF InsertPost, Posted
    <3>2. /\ call[c].pc # "done" /\ call[c].who \in Users /\ "TRAINEE" \in Boards
          /\ call[c].who \in admitted \union Admins
      BY <2>2, CallFacts DEF InsertPost, At, Holds, LetIn, Boards
    <3>3. QED
      BY <3>1, <3>2, PostStep
  <2>3. QED
    BY <1>2, <2>1, <2>2, ReadStep, CountPostStep, LikeAnswerStep, AnswerStep, AcceptStep
       DEF Step
<1>3. QED
  BY <1>1, <1>2, ProfileStep DEF Next

\* The invariant of the proofs.
THEOREM Invariance == Spec => []IInv
  BY InitIInv, StepIInv, PTL DEF Spec

\* Rows and calls always have their kinds.
THEOREM TypeCorrect == Spec => []TypeOK
<1>1. IInv => TypeOK
  BY DEF IInv, TypeOK
<1>2. QED
  BY <1>1, Invariance, PTL

\* However acceptances overlap, the answer a post names is one of its own and is
\* marked accepted (the transaction of resolvePost).
THEOREM Shown == Spec => []AcceptedIsShown
<1>1. IInv => AcceptedIsShown
  BY DEF IInv
<1>2. QED
  BY <1>1, Invariance, PTL

\* Two marks on the answers of a post take an answer that came while another was
\* being accepted.
THEOREM OneMark == Spec => []OneAcceptedUnlessLate
<1>1. IInv => OneAcceptedUnlessLate
  BY DEF IInv
<1>2. QED
  BY <1>1, Invariance, PTL

\* Likes and views are never lost and never counted twice.
THEOREM Counters == Spec => []CountersExact
<1>1. IInv => CountersExact
  BY DEF IInv
<1>2. QED
  BY <1>1, Invariance, PTL

\* Only those who have been verified, and administrators, act on the trainee board.
THEOREM Guarded == Spec => []TraineeBoardGuarded
<1>1. IInv => TraineeBoardGuarded
  BY DEF IInv
<1>2. QED
  BY <1>1, Invariance, PTL
=============================================================================
