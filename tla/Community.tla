----------------------------- MODULE Community -----------------------------
(***************************************************************************)
(* The community boards (CommunityService): posts, answers, the counters   *)
(* of views and likes, the answer a post's author accepts, and the trainee *)
(* board that only verified CPAs enter.                                    *)
(*                                                                         *)
(* An action is one awaited statement; other calls run in between, and so  *)
(* do applications for CPA verification and their reviews, which change    *)
(* who is verified (ReviewProfile).  resolvePost sends its three updates   *)
(* as one transaction: the updateMany of all answers of the post chooses   *)
(* its rows from the snapshot it starts with (Clear), may have to wait for *)
(* their locks, and everything is visible at the commit (Accept).  Nothing *)
(* deletes a post or an answer.                                            *)
(***************************************************************************)
EXTENDS Naturals, FiniteSets

CONSTANTS
  Users,         (* job seekers: only they may write                       *)
  Admins,        (* who enter the trainee board without verification       *)
  Posts, SeedPosts,       (* ids of CommunityPost rows; the early ones     *)
  Answers, SeedAnswers,   (* ids of CommunityAnswer rows; the early ones   *)
  Calls,         (* the requests; each runs one endpoint once              *)
  Endpoints,     (* the endpoints this workload uses                       *)
  MaxInFlight,   (* calls served at the same time                          *)
  None

ASSUME CommunityAssumption ==
  /\ SeedPosts \subseteq Posts /\ SeedAnswers \subseteq Answers
  /\ Users \intersect Admins = {}
  /\ Posts \intersect Answers = {}
  /\ None \notin Users \union Admins \union Posts \union Answers

VARIABLES
  post, answer,   (* the rows                                              *)
  verified,       (* users whose profile says CPA_VERIFIED                 *)
  call,           (* where each call stands and its local variables        *)
  admitted,       (* history: users that have been verified                *)
  late,           (* history: answers inserted while one was being accepted *)
  log             (* history: what calls committed                         *)

vars == <<post, answer, verified, call, admitted, late, log>>

-----------------------------------------------------------------------------
\* CPA_PREP stands for SENIOR too.
Boards == {"CPA_PREP", "TRAINEE", "FREE"}

\* A row with author None, or post None, is an id not used yet.
PostRow == [board : Boards, author : Users \union {None},
            status : {"QUESTION", "ANSWERED", "FREE"},
            accepted : Answers \union {None}, views : Nat, likes : Nat]

AnswerRow == [post : Posts \union {None}, author : Users \union {None},
              accepted : BOOLEAN, likes : Nat]

\* createPost: what a post of author u on board b starts as.
NewPost(u, b) == [board |-> b, author |-> u,
                  status |-> IF b = "FREE" THEN "FREE" ELSE "QUESTION",
                  accepted |-> None, views |-> 0, likes |-> 0]
NewAnswer(u, p) == [post |-> p, author |-> u, accepted |-> FALSE, likes |-> 0]

NoPost == NewPost(None, "CPA_PREP")
NoAnswer == NewAnswer(None, None)

\* Statements a call can be about to execute: gate reads the caller's profile.
Pc == {"idle", "gate", "insertPost", "insertAnswer", "likePost", "likeAnswer", "view",
       "findAnswer", "clear", "accept", "reread", "done"}

\* who is None for a visitor or a company; work: the statement after the gate;
\* seen: the counter as the handler read it; rows: those updateMany chose.
Call == [pc : Pc, work : Pc, who : Users \union Admins \union {None},
         post : Posts \union {None}, answer : Answers \union {None},
         seen : Nat, rows : SUBSET Answers]

Idle == [pc |-> "idle", work |-> "idle", who |-> None, post |-> None,
         answer |-> None, seen |-> 0, rows |-> {}]
Done == [Idle EXCEPT !.pc = "done"]

InFlight == {c \in Calls : call[c].pc \notin {"idle", "done"}}

Written == {p \in Posts : post[p].author # None}
Given == {a \in Answers : answer[a].post # None}

LogEntry == [by : Calls, who : Users \union Admins \union {None}, post : Posts,
             what : {"post", "answer", "likePost", "likeAnswer", "view", "accept"},
             on : Posts \union Answers]

Init ==
  /\ post \in {f \in [Posts -> {NoPost} \union {NewPost(u, b) : u \in Users, b \in Boards}] :
                 \A p \in Posts : f[p] # NoPost <=> p \in SeedPosts}
  /\ answer \in {f \in [Answers -> {NoAnswer} \union
                                   {NewAnswer(u, p) : u \in Users, p \in SeedPosts}] :
                   \A a \in Answers : f[a] # NoAnswer <=> a \in SeedAnswers}
  /\ verified \in SUBSET Users
  /\ call = [c \in Calls |-> Idle]
  /\ admitted = verified
  /\ late = {}
  /\ log = {}

-----------------------------------------------------------------------------
Starts(c, endpoint) ==
  /\ call[c].pc = "idle"
  /\ endpoint \in Endpoints
  /\ Cardinality(InFlight) < MaxInFlight

At(c, pc) == call[c].pc = pc
Becomes(c, local) == call' = [call EXCEPT ![c] = local]
Goes(c, pc) == Becomes(c, [call[c] EXCEPT !.pc = pc])

Commits(c, who, what, p, row) ==
  log' = log \union {[by |-> c, who |-> who, what |-> what, post |-> p, on |-> row]}

(* The operators named Mutant... are plausible mistakes in the one that     *)
(* follows; nothing refers to them here.                                    *)

\* assertTraineeAccess.
MutantGranted(who) == who # None
Granted(who) == who \in Admins \union verified

\* { increment: 1 }.
MutantIncremented(count, seen) == seen + 1
Incremented(count, seen) == count + 1

\* The answers whose isAccepted resolvePost clears first.
MutantToClear(p) == {a \in Answers : answer[a].post = p /\ answer[a].accepted}
ToClear(p) == {a \in Answers : answer[a].post = p}

\* isAccepted of answer a when call c commits.
MutantAccepted(c, a) == (a = call[c].answer \/ answer[a].accepted) /\ a \notin call[c].rows
Accepted(c, a) == a = call[c].answer \/ (answer[a].accepted /\ a \notin call[c].rows)

-----------------------------------------------------------------------------
\* createPost on an open board: one INSERT.
CreatePost(c) ==
  /\ Starts(c, "createPost")
  /\ \E u \in Users, b \in Boards \ {"TRAINEE"}, p \in Posts \ Written :
       /\ post' = [post EXCEPT ![p] = NewPost(u, b)]
       /\ Commits(c, u, "post", p, p)
  /\ Becomes(c, Done)
  /\ UNCHANGED <<answer, verified, admitted, late>>

\* createPost on the trainee board reads the profile first ...
CreatePostGate(c) ==
  /\ Starts(c, "createPost")
  /\ \E u \in Users : Granted(u) /\ Becomes(c, [Idle EXCEPT !.pc = "insertPost", !.who = u])
  /\ UNCHANGED <<post, answer, verified, admitted, late, log>>

\* ... and inserts whatever the profile says by then.
InsertPost(c) ==
  /\ At(c, "insertPost")
  /\ \E p \in Posts \ Written :
       /\ post' = [post EXCEPT ![p] = NewPost(call[c].who, "TRAINEE")]
       /\ Commits(c, call[c].who, "post", p, p)
  /\ Becomes(c, Done)
  /\ UNCHANGED <<answer, verified, admitted, late>>

\* The first read of the other endpoints: the post, whose board decides whether
\* the profile is read next.
Enters(c, work, who, p, a, seen) ==
  Becomes(c, [Idle EXCEPT !.pc = IF post[p].board = "TRAINEE" THEN "gate" ELSE work,
                          !.work = work, !.who = who, !.post = p, !.answer = a,
                          !.seen = seen])

FindPost(c) ==
  /\ \E p \in Written :
       \/ /\ Starts(c, "createAnswer")
          /\ \E u \in Users : Enters(c, "insertAnswer", u, p, None, 0)
       \/ /\ Starts(c, "likePost")
          /\ \E u \in Users : Enters(c, "likePost", u, p, None, post[p].likes)
       \/ /\ Starts(c, "getPost")
          /\ \E who \in Users \union Admins \union {None} :
               Enters(c, "view", who, p, None, post[p].views)
       \/ /\ Starts(c, "resolvePost")
          /\ \E u \in Users, a \in Answers : Enters(c, "findAnswer", u, p, a, 0)
  /\ UNCHANGED <<post, answer, verified, admitted, late, log>>

\* likeAnswer reads the answer together with its post's board.
FindLiked(c) ==
  /\ Starts(c, "likeAnswer")
  /\ \E u \in Users, a \in Given :
       Enters(c, "likeAnswer", u, answer[a].post, a, answer[a].likes)
  /\ UNCHANGED <<post, answer, verified, admitted, late, log>>

Gate(c) ==
  /\ At(c, "gate")
  /\ IF Granted(call[c].who) THEN Goes(c, call[c].work) ELSE Becomes(c, Done)
  /\ UNCHANGED <<post, answer, verified, admitted, late, log>>

InsertAnswer(c) ==
  /\ At(c, "insertAnswer")
  /\ \E a \in Answers \ Given :
       /\ answer' = [answer EXCEPT ![a] = NewAnswer(call[c].who, call[c].post)]
       /\ Commits(c, call[c].who, "answer", call[c].post, a)
       /\ late' = late \union
            {b \in {a} : \E d \in Calls : At(d, "accept") /\ call[d].post = call[c].post}
  /\ Becomes(c, Done)
  /\ UNCHANGED <<post, verified, admitted>>

LikePost(c) ==
  /\ At(c, "likePost")
  /\ post' = [post EXCEPT ![call[c].post].likes = Incremented(@, call[c].seen)]
  /\ Commits(c, call[c].who, "likePost", call[c].post, call[c].post)
  /\ Becomes(c, Done)
  /\ UNCHANGED <<answer, verified, admitted, late>>

LikeAnswer(c) ==
  /\ At(c, "likeAnswer")
  /\ answer' = [answer EXCEPT ![call[c].answer].likes = Incremented(@, call[c].seen)]
  /\ Commits(c, call[c].who, "likeAnswer", call[c].post, call[c].answer)
  /\ Becomes(c, Done)
  /\ UNCHANGED <<post, verified, admitted, late>>

\* getPost counts the view in the transaction that reads the answers.
View(c) ==
  /\ At(c, "view")
  /\ post' = [post EXCEPT ![call[c].post].views = Incremented(@, call[c].seen)]
  /\ Commits(c, call[c].who, "view", call[c].post, call[c].post)
  /\ Becomes(c, Done)
  /\ UNCHANGED <<answer, verified, admitted, late>>

-----------------------------------------------------------------------------
(* resolvePost                                                              *)

\* Only the author accepts, and only an answer of that post.
FindAnswer(c) ==
  /\ At(c, "findAnswer")
  /\ IF /\ post[call[c].post].author = call[c].who
        /\ answer[call[c].answer].post = call[c].post
     THEN Goes(c, "clear") ELSE Becomes(c, Done)
  /\ UNCHANGED <<post, answer, verified, admitted, late, log>>

\* The updateMany starts: its snapshot says which answers it will clear.
Clear(c) ==
  /\ At(c, "clear")
  /\ Becomes(c, [call[c] EXCEPT !.pc = "accept", !.rows = ToClear(call[c].post)])
  /\ UNCHANGED <<post, answer, verified, admitted, late, log>>

\* It has their locks, and the two updates by id and the commit follow.
Accept(c) ==
  /\ At(c, "accept")
  /\ answer' = [a \in Answers |-> [answer[a] EXCEPT !.accepted = Accepted(c, a)]]
  /\ post' = [post EXCEPT ![call[c].post].status = "ANSWERED",
                          ![call[c].post].accepted = call[c].answer]
  /\ Commits(c, call[c].who, "accept", call[c].post, call[c].answer)
  /\ Goes(c, "reread")
  /\ UNCHANGED <<verified, admitted, late>>

\* resolvePost answers with getPost, gate and view count included.
Reread(c) ==
  /\ At(c, "reread")
  /\ Enters(c, "view", call[c].who, call[c].post, None, post[call[c].post].views)
  /\ UNCHANGED <<post, answer, verified, admitted, late, log>>

-----------------------------------------------------------------------------
\* The call is lost with its connection or the process.
Lose(c) ==
  /\ c \in InFlight
  /\ Becomes(c, Done)
  /\ UNCHANGED <<post, answer, verified, admitted, late, log>>

\* CpaVerification changes a profile: a review, or a new application.
ReviewProfile(u) ==
  /\ verified' \in {verified \union {u}, verified \ {u}}
  /\ admitted' = admitted \union verified'
  /\ UNCHANGED <<post, answer, call, late, log>>

Step(c) ==
  \/ CreatePost(c) \/ CreatePostGate(c) \/ InsertPost(c)
  \/ FindPost(c) \/ FindLiked(c) \/ Gate(c)
  \/ InsertAnswer(c) \/ LikePost(c) \/ LikeAnswer(c) \/ View(c)
  \/ FindAnswer(c) \/ Clear(c) \/ Accept(c) \/ Reread(c) \/ Lose(c)

Next == (\E c \in Calls : Step(c)) \/ (\E u \in Users : ReviewProfile(u))

Spec == Init /\ [][Next]_vars

-----------------------------------------------------------------------------
(* Properties                                                              *)

RowKinds ==
  /\ post \in [Posts -> PostRow]
  /\ answer \in [Answers -> AnswerRow]
  /\ verified \subseteq Users
  /\ call \in [Calls -> Call]
  /\ admitted \subseteq Users
  /\ late \subseteq Answers
  /\ log \subseteq LogEntry

TypeOK == RowKinds

\* The accepted answer a post names is marked accepted, belongs to the post, and
\* the post is shown as answered; however acceptances overlap, the last one to
\* commit is the one both tables show (the order of resolvePost's transaction).
AcceptedIsShown ==
  \A p \in Posts :
    /\ post[p].accepted # None <=> post[p].status = "ANSWERED"
    /\ post[p].accepted # None =>
         /\ answer[post[p].accepted].post = p
         /\ answer[post[p].accepted].accepted

\* Two answers of a post are marked accepted only if one of them was inserted
\* while another acceptance was under way, too late for its updateMany: otherwise
\* acceptances may overlap in any way and leave one mark.
OneAcceptedUnlessLate ==
  \A a, b \in Answers \ late :
    /\ answer[a].accepted /\ answer[b].accepted
    /\ answer[a].post = answer[b].post
    => a = b

\* However calls overlap or are lost, no like or view that was committed is
\* missing from the counters, and none is counted twice.
CountersExact ==
  /\ \A p \in Posts :
       /\ post[p].likes = Cardinality({w \in log : w.what = "likePost" /\ w.on = p})
       /\ post[p].views = Cardinality({w \in log : w.what = "view" /\ w.on = p})
  /\ \A a \in Answers :
       answer[a].likes = Cardinality({w \in log : w.what = "likeAnswer" /\ w.on = a})

\* Whatever is written, liked, accepted or viewed on the trainee board is so for
\* somebody who has been verified, if only when the gate was read, or for an
\* administrator.
TraineeBoardGuarded ==
  \A w \in log : post[w.post].board = "TRAINEE" => w.who \in admitted \union Admins

-----------------------------------------------------------------------------
(* The inductive invariant of the proofs                                   *)

\* Ids not used yet are blank, and an answer is to a post that exists.
Blank == /\ \A p \in Posts \ Written : post[p] = NoPost
         /\ \A a \in Answers \ Given : answer[a] = NoAnswer
         /\ \A a \in Given : answer[a].post \in Written

\* The statements a gate may lead to.
Work == {"insertAnswer", "likePost", "likeAnswer", "view", "findAnswer"}

\* What a call holds of the rows it read; rows are never removed or moved.
Holds(c) ==
  LET l == call[c]
  IN  /\ l.pc \notin {"idle", "insertPost", "done"} => l.post \in Written
      /\ l.pc \in {"idle", "insertPost", "done"} => l.work = "idle"
      /\ l.pc = "gate" => l.work \in Work
      /\ l.pc \in Work => l.work = l.pc
      /\ l.pc = "insertPost" \/ l.work = "insertAnswer" => l.who \in Users
      /\ l.work = "findAnswer" => l.answer \in Answers
      /\ l.work = "likeAnswer" \/ l.pc \in {"clear", "accept"} =>
           l.answer \in Answers /\ answer[l.answer].post = l.post

\* A call that is past the gate has been let in.
LetIn(c) ==
  LET l == call[c]
  IN  /\ l.pc = "insertPost" => l.who \in admitted \union Admins
      /\ l.pc \notin {"idle", "gate", "insertPost", "done"}
           /\ post[l.post].board = "TRAINEE" => l.who \in admitted \union Admins

\* An updateMany that is under way clears answers of its post only, and all of
\* them but the late ones.
Clears(c) ==
  call[c].pc = "accept" =>
    /\ call[c].rows \subseteq ToClear(call[c].post)
    /\ ToClear(call[c].post) \ late \subseteq call[c].rows

\* What is in the log happened to rows that exist, and a call that has not ended
\* has counted nothing.
Counted == {"likePost", "likeAnswer", "view"}
LogSound ==
  /\ IsFiniteSet(log)
  /\ \A w \in log :
       /\ w.post \in Written
       /\ w.what \in {"likePost", "view"} => w.on \in Written
       /\ w.what = "likeAnswer" => w.on \in Given
       /\ w.what \in Counted => call[w.by].pc = "done"

IInv == /\ RowKinds /\ Blank /\ verified \subseteq admitted
        /\ \A c \in Calls : Holds(c) /\ LetIn(c) /\ Clears(c)
        /\ LogSound /\ CountersExact
        /\ AcceptedIsShown /\ OneAcceptedUnlessLate /\ TraineeBoardGuarded
=============================================================================
