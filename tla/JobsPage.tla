------------------------------ MODULE JobsPage ------------------------------
(***************************************************************************)
(* The page of job postings in the browser (apps/web): the list and the    *)
(* calendar beside it, which are fetched again whenever filters, page or   *)
(* month change, and the hearts that show and change the bookmarks of the  *)
(* user.  Requests overlap and are answered in any order, or fail; jobs     *)
(* come and go on the server, so what a filter finds changes meanwhile.    *)
(*                                                                         *)
(* An action is one event of the user, one render with its effects, one    *)
(* microtask, a request being served, or the callback of an answer.  The   *)
(* page is mounted and has read its URL when the model starts.             *)
(***************************************************************************)
EXTENDS Naturals, FiniteSets

CONSTANTS
  Filters,    (* what can be filtered by; equal ones have equal queries    *)
  MaxPages,   (* bound on the pages the server has for each                *)
  GroupSize,  (* pages whose buttons the pagination shows together         *)
  Months,     (* months the small calendar can be turned to                *)
  Postings,   (* the postings listed, with a heart each                    *)
  Toggles,    (* clicks on hearts                                          *)
  MaxEvents,  (* what user and others do in total                          *)
  Nothing

ASSUME JobsPageAssumption ==
  /\ Filters # {} /\ Months # {} /\ MaxEvents \in Nat
  /\ MaxPages \in Nat /\ GroupSize \in Nat \ {0}
  /\ Nothing \notin [filters : Filters, page : Nat \ {0}, pages : Nat]

VARIABLES
  chosen,     (* filters, page, miniMonth: state of the component          *)
  touched,    (* which of them were set since the last render              *)
  fetches,    (* requests for the list and the calendar under way          *)
  due,        (* the microtask that sets loading is queued                 *)
  pages,      (* the server: how many pages it has now for each filter     *)
  list,       (* what jobs and total answer: filters, page, and how many   *)
  loading, error,
  calendar,   (* what calendarDays answers: filters and month              *)
  calendarError,
  boot,       (* the first load of the bookmarks and what it brings        *)
  hearts,     (* bookmarkedJobIds                                          *)
  bookmark,   (* the server: ids of the bookmarks, 0 without one           *)
  toggle,     (* where each click on a heart stands                        *)
  happened,   (* how much has been done                                    *)
  amiss,      (* history: what befell the filters chosen, see PageExists   *)
  marred      (* history: jobs whose heart may be wrong, see HeartsTrue    *)

chosenVars == <<chosen, touched, fetches, due, list, loading, error,
                calendar, calendarError, pages, amiss>>
heartVars == <<boot, hearts, bookmark, toggle, marred>>
pageVars == <<chosenVars, heartVars, happened>>

-----------------------------------------------------------------------------
Chosen == [filters : Filters, page : Nat \ {0}, month : Months]

Wanted == [filters : Filters, page : Nat \ {0}]
Listed == [filters : Filters, page : Nat \ {0}, pages : Nat]
Shown == [filters : Filters, month : Months]

\* live: the ignore flag of its effect is not set.
Fetch == [what : {"jobs"}, want : Wanted, live : BOOLEAN]
         \union [what : {"calendar"}, want : Shown, live : BOOLEAN]

\* failed: the user is known, the bookmarks are not.
Boot == [pc : {"user", "asked", "answered", "done", "failed"},
         seeker : BOOLEAN, saw : SUBSET Postings]

\* create, lookup, delete: the request is on its way; created, found, deleted:
\* the answer is.  bm: the bookmark to delete, by its posting and number.
Toggle == [pc  : {"idle", "create", "created", "lookup", "found", "delete", "deleted",
                  "done", "failed"},
           job : Postings \union {Nothing},
           bm  : (Postings \union {Nothing}) \X Nat]

NoToggle == [pc |-> "idle", job |-> Nothing, bm |-> <<Nothing, 0>>]

Settled == {"done", "failed"}
Pending == {t \in Toggles : toggle[t].pc \notin {"idle"} \union Settled}

Bookmarked == {j \in Postings : bookmark[j].id # 0}

\* Filters come from the URL; the effects of the first render with them are
\* still to run.
PageInit ==
  /\ chosen \in [filters : Filters, page : {1}, month : {CHOOSE m \in Months : TRUE}]
  /\ touched = {"filters"}
  /\ fetches = {} /\ due = FALSE
  /\ list = Nothing /\ loading = TRUE /\ error = FALSE
  /\ calendar = Nothing /\ calendarError = FALSE
  /\ boot = [pc |-> "user", seeker |-> FALSE, saw |-> {}]
  /\ hearts = {}
  /\ bookmark \in [Postings -> {[id |-> 0, last |-> 0], [id |-> 1, last |-> 1]}]
  /\ toggle = [t \in Toggles |-> NoToggle]
  /\ happened = 0
  /\ pages \in [Filters -> 0..MaxPages]
  /\ amiss = {} /\ marred = {}

-----------------------------------------------------------------------------
(* The operators named Mutant... are plausible mistakes in the one that     *)
(* follows; nothing refers to them here.                                    *)

\* What the user does, and callbacks of requests, wait for the microtasks.
Event == ~due /\ happened < MaxEvents /\ happened' = happened + 1

\* The cleanup of an effect: answers to its request are ignored.
MutantIgnored(what) == fetches
Ignored(what) == {IF f.what = what THEN [f EXCEPT !.live = FALSE] ELSE f : f \in fetches}

\* The effect on queryString.
MutantPageAfter(query) == chosen.page
PageAfter(query) == IF query THEN 1 ELSE chosen.page

\* find: the bookmarks of the answer that are the one of job j.
MutantFind(j) == Bookmarked
Find(j) == Bookmarked \intersect {j}

-----------------------------------------------------------------------------
(* Filters, pages and months                                               *)

\* setFilters, also on popstate: a new object, if only with the same values.
SetFilters(f) ==
  /\ Event
  /\ chosen' = [chosen EXCEPT !.filters = f]
  /\ touched' = touched \union {"filters"} \union (IF f # chosen.filters THEN {"query"} ELSE {})
  /\ UNCHANGED <<fetches, due, list, loading, error, calendar, calendarError, pages, amiss,
                 heartVars>>

\* The pages that are offered beside page: those of its group, and the first of the
\* group before and after it.
Group(page) == (page - 1) \div GroupSize
First(page) == page = 1 \/ Group(page - 1) # Group(page)
Offered(page, count) ==
  {p \in 1..count : Group(p) = Group(page) \/ (First(p) /\ Group(p) = Group(page) + 1)}
  \union {p \in 1..page : First(p) /\ Group(p) = Group(page) - 1}

\* The pagination is there unless loading; it counts the pages of the list shown
\* and is left out for a single one, and for none.
SetPage ==
  /\ Event
  /\ ~loading /\ list # Nothing
  /\ list.pages > 1
  /\ \E p \in Offered(chosen.page, list.pages) :
       /\ p # chosen.page
       /\ chosen' = [chosen EXCEPT !.page = p]
  /\ touched' = touched \union {"page"}
  /\ UNCHANGED <<fetches, due, list, loading, error, calendar, calendarError, pages, amiss,
                 heartVars>>

\* A job is opened, closed or changed, and the server has a page more or less.
JobsChange(f) ==
  /\ happened < MaxEvents /\ happened' = happened + 1
  /\ \E n \in 0..MaxPages :
       /\ n = pages[f] + 1 \/ n + 1 = pages[f]
       /\ pages' = [pages EXCEPT ![f] = n]
       /\ amiss' = IF f = chosen.filters /\ n < pages[f] THEN amiss \union {"fell"} ELSE amiss
  /\ UNCHANGED <<chosen, touched, fetches, due, list, loading, error, calendar,
                 calendarError, heartVars>>

SetMonth(m) ==
  /\ Event
  /\ m # chosen.month
  /\ chosen' = [chosen EXCEPT !.month = m]
  /\ touched' = touched \union {"month"}
  /\ UNCHANGED <<fetches, due, list, loading, error, calendar, calendarError, pages, amiss,
                 heartVars>>

\* A render and its effects, in their order: another query resets the page, which
\* takes another render; list and calendar are fetched anew if what they depend
\* on was set, and what was asked before is ignored.
Render ==
  /\ touched # {}
  /\ LET jobs   == touched \intersect {"filters", "page"} # {}
         days   == touched \intersect {"filters", "month"} # {}
         page   == PageAfter("query" \in touched)
         asked  == {[what |-> "jobs", live |-> TRUE,
                     want |-> [filters |-> chosen.filters, page |-> chosen.page]]}
         turned == {[what |-> "calendar", live |-> TRUE,
                     want |-> [filters |-> chosen.filters, month |-> chosen.month]]}
         Old(what) == {f \in Ignored(what) : f.what = what}
     IN  /\ fetches' = (IF jobs THEN Old("jobs") \union asked
                                ELSE {f \in fetches : f.what = "jobs"})
                       \union (IF days THEN Old("calendar") \union turned
                                       ELSE {f \in fetches : f.what = "calendar"})
         /\ due' = (due \/ jobs)
         /\ chosen' = [chosen EXCEPT !.page = page]
         /\ touched' = IF page # chosen.page THEN {"page"} ELSE {}
         /\ amiss' = IF "query" \in touched THEN {} ELSE amiss
  /\ UNCHANGED <<list, loading, error, calendar, calendarError, pages, happened, heartVars>>

\* queueMicrotask: of the effect that is not ignored.
Microtask ==
  /\ due /\ due' = FALSE
  /\ loading' = TRUE
  /\ UNCHANGED <<chosen, touched, fetches, list, error, calendar, calendarError, pages,
                 amiss, happened, heartVars>>

\* then, or catch, and finally of fetchJobs.  total is counted here, not while the
\* answer is on its way: the only answer used is to the last request, and until it
\* is in the page is loading and nothing reads pages.
JobsAnswer(f) ==
  /\ ~due /\ f \in fetches /\ f.what = "jobs"
  /\ fetches' = fetches \ {f}
  /\ IF f.live
     THEN /\ \/ /\ list' = [filters |-> f.want.filters, page |-> f.want.page,
                           pages |-> pages[f.want.filters]]
                /\ error' = FALSE /\ UNCHANGED amiss
             \/ UNCHANGED list /\ error' = TRUE /\ amiss' = amiss \union {"failed"}
          /\ loading' = FALSE
     ELSE UNCHANGED <<list, loading, error, amiss>>
  /\ UNCHANGED <<chosen, touched, due, calendar, calendarError, pages, happened, heartVars>>

CalendarAnswer(f) ==
  /\ ~due /\ f \in fetches /\ f.what = "calendar"
  /\ fetches' = fetches \ {f}
  /\ IF f.live
     THEN \/ calendar' = f.want /\ calendarError' = FALSE
          \/ UNCHANGED calendar /\ calendarError' = TRUE
     ELSE UNCHANGED <<calendar, calendarError>>
  /\ UNCHANGED <<chosen, touched, due, list, loading, error, pages, amiss, happened,
                 heartVars>>

-----------------------------------------------------------------------------
(* Hearts                                                                  *)

\* fetchCurrentUser is answered: a job seeker, or somebody else, or an error.
BootUser ==
  /\ ~due /\ boot.pc = "user"
  /\ \/ boot' = [boot EXCEPT !.pc = "asked", !.seeker = TRUE]
     \/ boot' = [boot EXCEPT !.pc = "done"]
  /\ UNCHANGED <<chosenVars, hearts, bookmark, toggle, marred, happened>>

\* The server lists the bookmarks ...
BootServe ==
  /\ boot.pc = "asked"
  /\ boot' = [boot EXCEPT !.pc = "answered", !.saw = Bookmarked]
  /\ UNCHANGED <<chosenVars, hearts, bookmark, toggle, marred, happened>>

\* ... and they replace what is shown, or the request fails and the hearts stay as
\* they are.
BootAnswer ==
  /\ ~due
  /\ \/ boot.pc = "answered" /\ hearts' = boot.saw
        /\ boot' = [boot EXCEPT !.pc = "done", !.saw = {}]
     \/ boot.pc \in {"asked", "answered"} /\ UNCHANGED hearts
        /\ boot' = [boot EXCEPT !.pc = "failed", !.saw = {}]
  /\ UNCHANGED <<chosenVars, bookmark, toggle, marred, happened>>

\* toggleBookmark up to its first request; the heart that is shown decides.
Click(t) ==
  /\ Event /\ boot.seeker /\ toggle[t].pc = "idle"
  /\ \E j \in Postings :
       /\ toggle' = [toggle EXCEPT ![t] =
            [NoToggle EXCEPT !.job = j, !.pc = IF j \in hearts THEN "lookup" ELSE "create"]]
       /\ marred' = IF \E u \in Pending : toggle[u].job = j THEN marred \union {j} ELSE marred
  /\ UNCHANGED <<chosenVars, boot, hearts, bookmark>>

Turns(t, pc) == toggle' = [toggle EXCEPT ![t].pc = pc]

\* The server answers a toggle: one bookmark per posting, a second is refused
\* (ConflictException); deleting takes an id.
Serve(t) ==
  LET j == toggle[t].job
  IN  /\ \/ /\ toggle[t].pc = "create"
            /\ IF bookmark[j].id = 0
               THEN /\ bookmark' = [bookmark EXCEPT ![j] =
                                      [id |-> @.last + 1, last |-> @.last + 1]]
                    /\ Turns(t, "created")
               ELSE UNCHANGED bookmark /\ Turns(t, "failed")
         \/ /\ toggle[t].pc = "lookup"
            /\ \/ /\ Find(j) = {} /\ Turns(t, "done")
               \/ \E k \in Find(j) :
                    toggle' = [toggle EXCEPT ![t] = [pc |-> "found", job |-> j,
                                                     bm |-> <<k, bookmark[k].id>>]]
            /\ UNCHANGED bookmark
         \/ /\ toggle[t].pc = "delete"
            /\ LET k == toggle[t].bm[1]
               IN  IF bookmark[k].id = toggle[t].bm[2]
                   THEN bookmark' = [bookmark EXCEPT ![k].id = 0] /\ Turns(t, "deleted")
                   ELSE UNCHANGED bookmark /\ Turns(t, "failed")
      /\ UNCHANGED <<chosenVars, boot, hearts, marred, happened>>

\* The callback of the answer.
Receive(t) ==
  LET j == toggle[t].job
      late == IF boot.pc = "answered" THEN marred \union {j} ELSE marred
  IN  /\ ~due
      /\ \/ toggle[t].pc = "found" /\ Turns(t, "delete") /\ UNCHANGED <<hearts, marred>>
         \/ /\ toggle[t].pc = "created" /\ Turns(t, "done")
            /\ hearts' = hearts \union {j} /\ marred' = late
         \/ /\ toggle[t].pc = "deleted" /\ Turns(t, "done")
            /\ hearts' = hearts \ {j} /\ marred' = late
      /\ UNCHANGED <<chosenVars, boot, bookmark, happened>>

\* A request fails, or its answer is lost: nothing is shown of it.
Fail(t) ==
  /\ t \in Pending
  /\ Turns(t, "failed")
  /\ marred' = IF toggle[t].pc \in {"created", "deleted"} THEN marred \union {toggle[t].job}
                                                           ELSE marred
  /\ UNCHANGED <<chosenVars, boot, hearts, bookmark, happened>>

\* The same user adds or removes a bookmark on another page.
Elsewhere(j) ==
  /\ happened < MaxEvents /\ happened' = happened + 1
  /\ bookmark' = [bookmark EXCEPT ![j] =
       IF @.id = 0 THEN [id |-> @.last + 1, last |-> @.last + 1] ELSE [@ EXCEPT !.id = 0]]
  /\ marred' = marred \union {j}
  /\ UNCHANGED <<chosenVars, boot, hearts, toggle>>

-----------------------------------------------------------------------------
PageNext ==
  \/ \E f \in Filters : SetFilters(f)
  \/ SetPage
  \/ \E f \in Filters : JobsChange(f)
  \/ \E m \in Months : SetMonth(m)
  \/ Render \/ Microtask
  \/ \E f \in fetches : JobsAnswer(f) \/ CalendarAnswer(f)
  \/ BootUser \/ BootServe \/ BootAnswer
  \/ \E t \in Toggles : Click(t) \/ Serve(t) \/ Receive(t) \/ Fail(t)
  \/ \E j \in Postings : Elsewhere(j)

PageSpec == PageInit /\ [][PageNext]_pageVars

-----------------------------------------------------------------------------
(* Properties                                                              *)

PageTypes ==
  /\ chosen \in Chosen /\ touched \subseteq {"filters", "query", "page", "month"}
  /\ fetches \subseteq Fetch
  /\ list \in Listed \union {Nothing} /\ calendar \in Shown \union {Nothing}
  /\ {due, loading, error, calendarError} \subseteq BOOLEAN
  /\ pages \in [Filters -> Nat] /\ amiss \subseteq {"failed", "fell"}
  /\ boot \in Boot /\ hearts \subseteq Postings /\ marred \subseteq Postings
  /\ bookmark \in [Postings -> [id : Nat, last : Nat]]
  /\ toggle \in [Toggles -> Toggle] /\ happened \in 0..MaxEvents

\* Rendered: nothing was set since, and microtasks have run.
Rendered == touched = {} /\ ~due

\* The list shown is this page of what these filters find.
ListOf(filters, page) == list # Nothing /\ list.filters = filters /\ list.page = page

\* However answers are reordered, list and calendar are those of the filters, page
\* and month that are chosen, unless the page says that they are being loaded or
\* could not be: the calendar has no sign of loading after the first time, so it
\* is stale only as long as its request is under way.
ListIsCurrent ==
  Rendered =>
    /\ ~loading /\ ~error => ListOf(chosen.filters, chosen.page)
    /\ ~calendarError /\ (\A f \in fetches : f.what = "calendar" => ~f.live)
         => calendar = [filters |-> chosen.filters, month |-> chosen.month]

\* The page that is shown exists on the server, or is the first, so it is not empty
\* with no pagination to leave it by.  Since the filters were chosen, two things can
\* make it otherwise: a list failed to load, and the pagination counts the pages of
\* other filters; or the server has fewer pages for them than it had, and the page
\* was clicked on an older count or lost its jobs.
PageExists ==
  Rendered /\ ~loading /\ ~error /\ amiss = {}
    => chosen.page = 1 \/ chosen.page <= pages[chosen.filters]

\* At rest a heart is lit exactly if the server has the bookmark, for every job but
\* those whose bookmark was changed elsewhere, whose clicks overlapped, were
\* answered while the first list of bookmarks was on its way, or were carried out
\* without an answer.  If the first list failed, a lit heart still has its bookmark,
\* but a dark one may have one too: a click on it is refused and it stays dark.
\* Clicks on different hearts may overlap in any way.
HeartsTrue ==
  boot.pc \in {"done", "failed"} /\ boot.seeker
    => \A j \in Postings \ marred :
         (\A t \in Pending : toggle[t].job # j) =>
           /\ j \in hearts => bookmark[j].id # 0
           /\ boot.pc = "done" /\ bookmark[j].id # 0 => j \in hearts

-----------------------------------------------------------------------------
(* The inductive invariant behind them                                     *)

Live(what) == {f \in fetches : f.what = what /\ f.live}

\* The request whose answer is not ignored is the one for what is chosen; once
\* nothing is said to be loading, so is what is shown.
ListFollows ==
  touched \intersect {"filters", "page"} = {} =>
    LET now == [filters |-> chosen.filters, page |-> chosen.page]
    IN  /\ \A f \in Live("jobs") : f.want = now
        /\ ~due /\ ~loading /\ ~error => ListOf(chosen.filters, chosen.page)

CalendarFollows ==
  touched \intersect {"filters", "month"} = {} =>
    LET now == [filters |-> chosen.filters, month |-> chosen.month]
    IN  /\ \A f \in Live("calendar") : f.want = now
        /\ ~calendarError /\ Live("calendar") = {} => calendar = now

\* The filters agree even when the page was just changed, so the pagination
\* counts the pages of the list that is asked for.
PagesFollow ==
  /\ "query" \in touched => "filters" \in touched
  /\ "query" \notin touched =>
       /\ \A f \in Live("jobs") : f.want.filters = chosen.filters
       /\ ~due /\ ~loading /\ error => "failed" \in amiss
       /\ ~due /\ ~loading /\ ~error =>
            /\ list # Nothing /\ list.filters = chosen.filters
            /\ "fell" \notin amiss => list.pages <= pages[chosen.filters]
       /\ amiss = {} => chosen.page = 1 \/ chosen.page <= pages[chosen.filters]

\* The hearts there are, or will be once the first list of bookmarks is in.
Lit == IF boot.pc = "answered" THEN boot.saw ELSE hearts

Served(j) == {t \in Toggles : toggle[t].job = j /\ toggle[t].pc \in {"created", "deleted"}}

\* What a click knows of its bookmark until its answer is in; one at a time for
\* each job that is not marred.
HeartsFollow ==
  /\ \A t \in Toggles : toggle[t].pc \in {"found", "delete"} => toggle[t].bm[1] = toggle[t].job
  /\ \A t \in Pending : toggle[t].job \in Postings
  /\ \A t, u \in Pending : t # u /\ toggle[t].job = toggle[u].job => toggle[t].job \in marred
  /\ \A j \in Postings \ marred : \A t \in Served(j) :
       toggle[t].pc = "created" <=> bookmark[j].id # 0
  /\ boot.pc = "user" => ~boot.seeker
  /\ boot.pc \in {"asked", "answered"} => boot.seeker
  /\ boot.seeker /\ boot.pc \in {"answered", "done"} =>
       \A j \in Postings \ marred :
         Served(j) = {} => (j \in Lit <=> bookmark[j].id # 0)
  /\ \A j \in Postings \ marred : Served(j) = {} /\ j \in hearts => bookmark[j].id # 0

PageInv == PageTypes /\ ListFollows /\ CalendarFollows /\ PagesFollow /\ HeartsFollow
=============================================================================
