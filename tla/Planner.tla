------------------------------ MODULE Planner ------------------------------
(***************************************************************************)
(* The pages that keep what the server told them in a list of their own    *)
(* (React's useState, outside the query cache): the projects page, the     *)
(* calendar and the audit log.  They load the list in an effect, append    *)
(* what they create, and let an answer land whenever it arrives.           *)
(*                                                                         *)
(* A topic is a month of the calendar, a target type of the audit log or a *)
(* status of projects; every row belongs to one.  The calendar and the     *)
(* audit log ask the server for the topic on screen; the projects page     *)
(* loads everything and filters in the browser.  Pick is the question on   *)
(* screen, All the one of every topic.                                     *)
(***************************************************************************)
EXTENDS Pages, Integers, FiniteSets

CONSTANTS Topics, All, Rows, TopicOf,
          ThisMonth, \* the month the calendar opens on
          MaxLoads   \* bound: how many loads a visit may start

ASSUME PlannerAssumption == All \notin Topics /\ ThisMonth \in Topics

VARIABLES stored,     \* the rows the server holds
          mine,       \* the rows this visit created
          pick,       \* currentMonth; targetType; statusFilter
          list,       \* row -> how often the page's list holds it
          loads,      \* the loads under way
          started,    \* how many loads were started
          loading,    \* isLoading
          loadError,  \* loadError; the calendar only raises a toast
          post,       \* the create under way: [st, row, dialog]
          dialogs,    \* the two create dialogs of a page: [open, typed]
          day,        \* the calendar's selectedDate: its sheet is open
          mixed,      \* history: own rows whose create was under way with a
                      \* load, until one begun after its answer has landed
          last        \* history: the load that landed last: [n, whole]

plannerVars == <<stored, mine, pick, list, loads, started, loading, loadError, post, dialogs, day, mixed, last>>

Picks(t) == IF t = "calendar" THEN Topics ELSE Topics \cup {All}
Places == {"header", "page"}
NoDialog == [open |-> FALSE, typed |-> FALSE]
\* met (history): a load was under way during the create.
NoPost == [st |-> "none", row |-> {}, dialog |-> "header", met |-> FALSE]

\* An open dialog covers the page.
Modal == \E d \in Places : dialogs[d].open

\* What getProjects, getEvents and the audit log's load ask for.
Question == IF page = "projects" THEN All ELSE pick
getEvents(q) == {r \in stored : q = All \/ TopicOf[r] = q}

PlannerTypeOK ==
    /\ page \in PlannerPages => pick \in Picks(page)
    /\ mine \subseteq stored /\ stored \subseteq Rows
    /\ list \in [Rows -> 0..2]
    /\ loads \subseteq [n : 1..MaxLoads, of : Topics \cup {All}, rows : SUBSET Rows, read : BOOLEAN,
                       whole : BOOLEAN, sure : SUBSET Rows]
    /\ started \in 0..MaxLoads
    /\ {loading, loadError, day} \subseteq BOOLEAN
    /\ post \in [st : {"none", "sent", "stored", "failed"}, row : SUBSET Rows, dialog : Places,
                 met : BOOLEAN]
    /\ dialogs \in [Places -> [open : BOOLEAN, typed : BOOLEAN]]
    /\ mixed \subseteq Rows /\ last \in [n : 0..MaxLoads, whole : BOOLEAN]

\* whole and sure (history): read from the server, and the own rows it cannot miss.
LoadOf(n, q, rows) ==
    [n |-> n, of |-> q, rows |-> {}, read |-> FALSE, whole |-> FALSE, sure |-> rows]

\* A load begins, next to whatever is under way.
Load(q) ==
    /\ started < MaxLoads
    /\ started' = started + 1
    /\ loads' = loads \cup {LoadOf(started + 1, q, mine \ post.row)}
    /\ loading' = TRUE
    /\ post' = [post EXCEPT !.met = post.st # "none"]
    /\ UNCHANGED <<mixed, last>>

PlannerInit ==
    /\ stored = {} /\ mine = {}
    /\ pick = IF page = "calendar" THEN ThisMonth ELSE All
    /\ list = [r \in Rows |-> 0]
    /\ loads = {LoadOf(1, Question, {})} /\ started = 1
    /\ loading = TRUE /\ loadError = FALSE
    /\ post = NoPost /\ dialogs = [d \in Places |-> NoDialog]
    /\ day = FALSE
    /\ mixed = {} /\ last = [n |-> 0, whole |-> FALSE]

-----------------------------------------------------------------------------
(* The server's side of a request. *)

LoadRead(l) ==
    /\ l \in loads /\ ~l.read
    /\ loads' = (loads \ {l}) \cup {[l EXCEPT !.read = TRUE, !.rows = getEvents(l.of), !.whole = TRUE]}
    /\ UNCHANGED <<stored, mine, pick, list, started, loading, loadError, post, dialogs, day, mixed, last>>

\* Without a session cookie, without a workspace, or with the lookup of it
\* refused, the routes answer an empty list with 200.  (The audit log's does so
\* without a workspace only.)
EmptyForARefusal(l) ==
    /\ l \in loads /\ ~l.read
    /\ loads' = (loads \ {l}) \cup {[l EXCEPT !.read = TRUE]}
    /\ UNCHANGED <<stored, mine, pick, list, started, loading, loadError, post, dialogs, day, mixed, last>>

\* Somebody else creates a project or an event, or does what the log records.
OthersAdd(r) ==
    /\ r \in Rows \ stored
    /\ stored' = stored \cup {r}
    /\ UNCHANGED <<mine, pick, list, loads, started, loading, loadError, post, dialogs, day, mixed, last>>

PostStored(r) ==
    /\ post.st = "sent" /\ r \in Rows \ stored
    /\ stored' = stored \cup {r} /\ mine' = mine \cup {r}
    /\ post' = [post EXCEPT !.st = "stored", !.row = {r}]
    /\ UNCHANGED <<pick, list, loads, started, loading, loadError, dialogs, day, mixed, last>>

\* Refused, or the answer is lost: the page cannot tell.
PostFails ==
    /\ post.st \in {"sent", "stored"}
    /\ post' = [post EXCEPT !.st = "failed"]
    /\ mine' = mine \ post.row
    /\ UNCHANGED <<stored, pick, list, loads, started, loading, loadError, dialogs, day, mixed, last>>

-----------------------------------------------------------------------------
(* The projects page. *)

ProjectsLoadLands(l) ==
    /\ list' = [r \in Rows |-> IF r \in l.rows THEN 1 ELSE 0]
    /\ loading' = FALSE
    /\ UNCHANGED loadError

ProjectsLoadFails ==
    /\ loadError' = TRUE /\ loading' = FALSE
    /\ UNCHANGED list

\* The status pills filter what is loaded.
StatusFilterPills(s) ==
    /\ page = "projects" /\ ~Modal /\ s \in Picks(page) \ {pick}
    /\ pick' = s
    /\ UNCHANGED <<stored, mine, list, loads, started, loading, loadError, post, dialogs, day, mixed, last>>

Filtered == {r \in Rows : list[r] > 0 /\ (pick = All \/ TopicOf[r] = pick)}

\* What ProjectList draws, and what the page draws around it.
ProjectList ==
    IF loading THEN "skeleton" ELSE IF Filtered = {} THEN "create" ELSE "cards"
ProjectsView ==
    IF loadError THEN "error"
    ELSE IF ~loading /\ (\E r \in Rows : list[r] > 0) /\ Filtered = {} THEN "none of this status"
    ELSE ProjectList

Retry ==
    /\ page = "projects" /\ ~Modal /\ ProjectsView = "error"
    /\ Load(All) /\ loadError' = FALSE
    /\ UNCHANGED <<stored, mine, pick, list, dialogs, day>>

-----------------------------------------------------------------------------
(* The calendar. *)

\* A failed load leaves the events of the month before.
CalendarLoadLands(l) ==
    /\ list' = [r \in Rows |-> IF r \in l.rows THEN 1 ELSE 0]
    /\ loading' = FALSE /\ loadError' = FALSE
CalendarLoadFails ==
    /\ loadError' = TRUE /\ loading' = FALSE
    /\ UNCHANGED list

\* The grid draws the days of the month on screen, whatever the list holds.
eventsByDate == [r \in Rows |-> IF TopicOf[r] = pick THEN list[r] ELSE 0]

\* Previous, Next and Today: each is a new Date, so Today loads again.
CalendarViewShell(m) ==
    /\ page = "calendar" /\ ~day /\ ~Modal /\ m \in Topics
    /\ pick' = m
    /\ Load(m)
    /\ UNCHANGED <<stored, mine, list, loadError, dialogs, day>>

DayPicker ==
    /\ page = "calendar" /\ ~day /\ ~Modal
    /\ day' = TRUE
    /\ UNCHANGED <<stored, mine, pick, list, loads, started, loading, loadError, post, dialogs, mixed, last>>

DaySheetCloses ==
    /\ day /\ day' = FALSE
    /\ UNCHANGED <<stored, mine, pick, list, loads, started, loading, loadError, post, dialogs, mixed, last>>

-----------------------------------------------------------------------------
(* The audit log. *)

AuditLoadLands(l) ==
    /\ list' = [r \in Rows |-> IF r \in l.rows THEN 1 ELSE 0]
    /\ loading' = FALSE /\ loadError' = FALSE
AuditLoadFails ==
    /\ list' = [r \in Rows |-> 0]
    /\ loading' = FALSE /\ loadError' = TRUE

\* Another target type, or Enter in the search field for the same one.
AuditFilter(q) ==
    /\ page = "audit" /\ q \in Picks(page)
    /\ pick' = q
    /\ Load(q)
    /\ UNCHANGED <<stored, mine, list, loadError, dialogs, day>>

AuditTable == IF loading THEN [r \in Rows |-> 0] ELSE list

-----------------------------------------------------------------------------
(* Loads and creates land. *)

LoadLands(l) ==
    /\ l \in loads /\ l.read
    /\ loads' = loads \ {l}
    /\ CASE page = "projects" -> ProjectsLoadLands(l)
         [] page = "calendar" -> CalendarLoadLands(l)
         [] page = "audit" -> AuditLoadLands(l)
    /\ last' = [n |-> l.n, whole |-> l.whole] /\ mixed' = mixed \ l.sure
    /\ UNCHANGED <<stored, mine, pick, started, post, dialogs, day>>

LoadFails(l) ==
    /\ l \in loads
    /\ loads' = loads \ {l}
    /\ CASE page = "projects" -> ProjectsLoadFails
         [] page = "calendar" -> CalendarLoadFails
         [] page = "audit" -> AuditLoadFails
    /\ UNCHANGED <<stored, mine, pick, started, post, dialogs, day, mixed, last>>

\* The dialog in the header is always there; the projects page offers the
\* second one on its empty list only.
Offered(d) ==
    /\ ~day /\ ~Modal
    /\ d = "header" \/ page = "calendar" \/ ProjectsView = "create"

\* Once the list has cards again the second dialog is gone with its text.
Mounted(ds, there) == IF there THEN ds ELSE [ds EXCEPT !["page"] = NoDialog]
CardsDraw(l) == \E r \in Rows : l[r] > 0

\* isSubmitting; the calendar's own dialog is handed isLoading too.
Disabled(d) == post.st # "none" \/ (page = "calendar" /\ d = "page" /\ loading)

OpenDialog(d) ==
    /\ Offered(d)
    /\ dialogs' = [dialogs EXCEPT ![d].open = TRUE]
    /\ UNCHANGED <<stored, mine, pick, list, loads, started, loading, loadError, post, day, mixed, last>>

\* Cancel keeps the text of the form.
CloseDialog(d) ==
    /\ dialogs[d].open
    /\ dialogs' = [dialogs EXCEPT ![d].open = FALSE]
    /\ UNCHANGED <<stored, mine, pick, list, loads, started, loading, loadError, post, day, mixed, last>>

FillIn(d) ==
    /\ dialogs[d].open /\ ~dialogs[d].typed
    /\ dialogs' = [dialogs EXCEPT ![d].typed = TRUE]
    /\ UNCHANGED <<stored, mine, pick, list, loads, started, loading, loadError, post, day, mixed, last>>

\* handleSubmit, and the first half of handleCreate.
Submit(d) ==
    /\ dialogs[d].open /\ dialogs[d].typed /\ ~Disabled(d)
    /\ post' = [st |-> "sent", row |-> {}, dialog |-> d, met |-> loads # {}]
    /\ UNCHANGED <<stored, mine, pick, list, loads, started, loading, loadError, dialogs, day, mixed, last>>

CreateProjectDialog(d) ==
    page = "projects" /\ (OpenDialog(d) \/ CloseDialog(d) \/ FillIn(d) \/ Submit(d))
CreateEventDialog(d) ==
    page = "calendar" /\ (OpenDialog(d) \/ CloseDialog(d) \/ FillIn(d) \/ Submit(d))

\* Mutant: a create answers, but the page forgets to append it.
mut_NothingAppended == list

\* The second half: the answer is appended, and, as the page swallows an
\* error, the dialog closes and forgets its text however the create ended.
Appended == [r \in Rows |-> IF post.st = "stored" /\ r \in post.row THEN list[r] + 1 ELSE list[r]]
ClosedAfter == [dialogs EXCEPT ![post.dialog] = NoDialog]

handleCreateProject ==
    /\ page = "projects" /\ list' = Appended
    /\ dialogs' = Mounted(ClosedAfter, ~CardsDraw(Appended))
handleCreateEvent ==
    /\ page = "calendar" /\ list' = Appended
    /\ dialogs' = ClosedAfter

PostAnswered ==
    /\ post.st \in {"stored", "failed"}
    /\ \A r \in post.row : list[r] < 2
    /\ handleCreateProject \/ handleCreateEvent
    /\ post' = NoPost
    /\ mixed' = IF post.met THEN mixed \cup post.row ELSE mixed
    /\ UNCHANGED <<stored, mine, pick, loads, started, loading, loadError, day, last>>

PlannerNext ==
    \/ \E l \in loads : LoadRead(l) \/ EmptyForARefusal(l) \/ LoadLands(l) \/ LoadFails(l)
    \/ \E r \in Rows : OthersAdd(r) \/ PostStored(r)
    \/ PostFails \/ PostAnswered \/ Retry \/ DayPicker \/ DaySheetCloses
    \/ \E q \in Topics \cup {All} : StatusFilterPills(q) \/ AuditFilter(q)
    \/ \E m \in Topics : CalendarViewShell(m)
    \/ \E d \in Places : CreateProjectDialog(d) \/ CreateEventDialog(d)

-----------------------------------------------------------------------------
\* What is on screen, as copies of each row.
OnScreen ==
    CASE page = "calendar" -> eventsByDate
      [] page = "audit" -> AuditTable
      [] page = "projects" -> [r \in Rows |-> IF r \in Filtered /\ ProjectsView = "cards" THEN list[r] ELSE 0]

(* When nothing is under way and no error is shown, the page shows no row   *)
(* twice and, unless an older load landed after a newer one, none that does *)
(* not answer the question on screen and every row this visit created that  *)
(* does -- except after an empty list in place of the server's, and for     *)
(* rows created while a load was under way: one that read before the create *)
(* and lands after its answer drops the row, one that read after and lands  *)
(* before doubles it, until the next load.                                  *)
SettledListsAreCurrent ==
    (page \in PlannerPages /\ loads = {} /\ post.st = "none" /\ ~loadError) =>
        \A r \in Rows :
            LET asked == pick = All \/ TopicOf[r] = pick IN
            /\ r \notin mixed => OnScreen[r] <= 1
            /\ last.n = started =>
                  /\ OnScreen[r] > 0 => r \in stored /\ asked
                  /\ r \in mine \ mixed /\ asked /\ last.whole => OnScreen[r] = 1

=============================================================================
