----------------------------- MODULE TaskBoard -----------------------------
(***************************************************************************)
(* One browser's kanban board of one project, against the task rows that   *)
(* it and everybody else write.                                            *)
(*                                                                         *)
(* The board keeps three copies of a task: the cached list, the columns    *)
(* the drag machinery moves cards between, and the fields of the open      *)
(* detail sheet, copied once when the sheet mounts.  Description stands for *)
(* the fields saved on blur (with title and position), status and assignee *)
(* for the selects that are sent at once (with priority).                  *)
(* Order inside a column is left out.                                      *)
(***************************************************************************)
EXTENDS Pages, Naturals, FiniteSets, QueryEntry

CONSTANTS
    Tasks, Columns, Texts, Members,
    Null,       \* no description, no assignee
    Unborn,     \* an id not yet given to a task
    Gone,       \* a deleted task; in a list, a task that is not there
    NoId,       \* no card selected, nothing dragged, no target
    Slots,      \* mutations of this browser that may be in flight at once
    MaxCommits  \* bound: rows are written while fewer commits have happened

ASSUME TaskBoardAssumption ==
    /\ Null \notin Members \cup Texts \cup Columns
    /\ NoId \notin Tasks \cup Columns /\ Columns \cap Tasks = {}
    /\ Unborn # Gone
    /\ MaxCommits \in Nat

Fields == {"description", "status", "assignee"}
SelectFields == {"status", "assignee"}
ValueOf(f) == CASE f = "description" -> Texts \cup {Null}
                [] f = "status" -> Columns
                [] f = "assignee" -> Members \cup {Null}
Row == [description : Texts \cup {Null}, status : Columns, assignee : Members \cup {Null}]
ASSUME MarksAreNotRows == Unborn \notin Row /\ Gone \notin Row

VARIABLES
    rows,       \* the tasks table: id -> row
    commits,    \* how many commits rows has seen
    query,      \* the cache entry of this project's task list
    shown,      \* the board is on screen
    columns,    \* column -> cards
    activeId,   \* what is being dragged
    selected,   \* selectedTaskId
    local,      \* the sheet's own copy of the selected task, Gone if not mounted
    muts,       \* slot -> mutation
    acked,      \* history: newest own commit that was acknowledged
    touched,    \* history: fields of the open sheet changed by its user or by a refetch
    strayed     \* history: the GET under way has outlived the board that asked

serverVars == <<rows, commits>>
sheetVars == <<selected, local, touched>>
taskBoardVars == <<rows, commits, query, shown, columns, activeId, selected, local,
                   muts, acked, touched, strayed>>

\* whole (history): the server's tasks, not the empty list that stands for none.
List == [list : [Tasks -> Row \cup {Gone}], at : 0..MaxCommits, whole : BOOLEAN]
NoList == [list |-> [t \in Tasks |-> Gone], at |-> 0, whole |-> FALSE]
NoMutation == [phase |-> "none"]
\* A payload gives some fields a value: DOMAIN payload is what is sent.
Payloads == {p \in UNION {[F -> UNION {ValueOf(f) : f \in Fields}] : F \in SUBSET Fields \ {{}}} :
                \A f \in DOMAIN p : p[f] \in ValueOf(f)}
\* "sent": on its way; "done": its answer is on the way back;
\* "settling": acknowledged, its refetch has not landed, isPending still holds.
\* move: what to roll back if it fails, kept for the board's latest drop only.
\* History of a payload: its fields that the user did not edit and that no
\* refetch changed under the open sheet.
NoMove == [task |-> NoId, from |-> NoId, to |-> NoId]
Moves == [task : Tasks, from : Columns, to : Columns] \cup {NoMove}
Mutation ==
    [phase : {"sent"}, task : Tasks \cup {NoId}, payload : Payloads, untouched : SUBSET Fields,
     move : Moves]
        \cup [phase : {"done"}, commit : 0..MaxCommits, move : Moves]
        \cup [phase : {"settling"}]

BoardTypeOK ==
    /\ rows \in [Tasks -> Row \cup {Unborn, Gone}] /\ commits \in 0..MaxCommits
    /\ query \in Entry(List) /\ shown \in BOOLEAN
    /\ columns \in [Columns -> SUBSET Tasks]
    /\ activeId \in Tasks \cup Columns \cup {NoId}
    /\ selected \in Tasks \cup {NoId} /\ local \in Row \cup {Gone}
    /\ muts \in [Slots -> Mutation \cup {NoMutation}]
    /\ acked \in 0..MaxCommits
    /\ touched \subseteq Fields /\ strayed \in BOOLEAN

-----------------------------------------------------------------------------
\* Server

\* GET /projects/{id}/tasks
list_project_tasks ==
    [list |-> [t \in Tasks |-> IF rows[t] \in Row THEN rows[t] ELSE Gone], at |-> commits,
     whole |-> TRUE]

\* PATCH /tasks/{id}: a null in the payload is taken for a field not sent.
update_task(row, payload) ==
    [f \in Fields |-> IF f \in DOMAIN payload /\ payload[f] # Null THEN payload[f] ELSE row[f]]

\* POST /projects/{id}/tasks: the board sends a title and the column.
create_task(payload) ==
    [f \in Fields |-> IF f \in DOMAIN payload THEN payload[f] ELSE Null]

Commit(t, row) ==
    /\ commits < MaxCommits
    /\ commits' = commits + 1
    /\ rows' = [rows EXCEPT ![t] = row]

\* Another member edits or deletes a task.
OtherUpdates ==
    /\ \E t \in Tasks, f \in Fields : \E v \in ValueOf(f) :
        /\ rows[t] \in Row /\ rows[t] # update_task(rows[t], [g \in {f} |-> v])
        /\ Commit(t, update_task(rows[t], [g \in {f} |-> v]))
    /\ UNCHANGED <<query, shown, columns, activeId, sheetVars, muts, acked, strayed>>

delete_task ==
    /\ \E t \in Tasks : rows[t] \in Row /\ Commit(t, Gone)
    /\ UNCHANGED <<query, shown, columns, activeId, sheetVars, muts, acked, strayed>>

-----------------------------------------------------------------------------
\* The board's copies of the list

\* The columns a list of tasks is shown in.
buildColumns(list) == [c \in Columns |-> {t \in Tasks : list[t] # Gone /\ list[t].status = c}]

\* The list in the cache changes to q.data: the columns follow in an effect,
\* and the sheet mounts, unmounts or stays as the selected task is in the list.
Show(q) ==
    LET before == query.data.list  after == q.data.list IN
    /\ query' = q
    /\ columns' = IF after # before \/ ~shown THEN buildColumns(after) ELSE columns
    /\ IF selected = NoId \/ after[selected] = Gone
       THEN local' = Gone /\ touched' = {}
       ELSE IF local = Gone
       THEN local' = after[selected] /\ touched' = {}
       ELSE /\ touched' = touched \cup {f \in Fields : after[selected][f] # before[selected][f]}
            /\ UNCHANGED local

\* While "Loading tasks..." stands in for the board nothing is dragged.
EndsWhenLoading(q) == activeId' = IF Loading(q) THEN NoId ELSE activeId

\* React Query refetches when the window regains focus or the network returns.
Refocus ==
    /\ shown /\ ~Fetching(query)
    /\ query' = Ask(query) /\ strayed' = FALSE
    /\ EndsWhenLoading(query')
    /\ UNCHANGED <<serverVars, shown, columns, sheetVars, muts, acked>>

ServerReads ==
    /\ query.get = "asked"
    /\ query' = Answer(query, list_project_tasks)
    /\ UNCHANGED <<serverVars, shown, columns, activeId, sheetVars, muts, acked, strayed>>

\* Without a session cookie, or with the lookup of the workspace refused, the
\* route answers an empty list with 200.
LookupRefused ==
    /\ query.get = "asked"
    /\ query' = Answer(query, NoList)
    /\ UNCHANGED <<serverVars, shown, columns, activeId, sheetVars, muts, acked, strayed>>

\* Mutations whose refetch has ended are no longer pending.
Settled == [s \in Slots |-> IF muts[s].phase = "settling" THEN NoMutation ELSE muts[s]]

GetLands ==
    /\ query.get = "read"
    /\ Show(Land(query)) /\ muts' = Settled
    /\ UNCHANGED <<serverVars, shown, activeId, selected, acked, strayed>>

GetFails ==
    /\ Fetching(query)
    /\ query' = Lose(query) /\ muts' = Settled
    /\ UNCHANGED <<serverVars, shown, columns, activeId, sheetVars, acked, strayed>>

\* A mutation calls back only the board that sent it, for its latest drop.
Forgotten == [s \in Slots |-> IF muts[s].phase \in {"sent", "done"}
                             THEN [muts[s] EXCEPT !.move = NoMove] ELSE muts[s]]

\* Another project is selected in the URL, or this one again: the board is
\* keyed by project, so it unmounts and mounts anew from what is cached.
LeaveBoard ==
    /\ shown /\ shown' = FALSE
    /\ activeId' = NoId
    /\ selected' = NoId /\ local' = Gone /\ touched' = {}
    /\ strayed' = Fetching(query)
    /\ muts' = Forgotten
    /\ UNCHANGED <<serverVars, query, columns, acked>>

EnterBoard ==
    /\ ~shown /\ shown' = TRUE
    /\ columns' = buildColumns(query.data.list)
    /\ \E stale \in {TRUE, query.invalid} :     \* older than 60 s, or marked
          LET ask == stale /\ ~Fetching(query) IN
          /\ query' = IF ask THEN Ask(query) ELSE query
          /\ strayed' = IF ask THEN FALSE ELSE strayed
    /\ UNCHANGED <<serverVars, activeId, sheetVars, muts, acked>>

-----------------------------------------------------------------------------
\* Mutations

Free(s) == muts[s].phase = "none"

mutate(s, t, payload, changed) ==
    muts' = [muts EXCEPT ![s] = [phase |-> "sent", task |-> t, payload |-> payload,
                                 untouched |-> DOMAIN payload \ changed, move |-> NoMove]]

\* PATCH, or POST when the task has no id yet: it commits, or fails before.
ServerCommits(s) ==
    /\ muts[s].phase = "sent"
    /\ \E t \in Tasks :
        /\ IF muts[s].task = NoId THEN rows[t] = Unborn ELSE t = muts[s].task /\ rows[t] \in Row
        /\ Commit(t, IF muts[s].task = NoId
                     THEN create_task(muts[s].payload)
                     ELSE update_task(rows[t], muts[s].payload))
    /\ muts' = [muts EXCEPT ![s] = [phase |-> "done", commit |-> commits', move |-> muts[s].move]]
    /\ UNCHANGED <<query, shown, columns, activeId, sheetVars, acked, strayed>>

\* Mutant: the list is not invalidated.
mut_SuccessKeepsTheList(s) ==
    /\ muts[s].phase = "done"
    /\ acked' = IF muts[s].commit > acked THEN muts[s].commit ELSE acked
    /\ muts' = [muts EXCEPT ![s] = NoMutation]
    /\ UNCHANGED <<serverVars, query, shown, columns, activeId, sheetVars, strayed>>

\* onSuccess returns the promise of invalidateQueries, so the mutation is
\* pending until the list has been refetched; a GET this cancels releases the
\* mutations that were waiting for it, one it joins does not.
onSuccess(s) ==
    /\ muts[s].phase = "done"
    /\ acked' = IF muts[s].commit > acked THEN muts[s].commit ELSE acked
    /\ query' = Invalidate(query, shown)
    /\ EndsWhenLoading(query')
    /\ muts' = IF ~shown THEN [muts EXCEPT ![s] = NoMutation]
               ELSE [(IF Loading(query) THEN muts ELSE Settled) EXCEPT ![s] = [phase |-> "settling"]]
    /\ strayed' = (strayed /\ (~shown \/ Loading(query)))
    /\ UNCHANGED <<serverVars, shown, columns, sheetVars>>

\* Refused (404, 403, 5xx), never arrived, or written with the answer lost: a
\* toast, and what the sheet shows stays as the user left it.  The card of a
\* failed drop goes back to where it came from.
onError(s) ==
    /\ muts[s].phase \in {"sent", "done"}
    /\ muts' = [muts EXCEPT ![s] = NoMutation]
    /\ columns' = LET m == muts[s].move IN
                  IF m = NoMove THEN columns
                  ELSE [columns EXCEPT ![m.to] = @ \ {m.task}, ![m.from] = @ \cup {m.task}]
    /\ UNCHANGED <<serverVars, query, shown, activeId, sheetVars, acked, strayed>>

-----------------------------------------------------------------------------
\* The detail sheet, which is modal

boardVars == <<serverVars, query, shown, columns, activeId, acked, strayed>>

\* A click or Enter on a card; the body mounts if the list has the task.
OpenSheet(t) ==
    /\ shown /\ local = Gone /\ activeId = NoId
    /\ \E c \in Columns : t \in columns[c]
    /\ selected' = t /\ local' = query.data.list[t] /\ touched' = {}
    /\ UNCHANGED <<serverVars, query, shown, columns, activeId, acked, strayed, muts>>

CloseSheet ==
    /\ local # Gone
    /\ selected' = NoId /\ local' = Gone /\ touched' = {}
    /\ UNCHANGED <<boardVars, muts>>

TypeText ==
    /\ local # Gone
    /\ \E f \in Fields \ SelectFields : \E v \in ValueOf(f) \ {local[f]} :
        /\ local' = [local EXCEPT ![f] = v] /\ touched' = touched \cup {f}
    /\ UNCHANGED <<boardVars, selected, muts>>

\* Mutant: the form is sent whole.
mut_EveryField == Fields

\* The fields whose copy differs from the task as the list has it now.
Differing == {f \in Fields : local[f] # query.data.list[selected][f]}

\* On blur of a text field, and on the button.
handleSave(s) ==
    /\ local # Gone /\ Free(s) /\ Differing # {}
    /\ mutate(s, selected, [f \in Differing |-> local[f]], touched)
    /\ UNCHANGED <<boardVars, sheetVars>>

\* A select changes: it is copied and sent at once.
PickSelect(s) ==
    /\ local # Gone /\ Free(s)
    /\ \E f \in SelectFields : \E v \in ValueOf(f) \ {local[f]} :
        /\ local' = [local EXCEPT ![f] = v] /\ touched' = touched \cup {f}
        /\ mutate(s, selected, [g \in {f} |-> v], {f})
    /\ UNCHANGED <<boardVars, selected>>

-----------------------------------------------------------------------------
\* The quick-add form at the foot of a column: it sends a title and its column
\* and stays open, emptied, whatever becomes of the request; it closes on Escape,
\* when focus leaves it, and on submitting nothing.
submit(s) ==
    /\ shown /\ ~Loading(query) /\ local = Gone /\ activeId = NoId /\ Free(s)
    /\ \E c \in Columns : mutate(s, NoId, [f \in {"status"} |-> c], {"status"})
    /\ UNCHANGED <<boardVars, sheetVars>>

-----------------------------------------------------------------------------
\* Dragging

\* Only what carries the sensor's listeners can be picked up.  A column has its
\* handle; TaskCard renders a KanbanItem that is neither its own handle nor has one.
Listens(id) == id \in Columns

DragStart(id) ==
    /\ shown /\ ~Loading(query) /\ local = Gone /\ activeId = NoId /\ Listens(id)
    /\ activeId' = id
    /\ UNCHANGED <<serverVars, query, shown, columns, sheetVars, muts, acked, strayed>>

\* What the pointer can be over: columns only, for a column.
collisionDetection(active) == IF active \in Columns THEN Columns ELSE Tasks \cup Columns

getColumn(value, id) ==
    IF id \in Columns THEN id
    ELSE IF \E c \in Columns : id \in value[c] THEN CHOOSE c \in Columns : id \in value[c]
    ELSE NoId

\* A card dragged over another column, or a card of it, is moved there at once.
MovedOver(value, active, target) ==
    LET from == getColumn(value, active)  to == getColumn(value, target) IN
    IF from = NoId \/ to = NoId \/ from = to \/ active \notin value[from] THEN value
    ELSE [value EXCEPT ![from] = @ \ {active}, ![to] = @ \cup {active}]

onDragOver ==
    /\ activeId # NoId
    /\ \E id \in collisionDetection(activeId) :
        columns' = MovedOver(columns, activeId, id)
    /\ UNCHANGED <<serverVars, query, shown, activeId, sheetVars, muts, acked, strayed>>

\* The handler of the component under the board: columns, and the cards of
\* one column, change places, an order not kept here; the drag is over.
DragEnds == activeId' = NoId

\* A drop is saved only if it ends on a column the card is not in already; the
\* moves of onDragOver have usually put it there.
onDragEnd(s) ==
    /\ activeId # NoId /\ Free(s)
    /\ DragEnds
    /\ \E target \in collisionDetection(activeId) \cup {NoId} :
        /\ columns' = MovedOver(columns, activeId, target)
        /\ IF columns' = columns THEN UNCHANGED muts
           ELSE LET to == getColumn(columns, target) IN
                muts' = [Forgotten EXCEPT ![s] =
                    [phase |-> "sent", task |-> activeId, payload |-> [f \in {"status"} |-> to],
                     untouched |-> {},
                     move |-> [task |-> activeId, from |-> getColumn(columns, activeId), to |-> to]]]
    /\ UNCHANGED <<serverVars, query, shown, sheetVars, acked, strayed>>

\* Escape: the columns stay as the drag left them.
onDragCancel ==
    /\ activeId # NoId
    /\ activeId' = NoId
    /\ UNCHANGED <<serverVars, query, shown, columns, sheetVars, muts, acked, strayed>>

-----------------------------------------------------------------------------
BoardInit ==
    /\ rows \in [Tasks -> Row \cup {Unborn}] /\ commits = 0
    /\ query = [NewEntry(NoList) EXCEPT !.invalid = TRUE]
    /\ shown = FALSE /\ columns = [c \in Columns |-> {}]
    /\ activeId = NoId
    /\ selected = NoId /\ local = Gone /\ touched = {}
    /\ muts = [s \in Slots |-> NoMutation]
    /\ acked = 0 /\ strayed = FALSE

BoardNext ==
    \/ OtherUpdates \/ delete_task
    \/ Refocus \/ ServerReads \/ LookupRefused \/ GetLands \/ GetFails \/ LeaveBoard \/ EnterBoard
    \/ \E s \in Slots :
        \/ ServerCommits(s) \/ onSuccess(s) \/ onError(s)
        \/ handleSave(s) \/ PickSelect(s) \/ onDragEnd(s)
        \/ submit(s)
    \/ \E t \in Tasks : OpenSheet(t)
    \/ CloseSheet \/ TypeText
    \/ \E id \in Tasks \cup Columns : DragStart(id)
    \/ onDragOver \/ onDragCancel

-----------------------------------------------------------------------------
\* A field of a task that its user has not touched since the sheet opened is
\* overwritten by a save only if a refetch changed it under the open sheet.
UntouchedFieldsSurvive ==
    [][\A s \in Slots, t \in Tasks, f \in Fields :
         muts[s].phase = "sent" /\ muts'[s].phase = "done" /\ muts[s].task = t
            /\ rows[t][f] # rows'[t][f] => f \notin muts[s].untouched]_taskBoardVars

\* The list lacks a write the server acknowledged to this browser, and nothing
\* marks it for a refetch.
HidesOwnWrite == ~query.invalid /\ query.data.at < acked

\* An acknowledged write of this browser is in the list or the list is marked
\* invalid.  Three GETs may land on top of the mark without the write: one that
\* outlived the board that asked for it (the mark of a list nobody shows starts
\* no refetch that cancels it), the first one to succeed (the refetch joins it,
\* however early it was read), and one answered with the empty list of a lookup
\* that was refused.
HiddenOwnWritesHaveAReason ==
    [][~HidesOwnWrite /\ HidesOwnWrite' =>
          query.get = "read" /\ (strayed \/ ~query.received \/ ~query.answer.whole)]_taskBoardVars
=============================================================================
