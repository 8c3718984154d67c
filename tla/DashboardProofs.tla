--------------------------- MODULE DashboardProofs ---------------------------
(***************************************************************************)
(* What the pages of the dashboard promise, for any number of tasks,       *)
(* columns, pages, files, members, notifications and calls under way.      *)
(***************************************************************************)
EXTENDS Dashboard, FunctionTheorems, FiniteSetTheorems, WellFoundedInduction, TLAPS

\* The cache entry of the board's list has the fields of an entry.
EntryShape == query \in [data : {query.data}, invalid : {query.invalid}, get : {query.get},
                         answer : {query.answer}, received : {query.received}]

\* A visit to another page leaves the board and the panels alone.
LEMMA OnlyTheBoardMoves == [Next]_vars => [BoardNext]_taskBoardVars
  BY DEF Next, vars, BoardVisit, PlannerVisit, WikiVisit, FilesVisit, SettingsVisit, InboxVisit,
         ChatsVisit, ShellVisit

LEMMA OnlyTheFrameMoves == [Next]_vars => [ShellNext]_shellVars
  BY DEF Next, vars, BoardVisit, PlannerVisit, WikiVisit, FilesVisit, SettingsVisit, InboxVisit,
         ChatsVisit, ShellVisit
LEMMA OnlyThePlannerMoves ==
    [Next]_vars => page' = page /\ ((PlannerNext /\ page \in PlannerPages) \/ UNCHANGED plannerVars)
  BY DEF Next, vars, BoardVisit, PlannerVisit, WikiVisit, FilesVisit, SettingsVisit, InboxVisit,
         ChatsVisit, ShellVisit
LEMMA OnlyTheChatsMove == [Next]_vars => [ConversationsNext]_conversationsVars
  BY DEF Next, vars, BoardVisit, PlannerVisit, WikiVisit, FilesVisit, SettingsVisit, InboxVisit,
         ChatsVisit, ShellVisit
LEMMA OnlyTheWikiMoves == [Next]_vars => [WikiNext]_wikiVars
  BY DEF Next, vars, BoardVisit, PlannerVisit, WikiVisit, FilesVisit, SettingsVisit, InboxVisit,
         ChatsVisit, ShellVisit
LEMMA OnlyTheFilesMove == [Next]_vars => [FilesNext]_filesVars
  BY DEF Next, vars, BoardVisit, PlannerVisit, WikiVisit, FilesVisit, SettingsVisit, InboxVisit,
         ChatsVisit, ShellVisit
LEMMA OnlyTheSettingsMove == [Next]_vars => [RosterNext]_rosterVars
  BY DEF Next, vars, BoardVisit, PlannerVisit, WikiVisit, FilesVisit, SettingsVisit, InboxVisit,
         ChatsVisit, ShellVisit
LEMMA OnlyTheInboxMoves == [Next]_vars => [InboxNext]_inboxVars
  BY DEF Next, vars, BoardVisit, PlannerVisit, WikiVisit, FilesVisit, SettingsVisit, InboxVisit,
         ChatsVisit, ShellVisit

-----------------------------------------------------------------------------
(* The columns and the mutations.                                          *)

\* Every card is in the column its task's status names in the list.
BoardInSync == shown => columns = buildColumns(query.data.list)

\* A mutation that has a drop to roll back is never sent.
MutShape(m) ==
    \/ m = [phase |-> "sent", task |-> m.task, payload |-> m.payload, untouched |-> m.untouched,
            move |-> NoMove]
    \/ m = [phase |-> "done", commit |-> m.commit, move |-> NoMove]
    \/ m = [phase |-> "settling"]
    \/ m = NoMutation

\* Only a column can be picked up, and only from a board on screen; the
\* columns then hold tasks, so no card moves.
BoardInv ==
    /\ BoardInSync
    /\ activeId # NoId => shown /\ activeId \in Columns
    /\ muts = [s \in Slots |-> muts[s]]
    /\ \A s \in Slots : MutShape(muts[s])

LEMMA BuiltFromTasks ==
    ASSUME NEW l, NEW c \in Columns
    PROVE  buildColumns(l)[c] \subseteq Tasks
  BY DEF buildColumns

LEMMA NoCardMoves ==
    ASSUME BoardInv, activeId # NoId, NEW target \in Columns \cup {NoId}
    PROVE  MovedOver(columns, activeId, target) = columns
<1>1. columns = buildColumns(query.data.list) /\ activeId \in Columns
  BY DEF BoardInv, BoardInSync
<1>2. getColumn(columns, activeId) = activeId
  BY <1>1 DEF getColumn
<1>3. activeId \notin columns[activeId]
  BY <1>1, BuiltFromTasks, TaskBoardAssumption
<1> QED
  BY <1>2, <1>3 DEF MovedOver

LEMMA NothingIsDragged == ASSUME BoardInv, onDragOver PROVE UNCHANGED <<columns, muts, activeId>>
<1>1. activeId # NoId /\ UNCHANGED <<muts, activeId>>
  BY DEF onDragOver
<1>2. PICK target \in collisionDetection(activeId) : columns' = MovedOver(columns, activeId, target)
  BY DEF onDragOver
<1>3. target \in Columns
  BY <1>1, <1>2 DEF collisionDetection, BoardInv
<1> QED
  BY <1>1, <1>2, <1>3, NoCardMoves

LEMMA NothingIsDropped ==
    ASSUME BoardInv, NEW s \in Slots, onDragEnd(s) PROVE UNCHANGED <<columns, muts>>
<1>1. activeId # NoId
  BY DEF onDragEnd
<1>2. PICK target \in collisionDetection(activeId) \cup {NoId} :
        columns' = MovedOver(columns, activeId, target) /\ (columns' = columns => UNCHANGED muts)
  BY DEF onDragEnd
<1>3. target \in Columns \cup {NoId}
  BY <1>1, <1>2 DEF collisionDetection, BoardInv
<1> QED
  BY <1>1, <1>2, <1>3, NoCardMoves

LEMMA NothingIsForgotten == ASSUME BoardInv PROVE Forgotten = muts
<1>1. ASSUME NEW s \in Slots, muts[s].phase \in {"sent", "done"}
      PROVE  [muts[s] EXCEPT !.move = NoMove] = muts[s]
  BY <1>1 DEF BoardInv, MutShape, NoMutation
<1> QED
  BY <1>1 DEF Forgotten, BoardInv

LEMMA NothingIsRolledBack ==
    ASSUME BoardInv, NEW s \in Slots, onError(s) PROVE UNCHANGED columns
<1>1. muts[s].phase \in {"sent", "done"}
  BY DEF onError
<1>2. muts[s].move = NoMove
  BY <1>1 DEF BoardInv, MutShape, NoMutation
<1> QED
  BY <1>2 DEF onError

LEMMA MutationShape ==
    ASSUME BoardInv, NEW s \in Slots, NEW t, NEW p, NEW ch, mutate(s, t, p, ch)
    PROVE  muts' = [r \in Slots |-> muts'[r]] /\ \A r \in Slots : MutShape(muts'[r])
<1>1. muts' = [r \in Slots |-> muts'[r]] /\ \A r \in Slots \ {s} : muts'[r] = muts[r]
  BY DEF mutate, BoardInv
<1>2. muts'[s] = [phase |-> "sent", task |-> t, payload |-> p, untouched |-> DOMAIN p \ ch,
                  move |-> NoMove]
  BY DEF mutate, BoardInv
<1>3. MutShape(muts'[s])
  BY <1>2 DEF MutShape
<1> QED
  BY <1>1, <1>3 DEF BoardInv

LEMMA ShapesStay ==
    ASSUME BoardInv, BoardNext
    PROVE  muts' = [s \in Slots |-> muts'[s]] /\ \A s \in Slots : MutShape(muts'[s])
<1> DEFINE Goal == muts' = [s \in Slots |-> muts'[s]] /\ \A s \in Slots : MutShape(muts'[s])
<1>a. CASE UNCHANGED muts
  BY <1>a DEF BoardInv
<1>b. CASE muts' = Settled
  BY <1>b DEF Settled, BoardInv, MutShape
<1>c. ASSUME NEW s \in Slots, NEW m, MutShape(m),
             muts' = [muts EXCEPT ![s] = m] \/ muts' = [Settled EXCEPT ![s] = m] PROVE Goal
  <2>1. ASSUME NEW r \in Slots, r # s PROVE muts'[r] = muts[r] \/ muts'[r] = NoMutation
    BY <1>c, <2>1 DEF BoardInv, Settled
  <2>2. muts'[s] = m /\ muts' = [r \in Slots |-> muts'[r]]
    BY <1>c DEF BoardInv, Settled
  <2>3. MutShape(NoMutation)
    BY DEF MutShape
  <2>4. ASSUME NEW r \in Slots PROVE MutShape(muts'[r])
    <3>1. CASE r = s
      BY <3>1, <2>2, <1>c
    <3>2. CASE r # s
      BY <3>2, <2>1, <2>3 DEF BoardInv
    <3> QED
      BY <3>1, <3>2
  <2> QED
    BY <2>2, <2>4
<1>1. ASSUME NEW s \in Slots, ServerCommits(s) PROVE Goal
  <2>1. muts[s].phase = "sent" /\ muts[s].move = NoMove
    BY <1>1 DEF ServerCommits, BoardInv, MutShape, NoMutation
  <2> DEFINE m == [phase |-> "done", commit |-> commits', move |-> NoMove]
  <2>2. muts' = [muts EXCEPT ![s] = m]
    BY <1>1, <2>1 DEF ServerCommits
  <2>3. MutShape(m)
    BY DEF MutShape
  <2> HIDE DEF m
  <2> QED
    BY <2>2, <2>3, <1>c
<1>2. ASSUME NEW s \in Slots, onSuccess(s) PROVE Goal
  <2>1. \/ muts' = [muts EXCEPT ![s] = NoMutation]
        \/ muts' = [muts EXCEPT ![s] = [phase |-> "settling"]]
        \/ muts' = [Settled EXCEPT ![s] = [phase |-> "settling"]]
    BY <1>2 DEF onSuccess
  <2>2. MutShape(NoMutation) /\ MutShape([phase |-> "settling"])
    BY DEF MutShape
  <2> QED
    BY <2>1, <2>2, <1>c
<1>3. ASSUME NEW s \in Slots, onError(s) PROVE Goal
  BY <1>3, <1>c DEF onError, MutShape
<1>4. ASSUME NEW s \in Slots, handleSave(s) \/ PickSelect(s) \/ submit(s) PROVE Goal
  BY <1>4, MutationShape DEF handleSave, PickSelect, submit
<1>5. ASSUME NEW s \in Slots, onDragEnd(s) PROVE Goal
  BY <1>5, <1>a, NothingIsDropped
<1>6. CASE GetLands \/ GetFails
  BY <1>6, <1>b DEF GetLands, GetFails
<1>7. CASE LeaveBoard
  BY <1>7, <1>a, NothingIsForgotten DEF LeaveBoard
<1>8. ASSUME NEW t \in Tasks, OpenSheet(t) PROVE Goal
  BY <1>8, <1>a DEF OpenSheet
<1>9. ASSUME NEW id \in Tasks \cup Columns, DragStart(id) PROVE Goal
  BY <1>9, <1>a DEF DragStart
<1>10. CASE OtherUpdates \/ delete_task \/ Refocus \/ ServerReads \/ LookupRefused \/ EnterBoard
              \/ CloseSheet \/ TypeText \/ onDragOver \/ onDragCancel
  BY <1>10, <1>a DEF OtherUpdates, delete_task, Refocus, ServerReads, LookupRefused, EnterBoard,
         CloseSheet, TypeText, onDragOver, onDragCancel
<1> QED
  BY <1>1, <1>2, <1>3, <1>4, <1>5, <1>6, <1>7, <1>8, <1>9, <1>10 DEF BoardNext

LEMMA ShowKeepsSync ==
    ASSUME BoardInSync, NEW q, Show(q), shown' = shown
    PROVE  BoardInSync'
<1>1. query' = q /\ (shown /\ q.data.list = query.data.list => columns' = columns)
      /\ (q.data.list # query.data.list => columns' = buildColumns(q.data.list))
  BY DEF Show
<1> QED
  BY <1>1 DEF BoardInSync, buildColumns

\* A step that leaves list, columns and board alone keeps them in step.
LEMMA Apart ==
    ASSUME BoardInv, BoardNext, query'.data.list = query.data.list, columns' = columns,
           shown' = shown, activeId' \in {activeId, NoId}
    PROVE  BoardInv'
<1>1. buildColumns(query'.data.list) = buildColumns(query.data.list)
  OBVIOUS
<1> QED
  BY <1>1, ShapesStay DEF BoardInv, BoardInSync, buildColumns

LEMMA BoardStepKeeps ==
    ASSUME BoardInv, BoardNext, EntryShape
    PROVE  BoardInv'
<1>1. CASE GetLands
  <2>1. Show(Land(query)) /\ UNCHANGED <<shown, activeId>>
    BY <1>1 DEF GetLands
  <2> QED
    BY <2>1, ShowKeepsSync, ShapesStay DEF BoardInv
<1>2. CASE LeaveBoard
  BY <1>2, ShapesStay DEF LeaveBoard, BoardInv, BoardInSync
<1>3. CASE EnterBoard
  <2>1. /\ columns' = buildColumns(query.data.list) /\ activeId' = activeId /\ ~shown
        /\ query' = query \/ query' = Ask(query)
    BY <1>3 DEF EnterBoard
  <2>2. query'.data = query.data
    BY <2>1 DEF Ask, EntryShape
  <2> QED
    BY <2>1, <2>2, ShapesStay DEF BoardInv, BoardInSync, buildColumns
<1>4. ASSUME NEW id \in Tasks \cup Columns, DragStart(id) PROVE BoardInv'
  BY <1>4, ShapesStay DEF DragStart, Listens, BoardInv, BoardInSync, buildColumns
<1>5. CASE onDragOver
  <2>1. UNCHANGED <<query, shown, activeId, columns>>
    BY <1>5, NothingIsDragged DEF onDragOver
  <2> QED
    BY <2>1, Apart
<1>6. ASSUME NEW s \in Slots, onDragEnd(s) PROVE BoardInv'
  <2>1. activeId' = NoId /\ UNCHANGED <<query, shown, columns>>
    BY <1>6, NothingIsDropped DEF onDragEnd, DragEnds
  <2> QED
    BY <2>1, Apart
<1>7. CASE Refocus \/ ServerReads \/ LookupRefused \/ GetFails
  <2>1. query'.data = query.data /\ UNCHANGED <<columns, shown>> /\ activeId' \in {activeId, NoId}
    BY <1>7 DEF Refocus, ServerReads, LookupRefused, GetFails, Ask, Answer, Lose, EntryShape,
                EndsWhenLoading
  <2> QED
    BY <2>1, Apart
<1>8. ASSUME NEW s \in Slots, onSuccess(s) PROVE BoardInv'
  <2>1. query'.data = query.data
    BY <1>8 DEF onSuccess, Invalidate, Ask, EntryShape
  <2>2. UNCHANGED <<columns, shown>> /\ activeId' \in {activeId, NoId}
    BY <1>8 DEF onSuccess, EndsWhenLoading
  <2> QED
    BY <2>1, <2>2, Apart
<1>9. ASSUME NEW s \in Slots,
             ServerCommits(s) \/ handleSave(s) \/ PickSelect(s) \/ submit(s)
      PROVE  BoardInv'
  <2>1. UNCHANGED <<query, columns, shown, activeId>>
    BY <1>9 DEF ServerCommits, handleSave, PickSelect, submit, boardVars
  <2> QED
    BY <2>1, Apart
<1>13. ASSUME NEW s \in Slots, onError(s) PROVE BoardInv'
  <2>1. UNCHANGED <<query, columns, shown, activeId>>
    BY <1>13, NothingIsRolledBack DEF onError
  <2> QED
    BY <2>1, Apart
<1>10. ASSUME NEW t \in Tasks, OpenSheet(t) PROVE BoardInv'
  BY <1>10, Apart DEF OpenSheet
<1>11. CASE OtherUpdates \/ delete_task \/ CloseSheet \/ TypeText
  <2>1. UNCHANGED <<query, columns, shown, activeId>>
    BY <1>11 DEF OtherUpdates, delete_task, CloseSheet, TypeText, boardVars
  <2> QED
    BY <2>1, Apart
<1>12. CASE onDragCancel
  BY <1>12, Apart DEF onDragCancel
<1> QED
  BY <1>1, <1>2, <1>3, <1>4, <1>5, <1>6, <1>7, <1>8, <1>9, <1>10, <1>11, <1>12, <1>13 DEF BoardNext

-----------------------------------------------------------------------------
(* The list and the writes of this browser.                                *)

CommitsCounted ==
    /\ acked \in Nat /\ commits \in Nat /\ acked <= commits
    /\ \A s \in Slots : muts[s].phase = "done" => muts[s].commit \in Nat /\ muts[s].commit <= commits

\* The answers that may be older than an acknowledged write: of a GET that has
\* outlived the board that asked for it, of the first GET, and of a refusal.
MayHide == strayed \/ ~query.received \/ ~query.answer.whole
GetIsFresh ==
    /\ query.get = "read" /\ query.answer.at < acked => MayHide
    /\ ~shown /\ Fetching(query) => strayed
    /\ query.received \in BOOLEAN

\* What a step does to the entry, as far as the list's freshness goes.
EntryStep ==
    \/ query' = query
    \/ query' = Ask(query)
    \/ query.get = "asked" /\ query' = Answer(query, list_project_tasks)
    \/ query.get = "asked" /\ query' = Answer(query, NoList)
    \/ query.get = "read" /\ query' = Land(query)
    \/ query' = Lose(query)
    \/ query' = Invalidate(query, shown)

LEMMA EntrySteps == ASSUME BoardNext PROVE EntryStep
<1>1. CASE GetLands
  BY <1>1 DEF GetLands, Show, EntryStep
<1>2. CASE Refocus \/ ServerReads \/ LookupRefused \/ GetFails \/ EnterBoard \/ LeaveBoard
  BY <1>2 DEF Refocus, ServerReads, LookupRefused, GetFails, EnterBoard, LeaveBoard, EntryStep
<1>3. ASSUME NEW s \in Slots,
             ServerCommits(s) \/ onSuccess(s) \/ onError(s) \/ handleSave(s) \/ PickSelect(s)
               \/ onDragEnd(s) \/ submit(s)
      PROVE  EntryStep
  BY <1>3 DEF ServerCommits, onSuccess, onError, handleSave, PickSelect, onDragEnd, submit,
              boardVars, EntryStep
<1>4. ASSUME NEW t \in Tasks, OpenSheet(t) PROVE EntryStep
  BY <1>4 DEF OpenSheet, EntryStep
<1>5. ASSUME NEW id \in Tasks \cup Columns, DragStart(id) PROVE EntryStep
  BY <1>5 DEF DragStart, EntryStep
<1>6. CASE OtherUpdates \/ delete_task \/ CloseSheet \/ TypeText \/ onDragOver \/ onDragCancel
  BY <1>6 DEF OtherUpdates, delete_task, CloseSheet, TypeText, onDragOver, onDragCancel,
              boardVars, EntryStep
<1> QED
  BY <1>1, <1>2, <1>3, <1>4, <1>5, <1>6 DEF BoardNext

LEMMA ShapeStays == ASSUME EntryShape, BoardNext PROVE EntryShape'
<1>1. EntryStep
  BY EntrySteps
<1> QED
  BY <1>1 DEF EntryStep, EntryShape, Ask, Answer, Land, Lose, Invalidate

\* What a step does to the mutations and the counts.
CountStep ==
    /\ commits' \in {commits, commits + 1}
    /\ \A s \in Slots :
          \/ muts'[s] = muts[s]
          \/ muts'[s].phase # "done"
          \/ muts'[s].commit = commits'
    /\ \/ acked' = acked
       \/ \E s \in Slots : muts[s].phase = "done" /\ acked' = muts[s].commit

LEMMA CountSteps == ASSUME BoardInv, BoardNext PROVE CountStep
<1>0. muts = [s \in Slots |-> muts[s]]
  BY DEF BoardInv
<1>1. ASSUME NEW s \in Slots, ServerCommits(s) PROVE CountStep
  <2>1. /\ muts' = [muts EXCEPT ![s] = [phase |-> "done", commit |-> commits', move |-> muts[s].move]]
        /\ commits' = commits + 1 /\ acked' = acked
    BY <1>1 DEF ServerCommits, Commit
  <2> QED
    BY <1>0, <2>1 DEF CountStep
<1>2. ASSUME NEW s \in Slots, onSuccess(s) PROVE CountStep
  <2>1. /\ commits' = commits
        /\ acked' = acked \/ (muts[s].phase = "done" /\ acked' = muts[s].commit)
    BY <1>2 DEF onSuccess, serverVars
  <2>2. \/ muts' = [muts EXCEPT ![s] = NoMutation]
        \/ muts' = [muts EXCEPT ![s] = [phase |-> "settling"]]
        \/ muts' = [Settled EXCEPT ![s] = [phase |-> "settling"]]
    BY <1>2 DEF onSuccess
  <2>3. \A r \in Slots : muts'[r] = muts[r] \/ muts'[r].phase # "done"
    <3>1. \A r \in Slots \ {s} : muts'[r] = muts[r] \/ muts'[r] = NoMutation
      BY <1>0, <2>2 DEF Settled
    <3>2. muts'[s] = NoMutation \/ muts'[s] = [phase |-> "settling"]
      BY <1>0, <2>2 DEF Settled
    <3> QED
      BY <3>1, <3>2 DEF NoMutation
  <2> QED
    BY <2>1, <2>3 DEF CountStep
<1>3. ASSUME NEW s \in Slots, onError(s) PROVE CountStep
  BY <1>0, <1>3 DEF onError, NoMutation, serverVars, CountStep
<1>4. ASSUME NEW s \in Slots, NEW t, NEW p, NEW ch, mutate(s, t, p, ch),
             UNCHANGED <<commits, acked>>
      PROVE  CountStep
  BY <1>0, <1>4 DEF mutate, CountStep
<1>5. ASSUME NEW s \in Slots, handleSave(s) \/ PickSelect(s) \/ submit(s) PROVE CountStep
  BY <1>4, <1>5 DEF handleSave, PickSelect, submit, boardVars, serverVars
<1>9. CASE UNCHANGED <<muts, acked, commits>>
  BY <1>9 DEF CountStep
<1>6. ASSUME NEW s \in Slots, onDragEnd(s) PROVE CountStep
  BY <1>6, <1>9, NothingIsDropped DEF onDragEnd, serverVars
<1>7. CASE OtherUpdates \/ delete_task
  BY <1>7 DEF OtherUpdates, delete_task, Commit, CountStep
<1>8. CASE GetLands \/ GetFails
  BY <1>0, <1>8 DEF GetLands, GetFails, Settled, NoMutation, serverVars, CountStep
<1>10. ASSUME NEW t \in Tasks, OpenSheet(t) PROVE CountStep
  BY <1>10, <1>9 DEF OpenSheet, serverVars
<1>11. ASSUME NEW id \in Tasks \cup Columns, DragStart(id) PROVE CountStep
  BY <1>11, <1>9 DEF DragStart, serverVars
<1>12. CASE Refocus \/ ServerReads \/ LookupRefused \/ LeaveBoard \/ EnterBoard \/ CloseSheet
              \/ TypeText \/ onDragOver \/ onDragCancel
  BY <1>12, <1>9, NothingIsForgotten DEF Refocus, ServerReads, LookupRefused, LeaveBoard,
         EnterBoard, CloseSheet, TypeText, onDragOver, onDragCancel, boardVars, serverVars
<1> QED
  BY <1>1, <1>2, <1>3, <1>5, <1>6, <1>7, <1>8, <1>10, <1>11, <1>12 DEF BoardNext

LEMMA CountsStay == ASSUME CommitsCounted, CountStep PROVE CommitsCounted'
  BY DEF CommitsCounted, CountStep

HidesNone == ~HidesOwnWrite /\ HidesOwnWrite' => query.get = "read" /\ MayHide

LEMMA FreshStep ==
    ASSUME EntryShape, CommitsCounted, GetIsFresh, BoardNext
    PROVE  GetIsFresh' /\ HidesNone
<1> USE DEF EntryShape, MayHide
<1>1. ASSUME NEW s \in Slots, onSuccess(s) PROVE GetIsFresh' /\ HidesNone
  <2>1. /\ query' = Invalidate(query, shown) /\ shown' = shown
        /\ strayed' = (strayed /\ (~shown \/ Loading(query)))
    BY <1>1 DEF onSuccess
  <2>2. /\ query'.invalid = TRUE /\ query'.received = query.received
        /\ shown /\ ~Loading(query) => query'.get = "asked"
        /\ ~shown => query'.get = query.get
        /\ shown /\ Loading(query) => query'.get = query.get
    BY <2>1 DEF Invalidate, Ask, Loading, Fetching
  <2> QED
    BY <2>1, <2>2 DEF GetIsFresh, Fetching, Loading, HidesNone, HidesOwnWrite
<1>2. CASE ServerReads
  <2>1. /\ query' = Answer(query, list_project_tasks) /\ query.get = "asked"
        /\ UNCHANGED <<acked, shown, strayed>>
    BY <1>2 DEF ServerReads
  <2>2. /\ query'.answer.at = commits /\ query'.data = query.data /\ query'.invalid = query.invalid
        /\ query'.received = query.received
    BY <2>1 DEF Answer, list_project_tasks
  <2>3. ~(query'.answer.at < acked')
    BY <2>1, <2>2 DEF CommitsCounted
  <2> QED
    BY <2>1, <2>2, <2>3 DEF GetIsFresh, Fetching, HidesNone, HidesOwnWrite
<1>13. CASE LookupRefused
  <2>1. /\ query' = Answer(query, NoList) /\ query.get = "asked"
        /\ UNCHANGED <<acked, shown, strayed>>
    BY <1>13 DEF LookupRefused
  <2>2. /\ ~query'.answer.whole /\ query'.data = query.data /\ query'.invalid = query.invalid
        /\ query'.received = query.received
    BY <2>1 DEF Answer, NoList
  <2> QED
    BY <2>1, <2>2 DEF GetIsFresh, Fetching, HidesNone, HidesOwnWrite
<1>3. CASE GetLands
  <2>1. query' = Land(query) /\ query.get = "read" /\ UNCHANGED <<acked, shown, strayed>>
    BY <1>3 DEF GetLands, Show
  <2>2. query'.get = "none" /\ query'.data = query.answer /\ query'.received = TRUE
    BY <2>1 DEF Land
  <2> QED
    BY <2>1, <2>2 DEF GetIsFresh, Fetching, HidesNone, HidesOwnWrite
<1>4. CASE GetFails
  BY <1>4 DEF GetFails, Lose, GetIsFresh, Fetching, HidesNone, HidesOwnWrite
<1>5. CASE Refocus
  BY <1>5 DEF Refocus, Ask, GetIsFresh, Fetching, Loading, HidesNone, HidesOwnWrite
<1>6. CASE LeaveBoard
  BY <1>6 DEF LeaveBoard, GetIsFresh, Fetching, HidesNone, HidesOwnWrite
<1>7. CASE EnterBoard
  <2>1. shown' /\ ~shown /\ acked' = acked
    BY <1>7 DEF EnterBoard
  <2>2. CASE query' = Ask(query) /\ ~Fetching(query)
    BY <2>1, <2>2 DEF Ask, GetIsFresh, Fetching, Loading, HidesNone, HidesOwnWrite
  <2>3. CASE query' = query /\ strayed' = strayed
    BY <2>1, <2>3 DEF GetIsFresh, Fetching, HidesNone, HidesOwnWrite
  <2> QED
    BY <1>7, <2>2, <2>3 DEF EnterBoard
<1>8. CASE UNCHANGED <<query, acked, shown, strayed>>
  BY <1>8 DEF GetIsFresh, Fetching, HidesNone, HidesOwnWrite
<1>9. ASSUME NEW s \in Slots,
             ServerCommits(s) \/ onError(s) \/ handleSave(s) \/ PickSelect(s)
               \/ onDragEnd(s) \/ submit(s)
      PROVE  GetIsFresh' /\ HidesNone
  BY <1>8, <1>9 DEF ServerCommits, onError, handleSave, PickSelect, onDragEnd, submit, boardVars
<1>10. ASSUME NEW t \in Tasks, OpenSheet(t) PROVE GetIsFresh' /\ HidesNone
  BY <1>8, <1>10 DEF OpenSheet
<1>11. ASSUME NEW id \in Tasks \cup Columns, DragStart(id) PROVE GetIsFresh' /\ HidesNone
  BY <1>8, <1>11 DEF DragStart
<1>12. CASE OtherUpdates \/ delete_task \/ CloseSheet \/ TypeText \/ onDragOver \/ onDragCancel
  BY <1>8, <1>12 DEF OtherUpdates, delete_task, CloseSheet, TypeText, onDragOver, onDragCancel,
                     boardVars
<1> QED
  BY <1>1, <1>2, <1>3, <1>4, <1>5, <1>6, <1>7, <1>9, <1>10, <1>11, <1>12, <1>13 DEF BoardNext

-----------------------------------------------------------------------------
(* The open sheet.                                                         *)

\* A field of the open sheet that is not marked as touched is what the list
\* has, so whatever a save sends beyond the user's edits is marked.
SheetInv ==
    /\ selected \in Tasks \cup {NoId}
    /\ local # Gone =>
          /\ selected \in Tasks
          /\ local = [f \in Fields |-> local[f]]
          /\ \A f \in Fields \ touched : local[f] = query.data.list[selected][f]
    /\ \A s \in Slots : muts[s].phase = "sent" => muts[s].untouched = {}

ListTyped ==
    /\ query.data.list \in [Tasks -> Row \cup {Gone}]
    /\ query.answer.list \in [Tasks -> Row \cup {Gone}]

LEMMA ListStaysTyped == ASSUME EntryShape, ListTyped, BoardNext PROVE ListTyped'
<1>1. list_project_tasks.list \in [Tasks -> Row \cup {Gone}] /\ NoList.list \in [Tasks -> Row \cup {Gone}]
  BY DEF list_project_tasks, NoList
<1>2. EntryStep
  BY EntrySteps
<1> QED
  BY <1>1, <1>2 DEF EntryStep, EntryShape, ListTyped, Ask, Answer, Land, Lose, Invalidate

LEMMA RowFields == ASSUME NEW r \in Row PROVE r = [f \in Fields |-> r[f]]
  BY DEF Row, Fields

\* The mutations a step begins have nothing untouched.
LEMMA MutationIsTouched ==
    ASSUME muts = [s \in Slots |-> muts[s]],
           \A s \in Slots : muts[s].phase = "sent" => muts[s].untouched = {},
           NEW s \in Slots, NEW t, NEW payload, NEW changed, DOMAIN payload \subseteq changed,
           mutate(s, t, payload, changed)
    PROVE  \A r \in Slots : muts'[r].phase = "sent" => muts'[r].untouched = {}
<1>1. muts'[s].untouched = {}
  BY DEF mutate
<1>2. \A r \in Slots \ {s} : muts'[r] = muts[r]
  BY DEF mutate
<1> QED
  BY <1>1, <1>2

\* The sheet, the list and the selection as they were.
LEMMA SheetApart ==
    ASSUME SheetInv, query'.data = query.data, UNCHANGED <<selected, local, touched>>,
           \A s \in Slots : muts'[s].phase = "sent" => muts'[s].untouched = {}
    PROVE  SheetInv'
  BY DEF SheetInv

\* A list that lands or leaves mounts, unmounts or refreshes the sheet.
LEMMA ShowKeepsSheet ==
    ASSUME SheetInv, NEW q, q.data.list \in [Tasks -> Row \cup {Gone}], Show(q),
           selected' = selected,
           \A s \in Slots : muts'[s].phase = "sent" => muts'[s].untouched = {}
    PROVE  SheetInv'
<1>1. query' = q
  BY DEF Show
<1>2. CASE local' = Gone
  BY <1>2 DEF SheetInv
<1>3. CASE local' # Gone /\ local = Gone
  <2>1. selected \in Tasks /\ local' = q.data.list[selected] /\ q.data.list[selected] \in Row
    BY <1>3 DEF Show, SheetInv
  <2>2. local' = [f \in Fields |-> local'[f]]
    BY <2>1, RowFields
  <2> QED
    BY <1>1, <2>1, <2>2 DEF SheetInv
<1>4. CASE local' # Gone /\ local # Gone
  <2>1. /\ selected \in Tasks /\ local' = local
        /\ touched' = touched \cup {f \in Fields : q.data.list[selected][f] # query.data.list[selected][f]}
    BY <1>4 DEF Show, SheetInv
  <2>2. \A f \in Fields \ touched' : local'[f] = q.data.list[selected][f]
    BY <1>4, <2>1 DEF SheetInv
  <2>3. local' = [f \in Fields |-> local'[f]]
    BY <1>4, <2>1 DEF SheetInv
  <2> QED
    BY <1>1, <2>1, <2>2, <2>3 DEF SheetInv
<1> QED
  BY <1>2, <1>3, <1>4

\* The user changes a field of the sheet.
LEMMA EditKeepsSheet ==
    ASSUME SheetInv, local # Gone, NEW f \in Fields, NEW v,
           local' = [local EXCEPT ![f] = v], touched' = touched \cup {f},
           query'.data = query.data, selected' = selected,
           \A s \in Slots : muts'[s].phase = "sent" => muts'[s].untouched = {}
    PROVE  SheetInv'
<1>1. local = [g \in Fields |-> local[g]] /\ selected \in Tasks
  BY DEF SheetInv
<1>2. local' = [g \in Fields |-> local'[g]]
  BY <1>1
<1>3. \A g \in Fields \ {f} : local'[g] = local[g]
  BY <1>1
<1>4. \A g \in Fields \ touched' : local'[g] = query'.data.list[selected'][g]
  BY <1>3 DEF SheetInv
<1> QED
  BY <1>1, <1>2, <1>4 DEF SheetInv

LEMMA SheetStepKeeps ==
    ASSUME EntryShape, ListTyped, BoardInv, SheetInv, BoardNext
    PROVE  SheetInv'
<1> DEFINE NoneUntouched == \A s \in Slots : muts'[s].phase = "sent" => muts'[s].untouched = {}
<1>0. muts = [s \in Slots |-> muts[s]]
  BY DEF BoardInv
<1>a. ASSUME \A s \in Slots : muts'[s] = muts[s] \/ muts'[s].phase # "sent" PROVE NoneUntouched
  BY <1>a DEF SheetInv
<1>b. ASSUME UNCHANGED <<query, selected, local, touched>>, NoneUntouched PROVE SheetInv'
  BY <1>b, SheetApart
<1>1. CASE GetLands
  <2>1. Show(Land(query)) /\ selected' = selected /\ muts' = Settled
    BY <1>1 DEF GetLands
  <2>2. Land(query).data.list \in [Tasks -> Row \cup {Gone}]
    BY DEF Land, EntryShape, ListTyped
  <2>3. NoneUntouched
    BY <1>a, <2>1 DEF Settled, NoMutation
  <2> QED
    BY <2>1, <2>2, <2>3, ShowKeepsSheet
<1>2. CASE LeaveBoard
  <2>1. local' = Gone /\ selected' = NoId /\ muts' = muts
    BY <1>2, NothingIsForgotten DEF LeaveBoard
  <2> QED
    BY <2>1, <1>a DEF SheetInv
<1>3. CASE Refocus \/ ServerReads \/ LookupRefused \/ GetFails \/ EnterBoard
  <2>1. query'.data = query.data /\ UNCHANGED <<selected, local, touched>>
    BY <1>3 DEF Refocus, ServerReads, LookupRefused, GetFails, EnterBoard, Ask, Answer, Lose, EntryShape, sheetVars
  <2>2. muts' = muts \/ muts' = Settled
    BY <1>3 DEF Refocus, ServerReads, LookupRefused, GetFails, EnterBoard
  <2>3. NoneUntouched
    BY <1>a, <2>2 DEF Settled, NoMutation
  <2> QED
    BY <2>1, <2>3, SheetApart
<1>4. ASSUME NEW s \in Slots, onSuccess(s) PROVE SheetInv'
  <2>1. query'.data = query.data /\ UNCHANGED <<selected, local, touched>>
    BY <1>4 DEF onSuccess, Invalidate, Ask, EntryShape, sheetVars
  <2>2. NoneUntouched
    BY <1>4, <1>0, <1>a DEF onSuccess, Settled, NoMutation
  <2> QED
    BY <2>1, <2>2, SheetApart
<1>5. ASSUME NEW s \in Slots, ServerCommits(s) \/ onError(s) PROVE SheetInv'
  <2>1. UNCHANGED <<query, selected, local, touched>>
    BY <1>5 DEF ServerCommits, onError, sheetVars
  <2>2. NoneUntouched
    BY <1>5, <1>0, <1>a DEF ServerCommits, onError, NoMutation
  <2> QED
    BY <1>b, <2>1, <2>2
<1>6. ASSUME NEW s \in Slots, handleSave(s) PROVE SheetInv'
  <2>1. Differing \subseteq touched
    BY <1>6 DEF handleSave, Differing, SheetInv
  <2>2. NoneUntouched
    <3> DEFINE payload == [f \in Differing |-> local[f]]
    <3>1. DOMAIN payload \subseteq touched /\ mutate(s, selected, payload, touched)
      BY <1>6, <2>1 DEF handleSave
    <3> HIDE DEF payload
    <3> QED
      BY <1>0, <3>1, MutationIsTouched DEF SheetInv
  <2> QED
    BY <1>6, <1>b, <2>2 DEF handleSave, boardVars, sheetVars
<1>7. ASSUME NEW s \in Slots, PickSelect(s) PROVE SheetInv'
  <2>0. PICK f \in SelectFields : \E v \in ValueOf(f) :
          /\ local' = [local EXCEPT ![f] = v] /\ touched' = touched \cup {f}
          /\ mutate(s, selected, [g \in {f} |-> v], {f})
    BY <1>7 DEF PickSelect
  <2>1. PICK v \in ValueOf(f) :
          /\ local' = [local EXCEPT ![f] = v] /\ touched' = touched \cup {f}
          /\ mutate(s, selected, [g \in {f} |-> v], {f})
    BY <2>0
  <2>2. NoneUntouched
    <3> DEFINE payload == [g \in {f} |-> v]
    <3>1. DOMAIN payload \subseteq {f} /\ mutate(s, selected, payload, {f})
      BY <2>1
    <3> HIDE DEF payload
    <3> QED
      BY <1>0, <3>1, MutationIsTouched DEF SheetInv
  <2>3. local # Gone /\ UNCHANGED <<query, selected>> /\ f \in Fields
    BY <1>7 DEF PickSelect, boardVars, SelectFields, Fields
  <2> QED
    BY <2>1, <2>2, <2>3, EditKeepsSheet
<1>8. CASE TypeText
  <2>0. PICK f \in Fields : \E v \in ValueOf(f) :
          local' = [local EXCEPT ![f] = v] /\ touched' = touched \cup {f}
    BY <1>8 DEF TypeText
  <2>1. PICK v \in ValueOf(f) : local' = [local EXCEPT ![f] = v] /\ touched' = touched \cup {f}
    BY <2>0
  <2>2. local # Gone /\ UNCHANGED <<query, selected, muts>>
    BY <1>8 DEF TypeText, boardVars
  <2> QED
    BY <2>1, <2>2, <1>a, EditKeepsSheet
<1>9. ASSUME NEW t \in Tasks, OpenSheet(t) PROVE SheetInv'
  <2>1. /\ shown /\ selected' = t /\ local' = query.data.list[t] /\ touched' = {}
        /\ UNCHANGED <<query, muts>> /\ \E c \in Columns : t \in columns[c]
    BY <1>9 DEF OpenSheet
  <2>2. query.data.list[t] \in Row
    BY <2>1 DEF BoardInv, BoardInSync, buildColumns, ListTyped
  <2>3. local' = [f \in Fields |-> local'[f]]
    BY <2>1, <2>2, RowFields
  <2> QED
    BY <2>1, <2>3, <1>a DEF SheetInv
<1>10. CASE CloseSheet
  BY <1>10, <1>a DEF CloseSheet, SheetInv
<1>11. ASSUME NEW s \in Slots, submit(s) PROVE SheetInv'
  <2>1. PICK c \in Columns : mutate(s, NoId, [f \in {"status"} |-> c], {"status"})
    BY <1>11 DEF submit
  <2>2. NoneUntouched
    <3> DEFINE payload == [f \in {"status"} |-> c]
    <3>1. DOMAIN payload \subseteq {"status"} /\ mutate(s, NoId, payload, {"status"})
      BY <2>1
    <3> HIDE DEF payload
    <3> QED
      BY <1>0, <3>1, MutationIsTouched DEF SheetInv
  <2> QED
    BY <1>11, <1>b, <2>2 DEF submit, boardVars, sheetVars
<1>12. ASSUME NEW s \in Slots, onDragEnd(s) PROVE SheetInv'
  BY <1>12, <1>a, <1>b, NothingIsDropped DEF onDragEnd, sheetVars
<1>13. ASSUME NEW id \in Tasks \cup Columns, DragStart(id) PROVE SheetInv'
  BY <1>13, <1>a, <1>b DEF DragStart, sheetVars
<1>14. CASE OtherUpdates \/ delete_task \/ onDragOver \/ onDragCancel
  <2>1. UNCHANGED <<query, selected, local, touched, muts>>
    BY <1>14 DEF OtherUpdates, delete_task, onDragOver, onDragCancel, sheetVars
  <2> QED
    BY <2>1, <1>a, <1>b
<1> QED
  BY <1>1, <1>2, <1>3, <1>4, <1>5, <1>6, <1>7, <1>8, <1>9, <1>10, <1>11, <1>12, <1>13, <1>14
     DEF BoardNext

-----------------------------------------------------------------------------
(* The side panels.                                                        *)

\* On a narrow screen the info bar's two flags agree once the effects have
\* run, unless a key fell between.
PanelInv ==
    /\ panel \in [Panels -> [open : BOOLEAN, openMobile : BOOLEAN]]
    /\ isMobile \in BOOLEAN /\ seen \in BOOLEAN
    /\ isMobile /\ seen = isMobile /\ "infobar" \notin raced =>
          panel["infobar"].openMobile = panel["infobar"].open

LEMMA PanelSet ==
    ASSUME PanelInv, NEW p \in Panels, NEW mobile \in BOOLEAN, NEW value \in BOOLEAN
    PROVE  /\ setOpen(p, mobile, value) \in [open : BOOLEAN, openMobile : BOOLEAN]
           /\ Toggled(p, mobile) \in BOOLEAN
           /\ p = "infobar" /\ mobile =>
                 /\ setOpen(p, mobile, value).open = value
                 /\ setOpen(p, mobile, value).openMobile = value
  BY DEF setOpen, Toggled, PanelInv, Panels

LEMMA PanelStepKeeps == ASSUME PanelInv, SidePanels PROVE PanelInv'
<1>1. ASSUME NEW p \in Panels, toggle(p) PROVE PanelInv'
  <2>1. /\ panel' = [panel EXCEPT ![p] = setOpen(p, isMobile, Toggled(p, isMobile))]
        /\ raced' = raced \ {p} /\ UNCHANGED <<isMobile, seen>>
    BY <1>1 DEF toggle
  <2>2. Toggled(p, isMobile) \in BOOLEAN /\ isMobile \in BOOLEAN
    BY PanelSet DEF PanelInv
  <2>3. panel' \in [Panels -> [open : BOOLEAN, openMobile : BOOLEAN]]
    BY <2>1, <2>2, PanelSet DEF PanelInv
  <2>4. p = "infobar" /\ isMobile => panel'["infobar"].openMobile = panel'["infobar"].open
    <3> DEFINE v == Toggled(p, isMobile)
    <3>1. panel'[p] = setOpen(p, isMobile, v) /\ v \in BOOLEAN
      BY <2>1, <2>2 DEF PanelInv
    <3> HIDE DEF v
    <3>2. p = "infobar" /\ isMobile => panel'[p] = [open |-> v, openMobile |-> v]
      BY <3>1 DEF setOpen
    <3> QED
      BY <3>2
  <2>5. p # "infobar" => panel'["infobar"] = panel["infobar"]
    BY <2>1 DEF PanelInv, Panels
  <2> QED
    BY <2>1, <2>3, <2>4, <2>5 DEF PanelInv
<1>2. ASSUME NEW p \in Panels, Dismiss(p) PROVE PanelInv'
  <2>1. /\ panel' = [panel EXCEPT ![p] = setOpen(p, TRUE, FALSE)]
        /\ raced' = raced \ {p} /\ UNCHANGED <<isMobile, seen>>
    BY <1>2 DEF Dismiss
  <2>2. panel' \in [Panels -> [open : BOOLEAN, openMobile : BOOLEAN]]
    BY <2>1, PanelSet DEF PanelInv
  <2>3. p = "infobar" => panel'["infobar"].openMobile = panel'["infobar"].open
    BY <2>1, PanelSet DEF PanelInv
  <2>4. p # "infobar" => panel'["infobar"] = panel["infobar"]
    BY <2>1 DEF PanelInv, Panels
  <2> QED
    BY <2>1, <2>2, <2>3, <2>4 DEF PanelInv
<1>3. ASSUME NEW bars \in [Panels -> [open : BOOLEAN, openMobile : BOOLEAN]], panel' = Reconciled(bars),
             isMobile' = isMobile, seen' = isMobile,
             bars["infobar"].open = panel["infobar"].open \/ "infobar" \in raced'
      PROVE  PanelInv'
  <2>1. panel["infobar"] \in [open : BOOLEAN, openMobile : BOOLEAN] /\ isMobile \in BOOLEAN
    BY DEF PanelInv, Panels
  <2>2. panel' \in [Panels -> [open : BOOLEAN, openMobile : BOOLEAN]]
    BY <1>3, <2>1 DEF Reconciled
  <2>3. isMobile /\ "infobar" \notin raced' => panel'["infobar"].openMobile = panel'["infobar"].open
    BY <1>3 DEF Reconciled, Panels
  <2> QED
    BY <1>3, <2>1, <2>2, <2>3 DEF PanelInv
<1>4. ASSUME NEW p \in Panels, handleKeyDown(p) PROVE PanelInv'
  <2> DEFINE bars == [panel EXCEPT ![p] = setOpen(p, seen, Toggled(p, seen))]
  <2>1. /\ panel' = Reconciled(bars) /\ isMobile' = isMobile /\ seen' = isMobile
        /\ p \in raced'
    BY <1>4 DEF handleKeyDown, PanelInv
  <2>2. Toggled(p, seen) \in BOOLEAN /\ seen \in BOOLEAN
    BY PanelSet DEF PanelInv
  <2>3. bars \in [Panels -> [open : BOOLEAN, openMobile : BOOLEAN]]
    BY <2>2, PanelSet DEF PanelInv
  <2>4. p # "infobar" => bars["infobar"] = panel["infobar"]
    BY DEF PanelInv, Panels
  <2> HIDE DEF bars
  <2> QED
    BY <1>3, <2>1, <2>3, <2>4
<1>5. CASE ReconcileEffect
  BY <1>3, <1>5 DEF ReconcileEffect, PanelInv
<1>6. CASE useIsMobile
  BY <1>6 DEF useIsMobile, PanelInv
<1> QED
  BY <1>1, <1>2, <1>4, <1>5, <1>6 DEF SidePanels

LEMMA PanelsKeep == ASSUME PanelInv, [ShellNext]_shellVars PROVE PanelInv'
<1>1. CASE SidePanels
  BY <1>1, PanelStepKeeps
<1>2. CASE UNCHANGED panelVars
  BY <1>2 DEF panelVars, PanelInv
<1>3. SidePanels \/ UNCHANGED panelVars
  BY DEF ShellNext, CommandBar, AISearchDialog, shellVars
<1> QED
  BY <1>1, <1>2, <1>3

LEMMA PressShows ==
    ASSUME PanelInv, NEW p \in Panels, toggle(p), p \notin raced
    PROVE  Shown(p)' # Shown(p)
<1>1. /\ panel' = [panel EXCEPT ![p] = setOpen(p, isMobile, Toggled(p, isMobile))]
      /\ isMobile' = isMobile /\ seen = isMobile
  BY DEF toggle
<1>2. panel'[p] = setOpen(p, isMobile, Toggled(p, isMobile))
  BY <1>1 DEF PanelInv
<1>3. CASE p = "sidebar"
  BY <1>1, <1>2, <1>3 DEF setOpen, Toggled, Shown, Sidebar, PanelInv, Panels
<1>4. CASE p = "infobar"
  BY <1>1, <1>2, <1>4 DEF setOpen, Toggled, Shown, Infobar, PanelInv, Panels
<1> QED
  BY <1>3, <1>4 DEF Panels

-----------------------------------------------------------------------------
(* The two searches of the frame.                                          *)

\* A search that somebody waits for is one for the text in the bar; with none
\* left, the actions shown are that text's.  An open dialog has asked for its
\* debounced text.
BarShape(ss, t) ==
    \A s \in ss :
        /\ s = [text |-> s.text, st |-> s.st, cancelled |-> s.cancelled]
        /\ s.cancelled \in BOOLEAN
        /\ s.st = "waiting" => ~s.cancelled
        /\ ~s.cancelled => s.text = t /\ t # Blank

OwnResults(ss, t, r, m) ==
    (\A s \in ss : s.cancelled) =>
        r = IF t = Blank THEN EMPTY_RESULTS ELSE SearchResults(t, SourceSet \ m)

AskedFor(a, f) ==
    /\ a \in [open : BOOLEAN, query : BarTexts, debounced : BarTexts]
    /\ f \in [Words -> {"absent", "asked", "ok", "failed"}]
    /\ Enabled(a) => f[a.debounced] # "absent"

SearchInv ==
    /\ missed \subseteq SourceSet
    /\ BarShape(barSearches, barText)
    /\ OwnResults(barSearches, barText, results, missed)
    /\ AskedFor(ai, found)

LEMMA BarKeeps == ASSUME SearchInv, CommandBar PROVE SearchInv'
<1>0. UNCHANGED <<ai, found>>
  BY DEF CommandBar, aiVars
<1>a. SUFFICES /\ missed' \subseteq SourceSet
               /\ BarShape(barSearches', barText')
               /\ OwnResults(barSearches', barText', results', missed')
  BY <1>0 DEF SearchInv
<1>1. ASSUME NEW t \in BarTexts, onSearchQuery(t) PROVE <1>a!1
  <2>1. \A c \in Cancelled : /\ c = [text |-> c.text, st |-> c.st, cancelled |-> c.cancelled]
                             /\ c.cancelled = TRUE /\ c.st = "asked"
    BY DEF Cancelled, SearchInv, BarShape
  <2>2. CASE t = Blank
    <3>1. barText' = Blank /\ barSearches' = Cancelled /\ results' = EMPTY_RESULTS /\ missed' = {}
      BY <1>1, <2>2 DEF onSearchQuery
    <3> QED
      BY <2>1, <3>1 DEF BarShape, OwnResults
  <2>3. CASE t # Blank
    <3> DEFINE new == [text |-> t, st |-> "waiting", cancelled |-> FALSE]
    <3>1. barText' = t /\ barSearches' = Cancelled \cup {new} /\ UNCHANGED <<results, missed>>
      BY <1>1, <2>3 DEF onSearchQuery
    <3>2. BarShape(barSearches', barText')
      <4>1. new.text = t /\ new.st = "waiting" /\ new.cancelled = FALSE
        OBVIOUS
      <4>2. new = [text |-> new.text, st |-> new.st, cancelled |-> new.cancelled]
        OBVIOUS
      <4> HIDE DEF new
      <4> QED
        BY <2>1, <2>3, <3>1, <4>1, <4>2 DEF BarShape
    <3>3. OwnResults(barSearches', barText', results', missed')
      <4>1. new \in barSearches' /\ new.cancelled = FALSE
        BY <3>1
      <4> QED
        BY <4>1 DEF OwnResults
    <3> QED
      BY <3>1, <3>2, <3>3 DEF SearchInv
  <2> QED
    BY <2>2, <2>3
<1>2. ASSUME NEW s \in barSearches, SearchFires(s) PROVE <1>a!1
  <2> DEFINE fired == [s EXCEPT !.st = "asked"]
  <2>1. barSearches' = (barSearches \ {s}) \cup {fired} /\ UNCHANGED <<barText, results, missed>>
    BY <1>2 DEF SearchFires
  <2>2. fired = [text |-> s.text, st |-> "asked", cancelled |-> s.cancelled]
    BY DEF SearchInv, BarShape
  <2>3. (\A c \in barSearches' : c.cancelled) => \A c \in barSearches : c.cancelled
    BY <2>1, <2>2
  <2>4. BarShape(barSearches', barText')
    BY <2>1, <2>2 DEF SearchInv, BarShape
  <2> QED
    BY <2>1, <2>3, <2>4 DEF SearchInv, OwnResults
<1>3. ASSUME NEW s \in barSearches, SearchLands(s) PROVE <1>a!1
  <2>1. barSearches' = barSearches \ {s} /\ barText' = barText
    BY <1>3 DEF SearchLands
  <2>2. BarShape(barSearches', barText')
    BY <2>1 DEF SearchInv, BarShape
  <2>3. CASE s.cancelled /\ UNCHANGED <<results, missed>>
    BY <2>1, <2>2, <2>3 DEF SearchInv, OwnResults
  <2>4. CASE ~s.cancelled /\ \E answered \in SUBSET SourceSet :
               results' = SearchResults(s.text, answered) /\ missed' = SourceSet \ answered
    <3>1. PICK answered \in SUBSET SourceSet :
            results' = SearchResults(s.text, answered) /\ missed' = SourceSet \ answered
      BY <2>4
    <3>2. SourceSet \ missed' = answered /\ s.text = barText /\ barText # Blank
      BY <2>4, <3>1 DEF SearchInv, BarShape
    <3>3. results' = SearchResults(barText', SourceSet \ missed') /\ barText' # Blank
      BY <2>1, <3>1, <3>2
    <3> QED
      BY <2>2, <3>1, <3>3 DEF OwnResults
  <2> QED
    BY <1>3, <2>3, <2>4 DEF SearchLands
<1> QED
  BY <1>1, <1>2, <1>3 DEF CommandBar

LEMMA DialogKeeps == ASSUME SearchInv, AISearchDialog PROVE SearchInv'
<1>0. UNCHANGED <<barText, barSearches, results, missed>>
  BY DEF AISearchDialog, barVars
<1>1. SUFFICES AskedFor(ai', found')
  BY <1>0 DEF SearchInv
<1>2. ASSUME NEW a \in [open : BOOLEAN, query : BarTexts, debounced : BarTexts], FetchIfNeeded(a)
      PROVE  AskedFor(a, found')
  BY <1>2 DEF FetchIfNeeded, SearchInv, AskedFor, Enabled, BarTexts
<1>3. CASE onOpenChange
  BY <1>2, <1>3 DEF onOpenChange, SearchInv, AskedFor
<1>4. CASE useDebounce
  BY <1>2, <1>4 DEF useDebounce, SearchInv, AskedFor
<1>5. CASE onFocus
  BY <1>2, <1>5 DEF onFocus, SearchInv, AskedFor
<1>6. ASSUME NEW t \in BarTexts, setQuery(t) PROVE AskedFor(ai', found')
  BY <1>6 DEF setQuery, SearchInv, AskedFor, Enabled
<1>7. ASSUME NEW w \in Words, searchAI(w) PROVE AskedFor(ai', found')
  BY <1>7 DEF searchAI, SearchInv, AskedFor, Enabled
<1> QED
  BY <1>3, <1>4, <1>5, <1>6, <1>7 DEF AISearchDialog

LEMMA SearchesKeep == ASSUME SearchInv, [ShellNext]_shellVars PROVE SearchInv'
<1>1. CASE UNCHANGED <<barVars, aiVars>>
  BY <1>1 DEF barVars, aiVars, SearchInv
<1>2. CommandBar \/ AISearchDialog \/ UNCHANGED <<barVars, aiVars>>
  BY DEF ShellNext, SidePanels, shellVars
<1> QED
  BY <1>1, <1>2, BarKeeps, DialogKeeps

LEMMA SearchStart == ASSUME ShellInit PROVE SearchInv
  BY DEF ShellInit, SearchInv, BarShape, OwnResults, AskedFor, Enabled, BarTexts

LEMMA SearchSettles == ASSUME SearchInv PROVE SettledSearchesAreOwn
<1>1. ASSUME ai.open, ai.query = ai.debounced, AISearchView = "nothing"
      PROVE  FoundIn[ai.query] = {} \/ found[ai.query] = "failed"
  BY <1>1 DEF SearchInv, AskedFor, AISearchView, Enabled, BarTexts
<1> QED
  BY <1>1 DEF SearchInv, OwnResults, SettledSearchesAreOwn

-----------------------------------------------------------------------------
(* The lists of the projects page, the calendar and the audit log.         *)

Answering(s, q) == {r \in s : q = All \/ TopicOf[r] = q}

PostShape(p) == p = [st |-> p.st, row |-> p.row, dialog |-> p.dialog, met |-> p.met]

PlannerShape ==
    /\ mine \subseteq stored /\ stored \subseteq Rows
    /\ list \in [Rows -> Nat]
    /\ PostShape(post) /\ post.met \in BOOLEAN
    /\ post.st = "failed" => post.row \cap mine = {}
    /\ post.st = "stored" => post.row \subseteq mine
    /\ post.st \in {"none", "sent"} => post.row = {}
    /\ page = "audit" => post.st = "none" /\ mine = {}
    /\ page = "calendar" => pick \in Topics
    /\ loads = {} => ~loading
    /\ started \in Nat /\ last.n \in Nat /\ last.n <= started

\* A load holds rows that answer its question; the newest asks what is on
\* screen.  What was read from the server has the rows the load cannot miss.
LoadShape(l) ==
    /\ l = [n |-> l.n, of |-> l.of, rows |-> l.rows, read |-> l.read, whole |-> l.whole, sure |-> l.sure]
    /\ l.n \in Nat /\ l.n <= started
    /\ l.rows \subseteq Answering(stored, l.of)
    /\ l.sure \subseteq mine \ post.row
    /\ l.whole => Answering(l.sure, l.of) \subseteq l.rows
    /\ l.n = started => l.of = Question

\* Only a create that met a load is under way with one.  The newest load cannot
\* miss what an older one cannot, and misses mixed rows only.
Overlaps ==
    /\ post.st # "none" /\ ~post.met => loads = {}
    /\ \A l \in loads : l.n = started =>
          /\ mine \subseteq l.sure \cup mixed \cup post.row
          /\ \A k \in loads : k.sure \subseteq l.sure

\* The list holds rows of the server's, once but for mixed ones; after the
\* newest load it holds what answers the question on screen.
ListCurrent ==
    /\ post.st = "stored" /\ ~post.met => \A r \in post.row : list[r] = 0
    /\ \A r \in Rows :
        /\ r \notin mixed => list[r] <= 1
        /\ list[r] > 0 => r \in stored
        /\ last.n = started =>
              /\ page = "audit" /\ list[r] > 0 => r \in Answering(stored, Question)
              /\ last.whole /\ r \in Answering(mine, Question) \ (mixed \cup post.row) => list[r] > 0

PlannerInv ==
    page \in PlannerPages =>
        /\ PlannerShape /\ Overlaps /\ ListCurrent
        /\ \A l \in loads : LoadShape(l)

LEMMA PlannerStart == ASSUME PlannerInit PROVE PlannerInv
<1>1. /\ stored = {} /\ mine = {} /\ list = [r \in Rows |-> 0] /\ started = 1 /\ post = NoPost
      /\ mixed = {} /\ last = [n |-> 0, whole |-> FALSE] /\ loads = {LoadOf(1, Question, {})}
      /\ pick = IF page = "calendar" THEN ThisMonth ELSE All
  BY DEF PlannerInit
<1>2. PlannerShape
  BY <1>1, PlannerAssumption DEF PlannerShape, PostShape, NoPost
<1>3. Overlaps /\ ListCurrent
  BY <1>1 DEF Overlaps, ListCurrent, NoPost, LoadOf
<1>4. \A l \in loads : LoadShape(l)
  BY <1>1 DEF LoadShape, LoadOf, Answering
<1> QED
  BY <1>2, <1>3, <1>4 DEF PlannerInv

\* A new load asks the question on screen.
LEMMA NewLoadKeeps ==
    ASSUME PlannerInv, page \in PlannerPages, page' = page, NEW q, Load(q), q = Question',
           UNCHANGED <<stored, mine, list>>, page = "calendar" => pick' \in Topics
    PROVE  PlannerInv'
<1> DEFINE l == LoadOf(started + 1, q, mine \ post.row)
<1>1. /\ loads' = loads \cup {l} /\ started' = started + 1
      /\ post' = [post EXCEPT !.met = post.st # "none"] /\ UNCHANGED <<mixed, last>>
  BY DEF Load
<1>2. /\ l = [n |-> l.n, of |-> l.of, rows |-> l.rows, read |-> l.read, whole |-> l.whole, sure |-> l.sure]
      /\ l.n = started + 1 /\ l.of = q /\ l.rows = {} /\ l.whole = FALSE /\ l.sure = mine \ post.row
  BY DEF LoadOf
<1> HIDE DEF l
<1>3. PlannerShape /\ Overlaps /\ ListCurrent /\ \A k \in loads : LoadShape(k)
  BY DEF PlannerInv
<1>4. PostShape(post') /\ post'.st = post.st /\ post'.row = post.row /\ post'.met = (post.st # "none")
  BY <1>1, <1>3 DEF PlannerShape, PostShape
<1>5. PlannerShape'
  BY <1>1, <1>3, <1>4 DEF PlannerShape
<1>6. ASSUME NEW k \in loads' PROVE LoadShape(k)'
  <2>1. CASE k \in loads
    BY <1>1, <1>3, <1>4, <2>1 DEF LoadShape, Answering, PlannerShape
  <2>2. CASE k = l
    BY <1>1, <1>2, <1>3, <1>4, <2>2 DEF LoadShape, Answering, PlannerShape
  <2> QED
    BY <1>1, <2>1, <2>2
<1>7. Overlaps'
  <2>1. ASSUME NEW k \in loads', k.n = started' PROVE k = l
    BY <1>1, <1>3, <2>1 DEF LoadShape, PlannerShape
  <2>2. \A k \in loads' : k.sure \subseteq l.sure
    BY <1>1, <1>2, <1>3 DEF LoadShape
  <2>3. mine \subseteq l.sure \cup post.row
    BY <1>2
  <2> QED
    BY <1>1, <1>4, <2>1, <2>2, <2>3 DEF Overlaps
<1>8. ListCurrent'
  BY <1>1, <1>3, <1>4 DEF ListCurrent, PlannerShape
<1> QED
  BY <1>5, <1>6, <1>7, <1>8 DEF PlannerInv

\* What no load and no list is touched by.
LEMMA PlannerApart ==
    ASSUME PlannerInv, page' = page, Question' = Question, page = "calendar" => pick' = pick,
           UNCHANGED <<stored, mine, list, loads, started, loading, post, mixed, last>>
    PROVE  PlannerInv'
  BY DEF PlannerInv, PlannerShape, PostShape, LoadShape, Overlaps, ListCurrent, Answering

\* A load's answer, good or bad.
LEMMA LoadSettles ==
    ASSUME PlannerInv, page \in PlannerPages, page' = page, NEW l \in loads,
           LoadLands(l) \/ LoadFails(l)
    PROVE  PlannerInv'
<1>1. /\ loads' = loads \ {l} /\ UNCHANGED <<stored, mine, pick, post, started>> /\ loading' = FALSE
      /\ Question' = Question /\ pick' = pick
  BY DEF LoadLands, LoadFails, ProjectsLoadLands, ProjectsLoadFails, CalendarLoadLands,
         CalendarLoadFails, AuditLoadLands, AuditLoadFails, PlannerPages, Question
<1>2. \/ /\ list' = [r \in Rows |-> IF r \in l.rows THEN 1 ELSE 0]
         /\ last' = [n |-> l.n, whole |-> l.whole] /\ mixed' = mixed \ l.sure
      \/ /\ list' = list \/ (page = "audit" /\ list' = [r \in Rows |-> 0])
         /\ UNCHANGED <<last, mixed>>
  BY DEF LoadLands, LoadFails, ProjectsLoadLands, ProjectsLoadFails, CalendarLoadLands,
         CalendarLoadFails, AuditLoadLands, AuditLoadFails, PlannerPages
<1>3. PlannerShape /\ Overlaps /\ ListCurrent /\ LoadShape(l) /\ \A k \in loads : LoadShape(k)
  BY DEF PlannerInv
<1>4. \A k \in loads' : LoadShape(k)'
  BY <1>1, <1>3 DEF LoadShape, Answering
<1>5. CASE UNCHANGED <<last, mixed>> /\ (list' = list \/ (page = "audit" /\ list' = [r \in Rows |-> 0]))
  <2>1. PlannerShape' /\ Overlaps'
    BY <1>1, <1>3, <1>5 DEF PlannerShape, Overlaps, PostShape
  <2>2. ListCurrent'
    <3>1. CASE list' = list
      BY <1>1, <1>3, <1>5, <3>1 DEF ListCurrent, Answering
    <3>2. CASE page = "audit" /\ list' = [r \in Rows |-> 0]
      BY <1>1, <1>3, <1>5, <3>2 DEF ListCurrent, Answering, PlannerShape
    <3> QED
      BY <1>5, <3>1, <3>2
  <2> QED
    BY <1>4, <2>1, <2>2 DEF PlannerInv
<1>6. CASE /\ list' = [r \in Rows |-> IF r \in l.rows THEN 1 ELSE 0]
           /\ last' = [n |-> l.n, whole |-> l.whole] /\ mixed' = mixed \ l.sure
  <2>1. PlannerShape'
    BY <1>1, <1>3, <1>6 DEF PlannerShape, PostShape, LoadShape
  <2>2. Overlaps'
    BY <1>1, <1>3, <1>6 DEF Overlaps
  <2>3. post.st = "stored" /\ ~post.met => FALSE
    BY <1>3 DEF Overlaps
  <2>4. ASSUME NEW r \in Rows
        PROVE  /\ list'[r] <= 1 /\ (list'[r] > 0 => r \in stored)
               /\ last'.n = started =>
                     /\ list'[r] > 0 => r \in Answering(stored, Question)
                     /\ last'.whole /\ r \in Answering(mine, Question) \ (mixed' \cup post.row) => list'[r] > 0
    <3>1. list'[r] = (IF r \in l.rows THEN 1 ELSE 0) /\ last'.n = l.n /\ last'.whole = l.whole
      BY <1>6
    <3>2. list'[r] <= 1 /\ (list'[r] > 0 => r \in l.rows) /\ (r \in l.rows => list'[r] > 0)
      BY <3>1
    <3>3. r \in l.rows => r \in stored
      BY <1>3 DEF LoadShape, Answering
    <3>4. ASSUME l.n = started PROVE r \in l.rows => r \in Answering(stored, Question)
      BY <1>3, <3>4 DEF LoadShape
    <3>5. ASSUME l.n = started, l.whole, r \in Answering(mine, Question) \ (mixed' \cup post.row)
          PROVE  r \in l.rows
      <4>1. r \in l.sure
        BY <1>3, <1>6, <3>5 DEF Overlaps, Answering
      <4>2. r \in Answering(l.sure, l.of)
        BY <1>3, <3>5, <4>1 DEF LoadShape, Answering
      <4> QED
        BY <1>3, <3>5, <4>2 DEF LoadShape
    <3> QED
      BY <3>1, <3>2, <3>3, <3>4, <3>5
  <2>5. ListCurrent'
    BY <1>1, <2>3, <2>4 DEF ListCurrent, Answering
  <2> QED
    BY <1>4, <2>1, <2>2, <2>5 DEF PlannerInv
<1> QED
  BY <1>2, <1>5, <1>6

\* The server's side of a load, or a refusal's empty list.
LEMMA LoadReadKeeps ==
    ASSUME PlannerInv, page \in PlannerPages, page' = page, NEW l \in loads,
           LoadRead(l) \/ EmptyForARefusal(l)
    PROVE  PlannerInv'
<1>1. PICK k : /\ loads' = (loads \ {l}) \cup {k}
               /\ \/ k = [l EXCEPT !.read = TRUE, !.rows = getEvents(l.of), !.whole = TRUE]
                  \/ k = [l EXCEPT !.read = TRUE]
  BY DEF LoadRead, EmptyForARefusal
<1>2. /\ UNCHANGED <<stored, mine, list, started, loading, post, mixed, last>>
      /\ Question' = Question /\ pick' = pick
  BY DEF LoadRead, EmptyForARefusal, Question
<1>3. PlannerShape /\ Overlaps /\ ListCurrent /\ LoadShape(l) /\ \A m \in loads : LoadShape(m)
  BY DEF PlannerInv
<1>4. k.n = l.n /\ k.of = l.of /\ k.sure = l.sure
  BY <1>1, <1>3 DEF LoadShape
<1>5. LoadShape(k)
  <2>1. CASE k = [l EXCEPT !.read = TRUE]
    BY <1>3, <2>1 DEF LoadShape
  <2>2. CASE k = [l EXCEPT !.read = TRUE, !.rows = getEvents(l.of), !.whole = TRUE]
    <3>1. /\ k = [n |-> k.n, of |-> k.of, rows |-> k.rows, read |-> k.read, whole |-> k.whole, sure |-> k.sure]
          /\ k.rows = Answering(stored, l.of)
      BY <1>3, <2>2 DEF LoadShape, getEvents, Answering
    <3>2. Answering(l.sure, l.of) \subseteq k.rows
      BY <1>3, <3>1 DEF LoadShape, Answering, PlannerShape
    <3> QED
      BY <1>3, <1>4, <3>1, <3>2 DEF LoadShape
  <2> QED
    BY <1>1, <2>1, <2>2
<1>6. \A m \in loads' : LoadShape(m)'
  BY <1>1, <1>2, <1>3, <1>5 DEF LoadShape, Answering
<1>7. Overlaps'
  <2>1. loads # {}
    OBVIOUS
  <2>2. \A m \in loads' : \E o \in loads : o.n = m.n /\ o.sure = m.sure
    BY <1>1, <1>4
  <2> QED
    BY <1>2, <1>3, <2>1, <2>2 DEF Overlaps
<1>8. PlannerShape' /\ ListCurrent'
  BY <1>1, <1>2, <1>3 DEF PlannerShape, PostShape, ListCurrent, Answering
<1> QED
  BY <1>6, <1>7, <1>8 DEF PlannerInv

LEMMA OthersAddKeeps ==
    ASSUME PlannerInv, page \in PlannerPages, page' = page, NEW r \in Rows, OthersAdd(r)
    PROVE  PlannerInv'
<1>1. /\ stored' = stored \cup {r} /\ Question' = Question /\ pick' = pick
      /\ UNCHANGED <<mine, list, loads, started, loading, post, mixed, last>>
  BY DEF OthersAdd, Question
<1>2. PlannerShape' /\ Overlaps'
  BY <1>1 DEF PlannerInv, PlannerShape, PostShape, Overlaps
<1>3. \A l \in loads : LoadShape(l)'
  BY <1>1 DEF PlannerInv, LoadShape, Answering
<1>4. ListCurrent'
  BY <1>1 DEF PlannerInv, ListCurrent, Answering
<1> QED
  BY <1>1, <1>2, <1>3, <1>4 DEF PlannerInv

\* The visit's own create: stored, answered for badly, or shown.
LEMMA PostKeeps ==
    ASSUME PlannerInv, page \in PlannerPages, page' = page,
           (\E r \in Rows : PostStored(r)) \/ PostFails \/ PostAnswered
    PROVE  PlannerInv'
<1>1. /\ Question' = Question /\ pick' = pick /\ post.st # "none"
      /\ UNCHANGED <<loads, loading, started, last>>
  BY DEF PostStored, PostFails, PostAnswered, Question
<1>2. page # "audit" /\ PlannerShape /\ Overlaps /\ ListCurrent /\ \A l \in loads : LoadShape(l)
  <2>1. PlannerShape /\ Overlaps /\ ListCurrent /\ \A l \in loads : LoadShape(l)
    BY DEF PlannerInv
  <2> QED
    BY <1>1, <2>1 DEF PlannerShape
<1>4. ASSUME NEW r \in Rows, PostStored(r) PROVE PlannerInv'
  <2>1. /\ post.st = "sent" /\ r \notin stored /\ stored' = stored \cup {r} /\ mine' = mine \cup {r}
        /\ post' = [post EXCEPT !.st = "stored", !.row = {r}] /\ UNCHANGED <<list, mixed>>
    BY <1>4 DEF PostStored
  <2>2. /\ post'.st = "stored" /\ post'.row = {r} /\ post'.met = post.met /\ PostShape(post')
        /\ post.row = {}
    BY <1>2, <2>1 DEF PlannerShape, PostShape
  <2>3. PlannerShape'
    BY <1>1, <1>2, <2>1, <2>2 DEF PlannerShape
  <2>4. Overlaps'
    BY <1>1, <1>2, <2>1, <2>2 DEF Overlaps
  <2>5. ASSUME NEW l \in loads PROVE LoadShape(l)'
    <3>1. LoadShape(l) /\ l.sure \subseteq stored
      BY <1>2 DEF LoadShape, PlannerShape
    <3> QED
      BY <1>1, <2>1, <2>2, <3>1 DEF LoadShape, Answering
  <2>6. list[r] = 0
    BY <1>2, <2>1 DEF ListCurrent, PlannerShape
  <2>7. ListCurrent'
    BY <1>1, <1>2, <2>1, <2>2, <2>6 DEF ListCurrent, Answering
  <2> QED
    BY <1>1, <2>3, <2>4, <2>5, <2>7 DEF PlannerInv
<1>5. CASE PostFails
  <2>1. /\ post' = [post EXCEPT !.st = "failed"] /\ mine' = mine \ post.row
        /\ UNCHANGED <<stored, list, mixed>> /\ post.st \in {"sent", "stored"}
    BY <1>5 DEF PostFails
  <2>2. post'.st = "failed" /\ post'.row = post.row /\ post'.met = post.met /\ PostShape(post')
    BY <1>2, <2>1 DEF PlannerShape, PostShape
  <2>3. PlannerShape'
    BY <1>1, <1>2, <2>1, <2>2 DEF PlannerShape
  <2>4. Overlaps'
    BY <1>1, <1>2, <2>1, <2>2 DEF Overlaps
  <2>5. ASSUME NEW l \in loads PROVE LoadShape(l)'
    BY <1>1, <1>2, <2>1, <2>2 DEF LoadShape, Answering
  <2>7. ListCurrent'
    BY <1>1, <1>2, <2>1, <2>2 DEF ListCurrent, Answering
  <2> QED
    BY <1>1, <2>3, <2>4, <2>5, <2>7 DEF PlannerInv
<1>6. CASE PostAnswered
  <2>1. /\ list' = Appended /\ post' = NoPost /\ UNCHANGED <<stored, mine>>
        /\ mixed' = IF post.met THEN mixed \cup post.row ELSE mixed
        /\ post.st \in {"stored", "failed"}
    BY <1>6 DEF PostAnswered, handleCreateProject, handleCreateEvent
  <2>2. post'.st = "none" /\ post'.row = {} /\ PostShape(post') /\ post'.met = FALSE
    BY <2>1 DEF NoPost, PostShape
  <2>3. /\ list' \in [Rows -> Nat]
        /\ \A r \in Rows : list'[r] = IF post.st = "stored" /\ r \in post.row THEN list[r] + 1 ELSE list[r]
    BY <1>2, <2>1 DEF Appended, PlannerShape
  <2>4. PlannerShape'
    BY <1>1, <1>2, <2>1, <2>2, <2>3 DEF PlannerShape
  <2>5. Overlaps'
    <3>1. ASSUME NEW l \in loads, l.n = started PROVE mine \subseteq l.sure \cup mixed'
      BY <1>1, <1>2, <2>1, <3>1 DEF Overlaps
    <3> QED
      BY <1>1, <1>2, <2>1, <2>2, <3>1 DEF Overlaps
  <2>6. ASSUME NEW l \in loads PROVE LoadShape(l)'
    BY <1>1, <1>2, <2>1, <2>2 DEF LoadShape, Answering
  <2>7. ASSUME NEW r \in Rows
        PROVE  /\ r \notin mixed' => list'[r] <= 1
               /\ list'[r] > 0 => r \in stored
               /\ last.n = started /\ last.whole /\ r \in Answering(mine, Question) \ mixed' => list'[r] > 0
    <3>1. CASE post.st = "stored" /\ r \in post.row
      <4>1. list[r] \in Nat /\ list'[r] = list[r] + 1
        BY <1>2, <2>3, <3>1 DEF PlannerShape
      <4>2. r \notin mixed' => list[r] = 0
        BY <1>2, <2>1, <3>1 DEF ListCurrent
      <4>3. r \in stored
        BY <1>6, <1>2, <3>1, <2>1 DEF PlannerShape
      <4> QED
        BY <4>1, <4>2, <4>3
    <3>2. CASE ~(post.st = "stored" /\ r \in post.row)
      <4>1. list'[r] = list[r]
        BY <2>3, <3>2
      <4>2. r \in mine => r \notin post.row
        BY <1>2, <2>1, <3>2 DEF PlannerShape
      <4> QED
        BY <1>2, <2>1, <4>1, <4>2 DEF ListCurrent, Answering
    <3> QED
      BY <3>1, <3>2
  <2>8. ListCurrent'
    BY <1>1, <1>2, <2>1, <2>2, <2>7 DEF ListCurrent, Answering
  <2> QED
    BY <1>1, <2>4, <2>5, <2>6, <2>8 DEF PlannerInv
<1> QED
  BY <1>4, <1>5, <1>6

LEMMA SubmitKeeps ==
    ASSUME PlannerInv, page \in PlannerPages, page' = page, page # "audit", NEW d, Submit(d)
    PROVE  PlannerInv'
<1>1. /\ post' = [st |-> "sent", row |-> {}, dialog |-> d, met |-> loads # {}]
      /\ UNCHANGED <<stored, mine, list, loads, started, loading, mixed, last>>
      /\ Question' = Question /\ pick' = pick /\ post.st = "none"
  BY DEF Submit, Disabled, Question
<1>2. PlannerShape /\ Overlaps /\ ListCurrent /\ \A l \in loads : LoadShape(l)
  BY DEF PlannerInv
<1>3. post.row = {} /\ post'.row = {} /\ post'.st = "sent" /\ PostShape(post') /\ post'.met = (loads # {})
  BY <1>1, <1>2 DEF PlannerShape, PostShape
<1>4. PlannerShape'
  BY <1>1, <1>2, <1>3 DEF PlannerShape
<1>5. Overlaps' /\ ListCurrent'
  BY <1>1, <1>2, <1>3 DEF Overlaps, ListCurrent, Answering
<1>6. \A l \in loads : LoadShape(l)'
  BY <1>1, <1>2, <1>3 DEF LoadShape, Answering
<1> QED
  BY <1>1, <1>4, <1>5, <1>6 DEF PlannerInv

LEMMA PlannerStepKeeps ==
    ASSUME PlannerInv, page \in PlannerPages, page' = page, PlannerNext
    PROVE  PlannerInv'
<1>1. ASSUME NEW l \in loads, LoadRead(l) \/ EmptyForARefusal(l) \/ LoadLands(l) \/ LoadFails(l)
      PROVE  PlannerInv'
  BY <1>1, LoadReadKeeps, LoadSettles
<1>2. ASSUME NEW r \in Rows, OthersAdd(r) \/ PostStored(r) PROVE PlannerInv'
  BY <1>2, OthersAddKeeps, PostKeeps
<1>3. CASE PostFails \/ PostAnswered
  BY <1>3, PostKeeps
<1>4. CASE Retry
  BY <1>4, NewLoadKeeps DEF Retry, Question
<1>5. CASE DayPicker \/ DaySheetCloses
  BY <1>5, PlannerApart DEF DayPicker, DaySheetCloses, Question
<1>6. ASSUME NEW q, StatusFilterPills(q) PROVE PlannerInv'
  BY <1>6, PlannerApart DEF StatusFilterPills, Question
<1>7. ASSUME NEW q, AuditFilter(q) PROVE PlannerInv'
  BY <1>7, NewLoadKeeps DEF AuditFilter, Question
<1>8. ASSUME NEW m, CalendarViewShell(m) PROVE PlannerInv'
  BY <1>8, NewLoadKeeps DEF CalendarViewShell, Question
<1>9. ASSUME NEW d \in Places, CreateProjectDialog(d) \/ CreateEventDialog(d) PROVE PlannerInv'
  <2>1. CASE OpenDialog(d) \/ CloseDialog(d) \/ FillIn(d)
    BY <2>1, PlannerApart DEF OpenDialog, CloseDialog, FillIn, Question
  <2>2. CASE Submit(d)
    BY <1>9, <2>2, SubmitKeeps DEF CreateProjectDialog, CreateEventDialog
  <2> QED
    BY <1>9, <2>1, <2>2 DEF CreateProjectDialog, CreateEventDialog
<1> QED
  BY <1>1, <1>2, <1>3, <1>4, <1>5, <1>6, <1>7, <1>8, <1>9 DEF PlannerNext

LEMMA PlannerStays == ASSUME PlannerInv, page' = page, UNCHANGED plannerVars PROVE PlannerInv'
  BY PlannerApart DEF plannerVars, Question

LEMMA PlannerSettles == ASSUME PlannerInv PROVE SettledListsAreCurrent
<1> DEFINE Asked(r) == pick = All \/ TopicOf[r] = pick
<1> SUFFICES ASSUME page \in PlannerPages, loads = {}, post.st = "none", ~loadError, NEW r \in Rows
             PROVE  /\ r \notin mixed => OnScreen[r] <= 1
                    /\ last.n = started =>
                          /\ OnScreen[r] > 0 => r \in stored /\ Asked(r)
                          /\ r \in mine \ mixed /\ Asked(r) /\ last.whole => OnScreen[r] = 1
  BY DEF SettledListsAreCurrent
<1>1. ListCurrent /\ PlannerShape /\ ~loading /\ post.row = {} /\ list[r] \in Nat
  BY DEF PlannerInv, PlannerShape
<1>2. /\ r \notin mixed => list[r] <= 1
      /\ list[r] > 0 => r \in stored
      /\ last.n = started =>
            /\ page = "audit" /\ list[r] > 0 => r \in Answering(stored, Question)
            /\ last.whole /\ r \in Answering(mine, Question) \ mixed => list[r] > 0
  BY <1>1 DEF ListCurrent
<1>3. CASE page = "calendar"
  <2>1. OnScreen[r] = IF TopicOf[r] = pick THEN list[r] ELSE 0
    BY <1>3 DEF OnScreen, eventsByDate
  <2>2. Asked(r) <=> TopicOf[r] = pick
    BY <1>1, <1>3, PlannerAssumption DEF PlannerShape
  <2>3. r \in Answering(mine, Question) <=> r \in mine /\ Asked(r)
    BY <1>3 DEF Answering, Question
  <2> QED
    BY <1>1, <1>2, <2>1, <2>2, <2>3
<1>4. CASE page = "audit"
  <2>1. OnScreen[r] = list[r] /\ r \notin mine
    BY <1>1, <1>4 DEF OnScreen, AuditTable, PlannerShape
  <2> QED
    BY <1>1, <1>2, <1>4, <2>1 DEF Answering, Question
<1>5. CASE page = "projects"
  <2>1. OnScreen[r] = IF r \in Filtered /\ ProjectsView = "cards" THEN list[r] ELSE 0
    BY <1>5 DEF OnScreen
  <2>2. r \in Filtered => ProjectsView = "cards"
    BY <1>1 DEF ProjectsView, ProjectList
  <2>3. r \in Answering(mine, Question) <=> r \in mine
    BY <1>5 DEF Answering, Question
  <2>4. r \in Filtered <=> list[r] > 0 /\ Asked(r)
    BY DEF Filtered
  <2> QED
    BY <1>1, <1>2, <2>1, <2>2, <2>3, <2>4
<1> QED
  BY <1>3, <1>4, <1>5 DEF PlannerPages

-----------------------------------------------------------------------------
(* The wiki's viewer and its cache.                                        *)

Shaped(e, none) ==
    /\ e \in [data : {e.data}, invalid : BOOLEAN, get : {"none", "asked", "read"}, answer : {e.answer},
              received : BOOLEAN]
    /\ e.data # none => e.received

ViewerShape(v) ==
    v \in [open : BOOLEAN, preview : {v.preview}, summary : {v.summary}, asking : {v.asking},
           failed : BOOLEAN]

RestoreShape(r) ==
    r \in [n : {r.n}, page : {r.page}, tell : {r.tell}, here : BOOLEAN, st : {"sent", "stored"}]

WikiShape ==
    /\ details = [p \in Wikis |-> details[p]] /\ \A p \in Wikis : Shaped(details[p], NoWiki)
    /\ content = [p \in Wikis |-> content[p]]
    /\ chosen \in PageOrNone /\ first \in PageOrNone
    /\ ViewerShape(viewer)
    /\ \A r \in restores : RestoreShape(r)

\* Without a page on screen there is no viewer.
ViewerInv ==
    /\ PageViewer # "page" => viewer = NoViewer /\ ~fresh
    /\ LeftoversNeedACachedPage

\* What a valid entry shows at rest, and what the GET read for it, is the
\* content at the server, unless a restore made of it has yet to be answered.
ShowsContent(e, c) ==
    /\ e.data # NoWiki /\ ~e.invalid /\ ~Fetching(e) => e.data = c
    /\ e.get = "read" => e.answer = c

Waited(p, rs) == \E r \in rs : r.page = p /\ r.st = "stored"

\* Only a page that was received is ever restored.
RestoresSeen == \A r \in restores : r.page \in Wikis /\ details[r.page].received

CacheInv == \A p \in Wikis \ astray : ~Waited(p, restores) => ShowsContent(details[p], content[p])

WikiInv == WikiShape /\ ViewerInv /\ CacheInv /\ RestoresSeen

LEMMA WikiStart == ASSUME WikiInit PROVE WikiInv
<1>1. WikiShape
  BY DEF WikiInit, NewEntry, WikiShape, Shaped, ViewerShape, NoViewer, PageOrNone
<1>2. CacheInv
  BY DEF WikiInit, NewEntry, CacheInv, ShowsContent
<1>3. ViewerInv
  BY DEF WikiInit, ViewerInv, NoViewer, LeftoversNeedACachedPage
<1>4. RestoresSeen
  BY DEF WikiInit, RestoresSeen
<1> QED
  BY <1>1, <1>2, <1>3, <1>4 DEF WikiInv

\* The operations of the cache on one entry.
LEMMA Entries ==
    ASSUME NEW e, NEW none, Shaped(e, none), NEW d
    PROVE  /\ Shaped(Ask(e), none) /\ Ask(e).data = e.data /\ Ask(e).received = e.received
           /\ ~Loading(e) => Ask(e).get = "asked"
           /\ Shaped(Answer(e, d), none) /\ Answer(e, d).data = e.data /\ Answer(e, d).answer = d
           /\ Answer(e, d).get = "read" /\ Answer(e, d).invalid = e.invalid
           /\ Answer(e, d).received = e.received
           /\ Shaped(Land(e), none) /\ Land(e).data = e.answer /\ Land(e).get = "none" /\ ~Land(e).invalid
           /\ Land(e).received
           /\ Shaped(Lose(e), none) /\ Lose(e).data = e.data /\ Lose(e).get = "none" /\ Lose(e).invalid
           /\ Lose(e).received = e.received
<1> USE DEF Shaped
<1>3. /\ Shaped(Ask(e), none) /\ Ask(e).data = e.data /\ Ask(e).received = e.received
      /\ ~Loading(e) => Ask(e).get = "asked"
  BY DEF Ask
<1>4. /\ Shaped(Answer(e, d), none) /\ Answer(e, d).data = e.data /\ Answer(e, d).answer = d
      /\ Answer(e, d).get = "read" /\ Answer(e, d).invalid = e.invalid
      /\ Answer(e, d).received = e.received
  BY DEF Answer
<1>5. /\ Shaped(Land(e), none) /\ Land(e).data = e.answer /\ Land(e).get = "none" /\ ~Land(e).invalid
      /\ Land(e).received
  BY DEF Land
<1>6. /\ Shaped(Lose(e), none) /\ Lose(e).data = e.data /\ Lose(e).get = "none" /\ Lose(e).invalid
      /\ Lose(e).received = e.received
  BY DEF Lose
<1> QED
  BY <1>3, <1>4, <1>5, <1>6

\* Marking an entry invalid, with or without the page on screen.
LEMMA Marks ==
    ASSUME NEW e, NEW none, Shaped(e, none)
    PROVE  /\ Shaped(Invalidate(e, TRUE), none) /\ Invalidate(e, TRUE).data = e.data
           /\ Invalidate(e, TRUE).received = e.received
           /\ ~Loading(e) => Invalidate(e, TRUE).get = "asked"
           /\ Loading(e) => /\ Invalidate(e, TRUE).get = e.get /\ Invalidate(e, TRUE).invalid
                            /\ Invalidate(e, TRUE).answer = e.answer
           /\ Shaped(Invalidate(e, FALSE), none) /\ Invalidate(e, FALSE).get = e.get
           /\ Invalidate(e, FALSE).data = e.data /\ Invalidate(e, FALSE).invalid
           /\ Invalidate(e, FALSE).answer = e.answer /\ Invalidate(e, FALSE).received = e.received
<1> DEFINE m == [e EXCEPT !.invalid = TRUE]
<1>1. /\ Shaped(m, none) /\ m.data = e.data /\ m.get = e.get /\ m.answer = e.answer /\ m.invalid
      /\ m.received = e.received
  BY DEF Shaped
<1>2. Invalidate(e, FALSE) = m /\ Invalidate(e, TRUE) = Ask(m)
  BY DEF Invalidate
<1> HIDE DEF m
<1>3. Loading(m) <=> Loading(e)
  BY <1>1 DEF Loading, Fetching
<1>4. Loading(m) => Ask(m) = m
  BY DEF Ask
<1>5. /\ Shaped(Ask(m), none) /\ Ask(m).data = m.data /\ Ask(m).received = m.received
      /\ ~Loading(m) => Ask(m).get = "asked"
  BY <1>1, Entries
<1> QED
  BY <1>1, <1>2, <1>3, <1>4, <1>5

LEMMA EntryShows ==
    ASSUME NEW e, Shaped(e, NoWiki), NEW c
    PROVE  /\ ~Loading(e) => ShowsContent(Ask(e), c)
           /\ ShowsContent(Answer(e, c), c)
           /\ ShowsContent(e, c) /\ e.get = "read" => ShowsContent(Land(e), c)
           /\ ShowsContent(Lose(e), c)
           /\ ShowsContent(e, c) \/ ~Loading(e) => ShowsContent(Invalidate(e, TRUE), c)
           /\ ShowsContent(e, c) \/ ~Fetching(e) => ShowsContent(Invalidate(e, FALSE), c)
<1>1. /\ ~Loading(e) => ShowsContent(Ask(e), c)
      /\ ShowsContent(Answer(e, c), c) /\ ShowsContent(Lose(e), c)
  BY Entries DEF ShowsContent, Fetching
<1>2. ShowsContent(e, c) /\ e.get = "read" => ShowsContent(Land(e), c)
  BY Entries DEF ShowsContent, Fetching
<1>3. ShowsContent(e, c) \/ ~Loading(e) => ShowsContent(Invalidate(e, TRUE), c)
  BY Marks DEF ShowsContent, Fetching
<1>4. ShowsContent(e, c) \/ ~Fetching(e) => ShowsContent(Invalidate(e, FALSE), c)
  BY Marks DEF ShowsContent, Fetching
<1> QED
  BY <1>1, <1>2, <1>3, <1>4

\* Any set of restores that a render draws.
LEMMA Rendered ==
    ASSUME NEW v, NEW rs, Render(v, rs), WikiShape,
           \A r \in rs : RestoreShape(r)
    PROVE  /\ \A p : Waited(p, restores') <=> Waited(p, rs)
           /\ \A r \in restores' : RestoreShape(r) /\ \E o \in rs : r.page = o.page
<1> DEFINE drawn == PageViewer' = "page"
           Seen(r) == IF drawn /\ r.here THEN [r EXCEPT !.tell = selectedPageId']
                      ELSE [r EXCEPT !.here = FALSE]
<1>1. restores' = {Seen(r) : r \in rs}
  BY DEF Render
<1>2. ASSUME NEW r \in rs
      PROVE  /\ Seen(r).page = r.page /\ Seen(r).st = r.st
             /\ RestoreShape(Seen(r))
  <2>1. CASE drawn /\ r.here
    <3>1. Seen(r) = [r EXCEPT !.tell = selectedPageId'] /\ RestoreShape(r)
      BY <2>1
    <3> HIDE DEF Seen
    <3> QED
      BY <3>1 DEF RestoreShape
  <2>2. CASE ~(drawn /\ r.here)
    <3>1. Seen(r) = [r EXCEPT !.here = FALSE] /\ RestoreShape(r)
      BY <2>2
    <3> HIDE DEF Seen
    <3> QED
      BY <3>1 DEF RestoreShape
  <2> QED
    BY <2>1, <2>2
<1> HIDE DEF Seen, drawn
<1> QED
  BY <1>1, <1>2 DEF Waited

LEMMA RenderKeepsViewer ==
    ASSUME NEW v, NEW rs, Render(v, rs), ViewerInv,
           v = viewer \/ v = [viewer EXCEPT !.open = FALSE], WikiShape
    PROVE  /\ ViewerInv'
           /\ ViewerShape(viewer')
<1>1. /\ ViewerShape(v)
      /\ v.summary = viewer.summary /\ v.preview = viewer.preview /\ v.asking = viewer.asking
  BY DEF WikiShape, ViewerShape
<1>2. /\ viewer' = IF PageViewer' = "page" THEN v ELSE NoViewer
      /\ fresh' = (PageViewer' = "page" /\ (PageViewer # "page" \/ (fresh /\ selectedPageId' = selectedPageId)))
  BY DEF Render, Unmounted
<1>3. CASE PageViewer' # "page"
  BY <1>2, <1>3 DEF ViewerInv, ViewerShape, LeftoversNeedACachedPage, NoViewer
<1>4. CASE PageViewer' = "page" /\ PageViewer # "page"
  BY <1>1, <1>2, <1>4 DEF ViewerInv, LeftoversNeedACachedPage, NoViewer, ViewerShape
<1>5. CASE PageViewer' = "page" /\ PageViewer = "page"
  BY <1>1, <1>2, <1>5 DEF ViewerInv, LeftoversNeedACachedPage
<1> QED
  BY <1>3, <1>4, <1>5

\* The steps that render: what is left to say of each is what it does to the
\* cache and the choice.
LEMMA RenderKeeps ==
    ASSUME WikiInv, NEW v, NEW rs, Render(v, rs),
           v = viewer \/ v = [viewer EXCEPT !.open = FALSE],
           rs \subseteq restores,
           chosen' \in PageOrNone, first' \in PageOrNone, content' = content,
           details' = [p \in Wikis |-> details'[p]], \A p \in Wikis : Shaped(details'[p], NoWiki),
           \A p \in Wikis : details[p].received => details'[p].received,
           \A p \in Wikis \ astray' : ~Waited(p, rs) => ShowsContent(details'[p], content[p])
    PROVE  WikiInv'
<1>1. WikiShape
  BY DEF WikiInv
<1>2. \A r \in rs : RestoreShape(r)
  BY <1>1 DEF WikiShape
<1>3. /\ \A p : Waited(p, restores') <=> Waited(p, rs)
      /\ \A r \in restores' : RestoreShape(r) /\ \E o \in rs : r.page = o.page
  BY <1>1, <1>2, Rendered
<1>4. ViewerInv' /\ ViewerShape(viewer')
  BY <1>1, RenderKeepsViewer DEF WikiInv
<1>5. WikiShape'
  BY <1>1, <1>3, <1>4 DEF WikiShape
<1>6. CacheInv'
  BY <1>3 DEF CacheInv
<1>7. RestoresSeen'
  BY <1>3 DEF RestoresSeen, WikiInv
<1> QED
  BY <1>4, <1>5, <1>6, <1>7 DEF WikiInv

LEMMA ListedPages == displayedPages \in Seq(Wikis) /\ displayedPages' \in Seq(Wikis)
  BY WikiAssumption DEF displayedPages

LEMMA RelistedIsAPage == ASSUME WikiInv, Relisted PROVE first' \in PageOrNone
<1>1. CASE displayedPages' = <<>>
  BY <1>1 DEF Relisted, PageOrNone, WikiInv, WikiShape
<1>2. CASE displayedPages' # <<>>
  <2>1. displayedPages'[1] \in Wikis
    BY <1>2, ListedPages
  <2> QED
    BY <2>1 DEF Relisted, PageOrNone, WikiInv, WikiShape
<1> QED
  BY <1>1, <1>2

\* Showing a page at most asks for it.
LEMMA PageQueryKeeps ==
    ASSUME WikiInv, NEW q \in PageOrNone, NEW old, pageQuery(q, old)
    PROVE  /\ details' = [p \in Wikis |-> details'[p]]
           /\ \A p \in Wikis : Shaped(details'[p], NoWiki)
           /\ \A p \in Wikis : \A c : ShowsContent(details[p], c) => ShowsContent(details'[p], c)
           /\ \A p \in Wikis : details'[p].received = details[p].received
<1>1. details = [p \in Wikis |-> details[p]] /\ \A p \in Wikis : Shaped(details[p], NoWiki)
  BY DEF WikiInv, WikiShape
<1>2. CASE UNCHANGED details
  BY <1>1, <1>2
<1>3. CASE details' = [details EXCEPT ![q] = IF Fetching(@) THEN @ ELSE Ask(@)]
  <2>1. \A p \in Wikis :
            \/ details'[p] = details[p]
            \/ details'[p] = Ask(details[p]) /\ ~Loading(details[p])
    <3> TAKE p \in Wikis
    <3>1. CASE p = q
      BY <1>1, <1>3, <3>1 DEF Loading
    <3>2. CASE p # q
      BY <1>1, <1>3, <3>2
    <3> QED
      BY <3>1, <3>2
  <2>2. details' = [p \in Wikis |-> details'[p]]
    BY <1>1, <1>3
  <2>3. \A p \in Wikis :
            /\ Shaped(Ask(details[p]), NoWiki) /\ Ask(details[p]).received = details[p].received
            /\ ~Loading(details[p]) => \A c : ShowsContent(Ask(details[p]), c)
    BY <1>1, Entries, EntryShows
  <2>4. ASSUME NEW p \in Wikis
        PROVE  /\ Shaped(details'[p], NoWiki) /\ details'[p].received = details[p].received
               /\ \A c : ShowsContent(details[p], c) => ShowsContent(details'[p], c)
    <3>1. CASE details'[p] = details[p]
      BY <1>1, <3>1
    <3>2. CASE details'[p] = Ask(details[p]) /\ ~Loading(details[p])
      BY <2>3, <3>2
    <3> QED
      BY <2>1, <3>1, <3>2
  <2> QED
    BY <2>2, <2>4
<1> QED
  BY <1>2, <1>3 DEF pageQuery

\* A step that leaves what is drawn, the cache and the restores alone.
LEMMA ViewerMoves ==
    ASSUME WikiInv, UNCHANGED <<content, details, lists, term, chosen, first, restores, fresh, astray>>,
           ViewerShape(viewer'), PageViewer = "page" \/ viewer' = viewer,
           viewer'.summary \in {viewer.summary, viewer.asking},
           viewer'.preview \in {viewer.preview, selectedPageId},
           viewer'.asking \in {viewer.asking, selectedPageId, NoWiki}
    PROVE  WikiInv'
<1>1. PageViewer' = PageViewer /\ selectedPageId' = selectedPageId
  BY DEF PageViewer, selectedPageId
<1>2. ViewerInv'
  BY <1>1 DEF WikiInv, ViewerInv, LeftoversNeedACachedPage
<1> QED
  BY <1>2 DEF WikiInv, WikiShape, CacheInv, RestoresSeen

\* A step that leaves the viewer and what is drawn alone.
LEMMA CacheMoves ==
    ASSUME WikiInv, UNCHANGED <<lists, term, chosen, first, viewer, fresh>>,
           details' = [p \in Wikis |-> details'[p]], \A p \in Wikis : Shaped(details'[p], NoWiki),
           content' = [p \in Wikis |-> content'[p]],
           \A p \in Wikis : details'[p].data = details[p].data
                            /\ (Fetching(details'[p]) <=> Fetching(details[p]))
                            /\ details'[p].received = details[p].received,
           \A r \in restores' : RestoreShape(r) /\ r.page \in Wikis /\ details[r.page].received,
           CacheInv'
    PROVE  WikiInv'
<1>1. selectedPageId' = selectedPageId /\ selectedPageId \in Wikis \cup {NoWiki}
  BY DEF selectedPageId, WikiInv, WikiShape, PageOrNone
<1>2. PageViewer' = PageViewer
  BY <1>1 DEF PageViewer
<1>3. ViewerInv'
  BY <1>1, <1>2 DEF WikiInv, ViewerInv, LeftoversNeedACachedPage
<1> QED
  BY <1>3 DEF WikiInv, WikiShape, RestoresSeen

LEMMA WikiStepKeeps == ASSUME WikiInv, WikiNext PROVE WikiInv'
<1>0. /\ WikiShape /\ details = [p \in Wikis |-> details[p]]
      /\ \A p \in Wikis : Shaped(details[p], NoWiki)
      /\ chosen \in PageOrNone /\ first \in PageOrNone
      /\ content = [p \in Wikis |-> content[p]]
      /\ \A r \in restores : RestoreShape(r) /\ r.page \in Wikis /\ details[r.page].received
  BY DEF WikiInv, WikiShape, RestoresSeen
<1>1. ASSUME NEW q \in PageOrNone, pageQuery(q, selectedPageId), Render(viewer, restores),
             chosen' \in PageOrNone, first' \in PageOrNone, UNCHANGED <<content, astray>>
      PROVE  WikiInv'
  <2>1. /\ details' = [p \in Wikis |-> details'[p]]
        /\ \A p \in Wikis : Shaped(details'[p], NoWiki)
        /\ \A p \in Wikis : \A c : ShowsContent(details[p], c) => ShowsContent(details'[p], c)
        /\ \A p \in Wikis : details'[p].received = details[p].received
    BY <1>1, PageQueryKeeps
  <2>2. \A p \in Wikis \ astray' : ~Waited(p, restores) => ShowsContent(details'[p], content[p])
    BY <1>1, <2>1 DEF WikiInv, CacheInv
  <2> QED
    BY <1>1, <2>1, <2>2, RenderKeeps
<1>2. ASSUME NEW result, ListAnswers(result) PROVE WikiInv'
  <2>1. first' \in PageOrNone /\ chosen' = chosen
    BY <1>2, RelistedIsAPage DEF ListAnswers
  <2>2. selectedPageId' \in PageOrNone
    BY <1>0, <2>1 DEF selectedPageId
  <2> QED
    BY <1>0, <1>1, <1>2, <2>1, <2>2 DEF ListAnswers
<1>3. CASE DebounceFires
  <2>1. first' \in PageOrNone /\ chosen' = chosen
    BY <1>3, RelistedIsAPage DEF DebounceFires
  <2>2. selectedPageId' \in PageOrNone
    BY <1>0, <2>1 DEF selectedPageId
  <2> QED
    BY <1>0, <1>1, <1>3, <2>1, <2>2 DEF DebounceFires
<1>4. ASSUME NEW p \in Wikis, onSelect(p) PROVE WikiInv'
  <2>1. p \in PageOrNone
    BY DEF PageOrNone
  <2> QED
    BY <1>0, <1>1, <1>4, <2>1 DEF onSelect
<1>5. CASE TypeSearch
  <2>1. ViewerShape(viewer')
    BY <1>0, <1>5 DEF TypeSearch, WikiShape
  <2> QED
    BY <1>5, <2>1, ViewerMoves DEF TypeSearch
<1>6. ASSUME NEW p \in Wikis, DetailReads(p) PROVE WikiInv'
  <2>1. /\ details' = [details EXCEPT ![p] = Answer(@, content[p])] /\ details[p].get = "asked"
        /\ UNCHANGED <<content, lists, term, chosen, first, viewer, fresh, restores, astray>>
    BY <1>6 DEF DetailReads
  <2>2. \A w \in Wikis : details'[w] = IF w = p THEN Answer(details[p], content[p]) ELSE details[w]
    BY <1>0, <2>1
  <2>3. /\ Shaped(Answer(details[p], content[p]), NoWiki) /\ Answer(details[p], content[p]).get = "read"
        /\ Answer(details[p], content[p]).data = details[p].data
        /\ Answer(details[p], content[p]).received = details[p].received
        /\ ShowsContent(Answer(details[p], content[p]), content[p])
    <3>1. Shaped(details[p], NoWiki)
      BY <1>0
    <3>2. ShowsContent(Answer(details[p], content[p]), content[p])
      BY <3>1, EntryShows
    <3>3. /\ Shaped(Answer(details[p], content[p]), NoWiki) /\ Answer(details[p], content[p]).get = "read"
          /\ Answer(details[p], content[p]).data = details[p].data
          /\ Answer(details[p], content[p]).received = details[p].received
      BY <3>1, Entries
    <3> QED
      BY <3>2, <3>3
  <2>4. CacheInv'
    BY <2>1, <2>2, <2>3 DEF CacheInv, WikiInv
  <2>5. \A w \in Wikis : Shaped(details'[w], NoWiki) /\ details'[w].data = details[w].data
                          /\ (Fetching(details'[w]) <=> Fetching(details[w]))
                          /\ details'[w].received = details[w].received
    BY <1>0, <2>1, <2>2, <2>3 DEF Fetching
  <2>6. details' = [w \in Wikis |-> details'[w]] /\ content' = [w \in Wikis |-> content'[w]]
    BY <1>0, <2>1
  <2> QED
    BY <1>0, <2>1, <2>4, <2>5, <2>6, CacheMoves
<1>7. ASSUME NEW p \in Wikis, DetailAnswers(p) PROVE WikiInv'
  <2>1. /\ UNCHANGED <<content, chosen, first, astray>> /\ Render(viewer, restores)
        /\ \E e \in {Land(details[p]), Lose(details[p])} :
              /\ details' = [details EXCEPT ![p] = e]
              /\ e = Land(details[p]) => details[p].get = "read" \/ e = Lose(details[p])
    BY <1>7 DEF DetailAnswers
  <2>2. PICK e \in {Land(details[p]), Lose(details[p])} :
              /\ details' = [details EXCEPT ![p] = e]
              /\ e = Land(details[p]) => details[p].get = "read" \/ e = Lose(details[p])
    BY <2>1
  <2>3. /\ Shaped(e, NoWiki) /\ \A c : ShowsContent(details[p], c) => ShowsContent(e, c)
        /\ details[p].received => e.received
    <3>1. Shaped(details[p], NoWiki)
      BY <1>0
    <3>2. /\ Shaped(Land(details[p]), NoWiki) /\ Shaped(Lose(details[p]), NoWiki) /\ Land(details[p]).received
          /\ Lose(details[p]).received = details[p].received
      BY <3>1, Entries
    <3>3. ASSUME NEW c, ShowsContent(details[p], c)
          PROVE  /\ ShowsContent(Lose(details[p]), c)
                 /\ details[p].get = "read" => ShowsContent(Land(details[p]), c)
      BY <3>1, <3>3, EntryShows
    <3>4. CASE e = Lose(details[p])
      BY <3>2, <3>3, <3>4
    <3>5. CASE e = Land(details[p]) /\ details[p].get = "read"
      BY <3>2, <3>3, <3>5
    <3> QED
      BY <2>2, <3>4, <3>5
  <2>4. \A w \in Wikis : details'[w] = IF w = p THEN e ELSE details[w]
    BY <1>0, <2>2
  <2>5. \A w \in Wikis \ astray' : ~Waited(w, restores) => ShowsContent(details'[w], content[w])
    BY <2>1, <2>3, <2>4 DEF WikiInv, CacheInv
  <2>6. details' = [w \in Wikis |-> details'[w]] /\ \A w \in Wikis : Shaped(details'[w], NoWiki)
    BY <1>0, <2>2, <2>3, <2>4
  <2>7. \A w \in Wikis : details[w].received => details'[w].received
    BY <2>3, <2>4
  <2> QED
    BY <1>0, <2>1, <2>5, <2>6, <2>7, RenderKeeps
<1>8. ViewerShape(viewer)
  BY <1>0 DEF WikiShape
<1>9. CASE Summarize
  <2>1. ViewerShape(viewer') /\ viewer'.summary = viewer.summary /\ viewer'.preview = viewer.preview
        /\ viewer'.asking = selectedPageId
    BY <1>8, <1>9 DEF Summarize, ViewerShape
  <2> QED
    BY <1>9, <2>1, ViewerMoves DEF Summarize
<1>10. CASE SummaryAnswers
  <2>1. PageViewer = "page"
    BY <1>10 DEF SummaryAnswers, WikiInv, ViewerInv, NoViewer
  <2>2. ViewerShape(viewer') /\ viewer'.summary \in {viewer.summary, viewer.asking}
        /\ viewer'.preview = viewer.preview /\ viewer'.asking = NoWiki
    BY <1>8, <1>10 DEF SummaryAnswers, ViewerShape
  <2> QED
    BY <1>10, <2>1, <2>2, ViewerMoves DEF SummaryAnswers
<1>11. CASE SetOpen
  <2>1. ViewerShape(viewer') /\ viewer'.summary = viewer.summary /\ viewer'.preview = viewer.preview
        /\ viewer'.asking = viewer.asking
    BY <1>8, <1>11 DEF SetOpen, ViewerShape
  <2> QED
    BY <1>11, <2>1, ViewerMoves DEF SetOpen
<1>12. CASE PreviewVersion
  <2>1. PageViewer = "page"
    BY <1>12 DEF PreviewVersion, WikiInv, ViewerInv, NoViewer
  <2>2. ViewerShape(viewer') /\ viewer'.summary = viewer.summary /\ viewer'.preview = selectedPageId
        /\ viewer'.asking = viewer.asking
    BY <1>8, <1>12 DEF PreviewVersion, ViewerShape
  <2> QED
    BY <1>12, <2>1, <2>2, ViewerMoves DEF PreviewVersion
<1>13. CASE Restore
  <2> DEFINE new == [n |-> asked + 1, page |-> selectedPageId, tell |-> selectedPageId,
                     here |-> TRUE, st |-> "sent"]
  <2>1. /\ restores' = restores \cup {new}
        /\ UNCHANGED <<content, details, lists, term, chosen, first, viewer, fresh, astray>>
    BY <1>13 DEF Restore
  <2>2. RestoreShape(new) /\ new.st = "sent"
    BY DEF RestoreShape
  <2>5. new.page = selectedPageId
    OBVIOUS
  <2> HIDE DEF new
  <2>3. CacheInv'
    BY <2>1, <2>2 DEF CacheInv, Waited, WikiInv
  <2>4. \A r \in restores' : RestoreShape(r) /\ r.page \in Wikis /\ details[r.page].received
    <3>1. PageViewer = "page"
      BY <1>13 DEF Restore, WikiInv, ViewerInv, NoViewer
    <3>2. selectedPageId \in Wikis /\ details[selectedPageId].data # NoWiki
      BY <1>0, <3>1 DEF PageViewer, selectedPageId, PageOrNone
    <3>3. details[selectedPageId].received
      BY <1>0, <3>2 DEF Shaped
    <3> QED
      BY <1>0, <2>1, <2>2, <2>5, <3>2, <3>3
  <2> QED
    BY <1>0, <2>1, <2>3, <2>4, CacheMoves
<1>14. ASSUME NEW r \in restores, RestoreStored(r) PROVE WikiInv'
  <2> DEFINE done == [r EXCEPT !.st = "stored"]
  <2>1. /\ restores' = (restores \ {r}) \cup {done} /\ r.st = "sent"
        /\ content' = [content EXCEPT ![r.page] = @ + 1]
        /\ UNCHANGED <<details, lists, term, chosen, first, viewer, fresh, astray>>
    BY <1>14 DEF RestoreStored
  <2>2. RestoreShape(done) /\ done.st = "stored" /\ done.page = r.page
    BY <1>0 DEF RestoreShape
  <2> HIDE DEF done
  <2>3. /\ Waited(r.page, restores')
        /\ \A p : Waited(p, restores) => Waited(p, restores')
    BY <2>1, <2>2 DEF Waited
  <2>4. \A p \in Wikis : p # r.page => content'[p] = content[p]
    BY <1>0, <2>1
  <2>5. CacheInv'
    BY <2>1, <2>3, <2>4 DEF CacheInv, WikiInv
  <2>6. \A s \in restores' : RestoreShape(s) /\ s.page \in Wikis /\ details[s.page].received
    BY <1>0, <2>1, <2>2
  <2>7. content' = [p \in Wikis |-> content'[p]]
    BY <1>0, <2>1
  <2> QED
    BY <1>0, <2>1, <2>5, <2>6, <2>7, CacheMoves
<1>15. ASSUME NEW r \in restores, RestoreAnswered(r) PROVE WikiInv'
  <2> DEFINE v == IF r.here THEN [viewer EXCEPT !.open = FALSE] ELSE viewer
  <2>1. /\ r.st = "stored" /\ details' = invalidateDetail(r.tell)
        /\ UNCHANGED <<content, chosen, first>>
        /\ astray' = IF r.tell = r.page /\ (r.page = selectedPageId \/ ~Fetching(details[r.page]))
                     THEN astray ELSE astray \cup {r.page}
        /\ Render(v, restores \ {r})
    BY <1>15 DEF RestoreAnswered
  <2>2. v = viewer \/ v = [viewer EXCEPT !.open = FALSE]
    OBVIOUS
  <2> HIDE DEF v
  <2>3. \A p \in Wikis : details'[p] = IF p = r.tell THEN Invalidate(details[p], p = selectedPageId)
                                       ELSE details[p]
    BY <1>0, <2>1 DEF invalidateDetail
  <2>4. details' = [p \in Wikis |-> details'[p]]
    BY <1>0, <2>1 DEF invalidateDetail
  <2>5. \A p \in Wikis :
          /\ Shaped(Invalidate(details[p], p = selectedPageId), NoWiki)
          /\ Invalidate(details[p], p = selectedPageId).received = details[p].received
          /\ (p = selectedPageId /\ details[p].received) \/ ~Fetching(details[p]) =>
                ShowsContent(Invalidate(details[p], p = selectedPageId), content[p])
          /\ ShowsContent(details[p], content[p]) =>
                ShowsContent(Invalidate(details[p], p = selectedPageId), content[p])
    <3> TAKE p \in Wikis
    <3>1. CASE p = selectedPageId
      <4>1. (p = selectedPageId) = TRUE
        BY <3>1
      <4> QED
        BY <1>0, <3>1, <4>1, Marks, EntryShows DEF Loading
    <3>2. CASE p # selectedPageId
      <4>1. (p = selectedPageId) = FALSE
        BY <3>2
      <4> QED
        BY <1>0, <3>2, <4>1, Marks, EntryShows
    <3> QED
      BY <3>1, <3>2
  <2>6. ASSUME NEW p \in Wikis \ astray', ~Waited(p, restores \ {r})
        PROVE  ShowsContent(details'[p], content[p])
    <3>1. CASE p = r.page
      BY <1>0, <2>1, <2>3, <2>5, <2>6, <3>1
    <3>2. CASE p # r.page
      <4>1. ~Waited(p, restores) /\ p \notin astray
        BY <2>1, <2>6, <3>2 DEF Waited
      <4> QED
        BY <2>3, <2>5, <4>1 DEF WikiInv, CacheInv
    <3> QED
      BY <3>1, <3>2
  <2>7. \A p \in Wikis : Shaped(details'[p], NoWiki) /\ details'[p].received = details[p].received
    BY <1>0, <2>3, <2>5
  <2>8. restores \ {r} \subseteq restores
    OBVIOUS
  <2>9. chosen' \in PageOrNone /\ first' \in PageOrNone /\ content' = content
    BY <1>0, <2>1
  <2>10. \A p \in Wikis : details[p].received => details'[p].received
    BY <2>7
  <2>11. \A p \in Wikis : Shaped(details'[p], NoWiki)
    BY <2>7
  <2> QED
    BY <2>1, <2>2, <2>4, <2>6, <2>8, <2>9, <2>10, <2>11, RenderKeeps
<1>16. ASSUME NEW r \in restores, RestoreFails(r) PROVE WikiInv'
  <2>1. /\ restores' = restores \ {r}
        /\ astray' = IF r.st = "stored" THEN astray \cup {r.page} ELSE astray
        /\ UNCHANGED <<content, details, lists, term, chosen, first, viewer, fresh>>
    BY <1>16 DEF RestoreFails
  <2>2. \A p \in Wikis \ astray' : ~Waited(p, restores') => ~Waited(p, restores) /\ p \notin astray
    BY <2>1 DEF Waited
  <2>3. CacheInv'
    BY <2>1, <2>2 DEF CacheInv, WikiInv
  <2> QED
    BY <1>0, <2>1, <2>3, CacheMoves
<1> QED
  BY <1>2, <1>3, <1>4, <1>5, <1>6, <1>7, <1>9, <1>10, <1>11, <1>12, <1>13, <1>14, <1>15, <1>16
     DEF WikiNext

LEMMA WikiStays == ASSUME WikiInv, UNCHANGED wikiVars PROVE WikiInv'
<1>1. PageViewer' = PageViewer /\ selectedPageId' = selectedPageId
  BY DEF wikiVars, PageViewer, selectedPageId
<1> QED
  BY <1>1 DEF wikiVars, WikiInv, WikiShape, ViewerInv, LeftoversNeedACachedPage, CacheInv, RestoresSeen

LEMMA RestoredShow == ASSUME WikiInv PROVE RestoredPagesAreRefetched
<1>1. \A p : (\A r \in restores : r.page # p) => ~Waited(p, restores)
  BY DEF Waited
<1> QED
  BY <1>1 DEF WikiInv, CacheInv, ShowsContent, RestoredPagesAreRefetched

-----------------------------------------------------------------------------
(* The shares of a file.                                                   *)

Posted(ss, f) == {n \in 1..MaxPosts : \E s \in ss : s.n = n /\ s.file = f /\ s.st # "posting"}

ShareShape(s) ==
    s \in [n : 1..MaxPosts, file : Uploads, here : BOOLEAN,
           st : {"posting", "posted", "linking", "linked"}]

\* Calls are told apart by their number; a file has at most one call whose
\* dialog is still drawn, and that dialog is loading.
SharesInv(ss, ds) ==
    /\ \A s \in ss : ShareShape(s)
    /\ \A s, t \in ss : s.n = t.n => s = t
    /\ \A s, t \in ss : s.here /\ t.here /\ s.file = t.file => s = t
    /\ \A s \in ss : s.here => ds[s.file].pending

DialogShape(d) == d \in [open : BOOLEAN, channel : BOOLEAN, pending : BOOLEAN, error : BOOLEAN]

\* Every message about a file was posted by a share that ended, was cut off,
\* or is under way.
PostsCounted(ps, gs, ts, ss) ==
    /\ ps \in [Uploads -> Nat] /\ gs \in [Uploads -> Nat] /\ ts \in [Uploads -> Nat]
    /\ \A f \in Uploads : ps[f] = gs[f] + ts[f] + Cardinality(Posted(ss, f))

FilesInv ==
    /\ dialog = [f \in Uploads |-> dialog[f]] /\ \A f \in Uploads : DialogShape(dialog[f])
    /\ SharesInv(shares, dialog)
    /\ PostsCounted(posts, good, torn, shares)

LEMMA PostedFinite ==
    ASSUME NEW ss, NEW f
    PROVE  IsFiniteSet(Posted(ss, f)) /\ Cardinality(Posted(ss, f)) \in Nat
<1>1. IsFiniteSet(1..MaxPosts)
  BY FilesAssumption, FS_Interval
<1>2. Posted(ss, f) \in SUBSET (1..MaxPosts)
  BY DEF Posted
<1> QED
  BY <1>1, <1>2, FS_Subset, FS_CardinalityType

LEMMA FilesStart == ASSUME FilesInit PROVE FilesInv
<1>1. \A f : Posted({}, f) = {}
  BY DEF Posted
<1>2. Cardinality({}) = 0
  BY FS_EmptySet
<1> QED
  BY <1>1, <1>2 DEF FilesInit, FilesInv, NoShare, DialogShape, SharesInv, PostsCounted

\* A redrawn table takes dialogs away, and marks their calls.
LEMMA RedrawKeeps ==
    ASSUME NEW ds, NEW ss, Redraw(ds, ss), SharesInv(ss, ds),
           \A f \in Uploads : DialogShape(ds[f])
    PROVE  /\ dialog' = [f \in Uploads |-> dialog'[f]] /\ \A f \in Uploads : DialogShape(dialog'[f])
           /\ SharesInv(shares', dialog')
           /\ \A f : Posted(shares', f) = Posted(ss, f)
<1> DEFINE L == FileList'
           R(s) == [s EXCEPT !.here = @ /\ s.file \in L]
<1>1. /\ dialog' = [f \in Uploads |-> IF f \in L THEN ds[f] ELSE NoShare]
      /\ shares' = {R(s) : s \in ss}
  BY DEF Redraw
<1>2. ASSUME NEW s \in ss
      PROVE  /\ R(s).n = s.n /\ R(s).file = s.file /\ R(s).st = s.st
             /\ ShareShape(R(s)) /\ R(s).here = (s.here /\ s.file \in L)
  <2>1. ShareShape(s)
    BY DEF SharesInv
  <2>2. R(s) = [s EXCEPT !.here = s.here /\ s.file \in L]
    OBVIOUS
  <2>3. (s.here /\ s.file \in L) \in BOOLEAN
    BY <2>1 DEF ShareShape
  <2> HIDE DEF R, L
  <2> QED
    BY <2>1, <2>2, <2>3 DEF ShareShape
<1> HIDE DEF R, L
<1>3. DialogShape(NoShare)
  BY DEF DialogShape, NoShare
<1>4. \A t \in shares' : \E s \in ss : t = R(s)
  BY <1>1
<1>5. SharesInv(shares', dialog')
  <2>1. \A t \in shares' : ShareShape(t)
    BY <1>2, <1>4
  <2>2. \A s, t \in shares' : s.n = t.n => s = t
    BY <1>2, <1>4 DEF SharesInv
  <2>3. ASSUME NEW s \in shares', NEW t \in shares', s.here, t.here, s.file = t.file
        PROVE  s = t
    <3>1. PICK a \in ss : s = R(a)
      BY <1>4
    <3>2. PICK b \in ss : t = R(b)
      BY <1>4
    <3>3. a.here /\ b.here /\ a.file = b.file
      BY <1>2, <2>3, <3>1, <3>2
    <3> QED
      BY <3>1, <3>2, <3>3 DEF SharesInv
  <2>4. \A t \in shares' : t.here => dialog'[t.file].pending
    <3> TAKE t \in shares'
    <3> HAVE t.here
    <3>1. PICK s \in ss : t = R(s)
      BY <1>4
    <3>2. s.here /\ s.file \in L /\ t.file = s.file /\ s.file \in Uploads
      BY <1>2, <3>1 DEF SharesInv, ShareShape
    <3> QED
      BY <1>1, <3>2 DEF SharesInv
  <2> QED
    BY <2>1, <2>2, <2>3, <2>4 DEF SharesInv
<1>6. \A f : Posted(shares', f) = Posted(ss, f)
  BY <1>1, <1>2, <1>4 DEF Posted
<1> QED
  BY <1>1, <1>3, <1>5, <1>6

\* A call that is over, or replaced by its next stage, and the messages
\* counted for it.
LEMMA PostedWithout ==
    ASSUME NEW ss, NEW s \in ss, \A t, u \in ss : t.n = u.n => t = u, ShareShape(s)
    PROVE  /\ \A f : f # s.file => Posted(ss \ {s}, f) = Posted(ss, f)
           /\ s.st = "posting" => \A f : Posted(ss \ {s}, f) = Posted(ss, f)
           /\ s.st # "posting" => Cardinality(Posted(ss, s.file)) = Cardinality(Posted(ss \ {s}, s.file)) + 1
<1>1. \A f : f # s.file \/ s.st = "posting" => Posted(ss \ {s}, f) = Posted(ss, f)
  BY DEF Posted
<1>2. ASSUME s.st # "posting"
      PROVE  Cardinality(Posted(ss, s.file)) = Cardinality(Posted(ss \ {s}, s.file)) + 1
  <2>1. s.n \in 1..MaxPosts
    BY DEF ShareShape
  <2>2. s.n \notin Posted(ss \ {s}, s.file)
    BY DEF Posted
  <2>3. Posted(ss, s.file) = Posted(ss \ {s}, s.file) \cup {s.n}
    BY <1>2, <2>1 DEF Posted
  <2> QED
    BY <2>2, <2>3, PostedFinite, FS_AddElement
<1> QED
  BY <1>1, <1>2

LEMMA PostedNext ==
    ASSUME NEW ss, NEW s \in ss, \A t, u \in ss : t.n = u.n => t = u, ShareShape(s),
           NEW d, ShareShape(d), d.n = s.n, d.file = s.file, d.here = s.here, d.st # "posting"
    PROVE  /\ \A f : f # s.file => Posted((ss \ {s}) \cup {d}, f) = Posted(ss, f)
           /\ s.st # "posting" => \A f : Posted((ss \ {s}) \cup {d}, f) = Posted(ss, f)
           /\ s.st = "posting" => Cardinality(Posted((ss \ {s}) \cup {d}, s.file))
                                    = Cardinality(Posted(ss, s.file)) + 1
<1>1. s.n \in 1..MaxPosts
  BY DEF ShareShape
<1>2. \A f : f # s.file \/ s.st # "posting" => Posted((ss \ {s}) \cup {d}, f) = Posted(ss, f)
  BY DEF Posted
<1>3. ASSUME s.st = "posting"
      PROVE  Cardinality(Posted((ss \ {s}) \cup {d}, s.file)) = Cardinality(Posted(ss, s.file)) + 1
  <2>1. s.n \notin Posted(ss, s.file)
    BY <1>3 DEF Posted
  <2>2. Posted((ss \ {s}) \cup {d}, s.file) = Posted(ss, s.file) \cup {s.n}
    BY <1>1, <1>3 DEF Posted
  <2> QED
    BY <2>1, <2>2, PostedFinite, FS_AddElement
<1> QED
  BY <1>2, <1>3

LEMMA NextStageKeeps ==
    ASSUME NEW ss, NEW ds, SharesInv(ss, ds), NEW s \in ss,
           NEW d, ShareShape(d), d.n = s.n, d.file = s.file, d.here = s.here
    PROVE  SharesInv((ss \ {s}) \cup {d}, ds)
  BY DEF SharesInv

LEMMA CountsSame ==
    ASSUME NEW ps, NEW gs, NEW ts, NEW ss, PostsCounted(ps, gs, ts, ss), NEW rs,
           \A f : Posted(rs, f) = Posted(ss, f)
    PROVE  PostsCounted(ps, gs, ts, rs)
  BY DEF PostsCounted

\* A step that touches neither calls nor counts, and leaves loading dialogs so.
LEMMA DialogMoves ==
    ASSUME FilesInv, UNCHANGED <<posts, good, torn, shares>>,
           dialog' = [f \in Uploads |-> dialog'[f]], \A f \in Uploads : DialogShape(dialog'[f]),
           \A f \in Uploads : dialog'[f].pending = dialog[f].pending
    PROVE  FilesInv'
<1>1. SharesInv(shares', dialog')
  BY DEF FilesInv, SharesInv, ShareShape
<1> QED
  BY <1>1 DEF FilesInv

LEMMA FilesStepKeeps == ASSUME FilesInv, FilesNext PROVE FilesInv'
<1>0. /\ dialog = [f \in Uploads |-> dialog[f]] /\ \A f \in Uploads : DialogShape(dialog[f])
      /\ SharesInv(shares, dialog) /\ PostsCounted(posts, good, torn, shares)
      /\ \A s \in shares : ShareShape(s)
      /\ \A s, t \in shares : s.n = t.n => s = t
  BY DEF FilesInv, SharesInv
<1>a. posts \in [Uploads -> Nat] /\ good \in [Uploads -> Nat] /\ torn \in [Uploads -> Nat]
  BY <1>0 DEF PostsCounted
<1>1. ASSUME Redraw(dialog, shares), UNCHANGED <<posts, good, torn>> PROVE FilesInv'
  BY <1>0, <1>1, RedrawKeeps, CountsSame DEF FilesInv
<1>2. ASSUME UNCHANGED <<posts, good, torn, shares, dialog>> PROVE FilesInv'
  BY <1>0, <1>2 DEF FilesInv
<1>3. CASE FilesAnswer \/ refetch \/ UploadLands
  BY <1>1, <1>3 DEF FilesAnswer, refetch, UploadLands, InvalidateFiles
<1>4. CASE RemoveAnswers
  BY <1>1, <1>2, <1>4 DEF RemoveAnswers, InvalidateFiles
<1>5. CASE FilesRead \/ onClose \/ onSubmit \/ UploadFails \/ RemoveDone
  BY <1>2, <1>5 DEF FilesRead, onClose, onSubmit, UploadFails, RemoveDone
<1>6. ASSUME NEW d \in Docs, handleFile(d) PROVE FilesInv'
  BY <1>2, <1>6 DEF handleFile
<1>7. ASSUME NEW f \in Uploads, UploadStored(f) \/ remove(f) PROVE FilesInv'
  BY <1>2, <1>7 DEF UploadStored, remove
<1>8. ASSUME NEW f \in Uploads, SetShareOpen(f) \/ ChooseChannel(f) PROVE FilesInv'
  <2>1. UNCHANGED <<posts, good, torn, shares>>
    BY <1>8 DEF SetShareOpen, ChooseChannel
  <2>2. PICK d \in {[dialog[f] EXCEPT !.open = ~@], [dialog[f] EXCEPT !.channel = TRUE]} :
          dialog' = [dialog EXCEPT ![f] = d]
    BY <1>0, <1>8 DEF SetShareOpen, ChooseChannel
  <2>3. DialogShape(d) /\ d.pending = dialog[f].pending
    BY <1>0, <2>2 DEF DialogShape
  <2> QED
    BY <1>0, <2>1, <2>2, <2>3, DialogMoves
<1>9. ASSUME NEW f \in Uploads, onShare(f) PROVE FilesInv'
  <2>1. PICK n \in 1..MaxPosts :
          /\ \A s \in shares : s.n # n
          /\ shares' = shares \cup {[n |-> n, file |-> f, here |-> TRUE, st |-> "posting"]}
    BY <1>9 DEF onShare
  <2> DEFINE new == [n |-> n, file |-> f, here |-> TRUE, st |-> "posting"]
             d == [dialog[f] EXCEPT !.pending = TRUE, !.error = FALSE]
  <2>2. ShareShape(new) /\ new.n = n /\ new.file = f /\ new.st = "posting"
    BY DEF ShareShape
  <2>3. DialogShape(d) /\ d.pending
    BY <1>0 DEF DialogShape
  <2>4. /\ dialog' = [dialog EXCEPT ![f] = d] /\ ~dialog[f].pending
        /\ UNCHANGED <<posts, good, torn>>
    BY <1>0, <1>9 DEF onShare, LoadingButton, DialogShape
  <2>5. shares' = shares \cup {new}
    BY <2>1
  <2> HIDE DEF new, d
  <2>6. \A s \in shares : s.here => s.file # f
    BY <1>0, <2>4 DEF SharesInv
  <2>7. SharesInv(shares', dialog')
    <3>1. \A s \in shares' : s.here => dialog'[s.file].pending
      BY <1>0, <2>2, <2>3, <2>4, <2>5 DEF SharesInv, ShareShape
    <3> QED
      BY <1>0, <2>1, <2>2, <2>5, <2>6, <3>1 DEF SharesInv
  <2>8. \A g : Posted(shares', g) = Posted(shares, g)
    BY <2>2, <2>5 DEF Posted
  <2>9. PostsCounted(posts', good', torn', shares')
    BY <1>0, <2>4, <2>8, CountsSame
  <2> QED
    BY <1>0, <2>3, <2>4, <2>7, <2>9 DEF FilesInv
<1>10. ASSUME NEW s \in shares, SharePosts(s) PROVE FilesInv'
  <2> DEFINE d == [s EXCEPT !.st = "posted"]
  <2>1. /\ s.st = "posting" /\ posts' = [posts EXCEPT ![s.file] = @ + 1]
        /\ shares' = (shares \ {s}) \cup {d} /\ UNCHANGED <<good, torn, dialog>>
    BY <1>10 DEF SharePosts
  <2>2. ShareShape(d) /\ d.n = s.n /\ d.file = s.file /\ d.here = s.here /\ d.st = "posted"
    BY <1>0 DEF ShareShape
  <2> HIDE DEF d
  <2>3. SharesInv(shares', dialog')
    BY <1>0, <2>1, <2>2, NextStageKeeps
  <2>4. /\ \A f : f # s.file => Posted(shares', f) = Posted(shares, f)
        /\ Cardinality(Posted(shares', s.file)) = Cardinality(Posted(shares, s.file)) + 1
    BY <1>0, <2>1, <2>2, PostedNext
  <2>5. s.file \in Uploads /\ \A f : Cardinality(Posted(shares, f)) \in Nat
    BY <1>0, PostedFinite DEF ShareShape
  <2>6. PostsCounted(posts', good', torn', shares')
    <3>1. \A f \in Uploads : posts'[f] = good[f] + torn[f] + Cardinality(Posted(shares', f))
      <4> TAKE f \in Uploads
      <4>1. posts[f] = good[f] + torn[f] + Cardinality(Posted(shares, f))
            /\ posts[f] \in Nat /\ good[f] \in Nat /\ torn[f] \in Nat
        BY <1>0 DEF PostsCounted
      <4>2. posts'[f] = IF f = s.file THEN posts[f] + 1 ELSE posts[f]
        BY <1>0, <2>1 DEF PostsCounted
      <4>3. CASE f = s.file
        BY <2>4, <2>5, <4>1, <4>2, <4>3
      <4>4. CASE f # s.file
        BY <2>4, <4>1, <4>2, <4>4
      <4> QED
        BY <4>3, <4>4
    <3>2. posts' \in [Uploads -> Nat]
      <4>1. s.file \in Uploads
        BY <2>5
      <4>2. posts[s.file] + 1 \in Nat
        BY <1>a, <4>1
      <4> QED
        BY <1>a, <2>1, <4>1, <4>2
    <3> QED
      BY <1>0, <2>1, <3>1, <3>2 DEF PostsCounted
  <2> QED
    BY <1>0, <2>1, <2>3, <2>6 DEF FilesInv
<1>11. ASSUME NEW s \in shares, ShareLinks(s) \/ ShareGoesOn(s) PROVE FilesInv'
  <2>1. PICK st \in {"linking", "linked"} : shares' = (shares \ {s}) \cup {[s EXCEPT !.st = st]}
    BY <1>11 DEF ShareLinks, ShareGoesOn
  <2> DEFINE d == [s EXCEPT !.st = st]
  <2>2. ShareShape(d) /\ d.n = s.n /\ d.file = s.file /\ d.here = s.here /\ d.st = st
    BY <1>0 DEF ShareShape
  <2>3. shares' = (shares \ {s}) \cup {d}
    BY <2>1
  <2> HIDE DEF d
  <2>4. s.st # "posting" /\ UNCHANGED <<posts, good, torn, dialog>>
    BY <1>11 DEF ShareLinks, ShareGoesOn
  <2>5. SharesInv(shares', dialog')
    BY <1>0, <2>2, <2>3, <2>4, NextStageKeeps
  <2>6. d.st # "posting"
    BY <2>2
  <2>7. \A f : Posted(shares', f) = Posted(shares, f)
    BY <1>0, <2>2, <2>3, <2>4, <2>6, PostedNext
  <2> QED
    BY <1>0, <2>4, <2>5, <2>7, CountsSame DEF FilesInv
<1>12. ASSUME NEW s \in shares PROVE SharesInv(shares \ {s}, dialog)
  BY <1>0 DEF SharesInv
<1>13. ASSUME NEW s \in shares, NEW d, DialogShape(d), s.here
       PROVE  SharesInv(shares \ {s}, [dialog EXCEPT ![s.file] = d])
  <2>1. \A t \in shares \ {s} : t.here => t.file # s.file
    BY <1>0, <1>13 DEF SharesInv
  <2>2. \A t \in shares \ {s} : t.here => [dialog EXCEPT ![s.file] = d][t.file].pending
    BY <1>0, <2>1 DEF SharesInv, ShareShape
  <2> QED
    BY <1>0, <2>2 DEF SharesInv
<1>14. ASSUME NEW s \in shares
       PROVE  /\ \A f \in Uploads : f # s.file => Posted(shares \ {s}, f) = Posted(shares, f)
              /\ s.st = "posting" => \A f : Posted(shares \ {s}, f) = Posted(shares, f)
              /\ s.st # "posting" => Cardinality(Posted(shares, s.file))
                                       = Cardinality(Posted(shares \ {s}, s.file)) + 1
              /\ s.file \in Uploads
              /\ \A f : Cardinality(Posted(shares \ {s}, f)) \in Nat
  BY <1>0, PostedWithout, PostedFinite DEF ShareShape
<1>15. ASSUME NEW s \in shares, ShareEnds(s) PROVE FilesInv'
  <2> DEFINE ds == IF s.here THEN [dialog EXCEPT ![s.file] = NoShare] ELSE dialog
  <2>1. /\ s.st # "posting" /\ good' = [good EXCEPT ![s.file] = @ + 1]
        /\ UNCHANGED <<posts, torn>> /\ Redraw(ds, shares \ {s})
    BY <1>15 DEF ShareEnds, InvalidateFiles
  <2>2. DialogShape(NoShare)
    BY DEF DialogShape, NoShare
  <2>3. \A f \in Uploads : DialogShape(ds[f])
    BY <1>0, <2>2
  <2>4. SharesInv(shares \ {s}, ds)
    BY <1>12, <1>13, <2>2
  <2> HIDE DEF ds
  <2>5. PostsCounted(posts', good', torn', shares \ {s})
    <3>1. \A f \in Uploads : posts[f] = good'[f] + torn[f] + Cardinality(Posted(shares \ {s}, f))
      <4> TAKE f \in Uploads
      <4>1. posts[f] = good[f] + torn[f] + Cardinality(Posted(shares, f))
            /\ posts[f] \in Nat /\ good[f] \in Nat /\ torn[f] \in Nat
        BY <1>0 DEF PostsCounted
      <4>2. good'[f] = IF f = s.file THEN good[f] + 1 ELSE good[f]
        BY <1>0, <2>1 DEF PostsCounted
      <4>3. CASE f = s.file
        BY <1>14, <2>1, <4>1, <4>2, <4>3
      <4>4. CASE f # s.file
        BY <1>14, <4>1, <4>2, <4>4
      <4> QED
        BY <4>3, <4>4
    <3>2. good' \in [Uploads -> Nat]
      <4>1. s.file \in Uploads
        BY <1>14
      <4>2. good[s.file] + 1 \in Nat
        BY <1>a, <4>1
      <4> QED
        BY <1>a, <2>1, <4>1, <4>2
    <3> QED
      BY <1>0, <2>1, <3>1, <3>2 DEF PostsCounted
  <2> QED
    BY <2>1, <2>3, <2>4, <2>5, RedrawKeeps, CountsSame DEF FilesInv
<1>16. ASSUME NEW s \in shares, ShareFails(s) PROVE FilesInv'
  <2> DEFINE d == [dialog[s.file] EXCEPT !.pending = FALSE, !.error = TRUE]
  <2>1. /\ shares' = shares \ {s} /\ UNCHANGED <<posts, good>>
        /\ dialog' = IF s.here THEN [dialog EXCEPT ![s.file] = d] ELSE dialog
        /\ torn' = IF s.st = "posting" THEN torn ELSE [torn EXCEPT ![s.file] = @ + 1]
    BY <1>0, <1>14, <1>16 DEF ShareFails
  <2>2. DialogShape(d)
    BY <1>0, <1>14 DEF DialogShape
  <2> HIDE DEF d
  <2>3. SharesInv(shares', dialog')
    BY <1>12, <1>13, <2>1, <2>2
  <2>4. PostsCounted(posts', good', torn', shares')
    <3>1. CASE s.st = "posting"
      BY <1>0, <1>14, <2>1, <3>1, CountsSame
    <3>2. CASE s.st # "posting"
      <4>1. \A f \in Uploads : posts[f] = good[f] + torn'[f] + Cardinality(Posted(shares \ {s}, f))
        <5> TAKE f \in Uploads
        <5>1. posts[f] = good[f] + torn[f] + Cardinality(Posted(shares, f))
              /\ posts[f] \in Nat /\ good[f] \in Nat /\ torn[f] \in Nat
          BY <1>0 DEF PostsCounted
        <5>2. torn'[f] = IF f = s.file THEN torn[f] + 1 ELSE torn[f]
          BY <1>0, <2>1, <3>2 DEF PostsCounted
        <5>3. CASE f = s.file
          BY <1>14, <2>1, <5>1, <5>2, <5>3, <3>2
        <5>4. CASE f # s.file
          BY <1>14, <5>1, <5>2, <5>4
        <5> QED
          BY <5>3, <5>4
      <4>2. torn' \in [Uploads -> Nat]
        <5>1. s.file \in Uploads
          BY <1>14
        <5>2. torn[s.file] + 1 \in Nat
          BY <1>a, <5>1
        <5> QED
          BY <1>a, <2>1, <3>2, <5>1, <5>2
      <4> QED
        BY <1>0, <2>1, <4>1, <4>2 DEF PostsCounted
    <3> QED
      BY <3>1, <3>2
  <2>5. dialog' = [f \in Uploads |-> dialog'[f]] /\ \A f \in Uploads : DialogShape(dialog'[f])
    BY <1>0, <2>1, <2>2
  <2> QED
    BY <2>3, <2>4, <2>5 DEF FilesInv
<1> QED
  BY <1>3, <1>4, <1>5, <1>6, <1>7, <1>8, <1>9, <1>10, <1>11, <1>15, <1>16 DEF FilesNext

LEMMA FilesStay == ASSUME FilesInv, UNCHANGED filesVars PROVE FilesInv'
  BY DEF FilesInv, filesVars

\* Of the calls that have posted, one at most has its dialog drawn.
LEMMA PostsHaveReasons == ASSUME FilesInv PROVE SecondPostHasAReason
<1> SUFFICES ASSUME NEW f \in Uploads
             PROVE  posts[f] <= 1 + good[f] + torn[f] + Cardinality({s \in shares : s.file = f /\ ~s.here})
  BY DEF SecondPostHasAReason
<1> DEFINE P == Posted(shares, f)
           Undrawn == {s \in shares : s.file = f /\ ~s.here}
           UndrawnIds == {s.n : s \in Undrawn}
           HereIds == {n \in 1..MaxPosts : \E s \in shares : s.n = n /\ s.file = f /\ s.here}
<1>0. /\ \A s \in shares : ShareShape(s)
      /\ \A s, t \in shares : s.n = t.n => s = t
      /\ \A s, t \in shares : s.here /\ t.here /\ s.file = t.file => s = t
  BY DEF FilesInv, SharesInv
<1>1. IsFiniteSet(1..MaxPosts)
  BY FilesAssumption, FS_Interval
<1>2. IsFiniteSet(Undrawn) /\ IsFiniteSet(UndrawnIds) /\ Cardinality(UndrawnIds) <= Cardinality(Undrawn)
      /\ Cardinality(UndrawnIds) \in Nat /\ Cardinality(Undrawn) \in Nat
  <2> DEFINE id == [s \in Undrawn |-> s.n]
  <2>1. id \in [Undrawn -> 1..MaxPosts]
    BY <1>0 DEF ShareShape
  <2>2. \A a, b \in Undrawn : id[a] = id[b] => a = b
    BY <1>0
  <2>3. id \in Injection(Undrawn, 1..MaxPosts)
    BY <2>1, <2>2, Fun_IsInj
  <2>4. id \in Surjection(Undrawn, UndrawnIds)
    BY DEF Surjection
  <2>5. IsFiniteSet(Undrawn)
    BY <1>1, <2>3, FS_Injection
  <2>6. IsFiniteSet(UndrawnIds) /\ Cardinality(UndrawnIds) <= Cardinality(Undrawn)
    BY <2>4, <2>5, FS_Surjection
  <2> QED
    BY <2>5, <2>6, FS_CardinalityType
<1>3. IsFiniteSet(HereIds) /\ Cardinality(HereIds) <= 1 /\ Cardinality(HereIds) \in Nat
  <2>1. CASE HereIds = {}
    BY <2>1, FS_EmptySet
  <2>2. CASE HereIds # {}
    <3>1. PICK n : HereIds = {n}
      BY <1>0, <2>2
    <3> HIDE DEF HereIds
    <3>2. IsFiniteSet({n}) /\ Cardinality({n}) = 1
      BY FS_Singleton
    <3> QED
      BY <3>1, <3>2
  <2> QED
    BY <2>1, <2>2
<1>4. P \subseteq HereIds \cup UndrawnIds
  BY <1>0 DEF Posted, ShareShape
<1> HIDE DEF P, Undrawn, UndrawnIds, HereIds
<1>5. /\ IsFiniteSet(HereIds \cup UndrawnIds)
      /\ Cardinality(HereIds \cup UndrawnIds)
           = Cardinality(HereIds) + Cardinality(UndrawnIds) - Cardinality(HereIds \cap UndrawnIds)
      /\ Cardinality(HereIds \cap UndrawnIds) \in Nat
  BY <1>2, <1>3, FS_Union, FS_Intersection, FS_CardinalityType
<1>6. Cardinality(P) <= Cardinality(HereIds \cup UndrawnIds) /\ Cardinality(P) \in Nat
      /\ Cardinality(HereIds \cup UndrawnIds) \in Nat
  BY <1>4, <1>5, FS_Subset, FS_CardinalityType
<1>7. Cardinality(P) <= 1 + Cardinality(Undrawn)
  BY <1>2, <1>3, <1>5, <1>6
<1>8. posts[f] = good[f] + torn[f] + Cardinality(P) /\ good[f] \in Nat /\ torn[f] \in Nat
  BY DEF FilesInv, PostsCounted, P
<1> QED
  BY <1>2, <1>6, <1>7, <1>8 DEF Undrawn

-----------------------------------------------------------------------------
(* The lists of the settings page.                                         *)

Kinds == {"member", "role", "cancel", "send"}
CallRecord(n, who, is) ==
    [n : {n}, kind : Kinds, who : {who}, role : Roles, st : {"sent", "done", "listed"}, at : Nat,
     is : {is}, whole : BOOLEAN]
CallShape(c) ==
    /\ c \in CallRecord(c.n, c.who, c.is)
    /\ c.kind = "send" => c.st # "done" /\ c.who \in InviteIds /\ (c.whole => c.who \in Mails)
    /\ c.st = "sent" => c.whole

\* Invites stored after a moment whose answers have yet to be appended.
Sends(cs, T) == {c \in cs : c.kind = "send" /\ c.st = "listed" /\ c.whole /\ c.at > T}

\* A list read at moment T shows the server's, but for those invites.
InvitesMatch(cs, inv, T, v) ==
    /\ v = [m \in InviteIds |-> v[m]]
    /\ \A c, d \in Sends(cs, T) : c.who = d.who => c = d
    /\ \A c \in Sends(cs, T) : v[c.who] = NoCopy /\ inv[c.who] = c.role
    /\ \A m \in InviteIds : (\A c \in Sends(cs, T) : c.who # m) => v[m] = InvitesIn(inv)[m]

Matches(cs, ro, inv, l, T, v) == IF l = "members" THEN v = MembersIn(ro) ELSE InvitesMatch(cs, inv, T, v)

\* A change made, or listed after moment T, whose answer replaces the list.
Due(cs, l, T) ==
    \E c \in cs : /\ ListOf(c) = l
                  /\ c.st = "done" \/ (c.st = "listed" /\ c.kind # "send" /\ c.at > T)

\* An answer that the list has overtaken.
Late(cs, l, T) == \E c \in cs : ListOf(c) = l /\ c.st = "listed" /\ c.at <= T

\* A list read at T that is on its way, and one on the page.
Heard(cs, ro, inv, heard, l, T, v) == heard > T \/ Due(cs, l, T) \/ Matches(cs, ro, inv, l, T, v)
OnPage(cs, ro, inv, l, T, v) == Late(cs, l, T) \/ Due(cs, l, T) \/ Matches(cs, ro, inv, l, T, v)

ListShown(l) == IF l = "members" THEN members ELSE invites

RosterShape ==
    /\ clock \in Nat /\ shownAt \in [Lists -> Nat] /\ \A l \in Lists : shownAt[l] <= clock
    /\ invited = [m \in Mails |-> invited[m]]
    /\ form \in [email : Mails \cup {NoRole}, busy : BOOLEAN]
    /\ \A c \in calls : CallShape(c) /\ c.at <= clock
    /\ load = [l \in Lists |-> load[l]]
    /\ \A l \in Lists : load[l] # NotRead => load[l].at \in Nat /\ load[l].at <= clock

RosterInv ==
    /\ RosterShape
    /\ \A l \in Lists : load[l] # NotRead /\ load[l].whole =>
          Heard(calls, roleOf, invited, shownAt[l], l, load[l].at, load[l].is)
    /\ \A c \in calls : c.st = "listed" /\ c.kind # "send" /\ c.whole =>
          Heard(calls, roleOf, invited, shownAt[ListOf(c)], ListOf(c), c.at, c.is)
    /\ rosterView = "here" => \A l \in Lists \ suspect :
          OnPage(calls, roleOf, invited, l, shownAt[l], ListShown(l))

\* Serving and listing change some fields of a call.
LEMMA Restaged ==
    ASSUME NEW n, NEW who, NEW who2, NEW is, NEW is2, NEW c \in CallRecord(n, who, is),
           NEW st \in {"sent", "done", "listed"}, NEW at \in Nat, NEW w \in BOOLEAN
    PROVE  /\ [c EXCEPT !.st = st, !.at = at] \in CallRecord(n, who, is)
           /\ [c EXCEPT !.st = st, !.at = at, !.is = is2, !.whole = w] \in CallRecord(n, who, is2)
           /\ [c EXCEPT !.st = st, !.who = who2, !.at = at, !.is = is2, !.whole = w]
                 \in CallRecord(n, who2, is2)
  BY DEF CallRecord

LEMMA RosterStart == ASSUME RosterInit PROVE RosterInv
  BY DEF RosterInit, RosterInv, RosterShape, NotRead

\* A list just read is the server's.
LEMMA CurrentMatches ==
    ASSUME RosterShape, NEW cs, NEW l \in Lists,
           \A c \in cs : c.kind = "send" => c \in calls
    PROVE  Matches(cs, roleOf, invited, l, clock + 1, Current(l))
<1>1. Sends(cs, clock + 1) = {}
  BY DEF Sends, RosterShape, CallShape, CallRecord, Kinds
<1>2. InvitesIn(invited) = [m \in InviteIds |-> InvitesIn(invited)[m]]
  BY DEF InvitesIn
<1> QED
  BY <1>1, <1>2 DEF Matches, InvitesMatch, Current, Lists

\* Calls not yet served count for nothing.
LEMMA SentCountNothing ==
    ASSUME NEW cs, NEW ds, \A c \in cs \ ds : c.st = "sent", \A c \in ds \ cs : c.st = "sent",
           NEW ro, NEW inv, NEW l, NEW T, NEW v
    PROVE  /\ \A h : Heard(cs, ro, inv, h, l, T, v) => Heard(ds, ro, inv, h, l, T, v)
           /\ OnPage(cs, ro, inv, l, T, v) => OnPage(ds, ro, inv, l, T, v)
<1>1. Sends(cs, T) = Sends(ds, T)
  BY DEF Sends
<1>2. Due(cs, l, T) <=> Due(ds, l, T)
  BY DEF Due
<1>3. Late(cs, l, T) <=> Late(ds, l, T)
  BY DEF Late
<1>4. Matches(cs, ro, inv, l, T, v) <=> Matches(ds, ro, inv, l, T, v)
  BY <1>1 DEF Matches, InvitesMatch
<1> QED
  BY <1>2, <1>3, <1>4 DEF Heard, OnPage

\* The two lists do not mix: what happens to the calls of one leaves the
\* claims about the other alone.
LEMMA Elsewhere ==
    ASSUME NEW cs, NEW ds, NEW l, l \in Lists,
           \A c \in cs \ ds : ListOf(c) # l, \A c \in ds \ cs : ListOf(c) # l,
           NEW ro, NEW ro2, NEW inv, NEW inv2, NEW T, NEW v,
           l = "members" => ro2 = ro, l = "invites" => inv2 = inv
    PROVE  /\ \A h : Heard(cs, ro, inv, h, l, T, v) => Heard(ds, ro2, inv2, h, l, T, v)
           /\ OnPage(cs, ro, inv, l, T, v) => OnPage(ds, ro2, inv2, l, T, v)
<1>1. l = "invites" => Sends(cs, T) = Sends(ds, T)
  BY DEF Sends, ListOf
<1>2. Due(cs, l, T) <=> Due(ds, l, T)
  BY DEF Due
<1>3. Late(cs, l, T) <=> Late(ds, l, T)
  BY DEF Late
<1>4. Matches(cs, ro, inv, l, T, v) <=> Matches(ds, ro2, inv2, l, T, v)
  BY <1>1 DEF Matches, InvitesMatch, Lists
<1> QED
  BY <1>2, <1>3, <1>4 DEF Heard, OnPage

\* A later moment heard of.
LEMMA HeardLater ==
    ASSUME NEW cs, NEW ro, NEW inv, NEW l, NEW T \in Nat, NEW v, NEW h \in Nat, NEW k \in Nat, k >= h,
           Heard(cs, ro, inv, h, l, T, v)
    PROVE  Heard(cs, ro, inv, k, l, T, v)
  BY DEF Heard

\* What each step has to show.
LEMMA RosterBy ==
    ASSUME RosterInv, RosterShape',
           \A l \in Lists : load'[l] \in {load[l], NotRead},
           \A l \in Lists : \A T \in Nat : \A v : T <= clock =>
              (Heard(calls, roleOf, invited, shownAt[l], l, T, v) =>
                  Heard(calls', roleOf', invited', shownAt'[l], l, T, v)),
           \A c \in calls' : c.st = "listed" /\ c.kind # "send" /\ c.whole =>
              c \in calls \/ Heard(calls', roleOf', invited', shownAt'[ListOf(c)], ListOf(c), c.at, c.is),
           rosterView' = "here" => \A l \in Lists \ suspect' :
              OnPage(calls', roleOf', invited', l, shownAt'[l], ListShown(l)')
    PROVE  RosterInv'
<1>1. \A l \in Lists : load'[l] # NotRead /\ load'[l].whole =>
          Heard(calls', roleOf', invited', shownAt'[l], l, load'[l].at, load'[l].is)
  BY DEF RosterInv, RosterShape
<1>2. ASSUME NEW c \in calls', c.st = "listed", c.kind # "send", c.whole
      PROVE  Heard(calls', roleOf', invited', shownAt'[ListOf(c)], ListOf(c), c.at, c.is)
  <2>1. CASE c \in calls
    <3>1. c.at \in Nat /\ c.at <= clock /\ ListOf(c) \in Lists
      BY <2>1 DEF RosterInv, RosterShape, CallShape, CallRecord, Kinds, ListOf, Lists
    <3>2. Heard(calls, roleOf, invited, shownAt[ListOf(c)], ListOf(c), c.at, c.is)
      BY <1>2, <2>1 DEF RosterInv
    <3> QED
      BY <3>1, <3>2
  <2> QED
    BY <1>2, <2>1
<1> QED
  BY <1>1, <1>2 DEF RosterInv

\* A step that neither serves nor answers a call.
LEMMA QuietStep ==
    ASSUME RosterInv, RosterShape',
           UNCHANGED <<roleOf, invited, members, invites, shownAt, suspect>>,
           rosterView' = "here" => rosterView = "here",
           \A c \in calls \ calls' : c.st = "sent", \A c \in calls' \ calls : c.st = "sent",
           \A l \in Lists : \/ load'[l] \in {load[l], NotRead}
                            \/ ~load'[l].whole
                            \/ Matches(calls', roleOf, invited, l, load'[l].at, load'[l].is)
    PROVE  RosterInv'
<1>1. \A l, T, v : /\ \A h : Heard(calls, roleOf, invited, h, l, T, v) =>
                                Heard(calls', roleOf', invited', h, l, T, v)
                   /\ OnPage(calls, roleOf, invited, l, T, v) => OnPage(calls', roleOf', invited', l, T, v)
  BY SentCountNothing
<1>2. \A l : ListShown(l)' = ListShown(l)
  BY DEF ListShown
<1>3. \A l \in Lists : load'[l] # NotRead /\ load'[l].whole =>
          Heard(calls', roleOf', invited', shownAt'[l], l, load'[l].at, load'[l].is)
  BY <1>1 DEF RosterInv, Heard
<1>4. \A c \in calls' : c.st = "listed" /\ c.kind # "send" /\ c.whole =>
          Heard(calls', roleOf', invited', shownAt'[ListOf(c)], ListOf(c), c.at, c.is)
  BY <1>1 DEF RosterInv
<1>5. rosterView' = "here" => \A l \in Lists \ suspect' :
          OnPage(calls', roleOf', invited', l, shownAt'[l], ListShown(l)')
  BY <1>1, <1>2 DEF RosterInv
<1> QED
  BY <1>3, <1>4, <1>5 DEF RosterInv

\* The controls begin calls.
LEMMA CallShaped ==
    ASSUME RosterInv, NEW kind \in Kinds, NEW who, NEW role \in Roles,
           kind = "send" => who \in Mails, Call(kind, who, role),
           UNCHANGED <<clock, shownAt, invited, load>>,
           form' \in [email : Mails \cup {NoRole}, busy : BOOLEAN]
    PROVE  /\ RosterShape'
           /\ \A c \in calls' \ calls : c.st = "sent"
           /\ calls \subseteq calls'
<1> DEFINE new == [n |-> begun + 1, kind |-> kind, who |-> who, role |-> role,
                   st |-> "sent", at |-> 0, is |-> NoRole, whole |-> TRUE]
<1>1. calls' = calls \cup {new}
  BY DEF Call
<1>2. CallShape(new) /\ new.at = 0 /\ new.st = "sent"
  BY DEF CallShape, CallRecord, Kinds, InviteIds
<1> HIDE DEF new
<1>3. \A c \in calls' : CallShape(c) /\ c.at <= clock
  BY <1>1, <1>2 DEF RosterInv, RosterShape
<1> QED
  BY <1>1, <1>2, <1>3 DEF RosterInv, RosterShape

LEMMA ControlsKeep ==
    ASSUME RosterInv, NEW r \in Roles,
           \/ \E m \in MemberIds : MemberRow(m, r)
           \/ \E e \in InviteIds : InviteRow(e, r)
           \/ handleInvite(r)
    PROVE  RosterInv'
<1>0. form \in [email : Mails \cup {NoRole}, busy : BOOLEAN]
  BY DEF RosterInv, RosterShape
<1>1. ASSUME NEW kind \in Kinds, NEW who,
             kind = "send" => who \in Mails, Call(kind, who, r),
             UNCHANGED <<roleOf, invited, members, invites, rosterView, load, clock, shownAt, suspect>>,
             form' \in [email : Mails \cup {NoRole}, busy : BOOLEAN]
      PROVE  RosterInv'
  <2>1. /\ RosterShape'
        /\ \A c \in calls' \ calls : c.st = "sent"
        /\ calls \subseteq calls'
    BY <1>1, CallShaped
  <2> QED
    BY <1>1, <2>1, QuietStep
<1>2. ASSUME NEW m \in MemberIds, MemberRow(m, r) PROVE RosterInv'
  BY <1>0, <1>1, <1>2 DEF MemberRow, Kinds
<1>3. ASSUME NEW e \in InviteIds, InviteRow(e, r) PROVE RosterInv'
  BY <1>0, <1>1, <1>3 DEF InviteRow, Kinds
<1>4. CASE handleInvite(r)
  <2>1. form.email \in Mails /\ form' \in [email : Mails \cup {NoRole}, busy : BOOLEAN]
    BY <1>0, <1>4 DEF handleInvite
  <2> QED
    BY <1>1, <1>4, <2>1 DEF handleInvite, Kinds
<1> QED
  BY <1>2, <1>3, <1>4

LEMMA LoadKeeps ==
    ASSUME RosterInv,
           (\E l \in Lists : LoadReads(l)) \/ RosterFails \/ RetryRoster
             \/ \E e \in Mails \cup {NoRole} : TypeEmail(e)
    PROVE  RosterInv'
<1>1. ASSUME NEW l \in Lists, LoadReads(l) PROVE RosterInv'
  <2>0. PICK whole \in BOOLEAN :
           load' = [load EXCEPT ![l] = [at |-> clock + 1, is |-> IF whole THEN Current(l) ELSE Seeded(l),
                                        whole |-> whole]]
    BY <1>1 DEF LoadReads
  <2> DEFINE read == [at |-> clock + 1, is |-> IF whole THEN Current(l) ELSE Seeded(l), whole |-> whole]
  <2>1. /\ load' = [load EXCEPT ![l] = read] /\ clock' = clock + 1
        /\ UNCHANGED <<roleOf, invited, members, invites, rosterView, form, calls, shownAt, suspect>>
    BY <1>1, <2>0 DEF LoadReads
  <2>2. /\ read.at = clock + 1
        /\ read.whole => Matches(calls', roleOf, invited, l, read.at, read.is)
    <3>1. Matches(calls', roleOf, invited, l, clock + 1, Current(l))
      BY <2>1, CurrentMatches DEF RosterInv
    <3> QED
      BY <3>1
  <2> HIDE DEF read
  <2>3. RosterShape'
    BY <2>1, <2>2 DEF RosterInv, RosterShape, CallShape, CallRecord, Kinds
  <2>4. \A k \in Lists : \/ load'[k] \in {load[k], NotRead}
                         \/ ~load'[k].whole
                         \/ Matches(calls', roleOf, invited, k, load'[k].at, load'[k].is)
    BY <2>1, <2>2 DEF RosterInv, RosterShape
  <2> QED
    BY <2>1, <2>3, <2>4, QuietStep
<1>2. CASE RosterFails
  <2>1. RosterShape' /\ \A l \in Lists : load'[l] = NotRead
    BY <1>2 DEF RosterFails, RosterInv, RosterShape
  <2> QED
    BY <1>2, <2>1, QuietStep DEF RosterFails
<1>3. CASE RetryRoster
  <2>1. RosterShape'
    BY <1>3 DEF RetryRoster, RosterInv, RosterShape
  <2> QED
    BY <1>3, <2>1, QuietStep DEF RetryRoster
<1>4. ASSUME NEW e \in Mails \cup {NoRole}, TypeEmail(e) PROVE RosterInv'
  <2>1. RosterShape'
    BY <1>4 DEF TypeEmail, RosterInv, RosterShape
  <2> QED
    BY <1>4, <2>1, QuietStep DEF TypeEmail
<1> QED
  BY <1>1, <1>2, <1>3, <1>4

\* What was heard of before the load replaces both lists.
LEMMA LandingKeeps == ASSUME RosterInv, RosterLands PROVE RosterInv'
<1>1. /\ members' = load["members"].is /\ invites' = load["invites"].is
      /\ \A l \in Lists : load[l] # NotRead
      /\ load' = [l \in Lists |-> NotRead]
      /\ suspect' = {l \in Lists : load[l].at < shownAt[l] \/ ~load[l].whole}
      /\ shownAt' = [l \in Lists |-> IF load[l].at > shownAt[l] THEN load[l].at ELSE shownAt[l]]
      /\ UNCHANGED <<roleOf, invited, form, calls, clock>>
  BY DEF RosterLands
<1>2. \A l \in Lists : load[l].at \in Nat /\ load[l].at <= clock /\ shownAt[l] \in Nat
  BY <1>1 DEF RosterInv, RosterShape
<1>3. RosterShape'
  BY <1>1, <1>2 DEF RosterInv, RosterShape
<1>4. \A l \in Lists : shownAt'[l] \in Nat /\ shownAt'[l] >= shownAt[l]
  BY <1>1, <1>2
<1>5. \A l \in Lists : \A T \in Nat : \A v : T <= clock =>
          (Heard(calls, roleOf, invited, shownAt[l], l, T, v) =>
              Heard(calls', roleOf', invited', shownAt'[l], l, T, v))
  BY <1>1, <1>2, <1>4, HeardLater
<1>6. ASSUME NEW l \in Lists \ suspect'
      PROVE  OnPage(calls', roleOf', invited', l, shownAt'[l], ListShown(l)')
  <2>1. shownAt'[l] = load[l].at /\ ~(shownAt[l] > load[l].at) /\ load[l].whole
    BY <1>1, <1>2
  <2>2. ListShown(l)' = load[l].is
    BY <1>1 DEF ListShown, Lists
  <2>3. Heard(calls, roleOf, invited, shownAt[l], l, load[l].at, load[l].is)
    BY <1>1, <2>1 DEF RosterInv
  <2> QED
    BY <1>1, <2>1, <2>2, <2>3 DEF Heard, OnPage
<1> QED
  BY <1>1, <1>3, <1>5, <1>6, RosterBy

\* A served change, and a listing of its list, keep the call under way.
LEMMA ReplacedShape ==
    ASSUME RosterInv, NEW c \in calls, NEW d, CallShape(d), d.at <= clock',
           clock' \in {clock, clock + 1}, calls' = (calls \ {c}) \cup {d},
           UNCHANGED <<shownAt, form, load>>, invited' = [m \in Mails |-> invited'[m]]
    PROVE  RosterShape'
<1>1. \A e \in calls' : CallShape(e) /\ e.at <= clock'
  BY DEF RosterInv, RosterShape, CallShape, CallRecord, Kinds
<1> QED
  BY <1>1 DEF RosterInv, RosterShape

\* Once a change is made the answer to it is due, whatever was read before.
LEMMA ServedKeeps ==
    ASSUME RosterInv, NEW c \in calls, c.st = "sent", c.kind # "send",
           calls' = (calls \ {c}) \cup {[c EXCEPT !.st = "done"]},
           UNCHANGED <<clock, members, invites, rosterView, load, form, shownAt, suspect>>,
           invited' = [m \in Mails |-> invited'[m]],
           ListOf(c) = "members" => invited' = invited,
           ListOf(c) = "invites" => roleOf' = roleOf
    PROVE  RosterInv'
<1> DEFINE d == [c EXCEPT !.st = "done"]
<1>1. CallShape(c) /\ c.at <= clock /\ clock \in Nat
  BY DEF RosterInv, RosterShape
<1>2. CallShape(d) /\ d.st = "done" /\ d.at = c.at /\ ListOf(d) = ListOf(c) /\ d.kind = c.kind
  BY <1>1 DEF CallShape, CallRecord, Kinds, ListOf
<1>3. calls' = (calls \ {c}) \cup {d}
  OBVIOUS
<1> HIDE DEF d
<1>4. RosterShape'
  BY <1>1, <1>2, <1>3, ReplacedShape
<1>5. \A T : Due(calls', ListOf(c), T)
  BY <1>2, <1>3 DEF Due
<1>6. ASSUME NEW l \in Lists, l # ListOf(c)
      PROVE  \A T, v : /\ \A h : Heard(calls, roleOf, invited, h, l, T, v) =>
                                    Heard(calls', roleOf', invited', h, l, T, v)
                       /\ OnPage(calls, roleOf, invited, l, T, v) => OnPage(calls', roleOf', invited', l, T, v)
  <2>1. ListOf(c) \in Lists
    BY DEF ListOf, Lists
  <2>2. \A e \in calls \ calls' : ListOf(e) # l
    BY <1>3, <1>6
  <2>3. \A e \in calls' \ calls : ListOf(e) # l
    BY <1>2, <1>3, <1>6
  <2>4. (l = "members" => roleOf' = roleOf) /\ (l = "invites" => invited' = invited)
    BY <1>6, <2>1 DEF Lists
  <2> QED
    BY <2>2, <2>3, <2>4, Elsewhere
<1>7. \A l \in Lists : \A T, v, h : Heard(calls, roleOf, invited, h, l, T, v) =>
                                      Heard(calls', roleOf', invited', h, l, T, v)
  BY <1>5, <1>6 DEF Heard
<1>8. \A e \in calls' : e.st = "listed" => e \in calls
  BY <1>2, <1>3
<1>9. \A l : ListShown(l)' = ListShown(l)
  BY DEF ListShown
<1>10. rosterView' = "here" => \A l \in Lists \ suspect' :
          OnPage(calls', roleOf', invited', l, shownAt'[l], ListShown(l)')
  BY <1>5, <1>6, <1>9 DEF RosterInv, OnPage
<1> QED
  BY <1>4, <1>7, <1>8, <1>10, RosterBy

\* Answered from the built-in rows: one answer more that is not the server's.
LEMMA UnwiredKeeps == ASSUME RosterInv, NEW c \in calls, ServedUnwired(c) PROVE RosterInv'
<1>1. /\ c.st = "sent" /\ clock' = clock + 1
      /\ UNCHANGED <<roleOf, invited, members, invites, rosterView, load, form, shownAt, suspect>>
  BY DEF ServedUnwired
<1>2. PICK id, answer :
         /\ c.kind = "send" => id \in SampleInvites
         /\ calls' = (calls \ {c}) \cup {[c EXCEPT !.st = "listed", !.who = id, !.at = clock + 1,
                                                 !.is = answer, !.whole = FALSE]}
  BY DEF ServedUnwired, Becomes
<1> DEFINE d == [c EXCEPT !.st = "listed", !.who = id, !.at = clock + 1, !.is = answer, !.whole = FALSE]
<1>3. calls' = (calls \ {c}) \cup {d}
  BY <1>2
<1>4. /\ CallShape(c) /\ clock \in Nat
      /\ invited = [m \in Mails |-> invited[m]]
      /\ \A l \in Lists : shownAt[l] \in Nat /\ shownAt[l] <= clock
  BY DEF RosterInv, RosterShape
<1>5. /\ CallShape(d) /\ d.st = "listed" /\ d.at = clock + 1 /\ d.kind = c.kind /\ d.whole = FALSE
      /\ ListOf(d) = ListOf(c)
  <2>1. c \in CallRecord(c.n, c.who, c.is) /\ clock + 1 \in Nat
    BY <1>4 DEF CallShape
  <2>2. d \in CallRecord(c.n, id, answer)
    BY <2>1, Restaged
  <2>3. /\ d.st = "listed" /\ d.at = clock + 1 /\ d.kind = c.kind /\ d.who = id /\ d.n = c.n
        /\ d.is = answer /\ d.whole = FALSE
    BY <2>1 DEF CallRecord
  <2> HIDE DEF d
  <2> QED
    BY <1>2, <2>2, <2>3 DEF CallShape, ListOf, InviteIds
<1> HIDE DEF d
<1>6. RosterShape'
  BY <1>1, <1>3, <1>4, <1>5, ReplacedShape
<1>7. \A T : Sends(calls', T) = Sends(calls, T)
  BY <1>1, <1>3, <1>5 DEF Sends
<1>8. \A l, T, v : Matches(calls, roleOf, invited, l, T, v) => Matches(calls', roleOf', invited', l, T, v)
  BY <1>1, <1>7 DEF Matches, InvitesMatch
<1>9. \A l, T : Due(calls, l, T) => Due(calls', l, T)
  BY <1>1, <1>3 DEF Due
<1>10. \A l, T : Late(calls, l, T) => Late(calls', l, T)
  BY <1>1, <1>3 DEF Late
<1>11. \A l \in Lists : \A T \in Nat : \A v : T <= clock =>
          (Heard(calls, roleOf, invited, shownAt[l], l, T, v) =>
              Heard(calls', roleOf', invited', shownAt'[l], l, T, v))
  BY <1>1, <1>8, <1>9 DEF Heard
<1>12. \A l : ListShown(l)' = ListShown(l)
  BY <1>1 DEF ListShown
<1>13. rosterView' = "here" => \A l \in Lists \ suspect' :
          OnPage(calls', roleOf', invited', l, shownAt'[l], ListShown(l)')
  BY <1>1, <1>8, <1>9, <1>10, <1>12 DEF RosterInv, OnPage
<1>14. \A e \in calls' : e.whole => e \in calls
  BY <1>3, <1>5
<1>15. \A l \in Lists : load'[l] \in {load[l], NotRead}
  BY <1>1
<1> QED
  BY <1>6, <1>11, <1>13, <1>14, <1>15, RosterBy

\* An invite stored is missing from every list read before.
LEMMA CreateKeeps ==
    ASSUME RosterInv, NEW c \in calls, c.st = "sent", create_invite(c),
           UNCHANGED <<members, invites, rosterView, load, form, shownAt, suspect>>
    PROVE  RosterInv'
<1> DEFINE d == [c EXCEPT !.st = "listed", !.at = clock + 1]
<1>1. /\ c.kind = "send" /\ invited[c.who] = NoRole
      /\ invited' = [invited EXCEPT ![c.who] = c.role]
      /\ clock' = clock + 1 /\ roleOf' = roleOf /\ calls' = (calls \ {c}) \cup {d}
  BY DEF create_invite, Becomes
<1>2. /\ CallShape(c) /\ c.whole /\ c.who \in Mails /\ c.role \in Roles /\ c.at <= clock /\ clock \in Nat
      /\ invited = [m \in Mails |-> invited[m]]
      /\ \A e \in calls : CallShape(e) /\ e.at <= clock /\ e.at \in Nat
  BY <1>1 DEF RosterInv, RosterShape, CallShape, CallRecord, Kinds
<1>3. /\ CallShape(d) /\ d.st = "listed" /\ d.at = clock + 1 /\ d.kind = "send" /\ d.whole
      /\ d.who = c.who /\ d.role = c.role
  <2>1. /\ d.st = "listed" /\ d.at = clock + 1 /\ d.kind = c.kind /\ d.who = c.who /\ d.role = c.role
        /\ d.n = c.n /\ d.is = c.is /\ d.whole = c.whole
    BY <1>2 DEF CallShape, CallRecord, Kinds
  <2>2. d \in CallRecord(c.n, c.who, c.is)
    <3>1. c \in CallRecord(c.n, c.who, c.is) /\ clock + 1 \in Nat
      BY <1>2 DEF CallShape, CallRecord, Kinds
    <3> QED
      BY <3>1, Restaged
  <2> HIDE DEF d
  <2> QED
    BY <1>1, <1>2, <2>1, <2>2 DEF CallShape, CallRecord, Kinds, InviteIds
<1> HIDE DEF d
<1>4. RosterShape'
  BY <1>1, <1>2, <1>3, ReplacedShape
<1>5. ASSUME NEW T \in Nat, T <= clock PROVE Sends(calls', T) = Sends(calls, T) \cup {d}
  BY <1>1, <1>2, <1>3, <1>5 DEF Sends
<1>6. \A m \in Mails : invited'[m] = IF m = c.who THEN c.role ELSE invited[m]
  BY <1>1, <1>2
<1>7. ASSUME NEW T \in Nat, T <= clock, NEW v, InvitesMatch(calls, invited, T, v)
      PROVE  InvitesMatch(calls', invited', T, v)
  <2>1. Sends(calls', T) = Sends(calls, T) \cup {d}
    BY <1>5, <1>7
  <2>2. \A e \in Sends(calls, T) : v[e.who] = NoCopy /\ invited[e.who] = e.role /\ e.role \in Roles
                                   /\ e.who \in Mails
    BY <1>2, <1>7 DEF InvitesMatch, Sends, CallShape, CallRecord, Kinds
  <2>3. \A e \in Sends(calls, T) : e.who # c.who
    BY <1>1, <2>2, RosterAssumption
  <2>4. v[c.who] = NoCopy
    <3>1. v[c.who] = InvitesIn(invited)[c.who] /\ c.who \in InviteIds
      BY <1>2, <1>7, <2>3 DEF InvitesMatch, InviteIds
    <3> QED
      BY <1>1, <1>2, <3>1 DEF InvitesIn
  <2>5. \A e \in Sends(calls', T) : v[e.who] = NoCopy /\ invited'[e.who] = e.role
    BY <1>1, <1>2, <1>3, <1>6, <2>1, <2>2, <2>3, <2>4
  <2>6. \A e, f \in Sends(calls', T) : e.who = f.who => e = f
    BY <1>3, <1>7, <2>1, <2>3 DEF InvitesMatch
  <2>7. ASSUME NEW m \in InviteIds, \A e \in Sends(calls', T) : e.who # m
        PROVE  v[m] = InvitesIn(invited')[m]
    <3>1. m # c.who /\ \A e \in Sends(calls, T) : e.who # m
      BY <1>3, <2>1, <2>7
    <3>2. v[m] = InvitesIn(invited)[m]
      BY <1>7, <2>7, <3>1 DEF InvitesMatch
    <3>3. DOMAIN invited = Mails /\ DOMAIN invited' = Mails
      BY <1>1, <1>2
    <3> QED
      BY <1>6, <2>7, <3>1, <3>2, <3>3 DEF InvitesIn
  <2> QED
    BY <1>7, <2>5, <2>6, <2>7 DEF InvitesMatch
<1>8. \A l, T : Due(calls, l, T) => Due(calls', l, T)
  BY <1>1 DEF Due
<1>9. \A l, T : Late(calls, l, T) => Late(calls', l, T)
  BY <1>1 DEF Late
<1>10. \A l \in Lists : \A T \in Nat : \A v : T <= clock =>
          (Matches(calls, roleOf, invited, l, T, v) => Matches(calls', roleOf', invited', l, T, v))
  BY <1>1, <1>7 DEF Matches
<1>11. \A l \in Lists : \A T \in Nat : \A v : T <= clock =>
          (Heard(calls, roleOf, invited, shownAt[l], l, T, v) =>
              Heard(calls', roleOf', invited', shownAt'[l], l, T, v))
  BY <1>8, <1>10 DEF Heard
<1>12. \A l : ListShown(l)' = ListShown(l)
  BY DEF ListShown
<1>13. \A l \in Lists : shownAt[l] \in Nat /\ shownAt[l] <= clock
  BY DEF RosterInv, RosterShape
<1>14. rosterView' = "here" => \A l \in Lists \ suspect' :
          OnPage(calls', roleOf', invited', l, shownAt'[l], ListShown(l)')
  BY <1>8, <1>9, <1>10, <1>12, <1>13 DEF RosterInv, OnPage
<1>15. \A e \in calls' : e.st = "listed" /\ e.kind # "send" => e \in calls
  BY <1>1, <1>3
<1> QED
  BY <1>4, <1>11, <1>14, <1>15, RosterBy

\* The proxy's listing: as good as the server's list, or marked as empty.
LEMMA RelistKeeps == ASSUME RosterInv, NEW c \in calls, Relist(c) PROVE RosterInv'
<1>1. PICK answer \in {Current(ListOf(c)), Nothing(ListOf(c))} :
        Becomes(c, [c EXCEPT !.st = "listed", !.at = clock + 1, !.is = answer,
                             !.whole = (answer = Current(ListOf(c)))])
  BY DEF Relist
<1> DEFINE d == [c EXCEPT !.st = "listed", !.at = clock + 1, !.is = answer,
                          !.whole = (answer = Current(ListOf(c)))]
<1>2. /\ c.st = "done" /\ clock' = clock + 1 /\ calls' = (calls \ {c}) \cup {d}
      /\ UNCHANGED <<roleOf, invited, members, invites, rosterView, load, form, shownAt, suspect>>
  BY <1>1 DEF Relist, Becomes
<1>3. /\ CallShape(c) /\ c.kind # "send" /\ clock \in Nat
      /\ invited = [m \in Mails |-> invited[m]]
      /\ \A l \in Lists : shownAt[l] \in Nat /\ shownAt[l] <= clock
  BY <1>2 DEF RosterInv, RosterShape, CallShape, CallRecord, Kinds
<1>4. /\ CallShape(d) /\ d.st = "listed" /\ d.at = clock + 1 /\ d.kind = c.kind /\ d.is = answer
      /\ ListOf(d) = ListOf(c) /\ (d.whole => answer = Current(ListOf(c)))
  <2> DEFINE w == (answer = Current(ListOf(c)))
  <2>0. w \in BOOLEAN /\ d = [c EXCEPT !.st = "listed", !.at = clock + 1, !.is = answer, !.whole = w]
    OBVIOUS
  <2> HIDE DEF d, w
  <2>1. /\ d.st = "listed" /\ d.at = clock + 1 /\ d.kind = c.kind /\ d.who = c.who
        /\ d.n = c.n /\ d.is = answer /\ d.whole = w
    BY <1>3, <2>0 DEF CallShape, CallRecord, Kinds
  <2>2. d \in CallRecord(c.n, c.who, answer)
    <3>1. c \in CallRecord(c.n, c.who, c.is) /\ clock + 1 \in Nat
      BY <1>3 DEF CallShape, CallRecord, Kinds
    <3> QED
      BY <2>0, <3>1, Restaged
  <2> QED
    BY <1>3, <2>1, <2>2 DEF CallShape, CallRecord, Kinds, ListOf, w
<1> HIDE DEF d
<1>5. RosterShape'
  BY <1>2, <1>3, <1>4, ReplacedShape
<1>6. \A T : Sends(calls', T) = Sends(calls, T)
  BY <1>2, <1>3, <1>4 DEF Sends
<1>7. \A l, T, v : Matches(calls, roleOf, invited, l, T, v) => Matches(calls', roleOf', invited', l, T, v)
  BY <1>2, <1>6 DEF Matches, InvitesMatch
<1>8. ASSUME NEW l, NEW T \in Nat, T <= clock, Due(calls, l, T) PROVE Due(calls', l, T)
  <2>1. PICK e \in calls : ListOf(e) = l /\ (e.st = "done" \/ (e.st = "listed" /\ e.kind # "send" /\ e.at > T))
    BY <1>8 DEF Due
  <2>2. CASE e = c
    BY <1>2, <1>3, <1>4, <1>8, <2>1, <2>2 DEF Due
  <2>3. CASE e # c
    BY <1>2, <2>1, <2>3 DEF Due
  <2> QED
    BY <2>2, <2>3
<1>9. \A l, T : Late(calls, l, T) => Late(calls', l, T)
  BY <1>2 DEF Late
<1>10. \A l \in Lists : \A T \in Nat : \A v : T <= clock =>
          (Heard(calls, roleOf, invited, shownAt[l], l, T, v) =>
              Heard(calls', roleOf', invited', shownAt'[l], l, T, v))
  BY <1>2, <1>7, <1>8 DEF Heard
<1>11. \A l : ListShown(l)' = ListShown(l)
  BY <1>2 DEF ListShown
<1>12. rosterView' = "here" => \A l \in Lists \ suspect' :
          OnPage(calls', roleOf', invited', l, shownAt'[l], ListShown(l)')
  BY <1>2, <1>3, <1>7, <1>8, <1>9, <1>11 DEF RosterInv, OnPage
<1>13. d.whole => Heard(calls', roleOf', invited', shownAt'[ListOf(d)], ListOf(d), d.at, d.is)
  <2>1. ListOf(c) \in Lists /\ \A e \in calls' : e.kind = "send" => e \in calls
    BY <1>2, <1>3, <1>4 DEF ListOf, Lists
  <2>2. Matches(calls', roleOf, invited, ListOf(c), clock + 1, Current(ListOf(c)))
    BY <2>1, CurrentMatches DEF RosterInv
  <2> QED
    BY <1>2, <1>4, <2>2 DEF Heard
<1>14. \A e \in calls' : e.st = "listed" /\ e.kind # "send" /\ e.whole =>
          e \in calls \/ Heard(calls', roleOf', invited', shownAt'[ListOf(e)], ListOf(e), e.at, e.is)
  <2>1. \A e \in calls' : e \in calls \/ e = d
    BY <1>2
  <2> QED
    BY <1>13, <2>1
<1>15. \A l \in Lists : load'[l] \in {load[l], NotRead}
  BY <1>2
<1> QED
  BY <1>5, <1>10, <1>12, <1>14, <1>15, RosterBy

\* An answer that replaces its list.
LEMMA ReplacedKeeps ==
    ASSUME RosterInv, NEW c \in calls, c.st = "listed", c.kind # "send", calls' = calls \ {c},
           Hear(ListOf(c), c.at, c.whole), ListShown(ListOf(c))' = c.is,
           \A l \in Lists : l # ListOf(c) => ListShown(l)' = ListShown(l),
           UNCHANGED <<roleOf, invited, rosterView, load, form, clock>>
    PROVE  RosterInv'
<1> DEFINE k == ListOf(c)
<1>1. /\ c.at \in Nat /\ c.at <= clock /\ clock \in Nat /\ k \in Lists /\ c.whole \in BOOLEAN
      /\ shownAt \in [Lists -> Nat] /\ \A l \in Lists : shownAt[l] <= clock
  BY DEF RosterInv, RosterShape, CallShape, CallRecord, Kinds, ListOf, Lists
<1>2. /\ shownAt' = [shownAt EXCEPT ![k] = IF c.at > shownAt[k] THEN c.at ELSE shownAt[k]]
      /\ suspect' = IF c.at > shownAt[k] /\ c.whole THEN suspect \ {k} ELSE suspect \cup {k}
  BY DEF Hear
<1>a. ListOf(c) = k /\ ListShown(k)' = c.is
  OBVIOUS
<1> HIDE DEF k
<1>3. /\ shownAt' \in [Lists -> Nat] /\ shownAt'[k] >= c.at
      /\ \A l \in Lists : shownAt'[l] >= shownAt[l] /\ shownAt'[l] <= clock
      /\ \A l \in Lists : l # k => shownAt'[l] = shownAt[l]
  BY <1>1, <1>2
<1>4. RosterShape'
  BY <1>3 DEF RosterInv, RosterShape
<1>5. \A T : Sends(calls', T) = Sends(calls, T)
  BY DEF Sends
<1>6. \A l, T, v : Matches(calls, roleOf, invited, l, T, v) => Matches(calls', roleOf', invited', l, T, v)
  BY <1>5 DEF Matches, InvitesMatch
<1>7. \A l, T : Due(calls, l, T) => Due(calls', l, T) \/ (l = k /\ c.at > T)
  BY <1>a DEF Due
<1>8. \A l, T : Late(calls, l, T) => Late(calls', l, T) \/ (l = k /\ c.at <= T)
  BY <1>a DEF Late
<1>9. ASSUME NEW l \in Lists, NEW T \in Nat, T <= clock, NEW v,
             Heard(calls, roleOf, invited, shownAt[l], l, T, v)
      PROVE  Heard(calls', roleOf', invited', shownAt'[l], l, T, v)
  <2>1. shownAt[l] \in Nat /\ shownAt'[l] \in Nat /\ shownAt'[l] >= shownAt[l]
    BY <1>1, <1>3
  <2>2. l = k /\ c.at > T => shownAt'[l] > T
    BY <1>1, <1>3, <2>1
  <2> QED
    BY <1>6, <1>7, <1>9, <2>1, <2>2 DEF Heard
<1>10. ASSUME rosterView' = "here", NEW l \in Lists \ suspect'
       PROVE  OnPage(calls', roleOf', invited', l, shownAt'[l], ListShown(l)')
  <2>1. CASE l = k
    <3>1. c.at > shownAt[k] /\ c.whole
      BY <1>2, <1>10, <2>1
    <3>2. shownAt'[k] = c.at
      BY <1>1, <1>2, <3>1
    <3>3. Heard(calls, roleOf, invited, shownAt[k], k, c.at, c.is)
      BY <1>a, <3>1 DEF RosterInv
    <3>4. Due(calls, k, c.at) \/ Matches(calls, roleOf, invited, k, c.at, c.is)
      BY <1>1, <3>1, <3>3 DEF Heard
    <3>5. ~(c.at > c.at)
      BY <1>1
    <3>6. Due(calls', k, c.at) \/ Matches(calls', roleOf', invited', k, c.at, c.is)
      BY <1>6, <1>7, <3>4, <3>5
    <3> QED
      BY <1>a, <2>1, <3>2, <3>6 DEF OnPage
  <2>2. CASE l # k
    <3>1. l \notin suspect /\ shownAt'[l] = shownAt[l] /\ ListShown(l)' = ListShown(l)
      BY <1>2, <1>3, <1>10, <1>a, <2>2
    <3>2. OnPage(calls, roleOf, invited, l, shownAt[l], ListShown(l))
      BY <1>10, <3>1 DEF RosterInv
    <3> QED
      BY <1>6, <1>7, <1>8, <2>2, <3>1, <3>2 DEF OnPage
  <2> QED
    BY <2>1, <2>2
<1>11. \A e \in calls' : e \in calls
  OBVIOUS
<1>12. \A l \in Lists : load'[l] \in {load[l], NotRead}
  OBVIOUS
<1> QED
  BY <1>4, <1>9, <1>10, <1>11, <1>12, RosterBy

\* An invite appended to a list that everything older has reached.
LEMMA AppendedMatches ==
    ASSUME NEW cs, NEW inv, NEW T \in Nat, NEW v, InvitesMatch(cs, inv, T, v),
           inv = [m \in Mails |-> inv[m]],
           NEW c \in Sends(cs, T), CallShape(c), \A d \in cs : d.at \in Nat,
           \A d \in cs \ {c} : d.kind = "send" /\ d.st = "listed" => d.at > c.at,
           NEW w, w = [v EXCEPT ![c.who] = [copies |-> IF @.copies = 2 THEN 2 ELSE @.copies + 1, role |-> c.role]]
    PROVE  InvitesMatch(cs \ {c}, inv, c.at, w)
<1>1. /\ c.who \in Mails /\ c.role \in Roles /\ c.kind = "send" /\ c.st = "listed" /\ c.at > T /\ c.at \in Nat
      /\ c \in cs /\ c.who \in InviteIds
  BY DEF Sends, CallShape, CallRecord, Kinds
<1>2. Sends(cs \ {c}, c.at) = Sends(cs, T) \ {c}
  BY <1>1 DEF Sends
<1>3. v = [m \in InviteIds |-> v[m]] /\ v[c.who] = NoCopy /\ inv[c.who] = c.role
  BY DEF InvitesMatch
<1>4. w[c.who] = [copies |-> 1, role |-> c.role]
  <2>1. NoCopy.copies = 0
    BY DEF NoCopy
  <2> QED
    BY <1>1, <1>3, <2>1
<1>5. /\ w = [m \in InviteIds |-> w[m]]
      /\ \A m \in InviteIds : m # c.who => w[m] = v[m]
  BY <1>1, <1>3
<1>6. \A d \in Sends(cs, T) \ {c} : d.who # c.who
  BY DEF InvitesMatch
<1>7. \A d \in Sends(cs, T) \ {c} : w[d.who] = NoCopy /\ inv[d.who] = d.role
  <2> TAKE d \in Sends(cs, T) \ {c}
  <2>1. v[d.who] = NoCopy /\ inv[d.who] = d.role /\ d.who # c.who
    BY <1>6 DEF InvitesMatch
  <2>2. w[d.who] = v[d.who]
    BY <1>3, <2>1
  <2> QED
    BY <2>1, <2>2
<1>8. ASSUME NEW m \in InviteIds, \A d \in Sends(cs, T) \ {c} : d.who # m
      PROVE  w[m] = InvitesIn(inv)[m]
  <2>1. CASE m = c.who
    BY <1>1, <1>3, <1>4, <2>1, RosterAssumption DEF InvitesIn
  <2>2. CASE m # c.who
    BY <1>5, <1>8, <2>2 DEF InvitesMatch
  <2> QED
    BY <2>1, <2>2
<1>9. \A d, e \in Sends(cs, T) \ {c} : d.who = e.who => d = e
  BY DEF InvitesMatch
<1> QED
  BY <1>2, <1>5, <1>7, <1>8, <1>9 DEF InvitesMatch

LEMMA AppendKeeps ==
    ASSUME RosterInv, NEW c \in calls, c.st = "listed", sendInvite(c), calls' = calls \ {c},
           UNCHANGED <<roleOf, invited, rosterView, load, clock>>
    PROVE  RosterInv'
<1> DEFINE k == "invites"
<1>1. /\ c.kind = "send" /\ members' = members /\ form' = [email |-> NoRole, busy |-> FALSE]
      /\ invites' = [invites EXCEPT ![c.who] = [copies |-> IF @.copies = 2 THEN 2 ELSE @.copies + 1,
                                                role |-> c.role]]
      /\ shownAt' = [shownAt EXCEPT ![k] = IF c.at > shownAt[k] THEN c.at ELSE shownAt[k]]
      /\ suspect' = IF c.at > shownAt[k] /\ c.whole THEN suspect ELSE suspect \cup {k}
  BY DEF sendInvite
<1>2. /\ CallShape(c) /\ c.at \in Nat /\ c.at <= clock /\ clock \in Nat
      /\ shownAt \in [Lists -> Nat] /\ \A l \in Lists : shownAt[l] <= clock
      /\ \A d \in calls : d.at \in Nat /\ (d.st = "done" => d.kind # "send")
      /\ k \in Lists /\ \A l \in Lists : l = "members" \/ l = k
      /\ ListOf(c) = k
  BY <1>1 DEF RosterInv, RosterShape, CallShape, CallRecord, Kinds, Lists, ListOf
<1>3. /\ shownAt' \in [Lists -> Nat] /\ shownAt'[k] >= c.at
      /\ \A l \in Lists : shownAt'[l] >= shownAt[l] /\ shownAt'[l] <= clock
      /\ \A l \in Lists : l # k => shownAt'[l] = shownAt[l]
  BY <1>1, <1>2
<1>4. RosterShape'
  BY <1>1, <1>3 DEF RosterInv, RosterShape
<1>5. \A T : ~(c.at > T /\ c.whole) => Sends(calls', T) = Sends(calls, T)
  BY DEF Sends
<1>6. \A l, T, v : (l = "members" \/ ~(c.at > T /\ c.whole)) =>
          (Matches(calls, roleOf, invited, l, T, v) => Matches(calls', roleOf', invited', l, T, v))
  BY <1>5 DEF Matches, InvitesMatch
<1>7. \A l, T : Due(calls, l, T) => Due(calls', l, T)
  BY <1>1, <1>2 DEF Due
<1>8. \A T : Late(calls, "members", T) => Late(calls', "members", T)
  BY <1>2 DEF Late
<1> HIDE DEF k
<1>9. ASSUME NEW l \in Lists, NEW T \in Nat, T <= clock, NEW v,
             Heard(calls, roleOf, invited, shownAt[l], l, T, v)
      PROVE  Heard(calls', roleOf', invited', shownAt'[l], l, T, v)
  <2>1. shownAt[l] \in Nat /\ shownAt'[l] \in Nat /\ shownAt'[l] >= shownAt[l]
    BY <1>2, <1>3
  <2>2. CASE l = k /\ c.at > T
    <3>1. shownAt'[l] > T
      BY <1>2, <1>3, <2>1, <2>2
    <3> QED
      BY <3>1 DEF Heard
  <2>3. CASE ~(l = k /\ c.at > T)
    <3>1. l = "members" \/ ~(c.at > T)
      BY <1>2, <2>3
    <3> QED
      BY <1>6, <1>7, <1>9, <2>1, <3>1 DEF Heard
  <2> QED
    BY <2>2, <2>3
<1>10. ASSUME rosterView' = "here", NEW l \in Lists \ suspect'
       PROVE  OnPage(calls', roleOf', invited', l, shownAt'[l], ListShown(l)')
  <2>0. l \notin suspect /\ OnPage(calls, roleOf, invited, l, shownAt[l], ListShown(l))
    BY <1>1, <1>10 DEF RosterInv
  <2>1. CASE l = "members"
    <3>1. ListShown(l)' = ListShown(l) /\ shownAt'[l] = shownAt[l]
      BY <1>1, <1>3, <2>1 DEF ListShown, k
    <3> QED
      BY <1>6, <1>7, <1>8, <2>0, <2>1, <3>1 DEF OnPage
  <2>2. CASE l = k
    <3>1. c.at > shownAt[k] /\ c.whole /\ shownAt'[k] = c.at /\ shownAt[k] \in Nat
      BY <1>1, <1>2, <1>10, <2>2
    <3>2. CASE \E d \in calls' : ListOf(d) = k /\ d.st = "listed" /\ d.at <= c.at
      BY <2>2, <3>1, <3>2 DEF OnPage, Late
    <3>3. CASE \E d \in calls' : ListOf(d) = k /\ (d.st = "done" \/ (d.st = "listed" /\ d.kind # "send" /\ d.at > c.at))
      BY <2>2, <3>1, <3>3 DEF OnPage, Due
    <3>4. CASE /\ \A d \in calls' : ListOf(d) = k => d.st # "done"
               /\ \A d \in calls' : ListOf(d) = k /\ d.st = "listed" => d.at > c.at /\ d.kind = "send"
      <4>1. \A d \in calls' : ListOf(d) = k /\ d.st = "listed" => d.at > c.at /\ d.at > shownAt[k]
        BY <1>2, <3>1, <3>4
      <4>2. ~Late(calls, k, shownAt[k])
        BY <1>2, <3>1, <4>1 DEF Late
      <4>3. ~Due(calls, k, shownAt[k])
        BY <1>1, <3>4 DEF Due
      <4>4. InvitesMatch(calls, invited, shownAt[k], invites)
        BY <2>0, <2>2, <4>2, <4>3 DEF OnPage, Matches, ListShown, k
      <4>5. c \in Sends(calls, shownAt[k])
        BY <1>1, <3>1 DEF Sends
      <4>6. \A d \in calls \ {c} : d.kind = "send" /\ d.st = "listed" => d.at > c.at
        BY <4>1 DEF ListOf, k
      <4>7. InvitesMatch(calls \ {c}, invited, c.at, invites')
        <5>1. invited = [m \in Mails |-> invited[m]]
          BY DEF RosterInv, RosterShape
        <5> QED
          BY <1>1, <1>2, <3>1, <4>4, <4>5, <4>6, <5>1, AppendedMatches
      <4> QED
        BY <2>2, <3>1, <4>7 DEF OnPage, Matches, ListShown, k
    <3> QED
      BY <1>2, <3>2, <3>3, <3>4
  <2> QED
    BY <1>2, <2>1, <2>2
<1>11. \A l \in Lists : load'[l] \in {load[l], NotRead}
  OBVIOUS
<1> QED
  BY <1>4, <1>9, <1>10, <1>11, RosterBy

\* Refused, or lost after the write: the list is no longer trusted.
LEMMA FailureKeeps == ASSUME RosterInv, NEW c \in calls, CallFails(c) PROVE RosterInv'
<1>0. /\ calls' = calls \ {c}
      /\ form' = IF c.kind = "send" THEN [form EXCEPT !.busy = FALSE] ELSE form
      /\ UNCHANGED <<roleOf, invited, members, invites, rosterView, load>>
  BY DEF CallFails
<1>1. form' \in [email : Mails \cup {NoRole}, busy : BOOLEAN]
  BY <1>0 DEF RosterInv, RosterShape
<1>2. CASE c.st = "sent"
  <2>1. UNCHANGED <<clock, shownAt, suspect>>
    BY <1>2 DEF CallFails
  <2>2. RosterShape'
    BY <1>0, <1>1, <2>1 DEF RosterInv, RosterShape
  <2> QED
    BY <1>0, <1>2, <2>1, <2>2, QuietStep
<1>3. CASE c.st # "sent"
  <2> DEFINE k == ListOf(c)
  <2>1. clock' = clock + 1 /\ Hear(k, clock + 1, FALSE)
    BY <1>3 DEF CallFails
  <2>2. /\ clock \in Nat /\ shownAt \in [Lists -> Nat] /\ \A l \in Lists : shownAt[l] <= clock
        /\ k \in Lists
    BY DEF RosterInv, RosterShape, ListOf, Lists
  <2>3. shownAt' = [shownAt EXCEPT ![k] = clock + 1] /\ suspect' = suspect \cup {k}
    <3> HIDE DEF k
    <3>1. clock + 1 > shownAt[k]
      BY <2>2
    <3> QED
      BY <2>1, <3>1 DEF Hear
  <2>a. shownAt' \in [Lists -> Nat] /\ \A l \in Lists : shownAt'[l] <= clock'
    <3> HIDE DEF k
    <3> QED
      BY <2>1, <2>2, <2>3
  <2>4. RosterShape'
    <3>1. clock' \in Nat /\ \A d \in calls' : CallShape(d) /\ d.at <= clock'
      BY <1>0, <2>1 DEF RosterInv, RosterShape, CallShape, CallRecord
    <3>2. \A l \in Lists : load'[l] # NotRead => load'[l].at \in Nat /\ load'[l].at <= clock'
      BY <1>0, <2>1 DEF RosterInv, RosterShape
    <3> QED
      BY <1>0, <1>1, <2>1, <2>a, <3>1, <3>2 DEF RosterInv, RosterShape
  <2>5. ASSUME NEW l \in Lists, l # k
        PROVE  \A T, v : /\ \A h : Heard(calls, roleOf, invited, h, l, T, v) =>
                                      Heard(calls', roleOf', invited', h, l, T, v)
                         /\ OnPage(calls, roleOf, invited, l, T, v) => OnPage(calls', roleOf', invited', l, T, v)
    <3>1. \A e \in calls \ calls' : ListOf(e) # l
      BY <1>0, <2>5
    <3>2. \A e \in calls' \ calls : ListOf(e) # l
      BY <1>0
    <3> QED
      BY <1>0, <3>1, <3>2, Elsewhere
  <2>6. \A l \in Lists : l # k => shownAt'[l] = shownAt[l]
    BY <2>2, <2>3
  <2>7. shownAt'[k] = clock + 1
    BY <2>2, <2>3
  <2> HIDE DEF k
  <2>8. ASSUME NEW l \in Lists, NEW T \in Nat, T <= clock, NEW v,
               Heard(calls, roleOf, invited, shownAt[l], l, T, v)
        PROVE  Heard(calls', roleOf', invited', shownAt'[l], l, T, v)
    <3>1. CASE l = k
      BY <2>2, <2>7, <2>8, <3>1 DEF Heard
    <3>2. CASE l # k
      BY <2>5, <2>6, <2>8, <3>2
    <3> QED
      BY <3>1, <3>2
  <2>9. \A l : ListShown(l)' = ListShown(l)
    BY <1>0 DEF ListShown
  <2>10. rosterView' = "here" => \A l \in Lists \ suspect' :
            OnPage(calls', roleOf', invited', l, shownAt'[l], ListShown(l)')
    BY <1>0, <2>3, <2>5, <2>6, <2>9 DEF RosterInv
  <2>11. \A e \in calls' : e \in calls
    BY <1>0
  <2>12. \A l \in Lists : load'[l] \in {load[l], NotRead}
    BY <1>0
  <2> QED
    BY <2>4, <2>8, <2>10, <2>11, <2>12, RosterBy
<1> QED
  BY <1>2, <1>3

LEMMA RosterStepKeeps == ASSUME RosterInv, RosterNext PROVE RosterInv'
<1>1. ASSUME NEW c \in calls, CallServed(c) PROVE RosterInv'
  <2>0. c.st = "sent" /\ UNCHANGED <<members, invites, rosterView, load, form, begun, shownAt, suspect>>
        /\ invited = [m \in Mails |-> invited[m]]
    BY <1>1 DEF CallServed, RosterInv, RosterShape
  <2>1. CASE update_member_role(c)
    BY <2>0, <2>1, ServedKeeps DEF update_member_role, Becomes, ListOf
  <2>2. CASE update_invite_role(c)
    BY <2>0, <2>2, ServedKeeps DEF update_invite_role, Becomes, ListOf
  <2>3. CASE cancel_invite(c)
    BY <2>0, <2>3, ServedKeeps DEF cancel_invite, Becomes, ListOf
  <2>4. CASE create_invite(c)
    BY <2>0, <2>4, CreateKeeps
  <2> QED
    BY <1>1, <2>1, <2>2, <2>3, <2>4 DEF CallServed
<1>2. ASSUME NEW c \in calls, CallLands(c) PROVE RosterInv'
  <2>0. c.st = "listed" /\ calls' = calls \ {c} /\ UNCHANGED <<roleOf, invited, rosterView, load, begun, clock>>
    BY <1>2 DEF CallLands
  <2>1. CASE updateMemberRole(c)
    BY <2>0, <2>1, ReplacedKeeps DEF updateMemberRole, ListOf, ListShown, Lists
  <2>2. CASE ReplaceInvites(c)
    BY <2>0, <2>2, ReplacedKeeps DEF ReplaceInvites, ListOf, ListShown, Lists
  <2>3. CASE sendInvite(c)
    BY <2>0, <2>3, AppendKeeps
  <2> QED
    BY <1>2, <2>1, <2>2, <2>3 DEF CallLands
<1> QED
  BY <1>1, <1>2, LoadKeeps, ControlsKeep, LandingKeeps, RelistKeeps, FailureKeeps, UnwiredKeeps DEF RosterNext

LEMMA RosterStays == ASSUME RosterInv, UNCHANGED rosterVars PROVE RosterInv'
  BY DEF rosterVars, RosterInv, RosterShape, ListShown

LEMMA RosterSettles == ASSUME RosterInv PROVE SettledRosterIsCurrent
<1> SUFFICES ASSUME rosterView = "here", calls = {}
             PROVE  /\ "members" \notin suspect => members = Current("members")
                    /\ "invites" \notin suspect => invites = Current("invites")
  BY DEF SettledRosterIsCurrent
<1>1. \A l \in Lists \ suspect : Matches(calls, roleOf, invited, l, shownAt[l], ListShown(l))
  BY DEF RosterInv, OnPage, Due, Late
<1>2. \A T : Sends(calls, T) = {}
  BY DEF Sends
<1>3. "members" \notin suspect => members = Current("members")
  BY <1>1 DEF Matches, ListShown, Lists, Current
<1>4. ASSUME "invites" \notin suspect PROVE invites = InvitesIn(invited)
  <2>1. InvitesMatch(calls, invited, shownAt["invites"], invites)
    BY <1>1, <1>4 DEF Matches, ListShown, Lists
  <2>2. invites = [m \in InviteIds |-> invites[m]] /\ \A m \in InviteIds : invites[m] = InvitesIn(invited)[m]
    BY <1>2, <2>1 DEF InvitesMatch
  <2>3. InvitesIn(invited) = [m \in InviteIds |-> InvitesIn(invited)[m]]
    BY DEF InvitesIn
  <2> QED
    BY <2>2, <2>3
<1>5. "invites" \notin suspect => invites = Current("invites")
  BY <1>4 DEF Current
<1> QED
  BY <1>3, <1>5

-----------------------------------------------------------------------------
(* The notifications page.                                                 *)

NotesCurrent(e, ns) ==
    /\ e.get = "read" => e.answer = ns
    /\ e.data # NoRoster /\ ~e.invalid /\ ~Fetching(e) => e.data = ns

\* Nothing is on its way that will have the notifications fetched again.
NothingTold == ~owed /\ noteFrames = 0 /\ \A m \in marks : m.st # "stored"

NotesInv ==
    /\ Shaped(inbox, NoRoster) /\ noteFrames \in Nat
    /\ \A m \in marks : m \in [of : {m.of}, st : {"sent", "stored"}]
    /\ marks # {} => inbox.received
    /\ NothingTold => NotesCurrent(inbox, notes)

LEMMA NotesKeep == ASSUME NotesInv, [InboxNext]_inboxVars PROVE NotesInv'
<1> DEFINE Mutations(ms) == \A m \in ms : m \in [of : {m.of}, st : {"sent", "stored"}]
<1>0. Shaped(inbox, NoRoster) /\ noteFrames \in Nat /\ Mutations(marks)
  BY DEF NotesInv
<1>a. Mutations(marks')
  <2>1. CASE UNCHANGED marks
    BY <1>0, <2>1
  <2>2. ASSUME NEW ns, marks' = marks \cup {[of |-> ns, st |-> "sent"]} PROVE Mutations(marks')
    BY <1>0, <2>2
  <2>3. ASSUME NEW m \in marks, MarkStored(m) PROVE Mutations(marks')
    BY <1>0, <2>3 DEF MarkStored
  <2>4. ASSUME NEW m \in marks, MarkAnswers(m) PROVE Mutations(marks')
    BY <1>0, <2>4 DEF MarkAnswers
  <2>5. ASSUME NEW ns \in SUBSET Notes, NotificationList(ns) PROVE Mutations(marks')
    BY <2>2, <2>5 DEF NotificationList
  <2> HIDE DEF Mutations
  <2> QED
    BY <2>1, <2>3, <2>4, <2>5
       DEF InboxNext, inboxVars, Accepted, Joined, Dropped, PresenceChanges, NoteArrives, FrameLands,
           setMyPresence, StatusStored, StatusAnswers, RosterRead, RosterAnswers, NoteFrameLands,
           InboxRead, InboxAnswers, InboxAgain, effective_status
<1>b. (inbox.received => inbox'.received) => (marks' # {} => inbox'.received)
  <2>1. ASSUME inbox.received, inbox.received => inbox'.received PROVE inbox'.received
    BY <2>1
  <2>2. ASSUME ~inbox.received PROVE marks' = {}
    <3>1. marks = {} /\ inbox.data = NoRoster
      BY <1>0, <2>2 DEF NotesInv, Shaped
    <3>2. \A ns : ~NotificationList(ns)
      BY <3>1 DEF NotificationList, Unread
    <3> QED
      BY <3>1, <3>2
         DEF InboxNext, inboxVars, Accepted, Joined, Dropped, PresenceChanges, NoteArrives, FrameLands,
             setMyPresence, StatusStored, StatusAnswers, RosterRead, RosterAnswers, NoteFrameLands,
             InboxRead, InboxAnswers, InboxAgain, effective_status
  <2> QED
    BY <1>0, <2>1, <2>2 DEF Shaped
<1>1. ASSUME UNCHANGED <<notes, noteFrames, inbox, owed>>,
             \A m \in marks : m.st = "stored" => \E k \in marks' : k.st = "stored"
      PROVE  NotesInv'
  BY <1>1, <1>a, <1>b DEF NotesInv, NothingTold
<1>2. ASSUME Shaped(inbox', NoRoster), inbox'.get = "asked", noteFrames' \in Nat,
             inbox.received => inbox'.received
      PROVE  NotesInv'
  BY <1>2, <1>a, <1>b DEF NotesInv, NotesCurrent, Fetching
<1>3. CASE Accepted \/ Joined \/ setMyPresence \/ StatusStored \/ StatusAnswers \/ RosterRead \/ RosterAnswers
  BY <1>1, <1>3 DEF Accepted, Joined, setMyPresence, StatusStored, StatusAnswers, RosterRead, RosterAnswers
<1>4. ASSUME NEW u \in Users, PresenceChanges(u) \/ effective_status(u) PROVE NotesInv'
  BY <1>1, <1>4 DEF PresenceChanges, effective_status
<1>5. ASSUME NEW f \in frames, FrameLands(f) PROVE NotesInv'
  BY <1>1, <1>5 DEF FrameLands
<1>6. ASSUME NEW ns \in SUBSET Notes, NotificationList(ns) PROVE NotesInv'
  BY <1>1, <1>6 DEF NotificationList
<1>7. CASE Dropped
  <2>1. /\ noteFrames' = 0 /\ owed' = (owed \/ (noteFrames > 0 /\ inbox.get # "asked"))
        /\ UNCHANGED <<notes, inbox, marks>>
    BY <1>7 DEF Dropped
  <2>2. CASE inbox.get = "asked"
    BY <1>0, <1>2, <2>1, <2>2
  <2>3. CASE inbox.get # "asked"
    <3>1. CASE noteFrames > 0
      BY <1>0, <1>a, <1>b, <2>1, <2>3, <3>1 DEF NotesInv, NothingTold
    <3>2. CASE noteFrames = 0
      BY <1>0, <1>a, <1>b, <2>1, <2>3, <3>2 DEF NotesInv, NothingTold
    <3> QED
      BY <1>0, <3>1, <3>2
  <2> QED
    BY <2>2, <2>3
<1>8. ASSUME NEW n \in Notes, NoteArrives(n) PROVE NotesInv'
  <2>1. inbox' = inbox
    BY <1>8 DEF NoteArrives
  <2>2. CASE noteFrames' = noteFrames + 1
    BY <1>0, <1>a, <1>b, <2>1, <2>2 DEF NotesInv, NothingTold
  <2>3. CASE noteFrames' = noteFrames /\ owed' = (owed \/ inbox.get # "asked")
    <3>1. CASE inbox.get = "asked"
      BY <1>0, <1>2, <2>1, <2>3, <3>1
    <3>2. CASE inbox.get # "asked"
      BY <1>0, <1>a, <1>b, <2>1, <2>3, <3>2 DEF NotesInv, NothingTold
    <3> QED
      BY <3>1, <3>2
  <2> QED
    BY <1>8, <2>2, <2>3 DEF NoteArrives
<1>9. ASSUME NEW m \in marks, MarkStored(m) PROVE NotesInv'
  <2>1. /\ [m EXCEPT !.st = "stored"] \in marks' /\ UNCHANGED <<inbox, noteFrames>>
    BY <1>9 DEF MarkStored
  <2>2. [m EXCEPT !.st = "stored"].st = "stored"
    BY <1>0
  <2>3. PICK k \in marks' : k.st = "stored"
    BY <2>1, <2>2
  <2> QED
    BY <1>0, <1>a, <1>b, <2>1, <2>3 DEF NotesInv, NothingTold
<1>10. ASSUME NEW m \in marks, MarkAnswers(m) PROVE NotesInv'
  <2>1. CASE onMarked
    <3>1. inbox' = Invalidate(inbox, TRUE) /\ noteFrames' = noteFrames
      BY <1>10, <2>1 DEF MarkAnswers, onMarked
    <3>2. ~Loading(inbox)
      BY <1>10 DEF NotesInv, Loading
    <3>3. Shaped(inbox', NoRoster) /\ inbox'.get = "asked" /\ inbox'.received = inbox.received
      BY <1>0, <3>1, <3>2, Marks
    <3> QED
      BY <1>0, <1>2, <3>1, <3>3
  <2>2. CASE UNCHANGED inbox /\ owed' = (owed \/ (m.st = "stored" /\ inbox.get # "asked"))
    <3>1. marks' = marks \ {m} /\ UNCHANGED <<notes, noteFrames>>
      BY <1>10 DEF MarkAnswers
    <3>2. CASE inbox.get = "asked"
      BY <1>0, <1>2, <2>2, <3>1, <3>2
    <3>3. CASE inbox.get # "asked"
      BY <1>0, <1>a, <1>b, <2>2, <3>1, <3>3 DEF NotesInv, NothingTold
    <3> QED
      BY <3>2, <3>3
  <2> QED
    BY <1>10, <2>1, <2>2 DEF MarkAnswers
<1>11. CASE NoteFrameLands
  <2>1. /\ noteFrames' \in Nat /\ inbox' = Invalidate(inbox, TRUE)
        /\ owed' = (owed \/ ReadOnce(inbox))
    BY <1>0, <1>11 DEF NoteFrameLands
  <2>2. /\ Shaped(inbox', NoRoster) /\ inbox'.received = inbox.received
        /\ ~Loading(inbox) => inbox'.get = "asked"
        /\ Loading(inbox) => inbox'.get = inbox.get
    BY <1>0, <2>1, Marks
  <2>3. CASE ReadOnce(inbox)
    <3>1. ~NothingTold'
      BY <2>1, <2>3 DEF NothingTold
    <3> QED
      BY <1>a, <1>b, <2>1, <2>2, <3>1 DEF NotesInv
  <2>4. CASE ~ReadOnce(inbox)
    <3>1. inbox'.get = "asked"
      BY <1>0, <2>2, <2>4 DEF ReadOnce, Loading, Fetching, Shaped
    <3> QED
      BY <1>2, <2>1, <2>2, <3>1
  <2> QED
    BY <2>3, <2>4
<1>12. CASE InboxRead
  <2>1. inbox' = Answer(inbox, notes) /\ UNCHANGED <<notes, noteFrames>>
    BY <1>12 DEF InboxRead
  <2>2. Shaped(inbox', NoRoster) /\ inbox'.get = "read" /\ inbox'.answer = notes
        /\ inbox'.received = inbox.received
    BY <1>0, <2>1, Entries
  <2> QED
    BY <1>0, <1>a, <1>b, <2>1, <2>2 DEF NotesInv, NotesCurrent, Fetching
<1>13. CASE InboxAnswers
  <2>0. UNCHANGED <<notes, noteFrames, marks, owed>>
    BY <1>13 DEF InboxAnswers
  <2>1. CASE inbox.get = "read" /\ inbox' = Land(inbox)
    <3>1. Shaped(inbox', NoRoster) /\ inbox'.data = inbox.answer /\ inbox'.get = "none" /\ inbox'.received
      BY <1>0, <2>1, Entries
    <3> QED
      BY <1>a, <1>b, <2>0, <2>1, <3>1 DEF NotesInv, NothingTold, NotesCurrent, Fetching
  <2>2. CASE inbox' = Lose(inbox)
    <3>1. Shaped(inbox', NoRoster) /\ inbox'.invalid /\ inbox'.get = "none" /\ inbox'.received = inbox.received
      BY <1>0, <2>2, Entries
    <3> QED
      BY <1>a, <1>b, <2>0, <3>1 DEF NotesInv, NothingTold, NotesCurrent, Fetching
  <2> QED
    BY <1>13, <2>1, <2>2 DEF InboxAnswers
<1>14. CASE InboxAgain
  <2>1. inbox' = Ask(inbox) /\ ~Loading(inbox) /\ noteFrames' = noteFrames
    BY <1>14 DEF InboxAgain, Loading
  <2>2. Shaped(inbox', NoRoster) /\ inbox'.get = "asked" /\ inbox'.received = inbox.received
    BY <1>0, <2>1, Entries
  <2> QED
    BY <1>0, <1>2, <2>1, <2>2
<1>15. CASE UNCHANGED inboxVars
  BY <1>1, <1>15 DEF inboxVars
<1> QED
  BY <1>3, <1>4, <1>5, <1>6, <1>7, <1>8, <1>9, <1>10, <1>11, <1>12, <1>13, <1>14, <1>15 DEF InboxNext
-----------------------------------------------------------------------------
(* The roster.                                                             *)

Counts == [Users -> Nat]

\* No value is ahead of the server's.
Behind(c, p) == c \in Counts /\ \A u \in Users : c[u] =< p[u]

PushShape ==
    /\ presence \in Counts
    /\ \A f \in frames : f \in Users \X Nat /\ f[2] =< presence[f[1]]
    /\ Shaped(roster, NoRoster)
    /\ roster.data # NoRoster => Behind(roster.data, presence)
    /\ roster.get = "read" => Behind(roster.answer, presence)
    /\ setStatus.st = "stored" => setStatus.value \in Nat /\ setStatus.value =< presence[Me]
    /\ unsure \subseteq Users

\* v is u's latest value, or the frame that will say so is on its way.
Told(u, v) == v = presence[u] \/ <<u, presence[u]>> \in frames

\* The next opening asks again, unless it would join a first load.
Sure(u) ==
    /\ socket # "down" /\ roster.get = "none" /\ roster.data # NoRoster => Told(u, roster.data[u])
    /\ (socket # "down" \/ ~roster.received) /\ roster.get = "read" =>
           \/ Told(u, roster.answer[u])
           \/ roster.data # NoRoster /\ roster.data[u] > roster.answer[u]

PushInv ==
    /\ PushShape
    /\ roster.get = "none" /\ roster.data = NoRoster => unsure = Users
    /\ \A u \in Users \ unsure : Sure(u)

LEMMA PushStart == ASSUME InboxInit PROVE PushInv
<1>1. roster.get = "asked" /\ roster.data = NoRoster /\ Shaped(roster, NoRoster)
  BY DEF InboxInit, NewEntry, Ask, Shaped, Loading, Fetching
<1>2. setStatus.st # "stored"
  BY DEF InboxInit, NotSetting
<1> QED
  BY <1>1, <1>2 DEF InboxInit, PushInv, PushShape, Sure, Counts

\* A value reported for u: all that is known of the others stays.
LEMMA Reported ==
    ASSUME PushInv, NEW u \in Users, NEW v \in Nat, v =< presence[u], report(u, v),
           UNCHANGED <<presence, socket>>, frames' = frames \/ frames' = frames \ {<<u, v>>},
           setStatus'.st # "stored" \/ setStatus' = setStatus
    PROVE  PushInv'
<1> DEFINE old == IF roster.data = NoRoster THEN [w \in Users |-> 0] ELSE roster.data
           new == [old EXCEPT ![u] = v]
<1>1. /\ Shaped(roster, NoRoster) /\ presence \in Counts /\ presence' = presence /\ unsure \subseteq Users
      /\ \A f \in frames : f \in Users \X Nat /\ f[2] =< presence[f[1]]
      /\ setStatus'.st = "stored" => setStatus'.value \in Nat /\ setStatus'.value =< presence[Me]
  BY DEF PushInv, PushShape
<1>2. old \in Counts /\ \A w \in Users : old[w] \in Nat /\ presence[w] \in Nat
  BY <1>1 DEF PushInv, PushShape, Behind, Counts
<1>3. \A w \in Users : old[w] =< presence[w]
  BY <1>1, <1>2 DEF PushInv, PushShape, Behind, Counts
<1>4. new \in Counts /\ new[u] = v /\ \A w \in Users \ {u} : new[w] = old[w]
  BY <1>2 DEF Counts
<1>5. new # NoRoster
  BY <1>4, InboxAssumption DEF Counts
<1>6. /\ roster' = SetData(roster, new)
      /\ unsure' = IF v < old[u] THEN unsure \cup {u}
                   ELSE IF roster.data = NoRoster THEN unsure \cup (Users \ {u}) ELSE unsure
  BY DEF report
<1> HIDE DEF new
<1>7. /\ Shaped(roster', NoRoster) /\ roster'.data = new /\ roster'.get = roster.get
      /\ roster.get = "read" => roster'.answer = roster.answer
      /\ roster'.received
  BY <1>1, <1>6 DEF Shaped, SetData, Fetching
<1>8. Behind(new, presence) /\ (roster.get = "read" => Behind(roster.answer, presence))
  BY <1>2, <1>3, <1>4 DEF PushInv, PushShape, Behind
<1>9. PushShape'
  <2>1. \A f \in frames' : f \in Users \X Nat /\ f[2] =< presence'[f[1]]
    BY <1>1
  <2>2. unsure' \subseteq Users
    BY <1>1, <1>6
  <2> QED
    BY <1>1, <1>7, <1>8, <2>1, <2>2 DEF PushShape
<1>10. ASSUME NEW w \in Users \ unsure', w # u PROVE Sure(w)'
  <2>1. w \in Users \ unsure /\ roster.data # NoRoster
    BY <1>6, <1>10
  <2>2. new[w] = roster.data[w]
    BY <1>4, <1>10, <2>1
  <2>3. <<w, presence[w]>> \in frames => <<w, presence[w]>> \in frames'
    BY <1>10
  <2>4. Sure(w)
    BY <2>1 DEF PushInv
  <2> HIDE DEF old
  <2> QED
    BY <1>1, <1>5, <1>7, <2>1, <2>2, <2>3, <2>4 DEF Sure, Told
<1>11. ASSUME u \notin unsure' PROVE Sure(u)'
  <2>1. v >= old[u] /\ u \notin unsure
    BY <1>2, <1>6, <1>11
  <2>2. CASE v = presence[u]
    <3>1. roster.get = "read" /\ roster.answer[u] # presence[u] => v > roster.answer[u]
      BY <1>2, <2>2 DEF PushInv, PushShape, Behind, Counts
    <3> QED
      BY <1>1, <1>4, <1>5, <1>7, <2>2, <3>1 DEF Sure, Told
  <2>3. CASE v # presence[u]
    <3>1. <<u, presence[u]>> \in frames => <<u, presence[u]>> \in frames'
      BY <2>3
    <3>2. Sure(u) /\ (roster.get = "none" => roster.data # NoRoster)
      BY <2>1 DEF PushInv
    <3>3. CASE socket # "down" /\ roster.get = "none"
      <4>1. roster.data[u] # presence[u]
        BY <1>2, <2>1, <2>3, <3>2, <3>3
      <4> QED
        BY <1>1, <1>7, <3>1, <3>2, <3>3, <4>1 DEF Sure, Told
    <3>4. CASE socket # "down" /\ roster.get = "read"
      <4>1. roster.data # NoRoster /\ roster.data[u] > roster.answer[u] => v > roster.answer[u]
        BY <1>2, <2>1, <3>4 DEF PushInv, PushShape, Behind, Counts
      <4> HIDE DEF old
      <4> QED
        BY <1>1, <1>4, <1>5, <1>7, <3>1, <3>2, <3>4, <4>1 DEF Sure, Told
    <3> QED
      BY <1>7, <3>3, <3>4 DEF Sure
  <2> QED
    BY <2>2, <2>3
<1> QED
  BY <1>5, <1>7, <1>9, <1>10, <1>11 DEF PushInv

\* A change at the server: its frame is sent, or nobody is sure of u any more.
LEMMA PublishedKeeps ==
    ASSUME PushInv, NEW u \in Users, UNCHANGED <<socket, roster>>,
           presence' = [presence EXCEPT ![u] = @ + 1],
           \/ /\ socket = "joined" /\ unsure' = unsure
              /\ frames' = frames \cup {<<u, presence[u] + 1>>}
           \/ UNCHANGED frames /\ Untold(u),
           \/ setStatus' = setStatus
           \/ setStatus' = [st |-> "stored", value |-> presence[Me] + 1] /\ u = Me
    PROVE  PushInv'
<1>1. /\ presence \in Counts /\ presence' = [presence EXCEPT ![u] = @ + 1]
      /\ unsure' \in {unsure, unsure \cup {u}} /\ unsure \subseteq Users
      /\ frames' \in {frames, frames \cup {<<u, presence[u] + 1>>}}
      /\ \A f \in frames : f \in Users \X Nat /\ f[2] =< presence[f[1]]
  BY DEF Untold, PushInv, PushShape
<1>2. /\ presence' \in Counts /\ presence'[u] = presence[u] + 1 /\ presence[u] \in Nat
      /\ \A w \in Users : presence[w] \in Nat /\ presence[w] =< presence'[w]
      /\ \A w \in Users \ {u} : presence'[w] = presence[w]
  BY <1>1 DEF Counts
<1>3. \A c : Behind(c, presence) => Behind(c, presence')
  <2>1. ASSUME NEW c, Behind(c, presence), NEW w \in Users PROVE c[w] =< presence'[w]
    BY <1>2, <2>1 DEF Behind, Counts
  <2> QED
    BY <2>1 DEF Behind
<1>4. PushShape'
  <2>1. \A f \in frames : f \in Users \X Nat /\ f[2] =< presence'[f[1]]
    BY <1>1, <1>2
  <2>2. \A f \in frames' : f \in Users \X Nat /\ f[2] =< presence'[f[1]]
    BY <1>1, <1>2, <2>1
  <2>3. setStatus'.st = "stored" => setStatus'.value \in Nat /\ setStatus'.value =< presence'[Me]
    <3>1. CASE setStatus' = setStatus
      BY <1>2, <3>1, InboxAssumption DEF PushInv, PushShape
    <3>2. CASE setStatus' = [st |-> "stored", value |-> presence[Me] + 1] /\ u = Me
      BY <1>2, <3>2
    <3> QED
      BY <3>1, <3>2
  <2>4. /\ Shaped(roster', NoRoster) /\ (roster'.data # NoRoster => Behind(roster'.data, presence'))
        /\ roster'.get = "read" => Behind(roster'.answer, presence')
    BY <1>3 DEF PushInv, PushShape
  <2> QED
    BY <1>1, <1>2, <2>2, <2>3, <2>4 DEF PushShape
<1>5. ASSUME NEW w \in Users \ unsure' PROVE Sure(w)'
  <2>1. w \notin unsure /\ Sure(w)
    BY <1>1, <1>5 DEF PushInv
  <2>2. CASE w # u
    BY <1>1, <1>2, <2>1, <2>2 DEF Sure, Told
  <2>3. CASE w = u /\ <<u, presence[u] + 1>> \in frames'
    <3>1. <<u, presence'[u]>> \in frames'
      BY <1>2, <2>3
    <3> QED
      BY <2>3, <3>1 DEF Sure, Told
  <2>4. CASE w = u /\ Untold(u)
    <3>1. roster.get = "asked" \/ (socket = "down" /\ ~ReadOnce(roster))
      BY <1>5, <2>4 DEF Untold
    <3>2. roster.get = "read" /\ socket = "down" => roster.received
      BY <3>1 DEF ReadOnce, Loading, Fetching
    <3> QED
      BY <2>4, <3>1, <3>2 DEF Sure
  <2> QED
    BY <2>2, <2>3, <2>4
<1> QED
  BY <1>1, <1>4, <1>5 DEF PushInv

LEMMA PushKeeps == ASSUME PushInv, [InboxNext]_inboxVars PROVE PushInv'
<1>0. /\ PushShape /\ Shaped(roster, NoRoster) /\ presence \in Counts /\ unsure \subseteq Users
      /\ roster.data # NoRoster => Behind(roster.data, presence)
      /\ roster.get = "read" => Behind(roster.answer, presence)
  BY DEF PushInv, PushShape
<1>1. ASSUME UNCHANGED <<presence, socket, frames, roster, unsure>>,
             setStatus'.st # "stored" \/ setStatus' = setStatus
      PROVE  PushInv'
  BY <1>1 DEF PushInv, PushShape, Behind, Sure, Told
<1>2. ASSUME UNCHANGED <<presence, setStatus>>, frames' \subseteq frames, Shaped(roster', NoRoster),
             roster'.data # NoRoster => Behind(roster'.data, presence),
             roster'.get = "read" => Behind(roster'.answer, presence), unsure' \subseteq Users
      PROVE  PushShape'
  BY <1>0, <1>2 DEF PushShape
<1>3. CASE Joined
  BY <1>3 DEF Joined, PushInv, PushShape, Behind, Sure, Told
<1>4. CASE setMyPresence
  <2>1. setStatus'.st = "sent"
    BY <1>4 DEF setMyPresence
  <2> QED
    BY <1>1, <1>4, <2>1 DEF setMyPresence
<1>16. CASE InboxRead \/ InboxAnswers \/ InboxAgain \/ NoteFrameLands \/ UNCHANGED inboxVars
  BY <1>1, <1>16
     DEF InboxRead, InboxAnswers, InboxAgain, NoteFrameLands, inboxVars
<1>5. ASSUME NEW n \in Notes, NoteArrives(n) PROVE PushInv'
  BY <1>1, <1>5 DEF NoteArrives
<1>6. ASSUME NEW m \in marks, MarkStored(m) \/ MarkAnswers(m) PROVE PushInv'
  BY <1>1, <1>6 DEF MarkStored, MarkAnswers
<1>7. ASSUME NEW ns \in SUBSET Notes, NotificationList(ns) PROVE PushInv'
  BY <1>1, <1>7 DEF NotificationList
<1>8. CASE Accepted
  <2>1. /\ roster' = Invalidate(roster, TRUE) /\ UNCHANGED <<presence, frames, setStatus, unsure>>
    BY <1>8 DEF Accepted, onOpenPresence
  <2>2. /\ Shaped(roster', NoRoster) /\ roster'.data = roster.data
        /\ ~Loading(roster) => roster'.get = "asked"
        /\ Loading(roster) => roster'.get = roster.get /\ roster'.answer = roster.answer
    BY <1>0, <2>1, Marks
  <2>3. \/ roster'.get = "asked"
        \/ ~roster.received /\ roster.get = "read" /\ roster'.get = "read" /\ roster'.answer = roster.answer
    BY <1>0, <2>2 DEF Loading, Fetching, Shaped
  <2>4. PushShape'
    BY <1>0, <1>2, <2>1, <2>2, <2>3
  <2> QED
    BY <2>1, <2>2, <2>3, <2>4 DEF PushInv, Sure, Told
<1>9. CASE Dropped
  <2>1. /\ socket' = "down" /\ frames' = {} /\ UNCHANGED <<presence, roster, setStatus>>
        /\ unsure' = IF ReadOnce(roster)
                     THEN unsure \cup {f[1] : f \in {g \in frames : g[2] > roster.answer[g[1]]}}
                     ELSE unsure
        /\ socket # "down"
    BY <1>9 DEF Dropped
  <2>2. unsure' \subseteq Users /\ unsure \subseteq unsure'
    BY <1>0, <2>1 DEF PushShape
  <2>3. PushShape'
    BY <1>0, <1>2, <2>1, <2>2
  <2>4. ASSUME NEW u \in Users \ unsure', roster.get = "read", ~roster.received
        PROVE  roster.answer[u] = presence[u]
    <3>1. ReadOnce(roster) /\ roster.data = NoRoster
      BY <1>0, <2>4 DEF ReadOnce, Loading, Fetching, Shaped
    <3>2. Told(u, roster.answer[u])
      BY <2>1, <2>2, <2>4, <3>1 DEF PushInv, Sure
    <3>3. roster.answer[u] \in Nat /\ presence[u] \in Nat /\ roster.answer[u] =< presence[u]
      BY <1>0, <2>4 DEF Behind, Counts
    <3>4. <<u, presence[u]>> \in frames => ~(presence[u] > roster.answer[u])
      BY <2>1, <2>4, <3>1
    <3> QED
      BY <3>2, <3>3, <3>4 DEF Told
  <2>5. \A u \in Users \ unsure' : Sure(u)'
    BY <2>1, <2>4 DEF Sure, Told
  <2> QED
    BY <2>1, <2>2, <2>3, <2>5 DEF PushInv, PushShape
<1>10. ASSUME NEW u \in Users, PresenceChanges(u) \/ effective_status(u) PROVE PushInv'
  BY <1>10, PublishedKeeps DEF PresenceChanges, Published, effective_status
<1>11. CASE StatusStored
  BY <1>11, PublishedKeeps, InboxAssumption DEF StatusStored, Published
<1>12. ASSUME NEW f \in frames, FrameLands(f) PROVE PushInv'
  <2>1. f = <<f[1], f[2]>> /\ f[1] \in Users /\ f[2] \in Nat /\ f[2] =< presence[f[1]]
    BY <1>0 DEF PushShape
  <2>2. /\ frames' = frames \ {<<f[1], f[2]>>} /\ report(f[1], f[2])
        /\ UNCHANGED <<presence, socket, setStatus>>
    BY <1>12, <2>1 DEF FrameLands
  <2> QED
    BY <2>1, <2>2, Reported
<1>13. CASE StatusAnswers
  <2>1. setStatus'.st # "stored" /\ UNCHANGED <<presence, socket, frames>>
    BY <1>13 DEF StatusAnswers, NotSetting
  <2>2. CASE setStatus.st = "stored" /\ report(Me, setStatus.value)
    <3>1. setStatus.value \in Nat /\ setStatus.value =< presence[Me]
      BY <1>0, <2>2 DEF PushShape
    <3> QED
      BY <2>1, <2>2, <3>1, Reported, InboxAssumption
  <2>3. CASE UNCHANGED <<roster, unsure>>
    BY <1>1, <2>1, <2>3
  <2> QED
    BY <1>13, <2>2, <2>3 DEF StatusAnswers
<1>14. CASE RosterRead
  <2>1. /\ roster' = Answer(roster, presence) /\ unsure' = {}
        /\ UNCHANGED <<presence, socket, frames, setStatus>>
    BY <1>14 DEF RosterRead
  <2>2. /\ Shaped(roster', NoRoster) /\ roster'.get = "read" /\ roster'.answer = presence
        /\ roster'.data = roster.data
    BY <1>0, <2>1 DEF Shaped, Answer
  <2>3. Behind(presence, presence)
    BY <1>0 DEF Behind, Counts
  <2>4. PushShape'
    BY <1>0, <1>2, <2>1, <2>2, <2>3
  <2> QED
    BY <2>1, <2>2, <2>4 DEF PushInv, Sure, Told
<1>15. CASE RosterAnswers
  <2>0. UNCHANGED <<presence, socket, frames, setStatus>>
    BY <1>15 DEF RosterAnswers
  <2>1. CASE /\ roster.get = "read" /\ roster' = Land(roster)
             /\ unsure' = IF roster.data = NoRoster THEN unsure
                          ELSE unsure \cup {u \in Users : roster.answer[u] < roster.data[u]}
    <3>1. /\ Shaped(roster', NoRoster) /\ roster'.get = "none" /\ roster'.data = roster.answer
          /\ unsure' \subseteq Users /\ roster'.received
      BY <1>0, <2>1, Entries
    <3>2. Behind(roster.answer, presence) /\ roster.answer # NoRoster
      BY <1>0, <2>1, InboxAssumption DEF Behind, Counts
    <3>3. PushShape'
      BY <1>0, <1>2, <2>0, <3>1, <3>2
    <3>4. ASSUME NEW u \in Users \ unsure' PROVE Sure(u)'
      <4>1. u \notin unsure /\ Sure(u)
        BY <2>1, <3>4 DEF PushInv
      <4>2. ~(roster.data # NoRoster /\ roster.data[u] > roster.answer[u])
        BY <1>0, <2>1, <3>2, <3>4 DEF Behind, Counts
      <4> QED
        BY <2>0, <2>1, <3>1, <4>1, <4>2 DEF Sure, Told
    <3> QED
      BY <3>1, <3>2, <3>3, <3>4 DEF PushInv
  <2>2. CASE roster' = Lose(roster) /\ unsure' = Users
    <3>1. Shaped(roster', NoRoster) /\ roster'.get = "none" /\ roster'.data = roster.data
      BY <1>0, <2>2, Entries
    <3>2. PushShape'
      BY <1>0, <1>2, <2>0, <2>2, <3>1
    <3> QED
      BY <2>2, <3>2 DEF PushInv
  <2> QED
    BY <1>15, <2>1, <2>2 DEF RosterAnswers
<1> QED
  BY <1>3, <1>4, <1>5, <1>6, <1>7, <1>8, <1>9, <1>10, <1>11, <1>12, <1>13, <1>14, <1>15, <1>16 DEF InboxNext

-----------------------------------------------------------------------------
InboxInv == NotesInv /\ PushInv

LEMMA InboxStart == ASSUME InboxInit PROVE InboxInv
<1>1. Shaped(inbox, NoRoster) /\ inbox.get = "asked"
  BY DEF InboxInit, NewEntry, Ask, Shaped, Loading, Fetching
<1>2. NotesInv
  BY <1>1 DEF InboxInit, NotesInv, NotesCurrent, Fetching
<1> QED
  BY <1>2, PushStart DEF InboxInv

LEMMA InboxKeeps == ASSUME InboxInv, [InboxNext]_inboxVars PROVE InboxInv'
  BY NotesKeep, PushKeeps DEF InboxInv

LEMMA PushesSettle == ASSUME InboxInv PROVE SettledPushesAreCurrent
<1> SUFFICES ASSUME socket = "joined", frames = {}, noteFrames = 0, marks = {}
             PROVE  /\ (~Fetching(roster) /\ roster.data # NoRoster) =>
                          \A u \in Users \ unsure : roster.data[u] = presence[u]
                    /\ (~Fetching(inbox) /\ inbox.data # NoRoster /\ ~inbox.invalid /\ ~owed) => inbox.data = notes
  BY DEF SettledPushesAreCurrent
<1>1. ASSUME ~Fetching(roster), roster.data # NoRoster, NEW u \in Users \ unsure
      PROVE  roster.data[u] = presence[u]
  BY <1>1 DEF InboxInv, PushInv, Sure, Told, Fetching
<1>2. ASSUME ~Fetching(inbox), inbox.data # NoRoster, ~inbox.invalid, ~owed PROVE inbox.data = notes
  BY <1>2 DEF InboxInv, NotesInv, NothingTold, NotesCurrent
<1> QED
  BY <1>1, <1>2

-----------------------------------------------------------------------------
(* The choice of a conversation.                                           *)

ListFor(v) == IF v.kind = "channel" THEN "channels" ELSE "dms"

\* The visitor sees conversation c, or was shut out of it.
SeenOrLost(cs, c) == c \in DOMAIN cs /\ (cs[c].lost \/ _is_private_channel_member(cs[c]))

RowsAre(cs, q, s) ==
    /\ s \in SUBSET (1..MaxConvs)
    /\ \A c \in s : SeenOrLost(cs, c) /\ ListFor(cs[c]) = q

ConvsTyped(cs) ==
    /\ cs \in Seq(ConvRecord) /\ Len(cs) <= MaxConvs
    /\ \A c \in DOMAIN cs : cs[c].kind \in Peers => cs[c].row

\* What later conversations keep of earlier ones.
Later(cs, ds) ==
    \A c \in DOMAIN cs :
        /\ c \in DOMAIN ds /\ ds[c].kind = cs[c].kind
        /\ cs[c].lost => ds[c].lost
        /\ SeenOrLost(cs, c) => SeenOrLost(ds, c)

\* What a GET read is later than what is shown.
ListSound(cs, q, e) ==
    /\ e.data # Unlisted => RowsAre(cs, q, e.data)
    /\ e.get = "read" =>
          /\ RowsAre(cs, q, e.answer)
          /\ e.data # Unlisted => \A c \in e.data : cs[c].lost \/ c \in e.answer

\* At rest and valid the list shows c, and a GET that was read brings c, unless
\* a failure emptied the list or its first load was read before c was made.
Brings(e, c, emptied) ==
    /\ e.get = "none" /\ ~e.invalid /\ ~emptied => e.data # Unlisted /\ c \in e.data
    /\ e.get = "read" /\ ~emptied => c \in e.answer

\* The conversation that a stored POST made or found.
PostSound(cs, q, p) ==
    /\ p \in [st : {p.st}, id : {p.id}, peer : {p.peer}]
    /\ q = "dms" /\ p.st # "none" => p.peer \in Peers
    /\ p.st = "stored" => SeenOrLost(cs, p.id) /\ ListFor(cs[p.id]) = q

ChoiceSound(cs, l, c, h) ==
    c # 0 => /\ SeenOrLost(cs, c)
             /\ cs[c].lost \/ Brings(l[ListFor(cs[c])], c, ListFor(cs[c]) \in h)

ConvsInv ==
    /\ ConvsTyped(convs)
    /\ convList = [q \in ConvLists |-> convList[q]]
    /\ \A q \in ConvLists : Shaped(convList[q], Unlisted) /\ ListSound(convs, q, convList[q])
    /\ creating = [q \in ConvLists |-> creating[q]]
    /\ \A q \in ConvLists : PostSound(convs, q, creating[q])
    /\ ChoiceSound(convs, convList, selectedId, hollow)

LEMMA ConvsStart == ASSUME ConversationsInit PROVE ConvsInv
<1>1. ConvsTyped(convs)
  BY ConversationsAssumption DEF ConversationsInit, ConvsTyped
<1>2. \A q \in ConvLists : /\ Shaped(convList[q], Unlisted) /\ convList[q].get = "asked" /\ convList[q].data = Unlisted
                           /\ creating[q] = NoCreate
  <2>1. /\ \A q \in ConvLists : convList[q] = Ask(NewEntry(Unlisted)) /\ creating[q] = NoCreate
    BY DEF ConversationsInit
  <2>2. LET e == Ask(NewEntry(Unlisted))
        IN  Shaped(e, Unlisted) /\ e.get = "asked" /\ e.data = Unlisted
    BY DEF NewEntry, Ask, Shaped, Loading, Fetching
  <2> QED
    BY <2>1, <2>2
<1>3. \A q \in ConvLists : ListSound(convs, q, convList[q]) /\ PostSound(convs, q, creating[q])
  BY <1>2 DEF ListSound, PostSound, NoCreate
<1> QED
  BY <1>1, <1>2, <1>3 DEF ConversationsInit, ConvsInv, ChoiceSound

\* The server's list q has rows of q only, and every one not lost.
LEMMA ServerRows ==
    ASSUME ConvsInv, NEW q \in ConvLists
    PROVE  /\ RowsAre(convs, q, RowsOf(q))
           /\ \A c : SeenOrLost(convs, c) /\ ListFor(convs[c]) = q => convs[c].lost \/ c \in RowsOf(q)
<1>1. /\ DOMAIN convs \subseteq 1..MaxConvs
      /\ \A c \in DOMAIN convs : convs[c] \in ConvRecord /\ (convs[c].kind \in Peers => convs[c].row)
  BY ConversationsAssumption DEF ConvsInv, ConvsTyped
<1>2. \A c \in DOMAIN convs : convs[c].kind = "channel" \/ convs[c].kind \in Peers
  BY <1>1 DEF ConvRecord
<1>3. CASE q = "channels"
  BY <1>1, <1>3 DEF RowsOf, RowsAre, list_workspace_channels, SeenOrLost, ListFor
<1>4. CASE q = "dms"
  BY <1>1, <1>2, <1>4, ConversationsAssumption
     DEF RowsOf, RowsAre, list_dms, SeenOrLost, ListFor, _is_private_channel_member
<1> QED
  BY <1>3, <1>4 DEF ConvLists

\* Conversations come and change: lists, posts and choice stay sound.
LEMMA LaterKeeps ==
    ASSUME NEW cs, NEW ds, Later(cs, ds)
    PROVE  /\ \A q, s : RowsAre(cs, q, s) => RowsAre(ds, q, s)
           /\ \A q, e : ListSound(cs, q, e) => ListSound(ds, q, e)
           /\ \A q, p : PostSound(cs, q, p) => PostSound(ds, q, p)
           /\ \A l, c, h : ChoiceSound(cs, l, c, h) => ChoiceSound(ds, l, c, h)
<1>0. \A c : SeenOrLost(cs, c) => /\ SeenOrLost(ds, c) /\ ListFor(ds[c]) = ListFor(cs[c])
                                  /\ cs[c].lost => ds[c].lost
  BY DEF Later, SeenOrLost, ListFor
<1>1. ASSUME NEW q, NEW s, RowsAre(cs, q, s) PROVE RowsAre(ds, q, s)
  BY <1>0, <1>1 DEF RowsAre
<1>2. ASSUME NEW q, NEW e, ListSound(cs, q, e) PROVE ListSound(ds, q, e)
  <2>1. e.data # Unlisted => RowsAre(cs, q, e.data) /\ RowsAre(ds, q, e.data)
    BY <1>1, <1>2 DEF ListSound
  <2>2. e.data # Unlisted => \A c \in e.data : cs[c].lost => ds[c].lost
    BY <1>0, <2>1 DEF RowsAre
  <2> QED
    BY <1>1, <1>2, <2>1, <2>2 DEF ListSound
<1>3. ASSUME NEW q, NEW p, PostSound(cs, q, p) PROVE PostSound(ds, q, p)
  BY <1>0, <1>3 DEF PostSound
<1>4. ASSUME NEW l, NEW c, NEW h, ChoiceSound(cs, l, c, h) PROVE ChoiceSound(ds, l, c, h)
  BY <1>0, <1>4 DEF ChoiceSound
<1> QED
  BY <1>1, <1>2, <1>3, <1>4

LEMMA ConvsChange ==
    ASSUME ConvsInv, ConvsTyped(convs'), Later(convs, convs'), UNCHANGED <<convList, selectedId, hollow>>,
           creating' = [q \in ConvLists |-> creating'[q]],
           \A q \in ConvLists : PostSound(convs', q, creating[q]) => PostSound(convs', q, creating'[q])
    PROVE  ConvsInv'
<1>1. /\ \A q \in ConvLists : Shaped(convList[q], Unlisted) /\ ListSound(convs', q, convList[q])
      /\ \A q \in ConvLists : PostSound(convs', q, creating'[q])
      /\ ChoiceSound(convs', convList, selectedId, hollow)
  BY LaterKeeps DEF ConvsInv
<1> QED
  BY <1>1 DEF ConvsInv

\* A new conversation at the end.
LEMMA ConvAppended ==
    ASSUME ConvsTyped(convs), Len(convs) < MaxConvs, NEW v \in ConvRecord, v.kind \in Peers => v.row,
           convs' = Append(convs, v)
    PROVE  /\ ConvsTyped(convs') /\ Later(convs, convs')
           /\ Len(convs') \in DOMAIN convs' /\ convs'[Len(convs')] = v
<1>1. /\ convs \in Seq(ConvRecord) /\ convs' \in Seq(ConvRecord) /\ Len(convs') = Len(convs) + 1
      /\ Len(convs) \in Nat /\ DOMAIN convs = 1..Len(convs) /\ DOMAIN convs' = 1..Len(convs')
      /\ \A c \in 1..Len(convs) : convs'[c] = convs[c]
      /\ convs'[Len(convs')] = v
  BY DEF ConvsTyped
<1>2. \A c \in DOMAIN convs' : c \in DOMAIN convs \/ c = Len(convs')
  BY <1>1
<1>3. ConvsTyped(convs')
  BY <1>1, <1>2, ConversationsAssumption DEF ConvsTyped
<1>4. Later(convs, convs')
  BY <1>1 DEF Later, SeenOrLost
<1> QED
  BY <1>1, <1>3, <1>4

\* An access changed.
LEMMA AccessKeeps ==
    ASSUME ConvsInv, NEW c \in DOMAIN convs, convs[c].kind = "channel",
           update_channel(c) \/ add_channel_member(c) \/ remove_channel_member(c)
    PROVE  ConvsInv'
<1>1. convs \in Seq(ConvRecord) /\ Len(convs) \in Nat /\ DOMAIN convs = 1..Len(convs)
      /\ convs[c] \in ConvRecord
  BY DEF ConvsInv, ConvsTyped
<1>2. PICK v \in ConvRecord : v.kind = convs[c].kind /\ AccessBecomes(c, v)
  <2>1. /\ [convs[c] EXCEPT !.private = ~@] \in ConvRecord
        /\ [convs[c] EXCEPT !.private = ~@].kind = convs[c].kind
        /\ \A b \in BOOLEAN : [convs[c] EXCEPT !.row = b] \in ConvRecord
        /\ \A b \in BOOLEAN : [convs[c] EXCEPT !.row = b].kind = convs[c].kind
    BY <1>1 DEF ConvRecord
  <2>2. CASE update_channel(c)
    BY <2>1, <2>2 DEF update_channel
  <2>3. CASE add_channel_member(c)
    BY <2>1, <2>3 DEF add_channel_member
  <2>4. CASE remove_channel_member(c)
    BY <2>1, <2>4 DEF remove_channel_member
  <2> QED
    BY <2>2, <2>3, <2>4
<1> DEFINE w == [v EXCEPT !.lost = @ \/ ~_is_private_channel_member(v)]
<1>3. /\ w \in ConvRecord /\ w.kind = "channel" /\ w.private = v.private /\ w.mine = v.mine /\ w.row = v.row
      /\ w.lost = (v.lost \/ ~_is_private_channel_member(v))
  BY <1>2 DEF ConvRecord, _is_private_channel_member
<1>4. /\ convs' = [convs EXCEPT ![c] = w] /\ UNCHANGED <<convList, selectedId, creating, hollow>>
      /\ ~convs[c].lost
  BY <1>2 DEF AccessBecomes
<1>5. _is_private_channel_member(w) \/ w.lost
  BY <1>3 DEF _is_private_channel_member
<1> HIDE DEF w
<1>6. /\ convs' \in Seq(ConvRecord) /\ Len(convs') = Len(convs) /\ DOMAIN convs' = DOMAIN convs
      /\ convs'[c] = w /\ \A d \in DOMAIN convs : d # c => convs'[d] = convs[d]
  BY <1>1, <1>3, <1>4
<1>7. ConvsTyped(convs')
  BY <1>3, <1>6, ConversationsAssumption DEF ConvsInv, ConvsTyped
<1>8. Later(convs, convs')
  BY <1>3, <1>4, <1>5, <1>6 DEF Later, SeenOrLost
<1> QED
  BY <1>4, <1>7, <1>8, ConvsChange DEF ConvsInv

\* One list moves.
LEMMA ListMoves ==
    ASSUME ConvsInv, NEW q \in ConvLists, NEW e, convList' = [convList EXCEPT ![q] = e], Shaped(e, Unlisted),
           UNCHANGED <<convs, selectedId, creating>>, ListSound(convs, q, e),
           \A k \in ConvLists \ {q} : k \in hollow' <=> k \in hollow,
           \A c : (/\ SeenOrLost(convs, c) /\ ~convs[c].lost /\ ListFor(convs[c]) = q
                   /\ Brings(convList[q], c, q \in hollow)) => Brings(e, c, q \in hollow')
    PROVE  ConvsInv'
<1>1. /\ convList' = [k \in ConvLists |-> convList'[k]] /\ convList'[q] = e
      /\ \A k \in ConvLists \ {q} : convList'[k] = convList[k]
  BY DEF ConvsInv
<1>2. \A k \in ConvLists : Shaped(convList'[k], Unlisted) /\ ListSound(convs, k, convList'[k])
  BY <1>1 DEF ConvsInv
<1>3. ChoiceSound(convs, convList', selectedId, hollow')
  <2> SUFFICES ASSUME selectedId # 0, ~convs[selectedId].lost
               PROVE  Brings(convList'[ListFor(convs[selectedId])], selectedId,
                             ListFor(convs[selectedId]) \in hollow')
    BY DEF ChoiceSound, ConvsInv
  <2> DEFINE k == ListFor(convs[selectedId])
  <2>1. k \in ConvLists /\ SeenOrLost(convs, selectedId) /\ Brings(convList[k], selectedId, k \in hollow)
    BY DEF ConvsInv, ChoiceSound, ListFor, ConvLists
  <2>2. CASE k = q
    BY <1>1, <2>1, <2>2
  <2>3. CASE k # q
    BY <1>1, <2>1, <2>3 DEF Brings
  <2> QED
    BY <2>2, <2>3
<1> QED
  BY <1>1, <1>2, <1>3 DEF ConvsInv

\* The POSTs' slots.
LEMMA PostMoves ==
    ASSUME ConvsInv, NEW q \in ConvLists, NEW p, creating' = [creating EXCEPT ![q] = p],
           PostSound(convs, q, p), UNCHANGED <<convs, convList, selectedId, hollow>>
    PROVE  ConvsInv'
  BY DEF ConvsInv

LEMMA LeastNumber ==
    ASSUME NEW T, \A y \in T : y \in Nat, T # {}
    PROVE  \E m \in T : \A k \in T : m <= k
<1>1. IsWellFoundedOn(OpToRel(<, Nat), Nat)
  BY NatLessThanWellFounded
<1>2. T \in SUBSET Nat
  OBVIOUS
<1>3. PICK m \in T : \A k \in T : ~(<<k, m>> \in OpToRel(<, Nat))
  BY <1>1, <1>2, WFMin
<1>4. ASSUME NEW k \in T PROVE m <= k
  <2>1. m \in Nat /\ k \in Nat
    OBVIOUS
  <2>2. ~(k < m)
    BY <1>3, <2>1 DEF OpToRel
  <2> QED
    BY <2>1, <2>2
<1> QED
  BY <1>4

LEMMA ConvsStepKeeps == ASSUME ConvsInv, ConversationsNext PROVE ConvsInv'
<1>0. /\ ConvsTyped(convs) /\ convList = [q \in ConvLists |-> convList[q]]
      /\ creating = [q \in ConvLists |-> creating[q]]
      /\ \A q \in ConvLists : Shaped(convList[q], Unlisted) /\ ListSound(convs, q, convList[q])
      /\ \A q \in ConvLists : PostSound(convs, q, creating[q])
      /\ "channels" \in ConvLists /\ "dms" \in ConvLists
  BY DEF ConvsInv, ConvLists
<1>1. CASE OtherCreates
  <2>1. PICK v \in ConvRecord : (v.kind \in Peers => v.row) /\ convs' = Append(convs, v)
    BY <1>1, ConversationsAssumption DEF OtherCreates, NewConv, ConvRecord
  <2> QED
    BY <1>0, <1>1, <2>1, ConvAppended, ConvsChange DEF OtherCreates
<1>2. ASSUME NEW c \in DOMAIN convs, update_channel(c) \/ add_channel_member(c) \/ remove_channel_member(c)
      PROVE  ConvsInv'
  BY <1>2, AccessKeeps DEF update_channel, add_channel_member, remove_channel_member
<1>3. ASSUME NEW c \in Convs, setSelectedId(c) PROVE ConvsInv'
  <2>1. PICK q \in ConvLists : convList[q].data # Unlisted /\ c \in convList[q].data
    BY <1>0, <1>3 DEF setSelectedId, ListedConvs
  <2>2. SeenOrLost(convs, c) /\ ListFor(convs[c]) = q
    BY <1>0, <2>1 DEF ListSound, RowsAre
  <2>3. convs[c].lost \/ Brings(convList[q], c, q \in hollow)
    BY <1>0, <2>1 DEF ListSound, Brings
  <2>4. ChoiceSound(convs, convList, c, hollow)
    BY <2>2, <2>3 DEF ChoiceSound
  <2> QED
    BY <1>3, <2>4 DEF setSelectedId, ConvsInv
<1>4. ASSUME NEW q \in ConvLists, ListReads(q) PROVE ConvsInv'
  <2> DEFINE e == Answer(convList[q], RowsOf(q))
  <2>1. convList' = [convList EXCEPT ![q] = e] /\ hollow' = hollow \ {q}
        /\ UNCHANGED <<convs, selectedId, creating>>
    BY <1>4 DEF ListReads
  <2>2. Shaped(e, Unlisted) /\ e.data = convList[q].data /\ e.answer = RowsOf(q) /\ e.get = "read"
    BY <1>0 DEF Shaped, Answer
  <2> HIDE DEF e
  <2>3. \A c : SeenOrLost(convs, c) /\ ListFor(convs[c]) = q => convs[c].lost \/ c \in e.answer
    BY <2>2, ServerRows
  <2>4. e.data # Unlisted => RowsAre(convs, q, e.data)
    BY <1>0, <2>2 DEF ListSound
  <2>5. ListSound(convs, q, e)
    BY <2>2, <2>3, <2>4, ServerRows DEF ListSound, RowsAre
  <2>6. \A c : /\ SeenOrLost(convs, c) /\ ~convs[c].lost /\ ListFor(convs[c]) = q
               => Brings(e, c, q \in hollow')
    BY <2>2, <2>3 DEF Brings
  <2> QED
    BY <2>1, <2>2, <2>5, <2>6, ListMoves
<1>5. ASSUME NEW q \in ConvLists, ListLands(q) \/ EmptyForAFailure(q) \/ ListAgain(q) PROVE ConvsInv'
  <2>0. UNCHANGED <<convs, selectedId, creating>>
    BY <1>5 DEF ListLands, EmptyForAFailure, ListAgain
  <2>1. ASSUME NEW e, convList' = [convList EXCEPT ![q] = e], Shaped(e, Unlisted), e.data = convList[q].data,
               e.get = "asked" \/ (e.get = "none" /\ e.invalid), hollow' = hollow
        PROVE  ConvsInv'
    <3>1. ListSound(convs, q, e)
      BY <1>0, <2>1 DEF ListSound
    <3>2. \A c : Brings(e, c, q \in hollow')
      BY <2>1 DEF Brings
    <3> QED
      BY <2>0, <2>1, <3>1, <3>2, ListMoves
  <2>2. CASE convList' = [convList EXCEPT ![q] = Lose(@)] /\ hollow' = hollow
    <3>1. /\ Shaped(Lose(convList[q]), Unlisted) /\ Lose(convList[q]).data = convList[q].data
          /\ Lose(convList[q]).get = "none" /\ Lose(convList[q]).invalid
      BY <1>0, Entries
    <3> QED
      BY <2>1, <2>2, <3>1
  <2>3. CASE ListAgain(q)
    <3>1. /\ Shaped(Ask(convList[q]), Unlisted) /\ Ask(convList[q]).data = convList[q].data
          /\ Ask(convList[q]).get = "asked"
      BY <1>0, <2>3, Entries DEF ListAgain, Loading
    <3> QED
      BY <2>1, <2>3, <3>1 DEF ListAgain
  <2>4. CASE /\ convList[q].get = "read" /\ hollow' = hollow
             /\ convList' = [convList EXCEPT ![q] = Land(@)]
    <3> DEFINE e == Land(convList[q])
    <3>1. Shaped(e, Unlisted) /\ e.data = convList[q].answer /\ e.get = "none"
      BY <1>0, Entries
    <3>2. convList' = [convList EXCEPT ![q] = e]
      BY <2>4
    <3> HIDE DEF e
    <3>3. RowsAre(convs, q, e.data) /\ e.data # Unlisted
      BY <1>0, <2>4, <3>1, ConversationsAssumption DEF ListSound, RowsAre
    <3>4. ListSound(convs, q, e)
      BY <3>1, <3>3 DEF ListSound
    <3>5. \A c : Brings(convList[q], c, q \in hollow) => Brings(e, c, q \in hollow')
      BY <2>4, <3>1, <3>3 DEF Brings
    <3> QED
      BY <2>0, <2>4, <3>1, <3>2, <3>4, <3>5, ListMoves
  <2>5. CASE EmptyForAFailure(q)
    <3> DEFINE e == Land(Answer(convList[q], {}))
    <3>1. Shaped(e, Unlisted) /\ e.data = {} /\ e.get = "none"
      BY <1>0 DEF Shaped, Answer, Land
    <3>2. convList' = [convList EXCEPT ![q] = e] /\ hollow' = hollow \cup {q}
      BY <2>5 DEF EmptyForAFailure
    <3> HIDE DEF e
    <3>3. ListSound(convs, q, e) /\ \A c : Brings(e, c, q \in hollow')
      BY <3>1, <3>2 DEF ListSound, RowsAre, Brings
    <3> QED
      BY <2>0, <3>1, <3>2, <3>3, ListMoves
  <2> QED
    BY <1>5, <2>2, <2>3, <2>4, <2>5 DEF ListLands
<1>6. ASSUME NEW q \in ConvLists, CreateFails(q) PROVE ConvsInv'
  <2>1. PostSound(convs, q, NoCreate)
    BY DEF PostSound, NoCreate
  <2> QED
    BY <1>6, <2>1, PostMoves DEF CreateFails
<1>7. CASE handleCreateChannel
  <2> DEFINE p == [creating["channels"] EXCEPT !.st = "sent"]
  <2>1. PostSound(convs, "channels", p)
    BY <1>7 DEF handleCreateChannel, NoCreate, PostSound
  <2>2. creating' = [creating EXCEPT !["channels"] = p] /\ UNCHANGED <<convs, convList, selectedId, hollow>>
    BY <1>7 DEF handleCreateChannel
  <2> HIDE DEF p
  <2> QED
    BY <1>0, <2>1, <2>2, PostMoves
<1>8. CASE NewDMDialog
  <2>1. PICK m \in Peers : creating' = [creating EXCEPT !["dms"] = [@ EXCEPT !.st = "sent", !.peer = m]]
    BY <1>8 DEF NewDMDialog
  <2> DEFINE p == [creating["dms"] EXCEPT !.st = "sent", !.peer = m]
  <2>2. PostSound(convs, "dms", p)
    BY <1>8 DEF NewDMDialog, NoCreate, PostSound
  <2>3. creating' = [creating EXCEPT !["dms"] = p] /\ UNCHANGED <<convs, convList, selectedId, hollow>>
    BY <1>8, <2>1 DEF NewDMDialog
  <2> HIDE DEF p
  <2> QED
    BY <1>0, <2>2, <2>3, PostMoves
<1>9. CASE create_channel
  <2> DEFINE v == NewConv("channel", TRUE, FALSE, FALSE)
             p == [creating["channels"] EXCEPT !.st = "stored", !.id = Len(convs')]
  <2>1. v \in ConvRecord /\ v.kind = "channel" /\ v.mine
    BY DEF NewConv, ConvRecord
  <2>2. /\ convs' = Append(convs, v) /\ creating' = [creating EXCEPT !["channels"] = p]
        /\ Len(convs) < MaxConvs /\ UNCHANGED <<convList, selectedId, hollow>>
    BY <1>9 DEF create_channel
  <2>3. /\ ConvsTyped(convs') /\ Later(convs, convs') /\ Len(convs') \in DOMAIN convs'
        /\ convs'[Len(convs')] = v
    BY <1>0, <2>1, <2>2, ConvAppended, ConversationsAssumption
  <2>4. p \in [st : {p.st}, id : {p.id}, peer : {p.peer}] /\ p.id = Len(convs')
    BY <1>0 DEF PostSound
  <2>5. PostSound(convs', "channels", p)
    BY <2>1, <2>3, <2>4 DEF PostSound, SeenOrLost, ListFor, _is_private_channel_member
  <2> HIDE DEF p, v
  <2>6. /\ creating' = [q \in ConvLists |-> creating'[q]] /\ creating'["channels"] = p
        /\ \A q \in ConvLists \ {"channels"} : creating'[q] = creating[q]
    BY <1>0, <2>2
  <2> QED
    BY <2>2, <2>3, <2>5, <2>6, ConvsChange
<1>10. CASE create_dm
  <2> DEFINE there == {c \in list_dms : convs[c].kind = creating["dms"].peer}
  <2>1. creating["dms"].peer \in Peers /\ UNCHANGED <<convList, selectedId, hollow>>
    BY <1>0, <1>10 DEF create_dm, PostSound
  <2>2. CASE there # {}
    <3> DEFINE p == [creating["dms"] EXCEPT !.st = "stored", !.id = First(there)]
    <3>1. First(there) \in there
      <4>1. \A c \in there : c \in Nat
        BY <1>0 DEF list_dms, ConvsTyped
      <4> HIDE DEF there
      <4> QED
        BY <2>2, <4>1, LeastNumber DEF First
    <3>2. creating' = [creating EXCEPT !["dms"] = p] /\ convs' = convs
      BY <1>10, <2>2 DEF create_dm
    <3>3. p \in [st : {p.st}, id : {p.id}, peer : {p.peer}] /\ p.id = First(there) /\ p.peer \in Peers
      BY <1>0, <2>1 DEF PostSound
    <3>4. SeenOrLost(convs, First(there)) /\ ListFor(convs[First(there)]) = "dms"
      BY <2>1, <3>1, ConversationsAssumption DEF SeenOrLost, ListFor, list_dms, _is_private_channel_member
    <3>5. PostSound(convs, "dms", p)
      BY <3>3, <3>4 DEF PostSound
    <3> HIDE DEF p, there
    <3> QED
      BY <1>0, <2>1, <3>2, <3>5, PostMoves
  <2>3. CASE there = {}
    <3> DEFINE v == NewConv(creating["dms"].peer, FALSE, TRUE, TRUE)
               p == [creating["dms"] EXCEPT !.st = "stored", !.id = Len(convs')]
    <3>1. v \in ConvRecord /\ v.kind = creating["dms"].peer /\ v.row
      BY <2>1 DEF NewConv, ConvRecord
    <3>2. /\ convs' = Append(convs, v) /\ creating' = [creating EXCEPT !["dms"] = p]
          /\ Len(convs) < MaxConvs
      BY <1>10, <2>3 DEF create_dm
    <3>3. /\ ConvsTyped(convs') /\ Later(convs, convs') /\ Len(convs') \in DOMAIN convs'
          /\ convs'[Len(convs')] = v
      BY <1>0, <3>1, <3>2, ConvAppended
    <3>4. p \in [st : {p.st}, id : {p.id}, peer : {p.peer}] /\ p.id = Len(convs') /\ p.peer \in Peers
      BY <1>0, <2>1 DEF PostSound
    <3>5. PostSound(convs', "dms", p)
      BY <2>1, <3>1, <3>3, <3>4, ConversationsAssumption
         DEF PostSound, SeenOrLost, ListFor, _is_private_channel_member
    <3> HIDE DEF p, v, there
    <3>6. /\ creating' = [q \in ConvLists |-> creating'[q]] /\ creating'["dms"] = p
          /\ \A q \in ConvLists \ {"dms"} : creating'[q] = creating[q]
      BY <1>0, <3>2
    <3> QED
      BY <2>1, <3>3, <3>5, <3>6, ConvsChange
  <2> QED
    BY <2>2, <2>3
<1>11. CASE ChannelCreated \/ DMReady
  <2>1. PICK q \in ConvLists :
           /\ creating[q].st = "stored" /\ selectedId' = creating[q].id
           /\ creating' = [creating EXCEPT ![q] = NoCreate] /\ UNCHANGED convs
           /\ JoinsAnOldLoad(q)
           /\ convList' \in {[k \in ConvLists |-> Invalidate(convList[k], TRUE)],
                             [convList EXCEPT ![q] = Invalidate(@, TRUE)]}
    BY <1>0, <1>11 DEF ChannelCreated, DMReady
  <2>2. /\ convList' = [k \in ConvLists |-> convList'[k]]
        /\ convList'[q] = Invalidate(convList[q], TRUE)
        /\ \A k \in ConvLists : convList'[k] \in {convList[k], Invalidate(convList[k], TRUE)}
    BY <1>0, <2>1
  <2>3. ASSUME NEW k \in ConvLists PROVE Shaped(convList'[k], Unlisted) /\ ListSound(convs, k, convList'[k])
    <3> DEFINE e == Invalidate(convList[k], TRUE)
    <3>1. /\ Shaped(e, Unlisted) /\ e.data = convList[k].data
          /\ e.get = "asked" \/ (e.get = convList[k].get /\ e.answer = convList[k].answer)
      BY <1>0, Marks
    <3> HIDE DEF e
    <3>2. ListSound(convs, k, e)
      BY <1>0, <3>1 DEF ListSound
    <3> QED
      BY <1>0, <2>2, <3>1, <3>2 DEF e
  <2>4. /\ creating' = [k \in ConvLists |-> creating'[k]]
        /\ \A k \in ConvLists : creating'[k] \in {creating[k], NoCreate}
    BY <1>0, <2>1
  <2>5. \A k \in ConvLists : PostSound(convs, k, creating'[k])
    BY <1>0, <2>4 DEF PostSound, NoCreate
  <2>6. SeenOrLost(convs, selectedId') /\ ListFor(convs[selectedId']) = q
    BY <1>0, <2>1 DEF PostSound
  <2>7. convList'[q].get = "asked" \/ q \in hollow'
    <3>0. /\ ~Loading(convList[q]) => Invalidate(convList[q], TRUE).get = "asked"
          /\ Loading(convList[q]) => Invalidate(convList[q], TRUE).get = convList[q].get
      <4>1. Shaped(convList[q], Unlisted)
        BY <1>0
      <4> QED
        BY <4>1, Marks
    <3>1. CASE ~Loading(convList[q])
      BY <2>2, <3>0, <3>1
    <3>2. CASE Loading(convList[q]) /\ convList[q].get = "read"
      BY <2>1, <3>2 DEF JoinsAnOldLoad
    <3>3. CASE Loading(convList[q]) /\ convList[q].get # "read"
      <4>1. convList[q].get = "asked"
        BY <1>0, <3>3 DEF Loading, Fetching, Shaped
      <4> QED
        BY <2>2, <3>0, <3>3, <4>1
    <3> QED
      BY <3>1, <3>2, <3>3
  <2>8. ChoiceSound(convs, convList', selectedId', hollow')
    BY <2>6, <2>7 DEF ChoiceSound, Brings
  <2> QED
    BY <1>0, <2>1, <2>2, <2>3, <2>4, <2>5, <2>8 DEF ConvsInv
<1> QED
  BY <1>1, <1>2, <1>3, <1>4, <1>5, <1>6, <1>7, <1>8, <1>9, <1>10, <1>11 DEF ConversationsNext

LEMMA ConvsStay == ASSUME ConvsInv, UNCHANGED conversationsVars PROVE ConvsInv'
  BY DEF ConvsInv, conversationsVars

LEMMA ChoiceSettles == ASSUME ConvsInv PROVE SettledChoiceIsOnScreen
<1> SUFFICES ASSUME \A q \in ConvLists : ~Fetching(convList[q]) /\ ~convList[q].invalid, selectedId # 0,
                    ~convs[selectedId].lost, hollow = {}
             PROVE  selectedChannel = selectedId
  BY DEF SettledChoiceIsOnScreen
<1> DEFINE q == ListFor(convs[selectedId])
<1>1. q \in ConvLists /\ Brings(convList[q], selectedId, FALSE)
  BY DEF ConvsInv, ChoiceSound, ListFor, ConvLists, Brings
<1>2. convList[q].data # Unlisted /\ selectedId \in convList[q].data
  BY <1>1 DEF Brings, Fetching
<1>3. selectedId \in ListedConvs("channels") \cup ListedConvs("dms")
  BY <1>1, <1>2 DEF ListedConvs, ConvLists
<1> QED
  BY <1>3 DEF selectedChannel

-----------------------------------------------------------------------------
(* The theorems.                                                           *)

DashboardInv ==
    /\ EntryShape /\ ListTyped /\ CommitsCounted
    /\ BoardInv /\ GetIsFresh /\ SheetInv /\ PanelInv
    /\ SearchInv /\ PlannerInv /\ WikiInv /\ FilesInv /\ RosterInv /\ InboxInv /\ ConvsInv

LEMMA InitEstablishes == Init => DashboardInv
<1> SUFFICES ASSUME Init PROVE DashboardInv
  OBVIOUS
<1>1. /\ BoardInit /\ ShellInit /\ PlannerInit /\ WikiInit /\ FilesInit /\ RosterInit
      /\ InboxInit /\ ConversationsInit
  BY DEF Init
<1>2. EntryShape /\ ListTyped
  BY <1>1 DEF BoardInit, NewEntry, NoList, EntryShape, ListTyped
<1>3. CommitsCounted /\ SheetInv
  BY <1>1 DEF BoardInit, NoMutation, CommitsCounted, SheetInv
<1>4. BoardInv
  BY <1>1 DEF BoardInit, BoardInv, BoardInSync, MutShape
<1>5. GetIsFresh
  BY <1>1 DEF BoardInit, NewEntry, GetIsFresh, Fetching
<1>6. PanelInv
  BY <1>1 DEF ShellInit, PanelInv, Panels
<1>7. SearchInv /\ PlannerInv /\ WikiInv /\ FilesInv /\ RosterInv /\ InboxInv /\ ConvsInv
  BY <1>1, SearchStart, PlannerStart, WikiStart, FilesStart, RosterStart, InboxStart, ConvsStart
<1> QED
  BY <1>2, <1>3, <1>4, <1>5, <1>6, <1>7 DEF DashboardInv

LEMMA StepKeeps == DashboardInv /\ [Next]_vars => DashboardInv'
<1> SUFFICES ASSUME DashboardInv, [Next]_vars PROVE DashboardInv'
  OBVIOUS
<1>1. /\ EntryShape /\ ListTyped /\ CommitsCounted /\ BoardInv /\ GetIsFresh /\ SheetInv
      /\ PanelInv /\ SearchInv /\ PlannerInv /\ WikiInv /\ FilesInv /\ RosterInv /\ InboxInv
      /\ ConvsInv
  BY DEF DashboardInv
<1>2. PanelInv' /\ SearchInv'
  BY <1>1, OnlyTheFrameMoves, PanelsKeep, SearchesKeep
<1>3. WikiInv'
  BY <1>1, OnlyTheWikiMoves, WikiStepKeeps, WikiStays
<1>4. FilesInv'
  BY <1>1, OnlyTheFilesMove, FilesStepKeeps, FilesStay
<1>5. RosterInv'
  BY <1>1, OnlyTheSettingsMove, RosterStepKeeps, RosterStays
<1>6. InboxInv'
  BY <1>1, OnlyTheInboxMoves, InboxKeeps
<1>7. PlannerInv' /\ ConvsInv'
  BY <1>1, OnlyThePlannerMoves, PlannerStepKeeps, PlannerStays, OnlyTheChatsMove, ConvsStepKeeps, ConvsStay
<1>8. (EntryShape /\ ListTyped /\ CommitsCounted /\ BoardInv /\ GetIsFresh /\ SheetInv)'
  <2>1. CASE BoardNext
    BY <1>1, <2>1, ShapeStays, ListStaysTyped, CountSteps, CountsStay, BoardStepKeeps, FreshStep,
       SheetStepKeeps
  <2>2. CASE UNCHANGED taskBoardVars
    BY <1>1, <2>2 DEF taskBoardVars, EntryShape, ListTyped, CommitsCounted, BoardInv, BoardInSync,
                      MutShape, buildColumns, GetIsFresh, MayHide, Fetching, SheetInv
  <2> QED
    BY <2>1, <2>2, OnlyTheBoardMoves
<1> QED
  BY <1>2, <1>3, <1>4, <1>5, <1>6, <1>7, <1>8 DEF DashboardInv

\* The inductive invariant of the pages and the frame holds during any visit.
THEOREM DashboardInvHolds == Spec => []DashboardInv
  BY InitEstablishes, StepKeeps, PTL DEF Spec

\* A save of the detail sheet never overwrites a field that its user left
\* alone and no refetch changed under the sheet (task-detail-sheet.tsx).
THEOREM SavesSendOnlyEdits == Spec => UntouchedFieldsSurvive
<1> DEFINE Survive ==
        \A s \in Slots, t \in Tasks, f \in Fields :
            muts[s].phase = "sent" /\ muts'[s].phase = "done" /\ muts[s].task = t
               /\ rows[t][f] # rows'[t][f] => f \notin muts[s].untouched
<1>1. DashboardInv => Survive
  BY DEF DashboardInv, SheetInv
<1>2. DashboardInv => [Survive]_taskBoardVars
  BY <1>1
<1> QED
  BY <1>2, DashboardInvHolds, PTL DEF UntouchedFieldsSurvive

\* A write of this browser that was acknowledged goes missing from a list that
\* counts as valid only when a GET lands that outlived the board that asked for
\* it, the first one, or the empty answer of a refused lookup (use-kanban-tasks.ts,
\* api/tasks/route.ts).
THEOREM OwnWritesStay == Spec => HiddenOwnWritesHaveAReason
<1>1. DashboardInv /\ [Next]_vars => [HidesNone]_taskBoardVars
  BY OnlyTheBoardMoves, FreshStep DEF DashboardInv
<1>2. [][HidesNone]_taskBoardVars => HiddenOwnWritesHaveAReason
  BY DEF HidesNone, MayHide, HiddenOwnWritesHaveAReason
<1> QED
  BY <1>1, <1>2, DashboardInvHolds, PTL DEF Spec

\* A press of a panel's button or key shows or hides it, through any changes of
\* width, unless an earlier press met one (sidebar.tsx, infobar.tsx).
THEOREM PressesShow == Spec => EveryPressShows
<1> DEFINE Shows == \A p \in Panels : toggle(p) /\ p \notin raced => Shown(p)' # Shown(p)
<1>1. DashboardInv => [Shows]_shellVars
  BY PressShows DEF DashboardInv
<1> QED
  BY <1>1, DashboardInvHolds, PTL DEF EveryPressShows

\* At rest, the command bar offers the matches of the text that is typed, and
\* the AI search denies having one only when there is none or its GET failed
\* (use-search-actions.ts, ai-search.tsx).
THEOREM SearchesSettle == Spec => []SettledSearchesAreOwn
<1>1. DashboardInv => SettledSearchesAreOwn
  BY SearchSettles DEF DashboardInv
<1> QED
  BY <1>1, DashboardInvHolds, PTL

\* With nothing under way and no overlap since the last clean load, the projects
\* page, the calendar and the audit log show the visit's own rows once, no row
\* twice and none that does not answer the question (projects-page.tsx,
\* calendar-page.tsx, audit-log-page.tsx).
THEOREM ListsSettle == Spec => []SettledListsAreCurrent
<1>1. DashboardInv => SettledListsAreCurrent
  BY PlannerSettles DEF DashboardInv
<1> QED
  BY <1>1, DashboardInvHolds, PTL

\* The conversation chosen is the one on screen once both lists are valid and at
\* rest, unless its visitor was shut out or a failure emptied a list
\* (chat-page.tsx).
THEOREM ChoicesStay == Spec => []SettledChoiceIsOnScreen
<1>1. DashboardInv => SettledChoiceIsOnScreen
  BY ChoiceSettles DEF DashboardInv
<1> QED
  BY <1>1, DashboardInvHolds, PTL

\* A viewer mounted for the page it shows holds no other page's summary or
\* version preview, and no request for one (page-viewer.tsx).
THEOREM LeftoversAreExplained == Spec => []LeftoversNeedACachedPage
<1>1. DashboardInv => LeftoversNeedACachedPage
  BY DEF DashboardInv, WikiInv, ViewerInv
<1> QED
  BY <1>1, DashboardInvHolds, PTL

\* With no restore or GET of it under way, a page held as valid shows every
\* restore made of it, unless an answer was lost or went to another page
\* (page-history-sheet.tsx).
THEOREM RestoresAreShown == Spec => []RestoredPagesAreRefetched
<1>1. DashboardInv => RestoredPagesAreRefetched
  BY RestoredShow DEF DashboardInv
<1> QED
  BY <1>1, DashboardInvHolds, PTL

\* A file has more messages than shares that worked only by calls that were cut
\* off or whose dialog is gone (share-file-dialog.tsx).
THEOREM SharesHaveReasons == Spec => []SecondPostHasAReason
<1>1. DashboardInv => SecondPostHasAReason
  BY PostsHaveReasons DEF DashboardInv
<1> QED
  BY <1>1, DashboardInvHolds, PTL

\* With no call left, the settings page shows the server's members and invites,
\* but for a list that some answer overtook (workspace-settings-page.tsx).
THEOREM RosterSettlesDown == Spec => []SettledRosterIsCurrent
<1>1. DashboardInv => SettledRosterIsCurrent
  BY RosterSettles DEF DashboardInv
<1> QED
  BY <1>1, DashboardInvHolds, PTL

\* With nothing in flight, everybody's dot shows the latest presence and the
\* inbox the server's notifications, but for the users and the changes that the
\* browser was not told of (use-presence.tsx, notification-list.tsx).
THEOREM PushesAreCurrent == Spec => []SettledPushesAreCurrent
<1>1. DashboardInv => SettledPushesAreCurrent
  BY PushesSettle DEF DashboardInv
<1> QED
  BY <1>1, DashboardInvHolds, PTL

=============================================================================
