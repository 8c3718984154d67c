------------------------------ MODULE Dashboard ------------------------------
(***************************************************************************)
(* The pages of the dashboard that have a module of their own and the      *)
(* frame around them, one visit to one of them at a time.                  *)
(***************************************************************************)
EXTENDS TaskBoard, Planner, Wiki, Files, Roster, Inbox, Conversations, Shell

vars == <<page, taskBoardVars, plannerVars, wikiVars, filesVars, rosterVars, inboxVars,
          conversationsVars, shellVars>>

Init ==
    /\ page \in AllPages
    /\ BoardInit /\ PlannerInit /\ WikiInit /\ FilesInit /\ RosterInit /\ InboxInit
    /\ ConversationsInit /\ ShellInit

BoardVisit ==
    /\ page = "kanban" /\ BoardNext
    /\ UNCHANGED <<page, plannerVars, wikiVars, filesVars, rosterVars, inboxVars, conversationsVars, shellVars>>
PlannerVisit ==
    /\ page \in PlannerPages /\ PlannerNext
    /\ UNCHANGED <<page, taskBoardVars, wikiVars, filesVars, rosterVars, inboxVars, conversationsVars, shellVars>>
WikiVisit ==
    /\ page = "wiki" /\ WikiNext
    /\ UNCHANGED <<page, taskBoardVars, plannerVars, filesVars, rosterVars, inboxVars, conversationsVars, shellVars>>
FilesVisit ==
    /\ page = "files" /\ FilesNext
    /\ UNCHANGED <<page, taskBoardVars, plannerVars, wikiVars, rosterVars, inboxVars, conversationsVars, shellVars>>
SettingsVisit ==
    /\ page = "members" /\ RosterNext
    /\ UNCHANGED <<page, taskBoardVars, plannerVars, wikiVars, filesVars, inboxVars, conversationsVars, shellVars>>
InboxVisit ==
    /\ page = "inbox" /\ InboxNext
    /\ UNCHANGED <<page, taskBoardVars, plannerVars, wikiVars, filesVars, rosterVars, conversationsVars, shellVars>>
ChatsVisit ==
    /\ page = "chats" /\ ConversationsNext
    /\ UNCHANGED <<page, taskBoardVars, plannerVars, wikiVars, filesVars, rosterVars, inboxVars, shellVars>>
ShellVisit ==
    /\ page \in FrameParts /\ ShellNext
    /\ UNCHANGED <<page, taskBoardVars, plannerVars, wikiVars, filesVars, rosterVars, inboxVars, conversationsVars>>

Next ==
    \/ BoardVisit \/ PlannerVisit \/ WikiVisit \/ FilesVisit \/ SettingsVisit
    \/ InboxVisit \/ ChatsVisit \/ ShellVisit

Spec == Init /\ [][Next]_vars

TypeOK ==
    /\ page \in AllPages /\ BoardTypeOK /\ PlannerTypeOK /\ WikiTypeOK
    /\ FilesTypeOK /\ RosterTypeOK /\ InboxTypeOK
    /\ ConversationsTypeOK /\ ShellTypeOK
=============================================================================
