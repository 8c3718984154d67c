---------------------------- MODULE MCDashboard ----------------------------
EXTENDS Dashboard

CONSTANTS a, b, p1, p2, t1, todo, doing, short, m1, m2, ab, cd, xx, mate

\* Two topics with a row each; two wiki pages, the search finding the second.
MCTopicOf == [r \in Rows |-> IF r = 1 THEN a ELSE b]
MCAllWikis == <<p1, p2>>
MCFoundWikis == <<p2>>

\* ab is found everywhere, cd in two places, no match for xx.
MCFoundIn == [w \in Words |-> IF w = ab THEN SourceSet ELSE IF w = cd THEN {"tasks", "pages"} ELSE {}]

\* The task starts in the first column or is created during the visit.  Only a
\* visit to the settings finds the built-in invite in its list or free.
FirstCard == [description |-> Null, status |-> todo, assignee |-> Null]
MCInit ==
    /\ Init
    /\ rows \in [Tasks -> IF page = "kanban" THEN {Unborn, FirstCard} ELSE {Unborn}]
    /\ page # "members" => \A i \in SampleInvites : seededInvites[i] = NoRole

\* A visit to the wiki that searches restores nothing; columns are dragged before
\* the first commit.
Scope ==
    /\ searches = 0 \/ asked = 0
    /\ activeId = NoId \/ commits = 0

MCSpec == MCInit /\ [][Next /\ Scope']_vars
=============================================================================
