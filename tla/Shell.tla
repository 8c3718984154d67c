------------------------------- MODULE Shell -------------------------------
(***************************************************************************)
(* The frame around the pages: the command bar, which searches tasks,      *)
(* projects and wiki pages as one types; the dialog of the AI search; and  *)
(* the two panels that slide in from the sides, the sidebar and the info   *)
(* bar.  The three parts share no state, so a visit is to one of them.     *)
(* What there is to find does not change during a visit: the question is   *)
(* which text the answer on the screen belongs to.                         *)
(***************************************************************************)
EXTENDS Pages, Integers, Sequences, FiniteSets

CONSTANTS Words,       \* texts long enough to search for
          Blank,       \* every shorter one
          FoundIn,     \* word -> the sources that have a match for it
          SEARCH_CAP

ASSUME ShellAssumption ==
    /\ Blank \notin Words
    /\ FoundIn \in [Words -> SUBSET {"tasks", "projects", "pages"}]
    /\ SEARCH_CAP \in Nat \ {0}

VARIABLES barText,     \* the text in the command bar; Blank when it is closed
          barSearches, \* its effects that may still answer: [text, st, cancelled]
          results,     \* the actions it registered: [actions, capped]
          missed,      \* history: sources whose GET failed in the search shown
          ai,          \* AISearch: [open, query, debounced]
          found,       \* word -> the query cache's entry for it
          panel,       \* panel -> [open, openMobile]
          isMobile,    \* the width as the screen shows it
          seen,        \* the width the effects and key handlers ran with last
          raced        \* history: panels with a key press that met a width change

barVars == <<barText, barSearches, results, missed>>
aiVars == <<ai, found>>
panelVars == <<panel, isMobile, seen, raced>>
shellVars == <<barVars, aiVars, panelVars>>

Panels == {"sidebar", "infobar"}
BarTexts == Words \cup {Blank}
Sources == <<"tasks", "projects", "pages">>
SourceSet == {"tasks", "projects", "pages"}
EMPTY_RESULTS == [actions |-> {}, capped |-> FALSE]

ShellTypeOK ==
    /\ barText \in BarTexts /\ missed \subseteq SourceSet
    /\ barSearches \subseteq [text : Words, st : {"waiting", "asked"}, cancelled : BOOLEAN]
    /\ results \in [actions : SUBSET (SourceSet \X Words), capped : BOOLEAN]
    /\ ai \in [open : BOOLEAN, query : BarTexts, debounced : BarTexts]
    /\ found \in [Words -> {"absent", "asked", "ok", "failed"}]
    /\ panel \in [Panels -> [open : BOOLEAN, openMobile : BOOLEAN]]
    /\ {isMobile, seen} \subseteq BOOLEAN /\ raced \subseteq Panels

ShellInit ==
    /\ barText = Blank /\ barSearches = {} /\ results = EMPTY_RESULTS /\ missed = {}
    /\ ai = [open |-> FALSE, query |-> Blank, debounced |-> Blank]
    /\ found = [w \in Words |-> "absent"]
    /\ panel = [p \in Panels |-> [open |-> FALSE, openMobile |-> FALSE]]
    /\ isMobile = FALSE /\ seen = FALSE /\ raced = {}

-----------------------------------------------------------------------------
(* The command bar. *)

\* The effect of the text before: its timer is cleared, or its requests are
\* told that nobody waits for them.
Cancelled == {[s EXCEPT !.cancelled = TRUE] : s \in {s \in barSearches : s.st = "asked"}}

\* A new text; closing the bar, or running an action, is a change to Blank.
onSearchQuery(text) ==
    /\ text # barText /\ barText' = text
    /\ IF text = Blank
       THEN barSearches' = Cancelled /\ results' = EMPTY_RESULTS /\ missed' = {}
       ELSE /\ barSearches' = Cancelled \cup {[text |-> text, st |-> "waiting", cancelled |-> FALSE]}
            /\ UNCHANGED <<results, missed>>

\* The timer: three requests start together.
SearchFires(s) ==
    /\ s.st = "waiting"
    /\ barSearches' = (barSearches \ {s}) \cup {[s EXCEPT !.st = "asked"]}
    /\ UNCHANGED <<barText, results, missed>>

\* The actions for w from the sources that answered, in order, cut to the cap.
SearchResults(w, answered) ==
    LET all == SelectSeq(Sources, LAMBDA s : s \in answered \cap FoundIn[w])
        shown == {all[i] : i \in {i \in DOMAIN all : i <= SEARCH_CAP}}
    IN [actions |-> shown \X {w}, capped |-> Len(all) > SEARCH_CAP]

\* Mutant: the answers of a search nobody waits for are shown all the same.
mut_LateAnswersShow(s) ==
    /\ s.st = "asked" /\ barSearches' = barSearches \ {s}
    /\ \E answered \in SUBSET SourceSet :
        results' = SearchResults(s.text, answered) /\ missed' = SourceSet \ answered
    /\ UNCHANGED barText

\* All three have answered or failed; a failure counts as finding nothing.
SearchLands(s) ==
    /\ s.st = "asked" /\ barSearches' = barSearches \ {s}
    /\ \/ s.cancelled /\ UNCHANGED <<results, missed>>
       \/ /\ ~s.cancelled
          /\ \E answered \in SUBSET SourceSet :
              results' = SearchResults(s.text, answered) /\ missed' = SourceSet \ answered
    /\ UNCHANGED barText

CommandBar ==
    /\ \/ \E t \in BarTexts : onSearchQuery(t)
       \/ \E s \in barSearches : SearchFires(s) \/ SearchLands(s)
    /\ UNCHANGED <<aiVars, panelVars>>

-----------------------------------------------------------------------------
(* The dialog of the AI search. *)

\* useQuery for the debounced text: a GET starts if there is no answer yet.
Enabled(a) == a.open /\ a.debounced # Blank
FetchIfNeeded(a) ==
    found' = IF Enabled(a) /\ found[a.debounced] \in {"absent", "failed"}
             THEN [found EXCEPT ![a.debounced] = "asked"] ELSE found

\* The text survives the closing of the dialog.
onOpenChange ==
    /\ ai' = [ai EXCEPT !.open = ~@]
    /\ FetchIfNeeded(ai')

setQuery(text) ==
    /\ ai.open /\ text # ai.query
    /\ ai' = [ai EXCEPT !.query = text] /\ UNCHANGED found

\* The timer of useDebounce; it runs on after the dialog has closed.
useDebounce ==
    /\ ai.debounced # ai.query
    /\ ai' = [ai EXCEPT !.debounced = ai.query]
    /\ FetchIfNeeded(ai')

searchAI(w) ==
    /\ found[w] = "asked"
    /\ \E st \in {"ok", "failed"} : found' = [found EXCEPT ![w] = st]
    /\ UNCHANGED ai

\* Coming back to the window asks again for what failed.
onFocus ==
    /\ Enabled(ai) /\ found[ai.debounced] = "failed"
    /\ FetchIfNeeded(ai) /\ UNCHANGED ai

\* What the dialog shows; "nothing" is the line "No results found for" query.
AISearchView ==
    LET answered == ai.debounced # Blank /\ found[ai.debounced] = "ok"
        loading == Enabled(ai) /\ found[ai.debounced] = "asked"
    IN IF loading THEN "loading"
       ELSE IF ai.query = Blank THEN "prompt"
       ELSE IF ~answered THEN "nothing"
       ELSE IF FoundIn[ai.debounced] = {} THEN "nothing" ELSE "list"

AISearchDialog ==
    /\ \/ onOpenChange \/ useDebounce \/ onFocus
       \/ \E t \in BarTexts : setQuery(t)
       \/ \E w \in Words : searchAI(w)
    /\ UNCHANGED <<barVars, panelVars>>

-----------------------------------------------------------------------------
(* The side panels. *)

\* A wide screen draws the panel by open, a narrow one a sheet by openMobile.
Sidebar == IF isMobile THEN panel["sidebar"].openMobile ELSE panel["sidebar"].open
Infobar == IF isMobile THEN panel["infobar"].openMobile ELSE panel["infobar"].open

Shown(p) == IF p = "sidebar" THEN Sidebar ELSE Infobar

\* Mutant: the info bar's state for narrow screens is not kept in step.
mut_OnlyTheWideOne(p, mobile, value) ==
    IF p = "sidebar" /\ mobile THEN [panel[p] EXCEPT !.openMobile = value]
    ELSE [panel[p] EXCEPT !.open = value]

\* The sidebar keeps one state for each width; the info bar's open follows
\* both, and its openMobile follows it on a narrow screen.
setOpen(p, mobile, value) ==
    CASE p = "sidebar" /\ mobile -> [panel[p] EXCEPT !.openMobile = value]
      [] p = "infobar" /\ mobile -> [open |-> value, openMobile |-> value]
      [] OTHER -> [panel[p] EXCEPT !.open = value]

\* A toggle reads openMobile for the sidebar on a narrow screen, else open.
Toggled(p, mobile) ==
    IF p = "sidebar" /\ mobile THEN ~panel[p].openMobile ELSE ~panel[p].open

\* A click or a key, once the effects have run.
toggle(p) ==
    /\ seen = isMobile
    /\ panel' = [panel EXCEPT ![p] = setOpen(p, isMobile, Toggled(p, isMobile))]
    /\ raced' = raced \ {p}
    /\ UNCHANGED <<isMobile, seen>>

\* The sheet of a narrow screen is closed from within.
Dismiss(p) ==
    /\ seen = isMobile /\ isMobile /\ panel[p].openMobile
    /\ panel' = [panel EXCEPT ![p] = setOpen(p, TRUE, FALSE)]
    /\ raced' = raced \ {p}
    /\ UNCHANGED <<isMobile, seen>>

\* The window crosses the breakpoint; the effects follow in a moment.
useIsMobile ==
    /\ seen = isMobile /\ isMobile' = ~isMobile
    /\ UNCHANGED <<panel, seen, raced>>

\* The info bar's effect carries what was shown over to the new width.
Reconciled(bars) ==
    [bars EXCEPT !["infobar"] =
        IF isMobile THEN [@ EXCEPT !.openMobile = panel["infobar"].open]
        ELSE [@ EXCEPT !.open = panel["infobar"].openMobile]]

ReconcileEffect ==
    /\ seen # isMobile /\ seen' = isMobile
    /\ panel' = Reconciled(panel) /\ raced' = raced \ {"infobar"}
    /\ UNCHANGED isMobile

\* A key in that moment meets the handler of the width before, and the
\* effect, which runs next, goes by the state before the key.
handleKeyDown(p) ==
    /\ seen # isMobile /\ seen' = isMobile
    /\ panel' = Reconciled([panel EXCEPT ![p] = setOpen(p, seen, Toggled(p, seen))])
    /\ raced' = (raced \ {"infobar"}) \cup {p}
    /\ UNCHANGED isMobile

SidePanels ==
    /\ \/ \E p \in Panels : toggle(p) \/ Dismiss(p) \/ handleKeyDown(p)
       \/ useIsMobile \/ ReconcileEffect
    /\ UNCHANGED <<barVars, aiVars>>

ShellNext ==
    \/ page = "commandBar" /\ CommandBar
    \/ page = "aiSearch" /\ AISearchDialog
    \/ page = "panels" /\ SidePanels

-----------------------------------------------------------------------------
(* At rest, what a search shows belongs to the text that is typed.  The    *)
(* command bar offers the matches for it, from all the sources that did    *)
(* not fail, whatever order earlier searches were answered in; and the AI  *)
(* search denies having a match only when there is none or the GET failed. *)
(* Before the quarter second of the debounce is over it may deny at once.  *)
SettledSearchesAreOwn ==
    /\ (\A s \in barSearches : s.cancelled) =>
          results = IF barText = Blank THEN EMPTY_RESULTS
                    ELSE SearchResults(barText, SourceSet \ missed)
    /\ (ai.open /\ ai.query = ai.debounced /\ AISearchView = "nothing") =>
          FoundIn[ai.query] = {} \/ found[ai.query] = "failed"

(* A press of a panel's button or key shows or hides the panel, through    *)
(* any changes of width, unless an earlier press fell into the moment      *)
(* between a change of width and the effects that follow it.               *)
EveryPressShows ==
    [][\A p \in Panels : toggle(p) /\ p \notin raced => Shown(p)' # Shown(p)]_shellVars
=============================================================================
