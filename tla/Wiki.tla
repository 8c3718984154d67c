-------------------------------- MODULE Wiki --------------------------------
(***************************************************************************)
(* The wiki: a list with a debounced search, and one viewer that shows the *)
(* page selected.  The viewer keeps an AI summary and a version history of *)
(* its own; React keeps both while one page replaces another and throws    *)
(* them away when a skeleton or an empty card takes the viewer's place.    *)
(*                                                                         *)
(* A page's content is the number of restores it has seen: nobody else     *)
(* edits here, so whatever the cache has wrong it has wrong by itself.     *)
(***************************************************************************)
EXTENDS Pages, Integers, Functions, Sequences, QueryEntry

CONSTANTS Wikis,        \* the pages of the workspace
          AllWikis,     \* GET /api/pages: a sequence
          FoundWikis,   \* what the search in this visit finds
          NoWiki,
          MaxRestores,  \* bound: restores of one visit
          MaxSearches   \* bound: how often the search text is set or cleared

ASSUME WikiAssumption ==
    /\ NoWiki \notin Wikis
    /\ AllWikis \in Seq(Wikis) /\ FoundWikis \in Seq(Wikis)

VARIABLES content,   \* page -> its revision at the server
          details,   \* page -> its entry in the query cache
          lists,     \* the list and the search: "loading", "here" or "failed"
          searches,  \* how often the search text was set or cleared
          term,      \* debouncedSearch is not empty
          chosen,    \* selectedId
          first,     \* the memoised default: the first page listed
          viewer,    \* AISummaryCard's and PageHistorySheet's state
          restores,  \* the restores under way
          asked,     \* how many restores were asked for
          fresh,     \* history: the viewer was mounted for the page it shows
          astray     \* history: restored pages whose answer went elsewhere

wikiVars == <<content, details, lists, searches, term, chosen, first, viewer, restores, asked, fresh, astray>>

Known == 0..MaxRestores \cup {NoWiki}
PageOrNone == Wikis \cup {NoWiki}
NoViewer == [open |-> FALSE, preview |-> NoWiki, summary |-> NoWiki, asking |-> NoWiki, failed |-> FALSE]

WikiTypeOK ==
    /\ content \in [Wikis -> 0..MaxRestores] /\ asked \in 0..MaxRestores
    /\ details \in [Wikis -> Entry(Known)]
    /\ lists \in [{"list", "search"} -> {"loading", "here", "failed"}]
    /\ searches \in 0..MaxSearches
    /\ {term, fresh} \subseteq BOOLEAN
    /\ chosen \in PageOrNone /\ first \in PageOrNone
    /\ viewer \in [open : BOOLEAN, preview : PageOrNone, summary : PageOrNone,
                   asking : PageOrNone, failed : BOOLEAN]
    /\ restores \subseteq [n : 1..MaxRestores, page : Wikis, tell : Wikis, here : BOOLEAN,
                           st : {"sent", "stored"}]
    /\ astray \subseteq Wikis

-----------------------------------------------------------------------------
(* What is on screen. *)

\* searchQuery is not empty.
typed == searches % 2 = 1

Listing == IF term THEN "search" ELSE "list"
displayedPages == IF lists[Listing] # "here" THEN <<>> ELSE IF term THEN FoundWikis ELSE AllWikis

selectedPageId == IF chosen # NoWiki THEN chosen ELSE first

\* A page that is cached is drawn even while it is fetched again.
PageViewer ==
    IF selectedPageId = NoWiki THEN "empty"
    ELSE IF details[selectedPageId].data # NoWiki THEN "page"
    ELSE IF Fetching(details[selectedPageId]) THEN "skeleton" ELSE "empty"

\* The sidebar is drawn once the list asked for is there.  The sheet is modal.
WikiSidebar == lists[Listing] # "loading" /\ ~viewer.open

\* Mutant: its state is kept above the skeleton.
mut_SkeletonKeepsTheViewer(v) == v

\* What the viewer keeps when a skeleton or an empty card replaces it.
Unmounted(v) == NoViewer

\* Rendering: pending restores see the page now shown, as each render hands
\* its callbacks to the mutation; a viewer that is gone hands nothing more.
Render(v, rs) ==
    LET drawn == PageViewer' = "page" IN
    /\ viewer' = IF drawn THEN v ELSE Unmounted(v)
    /\ restores' = {IF drawn /\ r.here THEN [r EXCEPT !.tell = selectedPageId']
                    ELSE [r EXCEPT !.here = FALSE] : r \in rs}
    /\ fresh' = (drawn /\ (PageViewer # "page" \/ (fresh /\ selectedPageId' = selectedPageId)))

\* Showing a page asks for it: surely if the cache has none or an invalid
\* one, perhaps (it is a minute old) otherwise.
NeedsGet(p) == details[p].data = NoWiki \/ details[p].invalid
pageQuery(p, old) ==
    IF p = NoWiki \/ p = old THEN UNCHANGED details
    ELSE \/ details' = [details EXCEPT ![p] = IF Fetching(@) THEN @ ELSE Ask(@)]
         \/ ~NeedsGet(p) /\ UNCHANGED details

\* The default changes only with the number of pages listed.
Relisted ==
    first' = IF Len(displayedPages') = Len(displayedPages) THEN first
             ELSE IF displayedPages' = <<>> THEN NoWiki ELSE displayedPages'[1]

WikiInit ==
    /\ content = [p \in Wikis |-> 0]
    /\ details = [p \in Wikis |-> NewEntry(NoWiki)]
    /\ lists = [q \in {"list", "search"} |-> "loading"]
    /\ searches = 0 /\ term = FALSE /\ chosen = NoWiki /\ first = NoWiki
    /\ viewer = NoViewer /\ restores = {} /\ asked = 0
    /\ fresh = FALSE /\ astray = {}

-----------------------------------------------------------------------------
(* The list and its search. *)

\* The list, or the search's results, arrive or fail.
ListAnswers(result) ==
    /\ lists[Listing] = "loading"
    /\ lists' = [lists EXCEPT ![Listing] = result]
    /\ UNCHANGED <<content, searches, term, chosen, asked, astray>>
    /\ Relisted
    /\ pageQuery(selectedPageId', selectedPageId)
    /\ Render(viewer, restores)

TypeSearch ==
    /\ WikiSidebar
    /\ searches < MaxSearches /\ searches' = searches + 1
    /\ UNCHANGED <<content, details, lists, term, chosen, first, viewer, restores, asked, fresh, astray>>

\* 250 ms without a key: the list shown changes under the selection.
DebounceFires ==
    /\ term # typed /\ term' = typed
    /\ UNCHANGED <<content, lists, searches, chosen, asked, astray>>
    /\ Relisted
    /\ pageQuery(selectedPageId', selectedPageId)
    /\ Render(viewer, restores)

\* A click on a page listed, on a recent one, or on a backlink of the page shown.
onSelect(p) ==
    /\ ~viewer.open
    /\ \/ WikiSidebar /\ (~typed \/ p \in Range(displayedPages))
       \/ PageViewer = "page"
    /\ chosen' = p
    /\ UNCHANGED <<content, lists, searches, term, first, asked, astray>>
    /\ pageQuery(p, selectedPageId)
    /\ Render(viewer, restores)

-----------------------------------------------------------------------------
(* One page's GET. *)

DetailReads(p) ==
    /\ details[p].get = "asked"
    /\ details' = [details EXCEPT ![p] = Answer(@, content[p])]
    /\ UNCHANGED <<content, lists, searches, term, chosen, first, viewer, restores, asked, fresh, astray>>

\* It lands, or is given up.
DetailAnswers(p) ==
    /\ \/ details[p].get = "read" /\ details' = [details EXCEPT ![p] = Land(@)]
       \/ Fetching(details[p]) /\ details' = [details EXCEPT ![p] = Lose(@)]
    /\ UNCHANGED <<content, lists, searches, term, chosen, first, asked, astray>>
    /\ Render(viewer, restores)

-----------------------------------------------------------------------------
(* The summary. *)

\* Summarize when idle, Regenerate once there is one; after a first attempt
\* that failed the card offers neither.
Summarize ==
    /\ PageViewer = "page" /\ ~viewer.open
    /\ viewer.asking = NoWiki /\ (viewer.summary # NoWiki \/ ~viewer.failed)
    /\ viewer' = [viewer EXCEPT !.asking = selectedPageId, !.failed = FALSE]
    /\ UNCHANGED <<content, details, lists, searches, term, chosen, first, restores, asked, fresh, astray>>

\* The answer is shown whichever page is on screen by then.
SummaryAnswers ==
    /\ viewer.asking # NoWiki
    /\ \/ viewer' = [viewer EXCEPT !.asking = NoWiki, !.summary = viewer.asking]
       \/ viewer' = [viewer EXCEPT !.asking = NoWiki, !.failed = TRUE]
    /\ UNCHANGED <<content, details, lists, searches, term, chosen, first, restores, asked, fresh, astray>>

-----------------------------------------------------------------------------
(* The version history. *)

SetOpen ==
    /\ PageViewer = "page"
    /\ viewer' = [viewer EXCEPT !.open = ~@]
    /\ UNCHANGED <<content, details, lists, searches, term, chosen, first, restores, asked, fresh, astray>>

PreviewVersion ==
    /\ viewer.open
    /\ viewer' = [viewer EXCEPT !.preview = selectedPageId]
    /\ UNCHANGED <<content, details, lists, searches, term, chosen, first, restores, asked, fresh, astray>>

\* The version previewed may be another page's: its number goes to this page.
Restore ==
    /\ viewer.open /\ viewer.preview # NoWiki
    /\ \A r \in restores : ~r.here
    /\ asked < MaxRestores /\ asked' = asked + 1
    /\ restores' = restores \cup {[n |-> asked + 1, page |-> selectedPageId, tell |-> selectedPageId,
                                   here |-> TRUE, st |-> "sent"]}
    /\ UNCHANGED <<content, details, lists, searches, term, chosen, first, viewer, fresh, astray>>

RestoreStored(r) ==
    /\ r.st = "sent"
    /\ content' = [content EXCEPT ![r.page] = @ + 1]
    /\ restores' = (restores \ {r}) \cup {[r EXCEPT !.st = "stored"]}
    /\ UNCHANGED <<details, lists, searches, term, chosen, first, viewer, asked, fresh, astray>>

\* Mutant: only the list is marked.
mut_RefetchesOnlyTheList(p) == details

\* onSuccess marks the page its latest render showed.
invalidateDetail(p) == [details EXCEPT ![p] = Invalidate(@, p = selectedPageId)]

RestoreAnswered(r) ==
    /\ r.st = "stored"
    /\ details' = invalidateDetail(r.tell)
    /\ astray' = IF r.tell = r.page /\ (r.page = selectedPageId \/ ~Fetching(details[r.page]))
                 THEN astray ELSE astray \cup {r.page}
    /\ UNCHANGED <<content, lists, searches, term, chosen, first, asked>>
    /\ Render(IF r.here THEN [viewer EXCEPT !.open = FALSE] ELSE viewer, restores \ {r})

\* Refused (no such version of this page), or the answer is lost.
RestoreFails(r) ==
    /\ restores' = restores \ {r}
    /\ astray' = IF r.st = "stored" THEN astray \cup {r.page} ELSE astray
    /\ UNCHANGED <<content, details, lists, searches, term, chosen, first, viewer, asked, fresh>>

WikiNext ==
    \/ \E result \in {"here", "failed"} : ListAnswers(result)
    \/ TypeSearch \/ DebounceFires
    \/ \E p \in Wikis : onSelect(p) \/ DetailReads(p) \/ DetailAnswers(p)
    \/ Summarize \/ SummaryAnswers \/ SetOpen \/ PreviewVersion \/ Restore
    \/ \E r \in restores : RestoreStored(r) \/ RestoreAnswered(r) \/ RestoreFails(r)

-----------------------------------------------------------------------------
(* A viewer that was mounted for the page it shows holds no other page's   *)
(* summary or version preview, and no request for one: the skeleton of a   *)
(* page not yet cached is what separates them.  Between two cached pages   *)
(* nothing does, and a summary asked on one page may be shown on the next. *)
LeftoversNeedACachedPage ==
    fresh => /\ viewer.summary \in {NoWiki, selectedPageId}
             /\ viewer.preview \in {NoWiki, selectedPageId}
             /\ viewer.asking \in {NoWiki, selectedPageId}

(* With no restore or GET of it under way, a page the cache holds as valid *)
(* shows every restore the visit made of it, unless the restore's answer   *)
(* was lost or came when the viewer already showed another page, which is  *)
(* refetched in its place.  (If the viewer is gone, the restored page is   *)
(* marked, but a GET still under way for it lands and clears the mark.)    *)
RestoredPagesAreRefetched ==
    \A p \in Wikis :
        (/\ details[p].data # NoWiki /\ ~details[p].invalid /\ ~Fetching(details[p])
         /\ p \notin astray /\ \A r \in restores : r.page # p)
        => details[p].data = content[p]
=============================================================================
