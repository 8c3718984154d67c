----------------------------- MODULE BffRoutes -----------------------------
(***************************************************************************)
(* The route handlers under app/api: what stands between the browser and   *)
(* the backend.  A handler is a plan of steps, each of which may answer    *)
(* early.  It reads the session cookie once; the backend may end the       *)
(* session, drop the user from the workspace or become unreachable between *)
(* any two of its fetches.                                                 *)
(*                                                                         *)
(* A request is served by one handler at a time, for one browser.          *)
(***************************************************************************)
EXTENDS Naturals, Sequences

CONSTANTS
    Tokens, None,   \* values of the session_token cookie; no cookie
    Things          \* what the tracked requests make: a workspace, an invite, ...

VARIABLES
    cookie,         \* the browser's session_token
    live,           \* the sessions the backend accepts
    up,             \* can the backend be reached
    account,        \* is the user's account open
    joined,         \* is the user in a workspace of somebody else
    stored,         \* the things that are there: the account's workspace, and of the
                    \* workspace that requests go to the invites and the pages
    req             \* the request being served, or NoRequest


-----------------------------------------------------------------------------
(* The handlers                                                            *)

\* An answer is "data", or one of the 200s that carry no backend data ("empty"
\* and "seeded"), or an error status.
Plan(steps, signedOut, noWorkspace) ==
    [steps |-> steps, signedOut |-> signedOut, noWorkspace |-> noWorkspace,
     refusedLookup |-> noWorkspace,     \* the answer when /workspaces is not ok
     malformed |-> "400", notFound |-> "refused"]

\* A GET that answers an empty list to whoever has no session or workspace; a
\* handler that answers 401 and 404 to them.
Listing(steps) == Plan(steps, "empty", "empty")
Guarded(steps) == Plan(steps, "401", "404")

projects_GET == Listing(<<"cookie", "workspace", "read">>)
projects_POST == Guarded(<<"cookie", "workspace", "write", "relist">>)
projects_PATCH == Guarded(<<"cookie", "body", "workspace", "write", "relist">>)
projects_DELETE == Guarded(<<"cookie", "body", "workspace", "write", "relist">>)

tasks_GET == Listing(<<"cookie", "workspace", "body", "read">>)
tasks_POST == Guarded(<<"cookie", "body", "write">>)
tasks_PATCH == Guarded(<<"cookie", "body", "write">>)
tasks_DELETE == Guarded(<<"cookie", "body", "write">>)
tasks_mine_GET == Listing(<<"cookie", "read">>)

channels_GET == Listing(<<"cookie", "workspace", "read">>)
channels_POST == Guarded(<<"cookie", "workspace", "write">>)
dms_GET == Listing(<<"cookie", "workspace", "read">>)
dms_POST == Plan(<<"cookie", "workspace", "write">>, "401", "401")
messages_GET == Listing(<<"cookie", "read">>)
messages_POST == Guarded(<<"cookie", "write">>)
reactions_POST == Guarded(<<"cookie", "write">>)

events_GET == Listing(<<"cookie", "workspace", "read">>)
events_POST == Guarded(<<"cookie", "workspace", "write">>)
activity_GET == Listing(<<"cookie", "workspace", "read">>)
notifications_GET == Listing(<<"cookie", "read">>)
notifications_PATCH == Guarded(<<"cookie", "body", "write">>)
notifications_POST == Guarded(<<"cookie", "body", "write">>)

files_GET == Listing(<<"cookie", "workspace", "read">>)
files_POST == Guarded(<<"cookie", "workspace", "body", "write">>)
file_PATCH == Guarded(<<"cookie", "write">>)
file_DELETE == Guarded(<<"cookie", "write">>)

\* The pages built in answer for the wiki's list, also when the backend has no
\* such workspace.
pages_GET == [Plan(<<"cookie", "workspace", "read">>, "seeded", "seeded")
                 EXCEPT !.notFound = "seeded"]
pages_POST == Guarded(<<"cookie", "workspace", "write">>)
page_GET == Guarded(<<"cookie", "workspace", "read">>)
page_PATCH == Guarded(<<"cookie", "workspace", "write">>)
page_DELETE == Guarded(<<"cookie", "workspace", "write">>)
history_GET == Guarded(<<"cookie", "workspace", "read">>)
history_POST == Guarded(<<"cookie", "workspace", "body", "write">>)
backlinks_GET == [Guarded(<<"cookie", "workspace", "read">>) EXCEPT !.refusedLookup = "401"]

presence_GET == Guarded(<<"cookie", "workspace", "read">>)
presence_me_POST == Guarded(<<"cookie", "workspace", "body", "write">>)
ai_summarize_POST == Guarded(<<"cookie", "read">>)
ai_search_GET == [Listing(<<"cookie", "body", "read">>) EXCEPT !.malformed = "empty"]

workspace_POST == Guarded(<<"cookie", "write">>)
workspace_current_GET == Listing(<<"cookie", "workspace">>)
audit_log_GET == [Plan(<<"cookie", "workspace", "read">>, "401", "empty")
                     EXCEPT !.refusedLookup = "401"]

\* The handlers with seeded arrays ask whether the backend is wired, which no
\* cookie also is not.
members_GET == Plan(<<"wired", "workspace", "read">>, "seeded", "seeded")
members_PATCH == Guarded(<<"body", "wired", "workspace", "write", "relist">>)
invites_GET == Plan(<<"wired", "workspace", "read">>, "seeded", "seeded")
invites_POST == Guarded(<<"body", "wired", "workspace", "write", "relist">>)
invites_PATCH == Guarded(<<"body", "wired", "workspace", "write", "relist">>)
invites_DELETE == Guarded(<<"body", "wired", "workspace", "write", "relist">>)

account_GET == Guarded(<<"cookie", "read">>)
account_DELETE == Guarded(<<"cookie", "body", "write">>)
auth_me_GET == Guarded(<<"cookie", "read">>)
session_POST == Guarded(<<"body", "login">>)
session_DELETE == Guarded(<<"logout">>)
session_PATCH == Guarded(<<"cookie", "logout-all">>)

\* The routes the pages call in the ordinary course, by name.
PageRoutes ==
    [projects_GET |-> projects_GET, projects_POST |-> projects_POST,
     projects_PATCH |-> projects_PATCH, projects_DELETE |-> projects_DELETE,
     tasks_GET |-> tasks_GET, tasks_POST |-> tasks_POST, tasks_PATCH |-> tasks_PATCH,
     tasks_DELETE |-> tasks_DELETE, tasks_mine_GET |-> tasks_mine_GET,
     channels_GET |-> channels_GET, channels_POST |-> channels_POST,
     dms_GET |-> dms_GET, dms_POST |-> dms_POST, messages_GET |-> messages_GET,
     messages_POST |-> messages_POST, reactions_POST |-> reactions_POST,
     events_GET |-> events_GET, events_POST |-> events_POST, activity_GET |-> activity_GET,
     notifications_GET |-> notifications_GET, notifications_PATCH |-> notifications_PATCH,
     notifications_POST |-> notifications_POST, files_GET |-> files_GET,
     files_POST |-> files_POST, file_PATCH |-> file_PATCH, file_DELETE |-> file_DELETE,
     pages_GET |-> pages_GET, pages_POST |-> pages_POST, page_GET |-> page_GET,
     page_PATCH |-> page_PATCH, page_DELETE |-> page_DELETE, history_GET |-> history_GET,
     history_POST |-> history_POST, backlinks_GET |-> backlinks_GET,
     presence_GET |-> presence_GET, presence_me_POST |-> presence_me_POST,
     ai_summarize_POST |-> ai_summarize_POST, ai_search_GET |-> ai_search_GET,
     workspace_current_GET |-> workspace_current_GET, audit_log_GET |-> audit_log_GET,
     members_GET |-> members_GET, members_PATCH |-> members_PATCH,
     invites_GET |-> invites_GET, invites_POST |-> invites_POST,
     invites_PATCH |-> invites_PATCH, invites_DELETE |-> invites_DELETE,
     account_GET |-> account_GET, auth_me_GET |-> auth_me_GET]

\* The routes with an effect of their own.
OwnRoutes ==
    [workspace_POST |-> workspace_POST, account_DELETE |-> account_DELETE,
     session_POST |-> session_POST, session_DELETE |-> session_DELETE,
     session_PATCH |-> session_PATCH]

RouteNames == DOMAIN PageRoutes \cup DOMAIN OwnRoutes
RouteOf(name) == IF name \in DOMAIN PageRoutes THEN PageRoutes[name] ELSE OwnRoutes[name]

Writes(name) == \E i \in DOMAIN RouteOf(name).steps : RouteOf(name).steps[i] = "write"

-----------------------------------------------------------------------------
(* A request                                                               *)

NoRequest == [route |-> None]
Answers == {"none", "data", "empty", "seeded", "400", "401", "404", "refused", "500", "502"}

\* what is the thing the request makes, None for one that is not tracked; cookie
\* is what the handler read of it; unwired says that isBackendWired said no.  fine
\* is history: the backend was up, the session accepted and the user in a workspace
\* ever since the request was made.
Request == [route : RouteNames, what : Things \cup {None}, cookie : Tokens \cup {None},
            wellFormed : BOOLEAN, at : 1..5, answer : Answers,
            committed : BOOLEAN, granted : Tokens \cup {None}, clears : BOOLEAN,
            unwired : BOOLEAN, fine : BOOLEAN]

Idle == req = NoRequest
Pending == ~Idle /\ req.answer = "none"
Answered == ~Idle /\ req.answer # "none"

Workspaces == (IF joined THEN 1 ELSE 0) + (IF "workspace" \in stored THEN 1 ELSE 0)
Fine == up /\ Workspaces > 0

Ask(name, what, wellFormed) ==
    req' = [route |-> name, what |-> what, cookie |-> cookie, wellFormed |-> wellFormed,
            at |-> 1, answer |-> "none", committed |-> FALSE, granted |-> None,
            clears |-> FALSE, unwired |-> FALSE, fine |-> Fine /\ cookie \in live]

Step == RouteOf(req.route).steps[req.at]
At(step) == Pending /\ Step = step

WithAnswer(r, a) == [r EXCEPT !.answer = a]
\* On to the next step; a handler that has none left answers what it has read.
Onward(r) ==
    IF r.at = Len(RouteOf(r.route).steps) THEN WithAnswer(r, "data") ELSE [r EXCEPT !.at = @ + 1]

Accepted == req.cookie \in live

backend == <<live, account, joined, stored>>

getSessionCookie ==
    /\ At("cookie")
    /\ req' = IF req.cookie = None THEN WithAnswer(req, RouteOf(req.route).signedOut)
                                   ELSE Onward(req)
    /\ UNCHANGED <<cookie, up, backend>>

checkBody ==
    /\ At("body")
    /\ req' = IF req.wellFormed THEN Onward(req) ELSE WithAnswer(req, RouteOf(req.route).malformed)
    /\ UNCHANGED <<cookie, up, backend>>

\* The seeded arrays stand in for a backend that cannot be reached or that does
\* not accept the session; a write edits them, for as long as the process lives, and
\* is answered like any other.
isBackendWired ==
    /\ At("wired")
    /\ req' = IF up /\ Accepted THEN Onward(req)
              ELSE [WithAnswer(req, "seeded") EXCEPT !.unwired = TRUE]
    /\ UNCHANGED <<cookie, up, backend>>

\* fetch throws when the backend is down, which no handler below session_POST
\* catches: Next answers 500.
getCurrentWorkspaceId ==
    /\ At("workspace")
    /\ req' = IF ~up THEN WithAnswer(req, "500")
              ELSE IF ~Accepted THEN WithAnswer(req, RouteOf(req.route).refusedLookup)
              ELSE IF Workspaces = 0 THEN WithAnswer(req, RouteOf(req.route).noWorkspace)
              ELSE Onward(req)
    /\ UNCHANGED <<cookie, up, backend>>

\* Mutant: whatever goes wrong with a read is an empty list.
mut_RefusedReadIsEmpty ==
    /\ At("read")
    /\ \/ (~up \/ ~Accepted) /\ req' = WithAnswer(req, "401")
       \/ up /\ Accepted /\ req' \in {Onward(req), WithAnswer(req, "empty")}
    /\ UNCHANGED <<cookie, up, backend>>

\* The backend serves the call and answers, or its answer is lost on the way.
readBackend ==
    /\ At("read")
    /\ \/ ~up /\ req' = WithAnswer(req, "500")
       \/ up /\ ~Accepted /\ req' = WithAnswer(req, "401")
       \/ up /\ Accepted /\ req' \in {Onward(req), WithAnswer(req, "refused"),
                                      WithAnswer(req, RouteOf(req.route).notFound)}
    /\ UNCHANGED <<cookie, up, backend>>

\* Mutant: the pending invites are not searched for the email.
mut_InvitesAreNotUnique(what) == what = "page" /\ what \in stored

\* Surely refused: a second pending invite of one address to a workspace, a
\* second page of one slug in it.  A workspace is refused for its slug as well, but
\* the name can be changed after an error; nothing keeps projects apart.
Refusable(what) == what \in {"invite1", "invite2", "page"} /\ what \in stored

\* Projects are not kept: nothing is refused for there being one.
StoreThing(what) == stored' = stored \cup ({what} \ {None, "project"})

Closes == req.route = "account_DELETE"
CloseAccount == account' = FALSE /\ live' = {} /\ joined' = FALSE /\ stored' = {}

\* Mutant: the handler does not look at the status of the answer.
mut_StatusUnread ==
    /\ At("write") /\ up
    /\ IF Accepted /\ ~Refusable(req.what)
       THEN /\ StoreThing(req.what)
            /\ req' = Onward([req EXCEPT !.committed = TRUE])
       ELSE UNCHANGED stored /\ req' = Onward(req)
    /\ UNCHANGED <<cookie, up, live, account, joined>>

\* Any call may be refused: for its values, for the user's role, for a limit.  The
\* account's deletion ends its sessions and memberships.
writeBackend ==
    /\ At("write")
    /\ \/ /\ req' = WithAnswer(req, IF ~up THEN "500" ELSE IF ~Accepted THEN "401" ELSE "refused")
          /\ UNCHANGED backend
       \/ /\ up /\ Accepted /\ req.wellFormed /\ ~Refusable(req.what)
          /\ LET kept == [req EXCEPT !.committed = TRUE]
             IN  req' \in {[Onward(kept) EXCEPT !.clears = Closes], WithAnswer(kept, "500")}
          /\ IF Closes THEN CloseAccount
             ELSE StoreThing(req.what) /\ UNCHANGED <<account, live, joined>>
    /\ UNCHANGED <<cookie, up>>

\* The list after the write, empty when the backend does not give it.
relist ==
    /\ At("relist")
    /\ \/ ~up /\ req' = WithAnswer(req, "500")
       \/ up /\ Accepted /\ req' = Onward(req)
       \/ up /\ req' = WithAnswer(req, "empty")
    /\ UNCHANGED <<cookie, up, backend>>

-----------------------------------------------------------------------------
(* The session routes                                                      *)

\* proxyAuth: a new session is granted, unless the backend's answer is lost.
proxyAuth ==
    /\ At("login")
    /\ \/ ~up /\ req' = WithAnswer(req, "502") /\ UNCHANGED <<live, account>>
       \/ up /\ req' = WithAnswer(req, "refused") /\ UNCHANGED <<live, account>>
       \/ \E t \in Tokens \ (live \cup {cookie}) :
            /\ up /\ live' = live \cup {t} /\ account' = TRUE
            /\ req' \in {[WithAnswer(req, "data") EXCEPT !.granted = t, !.committed = TRUE],
                         [WithAnswer(req, "502") EXCEPT !.committed = TRUE]}
    /\ UNCHANGED <<cookie, up, joined, stored>>

\* Whatever the backend says, the cookie is cleared.
logout ==
    /\ At("logout")
    /\ live' = IF up THEN live \ {req.cookie} ELSE live
    /\ req' = [WithAnswer(req, "data") EXCEPT !.clears = TRUE]
    /\ UNCHANGED <<cookie, up, account, joined, stored>>

logoutAll ==
    /\ At("logout-all")
    /\ live' = IF up /\ Accepted THEN {} ELSE live
    /\ req' = [WithAnswer(req, "data") EXCEPT !.clears = TRUE]
    /\ UNCHANGED <<cookie, up, account, joined, stored>>

-----------------------------------------------------------------------------
Serve == \/ getSessionCookie \/ checkBody \/ isBackendWired \/ getCurrentWorkspaceId
         \/ readBackend \/ writeBackend \/ relist \/ proxyAuth \/ logout \/ logoutAll

\* Elsewhere: the backend stops and starts; a session expires or is ended by
\* another device; the user is let into a workspace or removed from it; an invite is
\* accepted, cancelled or expires, a page is deleted.  Requests go to the first
\* workspace listed, in no particular order: with another one they may go to another.
Meanwhile ==
    /\ UNCHANGED <<cookie, account>>
    /\ req' = IF Pending THEN [req EXCEPT !.fine = @ /\ Fine' /\ req.cookie \in live'] ELSE req

BackendStops == up /\ up' = FALSE /\ UNCHANGED <<live, joined, stored>> /\ Meanwhile
BackendStarts == ~up /\ up' = TRUE /\ UNCHANGED <<live, joined, stored>> /\ Meanwhile
SessionEnds ==
    \E t \in live : live' = live \ {t} /\ UNCHANGED <<up, joined, stored>> /\ Meanwhile

InAnotherWorkspace == stored \cap {"workspace"}
MembershipChanges ==
    /\ account /\ joined' = ~joined /\ stored' \in {stored, InAnotherWorkspace}
    /\ UNCHANGED <<up, live>> /\ Meanwhile
ListedInAnotherOrder ==
    /\ Workspaces > 1 /\ stored' = InAnotherWorkspace
    /\ UNCHANGED <<up, live, joined>> /\ Meanwhile
ThingLapses ==
    /\ \E t \in stored \ {"workspace"} : stored' = stored \ {t}
    /\ UNCHANGED <<up, live, joined>> /\ Meanwhile

Outside == \/ BackendStops \/ BackendStarts \/ SessionEnds
           \/ MembershipChanges \/ ListedInAnotherOrder \/ ThingLapses

-----------------------------------------------------------------------------
(* Properties                                                              *)

BffTypeOK ==
    /\ cookie \in Tokens \cup {None} /\ live \subseteq Tokens
    /\ up \in BOOLEAN /\ account \in BOOLEAN /\ joined \in BOOLEAN
    /\ stored \subseteq Things
    /\ req \in {NoRequest} \cup Request
    /\ ~Idle => req.at \in DOMAIN RouteOf(req.route).steps

\* What the page is told of a write is what became of it: a write answered with
\* success is stored, unless the handler found the backend not wired and edited its
\* seeded arrays; one answered with an error is not, unless the error is the 500 of
\* an answer lost on the way, on the call or on the relisting after it.
AcknowledgedMeansStored ==
    Answered /\ Writes(req.route) =>
        /\ req.answer \in {"data", "empty", "seeded"} => req.committed \/ req.unwired
        /\ req.committed => req.answer \in {"data", "empty", "500"}

\* An empty list, built-in rows, a 401 or a 404 are never given to a session that was
\* accepted, in a workspace and in reach of the backend throughout, except as the
\* list after a write, for a blank search, or for wiki pages the backend has not.
HealthySessionsSeeTheBackend ==
    Answered /\ req.fine /\ req.answer \in {"empty", "seeded", "401", "404"} =>
        \/ req.committed
        \/ req.route = "ai_search_GET" /\ ~req.wellFormed
        \/ req.route = "pages_GET" /\ req.answer = "seeded"
=============================================================================
