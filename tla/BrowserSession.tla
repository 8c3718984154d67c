--------------------------- MODULE BrowserSession ---------------------------
(***************************************************************************)
(* One browser of one user: the pages it is shown or redirected to, the    *)
(* forms that make, end and lose its session, and the onboarding wizard,   *)
(* all over the route handlers of BffRoutes.                               *)
(*                                                                         *)
(* A page is rendered in steps, since the server fetches between them; a   *)
(* page that is shown sends one request at a time and waits for its answer *)
(* before the user goes elsewhere.                                         *)
(***************************************************************************)
EXTENDS BffRoutes

CONSTANT Production     \* NODE_ENV is not "development"

ASSUME BrowserAssumption ==
    /\ Production \in BOOLEAN /\ None \notin Tokens /\ None \notin Things
    /\ {"workspace", "invite1", "invite2", "project", "page"} = Things

VARIABLES
    at,     \* the url asked for and how far its page is
    step,   \* the wizard's step
    visit   \* history of this visit to the wizard: the things it made and has no reason
            \* to make again, and those it made again nevertheless

vars == <<cookie, live, up, account, joined, stored, req, at, step, visit>>

Urls == {"home", "auth", "dashboard", "overview", "onboarding"}
At_(url, phase) == [url |-> url, phase |-> phase]
Go(url) == at' = At_(url, "asked")
Shown(url) == at = At_(url, "shown")
NewVisit == [made |-> {}, again |-> {}]

TypeOK ==
    /\ BffTypeOK
    /\ at \in [url : Urls, phase : {"asked", "render", "user", "shown"}]
    /\ step \in 0..3
    /\ visit \in [made : SUBSET Things, again : SUBSET Things]
    /\ ~Idle => at.phase = "shown"

server == <<cookie, live, up, account, joined, stored, req>>

-----------------------------------------------------------------------------
(* Pages                                                                   *)

\* The guard of /auth/... and /dashboard/... looks at the cookie, not at the session;
\* /dashboard itself, the landing page and the wizard pass it by.
proxy ==
    /\ at.phase = "asked"
    /\ IF at.url = "auth" /\ cookie # None THEN Go("overview")
       ELSE IF at.url = "overview" /\ cookie = None THEN Go("auth")
       ELSE at' = [at EXCEPT !.phase = "render"]
    /\ UNCHANGED <<server, step, visit>>

LandingPage ==
    /\ at = At_("home", "render")
    /\ IF cookie # None THEN Go("overview") ELSE at' = [at EXCEPT !.phase = "shown"]
    /\ UNCHANGED <<server, step, visit>>

SignInPage ==
    /\ at = At_("auth", "render")
    /\ at' = [at EXCEPT !.phase = "shown"]
    /\ UNCHANGED <<server, step, visit>>

\* The backend, asked by a server component; any failure is null.
getCurrentUser == cookie # None /\ up /\ cookie \in live

\* Only a list of workspaces that arrives and is empty sends the user to the wizard.
needsOnboarding == cookie \in live /\ up /\ Workspaces = 0

DashboardLayout ==
    /\ at.url \in {"dashboard", "overview"} /\ at.phase = "render"
    /\ IF needsOnboarding THEN Go("onboarding") ELSE at' = [at EXCEPT !.phase = "user"]
    /\ UNCHANGED <<server, step, visit>>

\* After it, the layout's user: in development one is made up.
DashboardUser ==
    /\ at.phase = "user"
    /\ IF ~getCurrentUser /\ Production THEN Go("auth")
       ELSE IF at.url = "dashboard" THEN Go("overview")
       ELSE at' = [at EXCEPT !.phase = "shown"]
    /\ UNCHANGED <<server, step, visit>>

\* Mutant: the wizard's page asks for a workspace instead of a user.
mut_WizardWantsAWorkspace ==
    /\ at = At_("onboarding", "render")
    /\ IF getCurrentUser /\ Workspaces > 0
       THEN at' = [at EXCEPT !.phase = "shown"] /\ step' = 0 /\ visit' = NewVisit
       ELSE Go("overview") /\ UNCHANGED <<step, visit>>
    /\ UNCHANGED server

OnboardingPage ==
    /\ at = At_("onboarding", "render")
    /\ IF getCurrentUser THEN /\ at' = [at EXCEPT !.phase = "shown"]
                              /\ step' = 0 /\ visit' = NewVisit
                         ELSE Go("auth") /\ UNCHANGED <<step, visit>>
    /\ UNCHANGED server

\* A link, the address bar, a reload.
Visit(url) ==
    /\ at.phase = "shown" /\ Idle /\ Go(url)
    /\ step' = 0 /\ visit' = NewVisit
    /\ UNCHANGED server

Render == \/ proxy \/ LandingPage \/ SignInPage \/ DashboardLayout \/ DashboardUser
          \/ OnboardingPage

-----------------------------------------------------------------------------
(* Requests of the pages                                                   *)

Sends(url) == Shown(url) /\ Idle /\ UNCHANGED <<backend, cookie, up, at, step, visit>>

\* AuthForm: signIn or signUp.  The form's schema has checked the fields.
postAuth == Sends("auth") /\ Ask("session_POST", None, TRUE)

signOut == Sends("overview") /\ Ask("session_DELETE", None, TRUE)
signOutEverywhere == Sends("overview") /\ Ask("session_PATCH", None, TRUE)
handleDelete == Sends("overview") /\ Ask("account_DELETE", None, TRUE)

\* Everything else a page of the dashboard asks for.
PageRequest ==
    /\ Sends("overview")
    /\ \E name \in DOMAIN PageRoutes, wellFormed \in BOOLEAN : Ask(name, None, wellFormed)

\* After an error the name and the addresses may be others.
createWorkspace == Sends("onboarding") /\ step = 0 /\ Ask("workspace_POST", "workspace", TRUE)
sendInvites ==
    Sends("onboarding") /\ step = 1 /\ \E t \in {"invite1", "invite2"} : Ask("invites_POST", t, TRUE)
createProject == Sends("onboarding") /\ step = 2 /\ Ask("projects_POST", "project", TRUE)
createWelcomePage == Sends("onboarding") /\ step = 3 /\ Ask("pages_POST", "page", TRUE)

Skip ==
    /\ Shown("onboarding") /\ Idle /\ step \in {1, 2}
    /\ step' = step + 1
    /\ UNCHANGED <<server, at, visit>>

\* An empty list of invitees is sent with no request at all.
SendsNobody ==
    /\ Shown("onboarding") /\ Idle /\ step = 1
    /\ step' = 2
    /\ UNCHANGED <<server, at, visit>>

-----------------------------------------------------------------------------
(* Answers                                                                 *)

Ok == req.answer \in {"data", "empty", "seeded"}

\* The browser keeps the cookie the answer sets.
SetCookie == cookie' = IF req.granted # None THEN req.granted
                       ELSE IF req.clears THEN None ELSE cookie

\* Is there a reason not to make it a second time: a workspace or a project whose
\* answer has come, an invite or a page that is still there.
MadeForGood(ok) == IF req.what \in {"workspace", "project"} THEN ok ELSE req.what \in stored

\* What became of what the wizard asked for, for the history.
Noted(ok) ==
    visit' = IF req.committed
             THEN [made |-> IF MadeForGood(ok) THEN visit.made \cup {req.what} ELSE visit.made,
                   again |-> visit.again \cup (visit.made \cap {req.what})]
             ELSE visit

Done == req' = NoRequest /\ UNCHANGED <<backend, up>>

\* AuthForm: to the dashboard, or the error is shown.
AuthAnswer(ok) ==
    /\ req.route = "session_POST"
    /\ IF ok THEN Go("dashboard") ELSE UNCHANGED at
    /\ Done /\ UNCHANGED <<step, visit>>

\* The user menu and the sidebar go to the sign-in page whatever became of it.
SignOutAnswer ==
    /\ req.route \in {"session_DELETE", "session_PATCH"}
    /\ Go("auth") /\ Done /\ UNCHANGED <<step, visit>>

AccountAnswer(ok) ==
    /\ req.route = "account_DELETE"
    /\ IF ok THEN Go("auth") ELSE UNCHANGED at
    /\ Done /\ UNCHANGED <<step, visit>>

\* sendInvites asks for one invite after the other and stops at the first error; the
\* next attempt begins with the first of its list again.
InviteAnswer(ok) ==
    /\ req.route = "invites_POST" /\ req.what # None
    /\ IF ok /\ req.what = "invite1"
       THEN Ask("invites_POST", "invite2", TRUE) /\ UNCHANGED <<backend, up, step>>
       ELSE step' = (IF ok THEN 2 ELSE step) /\ Done
    /\ Noted(ok) /\ UNCHANGED at

\* The other steps: on to the next, or the error is shown and the step can be tried
\* again.  The last one leaves for the dashboard.
WizardAnswer(ok) ==
    /\ req.what \in {"workspace", "project", "page"}
    /\ step' = IF ok THEN (step + 1) % 4 ELSE step
    /\ IF ok /\ req.what = "page" THEN Go("overview") ELSE UNCHANGED at
    /\ Noted(ok) /\ Done

PageAnswer ==
    /\ req.what = None /\ req.route \in DOMAIN PageRoutes
    /\ Done /\ UNCHANGED <<at, step, visit>>

Handled(ok) == AuthAnswer(ok) \/ SignOutAnswer \/ AccountAnswer(ok) \/ InviteAnswer(ok)
               \/ WizardAnswer(ok) \/ PageAnswer

Arrives == Answered /\ SetCookie /\ Handled(Ok)
\* The connection to the Next server breaks: fetch throws in the page.
Breaks == Answered /\ UNCHANGED cookie /\ Handled(FALSE)

-----------------------------------------------------------------------------
Init ==
    /\ cookie = None /\ live = {} /\ up = TRUE /\ account = FALSE /\ joined = FALSE
    /\ stored = {} /\ req = NoRequest
    /\ at = At_("home", "asked") /\ step = 0 /\ visit = NewVisit

Client == postAuth \/ signOut \/ signOutEverywhere \/ handleDelete \/ PageRequest
          \/ createWorkspace \/ sendInvites \/ createProject \/ createWelcomePage
          \/ Skip \/ SendsNobody \/ \E url \in Urls : Visit(url)

\* For the history: what is there no more may be made again.
Lapsing == visit' = [visit EXCEPT !.made = @ \ (stored \ stored')]

Next ==
    \/ Render \/ Client \/ Arrives \/ Breaks
    \/ Serve /\ UNCHANGED <<at, step, visit>>
    \/ Outside /\ UNCHANGED <<at, step>> /\ Lapsing

Spec == Init /\ [][Next]_vars

\* A page that is asked for is rendered.
FairSpec == Spec /\ WF_vars(Render)

-----------------------------------------------------------------------------
(* Properties                                                              *)

\* However often its steps are tried again after a failure, one visit to the wizard
\* makes nothing twice without a reason.  For a workspace or a project the reason is
\* an answer that was lost, which nothing tells apart from a refusal; for an invite
\* or the welcome page, that the first one is there no more: the invite accepted,
\* cancelled or expired, the page deleted, or both of them in another workspace, which
\* requests now go to.
WizardNeverRepeatsItself == visit.again = {}

\* The browser comes to rest on some page, unless its cookie is of a session that the
\* backend does not confirm: then the proxy and the layout redirect to each other.
Confirmed == cookie = None \/ getCurrentUser
ComesToRest == <>[]Confirmed => []<>(at.phase = "shown")
=============================================================================
