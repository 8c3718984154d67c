------------------------ MODULE BrowserSessionProofs ------------------------
(***************************************************************************)
(* The browser over the route handlers, for every set of session tokens.   *)
(* First the table: a plan that writes ends at its write or at the         *)
(* relisting after it, and answers whoever it turns away with an error.    *)
(* Then a request, whose record tells at every step what became of its     *)
(* write; and last the pages, where the wizard waits at the step whose     *)
(* request it sent, and what it made for good is behind that step or still *)
(* there.                                                                  *)
(***************************************************************************)
EXTENDS BrowserSession, TLAPS

-----------------------------------------------------------------------------
(* The plans of the handlers.                                              *)

\* A plan that writes stops at its write or at the relisting after it.
ReadsOnly(s) == \A i \in 1..Len(s) : s[i] \notin {"write", "relist"}
WritesLast(s) ==
    /\ s[1] # "relist"
    /\ \A i \in 1..Len(s) :
        /\ s[i] \in {"cookie", "body", "wired", "workspace", "write", "relist"}
        /\ s[i] = "write" => i = Len(s) \/ s[i + 1] = "relist"
        /\ s[i] = "relist" => i = Len(s)
        /\ s[i] \notin {"write", "relist"} => i < Len(s) /\ s[i + 1] # "relist"

\* Whoever is refused by a writing handler is told so.
Refusals == {"400", "401", "404", "refused"}

PlanFields(p) ==
    p \in [steps : {p.steps}, signedOut : Answers \ {"none"}, noWorkspace : Answers \ {"none"},
           refusedLookup : Answers \ {"none"}, malformed : Answers \ {"none"}, notFound : Answers \ {"none"}]

Careful(p) ==
    \/ ReadsOnly(p.steps)
    \/ WritesLast(p.steps) /\ {p.signedOut, p.noWorkspace, p.refusedLookup, p.malformed} \subseteq Refusals

Ordinary(p) == p.malformed = "400" /\ p.notFound = "refused"

WellMade(p) == PlanFields(p) /\ Len(p.steps) \in 1..5 /\ DOMAIN p.steps = 1..Len(p.steps) /\ Careful(p)

\* The step sequences of the table.
ReadSteps ==
    {<<"cookie", "workspace", "read">>, <<"cookie", "workspace", "body", "read">>, <<"cookie", "read">>,
     <<"cookie", "body", "read">>, <<"cookie", "workspace">>, <<"wired", "workspace", "read">>,
     <<"body", "login">>, <<"logout">>, <<"cookie", "logout-all">>}
WriteSteps ==
    {<<"cookie", "workspace", "write", "relist">>, <<"cookie", "body", "workspace", "write", "relist">>,
     <<"cookie", "body", "write">>, <<"cookie", "workspace", "write">>, <<"cookie", "write">>,
     <<"cookie", "workspace", "body", "write">>, <<"body", "wired", "workspace", "write", "relist">>}

ReadStepsFit(s) == Len(s) \in 1..5 /\ DOMAIN s = 1..Len(s) /\ ReadsOnly(s)
WriteStepsFit(s) == Len(s) \in 1..5 /\ DOMAIN s = 1..Len(s) /\ WritesLast(s)

LEMMA StepSequences ==
    /\ \A s \in ReadSteps : ReadStepsFit(s)
    /\ \A s \in WriteSteps : WriteStepsFit(s)
<1>1. ReadStepsFit(<<"cookie", "workspace", "read">>)
  BY DEF ReadStepsFit, ReadsOnly
<1>2. ReadStepsFit(<<"cookie", "workspace", "body", "read">>)
  BY DEF ReadStepsFit, ReadsOnly
<1>3. ReadStepsFit(<<"cookie", "read">>)
  BY DEF ReadStepsFit, ReadsOnly
<1>4. ReadStepsFit(<<"cookie", "body", "read">>)
  BY DEF ReadStepsFit, ReadsOnly
<1>5. ReadStepsFit(<<"cookie", "workspace">>)
  BY DEF ReadStepsFit, ReadsOnly
<1>6. ReadStepsFit(<<"wired", "workspace", "read">>)
  BY DEF ReadStepsFit, ReadsOnly
<1>7. ReadStepsFit(<<"body", "login">>)
  BY DEF ReadStepsFit, ReadsOnly
<1>8. ReadStepsFit(<<"logout">>)
  BY DEF ReadStepsFit, ReadsOnly
<1>9. ReadStepsFit(<<"cookie", "logout-all">>)
  BY DEF ReadStepsFit, ReadsOnly
<1>10. WriteStepsFit(<<"cookie", "workspace", "write", "relist">>)
  BY DEF WriteStepsFit, WritesLast
<1>11. WriteStepsFit(<<"cookie", "body", "workspace", "write", "relist">>)
  BY DEF WriteStepsFit, WritesLast
<1>12. WriteStepsFit(<<"cookie", "body", "write">>)
  BY DEF WriteStepsFit, WritesLast
<1>13. WriteStepsFit(<<"cookie", "workspace", "write">>)
  BY DEF WriteStepsFit, WritesLast
<1>14. WriteStepsFit(<<"cookie", "write">>)
  BY DEF WriteStepsFit, WritesLast
<1>15. WriteStepsFit(<<"cookie", "workspace", "body", "write">>)
  BY DEF WriteStepsFit, WritesLast
<1>16. WriteStepsFit(<<"body", "wired", "workspace", "write", "relist">>)
  BY DEF WriteStepsFit, WritesLast
<1> QED
  BY <1>1, <1>2, <1>3, <1>4, <1>5, <1>6, <1>7, <1>8, <1>9, <1>10, <1>11, <1>12,
     <1>13, <1>14, <1>15, <1>16
     DEF ReadSteps, WriteSteps

PlanOf(s, out, none, lookup, bad, missing) ==
    [steps |-> s, signedOut |-> out, noWorkspace |-> none, refusedLookup |-> lookup,
     malformed |-> bad, notFound |-> missing]

LEMMA PlansWellMade ==
    ASSUME NEW s \in ReadSteps \cup WriteSteps,
           NEW out \in Answers \ {"none"}, NEW none \in Answers \ {"none"},
           NEW lookup \in Answers \ {"none"}, NEW bad \in Answers \ {"none"},
           NEW missing \in Answers \ {"none"},
           s \in ReadSteps \/ {out, none, lookup, bad} \subseteq Refusals
    PROVE  WellMade(PlanOf(s, out, none, lookup, bad, missing))
<1>1. /\ Len(s) \in 1..5 /\ DOMAIN s = 1..Len(s)
      /\ ReadsOnly(s) \/ (WritesLast(s) /\ {out, none, lookup, bad} \subseteq Refusals)
  BY StepSequences DEF ReadStepsFit, WriteStepsFit
<1> DEFINE p == PlanOf(s, out, none, lookup, bad, missing)
<1>2. /\ p.steps = s /\ p.signedOut = out /\ p.noWorkspace = none /\ p.refusedLookup = lookup
      /\ p.malformed = bad /\ p.notFound = missing
  BY DEF PlanOf
<1>3. PlanFields(p)
  BY <1>1 DEF PlanFields, PlanOf
<1>4. WellMade(p)
  <2> HIDE DEF p
  <2> QED
    BY <1>1, <1>2, <1>3 DEF WellMade, Careful
<1> QED
  BY <1>4 DEF p

\* The two forms of a plan: one that lists for whoever is signed out, one that
\* answers 401 and 404.
LEMMA ListingFits ==
    ASSUME NEW s \in ReadSteps
    PROVE  WellMade(Listing(s)) /\ Ordinary(Listing(s))
<1>1. Listing(s) = PlanOf(s, "empty", "empty", "empty", "400", "refused")
  BY DEF Listing, Plan, PlanOf
<1>2. WellMade(Listing(s))
  BY <1>1, PlansWellMade DEF Answers
<1> QED
  BY <1>2 DEF Listing, Plan, Ordinary

LEMMA GuardedFits ==
    ASSUME NEW s \in ReadSteps \cup WriteSteps
    PROVE  WellMade(Guarded(s)) /\ Ordinary(Guarded(s))
<1>1. Guarded(s) = PlanOf(s, "401", "404", "404", "400", "refused")
  BY DEF Guarded, Plan, PlanOf
<1>2. WellMade(Guarded(s))
  BY <1>1, PlansWellMade DEF Answers, Refusals
<1> QED
  BY <1>2 DEF Guarded, Plan, Ordinary

Fits(name, p) ==
    /\ WellMade(p)
    /\ \/ Ordinary(p)
       \/ name = "ai_search_GET" /\ p.malformed = "empty" /\ p.notFound = "refused"
       \/ name = "pages_GET" /\ p.malformed = "400" /\ p.notFound = "seeded"

LEMMA RoutesFit == \A name \in RouteNames : Fits(name, RouteOf(name))
<1>1. /\ Fits("projects_GET", projects_GET)
      /\ Fits("tasks_GET", tasks_GET)
      /\ Fits("tasks_mine_GET", tasks_mine_GET)
      /\ Fits("channels_GET", channels_GET)
      /\ Fits("dms_GET", dms_GET)
      /\ Fits("messages_GET", messages_GET)
      /\ Fits("events_GET", events_GET)
      /\ Fits("activity_GET", activity_GET)
      /\ Fits("notifications_GET", notifications_GET)
      /\ Fits("files_GET", files_GET)
      /\ Fits("workspace_current_GET", workspace_current_GET)
  BY ListingFits
     DEF Fits, ReadSteps,
         projects_GET, tasks_GET, tasks_mine_GET, channels_GET, dms_GET, messages_GET,
         events_GET, activity_GET, notifications_GET, files_GET, workspace_current_GET
<1>2. /\ Fits("projects_POST", projects_POST)
      /\ Fits("projects_PATCH", projects_PATCH)
      /\ Fits("projects_DELETE", projects_DELETE)
      /\ Fits("tasks_POST", tasks_POST)
      /\ Fits("tasks_PATCH", tasks_PATCH)
      /\ Fits("tasks_DELETE", tasks_DELETE)
      /\ Fits("channels_POST", channels_POST)
      /\ Fits("messages_POST", messages_POST)
      /\ Fits("reactions_POST", reactions_POST)
      /\ Fits("events_POST", events_POST)
      /\ Fits("notifications_PATCH", notifications_PATCH)
      /\ Fits("notifications_POST", notifications_POST)
      /\ Fits("files_POST", files_POST)
      /\ Fits("file_PATCH", file_PATCH)
      /\ Fits("file_DELETE", file_DELETE)
  BY GuardedFits
     DEF Fits, ReadSteps, WriteSteps,
         projects_POST, projects_PATCH, projects_DELETE, tasks_POST, tasks_PATCH, tasks_DELETE,
         channels_POST, messages_POST, reactions_POST, events_POST, notifications_PATCH,
         notifications_POST, files_POST, file_PATCH, file_DELETE
<1>3. /\ Fits("pages_POST", pages_POST)
      /\ Fits("page_GET", page_GET)
      /\ Fits("page_PATCH", page_PATCH)
      /\ Fits("page_DELETE", page_DELETE)
      /\ Fits("history_GET", history_GET)
      /\ Fits("history_POST", history_POST)
      /\ Fits("presence_GET", presence_GET)
      /\ Fits("presence_me_POST", presence_me_POST)
      /\ Fits("ai_summarize_POST", ai_summarize_POST)
      /\ Fits("members_PATCH", members_PATCH)
      /\ Fits("invites_POST", invites_POST)
      /\ Fits("invites_PATCH", invites_PATCH)
      /\ Fits("invites_DELETE", invites_DELETE)
      /\ Fits("account_GET", account_GET)
      /\ Fits("auth_me_GET", auth_me_GET)
  BY GuardedFits
     DEF Fits, ReadSteps, WriteSteps,
         pages_POST, page_GET, page_PATCH, page_DELETE, history_GET, history_POST, presence_GET,
         presence_me_POST, ai_summarize_POST, members_PATCH, invites_POST, invites_PATCH,
         invites_DELETE, account_GET, auth_me_GET
<1>4. /\ Fits("workspace_POST", workspace_POST)
      /\ Fits("account_DELETE", account_DELETE)
      /\ Fits("session_POST", session_POST)
      /\ Fits("session_DELETE", session_DELETE)
      /\ Fits("session_PATCH", session_PATCH)
  BY GuardedFits
     DEF Fits, ReadSteps, WriteSteps,
         workspace_POST, account_DELETE, session_POST, session_DELETE, session_PATCH
<1>5. Fits("dms_POST", dms_POST)
  <2>1. dms_POST = PlanOf(<<"cookie", "workspace", "write">>, "401", "401", "401", "400", "refused")
    BY DEF dms_POST, Plan, PlanOf, Listing, Guarded
  <2>2. WellMade(dms_POST)
    BY <2>1, PlansWellMade DEF Answers, Refusals, ReadSteps, WriteSteps
  <2> QED
    BY <2>1, <2>2 DEF Fits, PlanOf, Ordinary
<1>6. Fits("pages_GET", pages_GET)
  <2>1. pages_GET = PlanOf(<<"cookie", "workspace", "read">>, "seeded", "seeded", "seeded", "400", "seeded")
    BY DEF pages_GET, Plan, PlanOf, Listing, Guarded
  <2>2. WellMade(pages_GET)
    BY <2>1, PlansWellMade DEF Answers, Refusals, ReadSteps, WriteSteps
  <2> QED
    BY <2>1, <2>2 DEF Fits, PlanOf, Ordinary
<1>7. Fits("backlinks_GET", backlinks_GET)
  <2>1. backlinks_GET = PlanOf(<<"cookie", "workspace", "read">>, "401", "404", "401", "400", "refused")
    BY DEF backlinks_GET, Plan, PlanOf, Listing, Guarded
  <2>2. WellMade(backlinks_GET)
    BY <2>1, PlansWellMade DEF Answers, Refusals, ReadSteps, WriteSteps
  <2> QED
    BY <2>1, <2>2 DEF Fits, PlanOf, Ordinary
<1>8. Fits("ai_search_GET", ai_search_GET)
  <2>1. ai_search_GET = PlanOf(<<"cookie", "body", "read">>, "empty", "empty", "empty", "empty", "refused")
    BY DEF ai_search_GET, Plan, PlanOf, Listing, Guarded
  <2>2. WellMade(ai_search_GET)
    BY <2>1, PlansWellMade DEF Answers, Refusals, ReadSteps, WriteSteps
  <2> QED
    BY <2>1, <2>2 DEF Fits, PlanOf, Ordinary
<1>9. Fits("audit_log_GET", audit_log_GET)
  <2>1. audit_log_GET = PlanOf(<<"cookie", "workspace", "read">>, "401", "empty", "401", "400", "refused")
    BY DEF audit_log_GET, Plan, PlanOf, Listing, Guarded
  <2>2. WellMade(audit_log_GET)
    BY <2>1, PlansWellMade DEF Answers, Refusals, ReadSteps, WriteSteps
  <2> QED
    BY <2>1, <2>2 DEF Fits, PlanOf, Ordinary
<1>10. Fits("members_GET", members_GET)
  <2>1. members_GET = PlanOf(<<"wired", "workspace", "read">>, "seeded", "seeded", "seeded", "400", "refused")
    BY DEF members_GET, Plan, PlanOf, Listing, Guarded
  <2>2. WellMade(members_GET)
    BY <2>1, PlansWellMade DEF Answers, Refusals, ReadSteps, WriteSteps
  <2> QED
    BY <2>1, <2>2 DEF Fits, PlanOf, Ordinary
<1>11. Fits("invites_GET", invites_GET)
  <2>1. invites_GET = PlanOf(<<"wired", "workspace", "read">>, "seeded", "seeded", "seeded", "400", "refused")
    BY DEF invites_GET, Plan, PlanOf, Listing, Guarded
  <2>2. WellMade(invites_GET)
    BY <2>1, PlansWellMade DEF Answers, Refusals, ReadSteps, WriteSteps
  <2> QED
    BY <2>1, <2>2 DEF Fits, PlanOf, Ordinary
<1>12. \A name \in DOMAIN PageRoutes : Fits(name, PageRoutes[name])
  BY <1>1, <1>2, <1>3, <1>5, <1>6, <1>7, <1>8, <1>9, <1>10, <1>11 DEF PageRoutes
<1>13. \A name \in DOMAIN OwnRoutes : Fits(name, OwnRoutes[name])
  BY <1>4 DEF OwnRoutes
<1> QED
  BY <1>12, <1>13 DEF RouteNames, RouteOf

-----------------------------------------------------------------------------
(* A request.                                                              *)

StepOf(r) == RouteOf(r.route).steps[r.at]
Purely(r) == ReadsOnly(RouteOf(r.route).steps)

\* While its handler is at work, a write is done exactly when only the relisting
\* is left; afterwards the answer says what became of it.
Told(r) ==
    ~Purely(r) =>
        /\ r.answer = "none" => (r.committed <=> StepOf(r) = "relist")
        /\ r.answer \in {"data", "empty", "seeded"} => r.committed \/ r.unwired
        /\ r.committed /\ r.answer # "none" => r.answer \in {"data", "empty", "500"}

Invites == {"invite1", "invite2"}
Makers == {"workspace_POST", "invites_POST", "projects_POST", "pages_POST"}
RequestSound(r) ==
    /\ r \in Request /\ r.at \in 1..Len(RouteOf(r.route).steps)
    /\ r.what # None => r.route \in Makers /\ (r.route = "invites_POST" <=> r.what \in Invites)
    /\ Told(r)

\* A request that is fine so far finds its session and workspace.
FineSoFar(r) == r.answer = "none" /\ r.fine => Fine /\ r.cookie \in live

Healthy(r) ==
    r.fine /\ r.answer \in {"empty", "seeded", "401", "404"} =>
        \/ r.committed
        \/ r.route = "ai_search_GET" /\ ~r.wellFormed
        \/ r.route = "pages_GET" /\ r.answer = "seeded"

ReqInv == ~Idle => RequestSound(req) /\ FineSoFar(req) /\ Healthy(req)

BackendTyped ==
    /\ cookie \in Tokens \cup {None} /\ live \subseteq Tokens
    /\ up \in BOOLEAN /\ account \in BOOLEAN /\ joined \in BOOLEAN
    /\ stored \subseteq Things

LEMMA RouteFacts ==
    ASSUME NEW name \in RouteNames
    PROVE  LET p == RouteOf(name)
           IN  /\ Len(p.steps) \in 1..5 /\ DOMAIN p.steps = 1..Len(p.steps)
               /\ p.signedOut \in Answers \ {"none"} /\ p.noWorkspace \in Answers \ {"none"}
               /\ p.refusedLookup \in Answers \ {"none"}
               /\ p.malformed \in {"400", "empty"} /\ (p.malformed = "empty" => name = "ai_search_GET")
               /\ p.notFound \in {"refused", "seeded"} /\ (p.notFound = "seeded" => name = "pages_GET")
               /\ ~ReadsOnly(p.steps) =>
                     /\ WritesLast(p.steps)
                     /\ {p.signedOut, p.noWorkspace, p.refusedLookup, p.malformed} \subseteq Refusals
<1> DEFINE p == RouteOf(name)
<1>1. Fits(name, p)
  BY RoutesFit
<1> HIDE DEF p
<1>2. PlanFields(p) /\ Len(p.steps) \in 1..5 /\ DOMAIN p.steps = 1..Len(p.steps) /\ Careful(p)
  BY <1>1 DEF Fits, WellMade
<1>3. /\ p.signedOut \in Answers \ {"none"} /\ p.noWorkspace \in Answers \ {"none"}
      /\ p.refusedLookup \in Answers \ {"none"}
  BY <1>2 DEF PlanFields
<1>4. /\ p.malformed \in {"400", "empty"} /\ (p.malformed = "empty" => name = "ai_search_GET")
      /\ p.notFound \in {"refused", "seeded"} /\ (p.notFound = "seeded" => name = "pages_GET")
  BY <1>1 DEF Fits, Ordinary
<1>5. ~ReadsOnly(p.steps) =>
          /\ WritesLast(p.steps)
          /\ {p.signedOut, p.noWorkspace, p.refusedLookup, p.malformed} \subseteq Refusals
  BY <1>2 DEF Careful
<1> QED
  BY <1>2, <1>3, <1>4, <1>5 DEF p

\* All that an answer changes, and all that a step does.
LEMMA AnswerFields ==
    ASSUME NEW r \in Request, NEW a \in Answers
    PROVE  LET s == WithAnswer(r, a)
           IN  /\ s \in Request /\ s.answer = a /\ s.route = r.route /\ s.what = r.what
               /\ s.cookie = r.cookie /\ s.wellFormed = r.wellFormed /\ s.at = r.at
               /\ s.committed = r.committed /\ s.unwired = r.unwired /\ s.fine = r.fine
  BY DEF WithAnswer, Request

LEMMA OnwardFields ==
    ASSUME NEW r \in Request, r.at \in 1..Len(RouteOf(r.route).steps), r.answer = "none"
    PROVE  LET s == Onward(r)
           IN  /\ s \in Request /\ s.at \in 1..Len(RouteOf(s.route).steps)
               /\ s.route = r.route /\ s.what = r.what /\ s.cookie = r.cookie
               /\ s.wellFormed = r.wellFormed /\ s.committed = r.committed
               /\ s.unwired = r.unwired /\ s.fine = r.fine
               /\ \/ r.at = Len(RouteOf(r.route).steps) /\ s.at = r.at /\ s.answer = "data"
                  \/ r.at < Len(RouteOf(r.route).steps) /\ s.at = r.at + 1 /\ s.answer = "none"
<1>1. r.route \in RouteNames /\ Len(RouteOf(r.route).steps) \in 1..5 /\ r.at \in 1..5
  BY RouteFacts DEF Request
<1>2. CASE r.at = Len(RouteOf(r.route).steps)
  <2>1. Onward(r) = WithAnswer(r, "data")
    BY <1>2 DEF Onward
  <2> QED
    BY <1>2, <2>1, AnswerFields DEF Answers
<1>3. CASE r.at # Len(RouteOf(r.route).steps)
  <2> DEFINE n == Len(RouteOf(r.route).steps)
  <2>0. n \in 1..5 /\ r.at \in 1..n /\ r.at # n
    BY <1>1, <1>3
  <2>1. Onward(r) = [r EXCEPT !.at = @ + 1] /\ r.at + 1 \in 1..5 /\ r.at < Len(RouteOf(r.route).steps)
    <3>1. Onward(r) = [r EXCEPT !.at = @ + 1]
      BY <1>3 DEF Onward
    <3>2. r.at + 1 \in 1..5 /\ r.at < n
      <4> HIDE DEF n
      <4> QED
        BY <2>0
    <3> QED
      BY <3>1, <3>2
  <2> DEFINE s == [r EXCEPT !.at = @ + 1]
  <2>2. /\ s \in Request /\ s.at = r.at + 1 /\ s.route = r.route /\ s.what = r.what
        /\ s.cookie = r.cookie /\ s.wellFormed = r.wellFormed /\ s.committed = r.committed
        /\ s.unwired = r.unwired /\ s.fine = r.fine /\ s.answer = r.answer
    BY <2>1 DEF Request
  <2> HIDE DEF s
  <2> QED
    BY <1>1, <2>1, <2>2 DEF s
<1> QED
  BY <1>2, <1>3

\* A request that goes on from a step which is no write.
LEMMA GoesOn ==
    ASSUME NEW r, RequestSound(r), r.answer = "none", StepOf(r) \notin {"write", "relist"}
    PROVE  RequestSound(Onward(r)) /\ Onward(r).answer \in {"none", "data"}
<1>1. r \in Request /\ r.at \in 1..Len(RouteOf(r.route).steps) /\ r.route \in RouteNames
  BY DEF RequestSound, Request
<1> DEFINE s == Onward(r)
<1>2. /\ s \in Request /\ s.at \in 1..Len(RouteOf(s.route).steps)
      /\ s.route = r.route /\ s.what = r.what /\ s.committed = r.committed /\ s.unwired = r.unwired
      /\ \/ r.at = Len(RouteOf(r.route).steps) /\ s.at = r.at /\ s.answer = "data"
         \/ r.at < Len(RouteOf(r.route).steps) /\ s.at = r.at + 1 /\ s.answer = "none"
  BY <1>1, OnwardFields
<1> HIDE DEF s
<1>3. ASSUME ~Purely(s) PROVE s.answer = "none" /\ ~s.committed /\ StepOf(s) # "relist"
  <2>1. ~Purely(r) /\ ~r.committed
    BY <1>2, <1>3 DEF Purely, RequestSound, Told
  <2>2. WritesLast(RouteOf(r.route).steps)
    BY <1>1, <2>1, RouteFacts DEF Purely
  <2>3. r.at < Len(RouteOf(r.route).steps) /\ RouteOf(r.route).steps[r.at + 1] # "relist"
    BY <1>1, <2>2 DEF WritesLast, StepOf
  <2> QED
    BY <1>1, <1>2, <2>1, <2>3, RouteFacts DEF StepOf
<1>4. Told(s)
  BY <1>3 DEF Told
<1> QED
  BY <1>2, <1>4 DEF s, RequestSound

\* A request answered before its write, or by a handler that only reads.
LEMMA AnsweredEarly ==
    ASSUME NEW r, RequestSound(r), r.answer = "none", NEW a \in Answers \ {"none"},
           ~Purely(r) => StepOf(r) # "relist" /\ a \in Refusals \cup {"500", "502"}
    PROVE  RequestSound(WithAnswer(r, a))
<1>1. r \in Request
  BY DEF RequestSound
<1> DEFINE s == WithAnswer(r, a)
<1>2. /\ s \in Request /\ s.answer = a /\ s.route = r.route /\ s.what = r.what /\ s.at = r.at
      /\ s.committed = r.committed /\ s.unwired = r.unwired
  BY <1>1, AnswerFields
<1> HIDE DEF s
<1>3. Told(s)
  BY <1>2 DEF Told, Purely, RequestSound, Refusals
<1> QED
  BY <1>2, <1>3 DEF s, RequestSound

-----------------------------------------------------------------------------
(* The steps of the handlers.                                              *)

LEMMA AtStep ==
    ASSUME ReqInv, NEW t, At(t)
    PROVE  /\ RequestSound(req) /\ FineSoFar(req) /\ req.answer = "none" /\ StepOf(req) = t
           /\ req \in Request /\ req.route \in RouteNames /\ req.at \in 1..Len(RouteOf(req.route).steps)
  BY DEF ReqInv, At, Pending, Step, StepOf, RequestSound, Request

\* The answers a plan gives early.
LEMMA EarlyAnswers ==
    ASSUME NEW r, RequestSound(r)
    PROVE  LET p == RouteOf(r.route)
           IN  \A a \in {p.signedOut, p.noWorkspace, p.refusedLookup, p.malformed} :
                  a \in Answers \ {"none"} /\ (~Purely(r) => a \in Refusals)
<1>1. r.route \in RouteNames
  BY DEF RequestSound, Request
<1> QED
  BY <1>1, RouteFacts DEF Purely, Answers

\* While nothing at the backend changes, a request that is fine stays so.
LEMMA FineStays ==
    ASSUME NEW r, FineSoFar(r), r.answer = "none", UNCHANGED <<live, up, joined, stored>>,
           req'.fine = r.fine, req'.cookie = r.cookie
    PROVE  FineSoFar(req)'
  BY DEF FineSoFar, Fine, Workspaces

LEMMA OnwardKeeps ==
    ASSUME RequestSound(req), FineSoFar(req), req.answer = "none",
           StepOf(req) \notin {"write", "relist"}, req' = Onward(req),
           UNCHANGED <<live, up, joined, stored>>
    PROVE  ReqInv'
<1>1. req \in Request /\ req.at \in 1..Len(RouteOf(req.route).steps)
  BY DEF RequestSound
<1>2. RequestSound(req') /\ req'.answer \in {"none", "data"}
  BY GoesOn
<1>3. FineSoFar(req)'
  BY <1>1, OnwardFields, FineStays
<1> QED
  BY <1>2, <1>3 DEF ReqInv, Healthy

\* An answer that may be given to whoever is fine, or is given to whoever is not.
LEMMA AnswerKeeps ==
    ASSUME RequestSound(req), req.answer = "none", NEW a \in Answers \ {"none"},
           ~Purely(req) => StepOf(req) # "relist" /\ a \in Refusals \cup {"500", "502"},
           \/ ~req.fine \/ a \notin {"empty", "seeded", "401", "404"}
           \/ req.route = "ai_search_GET" /\ ~req.wellFormed
           \/ req.route = "pages_GET" /\ a = "seeded",
           req' = WithAnswer(req, a)
    PROVE  ReqInv'
<1>1. RequestSound(req')
  BY AnsweredEarly
<1>2. /\ req'.answer = a /\ req'.fine = req.fine /\ req'.route = req.route
      /\ req'.wellFormed = req.wellFormed
  BY AnswerFields DEF RequestSound
<1> QED
  BY <1>1, <1>2 DEF ReqInv, FineSoFar, Healthy

LEMMA CookieStep == ASSUME ReqInv, BackendTyped, getSessionCookie PROVE ReqInv'
<1>1. /\ RequestSound(req) /\ FineSoFar(req) /\ req.answer = "none" /\ StepOf(req) = "cookie"
  BY AtStep DEF getSessionCookie
<1>2. UNCHANGED <<live, up, joined, stored>>
  BY DEF getSessionCookie, backend
<1>3. CASE req.cookie = None
  <2>1. req' = WithAnswer(req, RouteOf(req.route).signedOut)
    BY <1>3 DEF getSessionCookie
  <2>2. ~req.fine
    BY <1>1, <1>3, BrowserAssumption DEF FineSoFar, BackendTyped, RequestSound, Request
  <2> QED
    BY <1>1, <2>1, <2>2, EarlyAnswers, AnswerKeeps
<1>4. CASE req.cookie # None
  BY <1>1, <1>2, <1>4, OnwardKeeps DEF getSessionCookie
<1> QED
  BY <1>3, <1>4

LEMMA BodyStep == ASSUME ReqInv, checkBody PROVE ReqInv'
<1>1. /\ RequestSound(req) /\ FineSoFar(req) /\ req.answer = "none" /\ StepOf(req) = "body"
      /\ req.route \in RouteNames
  BY AtStep DEF checkBody
<1>2. UNCHANGED <<live, up, joined, stored>>
  BY DEF checkBody, backend
<1>3. CASE ~req.wellFormed
  <2> DEFINE a == RouteOf(req.route).malformed
  <2>1. req' = WithAnswer(req, a)
    BY <1>3 DEF checkBody
  <2>2. a \in Answers \ {"none"} /\ (~Purely(req) => a \in Refusals)
    BY <1>1, EarlyAnswers
  <2>3. a = "400" \/ req.route = "ai_search_GET"
    BY <1>1, RouteFacts
  <2> HIDE DEF a
  <2> QED
    BY <1>1, <1>3, <2>1, <2>2, <2>3, AnswerKeeps
<1>4. CASE req.wellFormed
  BY <1>1, <1>2, <1>4, OnwardKeeps DEF checkBody
<1> QED
  BY <1>3, <1>4

LEMMA WiredStep == ASSUME ReqInv, BackendTyped, isBackendWired PROVE ReqInv'
<1>1. RequestSound(req) /\ FineSoFar(req) /\ req.answer = "none" /\ StepOf(req) = "wired"
  BY AtStep DEF isBackendWired
<1>2. UNCHANGED <<live, up, joined, stored>>
  BY DEF isBackendWired, backend
<1>3. CASE up /\ Accepted
  BY <1>1, <1>2, <1>3, OnwardKeeps DEF isBackendWired
<1>4. CASE ~(up /\ Accepted)
  <2> DEFINE s == WithAnswer(req, "seeded")
  <2>1. req' = [s EXCEPT !.unwired = TRUE]
    BY <1>4 DEF isBackendWired
  <2>2. /\ s \in Request /\ s.answer = "seeded" /\ s.route = req.route /\ s.what = req.what
        /\ s.at = req.at /\ s.committed = req.committed /\ s.fine = req.fine
    BY <1>1, AnswerFields DEF RequestSound, Answers
  <2> HIDE DEF s
  <2>3. /\ req' \in Request /\ req'.answer = "seeded" /\ req'.route = req.route /\ req'.what = req.what
        /\ req'.at = req.at /\ req'.committed = req.committed /\ req'.fine = req.fine /\ req'.unwired
    BY <2>1, <2>2 DEF Request
  <2>4. Told(req')
    BY <1>1, <2>3 DEF Told, Purely, RequestSound
  <2>5. RequestSound(req')
    BY <1>1, <2>3, <2>4 DEF RequestSound
  <2>6. ~req.fine
    BY <1>1, <1>4 DEF FineSoFar, Fine, Accepted
  <2> QED
    BY <2>3, <2>5, <2>6 DEF ReqInv, FineSoFar, Healthy
<1> QED
  BY <1>3, <1>4

LEMMA WorkspaceStep == ASSUME ReqInv, getCurrentWorkspaceId PROVE ReqInv'
<1>1. RequestSound(req) /\ FineSoFar(req) /\ req.answer = "none" /\ StepOf(req) = "workspace"
  BY AtStep DEF getCurrentWorkspaceId
<1>2. UNCHANGED <<live, up, joined, stored>>
  BY DEF getCurrentWorkspaceId, backend
<1>3. CASE up /\ Accepted /\ Workspaces # 0
  BY <1>1, <1>2, <1>3, OnwardKeeps DEF getCurrentWorkspaceId
<1>4. CASE ~(up /\ Accepted /\ Workspaces # 0)
  <2>1. PICK a \in {"500", RouteOf(req.route).refusedLookup, RouteOf(req.route).noWorkspace} :
          req' = WithAnswer(req, a)
    BY <1>4 DEF getCurrentWorkspaceId
  <2>2. ~req.fine
    BY <1>1, <1>4 DEF FineSoFar, Fine, Accepted
  <2>3. a \in Answers \ {"none"} /\ (~Purely(req) => a \in Refusals \cup {"500"})
    BY <1>1, EarlyAnswers DEF Answers
  <2> QED
    BY <1>1, <2>1, <2>2, <2>3, AnswerKeeps
<1> QED
  BY <1>3, <1>4

LEMMA ReadStep == ASSUME ReqInv, readBackend PROVE ReqInv'
<1>1. /\ RequestSound(req) /\ FineSoFar(req) /\ req.answer = "none" /\ StepOf(req) = "read"
      /\ req.route \in RouteNames /\ req.at \in 1..Len(RouteOf(req.route).steps)
  BY AtStep DEF readBackend
<1>2. UNCHANGED <<live, up, joined, stored>>
  BY DEF readBackend, backend
<1>3. Purely(req)
  BY <1>1, RouteFacts DEF Purely, WritesLast, StepOf
<1>4. CASE req' = Onward(req)
  BY <1>1, <1>2, <1>4, OnwardKeeps
<1>5. ASSUME NEW a \in {"500", "401"}, ~(up /\ Accepted), req' = WithAnswer(req, a) PROVE ReqInv'
  <2>1. ~req.fine
    BY <1>1, <1>5 DEF FineSoFar, Fine, Accepted
  <2> QED
    BY <1>1, <1>3, <1>5, <2>1, AnswerKeeps DEF Answers
<1>6. ASSUME NEW a \in {"refused", RouteOf(req.route).notFound}, req' = WithAnswer(req, a) PROVE ReqInv'
  <2>1. a = "refused" \/ (a = "seeded" /\ req.route = "pages_GET")
    BY <1>1, RouteFacts
  <2> QED
    BY <1>1, <1>3, <1>6, <2>1, AnswerKeeps DEF Answers
<1> QED
  BY <1>4, <1>5, <1>6 DEF readBackend

\* The deletion of the account is over with its write.
LEMMA ClosingEnds ==
    ASSUME NEW r, RequestSound(r), r.route = "account_DELETE", StepOf(r) = "write"
    PROVE  r.at = Len(RouteOf(r.route).steps)
<1>1. RouteOf(r.route).steps = <<"cookie", "body", "write">>
  BY DEF RouteOf, PageRoutes, OwnRoutes, account_DELETE, Guarded, Plan
<1>2. r.at \in 1..3
  BY <1>1 DEF RequestSound
<1> DEFINE s == <<"cookie", "body", "write">>
<1>3. \A i \in 1..3 : s[i] = "write" => i = 3
  OBVIOUS
<1>4. s[r.at] = "write" /\ Len(s) = 3
  BY <1>1 DEF StepOf
<1> QED
  BY <1>1, <1>2, <1>3, <1>4

LEMMA Stores ==
    ASSUME BackendTyped, NEW what \in Things \cup {None}, StoreThing(what)
    PROVE  stored' \subseteq Things /\ stored \subseteq stored'
  BY DEF StoreThing, BackendTyped

LEMMA WriteStep ==
    ASSUME ReqInv, BackendTyped, writeBackend
    PROVE  ReqInv' /\ stored' \subseteq Things /\ live' \subseteq Tokens
<1>1. /\ RequestSound(req) /\ FineSoFar(req) /\ req.answer = "none" /\ StepOf(req) = "write"
      /\ req \in Request /\ req.route \in RouteNames /\ req.at \in 1..Len(RouteOf(req.route).steps)
  BY AtStep DEF writeBackend
<1>2. CASE /\ req' = WithAnswer(req, IF ~up THEN "500" ELSE IF ~Accepted THEN "401" ELSE "refused")
           /\ UNCHANGED backend
  <2>1. PICK a \in {"500", "401", "refused"} : req' = WithAnswer(req, a) /\ (a = "401" => ~Accepted)
    BY <1>2
  <2>2. a = "401" => ~req.fine
    BY <1>1, <2>1 DEF FineSoFar, Accepted
  <2>3. ReqInv'
    BY <1>1, <2>1, <2>2, AnswerKeeps DEF Answers, Refusals
  <2> QED
    BY <1>2, <2>3 DEF backend, BackendTyped
<1>3. CASE /\ up /\ Accepted /\ req.wellFormed /\ ~Refusable(req.what)
           /\ LET kept == [req EXCEPT !.committed = TRUE]
              IN  req' \in {[Onward(kept) EXCEPT !.clears = Closes], WithAnswer(kept, "500")}
           /\ IF Closes THEN CloseAccount
              ELSE StoreThing(req.what) /\ UNCHANGED <<account, live, joined>>
  <2> DEFINE kept == [req EXCEPT !.committed = TRUE]
  <2>1. /\ kept \in Request /\ kept.answer = "none" /\ kept.route = req.route /\ kept.what = req.what
        /\ kept.cookie = req.cookie /\ kept.at = req.at /\ kept.fine = req.fine /\ kept.committed
    BY <1>1 DEF Request
  <2>2. req' \in {[Onward(kept) EXCEPT !.clears = Closes], WithAnswer(kept, "500")}
    BY <1>3
  <2> HIDE DEF kept
  <2> DEFINE k == Onward(kept)
             n == Len(RouteOf(req.route).steps)
  <2>3. /\ k \in Request /\ k.at \in 1..n /\ k.route = req.route /\ k.what = req.what
        /\ k.cookie = req.cookie /\ k.committed /\ k.fine = req.fine
        /\ (req.at = n /\ k.answer = "data") \/ (req.at < n /\ k.at = req.at + 1 /\ k.answer = "none")
    BY <1>1, <2>1, OnwardFields
  <2> HIDE DEF k
  <2>4. Closes \in BOOLEAN
    BY DEF Closes
  <2>5. /\ req' \in Request /\ req'.at \in 1..n /\ req'.route = req.route /\ req'.what = req.what
        /\ req'.cookie = req.cookie /\ req'.committed /\ req'.fine = req.fine
        /\ \/ req.at = n /\ req'.answer = "data"
           \/ req.at < n /\ req'.at = req.at + 1 /\ req'.answer = "none"
           \/ req'.answer = "500"
    <3>1. CASE req' = [k EXCEPT !.clears = Closes]
      <4> DEFINE b == Closes
      <4>1. req' = [k EXCEPT !.clears = b] /\ b \in BOOLEAN
        BY <2>4, <3>1
      <4> HIDE DEF b
      <4> QED
        BY <2>3, <4>1 DEF Request
    <3>2. CASE req' = WithAnswer(kept, "500")
      BY <1>1, <2>1, <3>2, AnswerFields DEF Answers
    <3> QED
      BY <2>2, <3>1, <3>2 DEF k
  <2>6. WritesLast(RouteOf(req.route).steps) /\ ~Purely(req)
    BY <1>1, RouteFacts DEF StepOf, ReadsOnly, Purely
  <2>7. req'.answer = "none" => StepOf(req') = "relist"
    <3>1. req.at < n => RouteOf(req.route).steps[req.at + 1] = "relist"
      BY <1>1, <2>6, RouteFacts DEF WritesLast, StepOf
    <3> QED
      BY <2>5, <3>1 DEF StepOf
  <2>8. RequestSound(req')
    BY <1>1, <2>5, <2>7 DEF RequestSound, Told
  <2>9. CASE Closes
    <3>1. req'.answer # "none"
      BY <1>1, <2>5, <2>9, ClosingEnds DEF Closes
    <3>2. stored' = {} /\ live' = {}
      BY <1>3, <2>9 DEF CloseAccount
    <3>3. ReqInv'
      BY <2>5, <2>8, <3>1 DEF ReqInv, FineSoFar, Healthy
    <3> QED
      BY <3>2, <3>3
  <2>10. CASE ~Closes
    <3>1. StoreThing(req.what) /\ UNCHANGED <<live, joined, up>>
      BY <1>3, <2>10 DEF writeBackend
    <3>2. stored' \subseteq Things /\ stored \subseteq stored'
      BY <1>1, <3>1, Stores DEF Request
    <3>3. Fine => Fine'
      BY <3>1, <3>2 DEF Fine, Workspaces
    <3>4. FineSoFar(req)'
      BY <1>1, <2>5, <3>1, <3>3 DEF FineSoFar
    <3>5. ReqInv'
      BY <2>5, <2>8, <3>4 DEF ReqInv, Healthy
    <3> QED
      BY <3>1, <3>2, <3>5 DEF BackendTyped
  <2> QED
    BY <2>9, <2>10
<1> QED
  BY <1>2, <1>3 DEF writeBackend

\* The relisting is the last step, after a write that is stored.
LEMMA RelistStep == ASSUME ReqInv, relist PROVE ReqInv'
<1>1. /\ RequestSound(req) /\ req.answer = "none" /\ StepOf(req) = "relist"
      /\ req \in Request /\ req.route \in RouteNames /\ req.at \in 1..Len(RouteOf(req.route).steps)
  BY AtStep DEF relist
<1>2. ~Purely(req)
  BY <1>1 DEF StepOf, Purely, ReadsOnly
<1>3. req.committed /\ req.at = Len(RouteOf(req.route).steps)
  BY <1>1, <1>2, RouteFacts DEF RequestSound, Told, Purely, WritesLast, StepOf
<1>4. PICK a \in {"500", "data", "empty"} : req' = WithAnswer(req, a)
  BY <1>3 DEF relist, Onward
<1>5. /\ req' \in Request /\ req'.answer = a /\ req'.route = req.route /\ req'.what = req.what
      /\ req'.at = req.at /\ req'.committed
  BY <1>1, <1>3, <1>4, AnswerFields DEF Answers
<1>6. RequestSound(req')
  BY <1>1, <1>5 DEF RequestSound, Told
<1> QED
  BY <1>5, <1>6 DEF ReqInv, FineSoFar, Healthy

\* The session routes answer in one step, and make nothing.
LEMMA SessionAnswer ==
    ASSUME ReqInv, NEW t \in {"login", "logout", "logout-all"}, At(t),
           NEW a \in {"data", "refused", "502"},
           req' \in Request, req'.answer = a, req'.route = req.route, req'.what = req.what,
           req'.at = req.at
    PROVE  ReqInv'
<1>1. /\ RequestSound(req) /\ StepOf(req) = t
      /\ req.route \in RouteNames /\ req.at \in 1..Len(RouteOf(req.route).steps)
  BY AtStep
<1>2. Purely(req)
  BY <1>1, RouteFacts DEF Purely, WritesLast, StepOf
<1>3. RequestSound(req')
  BY <1>1, <1>2 DEF RequestSound, Told, Purely
<1> QED
  BY <1>3 DEF ReqInv, FineSoFar, Healthy

LEMMA LoginStep ==
    ASSUME ReqInv, BackendTyped, proxyAuth
    PROVE  ReqInv' /\ live' \subseteq Tokens /\ account' \in BOOLEAN
<1>1. At("login") /\ req \in Request
  BY AtStep DEF proxyAuth
<1>2. ASSUME NEW a \in {"502", "refused"}, req' = WithAnswer(req, a), UNCHANGED <<live, account>>
      PROVE  ReqInv' /\ live' \subseteq Tokens /\ account' \in BOOLEAN
  <2>1. /\ req' \in Request /\ req'.answer = a /\ req'.route = req.route /\ req'.what = req.what
        /\ req'.at = req.at
    BY <1>1, <1>2, AnswerFields DEF Answers
  <2>2. ReqInv'
    BY <1>1, <2>1, SessionAnswer
  <2> QED
    BY <1>2, <2>2 DEF BackendTyped
<1>3. ASSUME NEW t \in Tokens \ (live \cup {cookie}), live' = live \cup {t}, account' = TRUE,
             req' \in {[WithAnswer(req, "data") EXCEPT !.granted = t, !.committed = TRUE],
                       [WithAnswer(req, "502") EXCEPT !.committed = TRUE]}
      PROVE  ReqInv' /\ live' \subseteq Tokens /\ account' \in BOOLEAN
  <2>1. PICK a \in {"data", "502"} :
          req' \in {[WithAnswer(req, a) EXCEPT !.granted = t, !.committed = TRUE],
                    [WithAnswer(req, a) EXCEPT !.committed = TRUE]}
    BY <1>3
  <2> DEFINE s == WithAnswer(req, a)
  <2>2. /\ s \in Request /\ s.answer = a /\ s.route = req.route /\ s.what = req.what /\ s.at = req.at
    BY <1>1, AnswerFields DEF Answers
  <2>3. req' \in {[s EXCEPT !.granted = t, !.committed = TRUE], [s EXCEPT !.committed = TRUE]}
    BY <2>1
  <2> HIDE DEF s
  <2>4. /\ req' \in Request /\ req'.answer = a /\ req'.route = req.route /\ req'.what = req.what
        /\ req'.at = req.at
    BY <2>2, <2>3 DEF Request
  <2>5. ReqInv'
    BY <1>1, <2>4, SessionAnswer
  <2> QED
    BY <1>3, <2>5 DEF BackendTyped
<1> QED
  BY <1>2, <1>3 DEF proxyAuth

LEMMA LogoutStep ==
    ASSUME ReqInv, BackendTyped, logout \/ logoutAll
    PROVE  ReqInv' /\ live' \subseteq Tokens
<1>1. PICK t \in {"logout", "logout-all"} : At(t)
  BY DEF logout, logoutAll
<1> DEFINE s == WithAnswer(req, "data")
<1>2. /\ s \in Request /\ s.answer = "data" /\ s.route = req.route /\ s.what = req.what /\ s.at = req.at
  BY <1>1, AtStep, AnswerFields DEF Answers
<1>3. req' = [s EXCEPT !.clears = TRUE] /\ live' \subseteq live
  BY DEF logout, logoutAll
<1> HIDE DEF s
<1>4. /\ req' \in Request /\ req'.answer = "data" /\ req'.route = req.route /\ req'.what = req.what
      /\ req'.at = req.at
  BY <1>2, <1>3 DEF Request
<1>5. ReqInv'
  BY <1>1, <1>4, SessionAnswer
<1> QED
  BY <1>3, <1>5 DEF BackendTyped

LEMMA ServeKeeps ==
    ASSUME ReqInv, BackendTyped, Serve
    PROVE  ReqInv' /\ BackendTyped'
<1>1. CASE getSessionCookie \/ checkBody \/ isBackendWired \/ getCurrentWorkspaceId \/ readBackend \/ relist
  <2>1. ReqInv'
    BY <1>1, CookieStep, BodyStep, WiredStep, WorkspaceStep, ReadStep, RelistStep
  <2>2. UNCHANGED <<cookie, live, up, account, joined, stored>>
    BY <1>1 DEF getSessionCookie, checkBody, isBackendWired, getCurrentWorkspaceId, readBackend,
                 relist, backend
  <2> QED
    BY <2>1, <2>2 DEF BackendTyped
<1>2. CASE writeBackend
  <2>1. ReqInv' /\ stored' \subseteq Things /\ live' \subseteq Tokens
    BY <1>2, WriteStep
  <2>2. UNCHANGED <<cookie, up>> /\ account' \in BOOLEAN /\ joined' \in BOOLEAN
    BY <1>2 DEF writeBackend, CloseAccount, backend, BackendTyped
  <2> QED
    BY <2>1, <2>2 DEF BackendTyped
<1>3. CASE proxyAuth
  <2>1. UNCHANGED <<cookie, up, joined, stored>>
    BY <1>3 DEF proxyAuth
  <2> QED
    BY <1>3, <2>1, LoginStep DEF BackendTyped
<1>4. CASE logout \/ logoutAll
  <2>1. UNCHANGED <<cookie, up, account, joined, stored>>
    BY <1>4 DEF logout, logoutAll
  <2> QED
    BY <1>4, <2>1, LogoutStep DEF BackendTyped
<1> QED
  BY <1>1, <1>2, <1>3, <1>4 DEF Serve

LEMMA NamesAreRoutes ==
    /\ {"session_POST", "session_DELETE", "session_PATCH"} \subseteq RouteNames
    /\ {"account_DELETE", "workspace_POST"} \subseteq RouteNames
    /\ {"invites_POST", "projects_POST", "pages_POST"} \subseteq RouteNames
    /\ DOMAIN PageRoutes \subseteq RouteNames
<1>1. {"session_POST", "session_DELETE", "session_PATCH", "account_DELETE", "workspace_POST"}
          \subseteq DOMAIN OwnRoutes
  BY DEF OwnRoutes
<1>2. {"invites_POST", "projects_POST", "pages_POST"} \subseteq DOMAIN PageRoutes
  BY DEF PageRoutes
<1> QED
  BY <1>1, <1>2 DEF RouteNames

LEMMA AWrite == ASSUME NEW t, NEW i \in 1..Len(t), t[i] = "write" PROVE ~ReadsOnly(t)
  BY DEF ReadsOnly

\* The routes that make something write, and none of them is a session's.
LEMMA MakersWrite ==
    ASSUME NEW name \in Makers
    PROVE  name \in RouteNames /\ ~ReadsOnly(RouteOf(name).steps) /\ name # "account_DELETE"
<1>1. RouteOf("workspace_POST").steps = <<"cookie", "write">>
  BY DEF RouteOf, PageRoutes, OwnRoutes, workspace_POST, Guarded, Plan
<1>2. RouteOf("invites_POST").steps = <<"body", "wired", "workspace", "write", "relist">>
  BY DEF RouteOf, PageRoutes, invites_POST, Guarded, Plan
<1>3. RouteOf("projects_POST").steps = <<"cookie", "workspace", "write", "relist">>
  BY DEF RouteOf, PageRoutes, projects_POST, Guarded, Plan
<1>4. RouteOf("pages_POST").steps = <<"cookie", "workspace", "write">>
  BY DEF RouteOf, PageRoutes, pages_POST, Guarded, Plan
<1>5. CASE name = "workspace_POST"
  <2> DEFINE t == <<"cookie", "write">>
  <2>1. t[2] = "write" /\ 2 \in 1..Len(t)
    OBVIOUS
  <2>2. RouteOf(name).steps = t
    BY <1>1, <1>5
  <2> HIDE DEF t
  <2>3. ~ReadsOnly(t)
    BY <2>1, AWrite
  <2> QED
    BY <1>5, <2>2, <2>3, NamesAreRoutes
<1>6. CASE name = "invites_POST"
  <2> DEFINE t == <<"body", "wired", "workspace", "write", "relist">>
  <2>1. t[4] = "write" /\ 4 \in 1..Len(t)
    OBVIOUS
  <2>2. RouteOf(name).steps = t
    BY <1>2, <1>6
  <2> HIDE DEF t
  <2>3. ~ReadsOnly(t)
    BY <2>1, AWrite
  <2> QED
    BY <1>6, <2>2, <2>3, NamesAreRoutes
<1>7. CASE name = "projects_POST"
  <2> DEFINE t == <<"cookie", "workspace", "write", "relist">>
  <2>1. t[3] = "write" /\ 3 \in 1..Len(t)
    OBVIOUS
  <2>2. RouteOf(name).steps = t
    BY <1>3, <1>7
  <2> HIDE DEF t
  <2>3. ~ReadsOnly(t)
    BY <2>1, AWrite
  <2> QED
    BY <1>7, <2>2, <2>3, NamesAreRoutes
<1>8. CASE name = "pages_POST"
  <2> DEFINE t == <<"cookie", "workspace", "write">>
  <2>1. t[3] = "write" /\ 3 \in 1..Len(t)
    OBVIOUS
  <2>2. RouteOf(name).steps = t
    BY <1>4, <1>8
  <2> HIDE DEF t
  <2>3. ~ReadsOnly(t)
    BY <2>1, AWrite
  <2> QED
    BY <1>8, <2>2, <2>3, NamesAreRoutes
<1> QED
  BY <1>5, <1>6, <1>7, <1>8 DEF Makers

\* A step of a handler is about what the request was about.  If that is something to
\* make, nothing else is lost, and it is made only where it may be.
Follows ==
    /\ req'.what = req.what
    /\ req.what # None => /\ stored \subseteq stored'
                          /\ req'.committed => req.committed \/ ~Refusable(req.what)

LEMMA ServeFollows ==
    ASSUME ReqInv, BackendTyped, Serve
    PROVE  ~Idle /\ Follows
<1>1. ~Idle
  BY DEF Serve, getSessionCookie, checkBody, isBackendWired, getCurrentWorkspaceId, readBackend,
         writeBackend, relist, proxyAuth, logout, logoutAll, At, Pending
<1>2. req \in Request /\ RequestSound(req)
  BY <1>1 DEF ReqInv, RequestSound
<1>3. \A a : WithAnswer(req, a).what = req.what /\ WithAnswer(req, a).committed = req.committed
  BY <1>2 DEF WithAnswer, Request
<1>4. Onward(req).what = req.what /\ Onward(req).committed = req.committed
  BY <1>2 DEF Onward, WithAnswer, Request
<1>5. CASE getSessionCookie \/ checkBody \/ getCurrentWorkspaceId \/ readBackend \/ relist
  <2>1. req'.what = req.what /\ req'.committed = req.committed
    BY <1>1, <1>3, <1>4, <1>5 DEF getSessionCookie, checkBody, getCurrentWorkspaceId, readBackend, relist
  <2>2. stored' = stored
    BY <1>5 DEF getSessionCookie, checkBody, getCurrentWorkspaceId, readBackend, relist, backend
  <2> QED
    BY <1>1, <2>1, <2>2 DEF Follows
<1>6. CASE isBackendWired \/ logout \/ logoutAll
  <2>1. req'.what = req.what /\ req'.committed = req.committed
    BY <1>1, <1>2, <1>3, <1>4, <1>6 DEF isBackendWired, logout, logoutAll, WithAnswer, Request
  <2>2. stored' = stored
    BY <1>6 DEF isBackendWired, logout, logoutAll, backend
  <2> QED
    BY <1>1, <2>1, <2>2 DEF Follows
<1>8. CASE proxyAuth
  <2>1. StepOf(req) = "login" /\ req.route \in RouteNames /\ req.at \in 1..Len(RouteOf(req.route).steps)
    BY <1>8, AtStep DEF proxyAuth
  <2>2. Purely(req)
    <3> SUFFICES ASSUME ~Purely(req) PROVE FALSE
      OBVIOUS
    <3>1. WritesLast(RouteOf(req.route).steps)
      BY <2>1, RouteFacts DEF Purely
    <3> QED
      BY <2>1, <3>1 DEF WritesLast, StepOf
  <2>3. req.what = None
    BY <1>2, <2>2, MakersWrite DEF RequestSound, Purely
  <2>4. req'.what = req.what
    BY <1>1, <1>2, <1>3, <1>8 DEF proxyAuth, WithAnswer, Request
  <2> QED
    BY <1>1, <2>3, <2>4 DEF Follows
<1>7. CASE writeBackend
  <2> DEFINE kept == [req EXCEPT !.committed = TRUE]
  <2>1. kept \in Request /\ kept.what = req.what
    BY <1>2 DEF Request
  <2> HIDE DEF kept
  <2>2. \A a : WithAnswer(kept, a).what = req.what
    BY <2>1 DEF WithAnswer, Request
  <2>3. [Onward(kept) EXCEPT !.clears = Closes].what = req.what
    BY <2>1 DEF Onward, WithAnswer, Request
  <2>4. req'.what = req.what
    BY <1>3, <1>7, <2>2, <2>3 DEF writeBackend, kept
  <2>5. CASE req'.committed = req.committed /\ UNCHANGED backend
    BY <1>1, <2>4, <2>5 DEF Follows, backend
  <2>6. CASE /\ ~Refusable(req.what)
             /\ IF Closes THEN CloseAccount
                ELSE StoreThing(req.what) /\ UNCHANGED <<account, live, joined>>
    <3>1. req.what # None => ~Closes
      BY <1>2, MakersWrite DEF RequestSound, Closes
    <3>2. req.what # None => stored \subseteq stored'
      BY <1>2, <2>6, <3>1, Stores DEF Request
    <3> QED
      BY <1>1, <2>4, <2>6, <3>2 DEF Follows
  <2> QED
    BY <1>3, <1>7, <2>5, <2>6 DEF writeBackend
<1> QED
  BY <1>5, <1>6, <1>7, <1>8 DEF Serve

-----------------------------------------------------------------------------
(* What happens elsewhere, and a new request.                              *)

LEMMA OutsideKeeps ==
    ASSUME ReqInv, BackendTyped, Outside
    PROVE  /\ ReqInv' /\ BackendTyped' /\ (Idle' <=> Idle)
           /\ ~Idle => req'.what = req.what /\ req'.committed = req.committed
<1>1. Meanwhile
  BY DEF Outside, BackendStops, BackendStarts, SessionEnds, MembershipChanges, ListedInAnotherOrder, ThingLapses
<1>2. live' \subseteq Tokens /\ up' \in BOOLEAN /\ joined' \in BOOLEAN
  BY DEF Outside, BackendStops, BackendStarts, SessionEnds, MembershipChanges, ListedInAnotherOrder, ThingLapses,
         BackendTyped
<1>6. stored' \subseteq stored
  BY DEF Outside, BackendStops, BackendStarts, SessionEnds, MembershipChanges, ListedInAnotherOrder, ThingLapses,
         InAnotherWorkspace
<1>3. BackendTyped'
  BY <1>1, <1>2, <1>6 DEF Meanwhile, BackendTyped
<1>4. CASE ~Pending
  <2>1. req' = req
    BY <1>1, <1>4 DEF Meanwhile
  <2>2. ReqInv'
    BY <1>4, <2>1 DEF ReqInv, Idle, Pending, FineSoFar
  <2> QED
    BY <1>3, <2>1, <2>2 DEF Idle
<1>5. CASE Pending
  <2> DEFINE b == req.fine /\ Fine' /\ req.cookie \in live'
  <2>1. req' = [req EXCEPT !.fine = b] /\ ~Idle /\ req.answer = "none" /\ RequestSound(req)
    BY <1>1, <1>5 DEF Meanwhile, Pending, ReqInv
  <2>2. b => Fine' /\ req.cookie \in live'
    OBVIOUS
  <2>3. b \in BOOLEAN
    BY <2>1 DEF RequestSound, Request
  <2> HIDE DEF b
  <2>4. /\ req' \in Request /\ req'.answer = "none" /\ req'.route = req.route /\ req'.what = req.what
        /\ req'.at = req.at /\ req'.committed = req.committed /\ req'.unwired = req.unwired
        /\ req'.fine = b /\ req'.cookie = req.cookie
    BY <2>1, <2>3 DEF RequestSound, Request
  <2>5. RequestSound(req')
    BY <2>1, <2>4 DEF RequestSound, Told, Purely, StepOf
  <2>6. ReqInv'
    BY <2>2, <2>4, <2>5 DEF ReqInv, FineSoFar, Healthy
  <2>7. ~Idle'
    BY <2>4 DEF Idle, NoRequest, Request
  <2> QED
    BY <1>3, <2>1, <2>4, <2>6, <2>7
<1> QED
  BY <1>4, <1>5

LEMMA AskFits ==
    ASSUME NEW name \in RouteNames, NEW what \in Things \cup {None}, NEW wellFormed \in BOOLEAN,
           what # None => name \in Makers /\ (name = "invites_POST" <=> what \in Invites),
           BackendTyped, Ask(name, what, wellFormed), UNCHANGED <<live, up, joined, stored>>
    PROVE  ReqInv' /\ req'.what = what /\ ~req'.committed
<1>1. /\ Len(RouteOf(name).steps) \in 1..5
      /\ ~ReadsOnly(RouteOf(name).steps) => RouteOf(name).steps[1] # "relist"
  BY RouteFacts DEF WritesLast
<1> DEFINE b == Fine /\ cookie \in live
<1>2. b \in BOOLEAN /\ (b => Fine' /\ cookie \in live')
  BY DEF Fine, Workspaces
<1>3. req' = [route |-> name, what |-> what, cookie |-> cookie, wellFormed |-> wellFormed,
              at |-> 1, answer |-> "none", committed |-> FALSE, granted |-> None,
              clears |-> FALSE, unwired |-> FALSE, fine |-> b]
  BY DEF Ask
<1> HIDE DEF b
<1>4. /\ req' \in Request /\ req'.route = name /\ req'.what = what /\ req'.at = 1
      /\ req'.answer = "none" /\ ~req'.committed /\ req'.fine = b /\ req'.cookie = cookie
  BY <1>2, <1>3 DEF Request, Answers, BackendTyped
<1>5. Told(req')
  <2>1. ASSUME ~Purely(req') PROVE StepOf(req') # "relist"
    BY <1>1, <1>4, <2>1 DEF Purely, StepOf
  <2> QED
    BY <1>4, <2>1 DEF Told
<1>6. req'.at \in 1..Len(RouteOf(req'.route).steps)
  <2> DEFINE n == Len(RouteOf(name).steps)
  <2>0. n \in 1..5
    BY <1>1
  <2> HIDE DEF n
  <2>1. 1 \in 1..n
    BY <2>0
  <2> QED
    BY <1>4, <2>1 DEF n
<1>7. RequestSound(req')
  BY <1>4, <1>5, <1>6 DEF RequestSound
<1> QED
  BY <1>2, <1>4, <1>7 DEF ReqInv, FineSoFar, Healthy

-----------------------------------------------------------------------------
(* The pages and the wizard.                                               *)

PagesTyped ==
    /\ at \in [url : Urls, phase : {"asked", "render", "user", "shown"}]
    /\ step \in 0..3
    /\ visit \in [made : SUBSET Things, again : SUBSET Things]

StepFor(what) ==
    IF what = "workspace" THEN 0 ELSE IF what \in Invites THEN 1 ELSE IF what = "project" THEN 2 ELSE 3

\* What was made for good: the wizard is past the step that makes it, or it is there
\* and would be refused.
ForGood ==
    \A t \in visit.made : IF t \in {"workspace", "project"} THEN step > StepFor(t) ELSE t \in stored

\* The wizard waits at the step whose request it sent, and asks for nothing else; what
\* its request has made it had not made for good.
WizardInv ==
    /\ ~Idle => at.phase = "shown"
    /\ at.phase = "user" => at.url \in {"dashboard", "overview"}
    /\ ~Idle /\ req.what # None =>
         /\ Shown("onboarding") /\ step = StepFor(req.what)
         /\ req.committed => req.what \notin visit.made
    /\ ~Idle /\ Shown("onboarding") => req.what # None
    /\ Shown("onboarding") => ForGood
    /\ visit.again = {}

BrowserInv == BackendTyped /\ ReqInv /\ PagesTyped /\ WizardInv

LEMMA RequestIsOne == \A r \in Request : r # NoRequest
  BY DEF Request, NoRequest

LEMMA BrowserStarts == Init => BrowserInv
<1> SUFFICES ASSUME Init PROVE BrowserInv
  OBVIOUS
<1>1. BackendTyped
  BY DEF Init, BackendTyped
<1>2. ReqInv /\ Idle
  BY DEF Init, ReqInv, Idle
<1>3. PagesTyped
  BY DEF Init, PagesTyped, At_, NewVisit, Urls
<1>4. WizardInv
  BY <1>2 DEF Init, WizardInv, At_, NewVisit, Shown
<1> QED
  BY <1>1, <1>2, <1>3, <1>4 DEF BrowserInv

\* A page on its way is of no request.
LEMMA RenderKeeps == ASSUME BrowserInv, Render PROVE BrowserInv'
<1>1. /\ PagesTyped /\ WizardInv /\ ReqInv /\ BackendTyped
  BY DEF BrowserInv
<1>2. UNCHANGED server
  BY DEF Render, proxy, LandingPage, SignInPage, DashboardLayout, DashboardUser, OnboardingPage
<1>3. ReqInv' /\ BackendTyped' /\ (Idle' <=> Idle)
  BY <1>1, <1>2 DEF server, ReqInv, BackendTyped, Idle, FineSoFar, Fine, Workspaces
<1>4. at.phase # "shown"
  BY DEF Render, proxy, LandingPage, SignInPage, DashboardLayout, DashboardUser, OnboardingPage, At_
<1>5. Idle
  BY <1>1, <1>4 DEF WizardInv
<1>6. CASE UNCHANGED <<step, visit>> /\ (at.url = "onboarding" => ~(at'.phase = "shown"))
  <2>1. at' \in [url : Urls, phase : {"asked", "render", "user", "shown"}]
    BY <1>1, <1>6 DEF Render, proxy, LandingPage, SignInPage, DashboardLayout, DashboardUser,
         OnboardingPage, At_, Go, Urls, PagesTyped
  <2>2. at'.phase = "user" => at'.url \in {"dashboard", "overview"}
    BY <1>1 DEF Render, proxy, LandingPage, SignInPage, DashboardLayout, DashboardUser,
         OnboardingPage, At_, Go, Urls, PagesTyped
  <2>3. at'.phase = "shown" => at'.url # "onboarding"
    BY <1>1, <1>6 DEF Render, proxy, LandingPage, SignInPage, DashboardLayout, DashboardUser,
         OnboardingPage, At_, Go, Urls, PagesTyped, WizardInv
  <2>4. PagesTyped'
    BY <1>1, <1>6, <2>1 DEF PagesTyped
  <2>5. WizardInv'
    BY <1>1, <1>3, <1>5, <1>6, <2>2, <2>3 DEF WizardInv, Shown, At_
  <2> QED
    BY <1>3, <2>4, <2>5 DEF BrowserInv
<1>7. CASE /\ at = At_("onboarding", "render") /\ at' = [at EXCEPT !.phase = "shown"]
           /\ step' = 0 /\ visit' = NewVisit
  <2>1. PagesTyped'
    BY <1>1, <1>7 DEF PagesTyped, At_, NewVisit, Urls
  <2>2. WizardInv'
    BY <1>3, <1>5, <1>7 DEF WizardInv, At_, NewVisit, ForGood
  <2> QED
    BY <1>3, <2>1, <2>2 DEF BrowserInv
<1> QED
  BY <1>1, <1>6, <1>7 DEF Render, proxy, LandingPage, SignInPage, DashboardLayout, DashboardUser, OnboardingPage,
       At_, Go, WizardInv, PagesTyped

\* A page sends one of its requests.
LEMMA SendsKeeps ==
    ASSUME BrowserInv, NEW url, Sends(url), NEW name \in RouteNames, NEW what \in Things \cup {None},
           NEW wellFormed \in BOOLEAN, Ask(name, what, wellFormed),
           what # None => /\ name \in Makers /\ (name = "invites_POST" <=> what \in Invites)
                          /\ url = "onboarding" /\ step = StepFor(what),
           what = None => url # "onboarding"
    PROVE  BrowserInv'
<1>1. PagesTyped /\ WizardInv /\ BackendTyped
  BY DEF BrowserInv
<1>2. UNCHANGED <<live, account, joined, stored, cookie, up, at, step, visit>> /\ Shown(url)
  BY DEF Sends, backend
<1>3. ReqInv' /\ req'.what = what /\ ~req'.committed
  BY <1>1, <1>2, AskFits
<1>4. BackendTyped' /\ PagesTyped'
  BY <1>1, <1>2 DEF BackendTyped, PagesTyped
<1>5. WizardInv'
  BY <1>1, <1>2, <1>3 DEF WizardInv, Shown, At_, ForGood
<1> QED
  BY <1>3, <1>4, <1>5 DEF BrowserInv

LEMMA ClientKeeps == ASSUME BrowserInv, Client PROVE BrowserInv'
<1>1. PagesTyped /\ WizardInv /\ ReqInv /\ BackendTyped
  BY DEF BrowserInv
<1>2. CASE postAuth
  <2>1. Sends("auth") /\ Ask("session_POST", None, TRUE)
    BY <1>2 DEF postAuth
  <2>2. "session_POST" \in RouteNames
    BY NamesAreRoutes
  <2>3. "auth" # "onboarding" /\ None \in Things \cup {None}
    OBVIOUS
  <2> QED
    BY <2>1, <2>2, <2>3, SendsKeeps
<1>3. CASE signOut
  <2>1. Sends("overview") /\ Ask("session_DELETE", None, TRUE)
    BY <1>3 DEF signOut
  <2>2. "session_DELETE" \in RouteNames
    BY NamesAreRoutes
  <2>3. "overview" # "onboarding" /\ None \in Things \cup {None}
    OBVIOUS
  <2> QED
    BY <2>1, <2>2, <2>3, SendsKeeps
<1>4. CASE signOutEverywhere
  <2>1. Sends("overview") /\ Ask("session_PATCH", None, TRUE)
    BY <1>4 DEF signOutEverywhere
  <2>2. "session_PATCH" \in RouteNames
    BY NamesAreRoutes
  <2>3. "overview" # "onboarding" /\ None \in Things \cup {None}
    OBVIOUS
  <2> QED
    BY <2>1, <2>2, <2>3, SendsKeeps
<1>5. CASE handleDelete
  <2>1. Sends("overview") /\ Ask("account_DELETE", None, TRUE)
    BY <1>5 DEF handleDelete
  <2>2. "account_DELETE" \in RouteNames
    BY NamesAreRoutes
  <2>3. "overview" # "onboarding" /\ None \in Things \cup {None}
    OBVIOUS
  <2> QED
    BY <2>1, <2>2, <2>3, SendsKeeps
<1>6. CASE PageRequest
  <2>1. PICK name \in DOMAIN PageRoutes, wellFormed \in BOOLEAN : Ask(name, None, wellFormed)
    BY <1>6 DEF PageRequest
  <2>2. Sends("overview") /\ name \in RouteNames
    BY <1>6, NamesAreRoutes DEF PageRequest
  <2> QED
    BY <2>1, <2>2, SendsKeeps
<1>7. CASE createWorkspace
  <2>1. "workspace" \in Things \cup {None} /\ "workspace" # None /\ "workspace" \notin Invites
    BY BrowserAssumption DEF Invites
  <2>2. Sends("onboarding") /\ step = 0 /\ Ask("workspace_POST", "workspace", TRUE)
    BY <1>7 DEF createWorkspace
  <2>3. step = StepFor("workspace")
    BY <2>2 DEF StepFor
  <2> QED
    BY <2>1, <2>2, <2>3, SendsKeeps, NamesAreRoutes DEF Makers
<1>8. CASE sendInvites
  <2>1. PICK t \in Invites : Ask("invites_POST", t, TRUE)
    BY <1>8 DEF sendInvites, Invites
  <2>2. t \in Things \cup {None} /\ t # None
    BY BrowserAssumption DEF Invites
  <2>3. Sends("onboarding") /\ step = StepFor(t)
    BY <1>8 DEF sendInvites, StepFor, Invites
  <2> QED
    BY <2>1, <2>2, <2>3, SendsKeeps, NamesAreRoutes DEF Makers
<1>9. CASE createProject
  <2>1. "project" \in Things \cup {None} /\ "project" # None /\ "project" \notin Invites
    BY BrowserAssumption DEF Invites
  <2>2. Sends("onboarding") /\ step = 2 /\ Ask("projects_POST", "project", TRUE)
    BY <1>9 DEF createProject
  <2>3. step = StepFor("project")
    BY <2>1, <2>2 DEF StepFor
  <2> QED
    BY <2>1, <2>2, <2>3, SendsKeeps, NamesAreRoutes DEF Makers
<1>10. CASE createWelcomePage
  <2>1. "page" \in Things \cup {None} /\ "page" # None /\ "page" \notin Invites
    BY BrowserAssumption DEF Invites
  <2>2. Sends("onboarding") /\ step = 3 /\ Ask("pages_POST", "page", TRUE)
    BY <1>10 DEF createWelcomePage
  <2>3. step = StepFor("page")
    BY <2>1, <2>2 DEF StepFor
  <2> QED
    BY <2>1, <2>2, <2>3, SendsKeeps, NamesAreRoutes DEF Makers
<1>11. CASE Skip \/ SendsNobody
  <2>1. UNCHANGED server /\ UNCHANGED <<at, visit>> /\ Idle /\ step \in {1, 2} /\ step' = step + 1
    BY <1>11 DEF Skip, SendsNobody
  <2>2. ReqInv' /\ BackendTyped' /\ Idle'
    BY <1>1, <2>1 DEF server, ReqInv, BackendTyped, Idle
  <2>3. PagesTyped'
    BY <1>1, <2>1 DEF PagesTyped
  <2>4. WizardInv'
    <3>1. Shown("onboarding")' => ForGood'
      <4> SUFFICES ASSUME Shown("onboarding") PROVE ForGood'
        BY <2>1 DEF Shown
      <4>1. ForGood /\ UNCHANGED stored
        BY <1>1, <2>1 DEF WizardInv, server
      <4>2. \A t : StepFor(t) \in 0..3
        BY DEF StepFor
      <4> QED
        BY <2>1, <4>1, <4>2 DEF ForGood
    <3> QED
      BY <1>1, <2>1, <2>2, <3>1 DEF WizardInv, Shown
  <2> QED
    BY <2>2, <2>3, <2>4 DEF BrowserInv
<1>12. ASSUME NEW url \in Urls, Visit(url) PROVE BrowserInv'
  <2>1. /\ UNCHANGED server /\ Idle /\ at' = [url |-> url, phase |-> "asked"]
        /\ step' = 0 /\ visit' = [made |-> {}, again |-> {}]
    BY <1>12 DEF Visit, Go, At_, NewVisit
  <2>2. ReqInv' /\ BackendTyped' /\ Idle'
    BY <1>1, <2>1 DEF server, ReqInv, BackendTyped, Idle
  <2>3. PagesTyped'
    BY <2>1 DEF PagesTyped
  <2>4. WizardInv'
    BY <2>1, <2>2 DEF WizardInv, Shown, At_
  <2> QED
    BY <2>2, <2>3, <2>4 DEF BrowserInv
<1> QED
  BY <1>2, <1>3, <1>4, <1>5, <1>6, <1>7, <1>8, <1>9, <1>10, <1>11, <1>12 DEF Client

\* A request that is over, and the page that stays or leaves with it.
LEMMA DoneKeeps ==
    ASSUME BrowserInv, Done, cookie' \in Tokens \cup {None}
    PROVE  ReqInv' /\ BackendTyped' /\ Idle'
<1>1. req' = NoRequest /\ UNCHANGED <<live, account, joined, stored, up>>
  BY DEF Done, backend
<1>2. ReqInv' /\ Idle'
  BY <1>1 DEF ReqInv, Idle
<1>3. BackendTyped'
  BY <1>1 DEF BrowserInv, BackendTyped
<1> QED
  BY <1>2, <1>3

LEMMA LeavingKeeps ==
    ASSUME BrowserInv, Idle', UNCHANGED <<step, visit, stored>>, UNCHANGED at \/ (\E url \in Urls : Go(url))
    PROVE  PagesTyped' /\ WizardInv'
<1>1. PagesTyped /\ WizardInv
  BY DEF BrowserInv
<1>2. CASE UNCHANGED at
  BY <1>1, <1>2 DEF PagesTyped, WizardInv, Shown, ForGood
<1>3. CASE \E url \in Urls : Go(url)
  <2>1. PICK url \in Urls : at' = [url |-> url, phase |-> "asked"]
    BY <1>3 DEF Go, At_
  <2>2. PagesTyped'
    BY <1>1, <2>1 DEF PagesTyped
  <2>3. WizardInv'
    BY <1>1, <2>1 DEF WizardInv, Shown, At_
  <2> QED
    BY <2>2, <2>3
<1> QED
  BY <1>2, <1>3

\* The history of an answer: nothing is made again, and what is now made for good is
\* behind the step the wizard goes to, or is there.
LEMMA NotedKeeps ==
    ASSUME BrowserInv, ~Idle, req.what # None, NEW ok \in BOOLEAN, Noted(ok), UNCHANGED stored,
           step' \in 0..3, step' >= step, ok /\ req.what \in {"workspace", "project"} => step' > step
    PROVE  /\ visit' \in [made : SUBSET Things, again : SUBSET Things]
           /\ visit'.again = {} /\ ForGood' /\ visit'.made \subseteq visit.made \cup {req.what}
<1>1. PagesTyped /\ WizardInv /\ req.what \in Things
  BY DEF BrowserInv, ReqInv, RequestSound, Request
<1>2. /\ ForGood /\ step = StepFor(req.what) /\ visit.again = {}
      /\ req.committed => req.what \notin visit.made
  BY <1>1 DEF WizardInv
<1>3. visit \in [made : SUBSET Things, again : SUBSET Things] /\ step \in 0..3
  BY <1>1 DEF PagesTyped
<1>4. \A t : StepFor(t) \in 0..3
  BY DEF StepFor
<1>5. \A t \in visit.made : IF t \in {"workspace", "project"} THEN step' > StepFor(t) ELSE t \in stored'
  BY <1>2, <1>3, <1>4 DEF ForGood
<1>6. CASE ~req.committed
  <2>1. visit' = visit
    BY <1>6 DEF Noted
  <2> QED
    BY <1>2, <1>3, <1>5, <2>1 DEF ForGood
<1>7. CASE req.committed
  <2> DEFINE m == IF MadeForGood(ok) THEN visit.made \cup {req.what} ELSE visit.made
             a == visit.again \cup (visit.made \cap {req.what})
  <2>1. visit' = [made |-> m, again |-> a]
    BY <1>7 DEF Noted
  <2>2. a = {} /\ m \subseteq Things /\ m \subseteq visit.made \cup {req.what}
    BY <1>1, <1>2, <1>3, <1>7
  <2>3. MadeForGood(ok) =>
          IF req.what \in {"workspace", "project"} THEN step' > StepFor(req.what) ELSE req.what \in stored'
    BY <1>2 DEF MadeForGood
  <2>4. \A t \in m : IF t \in {"workspace", "project"} THEN step' > StepFor(t) ELSE t \in stored'
    BY <1>5, <2>3
  <2> HIDE DEF m, a
  <2>5. visit'.made = m /\ visit'.again = a
    BY <2>1
  <2> QED
    BY <2>1, <2>2, <2>4, <2>5 DEF ForGood
<1> QED
  BY <1>6, <1>7

LEMMA InviteAnswerKeeps ==
    ASSUME BrowserInv, Answered, NEW ok \in BOOLEAN, InviteAnswer(ok), cookie' \in Tokens \cup {None}
    PROVE  BrowserInv'
<1>1. PagesTyped /\ WizardInv /\ RequestSound(req) /\ BackendTyped /\ ~Idle
  BY DEF BrowserInv, ReqInv, Answered
<1>2. req.what \in Invites /\ req.what # None /\ req.route = "invites_POST" /\ UNCHANGED at /\ Noted(ok)
  BY <1>1 DEF InviteAnswer, RequestSound
<1>3. Shown("onboarding") /\ step = 1
  BY <1>1, <1>2 DEF WizardInv, StepFor, Invites
<1>6. UNCHANGED stored /\ step' \in {1, 2}
  BY <1>3 DEF InviteAnswer, Done, backend
<1>7. /\ visit' \in [made : SUBSET Things, again : SUBSET Things]
      /\ visit'.again = {} /\ ForGood'
  BY <1>1, <1>2, <1>3, <1>6, NotedKeeps DEF Invites
<1>8. PagesTyped'
  BY <1>1, <1>2, <1>6, <1>7 DEF PagesTyped
<1>4. CASE ok /\ req.what = "invite1"
  <2>1. Ask("invites_POST", "invite2", TRUE) /\ UNCHANGED <<live, account, joined, stored, up, step>>
    BY <1>4 DEF InviteAnswer, backend
  <2>2. "invite2" \in Things \cup {None} /\ "invite2" \in Invites /\ "invite2" # None
    BY BrowserAssumption DEF Invites
  <2>3. ReqInv' /\ req'.what = "invite2" /\ ~req'.committed
    BY <1>1, <2>1, <2>2, AskFits, NamesAreRoutes DEF Makers
  <2>4. BackendTyped'
    BY <1>1, <1>2, <2>1 DEF BackendTyped
  <2>5. WizardInv'
    BY <1>1, <1>2, <1>3, <1>7, <2>1, <2>2, <2>3 DEF WizardInv, Shown, StepFor, Invites, At_
  <2> QED
    BY <1>8, <2>3, <2>4, <2>5 DEF BrowserInv
<1>5. CASE ~(ok /\ req.what = "invite1")
  <2>1. Done
    BY <1>5 DEF InviteAnswer
  <2>2. ReqInv' /\ BackendTyped' /\ Idle'
    BY <2>1, DoneKeeps
  <2>4. WizardInv'
    BY <1>1, <1>2, <1>7, <2>2 DEF WizardInv, Shown
  <2> QED
    BY <1>8, <2>2, <2>4 DEF BrowserInv
<1> QED
  BY <1>4, <1>5

LEMMA WizardAnswerKeeps ==
    ASSUME BrowserInv, Answered, NEW ok \in BOOLEAN, WizardAnswer(ok), cookie' \in Tokens \cup {None}
    PROVE  BrowserInv'
<1>1. PagesTyped /\ WizardInv /\ RequestSound(req) /\ ~Idle
  BY DEF BrowserInv, ReqInv, Answered
<1>2. /\ req.what \in {"workspace", "project", "page"} /\ req.what # None /\ Noted(ok) /\ Done
      /\ step' = IF ok THEN (step + 1) % 4 ELSE step
      /\ (ok /\ req.what = "page" /\ Go("overview")) \/ UNCHANGED at
      /\ (ok /\ req.what = "page") => Go("overview")
  BY BrowserAssumption DEF WizardAnswer
<1>3. Shown("onboarding") /\ step = StepFor(req.what) /\ at.phase = "shown" /\ ForGood
  BY <1>1, <1>2 DEF WizardInv
<1>4. ReqInv' /\ BackendTyped' /\ Idle' /\ UNCHANGED stored
  BY <1>2, DoneKeeps DEF Done, backend
<1>5. /\ step \in 0..3 /\ at.url = "onboarding"
      /\ at \in [url : Urls, phase : {"asked", "render", "user", "shown"}]
  BY <1>1, <1>3 DEF PagesTyped, Shown, At_
<1>6. /\ step' \in 0..3
      /\ ~(ok /\ req.what = "page") => step' >= step
      /\ ok /\ req.what \in {"workspace", "project"} => step' > step
  BY <1>2, <1>3, <1>5 DEF StepFor, Invites
<1>7. CASE ok /\ req.what = "page"
  <2>1. at' = [url |-> "overview", phase |-> "asked"]
    BY <1>2, <1>7 DEF Go, At_
  <2>2. visit' \in [made : SUBSET Things, again : SUBSET Things] /\ visit'.again = {}
    <3>1. visit \in [made : SUBSET Things, again : SUBSET Things] /\ req.what \in Things
      BY <1>1, <1>2 DEF PagesTyped, RequestSound, Request
    <3>2. visit.again = {} /\ (req.committed => req.what \notin visit.made)
      BY <1>1, <1>2 DEF WizardInv
    <3>3. CASE ~req.committed
      BY <1>2, <3>1, <3>2, <3>3 DEF Noted
    <3>4. CASE req.committed
      <4> DEFINE m == IF MadeForGood(ok) THEN visit.made \cup {req.what} ELSE visit.made
                 a == visit.again \cup (visit.made \cap {req.what})
      <4>1. visit' = [made |-> m, again |-> a]
        BY <1>2, <3>4 DEF Noted
      <4>2. a = {} /\ m \subseteq Things
        BY <3>1, <3>2, <3>4
      <4> HIDE DEF m, a
      <4> QED
        BY <4>1, <4>2
    <3> QED
      BY <3>3, <3>4
  <2>3. PagesTyped'
    BY <1>6, <2>1, <2>2 DEF PagesTyped, Urls
  <2>4. WizardInv'
    BY <1>4, <2>1, <2>2 DEF WizardInv, Shown, At_
  <2> QED
    BY <1>4, <2>3, <2>4 DEF BrowserInv
<1>8. CASE ~(ok /\ req.what = "page")
  <2>1. UNCHANGED at
    BY <1>2, <1>8
  <2>2. /\ visit' \in [made : SUBSET Things, again : SUBSET Things]
        /\ visit'.again = {} /\ ForGood'
    BY <1>1, <1>2, <1>4, <1>6, <1>8, NotedKeeps
  <2>3. PagesTyped'
    BY <1>5, <1>6, <2>1, <2>2 DEF PagesTyped
  <2>4. WizardInv'
    BY <1>1, <1>4, <2>1, <2>2 DEF WizardInv, Shown
  <2> QED
    BY <1>4, <2>3, <2>4 DEF BrowserInv
<1> QED
  BY <1>7, <1>8

LEMMA HandledKeeps ==
    ASSUME BrowserInv, Answered, NEW ok \in BOOLEAN, Handled(ok), cookie' \in Tokens \cup {None}
    PROVE  BrowserInv'
<1>1. CASE AuthAnswer(ok) \/ SignOutAnswer \/ AccountAnswer(ok) \/ PageAnswer
  <2>1. Done /\ UNCHANGED <<step, visit, stored>> /\ (UNCHANGED at \/ (\E url \in Urls : Go(url)))
    BY <1>1 DEF AuthAnswer, SignOutAnswer, AccountAnswer, PageAnswer, Urls, Done, backend
  <2>2. ReqInv' /\ BackendTyped' /\ Idle'
    BY <2>1, DoneKeeps
  <2>3. PagesTyped' /\ WizardInv'
    BY <2>1, <2>2, LeavingKeeps
  <2> QED
    BY <2>2, <2>3 DEF BrowserInv
<1>2. CASE InviteAnswer(ok)
  BY <1>2, InviteAnswerKeeps
<1>3. CASE WizardAnswer(ok)
  BY <1>3, WizardAnswerKeeps
<1> QED
  BY <1>1, <1>2, <1>3 DEF Handled

LEMMA BrowserKeeps == ASSUME BrowserInv, Next PROVE BrowserInv'
<1>1. CASE Render
  BY <1>1, RenderKeeps
<1>2. CASE Client
  BY <1>2, ClientKeeps
<1>3. CASE Arrives
  <2>1. req.granted \in Tokens \cup {None} /\ cookie \in Tokens \cup {None}
    BY <1>3 DEF Arrives, Answered, BrowserInv, ReqInv, RequestSound, Request, BackendTyped
  <2>2. cookie' \in Tokens \cup {None}
    BY <1>3, <2>1 DEF Arrives, SetCookie
  <2>3. Ok \in BOOLEAN
    BY DEF Ok
  <2> QED
    BY <1>3, <2>2, <2>3, HandledKeeps DEF Arrives
<1>4. CASE Breaks
  <2>1. cookie' \in Tokens \cup {None}
    BY <1>4 DEF Breaks, BrowserInv, BackendTyped
  <2> QED
    BY <1>4, <2>1, HandledKeeps DEF Breaks
<1>5. CASE Serve /\ UNCHANGED <<at, step, visit>>
  <2>1. PagesTyped /\ WizardInv /\ ReqInv /\ BackendTyped
    BY DEF BrowserInv
  <2>2. ReqInv' /\ BackendTyped' /\ ~Idle /\ Follows
    BY <1>5, <2>1, ServeKeeps, ServeFollows
  <2>3. PagesTyped'
    BY <1>5, <2>1 DEF PagesTyped
  <2>4. Shown("onboarding") => ForGood'
    BY <1>5, <2>1, <2>2 DEF WizardInv, ForGood, Follows
  <2>5. req.what # None => (req'.committed => req.what \notin visit.made)
    <3> SUFFICES ASSUME req.what # None, req'.committed, req.what \in visit.made PROVE FALSE
      OBVIOUS
    <3>1. ForGood /\ step = StepFor(req.what) /\ ~req.committed /\ step \in 0..3
      BY <2>1, <2>2 DEF WizardInv, PagesTyped
    <3>2. ~Refusable(req.what)
      BY <2>2, <3>1 DEF Follows
    <3>3. req.what \in {"workspace", "invite1", "invite2", "project", "page"}
      BY <2>1, <2>2, BrowserAssumption DEF ReqInv, RequestSound, Request
    <3> QED
      BY <3>1, <3>2, <3>3 DEF ForGood, Refusable
  <2>6. WizardInv'
    BY <1>5, <2>1, <2>2, <2>4, <2>5 DEF WizardInv, Shown, Follows
  <2> QED
    BY <2>2, <2>3, <2>6 DEF BrowserInv
<1>6. CASE Outside /\ UNCHANGED <<at, step>> /\ Lapsing
  <2>1. PagesTyped /\ WizardInv /\ ReqInv /\ BackendTyped
    BY DEF BrowserInv
  <2>2. /\ ReqInv' /\ BackendTyped' /\ (Idle' <=> Idle)
        /\ ~Idle => req'.what = req.what /\ req'.committed = req.committed
    BY <1>6, <2>1, OutsideKeeps
  <2> DEFINE m == visit.made \ (stored \ stored')
  <2>3. visit' = [visit EXCEPT !.made = m] /\ visit \in [made : SUBSET Things, again : SUBSET Things]
    BY <1>6, <2>1 DEF Lapsing, PagesTyped
  <2>4. m \subseteq visit.made /\ \A t \in m : t \in stored => t \in stored'
    OBVIOUS
  <2> HIDE DEF m
  <2>5. /\ visit' \in [made : SUBSET Things, again : SUBSET Things]
        /\ visit'.made = m /\ visit'.again = visit.again
    BY <2>3, <2>4
  <2>6. PagesTyped'
    BY <1>6, <2>1, <2>5 DEF PagesTyped
  <2>7. Shown("onboarding") => ForGood'
    BY <1>6, <2>1, <2>4, <2>5 DEF WizardInv, ForGood
  <2>8. WizardInv'
    BY <1>6, <2>1, <2>2, <2>4, <2>5, <2>7 DEF WizardInv, Shown
  <2> QED
    BY <2>2, <2>6, <2>8 DEF BrowserInv
<1> QED
  BY <1>1, <1>2, <1>3, <1>4, <1>5, <1>6 DEF Next

LEMMA BrowserHolds == Spec => []BrowserInv
<1>1. BrowserInv /\ UNCHANGED vars => BrowserInv'
  BY DEF vars, BrowserInv, BackendTyped, ReqInv, Idle, FineSoFar, Fine, Workspaces,
         PagesTyped, WizardInv, Shown, ForGood
<1> QED
  BY <1>1, BrowserStarts, BrowserKeeps, PTL DEF Spec

-----------------------------------------------------------------------------
(* What holds of every behaviour.                                          *)

\* The browser, its pages and the request in flight keep their types, and a page that
\* waits for an answer is shown.
THEOREM BrowserTyped == Spec => []TypeOK
<1>1. BrowserInv => TypeOK
  <2> SUFFICES ASSUME BrowserInv PROVE TypeOK
    OBVIOUS
  <2>1. BackendTyped /\ PagesTyped /\ (~Idle => at.phase = "shown") /\ (~Idle => RequestSound(req))
    BY DEF BrowserInv, ReqInv, WizardInv
  <2>2. req \in {NoRequest} \cup Request
    BY <2>1 DEF Idle, RequestSound
  <2>3. ~Idle => req.at \in DOMAIN RouteOf(req.route).steps
    <3> SUFFICES ASSUME ~Idle PROVE req.at \in DOMAIN RouteOf(req.route).steps
      OBVIOUS
    <3>1. req.route \in RouteNames /\ req.at \in 1..Len(RouteOf(req.route).steps)
      BY <2>1 DEF RequestSound, Request
    <3> QED
      BY <3>1, RouteFacts
  <2> QED
    BY <2>1, <2>2, <2>3 DEF TypeOK, BffTypeOK, BackendTyped, PagesTyped
<1> QED
  BY <1>1, BrowserHolds, PTL

\* A write answered with success is stored, unless the handler edited its seeded arrays;
\* one answered with an error is not, unless the answer was lost on the way: whatever the
\* backend, the connection and the other devices do between the steps of the handlers.
THEOREM AcknowledgementsAreTrue == Spec => []AcknowledgedMeansStored
<1>1. BrowserInv => AcknowledgedMeansStored
  <2> SUFFICES ASSUME BrowserInv, Answered, Writes(req.route)
               PROVE  /\ req.answer \in {"data", "empty", "seeded"} => req.committed \/ req.unwired
                      /\ req.committed => req.answer \in {"data", "empty", "500"}
    BY DEF AcknowledgedMeansStored
  <2>1. RequestSound(req) /\ req.answer # "none" /\ req.route \in RouteNames
    BY DEF BrowserInv, ReqInv, Answered, RequestSound, Request
  <2>2. ~Purely(req)
    BY <2>1, RouteFacts DEF Writes, Purely, ReadsOnly
  <2> QED
    BY <2>1, <2>2 DEF RequestSound, Told
<1> QED
  BY <1>1, BrowserHolds, PTL

\* A session the backend accepts, in a workspace and in reach throughout, is never given
\* an empty list, built-in rows, a 401 or a 404 in place of what the backend has.
THEOREM HealthySessionsAreServed == Spec => []HealthySessionsSeeTheBackend
<1>1. BrowserInv => HealthySessionsSeeTheBackend
  BY DEF BrowserInv, ReqInv, Healthy, HealthySessionsSeeTheBackend, Answered
<1> QED
  BY <1>1, BrowserHolds, PTL

\* However the steps of the wizard fail and are tried again, and whatever becomes of the
\* invites, the pages and the memberships meanwhile, one visit makes nothing twice but a
\* workspace or project whose answer was lost, and what is there no more.
THEOREM WizardRepeatsNothing == Spec => []WizardNeverRepeatsItself
<1>1. BrowserInv => WizardNeverRepeatsItself
  BY DEF BrowserInv, WizardInv, WizardNeverRepeatsItself
<1> QED
  BY <1>1, BrowserHolds, PTL
=============================================================================
