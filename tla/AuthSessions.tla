---------------------------- MODULE AuthSessions ----------------------------
(***************************************************************************)
(* Accounts and their revocable sessions: register, login, refresh         *)
(* rotation, logout, logout-all and account deletion.                      *)
(*                                                                         *)
(* One server process runs the handlers on one event loop.  A handler's    *)
(* body is therefore one step, except where it awaits: bcrypt runs on a    *)
(* worker thread (register, login, delete), and get_current_user runs in   *)
(* the thread pool before the body starts.  Those points split a handler   *)
(* into the stages kept in req.                                            *)
(*                                                                         *)
(* A session row is named by its jti.  The access and the refresh token of *)
(* one row share the jti and, once handed out, stay in circulation when    *)
(* the row is revoked or deleted: any later request may present them.      *)
(***************************************************************************)
EXTENDS FiniteSets

CONSTANTS
    Users,      \* ids of user rows
    Emails,     \* addresses people register with
    Jtis,       \* session row ids
    Requests,   \* requests in flight at the same time
    NoUser, NoEmail, NoJti

ASSUME Distinct ==
    /\ NoUser \notin Users
    /\ NoEmail \notin Emails
    /\ NoJti \notin Jtis

VARIABLES
    account,    \* users: does the row exist, and is it live or a tombstone
    email,      \* users.email; NoEmail stands for the tombstone address
    status,     \* auth_sessions: row absent, live, revoked_at set, deleted
    rotated,    \* auth_sessions.rotated
    userOf,     \* auth_sessions.user_id, also the sub claim of the tokens
    family,     \* auth_sessions.family_id
    expired,    \* jtis whose tokens are past their exp claim
    req,        \* the stage of each request in flight
    ended       \* history: lineages signed out, replayed or purged

rowVars == <<status, rotated, userOf, family>>
vars == <<account, email, rowVars, expired, req, ended>>

Idle == [at |-> "idle", user |-> NoUser, email |-> NoEmail]

\* What a handler holds across an await: an address or a user it has read.
Request ==
    {Idle}
        \cup [at : {"hashing"}, user : {NoUser}, email : Emails]
        \cup [at : {"verifying_login", "authorised_logout_all", "authorised_delete",
                    "verifying_delete"},
              user : Users, email : {NoEmail}]

TypeOK ==
    /\ account \in [Users -> {"absent", "active", "deleted"}]
    /\ email \in [Users -> Emails \cup {NoEmail}]
    /\ status \in [Jtis -> {"unissued", "live", "revoked", "deleted"}]
    /\ rotated \in [Jtis -> BOOLEAN]
    /\ userOf \in [Jtis -> Users \cup {NoUser}]
    /\ family \in [Jtis -> Jtis \cup {NoJti}]
    /\ expired \in SUBSET Jtis
    /\ req \in [Requests -> Request]
    /\ ended \in SUBSET Jtis
    /\ \A u \in Users : account[u] = "active" <=> email[u] # NoEmail
    /\ \A j \in Jtis : status[j] = "unissued" <=> userOf[j] = NoUser

Init ==
    /\ account = [u \in Users |-> "absent"]
    /\ email = [u \in Users |-> NoEmail]
    /\ status = [j \in Jtis |-> "unissued"]
    /\ rotated = [j \in Jtis |-> FALSE]
    /\ userOf = [j \in Jtis |-> NoUser]
    /\ family = [j \in Jtis |-> NoJti]
    /\ expired = {}
    /\ req = [r \in Requests |-> Idle]
    /\ ended = {}

-----------------------------------------------------------------------------
(* Rows and tokens.                                                        *)

\* row.family_id or row.id
Root(j) == IF family[j] = NoJti THEN j ELSE family[j]

Decodes(j) == status[j] # "unissued" /\ j \notin expired

\* _decode_token: a readable access token whose row exists and is unrevoked.
Authenticates(j) == Decodes(j) /\ status[j] = "live"

RowsOf(u) == {j \in Jtis : userOf[j] = u /\ status[j] \in {"live", "revoked"}}

EmailTaken(e) == \E u \in Users : email[u] = e

\* create_session_pair: one row, one fresh jti, in a table that already
\* reads `table`.
create_session_pair(j, u, f, table) ==
    /\ status[j] = "unissued"
    /\ status' = [table EXCEPT ![j] = "live"]
    /\ userOf' = [userOf EXCEPT ![j] = u]
    /\ family' = [family EXCEPT ![j] = f]

\* The UPDATE that every kind of revocation issues: unrevoked rows only.
Revoked(rows) ==
    [j \in Jtis |-> IF j \in rows /\ status[j] = "live" THEN "revoked" ELSE status[j]]

Goto(r, stage, u, e) == req' = [req EXCEPT ![r] = [at |-> stage, user |-> u, email |-> e]]
Finish(r) == req' = [req EXCEPT ![r] = Idle]

-----------------------------------------------------------------------------
(* POST /auth/register: look the address up, hash, insert.                 *)

RegisterLookup(r, e) ==
    /\ req[r].at = "idle"
    /\ ~EmailTaken(e)
    /\ Goto(r, "hashing", NoUser, e)
    /\ UNCHANGED <<account, email, rowVars, expired, ended>>

InsertUser(r, u) ==
    /\ req[r].at = "hashing"
    /\ account[u] = "absent"
    /\ ~EmailTaken(req[r].email)
    /\ account' = [account EXCEPT ![u] = "active"]
    /\ email' = [email EXCEPT ![u] = req[r].email]

RegisterInsert(r, u, j) ==
    /\ InsertUser(r, u)
    /\ create_session_pair(j, u, NoJti, status)
    /\ Finish(r)
    /\ UNCHANGED <<rotated, expired, ended>>

\* The address was taken during the hash: the unique index refuses the row.
RegisterConflict(r) ==
    /\ req[r].at = "hashing"
    /\ EmailTaken(req[r].email)
    /\ Finish(r)
    /\ UNCHANGED <<account, email, rowVars, expired, ended>>

-----------------------------------------------------------------------------
(* POST /auth/login: read the user, verify the password, mint.             *)

LoginLookup(r, u) ==
    /\ req[r].at = "idle"
    /\ account[u] = "active"
    /\ Goto(r, "verifying_login", u, NoEmail)
    /\ UNCHANGED <<account, email, rowVars, expired, ended>>

LoginReject(r) ==
    /\ req[r].at = "verifying_login"
    /\ Finish(r)
    /\ UNCHANGED <<account, email, rowVars, expired, ended>>

LoginMint(r, j) ==
    /\ req[r].at = "verifying_login"
    /\ create_session_pair(j, req[r].user, NoJti, status)
    /\ Finish(r)
    /\ UNCHANGED <<account, email, rotated, expired, ended>>

-----------------------------------------------------------------------------
(* POST /auth/refresh: rotate_session runs without an await.               *)

\* Mutant: the claim sets rotated but not revoked_at.
mut_RotateLeavesOldLive(j, k) ==
    /\ Decodes(j)
    /\ ~rotated[j] /\ status[j] = "live"
    /\ rotated' = [rotated EXCEPT ![j] = TRUE]
    /\ create_session_pair(k, userOf[j], Root(j), status)
    /\ UNCHANGED <<account, email, expired, req, ended>>

\* Mutant: only the rotated flag is looked at, so a signed-out row rotates.
mut_RotateSignedOutRow(j, k) ==
    /\ Decodes(j)
    /\ ~rotated[j] /\ status[j] \in {"live", "revoked"}
    /\ rotated' = [rotated EXCEPT ![j] = TRUE]
    /\ create_session_pair(k, userOf[j], Root(j), Revoked({j}))
    /\ UNCHANGED <<account, email, expired, req, ended>>

RefreshRotate(j, k) ==
    /\ Decodes(j)
    /\ ~rotated[j] /\ status[j] = "live"
    /\ rotated' = [rotated EXCEPT ![j] = TRUE]
    /\ create_session_pair(k, userOf[j], Root(j), Revoked({j}))
    /\ UNCHANGED <<account, email, expired, req, ended>>

\* Mutant: row.family_id without the fallback to row.id.
mut_ReplayMissesRootFamily(j) ==
    /\ Decodes(j)
    /\ rotated[j] /\ status[j] = "revoked"
    /\ status' = Revoked({k \in Jtis : family[j] # NoJti /\ family[k] = family[j]})
    /\ ended' = ended \cup {Root(j)}
    /\ UNCHANGED <<account, email, rotated, userOf, family, expired, req>>

\* A token that was already rotated comes back: _revoke_family.
RefreshReplay(j) ==
    /\ Decodes(j)
    /\ rotated[j] /\ status[j] = "revoked"
    /\ status' = Revoked({k \in Jtis : family[k] = Root(j)})
    /\ ended' = ended \cup {Root(j)}
    /\ UNCHANGED <<account, email, rotated, userOf, family, expired, req>>

-----------------------------------------------------------------------------
(* POST /auth/logout and /auth/logout-all.                                 *)

Logout(j) ==
    /\ Decodes(j)
    /\ status[j] = "live"
    /\ status' = Revoked({j})
    /\ ended' = ended \cup {Root(j)}
    /\ UNCHANGED <<account, email, rotated, userOf, family, expired, req>>

\* get_current_user, ahead of the body of either handler.
Authorise(r, j, stage) ==
    /\ req[r].at = "idle"
    /\ Authenticates(j)
    /\ Goto(r, stage, userOf[j], NoEmail)
    /\ UNCHANGED <<account, email, rowVars, expired, ended>>

LogoutAll(r) ==
    LET u == req[r].user IN
    /\ req[r].at = "authorised_logout_all"
    /\ status' = Revoked({j \in Jtis : userOf[j] = u})
    /\ ended' = ended \cup {Root(j) : j \in RowsOf(u)}
    /\ Finish(r)
    /\ UNCHANGED <<account, email, rotated, userOf, family, expired>>

-----------------------------------------------------------------------------
(* DELETE /users/me: read the user, verify the password, purge and         *)
(* anonymise.                                                              *)

DeleteLookup(r) ==
    /\ req[r].at = "authorised_delete"
    /\ IF account[req[r].user] = "active"
       THEN Goto(r, "verifying_delete", req[r].user, NoEmail)
       ELSE Finish(r)
    /\ UNCHANGED <<account, email, rowVars, expired, ended>>

DeleteReject(r) ==
    /\ req[r].at = "verifying_delete"
    /\ Finish(r)
    /\ UNCHANGED <<account, email, rowVars, expired, ended>>

DeleteCommit(r) ==
    LET u == req[r].user IN
    /\ req[r].at = "verifying_delete"
    /\ status' = [j \in Jtis |-> IF j \in RowsOf(u) THEN "deleted" ELSE status[j]]
    /\ account' = [account EXCEPT ![u] = "deleted"]
    /\ email' = [email EXCEPT ![u] = NoEmail]
    /\ ended' = ended \cup {Root(j) : j \in RowsOf(u)}
    /\ Finish(r)
    /\ UNCHANGED <<rotated, userOf, family, expired>>

-----------------------------------------------------------------------------
(* Time and the process.                                                   *)

Expire(j) ==
    /\ Decodes(j)
    /\ expired' = expired \cup {j}
    /\ UNCHANGED <<account, email, rowVars, req, ended>>

\* The process stops: requests in flight are lost, the database is not.
Restart ==
    /\ \E r \in Requests : req[r].at # "idle"
    /\ req' = [r \in Requests |-> Idle]
    /\ UNCHANGED <<account, email, rowVars, expired, ended>>

\* Register commits the user before the session: a stop in between leaves an
\* account that has never had a session.
RegisterCutShort(r, u) ==
    /\ InsertUser(r, u)
    /\ req' = [q \in Requests |-> Idle]
    /\ UNCHANGED <<rowVars, expired, ended>>

\* manage.py create-user, another process on the same database.
ManageCreateUser(u, e) ==
    /\ account[u] = "absent"
    /\ ~EmailTaken(e)
    /\ account' = [account EXCEPT ![u] = "active"]
    /\ email' = [email EXCEPT ![u] = e]
    /\ UNCHANGED <<rowVars, expired, req, ended>>

Next ==
    \/ \E r \in Requests, e \in Emails : RegisterLookup(r, e)
    \/ \E r \in Requests, u \in Users, j \in Jtis : RegisterInsert(r, u, j)
    \/ \E r \in Requests : RegisterConflict(r)
    \/ \E r \in Requests, u \in Users : LoginLookup(r, u)
    \/ \E r \in Requests : LoginReject(r)
    \/ \E r \in Requests, j \in Jtis : LoginMint(r, j)
    \/ \E j, k \in Jtis : RefreshRotate(j, k)
    \/ \E j \in Jtis : RefreshReplay(j)
    \/ \E j \in Jtis : Logout(j)
    \/ \E r \in Requests, j \in Jtis,
          stage \in {"authorised_logout_all", "authorised_delete"} :
          Authorise(r, j, stage)
    \/ \E r \in Requests : LogoutAll(r)
    \/ \E r \in Requests : DeleteLookup(r)
    \/ \E r \in Requests : DeleteReject(r)
    \/ \E r \in Requests : DeleteCommit(r)
    \/ \E j \in Jtis : Expire(j)
    \/ Restart
    \/ \E r \in Requests, u \in Users : RegisterCutShort(r, u)
    \/ \E u \in Users, e \in Emails : ManageCreateUser(u, e)

Spec == Init /\ [][Next]_vars

-----------------------------------------------------------------------------
(* Properties.                                                             *)

\* The chain a lineage stands for: its one live token.
LiveTokens(f) == {j \in Jtis : status[j] = "live" /\ Root(j) = f}
ChainCurrent ==
    [f \in Jtis |-> IF LiveTokens(f) = {} THEN NoJti ELSE CHOOSE j \in LiveTokens(f) : TRUE]
ChainSpent == {j \in Jtis : status[j] \in {"revoked", "deleted"}}

Chain == INSTANCE TokenChain WITH
    Tokens <- Jtis, NoToken <- NoJti, current <- ChainCurrent, spent <- ChainSpent

\* The service keeps the promise of TokenChain: every handler opens, advances
\* or closes chains or leaves them alone, and a spent token stays spent.
ImplementsTokenChain == Chain!Spec

\* A lineage is what one login grew into by rotation: at most one row of it
\* is live at any time, so a refresh token is never good twice.
OneLivePerLineage ==
    \A j, k \in Jtis :
        (status[j] = "live" /\ status[k] = "live" /\ Root(j) = Root(k)) => j = k

\* Once a lineage was signed out (logout of its live token, logout-all),
\* replayed or purged with its account, no token of it is ever good again:
\* not even through a refresh token that was handed out before.
EndedLineageStaysDead ==
    \A j \in Jtis : status[j] = "live" => Root(j) \notin ended

\* No two accounts answer to one address, although registration checks the
\* address before an await and inserts after it.
OneAccountPerEmail ==
    \A u, v \in Users : (email[u] # NoEmail /\ email[u] = email[v]) => u = v

\* "Private data is hard-deleted: memberships, notifications, auth
\* sessions": a deleted account holds no session row.
DeletedAccountHoldsNoSession ==
    \A u \in Users : account[u] = "deleted" => RowsOf(u) = {}

=============================================================================
