-------------------------- MODULE AuthSessionsProofs --------------------------
(***************************************************************************)
(* Theorems about AuthSessions, for any sets of users, addresses, session  *)
(* rows and concurrent requests.                                           *)
(***************************************************************************)
EXTENDS AuthSessions, TLAPS

\* A successor row points at the first row of its lineage; that row was
\* rotated, starts no other lineage and belongs to the same user.
FamilyOK ==
    \A j \in Jtis : family[j] # NoJti =>
        /\ status[j] # "unissued"
        /\ status[family[j]] # "unissued"
        /\ family[family[j]] = NoJti
        /\ rotated[family[j]]
        /\ userOf[j] = userOf[family[j]]

\* The claim sets rotated and revoked_at together.
RotatedIsSpent == \A j \in Jtis : rotated[j] => status[j] \in {"revoked", "deleted"}

EndedIsIssued == \A f \in ended : status[f] # "unissued"

\* The inductive invariant: neither property is inductive without knowing
\* what the family column points at.
SessionInv ==
    /\ FamilyOK
    /\ RotatedIsSpent
    /\ OneLivePerLineage
    /\ EndedIsIssued
    /\ EndedLineageStaysDead

-----------------------------------------------------------------------------
(* The type invariant.                                                     *)

LEMMA InitType == Init => TypeOK
BY Distinct DEF Init, TypeOK, Idle, Request

LEMMA NextType == TypeOK /\ [Next]_vars => TypeOK'
<1> SUFFICES ASSUME TypeOK, [Next]_vars PROVE TypeOK'
  OBVIOUS
<1> USE Distinct DEF TypeOK, Request, Idle, Finish, Goto
<1>1. ASSUME NEW r \in Requests, NEW e \in Emails, RegisterLookup(r, e)
      PROVE  TypeOK'
  BY <1>1 DEF RegisterLookup, rowVars
<1>2. ASSUME NEW r \in Requests, NEW u \in Users, NEW j \in Jtis, RegisterInsert(r, u, j)
      PROVE  TypeOK'
  <2>1. account' \in [Users -> {"absent", "active", "deleted"}]
        /\ email' \in [Users -> Emails \cup {NoEmail}]
        /\ \A v \in Users : account'[v] = "active" <=> email'[v] # NoEmail
    BY <1>2 DEF RegisterInsert, InsertUser
  <2>2. status' \in [Jtis -> {"unissued", "live", "revoked", "deleted"}]
        /\ userOf' \in [Jtis -> Users \cup {NoUser}]
        /\ family' \in [Jtis -> Jtis \cup {NoJti}]
        /\ \A k \in Jtis : status'[k] = "unissued" <=> userOf'[k] = NoUser
    BY <1>2 DEF RegisterInsert, create_session_pair
  <2>3. req' \in [Requests -> Request]
    BY <1>2 DEF RegisterInsert
  <2> QED
    BY <1>2, <2>1, <2>2, <2>3 DEF RegisterInsert
<1>3. ASSUME NEW r \in Requests, RegisterConflict(r)
      PROVE  TypeOK'
  BY <1>3 DEF RegisterConflict, rowVars
<1>4. ASSUME NEW r \in Requests, NEW u \in Users, LoginLookup(r, u)
      PROVE  TypeOK'
  BY <1>4 DEF LoginLookup, rowVars
<1>5. ASSUME NEW r \in Requests, LoginReject(r)
      PROVE  TypeOK'
  BY <1>5 DEF LoginReject, rowVars
<1>6. ASSUME NEW r \in Requests, NEW j \in Jtis, LoginMint(r, j)
      PROVE  TypeOK'
  <2>1. req[r].user \in Users
    BY <1>6 DEF LoginMint
  <2>2. status' \in [Jtis -> {"unissued", "live", "revoked", "deleted"}]
        /\ userOf' \in [Jtis -> Users \cup {NoUser}]
        /\ family' \in [Jtis -> Jtis \cup {NoJti}]
        /\ \A k \in Jtis : status'[k] = "unissued" <=> userOf'[k] = NoUser
    BY <1>6, <2>1 DEF LoginMint, create_session_pair
  <2> QED
    BY <1>6, <2>2 DEF LoginMint
<1>7. ASSUME NEW j \in Jtis, NEW k \in Jtis, RefreshRotate(j, k)
      PROVE  TypeOK'
  <2>1. userOf[j] \in Users /\ Root(j) \in Jtis
    BY <1>7 DEF RefreshRotate, Root
  <2>2. status' \in [Jtis -> {"unissued", "live", "revoked", "deleted"}]
        /\ userOf' \in [Jtis -> Users \cup {NoUser}]
        /\ family' \in [Jtis -> Jtis \cup {NoJti}]
        /\ \A i \in Jtis : status'[i] = "unissued" <=> userOf'[i] = NoUser
    BY <1>7, <2>1 DEF RefreshRotate, create_session_pair, Revoked
  <2> QED
    BY <1>7, <2>2 DEF RefreshRotate
<1>8. ASSUME NEW j \in Jtis, RefreshReplay(j)
      PROVE  TypeOK'
  BY <1>8 DEF RefreshReplay, Revoked, Root
<1>9. ASSUME NEW j \in Jtis, Logout(j)
      PROVE  TypeOK'
  BY <1>9 DEF Logout, Revoked, Root
<1>10. ASSUME NEW r \in Requests, NEW j \in Jtis,
              NEW stage \in {"authorised_logout_all", "authorised_delete"},
              Authorise(r, j, stage)
       PROVE  TypeOK'
  BY <1>10 DEF Authorise, Authenticates, rowVars
<1>11. ASSUME NEW r \in Requests, LogoutAll(r)
       PROVE  TypeOK'
  BY <1>11 DEF LogoutAll, Revoked, Root, RowsOf
<1>12. ASSUME NEW r \in Requests, DeleteLookup(r)
       PROVE  TypeOK'
  BY <1>12 DEF DeleteLookup, rowVars
<1>13. ASSUME NEW r \in Requests, DeleteReject(r)
       PROVE  TypeOK'
  BY <1>13 DEF DeleteReject, rowVars
<1>14. ASSUME NEW r \in Requests, DeleteCommit(r)
       PROVE  TypeOK'
  <2>1. req[r].user \in Users
    BY <1>14 DEF DeleteCommit
  <2> QED
    BY <1>14, <2>1 DEF DeleteCommit, Root, RowsOf
<1>15. ASSUME NEW j \in Jtis, Expire(j)
       PROVE  TypeOK'
  BY <1>15 DEF Expire, rowVars
<1>16. CASE Restart
  BY <1>16 DEF Restart, rowVars
<1>17. ASSUME NEW r \in Requests, NEW u \in Users, RegisterCutShort(r, u)
       PROVE  TypeOK'
  BY <1>17 DEF RegisterCutShort, InsertUser, rowVars
<1>18. ASSUME NEW u \in Users, NEW e \in Emails, ManageCreateUser(u, e)
       PROVE  TypeOK'
  BY <1>18 DEF ManageCreateUser, rowVars
<1>19. CASE UNCHANGED vars
  BY <1>19 DEF vars, rowVars
<1> QED
  BY <1>1, <1>2, <1>3, <1>4, <1>5, <1>6, <1>7, <1>8, <1>9, <1>10, <1>11, <1>12,
     <1>13, <1>14, <1>15, <1>16, <1>17, <1>18, <1>19 DEF Next

\* Every variable keeps its type, and an issued row always has an owner.
THEOREM TypeCorrect == Spec => []TypeOK
BY InitType, NextType, PTL DEF Spec

-----------------------------------------------------------------------------
(* The lineage invariant.                                                  *)

\* A row that nobody issued yet is the first of its own, empty lineage.
LEMMA UnissuedRoot ==
    ASSUME TypeOK, FamilyOK, NEW k \in Jtis, status[k] = "unissued"
    PROVE  /\ family[k] = NoJti
           /\ \A m \in Jtis : status[m] # "unissued" => Root(m) # k
BY Distinct DEF FamilyOK, Root, TypeOK

LEMMA RootIssued ==
    ASSUME TypeOK, FamilyOK, NEW j \in Jtis, status[j] # "unissued"
    PROVE  /\ Root(j) \in Jtis
           /\ status[Root(j)] # "unissued"
           /\ family[Root(j)] = NoJti
           /\ userOf[j] = userOf[Root(j)]
           /\ Root(j) # j => rotated[Root(j)]
BY DEF FamilyOK, Root, TypeOK

\* Minting the first row of a lineage (login, register).
LEMMA MintKeepsInv ==
    ASSUME TypeOK, SessionInv, NEW j \in Jtis, NEW u \in Users,
           create_session_pair(j, u, NoJti, status),
           UNCHANGED <<rotated, ended>>
    PROVE  SessionInv'
<1> USE Distinct DEF TypeOK
<1>1. status[j] = "unissued" /\ family[j] = NoJti
  BY UnissuedRoot DEF SessionInv, create_session_pair
<1>2. family' = family /\ \A m \in Jtis : Root(m)' = Root(m)
  BY <1>1 DEF create_session_pair, Root
<1>3. \A m \in Jtis : m # j => status'[m] = status[m] /\ userOf'[m] = userOf[m]
  BY DEF create_session_pair
<1>4. status'[j] = "live" /\ Root(j) = j
  BY <1>1 DEF create_session_pair, Root
<1>5. \A m \in Jtis : status[m] # "unissued" => Root(m) # j
  BY <1>1, UnissuedRoot DEF SessionInv
<1>6. FamilyOK'
  BY <1>1, <1>2, <1>3, <1>4 DEF SessionInv, FamilyOK
<1>7. RotatedIsSpent'
  BY <1>1, <1>3, <1>4 DEF SessionInv, RotatedIsSpent
<1>8. OneLivePerLineage'
  BY <1>2, <1>3, <1>4, <1>5 DEF SessionInv, OneLivePerLineage
<1>9. EndedIsIssued' /\ EndedLineageStaysDead'
  BY <1>1, <1>2, <1>3, <1>4 DEF SessionInv, EndedIsIssued, EndedLineageStaysDead
<1> QED
  BY <1>6, <1>7, <1>8, <1>9 DEF SessionInv

\* Every step that takes rows out of circulation and mints none.
LEMMA RetireKeepsInv ==
    ASSUME TypeOK, SessionInv,
           NEW F \in SUBSET Jtis, ended' = ended \cup F,
           UNCHANGED <<rotated, userOf, family>>,
           status' \in [Jtis -> {"unissued", "live", "revoked", "deleted"}],
           \A m \in Jtis : status'[m] = status[m]
                              \/ (status[m] = "live" /\ status'[m] = "revoked")
                              \/ (status[m] \in {"live", "revoked"} /\ status'[m] = "deleted"),
           \A f \in F : status[f] # "unissued",
           \A m \in Jtis : status'[m] = "live" => Root(m) \notin F
    PROVE  SessionInv'
<1>1. \A m \in Jtis : Root(m)' = Root(m)
  BY DEF Root
<1>2. \A m \in Jtis : (status'[m] = "unissued") <=> (status[m] = "unissued")
  OBVIOUS
<1>3. \A m \in Jtis : status'[m] = "live" => status[m] = "live"
  OBVIOUS
<1>4. FamilyOK'
  BY <1>2 DEF SessionInv, FamilyOK, TypeOK
<1>5. RotatedIsSpent'
  BY DEF SessionInv, RotatedIsSpent
<1>6. OneLivePerLineage'
  BY <1>1, <1>3 DEF SessionInv, OneLivePerLineage
<1>7. EndedIsIssued' /\ EndedLineageStaysDead'
  BY <1>1, <1>2, <1>3 DEF SessionInv, EndedIsIssued, EndedLineageStaysDead, TypeOK
<1> QED
  BY <1>4, <1>5, <1>6, <1>7 DEF SessionInv

LEMMA RotateKeepsInv ==
    ASSUME TypeOK, SessionInv, NEW j \in Jtis, NEW k \in Jtis, RefreshRotate(j, k)
    PROVE  SessionInv'
<1> USE Distinct DEF TypeOK
<1>1. status[k] = "unissued" /\ family[k] = NoJti /\ status[j] = "live" /\ j # k
  BY UnissuedRoot DEF SessionInv, RefreshRotate, create_session_pair
<1>2. /\ status' = [status EXCEPT ![j] = "revoked", ![k] = "live"]
      /\ rotated' = [rotated EXCEPT ![j] = TRUE]
      /\ userOf' = [userOf EXCEPT ![k] = userOf[j]]
      /\ family' = [family EXCEPT ![k] = Root(j)]
      /\ ended' = ended
  BY <1>1 DEF RefreshRotate, create_session_pair, Revoked
<1>3. /\ Root(j) \in Jtis /\ Root(j) # k /\ family[Root(j)] = NoJti
      /\ status[Root(j)] # "unissued"
      /\ userOf[j] = userOf[Root(j)] /\ (Root(j) # j => rotated[Root(j)])
  BY <1>1, RootIssued DEF SessionInv
<1>4. Root(k)' = Root(j) /\ \A m \in Jtis \ {k} : Root(m)' = Root(m)
  BY <1>2, <1>3 DEF Root
<1>5. \A m \in Jtis : family[m] # k
  BY <1>1 DEF SessionInv, FamilyOK
<1>6. FamilyOK'
  <2> SUFFICES ASSUME NEW m \in Jtis, family'[m] # NoJti
               PROVE  /\ status'[m] # "unissued"
                      /\ status'[family'[m]] # "unissued"
                      /\ family'[family'[m]] = NoJti
                      /\ rotated'[family'[m]]
                      /\ userOf'[m] = userOf'[family'[m]]
    BY DEF FamilyOK
  <2>1. CASE m = k
    BY <1>1, <1>2, <1>3, <2>1
  <2>2. CASE m # k
    <3>1. family'[m] = family[m] /\ family[m] \in Jtis /\ family[m] # k
      BY <1>2, <1>5, <2>2
    <3>2. /\ status[m] # "unissued" /\ status[family[m]] # "unissued"
          /\ family[family[m]] = NoJti /\ rotated[family[m]]
          /\ userOf[m] = userOf[family[m]]
      BY <3>1 DEF SessionInv, FamilyOK
    <3> QED
      BY <1>1, <1>2, <2>2, <3>1, <3>2
  <2> QED
    BY <2>1, <2>2
<1>7. RotatedIsSpent'
  BY <1>1, <1>2 DEF SessionInv, RotatedIsSpent
<1>8. \A m \in Jtis : status'[m] = "live" /\ m # k => status[m] = "live" /\ Root(m) # Root(j)
  BY <1>1, <1>2 DEF SessionInv, OneLivePerLineage
<1>9. OneLivePerLineage'
  BY <1>4, <1>8 DEF SessionInv, OneLivePerLineage
<1>10. Root(j) \notin ended
  BY <1>1 DEF SessionInv, EndedLineageStaysDead
<1>11. EndedIsIssued'
  BY <1>1, <1>2 DEF SessionInv, EndedIsIssued
<1>12. EndedLineageStaysDead'
  BY <1>2, <1>4, <1>8, <1>10 DEF SessionInv, EndedLineageStaysDead
<1> QED
  BY <1>6, <1>7, <1>9, <1>11, <1>12 DEF SessionInv

LEMMA ReplayKeepsInv ==
    ASSUME TypeOK, SessionInv, NEW j \in Jtis, RefreshReplay(j)
    PROVE  SessionInv'
<1> USE DEF TypeOK
<1>1. status[j] # "unissued" /\ Root(j) \in Jtis /\ status[Root(j)] # "unissued"
  BY RootIssued DEF SessionInv, RefreshReplay, Decodes
<1>2. rotated[Root(j)] /\ status[Root(j)] # "live"
  BY <1>1, RootIssued DEF SessionInv, RefreshReplay, RotatedIsSpent
<1>3. \A m \in Jtis : status'[m] = "live" => Root(m) # Root(j)
  BY <1>1, <1>2 DEF RefreshReplay, Revoked, Root
<1>f. PICK F : F = {Root(j)}
  OBVIOUS
<1>4. /\ ended' = ended \cup F
      /\ UNCHANGED <<rotated, userOf, family>>
      /\ status' \in [Jtis -> {"unissued", "live", "revoked", "deleted"}]
      /\ \A m \in Jtis : status'[m] = status[m]
                            \/ (status[m] = "live" /\ status'[m] = "revoked")
  BY <1>f DEF RefreshReplay, Revoked
<1>5. F \in SUBSET Jtis /\ \A f \in F : status[f] # "unissued"
  BY <1>1, <1>f
<1>6. \A m \in Jtis : status'[m] = "live" => Root(m) \notin F
  BY <1>3, <1>f
<1> QED
  BY <1>4, <1>5, <1>6, RetireKeepsInv

LEMMA LogoutKeepsInv ==
    ASSUME TypeOK, SessionInv, NEW j \in Jtis, Logout(j)
    PROVE  SessionInv'
<1> USE DEF TypeOK
<1>1. status[j] = "live" /\ Root(j) \in Jtis /\ status[Root(j)] # "unissued"
  BY RootIssued DEF SessionInv, Logout
<1>2. \A m \in Jtis : status'[m] = "live" => Root(m) # Root(j)
  BY <1>1 DEF Logout, Revoked, SessionInv, OneLivePerLineage
<1>f. PICK F : F = {Root(j)}
  OBVIOUS
<1>3. /\ ended' = ended \cup F
      /\ UNCHANGED <<rotated, userOf, family>>
      /\ status' \in [Jtis -> {"unissued", "live", "revoked", "deleted"}]
      /\ \A m \in Jtis : status'[m] = status[m]
                            \/ (status[m] = "live" /\ status'[m] = "revoked")
  BY <1>f DEF Logout, Revoked
<1>4. F \in SUBSET Jtis /\ \A f \in F : status[f] # "unissued"
  BY <1>1, <1>f
<1>5. \A m \in Jtis : status'[m] = "live" => Root(m) \notin F
  BY <1>2, <1>f
<1> QED
  BY <1>3, <1>4, <1>5, RetireKeepsInv

\* Signing a user out everywhere, or purging the user's rows.
LEMMA RetireUserKeepsInv ==
    ASSUME TypeOK, SessionInv, NEW u \in Users, NEW gone \in {"revoked", "deleted"},
           status' = [j \in Jtis |-> IF j \in RowsOf(u) THEN gone ELSE status[j]],
           ended' = ended \cup {Root(j) : j \in RowsOf(u)},
           UNCHANGED <<rotated, userOf, family>>
    PROVE  SessionInv'
<1> USE DEF TypeOK
<1>f. PICK F : F = {Root(j) : j \in RowsOf(u)}
  OBVIOUS
<1>1. \A j \in RowsOf(u) : j \in Jtis /\ status[j] # "unissued" /\ userOf[j] = u
  BY DEF RowsOf
<1>2. \A j \in RowsOf(u) : Root(j) \in Jtis /\ status[Root(j)] # "unissued"
                              /\ userOf[Root(j)] = u
  BY <1>1, RootIssued DEF SessionInv
<1>3. F \in SUBSET Jtis /\ \A f \in F : status[f] # "unissued" /\ userOf[f] = u
  BY <1>2, <1>f
<1>4. \A m \in Jtis : status'[m] = "live" => status[m] = "live" /\ userOf[m] # u
  BY DEF RowsOf
<1>5. \A m \in Jtis : status'[m] = "live" => Root(m) \notin F
  BY <1>3, <1>4, RootIssued DEF SessionInv
<1>6. ended' = ended \cup F
  BY <1>f
<1>7. /\ status' \in [Jtis -> {"unissued", "live", "revoked", "deleted"}]
      /\ \A m \in Jtis : status'[m] = status[m]
                            \/ (status[m] = "live" /\ status'[m] = "revoked")
                            \/ (status[m] \in {"live", "revoked"} /\ status'[m] = "deleted")
  BY DEF RowsOf
<1> QED
  BY <1>3, <1>5, <1>6, <1>7, RetireKeepsInv

LEMMA InitInv == Init => SessionInv
BY DEF Init, SessionInv, FamilyOK, RotatedIsSpent, OneLivePerLineage, EndedIsIssued,
       EndedLineageStaysDead

\* The steps that touch neither session rows nor history.
RowsUntouched == UNCHANGED <<rowVars, ended>>

LEMMA UntouchedKeepsInv == SessionInv /\ RowsUntouched => SessionInv'
BY DEF SessionInv, RowsUntouched, rowVars, FamilyOK, RotatedIsSpent, OneLivePerLineage,
       EndedIsIssued, EndedLineageStaysDead, Root

\* Next, sorted by what a step does to the session rows.
LEMMA StepKinds ==
    ASSUME TypeOK, [Next]_vars
    PROVE  \/ RowsUntouched
           \/ \E j \in Jtis, u \in Users :
                 create_session_pair(j, u, NoJti, status) /\ UNCHANGED <<rotated, ended>>
           \/ \E j, k \in Jtis : RefreshRotate(j, k)
           \/ \E j \in Jtis : RefreshReplay(j)
           \/ \E j \in Jtis : Logout(j)
           \/ \E u \in Users, gone \in {"revoked", "deleted"} :
                 /\ status' = [j \in Jtis |-> IF j \in RowsOf(u) THEN gone ELSE status[j]]
                 /\ ended' = ended \cup {Root(j) : j \in RowsOf(u)}
                 /\ UNCHANGED <<rotated, userOf, family>>
<1>1. ASSUME NEW r \in Requests, NEW u \in Users, NEW j \in Jtis, RegisterInsert(r, u, j)
      PROVE  create_session_pair(j, u, NoJti, status) /\ UNCHANGED <<rotated, ended>>
  BY <1>1 DEF RegisterInsert
<1>2. ASSUME NEW r \in Requests, NEW j \in Jtis, LoginMint(r, j)
      PROVE  /\ req[r].user \in Users
             /\ create_session_pair(j, req[r].user, NoJti, status)
             /\ UNCHANGED <<rotated, ended>>
  BY <1>2, Distinct DEF LoginMint, TypeOK, Request, Idle
<1>3. ASSUME NEW r \in Requests, LogoutAll(r)
      PROVE  /\ req[r].user \in Users
             /\ status' = [j \in Jtis |-> IF j \in RowsOf(req[r].user) THEN "revoked"
                                          ELSE status[j]]
             /\ ended' = ended \cup {Root(j) : j \in RowsOf(req[r].user)}
             /\ UNCHANGED <<rotated, userOf, family>>
  <2>1. req[r].user \in Users
    BY <1>3, Distinct DEF LogoutAll, TypeOK, Request, Idle
  <2>2. status' = [j \in Jtis |-> IF userOf[j] = req[r].user /\ status[j] = "live"
                                  THEN "revoked" ELSE status[j]]
    BY <1>3 DEF LogoutAll, Revoked
  <2>3. \A j \in Jtis : status'[j] = IF j \in RowsOf(req[r].user) THEN "revoked"
                                     ELSE status[j]
    BY <2>2 DEF RowsOf
  <2>4. status' = [j \in Jtis |-> status'[j]]
    BY <2>2
  <2>5. status' = [j \in Jtis |-> IF j \in RowsOf(req[r].user) THEN "revoked"
                                  ELSE status[j]]
    BY <2>3, <2>4
  <2> QED
    BY <1>3, <2>1, <2>5 DEF LogoutAll
<1>4. ASSUME NEW r \in Requests, DeleteCommit(r)
      PROVE  /\ req[r].user \in Users
             /\ status' = [j \in Jtis |-> IF j \in RowsOf(req[r].user) THEN "deleted"
                                          ELSE status[j]]
             /\ ended' = ended \cup {Root(j) : j \in RowsOf(req[r].user)}
             /\ UNCHANGED <<rotated, userOf, family>>
  BY <1>4, Distinct DEF DeleteCommit, TypeOK, Request, Idle
<1>5. ASSUME NEW r \in Requests,
             \/ \E e \in Emails : RegisterLookup(r, e)
             \/ RegisterConflict(r)
             \/ \E u \in Users : LoginLookup(r, u)
             \/ LoginReject(r)
             \/ \E j \in Jtis, stage \in {"authorised_logout_all", "authorised_delete"} :
                   Authorise(r, j, stage)
             \/ DeleteLookup(r)
             \/ DeleteReject(r)
             \/ \E u \in Users : RegisterCutShort(r, u)
      PROVE  RowsUntouched
  BY <1>5 DEF RowsUntouched, RegisterLookup, RegisterConflict, LoginLookup, LoginReject,
              Authorise, DeleteLookup, DeleteReject, RegisterCutShort
<1>6. ASSUME \/ \E j \in Jtis : Expire(j)
             \/ Restart
             \/ \E u \in Users, e \in Emails : ManageCreateUser(u, e)
             \/ UNCHANGED vars
      PROVE  RowsUntouched
  BY <1>6 DEF RowsUntouched, Expire, Restart, ManageCreateUser, vars
<1> QED
  BY <1>1, <1>2, <1>3, <1>4, <1>5, <1>6 DEF Next

LEMMA NextInv == TypeOK /\ SessionInv /\ [Next]_vars => SessionInv'
BY StepKinds, UntouchedKeepsInv, MintKeepsInv, RotateKeepsInv, ReplayKeepsInv,
   LogoutKeepsInv, RetireUserKeepsInv

LEMMA SessionInvariant == Spec => []SessionInv
BY TypeCorrect, InitInv, NextInv, PTL DEF Spec

\* At most one token of a login's lineage is good at any time.
THEOREM LineageIsSingleUse == Spec => []OneLivePerLineage
<1>1. SessionInv => OneLivePerLineage
  BY DEF SessionInv
<1> QED
  BY <1>1, SessionInvariant, PTL

\* A lineage that was signed out, replayed or purged never comes back.
THEOREM EndedIsFinal == Spec => []EndedLineageStaysDead
<1>1. SessionInv => EndedLineageStaysDead
  BY DEF SessionInv
<1> QED
  BY <1>1, SessionInvariant, PTL

-----------------------------------------------------------------------------
(* One account per address.                                                *)

LEMMA NextEmail == TypeOK /\ OneAccountPerEmail /\ [Next]_vars => OneAccountPerEmail'
<1> SUFFICES ASSUME TypeOK, OneAccountPerEmail, [Next]_vars PROVE OneAccountPerEmail'
  OBVIOUS
<1> USE DEF TypeOK, OneAccountPerEmail, EmailTaken
<1>1. ASSUME NEW r \in Requests, NEW u \in Users, InsertUser(r, u)
      PROVE  OneAccountPerEmail'
  BY <1>1 DEF InsertUser
<1>2. ASSUME NEW u \in Users, NEW e \in Emails, ManageCreateUser(u, e)
      PROVE  OneAccountPerEmail'
  BY <1>2 DEF ManageCreateUser
<1>3. ASSUME NEW r \in Requests, DeleteCommit(r)
      PROVE  OneAccountPerEmail'
  BY <1>3 DEF DeleteCommit
<1>4. ASSUME UNCHANGED email
      PROVE  OneAccountPerEmail'
  BY <1>4
<1>5. \/ UNCHANGED email
      \/ \E r \in Requests, u \in Users : InsertUser(r, u)
      \/ \E u \in Users, e \in Emails : ManageCreateUser(u, e)
      \/ \E r \in Requests : DeleteCommit(r)
  BY DEF Next, vars, RegisterLookup, RegisterInsert, RegisterConflict, LoginLookup,
         LoginReject, LoginMint, RefreshRotate, RefreshReplay, Logout, Authorise, LogoutAll,
         DeleteLookup, DeleteReject, Expire, Restart, RegisterCutShort
<1> QED
  BY <1>1, <1>2, <1>3, <1>4, <1>5

\* Two registrations that raced through the hash cannot share an address.
THEOREM EmailIsUnique == Spec => []OneAccountPerEmail
<1>1. Init => OneAccountPerEmail
  BY DEF Init, OneAccountPerEmail
<1> QED
  BY <1>1, NextEmail, TypeCorrect, PTL DEF Spec

-----------------------------------------------------------------------------
(* AuthSessions implements TokenChain.                                     *)

\* The mapped chain names exactly the live rows.
CurrentIsLive ==
    \A f \in Jtis :
        /\ ChainCurrent[f] \in Jtis \cup {NoJti}
        /\ ChainCurrent[f] # NoJti =>
              status[ChainCurrent[f]] = "live" /\ Root(ChainCurrent[f]) = f
        /\ \A j \in Jtis : (status[j] = "live" /\ Root(j) = f) => ChainCurrent[f] = j

LEMMA CurrentToken == TypeOK /\ SessionInv => CurrentIsLive
<1> SUFFICES ASSUME TypeOK, OneLivePerLineage, NEW f \in Jtis
             PROVE  /\ ChainCurrent[f] \in Jtis \cup {NoJti}
                    /\ ChainCurrent[f] # NoJti =>
                          status[ChainCurrent[f]] = "live" /\ Root(ChainCurrent[f]) = f
                    /\ \A j \in Jtis :
                          (status[j] = "live" /\ Root(j) = f) => ChainCurrent[f] = j
  BY DEF CurrentIsLive, SessionInv
<1>1. CASE LiveTokens(f) = {}
  BY <1>1, Distinct DEF ChainCurrent, LiveTokens
<1>2. CASE LiveTokens(f) # {}
  <2>1. PICK j \in LiveTokens(f) : LiveTokens(f) = {j}
    BY <1>2 DEF LiveTokens, OneLivePerLineage
  <2>2. ChainCurrent[f] = j
    BY <2>1 DEF ChainCurrent
  <2> QED
    BY <2>1, <2>2, Distinct DEF LiveTokens
<1> QED
  BY <1>1, <1>2

LEMMA CurrentTokenNext == (TypeOK /\ SessionInv)' => CurrentIsLive'
BY CurrentToken, PTL

LEMMA CurrentIsFunction == ChainCurrent = [f \in Jtis |-> ChainCurrent[f]]
BY DEF ChainCurrent

LEMMA CurrentIsFunctionNext == ChainCurrent' = [f \in Jtis |-> ChainCurrent'[f]]
BY DEF ChainCurrent

LEMMA UnissuedIsFresh ==
    ASSUME TypeOK, SessionInv, NEW j \in Jtis, status[j] = "unissued"
    PROVE  /\ Chain!Fresh(j)
           /\ ChainCurrent[j] = NoJti
<1>1. \A f \in Jtis : ChainCurrent[f] # j
  BY CurrentToken, Distinct DEF CurrentIsLive
<1>2. ChainCurrent[j] = NoJti
  BY CurrentToken, RootIssued, UnissuedRoot, Distinct DEF SessionInv, TypeOK, CurrentIsLive
<1> QED
  BY <1>1, <1>2 DEF Chain!Fresh, ChainSpent

\* Rows that leave circulation close the chains they were current in.
LEMMA RetireCloses ==
    ASSUME TypeOK, TypeOK', SessionInv, SessionInv', UNCHANGED family,
           \A m \in Jtis : \/ status'[m] = status[m]
                           \/ (status[m] = "live" /\ status'[m] = "revoked")
                           \/ (status[m] \in {"live", "revoked"} /\ status'[m] = "deleted")
    PROVE  \E C \in SUBSET Jtis : Chain!Close(C)
<1>1. PICK C : C = {f \in Jtis : ChainCurrent[f] # NoJti /\ ChainCurrent'[f] = NoJti}
  OBVIOUS
<1>2. \A j \in Jtis : Root(j)' = Root(j)
  BY DEF Root
<1>3. CurrentIsLive /\ CurrentIsLive'
  BY CurrentToken, CurrentTokenNext
<1>4. \A f \in Jtis : ChainCurrent'[f] = IF f \in C THEN NoJti ELSE ChainCurrent[f]
  <2> SUFFICES ASSUME NEW f \in Jtis, ChainCurrent'[f] # NoJti
               PROVE  ChainCurrent[f] = ChainCurrent'[f]
    BY <1>1, <1>3 DEF CurrentIsLive
  <2>1. PICK j \in Jtis : j = ChainCurrent'[f]
    BY <1>3 DEF CurrentIsLive
  <2>2. status'[j] = "live" /\ Root(j)' = f
    BY <1>3, <2>1, Distinct DEF CurrentIsLive
  <2>3. status[j] = "live" /\ Root(j) = f
    BY <1>2, <2>2
  <2> QED
    BY <1>3, <2>1, <2>3 DEF CurrentIsLive
<1>5. ChainCurrent' = [f \in Jtis |-> IF f \in C THEN NoJti ELSE ChainCurrent[f]]
  BY <1>4, CurrentIsFunctionNext
<1>6. ASSUME NEW m \in Jtis
      PROVE  m \in ChainSpent' <=> m \in ChainSpent \cup {ChainCurrent[f] : f \in C}
  <2>1. Root(m) \in Jtis
    BY DEF Root, TypeOK
  <2>2. CASE status[m] = "live"
    <3>1. ChainCurrent[Root(m)] = m
      BY <1>3, <2>1, <2>2 DEF CurrentIsLive
    <3>2. \A f \in Jtis : ChainCurrent[f] = m => f = Root(m)
      BY <1>3, Distinct DEF CurrentIsLive
    <3>3. m \in {ChainCurrent[f] : f \in C} <=> Root(m) \in C
      BY <1>1, <3>1, <3>2
    <3>4. Root(m) \in C <=> status'[m] # "live"
      <4>1. status'[m] = "live" => ChainCurrent'[Root(m)] = m
        BY <1>2, <1>3, <2>1 DEF CurrentIsLive
      <4>2. ChainCurrent'[Root(m)] # NoJti => ChainCurrent'[Root(m)] = m
        BY <1>4, <2>1, <3>1
      <4>3. ChainCurrent'[Root(m)] = m => status'[m] = "live"
        BY <1>3, <2>1, Distinct DEF CurrentIsLive
      <4> QED
        BY <1>1, <2>1, <3>1, <4>1, <4>2, <4>3, Distinct
    <3>5. status'[m] # "live" <=> m \in ChainSpent'
      BY <2>2 DEF ChainSpent
    <3> QED
      BY <2>2, <3>3, <3>4, <3>5 DEF ChainSpent
  <2>3. CASE status[m] # "live"
    <3>1. m \notin {ChainCurrent[f] : f \in C}
      BY <1>1, <1>3, <2>3 DEF CurrentIsLive
    <3>2. m \in ChainSpent' <=> m \in ChainSpent
      BY <2>3 DEF ChainSpent
    <3> QED
      BY <3>1, <3>2
  <2> QED
    BY <2>2, <2>3
<1>7. ChainSpent' = ChainSpent \cup {ChainCurrent[f] : f \in C}
  BY <1>1, <1>3, <1>6 DEF ChainSpent, CurrentIsLive
<1>8. C \in SUBSET Jtis /\ \A f \in C : ChainCurrent[f] # NoJti
  BY <1>1
<1> QED
  BY <1>5, <1>7, <1>8 DEF Chain!Close

LEMMA MintOpens ==
    ASSUME TypeOK, TypeOK', SessionInv, SessionInv', NEW j \in Jtis, NEW u \in Users,
           create_session_pair(j, u, NoJti, status)
    PROVE  Chain!Open(j)
<1>1. /\ status[j] = "unissued" /\ family[j] = NoJti
      /\ Chain!Fresh(j) /\ ChainCurrent[j] = NoJti
  BY UnissuedIsFresh, UnissuedRoot DEF create_session_pair, SessionInv
<1>2. family' = family /\ status' = [status EXCEPT ![j] = "live"]
  BY <1>1 DEF create_session_pair, TypeOK
<1>3. \A m \in Jtis : Root(m)' = Root(m)
  BY <1>2 DEF Root
<1>4. CurrentIsLive /\ CurrentIsLive'
  BY CurrentToken, CurrentTokenNext
<1>5. ChainCurrent'[j] = j
  BY <1>1, <1>2, <1>3, <1>4 DEF CurrentIsLive, Root, TypeOK
<1>6. ASSUME NEW f \in Jtis, f # j
      PROVE  ChainCurrent'[f] = ChainCurrent[f]
  <2>1. CASE ChainCurrent[f] # NoJti
    <3>1. PICK m \in Jtis : m = ChainCurrent[f]
      BY <1>4, <2>1 DEF CurrentIsLive
    <3>2. status[m] = "live" /\ Root(m) = f
      BY <1>4, <2>1, <3>1 DEF CurrentIsLive
    <3>3. status'[m] = "live" /\ Root(m)' = f
      BY <1>2, <1>3, <3>2 DEF TypeOK
    <3> QED
      BY <1>4, <3>1, <3>3 DEF CurrentIsLive
  <2>2. CASE ChainCurrent'[f] # NoJti
    <3>1. PICK m \in Jtis : m = ChainCurrent'[f]
      BY <1>4, <2>2 DEF CurrentIsLive
    <3>2. status'[m] = "live" /\ Root(m)' = f
      BY <1>4, <2>2, <3>1 DEF CurrentIsLive
    <3>3. m # j /\ status[m] = "live" /\ Root(m) = f
      BY <1>1, <1>2, <1>3, <1>6, <3>2 DEF TypeOK, Root
    <3> QED
      BY <1>4, <3>1, <3>3 DEF CurrentIsLive
  <2> QED
    BY <2>1, <2>2
<1>7. ChainCurrent' = [ChainCurrent EXCEPT ![j] = j]
  BY <1>5, <1>6, CurrentIsFunction, CurrentIsFunctionNext
<1>8. ChainSpent' = ChainSpent
  BY <1>1, <1>2 DEF ChainSpent, TypeOK
<1> QED
  BY <1>1, <1>7, <1>8 DEF Chain!Open

LEMMA RotateAdvances ==
    ASSUME TypeOK, TypeOK', SessionInv, SessionInv', NEW j \in Jtis, NEW k \in Jtis,
           RefreshRotate(j, k)
    PROVE  Root(j) \in Jtis /\ Chain!Advance(Root(j), k)
<1>1. /\ status[k] = "unissued" /\ family[k] = NoJti /\ status[j] = "live" /\ j # k
      /\ Chain!Fresh(k) /\ ChainCurrent[k] = NoJti
  BY UnissuedIsFresh, UnissuedRoot DEF RefreshRotate, create_session_pair, SessionInv
<1>2. PICK f \in Jtis : f = Root(j) /\ f # k
  BY <1>1, RootIssued DEF SessionInv
<1>3. /\ status' = [status EXCEPT ![j] = "revoked", ![k] = "live"]
      /\ family' = [family EXCEPT ![k] = f]
  BY <1>1, <1>2 DEF RefreshRotate, create_session_pair, Revoked, TypeOK
<1>4. Root(k)' = f /\ \A m \in Jtis \ {k} : Root(m)' = Root(m)
  BY <1>2, <1>3, Distinct DEF Root, TypeOK
<1>5. CurrentIsLive /\ CurrentIsLive'
  BY CurrentToken, CurrentTokenNext
<1>6. ChainCurrent[f] = j /\ ChainCurrent'[f] = k
  BY <1>1, <1>2, <1>3, <1>4, <1>5 DEF CurrentIsLive, TypeOK
<1>7. ASSUME NEW g \in Jtis, g # f
      PROVE  ChainCurrent'[g] = ChainCurrent[g]
  <2>1. CASE ChainCurrent[g] # NoJti
    <3>1. PICK m \in Jtis : m = ChainCurrent[g]
      BY <1>5, <2>1 DEF CurrentIsLive
    <3>2. status[m] = "live" /\ Root(m) = g
      BY <1>5, <2>1, <3>1 DEF CurrentIsLive
    <3>3. m # k /\ m # j
      BY <1>1, <1>2, <1>7, <3>2
    <3>4. status'[m] = "live" /\ Root(m)' = g
      BY <1>3, <1>4, <3>2, <3>3 DEF TypeOK
    <3> QED
      BY <1>5, <3>1, <3>4 DEF CurrentIsLive
  <2>2. CASE ChainCurrent'[g] # NoJti
    <3>1. PICK m \in Jtis : m = ChainCurrent'[g]
      BY <1>5, <2>2 DEF CurrentIsLive
    <3>2. status'[m] = "live" /\ Root(m)' = g
      BY <1>5, <2>2, <3>1 DEF CurrentIsLive
    <3>3. m # k
      BY <1>4, <1>7, <3>2
    <3>4. status[m] = "live" /\ Root(m) = g
      BY <1>1, <1>3, <1>4, <3>2, <3>3 DEF TypeOK
    <3> QED
      BY <1>5, <3>1, <3>4 DEF CurrentIsLive
  <2> QED
    BY <2>1, <2>2
<1>8. ChainCurrent' = [ChainCurrent EXCEPT ![f] = k]
  BY <1>6, <1>7, CurrentIsFunction, CurrentIsFunctionNext
<1>9. ChainSpent' = ChainSpent \cup {ChainCurrent[f]}
  BY <1>1, <1>3, <1>6 DEF ChainSpent, TypeOK
<1>10. Chain!Advance(f, k)
  BY <1>1, <1>6, <1>8, <1>9, Distinct DEF Chain!Advance
<1> QED
  BY <1>2, <1>10

LEMMA InitMaps == Init => Chain!Init
BY DEF Init, Chain!Init, ChainCurrent, ChainSpent, LiveTokens

LEMMA NextMaps ==
    TypeOK /\ TypeOK' /\ SessionInv /\ SessionInv' /\ [Next]_vars
        => [Chain!Next]_(Chain!vars)
<1> SUFFICES ASSUME TypeOK, TypeOK', SessionInv, SessionInv', [Next]_vars
             PROVE  [Chain!Next]_(Chain!vars)
  OBVIOUS
<1>1. CASE RowsUntouched
  BY <1>1 DEF RowsUntouched, rowVars, Chain!vars, ChainCurrent, ChainSpent, LiveTokens, Root
<1>2. ASSUME NEW j \in Jtis, NEW u \in Users, create_session_pair(j, u, NoJti, status)
      PROVE  Chain!Next
  BY <1>2, MintOpens DEF Chain!Next
<1>3. ASSUME NEW j \in Jtis, NEW k \in Jtis, RefreshRotate(j, k)
      PROVE  Chain!Next
  BY <1>3, RotateAdvances DEF Chain!Next
<1>4. ASSUME NEW j \in Jtis, RefreshReplay(j) \/ Logout(j)
      PROVE  Chain!Next
  <2>1. /\ UNCHANGED family
        /\ \A m \in Jtis : \/ status'[m] = status[m]
                           \/ (status[m] = "live" /\ status'[m] = "revoked")
    BY <1>4 DEF RefreshReplay, Logout, Revoked
  <2> QED
    BY <2>1, RetireCloses DEF Chain!Next
<1>5. ASSUME NEW u \in Users, NEW gone \in {"revoked", "deleted"},
             status' = [j \in Jtis |-> IF j \in RowsOf(u) THEN gone ELSE status[j]],
             UNCHANGED family
      PROVE  Chain!Next
  <2>1. \A m \in Jtis : \/ status'[m] = status[m]
                        \/ (status[m] = "live" /\ status'[m] = "revoked")
                        \/ (status[m] \in {"live", "revoked"} /\ status'[m] = "deleted")
    BY <1>5 DEF RowsOf
  <2> QED
    BY <1>5, <2>1, RetireCloses DEF Chain!Next
<1> QED
  BY <1>1, <1>2, <1>3, <1>4, <1>5, StepKinds

\* Every handler, wherever it is cut by an await, moves the chains as
\* TokenChain says or not at all: a spent token is never good again.
THEOREM SessionsImplementChains == Spec => ImplementsTokenChain
BY InitMaps, NextMaps, TypeCorrect, SessionInvariant, PTL
   DEF Spec, ImplementsTokenChain, Chain!Spec
=============================================================================
