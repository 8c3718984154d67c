SPECIFICATION Spec
CONSTANTS
    Users = {u1, u2}
    Emails = {e1}
    Jtis = {j1, j2, j3, j4}
    Requests = {r1, r2}
    NoUser = NoUser
    NoEmail = NoEmail
    NoJti = NoJti
SYMMETRY Symmetry
INVARIANTS
    OneLivePerLineage
    EndedLineageStaysDead
PROPERTIES
    ImplementsTokenChain
