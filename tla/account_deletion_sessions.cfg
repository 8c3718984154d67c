SPECIFICATION Spec
CONSTANTS
    Users = {u1}
    Emails = {e1}
    Jtis = {j1, j2, j3}
    Requests = {r1, r2}
    NoUser = NoUser
    NoEmail = NoEmail
    NoJti = NoJti
INVARIANTS
    DeletedAccountHoldsNoSession
