--------------------------- MODULE MCAuthSessions ---------------------------
EXTENDS AuthSessions, TLC

Symmetry ==
    Permutations(Users) \cup Permutations(Emails)
        \cup Permutations(Jtis) \cup Permutations(Requests)
=============================================================================
