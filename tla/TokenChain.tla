----------------------------- MODULE TokenChain -----------------------------
(***************************************************************************)
(* What the session service promises its clients, without rows, families   *)
(* or flags: a login opens a chain of tokens; the chain holds at most one  *)
(* good token; refreshing replaces it by one never seen before; a token    *)
(* that was good and is not any more is spent, for ever.                   *)
(***************************************************************************)
CONSTANTS Tokens, NoToken

VARIABLES
    current,    \* the good token of each chain, a chain named by its first
    spent       \* tokens that were good once

vars == <<current, spent>>

Fresh(t) == t \notin spent /\ \A c \in Tokens : current[c] # t

Init ==
    /\ current = [c \in Tokens |-> NoToken]
    /\ spent = {}

Open(c) ==
    /\ Fresh(c)
    /\ current[c] = NoToken
    /\ current' = [current EXCEPT ![c] = c]
    /\ UNCHANGED spent

Advance(c, t) ==
    /\ current[c] # NoToken
    /\ Fresh(t)
    /\ current' = [current EXCEPT ![c] = t]
    /\ spent' = spent \cup {current[c]}

Close(C) ==
    /\ \A c \in C : current[c] # NoToken
    /\ current' = [c \in Tokens |-> IF c \in C THEN NoToken ELSE current[c]]
    /\ spent' = spent \cup {current[c] : c \in C}

Next ==
    \/ \E c \in Tokens : Open(c)
    \/ \E c, t \in Tokens : Advance(c, t)
    \/ \E C \in SUBSET Tokens : Close(C)

Spec == Init /\ [][Next]_vars
=============================================================================
