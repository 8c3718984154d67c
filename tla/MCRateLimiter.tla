--------------------------- MODULE MCRateLimiter ---------------------------
(* One address, one email, one user and one group; tight limits, so that    *)
(* buckets fill, age and refill within the bounds.                          *)
EXTENDS RateLimiter

Limits == [f \in Families |-> IF f \in {"login_email", "ai"} THEN 1 ELSE 2]
Windows == [f \in Families |-> IF f = "login_ip" THEN 3 ELSE 2]

=============================================================================
