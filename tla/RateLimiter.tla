----------------------------- MODULE RateLimiter -----------------------------
(***************************************************************************)
(* The in-memory sliding-window limiter and the routes it guards.          *)
(*                                                                         *)
(* A route names the buckets it must pass, in order.  _enforce checks them *)
(* one after the other on the event loop, so no other request gets in      *)
(* between; but each check reads the monotonic clock for itself, so time   *)
(* may pass from one to the next.  A request denied by a later bucket has  *)
(* already spent a hit in the earlier ones.                                *)
(***************************************************************************)
EXTENDS Integers, Sequences

CONSTANTS
    Ips, Emails, Users, Groups,
    NoEmail,        \* the body carries no usable address
    MaxHits,        \* bucket family -> hits allowed per window
    WindowSecs,     \* bucket family -> length of the window in ticks
    MaxClock,       \* bound: ticks explored
    MaxRequests     \* bound: requests per run of the process

Families == {"login_ip", "login_email", "register", "upload", "ai", "write"}

ASSUME LimitsAssumption ==
    /\ MaxHits \in [Families -> Nat \ {0}]
    /\ WindowSecs \in [Families -> Nat \ {0}]

Buckets ==
    [family : {"login_ip"}, key : Ips \X {"-"}]
        \cup [family : {"login_email"}, key : Emails \X {"-"}]
        \cup [family : {"register"}, key : Ips \X (Emails \cup {NoEmail})]
        \cup [family : {"upload", "ai"}, key : Users \X {"-"}]
        \cup [family : {"write"}, key : Users \X Groups]

Max(b) == MaxHits[b.family]
Window(b) == WindowSecs[b.family]

VARIABLES
    clock,      \* time.monotonic()
    hits,       \* _hits: the recorded hits the limiter still remembers
    asked,      \* buckets the request being enforced has yet to pass
    log,        \* history: every hit recorded since the process started
    promise,    \* history: when a denial said the bucket reopens, 0 if none
    arrived     \* requests so far, against MaxRequests

vars == <<clock, hits, asked, log, promise, arrived>>

TypeOK ==
    /\ clock \in Nat
    /\ hits \in [Buckets -> Seq(Nat)]
    /\ asked \in Seq(Buckets)
    /\ log \in [Buckets -> Seq(Nat)]
    /\ promise \in [Buckets -> Nat]
    /\ arrived \in Nat

\* The monotonic clock is positive by the time a process serves requests.
Init ==
    /\ clock = 1
    /\ hits = [b \in Buckets |-> <<>>]
    /\ asked = <<>>
    /\ log = [b \in Buckets |-> <<>>]
    /\ promise = [b \in Buckets |-> 0]
    /\ arrived = 0

-----------------------------------------------------------------------------
(* The routes and the buckets each one asks.                               *)

login_limit(ip, e) ==
    <<[family |-> "login_ip", key |-> <<ip, "-">>]>>
        \o (IF e = NoEmail THEN <<>>
            ELSE <<[family |-> "login_email", key |-> <<e, "-">>]>>)

register_limit(ip, e) == <<[family |-> "register", key |-> <<ip, e>>]>>
upload_limit(u) == <<[family |-> "upload", key |-> <<u, "-">>]>>
ai_limit(u) == <<[family |-> "ai", key |-> <<u, "-">>]>>

\* The middleware's fallback for writes that no other limit covers.
write_limit(u, g) == <<[family |-> "write", key |-> <<u, g>>]>>

Routes ==
    {login_limit(ip, e) : ip \in Ips, e \in Emails \cup {NoEmail}}
        \cup {register_limit(ip, e) : ip \in Ips, e \in Emails \cup {NoEmail}}
        \cup {upload_limit(u) : u \in Users}
        \cup {ai_limit(u) : u \in Users}
        \cup {write_limit(u, g) : u \in Users, g \in Groups}

Arrive(specs) ==
    /\ asked = <<>>
    /\ arrived < MaxRequests
    /\ asked' = specs
    /\ arrived' = arrived + 1
    /\ UNCHANGED <<clock, hits, log, promise>>

-----------------------------------------------------------------------------
(* check: prune, then record or deny.                                      *)

\* Mutant: a hit exactly one window old still counts.
mut_StaleAfterWindow(b, n) ==
    /\ \A k \in 1..n : hits[b][k] < clock - Window(b)
    /\ n < Len(hits[b]) => hits[b][n + 1] >= clock - Window(b)

\* The scan stops at n: the first n hits have left the window, the next is in.
Stale(b, n) ==
    /\ \A k \in 1..n : hits[b][k] <= clock - Window(b)
    /\ n < Len(hits[b]) => hits[b][n + 1] > clock - Window(b)

Kept(b, n) == SubSeq(hits[b], n + 1, Len(hits[b]))

HasRoom(b, n) == Kept(b, n) = <<>> \/ Len(Kept(b, n)) < Max(b)

\* Mutant: the comparison with the limit is off by one.
mut_AllowOneMore(b, n) ==
    /\ Stale(b, n)
    /\ Len(Kept(b, n)) <= Max(b)
    /\ hits' = [hits EXCEPT ![b] = Append(Kept(b, n), clock)]
    /\ log' = [log EXCEPT ![b] = Append(log[b], clock)]
    /\ promise' = [promise EXCEPT ![b] = 0]
    /\ asked' = Tail(asked)
    /\ UNCHANGED <<clock, arrived>>

CheckAllowed(b, n) ==
    /\ Stale(b, n)
    /\ HasRoom(b, n)
    /\ hits' = [hits EXCEPT ![b] = Append(Kept(b, n), clock)]
    /\ log' = [log EXCEPT ![b] = Append(log[b], clock)]
    /\ promise' = [promise EXCEPT ![b] = 0]
    /\ asked' = Tail(asked)
    /\ UNCHANGED <<clock, arrived>>

\* 429 with Retry-After: nothing is recorded, the later buckets are not asked.
CheckDenied(b, n) ==
    /\ Stale(b, n)
    /\ ~HasRoom(b, n)
    /\ hits' = [hits EXCEPT ![b] = Kept(b, n)]
    /\ promise' = [promise EXCEPT ![b] = Kept(b, n)[1] + Window(b)]
    /\ asked' = <<>>
    /\ UNCHANGED <<clock, log, arrived>>

-----------------------------------------------------------------------------

Tick ==
    /\ clock < MaxClock
    /\ clock' = clock + 1
    /\ UNCHANGED <<hits, asked, log, promise, arrived>>

\* _hits lives in the process: a restart forgives everyone.
Restart ==
    /\ hits' = [b \in Buckets |-> <<>>]
    /\ log' = [b \in Buckets |-> <<>>]
    /\ promise' = [b \in Buckets |-> 0]
    /\ asked' = <<>>
    /\ arrived' = 0
    /\ UNCHANGED clock

Next ==
    \/ \E specs \in Routes : Arrive(specs)
    \/ /\ asked # <<>>
       /\ \E n \in 0..Len(hits[Head(asked)]) :
            CheckAllowed(Head(asked), n) \/ CheckDenied(Head(asked), n)
    \/ Tick
    \/ Restart

Spec == Init /\ [][Next]_vars

-----------------------------------------------------------------------------
(* Properties.                                                             *)

\* "At most max_hits recorded hits per window_secs": whichever window of that
\* length one looks back on, the bucket admitted at most Max(b) hits in it,
\* although check only ever consults the pruned list.
WindowNeverExceeded ==
    \A b \in Buckets : \A i \in 1..Len(log[b]) :
        i + Max(b) <= Len(log[b]) => log[b][i + Max(b)] - log[b][i] >= Window(b)

\* Retry-After is honest: once the announced instant has come and nobody took
\* the slot meanwhile, the bucket admits.  Denied attempts, however many, do
\* not push it away.
RetryAfterIsHonest ==
    \A b \in Buckets : promise[b] # 0 /\ clock >= promise[b] =>
        \A n \in 0..Len(hits[b]) : Stale(b, n) => HasRoom(b, n)

\* check denies only while Max(b) admissions lie within the last window, so a
\* caller who keeps under the limit never sees a 429; and a denial changes no
\* bucket: it records nothing, and there was nothing left in one to prune.
DeniedOnlyWhenFull ==
    [][\A b \in Buckets : \A n \in 0..Len(hits[b]) : CheckDenied(b, n) =>
           /\ UNCHANGED hits
           /\ Len(log[b]) >= Max(b)
           /\ clock - log[b][Len(log[b]) + 1 - Max(b)] < Window(b)]_vars

=============================================================================
