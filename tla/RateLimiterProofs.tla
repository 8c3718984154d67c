-------------------------- MODULE RateLimiterProofs --------------------------
(***************************************************************************)
(* For any limits, windows, callers and clock bound: the limiter is typed, *)
(* no window ever holds more than its limit, a denial is always justified  *)
(* and its Retry-After is honest.                                          *)
(*                                                                         *)
(* The inductive invariant says that the pruned list is exactly the part   *)
(* of the log that can still matter: a suffix of it, cut where the hits    *)
(* are at least one window old, and never longer than the limit.           *)
(***************************************************************************)
EXTENDS RateLimiter, TLAPS

LEMMA BucketLimits ==
    ASSUME NEW b \in Buckets
    PROVE  /\ Max(b) \in Nat \ {0}
           /\ Window(b) \in Nat \ {0}
<1>1. b.family \in Families
    BY DEF Buckets, Families
<1> QED
    BY <1>1, LimitsAssumption DEF Max, Window

LEMMA RoutesTyped == Routes \subseteq Seq(Buckets)
<1>1. ASSUME NEW ip \in Ips, NEW e \in Emails \cup {NoEmail}
      PROVE  login_limit(ip, e) \in Seq(Buckets)
    <2> DEFINE first == [family |-> "login_ip", key |-> <<ip, "-">>]
    <2> DEFINE second == [family |-> "login_email", key |-> <<e, "-">>]
    <2>1. first \in Buckets
        BY DEF Buckets
    <2>2. CASE e = NoEmail
        <3>1. login_limit(ip, e) = <<first>> \o <<>>
            BY <2>2 DEF login_limit
        <3> HIDE DEF first
        <3> QED
            BY <2>1, <3>1
    <2>3. CASE e # NoEmail
        <3>1. second \in Buckets
            BY <2>3 DEF Buckets
        <3>2. login_limit(ip, e) = <<first>> \o <<second>>
            BY <2>3 DEF login_limit
        <3> HIDE DEF first, second
        <3> QED
            BY <2>1, <3>1, <3>2
    <2> QED
        BY <2>2, <2>3
<1>2. ASSUME NEW ip \in Ips, NEW e \in Emails \cup {NoEmail}
      PROVE  register_limit(ip, e) \in Seq(Buckets)
    BY DEF register_limit, Buckets
<1>3. ASSUME NEW u \in Users
      PROVE  upload_limit(u) \in Seq(Buckets) /\ ai_limit(u) \in Seq(Buckets)
    BY DEF upload_limit, ai_limit, Buckets
<1>4. ASSUME NEW u \in Users, NEW g \in Groups
      PROVE  write_limit(u, g) \in Seq(Buckets)
    BY DEF write_limit, Buckets
<1> QED
    BY <1>1, <1>2, <1>3, <1>4 DEF Routes

\* What del lst[:idx] leaves.
LEMMA KeptIsSuffix ==
    ASSUME TypeOK, NEW b \in Buckets, NEW n \in 0..Len(hits[b])
    PROVE  /\ Kept(b, n) \in Seq(Nat)
           /\ Len(Kept(b, n)) = Len(hits[b]) - n
           /\ \A i \in 1..(Len(hits[b]) - n) : Kept(b, n)[i] = hits[b][n + i]
<1>1. hits[b] \in Seq(Nat)
    BY DEF TypeOK
<1>2. Len(hits[b]) \in Nat
    BY <1>1
<1>3. \A i \in (n + 1)..Len(hits[b]) : hits[b][i] \in Nat
    BY <1>1, <1>2
<1> QED
    BY <1>1, <1>2, <1>3 DEF Kept

-----------------------------------------------------------------------------

\* The limiter's list is the log without its first d hits, all out of window.
Remembers(b, d) ==
    /\ Len(hits[b]) = Len(log[b]) - d
    /\ \A i \in 1..Len(hits[b]) : hits[b][i] = log[b][d + i]
    /\ \A i \in 1..d : log[b][i] + Window(b) <= clock

Chronological ==
    \A b \in Buckets : \A i, j \in 1..Len(log[b]) :
        /\ log[b][i] <= clock
        /\ i <= j => log[b][i] <= log[b][j]

PromiseFromOldest ==
    \A b \in Buckets : promise[b] # 0 =>
        /\ Len(hits[b]) = Max(b)
        /\ promise[b] = hits[b][1] + Window(b)

IInv ==
    /\ TypeOK
    /\ \A b \in Buckets : \E d \in 0..Len(log[b]) : Remembers(b, d)
    /\ \A b \in Buckets : Len(hits[b]) <= Max(b)
    /\ Chronological
    /\ PromiseFromOldest
    /\ WindowNeverExceeded

LEMMA IInvInit == Init => IInv
<1> SUFFICES ASSUME Init
             PROVE  IInv
    OBVIOUS
<1>1. TypeOK
    BY DEF Init, TypeOK
<1>2. ASSUME NEW b \in Buckets
      PROVE  /\ hits[b] = <<>>
             /\ log[b] = <<>>
             /\ promise[b] = 0
    BY DEF Init
<1>3. ASSUME NEW b \in Buckets
      PROVE  Remembers(b, 0)
    BY <1>2 DEF Remembers
<1> QED
    BY <1>1, <1>2, <1>3, BucketLimits
       DEF IInv, Chronological, PromiseFromOldest, WindowNeverExceeded

\* Steps that leave the lists alone.
LEMMA IInvSameLists ==
    ASSUME IInv, TypeOK', UNCHANGED <<hits, log, promise>>, clock' \in Nat, clock <= clock'
    PROVE  IInv'
<1>1. ASSUME NEW b \in Buckets
      PROVE  \E d \in 0..Len(log'[b]) : Remembers(b, d)'
    <2>1. PICK d \in 0..Len(log[b]) : Remembers(b, d)
        BY DEF IInv
    <2>2. \A i \in 1..d : log[b][i] \in Nat
        BY DEF IInv, TypeOK
    <2>3. ASSUME NEW i \in 1..d
          PROVE  log[b][i] + Window(b) <= clock'
        <3>1. log[b][i] + Window(b) <= clock
            BY <2>1 DEF Remembers
        <3>2. log[b][i] \in Nat /\ Window(b) \in Nat /\ clock \in Nat
            BY <2>2, BucketLimits DEF IInv, TypeOK
        <3> QED
            BY <3>1, <3>2
    <2>4. Remembers(b, d)'
        BY <2>1, <2>3 DEF Remembers, Window
    <2> QED
        BY <2>1, <2>4
<1>2. Chronological'
    <2>1. \A b \in Buckets : \A i \in 1..Len(log[b]) : log[b][i] \in Nat
        BY DEF IInv, TypeOK
    <2> QED
        BY <2>1 DEF IInv, Chronological, TypeOK
<1>3. PromiseFromOldest'
    BY DEF IInv, PromiseFromOldest, Max, Window
<1>4. WindowNeverExceeded'
    BY DEF IInv, WindowNeverExceeded, Max, Window
<1> QED
    BY <1>1, <1>2, <1>3, <1>4 DEF IInv, Max

\* What Append does to a list of instants.
LEMMA AppendFacts ==
    ASSUME NEW s \in Seq(Nat), NEW t \in Nat
    PROVE  /\ Append(s, t) \in Seq(Nat)
           /\ Len(Append(s, t)) = Len(s) + 1
           /\ Append(s, t)[Len(s) + 1] = t
           /\ \A i \in 1..Len(s) : Append(s, t)[i] = s[i]
<1> QED
    OBVIOUS

LEMMA LastOrEarlier ==
    \A x \in Nat : \A i \in 1..(x + 1) : i = x + 1 \/ i \in 1..x
<1> QED
    OBVIOUS

LEMMA AtMostOrNext ==
    \A x, y \in Int : y <= x + 1 => y <= x \/ y = x + 1
<1> QED
    OBVIOUS

\* One admission, seen on one bucket: l is its log, h the list the limiter
\* remembers, k the list after n stale hits are cut, t the instant, w the
\* window and m the limit.
Admission(l, h, k, t, w, m, d, n) ==
    /\ Len(h) = Len(l) - d
    /\ \A i \in 1..Len(h) : h[i] = l[d + i]
    /\ \A i \in 1..d : l[i] + w <= t
    /\ \A i \in 1..n : h[i] <= t - w
    /\ Len(k) = Len(h) - n
    /\ \A i \in 1..Len(k) : k[i] = h[n + i]
    /\ Len(k) < m
    /\ \A i, j \in 1..Len(l) : l[i] <= t /\ (i <= j => l[i] <= l[j])
    /\ \A i \in 1..Len(l) : i + m <= Len(l) => l[i + m] - l[i] >= w

\* What it leaves, x being the number of hits cut so far.
Admitted(l, h, t, w, m, x) ==
    /\ x \in 0..Len(l)
    /\ Len(h) = Len(l) - x
    /\ Len(h) <= m
    /\ \A i \in 1..Len(h) : h[i] = l[x + i]
    /\ \A i \in 1..x : l[i] + w <= t
    /\ \A i, j \in 1..Len(l) : l[i] <= t /\ (i <= j => l[i] <= l[j])
    /\ \A i \in 1..Len(l) : i + m <= Len(l) => l[i + m] - l[i] >= w

\* The list stays the log's suffix, and the new hit lies a full window after
\* the hit m places before it, because that one has been pruned.
LEMMA AdmissionKeepsWindow ==
    ASSUME NEW l \in Seq(Nat), NEW h \in Seq(Nat), NEW k \in Seq(Nat),
           NEW t \in Nat, NEW w \in Nat \ {0}, NEW m \in Nat \ {0},
           NEW d \in 0..Len(l), NEW n \in 0..Len(h),
           Admission(l, h, k, t, w, m, d, n),
           NEW h2, NEW l2, h2 = Append(k, t), l2 = Append(l, t)
    PROVE  Admitted(l2, h2, t, w, m, d + n)
<1>1. /\ Len(h2) = Len(k) + 1 /\ h2[Len(k) + 1] = t
      /\ \A i \in 1..Len(k) : h2[i] = k[i]
      /\ Len(l2) = Len(l) + 1 /\ l2[Len(l) + 1] = t
      /\ \A i \in 1..Len(l) : l2[i] = l[i]
    BY AppendFacts
<1>2. /\ Len(h) = Len(l) - d /\ Len(k) = Len(h) - n /\ Len(k) < m
      /\ Len(l) \in Nat /\ Len(h) \in Nat /\ Len(k) \in Nat
    BY DEF Admission
<1>3. \A i \in 1..Len(l) : l[i] \in Nat
    OBVIOUS
<1>4. ASSUME NEW i \in 1..(d + n)
      PROVE  i \in 1..Len(l) /\ l[i] + w <= t
    <2>1. i \in 1..Len(l)
        BY <1>2
    <2>2. CASE i <= d
        BY <2>1, <2>2 DEF Admission
    <2>3. CASE i > d
        <3>1. i - d \in 1..n /\ i - d \in 1..Len(h) /\ d + (i - d) = i
            BY <1>2, <2>3
        <3>2. h[i - d] <= t - w /\ h[i - d] = l[d + (i - d)]
            BY <3>1 DEF Admission
        <3> QED
            BY <1>3, <2>1, <3>1, <3>2
    <2> QED
        BY <2>1, <2>2, <2>3
<1>5. ASSUME NEW i \in 1..Len(h2)
      PROVE  h2[i] = l2[d + n + i]
    <2>1. CASE i = Len(k) + 1
        <3>1. d + n + i = Len(l) + 1
            BY <1>2, <2>1
        <3> QED
            BY <1>1, <2>1, <3>1
    <2>2. CASE i \in 1..Len(k)
        <3>1. n + i \in 1..Len(h) /\ d + n + i \in 1..Len(l) /\ d + n + i = d + (n + i)
            BY <1>2, <2>2
        <3>2. k[i] = h[n + i] /\ h[n + i] = l[d + (n + i)]
            BY <2>2, <3>1 DEF Admission
        <3> QED
            BY <1>1, <2>2, <3>1, <3>2
    <2>3. i = Len(k) + 1 \/ i \in 1..Len(k)
        BY <1>1, <1>2, LastOrEarlier
    <2> QED
        BY <2>1, <2>2, <2>3
<1>6. ASSUME NEW i \in 1..(d + n)
      PROVE  l2[i] + w <= t
    BY <1>1, <1>4
<1>7. ASSUME NEW i \in 1..Len(l2), NEW j \in 1..Len(l2)
      PROVE  l2[i] <= t /\ (i <= j => l2[i] <= l2[j])
    <2>1. ASSUME NEW x \in 1..Len(l2)
          PROVE  x = Len(l) + 1 \/ x \in 1..Len(l)
        BY <1>1, <1>2
    <2>2. ASSUME NEW x \in 1..Len(l2)
          PROVE  l2[x] <= t
        <3>1. CASE x = Len(l) + 1
            BY <1>1, <3>1
        <3>2. CASE x \in 1..Len(l)
            BY <1>1, <3>2 DEF Admission
        <3> QED
            BY <2>1, <3>1, <3>2
    <2>3. CASE j = Len(l) + 1
        BY <1>1, <2>2, <2>3
    <2>4. CASE i = Len(l) + 1 /\ j \in 1..Len(l)
        <3>1. ~(i <= j)
            BY <1>2, <2>4
        <3> QED
            BY <2>2, <3>1
    <2>5. CASE i \in 1..Len(l) /\ j \in 1..Len(l)
        BY <1>1, <2>2, <2>5 DEF Admission
    <2> QED
        BY <2>1, <2>3, <2>4, <2>5
<1>8. ASSUME NEW i \in 1..Len(l2), i + m <= Len(l2)
      PROVE  l2[i + m] - l2[i] >= w
    <2>1. CASE i + m <= Len(l)
        <3>1. i \in 1..Len(l) /\ i + m \in 1..Len(l)
            BY <1>2, <2>1
        <3> QED
            BY <1>1, <2>1, <3>1 DEF Admission
    <2>2. CASE i + m = Len(l) + 1
        <3>1. i \in 1..(d + n)
            BY <1>2, <2>2
        <3>2. i \in 1..Len(l) /\ l[i] + w <= t
            BY <1>4, <3>1
        <3>3. l2[i + m] = t /\ l2[i] = l[i]
            BY <1>1, <2>2, <3>2
        <3> QED
            BY <1>3, <3>2, <3>3
    <2>3. Len(l2) = Len(l) + 1 /\ Len(l) \in Int
        BY <1>1, <1>2
    <2>4. i \in Int /\ i + m \in Int
        BY <2>3
    <2>5. i + m <= Len(l) + 1
        BY <1>8, <2>3
    <2> QED
        BY <2>1, <2>2, <2>3, <2>4, <2>5, AtMostOrNext
<1>9. /\ d + n \in 0..Len(l2)
      /\ Len(h2) = Len(l2) - (d + n)
      /\ Len(h2) <= m
    BY <1>1, <1>2
<1> QED
    BY <1>5, <1>6, <1>7, <1>8, <1>9 DEF Admitted

LEMMA IInvAllowed ==
    ASSUME IInv, NEW b \in Buckets, NEW n \in 0..Len(hits[b]), CheckAllowed(b, n),
           asked \in Seq(Buckets), asked # <<>>
    PROVE  IInv'
<1>1. PICK d \in 0..Len(log[b]) : Remembers(b, d)
    BY DEF IInv
<1>2. /\ hits[b] \in Seq(Nat) /\ log[b] \in Seq(Nat) /\ clock \in Nat
      /\ Max(b) \in Nat \ {0} /\ Window(b) \in Nat \ {0}
    BY BucketLimits DEF IInv, TypeOK
<1>3. /\ Kept(b, n) \in Seq(Nat)
      /\ Len(Kept(b, n)) = Len(hits[b]) - n
      /\ \A i \in 1..(Len(hits[b]) - n) : Kept(b, n)[i] = hits[b][n + i]
    BY KeptIsSuffix DEF IInv
<1>4. /\ hits' = [hits EXCEPT ![b] = Append(Kept(b, n), clock)]
      /\ log' = [log EXCEPT ![b] = Append(log[b], clock)]
      /\ promise' = [promise EXCEPT ![b] = 0]
      /\ asked' = Tail(asked)
      /\ clock' = clock /\ arrived' = arrived
      /\ Stale(b, n) /\ HasRoom(b, n)
    BY DEF CheckAllowed
<1>5. TypeOK'
    <2>1. Append(Kept(b, n), clock) \in Seq(Nat) /\ Append(log[b], clock) \in Seq(Nat)
        BY <1>2, <1>3, AppendFacts
    <2>2. Tail(asked) \in Seq(Buckets)
        OBVIOUS
    <2> QED
        BY <1>4, <2>1, <2>2 DEF IInv, TypeOK
<1>6. /\ hits'[b] = Append(Kept(b, n), clock)
      /\ log'[b] = Append(log[b], clock)
      /\ promise'[b] = 0
    BY <1>4 DEF IInv, TypeOK
<1>7. ASSUME NEW c \in Buckets, c # b
      PROVE  hits'[c] = hits[c] /\ log'[c] = log[c] /\ promise'[c] = promise[c]
    BY <1>4, <1>7 DEF IInv, TypeOK
<1>8. Admission(log[b], hits[b], Kept(b, n), clock, Window(b), Max(b), d, n)
    <2>1. Len(Kept(b, n)) < Max(b)
        BY <1>2, <1>3, <1>4 DEF HasRoom
    <2>2. \A i \in 1..n : hits[b][i] <= clock - Window(b)
        BY <1>4 DEF Stale
    <2>3. \A i, j \in 1..Len(log[b]) :
              log[b][i] <= clock /\ (i <= j => log[b][i] <= log[b][j])
        BY DEF IInv, Chronological
    <2>4. \A i \in 1..Len(log[b]) :
              i + Max(b) <= Len(log[b]) => log[b][i + Max(b)] - log[b][i] >= Window(b)
        BY DEF IInv, WindowNeverExceeded
    <2> QED
        BY <1>1, <1>3, <2>1, <2>2, <2>3, <2>4 DEF Admission, Remembers
<1>9. /\ d + n \in 0..Len(log'[b])
      /\ Len(hits'[b]) = Len(log'[b]) - (d + n)
      /\ Len(hits'[b]) <= Max(b)
      /\ \A i \in 1..Len(hits'[b]) : hits'[b][i] = log'[b][d + n + i]
      /\ \A i \in 1..(d + n) : log'[b][i] + Window(b) <= clock
      /\ \A i, j \in 1..Len(log'[b]) :
             log'[b][i] <= clock /\ (i <= j => log'[b][i] <= log'[b][j])
      /\ \A i \in 1..Len(log'[b]) :
             i + Max(b) <= Len(log'[b]) => log'[b][i + Max(b)] - log'[b][i] >= Window(b)
    <2>1. /\ log[b] \in Seq(Nat) /\ hits[b] \in Seq(Nat) /\ Kept(b, n) \in Seq(Nat)
          /\ clock \in Nat /\ Window(b) \in Nat \ {0} /\ Max(b) \in Nat \ {0}
          /\ d \in 0..Len(log[b]) /\ n \in 0..Len(hits[b])
        BY <1>1, <1>2, <1>3
    <2>2. Admitted(log'[b], hits'[b], clock, Window(b), Max(b), d + n)
        BY <1>6, <1>8, <2>1, AdmissionKeepsWindow
    <2> QED
        BY <2>2 DEF Admitted
<1>10. ASSUME NEW c \in Buckets
       PROVE  \E x \in 0..Len(log'[c]) : Remembers(c, x)'
    <2>1. CASE c = b
        <3>1. Remembers(b, d + n)'
            BY <1>4, <1>9 DEF Remembers, Window
        <3> QED
            BY <1>9, <2>1, <3>1
    <2>2. CASE c # b
        <3>1. PICK x \in 0..Len(log[c]) : Remembers(c, x)
            BY DEF IInv
        <3>2. Remembers(c, x)'
            BY <1>4, <1>7, <2>2, <3>1 DEF Remembers, Window
        <3> QED
            BY <1>7, <2>2, <3>1, <3>2
    <2> QED
        BY <2>1, <2>2
<1>11. ASSUME NEW c \in Buckets
       PROVE  Len(hits'[c]) <= Max(c)
    <2>1. CASE c = b
        BY <1>9, <2>1
    <2>2. CASE c # b
        BY <1>7, <2>2 DEF IInv
    <2> QED
        BY <2>1, <2>2
<1>12. Chronological'
    <2> SUFFICES ASSUME NEW c \in Buckets, NEW i \in 1..Len(log'[c]), NEW j \in 1..Len(log'[c])
                 PROVE  /\ log'[c][i] <= clock
                        /\ i <= j => log'[c][i] <= log'[c][j]
        BY <1>4 DEF Chronological
    <2>1. CASE c # b
        BY <1>7, <2>1 DEF IInv, Chronological
    <2>2. CASE c = b
        BY <1>9, <2>2
    <2> QED
        BY <2>1, <2>2
<1>13. PromiseFromOldest'
    <2> SUFFICES ASSUME NEW c \in Buckets, promise'[c] # 0
                 PROVE  /\ Len(hits'[c]) = Max(c)
                        /\ promise'[c] = hits'[c][1] + Window(c)
        BY DEF PromiseFromOldest, Max, Window
    <2>1. c # b
        BY <1>6
    <2> QED
        BY <1>7, <2>1 DEF IInv, PromiseFromOldest
<1>14. WindowNeverExceeded'
    <2> SUFFICES ASSUME NEW c \in Buckets, NEW i \in 1..Len(log'[c]),
                        i + Max(c) <= Len(log'[c])
                 PROVE  log'[c][i + Max(c)] - log'[c][i] >= Window(c)
        BY DEF WindowNeverExceeded, Max, Window
    <2>1. CASE c # b
        BY <1>7, <2>1 DEF IInv, WindowNeverExceeded
    <2>2. CASE c = b
        BY <1>9, <2>2
    <2> QED
        BY <2>1, <2>2
<1> QED
    BY <1>5, <1>10, <1>11, <1>12, <1>13, <1>14 DEF IInv, Max

\* A denial prunes nothing: the list already holds exactly the limit.
LEMMA DenialPrunesNothing ==
    ASSUME IInv, NEW b \in Buckets, NEW n \in 0..Len(hits[b]), CheckDenied(b, n)
    PROVE  /\ n = 0
           /\ Kept(b, n) = hits[b]
           /\ Len(hits[b]) = Max(b)
           /\ hits[b][1] \in Nat
           /\ hits[b][1] > clock - Window(b)
<1>1. /\ hits[b] \in Seq(Nat) /\ Len(hits[b]) \in Nat
      /\ Max(b) \in Nat \ {0} /\ Len(hits[b]) <= Max(b)
    BY BucketLimits DEF IInv, TypeOK
<1>2. Len(Kept(b, n)) = Len(hits[b]) - n
    BY KeptIsSuffix DEF IInv
<1>3. Stale(b, n) /\ Len(Kept(b, n)) >= Max(b)
    BY <1>1, <1>2 DEF CheckDenied, HasRoom
<1>4. n = 0 /\ Len(hits[b]) = Max(b)
    BY <1>1, <1>2, <1>3
<1>5. Kept(b, n) = hits[b]
    BY <1>1, <1>4 DEF Kept
<1> QED
    BY <1>1, <1>3, <1>4, <1>5 DEF Stale

LEMMA IInvDenied ==
    ASSUME IInv, NEW b \in Buckets, NEW n \in 0..Len(hits[b]), CheckDenied(b, n)
    PROVE  IInv'
<1>1. /\ Kept(b, n) = hits[b] /\ Len(hits[b]) = Max(b) /\ hits[b][1] \in Nat
    BY DenialPrunesNothing
<1>2. Window(b) \in Nat \ {0}
    BY BucketLimits
<1>3. /\ hits' = hits
      /\ log' = log /\ clock' = clock /\ arrived' = arrived /\ asked' = <<>>
      /\ promise' = [promise EXCEPT ![b] = hits[b][1] + Window(b)]
    BY <1>1 DEF CheckDenied, IInv, TypeOK
<1>4. TypeOK'
    BY <1>1, <1>2, <1>3 DEF IInv, TypeOK
<1>5. PromiseFromOldest'
    BY <1>1, <1>3 DEF IInv, TypeOK, PromiseFromOldest, Max, Window
<1>6. /\ Chronological' /\ WindowNeverExceeded'
      /\ \A c \in Buckets : \E d \in 0..Len(log'[c]) : Remembers(c, d)'
      /\ \A c \in Buckets : Len(hits'[c]) <= Max(c)
    BY <1>3 DEF IInv, Chronological, WindowNeverExceeded, Remembers, Max, Window
<1> QED
    BY <1>4, <1>5, <1>6 DEF IInv, Max

LEMMA IInvNext == IInv /\ [Next]_vars => IInv'
<1> SUFFICES ASSUME IInv, [Next]_vars
             PROVE  IInv'
    OBVIOUS
<1>1. ASSUME NEW specs \in Routes, Arrive(specs)
      PROVE  IInv'
    <2>1. TypeOK'
        BY <1>1, RoutesTyped DEF IInv, TypeOK, Arrive
    <2> QED
        BY <1>1, <2>1, IInvSameLists DEF Arrive, IInv, TypeOK
<1>2. ASSUME asked # <<>>, NEW n \in 0..Len(hits[Head(asked)]),
             CheckAllowed(Head(asked), n) \/ CheckDenied(Head(asked), n)
      PROVE  IInv'
    <2>1. asked \in Seq(Buckets)
        BY DEF IInv, TypeOK
    <2>2. Head(asked) \in Buckets
        BY <1>2, <2>1
    <2> QED
        BY <1>2, <2>1, <2>2, IInvAllowed, IInvDenied
<1>3. CASE Tick
    <2>1. TypeOK'
        BY <1>3 DEF IInv, TypeOK, Tick
    <2> QED
        BY <1>3, <2>1, IInvSameLists DEF Tick, IInv, TypeOK
<1>4. CASE Restart
    <2>1. TypeOK'
        BY <1>4 DEF IInv, TypeOK, Restart
    <2>2. ASSUME NEW b \in Buckets
          PROVE  /\ hits'[b] = <<>>
                 /\ log'[b] = <<>>
                 /\ promise'[b] = 0
        BY <1>4 DEF Restart
    <2>3. ASSUME NEW b \in Buckets
          PROVE  Remembers(b, 0)'
        BY <2>2 DEF Remembers
    <2> QED
        BY <2>1, <2>2, <2>3, BucketLimits
           DEF IInv, Chronological, PromiseFromOldest, WindowNeverExceeded, Max, Window
<1>5. CASE UNCHANGED vars
    <2>1. TypeOK'
        BY <1>5 DEF IInv, TypeOK, vars
    <2> QED
        BY <1>5, <2>1, IInvSameLists DEF vars, IInv, TypeOK
<1> QED
    BY <1>1, <1>2, <1>3, <1>4, <1>5 DEF Next

LEMMA Inductive == Spec => []IInv
<1> QED
    BY IInvInit, IInvNext, PTL DEF Spec

-----------------------------------------------------------------------------

\* Type correctness.
THEOREM LimiterTyped == Spec => []TypeOK
<1>1. IInv => TypeOK
    BY DEF IInv
<1> QED
    BY <1>1, Inductive, PTL

\* No window of length Window(b) ever holds more than Max(b) recorded hits.
THEOREM WindowBound == Spec => []WindowNeverExceeded
<1>1. IInv => WindowNeverExceeded
    BY DEF IInv
<1> QED
    BY <1>1, Inductive, PTL

\* Once the announced instant has come, the bucket admits.
THEOREM HonestRetryAfter == Spec => []RetryAfterIsHonest
<1>1. IInv => RetryAfterIsHonest
    <2> SUFFICES ASSUME IInv, NEW b \in Buckets, promise[b] # 0, clock >= promise[b],
                        NEW n \in 0..Len(hits[b]), Stale(b, n)
                 PROVE  HasRoom(b, n)
        BY DEF RetryAfterIsHonest
    <2>1. /\ hits[b] \in Seq(Nat) /\ Len(hits[b]) \in Nat /\ clock \in Nat
          /\ Max(b) \in Nat \ {0} /\ Window(b) \in Nat \ {0}
        BY BucketLimits DEF IInv, TypeOK
    <2>2. Len(hits[b]) = Max(b) /\ promise[b] = hits[b][1] + Window(b)
        BY DEF IInv, PromiseFromOldest
    <2>3. hits[b][1] \in Nat
        BY <2>1, <2>2
    <2>4. n # 0
        BY <2>1, <2>2, <2>3 DEF Stale
    <2>5. Len(Kept(b, n)) = Len(hits[b]) - n
        BY KeptIsSuffix DEF IInv
    <2> QED
        BY <2>1, <2>2, <2>4, <2>5 DEF HasRoom
<1> QED
    BY <1>1, Inductive, PTL

\* A denial on b changes no bucket, and finds Max(b) hits admitted within the
\* last window.
THEOREM DenialIsJustified == Spec => DeniedOnlyWhenFull
<1> DEFINE A == \A b \in Buckets : \A n \in 0..Len(hits[b]) : CheckDenied(b, n) =>
                    /\ UNCHANGED hits
                    /\ Len(log[b]) >= Max(b)
                    /\ clock - log[b][Len(log[b]) + 1 - Max(b)] < Window(b)
<1>1. ASSUME IInv
      PROVE  A
    <2> SUFFICES ASSUME NEW b \in Buckets, NEW n \in 0..Len(hits[b]), CheckDenied(b, n)
                 PROVE  /\ UNCHANGED hits
                        /\ Len(log[b]) >= Max(b)
                        /\ clock - log[b][Len(log[b]) + 1 - Max(b)] < Window(b)
        OBVIOUS
    <2>1. /\ Kept(b, n) = hits[b]
          /\ Len(hits[b]) = Max(b)
          /\ hits[b][1] \in Nat
          /\ hits[b][1] > clock - Window(b)
        BY <1>1, DenialPrunesNothing
    <2>2. UNCHANGED hits
        BY <1>1, <2>1 DEF CheckDenied, IInv, TypeOK
    <2>3. PICK d \in 0..Len(log[b]) : Remembers(b, d)
        BY <1>1 DEF IInv
    <2>4. /\ log[b] \in Seq(Nat) /\ Len(log[b]) \in Nat /\ clock \in Nat
          /\ Max(b) \in Nat \ {0} /\ Window(b) \in Nat \ {0}
        BY <1>1, BucketLimits DEF IInv, TypeOK
    <2>5. hits[b][1] = log[b][d + 1] /\ d + 1 = Len(log[b]) + 1 - Max(b)
        BY <2>1, <2>3, <2>4 DEF Remembers
    <2> QED
        BY <2>1, <2>2, <2>4, <2>5
<1>2. Spec => [][A]_vars
    BY <1>1, Inductive, PTL DEF Spec
<1> QED
    BY <1>2 DEF DeniedOnlyWhenFull

=============================================================================
