--------------------------- MODULE CleanupProofs ---------------------------
(***************************************************************************)
(* Runs add up, the developer's variables survive, and a dry run foretells *)
(* what the run after it reports, for any set of features a command line   *)
(* may name and any number of runs and deaths.                             *)
(*                                                                         *)
(* A run is a program: a sequence of steps whose order is kept as it goes  *)
(* (the loop before what follows it, a theme window ahead of both).  The   *)
(* tree is described in nine parts, each of which says what has become of  *)
(* the features stripped, S, of those some dead run left pending, P, and   *)
(* of those being stripped, F, for which a step among those to do, T, may  *)
(* still be owed.  Every step keeps every part; a run that ends owes       *)
(* nothing, and a run that dies makes what it was stripping pending.  In a *)
(* quiet tree the nine parts are what RunsAddUp says.                      *)
(*                                                                         *)
(* For the reports the same programs are used: what a real run has said    *)
(* and what its steps to do would say of the tree as it is now differs     *)
(* from what the dry run said only in the two files nothing announces.     *)
(***************************************************************************)
EXTENDS Cleanup, FiniteSetTheorems, SequenceTheorems, WellFoundedInduction, TLAPS

-----------------------------------------------------------------------------
(* Sequences of steps.                                                     *)

\* What is in A comes before what is in B.
Before(s, A, B) == \A i, j \in DOMAIN s : s[i] \in B /\ s[j] \in A => j < i

LEMMA RangeIs ==
    ASSUME NEW X, NEW s \in Seq(X)
    PROVE  /\ Range(s) \subseteq X
           /\ \A x : x \in Range(s) <=> \E i \in 1..Len(s) : s[i] = x
  BY LenProperties DEF Range

\* The tail of a program, and its range.
LEMMA TailOfSteps ==
    ASSUME NEW X, NEW s \in Seq(X), s # << >>
    PROVE  /\ Head(s) \in X /\ Tail(s) \in Seq(X)
           /\ Range(s) = {Head(s)} \cup Range(Tail(s))
<1>1. /\ Len(s) \in Nat \ {0} /\ DOMAIN s = 1..Len(s) /\ Head(s) = s[1]
      /\ Tail(s) \in Seq(X) /\ Len(Tail(s)) = Len(s) - 1
      /\ \A i \in 1..Len(Tail(s)) : Tail(s)[i] = s[i + 1]
  BY HeadTailProperties, EmptySeq, LenProperties
<1> DEFINE t == Tail(s)
           n == Len(s)
<1> HIDE DEF t, n
<1>2. n \in Nat \ {0} /\ Len(t) = n - 1 /\ \A i \in 1..n - 1 : t[i] = s[i + 1]
  BY <1>1 DEF t, n
<1>3. ASSUME NEW x PROVE (\E i \in 1..n : s[i] = x) <=> (x = s[1] \/ \E i \in 1..n - 1 : t[i] = x)
  <2>1. ASSUME NEW i \in 1..n, s[i] = x, i # 1 PROVE \E k \in 1..n - 1 : t[k] = x
    <3>1. i - 1 \in 1..n - 1 /\ t[i - 1] = s[i]
      BY <1>2, <2>1
    <3> QED
      BY <2>1, <3>1
  <2>2. ASSUME NEW i \in 1..n - 1, t[i] = x PROVE \E k \in 1..n : s[k] = x
    <3>1. i + 1 \in 1..n /\ t[i] = s[i + 1]
      BY <1>2
    <3> QED
      BY <2>2, <3>1
  <2>3. 1 \in 1..n
    BY <1>2
  <2> QED
    BY <2>1, <2>2, <2>3
<1>4. /\ \A x : x \in Range(s) <=> \E i \in 1..n : s[i] = x
      /\ \A x : x \in Range(t) <=> \E i \in 1..n - 1 : t[i] = x
  <2>1. \A x : x \in Range(s) <=> \E i \in 1..Len(s) : s[i] = x
    BY RangeIs
  <2>2. t \in Seq(X) /\ Len(t) = n - 1
    BY <1>1 DEF t, n
  <2>3. \A x : x \in Range(t) <=> \E i \in 1..Len(t) : t[i] = x
    BY <2>2, RangeIs
  <2> QED
    BY <2>1, <2>2, <2>3 DEF n
<1>5. \A x : x \in Range(s) <=> x = s[1] \/ x \in Range(t)
  BY <1>3, <1>4
<1>6. Range(s) = {Head(s)} \cup Range(Tail(s))
  BY <1>1, <1>5 DEF t
<1> QED
  BY <1>1, <1>6, HeadTailProperties

\* A tail keeps the order.
LEMMA TailBefore ==
    ASSUME NEW X, NEW s \in Seq(X), s # << >>, NEW A, NEW B, Before(s, A, B)
    PROVE  /\ Before(Tail(s), A, B)
           /\ Head(s) \in B => \A x \in Range(s) : x \notin A
<1>1. /\ Len(s) \in Nat \ {0} /\ DOMAIN s = 1..Len(s) /\ Head(s) = s[1]
      /\ Tail(s) \in Seq(X) /\ Len(Tail(s)) = Len(s) - 1
      /\ \A i \in 1..Len(Tail(s)) : Tail(s)[i] = s[i + 1]
  BY HeadTailProperties, EmptySeq, LenProperties
<1>2. DOMAIN Tail(s) = 1..Len(s) - 1
  BY <1>1, LenProperties
<1>3. ASSUME NEW i \in 1..Len(s) - 1, NEW j \in 1..Len(s) - 1, Tail(s)[i] \in B, Tail(s)[j] \in A
      PROVE  j < i
  <2>1. i + 1 \in 1..Len(s) /\ j + 1 \in 1..Len(s) /\ Tail(s)[i] = s[i + 1] /\ Tail(s)[j] = s[j + 1]
    BY <1>1
  <2>2. j + 1 < i + 1
    BY <1>1, <1>3, <2>1 DEF Before
  <2> QED
    BY <1>1, <2>2
<1>4. ASSUME Head(s) \in B, NEW x \in Range(s), x \in A PROVE FALSE
  <2>1. PICK j \in 1..Len(s) : s[j] = x
    BY RangeIs
  <2>2. 1 \in 1..Len(s)
    BY <1>1
  <2>3. j < 1
    BY <1>1, <1>4, <2>1, <2>2 DEF Before
  <2> QED
    BY <1>1, <2>3
<1> QED
  BY <1>2, <1>3, <1>4 DEF Before

\* Two programs joined: the steps of both.
LEMMA JoinedRange ==
    ASSUME NEW X, NEW s \in Seq(X), NEW t \in Seq(X)
    PROVE  s \o t \in Seq(X) /\ Range(s \o t) = Range(s) \cup Range(t)
<1> DEFINE m == Len(s)
           n == Len(t)
           u == s \o t
<1>1. /\ u \in Seq(X) /\ Len(u) = m + n /\ m \in Nat /\ n \in Nat
      /\ \A i \in 1..m + n : u[i] = IF i <= m THEN s[i] ELSE t[i - m]
  BY ConcatProperties, LenProperties
<1> HIDE DEF m, n, u
<1>2. ASSUME NEW x
      PROVE (\E i \in 1..m + n : u[i] = x) <=> ((\E i \in 1..m : s[i] = x) \/ \E i \in 1..n : t[i] = x)
  <2>1. ASSUME NEW i \in 1..m + n, u[i] = x
        PROVE (\E k \in 1..m : s[k] = x) \/ \E k \in 1..n : t[k] = x
    <3>1. CASE i <= m
      <4>1. i \in 1..m /\ s[i] = x
        BY <1>1, <2>1, <3>1
      <4> QED
        BY <4>1
    <3>2. CASE ~(i <= m)
      <4>1. i - m \in 1..n /\ t[i - m] = x
        BY <1>1, <2>1, <3>2
      <4> QED
        BY <4>1
    <3> QED
      BY <3>1, <3>2
  <2>2. ASSUME NEW i \in 1..m PROVE i \in 1..m + n /\ u[i] = s[i]
    BY <1>1
  <2>3. ASSUME NEW i \in 1..n PROVE i + m \in 1..m + n /\ u[i + m] = t[i]
    <3>1. i + m \in 1..m + n /\ ~(i + m <= m) /\ (i + m) - m = i
      BY <1>1
    <3> QED
      BY <1>1, <3>1
  <2> QED
    BY <2>1, <2>2, <2>3
<1>3. /\ \A x : x \in Range(s) <=> \E i \in 1..m : s[i] = x
      /\ \A x : x \in Range(t) <=> \E i \in 1..n : t[i] = x
  <2>1. \A x : x \in Range(s) <=> \E i \in 1..Len(s) : s[i] = x
    BY RangeIs
  <2>2. \A x : x \in Range(t) <=> \E i \in 1..Len(t) : t[i] = x
    BY RangeIs
  <2> QED
    BY <2>1, <2>2 DEF m, n
<1>4. \A x : x \in Range(u) <=> \E i \in 1..m + n : u[i] = x
  <2>1. \A x : x \in Range(u) <=> \E i \in 1..Len(u) : u[i] = x
    BY <1>1, RangeIs
  <2> QED
    BY <1>1, <2>1
<1>5. \A x : x \in Range(u) <=> x \in Range(s) \/ x \in Range(t)
  BY <1>2, <1>3, <1>4
<1> QED
  BY <1>1, <1>5 DEF u

LEMMA BeforeNone ==
    ASSUME NEW X, NEW s \in Seq(X), NEW A, NEW B, (\A x \in Range(s) : x \notin A) \/ (\A x \in Range(s) : x \notin B)
    PROVE  Before(s, A, B)
  BY RangeIs, LenProperties DEF Before

\* They keep an order that each of them keeps, when nothing of the second
\* comes before something of the first.
LEMMA JoinedBefore ==
    ASSUME NEW X, NEW s \in Seq(X), NEW t \in Seq(X), NEW A, NEW B, Before(s, A, B), Before(t, A, B),
           (\A x \in Range(s) : x \notin B) \/ (\A x \in Range(t) : x \notin A)
    PROVE  Before(s \o t, A, B)
<1> DEFINE m == Len(s)
           n == Len(t)
           u == s \o t
<1>1. /\ u \in Seq(X) /\ Len(u) = m + n /\ m \in Nat /\ n \in Nat
      /\ \A i \in 1..m + n : u[i] = IF i <= m THEN s[i] ELSE t[i - m]
  BY ConcatProperties, LenProperties
<1>2. DOMAIN u = 1..m + n /\ DOMAIN s = 1..m /\ DOMAIN t = 1..n
  BY <1>1, LenProperties
<1>3. /\ \A i \in 1..m : s[i] \in Range(s)
      /\ \A i \in 1..n : t[i] \in Range(t)
  BY RangeIs
<1> HIDE DEF m, n, u
<1>4. ASSUME NEW i \in 1..m + n, NEW j \in 1..m + n, u[i] \in B, u[j] \in A PROVE j < i
  <2>1. CASE i <= m /\ j <= m
    <3>1. i \in 1..m /\ j \in 1..m /\ s[i] \in B /\ s[j] \in A
      BY <1>1, <1>4, <2>1
    <3> QED
      BY <1>2, <3>1 DEF Before
  <2>2. CASE ~(i <= m) /\ ~(j <= m)
    <3>1. i - m \in 1..n /\ j - m \in 1..n /\ t[i - m] \in B /\ t[j - m] \in A
      BY <1>1, <1>4, <2>2
    <3>2. j - m < i - m
      BY <1>2, <3>1 DEF Before
    <3> QED
      BY <1>1, <3>2
  <2>3. CASE i <= m /\ ~(j <= m)
    <3>1. i \in 1..m /\ s[i] \in B /\ j - m \in 1..n /\ t[j - m] \in A
      BY <1>1, <1>4, <2>3
    <3> QED
      BY <1>3, <3>1
  <2>4. CASE ~(i <= m) /\ j <= m
    BY <1>1, <2>4
  <2> QED
    BY <2>1, <2>2, <2>3, <2>4
<1> QED
  BY <1>2, <1>4 DEF Before, u

\* A nonempty set of indices has a least one.
LEMMA LeastIndex ==
    ASSUME NEW T, T \subseteq Nat, T # {}
    PROVE  \E m \in T : \A k \in T : m <= k
<1>1. PICK m \in T : \A k \in T : ~(<<k, m>> \in OpToRel(<, Nat))
  BY NatLessThanWellFounded, WFMin
<1>2. ASSUME NEW k \in T PROVE m <= k
  <2>1. m \in Nat /\ k \in Nat
    OBVIOUS
  <2>2. ~(k < m)
    BY <1>1, <2>1 DEF OpToRel
  <2> QED
    BY <2>1, <2>2
<1> QED
  BY <1>2

\* The first i of the sequences, joined.
Joining(ss, h, i) == IF i = 1 THEN ss[i] ELSE h[i - 1] \o ss[i]

\* Such a function exists, so FlattenSeq, which chooses one, is one.
LEMMA JoinsExist ==
    ASSUME NEW ss, NEW n \in Nat
    PROVE  \E h : h = [i \in 1..n |-> Joining(ss, h, i)]
<1> DEFINE Solved(m) == \E h : h = [i \in 1..m |-> Joining(ss, h, i)]
           T == {m \in Nat : ~Solved(m)}
<1>1. Solved(0)
  <2> DEFINE h == [i \in 1..0 |-> 0]
  <2>1. h = [i \in 1..0 |-> Joining(ss, h, i)]
    OBVIOUS
  <2> QED
    BY <2>1
<1>2. ASSUME NEW m \in Nat, Solved(m) PROVE Solved(m + 1)
  <2>1. PICK h : h = [i \in 1..m |-> Joining(ss, h, i)]
    BY <1>2
  <2> DEFINE g == [i \in 1..m + 1 |-> IF i \in 1..m THEN h[i] ELSE Joining(ss, h, i)]
  <2>2. ASSUME NEW i \in 1..m + 1 PROVE g[i] = Joining(ss, g, i)
    <3>1. g[i] = Joining(ss, h, i)
      <4>1. CASE i \in 1..m
        <5>1. g[i] = h[i]
          BY <4>1
        <5>2. h[i] = Joining(ss, h, i)
          BY <2>1, <4>1
        <5> QED
          BY <5>1, <5>2
      <4>2. CASE i \notin 1..m
        BY <4>2
      <4> QED
        BY <4>1, <4>2
    <3>2. ASSUME i # 1 PROVE g[i - 1] = h[i - 1]
      <4>1. i - 1 \in 1..m /\ i - 1 \in 1..m + 1
        BY <3>2
      <4> QED
        BY <4>1
    <3> HIDE DEF g
    <3> QED
      BY <3>1, <3>2 DEF Joining
  <2>3. g = [i \in 1..m + 1 |-> g[i]]
    OBVIOUS
  <2>4. g = [i \in 1..m + 1 |-> Joining(ss, g, i)]
    <3> HIDE DEF g
    <3> QED
      BY <2>2, <2>3
  <2> QED
    BY <2>4
<1> HIDE DEF Solved
<1>3. T = {}
  <2> SUFFICES ASSUME T # {} PROVE FALSE
    OBVIOUS
  <2>1. PICK m \in T : \A k \in T : m <= k
    <3>1. T \subseteq Nat
      OBVIOUS
    <3> HIDE DEF T
    <3> QED
      BY <3>1, LeastIndex
  <2>2. m \in Nat /\ m # 0 /\ ~Solved(m)
    BY <1>1
  <2>3. m - 1 \in Nat /\ m - 1 \notin T
    BY <2>1, <2>2
  <2>4. Solved((m - 1) + 1)
    BY <1>2, <2>3
  <2>5. (m - 1) + 1 = m
    BY <2>2
  <2> QED
    BY <2>2, <2>4, <2>5
<1>4. Solved(n)
  BY <1>3
<1> QED
  BY <1>4 DEF Solved

\* A property of a joined program: each step is of one of the joined.
LEMMA Flattened ==
    ASSUME NEW X, NEW n \in Nat, NEW ss \in Seq(Seq(X)), Len(ss) = n
    PROVE  /\ FlattenSeq(ss) \in Seq(X)
           /\ \A x : x \in Range(FlattenSeq(ss)) <=> \E i \in 1..n : x \in Range(ss[i])
<1>0. /\ DOMAIN ss = 1..n /\ \A i \in 1..n : ss[i] \in Seq(X)
  BY LenProperties, ElementOfSeq
<1>1. CASE n = 0
  <2>1. FlattenSeq(ss) = ss
    BY <1>1 DEF FlattenSeq
  <2>2. ss = << >>
    BY <1>1, EmptySeq
  <2>3. << >> \in Seq(X) /\ Range(<< >>) = {}
    BY EmptySeq DEF Range
  <2> QED
    BY <1>1, <2>1, <2>2, <2>3
<1>2. CASE n # 0
  <2> DEFINE h == CHOOSE g : g = [i \in 1..n |-> Joining(ss, g, i)]
  <2>1. FlattenSeq(ss) = h[n]
    BY <1>2 DEF FlattenSeq, Joining
  <2>2. h = [i \in 1..n |-> Joining(ss, h, i)]
    BY JoinsExist
  <2> DEFINE Fits(m) == /\ h[m] \in Seq(X)
                        /\ \A x : x \in Range(h[m]) <=> \E i \in 1..m : x \in Range(ss[i])
             T == {m \in 1..n : ~Fits(m)}
  <2> HIDE DEF h
  <2>3. \A i \in 1..n : h[i] = IF i = 1 THEN ss[i] ELSE h[i - 1] \o ss[i]
    BY <2>2 DEF Joining
  <2>4. Fits(1)
    <3>1. 1 \in 1..n /\ h[1] = ss[1]
      BY <1>2, <2>3
    <3> QED
      BY <1>0, <3>1
  <2>5. ASSUME NEW m \in 1..n, m # 1, Fits(m - 1) PROVE Fits(m)
    <3>1. h[m] = h[m - 1] \o ss[m] /\ h[m - 1] \in Seq(X) /\ ss[m] \in Seq(X)
      BY <1>0, <2>3, <2>5
    <3>2. h[m] \in Seq(X) /\ Range(h[m]) = Range(h[m - 1]) \cup Range(ss[m])
      BY <3>1, JoinedRange
    <3>3. \A i : i \in 1..m <=> i \in 1..m - 1 \/ i = m
      OBVIOUS
    <3> QED
      BY <2>5, <3>2, <3>3
  <2> HIDE DEF Fits
  <2>6. T = {}
    <3> SUFFICES ASSUME T # {} PROVE FALSE
      OBVIOUS
    <3>1. PICK m \in T : \A k \in T : m <= k
      <4>1. T \subseteq Nat
        OBVIOUS
      <4> HIDE DEF T
      <4> QED
        BY <4>1, LeastIndex
    <3>2. m \in 1..n /\ m # 1 /\ ~Fits(m)
      BY <2>4
    <3>3. m - 1 \in 1..n /\ m - 1 \notin T
      BY <3>1, <3>2
    <3> QED
      BY <2>5, <3>2, <3>3
  <2>7. n \in 1..n
    BY <1>2
  <2> QED
    BY <2>1, <2>6, <2>7 DEF Fits
<1> QED
  BY <1>1, <1>2

-----------------------------------------------------------------------------
(* The tables.                                                             *)

\* What FEATURES says of each feature.
LEMMA Table ==
    /\ DOMAIN FEATURES = FeatureNames
    /\ FEATURES["clerk"] = Feature({"app/auth"}, {}, {"@clerk/nextjs"}, {"CLERK_KEY"}, {"/workspaces", "/billing"})
    /\ FEATURES["kanban"] = Feature({"app/kanban", "features/kanban"}, {"ui/kanban"}, {"@dnd-kit"}, {}, {"/kanban"})
    /\ FEATURES["chat"] = Feature({"app/chat", "features/chat"}, {"ui/file-preview"}, {}, {}, {"/chat"})
    /\ FEATURES["ai-chat"] = Feature({"app/ai-chat", "features/ai-chat"}, {}, {"ai", "@ai-sdk/react", "@shadcn/helpers"}, {}, {"/ai-chat"})
    /\ FEATURES["notifications"] = Feature({"app/notifications", "features/notifications"}, {"ui/notification-card"}, {}, {}, {"/notifications"})
    /\ FEATURES["themes"] = Feature({}, {}, {}, {}, {})
    /\ FEATURES["sentry"] = Feature({}, {"instrumentation", "instrumentation-client"}, {"@sentry/nextjs"}, {"SENTRY_DSN"}, {})
  BY DEF FEATURES, FeatureNames

\* No two features share a folder, a file, a dependency or a variable.
LEMMA Disjoint ==
    \A f, g \in FeatureNames : f # g =>
      /\ FEATURES[f].folders \cap FEATURES[g].folders = {}
      /\ FEATURES[f].files \cap FEATURES[g].files = {}
      /\ FEATURES[f].deps \cap FEATURES[g].deps = {}
      /\ FEATURES[f].vars \cap FEATURES[g].vars = {}
<1>1. \A f, g \in FeatureNames : f # g => FEATURES[f].folders \cap FEATURES[g].folders = {}
  BY Table DEF FeatureNames, Feature
<1>2. \A f, g \in FeatureNames : f # g => FEATURES[f].files \cap FEATURES[g].files = {}
  BY Table DEF FeatureNames, Feature
<1>3. \A f, g \in FeatureNames : f # g => FEATURES[f].deps \cap FEATURES[g].deps = {}
  BY Table DEF FeatureNames, Feature
<1>4. \A f, g \in FeatureNames : f # g => FEATURES[f].vars \cap FEATURES[g].vars = {}
  BY Table DEF FeatureNames, Feature
<1> QED
  BY <1>1, <1>2, <1>3, <1>4

\* Nor do what is deleted and what decides overlap.
LEMMA Apart ==
    /\ \A f, g \in FeatureNames : FEATURES[f].folders \cap FEATURES[g].files = {}
    /\ \A f \in FeatureNames : FEATURES[f].deps \cap CONDITIONAL_DEPS = {}
    /\ \A f \in FeatureNames : "/overview" \notin FEATURES[f].urls
    /\ \A f \in FeatureNames : (FEATURES[f].folders \cup FEATURES[f].files)
                                 \cap (Themes \cup {SelectorPath}) = {}
    /\ \A f \in FeatureNames : "features/notifications" \in FEATURES[f].folders \cup FEATURES[f].files
                                 <=> f = "notifications"
<1>1. \A f, g \in FeatureNames : FEATURES[f].folders \cap FEATURES[g].files = {}
  BY Table DEF FeatureNames, Feature
<1>2. \A f \in FeatureNames : FEATURES[f].deps \cap CONDITIONAL_DEPS = {}
  BY Table DEF FeatureNames, Feature, CONDITIONAL_DEPS
<1>3. \A f \in FeatureNames : "/overview" \notin FEATURES[f].urls
  BY Table DEF FeatureNames, Feature
<1>4. \A f \in FeatureNames : (FEATURES[f].folders \cup FEATURES[f].files)
                                 \cap (Themes \cup {SelectorPath}) = {}
  BY Table DEF FeatureNames, Feature, Themes, SelectorPath
<1>5. \A f \in FeatureNames : "features/notifications" \in FEATURES[f].folders \cup FEATURES[f].files
                                 <=> f = "notifications"
  BY Table DEF FeatureNames, Feature
<1> QED
  BY <1>1, <1>2, <1>3, <1>4, <1>5

\* What Importers says of each dependency.
LEMMA ImportersAre ==
    /\ Importers["zustand"] = {"features/kanban", "features/notifications"}
    /\ Importers["motion"] = {"features/chat"} /\ Importers["uuid"] = {"features/kanban"}
    /\ Importers["@dnd-kit"] = {"ui/kanban", "features/kanban"}
    /\ Importers["ai"] = {"features/ai-chat"} /\ Importers["@ai-sdk/react"] = {"features/ai-chat"}
    /\ Importers["@shadcn/helpers"] = {"features/ai-chat"}
    /\ Importers["@sentry/nextjs"] = {"instrumentation", "instrumentation-client", "overview/error"}
    /\ Importers["@clerk/nextjs"] = {}
<1> DEFINE D == CONDITIONAL_DEPS \cup UNION {FEATURES[f].deps : f \in FeatureNames}
<1>1. {"zustand", "motion", "uuid"} \subseteq D
  BY DEF CONDITIONAL_DEPS
<1>2. /\ "@dnd-kit" \in FEATURES["kanban"].deps
      /\ "ai" \in FEATURES["ai-chat"].deps /\ "@ai-sdk/react" \in FEATURES["ai-chat"].deps
      /\ "@shadcn/helpers" \in FEATURES["ai-chat"].deps
      /\ "@sentry/nextjs" \in FEATURES["sentry"].deps /\ "@clerk/nextjs" \in FEATURES["clerk"].deps
  BY Table DEF Feature
<1>3. {"kanban", "ai-chat", "sentry", "clerk"} \subseteq FeatureNames
  BY DEF FeatureNames
<1>4. {"@dnd-kit", "ai", "@ai-sdk/react", "@shadcn/helpers", "@sentry/nextjs", "@clerk/nextjs"} \subseteq D
  BY <1>2, <1>3
<1> HIDE DEF D
<1> QED
  BY <1>1, <1>4 DEF Importers, D

\* What imports a conditional dependency is no theme.
LEMMA ImportersAreNoThemes ==
    \A d \in CONDITIONAL_DEPS :
       Importers[d] \cap (Themes \cup {SelectorPath}) = {} /\ Importers[d] \subseteq Paths(FeatureNames)
<1>1. /\ Importers["zustand"] = {"features/kanban", "features/notifications"}
      /\ Importers["motion"] = {"features/chat"}
      /\ Importers["uuid"] = {"features/kanban"}
  BY ImportersAre
<1>2. /\ "features/kanban" \in FEATURES["kanban"].folders
      /\ "features/notifications" \in FEATURES["notifications"].folders
      /\ "features/chat" \in FEATURES["chat"].folders
  BY Table DEF Feature
<1>3. {"features/kanban", "features/notifications", "features/chat"} \subseteq Paths(FeatureNames)
  BY <1>2 DEF Paths, FeatureNames
<1> QED
  BY <1>1, <1>3 DEF CONDITIONAL_DEPS, Themes, SelectorPath

\* Membership in the unions over features.
LEMMA UnionsOver ==
    ASSUME NEW F
    PROVE  /\ \A x : x \in Paths(F) <=> \E f \in F : x \in FEATURES[f].folders \cup FEATURES[f].files
           /\ \A x : x \in Urls(F) <=> \E f \in F : x \in FEATURES[f].urls
  BY DEF Paths, Urls

LEMMA UnionsOfBoth ==
    ASSUME NEW F, NEW G
    PROVE  /\ Paths(F \cup G) = Paths(F) \cup Paths(G)
           /\ Urls(F \cup G) = Urls(F) \cup Urls(G)
           /\ Paths({}) = {} /\ Urls({}) = {}
  BY DEF Paths, Urls

LEMMA PathsApart ==
    ASSUME NEW F \in SUBSET FeatureNames
    PROVE  /\ Paths(F) \cap (Themes \cup {SelectorPath}) = {}
           /\ Paths(F) \subseteq Paths(FeatureNames)
           /\ "features/notifications" \in Paths(F) <=> "notifications" \in F
           /\ "/overview" \notin Urls(F)
<1>1. Paths(F) \cap (Themes \cup {SelectorPath}) = {}
  BY UnionsOver, Apart
<1>2. Paths(F) \subseteq Paths(FeatureNames)
  BY UnionsOver
<1>3. "features/notifications" \in Paths(F) <=> "notifications" \in F
  BY UnionsOver, Apart
<1>4. "/overview" \notin Urls(F)
  BY UnionsOver, Apart
<1> QED
  BY <1>1, <1>2, <1>3, <1>4

-----------------------------------------------------------------------------
(* The parts of the invariant.                                             *)

\* The operations of the loop over the features, and of what follows it.
LoopOps == {"folders", "files", "template", "deps", "env", "docs", "themes"}
ClosingOps == {"nav", "nextconfig", "links", "conditional", "header", "menu"}
\* Every step a run may come to.
AllSteps ==
    [op : LoopOps, arg : FeatureNames] \cup [op : ClosingOps, arg : {""}]
      \cup [op : ThemeWindow, arg : Themes] \cup {Op("theme", SelectorPath)}
Those(ops) == {o \in AllSteps : o.op \in ops}

\* What follows the loop, for the features F.
ClosingFor(F) ==
    {Op("nextconfig", ""), Op("conditional", "")}
      \cup (IF Urls(F) # {} THEN {Op("nav", ""), Op("links", "")} ELSE {})
      \cup (IF "notifications" \in F THEN {Op("header", ""), Op("menu", "")} ELSE {})

\* s is a program of a run over F, or what is left of one: a step of the loop
\* is about a feature of F, what follows the loop is still to come while the
\* loop is not over, and the order of the steps is kept.
Program(F, s) ==
    /\ s \in Seq(AllSteps)
    /\ \A o \in Range(s) : o.op \in LoopOps => o.arg \in F
    /\ \A o \in Range(s) : o.op = "header" => "notifications" \in F
    /\ \A o \in Range(s) : o.op \in ThemeWindow \cup {"themes"} => "themes" \in F
    /\ (\E o \in Range(s) : o.op \in LoopOps) => ClosingFor(F) \subseteq Range(s)
    /\ Before(s, Those(LoopOps), Those(ClosingOps))
    /\ Before(s, Those(ThemeWindow), Those(LoopOps \cup ClosingOps))
    /\ Before(s, Those(ThemeWindow \ {"fonts"}), Those({"fonts"}))
    /\ Before(s, Those({"unselect"}), {Op("theme", SelectorPath)})

Fonts == AlwaysKeptFonts \cup UNION {FontsOf[t] : t \in Themes}
\* The trees a run may leave.
Repositories ==
    [tree : SUBSET InitialRepo.tree, pkg : SUBSET InitialRepo.pkg,
     nav : SUBSET InitialRepo.nav, links : SUBSET InitialRepo.links,
     menu : SUBSET {"/notifications"}, hosts : BOOLEAN,
     header : SUBSET InitialRepo.header, imports : SUBSET Themes,
     config : SUBSET Themes, fonts : SUBSET Fonts, docs : SUBSET Documented]

\* The files: none of S is left, of F only what is still to be deleted, and
\* nothing is gone that no run was about.
Gone(r, S, P, F, T) ==
    /\ Paths(FeatureNames) \ r.tree \subseteq Paths(S \cup P \cup F)
    /\ r.tree \cap Paths(S) = {}
    /\ \A f \in F : Op("folders", f) \in T \/ FEATURES[f].folders \cap r.tree = {}
    /\ \A f \in F : Op("files", f) \in T \/ FEATURES[f].files \cap r.tree = {}

\* The dependencies: those of S are gone, those of F are gone or to go; one is
\* missing only if its feature, or all that imports it, was stripped; and none
\* is kept that nothing imports, but while that is still to be settled.
Packages(r, S, P, F, T) ==
    /\ \A f \in S : FEATURES[f].deps \cap r.pkg = {}
    /\ \A f \in F : Op("deps", f) \in T \/ FEATURES[f].deps \cap r.pkg = {}
    /\ \A d \in InitialRepo.pkg \ r.pkg :
          \/ \E f \in S \cup P \cup F : d \in FEATURES[f].deps
          \/ d \in CONDITIONAL_DEPS /\ Importers[d] \cap r.tree \subseteq Paths(P \cup F)
    /\ \/ F = {} /\ P # {}
       \/ Op("conditional", "") \in T
       \/ \A d \in r.pkg \cap CONDITIONAL_DEPS : Importers[d] \cap (r.tree \ Paths(F)) # {}

\* next.config.ts names Clerk's image hosts only while a step is to remove them.
Hosts(r, P, F, T) ==
    r.hosts => \/ F = {} /\ P # {}
               \/ Op("nextconfig", "") \in T

\* The navigation: nothing of S, of F only what is still to be removed.
Nav(r, S, P, F, T) ==
    /\ r.nav \cap Urls(S) = {}
    /\ Op("nav", "") \in T \/ r.nav \cap Urls(F) = {}
    /\ InitialRepo.nav \ r.nav \subseteq Urls(S \cup P \cup F)

\* The links of the notification centre, while there is one.
Links(r, S, P, F, T) ==
    "notifications" \notin S \cup P \cup F =>
      /\ r.links \cap Urls(S) = {}
      /\ Op("links", "") \in T \/ r.links \cap Urls(F) = {}

\* The notification centre in the header, with its feature.
Header(r, S, P, F, T) ==
    /\ "NotificationCenter" \in r.header =>
         /\ "notifications" \notin S
         /\ "notifications" \in F => Op("header", "") \in T
    /\ "NotificationCenter" \notin r.header => "notifications" \in S \cup P \cup F

\* The entry in the sidebar, which a Clerk run brings back.
Menu(r, again, P, F, T) ==
    r.menu # {} => /\ again \/ "clerk" \in P \cup F
                   /\ "notifications" \in F => Op("menu", "") \in T

\* The sections of the documents, with their features.
Docs(r, S, P, F, T) ==
    /\ r.docs \cap S = {}
    /\ InitialRepo.docs \ r.docs \subseteq S \cup P \cup F
    /\ \A f \in F : Op("docs", f) \in T \/ f \notin r.docs

\* Only the theme k is left, everywhere.
Only(r, k) ==
    /\ r.tree \cap Themes = {k}
    /\ r.imports = {k} /\ r.config = {k}
    /\ "ThemeSelector" \notin r.header /\ SelectorPath \notin r.tree
    /\ r.fonts = AlwaysKeptFonts \cup FontsOf[k]

\* One theme file is left.
Single(r) == \E k \in Themes : r.tree \cap Themes = {k}

\* The steps T are in a theme window.
InWindow(T) == \E o \in T : o.op \in ThemeWindow

\* On the way to keeping k.
Narrowing(r, k, T) ==
    /\ k \in r.tree
    /\ Op("fonts", k) \in T
    /\ \A o \in T : o.op \in ThemeWindow =>
         IF o.op = "theme" THEN o.arg # k ELSE o.arg = k
    /\ \A t \in r.tree \cap Themes : t = k \/ Op("theme", t) \in T
    /\ r.imports = {k} \/ Op("theme.css", k) \in T
    /\ r.config = {k} \/ Op("theme.config", k) \in T
    /\ "ThemeSelector" \notin r.header \/ Op("unselect", k) \in T
    /\ SelectorPath \notin r.tree \/ Op("theme", SelectorPath) \in T
    /\ AlwaysKeptFonts \cup FontsOf[k] \subseteq r.fonts

\* The themes: inside a window the rest of it is to come, outside it either
\* every theme is there or only one is, everywhere, unless a run died inside.
ThemesHold(r, scarred, S, F, T) ==
    /\ r.tree \cap Themes # {}
    /\ ~Single(r) => r.fonts = Fonts
    /\ SelectorPath \notin r.tree => "ThemeSelector" \notin r.header
    /\ IF InWindow(T) THEN \E k \in Themes : Narrowing(r, k, T)
       ELSE Single(r) /\ ~scarred => \E k \in Themes : Only(r, k)
    /\ "themes" \in S => Single(r)
    /\ "themes" \in F => InWindow(T) \/ Op("themes", "themes") \in T \/ Single(r)

-----------------------------------------------------------------------------
(* The program of a command line.                                          *)

\* The steps of the loop for one feature.
LoopSteps(f) ==
    IF f = "themes" THEN {Op("docs", f), Op("themes", f)}
    ELSE {Op("folders", f), Op("files", f), Op("template", f), Op("deps", f), Op("env", f), Op("docs", f)}

\* T holds all that cleanup has for the features F, and nothing of a window.
Whole(F, T) ==
    /\ \A f \in F : LoopSteps(f) \subseteq T
    /\ ClosingFor(F) \subseteq T
    /\ ~InWindow(T)

LEMMA OpIs ==
    /\ \A a, b : Op(a, b).op = a /\ Op(a, b).arg = b
    /\ \A a, b, c, d : Op(a, b) = Op(c, d) <=> a = c /\ b = d
  BY DEF Op

\* A step of the loop has a feature for argument, a step after it none.
LEMMA StepKinds ==
    /\ \A o \in LoopOps, f \in FeatureNames : Op(o, f) \in AllSteps
    /\ \A o \in ClosingOps : Op(o, "") \in AllSteps
    /\ \A o \in ThemeWindow, k \in Themes : Op(o, k) \in AllSteps
    /\ Op("theme", SelectorPath) \in AllSteps
    /\ \A o \in AllSteps :
         /\ o = Op(o.op, o.arg)
         /\ o.op \in LoopOps \cup ClosingOps \cup ThemeWindow
         /\ o.op \in LoopOps => o.arg \in FeatureNames
         /\ o.op \in ClosingOps => o.arg = ""
         /\ o.op \in ThemeWindow => o.arg \in Themes \/ o = Op("theme", SelectorPath)
    /\ LoopOps \cap ClosingOps = {} /\ LoopOps \cap ThemeWindow = {} /\ ClosingOps \cap ThemeWindow = {}
<1>1. /\ \A o \in LoopOps, f \in FeatureNames : Op(o, f) \in AllSteps
      /\ \A o \in ClosingOps : Op(o, "") \in AllSteps
      /\ \A o \in ThemeWindow, k \in Themes : Op(o, k) \in AllSteps
      /\ Op("theme", SelectorPath) \in AllSteps
  BY DEF Op, AllSteps
<1>2. LoopOps \cap ClosingOps = {} /\ LoopOps \cap ThemeWindow = {} /\ ClosingOps \cap ThemeWindow = {}
  BY DEF LoopOps, ClosingOps, ThemeWindow
<1>3. ASSUME NEW o \in AllSteps
      PROVE  /\ o = Op(o.op, o.arg)
             /\ o.op \in LoopOps \cup ClosingOps \cup ThemeWindow
             /\ o.op \in LoopOps => o.arg \in FeatureNames
             /\ o.op \in ClosingOps => o.arg = ""
             /\ o.op \in ThemeWindow => o.arg \in Themes \/ o = Op("theme", SelectorPath)
  <2>1. CASE o \in [op : LoopOps, arg : FeatureNames]
    BY <1>2, <2>1 DEF Op
  <2>2. CASE o \in [op : ClosingOps, arg : {""}]
    BY <1>2, <2>2 DEF Op
  <2>3. CASE o \in [op : ThemeWindow, arg : Themes]
    BY <1>2, <2>3 DEF Op
  <2>4. CASE o = Op("theme", SelectorPath)
    <3>1. o.op = "theme" /\ "theme" \in ThemeWindow
      BY <2>4, OpIs DEF ThemeWindow
    <3> QED
      BY <1>2, <2>4, <3>1, OpIs
  <2> QED
    BY <2>1, <2>2, <2>3, <2>4 DEF AllSteps
<1> QED
  BY <1>1, <1>2, <1>3

LEMMA SixSteps ==
    ASSUME NEW X, NEW a \in X, NEW b \in X, NEW c \in X, NEW d \in X, NEW e \in X, NEW g \in X
    PROVE  /\ <<a, b, c, d, e, g>> \in Seq(X)
           /\ Range(<<a, b, c, d, e, g>>) = {a, b, c, d, e, g}
<1>1. <<a, b, c, d, e, g>> \in Seq(X)
  OBVIOUS
<1>2. /\ DOMAIN <<a, b, c, d, e, g>> = 1..6
      /\ 1..6 = {1, 2, 3, 4, 5, 6}
  OBVIOUS
<1> QED
  BY <1>1, <1>2 DEF Range

LEMMA NoStep == ASSUME NEW X PROVE << >> \in Seq(X) /\ Range(<< >>) = {}
  BY EmptySeq DEF Range

LEMMA OneStep == ASSUME NEW X, NEW a \in X PROVE <<a>> \in Seq(X) /\ Range(<<a>>) = {a}
<1>1. DOMAIN <<a>> = 1..1 /\ 1..1 = {1}
  OBVIOUS
<1> QED
  BY <1>1 DEF Range

LEMMA TwoSteps ==
    ASSUME NEW X, NEW a \in X, NEW b \in X
    PROVE  <<a, b>> \in Seq(X) /\ Range(<<a, b>>) = {a, b}
<1>1. DOMAIN <<a, b>> = 1..2 /\ 1..2 = {1, 2}
  OBVIOUS
<1> QED
  BY <1>1 DEF Range

LEMMA ThreeSteps ==
    ASSUME NEW X, NEW a \in X, NEW b \in X, NEW c \in X
    PROVE  <<a, b, c>> \in Seq(X) /\ Range(<<a, b, c>>) = {a, b, c}
<1>1. DOMAIN <<a, b, c>> = 1..3 /\ 1..3 = {1, 2, 3}
  OBVIOUS
<1> QED
  BY <1>1 DEF Range

\* FeatureSteps is a program of those steps.
LEMMA FeatureStepsAre ==
    ASSUME NEW f \in FeatureNames
    PROVE  /\ FeatureSteps(f) \in Seq(AllSteps)
           /\ Range(FeatureSteps(f)) = LoopSteps(f)
           /\ \A o \in LoopSteps(f) : o \in AllSteps /\ o.op \in LoopOps /\ o.arg = f
<1>1. \A o \in LoopOps : Op(o, f) \in AllSteps
  BY StepKinds
<1>2. LoopOps = {"folders", "files", "template", "deps", "env", "docs", "themes"}
  BY DEF LoopOps
<1>3. CASE f = "themes"
  <2>1. Op("docs", f) \in AllSteps /\ Op("themes", f) \in AllSteps
    BY <1>1, <1>2
  <2>2. FeatureSteps(f) = <<Op("docs", f), Op("themes", f)>> /\ LoopSteps(f) = {Op("docs", f), Op("themes", f)}
    BY <1>3 DEF FeatureSteps, LoopSteps
  <2>3. FeatureSteps(f) \in Seq(AllSteps) /\ Range(FeatureSteps(f)) = LoopSteps(f)
    BY <2>1, <2>2, TwoSteps
  <2> QED
    BY <1>2, <2>1, <2>2, <2>3, OpIs
<1>4. CASE f # "themes"
  <2>1. /\ Op("folders", f) \in AllSteps /\ Op("files", f) \in AllSteps /\ Op("template", f) \in AllSteps
        /\ Op("deps", f) \in AllSteps /\ Op("env", f) \in AllSteps /\ Op("docs", f) \in AllSteps
    BY <1>1, <1>2
  <2>2. /\ FeatureSteps(f) = <<Op("folders", f), Op("files", f), Op("template", f), Op("deps", f), Op("env", f), Op("docs", f)>>
        /\ LoopSteps(f) = {Op("folders", f), Op("files", f), Op("template", f), Op("deps", f), Op("env", f), Op("docs", f)}
    BY <1>4 DEF FeatureSteps, LoopSteps
  <2>3. FeatureSteps(f) \in Seq(AllSteps) /\ Range(FeatureSteps(f)) = LoopSteps(f)
    BY <2>1, <2>2, SixSteps
  <2> QED
    BY <1>2, <2>1, <2>2, <2>3, OpIs
<1> QED
  BY <1>3, <1>4

\* ClosingSteps is a program of what follows the loop.
LEMMA ClosingStepsAre ==
    ASSUME NEW F
    PROVE  /\ ClosingSteps(F) \in Seq(AllSteps)
           /\ Range(ClosingSteps(F)) = ClosingFor(F)
           /\ \A o \in ClosingFor(F) : o \in AllSteps /\ o.op \in ClosingOps
<1> DEFINE a == IF Urls(F) # {} THEN <<Op("nav", ""), Op("nextconfig", ""), Op("links", "")>>
                ELSE <<Op("nextconfig", "")>>
           b == <<Op("conditional", "")>>
           c == IF "notifications" \in F THEN <<Op("header", ""), Op("menu", "")>> ELSE << >>
<1>1. /\ Op("nav", "") \in AllSteps /\ Op("nextconfig", "") \in AllSteps /\ Op("links", "") \in AllSteps
      /\ Op("conditional", "") \in AllSteps /\ Op("header", "") \in AllSteps /\ Op("menu", "") \in AllSteps
  BY StepKinds DEF ClosingOps
<1>2. a \in Seq(AllSteps) /\ Range(a) = {Op("nextconfig", "")} \cup (IF Urls(F) # {} THEN {Op("nav", ""), Op("links", "")} ELSE {})
  <2>1. CASE Urls(F) # {}
    <3>1. a = <<Op("nav", ""), Op("nextconfig", ""), Op("links", "")>>
      BY <2>1
    <3> HIDE DEF a
    <3>2. a \in Seq(AllSteps) /\ Range(a) = {Op("nav", ""), Op("nextconfig", ""), Op("links", "")}
      BY <1>1, <3>1, ThreeSteps
    <3> QED
      BY <2>1, <3>2
  <2>2. CASE Urls(F) = {}
    <3>1. a = <<Op("nextconfig", "")>>
      BY <2>2
    <3> HIDE DEF a
    <3>2. a \in Seq(AllSteps) /\ Range(a) = {Op("nextconfig", "")}
      BY <1>1, <3>1, OneStep
    <3> QED
      BY <2>2, <3>2
  <2> QED
    BY <2>1, <2>2
<1>3. b \in Seq(AllSteps) /\ Range(b) = {Op("conditional", "")}
  BY <1>1, OneStep
<1>4. c \in Seq(AllSteps) /\ Range(c) = IF "notifications" \in F THEN {Op("header", ""), Op("menu", "")} ELSE {}
  <2>1. CASE "notifications" \in F
    BY <1>1, <2>1, TwoSteps
  <2>2. CASE "notifications" \notin F
    BY <1>1, <2>2, NoStep
  <2> QED
    BY <2>1, <2>2
<1>5. ClosingSteps(F) = a \o b \o c
  BY DEF ClosingSteps
<1> HIDE DEF a, b, c
<1>6. a \in Seq(AllSteps) /\ b \in Seq(AllSteps) /\ c \in Seq(AllSteps)
  BY <1>2, <1>3, <1>4
<1> DEFINE ab == a \o b
<1> HIDE DEF ab
<1>10. ab \in Seq(AllSteps) /\ Range(ab) = Range(a) \cup Range(b)
  BY <1>6, JoinedRange DEF ab
<1>11. ab \o c \in Seq(AllSteps) /\ Range(ab \o c) = Range(ab) \cup Range(c)
  BY <1>6, <1>10, JoinedRange
<1>7. a \o b \o c \in Seq(AllSteps) /\ Range(a \o b \o c) = Range(a) \cup Range(b) \cup Range(c)
  BY <1>10, <1>11 DEF ab
<1>8. Range(ClosingSteps(F)) = ClosingFor(F)
  BY <1>2, <1>3, <1>4, <1>5, <1>7 DEF ClosingFor
<1>9. \A o \in ClosingFor(F) : o \in AllSteps /\ o.op \in ClosingOps
  <2>1. \A o \in ClosingFor(F) : \E c0 \in ClosingOps : o = Op(c0, "")
    BY DEF ClosingFor, ClosingOps
  <2>2. \A c0 \in ClosingOps : Op(c0, "") \in AllSteps
    BY StepKinds
  <2>3. \A c0 : Op(c0, "").op = c0
    BY DEF Op
  <2> QED
    BY <2>1, <2>2, <2>3
<1> QED
  BY <1>5, <1>7, <1>8, <1>9

\* A command line is a nonempty sequence of features.
LEMMA CommandLines ==
    ASSUME NEW features \in Named \cup {AllFeatures}
    PROVE  /\ features \in Seq(FeatureNames) /\ features # << >>
           /\ Range(features) \subseteq FeatureNames /\ Range(features) # {}
           /\ Len(features) \in Nat /\ DOMAIN features = 1..Len(features)
           /\ \A f \in Range(features) : \E i \in 1..Len(features) : features[i] = f
           /\ \A i \in 1..Len(features) : features[i] \in Range(features)
<1>1. features \in Seq(FeatureNames) /\ Len(features) # 0
  <2>1. CASE features \in Named
    <3>1. PICK n \in 1..MaxNamed : features \in [1..n -> Removable]
      BY <2>1 DEF Named
    <3>2. n \in Nat /\ n # 0
      BY CleanupAssumption
    <3>3. features \in [1..n -> FeatureNames]
      BY <3>1, CleanupAssumption
    <3>4. features \in Seq(FeatureNames) /\ Len(features) = n
      BY <3>2, <3>3
    <3> QED
      BY <3>2, <3>4
  <2>2. CASE features = AllFeatures
    BY <2>2 DEF AllFeatures, FeatureNames
  <2> QED
    BY <2>1, <2>2
<1>2. Len(features) \in Nat /\ DOMAIN features = 1..Len(features) /\ features # << >>
  BY <1>1, LenProperties, EmptySeq
<1>3. \A x : x \in Range(features) <=> \E i \in 1..Len(features) : features[i] = x
  BY <1>1, RangeIs
<1>4. Range(features) \subseteq FeatureNames
  BY <1>1, RangeIs
<1>5. 1 \in 1..Len(features)
  BY <1>1, <1>2
<1> QED
  BY <1>1, <1>2, <1>3, <1>4, <1>5

LEMMA ProgramsAre ==
    ASSUME NEW features \in Named \cup {AllFeatures}
    PROVE  /\ Program(Range(features), cleanup(features))
           /\ Whole(Range(features), Range(cleanup(features)))
<1> DEFINE F == Range(features)
           n == Len(features)
           ss == [i \in 1..n |-> FeatureSteps(features[i])]
           s == FlattenSeq(ss)
           c == ClosingSteps(F)
<1>1. /\ n \in Nat /\ F \subseteq FeatureNames
      /\ \A f \in F : \E i \in 1..n : features[i] = f
      /\ \A i \in 1..n : features[i] \in F
  BY CommandLines
<1>2. cleanup(features) = s \o c
  BY DEF cleanup
<1>3. c \in Seq(AllSteps) /\ Range(c) = ClosingFor(F) /\ \A o \in ClosingFor(F) : o \in AllSteps /\ o.op \in ClosingOps
  BY ClosingStepsAre
<1>4. ss \in Seq(Seq(AllSteps)) /\ Len(ss) = n /\ \A i \in 1..n : ss[i] = FeatureSteps(features[i])
  <2>1. \A i \in 1..n : FeatureSteps(features[i]) \in Seq(AllSteps)
    BY <1>1, FeatureStepsAre
  <2> HIDE DEF n
  <2> QED
    BY <1>1, <2>1
<1> HIDE DEF F, n, ss, s, c
<1>5. s \in Seq(AllSteps) /\ \A x : x \in Range(s) <=> \E i \in 1..n : x \in Range(ss[i])
  BY <1>1, <1>4, Flattened DEF s
<1>6. \A x : x \in Range(s) <=> \E f \in F : x \in LoopSteps(f)
  <2>1. \A i \in 1..n : Range(ss[i]) = LoopSteps(features[i])
    BY <1>1, <1>4, FeatureStepsAre
  <2> QED
    BY <1>1, <1>5, <2>1
<1>7. s \o c \in Seq(AllSteps) /\ Range(s \o c) = Range(s) \cup Range(c)
  BY <1>3, <1>5, JoinedRange
<1>8. /\ \A x \in Range(s) : x \in AllSteps /\ x.op \in LoopOps /\ x.arg \in F
      /\ \A x \in Range(c) : x \in AllSteps /\ x.op \in ClosingOps
  BY <1>1, <1>3, <1>6, FeatureStepsAre
<1>9. Whole(F, Range(s \o c))
  <2>1. \A o \in Range(s \o c) : o.op \notin ThemeWindow
    BY <1>7, <1>8, StepKinds
  <2> QED
    BY <1>3, <1>6, <1>7, <2>1 DEF Whole, InWindow
<1>10. \A o \in Range(s \o c) : o.op \in LoopOps => o.arg \in F
  BY <1>7, <1>8, StepKinds
<1>11. Before(s \o c, Those(LoopOps), Those(ClosingOps))
  <2>1. \A x \in Range(s) : x \notin Those(ClosingOps)
    BY <1>8, StepKinds DEF Those
  <2>2. \A x \in Range(c) : x \notin Those(LoopOps)
    BY <1>8, StepKinds DEF Those
  <2>3. Before(s, Those(LoopOps), Those(ClosingOps)) /\ Before(c, Those(LoopOps), Those(ClosingOps))
    BY <1>3, <1>5, <2>1, <2>2, BeforeNone
  <2> QED
    BY <1>3, <1>5, <2>2, <2>3, JoinedBefore
<1>12. /\ \A x \in Range(s \o c) : x \notin Those(ThemeWindow) /\ x \notin Those(ThemeWindow \ {"fonts"})
                                    /\ x \notin Those({"unselect"})
  BY <1>9 DEF Whole, InWindow, Those, ThemeWindow
<1>13. /\ Before(s \o c, Those(ThemeWindow), Those(LoopOps \cup ClosingOps))
       /\ Before(s \o c, Those(ThemeWindow \ {"fonts"}), Those({"fonts"}))
       /\ Before(s \o c, Those({"unselect"}), {Op("theme", SelectorPath)})
  BY <1>7, <1>12, BeforeNone
<1>14. ClosingFor(F) \subseteq Range(s \o c)
  BY <1>3, <1>7
<1>16. \A o \in Range(s \o c) : o.op = "header" => "notifications" \in F
  <2>1. \A o \in ClosingFor(F) : o.op = "header" => "notifications" \in F
    <3> SUFFICES ASSUME NEW o \in ClosingFor(F), "notifications" \notin F PROVE o.op # "header"
      OBVIOUS
    <3>1. o \in {Op("nextconfig", ""), Op("conditional", ""), Op("nav", ""), Op("links", "")}
      BY DEF ClosingFor
    <3>2. /\ Op("nextconfig", "").op = "nextconfig" /\ Op("conditional", "").op = "conditional"
          /\ Op("nav", "").op = "nav" /\ Op("links", "").op = "links"
      BY DEF Op
    <3> QED
      BY <3>1, <3>2
  <2>2. \A o \in Range(s) : o.op # "header"
    BY <1>8 DEF LoopOps
  <2> QED
    BY <1>3, <1>7, <2>1, <2>2
<1>17. \A o \in Range(s \o c) : o.op \in ThemeWindow \cup {"themes"} => "themes" \in F
  <2>1. \A o \in Range(s) : o.op = "themes" => "themes" \in F
    <3> SUFFICES ASSUME NEW o \in Range(s), o.op = "themes" PROVE "themes" \in F
      OBVIOUS
    <3>1. PICK f \in F : o \in LoopSteps(f)
      BY <1>6
    <3> QED
      BY <3>1, OpIs DEF LoopSteps
  <2>2. \A o \in Range(c) : o.op # "themes"
    BY <1>8 DEF ClosingOps
  <2> QED
    BY <1>7, <1>9, <2>1, <2>2 DEF Whole, InWindow
<1>15. Program(F, s \o c)
  BY <1>7, <1>10, <1>16, <1>17, <1>11, <1>13, <1>14 DEF Program
<1> QED
  BY <1>2, <1>9, <1>15 DEF F

\* A program loses its first step.
LEMMA ProgramTail ==
    ASSUME NEW F, NEW s, Program(F, s), s # << >>
    PROVE  /\ Program(F, Tail(s))
           /\ Head(s) \in AllSteps
           /\ Head(s).op \in LoopOps => Head(s).arg \in F
           /\ Head(s).op = "header" => "notifications" \in F
           /\ Head(s).op \in ThemeWindow \cup {"themes"} => "themes" \in F
           /\ Head(s).op \in LoopOps => ClosingFor(F) \subseteq Range(Tail(s))
           /\ Range(s) = {Head(s)} \cup Range(Tail(s))
           /\ Head(s).op \notin ThemeWindow => ~InWindow(Range(s))
           /\ Head(s).op = "fonts" => \A o \in Range(s) : o.op \in ThemeWindow => o.op = "fonts"
           /\ Head(s) = Op("theme", SelectorPath) => \A o \in Range(s) : o.op # "unselect"
           /\ Range(s) \subseteq AllSteps /\ Range(Tail(s)) \subseteq Range(s)
<1> DEFINE h == Head(s)
           t == Tail(s)
<1>1. /\ s \in Seq(AllSteps)
      /\ \A o \in Range(s) : o.op \in LoopOps => o.arg \in F
      /\ \A o \in Range(s) : o.op = "header" => "notifications" \in F
      /\ \A o \in Range(s) : o.op \in ThemeWindow \cup {"themes"} => "themes" \in F
      /\ (\E o \in Range(s) : o.op \in LoopOps) => ClosingFor(F) \subseteq Range(s)
      /\ Before(s, Those(LoopOps), Those(ClosingOps))
      /\ Before(s, Those(ThemeWindow), Those(LoopOps \cup ClosingOps))
      /\ Before(s, Those(ThemeWindow \ {"fonts"}), Those({"fonts"}))
      /\ Before(s, Those({"unselect"}), {Op("theme", SelectorPath)})
  BY DEF Program
<1>2. h \in AllSteps /\ t \in Seq(AllSteps) /\ Range(s) = {h} \cup Range(t)
  BY <1>1, TailOfSteps
<1>3. Before(t, Those(LoopOps), Those(ClosingOps)) /\ (h \in Those(ClosingOps) => \A x \in Range(s) : x \notin Those(LoopOps))
  BY <1>1, TailBefore
<1>4. /\ Before(t, Those(ThemeWindow), Those(LoopOps \cup ClosingOps))
      /\ h \in Those(LoopOps \cup ClosingOps) => \A x \in Range(s) : x \notin Those(ThemeWindow)
  BY <1>1, TailBefore
<1>5. /\ Before(t, Those(ThemeWindow \ {"fonts"}), Those({"fonts"}))
      /\ h \in Those({"fonts"}) => \A x \in Range(s) : x \notin Those(ThemeWindow \ {"fonts"})
  BY <1>1, TailBefore
<1>6. /\ Before(t, Those({"unselect"}), {Op("theme", SelectorPath)})
      /\ h \in {Op("theme", SelectorPath)} => \A x \in Range(s) : x \notin Those({"unselect"})
  BY <1>1, TailBefore
<1> HIDE DEF h, t
<1>7. Range(s) \subseteq AllSteps
  BY <1>1, RangeIs
<1>8. \A o \in ClosingFor(F) : o \in AllSteps /\ o.op \in ClosingOps
  BY ClosingStepsAre
<1>9. h.op \in LoopOps => ClosingFor(F) \subseteq Range(t)
  BY <1>1, <1>2, <1>8, StepKinds
<1>10. (\E o \in Range(t) : o.op \in LoopOps) => ClosingFor(F) \subseteq Range(t)
  <2> SUFFICES ASSUME NEW o \in Range(t), o.op \in LoopOps PROVE ClosingFor(F) \subseteq Range(t)
    OBVIOUS
  <2>1. o \in Range(s) /\ o \in Those(LoopOps)
    BY <1>2, <1>7 DEF Those
  <2>2. h.op \notin ClosingOps
    BY <1>2, <1>3, <2>1 DEF Those
  <2>3. h \notin ClosingFor(F) /\ ClosingFor(F) \subseteq Range(s)
    BY <1>1, <1>8, <2>1, <2>2
  <2> QED
    BY <1>2, <2>3
<1>11. Program(F, t)
  BY <1>1, <1>2, <1>3, <1>4, <1>5, <1>6, <1>10 DEF Program
<1>12. h.op \notin ThemeWindow => ~InWindow(Range(s))
  <2> SUFFICES ASSUME h.op \notin ThemeWindow, NEW o \in Range(s), o.op \in ThemeWindow PROVE FALSE
    BY DEF InWindow
  <2>1. h \in Those(LoopOps \cup ClosingOps)
    BY <1>2, StepKinds DEF Those
  <2>2. o \in Those(ThemeWindow)
    BY <1>7 DEF Those
  <2> QED
    BY <1>4, <2>1, <2>2
<1>13. h.op = "fonts" => \A o \in Range(s) : o.op \in ThemeWindow => o.op = "fonts"
  BY <1>2, <1>5, <1>7 DEF Those
<1>14. h = Op("theme", SelectorPath) => \A o \in Range(s) : o.op # "unselect"
  BY <1>6, <1>7 DEF Those
<1> QED
  BY <1>1, <1>2, <1>7, <1>9, <1>11, <1>12, <1>13, <1>14 DEF h, t

\* What a window has to do.
WindowSteps(keep, other) ==
    {Op("theme", other), Op("theme.css", keep), Op("theme.config", keep), Op("fonts", keep)}
      \cup (IF SelectorPath \in repo.tree THEN {Op("unselect", keep), Op("theme", SelectorPath)} ELSE {})

LEMMA SequenceOfOne ==
    ASSUME NEW t
    PROVE  SetToSeq({t}) = <<t>>
<1>1. Cardinality({t}) = 1 /\ 1..1 = {1}
  BY FS_Singleton
<1> DEFINE s == SetToSeq({t})
           g == [i \in 1..1 |-> t]
<1>2. g \in [1..Cardinality({t}) -> {t}] /\ IsInjective(g)
  BY <1>1 DEF IsInjective
<1>3. s \in [1..1 -> {t}]
  BY <1>1, <1>2 DEF SetToSeq
<1> HIDE DEF s, g
<1>4. s = [i \in 1..1 |-> t]
  BY <1>3
<1>5. [i \in 1..1 |-> t] = <<t>>
  BY <1>1
<1> QED
  BY <1>4, <1>5 DEF s

LEMMA OpsOfOne ==
    ASSUME NEW op, NEW t
    PROVE  Ops(op, <<t>>) = <<Op(op, t)>>
<1>1. Len(<<t>>) = 1 /\ 1..1 = {1} /\ <<t>>[1] = t
  OBVIOUS
<1>2. Ops(op, <<t>>) = [i \in 1..1 |-> Op(op, <<t>>[i])]
  BY <1>1 DEF Ops
<1>3. Ops(op, <<t>>) = [i \in 1..1 |-> Op(op, t)]
  BY <1>1, <1>2
<1>4. [i \in 1..1 |-> Op(op, t)] = <<Op(op, t)>>
  OBVIOUS
<1> QED
  BY <1>3, <1>4

\* ThemeSteps is a program of them.
LEMMA WindowsAre ==
    ASSUME NEW keep \in Themes, NEW other \in Themes
    PROVE  /\ ThemeSteps(keep, {other}) \in Seq(AllSteps)
           /\ Range(ThemeSteps(keep, {other})) = WindowSteps(keep, other)
           /\ \A o \in WindowSteps(keep, other) : o \in AllSteps /\ o.op \in ThemeWindow
           /\ Before(ThemeSteps(keep, {other}), Those(ThemeWindow \ {"fonts"}), Those({"fonts"}))
           /\ Before(ThemeSteps(keep, {other}), Those({"unselect"}), {Op("theme", SelectorPath)})
<1> DEFINE a == Ops("theme", SetToSeq({other}))
           b == <<Op("theme.css", keep), Op("theme.config", keep)>>
           c == IF SelectorPath \in repo.tree THEN <<Op("unselect", keep), Op("theme", SelectorPath)>> ELSE << >>
           d == <<Op("fonts", keep)>>
           A == Those(ThemeWindow \ {"fonts"})
           B == Those({"fonts"})
           C == Those({"unselect"})
           D == {Op("theme", SelectorPath)}
<1>1. /\ Op("theme", other) \in AllSteps /\ Op("theme.css", keep) \in AllSteps /\ Op("theme.config", keep) \in AllSteps
      /\ Op("unselect", keep) \in AllSteps /\ Op("theme", SelectorPath) \in AllSteps /\ Op("fonts", keep) \in AllSteps
  BY StepKinds DEF ThemeWindow
<1>2. ThemeSteps(keep, {other}) = a \o b \o c \o d
  BY DEF ThemeSteps
<1>3. a = <<Op("theme", other)>>
  BY SequenceOfOne, OpsOfOne
<1> HIDE DEF a
<1>4. a \in Seq(AllSteps) /\ Range(a) = {Op("theme", other)}
  BY <1>1, <1>3, OneStep
<1>5. b \in Seq(AllSteps) /\ Range(b) = {Op("theme.css", keep), Op("theme.config", keep)}
  BY <1>1, TwoSteps
<1>6. /\ c \in Seq(AllSteps)
      /\ Range(c) = IF SelectorPath \in repo.tree THEN {Op("unselect", keep), Op("theme", SelectorPath)} ELSE {}
      /\ Before(c, C, D)
  <2>1. CASE SelectorPath \in repo.tree
    <3>1. c = <<Op("unselect", keep), Op("theme", SelectorPath)>>
      BY <2>1
    <3>2. c \in Seq(AllSteps) /\ Range(c) = {Op("unselect", keep), Op("theme", SelectorPath)}
      BY <1>1, <3>1, TwoSteps
    <3>3. DOMAIN c = {1, 2} /\ c[1] = Op("unselect", keep) /\ c[2] = Op("theme", SelectorPath)
      <4>1. DOMAIN c = 1..2 /\ 1..2 = {1, 2}
        BY <3>1
      <4> QED
        BY <3>1, <4>1
    <3>4. c[1] \notin D /\ c[2] \notin C
      BY <3>3, OpIs DEF Those
    <3> HIDE DEF C, D, c
    <3>5. Before(c, C, D)
      <4> SUFFICES ASSUME NEW i \in {1, 2}, NEW j \in {1, 2}, c[i] \in D, c[j] \in C PROVE j < i
        BY <3>3 DEF Before
      <4>1. i = 2 /\ j = 1
        BY <3>4
      <4> QED
        BY <4>1
    <3> QED
      BY <2>1, <3>2, <3>5
  <2>2. CASE SelectorPath \notin repo.tree
    <3>1. c = << >>
      BY <2>2
    <3>2. c \in Seq(AllSteps) /\ Range(c) = {}
      BY <3>1, NoStep
    <3> HIDE DEF C, D, c
    <3>3. Before(c, C, D)
      BY <3>2, BeforeNone
    <3> QED
      BY <2>2, <3>2, <3>3
  <2> QED
    BY <2>1, <2>2
<1>7. d \in Seq(AllSteps) /\ Range(d) = {Op("fonts", keep)}
  BY <1>1, OneStep
<1> HIDE DEF b, c, d
<1> DEFINE e == a \o b
           f == e \o c
           g == f \o d
<1> HIDE DEF e, f, g
<1>8. e \in Seq(AllSteps) /\ Range(e) = Range(a) \cup Range(b)
  BY <1>4, <1>5, JoinedRange DEF e
<1>9. c \in Seq(AllSteps)
  BY <1>6
<1>10. f \in Seq(AllSteps) /\ Range(f) = Range(e) \cup Range(c)
  BY <1>8, <1>9, JoinedRange DEF f
<1>11. g \in Seq(AllSteps) /\ Range(g) = Range(f) \cup Range(d)
  BY <1>7, <1>10, JoinedRange DEF g
<1>12. Range(f) = WindowSteps(keep, other) \ {Op("fonts", keep)} /\ Range(g) = WindowSteps(keep, other)
  BY <1>4, <1>5, <1>6, <1>7, <1>8, <1>10, <1>11, OpIs DEF WindowSteps
<1>13. Before(g, A, B)
  <2>1. \A x \in Range(f) : x \notin B
    <3>1. \A x \in Range(f) : x.op # "fonts"
      BY <1>12, OpIs DEF WindowSteps
    <3> QED
      BY <3>1 DEF Those
  <2>2. \A x \in Range(d) : x \notin A
    BY <1>7, OpIs DEF Those
  <2> HIDE DEF A, B
  <2>3. Before(f, A, B) /\ Before(d, A, B)
    BY <1>7, <1>10, <2>1, <2>2, BeforeNone
  <2> QED
    BY <1>7, <1>10, <2>1, <2>3, JoinedBefore DEF g
<1>14. Before(g, C, D)
  <2>1. \A x \in Range(e) : x \notin D /\ x \notin C
    <3>1. other # SelectorPath
      BY DEF Themes, SelectorPath
    <3> QED
      BY <1>4, <1>5, <1>8, <3>1, OpIs DEF Those
  <2>2. \A x \in Range(d) : x \notin D /\ x \notin C
    BY <1>7, OpIs DEF Those
  <2>3. Before(c, C, D)
    BY <1>6
  <2> HIDE DEF C, D
  <2>4. Before(e, C, D) /\ Before(d, C, D)
    BY <1>7, <1>8, <2>1, <2>2, BeforeNone
  <2>5. Before(f, C, D)
    BY <1>8, <1>9, <2>1, <2>3, <2>4, JoinedBefore DEF f
  <2> QED
    BY <1>7, <1>10, <2>2, <2>4, <2>5, JoinedBefore DEF g
<1>15. \A o \in WindowSteps(keep, other) : o \in AllSteps /\ o.op \in ThemeWindow
  BY <1>1, OpIs DEF WindowSteps, ThemeWindow
<1> QED
  BY <1>2, <1>11, <1>12, <1>13, <1>14, <1>15 DEF e, f, g

\* cleanThemes puts the steps of the window before what is left.
LEMMA WindowOpens ==
    ASSUME NEW F, NEW s, Program(F, s), s # << >>, Head(s).op = "themes",
           NEW keep \in Themes, NEW other \in Themes
    PROVE  /\ Program(F, ThemeSteps(keep, {other}) \o Tail(s))
           /\ Range(ThemeSteps(keep, {other}) \o Tail(s)) = WindowSteps(keep, other) \cup Range(Tail(s))
<1> DEFINE w == ThemeSteps(keep, {other})
           W == WindowSteps(keep, other)
           t == Tail(s)
           A == Those(ThemeWindow \ {"fonts"})
           B == Those({"fonts"})
           C == Those({"unselect"})
           D == {Op("theme", SelectorPath)}
           L == Those(LoopOps)
           M == Those(ClosingOps)
           N == Those(LoopOps \cup ClosingOps)
           V == Those(ThemeWindow)
<1>1. /\ w \in Seq(AllSteps) /\ Range(w) = W
      /\ \A o \in W : o \in AllSteps /\ o.op \in ThemeWindow
      /\ Before(w, A, B) /\ Before(w, C, D)
  BY WindowsAre
<1>2. /\ Program(F, t) /\ ClosingFor(F) \subseteq Range(t) /\ ~InWindow(Range(t))
  <2>1. Head(s).op \in LoopOps /\ Head(s).op \notin ThemeWindow
    BY DEF LoopOps, ThemeWindow
  <2>2. Program(F, t) /\ ClosingFor(F) \subseteq Range(t) /\ ~InWindow(Range(s)) /\ Range(t) \subseteq Range(s)
    BY <2>1, ProgramTail
  <2> QED
    BY <2>2 DEF InWindow
<1>3. /\ t \in Seq(AllSteps)
      /\ \A o \in Range(t) : o.op \in LoopOps => o.arg \in F
      /\ \A o \in Range(t) : o.op = "header" => "notifications" \in F
      /\ "themes" \in F
      /\ Before(t, L, M) /\ Before(t, V, N) /\ Before(t, A, B) /\ Before(t, C, D)
  BY <1>2, ProgramTail DEF Program
<1>4. \A x \in W : x \notin L /\ x \notin M /\ x \notin N /\ x.op \notin LoopOps
  BY <1>1, StepKinds DEF Those
<1>5. \A x \in Range(t) : x \notin A /\ x \notin C /\ x \notin V
  BY <1>2 DEF InWindow, Those, ThemeWindow
<1> HIDE DEF w, W, t, A, B, C, D, L, M, N, V
<1>6. w \o t \in Seq(AllSteps) /\ Range(w \o t) = W \cup Range(t)
  BY <1>1, <1>3, JoinedRange
<1>7. Before(w \o t, L, M)
  <2>1. Before(w, L, M)
    BY <1>1, <1>4, BeforeNone
  <2> QED
    BY <1>1, <1>3, <1>4, <2>1, JoinedBefore
<1>8. Before(w \o t, V, N)
  <2>1. Before(w, V, N)
    BY <1>1, <1>4, BeforeNone
  <2> QED
    BY <1>1, <1>3, <1>4, <2>1, JoinedBefore
<1>9. Before(w \o t, A, B)
  BY <1>1, <1>3, <1>5, JoinedBefore
<1>10. Before(w \o t, C, D)
  BY <1>1, <1>3, <1>5, JoinedBefore
<1>13. \A o \in W : o.op # "header"
  BY <1>1 DEF ThemeWindow
<1>11. /\ \A o \in Range(w \o t) : o.op \in LoopOps => o.arg \in F
       /\ \A o \in Range(w \o t) : o.op = "header" => "notifications" \in F
       /\ \A o \in Range(w \o t) : o.op \in ThemeWindow \cup {"themes"} => "themes" \in F
       /\ ClosingFor(F) \subseteq Range(w \o t)
  BY <1>2, <1>3, <1>4, <1>6, <1>13
<1>12. Program(F, w \o t)
  BY <1>6, <1>7, <1>8, <1>9, <1>10, <1>11 DEF Program, A, B, C, D, L, M, N, V
<1> QED
  BY <1>6, <1>12 DEF w, W, t

-----------------------------------------------------------------------------
(* One step of a real run, part by part.                                   *)

\* What the step o deletes.
Deletes(o) ==
    IF o.op = "folders" THEN FEATURES[o.arg].folders
    ELSE IF o.op = "files" THEN FEATURES[o.arg].files
    ELSE IF o.op = "theme" THEN {o.arg} ELSE {}

\* The dependencies it drops from the tree r.
Drops(o, F, r) ==
    IF o.op = "deps" THEN FEATURES[o.arg].deps
    ELSE IF o.op = "conditional"
         THEN {d \in CONDITIONAL_DEPS : Importers[d] \cap (r.tree \ Paths(F)) = {}} ELSE {}

\* Whether it rewrites the links of the notification centre.
Relinks(o, F, r) ==
    /\ o.op = "links" /\ "notifications" \notin F
    /\ "features/notifications" \in r.tree /\ r.links \cap Urls(F) # {}

\* What the step o of a real run over F makes of the tree r.
Does(o, F, r, q) ==
    /\ q.tree = r.tree \ Deletes(o)
    /\ q.pkg = r.pkg \ Drops(o, F, r)
    /\ q.nav = IF o.op = "nav" THEN r.nav \ Urls(F) ELSE r.nav
    /\ q.links = IF Relinks(o, F, r) THEN (r.links \ Urls(F)) \cup {"/overview"} ELSE r.links
    /\ q.menu = IF o = Op("template", "clerk") THEN {"/notifications"}
                ELSE IF o.op = "menu" THEN r.menu \ {"/notifications"} ELSE r.menu
    /\ q.hosts = IF o.op = "nextconfig" THEN FALSE
                 ELSE IF o = Op("template", "sentry") THEN TRUE ELSE r.hosts
    /\ q.header = r.header \ (IF o.op = "header" THEN {"NotificationCenter"}
                              ELSE IF o.op = "unselect" THEN {"ThemeSelector"} ELSE {})
    /\ q.imports = IF o.op = "theme.css" THEN {o.arg} ELSE r.imports
    /\ q.config = IF o.op = "theme.config" THEN {o.arg} ELSE r.config
    /\ q.fonts = IF o.op = "fonts" THEN r.fonts \cap (AlwaysKeptFonts \cup FontsOf[o.arg]) ELSE r.fonts
    /\ q.docs = r.docs \ (IF o.op = "docs" THEN {o.arg} ELSE {})

\* The step o of a run over F is taken, of what T holds U is left.
Taken(o, F, T, U) ==
    /\ F \in SUBSET FeatureNames /\ F # {}
    /\ o \in AllSteps
    /\ o.op \in LoopOps => o.arg \in F /\ ClosingFor(F) \subseteq U
    /\ T \subseteq {o} \cup U

\* A step owed before o is owed after it, or is o.
LEMMA StillOwed ==
    ASSUME NEW o, NEW F, NEW T, NEW U, Taken(o, F, T, U)
    PROVE  /\ F \in SUBSET FeatureNames /\ F # {}
           /\ \A a, b : Op(a, b) \in T => Op(a, b) \in U \/ (o = Op(a, b) /\ o.op = a /\ o.arg = b)
  BY OpIs DEF Taken

\* The same of the steps that follow the loop.
LEMMA StillToClose ==
    ASSUME NEW o, NEW F, NEW T, NEW U, Taken(o, F, T, U), NEW a, Op(a, "") \in T, o.op # a
    PROVE  Op(a, "") \in U
<1>1. Op(a, "").op = a
  BY DEF Op
<1>2. T \subseteq {o} \cup U
  BY DEF Taken
<1> QED
  BY <1>1, <1>2

\* No step deletes what a feature outside F has.
LEMMA DeletesAre ==
    ASSUME NEW o, NEW F, NEW T, NEW U, Taken(o, F, T, U)
    PROVE  /\ Deletes(o) \subseteq Paths(F) \cup Themes \cup {SelectorPath}
           /\ o.op \notin {"folders", "files"} => Deletes(o) \subseteq Themes \cup {SelectorPath}
           /\ o.op \notin {"folders", "files", "theme"} => Deletes(o) = {}
           /\ o.op # "theme" => Deletes(o) \subseteq Paths(F)
<1>1. o.op \in {"folders", "files"} => o.arg \in F
  BY DEF Taken, LoopOps
<1>2. o.op = "theme" => o.arg \in Themes \cup {SelectorPath}
  <2>1. Op("theme", SelectorPath).arg = SelectorPath
    BY DEF Op
  <2>2. o.op = "theme" => o.arg \in Themes \/ o = Op("theme", SelectorPath)
    BY StepKinds DEF Taken, ThemeWindow
  <2> QED
    BY <2>1, <2>2
<1>3. ASSUME o.op \in {"folders", "files"} PROVE Deletes(o) \subseteq Paths(F)
  BY <1>1, <1>3, UnionsOver DEF Deletes
<1> QED
  BY <1>2, <1>3 DEF Deletes

\* The nine parts, kept by a step.
LEMMA GoneKept ==
    ASSUME NEW o, NEW F, NEW T, NEW U, Taken(o, F, T, U), NEW r, NEW q, Does(o, F, r, q),
           NEW S \in SUBSET FeatureNames, NEW P \in SUBSET FeatureNames, Gone(r, S, P, F, T)
    PROVE  Gone(q, S, P, F, U)
<1>1. /\ q.tree = r.tree \ Deletes(o)
      /\ F \in SUBSET FeatureNames
  BY StillOwed DEF Does
<1>2. Paths(FeatureNames) \ q.tree \subseteq Paths(S \cup P \cup F)
  <2>1. Paths(FeatureNames) \cap (Themes \cup {SelectorPath}) = {}
    BY PathsApart
  <2>2. Paths(F) \subseteq Paths(S \cup P \cup F)
    BY UnionsOfBoth
  <2> QED
    BY <1>1, <2>1, <2>2, DeletesAre DEF Gone
<1>3. q.tree \cap Paths(S) = {}
  BY <1>1 DEF Gone
<1>4. ASSUME NEW f \in F PROVE Op("folders", f) \in U \/ FEATURES[f].folders \cap q.tree = {}
  <2>1. CASE Op("folders", f) \in T
    <3>1. CASE o.op = "folders" /\ o.arg = f
      BY <1>1, <3>1 DEF Deletes
    <3> QED
      BY <2>1, <3>1, StillOwed
  <2> QED
    BY <1>1, <2>1 DEF Gone
<1>5. ASSUME NEW f \in F PROVE Op("files", f) \in U \/ FEATURES[f].files \cap q.tree = {}
  <2>1. CASE Op("files", f) \in T
    <3>1. CASE o.op = "files" /\ o.arg = f
      BY <1>1, <3>1 DEF Deletes
    <3> QED
      BY <2>1, <3>1, StillOwed
  <2> QED
    BY <1>1, <2>1 DEF Gone
<1> QED
  BY <1>2, <1>3, <1>4, <1>5 DEF Gone

LEMMA PackagesKept ==
    ASSUME NEW o, NEW F, NEW T, NEW U, Taken(o, F, T, U), NEW r, NEW q, Does(o, F, r, q),
           NEW S \in SUBSET FeatureNames, NEW P \in SUBSET FeatureNames, Packages(r, S, P, F, T)
    PROVE  Packages(q, S, P, F, U)
<1>1. /\ q.tree = r.tree \ Deletes(o)
      /\ q.pkg = r.pkg \ Drops(o, F, r)
      /\ F \in SUBSET FeatureNames /\ F # {}
  BY StillOwed DEF Does
<1>2. \A f \in S : FEATURES[f].deps \cap q.pkg = {}
  BY <1>1 DEF Packages
<1>3. ASSUME NEW f \in F PROVE Op("deps", f) \in U \/ FEATURES[f].deps \cap q.pkg = {}
  <2>1. CASE Op("deps", f) \in T
    <3>1. CASE o.op = "deps" /\ o.arg = f
      BY <1>1, <3>1 DEF Drops
    <3> QED
      BY <2>1, <3>1, StillOwed
  <2> QED
    BY <1>1, <2>1 DEF Packages
<1>4. ASSUME NEW d \in InitialRepo.pkg \ q.pkg
      PROVE  \/ \E f \in S \cup P \cup F : d \in FEATURES[f].deps
             \/ d \in CONDITIONAL_DEPS /\ Importers[d] \cap q.tree \subseteq Paths(P \cup F)
  <2>1. CASE d \notin r.pkg
    <3>1. \/ \E f \in S \cup P \cup F : d \in FEATURES[f].deps
          \/ d \in CONDITIONAL_DEPS /\ Importers[d] \cap r.tree \subseteq Paths(P \cup F)
      BY <2>1 DEF Packages
    <3> QED
      BY <1>1, <3>1
  <2>2. CASE d \in Drops(o, F, r)
    <3>1. CASE o.op = "deps"
      <4>1. d \in FEATURES[o.arg].deps /\ o.arg \in F
        BY <2>2, <3>1 DEF Drops, Taken, LoopOps
      <4> QED
        BY <4>1
    <3>2. CASE o.op = "conditional"
      <4>1. d \in CONDITIONAL_DEPS /\ Importers[d] \cap (r.tree \ Paths(F)) = {}
        BY <2>2, <3>2 DEF Drops
      <4>2. Paths(F) \subseteq Paths(P \cup F)
        BY UnionsOfBoth
      <4> QED
        BY <1>1, <4>1, <4>2
    <3> QED
      BY <2>2, <3>1, <3>2 DEF Drops
  <2> QED
    BY <1>1, <2>1, <2>2
<1>5. \/ Op("conditional", "") \in U
      \/ \A d \in q.pkg \cap CONDITIONAL_DEPS : Importers[d] \cap (q.tree \ Paths(F)) # {}
  <2>1. \A d \in CONDITIONAL_DEPS : Importers[d] \cap (q.tree \ Paths(F)) = Importers[d] \cap (r.tree \ Paths(F))
    BY <1>1, DeletesAre, ImportersAreNoThemes
  <2>2. CASE o.op = "conditional"
    BY <1>1, <2>1, <2>2 DEF Drops
  <2>3. CASE o.op # "conditional"
    <3>1. \/ Op("conditional", "") \in T
          \/ \A d \in r.pkg \cap CONDITIONAL_DEPS : Importers[d] \cap (r.tree \ Paths(F)) # {}
      BY <1>1 DEF Packages
    <3> QED
      BY <1>1, <2>1, <2>3, <3>1, StillToClose
  <2> QED
    BY <2>2, <2>3
<1> QED
  BY <1>2, <1>3, <1>4, <1>5 DEF Packages

LEMMA HostsKept ==
    ASSUME NEW o, NEW F, NEW T, NEW U, Taken(o, F, T, U), NEW r, NEW q, Does(o, F, r, q),
           NEW P, Hosts(r, P, F, T)
    PROVE  Hosts(q, P, F, U)
<1> SUFFICES ASSUME q.hosts PROVE Op("nextconfig", "") \in U
  BY DEF Hosts
<1>1. o.op # "nextconfig" /\ (r.hosts \/ o = Op("template", "sentry"))
  BY DEF Does
<1>2. CASE o = Op("template", "sentry")
  <2>1. o.op = "template"
    BY <1>2 DEF Op
  <2>2. ClosingFor(F) \subseteq U
    BY <2>1 DEF Taken, LoopOps
  <2> QED
    BY <2>2 DEF ClosingFor
<1>3. CASE r.hosts
  <2>1. Op("nextconfig", "") \in T
    <3>1. F # {}
      BY DEF Taken
    <3> QED
      BY <1>3, <3>1 DEF Hosts
  <2> QED
    BY <1>1, <2>1, StillToClose
<1> QED
  BY <1>1, <1>2, <1>3

LEMMA NavKept ==
    ASSUME NEW o, NEW F, NEW T, NEW U, Taken(o, F, T, U), NEW r, NEW q, Does(o, F, r, q),
           NEW S \in SUBSET FeatureNames, NEW P \in SUBSET FeatureNames, Nav(r, S, P, F, T)
    PROVE  Nav(q, S, P, F, U)
<1>1. q.nav = IF o.op = "nav" THEN r.nav \ Urls(F) ELSE r.nav
  BY DEF Does
<1>2. Op("nav", "") \in T => Op("nav", "") \in U \/ o.op = "nav"
  BY StillToClose
<1>3. Urls(F) \subseteq Urls(S \cup P \cup F)
  BY UnionsOver
<1>4. CASE o.op = "nav"
  <2>1. q.nav = r.nav \ Urls(F)
    BY <1>1, <1>4
  <2> QED
    BY <1>3, <2>1 DEF Nav
<1>5. CASE o.op # "nav"
  <2>1. q.nav = r.nav
    BY <1>1, <1>5
  <2> QED
    BY <1>2, <1>5, <2>1 DEF Nav
<1> QED
  BY <1>4, <1>5

LEMMA LinksKept ==
    ASSUME NEW o, NEW F, NEW T, NEW U, Taken(o, F, T, U), NEW r, NEW q, Does(o, F, r, q),
           NEW S \in SUBSET FeatureNames, NEW P \in SUBSET FeatureNames,
           Gone(r, S, P, F, T), Links(r, S, P, F, T)
    PROVE  Links(q, S, P, F, U)
<1> SUFFICES ASSUME "notifications" \notin S \cup P \cup F
             PROVE  /\ q.links \cap Urls(S) = {}
                    /\ Op("links", "") \in U \/ q.links \cap Urls(F) = {}
  BY DEF Links
<1>1. r.links \cap Urls(S) = {} /\ (Op("links", "") \in T \/ r.links \cap Urls(F) = {})
  BY DEF Links
<1>2. "features/notifications" \in r.tree
  <2>1. /\ "features/notifications" \in Paths(FeatureNames) /\ S \cup P \cup F \in SUBSET FeatureNames
        /\ "features/notifications" \notin Paths(S \cup P \cup F)
    <3>1. S \cup P \cup F \in SUBSET FeatureNames /\ "notifications" \in FeatureNames
      BY StillOwed DEF FeatureNames
    <3> QED
      BY <3>1, PathsApart
  <2> QED
    BY <2>1 DEF Gone
<1>3. q.links = IF Relinks(o, F, r) THEN (r.links \ Urls(F)) \cup {"/overview"} ELSE r.links
  BY DEF Does
<1>4. "/overview" \notin Urls(S) /\ "/overview" \notin Urls(F)
  BY StillOwed, PathsApart
<1>5. CASE Relinks(o, F, r)
  BY <1>1, <1>3, <1>4, <1>5
<1>6. CASE ~Relinks(o, F, r)
  <2>1. q.links = r.links
    BY <1>3, <1>6
  <2>2. o.op = "links" => r.links \cap Urls(F) = {}
    BY <1>2, <1>6 DEF Relinks
  <2>3. Op("links", "") \in T => Op("links", "") \in U \/ o.op = "links"
    BY StillToClose
  <2> QED
    BY <1>1, <2>1, <2>2, <2>3
<1> QED
  BY <1>5, <1>6

LEMMA HeaderKept ==
    ASSUME NEW o, NEW F, NEW T, NEW U, Taken(o, F, T, U), NEW r, NEW q, Does(o, F, r, q),
           NEW S, NEW P, Header(r, S, P, F, T),
           o.op = "header" => "notifications" \in F
    PROVE  Header(q, S, P, F, U)
<1>1. q.header = r.header \ (IF o.op = "header" THEN {"NotificationCenter"}
                              ELSE IF o.op = "unselect" THEN {"ThemeSelector"} ELSE {})
  BY DEF Does
<1>2. Op("header", "") \in T => Op("header", "") \in U \/ o.op = "header"
  BY StillToClose
<1>3. CASE o.op = "header"
  <2>1. "NotificationCenter" \notin q.header
    BY <1>1, <1>3
  <2> QED
    BY <1>3, <2>1 DEF Header
<1>4. CASE o.op # "header"
  <2>1. "NotificationCenter" \in q.header <=> "NotificationCenter" \in r.header
    BY <1>1, <1>4
  <2> QED
    BY <1>2, <1>4, <2>1 DEF Header
<1> QED
  BY <1>3, <1>4

LEMMA MenuKept ==
    ASSUME NEW o, NEW F, NEW T, NEW U, Taken(o, F, T, U), NEW r, NEW q, Does(o, F, r, q),
           NEW again, NEW P, r.menu \subseteq {"/notifications"}, Menu(r, again, P, F, T)
    PROVE  Menu(q, again, P, F, U)
<1>1. q.menu = IF o = Op("template", "clerk") THEN {"/notifications"}
                ELSE IF o.op = "menu" THEN r.menu \ {"/notifications"} ELSE r.menu
  BY DEF Does
<1>2. CASE o = Op("template", "clerk")
  <2>1. "clerk" \in F /\ ClosingFor(F) \subseteq U
    BY <1>2, OpIs DEF Taken, LoopOps
  <2> QED
    BY <2>1 DEF Menu, ClosingFor
<1>3. CASE o # Op("template", "clerk") /\ o.op = "menu"
  <2>1. q.menu = {}
    BY <1>1, <1>3
  <2> QED
    BY <2>1 DEF Menu
<1>4. CASE o # Op("template", "clerk") /\ o.op # "menu"
  <2>1. q.menu = r.menu
    BY <1>1, <1>4
  <2>2. Op("menu", "") \in T => Op("menu", "") \in U
    BY <1>4, StillToClose
  <2> QED
    BY <2>1, <2>2 DEF Menu
<1> QED
  BY <1>2, <1>3, <1>4

LEMMA DocsKept ==
    ASSUME NEW o, NEW F, NEW T, NEW U, Taken(o, F, T, U), NEW r, NEW q, Does(o, F, r, q),
           NEW S, NEW P, Docs(r, S, P, F, T)
    PROVE  Docs(q, S, P, F, U)
<1>1. q.docs = r.docs \ (IF o.op = "docs" THEN {o.arg} ELSE {})
  BY DEF Does
<1>2. o.op = "docs" => o.arg \in F
  BY DEF Taken, LoopOps
<1>3. ASSUME NEW f \in F PROVE Op("docs", f) \in U \/ f \notin q.docs
  <2>1. Op("docs", f) \in T => Op("docs", f) \in U \/ (o.op = "docs" /\ o.arg = f)
    BY StillOwed
  <2> QED
    BY <1>1, <2>1 DEF Docs
<1>4. q.docs \cap S = {} /\ InitialRepo.docs \ q.docs \subseteq S \cup P \cup F
  BY <1>1, <1>2 DEF Docs
<1> QED
  BY <1>3, <1>4 DEF Docs

\* The order the program keeps, as the step o sees it.
Ordered(o, T, U) ==
    /\ o \in T /\ U \subseteq T /\ T \subseteq AllSteps
    /\ o.op \notin ThemeWindow => ~InWindow(T)
    /\ o.op = "fonts" => \A x \in T : x.op \in ThemeWindow => x.op = "fonts"
    /\ o = Op("theme", SelectorPath) => \A x \in T : x.op # "unselect"

\* The same of the steps of a window.
LEMMA WindowOwed ==
    ASSUME NEW o, NEW F, NEW T, NEW U, Taken(o, F, T, U), NEW a, NEW k, Op(a, k) \in T, o.op # a \/ o.arg # k
    PROVE  Op(a, k) \in U
<1>1. Op(a, k).op = a /\ Op(a, k).arg = k
  BY DEF Op
<1>2. T \subseteq {o} \cup U
  BY DEF Taken
<1> QED
  BY <1>1, <1>2

\* The ninth needs the order of the window as well.
LEMMA ThemesKept ==
    ASSUME NEW o, NEW F, NEW T, NEW U, Taken(o, F, T, U), Ordered(o, T, U), NEW r, NEW q, Does(o, F, r, q),
           NEW S, NEW scarred, ThemesHold(r, scarred, S, F, T),
           o.op = "themes" => Single(r)
    PROVE  ThemesHold(q, scarred, S, F, U)
<1>1. /\ q.tree = r.tree \ Deletes(o)
      /\ q.header = r.header \ (IF o.op = "header" THEN {"NotificationCenter"}
                              ELSE IF o.op = "unselect" THEN {"ThemeSelector"} ELSE {})
      /\ q.imports = IF o.op = "theme.css" THEN {o.arg} ELSE r.imports
      /\ q.config = IF o.op = "theme.config" THEN {o.arg} ELSE r.config
      /\ q.fonts = IF o.op = "fonts" THEN r.fonts \cap (AlwaysKeptFonts \cup FontsOf[o.arg]) ELSE r.fonts
  BY DEF Does
<1>2. /\ r.tree \cap Themes # {}
      /\ ~Single(r) => r.fonts = Fonts
      /\ SelectorPath \notin r.tree => "ThemeSelector" \notin r.header
      /\ "themes" \in S => Single(r)
      /\ "themes" \in F => InWindow(T) \/ Op("themes", "themes") \in T \/ Single(r)
  BY DEF ThemesHold
<1>3. CASE o.op \notin ThemeWindow
  <2>1. ~InWindow(T) /\ ~InWindow(U)
    BY <1>3 DEF Ordered, InWindow
  <2>2. Deletes(o) \cap (Themes \cup {SelectorPath}) = {}
    <3>1. Deletes(o) \subseteq Paths(F)
      BY <1>3, DeletesAre DEF ThemeWindow
    <3> QED
      BY <3>1, PathsApart DEF Taken
  <2>3. /\ q.tree \cap Themes = r.tree \cap Themes /\ (SelectorPath \in q.tree <=> SelectorPath \in r.tree)
        /\ "ThemeSelector" \in q.header <=> "ThemeSelector" \in r.header
        /\ q.imports = r.imports /\ q.config = r.config /\ q.fonts = r.fonts
    BY <1>1, <1>3, <2>2 DEF ThemeWindow
  <2>4. Single(q) <=> Single(r)
    BY <2>3 DEF Single
  <2>5. \A k \in Themes : Only(q, k) <=> Only(r, k)
    BY <2>3 DEF Only
  <2>6. Single(r) /\ ~scarred => \E k \in Themes : Only(r, k)
    BY <2>1 DEF ThemesHold
  <2>7. Op("themes", "themes") \in T => Op("themes", "themes") \in U \/ Single(r)
    BY StillOwed
  <2> QED
    BY <1>2, <2>1, <2>3, <2>4, <2>5, <2>6, <2>7 DEF ThemesHold
<1>4. CASE o.op \in ThemeWindow
  <2>1. InWindow(T)
    BY <1>4 DEF Ordered, InWindow
  <2>2. PICK k \in Themes : Narrowing(r, k, T)
    BY <2>1 DEF ThemesHold
  <2>3. /\ k \in r.tree
        /\ Op("fonts", k) \in T
        /\ \A x \in T : x.op \in ThemeWindow => IF x.op = "theme" THEN x.arg # k ELSE x.arg = k
        /\ \A t \in r.tree \cap Themes : t = k \/ Op("theme", t) \in T
        /\ r.imports = {k} \/ Op("theme.css", k) \in T
        /\ r.config = {k} \/ Op("theme.config", k) \in T
        /\ "ThemeSelector" \notin r.header \/ Op("unselect", k) \in T
        /\ SelectorPath \notin r.tree \/ Op("theme", SelectorPath) \in T
        /\ AlwaysKeptFonts \cup FontsOf[k] \subseteq r.fonts
    BY <2>2 DEF Narrowing
  <2>4. IF o.op = "theme" THEN o.arg # k ELSE o.arg = k
    BY <1>4, <2>3 DEF Ordered
  <2>5. Deletes(o) = IF o.op = "theme" THEN {o.arg} ELSE {}
    BY <1>4 DEF Deletes, ThemeWindow
  <2>6. k \in q.tree
    BY <1>1, <2>3, <2>4, <2>5
  <2>7. Single(r) => Single(q)
    <3> SUFFICES ASSUME NEW t \in Themes, r.tree \cap Themes = {t} PROVE q.tree \cap Themes = {k}
      BY DEF Single
    <3>1. t = k
      BY <2>3
    <3> QED
      BY <1>1, <2>6, <3>1
  <2>8. SelectorPath \notin q.tree => "ThemeSelector" \notin q.header
    <3> SUFFICES ASSUME SelectorPath \notin q.tree, SelectorPath \in r.tree PROVE "ThemeSelector" \notin r.header
      BY <1>1, <1>2
    <3>1. o.op = "theme" /\ o.arg = SelectorPath
      BY <1>1, <2>5
    <3>2. o = Op("theme", SelectorPath)
      BY <3>1, StepKinds DEF Taken
    <3>3. \A x \in T : x.op # "unselect"
      BY <3>2 DEF Ordered
    <3>4. Op("unselect", k).op = "unselect"
      BY DEF Op
    <3> QED
      BY <2>3, <3>3, <3>4
  <2>9. \A x \in U : x.op \in ThemeWindow => IF x.op = "theme" THEN x.arg # k ELSE x.arg = k
    BY <2>3 DEF Ordered
  <2>10. CASE o.op = "fonts"
    <3>1. \A x \in T : x.op \in ThemeWindow => x.op = "fonts"
      BY <2>10 DEF Ordered
    <3>2. /\ \A t : Op("theme", t) \notin T
          /\ Op("theme.css", k) \notin T /\ Op("theme.config", k) \notin T /\ Op("unselect", k) \notin T
      <4>1. /\ \A t : Op("theme", t).op = "theme"
            /\ Op("theme.css", k).op = "theme.css" /\ Op("theme.config", k).op = "theme.config"
            /\ Op("unselect", k).op = "unselect"
        BY DEF Op
      <4>2. /\ "theme" \in ThemeWindow /\ "theme.css" \in ThemeWindow /\ "theme.config" \in ThemeWindow
            /\ "unselect" \in ThemeWindow
        BY DEF ThemeWindow
      <4> QED
        BY <3>1, <4>1, <4>2
    <3>3. r.tree \cap Themes = {k} /\ r.imports = {k} /\ r.config = {k}
          /\ "ThemeSelector" \notin r.header /\ SelectorPath \notin r.tree
      BY <2>3, <3>2
    <3>4. /\ q.tree = r.tree /\ q.imports = {k} /\ q.config = {k} /\ q.header = r.header
          /\ q.fonts = AlwaysKeptFonts \cup FontsOf[k]
      <4>1. o.arg = k
        BY <2>4, <2>10
      <4>2. q.fonts = r.fonts \cap (AlwaysKeptFonts \cup FontsOf[k])
        BY <1>1, <2>10, <4>1
      <4> QED
        BY <1>1, <2>3, <2>5, <2>10, <3>3, <4>2
    <3>5. Only(q, k) /\ Single(q)
      BY <3>3, <3>4 DEF Only, Single
    <3>6. ASSUME InWindow(U) PROVE Narrowing(q, k, U)
      <4>1. PICK x \in U : x.op \in ThemeWindow
        BY <3>6 DEF InWindow
      <4>2. x.op = "fonts" /\ x.arg = k /\ x \in AllSteps
        BY <2>9, <3>1, <4>1 DEF Ordered
      <4>3. x = Op("fonts", k)
        BY <4>2, StepKinds
      <4> QED
        BY <2>6, <2>9, <3>3, <3>4, <4>1, <4>3 DEF Narrowing
    <3> QED
      BY <2>6, <2>8, <3>5, <3>6 DEF ThemesHold
  <2>11. CASE o.op # "fonts"
    <3>1. Op("fonts", k) \in U
      BY <2>3, <2>11, WindowOwed
    <3>2. InWindow(U)
      <4>1. Op("fonts", k).op = "fonts" /\ "fonts" \in ThemeWindow
        BY DEF Op, ThemeWindow
      <4> QED
        BY <3>1, <4>1 DEF InWindow
    <3>3. \A t \in q.tree \cap Themes : t = k \/ Op("theme", t) \in U
      <4> SUFFICES ASSUME NEW t \in q.tree \cap Themes, t # k PROVE Op("theme", t) \in U
        OBVIOUS
      <4>1. Op("theme", t) \in T /\ (o.op # "theme" \/ o.arg # t)
        BY <1>1, <2>3, <2>5
      <4> QED
        BY <4>1, WindowOwed
    <3>4. q.imports = {k} \/ Op("theme.css", k) \in U
      BY <1>1, <2>3, <2>4, WindowOwed
    <3>5. q.config = {k} \/ Op("theme.config", k) \in U
      BY <1>1, <2>3, <2>4, WindowOwed
    <3>6. "ThemeSelector" \notin q.header \/ Op("unselect", k) \in U
      BY <1>1, <2>3, WindowOwed
    <3>7. SelectorPath \notin q.tree \/ Op("theme", SelectorPath) \in U
      BY <1>1, <2>3, <2>5, WindowOwed
    <3>8. q.fonts = r.fonts
      BY <1>1, <2>11
    <3>9. Narrowing(q, k, U)
      BY <2>3, <2>6, <2>9, <3>1, <3>3, <3>4, <3>5, <3>6, <3>7, <3>8 DEF Narrowing
    <3> QED
      BY <1>2, <2>6, <2>7, <2>8, <3>2, <3>8, <3>9 DEF ThemesHold
  <2> QED
    BY <2>10, <2>11
<1> QED
  BY <1>3, <1>4

\* cleanThemes settles the theme to keep.
LEMMA NarrowingStarts ==
    ASSUME NEW F, NEW T, NEW U, ~InWindow(T), NEW V \in SUBSET T,
           NEW S, NEW scarred, ThemesHold(repo, scarred, S, F, T), ~Single(repo),
           NEW keep \in Themes, NEW other \in Themes, repo.tree \cap Themes = {keep, other}, keep # other,
           U = WindowSteps(keep, other) \cup V
    PROVE  ThemesHold(repo, scarred, S, F, U)
<1>1. /\ repo.fonts = Fonts
      /\ SelectorPath \notin repo.tree => "ThemeSelector" \notin repo.header
      /\ "themes" \notin S
  BY DEF ThemesHold
<1>2. /\ Op("theme", other) \in U /\ Op("theme.css", keep) \in U /\ Op("theme.config", keep) \in U
      /\ Op("fonts", keep) \in U
      /\ SelectorPath \in repo.tree => Op("unselect", keep) \in U /\ Op("theme", SelectorPath) \in U
  BY DEF WindowSteps
<1>3. \A x \in V : x.op \notin ThemeWindow
  BY DEF InWindow
<1>4. \A x \in WindowSteps(keep, other) : IF x.op = "theme" THEN x.arg # keep ELSE x.arg = keep
  <2>1. keep # SelectorPath
    BY DEF Themes, SelectorPath
  <2>2. \A a, b : Op(a, b).op = a /\ Op(a, b).arg = b
    BY DEF Op
  <2> QED
    BY <2>1, <2>2 DEF WindowSteps
<1>5. AlwaysKeptFonts \cup FontsOf[keep] \subseteq Fonts
  BY DEF Fonts
<1>6. InWindow(U)
  <2>1. Op("fonts", keep).op \in ThemeWindow
    BY DEF Op, ThemeWindow
  <2> QED
    BY <1>2, <2>1 DEF InWindow
<1>7. Narrowing(repo, keep, U)
  BY <1>1, <1>2, <1>3, <1>4, <1>5 DEF Narrowing
<1> QED
  BY <1>1, <1>6, <1>7 DEF ThemesHold

-----------------------------------------------------------------------------
(* A run starts, ends or dies: what is being stripped becomes stripped, or *)
(* pending.                                                                *)

\* The nine parts, of a tree in which S was stripped, P is pending and F is
\* being stripped with T to do.
TreeHolds(r, again, scarred, S, P, F, T) ==
    /\ Gone(r, S, P, F, T)
    /\ Packages(r, S, P, F, T)
    /\ Hosts(r, P, F, T)
    /\ Nav(r, S, P, F, T)
    /\ Links(r, S, P, F, T)
    /\ Header(r, S, P, F, T)
    /\ Menu(r, again, P, F, T)
    /\ Docs(r, S, P, F, T)
    /\ ThemesHold(r, scarred, S, F, T)

\* A run starts: it owes its whole program.
LEMMA TreeStarts ==
    ASSUME NEW r, NEW again, NEW scarred, NEW S \in SUBSET FeatureNames, NEW P \in SUBSET FeatureNames,
           TreeHolds(r, again, scarred, S, P, {}, {}),
           NEW F \in SUBSET FeatureNames, NEW T, Whole(F, T)
    PROVE  TreeHolds(r, again, scarred, S, P, F, T)
<1>1. /\ Op("nextconfig", "") \in T /\ Op("conditional", "") \in T
      /\ Urls(F) # {} => Op("nav", "") \in T /\ Op("links", "") \in T
      /\ "notifications" \in F => Op("header", "") \in T /\ Op("menu", "") \in T
      /\ ~InWindow(T)
      /\ \A f \in F : LoopSteps(f) \subseteq T
  BY DEF Whole, ClosingFor
<1>2. \A f \in F : /\ Op("docs", f) \in T
                   /\ f = "themes" => Op("themes", "themes") \in T
                   /\ f # "themes" => Op("folders", f) \in T /\ Op("files", f) \in T /\ Op("deps", f) \in T
  BY <1>1 DEF LoopSteps
<1>3. /\ FEATURES["themes"].folders = {} /\ FEATURES["themes"].files = {} /\ FEATURES["themes"].deps = {}
  BY Table DEF Feature
<1>4. S \cup P \cup {} \subseteq S \cup P \cup F /\ P \cup {} \subseteq P \cup F
  OBVIOUS
<1>5. Paths(S \cup P \cup {}) \subseteq Paths(S \cup P \cup F) /\ Paths(P \cup {}) \subseteq Paths(P \cup F)
  BY <1>4, UnionsOver
<1>6. Gone(r, S, P, {}, {})
  BY DEF TreeHolds
<1>7. Gone(r, S, P, F, T)
  BY <1>2, <1>3, <1>5, <1>6 DEF Gone
<1>8. Packages(r, S, P, {}, {})
  BY DEF TreeHolds
<1>9. Packages(r, S, P, F, T)
  BY <1>1, <1>2, <1>3, <1>4, <1>5, <1>8 DEF Packages
<1>10. Hosts(r, P, F, T)
  BY <1>1 DEF Hosts
<1>11. Nav(r, S, P, F, T)
  <2>1. Nav(r, S, P, {}, {})
    BY DEF TreeHolds
  <2>2. Urls(S \cup P \cup {}) \subseteq Urls(S \cup P \cup F)
    BY <1>4, UnionsOver
  <2> QED
    BY <1>1, <2>1, <2>2 DEF Nav
<1>12. Links(r, S, P, F, T)
  <2>1. Links(r, S, P, {}, {})
    BY DEF TreeHolds
  <2> QED
    BY <1>1, <2>1 DEF Links
<1>13. Header(r, S, P, F, T)
  <2>1. Header(r, S, P, {}, {})
    BY DEF TreeHolds
  <2> QED
    BY <1>1, <2>1 DEF Header
<1>14. Menu(r, again, P, F, T)
  <2>1. Menu(r, again, P, {}, {})
    BY DEF TreeHolds
  <2> QED
    BY <1>1, <2>1 DEF Menu
<1>15. Docs(r, S, P, F, T)
  <2>1. Docs(r, S, P, {}, {})
    BY DEF TreeHolds
  <2> QED
    BY <1>2, <2>1 DEF Docs
<1>16. ThemesHold(r, scarred, S, F, T)
  <2>1. ThemesHold(r, scarred, S, {}, {})
    BY DEF TreeHolds
  <2>2. ~InWindow({})
    BY DEF InWindow
  <2> QED
    BY <1>1, <1>2, <2>1, <2>2 DEF ThemesHold
<1> QED
  BY <1>7, <1>9, <1>10, <1>11, <1>12, <1>13, <1>14, <1>15, <1>16 DEF TreeHolds

\* A run ends owing nothing: what it stripped is stripped.
LEMMA TreeEnds ==
    ASSUME NEW r, NEW again, NEW scarred, NEW S \in SUBSET FeatureNames, NEW P \in SUBSET FeatureNames,
           NEW F \in SUBSET FeatureNames, F # {}, TreeHolds(r, again, scarred, S, P, F, {}),
           NEW once, once = (("clerk" \in F \/ again) /\ "notifications" \notin F)
    PROVE  TreeHolds(r, once, scarred, S \cup F, P \ F, {}, {})
<1>1. (S \cup F) \cup (P \ F) \cup {} = S \cup P \cup F
  OBVIOUS
<1>2. /\ Paths(S \cup F) = Paths(S) \cup Paths(F) /\ Urls(S \cup F) = Urls(S) \cup Urls(F)
      /\ Paths({}) = {} /\ Urls({}) = {}
  BY UnionsOfBoth
<1>3. Gone(r, S \cup F, P \ F, {}, {})
  <2>1. Gone(r, S, P, F, {})
    BY DEF TreeHolds
  <2>2. r.tree \cap Paths(F) = {}
    BY <2>1, UnionsOver DEF Gone
  <2>3. Paths(FeatureNames) \ r.tree \subseteq Paths((S \cup F) \cup (P \ F) \cup {})
    BY <1>1, <2>1 DEF Gone
  <2> QED
    BY <1>2, <2>1, <2>2, <2>3 DEF Gone
<1>4. Packages(r, S \cup F, P \ F, {}, {})
  <2>1. Packages(r, S, P, F, {})
    BY DEF TreeHolds
  <2>2. r.tree \cap Paths(F) = {}
    BY <1>2, <1>3 DEF Gone
  <2>3. \A f \in S \cup F : FEATURES[f].deps \cap r.pkg = {}
    BY <2>1 DEF Packages
  <2>4. ASSUME NEW d \in InitialRepo.pkg \ r.pkg
        PROVE  \/ \E f \in (S \cup F) \cup (P \ F) \cup {} : d \in FEATURES[f].deps
               \/ d \in CONDITIONAL_DEPS /\ Importers[d] \cap r.tree \subseteq Paths((P \ F) \cup {})
    <3>1. CASE \E f \in S \cup P \cup F : d \in FEATURES[f].deps
      BY <1>1, <3>1
    <3>2. CASE d \in CONDITIONAL_DEPS /\ Importers[d] \cap r.tree \subseteq Paths(P \cup F)
      <4>1. P \cup F = ((P \ F) \cup {}) \cup F
        OBVIOUS
      <4>2. Paths(P \cup F) = Paths((P \ F) \cup {}) \cup Paths(F)
        BY <4>1, UnionsOfBoth
      <4> QED
        BY <2>2, <3>2, <4>2
    <3> QED
      BY <2>1, <3>1, <3>2 DEF Packages
  <2>5. \A d \in r.pkg \cap CONDITIONAL_DEPS : Importers[d] \cap (r.tree \ Paths({})) # {}
    BY <1>2, <2>1 DEF Packages
  <2> QED
    BY <2>3, <2>4, <2>5 DEF Packages
<1>5. Hosts(r, P \ F, {}, {})
  BY DEF TreeHolds, Hosts
<1>6. Nav(r, S \cup F, P \ F, {}, {})
  <2>1. Nav(r, S, P, F, {})
    BY DEF TreeHolds
  <2>2. InitialRepo.nav \ r.nav \subseteq Urls((S \cup F) \cup (P \ F) \cup {})
    BY <1>1, <2>1 DEF Nav
  <2> QED
    BY <1>2, <2>1, <2>2 DEF Nav
<1>7. Links(r, S \cup F, P \ F, {}, {})
  <2>1. Links(r, S, P, F, {})
    BY DEF TreeHolds
  <2>2. "notifications" \notin (S \cup F) \cup (P \ F) \cup {} => "notifications" \notin S \cup P \cup F
    OBVIOUS
  <2> QED
    BY <1>2, <2>1, <2>2 DEF Links
<1>8. Header(r, S \cup F, P \ F, {}, {})
  BY DEF TreeHolds, Header
<1>9. Menu(r, once, P \ F, {}, {})
  BY DEF TreeHolds, Menu
<1>10. Docs(r, S \cup F, P \ F, {}, {})
  <2>1. Docs(r, S, P, F, {})
    BY DEF TreeHolds
  <2> QED
    BY <1>1, <2>1 DEF Docs
<1>11. ThemesHold(r, scarred, S \cup F, {}, {})
  <2>1. ThemesHold(r, scarred, S, F, {}) /\ ~InWindow({})
    BY DEF TreeHolds, InWindow
  <2> QED
    BY <2>1 DEF ThemesHold
<1> QED
  BY <1>3, <1>4, <1>5, <1>6, <1>7, <1>8, <1>9, <1>10, <1>11 DEF TreeHolds

\* A run dies: what it was stripping is pending.
LEMMA TreeDies ==
    ASSUME NEW r, NEW again, NEW scarred, NEW S \in SUBSET FeatureNames, NEW P \in SUBSET FeatureNames,
           NEW F \in SUBSET FeatureNames, F # {}, NEW T, TreeHolds(r, again, scarred, S, P, F, T),
           NEW wounded, scarred => wounded, InWindow(T) /\ Single(r) => wounded
    PROVE  TreeHolds(r, again, wounded, S, P \cup F, {}, {})
<1>1. S \cup (P \cup F) \cup {} = S \cup P \cup F /\ (P \cup F) \cup {} = P \cup F
  OBVIOUS
<1>2. Paths({}) = {} /\ Urls({}) = {}
  BY UnionsOfBoth
<1>3. Gone(r, S, P \cup F, {}, {})
  BY <1>1 DEF TreeHolds, Gone
<1>4. Packages(r, S, P \cup F, {}, {})
  <2>1. Packages(r, S, P, F, T)
    BY DEF TreeHolds
  <2> QED
    BY <1>1, <2>1 DEF Packages
<1>5. Hosts(r, P \cup F, {}, {})
  BY DEF Hosts
<1>6. Nav(r, S, P \cup F, {}, {})
  BY <1>1, <1>2 DEF TreeHolds, Nav
<1>7. Links(r, S, P \cup F, {}, {})
  BY <1>1, <1>2 DEF TreeHolds, Links
<1>8. Header(r, S, P \cup F, {}, {})
  BY DEF TreeHolds, Header
<1>9. Menu(r, again, P \cup F, {}, {})
  BY DEF TreeHolds, Menu
<1>10. Docs(r, S, P \cup F, {}, {})
  BY <1>1 DEF TreeHolds, Docs
<1>11. ThemesHold(r, wounded, S, {}, {})
  <2>1. ThemesHold(r, scarred, S, F, T) /\ ~InWindow({})
    BY DEF TreeHolds, InWindow
  <2>2. Single(r) /\ ~wounded => \E k \in Themes : Only(r, k)
    BY <2>1 DEF ThemesHold
  <2> QED
    BY <2>1, <2>2 DEF ThemesHold
<1> QED
  BY <1>3, <1>4, <1>5, <1>6, <1>7, <1>8, <1>9, <1>10, <1>11 DEF TreeHolds

\* A step is taken.
LEMMA TreeKept ==
    ASSUME NEW o, NEW F, NEW T, NEW U, Taken(o, F, T, U), Ordered(o, T, U), NEW r, NEW q, Does(o, F, r, q),
           NEW S \in SUBSET FeatureNames, NEW P \in SUBSET FeatureNames, NEW again, NEW scarred,
           TreeHolds(r, again, scarred, S, P, F, T), r.menu \subseteq {"/notifications"},
           o.op = "header" => "notifications" \in F, o.op = "themes" => Single(r)
    PROVE  TreeHolds(q, again, scarred, S, P, F, U)
<1>1. /\ Gone(r, S, P, F, T) /\ Packages(r, S, P, F, T) /\ Hosts(r, P, F, T) /\ Nav(r, S, P, F, T)
      /\ Links(r, S, P, F, T) /\ Header(r, S, P, F, T) /\ Menu(r, again, P, F, T) /\ Docs(r, S, P, F, T)
      /\ ThemesHold(r, scarred, S, F, T)
  BY DEF TreeHolds
<1>2. Gone(q, S, P, F, U)
  BY <1>1, GoneKept
<1>3. Packages(q, S, P, F, U)
  BY <1>1, PackagesKept
<1>4. Hosts(q, P, F, U)
  BY <1>1, HostsKept
<1>5. Nav(q, S, P, F, U)
  BY <1>1, NavKept
<1>6. Links(q, S, P, F, U)
  BY <1>1, LinksKept
<1>7. Header(q, S, P, F, U)
  BY <1>1, HeaderKept
<1>8. Menu(q, again, P, F, U)
  BY <1>1, MenuKept
<1>9. Docs(q, S, P, F, U)
  BY <1>1, DocsKept
<1>10. ThemesHold(q, scarred, S, F, U)
  BY <1>1, ThemesKept
<1> QED
  BY <1>2, <1>3, <1>4, <1>5, <1>6, <1>7, <1>8, <1>9, <1>10 DEF TreeHolds

\* A window opens on a tree that does not change.
LEMMA TreeKeptAsWindowOpens ==
    ASSUME NEW o, NEW F, NEW T, NEW U, Taken(o, F, T, U), o.op = "themes", ~InWindow(T), NEW V \in SUBSET T,
           NEW S \in SUBSET FeatureNames, NEW P \in SUBSET FeatureNames, NEW again, NEW scarred,
           TreeHolds(repo, again, scarred, S, P, F, T), repo.menu \subseteq {"/notifications"}, ~Single(repo),
           NEW keep \in Themes, NEW other \in Themes, repo.tree \cap Themes = {keep, other}, keep # other,
           U = WindowSteps(keep, other) \cup V, Does(o, F, repo, repo)
    PROVE  TreeHolds(repo, again, scarred, S, P, F, U)
<1>1. /\ Gone(repo, S, P, F, T) /\ Packages(repo, S, P, F, T) /\ Hosts(repo, P, F, T) /\ Nav(repo, S, P, F, T)
      /\ Links(repo, S, P, F, T) /\ Header(repo, S, P, F, T) /\ Menu(repo, again, P, F, T) /\ Docs(repo, S, P, F, T)
      /\ ThemesHold(repo, scarred, S, F, T)
  BY DEF TreeHolds
<1>2. Gone(repo, S, P, F, U)
  BY <1>1, GoneKept
<1>3. Packages(repo, S, P, F, U)
  BY <1>1, PackagesKept
<1>4. Hosts(repo, P, F, U)
  BY <1>1, HostsKept
<1>5. Nav(repo, S, P, F, U)
  BY <1>1, NavKept
<1>6. Links(repo, S, P, F, U)
  BY <1>1, LinksKept
<1>7. Header(repo, S, P, F, U)
  BY <1>1, HeaderKept
<1>8. Menu(repo, again, P, F, U)
  BY <1>1, MenuKept
<1>9. Docs(repo, S, P, F, U)
  BY <1>1, DocsKept
<1>10. ThemesHold(repo, scarred, S, F, U)
  BY <1>1, NarrowingStarts
<1> QED
  BY <1>2, <1>3, <1>4, <1>5, <1>6, <1>7, <1>8, <1>9, <1>10 DEF TreeHolds

-----------------------------------------------------------------------------
(* The actions.                                                            *)

\* r and q differ in no field but x.
Same(r, q, x) ==
    /\ x # "tree" => q.tree = r.tree
    /\ x # "pkg" => q.pkg = r.pkg
    /\ x # "nav" => q.nav = r.nav
    /\ x # "links" => q.links = r.links
    /\ x # "menu" => q.menu = r.menu
    /\ x # "hosts" => q.hosts = r.hosts
    /\ x # "header" => q.header = r.header
    /\ x # "imports" => q.imports = r.imports
    /\ x # "config" => q.config = r.config
    /\ x # "fonts" => q.fonts = r.fonts
    /\ x # "docs" => q.docs = r.docs

\* Writing one field of the tree.
LEMMA WritesTree ==
    ASSUME NEW r \in Repositories, NEW x \in SUBSET InitialRepo.tree
    PROVE  /\ [r EXCEPT !.tree = x] \in Repositories
           /\ [r EXCEPT !.tree = x].tree = x /\ Same(r, [r EXCEPT !.tree = x], "tree")
  BY DEF Repositories, Same

LEMMA WritesPkg ==
    ASSUME NEW r \in Repositories, NEW x \in SUBSET InitialRepo.pkg
    PROVE  /\ [r EXCEPT !.pkg = x] \in Repositories
           /\ [r EXCEPT !.pkg = x].pkg = x /\ Same(r, [r EXCEPT !.pkg = x], "pkg")
  BY DEF Repositories, Same

LEMMA WritesNav ==
    ASSUME NEW r \in Repositories, NEW x \in SUBSET InitialRepo.nav
    PROVE  /\ [r EXCEPT !.nav = x] \in Repositories
           /\ [r EXCEPT !.nav = x].nav = x /\ Same(r, [r EXCEPT !.nav = x], "nav")
  BY DEF Repositories, Same

LEMMA WritesLinks ==
    ASSUME NEW r \in Repositories, NEW x \in SUBSET InitialRepo.links
    PROVE  /\ [r EXCEPT !.links = x] \in Repositories
           /\ [r EXCEPT !.links = x].links = x /\ Same(r, [r EXCEPT !.links = x], "links")
  BY DEF Repositories, Same

LEMMA WritesHosts ==
    ASSUME NEW r \in Repositories, NEW x \in BOOLEAN
    PROVE  /\ [r EXCEPT !.hosts = x] \in Repositories
           /\ [r EXCEPT !.hosts = x].hosts = x /\ Same(r, [r EXCEPT !.hosts = x], "hosts")
  BY DEF Repositories, Same

LEMMA WritesHeader ==
    ASSUME NEW r \in Repositories, NEW x \in SUBSET InitialRepo.header
    PROVE  /\ [r EXCEPT !.header = x] \in Repositories
           /\ [r EXCEPT !.header = x].header = x /\ Same(r, [r EXCEPT !.header = x], "header")
  BY DEF Repositories, Same

LEMMA WritesImports ==
    ASSUME NEW r \in Repositories, NEW x \in SUBSET Themes
    PROVE  /\ [r EXCEPT !.imports = x] \in Repositories
           /\ [r EXCEPT !.imports = x].imports = x /\ Same(r, [r EXCEPT !.imports = x], "imports")
  BY DEF Repositories, Same

LEMMA WritesConfig ==
    ASSUME NEW r \in Repositories, NEW x \in SUBSET Themes
    PROVE  /\ [r EXCEPT !.config = x] \in Repositories
           /\ [r EXCEPT !.config = x].config = x /\ Same(r, [r EXCEPT !.config = x], "config")
  BY DEF Repositories, Same

LEMMA WritesFonts ==
    ASSUME NEW r \in Repositories, NEW x \in SUBSET Fonts
    PROVE  /\ [r EXCEPT !.fonts = x] \in Repositories
           /\ [r EXCEPT !.fonts = x].fonts = x /\ Same(r, [r EXCEPT !.fonts = x], "fonts")
  BY DEF Repositories, Same

LEMMA WritesDocs ==
    ASSUME NEW r \in Repositories, NEW x \in SUBSET Documented
    PROVE  /\ [r EXCEPT !.docs = x] \in Repositories
           /\ [r EXCEPT !.docs = x].docs = x /\ Same(r, [r EXCEPT !.docs = x], "docs")
  BY DEF Repositories, Same

LEMMA WritesMenu ==
    ASSUME NEW r \in Repositories, NEW x \in SUBSET {"/notifications"}
    PROVE  /\ [r EXCEPT !.menu = x] \in Repositories
           /\ [r EXCEPT !.menu = x].menu = x /\ Same(r, [r EXCEPT !.menu = x], "menu")
  BY DEF Repositories, Same

\* What a step reports of the tree r and the variables e.
Report(o, r, e, F) ==
    CASE o.op = "folders" -> FEATURES[o.arg].folders \cap r.tree
      [] o.op = "files" -> FEATURES[o.arg].files \cap r.tree
      [] o.op = "deps" -> r.pkg \cap FEATURES[o.arg].deps
      [] o.op = "env" -> Lines(FEATURES[o.arg].vars \cap e # {}, ".env")
      [] o.op = "docs" -> Lines(o.arg \in r.docs, DocsLine(o.arg))
      [] o.op = "nav" -> Lines(r.nav \cap Urls(F) # {}, "nav-config.ts")
      [] o.op = "nextconfig" -> Lines(r.hosts, "next.config.ts")
      [] o.op = "links" -> Lines(/\ "notifications" \notin F
                                 /\ "features/notifications" \in r.tree
                                 /\ r.links \cap Urls(F) # {}, "notification-center.tsx")
      [] o.op = "conditional" ->
           {d \in r.pkg \cap CONDITIONAL_DEPS : Importers[d] \cap (r.tree \ Paths(F)) = {}}
      [] o.op = "header" -> Lines("NotificationCenter" \in r.header, "header.tsx")
      [] o.op = "menu" -> Lines("/notifications" \in r.menu, "app-sidebar.tsx")
      [] o.op = "theme" -> {o.arg}
      [] o.op = "theme.css" -> {"theme.css"}
      [] o.op = "theme.config" -> {"theme.config.ts"}
      [] o.op = "unselect" -> Lines("ThemeSelector" \in r.header, "ThemeSelector")
      [] o.op = "fonts" -> Lines(r.fonts \ (AlwaysKeptFonts \cup FontsOf[o.arg]) # {}, "font.config.ts")
      [] OTHER -> {}
\* What the steps T report.
Reported(T, r, e, F) == UNION {Report(o, r, e, F) : o \in T}
\* What no dry run names.
Unannounced == TemplateLines \cup {BackupLine} \cup ThemeLines
\* The reports A and B differ in nothing else.
Alike(A, B) == A \ Unannounced = B \ Unannounced

\* The types the steps rely on.
RunTyped ==
    /\ run = [features |-> run.features, dry |-> run.dry, keep |-> run.keep,
              todo |-> run.todo, report |-> run.report]
    /\ run.features \in Named \cup {AllFeatures, << >>}
    /\ run.dry \in BOOLEAN
    /\ Program(Selected, run.todo)
    /\ ~Working => run.todo = << >>

\* The step a run is at.
Step == Head(run.todo)

\* A step is done and the program goes on to the next.
Advances ==
    /\ Working /\ run.todo # << >>
    /\ run' = [run EXCEPT !.todo = Tail(@),
                          !.report = IF run.dry \/ forecast # NoForecast
                                     THEN @ \cup Report(Step, repo, env, Selected) ELSE @]
    /\ IF run.dry THEN repo' = repo
       ELSE repo' \in Repositories /\ Does(Step, Selected, repo, repo')
    /\ env' = IF run.dry \/ Step.op # "env" THEN env ELSE env \ FEATURES[Step.arg].vars
    /\ ~run.dry /\ Step.op = "env" /\ backup = NoFile => FEATURES[Step.arg].vars \cap env = {}
    /\ ~run.dry /\ Step.op = "themes" => Single(repo)
    /\ UNCHANGED <<backup, history>>

\* The operation of an action is that of the step.
LEMMA StepIs ==
    ASSUME RunTyped, NEW op, At(op)
    PROVE  /\ Working /\ run.todo # << >> /\ Step.op = op /\ Arg = Step.arg /\ Step \in AllSteps
           /\ Step = Op(op, Step.arg)
           /\ op \in LoopOps => Step.arg \in FeatureNames
           /\ Selected \in SUBSET FeatureNames
<1>1. Working /\ run.todo # << >> /\ Step.op = op /\ Arg = Step.arg
  BY DEF At, Step, Arg
<1>2. Step \in AllSteps
  BY <1>1, ProgramTail DEF RunTyped, Step
<1>3. Selected \in SUBSET FeatureNames
  BY <1>1, CommandLines DEF RunTyped, Working, Selected
<1> QED
  BY <1>1, <1>2, <1>3, StepKinds

\* An action that is Done, with what the step does and reports, advances.
LEMMA DoneAdvances ==
    ASSUME Working, run.todo # << >>, NEW r \in Repositories, NEW rep, Done(r, rep),
           Does(Step, Selected, repo, r), rep = Report(Step, repo, env, Selected),
           Step.op # "env", ~run.dry /\ Step.op = "themes" => Single(repo)
    PROVE  Advances
  BY DEF Advances, Done, Reports, Said

\* What the other steps leave alone.
LEMMA OtherSteps ==
    ASSUME NEW o, NEW F, NEW r
    PROVE  /\ o.op \notin {"folders", "files", "theme"} => Deletes(o) = {}
           /\ o.op \notin {"deps", "conditional"} => Drops(o, F, r) = {}
           /\ o.op # "links" => ~Relinks(o, F, r)
           /\ o.op # "template" => o # Op("template", "clerk") /\ o # Op("template", "sentry")
  BY OpIs DEF Deletes, Drops, Relinks

\* A step writes to one part of the tree.
LEMMA DoesOne ==
    ASSUME NEW o, NEW F, NEW r, NEW q, NEW x, Same(r, q, x),
           o.op \in {"folders", "files", "theme"} => x = "tree",
           o.op \in {"deps", "conditional"} => x = "pkg",
           o.op \in {"nav", "links", "header", "fonts", "docs"} => x = o.op,
           o.op = "unselect" => x = "header",
           o.op = "nextconfig" => x = "hosts",
           o.op = "theme.css" => x = "imports",
           o.op = "theme.config" => x = "config",
           o.op # "template",
           x = "tree" => q.tree = r.tree \ Deletes(o),
           x = "pkg" => q.pkg = r.pkg \ Drops(o, F, r),
           x = "nav" => q.nav = r.nav \ Urls(F) /\ o.op = "nav",
           x = "links" => q.links = IF Relinks(o, F, r) THEN (r.links \ Urls(F)) \cup {"/overview"} ELSE r.links,
           x = "menu" => o.op = "menu" /\ q.menu = r.menu \ {"/notifications"},
           o.op = "menu" => x = "menu",
           x = "hosts" => ~q.hosts /\ q.hosts \in BOOLEAN /\ o.op = "nextconfig",
           x = "header" => \/ o.op = "header" /\ q.header = r.header \ {"NotificationCenter"}
                           \/ o.op = "unselect" /\ q.header = r.header \ {"ThemeSelector"},
           x = "imports" => q.imports = {o.arg} /\ o.op = "theme.css",
           x = "config" => q.config = {o.arg} /\ o.op = "theme.config",
           x = "fonts" => q.fonts = r.fonts \cap (AlwaysKeptFonts \cup FontsOf[o.arg]) /\ o.op = "fonts",
           x = "docs" => q.docs = r.docs \ {o.arg} /\ o.op = "docs"
    PROVE  Does(o, F, r, q)
<1>1. o # Op("template", "clerk") /\ o # Op("template", "sentry")
  BY OtherSteps
<1>2. q.tree = r.tree \ Deletes(o)
  BY OtherSteps DEF Same
<1>3. q.pkg = r.pkg \ Drops(o, F, r)
  BY OtherSteps DEF Same
<1>4. q.nav = IF o.op = "nav" THEN r.nav \ Urls(F) ELSE r.nav
  BY DEF Same
<1>5. q.links = IF Relinks(o, F, r) THEN (r.links \ Urls(F)) \cup {"/overview"} ELSE r.links
  BY OtherSteps DEF Same
<1>6. q.menu = IF o = Op("template", "clerk") THEN {"/notifications"}
                ELSE IF o.op = "menu" THEN r.menu \ {"/notifications"} ELSE r.menu
  BY <1>1 DEF Same
<1>7. q.hosts = IF o.op = "nextconfig" THEN FALSE
                 ELSE IF o = Op("template", "sentry") THEN TRUE ELSE r.hosts
  BY <1>1 DEF Same
<1>8. q.header = r.header \ (IF o.op = "header" THEN {"NotificationCenter"}
                              ELSE IF o.op = "unselect" THEN {"ThemeSelector"} ELSE {})
  BY DEF Same
<1>9. q.imports = IF o.op = "theme.css" THEN {o.arg} ELSE r.imports
  BY DEF Same
<1>10. q.config = IF o.op = "theme.config" THEN {o.arg} ELSE r.config
  BY DEF Same
<1>11. q.fonts = IF o.op = "fonts" THEN r.fonts \cap (AlwaysKeptFonts \cup FontsOf[o.arg]) ELSE r.fonts
  BY DEF Same
<1>12. q.docs = r.docs \ (IF o.op = "docs" THEN {o.arg} ELSE {})
  BY DEF Same
<1> QED
  BY <1>2, <1>3, <1>4, <1>5, <1>6, <1>7, <1>8, <1>9, <1>10, <1>11, <1>12 DEF Does

\* The actions, each an advance of the program.
LEMMA FoldersAdvance == ASSUME RunTyped, repo \in Repositories, deleteFolders PROVE Advances
<1> DEFINE gone == FEATURES[Arg].folders \cap repo.tree
           r == [repo EXCEPT !.tree = repo.tree \ gone]
<1>1. Working /\ run.todo # << >> /\ Step.op = "folders" /\ Arg = Step.arg /\ Step = Op("folders", Step.arg)
  BY StepIs DEF deleteFolders
<1>2. Done(r, gone)
  BY DEF deleteFolders
<1>3. r \in Repositories /\ r.tree = repo.tree \ gone /\ Same(repo, r, "tree")
  BY WritesTree DEF Repositories
<1> HIDE DEF r
<1>4. Does(Step, Selected, repo, r)
  <2>1. r.tree = repo.tree \ Deletes(Step)
    BY <1>1, <1>3 DEF Deletes
  <2> QED
    BY <1>1, <1>3, <2>1, DoesOne
<1>5. gone = Report(Step, repo, env, Selected)
  BY <1>1 DEF Report
<1> HIDE DEF gone
<1> QED
  BY <1>1, <1>2, <1>3, <1>4, <1>5, DoneAdvances

LEMMA FilesAdvance == ASSUME RunTyped, repo \in Repositories, deleteFiles PROVE Advances
<1> DEFINE rep == FEATURES[Arg].files \cap repo.tree
           r == [repo EXCEPT !.tree = repo.tree \ (FEATURES[Arg].files \cap repo.tree)]
<1>1. Working /\ run.todo # << >> /\ Step.op = "files" /\ Arg = Step.arg /\ Step \in AllSteps
  BY StepIs DEF deleteFiles
<1>2. Done(r, rep)
  BY DEF deleteFiles
<1>3. r \in Repositories /\ r.tree = repo.tree \ (FEATURES[Arg].files \cap repo.tree) /\ Same(repo, r, "tree")
  BY WritesTree DEF Repositories
<1> HIDE DEF r
<1>4. Does(Step, Selected, repo, r)
  <2>1. r.tree = repo.tree \ Deletes(Step)
    BY <1>1, <1>3 DEF Deletes
  <2> QED
    BY <1>1, <1>3, <2>1, DoesOne
<1>5. rep = Report(Step, repo, env, Selected)
  BY <1>1 DEF Report
<1> HIDE DEF rep
<1> QED
  BY <1>1, <1>2, <1>3, <1>4, <1>5, DoneAdvances

LEMMA DependenciesAdvance == ASSUME RunTyped, repo \in Repositories, cleanDependencies PROVE Advances
<1> DEFINE rep == repo.pkg \cap FEATURES[Arg].deps
           r == [repo EXCEPT !.pkg = repo.pkg \ FEATURES[Arg].deps]
<1>1. Working /\ run.todo # << >> /\ Step.op = "deps" /\ Arg = Step.arg /\ Step \in AllSteps
  BY StepIs DEF cleanDependencies
<1>2. Done(r, rep)
  BY DEF cleanDependencies
<1>3. r \in Repositories /\ r.pkg = repo.pkg \ FEATURES[Arg].deps /\ Same(repo, r, "pkg")
  BY WritesPkg DEF Repositories
<1> HIDE DEF r
<1>4. Does(Step, Selected, repo, r)
  <2>1. r.pkg = repo.pkg \ Drops(Step, Selected, repo)
    BY <1>1, <1>3 DEF Drops
  <2> QED
    BY <1>1, <1>3, <2>1, DoesOne
<1>5. rep = Report(Step, repo, env, Selected)
  BY <1>1 DEF Report
<1> HIDE DEF rep
<1> QED
  BY <1>1, <1>2, <1>3, <1>4, <1>5, DoneAdvances

LEMMA DocsAdvance == ASSUME RunTyped, repo \in Repositories, applyDocRules PROVE Advances
<1> DEFINE rep == Lines(Arg \in repo.docs, DocsLine(Arg))
           r == [repo EXCEPT !.docs = repo.docs \ {Arg}]
<1>1. Working /\ run.todo # << >> /\ Step.op = "docs" /\ Arg = Step.arg /\ Step \in AllSteps
  BY StepIs DEF applyDocRules
<1>2. Done(r, rep)
  BY DEF applyDocRules
<1>3. r \in Repositories /\ r.docs = repo.docs \ {Arg} /\ Same(repo, r, "docs")
  BY WritesDocs DEF Repositories
<1> HIDE DEF r
<1>4. Does(Step, Selected, repo, r)
  BY <1>1, <1>3, DoesOne
<1>5. rep = Report(Step, repo, env, Selected)
  BY <1>1 DEF Report
<1> HIDE DEF rep
<1> QED
  BY <1>1, <1>2, <1>3, <1>4, <1>5, DoneAdvances

LEMMA NavAdvance == ASSUME RunTyped, repo \in Repositories, cleanNavConfig PROVE Advances
<1> DEFINE rep == Lines(repo.nav \cap Urls(Selected) # {}, "nav-config.ts")
           r == [repo EXCEPT !.nav = repo.nav \ Urls(Selected)]
<1>1. Working /\ run.todo # << >> /\ Step.op = "nav" /\ Arg = Step.arg /\ Step \in AllSteps
  BY StepIs DEF cleanNavConfig
<1>2. Done(r, rep)
  BY DEF cleanNavConfig
<1>3. r \in Repositories /\ r.nav = repo.nav \ Urls(Selected) /\ Same(repo, r, "nav")
  BY WritesNav DEF Repositories
<1> HIDE DEF r
<1>4. Does(Step, Selected, repo, r)
  BY <1>1, <1>3, DoesOne
<1>5. rep = Report(Step, repo, env, Selected)
  BY <1>1 DEF Report
<1> HIDE DEF rep
<1> QED
  BY <1>1, <1>2, <1>3, <1>4, <1>5, DoneAdvances

LEMMA NextConfigAdvance == ASSUME RunTyped, repo \in Repositories, cleanNextConfig PROVE Advances
<1> DEFINE rep == Lines(repo.hosts, "next.config.ts")
           r == [repo EXCEPT !.hosts = FALSE]
<1>1. Working /\ run.todo # << >> /\ Step.op = "nextconfig" /\ Arg = Step.arg /\ Step \in AllSteps
  BY StepIs DEF cleanNextConfig
<1>2. Done(r, rep)
  BY DEF cleanNextConfig
<1>3. r \in Repositories /\ r.hosts = FALSE /\ Same(repo, r, "hosts")
  BY WritesHosts DEF Repositories
<1> HIDE DEF r
<1>4. Does(Step, Selected, repo, r)
  BY <1>1, <1>3, DoesOne
<1>5. rep = Report(Step, repo, env, Selected)
  BY <1>1 DEF Report
<1> HIDE DEF rep
<1> QED
  BY <1>1, <1>2, <1>3, <1>4, <1>5, DoneAdvances

LEMMA ConditionalAdvance == ASSUME RunTyped, repo \in Repositories, cleanConditionalDeps PROVE Advances
<1> DEFINE rep == Orphans
           r == [repo EXCEPT !.pkg = repo.pkg \ Orphans]
<1>1. Working /\ run.todo # << >> /\ Step.op = "conditional" /\ Arg = Step.arg /\ Step \in AllSteps
  BY StepIs DEF cleanConditionalDeps
<1>2. Done(r, rep)
  BY DEF cleanConditionalDeps
<1>3. r \in Repositories /\ r.pkg = repo.pkg \ Orphans /\ Same(repo, r, "pkg")
  BY WritesPkg DEF Repositories
<1> HIDE DEF r
<1>4. Does(Step, Selected, repo, r)
  <2>1. r.pkg = repo.pkg \ Drops(Step, Selected, repo)
    BY <1>1, <1>3 DEF Drops, Orphans, Survivors
  <2> QED
    BY <1>1, <1>3, <2>1, DoesOne
<1>5. rep = Report(Step, repo, env, Selected)
  BY <1>1 DEF Report, Orphans, Survivors
<1> HIDE DEF rep
<1> QED
  BY <1>1, <1>2, <1>3, <1>4, <1>5, DoneAdvances

LEMMA HeaderAdvance == ASSUME RunTyped, repo \in Repositories, cleanNotificationFromHeader PROVE Advances
<1> DEFINE rep == Lines("NotificationCenter" \in repo.header, "header.tsx")
           r == [repo EXCEPT !.header = repo.header \ {"NotificationCenter"}]
<1>1. Working /\ run.todo # << >> /\ Step.op = "header" /\ Arg = Step.arg /\ Step \in AllSteps
  BY StepIs DEF cleanNotificationFromHeader
<1>2. Done(r, rep)
  BY DEF cleanNotificationFromHeader
<1>3. r \in Repositories /\ r.header = repo.header \ {"NotificationCenter"} /\ Same(repo, r, "header")
  BY WritesHeader DEF Repositories
<1> HIDE DEF r
<1>4. Does(Step, Selected, repo, r)
  BY <1>1, <1>3, DoesOne
<1>5. rep = Report(Step, repo, env, Selected)
  BY <1>1 DEF Report
<1> HIDE DEF rep
<1> QED
  BY <1>1, <1>2, <1>3, <1>4, <1>5, DoneAdvances

LEMMA MenuAdvance == ASSUME RunTyped, repo \in Repositories, cleanNotificationFromSidebar PROVE Advances
<1> DEFINE rep == Lines("/notifications" \in repo.menu, "app-sidebar.tsx")
           r == [repo EXCEPT !.menu = repo.menu \ {"/notifications"}]
<1>1. Working /\ run.todo # << >> /\ Step.op = "menu" /\ Arg = Step.arg /\ Step \in AllSteps
  BY StepIs DEF cleanNotificationFromSidebar
<1>2. Done(r, rep)
  BY DEF cleanNotificationFromSidebar
<1>3. r \in Repositories /\ r.menu = repo.menu \ {"/notifications"} /\ Same(repo, r, "menu")
  BY WritesMenu DEF Repositories
<1> HIDE DEF r
<1>4. Does(Step, Selected, repo, r)
  BY <1>1, <1>3, DoesOne
<1>5. rep = Report(Step, repo, env, Selected)
  BY <1>1 DEF Report
<1> HIDE DEF rep
<1> QED
  BY <1>1, <1>2, <1>3, <1>4, <1>5, DoneAdvances

LEMMA ThemeAdvance == ASSUME RunTyped, repo \in Repositories, deleteTheme PROVE Advances
<1> DEFINE rep == {Arg}
           r == [repo EXCEPT !.tree = repo.tree \ {Arg}]
<1>1. Working /\ run.todo # << >> /\ Step.op = "theme" /\ Arg = Step.arg /\ Step \in AllSteps
  BY StepIs DEF deleteTheme
<1>2. Done(r, rep)
  BY DEF deleteTheme
<1>3. r \in Repositories /\ r.tree = repo.tree \ {Arg} /\ Same(repo, r, "tree")
  BY WritesTree DEF Repositories
<1> HIDE DEF r
<1>4. Does(Step, Selected, repo, r)
  <2>1. r.tree = repo.tree \ Deletes(Step)
    BY <1>1, <1>3 DEF Deletes
  <2> QED
    BY <1>1, <1>3, <2>1, DoesOne
<1>5. rep = Report(Step, repo, env, Selected)
  BY <1>1 DEF Report
<1> HIDE DEF rep
<1> QED
  BY <1>1, <1>2, <1>3, <1>4, <1>5, DoneAdvances

LEMMA ThemeCssAdvance == ASSUME RunTyped, repo \in Repositories, rewriteThemeCss PROVE Advances
<1> DEFINE rep == {"theme.css"}
           r == [repo EXCEPT !.imports = {Arg}]
<1>1. Working /\ run.todo # << >> /\ Step.op = "theme.css" /\ Arg = Step.arg /\ Step \in AllSteps
  BY StepIs DEF rewriteThemeCss
<1>2. Done(r, rep)
  BY DEF rewriteThemeCss
<1>6. Arg \in Themes
  <2>1. Op("theme", SelectorPath).op = "theme"
    BY DEF Op
  <2> QED
    BY <1>1, <2>1, StepKinds DEF ThemeWindow
<1>3. r \in Repositories /\ r.imports = {Arg} /\ Same(repo, r, "imports")
  BY <1>6, WritesImports DEF Repositories
<1> HIDE DEF r
<1>4. Does(Step, Selected, repo, r)
  BY <1>1, <1>3, DoesOne
<1>5. rep = Report(Step, repo, env, Selected)
  BY <1>1 DEF Report
<1> HIDE DEF rep
<1> QED
  BY <1>1, <1>2, <1>3, <1>4, <1>5, DoneAdvances

LEMMA ThemeConfigAdvance == ASSUME RunTyped, repo \in Repositories, rewriteThemeConfig PROVE Advances
<1> DEFINE rep == {"theme.config.ts"}
           r == [repo EXCEPT !.config = {Arg}]
<1>1. Working /\ run.todo # << >> /\ Step.op = "theme.config" /\ Arg = Step.arg /\ Step \in AllSteps
  BY StepIs DEF rewriteThemeConfig
<1>2. Done(r, rep)
  BY DEF rewriteThemeConfig
<1>6. Arg \in Themes
  <2>1. Op("theme", SelectorPath).op = "theme"
    BY DEF Op
  <2> QED
    BY <1>1, <2>1, StepKinds DEF ThemeWindow
<1>3. r \in Repositories /\ r.config = {Arg} /\ Same(repo, r, "config")
  BY <1>6, WritesConfig DEF Repositories
<1> HIDE DEF r
<1>4. Does(Step, Selected, repo, r)
  BY <1>1, <1>3, DoesOne
<1>5. rep = Report(Step, repo, env, Selected)
  BY <1>1 DEF Report
<1> HIDE DEF rep
<1> QED
  BY <1>1, <1>2, <1>3, <1>4, <1>5, DoneAdvances

LEMMA SelectorAdvance == ASSUME RunTyped, repo \in Repositories, removeThemeSelector PROVE Advances
<1> DEFINE rep == Lines("ThemeSelector" \in repo.header, "ThemeSelector")
           r == [repo EXCEPT !.header = repo.header \ {"ThemeSelector"}]
<1>1. Working /\ run.todo # << >> /\ Step.op = "unselect" /\ Arg = Step.arg /\ Step \in AllSteps
  BY StepIs DEF removeThemeSelector
<1>2. Done(r, rep)
  BY DEF removeThemeSelector
<1>3. r \in Repositories /\ r.header = repo.header \ {"ThemeSelector"} /\ Same(repo, r, "header")
  BY WritesHeader DEF Repositories
<1> HIDE DEF r
<1>4. Does(Step, Selected, repo, r)
  BY <1>1, <1>3, DoesOne
<1>5. rep = Report(Step, repo, env, Selected)
  BY <1>1 DEF Report
<1> HIDE DEF rep
<1> QED
  BY <1>1, <1>2, <1>3, <1>4, <1>5, DoneAdvances

LEMMA FontsAdvance == ASSUME RunTyped, repo \in Repositories, pruneFontConfig PROVE Advances
<1> DEFINE rep == Lines(repo.fonts \ (AlwaysKeptFonts \cup FontsOf[Arg]) # {}, "font.config.ts")
           r == [repo EXCEPT !.fonts = repo.fonts \cap (AlwaysKeptFonts \cup FontsOf[Arg])]
<1>1. Working /\ run.todo # << >> /\ Step.op = "fonts" /\ Arg = Step.arg /\ Step \in AllSteps
  BY StepIs DEF pruneFontConfig
<1>2. Done(r, rep)
  BY DEF pruneFontConfig
<1>3. r \in Repositories /\ r.fonts = repo.fonts \cap (AlwaysKeptFonts \cup FontsOf[Arg]) /\ Same(repo, r, "fonts")
  BY WritesFonts DEF Repositories
<1> HIDE DEF r
<1>4. Does(Step, Selected, repo, r)
  BY <1>1, <1>3, DoesOne
<1>5. rep = Report(Step, repo, env, Selected)
  BY <1>1 DEF Report
<1> HIDE DEF rep
<1> QED
  BY <1>1, <1>2, <1>3, <1>4, <1>5, DoneAdvances

LEMMA TemplatesAdvance == ASSUME RunTyped, repo \in Repositories, applyTemplates PROVE Advances
<1> DEFINE x == IF Arg = "clerk" THEN {"/notifications"} ELSE repo.menu
           y == repo.hosts \/ Arg = "sentry"
           r == [repo EXCEPT !.menu = x, !.hosts = y]
<1>1. Working /\ run.todo # << >> /\ Step.op = "template" /\ Arg = Step.arg /\ Step = Op("template", Step.arg)
  BY StepIs DEF applyTemplates
<1>2. Done(r, {})
  BY DEF applyTemplates
<1>3. x \in SUBSET {"/notifications"} /\ y \in BOOLEAN
  BY DEF Repositories
<1>9. r = [repo EXCEPT !.menu = x, !.hosts = y]
  OBVIOUS
<1> HIDE DEF x, y, r
<1>4. /\ r \in Repositories /\ r.menu = x /\ r.hosts = y
      /\ r.tree = repo.tree /\ r.pkg = repo.pkg /\ r.nav = repo.nav /\ r.links = repo.links /\ r.header = repo.header
      /\ r.imports = repo.imports /\ r.config = repo.config /\ r.fonts = repo.fonts /\ r.docs = repo.docs
  BY <1>3, <1>9 DEF Repositories
<1>5. (Step = Op("template", "clerk") <=> Arg = "clerk") /\ (Step = Op("template", "sentry") <=> Arg = "sentry")
  BY <1>1, OpIs
<1>6. /\ r.menu = IF Step = Op("template", "clerk") THEN {"/notifications"}
                  ELSE IF Step.op = "menu" THEN repo.menu \ {"/notifications"} ELSE repo.menu
      /\ r.hosts = IF Step.op = "nextconfig" THEN FALSE
                   ELSE IF Step = Op("template", "sentry") THEN TRUE ELSE repo.hosts
  <2>1. repo.hosts \in BOOLEAN
    BY DEF Repositories
  <2> QED
    BY <1>1, <1>4, <1>5, <2>1 DEF x, y
<1>7. Does(Step, Selected, repo, r)
  <2>1. /\ Deletes(Step) = {} /\ Drops(Step, Selected, repo) = {} /\ ~Relinks(Step, Selected, repo)
    BY <1>1, OtherSteps
  <2> QED
    BY <1>1, <1>4, <1>6, <2>1 DEF Does
<1>8. {} = Report(Step, repo, env, Selected)
  BY <1>1 DEF Report
<1> QED
  BY <1>1, <1>2, <1>4, <1>7, <1>8, DoneAdvances

LEMMA LinksAdvance == ASSUME RunTyped, repo \in Repositories, remapNotificationLinks PROVE Advances
<1> DEFINE dead == repo.links \cap Urls(Selected)
           applies == /\ "notifications" \notin Selected
                      /\ "features/notifications" \in repo.tree
                      /\ dead # {}
           x == IF applies THEN (repo.links \ dead) \cup {"/overview"} ELSE repo.links
           rep == Lines(applies, "notification-center.tsx")
           r == [repo EXCEPT !.links = x]
<1>1. Working /\ run.todo # << >> /\ Step.op = "links" /\ Arg = Step.arg
  BY StepIs DEF remapNotificationLinks
<1>2. Done(r, rep)
  BY DEF remapNotificationLinks
<1>3. x \in SUBSET InitialRepo.links
  <2>1. "/overview" \in InitialRepo.links
    BY DEF InitialRepo
  <2>2. repo.links \in SUBSET InitialRepo.links
    BY DEF Repositories
  <2> QED
    BY <2>1, <2>2
<1>4. applies <=> Relinks(Step, Selected, repo)
  BY <1>1 DEF Relinks
<1>5. x = IF Relinks(Step, Selected, repo) THEN (repo.links \ Urls(Selected)) \cup {"/overview"} ELSE repo.links
  BY <1>4
<1>6. rep = Report(Step, repo, env, Selected)
  BY <1>1 DEF Report
<1> HIDE DEF x, rep
<1>7. r \in Repositories /\ r.links = x /\ Same(repo, r, "links")
  BY <1>3, WritesLinks
<1> HIDE DEF r
<1>8. Does(Step, Selected, repo, r)
  BY <1>1, <1>5, <1>7, DoesOne
<1> QED
  BY <1>1, <1>2, <1>6, <1>7, <1>8, DoneAdvances

\* The backup is written before .env is.
BackupWritten ==
    /\ Working /\ ~run.dry
    /\ backup = NoFile /\ backup' = <<env>>
    /\ run' = [run EXCEPT !.report = IF run.dry \/ forecast # NoForecast
                                     THEN @ \cup {BackupLine} ELSE @]
    /\ UNCHANGED <<repo, env, history>>

\* A window opens.
Opens ==
    /\ Working /\ ~run.dry /\ run.todo # << >> /\ Step.op = "themes" /\ ~Single(repo)
    /\ \E keep, other \in Themes :
          /\ keep # other /\ repo.tree \cap Themes = {keep, other}
          /\ run' = [run EXCEPT !.todo = ThemeSteps(keep, {other}) \o Tail(@)]
    /\ UNCHANGED <<repo, env, backup, history>>

\* Two steps write nothing to the tree.
LEMMA UnchangedTree ==
    ASSUME NEW o, NEW F, NEW r, r \in Repositories, o.op \in {"env", "themes"}
    PROVE  Does(o, F, r, r)
<1>1. /\ Deletes(o) = {} /\ Drops(o, F, r) = {} /\ ~Relinks(o, F, r)
      /\ o # Op("template", "clerk") /\ o # Op("template", "sentry")
  BY OtherSteps
<1> QED
  BY <1>1 DEF Does

\* cleanEnvVars advances, or writes the backup first.
LEMMA EnvAdvances ==
    ASSUME RunTyped, repo \in Repositories, cleanEnvVars
    PROVE  Advances \/ BackupWritten
<1> DEFINE hit == FEATURES[Arg].vars \cap env # {}
<1>1. Working /\ run.todo # << >> /\ Step.op = "env" /\ Arg = Step.arg
  BY StepIs DEF cleanEnvVars
<1>2. CASE hit /\ ~run.dry /\ backup = NoFile
  BY <1>1, <1>2 DEF cleanEnvVars, BackupWritten, Said
<1>3. CASE ~(hit /\ ~run.dry /\ backup = NoFile)
  <2>1. /\ env' = IF run.dry THEN env ELSE env \ FEATURES[Arg].vars
        /\ Reports(Lines(hit, ".env"))
        /\ UNCHANGED <<repo, backup, history>>
    BY <1>3 DEF cleanEnvVars
  <2>2. Lines(hit, ".env") = Report(Step, repo, env, Selected)
    BY <1>1 DEF Report
  <2>3. Reports(Report(Step, repo, env, Selected))
    BY <2>1, <2>2
  <2>4. Does(Step, Selected, repo, repo)
    BY <1>1, UnchangedTree
  <2> QED
    BY <1>1, <1>3, <2>1, <2>3, <2>4 DEF Advances, Reports, Said
<1> QED
  BY <1>2, <1>3

\* At most one theme was found, or two.
LEMMA ThemesFound ==
    ASSUME NEW found, found \subseteq Themes, found # {}
    PROVE  \/ Cardinality(found) <= 1 /\ \E k \in Themes : found = {k}
           \/ /\ ~(Cardinality(found) <= 1) /\ \A k \in Themes : found # {k}
              /\ \A keep \in found : \E other \in Themes :
                    keep # other /\ found = {keep, other} /\ found \ {keep} = {other}
<1>1. Themes = {"vercel", "zen"} /\ "vercel" # "zen"
  BY DEF Themes
<1>2. CASE found = {"vercel"} \/ found = {"zen"}
  <2>1. Cardinality(found) = 1
    BY <1>2, FS_Singleton
  <2> QED
    BY <1>1, <1>2, <2>1
<1>3. CASE found = {"vercel", "zen"}
  <2>1. Cardinality({"vercel"}) = 1 /\ IsFiniteSet({"vercel"})
    BY FS_Singleton
  <2>2. Cardinality({"vercel"} \cup {"zen"}) = 2
    BY <1>1, <2>1, FS_AddElement
  <2>3. found = {"vercel"} \cup {"zen"}
    BY <1>3
  <2>4. Cardinality(found) = 2
    BY <2>2, <2>3
  <2>5. \A k \in Themes : found # {k}
    BY <1>1, <1>3
  <2>6. ASSUME NEW keep \in found
        PROVE  \E other \in Themes : keep # other /\ found = {keep, other} /\ found \ {keep} = {other}
    <3>1. CASE keep = "vercel"
      BY <1>1, <1>3, <3>1
    <3>2. CASE keep = "zen"
      BY <1>1, <1>3, <3>2
    <3> QED
      BY <1>3, <3>1, <3>2
  <2> QED
    BY <2>4, <2>5, <2>6
<1> QED
  BY <1>1, <1>2, <1>3

\* cleanThemes advances when there is nothing to choose, and opens a window
\* otherwise.
LEMMA ThemesAdvance ==
    ASSUME RunTyped, repo \in Repositories, repo.tree \cap Themes # {}, cleanThemes
    PROVE  Advances \/ Opens
<1> DEFINE found == repo.tree \cap Themes
<1>1. Working /\ run.todo # << >> /\ Step.op = "themes"
  BY StepIs DEF cleanThemes
<1>2. CASE Cardinality(found) <= 1 \/ run.dry
  <2>1. Done(repo, {})
    BY <1>2 DEF cleanThemes
  <2>2. {} = Report(Step, repo, env, Selected)
    BY <1>1 DEF Report
  <2>3. Does(Step, Selected, repo, repo)
    BY <1>1, UnchangedTree
  <2>4. ~run.dry => Single(repo)
    BY <1>2, ThemesFound DEF Single
  <2> QED
    BY <1>1, <2>1, <2>2, <2>3, <2>4, DoneAdvances
<1>3. CASE ~(Cardinality(found) <= 1 \/ run.dry)
  <2>1. PICK keep \in found :
          /\ run' = [run EXCEPT !.todo = ThemeSteps(keep, found \ {keep}) \o Tail(@)]
          /\ UNCHANGED <<repo, env, backup, history>>
    BY <1>3 DEF cleanThemes
  <2>2. ~Single(repo) /\ \E other \in Themes : keep # other /\ found = {keep, other} /\ found \ {keep} = {other}
    BY <1>3, ThemesFound DEF Single
  <2>3. PICK other \in Themes : keep # other /\ found = {keep, other} /\ found \ {keep} = {other}
    BY <2>2
  <2>4. run' = [run EXCEPT !.todo = ThemeSteps(keep, {other}) \o Tail(@)]
    BY <2>1, <2>3
  <2> QED
    BY <1>1, <1>3, <2>1, <2>2, <2>3, <2>4 DEF Opens
<1> QED
  BY <1>2, <1>3

\* Every step of a run is one of three.
LEMMA StepsAre ==
    ASSUME RunTyped, repo \in Repositories, repo.tree \cap Themes # {}, Steps
    PROVE  Advances \/ Opens \/ BackupWritten
<1>1. CASE deleteFolders
  BY <1>1, FoldersAdvance
<1>2. CASE deleteFiles
  BY <1>2, FilesAdvance
<1>3. CASE applyTemplates
  BY <1>3, TemplatesAdvance
<1>4. CASE cleanDependencies
  BY <1>4, DependenciesAdvance
<1>5. CASE cleanEnvVars
  BY <1>5, EnvAdvances
<1>6. CASE applyDocRules
  BY <1>6, DocsAdvance
<1>7. CASE cleanNavConfig
  BY <1>7, NavAdvance
<1>8. CASE cleanNextConfig
  BY <1>8, NextConfigAdvance
<1>9. CASE remapNotificationLinks
  BY <1>9, LinksAdvance
<1>10. CASE cleanConditionalDeps
  BY <1>10, ConditionalAdvance
<1>11. CASE cleanNotificationFromHeader
  BY <1>11, HeaderAdvance
<1>12. CASE cleanNotificationFromSidebar
  BY <1>12, MenuAdvance
<1>13. CASE cleanThemes
  BY <1>13, ThemesAdvance
<1>14. CASE deleteTheme
  BY <1>14, ThemeAdvance
<1>15. CASE rewriteThemeCss
  BY <1>15, ThemeCssAdvance
<1>16. CASE rewriteThemeConfig
  BY <1>16, ThemeConfigAdvance
<1>17. CASE removeThemeSelector
  BY <1>17, SelectorAdvance
<1>18. CASE pruneFontConfig
  BY <1>18, FontsAdvance
<1> QED
  BY <1>1, <1>2, <1>3, <1>4, <1>5, <1>6, <1>7, <1>8, <1>9, <1>10, <1>11, <1>12, <1>13, <1>14, <1>15,
     <1>16, <1>17, <1>18 DEF Steps

-----------------------------------------------------------------------------
(* The invariant.                                                          *)

\* The tree, the run and the sets of features.
TypeOK ==
    /\ repo \in Repositories
    /\ RunTyped
    /\ stripped \subseteq FeatureNames /\ pending \subseteq FeatureNames

\* What a real run is stripping, and has still to do.
Stripping == IF Working /\ ~run.dry THEN Selected ELSE {}
ToDo == IF Working /\ ~run.dry THEN Range(run.todo) ELSE {}

\* The nine parts, of the state.
TreeInv == TreeHolds(repo, relinked, "themes" \in scars, stripped, pending, Stripping, ToDo)

LEMMA IdleIs ==
    /\ Program({}, << >>) /\ Range(<< >>) = {}
    /\ Idle.features = << >> /\ Idle.todo = << >> /\ Idle.report = {} /\ ~Idle.dry /\ Idle.dry \in BOOLEAN
    /\ Idle = [features |-> Idle.features, dry |-> Idle.dry, keep |-> Idle.keep,
               todo |-> Idle.todo, report |-> Idle.report]
<1>1. << >> \in Seq(AllSteps) /\ Range(<< >>) = {}
  BY EmptySeq DEF Range
<1>2. \A A, B : Before(<< >>, A, B)
  BY DEF Before
<1>3. Program({}, << >>)
  BY <1>1, <1>2 DEF Program
<1> QED
  BY <1>1, <1>3 DEF Idle

\* The program of a run that is over, starts, advances, or enters a window.
LEMMA RunEnds ==
    ASSUME run' = Idle
    PROVE  RunTyped' /\ ~Working' /\ Stripping' = {} /\ ToDo' = {}
<1>1. Selected' = {} /\ ~Working'
  BY IdleIs DEF Selected, Working
<1> QED
  BY <1>1, IdleIs DEF RunTyped, Stripping, ToDo, Working

LEMMA RunStarts ==
    ASSUME NEW features \in Named \cup {AllFeatures}, NEW dry \in BOOLEAN, NEW keep, main(features, dry, keep)
    PROVE  /\ RunTyped' /\ Working' /\ Selected' = Range(features)
           /\ run'.features = features /\ run'.dry = dry /\ run'.todo = cleanup(features) /\ run'.report = {}
<1>1. run' = [features |-> features, dry |-> dry, keep |-> keep, todo |-> cleanup(features), report |-> {}]
  BY DEF main
<1>2. features # << >>
  BY CommandLines
<1>3. Program(Range(features), cleanup(features))
  BY ProgramsAre
<1>4. /\ run'.features = features /\ run'.dry = dry /\ run'.todo = cleanup(features) /\ run'.report = {}
      /\ run' = [features |-> run'.features, dry |-> run'.dry, keep |-> run'.keep,
                 todo |-> run'.todo, report |-> run'.report]
  BY <1>1
<1>5. Selected' = Range(features) /\ Working'
  BY <1>2, <1>4 DEF Selected, Working
<1>6. Program(Selected', run'.todo)
  BY <1>3, <1>4, <1>5
<1> QED
  BY <1>4, <1>5, <1>6 DEF RunTyped, Working

LEMMA RunAdvances ==
    ASSUME RunTyped, Advances
    PROVE  /\ RunTyped' /\ Working' /\ Selected' = Selected
           /\ run'.features = run.features /\ run'.dry = run.dry /\ run'.todo = Tail(run.todo)
           /\ run'.report = IF run.dry \/ forecast # NoForecast
                            THEN run.report \cup Report(Step, repo, env, Selected) ELSE run.report
<1> DEFINE x == IF run.dry \/ forecast # NoForecast
                THEN run.report \cup Report(Step, repo, env, Selected) ELSE run.report
           y == Tail(run.todo)
<1>1. run' = [run EXCEPT !.todo = y, !.report = x] /\ Working /\ run.todo # << >>
  BY DEF Advances
<1>2. run = [features |-> run.features, dry |-> run.dry, keep |-> run.keep,
              todo |-> run.todo, report |-> run.report]
  BY DEF RunTyped
<1> HIDE DEF x, y
<1>3. run' = [features |-> run.features, dry |-> run.dry, keep |-> run.keep, todo |-> y, report |-> x]
  BY <1>1, <1>2
<1>4. /\ run'.features = run.features /\ run'.dry = run.dry /\ run'.todo = y /\ run'.report = x
      /\ run' = [features |-> run'.features, dry |-> run'.dry, keep |-> run'.keep,
                 todo |-> run'.todo, report |-> run'.report]
  BY <1>3
<1>5. Selected' = Selected /\ Working'
  BY <1>1, <1>4 DEF Selected, Working
<1>6. Program(Selected, y)
  BY <1>1, ProgramTail DEF RunTyped, y
<1> QED
  BY <1>4, <1>5, <1>6 DEF RunTyped, x, y

LEMMA RunOpens ==
    ASSUME RunTyped, Opens
    PROVE  /\ RunTyped' /\ Working' /\ Selected' = Selected
           /\ run'.features = run.features /\ run'.dry = run.dry /\ run'.report = run.report
           /\ \E keep, other \in Themes :
                 /\ keep # other /\ repo.tree \cap Themes = {keep, other}
                 /\ Range(run'.todo) = WindowSteps(keep, other) \cup Range(Tail(run.todo))
<1>1. PICK keep \in Themes, other \in Themes :
          /\ keep # other /\ repo.tree \cap Themes = {keep, other}
          /\ run' = [run EXCEPT !.todo = ThemeSteps(keep, {other}) \o Tail(@)]
  BY DEF Opens
<1> DEFINE y == ThemeSteps(keep, {other}) \o Tail(run.todo)
<1>2. /\ Program(Selected, y) /\ Range(y) = WindowSteps(keep, other) \cup Range(Tail(run.todo))
  <2>1. Program(Selected, run.todo) /\ run.todo # << >> /\ Head(run.todo).op = "themes"
    BY DEF RunTyped, Opens, Step
  <2> QED
    BY <2>1, WindowOpens
<1>3. run = [features |-> run.features, dry |-> run.dry, keep |-> run.keep,
              todo |-> run.todo, report |-> run.report]
  BY DEF RunTyped
<1>4. run' = [run EXCEPT !.todo = y]
  BY <1>1
<1> HIDE DEF y
<1>5. run' = [features |-> run.features, dry |-> run.dry, keep |-> run.keep, todo |-> y, report |-> run.report]
  BY <1>3, <1>4
<1>6. /\ run'.features = run.features /\ run'.dry = run.dry /\ run'.todo = y /\ run'.report = run.report
      /\ run' = [features |-> run'.features, dry |-> run'.dry, keep |-> run'.keep,
                 todo |-> run'.todo, report |-> run'.report]
  BY <1>5
<1>7. Selected' = Selected /\ Working'
  BY <1>6 DEF Selected, Working, Opens
<1>8. Program(Selected', run'.todo)
  BY <1>2, <1>6, <1>7
<1>9. RunTyped'
  BY <1>6, <1>7, <1>8 DEF RunTyped
<1> QED
  BY <1>1, <1>2, <1>6, <1>7, <1>9

LEMMA RunBacksUp ==
    ASSUME RunTyped, BackupWritten
    PROVE  /\ RunTyped' /\ Working' /\ Selected' = Selected
           /\ run'.features = run.features /\ run'.dry = run.dry /\ run'.todo = run.todo
           /\ run'.report = IF run.dry \/ forecast # NoForecast THEN run.report \cup {BackupLine} ELSE run.report
<1> DEFINE x == IF run.dry \/ forecast # NoForecast THEN run.report \cup {BackupLine} ELSE run.report
<1>1. run' = [run EXCEPT !.report = x] /\ Working
  BY DEF BackupWritten
<1>2. run = [features |-> run.features, dry |-> run.dry, keep |-> run.keep,
              todo |-> run.todo, report |-> run.report]
  BY DEF RunTyped
<1> HIDE DEF x
<1>3. run' = [features |-> run.features, dry |-> run.dry, keep |-> run.keep, todo |-> run.todo, report |-> x]
  BY <1>1, <1>2
<1>4. /\ run'.features = run.features /\ run'.dry = run.dry /\ run'.todo = run.todo /\ run'.report = x
      /\ run' = [features |-> run'.features, dry |-> run'.dry, keep |-> run'.keep,
                 todo |-> run'.todo, report |-> run'.report]
  BY <1>3
<1>5. Selected' = Selected /\ Working'
  BY <1>1, <1>4 DEF Selected, Working
<1> QED
  BY <1>4, <1>5 DEF RunTyped, x

\* The tree before any run.
LEMMA InitialFields ==
    /\ InitialRepo.tree = Paths(DOMAIN FEATURES) \cup Themes \cup {SelectorPath}
    /\ InitialRepo.pkg = CONDITIONAL_DEPS
               \cup {"@dnd-kit", "ai", "@ai-sdk/react", "@shadcn/helpers", "@sentry/nextjs"}
    /\ InitialRepo.nav = {"/overview", "/chat"} /\ InitialRepo.links = {"/overview", "/kanban", "/chat"}
    /\ InitialRepo.menu = {} /\ InitialRepo.hosts = FALSE
    /\ InitialRepo.header = {"NotificationCenter", "ThemeSelector"}
    /\ InitialRepo.imports = Themes /\ InitialRepo.config = Themes
    /\ InitialRepo.fonts = Fonts /\ InitialRepo.docs = Documented
  BY DEF InitialRepo, Fonts

\* A conditional dependency is there at first, is of no feature, and no file that
\* belongs to no feature imports it.
LEMMA ConditionalOnes ==
    \A d \in CONDITIONAL_DEPS :
       /\ d \in InitialRepo.pkg /\ (\A f \in FeatureNames : d \notin FEATURES[f].deps)
       /\ Importers[d] \cap Remaining = {}
<1>1. \A d \in CONDITIONAL_DEPS : Importers[d] \cap Remaining = {}
  BY ImportersAre DEF CONDITIONAL_DEPS, Remaining
<1> QED
  BY <1>1, Apart, InitialFields

\* A dependency of a feature that anything imports is there at first, its feature
\* holds all that imports it, and a file of none only imports Sentry's.
LEMMA ImportedOnes ==
    ASSUME NEW f \in FeatureNames, NEW d \in FEATURES[f].deps
    PROVE  /\ Importers[d] # {} => d \in InitialRepo.pkg
           /\ Importers[d] \subseteq FEATURES[f].folders \cup FEATURES[f].files \cup Remaining
           /\ d # "@sentry/nextjs" => Importers[d] \cap Remaining = {}
           /\ d = "@sentry/nextjs" => f = "sentry"
<1>1. CASE f = "clerk"
  BY <1>1, Table, ImportersAre DEF Feature
<1>2. CASE f = "kanban"
  BY <1>2, Table, ImportersAre, InitialFields DEF Feature, Remaining
<1>3. CASE f \in {"chat", "notifications", "themes"}
  BY <1>3, Table DEF Feature
<1>4. CASE f = "ai-chat"
  BY <1>4, Table, ImportersAre, InitialFields DEF Feature, Remaining
<1>5. CASE f = "sentry"
  BY <1>5, Table, ImportersAre, InitialFields DEF Feature, Remaining
<1> QED
  BY <1>1, <1>2, <1>3, <1>4, <1>5 DEF FeatureNames

LEMMA InitialTyped == InitialRepo \in Repositories
<1> DEFINE a == InitialRepo.tree
           b == InitialRepo.pkg
           c == InitialRepo.nav
           d == InitialRepo.links
           h == InitialRepo.header
           f == InitialRepo.fonts
<1>1. InitialRepo = [tree |-> a, pkg |-> b, nav |-> c, links |-> d, menu |-> {}, hosts |-> FALSE, header |-> h,
                     imports |-> Themes, config |-> Themes, fonts |-> f, docs |-> Documented]
  BY DEF InitialRepo
<1>2. f = Fonts
  BY InitialFields
<1> HIDE DEF a, b, c, d, h, f
<1>3. [tree |-> a, pkg |-> b, nav |-> c, links |-> d, menu |-> {}, hosts |-> FALSE, header |-> h,
       imports |-> Themes, config |-> Themes, fonts |-> f, docs |-> Documented]
        \in [tree : SUBSET a, pkg : SUBSET b, nav : SUBSET c, links : SUBSET d, menu : SUBSET {"/notifications"},
             hosts : BOOLEAN, header : SUBSET h, imports : SUBSET Themes, config : SUBSET Themes,
             fonts : SUBSET Fonts, docs : SUBSET Documented]
  BY <1>2
<1> QED
  BY <1>1, <1>3 DEF Repositories, a, b, c, d, h

LEMMA InitialTree == TreeHolds(InitialRepo, FALSE, FALSE, {}, {}, {}, {})
<1>1. Paths({}) = {} /\ Urls({}) = {} /\ {} \cup {} \cup {} = {}
  BY UnionsOfBoth
<1>2. Paths(DOMAIN FEATURES) = Paths(FeatureNames)
  BY Table
<1>3. Gone(InitialRepo, {}, {}, {}, {})
  BY <1>1, <1>2, InitialFields DEF Gone
<1>4. Packages(InitialRepo, {}, {}, {}, {})
  <2>1. \A d \in CONDITIONAL_DEPS : Importers[d] # {}
    BY ImportersAre DEF CONDITIONAL_DEPS
  <2>2. \A d \in CONDITIONAL_DEPS : Importers[d] \cap (InitialRepo.tree \ Paths({})) # {}
    BY <1>1, <1>2, <2>1, InitialFields, ImportersAreNoThemes
  <2> QED
    BY <2>2 DEF Packages
<1>5. /\ Hosts(InitialRepo, {}, {}, {}) /\ Menu(InitialRepo, FALSE, {}, {}, {})
  BY InitialFields DEF Hosts, Menu
<1>6. Nav(InitialRepo, {}, {}, {}, {}) /\ Links(InitialRepo, {}, {}, {}, {})
  BY <1>1 DEF Nav, Links
<1>7. Header(InitialRepo, {}, {}, {}, {})
  BY InitialFields DEF Header
<1>8. Docs(InitialRepo, {}, {}, {}, {})
  BY InitialFields DEF Docs
<1>9. ThemesHold(InitialRepo, FALSE, {}, {}, {})
  <2>1. ~InWindow({})
    BY DEF InWindow
  <2>2. InitialRepo.tree \cap Themes = Themes /\ SelectorPath \in InitialRepo.tree
    BY InitialFields
  <2>3. Themes # {} /\ \A k \in Themes : Themes # {k}
    BY DEF Themes
  <2>4. ~Single(InitialRepo)
    BY <2>2, <2>3 DEF Single
  <2> QED
    BY <2>1, <2>2, <2>3, <2>4, InitialFields DEF ThemesHold
<1> QED
  BY <1>3, <1>4, <1>5, <1>6, <1>7, <1>8, <1>9 DEF TreeHolds

\* The invariant holds at first, and every step keeps it.
LEMMA InitInv == Init => TypeOK /\ TreeInv
<1> SUFFICES ASSUME Init PROVE TypeOK /\ TreeInv
  OBVIOUS
<1>1. repo = InitialRepo /\ run = Idle /\ stripped = {} /\ pending = {} /\ scars = {} /\ relinked = FALSE
  BY DEF Init
<1>2. ~Working /\ Selected = {}
  BY <1>1, IdleIs DEF Working, Selected
<1>3. RunTyped
  BY <1>1, <1>2, IdleIs DEF RunTyped
<1>4. Stripping = {} /\ ToDo = {} /\ ("themes" \in scars) = FALSE
  BY <1>1, <1>2 DEF Stripping, ToDo
<1>5. TreeInv
  BY <1>1, <1>4, InitialTree DEF TreeInv
<1> QED
  BY <1>1, <1>3, <1>5, InitialTyped DEF TypeOK

\* What the invariant says of the run under way.
LEMMA OfTheRun ==
    ASSUME TypeOK, TreeInv
    PROVE  /\ RunTyped /\ repo \in Repositories /\ repo.tree \cap Themes # {}
           /\ stripped \in SUBSET FeatureNames /\ pending \in SUBSET FeatureNames
           /\ repo.menu \subseteq {"/notifications"}
           /\ ~Working => Stripping = {} /\ ToDo = {} /\ run.todo = << >>
           /\ Working => /\ Selected \in SUBSET FeatureNames /\ Selected # {} /\ Selected = Range(run.features)
                         /\ run.features \in Named \cup {AllFeatures}
           /\ Working /\ run.dry => Stripping = {} /\ ToDo = {}
           /\ Working /\ ~run.dry => Stripping = Selected /\ ToDo = Range(run.todo)
<1>1. Working => /\ Selected \in SUBSET FeatureNames /\ Selected # {} /\ Selected = Range(run.features)
                 /\ run.features \in Named \cup {AllFeatures}
  BY CommandLines DEF TypeOK, RunTyped, Working, Selected
<1>2. repo.tree \cap Themes # {}
  BY DEF TreeInv, TreeHolds, ThemesHold
<1> QED
  BY <1>1, <1>2 DEF TypeOK, RunTyped, Repositories, Stripping, ToDo

LEMMA StartsInv ==
    ASSUME TypeOK, TreeInv, NEW features \in Named \cup {AllFeatures}, NEW dry \in BOOLEAN, NEW keep,
           main(features, dry, keep)
    PROVE  TypeOK' /\ TreeInv'
<1>1. /\ RunTyped' /\ Working' /\ Selected' = Range(features)
      /\ run'.dry = dry /\ run'.todo = cleanup(features)
  BY RunStarts
<1>2. UNCHANGED <<repo, stripped, pending, relinked, scars>> /\ ~Working
  BY DEF main
<1>3. TypeOK'
  BY <1>1, <1>2 DEF TypeOK
<1>4. TreeHolds(repo, relinked, "themes" \in scars, stripped, pending, {}, {})
  BY <1>2, OfTheRun DEF TreeInv
<1>5. CASE dry
  <2>1. Stripping' = {} /\ ToDo' = {}
    BY <1>1, <1>5 DEF Stripping, ToDo
  <2> QED
    BY <1>2, <1>3, <1>4, <2>1 DEF TreeInv
<1>6. CASE ~dry
  <2>1. Stripping' = Range(features) /\ ToDo' = Range(cleanup(features))
    BY <1>1, <1>6 DEF Stripping, ToDo
  <2>2. Whole(Range(features), Range(cleanup(features))) /\ Range(features) \in SUBSET FeatureNames
    BY ProgramsAre, CommandLines
  <2>3. stripped \in SUBSET FeatureNames /\ pending \in SUBSET FeatureNames
    BY OfTheRun
  <2>4. TreeHolds(repo, relinked, "themes" \in scars, stripped, pending, Range(features), Range(cleanup(features)))
    BY <1>4, <2>2, <2>3, TreeStarts
  <2> QED
    BY <1>2, <1>3, <2>1, <2>4 DEF TreeInv
<1> QED
  BY <1>5, <1>6

\* The step of a run's program, as the parts need it.
LEMMA StepIsTaken ==
    ASSUME RunTyped, Working, run.todo # << >>
    PROVE  /\ Taken(Step, Selected, Range(run.todo), Range(Tail(run.todo)))
           /\ Ordered(Step, Range(run.todo), Range(Tail(run.todo)))
           /\ Step.op = "header" => "notifications" \in Selected
           /\ Range(Tail(run.todo)) \in SUBSET Range(run.todo)
<1>1. Program(Selected, run.todo)
  BY DEF RunTyped
<1>2. Selected \in SUBSET FeatureNames /\ Selected # {}
  BY CommandLines DEF RunTyped, Working, Selected
<1>3. /\ Step \in AllSteps
      /\ Step.op \in LoopOps => Step.arg \in Selected
      /\ Step.op = "header" => "notifications" \in Selected
      /\ Step.op \in LoopOps => ClosingFor(Selected) \subseteq Range(Tail(run.todo))
      /\ Range(run.todo) = {Step} \cup Range(Tail(run.todo))
      /\ Step.op \notin ThemeWindow => ~InWindow(Range(run.todo))
      /\ Step.op = "fonts" => \A o \in Range(run.todo) : o.op \in ThemeWindow => o.op = "fonts"
      /\ Step = Op("theme", SelectorPath) => \A o \in Range(run.todo) : o.op # "unselect"
      /\ Range(run.todo) \subseteq AllSteps
  BY <1>1, ProgramTail DEF Step
<1> QED
  BY <1>2, <1>3 DEF Taken, Ordered

LEMMA AdvancesInv ==
    ASSUME TypeOK, TreeInv, Advances
    PROVE  TypeOK' /\ TreeInv'
<1>1. /\ RunTyped' /\ Working' /\ Selected' = Selected /\ run'.dry = run.dry /\ run'.todo = Tail(run.todo)
  BY RunAdvances DEF TypeOK
<1>2. /\ Working /\ run.todo # << >>
      /\ IF run.dry THEN repo' = repo
         ELSE repo' \in Repositories /\ Does(Step, Selected, repo, repo')
      /\ ~run.dry /\ Step.op = "themes" => Single(repo)
      /\ UNCHANGED <<stripped, pending, relinked, scars>>
  BY DEF Advances, history
<1>3. TypeOK'
  BY <1>1, <1>2 DEF TypeOK
<1>4. CASE run.dry
  <2>1. Stripping' = {} /\ ToDo' = {} /\ Stripping = {} /\ ToDo = {}
    BY <1>1, <1>2, <1>4 DEF Stripping, ToDo
  <2> QED
    BY <1>2, <1>3, <1>4, <2>1 DEF TreeInv
<1>5. CASE ~run.dry
  <2> DEFINE T == Range(run.todo)
             U == Range(Tail(run.todo))
  <2>1. Stripping' = Selected /\ ToDo' = U /\ Stripping = Selected /\ ToDo = T
    BY <1>1, <1>2, <1>5 DEF Stripping, ToDo
  <2>2. /\ Taken(Step, Selected, T, U) /\ Ordered(Step, T, U) /\ (Step.op = "header" => "notifications" \in Selected)
    BY <1>2, StepIsTaken DEF TypeOK
  <2>3. Does(Step, Selected, repo, repo') /\ (Step.op = "themes" => Single(repo))
    BY <1>2, <1>5
  <2>4. /\ stripped \in SUBSET FeatureNames /\ pending \in SUBSET FeatureNames
        /\ repo.menu \subseteq {"/notifications"}
    BY OfTheRun
  <2>5. TreeHolds(repo, relinked, "themes" \in scars, stripped, pending, Selected, T)
    BY <2>1 DEF TreeInv
  <2> HIDE DEF T, U
  <2>6. TreeHolds(repo', relinked, "themes" \in scars, stripped, pending, Selected, U)
    BY <2>2, <2>3, <2>4, <2>5, TreeKept
  <2> QED
    BY <1>2, <1>3, <2>1, <2>6 DEF TreeInv
<1> QED
  BY <1>4, <1>5

LEMMA OpensInv ==
    ASSUME TypeOK, TreeInv, Opens
    PROVE  TypeOK' /\ TreeInv'
<1>1. /\ RunTyped' /\ Working' /\ Selected' = Selected /\ run'.dry = run.dry
  BY RunOpens DEF TypeOK
<1>2. PICK keep \in Themes, other \in Themes :
         /\ keep # other /\ repo.tree \cap Themes = {keep, other}
         /\ Range(run'.todo) = WindowSteps(keep, other) \cup Range(Tail(run.todo))
  BY RunOpens DEF TypeOK
<1>3. /\ Working /\ ~run.dry /\ run.todo # << >> /\ Step.op = "themes" /\ ~Single(repo)
      /\ UNCHANGED <<repo, stripped, pending, relinked, scars>>
  BY DEF Opens, history
<1>4. TypeOK'
  BY <1>1, <1>3 DEF TypeOK
<1> DEFINE T == Range(run.todo)
           V == Range(Tail(run.todo))
           U == WindowSteps(keep, other) \cup V
<1>5. Stripping' = Selected /\ ToDo' = U /\ Stripping = Selected /\ ToDo = T
  BY <1>1, <1>2, <1>3 DEF Stripping, ToDo
<1>6. Taken(Step, Selected, T, V) /\ Ordered(Step, T, V) /\ V \in SUBSET T
  BY <1>3, StepIsTaken DEF TypeOK
<1>7. /\ stripped \in SUBSET FeatureNames /\ pending \in SUBSET FeatureNames
      /\ repo.menu \subseteq {"/notifications"} /\ repo \in Repositories
  BY OfTheRun
<1>8. TreeHolds(repo, relinked, "themes" \in scars, stripped, pending, Selected, T)
  BY <1>5 DEF TreeInv
<1> HIDE DEF T, V
<1>9. Taken(Step, Selected, T, U)
  BY <1>6 DEF Taken
<1>10. ~InWindow(T)
  BY <1>3, <1>6 DEF Ordered, ThemeWindow
<1>11. Does(Step, Selected, repo, repo)
  BY <1>3, <1>7, UnchangedTree
<1>12. TreeHolds(repo, relinked, "themes" \in scars, stripped, pending, Selected, U)
  <2> DEFINE W == U
  <2>1. W = WindowSteps(keep, other) \cup V /\ Taken(Step, Selected, T, W)
    BY <1>9
  <2> HIDE DEF W
  <2>2. TreeHolds(repo, relinked, "themes" \in scars, stripped, pending, Selected, W)
    BY <1>2, <1>3, <1>6, <1>7, <1>8, <1>10, <1>11, <2>1, TreeKeptAsWindowOpens
  <2> QED
    BY <2>2 DEF W
<1> QED
  BY <1>3, <1>4, <1>5, <1>12 DEF TreeInv

LEMMA EndsInv ==
    ASSUME TypeOK, TreeInv, Ends
    PROVE  TypeOK' /\ TreeInv'
<1>1. RunTyped' /\ Stripping' = {} /\ ToDo' = {}
  BY RunEnds DEF Ends
<1>2. Working /\ run.todo = << >> /\ UNCHANGED <<repo, scars>>
  BY DEF Ends
<1>3. CASE run.dry
  <2>1. UNCHANGED <<stripped, relinked, pending>>
    BY <1>3 DEF Ends
  <2>2. Stripping = {} /\ ToDo = {}
    BY <1>3 DEF Stripping, ToDo
  <2> QED
    BY <1>1, <1>2, <2>1, <2>2 DEF TypeOK, TreeInv
<1>4. CASE ~run.dry
  <2>1. /\ stripped' = stripped \cup Selected /\ pending' = pending \ Selected
        /\ relinked' = (("clerk" \in Selected \/ relinked) /\ "notifications" \notin Selected)
    BY <1>4 DEF Ends
  <2>2. Stripping = Selected /\ ToDo = {}
    <3>1. Range(run.todo) = {}
      BY <1>2, IdleIs
    <3> QED
      BY <1>2, <1>4, <3>1 DEF Stripping, ToDo
  <2>3. /\ stripped \in SUBSET FeatureNames /\ pending \in SUBSET FeatureNames
        /\ Selected \in SUBSET FeatureNames /\ Selected # {}
    BY <1>2, OfTheRun
  <2>4. TreeHolds(repo, relinked', "themes" \in scars, stripped \cup Selected, pending \ Selected, {}, {})
    BY <2>1, <2>2, <2>3, TreeEnds DEF TreeInv
  <2>5. TreeInv'
    BY <1>1, <1>2, <2>1, <2>4 DEF TreeInv
  <2>6. TypeOK'
    BY <1>1, <1>2, <2>1, <2>3 DEF TypeOK
  <2> QED
    BY <2>5, <2>6
<1> QED
  BY <1>3, <1>4

\* A run dies, in a window or not.
LEMMA DeathInv ==
    ASSUME TypeOK, TreeInv, Working, run.todo # << >>, ~run.dry, run' = Idle, UNCHANGED <<repo, stripped, relinked>>,
           pending' = pending \cup Selected, scars \subseteq scars',
           Step.op \in ThemeWindow /\ Cardinality(repo.tree \cap Themes) = 1 => "themes" \in scars'
    PROVE  TypeOK' /\ TreeInv'
<1>1. RunTyped' /\ Stripping' = {} /\ ToDo' = {}
  BY RunEnds
<1>2. Stripping = Selected /\ ToDo = Range(run.todo)
  BY DEF Stripping, ToDo
<1>3. /\ stripped \in SUBSET FeatureNames /\ pending \in SUBSET FeatureNames
      /\ Selected \in SUBSET FeatureNames /\ Selected # {}
  BY OfTheRun
<1>4. InWindow(Range(run.todo)) /\ Single(repo) => "themes" \in scars'
  <2> SUFFICES ASSUME InWindow(Range(run.todo)), Single(repo) PROVE "themes" \in scars'
    OBVIOUS
  <2>1. Step.op \in ThemeWindow
    BY StepIsTaken DEF TypeOK, Ordered
  <2>2. Cardinality(repo.tree \cap Themes) = 1
    BY FS_Singleton DEF Single
  <2> QED
    BY <2>1, <2>2
<1> DEFINE a == "themes" \in scars
           b == "themes" \in scars'
<1>5. (a => b) /\ (InWindow(Range(run.todo)) /\ Single(repo) => b)
  BY <1>4
<1>6. TreeHolds(repo, relinked, a, stripped, pending, Selected, Range(run.todo))
  BY <1>2 DEF TreeInv
<1> HIDE DEF a, b
<1>7. TreeHolds(repo, relinked, b, stripped, pending \cup Selected, {}, {})
  BY <1>3, <1>5, <1>6, TreeDies
<1>8. TreeInv'
  BY <1>1, <1>7 DEF TreeInv, b
<1>9. TypeOK'
  BY <1>1, <1>3 DEF TypeOK
<1> QED
  BY <1>8, <1>9

\* Every step keeps the invariant.
LEMMA NextInv ==
    ASSUME TypeOK, TreeInv, [Next]_vars
    PROVE  TypeOK' /\ TreeInv'
<1>1. CASE Runs
  <2>1. ASSUME NEW dry \in BOOLEAN, NEW features \in Named, main(features, dry, "") PROVE TypeOK' /\ TreeInv'
    BY <2>1, StartsInv
  <2>2. ASSUME NEW dry \in BOOLEAN, main(AllFeatures, dry, "vercel") PROVE TypeOK' /\ TreeInv'
    BY <2>2, StartsInv
  <2> QED
    BY <1>1, <2>1, <2>2 DEF Runs
<1>2. CASE Steps
  <2>1. Advances \/ Opens \/ BackupWritten
    BY <1>2, StepsAre, OfTheRun
  <2>2. CASE BackupWritten
    <3>1. /\ RunTyped' /\ Working' /\ Selected' = Selected /\ run'.dry = run.dry /\ run'.todo = run.todo
      BY <2>2, RunBacksUp DEF TypeOK
    <3>2. Working /\ UNCHANGED <<repo, stripped, pending, relinked, scars>>
      BY <2>2 DEF BackupWritten, history
    <3>3. Stripping' = Stripping /\ ToDo' = ToDo
      BY <3>1, <3>2 DEF Stripping, ToDo
    <3> QED
      BY <3>1, <3>2, <3>3 DEF TypeOK, TreeInv
  <2> QED
    BY <2>1, <2>2, AdvancesInv, OpensInv
<1>3. CASE Ends
  BY <1>3, EndsInv
<1>4. CASE Dies
  <2>1. /\ Working /\ run.todo # << >> /\ ~run.dry /\ run' = Idle /\ UNCHANGED <<repo, stripped, relinked>>
        /\ pending' = pending \cup Selected
        /\ scars' = scars \cup (IF Step.op \in ThemeWindow /\ Cardinality(repo.tree \cap Themes) = 1
                                THEN {"themes"} ELSE {})
    BY <1>4 DEF Dies, DiesWith, Step
  <2> QED
    BY <2>1, DeathInv
<1>5. CASE WriteFails
  <2>1. /\ Working /\ run.todo # << >> /\ Step.op = "env" /\ ~run.dry /\ run' = Idle
        /\ UNCHANGED <<repo, stripped, relinked>>
        /\ pending' = pending \cup Selected /\ scars \subseteq scars'
    BY <1>5 DEF WriteFails, DiesWith, At, Step
  <2>2. Step.op \notin ThemeWindow
    BY <2>1 DEF ThemeWindow
  <2> QED
    BY <2>1, <2>2, DeathInv
<1>6. CASE \E v \in EnvVars : SetsVariable(v)
  <2>1. UNCHANGED <<repo, run, stripped, relinked, pending, scars>>
    BY <1>6 DEF SetsVariable
  <2> QED
    BY <2>1 DEF TypeOK, TreeInv, RunTyped, Working, Selected, Stripping, ToDo
<1>7. CASE UNCHANGED vars
  BY <1>7 DEF vars, history, TypeOK, TreeInv, RunTyped, Working, Selected, Stripping, ToDo
<1> QED
  BY <1>1, <1>2, <1>3, <1>4, <1>5, <1>6, <1>7 DEF Next

\* In a quiet tree the parts of the invariant are what one run would leave.
LEMMA QuietTree ==
    ASSUME TypeOK, TreeInv
    PROVE  RunsAddUp
<1> SUFFICES ASSUME ~Working, pending = {}
             PROVE  /\ Leaves(stripped)
                    /\ Missing \subseteq IF "sentry" \in stripped THEN {"@sentry/nextjs"} ELSE {}
                    /\ "notifications" \in stripped /\ ~relinked => repo.menu = {}
                    /\ "themes" \in stripped /\ "themes" \notin scars => OneTheme
  BY DEF RunsAddUp, Quiet
<1> DEFINE S == stripped
<1>1. /\ Gone(repo, S, {}, {}, {}) /\ Packages(repo, S, {}, {}, {}) /\ Hosts(repo, {}, {}, {}) /\ Nav(repo, S, {}, {}, {})
      /\ Links(repo, S, {}, {}, {}) /\ Header(repo, S, {}, {}, {}) /\ Menu(repo, relinked, {}, {}, {})
      /\ Docs(repo, S, {}, {}, {}) /\ ThemesHold(repo, "themes" \in scars, S, {}, {})
  BY OfTheRun DEF TreeInv, TreeHolds
<1>2. repo \in Repositories /\ S \in SUBSET FeatureNames
  BY OfTheRun
<1>3. /\ repo.tree \subseteq InitialRepo.tree /\ repo.pkg \subseteq InitialRepo.pkg /\ repo.nav \subseteq InitialRepo.nav
      /\ repo.docs \subseteq InitialRepo.docs
  BY <1>2, InitialFields DEF Repositories
<1>4. /\ Paths({}) = {} /\ Urls({}) = {} /\ S \cup {} \cup {} = S /\ {} \cup {} = {}
  BY UnionsOfBoth
<1> HIDE DEF S
<1>5. repo.tree \ (Themes \cup {SelectorPath}) = Paths(DOMAIN FEATURES) \ Paths(S)
  <2>1. DOMAIN FEATURES = FeatureNames /\ Paths(FeatureNames) \cap (Themes \cup {SelectorPath}) = {}
    BY Table, PathsApart
  <2>2. Paths(FeatureNames) \ repo.tree \subseteq Paths(S) /\ repo.tree \cap Paths(S) = {}
    BY <1>1, <1>4 DEF Gone
  <2> QED
    BY <1>3, <2>1, <2>2, InitialFields
<1>6. repo.pkg = {d \in InitialRepo.pkg \ UNION {FEATURES[f].deps : f \in S} :
                     d \in CONDITIONAL_DEPS => Importers[d] \cap repo.tree # {}}
  <2>1. \A f \in S : FEATURES[f].deps \cap repo.pkg = {}
    BY <1>1 DEF Packages
  <2>2. \A d \in InitialRepo.pkg \ repo.pkg :
          \/ \E f \in S : d \in FEATURES[f].deps
          \/ d \in CONDITIONAL_DEPS /\ Importers[d] \cap repo.tree = {}
    BY <1>1, <1>4 DEF Packages
  <2>3. \A d \in repo.pkg \cap CONDITIONAL_DEPS : Importers[d] \cap repo.tree # {}
    BY <1>1, <1>4 DEF Packages
  <2> QED
    BY <1>3, <2>1, <2>2, <2>3
<1>7. repo.nav = InitialRepo.nav \ Urls(S)
  BY <1>1, <1>3, <1>4 DEF Nav
<1>8. "notifications" \notin S => repo.links \cap Urls(S) = {}
  BY <1>1, <1>4 DEF Links
<1>9. "NotificationCenter" \in repo.header <=> "notifications" \notin S
  BY <1>1, <1>4 DEF Header
<1>10. repo.docs = InitialRepo.docs \ S
  BY <1>1, <1>3, <1>4 DEF Docs
<1>11. ~repo.hosts
  BY <1>1 DEF Hosts
<1>12. Leaves(S)
  BY <1>5, <1>6, <1>7, <1>8, <1>9, <1>10, <1>11 DEF Leaves
<1>15. Missing \subseteq IF "sentry" \in S THEN {"@sentry/nextjs"} ELSE {}
  <2> SUFFICES ASSUME NEW d \in Missing PROVE d = "@sentry/nextjs" /\ "sentry" \in S
    OBVIOUS
  <2>1. /\ d \in CONDITIONAL_DEPS \cup UNION {FEATURES[f].deps : f \in FeatureNames} /\ d \notin repo.pkg
        /\ Importers[d] \cap (repo.tree \cup Remaining) # {}
    BY DEF Missing, Importers
  <2>2. CASE d \in CONDITIONAL_DEPS
    <3>1. d \in InitialRepo.pkg /\ d \notin UNION {FEATURES[f].deps : f \in S} /\ Importers[d] \cap Remaining = {}
      BY <1>2, <2>2, ConditionalOnes
    <3>2. Importers[d] \cap repo.tree = {}
      BY <1>6, <2>1, <3>1
    <3> QED
      BY <2>1, <3>1, <3>2
  <2>3. CASE d \notin CONDITIONAL_DEPS
    <3>1. PICK f \in FeatureNames : d \in FEATURES[f].deps
      BY <2>1, <2>3
    <3>2. d \in InitialRepo.pkg
      BY <2>1, <3>1, ImportedOnes
    <3>3. f \in S
      <4>1. PICK g \in S : d \in FEATURES[g].deps
        BY <1>6, <2>1, <2>3, <3>2
      <4> QED
        BY <1>2, <3>1, <4>1, Disjoint
    <3>4. Importers[d] \subseteq FEATURES[f].folders \cup FEATURES[f].files \cup Remaining
          /\ (d # "@sentry/nextjs" => Importers[d] \cap Remaining = {})
          /\ (d = "@sentry/nextjs" => f = "sentry")
      BY <3>1, ImportedOnes
    <3>5. (FEATURES[f].folders \cup FEATURES[f].files) \cap repo.tree = {}
      BY <1>1, <3>3 DEF Gone, Paths
    <3> QED
      BY <2>1, <3>3, <3>4, <3>5
  <2> QED
    BY <2>2, <2>3
<1>13. ~relinked => repo.menu = {}
  BY <1>1 DEF Menu
<1>14. "themes" \in S /\ "themes" \notin scars => OneTheme
  <2>1. ~InWindow({})
    BY DEF InWindow
  <2> QED
    BY <1>1, <2>1 DEF ThemesHold, Only, OneTheme
<1> QED
  BY <1>12, <1>13, <1>14, <1>15 DEF S

\* The tree stays one that FEATURES and the themes describe, and what is left of
\* a run is always in the order in which cleanup set it out: no step of the loop
\* after a step that relies on the loop being over, no theme window half way
\* when another step is taken.
THEOREM TypeCorrect == Spec => []TypeOK
<1>1. TypeOK /\ TreeInv /\ [Next]_vars => (TypeOK /\ TreeInv)'
  BY NextInv
<1> QED
  BY <1>1, InitInv, PTL DEF Spec

\* The tree after any number of whole and dead runs, once none of the dead ones
\* is pending, is what a single run over all their features would have left.
THEOREM RunsAddUpHolds == Spec => []RunsAddUp
<1>1. TypeOK /\ TreeInv /\ [Next]_vars => (TypeOK /\ TreeInv)'
  BY NextInv
<1>2. TypeOK /\ TreeInv => RunsAddUp
  BY QuietTree
<1> QED
  BY <1>1, <1>2, InitInv, PTL DEF Spec

-----------------------------------------------------------------------------
(* The developer's variables.                                              *)

\* Until there is a backup all of them are in .env, afterwards in the backup.
OwnInv ==
    /\ backup = NoFile => owned \subseteq env
    /\ backup # NoFile /\ "backup" \notin scars => owned \subseteq backup[1]

\* Every step keeps it: the backup is written before .env is, and only once.
LEMMA OwnNext ==
    ASSUME TypeOK, TreeInv, OwnInv, [Next]_vars
    PROVE  OwnInv'
<1>1. CASE Runs
  BY <1>1 DEF Runs, main, OwnInv
<1>2. CASE Steps
  <2>1. Advances \/ Opens \/ BackupWritten
    BY <1>2, StepsAre, OfTheRun
  <2>2. CASE Advances
    <3>1. UNCHANGED <<backup, owned, scars>>
      BY <2>2 DEF Advances, history
    <3>2. backup = NoFile => env' = env
      BY <2>2 DEF Advances
    <3> QED
      BY <3>1, <3>2 DEF OwnInv
  <2>3. CASE Opens
    BY <2>3 DEF Opens, history, OwnInv
  <2>4. CASE BackupWritten
    <3>1. UNCHANGED <<owned, scars>> /\ owned \subseteq env /\ backup' = <<env>>
      BY <2>4 DEF BackupWritten, history, OwnInv
    <3>2. <<env>>[1] = env /\ <<env>> # << >>
      OBVIOUS
    <3> QED
      BY <3>1, <3>2 DEF OwnInv, NoFile
  <2> QED
    BY <2>1, <2>2, <2>3, <2>4
<1>3. CASE Ends
  BY <1>3 DEF Ends, OwnInv
<1>4. CASE Dies
  BY <1>4 DEF Dies, DiesWith, OwnInv
<1>5. CASE WriteFails
  <2>1. CASE backup = NoFile
    <3>1. backup' = <<{}>> /\ "backup" \in scars'
      BY <1>5, <2>1 DEF WriteFails, DiesWith
    <3>2. <<{}>> # << >>
      OBVIOUS
    <3> QED
      BY <3>1, <3>2 DEF OwnInv, NoFile
  <2>2. CASE backup # NoFile
    BY <1>5, <2>2 DEF WriteFails, DiesWith, OwnInv
  <2> QED
    BY <2>1, <2>2
<1>6. CASE \E v \in EnvVars : SetsVariable(v)
  BY <1>6 DEF SetsVariable, OwnInv
<1>7. CASE UNCHANGED vars
  BY <1>7 DEF vars, history, OwnInv
<1> QED
  BY <1>1, <1>2, <1>3, <1>4, <1>5, <1>6, <1>7 DEF Next

\* A variable the developer had in .env before there was a backup is in .env or
\* in the backup, whichever runs died in between.
THEOREM OwnVariablesAreKept == Spec => []OwnVariablesSurvive
<1>1. Init => OwnInv
  BY DEF Init, OwnInv
<1>2. TypeOK /\ TreeInv /\ OwnInv /\ [Next]_vars => (TypeOK /\ TreeInv /\ OwnInv)'
  BY NextInv, OwnNext
<1>3. OwnInv => OwnVariablesSurvive
  BY DEF OwnInv, OwnVariablesSurvive
<1> QED
  BY <1>1, <1>2, <1>3, InitInv, PTL DEF Spec

-----------------------------------------------------------------------------
(* What a dry run foretells.                                               *)

\* A dry run reports what its whole program would report of the tree; a real run
\* after it has said, or has still to say, the same but for what no dry run
\* announces.
ReportInv ==
    /\ surprises \subseteq Unannounced
    /\ Working /\ run.dry =>
         run.report \cup Reported(Range(run.todo), repo, env, Selected)
           = Reported(Range(cleanup(run.features)), repo, env, Selected)
    /\ forecast # NoForecast =>
         /\ forecast.features \in Named \cup {AllFeatures}
         /\ Working => ~run.dry /\ run.features = forecast.features
         /\ IF Working
            THEN Alike(forecast.report,
                       run.report \cup Reported(Range(run.todo), repo, env, Selected))
            ELSE forecast.report = Reported(Range(cleanup(forecast.features)), repo, env,
                                            Range(forecast.features))

\* A step of a theme window reports one of the theme lines, which no other step
\* does.
LEMMA WindowsReport ==
    ASSUME NEW p \in AllSteps, NEW r, NEW e, NEW F, p.op \in ThemeWindow
    PROVE  Report(p, r, e, F) \subseteq ThemeLines
<1>1. p.op \in {"theme.css", "theme.config", "unselect", "theme", "fonts"}
  BY DEF ThemeWindow
<1>2. CASE p.op = "theme"
  <2>1. p.arg \in Themes \cup {SelectorPath}
    <3>1. p.arg \in Themes \/ p = Op("theme", SelectorPath)
      BY StepKinds
    <3>2. Op("theme", SelectorPath).arg = SelectorPath
      BY DEF Op
    <3> QED
      BY <3>1, <3>2
  <2>2. Report(p, r, e, F) = {p.arg}
    BY <1>2 DEF Report
  <2> QED
    BY <2>1, <2>2 DEF ThemeLines
<1>3. CASE p.op = "theme.css"
  BY <1>3 DEF Report, ThemeLines
<1>4. CASE p.op = "theme.config"
  BY <1>4 DEF Report, ThemeLines
<1>5. CASE p.op = "unselect"
  BY <1>5 DEF Report, Lines, ThemeLines
<1>6. CASE p.op = "fonts"
  BY <1>6 DEF Report, Lines, ThemeLines
<1> QED
  BY <1>1, <1>2, <1>3, <1>4, <1>5, <1>6

LEMMA OthersReport ==
    ASSUME NEW p \in AllSteps, NEW r \in Repositories, NEW e, NEW F, p.op \notin ThemeWindow
    PROVE  Report(p, r, e, F) \cap ThemeLines = {}
<1>1. ThemeLines = {"vercel", "zen", "themes/theme-selector", "theme.css", "theme.config.ts", "ThemeSelector",
                    "font.config.ts"}
  BY DEF ThemeLines, Themes, SelectorPath
<1>2. \A f \in FeatureNames : (FEATURES[f].folders \cup FEATURES[f].files) \cap ThemeLines = {}
  BY <1>1, Table DEF FeatureNames, Feature
<1>3. InitialRepo.pkg \cap ThemeLines = {} /\ r.pkg \subseteq InitialRepo.pkg
  BY <1>1, InitialFields DEF CONDITIONAL_DEPS, Repositories
<1>4. p.op \in LoopOps => p.arg \in FeatureNames
  BY StepKinds
<1>5. CASE p.op = "folders"
  BY <1>2, <1>4, <1>5 DEF Report, LoopOps
<1>6. CASE p.op = "files"
  BY <1>2, <1>4, <1>6 DEF Report, LoopOps
<1>7. CASE p.op \in {"deps", "conditional"}
  <2>1. Report(p, r, e, F) \subseteq r.pkg
    BY <1>7 DEF Report
  <2> QED
    BY <1>3, <2>1
<1>8. CASE p.op \in {"env", "docs"}
  <2>1. Report(p, r, e, F) \subseteq {".env", "docs of clerk", "docs of sentry"}
    BY <1>8 DEF Report, Lines, DocsLine
  <2> QED
    BY <1>1, <2>1
<1>9. CASE p.op \in {"nav", "nextconfig", "links"}
  <2>1. Report(p, r, e, F) \subseteq {"nav-config.ts", "next.config.ts", "notification-center.tsx"}
    BY <1>9 DEF Report, Lines
  <2> QED
    BY <1>1, <2>1
<1>10. CASE p.op \in {"header", "menu"}
  <2>1. Report(p, r, e, F) \subseteq {"header.tsx", "app-sidebar.tsx"}
    BY <1>10 DEF Report, Lines
  <2> QED
    BY <1>1, <2>1
<1>11. CASE p.op \in {"template", "themes"}
  BY <1>11 DEF Report
<1>12. p.op \in LoopOps \cup ClosingOps
  BY StepKinds
<1> QED
  BY <1>5, <1>6, <1>7, <1>8, <1>9, <1>10, <1>11, <1>12 DEF LoopOps, ClosingOps

\* What a step deletes of one feature's folders or files, it reports.
LEMMA DeletedIsReported ==
    ASSUME NEW o, NEW F, NEW T, NEW U, Taken(o, F, T, U), NEW r, NEW e, NEW f \in FeatureNames, NEW x \in Deletes(o)
    PROVE  /\ x \in FEATURES[f].folders \cap r.tree => x \in Report(o, r, e, F)
           /\ x \in FEATURES[f].files \cap r.tree => x \in Report(o, r, e, F)
<1>1. o.op \in LoopOps => o.arg \in FeatureNames
  BY DEF Taken
<1>2. CASE o.op = "folders"
  <2>1. Deletes(o) = FEATURES[o.arg].folders /\ Report(o, r, e, F) = FEATURES[o.arg].folders \cap r.tree
    BY <1>2 DEF Deletes, Report
  <2>2. o.arg \in FeatureNames
    BY <1>1, <1>2 DEF LoopOps
  <2> QED
    BY <2>1, <2>2, Apart
<1>3. CASE o.op = "files"
  <2>1. Deletes(o) = FEATURES[o.arg].files /\ Report(o, r, e, F) = FEATURES[o.arg].files \cap r.tree
    BY <1>3 DEF Deletes, Report
  <2>2. o.arg \in FeatureNames
    BY <1>1, <1>3 DEF LoopOps
  <2> QED
    BY <2>1, <2>2, Apart
<1>4. CASE o.op \notin {"folders", "files"}
  <2>1. x \in Themes \cup {SelectorPath}
    BY <1>4, DeletesAre
  <2> QED
    BY <2>1, Apart
<1> QED
  BY <1>2, <1>3, <1>4

\* What one step reports another neither adds to nor, unless it reports it
\* itself, takes from; of the two announced by no dry run nothing is said.
LEMMA ReportsStay ==
    ASSUME NEW o, NEW F, NEW T, NEW U, Taken(o, F, T, U), NEW r, NEW q, Does(o, F, r, q), NEW e, NEW g,
           g = IF o.op # "env" THEN e ELSE e \ FEATURES[o.arg].vars,
           NEW p \in AllSteps
    PROVE  /\ Report(p, q, g, F) \ Unannounced \subseteq Report(p, r, e, F)
           /\ Report(p, r, e, F) \ Unannounced \subseteq Report(p, q, g, F) \cup Report(o, r, e, F)
<1> DEFINE Goal == /\ Report(p, q, g, F) \ Unannounced \subseteq Report(p, r, e, F)
                   /\ Report(p, r, e, F) \ Unannounced \subseteq Report(p, q, g, F) \cup Report(o, r, e, F)
<1>1. /\ q.tree = r.tree \ Deletes(o)
      /\ q.pkg = r.pkg \ Drops(o, F, r)
      /\ q.nav = IF o.op = "nav" THEN r.nav \ Urls(F) ELSE r.nav
      /\ q.links = IF Relinks(o, F, r) THEN (r.links \ Urls(F)) \cup {"/overview"} ELSE r.links
      /\ q.header = r.header \ (IF o.op = "header" THEN {"NotificationCenter"}
                              ELSE IF o.op = "unselect" THEN {"ThemeSelector"} ELSE {})
      /\ q.docs = r.docs \ (IF o.op = "docs" THEN {o.arg} ELSE {})
  BY DEF Does
<1>2. /\ o \in AllSteps /\ F \in SUBSET FeatureNames
      /\ o.op \in LoopOps => o.arg \in FeatureNames
      /\ p.op \in LoopOps => p.arg \in FeatureNames
  BY StepKinds DEF Taken
<1>3. CASE p.op = "folders"
  <2>1. \A s, v : Report(p, s, v, F) = FEATURES[p.arg].folders \cap s.tree
    BY <1>3 DEF Report
  <2>2. p.arg \in FeatureNames
    BY <1>2, <1>3 DEF LoopOps
  <2>3. \A x \in Deletes(o) : x \in FEATURES[p.arg].folders \cap r.tree => x \in Report(o, r, e, F)
    BY <2>2, DeletedIsReported
  <2> QED
    BY <1>1, <2>1, <2>3
<1>4. CASE p.op = "files"
  <2>1. \A s, v : Report(p, s, v, F) = FEATURES[p.arg].files \cap s.tree
    BY <1>4 DEF Report
  <2>2. p.arg \in FeatureNames
    BY <1>2, <1>4 DEF LoopOps
  <2>3. \A x \in Deletes(o) : x \in FEATURES[p.arg].files \cap r.tree => x \in Report(o, r, e, F)
    BY <2>2, DeletedIsReported
  <2> QED
    BY <1>1, <2>1, <2>3
<1>5. CASE p.op = "deps"
  <2>1. \A s, v : Report(p, s, v, F) = s.pkg \cap FEATURES[p.arg].deps
    BY <1>5 DEF Report
  <2>2. p.arg \in FeatureNames
    BY <1>2, <1>5 DEF LoopOps
  <2>3. \A x \in Drops(o, F, r) : x \in r.pkg \cap FEATURES[p.arg].deps => x \in Report(o, r, e, F)
    <3>1. CASE o.op = "deps"
      <4>1. Drops(o, F, r) = FEATURES[o.arg].deps /\ Report(o, r, e, F) = r.pkg \cap FEATURES[o.arg].deps
        BY <3>1 DEF Drops, Report
      <4> QED
        BY <4>1
    <3>2. CASE o.op # "deps"
      <4>1. Drops(o, F, r) \subseteq CONDITIONAL_DEPS
        BY <3>2 DEF Drops
      <4> QED
        BY <2>2, <4>1, Apart
    <3> QED
      BY <3>1, <3>2
  <2> QED
    BY <1>1, <2>1, <2>3
<1>6. CASE p.op = "env"
  <2>1. \A s, v : Report(p, s, v, F) = Lines(FEATURES[p.arg].vars \cap v # {}, ".env")
    BY <1>6 DEF Report
  <2>2. p.arg \in FeatureNames
    BY <1>2, <1>6 DEF LoopOps
  <2>3. CASE o.op # "env"
    BY <2>1, <2>3
  <2>4. CASE o.op = "env"
    <3>1. g = e \ FEATURES[o.arg].vars /\ o.arg \in FeatureNames
      BY <1>2, <2>4 DEF LoopOps
    <3>2. Report(o, r, e, F) = Lines(FEATURES[o.arg].vars \cap e # {}, ".env")
      BY <2>4 DEF Report
    <3>3. CASE o.arg = p.arg
      BY <2>1, <3>1, <3>2, <3>3 DEF Lines
    <3>4. CASE o.arg # p.arg
      <4>1. FEATURES[p.arg].vars \cap FEATURES[o.arg].vars = {}
        BY <2>2, <3>1, <3>4, Disjoint
      <4>2. FEATURES[p.arg].vars \cap g = FEATURES[p.arg].vars \cap e
        BY <3>1, <4>1
      <4> QED
        BY <2>1, <4>2
    <3> QED
      BY <3>3, <3>4
  <2> QED
    BY <2>3, <2>4
<1>7. CASE p.op = "docs"
  <2>1. \A s, v : Report(p, s, v, F) = Lines(p.arg \in s.docs, DocsLine(p.arg))
    BY <1>7 DEF Report
  <2>2. CASE o.op = "docs" /\ o.arg = p.arg
    <3>1. Report(o, r, e, F) = Lines(o.arg \in r.docs, DocsLine(o.arg))
      BY <2>2 DEF Report
    <3>2. Report(o, r, e, F) = Report(p, r, e, F)
      BY <2>1, <2>2, <3>1
    <3>3. p.arg \in q.docs => p.arg \in r.docs
      BY <1>1
    <3>4. Report(p, q, g, F) \subseteq Report(p, r, e, F)
      BY <2>1, <3>3 DEF Lines
    <3> QED
      BY <3>2, <3>4
  <2>3. CASE ~(o.op = "docs" /\ o.arg = p.arg)
    <3>1. p.arg \in q.docs <=> p.arg \in r.docs
      BY <1>1, <2>3
    <3>2. Report(p, q, g, F) = Report(p, r, e, F)
      BY <2>1, <3>1 DEF Lines
    <3> QED
      BY <3>2
  <2> QED
    BY <2>2, <2>3
<1>8. CASE p.op = "nav"
  <2>1. \A s, v : Report(p, s, v, F) = Lines(s.nav \cap Urls(F) # {}, "nav-config.ts")
    BY <1>8 DEF Report
  <2>2. CASE o.op = "nav"
    <3>1. Report(o, r, e, F) = Lines(r.nav \cap Urls(F) # {}, "nav-config.ts")
      BY <2>2 DEF Report
    <3>2. q.nav \cap Urls(F) = {}
      BY <1>1, <2>2
    <3> QED
      BY <2>1, <3>1, <3>2 DEF Lines
  <2>3. CASE o.op # "nav"
    BY <1>1, <2>1, <2>3
  <2> QED
    BY <2>2, <2>3
<1>9. CASE p.op = "nextconfig"
  <2>1. \A s, v : Report(p, s, v, F) \subseteq Unannounced
    BY <1>9 DEF Report, Lines, Unannounced, TemplateLines
  <2> QED
    BY <2>1
<1>10. CASE p.op = "links"
  <2> DEFINE Applies(s) == /\ "notifications" \notin F
                           /\ "features/notifications" \in s.tree
                           /\ s.links \cap Urls(F) # {}
  <2>1. \A s, v : Report(p, s, v, F) = Lines(Applies(s), "notification-center.tsx")
    BY <1>10 DEF Report
  <2>2. CASE o.op = "links"
    <3>1. Report(o, r, e, F) = Lines(Applies(r), "notification-center.tsx")
      BY <2>2 DEF Report
    <3>2. Applies(q) => Applies(r)
      BY <1>1, <2>2 DEF Relinks
    <3> HIDE DEF Applies
    <3> QED
      BY <2>1, <3>1, <3>2 DEF Lines
  <2>3. CASE o.op # "links"
    <3>1. q.links = r.links
      BY <1>1, <2>3 DEF Relinks
    <3>2. "notifications" \notin F => ("features/notifications" \in q.tree <=> "features/notifications" \in r.tree)
      <4>1. "features/notifications" \notin Themes \cup {SelectorPath}
        BY DEF Themes, SelectorPath
      <4>2. "notifications" \notin F => "features/notifications" \notin Paths(F)
        BY <1>2, PathsApart
      <4> QED
        BY <1>1, <4>1, <4>2, DeletesAre
    <3>3. Applies(q) <=> Applies(r)
      BY <3>1, <3>2
    <3> HIDE DEF Applies
    <3> QED
      BY <2>1, <3>3 DEF Lines
  <2> QED
    BY <2>2, <2>3
<1>11. CASE p.op = "conditional"
  <2> DEFINE Orphan(s) == {d \in s.pkg \cap CONDITIONAL_DEPS : Importers[d] \cap (s.tree \ Paths(F)) = {}}
  <2>1. \A s, v : Report(p, s, v, F) = Orphan(s)
    BY <1>11 DEF Report
  <2>2. \A d \in CONDITIONAL_DEPS : Importers[d] \cap (q.tree \ Paths(F)) = Importers[d] \cap (r.tree \ Paths(F))
    BY <1>1, DeletesAre, ImportersAreNoThemes
  <2>3. CASE o.op = "conditional"
    <3>1. Report(o, r, e, F) = Orphan(r)
      BY <2>3 DEF Report
    <3>2. Orphan(q) \subseteq Orphan(r)
      BY <1>1, <2>2
    <3> HIDE DEF Orphan
    <3> QED
      BY <2>1, <3>1, <3>2
  <2>4. CASE o.op # "conditional"
    <3>1. Drops(o, F, r) \cap CONDITIONAL_DEPS = {}
      <4>1. CASE o.op = "deps"
        <5>1. Drops(o, F, r) = FEATURES[o.arg].deps /\ o.arg \in FeatureNames
          BY <1>2, <4>1 DEF Drops, LoopOps
        <5> QED
          BY <5>1, Apart
      <4>2. CASE o.op # "deps"
        BY <2>4, <4>2 DEF Drops
      <4> QED
        BY <4>1, <4>2
    <3>2. Orphan(q) = Orphan(r)
      BY <1>1, <2>2, <3>1
    <3> HIDE DEF Orphan
    <3> QED
      BY <2>1, <3>2
  <2> QED
    BY <2>3, <2>4
<1>12. CASE p.op = "header"
  <2>1. \A s, v : Report(p, s, v, F) = Lines("NotificationCenter" \in s.header, "header.tsx")
    BY <1>12 DEF Report
  <2>2. CASE o.op = "header"
    <3>1. Report(o, r, e, F) = Lines("NotificationCenter" \in r.header, "header.tsx")
      BY <2>2 DEF Report
    <3>2. "NotificationCenter" \notin q.header
      BY <1>1, <2>2
    <3> QED
      BY <2>1, <3>1, <3>2 DEF Lines
  <2>3. CASE o.op # "header"
    <3>1. "NotificationCenter" \in q.header <=> "NotificationCenter" \in r.header
      BY <1>1, <2>3
    <3> QED
      BY <2>1, <3>1 DEF Lines
  <2> QED
    BY <2>2, <2>3
<1>13. CASE p.op = "menu"
  <2>1. \A s, v : Report(p, s, v, F) \subseteq Unannounced
    BY <1>13 DEF Report, Lines, Unannounced, TemplateLines
  <2> QED
    BY <2>1
<1>14. CASE p.op \in ThemeWindow
  <2>1. \A s, v : Report(p, s, v, F) \subseteq ThemeLines
    BY <1>14, WindowsReport
  <2> QED
    BY <2>1 DEF Unannounced
<1>15. CASE p.op \in {"template", "themes"}
  <2>1. \A s, v : Report(p, s, v, F) = {}
    BY <1>15 DEF Report
  <2> QED
    BY <2>1
<1>16. p.op \in LoopOps \cup ClosingOps \cup ThemeWindow
  BY StepKinds
<1> HIDE DEF Goal
<1>17. CASE p.op \in LoopOps
  BY <1>3, <1>4, <1>5, <1>6, <1>7, <1>15, <1>17 DEF LoopOps, Goal
<1>18. CASE p.op \in ClosingOps
  BY <1>8, <1>9, <1>10, <1>11, <1>12, <1>13, <1>18 DEF ClosingOps, Goal
<1> QED
  BY <1>14, <1>16, <1>17, <1>18 DEF Goal

\* Membership in the reports of several steps.
LEMMA ReportedIs ==
    ASSUME NEW T, NEW r, NEW e, NEW F
    PROVE  /\ \A x : x \in Reported(T, r, e, F) <=> \E o \in T : x \in Report(o, r, e, F)
           /\ Reported({}, r, e, F) = {}
  BY DEF Reported

\* A step moves its report from what is to come to what was said.
LEMMA SaidOrToCome ==
    ASSUME NEW o, NEW T, NEW U, T = {o} \cup U, NEW r, NEW e, NEW F, NEW R
    PROVE  (R \cup Report(o, r, e, F)) \cup Reported(U, r, e, F) = R \cup Reported(T, r, e, F)
  BY ReportedIs

\* The step o of a real run over F takes the tree r to q and .env from e to g,
\* and leaves U of what T holds.
Moves(o, F, T, U, r, q, e, g) ==
    /\ Taken(o, F, T, U) /\ T = {o} \cup U /\ U \subseteq AllSteps
    /\ Does(o, F, r, q)
    /\ g = IF o.op # "env" THEN e ELSE e \ FEATURES[o.arg].vars

\* A foretold what was said, R, and what the steps T will say.
Foretold(A, R, T, r, e, F) == Alike(A, R \cup Reported(T, r, e, F))

\* A real step does not change what is yet to be reported, but for what no dry
\* run announces.
LEMMA StillForetold ==
    ASSUME NEW o, NEW F, NEW T, NEW U, NEW r, NEW q, NEW e, NEW g, Moves(o, F, T, U, r, q, e, g),
           NEW A, NEW R, Foretold(A, R, T, r, e, F)
    PROVE  Foretold(A, R \cup Report(o, r, e, F), U, q, g, F)
<1>0. /\ Taken(o, F, T, U) /\ T = {o} \cup U /\ U \subseteq AllSteps /\ Does(o, F, r, q)
      /\ g = IF o.op # "env" THEN e ELSE e \ FEATURES[o.arg].vars
      /\ Alike(A, R \cup Reported(T, r, e, F))
  BY DEF Moves, Foretold
<1> DEFINE B == R \cup Reported(T, r, e, F)
           C == (R \cup Report(o, r, e, F)) \cup Reported(U, q, g, F)
<1>1. \A p \in U : /\ Report(p, q, g, F) \ Unannounced \subseteq Report(p, r, e, F)
                   /\ Report(p, r, e, F) \ Unannounced \subseteq Report(p, q, g, F) \cup Report(o, r, e, F)
  BY <1>0, ReportsStay
<1>2. ASSUME NEW x \in B, x \notin Unannounced PROVE x \in C
  <2>1. CASE x \in R
    BY <2>1
  <2>2. CASE x \in Reported(T, r, e, F)
    <3>1. PICK p \in T : x \in Report(p, r, e, F)
      BY <2>2, ReportedIs
    <3>2. CASE p = o
      BY <3>1, <3>2
    <3>3. CASE p \in U
      <4>1. x \in Report(p, q, g, F) \cup Report(o, r, e, F)
        BY <1>1, <1>2, <3>1, <3>3
      <4> QED
        BY <3>3, <4>1, ReportedIs
    <3> QED
      BY <1>0, <3>1, <3>2, <3>3
  <2> QED
    BY <1>2, <2>1, <2>2
<1>3. ASSUME NEW x \in C, x \notin Unannounced PROVE x \in B
  <2>1. CASE x \in R
    BY <2>1
  <2>2. CASE x \in Report(o, r, e, F)
    BY <1>0, <2>2, ReportedIs
  <2>3. CASE x \in Reported(U, q, g, F)
    <3>1. PICK p \in U : x \in Report(p, q, g, F)
      BY <2>3, ReportedIs
    <3>2. x \in Report(p, r, e, F) /\ p \in T
      BY <1>0, <1>1, <1>3, <3>1
    <3> QED
      BY <3>2, ReportedIs
  <2> QED
    BY <1>3, <2>1, <2>2, <2>3
<1> HIDE DEF B, C
<1>4. B \ Unannounced = C \ Unannounced
  BY <1>2, <1>3
<1> QED
  BY <1>0, <1>4 DEF Alike, Foretold, B, C

\* The window W takes the place of the step o of T, which leaves U.
OpensOver(o, W, T, U) ==
    /\ o.op = "themes" /\ o \in T
    /\ \A p \in W : p \in AllSteps /\ p.op \in ThemeWindow
    /\ W \subseteq U /\ U \subseteq W \cup T /\ T \subseteq U \cup {o}

\* A window adds nothing to report but what no dry run announces.
LEMMA WindowsReportNothing ==
    ASSUME NEW o, NEW W, NEW T, NEW U, OpensOver(o, W, T, U)
    PROVE  \A r, e, F, A, R : Foretold(A, R, T, r, e, F) => Foretold(A, R, U, r, e, F)
<1> SUFFICES ASSUME NEW r, NEW e, NEW F, NEW A, NEW R, Foretold(A, R, T, r, e, F)
             PROVE  Foretold(A, R, U, r, e, F)
  OBVIOUS
<1>1. \A p \in W : Report(p, r, e, F) \subseteq Unannounced
  BY WindowsReport DEF OpensOver, Unannounced
<1>2. Report(o, r, e, F) = {}
  BY DEF OpensOver, Report
<1> DEFINE B == Reported(T, r, e, F)
           C == Reported(U, r, e, F)
<1>3. \A x : x \notin Unannounced => (x \in B <=> x \in C)
  <2>1. \A x : x \notin Unannounced =>
          ((\E p \in U : x \in Report(p, r, e, F)) <=> \E p \in T : x \in Report(p, r, e, F))
    BY <1>1, <1>2 DEF OpensOver
  <2> QED
    BY <2>1, ReportedIs
<1>4. Alike(A, R \cup B)
  BY DEF Foretold
<1> HIDE DEF B, C
<1>5. Alike(A, R \cup C)
  BY <1>3, <1>4 DEF Alike
<1> QED
  BY <1>5 DEF Foretold, C

\* The forecast is of the run under way, which is no dry run.
LEMMA ForecastIs ==
    ASSUME ReportInv, forecast # NoForecast
    PROVE  /\ forecast.features \in Named \cup {AllFeatures}
           /\ Working => ~run.dry /\ run.features = forecast.features
  BY DEF ReportInv

\* A run starts: all of its report is to come.
LEMMA ReportStarts ==
    ASSUME TypeOK, TreeInv, ReportInv, NEW features \in Named \cup {AllFeatures}, NEW dry \in BOOLEAN, NEW keep,
           main(features, dry, keep)
    PROVE  ReportInv'
<1>1. /\ Working' /\ Selected' = Range(features)
      /\ run'.features = features /\ run'.dry = dry /\ run'.todo = cleanup(features) /\ run'.report = {}
  BY RunStarts
<1>2. /\ ~Working /\ UNCHANGED <<repo, env, surprises>>
      /\ forecast' = IF dry \/ forecast.features # features THEN NoForecast ELSE forecast
  BY DEF main
<1>3. features # << >>
  BY CommandLines
<1>4. surprises' \subseteq Unannounced
  BY <1>2 DEF ReportInv
<1>5. Working' /\ run'.dry =>
         run'.report \cup Reported(Range(run'.todo), repo', env', Selected')
           = Reported(Range(cleanup(run'.features)), repo', env', Selected')
  BY <1>1
<1>6. ASSUME forecast' # NoForecast
      PROVE  /\ forecast'.features \in Named \cup {AllFeatures} /\ ~run'.dry /\ run'.features = forecast'.features
             /\ Alike(forecast'.report,
                      run'.report \cup Reported(Range(run'.todo), repo', env', Selected'))
  <2>1. ~dry /\ forecast.features = features /\ forecast' = forecast
    BY <1>2, <1>6
  <2>2. forecast # NoForecast
    BY <1>6, <2>1
  <2>3. forecast.report = Reported(Range(cleanup(forecast.features)), repo, env, Range(forecast.features))
    BY <1>2, <2>2 DEF ReportInv
  <2>4. forecast'.report = run'.report \cup Reported(Range(run'.todo), repo', env', Selected')
    BY <1>1, <1>2, <2>1, <2>3
  <2> QED
    BY <1>1, <2>1, <2>4 DEF Alike
<1> QED
  BY <1>1, <1>4, <1>5, <1>6 DEF ReportInv

\* A step: what it reports moves from what is to come to what was said.
LEMMA ReportAdvances ==
    ASSUME TypeOK, TreeInv, ReportInv, Advances
    PROVE  ReportInv'
<1>1. /\ Working' /\ Selected' = Selected
      /\ run'.features = run.features /\ run'.dry = run.dry /\ run'.todo = Tail(run.todo)
      /\ run'.report = IF run.dry \/ forecast # NoForecast
                       THEN run.report \cup Report(Step, repo, env, Selected) ELSE run.report
  BY RunAdvances DEF TypeOK
<1>2. /\ Working /\ run.todo # << >> /\ UNCHANGED <<forecast, surprises>>
      /\ IF run.dry THEN repo' = repo
         ELSE repo' \in Repositories /\ Does(Step, Selected, repo, repo')
      /\ env' = IF run.dry \/ Step.op # "env" THEN env ELSE env \ FEATURES[Step.arg].vars
  BY DEF Advances, history
<1> DEFINE T == Range(run.todo)
           U == Range(Tail(run.todo))
           R == run.report
           F == Selected
<1>3. /\ T = {Step} \cup U /\ U \subseteq AllSteps /\ Taken(Step, F, T, U)
  <2>1. Program(Selected, run.todo)
    BY DEF TypeOK, RunTyped
  <2>2. T = {Step} \cup U /\ T \subseteq AllSteps
    BY <1>2, <2>1, ProgramTail DEF Step
  <2> QED
    BY <1>2, <2>2, StepIsTaken DEF TypeOK
<1>4. surprises' \subseteq Unannounced
  BY <1>2 DEF ReportInv
<1>5. CASE run.dry
  <2>1. run.report \cup Reported(T, repo, env, F) = Reported(Range(cleanup(run.features)), repo, env, F)
    BY <1>2, <1>5 DEF ReportInv
  <2>2. forecast = NoForecast /\ repo' = repo /\ env' = env
    BY <1>2, <1>5, ForecastIs
  <2>3. (R \cup Report(Step, repo, env, F)) \cup Reported(U, repo, env, F) = R \cup Reported(T, repo, env, F)
    <3> HIDE DEF T, U, R, F
    <3> QED
      BY <1>3, SaidOrToCome
  <2>4. run'.report \cup Reported(Range(run'.todo), repo', env', Selected')
           = Reported(Range(cleanup(run'.features)), repo', env', Selected')
    BY <1>1, <1>5, <2>1, <2>2, <2>3
  <2> QED
    BY <1>1, <1>2, <1>4, <2>2, <2>4 DEF ReportInv
<1>6. CASE ~run.dry
  <2>1. ASSUME forecast # NoForecast
        PROVE  Alike(forecast.report, run'.report \cup Reported(Range(run'.todo), repo', env', Selected'))
    <3>1. Alike(forecast.report, R \cup Reported(T, repo, env, F))
      BY <1>2, <2>1 DEF ReportInv
    <3>2. /\ Does(Step, F, repo, repo')
          /\ env' = IF Step.op # "env" THEN env ELSE env \ FEATURES[Step.arg].vars
      BY <1>2, <1>6
    <3>3. Alike(forecast.report, (R \cup Report(Step, repo, env, F)) \cup Reported(U, repo', env', F))
      <4> DEFINE A == forecast.report
                 q == repo'
                 g == env'
                 o == Step
                 r == repo
                 e == env
      <4>1. Moves(o, F, T, U, r, q, e, g) /\ Foretold(A, R, T, r, e, F)
        BY <1>3, <3>1, <3>2 DEF Moves, Foretold
      <4> HIDE DEF T, U, R, F, A, q, g, o, r, e
      <4>2. Foretold(A, R \cup Report(o, r, e, F), U, q, g, F)
        BY <4>1, StillForetold
      <4> QED
        BY <4>2 DEF Foretold, A, q, g, o, r, e
    <3>4. run'.report = R \cup Report(Step, repo, env, F) /\ Range(run'.todo) = U /\ Selected' = F
      BY <1>1, <2>1
    <3> QED
      BY <3>3, <3>4
  <2> QED
    BY <1>1, <1>2, <1>4, <1>6, <2>1, ForecastIs DEF ReportInv
<1> QED
  BY <1>5, <1>6

\* A window has nothing to report that a dry run should have.
LEMMA ReportOpens ==
    ASSUME TypeOK, TreeInv, ReportInv, Opens
    PROVE  ReportInv'
<1>1. /\ Working' /\ Selected' = Selected
      /\ run'.features = run.features /\ run'.dry = run.dry /\ run'.report = run.report
  BY RunOpens DEF TypeOK
<1>2. PICK keep \in Themes, other \in Themes :
         Range(run'.todo) = WindowSteps(keep, other) \cup Range(Tail(run.todo))
  BY RunOpens DEF TypeOK
<1>3. /\ Working /\ ~run.dry /\ run.todo # << >> /\ Step.op = "themes"
      /\ UNCHANGED <<repo, env, forecast, surprises>>
  BY DEF Opens, history
<1>4. Range(run.todo) = {Step} \cup Range(Tail(run.todo))
  BY <1>3, ProgramTail DEF TypeOK, RunTyped, Step
<1>5. \A A, R : Foretold(A, R, Range(run.todo), repo, env, Selected)
                  => Foretold(A, R, Range(run'.todo), repo, env, Selected)
  <2> DEFINE V == Range(Tail(run.todo))
             W == WindowSteps(keep, other)
             T == Range(run.todo)
             U == Range(run'.todo)
             o == Step
  <2>1. /\ \A p \in W : p \in AllSteps /\ p.op \in ThemeWindow
        /\ o.op = "themes" /\ T = {o} \cup V /\ U = W \cup V
    BY <1>2, <1>3, <1>4, WindowsAre
  <2>2. OpensOver(o, W, T, U)
    <3> HIDE DEF V, W, T, U, o
    <3> QED
      BY <2>1 DEF OpensOver
  <2> HIDE DEF V, W, T, U, o
  <2>3. \A r, e, F, A, R : Foretold(A, R, T, r, e, F) => Foretold(A, R, U, r, e, F)
    BY <2>2, WindowsReportNothing
  <2> QED
    BY <2>3 DEF T, U
<1>6. ASSUME forecast # NoForecast
      PROVE  Alike(forecast'.report, run'.report \cup Reported(Range(run'.todo), repo', env', Selected'))
  <2>1. Foretold(forecast.report, run.report, Range(run.todo), repo, env, Selected)
    BY <1>3, <1>6 DEF ReportInv, Foretold
  <2>2. Foretold(forecast.report, run.report, Range(run'.todo), repo, env, Selected)
    BY <1>5, <2>1
  <2> QED
    BY <1>1, <1>3, <2>2 DEF Foretold
<1>7. surprises' \subseteq Unannounced
  BY <1>3 DEF ReportInv
<1> QED
  BY <1>1, <1>3, <1>6, <1>7, ForecastIs DEF ReportInv

\* A run ends: nothing is to come, and what was said is compared.
LEMMA ReportEnds ==
    ASSUME TypeOK, TreeInv, ReportInv, Ends
    PROVE  ReportInv'
<1>1. ~Working' /\ Working /\ run.todo = << >> /\ UNCHANGED <<repo, env>>
  BY RunEnds DEF Ends
<1>2. Range(run.todo) = {} /\ Reported({}, repo, env, Selected) = {}
  BY <1>1, IdleIs, ReportedIs
<1>3. run.features \in Named \cup {AllFeatures} /\ run.features # << >> /\ Selected = Range(run.features)
  BY <1>1, OfTheRun DEF Working
<1>4. CASE run.dry
  <2>1. forecast' = [features |-> run.features, report |-> run.report] /\ surprises' = surprises
    BY <1>4 DEF Ends
  <2>2. forecast'.features = run.features /\ forecast'.report = run.report
    BY <2>1
  <2>3. run.report = Reported(Range(cleanup(run.features)), repo, env, Selected)
    BY <1>1, <1>2, <1>4 DEF ReportInv
  <2>4. forecast'.report = Reported(Range(cleanup(forecast'.features)), repo', env', Range(forecast'.features))
    BY <1>1, <1>3, <2>2, <2>3
  <2>5. surprises' \subseteq Unannounced
    BY <2>1 DEF ReportInv
  <2> QED
    BY <1>1, <1>3, <2>2, <2>4, <2>5 DEF ReportInv
<1>5. CASE ~run.dry
  <2>1. /\ forecast' = NoForecast
        /\ surprises' = IF forecast.features # run.features THEN surprises
                        ELSE surprises \cup (run.report \ forecast.report) \cup (forecast.report \ run.report)
    BY <1>5 DEF Ends
  <2>2. surprises \subseteq Unannounced
    BY DEF ReportInv
  <2>3. surprises' \subseteq Unannounced
    <3>1. CASE forecast.features # run.features
      BY <2>1, <2>2, <3>1
    <3>2. CASE forecast.features = run.features
      <4>1. forecast # NoForecast
        BY <1>3, <3>2 DEF NoForecast
      <4>2. Alike(forecast.report, run.report)
        BY <1>1, <1>2, <4>1 DEF ReportInv
      <4> QED
        BY <2>1, <2>2, <3>2, <4>2 DEF Alike
    <3> QED
      BY <3>1, <3>2
  <2> QED
    BY <1>1, <2>1, <2>3 DEF ReportInv
<1> QED
  BY <1>4, <1>5

\* Every step keeps the reports.
LEMMA ReportNext ==
    ASSUME TypeOK, TreeInv, ReportInv, [Next]_vars
    PROVE  ReportInv'
<1>1. CASE Runs
  <2>1. ASSUME NEW dry \in BOOLEAN, NEW features \in Named, main(features, dry, "") PROVE ReportInv'
    BY <2>1, ReportStarts
  <2>2. ASSUME NEW dry \in BOOLEAN, main(AllFeatures, dry, "vercel") PROVE ReportInv'
    BY <2>2, ReportStarts
  <2> QED
    BY <1>1, <2>1, <2>2 DEF Runs
<1>2. CASE Steps
  <2>1. Advances \/ Opens \/ BackupWritten
    BY <1>2, StepsAre, OfTheRun
  <2>2. CASE BackupWritten
    <3>1. /\ Working /\ ~run.dry /\ UNCHANGED <<repo, env, forecast, surprises>>
      BY <2>2 DEF BackupWritten, history
    <3>2. /\ Working' /\ Selected' = Selected /\ run'.dry = run.dry /\ run'.todo = run.todo
          /\ run'.features = run.features
          /\ run'.report = IF run.dry \/ forecast # NoForecast THEN run.report \cup {BackupLine} ELSE run.report
      BY <2>2, RunBacksUp DEF TypeOK
    <3>3. ASSUME forecast # NoForecast
          PROVE  Alike(forecast'.report, run'.report \cup Reported(Range(run'.todo), repo', env', Selected'))
      <4>1. Alike(forecast.report, run.report \cup Reported(Range(run.todo), repo, env, Selected))
        BY <3>1, <3>3 DEF ReportInv
      <4>2. run'.report = run.report \cup {BackupLine} /\ BackupLine \in Unannounced
        BY <3>2, <3>3 DEF Unannounced
      <4> DEFINE Q == Reported(Range(run.todo), repo, env, Selected)
      <4>3. Reported(Range(run'.todo), repo', env', Selected') = Q
        BY <3>1, <3>2
      <4> HIDE DEF Q
      <4> QED
        BY <3>1, <4>1, <4>2, <4>3 DEF Alike, Q
    <3>4. surprises' \subseteq Unannounced
      BY <3>1 DEF ReportInv
    <3> QED
      BY <3>1, <3>2, <3>3, <3>4, ForecastIs DEF ReportInv
  <2> QED
    BY <2>1, <2>2, ReportAdvances, ReportOpens
<1>3. CASE Ends
  BY <1>3, ReportEnds
<1>4. CASE Dies
  <2>1. run' = Idle /\ forecast' = NoForecast /\ surprises' = surprises
    BY <1>4 DEF Dies, DiesWith
  <2> QED
    BY <2>1, RunEnds DEF ReportInv
<1>5. CASE WriteFails
  <2>1. run' = Idle /\ forecast' = NoForecast /\ surprises' = surprises
    BY <1>5 DEF WriteFails, DiesWith
  <2> QED
    BY <2>1, RunEnds DEF ReportInv
<1>6. CASE \E v \in EnvVars : SetsVariable(v)
  <2>1. ~Working /\ run' = run /\ forecast' = NoForecast /\ surprises' = surprises
    BY <1>6 DEF SetsVariable
  <2>2. ~Working'
    BY <2>1 DEF Working
  <2> QED
    BY <2>1, <2>2 DEF ReportInv
<1>7. CASE UNCHANGED vars
  BY <1>7 DEF vars, history, ReportInv, Working, Selected
<1> QED
  BY <1>1, <1>2, <1>3, <1>4, <1>5, <1>6, <1>7 DEF Next

\* Theme lines are said only by runs that strip the themes.
ThemeInv ==
    /\ run.report \cap ThemeLines # {} => "themes" \in Selected
    /\ forecast.report \cap ThemeLines # {} => "themes" \in Range(forecast.features)
    /\ surprises \cap ThemeLines # {} => "themes" \in stripped

LEMMA ThemeNext ==
    ASSUME TypeOK, TreeInv, ThemeInv, [Next]_vars
    PROVE  ThemeInv'
<1>0. NoForecast.report = {} /\ NoForecast.features = << >>
  BY DEF NoForecast
<1>1. CASE Runs
  <2>1. PICK dry \in BOOLEAN, features \in Named \cup {AllFeatures}, keep \in {"", "vercel"} :
          main(features, dry, keep)
    BY <1>1 DEF Runs
  <2>2. run'.report = {}
    BY <2>1, RunStarts
  <2>3. forecast' \in {NoForecast, forecast} /\ UNCHANGED <<surprises, stripped>>
    BY <2>1 DEF main
  <2> QED
    BY <1>0, <2>2, <2>3 DEF ThemeInv
<1>2. CASE Steps
  <2>1. Advances \/ Opens \/ BackupWritten
    BY <1>2, StepsAre, OfTheRun
  <2>2. CASE Advances
    <3>1. /\ Selected' = Selected /\ Working /\ run.todo # << >>
          /\ run'.report \subseteq run.report \cup Report(Step, repo, env, Selected)
          /\ UNCHANGED <<forecast, surprises, stripped>>
      BY <2>2, RunAdvances DEF TypeOK, Advances, history
    <3>2. Step \in AllSteps /\ (Step.op \in ThemeWindow => "themes" \in Selected)
      BY <3>1, ProgramTail DEF TypeOK, RunTyped, Step
    <3>3. Step.op \notin ThemeWindow => Report(Step, repo, env, Selected) \cap ThemeLines = {}
      BY <3>2, OthersReport DEF TypeOK
    <3> QED
      BY <3>1, <3>2, <3>3 DEF ThemeInv
  <2>3. CASE Opens
    <3>1. run'.report = run.report /\ Selected' = Selected /\ UNCHANGED <<forecast, surprises, stripped>>
      BY <2>3, RunOpens DEF TypeOK, Opens, history
    <3> QED
      BY <3>1 DEF ThemeInv
  <2>4. CASE BackupWritten
    <3>1. /\ run'.report \subseteq run.report \cup {BackupLine} /\ Selected' = Selected
          /\ UNCHANGED <<forecast, surprises, stripped>>
      BY <2>4, RunBacksUp DEF TypeOK, BackupWritten, history
    <3>2. BackupLine \notin ThemeLines
      BY DEF BackupLine, ThemeLines, Themes, SelectorPath
    <3> QED
      BY <3>1, <3>2 DEF ThemeInv
  <2> QED
    BY <2>1, <2>2, <2>3, <2>4
<1>3. CASE Ends
  <2>1. run'.report = {}
    BY <1>3, IdleIs DEF Ends
  <2>2. CASE run.dry
    <3>1. forecast' = [features |-> run.features, report |-> run.report] /\ UNCHANGED <<surprises, stripped>>
      BY <1>3, <2>2 DEF Ends
    <3> QED
      BY <2>1, <3>1 DEF ThemeInv, Selected
  <2>3. CASE ~run.dry
    <3>1. /\ forecast' = NoForecast /\ stripped' = stripped \cup Selected
          /\ surprises' = IF forecast.features # run.features THEN surprises
                          ELSE surprises \cup (run.report \ forecast.report) \cup (forecast.report \ run.report)
      BY <1>3, <2>3 DEF Ends
    <3> QED
      BY <1>0, <2>1, <3>1 DEF ThemeInv, Selected
  <2> QED
    BY <2>2, <2>3
<1>4. CASE Dies \/ WriteFails
  <2>1. run' = Idle /\ forecast' = NoForecast /\ UNCHANGED <<surprises, stripped>>
    BY <1>4 DEF Dies, WriteFails, DiesWith
  <2> QED
    BY <1>0, <2>1, IdleIs DEF ThemeInv
<1>5. CASE \E v \in EnvVars : SetsVariable(v)
  <2>1. run' = run /\ forecast' = NoForecast /\ UNCHANGED <<surprises, stripped>>
    BY <1>5 DEF SetsVariable
  <2> QED
    BY <1>0, <2>1 DEF ThemeInv, Selected
<1>6. CASE UNCHANGED vars
  BY <1>6 DEF vars, history, ThemeInv, Selected
<1> QED
  BY <1>1, <1>2, <1>3, <1>4, <1>5, <1>6 DEF Next

\* A real run reports nothing, and leaves out nothing, that the dry run of the
\* same command line just before it had not said, other than the backup of .env,
\* next.config.ts and app-sidebar.tsx, and what is done for the themes by a run that
\* strips them.
THEOREM DryRunsForetell == Spec => []DryRunForetells
<1>1. Init => ReportInv /\ ThemeInv
  <2> SUFFICES ASSUME Init PROVE ReportInv /\ ThemeInv
    OBVIOUS
  <2>1. ~Working /\ forecast = NoForecast /\ surprises = {} /\ run.report = {}
    BY IdleIs DEF Init, Working
  <2> QED
    BY <2>1 DEF ReportInv, ThemeInv, NoForecast
<1>2. TypeOK /\ TreeInv /\ ReportInv /\ ThemeInv /\ [Next]_vars
        => (TypeOK /\ TreeInv /\ ReportInv /\ ThemeInv)'
  BY NextInv, ReportNext, ThemeNext
<1>3. ReportInv /\ ThemeInv => DryRunForetells
  BY DEF ReportInv, ThemeInv, DryRunForetells, Unannounced
<1> QED
  BY <1>1, <1>2, <1>3, InitInv, PTL DEF Spec

=============================================================================
