----------------------------- MODULE SiteProofs -----------------------------
(***************************************************************************)
(* Theorems about how the pages of a company site are fetched (RouteFetch, *)
(* HostMemory, Antibot), for any hosts, urls, proxies, responses of the    *)
(* sites and settings of the fetcher; and about the sites of a company     *)
(* (CompanySites, SiteCrawl, SiteDocuments, ContentReview): what is taken  *)
(* from a site follows the verdict over it, and the questions to the       *)
(* language model keep to their budget, for any claims, pages and answers. *)
(***************************************************************************)
EXTENDS RouteFetch, CompanySites, FiniteSetTheorems, SequenceTheorems, WellFoundedInduction,
        NaturalsInduction, FunctionTheorems, TLAPS

\* A set of numbers that is not empty has a least one.
LEMMA LeastExists ==
  ASSUME NEW S, S \subseteq Nat, S # {}
  PROVE  \E x \in S : \A y \in S : x <= y
<1>1. PICK x \in S : \A y \in S : <<y, x>> \notin OpToRel(<, Nat)
  BY NatLessThanWellFounded, WFMin
<1>2. \A y \in S : x <= y
  <2> SUFFICES ASSUME NEW y \in S PROVE x <= y
    OBVIOUS
  <2>1. ~(y < x) /\ x \in Nat /\ y \in Nat
    BY <1>1 DEF OpToRel
  <2> QED
    BY <2>1
<1> QED
  BY <1>2

\* f is the history of a breaker that begins as b and meets the attempts s.
IsTaught(f, b, s) ==
  f = [n \in 0..Len(s) |-> IF n = 0 THEN b ELSE Taught(f[n - 1], s[n])]

\* There is such a history.
LEMMA TaughtExists ==
  ASSUME NEW b, NEW s, Len(s) \in Nat
  PROVE  \E f : IsTaught(f, b, s)
<1> DEFINE Upto(N) == \E f : f = [n \in 0..N |-> IF n = 0 THEN b ELSE Taught(f[n - 1], s[n])]
           Bad == {N \in Nat : ~Upto(N)}
<1>1. Bad = {}
  <2> SUFFICES ASSUME Bad # {} PROVE FALSE
    OBVIOUS
  <2>1. PICK N \in Bad : \A M \in Bad : N <= M
    <3>1. Bad \subseteq Nat
      OBVIOUS
    <3> HIDE DEF Bad
    <3> QED
      BY <3>1, LeastExists
  <2>2. \A M \in Nat : M < N => Upto(M)
    <3> SUFFICES ASSUME NEW M \in Nat, M < N, ~Upto(M) PROVE FALSE
      OBVIOUS
    <3>1. M \in Bad
      OBVIOUS
    <3>2. N <= M /\ N \in Nat
      BY <2>1, <3>1
    <3> QED
      BY <3>2
  <2>3. CASE N = 0
    <3> DEFINE g == [n \in 0..0 |-> b]
    <3>1. g = [n \in 0..0 |-> IF n = 0 THEN b ELSE Taught(g[n - 1], s[n])]
      OBVIOUS
    <3> QED
      BY <2>3, <3>1
  <2>4. CASE N # 0
    <3>1. N \in Nat /\ N - 1 \in Nat
      BY <2>4
    <3>2. PICK f : f = [n \in 0..(N - 1) |-> IF n = 0 THEN b ELSE Taught(f[n - 1], s[n])]
      BY <2>2, <3>1
    <3> DEFINE g == [n \in 0..N |-> IF n = N THEN Taught(f[N - 1], s[N]) ELSE f[n]]
    <3>3. \A n \in 0..(N - 1) : g[n] = f[n]
      BY <3>1
    <3>4. \A n \in 0..N : g[n] = IF n = 0 THEN b ELSE Taught(g[n - 1], s[n])
      <4> SUFFICES ASSUME NEW n \in 0..N
                   PROVE  g[n] = IF n = 0 THEN b ELSE Taught(g[n - 1], s[n])
        OBVIOUS
      <4>1. CASE n = N
        <5>1. g[n] = Taught(f[N - 1], s[N])
          BY <4>1, <3>1
        <5>2. g[n - 1] = f[N - 1]
          BY <4>1, <3>1, <3>3
        <5> HIDE DEF g
        <5> QED
          BY <5>1, <5>2, <4>1, <2>4
      <4>2. CASE n \in 0..(N - 1)
        <5>1. g[n] = f[n]
          BY <4>2, <3>3
        <5>2. n # 0 => g[n - 1] = f[n - 1]
          BY <4>2, <3>3
        <5>3. f[n] = IF n = 0 THEN b ELSE Taught(f[n - 1], s[n])
          BY <3>2, <4>2
        <5> HIDE DEF g
        <5> QED
          BY <5>1, <5>2, <5>3
      <4> QED
        BY <4>1, <4>2, <3>1
    <3>5. DOMAIN g = 0..N
      OBVIOUS
    <3>6. g = [n \in 0..N |-> IF n = 0 THEN b ELSE Taught(g[n - 1], s[n])]
      <4> HIDE DEF g
      <4>1. g = [n \in 0..N |-> g[n]]
        BY <3>5 DEF g
      <4> QED
        BY <3>4, <4>1
    <3> QED
      BY <3>6
  <2> QED
    BY <2>3, <2>4
<1>2. Upto(Len(s))
  BY <1>1
<1> QED
  BY <1>2 DEF IsTaught

\* What is learned from the attempts of a memory is the end of such a history.
LEMMA BootstrapIs ==
  ASSUME NEW b, NEW s, Len(s) \in Nat
  PROVE  \E f : IsTaught(f, b, s) /\ (~b.touched => Bootstrap(b, s) = f[Len(s)])
<1> DEFINE after[n \in 0..Len(s)] == IF n = 0 THEN b ELSE Taught(after[n - 1], s[n])
<1>1. after = CHOOSE f : f = [n \in 0..Len(s) |-> IF n = 0 THEN b ELSE Taught(f[n - 1], s[n])]
  OBVIOUS
<1>2. ~b.touched => Bootstrap(b, s) = after[Len(s)]
  BY DEF Bootstrap
<1> HIDE DEF after
<1>3. IsTaught(after, b, s)
  BY <1>1, TaughtExists DEF IsTaught
<1> QED
  BY <1>2, <1>3

----------------------------------------------------------------------------
(* The breaker of a domain *)

Classes == Counters \cup {"SUCCESS", "AUTH_REQUIRED"}

\* b is at least as cautious as a.
AsCautious(a, b) ==
  /\ Rank[a.mode] <= Rank[b.mode]
  /\ \A c \in Counters : a.count[c] <= b.count[c]

\* The modes of a breaker are ranked.
LEMMA RankType == \A m \in DOMAIN Rank : Rank[m] \in 0..3
BY DEF Rank

\* The breaker a domain begins with.
LEMMA PristineType == Pristine \in BreakerType
BY DEF Pristine, BreakerType, Rank

\* The least of two numbers.
LEMMA MinOfTwo ==
  ASSUME NEW x \in Int, NEW y \in Int
  PROVE  Min({x, y}) = IF x <= y THEN x ELSE y
<1>1. \E z \in {x, y} : \A w \in {x, y} : z <= w
  OBVIOUS
<1>2. Min({x, y}) \in {x, y} /\ \A w \in {x, y} : Min({x, y}) <= w
  BY <1>1 DEF Min
<1> QED
  BY <1>2

\* A counter that grows does not lower the mode it asks for.
LEMMA TargetGrows ==
  ASSUME NEW c \in Counters, NEW n \in Nat \ {0}, NEW m \in Nat \ {0}, n <= m
  PROVE  /\ TargetMode(c, n) \in DOMAIN Rank /\ TargetMode(c, m) \in DOMAIN Rank
         /\ Rank[TargetMode(c, n)] <= Rank[TargetMode(c, m)]
<1>1. /\ Min({n, 3}) = (IF n <= 3 THEN n ELSE 3) /\ Min({m, 3}) = (IF m <= 3 THEN m ELSE 3)
      /\ Min({n, 2}) = (IF n <= 2 THEN n ELSE 2) /\ Min({m, 2}) = (IF m <= 2 THEN m ELSE 2)
  BY MinOfTwo
<1>2. CASE c = "HARD_BAN"
  BY <1>1, <1>2 DEF TargetMode, Rank
<1>3. CASE c = "CHALLENGE_LOOP"
  BY <1>1, <1>3 DEF TargetMode, Rank
<1>4. CASE c \notin {"HARD_BAN", "CHALLENGE_LOOP"}
  BY <1>1, <1>4 DEF TargetMode, Rank
<1> QED
  BY <1>2, <1>3, <1>4

\* The cooldown an attempt recommends is a number of seconds.
LEMMA RecommendedType ==
  ASSUME NEW class, NEW gate \in BOOLEAN, NEW n \in Nat \ {0}
  PROVE  Recommended(class, gate, n) \in Nat
<1>1. Min({n, 4}) \in 1..4
  <2>1. Min({n, 4}) = IF n <= 4 THEN n ELSE 4
    BY MinOfTwo
  <2> QED
    BY <2>1
<1>2. \A k \in 1..4 : <<1, 2, 4, 8>>[k] \in Nat
  OBVIOUS
<1>3. \A x \in Nat : Doubled(x, n) \in Nat
  <2> SUFFICES ASSUME NEW x \in Nat PROVE Doubled(x, n) \in Nat
    OBVIOUS
  <2>1. <<1, 2, 4, 8>>[Min({n, 4})] \in Nat
    BY <1>1, <1>2
  <2> QED
    BY <2>1 DEF Doubled
<1>4. /\ \A c \in {"RATE_LIMIT", "CHALLENGE_LOOP", "HARD_BAN", "SHADOW_THROTTLE"} :
            Cooldowns[c] \in Nat
      /\ Cooldowns.gate \in Nat
  BY AntibotAssumption
<1>5. \A x \in Nat : x * n \in Nat
  OBVIOUS
<1> QED
  BY <1>3, <1>4, <1>5 DEF Recommended

\* The greatest of two numbers.
LEMMA MaxOfTwo ==
  ASSUME NEW x \in Int, NEW y \in Int
  PROVE  Max({x, y}) = IF x >= y THEN x ELSE y
<1>1. \E z \in {x, y} : \A w \in {x, y} : z >= w
  OBVIOUS
<1>2. Max({x, y}) \in {x, y} /\ \A w \in {x, y} : Max({x, y}) >= w
  BY <1>1 DEF Max
<1> QED
  BY <1>2

\* An attempt leaves a breaker, and one that was used.
LEMMA ApplyType ==
  ASSUME NEW b \in BreakerType, NEW class \in Classes, NEW gate \in BOOLEAN,
         NEW at \in Nat, NEW secs \in Nat \cup {NotRecorded}
  PROVE  /\ ApplyDecision(b, class, gate, at, secs) \in BreakerType
         /\ ApplyDecision(b, class, gate, at, secs).touched
<1>1. CASE class = "SUCCESS"
  BY <1>1, PristineType DEF ApplyDecision, BreakerType, Pristine
<1>2. CASE class # "SUCCESS"
  <2> DEFINE c == CounterOf(class)
             n == b.count[c] + 1
             wait == IF secs = NotRecorded THEN Recommended(class, gate, n) ELSE secs
  <2>1. c \in Counters
    BY <1>2 DEF CounterOf, Classes, Counters
  <2>2. /\ n \in Nat \ {0} /\ b.mode \in DOMAIN Rank /\ b.until \in Nat
        /\ b.count \in [Counters -> Nat]
    BY <2>1 DEF BreakerType
  <2>3. wait \in Nat
    <3>1. Recommended(class, gate, n) \in Nat
      BY <2>2, RecommendedType
    <3> QED
      BY <3>1
  <2>4. TargetMode(c, n) \in DOMAIN Rank
    BY <2>1, <2>2, TargetGrows
  <2>5. Max({b.until, at + wait}) \in Nat
    <3> HIDE DEF wait
    <3>1. b.until \in Nat /\ at + wait \in Nat
      BY <2>2, <2>3
    <3>2. Max({b.until, at + wait}) = IF b.until >= at + wait THEN b.until ELSE at + wait
      BY <3>1, MaxOfTwo
    <3> QED
      BY <3>1, <3>2
  <2>6. ApplyDecision(b, class, gate, at, secs) =
          [mode |-> IF Rank[TargetMode(c, n)] > Rank[b.mode] THEN TargetMode(c, n) ELSE b.mode,
           count |-> [b.count EXCEPT ![c] = n],
           until |-> IF wait > 0 THEN Max({b.until, at + wait}) ELSE b.until,
           touched |-> TRUE]
    BY <1>2 DEF ApplyDecision
  <2> HIDE DEF c, n, wait
  <2>7. [b.count EXCEPT ![c] = n] \in [Counters -> Nat]
    BY <2>1, <2>2
  <2> QED
    BY <2>2, <2>3, <2>4, <2>5, <2>6, <2>7 DEF BreakerType
<1> QED
  BY <1>1, <1>2

\* An attempt keeps the order of two breakers, whatever its times.
LEMMA ApplyKeepsOrder ==
  ASSUME NEW a \in BreakerType, NEW b \in BreakerType, AsCautious(a, b),
         NEW class \in Classes, NEW g1, NEW t1, NEW s1, NEW g2, NEW t2, NEW s2
  PROVE  AsCautious(ApplyDecision(a, class, g1, t1, s1), ApplyDecision(b, class, g2, t2, s2))
<1>1. CASE class = "SUCCESS"
  BY <1>1 DEF ApplyDecision, AsCautious, Pristine, Rank
<1>2. CASE class # "SUCCESS"
  <2> DEFINE c == CounterOf(class)
             n == a.count[c] + 1
             m == b.count[c] + 1
             A == ApplyDecision(a, class, g1, t1, s1)
             B == ApplyDecision(b, class, g2, t2, s2)
  <2>1. c \in Counters
    BY <1>2 DEF CounterOf, Classes, Counters
  <2>2. /\ n \in Nat \ {0} /\ m \in Nat \ {0} /\ n <= m
        /\ a.mode \in DOMAIN Rank /\ b.mode \in DOMAIN Rank
        /\ a.count \in [Counters -> Nat] /\ b.count \in [Counters -> Nat]
    BY <2>1 DEF BreakerType, AsCautious
  <2>3. /\ A.mode = (IF Rank[TargetMode(c, n)] > Rank[a.mode] THEN TargetMode(c, n) ELSE a.mode)
        /\ A.count = [a.count EXCEPT ![c] = n]
        /\ B.mode = (IF Rank[TargetMode(c, m)] > Rank[b.mode] THEN TargetMode(c, m) ELSE b.mode)
        /\ B.count = [b.count EXCEPT ![c] = m]
    BY <1>2 DEF ApplyDecision
  <2>4. /\ TargetMode(c, n) \in DOMAIN Rank /\ TargetMode(c, m) \in DOMAIN Rank
        /\ Rank[TargetMode(c, n)] <= Rank[TargetMode(c, m)]
    BY <2>1, <2>2, TargetGrows
  <2> HIDE DEF c, n, m, A, B
  <2>5. Rank[A.mode] <= Rank[B.mode]
    <3>1. /\ Rank[TargetMode(c, n)] \in Int /\ Rank[TargetMode(c, m)] \in Int
          /\ Rank[a.mode] \in Int /\ Rank[b.mode] \in Int
      BY <2>2, <2>4, RankType
    <3>2. Rank[a.mode] <= Rank[b.mode]
      BY DEF AsCautious
    <3> QED
      BY <2>3, <2>4, <3>1, <3>2
  <2>6. \A k \in Counters : A.count[k] <= B.count[k]
    BY <2>1, <2>2, <2>3 DEF AsCautious
  <2> QED
    BY <2>5, <2>6 DEF AsCautious, A, B
<1> QED
  BY <1>1, <1>2

\* Only a success makes a breaker less cautious.
LEMMA ApplyRaises ==
  ASSUME NEW b \in BreakerType, NEW class \in Classes, class # "SUCCESS", NEW g, NEW t, NEW s
  PROVE  AsCautious(b, ApplyDecision(b, class, g, t, s))
<1> DEFINE c == CounterOf(class)
           n == b.count[c] + 1
           B == ApplyDecision(b, class, g, t, s)
<1>1. c \in Counters
  BY DEF CounterOf, Classes, Counters
<1>2. n \in Nat \ {0} /\ b.mode \in DOMAIN Rank /\ b.count \in [Counters -> Nat]
  BY <1>1 DEF BreakerType
<1>3. /\ B.mode = (IF Rank[TargetMode(c, n)] > Rank[b.mode] THEN TargetMode(c, n) ELSE b.mode)
      /\ B.count = [b.count EXCEPT ![c] = n]
  BY DEF ApplyDecision
<1>4. TargetMode(c, n) \in DOMAIN Rank
  BY <1>1, <1>2, TargetGrows
<1>5. n = b.count[c] + 1
  OBVIOUS
<1> HIDE DEF c, n, B
<1>6. Rank[b.mode] <= Rank[B.mode]
  BY <1>2, <1>3, <1>4, RankType
<1>7. \A k \in Counters : b.count[k] <= B.count[k]
  BY <1>1, <1>2, <1>3, <1>5
<1> QED
  BY <1>6, <1>7 DEF AsCautious, B

\* An attempt the memory keeps.
Kept == [contour : Contours, class : Classes \cup {"none"}, gate : BOOLEAN, ts : Nat, until : Nat,
         verdict : Verdicts]

\* So does an attempt that is read back.
LEMMA TaughtType ==
  ASSUME NEW b \in BreakerType, NEW e \in Kept
  PROVE  Taught(b, e) \in BreakerType
<1> DEFINE secs == IF e.until > e.ts THEN e.until - e.ts ELSE NotRecorded
<1>1. /\ secs \in Nat \cup {NotRecorded} /\ e.gate \in BOOLEAN /\ e.ts \in Nat
      /\ e.class \in Classes \/ e.class = "none"
  BY DEF Kept
<1>2. Taught(b, e) = IF e.class = "none" THEN b ELSE ApplyDecision(b, e.class, e.gate, e.ts, secs)
  BY DEF Taught
<1> HIDE DEF secs
<1> QED
  BY <1>1, <1>2, ApplyType

\* An attempt that is read back and was no success keeps what is more cautious so.
LEMMA TaughtKeepsOrder ==
  ASSUME NEW a \in BreakerType, NEW b \in BreakerType, AsCautious(a, b), NEW e \in Kept,
         e.class # "SUCCESS"
  PROVE  AsCautious(a, Taught(b, e))
<1>1. CASE e.class = "none"
  BY <1>1 DEF Taught
<1>2. CASE e.class # "none"
  <2>1. e.class \in Classes
    BY <1>2 DEF Kept
  <2>2. AsCautious(b, Taught(b, e))
    BY <2>1, <1>2, ApplyRaises DEF Taught
  <2>3. Taught(b, e) \in BreakerType
    BY TaughtType
  <2> QED
    BY <2>2, <2>3, RankType DEF AsCautious, BreakerType
<1> QED
  BY <1>1, <1>2

\* Two histories of breakers, the second of attempts that go on after those of
\* the first.
LEMMA TaughtAgree ==
  ASSUME NEW b, NEW s \in Seq(Kept), NEW t \in Seq(Kept), NEW f, NEW g,
         IsTaught(f, b, s), IsTaught(g, b, s \o t)
  PROVE  f[Len(s)] = g[Len(s)]
<1> DEFINE Bad == {n \in 0..Len(s) : f[n] # g[n]}
<1>1. Len(s) \in Nat /\ Len(t) \in Nat /\ Len(s \o t) = Len(s) + Len(t)
  BY LenProperties, ConcatProperties
<1>2. \A n \in 1..Len(s) : (s \o t)[n] = s[n]
  BY ConcatProperties, <1>1
<1>3. Bad = {}
  <2> SUFFICES ASSUME Bad # {} PROVE FALSE
    OBVIOUS
  <2>1. PICK n \in Bad : \A m \in Bad : n <= m
    <3>1. Bad \subseteq Nat
      BY <1>1
    <3> HIDE DEF Bad
    <3> QED
      BY <3>1, LeastExists
  <2>2. f[n] = (IF n = 0 THEN b ELSE Taught(f[n - 1], s[n]))
    BY <2>1, <1>1 DEF IsTaught
  <2>3. g[n] = (IF n = 0 THEN b ELSE Taught(g[n - 1], (s \o t)[n]))
    <3>1. n \in 0..Len(s \o t)
      BY <2>1, <1>1
    <3> QED
      BY <3>1, Zenon DEF IsTaught
  <2>4. n # 0
    BY <2>1, <2>2, <2>3
  <2>5. n - 1 \in 0..Len(s) /\ n - 1 \notin Bad
    BY <2>1, <2>4, <1>1
  <2> QED
    BY <2>1, <2>2, <2>3, <2>4, <2>5, <1>1, <1>2
<1> QED
  BY <1>3, <1>1

\* What is learned from attempts that go on after others begins where those end.
LEMMA BootstrapGoesOn ==
  ASSUME NEW b \in BreakerType, ~b.touched, NEW s \in Seq(Kept), NEW t \in Seq(Kept)
  PROVE  \E g : /\ g \in [0..Len(t) -> BreakerType]
                /\ g[0] = Bootstrap(b, s) /\ g[Len(t)] = Bootstrap(b, s \o t)
                /\ \A n \in 1..Len(t) : g[n] = Taught(g[n - 1], t[n])
<1>1. Len(s) \in Nat /\ Len(t) \in Nat /\ Len(s \o t) = Len(s) + Len(t) /\ s \o t \in Seq(Kept)
  BY LenProperties, ConcatProperties
<1>2. PICK f : IsTaught(f, b, s) /\ Bootstrap(b, s) = f[Len(s)]
  BY <1>1, BootstrapIs
<1>3. PICK h : IsTaught(h, b, s \o t) /\ Bootstrap(b, s \o t) = h[Len(s \o t)]
  <2>1. Len(s \o t) \in Nat
    BY <1>1
  <2> QED
    BY <2>1, BootstrapIs, Zenon
<1>4. f[Len(s)] = h[Len(s)]
  BY <1>2, <1>3, TaughtAgree
<1>5. \A n \in 1..Len(t) : (s \o t)[Len(s) + n] = t[n]
  <2> SUFFICES ASSUME NEW n \in 1..Len(t) PROVE (s \o t)[Len(s) + n] = t[n]
    OBVIOUS
  <2>1. Len(s) + n \in 1..(Len(s) + Len(t)) /\ ~(Len(s) + n <= Len(s)) /\ (Len(s) + n) - Len(s) = n
    BY <1>1
  <2> QED
    BY <2>1, ConcatProperties
<1>6. \A n \in 0..Len(s \o t) : h[n] \in BreakerType
  <2> DEFINE Bad == {n \in 0..Len(s \o t) : h[n] \notin BreakerType}
  <2> SUFFICES ASSUME Bad # {} PROVE FALSE
    OBVIOUS
  <2>1. PICK n \in Bad : \A m \in Bad : n <= m
    <3>1. Bad \subseteq Nat
      BY <1>1
    <3> HIDE DEF Bad
    <3> QED
      BY <3>1, LeastExists
  <2>2. h[n] = (IF n = 0 THEN b ELSE Taught(h[n - 1], (s \o t)[n]))
    BY <2>1, <1>1, <1>3 DEF IsTaught
  <2>3. n # 0
    BY <2>1, <2>2
  <2>4. n \in 1..Len(s \o t) /\ n - 1 \in 0..Len(s \o t) /\ n - 1 \notin Bad
    BY <2>1, <2>3, <1>1
  <2>5. h[n - 1] \in BreakerType /\ (s \o t)[n] \in Kept
    BY <2>4, <1>1, ElementOfSeq
  <2> QED
    BY <2>1, <2>2, <2>3, <2>5, TaughtType
<1> DEFINE g == [n \in 0..Len(t) |-> h[Len(s) + n]]
<1>7. g \in [0..Len(t) -> BreakerType]
  BY <1>1, <1>6
<1>8. g[0] = Bootstrap(b, s) /\ g[Len(t)] = Bootstrap(b, s \o t)
  BY <1>1, <1>2, <1>3, <1>4
<1>9. \A n \in 1..Len(t) : g[n] = Taught(g[n - 1], t[n])
  <2> SUFFICES ASSUME NEW n \in 1..Len(t) PROVE g[n] = Taught(g[n - 1], t[n])
    OBVIOUS
  <2>1. /\ Len(s) + n \in 0..Len(s \o t) /\ Len(s) + n # 0
        /\ (Len(s) + n) - 1 = Len(s) + (n - 1) /\ n - 1 \in 0..Len(t) /\ n \in 0..Len(t)
    BY <1>1
  <2>2. h[Len(s) + n] = Taught(h[(Len(s) + n) - 1], (s \o t)[Len(s) + n])
    BY <2>1, <1>3 DEF IsTaught
  <2> QED
    BY <2>1, <2>2, <1>5
<1> HIDE DEF g
<1> QED
  BY <1>7, <1>8, <1>9

\* Attempts without a success make what is learned more cautious.
LEMMA LearnedKeepsOrder ==
  ASSUME NEW a \in BreakerType, NEW s \in Seq(Kept), NEW t \in Seq(Kept),
         AsCautious(a, Bootstrap(Pristine, s)),
         \A i \in 1..Len(t) : t[i].class # "SUCCESS"
  PROVE  AsCautious(a, Bootstrap(Pristine, s \o t))
<1>1. Pristine \in BreakerType /\ ~Pristine.touched
  BY PristineType DEF Pristine
<1>2. PICK g : /\ g \in [0..Len(t) -> BreakerType]
               /\ g[0] = Bootstrap(Pristine, s) /\ g[Len(t)] = Bootstrap(Pristine, s \o t)
               /\ \A n \in 1..Len(t) : g[n] = Taught(g[n - 1], t[n])
  BY <1>1, BootstrapGoesOn
<1>3. Len(t) \in Nat
  BY LenProperties
<1> DEFINE Bad == {n \in 0..Len(t) : ~AsCautious(a, g[n])}
<1>4. Bad = {}
  <2> SUFFICES ASSUME Bad # {} PROVE FALSE
    OBVIOUS
  <2>1. PICK n \in Bad : \A m \in Bad : n <= m
    <3>1. Bad \subseteq Nat
      BY <1>3
    <3> HIDE DEF Bad
    <3> QED
      BY <3>1, LeastExists
  <2>2. n # 0
    BY <2>1, <1>2
  <2>3. n \in 1..Len(t) /\ n - 1 \in 0..Len(t) /\ n - 1 \notin Bad
    BY <2>1, <2>2, <1>3
  <2>4. AsCautious(a, g[n - 1]) /\ g[n - 1] \in BreakerType /\ t[n] \in Kept
    BY <2>3, <1>2, ElementOfSeq
  <2>5. AsCautious(a, Taught(g[n - 1], t[n]))
    BY <2>3, <2>4, TaughtKeepsOrder
  <2> QED
    BY <2>1, <2>3, <2>5, <1>2
<1> QED
  BY <1>2, <1>3, <1>4
\* What is left of a time after rounding it to whole seconds.
LEMMA RoundedIsClose ==
  ASSUME NEW x \in Nat
  PROVE  /\ Rounded(x) \in Nat
         /\ 2 * (x - Rounded(x)) <= Second /\ 2 * (Rounded(x) - x) <= Second
<1> DEFINE s == x \div Second
           r == x % Second
<1>1. Second \in Nat \ {0}
  BY HostMemoryAssumption
<1>2. s \in Nat /\ r \in 0..(Second - 1) /\ x = Second * s + r
  BY <1>1
<1>3. Second * (s + 1) = Second * s + Second
  BY <1>1, <1>2
<1>4. Second * s \in Nat
  BY <1>1, <1>2
<1>5. \/ Rounded(x) = Second * s /\ 2 * r <= Second
      \/ Rounded(x) = Second * (s + 1) /\ 2 * r >= Second
  BY <1>1, <1>2 DEF Rounded
<1> HIDE DEF s, r
<1> QED
  BY <1>1, <1>2, <1>3, <1>4, <1>5

----------------------------------------------------------------------------
(* An attempt *)

\* What a decision says of itself: a rate limit that may be retried is never
\* taken to a browser instead.
LEMMA DecisionIs ==
  ASSUME NEW S, NEW status, NEW by, NEW allowed, NEW n \in {1, 2}, NEW reused, NEW mode,
         NEW cooling \in BOOLEAN, NEW left \in Nat, NEW d,
         d = AntiBotDecision(S, status, by, allowed, n, reused, mode, cooling, left)
  PROVE  /\ d.class \in Classes /\ d.gate \in BOOLEAN /\ d.secs \in Nat
         /\ d.usable <=> d.class = "SUCCESS"
         /\ d.class = "RATE_LIMIT" /\ d.escalate /\ n = 1 => d.retry
<1> DEFINE trigger == BrowserTrigger(S)
           inBrowser == by = "playwright"
           granted == trigger # "" /\ ~inBrowser /\ allowed /\ ~cooling /\ mode # "paused"
           manual  == "challenge_page" \in S /\ (inBrowser \/ reused)
           final   == IF granted \/ (manual /\ allowed) THEN "playwright" ELSE by
           class   == BlockClass(S, status, manual, inBrowser, reused)
<1>1. /\ d.class = class /\ d.gate = GateIsReason(S, status) /\ (d.usable <=> class = "SUCCESS")
      /\ d.retry = (RetryTrigger(S) # "" /\ n < 2 /\ ~cooling)
      /\ d.escalate => ~(cooling /\ final = "playwright") /\ final = "playwright"
      /\ d.secs = (IF cooling              THEN left
                    ELSE IF "http_429" \in S THEN Recommended("RATE_LIMIT", FALSE, n)
                    ELSE IF trigger # ""
                    THEN Recommended(IF "http_403" \in S THEN "HARD_BAN" ELSE "SOFT_BLOCK",
                                     trigger = "bot_gate", n)
                    ELSE 0)
  BY DEF AntiBotDecision
<1> HIDE DEF trigger, final
<1>2. class \in Classes /\ (class = "RATE_LIMIT" => "http_429" \in S)
  BY DEF BlockClass, Classes, Counters
<1> HIDE DEF class
<1>3. d.gate \in BOOLEAN
  BY <1>1 DEF GateIsReason
<1>4. d.secs \in Nat
  <2> DEFINE gate == trigger = "bot_gate"
  <2>1. n \in Nat \ {0} /\ gate \in BOOLEAN /\ FALSE \in BOOLEAN
    OBVIOUS
  <2>2. \A c : \A g \in BOOLEAN : Recommended(c, g, n) \in Nat
    BY <2>1, RecommendedType
  <2>3. Recommended("RATE_LIMIT", FALSE, n) \in Nat /\ \A c : Recommended(c, gate, n) \in Nat
    BY <2>1, <2>2, Zenon
  <2>4. 0 \in Nat
    OBVIOUS
  <2> QED
    BY <1>1, <2>3, <2>4, Zenon
<1>5. "http_429" \in S => RetryTrigger(S) # ""
  <2> SUFFICES ASSUME "http_429" \in S PROVE RetryTrigger(S) # ""
    OBVIOUS
  <2> DEFINE order == <<"http_429", "http_5xx", "request_error", "browser_error">>
             present == {i \in DOMAIN order : order[i] \in S}
  <2>1. 1 \in present /\ \A y \in present : 1 <= y
    OBVIOUS
  <2>2. Min(present) \in present
    BY <2>1 DEF Min
  <2>3. RetryTrigger(S) = order[Min(present)]
    <3>1. present # {}
      BY <2>1
    <3>2. RetryTrigger(S) = IF present = {} THEN "" ELSE order[Min(present)]
      BY DEF RetryTrigger, FirstOf
    <3> QED
      BY <3>1, <3>2
  <2>4. \A i \in present : order[i] # ""
    <3>1. DOMAIN order = 1..4
      OBVIOUS
    <3>2. order[1] # "" /\ order[2] # "" /\ order[3] # "" /\ order[4] # ""
      OBVIOUS
    <3>3. \A i \in 1..4 : i = 1 \/ i = 2 \/ i = 3 \/ i = 4
      OBVIOUS
    <3> HIDE DEF order
    <3> QED
      BY <3>1, <3>2, <3>3
  <2> QED
    BY <2>2, <2>3, <2>4
<1>6. d.class = "RATE_LIMIT" /\ d.escalate /\ n = 1 => d.retry
  <2> SUFFICES ASSUME d.class = "RATE_LIMIT", d.escalate, n = 1 PROVE d.retry
    OBVIOUS
  <2>1. RetryTrigger(S) # "" /\ ~cooling
    BY <1>1, <1>2, <1>5
  <2>2. n < 2
    OBVIOUS
  <2> QED
    BY <1>1, <2>1, <2>2
<1> QED
  BY <1>1, <1>2, <1>3, <1>4, <1>6

JobType ==
  [pc : {"idle", "first", "second"}, host : Hosts \cup {None}, allowed : BOOLEAN,
   by : Transports \cup {None}, profile : Contours \cup {None}, given : Contours \cup {None},
   avoid : SUBSET Labels, free : BOOLEAN]
KnownType == [told : SUBSET Labels, met : SUBSET Contours, until : Nat]
Lived == [by : Fetchers, class : Classes \cup {"none"}, contour : Contours, verdict : Verdicts,
          until : Nat]

OwnType(f) ==
  [breaker : BreakerType, cool : [HostsOf[f] -> Nat], hint : [HostsOf[f] -> Labels \cup {None}]]

FetchTyped ==
  /\ memory \in [Hosts -> Seq(Kept)] /\ history \in [Hosts -> Seq(Lived)]
  /\ buffer \in [Buffered -> Seq([Hosts -> Seq(Kept)])]
  /\ \A f \in Buffered : Len(buffer[f]) >= 1
  /\ session \in [contour : Contours \cup {None}, until : Nat]
  /\ DOMAIN own = Fetchers
  /\ \A f \in Fetchers : own[f] \in OwnType(f)
  /\ job \in [Fetchers -> JobType]
  /\ \A f \in Fetchers : job[f].pc # "idle" => job[f].host \in HostsOf[f]
  /\ now \in Nat
  /\ known \in [Fetchers -> KnownType]
  /\ DOMAIN asked = Fetchers

\* What is left of a cooldown is a time.
LEMMA HostLeftType ==
  ASSUME now \in Nat, NEW until \in Nat
  PROVE  HostLeft(until) \in Nat
BY RoundedIsClose DEF HostLeft

\* A cooldown never gets shorter.
LEMMA CooledIs ==
  ASSUME now \in Nat, NEW until \in Nat, NEW class \in Classes, NEW secs \in Nat
  PROVE  /\ Cooled(until, class, secs) \in Nat
         /\ class # "SUCCESS" => /\ until <= Cooled(until, class, secs)
                                 /\ secs > 0 => now + secs <= Cooled(until, class, secs)
<1> DEFINE wait == IF secs > 0 THEN secs
                   ELSE IF class = "RATE_LIMIT" THEN DefaultCooldown.RATE_LIMIT
                   ELSE IF class \in {"HARD_BAN", "CHALLENGE_LOOP"} THEN DefaultCooldown.block
                   ELSE 0
<1>1. wait \in Nat
  BY FetchAssumption
<1>2. Cooled(until, class, secs) = IF class = "SUCCESS" THEN 0
                                   ELSE IF wait > 0 THEN Max({until, now + wait}) ELSE until
  BY DEF Cooled
<1>3. secs > 0 => wait = secs
  OBVIOUS
<1> HIDE DEF wait
<1>4. now + wait \in Nat
  BY <1>1
<1>5. Max({until, now + wait}) = IF until >= now + wait THEN until ELSE now + wait
  BY <1>4, MaxOfTwo
<1> QED
  BY <1>1, <1>2, <1>3, <1>4, <1>5

\* What one attempt of a fetcher at its page comes to.
AttemptIs(f, c, hint, asks, status, d, waited, hard, pre, post, next) ==
  LET j == job[f]
      h == j.host
      o == own[f]
      until == Cooled(o.cool[h], d.class, Max({waited, d.secs}))
      left  == HostLeft(until)
  IN  /\ c \in Contours /\ hint \in Labels \cup {None} /\ waited \in Nat
      /\ asks \in BOOLEAN /\ hard \in BOOLEAN
      /\ d.class \in Classes /\ d.gate \in BOOLEAN /\ d.secs \in Nat
      /\ d.usable <=> d.class = "SUCCESS"
      /\ d.class = "RATE_LIMIT" /\ d.escalate /\ j.pc = "first" => d.retry
      /\ pre \in Seq(Kept) /\ \A i \in 1..Len(pre) : pre[i].class = "none"
      /\ post \in Seq(Kept) /\ \A i \in 1..Len(post) : post[i].class = "none"
      /\ asks => c \notin j.avoid /\ HostLeft(o.cool[h]) = 0
      /\ own' = [own EXCEPT ![f] =
                   [breaker |-> ApplyDecision(o.breaker, d.class, d.gate, now, NotRecorded),
                    cool |-> [o.cool EXCEPT ![h] = until],
                    hint |-> [o.hint EXCEPT ![h] = hint]]]
      /\ session' = SessionAfter(j.by, asks, status, c)
      /\ Emit(f, h, pre \o <<AttemptEntry(c, d.class, d.gate, hard, Max({left, d.secs}))>> \o post)
      /\ known' = [known EXCEPT ![f] =
                     IF next = Idle THEN NothingKnown
                     ELSE [told |-> @.told, met |-> IF hard THEN {c} ELSE {},
                           until |-> Max({@.until, now + waited, now + left, now + d.secs})]]
      /\ job' = [job EXCEPT ![f] = next]
      /\ asked' = IF asks THEN [asked EXCEPT ![f] = [n |-> @.n + 1, handed |-> c, free |-> j.free]]
                  ELSE asked
      /\ next # Idle => j.pc = "first" /\ next = Followup(j, d, status, c, left)

\* A selected proxy has a contour, and comes with a label or none.
LEMMA SelectionsAre ==
  ASSUME NEW hint \in Labels \cup {None}, NEW avoid, NEW s \in Selections(hint, avoid)
  PROVE  s.contour \in Contours /\ s.hint \in Labels \cup {None}
BY DEF Selections, Contours

\* Attempts that follow one another.
LEMMA ConcatType ==
  ASSUME NEW T, NEW s \in Seq(T), NEW e \in T, NEW t \in Seq(T)
  PROVE  s \o <<e>> \o t \in Seq(T)
<1>1. <<e>> \in Seq(T)
  OBVIOUS
<1> QED
  BY <1>1, ConcatProperties

\* At most two attempts.
LEMMA ShortSeq ==
  ASSUME NEW e \in Kept, NEW s, s = <<>> \/ s = <<e>>
  PROVE  s \in Seq(Kept) /\ \A i \in 1..Len(s) : s[i] = e
<1>1. CASE s = <<>>
  BY <1>1
<1>2. CASE s = <<e>>
  BY <1>2
<1> QED
  BY <1>1, <1>2

\* The entry of an attempt is one the memory keeps.
LEMMA EntryType ==
  ASSUME now \in Nat, NEW c \in Contours, NEW class \in Classes \cup {"none"},
         NEW gate \in BOOLEAN, NEW hard \in BOOLEAN, NEW secs \in Nat
  PROVE  AttemptEntry(c, class, gate, hard, secs) \in Kept
<1>1. now + secs \in Nat
  OBVIOUS
<1> QED
  BY <1>1 DEF AttemptEntry, Kept, Verdicts

\* A request goes through some contours.
LEMMA SentType ==
  ASSUME NEW by, NEW c \in Contours, NEW page, NEW sent, sent = <<c>> \/ sent \in Sent(by, c, page)
  PROVE  sent \in Seq(Contours) /\ Len(sent) \in Nat \ {0}
<1>1. CASE sent = <<c>>
  BY <1>1
<1>2. CASE sent # <<c>>
  <2>1. PICK n \in 1..Cardinality(Labels) : sent \in [1..n -> Labels]
    BY <1>2 DEF Sent
  <2>2. n \in Nat /\ 1 <= n
    BY <2>1
  <2>3. sent \in [1..n -> Contours]
    BY <2>1 DEF Contours
  <2>4. sent \in Seq(Contours)
    BY <2>2, <2>3, SeqDef
  <2>5. Len(sent) \in Nat /\ DOMAIN sent = 1..Len(sent)
    BY <2>4, LenProperties
  <2>6. 1 \in DOMAIN sent
    BY <2>2, <2>3
  <2> QED
    BY <2>4, <2>5, <2>6
<1> QED
  BY <1>1, <1>2

\* The client's events are no attempts of the fetcher.
LEMMA ClientEventsType ==
  ASSUME now \in Nat, NEW by, NEW refusal, NEW status, NEW sent \in Seq(Contours),
         Len(sent) \in Nat \ {0}
  PROVE  LET pre == ClientEvents(by, refusal, status, sent) IN
           pre \in Seq(Kept) /\ \A i \in 1..Len(pre) : pre[i].class = "none"
<1> DEFINE m    == Len(sent) - 1
           at   == IF status = "cooldown_active" THEN Direct ELSE sent[Len(sent)]
           secs == IF status \in {"cooldown_active", "rate_limited", "bot_gate"}
                   THEN ClientCooldown ELSE 0
           e    == AttemptEntry(at, "none", FALSE, FALSE, secs)
           tail == <<e>>
           front == [i \in 1..m |-> AttemptEntry(sent[i], "none", FALSE, FALSE, 0)]
           pre   == ClientEvents(by, refusal, status, sent)
           N     == {k \in Kept : k.class = "none"}
<1>1. \A i \in 1..Len(sent) : sent[i] \in Contours
  BY ElementOfSeq
<1>2. at \in Contours /\ secs \in Nat
  BY <1>1, FetchAssumption DEF Contours
<1>3. e \in N
  <2> HIDE DEF at, secs
  <2>1. e \in Kept
    BY <1>2, EntryType
  <2> QED
    BY <2>1 DEF AttemptEntry
<1>4. m \in Nat /\ \A i \in 1..m : sent[i] \in Contours
  BY <1>1
<1>5. front \in [1..m -> N]
  <2> HIDE DEF m
  <2>1. \A i \in 1..m : AttemptEntry(sent[i], "none", FALSE, FALSE, 0) \in N
    <3> TAKE i \in 1..m
    <3>1. AttemptEntry(sent[i], "none", FALSE, FALSE, 0) \in Kept
      BY <1>4, EntryType
    <3> QED
      BY <3>1 DEF AttemptEntry
  <2> QED
    BY <2>1
<1>6. pre = <<>> \/ pre = front \o tail
  BY DEF ClientEvents
<1> HIDE DEF e, front, m, pre, N
<1>7. front \in Seq(N)
  BY <1>4, <1>5, SeqDef
<1>8. tail \in Seq(N)
  BY <1>3
<1> HIDE DEF tail
<1>9. pre \in Seq(N)
  <2>1. CASE pre = front \o tail
    BY <1>7, <1>8, <2>1, ConcatProperties
  <2>2. CASE pre = <<>>
    BY <2>2
  <2> QED
    BY <1>6, <2>1, <2>2
<1>10. \A i \in 1..Len(pre) : pre[i] \in N
  BY <1>9, ElementOfSeq
<1>11. N \subseteq Kept /\ \A k \in N : k.class = "none"
  BY DEF N
<1>12. pre \in Seq(Kept)
  <2>1. PICK n \in Nat : pre \in [1..n -> N]
    BY <1>9, SeqDef
  <2>2. pre \in [1..n -> Kept]
    BY <1>11, <2>1
  <2> QED
    BY <2>2, SeqDef
<1> QED
  BY <1>10, <1>11, <1>12 DEF pre

\* What an attempt does, whatever was selected, answered and decided.
LEMMA AttemptForm ==
  ASSUME FetchTyped, NEW f \in Fetchers, Attempt(f)
  PROVE  /\ job[f].pc # "idle" /\ UNCHANGED <<now, fetches>>
         /\ \E c, hint, asks, status, d, waited, hard, pre, post, next :
              AttemptIs(f, c, hint, asks, status, d, waited, hard, pre, post, next)
<1>1. job[f].pc # "idle" /\ UNCHANGED <<now, fetches>>
  BY DEF Attempt
<1>2. PICK s, page, sent :
        /\ s \in Tries(job[f], own[f].hint[job[f].host])
        /\ sent = <<s.contour>> \/ sent \in Sent(job[f].by, s.contour, page)
        /\ AttemptWith(f, s, page, sent)
  <2>1. PICK s \in Tries(job[f], own[f].hint[job[f].host]) : \E page, sent :
          /\ sent \in (IF Refusal(job[f], s.contour, HostLeft(own[f].cool[job[f].host])) = ""
                      THEN Sent(job[f].by, s.contour, page) ELSE {<<s.contour>>})
          /\ AttemptWith(f, s, page, sent)
    BY Zenon DEF Attempt
  <2> QED
    BY <2>1
<1> DEFINE j       == job[f]
           h       == j.host
           o       == own[f]
           n       == IF j.pc = "first" THEN 1 ELSE 2
           first   == j.pc = "first" /\ MaxAttempts = 2
           waiting == HostLeft(o.cool[h])
           profile == IF n = 1 THEN j.profile ELSE Guarded(j.avoid)
           refusal == Refusal(j, s.contour, waiting)
           status  == IF refusal # ""           THEN refusal
                      ELSE IF j.by = "requests" THEN ClientStatus(page)
                      ELSE BrowserStatus(page)
           asks    == refusal = "" /\ status \notin {"cooldown_active", "browser_required"}
           waited  == IF refusal = "cooldown_active" THEN waiting
                      ELSE IF /\ refusal = "" /\ j.by = "requests"
                              /\ status \in {"cooldown_active", "rate_limited", "bot_gate"}
                        THEN ClientCooldown ELSE 0
           cooling == status = "cooldown_active" \/ o.breaker.until > now
           S == Symptoms(status, page.code, page.marks, page.usable)
           d == AntiBotDecision(S, status, j.by, j.allowed, n, profile # None /\ refusal = "",
                                o.breaker.mode, cooling, Max({0, o.breaker.until - now}))
           until   == Cooled(o.cool[h], d.class, Max({waited, d.secs}))
           left    == HostLeft(until)
           next    == IF first THEN Followup(j, d, status, s.contour, left) ELSE Idle
           stopped == first /\ next = Idle /\ Policy(d, status) # "stop"
           hard    == \/ S \cap {"http_429", "http_403", "challenge_page"} # {}
                      \/ status = "bot_gate" \/ d.gate
           pre     == ClientEvents(j.by, refusal, status, sent)
           post    == IF stopped THEN <<StopEntry(s.contour)>> ELSE <<>>
<1>3. Finalize(f, s, sent, refusal, status, waited, S, d)
  BY <1>2, Zenon DEF AttemptWith
<1>4. /\ j \in JobType /\ h \in HostsOf[f] /\ now \in Nat
      /\ o.breaker \in BreakerType /\ o.cool[h] \in Nat /\ o.hint[h] \in Labels \cup {None}
  BY <1>1 DEF FetchTyped, OwnType
<1>5. s.contour \in Contours /\ s.hint \in Labels \cup {None}
  <2>1. CASE j.given # None
    BY <1>2, <1>4, <2>1 DEF Tries, JobType
  <2>2. CASE j.given = None
    BY <1>2, <1>4, <2>2, SelectionsAre DEF Tries
  <2> QED
    BY <2>1, <2>2
<1>6. waiting \in Nat
  BY <1>4, HostLeftType
<1>7. waited \in Nat
  BY <1>6, FetchAssumption
<1>8. /\ d.class \in Classes /\ d.gate \in BOOLEAN /\ d.secs \in Nat
      /\ d.usable <=> d.class = "SUCCESS"
      /\ d.class = "RATE_LIMIT" /\ d.escalate /\ n = 1 => d.retry
  <2> DEFINE reused == profile # None /\ refusal = ""
             rest == Max({0, o.breaker.until - now})
  <2>1. n \in {1, 2} /\ cooling \in BOOLEAN
    OBVIOUS
  <2>2. rest \in Nat
    <3>1. o.breaker.until - now \in Int /\ 0 \in Int
      <4>1. o.breaker.until \in Nat /\ now \in Nat
        BY <1>4 DEF BreakerType
      <4> QED
        BY <4>1
    <3> HIDE DEF o
    <3>2. rest = IF 0 >= o.breaker.until - now THEN 0 ELSE o.breaker.until - now
      BY <3>1, MaxOfTwo
    <3> QED
      BY <3>1, <3>2
  <2>3. d = AntiBotDecision(S, status, j.by, j.allowed, n, reused, o.breaker.mode, cooling, rest)
    OBVIOUS
  <2> HIDE DEF d, S, status, n, reused, cooling, rest
  <2> QED
    BY <2>1, <2>2, <2>3, DecisionIs
<1>9. asks \in BOOLEAN
  OBVIOUS
<1>10. hard \in BOOLEAN
  <2> HIDE DEF S, status
  <2>1. d.gate \in BOOLEAN
    BY <1>8
  <2> HIDE DEF d
  <2> QED
    BY <2>1
<1>11. asks => s.contour \notin j.avoid /\ waiting = 0
  BY <1>6 DEF Refusal
<1>12. pre \in Seq(Kept) /\ \A i \in 1..Len(pre) : pre[i].class = "none"
  <2>1. sent \in Seq(Contours) /\ Len(sent) \in Nat \ {0}
    BY <1>2, <1>5, SentType
  <2> HIDE DEF status
  <2> QED
    BY <1>4, <2>1, ClientEventsType
<1>13. post \in Seq(Kept) /\ \A i \in 1..Len(post) : post[i].class = "none"
  <2> DEFINE e == StopEntry(s.contour)
  <2>1. e \in Kept
    BY <1>4, <1>5, EntryType DEF StopEntry
  <2>2. e.class = "none"
    BY DEF StopEntry, AttemptEntry
  <2>3. post = <<>> \/ post = <<e>>
    OBVIOUS
  <2> HIDE DEF e, post
  <2> QED
    BY <2>1, <2>2, <2>3, ShortSeq
<1>14. next # Idle => j.pc = "first" /\ next = Followup(j, d, status, s.contour, left)
  <2> HIDE DEF j, d, status, left
  <2> QED
    OBVIOUS
<1>15. d.class = "RATE_LIMIT" /\ d.escalate /\ j.pc = "first" => d.retry
  BY <1>8
<1>16. AttemptIs(f, s.contour, s.hint, asks, status, d, waited, hard, pre, post, next)
  <2>1. /\ s.contour \in Contours /\ s.hint \in Labels \cup {None} /\ waited \in Nat
        /\ asks \in BOOLEAN /\ hard \in BOOLEAN
        /\ d.class \in Classes /\ d.gate \in BOOLEAN /\ d.secs \in Nat
        /\ d.usable <=> d.class = "SUCCESS"
        /\ d.class = "RATE_LIMIT" /\ d.escalate /\ j.pc = "first" => d.retry
    BY <1>5, <1>7, <1>8, <1>9, <1>10, <1>15
  <2>2. /\ pre \in Seq(Kept) /\ \A i \in 1..Len(pre) : pre[i].class = "none"
        /\ post \in Seq(Kept) /\ \A i \in 1..Len(post) : post[i].class = "none"
        /\ asks => s.contour \notin j.avoid /\ HostLeft(o.cool[h]) = 0
    BY <1>11, <1>12, <1>13
  <2>3. next # Idle => j.pc = "first" /\ next = Followup(j, d, status, s.contour, left)
    BY <1>14
  <2> QED
    BY <1>3, <2>1, <2>2, <2>3, Zenon DEF AttemptIs, Finalize
<1> HIDE DEF asks, status, d, waited, hard, pre, post, next
<1> QED
  BY <1>1, <1>16, Zenon

\* What the memory keeps of a sequence is its end.
LEMMA NewestIs ==
  ASSUME NEW T, NEW s \in Seq(T)
  PROVE  /\ Newest(s) \in Seq(T)
         /\ Len(Newest(s)) = IF Len(s) <= LedgerLimit THEN Len(s) ELSE LedgerLimit
         /\ \A i \in 1..Len(Newest(s)) : Newest(s)[i] = s[Len(s) - Len(Newest(s)) + i]
<1> DEFINE m == Max({1, Len(s) - LedgerLimit + 1})
<1>1. Len(s) \in Nat /\ LedgerLimit \in Nat \ {0}
  BY LenProperties, HostMemoryAssumption
<1>2. m = IF Len(s) <= LedgerLimit THEN 1 ELSE Len(s) - LedgerLimit + 1
  <2>1. Len(s) - LedgerLimit + 1 \in Int /\ 1 \in Int
    BY <1>1
  <2>2. m = IF 1 >= Len(s) - LedgerLimit + 1 THEN 1 ELSE Len(s) - LedgerLimit + 1
    BY <2>1, MaxOfTwo
  <2> QED
    BY <1>1, <2>2
<1> HIDE DEF m
<1>3. m \in Nat /\ 1 <= m /\ m <= Len(s) + 1
  BY <1>1, <1>2
<1>4. \A i \in m..Len(s) : s[i] \in T
  BY <1>1, <1>3, ElementOfSeq
<1>5. /\ SubSeq(s, m, Len(s)) \in Seq(T)
      /\ Len(SubSeq(s, m, Len(s))) = IF m <= Len(s) THEN Len(s) - m + 1 ELSE 0
      /\ \A i \in 1..(Len(s) - m + 1) : SubSeq(s, m, Len(s))[i] = s[m + i - 1]
  BY <1>1, <1>3, <1>4, SubSeqProperties
<1>6. Newest(s) = SubSeq(s, m, Len(s))
  BY DEF Newest, m
<1> DEFINE N == Newest(s)
<1>7. /\ N \in Seq(T) /\ Len(N) = Len(s) - m + 1
      /\ \A i \in 1..(Len(s) - m + 1) : N[i] = s[m + i - 1]
  BY <1>1, <1>3, <1>5, <1>6
<1> HIDE DEF N
<1>8. \A i \in 1..Len(N) : N[i] = s[Len(s) - Len(N) + i]
  <2> SUFFICES ASSUME NEW i \in 1..Len(N) PROVE N[i] = s[Len(s) - Len(N) + i]
    OBVIOUS
  <2>1. m + i - 1 = Len(s) - Len(N) + i /\ i \in 1..(Len(s) - m + 1)
    BY <1>1, <1>3, <1>7
  <2> QED
    BY <2>1, <1>7
<1>9. Len(N) = IF Len(s) <= LedgerLimit THEN Len(s) ELSE LedgerLimit
  BY <1>1, <1>2, <1>7
<1> QED
  BY <1>7, <1>8, <1>9 DEF N

\* Entries with their author.
LEMMA AuthoredType ==
  ASSUME NEW f \in Fetchers, NEW s \in Seq(Kept)
  PROVE  /\ Authored(f, s) \in Seq(Lived) /\ Len(Authored(f, s)) = Len(s)
         /\ \A i \in 1..Len(s) : /\ Authored(f, s)[i].by = f
                                 /\ Authored(f, s)[i].class = s[i].class
                                 /\ Authored(f, s)[i].contour = s[i].contour
                                 /\ Authored(f, s)[i].verdict = s[i].verdict
                                 /\ Authored(f, s)[i].until = s[i].until
<1> DEFINE at(i) == [by |-> f, class |-> s[i].class, contour |-> s[i].contour,
                     verdict |-> s[i].verdict, until |-> s[i].until]
<1>1. Len(s) \in Nat /\ DOMAIN s = 1..Len(s) /\ \A i \in 1..Len(s) : s[i] \in Kept
  BY LenProperties, ElementOfSeq
<1>2. \A i \in 1..Len(s) : at(i) \in Lived
  BY <1>1 DEF Kept, Lived
<1>3. Authored(f, s) = [i \in 1..Len(s) |-> at(i)]
  BY <1>1 DEF Authored
<1> HIDE DEF at
<1>4. Authored(f, s) \in Seq(Lived)
  BY <1>1, <1>2, <1>3, SeqDef
<1>5. Len(Authored(f, s)) = Len(s)
  BY <1>1, <1>3, <1>4, LenProperties
<1> QED
  BY <1>3, <1>4, <1>5 DEF at

Stored == /\ memory \in [Hosts -> Seq(Kept)] /\ history \in [Hosts -> Seq(Lived)]
          /\ buffer \in [Buffered -> Seq([Hosts -> Seq(Kept)])]
          /\ \A f \in Buffered : Len(buffer[f]) >= 1

\* The memory and the history stay sequences of entries.
LEMMA EmitType ==
  ASSUME FetchTyped, NEW f \in Fetchers, NEW h \in HostsOf[f], NEW entries \in Seq(Kept),
         Emit(f, h, entries)
  PROVE  Stored'
<1>1. h \in Hosts
  BY DEF Hosts
<1>2. CASE f \in Buffered
  <2>1. /\ buffer' = [buffer EXCEPT ![f][Len(buffer[f])][h] = @ \o entries]
        /\ UNCHANGED <<memory, history>>
    BY <1>2 DEF Emit
  <2> DEFINE n == Len(buffer[f])
             new == [buffer[f][n] EXCEPT ![h] = @ \o entries]
  <2>2. buffer[f] \in Seq([Hosts -> Seq(Kept)]) /\ n \in Nat /\ n >= 1
    BY <1>2, LenProperties DEF FetchTyped
  <2>3. buffer[f][n] \in [Hosts -> Seq(Kept)]
    BY <2>2, ElementOfSeq
  <2>4. new \in [Hosts -> Seq(Kept)]
    BY <1>1, <2>3, ConcatProperties
  <2>5. buffer' = [buffer EXCEPT ![f] = [@ EXCEPT ![n] = new]]
    BY <2>1
  <2> HIDE DEF new, n
  <2>6. /\ [buffer[f] EXCEPT ![n] = new] \in Seq([Hosts -> Seq(Kept)])
        /\ Len([buffer[f] EXCEPT ![n] = new]) >= 1
    BY <2>2, <2>4, ExceptSeq DEF n
  <2>7. buffer' \in [Buffered -> Seq([Hosts -> Seq(Kept)])]
    BY <1>2, <2>5, <2>6 DEF FetchTyped
  <2>8. \A g \in Buffered : Len(buffer'[g]) >= 1
    BY <1>2, <2>5, <2>6 DEF FetchTyped
  <2> QED
    BY <2>1, <2>7, <2>8 DEF FetchTyped, Stored
<1>3. CASE f \notin Buffered
  <2>1. /\ memory' = [memory EXCEPT ![h] = Newest(@ \o entries)]
        /\ history' = [history EXCEPT ![h] = @ \o Authored(f, entries)]
        /\ UNCHANGED buffer
    BY <1>3 DEF Emit
  <2>2. Newest(memory[h] \o entries) \in Seq(Kept)
    <3>1. memory[h] \o entries \in Seq(Kept)
      BY <1>1, ConcatProperties DEF FetchTyped
    <3> QED
      BY <3>1, NewestIs
  <2>3. history[h] \o Authored(f, entries) \in Seq(Lived)
    BY <1>1, AuthoredType, ConcatProperties DEF FetchTyped
  <2> QED
    BY <1>1, <2>1, <2>2, <2>3 DEF FetchTyped, Stored
<1> QED
  BY <1>2, <1>3

\* The page a fetcher goes to next.
LEMMA FollowupIs ==
  ASSUME NEW j \in JobType, NEW d, NEW status, NEW c \in Contours, NEW left
  PROVE  /\ Followup(j, d, status, c, left) \in JobType
         /\ Followup(j, d, status, c, left) # Idle =>
              /\ Followup(j, d, status, c, left).pc = "second"
              /\ Followup(j, d, status, c, left).host = j.host
              /\ j.avoid \subseteq Followup(j, d, status, c, left).avoid
              /\ ~d.usable
              /\ \/ Followup(j, d, status, c, left).free
                 \/ d.class = "RATE_LIMIT" /\ d.escalate /\ ~d.retry
                 \/ {c} \cap Labels \subseteq Followup(j, d, status, c, left).avoid
<1> DEFINE shunned == IF SameProxyAllowed(d) \/ d.class = "RATE_LIMIT" \/ c = Direct
                      THEN j.avoid ELSE j.avoid \cup {c}
           again  == [j EXCEPT !.pc = "second", !.by = "requests", !.given = None, !.free = TRUE]
           browse == [j EXCEPT !.pc = "second", !.by = "playwright", !.given = None,
                               !.avoid = shunned, !.free = SameProxyAllowed(d)]
           F == Followup(j, d, status, c, left)
<1>1. shunned \in SUBSET Labels /\ j.avoid \subseteq shunned /\ SameProxyAllowed(d) \in BOOLEAN
  <2>1. c = Direct \/ c \in Labels
    BY DEF Contours
  <2>2. j.avoid \in SUBSET Labels
    BY DEF JobType
  <2> QED
    BY <2>1, <2>2 DEF SameProxyAllowed
<1>2. {c} \cap Labels \subseteq shunned \/ SameProxyAllowed(d) \/ d.class = "RATE_LIMIT"
  BY HostMemoryAssumption
<1> HIDE DEF shunned
<1>3. again \in JobType /\ again.pc = "second" /\ again.host = j.host /\ again.avoid = j.avoid /\ again.free
  BY DEF JobType, Transports
<1>4. /\ browse \in JobType /\ browse.pc = "second" /\ browse.host = j.host /\ browse.avoid = shunned
      /\ browse.free = SameProxyAllowed(d)
  BY <1>1 DEF JobType, Transports
<1>5. \/ F = again /\ Policy(d, status) = "retry"
      \/ F = browse /\ Policy(d, status) = "escalate"
      \/ F = Idle
  BY Zenon DEF Followup, shunned
<1>6. /\ Policy(d, status) = "retry" => ~d.usable
      /\ Policy(d, status) = "escalate" => ~d.usable /\ ~d.retry /\ d.escalate
  BY DEF Policy
<1>7. Idle \in JobType
  BY DEF Idle, JobType
<1> HIDE DEF again, browse, F
<1>8. F \in JobType
  BY <1>3, <1>4, <1>5, <1>7
<1>9. F # Idle => /\ F.pc = "second" /\ F.host = j.host /\ j.avoid \subseteq F.avoid /\ ~d.usable
                  /\ \/ F.free
                     \/ d.class = "RATE_LIMIT" /\ d.escalate /\ ~d.retry
                     \/ {c} \cap Labels \subseteq F.avoid
  <2>1. CASE F = again /\ Policy(d, status) = "retry"
    BY <2>1, <1>3, <1>6
  <2>2. CASE F = browse /\ Policy(d, status) = "escalate"
    BY <2>2, <1>1, <1>2, <1>4, <1>6
  <2> QED
    BY <2>1, <2>2, <1>5
<1> QED
  BY <1>8, <1>9 DEF F

\* The later of two times.
LEMMA MaxOfTimes ==
  ASSUME NEW x \in Nat, NEW y \in Nat
  PROVE  Max({x, y}) \in Nat /\ x <= Max({x, y}) /\ y <= Max({x, y})
BY MaxOfTwo

\* The latest of four times.
LEMMA MaxOfFour ==
  ASSUME NEW a \in Nat, NEW b \in Nat, NEW c \in Nat, NEW e \in Nat
  PROVE  /\ Max({a, b, c, e}) \in {a, b, c, e}
         /\ \A y \in {a, b, c, e} : y <= Max({a, b, c, e})
<1>1. \E z \in {a, b, c, e} : \A w \in {a, b, c, e} : z >= w
  OBVIOUS
<1>2. Max({a, b, c, e}) \in {a, b, c, e} /\ \A w \in {a, b, c, e} : Max({a, b, c, e}) >= w
  BY <1>1 DEF Max
<1> QED
  BY <1>2

\* An attempt keeps the types.
LEMMA AttemptType ==
  ASSUME FetchTyped, NEW f \in Fetchers, Attempt(f)
  PROVE  FetchTyped'
<1>1. job[f].pc # "idle" /\ UNCHANGED <<now, fetches>>
  BY AttemptForm
<1>2. PICK c, hint, asks, status, d, waited, hard, pre, post, next :
        AttemptIs(f, c, hint, asks, status, d, waited, hard, pre, post, next)
  BY AttemptForm
<1> DEFINE j == job[f]
           h == j.host
           o == own[f]
           until == Cooled(o.cool[h], d.class, Max({waited, d.secs}))
           left  == HostLeft(until)
           b == ApplyDecision(o.breaker, d.class, d.gate, now, NotRecorded)
           e == AttemptEntry(c, d.class, d.gate, hard, Max({left, d.secs}))
<1>3. /\ j \in JobType /\ h \in HostsOf[f] /\ now \in Nat /\ now' = now
      /\ o.breaker \in BreakerType /\ o.cool \in [HostsOf[f] -> Nat] /\ o.cool[h] \in Nat
      /\ o.hint \in [HostsOf[f] -> Labels \cup {None}]
  BY <1>1 DEF FetchTyped, OwnType
<1>4. /\ c \in Contours /\ hint \in Labels \cup {None} /\ waited \in Nat
      /\ asks \in BOOLEAN /\ hard \in BOOLEAN
      /\ d.class \in Classes /\ d.gate \in BOOLEAN /\ d.secs \in Nat
      /\ pre \in Seq(Kept) /\ post \in Seq(Kept)
      /\ own' = [own EXCEPT ![f] =
                   [breaker |-> b, cool |-> [o.cool EXCEPT ![h] = until],
                    hint |-> [o.hint EXCEPT ![h] = hint]]]
      /\ session' = SessionAfter(j.by, asks, status, c)
      /\ Emit(f, h, pre \o <<e>> \o post)
      /\ known' = [known EXCEPT ![f] =
                     IF next = Idle THEN NothingKnown
                     ELSE [told |-> @.told, met |-> IF hard THEN {c} ELSE {},
                           until |-> Max({@.until, now + waited, now + left, now + d.secs})]]
      /\ job' = [job EXCEPT ![f] = next]
      /\ asked' = IF asks THEN [asked EXCEPT ![f] = [n |-> @.n + 1, handed |-> c, free |-> j.free]]
                  ELSE asked
      /\ next # Idle => j.pc = "first" /\ next = Followup(j, d, status, c, left)
  BY <1>2 DEF AttemptIs
<1>5. until \in Nat /\ left \in Nat /\ Max({left, d.secs}) \in Nat
  <2>1. Max({waited, d.secs}) \in Nat
    BY <1>4, MaxOfTimes
  <2>2. until \in Nat
    BY <1>3, <1>4, <2>1, CooledIs
  <2>3. left \in Nat
    BY <1>3, <2>2, HostLeftType
  <2> HIDE DEF until, left
  <2> QED
    BY <1>4, <2>2, <2>3, MaxOfTimes
<1>6. b \in BreakerType
  BY <1>3, <1>4, ApplyType
<1>7. Stored'
  <2>1. e \in Kept
    BY <1>3, <1>4, <1>5, EntryType
  <2>2. pre \o <<e>> \o post \in Seq(Kept)
    BY <1>4, <2>1, ConcatType
  <2> QED
    BY <1>3, <1>4, <2>2, EmitType
<1>8. next \in JobType /\ (next.pc # "idle" => next.host = h)
  <2>1. CASE next = Idle
    BY <2>1 DEF Idle, JobType
  <2>2. CASE next # Idle
    <3>1. next = Followup(j, d, status, c, left)
      BY <2>2, <1>4
    <3>2. j \in JobType /\ c \in Contours
      BY <1>3, <1>4
    <3> HIDE DEF j, left
    <3>3. next \in JobType /\ next.host = j.host
      BY <3>1, <3>2, <2>2, FollowupIs
    <3> QED
      BY <3>3
  <2> QED
    BY <2>1, <2>2
<1> HIDE DEF until, left, b, e
<1>9. /\ DOMAIN own' = Fetchers
      /\ \A g \in Fetchers : own'[g] \in OwnType(g)
  BY <1>3, <1>4, <1>5, <1>6 DEF FetchTyped, OwnType
<1>10. job' \in [Fetchers -> JobType] /\ \A g \in Fetchers : job'[g].pc # "idle" => job'[g].host \in HostsOf[g]
  BY <1>3, <1>4, <1>8 DEF FetchTyped
<1>11. session' \in [contour : Contours \cup {None}, until : Nat]
  <2>1. now + SessionTtl \in Nat
    BY <1>3, FetchAssumption
  <2> QED
    BY <1>4, <2>1 DEF SessionAfter, FetchTyped
<1>12. known' \in [Fetchers -> KnownType]
  <2> DEFINE k == IF next = Idle THEN NothingKnown
                  ELSE [told |-> known[f].told, met |-> IF hard THEN {c} ELSE {},
                        until |-> Max({known[f].until, now + waited, now + left, now + d.secs})]
  <2>1. known[f] \in KnownType /\ known[f].until \in Nat
    BY DEF FetchTyped, KnownType
  <2>2. Max({known[f].until, now + waited, now + left, now + d.secs}) \in Nat
    <3>1. now + waited \in Nat /\ now + left \in Nat /\ now + d.secs \in Nat
      BY <1>3, <1>4, <1>5
    <3> QED
      BY <2>1, <3>1, MaxOfFour
  <2>3. k \in KnownType
    BY <1>4, <2>1, <2>2 DEF KnownType, NothingKnown
  <2>4. known' = [known EXCEPT ![f] = k]
    BY <1>4
  <2> HIDE DEF k
  <2> QED
    BY <2>3, <2>4 DEF FetchTyped
<1>13. DOMAIN asked' = Fetchers
  BY <1>4 DEF FetchTyped
<1> QED
  BY <1>3, <1>7, <1>9, <1>10, <1>11, <1>12, <1>13 DEF FetchTyped, Stored

\* A finite set of integers that is not empty has a maximum.
LEMMA MaxExists ==
  ASSUME NEW S \in SUBSET Int, IsFiniteSet(S), S # {}
  PROVE  Max(S) \in S /\ \A y \in S : y <= Max(S)
<1> DEFINE Greatest(U) == \E x \in U : \A y \in U : x >= y
           Bad == {U \in FiniteSubsetsOf(Int) : U # {} /\ ~Greatest(U)}
<1>1. Bad = {}
  <2> SUFFICES ASSUME Bad # {} PROVE FALSE
    OBVIOUS
  <2>1. PICK U \in Bad : \A V \in Bad : <<V, U>> \notin StrictSubsetOrdering(Int)
    <3>1. Bad \subseteq FiniteSubsetsOf(Int)
      OBVIOUS
    <3> HIDE DEF Bad
    <3> QED
      BY <3>1, FS_StrictSubsetOrderingWellFounded, WFMin
  <2>2. U \in SUBSET Int /\ IsFiniteSet(U) /\ U # {} /\ ~Greatest(U)
    BY DEF FiniteSubsetsOf
  <2>3. PICK e : e \in U
    BY <2>2
  <2>4. U \ {e} \in SUBSET Int /\ IsFiniteSet(U \ {e}) /\ U \ {e} # U
    BY <2>2, <2>3, FS_RemoveElement
  <2>5. <<U \ {e}, U>> \in StrictSubsetOrdering(Int)
    BY <2>2, <2>4 DEF StrictSubsetOrdering
  <2>6. U \ {e} = {} \/ Greatest(U \ {e})
    BY <2>1, <2>4, <2>5 DEF FiniteSubsetsOf
  <2>7. Greatest(U)
    BY <2>2, <2>3, <2>6
  <2> QED
    BY <2>2, <2>7
<1>2. Greatest(S)
  BY <1>1 DEF FiniteSubsetsOf
<1> QED
  BY <1>2 DEF Max

\* The image of an interval is finite.
LEMMA ImageIsFinite ==
  ASSUME NEW I, IsFiniteSet(I), NEW f, f = [i \in I |-> f[i]]
  PROVE  IsFiniteSet({f[i] : i \in I})
<1> DEFINE T == {f[i] : i \in I}
<1>1. f \in [I -> T] /\ \A t \in T : \E i \in I : f[i] = t
  OBVIOUS
<1> HIDE DEF T
<1>2. f \in Surjection(I, T)
  BY <1>1 DEF Surjection
<1>3. IsFiniteSet(T)
  BY <1>2, FS_Surjection
<1> QED
  BY <1>3 DEF T

\* The greatest of a number and finitely many others.
LEMMA MaxOfImage ==
  ASSUME NEW I, IsFiniteSet(I), NEW g \in [I -> Int], NEW a \in Int, NEW S,
         \A x : x \in S <=> x = a \/ \E i \in I : x = g[i]
  PROVE  Max(S) \in S /\ \A x \in S : x \in Int /\ x <= Max(S)
<1>1. IsFiniteSet({g[i] : i \in I})
  <2>1. g = [i \in I |-> g[i]]
    OBVIOUS
  <2> QED
    BY <2>1, ImageIsFinite
<1>2. S = {a} \cup {g[i] : i \in I}
  OBVIOUS
<1>3. IsFiniteSet({a})
  BY FS_Singleton
<1>4. IsFiniteSet(S)
  BY <1>1, <1>2, <1>3, FS_Union
<1>5. S \in SUBSET Int /\ S # {}
  OBVIOUS
<1> QED
  BY <1>4, <1>5, MaxExists

\* The contour that is active is one the memory saw.
LEMMA ActiveIs ==
  ASSUME NEW s, Len(s) \in Nat, DOMAIN s = 1..Len(s)
  PROVE  IsFiniteSet(Active(s)) /\ Active(s) \subseteq 1..Len(s)
<1>1. Active(s) \subseteq 1..Len(s)
  BY DEF Active
<1>2. IsFiniteSet(1..Len(s))
  BY FS_Interval
<1> QED
  BY <1>1, <1>2, FS_Subset

\* What the memory tells of a cooldown, and how long it is still away.
LEMMA ToldOfCooldown ==
  ASSUME NEW s \in Seq(Kept), NEW n \in Nat
  PROVE  LET end == Max({n} \cup {s[i].until : i \in Active(s)})
         IN  /\ end \in Nat /\ n <= end
             /\ CooldownLeft(s, n) \in Nat
             /\ 2 * (end - n - CooldownLeft(s, n)) <= Second
<1> DEFINE A == Active(s)
           up == [i \in A |-> s[i].until]
           away == [i \in A |-> s[i].until - n]
           ends == {n} \cup {s[i].until : i \in A}
           waits == {0} \cup {s[i].until - n : i \in A}
<1>1. IsFiniteSet(A) /\ A \subseteq 1..Len(s)
  BY LenProperties, ActiveIs
<1>2. \A i \in A : s[i].until \in Nat
  <2>1. \A i \in 1..Len(s) : s[i] \in Kept
    BY ElementOfSeq
  <2> QED
    BY <1>1, <2>1 DEF Kept
<1>3. up \in [A -> Int] /\ away \in [A -> Int]
  BY <1>2
<1>4. /\ \A x : x \in ends <=> x = n \/ \E i \in A : x = up[i]
      /\ \A x : x \in waits <=> x = 0 \/ \E i \in A : x = away[i]
  OBVIOUS
<1>5. \A x \in ends : x \in Nat
  BY <1>2
<1>6. \A x \in ends : x - n \in waits
  BY <1>2
<1>7. n \in ends /\ 0 \in waits
  OBVIOUS
<1>8. CooldownLeft(s, n) = Rounded(Max(waits))
  BY DEF CooldownLeft
<1> HIDE DEF A, up, away, ends, waits
<1>9. Max(ends) \in ends /\ \A x \in ends : x \in Int /\ x <= Max(ends)
  BY <1>1, <1>3, <1>4, MaxOfImage
<1>10. Max(waits) \in waits /\ \A x \in waits : x \in Int /\ x <= Max(waits)
  <2>1. IsFiniteSet(A) /\ 0 \in Int
    BY <1>1
  <2>2. \A x : x \in waits <=> x = 0 \/ \E i \in A : x = away[i]
    BY <1>4
  <2> QED
    BY <2>1, <2>2, <1>3, MaxOfImage, Zenon
<1>11. Max(ends) \in Nat /\ n <= Max(ends) /\ Max(waits) \in Nat /\ Max(ends) - n <= Max(waits)
  <2>1. Max(ends) \in Nat /\ n <= Max(ends)
    BY <1>5, <1>7, <1>9
  <2>2. Max(waits) \in Int /\ 0 <= Max(waits)
    BY <1>7, <1>10
  <2>3. Max(ends) - n \in waits
    BY <1>6, <1>9
  <2> QED
    BY <2>1, <2>2, <2>3, <1>10
<1>12. Rounded(Max(waits)) \in Nat /\ 2 * (Max(waits) - Rounded(Max(waits))) <= Second
  BY <1>11, RoundedIsClose
<1>13. /\ Max(ends) \in Nat /\ n <= Max(ends) /\ CooldownLeft(s, n) \in Nat
       /\ 2 * (Max(ends) - n - CooldownLeft(s, n)) <= Second
  BY <1>8, <1>11, <1>12, HostMemoryAssumption
<1> QED
  BY <1>13 DEF ends, A

\* What the memory tells a fetcher to avoid are contours and times.
LEMMA AvoidedType ==
  ASSUME NEW s \in Seq(Kept)
  PROVE  Avoided(s) \in SUBSET Labels
<1>1. Active(s) \subseteq 1..Len(s)
  BY LenProperties, ActiveIs
<1>2. \A i \in Active(s) : s[i].contour \in Contours
  <2>1. \A i \in 1..Len(s) : s[i] \in Kept
    BY ElementOfSeq
  <2> QED
    BY <1>1, <2>1 DEF Kept
<1> QED
  BY <1>2 DEF Avoided, SignalLabels, Contours

\* What is learned from a memory is a breaker.
LEMMA BootstrapType ==
  ASSUME NEW b \in BreakerType, NEW s \in Seq(Kept)
  PROVE  Bootstrap(b, s) \in BreakerType
<1>1. CASE b.touched
  BY <1>1 DEF Bootstrap
<1>2. CASE ~b.touched
  <2>1. <<>> \in Seq(Kept) /\ <<>> \o s = s
    BY ConcatEmptySeq
  <2>2. PICK g : /\ g \in [0..Len(s) -> BreakerType]
                 /\ g[Len(s)] = Bootstrap(b, <<>> \o s)
    BY <1>2, <2>1, BootstrapGoesOn
  <2>3. Len(s) \in 0..Len(s)
    BY LenProperties
  <2> QED
    BY <2>1, <2>2, <2>3
<1> QED
  BY <1>1, <1>2

\* What a fetch of a page begins with.
BeginIs(f, h, r, s, breaker, paused) ==
  LET avoid == Avoided(memory[h])
      left  == CooldownLeft(memory[h], now)
  IN  /\ breaker = Bootstrap(own[f].breaker, memory[h])
      /\ s.contour \in Contours \cup {None} /\ s.hint \in Labels \cup {None}
      /\ paused \in BOOLEAN
      /\ own' = [own EXCEPT ![f] = [breaker |-> breaker, cool |-> [own[f].cool EXCEPT ![h] = Seeded(@, left)],
                                       hint |-> [own[f].hint EXCEPT ![h] = s.hint]]]
      /\ paused => Emit(f, h, <<PausedEntry>>) /\ UNCHANGED <<job, known>>
      /\ ~paused => /\ job' = [job EXCEPT ![f] =
                            [pc |-> "first", host |-> h, allowed |-> BrowserAllowed(r[1], r[2]),
                             by |-> InitialTransport(r, breaker.mode = "survival"),
                             profile |-> Guarded(avoid), given |-> s.contour,
                             avoid |-> avoid, free |-> FALSE]]
                    /\ known' = [known EXCEPT ![f] =
                         [told |-> avoid, met |-> {},
                          until |-> Max({now} \cup {memory[h][i].until : i \in Active(memory[h])})]]
                    /\ UNCHANGED <<memory, buffer, history>>
      /\ UNCHANGED <<session, now, asked>>

\* What the begin of a fetch does, whatever was learned.
LEMMA BeginForm ==
  ASSUME FetchTyped, NEW f \in Fetchers, NEW h \in HostsOf[f], NEW r \in Routes, Begin(f, h, r)
  PROVE  job[f] = Idle /\ \E s, breaker, paused : BeginIs(f, h, r, s, breaker, paused)
<1> DEFINE avoid   == Avoided(memory[h])
           left    == CooldownLeft(memory[h], now)
           breaker == Bootstrap(own[f].breaker, memory[h])
           profile == Guarded(avoid)
           inSurvival == breaker.mode = "survival"
           tries   == IF inSurvival /\ Loaded # None /\ profile = None
                      THEN SurvivalProxies(f, h, avoid)
                      ELSE {[contour |-> None, hint |-> own[f].hint[h]]}
           paused(s) == \/ breaker.mode = "paused"
                        \/ inSurvival /\ profile = None /\ s.contour = None
<1>1. /\ job[f] = Idle /\ UNCHANGED <<session, now, asked>>
  BY DEF Begin
<1>2. PICK s \in tries :
           /\ own' = [own EXCEPT ![f] = [breaker |-> breaker, cool |-> [own[f].cool EXCEPT ![h] = Seeded(@, left)],
                                       hint |-> [own[f].hint EXCEPT ![h] = s.hint]]]
           /\ IF paused(s)
              THEN Emit(f, h, <<PausedEntry>>) /\ UNCHANGED <<job, known>>
              ELSE /\ job' = [job EXCEPT ![f] =
                            [pc |-> "first", host |-> h, allowed |-> BrowserAllowed(r[1], r[2]),
                             by |-> InitialTransport(r, inSurvival),
                             profile |-> profile, given |-> s.contour,
                             avoid |-> avoid, free |-> FALSE]]
                   /\ known' = [known EXCEPT ![f] =
                         [told |-> avoid, met |-> {},
                          until |-> Max({now} \cup {memory[h][i].until : i \in Active(memory[h])})]]
                   /\ UNCHANGED <<memory, buffer, history>>
  BY Zenon DEF Begin
<1>3. s.contour \in Contours \cup {None} /\ s.hint \in Labels \cup {None}
  <2>1. own[f].hint[h] \in Labels \cup {None}
    BY DEF FetchTyped, OwnType
  <2>2. CASE s \in SurvivalProxies(f, h, avoid)
    <3>1. PICK u \in Selections(own[f].hint[h], avoid) :
                 s = IF u.contour \in avoid THEN [u EXCEPT !.contour = None] ELSE u
      BY <2>2 DEF SurvivalProxies
    <3>2. u.contour \in Contours /\ u.hint \in Labels \cup {None}
      BY <2>1, SelectionsAre
    <3>3. u = [contour |-> u.contour, hint |-> u.hint]
      BY DEF Selections
    <3> QED
      BY <3>1, <3>2, <3>3
  <2>3. CASE s = [contour |-> None, hint |-> own[f].hint[h]]
    BY <2>1, <2>3
  <2> QED
    BY <2>2, <2>3
<1>4. BeginIs(f, h, r, s, breaker, paused(s))
  <2>1. paused(s) \in BOOLEAN
    OBVIOUS
  <2> QED
    BY <1>1, <1>2, <1>3, <2>1, Zenon DEF BeginIs
<1> QED
  BY <1>1, <1>4, Zenon

\* The begin of a fetch keeps the types.
LEMMA BeginType ==
  ASSUME FetchTyped, NEW f \in Fetchers, NEW h \in HostsOf[f], NEW r \in Routes, Begin(f, h, r)
  PROVE  FetchTyped'
<1>1. PICK s, breaker, paused : BeginIs(f, h, r, s, breaker, paused)
  BY BeginForm
<1> DEFINE avoid == Avoided(memory[h])
           left  == CooldownLeft(memory[h], now)
           end   == Max({now} \cup {memory[h][i].until : i \in Active(memory[h])})
           job1  == [pc |-> "first", host |-> h, allowed |-> BrowserAllowed(r[1], r[2]),
                     by |-> InitialTransport(r, breaker.mode = "survival"),
                     profile |-> Guarded(avoid), given |-> s.contour,
                     avoid |-> avoid, free |-> FALSE]
           known1 == [told |-> avoid, met |-> {}, until |-> end]
<1>2. /\ breaker = Bootstrap(own[f].breaker, memory[h])
      /\ s.contour \in Contours \cup {None} /\ s.hint \in Labels \cup {None}
      /\ paused \in BOOLEAN
      /\ own' = [own EXCEPT ![f] = [breaker |-> breaker, cool |-> [own[f].cool EXCEPT ![h] = Seeded(@, left)],
                                       hint |-> [own[f].hint EXCEPT ![h] = s.hint]]]
      /\ paused => Emit(f, h, <<PausedEntry>>) /\ UNCHANGED <<job, known>>
      /\ ~paused => /\ job' = [job EXCEPT ![f] = job1] /\ known' = [known EXCEPT ![f] = known1]
                    /\ UNCHANGED <<memory, buffer, history>>
      /\ UNCHANGED <<session, now, asked>>
  BY <1>1 DEF BeginIs
<1>3. /\ h \in Hosts /\ memory[h] \in Seq(Kept) /\ now \in Nat /\ own[f].breaker \in BreakerType
      /\ own[f].cool \in [HostsOf[f] -> Nat] /\ own[f].hint \in [HostsOf[f] -> Labels \cup {None}]
  BY DEF Hosts, FetchTyped, OwnType
<1>4. avoid \in SUBSET Labels /\ left \in Nat /\ end \in Nat
  BY <1>3, AvoidedType, ToldOfCooldown
<1>5. breaker \in BreakerType
  BY <1>2, <1>3, BootstrapType
<1>6. Seeded(own[f].cool[h], left) \in Nat
  <2>1. own[f].cool[h] \in Nat /\ now + left \in Nat
    BY <1>3, <1>4
  <2> HIDE DEF left
  <2> QED
    BY <2>1, MaxOfTimes DEF Seeded
<1>7. job1 \in JobType
  <2>1. Guarded(avoid) \in Contours \cup {None}
    BY DEF Guarded, Loaded, FetchTyped
  <2>2. InitialTransport(r, breaker.mode = "survival") \in Transports
    BY DEF InitialTransport, StartTransport, Transports
  <2>3. BrowserAllowed(r[1], r[2]) \in BOOLEAN
    BY DEF BrowserAllowed
  <2> HIDE DEF avoid
  <2> QED
    BY <1>2, <1>3, <1>4, <2>1, <2>2, <2>3 DEF JobType
<1>8. known1 \in KnownType
  BY <1>4 DEF KnownType
<1>9. Stored'
  <2>1. CASE paused
    <3>1. PausedEntry \in Kept
      BY <1>3, EntryType DEF PausedEntry, Classes, Counters, Contours
    <3>2. <<PausedEntry>> \in Seq(Kept)
      BY <3>1
    <3> QED
      BY <1>2, <2>1, <3>2, EmitType
  <2>2. CASE ~paused
    BY <1>2, <2>2 DEF FetchTyped, Stored
  <2> QED
    BY <1>2, <2>1, <2>2
<1> HIDE DEF avoid, left, end, job1, known1
<1>10. job' \in [Fetchers -> JobType] /\ \A g \in Fetchers : job'[g].pc # "idle" => job'[g].host \in HostsOf[g]
  <2>1. CASE paused
    BY <1>2, <2>1 DEF FetchTyped
  <2>2. CASE ~paused
    <3>1. job1.host = h
      BY DEF job1
    <3> QED
      BY <1>2, <1>7, <2>2, <3>1 DEF FetchTyped
  <2> QED
    BY <1>2, <2>1, <2>2
<1>11. known' \in [Fetchers -> KnownType]
  BY <1>2, <1>8 DEF FetchTyped
<1>12. /\ DOMAIN own' = Fetchers
       /\ \A g \in Fetchers : own'[g] \in OwnType(g)
  <2> DEFINE new == [breaker |-> breaker, cool |-> [own[f].cool EXCEPT ![h] = Seeded(@, left)],
                     hint |-> [own[f].hint EXCEPT ![h] = s.hint]]
  <2>1. own' = [own EXCEPT ![f] = new]
    BY <1>2
  <2>2. new \in OwnType(f)
    BY <1>2, <1>3, <1>5, <1>6 DEF OwnType
  <2> HIDE DEF new
  <2> QED
    BY <2>1, <2>2 DEF FetchTyped
<1> QED
  BY <1>2, <1>9, <1>10, <1>11, <1>12 DEF FetchTyped, Stored

\* No entries are sequences of entries.
LEMMA NoEventsType == NoEvents \in [Hosts -> Seq(Kept)]
<1>1. <<>> \in Seq(Kept)
  OBVIOUS
<1> QED
  BY <1>1 DEF NoEvents

\* A new fetcher has its type.
LEMMA FreshType ==
  ASSUME NEW f \in Fetchers
  PROVE  Fresh(f) \in OwnType(f)
BY PristineType DEF Fresh, OwnType

\* A new fetcher keeps the types.
LEMMA NewFetcherType ==
  ASSUME FetchTyped, NEW f \in Fetchers, NewFetcher(f)
  PROVE  FetchTyped'
<1>1. /\ own' = [own EXCEPT ![f] = Fresh(f)]
      /\ buffer' = [g \in Buffered |-> IF g = f THEN Append(buffer[g], NoEvents) ELSE buffer[g]]
      /\ UNCHANGED <<memory, session, job, now, history, known, asked, fetches>>
  BY DEF NewFetcher
<1>2. /\ DOMAIN own' = Fetchers
      /\ \A g \in Fetchers : own'[g] \in OwnType(g)
  BY <1>1, FreshType DEF FetchTyped
<1>3. \A g \in Buffered : /\ buffer'[g] \in Seq([Hosts -> Seq(Kept)]) /\ Len(buffer'[g]) >= 1
  <2> SUFFICES ASSUME NEW g \in Buffered
               PROVE  buffer'[g] \in Seq([Hosts -> Seq(Kept)]) /\ Len(buffer'[g]) >= 1
    OBVIOUS
  <2>1. buffer[g] \in Seq([Hosts -> Seq(Kept)]) /\ Len(buffer[g]) \in Nat /\ Len(buffer[g]) >= 1
    BY LenProperties DEF FetchTyped
  <2>2. /\ Append(buffer[g], NoEvents) \in Seq([Hosts -> Seq(Kept)])
        /\ Len(Append(buffer[g], NoEvents)) = Len(buffer[g]) + 1
    BY <2>1, NoEventsType, AppendProperties
  <2> QED
    BY <1>1, <2>1, <2>2
<1>4. buffer' \in [Buffered -> Seq([Hosts -> Seq(Kept)])]
  BY <1>1, <1>3
<1> QED
  BY <1>1, <1>2, <1>3, <1>4 DEF FetchTyped

\* A resumed ledger keeps the types.
LEMMA ReplayType ==
  ASSUME FetchTyped, NEW f \in Fetchers, Replay(f)
  PROVE  FetchTyped'
<1> DEFINE batch == Head(buffer[f])
<1>1. /\ f \in Buffered /\ Len(buffer[f]) > 1
      /\ memory' = [h \in Hosts |-> Newest(memory[h] \o batch[h])]
      /\ history' = [h \in Hosts |-> history[h] \o Authored(f, batch[h])]
      /\ buffer' = [buffer EXCEPT ![f] = Tail(@)]
      /\ UNCHANGED <<session, own, job, now, known, asked, fetches>>
  BY DEF Replay
<1>2. buffer[f] \in Seq([Hosts -> Seq(Kept)]) /\ Len(buffer[f]) \in Nat /\ buffer[f] # <<>>
  BY <1>1, LenProperties DEF FetchTyped
<1>3. /\ batch \in [Hosts -> Seq(Kept)] /\ Tail(buffer[f]) \in Seq([Hosts -> Seq(Kept)])
      /\ Len(Tail(buffer[f])) = Len(buffer[f]) - 1
  BY <1>2, HeadTailProperties
<1> HIDE DEF batch
<1>4. \A h \in Hosts : Newest(memory[h] \o batch[h]) \in Seq(Kept)
  <2> SUFFICES ASSUME NEW h \in Hosts PROVE Newest(memory[h] \o batch[h]) \in Seq(Kept)
    OBVIOUS
  <2>1. memory[h] \o batch[h] \in Seq(Kept)
    BY <1>3, ConcatProperties DEF FetchTyped
  <2> QED
    BY <2>1, NewestIs
<1>5. \A h \in Hosts : history[h] \o Authored(f, batch[h]) \in Seq(Lived)
  BY <1>3, AuthoredType, ConcatProperties DEF FetchTyped
<1> QED
  BY <1>1, <1>2, <1>3, <1>4, <1>5 DEF FetchTyped

\* The types hold at first.
LEMMA FetchTypedInit == FetchInit => FetchTyped
<1> SUFFICES ASSUME FetchInit PROVE FetchTyped
  OBVIOUS
<1>1. <<>> \in Seq(Kept) /\ <<>> \in Seq(Lived)
  OBVIOUS
<1>2. memory \in [Hosts -> Seq(Kept)] /\ history \in [Hosts -> Seq(Lived)]
  BY <1>1 DEF FetchInit
<1>3. <<NoEvents>> \in Seq([Hosts -> Seq(Kept)]) /\ Len(<<NoEvents>>) >= 1
  BY NoEventsType
<1>4. /\ buffer \in [Buffered -> Seq([Hosts -> Seq(Kept)])]
      /\ \A f \in Buffered : Len(buffer[f]) >= 1
  BY <1>3 DEF FetchInit
<1>5. Idle \in JobType /\ Idle.pc = "idle" /\ NothingKnown \in KnownType
  BY DEF Idle, JobType, NothingKnown, KnownType
<1>6. session \in [contour : Contours \cup {None}, until : Nat]
  BY DEF FetchInit, NoSession
<1> QED
  BY <1>2, <1>4, <1>5, <1>6, FreshType DEF FetchInit, FetchTyped

\* Every step keeps them.
LEMMA FetchTypedNext == FetchTyped /\ [FetchNext]_fetchVars => FetchTyped'
<1> SUFFICES ASSUME FetchTyped, [FetchNext]_fetchVars PROVE FetchTyped'
  OBVIOUS
<1>1. ASSUME NEW f \in Fetchers, NEW h \in HostsOf[f], NEW r \in Routes, Begin(f, h, r)
      PROVE  FetchTyped'
  BY <1>1, BeginType
<1>2. ASSUME NEW f \in Fetchers, Attempt(f) \/ NewFetcher(f) \/ Replay(f) PROVE FetchTyped'
  BY <1>2, AttemptType, NewFetcherType, ReplayType
<1>3. CASE Tick
  BY <1>3 DEF Tick, FetchTyped
<1>4. CASE UNCHANGED fetchVars
  BY <1>4 DEF fetchVars, FetchTyped
<1> QED
  BY <1>1, <1>2, <1>3, <1>4 DEF FetchNext

\* What a fetch must not go through it has among the labels to avoid.
AvoidInv ==
  \A f \in Fetchers : job[f].pc # "idle" =>
    /\ known[f].told \subseteq job[f].avoid
    /\ job[f].free \/ known[f].met \cap Labels \subseteq job[f].avoid

\* Of a cooldown that it was told of or met, a fetch knows what is still to
\* wait, but for half a second.
NearInv ==
  \A f \in Fetchers : job[f].pc # "idle" =>
    \/ 2 * (known[f].until - now) <= Second
    \/ 2 * (known[f].until - own[f].cool[job[f].host]) <= Second

RouteInv == FetchTyped /\ AvoidInv /\ NearInv

\* A fetcher that is not at a page, or goes on as it was.
LEMMA OthersKeep ==
  ASSUME RouteInv, NEW g \in Fetchers, job'[g] = job[g], known'[g] = known[g], own'[g] = own[g],
         now' = now
  PROVE  job'[g].pc # "idle" =>
           /\ known'[g].told \subseteq job'[g].avoid
           /\ job'[g].free \/ known'[g].met \cap Labels \subseteq job'[g].avoid
           /\ \/ 2 * (known'[g].until - now') <= Second
              \/ 2 * (known'[g].until - own'[g].cool[job'[g].host]) <= Second
BY DEF RouteInv, AvoidInv, NearInv

\* The begin of a fetch keeps the invariant of the routes.
LEMMA BeginKeeps ==
  ASSUME RouteInv, NEW f \in Fetchers, NEW h \in HostsOf[f], NEW r \in Routes, Begin(f, h, r)
  PROVE  AvoidInv' /\ NearInv'
<1>1. job[f] = Idle /\ \E s, breaker, paused : BeginIs(f, h, r, s, breaker, paused)
  BY BeginForm DEF RouteInv
<1>2. PICK s, breaker, paused : BeginIs(f, h, r, s, breaker, paused)
  BY <1>1
<1> DEFINE avoid == Avoided(memory[h])
           left  == CooldownLeft(memory[h], now)
           end   == Max({now} \cup {memory[h][i].until : i \in Active(memory[h])})
           cool  == Seeded(own[f].cool[h], left)
<1>3. /\ now' = now
      /\ \A g \in Fetchers \ {f} : job'[g] = job[g] /\ known'[g] = known[g] /\ own'[g] = own[g]
      /\ own'[f].cool[h] = cool
      /\ paused \in BOOLEAN
      /\ paused => job'[f] = job[f]
      /\ ~paused => /\ job'[f].pc = "first" /\ job'[f].host = h /\ job'[f].avoid = avoid
                    /\ known'[f].told = avoid /\ known'[f].met = {} /\ known'[f].until = end
  BY <1>2 DEF BeginIs, RouteInv, FetchTyped, OwnType
<1>4. /\ memory[h] \in Seq(Kept) /\ now \in Nat /\ own[f].cool[h] \in Nat /\ Second \in Nat
  BY HostMemoryAssumption DEF RouteInv, FetchTyped, OwnType, Hosts
<1>5. /\ end \in Nat /\ now <= end /\ left \in Nat
      /\ 2 * (end - now - left) <= Second
  BY <1>4, ToldOfCooldown
<1>6. \/ 2 * (end - now) <= Second
      \/ cool \in Nat /\ 2 * (end - cool) <= Second
  <2> HIDE DEF left, end
  <2>1. CASE left = 0
    BY <1>4, <1>5, <2>1
  <2>2. CASE left > 0
    <3>1. cool = Max({own[f].cool[h], now + left})
      BY <2>2 DEF Seeded
    <3>2. now + left \in Nat
      BY <1>4, <1>5
    <3>3. cool \in Nat /\ now + left <= cool
      BY <1>4, <3>1, <3>2, MaxOfTimes
    <3> HIDE DEF cool
    <3> QED
      BY <1>4, <1>5, <3>3
  <2> QED
    BY <1>5, <2>1, <2>2
<1> HIDE DEF avoid, left, end, cool
<1>7. ASSUME NEW g \in Fetchers, job'[g].pc # "idle"
      PROVE  /\ known'[g].told \subseteq job'[g].avoid
             /\ job'[g].free \/ known'[g].met \cap Labels \subseteq job'[g].avoid
             /\ \/ 2 * (known'[g].until - now') <= Second
                \/ 2 * (known'[g].until - own'[g].cool[job'[g].host]) <= Second
  <2>1. CASE g # f
    BY <1>3, <1>7, <2>1, OthersKeep
  <2>2. CASE g = f /\ paused
    BY <1>1, <1>3, <1>7, <2>2 DEF Idle
  <2>3. CASE g = f /\ ~paused
    BY <1>3, <1>6, <2>3
  <2> QED
    BY <1>3, <2>1, <2>2, <2>3
<1> QED
  BY <1>7 DEF AvoidInv, NearInv

\* So does an attempt.
LEMMA AttemptKeeps ==
  ASSUME RouteInv, NEW f \in Fetchers, Attempt(f)
  PROVE  AvoidInv' /\ NearInv'
<1>1. job[f].pc # "idle" /\ UNCHANGED <<now, fetches>>
  BY AttemptForm DEF RouteInv
<1>2. PICK c, hint, asks, status, d, waited, hard, pre, post, next :
        AttemptIs(f, c, hint, asks, status, d, waited, hard, pre, post, next)
  BY AttemptForm DEF RouteInv
<1> DEFINE j == job[f]
           h == j.host
           k == known[f]
           cool == own[f].cool[h]
           secs == Max({waited, d.secs})
           until == Cooled(cool, d.class, secs)
           left  == HostLeft(until)
           end   == Max({k.until, now + waited, now + left, now + d.secs})
<1>3. /\ c \in Contours /\ waited \in Nat /\ d.class \in Classes /\ d.secs \in Nat
      /\ d.usable <=> d.class = "SUCCESS"
      /\ d.class = "RATE_LIMIT" /\ d.escalate /\ j.pc = "first" => d.retry
      /\ own' = [own EXCEPT ![f] =
                   [breaker |-> ApplyDecision(own[f].breaker, d.class, d.gate, now, NotRecorded),
                    cool |-> [own[f].cool EXCEPT ![h] = until],
                    hint |-> [own[f].hint EXCEPT ![h] = hint]]]
      /\ known' = [known EXCEPT ![f] =
                     IF next = Idle THEN NothingKnown
                     ELSE [told |-> @.told, met |-> IF hard THEN {c} ELSE {},
                           until |-> Max({@.until, now + waited, now + left, now + d.secs})]]
      /\ job' = [job EXCEPT ![f] = next]
      /\ next # Idle => j.pc = "first" /\ next = Followup(j, d, status, c, left)
  BY <1>2 DEF AttemptIs
<1>4. /\ j \in JobType /\ h \in HostsOf[f] /\ now \in Nat /\ now' = now
      /\ cool \in Nat /\ own[f].cool \in [HostsOf[f] -> Nat] /\ k \in KnownType /\ k.until \in Nat
      /\ DOMAIN own = Fetchers /\ DOMAIN job = Fetchers /\ DOMAIN known = Fetchers
      /\ Second \in Nat
  BY <1>1, HostMemoryAssumption DEF RouteInv, FetchTyped, OwnType, KnownType
<1>5. secs \in Nat /\ waited <= secs /\ d.secs <= secs
  BY <1>3, MaxOfTimes
<1> HIDE DEF secs
<1>6. /\ until \in Nat
      /\ d.class # "SUCCESS" => cool <= until /\ (secs > 0 => now + secs <= until)
  BY <1>3, <1>4, <1>5, CooledIs
<1>7. left \in Nat /\ (left = 0 \/ 2 * (now + left - until) <= Second)
  <2>1. CASE until > now
    <3>1. until - now \in Nat
      BY <1>4, <1>6, <2>1
    <3>2. left = Rounded(until - now)
      BY <2>1 DEF HostLeft
    <3> HIDE DEF until, left
    <3>3. left \in Nat /\ 2 * (left - (until - now)) <= Second
      BY <3>1, <3>2, RoundedIsClose
    <3> QED
      BY <1>4, <1>6, <3>3
  <2>2. CASE ~(until > now)
    BY <2>2 DEF HostLeft
  <2> QED
    BY <2>1, <2>2
<1> HIDE DEF until, left
<1>8. ASSUME d.class # "SUCCESS"
      PROVE  2 * (end - now) <= Second \/ 2 * (end - until) <= Second
  <2>1. end \in {k.until, now + waited, now + left, now + d.secs}
    <3>1. now + waited \in Nat /\ now + left \in Nat /\ now + d.secs \in Nat
      BY <1>3, <1>4, <1>7
    <3> QED
      BY <1>4, <3>1, MaxOfFour
  <2> HIDE DEF end
  <2>2. CASE end = k.until
    <3>1. 2 * (k.until - now) <= Second \/ 2 * (k.until - cool) <= Second
      BY <1>1 DEF RouteInv, NearInv
    <3> HIDE DEF k, cool
    <3> QED
      BY <1>4, <1>6, <1>8, <2>2, <3>1
  <2>3. CASE end = now + left
    <3> HIDE DEF k, cool
    <3> QED
      BY <1>4, <1>6, <1>7, <2>3
  <2>4. CASE end = now + waited \/ end = now + d.secs
    <3> HIDE DEF k, cool
    <3> QED
      BY <1>3, <1>4, <1>5, <1>6, <1>8, <2>4
  <2> QED
    BY <2>1, <2>2, <2>3, <2>4
<1> HIDE DEF end
<1>9. ASSUME next # Idle
      PROVE  /\ next.pc = "second" /\ next.host = h /\ j.avoid \subseteq next.avoid
             /\ d.class # "SUCCESS"
             /\ next.free \/ {c} \cap Labels \subseteq next.avoid
  <2>1. next = Followup(j, d, status, c, left) /\ j.pc = "first"
    BY <1>3, <1>9
  <2>2. j \in JobType /\ c \in Contours
    BY <1>3, <1>4
  <2> HIDE DEF j
  <2> QED
    BY <1>3, <1>9, <2>1, <2>2, FollowupIs DEF h
<1>10. /\ \A g \in Fetchers \ {f} : job'[g] = job[g] /\ known'[g] = known[g] /\ own'[g] = own[g]
       /\ own'[f].cool[h] = until
       /\ job'[f] = next
       /\ next # Idle => /\ known'[f].told = k.told /\ known'[f].until = end
                         /\ known'[f].met \subseteq {c}
  BY <1>3, <1>4 DEF end
<1>11. ASSUME NEW g \in Fetchers, job'[g].pc # "idle"
      PROVE  /\ known'[g].told \subseteq job'[g].avoid
             /\ job'[g].free \/ known'[g].met \cap Labels \subseteq job'[g].avoid
             /\ \/ 2 * (known'[g].until - now') <= Second
                \/ 2 * (known'[g].until - own'[g].cool[job'[g].host]) <= Second
  <2>1. CASE g # f
    BY <1>4, <1>10, <1>11, <2>1, OthersKeep
  <2>2. CASE g = f
    <3>1. next # Idle
      BY <1>10, <1>11, <2>2 DEF Idle
    <3>2. k.told \subseteq j.avoid
      BY <1>1 DEF RouteInv, AvoidInv
    <3> HIDE DEF j, k, h
    <3> QED
      BY <1>4, <1>8, <1>9, <1>10, <2>2, <3>1, <3>2
  <2> QED
    BY <2>1, <2>2
<1> QED
  BY <1>11 DEF AvoidInv, NearInv

\* So does a new fetcher.
LEMMA NewFetcherKeeps ==
  ASSUME RouteInv, NEW f \in Fetchers, NewFetcher(f)
  PROVE  AvoidInv' /\ NearInv'
<1>1. /\ job[f] = Idle /\ own' = [own EXCEPT ![f] = Fresh(f)]
      /\ UNCHANGED <<job, now, known>>
  BY DEF NewFetcher
<1>2. ASSUME NEW g \in Fetchers, job'[g].pc # "idle"
      PROVE  /\ known'[g].told \subseteq job'[g].avoid
             /\ job'[g].free \/ known'[g].met \cap Labels \subseteq job'[g].avoid
             /\ \/ 2 * (known'[g].until - now') <= Second
                \/ 2 * (known'[g].until - own'[g].cool[job'[g].host]) <= Second
  <2>1. g # f
    BY <1>1, <1>2 DEF Idle
  <2>2. own'[g] = own[g]
    BY <1>1, <2>1 DEF RouteInv, FetchTyped
  <2> QED
    BY <1>1, <1>2, <2>2, OthersKeep
<1> QED
  BY <1>2 DEF AvoidInv, NearInv

\* So does time.
LEMMA TickKeeps ==
  ASSUME RouteInv, Tick
  PROVE  AvoidInv' /\ NearInv'
<1>1. now \in Nat /\ now' = now + 1 /\ UNCHANGED <<job, own, known>>
  BY DEF Tick, RouteInv, FetchTyped
<1>2. ASSUME NEW g \in Fetchers, job[g].pc # "idle"
      PROVE  \/ 2 * (known[g].until - now') <= Second
             \/ 2 * (known[g].until - own[g].cool[job[g].host]) <= Second
  <2>1. known[g].until \in Nat /\ Second \in Nat
    BY HostMemoryAssumption DEF RouteInv, FetchTyped, KnownType
  <2>2. \/ 2 * (known[g].until - now) <= Second
        \/ 2 * (known[g].until - own[g].cool[job[g].host]) <= Second
    BY <1>2 DEF RouteInv, NearInv
  <2> QED
    BY <1>1, <2>1, <2>2
<1> QED
  BY <1>1, <1>2 DEF RouteInv, AvoidInv, NearInv

\* The invariant of the routes holds at first.
LEMMA RouteInvInit == FetchInit => RouteInv
<1> SUFFICES ASSUME FetchInit PROVE RouteInv
  OBVIOUS
<1>1. \A f \in Fetchers : job[f].pc = "idle"
  BY DEF FetchInit, Idle
<1> QED
  BY <1>1, FetchTypedInit DEF RouteInv, AvoidInv, NearInv

\* Every step keeps it.
LEMMA RouteInvNext == RouteInv /\ [FetchNext]_fetchVars => RouteInv'
<1> SUFFICES ASSUME RouteInv, [FetchNext]_fetchVars PROVE RouteInv'
  OBVIOUS
<1>1. FetchTyped'
  BY FetchTypedNext DEF RouteInv
<1> SUFFICES AvoidInv' /\ NearInv'
  BY <1>1 DEF RouteInv
<1>2. ASSUME NEW f \in Fetchers, NEW h \in HostsOf[f], NEW r \in Routes, Begin(f, h, r)
      PROVE  AvoidInv' /\ NearInv'
  BY <1>2, BeginKeeps
<1>3. ASSUME NEW f \in Fetchers, Attempt(f) \/ NewFetcher(f) PROVE AvoidInv' /\ NearInv'
  BY <1>3, AttemptKeeps, NewFetcherKeeps
<1>4. ASSUME NEW f \in Fetchers, Replay(f) PROVE AvoidInv' /\ NearInv'
  BY <1>4 DEF Replay, RouteInv, AvoidInv, NearInv
<1>5. CASE Tick
  BY <1>5, TickKeeps
<1>6. CASE UNCHANGED fetchVars
  BY <1>6 DEF fetchVars, RouteInv, AvoidInv, NearInv
<1> QED
  BY <1>2, <1>3, <1>4, <1>5, <1>6 DEF FetchNext

\* The invariant of the routes, for any hosts, proxies and responses.
THEOREM RouteInvHolds == FetchSpec => []RouteInv
BY RouteInvInit, RouteInvNext, PTL DEF FetchSpec

\* Who asks, and how.
LEMMA AskedIs ==
  ASSUME RouteInv, [FetchNext]_fetchVars, NEW f \in Fetchers, Asks(f)
  PROVE  \E c, hint, asks, status, d, waited, hard, pre, post, next :
           AttemptIs(f, c, hint, asks, status, d, waited, hard, pre, post, next)
             /\ asks /\ job[f].pc # "idle"
<1>1. asked' # asked
  BY DEF Asks
<1>2. PICK g \in Fetchers : Attempt(g)
  BY <1>1 DEF FetchNext, fetchVars, Begin, NewFetcher, Replay, Tick
<1>3. PICK c, hint, asks, status, d, waited, hard, pre, post, next :
        AttemptIs(g, c, hint, asks, status, d, waited, hard, pre, post, next)
  BY <1>2, AttemptForm DEF RouteInv
<1>4. asked' = IF asks THEN [asked EXCEPT ![g] = [n |-> @.n + 1, handed |-> c,
                                                    free |-> job[g].free]]
                ELSE asked
  BY <1>3 DEF AttemptIs
<1>5. asks /\ g = f
  BY <1>1, <1>4 DEF Asks
<1>6. job[g].pc # "idle"
  BY <1>2, AttemptForm DEF RouteInv
<1> QED
  BY <1>3, <1>5, <1>6, Zenon

\* An attempt that asks was handed no blocked proxy and no cooling host.
LEMMA AskSpares ==
  ASSUME RouteInv, [FetchNext]_fetchVars, NEW f \in Fetchers, Asks(f)
  PROVE  /\ asked'[f].handed \notin
              Labels \cap (known[f].told \cup IF asked'[f].free THEN {} ELSE known[f].met)
         /\ known[f].until - now <= 2 * (Second \div 2)
<1>1. PICK c, hint, asks, status, d, waited, hard, pre, post, next :
        AttemptIs(f, c, hint, asks, status, d, waited, hard, pre, post, next)
          /\ asks /\ job[f].pc # "idle"
  BY AskedIs
<1> DEFINE j == job[f]
           cool == own[f].cool[j.host]
           until == known[f].until
<1>2. /\ asks => c \notin j.avoid /\ HostLeft(cool) = 0
      /\ asked' = IF asks THEN [asked EXCEPT ![f] = [n |-> @.n + 1, handed |-> c, free |-> j.free]]
                  ELSE asked
  BY <1>1 DEF AttemptIs
<1>3. /\ c \notin j.avoid /\ HostLeft(cool) = 0
      /\ asked'[f].handed = c /\ asked'[f].free = j.free
  BY <1>1, <1>2 DEF RouteInv, FetchTyped
<1>4. /\ known[f].told \subseteq j.avoid
      /\ j.free \/ known[f].met \cap Labels \subseteq j.avoid
      /\ 2 * (until - now) <= Second \/ 2 * (until - cool) <= Second
  BY <1>1 DEF RouteInv, AvoidInv, NearInv
<1>5. cool \in Nat /\ until \in Nat /\ now \in Nat /\ Second \in Nat
  BY <1>1, HostMemoryAssumption DEF RouteInv, FetchTyped, OwnType, KnownType
<1> HIDE DEF j, cool, until
<1>6. 2 * (cool - now) <= Second
  <2>1. CASE cool > now
    <3>1. cool - now \in Nat
      BY <1>5, <2>1
    <3>2. Rounded(cool - now) = 0
      BY <1>3, <2>1 DEF HostLeft
    <3> QED
      BY <3>1, <3>2, RoundedIsClose
  <2>2. CASE ~(cool > now)
    BY <1>5, <2>2
  <2> QED
    BY <2>1, <2>2
<1>7. until - now <= 2 * (Second \div 2)
  BY <1>4, <1>5, <1>6
<1>8. asked'[f].handed \notin
        Labels \cap (known[f].told \cup IF asked'[f].free THEN {} ELSE known[f].met)
  BY <1>3, <1>4
<1> QED
  BY <1>7, <1>8 DEF until

\* The fetcher never hands a request to a proxy that is known to be blocked at its
\* host, whatever selected it; the client may come to one when a proxy fails.
THEOREM BlockedProxyIsAvoidedHolds == FetchSpec => BlockedProxyIsAvoided
<1>1. RouteInv /\ [FetchNext]_fetchVars =>
        [\A f \in Fetchers : Asks(f) =>
           asked'[f].handed \notin
             Labels \cap (known[f].told \cup IF asked'[f].free THEN {} ELSE known[f].met)]_fetchVars
  BY AskSpares
<1> QED
  BY <1>1, RouteInvHolds, PTL DEF FetchSpec, BlockedProxyIsAvoided

\* No request is made during a cooldown the fetch was told of or met, but
\* for what is lost where its end is rounded.
THEOREM CoolingHostIsSparedHolds == FetchSpec => CoolingHostIsSpared
<1>1. RouteInv /\ [FetchNext]_fetchVars =>
        [\A f \in Fetchers : Asks(f) => known[f].until - now <= 2 * (Second \div 2)]_fetchVars
  BY AskSpares
<1> QED
  BY <1>1, RouteInvHolds, PTL DEF FetchSpec, CoolingHostIsSpared

\* What the memory keeps of an attempt is what happened.
Agree(a, b) == a.class = b.class /\ a.contour = b.contour /\ a.verdict = b.verdict /\ a.until = b.until

\* The memory m is the end of the history s.
EndOf(m, s) ==
  /\ Len(m) = IF Len(s) <= LedgerLimit THEN Len(s) ELSE LedgerLimit
  /\ \A i \in 1..Len(m) : Agree(m[i], s[Len(s) - Len(m) + i])

LedgerInv == \A h \in Hosts : EndOf(memory[h], history[h])

\* What follows in the history follows in the memory, which keeps the newest.
LEMMA EndGoesOn ==
  ASSUME NEW m \in Seq(Kept), NEW s \in Seq(Lived), EndOf(m, s),
         NEW f \in Fetchers, NEW e \in Seq(Kept)
  PROVE  EndOf(Newest(m \o e), s \o Authored(f, e))
<1> DEFINE L == Authored(f, e)
           a == m \o e
           b == s \o L
           N == Newest(a)
<1>1. /\ Len(m) \in Nat /\ Len(s) \in Nat /\ Len(e) \in Nat /\ LedgerLimit \in Nat \ {0}
      /\ L \in Seq(Lived) /\ Len(L) = Len(e)
      /\ \A i \in 1..Len(e) : Agree(e[i], L[i])
  BY LenProperties, AuthoredType, HostMemoryAssumption DEF Agree
<1> HIDE DEF L
<1>2. /\ a \in Seq(Kept) /\ Len(a) = Len(m) + Len(e)
      /\ \A i \in 1..(Len(m) + Len(e)) : a[i] = IF i <= Len(m) THEN m[i] ELSE e[i - Len(m)]
  BY ConcatProperties
<1>3. /\ b \in Seq(Lived) /\ Len(b) = Len(s) + Len(e)
      /\ \A i \in 1..(Len(s) + Len(e)) : b[i] = IF i <= Len(s) THEN s[i] ELSE L[i - Len(s)]
  BY <1>1, ConcatProperties
<1> HIDE DEF a, b
<1>4. /\ Len(N) = IF Len(a) <= LedgerLimit THEN Len(a) ELSE LedgerLimit
      /\ \A i \in 1..Len(N) : N[i] = a[Len(a) - Len(N) + i]
  BY <1>2, NewestIs
<1> HIDE DEF N
<1>5. /\ Len(m) = IF Len(s) <= LedgerLimit THEN Len(s) ELSE LedgerLimit
      /\ \A i \in 1..Len(m) : Agree(m[i], s[Len(s) - Len(m) + i])
  BY DEF EndOf
<1>6. Len(N) = IF Len(b) <= LedgerLimit THEN Len(b) ELSE LedgerLimit
  BY <1>1, <1>2, <1>3, <1>4, <1>5
<1>7. ASSUME NEW i \in 1..Len(N) PROVE Agree(N[i], b[Len(b) - Len(N) + i])
  <2> DEFINE k == Len(a) - Len(N) + i
             l == Len(b) - Len(N) + i
  <2>1. /\ k \in 1..(Len(m) + Len(e)) /\ l \in 1..(Len(s) + Len(e))
        /\ l = Len(s) - Len(m) + k /\ Len(m) <= Len(s)
    <3>1. Len(a) = Len(m) + Len(e) /\ Len(b) = Len(s) + Len(e)
      BY <1>2, <1>3
    <3>2. Len(N) \in Nat /\ Len(N) <= Len(a)
      BY <1>1, <1>4, <3>1
    <3>3. Len(N) <= Len(b) /\ Len(m) <= Len(s)
      BY <1>1, <1>5, <1>6, <3>1
    <3> QED
      BY <1>1, <3>1, <3>2, <3>3
  <2>2. N[i] = a[k]
    BY <1>4
  <2> HIDE DEF k, l
  <2>3. CASE k <= Len(m)
    <3>1. l <= Len(s) /\ k \in 1..Len(m)
      BY <1>1, <2>1, <2>3
    <3>2. a[k] = m[k] /\ b[l] = s[l]
      BY <1>2, <1>3, <2>1, <2>3, <3>1
    <3> QED
      BY <1>5, <2>1, <2>2, <3>1, <3>2 DEF l
  <2>4. CASE ~(k <= Len(m))
    <3>1. ~(l <= Len(s)) /\ l - Len(s) = k - Len(m) /\ k - Len(m) \in 1..Len(e)
      BY <1>1, <2>1, <2>4
    <3>2. a[k] = e[k - Len(m)] /\ b[l] = L[k - Len(m)]
      BY <1>2, <1>3, <2>1, <2>4, <3>1
    <3> QED
      BY <1>1, <2>2, <3>1, <3>2 DEF l
  <2> QED
    BY <2>3, <2>4
<1> QED
  BY <1>6, <1>7 DEF EndOf, N, b, a, L

\* What a fetcher records goes to both.
LEMMA EmitKeepsLedger ==
  ASSUME RouteInv, LedgerInv, NEW f \in Fetchers, NEW h \in HostsOf[f],
         NEW entries \in Seq(Kept), Emit(f, h, entries)
  PROVE  LedgerInv'
<1>1. CASE f \in Buffered
  BY <1>1 DEF Emit, LedgerInv
<1>2. CASE f \notin Buffered
  <2>1. /\ memory' = [memory EXCEPT ![h] = Newest(@ \o entries)]
        /\ history' = [history EXCEPT ![h] = @ \o Authored(f, entries)]
    BY <1>2 DEF Emit
  <2>2. h \in Hosts /\ memory[h] \in Seq(Kept) /\ history[h] \in Seq(Lived)
    BY DEF Hosts, RouteInv, FetchTyped
  <2>3. EndOf(Newest(memory[h] \o entries), history[h] \o Authored(f, entries))
    BY <2>2, EndGoesOn DEF LedgerInv
  <2> QED
    BY <2>1, <2>2, <2>3 DEF LedgerInv, RouteInv, FetchTyped
<1> QED
  BY <1>1, <1>2

\* What an attempt writes.
LEMMA AttemptWrites ==
  ASSUME FetchTyped, NEW f \in Fetchers,
         NEW c, NEW hint, NEW asks, NEW status, NEW d, NEW waited, NEW hard, NEW pre, NEW post, NEW next,
         AttemptIs(f, c, hint, asks, status, d, waited, hard, pre, post, next), job[f].pc # "idle"
  PROVE  \E e \in Kept : /\ e.class = d.class
                         /\ pre \o <<e>> \o post \in Seq(Kept)
                         /\ Emit(f, job[f].host, pre \o <<e>> \o post)
<1> DEFINE h == job[f].host
           until == Cooled(own[f].cool[h], d.class, Max({waited, d.secs}))
           left  == HostLeft(until)
           e == AttemptEntry(c, d.class, d.gate, hard, Max({left, d.secs}))
<1>1. /\ c \in Contours /\ waited \in Nat /\ hard \in BOOLEAN
      /\ d.class \in Classes /\ d.gate \in BOOLEAN /\ d.secs \in Nat
      /\ pre \in Seq(Kept) /\ post \in Seq(Kept)
      /\ Emit(f, h, pre \o <<e>> \o post)
  BY DEF AttemptIs
<1>2. now \in Nat /\ own[f].cool[h] \in Nat
  BY DEF FetchTyped, OwnType
<1>3. Max({left, d.secs}) \in Nat
  <2>1. Max({waited, d.secs}) \in Nat
    BY <1>1, MaxOfTimes
  <2>2. until \in Nat
    BY <1>1, <1>2, <2>1, CooledIs
  <2>3. left \in Nat
    BY <1>2, <2>2, HostLeftType
  <2> HIDE DEF until, left
  <2> QED
    BY <1>1, <2>3, MaxOfTimes
<1>4. e \in Kept
  BY <1>1, <1>2, <1>3, EntryType
<1>5. e.class = d.class
  BY DEF AttemptEntry
<1> HIDE DEF e
<1>6. pre \o <<e>> \o post \in Seq(Kept)
  BY <1>1, <1>4, ConcatType
<1> QED
  BY <1>1, <1>4, <1>5, <1>6

\* The entry of a pause.
LEMMA PausedType ==
  ASSUME now \in Nat
  PROVE  PausedEntry \in Kept /\ PausedEntry.class = "HARD_BAN" /\ <<PausedEntry>> \in Seq(Kept)
<1>1. PausedEntry \in Kept
  BY EntryType DEF PausedEntry, Classes, Counters, Contours
<1> QED
  BY <1>1 DEF PausedEntry, AttemptEntry

\* The memory is the end of the history at first.
LEMMA LedgerInvInit == FetchInit => LedgerInv
<1> SUFFICES ASSUME FetchInit, NEW h \in Hosts PROVE EndOf(memory[h], history[h])
  BY DEF LedgerInv
<1>1. memory[h] = <<>> /\ history[h] = <<>>
  BY DEF FetchInit
<1> QED
  BY <1>1, HostMemoryAssumption DEF EndOf

\* Every step keeps it so.
LEMMA LedgerInvNext == RouteInv /\ LedgerInv /\ [FetchNext]_fetchVars => LedgerInv'
<1> SUFFICES ASSUME RouteInv, LedgerInv, [FetchNext]_fetchVars PROVE LedgerInv'
  OBVIOUS
<1>1. ASSUME NEW f \in Fetchers, NEW h \in HostsOf[f], NEW r \in Routes, Begin(f, h, r)
      PROVE  LedgerInv'
  <2>1. PICK s, breaker, paused : BeginIs(f, h, r, s, breaker, paused)
    BY <1>1, BeginForm DEF RouteInv
  <2>2. /\ paused \in BOOLEAN
        /\ paused => Emit(f, h, <<PausedEntry>>)
        /\ ~paused => UNCHANGED <<memory, buffer, history>>
    BY <2>1 DEF BeginIs
  <2>3. <<PausedEntry>> \in Seq(Kept)
    BY PausedType DEF RouteInv, FetchTyped
  <2>4. CASE paused
    BY <2>2, <2>3, <2>4, EmitKeepsLedger
  <2>5. CASE ~paused
    BY <2>2, <2>5 DEF LedgerInv
  <2> QED
    BY <2>2, <2>4, <2>5
<1>2. ASSUME NEW f \in Fetchers, Attempt(f) PROVE LedgerInv'
  <2>1. job[f].pc # "idle"
    BY <1>2, AttemptForm DEF RouteInv
  <2>2. PICK c, hint, asks, status, d, waited, hard, pre, post, next :
          AttemptIs(f, c, hint, asks, status, d, waited, hard, pre, post, next)
    BY <1>2, AttemptForm DEF RouteInv
  <2>3. PICK e \in Kept : /\ pre \o <<e>> \o post \in Seq(Kept)
                          /\ Emit(f, job[f].host, pre \o <<e>> \o post)
    BY <2>1, <2>2, AttemptWrites DEF RouteInv
  <2>4. job[f].host \in HostsOf[f]
    BY <2>1 DEF RouteInv, FetchTyped
  <2> QED
    BY <2>3, <2>4, EmitKeepsLedger
<1>3. ASSUME NEW f \in Fetchers, Replay(f) PROVE LedgerInv'
  <2> DEFINE batch == Head(buffer[f])
  <2>1. /\ memory' = [h \in Hosts |-> Newest(memory[h] \o batch[h])]
        /\ history' = [h \in Hosts |-> history[h] \o Authored(f, batch[h])]
        /\ f \in Buffered /\ Len(buffer[f]) > 1
    BY <1>3 DEF Replay
  <2>2. batch \in [Hosts -> Seq(Kept)]
    BY <2>1, HeadTailProperties, LenProperties DEF RouteInv, FetchTyped
  <2> HIDE DEF batch
  <2> SUFFICES ASSUME NEW h \in Hosts PROVE EndOf(memory'[h], history'[h])
    BY DEF LedgerInv
  <2>3. memory[h] \in Seq(Kept) /\ history[h] \in Seq(Lived) /\ batch[h] \in Seq(Kept)
    BY <2>2 DEF RouteInv, FetchTyped
  <2>4. EndOf(Newest(memory[h] \o batch[h]), history[h] \o Authored(f, batch[h]))
    BY <2>3, EndGoesOn DEF LedgerInv
  <2> QED
    BY <2>1, <2>4
<1>4. CASE UNCHANGED <<memory, history>>
  BY <1>4 DEF LedgerInv
<1> QED
  BY <1>1, <1>2, <1>3, <1>4 DEF FetchNext, fetchVars, NewFetcher, Tick

\* Rounding keeps the order of times.
LEMMA RoundedGrows ==
  ASSUME NEW x \in Nat, NEW y \in Nat, x <= y
  PROVE  Rounded(x) <= Rounded(y)
<1> DEFINE s == x \div Second
           r == x % Second
           t == y \div Second
           u == y % Second
<1>1. Second \in Nat \ {0}
  BY HostMemoryAssumption
<1>2. /\ s \in Nat /\ r \in 0..(Second - 1) /\ x = Second * s + r
      /\ t \in Nat /\ u \in 0..(Second - 1) /\ y = Second * t + u
  BY <1>1
<1>3. /\ Rounded(x) = Second * IF 2 * r > Second \/ (2 * r = Second /\ s % 2 = 1) THEN s + 1 ELSE s
      /\ Rounded(y) = Second * IF 2 * u > Second \/ (2 * u = Second /\ t % 2 = 1) THEN t + 1 ELSE t
  BY DEF Rounded
<1> HIDE DEF s, r, t, u
<1>4. Second * (s + 1) = Second * s + Second /\ Second * (t + 1) = Second * t + Second
  BY <1>1, <1>2
<1>5. Second * s \in Nat /\ Second * t \in Nat
  BY <1>1, <1>2
<1>6. CASE s = t
  BY <1>1, <1>2, <1>3, <1>4, <1>5, <1>6
<1>7. CASE s < t
  <2>1. t - (s + 1) \in Nat
    BY <1>2, <1>7
  <2>2. Second * (t - (s + 1)) \in Nat
    BY <1>1, <2>1
  <2>3. Second * t = Second * (s + 1) + Second * (t - (s + 1))
    BY <1>1, <1>2
  <2> QED
    BY <1>1, <1>2, <1>3, <1>4, <1>5, <2>2, <2>3
<1>8. CASE t < s
  <2>1. s - (t + 1) \in Nat
    BY <1>2, <1>8
  <2>2. Second * (s - (t + 1)) \in Nat
    BY <1>1, <2>1
  <2>3. Second * s = Second * (t + 1) + Second * (s - (t + 1))
    BY <1>1, <1>2
  <2> QED
    BY <1>1, <1>2, <1>4, <1>5, <2>2, <2>3
<1> QED
  BY <1>2, <1>6, <1>7, <1>8

\* The attempts with a signal the memory keeps are those of the history.
LEMMA ActiveOfEnd ==
  ASSUME NEW m \in Seq(Kept), NEW s \in Seq(Lived), EndOf(m, s)
  PROVE  /\ Len(m) \in Nat /\ Len(s) \in Nat /\ Len(m) <= Len(s)
         /\ Active(m) \subseteq 1..Len(m) /\ Active(s) \subseteq 1..Len(s)
         /\ \A i \in 1..Len(m) : i \in Active(m) <=> Len(s) - Len(m) + i \in Active(s)
<1> DEFINE D == Len(s) - Len(m)
<1>1. /\ Len(m) \in Nat /\ Len(s) \in Nat /\ LedgerLimit \in Nat
      /\ DOMAIN m = 1..Len(m) /\ DOMAIN s = 1..Len(s)
  BY LenProperties, HostMemoryAssumption
<1>2. /\ Len(m) <= Len(s)
      /\ \A i \in 1..Len(m) : Agree(m[i], s[D + i])
  <2>1. /\ Len(m) = IF Len(s) <= LedgerLimit THEN Len(s) ELSE LedgerLimit
        /\ \A i \in 1..Len(m) : Agree(m[i], s[D + i])
    BY DEF EndOf
  <2>2. Len(m) <= Len(s)
    BY <1>1, <2>1
  <2> QED
    BY <2>1, <2>2
<1>3. /\ Active(m) \subseteq 1..Len(m) /\ Active(s) \subseteq 1..Len(s)
  BY <1>1 DEF Active
<1>4. D \in Nat /\ D + Len(m) = Len(s)
  BY <1>1, <1>2
<1> HIDE DEF D
<1>5. ASSUME NEW i \in 1..Len(m)
      PROVE  i \in Active(m) <=> D + i \in Active(s)
  <2>1. D + i \in 1..Len(s) /\ Agree(m[i], s[D + i])
    BY <1>1, <1>2, <1>4
  <2>2. ASSUME i \in Active(m) PROVE D + i \in Active(s)
    <3>1. /\ m[i].verdict \in {"hard", "soft"}
          /\ \A j \in (i + 1)..Len(m) : m[j].contour = m[i].contour => m[j].verdict # "clear"
      BY <2>2 DEF Active
    <3>2. ASSUME NEW j \in (D + i + 1)..Len(s), s[j].contour = s[D + i].contour
          PROVE  s[j].verdict # "clear"
      <4>1. /\ j - D \in (i + 1)..Len(m) /\ j - D \in 1..Len(m) /\ D + (j - D) = j
        BY <1>1, <1>4
      <4>2. Agree(m[j - D], s[j])
        BY <1>2, <4>1, Zenon
      <4> QED
        BY <2>1, <3>1, <3>2, <4>1, <4>2 DEF Agree
    <3> QED
      BY <1>1, <2>1, <3>1, <3>2 DEF Active, Agree
  <2>3. ASSUME D + i \in Active(s) PROVE i \in Active(m)
    <3>1. /\ s[D + i].verdict \in {"hard", "soft"}
          /\ \A j \in (D + i + 1)..Len(s) : s[j].contour = s[D + i].contour => s[j].verdict # "clear"
      BY <2>3 DEF Active
    <3>2. ASSUME NEW j \in (i + 1)..Len(m), m[j].contour = m[i].contour
          PROVE  m[j].verdict # "clear"
      <4>1. D + j \in (D + i + 1)..Len(s) /\ j \in 1..Len(m)
        BY <1>1, <1>4
      <4>2. Agree(m[j], s[D + j])
        BY <1>2, <4>1
      <4> QED
        BY <2>1, <3>1, <3>2, <4>1, <4>2 DEF Agree
    <3> QED
      BY <1>1, <2>1, <3>1, <3>2 DEF Active, Agree
  <2> QED
    BY <2>2, <2>3
<1> QED
  BY <1>1, <1>2, <1>3, <1>5 DEF D

\* The labels and the cooldown of a memory are among those of the history.
LEMMA EndTellsLess ==
  ASSUME NEW m \in Seq(Kept), NEW s \in Seq(Lived), EndOf(m, s), NEW n \in Nat
  PROVE  /\ SignalLabels(m) \subseteq SignalLabels(s)
         /\ CooldownLeft(m, n) <= CooldownLeft(s, n)
<1> DEFINE D == Len(s) - Len(m)
<1>1. /\ Len(m) \in Nat /\ Len(s) \in Nat /\ Len(m) <= Len(s)
      /\ Active(m) \subseteq 1..Len(m) /\ Active(s) \subseteq 1..Len(s)
      /\ \A i \in Active(m) : D + i \in Active(s)
  BY ActiveOfEnd
<1>2. \A i \in Active(m) : Agree(m[i], s[D + i])
  BY <1>1 DEF EndOf
<1> HIDE DEF D
<1>3. SignalLabels(m) \subseteq SignalLabels(s)
  BY <1>1, <1>2 DEF SignalLabels, Agree
<1> DEFINE A == Active(m)
           B == Active(s)
           p == [i \in A |-> m[i].until - n]
           q == [i \in B |-> s[i].until - n]
           P == {0} \cup {m[i].until - n : i \in A}
           Q == {0} \cup {s[i].until - n : i \in B}
<1>4. IsFiniteSet(A) /\ IsFiniteSet(B)
  BY LenProperties, ActiveIs
<1>5. (\A i \in A : m[i].until \in Nat) /\ (\A i \in B : s[i].until \in Nat)
  <2>1. (\A i \in 1..Len(m) : m[i] \in Kept) /\ (\A i \in 1..Len(s) : s[i] \in Lived)
    BY ElementOfSeq
  <2> QED
    BY <1>1, <2>1 DEF Kept, Lived
<1>6. p \in [A -> Int] /\ q \in [B -> Int]
  BY <1>5
<1>7. /\ \A x : x \in P <=> x = 0 \/ \E i \in A : x = p[i]
      /\ \A x : x \in Q <=> x = 0 \/ \E i \in B : x = q[i]
  OBVIOUS
<1>8. P \subseteq Q
  BY <1>1, <1>2 DEF Agree
<1>9. 0 \in P
  OBVIOUS
<1>10. CooldownLeft(m, n) = Rounded(Max(P)) /\ CooldownLeft(s, n) = Rounded(Max(Q))
  BY DEF CooldownLeft
<1> HIDE DEF A, B, p, q, P, Q
<1>11. Max(P) \in P /\ \A x \in P : x \in Int /\ x <= Max(P)
  BY <1>4, <1>6, <1>7, MaxOfImage
<1>12. Max(Q) \in Q /\ \A x \in Q : x \in Int /\ x <= Max(Q)
  BY <1>4, <1>6, <1>7, MaxOfImage
<1>13. Max(P) \in Nat /\ Max(Q) \in Nat /\ Max(P) <= Max(Q)
  BY <1>8, <1>9, <1>11, <1>12
<1> QED
  BY <1>3, <1>10, <1>13, RoundedGrows

\* The last word of a contour decides.
LEMMA LastWordDecides ==
  ASSUME NEW h \in Hosts, memory[h] \in Seq(Kept), history[h] \in Seq(Lived),
         EndOf(memory[h], history[h]), NEW c \in Labels
  PROVE  /\ c \in SignalLabels(history[h]) <=> LastWord(h, c) \in {"hard", "soft"}
         /\ c \in Avoided(memory[h]) => LastWord(h, c) = "hard"
         /\ LastWord(h, c) = "hard" /\ Len(history[h]) - Max(LastSaying(h, c)) < LedgerLimit
              => c \in Avoided(memory[h])
<1> DEFINE m == memory[h]
           s == history[h]
           D == Len(s) - Len(m)
           S == LastSaying(h, c)
           z == Max(S)
           A == {i \in Active(m) : m[i].contour = c}
           a == Max(A)
<1>1. /\ Len(m) \in Nat /\ Len(s) \in Nat /\ Len(m) <= Len(s)
      /\ Active(m) \subseteq 1..Len(m) /\ Active(s) \subseteq 1..Len(s)
      /\ \A i \in 1..Len(m) : i \in Active(m) <=> D + i \in Active(s)
  BY ActiveOfEnd
<1>2. /\ Len(m) = IF Len(s) <= LedgerLimit THEN Len(s) ELSE LedgerLimit
      /\ \A i \in 1..Len(m) : Agree(m[i], s[D + i])
  BY DEF EndOf
<1>3. /\ DOMAIN s = 1..Len(s) /\ LedgerLimit \in Nat /\ c # Direct
  BY LenProperties, HostMemoryAssumption
<1>4. S = {i \in 1..Len(s) : s[i].contour = c /\ s[i].verdict # "mute"}
  BY <1>3 DEF LastSaying
<1>5. \A i \in 1..Len(s) : s[i].verdict \in Verdicts
  <2>1. \A i \in 1..Len(s) : s[i] \in Lived
    BY ElementOfSeq
  <2> QED
    BY <2>1 DEF Lived
<1>6. S # {} => z \in S /\ \A y \in S : y <= z
  <2>1. IsFiniteSet(1..Len(s))
    <3>1. 1 \in Int /\ Len(s) \in Int
      BY <1>1
    <3> QED
      BY <3>1, FS_Interval, Zenon
  <2>2. S \subseteq 1..Len(s)
    BY <1>4
  <2> HIDE DEF S
  <2>3. IsFiniteSet(S)
    BY <2>1, <2>2, FS_Subset
  <2>4. S \in SUBSET Int
    BY <1>1, <2>2
  <2> QED
    BY <2>3, <2>4, MaxExists
<1>7. A # {} => a \in A /\ \A y \in A : y <= a
  <2>1. IsFiniteSet(1..Len(m))
    <3>1. 1 \in Int /\ Len(m) \in Int
      BY <1>1
    <3> QED
      BY <3>1, FS_Interval, Zenon
  <2>2. A \subseteq 1..Len(m)
    BY <1>1
  <2> HIDE DEF A
  <2>3. IsFiniteSet(A)
    BY <2>1, <2>2, FS_Subset
  <2>4. A \in SUBSET Int
    BY <1>1, <2>2
  <2> QED
    BY <2>3, <2>4, MaxExists
<1>8. LastWord(h, c) = IF S = {} THEN "mute" ELSE s[z].verdict
  BY DEF LastWord
<1>9. \A i \in Active(s) : /\ i \in 1..Len(s) /\ s[i].verdict \in {"hard", "soft"}
                           /\ \A j \in (i + 1)..Len(s) : s[j].contour = s[i].contour
                                                          => s[j].verdict # "clear"
  BY <1>1 DEF Active
<1>10. c \in SignalLabels(s) <=> \E i \in Active(s) : s[i].contour = c
  BY <1>3 DEF SignalLabels
<1>11. /\ c \in SignalLabels(m) <=> A # {}
       /\ c \in Avoided(m) <=> c \in SignalLabels(m) /\ m[a].verdict = "hard"
  BY <1>3 DEF SignalLabels, Avoided
<1>12. \A i \in 1..Len(s) :
         /\ s[i].verdict \in {"hard", "soft"}
         /\ \A j \in (i + 1)..Len(s) : s[j].contour = s[i].contour => s[j].verdict # "clear"
         => i \in Active(s)
  BY <1>3 DEF Active
<1> HIDE DEF m, s, S, A, z, a
\* A label with a signal has had its last word, and that was a signal.
<1>13. ASSUME NEW i \in Active(s), s[i].contour = c
       PROVE  S # {} /\ i <= z /\ z \in Active(s) /\ s[z].contour = c /\ s[z].verdict \in {"hard", "soft"}
  <2>1. i \in S
    BY <1>4, <1>9, <1>13
  <2>2. z \in S /\ i <= z /\ z \in 1..Len(s) /\ i \in 1..Len(s)
    BY <1>4, <1>6, <1>9, <2>1
  <2>3. s[z].contour = c /\ s[z].verdict # "mute"
    BY <1>4, <2>2
  <2>4. s[z].verdict # "clear"
    <3>1. CASE z = i
      BY <1>9, <3>1
    <3>2. CASE z # i
      <4>1. z \in (i + 1)..Len(s)
        BY <1>1, <2>2, <3>2
      <4> QED
        BY <1>9, <1>13, <2>3, <4>1
    <3> QED
      BY <3>1, <3>2
  <2>5. s[z].verdict \in {"hard", "soft"}
    BY <1>5, <2>2, <2>3, <2>4 DEF Verdicts
  <2>6. ASSUME NEW j \in (z + 1)..Len(s), s[j].contour = c PROVE s[j].verdict # "clear"
    <3>1. j \in (i + 1)..Len(s)
      BY <1>1, <2>2
    <3> QED
      BY <1>9, <1>13, <2>6, <3>1
  <2>7. z \in Active(s)
    BY <1>12, <2>2, <2>3, <2>5, <2>6
  <2> QED
    BY <2>1, <2>2, <2>3, <2>5, <2>7
\* A last word that is a signal is active.
<1>14. ASSUME S # {}, s[z].verdict \in {"hard", "soft"}
       PROVE  z \in Active(s) /\ s[z].contour = c
  <2>1. z \in 1..Len(s) /\ s[z].contour = c
    BY <1>4, <1>6, <1>14
  <2>2. ASSUME NEW j \in (z + 1)..Len(s), s[j].contour = c PROVE s[j].verdict # "clear"
    <3>1. j \in 1..Len(s) /\ j > z
      BY <1>1, <2>1
    <3>2. j \notin S
      BY <1>4, <1>6, <1>14, <2>1, <3>1
    <3>3. s[j].verdict = "mute"
      BY <1>4, <2>2, <3>1, <3>2
    <3> QED
      BY <3>3
  <2> QED
    BY <1>12, <1>14, <2>1, <2>2
<1>15. c \in SignalLabels(s) <=> LastWord(h, c) \in {"hard", "soft"}
  BY <1>8, <1>10, <1>13, <1>14
<1>16. D \in Nat /\ D + Len(m) = Len(s)
  BY <1>1
<1> HIDE DEF D
<1>17. ASSUME c \in Avoided(m) PROVE LastWord(h, c) = "hard"
  <2>1. a \in A /\ (\A y \in A : y <= a) /\ m[a].verdict = "hard"
    BY <1>7, <1>11, <1>17
  <2>2. a \in Active(m) /\ m[a].contour = c /\ a \in 1..Len(m)
    BY <1>1, <2>1 DEF A
  <2>3. D + a \in Active(s) /\ s[D + a].contour = c /\ s[D + a].verdict = "hard"
    BY <1>1, <1>2, <2>1, <2>2 DEF Agree
  <2>4. S # {} /\ D + a <= z /\ z \in Active(s) /\ s[z].contour = c
    BY <1>13, <2>3
  <2>5. z \in 1..Len(s)
    BY <1>1, <2>4
  <2>6. z - D \in 1..Len(m) /\ D + (z - D) = z
    BY <1>1, <1>16, <2>2, <2>4, <2>5
  <2>7. z - D \in Active(m) /\ m[z - D].contour = c
    <3>1. z - D \in Active(m)
      BY <1>1, <2>4, <2>6, Zenon
    <3>2. Agree(m[z - D], s[z])
      BY <1>2, <2>6, Zenon
    <3> QED
      BY <2>4, <3>1, <3>2 DEF Agree
  <2>8. z - D <= a
    BY <2>1, <2>7 DEF A
  <2>9. z = D + a
    BY <1>1, <1>16, <2>2, <2>4, <2>5, <2>8
  <2> QED
    BY <1>8, <2>3, <2>4, <2>9
<1>18. ASSUME LastWord(h, c) = "hard", Len(s) - z < LedgerLimit PROVE c \in Avoided(m)
  <2>1. S # {} /\ s[z].verdict = "hard"
    BY <1>8, <1>18
  <2>2. z \in Active(s) /\ s[z].contour = c /\ z \in 1..Len(s)
    BY <1>1, <1>14, <2>1
  <2>3. z - D \in 1..Len(m) /\ D + (z - D) = z
    <3>1. /\ Len(m) = IF Len(s) <= LedgerLimit THEN Len(s) ELSE LedgerLimit
          /\ Len(m) \in Nat /\ Len(s) \in Nat /\ Len(m) <= Len(s) /\ z \in 1..Len(s)
      BY <1>1, <1>2, <2>2
    <3>2. /\ D + Len(m) = Len(s) /\ Len(s) - z < LedgerLimit /\ D \in Nat /\ LedgerLimit \in Nat
      BY <1>3, <1>16, <1>18
    <3> QED
      BY <3>1, <3>2
  <2>4. z - D \in Active(m)
    BY <1>1, <2>2, <2>3, Zenon
  <2>5. Agree(m[z - D], s[z])
    BY <1>2, <2>3, Zenon
  <2>6. z - D \in A /\ m[z - D].verdict = "hard"
    BY <2>1, <2>2, <2>4, <2>5 DEF A, Agree
  <2>7. a \in A /\ z - D <= a
    BY <1>7, <2>6
  <2>8. a \in Active(m) /\ m[a].contour = c /\ a \in 1..Len(m)
    BY <1>1, <2>7 DEF A
  <2>9. D + a \in Active(s) /\ s[D + a].contour = c
    BY <1>1, <1>2, <2>8 DEF Agree
  <2>10. D + a <= z
    BY <1>13, <2>9
  <2>11. a = z - D
    BY <1>1, <1>16, <2>2, <2>7, <2>8, <2>10
  <2> QED
    BY <1>11, <2>6, <2>11
<1> QED
  BY <1>15, <1>17, <1>18 DEF m, s, S, z

\* What is read from the memory of a host follows from its whole history,
\* for any limit of the ledger.
THEOREM MemoryTellsTheTruthHolds == FetchSpec => []MemoryTellsTheTruth
<1>1. RouteInv /\ LedgerInv => MemoryTellsTheTruth
  <2> SUFFICES ASSUME RouteInv, LedgerInv, NEW h \in Hosts
               PROVE  /\ SignalLabels(memory[h]) \subseteq SignalLabels(history[h])
                      /\ CooldownLeft(memory[h], now) <= CooldownLeft(history[h], now)
                      /\ \A c \in Labels :
                           /\ c \in SignalLabels(history[h]) <=> LastWord(h, c) \in {"hard", "soft"}
                           /\ c \in Avoided(memory[h]) => LastWord(h, c) = "hard"
                           /\ /\ LastWord(h, c) = "hard"
                              /\ Len(history[h]) - Max(LastSaying(h, c)) < LedgerLimit
                              => c \in Avoided(memory[h])
    BY Zenon DEF MemoryTellsTheTruth
  <2>1. /\ memory[h] \in Seq(Kept) /\ history[h] \in Seq(Lived) /\ now \in Nat
        /\ EndOf(memory[h], history[h])
    BY DEF RouteInv, FetchTyped, LedgerInv
  <2> QED
    BY <2>1, EndTellsLess, LastWordDecides
<1> QED
  BY <1>1, RouteInvHolds, LedgerInvInit, LedgerInvNext, PTL DEF FetchSpec

OnlyBy(f, s) == \A i \in DOMAIN s : s[i].class = "SUCCESS" => s[i].by = f

\* The memory holds every attempt at the host, and every success is that of f.
Alone(f, h) ==
  /\ Len(history[h]) <= LedgerLimit
  /\ OnlyBy(f, history[h])

\* What the memory teaches is at least as cautious as the breaker of f.
CautionInv ==
  /\ \A f \in Fetchers : own[f].breaker.touched \/ own[f].breaker = Pristine
  /\ \A f \in Fetchers \ Buffered : \A h \in Hosts :
       HostsOf[f] = {h} /\ Alone(f, h) =>
         AsCautious(own[f].breaker, Bootstrap(Pristine, memory[h]))

\* A breaker is as cautious as itself, and as a new one.
LEMMA CautionIsReflexive ==
  ASSUME NEW b \in BreakerType
  PROVE  AsCautious(b, b) /\ AsCautious(Pristine, b)
BY RankType DEF AsCautious, BreakerType, Pristine, Rank

\* Whoever met an attempt was used.
LEMMA ApplyTouches ==
  ASSUME NEW b, NEW class, NEW g, NEW t, NEW s
  PROVE  ApplyDecision(b, class, g, t, s).touched
BY DEF ApplyDecision, Pristine

\* Nothing was learned from a memory that leaves the breaker unused.
LEMMA BootstrapTouches ==
  ASSUME NEW s \in Seq(Kept)
  PROVE  Bootstrap(Pristine, s).touched \/ Bootstrap(Pristine, s) = Pristine
<1>1. Pristine \in BreakerType /\ ~Pristine.touched /\ <<>> \in Seq(Kept) /\ <<>> \o s = s
  BY PristineType, ConcatEmptySeq DEF Pristine
<1>2. PICK f : IsTaught(f, Pristine, s) /\ Bootstrap(Pristine, s) = f[Len(s)]
  <2>1. Len(s) \in Nat
    BY LenProperties
  <2> QED
    BY <1>1, <2>1, BootstrapIs
<1>3. Len(s) \in Nat
  BY LenProperties
<1> DEFINE Bad == {n \in 0..Len(s) : ~(f[n].touched \/ f[n] = Pristine)}
<1>4. Bad = {}
  <2> SUFFICES ASSUME Bad # {} PROVE FALSE
    OBVIOUS
  <2>1. PICK n \in Bad : \A m \in Bad : n <= m
    <3>1. Bad \subseteq Nat
      BY <1>3
    <3> HIDE DEF Bad
    <3> QED
      BY <3>1, LeastExists
  <2>2. f[n] = (IF n = 0 THEN Pristine ELSE Taught(f[n - 1], s[n]))
    BY <2>1, <1>2 DEF IsTaught
  <2>3. n # 0
    BY <2>1, <2>2
  <2>4. n - 1 \in 0..Len(s) /\ n - 1 \notin Bad
    BY <2>1, <2>3, <1>3
  <2>5. f[n - 1].touched \/ f[n - 1] = Pristine
    BY <2>4
  <2>6. Taught(f[n - 1], s[n]) = f[n - 1] \/ Taught(f[n - 1], s[n]).touched
    BY ApplyTouches DEF Taught
  <2> QED
    BY <2>1, <2>2, <2>3, <2>5, <2>6
<1> QED
  BY <1>2, <1>3, <1>4

\* A memory that holds everything still holds everything that was there before.
LEMMA WholeGoesOn ==
  ASSUME NEW m \in Seq(Kept), NEW s \in Seq(Lived), EndOf(m, s), NEW g \in Fetchers,
         NEW f, NEW e \in Seq(Kept),
         Len(s \o Authored(g, e)) <= LedgerLimit,
         OnlyBy(f, s \o Authored(g, e))
  PROVE  /\ Newest(m \o e) = m \o e
         /\ Len(s) <= LedgerLimit
         /\ OnlyBy(f, s)
         /\ g # f => \A i \in 1..Len(e) : e[i].class # "SUCCESS"
<1> DEFINE L == Authored(g, e)
           b == s \o L
           a == m \o e
<1>1. /\ Len(m) \in Nat /\ Len(s) \in Nat /\ Len(e) \in Nat /\ LedgerLimit \in Nat \ {0}
      /\ L \in Seq(Lived) /\ Len(L) = Len(e)
      /\ \A i \in 1..Len(e) : L[i].by = g /\ L[i].class = e[i].class
  BY LenProperties, AuthoredType, HostMemoryAssumption
<1>2. Len(b) <= LedgerLimit /\ \A i \in DOMAIN b : b[i].class = "SUCCESS" => b[i].by = f
  BY DEF OnlyBy
<1> HIDE DEF L
<1>3. /\ b \in Seq(Lived) /\ Len(b) = Len(s) + Len(e)
      /\ \A i \in 1..(Len(s) + Len(e)) : b[i] = IF i <= Len(s) THEN s[i] ELSE L[i - Len(s)]
  <2>1. /\ s \o L \in Seq(Lived) /\ Len(s \o L) = Len(s) + Len(L)
        /\ \A i \in 1..(Len(s) + Len(L)) :
             (s \o L)[i] = IF i <= Len(s) THEN s[i] ELSE L[i - Len(s)]
    BY <1>1, ConcatProperties, Zenon
  <2> QED
    BY <1>1, <2>1, Zenon
<1>4. a \in Seq(Kept) /\ Len(a) = Len(m) + Len(e)
  BY ConcatProperties
<1>5. DOMAIN b = 1..(Len(s) + Len(e)) /\ DOMAIN s = 1..Len(s)
  BY <1>3, LenProperties
<1> HIDE DEF a, b
<1>6. Len(s) <= LedgerLimit /\ Len(m) = Len(s) /\ Len(a) <= LedgerLimit
  BY <1>1, <1>2, <1>3, <1>4 DEF EndOf
<1>7. Newest(a) = a
  <2>1. /\ Newest(a) \in Seq(Kept) /\ Len(Newest(a)) = Len(a)
        /\ \A i \in 1..Len(Newest(a)) : Newest(a)[i] = a[Len(a) - Len(Newest(a)) + i]
    BY <1>4, <1>6, NewestIs
  <2>2. Len(a) \in Nat
    BY <1>1, <1>4
  <2>3. \A i \in 1..Len(a) : Newest(a)[i] = a[i]
    BY <2>1, <2>2
  <2> QED
    BY <1>4, <2>1, <2>3, SeqEqual
<1>8. \A i \in DOMAIN s : s[i].class = "SUCCESS" => s[i].by = f
  <2> SUFFICES ASSUME NEW i \in DOMAIN s PROVE s[i].class = "SUCCESS" => s[i].by = f
    OBVIOUS
  <2>1. i \in 1..(Len(s) + Len(e)) /\ i <= Len(s)
    BY <1>1, <1>5
  <2> QED
    BY <1>2, <1>3, <1>5, <2>1
<1>9. ASSUME g # f, NEW i \in 1..Len(e) PROVE e[i].class # "SUCCESS"
  <2>1. /\ Len(s) + i \in 1..(Len(s) + Len(e)) /\ ~(Len(s) + i <= Len(s)) /\ (Len(s) + i) - Len(s) = i
    BY <1>1
  <2>2. b[Len(s) + i] = L[i]
    BY <1>3, <2>1
  <2>3. b[Len(s) + i].class = "SUCCESS" => b[Len(s) + i].by = f
    BY <1>2, <1>5, <2>1
  <2>4. L[i].by = g /\ L[i].class = e[i].class
    BY <1>1
  <2> QED
    BY <1>9, <2>2, <2>3, <2>4
<1> QED
  BY <1>6, <1>7, <1>8, <1>9 DEF a, OnlyBy

\* Whoever else writes makes what the memory teaches no bolder.
LEMMA OthersTeach ==
  ASSUME NEW m \in Seq(Kept), NEW s \in Seq(Lived), EndOf(m, s), NEW g \in Fetchers,
         NEW f, g # f, NEW e \in Seq(Kept), NEW b \in BreakerType,
         Len(s \o Authored(g, e)) <= LedgerLimit,
         OnlyBy(f, s \o Authored(g, e)),
         AsCautious(b, Bootstrap(Pristine, m))
  PROVE  AsCautious(b, Bootstrap(Pristine, Newest(m \o e)))
<1>1. Newest(m \o e) = m \o e /\ \A i \in 1..Len(e) : e[i].class # "SUCCESS"
  BY WholeGoesOn
<1> QED
  BY <1>1, LearnedKeepsOrder

\* An attempt teaches what it makes of the breaker.
LEMMA AttemptTeaches ==
  ASSUME NEW m \in Seq(Kept), NEW b \in BreakerType, AsCautious(b, Bootstrap(Pristine, m)),
         NEW pre \in Seq(Kept), NEW post \in Seq(Kept), NEW x \in Kept, x.class \in Classes,
         \A i \in 1..Len(pre) : pre[i].class = "none",
         \A i \in 1..Len(post) : post[i].class = "none",
         NEW gate \in BOOLEAN, NEW at \in Nat, NEW secs \in Nat \cup {NotRecorded}
  PROVE  AsCautious(ApplyDecision(b, x.class, gate, at, secs),
                    Bootstrap(Pristine, m \o (pre \o <<x>> \o post)))
<1> DEFINE B == Bootstrap(Pristine, m \o pre)
           C == Bootstrap(Pristine, (m \o pre) \o <<x>>)
           b2 == ApplyDecision(b, x.class, gate, at, secs)
<1>1. m \o pre \in Seq(Kept) /\ <<x>> \in Seq(Kept) /\ (m \o pre) \o <<x>> \in Seq(Kept)
  BY ConcatProperties
<1>2. AsCautious(b, B) /\ B \in BreakerType
  BY <1>1, LearnedKeepsOrder, BootstrapType, PristineType
<1>3. C = Taught(B, x)
  <2>1. Pristine \in BreakerType /\ ~Pristine.touched
    BY PristineType DEF Pristine
  <2> DEFINE t == <<x>>
             n == m \o pre
  <2>0. t \in Seq(Kept) /\ n \in Seq(Kept)
    BY <1>1
  <2>3. Len(t) = 1 /\ t[1] = x
    OBVIOUS
  <2>5. B = Bootstrap(Pristine, n) /\ C = Bootstrap(Pristine, n \o t)
    OBVIOUS
  <2> HIDE DEF t, n, B, C
  <2>2. PICK g : /\ g \in [0..Len(t) -> BreakerType]
                 /\ g[0] = Bootstrap(Pristine, n) /\ g[Len(t)] = Bootstrap(Pristine, n \o t)
                 /\ \A i \in 1..Len(t) : g[i] = Taught(g[i - 1], t[i])
    BY <2>0, <2>1, BootstrapGoesOn
  <2>4. 1 \in 1..Len(t)
    BY <2>3
  <2>6. g[1] = Taught(g[1 - 1], x)
    BY <2>2, <2>3, <2>4, Zenon
  <2>7. g[1] = C /\ 1 - 1 = 0
    BY <2>2, <2>3, <2>5
  <2> QED
    BY <2>2, <2>5, <2>6, <2>7
<1>4. AsCautious(b2, C)
  <2>1. x.class # "none"
    BY DEF Classes, Counters
  <2> DEFINE t == IF x.until > x.ts THEN x.until - x.ts ELSE NotRecorded
  <2>2. C = ApplyDecision(B, x.class, x.gate, x.ts, t)
    BY <1>3, <2>1 DEF Taught
  <2> HIDE DEF B, C, t
  <2> QED
    BY <1>2, <2>2, ApplyKeepsOrder
<1>5. AsCautious(b2, Bootstrap(Pristine, ((m \o pre) \o <<x>>) \o post))
  <2>1. \A i \in 1..Len(post) : post[i].class # "SUCCESS"
    OBVIOUS
  <2>2. b2 \in BreakerType
    BY ApplyType
  <2> QED
    BY <1>1, <1>4, <2>1, <2>2, LearnedKeepsOrder
<1>6. ((m \o pre) \o <<x>>) \o post = m \o (pre \o <<x>> \o post)
  <2>1. pre \o <<x>> \in Seq(Kept) /\ <<x>> \in Seq(Kept)
    BY <1>1, ConcatProperties
  <2>2. (m \o pre) \o <<x>> = m \o (pre \o <<x>>)
    BY <2>1, ConcatAssociative
  <2>3. (m \o (pre \o <<x>>)) \o post = m \o ((pre \o <<x>>) \o post)
    BY <2>1, ConcatAssociative
  <2> QED
    BY <2>2, <2>3
<1> QED
  BY <1>5, <1>6

\* What g writes at host k leaves the others' memory no bolder.
LEMMA EmitKeepsCaution ==
  ASSUME RouteInv, LedgerInv, NEW g \in Fetchers, NEW k \in HostsOf[g],
         NEW e \in Seq(Kept), Emit(g, k, e),
         NEW f \in Fetchers \ Buffered, NEW h \in Hosts, NEW b \in BreakerType,
         g # f \/ k # h \/ \A i \in 1..Len(e) : e[i].class # "SUCCESS",
         Alone(f, h)',
         Alone(f, h) => AsCautious(b, Bootstrap(Pristine, memory[h]))
  PROVE  AsCautious(b, Bootstrap(Pristine, memory'[h]))
<1>1. k \in Hosts /\ memory[h] \in Seq(Kept) /\ history[h] \in Seq(Lived) /\ EndOf(memory[h], history[h])
  BY DEF Hosts, RouteInv, FetchTyped, LedgerInv
<1>2. CASE g \in Buffered \/ k # h
  <2>1. memory'[h] = memory[h] /\ history'[h] = history[h]
    BY <1>2 DEF Emit, RouteInv, FetchTyped
  <2> QED
    BY <2>1 DEF Alone
<1>3. CASE g \notin Buffered /\ k = h
  <2>1. /\ memory'[h] = Newest(memory[h] \o e)
        /\ history'[h] = history[h] \o Authored(g, e)
    BY <1>1, <1>3 DEF Emit, RouteInv, FetchTyped
  <2>2. /\ Len(history[h] \o Authored(g, e)) <= LedgerLimit
        /\ OnlyBy(f, history[h] \o Authored(g, e))
    BY <2>1 DEF Alone
  <2>3. /\ Newest(memory[h] \o e) = memory[h] \o e
        /\ Len(history[h]) <= LedgerLimit /\ OnlyBy(f, history[h])
        /\ g # f => \A i \in 1..Len(e) : e[i].class # "SUCCESS"
    <3> DEFINE m == memory[h]
               s == history[h]
    <3>1. /\ m \in Seq(Kept) /\ s \in Seq(Lived) /\ EndOf(m, s)
          /\ Len(s \o Authored(g, e)) <= LedgerLimit /\ OnlyBy(f, s \o Authored(g, e))
      BY <1>1, <2>2
    <3> HIDE DEF m, s
    <3>2. /\ Newest(m \o e) = m \o e /\ Len(s) <= LedgerLimit /\ OnlyBy(f, s)
          /\ g # f => \A i \in 1..Len(e) : e[i].class # "SUCCESS"
      BY <3>1, WholeGoesOn
    <3> QED
      BY <3>2 DEF m, s
  <2>4. AsCautious(b, Bootstrap(Pristine, memory[h]))
    BY <2>3 DEF Alone
  <2>5. \A i \in 1..Len(e) : e[i].class # "SUCCESS"
    BY <1>3, <2>3
  <2> QED
    BY <1>1, <2>1, <2>3, <2>4, <2>5, LearnedKeepsOrder
<1> QED
  BY <1>2, <1>3

\* The begin of a fetch keeps the order of the breakers.
LEMMA BeginKeepsCaution ==
  ASSUME RouteInv, LedgerInv, CautionInv,
         NEW g \in Fetchers, NEW k \in HostsOf[g], NEW r \in Routes, Begin(g, k, r)
  PROVE  CautionInv'
<1>1. PICK s, breaker, paused : BeginIs(g, k, r, s, breaker, paused)
  BY BeginForm DEF RouteInv
<1>2. /\ breaker = Bootstrap(own[g].breaker, memory[k])
      /\ paused \in BOOLEAN
      /\ paused => Emit(g, k, <<PausedEntry>>)
      /\ ~paused => UNCHANGED <<memory, buffer, history>>
      /\ \A f \in Fetchers : own'[f].breaker = IF f = g THEN breaker ELSE own[f].breaker
  BY <1>1 DEF BeginIs, RouteInv, FetchTyped
<1>3. /\ k \in Hosts /\ memory[k] \in Seq(Kept) /\ own[g].breaker \in BreakerType
      /\ own[g].breaker.touched \/ own[g].breaker = Pristine
  BY DEF Hosts, RouteInv, FetchTyped, OwnType, CautionInv
<1>4. breaker \in BreakerType /\ (breaker.touched \/ breaker = Pristine)
  <2>1. CASE own[g].breaker.touched
    BY <1>2, <1>3, <2>1 DEF Bootstrap
  <2>2. CASE own[g].breaker = Pristine
    BY <1>2, <1>3, <2>2, BootstrapTouches, BootstrapType
  <2> QED
    BY <1>3, <2>1, <2>2
<1>5. \A f \in Fetchers : own'[f].breaker.touched \/ own'[f].breaker = Pristine
  BY <1>2, <1>4 DEF CautionInv
<1>6. ASSUME NEW f \in Fetchers \ Buffered, NEW h \in Hosts, HostsOf[f] = {h}, Alone(f, h)'
      PROVE  AsCautious(own'[f].breaker, Bootstrap(Pristine, memory'[h]))
  <2>1. own[f].breaker \in BreakerType /\ memory[h] \in Seq(Kept)
    BY DEF RouteInv, FetchTyped, OwnType
  <2>2. Alone(f, h) => AsCautious(own'[f].breaker, Bootstrap(Pristine, memory[h]))
    <3> SUFFICES ASSUME Alone(f, h)
                 PROVE  AsCautious(own'[f].breaker, Bootstrap(Pristine, memory[h]))
      OBVIOUS
    <3>1. AsCautious(own[f].breaker, Bootstrap(Pristine, memory[h]))
      BY <1>6 DEF CautionInv
    <3>2. CASE f # g
      BY <1>2, <3>1, <3>2
    <3>3. CASE f = g /\ own[g].breaker.touched
      <4>1. breaker = own[g].breaker
        BY <1>2, <3>3 DEF Bootstrap
      <4> QED
        BY <1>2, <3>1, <3>3, <4>1
    <3>4. CASE f = g /\ own[g].breaker = Pristine
      <4>1. k = h
        BY <1>6, <3>4
      <4>2. own'[f].breaker = Bootstrap(Pristine, memory[h])
        BY <1>2, <3>4, <4>1
      <4>3. Bootstrap(Pristine, memory[h]) \in BreakerType
        BY <2>1, BootstrapType, PristineType
      <4> QED
        BY <4>2, <4>3, CautionIsReflexive
    <3> QED
      BY <1>3, <3>2, <3>3, <3>4
  <2>3. own'[f].breaker \in BreakerType
    BY <1>2, <1>4, <2>1
  <2>4. CASE ~paused
    BY <1>2, <1>6, <2>2, <2>4 DEF Alone
  <2>5. CASE paused
    <3>1. PausedEntry.class = "HARD_BAN" /\ <<PausedEntry>> \in Seq(Kept)
      BY PausedType DEF RouteInv, FetchTyped
    <3> DEFINE e == <<PausedEntry>>
    <3>2. \A i \in 1..Len(e) : e[i].class # "SUCCESS"
      BY <3>1
    <3>3. e \in Seq(Kept) /\ Emit(g, k, e)
      BY <1>2, <2>5, <3>1
    <3> HIDE DEF e
    <3> QED
      BY <1>6, <2>2, <2>3, <3>2, <3>3, EmitKeepsCaution
  <2> QED
    BY <1>2, <2>4, <2>5
<1> QED
  BY <1>5, <1>6 DEF CautionInv

\* So does an attempt, of this fetcher or of another.
LEMMA AttemptKeepsCaution ==
  ASSUME RouteInv, LedgerInv, CautionInv, NEW g \in Fetchers, Attempt(g)
  PROVE  CautionInv'
<1>1. job[g].pc # "idle"
  BY AttemptForm DEF RouteInv
<1>2. PICK c, hint, asks, status, d, waited, hard, pre, post, next :
        AttemptIs(g, c, hint, asks, status, d, waited, hard, pre, post, next)
  BY AttemptForm DEF RouteInv
<1> DEFINE k == job[g].host
           new == ApplyDecision(own[g].breaker, d.class, d.gate, now, NotRecorded)
<1>3. PICK x \in Kept : /\ x.class = d.class /\ pre \o <<x>> \o post \in Seq(Kept)
                        /\ Emit(g, k, pre \o <<x>> \o post)
  BY <1>1, <1>2, AttemptWrites DEF RouteInv
<1>4. /\ d.class \in Classes /\ d.gate \in BOOLEAN
      /\ pre \in Seq(Kept) /\ \A i \in 1..Len(pre) : pre[i].class = "none"
      /\ post \in Seq(Kept) /\ \A i \in 1..Len(post) : post[i].class = "none"
      /\ \A f \in Fetchers : own'[f].breaker = IF f = g THEN new ELSE own[f].breaker
  BY <1>2 DEF AttemptIs, RouteInv, FetchTyped
<1>5. k \in HostsOf[g] /\ k \in Hosts /\ own[g].breaker \in BreakerType /\ now \in Nat
  BY <1>1 DEF Hosts, RouteInv, FetchTyped, OwnType
<1>6. new.touched
  BY ApplyTouches
<1>7. \A f \in Fetchers : own'[f].breaker.touched \/ own'[f].breaker = Pristine
  BY <1>4, <1>6 DEF CautionInv
<1> DEFINE e == pre \o <<x>> \o post
<1>8. ASSUME NEW f \in Fetchers \ Buffered, NEW h \in Hosts, HostsOf[f] = {h}, Alone(f, h)'
      PROVE  AsCautious(own'[f].breaker, Bootstrap(Pristine, memory'[h]))
  <2>1. /\ own[f].breaker \in BreakerType /\ memory[h] \in Seq(Kept) /\ history[h] \in Seq(Lived)
        /\ EndOf(memory[h], history[h])
    BY DEF RouteInv, FetchTyped, OwnType, LedgerInv
  <2>2. Alone(f, h) => AsCautious(own[f].breaker, Bootstrap(Pristine, memory[h]))
    BY <1>8 DEF CautionInv
  <2>3. CASE g # f
    <3>1. own'[f].breaker = own[f].breaker
      BY <1>4, <2>3
    <3>2. e \in Seq(Kept) /\ Emit(g, k, e)
      BY <1>3
    <3> HIDE DEF e, k
    <3> QED
      BY <1>5, <1>8, <2>1, <2>2, <2>3, <3>1, <3>2, EmitKeepsCaution
  <2>4. CASE g = f
    <3>1. k = h /\ g \notin Buffered
      BY <1>5, <1>8, <2>4
    <3>2. memory'[h] = Newest(memory[h] \o e) /\ history'[h] = history[h] \o Authored(g, e)
      BY <1>3, <3>1 DEF Emit, RouteInv, FetchTyped
    <3>3. Len(history[h] \o Authored(g, e)) <= LedgerLimit /\ OnlyBy(f, history[h] \o Authored(g, e))
      BY <1>8, <3>2 DEF Alone
    <3>4. e \in Seq(Kept)
      BY <1>3
    <3> HIDE DEF e
    <3>5. /\ Newest(memory[h] \o e) = memory[h] \o e
          /\ Len(history[h]) <= LedgerLimit /\ OnlyBy(f, history[h])
      <4> DEFINE m == memory[h]
                 s == history[h]
      <4>1. /\ m \in Seq(Kept) /\ s \in Seq(Lived) /\ EndOf(m, s)
            /\ Len(s \o Authored(g, e)) <= LedgerLimit /\ OnlyBy(f, s \o Authored(g, e))
        BY <2>1, <3>3
      <4> HIDE DEF m, s
      <4>2. Newest(m \o e) = m \o e /\ Len(s) <= LedgerLimit /\ OnlyBy(f, s)
        BY <3>4, <4>1, WholeGoesOn
      <4> QED
        BY <4>2 DEF m, s
    <3>6. AsCautious(own[f].breaker, Bootstrap(Pristine, memory[h]))
      BY <2>2, <3>5 DEF Alone
    <3>7. AsCautious(new, Bootstrap(Pristine, memory[h] \o e))
      <4>1. now \in Nat /\ NotRecorded \in Nat \cup {NotRecorded} /\ x.class \in Classes
        BY <1>3, <1>4, <1>5
      <4>2. AsCautious(ApplyDecision(own[f].breaker, x.class, d.gate, now, NotRecorded),
                       Bootstrap(Pristine, memory[h] \o (pre \o <<x>> \o post)))
        BY <1>4, <2>1, <3>6, <4>1, AttemptTeaches
      <4> QED
        BY <1>3, <2>4, <4>2 DEF e
    <3>8. own'[f].breaker = new
      BY <1>4, <2>4
    <3> HIDE DEF new
    <3> QED
      BY <3>2, <3>5, <3>7, <3>8
  <2> QED
    BY <2>3, <2>4
<1> QED
  BY <1>7, <1>8 DEF CautionInv

\* So does a resumed ledger.
LEMMA ReplayKeepsCaution ==
  ASSUME RouteInv, LedgerInv, CautionInv, NEW g \in Fetchers, Replay(g)
  PROVE  CautionInv'
<1> DEFINE batch == Head(buffer[g])
<1>1. /\ memory' = [h \in Hosts |-> Newest(memory[h] \o batch[h])]
      /\ history' = [h \in Hosts |-> history[h] \o Authored(g, batch[h])]
      /\ g \in Buffered /\ Len(buffer[g]) > 1 /\ own' = own
  BY DEF Replay
<1>2. batch \in [Hosts -> Seq(Kept)]
  BY <1>1, HeadTailProperties, LenProperties DEF RouteInv, FetchTyped
<1> HIDE DEF batch
<1>3. ASSUME NEW f \in Fetchers \ Buffered, NEW h \in Hosts, HostsOf[f] = {h}, Alone(f, h)'
      PROVE  AsCautious(own'[f].breaker, Bootstrap(Pristine, memory'[h]))
  <2>1. /\ own[f].breaker \in BreakerType /\ memory[h] \in Seq(Kept) /\ history[h] \in Seq(Lived)
        /\ EndOf(memory[h], history[h]) /\ batch[h] \in Seq(Kept) /\ g # f
    BY <1>1, <1>2 DEF RouteInv, FetchTyped, OwnType, LedgerInv
  <2>2. /\ memory'[h] = Newest(memory[h] \o batch[h])
        /\ history'[h] = history[h] \o Authored(g, batch[h])
    BY <1>1
  <2>3. /\ Len(history[h] \o Authored(g, batch[h])) <= LedgerLimit
        /\ OnlyBy(f, history[h] \o Authored(g, batch[h]))
    BY <1>3, <2>2 DEF Alone
  <2>4. Len(history[h]) <= LedgerLimit /\ OnlyBy(f, history[h])
    BY <2>1, <2>3, WholeGoesOn
  <2>5. AsCautious(own[f].breaker, Bootstrap(Pristine, memory[h]))
    BY <1>3, <2>4 DEF CautionInv, Alone
  <2>6. AsCautious(own[f].breaker, Bootstrap(Pristine, Newest(memory[h] \o batch[h])))
    BY <2>1, <2>3, <2>5, OthersTeach
  <2> QED
    BY <1>1, <2>2, <2>6
<1> QED
  BY <1>1, <1>3 DEF CautionInv

\* So does a new fetcher.
LEMMA NewFetcherKeepsCaution ==
  ASSUME RouteInv, CautionInv, NEW g \in Fetchers, NewFetcher(g)
  PROVE  CautionInv'
<1>1. /\ UNCHANGED <<memory, history>>
      /\ \A f \in Fetchers : own'[f].breaker = IF f = g THEN Pristine ELSE own[f].breaker
  BY DEF NewFetcher, Fresh, RouteInv, FetchTyped
<1>2. ASSUME NEW f \in Fetchers \ Buffered, NEW h \in Hosts, HostsOf[f] = {h}, Alone(f, h)'
      PROVE  AsCautious(own'[f].breaker, Bootstrap(Pristine, memory'[h]))
  <2>1. Alone(f, h)
    BY <1>1, <1>2 DEF Alone
  <2>2. AsCautious(own[f].breaker, Bootstrap(Pristine, memory[h]))
    BY <1>2, <2>1 DEF CautionInv
  <2>3. Bootstrap(Pristine, memory[h]) \in BreakerType
    BY BootstrapType, PristineType DEF RouteInv, FetchTyped
  <2>4. AsCautious(Pristine, Bootstrap(Pristine, memory[h]))
    BY <2>3, CautionIsReflexive
  <2> QED
    BY <1>1, <2>2, <2>4
<1> QED
  BY <1>1, <1>2 DEF CautionInv

\* What the memory would teach is as cautious as a new breaker.
LEMMA CautionInvInit == FetchInit => CautionInv
<1> SUFFICES ASSUME FetchInit PROVE CautionInv
  OBVIOUS
<1>1. \A f \in Fetchers : own[f].breaker = Pristine
  BY DEF FetchInit, Fresh
<1>2. \A h \in Hosts : Bootstrap(Pristine, memory[h]) \in BreakerType
  BY FetchTypedInit, BootstrapType, PristineType DEF FetchTyped
<1> QED
  BY <1>1, <1>2, CautionIsReflexive DEF CautionInv

\* Every step keeps what the memory would teach as cautious as the breaker.
LEMMA CautionInvNext ==
  RouteInv /\ LedgerInv /\ CautionInv /\ [FetchNext]_fetchVars => CautionInv'
<1> SUFFICES ASSUME RouteInv, LedgerInv, CautionInv, [FetchNext]_fetchVars PROVE CautionInv'
  OBVIOUS
<1>1. ASSUME NEW f \in Fetchers, NEW h \in HostsOf[f], NEW r \in Routes, Begin(f, h, r)
      PROVE  CautionInv'
  BY <1>1, BeginKeepsCaution
<1>2. ASSUME NEW f \in Fetchers, Attempt(f) \/ NewFetcher(f) \/ Replay(f) PROVE CautionInv'
  BY <1>2, AttemptKeepsCaution, NewFetcherKeepsCaution, ReplayKeepsCaution
<1>3. CASE UNCHANGED <<own, memory, history>>
  BY <1>3 DEF CautionInv, Alone
<1> QED
  BY <1>1, <1>2, <1>3 DEF FetchNext, Tick, fetchVars

\* A fetcher made anew is no bolder than the one before, for any settings.
THEOREM RestartKeepsCautionHolds == FetchSpec => []RestartKeepsCaution
<1>1. RouteInv /\ CautionInv => RestartKeepsCaution
  <2> SUFFICES ASSUME RouteInv, CautionInv, NEW f \in Fetchers \ Buffered, NEW h \in Hosts,
                      HostsOf[f] = {h}, Len(history[h]) <= LedgerLimit,
                      \A i \in DOMAIN history[h] : history[h][i].class = "SUCCESS"
                                                     => history[h][i].by = f
               PROVE  Rank[Bootstrap(Pristine, memory[h]).mode] >= Rank[own[f].breaker.mode]
    BY Zenon DEF RestartKeepsCaution
  <2>1. Alone(f, h)
    BY Zenon DEF Alone, OnlyBy
  <2>2. AsCautious(own[f].breaker, Bootstrap(Pristine, memory[h]))
    BY <2>1 DEF CautionInv
  <2>3. own[f].breaker \in BreakerType /\ Bootstrap(Pristine, memory[h]) \in BreakerType
    BY BootstrapType, PristineType DEF RouteInv, FetchTyped, OwnType
  <2> QED
    BY <2>2, <2>3, RankType DEF AsCautious, BreakerType
<1> QED
  BY <1>1, RouteInvHolds, LedgerInvInit, LedgerInvNext, CautionInvInit, CautionInvNext,
     PTL DEF FetchSpec

\* The clock, and how long a session lives.
BoundInv == now <= MaxNow /\ session.until <= MaxNow + SessionTtl

\* Time stays in its bound.
LEMMA BoundInvNext == RouteInv /\ BoundInv /\ [FetchNext]_fetchVars => BoundInv'
<1> SUFFICES ASSUME RouteInv, BoundInv, [FetchNext]_fetchVars PROVE BoundInv'
  OBVIOUS
<1>1. now \in Nat /\ MaxNow \in Nat /\ SessionTtl \in Nat
  BY FetchAssumption DEF RouteInv, FetchTyped
<1>2. ASSUME NEW f \in Fetchers, Attempt(f) PROVE BoundInv'
  <2>1. now' = now
    BY <1>2, AttemptForm DEF RouteInv
  <2>2. PICK c, hint, asks, status, d, waited, hard, pre, post, next :
          AttemptIs(f, c, hint, asks, status, d, waited, hard, pre, post, next)
    BY <1>2, AttemptForm DEF RouteInv
  <2>3. session' = session \/ session'.until = now + SessionTtl
    BY <2>2 DEF AttemptIs, SessionAfter
  <2> QED
    BY <1>1, <2>1, <2>3 DEF BoundInv
<1>3. CASE UNCHANGED <<session, now>>
  BY <1>3 DEF BoundInv
<1>4. CASE Tick
  BY <1>1, <1>4 DEF Tick, BoundInv
<1> QED
  BY <1>2, <1>3, <1>4 DEF FetchNext, Begin, NewFetcher, Replay, fetchVars

\* Every reachable state of the fetchers and of the memory has its type.
THEOREM FetchTypeCorrect == FetchSpec => []TypeOK
<1>1. FetchInit => BoundInv
  <2> SUFFICES ASSUME FetchInit PROVE BoundInv
    OBVIOUS
  <2>1. now = 0 /\ session.until = 0
    BY DEF FetchInit, NoSession
  <2> QED
    BY <2>1, FetchAssumption DEF BoundInv
<1>2. RouteInv /\ LedgerInv /\ BoundInv => TypeOK
  <2> SUFFICES ASSUME RouteInv, LedgerInv, BoundInv PROVE TypeOK
    OBVIOUS
  <2>1. \A h \in Hosts : Len(memory[h]) <= LedgerLimit
    <3> SUFFICES ASSUME NEW h \in Hosts PROVE Len(memory[h]) <= LedgerLimit
      OBVIOUS
    <3>1. Len(history[h]) \in Nat /\ LedgerLimit \in Nat
      BY LenProperties, HostMemoryAssumption DEF RouteInv, FetchTyped
    <3>2. Len(memory[h]) = IF Len(history[h]) <= LedgerLimit THEN Len(history[h]) ELSE LedgerLimit
      BY DEF LedgerInv, EndOf
    <3> QED
      BY <3>1, <3>2
  <2>2. session \in [contour : Contours \cup {None}, until : 0..(MaxNow + SessionTtl)]
    BY FetchAssumption DEF RouteInv, FetchTyped, BoundInv
  <2>3. now \in 0..MaxNow
    BY FetchAssumption DEF RouteInv, FetchTyped, BoundInv
  <2>4. \A f \in Fetchers : /\ own[f].breaker \in BreakerType
                            /\ own[f].cool \in [HostsOf[f] -> Nat]
                            /\ own[f].hint \in [HostsOf[f] -> Labels \cup {None}]
                            /\ job[f].pc \in {"idle", "first", "second"}
                            /\ job[f].by \in Transports \cup {None}
    BY DEF RouteInv, FetchTyped, OwnType, JobType
  <2> QED
    BY <2>1, <2>2, <2>3, <2>4 DEF TypeOK
<1> QED
  BY <1>1, <1>2, BoundInvNext, RouteInvHolds, LedgerInvInit, LedgerInvNext, PTL DEF FetchSpec

\* What a recursion begins in and each of its steps stays in holds all it comes to.
LEMMA StaysIn ==
  ASSUME NEW T, NEW N \in Nat, NEW f, f[0] \in T,
         \A n \in 1..N : f[n - 1] \in T => f[n] \in T
  PROVE  \A n \in 0..N : f[n] \in T
<1> DEFINE Bad == {n \in 0..N : f[n] \notin T}
<1> SUFFICES ASSUME Bad # {} PROVE FALSE
  OBVIOUS
<1>1. PICK n \in Bad : \A m \in Bad : n <= m
  <2>1. Bad \subseteq Nat
    OBVIOUS
  <2> HIDE DEF Bad
  <2> QED
    BY <2>1, LeastExists
<1>2. n # 0 /\ n \in 0..N /\ f[n] \notin T
  BY <1>1
<1>3. n \in 1..N /\ n - 1 \in 0..N /\ ~(n <= n - 1)
  BY <1>2
<1>4. n - 1 \notin Bad
  BY <1>1, <1>3
<1> QED
  BY <1>2, <1>3, <1>4

\* f is the recursion that begins as b and goes on, number by number, as G says.
IsRun(f, T, N, b, G) ==
  f \in [0..N -> T] /\ f[0] = b /\ \A n \in 1..N : f[n] = G[n][f[n - 1]]

\* A recursion on numbers, each of whose steps stays in T, defines a function.
LEMMA RecursionExists ==
  ASSUME NEW T, NEW N \in Nat, NEW b \in T, NEW G \in [1..N -> [T -> T]]
  PROVE  \E f : IsRun(f, T, N, b, G)
<1> DEFINE Upto(M) == {f \in [0..M -> T] : f[0] = b /\ \A n \in 1..M : f[n] = G[n][f[n - 1]]}
           Bad == {M \in 0..N : Upto(M) = {}}
<1>1. SUFFICES ASSUME Upto(N) = {} PROVE FALSE
  BY DEF IsRun
<1>2. PICK M \in Bad : \A K \in Bad : M <= K
  <2>1. Bad \subseteq Nat /\ N \in Bad
    BY <1>1
  <2> HIDE DEF Bad
  <2> QED
    BY <2>1, LeastExists
<1>3. M \in 0..N /\ Upto(M) = {}
  BY <1>2
<1>4. M # 0
  <2> DEFINE g == [n \in 0..0 |-> b]
  <2>1. g \in [0..0 -> T] /\ g[0] = b
    OBVIOUS
  <2> HIDE DEF g
  <2>2. g \in Upto(0)
    BY <2>1
  <2> HIDE DEF Upto
  <2> QED
    BY <1>3, <2>2
<1>5. M \in 1..N /\ M - 1 \in 0..N /\ ~(M <= M - 1)
  BY <1>3, <1>4
<1>6. Upto(M - 1) # {}
  <2> HIDE DEF Upto
  <2> QED
    BY <1>2, <1>5
<1>7. PICK f \in [0..(M - 1) -> T] : f[0] = b /\ \A n \in 1..(M - 1) : f[n] = G[n][f[n - 1]]
  BY <1>6
<1> DEFINE g == [n \in 0..M |-> IF n = M THEN G[M][f[M - 1]] ELSE f[n]]
<1>8. f[M - 1] \in T /\ G[M][f[M - 1]] \in T
  BY <1>5, <1>7
<1>9. g \in [0..M -> T]
  BY <1>5, <1>7, <1>8
<1>10. g[0] = b
  BY <1>5, <1>7
<1>11. \A n \in 1..M : g[n] = G[n][g[n - 1]]
  <2> SUFFICES ASSUME NEW n \in 1..M PROVE g[n] = G[n][g[n - 1]]
    OBVIOUS
  <2>1. n - 1 \in 0..(M - 1) /\ g[n - 1] = f[n - 1]
    BY <1>5
  <2>2. CASE n = M
    BY <2>1, <2>2, <1>5
  <2>3. CASE n # M
    <3>1. n \in 1..(M - 1) /\ g[n] = f[n]
      BY <2>3, <1>5
    <3> QED
      BY <3>1, <2>1, <1>7
  <2> QED
    BY <2>2, <2>3
<1> HIDE DEF g
<1>12. g \in Upto(M)
  BY <1>9, <1>10, <1>11
<1> HIDE DEF Upto
<1> QED
  BY <1>3, <1>12

\* h is what the sequences of ss come to, one after another.
IsFlattening(h, ss, S) ==
  /\ h \in [0..Len(ss) -> Seq(S)] /\ h[0] = <<>>
  /\ \A n \in 1..Len(ss) : h[n] = h[n - 1] \o ss[n]
  /\ FlattenSeq(ss) = h[Len(ss)]

\* Sequences may be put one after another.
LEMMA FlattenGoesOn ==
  ASSUME NEW S, NEW ss \in Seq(Seq(S))
  PROVE  \E h : IsFlattening(h, ss, S)
<1> DEFINE N == Len(ss)
           rec(f) == [i \in 1..N |-> IF i = 1 THEN ss[i] ELSE f[i - 1] \o ss[i]]
           flatten == CHOOSE f : f = rec(f)
<1>1. N \in Nat /\ \A i \in 1..N : ss[i] \in Seq(S)
  BY LenProperties, ElementOfSeq
<1>2. CASE N = 0
  <2>1. ss = <<>>
    BY <1>2, EmptySeq
  <2> DEFINE h == [n \in 0..N |-> <<>>]
  <2>2. h \in [0..N -> Seq(S)] /\ h[0] = <<>> /\ h[N] = <<>>
    BY <1>2
  <2>3. FlattenSeq(ss) = <<>>
    BY <1>2, <2>1 DEF FlattenSeq
  <2> HIDE DEF h
  <2>4. IsFlattening(h, ss, S)
    BY <1>2, <2>2, <2>3 DEF IsFlattening
  <2> QED
    BY <2>4
<1>3. CASE N # 0
  <2>1. FlattenSeq(ss) = flatten[N]
    BY <1>3 DEF FlattenSeq
  <2> DEFINE G == [i \in 1..N |-> [x \in Seq(S) |-> IF i = 1 THEN ss[1] ELSE x \o ss[i]]]
  <2>2. G \in [1..N -> [Seq(S) -> Seq(S)]]
    <3>1. \A i \in 1..N, x \in Seq(S) : x \o ss[i] \in Seq(S)
      BY <1>1, ConcatProperties
    <3>2. 1 \in 1..N
      BY <1>1, <1>3
    <3> QED
      BY <3>1, <3>2, <1>1
  <2>3. <<>> \in Seq(S)
    OBVIOUS
  <2>4. PICK f \in [0..N -> Seq(S)] : f[0] = <<>> /\ \A n \in 1..N : f[n] = G[n][f[n - 1]]
    <3> DEFINE T == Seq(S)
               none == <<>>
    <3>1. N \in Nat /\ none \in T /\ G \in [1..N -> [T -> T]]
      BY <1>1, <2>2, <2>3
    <3> HIDE DEF G, N, T, none, rec, flatten
    <3>2. \E f : IsRun(f, T, N, none, G)
      BY <3>1, RecursionExists
    <3> QED
      BY <3>2, Zenon DEF T, none, IsRun
  <2> DEFINE g == [i \in 1..N |-> f[i]]
  <2>5. g = rec(g)
    <3> SUFFICES ASSUME NEW i \in 1..N
                 PROVE  g[i] = IF i = 1 THEN ss[i] ELSE g[i - 1] \o ss[i]
      OBVIOUS
    <3>1. f[i - 1] \in Seq(S)
      <4>1. i - 1 \in 0..N
        BY <1>1
      <4> HIDE DEF N, G
      <4> QED
        BY <4>1
    <3>2. f[i] = IF i = 1 THEN ss[1] ELSE f[i - 1] \o ss[i]
      <4>1. f[i] = G[i][f[i - 1]]
        BY <2>4
      <4> QED
        BY <4>1, <3>1
    <3>3. i # 1 => g[i - 1] = f[i - 1]
      BY <1>1
    <3> QED
      BY <3>2, <3>3
  <2> HIDE DEF g
  <2>6. flatten = rec(flatten)
    BY <2>5
  <2> HIDE DEF flatten
  <2>7. \A i \in 1..N : flatten[i] = IF i = 1 THEN ss[i] ELSE flatten[i - 1] \o ss[i]
    BY <2>6
  <2> DEFINE h == [i \in 0..N |-> IF i = 0 THEN <<>> ELSE flatten[i]]
  <2>8. \A i \in 0..N : h[i] \in Seq(S)
    <3>1. h[0] \in Seq(S)
      BY <1>1
    <3>0. N \in Nat
      BY <1>1
    <3>2. \A n \in 1..N : h[n - 1] \in Seq(S) => h[n] \in Seq(S)
      <4> SUFFICES ASSUME NEW n \in 1..N, h[n - 1] \in Seq(S) PROVE h[n] \in Seq(S)
        OBVIOUS
      <4>1. h[n] = flatten[n] /\ ss[n] \in Seq(S)
        BY <1>1
      <4>2. CASE n = 1
        BY <4>1, <4>2, <2>7
      <4>3. CASE n # 1
        <5>1. h[n - 1] = flatten[n - 1]
          BY <4>3, <1>1
        <5>2. flatten[n] = flatten[n - 1] \o ss[n]
          BY <4>3, <2>7
        <5> QED
          <6>1. flatten[n - 1] \in Seq(S)
            BY <5>1
          <6> HIDE DEF h
          <6> QED
            BY <6>1, <5>2, <4>1, ConcatProperties
      <4> QED
        BY <4>2, <4>3
    <3> HIDE DEF h, N
    <3> QED
      BY <3>1, <3>2, <3>0, StaysIn
  <2>9. h[N] = flatten[N] /\ N \in 0..N /\ h[0] = <<>>
    BY <1>1, <1>3
  <2>10. \A n \in 1..N : h[n] = h[n - 1] \o ss[n]
    <3> SUFFICES ASSUME NEW n \in 1..N PROVE h[n] = h[n - 1] \o ss[n]
      OBVIOUS
    <3>1. h[n] = IF n = 1 THEN ss[n] ELSE flatten[n - 1] \o ss[n]
      BY <2>7, <1>1
    <3>2. h[n - 1] = IF n = 1 THEN <<>> ELSE flatten[n - 1]
      BY <1>1
    <3>3. <<>> \o ss[n] = ss[n]
      BY <1>1, ConcatEmptySeq
    <3> HIDE DEF h
    <3> QED
      BY <3>1, <3>2, <3>3
  <2>11. h \in [0..N -> Seq(S)]
    BY <2>8
  <2> HIDE DEF h
  <2>12. IsFlattening(h, ss, S)
    BY <2>1, <2>9, <2>10, <2>11 DEF IsFlattening
  <2> QED
    BY <2>12
<1> QED
  BY <1>2, <1>3

\* The sequences of a sequence, one after another.
LEMMA FlattenType ==
  ASSUME NEW S, NEW ss \in Seq(Seq(S))
  PROVE  FlattenSeq(ss) \in Seq(S)
<1>1. PICK h : IsFlattening(h, ss, S)
  BY FlattenGoesOn
<1>2. Len(ss) \in 0..Len(ss)
  BY LenProperties
<1> QED
  BY <1>1, <1>2 DEF IsFlattening

\* The ledger entries of documents, and the states of their queue.
MaybeFiles == Files \cup {""}
DocUrls == Files \cup DOMAIN File
Sums == {Content[f].sum : f \in Files} \cup {""}
Statuses == FailureStatuses \cup SuccessStatuses
              \cup {"duplicate_url", "count_cap", "type_cap", "heavy_skipped", "budget_skipped",
                    "duplicate_checksum", "page_link_cap"}
QueueStates == {"queued", "skipped", "acquired", "processed"}
DocEntries ==
  [url : DocUrls, sum : Sums, size : Nat, depth : Int, status : Statuses, queue : QueueStates]
QueueType ==
  [urls : SUBSET DOMAIN File, sums : SUBSET Sums,
   items : Nat, bytes : Nat, types : Seq({Type[u] : u \in DOMAIN File})]
Ledgers == Seq(DocEntries) \ {<<>>}

\* What a ledger entry is a record of.
LEMMA EntryForm ==
  ASSUME NEW u \in DocUrls, NEW m \in Sums, NEW z \in Nat, NEW d \in Int, NEW st \in Statuses,
         NEW q \in QueueStates
  PROVE  [url |-> u, sum |-> m, size |-> z, depth |-> d, status |-> st, queue |-> q] \in DocEntries
BY DEF DocEntries

\* A ledger entry.
LEMMA EntryIs ==
  ASSUME NEW u \in DocUrls, NEW f \in MaybeFiles, NEW d \in Int, NEW st \in Statuses
  PROVE  Entry(u, f, d, st) \in DocEntries
<1> DEFINE m == IF f = "" THEN "" ELSE Content[f].sum
           z == IF f = "" THEN 0 ELSE Content[f].size
           q == "queued"
<1>1. m \in Sums /\ z \in Nat /\ q \in QueueStates
  <2>1. CASE f = ""
    BY <2>1 DEF Sums, QueueStates
  <2>2. CASE f # ""
    BY <2>2, SiteDocumentsAssumption DEF Sums, QueueStates, MaybeFiles
  <2> QED
    BY <2>1, <2>2
<1>2. Entry(u, f, d, st) =
        [url |-> u, sum |-> m, size |-> z, depth |-> d, status |-> st, queue |-> q]
  BY DEF Entry
<1> HIDE DEF m, z, q
<1> QED
  BY <1>1, <1>2, EntryForm

\* A sequence that is one of a sequence of entries, or begins as one, is none the less one.
LEMMA LedgerGoesOn ==
  ASSUME NEW e \in DocEntries, NEW s \in Seq(DocEntries)
  PROVE  <<e>> \o s \in Ledgers
<1>1. <<e>> \in Seq(DocEntries) /\ Len(<<e>>) = 1
  OBVIOUS
<1>2. <<e>> \o s \in Seq(DocEntries) /\ Len(<<e>> \o s) = 1 + Len(s) /\ Len(s) \in Nat
  BY <1>1, ConcatProperties, LenProperties
<1>3. <<e>> \o s # <<>>
  <2> SUFFICES ASSUME <<e>> \o s = <<>> PROVE FALSE
    OBVIOUS
  <2>1. Len(<<e>> \o s) = 0
    BY EmptySeq
  <2> QED
    BY <2>1, <1>2
<1> QED
  BY <1>2, <1>3 DEF Ledgers

\* What may be said of a file once it is there.
Ends == FailureStatuses \cup SuccessStatuses

\* What is said of a member that is not safe to unpack.
Barred(f, d) == Entry(f, "", d, "archive_member_blocked")

\* Sequences of one, of none, and functions as sequences.
LEMMA SmallSeqs ==
  ASSUME NEW S
  PROVE  /\ <<>> \in Seq(S)
         /\ \A e \in S : <<e>> \in Seq(S)
         /\ \A n \in Nat : \A g \in [1..n -> S] : g \in Seq(S)
<1>1. \A n \in Nat : \A g \in [1..n -> S] : g \in Seq(S)
  OBVIOUS
<1>2. <<>> \in Seq(S)
  OBVIOUS
<1>3. \A e \in S : <<e>> \in Seq(S)
  OBVIOUS
<1> QED
  BY <1>1, <1>2, <1>3

\* An element in front of nothing, or of two sequences.
LEMMA InFront ==
  ASSUME NEW S, NEW e, NEW s \in Seq(S), NEW t \in Seq(S)
  PROVE  /\ <<e>> \o <<>> = <<e>>
         /\ <<e>> \o s \o t = <<e>> \o (s \o t)
<1> DEFINE T == S \cup {e}
<1>1. S \subseteq T /\ e \in T
  OBVIOUS
<1> HIDE DEF T
<1>2. <<e>> \in Seq(T) /\ s \in Seq(T) /\ t \in Seq(T)
  BY <1>1, SmallSeqs, SeqMonotonic
<1>3. <<e>> \o <<>> = <<e>>
  BY <1>2, ConcatEmptySeq
<1>4. <<e>> \o s \o t = <<e>> \o (s \o t)
  BY <1>2, ConcatAssociative
<1> QED
  BY <1>3, <1>4

\* The entry of the file, then entries of S.
UnpackedIn(S, f, rest, below) ==
  \E st \in Ends, x \in Seq(S) :
    Unpacked(f, rest, below) = <<Entry(f, f, MaxArchiveDepth - rest, st)>> \o x

\* Whatever is unpacked, the entry of the file comes first; the others are those
\* of blocked members or were there before, of the members.
LEMMA UnpackedForm ==
  ASSUME NEW S, NEW f \in Files, NEW rest \in 0..MaxArchiveDepth, NEW below,
         rest # 0 =>
           /\ Barred(f, MaxArchiveDepth - rest + 1) \in S
           /\ \A g \in Files : below[g] \in Seq(S)
  PROVE  UnpackedIn(S, f, rest, below)
<1> DEFINE c == Content[f]
           depth == MaxArchiveDepth - rest
           block == Barred(f, depth + 1)
           Single(status) == <<Entry(f, f, depth, status)>>
           blocks == [i \in DOMAIN c.members |->
                        IF c.members[i] # "unsafe" THEN <<>> ELSE <<block>>]
           inners == [i \in DOMAIN c.members |->
                        IF c.members[i] = "unsafe" THEN <<>> ELSE below[c.members[i]]]
           blocked == FlattenSeq(blocks)
           inner == FlattenSeq(inners)
           good == \E e \in ToSet(inner) : e.status \notin FailureStatuses
           Goal(st, x) == Unpacked(f, rest, below) = Single(st) \o x
<1>1. /\ c.members \in Seq(Files \cup {"unsafe"})
      /\ DOMAIN c.members = 1..Len(c.members) /\ Len(c.members) \in Nat
  <2>1. c.members \in Seq(Files \cup {"unsafe"})
    BY SiteDocumentsAssumption
  <2> HIDE DEF c
  <2> QED
    BY <2>1, LenProperties
<1>2. rest # 0 => blocked \in Seq(S)
  <2> SUFFICES ASSUME rest # 0 PROVE blocked \in Seq(S)
    OBVIOUS
  <2>1. block \in S
    OBVIOUS
  <2>2. blocks \in [1..Len(c.members) -> Seq(S)]
    <3> HIDE DEF block, c
    <3>1. <<>> \in Seq(S) /\ <<block>> \in Seq(S)
      BY <2>1, SmallSeqs
    <3>2. blocks = [i \in 1..Len(c.members) |->
                      IF c.members[i] # "unsafe" THEN <<>> ELSE <<block>>]
      BY <1>1
    <3> HIDE DEF blocks
    <3> QED
      BY <3>1, <3>2
  <2> HIDE DEF blocks, c
  <2>3. blocks \in Seq(Seq(S))
    BY <2>2, <1>1, SmallSeqs
  <2> QED
    BY <2>3, FlattenType
<1>3. rest # 0 => inner \in Seq(S)
  <2> SUFFICES ASSUME rest # 0 PROVE inner \in Seq(S)
    OBVIOUS
  <2>1. \A g \in Files : below[g] \in Seq(S)
    OBVIOUS
  <2>2. inners \in [1..Len(c.members) -> Seq(S)]
    <3> HIDE DEF c
    <3>1. <<>> \in Seq(S)
      BY SmallSeqs
    <3>2. inners = [i \in 1..Len(c.members) |->
                      IF c.members[i] = "unsafe" THEN <<>> ELSE below[c.members[i]]]
      BY <1>1
    <3>3. \A i \in 1..Len(c.members) : c.members[i] \in Files \cup {"unsafe"}
      BY <1>1, ElementOfSeq
    <3> HIDE DEF inners
    <3> QED
      BY <2>1, <3>1, <3>2, <3>3
  <2> HIDE DEF inners, c
  <2>3. inners \in Seq(Seq(S))
    BY <2>2, <1>1, SmallSeqs
  <2> QED
    BY <2>3, FlattenType
<1>4. Unpacked(f, rest, below) =
         IF c.format \in DirectFormats
           THEN Single(IF c.readable THEN Kind(depth, "archive_member_extracted", "extracted")
                      ELSE Kind(depth, "archive_member_extract_failed", "extract_failed"))
         ELSE IF c.format \notin DirectFormats \cup ArchiveFormats
           THEN Single(Kind(depth, "archive_member_unsupported", "unsupported_format"))
         ELSE IF rest = 0
           THEN Single(Kind(depth, "archive_member_depth_exceeded", "archive_depth_exceeded"))
         ELSE IF ~c.readable
           THEN Single(Kind(depth, "archive_member_extract_failed", "archive_extract_failed"))
                  \o blocked
         ELSE Single(IF good THEN "archive_extracted" ELSE "archive_empty") \o blocked \o inner
  BY Zenon DEF Unpacked, Barred
<1>5. \A a, b \in Ends : Kind(depth, a, b) \in Ends
  BY DEF Kind
<1>6. \A st : Single(st) \o <<>> = Single(st) /\ <<>> \in Seq(S)
  <2> SUFFICES ASSUME NEW st PROVE Single(st) \o <<>> = Single(st) /\ <<>> \in Seq(S)
    OBVIOUS
  <2>1. <<>> \in Seq(S)
    BY SmallSeqs
  <2>2. \A e : <<e>> \o <<>> = <<e>>
    BY <2>1, InFront
  <2> QED
    BY Zenon, <2>1, <2>2
<1>7. rest # 0 => /\ blocked \o inner \in Seq(S)
                  /\ \A st : Single(st) \o blocked \o inner = Single(st) \o (blocked \o inner)
  <2> SUFFICES ASSUME rest # 0
               PROVE  /\ blocked \o inner \in Seq(S)
                      /\ \A st : Single(st) \o blocked \o inner = Single(st) \o (blocked \o inner)
    OBVIOUS
  <2>1. blocked \in Seq(S) /\ inner \in Seq(S)
    BY <1>2, <1>3
  <2> HIDE DEF blocked, inner
  <2>2. \A e : <<e>> \o blocked \o inner = <<e>> \o (blocked \o inner)
    BY <2>1, InFront
  <2>3. blocked \o inner \in Seq(S)
    BY <2>1, ConcatProperties
  <2> QED
    BY Zenon, <2>2, <2>3
<1> SUFFICES \E st \in Ends, x \in Seq(S) : Goal(st, x)
  BY DEF UnpackedIn
<1> HIDE DEF depth, blocked, inner
<1>8. CASE c.format \in DirectFormats
  <2> DEFINE st == IF c.readable THEN Kind(depth, "archive_member_extracted", "extracted")
                   ELSE Kind(depth, "archive_member_extract_failed", "extract_failed")
  <2>1. st \in Ends
    BY <1>5 DEF Ends, FailureStatuses, SuccessStatuses
  <2>2. Unpacked(f, rest, below) = Single(st)
    BY <1>4, <1>8, Zenon
  <2> HIDE DEF st, Single, c
  <2> QED
    BY <2>1, <2>2, <1>6
<1>9. CASE c.format \notin DirectFormats \cup ArchiveFormats
  <2> DEFINE st == Kind(depth, "archive_member_unsupported", "unsupported_format")
  <2>1. st \in Ends
    BY <1>5 DEF Ends, FailureStatuses, SuccessStatuses
  <2>2. Unpacked(f, rest, below) = Single(st)
    BY <1>4, <1>9, Zenon
  <2> HIDE DEF st, Single, c
  <2> QED
    BY <2>1, <2>2, <1>6
<1>10. CASE c.format \notin DirectFormats /\ c.format \in ArchiveFormats /\ rest = 0
  <2> DEFINE st == Kind(depth, "archive_member_depth_exceeded", "archive_depth_exceeded")
  <2>1. st \in Ends
    BY <1>5 DEF Ends, FailureStatuses, SuccessStatuses
  <2>2. Unpacked(f, rest, below) = Single(st)
    BY <1>4, <1>10, Zenon
  <2> HIDE DEF st, Single, c
  <2> QED
    BY <2>1, <2>2, <1>6
<1>11. CASE c.format \notin DirectFormats /\ c.format \in ArchiveFormats /\ rest # 0 /\ ~c.readable
  <2> DEFINE st == Kind(depth, "archive_member_extract_failed", "archive_extract_failed")
  <2>1. st \in Ends /\ rest # 0
    BY <1>11, <1>5 DEF Ends, FailureStatuses, SuccessStatuses
  <2>2. Unpacked(f, rest, below) = Single(st) \o blocked
    BY <1>4, <1>11, Zenon
  <2> HIDE DEF st, Single, c
  <2> QED
    BY <2>1, <2>2, <1>2
<1>12. CASE c.format \notin DirectFormats /\ c.format \in ArchiveFormats /\ rest # 0 /\ c.readable
  <2> DEFINE st == IF good THEN "archive_extracted" ELSE "archive_empty"
  <2>1. st \in Ends /\ rest # 0
    BY <1>12 DEF Ends, SuccessStatuses
  <2>2. Unpacked(f, rest, below) = Single(st) \o blocked \o inner
    BY <1>4, <1>12, Zenon
  <2> HIDE DEF st, Single, c, good
  <2> QED
    BY <2>1, <2>2, <1>7
<1> QED
  BY <1>8, <1>9, <1>10, <1>11, <1>12, Zenon

\* The entry of a blocked member.
LEMMA BarredIs ==
  ASSUME NEW f \in Files, NEW d \in Int
  PROVE  /\ Barred(f, d) \in DocEntries
         /\ Barred(f, d).depth = d /\ Barred(f, d).status \in Ends
<1> DEFINE none == ""
           st == "archive_member_blocked"
<1>1. none \in MaybeFiles /\ st \in Statuses /\ f \in DocUrls /\ st \in Ends
  BY DEF DocUrls, MaybeFiles, Statuses, FailureStatuses, Ends
<1>2. Barred(f, d) = Entry(f, none, d, st)
  BY Zenon DEF Barred
<1> HIDE DEF none, st
<1>3. Entry(f, none, d, st) \in DocEntries
  BY <1>1, EntryIs
<1>4. Entry(f, none, d, st).depth = d /\ Entry(f, none, d, st).status = st
  BY DEF Entry
<1> QED
  BY Zenon, <1>1, <1>2, <1>3, <1>4

\* The entry of a file that is there.
LEMMA OwnIs ==
  ASSUME NEW f \in Files, NEW d \in Int, NEW st \in Ends
  PROVE  Entry(f, f, d, st) \in DocEntries
BY EntryIs DEF DocUrls, MaybeFiles, Statuses, Ends

\* The entries of a file and, of an archive, of its members.
LEMMA UnpackedType ==
  ASSUME NEW f \in Files, NEW rest \in 0..MaxArchiveDepth, NEW below,
         rest # 0 => below \in [Files -> Ledgers]
  PROVE  Unpacked(f, rest, below) \in Ledgers
<1>1. MaxArchiveDepth - rest \in Int /\ MaxArchiveDepth - rest + 1 \in Int
  BY SiteDocumentsAssumption
<1>2. rest # 0 => \A g \in Files : below[g] \in Seq(DocEntries)
  BY DEF Ledgers
<1>3. UnpackedIn(DocEntries, f, rest, below)
  BY <1>1, <1>2, BarredIs, UnpackedForm
<1>5. PICK st \in Ends, x \in Seq(DocEntries) :
        Unpacked(f, rest, below) = <<Entry(f, f, MaxArchiveDepth - rest, st)>> \o x
  BY <1>3 DEF UnpackedIn
<1>4. Entry(f, f, MaxArchiveDepth - rest, st) \in DocEntries
  BY <1>1, OwnIs
<1> QED
  BY <1>5, <1>4, LedgerGoesOn

\* The recursion of Unpack.
LEMMA UnpackIs ==
  \A n \in 0..MaxArchiveDepth :
    Unpack[n] = [f \in Files |-> Unpacked(f, n, IF n = 0 THEN <<>> ELSE Unpack[n - 1])]
<1> DEFINE N == MaxArchiveDepth
           T == [Files -> Ledgers]
           start == [f \in Files |-> Unpacked(f, 0, <<>>)]
           G == [n \in 1..N |-> [x \in T |-> [f \in Files |-> Unpacked(f, n, x)]]]
           rec(u) == [n \in 0..N |-> [f \in Files |-> Unpacked(f, n, IF n = 0 THEN <<>> ELSE u[n - 1])]]
<1>1. N \in Nat
  BY SiteDocumentsAssumption
<1>2. start \in T
  BY UnpackedType, <1>1
<1>3. G \in [1..N -> [T -> T]]
  <2> SUFFICES ASSUME NEW n \in 1..N, NEW x \in T, NEW f \in Files
               PROVE  Unpacked(f, n, x) \in Ledgers
    OBVIOUS
  <2>1. n \in 0..N /\ n # 0
    BY <1>1
  <2> QED
    BY <2>1, UnpackedType
<1>4. PICK u : IsRun(u, T, N, start, G)
  <2> HIDE DEF N, T, start, G
  <2> QED
    BY <1>1, <1>2, <1>3, RecursionExists
<1>5. u \in [0..N -> T] /\ u[0] = start /\ \A n \in 1..N : u[n] = G[n][u[n - 1]]
  <2> HIDE DEF N, T, start, G
  <2> QED
    BY <1>4 DEF IsRun
<1>6. \A n \in 0..N : u[n] = [f \in Files |-> Unpacked(f, n, IF n = 0 THEN <<>> ELSE u[n - 1])]
  <2> SUFFICES ASSUME NEW n \in 0..N
               PROVE  u[n] = [f \in Files |-> Unpacked(f, n, IF n = 0 THEN <<>> ELSE u[n - 1])]
    OBVIOUS
  <2>1. CASE n = 0
    BY <2>1, <1>5
  <2>2. CASE n # 0
    <3>1. n \in 1..N /\ n - 1 \in 0..N
      BY <2>2, <1>1
    <3>2. u[n - 1] \in T
      <4> HIDE DEF N, T, start, G
      <4> QED
        BY <3>1, <1>5
    <3>3. u[n] = G[n][u[n - 1]]
      BY <3>1, <1>5
    <3>4. G[n][u[n - 1]] = [f \in Files |-> Unpacked(f, n, u[n - 1])]
      <4> HIDE DEF T, N
      <4> QED
        BY <3>1, <3>2
    <3> QED
      BY <3>3, <3>4, <2>2
  <2> QED
    BY <2>1, <2>2
<1>7. u = rec(u)
  <2> HIDE DEF start, G, T
  <2> QED
    BY <1>5, <1>6
<1>8. Unpack = CHOOSE v : v = rec(v)
  BY DEF Unpack
<1>9. Unpack = rec(Unpack)
  BY <1>7, <1>8
<1>10. \A n \in 0..N : Unpack[n] = [f \in Files |-> Unpacked(f, n, IF n = 0 THEN <<>> ELSE Unpack[n - 1])]
  BY <1>9
<1> QED
  BY <1>10

\* So a downloaded file has entries, the first of them its own.
LEMMA UnpackType == \A rest \in 0..MaxArchiveDepth : Unpack[rest] \in [Files -> Ledgers]
<1> DEFINE N == MaxArchiveDepth
           T == [Files -> Ledgers]
<1>1. N \in Nat
  BY SiteDocumentsAssumption
<1>2. Unpack[0] \in T
  <2>1. 0 \in 0..N
    BY <1>1
  <2>2. Unpack[0] = [f \in Files |-> Unpacked(f, 0, <<>>)]
    BY <2>1, UnpackIs
  <2>3. \A f \in Files : Unpacked(f, 0, <<>>) \in Ledgers
    BY <2>1, UnpackedType
  <2> QED
    BY <2>2, <2>3
<1>3. \A n \in 1..N : Unpack[n - 1] \in T => Unpack[n] \in T
  <2> SUFFICES ASSUME NEW n \in 1..N, Unpack[n - 1] \in T PROVE Unpack[n] \in T
    OBVIOUS
  <2>1. n \in 0..N /\ n # 0
    BY <1>1
  <2>2. Unpack[n] = [f \in Files |-> Unpacked(f, n, Unpack[n - 1])]
    BY <2>1, UnpackIs
  <2>3. \A f \in Files : Unpacked(f, n, Unpack[n - 1]) \in Ledgers
    BY <2>1, UnpackedType
  <2> QED
    BY <2>2, <2>3
<1> HIDE DEF N, T
<1>4. \A n \in 0..N : Unpack[n] \in T
  BY <1>1, <1>2, <1>3, StaysIn
<1> QED
  BY <1>4 DEF N, T

\* Below a depth and not too deep.
Nested(d) == {e \in DocEntries : d < e.depth /\ e.depth <= MaxArchiveDepth /\ e.status \in Ends}

\* A downloaded file has its own entry, and those of members, deeper than it but
\* never below the limit.
LEMMA UnpackTells ==
  \A n \in 0..MaxArchiveDepth, f \in Files :
    \E st \in Ends, x \in Seq(Nested(MaxArchiveDepth - n)) :
      Unpack[n][f] = <<Entry(f, f, MaxArchiveDepth - n, st)>> \o x
<1> DEFINE N == MaxArchiveDepth
           Told(n) == \A f \in Files : \E st \in Ends, x \in Seq(Nested(N - n)) :
                        Unpack[n][f] = <<Entry(f, f, N - n, st)>> \o x
           told == [n \in 0..N |-> Told(n)]
<1>1. N \in Nat
  BY SiteDocumentsAssumption
<1>2. Told(0)
  <2> SUFFICES ASSUME NEW f \in Files
               PROVE  \E st \in Ends, x \in Seq(Nested(N - 0)) :
                        Unpack[0][f] = <<Entry(f, f, N - 0, st)>> \o x
    OBVIOUS
  <2>1. 0 \in 0..N
    BY <1>1
  <2>2. Unpack[0][f] = Unpacked(f, 0, <<>>)
    BY <2>1, UnpackIs
  <2>3. UnpackedIn(Nested(N - 0), f, 0, <<>>)
    BY <2>1, UnpackedForm
  <2> QED
    BY <2>2, <2>3 DEF UnpackedIn
<1>3. ASSUME NEW n \in 1..N, Told(n - 1) PROVE Told(n)
  <2> SUFFICES ASSUME NEW f \in Files
               PROVE  \E st \in Ends, x \in Seq(Nested(N - n)) :
                        Unpack[n][f] = <<Entry(f, f, N - n, st)>> \o x
    OBVIOUS
  <2> DEFINE below == Unpack[n - 1]
             S == Nested(N - n)
  <2>1. n \in 0..N /\ n # 0 /\ n - 1 \in 0..N
    BY <1>1
  <2>2. Unpack[n][f] = Unpacked(f, n, below)
    BY <2>1, UnpackIs
  <2>3. Barred(f, N - n + 1) \in S
    <3> DEFINE d == N - n + 1
    <3>1. d \in Int /\ N - n < d /\ d <= N
      BY <1>1, <2>1
    <3> HIDE DEF d
    <3>2. Barred(f, d) \in DocEntries /\ Barred(f, d).depth = d /\ Barred(f, d).status \in Ends
      BY <3>1, BarredIs
    <3> DEFINE e == Barred(f, d)
    <3> HIDE DEF e
    <3>3. e \in S
      BY <3>1, <3>2 DEF Nested, e
    <3> QED
      BY <3>3 DEF e, d
  <2>4. ASSUME NEW g \in Files PROVE below[g] \in Seq(S)
    <3>1. PICK st \in Ends, x \in Seq(Nested(N - (n - 1))) :
            below[g] = <<Entry(g, g, N - (n - 1), st)>> \o x
      BY <1>3
    <3> DEFINE e == Entry(g, g, N - (n - 1), st)
               d == N - (n - 1)
    <3>2. d \in Int /\ N - n < d /\ d <= N /\ d = N - n + 1
      BY <1>1, <2>1
    <3>3. e.depth = d /\ e.status = st
      BY DEF Entry
    <3>4. e \in DocEntries
      <4> HIDE DEF d
      <4> QED
        BY <3>2, OwnIs DEF d
    <3> HIDE DEF e
    <3>5. e \in S
      BY <3>2, <3>3, <3>4 DEF Nested
    <3>6. Nested(d) \subseteq S
      <4> SUFFICES ASSUME NEW y \in Nested(d) PROVE y \in S
        OBVIOUS
      <4>1. y \in DocEntries /\ d < y.depth /\ y.depth <= N /\ y.status \in Ends /\ y.depth \in Int
        BY DEF Nested, DocEntries
      <4>2. N - n < y.depth
        BY <4>1, <3>2, <1>1, <2>1
      <4> QED
        BY <4>1, <4>2 DEF Nested
    <3>7. x \in Seq(Nested(d))
      OBVIOUS
    <3> HIDE DEF S, d
    <3>8. x \in Seq(S)
      BY <3>6, <3>7, SeqMonotonic
    <3>9. <<e>> \in Seq(S)
      BY <3>5
    <3>10. <<e>> \o x \in Seq(S)
      BY <3>8, <3>9, ConcatProperties
    <3> QED
      BY <3>1, <3>10 DEF e
  <2> HIDE DEF below, S
  <2>5. UnpackedIn(S, f, n, below)
    BY <2>1, <2>3, <2>4, UnpackedForm
  <2> QED
    BY <2>2, <2>5 DEF S, UnpackedIn
<1> HIDE DEF Told
<1>4. told[0] \in {TRUE} /\ \A n \in 1..N : told[n - 1] \in {TRUE} => told[n] \in {TRUE}
  <2>1. 0 \in 0..N /\ \A n \in 1..N : n \in 0..N /\ n - 1 \in 0..N
    BY <1>1
  <2>2. \A n \in 0..N : told[n] = Told(n)
    OBVIOUS
  <2>3. told[0] = TRUE
    BY <2>1, <2>2, <1>2
  <2>4. ASSUME NEW n \in 1..N, told[n - 1] \in {TRUE} PROVE told[n] \in {TRUE}
    <3>1. Told(n - 1)
      BY <2>1, <2>2, <2>4
    <3>2. Told(n)
      BY <3>1, <1>3
    <3> QED
      BY <3>2, <2>1, <2>2
  <2> QED
    BY <2>3, <2>4
<1>5. \A n \in 0..N : told[n] \in {TRUE}
  <2> DEFINE T == {TRUE}
  <2>1. told[0] \in T /\ \A n \in 1..N : told[n - 1] \in T => told[n] \in T
    BY <1>4
  <2> HIDE DEF told, N, T
  <2>2. \A n \in 0..N : told[n] \in T
    BY <1>1, <2>1, StaysIn
  <2> QED
    BY <2>2 DEF T
<1>6. \A n \in 0..N : Told(n)
  BY <1>5
<1> QED
  BY <1>6 DEF Told

\* One entry by itself.
LEMMA LedgerOfOne ==
  ASSUME NEW e \in DocEntries
  PROVE  <<e>> \in Ledgers
<1>1. <<e>> \in Seq(DocEntries) /\ <<e>> # <<>>
  OBVIOUS
<1> QED
  BY <1>1 DEF Ledgers

\* An entry of another url, or of another fate in the queue, is an entry.
LEMMA EntryChanged ==
  ASSUME NEW e \in DocEntries, NEW u \in DocUrls, NEW q \in QueueStates
  PROVE  [e EXCEPT !.url = u] \in DocEntries /\ [e EXCEPT !.queue = q] \in DocEntries
<1>1. /\ e = [url |-> e.url, sum |-> e.sum, size |-> e.size, depth |-> e.depth,
              status |-> e.status, queue |-> e.queue]
      /\ e.url \in DocUrls /\ e.sum \in Sums /\ e.size \in Nat /\ e.depth \in Int
      /\ e.status \in Statuses /\ e.queue \in QueueStates
  BY DEF DocEntries
<1>2. /\ [e EXCEPT !.url = u] = [url |-> u, sum |-> e.sum, size |-> e.size, depth |-> e.depth,
                                 status |-> e.status, queue |-> e.queue]
      /\ [e EXCEPT !.queue = q] = [url |-> e.url, sum |-> e.sum, size |-> e.size,
                                   depth |-> e.depth, status |-> e.status, queue |-> q]
  BY <1>1
<1> QED
  BY <1>1, <1>2, EntryForm

\* A candidate that is not kept leaves one entry.
LEMMA SkipType ==
  ASSUME NEW u \in DocUrls, NEW f \in MaybeFiles, NEW st \in Statuses
  PROVE  Skip(u, f, st) \in Ledgers
<1> DEFINE e == Entry(u, f, 0, st)
           skipped == "skipped"
<1>1. e \in DocEntries /\ skipped \in QueueStates
  <2>1. 0 \in Int
    OBVIOUS
  <2>2. Entry(u, f, 0, st) \in DocEntries
    BY <2>1, EntryIs
  <2> QED
    BY <2>2 DEF QueueStates
<1>2. Skip(u, f, st) = <<[e EXCEPT !.queue = skipped]>>
  BY DEF Skip
<1> HIDE DEF e, skipped
<1>3. [e EXCEPT !.queue = skipped] \in DocEntries
  <2>1. u \in DocUrls
    OBVIOUS
  <2> QED
    BY <1>1, <2>1, EntryChanged
<1> QED
  BY <1>2, <1>3, LedgerOfOne

\* What asking for a document leaves, whether it answers or not.
LEMMA AcquireType ==
  ASSUME NEW u \in DOMAIN File, NEW answered
  PROVE  Acquire(u, answered) \in Ledgers
<1>1. u \in DocUrls /\ File[u] \in Files
  BY SiteDocumentsAssumption DEF DocUrls, MaybeFiles
<1>2. CASE ~answered
  <2> DEFINE none == ""
             lost == "request_error"
  <2>1. none \in MaybeFiles /\ lost \in Statuses /\ 0 \in Int
    BY DEF Statuses, FailureStatuses, MaybeFiles
  <2>2. Acquire(u, answered) = <<Entry(u, none, 0, lost)>>
    BY <1>2 DEF Acquire
  <2> HIDE DEF none, lost
  <2>3. Entry(u, none, 0, lost) \in DocEntries
    BY <1>1, <2>1, EntryIs
  <2> QED
    BY <2>2, <2>3, LedgerOfOne
<1>3. CASE answered
  <2> DEFINE all == Unpack[MaxArchiveDepth][File[u]]
  <2>1. all \in Ledgers
    <3>1. MaxArchiveDepth \in 0..MaxArchiveDepth
      BY SiteDocumentsAssumption
    <3> QED
      BY <3>1, <1>1, UnpackType
  <2>2. Acquire(u, answered) = <<[all[1] EXCEPT !.url = u]>> \o Tail(all)
    BY <1>3 DEF Acquire
  <2> HIDE DEF all
  <2>3. all \in Seq(DocEntries) /\ all # <<>>
    BY <2>1 DEF Ledgers
  <2>4. all[1] \in DocEntries /\ Tail(all) \in Seq(DocEntries)
    BY <2>3
  <2>5. [all[1] EXCEPT !.url = u] \in DocEntries
    BY <2>4, <1>1, EntryChanged DEF QueueStates
  <2> QED
    BY <2>2, <2>4, <2>5, LedgerGoesOn
<1> QED
  BY <1>2, <1>3

\* The queue after a candidate was given a slot.
LEMMA AdmitType ==
  ASSUME NEW q \in QueueType, NEW u \in DOMAIN File
  PROVE  Admit(q, u) \in QueueType
<1> DEFINE T == {Type[v] : v \in DOMAIN File}
<1>1. Type[u] \in T /\ q.types \in Seq(T)
  BY DEF QueueType
<1>2. Append(q.types, Type[u]) \in Seq(T)
  <2> HIDE DEF T
  <2> QED
    BY <1>1
<1>3. q.urls \cup {u} \in SUBSET DOMAIN File /\ q.items + 1 \in Nat
  BY DEF QueueType
<1> QED
  BY <1>2, <1>3 DEF Admit, QueueType

\* What becomes of a candidate that was asked for.
LEMMA FinalizeRecordsType ==
  ASSUME NEW q \in QueueType, NEW u \in DOMAIN File, NEW es \in Ledgers
  PROVE  /\ FinalizeRecords(q, u, es).queue \in QueueType
         /\ FinalizeRecords(q, u, es).entries \in Ledgers
<1> DEFINE first == es[1]
           f == IF first.sum = "" THEN "" ELSE File[u]
           Settled(e) == [e EXCEPT !.queue = IF e.status \in SuccessStatuses THEN "acquired"
                                             ELSE "processed"]
           grown == [q EXCEPT !.bytes = @ + first.size,
                              !.sums = IF first.sum = "" THEN @ ELSE @ \cup {first.sum}]
           settled == [i \in DOMAIN es |-> Settled(es[i])]
           Now == FinalizeRecords(q, u, es)
<1>1. /\ u \in DocUrls /\ f \in MaybeFiles /\ es \in Seq(DocEntries) /\ es # <<>>
      /\ first \in DocEntries
  <2>1. u \in DocUrls /\ f \in MaybeFiles
    BY SiteDocumentsAssumption DEF DocUrls, MaybeFiles
  <2>2. es \in Seq(DocEntries) /\ es # <<>>
    BY DEF Ledgers
  <2>3. es[1] \in DocEntries
    BY <2>2
  <2> QED
    BY <2>1, <2>2, <2>3
<1>2. \/ Now = [queue |-> q, entries |-> Skip(u, f, "heavy_skipped")]
      \/ Now = [queue |-> q, entries |-> Skip(u, f, "budget_skipped")]
      \/ Now = [queue |-> q, entries |-> Skip(u, f, "duplicate_checksum")]
      \/ Now = [queue |-> grown, entries |-> settled]
  BY Zenon DEF FinalizeRecords
<1>3. \A st \in {"heavy_skipped", "budget_skipped", "duplicate_checksum"} : Skip(u, f, st) \in Ledgers
  <2> SUFFICES ASSUME NEW st \in {"heavy_skipped", "budget_skipped", "duplicate_checksum"}
               PROVE  Skip(u, f, st) \in Ledgers
    OBVIOUS
  <2>1. st \in Statuses
    BY DEF Statuses
  <2> HIDE DEF f
  <2> QED
    BY <2>1, <1>1, SkipType
<1>4. grown \in QueueType
  <2> HIDE DEF first
  <2>1. first.size \in Nat /\ first.sum \in Sums
    BY <1>1 DEF DocEntries
  <2>2. q.bytes + first.size \in Nat /\ q.sums \cup {first.sum} \in SUBSET Sums
    BY <2>1 DEF QueueType
  <2> QED
    BY <2>2 DEF QueueType
<1>5. settled \in Ledgers
  <2>1. \A i \in 1..Len(es) : settled[i] \in DocEntries
    <3> SUFFICES ASSUME NEW i \in 1..Len(es) PROVE settled[i] \in DocEntries
      OBVIOUS
    <3> DEFINE qs == IF es[i].status \in SuccessStatuses THEN "acquired" ELSE "processed"
    <3>1. es[i] \in DocEntries /\ i \in DOMAIN es
      <4>1. es \in Seq(DocEntries)
        BY <1>1
      <4> HIDE DEF settled, Now, grown, f, first
      <4> QED
        BY <4>1, ElementOfSeq
    <3>2. qs \in QueueStates /\ settled[i] = [es[i] EXCEPT !.queue = qs]
      BY <3>1 DEF QueueStates
    <3> HIDE DEF qs, settled
    <3>3. [es[i] EXCEPT !.queue = qs] \in DocEntries
      BY <3>1, <3>2, <1>1, EntryChanged
    <3> QED
      BY <3>2, <3>3
  <2>2. Len(es) \in Nat /\ DOMAIN es = 1..Len(es) /\ Len(es) # 0
    BY <1>1, LenProperties, EmptySeq
  <2>3. settled = [i \in 1..Len(es) |-> settled[i]]
    BY <2>2
  <2> HIDE DEF settled
  <2>4. settled \in Seq(DocEntries) /\ Len(settled) = Len(es)
    <3>1. settled \in [1..Len(es) -> DocEntries]
      BY <2>1, <2>3
    <3> QED
      BY <3>1, <2>2
  <2>5. settled # <<>>
    BY <2>2, <2>4
  <2> QED
    BY <2>4, <2>5 DEF Ledgers
<1> HIDE DEF f, grown, settled
<1>6. CASE Now = [queue |-> q, entries |-> Skip(u, f, "heavy_skipped")]
  BY <1>3, <1>6
<1>7. CASE Now = [queue |-> q, entries |-> Skip(u, f, "budget_skipped")]
  BY <1>3, <1>7
<1>8. CASE Now = [queue |-> q, entries |-> Skip(u, f, "duplicate_checksum")]
  BY <1>3, <1>8
<1>9. CASE Now = [queue |-> grown, entries |-> settled]
  BY <1>4, <1>5, <1>9
<1> QED
  BY <1>2, <1>6, <1>7, <1>8, <1>9

\* Why a candidate may be refused.
LEMMA RefusedIs ==
  ASSUME NEW q, NEW u
  PROVE  Refused(q, u) \in {"", "duplicate_url", "count_cap", "type_cap"}
BY DEF Refused

\* A candidate of the queue, asked for or at hand.
LEMMA CollectType ==
  ASSUME NEW q \in QueueType, NEW u \in DOMAIN File, NEW answered
  PROVE  /\ Collect(q, u, answered).queue \in QueueType
         /\ Collect(q, u, answered).entries \in Ledgers
         /\ CollectDirect(q, u).queue \in QueueType
         /\ CollectDirect(q, u).entries \in Ledgers
<1> DEFINE none == ""
           why == Refused(q, u)
           heavy == "heavy_skipped"
<1>1. u \in DocUrls /\ none \in MaybeFiles
  BY DEF DocUrls, MaybeFiles
<1>2. /\ FinalizeRecords(Admit(q, u), u, Acquire(u, answered)).queue \in QueueType
      /\ FinalizeRecords(Admit(q, u), u, Acquire(u, answered)).entries \in Ledgers
      /\ FinalizeRecords(Admit(q, u), u, Acquire(u, TRUE)).queue \in QueueType
      /\ FinalizeRecords(Admit(q, u), u, Acquire(u, TRUE)).entries \in Ledgers
  <2>1. Acquire(u, answered) \in Ledgers /\ Acquire(u, TRUE) \in Ledgers /\ Admit(q, u) \in QueueType
    BY AcquireType, AdmitType
  <2> QED
    BY <2>1, FinalizeRecordsType
<1>3. Skip(u, none, heavy) \in Ledgers
  <2>1. heavy \in Statuses
    BY DEF Statuses
  <2> HIDE DEF none, heavy
  <2> QED
    BY <2>1, <1>1, SkipType
<1>4. CASE why # ""
  <2>1. why \in Statuses
    BY <1>4, RefusedIs DEF Statuses
  <2>2. /\ Collect(q, u, answered) = [queue |-> q, entries |-> Skip(u, none, why)]
        /\ CollectDirect(q, u) = [queue |-> q, entries |-> Skip(u, none, why)]
    BY <1>4, Zenon DEF Collect, CollectDirect
  <2> HIDE DEF none, why
  <2>3. Skip(u, none, why) \in Ledgers
    BY <2>1, <1>1, SkipType
  <2> QED
    BY <2>2, <2>3
<1>5. CASE why = ""
  <2>1. Collect(q, u, answered) = FinalizeRecords(Admit(q, u), u, Acquire(u, answered))
    BY <1>5 DEF Collect
  <2>2. \/ CollectDirect(q, u) = [queue |-> Admit(q, u), entries |-> Skip(u, none, heavy)]
        \/ CollectDirect(q, u) = FinalizeRecords(Admit(q, u), u, Acquire(u, TRUE))
    BY <1>5, Zenon DEF CollectDirect
  <2>3. Admit(q, u) \in QueueType
    BY AdmitType
  <2> HIDE DEF none, heavy
  <2>4. CASE CollectDirect(q, u) = [queue |-> Admit(q, u), entries |-> Skip(u, none, heavy)]
    BY <2>1, <2>3, <2>4, <1>2, <1>3
  <2>5. CASE CollectDirect(q, u) = FinalizeRecords(Admit(q, u), u, Acquire(u, TRUE))
    BY <2>1, <2>5, <1>2
  <2> QED
    BY <2>2, <2>4, <2>5
<1> QED
  BY <1>4, <1>5

\* What the queue counts of an entry.
IsKept(e) == e.queue # "skipped" /\ e.depth = 0
Unsummed(e) == e.sum = ""
IsDouble(e) == e.status = "duplicate_checksum"
Bytes(e) == IF IsKept(e) THEN e.size ELSE 0
KeptOf(s) == {i \in DOMAIN s : IsKept(s[i])}

\* c adds up the bytes of the files kept among s, entry by entry.
IsCharge(c, s) ==
  /\ c \in [0..Len(s) -> Nat] /\ c[0] = 0
  /\ \A n \in 1..Len(s) : c[n] = c[n - 1] + Bytes(s[n])

\* The queue q and its ledger s agree.
Filed(q, s) ==
  /\ s \in Seq(DocEntries)
  /\ \E c : IsCharge(c, s) /\ q.bytes = c[Len(s)]
  /\ MaxTotalBytes > 0 => q.bytes <= MaxTotalBytes
  /\ q.items <= MaxQueueItems /\ q.items = Len(q.types)
  /\ IsFiniteSet(KeptOf(s)) /\ Cardinality(KeptOf(s)) <= q.items
  /\ \A i, j \in KeptOf(s) : i # j => /\ s[i].url # s[j].url
                                      /\ Unsummed(s[i]) \/ s[i].sum # s[j].sum
  /\ \A i \in KeptOf(s) : s[i].url \in q.urls /\ (Unsummed(s[i]) \/ s[i].sum \in q.sums)
  /\ \A m \in q.sums : \E j \in KeptOf(s) : s[j].sum = m
  /\ \A i \in DOMAIN s : IsDouble(s[i]) => \E j \in KeptOf(s) : j < i /\ s[j].sum = s[i].sum
  /\ \A i \in DOMAIN s : s[i].depth <= MaxArchiveDepth

\* The queue goes from q to r, and the entries t are new: nothing of them is kept,
\* or the first is, of a url and a content that was not there.
Settles(q, r, t) ==
  /\ r \in QueueType /\ t \in Seq(DocEntries)
  /\ q.urls \subseteq r.urls /\ r.items <= MaxQueueItems /\ r.items = Len(r.types)
  /\ \A i \in DOMAIN t : t[i].depth <= MaxArchiveDepth
  /\ \A i \in DOMAIN t : IsDouble(t[i]) => t[i].sum \in q.sums
  /\ \/ /\ \A i \in DOMAIN t : ~IsKept(t[i])
        /\ r.bytes = q.bytes /\ r.sums = q.sums /\ r.items >= q.items
     \/ /\ 1 \in DOMAIN t /\ IsKept(t[1]) /\ \A i \in DOMAIN t : i # 1 => ~IsKept(t[i])
        /\ t[1].url \in r.urls \ q.urls /\ r.items = q.items + 1
        /\ r.bytes = q.bytes + t[1].size /\ (MaxTotalBytes > 0 => r.bytes <= MaxTotalBytes)
        /\ IF Unsummed(t[1]) THEN r.sums = q.sums
           ELSE t[1].sum \notin q.sums /\ r.sums = q.sums \cup {t[1].sum}

\* The bytes of more entries, of which only the first may be kept.
LEMMA ChargeGoesOn ==
  ASSUME NEW s \in Seq(DocEntries), NEW t \in Seq(DocEntries), NEW c, IsCharge(c, s),
         \A i \in DOMAIN t : i # 1 => ~IsKept(t[i]),
         NEW more \in Nat, more = IF 1 \in DOMAIN t THEN Bytes(t[1]) ELSE 0
  PROVE  \E d : IsCharge(d, s \o t) /\ d[Len(s \o t)] = c[Len(s)] + more
<1> DEFINE u == s \o t
           k == Len(s)
           d == [n \in 0..Len(u) |-> IF n <= k THEN c[n] ELSE c[k] + more]
<1>1. /\ k \in Nat /\ Len(t) \in Nat /\ Len(u) = k + Len(t) /\ DOMAIN t = 1..Len(t)
      /\ \A i \in 1..k + Len(t) : u[i] = IF i <= k THEN s[i] ELSE t[i - k]
  BY LenProperties, ConcatProperties
<1> HIDE DEF u, k
<1>2. c \in [0..k -> Nat] /\ c[0] = 0 /\ \A n \in 1..k : c[n] = c[n - 1] + Bytes(s[n])
  BY DEF IsCharge, k
<1>3. c[k] \in Nat /\ c[k] + more \in Nat
  <2>1. k \in 0..k
    BY <1>1
  <2>2. c[k] \in Nat
    BY <2>1, <1>2
  <2> QED
    BY <2>2
<1>4. d \in [0..Len(u) -> Nat] /\ d[0] = 0
  BY <1>1, <1>2, <1>3
<1>5. ASSUME NEW n \in 1..Len(u) PROVE d[n] = d[n - 1] + Bytes(u[n])
  <2>1. n \in 0..Len(u) /\ n - 1 \in 0..Len(u) /\ n \in Nat
    BY <1>1
  <2>2. CASE n <= k
    <3>1. n - 1 <= k /\ n \in 1..k /\ u[n] = s[n]
      BY <2>1, <2>2, <1>1
    <3>2. d[n] = c[n] /\ d[n - 1] = c[n - 1]
      BY <2>1, <2>2, <3>1
    <3> QED
      BY <3>1, <3>2, <1>2
  <2>3. CASE n = k + 1
    <3>1. /\ d[n] = c[k] + more /\ d[n - 1] = c[k] /\ u[n] = t[1] /\ 1 \in DOMAIN t
      BY <2>1, <2>3, <1>1
    <3> QED
      BY <3>1
  <2>4. CASE ~(n <= k) /\ n # k + 1
    <3>1. /\ d[n] = c[k] + more /\ d[n - 1] = c[k] + more /\ u[n] = t[n - k]
          /\ n - k \in DOMAIN t /\ n - k # 1
      BY <2>1, <2>4, <1>1
    <3>2. Bytes(u[n]) = 0
      BY <3>1 DEF Bytes
    <3> QED
      BY <3>1, <3>2, <1>3
  <2> QED
    BY <2>2, <2>3, <2>4
<1>6. d[Len(u)] = c[k] + more
  <2>1. CASE Len(t) = 0
    BY <2>1, <1>1, <1>2
  <2>2. CASE Len(t) # 0
    BY <2>2, <1>1
  <2> QED
    BY <2>1, <2>2
<1> HIDE DEF d
<1>7. IsCharge(d, u)
  BY <1>4, <1>5 DEF IsCharge
<1> QED
  BY <1>6, <1>7 DEF u, k

\* An agreement lasts.
LEMMA SettlesFiled ==
  ASSUME NEW q \in QueueType, NEW s, Filed(q, s), NEW r, NEW t, Settles(q, r, t)
  PROVE  Filed(r, s \o t)
<1> DEFINE u == s \o t
           k == Len(s)
           first == 1 \in DOMAIN t /\ IsKept(t[1])
           more == IF 1 \in DOMAIN t THEN Bytes(t[1]) ELSE 0
<1>1. /\ s \in Seq(DocEntries) /\ t \in Seq(DocEntries) /\ r \in QueueType
  BY DEF Filed, Settles
<1>2. /\ k \in Nat /\ Len(t) \in Nat /\ DOMAIN s = 1..k /\ DOMAIN t = 1..Len(t)
      /\ u \in Seq(DocEntries) /\ Len(u) = k + Len(t) /\ DOMAIN u = 1..k + Len(t)
      /\ \A i \in 1..k : u[i] = s[i]
      /\ \A i \in 1..Len(t) : u[k + i] = t[i]
  <2>1. /\ k \in Nat /\ Len(t) \in Nat /\ DOMAIN s = 1..k /\ DOMAIN t = 1..Len(t)
        /\ u \in Seq(DocEntries) /\ Len(u) = k + Len(t)
        /\ \A i \in 1..k + Len(t) : u[i] = IF i <= k THEN s[i] ELSE t[i - k]
    BY <1>1, LenProperties, ConcatProperties
  <2> HIDE DEF u, k
  <2>2. DOMAIN u = 1..k + Len(t)
    BY <2>1, LenProperties
  <2>3. /\ \A i \in 1..k : u[i] = s[i]
        /\ \A i \in 1..Len(t) : u[k + i] = t[i]
    <3>1. \A i \in 1..k : i \in 1..k + Len(t) /\ i <= k
      BY <2>1
    <3>2. \A i \in 1..Len(t) : /\ k + i \in 1..k + Len(t) /\ ~(k + i <= k)
                              /\ (k + i) - k = i
      BY <2>1
    <3> QED
      BY <2>1, <3>1, <3>2
  <2> QED
    BY <2>1, <2>2, <2>3
<1>3. \A i \in DOMAIN u : i \in 1..k \/ \E j \in 1..Len(t) : i = k + j
  <2> SUFFICES ASSUME NEW i \in 1..k + Len(t), ~(i \in 1..k) PROVE \E j \in 1..Len(t) : i = k + j
    BY <1>2
  <2>1. i - k \in 1..Len(t) /\ i = k + (i - k)
    BY <1>2
  <2> QED
    BY <2>1
<1> HIDE DEF u, k
<1>4. \A i \in DOMAIN t : i # 1 => ~IsKept(t[i])
  BY DEF Settles
<1>5. KeptOf(u) = KeptOf(s) \cup (IF first THEN {k + 1} ELSE {})
  <2>1. ASSUME NEW i \in KeptOf(u) PROVE i \in KeptOf(s) \cup (IF first THEN {k + 1} ELSE {})
    <3>1. i \in DOMAIN u /\ IsKept(u[i])
      BY DEF KeptOf
    <3>2. CASE i \in 1..k
      BY <3>1, <3>2, <1>2 DEF KeptOf
    <3>3. CASE \E j \in 1..Len(t) : i = k + j
      <4>1. PICK j \in 1..Len(t) : i = k + j
        BY <3>3
      <4>2. IsKept(t[j]) /\ j \in DOMAIN t
        BY <3>1, <4>1, <1>2
      <4>3. j = 1
        BY <4>2, <1>4
      <4> QED
        BY <4>1, <4>2, <4>3
    <3> QED
      BY <3>1, <3>2, <3>3, <1>3
  <2>2. ASSUME NEW i \in KeptOf(s) PROVE i \in KeptOf(u)
    <3>1. i \in 1..k /\ IsKept(s[i])
      BY <1>2 DEF KeptOf
    <3>2. i \in DOMAIN u /\ u[i] = s[i]
      BY <3>1, <1>2
    <3> QED
      BY <3>1, <3>2 DEF KeptOf
  <2>3. ASSUME first PROVE k + 1 \in KeptOf(u)
    <3>1. 1 \in 1..Len(t) /\ k + 1 \in DOMAIN u /\ u[k + 1] = t[1]
      BY <2>3, <1>2
    <3> QED
      BY <3>1, <2>3 DEF KeptOf
  <2> HIDE DEF first
  <2> QED
    BY <2>1, <2>2, <2>3
<1>6. /\ \A i \in KeptOf(s) : i \in 1..k /\ i \in DOMAIN u /\ u[i] = s[i] /\ IsKept(s[i])
      /\ first => u[k + 1] = t[1] /\ k + 1 \notin KeptOf(s) /\ \A i \in KeptOf(s) : i < k + 1
  <2>1. \A i \in KeptOf(s) : i \in 1..k /\ IsKept(s[i])
    BY <1>2 DEF KeptOf
  <2>2. \A i \in KeptOf(s) : i \in DOMAIN u /\ u[i] = s[i]
    BY <2>1, <1>2
  <2>3. first => u[k + 1] = t[1]
    BY <1>2
  <2>4. k + 1 \notin KeptOf(s) /\ \A i \in KeptOf(s) : i < k + 1
    BY <2>1, <1>2
  <2> QED
    BY <2>1, <2>2, <2>3, <2>4
<1>7. \E d : IsCharge(d, u) /\ r.bytes = d[Len(u)]
  <2>1. PICK c : IsCharge(c, s) /\ q.bytes = c[k]
    BY DEF Filed, k
  <2>2. \A i \in DOMAIN t : t[i].size \in Nat
    <3>1. \A i \in 1..Len(t) : t[i] \in DocEntries
      BY <1>1, ElementOfSeq
    <3> QED
      BY <3>1, <1>2 DEF DocEntries
  <2>3. more \in Nat
    BY <2>2 DEF Bytes
  <2>4. r.bytes = q.bytes + more
    <3>1. q.bytes \in Nat
      BY DEF QueueType
    <3>2. CASE first
      BY <3>2, <1>4 DEF Settles, Bytes
    <3>3. CASE ~first
      <4>1. r.bytes = q.bytes
        BY <3>3 DEF Settles
      <4>2. more = 0
        BY <3>3 DEF Bytes
      <4> QED
        BY <4>1, <4>2, <3>1
    <3> QED
      BY <3>2, <3>3
  <2> HIDE DEF more
  <2>5. \E d : IsCharge(d, s \o t) /\ d[Len(s \o t)] = c[Len(s)] + more
    BY <2>1, <2>3, <1>1, <1>4, ChargeGoesOn DEF more
  <2> QED
    BY <2>1, <2>4, <2>5 DEF u, k
<1>8. IsFiniteSet(KeptOf(u)) /\ Cardinality(KeptOf(u)) <= r.items
  <2>1. /\ IsFiniteSet(KeptOf(s)) /\ Cardinality(KeptOf(s)) <= q.items
        /\ q.items \in Nat /\ r.items \in Nat
    BY <1>1 DEF Filed, QueueType
  <2>2. Cardinality(KeptOf(s)) \in Nat
    BY <2>1, FS_CardinalityType
  <2>3. CASE first
    <3>1. KeptOf(u) = KeptOf(s) \cup {k + 1} /\ k + 1 \notin KeptOf(s) /\ r.items = q.items + 1
      BY <2>3, <1>5, <1>6 DEF Settles
    <3>2. IsFiniteSet(KeptOf(u)) /\ Cardinality(KeptOf(u)) = Cardinality(KeptOf(s)) + 1
      BY <3>1, <2>1, FS_AddElement
    <3> QED
      BY <3>1, <3>2, <2>1, <2>2
  <2>4. CASE ~first
    <3>1. KeptOf(u) = KeptOf(s) /\ r.items >= q.items
      BY <2>4, <1>5 DEF Settles
    <3> QED
      BY <3>1, <2>1, <2>2
  <2> QED
    BY <2>3, <2>4
<1>9. \A i, j \in KeptOf(u) : i # j => /\ u[i].url # u[j].url
                                       /\ Unsummed(u[i]) \/ u[i].sum # u[j].sum
  <2>1. ASSUME NEW i \in KeptOf(s), NEW j \in KeptOf(s), i # j
        PROVE  u[i].url # u[j].url /\ (Unsummed(u[i]) \/ u[i].sum # u[j].sum)
    BY <2>1, <1>6 DEF Filed
  <2>2. ASSUME first, NEW i \in KeptOf(s)
        PROVE  /\ u[i].url # u[k + 1].url
               /\ Unsummed(u[i]) \/ u[i].sum # u[k + 1].sum
               /\ Unsummed(u[k + 1]) \/ u[i].sum # u[k + 1].sum
    <3>1. u[i] = s[i] /\ u[k + 1] = t[1]
      BY <2>2, <1>6
    <3>2. s[i].url \in q.urls /\ (Unsummed(s[i]) \/ s[i].sum \in q.sums)
      BY DEF Filed
    <3>3. t[1].url \notin q.urls /\ (Unsummed(t[1]) \/ t[1].sum \notin q.sums)
      BY <2>2 DEF Settles
    <3>4. s[i].sum = t[1].sum => (Unsummed(s[i]) <=> Unsummed(t[1]))
      BY DEF Unsummed
    <3> QED
      BY <3>1, <3>2, <3>3, <3>4
  <2> HIDE DEF first
  <2> QED
    BY <2>1, <2>2, <1>5
<1>10. \A i \in KeptOf(u) : u[i].url \in r.urls /\ (Unsummed(u[i]) \/ u[i].sum \in r.sums)
  <2>1. ASSUME NEW i \in KeptOf(s)
        PROVE  u[i].url \in r.urls /\ (Unsummed(u[i]) \/ u[i].sum \in r.sums)
    <3>1. s[i].url \in q.urls /\ (Unsummed(s[i]) \/ s[i].sum \in q.sums) /\ u[i] = s[i]
      BY <1>6 DEF Filed
    <3>2. q.urls \subseteq r.urls /\ q.sums \subseteq r.sums
      BY DEF Settles
    <3> QED
      BY <3>1, <3>2
  <2>2. ASSUME first
        PROVE  u[k + 1].url \in r.urls /\ (Unsummed(u[k + 1]) \/ u[k + 1].sum \in r.sums)
    BY <2>2, <1>6 DEF Settles
  <2> HIDE DEF first
  <2> QED
    BY <2>1, <2>2, <1>5
<1>11. \A m \in r.sums : \E j \in KeptOf(u) : u[j].sum = m
  <2> SUFFICES ASSUME NEW m \in r.sums PROVE \E j \in KeptOf(u) : u[j].sum = m
    OBVIOUS
  <2>1. CASE m \in q.sums
    <3>1. PICK j \in KeptOf(s) : s[j].sum = m
      BY <2>1 DEF Filed
    <3> QED
      BY <3>1, <1>5, <1>6
  <2>2. CASE m \notin q.sums
    <3>1. first /\ m = t[1].sum
      BY <2>2 DEF Settles
    <3> QED
      BY <3>1, <1>5, <1>6
  <2> QED
    BY <2>1, <2>2
<1>12. \A i \in DOMAIN u : IsDouble(u[i]) => \E j \in KeptOf(u) : j < i /\ u[j].sum = u[i].sum
  <2> SUFFICES ASSUME NEW i \in DOMAIN u, IsDouble(u[i])
               PROVE  \E j \in KeptOf(u) : j < i /\ u[j].sum = u[i].sum
    OBVIOUS
  <2>1. CASE i \in 1..k
    <3>1. u[i] = s[i] /\ i \in DOMAIN s
      BY <2>1, <1>2
    <3>2. PICK j \in KeptOf(s) : j < i /\ s[j].sum = s[i].sum
      BY <3>1 DEF Filed
    <3> QED
      BY <3>1, <3>2, <1>5, <1>6
  <2>2. CASE \E j \in 1..Len(t) : i = k + j
    <3>1. PICK n \in 1..Len(t) : i = k + n
      BY <2>2
    <3>2. u[i] = t[n] /\ n \in DOMAIN t
      BY <3>1, <1>2
    <3>3. t[n].sum \in q.sums
      BY <3>2 DEF Settles
    <3>4. PICK j \in KeptOf(s) : s[j].sum = t[n].sum
      BY <3>3 DEF Filed
    <3>5. j \in 1..k /\ u[j] = s[j] /\ j \in KeptOf(u)
      BY <1>5, <1>6
    <3>6. j < i
      BY <3>1, <3>5, <1>2
    <3> QED
      BY <3>2, <3>4, <3>5, <3>6
  <2> QED
    BY <2>1, <2>2, <1>3
<1>13. \A i \in DOMAIN u : u[i].depth <= MaxArchiveDepth
  <2> SUFFICES ASSUME NEW i \in DOMAIN u PROVE u[i].depth <= MaxArchiveDepth
    OBVIOUS
  <2>1. CASE i \in 1..k
    BY <2>1, <1>2 DEF Filed
  <2>2. CASE \E j \in 1..Len(t) : i = k + j
    <3>1. PICK n \in 1..Len(t) : i = k + n
      BY <2>2
    <3>2. u[i] = t[n] /\ n \in DOMAIN t
      BY <3>1, <1>2
    <3> QED
      BY <3>2 DEF Settles
  <2> QED
    BY <2>1, <2>2, <1>3
<1>14. /\ r.items <= MaxQueueItems /\ r.items = Len(r.types)
       /\ MaxTotalBytes > 0 => r.bytes <= MaxTotalBytes
  BY DEF Settles, Filed
<1> HIDE DEF first, more
<1> QED
  BY <1>2, <1>7, <1>8, <1>9, <1>10, <1>11, <1>12, <1>13, <1>14 DEF Filed, u

\* The checksum of a file.
SumOf(f) == IF f = "" THEN "" ELSE Content[f].sum

\* The entries t of what was asked for at u: that of the file, and those of members.
Downloaded(u, t) ==
  /\ t \in Seq(DocEntries) /\ t # <<>>
  /\ t[1].url = u /\ t[1].depth = 0
  /\ Unsummed(t[1]) \/ t[1].sum = SumOf(File[u])
  /\ \A i \in DOMAIN t : /\ t[i].status \in Ends /\ t[i].depth <= MaxArchiveDepth
                         /\ i # 1 => t[i].depth # 0

\* What one entry and those of members come to.
LEMMA DownloadedForm ==
  ASSUME NEW u, NEW e \in DocEntries, NEW x \in Seq(Nested(0)),
         e.url = u, e.depth = 0, e.status \in Ends, Unsummed(e) \/ e.sum = SumOf(File[u])
  PROVE  Downloaded(u, <<e>> \o x)
<1> DEFINE t == <<e>> \o x
<1>1. Nested(0) \subseteq DocEntries
  BY DEF Nested
<1>2. x \in Seq(DocEntries) /\ <<e>> \in Seq(DocEntries)
  BY <1>1, SmallSeqs, SeqMonotonic
<1>3. /\ t \in Seq(DocEntries) /\ Len(t) = 1 + Len(x) /\ Len(x) \in Nat
      /\ \A i \in 1..1 + Len(x) : t[i] = IF i <= 1 THEN <<e>>[i] ELSE x[i - 1]
  <2>1. Len(<<e>>) = 1
    OBVIOUS
  <2> QED
    BY <1>2, <2>1, ConcatProperties, LenProperties
<1> HIDE DEF t
<1>4. DOMAIN t = 1..1 + Len(x) /\ t[1] = e /\ t # <<>>
  BY <1>3, LenProperties
<1>5. ASSUME NEW i \in DOMAIN t, i # 1 PROVE t[i] \in Nested(0)
  <2>1. i - 1 \in 1..Len(x) /\ ~(i <= 1) /\ i \in 1..1 + Len(x)
    BY <1>3, <1>4, <1>5
  <2>2. t[i] = x[i - 1]
    BY <2>1, <1>3
  <2> QED
    BY <2>1, <2>2, ElementOfSeq
<1>6. \A i \in DOMAIN t : i # 1 => /\ t[i].status \in Ends /\ t[i].depth <= MaxArchiveDepth
                                  /\ t[i].depth # 0
  BY <1>5 DEF Nested, DocEntries
<1>7. 0 <= MaxArchiveDepth
  BY SiteDocumentsAssumption
<1>8. Downloaded(u, t)
  BY <1>3, <1>4, <1>6, <1>7 DEF Downloaded
<1> QED
  BY <1>8 DEF t

\* What asking for a document leaves.
LEMMA AcquireTells ==
  ASSUME NEW u \in DOMAIN File, NEW answered
  PROVE  Downloaded(u, Acquire(u, answered))
<1>1. u \in DocUrls /\ File[u] \in Files
  BY SiteDocumentsAssumption DEF DocUrls, MaybeFiles
<1>2. CASE ~answered
  <2> DEFINE none == ""
             lost == "request_error"
             e == Entry(u, none, 0, lost)
  <2>1. none \in MaybeFiles /\ lost \in Statuses /\ 0 \in Int /\ lost \in Ends
    BY DEF Statuses, FailureStatuses, MaybeFiles, Ends
  <2>2. Acquire(u, answered) = <<e>>
    BY <1>2 DEF Acquire
  <2>3. e.url = u /\ e.depth = 0 /\ e.status = lost /\ Unsummed(e)
    BY DEF Entry, Unsummed
  <2> HIDE DEF none, lost
  <2>4. e \in DocEntries
    BY <1>1, <2>1, EntryIs
  <2> HIDE DEF e
  <2>5. <<>> \in Seq(Nested(0))
    BY SmallSeqs
  <2>6. Downloaded(u, <<e>> \o <<>>)
    BY <2>1, <2>3, <2>4, <2>5, DownloadedForm
  <2> QED
    BY <2>2, <2>5, <2>6, InFront
<1>3. CASE answered
  <2> DEFINE g == File[u]
             all == Unpack[MaxArchiveDepth][g]
             N == MaxArchiveDepth
  <2>1. N \in 0..N /\ N - N = 0
    BY SiteDocumentsAssumption
  <2>2. \E st \in Ends, x \in Seq(Nested(N - N)) : all = <<Entry(g, g, N - N, st)>> \o x
    BY <2>1, <1>1, UnpackTells
  <2>3. PICK st \in Ends, x \in Seq(Nested(0)) : all = <<Entry(g, g, 0, st)>> \o x
    BY <2>1, <2>2
  <2>4. Acquire(u, answered) = <<[all[1] EXCEPT !.url = u]>> \o Tail(all)
    BY <1>3 DEF Acquire
  <2> HIDE DEF all, N
  <2> DEFINE e == Entry(g, g, 0, st)
             w == [e EXCEPT !.url = u]
  <2>5. e.depth = 0 /\ e.status = st /\ e.sum = SumOf(g)
    BY Zenon DEF Entry, SumOf
  <2>6. e \in DocEntries
    BY <1>1, OwnIs
  <2> HIDE DEF e
  <2>7. w \in DocEntries
    BY <2>6, <1>1, EntryChanged DEF QueueStates
  <2>8. w.url = u /\ w.depth = 0 /\ w.status = st /\ w.sum = SumOf(g)
    BY <2>5, <2>6 DEF DocEntries
  <2>9. all[1] = e /\ Tail(all) = x
    <3>1. all = <<e>> \o x
      BY <2>3 DEF e
    <3> QED
      BY <3>1
  <2>10. Acquire(u, answered) = <<w>> \o x
    BY <2>4, <2>9
  <2> HIDE DEF w
  <2> QED
    BY <2>7, <2>8, <2>10, DownloadedForm
<1> QED
  BY <1>2, <1>3

\* A candidate that is not kept: its entry.
LEMMA SkipIs ==
  ASSUME NEW u \in DocUrls, NEW f \in MaybeFiles, NEW st \in Statuses
  PROVE  \E e \in DocEntries : /\ Skip(u, f, st) = <<e>> /\ ~IsKept(e) /\ e.depth = 0
                               /\ e.status = st /\ e.sum = SumOf(f)
<1> DEFINE b == Entry(u, f, 0, st)
           skipped == "skipped"
           e == [b EXCEPT !.queue = skipped]
<1>1. Skip(u, f, st) = <<e>>
  BY DEF Skip
<1>2. b.depth = 0 /\ b.status = st /\ b.sum = SumOf(f)
  BY Zenon DEF Entry, SumOf
<1>3. b \in DocEntries
  <2>1. 0 \in Int
    OBVIOUS
  <2> QED
    BY <2>1, EntryIs
<1>4. skipped \in QueueStates
  BY DEF QueueStates
<1> HIDE DEF b
<1>5. e.queue = skipped /\ e.depth = 0 /\ e.status = st /\ e.sum = SumOf(f)
  BY <1>2, <1>3 DEF DocEntries
<1>6. ~IsKept(e)
  BY <1>5 DEF IsKept
<1> HIDE DEF skipped
<1>7. e \in DocEntries
  BY <1>3, <1>4, EntryChanged
<1> HIDE DEF e
<1> QED
  BY <1>1, <1>5, <1>6, <1>7

\* A queue whose counts are in order.
Counted(q) == q \in QueueType /\ q.items <= MaxQueueItems /\ q.items = Len(q.types)

\* A candidate is given a slot.
Granted(q, u) == Refused(q, u) = ""

\* A candidate that gets a slot is new, and the queue is one longer.
LEMMA AdmitIs ==
  ASSUME NEW q, Counted(q), NEW u \in DOMAIN File, Granted(q, u)
  PROVE  LET a == Admit(q, u)
         IN  /\ u \notin q.urls /\ a.urls = q.urls \cup {u}
             /\ a.items = q.items + 1 /\ a.bytes = q.bytes /\ a.sums = q.sums
             /\ Counted(a)
<1> DEFINE a == Admit(q, u)
<1>1. u \notin q.urls /\ ~(q.items >= MaxQueueItems)
  BY DEF Granted, Refused
<1>2. a \in QueueType
  BY AdmitType DEF Counted
<1>3. /\ a.urls = q.urls \cup {u} /\ a.items = q.items + 1 /\ a.bytes = q.bytes
      /\ a.sums = q.sums /\ a.types = Append(q.types, Type[u])
  BY DEF Admit, Counted, QueueType
<1>4. Len(a.types) = Len(q.types) + 1
  <2>1. q.types \in Seq({Type[v] : v \in DOMAIN File}) /\ Type[u] \in {Type[v] : v \in DOMAIN File}
    BY DEF Counted, QueueType
  <2>2. Len(Append(q.types, Type[u])) = Len(q.types) + 1
    <3> DEFINE T == {Type[v] : v \in DOMAIN File}
    <3>1. q.types \in Seq(T) /\ Type[u] \in T
      BY <2>1
    <3> HIDE DEF T
    <3> QED
      BY <3>1
  <2> QED
    BY <2>2, <1>3
<1>5. a.items <= MaxQueueItems
  <2>1. q.items \in Nat /\ MaxQueueItems \in Nat
    BY SiteDocumentsAssumption DEF Counted, QueueType
  <2>2. q.items + 1 <= MaxQueueItems
    <3>1. ~(q.items >= MaxQueueItems)
      BY <1>1
    <3> QED
      BY <2>1, <3>1
  <2> QED
    BY <2>2, <1>3
<1> HIDE DEF a
<1>6. Counted(a)
  BY <1>2, <1>3, <1>4, <1>5 DEF Counted
<1> QED
  BY <1>1, <1>3, <1>6 DEF a

\* One entry that is not kept, over a queue that is as it was, but for its slots.
LEMMA SkipSettles ==
  ASSUME NEW q, Counted(q), NEW r, Counted(r), NEW u \in DocUrls, NEW f \in MaybeFiles,
         NEW st \in Statuses, NEW dup, dup <=> st = "duplicate_checksum",
         q.urls \subseteq r.urls, r.bytes = q.bytes, r.sums = q.sums, r.items >= q.items,
         dup => SumOf(f) \in q.sums
  PROVE  Settles(q, r, Skip(u, f, st))
<1>1. PICK e \in DocEntries : /\ Skip(u, f, st) = <<e>> /\ ~IsKept(e) /\ e.depth = 0
                              /\ e.status = st /\ e.sum = SumOf(f)
  BY SkipIs
<1> DEFINE t == <<e>>
<1>2. t \in Seq(DocEntries) /\ DOMAIN t = {1} /\ t[1] = e
  <2>1. t \in Seq(DocEntries)
    BY SmallSeqs
  <2>2. DOMAIN t = 1..1 /\ t[1] = e
    OBVIOUS
  <2>3. 1..1 = {1}
    OBVIOUS
  <2> QED
    BY <2>1, <2>2, <2>3
<1>3. IsDouble(e) => e.sum \in q.sums
  BY <1>1 DEF IsDouble
<1>4. e.depth <= MaxArchiveDepth
  BY <1>1, SiteDocumentsAssumption
<1> HIDE DEF t
<1>5. Settles(q, r, t)
  BY <1>1, <1>2, <1>3, <1>4 DEF Settles, Counted
<1> QED
  BY <1>1, <1>5 DEF t

\* A queue with other bytes and sums.
ChargedTo(a, b, more) == [a EXCEPT !.bytes = b, !.sums = more]

\* What such a queue is.
LEMMA Charged ==
  ASSUME NEW a \in QueueType, NEW b \in Nat, NEW more \in SUBSET Sums
  PROVE  LET g == ChargedTo(a, b, more)
         IN  /\ g \in QueueType /\ g.urls = a.urls /\ g.items = a.items
             /\ g.types = a.types /\ g.bytes = b /\ g.sums = more
<1> DEFINE T == Seq({Type[u] : u \in DOMAIN File})
           U == SUBSET DOMAIN File
           S == SUBSET Sums
<1>1. QueueType = [urls : U, sums : S, items : Nat, bytes : Nat, types : T]
  BY DEF QueueType
<1>2. more \in S
  OBVIOUS
<1> HIDE DEF T, U, S
<1>3. a \in [urls : U, sums : S, items : Nat, bytes : Nat, types : T]
  BY <1>1
<1> DEFINE g == [a EXCEPT !.bytes = b, !.sums = more]
<1>4. /\ g \in [urls : U, sums : S, items : Nat, bytes : Nat, types : T]
      /\ g.urls = a.urls /\ g.items = a.items
      /\ g.types = a.types /\ g.bytes = b /\ g.sums = more
  BY <1>2, <1>3
<1> QED
  BY <1>1, <1>4 DEF ChargedTo

\* What was downloaded is kept, or leaves one entry: it settles the queue.
LEMMA FinalizeSettles ==
  ASSUME NEW q, Counted(q), NEW u \in DOMAIN File, Granted(q, u),
         NEW t, Downloaded(u, t)
  PROVE  LET done == FinalizeRecords(Admit(q, u), u, t)
         IN  Settles(q, done.queue, done.entries)
<1> DEFINE a == Admit(q, u)
           first == t[1]
           f == IF first.sum = "" THEN "" ELSE File[u]
           State(e) == IF e.status \in SuccessStatuses THEN "acquired" ELSE "processed"
           Settled(e) == [e EXCEPT !.queue = IF e.status \in SuccessStatuses THEN "acquired"
                                             ELSE "processed"]
           grown == [a EXCEPT !.bytes = @ + first.size,
                              !.sums = IF first.sum = "" THEN @ ELSE @ \cup {first.sum}]
           settled == [i \in DOMAIN t |-> Settled(t[i])]
           Now == FinalizeRecords(a, u, t)
           Heavy1 == MaxItemBytes > 0 /\ first.size > MaxItemBytes
           Over == MaxTotalBytes > 0 /\ a.bytes + first.size > MaxTotalBytes
           Twice == first.sum # "" /\ first.sum \in a.sums
<1>1. /\ u \in DocUrls /\ f \in MaybeFiles /\ t \in Seq(DocEntries) /\ t # <<>>
      /\ first \in DocEntries /\ Len(t) \in Nat /\ DOMAIN t = 1..Len(t) /\ 1 \in DOMAIN t
  <2>1. u \in DocUrls /\ f \in MaybeFiles
    BY SiteDocumentsAssumption DEF DocUrls, MaybeFiles
  <2>2. t \in Seq(DocEntries) /\ t # <<>>
    BY DEF Downloaded
  <2>3. t[1] \in DocEntries /\ Len(t) \in Nat /\ DOMAIN t = 1..Len(t) /\ 1 \in DOMAIN t
    BY <2>2
  <2> QED
    BY <2>1, <2>2, <2>3
<1>2. Now = IF Heavy1 THEN [queue |-> a, entries |-> Skip(u, f, "heavy_skipped")]
            ELSE IF Over THEN [queue |-> a, entries |-> Skip(u, f, "budget_skipped")]
            ELSE IF Twice THEN [queue |-> a, entries |-> Skip(u, f, "duplicate_checksum")]
            ELSE [queue |-> grown, entries |-> settled]
  BY Zenon DEF FinalizeRecords
<1>3. /\ u \notin q.urls /\ a.urls = q.urls \cup {u}
      /\ a.items = q.items + 1 /\ a.bytes = q.bytes /\ a.sums = q.sums /\ Counted(a)
  BY AdmitIs
<1>4. a.items >= q.items /\ q.items \in Nat
  BY <1>3 DEF Counted, QueueType
<1>5. Twice => SumOf(f) \in q.sums
  <2> SUFFICES ASSUME Twice PROVE SumOf(f) \in q.sums
    OBVIOUS
  <2>1. ~Unsummed(first) /\ f = File[u] /\ first.sum \in q.sums
    BY <1>3 DEF Unsummed
  <2>2. first.sum = SumOf(File[u])
    BY <2>1 DEF Downloaded
  <2> QED
    BY <2>1, <2>2
<1>6. CASE Heavy1
  <2> DEFINE st == "heavy_skipped"
  <2>1. /\ st \in Statuses /\ (FALSE <=> st = "duplicate_checksum")
        /\ Now = [queue |-> a, entries |-> Skip(u, f, st)]
    BY <1>2, <1>6 DEF Statuses
  <2> HIDE DEF st, f, a, Now
  <2>2. Settles(q, a, Skip(u, f, st))
    BY <2>1, <1>1, <1>3, <1>4, SkipSettles
  <2> QED
    BY <2>1, <2>2 DEF Now, a
<1>7. CASE ~Heavy1 /\ Over
  <2> DEFINE st == "budget_skipped"
  <2>1. /\ st \in Statuses /\ (FALSE <=> st = "duplicate_checksum")
        /\ Now = [queue |-> a, entries |-> Skip(u, f, st)]
    BY <1>2, <1>7 DEF Statuses
  <2> HIDE DEF st, f, a, Now
  <2>2. Settles(q, a, Skip(u, f, st))
    BY <2>1, <1>1, <1>3, <1>4, SkipSettles
  <2> QED
    BY <2>1, <2>2 DEF Now, a
<1>8. CASE ~Heavy1 /\ ~Over /\ Twice
  <2> DEFINE st == "duplicate_checksum"
  <2>1. /\ st \in Statuses /\ (TRUE <=> st = "duplicate_checksum")
        /\ Now = [queue |-> a, entries |-> Skip(u, f, st)]
    BY <1>2, <1>8 DEF Statuses
  <2>2. SumOf(f) \in q.sums
    BY <1>5, <1>8
  <2> HIDE DEF st, f, a, Now
  <2>3. Settles(q, a, Skip(u, f, st))
    BY <2>1, <2>2, <1>1, <1>3, <1>4, SkipSettles
  <2> QED
    BY <2>1, <2>3 DEF Now, a
<1>9. CASE ~Heavy1 /\ ~Over /\ ~Twice
  <2>1. Now.queue = grown /\ Now.entries = settled
    <3> HIDE DEF Now, Heavy1, Over, Twice, grown, settled
    <3> QED
      BY <1>2, <1>9
  <2>2. /\ DOMAIN settled = DOMAIN t
        /\ \A i \in DOMAIN t : /\ settled[i] \in DocEntries
                               /\ settled[i].url = t[i].url /\ settled[i].sum = t[i].sum
                               /\ settled[i].size = t[i].size /\ settled[i].depth = t[i].depth
                               /\ settled[i].status = t[i].status
                               /\ settled[i].queue # "skipped"
    <3> SUFFICES ASSUME NEW i \in DOMAIN t
                 PROVE  /\ settled[i] \in DocEntries
                        /\ settled[i].url = t[i].url /\ settled[i].sum = t[i].sum
                        /\ settled[i].size = t[i].size /\ settled[i].depth = t[i].depth
                        /\ settled[i].status = t[i].status
                        /\ settled[i].queue # "skipped"
      OBVIOUS
    <3>1. t[i] \in DocEntries
      <4>1. t \in Seq(DocEntries) /\ i \in 1..Len(t)
        BY <1>1
      <4> HIDE DEF settled, a, grown, Now
      <4> QED
        BY <4>1, ElementOfSeq
    <3> DEFINE e == t[i]
               k == State(e)
    <3>2. settled[i] = [e EXCEPT !.queue = k] /\ k \in QueueStates /\ k # "skipped"
      BY DEF QueueStates
    <3> HIDE DEF k, settled
    <3>3. settled[i] \in DocEntries
      BY <3>1, <3>2, <1>1, EntryChanged
    <3> QED
      BY <3>1, <3>2, <3>3 DEF DocEntries
  <2>3. settled \in Seq(DocEntries)
    <3>1. settled \in [1..Len(t) -> DocEntries]
      <4>1. settled = [i \in 1..Len(t) |-> settled[i]]
        BY <1>1
      <4> HIDE DEF settled
      <4> QED
        BY <4>1, <2>2, <1>1
    <3> HIDE DEF settled
    <3> QED
      BY <3>1, <1>1, SmallSeqs
  <2>4. /\ grown \in QueueType
        /\ grown.urls = q.urls \cup {u} /\ grown.items = q.items + 1 /\ grown.types = a.types
        /\ grown.bytes = q.bytes + first.size
        /\ grown.sums = IF Unsummed(first) THEN q.sums ELSE q.sums \cup {first.sum}
    <3>1. a \in QueueType
      BY <1>3 DEF Counted
    <3> DEFINE more == IF first.sum = "" THEN a.sums ELSE a.sums \cup {first.sum}
               size == first.size
    <3>2. size \in Nat /\ more \in SUBSET Sums
      BY <1>1, <3>1 DEF DocEntries, QueueType
    <3> DEFINE b == a.bytes + size
    <3>3. grown = ChargedTo(a, b, more)
      BY DEF ChargedTo
    <3>4. more = IF Unsummed(first) THEN q.sums ELSE q.sums \cup {first.sum}
      BY <1>3 DEF Unsummed
    <3>6. b \in Nat
      <4>1. a.bytes \in Nat
        BY <3>1 DEF QueueType
      <4>2. size \in Nat
        BY <3>2
      <4> HIDE DEF a, size
      <4> QED
        BY <4>1, <4>2
    <3> HIDE DEF grown, more, first, a, b
    <3>5. /\ grown \in QueueType /\ grown.urls = a.urls /\ grown.items = a.items
          /\ grown.types = a.types /\ grown.bytes = b /\ grown.sums = more
      BY <3>1, <3>2, <3>3, <3>6, Charged
    <3> QED
      BY <3>4, <3>5, <1>3 DEF b
  <2>5. ~Over /\ ~Twice
    BY <1>9
  <2>6. MaxTotalBytes > 0 => grown.bytes <= MaxTotalBytes
    <3>1. grown.bytes \in Nat /\ MaxTotalBytes \in Nat
      BY <2>4, SiteDocumentsAssumption DEF QueueType
    <3>2. MaxTotalBytes > 0 => ~(grown.bytes > MaxTotalBytes)
      BY <2>4, <2>5, <1>3
    <3> HIDE DEF grown
    <3> QED
      BY <3>1, <3>2
  <2>7. IF Unsummed(first) THEN grown.sums = q.sums
        ELSE first.sum \notin q.sums /\ grown.sums = q.sums \cup {first.sum}
    BY <2>4, <2>5, <1>3 DEF Unsummed
  <2>8. a.items <= MaxQueueItems /\ a.items = Len(a.types)
    BY <1>3 DEF Counted
  <2>9. /\ \A i \in DOMAIN t : t[i].depth <= MaxArchiveDepth /\ ~IsDouble(t[i])
        /\ \A i \in DOMAIN t : i # 1 => t[i].depth # 0
        /\ t[1].depth = 0 /\ t[1].url = u
    <3>1. \A i \in DOMAIN t : t[i].status \in Ends
      BY DEF Downloaded
    <3>2. \A e \in Ends : e # "duplicate_checksum"
      BY DEF Ends, FailureStatuses, SuccessStatuses
    <3>3. \A i \in DOMAIN t : ~IsDouble(t[i])
      BY <3>1, <3>2 DEF IsDouble
    <3> QED
      BY <3>3 DEF Downloaded
  <2>10. /\ \A i \in DOMAIN settled : /\ settled[i].depth <= MaxArchiveDepth
                                      /\ ~IsDouble(settled[i])
                                      /\ i # 1 => ~IsKept(settled[i])
         /\ IsKept(settled[1]) /\ settled[1].url = u
    <3> HIDE DEF settled
    <3> QED
      BY <2>2, <2>9, <1>1 DEF IsDouble, IsKept
  <2>11. settled[1].sum = first.sum /\ settled[1].size = first.size
         /\ (Unsummed(settled[1]) <=> Unsummed(first))
    <3> HIDE DEF settled
    <3> QED
      BY <2>2, <1>1 DEF Unsummed
  <2> HIDE DEF settled, grown, first, a, Now
  <2>12. Settles(q, grown, settled)
    <3>1. /\ grown \in QueueType /\ settled \in Seq(DocEntries)
          /\ q.urls \subseteq grown.urls /\ grown.items <= MaxQueueItems
          /\ grown.items = Len(grown.types)
      BY <2>3, <2>4, <2>8, <1>3
    <3>2. /\ \A i \in DOMAIN settled : settled[i].depth <= MaxArchiveDepth
          /\ \A i \in DOMAIN settled : IsDouble(settled[i]) => settled[i].sum \in q.sums
      BY <2>10
    <3>3. /\ 1 \in DOMAIN settled /\ IsKept(settled[1])
          /\ \A i \in DOMAIN settled : i # 1 => ~IsKept(settled[i])
      BY <2>2, <2>10, <1>1
    <3>4. /\ settled[1].url \in grown.urls \ q.urls /\ grown.items = q.items + 1
          /\ grown.bytes = q.bytes + settled[1].size
          /\ MaxTotalBytes > 0 => grown.bytes <= MaxTotalBytes
      BY <2>4, <2>6, <2>10, <2>11, <1>3
    <3>5. IF Unsummed(settled[1]) THEN grown.sums = q.sums
          ELSE settled[1].sum \notin q.sums /\ grown.sums = q.sums \cup {settled[1].sum}
      BY <2>7, <2>11
    <3> QED
      BY <3>1, <3>2, <3>3, <3>4, <3>5 DEF Settles
  <2> QED
    BY <2>1, <2>12 DEF Now, a
<1> QED
  BY <1>6, <1>7, <1>8, <1>9

\* The queue is settled by a candidate, asked for or at hand.
LEMMA CollectSettles ==
  ASSUME NEW q, Counted(q), NEW u \in DOMAIN File, NEW answered
  PROVE  /\ Settles(q, Collect(q, u, answered).queue, Collect(q, u, answered).entries)
         /\ Settles(q, CollectDirect(q, u).queue, CollectDirect(q, u).entries)
<1> DEFINE none == ""
           why == Refused(q, u)
           heavy == "heavy_skipped"
           a == Admit(q, u)
           later == FinalizeRecords(a, u, Acquire(u, answered))
           done == FinalizeRecords(a, u, Acquire(u, TRUE))
<1>1. u \in DocUrls /\ none \in MaybeFiles /\ heavy \in Statuses
  BY DEF DocUrls, MaybeFiles, Statuses
<1>2. CASE ~Granted(q, u)
  <2>1. why \in Statuses /\ (FALSE <=> why = "duplicate_checksum")
    BY <1>2, RefusedIs DEF Statuses, Granted
  <2>2. /\ Collect(q, u, answered) = [queue |-> q, entries |-> Skip(u, none, why)]
        /\ CollectDirect(q, u) = [queue |-> q, entries |-> Skip(u, none, why)]
    BY <1>2, Zenon DEF Collect, CollectDirect, Granted
  <2> HIDE DEF none, why
  <2>3. q.items >= q.items
    BY DEF Counted, QueueType
  <2>4. Settles(q, q, Skip(u, none, why))
    BY <2>1, <2>3, <1>1, SkipSettles
  <2> QED
    BY <2>2, <2>4
<1>3. CASE Granted(q, u)
  <2>1. Collect(q, u, answered) = later
    BY <1>3 DEF Collect, Granted
  <2>2. \/ CollectDirect(q, u) = [queue |-> a, entries |-> Skip(u, none, heavy)]
        \/ CollectDirect(q, u) = done
    BY <1>3, Zenon DEF CollectDirect, Granted
  <2>3. Settles(q, later.queue, later.entries) /\ Settles(q, done.queue, done.entries)
    BY <1>3, AcquireTells, FinalizeSettles
  <2>4. Settles(q, a, Skip(u, none, heavy))
    <3>1. /\ a.urls = q.urls \cup {u} /\ a.items = q.items + 1 /\ a.bytes = q.bytes
          /\ a.sums = q.sums /\ Counted(a)
      BY <1>3, AdmitIs
    <3>2. a.items >= q.items
      BY <3>1 DEF Counted, QueueType
    <3>3. (FALSE <=> heavy = "duplicate_checksum")
      OBVIOUS
    <3> HIDE DEF a, none, heavy
    <3> QED
      BY <3>1, <3>2, <3>3, <1>1, SkipSettles
  <2> HIDE DEF a, none, heavy, later, done
  <2>5. Settles(q, CollectDirect(q, u).queue, CollectDirect(q, u).entries)
    <3>1. CASE CollectDirect(q, u) = [queue |-> a, entries |-> Skip(u, none, heavy)]
      BY <2>4, <3>1
    <3>2. CASE CollectDirect(q, u) = done
      BY <2>3, <3>2
    <3> QED
      BY <2>2, <3>1, <3>2
  <2> QED
    BY <2>1, <2>3, <2>5
<1> QED
  BY <1>2, <1>3

\* The entries of links over the cap of their page.
Overs == {e \in DocEntries : ~IsKept(e) /\ e.depth = 0 /\ ~IsDouble(e)}

\* A queue and its new entries, and the same after one more candidate.
Batch(q, es) == [queue |-> q, entries |-> es]
Further(x, u, answered) ==
  LET r == Collect(x.queue, u, answered)
  IN  Batch(r.queue, x.entries \o r.entries)

\* What holds of the links over the cap of a page, and of one more candidate, holds
\* of all of them.
LEMMA CollectLinksIn ==
  ASSUME NEW q, NEW urls \in Seq(DOMAIN File), NEW dead, NEW T,
         \A over \in Seq(Overs) : Batch(q, over) \in T,
         \A x \in T : \A u \in DOMAIN File, b \in BOOLEAN : Further(x, u, b) \in T
  PROVE  CollectLinks(q, urls, dead) \in T
<1> DEFINE cut == Min({MaxLinksPerPage, Len(urls)})
           skips == [i \in 1 .. Len(urls) - cut |-> Skip(urls[cut + i], "", "page_link_cap")]
           start == Batch(q, FlattenSeq(skips))
           Step(n, x) == Further(x, urls[n], urls[n] \notin dead)
           G == [n \in 1..cut |-> [x \in T |-> Step(n, x)]]
           rec(u) == [n \in 0..cut |-> IF n = 0 THEN start ELSE Step(n, u[n - 1])]
           after == CHOOSE u : u = rec(u)
<1>1. /\ Len(urls) \in Nat /\ cut \in Nat /\ cut <= Len(urls)
      /\ \A i \in 1..Len(urls) : urls[i] \in DOMAIN File
  <2>1. Len(urls) \in Nat /\ \A i \in 1..Len(urls) : urls[i] \in DOMAIN File
    BY LenProperties, ElementOfSeq
  <2>2. MaxLinksPerPage \in Nat
    BY SiteDocumentsAssumption
  <2>3. cut = IF MaxLinksPerPage <= Len(urls) THEN MaxLinksPerPage ELSE Len(urls)
    BY <2>1, <2>2, MinOfTwo
  <2> HIDE DEF cut
  <2> QED
    BY <2>1, <2>2, <2>3
<1> HIDE DEF cut
<1> HIDE DEF cut
<1>2. FlattenSeq(skips) \in Seq(Overs)
  <2> DEFINE none == ""
             over == "page_link_cap"
             K == Len(urls) - cut
  <2>1. none \in MaybeFiles /\ over \in Statuses /\ K \in Nat /\ over # "duplicate_checksum"
    BY <1>1 DEF MaybeFiles, Statuses
  <2>2. skips = [i \in 1..K |-> Skip(urls[cut + i], none, over)]
    OBVIOUS
  <2> HIDE DEF none, over, K, skips
  <2>3. \A i \in 1..K : Skip(urls[cut + i], none, over) \in Seq(Overs)
    <3> SUFFICES ASSUME NEW i \in 1..K PROVE Skip(urls[cut + i], none, over) \in Seq(Overs)
      OBVIOUS
    <3>1. cut + i \in 1..Len(urls)
      BY <1>1 DEF K
    <3>2. urls[cut + i] \in DocUrls
      BY <3>1, <1>1 DEF DocUrls
    <3>3. PICK e \in DocEntries : /\ Skip(urls[cut + i], none, over) = <<e>> /\ ~IsKept(e)
                                  /\ e.depth = 0 /\ e.status = over
      BY <3>2, <2>1, SkipIs
    <3>4. e \in Overs
      BY <3>3, <2>1 DEF Overs, IsDouble
    <3> QED
      BY <3>3, <3>4, SmallSeqs
  <2>4. skips \in Seq(Seq(Overs))
    <3>1. skips \in [1..K -> Seq(Overs)]
      BY <2>2, <2>3
    <3> QED
      BY <3>1, <2>1, SmallSeqs
  <2> QED
    BY <2>4, FlattenType
<1>3. start \in T
  BY <1>2
<1>4. \A n \in 1..cut, x \in T : Step(n, x) \in T
  <2>1. \A n \in 1..cut : urls[n] \in DOMAIN File /\ (urls[n] \notin dead) \in BOOLEAN
    BY <1>1
  <2> QED
    BY <2>1
<1> HIDE DEF start, Step
<1>5. G \in [1..cut -> [T -> T]]
  BY <1>4
<1>6. PICK u : IsRun(u, T, cut, start, G)
  <2> HIDE DEF G
  <2> QED
    BY <1>1, <1>3, <1>5, RecursionExists
<1>7. u \in [0..cut -> T] /\ u[0] = start /\ \A n \in 1..cut : u[n] = G[n][u[n - 1]]
  <2> HIDE DEF G
  <2> QED
    BY <1>6 DEF IsRun
<1>8. u = rec(u)
  <2>1. \A n \in 0..cut : u[n] = IF n = 0 THEN start ELSE Step(n, u[n - 1])
    <3> SUFFICES ASSUME NEW n \in 0..cut PROVE u[n] = IF n = 0 THEN start ELSE Step(n, u[n - 1])
      OBVIOUS
    <3>1. CASE n = 0
      BY <3>1, <1>7
    <3>2. CASE n # 0
      <4>1. n \in 1..cut /\ n - 1 \in 0..cut
        BY <3>2, <1>1
      <4>2. u[n - 1] \in T /\ u[n] = G[n][u[n - 1]]
        <5> HIDE DEF G
        <5> QED
          BY <4>1, <1>7
      <4>3. G[n][u[n - 1]] = Step(n, u[n - 1])
        <5> QED
          BY <4>1, <4>2
      <4> QED
        BY <4>2, <4>3, <3>2
    <3> QED
      BY <3>1, <3>2
  <2> HIDE DEF G
  <2> QED
    BY <2>1, <1>7
<1>9. after = rec(after)
  BY <1>8
<1>10. CollectLinks(q, urls, dead) = after[cut]
  BY Zenon DEF CollectLinks, cut, start, Step, Further, Batch
<1> HIDE DEF after, G
<1>11. \A n \in 0..cut : after[n] = IF n = 0 THEN start ELSE Step(n, after[n - 1])
  BY <1>9
<1>12. \A n \in 1..cut : after[n - 1] \in T => after[n] \in T
  <2> SUFFICES ASSUME NEW n \in 1..cut, after[n - 1] \in T PROVE after[n] \in T
    OBVIOUS
  <2>1. n \in 0..cut /\ n # 0
    BY <1>1
  <2>2. after[n] = Step(n, after[n - 1])
    BY <2>1, <1>11
  <2> QED
    BY <2>2, <1>4
<1>13. after[0] \in T
  <2>1. after[0] = start
    BY <1>1, <1>11
  <2> QED
    BY <2>1, <1>3
<1>14. after[cut] \in T
  <2>1. \A n \in 0..cut : after[n] \in T
    BY <1>1, <1>12, <1>13, StaysIn
  <2>2. cut \in 0..cut
    BY <1>1
  <2> QED
    BY <2>1, <2>2
<1> QED
  BY <1>10, <1>14

\* The links of a page: those over its cap, and what becomes of the others.
LEMMA CollectLinksType ==
  ASSUME NEW q \in QueueType, NEW urls \in Seq(DOMAIN File), NEW dead
  PROVE  /\ CollectLinks(q, urls, dead).queue \in QueueType
         /\ CollectLinks(q, urls, dead).entries \in Seq(DocEntries)
<1> DEFINE T == [queue : QueueType, entries : Seq(DocEntries)]
<1>1. \A over \in Seq(Overs) : Batch(q, over) \in T
  <2>1. Overs \subseteq DocEntries
    BY DEF Overs
  <2>2. \A over \in Seq(Overs) : over \in Seq(DocEntries)
    BY <2>1, SeqMonotonic
  <2> QED
    BY <2>2 DEF Batch
<1>2. ASSUME NEW x \in T, NEW u \in DOMAIN File, NEW b \in BOOLEAN PROVE Further(x, u, b) \in T
  <2> DEFINE r == Collect(x.queue, u, b)
  <2>1. x.queue \in QueueType /\ x.entries \in Seq(DocEntries)
    BY DEF T
  <2>2. r.queue \in QueueType /\ r.entries \in Seq(DocEntries)
    BY <2>1, CollectType DEF Ledgers
  <2>3. Further(x, u, b) = Batch(r.queue, x.entries \o r.entries)
    BY DEF Further
  <2> HIDE DEF r
  <2>4. x.entries \o r.entries \in Seq(DocEntries)
    BY <2>1, <2>2, ConcatProperties
  <2> QED
    BY <2>2, <2>3, <2>4 DEF Batch
<1> HIDE DEF T
<1>3. CollectLinks(q, urls, dead) \in T
  BY <1>1, <1>2, CollectLinksIn
<1> QED
  BY <1>3 DEF T

\* After the links of a page the queue and its ledger still agree.
LEMMA CollectLinksFiled ==
  ASSUME NEW q \in QueueType, NEW s, Filed(q, s), NEW urls \in Seq(DOMAIN File), NEW dead
  PROVE  LET r == CollectLinks(q, urls, dead) IN Filed(r.queue, s \o r.entries)
<1> DEFINE T == {x \in [queue : QueueType, entries : Seq(DocEntries)] :
                   Filed(x.queue, s \o x.entries)}
<1>0. s \in Seq(DocEntries)
  BY DEF Filed
<1>1. ASSUME NEW over \in Seq(Overs) PROVE Batch(q, over) \in T
  <2>1. Overs \subseteq DocEntries
    BY DEF Overs
  <2>2. over \in Seq(DocEntries)
    BY <2>1, SeqMonotonic
  <2>3. \A i \in DOMAIN over : over[i] \in Overs
    BY ElementOfSeq, LenProperties
  <2>4. \A i \in DOMAIN over : /\ ~IsKept(over[i]) /\ ~IsDouble(over[i])
                              /\ over[i].depth <= MaxArchiveDepth
    BY <2>3, SiteDocumentsAssumption DEF Overs
  <2>5. q.items <= MaxQueueItems /\ q.items = Len(q.types) /\ q.items >= q.items
    BY DEF Filed, QueueType
  <2>6. Settles(q, q, over)
    BY <2>2, <2>4, <2>5 DEF Settles
  <2>7. Filed(q, s \o over)
    BY <2>6, SettlesFiled
  <2> QED
    BY <2>2, <2>7 DEF Batch
<1>2. ASSUME NEW x \in T, NEW u \in DOMAIN File, NEW b \in BOOLEAN PROVE Further(x, u, b) \in T
  <2> DEFINE r == Collect(x.queue, u, b)
  <2>1. x.queue \in QueueType /\ x.entries \in Seq(DocEntries) /\ Filed(x.queue, s \o x.entries)
    BY DEF T
  <2>2. r.queue \in QueueType /\ r.entries \in Seq(DocEntries)
    BY <2>1, CollectType DEF Ledgers
  <2>3. Further(x, u, b) = Batch(r.queue, x.entries \o r.entries)
    BY DEF Further
  <2>4. Settles(x.queue, r.queue, r.entries)
    <3>1. Counted(x.queue)
      BY <2>1 DEF Filed, Counted
    <3> QED
      BY <3>1, CollectSettles
  <2> HIDE DEF r
  <2>5. Filed(r.queue, s \o x.entries \o r.entries)
    BY <2>1, <2>4, SettlesFiled
  <2>6. s \o x.entries \o r.entries = s \o (x.entries \o r.entries)
    <3> DEFINE y == x.entries
               z == r.entries
    <3>1. y \in Seq(DocEntries) /\ z \in Seq(DocEntries)
      BY <2>1, <2>2
    <3> HIDE DEF y, z, T
    <3>2. s \o y \o z = s \o (y \o z)
      BY <3>1, <1>0, ConcatAssociative
    <3> QED
      BY <3>2 DEF y, z
  <2>7. x.entries \o r.entries \in Seq(DocEntries)
    BY <2>1, <2>2, ConcatProperties
  <2> QED
    <3> DEFINE w == x.entries \o r.entries
    <3>1. w \in Seq(DocEntries) /\ Filed(r.queue, s \o w)
      BY <2>5, <2>6, <2>7
    <3> HIDE DEF w
    <3>2. Batch(r.queue, w) \in T
      BY <2>2, <3>1 DEF Batch
    <3> QED
      BY <2>3, <3>2 DEF w
<1> HIDE DEF T
<1>3. CollectLinks(q, urls, dead) \in T
  BY <1>1, <1>2, CollectLinksIn
<1> QED
  BY <1>3 DEF T

----------------------------------------------------------------------------
(* The trust gate *)

\* A sequence, of whatever members.
IsList(s) == s \in Seq(ToSet(s))

\* A sequence of members of a set is a sequence, and has its members there.
LEMMA SeqMembers ==
  ASSUME NEW S, NEW s \in Seq(S)
  PROVE  IsList(s) /\ ToSet(s) \subseteq S
<1>1. Len(s) \in Nat /\ DOMAIN s = 1..Len(s) /\ s \in [1..Len(s) -> S]
  BY LenProperties
<1>2. ToSet(s) \subseteq S
  BY <1>1 DEF ToSet
<1>3. s \in [1..Len(s) -> ToSet(s)]
  BY <1>1 DEF ToSet
<1>4. s \in Seq(ToSet(s))
  BY <1>1, <1>3
<1> QED
  BY <1>2, <1>4 DEF IsList

\* One after another: the members of both.
LEMMA ConcatMembers ==
  ASSUME NEW s, NEW t, IsList(s), IsList(t)
  PROVE  IsList(s \o t) /\ ToSet(s \o t) \subseteq ToSet(s) \cup ToSet(t)
<1> DEFINE S == ToSet(s) \cup ToSet(t)
<1>1. s \in Seq(S) /\ t \in Seq(S)
  <2>1. s \in Seq(ToSet(s)) /\ t \in Seq(ToSet(t)) /\ ToSet(s) \subseteq S /\ ToSet(t) \subseteq S
    BY DEF IsList
  <2> HIDE DEF S
  <2> QED
    BY <2>1
<1> HIDE DEF S
<1>2. s \o t \in Seq(S)
  BY <1>1, ConcatProperties
<1>3. IsList(s \o t) /\ ToSet(s \o t) \subseteq S
  BY <1>2, SeqMembers
<1> QED
  BY <1>3 DEF S

\* The members of a sequence at some of its positions.
LEMMA ThoseType ==
  ASSUME NEW S, NEW I, NEW xs, IsList(xs), \A i \in DOMAIN xs : i \in I => xs[i] \in S
  PROVE  Those(I, xs) \in Seq(S)
<1> DEFINE parts == [i \in DOMAIN xs |-> IF i \in I THEN <<xs[i]>> ELSE <<>>]
<1>1. DOMAIN xs = 1..Len(xs) /\ Len(xs) \in Nat
  BY LenProperties DEF IsList
<1>2. \A i \in 1..Len(xs) : parts[i] \in Seq(S)
  BY <1>1
<1>3. parts = [i \in 1..Len(xs) |-> parts[i]]
  BY <1>1
<1>4. Those(I, xs) = FlattenSeq(parts)
  BY DEF Those
<1> HIDE DEF parts
<1>5. parts \in [1..Len(xs) -> Seq(S)]
  BY <1>2, <1>3
<1>6. parts \in Seq(Seq(S))
  BY <1>1, <1>5
<1> QED
  BY <1>4, <1>6, FlattenType

\* A record of a page that any site may be asked for.
IsLight(r) == ~ \/ r.kind = "document" \/ r.rendered \/ r.family \in HeavyRoutes
                \/ r.url \in Documents

\* The shape of a pass.
PassForm(c) ==
  /\ c = [embargo |-> c.embargo, todo |-> c.todo, next |-> c.next, ran |-> c.ran,
          recs |-> c.recs, exec |-> c.exec, skips |-> c.skips, sites |-> c.sites,
          queue |-> c.queue, entries |-> c.entries]
  /\ c.embargo \in BOOLEAN
  /\ c.queue \in QueueType
  /\ IsList(c.recs)

\* The site passed the gate.
Passed(s) == Judged(s, cheap.recs) = "trusted"
Gated == {"full", "store", "done"}

\* What keeps the trust gate shut: a pass under the embargo has light records
\* only; the other is over sites that passed; and the result is drawn from both.
GateInv ==
  /\ stage \in {"planning", "cheap", "judge"} \cup Gated
  /\ browser = IF stage = "cheap" THEN FALSE ELSE BrowserEnabled
  /\ IsList(plans)
  /\ PassForm(crawl)
  /\ crawl.embargo => \A r \in ToSet(crawl.recs) : IsLight(r)
  /\ stage \notin Gated => crawl.embargo
  /\ stage = "full" => /\ ~crawl.embargo
                       /\ crawl.todo \in Seq({p \in ToSet(plans) : Passed(p.site)})
  /\ stage \in Gated => IsList(cheap.recs) /\ \A r \in ToSet(cheap.recs) : IsLight(r)
  /\ stage \in Gated /\ ~crawl.embargo => \A r \in ToSet(crawl.recs) : Passed(r.site)
  /\ IsList(result.recs)
  /\ stage # "done" => result.recs = <<>>
  /\ \A r \in ToSet(result.recs) : IsLight(r) \/ Passed(r.site)

\* The invariant says what the property says.
LEMMA GateInvSuffices == GateInv => HeavyOnlyIfTrusted
<1> SUFFICES ASSUME GateInv PROVE HeavyOnlyIfTrusted
  OBVIOUS
<1> DEFINE Earned(r) == stage \in Gated /\ Passed(r.site)
<1>1. \A r \in ToSet(crawl.recs) : ~IsLight(r) => Earned(r)
  BY DEF GateInv, PassForm
<1>2. \A r \in ToSet(result.recs) : ~IsLight(r) => Earned(r)
  <2>1. CASE stage = "done"
    BY <2>1 DEF GateInv, Gated
  <2>2. CASE stage # "done"
    BY <2>2 DEF GateInv, ToSet
  <2> QED
    BY <2>1, <2>2
<1>3. stage \in {"planning", "judge", "full", "store", "done"} => browser = BrowserEnabled
  BY DEF GateInv
<1> QED
  BY <1>1, <1>2, <1>3 DEF HeavyOnlyIfTrusted, IsLight, Passed, Judged, Gated

\* A pass begins with nothing.
LEMMA NewPassForm ==
  ASSUME NEW e \in BOOLEAN, NEW t
  PROVE  /\ PassForm(NewPass(e, t)) /\ NewPass(e, t).recs = <<>>
         /\ NewPass(e, t).embargo = e /\ NewPass(e, t).todo = t
<1>1. NewQueue \in QueueType
  BY DEF NewQueue, QueueType
<1>2. IsList(<<>>)
  BY DEF IsList, ToSet
<1> QED
  BY <1>1, <1>2 DEF NewPass, PassForm

\* No member of the empty sequence.
LEMMA NoMembers == ToSet(<<>>) = {} /\ IsList(<<>>)
BY DEF IsList, ToSet

\* The gate is shut at first.
LEMMA GateInit == Init => GateInv
<1> SUFFICES ASSUME Init PROVE GateInv
  OBVIOUS
<1>1. /\ stage = "planning" /\ browser = BrowserEnabled /\ plans = <<>>
      /\ crawl = NewPass(TRUE, <<>>) /\ result.recs = <<>>
  BY DEF Init, CrawlInit, PlanInit
<1>2. PassForm(crawl) /\ crawl.recs = <<>> /\ crawl.embargo = TRUE
  BY <1>1, NewPassForm
<1> QED
  BY <1>1, <1>2, NoMembers DEF GateInv, Gated

\* A step that changes neither of what the invariant reads.
LEMMA GateUnchanged ==
  ASSUME GateInv, UNCHANGED <<plans, stage, crawl, cheap, browser, result>>
  PROVE  GateInv'
<1>1. /\ plans' = plans /\ stage' = stage /\ crawl' = crawl /\ cheap' = cheap
      /\ browser' = browser /\ result' = result
  OBVIOUS
<1> QED
  BY <1>1 DEF GateInv, PassForm, Passed, IsList

\* The planner lengthens the list of plans.
LEMMA PlanSitesKeepsGate == ASSUME GateInv, PlanSites PROVE GateInv'
<1>1. /\ stage = "planning" /\ stage' = stage /\ crawl' = crawl /\ cheap' = cheap
      /\ browser' = browser /\ result' = result
      /\ PlanNext
  BY DEF PlanSites
<1>2. plans' = plans \/ \E p : plans' = Append(plans, p)
  <2>1. CASE \E s \in Sites : ProbeSite(s)
    BY <2>1 DEF ProbeSite
  <2>2. CASE ReadHome \/ ReadFollowUp \/ ReadMaps \/ GuessSubdomain
    BY <2>2 DEF ReadHome, ReadFollowUp, ReadMaps, GuessSubdomain
  <2>3. CASE MakePlan
    BY <2>3, Zenon DEF MakePlan
  <2> QED
    BY <1>1, <2>1, <2>2, <2>3 DEF PlanNext
<1>3. IsList(plans')
  <2>1. CASE plans' = plans
    BY <2>1 DEF GateInv, IsList
  <2>2. CASE \E p : plans' = Append(plans, p)
    <3>1. PICK p : plans' = Append(plans, p)
      BY <2>2
    <3> DEFINE S == ToSet(plans) \cup {p}
    <3>2. plans \in Seq(S) /\ p \in S
      <4>1. plans \in Seq(ToSet(plans)) /\ ToSet(plans) \subseteq S /\ p \in S
        BY DEF GateInv, IsList
      <4> HIDE DEF S
      <4> QED
        BY <4>1
    <3> HIDE DEF S
    <3>3. plans' \in Seq(S)
      BY <3>1, <3>2
    <3> QED
      BY <3>3, SeqMembers
  <2> QED
    BY <1>2, <2>1, <2>2
<1>4. crawl.embargo = TRUE /\ PassForm(crawl)
  BY <1>1 DEF GateInv, PassForm, Gated
<1>5. PassForm(crawl')
  BY <1>1, <1>4
<1> QED
  BY <1>1, <1>3, <1>5 DEF GateInv, Gated, Passed

\* The first pass begins.
LEMMA StartCheapKeepsGate == ASSUME GateInv, StartCheap PROVE GateInv'
<1> DEFINE P == [i \in DOMAIN plans |-> WithFallback(plans[i])]
<1>1. /\ stage = "planning" /\ stage' = "cheap" /\ plans' = P /\ crawl' = NewPass(TRUE, plans')
      /\ browser' = FALSE /\ cheap' = cheap /\ result' = result
  BY DEF StartCheap
<1>2. IsList(P)
  <2>1. DOMAIN plans = 1..Len(plans) /\ Len(plans) \in Nat
    BY LenProperties DEF GateInv, IsList
  <2>2. P \in [1..Len(plans) -> ToSet(P)]
    BY <2>1 DEF ToSet
  <2> HIDE DEF P
  <2>3. P \in Seq(ToSet(P))
    BY <2>1, <2>2
  <2> QED
    BY <2>3 DEF IsList
<1> HIDE DEF P
<1>3. /\ PassForm(crawl') /\ crawl'.recs = <<>> /\ crawl'.embargo = TRUE
  BY <1>1, NewPassForm
<1>4. ToSet(crawl'.recs) = {}
  BY <1>3, NoMembers
<1>5. result'.recs = <<>> /\ ToSet(result'.recs) = {} /\ IsList(result'.recs)
  BY <1>1, NoMembers DEF GateInv
<1>6. IsList(plans')
  BY <1>1, <1>2
<1> QED
  BY <1>1, <1>3, <1>4, <1>5, <1>6 DEF GateInv, Gated

\* The plan in hand, where the gate is open, is of a site that passed.
LEMMA PlanPassed ==
  ASSUME GateInv, AtSite, ~crawl.embargo
  PROVE  Passed(Plan.site)
<1>1. stage = "full" /\ crawl.todo # <<>>
  BY DEF GateInv, AtSite, Gated
<1> DEFINE S == {p \in ToSet(plans) : Passed(p.site)}
<1>2. crawl.todo \in Seq(S)
  BY <1>1 DEF GateInv
<1>3. Head(crawl.todo) \in S
  <2> HIDE DEF S
  <2> QED
    BY <1>1, <1>2
<1> QED
  BY <1>3 DEF Plan

\* A step of a pass that leaves the records and what comes to them in order.
LEMMA PassGoesOn ==
  ASSUME GateInv, AtSite, UNCHANGED crawlRest,
         PassForm(crawl'), crawl'.embargo = crawl.embargo,
         crawl'.todo = crawl.todo \/ crawl'.todo = Tail(crawl.todo),
         \A r \in ToSet(crawl'.recs) : \/ r \in ToSet(crawl.recs)
                                       \/ crawl.embargo /\ IsLight(r)
                                       \/ ~crawl.embargo /\ Passed(r.site)
  PROVE  GateInv'
<1>1. /\ plans' = plans /\ stage' = stage /\ cheap' = cheap /\ browser' = browser
      /\ result' = result
  BY DEF crawlRest
<1>2. stage \in {"cheap", "full"} /\ crawl.todo # <<>>
  BY DEF AtSite
<1>3. crawl'.embargo => \A r \in ToSet(crawl'.recs) : IsLight(r)
  BY DEF GateInv
<1>4. stage = "full" => crawl'.todo \in Seq({p \in ToSet(plans) : Passed(p.site)})
  <2> SUFFICES ASSUME stage = "full" PROVE crawl'.todo \in Seq({p \in ToSet(plans) : Passed(p.site)})
    OBVIOUS
  <2> DEFINE S == {p \in ToSet(plans) : Passed(p.site)}
  <2>1. crawl.todo \in Seq(S)
    BY DEF GateInv
  <2> HIDE DEF S
  <2>2. Tail(crawl.todo) \in Seq(S)
    BY <2>1, <1>2
  <2>3. crawl'.todo \in Seq(S)
    BY <2>1, <2>2
  <2> QED
    BY <2>3 DEF S
<1>5. stage \in Gated /\ ~crawl'.embargo => \A r \in ToSet(crawl'.recs) : Passed(r.site)
  BY DEF GateInv
<1>6. /\ stage' = "full" => /\ ~crawl'.embargo
                            /\ crawl'.todo \in Seq({p \in ToSet(plans') : Passed(p.site)'})
      /\ stage' \in Gated /\ ~crawl'.embargo => \A r \in ToSet(crawl'.recs) : Passed(r.site)'
  BY <1>1, <1>4, <1>5 DEF Passed, GateInv
<1>7. /\ stage' \in {"planning", "cheap", "judge"} \cup Gated
      /\ browser' = IF stage' = "cheap" THEN FALSE ELSE BrowserEnabled
      /\ IsList(plans)'
      /\ stage' \notin Gated => crawl'.embargo
      /\ stage' \in Gated => IsList(cheap.recs)' /\ \A r \in ToSet(cheap'.recs) : IsLight(r)
      /\ IsList(result.recs)'
      /\ stage' # "done" => result'.recs = <<>>
      /\ \A r \in ToSet(result'.recs) : IsLight(r) \/ Passed(r.site)'
  BY <1>1 DEF GateInv, Passed, IsList
<1> QED
  BY <1>3, <1>6, <1>7 DEF GateInv

\* The steps of a pass that bring no record.
LEMMA PassStepsKeepGate ==
  ASSUME GateInv, StartSite \/ SkipHeavy \/ SkipTail \/ EndSite
  PROVE  GateInv'
<1>1. AtSite /\ UNCHANGED crawlRest
  BY DEF StartSite, SkipHeavy, SkipTail, EndSite, AtRoute
<1>2. PassForm(crawl)
  BY DEF GateInv
<1>3. \/ \E n, m, k : crawl' = [crawl EXCEPT !.next = n, !.ran = m, !.skips = k]
      \/ \E n, k : crawl' = [crawl EXCEPT !.next = n, !.skips = k]
      \/ \E k : crawl' = [crawl EXCEPT !.todo = Tail(crawl.todo), !.next = 0, !.sites = k]
  <2>1. CASE StartSite
    BY <2>1, Zenon DEF StartSite
  <2>2. CASE SkipHeavy
    BY <2>2, Zenon DEF SkipHeavy
  <2>3. CASE SkipTail
    BY <2>3, Zenon DEF SkipTail
  <2>4. CASE EndSite
    BY <2>4, Zenon DEF EndSite
  <2> QED
    BY <2>1, <2>2, <2>3, <2>4
<1>4. /\ PassForm(crawl') /\ crawl'.embargo = crawl.embargo /\ crawl'.recs = crawl.recs
      /\ crawl'.todo = crawl.todo \/ crawl'.todo = Tail(crawl.todo)
  <2>1. CASE \E n, m, k : crawl' = [crawl EXCEPT !.next = n, !.ran = m, !.skips = k]
    BY <2>1, <1>2 DEF PassForm
  <2>2. CASE \E n, k : crawl' = [crawl EXCEPT !.next = n, !.skips = k]
    BY <2>2, <1>2 DEF PassForm
  <2>3. CASE \E k : crawl' = [crawl EXCEPT !.todo = Tail(crawl.todo), !.next = 0, !.sites = k]
    BY <2>3, <1>2 DEF PassForm
  <2> QED
    BY <1>3, <2>1, <2>2, <2>3
<1> QED
  BY <1>1, <1>4, PassGoesOn

\* The parts of a record that the gate is about.
LEMMA PageIs ==
  ASSUME NEW r, NEW a
  PROVE  /\ PageRecord(r, a).site = Plan.site /\ PageRecord(r, a).kind = "page"
         /\ PageRecord(r, a).rendered = a.browser /\ PageRecord(r, a).family = r.family
         /\ PageRecord(r, a).url = r.url
BY DEF PageRecord

\* A document is of the site in hand.
LEMMA DocumentIs ==
  ASSUME NEW r, NEW e
  PROVE  DocumentRecord(r, e).site = Plan.site
BY DEF DocumentRecord

\* What an answer brings to the queue of the pass.
LEMMA DocumentedType ==
  ASSUME NEW u \in DOMAIN Serve, NEW a \in Serve[u], NEW r, r.url = u, NEW dead,
         crawl.queue \in QueueType
  PROVE  /\ Documented(r, a, dead).queue \in QueueType
         /\ Documented(r, a, dead).entries \in Seq(DocEntries)
         /\ crawl.embargo => Documented(r, a, dead).entries = <<>>
<1>1. (a.file # "" => u \in DOMAIN File) /\ a.links \in Seq(DOMAIN File)
  BY SiteCrawlAssumption
<1> DEFINE nothing == [queue |-> crawl.queue, entries |-> <<>>]
<1>2. nothing.queue \in QueueType /\ nothing.entries \in Seq(DocEntries) /\ nothing.entries = <<>>
  OBVIOUS
<1>3. \/ Documented(r, a, dead) = nothing
      \/ ~crawl.embargo /\ a.file # "" /\ Documented(r, a, dead) = CollectDirect(crawl.queue, u)
      \/ ~crawl.embargo /\ Documented(r, a, dead) = CollectLinks(crawl.queue, a.links, dead)
  BY Zenon DEF Documented
<1> HIDE DEF nothing
<1>4. CASE Documented(r, a, dead) = nothing
  BY <1>4, <1>2
<1>5. CASE ~crawl.embargo /\ a.file # "" /\ Documented(r, a, dead) = CollectDirect(crawl.queue, u)
  <2>1. /\ CollectDirect(crawl.queue, u).queue \in QueueType
        /\ CollectDirect(crawl.queue, u).entries \in Ledgers
    BY <1>1, <1>5, CollectType
  <2> QED
    BY <2>1, <1>5 DEF Ledgers
<1>6. CASE ~crawl.embargo /\ Documented(r, a, dead) = CollectLinks(crawl.queue, a.links, dead)
  BY <1>1, <1>6, CollectLinksType
<1> QED
  BY <1>3, <1>4, <1>5, <1>6

\* The records a route brings: of the site in hand, and light under the embargo.
LEMMA FetchRouteKeepsGate ==
  ASSUME GateInv, NEW u \in DOMAIN Serve, NEW a \in Serve[u], NEW dead, FetchRoute(u, a, dead)
  PROVE  GateInv'
<1> DEFINE documents == Documented(Route, a, dead)
           docs == [i \in DOMAIN documents.entries |->
                      DocumentRecord(Route, documents.entries[i])]
           page == <<PageRecord(Route, a)>>
           direct == ~crawl.embargo /\ a.got /\ a.file # ""
           recs == IF direct THEN docs ELSE page \o docs
<1>1. /\ AtSite /\ ~(crawl.embargo /\ Heavy(Route)) /\ Route.url = u /\ (a.browser => browser)
      /\ UNCHANGED crawlRest
      /\ crawl' = [crawl EXCEPT !.next = @ + 1, !.ran = @ + 1, !.recs = @ \o recs,
                     !.exec = Append(@, Executed(Route, recs)),
                     !.queue = documents.queue, !.entries = @ \o documents.entries]
  BY Zenon DEF FetchRoute, AtRoute
<1>2. PassForm(crawl) /\ IsList(crawl.recs)
  BY DEF GateInv, PassForm
<1>3. /\ documents.queue \in QueueType /\ documents.entries \in Seq(DocEntries)
      /\ crawl.embargo => documents.entries = <<>>
  BY <1>1, <1>2, DocumentedType DEF PassForm
<1> HIDE DEF documents
<1>4. IsList(docs) /\ \A x \in ToSet(docs) : x.site = Plan.site
  <2>1. DOMAIN documents.entries = 1..Len(documents.entries) /\ Len(documents.entries) \in Nat
    BY <1>3, LenProperties
  <2>2. docs \in [1..Len(documents.entries) -> ToSet(docs)]
    BY <2>1 DEF ToSet
  <2>3. \A i \in DOMAIN docs : docs[i].site = Plan.site
    BY DocumentIs
  <2> HIDE DEF docs
  <2>4. docs \in Seq(ToSet(docs))
    BY <2>1, <2>2
  <2> QED
    BY <2>3, <2>4 DEF IsList, ToSet
<1>5. crawl.embargo => ToSet(docs) = {}
  BY <1>3 DEF ToSet
<1>6. IsList(page) /\ ToSet(page) = {PageRecord(Route, a)}
  <2> DEFINE r == PageRecord(Route, a)
  <2> HIDE DEF r
  <2>1. <<r>> \in Seq({r}) /\ ToSet(<<r>>) = {r}
    BY DEF ToSet
  <2> QED
    BY <2>1 DEF IsList, r
<1> HIDE DEF docs, page
<1>7. IsList(page \o docs) /\ ToSet(page \o docs) \subseteq ToSet(page) \cup ToSet(docs)
  BY <1>4, <1>6, ConcatMembers
<1>8. IsList(recs) /\ ToSet(recs) \subseteq {PageRecord(Route, a)} \cup ToSet(docs)
  <2>1. CASE direct
    BY <2>1, <1>4
  <2>2. CASE ~direct
    BY <2>2, <1>6, <1>7
  <2> QED
    BY <2>1, <2>2
<1> HIDE DEF recs
<1>9. \A x \in ToSet(recs) : \/ crawl.embargo /\ IsLight(x)
                             \/ ~crawl.embargo /\ Passed(x.site)
  <2>1. CASE crawl.embargo
    <3>1. stage = "cheap" /\ ~browser
      BY <2>1, <1>1 DEF GateInv, AtSite
    <3>2. IsLight(PageRecord(Route, a))
      BY <2>1, <3>1, <1>1, PageIs DEF IsLight, Heavy
    <3> QED
      BY <2>1, <3>2, <1>5, <1>8
  <2>2. CASE ~crawl.embargo
    <3>1. Passed(Plan.site)
      BY <2>2, <1>1, PlanPassed
    <3>2. \A x \in ToSet(recs) : x.site = Plan.site
      BY <1>4, <1>8, PageIs
    <3> QED
      BY <2>2, <3>1, <3>2
  <2> QED
    BY <2>1, <2>2
<1>10. /\ IsList(crawl.recs \o recs)
       /\ ToSet(crawl.recs \o recs) \subseteq ToSet(crawl.recs) \cup ToSet(recs)
  BY <1>2, <1>8, ConcatMembers
<1>11. /\ PassForm(crawl') /\ crawl'.embargo = crawl.embargo /\ crawl'.todo = crawl.todo
       /\ crawl'.recs = crawl.recs \o recs
  BY <1>1, <1>2, <1>3, <1>10 DEF PassForm
<1> QED
  BY <1>1, <1>9, <1>10, <1>11, PassGoesOn

\* The first pass ends, and the browser is back.
LEMMA EndCheapKeepsGate == ASSUME GateInv, EndCheap PROVE GateInv'
<1>1. /\ stage = "cheap" /\ stage' = "judge" /\ browser' = BrowserEnabled
      /\ plans' = plans /\ crawl' = crawl /\ cheap' = cheap /\ result' = result
  BY DEF EndCheap
<1> QED
  BY <1>1 DEF GateInv, Gated, PassForm, Passed, IsList

\* The second pass ends.
LEMMA EndFullKeepsGate == ASSUME GateInv, EndFull PROVE GateInv'
<1>1. /\ stage = "full" /\ stage' = "store" /\ browser' = browser
      /\ plans' = plans /\ crawl' = crawl /\ cheap' = cheap /\ result' = result
  BY DEF EndFull
<1> QED
  BY <1>1 DEF GateInv, Gated, PassForm, Passed, IsList

\* The gate opens for the sites that the records of the first pass speak for.
LEMMA JudgeKeepsGate == ASSUME GateInv, Judge PROVE GateInv'
<1> DEFINE chosen == {i \in DOMAIN plans : KeyOf[plans[i].site] \in TrustedKeys(trust')}
           open == Those(chosen, plans)
           S == {p \in ToSet(plans) : Judged(p.site, crawl.recs) = "trusted"}
<1>1. /\ stage = "judge" /\ cheap' = crawl
      /\ trust' = [s \in {plans[i].site : i \in DOMAIN plans} |-> Judged(s, crawl.recs)]
      /\ plans' = plans /\ browser' = browser /\ result' = result
      /\ \/ stage' = "full" /\ crawl' = NewPass(FALSE, open)
         \/ stage' = "store" /\ crawl' = crawl
  BY Zenon DEF Judge
<1>2. open \in Seq(S)
  <2>1. IsList(plans)
    BY DEF GateInv
  <2>2. \A i \in DOMAIN plans : i \in chosen => plans[i] \in S
    <3> SUFFICES ASSUME NEW i \in DOMAIN plans, KeyOf[plans[i].site] \in TrustedKeys(trust')
                 PROVE  plans[i] \in S
      OBVIOUS
    <3>1. PICK s \in DOMAIN trust' : trust'[s] = "trusted" /\ KeyOf[s] = KeyOf[plans[i].site]
      BY DEF TrustedKeys
    <3>2. Judged(s, crawl.recs) = "trusted"
      BY <1>1, <3>1
    <3>3. Judged(plans[i].site, crawl.recs) = "trusted"
      BY <3>1, <3>2 DEF Judged
    <3> QED
      BY <3>3 DEF ToSet
  <2> HIDE DEF chosen, S
  <2> QED
    BY <2>1, <2>2, ThoseType
<1> HIDE DEF open
<1>3. S = {p \in ToSet(plans') : Passed(p.site)'}
  BY <1>1 DEF Passed
<1> HIDE DEF S
<1>4. crawl.embargo = TRUE /\ (\A r \in ToSet(crawl.recs) : IsLight(r)) /\ PassForm(crawl)
  BY <1>1 DEF GateInv, Gated, PassForm
<1>5. result'.recs = <<>> /\ ToSet(result'.recs) = {} /\ IsList(result'.recs)
  BY <1>1, NoMembers DEF GateInv
<1>6. /\ IsList(plans') /\ browser' = BrowserEnabled
      /\ IsList(cheap'.recs) /\ \A r \in ToSet(cheap'.recs) : IsLight(r)
  BY <1>1, <1>4 DEF GateInv, PassForm
<1>7. CASE stage' = "full" /\ crawl' = NewPass(FALSE, open)
  <2>1. /\ PassForm(crawl') /\ crawl'.recs = <<>> /\ crawl'.embargo = FALSE /\ crawl'.todo = open
    BY <1>7, NewPassForm
  <2>2. ToSet(crawl'.recs) = {}
    BY <2>1, NoMembers
  <2> QED
    BY <1>7, <2>1, <2>2, <1>2, <1>3, <1>5, <1>6 DEF GateInv, Gated
<1>8. CASE stage' = "store" /\ crawl' = crawl
  <2>1. PassForm(crawl') /\ crawl'.embargo = TRUE /\ \A r \in ToSet(crawl'.recs) : IsLight(r)
    BY <1>8, <1>4
  <2> QED
    BY <1>8, <2>1, <1>5, <1>6 DEF GateInv, Gated
<1> QED
  BY <1>1, <1>7, <1>8

\* The result is drawn from both passes.
LEMMA StoreKeepsGate == ASSUME GateInv, Store PROVE GateInv'
<1> DEFINE all == Merged.recs
<1>1. /\ stage = "store" /\ stage' = "done" /\ result' = BuildResult(Merged)
      /\ plans' = plans /\ crawl' = crawl /\ cheap' = cheap /\ browser' = browser
  BY DEF Store
<1>2. result'.recs = Deduped(all)
  BY <1>1, Zenon DEF BuildResult
<1>3. IsList(crawl.recs) /\ IsList(cheap.recs)
  BY <1>1 DEF GateInv, PassForm, Gated
<1>4. IsList(all) /\ \A r \in ToSet(all) : IsLight(r) \/ Passed(r.site)
  <2>1. CASE crawl.embargo
    <3>1. all = crawl.recs
      BY <2>1 DEF Merged
    <3> QED
      BY <2>1, <3>1, <1>3 DEF GateInv
  <2>2. CASE ~crawl.embargo
    <3> DEFINE kept == OtherKeys(trust)
               chosen == {i \in DOMAIN cheap.recs : KeyOf[cheap.recs[i].site] \in kept}
               first == Those(chosen, cheap.recs)
    <3>1. all = first \o crawl.recs
      BY <2>2 DEF Merged, RecordsOf
    <3>2. first \in Seq(ToSet(cheap.recs))
      <4>1. \A i \in DOMAIN cheap.recs : i \in chosen => cheap.recs[i] \in ToSet(cheap.recs)
        BY DEF ToSet
      <4> HIDE DEF chosen
      <4> QED
        BY <4>1, <1>3, ThoseType
    <3> HIDE DEF first
    <3>3. IsList(first) /\ ToSet(first) \subseteq ToSet(cheap.recs)
      BY <3>2, SeqMembers
    <3>4. /\ IsList(first \o crawl.recs)
          /\ ToSet(first \o crawl.recs) \subseteq ToSet(first) \cup ToSet(crawl.recs)
      BY <3>3, <1>3, ConcatMembers
    <3>5. \A r \in ToSet(cheap.recs) : IsLight(r)
      BY <1>1 DEF GateInv, Gated
    <3>6. \A r \in ToSet(crawl.recs) : Passed(r.site)
      BY <1>1, <2>2 DEF GateInv, Gated
    <3> QED
      BY <3>1, <3>3, <3>4, <3>5, <3>6
  <2> QED
    BY <2>1, <2>2
<1> HIDE DEF all
<1>5. IsList(Deduped(all)) /\ ToSet(Deduped(all)) \subseteq ToSet(all)
  <2> DEFINE chosen == {i \in DOMAIN all : \A j \in 1 .. i - 1 : all[j].fp # all[i].fp}
  <2>1. Deduped(all) = Those(chosen, all)
    BY DEF Deduped
  <2>2. \A i \in DOMAIN all : i \in chosen => all[i] \in ToSet(all)
    BY DEF ToSet
  <2> HIDE DEF chosen
  <2>3. Those(chosen, all) \in Seq(ToSet(all))
    BY <2>2, <1>4, ThoseType
  <2> QED
    BY <2>1, <2>3, SeqMembers
<1>6. \A r \in ToSet(result'.recs) : IsLight(r) \/ Passed(r.site)
  BY <1>2, <1>4, <1>5
<1>7. IsList(result'.recs) /\ \A r \in ToSet(result'.recs) : IsLight(r) \/ Passed(r.site)'
  BY <1>1, <1>2, <1>5, <1>6 DEF Passed
<1> QED
  BY <1>1, <1>7 DEF GateInv, Gated, PassForm, Passed, IsList

\* The parser returns, and forgets the company.
LEMMA ParserReturnsKeepsGate == ASSUME GateInv, ParserReturns PROVE GateInv'
<1>1. /\ stage = "done" /\ stage' = "planning" /\ plans' = <<>> /\ result' = [recs |-> <<>>]
      /\ crawl' = NewPass(TRUE, <<>>) /\ browser' = browser
  BY Zenon DEF ParserReturns
<1>2. PassForm(crawl') /\ crawl'.recs = <<>> /\ crawl'.embargo = TRUE
  BY <1>1, NewPassForm
<1>3. result'.recs = <<>>
  BY <1>1
<1> QED
  BY <1>1, <1>2, <1>3, NoMembers DEF GateInv, Gated

\* The other steps of a company leave the parser alone.
LEMMA OtherStepsKeepGate ==
  ASSUME GateInv,
         \/ \E c \in Companies : ChooseSites(c)
         \/ SurfaceCheck
         \/ \E signal \in GeoSignals : AdmitSites(signal)
         \/ KeepSurface \/ CheckSite \/ EndChecks
         \/ ReviewRecord
         \/ Finish \/ OthersAsk
         \/ UNCHANGED vars
  PROVE  GateInv'
<1>1. CASE UNCHANGED vars
  BY <1>1, GateUnchanged DEF vars, crawlVars
<1>2. ~(UNCHANGED vars) => UNCHANGED crawlVars
  BY Zenon DEF ChooseSites, SurfaceCheck, AdmitSites, KeepSurface, CheckSite, EndChecks,
               ReviewRecord, Finish, OthersAsk
<1> QED
  BY <1>1, <1>2, GateUnchanged DEF crawlVars

\* Every step keeps the gate.
LEMMA GateNext == ASSUME GateInv, [Next]_vars PROVE GateInv'
<1>1. CASE Crawl
  <2>1. CASE PlanSites
    BY <2>1, PlanSitesKeepsGate
  <2>2. CASE StartCheap
    BY <2>2, StartCheapKeepsGate
  <2>3. CASE StartSite \/ SkipHeavy \/ SkipTail \/ EndSite
    BY <2>3, PassStepsKeepGate
  <2>4. CASE \E u \in DOMAIN Serve : \E a \in Serve[u] : \E dead \in SUBSET Flaky :
               FetchRoute(u, a, dead)
    BY <2>4, FetchRouteKeepsGate
  <2>5. CASE EndCheap
    BY <2>5, EndCheapKeepsGate
  <2>6. CASE Judge
    BY <2>6, JudgeKeepsGate
  <2>7. CASE EndFull
    BY <2>7, EndFullKeepsGate
  <2>8. CASE Store
    BY <2>8, StoreKeepsGate
  <2> QED
    BY <1>1, <2>1, <2>2, <2>3, <2>4, <2>5, <2>6, <2>7, <2>8, Zenon DEF Crawl, CrawlNext
<1>2. CASE ParserReturns
  BY <1>2, ParserReturnsKeepsGate
<1> QED
  BY <1>1, <1>2, OtherStepsKeepGate, Zenon DEF Next

\* A document, a rendered page or a page of a heavy route is only ever taken
\* from a site that the pages of the first pass say is the company's, and the
\* browser is there again whenever the first pass is over.
THEOREM TrustGateHolds == Spec => []HeavyOnlyIfTrusted
<1>1. Init => GateInv
  BY GateInit
<1>2. GateInv /\ [Next]_vars => GateInv'
  BY GateNext
<1>3. GateInv => HeavyOnlyIfTrusted
  BY GateInvSuffices
<1> QED
  BY <1>1, <1>2, <1>3, PTL DEF Spec

----------------------------------------------------------------------------
(* The budget of the language model, and the review of the records *)

\* What is known of the calls: within the caps, and each with its cost.
Budgeted(l) ==
  /\ l = [made |-> l.made, mine |-> l.mine, known |-> l.known, unknown |-> l.unknown,
          cost |-> l.cost]
  /\ l.made \in Nat /\ l.mine \in Nat /\ l.known \in Nat /\ l.unknown \in Nat
  /\ l.made <= RunCap /\ l.mine <= CompanyCap /\ l.mine <= l.made
  /\ l.known + l.unknown = l.mine
  /\ l.cost = IF l.unknown > 0 THEN Unknown ELSE l.known

\* One budget after another: no call is taken back.
After(l, m) == m.made >= l.made /\ m.mine >= l.mine

\* A reason to skip that names a cap names one that is reached.
CapTold(reason, l) ==
  /\ reason = "run_cap_exhausted" => l.made >= RunCap
  /\ reason = "company_cap_exhausted" => l.mine >= CompanyCap

\* There is a slot as long as neither cap is reached.
LEMMA ReserveTells ==
  ASSUME NEW l, Reserve(l) = ""
  PROVE  ~(l.made >= RunCap) /\ ~(l.mine >= CompanyCap)
<1>1. "run_cap_exhausted" # "" /\ "company_cap_exhausted" # ""
  OBVIOUS
<1> QED
  BY <1>1 DEF Reserve

\* A call takes a slot and has a cost.
LEMMA CallKeepsBudget ==
  ASSUME NEW l, Budgeted(l), ~(l.made >= RunCap), ~(l.mine >= CompanyCap), NEW a
  PROVE  Budgeted(Charge(Take(l), a)) /\ After(l, Charge(Take(l), a))
<1>1. Budgeted(l)
  OBVIOUS
<1>2. /\ l.made \in Nat /\ l.mine \in Nat /\ l.known \in Nat /\ l.unknown \in Nat
      /\ l.made <= RunCap /\ l.mine <= CompanyCap /\ l.mine <= l.made
      /\ l.known + l.unknown = l.mine
      /\ l.cost = IF l.unknown > 0 THEN -1 ELSE l.known
  BY <1>1 DEF Budgeted, Unknown
<1>4. /\ l.made < RunCap /\ l.mine < CompanyCap
      /\ RunCap \in Nat /\ CompanyCap \in Nat
  BY <1>2, ContentReviewAssumption
<1> DEFINE t == Take(l)
           c == Charge(t, a)
<1>5. t = [made |-> l.made + 1, mine |-> l.mine + 1, known |-> l.known,
           unknown |-> l.unknown, cost |-> l.cost]
  <2>1. l = [made |-> l.made, mine |-> l.mine, known |-> l.known, unknown |-> l.unknown,
             cost |-> l.cost]
    BY <1>1 DEF Budgeted
  <2>2. t = [l EXCEPT !.made = l.made + 1, !.mine = l.mine + 1]
    BY Zenon DEF Take
  <2> HIDE DEF t
  <2> QED
    BY <2>1, <2>2
<1>6. Cost(a) = -1 \/ Cost(a) = 1
  BY DEF Cost, Unknown
<1>7. c = [t EXCEPT !.known = IF Cost(a) = -1 THEN t.known ELSE t.known + 1,
                    !.unknown = IF Cost(a) = -1 THEN t.unknown + 1 ELSE t.unknown,
                    !.cost = IF t.cost = -1 \/ Cost(a) = -1 THEN -1 ELSE t.cost + Cost(a)]
  BY <1>5, Zenon DEF Charge, Plus, Unknown
<1> HIDE DEF c, t
<1>8. c = [made |-> l.made + 1, mine |-> l.mine + 1,
           known |-> IF Cost(a) = -1 THEN l.known ELSE l.known + 1,
           unknown |-> IF Cost(a) = -1 THEN l.unknown + 1 ELSE l.unknown,
           cost |-> IF l.cost = -1 \/ Cost(a) = -1 THEN -1 ELSE l.cost + Cost(a)]
  BY <1>5, <1>7
<1>9. Budgeted(c)
  <2>1. c.cost = IF c.unknown > 0 THEN -1 ELSE c.known
    BY <1>2, <1>6, <1>8
  <2>2. /\ c = [made |-> c.made, mine |-> c.mine, known |-> c.known, unknown |-> c.unknown,
                cost |-> c.cost]
        /\ c.made \in Nat /\ c.mine \in Nat /\ c.known \in Nat /\ c.unknown \in Nat
        /\ c.made <= RunCap /\ c.mine <= CompanyCap /\ c.mine <= c.made
        /\ c.known + c.unknown = c.mine
    BY <1>2, <1>4, <1>6, <1>8
  <2> QED
    BY <2>1, <2>2 DEF Budgeted, Unknown
<1> QED
  BY <1>2, <1>8, <1>9 DEF After, c, t

\* What an answer is read as is never a cap.
LEMMA FinalTellsNoCap ==
  ASSUME NEW l, NEW a, NEW n
  PROVE  Final(l, a, n).llm = l /\ \A m : CapTold(Final(l, a, n).reason, m)
<1>1. ParseReason(a) \notin {"run_cap_exhausted", "company_cap_exhausted"}
  <2>1. TextReason(a.text) \notin {"run_cap_exhausted", "company_cap_exhausted"}
    BY DEF TextReason
  <2> QED
    BY <2>1 DEF ParseReason
<1> QED
  BY <1>1 DEF Final, Outcome, CapTold

\* A question leaves the budget in order, and names a cap only if it is reached.
LEMMA AskKeepsBudget ==
  ASSUME NEW l, Budgeted(l), NEW question, NEW first, NEW second
  PROVE  LET o == Ask(l, question, first, second)
         IN  Budgeted(o.llm) /\ After(l, o.llm) /\ CapTold(o.reason, o.llm)
<1> DEFINE o == Ask(l, question, first, second)
           once == Charge(Take(l), first)
           again == Charge(Take(once), second)
<1>1. \A m : After(m, m) <=> m.made >= m.made /\ m.mine >= m.mine
  BY DEF After
<1>2. After(l, l)
  BY DEF After, Budgeted
<1>3. CASE ~LlmEnabled
  <2>1. o.llm = l /\ o.reason = "llm_disabled"
    BY <1>3 DEF Ask, Outcome
  <2> QED
    BY <2>1, <1>2 DEF CapTold
<1>4. CASE LlmEnabled /\ Reserve(l) # ""
  <2>1. o.llm = l /\ o.reason = Reserve(l)
    BY <1>4 DEF Ask, Outcome
  <2>2. CapTold(Reserve(l), l)
    BY DEF CapTold, Reserve
  <2> QED
    BY <2>1, <2>2, <1>2
<1>5. CASE LlmEnabled /\ Reserve(l) = ""
  <2>1. Budgeted(once) /\ After(l, once)
    BY <1>5, ReserveTells, CallKeepsBudget
  <2> HIDE DEF once
  <2>2. CASE ~Retried(question, first)
    <3>1. o = Final(once, first, 1)
      BY <1>5, <2>2 DEF Ask, once
    <3> QED
      BY <3>1, <2>1, FinalTellsNoCap
  <2>3. CASE Retried(question, first) /\ Reserve(once) # ""
    <3>1. o = Outcome(once, "skipped", Reserve(once), 1, <<>>)
      BY <1>5, <2>3 DEF Ask, once
    <3>2. o.llm = once /\ o.reason = Reserve(once)
      BY <3>1 DEF Outcome
    <3>3. CapTold(Reserve(once), once)
      BY DEF CapTold, Reserve
    <3> QED
      BY <3>2, <3>3, <2>1
  <2>4. CASE Retried(question, first) /\ Reserve(once) = ""
    <3>1. o = Final(again, second, 2)
      BY <1>5, <2>4 DEF Ask, once
    <3>2. Budgeted(again) /\ After(once, again)
      BY <2>1, <2>4, ReserveTells, CallKeepsBudget
    <3> HIDE DEF again
    <3>3. After(l, again)
      BY <2>1, <3>2 DEF After, Budgeted
    <3> QED
      BY <3>1, <3>2, <3>3, FinalTellsNoCap
  <2> QED
    BY <2>2, <2>3, <2>4
<1> QED
  BY <1>3, <1>4, <1>5

\* ys are the members of xs at those of the first n positions that are in I, in
\* their order: f says where each comes from.
IsPick(f, I, xs, n, ys) ==
  /\ f \in [1..Len(ys) -> I \cap (1..n)]
  /\ \A j, k \in 1..Len(ys) : j < k => f[j] < f[k]
  /\ \A i \in I \cap (1..n) : \E k \in 1..Len(ys) : f[k] = i
  /\ \A k \in 1..Len(ys) : ys[k] = xs[f[k]]

\* One position more.
LEMMA PickGoesOn ==
  ASSUME NEW S, NEW I, NEW xs \in Seq(S), NEW n \in 1..Len(xs), NEW ys \in Seq(S), NEW f,
         IsPick(f, I, xs, n - 1, ys)
  PROVE  \E g : IsPick(g, I, xs, n, ys \o (IF n \in I THEN <<xs[n]>> ELSE <<>>))
<1>1. /\ Len(ys) \in Nat /\ Len(xs) \in Nat /\ n \in Nat /\ n - 1 \in Nat
      /\ 1..(n - 1) \subseteq 1..n /\ \A i \in 1..n : i = n \/ i \in 1..(n - 1)
  BY LenProperties
<1>2. /\ f \in [1..Len(ys) -> I \cap (1..(n - 1))]
      /\ \A j, k \in 1..Len(ys) : j < k => f[j] < f[k]
      /\ \A i \in I \cap (1..(n - 1)) : \E k \in 1..Len(ys) : f[k] = i
      /\ \A k \in 1..Len(ys) : ys[k] = xs[f[k]]
  BY DEF IsPick
<1>3. CASE n \notin I
  <2>1. ys \o <<>> = ys
    BY ConcatEmptySeq
  <2>2. I \cap (1..n) = I \cap (1..(n - 1))
    BY <1>1, <1>3
  <2>3. IsPick(f, I, xs, n, ys)
    BY <1>2, <2>2 DEF IsPick
  <2> QED
    BY <1>3, <2>1, <2>3
<1>4. CASE n \in I
  <2> DEFINE x == xs[n]
             zs == ys \o <<x>>
             N == Len(ys) + 1
             g == [k \in 1..N |-> IF k = N THEN n ELSE f[k]]
  <2>1. x \in S
    BY <1>1
  <2> HIDE DEF x
  <2>2. <<x>> \in Seq(S) /\ Len(<<x>>) = 1 /\ <<x>>[1] = x
    BY <2>1
  <2>3. /\ zs \in Seq(S) /\ Len(zs) = N
        /\ \A k \in 1..Len(ys) : zs[k] = ys[k]
        /\ zs[N] = x
    <3>1. /\ zs \in Seq(S) /\ Len(zs) = Len(ys) + 1
          /\ \A i \in 1..(Len(ys) + 1) :
               zs[i] = IF i <= Len(ys) THEN ys[i] ELSE <<x>>[i - Len(ys)]
      BY <2>2, ConcatProperties
    <3> HIDE DEF zs
    <3>2. zs[N] = <<x>>[1] /\ \A k \in 1..Len(ys) : zs[k] = ys[k]
      BY <3>1, <1>1
    <3> QED
      BY <3>1, <3>2, <2>2
  <2> HIDE DEF zs
  <2>4. /\ N \in Nat /\ 1..Len(ys) \subseteq 1..N /\ N \in 1..N
        /\ \A k \in 1..N : k = N \/ (k \in 1..Len(ys) /\ k < N)
        /\ \A k \in 1..Len(ys) : k # N
    <3> DEFINE L == Len(ys)
    <3>1. L \in Nat /\ N = L + 1
      BY <1>1
    <3> HIDE DEF L, N
    <3>2. N \in Nat /\ 1..L \subseteq 1..N /\ N \in 1..N
      BY <3>1
    <3>3. \A k \in 1..N : k = N \/ (k \in 1..L /\ k < N)
      <4> SUFFICES ASSUME NEW k \in 1..N, k # N PROVE k \in 1..L /\ k < N
        OBVIOUS
      <4> QED
        BY <3>1
    <3>4. \A k \in 1..L : k # N
      BY <3>1
    <3> QED
      BY <3>2, <3>3, <3>4 DEF L
  <2>5. /\ g \in [1..N -> I \cap (1..n)]
        /\ g[N] = n /\ \A k \in 1..Len(ys) : g[k] = f[k] /\ f[k] < n
    <3>1. \A k \in 1..Len(ys) : f[k] \in I \cap (1..n) /\ f[k] < n
      BY <1>1, <1>2
    <3> QED
      BY <3>1, <2>4, <1>4, <1>1
  <2> HIDE DEF g, N
  <2>6. \A j, k \in 1..N : j < k => g[j] < g[k]
    <3> SUFFICES ASSUME NEW j \in 1..N, NEW k \in 1..N, j < k PROVE g[j] < g[k]
      OBVIOUS
    <3>1. j \in 1..Len(ys)
      BY <2>4
    <3> QED
      BY <3>1, <2>4, <2>5, <1>2
  <2>7. \A i \in I \cap (1..n) : \E k \in 1..N : g[k] = i
    <3> SUFFICES ASSUME NEW i \in I \cap (1..n) PROVE \E k \in 1..N : g[k] = i
      OBVIOUS
    <3>1. CASE i = n
      BY <3>1, <2>4, <2>5
    <3>2. CASE i # n
      <4>1. i \in I \cap (1..(n - 1))
        BY <3>2, <1>1
      <4>2. PICK k \in 1..Len(ys) : f[k] = i
        BY <4>1, <1>2
      <4> QED
        BY <4>2, <2>4, <2>5
    <3> QED
      BY <3>1, <3>2
  <2>8. \A k \in 1..N : zs[k] = xs[g[k]]
    <3>1. zs[N] = xs[g[N]]
      BY <2>3, <2>5 DEF x
    <3>2. \A k \in 1..Len(ys) : zs[k] = xs[g[k]]
      BY <2>3, <2>5, <1>2
    <3> QED
      BY <3>1, <3>2, <2>4
  <2>9. IsPick(g, I, xs, n, zs)
    BY <2>3, <2>5, <2>6, <2>7, <2>8 DEF IsPick
  <2> QED
    BY <2>9, <1>4 DEF zs, x
<1> QED
  BY <1>3, <1>4

\* Those are picked in their order, each once.
LEMMA ThoseIsPick ==
  ASSUME NEW I, NEW xs, IsList(xs)
  PROVE  \E f : IsPick(f, I, xs, Len(xs), Those(I, xs))
<1> DEFINE S == ToSet(xs)
           N == Len(xs)
           parts == [i \in DOMAIN xs |-> IF i \in I THEN <<xs[i]>> ELSE <<>>]
<1>1. xs \in Seq(S) /\ DOMAIN xs = 1..N /\ N \in Nat
  <2>1. xs \in Seq(S)
    BY DEF IsList
  <2> HIDE DEF S
  <2> QED
    BY <2>1, LenProperties
<1>2. \A i \in 1..N : parts[i] \in Seq(S)
  <2>1. \A i \in 1..N : xs[i] \in S
    BY <1>1 DEF ToSet
  <2> HIDE DEF S
  <2> QED
    BY <2>1, <1>1
<1>3. parts = [i \in 1..N |-> parts[i]]
  BY <1>1
<1>4. Those(I, xs) = FlattenSeq(parts)
  BY DEF Those
<1>5. \A n \in 1..N : parts[n] = IF n \in I THEN <<xs[n]>> ELSE <<>>
  BY <1>1
<1> HIDE DEF parts, S
<1>6. parts \in [1..N -> Seq(S)]
  BY <1>2, <1>3
<1>7. parts \in Seq(Seq(S)) /\ Len(parts) = N
  BY <1>1, <1>6
<1>8. PICK h : IsFlattening(h, parts, S)
  BY <1>7, FlattenGoesOn
<1>9. /\ h \in [0..N -> Seq(S)] /\ h[0] = <<>> /\ Those(I, xs) = h[N]
      /\ \A n \in 1..N : h[n] = h[n - 1] \o parts[n]
  BY <1>4, <1>7, <1>8 DEF IsFlattening
<1> DEFINE Bad == {n \in 0..N : ~\E f : IsPick(f, I, xs, n, h[n])}
<1>10. Bad = {}
  <2> SUFFICES ASSUME Bad # {} PROVE FALSE
    OBVIOUS
  <2>1. PICK n \in Bad : \A m \in Bad : n <= m
    <3>1. Bad \subseteq Nat
      BY <1>1
    <3> HIDE DEF Bad
    <3> QED
      BY <3>1, LeastExists
  <2>2. n \in 0..N /\ ~\E f : IsPick(f, I, xs, n, h[n])
    BY <2>1
  <2>3. n # 0
    <3> SUFFICES ASSUME n = 0 PROVE FALSE
      OBVIOUS
    <3> DEFINE e == [k \in 1..0 |-> 0]
    <3>1. h[n] = <<>> /\ Len(<<>>) = 0 /\ I \cap (1..n) = {}
      BY <1>9
    <3>2. e \in [1..0 -> I \cap (1..n)]
      OBVIOUS
    <3> HIDE DEF e
    <3>3. IsPick(e, I, xs, n, h[n])
      BY <3>1, <3>2 DEF IsPick
    <3> QED
      BY <3>3, <2>2
  <2>4. n \in 1..N /\ n - 1 \in 0..N /\ ~(n <= n - 1)
    BY <2>2, <2>3, <1>1
  <2>5. n - 1 \notin Bad
    BY <2>1, <2>4
  <2>6. PICK f : IsPick(f, I, xs, n - 1, h[n - 1])
    BY <2>4, <2>5
  <2>7. h[n - 1] \in Seq(S)
    BY <2>4, <1>9
  <2>8. \E g : IsPick(g, I, xs, n, h[n - 1] \o (IF n \in I THEN <<xs[n]>> ELSE <<>>))
    BY <2>4, <2>6, <2>7, <1>1, PickGoesOn
  <2>9. h[n] = h[n - 1] \o (IF n \in I THEN <<xs[n]>> ELSE <<>>)
    BY <1>5, <1>9, <2>4
  <2> QED
    BY <2>2, <2>8, <2>9
<1>11. N \in 0..N
  BY <1>1
<1> QED
  BY <1>9, <1>10, <1>11

\* Each record that may lead has one card, and none has two.
LEMMA CardsAddUp ==
  ASSUME NEW recs, IsList(recs), NEW primary, NEW i \in DOMAIN recs
  PROVE  LET cards == LeadCards(recs, primary)
             C == {k \in DOMAIN cards : cards[k].key = CardKey(recs[i])}
         IN  Cardinality(C) <= 1 /\ (MayLead(recs[i]) => Cardinality(C) = 1)
<1> DEFINE leads == {j \in DOMAIN recs : MayLead(recs[j])}
           first == {j \in leads : \A k \in leads : CardKey(recs[k]) = CardKey(recs[j]) => j <= k}
           Card(r) == [key |-> CardKey(r), site |-> primary, source |-> r.url,
                       confidence |-> r.score]
           all == [j \in DOMAIN recs |-> Card(recs[j])]
           ys == LeadCards(recs, primary)
           K == CardKey(recs[i])
           C == {k \in DOMAIN ys : ys[k].key = K}
<1>1. DOMAIN recs = 1..Len(recs) /\ Len(recs) \in Nat
  <2>1. recs \in Seq(ToSet(recs))
    BY DEF IsList
  <2> QED
    BY <2>1, LenProperties
<1>2. IsList(all) /\ Len(all) = Len(recs) /\ DOMAIN all = DOMAIN recs
  <2>1. DOMAIN all = 1..Len(recs)
    BY <1>1
  <2>2. all \in [1..Len(recs) -> ToSet(all)]
    BY <1>1 DEF ToSet
  <2> HIDE DEF all
  <2>3. all \in Seq(ToSet(all)) /\ Len(all) = Len(recs)
    BY <1>1, <2>2
  <2> QED
    BY <1>1, <2>1, <2>3 DEF IsList
<1>3. ys = Those(first, all)
  <2>1. ys = FlattenSeq([j \in DOMAIN recs |-> IF j \in first THEN <<Card(recs[j])>> ELSE <<>>])
    BY DEF LeadCards
  <2>2. [j \in DOMAIN recs |-> IF j \in first THEN <<Card(recs[j])>> ELSE <<>>]
          = [j \in DOMAIN all |-> IF j \in first THEN <<all[j]>> ELSE <<>>]
    <3> HIDE DEF first
    <3> QED
      OBVIOUS
  <2> HIDE DEF first, ys, all
  <2> QED
    BY <2>1, <2>2 DEF Those
<1>4. \A j \in DOMAIN recs : all[j].key = CardKey(recs[j])
  OBVIOUS
<1> HIDE DEF all, ys
<1>5. PICK f : IsPick(f, first, all, Len(recs), ys)
  BY <1>2, <1>3, ThoseIsPick
<1>6. DOMAIN ys = 1..Len(ys) /\ Len(ys) \in Nat
  <2>1. \A j \in DOMAIN all : j \in first => all[j] \in ToSet(all)
    BY DEF ToSet
  <2>2. ys \in Seq(ToSet(all))
    BY <2>1, <1>2, <1>3, ThoseType
  <2> QED
    BY <2>2, LenProperties
<1>7. /\ \A k \in 1..Len(ys) : f[k] \in first /\ f[k] \in DOMAIN recs
                               /\ ys[k].key = CardKey(recs[f[k]])
      /\ \A j, k \in 1..Len(ys) : j < k => f[j] < f[k]
      /\ \A j \in first : \E k \in 1..Len(ys) : f[k] = j
  <2>1. first \subseteq DOMAIN recs
    OBVIOUS
  <2> HIDE DEF first
  <2> QED
    BY <1>1, <1>4, <1>5, <2>1 DEF IsPick
<1>8. \A j, k \in C : j = k
  <2> SUFFICES ASSUME NEW j \in C, NEW k \in C, j < k PROVE FALSE
    <3>1. \A x, y \in 1..Len(ys) : x < y \/ y < x \/ x = y
      BY <1>6
    <3>2. C \subseteq 1..Len(ys)
      BY <1>6
    <3> HIDE DEF C
    <3> QED
      BY <3>1, <3>2
  <2>1. /\ j \in 1..Len(ys) /\ k \in 1..Len(ys) /\ f[j] < f[k]
        /\ CardKey(recs[f[j]]) = K /\ CardKey(recs[f[k]]) = K
    BY <1>6, <1>7
  <2>2. f[k] <= f[j]
    BY <2>1, <1>7
  <2>3. f[j] \in Nat /\ f[k] \in Nat
    BY <2>1, <1>1, <1>7
  <2> QED
    BY <2>1, <2>2, <2>3
<1>9. C = {} \/ \E k : C = {k}
  <2> HIDE DEF C
  <2> QED
    BY <1>8
<1>10. MayLead(recs[i]) => C # {}
  <2> SUFFICES ASSUME MayLead(recs[i]) PROVE C # {}
    OBVIOUS
  <2> DEFINE same == {j \in leads : CardKey(recs[j]) = K}
  <2>1. same \subseteq Nat /\ i \in same
    BY <1>1
  <2>2. PICK j \in same : \A k \in same : j <= k
    <3> HIDE DEF same
    <3> QED
      BY <2>1, LeastExists
  <2>3. j \in first
    BY <2>2
  <2>4. PICK k \in 1..Len(ys) : f[k] = j
    BY <2>3, <1>7
  <2>5. k \in C
    BY <2>2, <2>4, <1>6, <1>7
  <2> QED
    BY <2>5
<1>11. Cardinality(C) <= 1 /\ (C # {} => Cardinality(C) = 1)
  <2> HIDE DEF C
  <2>1. CASE C = {}
    BY <2>1, FS_EmptySet
  <2>2. CASE \E k : C = {k}
    BY <2>2, FS_Singleton
  <2> QED
    BY <1>9, <2>1, <2>2
<1> QED
  BY <1>10, <1>11 DEF ys

\* The fields the review of a record goes by.
RecordFields == {"trust", "status", "text", "label", "score", "review"}

\* A record before its review, and after.
Unreviewed(r) == RecordFields \subseteq DOMAIN r /\ r.review = <<>>
Done(r, l) ==
  /\ r.label = "maybe_relevant" => r.review # <<>>
  /\ r.review # <<>> =>
       /\ r.trust = "trusted" \/ r.review[1].reason \in {"site_not_trusted", "llm_disabled"}
       /\ CapTold(r.review[1].reason, l)

\* What the rules say of a record.
LEMMA ClassifiedIs ==
  ASSUME NEW r, Unreviewed(r)
  PROVE  LET c == Classified(r)
         IN  Unreviewed(c) /\ (c.label = "maybe_relevant" => NeedsRecordReview(c))
<1> DEFINE read == r.status = "success" /\ r.text # ""
           score == IF read THEN RelevanceScore(r) ELSE 0
           label == IF ~read THEN "irrelevant"
                    ELSE IF score >= 700 THEN "likely_relevant"
                    ELSE IF score >= 350 THEN "maybe_relevant"
                    ELSE "irrelevant"
           c == Classified(r)
<1>1. c = [r EXCEPT !.score = score, !.label = label]
  BY DEF Classified
<1>2. label = "maybe_relevant" => read
  <2> HIDE DEF read, score
  <2> QED
    OBVIOUS
<1> HIDE DEF label, score, c
<1>3. /\ DOMAIN c = DOMAIN r /\ c.review = r.review /\ c.label = label
      /\ c.status = r.status /\ c.text = r.text
  <2> HIDE DEF read
  <2> QED
    BY <1>1 DEF Unreviewed, RecordFields
<1>4. c.label = "maybe_relevant" => NeedsRecordReview(c)
  BY <1>2, <1>3 DEF NeedsRecordReview
<1> QED
  BY <1>3, <1>4 DEF c, Unreviewed

\* The outcome of a review stays with the record, whatever its label becomes.
LEMMA ReviewedIs ==
  ASSUME NEW c, Unreviewed(c), NEW rev, NEW b, b = c \/ \E w : b = Relabelled(c, w)
  PROVE  LET r == [b EXCEPT !.review = <<rev>>]
         IN  r.review = <<rev>> /\ r.trust = c.trust
<1> DEFINE r == [b EXCEPT !.review = <<rev>>]
<1>1. b = c \/ \E x, y : b = [c EXCEPT !.label = x, !.score = y]
  BY Zenon DEF Relabelled
<1>2. DOMAIN b = DOMAIN c /\ b.trust = c.trust
  <2>1. ASSUME NEW x, NEW y, b = [c EXCEPT !.label = x, !.score = y]
        PROVE  DOMAIN b = DOMAIN c /\ b.trust = c.trust
    BY <2>1 DEF Unreviewed, RecordFields
  <2> QED
    BY <1>1, <2>1
<1> QED
  BY <1>2 DEF Unreviewed, RecordFields

\* What comes of a question about a record.
LEMMA JudgeRecordTells ==
  ASSUME NEW l, Budgeted(l), NEW c, NEW first, NEW second
  PROVE  LET o == JudgeRecord(l, c, first, second)
         IN  /\ Budgeted(o.llm) /\ After(l, o.llm) /\ CapTold(o.reason, o.llm)
             /\ c.trust = "trusted" \/ o.reason \in {"site_not_trusted", "llm_disabled"}
<1> DEFINE o == JudgeRecord(l, c, first, second)
           question == "content_review"
<1>1. After(l, l)
  BY DEF After, Budgeted
<1>2. CASE LlmEnabled /\ c.trust # "trusted"
  <2>1. o.llm = l /\ o.reason = "site_not_trusted"
    BY <1>2 DEF JudgeRecord, Outcome
  <2>2. \A m : CapTold("site_not_trusted", m)
    BY DEF CapTold
  <2> QED
    BY <2>1, <2>2, <1>1
<1>3. CASE ~(LlmEnabled /\ c.trust # "trusted")
  <2>1. o = Ask(l, question, first, second)
    BY <1>3 DEF JudgeRecord
  <2>2. Budgeted(o.llm) /\ After(l, o.llm) /\ CapTold(o.reason, o.llm)
    <3> HIDE DEF question, o
    <3> QED
      BY <2>1, AskKeepsBudget
  <2>3. ~LlmEnabled => o.reason = "llm_disabled"
    BY <2>1 DEF Ask, Outcome
  <2> QED
    BY <1>3, <2>2, <2>3
<1> QED
  BY <1>2, <1>3

\* The shape of what is known of a company.
StudyForm(s) ==
  s = [company |-> s.company, todo |-> s.todo, surface |-> s.surface, opened |-> s.opened,
       pending |-> s.pending, heard |-> s.heard, validated |-> s.validated, plans |-> s.plans,
       probed |-> s.probed, trusted |-> s.trusted, records |-> s.records, next |-> s.next,
       cards |-> s.cards, refresh |-> s.refresh]

Before == {"start", "gate", "crawl"}

\* The calls are accounted for; the records are reviewed one by one, in their
\* order; and the cards are those of the records.
ReviewInv ==
  /\ Budgeted(llm)
  /\ phase \in Before \cup {"check", "review", "end"}
  /\ StudyForm(study) /\ IsList(study.records) /\ study.next \in Nat \ {0}
  /\ \A i \in DOMAIN study.records : IF i < study.next THEN Done(study.records[i], llm)
                                     ELSE Unreviewed(study.records[i])
  /\ phase \in Before => study.records = <<>>
  /\ phase \in Before \cup {"check"} => study.next = 1
  /\ phase = "end" => \/ study.records = <<>>
                      \/ /\ study.next > Len(study.records)
                         /\ \E p : study.cards = LeadCards(study.records, p)

\* The invariant says what the property says.
LEMMA ReviewInvSuffices == ReviewInv => ReviewsAddUp
<1> SUFFICES ASSUME ReviewInv PROVE ReviewsAddUp
  OBVIOUS
<1> DEFINE recs == study.records
           Card(r) == {i \in DOMAIN study.cards : study.cards[i].key = CardKey(r)}
<1>1. /\ llm.made <= RunCap /\ llm.mine <= CompanyCap /\ llm.mine <= llm.made
      /\ llm.known + llm.unknown = llm.mine
      /\ llm.cost = IF llm.unknown > 0 THEN Unknown ELSE llm.known
  BY DEF ReviewInv, Budgeted
<1>2. ASSUME phase = "end", NEW i \in DOMAIN recs
      PROVE  /\ Done(recs[i], llm)
             /\ Cardinality(Card(recs[i])) <= 1
             /\ MayLead(recs[i]) => Cardinality(Card(recs[i])) = 1
  <2>1. IsList(recs) /\ DOMAIN recs = 1..Len(recs) /\ Len(recs) \in Nat
    <3>1. IsList(recs)
      BY DEF ReviewInv
    <3>2. recs \in Seq(ToSet(recs))
      BY <3>1 DEF IsList
    <3> HIDE DEF recs
    <3> QED
      BY <3>1, <3>2, LenProperties
  <2>2. recs # <<>>
    <3> SUFFICES ASSUME recs = <<>> PROVE FALSE
      OBVIOUS
    <3> QED
      BY <1>2
  <2>3. study.next > Len(recs) /\ study.next \in Nat
    BY <1>2, <2>2 DEF ReviewInv
  <2>4. PICK p : study.cards = LeadCards(recs, p)
    BY <1>2, <2>2 DEF ReviewInv
  <2>5. i < study.next
    BY <2>1, <2>3, <1>2
  <2>6. Done(recs[i], llm)
    BY <2>5, <1>2 DEF ReviewInv
  <2>7. /\ Cardinality(Card(recs[i])) <= 1
        /\ MayLead(recs[i]) => Cardinality(Card(recs[i])) = 1
    <3> HIDE DEF recs
    <3> QED
      BY <2>1, <2>4, <1>2, CardsAddUp
  <2> QED
    BY <2>6, <2>7
<1> HIDE DEF Card
<1>3. phase = "end" => \A i \in DOMAIN recs :
           /\ recs[i].label = "maybe_relevant" => recs[i].review # <<>>
           /\ recs[i].review # <<>> =>
                /\ \/ recs[i].trust = "trusted"
                   \/ recs[i].review[1].reason \in {"site_not_trusted", "llm_disabled"}
                /\ recs[i].review[1].reason = "run_cap_exhausted" => llm.made >= RunCap
                /\ recs[i].review[1].reason = "company_cap_exhausted" => llm.mine >= CompanyCap
           /\ Cardinality(Card(recs[i])) <= 1
           /\ MayLead(recs[i]) => Cardinality(Card(recs[i])) = 1
  BY <1>2 DEF Done, CapTold
<1> QED
  BY <1>1, <1>3, Zenon DEF ReviewsAddUp, Card

\* Before anything is done.
LEMMA ReviewInit == Init => ReviewInv
<1> SUFFICES ASSUME Init PROVE ReviewInv
  OBVIOUS
<1>1. study = NewStudy(Nobody) /\ llm = NewBudget /\ phase \in Before
  BY DEF Init, Before
<1>2. StudyForm(study) /\ study.records = <<>> /\ study.next = 1
  BY <1>1 DEF NewStudy, StudyForm
<1>3. Budgeted(llm)
  <2>1. /\ llm = [made |-> 0, mine |-> 0, known |-> 0, unknown |-> 0, cost |-> 0]
    BY <1>1 DEF NewBudget
  <2> QED
    BY <2>1, ContentReviewAssumption DEF Budgeted
<1>4. DOMAIN study.records = {} /\ IsList(study.records)
  BY <1>2, NoMembers
<1> QED
  BY <1>1, <1>2, <1>3, <1>4 DEF ReviewInv, Before

\* Done stays done when more calls are made.
LEMMA DoneGoesOn ==
  ASSUME NEW r, NEW l, NEW m, Budgeted(l), Budgeted(m), After(l, m), Done(r, l)
  PROVE  Done(r, m)
<1>1. CapTold(r.review[1].reason, l) => CapTold(r.review[1].reason, m)
  <2>1. /\ l.made \in Nat /\ l.mine \in Nat /\ m.made \in Nat /\ m.mine \in Nat
        /\ m.made >= l.made /\ m.mine >= l.mine /\ RunCap \in Nat /\ CompanyCap \in Nat
    BY ContentReviewAssumption DEF Budgeted, After
  <2>2. l.made >= RunCap => m.made >= RunCap
    BY <2>1
  <2>3. l.mine >= CompanyCap => m.mine >= CompanyCap
    BY <2>1
  <2> QED
    BY <2>2, <2>3 DEF CapTold
<1> QED
  BY <1>1 DEF Done

\* A step that leaves the records as they are.
LEMMA ReviewGoesOn ==
  ASSUME ReviewInv, Budgeted(llm'), After(llm, llm'), StudyForm(study'),
         study'.records = study.records, study'.next = study.next,
         phase' \in Before \cup {"check", "review", "end"},
         phase' \in Before => phase \in Before,
         phase' \in Before \cup {"check"} => phase \in Before \cup {"check"},
         phase' = "end" => \/ study.records = <<>>
                           \/ phase = "end" /\ study'.cards = study.cards
  PROVE  ReviewInv'
<1>1. Budgeted(llm)' /\ StudyForm(study)' /\ IsList(study.records)'
  BY DEF ReviewInv
<1>2. \A i \in DOMAIN study.records : IF i < study.next THEN Done(study.records[i], llm')
                                      ELSE Unreviewed(study.records[i])
  BY DoneGoesOn DEF ReviewInv
<1> QED
  BY <1>1, <1>2 DEF ReviewInv

\* The calls made are those made.
LEMMA NoCall == ASSUME NEW l, Budgeted(l) PROVE After(l, l)
BY DEF Budgeted, After

\* A company is taken up.
LEMMA ChooseSitesKeepsReview == ASSUME ReviewInv, NEW c, ChooseSites(c) PROVE ReviewInv'
<1>1. /\ phase = "start" /\ phase' = "gate" /\ llm' = llm
      /\ study' = [NewStudy(c) EXCEPT !.todo = ChooseCandidateSites(c.claims)]
  BY DEF ChooseSites
<1>2. StudyForm(study') /\ study'.records = <<>> /\ study'.next = 1
  BY <1>1 DEF NewStudy, StudyForm
<1>3. study.records = <<>> /\ study.next = 1 /\ Budgeted(llm)
  BY <1>1 DEF ReviewInv, Before
<1>4. Budgeted(llm') /\ After(llm, llm')
  BY <1>1, <1>3, NoCall
<1>5. /\ phase' \in Before \cup {"check", "review", "end"} /\ phase \in Before
      /\ phase' # "end"
  BY <1>1 DEF Before
<1> QED
  BY <1>2, <1>3, <1>4, <1>5, ReviewGoesOn

\* The gate looks at a site.
LEMMA SurfaceCheckKeepsReview == ASSUME ReviewInv, SurfaceCheck PROVE ReviewInv'
<1>1. /\ phase = "gate" /\ phase' = phase /\ llm' = llm
      /\ \E x, y, z : study' = [study EXCEPT !.todo = x, !.surface = y, !.opened = z]
  BY Zenon DEF SurfaceCheck
<1>2. StudyForm(study) /\ Budgeted(llm)
  BY DEF ReviewInv
<1>3. StudyForm(study') /\ study'.records = study.records /\ study'.next = study.next
  BY <1>1, <1>2 DEF StudyForm
<1>4. Budgeted(llm') /\ After(llm, llm')
  BY <1>1, <1>2, NoCall
<1>5. /\ phase' \in Before \cup {"check", "review", "end"} /\ phase \in Before
      /\ phase' # "end"
  BY <1>1 DEF Before
<1> QED
  BY <1>3, <1>4, <1>5, ReviewGoesOn

\* The gate closes.
LEMMA AdmitSitesKeepsReview == ASSUME ReviewInv, NEW signal, AdmitSites(signal) PROVE ReviewInv'
<1> DEFINE next(x, y, z, w) ==
             [study EXCEPT !.pending = x, !.validated = y, !.surface = z, !.opened = w]
           closed(x, y, z, w, t) ==
             [next(x, y, z, w) EXCEPT !.trusted = t]
<1>1. /\ phase = "gate" /\ phase' \in {"end", "crawl"} /\ llm' = llm
      /\ \E x, y, z, w : \/ study' = next(x, y, z, w)
                         \/ \E t : study' = closed(x, y, z, w, t)
  <2> DEFINE deep == IF SkipDeepParse(signal, AllowedBuckets) THEN <<>>
                     ELSE [i \in DOMAIN study.opened |-> SiteKey(study.opened[i])]
             all == study.surface \o study.opened
             pend == PendingOf(all, ToSet(deep))
             valid == Those({i \in DOMAIN all : SiteKey(all[i]) \notin ToSet(deep)}, all)
             told == TrustedContacts(Claims, next(pend, valid, <<>>, deep).validated)
  <2>1. /\ phase = "gate" /\ llm' = llm
        /\ \/ phase' = "end" /\ study' = closed(pend, valid, <<>>, deep, told)
           \/ phase' = "crawl" /\ study' = next(pend, valid, <<>>, deep)
    BY Zenon DEF AdmitSites
  <2> HIDE DEF told, pend, valid, deep, next, closed
  <2>2. phase' \in {"end", "crawl"}
    BY <2>1
  <2>3. \E x, y, z, w : \/ study' = next(x, y, z, w)
                        \/ \E t : study' = closed(x, y, z, w, t)
    BY <2>1, Zenon
  <2> QED
    BY <2>1, <2>2, <2>3
<1>2. StudyForm(study) /\ Budgeted(llm)
  BY DEF ReviewInv
<1>3. StudyForm(study') /\ study'.records = study.records /\ study'.next = study.next
  <2>1. PICK x, y, z, w : \/ study' = next(x, y, z, w)
                          \/ \E t : study' = closed(x, y, z, w, t)
    BY <1>1
  <2> DEFINE n == next(x, y, z, w)
  <2>2. StudyForm(n) /\ n.records = study.records /\ n.next = study.next
    <3>1. StudyForm(study)
      BY <1>2
    <3>2. n = [study EXCEPT !.pending = x, !.validated = y, !.surface = z, !.opened = w]
      OBVIOUS
    <3> HIDE DEF n
    <3> QED
      BY ONLY <3>1, <3>2 DEF StudyForm
  <2>3. study' = n \/ \E t : study' = [n EXCEPT !.trusted = t]
    BY <2>1
  <2> HIDE DEF n
  <2>4. ASSUME NEW t, study' = [n EXCEPT !.trusted = t]
        PROVE  StudyForm(study') /\ study'.records = n.records /\ study'.next = n.next
    BY <2>2, <2>4 DEF StudyForm
  <2> QED
    BY <2>2, <2>3, <2>4
<1> HIDE DEF next, closed
<1>4. Budgeted(llm') /\ After(llm, llm')
  BY <1>1, <1>2, NoCall
<1>5. /\ phase' \in Before \cup {"check", "review", "end"} /\ phase \in Before
      /\ study.records = <<>>
  BY <1>1 DEF Before, ReviewInv
<1> QED
  BY <1>3, <1>4, <1>5, ReviewGoesOn

\* The parser's records are taken over, unreviewed.
LEMMA ParserReturnsKeepsReview ==
  ASSUME ReviewInv, IsList(result.recs), ParserReturns
  PROVE  ReviewInv'
<1> DEFINE recs == [i \in DOMAIN result.recs |->
                      [site |-> result.recs[i].site, url |-> result.recs[i].url,
                       family |-> result.recs[i].family, kind |-> result.recs[i].kind,
                       text |-> result.recs[i].text, status |-> result.recs[i].status,
                       trust |-> result.recs[i].trust, label |-> "unknown", score |-> 0,
                       review |-> <<>>]]
<1>1. /\ phase = "crawl" /\ phase' = "check" /\ llm' = llm
      /\ \E x, y : study' = [study EXCEPT !.plans = x, !.probed = y, !.records = recs]
  BY Zenon DEF ParserReturns
<1>2. StudyForm(study) /\ Budgeted(llm) /\ study.next = 1
  BY <1>1 DEF ReviewInv, Before
<1>3. \A i \in DOMAIN recs : Unreviewed(recs[i])
  BY DEF Unreviewed, RecordFields
<1>4. IsList(recs) /\ DOMAIN recs \subseteq Nat /\ \A i \in DOMAIN recs : i >= 1
  <2>1. DOMAIN result.recs = 1..Len(result.recs) /\ Len(result.recs) \in Nat
    <3>1. result.recs \in Seq(ToSet(result.recs))
      BY DEF IsList
    <3> QED
      BY <3>1, LenProperties
  <2>2. DOMAIN recs = 1..Len(result.recs) /\ recs \in [1..Len(result.recs) -> ToSet(recs)]
    BY <2>1 DEF ToSet
  <2> HIDE DEF recs
  <2>3. recs \in Seq(ToSet(recs))
    BY <2>1, <2>2
  <2> QED
    BY <2>1, <2>2, <2>3 DEF IsList
<1> HIDE DEF recs
<1>5. StudyForm(study') /\ study'.records = recs /\ study'.next = 1
  BY <1>1, <1>2 DEF StudyForm
<1>6. \A i \in DOMAIN recs : ~(i < 1)
  BY <1>4
<1>7. phase' \in Before \cup {"check", "review", "end"} /\ phase' \notin Before /\ phase' # "end"
  BY <1>1 DEF Before
<1> QED
  BY <1>1, <1>2, <1>3, <1>4, <1>5, <1>6, <1>7 DEF ReviewInv

\* What is heard of a site costs calls at most.
LEMMA AnalyzedKeepsBudget ==
  ASSUME Budgeted(llm), NEW d, NEW e, NEW first, NEW second
  PROVE  /\ Budgeted(Analyzed(d, e, first, second).llm)
         /\ After(llm, Analyzed(d, e, first, second).llm)
<1> DEFINE a == Analyzed(d, e, first, second)
           question == <<d.final, e, d.phones, d.emails>>
           o == AskAbout(question, first, second)
           kind == "site_decision"
<1>1. a.llm = llm \/ a.llm = o.llm
  BY DEF Analyzed
<1>2. o.llm = llm \/ o = Ask(llm, kind, first, second)
  <2> HIDE DEF question
  <2> QED
    BY DEF AskAbout, Outcome
<1> HIDE DEF a, o, kind
<1> QED
  BY <1>1, <1>2, AskKeepsBudget, NoCall DEF a

\* A planned site is settled, with the gate's decision or by a full check.
LEMMA SitesKeepReview ==
  ASSUME ReviewInv, KeepSurface \/ CheckSite
  PROVE  ReviewInv'
<1>1. StudyForm(study) /\ Budgeted(llm)
  BY DEF ReviewInv
<1>2. /\ phase = "check" /\ phase' = phase
      /\ \/ llm' = llm
         \/ \E d, e, first, second : llm' = Analyzed(d, e, first, second).llm
      /\ \E x, y, z, w : study' = [study EXCEPT !.plans = x, !.pending = y, !.validated = z,
                                                !.heard = w]
  <2> DEFINE kept(x, y, z) == [study EXCEPT !.plans = x, !.pending = y, !.validated = z]
             full(x, y, z, w) == [study EXCEPT !.plans = x, !.pending = y, !.validated = z,
                                               !.heard = w]
  <2>1. CASE KeepSurface
    <3>1. /\ phase = "check" /\ phase' = phase /\ llm' = llm
          /\ \E x, y, z : study' = kept(x, y, z)
      BY <2>1, Zenon DEF KeepSurface
    <3>2. ASSUME NEW x, NEW y, NEW z PROVE kept(x, y, z) = full(x, y, z, study.heard)
      BY <1>1 DEF StudyForm
    <3> HIDE DEF kept, full
    <3>3. \E x, y, z, w : study' = full(x, y, z, w)
      BY <3>1, <3>2, Zenon
    <3> QED
      BY <3>1, <3>3 DEF full
  <2>2. CASE CheckSite
    <3> DEFINE key == KeyOf[Head(study.plans).site]
               Decided(d, heard) ==
                 study' = full(Tail(study.plans), Waiting(key), Append(study.validated, d),
                               study.heard \o heard)
    <3>1. /\ phase = "check" /\ phase' = phase
          /\ \E p \in FrontPage[key], more \in SUBSET Extra[key] :
               \/ /\ p.status # "success" /\ llm' = llm
                  /\ Decided(AnalyzeByRules(key, p, more, Claims), <<>>)
               \/ /\ p.status = "success"
                  /\ \E first \in Answers : \E second \in Seconds("site_decision", first) :
                     \E e \in {Evaluated(WithExtraPages(Shown(p), more), Claims)} :
                     \E a \in {Analyzed(AnalyzeByRules(key, p, more, Claims), e, first, second)} :
                       Decided(a.decision, a.heard) /\ llm' = a.llm
      BY <2>2, Zenon DEF CheckSite
    <3> HIDE DEF full, key
    <3>2. PICK p \in FrontPage[key], more \in SUBSET Extra[key] :
               \/ /\ p.status # "success" /\ llm' = llm
                  /\ Decided(AnalyzeByRules(key, p, more, Claims), <<>>)
               \/ /\ p.status = "success"
                  /\ \E first \in Answers : \E second \in Seconds("site_decision", first) :
                     \E e \in {Evaluated(WithExtraPages(Shown(p), more), Claims)} :
                     \E a \in {Analyzed(AnalyzeByRules(key, p, more, Claims), e, first, second)} :
                       Decided(a.decision, a.heard) /\ llm' = a.llm
      BY <3>1, Zenon
    <3>3. \E d, h : Decided(d, h)
      BY <3>2, Zenon
    <3>4. \/ llm' = llm
          \/ \E d, e, first, second : llm' = Analyzed(d, e, first, second).llm
      BY <3>2, Zenon
    <3>5. \E x, y, z, w : study' = full(x, y, z, w)
      BY <3>3, Zenon
    <3> QED
      BY <3>1, <3>4, <3>5 DEF full
  <2> QED
    BY <2>1, <2>2
<1>3. StudyForm(study') /\ study'.records = study.records /\ study'.next = study.next
  BY <1>1, <1>2 DEF StudyForm
<1>4. Budgeted(llm') /\ After(llm, llm')
  BY <1>1, <1>2, NoCall, AnalyzedKeepsBudget
<1>5. /\ phase' \in Before \cup {"check", "review", "end"} /\ phase' = phase
      /\ phase' # "end"
  BY <1>2 DEF Before
<1> QED
  BY <1>3, <1>4, <1>5, ReviewGoesOn

\* The checks are over.
LEMMA EndChecksKeepsReview == ASSUME ReviewInv, EndChecks PROVE ReviewInv'
<1>1. /\ phase = "check" /\ phase' = "review" /\ llm' = llm
      /\ \E x, y, z, w : study' = [study EXCEPT !.validated = x, !.pending = y, !.heard = z,
                                                !.trusted = w]
  BY Zenon DEF EndChecks
<1>2. StudyForm(study) /\ Budgeted(llm)
  BY DEF ReviewInv
<1>3. StudyForm(study') /\ study'.records = study.records /\ study'.next = study.next
  BY <1>1, <1>2 DEF StudyForm
<1>4. Budgeted(llm') /\ After(llm, llm')
  BY <1>1, <1>2, NoCall
<1>5. /\ phase' \in Before \cup {"check", "review", "end"} /\ phase' \notin Before \cup {"check"}
      /\ phase' # "end"
  BY <1>1 DEF Before
<1> QED
  BY <1>3, <1>4, <1>5, ReviewGoesOn

\* A record of the study is reviewed: it becomes r, and the next one is up.
LEMMA RecordReviewed ==
  ASSUME ReviewInv, phase = "review", phase' = "review", study.next \in DOMAIN study.records,
         Budgeted(llm'), After(llm, llm'), NEW r, Done(r, llm'),
         study' = [study EXCEPT !.next = study.next + 1,
                                !.records = [study.records EXCEPT ![study.next] = r]]
  PROVE  ReviewInv'
<1> DEFINE i == study.next
           old == study.records
           new == [old EXCEPT ![i] = r]
<1>1. StudyForm(study) /\ IsList(old) /\ i \in Nat \ {0} /\ Budgeted(llm)
  BY DEF ReviewInv
<1>2. DOMAIN old = 1..Len(old) /\ Len(old) \in Nat
  <2> HIDE DEF old
  <2>1. old \in Seq(ToSet(old))
    BY <1>1 DEF IsList
  <2> QED
    BY <2>1, LenProperties
<1>3. \A k \in DOMAIN old : IF k < i THEN Done(old[k], llm) ELSE Unreviewed(old[k])
  BY DEF ReviewInv
<1>4. i \in DOMAIN old
  OBVIOUS
<1>5. study' = [study EXCEPT !.next = i + 1, !.records = new]
  OBVIOUS
<1> HIDE DEF new, old, i
<1>6. StudyForm(study') /\ study'.next = i + 1 /\ study'.records = new
  BY <1>1, <1>5 DEF StudyForm
<1>7. IsList(new) /\ DOMAIN new = DOMAIN old
  <2>1. new \in [1..Len(old) -> ToSet(old) \cup {r}]
    <3>1. old \in Seq(ToSet(old))
      BY <1>1 DEF IsList
    <3>2. old \in [1..Len(old) -> ToSet(old)]
      BY <3>1
    <3> QED
      BY <3>2, <1>4 DEF new
  <2>2. new \in [1..Len(old) -> ToSet(new)]
    BY <2>1 DEF ToSet
  <2>3. new \in Seq(ToSet(new))
    BY <2>2, <1>2
  <2> QED
    BY <2>1, <2>3, <1>2 DEF IsList
<1>8. ASSUME NEW k \in DOMAIN new
      PROVE  IF k < i + 1 THEN Done(new[k], llm') ELSE Unreviewed(new[k])
  <2>1. k \in DOMAIN old /\ k \in Nat
    BY <1>7, <1>2
  <2>2. CASE k = i
    <3>1. new[k] = r
      BY <2>2, <1>4 DEF new
    <3>2. k < i + 1
      BY <2>1, <2>2, <1>1
    <3> QED
      BY <3>1, <3>2
  <2>3. CASE k < i
    <3>1. new[k] = old[k]
      BY <2>3, <2>1, <1>1 DEF new
    <3>2. Done(old[k], llm')
      BY <2>1, <2>3, <1>1, <1>3, DoneGoesOn
    <3>3. k < i + 1
      BY <2>1, <2>3, <1>1
    <3> QED
      BY <3>1, <3>2, <3>3
  <2>4. CASE ~(k = i) /\ ~(k < i)
    <3>1. new[k] = old[k]
      BY <2>4, <2>1 DEF new
    <3>2. ~(k < i + 1)
      BY <2>1, <2>4, <1>1
    <3> QED
      BY <3>1, <3>2, <2>1, <2>4, <1>3
  <2> QED
    BY <2>2, <2>3, <2>4
<1>9. phase' \notin Before \cup {"check"} /\ phase' # "end" /\ phase' \in {"review"}
  BY DEF Before
<1>10. i + 1 \in Nat \ {0}
  BY <1>1
<1> QED
  BY <1>6, <1>7, <1>8, <1>9, <1>10 DEF ReviewInv

\* The next record is reviewed.
LEMMA ReviewRecordKeepsReview == ASSUME ReviewInv, ReviewRecord PROVE ReviewInv'
<1> DEFINE i == study.next
           becomes(r) == [study EXCEPT !.next = study.next + 1,
                                       !.records = [study.records EXCEPT ![study.next] = r]]
           reviewed(b, o) == [b EXCEPT !.review = <<[status |-> o.status, reason |-> o.reason]>>]
<1>1. /\ phase = "review" /\ phase' = "review" /\ i \in DOMAIN study.records
      /\ \E r \in {Classified(study.records[i])} :
           \/ ~NeedsRecordReview(r) /\ study' = becomes(r) /\ llm' = llm
           \/ \E first \in Answers : \E second \in Seconds("content_review", first) :
              \E o \in {JudgeRecord(llm, r, first, second)} :
                /\ llm' = o.llm
                /\ study' = becomes(reviewed(IF o.word = <<>> THEN r
                                             ELSE Relabelled(r, o.word[1]), o))
  BY Zenon DEF ReviewRecord
<1> HIDE DEF becomes, reviewed
<1>2. PICK r : r = Classified(study.records[i]) /\
           (\/ ~NeedsRecordReview(r) /\ study' = becomes(r) /\ llm' = llm
            \/ \E first, second : \E o \in {JudgeRecord(llm, r, first, second)} :
                /\ llm' = o.llm
                /\ study' = becomes(reviewed(IF o.word = <<>> THEN r
                                             ELSE Relabelled(r, o.word[1]), o)))
  BY <1>1, Zenon
<1>3. Budgeted(llm) /\ Unreviewed(study.records[i])
  <2>1. ~(i < i)
    BY DEF ReviewInv
  <2> QED
    BY <1>1, <2>1 DEF ReviewInv
<1>4. Unreviewed(r) /\ (r.label = "maybe_relevant" => NeedsRecordReview(r))
  BY <1>2, <1>3, ClassifiedIs
<1>5. CASE ~NeedsRecordReview(r) /\ study' = becomes(r) /\ llm' = llm
  <2>1. Done(r, llm')
    BY <1>4, <1>5 DEF Done, Unreviewed
  <2>2. Budgeted(llm') /\ After(llm, llm')
    BY <1>3, <1>5, NoCall
  <2> QED
    BY <1>1, <1>5, <2>1, <2>2, RecordReviewed DEF becomes
<1>6. ASSUME NEW first, NEW second, NEW o, o = JudgeRecord(llm, r, first, second),
             llm' = o.llm,
             study' = becomes(reviewed(IF o.word = <<>> THEN r
                                       ELSE Relabelled(r, o.word[1]), o))
      PROVE  ReviewInv'
  <2> DEFINE b == IF o.word = <<>> THEN r ELSE Relabelled(r, o.word[1])
             rev == [status |-> o.status, reason |-> o.reason]
             d == [b EXCEPT !.review = <<rev>>]
  <2>1. /\ Budgeted(llm') /\ After(llm, llm') /\ CapTold(o.reason, llm')
        /\ r.trust = "trusted" \/ o.reason \in {"site_not_trusted", "llm_disabled"}
    BY <1>3, <1>6, JudgeRecordTells
  <2>2. b = r \/ \E w : b = Relabelled(r, w)
    BY Zenon
  <2>3. rev.reason = o.reason
    OBVIOUS
  <2>4. study' = becomes(d)
    BY <1>6 DEF reviewed
  <2> HIDE DEF b, rev
  <2>5. d.review = <<rev>> /\ d.trust = r.trust
    BY <1>4, <2>2, ReviewedIs
  <2> HIDE DEF d
  <2>6. d.review[1] = rev /\ d.review # <<>>
    BY <2>5
  <2>7. Done(d, llm')
    BY <2>1, <2>3, <2>5, <2>6 DEF Done
  <2> QED
    BY <1>1, <2>1, <2>4, <2>7, RecordReviewed DEF becomes
<1> QED
  BY <1>2, <1>5, <1>6

\* The cards are made.
LEMMA FinishKeepsReview == ASSUME ReviewInv, Finish PROVE ReviewInv'
<1>1. /\ phase = "review" /\ phase' = "end" /\ llm' = llm
      /\ study.next > Len(study.records)
      /\ \E z : study' = [study EXCEPT !.cards = LeadCards(study.records, Primary), !.refresh = z]
  BY Zenon DEF Finish
<1> DEFINE cards == LeadCards(study.records, Primary)
<1>2. StudyForm(study) /\ Budgeted(llm)
  BY DEF ReviewInv
<1>3. \E z : study' = [study EXCEPT !.cards = cards, !.refresh = z]
  BY <1>1
<1> HIDE DEF cards
<1>4. /\ StudyForm(study') /\ study'.records = study.records /\ study'.next = study.next
      /\ study'.cards = cards
  BY <1>2, <1>3 DEF StudyForm
<1>5. \E p : study'.cards = LeadCards(study'.records, p)
  BY <1>4, Zenon DEF cards
<1>6. Budgeted(llm') /\ \A i \in DOMAIN study.records :
         IF i < study.next THEN Done(study.records[i], llm') ELSE Unreviewed(study.records[i])
  BY <1>1, <1>2 DEF ReviewInv
<1>7. phase' \notin Before \cup {"check"} /\ phase' \in {"end"}
  BY <1>1 DEF Before
<1> QED
  BY <1>1, <1>4, <1>5, <1>6, <1>7 DEF ReviewInv

\* Calls are made for other companies.
LEMMA OthersAskKeepsReview == ASSUME ReviewInv, OthersAsk PROVE ReviewInv'
<1>1. /\ phase \in {"check", "review"} /\ phase' = phase /\ study' = study
      /\ llm.made + OthersCalls <= RunCap
      /\ llm' = [llm EXCEPT !.made = llm.made + OthersCalls]
  BY DEF OthersAsk
<1>2. StudyForm(study) /\ Budgeted(llm)
  BY DEF ReviewInv
<1>3. Budgeted(llm') /\ After(llm, llm')
  <2>1. llm = [made |-> llm.made, mine |-> llm.mine, known |-> llm.known,
               unknown |-> llm.unknown, cost |-> llm.cost]
    BY <1>2 DEF Budgeted
  <2>2. llm' = [made |-> llm.made + OthersCalls, mine |-> llm.mine, known |-> llm.known,
                unknown |-> llm.unknown, cost |-> llm.cost]
    BY <1>1, <2>1
  <2>3. OthersCalls \in Nat
    BY CompanySitesAssumption
  <2> QED
    BY <1>1, <1>2, <2>2, <2>3 DEF Budgeted, After
<1>4. /\ phase' \in Before \cup {"check", "review", "end"} /\ phase' = phase
      /\ phase' # "end"
  BY <1>1 DEF Before
<1> QED
  BY <1>1, <1>2, <1>3, <1>4, ReviewGoesOn

\* A step that is not about the review.
LEMMA ReviewUnchanged ==
  ASSUME ReviewInv, study' = study, llm' = llm, phase' = phase
  PROVE  ReviewInv'
BY DEF ReviewInv

\* Every step keeps the invariant.
LEMMA ReviewNext == ASSUME ReviewInv, GateInv, [Next]_vars PROVE ReviewInv'
<1>1. CASE \E c \in Companies : ChooseSites(c)
  BY <1>1, ChooseSitesKeepsReview
<1>2. CASE SurfaceCheck
  BY <1>2, SurfaceCheckKeepsReview
<1>3. CASE \E signal \in GeoSignals : AdmitSites(signal)
  BY <1>3, AdmitSitesKeepsReview
<1>4. CASE Crawl
  BY <1>4, ReviewUnchanged DEF Crawl
<1>5. CASE ParserReturns
  <2>1. IsList(result.recs)
    BY DEF GateInv
  <2> QED
    BY <1>5, <2>1, ParserReturnsKeepsReview
<1>6. CASE KeepSurface \/ CheckSite
  BY <1>6, SitesKeepReview
<1>7. CASE EndChecks
  BY <1>7, EndChecksKeepsReview
<1>8. CASE ReviewRecord
  BY <1>8, ReviewRecordKeepsReview
<1>9. CASE Finish \/ OthersAsk
  BY <1>9, FinishKeepsReview, OthersAskKeepsReview
<1>10. CASE UNCHANGED vars
  BY <1>10, ReviewUnchanged DEF vars
<1> QED
  BY <1>1, <1>2, <1>3, <1>4, <1>5, <1>6, <1>7, <1>8, <1>9, <1>10, Zenon DEF Next

\* Within the caps of the run and of the company whatever the other companies
\* ask, each call with its cost; and once a company is done every record in
\* doubt has its outcome, an untrusted one was never sent, a cap is named only
\* where it was reached, and each relevant finding has the one card
\* (company_enrichment_core.py:4264-4321, 5218-5449, 5899-5939).
THEOREM ReviewsHold == Spec => []ReviewsAddUp
<1>1. Spec => []GateInv
  BY GateInit, GateNext, PTL DEF Spec
<1> QED
  BY <1>1, ReviewInit, ReviewNext, ReviewInvSuffices, PTL DEF Spec

----------------------------------------------------------------------------
(* The document queue, and both budgets *)

\* An empty ledger agrees with a new queue.
LEMMA NewPassFiled ==
  ASSUME NEW e, NEW t
  PROVE  Filed(NewPass(e, t).queue, NewPass(e, t).entries)
<1> DEFINE q == NewQueue
           none == <<>>
           c == [n \in 0..0 |-> 0]
<1>1. NewPass(e, t).queue = q /\ NewPass(e, t).entries = none
  BY DEF NewPass
<1>2. q.urls = {} /\ q.sums = {} /\ q.items = 0 /\ q.bytes = 0 /\ q.types = <<>>
  BY DEF NewQueue
<1>3. none \in Seq(DocEntries) /\ Len(none) = 0 /\ DOMAIN none = {}
  OBVIOUS
<1>4. KeptOf(none) = {} /\ IsFiniteSet(KeptOf(none)) /\ Cardinality(KeptOf(none)) = 0
  BY <1>3, FS_EmptySet DEF KeptOf
<1>5. c \in [0..0 -> Nat] /\ c[0] = 0
  OBVIOUS
<1> HIDE DEF c, none, q
<1>6. IsCharge(c, none)
  BY <1>3, <1>5 DEF IsCharge
<1>7. \E d : IsCharge(d, none) /\ q.bytes = d[Len(none)]
  BY <1>2, <1>3, <1>5, <1>6
<1>8. 0 <= MaxQueueItems /\ 0 <= MaxTotalBytes /\ Len(<<>>) = 0
  BY SiteDocumentsAssumption
<1>9. /\ q.items <= MaxQueueItems /\ q.items = Len(q.types)
      /\ MaxTotalBytes > 0 => q.bytes <= MaxTotalBytes
      /\ Cardinality(KeptOf(none)) <= q.items
  BY <1>2, <1>4, <1>8
<1>10. Filed(q, none)
  BY <1>2, <1>3, <1>4, <1>7, <1>9 DEF Filed
<1> QED
  BY <1>1, <1>10

\* There is one way to add up the bytes.
LEMMA OneCharge ==
  ASSUME NEW s \in Seq(DocEntries), NEW c, IsCharge(c, s), NEW d,
         d[0] = 0, \A n \in 1..Len(s) : d[n] = d[n - 1] + Bytes(s[n])
  PROVE  d[Len(s)] = c[Len(s)]
<1> DEFINE T == {TRUE}
           N == Len(s)
           same == [n \in 0..N |-> d[n] = c[n]]
<1>1. N \in Nat /\ 0 \in 0..N /\ N \in 0..N
  BY LenProperties
<1>2. same[0] \in T
  BY <1>1 DEF IsCharge
<1>3. ASSUME NEW n \in 1..N, same[n - 1] \in T PROVE same[n] \in T
  <2>1. n \in 0..N /\ n - 1 \in 0..N
    BY <1>1
  <2>2. d[n - 1] = c[n - 1]
    BY <2>1, <1>3
  <2>3. d[n] = c[n]
    BY <2>2 DEF IsCharge
  <2> QED
    BY <2>1, <2>3
<1> HIDE DEF same, T, N
<1>4. \A n \in 0..N : same[n] \in T
  BY <1>1, <1>2, <1>3, StaysIn
<1> QED
  BY <1>1, <1>4 DEF same, T, N

\* A queue and a ledger that agree are honest.
LEMMA FiledIsHonest ==
  ASSUME NEW q, NEW s, Filed(q, s)
  PROVE  QueueIsHonest(q, s)
<1> DEFINE kept == {i \in DOMAIN s : s[i].queue # "skipped" /\ s[i].depth = 0}
           dup == {i \in DOMAIN s : s[i].status = "duplicate_checksum"}
           rec(u) == [n \in 0 .. Len(s) |->
                        IF n = 0 THEN 0
                        ELSE u[n - 1] + (IF n \in kept THEN s[n].size ELSE 0)]
           charged == CHOOSE u : u = rec(u)
<1>1. PICK c : IsCharge(c, s) /\ q.bytes = c[Len(s)]
  BY DEF Filed
<1>2. s \in Seq(DocEntries) /\ Len(s) \in Nat /\ DOMAIN s = 1..Len(s)
  BY LenProperties DEF Filed
<1>3. kept = KeptOf(s)
  BY DEF KeptOf, IsKept
<1>4. \A n \in 1..Len(s) : Bytes(s[n]) = IF n \in kept THEN s[n].size ELSE 0
  BY <1>2, <1>3 DEF KeptOf, Bytes
<1> HIDE DEF kept
<1>5. c = rec(c)
  <2>1. /\ c \in [0..Len(s) -> Nat] /\ c[0] = 0
        /\ \A n \in 1..Len(s) : c[n] = c[n - 1] + Bytes(s[n])
    BY <1>1 DEF IsCharge
  <2>2. \A n \in 0..Len(s) : c[n] = IF n = 0 THEN 0
                                    ELSE c[n - 1] + (IF n \in kept THEN s[n].size ELSE 0)
    <3> SUFFICES ASSUME NEW n \in 0..Len(s)
                 PROVE  c[n] = IF n = 0 THEN 0
                               ELSE c[n - 1] + (IF n \in kept THEN s[n].size ELSE 0)
      OBVIOUS
    <3>1. CASE n = 0
      BY <3>1, <2>1
    <3>2. CASE n # 0
      <4>1. n \in 1..Len(s)
        BY <3>2, <1>2
      <4> QED
        BY <4>1, <3>2, <2>1, <1>4
    <3> QED
      BY <3>1, <3>2
  <2> QED
    BY <2>1, <2>2
<1>6. charged = rec(charged)
  BY <1>5
<1> HIDE DEF charged
<1>7. \A n \in 0..Len(s) : charged[n] = IF n = 0 THEN 0
                             ELSE charged[n - 1] + (IF n \in kept THEN s[n].size ELSE 0)
  BY <1>6
<1>8. q.bytes = charged[Len(s)]
  <2>1. charged[0] = 0
    BY <1>2, <1>7
  <2>2. ASSUME NEW n \in 1..Len(s) PROVE charged[n] = charged[n - 1] + Bytes(s[n])
    <3>1. n \in 0..Len(s) /\ n # 0
      BY <1>2
    <3> QED
      BY <3>1, <1>4, <1>7
  <2>3. charged[Len(s)] = c[Len(s)]
    BY <2>1, <2>2, <1>1, <1>2, OneCharge
  <2> QED
    BY <2>3, <1>1
<1>9. /\ MaxTotalBytes > 0 => q.bytes <= MaxTotalBytes
      /\ q.items <= MaxQueueItems /\ q.items = Len(q.types)
      /\ Cardinality(kept) <= q.items
  BY <1>3 DEF Filed
<1>10. \A i, j \in kept : i # j => /\ s[i].url # s[j].url
                                   /\ s[i].sum = "" \/ s[i].sum # s[j].sum
  BY <1>3 DEF Filed, Unsummed
<1>11. \A i \in dup : \E j \in kept : j < i /\ s[j].sum = s[i].sum
  BY <1>3 DEF Filed, IsDouble
<1>12. \A i \in DOMAIN s : s[i].depth <= MaxArchiveDepth
  BY DEF Filed
<1> QED
  BY Zenon, <1>8, <1>9, <1>10, <1>11, <1>12 DEF QueueIsHonest, charged, kept

\* The queue of the pass in hand and its ledger agree.
DocumentInv == Filed(crawl.queue, crawl.entries)

\* A step that leaves both.
LEMMA QueueStays ==
  ASSUME DocumentInv, crawl'.queue = crawl.queue, crawl'.entries = crawl.entries
  PROVE  DocumentInv'
BY DEF DocumentInv

\* A step that begins a pass.
LEMMA PassBegins ==
  ASSUME NEW e, NEW t, crawl' = NewPass(e, t)
  PROVE  DocumentInv'
BY NewPassFiled DEF DocumentInv

\* An answer brings documents that the queue is settled by.
LEMMA DocumentedFiled ==
  ASSUME DocumentInv, NEW u \in DOMAIN Serve, NEW a \in Serve[u], NEW r, r.url = u, NEW dead,
         crawl.queue \in QueueType
  PROVE  Filed(Documented(r, a, dead).queue, crawl.entries \o Documented(r, a, dead).entries)
<1>1. (a.file # "" => u \in DOMAIN File) /\ a.links \in Seq(DOMAIN File)
  BY SiteCrawlAssumption
<1> DEFINE nothing == [queue |-> crawl.queue, entries |-> <<>>]
           s == crawl.entries
<1>2. nothing.queue = crawl.queue /\ nothing.entries = <<>>
  OBVIOUS
<1>3. \/ Documented(r, a, dead) = nothing
      \/ a.file # "" /\ Documented(r, a, dead) = CollectDirect(crawl.queue, u)
      \/ Documented(r, a, dead) = CollectLinks(crawl.queue, a.links, dead)
  BY Zenon DEF Documented
<1>4. Filed(crawl.queue, s) /\ s \in Seq(DocEntries)
  BY DEF DocumentInv, Filed
<1> HIDE DEF nothing, s
<1>5. CASE Documented(r, a, dead) = nothing
  <2>1. s \o <<>> = s
    BY <1>4, ConcatEmptySeq
  <2> QED
    BY <2>1, <1>2, <1>4, <1>5 DEF s
<1>6. CASE a.file # "" /\ Documented(r, a, dead) = CollectDirect(crawl.queue, u)
  <2>1. Counted(crawl.queue)
    BY <1>4 DEF Filed, Counted
  <2>2. Settles(crawl.queue, CollectDirect(crawl.queue, u).queue, CollectDirect(crawl.queue, u).entries)
    BY <2>1, <1>1, <1>6, CollectSettles
  <2>3. Filed(CollectDirect(crawl.queue, u).queue, s \o CollectDirect(crawl.queue, u).entries)
    BY <2>2, <1>4, SettlesFiled
  <2> QED
    BY <2>3, <1>6 DEF s
<1>7. CASE Documented(r, a, dead) = CollectLinks(crawl.queue, a.links, dead)
  BY <1>1, <1>4, <1>7, CollectLinksFiled DEF s
<1> QED
  BY <1>3, <1>5, <1>6, <1>7

\* A route that is fetched.
LEMMA FetchRouteKeepsDocuments ==
  ASSUME GateInv, DocumentInv, NEW u \in DOMAIN Serve, NEW a \in Serve[u], NEW dead,
         FetchRoute(u, a, dead)
  PROVE  DocumentInv'
<1> DEFINE documents == Documented(Route, a, dead)
<1>1. /\ Route.url = u
      /\ \E recs : crawl' = [crawl EXCEPT !.next = @ + 1, !.ran = @ + 1, !.recs = @ \o recs,
                               !.exec = Append(@, Executed(Route, recs)),
                               !.queue = documents.queue, !.entries = @ \o documents.entries]
  BY Zenon DEF FetchRoute
<1>2. PassForm(crawl) /\ crawl.queue \in QueueType
  BY DEF GateInv, PassForm
<1>3. Filed(documents.queue, crawl.entries \o documents.entries)
  BY <1>1, <1>2, DocumentedFiled
<1> HIDE DEF documents
<1>4. crawl'.queue = documents.queue /\ crawl'.entries = crawl.entries \o documents.entries
  BY <1>1, <1>2 DEF PassForm
<1> QED
  BY <1>3, <1>4 DEF DocumentInv

\* The steps of a pass that fetch nothing.
LEMMA PassStepsKeepDocuments ==
  ASSUME GateInv, DocumentInv, StartSite \/ SkipHeavy \/ SkipTail \/ EndSite
  PROVE  DocumentInv'
<1>1. PassForm(crawl)
  BY DEF GateInv
<1>2. \/ \E n, m, k : crawl' = [crawl EXCEPT !.next = n, !.ran = m, !.skips = k]
      \/ \E n, k : crawl' = [crawl EXCEPT !.next = n, !.skips = k]
      \/ \E k : crawl' = [crawl EXCEPT !.todo = Tail(crawl.todo), !.next = 0, !.sites = k]
  <2>1. CASE StartSite
    BY <2>1, Zenon DEF StartSite
  <2>2. CASE SkipHeavy
    BY <2>2, Zenon DEF SkipHeavy
  <2>3. CASE SkipTail
    BY <2>3, Zenon DEF SkipTail
  <2>4. CASE EndSite
    BY <2>4, Zenon DEF EndSite
  <2> QED
    BY <2>1, <2>2, <2>3, <2>4
<1>3. crawl'.queue = crawl.queue /\ crawl'.entries = crawl.entries
  <2>1. CASE \E n, m, k : crawl' = [crawl EXCEPT !.next = n, !.ran = m, !.skips = k]
    BY <2>1, <1>1 DEF PassForm
  <2>2. CASE \E n, k : crawl' = [crawl EXCEPT !.next = n, !.skips = k]
    BY <2>2, <1>1 DEF PassForm
  <2>3. CASE \E k : crawl' = [crawl EXCEPT !.todo = Tail(crawl.todo), !.next = 0, !.sites = k]
    BY <2>3, <1>1 DEF PassForm
  <2> QED
    BY <1>2, <2>1, <2>2, <2>3
<1> QED
  BY <1>3, QueueStays

\* Every step keeps the queue and its ledger in agreement.
LEMMA DocumentNext == ASSUME GateInv, DocumentInv, [Next]_vars PROVE DocumentInv'
<1>1. CASE Crawl
  <2>1. CASE PlanSites \/ EndCheap \/ EndFull \/ Store
    <3>1. crawl' = crawl
      BY <2>1, Zenon DEF PlanSites, EndCheap, EndFull, Store
    <3> QED
      BY <3>1, QueueStays
  <2>2. CASE StartCheap
    <3>1. crawl' = NewPass(TRUE, plans')
      BY <2>2 DEF StartCheap
    <3> QED
      BY <3>1, PassBegins
  <2>3. CASE StartSite \/ SkipHeavy \/ SkipTail \/ EndSite
    BY <2>3, PassStepsKeepDocuments
  <2>4. CASE \E u \in DOMAIN Serve : \E a \in Serve[u] : \E dead \in SUBSET Flaky :
               FetchRoute(u, a, dead)
    BY <2>4, FetchRouteKeepsDocuments
  <2>5. CASE Judge
    <3>1. crawl' = crawl \/ \E open : crawl' = NewPass(FALSE, open)
      BY <2>5, Zenon DEF Judge
    <3> QED
      BY <3>1, QueueStays, PassBegins
  <2> QED
    BY <1>1, <2>1, <2>2, <2>3, <2>4, <2>5, Zenon DEF Crawl, CrawlNext
<1>2. CASE ParserReturns
  <2>1. crawl' = NewPass(TRUE, <<>>)
    BY <1>2, Zenon DEF ParserReturns
  <2> QED
    BY <2>1, PassBegins
<1>3. CASE UNCHANGED vars
  <2>1. crawl' = crawl
    BY <1>3 DEF vars, crawlVars
  <2> QED
    BY <2>1, QueueStays
<1>4. CASE \/ \E c \in Companies : ChooseSites(c)
           \/ SurfaceCheck
           \/ \E signal \in GeoSignals : AdmitSites(signal)
           \/ KeepSurface \/ CheckSite \/ EndChecks
           \/ ReviewRecord
           \/ Finish \/ OthersAsk
  <2>1. UNCHANGED crawlVars
    BY <1>4, Zenon DEF ChooseSites, SurfaceCheck, AdmitSites, KeepSurface, CheckSite, EndChecks,
                       ReviewRecord, Finish, OthersAsk
  <2>2. crawl' = crawl
    BY <2>1 DEF crawlVars
  <2> QED
    BY <2>2, QueueStays
<1> QED
  BY <1>1, <1>2, <1>3, <1>4, Zenon DEF Next

\* The first pass of a run begins with nothing.
LEMMA DocumentInit == Init => DocumentInv
<1> SUFFICES ASSUME Init PROVE DocumentInv
  OBVIOUS
<1>1. crawl = NewPass(TRUE, <<>>)
  BY DEF Init, CrawlInit
<1> QED
  BY <1>1, NewPassFiled DEF DocumentInv

\* The document queue is honest after every page, though it is shared by the
\* sites of the pass, archives are nested and downloads fail.
THEOREM DocumentsHold == Spec => []DocumentsAccounted
<1>1. Init => GateInv /\ DocumentInv
  BY GateInit, DocumentInit
<1>2. GateInv /\ DocumentInv /\ [Next]_vars => GateInv' /\ DocumentInv'
  BY GateNext, DocumentNext
<1>3. DocumentInv => DocumentsAccounted
  BY FiledIsHonest DEF DocumentInv, DocumentsAccounted
<1> QED
  BY <1>1, <1>2, <1>3, PTL DEF Spec

\* What the crawl may download and what the model may be asked is never
\* overspent, and the records say of every document and of every call what
\* became of it.
THEOREM BudgetsHold == Spec => []BudgetsAddUp
<1>1. Spec => [](DocumentsAccounted /\ ReviewsAddUp)
  BY DocumentsHold, ReviewsHold, PTL
<1>2. DocumentsAccounted /\ ReviewsAddUp => BudgetsAddUp
  BY DEF BudgetsAddUp
<1> QED
  BY <1>1, <1>2, PTL

----------------------------------------------------------------------------
(* The judgement of a company's sites *)

\* The members of a sequence at some of its positions, all of them.
LEMMA ThoseMembers ==
  ASSUME NEW I, NEW xs, IsList(xs)
  PROVE  IsList(Those(I, xs)) /\ ToSet(Those(I, xs)) = {xs[i] : i \in I \cap DOMAIN xs}
<1> DEFINE ys == Those(I, xs)
           S == ToSet(xs)
<1>1. DOMAIN xs = 1..Len(xs) /\ Len(xs) \in Nat
  <2>1. xs \in Seq(S)
    BY DEF IsList
  <2> HIDE DEF S
  <2> QED
    BY <2>1, LenProperties
<1>2. ys \in Seq(S)
  BY ThoseType DEF ToSet
<1>3. PICK f : IsPick(f, I, xs, Len(xs), ys)
  BY ThoseIsPick
<1> HIDE DEF ys, S
<1>4. IsList(ys)
  BY <1>2, SeqMembers
<1>5. DOMAIN ys = 1..Len(ys)
  BY <1>2, LenProperties
<1>6. /\ \A k \in 1..Len(ys) : f[k] \in I \cap (1..Len(xs)) /\ ys[k] = xs[f[k]]
      /\ \A i \in I \cap (1..Len(xs)) : \E k \in 1..Len(ys) : f[k] = i
  BY <1>3 DEF IsPick
<1>7. ToSet(ys) = {xs[i] : i \in I \cap DOMAIN xs}
  <2>1. \A x : x \in ToSet(ys) <=> \E k \in 1..Len(ys) : ys[k] = x
    BY <1>5 DEF ToSet
  <2>2. \A x : x \in {xs[i] : i \in I \cap DOMAIN xs}
                <=> \E i \in I \cap (1..Len(xs)) : xs[i] = x
    BY <1>1
  <2>3. \A x : (\E k \in 1..Len(ys) : ys[k] = x)
                <=> \E i \in I \cap (1..Len(xs)) : xs[i] = x
    BY <1>6
  <2> QED
    BY <2>1, <2>2, <2>3
<1> QED
  BY <1>4, <1>7 DEF ys

\* One more at the end, one less in front, two in a row: the members.
LEMMA AppendTells ==
  ASSUME NEW s, IsList(s), NEW e
  PROVE  IsList(Append(s, e)) /\ ToSet(Append(s, e)) = ToSet(s) \cup {e}
<1> DEFINE S == ToSet(s) \cup {e}
<1>1. s \in Seq(S) /\ e \in S
  <2>1. s \in Seq(ToSet(s)) /\ ToSet(s) \subseteq S
    BY DEF IsList
  <2> HIDE DEF S
  <2> QED
    BY <2>1 DEF S
<1> HIDE DEF S
<1>2. /\ Append(s, e) \in Seq(S) /\ Len(Append(s, e)) = Len(s) + 1 /\ Len(s) \in Nat
      /\ DOMAIN s = 1..Len(s) /\ DOMAIN Append(s, e) = 1..(Len(s) + 1)
      /\ \A i \in 1..Len(s) : Append(s, e)[i] = s[i]
      /\ Append(s, e)[Len(s) + 1] = e
  BY <1>1, LenProperties, AppendProperties
<1>3. IsList(Append(s, e))
  BY <1>2, SeqMembers
<1>4. \A x : x \in ToSet(Append(s, e)) <=> x \in ToSet(s) \/ x = e
  <2> DEFINE t == Append(s, e)
  <2>1. \A x : x \in ToSet(t) <=> \E i \in 1..(Len(s) + 1) : t[i] = x
    BY <1>2 DEF ToSet
  <2>2. \A x : x \in ToSet(s) <=> \E i \in 1..Len(s) : s[i] = x
    BY <1>2 DEF ToSet
  <2>3. \A i : i \in 1..(Len(s) + 1) <=> i \in 1..Len(s) \/ i = Len(s) + 1
    BY <1>2
  <2> HIDE DEF t
  <2> QED
    BY <1>2, <2>1, <2>2, <2>3 DEF t
<1> QED
  BY <1>3, <1>4

LEMMA TailTells ==
  ASSUME NEW s, IsList(s), s # <<>>
  PROVE  /\ IsList(Tail(s)) /\ Head(s) \in ToSet(s)
         /\ ToSet(s) = {Head(s)} \cup ToSet(Tail(s))
<1> DEFINE S == ToSet(s)
<1>1. s \in Seq(S)
  BY DEF IsList
<1> HIDE DEF S
<1>2. /\ Len(s) \in Nat \ {0} /\ DOMAIN s = 1..Len(s) /\ Head(s) = s[1]
      /\ Tail(s) \in Seq(S) /\ Len(Tail(s)) = Len(s) - 1 /\ DOMAIN Tail(s) = 1..(Len(s) - 1)
      /\ \A i \in 1..(Len(s) - 1) : Tail(s)[i] = s[i + 1]
  BY <1>1, LenProperties, HeadTailProperties, EmptySeq
<1>3. IsList(Tail(s))
  BY <1>2, SeqMembers
<1>4. Head(s) \in ToSet(s)
  BY <1>2 DEF ToSet
<1>5. \A x : x \in ToSet(s) <=> x = Head(s) \/ x \in ToSet(Tail(s))
  <2> DEFINE t == Tail(s)
  <2>1. \A x : x \in ToSet(t) <=> \E i \in 1..(Len(s) - 1) : t[i] = x
    BY <1>2 DEF ToSet
  <2>2. \A x : x \in ToSet(s) <=> \E i \in 1..Len(s) : s[i] = x
    BY <1>2 DEF ToSet
  <2>3. /\ \A i \in 1..Len(s) : i = 1 \/ (i - 1 \in 1..(Len(s) - 1) /\ s[i] = t[i - 1])
        /\ \A i \in 1..(Len(s) - 1) : i + 1 \in 1..Len(s) /\ t[i] = s[i + 1]
        /\ 1 \in 1..Len(s)
    BY <1>2
  <2> HIDE DEF t
  <2> QED
    BY <1>2, <2>1, <2>2, <2>3 DEF t
<1> QED
  BY <1>3, <1>4, <1>5

LEMMA ConcatTells ==
  ASSUME NEW s, NEW t, IsList(s), IsList(t)
  PROVE  IsList(s \o t) /\ ToSet(s \o t) = ToSet(s) \cup ToSet(t)
<1> DEFINE S == ToSet(s) \cup ToSet(t)
           u == s \o t
<1>1. s \in Seq(S) /\ t \in Seq(S)
  <2>1. s \in Seq(ToSet(s)) /\ t \in Seq(ToSet(t)) /\ ToSet(s) \subseteq S /\ ToSet(t) \subseteq S
    BY DEF IsList
  <2> HIDE DEF S
  <2> QED
    BY <2>1
<1> HIDE DEF S
<1>2. /\ Len(s) \in Nat /\ Len(t) \in Nat /\ DOMAIN s = 1..Len(s) /\ DOMAIN t = 1..Len(t)
      /\ DOMAIN u = 1..(Len(s) + Len(t))
      /\ \A i \in 1..Len(s) : u[i] = s[i]
      /\ \A i \in 1..Len(t) : u[Len(s) + i] = t[i]
  <2>1. /\ Len(s) \in Nat /\ Len(t) \in Nat /\ DOMAIN s = 1..Len(s) /\ DOMAIN t = 1..Len(t)
    BY <1>1, LenProperties
  <2>2. /\ DOMAIN u = 1..(Len(s) + Len(t))
        /\ \A i \in 1..(Len(s) + Len(t)) : u[i] = IF i <= Len(s) THEN s[i] ELSE t[i - Len(s)]
    BY <1>1, <2>1, ConcatProperties, LenProperties
  <2> HIDE DEF u
  <2> QED
    BY <2>1, <2>2
<1>3. \A x \in ToSet(s) \cup ToSet(t) : x \in ToSet(u)
  <2> SUFFICES ASSUME NEW x \in ToSet(s) \cup ToSet(t) PROVE x \in ToSet(u)
    OBVIOUS
  <2> HIDE DEF u
  <2>1. CASE \E i \in 1..Len(s) : s[i] = x
    BY <2>1, <1>2 DEF ToSet
  <2>2. CASE \E i \in 1..Len(t) : t[i] = x
    <3>1. PICK i \in 1..Len(t) : t[i] = x
      BY <2>2
    <3>2. Len(s) + i \in 1..(Len(s) + Len(t))
      BY <1>2
    <3> QED
      BY <3>1, <3>2, <1>2 DEF ToSet
  <2> QED
    BY <2>1, <2>2, <1>2 DEF ToSet
<1> QED
  BY <1>3, ConcatMembers

\* A sequence without members.
LEMMA Memberless ==
  ASSUME NEW s, IsList(s), ToSet(s) = {}
  PROVE  s = <<>>
<1>1. s \in Seq({})
  BY DEF IsList
<1>2. Len(s) \in Nat /\ DOMAIN s = 1..Len(s) /\ \A i \in DOMAIN s : FALSE
  BY <1>1, LenProperties DEF ToSet
<1>3. Len(s) = 0
  BY <1>2
<1> QED
  BY <1>1, <1>3, EmptySeq

\* The first of each keeps what it is given.
LEMMA FirstOfEachTells ==
  ASSUME NEW xs, IsList(xs)
  PROVE  IsList(FirstOfEach(xs)) /\ ToSet(FirstOfEach(xs)) \subseteq ToSet(xs)
<1> DEFINE I == {i \in DOMAIN xs : ~ \E j \in 1 .. i - 1 : xs[j] = xs[i]}
<1>1. FirstOfEach(xs) = Those(I, xs)
  <2>1. [i \in DOMAIN xs |-> IF \E j \in 1 .. i - 1 : xs[j] = xs[i] THEN <<>> ELSE <<xs[i]>>]
          = [i \in DOMAIN xs |-> IF i \in I THEN <<xs[i]>> ELSE <<>>]
    OBVIOUS
  <2> QED
    BY <2>1 DEF FirstOfEach, Those
<1>2. IsList(Those(I, xs)) /\ ToSet(Those(I, xs)) = {xs[i] : i \in I \cap DOMAIN xs}
  <2> HIDE DEF I
  <2> QED
    BY ThoseMembers
<1>3. {xs[i] : i \in I \cap DOMAIN xs} \subseteq ToSet(xs)
  BY DEF ToSet
<1> QED
  BY <1>1, <1>2, <1>3

\* A site that is not taken for the company's, and one that is for good reason.
Unproven(d) == ~d.belongs /\ d.decision # "verified"
Settled(d, keys, claims) ==
  /\ d.belongs <=> d.decision = "verified"
  /\ d.belongs => d.url \in keys /\ (d.hard = {} \/ d.inn \/ d.final \in DomainsOf("email", claims))

\* Where a candidate may be found, and that something among ds is found there.
PlacesOf(c) == {c, KeyOf[c]} \cup {KeyOf[f] : f \in {Shown(p).final : p \in FrontPage[c]} \ {""}}
Keyed(ds, c) == \E d \in ds : SiteKey(d) \in PlacesOf(c)
Seen(ds, c) == \E d \in ds : {d.url, SiteKey(d)} \cap PlacesOf(c) # {}

\* The first look at a candidate.
LEMMA SurfaceTells ==
  ASSUME NEW c, NEW p \in FrontPage[c], NEW claims
  PROVE  /\ Unproven(AnalyzeSurface(c, p, claims))
         /\ SiteKey(AnalyzeSurface(c, p, claims)) \in PlacesOf(c)
<1> DEFINE e == Evaluated(Shown(p), claims)
           status == PreparseStatus(e)
           raw == Decision(c, Shown(p), status)
           d == AnalyzeSurface(c, p, claims)
<1>1. status # "verified"
  <2> HIDE DEF e
  <2> QED
    BY DEF PreparseStatus
<1>2. raw = [url |-> c, final |-> Shown(p).final, decision |-> status, belongs |-> FALSE,
             by |-> "rules", phones |-> Shown(p).phones, emails |-> Shown(p).emails,
             hard |-> Shown(p).hard, inn |-> Shown(p).inn = "own"]
  BY DEF Decision
<1> HIDE DEF status
<1>3. \/ d = Unread(c, "rejected", "gate")
      \/ d = Unread(c, "suspicious", "gate")
      \/ d = [raw EXCEPT !.by = "gate"]
  BY DEF AnalyzeSurface, status
<1> HIDE DEF raw, d
<1>4. ASSUME NEW w, w # "verified", d = Unread(c, w, "gate")
      PROVE  Unproven(d) /\ SiteKey(d) \in PlacesOf(c)
  BY <1>4 DEF Unread, Unproven, SiteKey, PlacesOf
<1>5. ASSUME d = [raw EXCEPT !.by = "gate"]
      PROVE  Unproven(d) /\ SiteKey(d) \in PlacesOf(c)
  <2>1. d.url = c /\ d.final = Shown(p).final /\ d.decision = status /\ d.belongs = FALSE
    BY <1>2, <1>5
  <2>2. Unproven(d)
    BY <2>1, <1>1 DEF Unproven
  <2>3. SiteKey(d) \in PlacesOf(c)
    BY <2>1 DEF SiteKey, PlacesOf
  <2> QED
    BY <2>2, <2>3
<1> QED
  BY <1>3, <1>4, <1>5 DEF d

\* The full check by the rules.
LEMMA RulesTell ==
  ASSUME NEW key, NEW p, NEW more, NEW claims, p.status = "success"
  PROVE  LET page == WithExtraPages(Shown(p), more)
             d == AnalyzeByRules(key, p, more, claims)
         IN  /\ d = [url |-> key, final |-> page.final,
                     decision |-> SiteStatus(Evaluated(page, claims)),
                     belongs |-> SiteStatus(Evaluated(page, claims)) = "verified", by |-> "rules",
                     phones |-> page.phones, emails |-> page.emails, hard |-> page.hard,
                     inn |-> page.inn = "own"]
             /\ Evaluated(page, claims).hard = page.hard
             /\ Evaluated(page, claims).flags.inn = (page.inn = "own")
             /\ Evaluated(page, claims).flags.mail = (page.final \in DomainsOf("email", claims))
<1> DEFINE page == WithExtraPages(Shown(p), more)
           status == SiteStatus(Evaluated(page, claims))
<1>1. AnalyzeByRules(key, p, more, claims)
        = [Decision(key, page, status) EXCEPT !.belongs = status = "verified"]
  BY DEF AnalyzeByRules
<1>2. /\ Evaluated(page, claims).hard = page.hard
      /\ Evaluated(page, claims).flags = Flags(page, claims)
  <2> HIDE DEF page
  <2> QED
    BY DEF Evaluated
<1>3. /\ Flags(page, claims).inn = (page.inn = "own")
      /\ Flags(page, claims).mail = (page.final \in DomainsOf("email", claims))
  <2> HIDE DEF page
  <2> QED
    BY DEF Flags
<1> HIDE DEF page, status
<1>4. [Decision(key, page, status) EXCEPT !.belongs = status = "verified"]
        = [url |-> key, final |-> page.final, decision |-> status,
           belongs |-> status = "verified", by |-> "rules", phones |-> page.phones,
           emails |-> page.emails, hard |-> page.hard, inn |-> page.inn = "own"]
  BY DEF Decision
<1> QED
  BY <1>1, <1>2, <1>3, <1>4 DEF page, status

\* The full check with the help of the model.
LEMMA CheckedTells ==
  ASSUME NEW key, NEW p, NEW more, NEW claims, NEW first, NEW second, NEW keys, key \in keys
  PROVE  LET d == AnalyzeByRules(key, p, more, claims)
             e == Evaluated(WithExtraPages(Shown(p), more), claims)
             a == Analyzed(d, e, first, second)
         IN  /\ d.url = key /\ Settled(d, keys, claims)
             /\ p.status = "success" =>
                  a.decision.url = key /\ Settled(a.decision, keys, claims)
<1> DEFINE page == WithExtraPages(Shown(p), more)
           e == Evaluated(page, claims)
           d == AnalyzeByRules(key, p, more, claims)
           a == Analyzed(d, e, first, second)
<1>1. CASE p.status # "success"
  <2>1. d = Unread(key, "rejected", "rules")
    BY <1>1 DEF AnalyzeByRules
  <2> HIDE DEF d
  <2>2. d.url = key /\ d.belongs = FALSE /\ d.decision = "rejected"
    BY <2>1 DEF Unread
  <2> QED
    BY <1>1, <2>2 DEF Settled, d
<1>2. CASE p.status = "success"
  <2>1. /\ d = [url |-> key, final |-> page.final, decision |-> SiteStatus(e),
                belongs |-> SiteStatus(e) = "verified", by |-> "rules",
                phones |-> page.phones, emails |-> page.emails, hard |-> page.hard,
                inn |-> page.inn = "own"]
        /\ e.hard = page.hard /\ e.flags.inn = (page.inn = "own")
        /\ e.flags.mail = (page.final \in DomainsOf("email", claims))
    BY <1>2, RulesTell
  <2>2. SiteStatus(e) = "verified" => e.hard = {}
    <3> HIDE DEF e
    <3> QED
      BY DEF SiteStatus
  <2>3. NeedsReview(d.decision, e) => e.hard = {} \/ e.flags.inn \/ e.flags.mail
    <3> HIDE DEF e, d
    <3> QED
      BY DEF NeedsReview
  <2>4. \/ a.decision = d
        \/ /\ NeedsReview(d.decision, e)
           /\ \E w : a.decision = [d EXCEPT !.decision = w, !.belongs = w = "verified", !.by = "llm"]
    <3> DEFINE question == <<d.final, e, d.phones, d.emails>>
               o == AskAbout(question, first, second)
               w == AfterReview(d.decision, e, o.word[1])
               judged == [d EXCEPT !.decision = w, !.belongs = w = "verified", !.by = "llm"]
    <3>1. a = IF ~NeedsReview(d.decision, e) THEN [decision |-> d, llm |-> llm, heard |-> <<>>]
              ELSE IF o.word = <<>>          THEN [decision |-> d, llm |-> o.llm, heard |-> <<>>]
              ELSE [decision |-> judged, llm |-> o.llm,
                    heard |-> <<[question |-> question, word |-> o.word[1]]>>]
      BY DEF Analyzed
    <3>2. judged = [d EXCEPT !.decision = w, !.belongs = w = "verified", !.by = "llm"]
      OBVIOUS
    <3> HIDE DEF judged, question, o, d, e, a
    <3>3. a.decision = d \/ (NeedsReview(d.decision, e) /\ a.decision = judged)
      BY <3>1
    <3> QED
      BY <3>2, <3>3
  <2> HIDE DEF d, e, a, page
  <2>5. d.url = key /\ Settled(d, keys, claims)
    BY <2>1, <2>2 DEF Settled
  <2>6. ASSUME NEW w, NeedsReview(d.decision, e),
               a.decision = [d EXCEPT !.decision = w, !.belongs = w = "verified", !.by = "llm"]
        PROVE  a.decision.url = key /\ Settled(a.decision, keys, claims)
    <3>1. /\ a.decision.url = key /\ a.decision.decision = w
          /\ a.decision.belongs = (w = "verified") /\ a.decision.final = page.final
          /\ a.decision.hard = page.hard /\ a.decision.inn = (page.inn = "own")
      BY <2>1, <2>6
    <3>2. page.hard = {} \/ page.inn = "own" \/ page.final \in DomainsOf("email", claims)
      BY <2>1, <2>3, <2>6
    <3> QED
      BY <3>1, <3>2 DEF Settled
  <2>7. a.decision.url = key /\ Settled(a.decision, keys, claims)
    BY <2>4, <2>5, <2>6
  <2> QED
    BY <2>5, <2>7 DEF d, e, a, page
<1> QED
  BY <1>1, <1>2

\* The phones that are trusted have two sources, or the row or a site of the company.
LEMMA TrustedTells ==
  ASSUME NEW claims, NEW ds, NEW v \in TrustedContacts(claims, ds).phones
  PROVE  \/ Cardinality({x.source : x \in {y \in OfClaims("phone", claims) :
                                             y.value = v /\ y.source # Input}}) >= 2
         \/ v \in InputValues("phone", claims)
         \/ \E d \in ToSet(ds) : (d.decision = "verified" \/ d.belongs) /\ v \in d.phones
<1> DEFINE owned == {d \in ToSet(ds) : d.decision = "verified" \/ d.belongs}
           named == {c \in OfClaims("phone", claims) : c.source # Input}
           told == {x.source : x \in {y \in OfClaims("phone", claims) :
                                        y.value = v /\ y.source # Input}}
<1>1. v \in InputValues("phone", claims) \cup Consensus("phone", claims)
               \cup UNION {d.phones : d \in owned}
  BY DEF TrustedContacts
<1>2. ASSUME v \in Consensus("phone", claims) PROVE Cardinality(told) >= 2
  <2>1. Cardinality({c.source : c \in {x \in named : x.value = v}}) >= 2
    BY <1>2 DEF Consensus
  <2>2. {x \in named : x.value = v} = {y \in OfClaims("phone", claims) :
                                        y.value = v /\ y.source # Input}
    OBVIOUS
  <2> QED
    BY <2>1, <2>2
<1>3. ASSUME v \in UNION {d.phones : d \in owned}
      PROVE  \E d \in ToSet(ds) : (d.decision = "verified" \/ d.belongs) /\ v \in d.phones
  BY <1>3
<1> QED
  BY <1>1, <1>2, <1>3

\* The candidates are a sequence.
LEMMA CandidatesList ==
  ASSUME NEW claims, claims \in Seq(ToSet(claims))
  PROVE  IsList(ChooseCandidateSites(claims))
<1>1. Len(claims) \in Nat /\ DOMAIN claims = 1..Len(claims)
  BY LenProperties
<1>2. ASSUME NEW kind PROVE IsFiniteSet(DomainsOf(kind, claims))
  <2> DEFINE f == [i \in 1..Len(claims) |-> claims[i].domain]
             all == {f[i] : i \in 1..Len(claims)}
  <2>1. IsFiniteSet(1..Len(claims))
    BY <1>1, FS_Interval
  <2>2. f = [i \in 1..Len(claims) |-> f[i]]
    OBVIOUS
  <2>3. DomainsOf(kind, claims) \subseteq all
    BY <1>1 DEF DomainsOf, OfClaims, ToSet
  <2> HIDE DEF f
  <2>4. IsFiniteSet(all)
    BY <2>1, <2>2, ImageIsFinite
  <2> QED
    BY <2>3, <2>4, FS_Subset
<1>3. IsList(DomainCandidates(claims))
  <2> DEFINE claimed == DomainsOf("website", claims) \cup DomainsOf("email", claims)
             status == [d \in claimed |-> DomainStatus(d, claims)]
             kept == {d \in claimed : status[d] # "rejected"}
             n == Min({Cardinality(kept), KeptCandidates})
  <2>1. IsFiniteSet(claimed)
    BY <1>2, FS_Union
  <2>2. IsFiniteSet(kept)
    <3>1. kept \subseteq claimed
      OBVIOUS
    <3> QED
      BY <2>1, <3>1, FS_Subset
  <2>3. \E f : DomainCandidates(claims) = [i \in 1..n |-> f[i]]
    <3> DEFINE sure == [d \in claimed |-> Confidence(d, claims)]
               Ahead(d, e) ==
                 \/ status[d] = "verified" /\ status[e] # "verified"
                 \/ /\ status[d] = status[e]
                    /\ sure[d] > sure[e] \/ (sure[d] = sure[e] /\ Place(d) < Place(e))
               At(i) == CHOOSE d \in kept : Cardinality({e \in kept : Ahead(e, d)}) = i - 1
               s == [i \in 1..n |-> At(i)]
    <3>1. DomainCandidates(claims) = s
      BY Zenon DEF DomainCandidates
    <3> HIDE DEF At, n
    <3>2. s = [i \in 1..n |-> s[i]]
      OBVIOUS
    <3> HIDE DEF s
    <3> QED
      BY <3>1, <3>2
  <2> HIDE DEF kept
  <2>4. n \in Nat
    <3>1. Cardinality(kept) \in Nat
      BY <2>2, FS_CardinalityType
    <3> QED
      BY <3>1, MinOfTwo DEF KeptCandidates
  <2> HIDE DEF n
  <2>5. PICK f : DomainCandidates(claims) = [i \in 1..n |-> f[i]]
    BY <2>3
  <2> DEFINE s == [i \in 1..n |-> f[i]]
  <2>6. s \in [1..n -> ToSet(s)]
    BY DEF ToSet
  <2> HIDE DEF s
  <2>7. s \in Seq(ToSet(s))
    BY <2>4, <2>6, SmallSeqs
  <2> QED
    BY <2>5, <2>7 DEF IsList, s
<1>4. IsList(MergedWebsites(claims))
  <2> DEFINE Parts(kind) == [i \in DOMAIN claims |->
                               IF claims[i].kind = kind THEN <<claims[i].domain>> ELSE <<>>]
             S == {claims[i].domain : i \in DOMAIN claims}
  <2>1. ASSUME NEW kind PROVE FlattenSeq(Parts(kind)) \in Seq(S)
    <3>1. \A i \in 1..Len(claims) : Parts(kind)[i] \in Seq(S)
      <4> SUFFICES ASSUME NEW i \in 1..Len(claims) PROVE Parts(kind)[i] \in Seq(S)
        OBVIOUS
      <4>1. claims[i].domain \in S
        BY <1>1
      <4>2. Parts(kind)[i] = <<claims[i].domain>> \/ Parts(kind)[i] = <<>>
        BY <1>1
      <4> HIDE DEF S, Parts
      <4> QED
        BY <4>1, <4>2, SmallSeqs
    <3>2. Parts(kind) = [i \in 1..Len(claims) |-> Parts(kind)[i]]
      BY <1>1
    <3> HIDE DEF Parts, S
    <3>3. Parts(kind) \in [1..Len(claims) -> Seq(S)]
      BY <3>1, <3>2
    <3>4. Parts(kind) \in Seq(Seq(S))
      BY <1>1, <3>3, SmallSeqs
    <3> QED
      BY <3>4, FlattenType
  <2> DEFINE web == FlattenSeq(Parts("website"))
             mail == FlattenSeq(Parts("email"))
  <2>2. MergedWebsites(claims) = FirstOfEach(web \o mail)
    BY DEF MergedWebsites
  <2>3. web \in Seq(S) /\ mail \in Seq(S)
    BY <2>1
  <2> HIDE DEF web, mail, S
  <2>4. web \o mail \in Seq(S)
    BY <2>3, ConcatProperties
  <2>5. IsList(web \o mail)
    BY <2>4, SeqMembers
  <2> QED
    BY <2>2, <2>5, FirstOfEachTells
<1>5. ASSUME NEW s, IsList(s) PROVE IsList(SubSeq(s, 1, Min({Len(s), CandidateLimit})))
  <2> DEFINE S == ToSet(s)
             n == Min({Len(s), CandidateLimit})
  <2>1. s \in Seq(S)
    BY <1>5 DEF IsList
  <2> HIDE DEF S
  <2>2. Len(s) \in Nat
    BY <2>1, LenProperties
  <2>3. n \in 0..Len(s)
    BY <2>2, MinOfTwo DEF CandidateLimit
  <2> HIDE DEF n
  <2>4. SubSeq(s, 1, n) \in Seq(S)
    BY <2>1, <2>2, <2>3, SubSeqProperties
  <2> QED
    BY <2>4, SeqMembers DEF n
<1> QED
  BY <1>3, <1>4, <1>5 DEF ChooseCandidateSites

\* No site of the gate is lost when its decisions are divided: those of the sites
\* to be parsed, one for each key, and the others.
LEMMA DividedTells ==
  ASSUME NEW ds, IsList(ds), NEW keys
  PROVE  LET left == Those({i \in DOMAIN ds : SiteKey(ds[i]) \notin keys}, ds)
             kept == PendingOf(ds, keys)
         IN  /\ IsList(left) /\ IsList(kept)
             /\ ToSet(left) \cup ToSet(kept) \subseteq ToSet(ds)
             /\ \A d \in ToSet(ds) : \E e \in ToSet(left) \cup ToSet(kept) : SiteKey(e) = SiteKey(d)
             /\ keys = {} => kept = <<>>
<1> DEFINE n == Len(ds)
           Same(i) == {j \in DOMAIN ds : SiteKey(ds[j]) = SiteKey(ds[i])}
           last == [i \in DOMAIN ds |-> ds[Max(Same(i))]]
           I == {i \in DOMAIN ds : SiteKey(ds[i]) \in keys /\ i = Min(Same(i))}
           J == {i \in DOMAIN ds : SiteKey(ds[i]) \notin keys}
           left == Those(J, ds)
           kept == Those(I, last)
<1>1. n \in Nat /\ DOMAIN ds = 1..n
  <2>1. ds \in Seq(ToSet(ds))
    BY DEF IsList
  <2> QED
    BY <2>1, LenProperties
<1>2. PendingOf(ds, keys) = kept
  BY DEF PendingOf
<1>3. \A i \in 1..n : Same(i) \subseteq 1..n /\ i \in Same(i)
  BY <1>1
<1>4. \A i \in 1..n : Max(Same(i)) \in Same(i)
  <2> SUFFICES ASSUME NEW i \in 1..n PROVE Max(Same(i)) \in Same(i)
    OBVIOUS
  <2> DEFINE T == Same(i)
  <2>1. T \subseteq 1..n /\ T # {} /\ 1..n \subseteq Int
    BY <1>1, <1>3
  <2> HIDE DEF T
  <2>2. IsFiniteSet(T) /\ T \in SUBSET Int
    <3>1. IsFiniteSet(1..n)
      BY <1>1, FS_Interval
    <3>2. IsFiniteSet(T)
      BY <2>1, <3>1, FS_Subset
    <3> QED
      BY <2>1, <3>2
  <2>3. Max(T) \in T
    BY <2>1, <2>2, MaxExists
  <2> QED
    BY <2>3 DEF T
<1>5. \A i \in 1..n : Min(Same(i)) \in Same(i)
  <2> SUFFICES ASSUME NEW i \in 1..n PROVE Min(Same(i)) \in Same(i)
    OBVIOUS
  <2> DEFINE T == Same(i)
  <2>1. T \subseteq Nat /\ T # {}
    BY <1>1, <1>3
  <2> HIDE DEF T
  <2>2. \E x \in T : \A y \in T : x <= y
    BY <2>1, LeastExists
  <2>3. Min(T) \in T
    BY <2>2 DEF Min
  <2> QED
    BY <2>3 DEF T
<1>6. ASSUME NEW i \in 1..n
      PROVE  /\ last[i] \in ToSet(ds) /\ SiteKey(last[i]) = SiteKey(ds[i])
  <2>1. Max(Same(i)) \in 1..n /\ SiteKey(ds[Max(Same(i))]) = SiteKey(ds[i])
    BY <1>1, <1>4
  <2>2. last[i] = ds[Max(Same(i))]
    BY <1>1
  <2> HIDE DEF last, Same
  <2> QED
    BY <1>1, <2>1, <2>2 DEF ToSet
<1>7. DOMAIN last = 1..n /\ IsList(last)
  <2>1. DOMAIN last = 1..n /\ last = [i \in 1..n |-> last[i]]
    BY <1>1
  <2> HIDE DEF last
  <2>2. last \in [1..n -> ToSet(last)]
    BY <2>1 DEF ToSet
  <2>3. last \in Seq(ToSet(last))
    BY <1>1, <2>2, SmallSeqs
  <2> QED
    BY <2>1, <2>3 DEF IsList
<1>8. ASSUME NEW i \in 1..n, SiteKey(ds[i]) \in keys
      PROVE  \E k \in I : SiteKey(ds[k]) = SiteKey(ds[i])
  <2> DEFINE k == Min(Same(i))
  <2>1. k \in 1..n /\ SiteKey(ds[k]) = SiteKey(ds[i])
    BY <1>1, <1>5
  <2> HIDE DEF k
  <2>2. Same(k) = Same(i)
    BY <2>1
  <2>3. k = Min(Same(k))
    BY <2>2 DEF k
  <2> HIDE DEF Same
  <2>4. k \in I
    BY <1>1, <1>8, <2>1, <2>3
  <2> QED
    BY <2>1, <2>4
<1>9. I \subseteq 1..n /\ J \subseteq 1..n /\ \A i \in 1..n : SiteKey(ds[i]) \in keys \/ i \in J
  BY <1>1
<1>10. keys = {} => I = {}
  OBVIOUS
<1> HIDE DEF I, J, last, Same
<1>11. /\ IsList(left) /\ ToSet(left) = {ds[i] : i \in J}
       /\ IsList(kept) /\ ToSet(kept) = {last[i] : i \in I}
  <2>1. J \cap DOMAIN ds = J /\ I \cap DOMAIN last = I
    BY <1>1, <1>7, <1>9
  <2> QED
    BY <1>7, <2>1, ThoseMembers
<1> HIDE DEF left, kept
<1>12. ToSet(left) \cup ToSet(kept) \subseteq ToSet(ds)
  BY <1>1, <1>6, <1>9, <1>11 DEF ToSet
<1>13. ASSUME NEW d \in ToSet(ds)
       PROVE  \E e \in ToSet(left) \cup ToSet(kept) : SiteKey(e) = SiteKey(d)
  <2>1. PICK i \in 1..n : ds[i] = d
    BY <1>1 DEF ToSet
  <2>2. CASE i \in J
    BY <2>1, <2>2, <1>11
  <2>3. CASE SiteKey(ds[i]) \in keys
    <3>1. PICK k \in I : SiteKey(ds[k]) = SiteKey(ds[i])
      BY <2>3, <1>8
    <3>2. last[k] \in ToSet(kept) /\ SiteKey(last[k]) = SiteKey(d)
      BY <3>1, <2>1, <1>6, <1>9, <1>11
    <3> QED
      BY <3>2
  <2> QED
    BY <2>2, <2>3, <1>9
<1>14. keys = {} => kept = <<>>
  BY <1>10, <1>11, Memberless
<1> QED
  BY <1>2, <1>11, <1>12, <1>13, <1>14 DEF left, kept, J

\* The planner's notes name the site in hand.
PlanningForm(p) == "site" \in DOMAIN p

Resting == planning.step = "idle"

\* Only sites the parser was given are planned.
PlannedInv ==
  /\ dry \in BOOLEAN /\ (dry => phase = "crawl")
  /\ ~dry => /\ PlanningForm(planning) /\ IsList(sites)
             /\ ~Resting => planning.site \in ToSet(sites)
             /\ \A p \in ToSet(plans) : p.site \in ToSet(sites)
             /\ phase \in {"start", "gate"} => plans = <<>> /\ Resting

\* It holds whatever the step, if the sites and the plans stay.
LEMMA PlannedStays ==
  ASSUME PlannedInv, dry' = dry, sites' = sites, plans' = plans, planning' = planning,
         dry => phase' = phase, phase' \in {"start", "gate"} => phase \in {"start", "gate"}
  PROVE  PlannedInv'
BY DEF PlannedInv, PlanningForm, Resting

LEMMA PlannedInit == Init => PlannedInv
<1> SUFFICES ASSUME Init PROVE PlannedInv
  OBVIOUS
<1>1. plans = <<>> /\ planning = NoPlanning
  BY DEF Init, CrawlInit, PlanInit
<1>2. PlanningForm(planning) /\ Resting
  BY <1>1 DEF NoPlanning, Planning, PlanningForm, Resting
<1>3. ToSet(plans) = {}
  BY <1>1, NoMembers
<1>4. \/ dry = TRUE /\ phase = "crawl"
      \/ dry = FALSE /\ phase = "start" /\ sites = <<>>
  BY DEF Init
<1>5. IsList(<<>>)
  BY NoMembers
<1> QED
  BY <1>1, <1>2, <1>3, <1>4, <1>5 DEF PlannedInv

\* The planner goes on with a site, takes the next one, or has its plan.
LEMMA PlanSitesKeepPlanned ==
  ASSUME PlannedInv, GateInv, PlanSites, phase = "crawl", phase' = phase, sites' = sites
  PROVE  PlannedInv'
<1>1. dry' = dry /\ PlanNext /\ IsList(plans)
  BY DEF PlanSites, GateInv
<1>2. CASE dry
  BY <1>1, <1>2 DEF PlannedInv
<1>3. CASE ~dry
  <2>1. /\ PlanningForm(planning) /\ IsList(sites)
        /\ ~Resting => planning.site \in ToSet(sites)
        /\ \A p \in ToSet(plans) : p.site \in ToSet(sites)
    BY <1>3 DEF PlannedInv
  <2>2. ASSUME PlanningForm(planning'), ~Resting' => planning'.site \in ToSet(sites),
               \A p \in ToSet(plans') : p.site \in ToSet(sites)
        PROVE  PlannedInv'
    BY <1>1, <1>3, <2>1, <2>2 DEF PlannedInv
  <2>3. CASE \E s \in Sites : ProbeSite(s)
    <3>1. PICK s \in Sites : ProbeSite(s)
      BY <2>3
    <3>2. /\ plans' = plans /\ Len(plans) < Len(sites) /\ s = sites[Len(plans) + 1]
          /\ \E a, b, c, e, f : planning' = Planning(s, a, b, c, e, f)
      BY <3>1, Zenon DEF ProbeSite
    <3>3. s \in ToSet(sites)
      <4>1. Len(sites) \in Nat /\ DOMAIN sites = 1..Len(sites) /\ Len(plans) \in Nat
        <5>1. sites \in Seq(ToSet(sites)) /\ plans \in Seq(ToSet(plans))
          BY <1>1, <2>1 DEF IsList
        <5> QED
          BY <5>1, LenProperties
      <4> QED
        BY <3>2, <4>1 DEF ToSet
    <3>4. PlanningForm(planning') /\ planning'.site = s
      BY <3>2 DEF Planning, PlanningForm
    <3> QED
      BY <2>1, <2>2, <3>2, <3>3, <3>4
  <2>4. CASE ReadHome \/ ReadFollowUp \/ ReadMaps \/ GuessSubdomain
    <3>1. /\ plans' = plans /\ ~Resting
          /\ PlanningForm(planning') /\ planning'.site = planning.site
      <4> DEFINE k == planning
      <4>1. CASE ReadHome
        <5>1. /\ plans' = plans /\ k.step = "home"
              /\ \E a, b : planning' = [k EXCEPT !.step = a, !.toRead = b]
          BY <4>1, Zenon DEF ReadHome
        <5>2. PICK a, b : planning' = [k EXCEPT !.step = a, !.toRead = b]
          BY <5>1
        <5>3. PlanningForm(planning') /\ planning'.site = k.site
          BY <2>1, <5>2 DEF PlanningForm
        <5> QED
          BY <5>1, <5>3 DEF Resting
      <4>2. CASE ReadFollowUp
        <5>1. /\ plans' = plans /\ k.step = "pages"
              /\ planning' = [k EXCEPT !.toRead = Tail(k.toRead)]
          BY <4>2, Zenon DEF ReadFollowUp
        <5>3. PlanningForm(planning') /\ planning'.site = k.site
          BY <2>1, <5>1 DEF PlanningForm
        <5> QED
          BY <5>1, <5>3 DEF Resting
      <4>3. CASE ReadMaps
        <5>1. /\ plans' = plans /\ (k.step = "maps" \/ k.step = "pages")
              /\ \E a, c : planning' = [k EXCEPT !.step = a, !.left = c]
          BY <4>3, Zenon DEF ReadMaps
        <5>2. PICK a, c : planning' = [k EXCEPT !.step = a, !.left = c]
          BY <5>1
        <5>3. PlanningForm(planning') /\ planning'.site = k.site
          BY <2>1, <5>2 DEF PlanningForm
        <5> QED
          BY <5>1, <5>3 DEF Resting
      <4>4. CASE GuessSubdomain
        <5> DEFINE next == [k EXCEPT !.left = Tail(k.left), !.checked = k.checked + 1]
        <5>1. /\ plans' = plans /\ k.step = "guess"
              /\ \/ planning' = [next EXCEPT !.hit = TRUE, !.misses = 0]
                 \/ planning' = [next EXCEPT !.misses = IF k.hit THEN next.misses + 1
                                                        ELSE next.misses]
          BY <4>4, Zenon DEF GuessSubdomain, MayGuess
        <5>2. PlanningForm(next) /\ next.site = k.site
          BY <2>1 DEF PlanningForm
        <5>3. PlanningForm(planning') /\ planning'.site = k.site
          <6> HIDE DEF next
          <6> QED
            BY <5>1, <5>2 DEF PlanningForm
        <5> QED
          BY <5>1, <5>3 DEF Resting
      <4> QED
        BY <2>4, <4>1, <4>2, <4>3, <4>4
    <3> QED
      BY <2>1, <2>2, <3>1
  <2>5. CASE MakePlan
    <3>1. /\ planning.step = "guess" /\ planning' = NoPlanning
          /\ \E a, b, c, e, f, g, h, i, j :
               plans' = Append(plans, [site |-> planning.site, probe |-> a, sampled |-> b,
                                       worth |-> c, class |-> e, buckets |-> f, budget |-> g,
                                       routes |-> h, skips |-> i, covered |-> j])
      BY <2>5, Zenon DEF MakePlan
    <3>2. PlanningForm(planning') /\ Resting'
      BY <3>1 DEF NoPlanning, Planning, PlanningForm, Resting
    <3>3. PICK p : plans' = Append(plans, p) /\ p.site = planning.site
      BY <3>1
    <3>4. ToSet(plans') = ToSet(plans) \cup {p}
      BY <1>1, <3>3, AppendTells
    <3>5. planning.site \in ToSet(sites)
      BY <2>1, <3>1 DEF Resting
    <3> QED
      BY <2>1, <2>2, <3>2, <3>3, <3>4, <3>5
  <2> QED
    BY <1>1, <2>3, <2>4, <2>5 DEF PlanNext
<1> QED
  BY <1>1, <1>2, <1>3 DEF PlannedInv

\* The first pass begins, over the plans.
LEMMA StartCheapKeepsPlanned ==
  ASSUME PlannedInv, GateInv, StartCheap, phase = "crawl", phase' = phase, sites' = sites
  PROVE  PlannedInv'
<1>1. /\ dry' = dry /\ planning' = planning
      /\ plans' = [i \in DOMAIN plans |-> WithFallback(plans[i])]
  BY DEF StartCheap
<1>2. CASE dry
  BY <1>1, <1>2 DEF PlannedInv
<1>3. CASE ~dry
  <2>1. \A i \in DOMAIN plans : WithFallback(plans[i]) = plans[i]
    BY <1>3 DEF WithFallback
  <2>2. ToSet(plans') = ToSet(plans)
    BY <1>1, <2>1 DEF ToSet
  <2> QED
    BY <1>1, <1>3, <2>2 DEF PlannedInv, PlanningForm, Resting
<1> QED
  BY <1>2, <1>3 DEF PlannedInv

\* The gate closes: the parser is given the sites that passed, and that of the row.
LEMMA AdmittedSites ==
  ASSUME ReviewInv, NEW site, NEW deep, IsList(deep)
  PROVE  LET input == IF site = "" THEN <<>> ELSE <<site>>
         IN  /\ IsList(FirstOfEach(input \o deep))
             /\ ToSet(FirstOfEach(input \o deep)) \subseteq ToSet(deep) \cup ({site} \ {""})
<1> DEFINE input == IF site = "" THEN <<>> ELSE <<site>>
           row == {site} \ {""}
<1>1. input \in Seq(row)
  <2>1. site # "" => site \in row
    OBVIOUS
  <2>2. input = <<>> \/ (input = <<site>> /\ site \in row)
    BY <2>1
  <2> HIDE DEF input, row
  <2> QED
    BY <2>2, SmallSeqs
<1> HIDE DEF input, row
<1>2. IsList(input) /\ ToSet(input) \subseteq row
  BY <1>1, SeqMembers
<1>3. IsList(input \o deep) /\ ToSet(input \o deep) = ToSet(input) \cup ToSet(deep)
  BY <1>2, ConcatTells
<1>4. /\ IsList(FirstOfEach(input \o deep))
      /\ ToSet(FirstOfEach(input \o deep)) \subseteq ToSet(input \o deep)
  BY <1>3, FirstOfEachTells
<1> QED
  BY <1>2, <1>3, <1>4 DEF input, row

\* The row's own site, the candidates of its sources, the sites that were let
\* in, and the keys of those the parser has probed.
RowSite(s) == {s.company.site} \ {""}
Wanted(s) == ToSet(ChooseCandidateSites(s.company.claims))
Admitted(s) == ToSet(s.opened) \cup RowSite(s)
Probed(s) == {s.probed[i].site : i \in DOMAIN s.probed}
ProbedKeys(s) == {KeyOf[x] : x \in Probed(s)}

\* A phone that two sources, the row or a site of the company tell.
Supported(v, claims, ds) ==
  \/ Cardinality({x.source : x \in {y \in OfClaims("phone", claims) :
                                      y.value = v /\ y.source # Input}}) >= 2
  \/ v \in InputValues("phone", claims)
  \/ \E d \in ds : d.belongs /\ v \in d.phones

\* What is known of the sites, from one phase to the next.
AtGate(s) ==
  /\ s.pending = <<>> /\ s.validated = <<>> /\ s.plans = <<>> /\ s.probed = <<>>
  /\ IsList(s.todo) /\ IsList(s.surface) /\ IsList(s.opened)
  /\ \A d \in ToSet(s.surface) \cup ToSet(s.opened) : Unproven(d)
  /\ \A c \in Wanted(s) : c \in ToSet(s.todo) \/ Keyed(ToSet(s.surface) \cup ToSet(s.opened), c)

AtCrawl(s) ==
  /\ s.plans = <<>> /\ s.probed = <<>> /\ IsList(s.pending) /\ IsList(s.validated)
  /\ \A d \in ToSet(s.validated) \cup ToSet(s.pending) : Unproven(d)
  /\ \A c \in Wanted(s) : Keyed(ToSet(s.validated) \cup ToSet(s.pending), c)

AtCheck(s) ==
  /\ IsList(s.plans) /\ IsList(s.pending) /\ IsList(s.validated)
  /\ \A p \in ToSet(s.plans) : KeyOf[p.site] \in ProbedKeys(s)
  /\ \A d \in ToSet(s.pending) : Unproven(d)
  /\ \A d \in ToSet(s.validated) : Settled(d, ProbedKeys(s), s.company.claims)
  /\ \A c \in Wanted(s) : Seen(ToSet(s.validated), c) \/ Keyed(ToSet(s.pending), c)
  /\ Probed(s) \subseteq Admitted(s)

Concluded(s) ==
  /\ s.pending = <<>> /\ Probed(s) \subseteq Admitted(s)
  /\ \A d \in ToSet(s.validated) : Settled(d, ProbedKeys(s), s.company.claims)
  /\ \A c \in Wanted(s) : Seen(ToSet(s.validated), c)
  /\ \A v \in s.trusted.phones : Supported(v, s.company.claims, ToSet(s.validated))

JudgeInv ==
  ~dry => /\ phase = "gate" => AtGate(study)
          /\ phase = "crawl" => AtCrawl(study) /\ ToSet(sites) \subseteq Admitted(study)
          /\ phase = "check" => AtCheck(study)
          /\ phase \in {"review", "end"} => Concluded(study)

\* The invariant says what the property says.
LEMMA JudgeInvSuffices == JudgeInv => SitesAreJudged
<1> SUFFICES ASSUME JudgeInv, phase = "end", ~dry PROVE SitesAreJudged
  BY DEF SitesAreJudged
<1> DEFINE ds == ToSet(study.validated)
           planned == {study.probed[i].site : i \in DOMAIN study.probed}
           Finals(c) == {Shown(p).final : p \in FrontPage[c]} \ {""}
           Places(c) == {c, KeyOf[c]} \cup {KeyOf[f] : f \in Finals(c)}
           Told(v) == {x.source : x \in {y \in OfClaims("phone", Claims) :
                                           y.value = v /\ y.source # Input}}
<1>1. Concluded(study)
  BY DEF JudgeInv
<1>2. planned = Probed(study) /\ {KeyOf[s] : s \in planned} = ProbedKeys(study)
  BY DEF Probed, ProbedKeys
<1>3. \A c : Places(c) = PlacesOf(c)
  BY DEF PlacesOf
<1>4. study.pending = <<>>
  BY <1>1 DEF Concluded
<1>5. planned \subseteq ToSet(study.opened) \cup ({study.company.site} \ {""})
  <2> HIDE DEF planned
  <2> QED
    BY <1>1, <1>2 DEF Concluded, Admitted, RowSite
<1>6. \A c \in ToSet(ChooseCandidateSites(Claims)) : \E d \in ds : {d.url, SiteKey(d)} \cap Places(c) # {}
  <2> HIDE DEF Places
  <2> QED
    BY <1>1, <1>3 DEF Concluded, Wanted, Seen, Claims
<1>7. \A d \in ds : Settled(d, {KeyOf[s] : s \in planned}, Claims)
  <2> HIDE DEF planned
  <2> QED
    BY <1>1, <1>2 DEF Concluded, Claims
<1>8. \A v \in study.trusted.phones :
        \/ Cardinality(Told(v)) >= 2 \/ v \in InputValues("phone", Claims)
        \/ \E d \in ds : d.belongs /\ v \in d.phones
  BY <1>1 DEF Concluded, Supported, Claims
<1> HIDE DEF ds, planned, Places, Told
<1>9. /\ \A d \in ds : d.belongs <=> d.decision = "verified"
      /\ \A d \in ds : d.belongs =>
           /\ d.url \in {KeyOf[s] : s \in planned}
           /\ d.hard = {} \/ d.inn \/ d.final \in DomainsOf("email", Claims)
  BY <1>7 DEF Settled
<1> QED
  BY <1>4, <1>5, <1>6, <1>8, <1>9, Zenon DEF SitesAreJudged, ds, planned, Places, Told

LEMMA JudgeInit == Init => JudgeInv
BY DEF Init, JudgeInv

\* A company is taken up, with its candidates.
LEMMA ChooseSitesKeepsJudge ==
  ASSUME NEW c \in Companies, ChooseSites(c)
  PROVE  JudgeInv'
<1> DEFINE todo == ChooseCandidateSites(c.claims)
<1>1. /\ phase' = "gate" /\ study' = [NewStudy(c) EXCEPT !.todo = todo]
  BY DEF ChooseSites
<1>2. IsList(todo)
  BY CandidatesList, CompanySitesAssumption
<1>3. Wanted(study') = ToSet(todo)
  <2>1. study'.company = c
    BY <1>1 DEF NewStudy
  <2> QED
    BY <2>1 DEF Wanted
<1> HIDE DEF todo
<1>4. /\ study'.todo = todo /\ study'.surface = <<>> /\ study'.opened = <<>>
      /\ study'.pending = <<>> /\ study'.validated = <<>> /\ study'.plans = <<>>
      /\ study'.probed = <<>>
  BY <1>1 DEF NewStudy
<1>5. AtGate(study')
  BY <1>2, <1>3, <1>4, NoMembers DEF AtGate
<1> QED
  BY <1>1, <1>5 DEF JudgeInv

\* The gate looks at a candidate: a decision stays on it, or on one of its key.
LEMMA SurfaceCheckKeepsJudge ==
  ASSUME JudgeInv, ReviewInv, PlannedInv, SurfaceCheck
  PROVE  JudgeInv'
<1> DEFINE head == Head(study.todo)
<1>1. /\ phase = "gate" /\ phase' = phase /\ study.todo # <<>> /\ dry' = dry
  BY Zenon DEF SurfaceCheck, crawlVars
<1>2. ~dry /\ AtGate(study) /\ StudyForm(study)
  BY <1>1 DEF PlannedInv, JudgeInv, ReviewInv
<1>3. PICK p \in FrontPage[head] :
        LET d == AnalyzeSurface(head, p, Claims)
            alike == \E i \in DOMAIN study.opened : SiteKey(study.opened[i]) = SiteKey(d)
        IN  study' = [study EXCEPT !.todo = Tail(@),
                        !.surface = IF d.decision = "candidate" THEN @ ELSE Append(@, d),
                        !.opened = IF d.decision = "candidate" /\ ~alike THEN Append(@, d) ELSE @]
  BY Zenon DEF SurfaceCheck
<1> DEFINE d == AnalyzeSurface(head, p, Claims)
           alike == \E i \in DOMAIN study.opened : SiteKey(study.opened[i]) = SiteKey(d)
           prior == ToSet(study.surface) \cup ToSet(study.opened)
           after == ToSet(study'.surface) \cup ToSet(study'.opened)
<1>4. Unproven(d) /\ SiteKey(d) \in PlacesOf(head)
  BY SurfaceTells
<1> HIDE DEF d
<1>5. /\ study'.company = study.company /\ study'.pending = study.pending
      /\ study'.validated = study.validated /\ study'.plans = study.plans
      /\ study'.probed = study.probed
      /\ study'.todo = Tail(study.todo)
      /\ study'.surface = IF d.decision = "candidate" THEN study.surface ELSE Append(study.surface, d)
      /\ study'.opened = IF d.decision = "candidate" /\ ~alike THEN Append(study.opened, d)
                         ELSE study.opened
  <2> HIDE DEF alike
  <2>1. study' = [study EXCEPT !.todo = Tail(study.todo),
           !.surface = IF d.decision = "candidate" THEN study.surface ELSE Append(study.surface, d),
           !.opened = IF d.decision = "candidate" /\ ~alike THEN Append(study.opened, d)
                      ELSE study.opened]
    BY <1>3, Zenon DEF d, alike
  <2> QED
    BY <1>2, <2>1 DEF StudyForm
<1>6. /\ IsList(study.todo) /\ IsList(study.surface) /\ IsList(study.opened)
      /\ \A x \in prior : Unproven(x)
      /\ \A c \in Wanted(study) : c \in ToSet(study.todo) \/ Keyed(prior, c)
  BY <1>2 DEF AtGate
<1>7. IsList(study'.todo) /\ ToSet(study.todo) = {head} \cup ToSet(study'.todo)
  BY <1>1, <1>5, <1>6, TailTells
<1>8. /\ IsList(study'.surface) /\ IsList(study'.opened)
      /\ prior \subseteq after /\ after \subseteq prior \cup {d}
      /\ \E x \in after : SiteKey(x) = SiteKey(d)
  <2>1. /\ IsList(Append(study.surface, d)) /\ IsList(Append(study.opened, d))
        /\ ToSet(Append(study.surface, d)) = ToSet(study.surface) \cup {d}
        /\ ToSet(Append(study.opened, d)) = ToSet(study.opened) \cup {d}
    BY <1>6, AppendTells
  <2>2. alike => \E x \in ToSet(study.opened) : SiteKey(x) = SiteKey(d)
    BY DEF ToSet
  <2> HIDE DEF alike
  <2>3. /\ \/ study'.surface = study.surface
           \/ study'.surface = Append(study.surface, d)
        /\ \/ study'.opened = study.opened
           \/ study'.opened = Append(study.opened, d)
        /\ \/ study'.surface = Append(study.surface, d)
           \/ study'.opened = Append(study.opened, d)
           \/ alike /\ study'.opened = study.opened
    BY <1>5
  <2> QED
    BY <1>6, <2>1, <2>2, <2>3
<1> HIDE DEF prior, after, head, alike
<1>9. \A x \in after : Unproven(x)
  BY <1>4, <1>6, <1>8
<1>10. Wanted(study') = Wanted(study)
  BY <1>5 DEF Wanted
<1>11. \A c \in Wanted(study') : c \in ToSet(study'.todo) \/ Keyed(after, c)
  <2> SUFFICES ASSUME NEW c \in Wanted(study), c \notin ToSet(study'.todo) PROVE Keyed(after, c)
    BY <1>10
  <2>1. c = head \/ Keyed(prior, c)
    BY <1>6, <1>7
  <2>2. CASE c = head
    BY <2>2, <1>4, <1>8 DEF Keyed
  <2>3. CASE Keyed(prior, c)
    BY <2>3, <1>8 DEF Keyed
  <2> QED
    BY <2>1, <2>2, <2>3
<1>12. AtGate(study')
  BY <1>2, <1>5, <1>7, <1>8, <1>9, <1>11 DEF AtGate, after
<1> QED
  BY <1>1, <1>12 DEF JudgeInv

\* The gate closes: the decisions are divided, and the parser is given the sites.
LEMMA AdmitSitesKeepsJudge ==
  ASSUME JudgeInv, ReviewInv, PlannedInv, NEW signal, AdmitSites(signal)
  PROVE  JudgeInv' /\ PlannedInv'
<1> DEFINE deep == IF SkipDeepParse(signal, AllowedBuckets) THEN <<>>
                   ELSE [i \in DOMAIN study.opened |-> SiteKey(study.opened[i])]
           all == study.surface \o study.opened
           input == IF study.company.site = "" THEN <<>> ELSE <<study.company.site>>
           kept == PendingOf(all, ToSet(deep))
           left == Those({i \in DOMAIN all : SiteKey(all[i]) \notin ToSet(deep)}, all)
           next == [study EXCEPT !.pending = kept, !.validated = left,
                                 !.surface = <<>>, !.opened = deep]
           told == TrustedContacts(Claims, left)
<1>1. /\ phase = "gate" /\ UNCHANGED crawlVars
      /\ \/ /\ phase' = "end" /\ sites' = sites /\ deep = <<>>
            /\ study' = [next EXCEPT !.trusted = TrustedContacts(Claims, next.validated)]
         \/ phase' = "crawl" /\ study' = next /\ sites' = FirstOfEach(input \o deep)
  BY Zenon DEF AdmitSites
<1>2. dry' = dry /\ plans' = plans /\ planning' = planning
  BY <1>1 DEF crawlVars
<1>3. ~dry /\ plans = <<>> /\ Resting /\ AtGate(study) /\ StudyForm(study)
  BY <1>1 DEF PlannedInv, JudgeInv, ReviewInv
<1>4. IsList(study.surface) /\ IsList(study.opened)
  BY <1>3 DEF AtGate
<1>5. IsList(deep)
  <2>1. study.opened \in Seq(ToSet(study.opened))
    BY <1>4 DEF IsList
  <2>2. Len(study.opened) \in Nat /\ DOMAIN study.opened = 1..Len(study.opened)
    BY <2>1, LenProperties
  <2> DEFINE full == [i \in DOMAIN study.opened |-> SiteKey(study.opened[i])]
  <2>3. full = [i \in 1..Len(study.opened) |-> full[i]]
    BY <2>2
  <2>4. deep = <<>> \/ deep = full
    OBVIOUS
  <2> HIDE DEF full, deep
  <2>5. full \in [1..Len(study.opened) -> ToSet(full)]
    BY <2>3 DEF ToSet
  <2>6. IsList(full)
    BY <2>2, <2>5, SmallSeqs DEF IsList
  <2> QED
    BY <2>4, <2>6, NoMembers
<1>6. IsList(all) /\ ToSet(all) = ToSet(study.surface) \cup ToSet(study.opened)
  BY <1>4, ConcatTells
<1> HIDE DEF deep, all
<1>7. /\ IsList(left) /\ IsList(kept)
      /\ ToSet(left) \cup ToSet(kept) \subseteq ToSet(all)
      /\ \A d \in ToSet(all) : \E e \in ToSet(left) \cup ToSet(kept) : SiteKey(e) = SiteKey(d)
      /\ ToSet(deep) = {} => kept = <<>>
  BY <1>6, DividedTells
<1>8. /\ IsList(FirstOfEach(input \o deep))
      /\ ToSet(FirstOfEach(input \o deep)) \subseteq ToSet(deep) \cup RowSite(study)
  BY <1>5, AdmittedSites DEF RowSite
<1> HIDE DEF input, left, kept
<1>9. /\ next.company = study.company /\ next.plans = study.plans /\ next.probed = study.probed
      /\ next.pending = kept /\ next.validated = left /\ next.opened = deep
      /\ DOMAIN next = DOMAIN study
  BY <1>3 DEF StudyForm
<1>10. ASSUME study' = [next EXCEPT !.trusted = TrustedContacts(Claims, next.validated)]
       PROVE  /\ study'.company = study.company /\ study'.plans = study.plans
              /\ study'.probed = study.probed /\ study'.pending = kept
              /\ study'.validated = left /\ study'.opened = deep /\ study'.trusted = told
  <2>1. study' = [next EXCEPT !.trusted = told]
    BY <1>9, <1>10
  <2>2. "trusted" \in DOMAIN next
    BY <1>3, <1>9 DEF StudyForm
  <2> HIDE DEF next, told
  <2> QED
    BY <1>9, <2>1, <2>2
<1> HIDE DEF told, next
<1>11. /\ study'.company = study.company /\ study'.plans = study.plans
       /\ study'.probed = study.probed /\ study'.pending = kept
       /\ study'.validated = left /\ study'.opened = deep
       /\ \/ phase' = "crawl" /\ sites' = FirstOfEach(input \o deep)
          \/ phase' = "end" /\ sites' = sites /\ deep = <<>> /\ study'.trusted = told
  BY <1>1, <1>9, <1>10
<1>12. Wanted(study') = Wanted(study) /\ RowSite(study') = RowSite(study)
  BY <1>11 DEF Wanted, RowSite
<1>13. /\ study.plans = <<>> /\ study.probed = <<>> /\ study.todo = <<>>
       /\ \A d \in ToSet(all) : Unproven(d)
       /\ \A c \in Wanted(study) : Keyed(ToSet(all), c)
  <2>1. study.todo = <<>>
    BY Zenon DEF AdmitSites
  <2> QED
    BY <1>3, <1>6, <2>1, NoMembers DEF AtGate
<1>14. /\ \A d \in ToSet(left) \cup ToSet(kept) : Unproven(d)
       /\ \A c \in Wanted(study) : Keyed(ToSet(left) \cup ToSet(kept), c)
  BY <1>7, <1>13 DEF Keyed
<1>15. CASE phase' = "crawl" /\ sites' = FirstOfEach(input \o deep)
  <2>1. AtCrawl(study')
    BY <1>7, <1>11, <1>12, <1>13, <1>14 DEF AtCrawl
  <2>2. ToSet(sites') \subseteq Admitted(study')
    BY <1>8, <1>11, <1>12, <1>15 DEF Admitted
  <2>3. IsList(sites') /\ ToSet(plans) = {}
    BY <1>3, <1>8, <1>15, NoMembers
  <2> QED
    BY <1>2, <1>3, <1>15, <2>1, <2>2, <2>3 DEF JudgeInv, PlannedInv, PlanningForm, Resting
<1>16. CASE phase' = "end" /\ sites' = sites /\ deep = <<>> /\ study'.trusted = told
  <2>1. kept = <<>> /\ ToSet(kept) = {} /\ Probed(study') = {}
    <3>1. kept = <<>> /\ ToSet(kept) = {}
      BY <1>7, <1>16, NoMembers
    <3>2. DOMAIN study'.probed = {}
      BY <1>11, <1>13
    <3> QED
      BY <3>1, <3>2 DEF Probed
  <2>2. \A d \in ToSet(left) : Unproven(d) /\ Settled(d, ProbedKeys(study'), study'.company.claims)
    BY <1>14 DEF Unproven, Settled
  <2>3. \A c \in Wanted(study') : Seen(ToSet(left), c)
    BY <1>12, <1>14, <2>1 DEF Keyed, Seen
  <2>4. \A v \in study'.trusted.phones : Supported(v, study'.company.claims, ToSet(left))
    <3>1. told = TrustedContacts(study'.company.claims, left)
      BY <1>11 DEF told, Claims
    <3> QED
      BY <1>16, <2>2, <3>1, TrustedTells DEF Supported, Unproven
  <2>5. Concluded(study')
    BY <1>11, <2>1, <2>2, <2>3, <2>4 DEF Concluded
  <2> QED
    BY <1>2, <1>3, <1>16, <2>5 DEF JudgeInv, PlannedInv, PlanningForm, Resting
<1> QED
  BY <1>11, <1>15, <1>16

\* The parser is done with the company: its sites are those it was given.
LEMMA ParserReturnsKeepsJudge ==
  ASSUME JudgeInv, ReviewInv, PlannedInv, GateInv, ParserReturns
  PROVE  JudgeInv' /\ PlannedInv'
<1> DEFINE ps == [i \in DOMAIN plans |-> [site |-> plans[i].site,
                                          allows |-> AllowsDeepCheck(plans[i])]]
           found == [i \in DOMAIN plans |-> [site |-> plans[i].site,
                                             cadence |-> Cadence(plans[i])]]
<1>1. /\ phase = "crawl" /\ ~dry /\ dry' = dry /\ sites' = sites /\ planning' = planning
      /\ plans' = <<>> /\ phase' = "check"
      /\ \E recs : study' = [study EXCEPT !.plans = ps, !.probed = found, !.records = recs]
  BY Zenon DEF ParserReturns
<1>2. /\ AtCrawl(study) /\ ToSet(sites) \subseteq Admitted(study) /\ StudyForm(study)
      /\ \A p \in ToSet(plans) : p.site \in ToSet(sites)
      /\ IsList(plans)
  BY <1>1 DEF JudgeInv, ReviewInv, PlannedInv, GateInv
<1>3. /\ DOMAIN plans = 1..Len(plans) /\ Len(plans) \in Nat
  <2>1. plans \in Seq(ToSet(plans))
    BY <1>2 DEF IsList
  <2> QED
    BY <2>1, LenProperties
<1>4. /\ IsList(ps)
      /\ \A p \in ToSet(ps) : \E i \in DOMAIN plans : p.site = plans[i].site
  <2>1. \A i \in DOMAIN plans : ps[i].site = plans[i].site
    OBVIOUS
  <2>2. DOMAIN ps = DOMAIN plans /\ ps = [i \in 1..Len(plans) |-> ps[i]]
    BY <1>3
  <2> HIDE DEF ps
  <2>3. ps \in [1..Len(plans) -> ToSet(ps)]
    BY <1>3, <2>2 DEF ToSet
  <2>4. IsList(ps)
    BY <1>3, <2>3, SmallSeqs DEF IsList
  <2> QED
    BY <2>1, <2>2, <2>4 DEF ToSet
<1>5. DOMAIN found = DOMAIN plans /\ \A i \in DOMAIN plans : found[i].site = plans[i].site
  OBVIOUS
<1> HIDE DEF ps, found
<1>6. /\ study'.company = study.company /\ study'.opened = study.opened
      /\ study'.pending = study.pending /\ study'.validated = study.validated
      /\ study'.plans = ps /\ study'.probed = found
  BY <1>1, <1>2 DEF StudyForm
<1>7. Wanted(study') = Wanted(study) /\ Admitted(study') = Admitted(study)
  BY <1>6 DEF Wanted, Admitted, RowSite
<1>8. Probed(study') = {plans[i].site : i \in DOMAIN plans}
  BY <1>5, <1>6 DEF Probed
<1>9. Probed(study') \subseteq Admitted(study')
  BY <1>2, <1>7, <1>8 DEF ToSet
<1>10. \A p \in ToSet(ps) : KeyOf[p.site] \in ProbedKeys(study')
  BY <1>4, <1>8 DEF ProbedKeys
<1>11. \A d \in ToSet(study.validated) \cup ToSet(study.pending) : Unproven(d)
  BY <1>2 DEF AtCrawl
<1>12. \A d \in ToSet(study.validated) : Settled(d, ProbedKeys(study'), study'.company.claims)
  BY <1>11 DEF Unproven, Settled
<1>13. \A c \in Wanted(study) : Seen(ToSet(study.validated), c) \/ Keyed(ToSet(study.pending), c)
  BY <1>2 DEF AtCrawl, Keyed, Seen
<1>14. AtCheck(study')
  BY <1>2, <1>4, <1>6, <1>7, <1>9, <1>10, <1>11, <1>12, <1>13 DEF AtCheck, AtCrawl
<1>15. PlannedInv'
  <2>1. ToSet(plans') = {}
    BY <1>1, NoMembers
  <2> QED
    BY <1>1, <2>1 DEF PlannedInv, PlanningForm, Resting
<1> QED
  BY <1>1, <1>14, <1>15 DEF JudgeInv

\* The decisions on a site are taken from those that wait.
LEMMA WaitingTells ==
  ASSUME IsList(study.pending), NEW key
  PROVE  /\ IsList(Waiting(key)) /\ IsList(PendingAt(key))
         /\ ToSet(study.pending) = ToSet(Waiting(key)) \cup ToSet(PendingAt(key))
         /\ \A d \in ToSet(PendingAt(key)) : SiteKey(d) = key
<1> DEFINE I == {i \in DOMAIN study.pending : SiteKey(study.pending[i]) = key}
           J == {i \in DOMAIN study.pending : SiteKey(study.pending[i]) # key}
<1>1. /\ IsList(PendingAt(key)) /\ ToSet(PendingAt(key)) = {study.pending[i] : i \in I}
      /\ IsList(Waiting(key)) /\ ToSet(Waiting(key)) = {study.pending[i] : i \in J}
  <2>1. I \cap DOMAIN study.pending = I /\ J \cap DOMAIN study.pending = J
    OBVIOUS
  <2>2. PendingAt(key) = Those(I, study.pending) /\ Waiting(key) = Those(J, study.pending)
    BY DEF PendingAt, Waiting
  <2> HIDE DEF I, J
  <2> QED
    BY <2>1, <2>2, ThoseMembers
<1> QED
  BY <1>1 DEF ToSet

\* A site that was not probed keeps the decision of the gate.
LEMMA KeepSurfaceKeepsJudge ==
  ASSUME JudgeInv, ReviewInv, PlannedInv, KeepSurface
  PROVE  JudgeInv'
<1> DEFINE key == KeyOf[Head(study.plans).site]
<1>1. /\ phase = "check" /\ phase' = phase /\ dry' = dry /\ study.plans # <<>>
      /\ study' = [study EXCEPT !.plans = Tail(study.plans), !.pending = Waiting(key),
                                !.validated = study.validated \o PendingAt(key)]
  BY Zenon DEF KeepSurface, crawlVars
<1>2. ~dry /\ AtCheck(study) /\ StudyForm(study)
  BY <1>1 DEF PlannedInv, JudgeInv, ReviewInv
<1> HIDE DEF key
<1>3. /\ study'.company = study.company /\ study'.opened = study.opened
      /\ study'.probed = study.probed /\ study'.plans = Tail(study.plans)
      /\ study'.pending = Waiting(key)
      /\ study'.validated = study.validated \o PendingAt(key)
  BY <1>1, <1>2 DEF StudyForm
<1>4. /\ Wanted(study') = Wanted(study) /\ Admitted(study') = Admitted(study)
      /\ Probed(study') = Probed(study) /\ ProbedKeys(study') = ProbedKeys(study)
  BY <1>3 DEF Wanted, Admitted, RowSite, Probed, ProbedKeys
<1>5. IsList(study.plans) /\ IsList(study.pending) /\ IsList(study.validated)
  BY <1>2 DEF AtCheck
<1>6. /\ IsList(study'.plans)
      /\ ToSet(study'.plans) \subseteq ToSet(study.plans)
  BY <1>1, <1>3, <1>5, TailTells
<1>7. /\ IsList(study'.pending) /\ IsList(PendingAt(key))
      /\ ToSet(study.pending) = ToSet(study'.pending) \cup ToSet(PendingAt(key))
  BY <1>3, <1>5, WaitingTells
<1>8. /\ IsList(study'.validated)
      /\ ToSet(study'.validated) = ToSet(study.validated) \cup ToSet(PendingAt(key))
  BY <1>3, <1>5, <1>7, ConcatTells
<1>9. \A d \in ToSet(study.pending) : Unproven(d)
  BY <1>2 DEF AtCheck
<1>10. \A d \in ToSet(study'.validated) : Settled(d, ProbedKeys(study), study.company.claims)
  BY <1>2, <1>7, <1>8, <1>9 DEF AtCheck, Unproven, Settled
<1>11. \A c \in Wanted(study) : Seen(ToSet(study'.validated), c) \/ Keyed(ToSet(study'.pending), c)
  BY <1>2, <1>7, <1>8 DEF AtCheck, Seen, Keyed
<1>12. /\ \A p \in ToSet(study.plans) : KeyOf[p.site] \in ProbedKeys(study)
       /\ Probed(study) \subseteq Admitted(study)
  BY <1>2 DEF AtCheck
<1>13. AtCheck(study')
  BY <1>3, <1>4, <1>6, <1>7, <1>8, <1>9, <1>10, <1>11, <1>12 DEF AtCheck
<1> QED
  BY <1>1, <1>13 DEF JudgeInv

\* The full check puts a decision on the site in the place of what waits on it.
LEMMA CheckSiteKeepsJudge ==
  ASSUME JudgeInv, ReviewInv, PlannedInv, CheckSite
  PROVE  JudgeInv'
<1> DEFINE key == KeyOf[Head(study.plans).site]
           full(d, heard) ==
             [study EXCEPT !.plans = Tail(study.plans), !.pending = Waiting(key),
                           !.validated = Append(study.validated, d),
                           !.heard = study.heard \o heard]
           Decided(d, heard) == study' = full(d, heard)
<1>1. /\ phase = "check" /\ phase' = phase /\ dry' = dry /\ study.plans # <<>>
      /\ \E p \in FrontPage[key], more \in SUBSET Extra[key] :
           \/ /\ p.status # "success" /\ llm' = llm
              /\ Decided(AnalyzeByRules(key, p, more, Claims), <<>>)
           \/ /\ p.status = "success"
              /\ \E first \in Answers : \E second \in Seconds("site_decision", first) :
                 \E e \in {Evaluated(WithExtraPages(Shown(p), more), Claims)} :
                 \E a \in {Analyzed(AnalyzeByRules(key, p, more, Claims), e, first, second)} :
                   Decided(a.decision, a.heard) /\ llm' = a.llm
  BY Zenon DEF CheckSite, crawlVars
<1>2. ~dry /\ AtCheck(study) /\ StudyForm(study)
  BY <1>1 DEF PlannedInv, JudgeInv, ReviewInv
<1> DEFINE keys == ProbedKeys(study)
<1> HIDE DEF key, full, keys
<1>3. /\ IsList(study.plans) /\ IsList(study.pending) /\ IsList(study.validated)
      /\ \A p \in ToSet(study.plans) : KeyOf[p.site] \in keys
      /\ \A d \in ToSet(study.pending) : Unproven(d)
      /\ \A d \in ToSet(study.validated) : Settled(d, keys, Claims)
      /\ Probed(study) \subseteq Admitted(study)
  BY <1>2 DEF AtCheck, keys, Claims
<1>4. IsList(Tail(study.plans)) /\ ToSet(Tail(study.plans)) \subseteq ToSet(study.plans) /\ key \in keys
  <2>1. /\ IsList(Tail(study.plans)) /\ ToSet(Tail(study.plans)) \subseteq ToSet(study.plans)
        /\ Head(study.plans) \in ToSet(study.plans)
    BY <1>1, <1>3, TailTells
  <2> QED
    BY <1>3, <2>1 DEF key
<1>5. \E d, h : study' = full(d, h) /\ d.url = key /\ Settled(d, keys, Claims)
  <2>1. PICK p \in FrontPage[key], more \in SUBSET Extra[key] :
           \/ /\ p.status # "success" /\ llm' = llm
              /\ Decided(AnalyzeByRules(key, p, more, Claims), <<>>)
           \/ /\ p.status = "success"
              /\ \E first \in Answers : \E second \in Seconds("site_decision", first) :
                 \E e \in {Evaluated(WithExtraPages(Shown(p), more), Claims)} :
                 \E a \in {Analyzed(AnalyzeByRules(key, p, more, Claims), e, first, second)} :
                   Decided(a.decision, a.heard) /\ llm' = a.llm
    BY <1>1, Zenon
  <2> DEFINE r == AnalyzeByRules(key, p, more, Claims)
             e == Evaluated(WithExtraPages(Shown(p), more), Claims)
             a(first, second) == Analyzed(r, e, first, second)
  <2>2. \A first, second :
          /\ r.url = key /\ Settled(r, keys, Claims)
          /\ p.status = "success" => /\ a(first, second).decision.url = key
                                     /\ Settled(a(first, second).decision, keys, Claims)
    <3> SUFFICES ASSUME NEW first, NEW second
                 PROVE  /\ r.url = key /\ Settled(r, keys, Claims)
                        /\ p.status = "success" => /\ a(first, second).decision.url = key
                                                   /\ Settled(a(first, second).decision, keys, Claims)
      OBVIOUS
    <3> QED
      BY <1>4, CheckedTells
  <2>3. \/ Decided(r, <<>>)
        \/ p.status = "success" /\ \E first, second : Decided(a(first, second).decision,
                                                              a(first, second).heard)
    BY <2>1, Zenon
  <2> HIDE DEF r, e, a
  <2> QED
    BY <2>2, <2>3, Zenon
<1>6. PICK d, h : study' = full(d, h) /\ d.url = key /\ Settled(d, keys, Claims)
  BY <1>5
<1>7. /\ study'.company = study.company /\ study'.opened = study.opened
      /\ study'.probed = study.probed /\ study'.plans = Tail(study.plans)
      /\ study'.pending = Waiting(key)
      /\ study'.validated = Append(study.validated, d)
  BY <1>2, <1>6 DEF StudyForm, full
<1>8. /\ Wanted(study') = Wanted(study) /\ Admitted(study') = Admitted(study)
      /\ Probed(study') = Probed(study) /\ ProbedKeys(study') = keys
      /\ study'.company.claims = Claims
  BY <1>7 DEF Wanted, Admitted, RowSite, Probed, ProbedKeys, keys, Claims
<1>9. /\ IsList(study'.pending)
      /\ ToSet(study.pending) = ToSet(study'.pending) \cup ToSet(PendingAt(key))
      /\ \A x \in ToSet(PendingAt(key)) : SiteKey(x) = key
  BY <1>3, <1>7, WaitingTells
<1>10. /\ IsList(study'.validated)
       /\ ToSet(study'.validated) = ToSet(study.validated) \cup {d}
  BY <1>3, <1>7, AppendTells
<1>11. \A c \in Wanted(study) : Seen(ToSet(study'.validated), c) \/ Keyed(ToSet(study'.pending), c)
  <2> SUFFICES ASSUME NEW c \in Wanted(study)
               PROVE  Seen(ToSet(study'.validated), c) \/ Keyed(ToSet(study'.pending), c)
    OBVIOUS
  <2>1. Seen(ToSet(study.validated), c) \/ Keyed(ToSet(study.pending), c)
    BY <1>2 DEF AtCheck
  <2>2. CASE Seen(ToSet(study.validated), c)
    BY <2>2, <1>10 DEF Seen
  <2>3. CASE Keyed(ToSet(study.pending), c)
    <3>1. PICK x \in ToSet(study.pending) : SiteKey(x) \in PlacesOf(c)
      BY <2>3 DEF Keyed
    <3>2. CASE x \in ToSet(study'.pending)
      BY <3>1, <3>2 DEF Keyed
    <3>3. CASE x \in ToSet(PendingAt(key))
      BY <3>1, <3>3, <1>6, <1>9, <1>10 DEF Seen
    <3> QED
      BY <3>1, <3>2, <3>3, <1>9
  <2> QED
    BY <2>1, <2>2, <2>3
<1>12. AtCheck(study')
  BY <1>3, <1>4, <1>6, <1>7, <1>8, <1>9, <1>10, <1>11 DEF AtCheck
<1> QED
  BY <1>1, <1>12 DEF JudgeInv

\* The checks are over: what still waits is taken as it is.
LEMMA EndChecksKeepsJudge ==
  ASSUME JudgeInv, ReviewInv, PlannedInv, EndChecks
  PROVE  JudgeInv'
<1> DEFINE all == study.validated \o study.pending
           told == TrustedContacts(Claims, all)
<1>1. /\ phase = "check" /\ phase' = "review" /\ dry' = dry
      /\ study' = [study EXCEPT !.validated = all, !.pending = <<>>, !.heard = <<>>,
                                !.trusted = told]
  BY Zenon DEF EndChecks, crawlVars
<1>2. ~dry /\ AtCheck(study) /\ StudyForm(study)
  BY <1>1 DEF PlannedInv, JudgeInv, ReviewInv
<1>3. IsList(all) /\ ToSet(all) = ToSet(study.validated) \cup ToSet(study.pending)
  BY <1>2, ConcatTells DEF AtCheck
<1> HIDE DEF all, told
<1>4. /\ study'.company = study.company /\ study'.opened = study.opened
      /\ study'.probed = study.probed /\ study'.pending = <<>>
      /\ study'.validated = all /\ study'.trusted = told
  BY <1>1, <1>2 DEF StudyForm
<1>5. /\ Wanted(study') = Wanted(study) /\ Admitted(study') = Admitted(study)
      /\ Probed(study') = Probed(study) /\ ProbedKeys(study') = ProbedKeys(study)
      /\ study'.company.claims = Claims
  BY <1>4 DEF Wanted, Admitted, RowSite, Probed, ProbedKeys, Claims
<1>6. \A d \in ToSet(all) : Settled(d, ProbedKeys(study), Claims)
  BY <1>2, <1>3 DEF AtCheck, Unproven, Settled, Claims
<1>7. \A c \in Wanted(study) : Seen(ToSet(all), c)
  BY <1>2, <1>3 DEF AtCheck, Seen, Keyed
<1>8. \A v \in told.phones : Supported(v, Claims, ToSet(all))
  <2>1. \A d \in ToSet(all) : d.belongs <=> d.decision = "verified"
    BY <1>6 DEF Settled
  <2> QED
    BY <2>1, TrustedTells DEF Supported, told
<1>9. Concluded(study')
  BY <1>2, <1>4, <1>5, <1>6, <1>7, <1>8 DEF Concluded, AtCheck
<1> QED
  BY <1>1, <1>9 DEF JudgeInv

\* A step that leaves what is decided of the sites.
LEMMA JudgeStays ==
  ASSUME JudgeInv, phase' = phase, sites' = sites, dry' = dry, study' = study
  PROVE  JudgeInv'
BY DEF JudgeInv

LEMMA ConcludedStays ==
  ASSUME NEW s, NEW t, Concluded(s), t.company = s.company, t.opened = s.opened,
         t.pending = s.pending, t.validated = s.validated, t.probed = s.probed,
         t.trusted = s.trusted
  PROVE  Concluded(t)
<1>1. /\ Wanted(t) = Wanted(s) /\ Admitted(t) = Admitted(s)
      /\ Probed(t) = Probed(s) /\ ProbedKeys(t) = ProbedKeys(s)
  BY DEF Wanted, Admitted, RowSite, Probed, ProbedKeys
<1> QED
  BY <1>1 DEF Concluded

LEMMA ReviewKeepsJudge ==
  ASSUME JudgeInv, ReviewInv, PlannedInv, ReviewRecord \/ Finish
  PROVE  JudgeInv'
<1>1. /\ phase = "review" /\ phase' \in {"review", "end"} /\ dry' = dry
      /\ \/ \E x, y : study' = [study EXCEPT !.next = x, !.records = y]
         \/ \E x, y : study' = [study EXCEPT !.cards = x, !.refresh = y]
  <2>1. CASE ReviewRecord
    <3> DEFINE full(x, y) == [study EXCEPT !.next = x, !.records = y]
               Becomes(r) == study' = full(study.next + 1, [study.records EXCEPT ![study.next] = r])
    <3>1. /\ phase = "review" /\ phase' = phase /\ UNCHANGED crawlVars /\ \E r : Becomes(r)
      BY <2>1, Zenon DEF ReviewRecord
    <3>2. dry' = dry
      BY <3>1 DEF crawlVars
    <3> HIDE DEF full
    <3>3. \E x, y : study' = full(x, y)
      BY <3>1, Zenon
    <3> QED
      BY <3>1, <3>2, <3>3 DEF full
  <2>2. CASE Finish
    <3>1. /\ phase = "review" /\ phase' = "end" /\ UNCHANGED crawlVars
          /\ \E x, y : study' = [study EXCEPT !.cards = x, !.refresh = y]
      BY <2>2, Zenon DEF Finish
    <3> QED
      BY <3>1 DEF crawlVars
  <2> QED
    BY <2>1, <2>2
<1>2. ~dry /\ Concluded(study) /\ StudyForm(study)
  BY <1>1 DEF PlannedInv, JudgeInv, ReviewInv
<1>3. /\ study'.company = study.company /\ study'.opened = study.opened
      /\ study'.pending = study.pending /\ study'.validated = study.validated
      /\ study'.probed = study.probed /\ study'.trusted = study.trusted
  BY <1>1, <1>2 DEF StudyForm
<1>4. Concluded(study')
  BY <1>2, <1>3, ConcludedStays
<1> QED
  BY <1>1, <1>4 DEF JudgeInv

\* Every step of the parser keeps both.
LEMMA CrawlKeepsJudge ==
  ASSUME JudgeInv, PlannedInv, GateInv, Crawl
  PROVE  JudgeInv' /\ PlannedInv'
<1>1. phase = "crawl" /\ CrawlNext /\ sites' = sites /\ phase' = phase /\ study' = study
  BY Zenon DEF Crawl
<1>2. CASE PlanSites
  <2>1. dry' = dry
    BY <1>2 DEF PlanSites
  <2> QED
    BY <1>1, <1>2, <2>1, PlanSitesKeepPlanned, JudgeStays
<1>3. CASE StartCheap
  <2>1. dry' = dry
    BY <1>3 DEF StartCheap
  <2> QED
    BY <1>1, <1>3, <2>1, StartCheapKeepsPlanned, JudgeStays
<1>4. CASE \/ StartSite \/ SkipHeavy \/ SkipTail \/ EndSite
           \/ \E u \in DOMAIN Serve : \E a \in Serve[u] : \E dead \in SUBSET Flaky :
                FetchRoute(u, a, dead)
           \/ EndCheap \/ Judge \/ EndFull \/ Store
  <2>1. UNCHANGED crawlRest \/ UNCHANGED <<planning, plans, dry>>
    BY <1>4, Zenon DEF StartSite, SkipHeavy, SkipTail, EndSite, FetchRoute, EndCheap, Judge,
                       EndFull, Store
  <2>2. dry' = dry /\ plans' = plans /\ planning' = planning
    BY <2>1 DEF crawlRest
  <2> QED
    BY <1>1, <2>2, PlannedStays, JudgeStays
<1> QED
  BY <1>1, <1>2, <1>3, <1>4, Zenon DEF CrawlNext

\* Every step keeps both.
LEMMA JudgeNext ==
  ASSUME JudgeInv, PlannedInv, ReviewInv, GateInv, [Next]_vars
  PROVE  JudgeInv' /\ PlannedInv'
<1>1. CASE Crawl
  BY <1>1, CrawlKeepsJudge
<1>2. CASE ParserReturns
  BY <1>2, ParserReturnsKeepsJudge
<1>3. CASE \E signal \in GeoSignals : AdmitSites(signal)
  BY <1>3, AdmitSitesKeepsJudge
<1>4. CASE UNCHANGED vars \/ OthersAsk
  <2>1. UNCHANGED <<sites, crawlVars, phase, study>>
    BY <1>4, Zenon DEF vars, OthersAsk
  <2>2. /\ phase' = phase /\ sites' = sites /\ dry' = dry /\ study' = study
        /\ plans' = plans /\ planning' = planning
    BY <2>1 DEF crawlVars
  <2> QED
    BY <2>2, JudgeStays, PlannedStays
<1>5. CASE \/ \E c \in Companies : ChooseSites(c)
           \/ SurfaceCheck
           \/ KeepSurface \/ CheckSite \/ EndChecks
           \/ ReviewRecord \/ Finish
  <2>1. JudgeInv'
    BY <1>5, ChooseSitesKeepsJudge, SurfaceCheckKeepsJudge, KeepSurfaceKeepsJudge,
       CheckSiteKeepsJudge, EndChecksKeepsJudge, ReviewKeepsJudge
  <2>2. /\ UNCHANGED <<sites, crawlVars>> /\ phase # "crawl"
        /\ phase' \in {"start", "gate"} => phase \in {"start", "gate"}
    BY <1>5, Zenon DEF ChooseSites, SurfaceCheck, KeepSurface, CheckSite, EndChecks,
                       ReviewRecord, Finish
  <2>3. sites' = sites /\ dry' = dry /\ plans' = plans /\ planning' = planning /\ ~dry
    BY <2>2 DEF crawlVars, PlannedInv
  <2> QED
    BY <2>1, <2>2, <2>3, PlannedStays
<1> QED
  BY <1>1, <1>2, <1>3, <1>4, <1>5, Zenon DEF Next

\* What is decided of the sites of a company holds together, however it spells
\* its sites, wherever they lead and whatever they answer the next time: no
\* candidate is lost, a site is the company's only for a reason, only what the
\* gate let in was planned, but for the site of the row, and a trusted phone is
\* told by two sources, by the row or by a site of the company's own
\* (preparse_trust_gate.py:563-597, run_company_enrichment_pipeline.py:1858-1967).
THEOREM SitesJudgedHold == Spec => []SitesAreJudged
<1>1. Spec => [](GateInv /\ ReviewInv)
  <2>1. Init => GateInv /\ ReviewInv
    BY GateInit, ReviewInit
  <2>2. GateInv /\ ReviewInv /\ [Next]_vars => GateInv' /\ ReviewInv'
    BY GateNext, ReviewNext
  <2> QED
    BY <2>1, <2>2, PTL DEF Spec
<1>2. Init => JudgeInv /\ PlannedInv
  BY JudgeInit, PlannedInit
<1>3. JudgeInv /\ PlannedInv /\ GateInv /\ ReviewInv /\ [Next]_vars => JudgeInv' /\ PlannedInv'
  BY JudgeNext
<1>4. JudgeInv => SitesAreJudged
  BY JudgeInvSuffices
<1> QED
  BY <1>1, <1>2, <1>3, <1>4, PTL DEF Spec

=============================================================================
