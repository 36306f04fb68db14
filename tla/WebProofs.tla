------------------------------ MODULE WebProofs ------------------------------
(***************************************************************************)
(* Machine-checked theorems about the parts of the web app that MCWeb puts *)
(* side by side and that share no state: the rate limiter, the dashboard,  *)
(* the settings page and the onboarding page, each of its own              *)
(* specification, for any scopes, limits, cases, page sizes, tabs, names,  *)
(* runs of the script and polls.                                           *)
(***************************************************************************)
EXTENDS RateLimiter, Dashboard, Settings, Onboarding, FiniteSetTheorems, TLAPS

(***************************************************************************)
(* The rate limiter.                                                       *)
(***************************************************************************)
Counter == [count : Nat, resetAt : Nat]

(* What the limiter knows of one key: bucket b, requests let through at    *)
(* the times g, clock t, limit l.  A counter covers the newest b.count     *)
(* requests; those before it came no later than its window opened, and all *)
(* but l of them a whole window before.  The opening time is resetAt less  *)
(* a window's length.                                                      *)
Climbs(g, t) == \A i, j \in DOMAIN g : i <= j => g[i] <= g[j] /\ g[j] <= t

Covered(b, g, t, l) ==
    b.count # 0 =>
        /\ b.count <= l
        /\ Window <= b.resetAt /\ b.resetAt <= t + Window
        /\ \A i \in DOMAIN g : i <= Len(g) - b.count => g[i] + Window <= b.resetAt
        /\ \A i \in DOMAIN g : i <= Len(g) - b.count - l => g[i] + 2 * Window <= b.resetAt

Lapsed(b, g, t, l) ==
    b.count = 0 => \A i \in DOMAIN g : i <= Len(g) - l => g[i] + Window <= t

Spaced(g, l) == \A i, j \in DOMAIN g : j >= i + 2 * l => g[j] >= g[i] + Window

KeyInv(b, g, t, l) == Climbs(g, t) /\ Covered(b, g, t, l) /\ Lapsed(b, g, t, l) /\ Spaced(g, l)

(* A request that opens a window comes a whole window after all but the    *)
(* newest l requests.                                                      *)
LEMMA OpenWindow ==
    ASSUME NEW b \in Counter, NEW g \in Seq(Nat), NEW t \in Nat, NEW l \in Nat \ {0},
           KeyInv(b, g, t, l), b.count = 0 \/ t >= b.resetAt
    PROVE  KeyInv([count |-> 1, resetAt |-> t + Window], Append(g, t), t, l)
<1> USE LimitsAssumption
<1> DEFINE c == [count |-> 1, resetAt |-> t + Window]
           h == Append(g, t)
<1>1. /\ DOMAIN g = 1..Len(g) /\ DOMAIN h = 1..(Len(g) + 1) /\ Len(h) = Len(g) + 1
      /\ \A i \in 1..Len(g) : h[i] = g[i] /\ g[i] \in Nat
      /\ h[Len(g) + 1] = t /\ Len(g) \in Nat
  OBVIOUS
<1>2. ASSUME NEW i \in 1..Len(g), i <= Len(g) - l PROVE g[i] + Window <= t
  <2>1. CASE b.count = 0
    BY <1>1, <1>2, <2>1 DEF KeyInv, Lapsed
  <2>2. CASE b.count # 0
    <3>1. b.count \in Nat /\ b.resetAt \in Nat /\ b.count <= l /\ b.resetAt <= t
      BY <2>2 DEF KeyInv, Covered, Counter
    <3>2. i <= Len(g) - b.count
      BY <1>1, <1>2, <3>1
    <3>3. g[i] + Window <= b.resetAt
      BY <1>1, <2>2, <3>2 DEF KeyInv, Covered
    <3>4. QED
      BY <1>1, <3>1, <3>3
  <2>3. QED
    BY <2>1, <2>2
<1>3. \A i \in 1..Len(g) : g[i] <= t
  BY <1>1 DEF KeyInv, Climbs
<1> HIDE DEF h
<1>4. Climbs(h, t)
  BY <1>1, <1>3 DEF KeyInv, Climbs
<1>5. Covered(c, h, t, l)
  <2>1. c.count = 1 /\ c.resetAt = t + Window
    OBVIOUS
  <2>2. ASSUME NEW i \in DOMAIN h, i <= Len(h) - 1 PROVE h[i] + Window <= t + Window
    BY <1>1, <1>3, <2>2
  <2>3. ASSUME NEW i \in DOMAIN h, i <= Len(h) - 1 - l
        PROVE  h[i] + 2 * Window <= t + Window
    <3>1. i \in 1..Len(g) /\ i <= Len(g) - l
      BY <1>1, <2>3
    <3>2. g[i] + Window <= t /\ h[i] = g[i] /\ g[i] \in Nat /\ Window \in Nat
      BY <1>1, <1>2, <3>1
    <3>3. QED
      BY <3>2
  <2> HIDE DEF c
  <2>4. QED
    BY <2>1, <2>2, <2>3 DEF Covered
<1>6. Lapsed(c, h, t, l)
  BY DEF Lapsed
<1>7. Spaced(h, l)
  <2> SUFFICES ASSUME NEW i \in DOMAIN h, NEW j \in DOMAIN h, j >= i + 2 * l
               PROVE  h[j] >= h[i] + Window
    BY DEF Spaced
  <2>1. CASE j \in 1..Len(g)
    <3>1. i \in 1..Len(g)
      BY <1>1, <2>1
    <3>2. QED
      BY <1>1, <2>1, <3>1 DEF KeyInv, Spaced
  <2>2. CASE j = Len(g) + 1
    <3>1. i \in 1..Len(g) /\ i <= Len(g) - l
      BY <1>1, <2>2
    <3>2. QED
      BY <1>1, <1>2, <2>2, <3>1
  <2>3. QED
    BY <1>1, <2>1, <2>2
<1>8. QED
  BY <1>4, <1>5, <1>6, <1>7 DEF KeyInv, h

(* An index that a longer history and a larger count leave uncovered was   *)
(* uncovered before.                                                       *)
LEMMA StillBelow ==
    ASSUME NEW i \in Int, NEW len \in Nat, NEW n \in Nat, NEW m \in Nat,
           1 <= i, i <= len + 1 - (n + 1) - m
    PROVE  i \in 1..len /\ i <= len - n - m
  OBVIOUS

(* One that is two limits back precedes the opening of the window.         *)
LEMMA TwoLimitsBack ==
    ASSUME NEW i \in Int, NEW len \in Nat, NEW n \in Nat, NEW m \in Nat,
           n + 1 <= m, i + 2 * m <= len + 1
    PROVE  i <= len - n - m
  OBVIOUS

LEMMA OneWindowLess ==
    ASSUME NEW g \in Nat, NEW w \in Nat, NEW r \in Nat, NEW t \in Nat,
           g + 2 * w <= r, r <= t + w
    PROVE  g + w <= t
  OBVIOUS

(* A request counted in a window that has room.                            *)
LEMMA CountOne ==
    ASSUME NEW b \in Counter, NEW g \in Seq(Nat), NEW t \in Nat, NEW l \in Nat \ {0},
           KeyInv(b, g, t, l), b.count # 0, b.count < l
    PROVE  KeyInv([b EXCEPT !.count = @ + 1], Append(g, t), t, l)
<1> USE LimitsAssumption
<1> DEFINE c == [b EXCEPT !.count = @ + 1]
           h == Append(g, t)
<1>1. /\ DOMAIN g = 1..Len(g) /\ DOMAIN h = 1..(Len(g) + 1) /\ Len(h) = Len(g) + 1
      /\ \A i \in 1..Len(g) : h[i] = g[i] /\ g[i] \in Nat
      /\ h[Len(g) + 1] = t /\ Len(g) \in Nat
  OBVIOUS
<1>2. c.count = b.count + 1 /\ c.resetAt = b.resetAt /\ b.count \in Nat /\ b.resetAt \in Nat
  BY DEF Counter
<1>3. \A i \in 1..Len(g) : g[i] <= t
  BY <1>1 DEF KeyInv, Climbs
<1> HIDE DEF h, c
<1>4. Climbs(h, t)
  BY <1>1, <1>3 DEF KeyInv, Climbs
<1>5. Covered(c, h, t, l)
  <2>1. c.count <= l /\ Window <= c.resetAt /\ c.resetAt <= t + Window
    BY <1>2 DEF KeyInv, Covered
  <2>2. ASSUME NEW i \in DOMAIN h, i <= Len(h) - c.count
        PROVE  h[i] + Window <= c.resetAt
    <3>1. i \in DOMAIN g /\ i <= Len(g) - b.count /\ h[i] = g[i]
      <4> HIDE LimitsAssumption
      <4>1. /\ i \in Int /\ 1 <= i /\ Len(g) \in Nat /\ b.count \in Nat /\ 0 \in Nat
            /\ i <= Len(g) + 1 - (b.count + 1) - 0
        BY <1>1, <1>2, <2>2
      <4>2. i \in 1..Len(g) /\ i <= Len(g) - b.count - 0
        BY <4>1, StillBelow
      <4>3. QED
        BY <1>1, <4>1, <4>2
    <3>2. QED
      BY <1>2, <3>1 DEF KeyInv, Covered
  <2>3. ASSUME NEW i \in DOMAIN h, i <= Len(h) - c.count - l
        PROVE  h[i] + 2 * Window <= c.resetAt
    <3>1. i \in DOMAIN g /\ i <= Len(g) - b.count - l /\ h[i] = g[i]
      <4>1. i \in Int /\ i >= 1 /\ i <= Len(g) + 1 - (b.count + 1) - l
        BY <1>1, <1>2, <2>3
      <4>2. i \in 1..Len(g) /\ i <= Len(g) - b.count - l
        <5> HIDE LimitsAssumption
        <5>1. Len(g) \in Nat /\ b.count \in Nat /\ l \in Nat
          BY <1>1, <1>2
        <5>2. QED
          BY <4>1, <5>1, StillBelow
      <4>3. QED
        BY <1>1, <4>2
    <3>2. QED
      BY <1>2, <3>1 DEF KeyInv, Covered
  <2>4. QED
    BY <2>1, <2>2, <2>3 DEF Covered
<1>6. Lapsed(c, h, t, l)
  BY <1>2 DEF Lapsed
<1>7. ASSUME NEW i \in 1..Len(g), i + 2 * l <= Len(g) + 1 PROVE g[i] + Window <= t
  <2>1. i <= Len(g) - b.count - l
    <3>1. /\ i \in Int /\ Len(g) \in Nat /\ b.count \in Nat /\ l \in Nat
          /\ b.count + 1 <= l /\ i + 2 * l <= Len(g) + 1
      BY <1>1, <1>2, <1>7
    <3> HIDE LimitsAssumption
    <3>2. QED
      BY <3>1, TwoLimitsBack
  <2>2. g[i] + 2 * Window <= b.resetAt /\ b.resetAt <= t + Window
    BY <1>1, <2>1 DEF KeyInv, Covered
  <2>3. g[i] \in Nat /\ b.resetAt \in Nat /\ Window \in Nat
    BY <1>1, <1>2
  <2>4. QED
    <3> HIDE LimitsAssumption
    <3>1. QED
      BY <2>2, <2>3, OneWindowLess
<1>8. Spaced(h, l)
  <2> SUFFICES ASSUME NEW i \in DOMAIN h, NEW j \in DOMAIN h, j >= i + 2 * l
               PROVE  h[j] >= h[i] + Window
    BY DEF Spaced
  <2>1. CASE j \in 1..Len(g)
    <3>1. i \in 1..Len(g)
      BY <1>1, <2>1
    <3>2. QED
      BY <1>1, <2>1, <3>1 DEF KeyInv, Spaced
  <2>2. CASE j = Len(g) + 1
    <3>1. i \in 1..Len(g) /\ i + 2 * l <= Len(g) + 1
      BY <1>1, <2>2
    <3>2. QED
      BY <1>1, <1>7, <2>2, <3>1
  <2>3. QED
    BY <1>1, <2>1, <2>2
<1>9. QED
  BY <1>4, <1>5, <1>6, <1>8 DEF KeyInv, h, c

(* A bucket dropped after its window.                                      *)
LEMMA DropBucket ==
    ASSUME NEW b \in Counter, NEW g \in Seq(Nat), NEW t \in Nat, NEW l \in Nat \ {0},
           KeyInv(b, g, t, l), b.count = 0 \/ t >= b.resetAt
    PROVE  KeyInv(NoCounter, g, t, l)
<1> USE LimitsAssumption
<1>1. DOMAIN g = 1..Len(g) /\ Len(g) \in Nat /\ \A i \in 1..Len(g) : g[i] \in Nat
  OBVIOUS
<1>2. Covered(NoCounter, g, t, l)
  BY DEF Covered, NoCounter
<1>3. Lapsed(NoCounter, g, t, l)
  <2>1. CASE b.count = 0
    BY <2>1 DEF KeyInv, Lapsed, NoCounter
  <2>2. CASE b.count # 0
    <3>1. /\ b.count \in Nat /\ b.resetAt \in Nat /\ b.count <= l /\ b.resetAt <= t
          /\ \A j \in DOMAIN g : j <= Len(g) - b.count => g[j] + Window <= b.resetAt
      BY <2>2 DEF KeyInv, Covered, Counter
    <3>2. ASSUME NEW j \in DOMAIN g, j <= Len(g) - l PROVE g[j] + Window <= t
      <4>1. j \in Int /\ g[j] \in Nat /\ Window \in Nat /\ j <= Len(g) - b.count
        BY <1>1, <3>1, <3>2
      <4>2. g[j] + Window <= b.resetAt
        BY <3>1, <4>1
      <4>3. QED
        BY <3>1, <4>1, <4>2
    <3>3. QED
      BY <3>2 DEF Lapsed
  <2>3. QED
    BY <2>1, <2>2
<1>4. QED
  BY <1>2, <1>3 DEF KeyInv

(* Time passes.                                                            *)
LEMMA PassTime ==
    ASSUME NEW b \in Counter, NEW g \in Seq(Nat), NEW t \in Nat, NEW l \in Nat \ {0},
           KeyInv(b, g, t, l)
    PROVE  KeyInv(b, g, t + 1, l)
<1> USE LimitsAssumption
<1>1. DOMAIN g = 1..Len(g) /\ Len(g) \in Nat /\ \A i \in 1..Len(g) : g[i] \in Nat
  OBVIOUS
<1>2. Climbs(g, t + 1)
  BY <1>1 DEF KeyInv, Climbs
<1>3. Covered(b, g, t + 1, l)
  BY <1>1 DEF KeyInv, Covered, Counter
<1>4. Lapsed(b, g, t + 1, l)
  BY <1>1 DEF KeyInv, Lapsed
<1>5. QED
  BY <1>2, <1>3, <1>4 DEF KeyInv

(***************************************************************************)
(* The invariant.                                                          *)
(***************************************************************************)
LimiterInv ==
    /\ clock \in Nat
    /\ buckets \in [Keys -> Counter]
    /\ granted \in [Keys -> Seq(Nat)]
    /\ \A k \in Keys : KeyInv(buckets[k], granted[k], clock, Limit[k[1]])

LEMMA LimiterStep == LimiterInv /\ [LimiterNext]_limiterVars => LimiterInv'
<1> SUFFICES ASSUME LimiterInv, [LimiterNext]_limiterVars PROVE LimiterInv'
  OBVIOUS
<1>0. /\ clock \in Nat /\ buckets \in [Keys -> Counter] /\ granted \in [Keys -> Seq(Nat)]
      /\ \A k \in Keys : KeyInv(buckets[k], granted[k], clock, Limit[k[1]])
      /\ \A k \in Keys : Limit[k[1]] \in Nat \ {0}
      /\ Window \in Nat
  BY LimitsAssumption DEF LimiterInv, Keys
<1>1. CASE UNCHANGED limiterVars
  BY <1>1 DEF limiterVars, LimiterInv
<1>2. CASE ClockTick
  <2>1. \A k \in Keys : KeyInv(buckets[k], granted[k], clock + 1, Limit[k[1]])
    BY <1>0, PassTime
  <2>2. QED
    BY <1>0, <1>2, <2>1 DEF ClockTick, LimiterInv
<1>3. CASE sweep
  <2>1. NoCounter \in Counter
    BY DEF NoCounter, Counter
  <2>2. buckets' \in [Keys -> Counter]
    BY <1>0, <1>3, <2>1 DEF sweep
  <2>3. ASSUME NEW k \in Keys PROVE KeyInv(buckets'[k], granted[k], clock, Limit[k[1]])
    <3>1. CASE WindowIsOver(buckets[k])
      <4>1. buckets'[k] = NoCounter
        BY <1>3, <3>1 DEF sweep
      <4>2. KeyInv(NoCounter, granted[k], clock, Limit[k[1]])
        BY <1>0, <3>1, DropBucket DEF WindowIsOver
      <4>3. QED
        BY <4>1, <4>2
    <3>2. CASE ~WindowIsOver(buckets[k])
      BY <1>0, <1>3, <3>2 DEF sweep
    <3>3. QED
      BY <3>1, <3>2
  <2>4. QED
    BY <1>0, <1>3, <2>2, <2>3 DEF sweep, LimiterInv
<1>4. ASSUME NEW q \in Keys, check(q, Limit[q[1]]) PROVE LimiterInv'
  <2> DEFINE b == buckets[q]
             c == IF WindowIsOver(b) THEN [count |-> 1, resetAt |-> clock + Window]
                                     ELSE [b EXCEPT !.count = @ + 1]
  <2>1. c \in Counter
    <3>1. [count |-> 1, resetAt |-> clock + Window] \in Counter
      BY <1>0 DEF Counter
    <3>2. b \in Counter
      BY <1>0
    <3>3. [b EXCEPT !.count = @ + 1] \in Counter
      BY <3>2 DEF Counter
    <3>4. QED
      BY <3>1, <3>3
  <2>2. buckets' = [buckets EXCEPT ![q] = c] /\ clock' = clock
        /\ granted' = [granted EXCEPT ![q] = Append(granted[q], clock)]
    BY <1>4 DEF check
  <2>3. KeyInv(c, Append(granted[q], clock), clock, Limit[q[1]])
    <3>1. CASE WindowIsOver(b)
      BY <1>0, <3>1, OpenWindow DEF WindowIsOver
    <3>2. CASE ~WindowIsOver(b)
      BY <1>0, <1>4, <3>2, CountOne DEF check, WindowIsOver, HasRoom
    <3>3. QED
      BY <3>1, <3>2
  <2>4. Append(granted[q], clock) \in Seq(Nat)
    BY <1>0
  <2> HIDE DEF c
  <2>5. buckets' \in [Keys -> Counter] /\ granted' \in [Keys -> Seq(Nat)]
    BY <1>0, <2>1, <2>2, <2>4
  <2>6. ASSUME NEW k \in Keys PROVE KeyInv(buckets'[k], granted'[k], clock, Limit[k[1]])
    BY <1>0, <2>2, <2>3
  <2>7. QED
    BY <1>0, <2>2, <2>5, <2>6 DEF LimiterInv
<1>5. ASSUME NEW s \in Scopes, NEW a \in Addresses \cup {NoAddress},
             assertWithinRateLimit(s, a)
      PROVE  LimiterInv'
  BY <1>4, <1>5 DEF assertWithinRateLimit, Keys
<1>6. QED
  BY <1>1, <1>2, <1>3, <1>5 DEF LimiterNext, clientIp

(* Whatever the traffic and whenever sweep runs, across the ends of its    *)
(* windows too: no more than twice the limit of a key's requests is let    *)
(* through in any stretch shorter than a window.                           *)
THEOREM BurstsAreBounded == LimiterSpec => []BurstBound
<1>1. LimiterInit => LimiterInv
  <2> SUFFICES ASSUME LimiterInit PROVE LimiterInv
    OBVIOUS
  <2>1. buckets \in [Keys -> Counter] /\ granted \in [Keys -> Seq(Nat)] /\ clock \in Nat
    BY DEF LimiterInit, NoCounter, Counter
  <2>2. ASSUME NEW k \in Keys PROVE KeyInv(NoCounter, <<>>, 0, Limit[k[1]])
    BY DEF KeyInv, Climbs, Covered, Lapsed, Spaced, NoCounter
  <2>3. QED
    BY <2>1, <2>2 DEF LimiterInit, LimiterInv
<1>2. LimiterInv => BurstBound
  BY DEF LimiterInv, KeyInv, Spaced, BurstBound
<1>3. QED
  BY <1>1, <1>2, LimiterStep, PTL DEF LimiterSpec

(***************************************************************************)
(* The dashboard: orders.                                                  *)
(***************************************************************************)
OrdersStrictly(R, S) ==
    /\ \A x \in S : <<x, x>> \notin R
    /\ \A x, y \in S : x # y => <<x, y>> \in R \/ <<y, x>> \in R
    /\ \A x, y, z \in S : <<x, y>> \in R /\ <<y, z>> \in R => <<x, z>> \in R

(* What InOrder gives: every member of S once, each after those before it. *)
LEMMA InOrderIsSorted ==
    ASSUME NEW S, IsFiniteSet(S), NEW R, OrdersStrictly(R, S)
    PROVE  /\ Cardinality(S) \in Nat
           /\ InOrder(S, R) \in [1..Cardinality(S) -> S]
           /\ \A x \in S : \E i \in 1..Cardinality(S) : InOrder(S, R)[i] = x
           /\ \A i, j \in 1..Cardinality(S) :
                 i < j => <<InOrder(S, R)[i], InOrder(S, R)[j]>> \in R
<1> DEFINE Before(x) == {y \in S : <<y, x>> \in R}
           n == Cardinality(S)
           rank == [x \in S |-> Cardinality(Before(x))]
<1>1. /\ \A x \in S : <<x, x>> \notin R
      /\ \A x, y \in S : x # y => <<x, y>> \in R \/ <<y, x>> \in R
      /\ \A x, y, z \in S : <<x, y>> \in R /\ <<y, z>> \in R => <<x, z>> \in R
  BY DEF OrdersStrictly
<1>2. n \in Nat
  BY FS_CardinalityType
<1>3. ASSUME NEW x \in S
      PROVE  IsFiniteSet(Before(x)) /\ Cardinality(Before(x)) \in 0..(n - 1)
  <2>1. Before(x) \in SUBSET (S \ {x})
    BY <1>1
  <2>2. IsFiniteSet(S \ {x}) /\ Cardinality(S \ {x}) = n - 1
    BY FS_RemoveElement
  <2> HIDE DEF Before
  <2>3. IsFiniteSet(Before(x)) /\ Cardinality(Before(x)) <= n - 1
    BY <2>1, <2>2, FS_Subset
  <2>4. Cardinality(Before(x)) \in Nat
    BY <2>3, FS_CardinalityType
  <2>5. QED
    BY <1>2, <2>3, <2>4
<1>4. ASSUME NEW x \in S, NEW y \in S, <<x, y>> \in R
      PROVE  Cardinality(Before(x)) < Cardinality(Before(y))
  <2>1. Before(x) \subseteq Before(y) /\ x \in Before(y) /\ x \notin Before(x)
    BY <1>1, <1>4
  <2>2. Before(x) \in SUBSET Before(y) /\ Before(x) # Before(y)
    BY <2>1
  <2> HIDE DEF Before
  <2>3. /\ Cardinality(Before(x)) <= Cardinality(Before(y))
        /\ Cardinality(Before(x)) # Cardinality(Before(y))
    BY <1>3, <2>2, FS_Subset
  <2>4. QED
    BY <1>2, <1>3, <2>3
<1>5. InOrder(S, R) = [i \in 1..n |-> CHOOSE x \in S : Cardinality(Before(x)) = i - 1]
  BY DEF InOrder
<1> HIDE DEF Before, n
<1>6. ASSUME NEW x \in S, NEW y \in S, rank[x] = rank[y] PROVE x = y
  <2>1. Cardinality(Before(x)) = Cardinality(Before(y))
    BY <1>6
  <2>2. /\ <<x, y>> \in R => Cardinality(Before(x)) < Cardinality(Before(y))
        /\ <<y, x>> \in R => Cardinality(Before(y)) < Cardinality(Before(x))
    BY <1>4
  <2>3. Cardinality(Before(x)) \in Int
    BY <1>2, <1>3
  <2>4. <<x, y>> \notin R /\ <<y, x>> \notin R
    BY <2>1, <2>2, <2>3
  <2>5. QED
    BY <1>1, <2>4
<1>7. rank \in Injection(S, 0..(n - 1))
  BY <1>3, <1>6 DEF Injection, IsInjective
<1>8. IsFiniteSet(0..(n - 1)) /\ Cardinality(0..(n - 1)) = n
  BY <1>2, FS_Interval
<1>9. rank \in Surjection(S, 0..(n - 1))
  BY <1>7, <1>8, FS_Injection DEF n
<1>10. ASSUME NEW i \in 1..n
       PROVE  InOrder(S, R)[i] \in S /\ Cardinality(Before(InOrder(S, R)[i])) = i - 1
  <2>1. i - 1 \in 0..(n - 1)
    BY <1>2
  <2>2. PICK x \in S : rank[x] = i - 1
    BY <1>9, <2>1 DEF Surjection
  <2>3. Cardinality(Before(x)) = i - 1
    BY <2>2
  <2>4. QED
    BY <1>5, <2>3
<1>11. ASSUME NEW x \in S PROVE \E i \in 1..n : InOrder(S, R)[i] = x
  <2>1. Cardinality(Before(x)) \in 0..(n - 1)
    BY <1>3
  <2>2. PICK i \in 1..n : Cardinality(Before(x)) = i - 1
    BY <1>2, <2>1, Cardinality(Before(x)) + 1 \in 1..n
  <2>3. /\ InOrder(S, R)[i] \in S
        /\ rank[InOrder(S, R)[i]] = rank[x]
    BY <1>10, <2>2
  <2>4. QED
    BY <1>6, <2>3
<1>12. ASSUME NEW i \in 1..n, NEW j \in 1..n, i < j
       PROVE  <<InOrder(S, R)[i], InOrder(S, R)[j]>> \in R
  <2> DEFINE x == InOrder(S, R)[i]
             y == InOrder(S, R)[j]
  <2>1. /\ x \in S /\ Cardinality(Before(x)) = i - 1
        /\ y \in S /\ Cardinality(Before(y)) = j - 1
    BY <1>10
  <2> HIDE DEF x, y
  <2>2. x # y
    BY <1>2, <1>12, <2>1
  <2>3. <<y, x>> \notin R
    <3>1. <<y, x>> \in R => j - 1 < i - 1
      BY <1>4, <2>1
    <3>2. QED
      BY <1>2, <1>12, <3>1
  <2>4. QED
    BY <1>1, <2>1, <2>2, <2>3 DEF x, y
<1>13. InOrder(S, R) \in [1..n -> S]
  BY <1>5, <1>10
<1>14. QED
  BY <1>2, <1>11, <1>12, <1>13 DEF n

(* The keys of the rows that exist are totally ordered.                    *)
LEMMA NewerIsStrict ==
    ASSUME row \in [Cases -> Rows \cup {NoRow}]
    PROVE  /\ \A c \in Existing : Key(c) \in [created : Nat, id : Nat \ {0}]
           /\ \A k, l, m \in [created : Int, id : Int] :
                 /\ ~Newer(k, k)
                 /\ Newer(k, l) /\ Newer(l, m) => Newer(k, m)
           /\ \A c, d \in Existing : c # d => Newer(Key(c), Key(d)) \/ Newer(Key(d), Key(c))
<1> USE SizesAssumption
<1>1. ASSUME NEW c \in Existing
      PROVE  /\ Key(c) \in [created : Nat, id : Nat \ {0}]
             /\ Key(c).id = c /\ c \in Nat
  <2>1. row[c] \in Rows /\ c \in Nat \ {0}
    BY DEF Existing
  <2>2. row[c].created \in Nat
    BY <2>1 DEF Rows, Moments
  <2>3. QED
    BY <2>1, <2>2 DEF Key
<1>2. \A k, l, m \in [created : Int, id : Int] :
         /\ ~Newer(k, k)
         /\ Newer(k, l) /\ Newer(l, m) => Newer(k, m)
  BY DEF Newer
<1>3. ASSUME NEW c \in Existing, NEW d \in Existing, c # d
      PROVE  Newer(Key(c), Key(d)) \/ Newer(Key(d), Key(c))
  <2>1. /\ Key(c).created \in Nat /\ Key(d).created \in Nat
        /\ Key(c).id = c /\ Key(d).id = d /\ c \in Nat /\ d \in Nat
    BY <1>1
  <2>2. QED
    BY <1>3, <2>1 DEF Newer
<1>4. QED
  BY <1>1, <1>2, <1>3

(***************************************************************************)
(* The dashboard: the invariant.                                           *)
(***************************************************************************)
Pages == {"none", "list", "end", "attempts", "messages", "timeline"}
MessageRows == [rung : Nat \ {0}, at : Nat]

DashboardTypes ==
    /\ now \in Moments
    /\ row \in [Cases -> Rows \cup {NoRow}]
    /\ attempts \in [Cases -> Seq(Nat)]
    /\ messages \in [Cases -> Seq(MessageRows)]
    /\ page \in Pages
    /\ walk \in [filter : Filters, cursor : [created : Nat \cup {Never}, id : Nat],
                 listed : Seq(Cases)]
    /\ kept \subseteq Cases
    /\ detail \in [id : Nat, summary : Rows \cup {NoRow}, attempts : Seq(Nat),
                   messages : Seq(MessageRows)]

(* What is written about a case comes after what it is about.              *)
Dated(r, t) ==
    /\ r.created <= t
    /\ r.recovered # Never => r.created <= r.recovered /\ r.recovered <= t

RowsAreDated == IsFiniteSet(Existing) /\ \A c \in Existing : Dated(row[c], now)

Climbing(g, from, t) ==
    \A i, j \in DOMAIN g : i <= j => from <= g[i] /\ g[i] <= g[j] /\ g[j] <= t

HistoryIsDated ==
    \A c \in Cases :
        /\ attempts[c] # <<>> => c \in Existing
        /\ Climbing(attempts[c], row[c].created, now)
        /\ \A m \in DOMAIN messages[c] :
              /\ messages[c][m].rung \in DOMAIN attempts[c]
              /\ attempts[c][messages[c][m].rung] <= messages[c][m].at

(* A page shows what was there when it asked: a row with the case's        *)
(* creation time, and beginnings of its attempts and messages.             *)
Extends(longer, g) == Len(g) <= Len(longer) /\ \A i \in DOMAIN g : g[i] = longer[i]

DetailIsPast ==
    /\ page \in {"attempts", "messages", "timeline"} =>
          /\ detail.id \in Existing
          /\ detail.summary \in Rows /\ Dated(detail.summary, now)
          /\ detail.summary.created = row[detail.id].created
    /\ page \in {"messages", "timeline"} => Extends(attempts[detail.id], detail.attempts)
    /\ page = "timeline" => Extends(messages[detail.id], detail.messages)

(* The cursor divides the list: what was listed is not below it, and what  *)
(* was kept and not listed is.                                             *)
AtOrAfter(k, l) == k = l \/ Newer(k, l)

Descends(listed) ==
    /\ \A i \in DOMAIN listed : listed[i] \in Existing
    /\ \A i, j \in DOMAIN listed : i < j => Newer(Key(listed[i]), Key(listed[j]))

Walked(listed, cursor) ==
    IF cursor = Top THEN listed = <<>>
                    ELSE \A i \in DOMAIN listed : AtOrAfter(Key(listed[i]), cursor)

Owed(K, listed, cursor) ==
    \A c \in K : c \in Range(listed) \/ cursor = Top \/ Newer(cursor, Key(c))

Kept(K, filter) == \A c \in K : c \in Existing /\ Matches(filter, row[c])

WalkGoesDown ==
    /\ page \notin {"list", "end"} => walk.listed = <<>>
    /\ page \in {"list", "end"} => Descends(walk.listed) /\ Kept(kept, walk.filter)
    /\ page = "list" =>
          /\ walk.cursor # Top /\ Walked(walk.listed, walk.cursor)
          /\ Owed(kept, walk.listed, walk.cursor)
    /\ page = "end" => kept \subseteq Range(walk.listed)

DashboardInv ==
    DashboardTypes /\ RowsAreDated /\ HistoryIsDated /\ DetailIsPast /\ WalkGoesDown

(***************************************************************************)
(* The dashboard: the list.                                                *)
(***************************************************************************)
(* A query finds every row below the cursor that matches, newest first.    *)
LEMMA FoundIsSorted ==
    ASSUME DashboardInv, NEW filter \in Filters,
           NEW cursor \in [created : Nat \cup {Never}, id : Nat]
    PROVE  LET found == Found(filter, cursor)
               S == {c \in Below(cursor) : Matches(filter, row[c])}
           IN  /\ found \in Seq(S)
               /\ \A c \in S : \E i \in DOMAIN found : found[i] = c
               /\ \A i, j \in DOMAIN found : i < j => Newer(Key(found[i]), Key(found[j]))
<1> DEFINE S == {c \in Below(cursor) : Matches(filter, row[c])}
           R == {p \in S \X S : Newer(Key(p[1]), Key(p[2]))}
<1>1. row \in [Cases -> Rows \cup {NoRow}] /\ IsFiniteSet(Existing)
  BY DEF DashboardInv, DashboardTypes, RowsAreDated
<1>2. S \in SUBSET Existing
  BY DEF Below
<1>3. IsFiniteSet(S)
  BY <1>1, <1>2, FS_Subset
<1>4. Found(filter, cursor) = InOrder(S, R)
  BY DEF Found
<1>5. \A x, y \in S : <<x, y>> \in R <=> Newer(Key(x), Key(y))
  OBVIOUS
<1> HIDE DEF S, R
<1>6. OrdersStrictly(R, S)
  <2>1. \A x \in S : Key(x) \in [created : Int, id : Int]
    BY <1>1, <1>2, NewerIsStrict
  <2>2. /\ \A x \in S : ~Newer(Key(x), Key(x))
        /\ \A x, y, z \in S :
              Newer(Key(x), Key(y)) /\ Newer(Key(y), Key(z)) => Newer(Key(x), Key(z))
    BY <1>1, <2>1, NewerIsStrict
  <2>3. \A x, y \in S : x # y => Newer(Key(x), Key(y)) \/ Newer(Key(y), Key(x))
    BY <1>1, <1>2, NewerIsStrict
  <2>4. QED
    BY <1>5, <2>2, <2>3 DEF OrdersStrictly
<1> DEFINE f == InOrder(S, R)
<1>7. /\ Cardinality(S) \in Nat
      /\ f \in [1..Cardinality(S) -> S]
      /\ \A x \in S : \E i \in 1..Cardinality(S) : f[i] = x
      /\ \A i, j \in 1..Cardinality(S) : i < j => <<f[i], f[j]>> \in R
  BY <1>3, <1>6, InOrderIsSorted
<1> HIDE DEF f
<1>8. f \in Seq(S) /\ DOMAIN f = 1..Cardinality(S)
  BY <1>7
<1>9. \A i, j \in DOMAIN f : i < j => Newer(Key(f[i]), Key(f[j]))
  BY <1>5, <1>7, <1>8
<1>10. QED
  BY <1>4, <1>7, <1>8, <1>9 DEF f, S

(* A page goes on where the cursor stands.                                 *)
LEMMA PageGoesOn ==
    ASSUME DashboardInv, NEW filter \in Filters,
           NEW cursor \in [created : Nat \cup {Never}, id : Nat], NEW listed \in Seq(Cases),
           NEW K, Descends(listed), Walked(listed, cursor), Kept(K, filter),
           Owed(K, listed, cursor), listCases(filter, cursor, listed)
    PROVE  /\ page' \in {"list", "end"}
           /\ walk' \in [filter : {filter}, listed : Seq(Cases),
                         cursor : [created : Nat \cup {Never}, id : Nat]]
           /\ Descends(walk'.listed)
           /\ page' = "list" => /\ walk'.cursor # Top /\ Walked(walk'.listed, walk'.cursor)
                                /\ Owed(K, walk'.listed, walk'.cursor)
           /\ page' = "end" => K \subseteq Range(walk'.listed)
<1> USE SizesAssumption
<1> DEFINE found == Found(filter, cursor)
           S == {c \in Below(cursor) : Matches(filter, row[c])}
           more == Len(found) > PageSize
           m == IF more THEN PageSize ELSE Len(found)
           shown == SubSeq(found, 1, m)
           next == IF more THEN Key(Last(shown)) ELSE Top
           all == listed \o shown
<1>1. row \in [Cases -> Rows \cup {NoRow}]
  BY DEF DashboardInv, DashboardTypes
<1>2. /\ found \in Seq(S)
      /\ \A c \in S : \E i \in DOMAIN found : found[i] = c
      /\ \A i, j \in DOMAIN found : i < j => Newer(Key(found[i]), Key(found[j]))
  BY FoundIsSorted
<1>3. /\ walk' = [filter |-> filter, listed |-> all, cursor |-> next]
      /\ page' = IF more THEN "list" ELSE "end"
  BY DEF listCases
<1>4. /\ S \subseteq Existing /\ S \subseteq Cases
      /\ \A c \in S : cursor = Top \/ Newer(cursor, Key(c))
      /\ \A c \in Existing : Matches(filter, row[c]) /\ (cursor = Top \/ Newer(cursor, Key(c)))
            => c \in S
  BY DEF Below, Existing
<1> HIDE DEF found, S
<1>5. /\ Len(found) \in Nat /\ DOMAIN found = 1..Len(found)
      /\ m \in Nat /\ m <= Len(found) /\ (more => m = PageSize /\ m > 0)
      /\ \A i \in 1..Len(found) : found[i] \in S
  BY <1>2
<1>6. /\ shown \in Seq(S) /\ Len(shown) = m /\ \A i \in 1..m : shown[i] = found[i]
  <2> HIDE DEF m
  <2>1. QED
    BY <1>2, <1>5
<1> HIDE DEF m, shown
<1>7. /\ Len(listed) \in Nat /\ DOMAIN listed = 1..Len(listed)
      /\ DOMAIN all = 1..(Len(listed) + m)
      /\ \A i \in 1..Len(listed) : all[i] = listed[i]
      /\ \A i \in 1..m : all[Len(listed) + i] = found[i]
      /\ all \in Seq(Cases)
  <2>1. shown \in Seq(Cases)
    <3>1. ASSUME NEW i \in 1..m PROVE shown[i] \in Cases
      <4>1. i \in 1..Len(found) /\ shown[i] = found[i]
        BY <1>5, <1>6
      <4>2. QED
        BY <1>4, <1>5, <4>1
    <3>2. shown \in Seq(S) /\ DOMAIN shown = 1..m /\ m \in Nat
      BY <1>5, <1>6
    <3>3. QED
      BY <3>1, <3>2
  <2>2. /\ Len(listed) \in Nat /\ DOMAIN listed = 1..Len(listed)
        /\ Len(all) = Len(listed) + m /\ all \in Seq(Cases)
    BY <1>5, <1>6, <2>1
  <2>3. \A i \in 1..Len(listed) : all[i] = listed[i]
    BY <1>5, <1>6, <2>1
  <2>4. \A i \in 1..m : all[Len(listed) + i] = shown[i]
    BY <1>5, <1>6, <2>1
  <2>5. DOMAIN all = 1..(Len(listed) + m)
    BY <2>2
  <2>6. \A i \in 1..m : all[Len(listed) + i] = found[i]
    BY <1>6, <2>4
  <2> HIDE DEF all
  <2>7. QED
    BY <2>2, <2>3, <2>5, <2>6
<1>8. \A i \in DOMAIN all : i \in 1..Len(listed) \/ \E k \in 1..m : i = Len(listed) + k
  <2> SUFFICES ASSUME NEW i \in DOMAIN all, i \notin 1..Len(listed)
               PROVE  \E k \in 1..m : i = Len(listed) + k
    OBVIOUS
  <2>1. i - Len(listed) \in 1..m /\ i = Len(listed) + (i - Len(listed))
    BY <1>5, <1>7
  <2>2. QED
    BY <2>1
<1>9. Range(all) = Range(listed) \cup {found[i] : i \in 1..m}
  <2>1. /\ \A i \in 1..Len(listed) : i \in DOMAIN all
        /\ \A k \in 1..m : Len(listed) + k \in DOMAIN all
    BY <1>5, <1>7
  <2> HIDE DEF all
  <2>2. Range(all) \subseteq Range(listed) \cup {found[i] : i \in 1..m}
    BY <1>7, <1>8 DEF Range
  <2>3. Range(listed) \subseteq Range(all)
    BY <1>7, <2>1 DEF Range
  <2>4. {found[i] : i \in 1..m} \subseteq Range(all)
    BY <1>7, <2>1 DEF Range
  <2>5. QED
    BY <2>2, <2>3, <2>4
<1> HIDE DEF all
<1>10. \A c \in Existing : Key(c) \in [created : Nat, id : Nat]
  BY <1>1, NewerIsStrict
<1>11. \A k, l, q \in [created : Int, id : Int] :
          Newer(k, l) /\ Newer(l, q) => Newer(k, q)
  BY <1>1, NewerIsStrict
<1>12. ASSUME NEW i \in 1..Len(listed), NEW c \in S PROVE Newer(Key(listed[i]), Key(c))
  <2>1. listed[i] \in Existing /\ c \in Existing
    BY <1>4, <1>7 DEF Descends
  <2>2. cursor # Top
    BY <1>7 DEF Walked
  <2>3. AtOrAfter(Key(listed[i]), cursor) /\ Newer(cursor, Key(c))
    BY <1>4, <1>7, <2>2 DEF Walked
  <2>4. CASE Key(listed[i]) = cursor
    BY <2>3, <2>4
  <2>5. CASE Newer(Key(listed[i]), cursor)
    <3>1. Key(listed[i]) \in [created : Int, id : Int] /\ Key(c) \in [created : Int, id : Int]
      BY <1>10, <2>1
    <3>2. cursor \in [created : Int, id : Int]
      BY DEF Never
    <3>3. QED
      BY <1>11, <2>3, <2>5, <3>1, <3>2
  <2>6. QED
    BY <2>3, <2>4, <2>5 DEF AtOrAfter
<1>13. Descends(all)
  <2>1. ASSUME NEW i \in DOMAIN all PROVE all[i] \in Existing
    <3>1. CASE i \in 1..Len(listed)
      BY <1>7, <3>1 DEF Descends
    <3>2. CASE i \notin 1..Len(listed)
      <4>1. PICK k \in 1..m : i = Len(listed) + k
        BY <1>8, <3>2
      <4>2. all[i] = found[k] /\ k \in 1..Len(found)
        BY <1>5, <1>7, <4>1
      <4>3. QED
        BY <1>4, <1>5, <4>2
    <3>3. QED
      BY <3>1, <3>2
  <2>2. ASSUME NEW i \in DOMAIN all, NEW j \in DOMAIN all, i < j
        PROVE  Newer(Key(all[i]), Key(all[j]))
    <3>1. CASE i \in 1..Len(listed) /\ j \in 1..Len(listed)
      BY <1>7, <2>2, <3>1 DEF Descends
    <3>2. CASE i \in 1..Len(listed) /\ j \notin 1..Len(listed)
      <4>1. PICK k \in 1..m : j = Len(listed) + k
        BY <1>8, <3>2
      <4>2. all[j] = found[k] /\ all[i] = listed[i] /\ k \in 1..Len(found)
        BY <1>5, <1>7, <3>2, <4>1
      <4>3. QED
        BY <1>5, <1>12, <3>2, <4>2
    <3>3. CASE i \notin 1..Len(listed)
      <4>1. PICK k \in 1..m : i = Len(listed) + k
        BY <1>8, <3>3
      <4>2. j \notin 1..Len(listed)
        BY <1>5, <1>7, <2>2, <4>1
      <4>3. PICK h \in 1..m : j = Len(listed) + h
        BY <1>8, <4>2
      <4>4. k < h /\ k \in DOMAIN found /\ h \in DOMAIN found
        BY <1>5, <1>7, <2>2, <4>1, <4>3
      <4>5. all[i] = found[k] /\ all[j] = found[h]
        BY <1>7, <4>1, <4>3
      <4>6. QED
        BY <1>2, <4>4, <4>5
    <3>4. QED
      BY <3>1, <3>2, <3>3
  <2>3. QED
    BY <2>1, <2>2 DEF Descends
<1>14. ASSUME NEW c \in K, c \notin Range(listed)
       PROVE  \E i \in DOMAIN found : found[i] = c
  <2>1. c \in Existing /\ Matches(filter, row[c]) /\ (cursor = Top \/ Newer(cursor, Key(c)))
    BY <1>14 DEF Kept, Owed
  <2>2. QED
    BY <1>2, <1>4, <2>1
<1>15. CASE more
  <2>1. m \in 1..m /\ m \in DOMAIN found /\ m = PageSize
    BY <1>5, <1>15
  <2>2. next = Key(found[m]) /\ found[m] \in Existing
    <3>1. shown # <<>> /\ Last(shown) = shown[Len(shown)]
      BY <1>6, <2>1 DEF Last
    <3>2. QED
      BY <1>4, <1>5, <1>6, <1>15, <2>1, <3>1
  <2>3. next \in [created : Nat, id : Nat] /\ next # Top
    BY <1>10, <2>2 DEF Top, Never
  <2>4. all[Len(listed) + m] = found[m] /\ Len(listed) + m \in DOMAIN all
    <3>1. all[Len(listed) + m] = found[m]
      BY <1>7, <2>1
    <3>2. Len(listed) + m \in 1..(Len(listed) + m)
      BY <1>5, <1>7, <2>1
    <3>3. QED
      BY <1>7, <3>1, <3>2
  <2>5. ASSUME NEW i \in DOMAIN all PROVE AtOrAfter(Key(all[i]), next)
    <3>1. i = Len(listed) + m \/ i < Len(listed) + m
      BY <1>5, <1>7
    <3>2. CASE i = Len(listed) + m
      BY <2>2, <2>4, <3>2 DEF AtOrAfter
    <3>3. CASE i < Len(listed) + m
      <4>1. Newer(Key(all[i]), Key(found[m]))
        BY <1>13, <2>4, <3>3 DEF Descends
      <4>2. QED
        BY <2>2, <4>1 DEF AtOrAfter
    <3>4. QED
      BY <3>1, <3>2, <3>3
  <2>6. ASSUME NEW c \in K, c \notin Range(all) PROVE Newer(next, Key(c))
    <3>1. PICK k \in DOMAIN found : found[k] = c
      BY <1>9, <1>14, <2>6
    <3>2. k \notin 1..m
      BY <1>9, <2>6, <3>1
    <3>3. m < k
      BY <1>5, <3>1, <3>2
    <3>4. QED
      BY <1>2, <2>1, <2>2, <3>1, <3>3
  <2>7. Walked(all, next)
    BY <2>3, <2>5 DEF Walked
  <2>8. Owed(K, all, next)
    BY <2>6 DEF Owed
  <2> HIDE DEF next
  <2>9. QED
    BY <1>3, <1>7, <1>13, <1>15, <2>3, <2>7, <2>8
<1>16. CASE ~more
  <2>1. m = Len(found)
    BY <1>16 DEF m
  <2>2. K \subseteq Range(all)
    <3> SUFFICES ASSUME NEW c \in K, c \notin Range(listed) PROVE c \in Range(all)
      BY <1>9
    <3>1. PICK k \in DOMAIN found : found[k] = c
      BY <1>14
    <3>2. QED
      BY <1>5, <1>9, <2>1, <3>1
  <2>3. next \in [created : Nat \cup {Never}, id : Nat]
    BY <1>16 DEF Top
  <2> HIDE DEF next
  <2>4. QED
    BY <1>3, <1>7, <1>13, <1>16, <2>2, <2>3
<1>17. QED
  BY <1>15, <1>16

(* A step that lets rows grow and change, but not their keys, leaves a     *)
(* walk's cursor where it divides the list.                                *)
LEMMA WalkStays ==
    ASSUME DashboardInv, UNCHANGED <<page, walk>>, kept' \subseteq kept,
           \A c \in Existing : c \in Existing' /\ Key(c)' = Key(c),
           \A c \in kept' : c \in Existing => Matches(walk.filter, row'[c])
    PROVE  WalkGoesDown'
<1> USE DEF DashboardInv, WalkGoesDown
<1>1. page' = page /\ walk' = walk
  OBVIOUS
<1>2. ASSUME Descends(walk.listed) PROVE Descends(walk.listed)'
  BY <1>1, <1>2 DEF Descends
<1>3. ASSUME Kept(kept, walk.filter) PROVE Kept(kept, walk.filter)'
  BY <1>1, <1>3 DEF Kept, Existing, Matches
<1>4. ASSUME Descends(walk.listed), Walked(walk.listed, walk.cursor)
      PROVE  Walked(walk.listed, walk.cursor)'
  BY <1>1, <1>4 DEF Descends, Walked, AtOrAfter, Newer
<1>5. ASSUME Kept(kept, walk.filter), Owed(kept, walk.listed, walk.cursor)
      PROVE  Owed(kept, walk.listed, walk.cursor)'
  BY <1>1, <1>5 DEF Kept, Owed, Newer
<1>6. QED
  BY <1>1, <1>2, <1>3, <1>4, <1>5

(* Nor does it disturb a case's page.                                      *)
LEMMA DetailStays ==
    ASSUME DashboardInv, UNCHANGED <<page, detail>>, now' \in Nat, now <= now',
           \A c \in Existing : c \in Existing' /\ row'[c].created = row[c].created,
           \A c \in Existing : Extends(attempts'[c], attempts[c]) /\ Extends(messages'[c], messages[c])
    PROVE  DetailIsPast'
<1> USE DEF DashboardInv, DetailIsPast
<1>1. page' = page /\ detail' = detail
  OBVIOUS
<1>2. detail \in [id : Nat, summary : Rows \cup {NoRow}, attempts : Seq(Nat),
                  messages : Seq(MessageRows)]
      /\ attempts \in [Cases -> Seq(Nat)] /\ messages \in [Cases -> Seq(MessageRows)]
      /\ now \in Nat
  BY DEF DashboardTypes, Moments
<1>3. ASSUME detail.summary \in Rows, Dated(detail.summary, now)
      PROVE  Dated(detail.summary, now)'
  <2>1. detail.summary.created \in Nat /\ detail.summary.recovered \in Int
    BY <1>3 DEF Rows, Moments, Never
  <2>2. QED
    BY <1>1, <1>2, <1>3, <2>1 DEF Dated
<1>4. ASSUME NEW f, NEW g, NEW h, Extends(g, f), Extends(h, g), Len(f) \in Nat, Len(g) \in Nat,
             DOMAIN f = 1..Len(f), DOMAIN g = 1..Len(g), Len(h) \in Int
      PROVE  Extends(h, f)
  BY <1>4 DEF Extends
<1>5. QED
  <2>1. CASE page \in {"messages", "timeline"}
    <3> DEFINE c == detail.id
    <3>1. c \in Existing /\ c \in Cases
      BY <2>1 DEF Existing
    <3>2. detail.attempts \in Seq(Nat) /\ attempts[c] \in Seq(Nat)
          /\ detail.messages \in Seq(MessageRows) /\ messages[c] \in Seq(MessageRows)
      BY <1>2, <3>1
    <3> HIDE DEF c
    <3>3. Extends(attempts[c], detail.attempts) => Extends(attempts'[c], detail.attempts)
      BY <3>1, <3>2 DEF Extends
    <3>4. Extends(messages[c], detail.messages) => Extends(messages'[c], detail.messages)
      BY <3>1, <3>2 DEF Extends
    <3>5. QED
      BY <1>1, <1>3, <2>1, <3>1, <3>3, <3>4 DEF c
  <2>2. CASE page \notin {"messages", "timeline"}
    BY <1>1, <1>3, <2>2
  <2>3. QED
    BY <2>1, <2>2

LEMMA EveryRowIsTyped ==
    ASSUME row \in [Cases -> Rows \cup {NoRow}], NEW c \in Cases
    PROVE  /\ c \in Existing => row[c] \in Rows /\ row[c].created \in Nat
                                /\ row[c].recovered \in Nat \cup {Never}
           /\ row[c].paid \in Nat
           /\ c \notin Existing => row[c] = NoRow
           /\ c \in Existing <=> row[c].status \in Statuses
<1>1. Amounts \cup {0} \subseteq Nat
  BY AmountsAssumption
<1>2. CASE row[c] = NoRow
  BY <1>2 DEF Existing, NoRow, Statuses
<1>3. CASE row[c] \in Rows
  <2>1. /\ row[c].status \in Statuses /\ row[c].created \in Nat
        /\ row[c].recovered \in Nat \cup {Never} /\ row[c].paid \in Nat
    BY <1>1, <1>3 DEF Rows, Moments
  <2>2. row[c] # NoRow
    BY <2>1 DEF NoRow, Statuses
  <2>3. QED
    BY <1>3, <2>1, <2>2 DEF Existing
<1>4. QED
  BY <1>2, <1>3

LEMMA TickPreserves == ASSUME DashboardInv, Tick PROVE DashboardInv'
<1>1. /\ now \in Nat /\ now' = now + 1 /\ now' \in Moments
      /\ UNCHANGED <<row, attempts, messages, page, walk, detail, kept>>
  BY SizesAssumption DEF DashboardInv, DashboardTypes, Moments, Tick, reader
<1>2. DashboardTypes'
  BY <1>1 DEF DashboardInv, DashboardTypes
<1>3. Existing' = Existing /\ \A c \in Existing : Key(c)' = Key(c)
  BY <1>1 DEF Existing, Key
<1>4. RowsAreDated'
  <2>1. ASSUME NEW c \in Existing PROVE Dated(row[c], now + 1)
    <3>1. row[c].created \in Nat /\ row[c].recovered \in Int /\ Dated(row[c], now)
      BY EveryRowIsTyped DEF DashboardInv, DashboardTypes, RowsAreDated, Existing, Never
    <3>2. QED
      BY <1>1, <3>1 DEF Dated
  <2>2. QED
    BY <1>1, <1>3, <2>1 DEF DashboardInv, RowsAreDated
<1>5. HistoryIsDated'
  <2> SUFFICES ASSUME NEW c \in Cases PROVE Climbing(attempts[c], row[c].created, now + 1)
    BY <1>1, <1>3 DEF DashboardInv, HistoryIsDated
  <2>1. attempts[c] \in Seq(Nat) /\ Climbing(attempts[c], row[c].created, now)
    BY DEF DashboardInv, DashboardTypes, HistoryIsDated
  <2>2. QED
    BY <1>1, <2>1 DEF Climbing
<1>6. DetailIsPast'
  <2>1. ASSUME NEW c \in Existing
        PROVE  Extends(attempts[c], attempts[c]) /\ Extends(messages[c], messages[c])
    BY DEF DashboardInv, DashboardTypes, Extends, Existing
  <2>2. QED
    BY <1>1, <1>3, <2>1, DetailStays
<1>7. WalkGoesDown'
  <2>1. \A c \in kept' : c \in Existing => Matches(walk.filter, row'[c]) \/ page \notin {"list", "end"}
    BY <1>1 DEF DashboardInv, WalkGoesDown, Kept
  <2>2. CASE page \in {"list", "end"}
    BY <1>1, <1>3, <2>1, <2>2, WalkStays
  <2>3. CASE page \notin {"list", "end"}
    BY <1>1, <2>3 DEF DashboardInv, WalkGoesDown
  <2>4. QED
    BY <2>2, <2>3
<1>8. QED
  BY <1>2, <1>4, <1>5, <1>6, <1>7 DEF DashboardInv

(* The engine writes one row.                                              *)
LEMMA RowWritePreserves ==
    ASSUME DashboardInv, NEW c \in Cases, NEW r \in Rows, Write(c, r), Dated(r, now),
           c \in Existing => r.created = row[c].created,
           UNCHANGED <<now, attempts, messages>>
    PROVE  DashboardInv'
<1> USE DEF DashboardInv
<1>1. /\ row' = [row EXCEPT ![c] = r] /\ UNCHANGED <<page, walk, detail>>
      /\ kept' = {d \in kept : Matches(walk.filter, row'[d])}
      /\ row \in [Cases -> Rows \cup {NoRow}] /\ r # NoRow
  BY DEF Write, reader, DashboardTypes, Rows, NoRow, Statuses
<1>2. DashboardTypes'
  BY <1>1 DEF DashboardTypes
<1>3. Existing' = Existing \cup {c} /\ \A d \in Cases \ {c} : row'[d] = row[d]
  BY <1>1 DEF Existing
<1>4. row'[c] = r /\ \A d \in Existing : row'[d].created = row[d].created /\ d \in Cases
  BY <1>1, <1>3 DEF Existing
<1>5. RowsAreDated'
  <2>1. IsFiniteSet(Existing')
    BY <1>3, FS_AddElement DEF RowsAreDated
  <2>2. ASSUME NEW d \in Existing' PROVE Dated(row'[d], now)
    BY <1>3, <1>4 DEF RowsAreDated, Existing
  <2>3. QED
    BY <2>1, <2>2 DEF RowsAreDated, Dated
<1>6. HistoryIsDated'
  <2> SUFFICES ASSUME NEW d \in Cases
               PROVE  /\ attempts[d] # <<>> => d \in Existing'
                      /\ Climbing(attempts[d], row'[d].created, now)
    BY DEF HistoryIsDated
  <2>1. CASE d \in Existing
    BY <1>3, <1>4, <2>1 DEF HistoryIsDated
  <2>2. CASE d \notin Existing
    <3>1. attempts[d] = <<>>
      BY <2>2 DEF HistoryIsDated
    <3>2. QED
      BY <3>1 DEF Climbing
  <2>3. QED
    BY <2>1, <2>2
<1>7. DetailIsPast'
  <2>1. now' \in Nat /\ now' = now
    BY DEF DashboardTypes, Moments
  <2>2. ASSUME NEW d \in Existing
        PROVE  Extends(attempts'[d], attempts[d]) /\ Extends(messages'[d], messages[d])
    BY DEF DashboardTypes, Extends, Existing
  <2>3. QED
    BY <1>1, <1>3, <1>4, <2>1, <2>2, DetailStays
<1>8. WalkGoesDown'
  <2>1. \A d \in Existing : d \in Existing' /\ Key(d)' = Key(d)
    BY <1>3, <1>4 DEF Key
  <2>2. QED
    BY <1>1, <2>1, WalkStays
<1>9. QED
  BY <1>2, <1>5, <1>6, <1>7, <1>8

LEMMA CasePreserves ==
    ASSUME DashboardInv, NEW c \in Cases,
           \/ \E t \in {now, now - 1} \cap Nat : createCase(c, t)
           \/ \E a \in Amounts : markRecovered(c, a)
           \/ updateCaseStatus(c)
    PROVE  DashboardInv'
<1>1. row \in [Cases -> Rows \cup {NoRow}] /\ now \in Moments /\ now \in Nat
  BY DEF DashboardInv, DashboardTypes, Moments
<1>2. ASSUME NEW t \in {now, now - 1} \cap Nat, createCase(c, t) PROVE DashboardInv'
  <2> DEFINE r == [status |-> "OPEN", created |-> t, recovered |-> Never, paid |-> 0]
  <2>1. r \in Rows /\ Dated(r, now) /\ c \notin Existing
    BY <1>1, <1>2, SizesAssumption DEF Rows, Moments, Statuses, Dated, createCase, Existing
  <2>2. Write(c, r) /\ UNCHANGED <<now, attempts, messages>>
    BY <1>2 DEF createCase
  <2> HIDE DEF r
  <2>3. QED
    BY <2>1, <2>2, RowWritePreserves
<1>3. ASSUME NEW a \in Amounts, markRecovered(c, a) PROVE DashboardInv'
  <2> DEFINE r == [row[c] EXCEPT !.status = "RECOVERED", !.recovered = now, !.paid = a]
  <2>1. c \in Existing
    BY <1>3 DEF markRecovered, Existing
  <2>2. row[c] \in Rows /\ Dated(row[c], now)
    BY <1>1, <2>1, EveryRowIsTyped DEF DashboardInv, RowsAreDated
  <2>3. r \in Rows /\ r.created = row[c].created /\ r.recovered = now
    BY <1>1, <2>2 DEF Rows, Statuses
  <2>4. Dated(r, now)
    BY <1>1, <2>2, <2>3 DEF Dated
  <2>5. Write(c, r) /\ UNCHANGED <<now, attempts, messages>>
    BY <1>3 DEF markRecovered
  <2> HIDE DEF r
  <2>6. QED
    BY <2>3, <2>4, <2>5, RowWritePreserves
<1>4. CASE updateCaseStatus(c)
  <2> DEFINE r == [row[c] EXCEPT !.status = "FAILED"]
  <2>1. c \in Existing
    BY <1>4 DEF updateCaseStatus, Existing
  <2>2. row[c] \in Rows /\ Dated(row[c], now)
    BY <1>1, <2>1, EveryRowIsTyped DEF DashboardInv, RowsAreDated
  <2>3. r \in Rows /\ r.created = row[c].created /\ r.recovered = row[c].recovered
    BY <1>1, <2>2 DEF Rows, Statuses
  <2>4. Dated(r, now)
    BY <1>1, <2>2, <2>3 DEF Dated
  <2>5. Write(c, r) /\ UNCHANGED <<now, attempts, messages>>
    BY <1>4 DEF updateCaseStatus
  <2> HIDE DEF r
  <2>6. QED
    BY <2>3, <2>4, <2>5, RowWritePreserves
<1>5. QED
  BY <1>2, <1>3, <1>4

(* The engine adds to a case's history.                                    *)
LEMMA HistoryPreserves ==
    ASSUME DashboardInv, NEW c \in Cases,
           createAttempt(c) \/ \E n \in 1..MaxRung : createMessageLog(c, n)
    PROVE  DashboardInv'
<1> USE DEF DashboardInv
<1>1. /\ UNCHANGED <<now, row, page, walk, detail, kept>>
      /\ attempts \in [Cases -> Seq(Nat)] /\ messages \in [Cases -> Seq(MessageRows)]
      /\ row \in [Cases -> Rows \cup {NoRow}] /\ now \in Nat
  <2>1. UNCHANGED <<now, row, page, walk, detail, kept>>
    BY DEF createAttempt, createMessageLog, reader
  <2>2. QED
    BY <2>1 DEF DashboardTypes, Moments
<1>2. Existing' = Existing /\ \A d \in Existing : Key(d)' = Key(d) /\ d \in Cases
  BY <1>1 DEF Existing, Key
<1> DEFINE Grown ==
        /\ attempts' \in [Cases -> Seq(Nat)] /\ messages' \in [Cases -> Seq(MessageRows)]
        /\ \A d \in Cases :
              /\ Extends(attempts'[d], attempts[d]) /\ Extends(messages'[d], messages[d])
              /\ attempts'[d] # <<>> => d \in Existing
              /\ Climbing(attempts'[d], row[d].created, now)
              /\ \A m \in DOMAIN messages'[d] :
                    /\ messages'[d][m].rung \in DOMAIN attempts'[d]
                    /\ attempts'[d][messages'[d][m].rung] <= messages'[d][m].at
<1>3. Grown
  <2>1. \A d \in Cases :
            /\ Extends(attempts[d], attempts[d]) /\ Extends(messages[d], messages[d])
            /\ attempts[d] # <<>> => d \in Existing
            /\ Climbing(attempts[d], row[d].created, now)
            /\ \A m \in DOMAIN messages[d] :
                  /\ messages[d][m].rung \in DOMAIN attempts[d]
                  /\ attempts[d][messages[d][m].rung] <= messages[d][m].at
            /\ attempts[d] \in Seq(Nat) /\ messages[d] \in Seq(MessageRows)
    BY <1>1 DEF Extends, HistoryIsDated
  <2>2. CASE createAttempt(c)
    <3> DEFINE g == attempts[c]
               h == Append(g, now)
    <3>1. /\ attempts' = [attempts EXCEPT ![c] = h] /\ messages' = messages
          /\ c \in Existing /\ Dated(row[c], now) /\ row[c].created \in Nat
      BY <1>1, <2>2, EveryRowIsTyped DEF createAttempt, Existing, RowsAreDated
    <3>2. /\ h \in Seq(Nat) /\ Len(g) \in Nat /\ DOMAIN g = 1..Len(g)
          /\ Len(h) = Len(g) + 1 /\ DOMAIN h = 1..(Len(g) + 1) /\ h[Len(g) + 1] = now
          /\ \A i \in 1..Len(g) : h[i] = g[i] /\ g[i] \in Nat
      BY <1>1
    <3>3. Climbing(g, row[c].created, now)
      BY <2>1
    <3> HIDE DEF g, h
    <3>4. Extends(h, g)
      BY <3>2 DEF Extends
    <3>5. Climbing(h, row[c].created, now)
      <4>1. ASSUME NEW i \in 1..Len(g)
            PROVE  row[c].created <= g[i] /\ g[i] <= now /\ g[i] \in Nat
        <5>1. i \in DOMAIN g /\ i <= i /\ g[i] \in Nat
          BY <3>2
        <5>2. QED
          BY <3>3, <5>1 DEF Climbing
      <4>2. \A i, j \in 1..Len(g) : i <= j => g[i] <= g[j]
        BY <3>2, <3>3 DEF Climbing
      <4>3. row[c].created <= now
        BY <3>1 DEF Dated
      <4>4. ASSUME NEW i \in DOMAIN h, NEW j \in DOMAIN h, i <= j
            PROVE  row[c].created <= h[i] /\ h[i] <= h[j] /\ h[j] <= now
        <5>1. CASE j = Len(g) + 1
          <6>1. h[j] = now
            BY <3>2, <5>1
          <6>2. CASE i = Len(g) + 1
            <7>1. h[i] = now
              BY <3>2, <6>2
            <7>2. QED
              BY <1>1, <4>3, <6>1, <7>1
          <6>3. CASE i # Len(g) + 1
            <7>1. i \in 1..Len(g)
              BY <3>2, <6>3
            <7>2. h[i] = g[i]
              BY <3>2, <7>1
            <7>3. QED
              BY <1>1, <4>1, <6>1, <7>1, <7>2
          <6>4. QED
            BY <6>2, <6>3
        <5>2. CASE j \in 1..Len(g)
          <6>1. i \in 1..Len(g)
            BY <3>2, <4>4, <5>2
          <6>2. QED
            BY <3>2, <4>1, <4>2, <4>4, <5>2, <6>1
        <5>3. QED
          BY <3>2, <5>1, <5>2
      <4>5. QED
        BY <4>4 DEF Climbing
    <3>6. \A m \in DOMAIN messages[c] :
             /\ messages[c][m].rung \in DOMAIN h
             /\ h[messages[c][m].rung] <= messages[c][m].at
      <4>1. \A i \in DOMAIN g : i \in DOMAIN h /\ h[i] = g[i]
        BY <3>2
      <4>2. QED
        BY <2>1, <4>1 DEF g
    <3>7. attempts' \in [Cases -> Seq(Nat)]
      BY <1>1, <3>1, <3>2
    <3>8. attempts'[c] = h /\ \A d \in Cases \ {c} : attempts'[d] = attempts[d]
      BY <1>1, <3>1
    <3>9. ASSUME NEW d \in Cases
          PROVE  /\ Extends(attempts'[d], attempts[d]) /\ Extends(messages'[d], messages[d])
                 /\ attempts'[d] # <<>> => d \in Existing
                 /\ Climbing(attempts'[d], row[d].created, now)
                 /\ \A m \in DOMAIN messages'[d] :
                       /\ messages'[d][m].rung \in DOMAIN attempts'[d]
                       /\ attempts'[d][messages'[d][m].rung] <= messages'[d][m].at
      <4>1. CASE d = c
        BY <2>1, <3>1, <3>4, <3>5, <3>6, <3>8, <4>1 DEF g
      <4>2. CASE d # c
        BY <2>1, <3>1, <3>8, <4>2
      <4>3. QED
        BY <4>1, <4>2
    <3>10. QED
      BY <1>1, <3>1, <3>7, <3>9
  <2>3. ASSUME NEW n \in 1..MaxRung, createMessageLog(c, n)
        PROVE  Grown
    <3> DEFINE q == messages[c]
               e == [rung |-> n, at |-> now]
               h == Append(q, e)
    <3>1. /\ messages' = [messages EXCEPT ![c] = h] /\ attempts' = attempts
          /\ n \in DOMAIN attempts[c] /\ n \in Nat \ {0}
      BY <2>3, SizesAssumption DEF createMessageLog
    <3>2. e \in MessageRows
      BY <1>1, <3>1 DEF MessageRows
    <3>3. /\ h \in Seq(MessageRows) /\ Len(q) \in Nat /\ DOMAIN q = 1..Len(q)
          /\ Len(h) = Len(q) + 1 /\ DOMAIN h = 1..(Len(q) + 1) /\ h[Len(q) + 1] = e
          /\ \A i \in 1..Len(q) : h[i] = q[i]
      BY <1>1, <3>2
    <3>4. attempts[c][n] <= now /\ e.rung = n /\ e.at = now
      <4>1. Climbing(attempts[c], row[c].created, now)
        BY <2>1
      <4>2. QED
        BY <3>1, <4>1 DEF Climbing
    <3> HIDE DEF q, h, e
    <3>5. Extends(h, q)
      BY <3>3 DEF Extends
    <3>6. \A m \in DOMAIN h :
             h[m].rung \in DOMAIN attempts[c] /\ attempts[c][h[m].rung] <= h[m].at
      <4>1. ASSUME NEW m \in DOMAIN h, m # Len(q) + 1 PROVE m \in DOMAIN q /\ h[m] = q[m]
        <5>1. m \in 1..Len(q)
          BY <3>3, <4>1
        <5>2. QED
          BY <3>3, <5>1
      <4>2. QED
        BY <2>1, <3>1, <3>3, <3>4, <4>1 DEF q
    <3>7. messages' \in [Cases -> Seq(MessageRows)]
      BY <1>1, <3>1, <3>3
    <3>8. messages'[c] = h /\ \A d \in Cases \ {c} : messages'[d] = messages[d]
      BY <1>1, <3>1
    <3>9. ASSUME NEW d \in Cases
          PROVE  /\ Extends(attempts'[d], attempts[d]) /\ Extends(messages'[d], messages[d])
                 /\ \A m \in DOMAIN messages'[d] :
                       /\ messages'[d][m].rung \in DOMAIN attempts'[d]
                       /\ attempts'[d][messages'[d][m].rung] <= messages'[d][m].at
      <4>1. CASE d = c
        BY <2>1, <3>1, <3>5, <3>6, <3>8, <4>1 DEF q
      <4>2. CASE d # c
        BY <2>1, <3>1, <3>8, <4>2
      <4>3. QED
        BY <4>1, <4>2
    <3>10. QED
      BY <1>1, <2>1, <3>1, <3>7, <3>9
  <2>4. QED
    BY <2>2, <2>3
<1>4. DashboardTypes'
  BY <1>1, <1>3 DEF DashboardTypes
<1>5. RowsAreDated'
  BY <1>1, <1>2 DEF RowsAreDated
<1>6. HistoryIsDated'
  BY <1>1, <1>2, <1>3 DEF HistoryIsDated
<1>7. DetailIsPast'
  <2>1. now' \in Nat /\ now <= now'
    BY <1>1
  <2>2. QED
    BY <1>1, <1>2, <1>3, <2>1, DetailStays
<1>8. WalkGoesDown'
  <2>1. CASE page \in {"list", "end"}
    <3>1. \A d \in kept' : d \in Existing => Matches(walk.filter, row'[d])
      BY <1>1, <2>1 DEF WalkGoesDown, Kept
    <3>2. QED
      BY <1>1, <1>2, <3>1, WalkStays
  <2>2. CASE page \notin {"list", "end"}
    BY <1>1, <2>2 DEF WalkGoesDown
  <2>3. QED
    BY <2>1, <2>2
<1>9. QED
  BY <1>4, <1>5, <1>6, <1>7, <1>8

(* A page is opened or read on, and the engine's rows stay.                *)
LEMMA PagePreserves ==
    ASSUME DashboardInv,
           \/ \E f \in Filters : OpenList(f)
           \/ \E c \in Detailed : OpenCasePage(c)
           \/ LoadMore \/ ReadAttempts \/ ReadMessages \/ ClosePage
    PROVE  DashboardInv'
<1> USE DEF DashboardInv
<1>1. UNCHANGED <<now, row, attempts, messages>>
  BY DEF OpenList, OpenCasePage, LoadMore, ReadAttempts, ReadMessages, ClosePage, engine
<1>2. RowsAreDated' /\ HistoryIsDated' /\ Existing' = Existing
      /\ \A c \in Existing : Key(c)' = Key(c)
  BY <1>1 DEF RowsAreDated, HistoryIsDated, Existing, Key
<1>3. \A listed : Descends(listed)' = Descends(listed)
  BY <1>1 DEF Descends, Existing, Key
<1>4. ASSUME NEW f \in Filters, OpenList(f) \/ (LoadMore /\ f = walk.filter)
      PROVE  DashboardInv'
  <2> DEFINE cursor == IF LoadMore THEN walk.cursor ELSE Top
             listed == IF LoadMore THEN walk.listed ELSE <<>>
  <2>1. /\ cursor \in [created : Nat \cup {Never}, id : Nat] /\ listed \in Seq(Cases)
        /\ listCases(f, cursor, listed)
    BY <1>4 DEF OpenList, LoadMore, DashboardTypes, Top
  <2>2. Descends(listed) /\ Walked(listed, cursor)
    BY <1>4 DEF LoadMore, WalkGoesDown, Descends, Walked
  <2>3. Kept(kept', f) /\ Owed(kept', listed, cursor) /\ kept' \subseteq Cases
    <3>1. CASE LoadMore
      <4>1. page = "list" /\ kept' = kept /\ f = walk.filter
        BY <1>4, <3>1 DEF LoadMore, OpenList
      <4>2. QED
        BY <3>1, <4>1 DEF WalkGoesDown, DashboardTypes
    <3>2. CASE ~LoadMore
      <4>1. kept' = {c \in Existing : Matches(f, row[c])} /\ cursor = Top
        BY <1>4, <3>2 DEF OpenList
      <4>2. QED
        BY <4>1 DEF Kept, Owed, Existing
    <3>3. QED
      BY <3>1, <3>2
  <2> HIDE DEF cursor, listed
  <2>4. /\ page' \in {"list", "end"}
        /\ walk' \in [filter : {f}, listed : Seq(Cases),
                      cursor : [created : Nat \cup {Never}, id : Nat]]
        /\ Descends(walk'.listed)
        /\ page' = "list" => /\ walk'.cursor # Top /\ Walked(walk'.listed, walk'.cursor)
                             /\ Owed(kept', walk'.listed, walk'.cursor)
        /\ page' = "end" => kept' \subseteq Range(walk'.listed)
    BY <2>1, <2>2, <2>3, PageGoesOn
  <2>5. detail' = detail
    BY <1>4 DEF OpenList, LoadMore
  <2>6. DashboardTypes'
    BY <1>1, <2>3, <2>4, <2>5 DEF DashboardTypes, Pages
  <2>7. DetailIsPast'
    BY <2>4 DEF DetailIsPast
  <2>8. WalkGoesDown'
    <3>1. Descends(walk.listed)'
      BY <1>1, <2>4 DEF Descends, Existing, Key
    <3>2. page' = "list" => Walked(walk.listed, walk.cursor)'
      BY <1>1, <2>4 DEF Walked, AtOrAfter, Newer, Key
    <3>3. page' = "list" => Owed(kept, walk.listed, walk.cursor)'
      BY <1>1, <2>4 DEF Owed, Newer, Key
    <3>4. Kept(kept, walk.filter)'
      BY <1>1, <1>2, <2>3, <2>4 DEF Kept, Matches
    <3>5. QED
      BY <2>4, <3>1, <3>2, <3>3, <3>4 DEF WalkGoesDown
  <2>9. QED
    BY <1>2, <2>6, <2>7, <2>8
<1>5. ASSUME NEW c \in Detailed, OpenCasePage(c) PROVE DashboardInv'
  <2>1. /\ c \in Existing /\ c \in Nat /\ row[c] \in Rows /\ Dated(row[c], now)
    BY <1>5, SizesAssumption, EveryRowIsTyped
       DEF OpenCasePage, Existing, DashboardTypes, RowsAreDated
  <2>2. /\ page = "none" /\ page' = "attempts" /\ walk' = walk /\ kept' = kept
        /\ detail' = [id |-> c, summary |-> row[c], attempts |-> <<>>, messages |-> <<>>]
    BY <1>5 DEF OpenCasePage, NoDetail
  <2>3. DashboardTypes'
    BY <1>1, <2>1, <2>2 DEF DashboardTypes, Pages
  <2>4. DetailIsPast'
    BY <1>1, <1>2, <2>1, <2>2 DEF DetailIsPast, Dated
  <2>5. WalkGoesDown'
    BY <2>2 DEF WalkGoesDown
  <2>6. QED
    BY <1>2, <2>3, <2>4, <2>5
<1>6. CASE ReadAttempts \/ ReadMessages
  <2> DEFINE c == detail.id
  <2>1. /\ page \in {"attempts", "messages"} /\ page' \in {"messages", "timeline"}
        /\ walk' = walk /\ kept' = kept
        /\ page = "attempts" => page' = "messages"
        /\ detail' = IF page = "attempts" THEN [detail EXCEPT !.attempts = attempts[c]]
                                          ELSE [detail EXCEPT !.messages = messages[c]]
    BY <1>6 DEF ReadAttempts, ReadMessages
  <2>2. c \in Existing /\ c \in Cases /\ detail.summary \in Rows
        /\ Dated(detail.summary, now) /\ detail.summary.created = row[c].created
    BY <2>1 DEF DetailIsPast, Existing
  <2>3. attempts[c] \in Seq(Nat) /\ messages[c] \in Seq(MessageRows)
        /\ detail \in [id : Nat, summary : Rows \cup {NoRow}, attempts : Seq(Nat),
                       messages : Seq(MessageRows)]
    BY <2>2 DEF DashboardTypes
  <2> HIDE DEF c
  <2>4. Extends(attempts[c], attempts[c]) /\ Extends(messages[c], messages[c])
    BY <2>3 DEF Extends
  <2>5. DashboardTypes'
    BY <1>1, <2>1, <2>3 DEF DashboardTypes, Pages
  <2>6. detail'.id = c /\ detail'.summary = detail.summary
    BY <2>1, <2>3 DEF c
  <2>7. DetailIsPast'
    <3>1. Extends(attempts[c], detail'.attempts)
      BY <2>1, <2>3, <2>4 DEF DetailIsPast, c
    <3>2. page' = "timeline" => Extends(messages[c], detail'.messages)
      BY <2>1, <2>3, <2>4
    <3>3. QED
      BY <1>1, <1>2, <2>1, <2>2, <2>6, <3>1, <3>2 DEF DetailIsPast, Dated, Extends
  <2>8. WalkGoesDown'
    BY <2>1 DEF WalkGoesDown
  <2>9. QED
    BY <1>2, <2>5, <2>7, <2>8
<1>7. CASE ClosePage
  <2>1. page' = "none" /\ walk' = NoWalk /\ kept' = {} /\ detail' = NoDetail
    BY <1>7 DEF ClosePage
  <2>2. DashboardTypes'
    BY <1>1, <2>1 DEF DashboardTypes, Pages, NoWalk, NoDetail, Top, Filters
  <2>3. DetailIsPast' /\ WalkGoesDown'
    BY <2>1 DEF DetailIsPast, WalkGoesDown, NoWalk
  <2>4. QED
    BY <1>2, <2>2, <2>3
<1>8. walk.filter \in Filters
  BY DEF DashboardTypes
<1>9. QED
  BY <1>4, <1>5, <1>6, <1>7, <1>8

LEMMA InitDashboard == Init => DashboardInv
<1> SUFFICES ASSUME Init PROVE DashboardInv
  OBVIOUS
<1> USE DEF Init
<1>1. DashboardTypes
  BY SizesAssumption
     DEF DashboardTypes, Moments, Pages, NoWalk, NoDetail, Top, Filters
<1>2. Existing = {}
  BY DEF Existing
<1>3. RowsAreDated
  BY <1>2, FS_EmptySet DEF RowsAreDated
<1>4. HistoryIsDated
  BY DEF HistoryIsDated, Climbing
<1>5. DetailIsPast /\ WalkGoesDown
  BY DEF DetailIsPast, WalkGoesDown, NoWalk
<1>6. QED
  BY <1>1, <1>3, <1>4, <1>5 DEF DashboardInv

(* Whatever the engine writes between the statements of a page: rows and   *)
(* histories stay dated in order, what a case's page has read is a part of *)
(* what there is now, and a walk's cursor keeps dividing the list.         *)
THEOREM DashboardInvariant == Spec => []DashboardInv
<1>1. DashboardInv /\ [Next]_vars => DashboardInv'
  <2> SUFFICES ASSUME DashboardInv, [Next]_vars PROVE DashboardInv'
    OBVIOUS
  <2>1. CASE UNCHANGED vars
    BY <2>1 DEF vars, engine, reader, DashboardInv, DashboardTypes, RowsAreDated,
                HistoryIsDated, DetailIsPast, WalkGoesDown, Existing, Key, Dated, Climbing,
                Extends, Descends, Walked, Owed, Kept, AtOrAfter, Newer, Matches
  <2>2. CASE Tick
    BY <2>2, TickPreserves
  <2>3. CASE \E c \in Cases, t \in {now, now - 1} \cap Nat : createCase(c, t)
    BY <2>3, CasePreserves
  <2>4. CASE \/ \E c \in Cases, a \in Amounts : markRecovered(c, a)
             \/ \E c \in Cases : updateCaseStatus(c)
    BY <2>4, CasePreserves
  <2>5. CASE \E c \in Detailed : createAttempt(c)
    BY <2>5, HistoryPreserves, SizesAssumption
  <2>6. CASE \E c \in Detailed, n \in 1..MaxRung : createMessageLog(c, n)
    BY <2>6, HistoryPreserves, SizesAssumption
  <2>7. CASE \/ \E f \in Filters : OpenList(f)
             \/ \E c \in Detailed : OpenCasePage(c)
             \/ LoadMore \/ ReadAttempts \/ ReadMessages \/ ClosePage
    BY <2>7, PagePreserves
  <2>8. QED
    BY <2>1, <2>2, <2>3, <2>4, <2>5, <2>6, <2>7 DEF Next
<1>2. QED
  BY <1>1, InitDashboard, PTL DEF Spec

(* A walk through the list shows no case twice, newer ones first, and at   *)
(* its end every case that was there from its start and kept matching.     *)
THEOREM WalkHolds == Spec => []WalkIsExact
<1>1. DashboardInv => WalkIsExact
  BY DEF DashboardInv, WalkGoesDown, WalkIsExact, Descends
<1>2. QED
  BY <1>1, DashboardInvariant, PTL

(***************************************************************************)
(* The dashboard: a case's timeline.                                       *)
(***************************************************************************)
(* What a page has read when its three queries are done.                   *)
Told(d) ==
    /\ d.summary.created \in Nat
    /\ d.summary.recovered # Never => d.summary.recovered \in Nat
                                      /\ d.summary.created <= d.summary.recovered
    /\ d.attempts \in Seq(Nat) /\ d.messages \in Seq(MessageRows)
    /\ \A i, j \in DOMAIN d.attempts :
          i <= j => d.summary.created <= d.attempts[i] /\ d.attempts[i] <= d.attempts[j]
    /\ \A m \in DOMAIN d.messages :
          /\ d.summary.created <= d.messages[m].at
          /\ \A i \in DOMAIN d.attempts :
                i <= d.messages[m].rung => d.attempts[i] <= d.messages[m].at

LEMMA DetailIsTold == DashboardInv /\ page = "timeline" => Told(detail)
<1> SUFFICES ASSUME DashboardInv, page = "timeline" PROVE Told(detail)
  OBVIOUS
<1> DEFINE c == detail.id
           g == attempts[c]
           q == messages[c]
<1>1. /\ c \in Cases /\ c \in Existing /\ detail.summary \in Rows
      /\ Dated(detail.summary, now) /\ detail.summary.created = row[c].created
      /\ Extends(g, detail.attempts) /\ Extends(q, detail.messages)
  BY DEF DashboardInv, DetailIsPast, Existing
<1>2. /\ detail.attempts \in Seq(Nat) /\ detail.messages \in Seq(MessageRows)
      /\ g \in Seq(Nat) /\ q \in Seq(MessageRows)
  BY <1>1 DEF DashboardInv, DashboardTypes
<1>3. /\ Climbing(g, row[c].created, now)
      /\ \A m \in DOMAIN q : q[m].rung \in DOMAIN g /\ g[q[m].rung] <= q[m].at
  BY <1>1 DEF DashboardInv, HistoryIsDated
<1>4. /\ detail.summary.created \in Nat
      /\ detail.summary.recovered # Never => detail.summary.recovered \in Nat
                                             /\ detail.summary.created <= detail.summary.recovered
  BY <1>1 DEF Dated, Rows, Moments, Never
<1> HIDE DEF c, g, q
<1>5. \A i \in DOMAIN detail.attempts : i \in DOMAIN g /\ detail.attempts[i] = g[i]
  BY <1>1, <1>2 DEF Extends
<1>6. \A m \in DOMAIN detail.messages : m \in DOMAIN q /\ detail.messages[m] = q[m]
  BY <1>1, <1>2 DEF Extends
<1>7. \A i, j \in DOMAIN detail.attempts :
         i <= j => /\ detail.summary.created <= detail.attempts[i]
                   /\ detail.attempts[i] <= detail.attempts[j]
  BY <1>1, <1>3, <1>5 DEF Climbing
<1>8. ASSUME NEW m \in DOMAIN detail.messages
      PROVE  /\ detail.summary.created <= detail.messages[m].at
             /\ \A i \in DOMAIN detail.attempts :
                   i <= detail.messages[m].rung => detail.attempts[i] <= detail.messages[m].at
  <2> DEFINE n == q[m].rung
  <2>1. /\ n \in DOMAIN g /\ g[n] <= q[m].at /\ detail.messages[m] = q[m]
        /\ q[m].at \in Nat
    <3>1. m \in DOMAIN q /\ detail.messages[m] = q[m]
      BY <1>6
    <3>2. q[m] \in MessageRows
      BY <1>2, <3>1
    <3>3. QED
      BY <1>3, <3>1, <3>2 DEF MessageRows
  <2> HIDE DEF n
  <2>2. n \in Nat /\ g[n] \in Nat
    BY <1>2, <2>1
  <2>3. row[c].created <= g[n]
    BY <1>3, <2>1, <2>2 DEF Climbing
  <2>4. detail.summary.created <= q[m].at
    BY <1>1, <1>4, <2>1, <2>2, <2>3
  <2>5. ASSUME NEW i \in DOMAIN detail.attempts, i <= n
        PROVE  detail.attempts[i] <= q[m].at
    <3>1. i \in DOMAIN g /\ detail.attempts[i] = g[i] /\ g[i] \in Nat
      BY <1>2, <1>5
    <3>2. g[i] <= g[n]
      BY <1>3, <2>1, <2>5, <3>1 DEF Climbing
    <3>3. QED
      BY <2>1, <2>2, <3>1, <3>2
  <2>6. QED
    BY <2>1, <2>4, <2>5 DEF n
<1>9. QED
  BY <1>2, <1>4, <1>7, <1>8 DEF Told

(* Its events: finitely many, told apart by time, kind and place.          *)
LEMMA EventsAreOrdered ==
    ASSUME NEW d, Told(d)
    PROVE  LET E == EventsOf(d)
           IN  /\ IsFiniteSet(E)
               /\ OrdersStrictly({p \in E \X E : Earlier(p[1], p[2])}, E)
               /\ \A e \in E : /\ e.at \in Nat /\ d.summary.created <= e.at
                               /\ e.kind \in 0..3 /\ e.added \in Nat
                               /\ e.kind = 0 => e.at = d.summary.created /\ e.added = 0
                               /\ e.kind = 1 => /\ e.added \in DOMAIN d.attempts
                                                /\ e.rung = e.added
                                                /\ e.at = d.attempts[e.added]
                               /\ e.kind = 2 => /\ e.added \in DOMAIN d.messages
                                                /\ e.rung = d.messages[e.added].rung
                                                /\ e.at = d.messages[e.added].at
               /\ Event(d.summary.created, 0, 0, 0) \in E
<1> DEFINE E == EventsOf(d)
           R == {p \in E \X E : Earlier(p[1], p[2])}
           first == Event(d.summary.created, 0, 0, 0)
           A == {Event(d.attempts[n], 1, n, n) : n \in DOMAIN d.attempts}
           M == {Event(d.messages[i].at, 2, d.messages[i].rung, i) : i \in DOMAIN d.messages}
           P == IF d.summary.recovered = Never THEN {}
                                               ELSE {Event(d.summary.recovered, 3, 0, 0)}
<1>1. E = {first} \cup A \cup M \cup P
  BY DEF EventsOf
<1>2. /\ d.attempts \in Seq(Nat) /\ d.messages \in Seq(MessageRows)
      /\ DOMAIN d.attempts = 1..Len(d.attempts) /\ Len(d.attempts) \in Nat
      /\ DOMAIN d.messages = 1..Len(d.messages) /\ Len(d.messages) \in Nat
  BY DEF Told
<1>3. IsFiniteSet(A)
  <2> DEFINE f == [n \in DOMAIN d.attempts |-> Event(d.attempts[n], 1, n, n)]
  <2>1. f \in Surjection(DOMAIN d.attempts, A)
    BY DEF Surjection
  <2>2. QED
    <3>1. IsFiniteSet(DOMAIN d.attempts)
      BY <1>2, FS_Interval
    <3> HIDE DEF f
    <3>2. QED
      BY <2>1, <3>1, FS_Surjection
<1>4. IsFiniteSet(M)
  <2> DEFINE f == [i \in DOMAIN d.messages |->
                      Event(d.messages[i].at, 2, d.messages[i].rung, i)]
  <2>1. f \in Surjection(DOMAIN d.messages, M)
    BY DEF Surjection
  <2>2. QED
    <3>1. IsFiniteSet(DOMAIN d.messages)
      BY <1>2, FS_Interval
    <3> HIDE DEF f
    <3>2. QED
      BY <2>1, <3>1, FS_Surjection
<1>5. IsFiniteSet({first}) /\ IsFiniteSet(P)
  BY FS_EmptySet, FS_Singleton
<1> HIDE DEF A, M, P, first
<1>6. IsFiniteSet(E)
  <2>1. IsFiniteSet({first} \cup A)
    BY <1>3, <1>5, FS_Union
  <2>2. IsFiniteSet({first} \cup A \cup M)
    BY <1>4, <2>1, FS_Union
  <2>3. QED
    BY <1>1, <1>5, <2>2, FS_Union
<1>7. ASSUME NEW e \in E
      PROVE  /\ e.at \in Nat /\ d.summary.created <= e.at
             /\ e.kind \in 0..3 /\ e.added \in Nat
             /\ e.kind = 0 => e.at = d.summary.created /\ e.added = 0
             /\ e.kind = 1 => /\ e.added \in DOMAIN d.attempts
                              /\ e.rung = e.added
                              /\ e.at = d.attempts[e.added]
             /\ e.kind = 2 => /\ e.added \in DOMAIN d.messages
                              /\ e.rung = d.messages[e.added].rung
                              /\ e.at = d.messages[e.added].at
             /\ e = Event(e.at, e.kind, e.rung, e.added)
             /\ e.kind \in {0, 3} => e.rung = 0 /\ e.added = 0
  <2>1. CASE e = first
    BY <2>1 DEF first, Event, Told
  <2>2. CASE e \in A
    <3>1. PICK n \in DOMAIN d.attempts : e = Event(d.attempts[n], 1, n, n)
      BY <2>2 DEF A
    <3>2. n \in Nat /\ d.attempts[n] \in Nat /\ d.summary.created <= d.attempts[n]
      BY <1>2 DEF Told
    <3>3. QED
      BY <3>1, <3>2 DEF Event
  <2>3. CASE e \in M
    <3>1. PICK i \in DOMAIN d.messages :
             e = Event(d.messages[i].at, 2, d.messages[i].rung, i)
      BY <2>3 DEF M
    <3>2. i \in Nat /\ d.messages[i].at \in Nat /\ d.summary.created <= d.messages[i].at
      <4>1. d.messages[i] \in MessageRows /\ i \in Nat
        BY <1>2
      <4>2. QED
        BY <4>1 DEF Told, MessageRows
    <3>3. QED
      BY <3>1, <3>2 DEF Event
  <2>4. CASE e \in P
    BY <2>4 DEF P, Event, Told
  <2>5. QED
    BY <1>1, <2>1, <2>2, <2>3, <2>4
<1>8. \A x, y \in E : <<x, y>> \in R <=> Earlier(x, y)
  OBVIOUS
<1> HIDE DEF E, R
<1>9. OrdersStrictly(R, E)
  <2>1. \A x \in E : x.at \in Int /\ x.kind \in Int /\ x.added \in Int
    BY <1>7
  <2>2. \A x \in E : ~Earlier(x, x)
    BY <2>1 DEF Earlier
  <2>3. \A x, y, z \in E : Earlier(x, y) /\ Earlier(y, z) => Earlier(x, z)
    BY <2>1 DEF Earlier
  <2>4. ASSUME NEW x \in E, NEW y \in E, ~Earlier(x, y), ~Earlier(y, x) PROVE x = y
    <3>1. x.at = y.at /\ x.kind = y.kind /\ x.added = y.added
      BY <2>1, <2>4 DEF Earlier
    <3>2. x.rung = y.rung
      BY <1>7, <3>1
    <3>3. x = Event(x.at, x.kind, x.rung, x.added) /\ y = Event(y.at, y.kind, y.rung, y.added)
      BY <1>7
    <3>4. QED
      BY <3>1, <3>2, <3>3
  <2>5. QED
    BY <1>8, <2>2, <2>3, <2>4 DEF OrdersStrictly
<1>10. first \in E
  BY <1>1
<1>11. QED
  BY <1>6, <1>7, <1>9, <1>10 DEF E, R, first

(* Whatever was written while a timeline was read, rungs created after the *)
(* recovery included: it begins with the case, attempts climb, and no      *)
(* attempt follows a reminder of its own or of a later rung.               *)
THEOREM TimelineHolds == Spec => []TimelineIsCausal
<1>1. ASSUME Told(detail) PROVE TimelineIsCausal
  <2> DEFINE E == EventsOf(detail)
             R == {p \in E \X E : Earlier(p[1], p[2])}
             feed == buildTimeline(detail)
             n == Cardinality(E)
             first == Event(detail.summary.created, 0, 0, 0)
  <2>1. feed = InOrder(E, R)
    BY DEF buildTimeline
  <2>2. /\ IsFiniteSet(E) /\ OrdersStrictly(R, E) /\ first \in E
        /\ \A e \in E : /\ e.at \in Nat /\ detail.summary.created <= e.at
                        /\ e.kind \in 0..3 /\ e.added \in Nat
                        /\ e.kind = 1 => /\ e.added \in DOMAIN detail.attempts
                                         /\ e.rung = e.added
                                         /\ e.at = detail.attempts[e.added]
                        /\ e.kind = 2 => /\ e.added \in DOMAIN detail.messages
                                         /\ e.rung = detail.messages[e.added].rung
                                         /\ e.at = detail.messages[e.added].at
    BY <1>1, EventsAreOrdered
  <2>3. \A x, y \in E : <<x, y>> \in R <=> Earlier(x, y)
    OBVIOUS
  <2>4. /\ first.at = detail.summary.created /\ first.kind = 0 /\ first.added = 0
        /\ detail.summary.created \in Nat
        /\ \A i, j \in DOMAIN detail.attempts :
              i <= j => detail.attempts[i] <= detail.attempts[j]
        /\ \A m \in DOMAIN detail.messages, i \in DOMAIN detail.attempts :
              i <= detail.messages[m].rung => detail.attempts[i] <= detail.messages[m].at
        /\ detail.attempts \in Seq(Nat)
    BY <1>1 DEF Event, Told
  <2> HIDE DEF E, R, first, feed
  <2>5. /\ n \in Nat /\ feed \in [1..n -> E]
        /\ \A x \in E : \E i \in 1..n : feed[i] = x
        /\ \A i, j \in 1..n : i < j => <<feed[i], feed[j]>> \in R
    BY <2>1, <2>2, InOrderIsSorted
  <2> HIDE DEF n
  <2>6. feed[1].kind = 0
    <3>1. PICK k \in 1..n : feed[k] = first
      BY <2>2, <2>5
    <3>2. 1 \in 1..n /\ feed[1] \in E
      BY <2>5
    <3>3. CASE k = 1
      BY <2>4, <3>1, <3>3
    <3>4. CASE k # 1
      <4>1. Earlier(feed[1], first)
        <5>1. 1 < k
          BY <3>4, <2>5
        <5>2. <<feed[1], first>> \in R
          BY <2>5, <3>1, <3>2, <5>1
        <5>3. QED
          BY <2>2, <2>3, <3>2, <5>2
      <4>2. /\ feed[1].at \in Nat /\ feed[1].kind \in Nat /\ feed[1].added \in Nat
            /\ detail.summary.created <= feed[1].at
        BY <2>2, <3>2
      <4>3. QED
        BY <2>4, <4>1, <4>2 DEF Earlier
    <3>5. QED
      BY <3>3, <3>4
  <2>7. ASSUME NEW i \in DOMAIN feed, NEW j \in DOMAIN feed, i < j
        PROVE  /\ feed[i].at <= feed[j].at
               /\ ~(feed[j].kind = 1 /\ feed[i].kind = 1 /\ feed[j].rung < feed[i].rung)
               /\ ~(feed[j].kind = 1 /\ feed[i].kind = 2 /\ feed[j].rung <= feed[i].rung)
    <3> DEFINE x == feed[i]
               y == feed[j]
    <3>1. x \in E /\ y \in E /\ Earlier(x, y)
      BY <2>3, <2>5, <2>7
    <3> HIDE DEF x, y
    <3>2. /\ x.at \in Nat /\ x.kind \in Nat /\ x.added \in Nat
          /\ y.at \in Nat /\ y.kind \in Nat /\ y.added \in Nat
      BY <2>2, <3>1
    <3>3. x.at <= y.at
      BY <3>1, <3>2 DEF Earlier
    <3>4. ASSUME y.kind = 1, x.kind = 1, y.rung < x.rung PROVE FALSE
      <4>1. /\ x.added \in DOMAIN detail.attempts /\ y.added \in DOMAIN detail.attempts
            /\ x.at = detail.attempts[x.added] /\ y.at = detail.attempts[y.added]
            /\ y.added < x.added
        BY <2>2, <3>1, <3>4
      <4>2. y.at <= x.at
        <5>1. y.added <= x.added
          BY <3>2, <4>1
        <5>2. QED
          BY <2>4, <4>1, <5>1
      <4>3. QED
        BY <3>1, <3>2, <3>4, <4>1, <4>2 DEF Earlier
    <3>5. ASSUME y.kind = 1, x.kind = 2, y.rung <= x.rung PROVE FALSE
      <4>1. /\ x.added \in DOMAIN detail.messages /\ x.rung = detail.messages[x.added].rung
            /\ x.at = detail.messages[x.added].at
            /\ y.rung \in DOMAIN detail.attempts /\ y.at = detail.attempts[y.rung]
        BY <2>2, <3>1, <3>5
      <4>2. y.at <= x.at
        BY <2>4, <3>5, <4>1
      <4>3. QED
        BY <3>1, <3>2, <3>5, <4>2 DEF Earlier
    <3>6. QED
      BY <3>3, <3>4, <3>5 DEF x, y
  <2>8. QED
    BY <2>6, <2>7 DEF TimelineIsCausal, feed
<1>2. DashboardInv => TimelineIsCausal
  BY <1>1, DetailIsTold DEF TimelineIsCausal
<1>3. QED
  BY <1>2, DashboardInvariant, PTL

(***************************************************************************)
(* The figures.  FiguresAgree is about sums, which fold over sets; what    *)
(* makes them agree is that the trend's days and the overview count the    *)
(* same cases, each once.                                                  *)
(***************************************************************************)

(* A row has a recovery time as long as it is recovered, or was before it  *)
(* was given up.                                                           *)
RecoveriesAreKnown ==
    /\ undone \subseteq Existing
    /\ \A c \in undone : row[c].status = "FAILED"
    /\ \A c \in Existing :
          row[c].recovered # Never <=> row[c].status = "RECOVERED" \/ c \in undone

(* The days of the trend share no case, and together they have the         *)
(* recovered cases of the overview and those given up after a recovery,    *)
(* but for the recoveries older than the window.                           *)
SameCases ==
    /\ \A i, j \in 0..(WindowDays - 1) : i # j => PaidOn(i) \cap PaidOn(j) = {}
    /\ UNION {PaidOn(i) : i \in 0..(WindowDays - 1)}
         = {c \in With("RECOVERED") \cup undone : ~Older(c)}
    /\ With("RECOVERED") \cap undone = {}

LEMMA DivBounds ==
    ASSUME NEW t \in Int, NEW d \in Nat, d > 0
    PROVE  /\ t \div d \in Int /\ d * (t \div d) \in Int
           /\ d * (t \div d) <= t /\ t < d * (t \div d) + d
OBVIOUS

LEMMA MultiplesGrow ==
    ASSUME NEW a \in Int, NEW b \in Int, NEW d \in Nat, d > 0, a <= b
    PROVE  d * a <= d * b
OBVIOUS

(* The day of a time is at least q exactly from q's first moment on.       *)
LEMMA DayFrom ==
    ASSUME NEW t \in Int, NEW q \in Int, NEW d \in Nat, d > 0
    PROVE  d * q <= t <=> q <= t \div d
<1>1. CASE q <= t \div d
  BY <1>1, DivBounds, MultiplesGrow
<1>2. CASE q > t \div d
  <2> DEFINE e == t \div d
  <2>1. e \in Int /\ t < d * e + d
    BY DivBounds
  <2>2. e + 1 <= q
    BY <1>2, <2>1
  <2> HIDE DEF e
  <2>3. d * (e + 1) <= d * q
    BY <2>1, <2>2, MultiplesGrow
  <2>4. d * (e + 1) = d * e + d
    BY <2>1
  <2>5. QED
    BY <1>2, <2>1, <2>3, <2>4 DEF e
<1>3. QED
  BY <1>1, <1>2, DivBounds

(* The window starts with the first moment of its first day.               *)
LEMMA WindowOpens ==
    ASSUME now \in Nat
    PROVE  /\ Day(now) \in Nat /\ windowStart \in Int
           /\ Day(windowStart) = Day(now) - (WindowDays - 1)
           /\ \A t \in Int : t >= windowStart <=> Day(t) > Day(now) - WindowDays
           /\ \A t \in Int : t <= now => Day(t) \in Int /\ Day(t) <= Day(now)
<1> DEFINE d == DayLength
           q == Day(now) - (WindowDays - 1)
<1>1. d \in Nat /\ d > 0 /\ WindowDays \in Nat
  BY SizesAssumption
<1>2. ASSUME NEW t \in Int PROVE Day(t) \in Int
  BY <1>1, DivBounds DEF Day
<1>3. ASSUME NEW t \in Int, NEW e \in Int PROVE d * e <= t <=> e <= Day(t)
  BY <1>1, DayFrom DEF Day
<1>4. now \in Int /\ Day(now) \in Int /\ q \in Int
  BY <1>1, <1>2
<1>5. Day(now) \in Nat
  <2>1. d * 0 <= now
    BY <1>1
  <2>2. QED
    BY <1>3, <1>4, <2>1
<1>6. windowStart = d * q /\ d * q \in Int
  BY <1>1, <1>4 DEF windowStart
<1> HIDE DEF q, d
<1>7. Day(windowStart) = q
  <2>1. q <= Day(d * q)
    BY <1>3, <1>4, <1>6
  <2>2. ~(q + 1 <= Day(d * q))
    <3>1. ~(d * (q + 1) <= d * q)
      BY <1>1, <1>4
    <3>2. QED
      BY <1>3, <1>4, <1>6, <3>1
  <2>3. QED
    BY <1>2, <1>4, <1>6, <2>1, <2>2
<1>8. ASSUME NEW t \in Int PROVE t >= windowStart <=> Day(t) > Day(now) - WindowDays
  <2>1. t >= windowStart <=> q <= Day(t)
    BY <1>3, <1>4, <1>6
  <2>2. QED
    BY <1>1, <1>2, <1>4, <2>1 DEF q
<1>9. ASSUME NEW t \in Int, t <= now PROVE Day(t) <= Day(now)
  <2>1. d * Day(t) <= t /\ d * Day(t) \in Int
    BY <1>1, <1>2, <1>3, DivBounds DEF Day, d
  <2>2. d * Day(t) <= now
    BY <1>4, <1>9, <2>1
  <2>3. QED
    BY <1>2, <1>3, <1>4, <2>2
<1>10. QED
  BY <1>2, <1>5, <1>6, <1>7, <1>8, <1>9 DEF q

LEMMA RecoveriesStep ==
    DashboardInv /\ RecoveriesAreKnown /\ [Next]_vars => RecoveriesAreKnown'
<1> SUFFICES ASSUME DashboardInv, RecoveriesAreKnown, [Next]_vars
             PROVE  RecoveriesAreKnown'
  OBVIOUS
<1>1. row \in [Cases -> Rows \cup {NoRow}] /\ now \in Nat
  BY DEF DashboardInv, DashboardTypes, Moments
<1>2. CASE UNCHANGED <<row, undone>>
  BY <1>2 DEF RecoveriesAreKnown, Existing
<1>3. ASSUME NEW c \in Cases, NEW r \in Rows, row' = [row EXCEPT ![c] = r],
             undone' \ {c} = undone \ {c},
             r.recovered # Never <=> r.status = "RECOVERED" \/ c \in undone',
             c \in undone' => r.status = "FAILED"
      PROVE  RecoveriesAreKnown'
  <2>1. r # NoRow /\ row'[c] = r /\ \A e \in Cases \ {c} : row'[e] = row[e]
    BY <1>1, <1>3 DEF Rows, NoRow, Statuses
  <2>2. Existing' = Existing \cup {c} /\ Existing \subseteq Cases
    BY <2>1 DEF Existing
  <2>3. QED
    BY <1>3, <2>1, <2>2 DEF RecoveriesAreKnown
<1>4. ASSUME NEW c \in Cases, NEW t \in {now, now - 1} \cap Nat, createCase(c, t)
      PROVE  RecoveriesAreKnown'
  <2> DEFINE r == [status |-> "OPEN", created |-> t, recovered |-> Never, paid |-> 0]
  <2>1. r \in Rows
    BY <1>1, <1>4, SizesAssumption
    DEF Rows, Moments, Statuses, DashboardInv, DashboardTypes
  <2>2. c \notin undone
    BY <1>4 DEF createCase, RecoveriesAreKnown, Existing
  <2>3. row' = [row EXCEPT ![c] = r] /\ undone' = undone
    BY <1>4 DEF createCase, Write
  <2>4. r.status = "OPEN" /\ r.recovered = Never
    OBVIOUS
  <2> HIDE DEF r
  <2>5. QED
    BY <1>3, <2>1, <2>2, <2>3, <2>4
<1>5. ASSUME NEW c \in Cases, NEW a \in Amounts, markRecovered(c, a)
      PROVE  RecoveriesAreKnown'
  <2> DEFINE r == [row[c] EXCEPT !.status = "RECOVERED", !.recovered = now, !.paid = a]
  <2>1. row[c] \in Rows
    BY <1>1, <1>5 DEF markRecovered
  <2>2. r \in Rows /\ r.status = "RECOVERED" /\ r.recovered = now
    BY <1>1, <2>1 DEF Rows, Statuses, DashboardInv, DashboardTypes
  <2>3. row' = [row EXCEPT ![c] = r] /\ undone' = undone \ {c}
    BY <1>5 DEF markRecovered, Write
  <2> HIDE DEF r
  <2>4. r.recovered # Never
    BY <1>1, <2>2 DEF Never
  <2>5. QED
    BY <1>3, <2>2, <2>3, <2>4
<1>6. ASSUME NEW c \in Cases, updateCaseStatus(c) PROVE RecoveriesAreKnown'
  <2> DEFINE r == [row[c] EXCEPT !.status = "FAILED"]
  <2>1. row[c] \in Rows /\ c \in Existing
    BY <1>1, <1>6 DEF updateCaseStatus, Existing
  <2>2. r \in Rows /\ r.status = "FAILED" /\ r.recovered = row[c].recovered
    BY <2>1 DEF Rows, Statuses
  <2>3. /\ row' = [row EXCEPT ![c] = r]
        /\ undone' = IF row[c].status = "RECOVERED" THEN undone \cup {c} ELSE undone
    BY <1>6 DEF updateCaseStatus, Write
  <2>4. r.recovered # Never <=> row[c].status = "RECOVERED" \/ c \in undone
    BY <2>1, <2>2 DEF RecoveriesAreKnown
  <2> HIDE DEF r
  <2>5. QED
    BY <1>3, <2>2, <2>3, <2>4
<1>7. CASE \/ Tick \/ \E c \in Detailed : createAttempt(c) \/ OpenCasePage(c)
           \/ \E c \in Detailed, n \in 1..MaxRung : createMessageLog(c, n)
           \/ \E f \in Filters : OpenList(f)
           \/ LoadMore \/ ReadAttempts \/ ReadMessages \/ ClosePage
  BY <1>2, <1>7 DEF Tick, createAttempt, OpenCasePage, createMessageLog, OpenList, LoadMore,
                    ReadAttempts, ReadMessages, ClosePage, engine
<1>8. CASE UNCHANGED vars
  BY <1>2, <1>8 DEF vars, engine
<1>9. QED
  BY <1>4, <1>5, <1>6, <1>7, <1>8 DEF Next

(* Overview and trend count the same recoveries, each of them once, for    *)
(* every window, length of a day and set of cases.  FiguresHold goes on    *)
(* from the cases to their money.                                          *)
THEOREM FiguresCountTheSameCases == Spec => []SameCases
<1>1. Init => RecoveriesAreKnown
  BY DEF Init, RecoveriesAreKnown, Existing
<1>2. DashboardInv /\ RecoveriesAreKnown => SameCases
  <2> SUFFICES ASSUME DashboardInv, RecoveriesAreKnown PROVE SameCases
    OBVIOUS
  <2> DEFINE days == 0..(WindowDays - 1)
             paid == {c \in With("RECOVERED") \cup undone : ~Older(c)}
  <2>1. now \in Nat /\ WindowDays \in Nat /\ WindowDays > 0
        /\ row \in [Cases -> Rows \cup {NoRow}]
    BY SizesAssumption DEF DashboardInv, DashboardTypes, Moments
  <2>2. /\ Day(now) \in Nat
        /\ Day(windowStart) = Day(now) - (WindowDays - 1)
        /\ \A t \in Int : t >= windowStart <=> Day(t) > Day(now) - WindowDays
        /\ \A t \in Int : t <= now => Day(t) \in Int /\ Day(t) <= Day(now)
    BY <2>1, WindowOpens
  <2>3. ASSUME NEW c \in Existing, row[c].recovered # Never
        PROVE  row[c].recovered \in Int /\ row[c].recovered <= now
    BY <2>1, <2>3, EveryRowIsTyped
    DEF DashboardInv, RowsAreDated, Dated, Existing, Never
  <2>4. \A i \in days : WindowDay(i) = Day(now) - (WindowDays - 1) + i
    BY <2>2 DEF WindowDay
  <2>5. ASSUME NEW i \in days, NEW j \in days, i # j PROVE PaidOn(i) \cap PaidOn(j) = {}
    <3>1. WindowDay(i) # WindowDay(j)
      BY <2>1, <2>2, <2>4, <2>5
    <3>2. QED
      BY <3>1 DEF PaidOn
  <2>6. ASSUME NEW i \in days, NEW c \in PaidOn(i) PROVE c \in paid
    <3>1. /\ c \in Existing /\ row[c].recovered # Never /\ row[c].recovered >= windowStart
      BY DEF PaidOn
    <3>2. c \in With("RECOVERED") \cup undone
      BY <3>1 DEF RecoveriesAreKnown, With
    <3>3. ~Older(c)
      <4>1. Day(row[c].recovered) > Day(now) - WindowDays /\ Day(row[c].recovered) \in Int
        BY <2>2, <2>3, <3>1
      <4>2. QED
        BY <2>1, <2>2, <4>1 DEF Older
    <3>4. QED
      BY <3>2, <3>3
  <2>7. ASSUME NEW c \in paid PROVE \E i \in days : c \in PaidOn(i)
    <3>1. c \in Existing /\ row[c].recovered # Never /\ ~Older(c)
      BY DEF RecoveriesAreKnown, With
    <3> DEFINE e == Day(row[c].recovered)
               i == e - (Day(now) - (WindowDays - 1))
    <3>2. e \in Int /\ e <= Day(now) /\ e > Day(now) - WindowDays
      BY <2>1, <2>2, <2>3, <3>1 DEF Older
    <3>3. row[c].recovered >= windowStart
      BY <2>2, <2>3, <3>1, <3>2
    <3>4. i \in days /\ e = Day(now) - (WindowDays - 1) + i
      <4> HIDE DEF e
      <4>1. QED
        BY <2>1, <2>2, <3>2
    <3> HIDE DEF i
    <3>5. QED
      BY <2>4, <3>1, <3>3, <3>4 DEF PaidOn
  <2>8. With("RECOVERED") \cap undone = {}
    BY DEF RecoveriesAreKnown, With
  <2>9. UNION {PaidOn(i) : i \in days} = paid
    BY <2>6, <2>7
  <2>10. QED
    BY <2>5, <2>8, <2>9 DEF SameCases
<1>3. QED
  BY <1>1, <1>2, RecoveriesStep, DashboardInvariant, PTL DEF Spec

(***************************************************************************)
(* The dashboard: sums.                                                    *)
(***************************************************************************)
(* A sum over a finite set is a number, the count of a finite set of units. *)
LEMMA UnitsAreFinite ==
    ASSUME NEW D, IsFiniteSet(D), NEW f \in [D -> Nat]
    PROVE  IsFiniteSet(Units(f)) /\ SumOf(f) \in Nat
<1> DEFINE g == [x \in D |-> {x} \X (1..f[x])]
           T == {{x} \X (1..f[x]) : x \in D}
<1>1. g \in Surjection(D, T)
  BY DEF Surjection
<1>2. IsFiniteSet(T)
  BY <1>1, FS_Surjection
<1>3. ASSUME NEW U \in T PROVE IsFiniteSet(U)
  <2>1. PICK x \in D : U = {x} \X (1..f[x])
    OBVIOUS
  <2>2. IsFiniteSet({x})
    BY FS_Singleton
  <2>3. f[x] \in Int /\ 1 \in Int
    OBVIOUS
  <2>4. IsFiniteSet(1..f[x])
    BY <2>3, FS_Interval
  <2>5. QED
    BY <2>1, <2>2, <2>4, FS_Product
<1>4. Units(f) = UNION T
  BY DEF Units
<1> HIDE DEF T
<1>5. IsFiniteSet(Units(f))
  BY <1>2, <1>3, <1>4, FS_UNION
<1>6. QED
  BY <1>5, FS_CardinalityType DEF SumOf

UnitsOf(S) == Units([c \in S |-> row[c].paid])

LEMMA UnitsOfCases ==
    ASSUME row \in [Cases -> Rows \cup {NoRow}], NEW S \in SUBSET Cases
    PROVE  /\ \A u : u \in UnitsOf(S) <=>
                 \E c \in S, k \in Nat : u = <<c, k>> /\ k \in 1..row[c].paid
           /\ TotalOf(S) = Cardinality(UnitsOf(S))
           /\ IsFiniteSet(S) => IsFiniteSet(UnitsOf(S)) /\ TotalOf(S) \in Nat
<1> DEFINE f == [c \in S |-> row[c].paid]
<1>1. f \in [S -> Nat]
  BY EveryRowIsTyped
<1>2. \A u : u \in UnitsOf(S) <=>
            \E c \in S, k \in Nat : u = <<c, k>> /\ k \in 1..row[c].paid
  BY <1>1 DEF UnitsOf, Units
<1>3. TotalOf(S) = Cardinality(UnitsOf(S))
  BY DEF TotalOf, SumOf, UnitsOf
<1>4. ASSUME IsFiniteSet(S) PROVE IsFiniteSet(UnitsOf(S)) /\ TotalOf(S) \in Nat
  BY <1>1, <1>4, UnitsAreFinite DEF UnitsOf, TotalOf
<1>5. QED
  BY <1>2, <1>3, <1>4

(* The amounts of two separate sets of cases add up.                       *)
LEMMA TotalsAdd ==
    ASSUME row \in [Cases -> Rows \cup {NoRow}], NEW A \in SUBSET Cases, NEW B \in SUBSET Cases,
           IsFiniteSet(A), IsFiniteSet(B), A \cap B = {}
    PROVE  TotalOf(A \cup B) = TotalOf(A) + TotalOf(B)
<1>1. UnitsOf(A \cup B) = UnitsOf(A) \cup UnitsOf(B)
  BY UnitsOfCases
<1>2. UnitsOf(A) \cap UnitsOf(B) = {}
  BY UnitsOfCases
<1>3. IsFiniteSet(UnitsOf(A)) /\ IsFiniteSet(UnitsOf(B))
      /\ TotalOf(A) \in Nat /\ TotalOf(B) \in Nat
      /\ TotalOf(A) = Cardinality(UnitsOf(A)) /\ TotalOf(B) = Cardinality(UnitsOf(B))
  BY UnitsOfCases
<1>4. TotalOf(A \cup B) = Cardinality(UnitsOf(A) \cup UnitsOf(B))
  BY <1>1, UnitsOfCases
<1>5. Cardinality(UnitsOf(A) \cup UnitsOf(B)) = TotalOf(A) + TotalOf(B) - 0
  <2>1. Cardinality(UnitsOf(A) \cup UnitsOf(B))
          = Cardinality(UnitsOf(A)) + Cardinality(UnitsOf(B))
              - Cardinality(UnitsOf(A) \cap UnitsOf(B))
    BY <1>3, FS_Union
  <2>2. Cardinality(UnitsOf(A) \cap UnitsOf(B)) = 0
    BY <1>2, FS_EmptySet
  <2>3. QED
    BY <1>3, <2>1, <2>2
<1>6. QED
  BY <1>3, <1>4, <1>5

(* The totals of the parts of a set of cases, none of them in two parts,   *)
(* add up to its own: numbering the units of each part numbers all.        *)
LEMMA PartsAddUp ==
    ASSUME row \in [Cases -> Rows \cup {NoRow}],
           NEW D, IsFiniteSet(D), NEW P \in [D -> SUBSET Cases],
           \A i \in D : IsFiniteSet(P[i]),
           \A i, j \in D : i # j => P[i] \cap P[j] = {}
    PROVE  SumOf([i \in D |-> TotalOf(P[i])]) = TotalOf(UNION {P[i] : i \in D})
<1> DEFINE f == [i \in D |-> TotalOf(P[i])]
           all == UNION {P[i] : i \in D}
           number == [i \in D |-> CHOOSE h : h \in Bijection(1..f[i], UnitsOf(P[i]))]
           g == [v \in Units(f) |-> number[v[1]][v[2]]]
<1>1. all \in SUBSET Cases
  OBVIOUS
<1>2. ASSUME NEW i \in D
      PROVE  /\ f[i] \in Nat
             /\ number[i] \in Bijection(1..f[i], UnitsOf(P[i]))
  <2>1. /\ IsFiniteSet(UnitsOf(P[i])) /\ TotalOf(P[i]) \in Nat
        /\ TotalOf(P[i]) = Cardinality(UnitsOf(P[i]))
    BY UnitsOfCases
  <2>2. ExistsBijection(1..TotalOf(P[i]), UnitsOf(P[i]))
    BY <2>1, FS_CardinalityType
  <2>3. \E h : h \in Bijection(1..f[i], UnitsOf(P[i]))
    BY <2>2 DEF ExistsBijection
  <2>4. QED
    BY <2>1, <2>3
<1>3. f \in [D -> Nat]
  BY <1>2
<1>4. \A v : v \in Units(f) <=> \E i \in D, k \in Nat : v = <<i, k>> /\ k \in 1..f[i]
  BY <1>3 DEF Units
<1> HIDE DEF f, number
<1>5. ASSUME NEW i \in D
      PROVE  /\ \A k \in 1..f[i] : number[i][k] \in UnitsOf(P[i])
             /\ \A k, l \in 1..f[i] : number[i][k] = number[i][l] => k = l
             /\ \A u \in UnitsOf(P[i]) : \E k \in 1..f[i] : number[i][k] = u
  BY <1>2 DEF Bijection, Injection, Surjection, IsInjective
<1>6. ASSUME NEW u
      PROVE  u \in UnitsOf(all) <=> \E i \in D : u \in UnitsOf(P[i])
  <2>1. u \in UnitsOf(all) <=> \E c \in all, k \in Nat : u = <<c, k>> /\ k \in 1..row[c].paid
    BY <1>1, UnitsOfCases
  <2>2. \A i \in D :
          u \in UnitsOf(P[i])
             <=> \E c \in P[i], k \in Nat : u = <<c, k>> /\ k \in 1..row[c].paid
    BY UnitsOfCases
  <2>3. QED
    BY <2>1, <2>2
<1>7. ASSUME NEW i \in D, NEW j \in D, NEW u, u \in UnitsOf(P[i]), u \in UnitsOf(P[j])
      PROVE  i = j
  <2>1. PICK c \in P[i], k \in Nat : u = <<c, k>>
    BY <1>7, UnitsOfCases
  <2>2. PICK d \in P[j], l \in Nat : u = <<d, l>>
    BY <1>7, UnitsOfCases
  <2>3. c = d
    BY <2>1, <2>2
  <2>4. QED
    BY <2>3
<1>8. g \in [Units(f) -> UnitsOf(all)]
  <2> SUFFICES ASSUME NEW v \in Units(f) PROVE number[v[1]][v[2]] \in UnitsOf(all)
    OBVIOUS
  <2>1. PICK i \in D, k \in Nat : v = <<i, k>> /\ k \in 1..f[i]
    BY <1>4
  <2>2. number[i][k] \in UnitsOf(P[i])
    BY <1>5, <2>1
  <2>3. QED
    BY <1>6, <2>1, <2>2
<1>9. ASSUME NEW v \in Units(f), NEW w \in Units(f), g[v] = g[w] PROVE v = w
  <2>1. PICK i \in D, k \in Nat : v = <<i, k>> /\ k \in 1..f[i]
    BY <1>4
  <2>2. PICK j \in D, l \in Nat : w = <<j, l>> /\ l \in 1..f[j]
    BY <1>4
  <2>3. number[i][k] = number[j][l]
    BY <1>9, <2>1, <2>2
  <2>4. number[i][k] \in UnitsOf(P[i]) /\ number[j][l] \in UnitsOf(P[j])
    BY <1>5, <2>1, <2>2
  <2>5. i = j
    BY <1>7, <2>3, <2>4
  <2>6. k = l
    BY <1>5, <2>1, <2>2, <2>3, <2>5
  <2>7. QED
    BY <2>1, <2>2, <2>5, <2>6
<1>10. ASSUME NEW u \in UnitsOf(all) PROVE \E v \in Units(f) : g[v] = u
  <2>1. PICK i \in D : u \in UnitsOf(P[i])
    BY <1>6
  <2>2. PICK k \in 1..f[i] : number[i][k] = u
    BY <1>5, <2>1
  <2>3. <<i, k>> \in Units(f)
    BY <1>4, <2>2
  <2>4. QED
    BY <2>2, <2>3
<1> HIDE DEF g
<1>11. g \in Bijection(Units(f), UnitsOf(all))
  BY <1>8, <1>9, <1>10 DEF Bijection, Injection, Surjection, IsInjective
<1>12. IsFiniteSet(Units(f))
  BY <1>3, UnitsAreFinite
<1>13. Cardinality(UnitsOf(all)) = Cardinality(Units(f))
  BY <1>11, <1>12, FS_Bijection DEF ExistsBijection
<1>14. QED
  <2>1. TotalOf(all) = Cardinality(UnitsOf(all))
    BY <1>1, UnitsOfCases
  <2>2. QED
    BY <1>13, <2>1 DEF SumOf, f

(* What overview and trend add up, for every window, length of a day, set  *)
(* of cases and payments, however often a case is recovered, given up and  *)
(* recovered anew; no figure moves between two queries of one state.       *)
THEOREM FiguresHold == Spec => []FiguresAgree
<1>1. DashboardInv /\ SameCases => FiguresAgree
  <2> SUFFICES ASSUME DashboardInv, SameCases PROVE FiguresAgree
    OBVIOUS
  <2> DEFINE days == 0..(WindowDays - 1)
             P == [i \in days |-> PaidOn(i)]
             R == With("RECOVERED")
             A == {c \in R : ~Older(c)}
             B == {c \in R : Older(c)}
             C == {c \in undone : ~Older(c)}
  <2>1. UNION {PaidOn(i) : i \in days} = {c \in R \cup undone : ~Older(c)}
        /\ R \cap undone = {}
        /\ \A i, j \in days : i # j => PaidOn(i) \cap PaidOn(j) = {}
    BY DEF SameCases
  <2>2. /\ IsFiniteSet(Existing) /\ Existing \subseteq Cases
        /\ row \in [Cases -> Rows \cup {NoRow}]
    BY DEF DashboardInv, DashboardTypes, RowsAreDated, Existing
  <2>3. R \in SUBSET Existing /\ \A i \in days : PaidOn(i) \in SUBSET Existing
    BY DEF With, PaidOn
  <2>4. {c \in R \cup undone : ~Older(c)} = A \cup C
    OBVIOUS
  <2>5. C \in SUBSET Existing
    BY <2>1, <2>3
  <2>6. A \in SUBSET Existing /\ B \in SUBSET Existing
    BY <2>3
  <2>7. A \cap B = {} /\ A \cap C = {} /\ R = A \cup B
    BY <2>1
  <2>8. SumOf([i \in days |-> TotalOf(PaidOn(i))]) = TotalOf(A \cup C)
    <3>1. IsFiniteSet(days)
      BY SizesAssumption, FS_Interval
    <3>2. P \in [days -> SUBSET Cases] /\ \A i \in days : IsFiniteSet(P[i])
      BY <2>2, <2>3, FS_Subset
    <3>3. \A i, j \in days : i # j => P[i] \cap P[j] = {}
      BY <2>1
    <3>4. UNION {P[i] : i \in days} = A \cup C
      BY <2>1, <2>4
    <3>5. [i \in days |-> TotalOf(P[i])] = [i \in days |-> TotalOf(PaidOn(i))]
      OBVIOUS
    <3> HIDE DEF P, days, A, C
    <3>6. QED
      BY <2>2, <3>1, <3>2, <3>3, <3>4, <3>5, PartsAddUp
  <2> HIDE DEF A, B, C, R
  <2>9. IsFiniteSet(A) /\ IsFiniteSet(B) /\ IsFiniteSet(C)
    BY <2>2, <2>5, <2>6, FS_Subset
  <2>10. TotalOf(A \cup C) = TotalOf(A) + TotalOf(C) /\ TotalOf(R) = TotalOf(A) + TotalOf(B)
    BY <2>2, <2>5, <2>6, <2>7, <2>9, TotalsAdd
  <2>11. TotalOf(A) \in Nat /\ TotalOf(B) \in Nat /\ TotalOf(C) \in Nat
    BY <2>2, <2>5, <2>6, <2>9, UnitsOfCases
  <2>12. SumOf(getAnalytics.revenueTrend) + TotalOf(B) = TotalOf(R) + TotalOf(C)
    <3>1. getAnalytics.revenueTrend = [i \in days |-> TotalOf(PaidOn(i))]
      BY DEF getAnalytics
    <3>2. QED
      BY <2>8, <2>10, <2>11, <3>1
  <2>13. getDashboardStats.revenue = TotalOf(R)
    BY DEF getDashboardStats, R
  <2>14. QED
    BY <2>12, <2>13 DEF FiguresAgree, B, C, R
<1>2. QED
  BY <1>1, DashboardInvariant, FiguresCountTheSameCases, PTL

(***************************************************************************)
(* The settings page.                                                      *)
(***************************************************************************)
Secrets == [generation : Nat, layers : {0, 1}]
FormPlaces == {"closed", "editing", "read", "update", "audit", "answer"}
ButtonPlaces == {"idle", "confirming", "store", "audit", "answer", "error"}
ScriptPlaces == {"start", "update", "done", "dead"}
MaybeName == Names \cup {None}
Entries == [action : {"profile.updated", "webhook_secret.regenerated"},
            from : MaybeName, to : MaybeName]

SettingsTypeOK ==
    /\ merchant \in [name : Names, secret : Secrets]
    /\ auditLog \subseteq Entries
    /\ nameForm \in [Tabs -> [at : FormPlaces, typed : Names, before : Names]]
    /\ secretButton \in [Tabs -> ButtonPlaces]
    /\ script \in [ScriptRuns -> [at : ScriptPlaces, secret : Secrets]]
    /\ lost \in Nat
    /\ gaps \subseteq MaybeName

(* A form holds, once it has read it, a name that was the merchant's.      *)
BeforeIsAudited ==
    \A t \in Tabs :
        nameForm[t].at \in {"update", "audit"} /\ nameForm[t].before # FirstName
            => Audited(nameForm[t].before)

(* A run of the script updates what it read in plain text, and one that    *)
(* has come to its end leaves an encrypted secret.                         *)
ScriptsEncrypt ==
    /\ \A r \in ScriptRuns : script[r].at = "update" => script[r].secret.layers = 0
    /\ (\E r \in ScriptRuns : script[r].at = "done") => merchant.secret.layers = 1

SettingsInv == SettingsTypeOK /\ NameIsAudited /\ BeforeIsAudited /\ ScriptsEncrypt

LEMMA InitSettings == SettingsInit => SettingsInv
<1> SUFFICES ASSUME SettingsInit PROVE SettingsInv
  OBVIOUS
<1> USE DEF SettingsInit
<1>1. merchant.name = FirstName /\ merchant \in [name : Names, secret : Secrets]
  BY NamesAssumption DEF Secrets
<1>2. SettingsTypeOK
  <2>1. script \in [ScriptRuns -> [at : ScriptPlaces, secret : Secrets]]
    BY <1>1 DEF ScriptPlaces
  <2>2. QED
    BY <1>1, <2>1, NamesAssumption DEF SettingsTypeOK, FormPlaces, ButtonPlaces
<1>3. NameIsAudited /\ BeforeIsAudited /\ ScriptsEncrypt
  BY <1>1 DEF NameIsAudited, BeforeIsAudited, ScriptsEncrypt
<1>4. QED
  BY <1>2, <1>3 DEF SettingsInv

(* What is audited stays so: a form leaves its audit statement only with   *)
(* the entry or the gap.                                                   *)
LEMMA AuditedStays ==
    ASSUME SettingsTypeOK, NEW name, Audited(name),
           auditLog \subseteq auditLog', gaps \subseteq gaps',
           \A t \in Tabs : nameForm[t].at = "audit"
              => \/ nameForm'[t].at = "audit" /\ nameForm'[t].typed = nameForm[t].typed
                 \/ nameForm[t].typed \in gaps'
                 \/ \E e \in auditLog' : e.to = nameForm[t].typed
    PROVE  Audited(name)'
BY DEF Audited

(* One tab's form moves.                                                   *)
LEMMA FormMoves ==
    ASSUME SettingsTypeOK, NEW t \in Tabs, NEW from, NEW to, MoveForm(t, from, to)
    PROVE  /\ nameForm[t].at = from /\ nameForm'[t].at = to
           /\ nameForm'[t].typed = nameForm[t].typed /\ nameForm'[t].before = nameForm[t].before
           /\ \A u \in Tabs \ {t} : nameForm'[u] = nameForm[u]
           /\ to \in FormPlaces
                => nameForm' \in [Tabs -> [at : FormPlaces, typed : Names, before : Names]]
BY DEF MoveForm, SettingsTypeOK

(* Steps of a form that write neither row nor log.                         *)
LEMMA QuietFormPreserves ==
    ASSUME SettingsInv, NEW t \in Tabs,
           \/ EditName(t) \/ CancelEdit(t) \/ NameSaved(t) \/ SaveRejected(t)
           \/ ReadName(t) \/ \E name \in Names : SaveName(t, name)
    PROVE  SettingsInv'
<1> USE DEF SettingsInv
<1>1. UNCHANGED <<merchant, auditLog, secretButton, script, gaps>>
  BY DEF EditName, CancelEdit, NameSaved, SaveRejected, ReadName, SaveName
<1> DEFINE Quiet ==
        /\ nameForm' \in [Tabs -> [at : FormPlaces, typed : Names, before : Names]]
        /\ nameForm[t].at # "audit" /\ nameForm'[t].at # "audit"
        /\ nameForm'[t].at = "update" => nameForm'[t].before = merchant.name
        /\ \A u \in Tabs \ {t} : nameForm'[u] = nameForm[u]
<1>2. Quiet
  <2>1. CASE EditName(t)
    BY <2>1, FormMoves DEF EditName, FormPlaces
  <2>2. CASE CancelEdit(t)
    BY <2>2, FormMoves DEF CancelEdit, FormPlaces
  <2>3. CASE NameSaved(t)
    BY <2>3, FormMoves DEF NameSaved, FormPlaces
  <2>4. CASE SaveRejected(t)
    BY <2>4 DEF SaveRejected, SettingsTypeOK, FormPlaces
  <2>5. CASE ReadName(t)
    <3> DEFINE to == IF merchant.name = nameForm[t].typed THEN "answer" ELSE "update"
    <3>1. /\ nameForm[t].at = "read" /\ merchant.name \in Names
          /\ nameForm \in [Tabs -> [at : FormPlaces, typed : Names, before : Names]]
          /\ nameForm' = [nameForm EXCEPT ![t].at = to, ![t].before = merchant.name]
      BY <2>5 DEF ReadName, SettingsTypeOK
    <3>2. to \in FormPlaces /\ to # "audit"
      BY DEF FormPlaces
    <3> HIDE DEF to
    <3>3. QED
      BY <3>1, <3>2
  <2>6. ASSUME NEW name \in Names, SaveName(t, name) PROVE Quiet
    <3> DEFINE form == [at |-> "read", typed |-> name, before |-> FirstName]
    <3>1. form \in [at : FormPlaces, typed : Names, before : Names]
      BY NamesAssumption DEF FormPlaces
    <3>2. /\ nameForm \in [Tabs -> [at : FormPlaces, typed : Names, before : Names]]
          /\ nameForm' = [nameForm EXCEPT ![t] = form] /\ nameForm[t].at = "editing"
          /\ form.at = "read"
      BY <2>6 DEF SaveName, SettingsTypeOK
    <3> HIDE DEF form
    <3>3. QED
      BY <3>1, <3>2
  <2>7. QED
    BY <2>1, <2>2, <2>3, <2>4, <2>5, <2>6
<1>3. lost' \in Nat
  BY DEF SettingsTypeOK, EditName, CancelEdit, NameSaved, SaveRejected, ReadName, SaveName, Lose
<1>4. SettingsTypeOK'
  BY <1>1, <1>2, <1>3 DEF SettingsTypeOK
<1>5. \A name : Audited(name) => Audited(name)'
  <2> SUFFICES ASSUME NEW name, Audited(name) PROVE Audited(name)'
    OBVIOUS
  <2>1. QED
    BY <1>1, <1>2, AuditedStays
<1>6. NameIsAudited'
  BY <1>1, <1>5 DEF NameIsAudited, Audited
<1>7. BeforeIsAudited'
  <2> SUFFICES ASSUME NEW u \in Tabs, nameForm'[u].at \in {"update", "audit"},
                      nameForm'[u].before # FirstName
               PROVE  Audited(nameForm[u].before)'
    BY DEF BeforeIsAudited
  <2>1. CASE u = t
    <3>1. nameForm'[u].before = merchant.name
      BY <1>2, <2>1
    <3>2. Audited(merchant.name)'
      BY <1>1, <1>5, <3>1 DEF NameIsAudited, Audited
    <3>3. QED
      BY <1>1, <3>1, <3>2 DEF Audited
  <2>2. CASE u # t
    <3>1. nameForm'[u] = nameForm[u]
      BY <1>2, <2>2
    <3>2. QED
      BY <1>5, <3>1 DEF BeforeIsAudited, Audited
  <2>3. QED
    BY <2>1, <2>2
<1>8. ScriptsEncrypt'
  BY <1>1 DEF ScriptsEncrypt
<1>9. QED
  BY <1>4, <1>6, <1>7, <1>8

(* The statements that write the row and the log.                          *)
LEMMA NameWritePreserves ==
    ASSUME SettingsInv, NEW t \in Tabs, UpdateName(t) \/ RecordName(t) \/ NameEntryLost(t)
    PROVE  SettingsInv'
<1> USE DEF SettingsInv
<1> DEFINE form == nameForm[t]
           entry == NameEntry(form)
<1>1. form.typed \in Names /\ form.before \in Names
  BY DEF SettingsTypeOK
<1>2. entry \in Entries /\ entry.from = form.before /\ entry.to = form.typed
  BY <1>1 DEF NameEntry, AuditEntry, Entries, MaybeName
<1>3. /\ auditLog \subseteq auditLog' /\ gaps \subseteq gaps'
      /\ secretButton' = secretButton /\ script' = script /\ merchant'.secret = merchant.secret
      /\ auditLog' \subseteq Entries /\ gaps' \subseteq MaybeName
      /\ merchant' \in [name : Names, secret : Secrets]
  <2>1. CASE UpdateName(t)
    BY <1>1, <2>1 DEF UpdateName, SettingsTypeOK
  <2>2. CASE RecordName(t)
    BY <1>2, <2>2 DEF RecordName, SettingsTypeOK
  <2>3. CASE NameEntryLost(t)
    BY <1>1, <2>3 DEF NameEntryLost, SettingsTypeOK, MaybeName
  <2>4. QED
    BY <2>1, <2>2, <2>3
<1>4. /\ nameForm' \in [Tabs -> [at : FormPlaces, typed : Names, before : Names]]
      /\ nameForm'[t].typed = form.typed /\ nameForm'[t].before = form.before
      /\ \A u \in Tabs \ {t} : nameForm'[u] = nameForm[u]
  <2>1. PICK from, to \in FormPlaces : MoveForm(t, from, to)
    BY DEF UpdateName, RecordName, NameEntryLost, FormPlaces
  <2>2. QED
    BY <2>1, FormMoves
<1>5. SettingsTypeOK'
  <2>1. lost' \in Nat
    BY DEF UpdateName, RecordName, NameEntryLost, Lose, SettingsTypeOK
  <2>2. QED
    BY <1>3, <1>4, <2>1 DEF SettingsTypeOK
<1>6. \A name : Audited(name) => Audited(name)'
  <2> SUFFICES ASSUME NEW name, Audited(name) PROVE Audited(name)'
    OBVIOUS
  <2>1. form.at = "audit" => form.typed \in gaps' \/ \E e \in auditLog' : e.to = form.typed
    <3>1. CASE UpdateName(t)
      BY <3>1 DEF UpdateName, MoveForm
    <3>2. CASE RecordName(t)
      BY <1>2, <3>2 DEF RecordName
    <3>3. CASE NameEntryLost(t)
      BY <3>3 DEF NameEntryLost
    <3>4. QED
      BY <3>1, <3>2, <3>3
  <2>2. QED
    BY <1>3, <1>4, <2>1, AuditedStays
<1>7. merchant'.name # FirstName => Audited(merchant.name)'
  <2>1. CASE UpdateName(t)
    <3>1. merchant'.name = form.typed /\ nameForm'[t].at = "audit"
      BY <2>1, FormMoves DEF UpdateName, SettingsTypeOK
    <3>2. QED
      BY <1>4, <3>1 DEF Audited
  <2>2. CASE RecordName(t) \/ NameEntryLost(t)
    BY <1>6, <2>2 DEF RecordName, NameEntryLost, NameIsAudited, Audited
  <2>3. QED
    BY <2>1, <2>2
<1>8. ASSUME NEW e \in auditLog', e.from \notin {FirstName, None} PROVE Audited(e.from)'
  <2>1. CASE e \in auditLog
    BY <1>6, <1>8, <2>1 DEF NameIsAudited
  <2>2. CASE e \notin auditLog
    <3>1. e = entry /\ form.at = "audit"
      BY <1>8, <2>2 DEF UpdateName, RecordName, NameEntryLost, MoveForm
    <3>2. Audited(form.before)
      BY <1>2, <1>8, <3>1 DEF BeforeIsAudited
    <3>3. QED
      BY <1>2, <1>6, <3>1, <3>2
  <2>3. QED
    BY <2>1, <2>2
<1>9. NameIsAudited'
  BY <1>7, <1>8 DEF NameIsAudited
<1>10. BeforeIsAudited'
  <2> SUFFICES ASSUME NEW u \in Tabs, nameForm'[u].at \in {"update", "audit"},
                      nameForm'[u].before # FirstName
               PROVE  Audited(nameForm[u].before)'
    BY DEF BeforeIsAudited
  <2>1. nameForm'[u].before = nameForm[u].before /\ nameForm[u].at \in {"update", "audit"}
    BY <1>4 DEF UpdateName, RecordName, NameEntryLost, MoveForm
  <2>2. QED
    BY <1>6, <2>1 DEF BeforeIsAudited, Audited
<1>11. ScriptsEncrypt'
  BY <1>3 DEF ScriptsEncrypt
<1>12. QED
  BY <1>5, <1>9, <1>10, <1>11

(* The steps that leave name, forms and gaps alone, and add to the log     *)
(* nothing but entries without names.                                      *)
LEMMA NamesLeftAlone ==
    ASSUME SettingsInv, merchant'.name = merchant.name, nameForm' = nameForm,
           gaps \subseteq gaps', auditLog \subseteq auditLog',
           \A e \in auditLog' \ auditLog : e.from = None
    PROVE  NameIsAudited' /\ BeforeIsAudited'
<1> USE DEF SettingsInv
<1>1. \A name : Audited(name) => Audited(name)'
  <2> SUFFICES ASSUME NEW name, Audited(name) PROVE Audited(name)'
    OBVIOUS
  <2>1. QED
    BY AuditedStays
<1>2. NameIsAudited'
  BY <1>1 DEF NameIsAudited, Audited
<1>3. BeforeIsAudited'
  BY <1>1 DEF BeforeIsAudited, Audited
<1>4. QED
  BY <1>2, <1>3

(* The regenerate button and its request.                                  *)
LEMMA SecretPreserves == ASSUME SettingsInv, NEW t \in Tabs, SecretAction(t) PROVE SettingsInv'
<1> USE DEF SettingsInv
<1>1. secretButton' \in [Tabs -> ButtonPlaces] /\ lost' \in Nat
  BY DEF SettingsTypeOK, SecretAction, AskToConfirm, Confirm, CancelRegenerate, RegenerateSecret,
         RecordRegeneration, RegenerationEntryLost, Regenerated, RegenerateRejected,
         MoveButton, Lose, ButtonPlaces
<1>2. nameForm' = nameForm /\ script' = script
  BY DEF SecretAction, AskToConfirm, Confirm, CancelRegenerate, RegenerateSecret,
         RecordRegeneration, RegenerationEntryLost, Regenerated, RegenerateRejected
<1>3. /\ merchant' \in [name : Names, secret : Secrets] /\ merchant'.name = merchant.name
      /\ merchant'.secret = merchant.secret \/ merchant'.secret.layers = 1
  <2>1. CASE RegenerateSecret(t)
    <3> DEFINE fresh == [generation |-> merchant.secret.generation + 1, layers |-> 0]
    <3>1. encryptSecret(fresh) = [generation |-> merchant.secret.generation + 1, layers |-> 1]
      BY DEF encryptSecret
    <3>2. encryptSecret(fresh) \in Secrets /\ encryptSecret(fresh).layers = 1
      BY <3>1 DEF SettingsTypeOK, Secrets
    <3>3. merchant' = [merchant EXCEPT !.secret = encryptSecret(fresh)]
      BY <2>1 DEF RegenerateSecret
    <3> HIDE DEF fresh
    <3>4. QED
      BY <3>2, <3>3 DEF SettingsTypeOK
  <2>2. CASE ~RegenerateSecret(t)
    <3>1. merchant' = merchant
      BY <2>2 DEF SecretAction, AskToConfirm, Confirm, CancelRegenerate, RecordRegeneration,
                  RegenerationEntryLost, Regenerated, RegenerateRejected
    <3>2. QED
      BY <3>1 DEF SettingsTypeOK
  <2>3. QED
    BY <2>1, <2>2
<1>4. /\ auditLog \subseteq auditLog' /\ gaps \subseteq gaps'
      /\ auditLog' \subseteq Entries /\ gaps' \subseteq MaybeName
      /\ \A e \in auditLog' \ auditLog : e.from = None
  <2>1. CASE RecordRegeneration(t)
    BY <2>1 DEF RecordRegeneration, AuditEntry, SettingsTypeOK, Entries, MaybeName
  <2>2. CASE RegenerationEntryLost(t)
    BY <2>2 DEF RegenerationEntryLost, SettingsTypeOK, MaybeName
  <2>3. CASE ~RecordRegeneration(t) /\ ~RegenerationEntryLost(t)
    <3>1. auditLog' = auditLog /\ gaps' = gaps
      BY <2>3 DEF SecretAction, AskToConfirm, Confirm, CancelRegenerate, RegenerateSecret,
                  Regenerated, RegenerateRejected
    <3>2. QED
      BY <3>1 DEF SettingsTypeOK
  <2>4. QED
    BY <2>1, <2>2, <2>3
<1>5. SettingsTypeOK'
  BY <1>1, <1>2, <1>3, <1>4 DEF SettingsTypeOK
<1>6. NameIsAudited' /\ BeforeIsAudited'
  BY <1>2, <1>3, <1>4, NamesLeftAlone
<1>7. ScriptsEncrypt'
  BY <1>2, <1>3 DEF ScriptsEncrypt
<1>8. QED
  BY <1>5, <1>6, <1>7

(* The script's runs.                                                      *)
LEMMA ScriptPreserves ==
    ASSUME SettingsInv, NEW r \in ScriptRuns, ScriptAction(r)
    PROVE  SettingsInv'
<1> USE DEF SettingsInv
<1>1. nameForm' = nameForm /\ secretButton' = secretButton /\ auditLog' = auditLog /\ gaps' = gaps
  BY DEF ScriptAction, Scan, EncryptInPlace, ScriptDies
<1>2. merchant.secret \in Secrets /\ script[r] \in [at : ScriptPlaces, secret : Secrets]
  BY DEF SettingsTypeOK
<1>3. ASSUME /\ merchant' \in [name : Names, secret : Secrets] /\ merchant'.name = merchant.name
             /\ script' \in [ScriptRuns -> [at : ScriptPlaces, secret : Secrets]]
             /\ lost' \in Nat /\ ScriptsEncrypt'
      PROVE  SettingsInv'
  <2>1. SettingsTypeOK'
    BY <1>1, <1>3 DEF SettingsTypeOK
  <2>2. NameIsAudited' /\ BeforeIsAudited'
    BY <1>1, <1>3, NamesLeftAlone
  <2>3. QED
    BY <1>3, <2>1, <2>2
<1>4. CASE Scan(r)
  <2>1. merchant' = merchant /\ lost' = lost
    BY <1>4 DEF Scan
  <2>2. /\ script' \in [ScriptRuns -> [at : ScriptPlaces, secret : Secrets]]
        /\ script'[r].at = (IF isEncrypted(merchant.secret) THEN "done" ELSE "update")
        /\ script'[r].secret = merchant.secret
        /\ \A q \in ScriptRuns \ {r} : script'[q] = script[q]
    BY <1>2, <1>4 DEF Scan, SettingsTypeOK, ScriptPlaces
  <2>3. isEncrypted(merchant.secret) <=> merchant.secret.layers = 1
    BY <1>2 DEF isEncrypted, Secrets
  <2>4. merchant.secret.layers \in {0, 1}
    BY <1>2 DEF Secrets
  <2>5. ScriptsEncrypt'
    BY <2>1, <2>2, <2>3, <2>4 DEF ScriptsEncrypt
  <2>6. QED
    BY <1>3, <2>1, <2>2, <2>5 DEF SettingsTypeOK
<1>5. CASE EncryptInPlace(r)
  <2>1. script[r].at = "update" /\ script[r].secret.layers = 0
    BY <1>5 DEF EncryptInPlace, ScriptsEncrypt
  <2>2. encryptSecret(script[r].secret) \in Secrets /\ encryptSecret(script[r].secret).layers = 1
    BY <1>2, <2>1 DEF encryptSecret, Secrets
  <2>3. /\ merchant' \in [name : Names, secret : Secrets] /\ merchant'.name = merchant.name
        /\ merchant'.secret.layers = 1
    BY <1>5, <2>2 DEF EncryptInPlace, SettingsTypeOK
  <2>4. /\ script' \in [ScriptRuns -> [at : ScriptPlaces, secret : Secrets]]
        /\ script'[r].at = "done"
        /\ \A q \in ScriptRuns \ {r} : script'[q] = script[q]
    BY <1>2, <1>5 DEF EncryptInPlace, SettingsTypeOK, ScriptPlaces
  <2>5. ScriptsEncrypt'
    BY <2>3, <2>4 DEF ScriptsEncrypt
  <2>6. lost' \in Nat
    BY <1>5 DEF EncryptInPlace, SettingsTypeOK
  <2>7. QED
    BY <1>3, <2>3, <2>4, <2>5, <2>6
<1>6. CASE ScriptDies(r)
  <2>1. merchant' = merchant /\ lost' \in Nat
    BY <1>6 DEF ScriptDies, Lose, SettingsTypeOK
  <2>2. /\ script' \in [ScriptRuns -> [at : ScriptPlaces, secret : Secrets]]
        /\ script'[r].at = "dead"
        /\ \A q \in ScriptRuns \ {r} : script'[q] = script[q]
    BY <1>2, <1>6 DEF ScriptDies, SettingsTypeOK, ScriptPlaces
  <2>3. ScriptsEncrypt'
    BY <2>1, <2>2 DEF ScriptsEncrypt
  <2>4. QED
    BY <1>3, <2>1, <2>2, <2>3 DEF SettingsTypeOK
<1>7. QED
  BY <1>4, <1>5, <1>6 DEF ScriptAction

LEMMA SettingsStep == SettingsInv /\ [SettingsNext]_settingsVars => SettingsInv'
<1> SUFFICES ASSUME SettingsInv, [SettingsNext]_settingsVars PROVE SettingsInv'
  OBVIOUS
<1>1. ASSUME NEW t \in Tabs, NameAction(t) PROVE SettingsInv'
  BY <1>1, QuietFormPreserves, NameWritePreserves DEF NameAction
<1>2. ASSUME NEW t \in Tabs, SecretAction(t) PROVE SettingsInv'
  BY <1>2, SecretPreserves
<1>3. ASSUME NEW r \in ScriptRuns, ScriptAction(r) PROVE SettingsInv'
  BY <1>3, ScriptPreserves
<1>4. CASE UNCHANGED settingsVars
  BY <1>4 DEF settingsVars, SettingsInv, SettingsTypeOK, NameIsAudited, BeforeIsAudited,
              Audited, ScriptsEncrypt
<1>5. QED
  BY <1>1, <1>2, <1>3, <1>4 DEF SettingsNext, NameNext, SecretNext

(* However forms, regenerations and runs of the script interleave: a form  *)
(* holds a name the audit log accounts for, and a run of the script only   *)
(* an unencrypted secret.                                                  *)
THEOREM SettingsInvariant == SettingsSpec => []SettingsInv
<1>1. QED
  BY InitSettings, SettingsStep, PTL DEF SettingsSpec

(* However saves of any number of tabs overlap: the merchant's name is     *)
(* traced by the audit log, and so is every name an entry says was         *)
(* replaced, but for the entries that the log refused.                     *)
THEOREM NamesAreAudited == SettingsSpec => []NameIsAudited
<1>1. SettingsInv => NameIsAudited
  BY DEF SettingsInv
<1>2. QED
  BY <1>1, SettingsInvariant, PTL

(* No interleaving of script runs and regenerations encrypts a secret      *)
(* twice; after a run's end it can be decrypted.                           *)
THEOREM SecretIsReadable == SettingsSpec => []SecretStaysReadable
<1>1. SettingsInv => SecretStaysReadable
  <2> SUFFICES ASSUME SettingsInv PROVE SecretStaysReadable
    OBVIOUS
  <2>1. merchant.secret.layers \in {0, 1}
    BY DEF SettingsInv, SettingsTypeOK, Secrets
  <2>2. QED
    BY <2>1 DEF SettingsInv, ScriptsEncrypt, SecretStaysReadable, decryptSecret
<1>2. QED
  BY <1>1, SettingsInvariant, PTL

(***************************************************************************)
(* The onboarding page.                                                    *)
(***************************************************************************)

(* A green banner, and an answer that will turn it green, tell the truth.  *)
BannerIsTrue ==
    /\ firstEvent \in BOOLEAN
    /\ poll \in [Polls -> {"none", "asked", "connected", "waiting"}]
    /\ connected \/ (\E q \in Polls : poll[q] = "connected") => firstEvent

(* Green, and no older answer is on its way that would turn it back.       *)
Settled == connected /\ \A q \in Polls : poll[q] # "waiting"

SettledStays == [][Settled => Settled']_onboardingVars

LEMMA BannerStep == BannerIsTrue /\ [OnboardingNext]_onboardingVars => BannerIsTrue'
<1> SUFFICES ASSUME BannerIsTrue, [OnboardingNext]_onboardingVars PROVE BannerIsTrue'
  OBVIOUS
<1> USE DEF BannerIsTrue
<1>1. ASSUME NEW q \in Polls, PollStart(q) PROVE BannerIsTrue'
  BY <1>1 DEF PollStart
<1>2. ASSUME NEW q \in Polls, getConnectionStatus(q) PROVE BannerIsTrue'
  BY <1>2 DEF getConnectionStatus, resolveConnectionStatus
<1>3. ASSUME NEW q \in Polls, PollAnswer(q) PROVE BannerIsTrue'
  BY <1>3 DEF PollAnswer
<1>4. ASSUME NEW q \in Polls, PollFails(q) PROVE BannerIsTrue'
  BY <1>4 DEF PollFails
<1>5. CASE FirstEventArrives
  BY <1>5 DEF FirstEventArrives
<1>6. CASE UNCHANGED onboardingVars
  BY <1>6, Zenon DEF onboardingVars
<1>7. QED
  BY <1>1, <1>2, <1>3, <1>4, <1>5, <1>6 DEF OnboardingNext, PollGoesOn

(* The safety half of BannerSettles, whatever answers are lost or overtake *)
(* one another: once the banner is green and no "waiting" answer is left   *)
(* on its way, neither is ever seen again.                                 *)
THEOREM GreenBannerStays == OnboardingSpec => []BannerIsTrue /\ SettledStays
<1>1. OnboardingInit => BannerIsTrue
  BY DEF OnboardingInit, BannerIsTrue
<1>2. BannerIsTrue /\ [OnboardingNext]_onboardingVars => [Settled => Settled']_onboardingVars
  <2> SUFFICES ASSUME BannerIsTrue, OnboardingNext, Settled PROVE Settled'
    OBVIOUS
  <2>1. ASSUME NEW q \in Polls, PollGoesOn(q) \/ PollFails(q) PROVE Settled'
    BY <2>1 DEF PollGoesOn, PollStart, getConnectionStatus, resolveConnectionStatus, PollAnswer,
                PollFails, Settled, BannerIsTrue
  <2>2. CASE FirstEventArrives
    BY <2>2 DEF FirstEventArrives, Settled
  <2>3. QED
    BY <2>1, <2>2 DEF OnboardingNext
<1>3. QED
  BY <1>1, <1>2, BannerStep, PTL DEF OnboardingSpec, SettledStays

==============================================================================
