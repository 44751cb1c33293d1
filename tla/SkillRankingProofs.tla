------------------------- MODULE SkillRankingProofs -------------------------
(***************************************************************************)
(* What is proved of SkillRanking, for any users, rooms, tiers and weights *)
(* and any first ratings:                                                  *)
(*  - a profile is what its ratings make it: counters, state, and a        *)
(*    score within what hosts gave (MadeOf).  Sums, means and weighted     *)
(*    means are folds; what they are bounded by is proved of every prefix, *)
(*    from the least one it would fail of;                                 *)
(*  - completed matches are the completed rooms a user was present in:     *)
(*    a room completes only when all of those present have profiles, so    *)
(*    that a guest claimed later was in none (PresentAreKnown);            *)
(*  - a tier changes only after its cool-down;                             *)
(*  - who follows the events of a player knows the rank (Tells): sequences *)
(*    of events that lead from a tier to a second and from there to a      *)
(*    third lead from the first to the third, so that the events of each   *)
(*    submission are looked at alone, one after the other (Chain, Link).   *)
(***************************************************************************)
EXTENDS SkillRanking, FiniteSetTheorems, SequenceTheorems, WellFoundedInduction, TLAPS

-----------------------------------------------------------------------------
(* Finite sets of numbers. *)

\* A set of natural numbers has a least one.
LEMMA LeastOf ==
  ASSUME NEW A \in SUBSET Nat, A # {}
  PROVE  \E x \in A : \A y \in A : x <= y
<1>1. IsWellFoundedOn(OpToRel(<, Nat), Nat) BY NatLessThanWellFounded, Zenon
<1>2. \E x \in A : \A y \in A : ~ (<<y, x>> \in OpToRel(<, Nat)) BY <1>1, WFMin
<1>3. PICK x \in A : \A y \in A : ~ (<<y, x>> \in OpToRel(<, Nat)) BY <1>2
<1>4. \A y \in A : ~ (y < x) BY <1>3 DEF OpToRel
<1>5. QED BY <1>4

\* Numbers up to some bound have a greatest one.
LEMMA GreatestOf ==
  ASSUME NEW k \in Nat, NEW S \in SUBSET (1 .. k), S # {}
  PROVE  Max(S) \in S /\ \A y \in S : y <= Max(S)
<1>1. PICK A : A = {k - x : x \in S} OBVIOUS
<1>2. A \in SUBSET Nat /\ A # {}
  <2>1. \A x \in S : k - x \in Nat OBVIOUS
  <2>2. QED BY <1>1, <2>1
<1>3. PICK a \in A : \A b \in A : a <= b BY <1>2, LeastOf
<1>4. PICK x \in S : a = k - x BY <1>1, <1>3
<1>5. \A y \in S : k - x <= k - y BY <1>1, <1>3, <1>4
<1>6. \A y \in S : x >= y BY <1>4, <1>5
<1>7. \E z \in S : \A y \in S : z >= y BY <1>6
<1>8. Max(S) \in S /\ \A y \in S : Max(S) >= y BY <1>7 DEF Max
<1>9. QED BY <1>8

-----------------------------------------------------------------------------
(* Sums. *)

\* A summation of s over sets of its positions up to k.
Sums(s, k, h) ==
  /\ h \in [SUBSET (1 .. k) -> Int]
  /\ \A S \in SUBSET (1 .. k) : h[S] = IF S = {} THEN 0 ELSE h[S \ {Max(S)}] + s[Max(S)]

\* There is one, position by position.
LEMMA SumsExist ==
  ASSUME NEW n \in Nat, NEW s \in [1 .. n -> Int]
  PROVE  \E h : Sums(s, n, h)
<1>1. PICK A : A = {k \in 0 .. n : ~ \E h : Sums(s, k, h)} OBVIOUS
<1>2. ASSUME A # {} PROVE FALSE
  <2>1. A \in SUBSET Nat BY <1>1
  <2>2. PICK k \in A : \A j \in A : k <= j BY <1>2, <2>1, LeastOf
  <2>3. k \in 0 .. n /\ ~ \E h : Sums(s, k, h) BY <1>1, <2>2
  <2>4. CASE k = 0
    <3>1. PICK h : h = [S \in SUBSET (1 .. 0) |-> 0] OBVIOUS
    <3>2. \A S \in SUBSET (1 .. 0) : S = {} OBVIOUS
    <3>3. Sums(s, 0, h) BY <3>1, <3>2 DEF Sums
    <3>4. QED BY <2>3, <2>4, <3>3
  <2>5. CASE k # 0
    <3>1. PICK j \in 0 .. n : k = j + 1 /\ j \notin A
      <4>1. k - 1 \in 0 .. n /\ k = (k - 1) + 1 /\ ~ (k <= k - 1) BY <2>3, <2>5
      <4>2. QED BY <2>2, <4>1
    <3>2. PICK g : Sums(s, j, g) BY <1>1, <3>1
    <3>3. PICK h : h = [S \in SUBSET (1 .. k) |-> IF S = {} THEN 0 ELSE g[S \ {Max(S)}] + s[Max(S)]]
      OBVIOUS
    <3>4. ASSUME NEW S \in SUBSET (1 .. k), S # {}
          PROVE  Max(S) \in 1 .. n /\ S \ {Max(S)} \in SUBSET (1 .. j)
      <4>1. k \in Nat BY <2>3
      <4>2. Max(S) \in S /\ \A y \in S : y <= Max(S) BY <3>4, <4>1, GreatestOf
      <4>3. S \subseteq 1 .. k BY <3>4
      <4>4. Max(S) \in 1 .. n
        <5>1. k <= n /\ n \in Nat BY <2>3
        <5>2. Max(S) \in 1 .. k BY <4>2, <4>3
        <5>3. QED BY <4>1, <5>1, <5>2
      <4>5. ASSUME NEW y \in S \ {Max(S)} PROVE y \in 1 .. j
        <5>1. y \in 1 .. k /\ y <= Max(S) /\ y # Max(S) /\ Max(S) \in 1 .. k
          BY <4>2, <4>3, <4>5
        <5>2. QED BY <2>3, <3>1, <5>1
      <4>6. QED BY <4>4, <4>5
    <3>5. \A S \in SUBSET (1 .. j) : g[S] = h[S]
      <4>1. SUBSET (1 .. j) \subseteq SUBSET (1 .. k) BY <2>3, <3>1
      <4>2. QED BY <3>2, <3>3, <4>1 DEF Sums
    <3>6. h \in [SUBSET (1 .. k) -> Int]
      <4>1. ASSUME NEW S \in SUBSET (1 .. k), S # {} PROVE g[S \ {Max(S)}] + s[Max(S)] \in Int
        <5>1. Max(S) \in 1 .. n /\ S \ {Max(S)} \in SUBSET (1 .. j) BY <3>4, <4>1
        <5>2. g[S \ {Max(S)}] \in Int BY <3>2, <5>1 DEF Sums
        <5>3. s[Max(S)] \in Int BY <5>1
        <5>4. QED BY <5>2, <5>3
      <4>2. QED BY <3>3, <4>1
    <3>7. \A S \in SUBSET (1 .. k) : h[S] = IF S = {} THEN 0 ELSE h[S \ {Max(S)}] + s[Max(S)]
      BY <3>3, <3>4, <3>5
    <3>8. Sums(s, k, h) BY <3>6, <3>7 DEF Sums
    <3>9. QED BY <2>3, <3>8
  <2>6. QED BY <2>4, <2>5
<1>3. n \notin A /\ n \in 0 .. n BY <1>2
<1>4. QED BY <1>1, <1>3

\* The positions up to k.
LEMMA UpTo ==
  ASSUME NEW k \in Nat \ {0}
  PROVE  Max(1 .. k) = k /\ (1 .. k) \ {k} = 1 .. (k - 1)
<1>1. \A y \in 1 .. k : k >= y OBVIOUS
<1>2. \E x \in 1 .. k : \A y \in 1 .. k : x >= y BY <1>1
<1>3. PICK m : m = Max(1 .. k) OBVIOUS
<1>4. m \in 1 .. k /\ \A y \in 1 .. k : m >= y BY <1>2, <1>3 DEF Max
<1>5. m = k BY <1>4
<1>6. QED BY <1>3, <1>5

\* The sum of a sequence is reached one position at a time.
LEMMA PrefixSums ==
  ASSUME NEW n \in Nat, NEW s \in [1 .. n -> Int]
  PROVE  \E g \in [0 .. n -> Int] : /\ g[0] = 0 /\ g[n] = SumOf(s)
                                    /\ \A i \in 1 .. n : g[i] = g[i - 1] + s[i]
<1>1. PICK h : Sums(s, n, h) BY SumsExist
<1>2. h = [S \in SUBSET (1 .. n) |-> IF S = {} THEN 0 ELSE h[S \ {Max(S)}] + s[Max(S)]]
  BY <1>1 DEF Sums
<1>3. DOMAIN s = 1 .. n OBVIOUS
<1>4. PICK t : t = CHOOSE iter : iter = [S \in SUBSET (DOMAIN s) |->
                                        IF S = {} THEN 0 ELSE iter[S \ {Max(S)}] + s[Max(S)]]
  OBVIOUS
<1>5. t = [S \in SUBSET (1 .. n) |-> IF S = {} THEN 0 ELSE t[S \ {Max(S)}] + s[Max(S)]]
  BY <1>2, <1>3, <1>4
<1>6. SumOf(s) = t[1 .. n] BY <1>3, <1>4, Zenon DEF SumOf, FoldLeft, MapThenFoldSet
<1>7. \A S \in SUBSET (1 .. n) : t[S] = IF S = {} THEN 0 ELSE t[S \ {Max(S)}] + s[Max(S)]
  BY <1>5, Zenon
<1>8. ASSUME NEW k \in 1 .. n PROVE t[1 .. k] = t[1 .. (k - 1)] + s[k]
  <2>1. PICK S : S = 1 .. k OBVIOUS
  <2>2. S \in SUBSET (1 .. n) /\ S # {} BY <2>1
  <2>3. k \in Nat \ {0} OBVIOUS
  <2>4. Max(S) = k /\ S \ {k} = 1 .. (k - 1) BY <2>1, <2>3, UpTo
  <2>5. t[S] = t[S \ {Max(S)}] + s[Max(S)] BY <1>7, <2>2
  <2>6. QED BY <2>1, <2>4, <2>5
<1>9. t[1 .. 0] = 0
  <2>1. PICK S : S = 1 .. 0 OBVIOUS
  <2>2. S = {} /\ S \in SUBSET (1 .. n) BY <2>1
  <2>3. t[S] = 0 BY <1>7, <2>2
  <2>4. QED BY <2>1, <2>3
<1>10. PICK g : g = [k \in 0 .. n |-> t[1 .. k]] OBVIOUS
<1>11. g[0] = 0 /\ g[n] = SumOf(s) BY <1>6, <1>9, <1>10
<1>12. \A i \in 1 .. n : g[i] = g[i - 1] + s[i]
  <2>1. \A i \in 1 .. n : i \in 0 .. n /\ i - 1 \in 0 .. n OBVIOUS
  <2>2. QED BY <1>8, <1>10, <2>1
<1>13. PICK A : A = {k \in 0 .. n : g[k] \notin Int} OBVIOUS
<1>14. ASSUME A # {} PROVE FALSE
  <2>1. A \in SUBSET Nat BY <1>13
  <2>2. PICK k \in A : \A j \in A : k <= j BY <1>14, <2>1, LeastOf
  <2>3. k \in 0 .. n /\ g[k] \notin Int BY <1>13, <2>2
  <2>4. k # 0 BY <1>11, <2>3
  <2>5. k \in 1 .. n /\ k - 1 \in 0 .. n /\ ~ (k <= k - 1) BY <2>3, <2>4
  <2>6. g[k - 1] \in Int BY <1>13, <2>2, <2>5
  <2>7. QED BY <1>12, <2>3, <2>5, <2>6
<1>15. g \in [0 .. n -> Int] BY <1>10, <1>13, <1>14
<1>16. QED BY <1>11, <1>12, <1>15

\* Terms that are at least c times others add up to at least c times their sum.
LEMMA SumAtLeast ==
  ASSUME NEW n \in Nat, NEW a \in [1 .. n -> Int], NEW b \in [1 .. n -> Int], NEW c \in Int,
         \A i \in 1 .. n : c * b[i] <= a[i]
  PROVE  SumOf(a) \in Int /\ SumOf(b) \in Int /\ c * SumOf(b) <= SumOf(a)
<1>1. PICK g \in [0 .. n -> Int] : /\ g[0] = 0 /\ g[n] = SumOf(a)
                                   /\ \A i \in 1 .. n : g[i] = g[i - 1] + a[i]
  BY PrefixSums
<1>2. PICK h \in [0 .. n -> Int] : /\ h[0] = 0 /\ h[n] = SumOf(b)
                                   /\ \A i \in 1 .. n : h[i] = h[i - 1] + b[i]
  BY PrefixSums
<1>3. PICK A : A = {k \in 0 .. n : ~ (c * h[k] <= g[k])} OBVIOUS
<1>4. ASSUME A # {} PROVE FALSE
  <2>1. A \in SUBSET Nat BY <1>3
  <2>2. PICK k \in A : \A j \in A : k <= j BY <1>4, <2>1, LeastOf
  <2>3. k \in 0 .. n /\ ~ (c * h[k] <= g[k]) BY <1>3, <2>2
  <2>4. k # 0
    <3>1. c * 0 = 0 OBVIOUS
    <3>2. QED BY <1>1, <1>2, <2>3, <3>1
  <2>5. k \in 1 .. n /\ k - 1 \in 0 .. n /\ ~ (k <= k - 1) BY <2>3, <2>4
  <2>6. c * h[k - 1] <= g[k - 1] BY <1>3, <2>2, <2>5
  <2>7. PICK x \in Int, y \in Int, u \in Int, v \in Int :
          x = h[k - 1] /\ y = b[k] /\ u = g[k - 1] /\ v = a[k]
    BY <2>5
  <2>8. h[k] = x + y /\ g[k] = u + v /\ c * y <= v BY <1>1, <1>2, <2>5, <2>7
  <2>9. c * (x + y) = c * x + c * y OBVIOUS
  <2>10. c * x <= u /\ c * x \in Int /\ c * y \in Int
    <3>1. c * x <= u BY <2>6, <2>7, Zenon
    <3>2. QED BY <3>1
  <2>11. c * (x + y) <= u + v BY <2>8, <2>9, <2>10
  <2>12. QED BY <2>3, <2>8, <2>11
<1>5. n \in 0 .. n /\ n \notin A BY <1>4
<1>6. c * h[n] <= g[n] BY <1>3, <1>5
<1>7. QED BY <1>1, <1>2, <1>5, <1>6

\* And likewise at most.
LEMMA SumAtMost ==
  ASSUME NEW n \in Nat, NEW a \in [1 .. n -> Int], NEW b \in [1 .. n -> Int], NEW c \in Int,
         \A i \in 1 .. n : a[i] <= c * b[i]
  PROVE  SumOf(a) \in Int /\ SumOf(b) \in Int /\ SumOf(a) <= c * SumOf(b)
<1>1. PICK g \in [0 .. n -> Int] : /\ g[0] = 0 /\ g[n] = SumOf(a)
                                   /\ \A i \in 1 .. n : g[i] = g[i - 1] + a[i]
  BY PrefixSums
<1>2. PICK h \in [0 .. n -> Int] : /\ h[0] = 0 /\ h[n] = SumOf(b)
                                   /\ \A i \in 1 .. n : h[i] = h[i - 1] + b[i]
  BY PrefixSums
<1>3. PICK A : A = {k \in 0 .. n : ~ (g[k] <= c * h[k])} OBVIOUS
<1>4. ASSUME A # {} PROVE FALSE
  <2>1. A \in SUBSET Nat BY <1>3
  <2>2. PICK k \in A : \A j \in A : k <= j BY <1>4, <2>1, LeastOf
  <2>3. k \in 0 .. n /\ ~ (g[k] <= c * h[k]) BY <1>3, <2>2
  <2>4. k # 0
    <3>1. c * 0 = 0 OBVIOUS
    <3>2. QED BY <1>1, <1>2, <2>3, <3>1
  <2>5. k \in 1 .. n /\ k - 1 \in 0 .. n /\ ~ (k <= k - 1) BY <2>3, <2>4
  <2>6. g[k - 1] <= c * h[k - 1] BY <1>3, <2>2, <2>5
  <2>7. PICK x \in Int, y \in Int, u \in Int, v \in Int :
          x = h[k - 1] /\ y = b[k] /\ u = g[k - 1] /\ v = a[k]
    BY <2>5
  <2>8. h[k] = x + y /\ g[k] = u + v /\ v <= c * y BY <1>1, <1>2, <2>5, <2>7
  <2>9. c * (x + y) = c * x + c * y OBVIOUS
  <2>10. u <= c * x /\ c * x \in Int /\ c * y \in Int
    <3>1. u <= c * x BY <2>6, <2>7, Zenon
    <3>2. QED BY <3>1
  <2>11. u + v <= c * (x + y) BY <2>8, <2>9, <2>10
  <2>12. QED BY <2>3, <2>8, <2>11
<1>5. n \in 0 .. n /\ n \notin A BY <1>4
<1>6. g[n] <= c * h[n] BY <1>3, <1>5
<1>7. QED BY <1>1, <1>2, <1>5, <1>6

\* Counting.
LEMMA SumOfOnes ==
  ASSUME NEW n \in Nat
  PROVE  SumOf([i \in 1 .. n |-> 1]) = n
<1>1. PICK one : one = [i \in 1 .. n |-> 1] OBVIOUS
<1>2. one \in [1 .. n -> Int] /\ \A i \in 1 .. n : one[i] = 1 BY <1>1
<1>3. PICK g \in [0 .. n -> Int] : /\ g[0] = 0 /\ g[n] = SumOf(one)
                                   /\ \A i \in 1 .. n : g[i] = g[i - 1] + one[i]
  BY <1>2, PrefixSums
<1>4. PICK A : A = {k \in 0 .. n : g[k] # k} OBVIOUS
<1>5. ASSUME A # {} PROVE FALSE
  <2>1. A \in SUBSET Nat BY <1>4
  <2>2. PICK k \in A : \A j \in A : k <= j BY <1>5, <2>1, LeastOf
  <2>3. k \in 0 .. n /\ g[k] # k BY <1>4, <2>2
  <2>4. k # 0 BY <1>3, <2>3
  <2>5. k \in 1 .. n /\ k - 1 \in 0 .. n /\ ~ (k <= k - 1) BY <2>3, <2>4
  <2>6. g[k - 1] = k - 1 BY <1>4, <2>2, <2>5
  <2>7. QED BY <1>2, <1>3, <2>3, <2>5, <2>6
<1>6. n \in 0 .. n /\ n \notin A BY <1>5
<1>7. QED BY <1>1, <1>3, <1>4, <1>6

\* One term replaced.
LEMMA SumReplaced ==
  ASSUME NEW n \in Nat, NEW a \in [1 .. n -> Int], NEW p \in 1 .. n, NEW x \in Int
  PROVE  /\ SumOf(a) \in Int /\ SumOf([a EXCEPT ![p] = x]) \in Int
         /\ SumOf([a EXCEPT ![p] = x]) = SumOf(a) + (x - a[p])
<1>1. PICK b \in [1 .. n -> Int] : b = [a EXCEPT ![p] = x] OBVIOUS
<1>2. b[p] = x /\ \A i \in 1 .. n : i # p => b[i] = a[i] BY <1>1
<1>3. PICK g \in [0 .. n -> Int] : /\ g[0] = 0 /\ g[n] = SumOf(a)
                                   /\ \A i \in 1 .. n : g[i] = g[i - 1] + a[i]
  BY PrefixSums
<1>4. PICK h \in [0 .. n -> Int] : /\ h[0] = 0 /\ h[n] = SumOf(b)
                                   /\ \A i \in 1 .. n : h[i] = h[i - 1] + b[i]
  BY PrefixSums
<1>5. PICK A : A = {k \in 0 .. n : h[k] # g[k] + (IF k >= p THEN x - a[p] ELSE 0)} OBVIOUS
<1>6. ASSUME A # {} PROVE FALSE
  <2>1. A \in SUBSET Nat BY <1>5
  <2>2. PICK k \in A : \A j \in A : k <= j BY <1>6, <2>1, LeastOf
  <2>3. k \in 0 .. n /\ h[k] # g[k] + (IF k >= p THEN x - a[p] ELSE 0) BY <1>5, <2>2
  <2>4. k # 0 BY <1>3, <1>4, <2>3
  <2>5. k \in 1 .. n /\ k - 1 \in 0 .. n /\ ~ (k <= k - 1) BY <2>3, <2>4
  <2>6. h[k - 1] = g[k - 1] + (IF k - 1 >= p THEN x - a[p] ELSE 0) BY <1>5, <2>2, <2>5
  <2>7. g[k] = g[k - 1] + a[k] /\ h[k] = h[k - 1] + b[k] BY <1>3, <1>4, <2>5
  <2>8. CASE k = p BY <1>2, <2>3, <2>5, <2>6, <2>7, <2>8
  <2>9. CASE k # p
    <3>1. b[k] = a[k] BY <1>2, <2>5, <2>9
    <3>2. k - 1 >= p <=> k >= p BY <2>5, <2>9
    <3>3. PICK d \in Int : d = IF k >= p THEN x - a[p] ELSE 0 OBVIOUS
    <3>4. h[k - 1] = g[k - 1] + d BY <2>6, <3>2, <3>3
    <3>5. h[k] # g[k] + d BY <2>3, <3>3
    <3>6. g[k - 1] \in Int /\ h[k - 1] \in Int /\ a[k] \in Int BY <2>5
    <3>7. QED BY <2>7, <3>1, <3>4, <3>5, <3>6
  <2>10. QED BY <2>8, <2>9
<1>7. n \in 0 .. n /\ n \notin A /\ n >= p BY <1>6
<1>8. h[n] = g[n] + (x - a[p]) BY <1>5, <1>7
<1>9. QED BY <1>1, <1>3, <1>4, <1>7, <1>8

\* A quotient rounded to the nearest number stays between what bounds it.
LEMMA Rounding ==
  ASSUME NEW total \in Int, NEW weight \in Nat \ {0}, NEW low \in Int, NEW high \in Int,
         low * weight <= total, total <= high * weight
  PROVE  /\ RoundScore(total, weight) \in Int
         /\ low <= RoundScore(total, weight) /\ RoundScore(total, weight) <= high
<1>1. PICK d \in Nat \ {0} : d = 2 * weight OBVIOUS
<1>2. PICK m \in Int : m = 2 * total + weight OBVIOUS
<1>3. PICK q \in Int : q = m \div d BY <1>1
<1>4. d * q <= m /\ m < d * (q + 1) BY <1>1, <1>3
<1>5. low * d <= m /\ m < high * d + d BY <1>1, <1>2
<1>6. low <= q
  <2>1. SUFFICES ASSUME q + 1 <= low PROVE FALSE OBVIOUS
  <2>2. d * (q + 1) <= d * low BY <2>1
  <2>3. d * low = low * d OBVIOUS
  <2>4. QED BY <1>4, <1>5, <2>2, <2>3
<1>7. q <= high
  <2>1. SUFFICES ASSUME high + 1 <= q PROVE FALSE OBVIOUS
  <2>2. d * (high + 1) <= d * q BY <2>1
  <2>3. d * (high + 1) = high * d + d OBVIOUS
  <2>4. QED BY <1>4, <1>5, <2>2, <2>3
<1>8. RoundScore(total, weight) = q BY <1>1, <1>2, <1>3 DEF RoundScore
<1>9. QED BY <1>6, <1>7, <1>8

-----------------------------------------------------------------------------
(* Scores. *)

\* A sequence of numbers has a least and a greatest one.
LEMMA Extremes ==
  ASSUME NEW n \in Nat \ {0}, NEW s \in [1 .. n -> Int]
  PROVE  \E p, q \in 1 .. n : /\ s[p] = Min(Range(s)) /\ s[q] = Max(Range(s))
                              /\ \A i \in 1 .. n : s[p] <= s[i] /\ s[i] <= s[q]
<1>1. PICK A : A = {k \in 1 .. n : ~ \E p, q \in 1 .. k : \A i \in 1 .. k :
                                       s[p] <= s[i] /\ s[i] <= s[q]}
  OBVIOUS
<1>2. ASSUME A # {} PROVE FALSE
  <2>1. A \in SUBSET Nat BY <1>1
  <2>2. PICK k \in A : \A j \in A : k <= j BY <1>2, <2>1, LeastOf
  <2>3. k \in 1 .. n /\ ~ \E p, q \in 1 .. k : \A i \in 1 .. k : s[p] <= s[i] /\ s[i] <= s[q]
    BY <1>1, <2>2
  <2>4. CASE k = 1
    <3>1. 1 \in 1 .. k /\ \A i \in 1 .. k : i = 1 /\ s[i] \in Int BY <2>3, <2>4
    <3>2. \A i \in 1 .. k : s[1] <= s[i] /\ s[i] <= s[1] BY <3>1
    <3>3. QED BY <2>3, <3>1, <3>2
  <2>5. CASE k # 1
    <3>1. k - 1 \in 1 .. n /\ ~ (k <= k - 1) BY <2>3, <2>5
    <3>2. PICK p \in 1 .. (k - 1), q \in 1 .. (k - 1) :
            \A i \in 1 .. (k - 1) : s[p] <= s[i] /\ s[i] <= s[q]
      BY <1>1, <2>2, <3>1
    <3>3. PICK a : a = IF s[k] <= s[p] THEN k ELSE p OBVIOUS
    <3>4. PICK b : b = IF s[q] <= s[k] THEN k ELSE q OBVIOUS
    <3>5. /\ s[k] \in Int /\ s[p] \in Int /\ s[q] \in Int /\ k \in 1 .. k /\ p \in 1 .. k
          /\ q \in 1 .. k
      BY <2>3, <3>1
    <3>6. a \in 1 .. k /\ b \in 1 .. k BY <3>3, <3>4, <3>5
    <3>7. ASSUME NEW i \in 1 .. k PROVE s[a] <= s[i] /\ s[i] <= s[b]
      <4>1. s[i] \in Int BY <2>3
      <4>2. CASE i = k BY <3>3, <3>4, <3>5, <4>1, <4>2
      <4>3. CASE i # k
        <5>1. i \in 1 .. (k - 1) BY <2>3, <4>3
        <5>2. s[p] <= s[i] /\ s[i] <= s[q] BY <3>2, <5>1
        <5>3. QED BY <3>3, <3>4, <3>5, <4>1, <5>2
      <4>4. QED BY <4>2, <4>3
    <3>8. QED BY <2>3, <3>6, <3>7
  <2>6. QED BY <2>4, <2>5
<1>3. n \in 1 .. n /\ n \notin A BY <1>2
<1>4. PICK p \in 1 .. n, q \in 1 .. n : \A i \in 1 .. n : s[p] <= s[i] /\ s[i] <= s[q]
  BY <1>1, <1>3
<1>5. PICK R : R = Range(s) OBVIOUS
<1>6. \A x \in R : \E i \in 1 .. n : x = s[i]
  BY <1>5 DEF Range
<1>7. s[p] \in R /\ s[q] \in R BY <1>5 DEF Range
<1>8. \A x \in R : x \in Int /\ s[p] <= x /\ x <= s[q] BY <1>4, <1>6
<1>9. \E x \in R : \A y \in R : x <= y BY <1>7, <1>8
<1>10. \E x \in R : \A y \in R : x >= y BY <1>7, <1>8
<1>11. Min(R) \in R /\ \A y \in R : Min(R) <= y BY <1>9 DEF Min
<1>12. Max(R) \in R /\ \A y \in R : Max(R) >= y BY <1>10 DEF Max
<1>13. s[p] = Min(R) BY <1>7, <1>8, <1>11
<1>14. s[q] = Max(R) BY <1>7, <1>8, <1>12
<1>15. QED BY <1>4, <1>5, <1>13, <1>14

\* Numbers between two bounds add up to something between as many times them.
LEMMA SumWithin ==
  ASSUME NEW n \in Nat, NEW s \in [1 .. n -> Int], NEW low \in Int, NEW high \in Int,
         \A i \in 1 .. n : low <= s[i] /\ s[i] <= high
  PROVE  SumOf(s) \in Int /\ low * n <= SumOf(s) /\ SumOf(s) <= high * n
<1>1. PICK one : one = [i \in 1 .. n |-> 1] OBVIOUS
<1>2. one \in [1 .. n -> Int] /\ \A i \in 1 .. n : one[i] = 1 BY <1>1
<1>3. SumOf(one) = n BY <1>1, SumOfOnes
<1>4. low * 1 = low /\ high * 1 = high OBVIOUS
<1>5. \A i \in 1 .. n : low * one[i] <= s[i] /\ s[i] <= high * one[i]
  <2>1. ASSUME NEW i \in 1 .. n PROVE low * one[i] <= s[i] /\ s[i] <= high * one[i]
    <3>1. one[i] = 1 BY <1>2
    <3>2. QED BY <1>4, <3>1
  <2>2. QED BY <2>1
<1>6. SumOf(s) \in Int /\ low * SumOf(one) <= SumOf(s) BY <1>2, <1>5, SumAtLeast
<1>7. SumOf(s) <= high * SumOf(one) BY <1>2, <1>5, SumAtMost
<1>8. QED BY <1>3, <1>6, <1>7

\* The mean without its extremes is between two of its terms.
LEMMA TrimmedMean ==
  ASSUME NEW n \in Nat \ {0}, NEW s \in [1 .. n -> Int]
  PROVE  /\ CalculateTrimmedMean(s) \in Int
         /\ \E p, q \in 1 .. n : s[p] <= CalculateTrimmedMean(s) /\ CalculateTrimmedMean(s) <= s[q]
<1>1. PICK p \in 1 .. n, q \in 1 .. n :
        /\ s[p] = Min(Range(s)) /\ s[q] = Max(Range(s))
        /\ \A i \in 1 .. n : s[p] <= s[i] /\ s[i] <= s[q]
  BY Extremes
<1>2. PICK low \in Int, high \in Int : low = s[p] /\ high = s[q] OBVIOUS
<1>3. \A i \in 1 .. n : low <= s[i] /\ s[i] <= high BY <1>1, <1>2
<1>4. Len(s) = n OBVIOUS
<1>5. SumOf(s) \in Int /\ low * n <= SumOf(s) /\ SumOf(s) <= high * n BY <1>3, SumWithin
<1>6. CASE n < 3
  <2>1. CalculateTrimmedMean(s) = RoundScore(SumOf(s), n)
    BY <1>4, <1>6 DEF CalculateTrimmedMean
  <2>2. QED BY <1>2, <1>5, <2>1, Rounding
<1>7. CASE ~ (n < 3)
  <2>1. PICK m \in Nat \ {0} : m = n - 2 BY <1>7
  <2>2. PICK total \in Int : total = SumOf(s) - low - high BY <1>5
  <2>3. CalculateTrimmedMean(s) = RoundScore(total, m)
    BY <1>1, <1>2, <1>4, <1>7, <2>1, <2>2 DEF CalculateTrimmedMean
  <2>4. low * m <= total
    <3>1. PICK b : b = [s EXCEPT ![q] = low] OBVIOUS
    <3>2. b \in [1 .. n -> Int] /\ \A i \in 1 .. n : low <= b[i] /\ b[i] <= high
      BY <1>2, <1>3, <3>1
    <3>3. SumOf(b) \in Int /\ low * n <= SumOf(b) BY <3>2, SumWithin
    <3>4. SumOf(b) = SumOf(s) + (low - high) BY <1>2, <3>1, SumReplaced
    <3>5. low * n = low * m + 2 * low BY <2>1
    <3>6. PICK x \in Int, y \in Int, z \in Int : x = low * m /\ y = low * n /\ z = SumOf(s)
      BY <1>5
    <3>7. y = x + 2 * low BY <3>5, <3>6, Zenon
    <3>8. y <= z + (low - high) BY <3>3, <3>4, <3>6, Zenon
    <3>9. x <= z - low - high BY <3>7, <3>8
    <3>10. QED BY <2>2, <3>6, <3>9
  <2>5. total <= high * m
    <3>1. PICK b : b = [s EXCEPT ![p] = high] OBVIOUS
    <3>2. b \in [1 .. n -> Int] /\ \A i \in 1 .. n : low <= b[i] /\ b[i] <= high
      BY <1>2, <1>3, <3>1
    <3>3. SumOf(b) \in Int /\ SumOf(b) <= high * n BY <3>2, SumWithin
    <3>4. SumOf(b) = SumOf(s) + (high - low) BY <1>2, <3>1, SumReplaced
    <3>5. high * n = high * m + 2 * high BY <2>1
    <3>6. PICK x \in Int, y \in Int, z \in Int : x = high * m /\ y = high * n /\ z = SumOf(s)
      BY <1>5
    <3>7. y = x + 2 * high BY <3>5, <3>6, Zenon
    <3>8. z + (high - low) <= y BY <3>3, <3>4, <3>6, Zenon
    <3>9. z - low - high <= x BY <3>7, <3>8
    <3>10. QED BY <2>2, <3>6, <3>9
  <2>6. /\ RoundScore(total, m) \in Int
        /\ low <= RoundScore(total, m) /\ RoundScore(total, m) <= high
    BY <2>4, <2>5, Rounding
  <2>7. QED BY <1>2, <2>3, <2>6
<1>8. QED BY <1>6, <1>7

\* The weighted score is within whatever bounds the ratings it is made of.
LEMMA WeightedScore ==
  ASSUME SkillAssumption, NEW list, NEW n \in Nat \ {0}, DOMAIN list = 1 .. n, Len(list) = n,
         \A i \in 1 .. n : list[i].effective \in Int,
         NEW low \in Int, NEW high \in Int,
         \A i \in 1 .. n : low <= list[i].effective /\ list[i].effective <= high
  PROVE  LET score == CalculateRollingWeightedScore(list) IN
           score \in Int /\ low <= score /\ score <= high
<1>1. PICK m \in 1 .. n : m = Min({n, RollingWindow})
  <2>1. RollingWindow \in Nat \ {0} BY DEF SkillAssumption
  <2>2. \E x \in {n, RollingWindow} : \A y \in {n, RollingWindow} : x <= y BY <2>1
  <2>3. Min({n, RollingWindow}) \in {n, RollingWindow} /\ Min({n, RollingWindow}) <= n
    BY <2>2 DEF Min
  <2>4. QED BY <2>1, <2>3
<1>2. PICK latest : latest = Reverse(list) OBVIOUS
<1>3. ASSUME NEW i \in 1 .. m
      PROVE  /\ latest[i].effective \in Int
             /\ low <= latest[i].effective /\ latest[i].effective <= high
  <2>1. i \in 1 .. n /\ n - i + 1 \in 1 .. n OBVIOUS
  <2>2. latest[i] = list[n - i + 1] BY <1>2, <2>1 DEF Reverse
  <2>3. QED BY <2>1, <2>2
<1>4. PICK w : w = [i \in 1 .. m |-> RecencyWeight(i)] OBVIOUS
<1>5. w \in [1 .. m -> Int] /\ \A i \in 1 .. m : w[i] \in Nat /\ 1 <= w[i] /\ w[i] <= 100
  BY <1>4 DEF RecencyWeight
<1>6. PICK value : value = [i \in 1 .. m |-> latest[i].effective * RecencyWeight(i)] OBVIOUS
<1>7. ASSUME NEW i \in 1 .. m
      PROVE  value[i] \in Int /\ low * w[i] <= value[i] /\ value[i] <= high * w[i]
  <2>1. PICK x \in Int, y \in Nat : x = latest[i].effective /\ y = w[i] BY <1>3, <1>5
  <2>2. value[i] = x * y BY <1>4, <1>6, <2>1
  <2>3. low <= x /\ x <= high BY <1>3, <2>1
  <2>4. low * y <= x * y /\ x * y <= high * y BY <2>3
  <2>5. QED BY <2>1, <2>2, <2>4
<1>8. value \in [1 .. m -> Int] BY <1>6, <1>7
<1>9. m \in Nat /\ 1 <= m OBVIOUS
<1>10. PICK W \in Nat \ {0} : W = SumOf(w)
  <2>1. 1 \in Int /\ 100 \in Int OBVIOUS
  <2>2. SumOf(w) \in Int /\ 1 * m <= SumOf(w) BY <1>5, <1>9, <2>1, SumWithin
  <2>3. QED BY <1>9, <2>2
<1>11. PICK T \in Int : T = SumOf(value) /\ low * W <= T /\ T <= high * W
  <2>1. SumOf(value) \in Int /\ low * SumOf(w) <= SumOf(value)
    BY <1>5, <1>7, <1>8, <1>9, SumAtLeast
  <2>2. SumOf(value) <= high * SumOf(w) BY <1>5, <1>7, <1>8, <1>9, SumAtMost
  <2>3. QED BY <1>10, <2>1, <2>2
<1>12. RoundScore(T, W) \in Int /\ low <= RoundScore(T, W) /\ RoundScore(T, W) <= high
  BY <1>11, Rounding
<1>13. CalculateRollingWeightedScore(list) = RoundScore(T, W)
  BY <1>1, <1>2, <1>4, <1>6, <1>10, <1>11 DEF CalculateRollingWeightedScore
<1>14. QED BY <1>12, <1>13

\* Every score has a tier.
LEMMA TierReached ==
  ASSUME SkillAssumption, NEW score \in Int
  PROVE  MapScoreToTier(score) \in Tiers
<1>1. Top \in Nat /\ Tiers \in SUBSET (1 .. Top) /\ Tiers # {} BY DEF SkillAssumption, Top
<1>2. PICK reached : reached = {t \in Tiers : score >= MinScore[t]} OBVIOUS
<1>3. MapScoreToTier(score) = IF reached = {} THEN Min(Tiers) ELSE Max(reached)
  BY <1>2 DEF MapScoreToTier
<1>4. CASE reached = {}
  <2>1. Tiers \in SUBSET Nat BY <1>1
  <2>2. \E x \in Tiers : \A y \in Tiers : x <= y BY <1>1, <2>1, LeastOf
  <2>3. Min(Tiers) \in Tiers BY <2>2 DEF Min
  <2>4. QED BY <1>3, <1>4, <2>3
<1>5. CASE reached # {}
  <2>1. reached \in SUBSET (1 .. Top) BY <1>1, <1>2
  <2>2. Max(reached) \in reached BY <1>1, <1>5, <2>1, GreatestOf
  <2>3. QED BY <1>2, <1>3, <1>5, <2>2
<1>6. QED BY <1>4, <1>5

\* A rating counts for something between the score it found and itself.
LEMMA EffectiveBetween ==
  ASSUME SkillAssumption, NEW raw \in Int, NEW prior \in Int \cup {Nil}
  PROVE  LET e == EffectiveRatingForScore(raw, prior) IN
           /\ e \in Int
           /\ \/ e = raw
              \/ prior \in Int /\ prior <= e /\ e <= raw
              \/ prior \in Int /\ raw <= e /\ e <= prior
<1>1. OutlierCap \in Nat BY DEF SkillAssumption
<1>2. CASE prior = Nil BY <1>2 DEF EffectiveRatingForScore
<1>3. CASE prior # Nil
  <2>1. prior \in Int BY <1>3
  <2>2. PICK a \in Int, b \in Int : a = prior + OutlierCap /\ b = prior - OutlierCap BY <1>1, <2>1
  <2>3. PICK m : m = Min({a, raw}) OBVIOUS
  <2>4. \E x \in {a, raw} : \A y \in {a, raw} : x <= y BY <2>2
  <2>5. m \in {a, raw} /\ m <= a /\ m <= raw BY <2>3, <2>4 DEF Min
  <2>6. m \in Int BY <2>2, <2>5
  <2>7. PICK e : e = Max({b, m}) OBVIOUS
  <2>8. \E x \in {b, m} : \A y \in {b, m} : x >= y BY <2>2, <2>6
  <2>9. e \in {b, m} /\ e >= b /\ e >= m BY <2>7, <2>8 DEF Max
  <2>10. e = EffectiveRatingForScore(raw, prior)
    BY <1>3, <2>2, <2>3, <2>7 DEF EffectiveRatingForScore
  <2>11. e \in Int /\ (e = raw \/ (prior <= e /\ e <= raw) \/ (raw <= e /\ e <= prior))
    BY <1>1, <2>1, <2>2, <2>5, <2>6, <2>9
  <2>12. QED BY <2>1, <2>10, <2>11
<1>4. QED BY <1>2, <1>3

-----------------------------------------------------------------------------
(* A profile and the ratings that make it. *)

\* What appending a rating leaves in place.
Grown(list, x, bigger) ==
  /\ Len(bigger) = Len(list) + 1 /\ DOMAIN bigger = 1 .. (Len(list) + 1)
  /\ bigger \in Seq(SkillRatings)
  /\ DOMAIN list = 1 .. Len(list) /\ Len(list) \in Nat
  /\ \A i \in DOMAIN list : bigger[i] = list[i] /\ i \in DOMAIN bigger
  /\ bigger[Len(list) + 1] = x

\* Appending a rating adds it and no other.
LEMMA Appending ==
  ASSUME NEW list \in Seq(SkillRatings), NEW x \in SkillRatings
  PROVE  Grown(list, x, Append(list, x))
<1>1. Len(list) \in Nat /\ DOMAIN list = 1 .. Len(list) OBVIOUS
<1>2. QED BY <1>1 DEF Grown

\* What a player has been rated stays within his ratings when they grow.
LEMMA StaysWithin ==
  ASSUME NEW list, NEW x, NEW bigger, Grown(list, x, bigger), NEW score,
         WithinGiven(score, list)
  PROVE  WithinGiven(score, bigger)
<1>1. PICK i \in DOMAIN list, j \in DOMAIN list : list[i].raw <= score /\ score <= list[j].raw
  BY DEF WithinGiven
<1>2. /\ i \in DOMAIN bigger /\ j \in DOMAIN bigger
      /\ bigger[i].raw <= score /\ score <= bigger[j].raw
  BY <1>1 DEF Grown
<1>3. QED BY <1>2 DEF WithinGiven

\* The latest rating counts for something within the ratings.
LEMMA LatestWithin ==
  ASSUME SkillAssumption, NEW list, NEW x \in SkillRatings, NEW bigger, Grown(list, x, bigger),
         list \in Seq(SkillRatings),
         NEW prior \in Int \cup {Nil}, prior \in Int => WithinGiven(prior, list),
         x.effective = EffectiveRatingForScore(x.raw, prior)
  PROVE  WithinGiven(x.effective, bigger)
<1>1. x.raw \in Int BY DEF SkillRatings
<1>2. PICK e \in Int : e = x.effective BY DEF SkillRatings
<1>3. \/ e = x.raw
      \/ prior \in Int /\ prior <= e /\ e <= x.raw
      \/ prior \in Int /\ x.raw <= e /\ e <= prior
  <2>1. PICK raw \in Int : raw = x.raw BY <1>1
  <2>2. PICK c : c = EffectiveRatingForScore(raw, prior) OBVIOUS
  <2>3. \/ c = raw
        \/ prior \in Int /\ prior <= c /\ c <= raw
        \/ prior \in Int /\ raw <= c /\ c <= prior
    BY <2>2, EffectiveBetween
  <2>4. c = e BY <1>2, <2>1, <2>2
  <2>5. QED BY <2>1, <2>3, <2>4
<1>4. PICK k : k = Len(list) + 1 OBVIOUS
<1>5. k \in DOMAIN bigger /\ bigger[k].raw = x.raw BY <1>4 DEF Grown
<1>6. CASE e = x.raw
  <2>1. bigger[k].raw <= e /\ e <= bigger[k].raw BY <1>1, <1>5, <1>6
  <2>2. QED BY <1>2, <1>5, <2>1 DEF WithinGiven
<1>7. ASSUME prior \in Int PROVE \E i, j \in DOMAIN bigger :
                                   /\ bigger[i].raw \in Int /\ bigger[j].raw \in Int
                                   /\ bigger[i].raw <= prior /\ prior <= bigger[j].raw
  <2>1. PICK i \in DOMAIN list, j \in DOMAIN list : list[i].raw <= prior /\ prior <= list[j].raw
    BY <1>7 DEF WithinGiven
  <2>2. i \in DOMAIN bigger /\ j \in DOMAIN bigger /\ bigger[i] = list[i] /\ bigger[j] = list[j]
    BY <2>1 DEF Grown
  <2>3. list[i] \in SkillRatings /\ list[j] \in SkillRatings BY <2>1
  <2>4. list[i].raw \in Int /\ list[j].raw \in Int BY <2>3 DEF SkillRatings
  <2>5. QED BY <2>1, <2>2, <2>4
<1>8. CASE prior \in Int /\ prior <= e /\ e <= x.raw
  <2>1. PICK i \in DOMAIN bigger : bigger[i].raw \in Int /\ bigger[i].raw <= prior BY <1>7, <1>8
  <2>2. bigger[i].raw <= e /\ e <= bigger[k].raw BY <1>5, <1>8, <2>1
  <2>3. QED BY <1>2, <1>5, <2>2 DEF WithinGiven
<1>9. CASE prior \in Int /\ x.raw <= e /\ e <= prior
  <2>1. PICK i \in DOMAIN bigger : bigger[i].raw \in Int /\ prior <= bigger[i].raw BY <1>7, <1>9
  <2>2. bigger[k].raw <= e /\ e <= bigger[i].raw BY <1>5, <1>9, <2>1
  <2>3. QED BY <1>2, <1>5, <2>2 DEF WithinGiven
<1>10. QED BY <1>3, <1>6, <1>8, <1>9

\* Being within what was given, by position.
LEMMA WithinByPosition ==
  ASSUME NEW list, NEW n, DOMAIN list = 1 .. n, NEW score
  PROVE  WithinGiven(score, list) <=>
           \E j, k \in 1 .. n : list[j].raw <= score /\ score <= list[k].raw
BY DEF WithinGiven

\* When every rating counts for something within the ratings, so does their score.
LEMMA ScoreWithin ==
  ASSUME SkillAssumption, NEW list \in Seq(SkillRatings), list # <<>>,
         \A i \in DOMAIN list : WithinGiven(list[i].effective, list)
  PROVE  LET score == CalculateRollingWeightedScore(list) IN
           score \in Int /\ WithinGiven(score, list)
<1>1. PICK n \in Nat \ {0} : n = Len(list) /\ DOMAIN list = 1 .. n OBVIOUS
<1>2. \A i \in 1 .. n : list[i] \in SkillRatings BY <1>1
<1>3. \A i \in 1 .. n : list[i].raw \in Int /\ list[i].effective \in Int
  BY <1>2 DEF SkillRatings
<1>4. PICK s : s = [i \in 1 .. n |-> list[i].raw] OBVIOUS
<1>5. s \in [1 .. n -> Int] /\ \A i \in 1 .. n : s[i] = list[i].raw BY <1>3, <1>4
<1>6. PICK p \in 1 .. n, q \in 1 .. n :
        /\ s[p] = Min(Range(s)) /\ s[q] = Max(Range(s))
        /\ \A i \in 1 .. n : s[p] <= s[i] /\ s[i] <= s[q]
  BY <1>5, Extremes
<1>7. PICK low \in Int, high \in Int : low = s[p] /\ high = s[q] BY <1>5, <1>6
<1>8. ASSUME NEW i \in 1 .. n PROVE low <= list[i].effective /\ list[i].effective <= high
  <2>1. PICK e \in Int : e = list[i].effective /\ WithinGiven(e, list) BY <1>1, <1>3
  <2>2. PICK j \in 1 .. n, k \in 1 .. n : list[j].raw <= e /\ e <= list[k].raw
    BY <1>1, <2>1, WithinByPosition
  <2>3. s[j] <= e /\ e <= s[k] BY <1>5, <2>2
  <2>4. PICK a \in Int, b \in Int : a = s[j] /\ b = s[k] BY <1>5, <2>2
  <2>5. s[p] <= s[j] /\ s[k] <= s[q] BY <1>6, <2>2
  <2>6. low <= a /\ a <= e /\ e <= b /\ b <= high BY <1>7, <2>3, <2>4, <2>5
  <2>7. low <= e /\ e <= high BY <2>6
  <2>8. QED BY <2>1, <2>7
<1>9. PICK score : score = CalculateRollingWeightedScore(list) OBVIOUS
<1>10. score \in Int /\ low <= score /\ score <= high
  BY <1>1, <1>3, <1>8, <1>9, WeightedScore
<1>11. low = list[p].raw /\ high = list[q].raw BY <1>5, <1>6, <1>7
<1>12. WithinGiven(score, list) BY <1>1, <1>6, <1>10, <1>11, WithinByPosition
<1>13. QED BY <1>9, <1>10, <1>12

\* The first score is within the ratings it is the mean of.
LEMMA FirstWithin ==
  ASSUME NEW n \in Nat \ {0}, NEW list \in Seq(SkillRatings), n <= Len(list)
  PROVE  LET score == CalculateTrimmedMean([i \in 1 .. n |-> list[i].raw]) IN
           score \in Int /\ WithinGiven(score, list)
<1>1. PICK s : s = [i \in 1 .. n |-> list[i].raw] OBVIOUS
<1>2. \A i \in 1 .. n : i \in DOMAIN list /\ list[i] \in SkillRatings OBVIOUS
<1>3. \A i \in 1 .. n : list[i].raw \in Int BY <1>2 DEF SkillRatings
<1>4. s \in [1 .. n -> Int] /\ \A i \in 1 .. n : s[i] = list[i].raw BY <1>1, <1>3
<1>5. PICK score : score = CalculateTrimmedMean(s) OBVIOUS
<1>6. PICK p \in 1 .. n, q \in 1 .. n : score \in Int /\ s[p] <= score /\ score <= s[q]
  BY <1>4, <1>5, TrimmedMean
<1>7. list[p].raw <= score /\ score <= list[q].raw BY <1>4, <1>6
<1>8. WithinGiven(score, list) BY <1>2, <1>7 DEF WithinGiven
<1>9. QED BY <1>1, <1>5, <1>6, <1>8

\* A transition of tier stays or goes to one there is, not before the cool-down is over.
LEMMA Transition ==
  ASSUME SkillAssumption, NEW before, before.tier \in Tiers, before.valid \in Nat,
         before.changedAt \in Nat, NEW score \in Int
  PROVE  LET tier == EvaluateTierTransition(before, score) IN
           /\ tier \in Tiers
           /\ tier # before.tier => before.valid - before.changedAt >= MinSinceChange
<1>1. MapScoreToTier(score) \in Tiers BY TierReached
<1>2. QED BY <1>1 DEF EvaluateTierTransition

\* What one more rating does to a profile.
Advances(before, after, list, bigger) ==
  /\ MadeOf(after, bigger)
  /\ after \in Profiles
  /\ after.state # "NONE" /\ after.matches = before.matches
  /\ before.tier # Nil /\ after.tier # before.tier =>
       after.changedAt > before.changedAt + MinSinceChange

\* The fields of a profile.
Fields == {"state", "score", "tier", "valid", "raters", "matches", "changedAt"}

\* The raters of a player are finitely many users.
LEMMA RatersAreCounted ==
  ASSUME SkillAssumption, NEW list \in Seq(SkillRatings)
  PROVE  Raters(list) \in Nat
<1>1. PICK R : R = {list[i].rater : i \in DOMAIN list} OBVIOUS
<1>2. \A i \in DOMAIN list : list[i] \in SkillRatings OBVIOUS
<1>3. R \in SUBSET Users BY <1>1, <1>2 DEF SkillRatings
<1>4. IsFiniteSet(Users)
  <2>1. IsFiniteSet(Persons) /\ Users \in SUBSET Persons BY DEF SkillAssumption, Persons
  <2>2. QED BY <2>1, FS_Subset
<1>5. IsFiniteSet(R) BY <1>3, <1>4, FS_Subset
<1>6. Cardinality(R) \in Nat BY <1>5, FS_CardinalityType
<1>7. QED BY <1>1, <1>6 DEF Raters

\* A profile that a rating advances is made of the ratings with it.
LEMMA RatingAdvances ==
  ASSUME SkillAssumption, NEW before \in Profiles, before.state # "NONE",
         NEW list \in Seq(SkillRatings), MadeOf(before, list),
         NEW x \in SkillRatings, NEW bigger, Grown(list, x, bigger),
         x.effective = EffectiveRatingForScore(x.raw, before.score)
  PROVE  Advances(before, RecomputeProjection(before, bigger), list, bigger)
<1>1. /\ before.valid = Len(list) /\ before.matches \in Nat /\ before.changedAt \in Nat
      /\ DOMAIN before = Fields
      /\ \A i \in DOMAIN list : WithinGiven(list[i].effective, list)
  BY DEF MadeOf, Profiles, Fields
<1>2. \/ /\ before.state \in {"UNRANKED", "CALIBRATING"}
         /\ before.score = Nil /\ before.tier = Nil
      \/ /\ before.tier \in Tiers /\ before.state = StateOfTier(before.tier)
         /\ Len(list) >= CalibrationRequired
         /\ before.score \in Int /\ WithinGiven(before.score, list)
  <2>1. before # NoProfile BY DEF NoProfile
  <2>2. QED BY <2>1 DEF MadeOf
<1>3. /\ CalibrationRequired \in Nat \ {0} /\ MinSinceChange \in Nat /\ Nil \notin Int
      /\ Tiers \subseteq 1 .. Top /\ Tiers \subseteq Int
  BY DEF SkillAssumption, Top
<1>4. PICK n \in Nat : n = Len(list) /\ Len(bigger) = n + 1 /\ n + 1 \in Nat /\ bigger # <<>>
  <2>1. PICK n \in Nat : n = Len(list) /\ Len(bigger) = n + 1 BY DEF Grown
  <2>2. bigger \in Seq(SkillRatings) BY DEF Grown
  <2>3. n + 1 \in Nat /\ n + 1 # 0 OBVIOUS
  <2>4. bigger # <<>> BY <2>1, <2>2, <2>3
  <2>5. QED BY <2>1, <2>3, <2>4
<1>5. before.score \in Int \cup {Nil} /\ (before.score \in Int => WithinGiven(before.score, list))
  BY <1>2, <1>3
<1>6. WithinGiven(x.effective, bigger) BY <1>5, LatestWithin
<1>7. \A i \in DOMAIN bigger : WithinGiven(bigger[i].effective, bigger)
  <2>1. ASSUME NEW i \in DOMAIN bigger PROVE WithinGiven(bigger[i].effective, bigger)
    <3>1. CASE i \in DOMAIN list
      <4>1. WithinGiven(list[i].effective, list) BY <1>1, <3>1
      <4>2. WithinGiven(list[i].effective, bigger) BY <4>1, StaysWithin
      <4>3. bigger[i] = list[i] BY <3>1 DEF Grown
      <4>4. QED BY <4>2, <4>3
    <3>2. CASE i \notin DOMAIN list
      <4>1. i = n + 1 BY <1>4, <3>2 DEF Grown
      <4>2. bigger[i] = x BY <1>4, <4>1 DEF Grown
      <4>3. QED BY <1>6, <4>2
    <3>3. QED BY <3>1, <3>2
  <2>2. QED BY <2>1
<1>8. bigger \in Seq(SkillRatings) BY DEF Grown

<1>9. PICK base : base = [before EXCEPT !.valid = Len(bigger), !.raters = Raters(bigger)] OBVIOUS
<1>10. base \in Profiles
  <2>1. Raters(bigger) \in Nat BY <1>8, RatersAreCounted
  <2>2. PICK v \in Nat, w \in Nat : v = Len(bigger) /\ w = Raters(bigger) BY <1>4, <2>1
  <2>3. base = [before EXCEPT !.valid = v, !.raters = w] BY <1>9, <2>2
  <2>4. QED BY <2>3 DEF Profiles
<1>11. /\ DOMAIN base = Fields /\ base.valid = n + 1 /\ base.raters = Raters(bigger)
       /\ base.matches = before.matches /\ base.changedAt = before.changedAt
  BY <1>1, <1>4, <1>9 DEF Fields
<1>12. PICK score : score = IF Calibrating(before)
                            THEN CalculateTrimmedMean(
                                   [i \in 1 .. CalibrationRequired |-> bigger[i].raw])
                            ELSE CalculateRollingWeightedScore(bigger)
  OBVIOUS
<1>13. PICK tier : tier = IF Calibrating(before) THEN MapScoreToTier(score)
                          ELSE EvaluateTierTransition(before, score)
  OBVIOUS
<1>14. PICK after : after = RecomputeProjection(before, bigger) OBVIOUS
<1>15. CASE n + 1 < CalibrationRequired
  <2>1. after = [base EXCEPT !.state = "CALIBRATING", !.score = Nil, !.tier = Nil]
    BY <1>4, <1>9, <1>14, <1>15 DEF RecomputeProjection
  <2>2. /\ DOMAIN after = Fields /\ after.valid = n + 1 /\ after.raters = Raters(bigger)
        /\ after.matches = before.matches /\ after.changedAt = before.changedAt
        /\ after.state = "CALIBRATING" /\ after.score = Nil /\ after.tier = Nil
    BY <1>11, <2>1 DEF Fields
  <2>3. n + 1 \in 1 .. (CalibrationRequired - 1) BY <1>3, <1>15
  <2>4. MadeOf(after, bigger) BY <1>1, <1>4, <1>7, <2>2, <2>3 DEF MadeOf
  <2>5. before.tier = Nil BY <1>2, <1>3, <1>4, <1>15
  <2>6. after \in Profiles BY <1>10, <2>1 DEF Profiles
  <2>7. QED BY <1>14, <2>2, <2>4, <2>5, <2>6 DEF Advances
<1>16. CASE ~ (n + 1 < CalibrationRequired)
  <2>1. after = [base EXCEPT !.state = StateOfTier(tier), !.score = score, !.tier = tier,
                   !.changedAt = IF tier # before.tier THEN Len(bigger) ELSE before.changedAt]
    BY <1>4, <1>9, <1>12, <1>13, <1>14, <1>16 DEF RecomputeProjection
  <2>2. /\ DOMAIN after = Fields /\ after.valid = n + 1 /\ after.raters = Raters(bigger)
        /\ after.matches = before.matches
        /\ after.changedAt = IF tier # before.tier THEN n + 1 ELSE before.changedAt
        /\ after.state = StateOfTier(tier) /\ after.score = score /\ after.tier = tier
    BY <1>4, <1>11, <2>1 DEF Fields
  <2>3. score \in Int /\ WithinGiven(score, bigger)
    <3>1. CASE Calibrating(before)
      <4>1. CalibrationRequired <= Len(bigger) BY <1>3, <1>4, <1>16
      <4>2. QED BY <1>3, <1>8, <1>12, <3>1, <4>1, FirstWithin
    <3>2. CASE ~ Calibrating(before) BY <1>4, <1>7, <1>8, <1>12, <3>2, ScoreWithin
    <3>3. QED BY <3>1, <3>2
  <2>4. /\ tier \in Tiers
        /\ before.tier # Nil /\ tier # before.tier =>
             before.valid - before.changedAt >= MinSinceChange
    <3>1. CASE Calibrating(before)
      <4>1. tier = MapScoreToTier(score) BY <1>13, <3>1
      <4>2. before.tier = Nil
        <5>1. StateOfTier(before.tier) \in {"RANKED", "TOP_TIER_LOCKED"} BY DEF StateOfTier
        <5>2. before.state \in {"UNRANKED", "CALIBRATING"} BY <3>1 DEF Calibrating
        <5>3. before.state # StateOfTier(before.tier) BY <5>1, <5>2
        <5>4. QED BY <1>2, <5>3
      <4>3. QED BY <2>3, <4>1, <4>2, TierReached
    <3>2. CASE ~ Calibrating(before)
      <4>1. before.tier \in Tiers BY <1>2, <3>2 DEF Calibrating
      <4>2. before.valid \in Nat BY <1>1, <1>4
      <4>3. QED BY <1>1, <1>13, <2>3, <3>2, <4>1, <4>2, Transition
    <3>3. QED BY <3>1, <3>2
  <2>5. after.changedAt \in Nat BY <1>1, <1>4, <2>2
  <2>6. Len(bigger) >= CalibrationRequired BY <1>3, <1>4, <1>16
  <2>7. MadeOf(after, bigger)
    BY <1>1, <1>4, <1>7, <2>2, <2>3, <2>4, <2>5, <2>6 DEF MadeOf
  <2>8. before.tier # Nil /\ after.tier # before.tier =>
          after.changedAt > before.changedAt + MinSinceChange
    <3>1. before.valid = n /\ before.changedAt \in Nat BY <1>1, <1>4
    <3>2. QED BY <1>3, <2>2, <2>4, <3>1
  <2>9. after.state # "NONE" BY <2>2 DEF StateOfTier
  <2>10. after \in Profiles
    <3>1. StateOfTier(tier) \in {"RANKED", "TOP_TIER_LOCKED"} BY DEF StateOfTier
    <3>2. (IF tier # before.tier THEN Len(bigger) ELSE before.changedAt) \in Nat BY <1>1, <1>4
    <3>3. QED BY <1>10, <2>1, <2>3, <2>4, <3>1, <3>2 DEF Profiles
  <2>11. QED BY <1>14, <2>2, <2>7, <2>8, <2>9, <2>10 DEF Advances
<1>17. QED BY <1>3, <1>15, <1>16

-----------------------------------------------------------------------------
(* The inductive invariant. *)

\* What an event says.
EventTypes == {"VALID_SKILL_RATING_SUBMITTED", "PLAYER_CALIBRATION_STARTED",
               "PLAYER_CALIBRATION_PROGRESS_UPDATED", "PLAYER_INITIAL_RANK_PUBLISHED",
               "PLAYER_SKILL_SCORE_UPDATED", "PLAYER_RANK_PROMOTED", "PLAYER_RANK_DEMOTED",
               "TOP_TIER_REACHED"}
Announcement == [type : EventTypes, tier : Tiers \cup {Nil}]

\* Each variable is of its kind.
TypeOK ==
  /\ room \in [Rooms -> {"PLANNED", "IN_PROGRESS", "COMPLETED"}]
  /\ seat \in [Rooms \X Persons -> {"NONE", "NOT_SET", "PRESENT", "NO_SHOW"}]
  /\ claimedBy \in [Guests -> Users \cup {Nil}]
  /\ profile \in [Users -> Profiles]
  /\ ratings \in [Users -> Seq(SkillRatings)]
  /\ events \in [Users -> Seq(Announcement)]

\* Every profile is one its ratings make.
ProfilesAreMade == \A u \in Users : MadeOf(profile[u], ratings[u])

\* The user a person is when guests are claimed as by says.
Identity(by, p) == IF p \in Guests THEN by[p] ELSE p

\* Whoever was present in a completed room has a profile: a room with a guest
\* nobody claimed does not complete.
PresentAreKnown ==
  \A r \in Rooms : room[r] = "COMPLETED" => \A p \in Persons :
    seat[<<r, p>>] = "PRESENT" =>
      Identity(claimedBy, p) \in Users /\ profile[Identity(claimedBy, p)].state # "NONE"

\* The completed rooms a user was present in.
Played(rooms, seats, by, u) ==
  {r \in Rooms : rooms[r] = "COMPLETED"
                   /\ \E p \in Persons : seats[<<r, p>>] = "PRESENT" /\ Identity(by, p) = u}

\* The matches of every profile are these.
MatchesArePlayed ==
  \A u \in Users :
    profile[u].matches = InitialProfile[u].matches
                           + Cardinality(Played(room, seat, claimedBy, u))

\* The inductive invariant.
IInv == TypeOK /\ ProfilesAreMade /\ PresentAreKnown /\ MatchesArePlayed

\* A step that completes no room, and unclaims, unseats and forgets nobody.
Quiet ==
  /\ \A r \in Rooms : room'[r] = "COMPLETED" <=> room[r] = "COMPLETED"
  /\ \A r \in Rooms : room[r] = "COMPLETED" =>
                        \A p \in Persons : seat'[<<r, p>>] = seat[<<r, p>>]
  /\ \A g \in Guests : claimedBy[g] # Nil => claimedBy'[g] = claimedBy[g]
  /\ \A u \in Users : profile[u].state # "NONE" => profile'[u].state # "NONE"
  /\ \A u \in Users : profile'[u].matches = profile[u].matches

\* No tier changes before its cool-down is over.
Cool ==
  \A u \in Users :
    profile[u].tier # Nil /\ profile'[u].tier # profile[u].tier =>
      profile'[u].changedAt > profile[u].changedAt + MinSinceChange

\* A quiet step leaves what was played as it was.
LEMMA QuietStep ==
  ASSUME SkillAssumption, IInv, Quiet
  PROVE  PresentAreKnown' /\ MatchesArePlayed'
<1>1. ASSUME NEW r \in Rooms, room[r] = "COMPLETED", NEW p \in Persons,
             seat[<<r, p>>] = "PRESENT"
      PROVE  /\ Identity(claimedBy', p) = Identity(claimedBy, p)
             /\ Identity(claimedBy, p) \in Users
             /\ profile[Identity(claimedBy, p)].state # "NONE"
  <2>1. /\ Identity(claimedBy, p) \in Users
        /\ profile[Identity(claimedBy, p)].state # "NONE"
    BY <1>1 DEF IInv, PresentAreKnown
  <2>2. CASE p \in Guests
    <3>1. Nil \notin Users BY DEF SkillAssumption, Persons
    <3>2. claimedBy[p] # Nil BY <2>1, <2>2, <3>1 DEF Identity
    <3>3. claimedBy'[p] = claimedBy[p] BY <2>2, <3>2 DEF Quiet
    <3>4. QED BY <2>1, <2>2, <3>3 DEF Identity
  <2>3. CASE p \notin Guests BY <2>1, <2>3 DEF Identity
  <2>4. QED BY <2>2, <2>3
<1>2. PresentAreKnown'
  <2>1. ASSUME NEW r \in Rooms, room'[r] = "COMPLETED", NEW p \in Persons,
               seat'[<<r, p>>] = "PRESENT"
        PROVE  /\ Identity(claimedBy', p) \in Users
               /\ profile'[Identity(claimedBy', p)].state # "NONE"
    <3>1. room[r] = "COMPLETED" BY <2>1 DEF Quiet
    <3>2. seat[<<r, p>>] = "PRESENT" BY <2>1, <3>1 DEF Quiet
    <3>3. PICK u \in Users : u = Identity(claimedBy, p) /\ u = Identity(claimedBy', p)
      BY <1>1, <3>1, <3>2
    <3>4. profile[u].state # "NONE" BY <1>1, <3>1, <3>2, <3>3
    <3>5. profile'[u].state # "NONE" BY <3>4 DEF Quiet
    <3>6. QED BY <3>3, <3>5
  <2>2. QED BY <2>1 DEF PresentAreKnown
<1>3. ASSUME NEW u \in Users
      PROVE  Played(room', seat', claimedBy', u) = Played(room, seat, claimedBy, u)
  <2>1. ASSUME NEW r \in Rooms
        PROVE  r \in Played(room', seat', claimedBy', u) <=> r \in Played(room, seat, claimedBy, u)
    <3>1. CASE room[r] = "COMPLETED"
      <4>1. room'[r] = "COMPLETED" BY <3>1 DEF Quiet
      <4>2. \A p \in Persons : seat'[<<r, p>>] = seat[<<r, p>>] BY <3>1 DEF Quiet
      <4>3. \A p \in Persons : seat[<<r, p>>] = "PRESENT" =>
              Identity(claimedBy', p) = Identity(claimedBy, p)
        BY <1>1, <3>1
      <4>4. ASSUME NEW p \in Persons
            PROVE  seat'[<<r, p>>] = "PRESENT" /\ Identity(claimedBy', p) = u
                     <=> seat[<<r, p>>] = "PRESENT" /\ Identity(claimedBy, p) = u
        BY <4>2, <4>3
      <4>5. (\E p \in Persons : seat'[<<r, p>>] = "PRESENT" /\ Identity(claimedBy', p) = u)
              <=> \E p \in Persons : seat[<<r, p>>] = "PRESENT" /\ Identity(claimedBy, p) = u
        BY <4>4
      <4>6. QED BY <3>1, <4>1, <4>5 DEF Played
    <3>2. CASE room[r] # "COMPLETED" BY <3>2 DEF Quiet, Played
    <3>3. QED BY <3>1, <3>2
  <2>2. QED BY <2>1 DEF Played
<1>4. MatchesArePlayed'
  <2>1. ASSUME NEW u \in Users
        PROVE  profile'[u].matches = InitialProfile[u].matches
                                       + Cardinality(Played(room', seat', claimedBy', u))
    <3>1. profile'[u].matches = profile[u].matches BY DEF Quiet
    <3>2. QED BY <1>3, <3>1 DEF IInv, MatchesArePlayed
  <2>2. QED BY <2>1 DEF MatchesArePlayed
<1>5. QED BY <1>2, <1>4

\* The initial profiles are made of the initial ratings, and nothing was played.
LEMMA InitInv ==
  ASSUME SkillAssumption, InitialAssumption, Init
  PROVE  IInv
<1>1. TypeOK
  <2>1. <<>> \in Seq(Announcement) OBVIOUS
  <2>2. QED BY <2>1 DEF Init, TypeOK, InitialAssumption
<1>2. ProfilesAreMade BY DEF Init, ProfilesAreMade, InitialAssumption
<1>3. PresentAreKnown BY DEF Init, PresentAreKnown
<1>4. MatchesArePlayed
  <2>1. ASSUME NEW u \in Users
        PROVE  profile[u].matches = InitialProfile[u].matches
                                      + Cardinality(Played(room, seat, claimedBy, u))
    <3>1. Played(room, seat, claimedBy, u) = {} BY DEF Init, Played
    <3>2. Cardinality(Played(room, seat, claimedBy, u)) = 0 BY <3>1, FS_EmptySet
    <3>3. profile[u] = InitialProfile[u] BY DEF Init
    <3>4. InitialProfile[u].matches \in Nat BY DEF InitialAssumption, Profiles
    <3>5. QED BY <3>2, <3>3, <3>4
  <2>2. QED BY <2>1 DEF MatchesArePlayed
<1>5. QED BY <1>1, <1>2, <1>3, <1>4 DEF IInv

\* What each step is shown to do, besides keeping the profiles known and the matches played.
Keeps == TypeOK' /\ ProfilesAreMade' /\ Quiet /\ Cool

\* A new account's profile has no ratings, and no tier that could change.
LEMMA CreateUserKeeps ==
  ASSUME SkillAssumption, IInv, NEW u \in Users, CreateUser(u)
  PROVE  Keeps
<1>1. TypeOK /\ MadeOf(profile[u], ratings[u]) /\ profile[u].state = "NONE"
  BY DEF IInv, ProfilesAreMade, CreateUser
<1>2. profile' = [profile EXCEPT ![u] = Unranked]
      /\ UNCHANGED <<room, seat, claimedBy, ratings, events>>
  BY DEF CreateUser
<1>3. profile[u] = NoProfile BY <1>1 DEF MadeOf, StateOfTier
<1>4. /\ Unranked.state = "UNRANKED" /\ Unranked.score = Nil /\ Unranked.tier = Nil
      /\ Unranked.valid = NoProfile.valid /\ Unranked.raters = NoProfile.raters
      /\ NoProfile.valid = 0 /\ NoProfile.tier = Nil
      /\ Unranked.matches = NoProfile.matches /\ Unranked \in Profiles
  BY DEF Unranked, NoProfile, Profiles
<1>5. ratings[u] = <<>>
  <2>1. ratings[u] \in Seq(SkillRatings) /\ Len(ratings[u]) = 0
    BY <1>1, <1>3, <1>4 DEF TypeOK, MadeOf
  <2>2. QED BY <2>1
<1>6. MadeOf(Unranked, ratings[u]) BY <1>1, <1>3, <1>4, <1>5 DEF MadeOf
<1>7. /\ profile'[u] = Unranked /\ \A v \in Users : v # u => profile'[v] = profile[v]
      /\ profile' \in [Users -> Profiles]
  BY <1>1, <1>2, <1>4 DEF TypeOK
<1>8. TypeOK' BY <1>1, <1>2, <1>7 DEF TypeOK
<1>9. ProfilesAreMade' BY <1>2, <1>6, <1>7 DEF IInv, ProfilesAreMade
<1>10. Quiet BY <1>2, <1>3, <1>4, <1>7 DEF Quiet
<1>11. Cool BY <1>3, <1>4, <1>7 DEF Cool
<1>12. QED BY <1>8, <1>9, <1>10, <1>11 DEF Keeps

\* A step that leaves profiles and ratings alone leaves them made and cool.
LEMMA Untouched ==
  ASSUME IInv, UNCHANGED <<profile, ratings>>
  PROVE  ProfilesAreMade' /\ Cool
BY DEF IInv, ProfilesAreMade, Cool

\* The seats of the room that starts are not those of a completed one.
LEMMA StartRoomKeeps ==
  ASSUME SkillAssumption, IInv, NEW r \in Rooms, StartRoom(r)
  PROVE  Keeps
<1>1. TypeOK BY DEF IInv
<1>2. /\ room[r] = "PLANNED" /\ room' = [room EXCEPT ![r] = "IN_PROGRESS"]
      /\ seat' = [x \in Rooms \X Persons |->
                    IF x[1] = r /\ x[2] \in SeatedIn[r] THEN "NOT_SET" ELSE seat[x]]
      /\ UNCHANGED <<claimedBy, profile, ratings, events>>
  BY DEF StartRoom
<1>3. TypeOK' BY <1>1, <1>2 DEF TypeOK
<1>4. Quiet
  <2>1. \A q \in Rooms : room'[q] = "COMPLETED" <=> room[q] = "COMPLETED"
    BY <1>1, <1>2 DEF TypeOK
  <2>2. ASSUME NEW q \in Rooms, room[q] = "COMPLETED", NEW p \in Persons
        PROVE  seat'[<<q, p>>] = seat[<<q, p>>]
    <3>1. q # r BY <1>2, <2>2
    <3>2. QED BY <1>2, <3>1
  <2>3. QED BY <1>2, <2>1, <2>2 DEF Quiet
<1>5. QED BY <1>2, <1>3, <1>4, Untouched DEF Keeps

\* Attendance is marked in a room in progress.
LEMMA MarkAttendanceKeeps ==
  ASSUME SkillAssumption, IInv, NEW r \in Rooms, NEW p \in Persons,
         NEW next \in {"PRESENT", "NO_SHOW"}, MarkAttendance(r, p, next)
  PROVE  Keeps
<1>1. TypeOK BY DEF IInv
<1>2. /\ room[r] = "IN_PROGRESS" /\ seat' = [seat EXCEPT ![<<r, p>>] = next]
      /\ UNCHANGED <<room, claimedBy, profile, ratings, events>>
  BY DEF MarkAttendance
<1>3. TypeOK' BY <1>1, <1>2 DEF TypeOK
<1>4. Quiet
  <2>1. ASSUME NEW q \in Rooms, room[q] = "COMPLETED", NEW s \in Persons
        PROVE  seat'[<<q, s>>] = seat[<<q, s>>]
    <3>1. <<q, s>> # <<r, p>> BY <1>2, <2>1
    <3>2. QED BY <1>1, <1>2, <3>1 DEF TypeOK
  <2>2. QED BY <1>2, <2>1 DEF Quiet
<1>5. QED BY <1>2, <1>3, <1>4, Untouched DEF Keeps

\* A guest who is claimed was nobody before.
LEMMA ClaimGuestKeeps ==
  ASSUME SkillAssumption, IInv, NEW g \in Guests, NEW u \in Claimers, ClaimGuest(g, u)
  PROVE  Keeps
<1>1. TypeOK /\ u \in Users BY DEF IInv, SkillAssumption
<1>2. /\ claimedBy[g] = Nil /\ claimedBy' = [claimedBy EXCEPT ![g] = u]
      /\ UNCHANGED <<room, seat, profile, ratings, events>>
  BY DEF ClaimGuest
<1>3. TypeOK' BY <1>1, <1>2 DEF TypeOK
<1>4. \A h \in Guests : claimedBy[h] # Nil => claimedBy'[h] = claimedBy[h]
  BY <1>1, <1>2 DEF TypeOK
<1>5. Quiet BY <1>2, <1>4 DEF Quiet
<1>6. QED BY <1>2, <1>3, <1>5, Untouched DEF Keeps

\* What is announced when there is something to announce.
Announced(condition, type, after) ==
  IF condition THEN <<[type |-> type, tier |-> after.tier]>> ELSE <<>>

\* What a rating makes known is announced in this order.
LEMMA EventsInOrder ==
  ASSUME NEW before, NEW after
  PROVE  AppendRatingEvents(before, after) =
           Announced(TRUE, "VALID_SKILL_RATING_SUBMITTED", after)
             \o Announced(before.state = "UNRANKED", "PLAYER_CALIBRATION_STARTED", after)
             \o Announced(after.state = "CALIBRATING", "PLAYER_CALIBRATION_PROGRESS_UPDATED", after)
             \o Announced(InitialRankPublished(before, after),
                          "PLAYER_INITIAL_RANK_PUBLISHED", after)
             \o Announced(~ InitialRankPublished(before, after),
                          "PLAYER_SKILL_SCORE_UPDATED", after)
             \o Announced(~ Calibrating(before) /\ after.tier > before.tier,
                          "PLAYER_RANK_PROMOTED", after)
             \o Announced(~ Calibrating(before) /\ after.tier < before.tier,
                          "PLAYER_RANK_DEMOTED", after)
             \o Announced(after.state = "TOP_TIER_LOCKED" /\ before.state # "TOP_TIER_LOCKED",
                          "TOP_TIER_REACHED", after)
BY Zenon DEF AppendRatingEvents, Announced

\* What a rating makes known are announcements.
LEMMA EventsAreAnnounced ==
  ASSUME NEW before, NEW after, after.tier \in Tiers \cup {Nil}
  PROVE  AppendRatingEvents(before, after) \in Seq(Announcement)
<1>1. ASSUME NEW type \in EventTypes
      PROVE  <<[type |-> type, tier |-> after.tier]>> \in Seq(Announcement)
  <2>1. PICK e : e = [type |-> type, tier |-> after.tier] OBVIOUS
  <2>2. e \in Announcement BY <2>1 DEF Announcement
  <2>3. <<e>> \in Seq(Announcement) BY <2>2
  <2>4. QED BY <2>1, <2>3
<1>2. <<>> \in Seq(Announcement) OBVIOUS
<1>3. PICK a \in Seq(Announcement) : a = Announced(TRUE, "VALID_SKILL_RATING_SUBMITTED", after)
  BY <1>1, <1>2, Zenon DEF Announced, EventTypes
<1>4. PICK b \in Seq(Announcement) :
        b = Announced(before.state = "UNRANKED", "PLAYER_CALIBRATION_STARTED", after)
  BY <1>1, <1>2, Zenon DEF Announced, EventTypes
<1>5. PICK c \in Seq(Announcement) :
        c = Announced(after.state = "CALIBRATING", "PLAYER_CALIBRATION_PROGRESS_UPDATED", after)
  BY <1>1, <1>2, Zenon DEF Announced, EventTypes
<1>6. PICK d \in Seq(Announcement) :
        d = Announced(InitialRankPublished(before, after), "PLAYER_INITIAL_RANK_PUBLISHED", after)
  BY <1>1, <1>2, Zenon DEF Announced, EventTypes
<1>7. PICK e \in Seq(Announcement) :
        e = Announced(~ InitialRankPublished(before, after), "PLAYER_SKILL_SCORE_UPDATED", after)
  BY <1>1, <1>2, Zenon DEF Announced, EventTypes
<1>8. PICK f \in Seq(Announcement) :
        f = Announced(~ Calibrating(before) /\ after.tier > before.tier, "PLAYER_RANK_PROMOTED",
                      after)
  BY <1>1, <1>2, Zenon DEF Announced, EventTypes
<1>9. PICK g \in Seq(Announcement) :
        g = Announced(~ Calibrating(before) /\ after.tier < before.tier, "PLAYER_RANK_DEMOTED",
                      after)
  BY <1>1, <1>2, Zenon DEF Announced, EventTypes
<1>10. PICK h \in Seq(Announcement) :
         h = Announced(after.state = "TOP_TIER_LOCKED" /\ before.state # "TOP_TIER_LOCKED",
                       "TOP_TIER_REACHED", after)
  BY <1>1, <1>2, Zenon DEF Announced, EventTypes
<1>11. AppendRatingEvents(before, after) = a \o b \o c \o d \o e \o f \o g \o h
  BY <1>3, <1>4, <1>5, <1>6, <1>7, <1>8, <1>9, <1>10, EventsInOrder, Zenon
<1>12. PICK ab \in Seq(Announcement) : ab = a \o b BY ConcatProperties
<1>13. PICK ac \in Seq(Announcement) : ac = ab \o c BY ConcatProperties
<1>14. PICK ad \in Seq(Announcement) : ad = ac \o d BY ConcatProperties
<1>15. PICK ae \in Seq(Announcement) : ae = ad \o e BY ConcatProperties
<1>16. PICK af \in Seq(Announcement) : af = ae \o f BY ConcatProperties
<1>17. PICK ag \in Seq(Announcement) : ag = af \o g BY ConcatProperties
<1>18. PICK ah \in Seq(Announcement) : ah = ag \o h BY ConcatProperties
<1>19. QED BY <1>11, <1>12, <1>13, <1>14, <1>15, <1>16, <1>17, <1>18

\* What a submission does to a user it rates: he has a profile, and his ratings, his
\* profile and his events follow from a value given in the host's name.
RatesUser(r, u) ==
  /\ profile[u].state # "NONE"
  /\ \E v \in Values : ratings'[u] = Append(ratings[u], NewRating(r, u, v))
  /\ profile'[u] = RecomputeProjection(profile[u], ratings'[u])
  /\ events'[u] = events[u] \o AppendRatingEvents(profile[u], profile'[u])

\* What it does to another user: nothing.
LeavesAlone(u) == ratings'[u] = ratings[u] /\ profile'[u] = profile[u] /\ events'[u] = events[u]

\* The tables stay tables.
StaysOfUsers ==
  /\ ratings' = [u \in Users |-> ratings'[u]] /\ profile' = [u \in Users |-> profile'[u]]
  /\ events' = [u \in Users |-> events'[u]]

\* A submission for some users.
Rates(r, rated) ==
  /\ \A u \in rated : RatesUser(r, u)
  /\ \A u \in Users \ rated : LeavesAlone(u)
  /\ StaysOfUsers

\* A submission rates the users of the seats it is for.
LEMMA SubmitRates ==
  ASSUME SkillAssumption, IInv, NEW r \in Rooms, NEW S \in SUBSET Persons,
         NEW given \in [S -> Values], Submit(r, given)
  PROVE  \E rated \in SUBSET Users : Rates(r, rated)
<1>1. PICK rated : rated = {UserOf(p) : p \in DOMAIN given} OBVIOUS
<1>2. ASSUME NEW p \in S PROVE UserOf(p) \in Users /\ profile[UserOf(p)].state # "NONE"
  <2>1. HasProfile(UserOf(p)) BY <1>2 DEF Submit, EligibilityForParticipant
  <2>2. UserOf(p) # Nil /\ profile[UserOf(p)].state # "NONE" BY <2>1 DEF HasProfile
  <2>3. p \in Users \cup Guests BY DEF Persons
  <2>4. QED BY <2>2, <2>3 DEF UserOf, IInv, TypeOK
<1>3. rated \in SUBSET Users BY <1>1, <1>2
<1>4. PICK Raw : Raw = [u \in Users |-> given[CHOOSE p \in DOMAIN given : UserOf(p) = u]] OBVIOUS
<1>5. \A u \in rated : Raw[u] \in Values
  <2>1. ASSUME NEW u \in rated PROVE Raw[u] \in Values
    <3>1. \E p \in S : UserOf(p) = u BY <1>1
    <3>2. (CHOOSE p \in S : UserOf(p) = u) \in S BY <3>1
    <3>3. QED BY <1>3, <1>4, <3>2
  <2>2. QED BY <2>1
<1>6. /\ ratings' = [u \in Users |-> IF u \in rated
                                    THEN Append(ratings[u], NewRating(r, u, Raw[u]))
                                    ELSE ratings[u]]
      /\ profile' = SaveProfiles(rated, ratings')
      /\ events' = [u \in Users |->
                      IF u \in rated THEN events[u] \o AppendRatingEvents(profile[u], profile'[u])
                      ELSE events[u]]
  BY <1>1, <1>4 DEF Submit
<1>7. profile' = [u \in Users |-> IF u \in rated THEN RecomputeProjection(profile[u], ratings'[u])
                                  ELSE profile[u]]
  BY <1>6 DEF SaveProfiles
<1>8. ASSUME NEW u \in rated PROVE RatesUser(r, u)
  <2>1. u \in Users BY <1>3
  <2>2. profile[u].state # "NONE" BY <1>1, <1>2
  <2>3. ratings'[u] = Append(ratings[u], NewRating(r, u, Raw[u])) BY <1>6, <2>1
  <2>4. \E v \in Values : ratings'[u] = Append(ratings[u], NewRating(r, u, v)) BY <1>5, <2>3
  <2>5. profile'[u] = RecomputeProjection(profile[u], ratings'[u]) BY <1>7, <2>1
  <2>6. events'[u] = events[u] \o AppendRatingEvents(profile[u], profile'[u]) BY <1>6, <2>1
  <2>7. QED BY <2>2, <2>4, <2>5, <2>6 DEF RatesUser
<1>9. ASSUME NEW u \in Users \ rated PROVE LeavesAlone(u) BY <1>6, <1>7 DEF LeavesAlone
<1>10. StaysOfUsers
  <2>1. ratings' = [u \in Users |-> ratings'[u]] BY <1>6
  <2>2. profile' = [u \in Users |-> profile'[u]] BY <1>7
  <2>3. events' = [u \in Users |-> events'[u]] BY <1>6
  <2>4. QED BY <2>1, <2>2, <2>3 DEF StaysOfUsers
<1>11. Rates(r, rated) BY <1>8, <1>9, <1>10 DEF Rates
<1>12. QED BY <1>3, <1>11

\* What the new rating of a user does to the profile, the ratings and the events.
LEMMA RatedAdvances ==
  ASSUME SkillAssumption, IInv, NEW r \in Rooms, NEW rated \in SUBSET Users, Rates(r, rated),
         NEW u \in rated
  PROVE  /\ Advances(profile[u], profile'[u], ratings[u], ratings'[u])
         /\ ratings'[u] \in Seq(SkillRatings) /\ events'[u] \in Seq(Announcement)
<1>1. /\ u \in Users /\ profile[u] \in Profiles /\ ratings[u] \in Seq(SkillRatings)
      /\ events[u] \in Seq(Announcement) /\ MadeOf(profile[u], ratings[u])
  BY DEF IInv, TypeOK, ProfilesAreMade
<1>0. RatesUser(r, u) BY DEF Rates
<1>2. PICK v \in Values : ratings'[u] = Append(ratings[u], NewRating(r, u, v))
  BY <1>0 DEF RatesUser
<1>3. /\ profile[u].state # "NONE"
      /\ profile'[u] = RecomputeProjection(profile[u], ratings'[u])
      /\ events'[u] = events[u] \o AppendRatingEvents(profile[u], profile'[u])
  BY <1>0 DEF RatesUser
<1>4. v \in Int
  <2>1. Values \subseteq {50 * k : k \in 2 .. 20} BY DEF SkillAssumption
  <2>2. QED BY <2>1
<1>5. profile[u].score \in Int \cup {Nil} BY <1>1 DEF Profiles
<1>6. PICK e \in Int : e = EffectiveRatingForScore(v, profile[u].score)
  <2>1. PICK prior \in Int \cup {Nil} : prior = profile[u].score BY <1>5
  <2>2. EffectiveRatingForScore(v, prior) \in Int BY <1>4, EffectiveBetween
  <2>3. QED BY <2>1, <2>2
<1>7. PICK x : x = NewRating(r, u, v) OBVIOUS
<1>8. x = [room |-> r, rater |-> HostOf[r], raw |-> v, effective |-> e]
  BY <1>6, <1>7 DEF NewRating
<1>9. HostOf[r] \in Users BY DEF SkillAssumption
<1>10. x \in SkillRatings /\ x.raw = v /\ x.effective = e BY <1>4, <1>8, <1>9 DEF SkillRatings
<1>11. PICK bigger : bigger = Append(ratings[u], x) OBVIOUS
<1>12. Grown(ratings[u], x, bigger) BY <1>1, <1>10, <1>11, Appending
<1>13. x.effective = EffectiveRatingForScore(x.raw, profile[u].score) BY <1>6, <1>10
<1>14. Advances(profile[u], RecomputeProjection(profile[u], bigger), ratings[u], bigger)
  <2>1. PICK before \in Profiles, list \in Seq(SkillRatings) :
          before = profile[u] /\ list = ratings[u]
    BY <1>1
  <2>2. Advances(before, RecomputeProjection(before, bigger), list, bigger)
    BY <1>1, <1>3, <1>10, <1>12, <1>13, <2>1, RatingAdvances
  <2>3. QED BY <2>1, <2>2
<1>15. ratings'[u] = bigger BY <1>2, <1>7, <1>11
<1>16. bigger \in Seq(SkillRatings) BY <1>12 DEF Grown
<1>17. Advances(profile[u], profile'[u], ratings[u], ratings'[u]) BY <1>3, <1>14, <1>15
<1>18. profile'[u].tier \in Tiers \cup {Nil} BY <1>17 DEF Advances, Profiles
<1>19. events'[u] \in Seq(Announcement)
  <2>1. PICK told \in Seq(Announcement) : told = AppendRatingEvents(profile[u], profile'[u])
    BY <1>18, EventsAreAnnounced
  <2>2. events[u] \o told \in Seq(Announcement) BY <1>1, ConcatProperties
  <2>3. QED BY <1>3, <2>1, <2>2
<1>20. QED BY <1>15, <1>16, <1>17, <1>19

\* A submission advances the profiles it is for and completes no room.
LEMMA SubmitKeeps ==
  ASSUME SkillAssumption, IInv, NEW r \in Rooms, NEW S \in SUBSET Persons,
         NEW given \in [S -> Values], Submit(r, given)
  PROVE  Keeps
<1>1. PICK rated \in SUBSET Users : Rates(r, rated) BY SubmitRates
<1>2. TypeOK /\ UNCHANGED <<room, seat, claimedBy>> BY DEF IInv, Submit
<1>3. ASSUME NEW u \in Users
      PROVE  /\ MadeOf(profile'[u], ratings'[u]) /\ profile'[u] \in Profiles
             /\ profile[u].state # "NONE" => profile'[u].state # "NONE"
             /\ profile'[u].matches = profile[u].matches
             /\ ratings'[u] \in Seq(SkillRatings) /\ events'[u] \in Seq(Announcement)
             /\ profile[u].tier # Nil /\ profile'[u].tier # profile[u].tier =>
                  profile'[u].changedAt > profile[u].changedAt + MinSinceChange
  <2>1. CASE u \in rated
    <3>1. /\ Advances(profile[u], profile'[u], ratings[u], ratings'[u])
          /\ ratings'[u] \in Seq(SkillRatings) /\ events'[u] \in Seq(Announcement)
      BY <1>1, <2>1, RatedAdvances
    <3>2. QED BY <3>1 DEF Advances
  <2>2. CASE u \notin rated
    <3>1. ratings'[u] = ratings[u] /\ profile'[u] = profile[u] /\ events'[u] = events[u]
      BY <1>1, <2>2 DEF Rates, LeavesAlone
    <3>2. QED BY <1>2, <3>1 DEF IInv, TypeOK, ProfilesAreMade
  <2>3. QED BY <2>1, <2>2
<1>4. TypeOK'
  <2>1. ratings' \in [Users -> Seq(SkillRatings)] BY <1>1, <1>3 DEF Rates, StaysOfUsers
  <2>2. profile' \in [Users -> Profiles] BY <1>1, <1>3 DEF Rates, StaysOfUsers
  <2>3. events' \in [Users -> Seq(Announcement)] BY <1>1, <1>3 DEF Rates, StaysOfUsers
  <2>4. QED BY <1>2, <2>1, <2>2, <2>3 DEF TypeOK
<1>5. ProfilesAreMade' BY <1>3 DEF ProfilesAreMade
<1>6. Quiet BY <1>2, <1>3 DEF Quiet
<1>7. Cool BY <1>3 DEF Cool
<1>8. QED BY <1>4, <1>5, <1>6, <1>7 DEF Keeps

\* Another match leaves a profile made of the same ratings.
LEMMA OneMoreMatch ==
  ASSUME NEW prof \in Profiles, prof.state # "NONE", NEW list, MadeOf(prof, list),
         NEW more, more = [prof EXCEPT !.matches = @ + 1]
  PROVE  /\ more \in Profiles /\ MadeOf(more, list)
         /\ more.matches = prof.matches + 1 /\ more.state = prof.state
         /\ more.tier = prof.tier
<1>1. prof # NoProfile BY DEF NoProfile
<1>2. prof.matches \in Nat /\ prof.matches + 1 \in Nat BY DEF Profiles
<1>3. more \in Profiles BY <1>2 DEF Profiles
<1>4. /\ more.matches = prof.matches + 1 /\ more.state = prof.state /\ more.tier = prof.tier
      /\ more.score = prof.score /\ more.valid = prof.valid /\ more.raters = prof.raters
      /\ more.changedAt = prof.changedAt
  BY DEF Profiles
<1>5. MadeOf(more, list) BY <1>1, <1>4 DEF MadeOf
<1>6. QED BY <1>3, <1>4, <1>5

\* The matches of those present in a room that completes are one more, and so are
\* the rooms they played in; nobody is present there without a profile.
LEMMA CompleteRoomKeeps ==
  ASSUME SkillAssumption, IInv, NEW r \in Rooms, CompleteRoom(r)
  PROVE  TypeOK' /\ ProfilesAreMade' /\ PresentAreKnown' /\ MatchesArePlayed' /\ Cool
<1>1. TypeOK /\ ProfilesAreMade BY DEF IInv
<1>2. /\ room[r] = "IN_PROGRESS" /\ room' = [room EXCEPT ![r] = "COMPLETED"]
      /\ AssertCompletionRatingsSatisfied(r) /\ profile' = IncrementCompletedMatchCount(r)
      /\ UNCHANGED <<seat, claimedBy, ratings, events>>
  BY DEF CompleteRoom
<1>3. PICK here : here = {u \in Users : \E p \in Persons : seat[<<r, p>>] = "PRESENT"
                                                             /\ Identity(claimedBy, p) = u}
  OBVIOUS
<1>4. ASSUME NEW p \in Persons, seat[<<r, p>>] = "PRESENT"
      PROVE  /\ Identity(claimedBy, p) \in here
             /\ profile[Identity(claimedBy, p)].state # "NONE"
  <2>1. p \in Present(r) BY <1>4 DEF Present
  <2>2. HasProfile(UserOf(p)) BY <1>2, <2>1 DEF AssertCompletionRatingsSatisfied
  <2>3. UserOf(p) # Nil /\ profile[UserOf(p)].state # "NONE" BY <2>2 DEF HasProfile
  <2>4. UserOf(p) = Identity(claimedBy, p) BY DEF UserOf, Identity
  <2>5. p \in Users \cup Guests BY DEF Persons
  <2>6. Identity(claimedBy, p) \in Users BY <1>1, <2>3, <2>4, <2>5 DEF Identity, TypeOK
  <2>7. QED BY <1>3, <1>4, <2>3, <2>4, <2>6
<1>5. ASSUME NEW u \in here PROVE u \in Users /\ profile[u].state # "NONE"
  <2>1. PICK p \in Persons : seat[<<r, p>>] = "PRESENT" /\ Identity(claimedBy, p) = u BY <1>3
  <2>2. profile[Identity(claimedBy, p)].state # "NONE" BY <1>4, <2>1
  <2>3. QED BY <1>3, <2>1, <2>2
<1>6. ASSUME NEW u \in Users
      PROVE  profile'[u] = IF u \in here THEN [profile[u] EXCEPT !.matches = @ + 1]
                           ELSE profile[u]
  <2>1. (\E p \in Present(r) : UserOf(p) = u) <=> u \in here
    BY <1>3 DEF Present, UserOf, Identity
  <2>2. profile'[u] = IF HasProfile(u) /\ \E p \in Present(r) : UserOf(p) = u
                      THEN [profile[u] EXCEPT !.matches = @ + 1] ELSE profile[u]
    BY <1>2 DEF IncrementCompletedMatchCount
  <2>3. u \in here => HasProfile(u)
    <3>1. u # Nil BY DEF SkillAssumption, Persons
    <3>2. QED BY <1>5, <3>1 DEF HasProfile
  <2>4. QED BY <2>1, <2>2, <2>3
<1>7. ASSUME NEW u \in Users
      PROVE  /\ profile'[u] \in Profiles /\ MadeOf(profile'[u], ratings[u])
             /\ profile'[u].matches = IF u \in here THEN profile[u].matches + 1
                                      ELSE profile[u].matches
             /\ profile'[u].state = profile[u].state /\ profile'[u].tier = profile[u].tier
  <2>1. profile[u] \in Profiles /\ MadeOf(profile[u], ratings[u])
    BY <1>1 DEF TypeOK, ProfilesAreMade
  <2>2. CASE u \in here
    <3>1. PICK prof \in Profiles : prof = profile[u] BY <2>1
    <3>2. profile'[u] = [prof EXCEPT !.matches = @ + 1] BY <1>6, <2>2, <3>1
    <3>3. prof.state # "NONE" /\ MadeOf(prof, ratings[u]) BY <1>5, <2>1, <2>2, <3>1
    <3>4. PICK more : more = [prof EXCEPT !.matches = @ + 1] OBVIOUS
    <3>5. /\ more \in Profiles /\ MadeOf(more, ratings[u])
          /\ more.matches = prof.matches + 1 /\ more.state = prof.state
          /\ more.tier = prof.tier
      BY <3>3, <3>4, OneMoreMatch
    <3>6. QED BY <2>2, <3>1, <3>2, <3>4, <3>5
  <2>3. CASE u \notin here BY <1>6, <2>1, <2>3
  <2>4. QED BY <2>2, <2>3
<1>8. TypeOK'
  <2>1. profile' = [u \in Users |-> profile'[u]] BY <1>2 DEF IncrementCompletedMatchCount
  <2>2. profile' \in [Users -> Profiles] BY <1>7, <2>1
  <2>3. QED BY <1>1, <1>2, <2>2 DEF TypeOK
<1>9. ProfilesAreMade' BY <1>2, <1>7 DEF ProfilesAreMade
<1>10. PresentAreKnown'
  <2>1. ASSUME NEW q \in Rooms, room'[q] = "COMPLETED", NEW p \in Persons,
               seat'[<<q, p>>] = "PRESENT"
        PROVE  /\ Identity(claimedBy', p) \in Users
               /\ profile'[Identity(claimedBy', p)].state # "NONE"
    <3>1. PICK u : u = Identity(claimedBy, p) /\ u = Identity(claimedBy', p) BY <1>2
    <3>2. u \in Users /\ profile[u].state # "NONE"
      <4>1. CASE q = r BY <1>2, <1>4, <1>5, <2>1, <3>1, <4>1
      <4>2. CASE q # r
        <5>1. room[q] = "COMPLETED" BY <1>1, <1>2, <2>1, <4>2 DEF TypeOK
        <5>2. QED BY <1>2, <2>1, <3>1, <5>1 DEF IInv, PresentAreKnown
      <4>3. QED BY <4>1, <4>2
    <3>3. profile'[u].state # "NONE" BY <1>7, <3>2
    <3>4. QED BY <3>1, <3>2, <3>3
  <2>2. QED BY <2>1 DEF PresentAreKnown

<1>11. MatchesArePlayed'
  <2>1. ASSUME NEW u \in Users
        PROVE  profile'[u].matches = InitialProfile[u].matches
                                       + Cardinality(Played(room', seat', claimedBy', u))
    <3>1. PICK before : before = Played(room, seat, claimedBy, u) OBVIOUS
    <3>2. PICK after : after = Played(room', seat', claimedBy', u) OBVIOUS
    <3>3. before \in SUBSET Rooms BY <3>1 DEF Played
    <3>4. IsFiniteSet(Rooms) BY DEF SkillAssumption
    <3>5. IsFiniteSet(before) BY <3>3, <3>4, FS_Subset
    <3>6. Cardinality(before) \in Nat BY <3>5, FS_CardinalityType
    <3>7. r \notin before BY <1>2, <3>1 DEF Played
    <3>8. after = IF u \in here THEN before \cup {r} ELSE before
      <4>1. ASSUME NEW q \in Rooms
            PROVE  q \in after <=> q \in before \/ (q = r /\ u \in here)
        <5>1. PICK there : there = {v \in Users : \E p \in Persons :
                                     seat[<<q, p>>] = "PRESENT" /\ Identity(claimedBy, p) = v}
          OBVIOUS
        <5>2. q \in before <=> room[q] = "COMPLETED" /\ u \in there BY <3>1, <5>1 DEF Played
        <5>3. q \in after <=> room'[q] = "COMPLETED" /\ u \in there
          <6>1. q \in after <=> room'[q] = "COMPLETED" /\ \E p \in Persons :
                                  seat'[<<q, p>>] = "PRESENT" /\ Identity(claimedBy', p) = u
            BY <3>2 DEF Played
          <6>2. seat' = seat /\ claimedBy' = claimedBy BY <1>2
          <6>3. QED BY <5>1, <6>1, <6>2
        <5>4. q = r => there = here BY <1>3, <5>1
        <5>5. room'[q] = "COMPLETED" <=> room[q] = "COMPLETED" \/ q = r BY <1>1, <1>2 DEF TypeOK
        <5>6. QED BY <5>2, <5>3, <5>4, <5>5, <1>2
      <4>2. after \in SUBSET Rooms BY <3>2 DEF Played
      <4>3. CASE u \in here
        <5>1. after = before \cup {r} BY <3>3, <4>1, <4>2, <4>3
        <5>2. QED BY <4>3, <5>1
      <4>4. CASE u \notin here
        <5>1. \A q \in Rooms : q \in after <=> q \in before BY <4>1, <4>4
        <5>2. after = before BY <3>3, <4>2, <5>1
        <5>3. QED BY <4>4, <5>2
      <4>5. QED BY <4>3, <4>4
    <3>9. Cardinality(after) = IF u \in here THEN Cardinality(before) + 1 ELSE Cardinality(before)
      <4>1. Cardinality(before \cup {r}) = Cardinality(before) + 1 BY <3>5, <3>7, FS_AddElement
      <4>2. QED BY <3>8, <4>1
    <3>10. profile[u].matches = InitialProfile[u].matches + Cardinality(before)
      BY <3>1 DEF IInv, MatchesArePlayed
    <3>11. InitialProfile[u].matches \in Nat BY InitialAssumption DEF InitialAssumption, Profiles
    <3>12. profile'[u].matches = InitialProfile[u].matches + Cardinality(after)
      BY <1>7, <3>6, <3>9, <3>10, <3>11
    <3>13. QED BY <3>2, <3>12
  <2>2. QED BY <2>1 DEF MatchesArePlayed
<1>12. Cool BY <1>7 DEF Cool
<1>13. QED BY <1>8, <1>9, <1>10, <1>11, <1>12

-----------------------------------------------------------------------------
(* The theorems. *)

\* Every step keeps the invariant, and the tiers cool.
LEMMA StepKeeps ==
  ASSUME SkillAssumption, IInv, [Next]_vars
  PROVE  IInv' /\ Cool
<1>1. ASSUME Keeps PROVE IInv' /\ Cool
  <2>1. PresentAreKnown' /\ MatchesArePlayed' BY <1>1, QuietStep DEF Keeps
  <2>2. QED BY <1>1, <2>1 DEF Keeps, IInv
<1>2. CASE UNCHANGED vars
  <2>1. UNCHANGED <<room, seat, claimedBy, profile, ratings, events>> BY <1>2 DEF vars
  <2>2. TypeOK' BY <2>1 DEF IInv, TypeOK
  <2>3. Quiet BY <2>1 DEF Quiet
  <2>4. QED BY <1>1, <2>1, <2>2, <2>3, Untouched DEF Keeps
<1>3. ASSUME NEW u \in Users, CreateUser(u) PROVE IInv' /\ Cool
  <2>1. Keeps BY <1>3, CreateUserKeeps
  <2>2. QED BY <1>1, <2>1
<1>4. ASSUME NEW r \in Rooms, StartRoom(r) PROVE IInv' /\ Cool
  <2>1. Keeps BY <1>4, StartRoomKeeps
  <2>2. QED BY <1>1, <2>1
<1>5. ASSUME NEW r \in Rooms, CompleteRoom(r) PROVE IInv' /\ Cool
  BY <1>5, CompleteRoomKeeps DEF IInv
<1>6. ASSUME NEW r \in Rooms, SubmitBatch(r) PROVE IInv' /\ Cool
  <2>1. PICK S \in SUBSET Present(r) : \E given \in [S -> Values] : Submit(r, given)
    BY <1>6 DEF SubmitBatch
  <2>2. PICK given \in [S -> Values] : Submit(r, given) BY <2>1
  <2>3. S \in SUBSET Persons BY <2>1 DEF Present
  <2>4. Keeps BY <2>2, <2>3, SubmitKeeps
  <2>5. QED BY <1>1, <2>4
<1>7. ASSUME NEW r \in Rooms, NEW p \in Persons, NEW value \in Values, SubmitRating(r, p, value)
      PROVE  IInv' /\ Cool
  <2>1. PICK given : given = [q \in {p} |-> value] OBVIOUS
  <2>2. {p} \in SUBSET Persons /\ given \in [{p} -> Values] BY <2>1
  <2>3. Submit(r, given) BY <1>7, <2>1 DEF SubmitRating
  <2>4. Keeps BY <2>2, <2>3, SubmitKeeps
  <2>5. QED BY <1>1, <2>4
<1>8. ASSUME NEW r \in Rooms, NEW p \in Persons, NEW next \in {"PRESENT", "NO_SHOW"},
             MarkAttendance(r, p, next)
      PROVE  IInv' /\ Cool
  <2>1. Keeps BY <1>8, MarkAttendanceKeeps
  <2>2. QED BY <1>1, <2>1
<1>9. ASSUME NEW g \in Guests, NEW u \in Claimers, ClaimGuest(g, u) PROVE IInv' /\ Cool
  <2>1. Keeps BY <1>9, ClaimGuestKeeps
  <2>2. QED BY <1>1, <2>1
<1>10. QED BY <1>2, <1>3, <1>4, <1>5, <1>6, <1>7, <1>8, <1>9 DEF Next

\* The invariant holds in every reachable state.
LEMMA Invariance == Spec => []IInv
<1>1. Init => IInv BY SkillAssumption, InitialAssumption, InitInv
<1>2. IInv /\ [Next]_vars => IInv' BY SkillAssumption, StepKeeps
<1>3. QED BY <1>1, <1>2, PTL DEF Spec

\* Each variable is of its kind, whatever the users, rooms and constants: a score is a
\* number or there is none, a tier is one there is, and every rating counts for a number.
THEOREM TypeCorrect == Spec => []TypeOK
<1>1. IInv => TypeOK BY DEF IInv
<1>2. QED BY <1>1, Invariance, PTL

\* A profile made by its ratings is one the reconciler has nothing to say of.
LEMMA MadeProfilesRest ==
  ASSUME SkillAssumption, IInv
  PROVE  ProfilesRestOnRatings
<1>1. ASSUME NEW u \in Users, HasProfile(u)
      PROVE  /\ profile[u].valid = Len(ratings[u])
             /\ profile[u].raters = Cardinality({ratings[u][i].rater : i \in DOMAIN ratings[u]})
             /\ ratings[u] = <<>> => /\ profile[u].state = "UNRANKED"
                                     /\ profile[u].score = Nil /\ profile[u].tier = Nil
             /\ profile[u].state \in {"RANKED", "TOP_TIER_LOCKED"} =>
                  profile[u].score # Nil /\ profile[u].tier # Nil
  <2>1. MadeOf(profile[u], ratings[u]) BY DEF IInv, ProfilesAreMade
  <2>2. profile[u] # NoProfile BY <1>1 DEF HasProfile, NoProfile
  <2>3. /\ CalibrationRequired \in Nat \ {0} /\ Nil \notin Int /\ Tiers \subseteq Int
    BY DEF SkillAssumption, Top
  <2>4. ratings[u] = <<>> => Len(ratings[u]) = 0 OBVIOUS
  <2>5. /\ profile[u].valid = Len(ratings[u]) /\ profile[u].raters = Raters(ratings[u])
    BY <2>1 DEF MadeOf
  <2>6. ratings[u] = <<>> => /\ profile[u].state = "UNRANKED"
                             /\ profile[u].score = Nil /\ profile[u].tier = Nil
    BY <2>1, <2>2, <2>3, <2>4 DEF MadeOf
  <2>7. profile[u].state \in {"RANKED", "TOP_TIER_LOCKED"} =>
          profile[u].score # Nil /\ profile[u].tier # Nil
    <3>1. profile[u].state \in {"RANKED", "TOP_TIER_LOCKED"} =>
            profile[u].score \in Int /\ profile[u].tier \in Tiers
      BY <2>1, <2>2 DEF MadeOf
    <3>2. Nil \notin Int /\ Nil \notin Tiers BY <2>3
    <3>3. PICK score : score = profile[u].score OBVIOUS
    <3>4. PICK tier : tier = profile[u].tier OBVIOUS
    <3>5. score \in Int => score # Nil BY <3>2
    <3>6. tier \in Tiers => tier # Nil BY <3>2
    <3>7. QED BY <3>1, <3>3, <3>4, <3>5, <3>6, Zenon
  <2>8. QED BY <2>5, <2>6, <2>7 DEF Raters
<1>2. ASSUME NEW u \in CollectSkillFindings PROVE FALSE
  <2>1. u \in Users /\ HasProfile(u) BY <1>2 DEF CollectSkillFindings
  <2>2. \/ profile[u].valid # Len(ratings[u])
        \/ profile[u].raters # Cardinality({ratings[u][i].rater : i \in DOMAIN ratings[u]})
        \/ /\ ratings[u] = <<>>
           /\ ~ (profile[u].state = "UNRANKED" /\ profile[u].score = Nil /\ profile[u].tier = Nil)
        \/ /\ ratings[u] # <<>> /\ profile[u].state \in {"RANKED", "TOP_TIER_LOCKED"}
           /\ profile[u].score = Nil \/ profile[u].tier = Nil
    BY <1>2 DEF CollectSkillFindings
  <2>3. /\ profile[u].valid = Len(ratings[u])
        /\ profile[u].raters = Cardinality({ratings[u][i].rater : i \in DOMAIN ratings[u]})
    BY <1>1, <2>1
  <2>4. ratings[u] = <<>> => /\ profile[u].state = "UNRANKED"
                             /\ profile[u].score = Nil /\ profile[u].tier = Nil
    BY <1>1, <2>1
  <2>5. profile[u].state \in {"RANKED", "TOP_TIER_LOCKED"} =>
          profile[u].score # Nil /\ profile[u].tier # Nil
    BY <1>1, <2>1
  <2>6. QED BY <2>2, <2>3, <2>4, <2>5, Zenon
<1>3. CollectSkillFindings = {} BY <1>2
<1>4. QED BY <1>3 DEF ProfilesRestOnRatings

\* However ratings, batches, claims and new accounts interleave, the reconciler that
\* counts every player's ratings again has nothing to report.
THEOREM ProfilesRest == Spec => []ProfilesRestOnRatings
<1>1. IInv => ProfilesRestOnRatings BY SkillAssumption, MadeProfilesRest
<1>2. QED BY <1>1, Invariance, PTL

\* A profile made by its ratings has a score within them.
LEMMA MadeScoresWithin ==
  ASSUME SkillAssumption, IInv
  PROVE  ScoreWithinRatings
<1>1. ASSUME NEW u \in Users, profile[u].score # Nil
      PROVE  WithinGiven(profile[u].score, ratings[u])
  <2>1. MadeOf(profile[u], ratings[u]) BY DEF IInv, ProfilesAreMade
  <2>2. profile[u] # NoProfile BY <1>1 DEF NoProfile
  <2>3. QED BY <1>1, <2>1, <2>2 DEF MadeOf
<1>2. QED BY <1>1 DEF ScoreWithinRatings

\* Whatever is trimmed, weighted, capped and rounded, no score is outside of what hosts
\* have rated the player, for every window, cap and number of ratings.
THEOREM ScoresStayWithinRatings == Spec => []ScoreWithinRatings
<1>1. IInv => ScoreWithinRatings BY SkillAssumption, MadeScoresWithin
<1>2. QED BY <1>1, Invariance, PTL

\* The rooms a user played in are those he was present in.
LEMMA MatchesPlayedAreCompleted ==
  ASSUME IInv
  PROVE  MatchesAreCompletedRooms
<1>1. ASSUME NEW u \in Users
      PROVE  Played(room, seat, claimedBy, u)
               = {r \in Rooms : room[r] = "COMPLETED" /\ PlayedIn(u, r)}
  <2>1. \A r \in Rooms : PlayedIn(u, r) <=>
          \E p \in Persons : seat[<<r, p>>] = "PRESENT" /\ Identity(claimedBy, p) = u
    BY DEF PlayedIn, Present, UserOf, Identity
  <2>2. QED BY <2>1 DEF Played
<1>2. QED BY <1>1 DEF IInv, MatchesArePlayed, MatchesAreCompletedRooms

\* Completed matches are the completed rooms a user was present in, also of the guests he
\* claimed, whenever he claimed them.
THEOREM MatchesAreCounted == Spec => []MatchesAreCompletedRooms
<1>1. IInv => MatchesAreCompletedRooms BY MatchesPlayedAreCompleted
<1>2. QED BY <1>1, Invariance, PTL

\* A tier that changes has stood for its cool-down.
THEOREM TiersCool == Spec => TiersCoolDown
<1>1. IInv /\ [Next]_vars => [\A u \in Users :
        profile[u].tier # Nil /\ profile'[u].tier # profile[u].tier =>
          profile'[u].changedAt > profile[u].changedAt + MinSinceChange]_vars
  BY SkillAssumption, StepKeeps DEF Cool
<1>2. QED BY <1>1, Invariance, PTL DEF Spec, TiersCoolDown

-----------------------------------------------------------------------------
(* Who follows the events knows the rank. *)

\* The types of events that name a tier.
RankTypes == {"PLAYER_INITIAL_RANK_PUBLISHED", "PLAYER_RANK_PROMOTED", "PLAYER_RANK_DEMOTED"}

\* The tier told is that of the latest announcement before a position.
LEMMA LatestTold ==
  ASSUME NEW n \in Nat, NEW s, DOMAIN s = 1 .. n, NEW first, NEW i \in 1 .. (n + 1)
  PROVE  \/ /\ \A j \in RankAnnouncements(s) : ~ (j < i)
            /\ TierTold(s, first, i) = first
         \/ \E k \in RankAnnouncements(s) :
              /\ k < i /\ \A j \in RankAnnouncements(s) : j < i => j <= k
              /\ TierTold(s, first, i) = s[k].tier
<1>1. PICK earlier : earlier = {j \in RankAnnouncements(s) : j < i} OBVIOUS
<1>2. TierTold(s, first, i) = IF earlier = {} THEN first ELSE s[Max(earlier)].tier
  BY <1>1 DEF TierTold
<1>3. CASE earlier = {} BY <1>1, <1>2, <1>3
<1>4. CASE earlier # {}
  <2>1. earlier \in SUBSET (1 .. n) BY <1>1 DEF RankAnnouncements
  <2>2. PICK k : k = Max(earlier) OBVIOUS
  <2>3. k \in earlier /\ \A j \in earlier : j <= k BY <1>4, <2>1, <2>2, GreatestOf
  <2>4. k \in RankAnnouncements(s) /\ k < i BY <1>1, <2>3
  <2>5. \A j \in RankAnnouncements(s) : j < i => j <= k BY <1>1, <2>3
  <2>6. TierTold(s, first, i) = s[k].tier BY <1>2, <1>4, <2>2
  <2>7. QED BY <2>4, <2>5, <2>6
<1>5. QED BY <1>3, <1>4

\* An announcement after which none is before a position is the one told there.
LEMMA ToldBy ==
  ASSUME NEW n \in Nat, NEW s, DOMAIN s = 1 .. n, NEW first, NEW i \in 1 .. (n + 1),
         NEW k \in RankAnnouncements(s), k < i,
         \A j \in RankAnnouncements(s) : j < i => j <= k
  PROVE  TierTold(s, first, i) = s[k].tier
<1>1. k \in 1 .. n BY DEF RankAnnouncements
<1>2. PICK l \in RankAnnouncements(s) :
        /\ l < i /\ \A j \in RankAnnouncements(s) : j < i => j <= l
        /\ TierTold(s, first, i) = s[l].tier
  BY LatestTold
<1>3. l \in 1 .. n BY <1>2 DEF RankAnnouncements
<1>4. k <= l /\ l <= k BY <1>2
<1>5. k = l BY <1>1, <1>3, <1>4
<1>6. QED BY <1>2, <1>5

\* With none before a position, what was known first is known there.
LEMMA ToldNothing ==
  ASSUME NEW s, NEW first, NEW i, \A j \in RankAnnouncements(s) : ~ (j < i)
  PROVE  TierTold(s, first, i) = first
<1>1. {j \in RankAnnouncements(s) : j < i} = {} OBVIOUS
<1>2. QED BY <1>1 DEF TierTold

\* One event after another: positions of the second sequence come after the first.
Joins(s, t, n, m, w) ==
  /\ n \in Nat /\ m \in Nat /\ n = Len(s) /\ m = Len(t) /\ Len(w) = n + m
  /\ DOMAIN s = 1 .. n /\ DOMAIN t = 1 .. m /\ DOMAIN w = 1 .. (n + m)
  /\ \A i \in 1 .. n : w[i] = s[i]
  /\ \A j \in 1 .. m : w[n + j] = t[j]

\* A concatenation joins its parts.
LEMMA Joining ==
  ASSUME NEW s \in Seq(Announcement), NEW t \in Seq(Announcement)
  PROVE  \E n, m \in Nat : Joins(s, t, n, m, s \o t)
<1>1. PICK n \in Nat, m \in Nat : n = Len(s) /\ m = Len(t) OBVIOUS
<1>2. PICK w : w = s \o t OBVIOUS
<1>3. DOMAIN s = 1 .. n /\ DOMAIN t = 1 .. m BY <1>1
<1>4. w \in Seq(Announcement) /\ Len(w) = n + m BY <1>1, <1>2, ConcatProperties
<1>5. DOMAIN w = 1 .. (n + m) BY <1>4
<1>6. ASSUME NEW i \in 1 .. (n + m) PROVE w[i] = IF i <= n THEN s[i] ELSE t[i - n]
  BY <1>1, <1>2, ConcatProperties
<1>7. \A i \in 1 .. n : w[i] = s[i]
  <2>1. \A i \in 1 .. n : i \in 1 .. (n + m) /\ i <= n OBVIOUS
  <2>2. QED BY <1>6, <2>1
<1>8. \A j \in 1 .. m : w[n + j] = t[j]
  <2>1. ASSUME NEW j \in 1 .. m PROVE w[n + j] = t[j]
    <3>1. n + j \in 1 .. (n + m) /\ ~ (n + j <= n) /\ (n + j) - n = j OBVIOUS
    <3>2. QED BY <1>6, <3>1
  <2>2. QED BY <2>1
<1>9. Joins(s, t, n, m, w) BY <1>1, <1>3, <1>4, <1>5, <1>7, <1>8 DEF Joins
<1>10. QED BY <1>2, <1>9

\* The announcements of what is joined are those of the one and of the other.
LEMMA JoinedAnnouncements ==
  ASSUME NEW s, NEW t, NEW n, NEW m, NEW w, Joins(s, t, n, m, w)
  PROVE  /\ \A i \in 1 .. n : i \in RankAnnouncements(w) <=> i \in RankAnnouncements(s)
         /\ \A j \in 1 .. m : (n + j) \in RankAnnouncements(w) <=> j \in RankAnnouncements(t)
         /\ RankAnnouncements(s) \in SUBSET (1 .. n) /\ RankAnnouncements(t) \in SUBSET (1 .. m)
         /\ RankAnnouncements(w) \in SUBSET (1 .. (n + m))
<1>1. /\ n \in Nat /\ m \in Nat
      /\ DOMAIN s = 1 .. n /\ DOMAIN t = 1 .. m /\ DOMAIN w = 1 .. (n + m)
      /\ \A i \in 1 .. n : w[i] = s[i]
      /\ \A j \in 1 .. m : w[n + j] = t[j]
  BY DEF Joins
<1>2. \A i \in 1 .. n : i \in RankAnnouncements(w) <=> i \in RankAnnouncements(s)
  <2>1. ASSUME NEW i \in 1 .. n
        PROVE  i \in RankAnnouncements(w) <=> i \in RankAnnouncements(s)
    <3>1. i \in DOMAIN w /\ i \in DOMAIN s /\ w[i] = s[i] BY <1>1
    <3>2. QED BY <3>1 DEF RankAnnouncements
  <2>2. QED BY <2>1
<1>3. \A j \in 1 .. m : (n + j) \in RankAnnouncements(w) <=> j \in RankAnnouncements(t)
  <2>1. ASSUME NEW j \in 1 .. m
        PROVE  (n + j) \in RankAnnouncements(w) <=> j \in RankAnnouncements(t)
    <3>1. PICK k : k = n + j OBVIOUS
    <3>2. k \in DOMAIN w /\ j \in DOMAIN t /\ w[k] = t[j] BY <1>1, <3>1
    <3>3. k \in RankAnnouncements(w) <=> j \in RankAnnouncements(t)
      BY <3>2 DEF RankAnnouncements
    <3>4. QED BY <3>1, <3>3
  <2>2. QED BY <2>1
<1>4. QED BY <1>1, <1>2, <1>3 DEF RankAnnouncements

\* What the first one tells is told as before.
LEMMA ToldFirst ==
  ASSUME NEW s, NEW t, NEW n, NEW m, NEW w, Joins(s, t, n, m, w), NEW first,
         NEW i \in 1 .. (n + 1)
  PROVE  TierTold(w, first, i) = TierTold(s, first, i)
<1>1. /\ n \in Nat /\ m \in Nat /\ n + m \in Nat /\ i \in 1 .. (n + m + 1)
      /\ DOMAIN s = 1 .. n /\ DOMAIN w = 1 .. (n + m)
      /\ \A k \in 1 .. n : w[k] = s[k]
  BY DEF Joins
<1>2. /\ \A k \in 1 .. n : k \in RankAnnouncements(w) <=> k \in RankAnnouncements(s)
      /\ RankAnnouncements(s) \in SUBSET (1 .. n)
      /\ RankAnnouncements(w) \in SUBSET (1 .. (n + m))
  BY JoinedAnnouncements
<1>3. \A j \in RankAnnouncements(w) : j < i => j \in RankAnnouncements(s)
  <2>1. \A j \in 1 .. (n + m) : j < i => j \in 1 .. n BY <1>1
  <2>2. QED BY <1>2, <2>1
<1>4. CASE \A j \in RankAnnouncements(s) : ~ (j < i)
  <2>1. \A j \in RankAnnouncements(w) : ~ (j < i) BY <1>3, <1>4
  <2>2. TierTold(w, first, i) = first BY <2>1, ToldNothing
  <2>3. TierTold(s, first, i) = first BY <1>4, ToldNothing
  <2>4. QED BY <2>2, <2>3
<1>5. CASE ~ \A j \in RankAnnouncements(s) : ~ (j < i)
  <2>1. PICK k \in RankAnnouncements(s) :
          /\ k < i /\ \A j \in RankAnnouncements(s) : j < i => j <= k
          /\ TierTold(s, first, i) = s[k].tier
    BY <1>1, <1>5, LatestTold
  <2>2. k \in RankAnnouncements(w) /\ w[k] = s[k] BY <1>1, <1>2, <2>1
  <2>3. \A j \in RankAnnouncements(w) : j < i => j <= k BY <1>3, <2>1
  <2>4. TierTold(w, first, i) = w[k].tier BY <1>1, <2>1, <2>2, <2>3, ToldBy
  <2>5. QED BY <2>1, <2>2, <2>4
<1>6. QED BY <1>4, <1>5

\* A position of the second one.
After(n, i, p) == p = n + i

\* What the second one tells goes on from what the first one has told.
LEMMA ToldSecond ==
  ASSUME NEW s, NEW t, NEW n, NEW m, NEW w, Joins(s, t, n, m, w), NEW first,
         NEW i \in 1 .. (m + 1), NEW p, After(n, i, p), NEW q, After(n, 1, q)
  PROVE  TierTold(w, first, p) = TierTold(t, TierTold(s, first, q), i)
<1>0. PICK middle : middle = TierTold(s, first, n + 1) OBVIOUS
<1>1. /\ n \in Nat /\ m \in Nat /\ n + m \in Nat
      /\ DOMAIN s = 1 .. n /\ DOMAIN t = 1 .. m /\ DOMAIN w = 1 .. (n + m)
      /\ \A k \in 1 .. n : w[k] = s[k]
      /\ \A j \in 1 .. m : w[n + j] = t[j]
  BY DEF Joins
<1>2. /\ \A k \in 1 .. n : k \in RankAnnouncements(w) <=> k \in RankAnnouncements(s)
      /\ \A j \in 1 .. m : (n + j) \in RankAnnouncements(w) <=> j \in RankAnnouncements(t)
      /\ RankAnnouncements(s) \in SUBSET (1 .. n) /\ RankAnnouncements(t) \in SUBSET (1 .. m)
      /\ RankAnnouncements(w) \in SUBSET (1 .. (n + m))
  BY JoinedAnnouncements
<1>3. PICK o \in 1 .. (n + m + 1) : o = n + i BY <1>1
<1>4. ASSUME NEW j \in RankAnnouncements(w)
      PROVE  \/ j \in RankAnnouncements(s) /\ j \in 1 .. n
             \/ \E l \in RankAnnouncements(t) : j = n + l /\ l \in 1 .. m
  <2>1. j \in 1 .. (n + m) BY <1>2
  <2>2. CASE j <= n
    <3>1. j \in 1 .. n BY <1>1, <2>1, <2>2
    <3>2. QED BY <1>2, <3>1
  <2>3. CASE ~ (j <= n)
    <3>1. PICK l \in 1 .. m : j = n + l
      <4>1. j - n \in 1 .. m /\ j = n + (j - n) BY <1>1, <2>1, <2>3
      <4>2. QED BY <4>1
    <3>2. l \in RankAnnouncements(t) BY <1>2, <3>1
    <3>3. QED BY <3>1, <3>2
  <2>4. QED BY <2>2, <2>3
<1>5. ASSUME \A l \in RankAnnouncements(t) : ~ (l < i)
      PROVE  TierTold(w, first, o) = TierTold(t, middle, i)
  <2>1. TierTold(t, middle, i) = middle BY <1>5, ToldNothing
  <2>2. ASSUME NEW j \in RankAnnouncements(w), j < o
        PROVE  j \in RankAnnouncements(s) /\ j \in 1 .. n
    <3>1. ASSUME NEW l \in RankAnnouncements(t), j = n + l, l \in 1 .. m PROVE FALSE
      <4>1. l < i BY <1>1, <1>3, <2>2, <3>1
      <4>2. QED BY <1>5, <4>1
    <3>2. QED BY <1>4, <3>1
  <2>3. n + 1 \in 1 .. (n + 1) /\ \A k \in 1 .. n : k < n + 1 BY <1>1
  <2>4. CASE RankAnnouncements(s) = {}
    <3>1. middle = first BY <1>0, <2>4, ToldNothing
    <3>2. TierTold(w, first, o) = first BY <2>2, <2>4, ToldNothing
    <3>3. QED BY <1>0, <1>3, <2>1, <3>1, <3>2
  <2>5. CASE RankAnnouncements(s) # {}
    <3>1. \A j \in RankAnnouncements(s) : j < n + 1 BY <1>2, <2>3
    <3>2. PICK k \in RankAnnouncements(s) :
            /\ k < n + 1 /\ \A j \in RankAnnouncements(s) : j < n + 1 => j <= k
            /\ TierTold(s, first, n + 1) = s[k].tier
      BY <1>1, <2>3, <2>5, <3>1, LatestTold
    <3>3. k \in 1 .. n /\ k < o /\ k \in RankAnnouncements(w) /\ w[k] = s[k]
      BY <1>1, <1>2, <1>3, <3>2
    <3>4. \A j \in RankAnnouncements(w) : j < o => j <= k BY <2>2, <3>1, <3>2
    <3>5. TierTold(w, first, o) = w[k].tier BY <1>1, <1>3, <3>3, <3>4, ToldBy
    <3>6. QED BY <1>0, <1>3, <2>1, <3>2, <3>3, <3>5
  <2>6. QED BY <2>4, <2>5
<1>6. ASSUME NEW l \in RankAnnouncements(t), l < i
      PROVE  TierTold(w, first, o) = TierTold(t, middle, i)
  <2>1. PICK k \in RankAnnouncements(t) :
          /\ k < i /\ \A h \in RankAnnouncements(t) : h < i => h <= k
          /\ TierTold(t, middle, i) = t[k].tier
    BY <1>1, <1>6, LatestTold
  <2>2. PICK z : z = n + k OBVIOUS
  <2>3. k \in 1 .. m BY <1>2, <2>1
  <2>4. z \in RankAnnouncements(w) /\ w[z] = t[k] /\ z \in Int /\ z > n /\ z < o
    BY <1>1, <1>2, <1>3, <2>1, <2>2, <2>3
  <2>5. ASSUME NEW j \in RankAnnouncements(w), j < o PROVE j <= z
    <3>1. CASE j \in RankAnnouncements(s) /\ j \in 1 .. n BY <1>1, <2>4, <3>1
    <3>2. ASSUME NEW h \in RankAnnouncements(t), j = n + h, h \in 1 .. m PROVE j <= z
      <4>1. h < i BY <1>1, <1>3, <2>5, <3>2
      <4>2. h <= k BY <2>1, <4>1
      <4>3. QED BY <1>1, <2>2, <2>3, <3>2, <4>2
    <3>3. QED BY <1>4, <3>1, <3>2
  <2>6. TierTold(w, first, o) = w[z].tier BY <1>1, <1>3, <2>4, <2>5, ToldBy
  <2>7. QED BY <1>0, <1>3, <2>1, <2>4, <2>6
<1>7. TierTold(w, first, o) = TierTold(t, middle, i) BY <1>5, <1>6
<1>8. p = o /\ q = n + 1 BY <1>3 DEF After
<1>9. QED BY <1>0, <1>7, <1>8

\* An announcement says how the tier it names is reached.
Says(e, from) ==
  /\ e.type = "PLAYER_INITIAL_RANK_PUBLISHED" => from = Nil
  /\ e.type = "PLAYER_RANK_PROMOTED" => e.tier > from
  /\ e.type = "PLAYER_RANK_DEMOTED" => e.tier < from

\* Telling, announcement by announcement.
LEMMA TellsBySaying ==
  ASSUME NEW s, NEW first, NEW last
  PROVE  Tells(s, first, last) <=>
           /\ \A i \in RankAnnouncements(s) : Says(s[i], TierTold(s, first, i))
           /\ TierTold(s, first, Len(s) + 1) = last
BY DEF Tells, Says

\* Who follows what leads from one tier to a second and then what leads from there to
\* a third is led from the one to the third.
LEMMA TellsOn ==
  ASSUME NEW s \in Seq(Announcement), NEW t \in Seq(Announcement), NEW first, NEW middle,
         NEW last, Tells(s, first, middle), Tells(t, middle, last)
  PROVE  Tells(s \o t, first, last)
<1>1. PICK w : w = s \o t OBVIOUS
<1>2. PICK n \in Nat, m \in Nat : Joins(s, t, n, m, w) BY <1>1, Joining
<1>3. /\ n = Len(s) /\ m = Len(t) /\ Len(w) = n + m
      /\ \A i \in 1 .. n : w[i] = s[i]
      /\ \A j \in 1 .. m : w[n + j] = t[j]
  BY <1>2 DEF Joins
<1>4. /\ \A i \in 1 .. n : i \in RankAnnouncements(w) <=> i \in RankAnnouncements(s)
      /\ \A j \in 1 .. m : (n + j) \in RankAnnouncements(w) <=> j \in RankAnnouncements(t)
      /\ RankAnnouncements(w) \in SUBSET (1 .. (n + m))
  BY <1>2, JoinedAnnouncements
<1>0. PICK q : q = n + 1 /\ After(n, 1, q) BY DEF After
<1>5. /\ \A i \in RankAnnouncements(s) : Says(s[i], TierTold(s, first, i))
      /\ middle = TierTold(s, first, q)
  BY <1>0, <1>3, TellsBySaying
<1>6. /\ \A j \in RankAnnouncements(t) : Says(t[j], TierTold(t, middle, j))
      /\ TierTold(t, middle, m + 1) = last
  BY <1>3, TellsBySaying
<1>7. ASSUME NEW i \in RankAnnouncements(w) PROVE Says(w[i], TierTold(w, first, i))
  <2>1. i \in 1 .. (n + m) BY <1>4
  <2>2. CASE i <= n
    <3>1. i \in 1 .. n /\ i \in 1 .. (n + 1) BY <2>1, <2>2
    <3>2. i \in RankAnnouncements(s) /\ w[i] = s[i] BY <1>3, <1>4, <3>1
    <3>3. TierTold(w, first, i) = TierTold(s, first, i) BY <1>2, <3>1, ToldFirst
    <3>4. Says(s[i], TierTold(s, first, i)) BY <1>5, <3>2
    <3>5. QED BY <3>2, <3>3, <3>4
  <2>3. CASE ~ (i <= n)
    <3>1. PICK j \in 1 .. m : i = n + j
      <4>1. i - n \in 1 .. m /\ i = n + (i - n) BY <2>1, <2>3
      <4>2. QED BY <4>1
    <3>2. j \in 1 .. (m + 1) BY <3>1
    <3>3. j \in RankAnnouncements(t) /\ w[i] = t[j] BY <1>3, <1>4, <3>1
    <3>4. TierTold(w, first, i) = TierTold(t, middle, j)
      <4>1. After(n, j, i) /\ After(n, 1, q) BY <1>0, <3>1 DEF After
      <4>2. TierTold(w, first, i) = TierTold(t, TierTold(s, first, q), j)
        BY <1>2, <3>2, <4>1, ToldSecond
      <4>3. QED BY <1>5, <4>2
    <3>5. Says(t[j], TierTold(t, middle, j)) BY <1>6, <3>3
    <3>6. QED BY <3>1, <3>3, <3>4, <3>5
  <2>4. QED BY <2>2, <2>3
<1>8. TierTold(w, first, Len(w) + 1) = last
  <2>1. m + 1 \in 1 .. (m + 1) OBVIOUS
  <2>2. PICK p : p = n + (m + 1) OBVIOUS
  <2>3. TierTold(w, first, p) = TierTold(t, middle, m + 1)
    <3>1. After(n, m + 1, p) /\ After(n, 1, q) BY <1>0, <2>2 DEF After
    <3>2. TierTold(w, first, p) = TierTold(t, TierTold(s, first, q), m + 1)
      BY <1>2, <2>1, <3>1, ToldSecond
    <3>3. QED BY <1>5, <3>2
  <2>4. p = Len(w) + 1 BY <1>3, <2>2
  <2>5. QED BY <1>6, <2>3, <2>4
<1>9. Tells(w, first, last) BY <1>7, <1>8, TellsBySaying
<1>10. QED BY <1>1, <1>9

\* No event tells nothing.
LEMMA TellsNothing ==
  ASSUME NEW x
  PROVE  Tells(<<>>, x, x)
<1>1. PICK none : none = <<>> OBVIOUS
<1>2. DOMAIN none = {} /\ Len(none) = 0 BY <1>1
<1>3. RankAnnouncements(none) = {} BY <1>2 DEF RankAnnouncements
<1>4. TierTold(none, x, Len(none) + 1) = x BY <1>3, ToldNothing
<1>5. Tells(none, x, x) BY <1>3, <1>4, TellsBySaying
<1>6. QED BY <1>1, <1>5

\* One event tells the tier it names when it announces one, and else nothing.
LEMMA TellsOne ==
  ASSUME NEW e, NEW x
  PROVE  /\ e.type \notin RankTypes => Tells(<<e>>, x, x)
         /\ e.type \in RankTypes /\ Says(e, x) => Tells(<<e>>, x, e.tier)
<1>1. PICK one : one = <<e>> OBVIOUS
<1>2. DOMAIN one = 1 .. 1 /\ Len(one) = 1 /\ one[1] = e BY <1>1
<1>3. 1 \in 1 .. 1 /\ 1 + 1 = 2 /\ 2 \in 1 .. (1 + 1) /\ 1 \in Nat /\ \A i \in 1 .. 1 : i = 1
  OBVIOUS
<1>4. ASSUME e.type \notin RankTypes PROVE Tells(one, x, x)
  <2>1. RankAnnouncements(one) = {} BY <1>2, <1>3, <1>4 DEF RankAnnouncements, RankTypes
  <2>2. TierTold(one, x, Len(one) + 1) = x BY <2>1, ToldNothing
  <2>3. QED BY <2>1, <2>2, TellsBySaying
<1>5. ASSUME e.type \in RankTypes, Says(e, x) PROVE Tells(one, x, e.tier)
  <2>1. RankAnnouncements(one) = {1} BY <1>2, <1>3, <1>5 DEF RankAnnouncements, RankTypes
  <2>2. \A j \in RankAnnouncements(one) : ~ (j < 1) BY <2>1
  <2>3. TierTold(one, x, 1) = x BY <2>2, ToldNothing
  <2>4. \A j \in RankAnnouncements(one) : j < 2 => j <= 1 BY <2>1
  <2>5. 1 < 2 /\ 1 \in RankAnnouncements(one) BY <2>1
  <2>6. TierTold(one, x, 2) = one[1].tier
    <3>1. PICK n \in Nat : n = 1 OBVIOUS
    <3>2. PICK i \in 1 .. (n + 1) : i = 2 BY <3>1
    <3>3. DOMAIN one = 1 .. n BY <1>2, <3>1
    <3>4. PICK k \in RankAnnouncements(one) : k = 1 BY <2>5
    <3>5. k < i /\ \A j \in RankAnnouncements(one) : j < i => j <= k BY <2>4, <2>5, <3>2, <3>4
    <3>6. TierTold(one, x, i) = one[k].tier BY <3>3, <3>5, ToldBy
    <3>7. QED BY <3>2, <3>4, <3>6
  <2>7. QED BY <1>2, <1>3, <1>5, <2>1, <2>3, <2>6, TellsBySaying
<1>6. QED BY <1>1, <1>4, <1>5

\* The events of a submission: the first and no other says that there was one.
OneFirst(t) ==
  1 \in DOMAIN t /\ \A i \in DOMAIN t : t[i].type = "VALID_SKILL_RATING_SUBMITTED" <=> i = 1

\* Announcements of one submission that lead from one tier to another.
Chain(t, first, last) == t \in Seq(Announcement) /\ OneFirst(t) /\ Tells(t, first, last)

\* A link of such a chain.
Link(p, from, to) ==
  /\ p \in Seq(Announcement) /\ Tells(p, from, to)
  /\ \A i \in DOMAIN p : p[i].type # "VALID_SKILL_RATING_SUBMITTED"

\* A chain goes on with a link.
LEMMA ChainOn ==
  ASSUME NEW t, NEW p, NEW first, NEW middle, NEW last,
         Chain(t, first, middle), Link(p, middle, last)
  PROVE  Chain(t \o p, first, last)
<1>1. t \in Seq(Announcement) /\ p \in Seq(Announcement) BY DEF Chain, Link
<1>2. PICK w : w = t \o p OBVIOUS
<1>3. w \in Seq(Announcement) BY <1>1, <1>2, ConcatProperties
<1>4. Tells(w, first, last)
  <2>1. Tells(t, first, middle) /\ Tells(p, middle, last) BY DEF Chain, Link
  <2>2. QED BY <1>1, <1>2, <2>1, TellsOn
<1>5. PICK n \in Nat, m \in Nat : Joins(t, p, n, m, w) BY <1>1, <1>2, Joining
<1>6. /\ DOMAIN t = 1 .. n /\ DOMAIN p = 1 .. m /\ DOMAIN w = 1 .. (n + m)
      /\ \A i \in 1 .. n : w[i] = t[i]
      /\ \A j \in 1 .. m : w[n + j] = p[j]
  BY <1>5 DEF Joins
<1>7. /\ 1 \in 1 .. n
      /\ \A i \in 1 .. n : t[i].type = "VALID_SKILL_RATING_SUBMITTED" <=> i = 1
  BY <1>6 DEF Chain, OneFirst
<1>8. \A j \in 1 .. m : p[j].type # "VALID_SKILL_RATING_SUBMITTED" BY <1>6 DEF Link
<1>9. ASSUME NEW i \in 1 .. (n + m)
      PROVE  w[i].type = "VALID_SKILL_RATING_SUBMITTED" <=> i = 1
  <2>1. CASE i <= n
    <3>1. i \in 1 .. n BY <2>1
    <3>2. QED BY <1>6, <1>7, <3>1
  <2>2. CASE ~ (i <= n)
    <3>1. PICK j \in 1 .. m : i = n + j
      <4>1. i - n \in 1 .. m /\ i = n + (i - n) BY <2>2
      <4>2. QED BY <4>1
    <3>2. i # 1 BY <1>7, <2>2
    <3>3. w[i] = p[j] BY <1>6, <3>1
    <3>4. QED BY <1>8, <3>2, <3>3
  <2>3. QED BY <2>1, <2>2
<1>10. OneFirst(w)
  <2>1. 1 \in 1 .. (n + m) BY <1>7
  <2>2. QED BY <1>6, <1>9, <2>1 DEF OneFirst
<1>11. QED BY <1>2, <1>3, <1>4, <1>10 DEF Chain

\* Nothing is a link that leads nowhere.
LEMMA NoLink ==
  ASSUME NEW x
  PROVE  Link(<<>>, x, x)
<1>1. PICK none : none = <<>> OBVIOUS
<1>2. none \in Seq(Announcement) /\ DOMAIN none = {} BY <1>1
<1>3. Tells(none, x, x) BY <1>1, TellsNothing
<1>4. QED BY <1>1, <1>2, <1>3 DEF Link

\* One announcement is a link: to the tier it names when it is of a rank.
LEMMA OneLink ==
  ASSUME NEW e \in Announcement, e.type # "VALID_SKILL_RATING_SUBMITTED", NEW x
  PROVE  /\ e.type \notin RankTypes => Link(<<e>>, x, x)
         /\ e.type \in RankTypes /\ Says(e, x) => Link(<<e>>, x, e.tier)
<1>1. PICK one : one = <<e>> OBVIOUS
<1>2. one \in Seq(Announcement) /\ DOMAIN one = 1 .. 1 /\ one[1] = e BY <1>1
<1>3. \A i \in DOMAIN one : i = 1 BY <1>2
<1>4. \A i \in DOMAIN one : one[i].type # "VALID_SKILL_RATING_SUBMITTED" BY <1>2, <1>3
<1>5. /\ e.type \notin RankTypes => Tells(one, x, x)
      /\ e.type \in RankTypes /\ Says(e, x) => Tells(one, x, e.tier)
  BY <1>1, TellsOne
<1>6. QED BY <1>1, <1>2, <1>4, <1>5 DEF Link

\* An event of another type leads nowhere.
LEMMA QuietLink ==
  ASSUME NEW type \in EventTypes \ RankTypes, type # "VALID_SKILL_RATING_SUBMITTED",
         NEW after, after.tier \in Tiers \cup {Nil}, NEW x,
         NEW p \in {<<>>, <<[type |-> type, tier |-> after.tier]>>}
  PROVE  Link(p, x, x)
<1>1. PICK e : e = [type |-> type, tier |-> after.tier] OBVIOUS
<1>2. e \in Announcement /\ e.type = type BY <1>1 DEF Announcement
<1>3. Link(<<e>>, x, x) BY <1>2, OneLink
<1>4. Link(<<>>, x, x) BY NoLink
<1>5. p = <<>> \/ p = <<e>> BY <1>1
<1>6. QED BY <1>3, <1>4, <1>5

\* An announcement of a rank leads to the tier it names.
LEMMA RankLink ==
  ASSUME NEW type \in RankTypes, NEW after, after.tier \in Tiers \cup {Nil}, NEW x, NEW y, NEW p,
         \/ p = <<>> /\ y = x
         \/ /\ p = <<[type |-> type, tier |-> after.tier]>> /\ y = after.tier
            /\ Says([type |-> type, tier |-> after.tier], x)
  PROVE  Link(p, x, y)
<1>1. PICK e : e = [type |-> type, tier |-> after.tier] OBVIOUS
<1>2. e \in Announcement /\ e.type = type /\ e.tier = after.tier
  BY <1>1 DEF Announcement, EventTypes, RankTypes
<1>3. type # "VALID_SKILL_RATING_SUBMITTED" BY DEF RankTypes
<1>4. Says(e, x) => Link(<<e>>, x, e.tier) BY <1>2, <1>3, OneLink
<1>5. Link(<<>>, x, x) BY NoLink
<1>6. (p = <<>> /\ y = x) \/ (p = <<e>> /\ y = e.tier /\ Says(e, x)) BY <1>1, <1>2
<1>7. QED BY <1>4, <1>5, <1>6

\* What a rating makes known leads from the tier before it to the tier after it.
LEMMA RatingTells ==
  ASSUME NEW before, NEW after, after.tier \in Tiers \cup {Nil},
         Calibrating(before) => before.tier = Nil,
         ~ Calibrating(before) => before.tier \in Int /\ ~ Calibrating(after),
         Calibrating(after) => after.tier = Nil,
         ~ Calibrating(after) => after.tier \in Int
  PROVE  Chain(AppendRatingEvents(before, after), before.tier, after.tier)
<1>1. PICK x : x = before.tier OBVIOUS
<1>2. PICK y \in Tiers \cup {Nil} : y = after.tier OBVIOUS
<1>3. PICK D : D = IF InitialRankPublished(before, after) THEN y ELSE x OBVIOUS
<1>4. PICK F : F = IF ~ Calibrating(before) /\ y > x THEN y ELSE D OBVIOUS
<1>5. PICK G : G = IF ~ Calibrating(before) /\ y < x THEN y ELSE F OBVIOUS
<1>6. Calibrating(before) /\ ~ InitialRankPublished(before, after) => x = Nil /\ y = Nil
  BY <1>1, <1>2 DEF InitialRankPublished
<1>7. ~ Calibrating(before) => x \in Int /\ y \in Int /\ ~ InitialRankPublished(before, after)
  BY <1>1, <1>2 DEF InitialRankPublished
<1>8. InitialRankPublished(before, after) => x = Nil BY <1>1 DEF InitialRankPublished
<1>9. G = y
  <2>1. CASE Calibrating(before) BY <1>3, <1>4, <1>5, <1>6, <2>1
  <2>2. CASE ~ Calibrating(before)
    <3>1. x \in Int /\ y \in Int /\ D = x BY <1>3, <1>7, <2>2
    <3>2. x = y \/ x < y \/ y < x BY <3>1
    <3>3. QED BY <1>4, <1>5, <2>2, <3>1, <3>2
  <2>3. QED BY <2>1, <2>2
<1>10. PICK a : a = Announced(TRUE, "VALID_SKILL_RATING_SUBMITTED", after) OBVIOUS
<1>11. Chain(a, x, x)
  <2>1. PICK e : e = [type |-> "VALID_SKILL_RATING_SUBMITTED", tier |-> after.tier] OBVIOUS
  <2>2. e \in Announcement /\ e.type = "VALID_SKILL_RATING_SUBMITTED" /\ e.type \notin RankTypes
    BY <2>1 DEF Announcement, EventTypes, RankTypes
  <2>3. PICK one : one = <<e>> OBVIOUS
  <2>4. one = a BY <1>10, <2>1, <2>3 DEF Announced
  <2>5. one \in Seq(Announcement) /\ DOMAIN one = 1 .. 1 /\ one[1] = e BY <2>2, <2>3
  <2>6. 1 \in DOMAIN one /\ \A i \in DOMAIN one : i = 1 BY <2>5
  <2>7. OneFirst(one) BY <2>2, <2>5, <2>6 DEF OneFirst
  <2>8. Tells(one, x, x) BY <2>2, <2>3, TellsOne
  <2>9. QED BY <2>4, <2>5, <2>7, <2>8 DEF Chain
<1>12. PICK b : b = Announced(before.state = "UNRANKED", "PLAYER_CALIBRATION_STARTED", after)
  OBVIOUS
<1>13. Link(b, x, x)
  <2>1. PICK type \in EventTypes \ RankTypes : type = "PLAYER_CALIBRATION_STARTED"
    BY DEF EventTypes, RankTypes
  <2>2. b \in {<<>>, <<[type |-> type, tier |-> after.tier]>>} BY <1>12, <2>1, Zenon DEF Announced
  <2>3. QED BY <2>1, <2>2, QuietLink
<1>14. PICK c : c = Announced(after.state = "CALIBRATING", "PLAYER_CALIBRATION_PROGRESS_UPDATED",
                              after)
  OBVIOUS
<1>15. Link(c, x, x)
  <2>1. PICK type \in EventTypes \ RankTypes : type = "PLAYER_CALIBRATION_PROGRESS_UPDATED"
    BY DEF EventTypes, RankTypes
  <2>2. c \in {<<>>, <<[type |-> type, tier |-> after.tier]>>} BY <1>14, <2>1, Zenon DEF Announced
  <2>3. QED BY <2>1, <2>2, QuietLink
<1>16. PICK d : d = Announced(InitialRankPublished(before, after), "PLAYER_INITIAL_RANK_PUBLISHED",
                              after)
  OBVIOUS
<1>17. Link(d, x, D)
  <2>1. PICK type \in RankTypes : type = "PLAYER_INITIAL_RANK_PUBLISHED" BY DEF RankTypes
  <2>2. InitialRankPublished(before, after) => Says([type |-> type, tier |-> after.tier], x)
    BY <1>8, <2>1 DEF Says
  <2>3. CASE InitialRankPublished(before, after)
    <3>1. d = <<[type |-> type, tier |-> after.tier]>> /\ D = after.tier
      BY <1>2, <1>3, <1>16, <2>1, <2>3 DEF Announced
    <3>2. QED BY <2>2, <2>3, <3>1, RankLink
  <2>4. CASE ~ InitialRankPublished(before, after)
    <3>1. d = <<>> /\ D = x BY <1>3, <1>16, <2>4 DEF Announced
    <3>2. QED BY <3>1, NoLink
  <2>5. QED BY <2>3, <2>4

<1>18. PICK e : e = Announced(~ InitialRankPublished(before, after), "PLAYER_SKILL_SCORE_UPDATED",
                              after)
  OBVIOUS
<1>19. Link(e, D, D)
  <2>1. PICK type \in EventTypes \ RankTypes : type = "PLAYER_SKILL_SCORE_UPDATED"
    BY DEF EventTypes, RankTypes
  <2>2. e \in {<<>>, <<[type |-> type, tier |-> after.tier]>>} BY <1>18, <2>1, Zenon DEF Announced
  <2>3. QED BY <2>1, <2>2, QuietLink
<1>20. PICK f : f = Announced(~ Calibrating(before) /\ after.tier > before.tier,
                              "PLAYER_RANK_PROMOTED", after)
  OBVIOUS
<1>21. Link(f, D, F)
  <2>1. PICK type \in RankTypes : type = "PLAYER_RANK_PROMOTED" BY DEF RankTypes
  <2>2. CASE ~ Calibrating(before) /\ y > x
    <3>1. f = <<[type |-> type, tier |-> after.tier]>> /\ F = after.tier
      BY <1>1, <1>2, <1>4, <1>20, <2>1, <2>2 DEF Announced
    <3>2. D = x BY <1>3, <1>7, <2>2
    <3>3. Says([type |-> type, tier |-> after.tier], D) BY <1>2, <2>1, <2>2, <3>2 DEF Says
    <3>4. QED BY <3>1, <3>3, RankLink
  <2>3. CASE ~ (~ Calibrating(before) /\ y > x)
    <3>1. f = <<>> /\ F = D BY <1>1, <1>2, <1>4, <1>20, <2>3 DEF Announced
    <3>2. QED BY <3>1, NoLink
  <2>4. QED BY <2>2, <2>3
<1>22. PICK g : g = Announced(~ Calibrating(before) /\ after.tier < before.tier,
                              "PLAYER_RANK_DEMOTED", after)
  OBVIOUS
<1>23. Link(g, F, G)
  <2>1. PICK type \in RankTypes : type = "PLAYER_RANK_DEMOTED" BY DEF RankTypes
  <2>2. CASE ~ Calibrating(before) /\ y < x
    <3>1. g = <<[type |-> type, tier |-> after.tier]>> /\ G = after.tier
      BY <1>1, <1>2, <1>5, <1>22, <2>1, <2>2 DEF Announced
    <3>2. x \in Int /\ y \in Int /\ ~ (y > x) BY <1>7, <2>2
    <3>3. F = x BY <1>3, <1>4, <1>7, <2>2, <3>2
    <3>4. Says([type |-> type, tier |-> after.tier], F) BY <1>2, <2>1, <2>2, <3>3 DEF Says
    <3>5. QED BY <3>1, <3>4, RankLink
  <2>3. CASE ~ (~ Calibrating(before) /\ y < x)
    <3>1. g = <<>> /\ G = F BY <1>1, <1>2, <1>5, <1>22, <2>3 DEF Announced
    <3>2. QED BY <3>1, NoLink
  <2>4. QED BY <2>2, <2>3
<1>24. PICK h : h = Announced(after.state = "TOP_TIER_LOCKED" /\ before.state # "TOP_TIER_LOCKED",
                              "TOP_TIER_REACHED", after)
  OBVIOUS
<1>25. Link(h, G, G)
  <2>1. PICK type \in EventTypes \ RankTypes : type = "TOP_TIER_REACHED"
    BY DEF EventTypes, RankTypes
  <2>2. h \in {<<>>, <<[type |-> type, tier |-> after.tier]>>} BY <1>24, <2>1, Zenon DEF Announced
  <2>3. QED BY <2>1, <2>2, QuietLink
<1>26. Chain(a \o b \o c \o d \o e \o f \o g \o h, x, G)
  <2>1. Chain(a \o b, x, x) BY <1>11, <1>13, ChainOn
  <2>2. Chain(a \o b \o c, x, x) BY <1>15, <2>1, ChainOn
  <2>3. Chain(a \o b \o c \o d, x, D) BY <1>17, <2>2, ChainOn
  <2>4. Chain(a \o b \o c \o d \o e, x, D) BY <1>19, <2>3, ChainOn
  <2>5. Chain(a \o b \o c \o d \o e \o f, x, F) BY <1>21, <2>4, ChainOn
  <2>6. Chain(a \o b \o c \o d \o e \o f \o g, x, G) BY <1>23, <2>5, ChainOn
  <2>7. QED BY <1>25, <2>6, ChainOn
<1>27. AppendRatingEvents(before, after) = a \o b \o c \o d \o e \o f \o g \o h
  BY <1>10, <1>12, <1>14, <1>16, <1>18, <1>20, <1>22, <1>24, EventsInOrder, Zenon
<1>28. QED BY <1>1, <1>2, <1>9, <1>26, <1>27

\* The submissions told.
Submissions(s) == {i \in DOMAIN s : s[i].type = "VALID_SKILL_RATING_SUBMITTED"}

\* What one submission makes known is one submission more.
LEMMA OneSubmissionMore ==
  ASSUME NEW s \in Seq(Announcement), NEW t \in Seq(Announcement), OneFirst(t)
  PROVE  /\ Cardinality(Submissions(s)) \in Nat
         /\ Cardinality(Submissions(s \o t)) = Cardinality(Submissions(s)) + 1
<1>1. PICK w : w = s \o t OBVIOUS
<1>2. PICK n \in Nat, m \in Nat : Joins(s, t, n, m, w) BY <1>1, Joining
<1>3. /\ DOMAIN s = 1 .. n /\ DOMAIN t = 1 .. m /\ DOMAIN w = 1 .. (n + m)
      /\ \A i \in 1 .. n : w[i] = s[i]
      /\ \A j \in 1 .. m : w[n + j] = t[j]
  BY <1>2 DEF Joins
<1>4. /\ 1 \in 1 .. m
      /\ \A j \in 1 .. m : t[j].type = "VALID_SKILL_RATING_SUBMITTED" <=> j = 1
  BY <1>3 DEF OneFirst
<1>5. PICK A : A = Submissions(s) OBVIOUS
<1>6. PICK B : B = Submissions(w) OBVIOUS
<1>7. A \in SUBSET (1 .. n) /\ B \in SUBSET (1 .. (n + m))
  BY <1>3, <1>5, <1>6 DEF Submissions
<1>8. PICK k : k = n + 1 OBVIOUS
<1>9. ASSUME NEW i \in 1 .. (n + m) PROVE i \in B <=> i \in A \cup {k}
  <2>1. i \in B <=> w[i].type = "VALID_SKILL_RATING_SUBMITTED"
    BY <1>3, <1>6 DEF Submissions
  <2>2. CASE i <= n
    <3>1. i \in 1 .. n /\ i # k BY <1>8, <2>2
    <3>2. i \in A <=> s[i].type = "VALID_SKILL_RATING_SUBMITTED"
      BY <1>3, <1>5, <3>1 DEF Submissions
    <3>3. w[i] = s[i] BY <1>3, <3>1
    <3>4. QED BY <2>1, <3>1, <3>2, <3>3
  <2>3. CASE ~ (i <= n)
    <3>1. PICK j \in 1 .. m : i = n + j
      <4>1. i - n \in 1 .. m /\ i = n + (i - n) BY <2>3
      <4>2. QED BY <4>1
    <3>2. w[i] = t[j] BY <1>3, <3>1
    <3>3. i \notin A BY <1>7, <2>3
    <3>4. i = k <=> j = 1 BY <1>8, <3>1
    <3>5. QED BY <1>4, <2>1, <3>2, <3>3, <3>4
  <2>4. QED BY <2>2, <2>3
<1>10. B = A \cup {k}
  <2>1. k \in 1 .. (n + m) /\ \A i \in 1 .. n : i \in 1 .. (n + m) BY <1>4, <1>8
  <2>2. QED BY <1>7, <1>9, <2>1
<1>11. k \notin A
  <2>1. k \notin 1 .. n BY <1>8
  <2>2. QED BY <1>7, <2>1
<1>12. IsFiniteSet(A)
  <2>1. 1 \in Int /\ n \in Int OBVIOUS
  <2>2. IsFiniteSet(1 .. n) BY <2>1, FS_Interval
  <2>3. QED BY <1>7, <2>2, FS_Subset
<1>13. Cardinality(A) \in Nat BY <1>12, FS_CardinalityType
<1>14. Cardinality(B) = Cardinality(A) + 1
  <2>1. Cardinality(A \cup {k}) = Cardinality(A) + 1 BY <1>11, <1>12, FS_AddElement
  <2>2. QED BY <1>10, <2>1
<1>15. QED BY <1>1, <1>5, <1>6, <1>13, <1>14

\* Whether a profile is calibrating tells whether it has a tier, and how many ratings.
LEMMA CalibratingTells ==
  ASSUME SkillAssumption, NEW prof, NEW list \in Seq(SkillRatings), MadeOf(prof, list),
         prof.state # "NONE"
  PROVE  /\ Calibrating(prof) => prof.tier = Nil /\ Len(list) < CalibrationRequired
         /\ ~ Calibrating(prof) => prof.tier \in Int /\ Len(list) >= CalibrationRequired
<1>1. prof # NoProfile BY DEF NoProfile
<1>2. /\ CalibrationRequired \in Nat \ {0} /\ Tiers \subseteq Int BY DEF SkillAssumption, Top
<1>3. StateOfTier(prof.tier) \in {"RANKED", "TOP_TIER_LOCKED"} BY DEF StateOfTier
<1>4. Len(list) \in Nat /\ (list = <<>> => Len(list) = 0) OBVIOUS
<1>5. \/ /\ prof.state = "UNRANKED" /\ list = <<>> /\ prof.tier = Nil
      \/ /\ prof.state = "CALIBRATING" /\ Len(list) \in 1 .. (CalibrationRequired - 1)
         /\ prof.tier = Nil
      \/ /\ prof.tier \in Tiers /\ prof.state = StateOfTier(prof.tier)
         /\ Len(list) >= CalibrationRequired
  BY <1>1 DEF MadeOf
<1>6. CASE prof.state = "UNRANKED" /\ list = <<>> /\ prof.tier = Nil
  BY <1>2, <1>4, <1>6 DEF Calibrating
<1>7. CASE /\ prof.state = "CALIBRATING" /\ Len(list) \in 1 .. (CalibrationRequired - 1)
           /\ prof.tier = Nil
  BY <1>2, <1>4, <1>7 DEF Calibrating
<1>8. CASE /\ prof.tier \in Tiers /\ prof.state = StateOfTier(prof.tier)
           /\ Len(list) >= CalibrationRequired
  <2>1. ~ Calibrating(prof) BY <1>3, <1>8 DEF Calibrating
  <2>2. QED BY <1>2, <1>8, <2>1
<1>9. QED BY <1>5, <1>6, <1>7, <1>8

\* The events of a user lead from the first tier to the present one, and count the
\* ratings since.
Told(u) ==
  /\ Tells(events[u], InitialProfile[u].tier, profile[u].tier)
  /\ Cardinality(Submissions(events[u])) = profile[u].valid - InitialProfile[u].valid

\* That is what is to be shown of every user.
LEMMA ToldOfAll == EventsTellTheRank <=> \A u \in Users : Told(u)
BY DEF EventsTellTheRank, Told, Submissions

\* At first there is nothing to tell.
LEMMA InitTold ==
  ASSUME InitialAssumption, Init
  PROVE  EventsTellTheRank
<1>1. ASSUME NEW u \in Users PROVE Told(u)
  <2>1. PICK none : none = <<>> OBVIOUS
  <2>2. events[u] = none /\ profile[u] = InitialProfile[u] BY <2>1 DEF Init
  <2>3. Tells(none, InitialProfile[u].tier, InitialProfile[u].tier) BY <2>1, TellsNothing
  <2>4. Submissions(none) = {}
    <3>1. DOMAIN none = {} BY <2>1
    <3>2. QED BY <3>1 DEF Submissions
  <2>5. Cardinality(Submissions(none)) = 0 BY <2>4, FS_EmptySet
  <2>6. InitialProfile[u].valid \in Nat BY DEF InitialAssumption, Profiles
  <2>7. QED BY <2>2, <2>3, <2>5, <2>6 DEF Told
<1>2. QED BY <1>1, ToldOfAll

\* A rating tells what it does to the rank.
LEMMA RatedTold ==
  ASSUME SkillAssumption, InitialAssumption, IInv, NEW r \in Rooms, NEW rated \in SUBSET Users,
         Rates(r, rated), NEW u \in rated, Told(u)
  PROVE  Told(u)'
<1>1. /\ u \in Users /\ profile[u] \in Profiles /\ ratings[u] \in Seq(SkillRatings)
      /\ events[u] \in Seq(Announcement) /\ MadeOf(profile[u], ratings[u])
  BY DEF IInv, TypeOK, ProfilesAreMade
<1>0. RatesUser(r, u) BY DEF Rates
<1>2. /\ profile[u].state # "NONE"
      /\ events'[u] = events[u] \o AppendRatingEvents(profile[u], profile'[u])
  BY <1>0 DEF RatesUser
<1>3. PICK v \in Values : ratings'[u] = Append(ratings[u], NewRating(r, u, v))
  BY <1>0 DEF RatesUser
<1>4. /\ MadeOf(profile'[u], ratings'[u]) /\ profile'[u] \in Profiles
      /\ profile'[u].state # "NONE" /\ ratings'[u] \in Seq(SkillRatings)
  BY RatedAdvances DEF Advances
<1>5. Len(ratings'[u]) = Len(ratings[u]) + 1 /\ Len(ratings[u]) \in Nat BY <1>1, <1>3
<1>6. CalibrationRequired \in Nat BY DEF SkillAssumption
<1>7. PICK before \in Profiles : before = profile[u] BY <1>1
<1>8. PICK after \in Profiles : after = profile'[u] BY <1>4
<1>9. /\ Calibrating(before) => before.tier = Nil /\ Len(ratings[u]) < CalibrationRequired
      /\ ~ Calibrating(before) => before.tier \in Int /\ Len(ratings[u]) >= CalibrationRequired
  BY <1>1, <1>2, <1>7, CalibratingTells
<1>10. /\ Calibrating(after) => after.tier = Nil /\ Len(ratings'[u]) < CalibrationRequired
       /\ ~ Calibrating(after) => after.tier \in Int /\ Len(ratings'[u]) >= CalibrationRequired
  <2>1. PICK list \in Seq(SkillRatings) : list = ratings'[u] BY <1>4
  <2>2. MadeOf(after, list) /\ after.state # "NONE" BY <1>4, <1>8, <2>1
  <2>3. /\ Calibrating(after) => after.tier = Nil /\ Len(list) < CalibrationRequired
        /\ ~ Calibrating(after) => after.tier \in Int /\ Len(list) >= CalibrationRequired
    BY <2>2, CalibratingTells
  <2>4. QED BY <2>1, <2>3
<1>11. ASSUME ~ Calibrating(before) PROVE ~ Calibrating(after)
  <2>1. Len(ratings[u]) >= CalibrationRequired BY <1>9, <1>11
  <2>2. ~ (Len(ratings'[u]) < CalibrationRequired)
    <3>1. PICK n \in Nat : n = Len(ratings[u]) BY <1>5
    <3>2. Len(ratings'[u]) = n + 1 /\ n >= CalibrationRequired BY <1>5, <2>1, <3>1
    <3>3. ~ (n + 1 < CalibrationRequired) BY <1>6, <3>2
    <3>4. QED BY <3>2, <3>3
  <2>3. QED BY <1>10, <2>2
<1>12. PICK told : told = AppendRatingEvents(before, after) OBVIOUS
<1>13. Chain(told, before.tier, after.tier)
  <2>1. after.tier \in Tiers \cup {Nil} BY DEF Profiles
  <2>2. Calibrating(before) => before.tier = Nil BY <1>9
  <2>3. ~ Calibrating(before) => before.tier \in Int /\ ~ Calibrating(after) BY <1>9, <1>11
  <2>4. Calibrating(after) => after.tier = Nil BY <1>10
  <2>5. ~ Calibrating(after) => after.tier \in Int BY <1>10
  <2>6. Chain(AppendRatingEvents(before, after), before.tier, after.tier)
    BY <2>1, <2>2, <2>3, <2>4, <2>5, RatingTells
  <2>7. QED BY <1>12, <2>6
<1>14. PICK all : all = events[u] \o told OBVIOUS
<1>15. events'[u] = all BY <1>2, <1>7, <1>8, <1>12, <1>14
<1>16. told \in Seq(Announcement) /\ OneFirst(told) /\ Tells(told, before.tier, after.tier)
  BY <1>13 DEF Chain
<1>17. Tells(events[u], InitialProfile[u].tier, before.tier) BY <1>7 DEF Told
<1>18. Tells(all, InitialProfile[u].tier, after.tier) BY <1>1, <1>14, <1>16, <1>17, TellsOn
<1>19. Cardinality(Submissions(all)) = profile'[u].valid - InitialProfile[u].valid
  <2>1. /\ Cardinality(Submissions(events[u])) \in Nat
        /\ Cardinality(Submissions(all)) = Cardinality(Submissions(events[u])) + 1
    BY <1>1, <1>14, <1>16, OneSubmissionMore
  <2>2. Cardinality(Submissions(events[u])) = profile[u].valid - InitialProfile[u].valid
    BY DEF Told
  <2>3. profile[u].valid = Len(ratings[u]) /\ profile'[u].valid = Len(ratings'[u])
    BY <1>1, <1>4 DEF MadeOf
  <2>4. InitialProfile[u].valid \in Nat BY <1>1 DEF InitialAssumption, Profiles
  <2>5. QED BY <1>5, <2>1, <2>2, <2>3, <2>4
<1>20. QED BY <1>8, <1>15, <1>18, <1>19 DEF Told

\* A step that changes no tier and no count has nothing to tell.
LEMMA NothingToTell ==
  ASSUME EventsTellTheRank, UNCHANGED events,
         \A u \in Users : profile'[u].tier = profile[u].tier /\ profile'[u].valid = profile[u].valid
  PROVE  EventsTellTheRank'
<1>1. ASSUME NEW u \in Users PROVE Told(u)'
  <2>1. Told(u) BY ToldOfAll
  <2>2. QED BY <2>1 DEF Told
<1>2. \A u \in Users : Told(u)' BY <1>1
<1>3. QED BY <1>2 DEF EventsTellTheRank, Told, Submissions

\* Every step tells what it does to the ranks.
LEMMA StepTells ==
  ASSUME SkillAssumption, InitialAssumption, IInv, EventsTellTheRank, [Next]_vars
  PROVE  EventsTellTheRank'
<1>1. TypeOK /\ ProfilesAreMade BY DEF IInv
<1>2. ASSUME UNCHANGED <<profile, events>> PROVE EventsTellTheRank' BY <1>2, NothingToTell
<1>3. CASE UNCHANGED vars BY <1>2, <1>3 DEF vars
<1>4. ASSUME NEW u \in Users, CreateUser(u) PROVE EventsTellTheRank'
  <2>1. profile[u] = NoProfile BY <1>1, <1>4 DEF ProfilesAreMade, MadeOf, CreateUser, StateOfTier
  <2>2. Unranked.tier = NoProfile.tier /\ Unranked.valid = NoProfile.valid
    BY DEF Unranked, NoProfile
  <2>3. profile' = [profile EXCEPT ![u] = Unranked] /\ events' = events BY <1>4 DEF CreateUser
  <2>4. \A v \in Users : profile'[v].tier = profile[v].tier /\ profile'[v].valid = profile[v].valid
    BY <1>1, <2>1, <2>2, <2>3 DEF TypeOK
  <2>5. QED BY <2>3, <2>4, NothingToTell
<1>5. ASSUME NEW r \in Rooms, StartRoom(r) PROVE EventsTellTheRank' BY <1>2, <1>5 DEF StartRoom
<1>6. ASSUME NEW r \in Rooms, CompleteRoom(r) PROVE EventsTellTheRank'
  <2>1. events' = events /\ profile' = IncrementCompletedMatchCount(r) BY <1>6 DEF CompleteRoom
  <2>2. ASSUME NEW u \in Users
        PROVE  profile'[u].tier = profile[u].tier /\ profile'[u].valid = profile[u].valid
    <3>1. PICK prof \in Profiles : prof = profile[u] BY <1>1 DEF TypeOK
    <3>2. profile'[u] = [prof EXCEPT !.matches = @ + 1] \/ profile'[u] = prof
      BY <2>1, <3>1 DEF IncrementCompletedMatchCount
    <3>3. PICK more : more = [prof EXCEPT !.matches = @ + 1] OBVIOUS
    <3>4. more.tier = prof.tier /\ more.valid = prof.valid BY <3>3 DEF Profiles
    <3>5. QED BY <3>1, <3>2, <3>3, <3>4
  <2>3. QED BY <2>1, <2>2, NothingToTell
<1>7. ASSUME NEW r \in Rooms, NEW S \in SUBSET Persons, NEW given \in [S -> Values],
             Submit(r, given)
      PROVE  EventsTellTheRank'
  <2>1. PICK rated \in SUBSET Users : Rates(r, rated) BY <1>7, SubmitRates
  <2>2. ASSUME NEW u \in Users PROVE Told(u)'
    <3>1. Told(u) BY ToldOfAll
    <3>2. CASE u \in rated BY <2>1, <3>1, <3>2, RatedTold
    <3>3. CASE u \notin rated
      <4>1. events'[u] = events[u] /\ profile'[u] = profile[u] BY <2>1, <3>3 DEF Rates, LeavesAlone
      <4>2. QED BY <3>1, <4>1 DEF Told
    <3>4. QED BY <3>2, <3>3
  <2>3. \A u \in Users : Told(u)' BY <2>2
  <2>4. QED BY <2>3 DEF EventsTellTheRank, Told, Submissions
<1>8. ASSUME NEW r \in Rooms, SubmitBatch(r) PROVE EventsTellTheRank'
  <2>1. PICK S \in SUBSET Present(r) : \E given \in [S -> Values] : Submit(r, given)
    BY <1>8 DEF SubmitBatch
  <2>2. PICK given \in [S -> Values] : Submit(r, given) BY <2>1
  <2>3. S \in SUBSET Persons BY <2>1 DEF Present
  <2>4. QED BY <1>7, <2>2, <2>3
<1>9. ASSUME NEW r \in Rooms, NEW p \in Persons, NEW value \in Values, SubmitRating(r, p, value)
      PROVE  EventsTellTheRank'
  <2>1. PICK given : given = [q \in {p} |-> value] OBVIOUS
  <2>2. {p} \in SUBSET Persons /\ given \in [{p} -> Values] BY <2>1
  <2>3. Submit(r, given) BY <1>9, <2>1 DEF SubmitRating
  <2>4. QED BY <1>7, <2>2, <2>3
<1>10. ASSUME NEW r \in Rooms, NEW p \in Persons, NEW next \in {"PRESENT", "NO_SHOW"},
              MarkAttendance(r, p, next)
       PROVE  EventsTellTheRank'
  BY <1>2, <1>10 DEF MarkAttendance
<1>11. ASSUME NEW g \in Guests, NEW u \in Claimers, ClaimGuest(g, u) PROVE EventsTellTheRank'
  BY <1>2, <1>11 DEF ClaimGuest
<1>12. QED BY <1>3, <1>4, <1>5, <1>6, <1>8, <1>9, <1>10, <1>11 DEF Next

\* Whoever follows a player's events knows the rank he has: it is published once, every
\* promotion and demotion moves the tier the way it says from the one told before, the
\* last names the tier of the profile, and the ratings are counted.
THEOREM FollowersKnowTheRank == Spec => []EventsTellTheRank
<1>1. Init => EventsTellTheRank BY InitialAssumption, InitTold
<1>2. IInv /\ EventsTellTheRank /\ [Next]_vars => EventsTellTheRank'
  BY SkillAssumption, InitialAssumption, StepTells
<1>3. QED BY <1>1, <1>2, Invariance, PTL DEF Spec

=============================================================================
