---------------------------- MODULE NumberFacts ----------------------------
(***************************************************************************)
(* Facts about numbers that the proofs of several modules need: remainders *)
(* by a modulus that is not a numeral, and the least element of a set of   *)
(* numbers, from which the proofs about loops argue by a least             *)
(* counterexample.                                                         *)
(***************************************************************************)
EXTENDS Integers, WellFoundedInduction, TLAPS

\* A set of numbers that is not empty has a least one.
LEMMA LeastNumber ==
  ASSUME NEW T, T \subseteq Nat, T # {}
  PROVE  \E m \in T : \A k \in T : m <= k
<1>1. PICK m \in T : \A k \in T : ~ (<<k, m>> \in OpToRel(<, Nat))
  BY NatLessThanWellFounded, WFMin
<1>2. ASSUME NEW k \in T, k < m
      PROVE  FALSE
  <2>1. k \in Nat /\ m \in Nat
    OBVIOUS
  <2>2. <<k, m>> \in OpToRel(<, Nat)
    BY <1>2, <2>1 DEF OpToRel
  <2> QED
    BY <1>1, <2>2
<1> QED
  BY <1>2

(***************************************************************************)
(* Induction over the turns of a loop, for the set T of the turns after    *)
(* which something holds.                                                  *)
(***************************************************************************)
LEMMA TurnByTurn ==
  ASSUME NEW n \in Nat, NEW T, 0 \in T,
         \A k \in 1 .. n : k - 1 \in T => k \in T
  PROVE  \A k \in 0 .. n : k \in T
<1> DEFINE Wrong == (0 .. n) \ T
<1>1. Wrong \subseteq Nat
  OBVIOUS
<1> SUFFICES ASSUME Wrong # {}
             PROVE  FALSE
  OBVIOUS
<1>2. PICK m \in Wrong : \A k \in Wrong : m <= k
  BY <1>1, LeastNumber
<1>3. PICK l \in 0 .. n : l = m - 1 /\ m \in 1 .. n
  BY <1>2
<1>4. l \in T
  BY <1>2, <1>3
<1> QED
  BY <1>2, <1>3, <1>4

-----------------------------------------------------------------------------
\* A product with a number that is not zero is at least the other factor.
LEMMA ProductAtLeast ==
  ASSUME NEW M \in Nat \ {0}, NEW n \in Int
  PROVE  /\ n >= 1 => M * n >= M
         /\ n <= -1 => M * n <= -M
  OBVIOUS

\* Products with the same factor are ordered as the others are.
LEMMA ProductGrows ==
  ASSUME NEW M \in Nat \ {0}, NEW x \in Int, NEW y \in Int
  PROVE  /\ x < y => M * x + M <= M * y
         /\ x <= y <=> M * x <= M * y
<1>1. PICK d \in Int : d = y - x
  OBVIOUS
<1>2. M * y = M * x + M * d
  BY <1>1
<1>3. M * x \in Int /\ M * y \in Int /\ M * d \in Int
  OBVIOUS
<1>4. (d >= 1 => M * d >= M) /\ (d <= -1 => M * d <= -M)
  BY ProductAtLeast
<1>5. x = y => M * x = M * y
  OBVIOUS
<1> QED
  BY <1>1, <1>2, <1>3, <1>4, <1>5

\* A number is its quotient times the modulus, and its remainder.
LEMMA QuotientRemainder ==
  ASSUME NEW M \in Nat \ {0}, NEW a \in Int
  PROVE  /\ a \div M \in Int
         /\ a % M \in 0 .. (M - 1)
         /\ a = M * (a \div M) + (a % M)
  OBVIOUS

\* There is only one way to write it like this.
LEMMA RemainderUnique ==
  ASSUME NEW M \in Nat \ {0}, NEW a \in Int, NEW q \in Int,
         NEW r \in 0 .. (M - 1),
         a = M * q + r
  PROVE  a % M = r /\ a \div M = q
<1> DEFINE d == q - (a \div M)
<1>1. /\ a \div M \in Int
      /\ a % M \in 0 .. (M - 1)
      /\ a = M * (a \div M) + (a % M)
  BY QuotientRemainder
<1>2. d \in Int /\ M * d = (a % M) - r
  <2>1. M * d = M * q - M * (a \div M)
    BY <1>1
  <2> QED
    BY <1>1, <2>1
<1>3. d = 0
  <2>1. -M < M * d /\ M * d < M
    BY <1>1, <1>2
  <2> HIDE DEF d
  <2> QED
    BY <1>2, <2>1, ProductAtLeast
<1> QED
  BY <1>1, <1>2, <1>3

\* A remainder of itself.
LEMMA RemainderSmall ==
  ASSUME NEW M \in Nat \ {0}, NEW a \in 0 .. (M - 1)
  PROVE  a % M = a /\ a \div M = 0
  BY RemainderUnique

\* Whole turns do not count.
LEMMA RemainderTurns ==
  ASSUME NEW M \in Nat \ {0}, NEW a \in Int, NEW n \in Int
  PROVE  (a + M * n) % M = a % M
<1>1. PICK q \in Int, r \in 0 .. (M - 1) : a = M * q + r /\ a % M = r
  BY QuotientRemainder
<1> DEFINE b == a + M * n
           p == q + n
<1>2. b \in Int /\ p \in Int /\ b = M * p + r
  <2>1. M * p = M * q + M * n
    BY <1>1
  <2> QED
    BY <1>1, <2>1
<1> HIDE DEF b, p
<1>3. b % M = r
  BY <1>2, RemainderUnique
<1> QED
  BY <1>1, <1>3 DEF b

\* Adding to a number or to its remainder is the same.
LEMMA RemainderAdd ==
  ASSUME NEW M \in Nat \ {0}, NEW a \in Int, NEW b \in Int
  PROVE  ((a % M) + b) % M = (a + b) % M
<1>1. PICK q \in Int, r \in 0 .. (M - 1) : a = M * q + r /\ a % M = r
  BY QuotientRemainder
<1>2. PICK c \in Int : c = r + b
  OBVIOUS
<1>3. (c + M * q) % M = c % M
  BY RemainderTurns
<1>4. c + M * q = a + b
  BY <1>1, <1>2
<1> QED
  BY <1>1, <1>2, <1>3, <1>4

\* Numbers that are less than a turn apart have different remainders.
LEMMA RemainderApart ==
  ASSUME NEW M \in Nat \ {0}, NEW a \in Int, NEW b \in Int,
         a < b, b < a + M
  PROVE  a % M # b % M
<1> SUFFICES ASSUME a % M = b % M
             PROVE  FALSE
  OBVIOUS
<1> DEFINE d == (b \div M) - (a \div M)
<1>1. /\ a \div M \in Int /\ b \div M \in Int
      /\ a % M \in Int
      /\ a = M * (a \div M) + (a % M)
      /\ b = M * (b \div M) + (b % M)
  BY QuotientRemainder
<1>2. d \in Int /\ M * d = b - a
  <2>1. M * d = M * (b \div M) - M * (a \div M)
    BY <1>1
  <2> QED
    BY <1>1, <2>1
<1> HIDE DEF d
<1> QED
  BY <1>2, ProductAtLeast

\* A modulus that a larger one is a multiple of.
LEMMA RemainderNested ==
  ASSUME NEW M \in Nat \ {0}, NEW N \in Nat \ {0}, N % M = 0, NEW a \in Int
  PROVE  (a % N) % M = a % M
<1>1. PICK q \in Int, r \in 0 .. (N - 1) : a = N * q + r /\ a % N = r
  BY QuotientRemainder
<1>2. PICK m \in Int : N = M * m
  <2>1. /\ N \div M \in Int
        /\ N = M * (N \div M) + (N % M)
    BY QuotientRemainder
  <2> WITNESS N \div M \in Int
  <2> QED
    BY <2>1
<1>3. PICK n \in Int : n = m * q
  OBVIOUS
<1>4. (r + M * n) % M = r % M
  <2>1. r \in Int
    OBVIOUS
  <2> QED
    BY <2>1, RemainderTurns
<1>5. r + M * n = a
  <2>1. M * n = N * q
    BY <1>2, <1>3
  <2> QED
    BY <1>1, <2>1
<1> QED
  BY <1>1, <1>4, <1>5

-----------------------------------------------------------------------------
(***************************************************************************)
(* A loop of n turns from a: what a turn does with a state of S is a state *)
(* of S again.  There is a function that has the state after each turn.    *)
(***************************************************************************)
Steps(n, S) == [1 .. n -> [S -> S]]

Loop(n, S, a, step, g) ==
  /\ g \in [0 .. n -> S]
  /\ g[0] = a /\ \A k \in 1 .. n : g[k] = step[k][g[k - 1]]

LEMMA LoopRuns ==
  ASSUME NEW n \in Nat, NEW S, NEW a \in S, NEW step \in Steps(n, S)
  PROVE  \E g : Loop(n, S, a, step, g)
<1> USE DEF Steps
<1> DEFINE Runs(m, g) ==
             g[0] = a /\ \A k \in 1 .. m : g[k] = step[k][g[k - 1]]
           Stuck == {m \in 0 .. n : ~ \E g \in [0 .. m -> S] : Runs(m, g)}
<1>0. Stuck = {} => \E g \in [0 .. n -> S] : Runs(n, g)
  <2>1. n \in 0 .. n
    OBVIOUS
  <2> HIDE DEF Runs
  <2> QED
    BY <2>1
<1> SUFFICES ASSUME Stuck # {}
             PROVE  FALSE
  <2> HIDE DEF Stuck
  <2> QED
    BY <1>0 DEF Loop
<1>1. Stuck \subseteq Nat
  OBVIOUS
<1>2. PICK m \in Stuck : \A k \in Stuck : m <= k
  BY <1>1, LeastNumber
<1>3. m \in 0 .. n /\ ~ \E g \in [0 .. m -> S] : Runs(m, g)
  BY <1>2
<1>4. CASE m = 0
  <2>1. PICK g : g = [k \in 0 .. 0 |-> a]
    OBVIOUS
  <2>2. g \in [0 .. 0 -> S] /\ g[0] = a
    BY <2>1
  <2> QED
    BY <1>3, <1>4, <2>2
<1>5. CASE m # 0
  <2>1. PICK l \in 0 .. n : l = m - 1
    BY <1>3, <1>5
  <2>2. l \notin Stuck
    <3> HIDE DEF Stuck
    <3> QED
      BY <1>2, <1>3, <2>1
  <2>3. PICK g \in [0 .. l -> S] : Runs(l, g)
    BY <2>2
  <2>4. step[m][g[l]] \in S
    BY <1>3, <1>5, <2>1
  <2>5. PICK f : f = [k \in 0 .. m |-> IF k = m THEN step[m][g[l]] ELSE g[k]]
    OBVIOUS
  <2>6. f \in [0 .. m -> S]
    BY <1>3, <2>1, <2>4, <2>5
  <2>7. f[0] = a
    BY <1>3, <1>5, <2>1, <2>3, <2>5
  <2>8. ASSUME NEW k \in 1 .. m
        PROVE  f[k] = step[k][f[k - 1]]
    <3>1. CASE k = m
      BY <1>3, <1>5, <2>1, <2>5, <3>1
    <3>2. CASE k # m
      <4>1. k \in 1 .. l /\ k - 1 \in 0 .. l /\ k \in 0 .. m
            /\ k - 1 \in 0 .. m /\ k - 1 # m
        BY <1>3, <2>1, <3>2
      <4>2. f[k] = g[k] /\ f[k - 1] = g[k - 1]
        BY <2>5, <3>2, <4>1
      <4> QED
        BY <2>3, <4>1, <4>2
    <3> QED
      BY <3>1, <3>2
  <2> QED
    BY <1>3, <2>6, <2>7, <2>8
<1> QED
  BY <1>4, <1>5

=============================================================================
