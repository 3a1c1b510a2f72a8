---------------------------- MODULE FixpointProofs ----------------------------
(***************************************************************************)
(* Facts about iterations that the proofs of the other modules rest on:    *)
(* induction over the natural numbers and over what an iteration has       *)
(* reached, stated of sets rather than of predicates, that a recursive     *)
(* function on an interval is what its equation says, and that a set which *)
(* grows in every round but one is closed after as many rounds as there    *)
(* are candidates for it.                                                  *)
(***************************************************************************)
EXTENDS Naturals, FiniteSets, FiniteSetTheorems, WellFoundedInduction, TLAPS

(* A set of natural numbers has a least element. *)
LEMMA LeastNumber ==
  ASSUME NEW T \in SUBSET Nat, T # {}
  PROVE  \E m \in T : \A k \in T : m <= k
<1>1. \E m \in T : \A k \in T : <<k, m>> \notin OpToRel(<, Nat)
  BY NatLessThanWellFounded, WFMin
<1>2. PICK m \in T : \A k \in T : <<k, m>> \notin OpToRel(<, Nat)
  BY <1>1
<1>3. \A k \in T : ~(k < m)
  BY <1>2 DEF OpToRel
<1> QED
  BY <1>3

(* What holds of 0, and of the next number with each number below a bound, *)
(* holds up to the bound.                                                  *)
LEMMA InductionUpTo ==
  ASSUME NEW N \in Nat, NEW S, 0 \in S,
         \A n \in 0..(N - 1) : n \in S => n + 1 \in S
  PROVE  0..N \subseteq S
<1> SUFFICES ASSUME (0..N) \ S # {}
             PROVE  FALSE
  OBVIOUS
<1>1. PICK m \in (0..N) \ S : \A k \in (0..N) \ S : m <= k
  <2>1. (0..N) \ S \in SUBSET Nat
    OBVIOUS
  <2> QED
    BY <2>1, LeastNumber
<1>2. m - 1 \in 0..(N - 1) /\ m - 1 \in S
  BY <1>1
<1> QED
  BY <1>1, <1>2

(* a holds what F makes of start in up to N rounds. *)
Iterates(a, F, start, X, N) ==
    /\ a \in [0..N -> X]
    /\ a[0] = start
    /\ \A i \in 1..N : a[i] = F[a[i - 1]]

(* A function may be iterated any number of times. *)
LEMMA IterationExists ==
  ASSUME NEW X, NEW F \in [X -> X], NEW start \in X, NEW N \in Nat
  PROVE  \E a : Iterates(a, F, start, X, N)
<1> DEFINE S == {n \in 0..N : \E a : Iterates(a, F, start, X, n)}
<1>1. 0 \in S
  <2>1. Iterates([i \in 0..0 |-> start], F, start, X, 0)
    BY DEF Iterates
  <2> QED
    BY <2>1
<1>2. ASSUME NEW n \in 0..(N - 1), n \in S
      PROVE  n + 1 \in S
  <2>1. PICK a : Iterates(a, F, start, X, n)
    BY <1>2
  <2> DEFINE b == [i \in 0..(n + 1) |-> IF i = n + 1 THEN F[a[n]] ELSE a[i]]
  <2>2. F[a[n]] \in X
    BY <2>1 DEF Iterates
  <2>3. b \in [0..(n + 1) -> X]
    BY <2>1, <2>2 DEF Iterates
  <2>4. b[0] = start
    BY <2>1 DEF Iterates
  <2>5. \A i \in 1..(n + 1) : b[i] = F[b[i - 1]]
    BY <2>1 DEF Iterates
  <2>6. Iterates(b, F, start, X, n + 1)
    BY <2>3, <2>4, <2>5 DEF Iterates
  <2> HIDE DEF b
  <2> QED
    BY <2>6
<1>3. N \in S
  <2> HIDE DEF S
  <2>1. 0..N \subseteq S
    BY <1>1, <1>2, InductionUpTo
  <2> QED
    BY <2>1
<1> QED
  BY <1>3

(* A chain of subsets of a finite set that grows in each of as many steps  *)
(* as the set has elements has reached the whole set.                      *)
LEMMA ChainIsLong ==
  ASSUME NEW X, IsFiniteSet(X), NEW N \in Nat, Cardinality(X) <= N,
         NEW a, \A n \in 0..N : a[n] \in SUBSET X,
         \A i \in 1..N : a[i - 1] \subseteq a[i]
  PROVE  \/ a[N] = X
         \/ \E i \in 1..N : a[i - 1] = a[i]
<1> SUFFICES ASSUME \A i \in 1..N : a[i - 1] # a[i]
             PROVE  a[N] = X
  OBVIOUS
<1> DEFINE S == {n \in 0..N : n <= Cardinality(a[n])}
<1>1. \A n \in 0..N : IsFiniteSet(a[n]) /\ Cardinality(a[n]) \in Nat
  BY FS_Subset, FS_CardinalityType
<1>2. 0 \in S
  BY <1>1
<1>3. ASSUME NEW n \in 0..(N - 1), n \in S
      PROVE  n + 1 \in S
  <2>1. a[n] \subseteq a[n + 1] /\ a[n] # a[n + 1]
    <3>1. n + 1 \in 1..N /\ (n + 1) - 1 = n
      OBVIOUS
    <3> QED
      BY <3>1
  <2>2. Cardinality(a[n]) <= Cardinality(a[n + 1])
        /\ Cardinality(a[n]) # Cardinality(a[n + 1])
    BY <1>1, <2>1, FS_Subset
  <2>3. Cardinality(a[n]) \in Nat /\ Cardinality(a[n + 1]) \in Nat
    BY <1>1
  <2> QED
    BY <1>3, <2>2, <2>3
<1>4. N \in S
  <2> HIDE DEF S
  <2>1. 0..N \subseteq S
    BY <1>2, <1>3, InductionUpTo
  <2> QED
    BY <2>1
<1>5. /\ Cardinality(X) \in Nat /\ Cardinality(a[N]) \in Nat
      /\ Cardinality(a[N]) <= Cardinality(X)
      /\ Cardinality(X) = Cardinality(a[N]) => a[N] = X
  BY <1>1, FS_Subset, FS_CardinalityType
<1> QED
  BY <1>4, <1>5

-----------------------------------------------------------------------------
(* Rounds of a function that adds to a subset of X; the equation of the    *)
(* rounds need only be known where they have come to.                      *)
Adds(F, X) ==
    F \in [SUBSET X -> SUBSET X] /\ \A S \in SUBSET X : S \subseteq F[S]

Rounds(a, F, start, X, N) ==
    /\ start \in SUBSET X /\ a[0] = start
    /\ \A i \in 1..N : a[i - 1] \in SUBSET X => a[i] = F[a[i - 1]]

(* L is what the rounds from start lead to in the end, and nothing else.   *)
Reached(L, F, start, X) ==
    /\ L \in SUBSET X
    /\ start \subseteq L
    /\ F[L] = L
    /\ \A C : /\ start \subseteq C
              /\ \A S \in SUBSET X : S \subseteq C => F[S] \subseteq C
             => L \subseteq C

LEMMA RoundsExist ==
  ASSUME NEW X, NEW F, Adds(F, X), NEW start \in SUBSET X, NEW N \in Nat
  PROVE  \E a : Iterates(a, F, start, SUBSET X, N)
<1> DEFINE Sets == SUBSET X
<1>1. F \in [Sets -> Sets] /\ start \in Sets
  BY DEF Adds
<1> HIDE DEF Sets
<1>2. \E a : Iterates(a, F, start, Sets, N)
  BY <1>1, IterationExists
<1> QED
  BY <1>2 DEF Sets

(* As many rounds as the set has elements are enough. *)
LEMMA RoundsReach ==
  ASSUME NEW X, IsFiniteSet(X), NEW N \in Nat, Cardinality(X) <= N,
         NEW F, Adds(F, X), NEW start, NEW a, Rounds(a, F, start, X, N)
  PROVE  Reached(a[N], F, start, X)
<1>0. /\ F \in [SUBSET X -> SUBSET X] /\ \A S \in SUBSET X : S \subseteq F[S]
      /\ start \in SUBSET X /\ a[0] = start
      /\ \A i \in 1..N : a[i - 1] \in SUBSET X => a[i] = F[a[i - 1]]
  BY DEF Adds, Rounds
<1> USE <1>0
<1>1. \A n \in 0..N : a[n] \in SUBSET X
  <2> DEFINE P == {n \in 0..N : a[n] \in SUBSET X}
  <2>1. 0 \in P
    OBVIOUS
  <2>2. ASSUME NEW n \in 0..(N - 1), n \in P
        PROVE  n + 1 \in P
    <3>1. n + 1 \in 1..N /\ (n + 1) - 1 = n
      OBVIOUS
    <3>2. a[n + 1] = F[a[n]]
      BY <2>2, <3>1
    <3> QED
      BY <2>2, <3>1, <3>2
  <2> HIDE DEF P
  <2>3. 0..N \subseteq P
    BY <2>1, <2>2, InductionUpTo
  <2> QED
    BY <2>3 DEF P
<1>2. \A i \in 1..N : a[i] = F[a[i - 1]] /\ a[i - 1] \subseteq a[i]
  <2> SUFFICES ASSUME NEW i \in 1..N
               PROVE  a[i] = F[a[i - 1]] /\ a[i - 1] \subseteq a[i]
    OBVIOUS
  <2>1. a[i - 1] \in SUBSET X
    BY <1>1
  <2> QED
    BY <2>1
<1>3. start \subseteq a[N]
  <2> DEFINE P == {n \in 0..N : start \subseteq a[n]}
  <2>1. 0 \in P
    OBVIOUS
  <2>2. ASSUME NEW n \in 0..(N - 1), n \in P
        PROVE  n + 1 \in P
    <3>1. n + 1 \in 1..N /\ (n + 1) - 1 = n
      OBVIOUS
    <3> QED
      BY <1>2, <2>2, <3>1
  <2> HIDE DEF P
  <2>3. 0..N \subseteq P
    BY <2>1, <2>2, InductionUpTo
  <2> QED
    BY <2>3 DEF P
<1>4. F[a[N]] = a[N]
  <2>1. CASE a[N] = X
    <3>1. X \in SUBSET X /\ F[X] \in SUBSET X /\ X \subseteq F[X]
      OBVIOUS
    <3> QED
      BY <2>1, <3>1
  <2>2. CASE \E i \in 1..N : a[i - 1] = a[i]
    <3>1. PICK i \in 1..N : a[i - 1] = a[i]
      BY <2>2
    <3> DEFINE P == {n \in 0..N : i <= n => F[a[n]] = a[n]}
    <3>2. F[a[i]] = a[i]
      BY <1>2, <3>1
    <3>3. 0 \in P
      OBVIOUS
    <3>4. ASSUME NEW n \in 0..(N - 1), n \in P
          PROVE  n + 1 \in P
      <4>1. n + 1 \in 1..N /\ (n + 1) - 1 = n
        OBVIOUS
      <4>2. a[n + 1] = F[a[n]]
        BY <1>2, <4>1
      <4>3. CASE i = n + 1
        BY <3>2, <4>1, <4>3
      <4>4. CASE i <= n
        BY <3>4, <4>1, <4>2, <4>4
      <4> QED
        BY <4>1, <4>3, <4>4
    <3> HIDE DEF P
    <3>5. 0..N \subseteq P
      BY <3>3, <3>4, InductionUpTo
    <3> QED
      BY <3>5 DEF P
  <2> QED
    BY <1>1, <1>2, <2>1, <2>2, ChainIsLong
<1>5. ASSUME NEW C, start \subseteq C,
             \A S \in SUBSET X : S \subseteq C => F[S] \subseteq C
      PROVE  a[N] \subseteq C
  <2> DEFINE P == {n \in 0..N : a[n] \subseteq C}
  <2>1. 0 \in P
    BY <1>5
  <2>2. ASSUME NEW n \in 0..(N - 1), n \in P
        PROVE  n + 1 \in P
    <3>1. n + 1 \in 1..N /\ (n + 1) - 1 = n
      OBVIOUS
    <3>2. a[n + 1] = F[a[n]] /\ a[n] \in SUBSET X
      BY <1>1, <1>2, <3>1
    <3> QED
      BY <1>5, <2>2, <3>1, <3>2
  <2> HIDE DEF P
  <2>3. 0..N \subseteq P
    BY <2>1, <2>2, InductionUpTo
  <2> QED
    BY <2>3 DEF P
<1>6. a[N] \in SUBSET X
  BY <1>1
<1> QED
  BY <1>3, <1>4, <1>5, <1>6 DEF Reached

(* A function of steps, each from the one before *)
Takes(a, F, start, X, N) ==
    /\ a \in [0..N -> X]
    /\ a[0] = start
    /\ \A i \in 1..N : a[i] = F[i][a[i - 1]]

(* A function may be computed in steps that differ from each other. *)
LEMMA StepsExist ==
  ASSUME NEW X, NEW N \in Nat, NEW F \in [1..N -> [X -> X]], NEW start \in X
  PROVE  \E a : Takes(a, F, start, X, N)
<1> DEFINE S == {n \in 0..N : \E a : Takes(a, F, start, X, n)}
<1>1. 0 \in S
  <2>1. Takes([i \in 0..0 |-> start], F, start, X, 0)
    BY DEF Takes
  <2> QED
    BY <2>1
<1>2. ASSUME NEW n \in 0..(N - 1), n \in S
      PROVE  n + 1 \in S
  <2>1. PICK a : Takes(a, F, start, X, n)
    BY <1>2
  <2> DEFINE b == [i \in 0..(n + 1) |-> IF i = n + 1 THEN F[n + 1][a[n]] ELSE a[i]]
  <2>2. n + 1 \in 1..N /\ n \in 0..n /\ n \in Nat
    OBVIOUS
  <2>3. F[n + 1][a[n]] \in X
    BY <2>1, <2>2 DEF Takes
  <2>4. b \in [0..(n + 1) -> X]
    BY <2>1, <2>3 DEF Takes
  <2>5. b[0] = start
    BY <2>1 DEF Takes
  <2>6. \A i \in 1..(n + 1) : b[i] = F[i][b[i - 1]]
    BY <2>1 DEF Takes
  <2>7. Takes(b, F, start, X, n + 1)
    BY <2>4, <2>5, <2>6 DEF Takes
  <2> HIDE DEF b
  <2> QED
    BY <2>2, <2>7
<1>3. N \in S
  <2> HIDE DEF S
  <2>1. 0..N \subseteq S
    BY <1>1, <1>2, InductionUpTo
  <2> QED
    BY <2>1
<1> QED
  BY <1>3
=============================================================================
