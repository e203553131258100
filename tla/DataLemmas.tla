----------------------------- MODULE DataLemmas -----------------------------
(****************************************************************************)
(* Lemmas about numbers, finite sets, sequences and the sums and folds of   *)
(* the community modules, which the proofs of several components need.      *)
(* Those that go over all finite sets use a least counterexample.           *)
(****************************************************************************)
EXTENDS Naturals, Sequences, FiniteSets, FiniteSetsExt, SequencesExt, Functions, Folds,
        TLAPS, FiniteSetTheorems, SequenceTheorems, WellFoundedInduction

-----------------------------------------------------------------------------
(* Numbers and finite sets *)

(* A set of naturals has a least element. *)
LEMMA LeastNumber ==
  ASSUME NEW T \in SUBSET Nat, T # {}
  PROVE  \E x \in T : \A y \in T : x <= y
<1>1. PICK R : R = {ss \in Nat \X Nat : ss[1] < ss[2]}
  OBVIOUS
<1>2. IsWellFoundedOn(R, Nat)
  BY <1>1, NatLessThanWellFounded DEF OpToRel
<1>3. PICK x \in T : \A y \in T : ~(<<y, x>> \in R)
  BY <1>2, WFMin
<1>4. \A y \in T : ~(y < x)
  BY <1>1, <1>3
<1>5. QED
  BY <1>4

(* A function of the first numbers is a sequence. *)
LEMMA FunIsSeq ==
  ASSUME NEW n \in Nat, NEW S, NEW f \in [1 .. n -> S]
  PROVE  f \in Seq(S) /\ Len(f) = n
<1>1. f = [i \in 1 .. n |-> f[i]] /\ \A i \in 1 .. n : f[i] \in S
  OBVIOUS
<1>2. QED
  BY <1>1

(* A function that takes no value twice shows two sets to be of one size.    *)
LEMMA SameSize ==
  ASSUME NEW S, IsFiniteSet(S), NEW T, NEW f \in [S -> T],
         \A x, y \in S : f[x] = f[y] => x = y, \A z \in T : \E x \in S : f[x] = z
  PROVE  IsFiniteSet(T) /\ Cardinality(T) = Cardinality(S)
<1>1. f \in Injection(S, T) /\ f \in Surjection(S, T)
  BY DEF Injection, IsInjective, Surjection
<1>2. f \in Bijection(S, T)
  BY <1>1 DEF Bijection
<1>3. ExistsBijection(S, T)
  BY <1>2 DEF ExistsBijection
<1>4. QED
  BY <1>3, FS_Bijection

(* Numbers that are taken once each by a set of their size are all of it.    *)
LEMMA AllTaken ==
  ASSUME NEW T, IsFiniteSet(T), NEW s \in [1 .. Cardinality(T) -> T],
         \A i, j \in 1 .. Cardinality(T) : i # j => s[i] # s[j]
  PROVE  \A x \in T : \E i \in 1 .. Cardinality(T) : s[i] = x
<1>1. PICK n \in Nat : n = Cardinality(T)
  BY FS_CardinalityType
<1>2. Cardinality(1 .. n) = n
  BY FS_Interval
<1>3. s \in [1 .. n -> T]
  BY <1>1
<1>4. s \in Injection(1 .. n, T)
  BY <1>1, <1>3 DEF Injection, IsInjective
<1>5. s \in Surjection(1 .. n, T)
  BY <1>1, <1>2, <1>4, FS_Injection
<1>6. QED
  BY <1>1, <1>5 DEF Surjection

(* A finite set of numbers has a greatest. *)
LEMMA GreatestNumber ==
  ASSUME NEW T \in SUBSET Nat, IsFiniteSet(T), T # {}
  PROVE  \E x \in T : \A y \in T : y <= x
<1>1. PICK B : B = {k \in Nat : \E S \in SUBSET Nat : IsFiniteSet(S) /\ Cardinality(S) = k /\ ~\E b \in Nat : \A y \in S : y <= b}
  OBVIOUS
<1>2. ASSUME B # {}
      PROVE  FALSE
  <2>1. PICK k \in B : \A y \in B : k <= y
    BY <1>1, <1>2, LeastNumber
  <2>2. PICK S \in SUBSET Nat : IsFiniteSet(S) /\ Cardinality(S) = k /\ ~\E b \in Nat : \A y \in S : y <= b
    BY <1>1, <2>1
  <2>3. PICK x : x \in S
    BY <2>2
  <2>4. PICK R : R = S \ {x}
    OBVIOUS
  <2>5. R \in SUBSET Nat /\ IsFiniteSet(R) /\ Cardinality(R) = Cardinality(S) - 1 /\ Cardinality(R) \in Nat
    BY <2>2, <2>3, <2>4, FS_RemoveElement, FS_CardinalityType
  <2>6. Cardinality(R) \notin B
    BY <1>1, <2>1, <2>2, <2>5
  <2>7. PICK b \in Nat : \A y \in R : y <= b
    BY <1>1, <2>5, <2>6
  <2>8. b + x \in Nat /\ \A y \in S : y <= b + x
    BY <2>2, <2>3, <2>4, <2>7
  <2>9. QED
    BY <2>2, <2>8
<1>3. Cardinality(T) \in Nat
  BY FS_CardinalityType
<1>4. PICK b \in Nat : \A y \in T : y <= b
  BY <1>1, <1>2, <1>3
<1>5. PICK D : D = {b - y : y \in T}
  OBVIOUS
<1>6. D \in SUBSET Nat /\ D # {}
  <2>1. \A y \in T : b - y \in Nat
    BY <1>4
  <2>2. QED
    BY <1>5, <2>1
<1>7. PICK d \in D : \A e \in D : d <= e
  BY <1>6, LeastNumber
<1>8. PICK x \in T : d = b - x
  BY <1>5, <1>7
<1>9. \A y \in T : b - x <= b - y
  BY <1>5, <1>7, <1>8
<1>10. QED
  BY <1>4, <1>8, <1>9

(* The image of a finite set is finite. *)
LEMMA ImageFinite ==
  ASSUME NEW S, IsFiniteSet(S), NEW f, DOMAIN f = S, NEW I, I = {f[x] : x \in S}
  PROVE  IsFiniteSet(I) /\ Cardinality(I) <= Cardinality(S)
<1>1. PICK g : g = [x \in S |-> f[x]]
  OBVIOUS
<1>2. g \in Surjection(S, I)
  BY <1>1 DEF Surjection
<1>3. QED
  BY <1>2, FS_Surjection

-----------------------------------------------------------------------------
(* Sums *)

(* The sum over finite sets of indices that the library's folds compute. *)
IsSum(f, g, S) ==
    f = [s \in SUBSET S |-> IF s = {} THEN 0
                            ELSE LET x == CHOOSE x \in s : TRUE IN g[x] + f[s \ {x}]]

(* The same, for the sets of at most K indices. *)
IsSumTo(f, g, S, K) ==
    \A s \in SUBSET S : Cardinality(s) <= K =>
        f[s] = IF s = {} THEN 0 ELSE LET x == CHOOSE x \in s : TRUE IN g[x] + f[s \ {x}]

(* The element chosen of a set, and how many are left. *)
LEMMA ChosenLeft ==
  ASSUME NEW S, IsFiniteSet(S), NEW s \in SUBSET S, s # {}, NEW x, x = CHOOSE y \in s : TRUE
  PROVE  /\ x \in s /\ s \ {x} \in SUBSET S /\ IsFiniteSet(s)
         /\ Cardinality(s) \in Nat /\ Cardinality(s \ {x}) \in Nat
         /\ Cardinality(s \ {x}) = Cardinality(s) - 1
<1>1. x \in s
  OBVIOUS
<1>2. IsFiniteSet(s)
  BY FS_Subset
<1>3. QED
  BY <1>1, <1>2, FS_RemoveElement, FS_CardinalityType

(* The sum exists. *)
LEMMA SumExists ==
  ASSUME NEW S, IsFiniteSet(S), NEW g
  PROVE  \E f : IsSum(f, g, S)
<1>1. PICK T : T = {K \in Nat : ~\E f : IsSumTo(f, g, S, K)}
  OBVIOUS
<1>2. ASSUME T # {}
      PROVE  FALSE
  <2>1. PICK K \in T : \A y \in T : K <= y
    BY <1>1, <1>2, LeastNumber
  <2>2. K \in Nat
    BY <1>1, <2>1
  <2>3. CASE K = 0
    <3>1. PICK f : f = [s \in SUBSET S |-> 0]
      OBVIOUS
    <3>2. ASSUME NEW s \in SUBSET S, Cardinality(s) <= 0
          PROVE  s = {}
      <4>1. IsFiniteSet(s) /\ Cardinality(s) \in Nat
        BY FS_Subset, FS_CardinalityType
      <4>2. Cardinality(s) = 0
        BY <3>2, <4>1
      <4>3. QED
        BY <4>1, <4>2, FS_EmptySet
    <3>3. IsSumTo(f, g, S, K)
      BY <2>3, <3>1, <3>2 DEF IsSumTo
    <3>4. QED
      BY <1>1, <2>1, <3>3
  <2>4. CASE K # 0
    <3>1. K - 1 \in Nat /\ K - 1 \notin T
      BY <2>1, <2>2, <2>4
    <3>2. PICK f : IsSumTo(f, g, S, K - 1)
      BY <1>1, <3>1
    <3>3. PICK h : h = [s \in SUBSET S |-> IF s = {} THEN 0
                                           ELSE LET x == CHOOSE x \in s : TRUE IN g[x] + f[s \ {x}]]
      OBVIOUS
    <3>4. ASSUME NEW s \in SUBSET S, Cardinality(s) <= K - 1
          PROVE  h[s] = f[s]
      BY <3>2, <3>3, <3>4 DEF IsSumTo
    <3>5. ASSUME NEW s \in SUBSET S, Cardinality(s) <= K, s # {}, NEW x, x = CHOOSE y \in s : TRUE
          PROVE  h[s] = g[x] + h[s \ {x}]
      <4>1. s \ {x} \in SUBSET S /\ Cardinality(s \ {x}) <= K - 1
        <5>1. s \ {x} \in SUBSET S /\ Cardinality(s) \in Nat /\ Cardinality(s \ {x}) = Cardinality(s) - 1
          BY <3>5, ChosenLeft, Zenon
        <5>2. QED
          BY <2>2, <3>5, <5>1
      <4>2. h[s \ {x}] = f[s \ {x}]
        BY <3>4, <4>1
      <4>3. QED
        BY <3>3, <3>5, <4>2
    <3>6. h[{}] = 0
      BY <3>3
    <3>7. IsSumTo(h, g, S, K)
      BY <3>5, <3>6 DEF IsSumTo
    <3>8. QED
      BY <1>1, <2>1, <3>7
  <2>5. QED
    BY <2>3, <2>4
<1>3. Cardinality(S) \in Nat
  BY FS_CardinalityType
<1>4. PICK f : IsSumTo(f, g, S, Cardinality(S))
  BY <1>1, <1>2, <1>3
<1>5. \A s \in SUBSET S : Cardinality(s) <= Cardinality(S)
  BY FS_Subset
<1>6. PICK h : h = [s \in SUBSET S |-> f[s]]
  OBVIOUS
<1>7. ASSUME NEW s \in SUBSET S, s # {}, NEW x, x = CHOOSE y \in s : TRUE
      PROVE  h[s] = g[x] + h[s \ {x}]
  <2>1. s \ {x} \in SUBSET S
    OBVIOUS
  <2>2. f[s] = g[x] + f[s \ {x}]
    BY <1>4, <1>5, <1>7 DEF IsSumTo
  <2>3. QED
    BY <1>6, <2>1, <2>2
<1>8. h[{}] = 0
  BY <1>4, <1>5, <1>6 DEF IsSumTo
<1>9. h = [s \in SUBSET S |-> IF s = {} THEN 0 ELSE LET x == CHOOSE x \in s : TRUE IN g[x] + h[s \ {x}]]
  <2>1. h = [s \in SUBSET S |-> h[s]]
    BY <1>6
  <2>2. \A s \in SUBSET S : h[s] = IF s = {} THEN 0 ELSE LET x == CHOOSE x \in s : TRUE IN g[x] + h[s \ {x}]
    BY <1>7, <1>8
  <2>3. QED
    BY <2>1, <2>2
<1>10. QED
  BY <1>9 DEF IsSum

(* A sum of terms that are at most B. *)
LEMMA SumBound ==
  ASSUME NEW S, IsFiniteSet(S), NEW B \in Nat, NEW g, \A x \in S : g[x] \in 0 .. B, NEW f, IsSum(f, g, S)
  PROVE  f[S] \in Nat /\ f[S] <= B * Cardinality(S)
<1>1. \A s \in SUBSET S : IsFiniteSet(s) /\ Cardinality(s) \in Nat
  BY FS_Subset, FS_CardinalityType
<1> DEFINE Bad(s) == ~(f[s] \in Nat /\ f[s] <= B * Cardinality(s))
<1>2. PICK T : T = {K \in Nat : \E s \in SUBSET S : Cardinality(s) = K /\ Bad(s)}
  OBVIOUS
<1>3. ASSUME T # {}
      PROVE  FALSE
  <2>1. PICK K \in T : \A y \in T : K <= y
    BY <1>2, <1>3, LeastNumber
  <2>2. K \in Nat
    BY <1>2, <2>1
  <2>3. PICK s \in SUBSET S : Cardinality(s) = K /\ Bad(s)
    BY <1>2, <2>1
  <2>4. CASE s = {}
    <3>1. f[s] = 0
      BY <2>4 DEF IsSum
    <3>2. QED
      BY <2>2, <2>3, <3>1
  <2>5. CASE s # {}
    <3>1. PICK x : x = CHOOSE y \in s : TRUE
      OBVIOUS
    <3>2. /\ x \in s /\ s \ {x} \in SUBSET S /\ Cardinality(s \ {x}) \in Nat
          /\ Cardinality(s \ {x}) = K - 1
      BY <2>3, <2>5, <3>1, ChosenLeft
    <3>3. f[s] = g[x] + f[s \ {x}]
      BY <2>5, <3>1 DEF IsSum
    <3>4. ~Bad(s \ {x})
      BY <1>2, <2>1, <2>2, <3>2
    <3>5. g[x] \in 0 .. B
      BY <3>2
    <3>6. PICK a, b : a = f[s \ {x}] /\ b = g[x]
      OBVIOUS
    <3>7. a \in Nat /\ a <= B * (K - 1) /\ b \in Nat /\ b <= B /\ f[s] = b + a
      BY <3>2, <3>3, <3>4, <3>5, <3>6
    <3>8. B * (K - 1) + B = B * K
      BY <2>2
    <3>9. f[s] \in Nat /\ f[s] <= B * K
      BY <2>2, <3>7, <3>8
    <3>10. QED
      BY <2>3, <3>9
  <2>6. QED
    BY <2>4, <2>5
<1>4. ~Bad(S)
  BY <1>1, <1>2, <1>3
<1>5. QED
  BY <1>4

(* What the library's fold computes of a sequence of numbers. *)
LEMMA FoldIs ==
  ASSUME NEW S, NEW q \in Seq(S)
  PROVE  \E f : IsSum(f, q, DOMAIN q) /\ FoldSeq(+, 0, q) = f[DOMAIN q]
<1>1. PICK D : D = DOMAIN q
  OBVIOUS
<1>2. IsFiniteSet(D)
  BY <1>1, FS_Interval, LenProperties
<1>3. PICK i : i = CHOOSE f : IsSum(f, q, D)
  OBVIOUS
<1>4. IsSum(i, q, D)
  BY <1>2, <1>3, SumExists
<1>5. FoldSeq(+, 0, q) = i[D]
  BY <1>1, <1>3 DEF IsSum, FoldSeq, FoldFunction, FoldFunctionOnSet, MapThenFoldSet
<1>6. QED
  BY <1>1, <1>4, <1>5

(* The library's fold of a function with + is that sum. *)
LEMMA FoldFunctionIs ==
  ASSUME NEW D, IsFiniteSet(D), NEW g, DOMAIN g = D
  PROVE  \E f : IsSum(f, g, D) /\ FoldFunction(+, 0, g) = f[D]
<1>1. PICK i : i = CHOOSE f : IsSum(f, g, D)
  OBVIOUS
<1>2. IsSum(i, g, D)
  BY <1>1, SumExists
<1>3. FoldFunction(+, 0, g) = i[D]
  BY <1>1 DEF IsSum, FoldFunction, FoldFunctionOnSet, MapThenFoldSet
<1>4. QED
  BY <1>2, <1>3

(* How many elements of S belong to each of U. *)
PartsOf(S, own, U) == [u \in U |-> Cardinality({s \in S : own[s] = u})]

(* A finite set that is divided among finitely many has as many elements as  *)
(* its parts together.                                                       *)
LEMMA SumOfParts ==
  ASSUME NEW S, IsFiniteSet(S), NEW U, IsFiniteSet(U), NEW own \in [S -> U]
  PROVE  FoldFunction(+, 0, PartsOf(S, own, U)) = Cardinality(S)
<1> DEFINE g == PartsOf(S, own, U)
<1>0. DOMAIN g = U /\ \A u \in U : g[u] = Cardinality({s \in S : own[s] = u})
  BY DEF PartsOf
<1> HIDE DEF g
<1>1. PICK f : IsSum(f, g, U) /\ FoldFunction(+, 0, g) = f[U]
  BY <1>0, FoldFunctionIs
<1> DEFINE In(V) == {s \in S : own[s] \in V}
<1>2. \A V \in SUBSET U : IsFiniteSet(V) /\ Cardinality(V) \in Nat
  BY FS_Subset, FS_CardinalityType
<1>3. PICK T : T = {K \in Nat : \E V \in SUBSET U : Cardinality(V) = K /\ f[V] # Cardinality(In(V))}
  OBVIOUS
<1>4. ASSUME T # {}
      PROVE  FALSE
  <2>1. PICK K \in T : \A y \in T : K <= y
    BY <1>3, <1>4, LeastNumber
  <2>2. PICK V \in SUBSET U : Cardinality(V) = K /\ f[V] # Cardinality(In(V))
    BY <1>3, <2>1
  <2>3. CASE V = {}
    <3>1. f[V] = 0
      BY <1>1, <2>3 DEF IsSum
    <3>2. In(V) = {}
      BY <2>3
    <3>3. QED
      BY <2>2, <3>1, <3>2, FS_EmptySet
  <2>4. CASE V # {}
    <3>1. PICK x : x = CHOOSE y \in V : TRUE
      OBVIOUS
    <3>2. PICK W : W = V \ {x}
      OBVIOUS
    <3>3. /\ x \in V /\ W \in SUBSET U /\ Cardinality(W) \in Nat
          /\ Cardinality(W) = K - 1
      BY <2>2, <2>4, <3>1, <3>2, ChosenLeft
    <3>4. f[V] = g[x] + f[W]
      BY <1>1, <2>4, <3>1, <3>2 DEF IsSum
    <3>5. K \in Nat /\ K - 1 \notin T
      BY <1>3, <2>1
    <3>6. f[W] = Cardinality(In(W))
      BY <1>3, <3>3, <3>5
    <3>7. PICK X : X = {s \in S : own[s] = x}
      OBVIOUS
    <3>8. g[x] = Cardinality(X)
      BY <1>0, <3>3, <3>7
    <3>9. PICK Y : Y = In(W)
      OBVIOUS
    <3>10. IsFiniteSet(X) /\ IsFiniteSet(Y)
      BY <3>7, <3>9, FS_Subset
    <3>11. X \cup Y = In(V) /\ X \cap Y = {}
      BY <3>2, <3>3, <3>7, <3>9
    <3>12. Cardinality(X \cup Y) = Cardinality(X) + Cardinality(Y)
      <4>1. Cardinality(X \cup Y) = Cardinality(X) + Cardinality(Y) - Cardinality(X \cap Y)
        BY <3>10, FS_Union
      <4>2. Cardinality(X \cap Y) = 0
        BY <3>11, FS_EmptySet
      <4>3. Cardinality(X) \in Nat /\ Cardinality(Y) \in Nat
        BY <3>10, FS_CardinalityType
      <4>4. QED
        BY <4>1, <4>2, <4>3
    <3>13. QED
      BY <2>2, <3>4, <3>6, <3>8, <3>9, <3>11, <3>12
  <2>5. QED
    BY <2>3, <2>4
<1>5. f[U] = Cardinality(In(U))
  BY <1>2, <1>3, <1>4
<1>6. In(U) = S
  OBVIOUS
<1>7. QED
  BY <1>1, <1>5, <1>6 DEF g

-----------------------------------------------------------------------------
(* The greatest of a set *)

(* What Max returns. *)
LEMMA MaxIs ==
  ASSUME NEW T \in SUBSET Nat, IsFiniteSet(T), T # {}
  PROVE  Max(T) \in T /\ \A y \in T : y <= Max(T)
<1>1. PICK x \in T : \A y \in T : y <= x
  BY GreatestNumber
<1>2. \A y \in T : x >= y
  BY <1>1
<1>3. Max(T) \in T /\ \A y \in T : Max(T) >= y
  BY <1>2 DEF Max
<1>4. QED
  BY <1>3

(* A set of numbers without its greatest. *)
LEMMA MaxLeft ==
  ASSUME NEW n \in Nat, NEW s \in SUBSET (1 .. n), s # {}, NEW x, x = Max(s)
  PROVE  /\ x \in s /\ s \ {x} \in SUBSET (1 .. n) /\ IsFiniteSet(s)
         /\ Cardinality(s) \in Nat /\ Cardinality(s \ {x}) \in Nat
         /\ Cardinality(s \ {x}) = Cardinality(s) - 1
<1>1. IsFiniteSet(s)
  <2>1. IsFiniteSet(1 .. n)
    BY FS_Interval
  <2>2. QED
    BY <2>1, FS_Subset
<1>2. s \in SUBSET Nat
  OBVIOUS
<1>3. x \in s
  BY <1>1, <1>2, MaxIs
<1>4. QED
  BY <1>1, <1>3, FS_RemoveElement, FS_CardinalityType

(* The first k numbers without their greatest. *)
LEMMA MaxInterval ==
  ASSUME NEW k \in Nat, k # 0
  PROVE  Max(1 .. k) = k /\ (1 .. k) \ {k} = 1 .. k - 1 /\ 1 .. k # {}
<1>1. 1 .. k \in SUBSET Nat /\ IsFiniteSet(1 .. k) /\ k \in 1 .. k
  BY FS_Interval
<1>2. Max(1 .. k) \in 1 .. k /\ k <= Max(1 .. k)
  BY <1>1, MaxIs
<1>3. Max(1 .. k) = k
  BY <1>2
<1>4. QED
  BY <1>1, <1>3
=============================================================================
