----------------------------- MODULE SidePotsProofs -----------------------------
(***************************************************************************)
(* What the operators of SidePots do, for every board: the pots are all    *)
(* the chips in the middle, and a pot is paid to the chip.  The first half *)
(* is about sums over finite sets, which the module states once for        *)
(* everybody who needs them.                                               *)
(***************************************************************************)
EXTENDS SidePots, FiniteSetTheorems, WellFoundedInduction, TLAPS

-----------------------------------------------------------------------------
(* Finite sets                                                             *)

LEMMA SubsetsWellFounded ==
    ASSUME NEW U, IsFiniteSet(U)
    PROVE  IsWellFoundedOn(StrictSubsetOrdering(U), SUBSET U)
BY FS_StrictSubsetOrderingWellFounded, FS_FiniteSubsetsOfFinite

(* A set of sets that holds every set of which it holds whatever lacks one *)
(* of its elements, holds every finite set: there is no least one outside. *)
LEMMA SetInduct ==
    ASSUME NEW U, IsFiniteSet(U), NEW T,
           \A A \in SUBSET U : (\A x \in A : A \ {x} \in T) => A \in T
    PROVE  U \in T
<1> DEFINE Out == (SUBSET U) \ T
<1> SUFFICES ASSUME U \notin T PROVE FALSE
  OBVIOUS
<1>1. IsWellFoundedOn(StrictSubsetOrdering(U), SUBSET U)
  BY SubsetsWellFounded
<1>2. PICK A \in Out : \A B \in Out : <<B, A>> \notin StrictSubsetOrdering(U)
  <2>1. Out \subseteq SUBSET U /\ Out # {}
    <3>1. U \in Out
      OBVIOUS
    <3> QED
      BY <3>1
  <2> HIDE DEF Out
  <2> QED
    BY <1>1, <2>1, WFMin
<1>3. ASSUME NEW x \in A PROVE A \ {x} \in T
  <2>1. A \ {x} \in SUBSET U /\ A \in SUBSET U /\ A \ {x} \subseteq A /\ A \ {x} # A
    OBVIOUS
  <2>2. <<A \ {x}, A>> \in StrictSubsetOrdering(U)
    BY <2>1 DEF StrictSubsetOrdering
  <2> QED
    BY <1>2, <2>2
<1> QED
  BY <1>2, <1>3

-----------------------------------------------------------------------------
(* Sums                                                                    *)

IsIter(it, f, S) ==
    it = [s \in SUBSET S |->
             IF s = {} THEN 0 ELSE LET x == CHOOSE x \in s : TRUE IN f[x] + it[s \ {x}]]

(* g gives the sum of f over every subset of S.                            *)
IsSum(g, f, S) ==
    /\ g \in [SUBSET S -> Int]
    /\ g[{}] = 0
    /\ \A A \in SUBSET S : \A x \in A : g[A] = f[x] + g[A \ {x}]

LEMMA SumUnfolds ==
    ASSUME NEW f, NEW S
    PROVE  SumFunctionOnSet(f, S) = (CHOOSE it : IsIter(it, f, S))[S]
BY DEF SumFunctionOnSet, FoldFunctionOnSet, MapThenFoldSet, IsIter

LEMMA SumExists ==
    ASSUME NEW S, IsFiniteSet(S), NEW f, \A x \in S : f[x] \in Int
    PROVE  \E g : IsSum(g, f, S)
<1> DEFINE T == {A \in SUBSET S : \E g : IsSum(g, f, A)}
<1>1. {} \in T
  <2>1. IsSum([A \in {{}} |-> 0], f, {})
    BY DEF IsSum
  <2> QED
    BY <2>1
<1>2. ASSUME NEW A \in SUBSET S, NEW x \in S, A \in T PROVE A \cup {x} \in T
  <2>1. CASE x \in A
    <3>1. A \cup {x} = A
      BY <2>1
    <3> QED
      BY <1>2, <3>1
  <2>2. CASE x \notin A
    <3>1. PICK g : IsSum(g, f, A)
      BY <1>2
    <3> DEFINE B == A \cup {x}
               h == [C \in SUBSET B |-> IF x \in C THEN f[x] + g[C \ {x}] ELSE g[C]]
    <3>2. \A C \in SUBSET B : C \ {x} \in SUBSET A /\ (x \notin C => C \in SUBSET A)
      OBVIOUS
    <3>3. h \in [SUBSET B -> Int] /\ h[{}] = 0
      BY <3>1, <3>2 DEF IsSum
    <3>4. ASSUME NEW C \in SUBSET B, NEW y \in C PROVE h[C] = f[y] + h[C \ {y}]
      <4>0. C \ {y} \in SUBSET B
        OBVIOUS
      <4>1. CASE y = x
        <5>1. h[C \ {x}] = g[C \ {x}]
          BY <4>0, <4>1
        <5> QED
          BY <4>1, <5>1
      <4>2. CASE y # x /\ x \notin C
        BY <3>1, <3>2, <4>0, <4>2 DEF IsSum
      <4>3. CASE y # x /\ x \in C
        <5>1. h[C] = f[x] + g[C \ {x}] /\ h[C \ {y}] = f[x] + g[(C \ {y}) \ {x}]
          BY <4>0, <4>3
        <5>2. g[C \ {x}] = f[y] + g[(C \ {x}) \ {y}]
          BY <3>1, <3>2, <4>3 DEF IsSum
        <5>3. (C \ {x}) \ {y} = (C \ {y}) \ {x}
          OBVIOUS
        <5>4. g[(C \ {x}) \ {y}] \in Int /\ f[x] \in Int /\ f[y] \in Int
          <6>1. (C \ {x}) \ {y} \in SUBSET A
            OBVIOUS
          <6>2. y \in S
            <7>1. A \in SUBSET S /\ x \in S
              BY <1>2
            <7>2. y \in A \/ y = x
              BY <3>4
            <7> HIDE DEF h
            <7> QED
              BY <7>1, <7>2
          <6> QED
            BY <3>1, <6>1, <6>2 DEF IsSum
        <5>5. h[C \ {y}] = f[x] + g[(C \ {x}) \ {y}]
          BY <5>1, <5>3, Zenon
        <5>6. g[C \ {x}] \in Int
          BY <5>2, <5>4
        <5> HIDE DEF h
        <5> QED
          BY <5>1, <5>2, <5>4, <5>5, <5>6
      <4> QED
        BY <4>1, <4>2, <4>3
    <3> HIDE DEF h
    <3>5. IsSum(h, f, B)
      BY <3>3, <3>4 DEF IsSum
    <3> QED
      BY <3>5
  <2> QED
    BY <2>1, <2>2
<1> HIDE DEF T
<1>3. ASSUME NEW A \in SUBSET S, \A x \in A : A \ {x} \in T PROVE A \in T
  <2>1. CASE A = {}
    BY <1>1, <2>1
  <2>2. CASE A # {}
    <3>1. PICK x \in A : TRUE
      BY <2>2
    <3>2. A \ {x} \in SUBSET S /\ x \in S /\ A \ {x} \in T
      BY <1>3, <3>1
    <3>3. (A \ {x}) \cup {x} \in T
      BY <1>2, <3>2
    <3>4. (A \ {x}) \cup {x} = A
      BY <3>1
    <3> QED
      BY <3>3, <3>4
  <2> QED
    BY <2>1, <2>2
<1>4. S \in T
  BY <1>3, SetInduct
<1> QED
  BY <1>4 DEF T

LEMMA SumIs ==
    ASSUME NEW S, IsFiniteSet(S), NEW f, NEW g, IsSum(g, f, S)
    PROVE  SumFunctionOnSet(f, S) = g[S]
<1> DEFINE it == CHOOSE h : IsIter(h, f, S)
<1>1. IsIter(g, f, S)
  <2>1. ASSUME NEW A \in SUBSET S, A # {}
        PROVE  g[A] = LET x == CHOOSE x \in A : TRUE IN f[x] + g[A \ {x}]
    <3>1. (CHOOSE x \in A : TRUE) \in A
      BY <2>1
    <3> QED
      BY <3>1 DEF IsSum
  <2>2. g = [A \in SUBSET S |-> g[A]]
    BY DEF IsSum
  <2> QED
    BY <2>1, <2>2, Zenon DEF IsIter, IsSum
<1>2. IsIter(it, f, S)
  BY <1>1
<1> HIDE DEF it
<1>3. it[{}] = 0
  BY <1>2 DEF IsIter
<1>4. ASSUME NEW A \in SUBSET S, A # {} PROVE \E x \in A : it[A] = f[x] + it[A \ {x}]
  <2>1. (CHOOSE x \in A : TRUE) \in A
    BY <1>4
  <2>2. it[A] = LET x == CHOOSE x \in A : TRUE IN f[x] + it[A \ {x}]
    BY <1>2, <1>4, Zenon DEF IsIter
  <2> QED
    BY <2>1, <2>2
<1> DEFINE T == {A \in SUBSET S : it[A] = g[A]}
<1>5. {} \in T
  BY <1>3 DEF IsSum
<1>6. ASSUME NEW A \in SUBSET S, \A x \in A : A \ {x} \in T PROVE A \in T
  <2>1. CASE A = {}
    BY <1>5, <2>1
  <2>2. CASE A # {}
    <3>1. PICK x \in A : it[A] = f[x] + it[A \ {x}]
      BY <1>4, <2>2
    <3>2. it[A \ {x}] = g[A \ {x}]
      BY <1>6
    <3> QED
      BY <3>1, <3>2 DEF IsSum
  <2> QED
    BY <2>1, <2>2
<1>9. it[S] = g[S]
  <2> HIDE DEF T
  <2>1. S \in T
    BY <1>6, SetInduct
  <2> QED
    BY <2>1 DEF T
<1> QED
  BY <1>9, SumUnfolds DEF it
(* The sum over a set is the value of one element and the sum of the rest. *)
LEMMA SumSteps ==
    ASSUME NEW S, IsFiniteSet(S), NEW f, \A x \in S : f[x] \in Int
    PROVE  /\ SumFunctionOnSet(f, {}) = 0
           /\ \A A \in SUBSET S : SumFunctionOnSet(f, A) \in Int
           /\ \A A \in SUBSET S : \A x \in A :
                 SumFunctionOnSet(f, A) = f[x] + SumFunctionOnSet(f, A \ {x})
<1>1. PICK g : IsSum(g, f, S)
  BY SumExists
<1>2. ASSUME NEW A \in SUBSET S PROVE SumFunctionOnSet(f, A) = g[A]
  <2> DEFINE h == [B \in SUBSET A |-> g[B]]
  <2>1. IsSum(h, f, A)
    <3>1. h \in [SUBSET A -> Int] /\ h[{}] = 0
      BY <1>1 DEF IsSum
    <3>2. \A B \in SUBSET A : \A x \in B : h[B] = f[x] + h[B \ {x}]
      BY <1>1 DEF IsSum
    <3> HIDE DEF h
    <3> QED
      BY <3>1, <3>2 DEF IsSum
  <2>2. IsFiniteSet(A)
    BY FS_Subset
  <2>3. SumFunctionOnSet(f, A) = h[A]
    <3> HIDE DEF h
    <3> QED
      BY <2>1, <2>2, SumIs
  <2> QED
    BY <2>3
<1>3. {} \in SUBSET S /\ g[{}] = 0
  BY <1>1 DEF IsSum
<1>4. \A A \in SUBSET S : SumFunctionOnSet(f, A) \in Int
  BY <1>1, <1>2 DEF IsSum
<1>5. ASSUME NEW A \in SUBSET S, NEW x \in A
      PROVE  SumFunctionOnSet(f, A) = f[x] + SumFunctionOnSet(f, A \ {x})
  <2>1. A \ {x} \in SUBSET S
    OBVIOUS
  <2>2. g[A] = f[x] + g[A \ {x}]
    BY <1>1 DEF IsSum
  <2> QED
    BY <1>2, <2>1, <2>2
<1>6. SumFunctionOnSet(f, {}) = 0
  BY <1>2, <1>3
<1> QED
  BY <1>4, <1>5, <1>6

LEMMA SumIsInt ==
    ASSUME NEW S, IsFiniteSet(S), NEW f, \A x \in S : f[x] \in Int
    PROVE  SumFunctionOnSet(f, S) \in Int
BY SumSteps

LEMMA SumAdds ==
    ASSUME NEW S, IsFiniteSet(S), NEW f, NEW g, NEW h,
           \A x \in S : f[x] \in Int /\ g[x] \in Int /\ h[x] = f[x] + g[x]
    PROVE  SumFunctionOnSet(h, S) = SumFunctionOnSet(f, S) + SumFunctionOnSet(g, S)
<1> DEFINE T == {A \in SUBSET S : SumFunctionOnSet(h, A)
                                    = SumFunctionOnSet(f, A) + SumFunctionOnSet(g, A)}
<1>1. \A x \in S : f[x] \in Int /\ g[x] \in Int /\ h[x] \in Int
  OBVIOUS
<1>2. ASSUME NEW A \in SUBSET S, \A x \in A : A \ {x} \in T PROVE A \in T
  <2>1. CASE A = {}
    BY <1>1, <2>1, SumSteps
  <2>2. CASE A # {}
    <3>1. PICK x \in A : TRUE
      BY <2>2
    <3>2. SumFunctionOnSet(h, A \ {x})
            = SumFunctionOnSet(f, A \ {x}) + SumFunctionOnSet(g, A \ {x})
      BY <1>2, <3>1
    <3>3. /\ SumFunctionOnSet(h, A) = h[x] + SumFunctionOnSet(h, A \ {x})
          /\ SumFunctionOnSet(f, A) = f[x] + SumFunctionOnSet(f, A \ {x})
          /\ SumFunctionOnSet(g, A) = g[x] + SumFunctionOnSet(g, A \ {x})
      BY <1>1, <3>1, SumSteps
    <3>4. SumFunctionOnSet(f, A \ {x}) \in Int /\ SumFunctionOnSet(g, A \ {x}) \in Int
      BY <1>1, SumSteps
    <3>5. h[x] = f[x] + g[x] /\ f[x] \in Int /\ g[x] \in Int
      BY <3>1
    <3>6. SumFunctionOnSet(h, A) = SumFunctionOnSet(f, A) + SumFunctionOnSet(g, A)
      BY <3>2, <3>3, <3>4, <3>5
    <3> QED
      BY <3>6
  <2> QED
    BY <2>1, <2>2
<1>3. S \in T
  <2> HIDE DEF T
  <2> QED
    BY <1>2, SetInduct
<1> QED
  BY <1>3

(* A number that is twice itself is zero.                                  *)
LEMMA DoubleIsZero ==
    ASSUME NEW n \in Int, n = n + n
    PROVE  n = 0
OBVIOUS

LEMMA SumOfZeros ==
    ASSUME NEW S, IsFiniteSet(S), NEW f, \A x \in S : f[x] = 0
    PROVE  SumFunctionOnSet(f, S) = 0
<1>1. \A x \in S : f[x] \in Int /\ f[x] = f[x] + f[x]
  OBVIOUS
<1>2. SumFunctionOnSet(f, S) = SumFunctionOnSet(f, S) + SumFunctionOnSet(f, S)
  BY <1>1, SumAdds
<1>3. SumFunctionOnSet(f, S) \in Int
  BY <1>1, SumIsInt
<1> QED
  BY <1>2, <1>3, DoubleIsZero

LEMMA SumMonotone ==
    ASSUME NEW S, IsFiniteSet(S), NEW f, NEW g,
           \A x \in S : f[x] \in Int /\ g[x] \in Int /\ f[x] <= g[x]
    PROVE  SumFunctionOnSet(f, S) <= SumFunctionOnSet(g, S)
<1> DEFINE T == {A \in SUBSET S : SumFunctionOnSet(f, A) <= SumFunctionOnSet(g, A)}
<1>1. ASSUME NEW A \in SUBSET S, \A x \in A : A \ {x} \in T PROVE A \in T
  <2>1. CASE A = {}
    BY <2>1, SumSteps
  <2>2. CASE A # {}
    <3>1. PICK x \in A : TRUE
      BY <2>2
    <3>2. SumFunctionOnSet(f, A \ {x}) <= SumFunctionOnSet(g, A \ {x})
      BY <1>1, <3>1
    <3>3. /\ SumFunctionOnSet(f, A) = f[x] + SumFunctionOnSet(f, A \ {x})
          /\ SumFunctionOnSet(g, A) = g[x] + SumFunctionOnSet(g, A \ {x})
      BY <3>1, SumSteps
    <3>4. SumFunctionOnSet(f, A \ {x}) \in Int /\ SumFunctionOnSet(g, A \ {x}) \in Int
      BY SumSteps
    <3>5. f[x] <= g[x] /\ f[x] \in Int /\ g[x] \in Int
      BY <3>1
    <3>6. SumFunctionOnSet(f, A) <= SumFunctionOnSet(g, A)
      BY <3>2, <3>3, <3>4, <3>5
    <3> QED
      BY <3>6
  <2> QED
    BY <2>1, <2>2
<1>2. S \in T
  <2> HIDE DEF T
  <2> QED
    BY <1>1, SetInduct
<1> QED
  BY <1>2

LEMMA SumEqual ==
    ASSUME NEW S, IsFiniteSet(S), NEW f, NEW g, \A x \in S : f[x] \in Int /\ f[x] = g[x]
    PROVE  SumFunctionOnSet(f, S) = SumFunctionOnSet(g, S)
<1>1. SumFunctionOnSet(f, S) <= SumFunctionOnSet(g, S)
  BY SumMonotone
<1>2. SumFunctionOnSet(g, S) <= SumFunctionOnSet(f, S)
  BY SumMonotone
<1>3. SumFunctionOnSet(f, S) \in Int /\ SumFunctionOnSet(g, S) \in Int
  BY SumIsInt
<1> QED
  BY <1>1, <1>2, <1>3

LEMMA SumIsNat ==
    ASSUME NEW S, IsFiniteSet(S), NEW f, \A x \in S : f[x] \in Nat
    PROVE  SumFunctionOnSet(f, S) \in Nat
<1> DEFINE zero == [x \in S |-> 0]
<1>1. SumFunctionOnSet(zero, S) = 0
  BY SumOfZeros
<1>2. \A x \in S : zero[x] \in Int /\ f[x] \in Int /\ zero[x] <= f[x]
  OBVIOUS
<1>3. SumFunctionOnSet(zero, S) <= SumFunctionOnSet(f, S)
  <2> HIDE DEF zero
  <2> QED
    BY <1>2, SumMonotone
<1>4. SumFunctionOnSet(f, S) \in Int
  BY SumIsInt
<1> QED
  BY <1>1, <1>3, <1>4

LEMMA SumSplits ==
    ASSUME NEW S, IsFiniteSet(S), NEW f, \A x \in S : f[x] \in Int, NEW A \in SUBSET S
    PROVE  SumFunctionOnSet(f, S) = SumFunctionOnSet(f, A) + SumFunctionOnSet(f, S \ A)
<1> DEFINE T == {B \in SUBSET S : SumFunctionOnSet(f, S)
                                    = SumFunctionOnSet(f, B) + SumFunctionOnSet(f, S \ B)}
<1>1. ASSUME NEW B \in SUBSET A, \A x \in B : B \ {x} \in T PROVE B \in T
  <2>1. CASE B = {}
    <3>1. S \ B = S /\ SumFunctionOnSet(f, S) \in Int
      BY <2>1, SumSteps
    <3>2. SumFunctionOnSet(f, B) = 0
      BY <2>1, SumSteps
    <3> QED
      BY <2>1, <3>1, <3>2
  <2>2. CASE B # {}
    <3>1. PICK x \in B : TRUE
      BY <2>2
    <3>2. SumFunctionOnSet(f, S)
            = SumFunctionOnSet(f, B \ {x}) + SumFunctionOnSet(f, S \ (B \ {x}))
      BY <1>1, <3>1
    <3>3. B \in SUBSET S /\ S \ (B \ {x}) \in SUBSET S /\ x \in S \ (B \ {x})
      BY <3>1
    <3>4. SumFunctionOnSet(f, B) = f[x] + SumFunctionOnSet(f, B \ {x})
      BY <3>1, <3>3, SumSteps
    <3>5. SumFunctionOnSet(f, S \ (B \ {x})) = f[x] + SumFunctionOnSet(f, (S \ (B \ {x})) \ {x})
      BY <3>3, SumSteps
    <3>6. (S \ (B \ {x})) \ {x} = S \ B
      BY <3>1
    <3>7. /\ f[x] \in Int /\ SumFunctionOnSet(f, B \ {x}) \in Int
          /\ SumFunctionOnSet(f, S \ B) \in Int
      <4>1. x \in S /\ B \ {x} \in SUBSET S /\ S \ B \in SUBSET S
        BY <3>3
      <4> QED
        BY <4>1, SumSteps
    <3>8. SumFunctionOnSet(f, S \ (B \ {x})) = f[x] + SumFunctionOnSet(f, S \ B)
      BY <3>5, <3>6, Zenon
    <3>9. SumFunctionOnSet(f, S) = SumFunctionOnSet(f, B) + SumFunctionOnSet(f, S \ B)
      BY <3>2, <3>4, <3>7, <3>8
    <3> QED
      BY <3>3, <3>9
  <2> QED
    BY <2>1, <2>2
<1>2. A \in T
  <2> HIDE DEF T
  <2>1. IsFiniteSet(A)
    BY FS_Subset
  <2> QED
    BY <1>1, <2>1, SetInduct
<1> QED
  BY <1>2

(* What is zero outside of a set is summed over that set.                  *)
LEMMA SumWithin ==
    ASSUME NEW S, IsFiniteSet(S), NEW f, \A x \in S : f[x] \in Int,
           NEW A \in SUBSET S, \A x \in S \ A : f[x] = 0
    PROVE  SumFunctionOnSet(f, S) = SumFunctionOnSet(f, A)
<1>1. SumFunctionOnSet(f, S) = SumFunctionOnSet(f, A) + SumFunctionOnSet(f, S \ A)
  BY SumSplits
<1>2. IsFiniteSet(S \ A)
  BY FS_Subset
<1>3. SumFunctionOnSet(f, S \ A) = 0
  BY <1>2, SumOfZeros
<1>4. SumFunctionOnSet(f, A) \in Int
  BY SumSteps
<1> QED
  BY <1>1, <1>3, <1>4

LEMMA SumOfOne ==
    ASSUME NEW S, IsFiniteSet(S), NEW x \in S, NEW f, \A y \in S : f[y] \in Int,
           \A y \in S \ {x} : f[y] = 0
    PROVE  SumFunctionOnSet(f, S) = f[x]
<1>1. SumFunctionOnSet(f, S) = f[x] + SumFunctionOnSet(f, S \ {x})
  BY SumSteps
<1>2. IsFiniteSet(S \ {x})
  BY FS_Subset
<1>3. SumFunctionOnSet(f, S \ {x}) = 0
  BY <1>2, SumOfZeros
<1> QED
  BY <1>1, <1>3

(* A constant summed over a set is so many times its cardinality.          *)
LEMMA SumOfConstant ==
    ASSUME NEW S, IsFiniteSet(S), NEW n \in Int, NEW f, \A x \in S : f[x] = n
    PROVE  SumFunctionOnSet(f, S) = n * Cardinality(S)
<1> DEFINE T == {A \in SUBSET S : SumFunctionOnSet(f, A) = n * Cardinality(A)}
<1>1. ASSUME NEW A \in SUBSET S, \A x \in A : A \ {x} \in T PROVE A \in T
  <2>0. IsFiniteSet(A)
    BY FS_Subset
  <2>1. CASE A = {}
    <3>1. SumFunctionOnSet(f, A) = 0
      BY <2>1, SumSteps
    <3>2. Cardinality(A) = 0
      BY <2>1, FS_EmptySet
    <3> QED
      BY <3>1, <3>2
  <2>2. CASE A # {}
    <3>1. PICK x \in A : TRUE
      BY <2>2
    <3>2. SumFunctionOnSet(f, A \ {x}) = n * Cardinality(A \ {x})
      BY <1>1, <3>1
    <3>3. SumFunctionOnSet(f, A) = n + SumFunctionOnSet(f, A \ {x})
      BY <3>1, SumSteps
    <3>4. Cardinality(A \ {x}) = Cardinality(A) - 1 /\ Cardinality(A) \in Nat
      BY <2>0, <3>1, FS_RemoveElement, FS_CardinalityType
    <3>5. n + n * (Cardinality(A) - 1) = n * Cardinality(A)
      BY <3>4
    <3>6. SumFunctionOnSet(f, A) = n * Cardinality(A)
      BY <3>2, <3>3, <3>4, <3>5
    <3> QED
      BY <3>6
  <2> QED
    BY <2>1, <2>2
<1>2. S \in T
  <2> HIDE DEF T
  <2> QED
    BY <1>1, SetInduct
<1> QED
  BY <1>2

(* Rows first or columns first.                                            *)
LEMMA SumsSwap ==
    ASSUME NEW S, IsFiniteSet(S), NEW R, IsFiniteSet(R), NEW m,
           \A s \in S, r \in R : m[s][r] \in Int
    PROVE  SumFunctionOnSet([s \in S |-> SumFunctionOnSet([r \in R |-> m[s][r]], R)], S)
             = SumFunctionOnSet([r \in R |-> SumFunctionOnSet([s \in S |-> m[s][r]], S)], R)
<1> DEFINE row == [s \in S |-> SumFunctionOnSet([r \in R |-> m[s][r]], R)]
           col(A) == [r \in R |-> SumFunctionOnSet([s \in S |-> m[s][r]], A)]
           T == {A \in SUBSET S : SumFunctionOnSet(row, A) = SumFunctionOnSet(col(A), R)}
<1>1. \A s \in S : row[s] \in Int
  <2>1. ASSUME NEW s \in S PROVE SumFunctionOnSet([r \in R |-> m[s][r]], R) \in Int
    <3> DEFINE f == [r \in R |-> m[s][r]]
    <3>1. \A r \in R : f[r] \in Int
      OBVIOUS
    <3> HIDE DEF f
    <3>2. SumFunctionOnSet(f, R) \in Int
      BY <3>1, SumIsInt
    <3> QED
      BY <3>2 DEF f
  <2> QED
    BY <2>1
<1>2. ASSUME NEW r \in R, NEW A \in SUBSET S
      PROVE  /\ SumFunctionOnSet([s \in S |-> m[s][r]], A) \in Int
             /\ A = {} => SumFunctionOnSet([s \in S |-> m[s][r]], A) = 0
             /\ \A x \in A : SumFunctionOnSet([s \in S |-> m[s][r]], A)
                              = m[x][r] + SumFunctionOnSet([s \in S |-> m[s][r]], A \ {x})
  <2> DEFINE f == [s \in S |-> m[s][r]]
  <2>1. \A s \in S : f[s] = m[s][r] /\ f[s] \in Int
    OBVIOUS
  <2> HIDE DEF f
  <2>2. /\ SumFunctionOnSet(f, A) \in Int
        /\ A = {} => SumFunctionOnSet(f, A) = 0
        /\ \A x \in A : SumFunctionOnSet(f, A) = m[x][r] + SumFunctionOnSet(f, A \ {x})
    <3>1. /\ SumFunctionOnSet(f, {}) = 0
          /\ SumFunctionOnSet(f, A) \in Int
          /\ \A x \in A : SumFunctionOnSet(f, A) = f[x] + SumFunctionOnSet(f, A \ {x})
      BY <2>1, SumSteps
    <3>2. \A x \in A : f[x] = m[x][r]
      BY <2>1
    <3> QED
      BY <3>1, <3>2
  <2> QED
    BY <2>2 DEF f
<1>3. ASSUME NEW A \in SUBSET S, \A x \in A : A \ {x} \in T PROVE A \in T
  <2>1. CASE A = {}
    <3>1. SumFunctionOnSet(row, A) = 0
      <4> HIDE DEF row
      <4> QED
        BY <1>1, <2>1, SumSteps
    <3>2. \A r \in R : col(A)[r] = 0
      BY <1>2, <2>1
    <3>3. SumFunctionOnSet(col(A), R) = 0
      <4> HIDE DEF col
      <4> QED
        BY <3>2, SumOfZeros
    <3> QED
      BY <3>1, <3>3
  <2>2. CASE A # {}
    <3>1. PICK x \in A : TRUE
      BY <2>2
    <3>2. SumFunctionOnSet(row, A \ {x}) = SumFunctionOnSet(col(A \ {x}), R)
      BY <1>3, <3>1
    <3>3. SumFunctionOnSet(row, A) = row[x] + SumFunctionOnSet(row, A \ {x})
      <4> HIDE DEF row
      <4> QED
        BY <1>1, <3>1, SumSteps
    <3> DEFINE mx == [r \in R |-> m[x][r]]
               c1 == col(A)
               c2 == col(A \ {x})
    <3>4. \A r \in R : mx[r] \in Int /\ c2[r] \in Int /\ c1[r] = mx[r] + c2[r]
      <4>1. x \in S /\ A \ {x} \in SUBSET S
        BY <3>1
      <4> QED
        BY <1>2, <3>1, <4>1
    <3>5. row[x] = SumFunctionOnSet(mx, R)
      BY <3>1
    <3>6. SumFunctionOnSet(c1, R) = SumFunctionOnSet(mx, R) + SumFunctionOnSet(c2, R)
      <4> HIDE DEF mx, c1, c2
      <4> QED
        BY <3>4, SumAdds
    <3> HIDE DEF mx
    <3>7. SumFunctionOnSet(row, A) = SumFunctionOnSet(c1, R)
      <4> HIDE DEF row, col
      <4> QED
        BY <3>2, <3>3, <3>5, <3>6
    <3> QED
      <4> HIDE DEF row, col
      <4> QED
        BY <3>7
  <2> QED
    BY <2>1, <2>2
<1>4. S \in T
  <2> HIDE DEF T
  <2> QED
    BY <1>3, SetInduct
<1>5. SumFunctionOnSet(row, S) = SumFunctionOnSet(col(S), R)
  <2> HIDE DEF row, col
  <2> QED
    BY <1>4
<1> QED
  BY <1>5

-----------------------------------------------------------------------------
(* Greatest and least                                                      *)

LEMMA MaxOfSet ==
    ASSUME NEW S \in SUBSET Int, IsFiniteSet(S), S # {}
    PROVE  Max(S) \in S /\ \A x \in S : x <= Max(S)
<1> DEFINE T == {A \in SUBSET S : A # {} => \E m \in A : \A x \in A : x <= m}
<1>1. ASSUME NEW A \in SUBSET S, \A x \in A : A \ {x} \in T PROVE A \in T
  <2> SUFFICES ASSUME A # {} PROVE \E m \in A : \A x \in A : x <= m
    OBVIOUS
  <2>1. PICK y \in A : TRUE
    OBVIOUS
  <2>2. CASE A \ {y} = {}
    BY <2>1, <2>2
  <2>3. CASE A \ {y} # {}
    <3>1. PICK m \in A \ {y} : \A x \in A \ {y} : x <= m
      BY <1>1, <2>1, <2>3
    <3>2. m \in Int /\ y \in Int /\ \A x \in A : x \in Int
      OBVIOUS
    <3>3. CASE y <= m
      BY <3>1, <3>3
    <3>4. CASE m <= y
      <4>1. \A x \in A : x <= y
        BY <3>1, <3>2, <3>4
      <4> QED
        BY <4>1
    <3> QED
      BY <3>2, <3>3, <3>4
  <2> QED
    BY <2>2, <2>3
<1>2. S \in T
  <2> HIDE DEF T
  <2> QED
    BY <1>1, SetInduct
<1>3. PICK m \in S : \A x \in S : x <= m
  BY <1>2
<1>4. \E m2 \in S : \A x \in S : m2 >= x
  BY <1>3
<1> QED
  BY <1>4 DEF Max

LEMMA MaxOfPair ==
    ASSUME NEW x \in Int, NEW y \in Int
    PROVE  Max({x, y}) = IF x <= y THEN y ELSE x
<1>1. \E m \in {x, y} : \A z \in {x, y} : m >= z
  OBVIOUS
<1>2. Max({x, y}) \in {x, y} /\ \A z \in {x, y} : Max({x, y}) >= z
  BY <1>1 DEF Max
<1> QED
  BY <1>2

LEMMA MinOfPair ==
    ASSUME NEW x \in Int, NEW y \in Int
    PROVE  Min({x, y}) = IF x <= y THEN x ELSE y
<1>1. \E m \in {x, y} : \A z \in {x, y} : m <= z
  OBVIOUS
<1>2. Min({x, y}) \in {x, y} /\ \A z \in {x, y} : Min({x, y}) <= z
  BY <1>1 DEF Min
<1> QED
  BY <1>2

LEMMA LeastNumber ==
    ASSUME NEW T, T \subseteq Nat, T # {}
    PROVE  \E n \in T : \A k \in T : n <= k
<1>1. \E n \in T : \A k \in T : ~(<<k, n>> \in OpToRel(<, Nat))
  BY NatLessThanWellFounded, WFMin
<1>2. PICK n \in T : \A k \in T : <<k, n>> \notin OpToRel(<, Nat)
  BY <1>1
<1>3. \A k \in T : ~(k < n)
  BY <1>2 DEF OpToRel
<1> QED
  BY <1>3

LEMMA ImageIsFinite ==
    ASSUME NEW S, IsFiniteSet(S), NEW f
    PROVE  IsFiniteSet({f[x] : x \in S})
<1> DEFINE T == {f[x] : x \in S}
           g == [x \in S |-> f[x]]
<1>1. g \in Surjection(S, T)
  BY DEF Surjection
<1> QED
  <2> HIDE DEF g, T
  <2>1. IsFiniteSet(T)
    BY <1>1, FS_Surjection
  <2> QED
    BY <2>1 DEF T

(* A sum over the values of an injective function is one over its domain.  *)
LEMMA SumOverImage ==
    ASSUME NEW S, IsFiniteSet(S), NEW P, NEW f,
           \A x, y \in S : P[x] = P[y] => x = y,
           \A x \in S : f[P[x]] \in Int
    PROVE  SumFunctionOnSet(f, {P[x] : x \in S}) = SumFunctionOnSet([x \in S |-> f[P[x]]], S)
<1> DEFINE g == [x \in S |-> f[P[x]]]
           image(A) == {P[x] : x \in A}
           T == {A \in SUBSET S : SumFunctionOnSet(f, image(A)) = SumFunctionOnSet(g, A)}
<1>1. IsFiniteSet(image(S)) /\ \A y \in image(S) : f[y] \in Int
  BY ImageIsFinite
<1>2. \A x \in S : g[x] \in Int /\ g[x] = f[P[x]]
  OBVIOUS
<1>3. ASSUME NEW A \in SUBSET S, \A x \in A : A \ {x} \in T PROVE A \in T
  <2>1. CASE A = {}
    <3>1. image(A) = {}
      BY <2>1
    <3> HIDE DEF g, image
    <3>2. SumFunctionOnSet(f, {}) = 0
      BY <1>1, SumSteps
    <3>3. SumFunctionOnSet(g, {}) = 0
      BY <1>2, SumSteps
    <3>4. SumFunctionOnSet(f, image(A)) = SumFunctionOnSet(g, A)
      BY <2>1, <3>1, <3>2, <3>3
    <3> QED
      BY <3>4
  <2>2. CASE A # {}
    <3>1. PICK x \in A : TRUE
      BY <2>2
    <3>2. SumFunctionOnSet(f, image(A \ {x})) = SumFunctionOnSet(g, A \ {x})
      <4> HIDE DEF g, image
      <4> QED
        BY <1>3, <3>1
    <3>3. image(A \ {x}) = image(A) \ {P[x]} /\ P[x] \in image(A) /\ image(A) \subseteq image(S)
      BY <3>1
    <3> HIDE DEF g, image
    <3>4. SumFunctionOnSet(f, image(A)) = f[P[x]] + SumFunctionOnSet(f, image(A) \ {P[x]})
      BY <1>1, <3>3, SumSteps
    <3>5. SumFunctionOnSet(g, A) = g[x] + SumFunctionOnSet(g, A \ {x})
      BY <1>2, <3>1, SumSteps
    <3>6. SumFunctionOnSet(f, image(A)) = SumFunctionOnSet(g, A)
      BY <1>2, <3>1, <3>2, <3>3, <3>4, <3>5
    <3> QED
      BY <3>6
  <2> QED
    BY <2>1, <2>2
<1>4. S \in T
  <2> HIDE DEF T
  <2> QED
    BY <1>3, SetInduct
<1> QED
  BY <1>4

-----------------------------------------------------------------------------
(* The pots are all the chips in the middle                                *)

(* A board with somebody in and chips that are natural numbers.            *)
IsBoard(b) ==
    /\ IsFiniteSet(b.actives) /\ b.actives # {}
    /\ \A p \in b.actives : b.wagers[p] \in Nat /\ b.dead[p] \in Nat
    /\ b.holding \subseteq b.actives
    /\ \A p \in b.holding : b.rank[p] \in Int

LEMMA TopOfWagers ==
    ASSUME NEW b, IsBoard(b)
    PROVE  /\ TopWager(b) \in Nat
           /\ \E p \in b.actives : b.wagers[p] = TopWager(b)
           /\ \A p \in b.actives : b.wagers[p] <= TopWager(b)
<1> DEFINE W == {b.wagers[p] : p \in b.actives}
<1>1. IsFiniteSet(W)
  BY ImageIsFinite DEF IsBoard
<1>2. W \in SUBSET Nat /\ W \in SUBSET Int /\ W # {}
  BY DEF IsBoard
<1>3. Max(W) \in W /\ \A x \in W : x <= Max(W)
  <2> HIDE DEF W
  <2> QED
    BY <1>1, <1>2, MaxOfSet
<1> QED
  BY <1>2, <1>3 DEF TopWager

LEMMA CapsOfBoard ==
    ASSUME NEW b, IsBoard(b)
    PROVE  /\ IsFiniteSet(Caps(b)) /\ Caps(b) \in SUBSET Nat
           /\ TopWager(b) \in Caps(b)
           /\ \A c \in Caps(b) : c <= TopWager(b) /\ (c = 0 => TopWager(b) = 0)
<1>1. SidepotMembers(b) \subseteq b.actives
  BY DEF SidepotMembers
<1>2. IsFiniteSet({b.wagers[p] : p \in SidepotMembers(b)})
  <2>1. IsFiniteSet(SidepotMembers(b))
    BY <1>1, FS_Subset DEF IsBoard
  <2> QED
    BY <2>1, ImageIsFinite
<1>3. IsFiniteSet(Caps(b))
  BY <1>2, FS_AddElement DEF Caps
<1>4. \A p \in SidepotMembers(b) : b.wagers[p] \in Nat /\ b.wagers[p] > 0
  BY DEF SidepotMembers, IsBoard
<1>5. ASSUME NEW c \in Caps(b)
      PROVE  c \in Nat /\ c <= TopWager(b) /\ (c = 0 => TopWager(b) = 0)
  <2>1. CASE c = TopWager(b)
    BY <2>1, TopOfWagers
  <2>2. CASE c # TopWager(b)
    <3>1. PICK p \in SidepotMembers(b) : c = b.wagers[p]
      BY <2>2 DEF Caps
    <3> QED
      BY <1>1, <1>4, <3>1, TopOfWagers
  <2> QED
    BY <2>1, <2>2
<1> QED
  BY <1>3, <1>5 DEF Caps

(* A pot begins where the one before ends.                                 *)
LEMMA FloorOfPot ==
    ASSUME NEW b, IsBoard(b), NEW c \in Caps(b)
    PROVE  /\ Floor(b, c) \in Nat
           /\ Floor(b, c) = 0 \/ (Floor(b, c) \in Caps(b) /\ Floor(b, c) < c)
           /\ \A d \in Caps(b) : d < c => d <= Floor(b, c)
<1> DEFINE B == {0} \cup {d \in Caps(b) : d < c}
<1>1. IsFiniteSet(B)
  <2>1. IsFiniteSet({d \in Caps(b) : d < c})
    BY CapsOfBoard, FS_Subset
  <2>2. IsFiniteSet({d \in Caps(b) : d < c} \cup {0})
    BY <2>1, FS_AddElement
  <2>3. B = {d \in Caps(b) : d < c} \cup {0}
    OBVIOUS
  <2> QED
    BY <2>2, <2>3
<1>2. B \in SUBSET Nat /\ B \in SUBSET Int /\ B # {}
  BY CapsOfBoard
<1>3. Max(B) \in B /\ \A x \in B : x <= Max(B)
  <2> HIDE DEF B
  <2> QED
    BY <1>1, <1>2, MaxOfSet
<1>4. Floor(b, c) = Max(B)
  BY DEF Floor
<1> QED
  BY <1>2, <1>3, <1>4

(* Exactly one pot, the first, begins at zero.                             *)
LEMMA FirstPot ==
    ASSUME NEW b, IsBoard(b)
    PROVE  \E c \in Caps(b) : /\ Floor(b, c) = 0
                              /\ \A d \in Caps(b) \ {c} : Floor(b, d) # 0
<1>1. PICK c \in Caps(b) : \A d \in Caps(b) : c <= d
  BY CapsOfBoard, LeastNumber
<1>2. c \in Nat /\ \A d \in Caps(b) : d \in Nat
  BY CapsOfBoard
<1>3. Floor(b, c) = 0
  BY <1>1, <1>2, FloorOfPot
<1>4. ASSUME NEW d \in Caps(b) \ {c} PROVE Floor(b, d) # 0
  <2>1. c < d
    BY <1>1, <1>2
  <2>2. c <= Floor(b, d) /\ Floor(b, d) \in Nat
    BY <2>1, FloorOfPot
  <2>3. c # 0
    <3> SUFFICES ASSUME c = 0 PROVE FALSE
      OBVIOUS
    <3>1. d <= 0
      BY CapsOfBoard
    <3> QED
      BY <1>2, <2>1, <3>1
  <2> QED
    BY <1>2, <2>2, <2>3
<1> QED
  BY <1>3, <1>4

LEMMA SliceIs ==
    ASSUME NEW b, NEW p, b.wagers[p] \in Nat, NEW lower \in Nat, NEW c \in Nat
    PROVE  /\ Slice(b, p, lower, c) \in Nat
           /\ Slice(b, p, lower, c) = IF b.wagers[p] <= lower \/ c <= lower THEN 0
                                      ELSE IF b.wagers[p] <= c THEN b.wagers[p] - lower
                                      ELSE c - lower
<1>1. Min({b.wagers[p], c}) = IF b.wagers[p] <= c THEN b.wagers[p] ELSE c
  BY MinOfPair
<1>2. Slice(b, p, lower, c) = LET d == Min({b.wagers[p], c}) - lower IN IF 0 <= d THEN d ELSE 0
  BY <1>1, MaxOfPair DEF Slice
<1> QED
  BY <1>1, <1>2

(* The slices of a player in the pots up to one are its wager, as far as   *)
(* that pot goes.                                                          *)
LEMMA SlicesUpTo ==
    ASSUME NEW b, IsBoard(b), NEW p \in b.actives, NEW top \in Caps(b)
    PROVE  SumFunctionOnSet([c \in Caps(b) |-> Slice(b, p, Floor(b, c), c)],
                            {c \in Caps(b) : c <= top})
             = IF b.wagers[p] <= top THEN b.wagers[p] ELSE top
<1> DEFINE f == [c \in Caps(b) |-> Slice(b, p, Floor(b, c), c)]
           upto(c) == {d \in Caps(b) : d <= c}
           sum(A) == SumFunctionOnSet(f, A)
           w == b.wagers[p]
           cut(c) == IF w <= c THEN w ELSE c
           Out == {c \in Caps(b) : sum(upto(c)) # cut(c)}
<1>1. w \in Nat /\ IsFiniteSet(Caps(b)) /\ \A c \in Caps(b) : c \in Nat /\ Floor(b, c) \in Nat
  BY CapsOfBoard, FloorOfPot DEF IsBoard
<1>2. ASSUME NEW c \in Caps(b)
      PROVE  f[c] \in Nat /\ f[c] = cut(c) - cut(Floor(b, c))
  <2>1. c \in Nat /\ Floor(b, c) \in Nat /\ Floor(b, c) <= c
    BY <1>1, FloorOfPot
  <2> DEFINE l == Floor(b, c)
  <2>2. /\ Slice(b, p, l, c) \in Nat
        /\ Slice(b, p, l, c) = IF w <= l \/ c <= l THEN 0 ELSE IF w <= c THEN w - l ELSE c - l
    BY <1>1, <2>1, SliceIs
  <2>3. f[c] = Slice(b, p, l, c)
    OBVIOUS
  <2> HIDE DEF f, l
  <2>4. f[c] = cut(c) - cut(l)
    BY <1>1, <2>1, <2>2, <2>3 DEF l
  <2> QED
    BY <2>2, <2>3, <2>4 DEF l
<1>3. \A c \in Caps(b) : f[c] \in Int
  BY <1>2
<1>4. ASSUME Out # {} PROVE FALSE
  <2>1. Out \subseteq Nat
    BY <1>1
  <2>2. PICK c \in Out : \A d \in Out : c <= d
    <3> HIDE DEF Out
    <3> QED
      BY <1>4, <2>1, LeastNumber
  <2>3. c \in Caps(b) /\ sum(upto(c)) # cut(c)
    BY <2>2
  <2>4. sum(upto(c)) = f[c] + sum(upto(c) \ {c})
    <3>1. upto(c) \in SUBSET Caps(b) /\ c \in upto(c)
      BY <1>1, <2>3
    <3> HIDE DEF f, upto
    <3> QED
      BY <1>1, <1>3, <3>1, SumSteps
  <2>5. CASE Floor(b, c) = 0
    <3>1. \A d \in upto(c) \ {c} : d = 0 /\ f[d] = 0
      <4> SUFFICES ASSUME NEW d \in upto(c) \ {c} PROVE d = 0 /\ f[d] = 0
        OBVIOUS
      <4>1. d \in Caps(b) /\ d < c
        BY <1>1, <2>3
      <4>2. d = 0
        BY <1>1, <2>3, <2>5, <4>1, FloorOfPot
      <4>3. f[d] = cut(d) - cut(Floor(b, d)) /\ Floor(b, d) \in Nat /\ f[d] \in Nat
        BY <1>1, <1>2, <4>1
      <4> QED
        BY <1>1, <4>2, <4>3
    <3>2. IsFiniteSet(upto(c) \ {c})
      <4>1. upto(c) \ {c} \in SUBSET Caps(b)
        OBVIOUS
      <4> QED
        BY <1>1, <4>1, FS_Subset
    <3>3. sum(upto(c) \ {c}) = 0
      <4> HIDE DEF f, upto
      <4> QED
        BY <3>1, <3>2, SumOfZeros
    <3>4. f[c] = cut(c) - cut(0) /\ f[c] \in Nat /\ cut(0) = 0
      BY <1>1, <1>2, <2>3, <2>5
    <3>5. cut(c) \in Nat
      BY <1>1, <2>3
    <3> HIDE DEF f, upto, cut, sum
    <3> QED
      BY <2>3, <2>4, <3>3, <3>4, <3>5
  <2>6. CASE Floor(b, c) # 0
    <3> DEFINE l == Floor(b, c)
    <3>1. l \in Caps(b) /\ l < c /\ \A d \in Caps(b) : d < c => d <= l
      BY <2>3, <2>6, FloorOfPot
    <3>2. l \in Nat /\ c \in Nat
      BY <1>1, <2>3
    <3>3. upto(c) \ {c} = upto(l)
      <4>1. \A d \in Caps(b) : (d <= c /\ d # c) <=> d <= l
        BY <1>1, <3>1, <3>2
      <4> QED
        BY <4>1
    <3>4. l \notin Out
      BY <2>2, <3>1, <3>2
    <3>5. sum(upto(l)) = cut(l)
      BY <3>1, <3>4
    <3>6. f[c] = cut(c) - cut(l)
      BY <1>2, <2>3
    <3>7. cut(c) \in Nat /\ cut(l) \in Nat
      BY <1>1, <3>2
    <3>8. sum(upto(c)) = f[c] + sum(upto(l))
      BY <2>4, <3>3
    <3> HIDE DEF f, upto, cut, sum, l
    <3> QED
      BY <2>3, <3>5, <3>6, <3>7, <3>8
  <2> QED
    BY <2>5, <2>6
<1>5. top \notin Out
  BY <1>4
<1> QED
  BY <1>5

(* All of them are its wager.                                              *)
LEMMA SlicesMakeWagers ==
    ASSUME NEW b, IsBoard(b), NEW p \in b.actives
    PROVE  SumFunctionOnSet([c \in Caps(b) |-> Slice(b, p, Floor(b, c), c)], Caps(b))
             = b.wagers[p]
<1>1. TopWager(b) \in Caps(b) /\ \A c \in Caps(b) : c <= TopWager(b)
  BY CapsOfBoard
<1>2. {c \in Caps(b) : c <= TopWager(b)} = Caps(b)
  BY <1>1
<1>3. b.wagers[p] <= TopWager(b)
  BY TopOfWagers
<1> QED
  BY <1>1, <1>2, <1>3, SlicesUpTo

(* The pots together are the chips of all the players, dead ones included. *)
LEMMA PotsMakeCurrentPot ==
    ASSUME NEW b, IsBoard(b)
    PROVE  /\ IsFiniteSet(SidepotSummary(b))
           /\ \A pot \in SidepotSummary(b) : pot.amt \in Nat
           /\ SumFunctionOnSet([pot \in SidepotSummary(b) |-> pot.amt], SidepotSummary(b))
                = CurrentPot(b)
<1> DEFINE A == b.actives
           C == Caps(b)
           P == [c \in C |-> PotAt(b, c)]
           all == {P[c] : c \in C}
           amt == [pot \in all |-> pot.amt]
           m == [p \in A |-> [c \in C |-> Slice(b, p, Floor(b, c), c)]]
           slices == [c \in C |-> SumFunctionOnSet([p \in A |-> m[p][c]], A)]
           first == [c \in C |-> IF Floor(b, c) = 0 THEN DeadMoney(b) ELSE 0]
<1>1. IsFiniteSet(A) /\ IsFiniteSet(C) /\ \A c \in C : c \in Nat /\ Floor(b, c) \in Nat
  BY CapsOfBoard, FloorOfPot DEF IsBoard
<1>2. \A p \in A, c \in C : m[p][c] \in Nat
  BY <1>1, SliceIs DEF IsBoard
<1>3. DeadMoney(b) \in Nat
  BY SumIsNat DEF DeadMoney, IsBoard
<1>4. \A c \in C : slices[c] \in Nat /\ first[c] \in Nat
  <2>1. ASSUME NEW c \in C PROVE SumFunctionOnSet([p \in A |-> m[p][c]], A) \in Nat
    <3> DEFINE f == [p \in A |-> m[p][c]]
    <3>1. \A p \in A : f[p] \in Nat
      BY <1>2
    <3> HIDE DEF f
    <3> QED
      BY <1>1, <3>1, SumIsNat DEF f
  <2> QED
    BY <1>3, <2>1
<1>5. \A c \in C : P[c].cap = c /\ P[c].amt = slices[c] + first[c]
  <2> SUFFICES ASSUME NEW c \in C PROVE P[c].cap = c /\ P[c].amt = slices[c] + first[c]
    OBVIOUS
  <2>1. [p \in A |-> m[p][c]] = [p \in b.actives |-> Slice(b, p, Floor(b, c), c)]
    OBVIOUS
  <2> QED
    BY <2>1 DEF PotAt
<1>6. IsFiniteSet(all) /\ \A pot \in all : amt[pot] \in Nat /\ amt[pot] = pot.amt
  <2>1. \A c \in C : P[c].amt \in Nat
    <3> HIDE DEF P, slices, first
    <3> QED
      BY <1>4, <1>5
  <2>2. IsFiniteSet(all)
    <3> HIDE DEF P, C
    <3> QED
      BY <1>1, ImageIsFinite
  <2> QED
    BY <2>1, <2>2
<1>7. SidepotSummary(b) = {pot \in all : pot.amt # 0}
  BY DEF SidepotSummary
<1>8. SumFunctionOnSet([pot \in SidepotSummary(b) |-> pot.amt], SidepotSummary(b))
        = SumFunctionOnSet(amt, all)
  <2> DEFINE S == SidepotSummary(b)
             f == [pot \in S |-> pot.amt]
  <2>1. S \in SUBSET all /\ \A pot \in all \ S : amt[pot] = 0
    BY <1>6, <1>7
  <2>2. IsFiniteSet(S) /\ \A pot \in S : f[pot] \in Int /\ f[pot] = amt[pot]
    BY <1>6, <2>1, FS_Subset
  <2> HIDE DEF S, f, amt, all
  <2>3. SumFunctionOnSet(f, S) = SumFunctionOnSet(amt, S)
    BY <2>2, SumEqual
  <2>4. SumFunctionOnSet(amt, all) = SumFunctionOnSet(amt, S)
    BY <1>6, <2>1, SumWithin
  <2>5. SumFunctionOnSet(f, S) = SumFunctionOnSet(amt, all)
    BY <2>3, <2>4
  <2> QED
    BY <2>5 DEF S, f
<1>9. SumFunctionOnSet(amt, all) = SumFunctionOnSet(slices, C) + SumFunctionOnSet(first, C)
  <2> DEFINE g == [c \in C |-> amt[P[c]]]
  <2>1. \A c, d \in C : P[c] = P[d] => c = d
    <3> HIDE DEF P
    <3> QED
      BY <1>5
  <2>2. \A c \in C : amt[P[c]] \in Int /\ g[c] = slices[c] + first[c]
    <3>1. \A c \in C : P[c] \in all
      OBVIOUS
    <3> HIDE DEF P, amt, all, slices, first
    <3> QED
      BY <1>5, <1>6, <3>1
  <2>3. SumFunctionOnSet(amt, all) = SumFunctionOnSet(g, C)
    <3>1. IsFiniteSet(C) /\ \A c \in C : amt[P[c]] \in Int
      BY <1>1, <2>2
    <3> HIDE DEF P, amt, C
    <3> QED
      BY <2>1, <3>1, SumOverImage
  <2>4. SumFunctionOnSet(g, C) = SumFunctionOnSet(slices, C) + SumFunctionOnSet(first, C)
    <3> HIDE DEF g, slices, first, C, amt, P
    <3>1. \A c \in C : slices[c] \in Int /\ first[c] \in Int /\ g[c] = slices[c] + first[c]
      BY <1>4, <2>2
    <3> QED
      BY <1>1, <3>1, SumAdds
  <2> QED
    BY <2>3, <2>4
<1>10. SumFunctionOnSet(first, C) = DeadMoney(b)
  <2>1. PICK c \in C : Floor(b, c) = 0 /\ \A d \in C \ {c} : Floor(b, d) # 0
    BY FirstPot
  <2>2. first[c] = DeadMoney(b) /\ \A d \in C \ {c} : first[d] = 0
    BY <2>1
  <2> HIDE DEF first, C, slices
  <2>3. \A d \in C : first[d] \in Int
    BY <1>4
  <2>4. SumFunctionOnSet(first, C) = first[c]
    BY <1>1, <2>2, <2>3, SumOfOne
  <2> QED
    BY <2>2, <2>4
<1>11. SumFunctionOnSet(slices, C) = SumFunctionOnSet(b.wagers, A)
  <2> DEFINE rows == [p \in A |-> SumFunctionOnSet([c \in C |-> m[p][c]], C)]
  <2>1. SumFunctionOnSet(rows, A) = SumFunctionOnSet(slices, C)
    <3>1. IsFiniteSet(A) /\ IsFiniteSet(C) /\ \A p \in A, c \in C : m[p][c] \in Int
      <4> HIDE DEF m, A, C
      <4> QED
        BY <1>1, <1>2
    <3> HIDE DEF m, A, C
    <3> QED
      BY <3>1, SumsSwap
  <2>2. \A p \in A : rows[p] = b.wagers[p]
    <3> SUFFICES ASSUME NEW p \in A PROVE rows[p] = b.wagers[p]
      OBVIOUS
    <3>1. [c \in C |-> m[p][c]] = [c \in Caps(b) |-> Slice(b, p, Floor(b, c), c)]
      OBVIOUS
    <3> QED
      BY <3>1, SlicesMakeWagers
  <2>3. \A p \in A : b.wagers[p] \in Int
    BY DEF IsBoard
  <2>4. SumFunctionOnSet(rows, A) = SumFunctionOnSet(b.wagers, A)
    <3> HIDE DEF rows, A
    <3> QED
      BY <1>1, <2>2, <2>3, SumEqual
  <2> QED
    BY <2>1, <2>4
<1>12. CurrentPot(b) = SumFunctionOnSet(b.wagers, A) + DeadMoney(b)
  <2> DEFINE h == [p \in A |-> b.wagers[p] + b.dead[p]]
  <2>1. \A p \in A : b.wagers[p] \in Int /\ b.dead[p] \in Int /\ h[p] = b.wagers[p] + b.dead[p]
    BY DEF IsBoard
  <2> HIDE DEF h
  <2>2. SumFunctionOnSet(h, A) = SumFunctionOnSet(b.wagers, A) + SumFunctionOnSet(b.dead, A)
    <3> HIDE DEF A
    <3> QED
      BY <1>1, <2>1, SumAdds
  <2> QED
    BY <2>2 DEF CurrentPot, DeadMoney, h
<1>13. SumFunctionOnSet([pot \in SidepotSummary(b) |-> pot.amt], SidepotSummary(b))
         = CurrentPot(b)
  <2> HIDE DEF amt, all, slices, first, C, A
  <2> QED
    BY <1>8, <1>9, <1>10, <1>11, <1>12
<1>14. IsFiniteSet(SidepotSummary(b))
  BY <1>6, <1>7, FS_Subset
<1> QED
  BY <1>6, <1>7, <1>13, <1>14

-----------------------------------------------------------------------------
(* A pot is paid to the chip                                               *)

LEMMA SomebodyWins ==
    ASSUME NEW b, IsBoard(b), NEW S \in SUBSET b.holding, S # {}
    PROVE  /\ IsFiniteSet(Winners(b, S)) /\ Winners(b, S) \subseteq S
           /\ Winners(b, S) # {}
           /\ Cardinality(Winners(b, S)) \in Nat \ {0}
<1>1. IsFiniteSet(S)
  BY FS_Subset DEF IsBoard
<1> DEFINE R == {b.rank[p] : p \in S}
<1>2. IsFiniteSet(R)
  BY <1>1, ImageIsFinite
<1>3. R \in SUBSET Int /\ R # {}
  BY DEF IsBoard
<1>4. Max(R) \in R /\ \A x \in R : x <= Max(R)
  <2> HIDE DEF R
  <2> QED
    BY <1>2, <1>3, MaxOfSet
<1>5. PICK p \in S : b.rank[p] = Max(R)
  BY <1>4
<1>6. p \in Winners(b, S)
  BY <1>4, <1>5 DEF Winners
<1>7. Winners(b, S) \subseteq S
  BY DEF Winners
<1>8. IsFiniteSet(Winners(b, S))
  BY <1>1, <1>7, FS_Subset
<1>9. Cardinality(Winners(b, S)) \in Nat /\ Cardinality(Winners(b, S)) # 0
  BY <1>6, <1>8, FS_CardinalityType, FS_EmptySet
<1> QED
  BY <1>6, <1>7, <1>8, <1>9

LEMMA FromZero ==
    ASSUME NEW n \in Nat
    PROVE  IsFiniteSet(0..n-1) /\ Cardinality(0..n-1) = n
<1>1. 0 \in Int /\ n - 1 \in Int /\ (n - 1) - 0 + 1 = n /\ (0 > n - 1 => n = 0)
  OBVIOUS
<1> QED
  BY <1>1, FS_Interval

(* Of a set in some order the first n are n.                               *)
LEMMA FirstAreCounted ==
    ASSUME NEW S, IsFiniteSet(S), NEW order,
           \A p \in S : order[p] \in Int,
           \A p, q \in S : order[p] = order[q] => p = q,
           NEW n \in 0..Cardinality(S)
    PROVE  Cardinality({p \in S : Cardinality({q \in S : order[q] < order[p]}) < n}) = n
<1> DEFINE before(p) == {q \in S : order[q] < order[p]}
           place == [p \in S |-> Cardinality(before(p))]
           k == Cardinality(S)
           F == {p \in S : place[p] < n}
<1>1. k \in Nat /\ n \in Nat /\ n <= k
  BY FS_CardinalityType
<1>2. \A p \in S : IsFiniteSet(before(p)) /\ before(p) \subseteq S /\ p \notin before(p)
  <2>1. \A p \in S : before(p) \in SUBSET S /\ p \notin before(p)
    OBVIOUS
  <2> HIDE DEF before
  <2> QED
    BY <2>1, FS_Subset
<1>3. ASSUME NEW p \in S PROVE place[p] \in Nat /\ place[p] < k
  <2>1. Cardinality(before(p)) \in Nat
    BY <1>2, FS_CardinalityType
  <2>2. before(p) \in SUBSET S /\ before(p) # S
    BY <1>2
  <2> HIDE DEF before
  <2>3. Cardinality(before(p)) <= k /\ Cardinality(before(p)) # k
    BY <2>2, FS_Subset
  <2> QED
    BY <1>1, <2>1, <2>3
<1>4. ASSUME NEW p \in S, NEW q \in S, order[p] < order[q] PROVE place[p] < place[q]
  <2>1. before(p) \subseteq before(q) /\ p \in before(q) /\ p \notin before(p)
    BY <1>4
  <2>2. before(p) \in SUBSET before(q) /\ before(p) # before(q)
    BY <2>1
  <2>3. IsFiniteSet(before(q))
    BY <1>2
  <2>4. place[p] \in Nat /\ place[q] \in Nat
    BY <1>3
  <2> HIDE DEF before
  <2>5. Cardinality(before(p)) <= Cardinality(before(q))
        /\ Cardinality(before(p)) # Cardinality(before(q))
    BY <2>2, <2>3, FS_Subset
  <2> QED
    BY <2>4, <2>5
<1>5. ASSUME NEW p \in S, NEW q \in S, place[p] = place[q] PROVE p = q
  <2>1. ~(order[p] < order[q]) /\ ~(order[q] < order[p])
    <3> HIDE DEF place
    <3> QED
      BY <1>3, <1>4, <1>5
  <2> QED
    BY <2>1
<1> HIDE DEF place
<1>6. place \in Injection(S, 0..k-1)
  <2>1. place \in [S -> 0..k-1]
    <3>1. place = [p \in S |-> place[p]]
      BY DEF place
    <3> QED
      BY <1>1, <1>3, <3>1
  <2>2. \A p, q \in S : place[p] = place[q] => p = q
    BY <1>5
  <2> QED
    BY <2>1, <2>2 DEF Injection, IsInjective
<1>7. place \in Surjection(S, 0..k-1)
  <2>1. IsFiniteSet(0..k-1) /\ Cardinality(0..k-1) = k
    BY <1>1, FromZero
  <2> QED
    BY <1>6, <2>1, FS_Injection
<1> DEFINE g == [p \in F |-> place[p]]
<1>8. g \in Injection(F, 0..n-1) /\ g \in Surjection(F, 0..n-1)
  <2>1. g \in [F -> 0..n-1]
    BY <1>1, <1>3
  <2>2. \A i \in 0..n-1 : \E p \in F : g[p] = i
    BY <1>1, <1>7 DEF Surjection
  <2>3. \A p, q \in F : g[p] = g[q] => p = q
    BY <1>5
  <2> HIDE DEF g
  <2> QED
    BY <2>1, <2>2, <2>3 DEF Injection, Surjection, IsInjective
<1>9. IsFiniteSet(F)
  BY FS_Subset
<1>10. Cardinality(F) = n
  <2>1. IsFiniteSet(0..n-1) /\ Cardinality(0..n-1) = n
    BY <1>1, FromZero
  <2> HIDE DEF F, g
  <2> QED
    BY <1>8, <1>9, <2>1, FS_Injection
<1> QED
  BY <1>10 DEF place

LEMMA DivideWithRest ==
    ASSUME NEW a \in Nat, NEW n \in Nat \ {0}
    PROVE  a \div n \in Nat /\ a % n \in 0..n-1 /\ a = (a \div n) * n + (a % n)
OBVIOUS

(* The order of the seats gives every player a place of its own.           *)
IsOrder(b, order) ==
    /\ \A p \in b.actives : order[p] \in Int
    /\ \A p, q \in b.actives : order[p] = order[q] => p = q

LEMMA PotIsPaid ==
    ASSUME NEW b, IsBoard(b), NEW order, IsOrder(b, order), NEW pot,
           pot.amt \in Nat, Eligible(b, pot) # {}
    PROVE  /\ \A p \in b.actives : PotWinnings(b, order, pot)[p] \in Nat
           /\ SumFunctionOnSet(PotWinnings(b, order, pot), b.actives) = pot.amt
<1> DEFINE paid == Winners(b, Eligible(b, pot))
           n == Cardinality(paid)
           each == pot.amt \div n
           left == pot.amt % n
           extra == {p \in paid : Cardinality({q \in paid : order[q] < order[p]}) < left}
           win == PotWinnings(b, order, pot)
           share == [p \in paid |-> each]
           odd == [p \in paid |-> IF p \in extra THEN 1 ELSE 0]
<1>1. IsFiniteSet(paid) /\ paid \subseteq b.holding /\ paid \subseteq b.actives /\ n \in Nat \ {0}
  <2>1. Eligible(b, pot) \in SUBSET b.holding
    BY DEF Eligible
  <2> QED
    BY <2>1, SomebodyWins DEF IsBoard
<1>2. each \in Nat /\ left \in 0..n-1 /\ left \in 0..n /\ pot.amt = each * n + left
  <2> HIDE DEF n, paid, each, left
  <2>1. /\ pot.amt \div n \in Nat /\ pot.amt % n \in 0..n-1
        /\ pot.amt = (pot.amt \div n) * n + (pot.amt % n)
    BY <1>1, DivideWithRest
  <2>2. 0..n-1 \subseteq 0..n
    BY <1>1
  <2> QED
    BY <2>1, <2>2 DEF each, left
<1>3. \A p \in b.actives : win[p] = IF p \notin paid THEN 0
                                     ELSE each + (IF p \in extra THEN 1 ELSE 0)
  BY DEF PotWinnings
<1>4. Cardinality(extra) = left
  <2>1. \A p \in paid : order[p] \in Int
    BY <1>1 DEF IsOrder
  <2>2. \A p, q \in paid : order[p] = order[q] => p = q
    BY <1>1 DEF IsOrder
  <2> HIDE DEF paid, left
  <2> QED
    BY <1>1, <1>2, <2>1, <2>2, FirstAreCounted
<1>5. \A p \in paid : share[p] = each /\ odd[p] \in Int
  OBVIOUS
<1> HIDE DEF win, paid, each, left, n
<1>10. \A p \in b.actives : win[p] \in Nat
  <2> HIDE DEF extra
  <2> QED
    BY <1>2, <1>3
<1>6. SumFunctionOnSet(win, b.actives) = SumFunctionOnSet(win, paid)
  <2>1. IsFiniteSet(b.actives) /\ paid \in SUBSET b.actives
    BY <1>1 DEF IsBoard
  <2>2. \A p \in b.actives : win[p] \in Int
    BY <1>10
  <2>3. \A p \in b.actives \ paid : win[p] = 0
    BY <1>3
  <2> QED
    BY <2>1, <2>2, <2>3, SumWithin
<1>7. SumFunctionOnSet(win, paid) = SumFunctionOnSet(share, paid) + SumFunctionOnSet(odd, paid)
  <2>1. \A p \in paid : share[p] \in Int /\ odd[p] \in Int /\ win[p] = share[p] + odd[p]
    BY <1>1, <1>2, <1>3
  <2> HIDE DEF share, odd
  <2> QED
    BY <1>1, <2>1, SumAdds
<1>8. SumFunctionOnSet(share, paid) = each * n
  <2> HIDE DEF share
  <2> QED
    BY <1>1, <1>2, <1>5, SumOfConstant DEF n
<1>9. SumFunctionOnSet(odd, paid) = left
  <2> DEFINE one == [p \in extra |-> 1]
  <2>1. extra \in SUBSET paid /\ IsFiniteSet(extra)
    BY <1>1, FS_Subset
  <2>2. (\A p \in extra : odd[p] = 1) /\ (\A p \in paid \ extra : odd[p] = 0)
    OBVIOUS
  <2> HIDE DEF odd, extra
  <2>3. SumFunctionOnSet(odd, paid) = SumFunctionOnSet(odd, extra)
    BY <1>1, <1>5, <2>1, <2>2, SumWithin
  <2>4. SumFunctionOnSet(odd, extra) = 1 * Cardinality(extra)
    BY <2>1, <2>2, SumOfConstant
  <2> QED
    BY <1>2, <1>4, <2>3, <2>4
<1>11. SumFunctionOnSet(win, b.actives) = pot.amt
  BY <1>2, <1>6, <1>7, <1>8, <1>9
<1> QED
  BY <1>10, <1>11 DEF win

-----------------------------------------------------------------------------
(* Everything is paid                                                      *)

LEMMA ShowdownPaysAll ==
    ASSUME NEW b, IsBoard(b), NEW order, IsOrder(b, order), EveryPotHasAWinner(b)
    PROVE  /\ ShowdownWinnings(b, order) \in [b.actives -> Nat]
           /\ SumFunctionOnSet(ShowdownWinnings(b, order), b.actives) = CurrentPot(b)
<1> DEFINE A == b.actives
           pots == SidepotSummary(b)
           m == [p \in A |-> [pot \in pots |-> PotWinnings(b, order, pot)[p]]]
           won == [p \in A |-> SumFunctionOnSet([pot \in pots |-> m[p][pot]], pots)]
           paid == [pot \in pots |-> SumFunctionOnSet([p \in A |-> m[p][pot]], A)]
           amt == [pot \in pots |-> pot.amt]
<1>1. IsFiniteSet(A) /\ IsFiniteSet(pots) /\ \A pot \in pots : amt[pot] \in Nat
  BY PotsMakeCurrentPot DEF IsBoard
<1>2. ASSUME NEW pot \in pots
      PROVE  /\ \A p \in A : PotWinnings(b, order, pot)[p] \in Nat
             /\ SumFunctionOnSet(PotWinnings(b, order, pot), A) = pot.amt
  <2>1. Eligible(b, pot) # {} /\ pot.amt \in Nat
    BY PotsMakeCurrentPot DEF EveryPotHasAWinner
  <2> QED
    BY <2>1, PotIsPaid
<1>3. \A p \in A, pot \in pots : m[p][pot] \in Nat
  BY <1>2
<1>4. ShowdownWinnings(b, order) = won
  <2>1. \A p \in A : [pot \in pots |-> m[p][pot]]
                       = [pot \in pots |-> PotWinnings(b, order, pot)[p]]
    OBVIOUS
  <2> QED
    BY <2>1 DEF ShowdownWinnings
<1>5. \A p \in A : won[p] \in Nat
  <2> SUFFICES ASSUME NEW p \in A
               PROVE  SumFunctionOnSet([pot \in pots |-> m[p][pot]], pots) \in Nat
    OBVIOUS
  <2> DEFINE f == [pot \in pots |-> m[p][pot]]
  <2>1. \A pot \in pots : f[pot] \in Nat
    BY <1>3
  <2> HIDE DEF f, pots
  <2>2. SumFunctionOnSet(f, pots) \in Nat
    BY <1>1, <2>1, SumIsNat
  <2> QED
    BY <2>2 DEF f
<1>6. SumFunctionOnSet(won, A) = SumFunctionOnSet(paid, pots)
  <2>1. \A p \in A, pot \in pots : m[p][pot] \in Int
    <3> HIDE DEF m, A, pots
    <3> QED
      BY <1>3
  <2> HIDE DEF m, A, pots
  <2> QED
    BY <1>1, <2>1, SumsSwap
<1>7. \A pot \in pots : paid[pot] = amt[pot]
  <2> SUFFICES ASSUME NEW pot \in pots
               PROVE  SumFunctionOnSet([p \in A |-> m[p][pot]], A) = pot.amt
    OBVIOUS
  <2> DEFINE f == [p \in A |-> m[p][pot]]
             g == PotWinnings(b, order, pot)
  <2>1. \A p \in A : f[p] \in Int /\ f[p] = g[p]
    BY <1>2
  <2> HIDE DEF f, g, A
  <2>2. SumFunctionOnSet(f, A) = SumFunctionOnSet(g, A)
    BY <1>1, <2>1, SumEqual
  <2> QED
    BY <1>2, <2>2 DEF f, g
<1>8. SumFunctionOnSet(paid, pots) = SumFunctionOnSet(amt, pots)
  <2> HIDE DEF paid, amt, pots
  <2>1. \A pot \in pots : paid[pot] \in Int
    BY <1>1, <1>7
  <2> QED
    BY <1>1, <1>7, <2>1, SumEqual
<1>9. SumFunctionOnSet(amt, pots) = CurrentPot(b)
  BY PotsMakeCurrentPot
<1>10. SumFunctionOnSet(won, A) = CurrentPot(b)
  <2> HIDE DEF won, paid, amt, pots, A
  <2> QED
    BY <1>6, <1>8, <1>9
<1> QED
  BY <1>4, <1>5, <1>10

LEMMA UncontestedPaysAll ==
    ASSUME NEW b, IsBoard(b), Cardinality(b.holding) = 1
    PROVE  /\ UncontestedWinnings(b) \in [b.actives -> Nat]
           /\ SumFunctionOnSet(UncontestedWinnings(b), b.actives) = CurrentPot(b)
<1> DEFINE total == SumFunctionOnSet([pot \in SidepotSummary(b) |-> pot.amt],
                                     SidepotSummary(b))
           won == UncontestedWinnings(b)
<1>1. total = CurrentPot(b) /\ total \in Nat
  <2> DEFINE f == [pot \in SidepotSummary(b) |-> pot.amt]
  <2>1. IsFiniteSet(SidepotSummary(b)) /\ \A pot \in SidepotSummary(b) : f[pot] \in Nat
    BY PotsMakeCurrentPot
  <2> HIDE DEF f
  <2>2. SumFunctionOnSet(f, SidepotSummary(b)) \in Nat
    BY <2>1, SumIsNat
  <2> QED
    BY <2>2, PotsMakeCurrentPot DEF f
<1>2. PICK p : b.holding = {p}
  <2>1. IsFiniteSet(b.holding)
    BY FS_Subset DEF IsBoard
  <2> QED
    BY <2>1, FS_Singleton
<1>3. p \in b.actives
  BY <1>2 DEF IsBoard
<1>4. won = [q \in b.actives |-> IF q = p THEN total ELSE 0]
  BY <1>2 DEF UncontestedWinnings
<1>5. won \in [b.actives -> Nat] /\ won[p] = total /\ \A q \in b.actives \ {p} : won[q] = 0
  <2> HIDE DEF total, won
  <2> QED
    BY <1>1, <1>3, <1>4
<1>6. SumFunctionOnSet(won, b.actives) = won[p]
  <2> HIDE DEF won
  <2>1. \A q \in b.actives : won[q] \in Int
    BY <1>5
  <2> QED
    BY <1>3, <1>5, <2>1, SumOfOne DEF IsBoard
<1> QED
  BY <1>1, <1>5, <1>6

(* Of two equal hands that bet as much, the one that comes first in the    *)
(* order never wins less, whatever pot it is.                              *)
LEMMA FirstWinsNoLess ==
    ASSUME NEW b, IsBoard(b), NEW order, IsOrder(b, order), EveryPotHasAWinner(b),
           NEW p \in b.holding, NEW q \in b.holding,
           order[p] < order[q], b.rank[p] = b.rank[q], b.wagers[p] = b.wagers[q]
    PROVE  ShowdownWinnings(b, order)[q] <= ShowdownWinnings(b, order)[p]
<1> DEFINE pots == SidepotSummary(b)
           won(r) == [pot \in pots |-> PotWinnings(b, order, pot)[r]]
<1>1. IsFiniteSet(pots) /\ p \in b.actives /\ q \in b.actives
  BY PotsMakeCurrentPot DEF IsBoard
<1>2. ASSUME NEW pot \in pots
      PROVE  /\ PotWinnings(b, order, pot)[p] \in Int /\ PotWinnings(b, order, pot)[q] \in Int
             /\ PotWinnings(b, order, pot)[q] <= PotWinnings(b, order, pot)[p]
  <2> DEFINE paid == Winners(b, Eligible(b, pot))
             n == Cardinality(paid)
             before(r) == {s \in paid : order[s] < order[r]}
             extra == {r \in paid : Cardinality(before(r)) < pot.amt % n}
             win == PotWinnings(b, order, pot)
  <2>1. pot.amt \in Nat /\ Eligible(b, pot) # {} /\ Eligible(b, pot) \in SUBSET b.holding
    BY PotsMakeCurrentPot DEF EveryPotHasAWinner, Eligible
  <2>2. win[p] \in Nat /\ win[q] \in Nat
    BY <1>1, <2>1, PotIsPaid
  <2>3. \A r \in b.actives : win[r] = IF r \notin paid THEN 0
                                       ELSE (pot.amt \div n) + (IF r \in extra THEN 1 ELSE 0)
    BY DEF PotWinnings
  <2>4. IsFiniteSet(paid) /\ n \in Nat \ {0} /\ paid \subseteq b.actives
    BY <2>1, SomebodyWins DEF IsBoard
  <2>5. p \in Eligible(b, pot) <=> q \in Eligible(b, pot)
    <3>1. PICK c \in Caps(b) : pot = PotAt(b, c)
      BY DEF SidepotSummary
    <3>2. p \in pot.contributors <=> q \in pot.contributors
      BY <1>1, <3>1 DEF PotAt
    <3> QED
      BY <3>2 DEF Eligible
  <2>6. q \in paid => p \in paid
    BY <2>5 DEF Winners
  <2>7. q \in extra => p \in extra
    <3> SUFFICES ASSUME q \in extra PROVE p \in extra
      OBVIOUS
    <3>1. \A s \in paid : order[s] \in Int
      BY <2>4 DEF IsOrder
    <3>2. p \in paid
      BY <2>6
    <3>3. before(p) \subseteq before(q)
      BY <3>1, <3>2
    <3>4. IsFiniteSet(before(q))
      BY <2>4, FS_Subset
    <3> HIDE DEF before, n, paid
    <3>5. Cardinality(before(p)) <= Cardinality(before(q))
      BY <3>3, <3>4, FS_Subset
    <3>6. Cardinality(before(p)) \in Nat /\ Cardinality(before(q)) \in Nat
      <4>1. IsFiniteSet(before(p))
        BY <3>3, <3>4, FS_Subset
      <4> QED
        BY <3>4, <4>1, FS_CardinalityType
    <3>7. pot.amt % n \in Int
      BY <2>1, <2>4
    <3>8. Cardinality(before(q)) < pot.amt % n
      OBVIOUS
    <3>9. Cardinality(before(p)) < pot.amt % n
      BY <3>5, <3>6, <3>7, <3>8
    <3> QED
      BY <3>2, <3>9
  <2>8. pot.amt \div n \in Nat
    <3> HIDE DEF n
    <3> QED
      BY <2>1, <2>4, DivideWithRest
  <2> HIDE DEF win, paid, n, extra
  <2>9. win[q] <= win[p]
    BY <1>1, <2>2, <2>3, <2>6, <2>7, <2>8
  <2> QED
    BY <2>2, <2>9 DEF win
<1>3. SumFunctionOnSet(won(q), pots) <= SumFunctionOnSet(won(p), pots)
  <2>1. \A pot \in pots : won(q)[pot] \in Int /\ won(p)[pot] \in Int /\ won(q)[pot] <= won(p)[pot]
    BY <1>2
  <2> HIDE DEF won, pots
  <2> QED
    BY <1>1, <2>1, SumMonotone
<1> QED
  BY <1>1, <1>3 DEF ShowdownWinnings

(* A multiple of every term is a multiple of the sum.                      *)
LEMMA SumScales ==
    ASSUME NEW S, IsFiniteSet(S), NEW k \in Int, NEW f, NEW h,
           \A x \in S : f[x] \in Int /\ h[x] = k * f[x]
    PROVE  SumFunctionOnSet(h, S) = k * SumFunctionOnSet(f, S)
<1> DEFINE T == {A \in SUBSET S : SumFunctionOnSet(h, A) = k * SumFunctionOnSet(f, A)}
<1>0. \A x \in S : h[x] \in Int
  OBVIOUS
<1>1. ASSUME NEW A \in SUBSET S, \A x \in A : A \ {x} \in T PROVE A \in T
  <2>1. CASE A = {}
    <3>1. SumFunctionOnSet(f, A) = 0 /\ SumFunctionOnSet(h, A) = 0
      BY <2>1, <1>0, SumSteps
    <3> QED
      BY <3>1
  <2>2. CASE A # {}
    <3>1. PICK x \in A : TRUE
      BY <2>2
    <3> DEFINE rest == SumFunctionOnSet(f, A \ {x})
    <3>2. SumFunctionOnSet(h, A \ {x}) = k * rest
      BY <1>1, <3>1
    <3>3. SumFunctionOnSet(f, A) = f[x] + rest
      BY <3>1, SumSteps
    <3>4. SumFunctionOnSet(h, A) = h[x] + SumFunctionOnSet(h, A \ {x})
      BY <3>1, <1>0, SumSteps
    <3>5. f[x] \in Int /\ h[x] = k * f[x] /\ rest \in Int
      BY <3>1, SumSteps
    <3> HIDE DEF rest
    <3>6. k * (f[x] + rest) = k * f[x] + k * rest
      BY <3>5
    <3>7. SumFunctionOnSet(h, A) = k * SumFunctionOnSet(f, A)
      BY <3>2, <3>3, <3>4, <3>5, <3>6
    <3> QED
      BY <3>7
  <2> QED
    BY <2>1, <2>2
<1>2. S \in T
  <2> HIDE DEF T
  <2> QED
    BY <1>1, SetInduct
<1> QED
  BY <1>2

(* The sum of a one for every member is how many there are.                *)
LEMMA SumCounts ==
    ASSUME NEW S, IsFiniteSet(S), NEW A \in SUBSET S, NEW f,
           \A x \in S : f[x] = IF x \in A THEN 1 ELSE 0
    PROVE  SumFunctionOnSet(f, S) = Cardinality(A)
<1>1. IsFiniteSet(A) /\ Cardinality(A) \in Nat
  BY FS_Subset, FS_CardinalityType
<1>2. SumFunctionOnSet(f, S) = SumFunctionOnSet(f, A)
  BY SumWithin
<1>3. SumFunctionOnSet(f, A) = 1 * Cardinality(A)
  BY <1>1, SumOfConstant
<1> QED
  BY <1>1, <1>2, <1>3

(* The levels of a pot that a player bet are the player's slice of it.     *)
LEMMA LevelsOfSlice ==
    ASSUME NEW w \in Nat, NEW lower \in Nat, NEW c \in Nat, NEW M \in Nat, c <= M
    PROVE  Cardinality({u \in 1 .. M : lower < u /\ u <= c /\ u <= w})
             = IF w <= lower \/ c <= lower THEN 0
               ELSE IF w <= c THEN w - lower ELSE c - lower
<1> DEFINE top == IF w <= c THEN w ELSE c
<1>1. {u \in 1 .. M : lower < u /\ u <= c /\ u <= w} = (lower + 1) .. top
  OBVIOUS
<1>2. Cardinality((lower + 1) .. top) = IF lower + 1 > top THEN 0 ELSE top - (lower + 1) + 1
  BY FS_Interval
<1>3. (IF lower + 1 > top THEN 0 ELSE top - (lower + 1) + 1)
        = IF w <= lower \/ c <= lower THEN 0 ELSE IF w <= c THEN w - lower ELSE c - lower
  OBVIOUS
<1> HIDE DEF top
<1> QED
  BY <1>1, <1>2, <1>3, Zenon

(* A pot counted level by level, each player adding one chip to each level *)
(* that it bet.                                                            *)
LEMMA PotByLevels ==
    ASSUME NEW b, IsBoard(b), NEW c \in Caps(b), NEW M \in Nat, c <= M,
           NEW f, \A u \in 1 .. M :
              f[u] = IF Floor(b, c) < u /\ u <= c
                     THEN Cardinality({q \in b.actives : b.wagers[q] >= u}) ELSE 0
    PROVE  SumFunctionOnSet(f, 1 .. M)
             = SumFunctionOnSet([p \in b.actives |-> Slice(b, p, Floor(b, c), c)], b.actives)
<1> DEFINE A == b.actives
           L == 1 .. M
           lower == Floor(b, c)
           m == [u \in L |-> [q \in A |->
                   IF lower < u /\ u <= c /\ u <= b.wagers[q] THEN 1 ELSE 0]]
           rows == [u \in L |-> SumFunctionOnSet([q \in A |-> m[u][q]], A)]
           cols == [q \in A |-> SumFunctionOnSet([u \in L |-> m[u][q]], L)]
           slice == [q \in A |-> Slice(b, q, lower, c)]
<1>1. IsFiniteSet(A) /\ IsFiniteSet(L) /\ \A q \in A : b.wagers[q] \in Nat
  <2>1. IsFiniteSet(1 .. M)
    BY FS_Interval
  <2> QED
    BY <2>1 DEF IsBoard
<1>2. c \in Nat /\ lower \in Nat
  BY CapsOfBoard, FloorOfPot
<1>3. SumFunctionOnSet(rows, L) = SumFunctionOnSet(cols, A)
  <2>1. \A u \in L, q \in A : m[u][q] \in Int
    OBVIOUS
  <2> HIDE DEF m, L, A
  <2> QED
    BY <1>1, <2>1, SumsSwap
<1>4. \A u \in L : rows[u] \in Int /\ rows[u] = f[u]
  <2> SUFFICES ASSUME NEW u \in L
               PROVE  /\ SumFunctionOnSet([q \in A |-> m[u][q]], A) \in Int
                      /\ SumFunctionOnSet([q \in A |-> m[u][q]], A) = f[u]
    OBVIOUS
  <2> DEFINE g == [q \in A |-> m[u][q]]
             there == {q \in A : b.wagers[q] >= u}
  <2>0. u \in Nat /\ there \in SUBSET A
    OBVIOUS
  <2>1. CASE lower < u /\ u <= c
    <3>1. \A q \in A : g[q] = IF q \in there THEN 1 ELSE 0
      BY <2>1, <1>1, <2>0
    <3>2. f[u] = Cardinality(there)
      BY <2>1
    <3>3. Cardinality(there) \in Nat
      BY <1>1, <2>0, FS_Subset, FS_CardinalityType
    <3> HIDE DEF g, there, A
    <3>4. SumFunctionOnSet(g, A) = Cardinality(there)
      BY <1>1, <2>0, <3>1, SumCounts
    <3> QED
      BY <3>2, <3>3, <3>4 DEF g
  <2>2. CASE ~(lower < u /\ u <= c)
    <3>1. \A q \in A : g[q] = 0
      BY <2>2
    <3>2. f[u] = 0
      BY <2>2
    <3> HIDE DEF g, A
    <3>3. SumFunctionOnSet(g, A) = 0
      BY <1>1, <3>1, SumOfZeros
    <3> QED
      BY <3>2, <3>3 DEF g
  <2> QED
    BY <2>1, <2>2
<1>5. \A q \in A : cols[q] \in Int /\ cols[q] = slice[q]
  <2> SUFFICES ASSUME NEW q \in A
               PROVE  /\ SumFunctionOnSet([u \in L |-> m[u][q]], L) \in Int
                      /\ SumFunctionOnSet([u \in L |-> m[u][q]], L) = Slice(b, q, lower, c)
    OBVIOUS
  <2> DEFINE g == [u \in L |-> m[u][q]]
             w == b.wagers[q]
             bet == {u \in L : lower < u /\ u <= c /\ u <= w}
  <2>1. \A u \in L : g[u] = IF u \in bet THEN 1 ELSE 0
    OBVIOUS
  <2>2. Cardinality(bet) = IF w <= lower \/ c <= lower THEN 0
                           ELSE IF w <= c THEN w - lower ELSE c - lower
    <3>1. w \in Nat
      BY <1>1
    <3> HIDE DEF w, lower
    <3> QED
      BY <3>1, <1>2, LevelsOfSlice
  <2>3. Slice(b, q, lower, c) \in Nat /\ Slice(b, q, lower, c) = Cardinality(bet)
    BY <1>1, <1>2, <2>2, SliceIs
  <2>4. bet \in SUBSET L
    OBVIOUS
  <2> HIDE DEF g, bet, L
  <2>5. SumFunctionOnSet(g, L) = Cardinality(bet)
    BY <1>1, <2>1, <2>4, SumCounts
  <2> QED
    BY <2>3, <2>5 DEF g
<1>6. SumFunctionOnSet(rows, L) = SumFunctionOnSet(f, L)
  <2> HIDE DEF rows, L
  <2> QED
    BY <1>1, <1>4, SumEqual
<1>7. SumFunctionOnSet(cols, A) = SumFunctionOnSet(slice, A)
  <2> HIDE DEF cols, slice, A
  <2> QED
    BY <1>1, <1>5, SumEqual
<1> QED
  BY <1>3, <1>6, <1>7

(* Every level below the largest wager is in one pot.                      *)
LEMMA LevelHasCap ==
    ASSUME NEW b, IsBoard(b), NEW u \in Nat \ {0}, u <= TopWager(b)
    PROVE  \E c \in Caps(b) :
              /\ Floor(b, c) < u /\ u <= c
              /\ \A d \in Caps(b) \ {c} : ~(Floor(b, d) < u /\ u <= d)
<1> DEFINE above == {c \in Caps(b) : u <= c}
<1>1. above \subseteq Nat /\ TopWager(b) \in above
  BY CapsOfBoard
<1>2. PICK c \in above : \A d \in above : c <= d
  <2> HIDE DEF above
  <2>1. above # {}
    BY <1>1
  <2> QED
    BY <1>1, <2>1, LeastNumber
<1>3. c \in Caps(b) /\ c \in Nat /\ u <= c
  BY <1>1
<1>4. /\ Floor(b, c) \in Nat
      /\ Floor(b, c) = 0 \/ (Floor(b, c) \in Caps(b) /\ Floor(b, c) < c)
  BY <1>3, FloorOfPot
<1>5. Floor(b, c) < u
  <2> SUFFICES ASSUME u <= Floor(b, c) PROVE FALSE
    BY <1>4
  <2>1. Floor(b, c) \in above /\ Floor(b, c) < c
    BY <1>4
  <2> QED
    BY <2>1, <1>2, <1>3, <1>4
<1>6. ASSUME NEW d \in Caps(b) \ {c}, Floor(b, d) < u, u <= d PROVE FALSE
  <2>1. d \in above /\ d \in Nat /\ c < d
    BY <1>1, <1>2, <1>3, <1>6
  <2>2. Floor(b, d) \in Nat /\ c <= Floor(b, d)
    BY <2>1, <1>3, FloorOfPot
  <2> QED
    BY <2>2, <1>3, <1>6
<1> QED
  BY <1>3, <1>5, <1>6

(* No pot is empty when chips were wagered: who wagered its cap is in it.  *)
LEMMA NoPotIsEmpty ==
    ASSUME NEW b, IsBoard(b), TopWager(b) > 0, NEW c \in Caps(b)
    PROVE  PotAt(b, c).amt \in Nat \ {0}
<1> DEFINE f == [p \in b.actives |-> Slice(b, p, Floor(b, c), c)]
<1>1. c \in Nat /\ c # 0 /\ Floor(b, c) \in Nat /\ Floor(b, c) < c
  <2>1. TopWager(b) \in Nat /\ c \in Nat /\ c # 0
    BY TopOfWagers, CapsOfBoard
  <2> QED
    BY <2>1, FloorOfPot
<1>2. PICK q \in b.actives : b.wagers[q] = c
  BY TopOfWagers DEF Caps, SidepotMembers
<1>3. \A p \in b.actives : f[p] \in Nat
  BY <1>1, SliceIs DEF IsBoard
<1>4. f[q] = c - Floor(b, c)
  <2>1. f[q] = Slice(b, q, Floor(b, c), c)
    OBVIOUS
  <2>2. Slice(b, q, Floor(b, c), c) = IF b.wagers[q] <= Floor(b, c) \/ c <= Floor(b, c) THEN 0
                                      ELSE IF b.wagers[q] <= c THEN b.wagers[q] - Floor(b, c)
                                      ELSE c - Floor(b, c)
    BY <1>1, <1>2, SliceIs
  <2> HIDE DEF f
  <2> QED
    BY <1>1, <1>2, <2>1, <2>2
<1>5. DeadMoney(b) \in Nat
  BY SumIsNat DEF DeadMoney, IsBoard
<1>6. PotAt(b, c).amt = SumFunctionOnSet(f, b.actives) + (IF Floor(b, c) = 0 THEN DeadMoney(b) ELSE 0)
  BY DEF PotAt
<1> HIDE DEF f
<1>7. SumFunctionOnSet(f, b.actives) \in Nat \ {0}
  <2>1. IsFiniteSet(b.actives) /\ IsFiniteSet(b.actives \ {q})
    BY FS_Subset DEF IsBoard
  <2>2. SumFunctionOnSet(f, b.actives) = f[q] + SumFunctionOnSet(f, b.actives \ {q})
    <3> DEFINE A == b.actives
    <3>1. IsFiniteSet(A) /\ (\A x \in A : f[x] \in Int) /\ A \in SUBSET A /\ q \in A
      BY <2>1, <1>3
    <3> HIDE DEF A
    <3>2. SumFunctionOnSet(f, A) = f[q] + SumFunctionOnSet(f, A \ {q})
      BY <3>1, SumSteps
    <3> QED
      BY <3>2 DEF A
  <2>3. SumFunctionOnSet(f, b.actives \ {q}) \in Nat
    BY <2>1, <1>3, SumIsNat
  <2> QED
    BY <2>2, <2>3, <1>1, <1>4
<1> QED
  BY <1>5, <1>6, <1>7

(* Up to six winners share a pot in sixtieths of a chip; a winner gets     *)
(* less than a chip more or less.                                          *)
LEMMA PotShareIsFair ==
    ASSUME NEW b, IsBoard(b), Cardinality(b.actives) <= 6, NEW order, NEW pot,
           pot.amt \in Nat, Eligible(b, pot) # {}, NEW p \in b.actives
    PROVE  LET paid == Winners(b, Eligible(b, pot))
               n    == Cardinality(paid)
           IN  /\ n \in 1 .. 6
               /\ PotWinnings(b, order, pot)[p] \in Nat
               /\ IF p \in paid
                  THEN /\ -59 <= 60 * PotWinnings(b, order, pot)[p] - (60 \div n) * pot.amt
                       /\ 60 * PotWinnings(b, order, pot)[p] - (60 \div n) * pot.amt <= 59
                  ELSE PotWinnings(b, order, pot)[p] = 0
<1> DEFINE paid == Winners(b, Eligible(b, pot))
           n == Cardinality(paid)
           extra == {x \in paid : Cardinality({q \in paid : order[q] < order[x]}) < pot.amt % n}
           amt == pot.amt
           w == (amt \div n) + (IF p \in extra THEN 1 ELSE 0)
<1>1. paid \subseteq b.holding /\ n \in Nat \ {0} /\ paid \subseteq b.actives /\ IsFiniteSet(paid)
  <2>1. Eligible(b, pot) \in SUBSET b.holding
    BY DEF Eligible
  <2> QED
    BY <2>1, SomebodyWins DEF IsBoard
<1>2. n \in 1 .. 6
  <2>1. Cardinality(paid) <= Cardinality(b.actives) /\ Cardinality(b.actives) \in Nat
    BY <1>1, FS_Subset, FS_CardinalityType DEF IsBoard
  <2> HIDE DEF paid
  <2> QED
    BY <1>1, <2>1
<1>3. PotWinnings(b, order, pot)[p] = IF p \in paid THEN w ELSE 0
  BY DEF PotWinnings
<1>4. amt % n \in 0 .. n - 1 /\ amt \div n \in Nat /\ amt = (amt \div n) * n + (amt % n)
  <2> HIDE DEF n, amt
  <2>1. amt \in Nat /\ n \in Nat \ {0}
    BY <1>1 DEF amt
  <2> QED
    BY <2>1, DivideWithRest, Zenon
<1>5. p \in extra => amt % n > 0
  <2> SUFFICES ASSUME p \in extra PROVE amt % n > 0
    OBVIOUS
  <2> DEFINE c == Cardinality({q \in paid : order[q] < order[p]})
  <2>1. c \in Nat
    BY <1>1, FS_Subset, FS_CardinalityType
  <2>2. c < amt % n
    OBVIOUS
  <2> HIDE DEF c, n
  <2> QED
    BY <1>2, <1>4, <2>1, <2>2
<1>6. w \in Nat /\ -59 <= 60 * w - (60 \div n) * amt /\ 60 * w - (60 \div n) * amt <= 59
  <2> DEFINE d == amt \div n
             r == amt % n
             e == IF p \in extra THEN 1 ELSE 0
  <2>1. d \in Nat /\ r \in 0 .. n - 1 /\ amt = d * n + r /\ e \in {0, 1} /\ (e = 1 => r > 0)
    BY <1>4, <1>5
  <2>2. w = d + e
    OBVIOUS
  <2> HIDE DEF d, r, e, w, n, amt
  <2>3. CASE n = 1
    <3>1. 60 \div n = 60 /\ amt = 1 * d + r /\ r \in 0 .. 0
      BY <2>1, <2>3
    <3> QED
      BY <2>1, <2>2, <3>1
  <2>4. CASE n = 2
    <3>1. 60 \div n = 30 /\ amt = 2 * d + r /\ r \in 0 .. 1
      BY <2>1, <2>4
    <3> QED
      BY <2>1, <2>2, <3>1
  <2>5. CASE n = 3
    <3>1. 60 \div n = 20 /\ amt = 3 * d + r /\ r \in 0 .. 2
      BY <2>1, <2>5
    <3> QED
      BY <2>1, <2>2, <3>1
  <2>6. CASE n = 4
    <3>1. 60 \div n = 15 /\ amt = 4 * d + r /\ r \in 0 .. 3
      BY <2>1, <2>6
    <3> QED
      BY <2>1, <2>2, <3>1
  <2>7. CASE n = 5
    <3>1. 60 \div n = 12 /\ amt = 5 * d + r /\ r \in 0 .. 4
      BY <2>1, <2>7
    <3> QED
      BY <2>1, <2>2, <3>1
  <2>8. CASE n = 6
    <3>1. 60 \div n = 10 /\ amt = 6 * d + r /\ r \in 0 .. 5
      BY <2>1, <2>8
    <3> QED
      BY <2>1, <2>2, <3>1
  <2> QED
    BY <1>2, <2>3, <2>4, <2>5, <2>6, <2>7, <2>8
<1> HIDE DEF w
<1> QED
  BY <1>2, <1>3, <1>6

(* A player gets no more of a pot than there is in it, and nothing of a    *)
(* pot that it did not pay into.                                           *)
LEMMA WinsWithinPot ==
    ASSUME NEW b, IsBoard(b), NEW order, IsOrder(b, order), NEW c \in Caps(b),
           PotAt(b, c).amt \in Nat, Eligible(b, PotAt(b, c)) # {}, NEW p \in b.actives
    PROVE  /\ PotWinnings(b, order, PotAt(b, c))[p] \in Nat
           /\ PotWinnings(b, order, PotAt(b, c))[p] <= PotAt(b, c).amt
           /\ ~(p \in b.holding /\ b.wagers[p] > Floor(b, c)) =>
                 PotWinnings(b, order, PotAt(b, c))[p] = 0
<1> DEFINE pot == PotAt(b, c)
           won == PotWinnings(b, order, pot)
           A == b.actives
           paid == Winners(b, Eligible(b, pot))
<1>1. (\A q \in A : won[q] \in Nat) /\ SumFunctionOnSet(won, A) = pot.amt
  <2> HIDE DEF pot
  <2> QED
    BY PotIsPaid DEF pot
<1>2. IsFiniteSet(A) /\ IsFiniteSet(A \ {p})
  BY FS_Subset DEF IsBoard
<1>3. won[p] <= pot.amt
  <2> HIDE DEF won, A, pot
  <2>1. p \in A
    BY DEF A
  <2>2. SumFunctionOnSet(won, A) = won[p] + SumFunctionOnSet(won, A \ {p})
    <3>1. A \in SUBSET A /\ \A q \in A : won[q] \in Int
      BY <1>1
    <3> QED
      BY <1>2, <2>1, <3>1, SumSteps
  <2>3. SumFunctionOnSet(won, A \ {p}) \in Nat
    BY <1>1, <1>2, SumIsNat
  <2> QED
    BY <1>1, <2>1, <2>2, <2>3
<1>4. ASSUME ~(p \in b.holding /\ b.wagers[p] > Floor(b, c)) PROVE won[p] = 0
  <2>1. pot.contributors = {q \in A : b.wagers[q] > Floor(b, c)}
    BY DEF PotAt
  <2>2. p \notin Eligible(b, pot)
    BY <1>4, <2>1 DEF Eligible
  <2>3. p \notin paid
    BY <2>2 DEF Winners
  <2> QED
    BY <2>3 DEF PotWinnings
<1> QED
  BY <1>1, <1>3, <1>4

(* Of every player, as much as another has wagered too.                    *)
Matched(b, p) ==
    [q \in b.actives |-> IF b.wagers[q] <= b.wagers[p] THEN b.wagers[q] ELSE b.wagers[p]]

(* Of the pots that a player can win it can match every chip: all of them  *)
(* together are what others have wagered as far as its own wager goes, and *)
(* the dead blinds.                                                        *)
LEMMA PotsWithinReach ==
    ASSUME NEW b, IsBoard(b), NEW p \in b.actives,
           b.wagers[p] < TopWager(b) => b.wagers[p] \in Caps(b),
           NEW reach, reach = [c \in Caps(b) |-> IF c <= b.wagers[p] THEN PotAt(b, c).amt ELSE 0]
    PROVE  /\ \A c \in Caps(b) : PotAt(b, c).amt \in Nat
           /\ SumFunctionOnSet(reach, Caps(b))
                <= SumFunctionOnSet(Matched(b, p), b.actives) + DeadMoney(b)
<1> DEFINE A == b.actives
           C == Caps(b)
           w == b.wagers[p]
           m == [q \in A |-> [c \in C |-> IF c <= w THEN Slice(b, q, Floor(b, c), c) ELSE 0]]
           rows == [q \in A |-> SumFunctionOnSet([c \in C |-> m[q][c]], C)]
           cols == [c \in C |-> SumFunctionOnSet([q \in A |-> m[q][c]], A)]
           dead == [c \in C |-> IF Floor(b, c) = 0 THEN DeadMoney(b) ELSE 0]
           most == [c \in C |-> cols[c] + dead[c]]
           match == Matched(b, p)
<1>1. /\ IsFiniteSet(A) /\ IsFiniteSet(C) /\ w \in Nat /\ \A q \in A : b.wagers[q] \in Nat
      /\ \A c \in C : c \in Nat /\ Floor(b, c) \in Nat /\ c <= TopWager(b)
      /\ TopWager(b) \in Nat /\ TopWager(b) \in C
  BY CapsOfBoard, FloorOfPot, TopOfWagers DEF IsBoard
<1>2. DeadMoney(b) \in Nat
  BY SumIsNat DEF DeadMoney, IsBoard
<1>3. \A q \in A, c \in C : Slice(b, q, Floor(b, c), c) \in Nat
  BY <1>1, SliceIs
<1>4. \A q \in A, c \in C : m[q][c] \in Nat
  BY <1>3
<1>5. SumFunctionOnSet(rows, A) = SumFunctionOnSet(cols, C)
  <2>1. \A q \in A, c \in C : m[q][c] \in Int
    <3> HIDE DEF m, A, C
    <3> QED
      BY <1>4
  <2> HIDE DEF m, A, C
  <2> QED
    BY <1>1, <2>1, SumsSwap
<1>6. \A q \in A : rows[q] \in Int /\ rows[q] <= match[q] /\ match[q] \in Int
  <2> SUFFICES ASSUME NEW q \in A
               PROVE  /\ SumFunctionOnSet([c \in C |-> m[q][c]], C) \in Int
                      /\ SumFunctionOnSet([c \in C |-> m[q][c]], C) <= match[q]
                      /\ match[q] \in Int
    OBVIOUS
  <2> DEFINE g == [c \in C |-> m[q][c]]
             f == [c \in C |-> Slice(b, q, Floor(b, c), c)]
             v == b.wagers[q]
  <2>1. match[q] = (IF v <= w THEN v ELSE w) /\ v \in Nat /\ match[q] \in Nat
    BY <1>1 DEF Matched
  <2>2. \A c \in C : f[c] \in Int /\ g[c] \in Int /\ g[c] = IF c <= w THEN f[c] ELSE 0
    BY <1>3, <1>4
  <2>3. SumFunctionOnSet(g, C) = match[q]
    <3>1. PICK top \in C : /\ (w < TopWager(b) => top = w) /\ (~(w < TopWager(b)) => top = TopWager(b))
      BY <1>1
    <3> DEFINE U == {c \in C : c <= top}
    <3>2. \A c \in C : c <= w <=> c \in U
      <4>1. w <= TopWager(b)
        BY TopOfWagers
      <4> QED
        BY <1>1, <3>1, <4>1
    <3>3. U \in SUBSET C /\ IsFiniteSet(U)
      <4>1. U \in SUBSET C
        OBVIOUS
      <4> QED
        BY <1>1, <4>1, FS_Subset
    <3>4. SumFunctionOnSet(f, U) = IF v <= top THEN v ELSE top
      BY <3>1, SlicesUpTo
    <3>5. (IF v <= top THEN v ELSE top) = match[q]
      <4>1. v <= TopWager(b) /\ w <= TopWager(b)
        BY TopOfWagers
      <4> QED
        BY <1>1, <2>1, <3>1, <4>1
    <3>6. /\ \A c \in U : g[c] \in Int /\ g[c] = f[c]
          /\ \A c \in C \ U : g[c] = 0
          /\ \A c \in C : g[c] \in Int
      <4> HIDE DEF g, f, U, C
      <4> QED
        BY <2>2, <3>2, <3>3
    <3> HIDE DEF g, f, U, C
    <3>7. SumFunctionOnSet(g, C) = SumFunctionOnSet(g, U)
      BY <1>1, <3>3, <3>6, SumWithin
    <3>8. SumFunctionOnSet(g, U) = SumFunctionOnSet(f, U)
      BY <3>3, <3>6, SumEqual
    <3> QED
      BY <3>4, <3>5, <3>7, <3>8
  <2> HIDE DEF match
  <2> QED
    BY <2>1, <2>3
<1>7. SumFunctionOnSet(rows, A) <= SumFunctionOnSet(match, A)
  <2> HIDE DEF rows, match, A
  <2> QED
    BY <1>1, <1>6, SumMonotone
<1>8. \A c \in C : cols[c] \in Nat
  <2> SUFFICES ASSUME NEW c \in C PROVE SumFunctionOnSet([q \in A |-> m[q][c]], A) \in Nat
    OBVIOUS
  <2> DEFINE g == [q \in A |-> m[q][c]]
  <2>1. \A q \in A : g[q] \in Nat
    BY <1>4
  <2> HIDE DEF g, A
  <2>2. SumFunctionOnSet(g, A) \in Nat
    BY <1>1, <2>1, SumIsNat
  <2> QED
    BY <2>2 DEF g
<1>9. SumFunctionOnSet(dead, C) = DeadMoney(b)
  <2>1. PICK c \in C : Floor(b, c) = 0 /\ \A d \in C \ {c} : Floor(b, d) # 0
    BY FirstPot
  <2>2. dead[c] = DeadMoney(b) /\ (\A d \in C \ {c} : dead[d] = 0) /\ \A d \in C : dead[d] \in Int
    BY <1>2, <2>1
  <2> HIDE DEF dead, C
  <2> QED
    BY <1>1, <2>1, <2>2, SumOfOne
<1>10. \A c \in C : cols[c] \in Int /\ dead[c] \in Int /\ most[c] = cols[c] + dead[c]
  <2>1. \A c \in C : dead[c] \in Int /\ most[c] = cols[c] + dead[c]
    BY <1>2
  <2> HIDE DEF cols, most, dead
  <2> QED
    BY <1>8, <2>1
<1>11. SumFunctionOnSet(most, C) = SumFunctionOnSet(cols, C) + SumFunctionOnSet(dead, C)
  <2> HIDE DEF cols, dead, most, C
  <2> QED
    BY <1>1, <1>10, SumAdds
<1>12. \A c \in C : PotAt(b, c).amt \in Nat /\ reach[c] \in Int /\ most[c] \in Int /\ reach[c] <= most[c]
  <2> SUFFICES ASSUME NEW c \in C
               PROVE  PotAt(b, c).amt \in Nat /\ reach[c] \in Int /\ most[c] \in Int /\ reach[c] <= most[c]
    OBVIOUS
  <2> DEFINE f == [q \in b.actives |-> Slice(b, q, Floor(b, c), c)]
             g == [q \in A |-> m[q][c]]
             s == SumFunctionOnSet(f, A)
  <2>1. PotAt(b, c).amt = s + dead[c]
    BY DEF PotAt
  <2>2. reach[c] = IF c <= w THEN s + dead[c] ELSE 0
    BY <2>1
  <2>3. s \in Nat
    <3>1. \A q \in A : f[q] \in Nat
      BY <1>3
    <3> HIDE DEF f, A
    <3> QED
      BY <1>1, <3>1, SumIsNat
  <2>4. c <= w => s = cols[c]
    <3> SUFFICES ASSUME c <= w PROVE s = SumFunctionOnSet(g, A)
      OBVIOUS
    <3>1. \A q \in A : f[q] \in Int /\ f[q] = g[q]
      BY <1>3
    <3> HIDE DEF f, g, A
    <3> QED
      BY <1>1, <3>1, SumEqual
  <2>5. dead[c] \in Nat /\ cols[c] \in Nat /\ most[c] = cols[c] + dead[c]
    <3>1. dead[c] \in Nat
      BY <1>2
    <3> HIDE DEF dead, cols, most
    <3> QED
      BY <1>8, <1>10, <3>1
  <2> HIDE DEF cols, dead, most, s
  <2> QED
    BY <2>1, <2>2, <2>3, <2>4, <2>5
<1>13. SumFunctionOnSet(reach, C) <= SumFunctionOnSet(most, C)
  <2> HIDE DEF most, C
  <2> QED
    BY <1>1, <1>12, SumMonotone
<1>14. /\ SumFunctionOnSet(reach, C) \in Int /\ SumFunctionOnSet(cols, C) \in Int
       /\ SumFunctionOnSet(match, A) \in Int
  <2> HIDE DEF most, cols, match, C, A
  <2> QED
    BY <1>1, <1>6, <1>10, <1>12, SumIsInt
<1>15. SumFunctionOnSet(reach, C) <= SumFunctionOnSet(match, A) + DeadMoney(b)
  <2> HIDE DEF most, cols, rows, dead, match, C, A
  <2> QED
    BY <1>2, <1>5, <1>7, <1>9, <1>11, <1>13, <1>14
<1> QED
  BY <1>12, <1>15

(* A player that is all-in for less, and so caps a pot, wins at a showdown *)
(* no more than what it has matched of everybody's chips.                  *)
LEMMA WinsWhatItMatched ==
    ASSUME NEW b, IsBoard(b), NEW order, IsOrder(b, order), EveryPotHasAWinner(b),
           NEW p \in b.actives,
           (p \in b.holding /\ 0 < b.wagers[p] /\ b.wagers[p] < TopWager(b))
              => b.wagers[p] \in Caps(b)
    PROVE  /\ ShowdownWinnings(b, order)[p] \in Nat
           /\ ShowdownWinnings(b, order)[p]
                <= SumFunctionOnSet(Matched(b, p), b.actives) + DeadMoney(b)
<1> DEFINE A == b.actives
           C == Caps(b)
           w == b.wagers[p]
           pots == SidepotSummary(b)
           filled == {c \in C : PotAt(b, c).amt # 0}
           P == [c \in filled |-> PotAt(b, c)]
           won == [pot \in pots |-> PotWinnings(b, order, pot)[p]]
           wonAt == [c \in C |-> IF c \in filled THEN PotWinnings(b, order, PotAt(b, c))[p] ELSE 0]
           reach == [c \in C |-> IF c <= w THEN PotAt(b, c).amt ELSE 0]
           match == Matched(b, p)
<1>1. /\ IsFiniteSet(A) /\ IsFiniteSet(C) /\ w \in Nat /\ filled \in SUBSET C
      /\ \A c \in C : c \in Nat /\ Floor(b, c) \in Nat /\ c <= TopWager(b)
      /\ TopWager(b) \in Nat /\ TopWager(b) \in C
      /\ w <= TopWager(b)
  BY CapsOfBoard, FloorOfPot, TopOfWagers DEF IsBoard
<1>2. IsFiniteSet(filled)
  BY <1>1, FS_Subset
<1>3. ASSUME NEW c \in C PROVE PotAt(b, c).amt \in Nat
  <2>1. PotAt(b, c).amt # 0 => PotAt(b, c) \in pots
    BY DEF SidepotSummary
  <2>2. \A pot \in pots : pot.amt \in Nat
    BY PotsMakeCurrentPot
  <2> QED
    BY <2>1, <2>2
<1>4. ASSUME NEW c \in filled
      PROVE  /\ PotWinnings(b, order, PotAt(b, c))[p] \in Nat
             /\ PotWinnings(b, order, PotAt(b, c))[p] <= PotAt(b, c).amt
             /\ ~(p \in b.holding /\ w > Floor(b, c)) => PotWinnings(b, order, PotAt(b, c))[p] = 0
  <2>1. PotAt(b, c) \in pots
    BY DEF SidepotSummary
  <2>2. Eligible(b, PotAt(b, c)) # {}
    BY <2>1 DEF EveryPotHasAWinner
  <2> QED
    BY <1>1, <1>3, <2>2, WinsWithinPot
<1>5. (\A c \in C : PotAt(b, c).amt \in Nat)
      /\ w < TopWager(b) /\ p \in b.holding /\ 0 < w => w \in C
  BY <1>3
<1>6. ASSUME NEW c \in filled PROVE PotWinnings(b, order, PotAt(b, c))[p] <= reach[c]
  <2>1. CASE p \in b.holding /\ w > Floor(b, c)
    <3>1. c <= w
      <4>1. CASE w < TopWager(b)
        <5>1. w \in C
          BY <1>1, <1>5, <2>1, <4>1
        <5>2. w < c => w <= Floor(b, c)
          BY <5>1, FloorOfPot
        <5> QED
          BY <1>1, <2>1, <5>2
      <4>2. CASE ~(w < TopWager(b))
        BY <1>1, <4>2
      <4> QED
        BY <4>1, <4>2
    <3> QED
      BY <1>4, <3>1
  <2>2. CASE ~(p \in b.holding /\ w > Floor(b, c))
    BY <1>3, <1>4, <2>2
  <2> QED
    BY <2>1, <2>2
<1>7. /\ \A c \in filled : P[c] = PotAt(b, c)
      /\ {P[c] : c \in filled} = pots
      /\ \A c, d \in filled : P[c] = P[d] => c = d
  BY DEF SidepotSummary, PotAt
<1>8. /\ \A c \in filled : won[P[c]] = wonAt[c] /\ won[P[c]] \in Int
      /\ \A c \in C : wonAt[c] \in Nat /\ reach[c] \in Nat /\ wonAt[c] <= reach[c]
      /\ \A c \in C \ filled : wonAt[c] = 0
  <2>1. ASSUME NEW c \in filled
        PROVE  won[P[c]] = wonAt[c] /\ won[P[c]] \in Int
    <3>1. P[c] \in pots /\ P[c] = PotAt(b, c)
      BY <1>7
    <3>2. won[P[c]] = PotWinnings(b, order, PotAt(b, c))[p]
      BY <3>1
    <3> QED
      BY <1>4, <3>2
  <2>2. ASSUME NEW c \in C
        PROVE  /\ wonAt[c] \in Nat /\ reach[c] \in Nat /\ wonAt[c] <= reach[c]
               /\ c \notin filled => wonAt[c] = 0
    <3>1. reach[c] \in Nat
      BY <1>3
    <3>2. CASE c \in filled
      BY <1>4, <1>6, <3>1, <3>2
    <3>3. CASE c \notin filled
      BY <3>1, <3>3
    <3> QED
      BY <3>1, <3>2, <3>3
  <2> QED
    BY <2>1, <2>2
<1>9. ShowdownWinnings(b, order)[p] = SumFunctionOnSet(won, pots)
  BY DEF ShowdownWinnings
<1>10. SumFunctionOnSet(won, pots) = SumFunctionOnSet([c \in filled |-> won[P[c]]], filled)
  <2>1. (\A x \in filled : won[P[x]] \in Int) /\ \A x, y \in filled : P[x] = P[y] => x = y
    BY <1>7, <1>8
  <2> HIDE DEF won, P, filled, pots
  <2>2. SumFunctionOnSet(won, {P[c] : c \in filled})
          = SumFunctionOnSet([c \in filled |-> won[P[c]]], filled)
    BY <1>2, <2>1, SumOverImage
  <2>3. {P[c] : c \in filled} = pots
    BY <1>7
  <2> QED
    BY <2>2, <2>3
<1>11. SumFunctionOnSet([c \in filled |-> won[P[c]]], filled) = SumFunctionOnSet(wonAt, filled)
  <2> DEFINE f == [c \in filled |-> won[P[c]]]
  <2>1. \A c \in filled : f[c] \in Int /\ f[c] = wonAt[c]
    <3> HIDE DEF won, wonAt, P, filled
    <3> QED
      BY <1>8
  <2> HIDE DEF f, wonAt, filled
  <2>2. SumFunctionOnSet(f, filled) = SumFunctionOnSet(wonAt, filled)
    BY <1>2, <2>1, SumEqual
  <2> QED
    BY <2>2 DEF f
<1>12. SumFunctionOnSet(wonAt, C) = SumFunctionOnSet(wonAt, filled)
  <2>1. (\A c \in C : wonAt[c] \in Int) /\ \A c \in C \ filled : wonAt[c] = 0
    BY <1>8
  <2> HIDE DEF wonAt, filled, C
  <2> QED
    BY <1>1, <2>1, SumWithin
<1>13. SumFunctionOnSet(wonAt, C) <= SumFunctionOnSet(reach, C)
  <2>1. \A c \in C : wonAt[c] \in Int /\ reach[c] \in Int /\ wonAt[c] <= reach[c]
    BY <1>8
  <2> HIDE DEF wonAt, reach, C
  <2> QED
    BY <1>1, <2>1, SumMonotone
<1>14. SumFunctionOnSet(wonAt, C) \in Nat /\ SumFunctionOnSet(reach, C) \in Int
  <2>1. \A c \in C : wonAt[c] \in Nat /\ reach[c] \in Int
    BY <1>8
  <2> HIDE DEF wonAt, reach, C
  <2> QED
    BY <1>1, <2>1, SumIsInt, SumIsNat
<1>15. DeadMoney(b) \in Nat /\ SumFunctionOnSet(match, A) \in Nat
  <2>1. \A q \in A : match[q] \in Nat
    BY <1>1 DEF Matched, IsBoard
  <2>2. SumFunctionOnSet(match, A) \in Nat
    <3> HIDE DEF match, A
    <3> QED
      BY <1>1, <2>1, SumIsNat
  <2> QED
    BY <2>2, SumIsNat DEF DeadMoney, IsBoard
<1>16. ASSUME w < TopWager(b), w \notin Caps(b)
       PROVE  SumFunctionOnSet(wonAt, C) = 0
  <2>1. ~(p \in b.holding /\ 0 < w)
    BY <1>5, <1>16
  <2>2. \A c \in C : wonAt[c] = 0
    BY <1>1, <1>4, <2>1
  <2> HIDE DEF wonAt, C
  <2> QED
    BY <1>1, <2>2, SumOfZeros
<1>17. ASSUME w < TopWager(b) => w \in Caps(b)
       PROVE  SumFunctionOnSet(reach, C) <= SumFunctionOnSet(match, A) + DeadMoney(b)
  BY <1>17, PotsWithinReach
<1> HIDE DEF won, wonAt, reach, match, P, filled, pots, C, A
<1>18. SumFunctionOnSet(wonAt, C) <= SumFunctionOnSet(match, A) + DeadMoney(b)
  <2>1. CASE w < TopWager(b) => w \in Caps(b)
    BY <1>13, <1>14, <1>15, <1>17, <2>1
  <2>2. CASE ~(w < TopWager(b) => w \in Caps(b))
    BY <1>15, <1>16, <2>2
  <2> QED
    BY <2>1, <2>2
<1>19. ShowdownWinnings(b, order)[p] = SumFunctionOnSet(wonAt, C)
  BY <1>9, <1>10, <1>11, <1>12
<1> QED
  BY <1>14, <1>18, <1>19 DEF A, match

=============================================================================
