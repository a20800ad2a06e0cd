------------------------------ MODULE FiniteSums ------------------------------
(***************************************************************************)
(* Sums and products over finite sets, as the operators of the module      *)
(* Functions compute them: the order in which a fold takes the elements    *)
(* does not matter, and what follows from it.  The induction is over       *)
(* finite sets, by a smallest counterexample.                              *)
(***************************************************************************)
EXTENDS Integers, FiniteSets, Functions, FiniteSetTheorems, WellFoundedInduction, TLAPS

Op(plus, m, n) == IF plus THEN m + n ELSE m * n
Unit(plus) == IF plus THEN 0 ELSE 1

\* One step of a fold of f: what it makes of set T, given what g says of the
\* smaller sets.
Fold(plus, f, T, g) ==
    IF T = {} THEN Unit(plus)
    ELSE LET x == CHOOSE x \in T : TRUE IN Op(plus, f[x], g[T \ {x}])

IsFold(plus, f, S, g) == g = [T \in SUBSET S |-> Fold(plus, f, T, g)]

\* The sum or product of f over S.
Total(plus, f, S) == (CHOOSE g : IsFold(plus, f, S, g))[S]

(***************************************************************************)
(* Induction.                                                              *)
(***************************************************************************)

\* A set of natural numbers has a least element.
LEMMA LeastNatural ==
  ASSUME NEW T \in SUBSET Nat, T # {}
  PROVE  \E m \in T : \A n \in T : m <= n
<1> DEFINE Less == OpToRel(<, Nat)
<1>1. IsWellFoundedOn(Less, Nat)
  BY NatLessThanWellFounded
<1>2. \A m, n \in Nat : m < n => <<m, n>> \in Less
  BY DEF OpToRel
<1> HIDE DEF Less
<1>3. \E m \in T : \A n \in T : ~ (<<n, m>> \in Less)
  BY <1>1, WFMin
<1>4. \E m \in T : \A n \in T : ~ (n < m)
  BY <1>2, <1>3, Zenon
<1>5. QED
  BY <1>4

\* What holds of a finite set if it holds of all its proper subsets, holds.
LEMMA SubsetInduction ==
  ASSUME NEW S, IsFiniteSet(S), NEW F \in SUBSET SUBSET S,
         \A T \in SUBSET S : (\A U \in SUBSET T : U # T => U \in F) => T \in F
  PROVE  S \in F
<1> DEFINE Sizes == {Cardinality(T) : T \in (SUBSET S) \ F}
<1>1. \A T \in SUBSET S : IsFiniteSet(T) /\ Cardinality(T) \in Nat
  BY FS_Subset, FS_CardinalityType
<1>2. SUFFICES ASSUME S \notin F PROVE FALSE
  OBVIOUS
<1>3. Sizes \in SUBSET Nat /\ Sizes # {}
  BY <1>1, <1>2
<1>4. PICK m \in Sizes : \A n \in Sizes : m <= n
  BY <1>3, LeastNatural
<1>5. PICK T \in (SUBSET S) \ F : Cardinality(T) = m
  BY <1>4
<1>6. \A U \in SUBSET T : U # T => U \in F
  <2>1. ASSUME NEW U \in SUBSET T, U # T, U \notin F PROVE FALSE
    <3>1. Cardinality(U) < Cardinality(T)
      BY <1>1, <2>1, FS_Subset
    <3>2. Cardinality(U) \in Sizes
      BY <2>1
    <3>3. QED
      BY <1>1, <1>3, <1>4, <1>5, <3>1, <3>2
  <2>2. QED
    BY <2>1
<1>7. QED
  BY <1>5, <1>6

(***************************************************************************)
(* Folds.                                                                  *)
(***************************************************************************)

\* A fold over a finite set exists: layer by layer, by the sets' sizes.
LEMMA FoldExists ==
  ASSUME NEW S, IsFiniteSet(S), NEW plus \in BOOLEAN, NEW f
  PROVE  \E g : IsFold(plus, f, S, g)
<1> DEFINE Layer(n) == {T \in SUBSET S : Cardinality(T) < n}
           Reached == {n \in Nat : \E g : g = [T \in Layer(n) |-> Fold(plus, f, T, g)]}
<1>1. \A T \in SUBSET S : IsFiniteSet(T) /\ Cardinality(T) \in Nat
  BY FS_Subset, FS_CardinalityType
<1>2. 0 \in Reached
  <2>1. Layer(0) = {}
    BY <1>1
  <2> DEFINE g == [T \in Layer(0) |-> Fold(plus, f, T, f)]
  <2>2. g = [T \in Layer(0) |-> Fold(plus, f, T, g)]
    BY <2>1
  <2>3. QED
    BY <2>2
<1>3. ASSUME NEW n \in Reached PROVE n + 1 \in Reached
  <2>1. PICK g : g = [T \in Layer(n) |-> Fold(plus, f, T, g)]
    OBVIOUS
  <2> DEFINE h == [T \in Layer(n + 1) |-> Fold(plus, f, T, g)]
  <2>2. \A T \in Layer(n) : T \in Layer(n + 1) /\ h[T] = g[T]
    <3>1. \A T \in Layer(n) : T \in Layer(n + 1)
      BY <1>1
    <3>2. \A T \in Layer(n) : g[T] = Fold(plus, f, T, g)
      BY <2>1
    <3>3. QED
      BY <3>1, <3>2
  <2>3. ASSUME NEW T \in Layer(n + 1) PROVE Fold(plus, f, T, g) = Fold(plus, f, T, h)
    <3>1. ASSUME T # {} PROVE T \ {CHOOSE x \in T : TRUE} \in Layer(n)
      <4> DEFINE x == CHOOSE x \in T : TRUE
      <4>1. x \in T /\ IsFiniteSet(T)
        BY <1>1, <2>3, <3>1
      <4>2. Cardinality(T \ {x}) = Cardinality(T) - 1
        BY <4>1, FS_RemoveElement
      <4>3. QED
        BY <1>1, <2>3, <4>1, <4>2
    <3>2. QED
      BY <2>2, <3>1 DEF Fold
  <2>4. h = [T \in Layer(n + 1) |-> Fold(plus, f, T, h)]
    BY <2>3
  <2>5. \E k : k = [T \in Layer(n + 1) |-> Fold(plus, f, T, k)]
    BY <2>4
  <2> HIDE DEF Layer, h
  <2>6. QED
    BY <2>5
<1> HIDE DEF Reached
<1>4. ASSUME NEW n \in Nat PROVE n \in Reached
  <2>1. SUFFICES ASSUME Nat \ Reached # {} PROVE FALSE
    BY <1>4
  <2>2. PICK m \in Nat \ Reached : \A k \in Nat \ Reached : m <= k
    BY <2>1, LeastNatural
  <2>3. m # 0 /\ m - 1 \in Nat
    BY <1>2, <2>2
  <2>4. m - 1 \in Reached
    BY <2>2, <2>3
  <2>5. (m - 1) + 1 \in Reached
    BY <1>3, <2>4
  <2>6. QED
    BY <2>2, <2>5
<1>5. Cardinality(S) + 1 \in Reached
  BY <1>1, <1>4
<1>6. PICK g : g = [T \in Layer(Cardinality(S) + 1) |-> Fold(plus, f, T, g)]
  BY <1>5 DEF Reached
<1>7. Layer(Cardinality(S) + 1) = SUBSET S
  <2>1. \A T \in SUBSET S : Cardinality(T) <= Cardinality(S)
    BY FS_Subset
  <2>2. QED
    BY <1>1, <2>1
<1>8. g = [T \in SUBSET S |-> Fold(plus, f, T, g)]
  BY <1>6, <1>7
<1>9. QED
  BY <1>8 DEF IsFold

\* Two folds of functions that agree on a set come to the same there, even if
\* one of them is over a larger set.
LEMMA FoldsAgree ==
  ASSUME NEW R, NEW S \in SUBSET R, IsFiniteSet(S), NEW plus \in BOOLEAN,
         NEW f, NEW h, \A x \in S : f[x] = h[x],
         NEW g, IsFold(plus, f, S, g), NEW k, IsFold(plus, h, R, k)
  PROVE  g[S] = k[S]
<1> DEFINE F == {T \in SUBSET S : g[T] = k[T]}
<1>1. ASSUME NEW T \in SUBSET S, \A U \in SUBSET T : U # T => U \in F
      PROVE  T \in F
  <2>1. g[T] = Fold(plus, f, T, g) /\ k[T] = Fold(plus, h, T, k)
    BY DEF IsFold
  <2>2. CASE T = {}
    BY <2>1, <2>2 DEF Fold
  <2>3. CASE T # {}
    <3> DEFINE x == CHOOSE x \in T : TRUE
    <3>1. x \in T /\ T \ {x} \in SUBSET T /\ T \ {x} # T
      BY <2>3
    <3>2. g[T \ {x}] = k[T \ {x}] /\ f[x] = h[x]
      BY <1>1, <3>1
    <3>3. QED
      BY <2>1, <2>3, <3>2 DEF Fold
  <2>4. QED
    BY <2>2, <2>3
<1>2. F \in SUBSET SUBSET S
  OBVIOUS
<1> HIDE DEF F
<1>3. S \in F
  BY <1>1, <1>2, SubsetInduction
<1>4. QED
  BY <1>3 DEF F

\* The total over a finite set starts from the unit and takes one element in.
LEMMA TotalFacts ==
  ASSUME NEW S, IsFiniteSet(S), NEW plus \in BOOLEAN, NEW f
  PROVE  /\ S = {} => Total(plus, f, S) = Unit(plus)
         /\ S # {} => \E x \in S : Total(plus, f, S) = Op(plus, f[x], Total(plus, f, S \ {x}))
<1> DEFINE g == CHOOSE g : IsFold(plus, f, S, g)
<1>1. IsFold(plus, f, S, g)
  BY FoldExists
<1>2. g[S] = Fold(plus, f, S, g)
  BY <1>1 DEF IsFold
<1>3. Total(plus, f, S) = g[S]
  BY DEF Total
<1> HIDE DEF g
<1>4. CASE S = {}
  BY <1>2, <1>3, <1>4 DEF Fold
<1>5. CASE S # {}
  <2> DEFINE x == CHOOSE x \in S : TRUE
             U == S \ {x}
             k == CHOOSE k : IsFold(plus, f, U, k)
  <2>1. x \in S
    BY <1>5
  <2>2. IsFiniteSet(U) /\ U \in SUBSET S
    BY FS_Subset
  <2>3. IsFold(plus, f, U, k)
    BY <2>2, FoldExists
  <2>4. Total(plus, f, U) = k[U]
    BY DEF Total
  <2> HIDE DEF k
  <2>5. k[U] = g[U]
    <3> HIDE DEF U
    <3>1. QED
      BY <1>1, <2>2, <2>3, FoldsAgree
  <2>6. Total(plus, f, S) = Op(plus, f[x], Total(plus, f, S \ {x}))
    BY <1>2, <1>3, <1>5, <2>4, <2>5 DEF Fold
  <2>7. QED
    BY <1>5, <2>1, <2>6
<1>6. QED
  BY <1>4, <1>5

\* The total depends on the values on the set only.
LEMMA TotalSame ==
  ASSUME NEW S, IsFiniteSet(S), NEW plus \in BOOLEAN, NEW f, NEW h,
         \A x \in S : f[x] = h[x]
  PROVE  Total(plus, f, S) = Total(plus, h, S)
<1> DEFINE g == CHOOSE g : IsFold(plus, f, S, g)
           k == CHOOSE k : IsFold(plus, h, S, k)
<1>1. IsFold(plus, f, S, g) /\ IsFold(plus, h, S, k)
  BY FoldExists
<1>2. Total(plus, f, S) = g[S] /\ Total(plus, h, S) = k[S]
  BY DEF Total
<1> HIDE DEF g, k
<1>3. QED
  BY <1>1, <1>2, FoldsAgree

\* The total over integers is an integer, and whichever element is taken out,
\* it is what the others come to and that element.
LEMMA TotalTakesAny ==
  ASSUME NEW S, IsFiniteSet(S), NEW plus \in BOOLEAN, NEW f, \A x \in S : f[x] \in Int
  PROVE  /\ Total(plus, f, S) \in Int
         /\ \A x \in S : Total(plus, f, S) = Op(plus, f[x], Total(plus, f, S \ {x}))
<1> DEFINE F == {T \in SUBSET S :
                   /\ Total(plus, f, T) \in Int
                   /\ \A x \in T : Total(plus, f, T) = Op(plus, f[x], Total(plus, f, T \ {x}))}
<1>1. ASSUME NEW T \in SUBSET S, \A U \in SUBSET T : U # T => U \in F
      PROVE  T \in F
  <2>1. IsFiniteSet(T)
    BY FS_Subset
  <2>2. CASE T = {}
    BY <2>1, <2>2, TotalFacts DEF Unit
  <2>3. CASE T # {}
    <3>1. PICK x \in T : Total(plus, f, T) = Op(plus, f[x], Total(plus, f, T \ {x}))
      BY <2>1, <2>3, TotalFacts
    <3>2. T \ {x} \in F
      BY <1>1, <3>1
    <3>3. Total(plus, f, T) \in Int
      BY <3>1, <3>2 DEF Op
    <3>4. ASSUME NEW y \in T, y # x
          PROVE  Total(plus, f, T) = Op(plus, f[y], Total(plus, f, T \ {y}))
      <4> DEFINE rest == Total(plus, f, T \ {x, y})
      <4>1. T \ {y} \in F /\ (T \ {x}) \ {y} = T \ {x, y} /\ (T \ {y}) \ {x} = T \ {x, y}
        BY <1>1, <3>4
      <4>2. T \ {x, y} \in F
        BY <1>1
      <4>3. rest \in Int /\ f[x] \in Int /\ f[y] \in Int
        BY <4>2, <3>4
      <4>4. Total(plus, f, T \ {x}) = Op(plus, f[y], rest)
        BY <3>2, <3>4, <4>1
      <4>5. Total(plus, f, T \ {y}) = Op(plus, f[x], rest)
        BY <3>4, <4>1
      <4> HIDE DEF rest
      <4>6. Op(plus, f[x], Op(plus, f[y], rest)) = Op(plus, f[y], Op(plus, f[x], rest))
        <5>1. ASSUME NEW m \in Int, NEW n \in Int, NEW k \in Int
              PROVE  m * (n * k) = n * (m * k) /\ m + (n + k) = n + (m + k)
          OBVIOUS
        <5>2. QED
          BY <4>3, <5>1 DEF Op
      <4>7. QED
        BY <3>1, <4>4, <4>5, <4>6
    <3>5. QED
      BY <3>1, <3>3, <3>4
  <2>4. QED
    BY <2>2, <2>3
<1>2. F \in SUBSET SUBSET S
  OBVIOUS
<1> HIDE DEF F
<1>3. S \in F
  BY <1>1, <1>2, SubsetInduction
<1>4. QED
  BY <1>3 DEF F

(***************************************************************************)
(* Sums.                                                                   *)
(***************************************************************************)

\* The sum of Functions is such a total.
LEMMA SumIsTotal ==
  ASSUME NEW f, NEW S
  PROVE  SumFunctionOnSet(f, S) = Total(TRUE, f, S)
  BY DEF SumFunctionOnSet, FoldFunctionOnSet, MapThenFoldSet, Total, IsFold, Fold, Op, Unit

\* A sum, element by element.
LEMMA SumFacts ==
  ASSUME NEW S, IsFiniteSet(S), NEW f, \A x \in S : f[x] \in Int
  PROVE  /\ S = {} => SumFunctionOnSet(f, S) = 0
         /\ SumFunctionOnSet(f, S) \in Int
         /\ \A x \in S : SumFunctionOnSet(f, S) = f[x] + SumFunctionOnSet(f, S \ {x})
<1>1. /\ S = {} => Total(TRUE, f, S) = Unit(TRUE)
      /\ Total(TRUE, f, S) \in Int
      /\ \A x \in S : Total(TRUE, f, S) = Op(TRUE, f[x], Total(TRUE, f, S \ {x}))
  <2>1. TRUE \in BOOLEAN
    OBVIOUS
  <2>2. S = {} => Total(TRUE, f, S) = Unit(TRUE)
    BY <2>1, TotalFacts
  <2>3. QED
    BY <2>1, <2>2, TotalTakesAny
<1>2. Unit(TRUE) = 0 /\ \A m, n : Op(TRUE, m, n) = m + n
  BY DEF Op, Unit
<1>3. QED
  BY <1>1, <1>2, SumIsTotal

\* A sum depends on the values on the set only.
LEMMA SumSame ==
  ASSUME NEW S, IsFiniteSet(S), NEW f, NEW g, \A x \in S : f[x] = g[x]
  PROVE  SumFunctionOnSet(f, S) = SumFunctionOnSet(g, S)
  BY TotalSame, SumIsTotal

\* Each value a multiple, the sum is the multiple.
LEMMA SumScaled ==
  ASSUME NEW S, IsFiniteSet(S), NEW f, NEW g, NEW c \in Int,
         \A x \in S : f[x] \in Int /\ g[x] = c * f[x]
  PROVE  SumFunctionOnSet(g, S) = c * SumFunctionOnSet(f, S)
<1> DEFINE F == {T \in SUBSET S : SumFunctionOnSet(g, T) = c * SumFunctionOnSet(f, T)}
<1>1. ASSUME NEW T \in SUBSET S, \A U \in SUBSET T : U # T => U \in F
      PROVE  T \in F
  <2>1. IsFiniteSet(T)
    BY FS_Subset
  <2>2. \A x \in T : f[x] \in Int /\ g[x] \in Int /\ g[x] = c * f[x]
    OBVIOUS
  <2>3. CASE T = {}
    <3>1. SumFunctionOnSet(g, T) = 0 /\ SumFunctionOnSet(f, T) = 0
      BY <2>1, <2>2, <2>3, SumFacts
    <3>2. QED
      BY <3>1
  <2>4. CASE T # {}
    <3>1. PICK x \in T : TRUE
      BY <2>4
    <3>2. T \ {x} \in F
      BY <1>1, <3>1
    <3>3. /\ SumFunctionOnSet(g, T) = g[x] + SumFunctionOnSet(g, T \ {x})
          /\ SumFunctionOnSet(f, T) = f[x] + SumFunctionOnSet(f, T \ {x})
      BY <2>1, <2>2, <3>1, SumFacts
    <3>4. SumFunctionOnSet(f, T \ {x}) \in Int
      <4>1. IsFiniteSet(T \ {x})
        BY <2>1, FS_RemoveElement
      <4>2. QED
        BY <2>2, <4>1, SumFacts
    <3>5. \A m \in Int, n \in Int : c * m + c * n = c * (m + n)
      OBVIOUS
    <3>6. SumFunctionOnSet(g, T) = c * SumFunctionOnSet(f, T)
      BY <2>2, <3>2, <3>3, <3>4, <3>5
    <3>7. QED
      BY <3>6
  <2>5. QED
    BY <2>3, <2>4
<1>2. F \in SUBSET SUBSET S
  OBVIOUS
<1> HIDE DEF F
<1>3. S \in F
  BY <1>1, <1>2, SubsetInduction
<1>4. QED
  BY <1>3 DEF F

\* The same value everywhere is counted as often as there are elements.
LEMMA SumConstant ==
  ASSUME NEW S, IsFiniteSet(S), NEW f, NEW c \in Int, \A x \in S : f[x] = c
  PROVE  SumFunctionOnSet(f, S) = Cardinality(S) * c
<1> DEFINE F == {T \in SUBSET S : SumFunctionOnSet(f, T) = Cardinality(T) * c}
<1>1. ASSUME NEW T \in SUBSET S, \A U \in SUBSET T : U # T => U \in F
      PROVE  T \in F
  <2>1. IsFiniteSet(T) /\ \A x \in T : f[x] \in Int
    BY FS_Subset
  <2>2. CASE T = {}
    BY <2>1, <2>2, SumFacts, FS_EmptySet
  <2>3. CASE T # {}
    <3>1. PICK x \in T : TRUE
      BY <2>3
    <3>2. T \ {x} \in F
      BY <1>1, <3>1
    <3>3. SumFunctionOnSet(f, T) = c + SumFunctionOnSet(f, T \ {x})
      BY <2>1, <3>1, SumFacts
    <3>4. Cardinality(T \ {x}) = Cardinality(T) - 1 /\ Cardinality(T) \in Nat
      BY <2>1, <3>1, FS_RemoveElement, FS_CardinalityType
    <3>5. \A n \in Nat : c + (n - 1) * c = n * c
      OBVIOUS
    <3>6. QED
      BY <3>2, <3>3, <3>4, <3>5
  <2>4. QED
    BY <2>2, <2>3
<1>2. F \in SUBSET SUBSET S
  OBVIOUS
<1> HIDE DEF F
<1>3. S \in F
  BY <1>1, <1>2, SubsetInduction
<1>4. QED
  BY <1>3 DEF F

\* The sum over two sets without a common element.
LEMMA SumUnion ==
  ASSUME NEW S, IsFiniteSet(S), NEW R, IsFiniteSet(R), S \cap R = {},
         NEW f, \A x \in S \cup R : f[x] \in Int
  PROVE  SumFunctionOnSet(f, S \cup R) = SumFunctionOnSet(f, S) + SumFunctionOnSet(f, R)
<1> DEFINE F == {T \in SUBSET S :
      SumFunctionOnSet(f, T \cup R) = SumFunctionOnSet(f, T) + SumFunctionOnSet(f, R)}
<1>1. ASSUME NEW T \in SUBSET S, \A U \in SUBSET T : U # T => U \in F
      PROVE  T \in F
  <2>1. /\ IsFiniteSet(T) /\ \A x \in T : f[x] \in Int
        /\ IsFiniteSet(T \cup R) /\ \A x \in T \cup R : f[x] \in Int
        /\ SumFunctionOnSet(f, R) \in Int
    BY FS_Subset, FS_Union, SumFacts
  <2>2. CASE T = {}
    <3>1. SumFunctionOnSet(f, T) = 0 /\ T \cup R = R
      BY <2>1, <2>2, SumFacts
    <3>2. SumFunctionOnSet(f, T \cup R) = SumFunctionOnSet(f, T) + SumFunctionOnSet(f, R)
      BY <2>1, <3>1
    <3>3. QED
      BY <3>2
  <2>3. CASE T # {}
    <3>1. PICK x \in T : TRUE
      BY <2>3
    <3>2. T \ {x} \in F /\ (T \cup R) \ {x} = (T \ {x}) \cup R
      BY <1>1, <3>1
    <3>3. /\ SumFunctionOnSet(f, T) = f[x] + SumFunctionOnSet(f, T \ {x})
          /\ SumFunctionOnSet(f, T \cup R) = f[x] + SumFunctionOnSet(f, (T \cup R) \ {x})
      BY <2>1, <3>1, SumFacts
    <3>4. SumFunctionOnSet(f, T \ {x}) \in Int
      <4>1. IsFiniteSet(T \ {x})
        BY <2>1, FS_RemoveElement
      <4>2. QED
        BY <2>1, <4>1, SumFacts
    <3>5. SumFunctionOnSet(f, (T \ {x}) \cup R)
             = SumFunctionOnSet(f, T \ {x}) + SumFunctionOnSet(f, R)
      BY <3>2
    <3>6. SumFunctionOnSet(f, T \cup R) = SumFunctionOnSet(f, T) + SumFunctionOnSet(f, R)
      <4>1. SumFunctionOnSet(f, T \cup R)
               = f[x] + (SumFunctionOnSet(f, T \ {x}) + SumFunctionOnSet(f, R))
        BY <3>2, <3>3, <3>5, Zenon
      <4>2. f[x] \in Int
        BY <2>1, <3>1
      <4>3. QED
        BY <2>1, <3>3, <3>4, <4>1, <4>2
    <3>7. QED
      BY <3>6
  <2>4. QED
    BY <2>2, <2>3
<1>2. F \in SUBSET SUBSET S
  OBVIOUS
<1> HIDE DEF F
<1>3. S \in F
  BY <1>1, <1>2, SubsetInduction
<1>4. QED
  BY <1>3 DEF F

\* Where two functions have the same sum on each block of a partition, they
\* have the same sum.
LEMMA SumOfBlocks ==
  ASSUME NEW S, IsFiniteSet(S), NEW block \in [S -> SUBSET S],
         \A x \in S : x \in block[x] /\ \A y \in block[x] : block[y] = block[x],
         NEW f, NEW g, \A x \in S : f[x] \in Int /\ g[x] \in Int,
         \A x \in S : SumFunctionOnSet(f, block[x]) = SumFunctionOnSet(g, block[x])
  PROVE  SumFunctionOnSet(f, S) = SumFunctionOnSet(g, S)
<1> DEFINE Whole(T) == \A x \in T : block[x] \subseteq T
           F == {T \in SUBSET S : Whole(T) => SumFunctionOnSet(f, T) = SumFunctionOnSet(g, T)}
<1>1. ASSUME NEW T \in SUBSET S, \A U \in SUBSET T : U # T => U \in F
      PROVE  T \in F
  <2>1. IsFiniteSet(T) /\ \A x \in T : f[x] \in Int /\ g[x] \in Int
    BY FS_Subset
  <2>2. SUFFICES ASSUME Whole(T) PROVE SumFunctionOnSet(f, T) = SumFunctionOnSet(g, T)
    OBVIOUS
  <2>3. CASE T = {}
    <3>1. SumFunctionOnSet(f, T) = 0 /\ SumFunctionOnSet(g, T) = 0
      BY <2>1, <2>3, SumFacts
    <3>2. QED
      BY <3>1
  <2>4. CASE T # {}
    <3>1. PICK x \in T : TRUE
      BY <2>4
    <3> DEFINE B == block[x]
               U == T \ B
    <3>2. B \in SUBSET T /\ x \in B /\ x \in S
      BY <2>2, <3>1
    <3>3. Whole(U)
      <4>1. ASSUME NEW y \in U, NEW z \in block[y] PROVE z \in U
        <5>1. z \in T /\ y \in S
          BY <2>2, <4>1
        <5>2. z \in S /\ block[z] = block[y] /\ y \in block[y]
          BY <4>1, <5>1
        <5>3. ASSUME z \in B PROVE FALSE
          <6>1. block[z] = B
            BY <3>2, <5>3
          <6>2. y \in B
            BY <5>2, <6>1
          <6>3. QED
            BY <4>1, <6>2
        <5>4. QED
          BY <5>1, <5>3
      <4>2. QED
        BY <4>1
    <3>4. U \in F
      BY <1>1, <3>1, <3>2
    <3>5. SumFunctionOnSet(f, U) = SumFunctionOnSet(g, U)
      BY <3>3, <3>4
    <3>6. SumFunctionOnSet(f, B) = SumFunctionOnSet(g, B)
      BY <3>2
    <3>7. /\ IsFiniteSet(B) /\ IsFiniteSet(U) /\ B \cap U = {} /\ B \cup U = T
      BY <2>1, <3>2, FS_Subset
    <3> HIDE DEF B, U
    <3>8. SumFunctionOnSet(f, T) = SumFunctionOnSet(f, B) + SumFunctionOnSet(f, U)
      BY <2>1, <3>7, SumUnion
    <3>9. SumFunctionOnSet(g, T) = SumFunctionOnSet(g, B) + SumFunctionOnSet(g, U)
      BY <2>1, <3>7, SumUnion
    <3>10. QED
      BY <3>5, <3>6, <3>8, <3>9
  <2>5. QED
    BY <2>3, <2>4
<1>2. F \in SUBSET SUBSET S
  OBVIOUS
<1>3. Whole(S)
  OBVIOUS
<1>4. S \in F
  <2> HIDE DEF F
  <2>1. QED
    BY <1>1, <1>2, SubsetInduction
<1>5. QED
  BY <1>3, <1>4

\* The same values under other names have the same sum.
LEMMA SumRenamed ==
  ASSUME NEW S, IsFiniteSet(S), NEW R, NEW name \in Bijection(S, R), NEW f, NEW g,
         \A x \in S : f[x] \in Int /\ g[name[x]] = f[x]
  PROVE  SumFunctionOnSet(g, R) = SumFunctionOnSet(f, S)
<1> DEFINE Named(T) == {name[x] : x \in T}
           F == {T \in SUBSET S :
                   /\ IsFiniteSet(Named(T))
                   /\ SumFunctionOnSet(g, Named(T)) = SumFunctionOnSet(f, T)}
<1>1. ASSUME NEW T \in SUBSET S, \A U \in SUBSET T : U # T => U \in F
      PROVE  T \in F
  <2>1. IsFiniteSet(T) /\ \A x \in T : f[x] \in Int /\ g[name[x]] \in Int
    BY FS_Subset
  <2>2. CASE T = {}
    <3>1. Named(T) = {}
      BY <2>2
    <3>2. QED
      BY <2>1, <2>2, <3>1, SumFacts, FS_EmptySet
  <2>3. CASE T # {}
    <3>1. PICK x \in T : TRUE
      BY <2>3
    <3>2. T \ {x} \in F
      BY <1>1, <3>1
    <3>3. Named(T) = Named(T \ {x}) \cup {name[x]} /\ name[x] \notin Named(T \ {x})
      BY <3>1 DEF Bijection, Injection, IsInjective
    <3>4. IsFiniteSet(Named(T)) /\ Named(T) \ {name[x]} = Named(T \ {x}) /\ name[x] \in Named(T)
      <4>1. IsFiniteSet(Named(T \ {x}))
        BY <3>2
      <4> HIDE DEF Named, F
      <4>2. IsFiniteSet(Named(T \ {x}) \cup {name[x]})
        BY <4>1, FS_AddElement
      <4>3. QED
        BY <3>3, <4>2
    <3>5. \A y \in Named(T) : g[y] \in Int
      BY <2>1
    <3>6. SumFunctionOnSet(g, Named(T \ {x})) = SumFunctionOnSet(f, T \ {x})
      BY <3>2
    <3>7. SumFunctionOnSet(f, T) = f[x] + SumFunctionOnSet(f, T \ {x})
      BY <2>1, <3>1, SumFacts
    <3>8. g[name[x]] = f[x]
      BY <3>1
    <3> HIDE DEF F
    <3>9. SumFunctionOnSet(g, Named(T)) = g[name[x]] + SumFunctionOnSet(g, Named(T \ {x}))
      <4> HIDE DEF Named
      <4>1. \A y \in Named(T) :
               SumFunctionOnSet(g, Named(T)) = g[y] + SumFunctionOnSet(g, Named(T) \ {y})
        BY <3>4, <3>5, SumFacts
      <4>2. QED
        BY <3>4, <4>1
    <3>10. SumFunctionOnSet(g, Named(T)) = SumFunctionOnSet(f, T)
      BY <3>6, <3>7, <3>8, <3>9
    <3>11. QED
      BY <3>4, <3>10 DEF F
  <2>4. QED
    BY <2>2, <2>3
<1>2. F \in SUBSET SUBSET S
  OBVIOUS
<1>3. S \in F
  <2> HIDE DEF F
  <2>1. QED
    BY <1>1, <1>2, SubsetInduction
<1>4. R = Named(S)
  BY DEF Bijection, Injection, Surjection
<1>5. QED
  BY <1>3, <1>4
===============================================================================
