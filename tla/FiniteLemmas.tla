---------------------------- MODULE FiniteLemmas ----------------------------
(***************************************************************************)
(* Facts about finite sets that the proofs of SnapshotCompose and          *)
(* ArcHistory share: the last element of an order, the extremes of a set   *)
(* of numbers, and sums over sets.                                         *)
(*                                                                         *)
(* Sums are recursive functions on the subsets of a set.  Facts about them *)
(* are proved with a smallest set that breaks them, which exists since the *)
(* strict subsets of a finite set are well founded.                        *)
(***************************************************************************)
EXTENDS FiniteSetsExt, FiniteSetTheorems, TLAPS

-----------------------------------------------------------------------------
(* Orders *)

\* In a finite set, a strict order has a last element.
LEMMA LastExists ==
  ASSUME NEW S, IsFiniteSet(S), S # {},
         NEW R,
         \A x \in S : <<x, x>> \notin R,
         \A x, y, z \in S : <<x, y>> \in R /\ <<y, z>> \in R => <<x, z>> \in R
  PROVE  \E x \in S : \A y \in S : <<x, y>> \notin R
<1> DEFINE After(x) == {y \in S : <<x, y>> \in R}
           T == {After(x) : x \in S}
<1>1. IsWellFoundedOn(StrictSubsetOrdering(S), FiniteSubsetsOf(S))
  BY FS_StrictSubsetOrderingWellFounded
<1>2. T \subseteq FiniteSubsetsOf(S) /\ T # {}
  <2>1. FiniteSubsetsOf(S) = SUBSET S
    BY FS_FiniteSubsetsOfFinite
  <2>2. \A x \in S : After(x) \in SUBSET S
    OBVIOUS
  <2> HIDE DEF After
  <2>3. T \subseteq SUBSET S
    BY <2>2
  <2>4. T # {}
    OBVIOUS
  <2> HIDE DEF T
  <2> QED
    BY <2>1, <2>3, <2>4
<1>3. PICK A \in T : \A B \in T : ~ (<<B, A>> \in StrictSubsetOrdering(S))
  <2> HIDE DEF T
  <2> QED
    BY <1>1, <1>2, WFMin
<1>4. PICK x \in S : A = After(x)
  BY <1>3
<1>5. ASSUME NEW y \in S, <<x, y>> \in R
      PROVE  FALSE
  <2>1. After(y) \subseteq After(x) /\ y \in After(x) /\ y \notin After(y)
    BY <1>5
  <2>2. <<After(y), A>> \in StrictSubsetOrdering(S)
    BY <2>1, <1>4 DEF StrictSubsetOrdering
  <2> QED
    BY <2>2, <1>3
<1> QED
  BY <1>5

\* Of finitely many subsets one is smallest.
LEMMA SmallestMember ==
  ASSUME NEW U, IsFiniteSet(U), NEW C \in SUBSET (SUBSET U), C # {}
  PROVE  \E T \in C : \A V \in C : V \subseteq T => V = T
<1>1. IsWellFoundedOn(StrictSubsetOrdering(U), FiniteSubsetsOf(U))
  BY FS_StrictSubsetOrderingWellFounded
<1>2. C \subseteq FiniteSubsetsOf(U)
  BY FS_FiniteSubsetsOfFinite
<1>3. PICK T \in C : \A V \in C : ~ (<<V, T>> \in StrictSubsetOrdering(U))
  BY <1>1, <1>2, WFMin
<1> QED
  BY <1>3 DEF StrictSubsetOrdering

-----------------------------------------------------------------------------
(* Extremes *)

LEMMA MaxReads ==
  ASSUME NEW S \in SUBSET Int, IsFiniteSet(S), S # {}
  PROVE  /\ Max(S) \in S
         /\ \A x \in S : x <= Max(S)
<1> DEFINE R == {p \in S \X S : p[1] < p[2]}
<1>1. \A x, y \in S : <<x, y>> \in R <=> x < y
  OBVIOUS
<1>2. PICK x \in S : \A y \in S : <<x, y>> \notin R
  <2> HIDE DEF R
  <2>1. \A x \in S : <<x, x>> \notin R
    BY <1>1
  <2>2. \A x, y, z \in S : <<x, y>> \in R /\ <<y, z>> \in R => <<x, z>> \in R
    BY <1>1
  <2> QED
    BY <2>1, <2>2, LastExists
<1> HIDE DEF R
<1>3. ASSUME NEW y \in S
      PROVE  x >= y
  <2>1. ~ (x < y)
    BY <1>1, <1>2
  <2>2. x \in Int /\ y \in Int
    OBVIOUS
  <2> QED
    BY <2>1, <2>2
<1> QED
  BY <1>3 DEF Max

LEMMA MinReads ==
  ASSUME NEW S \in SUBSET Int, IsFiniteSet(S), S # {}
  PROVE  /\ Min(S) \in S
         /\ \A x \in S : Min(S) <= x
<1> DEFINE R == {p \in S \X S : p[1] > p[2]}
<1>1. \A x, y \in S : <<x, y>> \in R <=> x > y
  OBVIOUS
<1>2. PICK x \in S : \A y \in S : <<x, y>> \notin R
  <2> HIDE DEF R
  <2>1. \A x \in S : <<x, x>> \notin R
    BY <1>1
  <2>2. \A x, y, z \in S : <<x, y>> \in R /\ <<y, z>> \in R => <<x, z>> \in R
    BY <1>1
  <2> QED
    BY <2>1, <2>2, LastExists
<1> HIDE DEF R
<1>3. ASSUME NEW y \in S
      PROVE  x <= y
  <2>1. ~ (x > y)
    BY <1>1, <1>2
  <2>2. x \in Int /\ y \in Int
    OBVIOUS
  <2> QED
    BY <2>1, <2>2
<1> QED
  BY <1>3 DEF Min

\* The extremes of a set with one more number.
LEMMA ExtremesAdd ==
  ASSUME NEW S \in SUBSET Int, IsFiniteSet(S), S # {}, NEW x \in Int,
         NEW T, T = S \cup {x}
  PROVE  /\ Max(T) = IF Max(S) >= x THEN Max(S) ELSE x
         /\ Min(T) = IF Min(S) <= x THEN Min(S) ELSE x
<1>1. IsFiniteSet(T)
  BY FS_AddElement
<1>2. /\ Max(S) \in S /\ \A y \in S : y <= Max(S)
      /\ Min(S) \in S /\ \A y \in S : Min(S) <= y
  BY MaxReads, MinReads
<1>3. /\ Max(T) \in T /\ \A y \in T : y <= Max(T)
      /\ Min(T) \in T /\ \A y \in T : Min(T) <= y
  BY <1>1, MaxReads, MinReads
<1> DEFINE M == Max(S)
           N == Max(T)
           m == Min(S)
           n == Min(T)
<1>4. /\ M \in S /\ \A y \in S : y <= M
      /\ N \in T /\ \A y \in T : y <= N
  BY <1>2, <1>3
<1>5. /\ m \in S /\ \A y \in S : m <= y
      /\ n \in T /\ \A y \in T : n <= y
  BY <1>2, <1>3
<1> HIDE DEF M, N, m, n
<1>6. N = IF M >= x THEN M ELSE x
  BY <1>4
<1>7. n = IF m <= x THEN m ELSE x
  BY <1>5
<1> QED
  BY <1>6, <1>7 DEF M, N, m, n

LEMMA ExtremesOfOne ==
  ASSUME NEW x \in Int
  PROVE  Max({x}) = x /\ Min({x}) = x
  BY MaxReads, MinReads, FS_Singleton

\* A function has finitely many values on a finite set.
LEMMA ImageIsFinite ==
  ASSUME NEW S, IsFiniteSet(S), NEW f
  PROVE  IsFiniteSet({f[x] : x \in S})
<1> DEFINE T == {f[x] : x \in S}
           g == [x \in S |-> f[x]]
<1>1. g \in Surjection(S, T)
  BY DEF Surjection
<1> HIDE DEF g, T
<1>2. IsFiniteSet(T)
  BY <1>1, FS_Surjection
<1> QED
  BY <1>2 DEF T

-----------------------------------------------------------------------------
(* Sums *)

\* The sum of f over T, given those over its subsets.
SumStep(f, g, T) ==
  IF T = {} THEN 0
  ELSE f[CHOOSE x \in T : TRUE] + g[T \ {CHOOSE x \in T : TRUE}]

\* g is the sum of f over each subset of U.
IsSum(g, f, U) == g = [T \in SUBSET U |-> SumStep(f, g, T)]

LEMMA SumUnique ==
  ASSUME NEW U, NEW V, NEW f, NEW e, NEW g, NEW h,
         IsSum(g, f, U), IsSum(h, e, V),
         NEW W, IsFiniteSet(W), W \subseteq U, W \subseteq V,
         \A x \in W : f[x] = e[x]
  PROVE  g[W] = h[W]
<1> DEFINE C == {T \in SUBSET W : g[T] # h[T]}
<1>1. SUFFICES ASSUME C # {} PROVE FALSE
  OBVIOUS
<1>a. C \in SUBSET (SUBSET W)
  OBVIOUS
<1>2. PICK T \in C : \A S \in C : S \subseteq T => S = T
  <2> HIDE DEF C
  <2> QED
    BY <1>1, <1>a, SmallestMember
<1>3. T \in SUBSET W /\ g[T] # h[T]
  OBVIOUS
<1>4. g[T] = SumStep(f, g, T) /\ h[T] = SumStep(e, h, T)
  BY <1>3 DEF IsSum
<1>5. T # {}
  BY <1>3, <1>4 DEF SumStep
<1> DEFINE x == CHOOSE x \in T : TRUE
           S == T \ {x}
<1>6. x \in T
  BY <1>5
<1>7. g[T] = f[x] + g[S] /\ h[T] = e[x] + h[S]
  BY <1>4, <1>5 DEF SumStep
<1> HIDE DEF x
<1>8. g[S] = h[S]
  <2>1. S \subseteq T /\ S # T /\ S \in SUBSET W
    BY <1>3, <1>6
  <2> QED
    BY <1>2, <2>1
<1>9. f[x] = e[x]
  BY <1>3, <1>6
<1> QED
  BY <1>3, <1>7, <1>8, <1>9

LEMMA SumExists ==
  ASSUME NEW U, IsFiniteSet(U), NEW f
  PROVE  \E g : IsSum(g, f, U)
<1> DEFINE Has(T) == \E g : IsSum(g, f, T)
           C == {T \in SUBSET U : ~ Has(T)}
<1>1. SUFFICES ASSUME C # {} PROVE FALSE
  OBVIOUS
<1>a. C \in SUBSET (SUBSET U)
  OBVIOUS
<1>2. PICK T \in C : \A S \in C : S \subseteq T => S = T
  <2> HIDE DEF C
  <2> QED
    BY <1>1, <1>a, SmallestMember
<1>3. T \in SUBSET U /\ ~ Has(T)
  OBVIOUS
<1> DEFINE Sum(S) == CHOOSE g : IsSum(g, f, S)
           one(S) == CHOOSE x \in S : TRUE
           less(S) == S \ {one(S)}
           G == [S \in SUBSET T |-> IF S = {} THEN 0 ELSE f[one(S)] + Sum(less(S))[less(S)]]
<1>4. ASSUME NEW S, S \subseteq T, S # T
      PROVE  IsSum(Sum(S), f, S) /\ IsFiniteSet(S)
  <2>1. Has(S)
    BY <1>2, <1>3, <1>4
  <2>2. IsSum(Sum(S), f, S)
    BY <2>1
  <2> QED
    BY <1>3, <1>4, <2>2, FS_Subset
<1>5. ASSUME NEW S, S \subseteq T, S # {}
      PROVE  less(S) \subseteq T /\ less(S) # T /\ less(S) \subseteq S
  <2>1. one(S) \in S
    BY <1>5
  <2> HIDE DEF one
  <2> QED
    BY <1>5, <2>1
<1>6. ASSUME NEW S, S \subseteq T, S # T
      PROVE  G[S] = Sum(S)[S]
  <2>1. Sum(S)[S] = SumStep(f, Sum(S), S)
    <3>1. IsSum(Sum(S), f, S)
      BY <1>4, <1>6
    <3> HIDE DEF Sum
    <3> QED
      BY <3>1 DEF IsSum
  <2>2. CASE S = {}
    BY <2>1, <2>2, <1>6 DEF SumStep
  <2>3. CASE S # {}
    <3>1. less(S) \subseteq T /\ less(S) # T /\ less(S) \subseteq S
      BY <1>5, <1>6, <2>3
    <3>2. Sum(S)[S] = f[one(S)] + Sum(S)[less(S)]
      BY <2>1, <2>3 DEF SumStep
    <3>3. G[S] = f[one(S)] + Sum(less(S))[less(S)]
      BY <1>6, <2>3
    <3>4. /\ IsSum(Sum(S), f, S) /\ IsSum(Sum(less(S)), f, less(S))
          /\ IsFiniteSet(less(S))
      BY <1>4, <1>6, <3>1
    <3>5. Sum(S)[less(S)] = Sum(less(S))[less(S)]
      <4> HIDE DEF less, Sum
      <4> QED
        BY <3>1, <3>4, SumUnique
    <3> QED
      BY <3>2, <3>3, <3>5
  <2> QED
    BY <2>2, <2>3
<1>7. ASSUME NEW S \in SUBSET T
      PROVE  G[S] = SumStep(f, G, S)
  <2>1. CASE S = {}
    BY <2>1 DEF SumStep
  <2>2. CASE S # {}
    <3>1. G[less(S)] = Sum(less(S))[less(S)]
      BY <1>5, <1>6, <2>2
    <3>2. G[S] = f[one(S)] + Sum(less(S))[less(S)]
      BY <2>2
    <3>3. SumStep(f, G, S) = f[one(S)] + G[less(S)]
      BY <2>2 DEF SumStep
    <3> QED
      BY <3>1, <3>2, <3>3
  <2> QED
    BY <2>1, <2>2
<1>8. G = [S \in SUBSET T |-> G[S]]
  OBVIOUS
<1> HIDE DEF G
<1>9. G = [S \in SUBSET T |-> SumStep(f, G, S)]
  BY <1>7, <1>8
<1> QED
  BY <1>3, <1>9 DEF IsSum

\* The order in which a sum takes its terms does not matter.
LEMMA SumAdd ==
  ASSUME NEW U, IsFiniteSet(U), NEW f,
         NEW D \in {Nat, Int}, \A x \in U : f[x] \in D,
         NEW g, IsSum(g, f, U)
  PROVE  /\ g[{}] = 0
         /\ \A S \in SUBSET U : g[S] \in D
         /\ \A S, T \in SUBSET U : \A x \in T :
              x \notin S /\ T = S \cup {x} => g[T] = g[S] + f[x]
<1> DEFINE one(S) == CHOOSE x \in S : TRUE
<1>1. \A S \in SUBSET U : g[S] = SumStep(f, g, S)
  BY DEF IsSum
<1>2. g[{}] = 0
  BY <1>1 DEF SumStep
<1>3. \A S \in SUBSET U : S # {} => one(S) \in S /\ g[S] = f[one(S)] + g[S \ {one(S)}]
  BY <1>1 DEF SumStep
<1> HIDE DEF one
<1>4. \A S \in SUBSET U : g[S] \in D
  <2> DEFINE C == {S \in SUBSET U : g[S] \notin D}
  <2>1. SUFFICES ASSUME C # {} PROVE FALSE
    OBVIOUS
  <2>a. C \in SUBSET (SUBSET U)
    OBVIOUS
  <2>2. PICK T \in C : \A S \in C : S \subseteq T => S = T
    <3> HIDE DEF C
    <3> QED
      BY <2>1, <2>a, SmallestMember
  <2>3. T # {}
    BY <1>2
  <2>4. one(T) \in T /\ g[T] = f[one(T)] + g[T \ {one(T)}]
    BY <1>3, <2>3
  <2>5. g[T \ {one(T)}] \in D
    BY <2>2, <2>4
  <2>6. f[one(T)] \in D
    BY <2>2, <2>4
  <2> QED
    BY <2>2, <2>4, <2>5, <2>6
<1>5. \A S \in SUBSET U : \A x \in U \ S : g[S \cup {x}] = g[S] + f[x]
  <2> DEFINE C == {S \in SUBSET U : \E x \in U \ S : g[S \cup {x}] # g[S] + f[x]}
  <2>1. SUFFICES ASSUME C # {} PROVE FALSE
    OBVIOUS
  <2>a. C \in SUBSET (SUBSET U)
    OBVIOUS
  <2>2. PICK S \in C : \A V \in C : V \subseteq S => V = S
    <3> HIDE DEF C
    <3> QED
      BY <2>1, <2>a, SmallestMember
  <2>3. PICK x \in U \ S : g[S \cup {x}] # g[S] + f[x]
    OBVIOUS
  <2> DEFINE y == one(S \cup {x})
             V == S \ {y}
  <2>4. y \in S \cup {x} /\ g[S \cup {x}] = f[y] + g[(S \cup {x}) \ {y}]
    BY <1>3
  <2> HIDE DEF y
  <2>5. y # x
    <3> SUFFICES ASSUME y = x PROVE FALSE
      OBVIOUS
    <3>1. (S \cup {x}) \ {y} = S
      BY <2>3
    <3>2. g[S] \in Int /\ f[x] \in Int
      BY <1>4, <2>3
    <3>3. g[S \cup {x}] = f[x] + g[S]
      BY <2>4, <3>1
    <3>4. g[S \cup {x}] # g[S] + f[x]
      BY <2>3
    <3> QED
      BY <3>2, <3>3, <3>4
  <2>6. y \in S
    BY <2>4, <2>5
  <2>7. V \in SUBSET U /\ V \notin C /\ y \in U \ V /\ x \in U \ V
    BY <2>2, <2>6
  <2>8. g[V \cup {x}] = g[V] + f[x] /\ g[V \cup {y}] = g[V] + f[y]
    BY <2>7
  <2>9. V \cup {y} = S /\ V \cup {x} = (S \cup {x}) \ {y}
    BY <2>3, <2>5, <2>6
  <2>10. g[V] \in Int /\ f[x] \in Int /\ f[y] \in Int
    BY <1>4, <2>7
  <2>11. /\ g[S \cup {x}] # g[S] + f[x]
         /\ g[S \cup {x}] = f[y] + g[V \cup {x}]
         /\ g[V \cup {x}] = g[V] + f[x] /\ g[S] = g[V] + f[y]
    BY <2>3, <2>4, <2>8, <2>9
  <2> HIDE DEF V
  <2> QED
    BY <2>10, <2>11
<1> QED
  BY <1>2, <1>4, <1>5

\* The sum of a function, as the community modules define it.
LEMMA SumFunctionReads ==
  ASSUME NEW f, NEW g, IsSum(g, f, DOMAIN f), IsFiniteSet(DOMAIN f)
  PROVE  SumFunction(f) = g[DOMAIN f]
<1> DEFINE body(h) == [s \in SUBSET DOMAIN f |->
                        IF s = {} THEN 0
                        ELSE f[CHOOSE x \in s : TRUE] + h[s \ {CHOOSE x \in s : TRUE}]]
           iter == CHOOSE h : h = body(h)
<1>1. SumFunction(f) = iter[DOMAIN f]
  BY DEF SumFunction, SumFunctionOnSet, FoldFunctionOnSet, MapThenFoldSet
<1>2. \A h : IsSum(h, f, DOMAIN f) <=> h = body(h)
  BY DEF IsSum, SumStep
<1> HIDE DEF body
<1>3. IsSum(iter, f, DOMAIN f)
  BY <1>2
<1> HIDE DEF iter
<1>4. iter[DOMAIN f] = g[DOMAIN f]
  BY <1>3, SumUnique
<1> QED
  BY <1>1, <1>4

\* A function with one more argument sums up to its new value more.
LEMMA SumWithOneMore ==
  ASSUME NEW S, IsFiniteSet(S), NEW x, x \notin S,
         NEW U, U = S \cup {x},
         NEW f, DOMAIN f = S, NEW e, DOMAIN e = U,
         \A y \in S : e[y] = f[y], \A y \in U : e[y] \in Nat
  PROVE  /\ SumFunction(f) \in Nat
         /\ SumFunction(e) = SumFunction(f) + e[x]
<1>1. IsFiniteSet(U)
  BY FS_AddElement
<1>2. PICK g : IsSum(g, f, S)
  BY SumExists
<1>3. PICK h : IsSum(h, e, U)
  BY <1>1, SumExists
<1>4. SumFunction(f) = g[S] /\ SumFunction(e) = h[U]
  BY <1>1, <1>2, <1>3, SumFunctionReads
<1>5. g[S] = h[S]
  <2>1. S \subseteq U
    OBVIOUS
  <2> QED
    BY <1>2, <1>3, <2>1, SumUnique
<1>6. h[S] \in Nat /\ h[U] = h[S] + e[x]
  <2>1. \A y \in U : e[y] \in Nat
    OBVIOUS
  <2>2. S \in SUBSET U /\ U \in SUBSET U /\ x \in U /\ U = S \cup {x}
    OBVIOUS
  <2>3. /\ h[S] \in Nat
        /\ \A P, T \in SUBSET U : \A y \in T :
             y \notin P /\ T = P \cup {y} => h[T] = h[P] + e[y]
    BY <1>1, <1>3, <2>1, <2>2, SumAdd
  <2> QED
    BY <2>2, <2>3
<1> QED
  BY <1>4, <1>5, <1>6

LEMMA SumOfNothing ==
  ASSUME NEW f, DOMAIN f = {}
  PROVE  SumFunction(f) = 0
<1>1. IsFiniteSet({})
  BY FS_EmptySet
<1>2. PICK g : IsSum(g, f, {})
  BY <1>1, SumExists
<1>3. g[{}] = 0
  BY <1>1, <1>2, SumAdd
<1> QED
  BY <1>1, <1>2, <1>3, SumFunctionReads

-----------------------------------------------------------------------------
(* Sums over parts of a set *)

SumOver(f, S) == SumFunction([x \in S |-> f[x]])

LEMMA SumOverReads ==
  ASSUME NEW U, IsFiniteSet(U), NEW f,
         NEW D \in {Nat, Int}, \A x \in U : f[x] \in D
  PROVE  /\ SumOver(f, {}) = 0
         /\ \A S \in SUBSET U : SumOver(f, S) \in D
         /\ \A S, T \in SUBSET U : \A x \in T :
              x \notin S /\ T = S \cup {x} => SumOver(f, T) = SumOver(f, S) + f[x]
<1>1. PICK g : IsSum(g, f, U)
  BY SumExists
<1>2. ASSUME NEW S \in SUBSET U
      PROVE  SumOver(f, S) = g[S]
  <2> DEFINE e == [x \in S |-> f[x]]
  <2>1. DOMAIN e = S /\ IsFiniteSet(S) /\ \A x \in S : e[x] = f[x]
    BY FS_Subset
  <2> HIDE DEF e
  <2>2. PICK h : IsSum(h, e, S)
    BY <2>1, SumExists
  <2>3. SumFunction(e) = h[S]
    BY <2>1, <2>2, SumFunctionReads
  <2>4. h[S] = g[S]
    BY <1>1, <2>1, <2>2, SumUnique
  <2> QED
    BY <2>3, <2>4 DEF SumOver, e
<1>3. /\ g[{}] = 0
      /\ \A S \in SUBSET U : g[S] \in D
      /\ \A S, T \in SUBSET U : \A x \in T :
           x \notin S /\ T = S \cup {x} => g[T] = g[S] + f[x]
  BY <1>1, SumAdd
<1> QED
  BY <1>2, <1>3

\* The sum over two sets that have nothing in common.
LEMMA SumOfUnion ==
  ASSUME NEW U, IsFiniteSet(U), NEW f,
         NEW D \in {Nat, Int}, \A x \in U : f[x] \in D,
         NEW A \in SUBSET U, NEW B \in SUBSET U, A \cap B = {}
  PROVE  SumOver(f, A \cup B) = SumOver(f, A) + SumOver(f, B)
<1> DEFINE C == {S \in SUBSET B : SumOver(f, A \cup S) # SumOver(f, A) + SumOver(f, S)}
<1>1. SUFFICES ASSUME C # {} PROVE FALSE
  OBVIOUS
<1>2. IsFiniteSet(B) /\ C \in SUBSET (SUBSET B)
  BY FS_Subset
<1>3. PICK S \in C : \A V \in C : V \subseteq S => V = S
  <2> HIDE DEF C
  <2> QED
    BY <1>1, <1>2, SmallestMember
<1>4. /\ SumOver(f, {}) = 0
      /\ \A V \in SUBSET U : SumOver(f, V) \in Int
      /\ \A V, W \in SUBSET U : \A x \in W :
           x \notin V /\ W = V \cup {x} => SumOver(f, W) = SumOver(f, V) + f[x]
  BY SumOverReads
<1>5. S # {}
  <2>1. A \cup {} = A /\ SumOver(f, A) \in Int
    BY <1>4
  <2>2. {} \notin C
    BY <1>4, <2>1
  <2> QED
    BY <2>2
<1>6. PICK x \in S : TRUE
  BY <1>5
<1> DEFINE V == S \ {x}
<1>7. V \in SUBSET B /\ V \notin C /\ S \in SUBSET B
  BY <1>3, <1>6
<1>8. SumOver(f, A \cup V) = SumOver(f, A) + SumOver(f, V)
  BY <1>7
<1>9. SumOver(f, S) = SumOver(f, V) + f[x]
  <2>1. x \notin V /\ S = V \cup {x} /\ V \in SUBSET U /\ S \in SUBSET U
    BY <1>6, <1>7
  <2> QED
    BY <1>4, <1>6, <2>1
<1>10. SumOver(f, A \cup S) = SumOver(f, A \cup V) + f[x]
  <2>1. /\ x \notin A \cup V /\ A \cup S = (A \cup V) \cup {x}
        /\ A \cup V \in SUBSET U /\ A \cup S \in SUBSET U /\ x \in A \cup S
    BY <1>6, <1>7
  <2> QED
    BY <1>4, <2>1
<1>11. SumOver(f, A) \in Int /\ SumOver(f, V) \in Int /\ f[x] \in Int
  BY <1>4, <1>6, <1>7
<1>12. SumOver(f, A \cup S) # SumOver(f, A) + SumOver(f, S)
  OBVIOUS
<1> QED
  BY <1>8, <1>9, <1>10, <1>11, <1>12

\* The sum of the sums over disjoint parts of a set.
LEMMA SumOfParts ==
  ASSUME NEW U, IsFiniteSet(U), NEW f,
         NEW D \in {Nat, Int}, \A x \in U : f[x] \in D,
         NEW I, IsFiniteSet(I), NEW part,
         \A i \in I : part[i] \subseteq U,
         \A i, j \in I : i # j => part[i] \cap part[j] = {},
         NEW e, \A i \in I : e[i] = SumOver(f, part[i])
  PROVE  SumOver(e, I) = SumOver(f, UNION {part[i] : i \in I})
<1> DEFINE all(J) == UNION {part[i] : i \in J}
           C == {J \in SUBSET I : SumOver(e, J) # SumOver(f, all(J))}
<1>1. SUFFICES ASSUME C # {} PROVE FALSE
  OBVIOUS
<1>2. C \in SUBSET (SUBSET I)
  OBVIOUS
<1>3. PICK J \in C : \A K \in C : K \subseteq J => K = J
  <2> HIDE DEF C
  <2> QED
    BY <1>1, <1>2, SmallestMember
<1>4. SumOver(f, {}) = 0 /\ \A S \in SUBSET U : SumOver(f, S) \in D
  BY SumOverReads
<1>5. /\ SumOver(e, {}) = 0
      /\ \A S, T \in SUBSET I : \A x \in T :
           x \notin S /\ T = S \cup {x} => SumOver(e, T) = SumOver(e, S) + e[x]
  <2>1. \A i \in I : e[i] \in D
    BY <1>4
  <2> QED
    BY <2>1, SumOverReads
<1>6. J # {}
  <2>1. all({}) = {}
    OBVIOUS
  <2>2. {} \notin C
    BY <1>4, <1>5, <2>1
  <2> QED
    BY <2>2
<1>7. PICK i \in J : TRUE
  BY <1>6
<1> DEFINE K == J \ {i}
<1>8. K \in SUBSET I /\ K \notin C /\ J \in SUBSET I
  BY <1>3, <1>7
<1>9. SumOver(e, K) = SumOver(f, all(K))
  BY <1>8
<1>10. SumOver(e, J) = SumOver(e, K) + SumOver(f, part[i])
  <2>1. i \notin K /\ J = K \cup {i} /\ i \in I
    BY <1>7, <1>8
  <2> QED
    BY <1>5, <1>7, <1>8, <2>1
<1>11. SumOver(f, all(J)) = SumOver(f, all(K)) + SumOver(f, part[i])
  <2> DEFINE A == all(K)
             B == part[i]
  <2>1. A \in SUBSET U /\ B \in SUBSET U
    BY <1>7, <1>8
  <2>2. A \cap B = {}
    BY <1>7, <1>8
  <2>3. all(J) = A \cup B
    BY <1>7
  <2> HIDE DEF A, B, all
  <2>4. SumOver(f, A \cup B) = SumOver(f, A) + SumOver(f, B)
    BY <2>1, <2>2, SumOfUnion
  <2> QED
    BY <2>3, <2>4 DEF A, B
<1>12. SumOver(e, J) # SumOver(f, all(J))
  OBVIOUS
<1> QED
  BY <1>9, <1>10, <1>11, <1>12

LEMMA CardinalityIsSum ==
  ASSUME NEW U, IsFiniteSet(U), NEW f, \A x \in U : f[x] = 1
  PROVE  SumOver(f, U) = Cardinality(U)
<1> DEFINE C == {S \in SUBSET U : SumOver(f, S) # Cardinality(S)}
<1>1. SUFFICES ASSUME C # {} PROVE FALSE
  OBVIOUS
<1>2. C \in SUBSET (SUBSET U)
  OBVIOUS
<1>3. PICK S \in C : \A V \in C : V \subseteq S => V = S
  <2> HIDE DEF C
  <2> QED
    BY <1>1, <1>2, SmallestMember
<1>4. /\ SumOver(f, {}) = 0
      /\ \A V, W \in SUBSET U : \A x \in W :
           x \notin V /\ W = V \cup {x} => SumOver(f, W) = SumOver(f, V) + f[x]
  <2>1. \A x \in U : f[x] \in Nat
    OBVIOUS
  <2> QED
    BY <2>1, SumOverReads
<1>5. S # {}
  BY <1>4, FS_EmptySet
<1>6. PICK x \in S : TRUE
  BY <1>5
<1> DEFINE V == S \ {x}
<1>7. V \in SUBSET U /\ V \notin C /\ S \in SUBSET U
  BY <1>3, <1>6
<1>8. SumOver(f, V) = Cardinality(V)
  BY <1>7
<1>9. x \notin V /\ S = V \cup {x} /\ f[x] = 1
  BY <1>6, <1>7
<1> HIDE DEF V
<1>10. SumOver(f, S) = SumOver(f, V) + 1
  BY <1>4, <1>6, <1>7, <1>9
<1>11. Cardinality(S) = Cardinality(V) + 1
  <2>1. IsFiniteSet(V)
    BY <1>7, FS_Subset
  <2> QED
    BY <1>9, <2>1, FS_AddElement
<1> QED
  BY <1>8, <1>10, <1>11

\* The sizes of disjoint parts add up.
LEMMA CountOfParts ==
  ASSUME NEW U, IsFiniteSet(U),
         NEW I, IsFiniteSet(I), NEW part,
         \A i \in I : part[i] \subseteq U,
         \A i, j \in I : i # j => part[i] \cap part[j] = {},
         NEW e, \A i \in I : e[i] = Cardinality(part[i])
  PROVE  SumOver(e, I) = Cardinality(UNION {part[i] : i \in I})
<1> DEFINE f == [x \in U |-> 1]
           A == UNION {part[i] : i \in I}
<1>1. \A x \in U : f[x] = 1 /\ f[x] \in Nat
  OBVIOUS
<1>2. A \in SUBSET U
  OBVIOUS
<1> HIDE DEF f
<1>3. \A S \in SUBSET U : SumOver(f, S) = Cardinality(S)
  BY <1>1, FS_Subset, CardinalityIsSum
<1>4. \A i \in I : e[i] = SumOver(f, part[i])
  BY <1>3
<1>5. SumOver(e, I) = SumOver(f, A)
  BY <1>1, <1>4, SumOfParts
<1> HIDE DEF A
<1> QED
  BY <1>2, <1>3, <1>5 DEF A

\* A sum of numbers that are not negative is zero only if all of them are.
LEMMA SumIsZero ==
  ASSUME NEW U, IsFiniteSet(U), NEW f, \A x \in U : f[x] \in Nat,
         SumOver(f, U) = 0, NEW x \in U
  PROVE  f[x] = 0
<1> DEFINE V == U \ {x}
<1>1. x \notin V /\ U = V \cup {x} /\ V \in SUBSET U /\ U \in SUBSET U
  OBVIOUS
<1> HIDE DEF V
<1>2. SumOver(f, V) \in Nat /\ SumOver(f, U) = SumOver(f, V) + f[x]
  BY <1>1, SumOverReads
<1> QED
  BY <1>2

-----------------------------------------------------------------------------
(* Sums over pairs *)

IsProduct(z, x, y, S) == \A s \in S : z[s] = x[s] * y[s]

\* How much the elements of S differ from a and b in x and y together.
IsDifference(z, a, b, x, y, S) == \A s \in S : z[s] = (a - x[s]) * (b - y[s])

\* What is summed up over the pairs that a has with the elements of S.
LEMMA SumOfCross ==
  ASSUME NEW U, IsFiniteSet(U), NEW x, NEW y, \A s \in U : x[s] \in Int /\ y[s] \in Int,
         NEW xy, IsProduct(xy, x, y, U),
         NEW a \in Int, NEW b \in Int,
         NEW z, IsDifference(z, a, b, x, y, U)
  PROVE  SumOver(z, U) =
           Cardinality(U) * (a * b) - a * SumOver(y, U) - b * SumOver(x, U) + SumOver(xy, U)
<1> DEFINE right(S) ==
             Cardinality(S) * (a * b) - a * SumOver(y, S) - b * SumOver(x, S) + SumOver(xy, S)
           C == {S \in SUBSET U : SumOver(z, S) # right(S)}
<1>1. SUFFICES ASSUME C # {} PROVE FALSE
  OBVIOUS
<1>2. C \in SUBSET (SUBSET U)
  OBVIOUS
<1>3. PICK S \in C : \A V \in C : V \subseteq S => V = S
  <2> HIDE DEF C
  <2> QED
    BY <1>1, <1>2, SmallestMember
<1>4. \A s \in U : x[s] \in Int /\ y[s] \in Int /\ xy[s] \in Int /\ z[s] \in Int
  BY DEF IsProduct, IsDifference
<1>5. ASSUME NEW f, \A s \in U : f[s] \in Int
      PROVE  /\ SumOver(f, {}) = 0
             /\ \A V \in SUBSET U : SumOver(f, V) \in Int
             /\ \A V, W \in SUBSET U : \A s \in W :
                  s \notin V /\ W = V \cup {s} => SumOver(f, W) = SumOver(f, V) + f[s]
  BY <1>5, SumOverReads
<1>6. S # {}
  <2>1. /\ SumOver(z, {}) = 0 /\ SumOver(x, {}) = 0
        /\ SumOver(y, {}) = 0 /\ SumOver(xy, {}) = 0
    BY <1>4, <1>5
  <2>2. Cardinality({}) = 0
    BY FS_EmptySet
  <2>3. SumOver(z, {}) = right({})
    BY <2>1, <2>2
  <2> QED
    BY <2>3
<1>7. PICK s \in S : TRUE
  BY <1>6
<1> DEFINE V == S \ {s}
<1>8. /\ V \in SUBSET U /\ V \notin C /\ S \in SUBSET U /\ s \in U
      /\ s \notin V /\ S = V \cup {s}
  BY <1>3, <1>7
<1>9. SumOver(z, V) = right(V)
  BY <1>8
<1> HIDE DEF V
<1>10. /\ SumOver(z, S) = SumOver(z, V) + z[s] /\ SumOver(x, S) = SumOver(x, V) + x[s]
       /\ SumOver(y, S) = SumOver(y, V) + y[s] /\ SumOver(xy, S) = SumOver(xy, V) + xy[s]
       /\ SumOver(x, V) \in Int /\ SumOver(y, V) \in Int /\ SumOver(xy, V) \in Int
  BY <1>4, <1>5, <1>8
<1>11. Cardinality(V) \in Nat /\ Cardinality(S) = Cardinality(V) + 1
  <2>1. IsFiniteSet(V)
    BY <1>8, FS_Subset
  <2> QED
    BY <1>8, <2>1, FS_AddElement, FS_CardinalityType
<1>12. xy[s] = x[s] * y[s] /\ z[s] = (a - x[s]) * (b - y[s])
  BY <1>8 DEF IsProduct, IsDifference
<1> DEFINE n == Cardinality(V)
           sx == SumOver(x, V)
           sy == SumOver(y, V)
           sxy == SumOver(xy, V)
           p == x[s]
           q == y[s]
<1>13. {n, sx, sy, sxy, p, q} \subseteq Int
  BY <1>4, <1>8, <1>10, <1>11
<1>14. SumOver(z, S) = (n * (a * b) - a * sy - b * sx + sxy) + (a - p) * (b - q)
  BY <1>9, <1>10, <1>12
<1>15. right(S) = (n + 1) * (a * b) - a * (sy + q) - b * (sx + p) + (sxy + p * q)
  BY <1>10, <1>11, <1>12
<1>16. SumOver(z, S) # right(S)
  OBVIOUS
<1> HIDE DEF n, sx, sy, sxy, p, q, right, C
<1> QED
  BY <1>13, <1>14, <1>15, <1>16

\* How much the two elements of a pair differ in x and y together.
IsJointDifference(w, x, y, S) ==
  \A p \in S \X S : w[p] = (x[p[1]] - x[p[2]]) * (y[p[1]] - y[p[2]])

\* The numbers t tell the elements of S apart.
IsIndex(t, S) ==
  (\A s \in S : t[s] \in Int) /\ \A r, s \in S : t[r] = t[s] => r = s

\* What a least squares slope has above and below its line, from the sums over
\* the samples and from the pairs of samples, each taken once in the order of t.
LEMMA SumOfPairs ==
  ASSUME NEW U, IsFiniteSet(U), NEW x, NEW y, \A s \in U : x[s] \in Int /\ y[s] \in Int,
         NEW xy, IsProduct(xy, x, y, U),
         NEW t, IsIndex(t, U),
         NEW w, IsJointDifference(w, x, y, U)
  PROVE  SumOver(w, {p \in U \X U : t[p[1]] < t[p[2]]}) =
           Cardinality(U) * SumOver(xy, U) - SumOver(x, U) * SumOver(y, U)
<1>1. \A s \in U : x[s] \in Int /\ y[s] \in Int /\ xy[s] \in Int
  BY DEF IsProduct
<1>2. ASSUME NEW f, \A s \in U : f[s] \in Int
      PROVE  /\ SumOver(f, {}) = 0
             /\ \A V \in SUBSET U : SumOver(f, V) \in Int
             /\ \A V, W \in SUBSET U : \A s \in W :
                  s \notin V /\ W = V \cup {s} => SumOver(f, W) = SumOver(f, V) + f[s]
  BY <1>2, SumOverReads
<1>3. IsFiniteSet(U \X U) /\ \A p \in U \X U : w[p] \in Int
  <2>1. \A p \in U \X U : w[p] \in Int
    BY DEF IsJointDifference
  <2> QED
    BY <2>1, FS_Product
<1> DEFINE pairs(S) == {p \in S \X S : t[p[1]] < t[p[2]]}
           right(S) == Cardinality(S) * SumOver(xy, S) - SumOver(x, S) * SumOver(y, S)
           C == {S \in SUBSET U : SumOver(w, pairs(S)) # right(S)}
<1>4. SUFFICES ASSUME C # {} PROVE FALSE
  OBVIOUS
<1>5. C \in SUBSET (SUBSET U)
  OBVIOUS
<1>6. PICK S \in C : \A V \in C : V \subseteq S => V = S
  <2> HIDE DEF C
  <2> QED
    BY <1>4, <1>5, SmallestMember
<1>7. S # {}
  <2>1. pairs({}) = {}
    OBVIOUS
  <2>2. SumOver(w, {}) = 0 /\ SumOver(x, {}) = 0 /\ SumOver(y, {}) = 0 /\ SumOver(xy, {}) = 0
    BY <1>1, <1>2, <1>3, SumOverReads
  <2>3. Cardinality({}) = 0
    BY FS_EmptySet
  <2>4. SumOver(w, pairs({})) = right({})
    <3>1. right({}) = 0
      <4> HIDE DEF pairs
      <4> QED
        BY <2>2, <2>3
    <3>2. SumOver(w, pairs({})) = 0
      BY <2>1, <2>2
    <3> QED
      BY <3>1, <3>2
  <2> QED
    BY <2>4
<1>8. PICK a \in S : TRUE
  BY <1>7
<1> DEFINE V == S \ {a}
<1>9. /\ V \in SUBSET U /\ V \notin C /\ S \in SUBSET U /\ a \in U
      /\ a \notin V /\ S = V \cup {a}
  BY <1>6, <1>8
<1>10. SumOver(w, pairs(V)) = right(V)
  BY <1>9
<1> HIDE DEF V
<1> DEFINE pair(s) == IF t[s] < t[a] THEN <<s, a>> ELSE <<a, s>>
           part == [s \in V |-> {pair(s)}]
           z == [s \in V |-> (x[a] - x[s]) * (y[a] - y[s])]
           new == UNION {part[s] : s \in V}
<1>11. /\ new \in SUBSET (U \X U) /\ pairs(V) \in SUBSET (U \X U)
       /\ pairs(V) \cap new = {} /\ pairs(S) = pairs(V) \cup new
  <2>1. ASSUME NEW s \in V
        PROVE  pair(s) \in U \X U /\ pair(s) \notin V \X V /\ pair(s) \in pairs(S)
    <3>1. /\ s \in U /\ s \in S /\ a \in S /\ a \in U /\ a \notin V /\ s # a
          /\ t[s] \in Int /\ t[a] \in Int /\ t[s] # t[a]
      BY <1>9 DEF IsIndex
    <3>2. CASE t[s] < t[a]
      BY <3>1, <3>2
    <3>3. CASE ~ (t[s] < t[a])
      BY <3>1, <3>3
    <3> QED
      BY <3>2, <3>3
  <2>2. \A p \in pairs(S) : p \in pairs(V) \/ \E s \in V : p = pair(s)
    <3> TAKE p \in pairs(S)
    <3>1. PICK r \in S, s \in S : p = <<r, s>> /\ t[r] < t[s]
      OBVIOUS
    <3>2. t[r] \in Int /\ t[s] \in Int
      BY <1>9 DEF IsIndex
    <3>3. r # s
      BY <3>1, <3>2
    <3>4. CASE r = a
      BY <1>9, <3>1, <3>2, <3>3, <3>4
    <3>5. CASE s = a
      BY <1>9, <3>1, <3>2, <3>3, <3>5
    <3>6. CASE r # a /\ s # a
      BY <1>9, <3>1, <3>6
    <3> QED
      BY <3>4, <3>5, <3>6
  <2>3. pairs(V) \subseteq V \X V /\ pairs(V) \subseteq pairs(S) /\ V \X V \subseteq U \X U
    BY <1>9
  <2>4. \A p : p \in new <=> \E s \in V : p = pair(s)
    OBVIOUS
  <2> HIDE DEF pair, pairs, new
  <2> QED
    BY <2>1, <2>2, <2>3, <2>4
<1>12. SumOver(w, new) = SumOver(z, V)
  <2>1. \A s \in V : part[s] \subseteq U \X U
    BY <1>9
  <2>2. \A r, s \in V : r # s => part[r] \cap part[s] = {}
    <3> SUFFICES ASSUME NEW r \in V, NEW s \in V, pair(r) = pair(s)
                 PROVE  r = s
      BY Zenon
    <3> QED
      BY <1>9
  <2>3. \A s \in V : z[s] = SumOver(w, part[s])
    <3> TAKE s \in V
    <3>1. pair(s) \in U \X U /\ part[s] = {} \cup {pair(s)}
      BY <1>9
    <3>2. SumOver(w, part[s]) = SumOver(w, {}) + w[pair(s)] /\ SumOver(w, {}) = 0
      <4> HIDE DEF part, pair
      <4> QED
        BY <1>3, <3>1, SumOverReads
    <3>3. w[pair(s)] = z[s]
      <4>1. \A i, j, k, l \in Int : (i - j) * (k - l) = (j - i) * (l - k)
        OBVIOUS
      <4>2. w[<<s, a>>] = (x[s] - x[a]) * (y[s] - y[a])
        BY <1>9 DEF IsJointDifference
      <4>3. w[<<a, s>>] = (x[a] - x[s]) * (y[a] - y[s])
        BY <1>9 DEF IsJointDifference
      <4>4. (x[s] - x[a]) * (y[s] - y[a]) = (x[a] - x[s]) * (y[a] - y[s])
        BY <1>1, <1>9, <4>1
      <4> QED
        BY <4>2, <4>3, <4>4
    <3>4. w[pair(s)] \in Int
      BY <1>3, <3>1
    <3> HIDE DEF pair, part, z
    <3> QED
      BY <3>2, <3>3, <3>4
  <2>4. IsFiniteSet(V)
    BY <1>9, FS_Subset
  <2> HIDE DEF part, z, pair, pairs, new, C, right
  <2> DEFINE UU == U \X U
  <2>5. /\ IsFiniteSet(UU) /\ \A p \in UU : w[p] \in Int
        /\ \A s \in V : part[s] \subseteq UU
    BY <1>3, <2>1
  <2> HIDE DEF UU
  <2>6. SumOver(z, V) = SumOver(w, UNION {part[s] : s \in V})
    BY <2>5, <2>1, <2>2, <2>3, <2>4, SumOfParts
  <2> QED
    BY <2>6 DEF new
<1>13. SumOver(z, V) =
         Cardinality(V) * (x[a] * y[a]) - x[a] * SumOver(y, V) - y[a] * SumOver(x, V)
           + SumOver(xy, V)
  <2>1. IsDifference(z, x[a], y[a], x, y, V)
    BY DEF IsDifference
  <2>2. IsFiniteSet(V) /\ x[a] \in Int /\ y[a] \in Int
    BY <1>9, FS_Subset
  <2>3. IsProduct(xy, x, y, V) /\ \A s \in V : x[s] \in Int /\ y[s] \in Int
    BY <1>9 DEF IsProduct
  <2> HIDE DEF z, pair, pairs, part, new, C, right
  <2> QED
    BY <2>1, <2>2, <2>3, SumOfCross
<1>14. SumOver(w, pairs(S)) = SumOver(w, pairs(V)) + SumOver(z, V)
  <2> HIDE DEF pairs, new, z
  <2> QED
    BY <1>3, <1>11, <1>12, SumOfUnion
<1>a. SumOver(w, pairs(S)) # right(S)
  OBVIOUS
<1> HIDE DEF pairs, new, z, part, C
<1>15. /\ SumOver(x, S) = SumOver(x, V) + x[a] /\ SumOver(y, S) = SumOver(y, V) + y[a]
       /\ SumOver(xy, S) = SumOver(xy, V) + xy[a]
       /\ SumOver(x, V) \in Int /\ SumOver(y, V) \in Int /\ SumOver(xy, V) \in Int
  BY <1>1, <1>2, <1>9
<1>16. Cardinality(V) \in Nat /\ Cardinality(S) = Cardinality(V) + 1
  <2>1. IsFiniteSet(V)
    BY <1>9, FS_Subset
  <2> QED
    BY <1>9, <2>1, FS_AddElement, FS_CardinalityType
<1>17. xy[a] = x[a] * y[a]
  BY <1>9 DEF IsProduct
<1> DEFINE n == Cardinality(V)
           sx == SumOver(x, V)
           sy == SumOver(y, V)
           sxy == SumOver(xy, V)
           p == x[a]
           q == y[a]
<1>18. {n, sx, sy, sxy, p, q} \subseteq Int
  BY <1>1, <1>9, <1>15, <1>16
<1>19. SumOver(w, pairs(S)) =
         (n * sxy - sx * sy) + (n * (p * q) - p * sy - q * sx + sxy)
  BY <1>10, <1>13, <1>14
<1>20. right(S) = (n + 1) * (sxy + p * q) - (sx + p) * (sy + q)
  BY <1>15, <1>16, <1>17
<1> HIDE DEF n, sx, sy, sxy, p, q, right
<1> QED
  BY <1>18, <1>19, <1>20, <1>a
=============================================================================
