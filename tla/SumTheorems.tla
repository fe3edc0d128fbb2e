------------------------------ MODULE SumTheorems ------------------------------
(***************************************************************************)
(* Facts about SumOver.  It is a fold, which is a recursive function on    *)
(* the subsets of a function's domain: that there is such a function is    *)
(* proved first, by induction on the size of the subsets, and then that    *)
(* the order in which the elements are taken does not matter.              *)
(*                                                                         *)
(* Induction is stated with a set in place of a predicate, which is what   *)
(* the provers can instantiate.                                            *)
(***************************************************************************)
EXTENDS Sums, FiniteSetTheorems, TLAPS

\* Induction over the whole numbers, for a set in place of a predicate: what no number is
\* the first to miss holds of all of them.
LEMMA NaturalInduction ==
    ASSUME NEW Q, 0 \in Q, \A n \in Nat : n \in Q => n + 1 \in Q
    PROVE  Nat \subseteq Q
<1> DEFINE R == OpToRel(<, Nat)
           T == Nat \ Q
<1>1. IsWellFoundedOn(R, Nat)
  BY NatLessThanWellFounded
<1>2. \A m, n \in Nat : m < n => <<m, n>> \in R
  BY DEF OpToRel
<1> HIDE DEF R
<1> SUFFICES ASSUME T # {} PROVE FALSE
  OBVIOUS
<1>3. PICK n \in T : \A m \in T : <<m, n>> \notin R
  <2>1. T \subseteq Nat
    OBVIOUS
  <2> HIDE DEF T
  <2> QED BY <1>1, <2>1, WFMin
<1>4. n \in Nat \ {0}
  BY <1>3
<1>5. n - 1 \in Nat /\ n - 1 < n /\ (n - 1) + 1 = n
  BY <1>4
<1>6. n - 1 \notin T
  BY <1>2, <1>3, <1>4, <1>5
<1> QED
  BY <1>3, <1>5, <1>6

\* Induction over the subsets of a finite set, again for a set in place of a predicate.
LEMMA SubsetInduction ==
    ASSUME NEW S, IsFiniteSet(S), NEW Q,
           \A T \in SUBSET S : (\A x \in T : T \ {x} \in Q) => T \in Q
    PROVE  SUBSET S \subseteq Q
<1> DEFINE R == StrictSubsetOrdering(S)
           B == (SUBSET S) \ Q
<1>1. IsWellFoundedOn(R, SUBSET S)
  BY FS_StrictSubsetOrderingWellFounded, FS_FiniteSubsetsOfFinite
<1>2. \A T \in SUBSET S : \A x \in T : <<T \ {x}, T>> \in R
  BY DEF StrictSubsetOrdering
<1> HIDE DEF R
<1> SUFFICES ASSUME B # {} PROVE FALSE
  OBVIOUS
<1>3. PICK T \in B : \A U \in B : <<U, T>> \notin R
  <2>1. B \subseteq SUBSET S
    OBVIOUS
  <2> HIDE DEF B
  <2> QED BY <1>1, <2>1, WFMin
<1>4. \A x \in T : T \ {x} \notin B
  BY <1>2, <1>3
<1>5. \A x \in T : T \ {x} \in SUBSET S
  BY <1>3
<1> QED
  BY <1>3, <1>4, <1>5

-------------------------------------------------------------------------------
(* The fold                                                                *)

FirstOf(s) == CHOOSE x \in s : TRUE

FoldStep(g, f, s) == IF s = {} THEN 0 ELSE f[FirstOf(s)] + g[s \ {FirstOf(s)}]

IsFold(g, f) == g = [s \in SUBSET DOMAIN f |-> FoldStep(g, f, s)]

FoldOf(f) == CHOOSE g : IsFold(g, f)

\* The sum is the fold over the whole domain that the community modules define it by.
LEMMA SumIsFold == \A f : SumOver(f) = FoldOf(f)[DOMAIN f]
BY DEF SumOver, FoldFunction, FoldFunctionOnSet, MapThenFoldSet, FoldOf, IsFold, FoldStep, FirstOf

\* A fold of the subsets of up to n elements.
FoldsUpTo(g, f, n) == \A s \in SUBSET DOMAIN f : Cardinality(s) <= n => g[s] = FoldStep(g, f, s)

\* A function on the subsets of up to n elements that obeys the fold's equation exists, for
\* every n.
LEMMA FoldsExist ==
    ASSUME NEW f, IsFiniteSet(DOMAIN f)
    PROVE  \A n \in Nat : \E g : FoldsUpTo(g, f, n)
<1> DEFINE Sub == SUBSET DOMAIN f
           Q == {n \in Nat : \E g : FoldsUpTo(g, f, n)}
<1>0. \A s \in Sub : IsFiniteSet(s) /\ Cardinality(s) \in Nat /\ (Cardinality(s) = 0 <=> s = {})
  BY FS_Subset, FS_CardinalityType, FS_EmptySet
<1>1. \A s \in Sub : s # {} => /\ FirstOf(s) \in s
                              /\ s \ {FirstOf(s)} \in Sub
                              /\ Cardinality(s \ {FirstOf(s)}) = Cardinality(s) - 1
  BY <1>0, FS_RemoveElement DEF FirstOf
<1>2. 0 \in Q
  <2>1. FoldsUpTo([s \in Sub |-> 0], f, 0)
    BY <1>0 DEF FoldsUpTo, FoldStep
  <2> QED BY <2>1
<1>3. ASSUME NEW n \in Nat, n \in Q PROVE n + 1 \in Q
  <2>1. PICK g : FoldsUpTo(g, f, n)
    BY <1>3
  <2> DEFINE h == [s \in Sub |-> IF Cardinality(s) <= n THEN g[s] ELSE FoldStep(g, f, s)]
  <2>2. ASSUME NEW s \in Sub, Cardinality(s) <= n + 1 PROVE h[s] = FoldStep(h, f, s)
    <3>1. h[s] = FoldStep(g, f, s)
      BY <2>1 DEF FoldsUpTo
    <3>2. s # {} => h[s \ {FirstOf(s)}] = g[s \ {FirstOf(s)}]
      BY <1>0, <1>1, <2>2
    <3> HIDE DEF h
    <3> QED BY <3>1, <3>2 DEF FoldStep
  <2> HIDE DEF h
  <2>3. FoldsUpTo(h, f, n + 1)
    BY <2>2 DEF FoldsUpTo
  <2> QED BY <2>3
<1> HIDE DEF Q
<1>4. Nat \subseteq Q
  BY <1>2, <1>3, NaturalInduction
<1> QED
  BY <1>4 DEF Q

\* SumOver is defined for every function on a finite set.
LEMMA FoldIsFold ==
    ASSUME NEW f, IsFiniteSet(DOMAIN f)
    PROVE  IsFold(FoldOf(f), f)
<1> DEFINE S == DOMAIN f
<1>1. Cardinality(S) \in Nat /\ \A s \in SUBSET S : Cardinality(s) <= Cardinality(S)
  BY FS_CardinalityType, FS_Subset
<1>2. PICK g : FoldsUpTo(g, f, Cardinality(S))
  BY <1>1, FoldsExist
<1> DEFINE h == [s \in SUBSET S |-> g[s]]
<1>3. \A s \in SUBSET S : h[s] = FoldStep(h, f, s)
  <2>1. \A s \in SUBSET S : h[s] = FoldStep(g, f, s)
    BY <1>1, <1>2 DEF FoldsUpTo
  <2>2. ASSUME NEW s \in SUBSET S, s # {} PROVE h[s \ {FirstOf(s)}] = g[s \ {FirstOf(s)}]
    OBVIOUS
  <2> HIDE DEF h
  <2> QED BY <2>1, <2>2 DEF FoldStep
<1>4. h = [s \in SUBSET S |-> h[s]]
  OBVIOUS
<1>5. h = [s \in SUBSET S |-> FoldStep(h, f, s)]
  <2> HIDE DEF h
  <2> QED BY <1>3, <1>4
<1>6. IsFold(h, f)
  <2> HIDE DEF h
  <2> QED BY <1>5 DEF IsFold
<1> HIDE DEF h
<1> QED
  BY <1>6 DEF FoldOf

-------------------------------------------------------------------------------
(* Any element may be taken first                                          *)

\* The chosen fold obeys its own equation, on every subset of the domain.
LEMMA FoldUnfolds ==
    ASSUME NEW S, IsFiniteSet(S), NEW f, DOMAIN f = S, NEW T \in SUBSET S
    PROVE  FoldOf(f)[T] = FoldStep(FoldOf(f), f, T)
<1> DEFINE g == FoldOf(f)
<1>1. IsFold(g, f)
  BY FoldIsFold
<1> HIDE DEF g
<1>2. g[T] = FoldStep(g, f, T)
  BY <1>1 DEF IsFold
<1> QED
  BY <1>2 DEF g

\* A fold of whole numbers is a whole number.
LEMMA FoldIsInt ==
    ASSUME NEW S, IsFiniteSet(S), NEW f \in [S -> Int]
    PROVE  \A T \in SUBSET S : FoldOf(f)[T] \in Int
<1> DEFINE g == FoldOf(f)
           Q == {T \in SUBSET S : g[T] \in Int}
<1>1. \A T \in SUBSET S : g[T] = FoldStep(g, f, T)
  BY FoldUnfolds
<1> HIDE DEF g
<1>2. ASSUME NEW T \in SUBSET S, \A x \in T : T \ {x} \in Q PROVE T \in Q
  <2>1. CASE T = {}
    <3>1. g[T] = 0
      BY <1>1, <2>1 DEF FoldStep
    <3> QED BY <3>1
  <2>2. CASE T # {}
    <3>1. FirstOf(T) \in T
      BY <2>2 DEF FirstOf
    <3>2. g[T \ {FirstOf(T)}] \in Int /\ f[FirstOf(T)] \in Int
      BY <1>2, <3>1
    <3>3. g[T] = f[FirstOf(T)] + g[T \ {FirstOf(T)}]
      BY <1>1, <2>2 DEF FoldStep
    <3> HIDE DEF g
    <3>4. g[T] \in Int
      BY <3>2, <3>3
    <3> QED BY <3>4
  <2> QED BY <2>1, <2>2
<1> HIDE DEF Q
<1>3. SUBSET S \subseteq Q
  BY <1>2, SubsetInduction
<1> QED
  BY <1>3 DEF Q, g

\* The fold may take any element first, and not only the one it happened to choose.
LEMMA FoldTakesAny ==
    ASSUME NEW S, IsFiniteSet(S), NEW f \in [S -> Int]
    PROVE  \A T \in SUBSET S : \A x \in T : FoldOf(f)[T] = f[x] + FoldOf(f)[T \ {x}]
<1> DEFINE g == FoldOf(f)
           Q == {T \in SUBSET S : \A x \in T : g[T] = f[x] + g[T \ {x}]}
<1>1. \A T \in SUBSET S : g[T] = FoldStep(g, f, T) /\ g[T] \in Int
  BY FoldUnfolds, FoldIsInt
<1> HIDE DEF g
<1>2. ASSUME NEW T \in SUBSET S, \A y \in T : T \ {y} \in Q, NEW x \in T
      PROVE  g[T] = f[x] + g[T \ {x}]
  <2> DEFINE y == FirstOf(T)
  <2>1. y \in T /\ g[T] = f[y] + g[T \ {y}]
    BY <1>1 DEF FoldStep, FirstOf
  <2> HIDE DEF y
  <2>2. CASE x = y
    BY <2>1, <2>2
  <2>3. CASE x # y
    <3>1. g[T \ {y}] = f[x] + g[(T \ {y}) \ {x}]
      BY <1>2, <2>1, <2>3
    <3>2. g[T \ {x}] = f[y] + g[(T \ {x}) \ {y}]
      BY <1>2, <2>1, <2>3
    <3>3. (T \ {y}) \ {x} = (T \ {x}) \ {y}
      OBVIOUS
    <3>4. f[x] \in Int /\ f[y] \in Int /\ g[(T \ {x}) \ {y}] \in Int
      BY <1>1, <2>1
    <3>5. g[T] = f[y] + (f[x] + g[(T \ {x}) \ {y}])
      BY <2>1, <3>1, <3>3
    <3> HIDE DEF Q
    <3> QED BY <3>2, <3>4, <3>5
  <2> QED BY <2>2, <2>3
<1>3. ASSUME NEW T \in SUBSET S, \A y \in T : T \ {y} \in Q PROVE T \in Q
  BY <1>2, <1>3
<1> HIDE DEF Q
<1>4. SUBSET S \subseteq Q
  BY <1>3, SubsetInduction
<1> QED
  BY <1>4 DEF Q, g

\* What is folded depends on the values only.
LEMMA FoldsAgree ==
    ASSUME NEW S, IsFiniteSet(S), NEW f \in [S -> Int],
           NEW R, IsFiniteSet(R), NEW h \in [R -> Int],
           NEW U, U \subseteq S, U \subseteq R, \A x \in U : f[x] = h[x]
    PROVE  FoldOf(f)[U] = FoldOf(h)[U]
<1> DEFINE a == FoldOf(f)
           b == FoldOf(h)
           Q == {T \in SUBSET U : a[T] = b[T]}
<1>0. IsFiniteSet(U)
  BY FS_Subset
<1>1. \A T \in SUBSET U : a[T] = FoldStep(a, f, T) /\ b[T] = FoldStep(b, h, T)
  <2>1. \A T \in SUBSET S : a[T] = FoldStep(a, f, T)
    BY FoldUnfolds
  <2>2. \A T \in SUBSET R : b[T] = FoldStep(b, h, T)
    BY FoldUnfolds
  <2> HIDE DEF a, b
  <2> QED BY <2>1, <2>2
<1> HIDE DEF a, b
<1>2. ASSUME NEW T \in SUBSET U, \A x \in T : T \ {x} \in Q PROVE T \in Q
  <2>1. CASE T = {}
    BY <1>1, <2>1 DEF FoldStep
  <2>2. CASE T # {}
    <3>1. FirstOf(T) \in T
      BY <2>2 DEF FirstOf
    <3> QED BY <1>1, <1>2, <2>2, <3>1 DEF FoldStep
  <2> QED BY <2>1, <2>2
<1> HIDE DEF Q
<1>3. SUBSET U \subseteq Q
  BY <1>0, <1>2, SubsetInduction
<1> QED
  BY <1>3 DEF Q, a, b

-------------------------------------------------------------------------------
(* What proofs about sums use                                              *)

\* A sum is an integer.
THEOREM SumIsInt ==
    ASSUME NEW S, IsFiniteSet(S), NEW f \in [S -> Int]
    PROVE  SumOver(f) \in Int
<1>1. FoldOf(f)[S] \in Int
  BY FoldIsInt
<1> QED
  BY <1>1, SumIsFold

\* There is nothing to add up of no elements.
THEOREM SumOfNone ==
    ASSUME NEW f, DOMAIN f = {}
    PROVE  SumOver(f) = 0
<1>1. FoldOf(f)[{}] = FoldStep(FoldOf(f), f, {})
  BY FoldUnfolds, FS_EmptySet
<1> QED
  BY <1>1, SumIsFold DEF FoldStep

\* One element may be taken out.
THEOREM SumSplits ==
    ASSUME NEW S, IsFiniteSet(S), NEW f \in [S -> Int], NEW x \in S
    PROVE  SumOver(f) = f[x] + SumOver(Restrict(f, S \ {x}))
<1> DEFINE h == Restrict(f, S \ {x})
<1>1. FoldOf(f)[S] = f[x] + FoldOf(f)[S \ {x}]
  BY FoldTakesAny
<1>2. h \in [S \ {x} -> Int] /\ IsFiniteSet(S \ {x}) /\ \A y \in S \ {x} : f[y] = h[y]
  BY FS_RemoveElement DEF Restrict
<1>3. FoldOf(f)[S \ {x}] = FoldOf(h)[S \ {x}]
  <2> HIDE DEF h
  <2> QED BY <1>2, FoldsAgree
<1>4. SumOver(f) = FoldOf(f)[S] /\ SumOver(h) = FoldOf(h)[S \ {x}]
  BY <1>2, SumIsFold
<1> QED
  BY <1>1, <1>3, <1>4

\* When one value changes, the sum changes as much.
THEOREM SumChanges ==
    ASSUME NEW S, IsFiniteSet(S), NEW f \in [S -> Int], NEW g \in [S -> Int], NEW x \in S,
           \A y \in S \ {x} : f[y] = g[y]
    PROVE  SumOver(g) = SumOver(f) - f[x] + g[x]
<1> DEFINE h == Restrict(f, S \ {x})
<1>1. h = Restrict(g, S \ {x}) /\ h \in [S \ {x} -> Int] /\ IsFiniteSet(S \ {x})
  BY FS_RemoveElement DEF Restrict
<1>2. SumOver(f) = f[x] + SumOver(h) /\ SumOver(g) = g[x] + SumOver(Restrict(g, S \ {x}))
  BY SumSplits
<1> HIDE DEF h
<1>3. SumOver(h) \in Int
  BY <1>1, SumIsInt
<1> QED
  BY <1>1, <1>2, <1>3

\* The sum of what adds up elementwise.
THEOREM SumAdds ==
    ASSUME NEW S, IsFiniteSet(S),
           NEW f \in [S -> Int], NEW g \in [S -> Int], NEW h \in [S -> Int],
           \A x \in S : h[x] = f[x] + g[x]
    PROVE  SumOver(h) = SumOver(f) + SumOver(g)
<1> DEFINE a == FoldOf(f)
           b == FoldOf(g)
           c == FoldOf(h)
           Q == {T \in SUBSET S : c[T] = a[T] + b[T]}
<1>1. \A T \in SUBSET S : /\ a[T] = FoldStep(a, f, T) /\ a[T] \in Int
                          /\ b[T] = FoldStep(b, g, T) /\ b[T] \in Int
                          /\ c[T] = FoldStep(c, h, T) /\ c[T] \in Int
  <2>1. \A T \in SUBSET S : a[T] = FoldStep(a, f, T) /\ a[T] \in Int
    BY FoldUnfolds, FoldIsInt
  <2>2. \A T \in SUBSET S : b[T] = FoldStep(b, g, T) /\ b[T] \in Int
    BY FoldUnfolds, FoldIsInt
  <2>3. \A T \in SUBSET S : c[T] = FoldStep(c, h, T) /\ c[T] \in Int
    BY FoldUnfolds, FoldIsInt
  <2> HIDE DEF a, b, c
  <2> QED BY <2>1, <2>2, <2>3
<1>2. SumOver(f) = a[S] /\ SumOver(g) = b[S] /\ SumOver(h) = c[S]
  BY SumIsFold
<1> HIDE DEF a, b, c
<1>3. ASSUME NEW T \in SUBSET S, \A x \in T : T \ {x} \in Q PROVE c[T] = a[T] + b[T]
  <2>1. CASE T = {}
    <3>1. a[T] = 0 /\ b[T] = 0 /\ c[T] = 0
      BY <1>1, <2>1 DEF FoldStep
    <3> QED BY <3>1
  <2>2. CASE T # {}
    <3> DEFINE x == FirstOf(T)
    <3>1. x \in T
      BY <2>2 DEF FirstOf
    <3>2. a[T] = f[x] + a[T \ {x}] /\ b[T] = g[x] + b[T \ {x}] /\ c[T] = h[x] + c[T \ {x}]
      BY <1>1, <2>2 DEF FoldStep
    <3> HIDE DEF x
    <3>3. c[T \ {x}] = a[T \ {x}] + b[T \ {x}]
      BY <1>3, <3>1
    <3>4. /\ a[T \ {x}] \in Int /\ b[T \ {x}] \in Int
          /\ f[x] \in Int /\ g[x] \in Int /\ h[x] = f[x] + g[x]
      BY <1>1, <3>1
    <3> HIDE DEF Q
    <3> QED BY <3>2, <3>3, <3>4
  <2> QED BY <2>1, <2>2
<1>4. ASSUME NEW T \in SUBSET S, \A x \in T : T \ {x} \in Q PROVE T \in Q
  BY <1>3, <1>4
<1> HIDE DEF Q
<1>5. SUBSET S \subseteq Q
  BY <1>4, SubsetInduction
<1> QED
  BY <1>2, <1>5 DEF Q

\* The sum of zeros.
THEOREM SumOfZeros ==
    ASSUME NEW S, IsFiniteSet(S), NEW f \in [S -> Int], \A x \in S : f[x] = 0
    PROVE  SumOver(f) = 0
<1>1. SumOver(f) = SumOver(f) + SumOver(f)
  BY SumAdds
<1>2. SumOver(f) \in Int
  BY SumIsInt
<1> DEFINE t == SumOver(f)
<1> HIDE DEF t
<1>3. t = t + t /\ t \in Int
  BY <1>1, <1>2 DEF t
<1>4. t = 0
  BY <1>3
<1> QED
  BY <1>4 DEF t

\* The sum of natural numbers is one, and none of them exceeds it.
THEOREM SumIsNat ==
    ASSUME NEW S, IsFiniteSet(S), NEW f \in [S -> Nat]
    PROVE  SumOver(f) \in Nat
<1> DEFINE a == FoldOf(f)
           Q == {T \in SUBSET S : a[T] \in Nat}
<1>0. f \in [S -> Int]
  OBVIOUS
<1>1. \A T \in SUBSET S : a[T] = FoldStep(a, f, T)
  BY FoldUnfolds
<1>2. SumOver(f) = a[S]
  BY SumIsFold
<1> HIDE DEF a
<1>3. ASSUME NEW T \in SUBSET S, \A x \in T : T \ {x} \in Q PROVE a[T] \in Nat
  <2>1. CASE T = {}
    <3>1. a[T] = 0
      BY <1>1, <2>1 DEF FoldStep
    <3> QED BY <3>1
  <2>2. CASE T # {}
    <3>1. FirstOf(T) \in T
      BY <2>2 DEF FirstOf
    <3>2. a[T \ {FirstOf(T)}] \in Nat /\ f[FirstOf(T)] \in Nat
      BY <1>3, <3>1
    <3>3. a[T] = f[FirstOf(T)] + a[T \ {FirstOf(T)}]
      BY <1>1, <2>2 DEF FoldStep
    <3> HIDE DEF Q
    <3> QED BY <3>2, <3>3
  <2> QED BY <2>1, <2>2
<1>4. ASSUME NEW T \in SUBSET S, \A x \in T : T \ {x} \in Q PROVE T \in Q
  BY <1>3, <1>4
<1> HIDE DEF Q
<1>5. SUBSET S \subseteq Q
  BY <1>4, SubsetInduction
<1> QED
  BY <1>2, <1>5 DEF Q

\* No term exceeds the sum it is part of, when none is negative: an allocation is at most
\* what the payments allocate, a quantity at most what the lines deliver.
THEOREM SumBounds ==
    ASSUME NEW S, IsFiniteSet(S), NEW f \in [S -> Nat], NEW x \in S
    PROVE  f[x] <= SumOver(f)
<1> DEFINE h == Restrict(f, S \ {x})
<1>1. h \in [S \ {x} -> Nat] /\ IsFiniteSet(S \ {x}) /\ f \in [S -> Int]
  BY FS_RemoveElement DEF Restrict
<1>2. SumOver(f) = f[x] + SumOver(h)
  BY <1>1, SumSplits
<1> HIDE DEF h
<1>3. SumOver(h) \in Nat
  BY <1>1, SumIsNat
<1> QED
  BY <1>1, <1>2, <1>3

\* What is zero need not be added up.
THEOREM SumOfSome ==
    ASSUME NEW S, IsFiniteSet(S), NEW f \in [S -> Int], NEW R \in SUBSET S,
           \A x \in S \ R : f[x] = 0
    PROVE  SumOver(f) = SumOver(Restrict(f, R))
<1> DEFINE a == FoldOf(f)
           h == Restrict(f, R)
           b == FoldOf(h)
           Q == {T \in SUBSET S : a[T] = b[T \cap R]}
<1>0. h \in [R -> Int] /\ IsFiniteSet(R) /\ \A x \in R : h[x] = f[x]
  BY FS_Subset DEF Restrict
<1>1. \A T \in SUBSET S : a[T] \in Int /\ a[T] = FoldStep(a, f, T)
                          /\ \A x \in T : a[T] = f[x] + a[T \ {x}]
  BY FoldUnfolds, FoldIsInt, FoldTakesAny
<1>2. \A T \in SUBSET R : b[T] \in Int /\ b[T] = FoldStep(b, h, T)
                          /\ \A x \in T : b[T] = h[x] + b[T \ {x}]
  <2> HIDE DEF h
  <2> QED BY <1>0, FoldUnfolds, FoldIsInt, FoldTakesAny
<1>3. SumOver(f) = a[S] /\ SumOver(h) = b[R]
  <2>1. DOMAIN h = R /\ DOMAIN f = S
    BY <1>0
  <2> HIDE DEF h
  <2> QED BY <2>1, SumIsFold
<1> HIDE DEF a, b, h
<1>4. ASSUME NEW T \in SUBSET S, \A x \in T : T \ {x} \in Q PROVE a[T] = b[T \cap R]
  <2>1. CASE T = {}
    <3>1. a[T] = 0 /\ b[T \cap R] = 0
      BY <1>1, <1>2, <2>1 DEF FoldStep
    <3> QED BY <3>1
  <2>2. CASE T # {}
    <3>1. PICK x \in T : TRUE
      BY <2>2
    <3>2. a[T \ {x}] = b[(T \ {x}) \cap R] /\ a[T \ {x}] \in Int
      BY <1>1, <1>4, <3>1
    <3>3. a[T] = f[x] + a[T \ {x}]
      BY <1>1, <3>1
    <3>4. CASE x \in R
      <4>1. (T \ {x}) \cap R = (T \cap R) \ {x}
        OBVIOUS
      <4>2. b[T \cap R] = h[x] + b[(T \cap R) \ {x}]
        BY <1>2, <3>1, <3>4
      <4> QED BY <1>0, <3>2, <3>3, <3>4, <4>1, <4>2
    <3>5. CASE x \notin R
      <4>1. (T \ {x}) \cap R = T \cap R /\ f[x] = 0
        BY <3>1, <3>5
      <4>2. b[(T \ {x}) \cap R] = b[T \cap R]
        BY <4>1
      <4>3. a[T] = a[T \ {x}]
        BY <3>2, <3>3, <4>1
      <4> QED BY <3>2, <4>2, <4>3
    <3> QED BY <3>4, <3>5
  <2> QED BY <2>1, <2>2
<1>5. ASSUME NEW T \in SUBSET S, \A x \in T : T \ {x} \in Q PROVE T \in Q
  BY <1>4, <1>5
<1> HIDE DEF Q
<1>6. SUBSET S \subseteq Q
  BY <1>5, SubsetInduction
<1>7. S \cap R = R
  OBVIOUS
<1> QED
  BY <1>3, <1>6, <1>7 DEF Q, h

\* Amounts of the other sign add up to the sum of the other sign.
THEOREM SumNegates ==
    ASSUME NEW S, IsFiniteSet(S), NEW f \in [S -> Int], NEW g \in [S -> Int],
           \A x \in S : g[x] = 0 - f[x]
    PROVE  SumOver(g) = 0 - SumOver(f)
<1>1. PICK h \in [S -> Int] : \A x \in S : h[x] = 0
  <2>1. PICK z : z = [x \in S |-> 0]
    OBVIOUS
  <2>2. z \in [S -> Int] /\ \A x \in S : z[x] = 0
    BY <2>1
  <2> QED
    BY <2>2
<1>2. \A x \in S : h[x] = f[x] + g[x]
  BY <1>1
<1>3. SumOver(f) + SumOver(g) = 0
  <2>1. SumOver(h) = SumOver(f) + SumOver(g)
    <3>1. /\ IsFiniteSet(S) /\ f \in [S -> Int] /\ g \in [S -> Int] /\ h \in [S -> Int]
          /\ \A x \in S : h[x] = f[x] + g[x]
      BY <1>2
    <3> QED
      BY ONLY <3>1, SumAdds
  <2>2. SumOver(h) = 0
    BY <1>1, SumOfZeros
  <2> QED
    BY <2>1, <2>2
<1>4. SumOver(f) \in Int
  BY SumIsInt
<1>5. SumOver(g) \in Int
  BY SumIsInt
<1> QED
  BY <1>3, <1>4, <1>5

\* Equal amounts add up to equal sums.
THEOREM SumsAgree ==
    ASSUME NEW S, NEW f, NEW g, DOMAIN f = S, DOMAIN g = S, f = [x \in S |-> f[x]],
           g = [x \in S |-> g[x]], \A x \in S : f[x] = g[x]
    PROVE  SumOver(f) = SumOver(g)
  OBVIOUS

\* The sum of the one part of a set and the rest of it is the whole sum: what
\* the services' WHERE clauses select and what they leave out.
THEOREM SumParts ==
    ASSUME NEW S, IsFiniteSet(S), NEW f \in [S -> Int], NEW R \in SUBSET S
    PROVE  SumOver(f) = SumOver(Restrict(f, R)) + SumOver(Restrict(f, S \ R))
<1>1. PICK g \in [S -> Int] : \A x \in S : g[x] = IF x \in R THEN f[x] ELSE 0
  <2> DEFINE h == [x \in S |-> IF x \in R THEN f[x] ELSE 0]
  <2>1. h \in [S -> Int] /\ \A x \in S : h[x] = IF x \in R THEN f[x] ELSE 0
    OBVIOUS
  <2> QED BY <2>1
<1>2. PICK h \in [S -> Int] : \A x \in S : h[x] = IF x \in R THEN 0 ELSE f[x]
  <2> DEFINE u == [x \in S |-> IF x \in R THEN 0 ELSE f[x]]
  <2>1. u \in [S -> Int] /\ \A x \in S : u[x] = IF x \in R THEN 0 ELSE f[x]
    OBVIOUS
  <2> QED BY <2>1
<1>3. \A x \in S : f[x] = g[x] + h[x]
  BY <1>1, <1>2
<1>4. SumOver(f) = SumOver(g) + SumOver(h)
  BY <1>3, SumAdds
<1>5. SumOver(g) = SumOver(Restrict(g, R)) /\ Restrict(g, R) = Restrict(f, R)
  <2>1. \A x \in S \ R : g[x] = 0
    BY <1>1
  <2>2. Restrict(g, R) = Restrict(f, R)
    BY <1>1 DEF Restrict
  <2> QED BY <2>1, <2>2, SumOfSome
<1>6. SumOver(h) = SumOver(Restrict(h, S \ R)) /\ Restrict(h, S \ R) = Restrict(f, S \ R)
  <2>1. \A x \in S \ (S \ R) : h[x] = 0
    BY <1>2
  <2>2. Restrict(h, S \ R) = Restrict(f, S \ R)
    BY <1>2 DEF Restrict
  <2>3. S \ R \in SUBSET S
    OBVIOUS
  <2> QED BY <2>1, <2>2, <2>3, SumOfSome
<1> QED
  BY <1>4, <1>5, <1>6

\* The sum does not depend on what the elements are called: h names each
\* element of T by one of S, and no two by the same.
THEOREM SumReindexes ==
    ASSUME NEW S, IsFiniteSet(S), NEW f \in [S -> Int],
           NEW T, IsFiniteSet(T), NEW g \in [T -> Int],
           NEW h \in [T -> S], \A x, y \in T : h[x] = h[y] => x = y,
           \A z \in S : \E x \in T : h[x] = z,
           \A x \in T : g[x] = f[h[x]]
    PROVE  SumOver(g) = SumOver(f)
<1> DEFINE a == FoldOf(f)
           b == FoldOf(g)
           Named(U) == {h[x] : x \in U}
           Q == {U \in SUBSET T : b[U] = a[Named(U)]}
<1>1. \A V \in SUBSET S : a[V] \in Int /\ a[V] = FoldStep(a, f, V)
                          /\ \A z \in V : a[V] = f[z] + a[V \ {z}]
  BY ONLY IsFiniteSet(S), f \in [S -> Int], FoldUnfolds, FoldIsInt, FoldTakesAny
<1>2. \A U \in SUBSET T : b[U] \in Int /\ b[U] = FoldStep(b, g, U)
                          /\ \A x \in U : b[U] = g[x] + b[U \ {x}]
  BY FoldUnfolds, FoldIsInt, FoldTakesAny
<1>3. a[{}] = 0 /\ b[{}] = 0
  BY <1>1, <1>2 DEF FoldStep
<1> HIDE DEF a, b
<1>4. ASSUME NEW U \in SUBSET T, \A x \in U : U \ {x} \in Q
      PROVE  U \in Q
  <2>1. CASE U = {}
    <3>1. Named(U) = {}
      BY <2>1
    <3> QED BY <1>3, <2>1, <3>1
  <2>2. CASE U # {}
    <3>1. PICK x \in U : TRUE
      BY <2>2
    <3>2. h[x] \in Named(U) /\ Named(U) \in SUBSET S /\ Named(U) \ {h[x]} = Named(U \ {x})
      BY <3>1
    <3> HIDE DEF Named
    <3>3. PICK V \in SUBSET S : V = Named(U)
      BY <3>2
    <3>4. a[V] = f[h[x]] + a[V \ {h[x]}]
      BY <1>1, <3>2, <3>3
    <3>5. b[U] = g[x] + b[U \ {x}] /\ g[x] = f[h[x]]
      BY <1>2, <3>1
    <3>6. b[U \ {x}] = a[Named(U \ {x})]
      BY <1>4, <3>1
    <3> QED BY <3>2, <3>3, <3>4, <3>5, <3>6
  <2> QED BY <2>1, <2>2
<1> HIDE DEF Q
<1>5. SUBSET T \subseteq Q
  BY <1>4, SubsetInduction
<1>6. b[T] = a[Named(T)] /\ Named(T) = S
  BY <1>5 DEF Q
<1> HIDE DEF Named
<1>7. SumOver(f) = a[S] /\ SumOver(g) = b[T]
  <2>1. DOMAIN f = S /\ DOMAIN g = T
    OBVIOUS
  <2> QED BY <2>1, SumIsFold DEF a, b
<1> QED
  BY <1>6, <1>7

\* A sum over one more point.
THEOREM SumGrows ==
    ASSUME NEW S, IsFiniteSet(S), NEW x, x \notin S, NEW f \in [S -> Int],
           NEW g \in [S \cup {x} -> Int], \A y \in S : g[y] = f[y]
    PROVE  SumOver(g) = SumOver(f) + g[x]
<1>1. PICK T : T = S \cup {x}
  OBVIOUS
<1>2. IsFiniteSet(T) /\ g \in [T -> Int] /\ x \in T
  BY <1>1, FS_AddElement
<1>3. SumOver(g) = g[x] + SumOver(Restrict(g, T \ {x}))
  BY <1>2, SumSplits
<1>4. PICK h : h = Restrict(g, T \ {x})
  OBVIOUS
<1>5. /\ DOMAIN h = S /\ h = [y \in S |-> h[y]] /\ \A y \in S : h[y] = f[y]
  BY <1>1, <1>2, <1>4 DEF Restrict
<1>6. SumOver(h) = SumOver(f)
  BY <1>5, SumsAgree
<1>7. SumOver(f) \in Int /\ g[x] \in Int
  BY <1>2, SumIsInt
<1> QED
  BY <1>3, <1>4, <1>6, <1>7

\* What is zero where it is not wanted may be added up everywhere.
THEOREM SumWhere ==
    ASSUME NEW S, IsFiniteSet(S), NEW f \in [S -> Int], NEW T \in SUBSET S,
           \A x \in S \ T : f[x] = 0,
           NEW g, DOMAIN g = T, g = [x \in T |-> g[x]], \A x \in T : g[x] = f[x]
    PROVE  SumOver(g) = SumOver(f)
<1>1. SumOver(f) = SumOver(Restrict(f, T))
  BY SumOfSome
<1>2. PICK h : h = Restrict(f, T)
  OBVIOUS
<1>3. DOMAIN h = T /\ h = [x \in T |-> h[x]] /\ \A x \in T : g[x] = h[x]
  BY <1>2 DEF Restrict
<1>4. SumOver(g) = SumOver(h)
  BY <1>3, SumsAgree
<1> QED
  BY <1>1, <1>2, <1>4

\* Larger values add up to a larger sum.
THEOREM SumMonotone ==
    ASSUME NEW S, IsFiniteSet(S), NEW f \in [S -> Int], NEW g \in [S -> Int],
           \A x \in S : f[x] <= g[x]
    PROVE  SumOver(f) <= SumOver(g)
<1>1. PICK h : h = [x \in S |-> g[x] - f[x]]
  OBVIOUS
<1>2. \A x \in S : f[x] \in Int /\ g[x] \in Int /\ h[x] = g[x] - f[x]
  BY <1>1
<1>3. \A x \in S : h[x] \in Nat /\ g[x] = f[x] + h[x]
  BY <1>2
<1>4. h \in [S -> Nat] /\ h \in [S -> Int]
  BY <1>1, <1>3
<1>5. SumOver(g) = SumOver(f) + SumOver(h)
  BY <1>3, <1>4, SumAdds
<1>6. SumOver(h) \in Nat /\ SumOver(f) \in Int
  BY <1>4, SumIsNat, SumIsInt
<1> QED
  BY <1>5, <1>6

================================================================================
