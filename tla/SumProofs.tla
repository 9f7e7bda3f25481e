----------------------------- MODULE SumProofs -----------------------------
(***************************************************************************)
(* Facts about sums over finite sets, and the induction they need: a set   *)
(* of natural numbers has a least element, so a property of numbers that   *)
(* passes from each to the next is proved as a set.                        *)
(***************************************************************************)
EXTENDS Integers, FiniteSetsExt, Functions, WellFoundedInduction, FiniteSetTheorems, TLAPS

\* A set of natural numbers that is not empty has a least element.
LEMMA LeastNatural ==
    ASSUME NEW B \in SUBSET Nat, B # {}
    PROVE  \E n \in B : \A m \in B : n <= m
<1> DEFINE R == OpToRel(<, Nat)
<1>1. IsWellFoundedOn(R, Nat)
  BY NatLessThanWellFounded
<1>2. R = {ss \in Nat \X Nat : ss[1] < ss[2]}
  BY DEF OpToRel
<1> HIDE DEF R
<1>3. PICK n \in B : \A m \in B : ~ (<<m, n>> \in R)
  BY <1>1, WFMin
<1>4. n \in Nat /\ \A m \in B : m \in Nat /\ (<<m, n>> \in R <=> m < n)
  BY <1>2
<1>5. \A m \in B : ~(m < n)
  BY <1>3, <1>4
<1>6. \A m \in B : n <= m
  BY <1>4, <1>5
<1> QED
  BY <1>6

\* It is Min of the set.
LEMMA MinIn ==
    ASSUME NEW S \in SUBSET Nat, S # {}
    PROVE  Min(S) \in S /\ \A y \in S : Min(S) <= y
<1>1. \E x \in S : \A y \in S : x <= y
  BY LeastNatural
<1> QED
  BY <1>1 DEF Min

\* Induction: a set that has 0, and n + 1 with every n, has all numbers.
LEMMA AllNaturals ==
    ASSUME NEW P \in SUBSET Nat, 0 \in P, \A n \in P : n + 1 \in P
    PROVE  P = Nat
<1> SUFFICES ASSUME Nat \ P # {} PROVE FALSE
  OBVIOUS
<1>1. PICK n \in Nat \ P : \A m \in Nat \ P : n <= m
  BY LeastNatural
<1>2. n # 0 /\ n - 1 \in Nat /\ ~(n <= n - 1)
  BY <1>1
<1>3. n - 1 \in P
  BY <1>1, <1>2
<1>4. (n - 1) + 1 \in P /\ (n - 1) + 1 = n
  BY <1>2, <1>3
<1> QED
  BY <1>1, <1>4

-----------------------------------------------------------------------------
(* SumFunctionOnSet *)

\* The element that a fold takes next, and the recursion of the fold over the
\* subsets of S.
Pick(s) == CHOOSE x \in s : TRUE
Folds(g, f, S) ==
    g = [s \in SUBSET S |-> IF s = {} THEN 0 ELSE f[Pick(s)] + g[s \ {Pick(s)}]]

\* The sum is the value at S of a function that satisfies the recursion, if
\* there is one.
LEMMA SumIsFold ==
    ASSUME NEW f, NEW S, \E g : Folds(g, f, S)
    PROVE  \E g : Folds(g, f, S) /\ SumFunctionOnSet(f, S) = g[S]
<1> DEFINE h == CHOOSE g : g = [s \in SUBSET S |->
                  IF s = {} THEN 0
                  ELSE f[CHOOSE x \in s : TRUE] + g[s \ {CHOOSE x \in s : TRUE}]]
<1>1. SumFunctionOnSet(f, S) = h[S]
  BY DEF SumFunctionOnSet, FoldFunctionOnSet, MapThenFoldSet
<1>2. h = CHOOSE g : Folds(g, f, S)
  BY DEF Folds, Pick
<1> HIDE DEF h
<1>3. Folds(h, f, S)
  BY <1>2
<1> QED
  BY <1>1, <1>3

\* A finite set of numbers of elements is used up: the cardinalities.
LEMMA OneLess ==
    ASSUME NEW S, IsFiniteSet(S), NEW x \in S
    PROVE  /\ IsFiniteSet(S \ {x})
           /\ Cardinality(S) \in Nat /\ Cardinality(S \ {x}) \in Nat
           /\ Cardinality(S) = Cardinality(S \ {x}) + 1
<1>1. IsFiniteSet(S \ {x}) /\ Cardinality(S \ {x}) = Cardinality(S) - 1
  BY FS_RemoveElement
<1>2. Cardinality(S) \in Nat /\ Cardinality(S \ {x}) \in Nat
  BY <1>1, FS_CardinalityType
<1> QED
  BY <1>1, <1>2

\* Induction over the subsets of a finite set.
LEMMA AllSubsets ==
    ASSUME NEW S, IsFiniteSet(S), NEW P \in SUBSET (SUBSET S), {} \in P,
           \A T \in SUBSET S : T # {} /\ (\A x \in T : T \ {x} \in P) => T \in P
    PROVE  P = SUBSET S
<1> SUFFICES ASSUME NEW U \in SUBSET S, U \notin P PROVE FALSE
  OBVIOUS
<1> DEFINE B == {n \in Nat : \E T \in SUBSET S : T \notin P /\ Cardinality(T) = n}
<1>1. \A T \in SUBSET S : IsFiniteSet(T) /\ Cardinality(T) \in Nat
  BY FS_Subset, FS_CardinalityType
<1>2. Cardinality(U) \in B
  BY <1>1
<1>3. PICK n \in B : \A m \in B : n <= m
  BY <1>2, LeastNatural
<1>4. PICK T \in SUBSET S : T \notin P /\ Cardinality(T) = n
  BY <1>3
<1>5. ASSUME NEW x \in T PROVE T \ {x} \in P
  <2>1. Cardinality(T \ {x}) \in Nat /\ Cardinality(T) = Cardinality(T \ {x}) + 1
    BY <1>1, <1>4, OneLess
  <2>2. ~(n <= Cardinality(T \ {x}))
    BY <2>1, <1>4
  <2>3. Cardinality(T \ {x}) \notin B
    BY <2>2, <1>3
  <2>4. T \ {x} \in SUBSET S
    BY <1>4
  <2> QED
    BY <2>1, <2>3, <2>4
<1> QED
  BY <1>4, <1>5

\* A function satisfies the recursion of the fold on the sets in D.
Recurs(g, f, D) ==
    \A s \in D : g[s] = IF s = {} THEN 0 ELSE f[Pick(s)] + g[s \ {Pick(s)}]
FoldsOn(g, f, D) == g = [s \in D |-> g[s]] /\ Recurs(g, f, D)

\* There is a function that satisfies the recursion, as S is finite.
LEMMA FoldExists ==
    ASSUME NEW f, NEW S, IsFiniteSet(S)
    PROVE  \E g : Folds(g, f, S)
<1> DEFINE D(n) == {t \in SUBSET S : Cardinality(t) <= n}
           P == {n \in Nat : \E g : FoldsOn(g, f, D(n))}
<1>1. \A t \in SUBSET S : IsFiniteSet(t) /\ Cardinality(t) \in Nat
  BY FS_Subset, FS_CardinalityType
<1>2. 0 \in P
  <2> DEFINE g == [s \in D(0) |-> 0]
  <2>1. \A s \in D(0) : s = {}
    <3> TAKE s \in D(0)
    <3>1. Cardinality(s) = 0 /\ IsFiniteSet(s)
      BY <1>1
    <3> QED
      BY <3>1, FS_EmptySet
  <2>2. FoldsOn(g, f, D(0))
    BY <2>1 DEF FoldsOn, Recurs
  <2> QED
    BY <2>2
<1>3. ASSUME NEW n \in P PROVE n + 1 \in P
  <2>1. PICK g : FoldsOn(g, f, D(n))
    OBVIOUS
  <2> DEFINE h == [s \in D(n + 1) |-> IF s = {} THEN 0 ELSE f[Pick(s)] + g[s \ {Pick(s)}]]
  <2>2. \A s \in D(n) : s \in D(n + 1)
    BY <1>1
  <2>3. \A s \in D(n) : h[s] = g[s]
    <3> TAKE s \in D(n)
    <3>1. g[s] = IF s = {} THEN 0 ELSE f[Pick(s)] + g[s \ {Pick(s)}]
      BY <2>1 DEF FoldsOn, Recurs
    <3> QED
      BY <3>1, <2>2
  <2>4. \A s \in D(n + 1) : s # {} => s \ {Pick(s)} \in D(n)
    <3> TAKE s \in D(n + 1)
    <3> HAVE s # {}
    <3>1. Pick(s) \in s
      BY DEF Pick
    <3>2. /\ Cardinality(s) \in Nat /\ Cardinality(s \ {Pick(s)}) \in Nat
          /\ Cardinality(s) = Cardinality(s \ {Pick(s)}) + 1
      BY <3>1, <1>1, OneLess
    <3> QED
      BY <3>2
  <2>5. \A s \in D(n + 1) : h[s] = IF s = {} THEN 0 ELSE f[Pick(s)] + h[s \ {Pick(s)}]
    <3> TAKE s \in D(n + 1)
    <3>1. CASE s = {}
      BY <3>1
    <3>2. CASE s # {}
      <4>1. h[s \ {Pick(s)}] = g[s \ {Pick(s)}]
        BY <3>2, <2>3, <2>4
      <4>2. h[s] = f[Pick(s)] + g[s \ {Pick(s)}]
        BY <3>2
      <4> HIDE DEF h
      <4> QED
        BY <3>2, <4>1, <4>2
    <3> QED
      BY <3>1, <3>2
  <2>6. h = [s \in D(n + 1) |-> h[s]]
    OBVIOUS
  <2> HIDE DEF h
  <2>7. FoldsOn(h, f, D(n + 1))
    BY <2>5, <2>6 DEF FoldsOn, Recurs
  <2>8. n + 1 \in Nat
    OBVIOUS
  <2>9. \E k : FoldsOn(k, f, D(n + 1))
    BY <2>7
  <2> HIDE DEF D
  <2> QED
    BY <2>8, <2>9
<1>4. P = Nat
  <2> HIDE DEF P
  <2>1. P \in SUBSET Nat
    BY DEF P
  <2> QED
    BY <2>1, <1>2, <1>3, AllNaturals
<1>5. Cardinality(S) \in P /\ IsFiniteSet(S) /\ Cardinality(S) \in Nat
  BY <1>4, FS_CardinalityType
<1>6. PICK g : FoldsOn(g, f, D(Cardinality(S)))
  BY <1>5
<1>7. D(Cardinality(S)) = SUBSET S
  BY FS_Subset
<1>8. FoldsOn(g, f, SUBSET S)
  BY <1>6, <1>7
<1>9. Folds(g, f, S)
  <2>1. g = [s \in SUBSET S |-> g[s]] /\ \A s \in SUBSET S :
            g[s] = IF s = {} THEN 0 ELSE f[Pick(s)] + g[s \ {Pick(s)}]
    BY <1>8 DEF FoldsOn, Recurs
  <2> QED
    BY <2>1 DEF Folds
<1> QED
  BY <1>9

\* Two functions that satisfy the recursion on all subsets of T agree there.
LEMMA FoldUnique ==
    ASSUME NEW f, NEW T, IsFiniteSet(T), NEW g, NEW h,
           Recurs(g, f, SUBSET T), Recurs(h, f, SUBSET T)
    PROVE  g[T] = h[T]
<1> DEFINE P == {s \in SUBSET T : g[s] = h[s]}
<1>1. {} \in P
  BY DEF Recurs
<1>2. ASSUME NEW s \in SUBSET T, s # {}, \A x \in s : s \ {x} \in P
      PROVE  s \in P
  <2>1. Pick(s) \in s
    BY <1>2 DEF Pick
  <2>2. g[s \ {Pick(s)}] = h[s \ {Pick(s)}]
    BY <2>1, <1>2
  <2> QED
    BY <2>2, <1>2 DEF Recurs
<1>3. P = SUBSET T
  <2>1. P \in SUBSET (SUBSET T)
    OBVIOUS
  <2> HIDE DEF P
  <2> QED
    BY <2>1, <1>1, <1>2, AllSubsets
<1> QED
  BY <1>3

\* The sum is the value at S of a function that satisfies the recursion.
LEMMA SumValue ==
    ASSUME NEW f, NEW S, IsFiniteSet(S)
    PROVE  \E g : Recurs(g, f, SUBSET S) /\ SumFunctionOnSet(f, S) = g[S]
<1>1. PICK g : Folds(g, f, S) /\ SumFunctionOnSet(f, S) = g[S]
  BY FoldExists, SumIsFold
<1>2. Recurs(g, f, SUBSET S)
  BY <1>1 DEF Folds, Recurs
<1> QED
  BY <1>1, <1>2

\* The sum over no elements.
LEMMA SumEmpty ==
    ASSUME NEW f
    PROVE  SumFunctionOnSet(f, {}) = 0
<1>1. PICK g : Recurs(g, f, SUBSET {}) /\ SumFunctionOnSet(f, {}) = g[{}]
  BY SumValue, FS_EmptySet
<1> QED
  BY <1>1 DEF Recurs

\* The sum takes one element after the other.
LEMMA SumPick ==
    ASSUME NEW f, NEW S, IsFiniteSet(S), S # {}
    PROVE  /\ Pick(S) \in S
           /\ SumFunctionOnSet(f, S) = f[Pick(S)] + SumFunctionOnSet(f, S \ {Pick(S)})
<1> DEFINE T == S \ {Pick(S)}
<1>1. Pick(S) \in S
  BY DEF Pick
<1>2. IsFiniteSet(T)
  BY <1>1, OneLess
<1>3. PICK g : Recurs(g, f, SUBSET S) /\ SumFunctionOnSet(f, S) = g[S]
  BY SumValue
<1>4. PICK h : Recurs(h, f, SUBSET T) /\ SumFunctionOnSet(f, T) = h[T]
  BY <1>2, SumValue
<1>5. g[T] = h[T]
  <2>1. Recurs(g, f, SUBSET T)
    BY <1>3 DEF Recurs
  <2> HIDE DEF T
  <2> QED
    BY <2>1, <1>2, <1>4, FoldUnique
<1>6. g[S] = f[Pick(S)] + g[T]
  BY <1>3 DEF Recurs
<1> QED
  BY <1>1, <1>3, <1>4, <1>5, <1>6

-----------------------------------------------------------------------------
(* Sums of integers. *)

\* A sum of integers is an integer.
LEMMA SumInt ==
    ASSUME NEW S, IsFiniteSet(S), NEW f, \A x \in S : f[x] \in Int
    PROVE  \A T \in SUBSET S : IsFiniteSet(T) /\ SumFunctionOnSet(f, T) \in Int
<1> DEFINE P == {T \in SUBSET S : SumFunctionOnSet(f, T) \in Int}
<1>1. {} \in P
  BY SumEmpty
<1>2. \A T \in SUBSET S : IsFiniteSet(T)
  BY FS_Subset
<1>3. ASSUME NEW T \in SUBSET S, T # {}, \A x \in T : T \ {x} \in P
      PROVE  T \in P
  <2>1. Pick(T) \in T /\ SumFunctionOnSet(f, T) = f[Pick(T)] + SumFunctionOnSet(f, T \ {Pick(T)})
    BY <1>2, <1>3, SumPick
  <2>2. f[Pick(T)] \in Int /\ SumFunctionOnSet(f, T \ {Pick(T)}) \in Int
    BY <2>1, <1>3
  <2> QED
    BY <2>1, <2>2
<1>4. P \in SUBSET (SUBSET S)
  OBVIOUS
<1>5. P = SUBSET S
  <2> HIDE DEF P
  <2> QED
    BY <1>1, <1>3, <1>4, AllSubsets
<1> QED
  BY <1>2, <1>5

\* The order does not matter: the sum is any one element and the sum of the rest.
LEMMA SumRemove ==
    ASSUME NEW S, IsFiniteSet(S), NEW f, \A x \in S : f[x] \in Int
    PROVE  \A x \in S : SumFunctionOnSet(f, S) = f[x] + SumFunctionOnSet(f, S \ {x})
<1> DEFINE Sum(T) == SumFunctionOnSet(f, T)
           P == {T \in SUBSET S : \A x \in T : Sum(T) = f[x] + Sum(T \ {x})}
<1>1. {} \in P
  OBVIOUS
<1>2. \A T \in SUBSET S : IsFiniteSet(T) /\ Sum(T) \in Int
  BY SumInt
<1>3. ASSUME NEW T \in SUBSET S, T # {}, \A x \in T : T \ {x} \in P
      PROVE  T \in P
  <2> DEFINE y == Pick(T)
  <2>1. y \in T /\ Sum(T) = f[y] + Sum(T \ {y})
    BY <1>2, <1>3, SumPick
  <2> SUFFICES ASSUME NEW x \in T, x # y PROVE Sum(T) = f[x] + Sum(T \ {x})
    BY <2>1
  <2> HIDE DEF y, Sum
  <2>2. Sum(T \ {y}) = f[x] + Sum((T \ {y}) \ {x})
    BY <2>1, <1>3
  <2>3. Sum(T \ {x}) = f[y] + Sum((T \ {x}) \ {y})
    BY <2>1, <1>3
  <2>4. Sum((T \ {y}) \ {x}) = Sum((T \ {x}) \ {y})
    <3>1. (T \ {y}) \ {x} = (T \ {x}) \ {y}
      OBVIOUS
    <3> QED
      BY <3>1
  <2>5. f[x] \in Int /\ f[y] \in Int /\ Sum((T \ {x}) \ {y}) \in Int
    BY <2>1, <1>2
  <2> QED
    BY <2>1, <2>2, <2>3, <2>4, <2>5
<1>4. P \in SUBSET (SUBSET S)
  OBVIOUS
<1>5. P = SUBSET S
  <2> HIDE DEF P
  <2> QED
    BY <1>1, <1>3, <1>4, AllSubsets
<1> QED
  BY <1>5

\* Functions that agree on the elements have the same sum.
LEMMA SumSame ==
    ASSUME NEW S, IsFiniteSet(S), NEW f, NEW g, \A x \in S : f[x] = g[x]
    PROVE  SumFunctionOnSet(f, S) = SumFunctionOnSet(g, S)
<1> DEFINE P == {T \in SUBSET S : SumFunctionOnSet(f, T) = SumFunctionOnSet(g, T)}
<1>1. {} \in P
  BY SumEmpty
<1>2. \A T \in SUBSET S : IsFiniteSet(T)
  BY FS_Subset
<1>3. ASSUME NEW T \in SUBSET S, T # {}, \A x \in T : T \ {x} \in P
      PROVE  T \in P
  <2>1. Pick(T) \in T /\ SumFunctionOnSet(f, T) = f[Pick(T)] + SumFunctionOnSet(f, T \ {Pick(T)})
    BY <1>2, <1>3, SumPick
  <2>2. SumFunctionOnSet(g, T) = g[Pick(T)] + SumFunctionOnSet(g, T \ {Pick(T)})
    BY <1>2, <1>3, SumPick
  <2>3. SumFunctionOnSet(f, T \ {Pick(T)}) = SumFunctionOnSet(g, T \ {Pick(T)})
    BY <2>1, <1>3
  <2>4. f[Pick(T)] = g[Pick(T)]
    BY <2>1
  <2> QED
    BY <2>1, <2>2, <2>3, <2>4
<1>4. P \in SUBSET (SUBSET S)
  OBVIOUS
<1>5. P = SUBSET S
  <2> HIDE DEF P
  <2> QED
    BY <1>1, <1>3, <1>4, AllSubsets
<1> QED
  BY <1>5

\* A function that is nowhere larger has no larger sum.
LEMMA SumMonotone ==
    ASSUME NEW S, IsFiniteSet(S), NEW f, NEW g,
           \A x \in S : f[x] \in Int /\ g[x] \in Int /\ f[x] <= g[x]
    PROVE  SumFunctionOnSet(f, S) <= SumFunctionOnSet(g, S)
<1> DEFINE P == {T \in SUBSET S : SumFunctionOnSet(f, T) <= SumFunctionOnSet(g, T)}
<1>1. {} \in P
  BY SumEmpty
<1>2. \A T \in SUBSET S : /\ IsFiniteSet(T) /\ SumFunctionOnSet(f, T) \in Int
                          /\ SumFunctionOnSet(g, T) \in Int
  BY SumInt
<1>3. ASSUME NEW T \in SUBSET S, T # {}, \A x \in T : T \ {x} \in P
      PROVE  T \in P
  <2> DEFINE y == Pick(T)
  <2>1. y \in T /\ SumFunctionOnSet(f, T) = f[y] + SumFunctionOnSet(f, T \ {y})
    BY <1>2, <1>3, SumPick
  <2>2. SumFunctionOnSet(g, T) = g[y] + SumFunctionOnSet(g, T \ {y})
    BY <1>2, <1>3, SumPick
  <2> HIDE DEF y
  <2>3. SumFunctionOnSet(f, T \ {y}) <= SumFunctionOnSet(g, T \ {y})
    BY <2>1, <1>3
  <2>4. f[y] \in Int /\ g[y] \in Int /\ f[y] <= g[y]
    BY <2>1
  <2>5. SumFunctionOnSet(f, T \ {y}) \in Int /\ SumFunctionOnSet(g, T \ {y}) \in Int
    BY <1>2
  <2> QED
    BY <2>1, <2>2, <2>3, <2>4, <2>5
<1>4. P \in SUBSET (SUBSET S)
  OBVIOUS
<1>5. P = SUBSET S
  <2> HIDE DEF P
  <2> QED
    BY <1>1, <1>3, <1>4, AllSubsets
<1> QED
  BY <1>5

\* The sum of f + g.
LEMMA SumAdd ==
    ASSUME NEW S, IsFiniteSet(S), NEW f, NEW g, NEW h,
           \A x \in S : f[x] \in Int /\ g[x] \in Int /\ h[x] = f[x] + g[x]
    PROVE  SumFunctionOnSet(h, S) = SumFunctionOnSet(f, S) + SumFunctionOnSet(g, S)
<1> DEFINE P == {T \in SUBSET S :
                  SumFunctionOnSet(h, T) = SumFunctionOnSet(f, T) + SumFunctionOnSet(g, T)}
<1>1. {} \in P
  BY SumEmpty
<1>2. \A T \in SUBSET S : /\ IsFiniteSet(T) /\ SumFunctionOnSet(f, T) \in Int
                          /\ SumFunctionOnSet(g, T) \in Int
  BY SumInt
<1>3. ASSUME NEW T \in SUBSET S, T # {}, \A x \in T : T \ {x} \in P
      PROVE  T \in P
  <2> DEFINE y == Pick(T)
  <2>1. y \in T /\ SumFunctionOnSet(f, T) = f[y] + SumFunctionOnSet(f, T \ {y})
    BY <1>2, <1>3, SumPick
  <2>2. SumFunctionOnSet(g, T) = g[y] + SumFunctionOnSet(g, T \ {y})
    BY <1>2, <1>3, SumPick
  <2>3. SumFunctionOnSet(h, T) = h[y] + SumFunctionOnSet(h, T \ {y})
    BY <1>2, <1>3, SumPick
  <2> HIDE DEF y
  <2>4. SumFunctionOnSet(h, T \ {y})
          = SumFunctionOnSet(f, T \ {y}) + SumFunctionOnSet(g, T \ {y})
    BY <2>1, <1>3
  <2>5. f[y] \in Int /\ g[y] \in Int /\ h[y] = f[y] + g[y]
    BY <2>1
  <2>6. SumFunctionOnSet(f, T \ {y}) \in Int /\ SumFunctionOnSet(g, T \ {y}) \in Int
    BY <1>2
  <2> QED
    BY <2>1, <2>2, <2>3, <2>4, <2>5, <2>6
<1>4. P \in SUBSET (SUBSET S)
  OBVIOUS
<1>5. P = SUBSET S
  <2> HIDE DEF P
  <2> QED
    BY <1>1, <1>3, <1>4, AllSubsets
<1> QED
  BY <1>5

\* A sum of numbers is a number, and no element exceeds it.
LEMMA SumNat ==
    ASSUME NEW S, IsFiniteSet(S), NEW f, \A x \in S : f[x] \in Nat
    PROVE  /\ SumFunctionOnSet(f, S) \in Nat
           /\ \A x \in S : f[x] <= SumFunctionOnSet(f, S)
<1> DEFINE P == {T \in SUBSET S : SumFunctionOnSet(f, T) \in Nat}
<1>1. {} \in P
  BY SumEmpty
<1>2. \A T \in SUBSET S : IsFiniteSet(T)
  BY FS_Subset
<1>3. ASSUME NEW T \in SUBSET S, T # {}, \A x \in T : T \ {x} \in P
      PROVE  T \in P
  <2>1. Pick(T) \in T /\ SumFunctionOnSet(f, T) = f[Pick(T)] + SumFunctionOnSet(f, T \ {Pick(T)})
    BY <1>2, <1>3, SumPick
  <2>2. f[Pick(T)] \in Nat /\ SumFunctionOnSet(f, T \ {Pick(T)}) \in Nat
    BY <2>1, <1>3
  <2> QED
    BY <2>1, <2>2
<1>4. P \in SUBSET (SUBSET S)
  OBVIOUS
<1>5. P = SUBSET S
  <2> HIDE DEF P
  <2> QED
    BY <1>1, <1>3, <1>4, AllSubsets
<1>6. \A T \in SUBSET S : SumFunctionOnSet(f, T) \in Nat
  BY <1>5
<1>7. \A x \in S : SumFunctionOnSet(f, S) = f[x] + SumFunctionOnSet(f, S \ {x})
  BY SumRemove
<1>8. ASSUME NEW x \in S PROVE f[x] <= SumFunctionOnSet(f, S)
  <2>1. SumFunctionOnSet(f, S \ {x}) \in Nat /\ f[x] \in Nat
    BY <1>6
  <2> QED
    BY <2>1, <1>7
<1> QED
  BY <1>6, <1>8

\* g differs from f only at k, where f has the value old, 0 if k is new.
PutSet(S, k, f, g, old) ==
    /\ old = IF k \in S THEN f[k] ELSE 0
    /\ IsFiniteSet(S)
    /\ \A x \in S : f[x] \in Int
    /\ \A x \in S \cup {k} : g[x] \in Int
    /\ \A x \in S \ {k} : g[x] = f[x]

\* What a new or a changed element does to a sum.
LEMMA SumPut ==
    ASSUME NEW S, NEW k, NEW f, NEW g, NEW old, PutSet(S, k, f, g, old)
    PROVE  /\ IsFiniteSet(S \cup {k})
           /\ SumFunctionOnSet(f, S) \in Int /\ SumFunctionOnSet(g, S \cup {k}) \in Int
           /\ SumFunctionOnSet(g, S \cup {k}) = SumFunctionOnSet(f, S) + g[k] - old
<1> /\ IsFiniteSet(S)
    /\ old = IF k \in S THEN f[k] ELSE 0
    /\ \A x \in S : f[x] \in Int
    /\ \A x \in S \cup {k} : g[x] \in Int
    /\ \A x \in S \ {k} : g[x] = f[x]
  BY DEF PutSet
<1> DEFINE R == S \ {k}
<1>1. IsFiniteSet(S \cup {k}) /\ IsFiniteSet(R)
  BY FS_AddElement, FS_RemoveElement
<1>2. SumFunctionOnSet(g, S \cup {k}) = g[k] + SumFunctionOnSet(g, (S \cup {k}) \ {k})
  BY <1>1, SumRemove
<1>3. (S \cup {k}) \ {k} = R
  OBVIOUS
<1>4. SumFunctionOnSet(g, R) = SumFunctionOnSet(f, R)
  BY <1>1, SumSame
<1>5. SumFunctionOnSet(f, R) \in Int /\ SumFunctionOnSet(f, S) \in Int
  BY SumInt
<1>6. SumFunctionOnSet(f, S) = SumFunctionOnSet(f, R) + (IF k \in S THEN f[k] ELSE 0)
  <2>1. CASE k \in S
    <3>1. SumFunctionOnSet(f, S) = f[k] + SumFunctionOnSet(f, R) /\ f[k] \in Int
      BY <2>1, SumRemove
    <3> QED
      BY <3>1, <2>1, <1>5
  <2>2. CASE k \notin S
    <3>1. R = S
      BY <2>2
    <3> HIDE DEF R
    <3>2. SumFunctionOnSet(f, R) = SumFunctionOnSet(f, S)
      BY <3>1
    <3>3. (IF k \in S THEN f[k] ELSE 0) = 0
      BY <2>2
    <3> QED
      BY <3>2, <3>3, <1>5
  <2> QED
    BY <2>1, <2>2
<1>7. SumFunctionOnSet(g, S \cup {k}) = g[k] + SumFunctionOnSet(f, R)
  BY <1>2, <1>3, <1>4
<1> HIDE DEF R
<1>8. g[k] \in Int /\ (IF k \in S THEN f[k] ELSE 0) \in Int
  OBVIOUS
<1> QED
  BY <1>1, <1>5, <1>6, <1>7, <1>8

\* The sum with one more element.
LEMMA SumMore ==
    ASSUME NEW S, IsFiniteSet(S), NEW k, k \notin S, NEW g, \A x \in S \cup {k} : g[x] \in Int
    PROVE  /\ IsFiniteSet(S \cup {k})
           /\ SumFunctionOnSet(g, S) \in Int /\ SumFunctionOnSet(g, S \cup {k}) \in Int
           /\ SumFunctionOnSet(g, S \cup {k}) = SumFunctionOnSet(g, S) + g[k]
<1> DEFINE T == S \cup {k}
<1>1. IsFiniteSet(T)
  BY FS_AddElement
<1>2. S \in SUBSET T /\ T \in SUBSET T /\ T \ {k} = S /\ k \in T
  OBVIOUS
<1>3. \A x \in T : g[x] \in Int
  OBVIOUS
<1> HIDE DEF T
<1>4. SumFunctionOnSet(g, S) \in Int /\ SumFunctionOnSet(g, T) \in Int
  BY <1>1, <1>2, <1>3, SumInt
<1>5. SumFunctionOnSet(g, T) = g[k] + SumFunctionOnSet(g, T \ {k})
  BY <1>1, <1>2, <1>3, SumRemove
<1>6. SumFunctionOnSet(g, T \ {k}) = SumFunctionOnSet(g, S)
  BY <1>2
<1>7. g[k] \in Int
  BY <1>2, <1>3
<1>8. SumFunctionOnSet(g, T) = SumFunctionOnSet(g, S) + g[k]
  BY <1>4, <1>5, <1>6, <1>7
<1> QED
  BY <1>1, <1>4, <1>8 DEF T

=============================================================================
