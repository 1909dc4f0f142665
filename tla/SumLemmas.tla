------------------------------ MODULE SumLemmas ------------------------------
(***************************************************************************)
(* Sums of natural numbers over finite sets: what SumFunctionOnSet of the  *)
(* community modules computes, whichever element it takes first.  The fold *)
(* it is defined by is a recursive function, so that the recursion has to  *)
(* be shown to have a solution.  Induction is by minimal counterexample,   *)
(* with a set of sets (or of numbers) in the place of a predicate.         *)
(***************************************************************************)
EXTENDS Integers, Functions, FiniteSetTheorems, TLAPS

-----------------------------------------------------------------------------
(* Induction *)

\* A collection that has every set whose one-smaller subsets it has.
LEMMA SubsetInduction ==
    ASSUME NEW S, IsFiniteSet(S), NEW P,
           \A T \in SUBSET S : (\A x \in T : T \ {x} \in P) => T \in P
    PROVE  \A T \in SUBSET S : T \in P
<1> DEFINE Bad == (SUBSET S) \ P
<1> SUFFICES ASSUME Bad # {} PROVE FALSE
    OBVIOUS
<1>1. IsWellFoundedOn(StrictSubsetOrdering(S), SUBSET S)
    <2>1. IsWellFoundedOn(StrictSubsetOrdering(S), FiniteSubsetsOf(S))
        BY FS_StrictSubsetOrderingWellFounded
    <2>2. FiniteSubsetsOf(S) = SUBSET S
        BY FS_FiniteSubsetsOfFinite
    <2> QED
        BY <2>1, <2>2
<1>2. PICK T \in Bad : \A U \in Bad : <<U, T>> \notin StrictSubsetOrdering(S)
    <2>1. Bad \subseteq SUBSET S
        OBVIOUS
    <2> HIDE DEF Bad
    <2> QED
        BY <1>1, <2>1, WFMin
<1>3. \A x \in T : <<T \ {x}, T>> \in StrictSubsetOrdering(S)
    BY DEF StrictSubsetOrdering
<1>4. T \in SUBSET S /\ T \notin P
    BY <1>2
<1>5. \A x \in T : T \ {x} \in P
    BY <1>2, <1>3
<1>6. T \in P
    BY <1>4, <1>5
<1> QED
    BY <1>4, <1>6

\* A set that has zero and every successor of its elements.
LEMMA NumberInduction ==
    ASSUME NEW P, 0 \in P, \A n \in Nat : n \in P => n + 1 \in P
    PROVE  \A n \in Nat : n \in P
<1> DEFINE Bad == Nat \ P
           Less == OpToRel(<, Nat)
<1> SUFFICES ASSUME Bad # {} PROVE FALSE
    OBVIOUS
<1>1. IsWellFoundedOn(Less, Nat)
    BY Zenon, NatLessThanWellFounded
<1>2. \A m, k \in Nat : m < k => <<m, k>> \in Less
    BY Zenon DEF OpToRel
<1> HIDE DEF Less
<1>3. PICK n \in Bad : \A m \in Bad : <<m, n>> \notin Less
    <2>1. Bad \subseteq Nat
        OBVIOUS
    <2> HIDE DEF Bad
    <2> QED
        BY <1>1, <2>1, WFMin
<1>4. n \in Nat /\ n # 0
    BY <1>3
<1>5. n - 1 \in Nat /\ n - 1 < n
    BY <1>4
<1>6. n - 1 \in P
    BY <1>2, <1>3, <1>4, <1>5
<1> QED
    BY <1>3, <1>5, <1>6

-----------------------------------------------------------------------------
(* The recursion *)

Any(s) == CHOOSE x \in s : TRUE
SumStep(f, g, s) == IF s = {} THEN 0 ELSE f[Any(s)] + g[s \ {Any(s)}]

\* g gives every subset of S its sum.
Solves(f, S, g) == g = [s \in SUBSET S |-> SumStep(f, g, s)]
Partial(f, S) == CHOOSE g : Solves(f, S, g)

LEMMA AnyIn == ASSUME NEW s, s # {} PROVE Any(s) \in s
BY DEF Any

LEMMA SumIsPartial ==
    ASSUME NEW f, NEW S
    PROVE  SumFunctionOnSet(f, S) = Partial(f, S)[S]
BY DEF SumFunctionOnSet, FoldFunctionOnSet, MapThenFoldSet, Partial, Solves,
       SumStep, Any

\* There is a solution: built up by the size of the subsets.
LEMMA PartialSolves ==
    ASSUME NEW f, NEW S, IsFiniteSet(S)
    PROVE  Solves(f, S, Partial(f, S))
<1> DEFINE Small(n) == {s \in SUBSET S : Cardinality(s) <= n}
           P == {n \in Nat : \E g : g = [s \in Small(n) |-> SumStep(f, g, s)]}
<1>1. 0 \in P
    <2> DEFINE g == [s \in Small(0) |-> 0]
    <2>1. \A s \in Small(0) : s = {}
        BY FS_Subset, FS_CardinalityType, FS_EmptySet
    <2>2. g = [s \in Small(0) |-> SumStep(f, g, s)]
        BY <2>1 DEF SumStep
    <2> QED
        BY <2>2
<1>2. ASSUME NEW n \in Nat, n \in P PROVE n + 1 \in P
    <2>1. PICK g : g = [s \in Small(n) |-> SumStep(f, g, s)]
        BY <1>2
    <2> DEFINE h == [s \in Small(n + 1) |-> SumStep(f, g, s)]
    <2>2. \A s \in Small(n) : s \in Small(n + 1)
        BY FS_Subset, FS_CardinalityType
    <2>3. \A s \in Small(n) : h[s] = g[s]
        BY <2>1, <2>2
    <2>4. \A s \in Small(n + 1) : s # {} => s \ {Any(s)} \in Small(n)
        BY AnyIn, FS_Subset, FS_CardinalityType, FS_RemoveElement
    <2>5. \A s \in Small(n + 1) : SumStep(f, g, s) = SumStep(f, h, s)
        BY <2>3, <2>4 DEF SumStep
    <2>6. h = [s \in Small(n + 1) |-> SumStep(f, h, s)]
        BY <2>5
    <2> HIDE DEF h
    <2>7. \E k : k = [s \in Small(n + 1) |-> SumStep(f, k, s)]
        BY <2>6
    <2>8. n + 1 \in Nat
        OBVIOUS
    <2> HIDE DEF Small
    <2> QED
        BY <2>7, <2>8
<1>3. \A n \in Nat : n \in P
    <2> HIDE DEF P
    <2> QED
        BY <1>1, <1>2, NumberInduction
<1>4. Cardinality(S) \in Nat /\ Small(Cardinality(S)) = SUBSET S
    BY FS_Subset, FS_CardinalityType
<1>5. \E g : Solves(f, S, g)
    BY <1>3, <1>4 DEF Solves
<1> QED
    BY <1>5 DEF Partial

\* The solutions for a set and for a smaller one agree.
LEMMA PartialAgrees ==
    ASSUME NEW f, NEW S, IsFiniteSet(S), NEW T \in SUBSET S
    PROVE  \A s \in SUBSET T : Partial(f, T)[s] = Partial(f, S)[s]
<1> DEFINE g == Partial(f, S)
           h == Partial(f, T)
           P == {s \in SUBSET T : h[s] = g[s]}
<1>1. IsFiniteSet(T) /\ Solves(f, S, g) /\ Solves(f, T, h)
    BY FS_Subset, PartialSolves
<1>2. ASSUME NEW s \in SUBSET T, \A x \in s : s \ {x} \in P
      PROVE  s \in P
    <2>1. h[s] = SumStep(f, h, s) /\ g[s] = SumStep(f, g, s)
        BY <1>1 DEF Solves
    <2>2. s # {} => h[s \ {Any(s)}] = g[s \ {Any(s)}]
        BY <1>2, AnyIn
    <2> QED
        BY <2>1, <2>2 DEF SumStep
<1>3. \A s \in SUBSET T : s \in P
    <2> HIDE DEF P
    <2> QED
        BY <1>1, <1>2, SubsetInduction
<1> QED
    BY <1>3

-----------------------------------------------------------------------------
(* What the sum is *)

LEMMA SumEmpty ==
    ASSUME NEW f
    PROVE  SumFunctionOnSet(f, {}) = 0
<1>1. Solves(f, {}, Partial(f, {}))
    BY PartialSolves, FS_EmptySet
<1>2. Partial(f, {})[{}] = SumStep(f, Partial(f, {}), {})
    BY <1>1 DEF Solves
<1> QED
    BY <1>2, SumIsPartial DEF SumStep

\* The sum takes some element first.
LEMMA SumUnfold ==
    ASSUME NEW f, NEW S, IsFiniteSet(S), S # {}
    PROVE  /\ Any(S) \in S
           /\ SumFunctionOnSet(f, S) = f[Any(S)] + SumFunctionOnSet(f, S \ {Any(S)})
<1> DEFINE T == S \ {Any(S)}
<1>1. Any(S) \in S /\ IsFiniteSet(T) /\ T \in SUBSET S
    BY AnyIn, FS_Subset
<1>2. Solves(f, S, Partial(f, S)) /\ Solves(f, T, Partial(f, T))
    BY <1>1, PartialSolves
<1>3. Partial(f, S)[S] = SumStep(f, Partial(f, S), S)
    BY <1>2 DEF Solves
<1>4. Partial(f, T)[T] = Partial(f, S)[T]
    BY <1>1, PartialAgrees
<1> QED
    BY <1>1, <1>3, <1>4, SumIsPartial DEF SumStep

LEMMA SumType ==
    ASSUME NEW f, NEW S, IsFiniteSet(S), \A x \in S : f[x] \in Nat
    PROVE  SumFunctionOnSet(f, S) \in Nat
<1> DEFINE P == {T \in SUBSET S : SumFunctionOnSet(f, T) \in Nat}
<1>1. ASSUME NEW T \in SUBSET S, \A x \in T : T \ {x} \in P
      PROVE  T \in P
    <2>1. CASE T = {}
        BY <2>1, SumEmpty
    <2>2. CASE T # {}
        <3>1. /\ Any(T) \in T
              /\ SumFunctionOnSet(f, T) = f[Any(T)] + SumFunctionOnSet(f, T \ {Any(T)})
            BY <2>2, FS_Subset, SumUnfold
        <3>2. f[Any(T)] \in Nat /\ SumFunctionOnSet(f, T \ {Any(T)}) \in Nat
            BY <1>1, <3>1
        <3> QED
            BY <3>1, <3>2
    <2> QED
        BY <2>1, <2>2
<1>2. \A T \in SUBSET S : T \in P
    <2> HIDE DEF P
    <2> QED
        BY <1>1, SubsetInduction
<1> QED
    BY <1>2

\* Any element may be taken first.
LEMMA SumSplit ==
    ASSUME NEW f, NEW S, IsFiniteSet(S), \A x \in S : f[x] \in Nat
    PROVE  \A x \in S :
              SumFunctionOnSet(f, S) = f[x] + SumFunctionOnSet(f, S \ {x})
<1> DEFINE Sum(T) == SumFunctionOnSet(f, T)
           P == {T \in SUBSET S : \A x \in T : Sum(T) = f[x] + Sum(T \ {x})}
<1>1. ASSUME NEW T \in SUBSET S, \A x \in T : T \ {x} \in P
      PROVE  T \in P
    <2> SUFFICES ASSUME NEW x \in T PROVE Sum(T) = f[x] + Sum(T \ {x})
        OBVIOUS
    <2> DEFINE y == Any(T)
    <2>1. y \in T /\ Sum(T) = f[y] + Sum(T \ {y})
        BY FS_Subset, SumUnfold
    <2>2. CASE x = y
        BY <2>1, <2>2
    <2>3. CASE x # y
        <3> DEFINE rest == Sum((T \ {x}) \ {y})
        <3>1. x \in T \ {y} /\ y \in T \ {x}
            BY <2>1, <2>3
        <3>2. Sum(T \ {y}) = f[x] + Sum((T \ {y}) \ {x})
            BY <1>1, <2>1, <3>1
        <3>3. Sum(T \ {x}) = f[y] + rest
            BY <1>1, <3>1
        <3>4. (T \ {y}) \ {x} = (T \ {x}) \ {y}
            OBVIOUS
        <3>5. /\ f[x] \in Nat /\ f[y] \in Nat
              /\ rest \in Nat
            BY <2>1, FS_Subset, SumType
        <3>6. Sum(T \ {y}) = f[x] + rest
            BY <3>2, <3>4
        <3> HIDE DEF Sum, y, P, rest
        <3> QED
            BY <2>1, <3>3, <3>5, <3>6
    <2> QED
        BY <2>2, <2>3
<1>2. \A T \in SUBSET S : T \in P
    <2> HIDE DEF P
    <2> QED
        BY <1>1, SubsetInduction
<1> QED
    BY <1>2

\* One element more, and one less.
LEMMA SumAdd ==
    ASSUME NEW f, NEW S, IsFiniteSet(S), NEW y, y \notin S,
           \A x \in S \cup {y} : f[x] \in Nat
    PROVE  SumFunctionOnSet(f, S \cup {y}) = f[y] + SumFunctionOnSet(f, S)
<1>1. IsFiniteSet(S \cup {y}) /\ (S \cup {y}) \ {y} = S
    BY FS_AddElement
<1> QED
    BY <1>1, SumSplit

LEMMA SumRemove ==
    ASSUME NEW f, NEW S, IsFiniteSet(S), NEW y \in S, \A x \in S : f[x] \in Nat
    PROVE  /\ SumFunctionOnSet(f, S \ {y}) \in Nat
           /\ SumFunctionOnSet(f, S) = f[y] + SumFunctionOnSet(f, S \ {y})
           /\ f[y] <= SumFunctionOnSet(f, S)
<1>1. SumFunctionOnSet(f, S \ {y}) \in Nat
    BY FS_Subset, SumType
<1>2. SumFunctionOnSet(f, S) = f[y] + SumFunctionOnSet(f, S \ {y})
    BY SumSplit
<1>3. f[y] \in Nat
    OBVIOUS
<1> QED
    BY <1>1, <1>2, <1>3

\* Equal terms, equal sums.
LEMMA SumAgrees ==
    ASSUME NEW f, NEW g, NEW S, IsFiniteSet(S), \A x \in S : f[x] = g[x]
    PROVE  SumFunctionOnSet(f, S) = SumFunctionOnSet(g, S)
<1> DEFINE P == {T \in SUBSET S : SumFunctionOnSet(f, T) = SumFunctionOnSet(g, T)}
<1>1. ASSUME NEW T \in SUBSET S, \A x \in T : T \ {x} \in P
      PROVE  T \in P
    <2>1. CASE T = {}
        BY <2>1, SumEmpty
    <2>2. CASE T # {}
        <3>1. /\ Any(T) \in T
              /\ SumFunctionOnSet(f, T) = f[Any(T)] + SumFunctionOnSet(f, T \ {Any(T)})
              /\ SumFunctionOnSet(g, T) = g[Any(T)] + SumFunctionOnSet(g, T \ {Any(T)})
            BY <2>2, FS_Subset, SumUnfold
        <3> QED
            BY <1>1, <3>1
    <2> QED
        BY <2>1, <2>2
<1>2. \A T \in SUBSET S : T \in P
    <2> HIDE DEF P
    <2> QED
        BY <1>1, SubsetInduction
<1> QED
    BY <1>2

\* Terms in a ratio of at most q to p, sums in a ratio of at most q to p.
LEMMA SumRatio ==
    ASSUME NEW f, NEW g, NEW S, IsFiniteSet(S), NEW p \in Nat, NEW q \in Nat,
           \A x \in S : f[x] \in Nat /\ g[x] \in Nat /\ p * f[x] <= q * g[x]
    PROVE  p * SumFunctionOnSet(f, S) <= q * SumFunctionOnSet(g, S)
<1> DEFINE F(T) == SumFunctionOnSet(f, T)
           G(T) == SumFunctionOnSet(g, T)
           P == {T \in SUBSET S : p * F(T) <= q * G(T)}
<1>1. ASSUME NEW T \in SUBSET S, \A x \in T : T \ {x} \in P
      PROVE  T \in P
    <2>1. CASE T = {}
        BY <2>1, SumEmpty
    <2>2. CASE T # {}
        <3> DEFINE y == Any(T)
                   rest == T \ {y}
        <3>1. y \in T /\ F(T) = f[y] + F(rest) /\ G(T) = g[y] + G(rest)
            BY <2>2, FS_Subset, SumUnfold
        <3>2. F(rest) \in Nat /\ G(rest) \in Nat
            BY FS_Subset, SumType
        <3>3. p * F(rest) <= q * G(rest)
            BY <1>1, <3>1
        <3>4. f[y] \in Nat /\ g[y] \in Nat /\ p * f[y] <= q * g[y]
            BY <3>1
        <3>5. ASSUME NEW a \in Nat, NEW b \in Nat, NEW c \in Nat, NEW d \in Nat,
                     p * a <= q * b, p * c <= q * d
              PROVE  p * (a + c) <= q * (b + d)
            <4>1. p * (a + c) = p * a + p * c /\ q * (b + d) = q * b + q * d
                OBVIOUS
            <4> QED
                BY <4>1, <3>5
        <3> HIDE DEF F, G, P, y, rest
        <3>6. p * F(T) <= q * G(T)
            BY <3>1, <3>2, <3>3, <3>4, <3>5
        <3> QED
            BY <3>6 DEF P
    <2> QED
        BY <2>1, <2>2
<1>2. \A T \in SUBSET S : T \in P
    <2> HIDE DEF P
    <2> QED
        BY <1>1, SubsetInduction
<1> QED
    BY <1>2

\* Fewer terms, a smaller sum.
LEMMA SumSubset ==
    ASSUME NEW f, NEW S, IsFiniteSet(S), \A x \in S : f[x] \in Nat, NEW R \in SUBSET S
    PROVE  SumFunctionOnSet(f, R) <= SumFunctionOnSet(f, S)
<1> DEFINE F(T) == SumFunctionOnSet(f, T)
           P == {T \in SUBSET S : F(T \cap R) <= F(T)}
<1>1. ASSUME NEW T \in SUBSET S, \A x \in T : T \ {x} \in P
      PROVE  T \in P
    <2>1. CASE T \subseteq R
        <3>1. T \cap R = T /\ F(T) \in Nat
            BY <2>1, FS_Subset, SumType
        <3> QED
            BY <3>1
    <2>2. CASE ~ (T \subseteq R)
        <3>1. PICK y \in T : y \notin R
            BY <2>2
        <3>2. T \cap R = (T \ {y}) \cap R
            BY <3>1
        <3>3. F((T \ {y}) \cap R) <= F(T \ {y})
            BY <1>1
        <3>4. f[y] \in Nat /\ F(T \ {y}) \in Nat /\ F(T) = f[y] + F(T \ {y})
            BY FS_Subset, SumRemove
        <3>5. F((T \ {y}) \cap R) \in Nat
            BY FS_Subset, SumType
        <3>6. F(T \cap R) = F((T \ {y}) \cap R)
            BY <3>2
        <3> HIDE DEF F, P
        <3>7. F(T \cap R) <= F(T)
            BY <3>3, <3>4, <3>5, <3>6
        <3> QED
            BY <3>7 DEF P
    <2> QED
        BY <2>1, <2>2
<1>2. \A T \in SUBSET S : T \in P
    <2> HIDE DEF P
    <2> QED
        BY <1>1, SubsetInduction
<1>3. S \cap R = R
    OBVIOUS
<1> QED
    BY <1>2, <1>3

\* The terms may be renamed, one to one.
LEMMA SumRenamed ==
    ASSUME NEW f, NEW g, NEW S, IsFiniteSet(S), NEW r,
           \A x \in S : g[x] \in Nat /\ f[r[x]] = g[x],
           \A x, y \in S : r[x] = r[y] => x = y
    PROVE  SumFunctionOnSet(f, {r[x] : x \in S}) = SumFunctionOnSet(g, S)
<1> DEFINE F(T) == SumFunctionOnSet(f, T)
           G(T) == SumFunctionOnSet(g, T)
           Image(T) == {r[x] : x \in T}
           P == {T \in SUBSET S : IsFiniteSet(Image(T)) /\ F(Image(T)) = G(T)}
<1>1. ASSUME NEW T \in SUBSET S, \A x \in T : T \ {x} \in P
      PROVE  T \in P
    <2>1. CASE T = {}
        <3>1. Image(T) = {}
            BY <2>1
        <3> QED
            BY <2>1, <3>1, SumEmpty, FS_EmptySet
    <2>2. CASE T # {}
        <3>1. PICK y : y \in T
            BY <2>2
        <3>2. /\ Image(T) = Image(T \ {y}) \cup {r[y]}
              /\ r[y] \notin Image(T \ {y})
            BY <3>1
        <3>3. IsFiniteSet(Image(T \ {y})) /\ F(Image(T \ {y})) = G(T \ {y})
            BY <1>1, <3>1
        <3>4. IsFiniteSet(Image(T))
            <4> DEFINE less == Image(T \ {y})
            <4>1. IsFiniteSet(less)
                BY <3>3
            <4>2. Image(T) = less \cup {r[y]}
                BY <3>2
            <4> HIDE DEF less, Image
            <4>3. IsFiniteSet(less \cup {r[y]})
                BY <4>1, FS_AddElement
            <4> QED
                BY <4>2, <4>3
        <3>5. \A z \in Image(T) : f[z] \in Nat
            OBVIOUS
        <3>6. F(Image(T)) = f[r[y]] + F(Image(T \ {y}))
            <4> HIDE DEF Image
            <4> QED
                BY <3>2, <3>3, <3>5, SumAdd
        <3>7. G(T) = g[y] + G(T \ {y})
            BY <3>1, FS_Subset, SumRemove
        <3>8. f[r[y]] = g[y]
            BY <3>1
        <3> QED
            BY <3>3, <3>4, <3>6, <3>7, <3>8
    <2> QED
        BY <2>1, <2>2
<1>2. \A T \in SUBSET S : T \in P
    <2> HIDE DEF P
    <2> QED
        BY <1>1, SubsetInduction
<1> QED
    BY <1>2
=============================================================================
