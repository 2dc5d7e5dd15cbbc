---------------------------- MODULE InductionLemmas ----------------------------
(***************************************************************************)
(* Induction without a parameter that is an operator: a set of natural     *)
(* numbers has a least element, so what fails has a first case.  From it   *)
(* follow the recursion equations of the folds and sums that the models    *)
(* use, each over functions.                                               *)
(***************************************************************************)
EXTENDS Integers, FiniteSets, FiniteSetsExt, Functions, SequencesExt, FiniteSetTheorems, WellFoundedInduction, TLAPS

\* Every nonempty set of natural numbers has a least element.
LEMMA LeastNat ==
    ASSUME NEW T \in SUBSET Nat, T # {}
    PROVE  \E n \in T : \A k \in T : n <= k
<1>1. PICK n \in T : \A k \in T : <<k, n>> \notin OpToRel(<, Nat)
  BY NatLessThanWellFounded, WFMin
<1>2. ASSUME NEW k \in T PROVE n <= k
  <2>1. ~(k < n)
    BY <1>1 DEF OpToRel
  <2> QED
    BY <2>1
<1> QED
  BY <1>2

\* Min is that element.
LEMMA MinOfNats ==
    ASSUME NEW T \in SUBSET Nat, T # {}
    PROVE  Min(T) \in T /\ \A k \in T : Min(T) <= k
<1>1. PICK n \in T : \A k \in T : n <= k
  BY LeastNat
<1> QED
  BY <1>1 DEF Min

\* The natural numbers up to last that are in T: all, when T has 0 and with each
\* number the next.
LEMMA UpTo ==
    ASSUME NEW last \in Nat, NEW T,
           0 \in T,
           \A k \in 0..(last - 1) : k \in T => k + 1 \in T
    PROVE  \A k \in 0..last : k \in T
<1> DEFINE Bad == {k \in 0..last : k \notin T}
<1>1. SUFFICES ASSUME Bad # {} PROVE FALSE
  OBVIOUS
<1>2. PICK n \in Bad : \A k \in Bad : n <= k
  <2>1. Bad \in SUBSET Nat
    OBVIOUS
  <2> HIDE DEF Bad
  <2> QED
    BY <1>1, <2>1, LeastNat
<1>3. n # 0 /\ n \in 1..last
  OBVIOUS
<1>4. n - 1 \in 0..(last - 1) /\ n - 1 \notin Bad
  BY <1>2, <1>3
<1> QED
  BY <1>3, <1>4

\* pick takes an element out of every nonempty subset of S.
Picks(pick, S) == \A s \in SUBSET S : s # {} => pick[s] \in s

\* g is what MapThenFoldSet computes for the subsets of S: base for the empty one,
\* for others what step makes of the element that is picked and of g of the rest.
Recurs(g, S, base, step, pick) ==
    \A s \in SUBSET S :
       g[s] = IF s = {} THEN base ELSE step[<<pick[s], g[s \ {pick[s]}]>>]

\* There is such a function.
LEMMA SubsetRecursion ==
    ASSUME NEW S, IsFiniteSet(S), NEW V, NEW base \in V, NEW step \in [S \X V -> V],
           NEW pick, Picks(pick, S)
    PROVE  \E g \in [SUBSET S -> V] : Recurs(g, S, base, step, pick)
<1> USE DEF Picks
<1> DEFINE Next(g, s) == IF s = {} THEN base ELSE step[<<pick[s], g[s \ {pick[s]}]>>]
           T == {k \in Nat : \E g \in [SUBSET S -> V] :
                               \A s \in SUBSET S : Cardinality(s) <= k => g[s] = Next(g, s)}
           last == Cardinality(S)
<1>1. \A s \in SUBSET S : IsFiniteSet(s) /\ Cardinality(s) \in Nat /\ Cardinality(s) <= last
  BY FS_Subset, FS_CardinalityType
<1>2. last \in Nat
  BY FS_CardinalityType
<1>3. \A s \in SUBSET S : s # {} => /\ s \ {pick[s]} \in SUBSET S
                                    /\ Cardinality(s \ {pick[s]}) = Cardinality(s) - 1
                                    /\ Cardinality(s) # 0
  BY <1>1, FS_RemoveElement, FS_EmptySet
<1>4. ASSUME NEW g \in [SUBSET S -> V] PROVE \A s \in SUBSET S : Next(g, s) \in V
  <2> TAKE s \in SUBSET S
  <2>1. CASE s = {}
    BY <2>1
  <2>2. CASE s # {}
    <3>1. pick[s] \in S /\ g[s \ {pick[s]}] \in V
      BY <1>3, <2>2
    <3> QED
      BY <2>2, <3>1
  <2> QED
    BY <2>1, <2>2
<1>5. 0 \in T
  <2> DEFINE g == [s \in SUBSET S |-> base]
  <2>1. g \in [SUBSET S -> V]
    OBVIOUS
  <2>2. ASSUME NEW s \in SUBSET S, Cardinality(s) <= 0 PROVE g[s] = Next(g, s)
    <3>1. s = {}
      BY <1>1, <1>3, <2>2, FS_EmptySet
    <3> QED
      BY <3>1
  <2> HIDE DEF g
  <2> QED
    BY <2>1, <2>2
<1>6. ASSUME NEW k \in 0..(last - 1), k \in T PROVE k + 1 \in T
  <2>1. PICK g \in [SUBSET S -> V] :
          \A s \in SUBSET S : Cardinality(s) <= k => g[s] = Next(g, s)
    BY <1>6
  <2> DEFINE h == [s \in SUBSET S |-> Next(g, s)]
  <2>2. h \in [SUBSET S -> V]
    BY <1>4
  <2>3. \A s \in SUBSET S : Cardinality(s) <= k => h[s] = g[s]
    BY <2>1
  <2>4. ASSUME NEW s \in SUBSET S, Cardinality(s) <= k + 1 PROVE h[s] = Next(h, s)
    <3>1. CASE s = {}
      BY <3>1
    <3>2. CASE s # {}
      <4> DEFINE r == s \ {pick[s]}
      <4>1. r \in SUBSET S /\ Cardinality(r) <= k
        BY <1>1, <1>2, <1>3, <2>4, <3>2
      <4>2. h[r] = g[r]
        BY <2>3, <4>1
      <4>3. h[s] = step[<<pick[s], g[r]>>]
        BY <3>2
      <4> HIDE DEF h
      <4> QED
        BY <3>2, <4>2, <4>3
    <3> QED
      BY <3>1, <3>2
  <2>5. k + 1 \in Nat
    BY <1>2
  <2> HIDE DEF h
  <2> QED
    BY <2>2, <2>4, <2>5
<1> HIDE DEF T
<1>7. last \in T
  BY <1>2, <1>5, <1>6, UpTo
<1> USE DEF T
<1>8. PICK g \in [SUBSET S -> V] : \A s \in SUBSET S : Cardinality(s) <= last => g[s] = Next(g, s)
  BY <1>7
<1>9. \A s \in SUBSET S : g[s] = Next(g, s)
  BY <1>1, <1>8
<1> QED
  BY <1>9 DEF Recurs

\* The greatest element of a set of numbers up to last.
LEMMA MaxOfInterval ==
    ASSUME NEW last \in Nat, NEW T \in SUBSET (1..last), T # {}
    PROVE  Max(T) \in T /\ \A k \in T : Max(T) >= k
<1> DEFINE R == {last - k : k \in T}
<1>1. R \in SUBSET Nat /\ R # {}
  <2>1. \A k \in T : last - k \in Nat
    OBVIOUS
  <2> QED
    BY <2>1
<1>2. PICK n \in R : \A k \in R : n <= k
  <2> HIDE DEF R
  <2> QED
    BY <1>1, LeastNat
<1>3. PICK m \in T : n = last - m
  OBVIOUS
<1>4. \A k \in T : m >= k
  <2> TAKE k \in T
  <2>1. n <= last - k
    BY <1>2
  <2> HIDE DEF R
  <2> QED
    BY <1>3, <2>1
<1> HIDE DEF R
<1> QED
  BY <1>3, <1>4 DEF Max

\* Of the first k numbers the last is taken.
LEMMA MaxOfRange ==
    ASSUME NEW k \in Nat, k > 0
    PROVE  Max(1..k) = k /\ (1..k) \ {k} = 1..(k - 1)
<1>1. 1..k \in SUBSET (1..k) /\ 1..k # {}
  OBVIOUS
<1>2. Max(1..k) \in 1..k /\ \A j \in 1..k : Max(1..k) >= j
  BY <1>1, MaxOfInterval
<1> QED
  BY <1>2

\* g is a fold over sets of the numbers up to last: base for the empty set, for
\* others what step makes of the last number and of the rest.
FoldsUp(g, last, V, base, step) ==
    /\ g[{}] = base
    /\ \A x \in SUBSET (1..last) : x # {} =>
          /\ Max(x) \in 1..last
          /\ g[x \ {Max(x)}] \in V
          /\ g[x] = step[<<Max(x), g[x \ {Max(x)}]>>]

\* There is such a function.
LEMMA FoldRecursion ==
    ASSUME NEW last \in Nat, NEW V, NEW base \in V, NEW step \in [(1..last) \X V -> V]
    PROVE  \E g \in [SUBSET (1..last) -> V] : FoldsUp(g, last, V, base, step)
<1> DEFINE D == 1..last
           pick == [x \in SUBSET D |-> Max(x)]
<1>1. IsFiniteSet(D) /\ step \in [D \X V -> V]
  BY FS_Interval
<1>2. Picks(pick, D)
  BY MaxOfInterval DEF Picks
<1>3. PICK g \in [SUBSET D -> V] : Recurs(g, D, base, step, pick)
  <2> HIDE DEF D, pick
  <2> QED
    BY <1>1, <1>2, SubsetRecursion
<1>4. g[{}] = base
  BY <1>3 DEF Recurs
<1>5. ASSUME NEW x \in SUBSET D, x # {}
      PROVE  Max(x) \in D /\ g[x \ {Max(x)}] \in V /\ g[x] = step[<<Max(x), g[x \ {Max(x)}]>>]
  <2>1. pick[x] = Max(x) /\ pick[x] \in D
    BY <1>2, <1>5 DEF Picks
  <2> HIDE DEF pick
  <2>2. g[x] = step[<<pick[x], g[x \ {pick[x]}]>>]
    BY <1>3, <1>5 DEF Recurs
  <2> QED
    BY <2>1, <2>2
<1> QED
  BY <1>4, <1>5 DEF FoldsUp

\* f is defined for each number by the one before.
StepsUp(f, last, base, step) ==
    /\ f[0] = base
    /\ \A k \in 1..last : f[k] = step[<<k, f[k - 1]>>]

\* There is such a function.
LEMMA IntervalRecursion ==
    ASSUME NEW last \in Nat, NEW V, NEW base \in V, NEW step \in [(1..last) \X V -> V]
    PROVE  \E f \in [0..last -> V] : StepsUp(f, last, base, step)
<1>1. PICK g \in [SUBSET (1..last) -> V] : FoldsUp(g, last, V, base, step)
  BY FoldRecursion
<1> DEFINE f == [k \in 0..last |-> g[1..k]]
<1>2. \A k \in 0..last : 1..k \in SUBSET (1..last)
  OBVIOUS
<1>3. f \in [0..last -> V]
  BY <1>2
<1>4. f[0] = base
  <2>1. f[0] = g[{}]
    OBVIOUS
  <2> HIDE DEF f
  <2> QED
    BY <1>1, <2>1 DEF FoldsUp
<1>5. ASSUME NEW k \in 1..last PROVE f[k] = step[<<k, f[k - 1]>>]
  <2>1. /\ 1..k \in SUBSET (1..last) /\ 1..k # {} /\ Max(1..k) = k
        /\ (1..k) \ {k} = 1..(k - 1) /\ k - 1 \in 0..last
    BY MaxOfRange
  <2>2. g[1..k] = step[<<k, g[1..(k - 1)]>>]
    BY <1>1, <2>1 DEF FoldsUp
  <2>3. f[k] = g[1..k] /\ f[k - 1] = g[1..(k - 1)]
    BY <2>1
  <2> HIDE DEF f
  <2> QED
    BY <2>2, <2>3
<1> HIDE DEF f
<1> QED
  BY <1>3, <1>4, <1>5 DEF StepsUp

-----------------------------------------------------------------------------
(* Sums over sets.                                                         *)

\* g is what MapThenSumSet computes of f for the subsets of S.
SumsUp(g, f, S) ==
    \A s \in SUBSET S :
       g[s] = IF s = {} THEN 0
              ELSE f[CHOOSE x \in s : TRUE] + g[s \ {CHOOSE x \in s : TRUE}]

\* g is the sum of f over the subsets of S, in whatever order they are gone through.
Sums(g, f, S) ==
    /\ g[{}] = 0
    /\ \A s \in SUBSET S : \A x \in s : g[s] = f[x] + g[s \ {x}]

\* The order does not matter.
LEMMA AnyOrder ==
    ASSUME NEW S, IsFiniteSet(S), NEW f \in [S -> Nat], NEW g \in [SUBSET S -> Nat],
           SumsUp(g, f, S)
    PROVE  Sums(g, f, S)
<1> DEFINE P(s) == \A x \in s : g[s] = f[x] + g[s \ {x}]
           T == {k \in Nat : \A s \in SUBSET S : Cardinality(s) <= k => P(s)}
           last == Cardinality(S)
<1>1. \A s \in SUBSET S : IsFiniteSet(s) /\ Cardinality(s) \in Nat /\ Cardinality(s) <= last
  BY FS_Subset, FS_CardinalityType
<1>2. last \in Nat
  BY FS_CardinalityType
<1>3. \A s \in SUBSET S : \A x \in s : /\ s \ {x} \in SUBSET S
                                       /\ Cardinality(s \ {x}) = Cardinality(s) - 1
  BY <1>1, FS_RemoveElement
<1>4. 0 \in T
  <2>1. ASSUME NEW s \in SUBSET S, Cardinality(s) <= 0 PROVE P(s)
    <3>1. s = {}
      BY <1>1, <2>1, FS_EmptySet
    <3> QED
      BY <3>1
  <2> QED
    BY <2>1
<1>5. ASSUME NEW k \in 0..(last - 1), k \in T PROVE k + 1 \in T
  <2>1. ASSUME NEW s \in SUBSET S, Cardinality(s) <= k + 1, NEW x \in s
        PROVE  g[s] = f[x] + g[s \ {x}]
    <3> DEFINE y == CHOOSE z \in s : TRUE
    <3>1. y \in s /\ s # {} /\ x \in S /\ y \in S
      OBVIOUS
    <3>2. g[s] = f[y] + g[s \ {y}]
      BY <3>1 DEF SumsUp
    <3> HIDE DEF y
    <3>3. CASE x = y
      BY <3>2, <3>3
    <3>4. CASE x # y
      <4> DEFINE a == s \ {x}
                 b == s \ {y}
                 c == s \ {x, y}
      <4>1. a \in SUBSET S /\ b \in SUBSET S /\ c \in SUBSET S /\ y \in a /\ x \in b
            /\ a \ {y} = c /\ b \ {x} = c
        BY <3>1, <3>4
      <4>2. Cardinality(a) <= k /\ Cardinality(b) <= k
        BY <1>1, <1>2, <1>3, <2>1, <3>1
      <4> HIDE DEF a, b, c
      <4>3. g[a] = f[y] + g[c] /\ g[b] = f[x] + g[c]
        BY <1>5, <4>1, <4>2
      <4>4. f[x] \in Nat /\ f[y] \in Nat /\ g[c] \in Nat
        BY <3>1, <4>1
      <4>5. g[s] = f[x] + g[a]
        BY <3>2, <4>3, <4>4 DEF b
      <4> QED
        BY <4>5 DEF a
    <3> QED
      BY <3>3, <3>4
  <2>2. k + 1 \in Nat
    BY <1>2
  <2> QED
    BY <2>1, <2>2
<1> HIDE DEF T
<1>6. last \in T
  BY <1>2, <1>4, <1>5, UpTo
<1>7. \A s \in SUBSET S : P(s)
  BY <1>1, <1>6 DEF T
<1>8. g[{}] = 0
  BY DEF SumsUp
<1> QED
  BY <1>7, <1>8 DEF Sums

\* There is a sum.
LEMMA SumExists ==
    ASSUME NEW S, IsFiniteSet(S), NEW f \in [S -> Nat]
    PROVE  \E g \in [SUBSET S -> Nat] : SumsUp(g, f, S) /\ Sums(g, f, S)
<1> DEFINE pick == [s \in SUBSET S |-> CHOOSE x \in s : TRUE]
           step == [p \in S \X Nat |-> f[p[1]] + p[2]]
<1>1. Picks(pick, S)
  BY DEF Picks
<1>2. step \in [S \X Nat -> Nat]
  OBVIOUS
<1>3. 0 \in Nat
  OBVIOUS
<1> HIDE DEF pick, step
<1>4. PICK g \in [SUBSET S -> Nat] : Recurs(g, S, 0, step, pick)
  BY <1>1, <1>2, <1>3, SubsetRecursion
<1>5. SumsUp(g, f, S)
  <2>1. ASSUME NEW s \in SUBSET S, s # {}
        PROVE  g[s] = f[CHOOSE x \in s : TRUE] + g[s \ {CHOOSE x \in s : TRUE}]
    <3> DEFINE y == CHOOSE x \in s : TRUE
               r == g[s \ {y}]
    <3>1. pick[s] = y
      BY DEF pick
    <3>2. y \in S /\ s \ {y} \in SUBSET S
      BY <2>1
    <3> HIDE DEF y
    <3>3. r \in Nat
      BY <3>2
    <3>4. g[s] = step[<<y, r>>]
      BY <1>4, <2>1, <3>1 DEF Recurs
    <3> HIDE DEF r
    <3>5. step[<<y, r>>] = f[y] + r
      BY <3>2, <3>3 DEF step
    <3> QED
      BY <3>4, <3>5 DEF y, r
  <2>2. g[{}] = 0
    BY <1>4 DEF Recurs
  <2> QED
    BY <2>1, <2>2 DEF SumsUp
<1>6. Sums(g, f, S)
  BY <1>5, AnyOrder
<1> QED
  BY <1>5, <1>6

\* There is only one: what is computed for s alone is what is computed for S.
LEMMA SumIsUnique ==
    ASSUME NEW S, IsFiniteSet(S), NEW f \in [S -> Nat], NEW g \in [SUBSET S -> Nat],
           SumsUp(g, f, S), NEW s \in SUBSET S, NEW h, SumsUp(h, f, s)
    PROVE  h[s] = g[s]
<1> DEFINE T == {k \in Nat : \A r \in SUBSET s : Cardinality(r) <= k => h[r] = g[r]}
           last == Cardinality(s)
<1>1. \A r \in SUBSET s : IsFiniteSet(r) /\ Cardinality(r) \in Nat /\ Cardinality(r) <= last
  <2>1. IsFiniteSet(s)
    BY FS_Subset
  <2> QED
    BY <2>1, FS_Subset, FS_CardinalityType
<1>2. last \in Nat
  BY <1>1
<1>3. \A r \in SUBSET s : \A x \in r : Cardinality(r \ {x}) = Cardinality(r) - 1
  BY <1>1, FS_RemoveElement
<1>4. h[{}] = 0 /\ g[{}] = 0
  BY DEF SumsUp
<1>5. 0 \in T
  <2>1. ASSUME NEW r \in SUBSET s, Cardinality(r) <= 0 PROVE h[r] = g[r]
    <3>1. r = {}
      BY <1>1, <2>1, FS_EmptySet
    <3> QED
      BY <1>4, <3>1
  <2> QED
    BY <2>1
<1>6. ASSUME NEW k \in 0..(last - 1), k \in T PROVE k + 1 \in T
  <2>1. ASSUME NEW r \in SUBSET s, Cardinality(r) <= k + 1 PROVE h[r] = g[r]
    <3>1. CASE r = {}
      BY <1>4, <3>1
    <3>2. CASE r # {}
      <4> DEFINE y == CHOOSE x \in r : TRUE
                 q == r \ {y}
      <4>1. y \in r /\ q \in SUBSET s /\ r \in SUBSET S
        BY <3>2
      <4>2. h[r] = f[y] + h[q] /\ g[r] = f[y] + g[q]
        BY <3>2, <4>1 DEF SumsUp
      <4>3. Cardinality(q) <= k
        <5>1. Cardinality(q) = Cardinality(r) - 1
          BY <1>3, <4>1
        <5> QED
          BY <1>1, <1>2, <2>1, <5>1
      <4> HIDE DEF y, q
      <4>4. h[q] = g[q]
        BY <1>6, <4>1, <4>3
      <4> QED
        BY <4>2, <4>4
    <3> QED
      BY <3>1, <3>2
  <2>2. k + 1 \in Nat
    BY <1>2
  <2> QED
    BY <2>1, <2>2
<1> HIDE DEF T
<1>7. last \in T
  BY <1>2, <1>5, <1>6, UpTo
<1> QED
  BY <1>1, <1>7 DEF T

\* SumFunction computes the sum of a function.
LEMMA SumOfFunction ==
    ASSUME NEW S, IsFiniteSet(S), NEW f \in [S -> Nat], NEW g \in [SUBSET S -> Nat],
           SumsUp(g, f, S)
    PROVE  SumFunction(f) = g[S]
<1> DEFINE Body(it, r) == IF r = {} THEN 0
                          ELSE f[CHOOSE x \in r : TRUE] + it[r \ {CHOOSE x \in r : TRUE}]
           iter == CHOOSE it : it = [r \in SUBSET (DOMAIN f) |-> Body(it, r)]
<1>1. SumFunction(f) = iter[DOMAIN f]
  BY DEF SumFunction, SumFunctionOnSet, FoldFunctionOnSet, MapThenFoldSet
<1>2. DOMAIN f = S
  OBVIOUS
<1>3. \A r \in SUBSET S : g[r] = Body(g, r)
  BY DEF SumsUp
<1>4. g = [r \in SUBSET (DOMAIN f) |-> Body(g, r)]
  BY <1>2, <1>3
<1>5. iter = [r \in SUBSET (DOMAIN f) |-> Body(iter, r)]
  BY <1>4
<1> HIDE DEF iter
<1>6. \A r \in SUBSET S : iter[r] = Body(iter, r)
  BY <1>2, <1>5
<1>7. SumsUp(iter, f, S) /\ S \in SUBSET S
  BY <1>6 DEF SumsUp
<1> QED
  BY <1>1, <1>2, <1>7, SumIsUnique

\* g of two sets that have nothing in common is the sum of g of each.
Splits(g, S) == \A a, b \in SUBSET S : a \cap b = {} => g[a \cup b] = g[a] + g[b]

LEMMA SumOfUnion ==
    ASSUME NEW S, IsFiniteSet(S), NEW f \in [S -> Nat], NEW g \in [SUBSET S -> Nat],
           Sums(g, f, S)
    PROVE  Splits(g, S)
<1> SUFFICES ASSUME NEW a \in SUBSET S, NEW b \in SUBSET S, a \cap b = {}
             PROVE  g[a \cup b] = g[a] + g[b]
  BY DEF Splits
<1> DEFINE P(c) == g[a \cup c] = g[a] + g[c]
           T == {k \in Nat : \A c \in SUBSET b : Cardinality(c) <= k => P(c)}
           last == Cardinality(b)
<1>1. \A c \in SUBSET b : IsFiniteSet(c) /\ Cardinality(c) \in Nat /\ Cardinality(c) <= last
  <2>1. IsFiniteSet(b)
    BY FS_Subset
  <2> QED
    BY <2>1, FS_Subset, FS_CardinalityType
<1>2. last \in Nat
  BY <1>1
<1>3. \A c \in SUBSET b : \A x \in c : Cardinality(c \ {x}) = Cardinality(c) - 1
  BY <1>1, FS_RemoveElement
<1>4. P({})
  <2>1. a \cup {} = a /\ g[{}] = 0 /\ g[a] \in Nat
    BY DEF Sums
  <2> QED
    BY <2>1
<1>5. 0 \in T
  <2>1. ASSUME NEW c \in SUBSET b, Cardinality(c) <= 0 PROVE P(c)
    <3>1. c = {}
      BY <1>1, <2>1, FS_EmptySet
    <3> HIDE DEF P
    <3> QED
      BY <1>4, <3>1
  <2> QED
    BY <2>1
<1>6. ASSUME NEW k \in 0..(last - 1), k \in T PROVE k + 1 \in T
  <2>1. ASSUME NEW c \in SUBSET b, Cardinality(c) <= k + 1, c # {} PROVE P(c)
    <3>1. PICK x \in c : TRUE
      BY <2>1
    <3> DEFINE d == c \ {x}
               u == a \cup c
               v == a \cup d
    <3>2. /\ d \in SUBSET b /\ d \in SUBSET S /\ c \in SUBSET S /\ u \in SUBSET S /\ v \in SUBSET S
          /\ x \in c /\ x \in u /\ u \ {x} = v /\ x \in S
      BY <3>1
    <3>3. Cardinality(d) <= k
      <4>1. Cardinality(d) = Cardinality(c) - 1
        BY <1>3, <3>1
      <4> QED
        BY <1>1, <1>2, <2>1, <4>1
    <3>4. g[v] = g[a] + g[d]
      BY <1>6, <3>2, <3>3
    <3>5. g[c] = f[x] + g[d]
      BY <3>2 DEF Sums
    <3>6. g[u] = f[x] + g[v]
      <4> HIDE DEF u, v
      <4> QED
        BY <3>2 DEF Sums
    <3>7. f[x] \in Nat /\ g[d] \in Nat /\ g[v] \in Nat /\ g[a] \in Nat
      BY <3>2
    <3> HIDE DEF d, v
    <3>8. g[u] = g[a] + g[c]
      BY <3>4, <3>5, <3>6, <3>7
    <3> QED
      BY <3>8
  <2>2. \A c \in SUBSET b : Cardinality(c) <= k + 1 => P(c)
    <3> HIDE DEF P
    <3> QED
      BY <1>4, <2>1
  <2>3. k + 1 \in Nat
    BY <1>2
  <2> HIDE DEF P
  <2> QED
    BY <2>2, <2>3
<1> HIDE DEF T
<1>7. last \in T
  BY <1>2, <1>5, <1>6, UpTo
<1> QED
  BY <1>1, <1>7 DEF T

\* Counting is summing up ones.
LEMMA SumOfOnes ==
    ASSUME NEW S, IsFiniteSet(S), NEW g \in [SUBSET S -> Nat], Sums(g, [x \in S |-> 1], S)
    PROVE  \A s \in SUBSET S : g[s] = Cardinality(s)
<1> DEFINE P(s) == g[s] = Cardinality(s)
           T == {k \in Nat : \A s \in SUBSET S : Cardinality(s) <= k => P(s)}
           last == Cardinality(S)
<1>1. \A s \in SUBSET S : IsFiniteSet(s) /\ Cardinality(s) \in Nat /\ Cardinality(s) <= last
  BY FS_Subset, FS_CardinalityType
<1>2. last \in Nat
  BY FS_CardinalityType
<1>3. \A s \in SUBSET S : \A x \in s : Cardinality(s \ {x}) = Cardinality(s) - 1
  BY <1>1, FS_RemoveElement
<1>4. P({})
  BY FS_EmptySet DEF Sums
<1>5. 0 \in T
  <2>1. ASSUME NEW s \in SUBSET S, Cardinality(s) <= 0 PROVE P(s)
    <3>1. s = {}
      BY <1>1, <2>1, FS_EmptySet
    <3> HIDE DEF P
    <3> QED
      BY <1>4, <3>1
  <2> QED
    BY <2>1
<1>6. ASSUME NEW k \in 0..(last - 1), k \in T PROVE k + 1 \in T
  <2>1. ASSUME NEW s \in SUBSET S, Cardinality(s) <= k + 1, s # {} PROVE P(s)
    <3>1. PICK x \in s : TRUE
      BY <2>1
    <3> DEFINE r == s \ {x}
    <3>2. r \in SUBSET S /\ Cardinality(r) = Cardinality(s) - 1 /\ x \in S
      BY <1>3, <3>1
    <3>3. Cardinality(r) <= k /\ Cardinality(s) \in Nat /\ Cardinality(r) \in Nat
      BY <1>1, <1>2, <2>1, <3>2
    <3>4. g[r] = Cardinality(r)
      BY <1>6, <3>2, <3>3
    <3>5. g[s] = 1 + g[r]
      BY <3>1, <3>2 DEF Sums
    <3> HIDE DEF r
    <3> QED
      BY <3>2, <3>3, <3>4, <3>5
  <2>2. \A s \in SUBSET S : Cardinality(s) <= k + 1 => P(s)
    <3> HIDE DEF P
    <3> QED
      BY <1>4, <2>1
  <2>3. k + 1 \in Nat
    BY <1>2
  <2> HIDE DEF P
  <2> QED
    BY <2>2, <2>3
<1> HIDE DEF T
<1>7. last \in T
  BY <1>2, <1>5, <1>6, UpTo
<1> QED
  BY <1>1, <1>7 DEF T

\* The sum of f over s.
Total(f, s) == SumFunction([x \in s |-> f[x]])

Totals(g, f, S) == Sums(g, f, S) /\ \A s \in SUBSET S : Total(f, s) = g[s]

LEMMA TotalSums ==
    ASSUME NEW S, IsFiniteSet(S), NEW f \in [S -> Nat]
    PROVE  \E g \in [SUBSET S -> Nat] : Totals(g, f, S)
<1>1. PICK g \in [SUBSET S -> Nat] : SumsUp(g, f, S) /\ Sums(g, f, S)
  BY SumExists
<1>2. ASSUME NEW s \in SUBSET S, NEW k, SumsUp(k, f, s) PROVE k[s] = g[s]
  BY <1>1, <1>2, SumIsUnique
<1>3. ASSUME NEW s \in SUBSET S PROVE Total(f, s) = g[s]
  <2> DEFINE e == [x \in s |-> f[x]]
  <2>1. IsFiniteSet(s) /\ e \in [s -> Nat]
    BY FS_Subset
  <2>2. \A x \in s : e[x] = f[x]
    OBVIOUS
  <2>3. Total(f, s) = SumFunction(e)
    BY DEF Total
  <2> HIDE DEF e
  <2>4. PICK h \in [SUBSET s -> Nat] : SumsUp(h, e, s)
    BY <2>1, SumExists
  <2>5. SumFunction(e) = h[s]
    BY <2>1, <2>4, SumOfFunction
  <2>6. SumsUp(h, f, s)
    <3>1. ASSUME NEW r \in SUBSET s
          PROVE  h[r] = IF r = {} THEN 0
                        ELSE f[CHOOSE x \in r : TRUE] + h[r \ {CHOOSE x \in r : TRUE}]
      <4>1. CASE r = {}
        BY <2>4, <4>1 DEF SumsUp
      <4>2. CASE r # {}
        <5> DEFINE y == CHOOSE x \in r : TRUE
        <5>1. y \in s
          BY <4>2
        <5>2. h[r] = e[y] + h[r \ {y}]
          BY <2>4, <4>2 DEF SumsUp
        <5> QED
          BY <2>2, <4>2, <5>1, <5>2
      <4> QED
        BY <4>1, <4>2
    <3> QED
      BY <3>1 DEF SumsUp
  <2>7. h[s] = g[s]
    BY <1>2, <2>6
  <2> QED
    BY <2>3, <2>5, <2>7
<1> QED
  BY <1>1, <1>3 DEF Totals

LEMMA TotalIsNat ==
    ASSUME NEW S, IsFiniteSet(S), NEW f \in [S -> Nat]
    PROVE  Total(f, S) \in Nat /\ Total(f, {}) = 0
<1>1. PICK g \in [SUBSET S -> Nat] : Totals(g, f, S)
  BY TotalSums
<1>2. g[S] \in Nat /\ g[{}] = 0
  BY <1>1 DEF Totals, Sums
<1> QED
  <2>1. S \in SUBSET S /\ {} \in SUBSET S
    OBVIOUS
  <2> QED
    BY <1>1, <1>2, <2>1 DEF Totals

\* The total over a single element.
LEMMA TotalOfOne ==
    ASSUME NEW S, IsFiniteSet(S), NEW f \in [S -> Nat], NEW x \in S
    PROVE  Total(f, {x}) = f[x]
<1>1. PICK g \in [SUBSET S -> Nat] : Totals(g, f, S)
  BY TotalSums
<1>2. Total(f, {x}) = g[{x}]
  BY <1>1 DEF Totals
<1>3. {x} \ {x} = {} /\ {x} \in SUBSET S /\ x \in {x}
  OBVIOUS
<1>4. g[{}] = 0 /\ g[{x}] = f[x] + g[{}]
  <2>1. g[{x}] = f[x] + g[{x} \ {x}]
    BY <1>1, <1>3 DEF Totals, Sums
  <2>2. g[{}] = 0
    BY <1>1 DEF Totals, Sums
  <2> QED
    BY <1>3, <2>1, <2>2
<1>5. f[x] \in Nat
  OBVIOUS
<1> QED
  BY <1>2, <1>4, <1>5

\* part has the totals over the parts into which key divides a set.
PartsTotal(part, f, S, K, key) == \A k \in K : part[k] = Total(f, {x \in S : key[x] = k})

\* Their total is the total over the set.
LEMMA TotalOfParts ==
    ASSUME NEW S, IsFiniteSet(S), NEW f \in [S -> Nat],
           NEW K, IsFiniteSet(K), NEW key \in [S -> K],
           NEW part \in [K -> Nat], PartsTotal(part, f, S, K, key)
    PROVE  Total(part, K) = Total(f, S)
<1>1. PICK g \in [SUBSET S -> Nat] : Totals(g, f, S)
  BY TotalSums
<1>2. PICK h \in [SUBSET K -> Nat] : Totals(h, part, K)
  BY TotalSums
<1>3. Sums(g, f, S) /\ Sums(h, part, K)
  BY <1>1, <1>2 DEF Totals
<1>4. \A k \in K : part[k] = g[{x \in S : key[x] = k}]
  BY <1>1 DEF Totals, PartsTotal
<1>5. S \in SUBSET S /\ K \in SUBSET K
  OBVIOUS
<1> DEFINE Of(l) == {x \in S : key[x] \in l}
           P(l) == h[l] = g[Of(l)]
           T == {k \in Nat : \A l \in SUBSET K : Cardinality(l) <= k => P(l)}
           last == Cardinality(K)
<1>6. \A a, b \in SUBSET S : a \cap b = {} => g[a \cup b] = g[a] + g[b]
  <2>1. Splits(g, S)
    BY <1>3, SumOfUnion
  <2> QED
    BY <2>1 DEF Splits
<1>7. \A l \in SUBSET K : IsFiniteSet(l) /\ Cardinality(l) \in Nat /\ Cardinality(l) <= last
  BY FS_Subset, FS_CardinalityType
<1>8. last \in Nat
  BY <1>7
<1>9. \A l \in SUBSET K : \A x \in l : Cardinality(l \ {x}) = Cardinality(l) - 1
  BY <1>7, FS_RemoveElement
<1>10. P({})
  <2>1. Of({}) = {} /\ g[{}] = 0 /\ h[{}] = 0
    BY <1>3 DEF Sums
  <2> QED
    BY <2>1
<1>11. 0 \in T
  <2>1. ASSUME NEW l \in SUBSET K, Cardinality(l) <= 0 PROVE P(l)
    <3>1. l = {}
      BY <1>7, <2>1, FS_EmptySet
    <3> HIDE DEF P
    <3> QED
      BY <1>10, <3>1
  <2> QED
    BY <2>1
<1>12. ASSUME NEW k \in 0..(last - 1), k \in T PROVE k + 1 \in T
  <2>1. ASSUME NEW l \in SUBSET K, Cardinality(l) <= k + 1, l # {} PROVE P(l)
    <3>1. PICK y \in l : TRUE
      BY <2>1
    <3> DEFINE m == l \ {y}
               a == Of(m)
               b == {x \in S : key[x] = y}
    <3>2. /\ m \in SUBSET K /\ l \in SUBSET K /\ y \in K /\ y \in l
          /\ a \in SUBSET S /\ b \in SUBSET S /\ a \cap b = {} /\ Of(l) = a \cup b
      BY <3>1
    <3>3. Cardinality(m) <= k
      <4>1. Cardinality(m) = Cardinality(l) - 1
        BY <1>9, <3>1
      <4> QED
        BY <1>7, <1>8, <2>1, <4>1
    <3>4. h[m] = g[a]
      BY <1>12, <3>2, <3>3
    <3>5. h[l] = part[y] + h[m]
      <4> HIDE DEF m
      <4>1. m = l \ {y}
        BY DEF m
      <4> QED
        BY <1>3, <3>2, <4>1 DEF Sums
    <3>6. part[y] = g[b]
      BY <1>4, <3>2
    <3> HIDE DEF m, a, b
    <3>7. g[a \cup b] = g[a] + g[b] /\ g[a] \in Nat /\ g[b] \in Nat
      <4>1. g[a] \in Nat /\ g[b] \in Nat
        BY <3>2
      <4>2. a \in SUBSET S /\ b \in SUBSET S /\ a \cap b = {}
        BY <3>2
      <4>3. g[a \cup b] = g[a] + g[b]
        BY <1>6, <4>2
      <4> QED
        BY <4>1, <4>3
    <3>8. h[l] = g[Of(l)]
      <4> HIDE DEF Of
      <4> QED
        BY <3>2, <3>4, <3>5, <3>6, <3>7
    <3> QED
      BY <3>8
  <2>2. \A l \in SUBSET K : Cardinality(l) <= k + 1 => P(l)
    <3> HIDE DEF P
    <3> QED
      BY <1>10, <2>1
  <2>3. k + 1 \in Nat
    BY <1>8
  <2> HIDE DEF P
  <2> QED
    BY <2>2, <2>3
<1> HIDE DEF T
<1>13. last \in T
  BY <1>8, <1>11, <1>12, UpTo
<1>14. P(K)
  <2> HIDE DEF P
  <2> QED
    BY <1>7, <1>13 DEF T
<1>15. Of(K) = S
  OBVIOUS
<1> HIDE DEF Of
<1> QED
  BY <1>14, <1>15, <1>1, <1>2, <1>5 DEF Totals

\* key names the elements of S by those of K, and has what is true of S true of K.
Renames(key, S, K, f, part) ==
    /\ \A k \in K : \E x \in S : key[x] = k
    /\ \A x, y \in S : key[x] = key[y] => x = y
    /\ \A x \in S : part[key[x]] = f[x]

\* The total stays the same.
LEMMA TotalRenamed ==
    ASSUME NEW S, IsFiniteSet(S), NEW f \in [S -> Nat],
           NEW K, IsFiniteSet(K), NEW key \in [S -> K],
           NEW part \in [K -> Nat], Renames(key, S, K, f, part)
    PROVE  Total(part, K) = Total(f, S)
<1>1. ASSUME NEW k \in K PROVE part[k] = Total(f, {x \in S : key[x] = k})
  <2>1. PICK x \in S : key[x] = k
    BY DEF Renames
  <2>2. {y \in S : key[y] = k} = {x}
    BY <2>1 DEF Renames
  <2>3. part[k] = f[x]
    BY <2>1 DEF Renames
  <2>4. Total(f, {x}) = f[x]
    BY TotalOfOne
  <2> QED
    BY <2>2, <2>3, <2>4
<1>2. PartsTotal(part, f, S, K, key)
  BY <1>1 DEF PartsTotal
<1> QED
  BY <1>2, TotalOfParts

\* Counting is totalling ones.
LEMMA TotalOfOnes ==
    ASSUME NEW S, IsFiniteSet(S)
    PROVE  \A s \in SUBSET S : Total([x \in S |-> 1], s) = Cardinality(s)
<1> DEFINE f == [x \in S |-> 1]
<1>1. f \in [S -> Nat]
  OBVIOUS
<1>2. PICK g \in [SUBSET S -> Nat] : Totals(g, f, S)
  <2> HIDE DEF f
  <2> QED
    BY <1>1, TotalSums
<1>3. \A s \in SUBSET S : g[s] = Cardinality(s)
  BY <1>2, SumOfOnes DEF Totals
<1> QED
  BY <1>2, <1>3 DEF Totals

-----------------------------------------------------------------------------
(* Orders.                                                                 *)

\* In a finite set there is an element with the least key.
LEMMA LeastKey ==
    ASSUME NEW S, IsFiniteSet(S), S # {}, NEW key \in [S -> Int]
    PROVE  \E x \in S : \A y \in S : key[x] <= key[y]
<1> DEFINE Has(s) == s # {} => \E x \in s : \A y \in s : key[x] <= key[y]
           T == {k \in Nat : \A s \in SUBSET S : Cardinality(s) <= k => Has(s)}
           last == Cardinality(S)
<1>1. \A s \in SUBSET S : IsFiniteSet(s) /\ Cardinality(s) \in Nat /\ Cardinality(s) <= last
  BY FS_Subset, FS_CardinalityType
<1>2. last \in Nat
  BY FS_CardinalityType
<1>3. \A s \in SUBSET S : \A x \in s : Cardinality(s \ {x}) = Cardinality(s) - 1
  BY <1>1, FS_RemoveElement
<1>4. 0 \in T
  <2>1. ASSUME NEW s \in SUBSET S, Cardinality(s) <= 0 PROVE Has(s)
    <3>1. s = {}
      BY <1>1, <2>1, FS_EmptySet
    <3> QED
      BY <3>1
  <2> QED
    BY <2>1
<1>5. ASSUME NEW k \in 0..(last - 1), k \in T PROVE k + 1 \in T
  <2>1. ASSUME NEW s \in SUBSET S, Cardinality(s) <= k + 1, s # {}
        PROVE  \E x \in s : \A y \in s : key[x] <= key[y]
    <3>1. PICK z \in s : TRUE
      BY <2>1
    <3> DEFINE r == s \ {z}
    <3>2. r \in SUBSET S /\ Cardinality(r) <= k
      <4>1. Cardinality(r) = Cardinality(s) - 1
        BY <1>3
      <4> QED
        BY <1>1, <1>2, <2>1, <4>1
    <3>3. CASE r = {}
      BY <3>3
    <3>4. CASE r # {}
      <4>1. PICK x \in r : \A y \in r : key[x] <= key[y]
        BY <1>5, <3>2, <3>4
      <4>2. x \in s /\ key[x] \in Int /\ key[z] \in Int /\ \A y \in s : key[y] \in Int
        BY <4>1
      <4>3. CASE key[x] <= key[z]
        BY <4>1, <4>2, <4>3
      <4>4. CASE key[z] <= key[x]
        BY <4>1, <4>2, <4>4
      <4> QED
        BY <4>2, <4>3, <4>4
    <3> QED
      BY <3>3, <3>4
  <2>2. k + 1 \in Nat
    BY <1>2
  <2> QED
    BY <2>1, <2>2
<1> HIDE DEF T
<1>6. last \in T
  BY <1>2, <1>4, <1>5, UpTo
<1> QED
  BY <1>1, <1>6 DEF T

\* f goes through S by descending key.
Descends(f, S, key) ==
    /\ f \in SetToSeqs(S)
    /\ \A i, j \in DOMAIN f : i < j => key[f[i]] >= key[f[j]]

\* A finite set can be gone through that way.
LEMMA DescentExists ==
    ASSUME NEW S, IsFiniteSet(S), NEW key \in [S -> Int]
    PROVE  \E f : Descends(f, S, key)
<1> DEFINE Has(s) == \E f \in [1..Cardinality(s) -> s] :
                        \A i, j \in 1..Cardinality(s) :
                           /\ i # j => f[i] # f[j]
                           /\ i < j => key[f[i]] >= key[f[j]]
           T == {k \in Nat : \A s \in SUBSET S : Cardinality(s) <= k => Has(s)}
           last == Cardinality(S)
<1>1. \A s \in SUBSET S : IsFiniteSet(s) /\ Cardinality(s) \in Nat /\ Cardinality(s) <= last
  BY FS_Subset, FS_CardinalityType
<1>2. last \in Nat
  BY FS_CardinalityType
<1>3. \A s \in SUBSET S : \A x \in s : Cardinality(s \ {x}) = Cardinality(s) - 1
  BY <1>1, FS_RemoveElement
<1>4. Has({})
  <2>1. Cardinality({}) = 0
    BY FS_EmptySet
  <2>2. << >> \in [1..0 -> {}]
    OBVIOUS
  <2> QED
    BY <2>1, <2>2
<1>5. 0 \in T
  <2>1. ASSUME NEW s \in SUBSET S, Cardinality(s) <= 0 PROVE Has(s)
    <3>1. s = {}
      BY <1>1, <2>1, FS_EmptySet
    <3> HIDE DEF Has
    <3> QED
      BY <1>4, <3>1
  <2> HIDE DEF Has
  <2> QED
    BY <2>1
<1>6. ASSUME NEW k \in 0..(last - 1), k \in T PROVE k + 1 \in T
  <2>1. ASSUME NEW s \in SUBSET S, Cardinality(s) <= k + 1, s # {} PROVE Has(s)
    <3>1. IsFiniteSet(s) /\ \A y \in s : key[y] \in Int
      BY <1>1
    <3>2. PICK x \in s : \A y \in s : key[x] <= key[y]
      <4> DEFINE c == [y \in s |-> key[y]]
      <4>1. c \in [s -> Int]
        BY <3>1
      <4>2. \A y \in s : c[y] = key[y]
        OBVIOUS
      <4> HIDE DEF c
      <4>3. \E x \in s : \A y \in s : c[x] <= c[y]
        BY <2>1, <3>1, <4>1, LeastKey
      <4> QED
        BY <4>2, <4>3
    <3> DEFINE r == s \ {x}
               n == Cardinality(r)
    <3>3. r \in SUBSET S /\ n \in Nat /\ n <= k /\ Cardinality(s) = n + 1
      <4>1. Cardinality(r) = Cardinality(s) - 1 /\ r \in SUBSET S
        BY <1>3
      <4> QED
        BY <1>1, <1>2, <2>1, <4>1
    <3>4. PICK f \in [1..n -> r] : \A i, j \in 1..n : /\ i # j => f[i] # f[j]
                                                      /\ i < j => key[f[i]] >= key[f[j]]
      BY <1>6, <3>3
    <3> DEFINE g == [i \in 1..(n + 1) |-> IF i = n + 1 THEN x ELSE f[i]]
    <3> HIDE DEF n
    <3>5. \A i \in 1..(n + 1) : i = n + 1 \/ (i \in 1..n /\ i # n + 1)
      BY <3>3
    <3>6. g \in [1..(n + 1) -> s]
      BY <3>5
    <3>7. \A i \in 1..n : g[i] = f[i] /\ f[i] \in r /\ i \in 1..(n + 1) /\ i < n + 1
      BY <3>3
    <3>8. g[n + 1] = x
      BY <3>3
    <3> HIDE DEF g
    <3>9. ASSUME NEW i \in 1..(n + 1), NEW j \in 1..(n + 1)
          PROVE  /\ i # j => g[i] # g[j]
                 /\ i < j => key[g[i]] >= key[g[j]]
      <4>1. CASE i \in 1..n /\ j \in 1..n
        BY <3>4, <3>7, <4>1
      <4>2. CASE i \in 1..n /\ j = n + 1
        <5>1. f[i] \in s /\ f[i] # x /\ key[x] <= key[f[i]] /\ key[x] \in Int /\ key[f[i]] \in Int
          BY <3>1, <3>2, <3>7, <4>2
        <5> QED
          BY <3>7, <3>8, <4>2, <5>1
      <4>3. CASE i = n + 1 /\ j \in 1..n
        <5>1. f[j] # x /\ ~(i < j)
          BY <3>3, <3>7, <4>3
        <5> QED
          BY <3>7, <3>8, <4>3, <5>1
      <4>4. CASE i = n + 1 /\ j = n + 1
        BY <3>3, <4>4
      <4> QED
        BY <3>5, <4>1, <4>2, <4>3, <4>4
    <3> QED
      BY <3>3, <3>6, <3>9
  <2>2. \A s \in SUBSET S : Cardinality(s) <= k + 1 => Has(s)
    <3> HIDE DEF Has
    <3> QED
      BY <1>4, <2>1
  <2>3. k + 1 \in Nat
    BY <1>2
  <2> HIDE DEF Has
  <2> QED
    BY <2>2, <2>3
<1> HIDE DEF T
<1>7. last \in T
  BY <1>2, <1>5, <1>6, UpTo
<1>8. Has(S)
  <2> HIDE DEF Has
  <2> QED
    BY <1>1, <1>7 DEF T
<1>9. PICK f \in [1..Cardinality(S) -> S] :
        \A i, j \in 1..Cardinality(S) : /\ i # j => f[i] # f[j]
                                        /\ i < j => key[f[i]] >= key[f[j]]
  BY <1>8
<1>10. f \in SetToSeqs(S)
  BY <1>9 DEF SetToSeqs
<1>11. DOMAIN f = 1..Cardinality(S)
  OBVIOUS
<1> QED
  BY <1>9, <1>10, <1>11 DEF Descends

\* What such a sequence is.
LEMMA DescentTakesAll ==
    ASSUME NEW S, IsFiniteSet(S), NEW f \in SetToSeqs(S)
    PROVE  /\ f \in Seq(S) /\ Len(f) = Cardinality(S)
           /\ \A i, j \in 1..Len(f) : i # j => f[i] # f[j]
           /\ \A x \in S : \E i \in 1..Len(f) : f[i] = x
<1> DEFINE n == Cardinality(S)
           D == 1..n
<1>1. n \in Nat
  BY FS_CardinalityType
<1>2. f \in [D -> S] /\ \A i, j \in D : i # j => f[i] # f[j]
  BY DEF SetToSeqs
<1>3. f \in Injection(D, S)
  <2> HIDE DEF n
  <2> QED
    BY <1>2 DEF Injection, IsInjective
<1>4. IsFiniteSet(D) /\ Cardinality(D) = n
  BY <1>1, FS_Interval
<1>5. f \in Surjection(D, S)
  <2> HIDE DEF D
  <2> QED
    BY <1>3, <1>4, FS_Injection
<1>6. \A x \in S : \E i \in D : f[i] = x
  <2> HIDE DEF n
  <2> QED
    BY <1>5 DEF Surjection
<1> HIDE DEF n
<1>7. f \in Seq(S) /\ Len(f) = n
  BY <1>1, <1>2
<1> QED
  BY <1>2, <1>6, <1>7 DEF n

=============================================================================
