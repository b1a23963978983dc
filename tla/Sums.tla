-------------------------------- MODULE Sums --------------------------------
(***************************************************************************)
(* What a sum over a finite set is: the lemmas the proofs about totals     *)
(* rest on.  SumFunctionOnSet is a recursive function over the subsets of  *)
(* its index set, so nothing is known of it until its equation is shown to *)
(* have a solution, by induction over the finite subsets; the induction    *)
(* takes the set of the subsets for which a fact holds, and needs only     *)
(* that the strict subset order is well founded.                           *)
(***************************************************************************)
EXTENDS Integers, FiniteSetsExt, FiniteSetTheorems, TLAPS

-----------------------------------------------------------------------------
\* Induction.

\* A set of naturals that has some member has a least one.
LEMMA LeastNatural ==
  ASSUME NEW T, T \subseteq Nat, T # {}
  PROVE  \E x \in T : \A y \in T : x =< y
<1> DEFINE Less == {ss \in Nat \X Nat : ss[1] < ss[2]}
<1>1. IsWellFoundedOn(Less, Nat)
  BY NatLessThanWellFounded DEF OpToRel
<1>2. \A x, y \in Nat : <<y, x>> \in Less <=> y < x
  OBVIOUS
<1> HIDE DEF Less
<1>3. PICK x \in T : \A y \in T : ~(<<y, x>> \in Less)
  BY <1>1, WFMin
<1>4. \A y \in T : x =< y
  <2> SUFFICES ASSUME NEW y \in T PROVE x =< y
    OBVIOUS
  <2>1. x \in Nat /\ y \in Nat
    OBVIOUS
  <2>2. ~(y < x)
    BY <2>1, <1>2, <1>3
  <2> QED
    BY <2>1, <2>2
<1> QED
  BY <1>4

\* A set that has zero and with a natural its successor has every natural.
LEMMA NaturalInduction ==
  ASSUME NEW Q, 0 \in Q, \A n \in Nat : n \in Q => n + 1 \in Q
  PROVE  Nat \subseteq Q
<1> SUFFICES ASSUME Nat \ Q # {} PROVE FALSE
  OBVIOUS
<1>1. PICK n \in Nat \ Q : \A m \in Nat \ Q : n =< m
  <2> DEFINE T == Nat \ Q
  <2>1. T \subseteq Nat /\ T # {}
    OBVIOUS
  <2> HIDE DEF T
  <2>2. \E x \in T : \A y \in T : x =< y
    BY <2>1, LeastNatural
  <2> QED
    BY <2>2 DEF T
<1>2. n - 1 \in Nat /\ ~(n =< n - 1) /\ n = (n - 1) + 1
  BY <1>1
<1>3. n - 1 \in Q
  BY <1>1, <1>2
<1> QED
  BY <1>1, <1>2, <1>3

\* A set that has a subset of a finite set whenever it has the strict subsets
\* of that subset has them all.
LEMMA SubsetInduction ==
  ASSUME NEW S, IsFiniteSet(S), NEW Q,
         \A T \in SUBSET S : (\A U \in SUBSET T : U # T => U \in Q) => T \in Q
  PROVE  \A T \in SUBSET S : T \in Q
<1> DEFINE Bad == (SUBSET S) \ Q
<1> SUFFICES ASSUME Bad # {} PROVE FALSE
  OBVIOUS
<1>1. FiniteSubsetsOf(S) = SUBSET S
  BY FS_FiniteSubsetsOfFinite
<1>2. IsWellFoundedOn(StrictSubsetOrdering(S), SUBSET S)
  <2>1. IsWellFoundedOn(StrictSubsetOrdering(S), FiniteSubsetsOf(S))
    BY FS_StrictSubsetOrderingWellFounded
  <2> QED
    BY <1>1, <2>1
<1>3. Bad \subseteq SUBSET S
  OBVIOUS
<1> HIDE DEF Bad
<1>4. PICK T \in Bad : \A U \in Bad : ~(<<U, T>> \in StrictSubsetOrdering(S))
  BY <1>2, <1>3, WFMin
<1>5. T \in SUBSET S /\ T \notin Q
  BY <1>4 DEF Bad
<1>6. ASSUME NEW U \in SUBSET T, U # T PROVE U \in Q
  <2>1. U \in SUBSET S
    BY <1>5
  <2>2. <<U, T>> \in StrictSubsetOrdering(S)
    BY <1>5, <1>6, <2>1 DEF StrictSubsetOrdering
  <2> QED
    BY <1>4, <2>1, <2>2 DEF Bad
<1> QED
  BY <1>5, <1>6

-----------------------------------------------------------------------------
\* The equation of the sum and its solution.

\* The element a sum takes next.
Pick(s) == CHOOSE x \in s : TRUE

\* it is the sum of f over each subset of S.
IsSumOf(f, S, it) ==
  it = [s \in SUBSET S |-> IF s = {} THEN 0 ELSE f[Pick(s)] + it[s \ {Pick(s)}]]

\* The element taken is an element.
LEMMA PickIn ==
  ASSUME NEW s, s # {}
  PROVE  Pick(s) \in s
BY DEF Pick

\* SumFunctionOnSet is the value at the whole set of the function chosen to
\* solve the equation.
LEMMA SumChosen ==
  ASSUME NEW f, NEW S
  PROVE  SumFunctionOnSet(f, S) = (CHOOSE it : IsSumOf(f, S, it))[S]
BY DEF SumFunctionOnSet, FoldFunctionOnSet, MapThenFoldSet, IsSumOf, Pick

\* A solution says what its value at a set is.
LEMMA SolutionStep ==
  ASSUME NEW f, NEW S, NEW it, IsSumOf(f, S, it), NEW s \in SUBSET S
  PROVE  it[s] = IF s = {} THEN 0 ELSE f[Pick(s)] + it[s \ {Pick(s)}]
BY DEF IsSumOf

\* Two solutions agree where both are defined.
LEMMA SolutionsAgree ==
  ASSUME NEW f, NEW S, IsFiniteSet(S), NEW T \in SUBSET S,
         NEW a, IsSumOf(f, S, a), NEW b, IsSumOf(f, T, b)
  PROVE  \A s \in SUBSET T : a[s] = b[s]
<1> DEFINE Q == {s \in SUBSET T : a[s] = b[s]}
<1>1. IsFiniteSet(T)
  BY FS_Subset
<1>2. ASSUME NEW s \in SUBSET T, \A U \in SUBSET s : U # s => U \in Q
      PROVE  s \in Q
  <2>1. CASE s = {}
    BY <2>1, SolutionStep
  <2>2. CASE s # {}
    <3> DEFINE u == s \ {Pick(s)}
    <3>1. Pick(s) \in s
      BY <2>2, PickIn
    <3>2. u \in SUBSET s /\ u # s
      BY <3>1
    <3>3. a[u] = b[u]
      BY <1>2, <3>2
    <3>4. a[s] = f[Pick(s)] + a[u] /\ b[s] = f[Pick(s)] + b[u]
      <4>1. s \in SUBSET S
        OBVIOUS
      <4>2. a[s] = IF s = {} THEN 0 ELSE f[Pick(s)] + a[u]
        BY <4>1, SolutionStep
      <4>3. b[s] = IF s = {} THEN 0 ELSE f[Pick(s)] + b[u]
        BY SolutionStep
      <4> QED
        BY <2>2, <4>2, <4>3
    <3> QED
      BY <3>3, <3>4
  <2> QED
    BY <2>1, <2>2
<1> HIDE DEF Q
<1>3. \A s \in SUBSET T : s \in Q
  BY <1>1, <1>2, SubsetInduction
<1> QED
  BY <1>3 DEF Q

\* The equation has a solution.
LEMMA SolutionExists ==
  ASSUME NEW f, NEW S, IsFiniteSet(S)
  PROVE  \E it : IsSumOf(f, S, it)
<1> DEFINE Q == {T \in SUBSET S : \E it : IsSumOf(f, T, it)}
<1>1. ASSUME NEW T \in SUBSET S, \A U \in SUBSET T : U # T => U \in Q
      PROVE  T \in Q
  <2>0. IsFiniteSet(T)
    BY FS_Subset
  <2>1. CASE T = {}
    <3> DEFINE it == [s \in SUBSET T |-> 0]
    <3>1. IsSumOf(f, T, it)
      BY <2>1 DEF IsSumOf
    <3> QED
      BY <3>1
  <2>2. CASE T # {}
    <3> DEFINE val(s) == (CHOOSE i : IsSumOf(f, s, i))[s]
               it == [s \in SUBSET T |->
                        IF s = T THEN f[Pick(T)] + val(T \ {Pick(T)}) ELSE val(s)]
    <3>1. ASSUME NEW s \in SUBSET T, s # T
          PROVE  IsSumOf(f, s, CHOOSE i : IsSumOf(f, s, i))
      <4>1. \E i : IsSumOf(f, s, i)
        BY <1>1, <3>1
      <4> QED
        BY <4>1
    <3>2. ASSUME NEW s \in SUBSET T, s # T, s # {}
          PROVE  val(s) = f[Pick(s)] + val(s \ {Pick(s)})
      <4> DEFINE u == s \ {Pick(s)}
                 a == CHOOSE i : IsSumOf(f, s, i)
                 b == CHOOSE i : IsSumOf(f, u, i)
      <4>1. Pick(s) \in s
        BY <3>2, PickIn
      <4>2. u \in SUBSET s /\ u \in SUBSET T /\ u # T
        BY <3>2, <4>1
      <4>3. IsFiniteSet(s)
        BY <2>0, FS_Subset
      <4>4. IsSumOf(f, s, a) /\ IsSumOf(f, u, b)
        BY <3>1, <3>2, <4>2
      <4>0. u \in SUBSET u
        OBVIOUS
      <4> HIDE DEF a, b
      <4>5. a[u] = b[u]
        BY <4>0, <4>2, <4>3, <4>4, SolutionsAgree
      <4>6. a[s] = f[Pick(s)] + a[u]
        BY <3>2, <4>4, SolutionStep
      <4> QED
        BY <4>5, <4>6 DEF a, b
    <3>3. val({}) = 0
      <4>1. IsSumOf(f, {}, CHOOSE i : IsSumOf(f, {}, i))
        BY <2>2, <3>1
      <4> QED
        BY <4>1 DEF IsSumOf
    <3>4. Pick(T) \in T
      BY <2>2, PickIn
    <3>5. ASSUME NEW s \in SUBSET T, s # {}
          PROVE  it[s] = f[Pick(s)] + it[s \ {Pick(s)}]
      <4>1. Pick(s) \in s
        BY <3>5, PickIn
      <4>2. s \ {Pick(s)} \in SUBSET T /\ s \ {Pick(s)} # T
        BY <4>1
      <4> HIDE DEF val
      <4>3. it[s \ {Pick(s)}] = val(s \ {Pick(s)})
        BY <4>2
      <4>4. CASE s = T
        BY <4>3, <4>4
      <4>5. CASE s # T
        BY <3>2, <3>5, <4>3, <4>5
      <4> QED
        BY <4>4, <4>5
    <3>6. it[{}] = 0
      <4> HIDE DEF val
      <4> QED
        BY <2>2, <3>3
    <3>7. IsSumOf(f, T, it)
      <4>1. it = [s \in SUBSET T |-> it[s]]
        OBVIOUS
      <4> HIDE DEF it
      <4>2. \A s \in SUBSET T : it[s] = IF s = {} THEN 0 ELSE f[Pick(s)] + it[s \ {Pick(s)}]
        BY <3>5, <3>6
      <4> QED
        BY <4>1, <4>2 DEF IsSumOf
    <3> QED
      BY <3>7
  <2> QED
    BY <2>1, <2>2
<1> HIDE DEF Q
<1>2. S \in Q
  BY <1>1, SubsetInduction
<1> QED
  BY <1>2 DEF Q

-----------------------------------------------------------------------------
\* What the proofs use.

\* The sum of nothing is zero.
LEMMA SumEmpty ==
  ASSUME NEW f
  PROVE  SumFunctionOnSet(f, {}) = 0
<1>1. \E it : IsSumOf(f, {}, it)
  BY FS_EmptySet, SolutionExists
<1>2. IsSumOf(f, {}, CHOOSE it : IsSumOf(f, {}, it))
  BY <1>1
<1> QED
  BY <1>2, SumChosen, SolutionStep

\* A sum takes its elements one after another.
LEMMA SumPick ==
  ASSUME NEW f, NEW S, IsFiniteSet(S), S # {}
  PROVE  SumFunctionOnSet(f, S) = f[Pick(S)] + SumFunctionOnSet(f, S \ {Pick(S)})
<1> DEFINE u == S \ {Pick(S)}
           a == CHOOSE i : IsSumOf(f, S, i)
           b == CHOOSE i : IsSumOf(f, u, i)
<1>1. Pick(S) \in S
  BY PickIn
<1>2. IsFiniteSet(u)
  BY FS_RemoveElement
<1>3. (\E i : IsSumOf(f, S, i)) /\ (\E i : IsSumOf(f, u, i))
  BY <1>2, SolutionExists
<1>4. IsSumOf(f, S, a) /\ IsSumOf(f, u, b)
  BY <1>3
<1>5. SumFunctionOnSet(f, S) = a[S] /\ SumFunctionOnSet(f, u) = b[u]
  BY SumChosen
<1>0. u \in SUBSET S /\ u \in SUBSET u
  OBVIOUS
<1> HIDE DEF a, b, u
<1>6. a[u] = b[u]
  BY <1>0, <1>4, SolutionsAgree
<1>7. a[S] = f[Pick(S)] + a[u]
  BY <1>4, SolutionStep DEF u
<1> QED
  BY <1>5, <1>6, <1>7 DEF u

\* A sum of integers is an integer.
LEMMA SumInt ==
  ASSUME NEW f, NEW S, IsFiniteSet(S), \A x \in S : f[x] \in Int
  PROVE  SumFunctionOnSet(f, S) \in Int
<1> DEFINE Q == {T \in SUBSET S : SumFunctionOnSet(f, T) \in Int}
<1>1. ASSUME NEW T \in SUBSET S, \A U \in SUBSET T : U # T => U \in Q
      PROVE  T \in Q
  <2>1. CASE T = {}
    BY <2>1, SumEmpty
  <2>2. CASE T # {}
    <3>1. Pick(T) \in T /\ IsFiniteSet(T)
      BY <2>2, PickIn, FS_Subset
    <3>2. SumFunctionOnSet(f, T \ {Pick(T)}) \in Int
      BY <1>1, <3>1
    <3>3. SumFunctionOnSet(f, T) = f[Pick(T)] + SumFunctionOnSet(f, T \ {Pick(T)})
      BY <2>2, <3>1, SumPick
    <3>4. f[Pick(T)] \in Int
      BY <3>1
    <3> QED
      BY <3>2, <3>3, <3>4
  <2> QED
    BY <2>1, <2>2
<1> HIDE DEF Q
<1>2. S \in Q
  BY <1>1, SubsetInduction
<1> QED
  BY <1>2 DEF Q

\* The order in which a sum takes its elements does not matter.
LEMMA SumTakeOut ==
  ASSUME NEW f, NEW S, IsFiniteSet(S), \A x \in S : f[x] \in Int, NEW x \in S
  PROVE  SumFunctionOnSet(f, S) = f[x] + SumFunctionOnSet(f, S \ {x})
<1> DEFINE Any(T) == \A y \in T : SumFunctionOnSet(f, T) = f[y] + SumFunctionOnSet(f, T \ {y})
           Q == {T \in SUBSET S : Any(T)}
<1>1. ASSUME NEW T \in SUBSET S, \A U \in SUBSET T : U # T => U \in Q
      PROVE  T \in Q
  <2>1. SUFFICES ASSUME NEW y \in T
                 PROVE  SumFunctionOnSet(f, T) = f[y] + SumFunctionOnSet(f, T \ {y})
    OBVIOUS
  <2> DEFINE p == Pick(T)
             rest == (T \ {p}) \ {y}
  <2>2. p \in T /\ IsFiniteSet(T)
    BY PickIn, FS_Subset
  <2>3. SumFunctionOnSet(f, T) = f[p] + SumFunctionOnSet(f, T \ {p})
    BY <2>2, SumPick
  <2>4. CASE y = p
    BY <2>3, <2>4
  <2>5. CASE y # p
    <3>1. T \ {p} \in Q /\ T \ {y} \in Q
      BY <1>1, <2>2
    <3>2. SumFunctionOnSet(f, T \ {p}) = f[y] + SumFunctionOnSet(f, rest)
      BY <2>5, <3>1
    <3>3. (T \ {y}) \ {p} = rest
      OBVIOUS
    <3>4. SumFunctionOnSet(f, T \ {y}) = f[p] + SumFunctionOnSet(f, (T \ {y}) \ {p})
      BY <2>2, <2>5, <3>1
    <3>5. IsFiniteSet(rest) /\ (\A z \in rest : f[z] \in Int)
      BY <2>2, FS_RemoveElement
    <3>6. SumFunctionOnSet(f, rest) \in Int
      BY <3>5, SumInt
    <3>7. f[y] \in Int /\ f[p] \in Int
      BY <2>2
    <3>8. SumFunctionOnSet(f, T \ {y}) = f[p] + SumFunctionOnSet(f, rest)
      BY <3>3, <3>4
    <3> HIDE DEF p, rest
    <3> QED
      BY <2>3, <3>2, <3>6, <3>7, <3>8
  <2> QED
    BY <2>4, <2>5
<1> HIDE DEF Q
<1>2. S \in Q
  BY <1>1, SubsetInduction
<1> QED
  BY <1>2 DEF Q

\* A sum over a set with one element more.
LEMMA SumAddOne ==
  ASSUME NEW f, NEW S, IsFiniteSet(S), NEW x, x \notin S,
         \A y \in S \cup {x} : f[y] \in Int
  PROVE  SumFunctionOnSet(f, S \cup {x}) = f[x] + SumFunctionOnSet(f, S)
<1>1. IsFiniteSet(S \cup {x}) /\ x \in S \cup {x} /\ (S \cup {x}) \ {x} = S
  BY FS_AddElement
<1> QED
  BY <1>1, SumTakeOut

\* A sum depends on the values of its elements alone.
LEMMA SumAgree ==
  ASSUME NEW f, NEW g, NEW S, IsFiniteSet(S), \A x \in S : f[x] = g[x]
  PROVE  SumFunctionOnSet(f, S) = SumFunctionOnSet(g, S)
<1> DEFINE Q == {T \in SUBSET S : SumFunctionOnSet(f, T) = SumFunctionOnSet(g, T)}
<1>1. ASSUME NEW T \in SUBSET S, \A U \in SUBSET T : U # T => U \in Q
      PROVE  T \in Q
  <2>1. CASE T = {}
    BY <2>1, SumEmpty
  <2>2. CASE T # {}
    <3>1. Pick(T) \in T /\ IsFiniteSet(T)
      BY <2>2, PickIn, FS_Subset
    <3>2. T \ {Pick(T)} \in Q
      BY <1>1, <3>1
    <3>3. f[Pick(T)] = g[Pick(T)]
      BY <3>1
    <3>4. SumFunctionOnSet(f, T) = f[Pick(T)] + SumFunctionOnSet(f, T \ {Pick(T)})
      BY <2>2, <3>1, SumPick
    <3>5. SumFunctionOnSet(g, T) = g[Pick(T)] + SumFunctionOnSet(g, T \ {Pick(T)})
      BY <2>2, <3>1, SumPick
    <3> QED
      BY <3>2, <3>3, <3>4, <3>5
  <2> QED
    BY <2>1, <2>2
<1> HIDE DEF Q
<1>2. S \in Q
  BY <1>1, SubsetInduction
<1> QED
  BY <1>2 DEF Q

\* Two functions that differ at one point have sums that differ by as much.
LEMMA SumChange ==
  ASSUME NEW f, NEW g, NEW S, IsFiniteSet(S), NEW x \in S,
         \A y \in S : f[y] \in Int /\ g[y] \in Int,
         \A y \in S : y # x => f[y] = g[y]
  PROVE  SumFunctionOnSet(g, S) = SumFunctionOnSet(f, S) + (g[x] - f[x])
<1> DEFINE T == S \ {x}
<1>1. IsFiniteSet(T) /\ (\A y \in T : f[y] \in Int) /\ (\A y \in T : f[y] = g[y])
  BY FS_RemoveElement
<1>2. SumFunctionOnSet(f, S) = f[x] + SumFunctionOnSet(f, T)
  BY SumTakeOut
<1>3. SumFunctionOnSet(g, S) = g[x] + SumFunctionOnSet(g, T)
  BY SumTakeOut
<1> HIDE DEF T
<1>4. SumFunctionOnSet(f, T) = SumFunctionOnSet(g, T) /\ SumFunctionOnSet(f, T) \in Int
  BY <1>1, SumAgree, SumInt
<1>5. f[x] \in Int /\ g[x] \in Int
  OBVIOUS
<1> QED
  BY <1>2, <1>3, <1>4, <1>5

\* The sum of two functions is the sum of their sums.
LEMMA SumOfSums ==
  ASSUME NEW f, NEW g, NEW h, NEW S, IsFiniteSet(S),
         \A x \in S : f[x] \in Int /\ g[x] \in Int /\ h[x] = f[x] + g[x]
  PROVE  SumFunctionOnSet(h, S) = SumFunctionOnSet(f, S) + SumFunctionOnSet(g, S)
<1> DEFINE Q == {T \in SUBSET S : SumFunctionOnSet(h, T)
                                    = SumFunctionOnSet(f, T) + SumFunctionOnSet(g, T)}
<1>1. ASSUME NEW T \in SUBSET S, \A U \in SUBSET T : U # T => U \in Q
      PROVE  T \in Q
  <2>1. CASE T = {}
    BY <2>1, SumEmpty
  <2>2. CASE T # {}
    <3> DEFINE p == Pick(T)
               u == T \ {p}
    <3>1. p \in T /\ IsFiniteSet(T)
      BY <2>2, PickIn, FS_Subset
    <3>2. u \in Q /\ IsFiniteSet(u)
      BY <1>1, <3>1, FS_RemoveElement
    <3>3. f[p] \in Int /\ g[p] \in Int /\ h[p] = f[p] + g[p]
      BY <3>1
    <3>4. /\ SumFunctionOnSet(f, T) = f[p] + SumFunctionOnSet(f, u)
          /\ SumFunctionOnSet(g, T) = g[p] + SumFunctionOnSet(g, u)
          /\ SumFunctionOnSet(h, T) = h[p] + SumFunctionOnSet(h, u)
      BY <2>2, <3>1, SumPick
    <3>5. SumFunctionOnSet(f, u) \in Int /\ SumFunctionOnSet(g, u) \in Int
      <4>1. \A y \in u : f[y] \in Int /\ g[y] \in Int
        OBVIOUS
      <4> HIDE DEF u
      <4> QED
        BY <3>2, <4>1, SumInt
    <3>6. SumFunctionOnSet(h, u) = SumFunctionOnSet(f, u) + SumFunctionOnSet(g, u)
      BY <3>2
    <3> HIDE DEF u, p
    <3>7. SumFunctionOnSet(h, T) = SumFunctionOnSet(f, T) + SumFunctionOnSet(g, T)
      BY <3>3, <3>4, <3>5, <3>6
    <3> QED
      BY <3>7
  <2> QED
    BY <2>1, <2>2
<1> HIDE DEF Q
<1>2. S \in Q
  BY <1>1, SubsetInduction
<1> QED
  BY <1>2 DEF Q

\* A sum grows with its values.
LEMMA SumMonotone ==
  ASSUME NEW f, NEW g, NEW S, IsFiniteSet(S),
         \A x \in S : f[x] \in Int /\ g[x] \in Int /\ f[x] =< g[x]
  PROVE  SumFunctionOnSet(f, S) =< SumFunctionOnSet(g, S)
<1> DEFINE Q == {T \in SUBSET S : SumFunctionOnSet(f, T) =< SumFunctionOnSet(g, T)}
<1>1. ASSUME NEW T \in SUBSET S, \A U \in SUBSET T : U # T => U \in Q
      PROVE  T \in Q
  <2>1. CASE T = {}
    BY <2>1, SumEmpty
  <2>2. CASE T # {}
    <3> DEFINE p == Pick(T)
               u == T \ {p}
    <3>1. p \in T /\ IsFiniteSet(T)
      BY <2>2, PickIn, FS_Subset
    <3>2. u \in Q /\ IsFiniteSet(u)
      BY <1>1, <3>1, FS_RemoveElement
    <3>3. f[p] \in Int /\ g[p] \in Int /\ f[p] =< g[p]
      BY <3>1
    <3>4. /\ SumFunctionOnSet(f, T) = f[p] + SumFunctionOnSet(f, u)
          /\ SumFunctionOnSet(g, T) = g[p] + SumFunctionOnSet(g, u)
      BY <2>2, <3>1, SumPick
    <3>5. SumFunctionOnSet(f, u) \in Int /\ SumFunctionOnSet(g, u) \in Int
      <4>1. \A y \in u : f[y] \in Int /\ g[y] \in Int
        OBVIOUS
      <4> HIDE DEF u
      <4> QED
        BY <3>2, <4>1, SumInt
    <3>6. SumFunctionOnSet(f, u) =< SumFunctionOnSet(g, u)
      BY <3>2
    <3> HIDE DEF u, p
    <3>7. SumFunctionOnSet(f, T) =< SumFunctionOnSet(g, T)
      BY <3>3, <3>4, <3>5, <3>6
    <3> QED
      BY <3>7
  <2> QED
    BY <2>1, <2>2
<1> HIDE DEF Q
<1>2. S \in Q
  BY <1>1, SubsetInduction
<1> QED
  BY <1>2 DEF Q

\* A sum of zeros is zero.
LEMMA SumZero ==
  ASSUME NEW f, NEW S, IsFiniteSet(S), \A x \in S : f[x] = 0
  PROVE  SumFunctionOnSet(f, S) = 0
<1> DEFINE d == [x \in S |-> f[x] + f[x]]
<1>1. SumFunctionOnSet(d, S) = SumFunctionOnSet(f, S) + SumFunctionOnSet(f, S)
  BY SumOfSums
<1>2. SumFunctionOnSet(d, S) = SumFunctionOnSet(f, S)
  BY SumAgree
<1>3. SumFunctionOnSet(f, S) \in Int
  BY SumInt
<1>4. \A z \in Int : z = z + z => z = 0
  OBVIOUS
<1>5. SumFunctionOnSet(f, S) = SumFunctionOnSet(f, S) + SumFunctionOnSet(f, S)
  BY <1>1, <1>2, Zenon
<1> QED
  BY <1>3, <1>4, <1>5, Zenon

\* Elements of value zero add nothing.
LEMMA SumSupport ==
  ASSUME NEW f, NEW S, IsFiniteSet(S), NEW T \in SUBSET S,
         \A x \in S : f[x] \in Int, \A x \in S \ T : f[x] = 0
  PROVE  SumFunctionOnSet(f, S) = SumFunctionOnSet(f, T)
<1> DEFINE Q == {U \in SUBSET S : SumFunctionOnSet(f, U) = SumFunctionOnSet(f, U \cap T)}
<1>1. ASSUME NEW U \in SUBSET S, \A V \in SUBSET U : V # U => V \in Q
      PROVE  U \in Q
  <2>1. CASE U \subseteq T
    <3>1. U \cap T = U
      BY <2>1
    <3> QED
      BY <3>1
  <2>2. ASSUME NEW x \in U \ T
        PROVE  SumFunctionOnSet(f, U) = SumFunctionOnSet(f, U \cap T)
    <3> DEFINE V == U \ {x}
    <3>1. V \in SUBSET U /\ V # U /\ V \cap T = U \cap T
      BY <2>2
    <3>2. SumFunctionOnSet(f, V) = SumFunctionOnSet(f, V \cap T)
      BY <1>1, <3>1
    <3>3. IsFiniteSet(U) /\ IsFiniteSet(V) /\ (\A y \in U : f[y] \in Int) /\ (\A y \in V : f[y] \in Int)
      BY FS_Subset, FS_RemoveElement
    <3>4. SumFunctionOnSet(f, U) = f[x] + SumFunctionOnSet(f, V)
      BY <2>2, <3>3, SumTakeOut
    <3> HIDE DEF V
    <3>5. SumFunctionOnSet(f, V) \in Int
      BY <3>3, SumInt
    <3>6. f[x] = 0
      BY <2>2
    <3>7. SumFunctionOnSet(f, U) = SumFunctionOnSet(f, V)
      BY <3>4, <3>5, <3>6
    <3> QED
      BY <3>1, <3>2, <3>7
  <2>3. CASE ~(U \subseteq T)
    <3>1. PICK x : x \in U \ T
      BY <2>3
    <3> QED
      BY <2>2, <3>1
  <2> QED
    BY <2>1, <2>3
<1> HIDE DEF Q
<1>2. S \in Q
  BY <1>1, SubsetInduction
<1>3. S \cap T = T
  OBVIOUS
<1> QED
  BY <1>2, <1>3 DEF Q

\* A function that is zero but at one point adds up to its value there.
LEMMA SumSingle ==
  ASSUME NEW S, IsFiniteSet(S), NEW k \in S, NEW n \in Int
  PROVE  SumFunctionOnSet([x \in S |-> IF x = k THEN n ELSE 0], S) = n
<1> DEFINE f == [x \in S |-> 0]
           g == [x \in S |-> IF x = k THEN n ELSE 0]
<1>1. \A x \in S : f[x] = 0 /\ f[x] \in Int /\ g[x] \in Int /\ (x # k => f[x] = g[x]) OBVIOUS
<1>2. g[k] = n /\ f[k] = 0 OBVIOUS
<1> HIDE DEF f, g
<1>3. SumFunctionOnSet(f, S) = 0 BY <1>1, SumZero
<1>4. SumFunctionOnSet(g, S) = SumFunctionOnSet(f, S) + (g[k] - f[k]) BY <1>1, SumChange
<1>5. SumFunctionOnSet(g, S) = n BY <1>2, <1>3, <1>4
<1> QED BY <1>5 DEF g
=============================================================================
