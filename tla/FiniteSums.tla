------------------------------- MODULE FiniteSums -------------------------------
(***************************************************************************)
(* Sums of integers over a finite set, and the induction they rest on.     *)
(*                                                                         *)
(* The induction theorems of the library take a predicate as a parameter;  *)
(* here a predicate is the set of numbers it holds of, so that they can be *)
(* cited: a set of naturals that is not all of them has a least number     *)
(* outside it (WFMin).                                                     *)
(***************************************************************************)
EXTENDS Integers, Functions, FiniteSetTheorems, WellFoundedInduction, TLAPS

\* The sum of w over a subset of its domain, as the community modules fold it.
SumOn(w, S) == FoldFunctionOnSet(+, 0, w, S)

\* Induction: a set of naturals with 0 and with every successor is Nat.
LEMMA NatSetInduction ==
  ASSUME NEW T \in SUBSET Nat, 0 \in T, \A n \in T : n + 1 \in T
  PROVE  T = Nat
<1> DEFINE U == Nat \ T
<1>1. SUFFICES ASSUME U # {} PROVE FALSE
  OBVIOUS
<1>2. IsWellFoundedOn(OpToRel(<, Nat), Nat)
  BY NatLessThanWellFounded
<1>3. U \subseteq Nat
  OBVIOUS
<1>4. PICK n \in U : \A m \in U : ~(<<m, n>> \in OpToRel(<, Nat))
  <2> HIDE DEF U
  <2> QED BY <1>1, <1>2, <1>3, WFMin
<1>5. n \in Nat /\ \A m \in U : ~(m < n)
  BY <1>4 DEF OpToRel
<1>6. n # 0 /\ n - 1 \in Nat /\ n - 1 \notin U
  BY <1>5
<1> QED BY <1>5, <1>6

--------------------------------------------------------------------------------
\* The element the fold takes out of a set first, and the sums it makes on the way.
Pick(s) == CHOOSE x \in s : TRUE
Partial(w, D, f) ==
  f = [s \in SUBSET D |-> IF s = {} THEN 0 ELSE w[Pick(s)] + f[s \ {Pick(s)}]]

Upto(D, n) == {s \in SUBSET D : Cardinality(s) <= n}

\* The element picked is one of the set.
LEMMA PickIn == \A s : s # {} => Pick(s) \in s
BY DEF Pick

\* What is left of a finite set is finite and has one element less.
LEMMA Smaller ==
  ASSUME NEW D, IsFiniteSet(D), NEW s \in SUBSET D, NEW x \in s
  PROVE  /\ IsFiniteSet(s) /\ Cardinality(s) \in Nat \ {0}
         /\ s \ {x} \in SUBSET D /\ Cardinality(s \ {x}) = Cardinality(s) - 1
         /\ IsFiniteSet(s \ {x})
<1>1. IsFiniteSet(s)
  BY FS_Subset
<1>2. IsFiniteSet(s \ {x}) /\ Cardinality(s \ {x}) = Cardinality(s) - 1
  BY <1>1, FS_RemoveElement
<1>3. Cardinality(s) \in Nat /\ Cardinality(s \ {x}) \in Nat
  BY <1>1, <1>2, FS_CardinalityType
<1> QED BY <1>1, <1>2, <1>3

\* There are such partial sums, and they are integers.
LEMMA PartialExists ==
  ASSUME NEW D, IsFiniteSet(D), NEW w, \A x \in D : w[x] \in Int
  PROVE  \E f \in [SUBSET D -> Int] : Partial(w, D, f)
<1> DEFINE Next(f, s) == IF s = {} THEN 0 ELSE w[Pick(s)] + f[s \ {Pick(s)}]
           Good(n) == \E f \in [Upto(D, n) -> Int] : \A s \in Upto(D, n) : f[s] = Next(f, s)
           T == {n \in Nat : Good(n)}
<1>1. 0 \in T
  <2> DEFINE f == [s \in Upto(D, 0) |-> 0]
  <2>1. \A s \in Upto(D, 0) : s = {}
    <3>1. ASSUME NEW s \in Upto(D, 0), NEW x \in s PROVE FALSE
      <4>1. s \in SUBSET D /\ Cardinality(s) <= 0
        BY DEF Upto
      <4>2. Cardinality(s) \in Nat \ {0}
        BY <4>1, Smaller
      <4> QED BY <4>1, <4>2
    <3> QED BY <3>1
  <2>2. f \in [Upto(D, 0) -> Int] /\ \A s \in Upto(D, 0) : f[s] = Next(f, s)
    BY <2>1
  <2> QED BY <2>2
<1>2. ASSUME NEW n \in T PROVE n + 1 \in T
  <2>1. PICK f \in [Upto(D, n) -> Int] : \A s \in Upto(D, n) : f[s] = Next(f, s)
    OBVIOUS
  <2> DEFINE g == [s \in Upto(D, n + 1) |-> Next(f, s)]
  <2>2. ASSUME NEW s \in Upto(D, n + 1), s # {}
        PROVE  s \ {Pick(s)} \in Upto(D, n) /\ w[Pick(s)] \in Int
    <3>1. Pick(s) \in s /\ s \in SUBSET D /\ Cardinality(s) <= n + 1
      BY <2>2, PickIn DEF Upto
    <3>2. /\ s \ {Pick(s)} \in SUBSET D /\ Cardinality(s) \in Nat
          /\ Cardinality(s \ {Pick(s)}) = Cardinality(s) - 1
      BY <3>1, Smaller
    <3> QED BY <3>1, <3>2 DEF Upto
  <2>3. g \in [Upto(D, n + 1) -> Int]
    BY <2>2
  <2>4. \A s \in Upto(D, n) : s \in Upto(D, n + 1) /\ g[s] = f[s]
    <3>1. ASSUME NEW s \in Upto(D, n) PROVE s \in Upto(D, n + 1)
      <4>1. IsFiniteSet(s)
        BY FS_Subset DEF Upto
      <4>2. Cardinality(s) \in Nat
        BY <4>1, FS_CardinalityType
      <4> QED BY <4>2 DEF Upto
    <3> QED BY <2>1, <3>1
  <2>5. \A s \in Upto(D, n + 1) : g[s] = Next(g, s)
    BY <2>2, <2>4
  <2>6. Good(n + 1)
    <3> HIDE DEF Next, g
    <3> QED BY <2>3, <2>5
  <2> QED BY <2>6
<1>3. T = Nat
  <2> HIDE DEF Good
  <2> QED BY <1>1, <1>2, NatSetInduction
<1>4. PICK n \in Nat : n = Cardinality(D)
  BY FS_CardinalityType
<1>5. Upto(D, n) = SUBSET D
  <2>1. ASSUME NEW s \in SUBSET D PROVE Cardinality(s) <= n
    BY <1>4, FS_Subset
  <2> QED BY <2>1 DEF Upto
<1>6. PICK f \in [SUBSET D -> Int] : \A s \in SUBSET D : f[s] = Next(f, s)
  BY <1>3, <1>4, <1>5
<1>7. f = [s \in SUBSET D |-> Next(f, s)]
  BY <1>6
<1> QED BY <1>7 DEF Partial

\* They depend on what they sum only, not on the set they are taken from.
LEMMA PartialUnique ==
  ASSUME NEW D, IsFiniteSet(D), NEW E, NEW w, NEW v, NEW f, NEW g,
         Partial(w, D, f), Partial(v, E, g), D \subseteq E, \A x \in D : w[x] = v[x]
  PROVE  \A s \in SUBSET D : f[s] = g[s]
<1> DEFINE Same(n) == \A s \in SUBSET D : Cardinality(s) = n => f[s] = g[s]
           T == {n \in Nat : Same(n)}
<1>1. /\ \A s \in SUBSET D : f[s] = IF s = {} THEN 0 ELSE w[Pick(s)] + f[s \ {Pick(s)}]
      /\ \A s \in SUBSET D : g[s] = IF s = {} THEN 0 ELSE v[Pick(s)] + g[s \ {Pick(s)}]
  BY DEF Partial
<1>2. 0 \in T
  <2>1. ASSUME NEW s \in SUBSET D, Cardinality(s) = 0 PROVE s = {}
    BY <2>1, FS_Subset, FS_EmptySet
  <2> QED BY <1>1, <2>1
<1>3. ASSUME NEW n \in T PROVE n + 1 \in T
  <2>1. ASSUME NEW s \in SUBSET D, Cardinality(s) = n + 1 PROVE f[s] = g[s]
    <3>1. CASE s = {}
      BY <1>1, <3>1
    <3>2. CASE s # {}
      <4>1. Pick(s) \in s
        BY <3>2, PickIn
      <4>2. s \ {Pick(s)} \in SUBSET D /\ Cardinality(s \ {Pick(s)}) = n
        <5>1. Cardinality(s \ {Pick(s)}) = Cardinality(s) - 1
          BY <4>1, Smaller
        <5> QED BY <2>1, <5>1
      <4>3. f[s \ {Pick(s)}] = g[s \ {Pick(s)}]
        BY <4>2
      <4> QED BY <1>1, <3>2, <4>1, <4>3
    <3> QED BY <3>1, <3>2
  <2>2. Same(n + 1)
    BY <2>1
  <2> QED BY <2>2
<1>4. T = Nat
  <2> HIDE DEF Same
  <2> QED BY <1>2, <1>3, NatSetInduction
<1>5. ASSUME NEW s \in SUBSET D PROVE f[s] = g[s]
  <2>1. Cardinality(s) \in T
    BY <1>4, FS_Subset, FS_CardinalityType
  <2> QED BY <2>1
<1> QED BY <1>5

\* The sum of a set is the last of its partial sums.
LEMMA SumIsPartial ==
  ASSUME NEW D, IsFiniteSet(D), NEW w, \A x \in D : w[x] \in Int,
         NEW f, Partial(w, D, f), NEW s \in SUBSET D
  PROVE  SumOn(w, s) = f[s]
<1>1. IsFiniteSet(s)
  BY FS_Subset
<1>2. PICK g : Partial(w, s, g)
  BY <1>1, PartialExists
<1>3. PICK h : h = CHOOSE iter : Partial(w, s, iter)
  OBVIOUS
<1>4. Partial(w, s, h)
  BY <1>2, <1>3
<1>5. SumOn(w, s) = h[s]
  BY <1>3 DEF SumOn, FoldFunctionOnSet, MapThenFoldSet, Partial, Pick
<1>6. h[s] = f[s]
  BY <1>1, <1>4, PartialUnique
<1> QED BY <1>5, <1>6

--------------------------------------------------------------------------------
(***************************************************************************)
(* What the proofs cite.                                                   *)
(***************************************************************************)

\* A finite sum of integers is one.
LEMMA SumInt ==
  ASSUME NEW D, IsFiniteSet(D), NEW w, \A x \in D : w[x] \in Int
  PROVE  SumOn(w, D) \in Int
<1>1. PICK f \in [SUBSET D -> Int] : Partial(w, D, f)
  BY PartialExists
<1>2. SumOn(w, D) = f[D]
  BY <1>1, SumIsPartial
<1> QED BY <1>1, <1>2

\* The sum of nothing is zero.
LEMMA SumEmpty == \A w : SumOn(w, {}) = 0
<1>1. ASSUME NEW w PROVE SumOn(w, {}) = 0
  <2>1. PICK f \in [SUBSET {} -> Int] : Partial(w, {}, f)
    BY FS_EmptySet, PartialExists
  <2>2. SumOn(w, {}) = f[{}]
    BY <2>1, FS_EmptySet, SumIsPartial
  <2> QED BY <2>1, <2>2 DEF Partial
<1> QED BY <1>1

\* Any element may be taken out first.
LEMMA SumRemove ==
  ASSUME NEW D, IsFiniteSet(D), NEW w, \A x \in D : w[x] \in Int, NEW y \in D
  PROVE  SumOn(w, D) = w[y] + SumOn(w, D \ {y})
<1>1. PICK f \in [SUBSET D -> Int] : Partial(w, D, f)
  BY PartialExists
<1> DEFINE Any(n) == \A s \in SUBSET D : Cardinality(s) = n =>
                       \A x \in s : f[s] = w[x] + f[s \ {x}]
           T == {n \in Nat : Any(n)}
<1>2. \A s \in SUBSET D : s # {} => f[s] = w[Pick(s)] + f[s \ {Pick(s)}]
  BY <1>1 DEF Partial
<1>3. 0 \in T
  <2>1. ASSUME NEW s \in SUBSET D, NEW x \in s, Cardinality(s) = 0 PROVE FALSE
    BY <2>1, Smaller
  <2> QED BY <2>1
<1>4. ASSUME NEW n \in T PROVE n + 1 \in T
  <2>1. ASSUME NEW s \in SUBSET D, Cardinality(s) = n + 1, NEW x \in s
        PROVE  f[s] = w[x] + f[s \ {x}]
    <3> DEFINE p == Pick(s)
    <3>1. p \in s /\ f[s] = w[p] + f[s \ {p}]
      BY <1>2, PickIn
    <3>2. CASE x = p
      BY <3>1, <3>2
    <3>3. CASE x # p
      <4> DEFINE a == s \ {p}
                 b == s \ {x}
                 c == s \ {p, x}
      <4>1. /\ a \in SUBSET D /\ Cardinality(a) = n
            /\ b \in SUBSET D /\ Cardinality(b) = n
        <5>1. \A z \in s : s \ {z} \in SUBSET D /\ Cardinality(s \ {z}) = n
          <6>1. \A z \in s : Cardinality(s \ {z}) = Cardinality(s) - 1
            BY Smaller
          <6> QED BY <2>1, <6>1
        <5> QED BY <3>1, <5>1
      <4>2. x \in a /\ p \in b /\ a \ {x} = c /\ b \ {p} = c /\ c \in SUBSET D
        BY <3>1, <3>3
      <4>3. f[a] = w[x] + f[c] /\ f[b] = w[p] + f[c]
        <5> HIDE DEF a, b, c, p
        <5> QED BY <4>1, <4>2
      <4>4. w[x] \in Int /\ w[p] \in Int /\ f[c] \in Int
        BY <1>1, <3>1, <4>2
      <4> HIDE DEF p, c
      <4> QED BY <3>1, <4>3, <4>4
    <3> QED BY <3>2, <3>3
  <2>2. Any(n + 1)
    BY <2>1
  <2> QED BY <2>2
<1>5. T = Nat
  <2> HIDE DEF Any
  <2> QED BY <1>3, <1>4, NatSetInduction
<1>6. f[D] = w[y] + f[D \ {y}]
  <2>1. Cardinality(D) \in T
    BY <1>5, FS_CardinalityType
  <2> QED BY <2>1
<1>7. SumOn(w, D) = f[D] /\ SumOn(w, D \ {y}) = f[D \ {y}]
  BY <1>1, SumIsPartial
<1> QED BY <1>6, <1>7

\* A sum depends on what is summed only.
LEMMA SumSame ==
  ASSUME NEW D, IsFiniteSet(D), NEW w, NEW v, \A x \in D : w[x] \in Int /\ w[x] = v[x]
  PROVE  SumOn(w, D) = SumOn(v, D)
<1>1. PICK f \in [SUBSET D -> Int] : Partial(w, D, f)
  BY PartialExists
<1>2. PICK g \in [SUBSET D -> Int] : Partial(v, D, g)
  BY PartialExists
<1>3. f[D] = g[D]
  BY <1>1, <1>2, PartialUnique
<1>4. SumOn(w, D) = f[D] /\ SumOn(v, D) = g[D]
  BY <1>1, <1>2, SumIsPartial
<1> QED BY <1>3, <1>4

\* One summand changes.
LEMMA SumChange ==
  ASSUME NEW D, IsFiniteSet(D), NEW w, NEW v, NEW y \in D,
         \A x \in D : w[x] \in Int /\ v[x] \in Int,
         \A x \in D \ {y} : v[x] = w[x]
  PROVE  SumOn(v, D) = SumOn(w, D) - w[y] + v[y]
<1>1. IsFiniteSet(D \ {y})
  BY FS_Subset
<1>2. SumOn(v, D \ {y}) = SumOn(w, D \ {y}) /\ SumOn(w, D \ {y}) \in Int
  BY <1>1, SumSame, SumInt
<1>3. SumOn(w, D) = w[y] + SumOn(w, D \ {y}) /\ SumOn(v, D) = v[y] + SumOn(v, D \ {y})
  BY SumRemove
<1> QED BY <1>2, <1>3

\* Larger summands make a larger sum.
LEMMA SumOrder ==
  ASSUME NEW D, IsFiniteSet(D), NEW w, NEW v,
         \A x \in D : w[x] \in Int /\ v[x] \in Int /\ w[x] <= v[x]
  PROVE  SumOn(w, D) <= SumOn(v, D)
<1> DEFINE Ordered(n) == \A s \in SUBSET D : Cardinality(s) = n => SumOn(w, s) <= SumOn(v, s)
           T == {n \in Nat : Ordered(n)}
<1>1. 0 \in T
  <2>1. ASSUME NEW s \in SUBSET D, Cardinality(s) = 0 PROVE SumOn(w, s) = 0 /\ SumOn(v, s) = 0
    BY <2>1, FS_Subset, FS_EmptySet, SumEmpty
  <2> QED BY <2>1
<1>2. ASSUME NEW n \in T PROVE n + 1 \in T
  <2>1. ASSUME NEW s \in SUBSET D, Cardinality(s) = n + 1 PROVE SumOn(w, s) <= SumOn(v, s)
    <3>1. PICK y : y \in s
      BY <2>1, FS_EmptySet
    <3>2. /\ IsFiniteSet(s) /\ s \ {y} \in SUBSET D /\ Cardinality(s \ {y}) = n
          /\ IsFiniteSet(s \ {y})
      <4>1. IsFiniteSet(s \ {y}) /\ Cardinality(s \ {y}) = Cardinality(s) - 1 /\ IsFiniteSet(s)
        BY <3>1, Smaller
      <4> QED BY <2>1, <4>1
    <3>3. SumOn(w, s \ {y}) <= SumOn(v, s \ {y})
      BY <3>2
    <3>4. SumOn(w, s \ {y}) \in Int /\ SumOn(v, s \ {y}) \in Int
      BY <3>2, SumInt
    <3>5. SumOn(w, s) = w[y] + SumOn(w, s \ {y}) /\ SumOn(v, s) = v[y] + SumOn(v, s \ {y})
      BY <3>1, <3>2, SumRemove
    <3> QED BY <3>1, <3>3, <3>4, <3>5
  <2>2. Ordered(n + 1)
    BY <2>1
  <2> QED BY <2>2
<1>3. T = Nat
  <2> HIDE DEF Ordered
  <2> QED BY <1>1, <1>2, NatSetInduction
<1>4. Cardinality(D) \in T
  BY <1>3, FS_CardinalityType
<1> QED BY <1>4

\* A sum of ones counts.
LEMMA SumOfOnes ==
  ASSUME NEW D, IsFiniteSet(D), NEW w, NEW A \in SUBSET D,
         \A x \in A : w[x] = 1, \A x \in D \ A : w[x] = 0
  PROVE  SumOn(w, D) = Cardinality(A)
<1> DEFINE Counts(n) == \A s \in SUBSET D : Cardinality(s) = n =>
                          SumOn(w, s) = Cardinality(s \cap A)
           T == {n \in Nat : Counts(n)}
<1>1. 0 \in T
  <2>1. ASSUME NEW s \in SUBSET D, Cardinality(s) = 0
        PROVE  SumOn(w, s) = 0 /\ Cardinality(s \cap A) = 0
    <3>1. s = {}
      BY <2>1, FS_Subset, FS_EmptySet
    <3> QED BY <3>1, FS_EmptySet, SumEmpty
  <2> QED BY <2>1
<1>2. ASSUME NEW n \in T PROVE n + 1 \in T
  <2>1. ASSUME NEW s \in SUBSET D, Cardinality(s) = n + 1
        PROVE  SumOn(w, s) = Cardinality(s \cap A)
    <3>1. PICK y : y \in s
      BY <2>1, FS_EmptySet
    <3>2. IsFiniteSet(s) /\ s \ {y} \in SUBSET D /\ Cardinality(s \ {y}) = n
      <4>1. IsFiniteSet(s) /\ Cardinality(s \ {y}) = Cardinality(s) - 1
        BY <3>1, Smaller
      <4> QED BY <2>1, <4>1
    <3>3. SumOn(w, s \ {y}) = Cardinality((s \ {y}) \cap A)
      BY <3>2
    <3>4. SumOn(w, s) = w[y] + SumOn(w, s \ {y})
      BY <3>1, <3>2, SumRemove
    <3>5. IsFiniteSet(s \cap A) /\ (s \ {y}) \cap A = (s \cap A) \ {y}
      BY <3>2, FS_Subset
    <3>6. Cardinality((s \cap A) \ {y}) =
            IF y \in s \cap A THEN Cardinality(s \cap A) - 1 ELSE Cardinality(s \cap A)
      BY <3>5, FS_RemoveElement
    <3>7. Cardinality(s \cap A) \in Nat
      BY <3>5, FS_CardinalityType
    <3>8. CASE y \in A
      <4>1. y \in s \cap A /\ w[y] = 1
        BY <3>1, <3>8
      <4> QED BY <3>3, <3>4, <3>5, <3>6, <3>7, <4>1
    <3>9. CASE y \notin A
      <4>1. y \notin s \cap A /\ w[y] = 0
        BY <3>1, <3>9
      <4> QED BY <3>3, <3>4, <3>5, <3>6, <3>7, <4>1
    <3> QED BY <3>8, <3>9
  <2>2. Counts(n + 1)
    BY <2>1
  <2> QED BY <2>2
<1>3. T = Nat
  <2> HIDE DEF Counts
  <2> QED BY <1>1, <1>2, NatSetInduction
<1>4. Cardinality(D) \in T /\ D \cap A = A
  BY <1>3, FS_CardinalityType
<1> QED BY <1>4

\* A sum of naturals is at least each of them.
LEMMA SumAtLeast ==
  ASSUME NEW D, IsFiniteSet(D), NEW w, \A x \in D : w[x] \in Int /\ w[x] >= 0, NEW y \in D
  PROVE  w[y] <= SumOn(w, D)
<1> DEFINE z == [x \in D |-> 0]
           D1 == D \ {y}
<1>1. IsFiniteSet(D1)
  BY FS_Subset
<1>2. SumOn(z, D1) <= SumOn(w, D1)
  <2>1. \A x \in D1 : z[x] \in Int /\ w[x] \in Int /\ z[x] <= w[x]
    OBVIOUS
  <2> HIDE DEF z, D1
  <2> QED BY <1>1, <2>1, SumOrder
<1>3. SumOn(z, D1) = 0
  <2>1. \A x \in D1 : z[x] = 0
    OBVIOUS
  <2> HIDE DEF z, D1
  <2>2. SumOn(z, D1) = Cardinality({})
    BY <1>1, <2>1, SumOfOnes
  <2> QED BY <2>2, FS_EmptySet
<1>4. SumOn(w, D) = w[y] + SumOn(w, D1) /\ SumOn(w, D1) \in Int
  BY <1>1, SumRemove, SumInt
<1> QED BY <1>2, <1>3, <1>4
================================================================================
