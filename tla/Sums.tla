-------------------------------- MODULE Sums --------------------------------
(***************************************************************************)
(* Sums over finite sets: what SumFunctionOnSet of the community modules   *)
(* computes.  It is a fold, defined by a CHOOSE over functions on the      *)
(* subsets of a set; the lemmas show that such a function exists           *)
(* (SolvedAll), that there is one only (Unique), and from its equation     *)
(* what a sum is of its parts.  They go by the least counterexample: the   *)
(* induction theorems of the library cannot be instantiated.               *)
(***************************************************************************)
EXTENDS FiniteSetsExt, TLAPS, FiniteSetTheorems

(* Induction: a set of natural numbers has a least element.                *)
LEMMA Least ==
  ASSUME NEW T \in SUBSET Nat, T # {}
  PROVE  \E m \in T : \A n \in T : m <= n
<1> DEFINE R == OpToRel(<, Nat)
<1>1. IsWellFoundedOn(R, Nat)
  BY NatLessThanWellFounded
<1>2. \A x, y \in Nat : x < y => <<x, y>> \in R
  BY DEF OpToRel
<1> HIDE DEF R
<1>3. PICK m \in T : \A n \in T : ~ (<<n, m>> \in R)
  BY <1>1, WFMin
<1>4. \A n \in T : m <= n
  <2> TAKE n \in T
  <2>1. m \in Nat /\ n \in Nat
    OBVIOUS
  <2>2. ~(n < m)
    BY <1>2, <1>3, <2>1
  <2>3. QED
    BY <2>1, <2>2
<1>5. QED
  BY <1>4

(* A set of numbers that counting from 0 does not leave is all of them.    *)
LEMMA Counting ==
  ASSUME NEW G \in SUBSET Nat, 0 \in G, \A n \in G : n + 1 \in G
  PROVE  G = Nat
<1> SUFFICES ASSUME Nat \ G # {} PROVE FALSE
  OBVIOUS
<1>1. PICK m \in Nat \ G : \A n \in Nat \ G : m <= n
  BY Least
<1>2. m - 1 \in Nat /\ m - 1 < m
  BY <1>1
<1>3. m - 1 \in G
  BY <1>1, <1>2
<1>4. QED
  BY <1>1, <1>3

-----------------------------------------------------------------------------
Any(s) == CHOOSE x \in s : TRUE

Rest(s) == s \ {Any(s)}

(* What a fold computes of a set from what it computes of the rest.        *)
Body(f, g, s) == IF s = {} THEN 0 ELSE f[Any(s)] + g[Rest(s)]

Iter(f, S) == CHOOSE iter : iter = [s \in SUBSET S |-> Body(f, iter, s)]

(* The sum is the value of the iteration at the whole set.                 *)
LEMMA SumIsIter ==
  ASSUME NEW f, NEW S PROVE SumFunctionOnSet(f, S) = Iter(f, S)[S]
  BY DEF SumFunctionOnSet, FoldFunctionOnSet, MapThenFoldSet, Iter, Body, Any, Rest

(* The element a fold takes first is one of the set.                       *)
LEMMA AnyIn == ASSUME NEW s, s # {} PROVE Any(s) \in s
  BY DEF Any

(* Sets of at most n elements.                                             *)
Small(S, n) == {s \in SUBSET S : Cardinality(s) <= n}

(* What is left then is smaller by one.                                    *)
LEMMA RestSmall ==
  ASSUME NEW S, IsFiniteSet(S), NEW s \in SUBSET S, s # {}
  PROVE  /\ Rest(s) \in SUBSET S
         /\ Cardinality(s) \in Nat /\ Cardinality(Rest(s)) \in Nat
         /\ Cardinality(Rest(s)) = Cardinality(s) - 1
<1>1. IsFiniteSet(s) /\ Any(s) \in s
  BY FS_Subset, AnyIn
<1>2. QED
  BY <1>1, FS_RemoveElement, FS_CardinalityType DEF Rest

(* The equation of a fold has a solution on the sets of at most n elements.*)
Solved(f, S, n) == \E g : g = [s \in Small(S, n) |-> Body(f, g, s)]

(* It has one for every n, by induction on n.                              *)
LEMMA SolvedAll ==
  ASSUME NEW f, NEW S, IsFiniteSet(S)
  PROVE  \A n \in Nat : Solved(f, S, n)
<1> DEFINE G == {n \in Nat : Solved(f, S, n)}
<1>0. \A s \in SUBSET S : Cardinality(s) \in Nat /\ (Cardinality(s) = 0 <=> s = {})
  BY FS_Subset, FS_CardinalityType, FS_EmptySet
<1>1. 0 \in G
  <2> DEFINE g == [s \in Small(S, 0) |-> 0]
  <2>1. \A s \in Small(S, 0) : s = {}
    BY <1>0 DEF Small
  <2>2. \A s \in Small(S, 0) : Body(f, g, s) = 0
    BY <2>1 DEF Body
  <2>3. g = [s \in Small(S, 0) |-> Body(f, g, s)]
    BY <2>2
  <2> HIDE DEF g
  <2>4. Solved(f, S, 0)
    BY <2>3 DEF Solved
  <2>5. QED
    BY <2>4
<1>2. ASSUME NEW n \in G PROVE n + 1 \in G
  <2>1. PICK g : g = [s \in Small(S, n) |-> Body(f, g, s)]
    BY DEF Solved
  <2> DEFINE h == [s \in Small(S, n + 1) |-> Body(f, g, s)]
  <2>2. \A s \in Small(S, n) : s \in Small(S, n + 1) /\ g[s] = h[s]
    <3> TAKE s \in Small(S, n)
    <3>1. s \in Small(S, n + 1)
      BY <1>0 DEF Small
    <3>2. g[s] = Body(f, g, s)
      BY <2>1, Zenon
    <3>3. QED
      BY <3>1, <3>2
  <2>3. \A s \in Small(S, n + 1) : s # {} => Rest(s) \in Small(S, n)
    BY RestSmall DEF Small
  <2>4. \A s \in Small(S, n + 1) : Body(f, g, s) = Body(f, h, s)
    BY <2>2, <2>3 DEF Body
  <2>5. h = [s \in Small(S, n + 1) |-> Body(f, h, s)]
    BY <2>4, Zenon
  <2> HIDE DEF h
  <2>6. QED
    BY <2>5 DEF Solved
<1> HIDE DEF G
<1>3. G = Nat
  BY <1>1, <1>2, Counting DEF G
<1>4. QED
  BY <1>3 DEF G

(* The chosen function is a solution.                                      *)
LEMMA IterEquation ==
  ASSUME NEW f, NEW S, IsFiniteSet(S)
  PROVE  Iter(f, S) = [s \in SUBSET S |-> Body(f, Iter(f, S), s)]
<1>1. Cardinality(S) \in Nat /\ Solved(f, S, Cardinality(S))
  BY SolvedAll, FS_CardinalityType
<1>2. Small(S, Cardinality(S)) = SUBSET S
  BY FS_Subset DEF Small
<1>3. \E g : g = [s \in SUBSET S |-> Body(f, g, s)]
  BY <1>1, <1>2 DEF Solved
<1>4. QED
  BY <1>3, Zenon DEF Iter

-----------------------------------------------------------------------------
(* Induction on the size of a subset.                                      *)
LEMMA SetInduction ==
  ASSUME NEW S, IsFiniteSet(S), NEW G \in SUBSET (SUBSET S),
         ASSUME NEW s \in SUBSET S,
                \A t \in SUBSET S : Cardinality(t) < Cardinality(s) => t \in G
         PROVE  s \in G
  PROVE  G = SUBSET S
<1> SUFFICES ASSUME NEW u \in SUBSET S, u \notin G PROVE FALSE
  OBVIOUS
<1> DEFINE T == {Cardinality(s) : s \in (SUBSET S) \ G}
<1>1. \A s \in SUBSET S : Cardinality(s) \in Nat
  BY FS_Subset, FS_CardinalityType
<1>2. T \in SUBSET Nat /\ T # {}
  BY <1>1
<1>3. PICK m \in T : \A n \in T : m <= n
  BY <1>2, Least
<1>4. PICK s \in (SUBSET S) \ G : Cardinality(s) = m
  OBVIOUS
<1>5. \A t \in SUBSET S : Cardinality(t) < Cardinality(s) => t \in G
  <2> SUFFICES ASSUME NEW t \in SUBSET S, t \notin G, Cardinality(t) < m PROVE FALSE
    BY <1>4
  <2>1. Cardinality(t) \in T
    OBVIOUS
  <2>2. m <= Cardinality(t) /\ m \in Nat /\ Cardinality(t) \in Nat
    BY <1>2, <1>3, <2>1
  <2>3. QED
    BY <2>2
<1>6. s \in G
  BY <1>5
<1>7. QED
  BY <1>4, <1>6

(* Two solutions, for terms that are the same, are the same.               *)
LEMMA Unique ==
  ASSUME NEW S, IsFiniteSet(S), NEW d, NEW e, \A x \in S : d[x] = e[x], NEW g, NEW h,
         \A s \in SUBSET S : g[s] = Body(d, g, s),
         \A s \in SUBSET S : h[s] = Body(e, h, s)
  PROVE  \A s \in SUBSET S : g[s] = h[s]
<1> DEFINE G == {s \in SUBSET S : g[s] = h[s]}
<1>1. ASSUME NEW s \in SUBSET S,
             \A t \in SUBSET S : Cardinality(t) < Cardinality(s) => t \in G
      PROVE  s \in G
  <2>1. CASE s = {}
    BY <2>1 DEF Body
  <2>2. CASE s # {}
    <3>1. Rest(s) \in SUBSET S /\ Cardinality(Rest(s)) < Cardinality(s)
      BY <2>2, RestSmall
    <3>2. g[Rest(s)] = h[Rest(s)]
      BY <1>1, <3>1
    <3>3. d[Any(s)] = e[Any(s)]
      BY <2>2, AnyIn
    <3>4. Body(d, g, s) = Body(e, h, s)
      BY <2>2, <3>2, <3>3 DEF Body
    <3>5. QED
      BY <3>4
  <2>3. QED
    BY <2>1, <2>2
<1> HIDE DEF G
<1>2. G \in SUBSET (SUBSET S)
  BY DEF G
<1>3. G = SUBSET S
  BY <1>1, <1>2, SetInduction
<1>4. QED
  BY <1>3 DEF G

(* The equation at one subset.                                             *)
LEMMA IterOf ==
  ASSUME NEW f, NEW S, IsFiniteSet(S), NEW s \in SUBSET S
  PROVE  Iter(f, S)[s] = Body(f, Iter(f, S), s)
<1>1. \A g : g = [t \in SUBSET S |-> Body(f, g, t)] => g[s] = Body(f, g, s)
  BY Zenon
<1>2. QED
  BY <1>1, IterEquation, Zenon

(* A sum over part of a set does not depend on the set.                    *)
LEMMA IterPart ==
  ASSUME NEW f, NEW S, IsFiniteSet(S), NEW T \in SUBSET S
  PROVE  Iter(f, S)[T] = SumFunctionOnSet(f, T)
<1>1. IsFiniteSet(T)
  BY FS_Subset
<1>2. \A s \in SUBSET T : s \in SUBSET S
  OBVIOUS
<1>3. /\ \A s \in SUBSET T : Iter(f, S)[s] = Body(f, Iter(f, S), s)
      /\ \A s \in SUBSET T : Iter(f, T)[s] = Body(f, Iter(f, T), s)
  BY <1>1, <1>2, IterOf
<1> DEFINE g == Iter(f, S)
           h == Iter(f, T)
<1>4. /\ \A s \in SUBSET T : g[s] = Body(f, g, s)
      /\ \A s \in SUBSET T : h[s] = Body(f, h, s)
  BY <1>3
<1> HIDE DEF g, h
<1>5. \A s \in SUBSET T : g[s] = h[s]
  BY <1>1, <1>4, Unique
<1>6. QED
  BY <1>5, SumIsIter DEF g, h

-----------------------------------------------------------------------------
(* The empty sum.                                                          *)
LEMMA SumEmpty == ASSUME NEW f PROVE SumFunctionOnSet(f, {}) = 0
  BY IterOf, SumIsIter, FS_EmptySet DEF Body

(* A sum is its first term and the sum of the rest.                        *)
LEMMA SumRest ==
  ASSUME NEW f, NEW S, IsFiniteSet(S), S # {}
  PROVE  SumFunctionOnSet(f, S) = f[Any(S)] + SumFunctionOnSet(f, Rest(S))
<1>1. Iter(f, S)[S] = f[Any(S)] + Iter(f, S)[Rest(S)]
  BY IterOf DEF Body
<1>2. Iter(f, S)[Rest(S)] = SumFunctionOnSet(f, Rest(S))
  BY IterPart DEF Rest
<1>3. QED
  BY <1>1, <1>2, SumIsIter

(* Sums of the same values are the same.                                   *)
LEMMA SumSame ==
  ASSUME NEW S, IsFiniteSet(S), NEW d, NEW e, \A x \in S : d[x] = e[x]
  PROVE  SumFunctionOnSet(d, S) = SumFunctionOnSet(e, S)
<1> DEFINE g == Iter(d, S)
           h == Iter(e, S)
<1>1. /\ \A s \in SUBSET S : g[s] = Body(d, g, s)
      /\ \A s \in SUBSET S : h[s] = Body(e, h, s)
  BY IterOf
<1>2. g[S] = SumFunctionOnSet(d, S) /\ h[S] = SumFunctionOnSet(e, S)
  BY SumIsIter
<1> HIDE DEF g, h
<1>3. \A s \in SUBSET S : g[s] = h[s]
  BY <1>1, Unique
<1>4. QED
  BY <1>2, <1>3

(* Sums of integers are integers.                                          *)
LEMMA SumInt ==
  ASSUME NEW S, IsFiniteSet(S), NEW f, \A x \in S : f[x] \in Int
  PROVE  SumFunctionOnSet(f, S) \in Int
<1> DEFINE G == {s \in SUBSET S : SumFunctionOnSet(f, s) \in Int}
<1>1. ASSUME NEW s \in SUBSET S,
             \A t \in SUBSET S : Cardinality(t) < Cardinality(s) => t \in G
      PROVE  s \in G
  <2>1. CASE s = {}
    BY <2>1, SumEmpty
  <2>2. CASE s # {}
    <3>1. Rest(s) \in SUBSET S /\ Cardinality(Rest(s)) < Cardinality(s) /\ IsFiniteSet(s)
      BY <2>2, RestSmall, FS_Subset
    <3>2. SumFunctionOnSet(f, Rest(s)) \in Int
      BY <1>1, <3>1
    <3>3. f[Any(s)] \in Int
      BY <2>2, AnyIn
    <3>4. SumFunctionOnSet(f, s) \in Int
      BY <2>2, <3>1, <3>2, <3>3, SumRest
    <3>5. QED
      BY <3>4
  <2>3. QED
    BY <2>1, <2>2
<1>2. G \in SUBSET (SUBSET S)
  OBVIOUS
<1> HIDE DEF G
<1>3. G = SUBSET S
  BY <1>1, <1>2, SetInduction
<1>4. QED
  BY <1>3 DEF G

(* A sum is any of its terms and the sum of the others.                    *)
LEMMA SumRemove ==
  ASSUME NEW S, IsFiniteSet(S), NEW f, \A x \in S : f[x] \in Int, NEW y \in S
  PROVE  SumFunctionOnSet(f, S) = f[y] + SumFunctionOnSet(f, S \ {y})
<1> DEFINE Sum(s) == SumFunctionOnSet(f, s)
           G == {s \in SUBSET S : \A x \in s : Sum(s) = f[x] + Sum(s \ {x})}
<1>0. \A s \in SUBSET S : IsFiniteSet(s) /\ Sum(s) \in Int
  BY FS_Subset, SumInt
<1>1. ASSUME NEW s \in SUBSET S,
             \A t \in SUBSET S : Cardinality(t) < Cardinality(s) => t \in G
      PROVE  s \in G
  <2> SUFFICES ASSUME NEW x \in s PROVE Sum(s) = f[x] + Sum(s \ {x})
    OBVIOUS
  <2> DEFINE z == Any(s)
  <2>1. Sum(s) = f[z] + Sum(s \ {z}) /\ z \in s
    BY <1>0, SumRest, AnyIn DEF Rest
  <2> HIDE DEF z
  <2>2. CASE x = z
    BY <2>1, <2>2
  <2>3. CASE x # z
    <3>1. ASSUME NEW w \in s
          PROVE  s \ {w} \in SUBSET S /\ Cardinality(s \ {w}) < Cardinality(s)
      <4>1. IsFiniteSet(s) /\ Cardinality(s) \in Nat
        BY <1>0, FS_CardinalityType
      <4>2. Cardinality(s \ {w}) = Cardinality(s) - 1
        BY <4>1, FS_RemoveElement
      <4>3. QED
        BY <4>1, <4>2
    <3>2. s \ {x} \in G /\ s \ {z} \in G
      BY <1>1, <2>1, <3>1
    <3>3. Sum(s \ {x}) = f[z] + Sum((s \ {x}) \ {z})
      BY <2>1, <2>3, <3>2
    <3>4. Sum(s \ {z}) = f[x] + Sum((s \ {z}) \ {x})
      BY <2>3, <3>2
    <3>5. (s \ {x}) \ {z} = (s \ {z}) \ {x}
      OBVIOUS
    <3>6. Sum((s \ {z}) \ {x}) \in Int /\ f[x] \in Int /\ f[z] \in Int
      BY <1>0, <2>1
    <3>7. ASSUME NEW a \in Int, NEW b \in Int, NEW c \in Int,
                 Sum(s) = b + Sum(s \ {z}), Sum(s \ {z}) = a + c, Sum(s \ {x}) = b + c
          PROVE  Sum(s) = a + Sum(s \ {x})
      BY <3>7
    <3>8. QED
      BY <2>1, <3>3, <3>4, <3>5, <3>6, <3>7
  <2>4. QED
    BY <2>2, <2>3
<1>2. G \in SUBSET (SUBSET S)
  OBVIOUS
<1> HIDE DEF G
<1>3. G = SUBSET S
  BY <1>1, <1>2, SetInduction
<1>4. QED
  BY <1>3 DEF G

(* Two families of terms that differ in one have sums that differ by it.   *)
LEMMA SumUpdate ==
  ASSUME NEW S, IsFiniteSet(S), NEW d, NEW e,
         \A x \in S : d[x] \in Int, \A x \in S : e[x] \in Int,
         NEW y \in S, \A x \in S : x # y => d[x] = e[x]
  PROVE  SumFunctionOnSet(e, S) - e[y] = SumFunctionOnSet(d, S) - d[y]
<1>1. IsFiniteSet(S \ {y}) /\ \A x \in S \ {y} : d[x] = e[x]
  BY FS_Subset
<1>2. SumFunctionOnSet(d, S \ {y}) = SumFunctionOnSet(e, S \ {y})
  BY <1>1, SumSame
<1>3. SumFunctionOnSet(d, S \ {y}) \in Int
  BY <1>1, SumInt
<1>4. /\ SumFunctionOnSet(d, S) = d[y] + SumFunctionOnSet(d, S \ {y})
      /\ SumFunctionOnSet(e, S) = e[y] + SumFunctionOnSet(e, S \ {y})
  BY SumRemove
<1>5. d[y] \in Int /\ e[y] \in Int
  OBVIOUS
<1>6. QED
  BY <1>2, <1>3, <1>4, <1>5

(* A sum over part of a set is one over the set with other terms zero.     *)
LEMMA SumRestrict ==
  ASSUME NEW S, IsFiniteSet(S), NEW T \in SUBSET S, NEW f, \A x \in T : f[x] \in Int
  PROVE  SumFunctionOnSet(f, T) = SumFunctionOnSet([x \in S |-> IF x \in T THEN f[x] ELSE 0], S)
<1> DEFINE e == [x \in S |-> IF x \in T THEN f[x] ELSE 0]
           G == {s \in SUBSET S : SumFunctionOnSet(f, s \cap T) = SumFunctionOnSet(e, s)}
<1>0. \A x \in S : e[x] \in Int /\ e[x] = IF x \in T THEN f[x] ELSE 0
  OBVIOUS
<1> HIDE DEF e
<1>1. ASSUME NEW s \in SUBSET S,
             \A t \in SUBSET S : Cardinality(t) < Cardinality(s) => t \in G
      PROVE  s \in G
  <2>1. CASE s = {}
    BY <2>1, SumEmpty
  <2>2. CASE s # {}
    <3> DEFINE y == Any(s)
    <3>1. /\ Rest(s) \in SUBSET S /\ Cardinality(Rest(s)) < Cardinality(s) /\ IsFiniteSet(s)
          /\ y \in s /\ Rest(s) = s \ {y}
      BY <2>2, RestSmall, FS_Subset, AnyIn DEF Rest
    <3>2. SumFunctionOnSet(f, (s \ {y}) \cap T) = SumFunctionOnSet(e, s \ {y})
      BY <1>1, <3>1
    <3>3. SumFunctionOnSet(e, s) = e[y] + SumFunctionOnSet(e, s \ {y})
      BY <2>2, <3>1, SumRest
    <3> HIDE DEF y
    <3>4. CASE y \in T
      <4>1. IsFiniteSet(s \cap T) /\ y \in s \cap T /\ (s \ {y}) \cap T = (s \cap T) \ {y}
        BY <3>1, <3>4, FS_Subset
      <4>2. SumFunctionOnSet(f, s \cap T) = f[y] + SumFunctionOnSet(f, (s \cap T) \ {y})
        BY <4>1, SumRemove
      <4>3. QED
        BY <1>0, <3>1, <3>2, <3>3, <3>4, <4>1, <4>2
    <3>5. CASE y \notin T
      <4>1. (s \ {y}) \cap T = s \cap T
        BY <3>5
      <4>2. e[y] = 0 /\ SumFunctionOnSet(e, s \ {y}) \in Int
        <5>1. IsFiniteSet(s \ {y}) /\ \A x \in s \ {y} : e[x] \in Int
          BY <1>0, <3>1, FS_Subset
        <5>2. QED
          BY <1>0, <3>1, <3>5, <5>1, SumInt
      <4>3. SumFunctionOnSet(e, s) = SumFunctionOnSet(e, s \ {y})
        BY <3>3, <4>2
      <4>4. SumFunctionOnSet(f, s \cap T) = SumFunctionOnSet(e, s \ {y})
        BY <3>2, <4>1
      <4>5. QED
        BY <4>3, <4>4
    <3>6. QED
      BY <3>4, <3>5
  <2>3. QED
    BY <2>1, <2>2
<1>2. G \in SUBSET (SUBSET S)
  OBVIOUS
<1> HIDE DEF G
<1>3. G = SUBSET S
  BY <1>1, <1>2, SetInduction
<1>4. S \cap T = T
  OBVIOUS
<1>5. QED
  BY <1>3, <1>4 DEF G, e

(* Sums of natural numbers are natural numbers, ...                        *)
LEMMA SumNat ==
  ASSUME NEW S, IsFiniteSet(S), NEW f, \A x \in S : f[x] \in Nat
  PROVE  SumFunctionOnSet(f, S) \in Nat
<1> DEFINE G == {s \in SUBSET S : SumFunctionOnSet(f, s) \in Nat}
<1>1. ASSUME NEW s \in SUBSET S,
             \A t \in SUBSET S : Cardinality(t) < Cardinality(s) => t \in G
      PROVE  s \in G
  <2>1. CASE s = {}
    BY <2>1, SumEmpty
  <2>2. CASE s # {}
    <3>1. Rest(s) \in SUBSET S /\ Cardinality(Rest(s)) < Cardinality(s) /\ IsFiniteSet(s)
      BY <2>2, RestSmall, FS_Subset
    <3>2. SumFunctionOnSet(f, Rest(s)) \in Nat /\ f[Any(s)] \in Nat
      BY <1>1, <2>2, <3>1, AnyIn
    <3>3. SumFunctionOnSet(f, s) \in Nat
      BY <2>2, <3>1, <3>2, SumRest
    <3>4. QED
      BY <3>3
  <2>3. QED
    BY <2>1, <2>2
<1>2. G \in SUBSET (SUBSET S)
  OBVIOUS
<1> HIDE DEF G
<1>3. G = SUBSET S
  BY <1>1, <1>2, SetInduction
<1>4. QED
  BY <1>3 DEF G

(* ... and of positive ones positive, but for the empty sum.               *)
LEMMA SumPositive ==
  ASSUME NEW S, IsFiniteSet(S), NEW f, \A x \in S : f[x] \in Nat /\ f[x] > 0
  PROVE  SumFunctionOnSet(f, S) = 0 <=> S = {}
<1>1. CASE S = {}
  BY <1>1, SumEmpty
<1>2. CASE S # {}
  <2>1. IsFiniteSet(Rest(S)) /\ f[Any(S)] \in Nat /\ f[Any(S)] > 0
    BY <1>2, AnyIn, FS_Subset DEF Rest
  <2>2. SumFunctionOnSet(f, Rest(S)) \in Nat
    BY <2>1, SumNat DEF Rest
  <2>3. QED
    BY <1>2, <2>1, <2>2, SumRest
<1>3. QED
  BY <1>1, <1>2

(* The sum of two families of terms, term by term.                         *)
LEMMA SumPlus ==
  ASSUME NEW S, IsFiniteSet(S), NEW d, NEW e, NEW f,
         \A x \in S : d[x] \in Int /\ e[x] \in Int /\ f[x] = d[x] + e[x]
  PROVE  SumFunctionOnSet(f, S) = SumFunctionOnSet(d, S) + SumFunctionOnSet(e, S)
<1> DEFINE Sum(g, s) == SumFunctionOnSet(g, s)
           G == {s \in SUBSET S : Sum(f, s) = Sum(d, s) + Sum(e, s)}
<1>0. \A s \in SUBSET S : IsFiniteSet(s) /\ Sum(d, s) \in Int /\ Sum(e, s) \in Int
  BY FS_Subset, SumInt
<1>1. ASSUME NEW s \in SUBSET S,
             \A t \in SUBSET S : Cardinality(t) < Cardinality(s) => t \in G
      PROVE  s \in G
  <2>1. CASE s = {}
    BY <2>1, SumEmpty
  <2>2. CASE s # {}
    <3>1. Rest(s) \in SUBSET S /\ Cardinality(Rest(s)) < Cardinality(s) /\ Any(s) \in S
      BY <2>2, RestSmall, AnyIn
    <3>2. Sum(f, Rest(s)) = Sum(d, Rest(s)) + Sum(e, Rest(s))
      BY <1>1, <3>1
    <3>3. /\ Sum(d, Rest(s)) \in Int /\ Sum(e, Rest(s)) \in Int
          /\ d[Any(s)] \in Int /\ e[Any(s)] \in Int /\ f[Any(s)] = d[Any(s)] + e[Any(s)]
      BY <1>0, <3>1
    <3>4. /\ Sum(f, s) = f[Any(s)] + Sum(f, Rest(s))
          /\ Sum(d, s) = d[Any(s)] + Sum(d, Rest(s))
          /\ Sum(e, s) = e[Any(s)] + Sum(e, Rest(s))
      BY <1>0, <2>2, SumRest
    <3> HIDE DEF Sum
    <3>5. Sum(f, s) = Sum(d, s) + Sum(e, s)
      BY <3>2, <3>3, <3>4
    <3>6. QED
      BY <3>5
  <2>3. QED
    BY <2>1, <2>2
<1>2. G \in SUBSET (SUBSET S)
  OBVIOUS
<1> HIDE DEF G
<1>3. G = SUBSET S
  BY <1>1, <1>2, SetInduction
<1>4. QED
  BY <1>3 DEF G

(* An identity of sums, from the identity of their terms.                  *)
LEMMA SumsAgree ==
  ASSUME NEW S, IsFiniteSet(S), NEW a, NEW b, NEW c, NEW d,
         \A x \in S : a[x] \in Int /\ b[x] \in Int /\ c[x] \in Int /\ d[x] \in Int,
         \A x \in S : a[x] + b[x] = c[x] + d[x]
  PROVE  SumFunctionOnSet(a, S) + SumFunctionOnSet(b, S)
           = SumFunctionOnSet(c, S) + SumFunctionOnSet(d, S)
<1> DEFINE e == [x \in S |-> a[x] + b[x]]
<1>1. \A x \in S : e[x] = a[x] + b[x] /\ e[x] = c[x] + d[x]
  OBVIOUS
<1> HIDE DEF e
<1>2. SumFunctionOnSet(e, S) = SumFunctionOnSet(a, S) + SumFunctionOnSet(b, S)
  BY <1>1, SumPlus
<1>3. SumFunctionOnSet(e, S) = SumFunctionOnSet(c, S) + SumFunctionOnSet(d, S)
  BY <1>1, SumPlus
<1>4. QED
  BY <1>2, <1>3

(* Larger terms have the larger sum.                                       *)
LEMMA SumMono ==
  ASSUME NEW S, IsFiniteSet(S), NEW d, NEW e,
         \A x \in S : d[x] \in Int /\ e[x] \in Int /\ d[x] <= e[x]
  PROVE  SumFunctionOnSet(d, S) <= SumFunctionOnSet(e, S)
<1> DEFINE f == [x \in S |-> e[x] - d[x]]
<1>1. \A x \in S : f[x] \in Nat /\ d[x] \in Int /\ f[x] \in Int /\ e[x] = d[x] + f[x]
  OBVIOUS
<1> HIDE DEF f
<1>2. SumFunctionOnSet(e, S) = SumFunctionOnSet(d, S) + SumFunctionOnSet(f, S)
  BY <1>1, SumPlus
<1>3. SumFunctionOnSet(f, S) \in Nat /\ SumFunctionOnSet(d, S) \in Int
  BY <1>1, SumNat, SumInt
<1>4. QED
  BY <1>2, <1>3

(* A sum over two disjoint sets.                                           *)
LEMMA SumUnion ==
  ASSUME NEW S, IsFiniteSet(S), NEW T, IsFiniteSet(T), S \cap T = {}, NEW f,
         \A x \in S \cup T : f[x] \in Int
  PROVE  SumFunctionOnSet(f, S \cup T) = SumFunctionOnSet(f, S) + SumFunctionOnSet(f, T)
<1> DEFINE U == S \cup T
           d == [x \in U |-> IF x \in S THEN f[x] ELSE 0]
           e == [x \in U |-> IF x \in T THEN f[x] ELSE 0]
<1>1. IsFiniteSet(U) /\ S \in SUBSET U /\ T \in SUBSET U
  BY FS_Union
<1>2. \A x \in U : d[x] \in Int /\ e[x] \in Int /\ f[x] = d[x] + e[x]
  OBVIOUS
<1>3. SumFunctionOnSet(f, S) = SumFunctionOnSet(d, U) /\ SumFunctionOnSet(f, T) = SumFunctionOnSet(e, U)
  BY <1>1, SumRestrict
<1> HIDE DEF d, e, U
<1>4. SumFunctionOnSet(f, U) = SumFunctionOnSet(d, U) + SumFunctionOnSet(e, U)
  BY <1>1, <1>2, SumPlus
<1>5. QED
  BY <1>3, <1>4 DEF U

(* A set has as many elements as a sum over it of ones.                    *)
LEMMA SumOnes ==
  ASSUME NEW S, IsFiniteSet(S), NEW f, \A x \in S : f[x] = 1
  PROVE  SumFunctionOnSet(f, S) = Cardinality(S)
<1> DEFINE G == {s \in SUBSET S : SumFunctionOnSet(f, s) = Cardinality(s)}
<1>1. ASSUME NEW s \in SUBSET S,
             \A t \in SUBSET S : Cardinality(t) < Cardinality(s) => t \in G
      PROVE  s \in G
  <2>1. CASE s = {}
    BY <2>1, SumEmpty, FS_EmptySet
  <2>2. CASE s # {}
    <3>1. /\ Rest(s) \in SUBSET S /\ IsFiniteSet(s) /\ f[Any(s)] = 1
          /\ Cardinality(s) \in Nat /\ Cardinality(Rest(s)) \in Nat
          /\ Cardinality(Rest(s)) = Cardinality(s) - 1
      BY <2>2, RestSmall, FS_Subset, AnyIn
    <3>2. SumFunctionOnSet(f, Rest(s)) = Cardinality(Rest(s))
      BY <1>1, <3>1
    <3>3. SumFunctionOnSet(f, s) = 1 + Cardinality(Rest(s))
      BY <2>2, <3>1, <3>2, SumRest
    <3>4. SumFunctionOnSet(f, s) = Cardinality(s)
      BY <3>1, <3>3
    <3>5. QED
      BY <3>4
  <2>3. QED
    BY <2>1, <2>2
<1>2. G \in SUBSET (SUBSET S)
  OBVIOUS
<1> HIDE DEF G
<1>3. G = SUBSET S
  BY <1>1, <1>2, SetInduction
<1>4. QED
  BY <1>3 DEF G

(* Part of a sum of natural numbers is at most the sum.                    *)
LEMMA SumPart ==
  ASSUME NEW T, IsFiniteSet(T), NEW S \in SUBSET T, NEW f, \A x \in T : f[x] \in Nat
  PROVE  SumFunctionOnSet(f, S) <= SumFunctionOnSet(f, T)
<1>1. /\ IsFiniteSet(S) /\ IsFiniteSet(T \ S) /\ S \cap (T \ S) = {} /\ S \cup (T \ S) = T
      /\ \A x \in S \cup (T \ S) : f[x] \in Int
  BY FS_Subset
<1>2. SumFunctionOnSet(f, T) = SumFunctionOnSet(f, S) + SumFunctionOnSet(f, T \ S)
  BY <1>1, SumUnion
<1>3. SumFunctionOnSet(f, T \ S) \in Nat /\ SumFunctionOnSet(f, S) \in Nat
  BY <1>1, SumNat
<1>4. QED
  BY <1>2, <1>3

(* Terms that go one to one into a set have the sum of their images.       *)
LEMMA SumImage ==
  ASSUME NEW S, IsFiniteSet(S), NEW f, NEW g, NEW h,
         \A x, y \in S : h[x] = h[y] => x = y,
         \A x \in S : f[x] \in Int /\ f[x] = g[h[x]]
  PROVE  SumFunctionOnSet(g, {h[x] : x \in S}) = SumFunctionOnSet(f, S)
<1> DEFINE Image(s) == {h[x] : x \in s}
           G == {s \in SUBSET S : SumFunctionOnSet(g, Image(s)) = SumFunctionOnSet(f, s)}
<1>1. ASSUME NEW s \in SUBSET S,
             \A t \in SUBSET S : Cardinality(t) < Cardinality(s) => t \in G
      PROVE  s \in G
  <2>1. CASE s = {}
    <3>1. Image(s) = {}
      BY <2>1
    <3> HIDE DEF Image
    <3>2. SumFunctionOnSet(g, Image(s)) = SumFunctionOnSet(f, s)
      BY <2>1, <3>1, SumEmpty
    <3>3. QED
      BY <3>2
  <2>2. CASE s # {}
    <3> DEFINE y == Any(s)
    <3>1. /\ Rest(s) \in SUBSET S /\ Cardinality(Rest(s)) < Cardinality(s) /\ IsFiniteSet(s)
          /\ y \in s /\ Rest(s) = s \ {y}
      BY <2>2, RestSmall, FS_Subset, AnyIn DEF Rest
    <3>2. SumFunctionOnSet(f, s) = f[y] + SumFunctionOnSet(f, s \ {y})
      <4>1. \A x \in s : f[x] \in Int
        OBVIOUS
      <4> HIDE DEF y, Image, G
      <4>2. QED
        BY <3>1, <4>1, SumRemove
    <3>3. SumFunctionOnSet(g, Image(s \ {y})) = SumFunctionOnSet(f, s \ {y})
      BY <1>1, <3>1
    <3> HIDE DEF y
    <3>4. /\ h[y] \in Image(s) /\ Image(s \ {y}) = Image(s) \ {h[y]}
          /\ \A z \in Image(s) : g[z] \in Int
      BY <3>1
    <3>5. IsFiniteSet(Image(s))
      <4> DEFINE j == [x \in s |-> h[x]]
      <4>1. j \in Surjection(s, Image(s))
        BY DEF Surjection
      <4> HIDE DEF j, Image
      <4>2. QED
        BY <3>1, <4>1, FS_Surjection
    <3> HIDE DEF Image
    <3>6. SumFunctionOnSet(g, Image(s)) = g[h[y]] + SumFunctionOnSet(g, Image(s) \ {h[y]})
      BY <3>4, <3>5, SumRemove
    <3>7. SumFunctionOnSet(g, Image(s)) = SumFunctionOnSet(f, s)
      BY <3>1, <3>2, <3>3, <3>4, <3>6
    <3>8. QED
      BY <3>7
  <2>3. QED
    BY <2>1, <2>2
<1>2. G \in SUBSET (SUBSET S)
  OBVIOUS
<1> HIDE DEF G
<1>3. G = SUBSET S
  BY <1>1, <1>2, SetInduction
<1>4. QED
  BY <1>3 DEF G

(* The parts P[v] into which h divides S, ...                              *)
Divides(h, S, V, P) == \A v \in V : P[v] = {x \in S : h[x] = v}

(* ... and a sum over S, part by part.                                     *)
LEMMA SumParts ==
  ASSUME NEW S, IsFiniteSet(S), NEW V, IsFiniteSet(V), NEW h, \A x \in S : h[x] \in V,
         NEW f, \A x \in S : f[x] \in Int,
         NEW P, Divides(h, S, V, P), NEW g, \A v \in V : g[v] = SumFunctionOnSet(f, P[v])
  PROVE  SumFunctionOnSet(g, V) = SumFunctionOnSet(f, S)
<1> DEFINE Over(w) == {x \in S : h[x] \in w}
           G == {w \in SUBSET V : SumFunctionOnSet(g, w) = SumFunctionOnSet(f, Over(w))}
<1>1. ASSUME NEW w \in SUBSET V,
             \A t \in SUBSET V : Cardinality(t) < Cardinality(w) => t \in G
      PROVE  w \in G
  <2>1. CASE w = {}
    <3>1. Over(w) = {}
      BY <2>1
    <3> HIDE DEF Over
    <3>2. SumFunctionOnSet(g, w) = SumFunctionOnSet(f, Over(w))
      BY <2>1, <3>1, SumEmpty
    <3>3. QED
      BY <3>2
  <2>2. CASE w # {}
    <3> DEFINE v == Any(w)
               part == P[v]
               others == Over(w \ {v})
    <3>1. /\ Rest(w) \in SUBSET V /\ Cardinality(Rest(w)) < Cardinality(w) /\ IsFiniteSet(w)
          /\ v \in w /\ Rest(w) = w \ {v}
      BY <2>2, RestSmall, FS_Subset, AnyIn DEF Rest
    <3>2. SumFunctionOnSet(g, w) = g[v] + SumFunctionOnSet(g, w \ {v})
      BY <2>2, <3>1, SumRest
    <3>3. SumFunctionOnSet(g, w \ {v}) = SumFunctionOnSet(f, others)
      BY <1>1, <3>1
    <3> HIDE DEF v
    <3>4. g[v] = SumFunctionOnSet(f, part) /\ part = {x \in S : h[x] = v}
      BY <3>1 DEF Divides
    <3> HIDE DEF part
    <3>5. /\ Over(w) = part \cup others /\ part \cap others = {}
          /\ \A x \in Over(w) : f[x] \in Int
      BY <3>1, <3>4
    <3>6. IsFiniteSet(part) /\ IsFiniteSet(others)
      BY <3>4, FS_Subset
    <3> HIDE DEF others, Over
    <3>7. SumFunctionOnSet(f, part \cup others)
            = SumFunctionOnSet(f, part) + SumFunctionOnSet(f, others)
      <4>1. \A x \in part \cup others : f[x] \in Int
        BY <3>5
      <4>2. part \cap others = {}
        BY <3>5
      <4> HIDE DEF G
      <4>3. QED
        BY <3>6, <4>1, <4>2, SumUnion
    <3>8. SumFunctionOnSet(g, w) = SumFunctionOnSet(f, Over(w))
      BY <3>2, <3>3, <3>4, <3>5, <3>7
    <3>9. QED
      BY <3>8
  <2>3. QED
    BY <2>1, <2>2
<1>2. G \in SUBSET (SUBSET V)
  OBVIOUS
<1> HIDE DEF G
<1>3. G = SUBSET V
  BY <1>1, <1>2, SetInduction
<1>4. Over(V) = S
  OBVIOUS
<1> HIDE DEF Over
<1>5. QED
  BY <1>3, <1>4 DEF G
=============================================================================
