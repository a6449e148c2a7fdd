----------------------------- MODULE SumProofs ------------------------------
(***************************************************************************)
(* Sums over finite sets.  SumFunctionOnSet is a function on the subsets   *)
(* of the set, defined by recursion on an element CHOOSE picks.  It is     *)
(* shown here that there is such a function and that it takes the elements *)
(* in any order, each time by a smallest subset for which it would fail.   *)
(***************************************************************************)
EXTENDS Integers, Functions, FiniteSets, FiniteSetTheorems, WellFoundedInduction, TLAPS

Pick(s) == CHOOSE x \in s : TRUE

(* g sums f over the subsets of S.                                         *)
Sums(f, S, g) ==
    g = [s \in SUBSET S |-> IF s = {} THEN 0 ELSE f[Pick(s)] + g[s \ {Pick(s)}]]

(* The sum is the value of the function the fold chooses.                  *)
LEMMA SumIsChosen ==
    ASSUME NEW f, NEW S
    PROVE  SumFunctionOnSet(f, S) = (CHOOSE g : Sums(f, S, g))[S]
  BY DEF SumFunctionOnSet, FoldFunctionOnSet, MapThenFoldSet, Sums, Pick

(* Among finite sets there is one with the fewest elements.                *)
LEMMA SmallestSet ==
    ASSUME NEW F, F # {}, \A s \in F : IsFiniteSet(s)
    PROVE  \E s \in F : \A t \in F : ~(Cardinality(t) < Cardinality(s))
  <1> DEFINE N == {Cardinality(s) : s \in F}
  <1>1. N \subseteq Nat /\ N # {}
    BY FS_CardinalityType
  <1>2. PICK n \in N : \A m \in N : ~(<<m, n>> \in OpToRel(<, Nat))
    <2> HIDE DEF N
    <2> QED  BY <1>1, NatLessThanWellFounded, WFMin
  <1>3. PICK s \in F : n = Cardinality(s)
    OBVIOUS
  <1>4. ASSUME NEW t \in F PROVE ~(Cardinality(t) < Cardinality(s))
    BY <1>1, <1>2, <1>3 DEF OpToRel
  <1> QED  BY <1>4

(* The element picked is one of the set.                                   *)
LEMMA Picked ==
    ASSUME NEW s, s # {}
    PROVE  Pick(s) \in s
  BY DEF Pick

(* A set without one of its elements is smaller.                           *)
LEMMA Smaller ==
    ASSUME NEW s, IsFiniteSet(s), NEW x \in s
    PROVE  /\ IsFiniteSet(s \ {x})
           /\ Cardinality(s \ {x}) < Cardinality(s)
  <1>1. IsFiniteSet(s \ {x}) /\ Cardinality(s \ {x}) = Cardinality(s) - 1
    BY FS_RemoveElement, Zenon
  <1>2. PICK n \in Nat : n = Cardinality(s)
    BY FS_CardinalityType
  <1> QED  BY <1>1, <1>2

(* What the function is at the empty set and at others.                    *)
LEMMA SumsAt ==
    ASSUME NEW f, NEW S, NEW g, Sums(f, S, g), NEW s, s \subseteq S
    PROVE  g[s] = IF s = {} THEN 0 ELSE f[Pick(s)] + g[s \ {Pick(s)}]
  BY Zenon DEF Sums

(* Two such functions agree where both are defined.                        *)
LEMMA SumsAgree ==
    ASSUME NEW f, NEW S, NEW T, NEW g, NEW h, Sums(f, S, g), Sums(f, T, h),
           NEW s, s \subseteq S, s \subseteq T, IsFiniteSet(s)
    PROVE  g[s] = h[s]
  <1> DEFINE Bad == {t \in SUBSET s : g[t] # h[t]}
  <1>1. SUFFICES ASSUME Bad # {} PROVE FALSE
    OBVIOUS
  <1>2. \A t \in Bad : IsFiniteSet(t) /\ t \subseteq S /\ t \subseteq T /\ t \subseteq s
    BY FS_Subset
  <1>3. PICK t \in Bad : \A r \in Bad : ~(Cardinality(r) < Cardinality(t))
    <2> HIDE DEF Bad
    <2> QED  BY <1>1, <1>2, SmallestSet
  <1>4. g[t] = (IF t = {} THEN 0 ELSE f[Pick(t)] + g[t \ {Pick(t)}])
    BY <1>2, SumsAt
  <1>5. h[t] = (IF t = {} THEN 0 ELSE f[Pick(t)] + h[t \ {Pick(t)}])
    BY <1>2, SumsAt
  <1>6. t # {}
    BY <1>4, <1>5
  <1>7. t \ {Pick(t)} \notin Bad
    BY <1>2, <1>3, <1>6, Picked, Smaller
  <1>8. g[t \ {Pick(t)}] = h[t \ {Pick(t)}]
    BY <1>2, <1>7
  <1> QED  BY <1>4, <1>5, <1>8

(* There is one for every finite set.                                      *)
LEMMA SumsExist ==
    ASSUME NEW f, NEW S, IsFiniteSet(S)
    PROVE  \E g : Sums(f, S, g)
  <1> DEFINE Bad == {t \in SUBSET S : ~\E g : Sums(f, t, g)}
  <1>1. SUFFICES ASSUME Bad # {} PROVE FALSE
    OBVIOUS
  <1>2. \A t \in Bad : IsFiniteSet(t) /\ t \subseteq S
    BY FS_Subset
  <1>3. PICK t \in Bad : \A r \in Bad : ~(Cardinality(r) < Cardinality(t))
    <2> HIDE DEF Bad
    <2> QED  BY <1>1, <1>2, SmallestSet
  <1> DEFINE Below(r) == (CHOOSE g : Sums(f, r, g))[r]
             new == [s \in SUBSET t |-> IF s = {} THEN 0 ELSE f[Pick(s)] + Below(s \ {Pick(s)})]
  <1>4. ASSUME NEW s \in SUBSET t, s # {}
        PROVE  new[s \ {Pick(s)}] = Below(s \ {Pick(s)})
    <2> DEFINE r == s \ {Pick(s)}
               q == r \ {Pick(r)}
    <2>1. IsFiniteSet(s) /\ Cardinality(s) <= Cardinality(t) /\ IsFiniteSet(t) /\ s \subseteq S
      BY <1>2, FS_Subset
    <2>2. Pick(s) \in s /\ IsFiniteSet(r) /\ Cardinality(r) < Cardinality(s)
      BY <1>4, <2>1, Picked, Smaller
    <2>3. Cardinality(r) < Cardinality(t)
      BY <2>1, <2>2, FS_CardinalityType
    <2> DEFINE h == CHOOSE k : Sums(f, r, k)
    <2>4. Sums(f, r, h)
      BY <1>3, <2>1, <2>3
    <2>5. h[r] = IF r = {} THEN 0 ELSE f[Pick(r)] + h[q]
      <3> HIDE DEF h, r
      <3> QED  BY <2>4, SumsAt
    <2>6. ASSUME r # {} PROVE h[q] = Below(q)
      <3>1. Pick(r) \in r /\ IsFiniteSet(q) /\ Cardinality(q) < Cardinality(r)
        BY <2>2, <2>6, Picked, Smaller
      <3>2. Cardinality(q) < Cardinality(t) /\ q \subseteq S /\ q \subseteq r
        BY <2>1, <2>2, <2>3, <3>1, FS_CardinalityType
      <3> DEFINE k == CHOOSE j : Sums(f, q, j)
      <3>3. Sums(f, q, k)
        BY <1>3, <3>2
      <3> HIDE DEF h, k, q, r
      <3>4. h[q] = k[q]
        BY <2>4, <3>1, <3>2, <3>3, SumsAgree
      <3> QED  BY <3>4 DEF k
    <2>7. new[r] = IF r = {} THEN 0 ELSE f[Pick(r)] + Below(q)
      OBVIOUS
    <2> QED  BY <2>5, <2>6, <2>7
  <1>5. new = [s \in SUBSET t |-> IF s = {} THEN 0 ELSE f[Pick(s)] + new[s \ {Pick(s)}]]
    <2> HIDE DEF Below
    <2>1. \A s \in SUBSET t : new[s] = IF s = {} THEN 0 ELSE f[Pick(s)] + new[s \ {Pick(s)}]
      BY <1>4
    <2>2. new = [s \in SUBSET t |-> new[s]]
      OBVIOUS
    <2> HIDE DEF new
    <2> QED  BY <2>1, <2>2
  <1>6. Sums(f, t, new)
    <2> HIDE DEF new
    <2> QED  BY <1>5 DEF Sums
  <1> QED  BY <1>6

(* The sum over no element, ...                                            *)
LEMMA SumNone ==
    ASSUME NEW f
    PROVE  SumFunctionOnSet(f, {}) = 0
  <1> DEFINE g == CHOOSE k : Sums(f, {}, k)
  <1>1. Sums(f, {}, g)
    BY SumsExist, FS_EmptySet
  <1>2. SumFunctionOnSet(f, {}) = g[{}]
    BY SumIsChosen
  <1> HIDE DEF g
  <1> QED  BY <1>1, <1>2, SumsAt

(* ... and over some: first the one picked.                                *)
LEMMA SumPicked ==
    ASSUME NEW f, NEW S, IsFiniteSet(S), S # {}
    PROVE  SumFunctionOnSet(f, S) = f[Pick(S)] + SumFunctionOnSet(f, S \ {Pick(S)})
  <1> DEFINE R == S \ {Pick(S)}
             g == CHOOSE k : Sums(f, S, k)
             h == CHOOSE k : Sums(f, R, k)
  <1>1. IsFiniteSet(R) /\ R \subseteq S
    BY Picked, Smaller
  <1>2. Sums(f, S, g) /\ Sums(f, R, h)
    <2> HIDE DEF R
    <2> QED  BY <1>1, SumsExist
  <1>3. SumFunctionOnSet(f, S) = g[S] /\ SumFunctionOnSet(f, R) = h[R]
    <2> HIDE DEF R
    <2> QED  BY SumIsChosen
  <1> HIDE DEF g, h
  <1>4. g[R] = h[R]
    <2> HIDE DEF R
    <2> QED  BY <1>1, <1>2, SumsAgree
  <1>5. g[S] = f[Pick(S)] + g[R]
    BY <1>2, SumsAt
  <1> QED  BY <1>3, <1>4, <1>5

(* A sum of integers is one.                                               *)
LEMMA SumIsInt ==
    ASSUME NEW f, NEW S, IsFiniteSet(S), \A x \in S : f[x] \in Int
    PROVE  SumFunctionOnSet(f, S) \in Int
  <1> DEFINE Bad == {t \in SUBSET S : SumFunctionOnSet(f, t) \notin Int}
  <1>1. SUFFICES ASSUME Bad # {} PROVE FALSE
    OBVIOUS
  <1>2. \A t \in Bad : IsFiniteSet(t) /\ t \subseteq S
    BY FS_Subset
  <1>3. PICK t \in Bad : \A r \in Bad : ~(Cardinality(r) < Cardinality(t))
    <2> HIDE DEF Bad
    <2> QED  BY <1>1, <1>2, SmallestSet
  <1>4. t # {}
    BY SumNone
  <1>5. Pick(t) \in t /\ t \ {Pick(t)} \notin Bad
    BY <1>2, <1>3, <1>4, Picked, Smaller
  <1>6. SumFunctionOnSet(f, t \ {Pick(t)}) \in Int /\ f[Pick(t)] \in Int
    BY <1>2, <1>5
  <1>7. SumFunctionOnSet(f, t) = f[Pick(t)] + SumFunctionOnSet(f, t \ {Pick(t)})
    BY <1>2, <1>4, SumPicked
  <1> QED  BY <1>6, <1>7

(* Functions that agree have the same sum.                                 *)
LEMMA SumOfSame ==
    ASSUME NEW f, NEW h, NEW S, IsFiniteSet(S), \A x \in S : f[x] = h[x]
    PROVE  SumFunctionOnSet(f, S) = SumFunctionOnSet(h, S)
  <1> DEFINE Bad == {t \in SUBSET S : SumFunctionOnSet(f, t) # SumFunctionOnSet(h, t)}
  <1>1. SUFFICES ASSUME Bad # {} PROVE FALSE
    OBVIOUS
  <1>2. \A t \in Bad : IsFiniteSet(t) /\ t \subseteq S
    BY FS_Subset
  <1>3. PICK t \in Bad : \A r \in Bad : ~(Cardinality(r) < Cardinality(t))
    <2> HIDE DEF Bad
    <2> QED  BY <1>1, <1>2, SmallestSet
  <1>4. t # {}
    BY SumNone
  <1>5. Pick(t) \in t /\ t \ {Pick(t)} \notin Bad
    BY <1>2, <1>3, <1>4, Picked, Smaller
  <1>6. SumFunctionOnSet(f, t \ {Pick(t)}) = SumFunctionOnSet(h, t \ {Pick(t)}) /\ f[Pick(t)] = h[Pick(t)]
    BY <1>2, <1>5
  <1>7. /\ SumFunctionOnSet(f, t) = f[Pick(t)] + SumFunctionOnSet(f, t \ {Pick(t)})
        /\ SumFunctionOnSet(h, t) = h[Pick(t)] + SumFunctionOnSet(h, t \ {Pick(t)})
    BY <1>2, <1>4, SumPicked
  <1> QED  BY <1>6, <1>7

(* Any element may be taken out of a sum first.                            *)
LEMMA SumWithout ==
    ASSUME NEW f, NEW S, IsFiniteSet(S), \A x \in S : f[x] \in Int, NEW z \in S
    PROVE  SumFunctionOnSet(f, S) = f[z] + SumFunctionOnSet(f, S \ {z})
  <1> DEFINE Sum(t) == SumFunctionOnSet(f, t)
             Bad == {t \in SUBSET S : \E y \in t : Sum(t) # f[y] + Sum(t \ {y})}
  <1>1. SUFFICES ASSUME Bad # {} PROVE FALSE
    OBVIOUS
  <1>2. \A t \in Bad : IsFiniteSet(t) /\ t \subseteq S
    BY FS_Subset
  <1>3. PICK t \in Bad : \A r \in Bad : ~(Cardinality(r) < Cardinality(t))
    <2> HIDE DEF Bad
    <2> QED  BY <1>1, <1>2, SmallestSet
  <1>4. PICK y \in t : Sum(t) # f[y] + Sum(t \ {y})
    OBVIOUS
  <1> DEFINE p == Pick(t)
             r == t \ {p}
             q == t \ {y}
             o == r \ {y}
  <1>5. p \in t /\ Sum(t) = f[p] + Sum(r)
    BY <1>2, <1>4, Picked, SumPicked
  <1>6. /\ p # y /\ y \in r /\ p \in q /\ q \ {p} = o
        /\ r \subseteq S /\ q \subseteq S /\ o \subseteq S
    BY <1>2, <1>4, <1>5
  <1>7. r \notin Bad /\ q \notin Bad
    BY <1>2, <1>3, <1>5, Smaller
  <1>8. Sum(r) = f[y] + Sum(o) /\ Sum(q) = f[p] + Sum(o)
    BY <1>6, <1>7
  <1>9. f[p] \in Int /\ f[y] \in Int /\ Sum(o) \in Int
    BY <1>2, <1>4, <1>5, <1>6, FS_Subset, SumIsInt
  <1> HIDE DEF Sum, p, r, q, o
  <1> QED  BY <1>4, <1>5, <1>8, <1>9 DEF q

-----------------------------------------------------------------------------
(* What the sum of a function changes by when one of its values changes,   *)
LEMMA SumWithOther ==
    ASSUME NEW f, NEW h, NEW S, IsFiniteSet(S), NEW y \in S,
           \A x \in S : f[x] \in Int /\ h[x] \in Int,
           \A x \in S : x # y => h[x] = f[x]
    PROVE  SumFunctionOnSet(h, S) = SumFunctionOnSet(f, S) + (h[y] - f[y])
  <1>1. IsFiniteSet(S \ {y}) /\ \A x \in S \ {y} : h[x] = f[x]
    BY Smaller
  <1>2. SumFunctionOnSet(h, S \ {y}) = SumFunctionOnSet(f, S \ {y})
    BY <1>1, SumOfSame
  <1>3. SumFunctionOnSet(f, S \ {y}) \in Int
    BY <1>1, SumIsInt
  <1>4. /\ SumFunctionOnSet(f, S) = f[y] + SumFunctionOnSet(f, S \ {y})
        /\ SumFunctionOnSet(h, S) = h[y] + SumFunctionOnSet(h, S \ {y})
    BY SumWithout
  <1>5. f[y] \in Int /\ h[y] \in Int
    OBVIOUS
  <1> QED  BY <1>2, <1>3, <1>4, <1>5

(* ... when the set has one more element, ...                              *)
LEMMA SumWithMore ==
    ASSUME NEW f, NEW h, NEW S, IsFiniteSet(S), NEW y, y \notin S, h[y] \in Int,
           \A x \in S : f[x] \in Int /\ h[x] = f[x]
    PROVE  SumFunctionOnSet(h, S \union {y}) = SumFunctionOnSet(f, S) + h[y]
  <1> DEFINE T == S \union {y}
  <1>1. IsFiniteSet(T) /\ y \in T /\ T \ {y} = S /\ \A x \in T : h[x] \in Int
    BY FS_AddElement
  <1>2. SumFunctionOnSet(h, S) = SumFunctionOnSet(f, S)
    BY SumOfSame
  <1>3. SumFunctionOnSet(f, S) \in Int
    BY SumIsInt
  <1> HIDE DEF T
  <1>4. SumFunctionOnSet(h, T) = h[y] + SumFunctionOnSet(h, S)
    BY <1>1, SumWithout
  <1> QED  BY <1>2, <1>3, <1>4 DEF T

(* ... and when a sequence has one more.                                   *)
LEMMA SumAppended ==
    ASSUME NEW n \in Nat, NEW f, NEW h, h[n + 1] \in Int,
           \A i \in 1..n : f[i] \in Int /\ h[i] = f[i]
    PROVE  SumFunctionOnSet(h, 1..(n + 1)) = SumFunctionOnSet(f, 1..n) + h[n + 1]
  <1>1. PICK S, y : S = 1..n /\ y = n + 1
    OBVIOUS
  <1>2. IsFiniteSet(S)
    BY <1>1, FS_Interval
  <1>3. y \notin S /\ h[y] \in Int /\ \A x \in S : f[x] \in Int /\ h[x] = f[x]
    BY <1>1
  <1>4. SumFunctionOnSet(h, S \union {y}) = SumFunctionOnSet(f, S) + h[y]
    BY <1>2, <1>3, SumWithMore
  <1>5. 1..(n + 1) = S \union {y}
    BY <1>1
  <1> QED  BY <1>1, <1>4, <1>5

(* A sum of no more than zeros is zero.                                    *)
LEMMA SumOfZeros ==
    ASSUME NEW f, NEW S, IsFiniteSet(S), \A x \in S : f[x] = 0
    PROVE  SumFunctionOnSet(f, S) = 0
  <1> DEFINE Bad == {t \in SUBSET S : SumFunctionOnSet(f, t) # 0}
  <1>1. SUFFICES ASSUME Bad # {} PROVE FALSE
    OBVIOUS
  <1>2. \A t \in Bad : IsFiniteSet(t) /\ t \subseteq S
    BY FS_Subset
  <1>3. PICK t \in Bad : \A r \in Bad : ~(Cardinality(r) < Cardinality(t))
    <2> HIDE DEF Bad
    <2> QED  BY <1>1, <1>2, SmallestSet
  <1>4. t # {}
    BY SumNone
  <1>5. Pick(t) \in t /\ t \ {Pick(t)} \notin Bad
    BY <1>2, <1>3, <1>4, Picked, Smaller
  <1>6. SumFunctionOnSet(f, t \ {Pick(t)}) = 0 /\ f[Pick(t)] = 0
    BY <1>2, <1>5
  <1>7. SumFunctionOnSet(f, t) = f[Pick(t)] + SumFunctionOnSet(f, t \ {Pick(t)})
    BY <1>2, <1>4, SumPicked
  <1> QED  BY <1>6, <1>7

(* Fewer terms, none of them negative, have a smaller sum.                 *)
LEMMA SumOfFewer ==
    ASSUME NEW f, NEW S, IsFiniteSet(S), \A x \in S : f[x] \in Nat, NEW A, A \subseteq S
    PROVE  SumFunctionOnSet(f, A) <= SumFunctionOnSet(f, S)
  <1> DEFINE Sum(t) == SumFunctionOnSet(f, t)
             Bad == {t \in SUBSET S : ~(Sum(A \intersect t) <= Sum(t))}
  <1>1. SUFFICES ASSUME Bad # {} PROVE FALSE
    <2>1. A \intersect S = A
      OBVIOUS
    <2> QED  BY <2>1
  <1>2. \A t \in Bad : IsFiniteSet(t) /\ t \subseteq S
    BY FS_Subset
  <1>3. PICK t \in Bad : \A r \in Bad : ~(Cardinality(r) < Cardinality(t))
    <2> HIDE DEF Bad
    <2> QED  BY <1>1, <1>2, SmallestSet
  <1>4. ~(Sum(A \intersect t) <= Sum(t))
    OBVIOUS
  <1>5. t # {}
    <2>1. A \intersect {} = {} /\ Sum({}) = 0
      BY SumNone
    <2> QED  BY <1>4, <2>1
  <1>6. PICK p \in t : p = Pick(t)
    BY <1>5, Picked
  <1>7. PICK r : r = t \ {p}
    OBVIOUS
  <1>8. r \notin Bad /\ r \subseteq S /\ IsFiniteSet(r) /\ IsFiniteSet(A \intersect r) /\ IsFiniteSet(A \intersect t)
    BY <1>2, <1>3, <1>7, Smaller, FS_Subset
  <1>9. Sum(A \intersect r) <= Sum(r)
    BY <1>8
  <1>10. f[p] \in Nat /\ \A x \in S : f[x] \in Int
    BY <1>2
  <1>11. Sum(t) = f[p] + Sum(r)
    BY <1>2, <1>7, <1>10, SumWithout
  <1>12. Sum(r) \in Int /\ Sum(A \intersect r) \in Int
    BY <1>8, <1>10, SumIsInt
  <1>13. PICK v \in Nat, x \in Int, y \in Int : v = f[p] /\ x = Sum(A \intersect r) /\ y = Sum(r)
    BY <1>10, <1>12
  <1>14. x <= y /\ Sum(t) = v + y
    BY <1>9, <1>11, <1>13
  <1>15. Sum(A \intersect t) = x \/ Sum(A \intersect t) = v + x
    <2>1. CASE p \in A
      <3>1. p \in A \intersect t /\ (A \intersect t) \ {p} = A \intersect r
        BY <1>7, <2>1
      <3>2. \A z \in A \intersect t : f[z] \in Int
        BY <1>10
      <3>3. Sum(A \intersect t) = f[p] + Sum((A \intersect t) \ {p})
        BY <1>8, <3>1, <3>2, SumWithout
      <3> QED  BY <1>13, <3>1, <3>3
    <2>2. CASE p \notin A
      <3>1. A \intersect t = A \intersect r
        BY <1>7, <2>2
      <3> QED  BY <1>13, <3>1
    <2> QED  BY <2>1, <2>2
  <1>16. x <= v + y /\ v + x <= v + y
    BY <1>14
  <1> QED  BY <1>4, <1>14, <1>15, <1>16
=============================================================================
