----------------------------- MODULE FiniteSums -----------------------------
(* The sum of a function over a finite set, as MapThenSumSet computes it:  *)
(* what it becomes when one value of the function changes.                 *)
EXTENDS Integers, FiniteSetsExt, FiniteSetTheorems, WellFoundedInduction, TLAPS

Total(f, S) == MapThenSumSet(LAMBDA x : f[x], S)

(* The function on the subsets of S that MapThenSumSet is the last value   *)
(* of, and the equation that defines it, on any set of sets.               *)
Chosen(s) == CHOOSE x \in s : TRUE

Adds(g, f, D) ==
  g = [s \in D |-> IF s = {} THEN 0 ELSE f[Chosen(s)] + g[s \ {Chosen(s)}]]

Partial(f, S) == CHOOSE g : Adds(g, f, SUBSET S)

(* MapThenSumSet is the last value of Partial.                             *)
LEMMA TotalIsPartial ==
  ASSUME NEW f, NEW S
  PROVE  Total(f, S) = Partial(f, S)[S]
  BY DEF Total, MapThenSumSet, MapThenFoldSet, Partial, Adds, Chosen

(* A set of naturals that is not empty has a smallest one.                 *)
LEMMA Smallest ==
  ASSUME NEW N, N \subseteq Nat, N # {}
  PROVE  \E n \in N : \A m \in N : n <= m
<1>1. IsWellFoundedOn({ss \in Nat \X Nat : ss[1] < ss[2]}, Nat)
  BY NatLessThanWellFounded DEF OpToRel
<1>2. PICK n \in N : \A m \in N : <<m, n>> \notin {ss \in Nat \X Nat : ss[1] < ss[2]}
  BY <1>1, WFMin
<1>3. ASSUME NEW m \in N PROVE n <= m
  <2>1. <<m, n>> \in Nat \X Nat /\ n \in Nat /\ m \in Nat
    OBVIOUS
  <2>2. ~(m < n)
    BY <1>2, <2>1
  <2> QED  BY <2>1, <2>2
<1> QED  BY <1>3

(* Every subset of a finite set is empty, or larger by one than what is    *)
(* left when its chosen element, or any other, is taken away.              *)
LEMMA Subsets ==
  ASSUME NEW S, IsFiniteSet(S), NEW s \in SUBSET S
  PROVE  /\ Cardinality(s) \in Nat /\ Cardinality(s) <= Cardinality(S)
         /\ s = {} <=> Cardinality(s) = 0
         /\ s # {} => Chosen(s) \in s
         /\ \A x \in s : /\ s \ {x} \in SUBSET S
                         /\ Cardinality(s \ {x}) = Cardinality(s) - 1
<1>1. IsFiniteSet(s) /\ Cardinality(s) <= Cardinality(S)
  BY FS_Subset
<1>2. Cardinality(s) \in Nat /\ (s = {} <=> Cardinality(s) = 0)
  BY <1>1, FS_CardinalityType, FS_EmptySet
<1>3. s # {} => Chosen(s) \in s
  BY DEF Chosen
<1>4. \A x \in s : Cardinality(s \ {x}) = Cardinality(s) - 1
  BY <1>1, FS_RemoveElement
<1> QED  BY <1>1, <1>2, <1>3, <1>4

(* The equation has a solution: on the sets of at most n elements there is *)
(* one for every n, or there were a first n without one.                   *)
LEMMA PartialExists ==
  ASSUME NEW S, IsFiniteSet(S), NEW f
  PROVE  Adds(Partial(f, S), f, SUBSET S)
<1> DEFINE D(n) == {s \in SUBSET S : Cardinality(s) <= n}
           Bad == {n \in Nat : \A g : ~Adds(g, f, D(n))}
<1>1. 0 \notin Bad
  <2> DEFINE g == [s \in D(0) |-> 0]
  <2>1. \A s \in D(0) : s = {}
    BY Subsets
  <2>2. Adds(g, f, D(0))
    BY <2>1 DEF Adds
  <2> QED  BY <2>2
<1>2. ASSUME NEW n \in Nat, n \notin Bad PROVE n + 1 \notin Bad
  <2>1. PICK g : Adds(g, f, D(n))
    BY <1>2
  <2> DEFINE h == [s \in D(n + 1) |->
                     IF s \in D(n) THEN g[s] ELSE f[Chosen(s)] + g[s \ {Chosen(s)}]]
             e(s) == IF s = {} THEN 0 ELSE f[Chosen(s)] + h[s \ {Chosen(s)}]
  <2>2. ASSUME NEW s \in D(n + 1), s # {}
        PROVE  /\ s \ {Chosen(s)} \in D(n) /\ s \ {Chosen(s)} \in D(n + 1)
    <3>1. /\ Cardinality(s) \in Nat /\ Cardinality(s) <= n + 1
          /\ s \ {Chosen(s)} \in SUBSET S
          /\ Cardinality(s \ {Chosen(s)}) = Cardinality(s) - 1
      BY <2>2, Subsets
    <3> QED  BY <3>1
  <2>3. ASSUME NEW s \in D(n + 1), s # {}
        PROVE  h[s \ {Chosen(s)}] = g[s \ {Chosen(s)}]
    BY <2>2, <2>3
  <2>4. ASSUME NEW s \in D(n + 1) PROVE h[s] = e(s)
    <3>1. CASE s = {}
      <4>1. Cardinality(s) = 0 /\ s \in D(n)
        BY <3>1, Subsets
      <4>2. g[s] = 0
        BY <2>1, <3>1, <4>1 DEF Adds
      <4> QED  BY <3>1, <4>1, <4>2
    <3>2. CASE s # {} /\ s \in D(n)
      <4>1. g[s] = f[Chosen(s)] + g[s \ {Chosen(s)}]
        BY <2>1, <3>2 DEF Adds
      <4>2. h[s \ {Chosen(s)}] = g[s \ {Chosen(s)}]
        BY <2>3, <3>2
      <4>3. h[s] = g[s]
        BY <3>2
      <4> HIDE DEF h, D
      <4> QED  BY <3>2, <4>1, <4>2, <4>3
    <3>3. CASE s # {} /\ s \notin D(n)
      <4>1. h[s \ {Chosen(s)}] = g[s \ {Chosen(s)}]
        BY <2>3, <3>3
      <4>2. h[s] = f[Chosen(s)] + g[s \ {Chosen(s)}]
        BY <3>3
      <4> HIDE DEF h, D
      <4> QED  BY <3>3, <4>1, <4>2
    <3> QED  BY <3>1, <3>2, <3>3
  <2>5. h = [s \in D(n + 1) |-> h[s]]
    OBVIOUS
  <2> HIDE DEF h, D
  <2>6. h = [s \in D(n + 1) |-> e(s)]
    BY <2>4, <2>5
  <2>7. Adds(h, f, D(n + 1))
    BY <2>6 DEF Adds
  <2> QED  BY <2>7
<1>3. Bad = {}
  <2> SUFFICES ASSUME Bad # {} PROVE FALSE
    OBVIOUS
  <2>1. PICK n \in Bad : \A m \in Bad : n <= m
    BY Smallest
  <2>2. n \in Nat /\ n # 0
    BY <1>1, <2>1
  <2>3. n - 1 \in Nat /\ n - 1 \notin Bad /\ (n - 1) + 1 = n
    BY <2>1, <2>2
  <2>4. (n - 1) + 1 \notin Bad
    <3> HIDE DEF Bad
    <3> QED  BY <1>2, <2>3
  <2> QED  BY <2>1, <2>3, <2>4
<1>4. Cardinality(S) \in Nat /\ D(Cardinality(S)) = SUBSET S
  BY Subsets, FS_CardinalityType
<1>5. \E g : Adds(g, f, SUBSET S)
  BY <1>3, <1>4
<1> QED  BY <1>5 DEF Partial

(* The sums over the subsets satisfy the equation.                         *)
LEMMA PartialStep ==
  ASSUME NEW S, IsFiniteSet(S), NEW f, NEW s \in SUBSET S
  PROVE  Partial(f, S)[s] = IF s = {} THEN 0
                            ELSE f[Chosen(s)] + Partial(f, S)[s \ {Chosen(s)}]
<1>1. Adds(Partial(f, S), f, SUBSET S)
  BY PartialExists
<1> QED  BY <1>1 DEF Adds

(* The sum of naturals over a part of the set is a natural.                *)
LEMMA PartialType ==
  ASSUME NEW S, IsFiniteSet(S), NEW f, \A x \in S : f[x] \in Nat, NEW s \in SUBSET S
  PROVE  Partial(f, S)[s] \in Nat
<1> DEFINE g == Partial(f, S)
           Bad == {n \in Nat : \E r \in SUBSET S : Cardinality(r) = n /\ g[r] \notin Nat}
<1>1. ASSUME NEW n \in Bad, \A m \in Bad : n <= m PROVE FALSE
  <2>1. PICK r \in SUBSET S : Cardinality(r) = n /\ g[r] \notin Nat
    OBVIOUS
  <2>2. g[r] = IF r = {} THEN 0 ELSE f[Chosen(r)] + g[r \ {Chosen(r)}]
    BY PartialStep
  <2>3. r # {}
    BY <2>1, <2>2
  <2> DEFINE q == r \ {Chosen(r)}
  <2>4. /\ n \in Nat /\ n # 0 /\ Chosen(r) \in S /\ q \in SUBSET S
        /\ Cardinality(q) = n - 1
    BY <2>1, <2>3, Subsets
  <2>5. n - 1 \in Nat /\ ~(n <= n - 1)
    BY <2>4
  <2>6. n - 1 \notin Bad
    BY <1>1, <2>5
  <2> HIDE DEF g, q
  <2>7. g[q] \in Nat
    BY <2>4, <2>5, <2>6
  <2>8. f[Chosen(r)] \in Nat
    BY <2>4
  <2> QED  BY <2>1, <2>2, <2>3, <2>7, <2>8 DEF q
<1>2. Bad = {}
  BY <1>1, Smallest
<1>3. Cardinality(s) \in Nat
  BY Subsets
<1> QED  BY <1>2, <1>3

(* The order in which the elements are added does not matter.              *)
LEMMA PartialAdd ==
  ASSUME NEW S, IsFiniteSet(S), NEW f, \A x \in S : f[x] \in Nat,
         NEW s \in SUBSET S, NEW x \in s
  PROVE  Partial(f, S)[s] = f[x] + Partial(f, S)[s \ {x}]
<1> DEFINE g == Partial(f, S)
           Bad == {n \in Nat : \E r \in SUBSET S : \E y \in r :
                     Cardinality(r) = n /\ g[r] # f[y] + g[r \ {y}]}
<1>0. \A r \in SUBSET S : g[r] \in Nat
  BY PartialType
<1>1. ASSUME NEW n \in Bad, \A m \in Bad : n <= m PROVE FALSE
  <2>0. PICK r \in SUBSET S : Cardinality(r) = n /\ \E y \in r : g[r] # f[y] + g[r \ {y}]
    OBVIOUS
  <2>1. PICK y \in r : Cardinality(r) = n /\ g[r] # f[y] + g[r \ {y}]
    BY <2>0
  <2> DEFINE c == Chosen(r)
  <2>2. c \in r /\ g[r] = f[c] + g[r \ {c}]
    <3>1. r # {}
      BY <2>1
    <3> QED  BY <3>1, PartialStep, Subsets
  <2>3. c # y
    BY <2>1, <2>2
  <2> HIDE DEF c
  <2>4. /\ n \in Nat /\ n # 0
        /\ r \ {c} \in SUBSET S /\ Cardinality(r \ {c}) = n - 1
        /\ r \ {y} \in SUBSET S /\ Cardinality(r \ {y}) = n - 1
    BY <2>1, <2>2, Subsets
  <2>5. n - 1 \in Nat /\ ~(n <= n - 1)
    BY <2>4
  <2>6. n - 1 \notin Bad
    BY <1>1, <2>5
  <2> HIDE DEF g
  <2>7. g[r \ {c}] = f[y] + g[(r \ {c}) \ {y}]
    <3>1. y \in r \ {c}
      BY <2>1, <2>3
    <3> QED  BY <2>4, <2>5, <2>6, <3>1
  <2>8. g[r \ {y}] = f[c] + g[(r \ {y}) \ {c}]
    <3>1. c \in r \ {y}
      BY <2>2, <2>3
    <3> QED  BY <2>4, <2>5, <2>6, <3>1
  <2>9. PICK q \in SUBSET S : q = (r \ {c}) \ {y} /\ q = (r \ {y}) \ {c}
    BY <2>1
  <2>10. f[y] \in Nat /\ f[c] \in Nat /\ g[q] \in Nat
    BY <1>0, <2>1, <2>2, <2>9
  <2>11. g[r] = f[c] + (f[y] + g[q]) /\ g[r \ {y}] = f[c] + g[q]
    BY <2>2, <2>7, <2>8, <2>9
  <2>12. g[r] = f[y] + g[r \ {y}]
    BY <2>10, <2>11
  <2> QED  BY <2>1, <2>12
<1>2. Bad = {}
  BY <1>1, Smallest
<1>3. Cardinality(s) \in Nat
  BY Subsets
<1> QED  BY <1>2, <1>3

(* Nor do the values outside of the set.                                   *)
LEMMA PartialAgree ==
  ASSUME NEW S, IsFiniteSet(S), NEW f, NEW h, NEW s \in SUBSET S, \A x \in s : f[x] = h[x]
  PROVE  Partial(f, S)[s] = Partial(h, S)[s]
<1> DEFINE g == Partial(f, S)
           k == Partial(h, S)
           Bad == {n \in Nat : \E r \in SUBSET s : Cardinality(r) = n /\ g[r] # k[r]}
<1>1. ASSUME NEW n \in Bad, \A m \in Bad : n <= m PROVE FALSE
  <2>1. PICK r \in SUBSET s : Cardinality(r) = n /\ g[r] # k[r]
    OBVIOUS
  <2>2. /\ r \in SUBSET S
        /\ g[r] = IF r = {} THEN 0 ELSE f[Chosen(r)] + g[r \ {Chosen(r)}]
        /\ k[r] = IF r = {} THEN 0 ELSE h[Chosen(r)] + k[r \ {Chosen(r)}]
    BY PartialStep
  <2>3. r # {}
    BY <2>1, <2>2
  <2> DEFINE q == r \ {Chosen(r)}
  <2>4. /\ n \in Nat /\ n # 0 /\ Chosen(r) \in s /\ q \in SUBSET s
        /\ Cardinality(q) = n - 1
    BY <2>1, <2>2, <2>3, Subsets
  <2>5. n - 1 \in Nat /\ ~(n <= n - 1)
    BY <2>4
  <2>6. n - 1 \notin Bad
    BY <1>1, <2>5
  <2> HIDE DEF g, k, q
  <2>7. g[q] = k[q]
    BY <2>4, <2>5, <2>6
  <2>8. f[Chosen(r)] = h[Chosen(r)]
    BY <2>4
  <2> QED  BY <2>1, <2>2, <2>3, <2>7, <2>8 DEF q
<1>2. Bad = {}
  BY <1>1, Smallest
<1>3. Cardinality(s) \in Nat
  BY Subsets
<1> QED  BY <1>2, <1>3
-----------------------------------------------------------------------------
(* ... and so is the sum over all of it.                                   *)
LEMMA TotalType ==
  ASSUME NEW S, IsFiniteSet(S), NEW f, \A x \in S : f[x] \in Nat
  PROVE  Total(f, S) \in Nat
  BY PartialType, TotalIsPartial

(* One value changes, and the total with it.                               *)
LEMMA TotalMoves ==
  ASSUME NEW S, IsFiniteSet(S), NEW f, \A x \in S : f[x] \in Nat,
         NEW h, NEW p \in S, h[p] \in Nat, \A x \in S : x # p => h[x] = f[x]
  PROVE  Total(h, S) = Total(f, S) - f[p] + h[p]
<1>1. \A x \in S : h[x] \in Nat
  OBVIOUS
<1>2. Total(f, S) = f[p] + Partial(f, S)[S \ {p}]
  BY PartialAdd, TotalIsPartial
<1>3. Total(h, S) = h[p] + Partial(h, S)[S \ {p}]
  <2>1. S \in SUBSET S /\ Total(h, S) = Partial(h, S)[S]
    BY TotalIsPartial
  <2>2. Partial(h, S)[S] = h[p] + Partial(h, S)[S \ {p}]
    BY <1>1, <2>1, PartialAdd
  <2> QED  BY <2>1, <2>2
<1>4. Partial(f, S)[S \ {p}] = Partial(h, S)[S \ {p}]
  BY PartialAgree
<1>5. Partial(f, S)[S \ {p}] \in Nat /\ f[p] \in Nat
  BY PartialType
<1> QED  BY <1>2, <1>3, <1>4, <1>5

(* Nothing, and nothing but one value, to add.                             *)
LEMMA TotalOfNone ==
  ASSUME NEW S, IsFiniteSet(S), NEW f, \A x \in S : f[x] = 0
  PROVE  Total(f, S) = 0
<1> DEFINE g == Partial(f, S)
           Bad == {n \in Nat : \E r \in SUBSET S : Cardinality(r) = n /\ g[r] # 0}
<1>1. ASSUME NEW n \in Bad, \A m \in Bad : n <= m PROVE FALSE
  <2>1. PICK r \in SUBSET S : Cardinality(r) = n /\ g[r] # 0
    OBVIOUS
  <2>2. g[r] = IF r = {} THEN 0 ELSE f[Chosen(r)] + g[r \ {Chosen(r)}]
    BY PartialStep
  <2>3. r # {}
    BY <2>1, <2>2
  <2> DEFINE q == r \ {Chosen(r)}
  <2>4. /\ n \in Nat /\ n # 0 /\ Chosen(r) \in S /\ q \in SUBSET S
        /\ Cardinality(q) = n - 1
    BY <2>1, <2>3, Subsets
  <2>5. n - 1 \in Nat /\ ~(n <= n - 1)
    BY <2>4
  <2>6. n - 1 \notin Bad
    BY <1>1, <2>5
  <2> HIDE DEF g, q
  <2>7. g[q] = 0
    BY <2>4, <2>5, <2>6
  <2>8. f[Chosen(r)] = 0
    BY <2>4
  <2> QED  BY <2>1, <2>2, <2>3, <2>7, <2>8 DEF q
<1>2. Bad = {}
  BY <1>1, Smallest
<1>3. Cardinality(S) \in Nat
  BY Subsets
<1> QED  BY <1>2, <1>3, TotalIsPartial

(* If one value alone is not 0, the sum is that value.                     *)
LEMMA TotalOfOne ==
  ASSUME NEW S, IsFiniteSet(S), NEW f, NEW p \in S, f[p] \in Nat,
         \A x \in S : x # p => f[x] = 0
  PROVE  Total(f, S) = f[p]
<1> DEFINE none == [x \in S |-> 0]
<1>1. Total(none, S) = 0
  BY TotalOfNone
<1>2. /\ \A x \in S : none[x] \in Nat /\ (x # p => f[x] = none[x])
      /\ none[p] = 0
  OBVIOUS
<1> HIDE DEF none
<1>3. Total(f, S) = Total(none, S) - none[p] + f[p]
  BY <1>2, TotalMoves
<1> QED  BY <1>1, <1>2, <1>3
=============================================================================
