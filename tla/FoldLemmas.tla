------------------------------ MODULE FoldLemmas ------------------------------
(***************************************************************************)
(* Induction for the other proof modules, in first-order terms: a set of   *)
(* numbers that has an element has a least one, and the recursion that     *)
(* folds are defined by has a solution.                                    *)
(***************************************************************************)
EXTENDS Integers, FiniteSets, Functions, FiniteSetTheorems, WellFoundedInduction, TLAPS

LEMMA LeastNumber ==
  ASSUME NEW T, T \subseteq Nat, T # {}
  PROVE  \E m \in T : \A k \in T : ~(k < m)
<1> DEFINE R == {p \in Nat \X Nat : p[1] < p[2]}
<1>1. OpToRel(<, Nat) = R
  BY Zenon DEF OpToRel
<1>2. IsWellFoundedOn(R, Nat)
  BY <1>1, NatLessThanWellFounded
<1>3. \A x, y \in Nat : y < x => <<y, x>> \in R
  <2> SUFFICES ASSUME NEW x \in Nat, NEW y \in Nat, y < x PROVE <<y, x>> \in R
    OBVIOUS
  <2>1. <<y, x>> \in Nat \X Nat /\ <<y, x>>[1] < <<y, x>>[2]
    OBVIOUS
  <2> QED
    BY <2>1, Zenon DEF R
<1> HIDE DEF R
<1>4. \E m \in T : \A k \in T : ~(<<k, m>> \in R)
  BY <1>2, WFMin
<1> QED
  BY <1>3, <1>4

\* pick chooses an element of every set that has one.
IsPick(pick, S) == \A s \in SUBSET S : s # {} => pick[s] \in s

\* g is the fold of F over the sets of S, pick[s] being taken off a set s.
IsFold(g, S, base, F, pick) ==
  \A s \in SUBSET S : g[s] = IF s = {} THEN base ELSE F[<<g[s \ {pick[s]}], pick[s]>>]

\* The same as far as the sets of at most n elements go.
FoldsUpTo(g, S, base, F, pick, n) ==
  \A s \in SUBSET S :
    Cardinality(s) <= n =>
      g[s] = IF s = {} THEN base ELSE F[<<g[s \ {pick[s]}], pick[s]>>]

\* MapThenFoldSet and the folds made of it: whatever element is picked from a set,
\* the recursion over the subsets of S has a solution.
LEMMA FoldExists ==
  ASSUME NEW S, IsFiniteSet(S), NEW X, NEW base \in X, NEW F \in [X \X S -> X],
         NEW pick, IsPick(pick, S)
  PROVE  \E g \in [SUBSET S -> X] : IsFold(g, S, base, F, pick)
<1> USE DEF IsPick
<1> DEFINE Solved(n) == \E g \in [SUBSET S -> X] : FoldsUpTo(g, S, base, F, pick, n)
           T == {n \in Nat : ~Solved(n)}
<1>1. \A s \in SUBSET S : /\ IsFiniteSet(s) /\ Cardinality(s) \in Nat
                          /\ Cardinality(s) <= Cardinality(S)
                          /\ s # {} => Cardinality(s \ {pick[s]}) = Cardinality(s) - 1
                          /\ Cardinality(s) = 0 <=> s = {}
  BY FS_Subset, FS_CardinalityType, FS_RemoveElement, FS_EmptySet
<1>2. T = {}
  <2> SUFFICES ASSUME T # {} PROVE FALSE
    OBVIOUS
  <2>1. PICK n \in T : \A k \in T : ~(k < n)
    <3>1. T \subseteq Nat
      OBVIOUS
    <3> HIDE DEF T
    <3> QED
      BY <3>1, LeastNumber
  <2>2. CASE n = 0
    <3> DEFINE g == [s \in SUBSET S |-> base]
    <3>1. g \in [SUBSET S -> X]
      OBVIOUS
    <3>2. ASSUME NEW s \in SUBSET S, Cardinality(s) <= 0 PROVE s = {}
      <4>1. Cardinality(s) \in Nat /\ (Cardinality(s) = 0 <=> s = {})
        BY <1>1
      <4> HIDE DEF T
      <4> QED
        BY ONLY <3>2, <4>1
    <3>3. FoldsUpTo(g, S, base, F, pick, 0)
      BY <3>2 DEF FoldsUpTo
    <3> QED
      BY <2>1, <2>2, <3>1, <3>3
  <2>3. CASE n # 0
    <3>1. n \in Nat /\ n - 1 \in Nat /\ n - 1 < n
      BY <2>1, <2>3
    <3>2. PICK g \in [SUBSET S -> X] : FoldsUpTo(g, S, base, F, pick, n - 1)
      BY <2>1, <3>1
    <3> DEFINE h == [s \in SUBSET S |-> IF Cardinality(s) = n
                                          THEN F[<<g[s \ {pick[s]}], pick[s]>>] ELSE g[s]]
    <3>3. h \in [SUBSET S -> X]
      <4>1. ASSUME NEW s \in SUBSET S, Cardinality(s) = n
            PROVE  F[<<g[s \ {pick[s]}], pick[s]>>] \in X
        <5>1. s # {} /\ s \ {pick[s]} \in SUBSET S
          BY <1>1, <2>3, <4>1
        <5>2. pick[s] \in S /\ g[s \ {pick[s]}] \in X
          BY <5>1
        <5> QED
          BY <5>2
      <4> QED
        BY <4>1
    <3>4. \A s \in SUBSET S : h[s] = IF Cardinality(s) = n
                                       THEN F[<<g[s \ {pick[s]}], pick[s]>>] ELSE g[s]
      OBVIOUS
    <3> HIDE DEF h
    <3>5. FoldsUpTo(h, S, base, F, pick, n)
      <4> SUFFICES ASSUME NEW s \in SUBSET S, Cardinality(s) <= n
                   PROVE  h[s] = IF s = {} THEN base ELSE F[<<h[s \ {pick[s]}], pick[s]>>]
        BY DEF FoldsUpTo
      <4>0. Cardinality(s) <= n
        OBVIOUS
      <4>1. s # {} => h[s \ {pick[s]}] = g[s \ {pick[s]}]
        <5> SUFFICES ASSUME s # {} PROVE h[s \ {pick[s]}] = g[s \ {pick[s]}]
          OBVIOUS
        <5>1. Cardinality(s) \in Nat /\ Cardinality(s \ {pick[s]}) = Cardinality(s) - 1
          BY <1>1
        <5>2. Cardinality(s \ {pick[s]}) # n
          BY ONLY <3>1, <4>0, <5>1
        <5> QED
          BY <3>4, <5>2
      <4>2. CASE Cardinality(s) = n
        <5>1. s # {}
          BY <1>1, <2>3, <4>2
        <5> QED
          BY <3>4, <4>1, <4>2, <5>1
      <4>3. CASE Cardinality(s) # n
        <5>0. Cardinality(s) \in Nat
          BY <1>1
        <5>3. Cardinality(s) <= n - 1
          BY ONLY <3>1, <4>0, <4>3, <5>0
        <5>1. Cardinality(s) <= n - 1 /\ h[s] = g[s]
          BY <3>4, <4>3, <5>3
        <5>2. g[s] = IF s = {} THEN base ELSE F[<<g[s \ {pick[s]}], pick[s]>>]
          BY <3>2, <5>1 DEF FoldsUpTo
        <5> QED
          BY <4>1, <5>1, <5>2
      <4> QED
        BY <4>2, <4>3
    <3> QED
      BY <2>1, <3>3, <3>5
  <2> QED
    BY <2>2, <2>3
<1>3. Cardinality(S) \in Nat
  BY FS_CardinalityType
<1>4. Solved(Cardinality(S))
  BY <1>2, <1>3
<1>5. PICK g \in [SUBSET S -> X] : FoldsUpTo(g, S, base, F, pick, Cardinality(S))
  BY <1>4
<1> QED
  BY <1>1, <1>5 DEF FoldsUpTo, IsFold

\* FoldLeft picks the greatest index: Max of FiniteSetsExt.
LEMMA GreatestIndex ==
  ASSUME NEW n \in Nat, NEW s \in SUBSET (1..n), s # {}
  PROVE  LET m == CHOOSE x \in s : \A y \in s : x >= y
         IN  m \in s /\ \A y \in s : y <= m
<1> DEFINE T == {k \in Nat : n - k \in s}
<1>1. T # {}
  <2>1. PICK x \in s : TRUE
    OBVIOUS
  <2>2. n - x \in Nat /\ n - (n - x) = x
    OBVIOUS
  <2> QED
    BY <2>1, <2>2
<1>2. PICK k \in T : \A j \in T : ~(j < k)
  <2>1. T \subseteq Nat
    OBVIOUS
  <2> HIDE DEF T
  <2> QED
    BY <1>1, <2>1, LeastNumber
<1>3. \A y \in s : n - k >= y
  <2> SUFFICES ASSUME NEW y \in s PROVE n - k >= y
    OBVIOUS
  <2>1. y \in Int /\ n - y \in Nat /\ n - (n - y) = y
    OBVIOUS
  <2>2. n - y \in T
    BY <2>1
  <2> QED
    BY <1>2, <2>1, <2>2
<1>4. \E x \in s : \A y \in s : x >= y
  BY <1>2, <1>3
<1>5. \A x, y \in s : x >= y => y <= x
  OBVIOUS
<1> QED
  BY <1>4, <1>5

----------------------------------------------------------------------------
(* Sums over finite sets: SumFunctionOnSet of Functions.                   *)

IntOn(f, S) == \A x \in S : f[x] \in Int

\* The element that the sum takes off a set.
Taken(s) == CHOOSE x \in s : TRUE

\* What SumFunctionOnSet is defined by.
SumIter(g, f, S) ==
  g = [s \in SUBSET S |-> IF s = {} THEN 0 ELSE f[Taken(s)] + g[s \ {Taken(s)}]]

LEMMA SumUnfolds ==
  ASSUME NEW f, NEW S
  PROVE  SumFunctionOnSet(f, S) = (CHOOSE g : SumIter(g, f, S))[S]
  BY DEF SumFunctionOnSet, FoldFunctionOnSet, MapThenFoldSet, SumIter, Taken

LEMMA TakenIn == \A s : s # {} => Taken(s) \in s
  BY DEF Taken

LEMMA SumIterExists ==
  ASSUME NEW S, IsFiniteSet(S), NEW f, IntOn(f, S)
  PROVE  \E g : SumIter(g, f, S)
<1> DEFINE F == [p \in Int \X S |-> f[p[2]] + p[1]]
           pick == [s \in SUBSET S |-> Taken(s)]
<1>1. \A s \in SUBSET S : s # {} => Taken(s) \in s
  BY TakenIn
<1>2. IsPick(pick, S)
  BY <1>1 DEF IsPick
<1>3. F \in [Int \X S -> Int] /\ \A k \in Int, x \in S : F[<<k, x>>] = f[x] + k
  BY DEF IntOn
<1>4. \A s \in SUBSET S : pick[s] = Taken(s)
  OBVIOUS
<1> HIDE DEF F, pick
<1>5. 0 \in Int
  OBVIOUS
<1>6. PICK g \in [SUBSET S -> Int] : IsFold(g, S, 0, F, pick)
  BY <1>2, <1>3, <1>5, FoldExists, Zenon
<1>7. ASSUME NEW s \in SUBSET S
      PROVE  g[s] = IF s = {} THEN 0 ELSE f[Taken(s)] + g[s \ {Taken(s)}]
  <2>1. CASE s = {}
    BY <1>6, <2>1 DEF IsFold
  <2>2. CASE s # {}
    <3>1. Taken(s) \in S /\ s \ {Taken(s)} \in SUBSET S /\ pick[s] = Taken(s)
      BY <1>1, <1>4, <2>2
    <3>2. g[s] = F[<<g[s \ {Taken(s)}], Taken(s)>>]
      BY <1>6, <2>2, <3>1 DEF IsFold
    <3>3. g[s \ {Taken(s)}] \in Int
      BY <3>1
    <3> QED
      BY <1>3, <2>2, <3>1, <3>2, <3>3
  <2> QED
    BY <2>1, <2>2
<1>8. SumIter(g, f, S)
  BY <1>7 DEF SumIter
<1> QED
  BY <1>8

\* The recursions over a set and over a part of it agree on the part.
LEMMA SumItersAgree ==
  ASSUME NEW S, NEW s \in SUBSET S, IsFiniteSet(s), NEW f, NEW g, NEW h,
         SumIter(g, f, S), SumIter(h, f, s)
  PROVE  g[s] = h[s]
<1> DEFINE T == {k \in Nat : \E t \in SUBSET s : Cardinality(t) = k /\ g[t] # h[t]}
<1>1. SUFFICES ASSUME g[s] # h[s] PROVE FALSE
  OBVIOUS
<1>2. \A t \in SUBSET s : /\ IsFiniteSet(t) /\ Cardinality(t) \in Nat
                          /\ t # {} => Cardinality(t \ {Taken(t)}) = Cardinality(t) - 1
  BY FS_Subset, FS_CardinalityType, FS_RemoveElement, TakenIn
<1>3. Cardinality(s) \in T
  BY <1>1, <1>2
<1>4. PICK k \in T : \A j \in T : ~(j < k)
  <2>1. T \subseteq Nat /\ T # {}
    BY <1>3
  <2> HIDE DEF T
  <2> QED
    BY <2>1, LeastNumber
<1>5. PICK t \in SUBSET s : Cardinality(t) = k /\ g[t] # h[t]
  BY <1>4
<1>6. /\ g[t] = IF t = {} THEN 0 ELSE f[Taken(t)] + g[t \ {Taken(t)}]
      /\ h[t] = IF t = {} THEN 0 ELSE f[Taken(t)] + h[t \ {Taken(t)}]
  BY DEF SumIter
<1>7. t # {} /\ g[t \ {Taken(t)}] # h[t \ {Taken(t)}]
  BY <1>5, <1>6
<1>8. t \ {Taken(t)} \in SUBSET s /\ Cardinality(t \ {Taken(t)}) = k - 1 /\ k - 1 \in Nat
  BY <1>2, <1>5, <1>7
<1>9. k - 1 \in T
  BY <1>7, <1>8
<1> QED
  BY <1>4, <1>9

\* The recursion of SumFunctionOnSet.
LEMMA SumStep ==
  ASSUME NEW S, IsFiniteSet(S), NEW f, IntOn(f, S)
  PROVE  SumFunctionOnSet(f, S) =
           IF S = {} THEN 0 ELSE f[Taken(S)] + SumFunctionOnSet(f, S \ {Taken(S)})
<1> DEFINE r == S \ {Taken(S)}
           g == CHOOSE i : SumIter(i, f, S)
           h == CHOOSE i : SumIter(i, f, r)
<1>1. IsFiniteSet(r) /\ IntOn(f, r) /\ r \in SUBSET S /\ S \in SUBSET S
  BY FS_Subset DEF IntOn
<1>2. SumIter(g, f, S)
  BY SumIterExists
<1>3. SumIter(h, f, r)
  <2>1. \E i : SumIter(i, f, r)
    BY <1>1, SumIterExists
  <2> QED
    BY <2>1
<1>4. SumFunctionOnSet(f, S) = g[S] /\ SumFunctionOnSet(f, r) = h[r]
  BY SumUnfolds
<1> HIDE DEF g, h, r
<1>5. g[r] = h[r]
  BY <1>1, <1>2, <1>3, SumItersAgree
<1>6. g[S] = IF S = {} THEN 0 ELSE f[Taken(S)] + g[r]
  BY <1>1, <1>2 DEF SumIter, r
<1> QED
  BY <1>4, <1>5, <1>6 DEF r

\* Induction over the parts of a finite set.
LEMMA SmallestPart ==
  ASSUME NEW S, IsFiniteSet(S), NEW B, B \subseteq SUBSET S, B # {}
  PROVE  \E t \in B : /\ IsFiniteSet(t)
                      /\ \A x \in t : t \ {x} \notin B
<1> DEFINE T == {Cardinality(t) : t \in B}
<1>1. \A t \in B : IsFiniteSet(t) /\ Cardinality(t) \in Nat
  BY FS_Subset, FS_CardinalityType
<1>2. PICK k \in T : \A j \in T : ~(j < k)
  <2>1. T \subseteq Nat /\ T # {}
    BY <1>1
  <2> HIDE DEF T
  <2> QED
    BY <2>1, LeastNumber
<1>3. PICK t \in B : Cardinality(t) = k
  BY <1>2
<1>4. ASSUME NEW x \in t, t \ {x} \in B PROVE FALSE
  <2>1. Cardinality(t \ {x}) = Cardinality(t) - 1 /\ Cardinality(t) \in Nat
    BY <1>1, <1>3, FS_RemoveElement
  <2>2. Cardinality(t \ {x}) \in T
    BY <1>4
  <2>3. Cardinality(t \ {x}) < k
    BY ONLY <1>3, <2>1
  <2> HIDE DEF T
  <2> QED
    BY <1>2, <2>2, <2>3
<1> QED
  BY <1>1, <1>3, <1>4

LEMMA SumInt ==
  ASSUME NEW S, IsFiniteSet(S), NEW f, IntOn(f, S)
  PROVE  SumFunctionOnSet(f, S) \in Int
<1> DEFINE B == {t \in SUBSET S : SumFunctionOnSet(f, t) \notin Int}
<1>1. SUFFICES ASSUME B # {} PROVE FALSE
  OBVIOUS
<1>2. PICK t \in B : IsFiniteSet(t) /\ \A x \in t : t \ {x} \notin B
  <2>1. B \subseteq SUBSET S
    OBVIOUS
  <2> HIDE DEF B
  <2> QED
    BY <1>1, <2>1, SmallestPart
<1>3. IntOn(f, t)
  BY DEF IntOn
<1>4. SumFunctionOnSet(f, t) =
        IF t = {} THEN 0 ELSE f[Taken(t)] + SumFunctionOnSet(f, t \ {Taken(t)})
  BY <1>2, <1>3, SumStep
<1>5. t # {} => SumFunctionOnSet(f, t \ {Taken(t)}) \in Int /\ f[Taken(t)] \in Int
  BY <1>2, <1>3, TakenIn DEF IntOn
<1>6. SumFunctionOnSet(f, t) \in Int
  BY <1>4, <1>5
<1> QED
  BY <1>6

\* The sum does not depend on the order in which elements are taken.
LEMMA SumRemove ==
  ASSUME NEW S, IsFiniteSet(S), NEW f, IntOn(f, S), NEW x \in S
  PROVE  SumFunctionOnSet(f, S) = f[x] + SumFunctionOnSet(f, S \ {x})
<1> DEFINE sum(t) == SumFunctionOnSet(f, t)
           B == {t \in SUBSET S : \E y \in t : sum(t) # f[y] + sum(t \ {y})}
<1>1. SUFFICES ASSUME B # {} PROVE FALSE
  BY <1>1
<1>2. PICK t \in B : IsFiniteSet(t) /\ \A y \in t : t \ {y} \notin B
  <2>1. B \subseteq SUBSET S
    OBVIOUS
  <2> HIDE DEF B
  <2> QED
    BY <1>1, <2>1, SmallestPart
<1>3. PICK y \in t : sum(t) # f[y] + sum(t \ {y})
  BY <1>2
<1> DEFINE z == Taken(t)
<1>4. z \in t /\ IntOn(f, t) /\ t \in SUBSET S
  BY <1>3, TakenIn DEF IntOn
<1>5. \A u \in SUBSET t : IsFiniteSet(u) /\ IntOn(f, u) /\ sum(u) \in Int
  <2>1. \A u \in SUBSET t : IsFiniteSet(u) /\ IntOn(f, u)
    BY <1>2, <1>4, FS_Subset DEF IntOn
  <2> QED
    BY <2>1, SumInt
<1>6. sum(t) = f[z] + sum(t \ {z})
  BY <1>2, <1>3, <1>4, SumStep
<1>7. y # z
  BY <1>3, <1>6
<1>8. \A u \in SUBSET S : u \notin B => \A w \in u : sum(u) = f[w] + sum(u \ {w})
  OBVIOUS
<1>9. t \ {z} \notin B /\ t \ {y} \notin B
  BY <1>2, <1>4
<1> HIDE DEF z, B, sum
<1>10. sum(t \ {z}) = f[y] + sum((t \ {z}) \ {y})
  BY <1>4, <1>7, <1>8, <1>9
<1>11. sum(t \ {y}) = f[z] + sum((t \ {y}) \ {z})
  BY <1>4, <1>7, <1>8, <1>9
<1>12. (t \ {z}) \ {y} = (t \ {y}) \ {z}
  OBVIOUS
<1>13. sum((t \ {y}) \ {z}) \in Int /\ f[y] \in Int /\ f[z] \in Int
  BY <1>4, <1>5 DEF IntOn
<1> DEFINE rest == sum((t \ {y}) \ {z})
           a == f[y]
           b == f[z]
<1>14. sum(t) = b + (a + rest) /\ sum(t \ {y}) = b + rest
  BY <1>6, <1>10, <1>11, <1>12, Zenon
<1>15. a \in Int /\ b \in Int /\ rest \in Int
  BY <1>13
<1>16. sum(t) # a + sum(t \ {y})
  BY <1>3
<1> HIDE DEF rest, a, b
<1> QED
  BY ONLY <1>14, <1>15, <1>16

LEMMA SumEmpty == \A f : SumFunctionOnSet(f, {}) = 0
<1> TAKE f
<1>1. IsFiniteSet({}) /\ IntOn(f, {})
  BY FS_EmptySet DEF IntOn
<1> QED
  BY <1>1, SumStep

\* The sum of a function depends on its values in the set only.
LEMMA SumSame ==
  ASSUME NEW S, IsFiniteSet(S), NEW f, NEW g, IntOn(f, S), \A x \in S : g[x] = f[x]
  PROVE  SumFunctionOnSet(g, S) = SumFunctionOnSet(f, S)
<1> DEFINE B == {t \in SUBSET S : SumFunctionOnSet(g, t) # SumFunctionOnSet(f, t)}
<1>1. SUFFICES ASSUME B # {} PROVE FALSE
  OBVIOUS
<1>2. PICK t \in B : IsFiniteSet(t) /\ \A x \in t : t \ {x} \notin B
  <2>1. B \subseteq SUBSET S
    OBVIOUS
  <2> HIDE DEF B
  <2> QED
    BY <1>1, <2>1, SmallestPart
<1>3. IntOn(f, t) /\ IntOn(g, t) /\ t # {}
  BY <1>2, SumEmpty DEF IntOn
<1>4. Taken(t) \in t /\ g[Taken(t)] = f[Taken(t)]
  BY <1>3, TakenIn
<1>5. /\ SumFunctionOnSet(f, t) = f[Taken(t)] + SumFunctionOnSet(f, t \ {Taken(t)})
      /\ SumFunctionOnSet(g, t) = g[Taken(t)] + SumFunctionOnSet(g, t \ {Taken(t)})
  BY <1>2, <1>3, SumStep
<1>6. SumFunctionOnSet(f, t \ {Taken(t)}) = SumFunctionOnSet(g, t \ {Taken(t)})
  BY <1>2, <1>4
<1> QED
  BY <1>4, <1>5, <1>6

\* One value of the function is changed.
LEMMA SumChange ==
  ASSUME NEW S, IsFiniteSet(S), NEW f, NEW g, IntOn(f, S), NEW x \in S, g[x] \in Int,
         \A y \in S \ {x} : g[y] = f[y]
  PROVE  SumFunctionOnSet(g, S) = SumFunctionOnSet(f, S) - f[x] + g[x]
<1> DEFINE r == S \ {x}
<1>1. IsFiniteSet(r) /\ IntOn(f, r) /\ IntOn(g, S) /\ f[x] \in Int
  BY FS_Subset DEF IntOn
<1>2. SumFunctionOnSet(g, r) = SumFunctionOnSet(f, r) /\ SumFunctionOnSet(f, r) \in Int
  BY <1>1, SumSame, SumInt
<1>3. /\ SumFunctionOnSet(f, S) = f[x] + SumFunctionOnSet(f, r)
      /\ SumFunctionOnSet(g, S) = g[x] + SumFunctionOnSet(g, r)
  BY <1>1, SumRemove
<1> HIDE DEF r
<1> QED
  BY <1>1, <1>2, <1>3

\* A sum of natural numbers is one, and none of them is greater.
LEMMA SumNat ==
  ASSUME NEW S, IsFiniteSet(S), NEW f, \A x \in S : f[x] \in Nat
  PROVE  /\ SumFunctionOnSet(f, S) \in Nat
         /\ \A x \in S : f[x] <= SumFunctionOnSet(f, S)
<1> DEFINE B == {t \in SUBSET S : SumFunctionOnSet(f, t) \notin Nat}
<1>1. \A t \in SUBSET S : IntOn(f, t) /\ IsFiniteSet(t)
  BY FS_Subset DEF IntOn
<1>2. B = {}
  <2>1. SUFFICES ASSUME B # {} PROVE FALSE
    OBVIOUS
  <2>2. PICK t \in B : IsFiniteSet(t) /\ \A x \in t : t \ {x} \notin B
    <3>1. B \subseteq SUBSET S
      OBVIOUS
    <3> HIDE DEF B
    <3> QED
      BY <2>1, <3>1, SmallestPart
  <2>3. t # {}
    BY <2>2, SumEmpty
  <2>4. Taken(t) \in t
    BY <2>3, TakenIn
  <2>5. SumFunctionOnSet(f, t) = f[Taken(t)] + SumFunctionOnSet(f, t \ {Taken(t)})
    BY <1>1, <2>3, SumStep
  <2>6. SumFunctionOnSet(f, t \ {Taken(t)}) \in Nat /\ f[Taken(t)] \in Nat
    BY <2>2, <2>4
  <2>7. SumFunctionOnSet(f, t) \in Nat
    BY <2>5, <2>6
  <2> QED
    BY <2>7
<1>3. \A t \in SUBSET S : SumFunctionOnSet(f, t) \in Nat
  BY <1>2
<1> HIDE DEF B
<1>4. ASSUME NEW x \in S PROVE f[x] <= SumFunctionOnSet(f, S)
  <2>1. SumFunctionOnSet(f, S) = f[x] + SumFunctionOnSet(f, S \ {x})
    BY <1>1, SumRemove
  <2>2. SumFunctionOnSet(f, S \ {x}) \in Nat /\ f[x] \in Nat
    BY <1>3
  <2> QED
    BY <2>1, <2>2
<1> QED
  BY <1>3, <1>4

\* An amount goes from one place to another.
LEMMA SumMoved ==
  ASSUME NEW S, IsFiniteSet(S), NEW f, NEW g, IntOn(f, S), NEW s \in S, NEW b \in S, s # b,
         NEW x \in Int, g[s] = f[s] - x, g[b] = f[b] + x,
         \A y \in S \ {s, b} : g[y] = f[y]
  PROVE  SumFunctionOnSet(g, S) = SumFunctionOnSet(f, S)
<1> DEFINE h == [y \in S |-> IF y = s THEN g[y] ELSE f[y]]
<1>1. /\ IntOn(h, S) /\ h[s] = f[s] - x /\ h[b] = f[b] /\ h[s] \in Int
      /\ f[s] \in Int /\ f[b] \in Int /\ g[b] \in Int
      /\ \A y \in S \ {s} : h[y] = f[y]
      /\ \A y \in S \ {b} : g[y] = h[y]
  BY DEF IntOn
<1> HIDE DEF h
<1>2. SumFunctionOnSet(h, S) = SumFunctionOnSet(f, S) - f[s] + h[s]
  BY <1>1, SumChange
<1>3. SumFunctionOnSet(g, S) = SumFunctionOnSet(h, S) - h[b] + g[b]
  BY <1>1, SumChange
<1>4. SumFunctionOnSet(f, S) \in Int
  BY SumInt
<1> QED
  BY <1>1, <1>2, <1>3, <1>4

\* All values are the same.
LEMMA SumConstant ==
  ASSUME NEW S, IsFiniteSet(S), NEW c \in Nat, NEW f, \A x \in S : f[x] = c
  PROVE  SumFunctionOnSet(f, S) = c * Cardinality(S)
<1> DEFINE B == {t \in SUBSET S : SumFunctionOnSet(f, t) # c * Cardinality(t)}
<1>1. SUFFICES ASSUME B # {} PROVE FALSE
  BY <1>1
<1>2. PICK t \in B : IsFiniteSet(t) /\ \A x \in t : t \ {x} \notin B
  <2>1. B \subseteq SUBSET S
    OBVIOUS
  <2> HIDE DEF B
  <2> QED
    BY <1>1, <2>1, SmallestPart
<1>3. IntOn(f, t) /\ \A x \in t : f[x] = c
  BY DEF IntOn
<1>4. t # {}
  <2>1. Cardinality({}) = 0 /\ c * 0 = 0
    BY FS_EmptySet
  <2> QED
    BY <1>2, <2>1, SumEmpty
<1> DEFINE z == Taken(t)
           r == t \ {z}
<1>5. z \in t /\ r \in SUBSET S /\ r \notin B
  BY <1>2, <1>4, TakenIn
<1>6. SumFunctionOnSet(f, r) = c * Cardinality(r)
  BY <1>5
<1>7. SumFunctionOnSet(f, t) = c + SumFunctionOnSet(f, r)
  BY <1>2, <1>3, <1>4, <1>5, SumStep
<1>8. Cardinality(r) = Cardinality(t) - 1 /\ Cardinality(t) \in Nat
  BY <1>2, <1>5, FS_RemoveElement, FS_CardinalityType
<1>9. SumFunctionOnSet(f, t) # c * Cardinality(t)
  OBVIOUS
<1> DEFINE m == Cardinality(t)
<1> HIDE DEF r, z, m
<1>10. c + c * (m - 1) = c * m
  <2>1. m \in Nat
    BY <1>8 DEF m
  <2> QED
    BY ONLY <2>1, c \in Nat
<1> QED
  BY <1>6, <1>7, <1>8, <1>9, <1>10 DEF m

===============================================================================
