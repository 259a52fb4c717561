---------------------------- MODULE PackagerProofs ----------------------------
(***************************************************************************)
(* Proofs about the leader's pools (Packager): between handleTxTrans and   *)
(* the blocks no transaction is lost or doubled, however the pools are     *)
(* sorted and cut.  For any sets, any size of a block and any number of    *)
(* sets that may wait.                                                     *)
(***************************************************************************)
EXTENDS Packager, FoldLemmas, SequenceTheorems

----------------------------------------------------------------------------
(* Bags.                                                                   *)

LEMMA PlusIsABag ==
  ASSUME NEW a, NEW b, IsABag(a), IsABag(b)
  PROVE  IsABag(a (+) b) /\ BagToSet(a (+) b) = BagToSet(a) \cup BagToSet(b)
  BY DEF IsABag, BagToSet, (+)

LEMMA PlusAssociates ==
  ASSUME NEW a, NEW b, NEW c, IsABag(a), IsABag(b), IsABag(c)
  PROVE  (a (+) b) (+) c = a (+) (b (+) c)
  BY DEF IsABag, (+)

\* What is cut from a pool and what is left are the pool.
LEMMA CutAndRest ==
  ASSUME NEW p, NEW b, IsABag(p), IsABag(b), b \sqsubseteq p
  PROVE  /\ IsABag(p (-) b) /\ BagToSet(p (-) b) \subseteq BagToSet(p)
         /\ b (+) (p (-) b) = p
<1> DEFINE left == [e \in DOMAIN p |-> IF e \in DOMAIN b THEN p[e] - b[e] ELSE p[e]]
           rest == [e \in {d \in DOMAIN p : left[d] > 0} |-> left[e]]
<1>1. p (-) b = rest
  BY DEF (-)
<1>2. /\ DOMAIN b \subseteq DOMAIN p
      /\ \A e \in DOMAIN p : p[e] \in Nat /\ p[e] > 0
      /\ \A e \in DOMAIN b : b[e] \in Nat /\ b[e] > 0 /\ b[e] <= p[e]
  BY DEF IsABag, \sqsubseteq
<1>3. \A e \in DOMAIN p : left[e] \in Nat
  BY <1>2
<1>4. IsABag(rest) /\ DOMAIN rest \subseteq DOMAIN p
  BY <1>3 DEF IsABag
<1>5. ASSUME NEW e \in DOMAIN p
      PROVE  (IF e \in DOMAIN b THEN b[e] ELSE 0) + (IF e \in DOMAIN rest THEN rest[e] ELSE 0)
               = p[e]
  BY <1>2, <1>3
<1>6. DOMAIN b \cup DOMAIN rest = DOMAIN p
  <2>1. \A e \in DOMAIN p \ DOMAIN b : left[e] > 0
    BY <1>2
  <2> HIDE DEF left
  <2> QED
    BY <1>2, <2>1
<1> HIDE DEF rest
<1>7. p = [e \in DOMAIN p |-> p[e]]
  BY DEF IsABag
<1>8. b (+) rest = p
  BY <1>5, <1>6, <1>7 DEF (+)
<1> QED
  BY <1>1, <1>4, <1>8 DEF BagToSet

----------------------------------------------------------------------------
(* The sets that wait, added to what is held already.                      *)

Queued(base, sets) == FoldLeft(LAMBDA held, set : held (+) set, base, sets)

\* The sums of base and the first i sets.
Sums(v, base, sets) ==
  v = [i \in 0..Len(sets) |-> IF i = 0 THEN base ELSE v[i - 1] (+) sets[i]]

\* What FoldLeft is defined by, here.
QueuedIter(g, base, sets) ==
  g = [s \in SUBSET DOMAIN sets |->
         IF s = {} THEN base ELSE g[s \ {Max(s)}] (+) sets[Max(s)]]

LEMMA QueuedUnfolds ==
  ASSUME NEW base, NEW sets
  PROVE  Queued(base, sets) = (CHOOSE g : QueuedIter(g, base, sets))[DOMAIN sets]
  BY DEF Queued, FoldLeft, MapThenFoldSet, QueuedIter

LEMMA QueuedIterExists ==
  ASSUME NEW base, IsABag(base), NEW S, NEW sets \in Seq(S), \A b \in S : IsABag(b)
  PROVE  \E g : QueuedIter(g, base, sets)
<1> DEFINE n == Len(sets)
           D == BagToSet(base) \cup UNION {BagToSet(sets[i]) : i \in 1..n}
           Bag == UNION {[d -> {k \in Nat : k > 0}] : d \in SUBSET D}
           F == [p \in Bag \X (1..n) |-> p[1] (+) sets[p[2]]]
           pick == [s \in SUBSET (1..n) |-> Max(s)]
<1>1. n \in Nat /\ DOMAIN sets = 1..n /\ \A i \in 1..n : IsABag(sets[i])
  OBVIOUS
<1>2. \A b : b \in Bag <=> IsABag(b) /\ BagToSet(b) \subseteq D
  BY DEF IsABag, BagToSet
<1> HIDE DEF Bag
<1>3. base \in Bag /\ \A i \in 1..n : sets[i] \in Bag
  BY <1>1, <1>2
<1> HIDE DEF D
<1>4. \A b, c \in Bag : b (+) c \in Bag
  BY <1>2, PlusIsABag
<1>5. F \in [Bag \X (1..n) -> Bag] /\ \A b \in Bag, i \in 1..n : F[<<b, i>>] = b (+) sets[i]
  BY <1>3, <1>4
<1> HIDE DEF F
<1>6. \A s \in SUBSET (1..n) : pick[s] = Max(s) /\ (s # {} => pick[s] \in s)
  <2>1. \A s \in SUBSET (1..n) : s # {} => Max(s) \in s
    BY <1>1, GreatestIndex DEF Max
  <2> QED
    BY <2>1
<1> HIDE DEF pick, n
<1>7. PICK g \in [SUBSET (1..n) -> Bag] :
        \A s \in SUBSET (1..n) :
          g[s] = IF s = {} THEN base ELSE F[<<g[s \ {pick[s]}], pick[s]>>]
  <2>1. IsFiniteSet(1..n)
    BY <1>1, FS_Interval
  <2>2. base \in Bag /\ F \in [Bag \X (1..n) -> Bag]
    BY <1>3, <1>5
  <2>3. IsPick(pick, 1..n)
    BY <1>6 DEF IsPick
  <2>4. \E g \in [SUBSET (1..n) -> Bag] : IsFold(g, 1..n, base, F, pick)
    BY <2>1, <2>2, <2>3, FoldExists, Zenon
  <2> QED
    BY <2>4 DEF IsFold
<1>8. ASSUME NEW s \in SUBSET (1..n), s # {}
      PROVE  g[s] = g[s \ {Max(s)}] (+) sets[Max(s)]
  <2>1. Max(s) \in 1..n /\ pick[s] = Max(s) /\ s \ {Max(s)} \in SUBSET (1..n)
    BY <1>6, <1>8
  <2>2. g[s \ {Max(s)}] \in Bag /\ g[s] = F[<<g[s \ {Max(s)}], Max(s)>>]
    BY <1>7, <1>8, <2>1
  <2> QED
    BY <1>5, <2>1, <2>2
<1>9. QueuedIter(g, base, sets)
  <2>1. \A s \in SUBSET (1..n) :
          g[s] = IF s = {} THEN base ELSE g[s \ {Max(s)}] (+) sets[Max(s)]
    BY <1>7, <1>8
  <2> QED
    BY <1>1, <2>1 DEF QueuedIter
<1> QED
  BY <1>9

\* What is queued is the last of the sums.
LEMMA QueuedSums ==
  ASSUME NEW base, IsABag(base), NEW S, NEW sets \in Seq(S), \A b \in S : IsABag(b)
  PROVE  \E v : Sums(v, base, sets) /\ Queued(base, sets) = v[Len(sets)]
<1> DEFINE n == Len(sets)
           g == CHOOSE h : QueuedIter(h, base, sets)
           v == [i \in 0..n |-> g[1..i]]
<1>1. n \in Nat /\ DOMAIN sets = 1..n
  OBVIOUS
<1>2. QueuedIter(g, base, sets)
  <2>1. \E h : QueuedIter(h, base, sets)
    BY QueuedIterExists
  <2> QED
    BY <2>1
<1>3. Queued(base, sets) = g[1..n]
  BY <1>1, QueuedUnfolds
<1> HIDE DEF g, n
<1>4. \A s \in SUBSET (1..n) :
        g[s] = IF s = {} THEN base ELSE g[s \ {Max(s)}] (+) sets[Max(s)]
  BY <1>1, <1>2 DEF QueuedIter
<1>5. g[1..0] = base
  <2>1. 1..0 = {} /\ {} \in SUBSET (1..n)
    OBVIOUS
  <2> QED
    BY <1>4, <2>1
<1>6. ASSUME NEW i \in 1..n
      PROVE  g[1..i] = g[1..(i - 1)] (+) sets[i]
  <2>1. 1..i \in SUBSET (1..n) /\ 1..i # {} /\ (1..i) \ {i} = 1..(i - 1) /\ i \in 1..i
    BY <1>1
  <2>2. Max(1..i) = i
    <3>1. Max(1..i) \in 1..i /\ \A y \in 1..i : y <= Max(1..i)
      BY <1>1, <2>1, GreatestIndex DEF Max
    <3> QED
      BY <2>1, <3>1
  <2> QED
    BY <1>4, <2>1, <2>2
<1>7. \A i \in 0..n : v[i] = IF i = 0 THEN base ELSE v[i - 1] (+) sets[i]
  <2> SUFFICES ASSUME NEW i \in 0..n
               PROVE  g[1..i] = IF i = 0 THEN base ELSE v[i - 1] (+) sets[i]
    OBVIOUS
  <2>1. CASE i = 0
    BY <1>5, <2>1
  <2>2. CASE i # 0
    <3>1. i \in 1..n /\ i - 1 \in 0..n
      BY <1>1, <2>2
    <3> QED
      BY <1>6, <2>2, <3>1
  <2> QED
    BY <2>1, <2>2
<1>8. v = [i \in 0..n |-> v[i]] /\ v[n] = g[1..n]
  BY <1>1
<1> HIDE DEF v
<1>9. Sums(v, base, sets)
  BY <1>7, <1>8 DEF Sums, n
<1> QED
  BY <1>3, <1>8, <1>9 DEF n

\* There is one such sequence of sums.
LEMMA SumsAgree ==
  ASSUME NEW base, NEW sets, Len(sets) \in Nat, NEW v, NEW w,
         Sums(v, base, sets), Sums(w, base, sets)
  PROVE  v[Len(sets)] = w[Len(sets)]
<1> DEFINE T == {i \in 0..Len(sets) : v[i] # w[i]}
<1>1. SUFFICES ASSUME T # {} PROVE FALSE
  OBVIOUS
<1>2. PICK k \in T : \A j \in T : ~(j < k)
  <2>1. T \subseteq Nat
    OBVIOUS
  <2> HIDE DEF T
  <2> QED
    BY <1>1, <2>1, LeastNumber
<1>3. \A i \in 0..Len(sets) : /\ v[i] = IF i = 0 THEN base ELSE v[i - 1] (+) sets[i]
                              /\ w[i] = IF i = 0 THEN base ELSE w[i - 1] (+) sets[i]
  BY DEF Sums
<1>4. k # 0
  BY <1>2, <1>3
<1>5. k - 1 \in 0..Len(sets) /\ k - 1 < k
  BY <1>2, <1>4
<1>6. v[k - 1] = w[k - 1]
  BY <1>2, <1>5
<1> QED
  BY <1>2, <1>3, <1>4, <1>6

LEMMA QueuedAppend ==
  ASSUME NEW base, IsABag(base), NEW S, \A b \in S : IsABag(b),
         NEW sets \in Seq(S), NEW set \in S
  PROVE  Queued(base, Append(sets, set)) = Queued(base, sets) (+) set
<1> DEFINE n == Len(sets)
           more == Append(sets, set)
<1>1. /\ n \in Nat /\ more \in Seq(S) /\ Len(more) = n + 1
      /\ more[n + 1] = set /\ \A i \in 1..n : more[i] = sets[i]
  OBVIOUS
<1> HIDE DEF more
<1>2. PICK v : Sums(v, base, more) /\ Queued(base, more) = v[Len(more)]
  BY <1>1, QueuedSums
<1>3. PICK u : Sums(u, base, sets) /\ Queued(base, sets) = u[Len(sets)]
  BY QueuedSums
<1> DEFINE w == [i \in 0..n |-> v[i]]
<1>4. \A i \in 0..(n + 1) : v[i] = IF i = 0 THEN base ELSE v[i - 1] (+) more[i]
  BY <1>1, <1>2 DEF Sums
<1>5. \A i \in 0..n : w[i] = IF i = 0 THEN base ELSE w[i - 1] (+) sets[i]
  <2> SUFFICES ASSUME NEW i \in 0..n
               PROVE  v[i] = IF i = 0 THEN base ELSE w[i - 1] (+) sets[i]
    OBVIOUS
  <2>1. i \in 0..(n + 1) /\ (i # 0 => i \in 1..n /\ i - 1 \in 0..n)
    BY <1>1
  <2>2. i # 0 => w[i - 1] = v[i - 1] /\ more[i] = sets[i]
    BY <1>1, <2>1
  <2> QED
    BY <1>4, <2>1, <2>2
<1>6. w = [i \in 0..n |-> w[i]] /\ w[n] = v[n]
  BY <1>1
<1> HIDE DEF w
<1>7. Sums(w, base, sets)
  BY <1>5, <1>6 DEF Sums
<1>8. w[n] = u[n]
  BY <1>1, <1>3, <1>7, SumsAgree
<1>9. v[n + 1] = v[n] (+) set
  <2>1. n + 1 \in 0..(n + 1) /\ n + 1 # 0 /\ (n + 1) - 1 = n
    BY <1>1
  <2> QED
    BY <1>1, <1>4, <2>1
<1> QED
  BY <1>1, <1>2, <1>3, <1>6, <1>8, <1>9 DEF more

LEMMA QueuedHead ==
  ASSUME NEW base, IsABag(base), NEW S, \A b \in S : IsABag(b),
         NEW sets \in Seq(S), sets # << >>
  PROVE  Queued(base (+) Head(sets), Tail(sets)) = Queued(base, sets)
<1> DEFINE n == Len(sets)
           rest == Tail(sets)
           start == base (+) Head(sets)
<1>1. /\ n \in Nat /\ n # 0 /\ rest \in Seq(S) /\ Len(rest) = n - 1 /\ Head(sets) = sets[1]
      /\ Head(sets) \in S /\ \A i \in 1..(n - 1) : rest[i] = sets[i + 1]
  OBVIOUS
<1>2. IsABag(start)
  BY <1>1, PlusIsABag
<1> HIDE DEF rest, start
<1>3. PICK v : Sums(v, base, sets) /\ Queued(base, sets) = v[Len(sets)]
  BY QueuedSums
<1>4. PICK u : Sums(u, start, rest) /\ Queued(start, rest) = u[Len(rest)]
  BY <1>1, <1>2, QueuedSums
<1> DEFINE w == [i \in 0..(n - 1) |-> v[i + 1]]
<1>5. \A i \in 0..n : v[i] = IF i = 0 THEN base ELSE v[i - 1] (+) sets[i]
  BY <1>3 DEF Sums
<1>6. \A i \in 0..(n - 1) : w[i] = IF i = 0 THEN start ELSE w[i - 1] (+) rest[i]
  <2> SUFFICES ASSUME NEW i \in 0..(n - 1)
               PROVE  v[i + 1] = IF i = 0 THEN start ELSE w[i - 1] (+) rest[i]
    OBVIOUS
  <2>1. i + 1 \in 0..n /\ i + 1 # 0 /\ (i + 1) - 1 = i
    BY <1>1
  <2>2. v[i + 1] = v[i] (+) sets[i + 1]
    BY <1>5, <2>1
  <2>3. CASE i = 0
    <3>1. v[0] = base
      BY <1>1, <1>5
    <3> QED
      BY <1>1, <2>2, <2>3, <3>1 DEF start
  <2>4. CASE i # 0
    <3>1. i \in 1..(n - 1) /\ i - 1 \in 0..(n - 1) /\ (i - 1) + 1 = i
      BY <1>1, <2>4
    <3>2. w[i - 1] = v[i] /\ rest[i] = sets[i + 1]
      BY <1>1, <3>1
    <3> QED
      BY <2>2, <2>4, <3>2
  <2> QED
    BY <2>3, <2>4
<1>7. w = [i \in 0..(n - 1) |-> w[i]] /\ w[n - 1] = v[n]
  <2>1. n - 1 \in 0..(n - 1) /\ (n - 1) + 1 = n
    BY <1>1
  <2> QED
    BY <2>1
<1> HIDE DEF w
<1>8. Sums(w, start, rest)
  BY <1>1, <1>6, <1>7 DEF Sums
<1>9. w[n - 1] = u[n - 1]
  BY <1>1, <1>4, <1>8, SumsAgree
<1> QED
  BY <1>1, <1>3, <1>4, <1>7, <1>9 DEF rest, start

----------------------------------------------------------------------------
(* The pools.                                                              *)

\* The channels, the pools and the blocks are kept per category.
Tables ==
  /\ leaderTxSetChan = [c \in Categories |-> leaderTxSetChan[c]]
  /\ leaderTxPool = [c \in Categories |-> leaderTxPool[c]]
  /\ packed = [c \in Categories |-> packed[c]]

PackagerInv == TypeOK /\ Tables

\* How what is held of each category may change.
HeldGrows ==
  \A c \in Categories :
    \/ Held(c)' = Held(c)
    \/ \E set \in Inputs[c] : Held(c)' = Held(c) (+) set

LEMMA InputsAreBags ==
  \A c \in Categories : \A b \in Inputs[c] : BagOf(c, b)
  BY PackagerAssumption DEF BagOf, Transactions

LEMMA HeldIs ==
  ASSUME NEW c
  PROVE  /\ Held(c) = Queued(packed[c] (+) leaderTxPool[c], leaderTxSetChan[c])
         /\ Held(c)' = Queued(packed'[c] (+) leaderTxPool'[c], leaderTxSetChan'[c])
  BY DEF Held, Queued, FoldLeft, MapThenFoldSet

LEMMA PlusOf ==
  ASSUME NEW c, NEW a, NEW b, BagOf(c, a), BagOf(c, b)
  PROVE  BagOf(c, a (+) b)
  BY PlusIsABag DEF BagOf

\* A block that may be cut is a part of the pool.
LEMMA FirstsArePart ==
  ASSUME NEW c \in Categories, NEW pool, NEW b \in Firsts(c, pool)
  PROVE  IsABag(b) /\ BagToSet(b) \subseteq BagToSet(pool) /\ b \sqsubseteq pool
<1>1. b \sqsubseteq pool /\ b \in UNION {[S -> 1..MaxTx] : S \in SUBSET BagToSet(pool)}
  BY DEF Firsts, Blocks
<1>2. PICK S \in SUBSET BagToSet(pool) : b \in [S -> 1..MaxTx]
  BY <1>1
<1>3. \A k \in 1..MaxTx : k \in Nat /\ k > 0
  BY PackagerAssumption
<1>4. IsABag(b)
  BY <1>2, <1>3 DEF IsABag
<1> QED
  BY <1>1, <1>2, <1>4 DEF BagToSet

LEMMA PackagerInit == Init => PackagerInv
<1> SUFFICES ASSUME Init PROVE PackagerInv
  OBVIOUS
<1>1. \A c : BagOf(c, EmptyBag)
  BY DEF BagOf, EmptyBag, SetToBag, IsABag, BagToSet
<1>2. Tables
  BY DEF Init, Tables
<1>3. \A S : << >> \in Seq(S) /\ Len(<< >>) = 0
  OBVIOUS
<1>4. /\ received \in 0..MaxSets /\ roundOpen \in BOOLEAN
      /\ packager \in [at : Categories, waits : BOOLEAN]
  <2>1. received \in 0..MaxSets
    BY PackagerAssumption DEF Init
  <2>2. "ID" \in Categories /\ FALSE \in BOOLEAN
    BY DEF Categories
  <2>3. roundOpen \in BOOLEAN
    BY DEF Init
  <2>4. packager = [at |-> "ID", waits |-> FALSE]
    BY DEF Init
  <2>5. packager \in [at : Categories, waits : BOOLEAN]
    BY ONLY <2>2, <2>4, Zenon
  <2> QED
    BY <2>1, <2>3, <2>5
<1>5. \A c \in Categories : /\ leaderTxSetChan[c] = << >>
                            /\ leaderTxPool[c] = EmptyBag /\ packed[c] = EmptyBag
  BY DEF Init
<1>6. TypeOK
  <2>1. \A c \in Categories :
          /\ leaderTxSetChan[c] \in Seq(Inputs[c]) /\ Len(leaderTxSetChan[c]) <= SetCap
          /\ BagOf(c, leaderTxPool[c]) /\ BagOf(c, packed[c])
    <3> TAKE c \in Categories
    <3>1. leaderTxSetChan[c] \in Seq(Inputs[c]) /\ Len(leaderTxSetChan[c]) = 0
      BY <1>3, <1>5
    <3>2. 0 <= SetCap
      BY PackagerAssumption
    <3> QED
      BY <1>1, <1>5, <3>1, <3>2
  <2> QED
    BY <1>4, <2>1 DEF TypeOK
<1> QED
  BY <1>2, <1>6 DEF PackagerInv

\* A step that touches neither channels nor pools.
LEMMA HeldKept ==
  ASSUME PackagerInv, received' \in 0..MaxSets, roundOpen' \in BOOLEAN,
         packager' \in [at : Categories, waits : BOOLEAN],
         UNCHANGED <<leaderTxSetChan, leaderTxPool, packed>>
  PROVE  PackagerInv' /\ HeldGrows
<1>1. PackagerInv'
  BY DEF PackagerInv, TypeOK, Tables
<1>2. HeldGrows
  BY HeldIs DEF HeldGrows
<1> QED
  BY <1>1, <1>2

\* A step that touches one category, and what it does there.
LEMMA HeldInOne ==
  ASSUME PackagerInv, Tables', received' \in 0..MaxSets, roundOpen' \in BOOLEAN,
         packager' \in [at : Categories, waits : BOOLEAN],
         NEW c \in Categories,
         \A d \in Categories \ {c} : /\ leaderTxSetChan'[d] = leaderTxSetChan[d]
                                     /\ leaderTxPool'[d] = leaderTxPool[d]
                                     /\ packed'[d] = packed[d],
         leaderTxSetChan'[c] \in Seq(Inputs[c]), Len(leaderTxSetChan'[c]) <= SetCap,
         BagOf(c, leaderTxPool'[c]), BagOf(c, packed'[c]),
         \/ Held(c)' = Held(c)
         \/ \E set \in Inputs[c] : Held(c)' = Held(c) (+) set
  PROVE  PackagerInv' /\ HeldGrows
<1>1. \A d \in Categories :
        /\ leaderTxSetChan'[d] \in Seq(Inputs[d]) /\ Len(leaderTxSetChan'[d]) <= SetCap
        /\ BagOf(d, leaderTxPool'[d]) /\ BagOf(d, packed'[d])
  <2> TAKE d \in Categories
  <2>1. CASE d = c
    BY <2>1
  <2>2. CASE d # c
    <3>1. /\ leaderTxSetChan'[d] = leaderTxSetChan[d]
          /\ leaderTxPool'[d] = leaderTxPool[d] /\ packed'[d] = packed[d]
      BY <2>2
    <3>2. /\ leaderTxSetChan[d] \in Seq(Inputs[d]) /\ Len(leaderTxSetChan[d]) <= SetCap
          /\ BagOf(d, leaderTxPool[d]) /\ BagOf(d, packed[d])
      BY DEF PackagerInv, TypeOK
    <3> QED
      BY <3>1, <3>2
  <2> QED
    BY <2>1, <2>2
<1>3. TypeOK'
  BY <1>1 DEF TypeOK, BagOf, Transactions
<1>4. HeldGrows
  <2> SUFFICES ASSUME NEW d \in Categories
               PROVE  \/ Held(d)' = Held(d)
                      \/ \E set \in Inputs[d] : Held(d)' = Held(d) (+) set
    BY DEF HeldGrows
  <2>1. CASE d = c
    BY <2>1
  <2>2. CASE d # c
    <3>1. /\ leaderTxSetChan'[d] = leaderTxSetChan[d]
          /\ leaderTxPool'[d] = leaderTxPool[d] /\ packed'[d] = packed[d]
      BY <2>2
    <3>2. Held(d) = Queued(packed[d] (+) leaderTxPool[d], leaderTxSetChan[d])
      BY HeldIs
    <3>3. Held(d)' = Queued(packed'[d] (+) leaderTxPool'[d], leaderTxSetChan'[d])
      BY HeldIs
    <3> QED
      BY <3>1, <3>2, <3>3
  <2> QED
    BY <2>1, <2>2
<1> QED
  BY <1>3, <1>4 DEF PackagerInv

LEMMA Appended ==
  ASSUME NEW S, NEW s \in Seq(S), NEW e \in S
  PROVE  /\ Append(s, e) \in Seq(S) /\ Len(Append(s, e)) = Len(s) + 1
         /\ Len(s) \in Nat
  OBVIOUS

\* A set that comes in is queued if there is room.
LEMMA HandleHeld ==
  ASSUME PackagerInv, NEW c \in Categories, NEW set \in Inputs[c], HandleTxTrans(c, set)
  PROVE  PackagerInv' /\ HeldGrows
<1>1. /\ received' \in 0..MaxSets /\ roundOpen' \in BOOLEAN
      /\ packager' \in [at : Categories, waits : BOOLEAN]
  BY PackagerAssumption DEF PackagerInv, TypeOK, HandleTxTrans, leader
<1>2. leaderTxPool' = leaderTxPool /\ packed' = packed
  BY DEF HandleTxTrans, leader
<1>3. CASE ~HasRoom(c)
  <2>1. leaderTxSetChan' = leaderTxSetChan
    BY <1>3 DEF HandleTxTrans
  <2> QED
    BY <1>1, <1>2, <2>1, HeldKept
<1>4. CASE HasRoom(c)
  <2>1. leaderTxSetChan' = [leaderTxSetChan EXCEPT ![c] = Append(@, set)]
    BY <1>4 DEF HandleTxTrans
  <2>2. /\ leaderTxSetChan[c] \in Seq(Inputs[c]) /\ Len(leaderTxSetChan[c]) < SetCap
        /\ BagOf(c, leaderTxPool[c]) /\ BagOf(c, packed[c])
    BY <1>4 DEF PackagerInv, TypeOK, HasRoom
  <2>3. Tables' /\ leaderTxSetChan'[c] = Append(leaderTxSetChan[c], set)
    BY <1>2, <2>1 DEF PackagerInv, Tables
  <2>4. \A d \in Categories \ {c} : leaderTxSetChan'[d] = leaderTxSetChan[d]
    BY <2>1 DEF PackagerInv, Tables
  <2>5. leaderTxSetChan'[c] \in Seq(Inputs[c]) /\ Len(leaderTxSetChan'[c]) <= SetCap
    <3>1. /\ Append(leaderTxSetChan[c], set) \in Seq(Inputs[c])
          /\ Len(Append(leaderTxSetChan[c], set)) = Len(leaderTxSetChan[c]) + 1
          /\ Len(leaderTxSetChan[c]) \in Nat
      <4>1. leaderTxSetChan[c] \in Seq(Inputs[c]) /\ set \in Inputs[c]
        BY <2>2
      <4> QED
        BY <4>1, Appended, Zenon
    <3>2. SetCap \in Nat
      BY PackagerAssumption
    <3>3. Len(Append(leaderTxSetChan[c], set)) <= SetCap
      BY ONLY <2>2, <3>1, <3>2
    <3> QED
      BY <2>3, <3>1, <3>3
  <2>6. Held(c)' = Held(c) (+) set
    <3>1. IsABag(packed[c] (+) leaderTxPool[c])
      BY <2>2, PlusIsABag DEF BagOf
    <3>2. \A b \in Inputs[c] : IsABag(b)
      BY PackagerAssumption
    <3>3. Queued(packed[c] (+) leaderTxPool[c], Append(leaderTxSetChan[c], set))
            = Queued(packed[c] (+) leaderTxPool[c], leaderTxSetChan[c]) (+) set
      BY <2>2, <3>1, <3>2, QueuedAppend
    <3>4. Held(c) = Queued(packed[c] (+) leaderTxPool[c], leaderTxSetChan[c])
      BY HeldIs
    <3>5. Held(c)' = Queued(packed'[c] (+) leaderTxPool'[c], leaderTxSetChan'[c])
      BY HeldIs
    <3> QED
      BY <1>2, <2>3, <3>3, <3>4, <3>5
  <2> QED
    BY <1>1, <1>2, <2>2, <2>3, <2>4, <2>5, <2>6, HeldInOne
<1> QED
  BY <1>3, <1>4

LEMMA OtherCategory == \A c \in Categories : Other(c) \in Categories
  BY DEF Other, Categories

\* A set that is received moves from the channel to the pool.
LEMMA ReceiveHeld ==
  ASSUME PackagerInv, NEW c \in Categories, ReceiveSet(c)
  PROVE  PackagerInv' /\ HeldGrows
<1>1. /\ received' = received /\ roundOpen' = roundOpen /\ packed' = packed
      /\ packager' = [at |-> Other(c), waits |-> FALSE]
  BY DEF ReceiveSet
<1>2. packager' \in [at : Categories, waits : BOOLEAN]
  <2>1. Other(c) \in Categories /\ FALSE \in BOOLEAN
    BY OtherCategory
  <2> QED
    BY ONLY <1>1, <2>1, Zenon
<1>3. received' \in 0..MaxSets /\ roundOpen' \in BOOLEAN
  BY <1>1 DEF PackagerInv, TypeOK
<1>4. CASE UNCHANGED <<leaderTxPool, leaderTxSetChan>>
  BY <1>1, <1>2, <1>3, <1>4, HeldKept
<1>5. CASE /\ leaderTxSetChan[c] # << >>
           /\ leaderTxPool' = [leaderTxPool EXCEPT ![c] = @ (+) Head(leaderTxSetChan[c])]
           /\ leaderTxSetChan' = [leaderTxSetChan EXCEPT ![c] = Tail(@)]
  <2> DEFINE sets == leaderTxSetChan[c]
             pool == leaderTxPool[c]
  <2>1. /\ sets \in Seq(Inputs[c]) /\ Len(sets) <= SetCap /\ sets # << >>
        /\ BagOf(c, pool) /\ BagOf(c, packed[c])
    BY <1>5 DEF PackagerInv, TypeOK
  <2>2. Tables' /\ leaderTxPool'[c] = pool (+) Head(sets) /\ leaderTxSetChan'[c] = Tail(sets)
    BY <1>1, <1>5 DEF PackagerInv, Tables
  <2>3. \A d \in Categories \ {c} : /\ leaderTxSetChan'[d] = leaderTxSetChan[d]
                                    /\ leaderTxPool'[d] = leaderTxPool[d]
                                    /\ packed'[d] = packed[d]
    BY <1>1, <1>5 DEF PackagerInv, Tables
  <2> HIDE DEF sets, pool
  <2>4. /\ Tail(sets) \in Seq(Inputs[c]) /\ Len(Tail(sets)) <= SetCap
        /\ Head(sets) \in Inputs[c] /\ BagOf(c, Head(sets))
    <3>1. /\ Tail(sets) \in Seq(Inputs[c]) /\ Len(Tail(sets)) <= SetCap
          /\ Head(sets) \in Inputs[c]
      BY <2>1, PackagerAssumption
    <3> QED
      BY <3>1, InputsAreBags
  <2>5. BagOf(c, pool (+) Head(sets))
    BY <2>1, <2>4, PlusOf
  <2>6. Held(c)' = Held(c)
    <3>1. IsABag(packed[c]) /\ IsABag(pool) /\ IsABag(Head(sets)) /\ IsABag(packed[c] (+) pool)
      BY <2>1, <2>4, PlusIsABag DEF BagOf
    <3>2. \A b \in Inputs[c] : IsABag(b)
      BY PackagerAssumption
    <3>3. Queued((packed[c] (+) pool) (+) Head(sets), Tail(sets))
            = Queued(packed[c] (+) pool, sets)
      BY <2>1, <3>1, <3>2, QueuedHead
    <3>4. (packed[c] (+) pool) (+) Head(sets) = packed[c] (+) (pool (+) Head(sets))
      BY <3>1, PlusAssociates
    <3>5. Held(c) = Queued(packed[c] (+) pool, sets)
      BY HeldIs DEF pool, sets
    <3>6. Held(c)' = Queued(packed'[c] (+) leaderTxPool'[c], leaderTxSetChan'[c])
      BY HeldIs
    <3> QED
      BY <1>1, <2>2, <3>3, <3>4, <3>5, <3>6
  <2> QED
    BY <1>1, <1>2, <1>3, <2>1, <2>2, <2>3, <2>4, <2>5, <2>6, HeldInOne
<1> QED
  BY <1>4, <1>5 DEF ReceiveSet

\* A block is taken from the pool, what is left of the pool stays.
LEMMA PackHeld ==
  ASSUME PackagerInv, NEW c \in Categories, PackBlock(c)
  PROVE  PackagerInv' /\ HeldGrows
<1> DEFINE pool == leaderTxPool[c]
<1>1. /\ received' = received /\ roundOpen' = roundOpen
      /\ leaderTxSetChan' = leaderTxSetChan
      /\ packager' = [at |-> c, waits |-> TRUE]
  BY DEF PackBlock
<1>2. packager' \in [at : Categories, waits : BOOLEAN]
  <2>1. c \in Categories /\ TRUE \in BOOLEAN
    OBVIOUS
  <2> QED
    BY ONLY <1>1, <2>1, Zenon
<1>3. received' \in 0..MaxSets /\ roundOpen' \in BOOLEAN
  BY <1>1 DEF PackagerInv, TypeOK
<1>4. PICK block \in Firsts(c, pool) :
        /\ leaderTxPool' = [leaderTxPool EXCEPT ![c] = Rest(@, block)]
        /\ packed' = [packed EXCEPT ![c] = @ (+) block]
  BY DEF PackBlock
<1>5. /\ leaderTxSetChan[c] \in Seq(Inputs[c]) /\ Len(leaderTxSetChan[c]) <= SetCap
      /\ BagOf(c, pool) /\ BagOf(c, packed[c])
  BY DEF PackagerInv, TypeOK
<1>6. Tables' /\ leaderTxPool'[c] = pool (-) block /\ packed'[c] = packed[c] (+) block
  BY <1>1, <1>4 DEF PackagerInv, Tables, Rest
<1>7. \A d \in Categories \ {c} : leaderTxPool'[d] = leaderTxPool[d] /\ packed'[d] = packed[d]
  BY <1>4 DEF PackagerInv, Tables
<1> HIDE DEF pool
<1>8. IsABag(block) /\ BagToSet(block) \subseteq BagToSet(pool) /\ block \sqsubseteq pool
  BY FirstsArePart
<1>9. /\ IsABag(pool (-) block) /\ BagToSet(pool (-) block) \subseteq BagToSet(pool)
      /\ block (+) (pool (-) block) = pool
  BY <1>5, <1>8, CutAndRest DEF BagOf
<1>10. BagOf(c, pool (-) block) /\ BagOf(c, packed[c] (+) block)
  <2>1. BagOf(c, block) /\ BagOf(c, pool (-) block)
    BY <1>5, <1>8, <1>9 DEF BagOf
  <2> QED
    BY <1>5, <2>1, PlusOf
<1>11. Held(c)' = Held(c)
  <2>1. (packed[c] (+) block) (+) (pool (-) block) = packed[c] (+) (block (+) (pool (-) block))
    BY <1>5, <1>8, <1>9, PlusAssociates DEF BagOf
  <2>2. Held(c) = Queued(packed[c] (+) pool, leaderTxSetChan[c])
    BY HeldIs DEF pool
  <2>3. Held(c)' = Queued(packed'[c] (+) leaderTxPool'[c], leaderTxSetChan'[c])
    BY HeldIs
  <2> QED
    BY <1>1, <1>6, <1>9, <2>1, <2>2, <2>3
<1> QED
  BY <1>1, <1>2, <1>3, <1>5, <1>6, <1>7, <1>10, <1>11, HeldInOne

LEMMA PackagerNext ==
  ASSUME PackagerInv, [Next]_vars
  PROVE  PackagerInv' /\ HeldGrows
<1>1. ASSUME NEW c \in Categories, NEW set \in Inputs[c], HandleTxTrans(c, set)
      PROVE  PackagerInv' /\ HeldGrows
  BY <1>1, HandleHeld
<1>2. ASSUME NEW c \in Categories, ReceiveSet(c) \/ PackBlock(c)
      PROVE  PackagerInv' /\ HeldGrows
  BY <1>2, ReceiveHeld, PackHeld
<1>3. CASE StartRound
  <2>1. /\ received' = received /\ roundOpen' = TRUE
        /\ packager' = [at |-> Other(packager.at), waits |-> FALSE]
        /\ UNCHANGED <<leaderTxSetChan, leaderTxPool, packed>>
    BY <1>3 DEF StartRound
  <2>2. received' \in 0..MaxSets /\ roundOpen' \in BOOLEAN /\ packager.at \in Categories
    BY <2>1 DEF PackagerInv, TypeOK
  <2>3. packager' \in [at : Categories, waits : BOOLEAN]
    <3>1. Other(packager.at) \in Categories /\ FALSE \in BOOLEAN
      BY <2>2, OtherCategory
    <3> QED
      BY ONLY <2>1, <3>1, Zenon
  <2> QED
    BY <2>1, <2>2, <2>3, HeldKept
<1>4. CASE RoundEnds
  <2>1. /\ received' \in 0..MaxSets /\ roundOpen' \in BOOLEAN
        /\ packager' \in [at : Categories, waits : BOOLEAN]
        /\ UNCHANGED <<leaderTxSetChan, leaderTxPool, packed>>
    BY <1>4 DEF RoundEnds, PackagerInv, TypeOK
  <2> QED
    BY <2>1, HeldKept
<1>5. CASE UNCHANGED vars
  <2>1. /\ received' \in 0..MaxSets /\ roundOpen' \in BOOLEAN
        /\ packager' \in [at : Categories, waits : BOOLEAN]
        /\ UNCHANGED <<leaderTxSetChan, leaderTxPool, packed>>
    BY <1>5 DEF vars, leader, PackagerInv, TypeOK
  <2> QED
    BY <2>1, HeldKept
<1> QED
  BY <1>1, <1>2, <1>3, <1>4, <1>5 DEF Next, SendTxTrans

\* Channels, pools and blocks hold transactions of their category, and no channel
\* holds more sets than handleTxTrans lets in (PBFT.go:144-179).
THEOREM PackagerTypes == Spec => []TypeOK
<1>1. PackagerInv /\ [Next]_vars => PackagerInv'
  BY PackagerNext
<1>2. PackagerInv => TypeOK
  BY DEF PackagerInv
<1> QED
  BY <1>1, <1>2, PackagerInit, PTL DEF Spec

\* What the primary holds of a category, waiting, pooled or packed, changes only
\* by a set that comes in: receiving, sorting and cutting lose no transaction and
\* add no copy of one (PBFT.go:181-280).
THEOREM NothingLostOrDoubled == Spec => HeldOnlyGrowsBySets
<1>1. PackagerInv /\ [Next]_vars => PackagerInv'
  BY PackagerNext
<1>2. PackagerInv /\ [Next]_vars => [HeldGrows]_vars
  BY PackagerNext
<1> QED
  BY <1>1, <1>2, PackagerInit, PTL DEF Spec, HeldOnlyGrowsBySets, HeldGrows

===============================================================================
