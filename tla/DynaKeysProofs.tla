---------------------------- MODULE DynaKeysProofs ----------------------------
(***************************************************************************)
(* Proofs about DynaKeys for any length of a turn, any size of a block and *)
(* any number of blocks on both chains.                                    *)
(***************************************************************************)
EXTENDS DynaKeys, FoldLemmas, SequenceTheorems, TLAPS

----------------------------------------------------------------------------
(* The main chain.                                                         *)

ChainTypes ==
  /\ blocks \in Seq(Header) /\ packed \in Seq(Header)
  /\ tip \in 0..Len(blocks)
  /\ mainHeight \in Nat \ {0}
  /\ commit \in {"block", "tip", "height"}
  /\ Len(packed) <= 2
  /\ commit # "block" => packed # << >>
  /\ Len(blocks) + Len(packed) <= MaxMain + (IF commit = "block" THEN 0 ELSE 1)

\* Every header was made from a stored block, one height above it.
Linked ==
  /\ \A i \in 1..Len(blocks) :
       blocks[i].prev < i /\ blocks[i].height = HeightOf(blocks[i].prev) + 1
  /\ \A k \in 1..Len(packed) :
       packed[k].prev <= Len(blocks) /\ packed[k].height = HeightOf(packed[k].prev) + 1

\* The next block to be committed does not lower the height, and the one after
\* it is higher by one: it was packed when that one was in consensus.
HeightsFollow ==
  /\ commit \in {"block", "tip"} => mainHeight = HeightOf(tip)
  /\ commit = "height" => tip = Len(blocks)
  /\ commit # "block" => Len(blocks) >= 1 /\ blocks[Len(blocks)] = packed[1]
  /\ Len(packed) >= 1 => packed[1].height \in {mainHeight, mainHeight + 1}
  /\ Len(packed) = 2 => packed[2].height = mainHeight + 1

ChainInv == ChainTypes /\ Linked /\ HeightsFollow

\* What is in the two sequences are headers.
LEMMA Headers ==
  ASSUME ChainTypes
  PROVE  /\ \A i \in 1..Len(blocks) : blocks[i] \in Header /\ blocks[i].prev \in Nat
         /\ \A k \in 1..Len(packed) : packed[k] \in Header /\ packed[k].prev \in Nat
<1>1. \A S, s : s \in Seq(S) => \A i \in 1..Len(s) : s[i] \in S
  OBVIOUS
<1>2. \A h \in Header : h.prev \in Nat
  BY DynaKeysAssumption DEF Header
<1> QED
  BY <1>1, <1>2 DEF ChainTypes

LEMMA ChainInit == Init => ChainInv
  BY DynaKeysAssumption
  DEF Init, ChainInv, ChainTypes, Linked, HeightsFollow, HeightOf

LEMMA PackMainChain ==
  ASSUME ChainInv, PackMain
  PROVE  ChainInv'
<1> DEFINE b == [height |-> mainHeight + 1, prev |-> tip]
<1> USE DynaKeysAssumption DEF ChainInv, PackMain
<1>1. b \in Header
  BY DEF ChainTypes, Header
<1>2. /\ packed' = Append(packed, b) /\ packed' \in Seq(Header)
      /\ Len(packed') = Len(packed) + 1 /\ packed'[Len(packed) + 1] = b
      /\ \A k \in 1..Len(packed) : packed'[k] = packed[k]
  BY <1>1 DEF ChainTypes
<1>3. \A d : HeightOf(d)' = HeightOf(d)
  BY DEF HeightOf
<1>4. ChainTypes'
  BY <1>2 DEF ChainTypes
<1>5. Linked'
  BY <1>2, <1>3 DEF Linked, ChainTypes, HeightsFollow
<1>6. HeightsFollow'
  BY <1>2, <1>3 DEF HeightsFollow, ChainTypes
<1> QED
  BY <1>4, <1>5, <1>6

LEMMA PutBlockChain ==
  ASSUME ChainInv, PutBlock
  PROVE  ChainInv'
<1> USE DynaKeysAssumption DEF ChainInv, PutBlock
<1>1. packed[1] \in Header /\ Head(packed) = packed[1] /\ Len(packed) >= 1
  BY DEF ChainTypes
<1>2. /\ blocks' = Append(blocks, packed[1]) /\ blocks' \in Seq(Header)
      /\ Len(blocks') = Len(blocks) + 1 /\ blocks'[Len(blocks) + 1] = packed[1]
      /\ \A k \in 1..Len(blocks) : blocks'[k] = blocks[k]
  BY <1>1 DEF ChainTypes
<1>3. \A d \in 0..Len(blocks) : HeightOf(d)' = HeightOf(d)
  BY <1>2 DEF HeightOf, ChainTypes
<1>4. ChainTypes'
  BY <1>1, <1>2 DEF ChainTypes
<1>5. Linked'
  <2>1. \A i \in 1..Len(blocks) : blocks[i].prev \in 0..Len(blocks)
    BY Headers DEF Linked, ChainTypes
  <2>2. \A k \in 1..Len(packed) : packed[k].prev \in 0..Len(blocks)
    BY Headers DEF Linked, ChainTypes
  <2> QED
    BY <1>1, <1>2, <1>3, <2>1, <2>2 DEF Linked, ChainTypes
<1>6. HeightsFollow'
  BY <1>1, <1>2, <1>3 DEF HeightsFollow, ChainTypes
<1> QED
  BY <1>4, <1>5, <1>6

LEMMA PutTipChain ==
  ASSUME ChainInv, PutTip
  PROVE  ChainInv'
<1> USE DEF ChainInv, PutTip
<1>1. \A d : HeightOf(d)' = HeightOf(d)
  BY DEF HeightOf
<1>2. ChainTypes' /\ Linked'
  BY <1>1 DEF ChainTypes, Linked
<1>3. HeightsFollow'
  BY <1>1 DEF HeightsFollow, ChainTypes
<1> QED
  BY <1>2, <1>3

LEMMA SetHeightChain ==
  ASSUME ChainInv, SetHeight
  PROVE  ChainInv'
<1> USE DEF ChainInv, SetHeight
<1>1. /\ Head(packed) = packed[1] /\ packed[1] \in Header /\ Len(packed) \in {1, 2}
      /\ packed' \in Seq(Header) /\ Len(packed') = Len(packed) - 1
      /\ \A k \in 1..Len(packed') : packed'[k] = packed[k + 1]
  <2>1. packed \in Seq(Header) /\ packed # << >> /\ packed' = Tail(packed)
    BY DEF ChainTypes
  <2>2. Len(packed) \in {1, 2}
    <3>1. Len(packed) \in Nat /\ Len(packed) # 0
      BY <2>1, EmptySeq
    <3>2. Len(packed) <= 2
      BY DEF ChainTypes
    <3>3. \A n \in Nat : n # 0 /\ n <= 2 => n \in {1, 2}
      OBVIOUS
    <3> QED
      BY <3>1, <3>2, <3>3, Zenon
  <2>3. Head(packed) = packed[1] /\ packed[1] \in Header
    BY <2>2, Headers
  <2> QED
    BY <2>1, <2>2, <2>3
<1>2. \A d : HeightOf(d)' = HeightOf(d)
  BY DEF HeightOf
<1>3. mainHeight' = packed[1].height /\ mainHeight' \in Nat \ {0}
  BY <1>1 DEF Header
<1>4. ChainTypes'
  <2>1. /\ blocks' \in Seq(Header) /\ tip' \in 0..Len(blocks') /\ commit' = "block"
        /\ Len(packed') <= 2
    BY <1>1 DEF ChainTypes
  <2>2. Len(blocks') + Len(packed') <= MaxMain
    <3>1. Len(blocks) + Len(packed) <= MaxMain + 1
      BY DEF ChainTypes
    <3>2. Len(blocks) \in Nat /\ Len(packed) \in Nat /\ blocks' = blocks
      BY LenProperties DEF ChainTypes
    <3> QED
      BY <1>1, <3>1, <3>2, DynaKeysAssumption
  <2>3. /\ packed' \in Seq(Header) /\ mainHeight' \in Nat \ {0}
        /\ (IF commit' = "block" THEN 0 ELSE 1) = 0
    BY <1>1, <1>3, <2>1
  <2>4. MaxMain + 0 = MaxMain
    BY DynaKeysAssumption
  <2> QED
    BY <2>1, <2>2, <2>3, <2>4, Zenon DEF ChainTypes
<1>5. Linked'
  BY <1>1, <1>2 DEF Linked, ChainTypes
<1>6. HeightsFollow'
  BY <1>1, <1>2, <1>3 DEF HeightsFollow, ChainTypes, HeightOf
<1> QED
  BY <1>4, <1>5, <1>6

\* Whatever leaves the chain alone keeps its invariant.
LEMMA ChainUnchanged ==
  ASSUME ChainInv, UNCHANGED chain
  PROVE  ChainInv'
<1>1. \A d : HeightOf(d)' = HeightOf(d)
  BY DEF chain, HeightOf
<1> QED
  BY <1>1 DEF chain, ChainInv, ChainTypes, Linked, HeightsFollow

LEMMA GeneratorLeavesChain == TxListen => UNCHANGED <<chain, sideHeight>>
  BY DEF TxListen, StartTurn, Pick, Read1, Read2, Choose, Write1, Write2,
     NumberKey, SendKey, chain

LEMMA ChainNext ==
  ASSUME ChainInv, [Next]_vars
  PROVE  ChainInv'
<1>1. CASE UpdateMainBlock
  BY <1>1, PutBlockChain, PutTipChain, SetHeightChain DEF UpdateMainBlock
<1>2. CASE UpdateSideBlock
  BY <1>2, ChainUnchanged DEF UpdateSideBlock
<1>3. CASE TxListen
  BY <1>3, ChainUnchanged, GeneratorLeavesChain
<1>4. CASE UNCHANGED vars
  BY <1>4, ChainUnchanged DEF vars
<1> QED
  BY <1>1, <1>2, <1>3, <1>4, PackMainChain DEF Next

\* The stored blocks are a tree in which each is one height above its parent, on
\* every commit and in the middle of it.
THEOREM ChainInvariant == Spec => []ChainInv
<1> QED
  BY ChainInit, ChainNext, PTL DEF Spec

LEMMA HeightBelowTip == ChainInv => mainHeight <= HeightOf(tip)
BY DEF ChainInv, ChainTypes, HeightsFollow, HeightOf

\* The published height is never above the height of the tip, so a walk down
\* from the tip, which goes one height at a time, starts above its goal,
\* for any number of blocks (Blockchain.go:262).
THEOREM HeightNotAboveTip == Spec => [](mainHeight <= HeightOf(tip))
BY HeightBelowTip, ChainInvariant, PTL

LEMMA HeightStep ==
  ASSUME ChainInv, [Next]_vars
  PROVE  mainHeight' >= mainHeight
<1>1. CASE SetHeight
  BY <1>1 DEF SetHeight, ChainInv, ChainTypes, HeightsFollow
<1>2. CASE TxListen
  BY <1>2, GeneratorLeavesChain DEF chain, ChainInv, ChainTypes
<1>3. CASE UNCHANGED vars
  BY <1>3 DEF vars, chain, ChainInv, ChainTypes
<1> QED
  BY <1>1, <1>2, <1>3 DEF Next, UpdateMainBlock, PackMain, PutBlock, PutTip,
     UpdateSideBlock, chain, ChainInv, ChainTypes

\* The height of the primary's main chain never falls, although blocks are packed
\* on heights that are old when they are committed.
THEOREM HeightNeverFalls == Spec => [][mainHeight' >= mainHeight]_vars
BY HeightStep, ChainInvariant, PTL DEF Spec

\* A turn starts at an even height, so above the genesis block, and the height
\* never falls below that while the turn goes on.
TurnIsHigh == gen.stage # "ids" => mainHeight >= 2

LEMMA TurnStaysHigh ==
  ASSUME ChainInv, TurnIsHigh, [Next]_vars
  PROVE  TurnIsHigh'
<1>1. mainHeight' >= mainHeight /\ mainHeight \in Nat /\ mainHeight' \in Nat
  BY HeightStep, ChainNext DEF ChainInv, ChainTypes
<1>2. ASSUME gen.stage = "ids" => gen'.stage = "ids" PROVE TurnIsHigh'
  BY <1>1, <1>2 DEF TurnIsHigh
<1>3. CASE StartTurn
  <2>1. mainHeight % 2 = 0 /\ mainHeight' = mainHeight
    BY <1>3 DEF StartTurn, chain
  <2>2. mainHeight # 1
    BY <2>1
  <2> QED
    BY <1>1, <2>1, <2>2 DEF TurnIsHigh, ChainInv, ChainTypes
<1>4. CASE TxListen /\ ~StartTurn
  <2>1. gen.stage # "ids"
    BY <1>4 DEF TxListen, Pick, Read1, Read2, Choose, Write1, Write2, NumberKey, SendKey
  <2> QED
    BY <1>2, <2>1
<1>5. CASE ~TxListen
  <2>1. UNCHANGED gen
    BY <1>5 DEF Next, PackMain, UpdateMainBlock, PutBlock, PutTip, SetHeight, UpdateSideBlock,
       keys, vars
  <2> QED
    BY <1>2, <2>1
<1> QED
  BY <1>3, <1>4, <1>5

\* The generator never asks for a key at the genesis height, so the first return of
\* NewDynaKeyFromExistID (Blockchain.go:275), which the model leaves out, is never
\* taken, although the height is looked at only where a turn starts.
THEOREM TurnsAreAboveGenesis == Spec => []TurnIsHigh
<1>1. Init => TurnIsHigh
  BY DEF Init, TurnIsHigh, At
<1>2. ChainInv /\ TurnIsHigh /\ [Next]_vars => TurnIsHigh'
  BY TurnStaysHigh
<1> QED
  BY <1>1, <1>2, ChainInvariant, PTL DEF Spec

----------------------------------------------------------------------------
(* The mappings.                                                           *)

KeyTypes ==
  /\ mapped \subseteq (0..MaxMain) \X Txs
  /\ gen \in [stage : Stages, i : 0..(Turn - 1), on : Locals]
  /\ gen.stage \in {"write1", "write2"} => {gen.on.n1, gen.on.n2} \subseteq Txs

\* The copies the generator holds are what is stored, except for the mapping it
\* has just added: nobody else writes mappings.
CopiesCurrent ==
  /\ gen.stage \in {"read2", "choose", "write1"} => gen.on.c1 = Mappings(gen.on.d1)
  /\ gen.stage \in {"choose", "write1"} => gen.on.c2 = Mappings(gen.on.d2)
  /\ gen.stage = "write2" =>
       /\ Mappings(gen.on.d1) = gen.on.c1 \cup {gen.on.n1}
       /\ gen.on.c2 = IF gen.on.d1 = gen.on.d2 THEN gen.on.c1 ELSE Mappings(gen.on.d2)

KeysInv == KeyTypes /\ CopiesCurrent

\* What storing a copy of a block changes, and what is lost by it.
LEMMA Stored ==
  ASSUME NEW d \in 0..MaxMain, NEW copy \in SUBSET Txs,
         mapped \subseteq (0..MaxMain) \X Txs, StoreBlock(d, copy)
  PROVE  /\ mapped' \subseteq (0..MaxMain) \X Txs
         /\ Mappings(d)' = copy
         /\ \A e : e # d => Mappings(e)' = Mappings(e)
         /\ \A id \in mapped \ mapped' : \E n \in Mappings(d) \ copy : id = <<d, n>>
<1> USE DEF StoreBlock, Mappings
<1>1. mapped' = {id \in mapped : id[1] # d} \cup {<<d, n>> : n \in copy}
  OBVIOUS
<1>2. mapped' \subseteq (0..MaxMain) \X Txs
  BY <1>1
<1>3. \A n \in Txs : <<d, n>> \in mapped' <=> n \in copy
  BY <1>1
<1>4. \A e, n : e # d => (<<e, n>> \in mapped' <=> <<e, n>> \in mapped)
  BY <1>1
<1>5. ASSUME NEW id \in mapped \ mapped'
      PROVE  \E n \in Mappings(d) \ copy : id = <<d, n>>
  <2>1. id[1] = d /\ id[2] \in Txs /\ id = <<id[1], id[2]>>
    BY <1>1, <1>5
  <2>2. id[2] \notin copy
    BY <1>1, <1>5, <2>1
  <2> QED
    BY <2>1, <2>2
<1> QED
  BY <1>2, <1>3, <1>4, <1>5

\* The records the generator's steps make of its locals.
LEMMA Drawn ==
  ASSUME NEW b1 \in Nat, NEW b2 \in Nat
  PROVE  [NoPick EXCEPT !.b1 = b1, !.b2 = b2] \in Locals
<1> DEFINE l == [NoPick EXCEPT !.b1 = b1, !.b2 = b2]
<1>1. 0 \in 0..MaxMain /\ 0 \in 0..NumTx
  BY DynaKeysAssumption
<1>2. NoPick \in Locals
  BY <1>1 DEF NoPick, Locals
<1>3. [NoPick EXCEPT !.b1 = b1] \in Locals
  BY <1>2 DEF Locals
<1>4. l = [[NoPick EXCEPT !.b1 = b1] EXCEPT !.b2 = b2]
  OBVIOUS
<1> QED
  BY <1>3, <1>4 DEF Locals

LEMMA Chosen ==
  ASSUME gen.on \in Locals, NEW n1 \in Txs, NEW n2 \in Txs
  PROVE  /\ [gen.on EXCEPT !.n1 = n1, !.n2 = n2] \in Locals
         /\ [gen.on EXCEPT !.n1 = n1, !.n2 = n2].n1 = n1
         /\ [gen.on EXCEPT !.n1 = n1, !.n2 = n2].n2 = n2
         /\ [gen.on EXCEPT !.n1 = n1, !.n2 = n2].d1 = gen.on.d1
         /\ [gen.on EXCEPT !.n1 = n1, !.n2 = n2].d2 = gen.on.d2
         /\ [gen.on EXCEPT !.n1 = n1, !.n2 = n2].c1 = gen.on.c1
         /\ [gen.on EXCEPT !.n1 = n1, !.n2 = n2].c2 = gen.on.c2
<1> DEFINE l1 == [gen.on EXCEPT !.n1 = n1]
<1> DEFINE l2 == [l1 EXCEPT !.n2 = n2]
<1>1. n1 \in 0..NumTx /\ n2 \in 0..NumTx
  BY DynaKeysAssumption DEF Txs
<1>2. /\ l1 \in Locals /\ l1.n1 = n1
      /\ l1.d1 = gen.on.d1 /\ l1.d2 = gen.on.d2 /\ l1.c1 = gen.on.c1 /\ l1.c2 = gen.on.c2
  BY <1>1 DEF Locals
<1>3. /\ l2 \in Locals /\ l2.n1 = n1 /\ l2.n2 = n2
      /\ l2.d1 = gen.on.d1 /\ l2.d2 = gen.on.d2 /\ l2.c1 = gen.on.c1 /\ l2.c2 = gen.on.c2
  <2> HIDE DEF l1
  <2> QED
    BY <1>1, <1>2 DEF Locals
<1>4. [gen.on EXCEPT !.n1 = n1, !.n2 = n2] = l2
  BY DEF Locals
<1> QED
  BY <1>3, <1>4

\* Drawing and reading: nothing is stored.
LEMMA ReadingKeys ==
  ASSUME KeysInv, Len(blocks) <= MaxMain, blocks \in Seq(Header),
         StartTurn \/ (\E b1, b2 \in PickableHeights : Pick(b1, b2)) \/ Read1 \/ Read2,
         mainHeight \in Nat
  PROVE  KeysInv'
<1> USE DynaKeysAssumption DEF KeysInv, KeyTypes, CopiesCurrent
<1>1. \A d : Mappings(d)' = Mappings(d)
  BY DEF StartTurn, Pick, Read1, Read2, Mappings
<1>2. NoPick \in Locals
  BY DEF NoPick, Locals
<1>3. CASE StartTurn
  BY <1>2, <1>3 DEF StartTurn, At, Stages
<1>4. CASE \E b1, b2 \in PickableHeights : Pick(b1, b2)
  <2> PICK b1, b2 \in PickableHeights : Pick(b1, b2)
    BY <1>4
  <2>1. [NoPick EXCEPT !.b1 = b1, !.b2 = b2] \in Locals
    <3>1. b1 \in Nat /\ b2 \in Nat
      BY DEF PickableHeights
    <3> QED
      BY <3>1, Drawn, Zenon
  <2> QED
    BY <2>1 DEF Pick, At, Stages
<1>5. CASE Read1
  <2> PICK d \in 0..Len(blocks) :
        gen' = At("read2", gen.i, [gen.on EXCEPT !.d1 = d, !.c1 = Mappings(d)])
    BY <1>5 DEF Read1
  <2>1. d \in 0..MaxMain /\ Mappings(d) \in SUBSET Txs
    BY DEF Mappings
  <2>2. [gen.on EXCEPT !.d1 = d, !.c1 = Mappings(d)] \in Locals
    BY <2>1 DEF Locals
  <2>3. gen'.on.d1 = d /\ gen'.on.c1 = Mappings(d)
    BY DEF At, Locals
  <2> QED
    BY <1>1, <1>5, <2>2, <2>3 DEF Read1, At, Stages
<1>6. CASE Read2
  <2> PICK d \in 0..Len(blocks) :
        gen' = At("choose", gen.i, [gen.on EXCEPT !.d2 = d, !.c2 = Mappings(d)])
    BY <1>6 DEF Read2
  <2>1. d \in 0..MaxMain /\ Mappings(d) \in SUBSET Txs
    BY DEF Mappings
  <2>2. [gen.on EXCEPT !.d2 = d, !.c2 = Mappings(d)] \in Locals
    BY <2>1 DEF Locals
  <2>3. /\ gen'.on.d1 = gen.on.d1 /\ gen'.on.c1 = gen.on.c1
        /\ gen'.on.d2 = d /\ gen'.on.c2 = Mappings(d)
    BY DEF At, Locals
  <2> QED
    BY <1>1, <1>6, <2>2, <2>3 DEF Read2, At, Stages
<1> QED
  BY <1>3, <1>4, <1>5, <1>6

LEMMA ChooseKeys ==
  ASSUME KeysInv, NEW n1 \in Txs, NEW n2 \in Txs, Choose(n1, n2)
  PROVE  KeysInv'
<1> USE DynaKeysAssumption DEF KeysInv, KeyTypes, CopiesCurrent, Choose
<1>1. \A d : Mappings(d)' = Mappings(d)
  BY DEF Mappings
<1>2. CASE n1 \in gen.on.c1 /\ n2 \in gen.on.c2
  BY <1>2 DEF At, Stages, NoPick, Locals
<1>3. CASE ~(n1 \in gen.on.c1 /\ n2 \in gen.on.c2)
  <2> DEFINE on == [gen.on EXCEPT !.n1 = n1, !.n2 = n2]
  <2>1. gen' = At("write1", gen.i, on)
    BY <1>3
  <2>2. /\ on \in Locals /\ on.n1 = n1 /\ on.n2 = n2
        /\ on.d1 = gen.on.d1 /\ on.d2 = gen.on.d2 /\ on.c1 = gen.on.c1 /\ on.c2 = gen.on.c2
    <3>1. gen.on \in Locals /\ n1 \in Txs /\ n2 \in Txs
      OBVIOUS
    <3> QED
      BY ONLY <3>1, Chosen
  <2> QED
    BY <1>1, <2>1, <2>2 DEF At, Stages
<1> QED
  BY <1>2, <1>3

\* Storing the two copies.
LEMMA Write1Keys ==
  ASSUME KeysInv, Write1
  PROVE  KeysInv' /\ mapped \subseteq mapped'
<1> USE DEF KeysInv, KeyTypes, CopiesCurrent, Write1
<1> DEFINE copy == gen.on.c1 \cup {gen.on.n1}
<1>1. /\ gen.on \in Locals /\ gen.on.d1 \in 0..MaxMain
      /\ copy \in SUBSET Txs /\ gen.on.c2 \in SUBSET Txs
  BY DEF Locals
<1>2. /\ gen'.stage = "write2" /\ gen'.on = gen.on /\ gen'.i = gen.i
      /\ gen' \in [stage : Stages, i : 0..(Turn - 1), on : Locals]
  BY DEF Stages
<1>3. /\ mapped' \subseteq (0..MaxMain) \X Txs
      /\ Mappings(gen.on.d1)' = copy
      /\ \A e : e # gen.on.d1 => Mappings(e)' = Mappings(e)
      /\ \A id \in mapped \ mapped' : \E n \in Mappings(gen.on.d1) \ copy : TRUE
  BY <1>1, Stored
<1>4. gen.on.c1 = Mappings(gen.on.d1) /\ gen.on.c2 = Mappings(gen.on.d2)
  OBVIOUS
<1>5. mapped \subseteq mapped'
  BY <1>3, <1>4
<1>6. KeyTypes'
  BY <1>2, <1>3
<1>7. CopiesCurrent'
  BY <1>2, <1>3, <1>4
<1> QED
  BY <1>5, <1>6, <1>7

LEMMA Write2Keys ==
  ASSUME KeysInv, Write2
  PROVE  /\ KeysInv'
         /\ \A id \in mapped \ mapped' :
              id = <<gen.on.d1, gen.on.n1>> /\ gen.on.d1 = gen.on.d2
<1> USE DEF KeysInv, KeyTypes, CopiesCurrent, Write2
<1> DEFINE copy == gen.on.c2 \cup {gen.on.n2}
<1>1. gen.on.d2 \in 0..MaxMain /\ copy \in SUBSET Txs
  BY DEF Locals
<1>2. /\ gen'.stage = "number"
      /\ gen' \in [stage : Stages, i : 0..(Turn - 1), on : Locals]
  BY DEF Stages
<1>3. /\ mapped' \subseteq (0..MaxMain) \X Txs
      /\ \A id \in mapped \ mapped' :
           \E n \in Mappings(gen.on.d2) \ copy : id = <<gen.on.d2, n>>
  BY <1>1, Stored
<1>4. CASE gen.on.d1 = gen.on.d2
  <2>1. Mappings(gen.on.d2) = gen.on.c2 \cup {gen.on.n1}
    BY <1>4
  <2> QED
    BY <1>2, <1>3, <1>4, <2>1
<1>5. CASE gen.on.d1 # gen.on.d2
  <2>1. Mappings(gen.on.d2) = gen.on.c2
    BY <1>5
  <2> QED
    BY <1>2, <1>3, <2>1
<1> QED
  BY <1>4, <1>5

\* Whatever leaves the generator and the mappings alone, and its last steps.
LEMMA OtherKeys ==
  ASSUME KeysInv, UNCHANGED <<gen, mapped>> \/ NumberKey \/ SendKey
  PROVE  KeysInv' /\ mapped' = mapped
<1> USE DynaKeysAssumption DEF KeysInv, KeyTypes, CopiesCurrent
<1>1. CASE UNCHANGED <<gen, mapped>>
  <2>1. /\ Mappings(gen.on.d1)' = Mappings(gen.on.d1)
        /\ Mappings(gen.on.d2)' = Mappings(gen.on.d2)
    BY <1>1 DEF Mappings
  <2> QED
    BY <1>1, <2>1
<1>2. NoPick \in Locals
  <2>1. 0 \in 0..MaxMain /\ 0 \in 0..NumTx
    BY DynaKeysAssumption
  <2> QED
    BY <2>1 DEF NoPick, Locals
<1>3. CASE NumberKey
  BY <1>2, <1>3 DEF NumberKey, At, Stages
<1>4. CASE SendKey
  <2>1. gen.i + 1 = Turn \/ gen.i + 1 \in 0..(Turn - 1)
    OBVIOUS
  <2> QED
    BY <1>2, <1>4, <2>1 DEF SendKey, LastOfTurn, At, Stages
<1> QED
  BY <1>1, <1>3, <1>4

\* Blocks packed and not stored count against the bound.
LEMMA BlocksBounded == ChainTypes => Len(blocks) <= MaxMain /\ blocks \in Seq(Header)
<1> SUFFICES ASSUME ChainTypes PROVE Len(blocks) <= MaxMain
  BY DEF ChainTypes
<1>1. Len(blocks) \in Nat /\ Len(packed) \in Nat /\ (packed # << >> => Len(packed) # 0)
  BY EmptySeq, LenProperties DEF ChainTypes
<1>2. CASE commit = "block"
  BY <1>1, <1>2, DynaKeysAssumption DEF ChainTypes
<1>3. CASE commit # "block"
  <2>1. Len(packed) # 0 /\ Len(blocks) + Len(packed) <= MaxMain + 1
    BY <1>1, <1>3 DEF ChainTypes
  <2> QED
    BY <1>1, <2>1, DynaKeysAssumption
<1> QED
  BY <1>2, <1>3

LEMMA KeysNext ==
  ASSUME ChainInv, KeysInv, [Next]_vars
  PROVE  /\ KeysInv'
         /\ \A id \in mapped \ mapped' :
              /\ gen.stage = "write2"
              /\ id = <<gen.on.d1, gen.on.n1>>
              /\ gen.on.d1 = gen.on.d2
<1>1. Len(blocks) <= MaxMain /\ blocks \in Seq(Header) /\ mainHeight \in Nat
  BY BlocksBounded DEF ChainInv, ChainTypes
<1>2. CASE StartTurn \/ (\E b1, b2 \in PickableHeights : Pick(b1, b2)) \/ Read1 \/ Read2
  <2>1. mapped' = mapped
    BY <1>2 DEF StartTurn, Pick, Read1, Read2
  <2> QED
    BY <1>1, <1>2, <2>1, ReadingKeys
<1>3. CASE \E n1, n2 \in Txs : Choose(n1, n2)
  <2>1. mapped' = mapped
    BY <1>3 DEF Choose
  <2> QED
    BY <1>3, <2>1, ChooseKeys
<1>4. CASE Write1
  BY <1>4, Write1Keys
<1>5. CASE Write2
  BY <1>5, Write2Keys DEF Write2
<1>6. CASE UNCHANGED <<gen, mapped>> \/ NumberKey \/ SendKey
  BY <1>6, OtherKeys
<1>7. PackMain \/ UpdateMainBlock \/ UpdateSideBlock \/ UNCHANGED vars
        => UNCHANGED <<gen, mapped>>
  BY DEF PackMain, UpdateMainBlock, PutBlock, PutTip, SetHeight, UpdateSideBlock, vars, keys
<1> QED
  BY <1>2, <1>3, <1>4, <1>5, <1>6, <1>7 DEF Next, TxListen

LEMMA KeysInit == Init => KeysInv
<1>1. 0 \in 0..MaxMain /\ 0 \in 0..NumTx /\ 0 \in 0..(Turn - 1)
  BY DynaKeysAssumption
<1>2. NoPick \in Locals
  BY <1>1 DEF NoPick, Locals
<1> QED
  BY <1>1, <1>2 DEF Init, KeysInv, KeyTypes, CopiesCurrent, At, Stages

LEMMA KeysAlways == Spec => [](ChainInv /\ KeysInv)
<1>1. ChainInv /\ KeysInv /\ [Next]_vars => (ChainInv /\ KeysInv)'
  BY ChainNext, KeysNext
<1> QED
  BY <1>1, ChainInit, KeysInit, PTL DEF Spec

\* No identity of an earlier key ever loses its mapping, whatever is committed
\* between the reads and the writes of the generator; one of the two of the key
\* under way does, if both are in one block.  For any size of blocks and turns.
THEOREM MappingsStay == Spec => EarlierMappingsStay
<1>1. ChainInv /\ KeysInv /\ [Next]_vars =>
        [\A id \in mapped \ mapped' :
           /\ gen.stage = "write2"
           /\ id = <<gen.on.d1, gen.on.n1>>
           /\ gen.on.d1 = gen.on.d2]_vars
  BY KeysNext
<1> QED
  BY <1>1, KeysAlways, PTL DEF Spec, EarlierMappingsStay

----------------------------------------------------------------------------
(* The places.                                                             *)

PlaceTypes ==
  /\ sideHeight \in 1..MaxSide
  /\ pos \in [1..(MaxSide + 1) -> Nat]
  /\ places \in Seq(Nat \X Nat)
  /\ gen \in [stage : Stages, i : 0..(Turn - 1), on : Locals]

\* The counter of the next side block counts keys of this turn only, because
\* those of higher blocks have not been used.
Counters ==
  /\ \A h \in 1..(MaxSide + 1) : h > sideHeight + 1 => pos[h] = 0
  /\ gen.stage # "ids" => pos[sideHeight + 1] <= gen.i

\* Places given belong to this or an earlier block, and those of this block lie
\* below its counter; the last one given, on it until the key is sent.
Given ==
  \A k \in 1..Len(places) :
    /\ places[k][1] <= sideHeight + 1
    /\ places[k][2] < Turn
    /\ places[k][1] = sideHeight + 1 /\ gen.stage # "ids" =>
         IF gen.stage = "send" /\ k = Len(places)
           THEN places[k][2] <= pos[sideHeight + 1]
           ELSE places[k][2] < pos[sideHeight + 1]

Distinct == \A j, k \in 1..Len(places) : places[j] = places[k] => j = k

PlacesInv == PlaceTypes /\ Counters /\ Given /\ Distinct

LEMMA PlacesInit == Init => PlacesInv
<1>1. 0 \in 0..MaxMain /\ 0 \in 0..NumTx /\ 0 \in 0..(Turn - 1) /\ 1 \in 1..MaxSide
  BY DynaKeysAssumption
<1>2. NoPick \in Locals
  BY <1>1 DEF NoPick, Locals
<1> QED
  BY <1>1, <1>2 DEF Init, PlacesInv, PlaceTypes, Counters, Given, Distinct, At, Stages

LEMMA PlacesAreNumbers ==
  ASSUME places \in Seq(Nat \X Nat)
  PROVE  /\ Len(places) \in Nat
         /\ \A k \in 1..Len(places) :
              places[k] \in Nat \X Nat /\ places[k][1] \in Nat /\ places[k][2] \in Nat
<1>1. \A k \in 1..Len(places) : places[k] \in Nat \X Nat
  OBVIOUS
<1>2. \A q \in Nat \X Nat : q[1] \in Nat /\ q[2] \in Nat
  OBVIOUS
<1> QED
  BY <1>1, <1>2, LenProperties

\* A step of the generator that gives no place and moves no counter, and stays
\* within the making of a key.
LEMMA KeyUnderWay ==
  ASSUME PlacesInv, UNCHANGED <<sideHeight, pos, places>>,
         gen' \in [stage : Stages, i : 0..(Turn - 1), on : Locals],
         gen'.i = gen.i, {gen.stage, gen'.stage} \cap {"ids", "send"} = {}
  PROVE  PlacesInv'
BY DEF PlacesInv, PlaceTypes, Counters, Given, Distinct

\* A new side block: nothing was counted for the one after it.
LEMMA SidePlaces ==
  ASSUME PlacesInv, UpdateSideBlock
  PROVE  PlacesInv'
<1> USE DynaKeysAssumption DEF PlacesInv, PlaceTypes, UpdateSideBlock, keys
<1>1. /\ sideHeight' = sideHeight + 1 /\ sideHeight' \in 1..MaxSide
      /\ pos' = pos /\ places' = places /\ gen' = gen
  OBVIOUS
<1>2. sideHeight' + 1 \in 1..(MaxSide + 1) /\ pos[sideHeight' + 1] = 0
  BY <1>1 DEF Counters
<1>3. \A k \in 1..Len(places) :
        places[k][1] \in Nat /\ places[k][1] # sideHeight' + 1 /\ places[k][1] <= sideHeight' + 1
  <2>1. \A x \in Nat : x <= sideHeight + 1 =>
                         x # sideHeight + 1 + 1 /\ x <= sideHeight + 1 + 1
    OBVIOUS
  <2>2. \A k \in 1..Len(places) : places[k][1] \in Nat /\ places[k][1] <= sideHeight + 1
    BY PlacesAreNumbers DEF Given
  <2> QED
    BY <1>1, <2>1, <2>2
<1>4. Counters'
  BY <1>1, <1>2 DEF Counters
<1>5. Given' /\ Distinct'
  BY <1>1, <1>3 DEF Given, Distinct
<1> QED
  BY <1>1, <1>4, <1>5

LEMMA StartPlaces ==
  ASSUME PlacesInv, StartTurn
  PROVE  PlacesInv'
<1> USE DynaKeysAssumption DEF PlacesInv, PlaceTypes, StartTurn
<1>1. gen' = At("pick", 0, NoPick) /\ places' = << >> /\ sideHeight' = sideHeight
  OBVIOUS
<1>2. NoPick \in Locals
  <2>1. 0 \in 0..MaxMain /\ 0 \in 0..NumTx
    OBVIOUS
  <2> QED
    BY <2>1 DEF NoPick, Locals
<1>3. /\ pos' \in [1..(MaxSide + 1) -> Nat] /\ pos'[sideHeight + 1] = 0
      /\ \A h \in 1..(MaxSide + 1) : h > sideHeight + 1 => pos'[h] = 0
  BY DEF Counters
<1> QED
  BY <1>1, <1>2, <1>3 DEF Counters, Given, Distinct, At, Stages

\* The place a key gets is below the length of the turn, and new.
LEMMA NumberPlaces ==
  ASSUME PlacesInv, NumberKey
  PROVE  PlacesInv'
<1> DEFINE c == pos[sideHeight + 1]
<1> DEFINE new == <<sideHeight + 1, c>>
<1> USE DynaKeysAssumption DEF PlacesInv, PlaceTypes
<1>1. c \in Nat /\ c <= gen.i /\ c < Turn /\ new \in Nat \X Nat
  BY DEF Counters, NumberKey
<1>2. /\ places' = Append(places, new) /\ places' \in Seq(Nat \X Nat)
      /\ Len(places') = Len(places) + 1 /\ places'[Len(places) + 1] = new
      /\ \A k \in 1..Len(places) : places'[k] = places[k]
  BY <1>1 DEF NumberKey
<1>3. gen' = At("send", gen.i, NoPick) /\ pos' = pos /\ sideHeight' = sideHeight
  BY DEF NumberKey
<1>4. gen' \in [stage : Stages, i : 0..(Turn - 1), on : Locals] /\ gen'.stage = "send" /\ gen'.i = gen.i
  <2>1. 0 \in 0..MaxMain /\ 0 \in 0..NumTx
    OBVIOUS
  <2>2. NoPick \in Locals
    BY <2>1 DEF NoPick, Locals
  <2> QED
    BY <1>3, <2>2 DEF At, Stages
<1>5. \A k \in 1..Len(places) :
        /\ places[k][1] <= sideHeight + 1 /\ places[k][2] < Turn
        /\ places[k][1] = sideHeight + 1 => places[k][2] < c
  BY DEF Given, NumberKey
<1>6. \A k \in 1..Len(places) : places[k] # new /\ places[k] \in Nat \X Nat
  <2>1. new[1] = sideHeight + 1 /\ new[2] = c
    OBVIOUS
  <2>2. ASSUME NEW k \in 1..Len(places), places[k] = new PROVE FALSE
    <3>1. places[k][1] = sideHeight + 1 /\ places[k][2] = c
      BY <2>1, <2>2
    <3>2. c < c
      BY <1>5, <3>1
    <3> QED
      BY <1>1, <3>2
  <2> QED
    BY <2>2, PlacesAreNumbers
<1>7. \A k \in 1..Len(places') :
         \/ k \in 1..Len(places) /\ k # Len(places') /\ places'[k] = places[k]
         \/ k = Len(places') /\ places'[k] = new
  <2> HIDE DEF new
  <2> QED
    BY <1>2, PlacesAreNumbers
<1>8. Counters'
  BY <1>1, <1>3, <1>4 DEF Counters
<1>9. Given'
  <2>1. new[1] = sideHeight + 1 /\ new[2] = c
    OBVIOUS
  <2> HIDE DEF new, c
  <2>2. \A k \in 1..Len(places') :
          /\ places'[k][1] <= sideHeight + 1 /\ places'[k][2] < Turn
          /\ places'[k][1] = sideHeight + 1 =>
               IF k = Len(places') THEN places'[k][2] <= c ELSE places'[k][2] < c
    <3>1. sideHeight + 1 <= sideHeight + 1 /\ c <= c
      BY <1>1
    <3> QED
      BY <1>1, <1>5, <1>7, <2>1, <3>1, Zenon
  <2> QED
    BY <1>3, <1>4, <2>2 DEF Given, c
<1>10. Distinct'
  <2> HIDE DEF new
  <2>1. ASSUME NEW j \in 1..Len(places'), NEW k \in 1..Len(places'), places'[j] = places'[k]
        PROVE  j = k
    BY <1>6, <1>7, <2>1, Zenon DEF Distinct
  <2> QED
    BY <2>1 DEF Distinct
<1> QED
  BY <1>2, <1>3, <1>4, <1>8, <1>9, <1>10

\* The counter moves past the place given last, or stands at a new block.
LEMMA SendPlaces ==
  ASSUME PlacesInv, SendKey
  PROVE  PlacesInv'
<1> DEFINE c == pos[sideHeight + 1]
<1> USE DynaKeysAssumption DEF PlacesInv, PlaceTypes
<1>1. /\ gen.stage = "send" /\ places' = places /\ sideHeight' = sideHeight
      /\ pos' = [pos EXCEPT ![sideHeight + 1] = c + 1]
      /\ sideHeight + 1 \in 1..(MaxSide + 1)
  BY DEF SendKey
<1>2. c \in Nat /\ c <= gen.i
  BY <1>1 DEF Counters
<1>3. /\ pos' \in [1..(MaxSide + 1) -> Nat] /\ pos'[sideHeight + 1] = c + 1
      /\ \A h \in 1..(MaxSide + 1) : h > sideHeight + 1 => pos'[h] = pos[h]
  BY <1>1, <1>2
<1>4. /\ gen' \in [stage : Stages, i : 0..(Turn - 1), on : Locals]
      /\ gen'.stage # "send" /\ (gen'.stage # "ids" => gen'.i = gen.i + 1)
  <2>1. 0 \in 0..MaxMain /\ 0 \in 0..NumTx /\ 0 \in 0..(Turn - 1)
    OBVIOUS
  <2>2. NoPick \in Locals
    BY <2>1 DEF NoPick, Locals
  <2>3. gen.i + 1 # Turn => gen.i + 1 \in 0..(Turn - 1)
    <3>1. gen.i \in 0..(Turn - 1)
      OBVIOUS
    <3> QED
      BY ONLY <3>1, DynaKeysAssumption DEF DynaKeysAssumption
  <2> QED
    BY <2>1, <2>2, <2>3 DEF SendKey, LastOfTurn, At, Stages
<1>5. Counters'
  BY <1>1, <1>2, <1>3, <1>4 DEF Counters
<1>6. Given'
  <2>1. \A x \in Nat : x <= c => x < c + 1
    BY <1>2
  <2>2. \A x \in Nat : x < c => x < c + 1
    BY <1>2
  <2> HIDE DEF c
  <2>3. \A k \in 1..Len(places) :
          /\ places[k][1] <= sideHeight + 1 /\ places[k][2] < Turn
          /\ places[k][1] = sideHeight + 1 => places[k][2] < c + 1
    BY <1>1, <2>1, <2>2, PlacesAreNumbers DEF Given, c
  <2> QED
    BY <1>1, <1>3, <1>4, <2>3 DEF Given
<1>7. Distinct'
  BY <1>1 DEF Distinct
<1> QED
  BY <1>1, <1>3, <1>4, <1>5, <1>6, <1>7

LEMMA PlacesNext ==
  ASSUME ChainInv, KeysInv, KeysInv', PlacesInv, [Next]_vars
  PROVE  PlacesInv'
<1>1. CASE PackMain \/ UpdateMainBlock \/ UNCHANGED vars
  <2>1. UNCHANGED <<sideHeight, gen, pos, places>>
    BY <1>1 DEF PackMain, UpdateMainBlock, PutBlock, PutTip, SetHeight, vars, keys
  <2> QED
    BY <2>1 DEF PlacesInv, PlaceTypes, Counters, Given, Distinct
<1>2. CASE \/ \E b1, b2 \in PickableHeights : Pick(b1, b2)
           \/ Read1 \/ Read2 \/ Write1 \/ Write2
           \/ \E n1, n2 \in Txs : Choose(n1, n2)
  <2>1. gen \in [stage : Stages, i : 0..(Turn - 1), on : Locals]
    BY DEF PlacesInv, PlaceTypes
  <2>2. gen' \in [stage : Stages, i : 0..(Turn - 1), on : Locals]
    BY DEF KeysInv, KeyTypes
  <2>3. /\ UNCHANGED <<sideHeight, pos, places>> /\ gen'.i = gen.i
        /\ {gen.stage, gen'.stage} \cap {"ids", "send"} = {}
    <3>1. CASE \E b1, b2 \in PickableHeights : Pick(b1, b2)
      BY <3>1 DEF Pick, At
    <3>2. CASE Read1
      BY <3>2 DEF Read1, At
    <3>3. CASE Read2
      BY <3>3 DEF Read2, At
    <3>4. CASE \E n1, n2 \in Txs : Choose(n1, n2)
      <4> PICK n1 \in Txs, n2 \in Txs : Choose(n1, n2)
        BY <3>4
      <4>1. gen'.stage \in {"pick", "write1"} /\ gen'.i = gen.i
        BY DEF Choose, At
      <4> QED
        BY <4>1 DEF Choose
    <3>5. CASE Write1
      BY <2>1, <3>5 DEF Write1
    <3>6. CASE Write2
      BY <2>1, <3>6 DEF Write2
    <3> QED
      BY <1>2, <3>1, <3>2, <3>3, <3>4, <3>5, <3>6
  <2> QED
    BY <2>2, <2>3, KeyUnderWay
<1> QED
  BY <1>1, <1>2, SidePlaces, StartPlaces, NumberPlaces, SendPlaces DEF Next, TxListen

LEMMA DynaKeysAlways == Spec => [](ChainInv /\ KeysInv /\ PlacesInv)
<1> DEFINE I == ChainInv /\ KeysInv /\ PlacesInv
<1>1. Init => I
  BY ChainInit, KeysInit, PlacesInit
<1>2. I /\ [Next]_vars => I'
  BY ChainNext, KeysNext, PlacesNext
<1> QED
  BY <1>1, <1>2, PTL DEF Spec

\* No two keys of a turn get one place, and no place reaches the length of a turn,
\* although the side height moves between the use of the counter and its increase.
THEOREM PlacesDiffer == Spec => []PlacesAreDistinct
<1>1. PlacesInv => PlacesAreDistinct
  <2> SUFFICES ASSUME PlacesInv PROVE PlacesAreDistinct
    OBVIOUS
  <2>1. DOMAIN places = 1..Len(places)
    BY DEF PlacesInv, PlaceTypes
  <2> QED
    BY <2>1 DEF PlacesInv, Given, Distinct, PlacesAreDistinct, IsInjective
<1> QED
  BY <1>1, DynaKeysAlways, PTL

\* Every variable keeps its type; in particular a side height without an entry in
\* DynaKeyPos is never used, and a turn has no more keys than it should.
THEOREM DynaKeysTypes == Spec => []TypeOK
<1>1. ChainInv /\ KeysInv /\ PlacesInv => TypeOK
  BY BlocksBounded DEF ChainInv, ChainTypes, KeysInv, KeyTypes, PlacesInv, PlaceTypes, TypeOK
<1> QED
  BY <1>1, DynaKeysAlways, PTL

----------------------------------------------------------------------------
(* The walk.  By induction over the blocks below the tip (LeastNumber).    *)

\* Parents have smaller numbers.
LEMMA ParentsBelow ==
  ASSUME ChainInv
  PROVE  /\ Len(blocks) \in Nat
         /\ \A e \in 1..Len(blocks) :
              /\ blocks[e].prev \in Nat /\ blocks[e].prev < e
              /\ blocks[e].height = HeightOf(blocks[e].prev) + 1
              /\ blocks[e].height \in Nat
<1>1. Len(blocks) \in Nat
  BY LenProperties DEF ChainInv, ChainTypes
<1>2. \A h \in Header : h.height \in Nat
  BY DEF Header
<1> QED
  BY <1>1, <1>2, Headers DEF ChainInv, Linked

\* The recursion of Ancestors, up to block n.
UpTo(g, n) ==
  g = [e \in 0..n |-> IF e = 0 THEN {0} ELSE {e} \cup g[blocks[e].prev]]

LEMMA UpToExists ==
  ASSUME ChainInv, NEW n \in 0..Len(blocks)
  PROVE  \E g : UpTo(g, n)
<1> DEFINE T == {k \in 0..Len(blocks) : ~\E g : UpTo(g, k)}
<1> SUFFICES ASSUME T # {} PROVE FALSE
  OBVIOUS
<1>1. Len(blocks) \in Nat
  BY ParentsBelow
<1>2. PICK k \in T : \A j \in T : ~(j < k)
  <2>1. T \subseteq Nat
    BY <1>1
  <2> HIDE DEF T
  <2> QED
    BY <2>1, LeastNumber
<1>3. CASE k = 0
  <2>1. 0..0 = {0}
    OBVIOUS
  <2>2. UpTo([e \in {0} |-> {0}], 0)
    BY <2>1 DEF UpTo
  <2> QED
    BY <1>2, <1>3, <2>2
<1>4. CASE k # 0
  <2>1. k \in 1..Len(blocks) /\ k - 1 \in 0..Len(blocks) /\ k - 1 < k
    BY <1>1, <1>2, <1>4
  <2>2. PICK g : UpTo(g, k - 1)
    BY <1>2, <2>1
  <2> DEFINE h == [e \in 0..k |-> IF e = k THEN {k} \cup g[blocks[k].prev] ELSE g[e]]
  <2>3. \A e \in 0..(k - 1) : h[e] = g[e]
    BY <2>1
  <2>4. \A e \in 1..k : blocks[e].prev \in 0..(k - 1) /\ (e # k => e \in 0..(k - 1))
    BY <1>1, <2>1, ParentsBelow
  <2>5. \A e \in 0..(k - 1) : g[e] = IF e = 0 THEN {0} ELSE {e} \cup g[blocks[e].prev]
    BY <2>2 DEF UpTo
  <2>6. \A e \in 0..k : h[e] = IF e = 0 THEN {0} ELSE {e} \cup h[blocks[e].prev]
    <3> TAKE e \in 0..k
    <3>1. CASE e = 0
      <4>1. 0 \in 0..(k - 1) /\ e \in 0..(k - 1)
        BY <2>1, <3>1
      <4>2. h[e] = g[e] /\ g[e] = {0}
        BY <2>3, <2>5, <3>1, <4>1, Zenon
      <4> QED
        BY <3>1, <4>2
    <3>2. CASE e = k
      BY <2>1, <2>3, <2>4, <3>2
    <3>3. CASE e # 0 /\ e # k
      <4>1. e \in 1..k /\ e \in 0..(k - 1)
        BY <2>1, <3>3
      <4> QED
        BY <2>3, <2>4, <2>5, <3>3, <4>1
    <3> QED
      BY <3>1, <3>2, <3>3
  <2>7. h = [e \in 0..k |-> h[e]]
    OBVIOUS
  <2> HIDE DEF h
  <2>8. UpTo(h, k)
    BY <2>6, <2>7 DEF UpTo
  <2> QED
    BY <1>2, <2>8
<1> QED
  BY <1>3, <1>4

\* What the walk from a block meets: the block, and what the walk from its
\* parent meets.
LEMMA AncestorsStep ==
  ASSUME ChainInv
  PROVE  /\ Ancestors(0) = {0}
         /\ \A d \in 1..Len(blocks) : Ancestors(d) = {d} \cup Ancestors(blocks[d].prev)
<1> DEFINE L == Len(blocks)
           up == CHOOSE g : UpTo(g, L)
<1>1. L \in Nat
  BY ParentsBelow
<1>2. UpTo(up, L)
  <2>1. \E g : UpTo(g, L)
    BY <1>1, UpToExists
  <2> QED
    BY <2>1
<1>3. \A d : Ancestors(d) = up[d]
  BY DEF Ancestors, UpTo
<1> HIDE DEF up
<1>4. \A d \in 0..L : up[d] = IF d = 0 THEN {0} ELSE {d} \cup up[blocks[d].prev]
  BY <1>2 DEF UpTo
<1>5. \A d \in 1..L : d \in 0..L /\ d # 0
  BY <1>1
<1> HIDE DEF L
<1>6. \A d \in 1..L : up[d] = {d} \cup up[blocks[d].prev]
  BY <1>4, <1>5
<1>7. up[0] = {0}
  <2>1. 0 \in 0..L
    BY <1>1
  <2> QED
    BY <1>4, <2>1, Zenon
<1> QED
  BY <1>3, <1>6, <1>7 DEF L

\* The walk from a block meets blocks only, the parent of each among them.
LEMMA AncestorsClosed ==
  ASSUME ChainInv, NEW n \in 0..Len(blocks)
  PROVE  /\ n \in Ancestors(n) /\ Ancestors(n) \subseteq 0..Len(blocks)
         /\ \A e \in Ancestors(n) \ {0} : blocks[e].prev \in Ancestors(n)
<1> DEFINE L == Len(blocks)
           Good(d) == /\ d \in Ancestors(d) /\ Ancestors(d) \subseteq 0..L
                      /\ \A e \in Ancestors(d) \ {0} : blocks[e].prev \in Ancestors(d)
           T == {d \in 0..L : ~Good(d)}
<1>1. L \in Nat
  BY ParentsBelow
<1>2. SUFFICES ASSUME T # {} PROVE FALSE
  OBVIOUS
<1>3. PICK k \in T : \A j \in T : ~(j < k)
  <2>1. T \subseteq Nat
    BY <1>1
  <2> HIDE DEF T
  <2> QED
    BY <1>2, <2>1, LeastNumber
<1>4. CASE k = 0
  <2>1. Good(0)
    BY <1>1, AncestorsStep
  <2> QED
    BY <1>3, <1>4, <2>1
<1>5. CASE k # 0
  <2> DEFINE q == blocks[k].prev
  <2>1. k \in 1..L /\ q \in 0..L /\ q < k
    BY <1>1, <1>3, <1>5, ParentsBelow
  <2>2. Good(q)
    BY <1>3, <2>1
  <2>3. Ancestors(k) = {k} \cup Ancestors(q)
    BY <2>1, AncestorsStep
  <2>4. k \in 0..L
    BY <1>3
  <2> HIDE DEF q
  <2>5. Good(k)
    BY <2>2, <2>3, <2>4 DEF q
  <2> QED
    BY <1>3, <2>5
<1> QED
  BY <1>4, <1>5

\* A walk that goes down one height at a time meets every height below the one
\* it starts from.
LEMMA WalkMeets ==
  ASSUME ChainInv, NEW b \in Nat, 1 <= b, b <= HeightOf(tip)
  PROVE  \E d \in 0..Len(blocks) : Reaches(d, b)
<1> DEFINE A == Ancestors(tip)
           Above == {d \in A : HeightOf(d) > b}
<1>1. /\ Len(blocks) \in Nat /\ tip \in 0..Len(blocks)
      /\ \A d \in 0..Len(blocks) : HeightOf(d) \in Nat
  BY ParentsBelow DEF ChainInv, ChainTypes, HeightOf
<1>2. /\ tip \in A /\ A \subseteq 0..Len(blocks)
      /\ \A e \in A \ {0} : blocks[e].prev \in A
  BY <1>1, AncestorsClosed
<1>3. SUFFICES ASSUME \A d \in A : HeightOf(d) # b PROVE FALSE
  BY <1>2 DEF Reaches
<1> HIDE DEF A
<1>4. tip \in Above /\ Above \subseteq Nat
  BY <1>1, <1>2, <1>3
<1>5. PICK d \in Above : \A e \in Above : ~(e < d)
  <2> HIDE DEF Above
  <2> QED
    BY <1>4, LeastNumber
<1>6. d \in A /\ d \in 0..Len(blocks) /\ HeightOf(d) > b /\ HeightOf(d) \in Nat
  BY <1>1, <1>2, <1>5
<1>7. d # 0
  BY <1>6 DEF HeightOf
<1> DEFINE q == blocks[d].prev
<1>8. q \in A /\ q < d /\ HeightOf(d) = HeightOf(q) + 1 /\ HeightOf(q) \in Nat
  <2>1. d \in 1..Len(blocks) /\ d \in A \ {0}
    BY <1>1, <1>6, <1>7
  <2>2. q \in A /\ q < d /\ blocks[d].height = HeightOf(q) + 1
    BY <1>2, <2>1, ParentsBelow
  <2> QED
    BY <1>1, <1>2, <1>7, <2>2 DEF HeightOf
<1> HIDE DEF q
<1>9. HeightOf(q) > b
  BY <1>3, <1>6, <1>8
<1> QED
  BY <1>5, <1>8, <1>9

\* The heights drawn were heights of the chain, and it has not fallen since.
DrawnInRange ==
  /\ gen.on.b1 \in Nat /\ gen.on.b1 <= mainHeight
  /\ gen.on.b2 \in Nat /\ gen.on.b2 <= mainHeight

LEMMA DrawnNext ==
  ASSUME ChainInv, KeysInv, DrawnInRange, [Next]_vars
  PROVE  DrawnInRange'
<1>1. mainHeight \in Nat /\ gen.on \in Locals
  BY DEF ChainInv, ChainTypes, KeysInv, KeyTypes
<1>2. CASE UNCHANGED gen
  <2>1. mainHeight' \in Nat /\ mainHeight' >= mainHeight
    BY HeightStep, ChainNext DEF ChainInv, ChainTypes
  <2> QED
    BY <1>1, <1>2, <2>1 DEF DrawnInRange
<1>3. CASE TxListen
  <2>1. mainHeight' = mainHeight
    BY <1>3, GeneratorLeavesChain DEF chain
  <2>2. /\ gen'.on.b1 \in {0, gen.on.b1} \cup PickableHeights
        /\ gen'.on.b2 \in {0, gen.on.b2} \cup PickableHeights
    <3>1. CASE StartTurn \/ NumberKey \/ SendKey
      BY <3>1 DEF StartTurn, NumberKey, SendKey, At, NoPick
    <3>2. ASSUME NEW b1 \in PickableHeights, NEW b2 \in PickableHeights, Pick(b1, b2)
          PROVE  gen'.on.b1 = b1 /\ gen'.on.b2 = b2
      BY <3>2 DEF Pick, At, NoPick
    <3>3. CASE Read1 \/ Read2
      <4>1. \A d : /\ [gen.on EXCEPT !.d1 = d, !.c1 = Mappings(d)].b1 = gen.on.b1
                   /\ [gen.on EXCEPT !.d1 = d, !.c1 = Mappings(d)].b2 = gen.on.b2
                   /\ [gen.on EXCEPT !.d2 = d, !.c2 = Mappings(d)].b1 = gen.on.b1
                   /\ [gen.on EXCEPT !.d2 = d, !.c2 = Mappings(d)].b2 = gen.on.b2
        BY <1>1 DEF Locals
      <4> QED
        <5>1. PICK d, st, on :
                /\ gen' = At(st, gen.i, on)
                /\ \/ on = [gen.on EXCEPT !.d1 = d, !.c1 = Mappings(d)]
                   \/ on = [gen.on EXCEPT !.d2 = d, !.c2 = Mappings(d)]
          BY <3>3, Zenon DEF Read1, Read2
        <5>2. gen'.on = on
          BY <5>1 DEF At
        <5>3. on.b1 = gen.on.b1 /\ on.b2 = gen.on.b2
          BY <4>1, <5>1, Zenon
        <5> QED
          BY <5>2, <5>3
    <3>4. CASE \E n1, n2 \in Txs : Choose(n1, n2)
      BY <1>1, <3>4 DEF Choose, At, Locals, NoPick
    <3>5. CASE Write1 \/ Write2
      <4>1. gen'.on = gen.on
        BY <3>5 DEF Write1, Write2, KeysInv, KeyTypes
      <4> QED
        BY <4>1
    <3> QED
      BY <1>3, <3>1, <3>2, <3>3, <3>4, <3>5 DEF TxListen
  <2> QED
    BY <1>1, <2>1, <2>2 DEF DrawnInRange, PickableHeights
<1> QED
  BY <1>2, <1>3 DEF Next, PackMain, UpdateMainBlock, PutBlock, PutTip, SetHeight,
     UpdateSideBlock, vars, keys

LEMMA DrawnAlways == Spec => [](ChainInv /\ KeysInv /\ DrawnInRange)
<1> DEFINE I == ChainInv /\ KeysInv /\ DrawnInRange
<1>1. Init => I
  BY ChainInit, KeysInit DEF Init, DrawnInRange, At, NoPick
<1>2. I /\ [Next]_vars => I'
  BY ChainNext, KeysNext, DrawnNext
<1> QED
  BY <1>1, <1>2, PTL DEF Spec

\* GetBlockByHeight finds every height the generator drew or could draw, in the
\* middle of a commit too: its walk never leaves the chain (Blockchain.go:262).
THEOREM WalksEnd == Spec => []WalkEnds
<1>1. ChainInv /\ KeysInv /\ DrawnInRange => WalkEnds
  <2> SUFFICES ASSUME ChainInv, KeysInv, DrawnInRange,
                      NEW b \in ({gen.on.b1, gen.on.b2} \ {0}) \cup PickableHeights
               PROVE  \E d \in 0..Len(blocks) : Reaches(d, b)
    BY DEF WalkEnds
  <2>1. mainHeight \in Nat /\ mainHeight <= HeightOf(tip) /\ HeightOf(tip) \in Nat
    <3>1. tip \in 0..Len(blocks) /\ mainHeight \in Nat
      BY DEF ChainInv, ChainTypes
    <3>2. HeightOf(tip) \in Nat
      BY <3>1, ParentsBelow DEF HeightOf
    <3> QED
      BY <3>1, <3>2, HeightBelowTip
  <2>2. b \in Nat /\ 1 <= b /\ b <= mainHeight
    BY <2>1 DEF DrawnInRange, PickableHeights
  <2> QED
    BY <2>1, <2>2, WalkMeets
<1> QED
  BY <1>1, DrawnAlways, PTL

=============================================================================
