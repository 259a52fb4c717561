------------------------------- MODULE DynaKeys -------------------------------
(***************************************************************************)
(* How the primary makes dynamic keys while its main chain grows.          *)
(* txListen (TX.go) makes a turn of keys at every even height.  For each it *)
(* picks two blocks of the main chain by height, walks down to them from   *)
(* the tip, picks an identity (a transaction) in each, marks both as mapped *)
(* and stores both blocks again.  It never takes p.lock, so it interleaves *)
(* with the commits of handleCommit, which store a block, its hash as the  *)
(* tip and its height in three steps.                                      *)
(*                                                                         *)
(* A call of bolt opens the file, does one transaction and closes it, and  *)
(* is one step.  Blocks are numbered in the order they are stored, 0 is the *)
(* genesis block, and the identities of a block are 1..NumTx.              *)
(***************************************************************************)
EXTENDS Integers, Sequences, FiniteSets, Functions

CONSTANTS
  NumTx,     \* transactions of a block: 500 in the code
  Turn,      \* keys of a turn: 10 in the code
  MaxMain,   \* bound: main blocks packed
  MaxSide    \* bound: the height of the side chain

ASSUME DynaKeysAssumption ==
  /\ NumTx \in Nat \ {0}
  /\ Turn \in Nat \ {0}
  /\ MaxMain \in Nat
  /\ MaxSide \in Nat \ {0}

VARIABLES
  blocks,      \* main blocks in the database: a sequence of [height, prev]
  tip,         \* key "1" of the database
  mainHeight,  \* Constant.CurMainHeight
  sideHeight,  \* Constant.CurSideHeight
  packed,      \* main blocks packed and not yet stored, the first in consensus
  commit,      \* what UpdateMainBlock does next: "block", "tip" or "height"
  mapped,      \* stored identities with a mapping: <<block, number>>
  gen,         \* the generator: where it is and its local variables
  pos,         \* DynaKeyPos, 0 where the map has no entry
  places       \* history: the places given to the keys of this turn, in order

chain == <<blocks, tip, mainHeight, packed, commit>>
keys  == <<mapped, gen, pos, places>>
vars  == <<chain, sideHeight, keys>>

Txs     == 1..NumTx
Header  == [height : Nat \ {0}, prev : 0..MaxMain]
Stages  == {"ids", "pick", "read1", "read2", "choose", "write1", "write2", "number", "send"}

Locals  == [b1 : Nat, b2 : Nat, d1 : 0..MaxMain, d2 : 0..MaxMain,
            c1 : SUBSET Txs, c2 : SUBSET Txs, n1 : 0..NumTx, n2 : 0..NumTx]

\* Nothing read yet.
NoPick == [b1 |-> 0, b2 |-> 0, d1 |-> 0, d2 |-> 0, c1 |-> {}, c2 |-> {}, n1 |-> 0, n2 |-> 0]

\* A generator at a stage, with i keys of its turn made, and its locals.
At(stage, i, locals) == [stage |-> stage, i |-> i, on |-> locals]

Init ==
  /\ blocks = << >>
  /\ tip = 0
  /\ mainHeight = 1
  /\ sideHeight = 1
  /\ packed = << >>
  /\ commit = "block"
  /\ mapped = {}
  /\ gen = At("ids", 0, NoPick)
  /\ pos = [h \in 1..(MaxSide + 1) |-> 0]
  /\ places = << >>

----------------------------------------------------------------------------
(* The chains.                                                             *)

HeightOf(d) == IF d = 0 THEN 1 ELSE blocks[d].height

\* The blocks a walk along PreviousHash meets from d down to the genesis block.
Ancestors(d) ==
  LET up[e \in 0..Len(blocks)] == IF e = 0 THEN {0} ELSE {e} \cup up[blocks[e].prev]
  IN  up[d]

\* The walk from the tip stops at d, the block of height b.
Reaches(d, b) == d \in Ancestors(tip) /\ HeightOf(d) = b

\* sendTxTrans holds p.lock while it reads tip and height, so no commit is under
\* way.  While a block is in consensus one more can be packed.
PackMain ==
  /\ commit = "block"
  /\ Len(packed) < 2
  /\ Len(blocks) + Len(packed) < MaxMain
  /\ packed' = Append(packed, [height |-> mainHeight + 1, prev |-> tip])
  /\ UNCHANGED <<blocks, tip, mainHeight, commit, sideHeight, keys>>

\* Mutant: the height is published before the tip is.
PutBlock_HeightToo ==
  /\ commit = "block"
  /\ packed # << >>
  /\ blocks' = Append(blocks, Head(packed))
  /\ mainHeight' = Head(packed).height
  /\ commit' = "tip"
  /\ UNCHANGED <<tip, packed, sideHeight, keys>>

PutBlock ==
  /\ commit = "block"
  /\ packed # << >>
  /\ blocks' = Append(blocks, Head(packed))
  /\ commit' = "tip"
  /\ UNCHANGED <<tip, mainHeight, packed, sideHeight, keys>>

PutTip ==
  /\ commit = "tip"
  /\ tip' = Len(blocks)
  /\ commit' = "height"
  /\ UNCHANGED <<blocks, mainHeight, packed, sideHeight, keys>>

SetHeight ==
  /\ commit = "height"
  /\ mainHeight' = Head(packed).height
  /\ packed' = Tail(packed)
  /\ commit' = "block"
  /\ UNCHANGED <<blocks, tip, sideHeight, keys>>

UpdateMainBlock == PutBlock \/ PutTip \/ SetHeight

\* A side block is committed in a round of its own.  A sibling of the last one
\* leaves the height as it is, which is no step here.
UpdateSideBlock ==
  /\ commit = "block"
  /\ sideHeight < MaxSide
  /\ sideHeight' = sideHeight + 1
  /\ UNCHANGED <<chain, keys>>

----------------------------------------------------------------------------
(* The generator, one goroutine.                                           *)

\* Mutant: the position counter of the next side block is not reset.
StartTurn_KeepsPos ==
  /\ gen.stage = "ids"
  /\ mainHeight % 2 = 0
  /\ gen' = At("pick", 0, NoPick)
  /\ places' = << >>
  /\ UNCHANGED <<chain, sideHeight, mapped, pos>>

\* At an odd height the loop only makes identities.
StartTurn ==
  /\ gen.stage = "ids"
  /\ mainHeight % 2 = 0
  /\ pos' = [pos EXCEPT ![sideHeight + 1] = 0]
  /\ gen' = At("pick", 0, NoPick)
  /\ places' = << >>
  /\ UNCHANGED <<chain, sideHeight, mapped>>

\* Mutant: the random height never reaches the newest block.
PickableHeights_NotNewest == 2..(mainHeight - 1)

\* rand.Intn(CurMainHeight - 1) + 2: every height but that of the genesis block.
\* The return before it, at a height of 1, is out of reach: a turn starts at an
\* even height and heights never fall (TurnsAreAboveGenesis, DynaKeysProofs).
PickableHeights == 2..mainHeight

Pick(b1, b2) ==
  /\ gen.stage = "pick"
  /\ {b1, b2} \subseteq PickableHeights
  /\ gen' = At("read1", gen.i, [NoPick EXCEPT !.b1 = b1, !.b2 = b2])
  /\ UNCHANGED <<chain, sideHeight, mapped, pos, places>>

\* Mutant: the mappings of a block are not part of what is stored.
Mappings_NotStored(d) == {}

\* Which transactions of stored block d have a mapping.
Mappings(d) == {n \in Txs : <<d, n>> \in mapped}

\* GetBlockByHeight.  A walk that missed its height would go past the genesis
\* block and panic on the empty block found there.
Read1 ==
  /\ gen.stage = "read1"
  /\ \E d \in 0..Len(blocks) :
       /\ Reaches(d, gen.on.b1)
       /\ gen' = At("read2", gen.i, [gen.on EXCEPT !.d1 = d, !.c1 = Mappings(d)])
  /\ UNCHANGED <<chain, sideHeight, mapped, pos, places>>

Read2 ==
  /\ gen.stage = "read2"
  /\ \E d \in 0..Len(blocks) :
       /\ Reaches(d, gen.on.b2)
       /\ gen' = At("choose", gen.i, [gen.on EXCEPT !.d2 = d, !.c2 = Mappings(d)])
  /\ UNCHANGED <<chain, sideHeight, mapped, pos, places>>

\* "Dynamic key existed": when both are mapped, txListen asks again.
Choose(n1, n2) ==
  /\ gen.stage = "choose"
  /\ gen' = IF n1 \in gen.on.c1 /\ n2 \in gen.on.c2
              THEN At("pick", gen.i, NoPick)
              ELSE At("write1", gen.i, [gen.on EXCEPT !.n1 = n1, !.n2 = n2])
  /\ UNCHANGED <<chain, sideHeight, mapped, pos, places>>

\* The whole block d goes back, with the mappings its copy has.
StoreBlock(d, copy) ==
  mapped' = {id \in mapped : id[1] # d} \cup {<<d, n>> : n \in copy}

Write1 ==
  /\ gen.stage = "write1"
  /\ StoreBlock(gen.on.d1, gen.on.c1 \cup {gen.on.n1})
  /\ gen' = [gen EXCEPT !.stage = "write2"]
  /\ UNCHANGED <<chain, sideHeight, pos, places>>

Write2 ==
  /\ gen.stage = "write2"
  /\ StoreBlock(gen.on.d2, gen.on.c2 \cup {gen.on.n2})
  /\ gen' = [gen EXCEPT !.stage = "number"]
  /\ UNCHANGED <<chain, sideHeight, pos, places>>

\* NewDynaKeyTX: the place the key is to have in the next side block.
NumberKey ==
  /\ gen.stage = "number"
  /\ places' = Append(places, <<sideHeight + 1, pos[sideHeight + 1]>>)
  /\ gen' = At("send", gen.i, NoPick)
  /\ UNCHANGED <<chain, sideHeight, mapped, pos>>

\* Mutant: the loop makes one key too many.
LastOfTurn_OneMore == gen.i = Turn

LastOfTurn == gen.i + 1 = Turn

\* The key enters the pool, and the counter moves on: that of the side height
\* after the send, which may have waited for room.
SendKey ==
  /\ gen.stage = "send"
  /\ pos' = [pos EXCEPT ![sideHeight + 1] = @ + 1]
  /\ gen' = IF LastOfTurn THEN At("ids", 0, NoPick) ELSE At("pick", gen.i + 1, NoPick)
  /\ UNCHANGED <<chain, sideHeight, mapped, places>>

TxListen ==
  \/ StartTurn
  \/ \E b1, b2 \in PickableHeights : Pick(b1, b2)
  \/ Read1 \/ Read2
  \/ \E n1, n2 \in Txs : Choose(n1, n2)
  \/ Write1 \/ Write2
  \/ NumberKey \/ SendKey

Next ==
  \/ PackMain
  \/ UpdateMainBlock
  \/ UpdateSideBlock
  \/ TxListen

Spec == Init /\ [][Next]_vars

\* Identities a walk can reach that have no mapping yet.
Unmapped(d) == d # 0 /\ Mappings(d) # Txs

AllMapped == \A d \in Ancestors(tip) : HeightOf(d) <= mainHeight => ~Unmapped(d)

\* A draw of rand.Intn that hits a block with an unmapped identity, and a draw
\* that hits such an identity.
PickPromising ==
  \E b1, b2 \in PickableHeights :
    /\ \E d \in 0..Len(blocks) : Reaches(d, b1) /\ Unmapped(d)
    /\ Pick(b1, b2)

ChooseFresh == \E n1, n2 \in Txs : n1 \notin gen.on.c1 /\ Choose(n1, n2)

\* The generator is scheduled, and a draw that is possible again and again is
\* made again and again.
Fairness ==
  /\ WF_vars(TxListen)
  /\ SF_vars(PickPromising)
  /\ SF_vars(ChooseFresh)

FairSpec == Spec /\ Fairness

----------------------------------------------------------------------------
(* Properties.                                                             *)

TypeOK ==
  /\ blocks \in Seq(Header) /\ Len(blocks) <= MaxMain
  /\ tip \in 0..Len(blocks)
  /\ mainHeight \in Nat \ {0}
  /\ sideHeight \in 1..MaxSide
  /\ packed \in Seq(Header) /\ Len(packed) <= 2
  /\ commit \in {"block", "tip", "height"}
  /\ mapped \subseteq (0..MaxMain) \X Txs
  /\ gen \in [stage : Stages, i : 0..(Turn - 1), on : Locals]
  /\ pos \in [1..(MaxSide + 1) -> Nat]

\* The walk of GetBlockByHeight ends: whatever height the generator drew or
\* could draw now, there is a block of that height below the tip, although the
\* block, the tip and the height of a commit are written one by one and blocks of
\* one height lie side by side.
WalkEnds ==
  \A b \in ({gen.on.b1, gen.on.b2} \ {0}) \cup PickableHeights :
    \E d \in 0..Len(blocks) : Reaches(d, b)

\* Storing two copies of blocks read before loses one mapping at most: that of
\* the key under way, when both its identities are in one block.  No identity of
\* an earlier key loses its mapping, whatever is committed in between.
EarlierMappingsStay ==
  [][\A id \in mapped \ mapped' :
       /\ gen.stage = "write2"
       /\ id = <<gen.on.d1, gen.on.n1>>
       /\ gen.on.d1 = gen.on.d2]_vars

\* The keys of a turn get different places in the side blocks they are meant
\* for, each below the length of a turn (SortTxs orders a side block by them),
\* although the side height may move between any two steps.
PlacesAreDistinct ==
  /\ IsInjective(places)
  /\ \A k \in DOMAIN places : places[k][2] < Turn

\* A turn ends, unless every identity that can be drawn has a mapping: then the
\* generator draws for ever, and makes no more identities either.
TurnsEndUnlessAllMapped == []<>(gen.stage = "ids") \/ <>[]AllMapped

----------------------------------------------------------------------------
(* What a comment in the code says and the code does not do.               *)

\* "Change the mapping of the two chosen ID transactions" (Blockchain.go:296):
\* when a key is numbered, both its identities have a mapping.
BothAreMapped ==
  [][gen.stage = "write2" /\ gen'.stage = "number" =>
       {<<gen.on.d1, gen.on.n1>>, <<gen.on.d2, gen.on.n2>>} \subseteq mapped']_vars

=============================================================================
