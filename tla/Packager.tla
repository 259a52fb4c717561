------------------------------ MODULE Packager -------------------------------
(***************************************************************************)
(* The leader at the primary: handleTxTrans queues the sets of             *)
(* transactions it is handed (module TxTransfer says which), and the loop  *)
(* of sendTxTrans takes turns on the two chains, receiving a set or, with  *)
(* more than a block of transactions in the pool, packing a block and      *)
(* waiting for the round that is open (module Consensus).                  *)
(*                                                                         *)
(* Sets and pools are bags, because SortTxs puts a pool in order before a  *)
(* block is cut from it.  p.lock is free whenever its holder is not in     *)
(* this module.                                                            *)
(***************************************************************************)
EXTENDS Integers, Sequences, Bags, SequencesExt

CONSTANTS
  Inputs,      \* [Categories -> the sets that may come in], bags of transactions
  MaxSets,     \* bound: how many sets come in
  MaxTx,       \* transactions of a block: 500
  SetCap,      \* sets of a category that may wait: 100
  Turn         \* keys generated in one turn of txListen: 10

Categories == {"ID", "DynaKey"}

\* A set is not empty: TypeOK of TxTransfer.
ASSUME PackagerAssumption ==
  /\ \A c \in Categories : \A b \in Inputs[c] :
       IsABag(b) /\ b # EmptyBag /\ BagToSet(b) \subseteq Nat \ {0}
  /\ MaxSets \in Nat
  /\ MaxTx \in Nat \ {0}
  /\ SetCap \in Nat \ {0}
  /\ Turn \in Nat \ {0}

VARIABLES
  received,        \* how many sets came in
  leaderTxSetChan, \* per category, the sets handleTxTrans queued
  leaderTxPool,    \* per category, the transactions sendTxTrans has received
  packager,        \* where sendTxTrans is: a branch, or waiting for the round
  roundOpen,       \* WaitCommit is not zero
  packed           \* per category, the transactions put into blocks

leader == <<leaderTxPool, packager, roundOpen, packed>>
vars   == <<received, leaderTxSetChan, leader>>

Init ==
  /\ received = 0
  /\ leaderTxSetChan = [c \in Categories |-> << >>]
  /\ leaderTxPool = [c \in Categories |-> EmptyBag]
  /\ packager = [at |-> "ID", waits |-> FALSE]
  /\ roundOpen = FALSE
  /\ packed = [c \in Categories |-> EmptyBag]

Other(c) == IF c = "ID" THEN "DynaKey" ELSE "ID"

\* Mutant: one set too many is let in.
HasRoom_OneMore(c) == Len(leaderTxSetChan[c]) <= SetCap

HasRoom(c) == Len(leaderTxSetChan[c]) < SetCap

\* Under p.lock: a set that finds no room is dropped.
HandleTxTrans(c, set) ==
  /\ received < MaxSets
  /\ received' = received + 1
  /\ leaderTxSetChan' = IF HasRoom(c)
                          THEN [leaderTxSetChan EXCEPT ![c] = Append(@, set)]
                          ELSE leaderTxSetChan
  /\ UNCHANGED leader

----------------------------------------------------------------------------
(* sendTxTrans.                                                            *)

\* SortTxs orders IDs by their time and keys by their position in the turn that
\* generated them.
SortKey(c, t) == IF c = "ID" THEN t ELSE (t - 1) % Turn

\* What may be cut from a pool.
Blocks(pool) ==
  {b \in UNION {[S -> 1..MaxTx] : S \in SUBSET BagToSet(pool)} :
     b \sqsubseteq pool /\ BagCardinality(b) = MaxTx}

\* The transactions a sorted pool may begin with; sort.Slice is not stable.
Firsts(c, pool) ==
  {b \in Blocks(pool) :
     \A x \in BagToSet(b), y \in BagToSet(pool (-) b) : SortKey(c, x) <= SortKey(c, y)}

\* Mutant: the pool is emptied where only the block is to be cut off.
Rest_Emptied(pool, block) == EmptyBag

Rest(pool, block) == pool (-) block

\* Mutant: without a default branch an empty channel stops the packager.
MaySkip_Blocking(c) == FALSE

\* The select has a default branch.
MaySkip(c) == leaderTxSetChan[c] = << >>

ReceiveSet(c) ==
  /\ packager = [at |-> c, waits |-> FALSE]
  /\ BagCardinality(leaderTxPool[c]) <= MaxTx
  /\ \/ /\ leaderTxSetChan[c] # << >>
        /\ leaderTxPool' = [leaderTxPool EXCEPT ![c] = @ (+) Head(leaderTxSetChan[c])]
        /\ leaderTxSetChan' = [leaderTxSetChan EXCEPT ![c] = Tail(@)]
     \/ /\ MaySkip(c)
        /\ UNCHANGED <<leaderTxPool, leaderTxSetChan>>
  /\ packager' = [at |-> Other(c), waits |-> FALSE]
  /\ UNCHANGED <<received, roundOpen, packed>>

\* Under p.lock: a block is made of the first transactions of the sorted pool.
PackBlock(c) ==
  /\ packager = [at |-> c, waits |-> FALSE]
  /\ BagCardinality(leaderTxPool[c]) > MaxTx
  /\ \E block \in Firsts(c, leaderTxPool[c]) :
       /\ leaderTxPool' = [leaderTxPool EXCEPT ![c] = Rest(@, block)]
       /\ packed' = [packed EXCEPT ![c] = @ (+) block]
  /\ packager' = [at |-> c, waits |-> TRUE]
  /\ UNCHANGED <<received, leaderTxSetChan, roundOpen>>

\* WaitCommit.Wait returns, and the block goes into consensus.
StartRound ==
  /\ packager.waits
  /\ ~roundOpen
  /\ roundOpen' = TRUE
  /\ packager' = [at |-> Other(packager.at), waits |-> FALSE]
  /\ UNCHANGED <<received, leaderTxSetChan, leaderTxPool, packed>>

SendTxTrans ==
  \/ \E c \in Categories : ReceiveSet(c) \/ PackBlock(c)
  \/ StartRound

\* The primary committed the block: module Consensus.
RoundEnds ==
  /\ roundOpen
  /\ roundOpen' = FALSE
  /\ UNCHANGED <<received, leaderTxSetChan, leaderTxPool, packager, packed>>

Next ==
  \/ \E c \in Categories : \E set \in Inputs[c] : HandleTxTrans(c, set)
  \/ SendTxTrans
  \/ RoundEnds

Spec == Init /\ [][Next]_vars

\* The packager never sleeps, its goroutine is scheduled, and rounds end
\* (RoundCompletes of TimelyConsensus).  Nothing makes a set come in.
FairSpec == Spec /\ WF_vars(SendTxTrans) /\ WF_vars(RoundEnds)

----------------------------------------------------------------------------
(* Properties.                                                             *)

Transactions(c) == UNION {BagToSet(b) : b \in Inputs[c]}

BagOf(c, b) == IsABag(b) /\ BagToSet(b) \subseteq Transactions(c)

TypeOK ==
  /\ received \in 0..MaxSets
  /\ roundOpen \in BOOLEAN
  /\ packager \in [at : Categories, waits : BOOLEAN]
  /\ \A c \in Categories :
       /\ leaderTxSetChan[c] \in Seq(Inputs[c]) /\ Len(leaderTxSetChan[c]) <= SetCap
       /\ BagOf(c, leaderTxPool[c]) /\ BagOf(c, packed[c])

\* What the primary holds of a category, in sets, in its pool and in blocks.
Held(c) ==
  FoldLeft(LAMBDA held, set : held (+) set,
           packed[c] (+) leaderTxPool[c], leaderTxSetChan[c])

\* From handleTxTrans on, no transaction is lost or gets one copy more, whatever
\* is received, sorted, cut off or packed: what the primary holds changes only
\* by a set that comes in.
HeldOnlyGrowsBySets ==
  [][\A c \in Categories :
       \/ Held(c)' = Held(c)
       \/ \E set \in Inputs[c] : Held(c)' = Held(c) (+) set]_vars

\* Neither chain waits for the other: of each category the channel is empty again
\* and again, or sets are taken from it again and again, also while no set of the
\* other category comes in.
SetsAreReceived ==
  \A c \in Categories :
    \/ []<>(leaderTxSetChan[c] = << >>)
    \/ []<><<Len(leaderTxSetChan'[c]) < Len(leaderTxSetChan[c])>>_vars

=============================================================================
