----------------------------- MODULE TxTransfer ------------------------------
(***************************************************************************)
(* How transactions reach the leader at the primary, up to handleTxTrans   *)
(* (module Packager).  txListen fills two channels, one per category;      *)
(* every tick of txTransfer starts a reader per category and one listener; *)
(* a reader fills the slice its category shares with the readers of all    *)
(* earlier ticks and reports when it is full; the listener sends that      *)
(* slice to the primary, which is this same node, over TCP and by a call.  *)
(*                                                                         *)
(* The goroutines share the slices with no lock: an append is a load and a *)
(* store, the test of the length that follows reads the slice again, and a *)
(* slice is a value (that two of them share one array is left out).        *)
(***************************************************************************)
EXTENDS Integers, Sequences, FiniteSets, Functions

CONSTANTS
  Supply,      \* bound: [Categories -> Seq(Nat)], what txListen generates
  PoolCap,     \* [Categories -> Nat], capacity of the pools: 50 and 10
  Turn,        \* transactions per turn of txListen: 10
  MaxTicks,    \* bound: ticks of txTransfer
  MaxTx        \* transactions of a set that is ready: 500

Categories == {"ID", "DynaKey"}

ASSUME TxTransferAssumption ==
  /\ Supply \in [Categories -> Seq(Nat)]
  /\ PoolCap \in [Categories -> Nat \ {0}]
  /\ Turn \in Nat \ {0}
  /\ MaxTicks \in Nat
  /\ MaxTx \in Nat \ {0}

Ticks == 1..MaxTicks

VARIABLES
  generated,    \* how many transactions of a category were generated
  generator,    \* the category txListen generates, and how many more in this turn
  txPool,       \* the channels IDtxPool and DynaKeytxPool
  ticks,        \* how often the ticker fired
  reader,       \* per category, the reader each tick started
  listener,     \* the listener each tick started
  txs,          \* the slices txsMain and txsSide
  net           \* sets sent to the listening socket of the primary; what is done
                \* with one that arrives is HandleTxTrans of Packager

sources == <<generated, generator, txPool>>
slices  == <<ticks, reader, listener, txs>>
vars    == <<sources, slices, net>>

Idle == [pc |-> "idle", tx |-> 0, seen |-> << >>]
NotStarted == [pc |-> "idle", cat |-> "ID", set |-> << >>]

\* Mutant: the turn of keys comes first.
FirstTurn_Keys == [cat |-> "DynaKey", left |-> Turn]

FirstTurn == [cat |-> "ID", left |-> Turn]

Init ==
  /\ generated = [c \in Categories |-> 0]
  /\ generator = FirstTurn
  /\ txPool = [c \in Categories |-> << >>]
  /\ ticks = 0
  /\ reader = [c \in Categories |-> [k \in Ticks |-> Idle]]
  /\ listener = [k \in Ticks |-> NotStarted]
  /\ txs = [c \in Categories |-> << >>]
  /\ net = {}

----------------------------------------------------------------------------
(* txListen.                                                               *)

\* After a turn of IDs, a turn of keys if the height of the main chain is even
\* at that moment; consensus moves the height, so either may be the case.
AfterTurn ==
  IF generator.cat = "ID" THEN {"ID", "DynaKey"} ELSE {"ID"}

\* The send on a full channel blocks.
HasSpace(c) == Len(txPool[c]) < PoolCap[c]

TxListen ==
  LET c == generator.cat IN
  /\ generated[c] < Len(Supply[c])
  /\ HasSpace(c)
  /\ generated' = [generated EXCEPT ![c] = @ + 1]
  /\ txPool' = [txPool EXCEPT ![c] = Append(@, Supply[c][generated[c] + 1])]
  /\ IF generator.left > 1
       THEN generator' = [generator EXCEPT !.left = @ - 1]
       ELSE \E next \in AfterTurn : generator' = [cat |-> next, left |-> Turn]
  /\ UNCHANGED <<slices, net>>

----------------------------------------------------------------------------
(* txTransfer and the goroutines it starts.                                *)

Tick ==
  /\ ticks < MaxTicks
  /\ ticks' = ticks + 1
  /\ reader' = [c \in Categories |-> [reader[c] EXCEPT ![ticks + 1].pc = "read"]]
  /\ listener' = [listener EXCEPT ![ticks + 1].pc = "select"]
  /\ UNCHANGED <<sources, txs, net>>

\* The receive is the init statement of the for loop: it runs once, and the
\* body goes on with the same transaction.
ReadPool(c, k) ==
  /\ reader[c][k].pc = "read"
  /\ txPool[c] # << >>
  /\ reader' = [reader EXCEPT ![c][k].pc = "load", ![c][k].tx = Head(txPool[c])]
  /\ txPool' = [txPool EXCEPT ![c] = Tail(@)]
  /\ UNCHANGED <<generated, generator, ticks, listener, txs, net>>

LoadSlice(c, k) ==
  /\ reader[c][k].pc = "load"
  /\ reader' = [reader EXCEPT ![c][k].pc = "store", ![c][k].seen = txs[c]]
  /\ UNCHANGED <<sources, ticks, listener, txs, net>>

\* Mutant: the transaction is assigned and not appended.
StoreSlice_Alone(c, k) ==
  /\ reader[c][k].pc = "store"
  /\ txs' = [txs EXCEPT ![c] = <<reader[c][k].tx>>]
  /\ reader' = [reader EXCEPT ![c][k].pc = "test", ![c][k].seen = << >>]
  /\ UNCHANGED <<sources, ticks, listener, net>>

StoreSlice(c, k) ==
  /\ reader[c][k].pc = "store"
  /\ txs' = [txs EXCEPT ![c] = Append(reader[c][k].seen, reader[c][k].tx)]
  /\ reader' = [reader EXCEPT ![c][k].pc = "test", ![c][k].seen = << >>]
  /\ UNCHANGED <<sources, ticks, listener, net>>

Full(slice) == Len(slice) >= MaxTx

\* The length is read from the shared slice, where another goroutine may have
\* stored or cleared since.  A full slice makes the reader wait to send on the
\* unbuffered channel.
TestSlice(c, k) ==
  /\ reader[c][k].pc = "test"
  /\ reader' = [reader EXCEPT ![c][k].pc = IF Full(txs[c]) THEN "ready" ELSE "load"]
  /\ UNCHANGED <<sources, ticks, listener, txs, net>>

\* One case of the select: a reader is blocked in its send.  It goes on with its
\* loop, and the listener with the send to the primary.
SelectReady(k) ==
  /\ listener[k].pc = "select"
  /\ \E c \in Categories, r \in Ticks :
       /\ reader[c][r].pc = "ready"
       /\ reader' = [reader EXCEPT ![c][r].pc = "load"]
       /\ listener' = [listener EXCEPT ![k].pc = "marshal", ![k].cat = c]
  /\ UNCHANGED <<sources, ticks, txs, net>>

\* No reader is blocked in its send.
SelectDefault(k) ==
  /\ listener[k].pc = "select"
  /\ \A c \in Categories, r \in Ticks : reader[c][r].pc # "ready"
  /\ listener' = [listener EXCEPT ![k].pc = "done"]
  /\ UNCHANGED <<sources, ticks, reader, txs, net>>

\* Mutant: the set is sent whether or not it has a transaction.
WorthSending_Always(set) == TRUE

WorthSending(set) == set # << >>

\* sendTxs2Leader, up to the end of TCPDial.
DialLeader(k) ==
  LET c == listener[k].cat IN
  /\ listener[k].pc = "marshal"
  /\ IF WorthSending(txs[c])
       THEN /\ net' = net \cup {[from |-> k, cat |-> c, set |-> txs[c]]}
            /\ listener' = [listener EXCEPT ![k].pc = "handle", ![k].set = txs[c]]
       ELSE /\ listener' = [listener EXCEPT ![k].pc = "clear"]
            /\ UNCHANGED net
  /\ UNCHANGED <<sources, ticks, reader, txs>>

\* The rest of sendTxs2Leader: the same set goes to handleTxTrans by a call.
HandOver(k) ==
  /\ listener[k].pc = "handle"
  /\ listener' = [listener EXCEPT ![k].pc = "clear"]
  /\ UNCHANGED <<sources, ticks, reader, txs, net>>

ClearSlice(k) ==
  /\ listener[k].pc = "clear"
  /\ txs' = [txs EXCEPT ![listener[k].cat] = << >>]
  /\ listener' = [listener EXCEPT ![k].pc = "done", ![k].set = << >>]
  /\ UNCHANGED <<sources, ticks, reader, net>>

----------------------------------------------------------------------------
AppendTx(c, k) == LoadSlice(c, k) \/ StoreSlice(c, k) \/ TestSlice(c, k)

Reader(c, k) == ReadPool(c, k) \/ AppendTx(c, k)

Listener(k) ==
  \/ SelectReady(k) \/ SelectDefault(k)
  \/ DialLeader(k) \/ HandOver(k) \/ ClearSlice(k)

Next ==
  \/ TxListen
  \/ Tick
  \/ \E c \in Categories, k \in Ticks : Reader(c, k)
  \/ \E k \in Ticks : Listener(k)

Spec == Init /\ [][Next]_vars

\* A reader that has its transaction waits for nothing until it finds the slice
\* full, so the scheduler lets each of them run again and again.  The ticker, the
\* generator and the listeners need not.
FairSpec == Spec /\ \A c \in Categories, k \in Ticks : WF_vars(AppendTx(c, k))

----------------------------------------------------------------------------
(* Properties.                                                             *)

Transactions(c) == Range(Supply[c])

TypeOK ==
  /\ generated \in [Categories -> Nat]
  /\ generator \in [cat : Categories, left : 1..Turn]
  /\ ticks \in 0..MaxTicks
  /\ \A k \in Ticks :
       /\ listener[k].pc \in {"idle", "select", "marshal", "handle", "clear", "done"}
       /\ listener[k].cat \in Categories
       /\ listener[k].set \in Seq(Transactions(listener[k].cat))
       /\ listener[k].pc = "handle" => listener[k].set # << >>
  /\ \A m \in net :
       /\ m.from \in Ticks /\ m.cat \in Categories
       /\ m.set \in Seq(Transactions(m.cat)) \ {<< >>}
  /\ \A c \in Categories :
       /\ txPool[c] \in Seq(Transactions(c)) /\ Len(txPool[c]) <= PoolCap[c]
       /\ txs[c] \in Seq(Transactions(c))
       /\ \A k \in Ticks :
            /\ reader[c][k].pc \in {"idle", "read", "load", "store", "test", "ready"}
            /\ reader[c][k].tx \in Transactions(c) \cup {0}
            /\ reader[c][k].seen \in Seq(Transactions(c))

\* One goroutine feeds both channels, and a send on the full one of keys stops it
\* from making identities too (TX.go:35).  It never blocks there with no identity
\* in stock, unless a reader of keys is about to make room: no more keys were made
\* than identities, and every tick starts a reader of each.
IdsAreNotStarved ==
  generator.cat = "DynaKey" /\ ~HasSpace("DynaKey") /\ txPool["ID"] = << >>
    => \E k \in Ticks : reader["DynaKey"][k].pc = "read"

\* Readers overwrite each other's slices for ever neither in lockstep nor in any
\* other order: whatever appends and clears are lost between a store and its test
\* (TX.go:74 and 76), whoever has a transaction finds the slice full and reports.
ReadersReport ==
  []<>(\A c \in Categories, k \in Ticks : reader[c][k].pc \in {"idle", "read", "ready"})

----------------------------------------------------------------------------
(* What comments in the code say and the code does not do.                 *)

\* A reader "reads all the transactions of the pool in a loop, until a cache
\* reaches the threshold" (TX.go:70): no transaction is in a set twice.
ReadersReadOn ==
  \A m \in net : \A i, j \in 1..Len(m.set) : i # j => m.set[i] # m.set[j]

=============================================================================
