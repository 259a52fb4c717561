--------------------------- MODULE TxTransferProofs ---------------------------
(***************************************************************************)
(* Proofs about the transactions' way to the leader: type correctness, by  *)
(* which no empty set is ever sent, and that the one goroutine that feeds  *)
(* both channels never runs out of identities because nobody takes its     *)
(* keys.  For any supply, capacities, length of a turn, threshold and      *)
(* number of ticks.                                                        *)
(***************************************************************************)
EXTENDS TxTransfer, FiniteSetTheorems, SequenceTheorems, TLAPS

ReaderPCs == {"idle", "read", "load", "store", "test", "ready"}

ListenerPCs == {"idle", "select", "marshal", "handle", "clear", "done"}

SourcesTyped ==
  /\ generated \in [Categories -> Nat]
  /\ generator \in [cat : Categories, left : 1..Turn]
  /\ ticks \in 0..MaxTicks

PoolsTyped ==
  /\ txPool \in [Categories -> Seq(Nat)]
  /\ \A c \in Categories :
       txPool[c] \in Seq(Transactions(c)) /\ Len(txPool[c]) <= PoolCap[c]

SlicesTyped ==
  /\ txs \in [Categories -> Seq(Nat)]
  /\ \A c \in Categories : txs[c] \in Seq(Transactions(c))

\* A reader of category c; past its receive it holds a transaction.
ReaderOK(c, r) ==
  /\ r \in [pc : ReaderPCs, tx : Nat, seen : Seq(Nat)]
  /\ r.tx \in Transactions(c) \cup {0}
  /\ r.seen \in Seq(Transactions(c))
  /\ r.pc \in {"load", "store", "test", "ready"} => r.tx \in Transactions(c)

ReadersTyped ==
  /\ reader \in [Categories -> [Ticks -> [pc : ReaderPCs, tx : Nat, seen : Seq(Nat)]]]
  /\ \A c \in Categories, k \in Ticks : ReaderOK(c, reader[c][k])

\* A listener; it has a set only from the dial to the clear.
ListenerOK(l) ==
  /\ l \in [pc : ListenerPCs, cat : Categories, set : Seq(Nat)]
  /\ l.set \in Seq(Transactions(l.cat))
  /\ l.pc \in {"idle", "select", "marshal"} => l.set = << >>
  /\ l.pc = "handle" => l.set # << >>

ListenersTyped ==
  /\ listener \in [Ticks -> [pc : ListenerPCs, cat : Categories, set : Seq(Nat)]]
  /\ \A k \in Ticks : ListenerOK(listener[k])

NetTyped ==
  \A m \in net : /\ m.from \in Ticks /\ m.cat \in Categories
                 /\ m.set \in Seq(Transactions(m.cat)) \ {<< >>}

\* A goroutine runs only when its tick has started it.
StartedByTick ==
  \A k \in Ticks :
    k > ticks => /\ listener[k].pc = "idle"
                 /\ \A c \in Categories : reader[c][k].pc = "idle"

\* Type correctness, owner by owner.
TypeInv ==
  /\ SourcesTyped /\ PoolsTyped /\ SlicesTyped
  /\ ReadersTyped /\ ListenersTyped /\ NetTyped /\ StartedByTick

----------------------------------------------------------------------------
(* Sequences of transactions.                                              *)

LEMMA Appended ==
  ASSUME NEW S, NEW s \in Seq(S), NEW e \in S
  PROVE  /\ Append(s, e) \in Seq(S)
         /\ Len(Append(s, e)) = Len(s) + 1
         /\ Append(s, e) # << >>
  BY AppendProperties

LEMMA Received ==
  ASSUME NEW S, NEW s \in Seq(S), s # << >>
  PROVE  /\ Head(s) \in S
         /\ Tail(s) \in Seq(S)
         /\ Len(Tail(s)) = Len(s) - 1
  BY HeadTailProperties

LEMMA Empty ==
  ASSUME NEW S
  PROVE  << >> \in Seq(S) /\ Len(<< >>) = 0
  OBVIOUS

\* Transactions are numbers, and the next one is among them.
LEMMA TransactionsAreNumbers ==
  ASSUME NEW c \in Categories
  PROVE  /\ Supply[c] \in Seq(Nat) /\ Len(Supply[c]) \in Nat
         /\ Transactions(c) \subseteq Nat
         /\ \A i \in 1..Len(Supply[c]) : Supply[c][i] \in Transactions(c)
<1>1. Supply[c] \in Seq(Nat)
  BY TxTransferAssumption
<1>2. DOMAIN Supply[c] = 1..Len(Supply[c]) /\ Len(Supply[c]) \in Nat
  BY <1>1
<1>3. \A i \in 1..Len(Supply[c]) : Supply[c][i] \in Nat
  BY <1>1
<1> QED
  BY <1>1, <1>2, <1>3 DEF Transactions, Range

----------------------------------------------------------------------------
(* Type correctness: one lemma per action that moves data.                 *)

LEMMA Typed == TypeInv => TypeOK
<1> SUFFICES ASSUME TypeInv PROVE TypeOK
  OBVIOUS
<1>1. /\ generated \in [Categories -> Nat]
      /\ generator \in [cat : Categories, left : 1..Turn]
      /\ ticks \in 0..MaxTicks
  BY DEF TypeInv, SourcesTyped
<1>2. \A k \in Ticks :
        /\ listener[k].pc \in ListenerPCs /\ listener[k].cat \in Categories
        /\ listener[k].set \in Seq(Transactions(listener[k].cat))
        /\ listener[k].pc = "handle" => listener[k].set # << >>
  BY DEF TypeInv, ListenersTyped, ListenerOK
<1>3. \A c \in Categories, k \in Ticks :
        /\ reader[c][k].pc \in ReaderPCs
        /\ reader[c][k].tx \in Transactions(c) \cup {0}
        /\ reader[c][k].seen \in Seq(Transactions(c))
  BY DEF TypeInv, ReadersTyped, ReaderOK
<1> QED
  BY <1>1, <1>2, <1>3
  DEF TypeInv, TypeOK, PoolsTyped, SlicesTyped, NetTyped, ListenerPCs, ReaderPCs

LEMMA TypeInit == Init => TypeInv
<1> SUFFICES ASSUME Init PROVE TypeInv
  OBVIOUS
<1>1. \A c \in Categories :
        /\ PoolCap[c] \in Nat
        /\ << >> \in Seq(Transactions(c)) /\ << >> \in Seq(Nat)
        /\ Len(<< >>) = 0 /\ 0 <= PoolCap[c]
  BY TxTransferAssumption, Empty
<1>2. SourcesTyped
  BY TxTransferAssumption DEF Init, FirstTurn, SourcesTyped, Categories
<1>3. PoolsTyped /\ SlicesTyped
  BY <1>1 DEF Init, PoolsTyped, SlicesTyped
<1>4. ReadersTyped
  <2>1. reader = [c \in Categories |-> [k \in Ticks |-> Idle]]
    BY DEF Init
  <2>2. \A c \in Categories : ReaderOK(c, Idle)
    BY <1>1 DEF Idle, ReaderOK, ReaderPCs
  <2>3. \A c \in Categories : Idle \in [pc : ReaderPCs, tx : Nat, seen : Seq(Nat)]
    BY <2>2 DEF ReaderOK
  <2> QED
    BY <2>1, <2>2, <2>3 DEF ReadersTyped
<1>5. ListenersTyped
  <2>1. listener = [k \in Ticks |-> NotStarted]
    BY DEF Init
  <2>2. "ID" \in Categories
    BY DEF Categories
  <2>3. ListenerOK(NotStarted)
    BY <1>1, <2>2 DEF NotStarted, ListenerOK, ListenerPCs
  <2>4. NotStarted \in [pc : ListenerPCs, cat : Categories, set : Seq(Nat)]
    BY <2>3 DEF ListenerOK
  <2> QED
    BY <2>1, <2>3, <2>4 DEF ListenersTyped
<1>6. NetTyped /\ StartedByTick
  BY DEF Init, NetTyped, StartedByTick, Idle, NotStarted
<1> QED
  BY <1>2, <1>3, <1>4, <1>5, <1>6 DEF TypeInv

\* One reader moves.
LEMMA ReaderMoves ==
  ASSUME ReadersTyped, NEW c \in Categories, NEW k \in Ticks, NEW r,
         ReaderOK(c, r), reader' = [reader EXCEPT ![c][k] = r]
  PROVE  ReadersTyped'
<1>1. r \in [pc : ReaderPCs, tx : Nat, seen : Seq(Nat)]
  BY DEF ReaderOK
<1>2. reader' \in [Categories -> [Ticks -> [pc : ReaderPCs, tx : Nat, seen : Seq(Nat)]]]
  BY <1>1 DEF ReadersTyped
<1>3. \A b \in Categories, j \in Ticks :
        reader'[b][j] = IF b = c /\ j = k THEN r ELSE reader[b][j]
  BY DEF ReadersTyped
<1>4. \A b \in Categories, j \in Ticks : ReaderOK(b, reader[b][j])
  BY DEF ReadersTyped
<1>5. \A b \in Categories, j \in Ticks : ReaderOK(b, reader'[b][j])
  <2> TAKE b \in Categories, j \in Ticks
  <2>1. CASE b = c /\ j = k
    <3>1. reader'[b][j] = r
      BY <1>3, <2>1
    <3> QED
      BY ONLY <2>1, <3>1, ReaderOK(c, r)
  <2>2. CASE ~(b = c /\ j = k)
    <3>1. reader'[b][j] = reader[b][j]
      BY <1>3, <2>2
    <3> QED
      BY ONLY <1>4, <3>1
  <2> QED
    BY <2>1, <2>2
<1>6. ReadersTyped' <=>
        /\ reader' \in [Categories -> [Ticks -> [pc : ReaderPCs, tx : Nat, seen : Seq(Nat)]]]
        /\ \A b \in Categories, j \in Ticks : ReaderOK(b, reader'[b][j])
  BY DEF ReadersTyped, ReaderOK, Transactions
<1> QED
  BY <1>2, <1>5, <1>6

\* What a reader is after it moved to another line.
LEMMA ReaderGoes ==
  ASSUME NEW c \in Categories, NEW r, ReaderOK(c, r), NEW pc \in ReaderPCs,
         pc \in {"load", "store", "test", "ready"} => r.tx \in Transactions(c)
  PROVE  ReaderOK(c, [r EXCEPT !.pc = pc])
<1> DEFINE q == [r EXCEPT !.pc = pc]
<1>1. r \in [pc : ReaderPCs, tx : Nat, seen : Seq(Nat)]
  BY DEF ReaderOK
<1>2. q \in [pc : ReaderPCs, tx : Nat, seen : Seq(Nat)]
  BY <1>1
<1>3. q.pc = pc /\ q.tx = r.tx /\ q.seen = r.seen
  BY <1>1
<1> HIDE DEF q
<1> QED
  BY <1>2, <1>3 DEF ReaderOK

\* One listener moves.
LEMMA ListenerMoves ==
  ASSUME ListenersTyped, NEW k \in Ticks, NEW l,
         ListenerOK(l), listener' = [listener EXCEPT ![k] = l]
  PROVE  ListenersTyped'
<1>1. l \in [pc : ListenerPCs, cat : Categories, set : Seq(Nat)]
  BY DEF ListenerOK
<1>2. listener' \in [Ticks -> [pc : ListenerPCs, cat : Categories, set : Seq(Nat)]]
  BY <1>1 DEF ListenersTyped
<1>3. \A j \in Ticks : listener'[j] = IF j = k THEN l ELSE listener[j]
  BY DEF ListenersTyped
<1>4. \A j \in Ticks : ListenerOK(listener'[j])
  BY <1>3 DEF ListenersTyped
<1>5. ListenersTyped' <=>
        /\ listener' \in [Ticks -> [pc : ListenerPCs, cat : Categories, set : Seq(Nat)]]
        /\ \A j \in Ticks : ListenerOK(listener'[j])
  BY DEF ListenersTyped, ListenerOK, Transactions
<1> QED
  BY <1>2, <1>4, <1>5

LEMMA TypeTxListen ==
  ASSUME TypeInv, TxListen
  PROVE  TypeInv'
<1> DEFINE c == generator.cat
           tx == Supply[c][generated[c] + 1]
<1>0. /\ c \in Categories /\ generated[c] \in Nat
      /\ txPool[c] \in Seq(Transactions(c)) /\ txPool[c] \in Seq(Nat)
  BY DEF TypeInv, SourcesTyped, PoolsTyped
<1>1. /\ generated' = [generated EXCEPT ![c] = @ + 1]
      /\ txPool' = [txPool EXCEPT ![c] = Append(txPool[c], tx)]
      /\ generated[c] < Len(Supply[c]) /\ Len(txPool[c]) < PoolCap[c]
      /\ UNCHANGED <<ticks, reader, listener, txs, net>>
  BY DEF TypeInv, PoolsTyped, TxListen, HasSpace, slices
<1>2. tx \in Transactions(c) /\ tx \in Nat
  <2>1. generated[c] + 1 \in 1..Len(Supply[c])
    BY <1>0, <1>1, TransactionsAreNumbers
  <2> QED
    BY <1>0, <2>1, TransactionsAreNumbers
<1>3. generator' \in [cat : Categories, left : 1..Turn]
  <2>1. CASE generator.left > 1
    <3>1. generator' = [generator EXCEPT !.left = @ - 1]
      BY <2>1 DEF TxListen
    <3>2. generator \in [cat : Categories, left : 1..Turn] /\ Turn \in Nat
      BY TxTransferAssumption DEF TypeInv, SourcesTyped
    <3> QED
      BY ONLY <2>1, <3>1, <3>2
  <2>2. CASE ~(generator.left > 1)
    BY <2>2, TxTransferAssumption DEF TxListen, AfterTurn, Categories
  <2> QED
    BY <2>1, <2>2
<1> HIDE DEF c, tx
<1>4. /\ Append(txPool[c], tx) \in Seq(Transactions(c))
      /\ Append(txPool[c], tx) \in Seq(Nat)
      /\ Len(Append(txPool[c], tx)) <= PoolCap[c]
  <2>1. PoolCap[c] \in Nat /\ Len(txPool[c]) \in Nat
    BY <1>0, TxTransferAssumption
  <2> QED
    BY <1>0, <1>1, <1>2, <2>1, Appended
<1>5. SourcesTyped'
  BY <1>0, <1>1, <1>3 DEF TypeInv, SourcesTyped
<1>6. PoolsTyped'
  BY <1>0, <1>1, <1>4 DEF TypeInv, PoolsTyped, Transactions
<1>7. SlicesTyped' /\ ReadersTyped' /\ ListenersTyped' /\ NetTyped' /\ StartedByTick'
  BY <1>1 DEF TypeInv, SlicesTyped, ReadersTyped, ListenersTyped, NetTyped, StartedByTick,
              ReaderOK, ListenerOK, Transactions
<1> QED
  BY <1>5, <1>6, <1>7 DEF TypeInv

LEMMA TypeTick ==
  ASSUME TypeInv, Tick
  PROVE  TypeInv'
<1> DEFINE k == ticks + 1
<1>1. /\ k \in Ticks /\ ticks' = k /\ k \in 0..MaxTicks
      /\ reader' = [c \in Categories |-> [reader[c] EXCEPT ![k].pc = "read"]]
      /\ listener' = [listener EXCEPT ![k].pc = "select"]
      /\ UNCHANGED <<generated, generator, txPool, txs, net>>
  BY TxTransferAssumption DEF Tick, TypeInv, SourcesTyped, Ticks, sources
<1> HIDE DEF k
<1>2. SourcesTyped' /\ PoolsTyped' /\ SlicesTyped' /\ NetTyped'
  BY <1>1 DEF TypeInv, SourcesTyped, PoolsTyped, SlicesTyped, NetTyped, Transactions
<1>3. ReadersTyped'
  <2>1. \A c \in Categories : /\ reader[c] \in [Ticks -> [pc : ReaderPCs, tx : Nat, seen : Seq(Nat)]]
                             /\ \A j \in Ticks : ReaderOK(c, reader[c][j])
    BY DEF TypeInv, ReadersTyped
  <2>2. \A c \in Categories : ReaderOK(c, [reader[c][k] EXCEPT !.pc = "read"])
    BY <1>1, <2>1, ReaderGoes DEF ReaderPCs
  <2>3. \A c \in Categories, j \in Ticks :
          reader'[c][j] = IF j = k THEN [reader[c][k] EXCEPT !.pc = "read"] ELSE reader[c][j]
    BY <1>1, <2>1
  <2>4. \A c \in Categories, j \in Ticks : ReaderOK(c, reader'[c][j])
    BY <2>1, <2>2, <2>3, Zenon
  <2>5. \A c \in Categories, j \in Ticks :
          reader'[c][j] \in [pc : ReaderPCs, tx : Nat, seen : Seq(Nat)]
    BY <2>4 DEF ReaderOK
  <2>6. reader' \in [Categories -> [Ticks -> [pc : ReaderPCs, tx : Nat, seen : Seq(Nat)]]]
    BY <1>1, <2>1, <2>5
  <2>7. ReadersTyped' <=>
          /\ reader' \in [Categories -> [Ticks -> [pc : ReaderPCs, tx : Nat, seen : Seq(Nat)]]]
          /\ \A c \in Categories, j \in Ticks : ReaderOK(c, reader'[c][j])
    BY DEF ReadersTyped, ReaderOK, Transactions
  <2> QED
    BY <2>4, <2>6, <2>7
<1>4. ListenersTyped'
  <2> DEFINE l == listener[k]
             m == [l EXCEPT !.pc = "select"]
  <2>1. ListenersTyped /\ ListenerOK(l) /\ listener' = [listener EXCEPT ![k] = m]
    BY <1>1 DEF TypeInv, ListenersTyped
  <2>2. l.pc = "idle"
    BY <1>1 DEF TypeInv, SourcesTyped, StartedByTick, k, Ticks
  <2> HIDE DEF l
  <2>3. l \in [pc : ListenerPCs, cat : Categories, set : Seq(Nat)]
    BY <2>1 DEF ListenerOK
  <2>4. /\ m \in [pc : ListenerPCs, cat : Categories, set : Seq(Nat)]
        /\ m.pc = "select" /\ m.set = l.set /\ m.cat = l.cat
    BY <2>3 DEF ListenerPCs
  <2> HIDE DEF m
  <2>5. ListenerOK(m)
    BY <2>1, <2>2, <2>4 DEF ListenerOK
  <2> QED
    BY <1>1, <2>1, <2>5, ListenerMoves
<1>5. StartedByTick'
  <2>1. \A j \in Ticks : j > k => j > ticks /\ j # k
    BY <1>1 DEF TypeInv, SourcesTyped, Ticks, k
  <2>2. \A j \in Ticks : j # k => /\ listener'[j] = listener[j]
                                 /\ \A c \in Categories : reader'[c][j] = reader[c][j]
    BY <1>1 DEF TypeInv, ListenersTyped, ReadersTyped
  <2> QED
    BY <1>1, <2>1, <2>2 DEF TypeInv, StartedByTick
<1> QED
  BY <1>2, <1>3, <1>4, <1>5 DEF TypeInv

\* A step of a reader that was started.
LEMMA TypeReader ==
  ASSUME TypeInv, NEW c \in Categories, NEW k \in Ticks, NEW r,
         reader[c][k].pc # "idle", ReaderOK(c, r), reader' = [reader EXCEPT ![c][k] = r],
         UNCHANGED <<generated, generator, ticks, listener, net>>,
         PoolsTyped', SlicesTyped'
  PROVE  TypeInv'
<1>1. ReadersTyped'
  BY ReaderMoves DEF TypeInv
<1>2. SourcesTyped' /\ ListenersTyped' /\ NetTyped'
  BY DEF TypeInv, SourcesTyped, ListenersTyped, NetTyped, ListenerOK, Transactions
<1>3. StartedByTick'
  <2>1. ~(k > ticks)
    BY DEF TypeInv, StartedByTick
  <2>2. \A b \in Categories, j \in Ticks : j # k => reader'[b][j] = reader[b][j]
    BY DEF TypeInv, ReadersTyped
  <2> QED
    BY <2>1, <2>2 DEF TypeInv, StartedByTick
<1> QED
  BY <1>1, <1>2, <1>3 DEF TypeInv

\* A step of a listener that was started; it may let a reader go on.
LEMMA TypeListener ==
  ASSUME TypeInv, NEW k \in Ticks, NEW l,
         listener[k].pc # "idle", ListenerOK(l), listener' = [listener EXCEPT ![k] = l],
         UNCHANGED <<generated, generator, txPool, ticks>>,
         SlicesTyped', NetTyped', ReadersTyped',
         \A c \in Categories, j \in Ticks : reader[c][j].pc = "idle" => reader'[c][j].pc = "idle"
  PROVE  TypeInv'
<1>1. ListenersTyped'
  BY ListenerMoves DEF TypeInv
<1>2. SourcesTyped' /\ PoolsTyped'
  BY DEF TypeInv, SourcesTyped, PoolsTyped, Transactions
<1>3. StartedByTick'
  <2>1. ~(k > ticks)
    BY DEF TypeInv, StartedByTick
  <2>2. \A j \in Ticks : j # k => listener'[j] = listener[j]
    BY DEF TypeInv, ListenersTyped
  <2> QED
    BY <2>1, <2>2 DEF TypeInv, StartedByTick
<1> QED
  BY <1>1, <1>2, <1>3 DEF TypeInv

LEMMA TypeReadPool ==
  ASSUME TypeInv, NEW c \in Categories, NEW k \in Ticks, ReadPool(c, k)
  PROVE  TypeInv'
<1> DEFINE q == reader[c][k]
           tx == Head(txPool[c])
           r == [q EXCEPT !.pc = "load", !.tx = tx]
<1>1. /\ ReaderOK(c, q) /\ txPool[c] # << >>
      /\ txPool[c] \in Seq(Transactions(c)) /\ txPool[c] \in Seq(Nat)
      /\ Len(txPool[c]) <= PoolCap[c] /\ PoolCap[c] \in Nat
  BY TxTransferAssumption DEF ReadPool, TypeInv, ReadersTyped, PoolsTyped
<1>2. /\ tx \in Transactions(c)
      /\ Tail(txPool[c]) \in Seq(Transactions(c)) /\ Tail(txPool[c]) \in Seq(Nat)
      /\ Len(Tail(txPool[c])) <= PoolCap[c] /\ tx \in Nat
  <2>1. /\ tx \in Transactions(c) /\ Tail(txPool[c]) \in Seq(Transactions(c))
        /\ Len(Tail(txPool[c])) = Len(txPool[c]) - 1 /\ Len(txPool[c]) \in Nat
    BY <1>1, Received
  <2>2. Tail(txPool[c]) \in Seq(Nat)
    BY <1>1, Received
  <2>3. tx \in Nat
    BY <2>1, TransactionsAreNumbers
  <2> QED
    BY <1>1, <2>1, <2>2, <2>3
<1>3. /\ q.pc = "read" /\ reader' = [reader EXCEPT ![c][k] = r]
      /\ txPool' = [txPool EXCEPT ![c] = Tail(txPool[c])]
      /\ UNCHANGED <<generated, generator, ticks, listener, txs, net>>
  BY DEF ReadPool, TypeInv, PoolsTyped
<1> HIDE DEF q, tx
<1>4. ReaderOK(c, r)
  <2>1. q \in [pc : ReaderPCs, tx : Nat, seen : Seq(Nat)]
    BY <1>1 DEF ReaderOK
  <2>2. /\ r \in [pc : ReaderPCs, tx : Nat, seen : Seq(Nat)]
        /\ r.pc = "load" /\ r.tx = tx /\ r.seen = q.seen
    BY <1>2, <2>1 DEF ReaderPCs
  <2> HIDE DEF r
  <2> QED
    BY <1>1, <1>2, <2>2 DEF ReaderOK
<1>5. PoolsTyped' /\ SlicesTyped'
  BY <1>2, <1>3 DEF TypeInv, PoolsTyped, SlicesTyped, Transactions
<1>6. reader[c][k].pc # "idle"
  BY <1>3 DEF q
<1> HIDE DEF r
<1> QED
  BY <1>3, <1>4, <1>5, <1>6, TypeReader

LEMMA TypeLoadSlice ==
  ASSUME TypeInv, NEW c \in Categories, NEW k \in Ticks, LoadSlice(c, k)
  PROVE  TypeInv'
<1> DEFINE q == reader[c][k]
           r == [q EXCEPT !.pc = "store", !.seen = txs[c]]
<1>1. ReaderOK(c, q) /\ txs[c] \in Seq(Transactions(c)) /\ txs[c] \in Seq(Nat)
  BY DEF TypeInv, ReadersTyped, SlicesTyped
<1>2. /\ q.pc = "load" /\ reader' = [reader EXCEPT ![c][k] = r]
      /\ UNCHANGED <<generated, generator, txPool, ticks, listener, txs, net>>
  BY DEF LoadSlice, TypeInv, sources
<1> HIDE DEF q
<1>3. ReaderOK(c, r)
  <2>1. q \in [pc : ReaderPCs, tx : Nat, seen : Seq(Nat)]
    BY <1>1 DEF ReaderOK
  <2>2. /\ r \in [pc : ReaderPCs, tx : Nat, seen : Seq(Nat)]
        /\ r.pc = "store" /\ r.tx = q.tx /\ r.seen = txs[c]
    BY <1>1, <2>1 DEF ReaderPCs
  <2> HIDE DEF r
  <2> QED
    BY <1>1, <1>2, <2>2 DEF ReaderOK
<1>4. PoolsTyped' /\ SlicesTyped'
  BY <1>2 DEF TypeInv, PoolsTyped, SlicesTyped, Transactions
<1>5. reader[c][k].pc # "idle"
  BY <1>2 DEF q
<1> HIDE DEF r
<1> QED
  BY <1>2, <1>3, <1>4, <1>5, TypeReader

LEMMA TypeStoreSlice ==
  ASSUME TypeInv, NEW c \in Categories, NEW k \in Ticks, StoreSlice(c, k)
  PROVE  TypeInv'
<1> DEFINE q == reader[c][k]
           longer == Append(q.seen, q.tx)
           r == [q EXCEPT !.pc = "test", !.seen = << >>]
<1>1. ReaderOK(c, q)
  BY DEF TypeInv, ReadersTyped
<1>2. /\ q.pc = "store" /\ reader' = [reader EXCEPT ![c][k] = r]
      /\ txs' = [txs EXCEPT ![c] = longer]
      /\ UNCHANGED <<generated, generator, txPool, ticks, listener, net>>
  BY DEF StoreSlice, TypeInv, sources
<1> HIDE DEF q
<1>4. /\ q \in [pc : ReaderPCs, tx : Nat, seen : Seq(Nat)]
      /\ q.tx \in Transactions(c) /\ q.seen \in Seq(Transactions(c))
      /\ q.tx \in Nat /\ q.seen \in Seq(Nat)
  BY <1>1, <1>2 DEF ReaderOK
<1>5. longer \in Seq(Transactions(c)) /\ longer \in Seq(Nat)
  BY <1>4, Appended
<1> HIDE DEF longer
<1>6. ReaderOK(c, r)
  <2>1. << >> \in Seq(Nat) /\ << >> \in Seq(Transactions(c))
    BY Empty
  <2>2. /\ r \in [pc : ReaderPCs, tx : Nat, seen : Seq(Nat)]
        /\ r.pc = "test" /\ r.tx = q.tx /\ r.seen = << >>
    BY <1>4, <2>1 DEF ReaderPCs
  <2> HIDE DEF r
  <2> QED
    BY <1>1, <1>4, <2>1, <2>2 DEF ReaderOK
<1>7. PoolsTyped' /\ SlicesTyped'
  BY <1>2, <1>5 DEF TypeInv, PoolsTyped, SlicesTyped, Transactions
<1>8. reader[c][k].pc # "idle"
  BY <1>2 DEF q
<1> HIDE DEF r
<1> QED
  BY <1>2, <1>6, <1>7, <1>8, TypeReader

LEMMA TypeTestSlice ==
  ASSUME TypeInv, NEW c \in Categories, NEW k \in Ticks, TestSlice(c, k)
  PROVE  TypeInv'
<1> DEFINE q == reader[c][k]
           pc == IF Full(txs[c]) THEN "ready" ELSE "load"
           r == [q EXCEPT !.pc = pc]
<1>1. ReaderOK(c, q)
  BY DEF TypeInv, ReadersTyped
<1>2. /\ q.pc = "test" /\ reader' = [reader EXCEPT ![c][k] = r]
      /\ UNCHANGED <<generated, generator, txPool, ticks, listener, txs, net>>
  BY DEF TestSlice, TypeInv, sources
<1>3. pc \in {"ready", "load"}
  OBVIOUS
<1>4. reader[c][k].pc # "idle"
  BY <1>2 DEF q
<1> HIDE DEF q, pc
<1>5. q.tx \in Transactions(c)
  BY <1>1, <1>2 DEF ReaderOK
<1>6. ReaderOK(c, r)
  BY <1>1, <1>3, <1>5, ReaderGoes DEF ReaderPCs
<1>7. PoolsTyped' /\ SlicesTyped'
  BY <1>2 DEF TypeInv, PoolsTyped, SlicesTyped, Transactions
<1> HIDE DEF r
<1> QED
  BY <1>2, <1>4, <1>6, <1>7, TypeReader

\* A listener that moved to another line, with its set or another one.
LEMMA ListenerGoes ==
  ASSUME NEW l, ListenerOK(l), NEW pc \in {"clear", "done"}
  PROVE  ListenerOK([l EXCEPT !.pc = pc])
<1> DEFINE m == [l EXCEPT !.pc = pc]
<1>1. l \in [pc : ListenerPCs, cat : Categories, set : Seq(Nat)]
  BY DEF ListenerOK
<1>2. /\ m \in [pc : ListenerPCs, cat : Categories, set : Seq(Nat)]
      /\ m.pc = pc /\ m.cat = l.cat /\ m.set = l.set
  BY <1>1 DEF ListenerPCs
<1> HIDE DEF m
<1>3. ListenerOK(m)
  BY <1>2 DEF ListenerOK
<1> QED
  BY <1>3 DEF m

LEMMA ListenerSets ==
  ASSUME NEW l, ListenerOK(l), NEW pc \in {"handle", "done"}, NEW st \in Seq(Nat),
         st \in Seq(Transactions(l.cat)), pc = "handle" => st # << >>
  PROVE  ListenerOK([l EXCEPT !.pc = pc, !.set = st])
<1> DEFINE m == [l EXCEPT !.pc = pc, !.set = st]
<1>1. l \in [pc : ListenerPCs, cat : Categories, set : Seq(Nat)]
  BY DEF ListenerOK
<1>2. /\ m \in [pc : ListenerPCs, cat : Categories, set : Seq(Nat)]
      /\ m.pc = pc /\ m.cat = l.cat /\ m.set = st
  BY <1>1 DEF ListenerPCs
<1> HIDE DEF m
<1>3. ListenerOK(m)
  BY <1>2 DEF ListenerOK
<1> QED
  BY <1>3 DEF m

LEMMA TypeSelectReady ==
  ASSUME TypeInv, NEW k \in Ticks, SelectReady(k)
  PROVE  TypeInv'
<1>1. PICK c \in Categories, j \in Ticks :
        /\ reader[c][j].pc = "ready"
        /\ reader' = [reader EXCEPT ![c][j].pc = "load"]
        /\ listener' = [listener EXCEPT ![k].pc = "marshal", ![k].cat = c]
  BY DEF SelectReady
<1>2. listener[k].pc = "select" /\ UNCHANGED <<generated, generator, txPool, ticks, txs, net>>
  BY DEF SelectReady, sources
<1> DEFINE q == reader[c][j]
           r == [q EXCEPT !.pc = "load"]
           l == listener[k]
           m == [l EXCEPT !.pc = "marshal", !.cat = c]
<1>3. ReaderOK(c, q) /\ q.pc = "ready" /\ reader' = [reader EXCEPT ![c][j] = r]
  BY <1>1 DEF TypeInv, ReadersTyped
<1>4. ListenerOK(l) /\ l.pc = "select" /\ listener' = [listener EXCEPT ![k] = m]
  BY <1>1, <1>2 DEF TypeInv, ListenersTyped
<1> HIDE DEF q, l
<1>5. ReaderOK(c, r)
  <2>1. q.tx \in Transactions(c)
    BY <1>3 DEF ReaderOK
  <2> QED
    BY <1>3, <2>1, ReaderGoes DEF ReaderPCs
<1>6. ListenerOK(m)
  <2>1. l.set = << >> /\ << >> \in Seq(Transactions(c)) /\ << >> \in Seq(Nat)
    BY <1>4, Empty DEF ListenerOK
  <2>2. l \in [pc : ListenerPCs, cat : Categories, set : Seq(Nat)]
    BY <1>4 DEF ListenerOK
  <2>3. /\ m \in [pc : ListenerPCs, cat : Categories, set : Seq(Nat)]
        /\ m.pc = "marshal" /\ m.cat = c /\ m.set = l.set
    BY <2>2 DEF ListenerPCs
  <2> HIDE DEF m
  <2> QED
    BY <2>1, <2>3 DEF ListenerOK
<1>7. ReadersTyped'
  <2> HIDE DEF r
  <2> QED
    BY <1>3, <1>5, ReaderMoves DEF TypeInv
<1>8. SlicesTyped' /\ NetTyped'
  BY <1>2 DEF TypeInv, SlicesTyped, NetTyped, Transactions
<1>9. \A b \in Categories, i \in Ticks : reader[b][i].pc = "idle" => reader'[b][i].pc = "idle"
  <2>1. \A b \in Categories, i \in Ticks : reader'[b][i] = IF b = c /\ i = j THEN r ELSE reader[b][i]
    BY <1>3 DEF TypeInv, ReadersTyped
  <2> QED
    BY <1>1, <2>1
<1>10. listener[k].pc # "idle"
  BY <1>2
<1> HIDE DEF m
<1> QED
  BY <1>2, <1>4, <1>6, <1>7, <1>8, <1>9, <1>10, TypeListener

LEMMA TypeDialLeader ==
  ASSUME TypeInv, NEW k \in Ticks, DialLeader(k)
  PROVE  TypeInv'
<1> DEFINE l == listener[k]
           c == l.cat
           m == IF txs[c] # << >> THEN [l EXCEPT !.pc = "handle", !.set = txs[c]]
                                  ELSE [l EXCEPT !.pc = "clear"]
<1>1. /\ ListenerOK(l) /\ l.pc = "marshal" /\ listener' = [listener EXCEPT ![k] = m]
      /\ UNCHANGED <<generated, generator, txPool, ticks, reader, txs>>
  BY DEF DialLeader, WorthSending, TypeInv, ListenersTyped, sources
<1>2. c \in Categories
  BY <1>1 DEF ListenerOK
<1>3. txs[c] \in Seq(Transactions(c)) /\ txs[c] \in Seq(Nat)
  BY <1>2 DEF TypeInv, SlicesTyped
<1>4. ReadersTyped' /\ SlicesTyped'
  BY <1>1 DEF TypeInv, ReadersTyped, SlicesTyped, ReaderOK, Transactions
<1>5. NetTyped'
  <2>1. CASE txs[c] # << >>
    <3>1. net' = net \cup {[from |-> k, cat |-> c, set |-> txs[c]]}
      BY <2>1 DEF DialLeader, WorthSending
    <3>2. txs[c] # << >>
      BY <2>1
    <3> HIDE DEF c
    <3> QED
      BY <1>2, <1>3, <3>1, <3>2 DEF TypeInv, NetTyped, Transactions
  <2>2. CASE txs[c] = << >>
    <3>1. net' = net
      BY <2>2 DEF DialLeader, WorthSending
    <3> QED
      BY <3>1 DEF TypeInv, NetTyped, Transactions
  <2> QED
    BY <2>1, <2>2
<1>6. listener[k].pc # "idle"
  BY <1>1
<1> HIDE DEF l
<1>7. ListenerOK(m)
  <2>1. txs[c] # << >> => ListenerOK([l EXCEPT !.pc = "handle", !.set = txs[c]])
    BY <1>1, <1>3, ListenerSets
  <2>2. ListenerOK([l EXCEPT !.pc = "clear"])
    BY <1>1, ListenerGoes
  <2> QED
    BY <2>1, <2>2
<1>8. \A b \in Categories, j \in Ticks : reader[b][j].pc = "idle" => reader'[b][j].pc = "idle"
  BY <1>1
<1> HIDE DEF m
<1> QED
  BY <1>1, <1>4, <1>5, <1>6, <1>7, <1>8, TypeListener

\* The steps of a listener that touch nothing but itself and, in the last one,
\* the slice it clears.
LEMMA TypeListenerAlone ==
  ASSUME TypeInv, NEW k \in Ticks, SelectDefault(k) \/ HandOver(k) \/ ClearSlice(k)
  PROVE  TypeInv'
<1> DEFINE l == listener[k]
<1>1. ListenerOK(l)
  BY DEF TypeInv, ListenersTyped
<1>2. /\ << >> \in Seq(Transactions(l.cat)) /\ << >> \in Seq(Nat)
      /\ l.cat \in Categories
  BY <1>1, Empty DEF ListenerOK
<1>3. /\ ListenerOK([l EXCEPT !.pc = "done"])
      /\ ListenerOK([l EXCEPT !.pc = "clear"])
      /\ ListenerOK([l EXCEPT !.pc = "done", !.set = << >>])
  <2> HIDE DEF l
  <2> QED
    BY <1>1, <1>2, ListenerGoes, ListenerSets
<1>4. PICK m : /\ m \in {[l EXCEPT !.pc = "done"], [l EXCEPT !.pc = "clear"],
                          [l EXCEPT !.pc = "done", !.set = << >>]}
               /\ listener' = [listener EXCEPT ![k] = m]
  BY DEF SelectDefault, HandOver, ClearSlice, TypeInv, ListenersTyped
<1>5. /\ listener[k].pc # "idle"
      /\ UNCHANGED <<generated, generator, txPool, ticks, reader, net>>
      /\ txs' = txs \/ txs' = [txs EXCEPT ![l.cat] = << >>]
  BY DEF SelectDefault, HandOver, ClearSlice, sources
<1>6. ReadersTyped' /\ NetTyped'
  BY <1>5 DEF TypeInv, ReadersTyped, NetTyped, ReaderOK, Transactions
<1>7. SlicesTyped'
  <2> HIDE DEF l
  <2> QED
    BY <1>2, <1>5 DEF TypeInv, SlicesTyped, Transactions
<1>8. ListenerOK(m)
  BY <1>3, <1>4
<1>9. \A b \in Categories, j \in Ticks : reader[b][j].pc = "idle" => reader'[b][j].pc = "idle"
  BY <1>5
<1> QED
  BY <1>4, <1>5, <1>6, <1>7, <1>8, <1>9, TypeListener

LEMMA TypeStep == TypeInv /\ [Next]_vars => TypeInv'
<1> SUFFICES ASSUME TypeInv, [Next]_vars PROVE TypeInv'
  OBVIOUS
<1>1. CASE TxListen
  BY <1>1, TypeTxListen
<1>2. CASE Tick
  BY <1>2, TypeTick
<1>3. CASE \E c \in Categories, k \in Ticks : Reader(c, k)
  BY <1>3, TypeReadPool, TypeLoadSlice, TypeStoreSlice, TypeTestSlice DEF Reader, AppendTx
<1>4. CASE \E k \in Ticks : Listener(k)
  BY <1>4, TypeSelectReady, TypeDialLeader, TypeListenerAlone DEF Listener
<1>5. CASE UNCHANGED vars
  <2>1. UNCHANGED <<generated, generator, txPool, ticks, reader, listener, txs, net>>
    BY <1>5 DEF vars, sources, slices
  <2> QED
    BY <2>1 DEF TypeInv, SourcesTyped, PoolsTyped, SlicesTyped, ReadersTyped, ListenersTyped,
                NetTyped, StartedByTick, ReaderOK, ListenerOK, Transactions
<1> QED
  BY <1>1, <1>2, <1>3, <1>4, <1>5 DEF Next

\* Every variable keeps its type for any supply, capacities and number of ticks;
\* no empty set reaches handleTxTrans, which looks at its first transaction.
THEOREM TypeCorrect == Spec => []TypeOK
<1>1. Spec => []TypeInv
  BY TypeInit, TypeStep, PTL DEF Spec
<1> QED
  BY <1>1, Typed, PTL

----------------------------------------------------------------------------
(* Identities are not starved by keys.                                     *)

\* The readers that have received their transaction.
Served(c) == {k \in Ticks : reader[c][k].pc \notin {"idle", "read"}}

\* What was generated is in the channel or with one reader each.
Accounted == \A c \in Categories : generated[c] = Len(txPool[c]) + Cardinality(Served(c))

\* Every tick so far has started its reader of each category.
AllStarted == \A c \in Categories, k \in Ticks : k <= ticks => reader[c][k].pc # "idle"

\* At no point of a turn are keys ahead of identities, nor will they be at its end.
TurnsAlternate ==
  /\ generator.cat = "ID" =>
       generated["DynaKey"] + (Turn - generator.left) <= generated["ID"]
  /\ generator.cat = "DynaKey" =>
       generated["DynaKey"] + generator.left <= generated["ID"]

SupplyInv == Accounted /\ AllStarted /\ TurnsAlternate

LEMMA ServedCounted ==
  ASSUME NEW c \in Categories
  PROVE  /\ IsFiniteSet(Served(c)) /\ Cardinality(Served(c)) \in Nat
         /\ IsFiniteSet(Served(c)') /\ Cardinality(Served(c)') \in Nat
<1>1. IsFiniteSet(Ticks)
  BY TxTransferAssumption, FS_Interval DEF Ticks
<1>2. Served(c) \subseteq Ticks /\ Served(c)' \subseteq Ticks
  BY DEF Served, Ticks
<1> QED
  BY <1>1, <1>2, FS_Subset, FS_CardinalityType

\* What a turn of txListen does to the balance.
LEMMA TurnsStep ==
  ASSUME TypeInv, TurnsAlternate, TxListen
  PROVE  TurnsAlternate'
<1>1. /\ generated \in [Categories -> Nat] /\ Turn \in Nat /\ Turn > 0
      /\ generator \in [cat : Categories, left : 1..Turn]
  BY TxTransferAssumption DEF TypeInv, SourcesTyped
<1>2. generated' = [generated EXCEPT ![generator.cat] = @ + 1]
  BY DEF TxListen
<1>3. /\ generated["ID"] \in Nat /\ generated["DynaKey"] \in Nat
      /\ generator.left \in Nat /\ generator.left >= 1
  BY <1>1 DEF Categories
<1>4. CASE generator.cat = "ID"
  <2>1. generated'["ID"] = generated["ID"] + 1 /\ generated'["DynaKey"] = generated["DynaKey"]
    BY <1>1, <1>2, <1>4 DEF Categories
  <2>2. generated["DynaKey"] + (Turn - generator.left) <= generated["ID"]
    BY <1>4 DEF TurnsAlternate
  <2>3. CASE generator.left > 1
    <3>1. generator' = [generator EXCEPT !.left = @ - 1]
      BY <2>3 DEF TxListen
    <3>2. generator'.cat = "ID" /\ generator'.left = generator.left - 1
      BY <1>1, <1>4, <3>1
    <3> QED
      BY <1>1, <1>3, <2>1, <2>2, <3>2 DEF TurnsAlternate
  <2>4. CASE ~(generator.left > 1)
    <3>1. PICK next \in {"ID", "DynaKey"} : generator' = [cat |-> next, left |-> Turn]
      BY <1>4, <2>4 DEF TxListen, AfterTurn
    <3>2. generator'.cat = next /\ generator'.left = Turn
      BY <3>1
    <3>3. generator.left = 1
      BY <1>3, <2>4
    <3> QED
      BY <1>1, <1>3, <2>1, <2>2, <3>2, <3>3 DEF TurnsAlternate
  <2> QED
    BY <2>3, <2>4
<1>5. CASE generator.cat = "DynaKey"
  <2>1. generated'["DynaKey"] = generated["DynaKey"] + 1 /\ generated'["ID"] = generated["ID"]
    BY <1>1, <1>2, <1>5 DEF Categories
  <2>2. generated["DynaKey"] + generator.left <= generated["ID"]
    BY <1>5 DEF TurnsAlternate
  <2>3. CASE generator.left > 1
    <3>1. generator' = [generator EXCEPT !.left = @ - 1]
      BY <2>3 DEF TxListen
    <3>2. generator'.cat = "DynaKey" /\ generator'.left = generator.left - 1
      BY <1>1, <1>5, <3>1
    <3> QED
      BY <1>1, <1>3, <2>1, <2>2, <3>2 DEF TurnsAlternate
  <2>4. CASE ~(generator.left > 1)
    <3>1. generator'.cat = "ID" /\ generator'.left = Turn
      BY <1>5, <2>4 DEF TxListen, AfterTurn
    <3>2. generator.left = 1
      BY <1>3, <2>4
    <3> QED
      BY <1>1, <1>3, <2>1, <2>2, <3>1, <3>2 DEF TurnsAlternate
  <2> QED
    BY <2>3, <2>4
<1> QED
  BY <1>1, <1>4, <1>5 DEF Categories

\* A step that neither generates nor receives, and stops no reader.
LEMMA SupplyKept ==
  ASSUME SupplyInv, UNCHANGED <<generated, generator, txPool>>, AllStarted',
         \A c \in Categories : Served(c)' = Served(c)
  PROVE  SupplyInv'
<1>1. Accounted'
  BY DEF SupplyInv, Accounted
<1>2. TurnsAlternate'
  BY DEF SupplyInv, TurnsAlternate
<1> QED
  BY <1>1, <1>2 DEF SupplyInv

\* A reader past its receive goes on, and no tick fires.
LEMMA SupplyGoesOn ==
  ASSUME TypeInv, SupplyInv, UNCHANGED <<generated, generator, txPool, ticks>>,
         NEW c \in Categories, NEW k \in Ticks, NEW r,
         reader[c][k].pc \notin {"idle", "read"}, r.pc \notin {"idle", "read"},
         reader' = [reader EXCEPT ![c][k] = r]
  PROVE  SupplyInv'
<1>1. \A b \in Categories, j \in Ticks :
        reader'[b][j] = IF b = c /\ j = k THEN r ELSE reader[b][j]
  BY DEF TypeInv, ReadersTyped
<1>2. \A b \in Categories : Served(b)' = Served(b)
  BY <1>1 DEF Served
<1>3. AllStarted'
  BY <1>1 DEF SupplyInv, AllStarted
<1> QED
  BY <1>2, <1>3, SupplyKept

LEMMA SupplyTxListen ==
  ASSUME TypeInv, SupplyInv, TxListen
  PROVE  SupplyInv'
<1> DEFINE c == generator.cat
           tx == Supply[c][generated[c] + 1]
<1>1. /\ generated' = [generated EXCEPT ![c] = @ + 1]
      /\ txPool' = [txPool EXCEPT ![c] = Append(txPool[c], tx)]
      /\ UNCHANGED <<ticks, reader>>
  BY DEF TxListen, TypeInv, PoolsTyped, slices
<1>2. /\ generated \in [Categories -> Nat] /\ txPool \in [Categories -> Seq(Nat)]
      /\ c \in Categories
  BY DEF TypeInv, SourcesTyped, PoolsTyped
<1>3. tx \in Nat
  <2>1. generated[c] + 1 \in 1..Len(Supply[c])
    BY <1>2, TransactionsAreNumbers DEF TxListen
  <2> QED
    BY <1>2, <2>1, TransactionsAreNumbers
<1> HIDE DEF c, tx
<1>4. Len(Append(txPool[c], tx)) = Len(txPool[c]) + 1 /\ Len(txPool[c]) \in Nat
  BY <1>2, <1>3, Appended
<1>5. Accounted'
  <2> SUFFICES ASSUME NEW b \in Categories
               PROVE  generated'[b] = Len(txPool'[b]) + Cardinality(Served(b)')
    BY DEF Accounted
  <2>1. Served(b)' = Served(b) /\ Cardinality(Served(b)) \in Nat
    BY <1>1, ServedCounted DEF Served
  <2>2. generated[b] = Len(txPool[b]) + Cardinality(Served(b)) /\ generated[b] \in Nat
    BY <1>2 DEF SupplyInv, Accounted
  <2>3. CASE b = c
    <3>1. generated'[b] = generated[b] + 1 /\ Len(txPool'[b]) = Len(txPool[b]) + 1
      BY <1>1, <1>2, <1>4, <2>3
    <3> QED
      BY <1>4, <2>1, <2>2, <2>3, <3>1
  <2>4. CASE b # c
    <3>1. generated'[b] = generated[b] /\ txPool'[b] = txPool[b]
      BY <1>1, <1>2, <2>4
    <3> QED
      BY <2>1, <2>2, <3>1
  <2> QED
    BY <2>3, <2>4
<1>6. AllStarted'
  BY <1>1 DEF SupplyInv, AllStarted
<1>7. TurnsAlternate'
  BY TurnsStep DEF SupplyInv
<1> QED
  BY <1>5, <1>6, <1>7 DEF SupplyInv

LEMMA SupplyReadPool ==
  ASSUME TypeInv, SupplyInv, NEW c \in Categories, NEW k \in Ticks, ReadPool(c, k)
  PROVE  SupplyInv'
<1>1. /\ reader[c][k].pc = "read" /\ txPool[c] # << >>
      /\ txPool' = [txPool EXCEPT ![c] = Tail(@)]
      /\ UNCHANGED <<generated, generator, ticks>>
  BY DEF ReadPool
<1>2. /\ generated \in [Categories -> Nat] /\ txPool \in [Categories -> Seq(Nat)]
      /\ reader \in [Categories -> [Ticks -> [pc : ReaderPCs, tx : Nat, seen : Seq(Nat)]]]
  BY DEF TypeInv, SourcesTyped, PoolsTyped, ReadersTyped
<1>3. /\ reader'[c][k].pc = "load"
      /\ \A b \in Categories, j \in Ticks : ~(b = c /\ j = k) => reader'[b][j] = reader[b][j]
  BY <1>2 DEF ReadPool
<1>4. Len(Tail(txPool[c])) = Len(txPool[c]) - 1 /\ Len(txPool[c]) \in Nat
  BY <1>1, <1>2, Received
<1>5. Accounted'
  <2> SUFFICES ASSUME NEW b \in Categories
               PROVE  generated'[b] = Len(txPool'[b]) + Cardinality(Served(b)')
    BY DEF Accounted
  <2>1. generated[b] = Len(txPool[b]) + Cardinality(Served(b)) /\ generated[b] \in Nat
    BY <1>2 DEF SupplyInv, Accounted
  <2>2. CASE b = c
    <3>1. k \notin Served(c) /\ Served(c)' = Served(c) \cup {k}
      BY <1>1, <1>3 DEF Served
    <3>2. Cardinality(Served(c)') = Cardinality(Served(c)) + 1 /\ Cardinality(Served(c)) \in Nat
      BY <3>1, ServedCounted, FS_AddElement
    <3>3. Len(txPool'[c]) = Len(txPool[c]) - 1
      BY <1>1, <1>2, <1>4
    <3> QED
      BY <1>1, <1>4, <2>1, <2>2, <3>2, <3>3
  <2>3. CASE b # c
    <3>1. Served(b)' = Served(b)
      BY <1>3, <2>3 DEF Served
    <3>2. txPool'[b] = txPool[b]
      BY <1>1, <1>2, <2>3
    <3> QED
      BY <1>1, <2>1, <3>1, <3>2
  <2> QED
    BY <2>2, <2>3
<1>6. AllStarted'
  BY <1>1, <1>3 DEF SupplyInv, AllStarted
<1>7. TurnsAlternate'
  BY <1>1 DEF SupplyInv, TurnsAlternate
<1> QED
  BY <1>5, <1>6, <1>7 DEF SupplyInv

LEMMA SupplyTick ==
  ASSUME TypeInv, SupplyInv, Tick
  PROVE  SupplyInv'
<1> DEFINE k == ticks + 1
<1>1. /\ k \in Ticks /\ k > ticks /\ ticks' = k /\ ticks \in Nat
      /\ reader' = [c \in Categories |-> [reader[c] EXCEPT ![k].pc = "read"]]
      /\ UNCHANGED <<generated, generator, txPool>>
  BY TxTransferAssumption DEF Tick, TypeInv, SourcesTyped, Ticks, sources
<1>2. \A c \in Categories : /\ reader[c] \in [Ticks -> [pc : ReaderPCs, tx : Nat, seen : Seq(Nat)]]
                             /\ reader[c][k].pc = "idle"
  BY <1>1 DEF TypeInv, ReadersTyped, StartedByTick
<1>3. \A j \in Ticks : j <= k => j <= ticks \/ j = k
  BY <1>1 DEF Ticks
<1> HIDE DEF k
<1>4. \A c \in Categories : /\ reader'[c][k].pc = "read"
                             /\ \A j \in Ticks : j # k => reader'[c][j] = reader[c][j]
  BY <1>1, <1>2
<1>5. \A c \in Categories : Served(c)' = Served(c)
  BY <1>2, <1>4 DEF Served
<1>6. AllStarted'
  BY <1>1, <1>3, <1>4 DEF SupplyInv, AllStarted
<1> QED
  BY <1>1, <1>5, <1>6, SupplyKept

LEMMA SupplyStep == TypeInv /\ SupplyInv /\ [Next]_vars => SupplyInv'
<1> SUFFICES ASSUME TypeInv, SupplyInv, [Next]_vars PROVE SupplyInv'
  OBVIOUS
<1>1. CASE TxListen
  BY <1>1, SupplyTxListen
<1>2. CASE Tick
  BY <1>2, SupplyTick
<1>3. ASSUME NEW c \in Categories, NEW k \in Ticks, Reader(c, k) PROVE SupplyInv'
  <2>1. CASE ReadPool(c, k)
    BY <2>1, SupplyReadPool
  <2>2. CASE AppendTx(c, k)
    <3>1. /\ reader[c][k].pc \notin {"idle", "read"}
          /\ UNCHANGED <<generated, generator, txPool, ticks>>
      BY <2>2 DEF AppendTx, LoadSlice, StoreSlice, TestSlice, sources
    <3>2. reader[c][k] \in [pc : ReaderPCs, tx : Nat, seen : Seq(Nat)]
      BY DEF TypeInv, ReadersTyped
    <3>3. reader'[c][k].pc \notin {"idle", "read"}
      BY <2>2, <3>2 DEF AppendTx, LoadSlice, StoreSlice, TestSlice, TypeInv, ReadersTyped
    <3>4. reader' = [reader EXCEPT ![c][k] = reader'[c][k]]
      BY <2>2, <3>2 DEF AppendTx, LoadSlice, StoreSlice, TestSlice, TypeInv, ReadersTyped
    <3> QED
      BY <3>1, <3>3, <3>4, SupplyGoesOn
  <2> QED
    BY <1>3, <2>1, <2>2 DEF Reader
<1>4. ASSUME NEW k \in Ticks, SelectReady(k) PROVE SupplyInv'
  <2>1. PICK c \in Categories, j \in Ticks :
          reader[c][j].pc = "ready" /\ reader' = [reader EXCEPT ![c][j].pc = "load"]
    BY <1>4 DEF SelectReady
  <2> DEFINE r == [reader[c][j] EXCEPT !.pc = "load"]
  <2>2. reader' = [reader EXCEPT ![c][j] = r] /\ r.pc = "load"
    BY <2>1 DEF TypeInv, ReadersTyped
  <2>3. UNCHANGED <<generated, generator, txPool, ticks>>
    BY <1>4 DEF SelectReady, sources
  <2> HIDE DEF r
  <2> QED
    BY <2>1, <2>2, <2>3, SupplyGoesOn
<1>5. CASE UNCHANGED <<generated, generator, txPool, ticks, reader>>
  BY <1>5, SupplyKept DEF SupplyInv, AllStarted, Served
<1>6. ASSUME NEW k \in Ticks, Listener(k), ~SelectReady(k) PROVE SupplyInv'
  BY <1>5, <1>6 DEF Listener, SelectDefault, DialLeader, HandOver, ClearSlice, sources
<1>7. CASE UNCHANGED vars
  BY <1>5, <1>7 DEF vars, sources, slices
<1> QED
  BY <1>1, <1>2, <1>3, <1>4, <1>6, <1>7 DEF Next

LEMMA SupplyInit == Init => SupplyInv
<1> SUFFICES ASSUME Init PROVE SupplyInv
  OBVIOUS
<1>1. \A c \in Categories :
        /\ generated[c] = 0 /\ txPool[c] = << >>
        /\ \A k \in Ticks : reader[c][k].pc = "idle"
  BY DEF Init, Idle
<1>2. Accounted
  <2>1. \A c \in Categories : Served(c) = {}
    BY <1>1 DEF Served
  <2>2. Cardinality({}) = 0 /\ Len(<< >>) = 0
    BY FS_EmptySet, Empty
  <2>3. \A c \in Categories : /\ generated[c] = 0 /\ Len(txPool[c]) = 0
                             /\ Cardinality(Served(c)) = 0
    BY <1>1, <2>1, <2>2, Zenon
  <2> QED
    BY <2>3 DEF Accounted
<1>3. AllStarted
  BY TxTransferAssumption DEF Init, AllStarted, Ticks
<1>4. TurnsAlternate
  BY TxTransferAssumption DEF Init, FirstTurn, TurnsAlternate, Categories
<1> QED
  BY <1>2, <1>3, <1>4 DEF SupplyInv

\* If no reader of keys is left in its receive, every tick's has had its key, and
\* the full channel holds more: more keys than ticks.  There are as many
\* identities, so with at most one for each tick's reader some are in the channel.
LEMMA NotStarved == TypeInv /\ SupplyInv => IdsAreNotStarved
<1> SUFFICES ASSUME TypeInv, SupplyInv,
                    ~HasSpace("DynaKey"), txPool["ID"] = << >>,
                    \A k \in Ticks : reader["DynaKey"][k].pc # "read"
             PROVE  FALSE
  BY DEF IdsAreNotStarved
<1>1. /\ generated["ID"] \in Nat /\ generated["DynaKey"] \in Nat
      /\ generator \in [cat : Categories, left : 1..Turn]
      /\ ticks \in 0..MaxTicks /\ MaxTicks \in Nat /\ Turn \in Nat
      /\ "ID" \in Categories /\ "DynaKey" \in Categories
  BY TxTransferAssumption DEF TypeInv, SourcesTyped, Categories
<1>2. generated["DynaKey"] <= generated["ID"]
  BY <1>1 DEF SupplyInv, TurnsAlternate, Categories
<1>3. /\ 1..ticks \subseteq Ticks /\ IsFiniteSet(1..ticks) /\ Cardinality(1..ticks) = ticks
      /\ ticks \in Nat
  <2>1. ticks \in Nat /\ ticks <= MaxTicks
    BY <1>1
  <2>2. 1..ticks \subseteq 1..MaxTicks
    BY <1>1, <2>1
  <2> QED
    BY <2>1, <2>2, FS_Interval DEF Ticks
<1>4. 1..ticks \subseteq Served("DynaKey")
  BY <1>1, <1>3 DEF Served, SupplyInv, AllStarted
<1>5. Served("ID") \subseteq 1..ticks
  <2>1. \A k \in Ticks : k \in Nat /\ k >= 1
    BY <1>1 DEF Ticks
  <2>2. \A k \in Served("ID") : k \in Ticks /\ ~(k > ticks)
    BY <1>1 DEF Served, TypeInv, StartedByTick
  <2> QED
    BY <1>3, <2>1, <2>2
<1>6. ticks <= Cardinality(Served("DynaKey"))
  BY <1>1, <1>3, <1>4, ServedCounted, FS_Subset
<1>7. Cardinality(Served("ID")) <= ticks
  BY <1>3, <1>5, FS_Subset
<1>8. Len(txPool["DynaKey"]) \in Nat /\ Len(txPool["DynaKey"]) >= 1
  <2>1. PoolCap["DynaKey"] \in Nat /\ PoolCap["DynaKey"] >= 1
    BY <1>1, TxTransferAssumption
  <2>2. Len(txPool["DynaKey"]) \in Nat
    BY <1>1 DEF TypeInv, PoolsTyped
  <2> QED
    BY <2>1, <2>2 DEF HasSpace
<1>9. /\ generated["DynaKey"] = Len(txPool["DynaKey"]) + Cardinality(Served("DynaKey"))
      /\ generated["ID"] = Cardinality(Served("ID"))
      /\ Cardinality(Served("ID")) \in Nat /\ Cardinality(Served("DynaKey")) \in Nat
  <2>1. Len(txPool["ID"]) = 0
    BY Empty
  <2> QED
    BY <1>1, <2>1, ServedCounted DEF SupplyInv, Accounted
<1> QED
  BY <1>1, <1>2, <1>3, <1>6, <1>7, <1>8, <1>9

\* The full channel of keys never stops the generator with no identity in stock and
\* nobody about to take a key: for any capacities, turns and number of ticks.
THEOREM IdsNeverStarve == Spec => []IdsAreNotStarved
<1>1. Spec => [](TypeInv /\ SupplyInv)
  BY TypeInit, TypeStep, SupplyInit, SupplyStep, PTL DEF Spec
<1> QED
  BY <1>1, NotStarved, PTL

===============================================================================
