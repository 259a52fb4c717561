-------------------------------- MODULE World ---------------------------------
(***************************************************************************)
(* The world status the client makes when it starts (WorldStatus.go): each *)
(* node has resources, one unit per device, that are idle, for sale or     *)
(* reserved for a transaction.  A batch of transactions is either executed *)
(* at once (UpdateState) or in two steps: UpdateByP reserves what can be   *)
(* reserved and returns those transactions, UpdateStateP settles them.     *)
(* Nothing calls these methods yet but InitNode; the module says what they *)
(* promise a caller that follows GenNewTxFromF1.                           *)
(***************************************************************************)
EXTENDS Integers, SequencesExt

CONSTANTS
  Accounts,   \* the keys of the records
  Keep,       \* what stays idle: 50 in the code
  Devices,    \* devices of a node, one unit of energy each: 90 to 99
  MaxAmount,  \* bound: units of a transaction
  MaxBatch,   \* bound: transactions of a batch
  MaxCalls    \* bound: batches

ASSUME WorldAssumption ==
  /\ IsFiniteSet(Accounts)
  /\ Keep \in Nat
  /\ Devices \in Nat /\ Devices >= Keep
  /\ {MaxAmount, MaxBatch, MaxCalls} \subseteq Nat \ {0}

VARIABLES
  res,        \* Resources of each record
  reserved,   \* the lists UpdateByP returned and that were not settled yet
  txSuccess,
  txFail,
  calls       \* batches so far

worldVars == <<res, reserved, txSuccess, txFail, calls>>

\* GenNewTxFromF1: two different records and a positive amount.  After fifty
\* attempts it no longer looks whether the seller has that much.
TxTest == {t \in [seller : Accounts, buyer : Accounts, amount : 1..MaxAmount] :
             t.seller # t.buyer}

Batches == BoundedSeq(TxTest, MaxBatch) \ {<< >>}

\* GenResource.
WorldInit ==
  /\ res = [a \in Accounts |->
             [idle |-> Keep, sell |-> Devices - Keep, tradingS |-> 0, tradingB |-> 0]]
  /\ reserved = {}
  /\ txSuccess = 0
  /\ txFail = 0
  /\ calls = 0

\* What a loop over a batch carries along: the resources, the counters and the
\* transactions reserved.
Now == [res |-> res, success |-> txSuccess, fail |-> txFail, list |-> << >>]

Fails(w) == [w EXCEPT !.fail = @ + 1]

\* Mutant: the buyer's reservation is made before the seller is looked at.
Reserve_BuyerFirst(w, t) ==
  LET b == [w EXCEPT !.res[t.buyer].tradingB = @ + t.amount]
  IN  IF t.amount > w.res[t.seller].sell
        THEN Fails(b)
        ELSE [b EXCEPT !.res[t.seller].sell = @ - t.amount,
                       !.res[t.seller].tradingS = @ + t.amount,
                       !.list = Append(@, t)]

\* UpdateByP, for one transaction.
Reserve(w, t) ==
  IF t.amount > w.res[t.seller].sell
    THEN Fails(w)
    ELSE [w EXCEPT !.res[t.seller].sell = @ - t.amount,
                   !.res[t.seller].tradingS = @ + t.amount,
                   !.res[t.buyer].tradingB = @ + t.amount,
                   !.list = Append(@, t)]

\* UpdateStateP, for one transaction.
Settle(w, t) ==
  IF w.res[t.seller].tradingS < t.amount \/ w.res[t.buyer].tradingB < t.amount
    THEN Fails(w)
    ELSE [w EXCEPT !.res[t.seller].tradingS = @ - t.amount,
                   !.res[t.buyer].tradingB = @ - t.amount,
                   !.res[t.buyer].idle = @ + t.amount,
                   !.success = @ + 1]

\* UpdateState, for one transaction.
Execute(w, t) ==
  IF w.res[t.seller].sell < t.amount
    THEN Fails(w)
    ELSE [w EXCEPT !.res[t.seller].sell = @ - t.amount,
                   !.res[t.buyer].idle = @ + t.amount,
                   !.success = @ + 1]

Handle(method, w, t) ==
  CASE method = "UpdateByP"    -> Reserve(w, t)
    [] method = "UpdateStateP" -> Settle(w, t)
    [] method = "UpdateState"  -> Execute(w, t)

\* The loop of a method over a batch.
Loop(method, txs) == FoldLeft(LAMBDA w, t : Handle(method, w, t), Now, txs)

Becomes(w) ==
  /\ res' = w.res
  /\ txSuccess' = w.success
  /\ txFail' = w.fail

UpdateByP(txs) ==
  LET w == Loop("UpdateByP", txs)
  IN  /\ calls < MaxCalls
      /\ calls' = calls + 1
      /\ Becomes(w)
      /\ reserved' = reserved \cup {[call |-> calls, list |-> w.list]}

\* Batches may be settled in any order.
UpdateStateP(r) ==
  /\ Becomes(Loop("UpdateStateP", r.list))
  /\ reserved' = reserved \ {r}
  /\ UNCHANGED calls

UpdateState(txs) ==
  /\ calls < MaxCalls
  /\ calls' = calls + 1
  /\ Becomes(Loop("UpdateState", txs))
  /\ UNCHANGED reserved

\* Mutant: what exceeds the reserve is put on sale and stays idle.
Offered_Twice(r) ==
  IF r.idle > Keep THEN [r EXCEPT !.sell = @ + r.idle - Keep] ELSE r

\* UpdateRes, for one record.
Offered(r) ==
  IF r.idle > Keep THEN [r EXCEPT !.sell = @ + r.idle - Keep, !.idle = Keep] ELSE r

UpdateRes ==
  /\ res' = [a \in Accounts |-> Offered(res[a])]
  /\ UNCHANGED <<reserved, txSuccess, txFail, calls>>

WorldNext ==
  \/ \E txs \in Batches : UpdateByP(txs) \/ UpdateState(txs)
  \/ \E r \in reserved : UpdateStateP(r)
  \/ UpdateRes

WorldSpec == WorldInit /\ [][WorldNext]_worldVars

----------------------------------------------------------------------------
(* Properties.                                                             *)

\* What the transactions of a list amount to for account a, in one role.
Amounts(list, a, role) ==
  [i \in DOMAIN list |-> IF list[i][role] = a THEN list[i].amount ELSE 0]

\* What the unsettled transactions of account a amount to, in one role.
Due(a, role) == SumFunction([r \in reserved |-> SumFunction(Amounts(r.list, a, role))])

Units(a) == res[a].idle + res[a].sell + res[a].tradingS

\* Units are neither made nor lost, and nobody has less than nothing, whatever
\* batches are executed, reserved and settled in whatever order.
UnitsConserved ==
  /\ SumFunction([a \in Accounts |-> Units(a)]) = Devices * Cardinality(Accounts)
  /\ \A a \in Accounts, k \in {"idle", "sell", "tradingS", "tradingB"} : res[a][k] >= 0

\* Both sides of every reservation are there until it is settled, also when a
\* transaction of its batch failed: so what UpdateByP returned, UpdateStateP
\* settles, and counts no failure.
ReservationsBacked ==
  \A a \in Accounts :
    /\ res[a].tradingS = Due(a, "seller")
    /\ res[a].tradingB = Due(a, "buyer")

=============================================================================
