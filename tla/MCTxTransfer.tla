---------------------------- MODULE MCTxTransfer -----------------------------
(* Instances of TxTransfer for TLC.  Where the question is when readers and *)
(* listeners run and not what they handle, all transactions are alike.      *)
EXTENDS TxTransfer

TwoIDs   == [ID |-> <<1, 2>>, DynaKey |-> << >>]
AlikeTxs == [ID |-> <<1, 1>>, DynaKey |-> <<1>>]
Capacity == [ID |-> 2, DynaKey |-> 1]

=============================================================================
