------------------------------ MODULE MCMonitor ------------------------------
(* t1 creates a (its own inputs are not in the index); t2 spends a (a      *)
(* chained transaction); t3 spends a as well (a conflicting one).  A block *)
(* has one of t1 and t3, or t1 and t2.                                     *)
EXTENDS Monitor

CONSTANTS t1, t2, t3, a, b

Ins == t1 :> {} @@ t2 :> {a} @@ t3 :> {a}
Outs == t1 :> {a} @@ t2 :> {b} @@ t3 :> {}
MCBlocks == {<<t1>>, <<t3>>, <<t1, t2>>}
MCInSeq == [t \in Tx |-> SetToSeq(Ins[t])]
MCOutSeq == [t \in Tx |-> SetToSeq(Outs[t])]
MCSlotsOf == (Ledger :> Slot) @@ (Mempool :> {None})
MCTxIn == [t \in Tx |-> Ins[t]]
MCTxOut == [t \in Tx |-> Outs[t]]
Empty == [r \in Ref |-> {}]
NoUnits == <<>>

ASSUME TwoTasks
=============================================================================
