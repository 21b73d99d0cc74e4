---------------------------- MODULE MCChainSync ----------------------------
EXTENDS ChainSync, MCTree

MCPath == [p \in Point |-> IF p = Origin THEN <<>> ELSE Tree[p]]
MCSlotOf == [p \in Point |-> IF p = Origin THEN 0 ELSE Slots[p]]
MCTxsOf == [p \in Block |-> Txs[p]]
=============================================================================
