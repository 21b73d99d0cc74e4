--------------------------- MODULE MCIndexWriters ---------------------------
(* t1 creates a and b, t2 spends a and creates c, t3 spends b and a (in    *)
(* that order) and creates d.  The ledger applies with a slot, the mempool *)
(* with none.                                                              *)
EXTENDS IndexWriters, TLC

CONSTANTS t1, t2, t3, a, b, c, d, pay, ledger, mempool, u1, q1

MCInSeq == t1 :> <<>> @@ t2 :> <<a>> @@ t3 :> <<b, a>>
MCOutSeq == t1 :> <<a, b>> @@ t2 :> <<c>> @@ t3 :> <<d>>
MCTxIn == t1 :> {} @@ t2 :> {a} @@ t3 :> {a, b}
MCTxOut == t1 :> {a, b} @@ t2 :> {c} @@ t3 :> {d}
MCScopesOf == a :> {pay} @@ b :> {} @@ c :> {} @@ d :> {pay}
MCUnitsOf == [r \in Ref |-> IF r = a THEN Unit ELSE {}]
MCUnder == [u \in Unit |-> {u}]
MCSlotsOf == [w \in Writer |-> IF w = mempool THEN {None} ELSE Slot]
=============================================================================
