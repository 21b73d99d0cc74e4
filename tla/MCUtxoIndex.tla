---------------------------- MODULE MCUtxoIndex ----------------------------
(* Three transactions: t1 spends an output g and creates a; t2 and t3 both *)
(* spend a (a chained spend and a conflicting one).  a is a Base address   *)
(* output with one unit, b an Enterprise one with a second unit whose name *)
(* extends the first, c a Byron one without credentials.                   *)
EXTENDS UtxoIndex, TLC

CONSTANTS t1, t2, t3, a, b, c, g, pay, stake, policy, asset, q1

MCTxIn == t1 :> {g} @@ t2 :> {a} @@ t3 :> {a, b}
MCTxOut == t1 :> {a} @@ t2 :> {b} @@ t3 :> {c}
MCScopesOf == a :> {pay, stake} @@ b :> {pay} @@ c :> {} @@ g :> {stake}
MCUnitsOf == a :> {policy} @@ b :> {policy, asset} @@ c :> {asset} @@ g :> {}
MCUnder == policy :> {policy, asset} @@ asset :> {asset}
=============================================================================
