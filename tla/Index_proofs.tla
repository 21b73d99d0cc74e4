----------------------------- MODULE Index_proofs -----------------------------
(***************************************************************************)
(* Theorems about the UTXO index: first of UtxoIndex, where a call is one  *)
(* step, for every set of transactions, outputs, credentials, units and    *)
(* slots; then of IndexWriters, for every number of writers and every      *)
(* interleaving of their calls; then of Monitor, for every chain, mempool  *)
(* and order in which the tasks of the process write to it.                *)
(***************************************************************************)
EXTENDS IndexWriters, Monitor, FiniteSetTheorems, TLAPS

-----------------------------------------------------------------------------
(* Atomic calls: the specification of UtxoIndex.                           *)

USE DEF Txo, SlotOpt, Key, Stored

LEMMA KeyType == \A s \in SlotOpt : SlotKey(s) \in Key
  BY SlotAssumption DEF SlotKey

LEMMA RowTypes ==
  ASSUME NEW R \in SUBSET Ref, NEW s \in SlotOpt
  PROVE  /\ EventRows(R, s) \subseteq Scope \X Key \X Ref
         /\ SettledRows(R) \subseteq Scope \X Key \X Ref
         /\ ScopeRows(R) \subseteq Scope \X Ref
         /\ UnitRows(R) \subseteq Unit \X Ref
         /\ UnitsIn(R) \subseteq Unit
  BY DEF EventRows, SettledRows, ScopeRows, UnitRows, UnitsIn

(* Every call of the index, and every step of a reader's query, keeps the  *)
(* tables well formed.                                                     *)
LEMMA NextKeepsTypes == ASSUME TypeOK, [Next]_vars PROVE TypeOK'
<1> USE SlotAssumption, TxAssumption, OutputAssumption, AbsentAssumption
<1>1. ASSUME NEW t \in Tx, NEW s \in SlotOpt, Apply(t, s) PROVE TypeOK'
  <2> DEFINE ins == TxIn[t] \cap Live
             outs == TxOut[t]
             fresh == {r \in outs : r \in Live => ~txo[r].spent}
  <2>1. txo' \in [Ref -> Txo \cup {Absent}]
    BY <1>1 DEF TypeOK, Apply, Rewrite, NotSpent, Live
  <2>2. /\ ins \cup outs \in SUBSET Ref
        /\ ins \in SUBSET Ref
        /\ fresh \in SUBSET Ref
    BY DEF Live
  <2>3. events' \subseteq Scope \X Key \X Ref
    BY <1>1, <2>2, RowTypes DEF TypeOK, Apply, Rewrite, NotSpent
  <2>4. unspent' \subseteq Scope \X Ref /\ units' \subseteq Unit \X Ref
    BY <1>1, <2>2, RowTypes DEF TypeOK, Apply, Rewrite, NotSpent
  <2>5. sentinel' \subseteq Unit /\ query' \in [Reader -> QueryState]
    BY <1>1 DEF TypeOK, Apply, Rewrite, NotSpent
  <2> QED BY <2>1, <2>3, <2>4, <2>5 DEF TypeOK
<1>2. ASSUME NEW t \in Tx, Unapply(t) PROVE TypeOK'
  <2>1. txo' \in [Ref -> Txo \cup {Absent}]
    BY <1>2 DEF TypeOK, Unapply, Rewrite, Live
  <2>2. TxIn[t] \cap Live \in SUBSET Ref
    BY DEF Live
  <2>3. events' \subseteq Scope \X Key \X Ref
    BY <1>2, <2>2, RowTypes DEF TypeOK, Unapply, Rewrite
  <2>4. unspent' \subseteq Scope \X Ref /\ units' \subseteq Unit \X Ref
    BY <1>2, <2>2, RowTypes DEF TypeOK, Unapply, Rewrite
  <2>5. sentinel' \subseteq Unit /\ query' \in [Reader -> QueryState]
    BY <1>2 DEF TypeOK, Unapply, Rewrite
  <2> QED BY <2>1, <2>3, <2>4, <2>5 DEF TypeOK
<1>3. ASSUME NEW q \in Reader, NEW u \in Unit, EnsureCheck(q, u) PROVE TypeOK'
  BY <1>3 DEF TypeOK, EnsureCheck, QueryState, Idle
<1>4. ASSUME NEW q \in Reader, EnsureScan(q) PROVE TypeOK'
  <2>1. query[q].unit \in Unit
    BY <1>4 DEF TypeOK, EnsureScan, QueryState, Idle
  <2>2. {query[q].unit} \X {r \in Unspent : query[q].unit \in UnitsOf[r]} \in SUBSET (Unit \X Ref)
    BY <2>1 DEF Unspent, Live
  <2> QED BY <1>4, <2>1, <2>2 DEF TypeOK, EnsureScan, QueryState
<1>5. ASSUME NEW q \in Reader, EnsureCommit(q) PROVE TypeOK'
  <2>1. query[q].unit \in Unit /\ query[q].found \subseteq Unit \X Ref
    BY <1>5 DEF TypeOK, EnsureCommit, QueryState, Idle
  <2> QED BY <1>5, <2>1 DEF TypeOK, EnsureCommit, QueryState
<1>6. ASSUME NEW q \in Reader, Answer(q) PROVE TypeOK'
  BY <1>6 DEF TypeOK, Answer, QueryState
<1>7. CASE UNCHANGED vars
  BY <1>7 DEF TypeOK, vars
<1> QED BY <1>1, <1>2, <1>3, <1>4, <1>5, <1>6, <1>7 DEF Next

(* A database is well formed when it is opened, one from before the unit   *)
(* table included.                                                         *)
LEMMA InitTypes == ASSUME Init PROVE TypeOK
<1> USE SlotAssumption, OutputAssumption, AbsentAssumption
<1> SUFFICES ASSUME NEW old \in SUBSET LegacyRefs, NEW s \in Slot,
                    txo = [r \in Ref |-> IF r \in old THEN [settled |-> s, spent |-> FALSE]
                                                      ELSE Absent],
                    events = EventRows(old, s), unspent = ScopeRows(old),
                    units = {}, sentinel = {}, query = [q \in Reader |-> Idle]
             PROVE  TypeOK
  BY DEF Init
<1>1. old \in SUBSET Ref OBVIOUS
<1> QED BY <1>1, RowTypes DEF TypeOK, QueryState, Idle

(* The index keeps its tables well formed whatever is applied and          *)
(* unapplied, and each reader's query follows its own states.              *)
THEOREM Typed == Spec => []TypeOK
<1>1. Init => TypeOK
  BY InitTypes
<1>2. TypeOK /\ [Next]_vars => TypeOK'
  BY NextKeepsTypes
<1> QED BY <1>1, <1>2, PTL DEF Spec

-----------------------------------------------------------------------------
(* What apply and unapply do to the set of unspent outputs.                *)

LEMMA ApplyUnspent ==
  ASSUME TypeOK, NEW t \in Tx, NEW s \in SlotOpt, Apply(t, s)
  PROVE  LET ins == TxIn[t] \cap Live
             outs == TxOut[t]
             known == ins \cup (outs \cap Live)
             fresh == {r \in outs : r \in Live => ~txo[r].spent}
         IN  /\ Live' = Live \cup outs
             /\ Unspent' = (Unspent \ known) \cup fresh
             /\ \A r \in fresh : txo'[r].settled = s
             /\ \A r \in Ref \ (ins \cup outs) : txo'[r] = txo[r]
<1> DEFINE ins == TxIn[t] \cap Live
           outs == TxOut[t]
           known == ins \cup (outs \cap Live)
           fresh == {r \in outs : r \in Live => ~txo[r].spent}
<1> USE TxAssumption, AbsentAssumption
<1>1. ins \cap outs = {} /\ outs \subseteq Ref /\ ins \subseteq Ref
  BY DEF Live
<1>2. \A r \in ins : txo'[r] = [txo[r] EXCEPT !.spent = TRUE]
  BY DEF Apply, Rewrite, NotSpent, Live
<1>3. /\ \A r \in fresh : txo'[r] = [settled |-> s, spent |-> FALSE]
      /\ \A r \in outs \ fresh : txo'[r] = [settled |-> s, spent |-> TRUE]
  <2>1. fresh \subseteq outs
    OBVIOUS
  <2> HIDE DEF fresh
  <2>2. \A r \in outs : txo'[r] = [settled |-> s, spent |-> r \notin fresh]
    BY <1>1 DEF Apply, Rewrite, NotSpent, Live, fresh
  <2> QED BY <2>1, <2>2
<1>4. \A r \in Ref \ (ins \cup outs) : txo'[r] = txo[r]
  BY DEF Apply, Rewrite, NotSpent, Live
<1>5. \A r \in ins : txo[r] \in Txo /\ txo'[r] # Absent /\ txo'[r].spent
  <2> SUFFICES ASSUME NEW r \in ins
               PROVE  txo[r] \in Txo /\ txo'[r] # Absent /\ txo'[r].spent
    OBVIOUS
  <2>1. txo[r] \in Txo
    BY DEF TypeOK, Live
  <2>2. txo'[r] \in Txo /\ txo'[r].spent = TRUE
    BY <1>2, <2>1
  <2> QED BY <2>1, <2>2
<1>6. \A r \in outs : /\ txo'[r] # Absent
                      /\ txo'[r].settled = s
                      /\ txo'[r].spent <=> r \notin fresh
  <2>1. \A r \in outs : txo'[r] \in Txo
    <3> HIDE DEF fresh
    <3>1. \A b \in BOOLEAN : [settled |-> s, spent |-> b] \in Txo
      OBVIOUS
    <3> QED BY <1>3, <3>1
  <2>2. \A r \in outs : txo'[r].settled = s /\ (txo'[r].spent <=> r \notin fresh)
    <3> HIDE DEF fresh
    <3> QED BY <1>3
  <2> QED BY <2>1, <2>2
<1> HIDE DEF fresh
<1>7. Live' = Live \cup outs
  BY <1>1, <1>4, <1>5, <1>6 DEF Live
<1>8. fresh \subseteq outs
  BY DEF fresh
<1>9. Unspent' = (Unspent \ known) \cup fresh
  BY <1>1, <1>4, <1>5, <1>6, <1>7, <1>8 DEF Unspent, Live
<1> QED BY <1>4, <1>6, <1>7, <1>8, <1>9 DEF fresh

LEMMA UnapplyUnspent ==
  ASSUME TypeOK, NEW t \in Tx, Unapply(t)
  PROVE  LET ins == TxIn[t] \cap Live
             gone == TxOut[t] \cap Live
         IN  /\ Live' = Live \ gone
             /\ Unspent' = (Unspent \ gone) \cup ins
             /\ \A r \in Live \ gone : txo'[r].settled = txo[r].settled
<1> DEFINE ins == TxIn[t] \cap Live
           gone == TxOut[t] \cap Live
<1> USE TxAssumption, AbsentAssumption
<1>1. ins \cap gone = {} /\ gone \subseteq Ref /\ ins \subseteq Ref /\ ins \subseteq Live
  BY DEF Live
<1>2. \A r \in ins : txo'[r] = [txo[r] EXCEPT !.spent = FALSE]
  BY <1>1 DEF Unapply, Rewrite, Live
<1>3. \A r \in gone : txo'[r] = Absent
  BY DEF Unapply, Rewrite, Live
<1>4. \A r \in Ref \ (ins \cup gone) : txo'[r] = txo[r]
  BY DEF Unapply, Rewrite, Live
<1>5. \A r \in ins : /\ txo'[r] # Absent
                     /\ ~txo'[r].spent
                     /\ txo'[r].settled = txo[r].settled
  <2> SUFFICES ASSUME NEW r \in ins
               PROVE  /\ txo'[r] # Absent /\ ~txo'[r].spent
                      /\ txo'[r].settled = txo[r].settled
    OBVIOUS
  <2>1. txo[r] \in Txo
    BY DEF TypeOK, Live
  <2>2. txo'[r] \in Txo /\ txo'[r].spent = FALSE
    BY <1>2, <2>1
  <2>3. txo'[r].settled = txo[r].settled
    BY <1>2, <2>1
  <2> QED BY <2>2, <2>3
<1>6. Live' = Live \ gone
  BY <1>1, <1>3, <1>4, <1>5 DEF Live
<1>7. Unspent' = (Unspent \ gone) \cup ins
  BY <1>1, <1>3, <1>4, <1>5, <1>6 DEF Unspent, Live
<1>8. \A r \in Live \ gone : txo'[r].settled = txo[r].settled
  BY <1>4, <1>5 DEF Live
<1> QED BY <1>6, <1>7, <1>8

-----------------------------------------------------------------------------
(* The credential tables agree with the txo table: the unspent tables list *)
(* exactly the unspent outputs, an unspent output has the event row of its *)
(* settlement slot, a spent one has some event row.  The conjunction is    *)
(* inductive as it stands, given the types.                                *)
THEOREM CredentialTablesCorrect == Spec => []CredentialTables
<1> USE SlotAssumption, TxAssumption, OutputAssumption, AbsentAssumption
<1>1. Init => CredentialTables
  <2> SUFFICES ASSUME NEW old \in SUBSET LegacyRefs, NEW s \in Slot,
                      txo = [r \in Ref |-> IF r \in old THEN [settled |-> s, spent |-> FALSE]
                                                        ELSE Absent],
                      events = EventRows(old, s), unspent = ScopeRows(old)
               PROVE  CredentialTables
    BY DEF Init
  <2>1. [settled |-> s, spent |-> FALSE] \in Txo
    OBVIOUS
  <2>2. Live = old /\ Unspent = old /\ \A r \in old : txo[r].settled = s
    BY <2>1 DEF Live, Unspent
  <2>3. SettledRows(old) = EventRows(old, s)
    BY <2>2 DEF SettledRows, EventRows
  <2>4. \A r \in old : \A c \in ScopesOf[r] : <<c, SlotKey(s), r>> \in events
    BY KeyType DEF EventRows
  <2> QED BY <2>2, <2>3, <2>4, KeyType
      DEF CredentialTables, UnspentExact, EventAtSettlement, EventReachable
<1>2. TypeOK /\ CredentialTables /\ [Next]_vars => CredentialTables'
  <2> SUFFICES ASSUME TypeOK, CredentialTables, [Next]_vars PROVE CredentialTables'
    OBVIOUS
  <2> USE DEF CredentialTables, UnspentExact, EventAtSettlement, EventReachable
  <2>1. ASSUME NEW t \in Tx, NEW s \in SlotOpt, Apply(t, s) PROVE CredentialTables'
    <3> DEFINE ins == TxIn[t] \cap Live
               outs == TxOut[t]
               known == ins \cup (outs \cap Live)
               fresh == {r \in outs : r \in Live => ~txo[r].spent}
    <3>1. /\ Live' = Live \cup outs
          /\ Unspent' = (Unspent \ known) \cup fresh
          /\ \A r \in fresh : txo'[r].settled = s
          /\ \A r \in Ref \ (ins \cup outs) : txo'[r] = txo[r]
      BY <2>1, ApplyUnspent
    <3>2. /\ unspent' = (unspent \ ScopeRows(known)) \cup ScopeRows(fresh)
          /\ events' = (events \ SettledRows(known)) \cup EventRows(ins \cup outs, s)
      BY <2>1 DEF Apply, Rewrite, NotSpent
    <3>3. /\ outs \subseteq Ref /\ Live \subseteq Ref /\ Unspent \subseteq Live
          /\ fresh \subseteq outs
      BY DEF Live, Unspent
    <3> HIDE DEF fresh
    <3>4. UnspentExact'
      <4> HIDE DEF known, fresh
      <4>1. ScopeRows(Unspent)' = (ScopeRows(Unspent) \ ScopeRows(known)) \cup ScopeRows(fresh)
        BY <3>1 DEF ScopeRows
      <4> QED BY <4>1, <3>2
    <3>5. EventAtSettlement'
      <4> SUFFICES ASSUME NEW e \in Scope \X Key \X Unspent',
                          e[2] = SlotKey(txo'[e[3]].settled), e[1] \in ScopesOf[e[3]]
                   PROVE  e \in events'
        BY DEF SettledRows, SlotKey
      <4>1. CASE e[3] \in fresh
        <5>1. e \in EventRows(ins \cup outs, s)
          BY <4>1, <3>1, <3>3 DEF EventRows
        <5> QED BY <5>1, <3>2
      <4>2. CASE e[3] \notin fresh
        <5>1. e[3] \in Unspent \ known /\ e[3] \in Ref \ (ins \cup outs)
          BY <4>2, <3>1, <3>3
        <5>2. e \in SettledRows(Unspent)
          BY <5>1, <3>1 DEF SettledRows
        <5>3. e \notin SettledRows(known)
          BY <5>1 DEF SettledRows
        <5> QED BY <5>2, <5>3, <3>2
      <4> QED BY <4>1, <4>2
    <3>6. EventReachable'
      <4> SUFFICES ASSUME NEW r \in Live', NEW c \in ScopesOf[r]
                   PROVE  \E k \in Key : <<c, k, r>> \in events'
        OBVIOUS
      <4>0. r \in Ref /\ c \in Scope
        BY <3>1, <3>3
      <4>1. CASE r \in ins \cup outs
        <5>1. SlotKey(s) \in Key
          BY KeyType
        <5>2. <<c, SlotKey(s), r>> \in EventRows(ins \cup outs, s)
          BY <4>0, <4>1, <5>1 DEF EventRows
        <5> QED BY <5>1, <5>2, <3>2
      <4>2. CASE r \notin ins \cup outs
        <5>1. r \in Live /\ r \notin known
          BY <4>2, <3>1
        <5>2. PICK k \in Key : <<c, k, r>> \in events
          BY <5>1
        <5>3. <<c, k, r>> \notin SettledRows(known)
          BY <5>1 DEF SettledRows
        <5> QED BY <5>2, <5>3, <3>2
      <4> QED BY <4>1, <4>2
    <3> QED BY <3>4, <3>5, <3>6
  <2>2. ASSUME NEW t \in Tx, Unapply(t) PROVE CredentialTables'
    <3> DEFINE ins == TxIn[t] \cap Live
               gone == TxOut[t] \cap Live
    <3>1. /\ Live' = Live \ gone
          /\ Unspent' = (Unspent \ gone) \cup ins
          /\ \A r \in Live \ gone : txo'[r].settled = txo[r].settled
      BY <2>2, UnapplyUnspent
    <3>2. /\ unspent' = (unspent \ ScopeRows(gone)) \cup ScopeRows(ins)
          /\ events' = (events \ SettledRows(gone)) \cup SettledRows(ins)
      BY <2>2 DEF Unapply, Rewrite
    <3>3. /\ Live \subseteq Ref /\ Unspent \subseteq Live
          /\ ins \cap gone = {}
      BY DEF Live, Unspent
    <3>4. UnspentExact'
      <4> HIDE DEF gone, ins
      <4>1. ScopeRows(Unspent)' = (ScopeRows(Unspent) \ ScopeRows(gone)) \cup ScopeRows(ins)
        BY <3>1 DEF ScopeRows
      <4> QED BY <4>1, <3>2
    <3>5. EventAtSettlement'
      <4> SUFFICES ASSUME NEW e \in Scope \X Key \X Unspent',
                          e[2] = SlotKey(txo'[e[3]].settled), e[1] \in ScopesOf[e[3]]
                   PROVE  e \in events'
        BY DEF SettledRows, SlotKey
      <4>0. e[3] \in Live \ gone /\ txo'[e[3]].settled = txo[e[3]].settled
        BY <3>1, <3>3
      <4>1. CASE e[3] \in ins
        <5>1. e \in SettledRows(ins)
          BY <4>0, <4>1 DEF SettledRows
        <5> QED BY <5>1, <3>2
      <4>2. CASE e[3] \notin ins
        <5>1. e \in SettledRows(Unspent)
          BY <4>0, <4>2, <3>1 DEF SettledRows
        <5>2. e \notin SettledRows(gone)
          BY <4>0 DEF SettledRows
        <5> QED BY <5>1, <5>2, <3>2
      <4> QED BY <4>1, <4>2
    <3>6. EventReachable'
      <4> SUFFICES ASSUME NEW r \in Live', NEW c \in ScopesOf[r]
                   PROVE  \E k \in Key : <<c, k, r>> \in events'
        OBVIOUS
      <4>0. r \in Live \ gone /\ r \in Ref /\ c \in Scope
        BY <3>1, <3>3
      <4>1. PICK k \in Key : <<c, k, r>> \in events
        BY <4>0
      <4>2. <<c, k, r>> \notin SettledRows(gone)
        BY <4>0 DEF SettledRows
      <4> QED BY <4>1, <4>2, <3>2
    <3> QED BY <3>4, <3>5, <3>6
  <2>3. CASE UNCHANGED <<txo, events, unspent>>
    BY <2>3 DEF Live, Unspent, SettledRows, ScopeRows
  <2>4. CASE \/ \E q \in Reader, u \in Unit : EnsureCheck(q, u)
             \/ \E q \in Reader : EnsureScan(q) \/ EnsureCommit(q) \/ Answer(q)
             \/ UNCHANGED vars
    <3>1. UNCHANGED <<txo, events, unspent>>
      BY <2>4 DEF EnsureCheck, EnsureScan, EnsureCommit, Answer, vars
    <3> QED BY <2>3, <3>1
  <2> QED BY <2>1, <2>2, <2>4 DEF Next
<1> QED BY <1>1, <1>2, Typed, PTL DEF Spec

(* On a database that always had the unit table, no unspent output is      *)
(* missing from it, whatever out-of-date scan ensure_unit_index commits:   *)
(* apply and unapply maintain the rows and ensure only adds some.          *)
THEOREM UnitCovered == LegacyRefs = {} => (Spec => []UnitCover)
<1> SUFFICES ASSUME LegacyRefs = {} PROVE Spec => []UnitCover
  OBVIOUS
<1> USE TxAssumption, OutputAssumption
<1>1. Init => UnitCover
  BY DEF Init, UnitCover, UnitRows, Unspent, Live
<1>2. TypeOK /\ UnitCover /\ [Next]_vars => UnitCover'
  <2> SUFFICES ASSUME TypeOK, UnitCover, [Next]_vars PROVE UnitCover'
    OBVIOUS
  <2> USE DEF UnitCover
  <2>1. ASSUME NEW t \in Tx, NEW s \in SlotOpt, Apply(t, s) PROVE UnitCover'
    <3> DEFINE known == (TxIn[t] \cap Live) \cup (TxOut[t] \cap Live)
               fresh == {r \in TxOut[t] : r \in Live => ~txo[r].spent}
    <3>1. Unspent' = (Unspent \ known) \cup fresh
      BY <2>1, ApplyUnspent
    <3>2. units' = (units \ UnitRows(known)) \cup UnitRows(fresh)
      BY <2>1 DEF Apply, Rewrite, NotSpent
    <3> HIDE DEF known, fresh
    <3>3. UnitRows(Unspent)' = (UnitRows(Unspent) \ UnitRows(known)) \cup UnitRows(fresh)
      BY <3>1 DEF UnitRows
    <3> QED BY <3>2, <3>3
  <2>2. ASSUME NEW t \in Tx, Unapply(t) PROVE UnitCover'
    <3> DEFINE ins == TxIn[t] \cap Live
               gone == TxOut[t] \cap Live
    <3>1. Unspent' = (Unspent \ gone) \cup ins
      BY <2>2, UnapplyUnspent
    <3>2. units' = (units \ UnitRows(gone)) \cup UnitRows(ins)
      BY <2>2 DEF Unapply, Rewrite
    <3> HIDE DEF ins, gone
    <3>3. UnitRows(Unspent)' = (UnitRows(Unspent) \ UnitRows(gone)) \cup UnitRows(ins)
      BY <3>1 DEF UnitRows
    <3> QED BY <3>2, <3>3
  <2>3. CASE \/ \E q \in Reader, u \in Unit : EnsureCheck(q, u)
             \/ \E q \in Reader : EnsureScan(q) \/ EnsureCommit(q) \/ Answer(q)
             \/ UNCHANGED vars
    <3>1. txo' = txo /\ units \subseteq units'
      BY <2>3 DEF EnsureCheck, EnsureScan, EnsureCommit, Answer, vars
    <3> QED BY <3>1 DEF UnitRows, Unspent, Live
  <2> QED BY <2>1, <2>2, <2>3 DEF Next
<1> QED BY <1>1, <1>2, Typed, PTL DEF Spec

(* A spent output becomes spendable only by unapply of a transaction that  *)
(* spends it: apply, confirmations included, never forgets a spend.        *)
THEOREM SpendsStick == Spec => SpendSticks
<1> DEFINE Kept == \A r \in Live \ Unspent :
                      r \in Unspent' => \E t \in Tx : r \in TxIn[t] /\ Unapply(t)
<1>1. TypeOK /\ [Next]_vars => [Kept]_vars
  <2> SUFFICES ASSUME TypeOK, [Next]_vars, NEW r \in Live \ Unspent, r \in Unspent'
               PROVE  \E t \in Tx : r \in TxIn[t] /\ Unapply(t)
    OBVIOUS
  <2>1. ASSUME NEW t \in Tx, NEW s \in SlotOpt, Apply(t, s) PROVE FALSE
    <3>1. r \notin {x \in TxOut[t] : x \in Live => ~txo[x].spent}
      BY DEF Unspent
    <3> QED BY <2>1, <3>1, ApplyUnspent
  <2>2. ASSUME NEW t \in Tx, Unapply(t) PROVE r \in TxIn[t]
    BY <2>2, UnapplyUnspent
  <2>3. CASE \/ \E q \in Reader, u \in Unit : EnsureCheck(q, u)
             \/ \E q \in Reader : EnsureScan(q) \/ EnsureCommit(q) \/ Answer(q)
             \/ UNCHANGED vars
    <3>1. txo' = txo
      BY <2>3 DEF EnsureCheck, EnsureScan, EnsureCommit, Answer, vars
    <3>2. Unspent' = Unspent
      BY <3>1 DEF Unspent, Live
    <3> QED BY <3>2
  <2> QED BY <2>1, <2>2, <2>3 DEF Next
<1>2. SpendSticks <=> [][Kept]_vars
  BY DEF SpendSticks
<1> QED BY <1>1, <1>2, Typed, PTL DEF Spec

(* Every row of the unit table, and every row a scan is about to commit,   *)
(* names a unit of its output.                                             *)
UnitRowsTrue ==
    /\ \A e \in units : e[1] \in UnitsOf[e[2]]
    /\ \A q \in Reader : query[q].at = "commit" =>
          \A e \in query[q].found : e[1] \in UnitsOf[e[2]]

LEMMA UnitRowsKept == ASSUME TypeOK, UnitRowsTrue, [Next]_vars PROVE UnitRowsTrue'
<1>1. ASSUME query' = query, \E dead, filed, fresh : Rewrite(dead, filed, fresh)
      PROVE  UnitRowsTrue'
  BY <1>1 DEF Rewrite, UnitRowsTrue, UnitRows
<1>2. ASSUME NEW t \in Tx, NEW s \in SlotOpt, Apply(t, s) PROVE UnitRowsTrue'
  BY <1>1, <1>2 DEF Apply
<1>3. ASSUME NEW t \in Tx, Unapply(t) PROVE UnitRowsTrue'
  BY <1>1, <1>3 DEF Unapply
<1>4. ASSUME NEW q \in Reader, NEW u \in Unit, EnsureCheck(q, u) PROVE UnitRowsTrue'
  BY <1>4 DEF EnsureCheck, UnitRowsTrue, TypeOK
<1>5. ASSUME NEW q \in Reader, EnsureScan(q) PROVE UnitRowsTrue'
  <2> DEFINE u == query[q].unit
             rows == {u} \X {r \in Unspent : u \in UnitsOf[r]}
  <2>1. units' = units /\ query' = [query EXCEPT ![q] = [at |-> "commit", unit |-> u, found |-> rows]]
    BY <1>5 DEF EnsureScan
  <2>2. \A e \in rows : e[1] \in UnitsOf[e[2]]
    OBVIOUS
  <2> HIDE DEF rows, u
  <2> QED
    BY <2>1, <2>2 DEF UnitRowsTrue, TypeOK
<1>6. ASSUME NEW q \in Reader, EnsureCommit(q) PROVE UnitRowsTrue'
  <2>1. /\ query[q].at = "commit" /\ units' = units \cup query[q].found
        /\ query' = [query EXCEPT ![q] = [at |-> "read", unit |-> query[q].unit]]
    BY <1>6 DEF EnsureCommit
  <2> QED
    BY <2>1 DEF UnitRowsTrue, TypeOK
<1>7. ASSUME NEW q \in Reader, Answer(q) PROVE UnitRowsTrue'
  BY <1>7 DEF Answer, Idle, UnitRowsTrue, TypeOK
<1>8. CASE UNCHANGED vars
  BY <1>8 DEF UnitRowsTrue, vars
<1> QED
  BY <1>2, <1>3, <1>4, <1>5, <1>6, <1>7, <1>8 DEF Next

(* On such a database a unit query answers with all the unspent outputs    *)
(* that have the unit and no other, whatever was applied or unapplied      *)
(* since the reader looked for entries (ensure_unit_index and get_utxos    *)
(* of src/index.rs).                                                       *)
THEOREM UnitAnswered == LegacyRefs = {} => (Spec => []UnitAnswerExact)
<1> SUFFICES ASSUME LegacyRefs = {} PROVE Spec => []UnitAnswerExact
  OBVIOUS
<1>1. Init => UnitRowsTrue
  BY DEF Init, UnitRowsTrue, Idle
<1>2. TypeOK /\ UnitRowsTrue /\ [Next]_vars => UnitRowsTrue'
  BY UnitRowsKept
<1>3. Spec => []UnitCover
  BY UnitCovered
<1>4. TypeOK /\ UnitCover /\ UnitRowsTrue => UnitAnswerExact
  <2> SUFFICES ASSUME TypeOK, UnitCover, UnitRowsTrue, NEW q \in Reader, query[q].at = "read"
               PROVE  QueryUnit(query[q].unit) = {r \in Unspent : query[q].unit \in UnitsOf[r]}
    BY DEF UnitAnswerExact
  <2> DEFINE u == query[q].unit
  <2>1. u \in Unit
    BY DEF TypeOK, QueryState, Idle
  <2> HIDE DEF u
  <2>2. \A r \in Unspent : u \in UnitsOf[r] => <<u, r>> \in units
    BY <2>1 DEF UnitCover, UnitRows
  <2>3. \A r \in Unspent : <<u, r>> \in units => u \in UnitsOf[r]
    BY DEF UnitRowsTrue
  <2> QED
    BY <2>2, <2>3 DEF QueryUnit, u
<1> QED BY <1>1, <1>2, <1>3, <1>4, Typed, PTL DEF Spec

-----------------------------------------------------------------------------
(* Concurrent calls.                                                       *)

(* What a call is about to write: a row that stays has an event slot, an   *)
(* unspent row the event of its settlement; only a row that was read is    *)
(* deleted or marked spent.                                                *)
WellFiled(e) ==
    /\ e.new # Absent => e.at \in SlotOpt
    /\ e.new = Absent => e.at = Deleted /\ e.old # Absent
    /\ e.new # Absent /\ ~e.new.spent => e.at = e.new.settled
    /\ e.old = Absent => e.new # Absent /\ ~e.new.spent

WritersTyped ==
    /\ job \in [Writer -> Job \cup {NoJob}]
    /\ todo \in [Writer -> Seq(Ref)]
    /\ seen \in [Writer -> Txo \cup {Absent, Unread}]
    /\ batch \in [Writer -> SUBSET Write]

(* A call writes each of its references once: what it has written is not   *)
(* among what it still has to handle.                                      *)
Between(w) == job[w] = NoJob => todo[w] = <<>> /\ batch[w] = {}
Once(w) ==
    /\ Distinct(todo[w])
    /\ \A i \in 1..Len(todo[w]) : todo[w][i] \notin Refs(w)
    /\ \A e, f \in batch[w] : e.ref = f.ref => e = f
Filing(w) == \A e \in batch[w] : WellFiled(e)

WritersInv ==
    /\ TypeOK
    /\ WritersTyped
    /\ \A w \in Writer : Between(w) /\ Once(w) /\ Filing(w)

-----------------------------------------------------------------------------
(* A sequence without repetitions keeps none when it loses its head, and   *)
(* two disjoint ones have none together.                                   *)
LEMMA TailDistinct ==
  ASSUME NEW S, NEW s \in Seq(S), s # <<>>, Distinct(s)
  PROVE  /\ Head(s) \in S /\ Tail(s) \in Seq(S)
         /\ Head(s) = s[1] /\ 1 \in 1..Len(s)
         /\ Len(Tail(s)) = Len(s) - 1
         /\ \A i \in 1..Len(Tail(s)) : Tail(s)[i] = s[i + 1] /\ i + 1 \in 1..Len(s)
         /\ Distinct(Tail(s))
         /\ \A i \in 1..Len(Tail(s)) : Tail(s)[i] # Head(s)
<1>1. /\ Head(s) \in S /\ Tail(s) \in Seq(S)
      /\ Head(s) = s[1] /\ Len(s) \in Nat \ {0}
      /\ Len(Tail(s)) = Len(s) - 1
      /\ \A i \in 1..Len(Tail(s)) : Tail(s)[i] = s[i + 1]
  OBVIOUS
<1>2. 1 \in 1..Len(s) /\ \A i \in 1..Len(Tail(s)) : i + 1 \in 1..Len(s) /\ i + 1 # 1
  BY <1>1
<1>3. Distinct(Tail(s))
  BY <1>1, <1>2 DEF Distinct
<1>4. \A i \in 1..Len(Tail(s)) : Tail(s)[i] # Head(s)
  BY <1>1, <1>2 DEF Distinct
<1> QED BY <1>1, <1>2, <1>3, <1>4

(* The references of a call, inputs first, are handled once each.          *)
LEMMA CallDistinct ==
  ASSUME NEW t \in Tx
  PROVE  /\ InSeq[t] \o OutSeq[t] \in Seq(Ref)
         /\ Distinct(InSeq[t] \o OutSeq[t])
         /\ {(InSeq[t] \o OutSeq[t])[i] : i \in 1..Len(InSeq[t] \o OutSeq[t])}
              = TxIn[t] \cup TxOut[t]
<1> DEFINE p == InSeq[t]
           q == OutSeq[t]
           s == p \o q
<1>1. /\ p \in Seq(Ref) /\ q \in Seq(Ref)
      /\ \A i \in 1..Len(p) : p[i] \in TxIn[t]
      /\ \A i \in 1..Len(q) : q[i] \in TxOut[t]
      /\ \A r \in TxIn[t] : \E i \in 1..Len(p) : p[i] = r
      /\ \A r \in TxOut[t] : \E i \in 1..Len(q) : q[i] = r
      /\ TxIn[t] \cap TxOut[t] = {}
  <2>1. InSeq[t] \in Seq(Ref) /\ OutSeq[t] \in Seq(Ref)
    BY WriterAssumption
  <2>2. /\ TxIn[t] = {InSeq[t][i] : i \in 1..Len(InSeq[t])}
        /\ TxOut[t] = {OutSeq[t][i] : i \in 1..Len(OutSeq[t])}
    BY WriterAssumption
  <2>3. TxIn[t] \cap TxOut[t] = {}
    BY TxAssumption
  <2> QED BY <2>1, <2>2, <2>3, Zenon
<1>2. \A i, j \in 1..Len(p) : p[i] = p[j] => i = j
  BY DistinctAssumption DEF Distinct
<1>3. \A i, j \in 1..Len(q) : q[i] = q[j] => i = j
  BY DistinctAssumption DEF Distinct
<1> HIDE DEF p, q
<1>4. /\ s \in Seq(Ref) /\ Len(s) = Len(p) + Len(q)
      /\ Len(p) \in Nat /\ Len(q) \in Nat
      /\ \A i \in 1..Len(s) : s[i] = IF i <= Len(p) THEN p[i] ELSE q[i - Len(p)]
  BY <1>1
<1> HIDE DEF s
<1>5. \A i \in 1..Len(s) : \/ i \in 1..Len(p) /\ s[i] = p[i] /\ s[i] \in TxIn[t]
                           \/ i - Len(p) \in 1..Len(q) /\ s[i] = q[i - Len(p)] /\ s[i] \in TxOut[t]
  BY <1>1, <1>4
<1>6. Distinct(s)
  <2> SUFFICES ASSUME NEW i \in 1..Len(s), NEW j \in 1..Len(s), s[i] = s[j] PROVE i = j
    BY DEF Distinct
  <2>1. CASE s[i] \in TxIn[t]
    BY <2>1, <1>1, <1>2, <1>5
  <2>2. CASE s[i] \in TxOut[t]
    <3>1. i - Len(p) \in 1..Len(q) /\ j - Len(p) \in 1..Len(q)
      BY <2>2, <1>1, <1>5
    <3>2. q[i - Len(p)] = q[j - Len(p)]
      BY <2>2, <1>1, <1>5
    <3>3. i - Len(p) = j - Len(p)
      BY <3>1, <3>2, <1>3
    <3> QED BY <3>3, <1>4
  <2> QED BY <2>1, <2>2, <1>5
<1>7. {s[i] : i \in 1..Len(s)} = TxIn[t] \cup TxOut[t]
  <2>1. \A r \in TxIn[t] : \E i \in 1..Len(s) : s[i] = r
    <3> SUFFICES ASSUME NEW r \in TxIn[t] PROVE \E i \in 1..Len(s) : s[i] = r
      OBVIOUS
    <3>1. PICK j \in 1..Len(p) : p[j] = r
      BY <1>1
    <3>2. j \in 1..Len(s) /\ j <= Len(p)
      BY <1>4
    <3> QED BY <3>1, <3>2, <1>4
  <2>2. \A r \in TxOut[t] : \E i \in 1..Len(s) : s[i] = r
    <3> SUFFICES ASSUME NEW r \in TxOut[t] PROVE \E i \in 1..Len(s) : s[i] = r
      OBVIOUS
    <3>1. PICK j \in 1..Len(q) : q[j] = r
      BY <1>1
    <3>2. Len(p) + j \in 1..Len(s) /\ ~(Len(p) + j <= Len(p)) /\ (Len(p) + j) - Len(p) = j
      BY <1>4
    <3>3. s[Len(p) + j] = r
      BY <3>1, <3>2, <1>4
    <3> QED BY <3>2, <3>3
  <2> QED BY <2>1, <2>2, <1>5
<1> QED BY <1>4, <1>6, <1>7 DEF s, p, q

-----------------------------------------------------------------------------
(* The rows of a commit: a reference of the batch gets the row its call    *)
(* wrote, whatever other calls have committed since it was read.           *)
LEMMA CommitRows ==
  ASSUME WritersInv, NEW w \in Writer, Commit(w)
  PROVE  /\ Refs(w) \subseteq Ref
         /\ txo' \in [Ref -> Txo \cup {Absent}]
         /\ \A r \in Ref \ Refs(w) : txo'[r] = txo[r]
         /\ \A e \in batch[w] : txo'[e.ref] = e.new
<1> DEFINE row(r) == CHOOSE e \in batch[w] : e.ref = r
<1>1. /\ batch[w] \subseteq Write
      /\ \A e, f \in batch[w] : e.ref = f.ref => e = f
      /\ txo \in [Ref -> Txo \cup {Absent}]
  BY DEF WritersInv, WritersTyped, Once, TypeOK
<1>2. \A e \in batch[w] : e.ref \in Ref /\ e.new \in Txo \cup {Absent}
  BY <1>1 DEF Write
<1>3. txo' = [r \in Ref |-> IF r \in Refs(w) THEN row(r).new ELSE txo[r]]
  BY DEF Commit
<1>4. \A r \in Refs(w) : row(r) \in batch[w] /\ row(r).ref = r
  BY DEF Refs
<1>5. \A e \in batch[w] : e.ref \in Refs(w) /\ row(e.ref) = e
  BY <1>1, <1>4 DEF Refs
<1> HIDE DEF row
<1>6. Refs(w) \subseteq Ref
  BY <1>2 DEF Refs
<1>7. txo' \in [Ref -> Txo \cup {Absent}]
  BY <1>1, <1>2, <1>3, <1>4
<1>8. \A e \in batch[w] : txo'[e.ref] = e.new
  BY <1>2, <1>3, <1>5
<1> QED BY <1>3, <1>6, <1>7, <1>8

(* A commit removes the secondary rows of the references it read and files *)
(* those of the ones it leaves unspent: together, the change of Unspent.   *)
LEMMA CommitUnspent ==
  ASSUME WritersInv, NEW w \in Writer, Commit(w)
  PROVE  LET dead == {e.ref : e \in {x \in batch[w] : x.old # Absent}}
             kept == {e.ref : e \in {x \in batch[w] : x.new # Absent /\ ~x.new.spent}}
         IN  /\ dead \subseteq Refs(w) /\ kept \subseteq Refs(w)
             /\ Live' \subseteq Live \cup Refs(w)
             /\ Unspent' = (Unspent \ dead) \cup kept
<1> DEFINE dead == {e.ref : e \in {x \in batch[w] : x.old # Absent}}
           kept == {e.ref : e \in {x \in batch[w] : x.new # Absent /\ ~x.new.spent}}
<1>1. /\ Refs(w) \subseteq Ref
      /\ \A r \in Ref \ Refs(w) : txo'[r] = txo[r]
      /\ \A e \in batch[w] : txo'[e.ref] = e.new
  BY CommitRows
<1>2. \A e, f \in batch[w] : e.ref = f.ref => e = f
  BY DEF WritersInv, Once
<1>3. \A e \in batch[w] : e.old = Absent => e.new # Absent /\ ~e.new.spent
  BY DEF WritersInv, Filing, WellFiled
<1>4. dead \subseteq Refs(w) /\ kept \subseteq Refs(w)
  BY DEF Refs
<1>5. \A e \in batch[w] : /\ e.ref \in Refs(w)
                          /\ e.ref \in dead <=> e.old # Absent
                          /\ e.ref \in kept <=> e.new # Absent /\ ~e.new.spent
  BY <1>2 DEF Refs
<1>6. \A r \in Refs(w) : \E e \in batch[w] : e.ref = r
  BY DEF Refs
<1> HIDE DEF dead, kept
<1>7. Live' \subseteq Live \cup Refs(w)
  BY <1>1 DEF Live
<1>8. \A r \in Ref \ Refs(w) : r \in Unspent' <=> r \in (Unspent \ dead) \cup kept
  BY <1>1, <1>4 DEF Unspent, Live
<1>9. \A r \in Refs(w) : r \in Unspent' <=> r \in (Unspent \ dead) \cup kept
  <2> SUFFICES ASSUME NEW e \in batch[w], e.ref \in Ref
               PROVE  e.ref \in Unspent' <=> e.ref \in (Unspent \ dead) \cup kept
    BY <1>1, <1>6
  <2>1. e.ref \in Unspent' <=> e.ref \in kept
    BY <1>1, <1>5 DEF Unspent, Live
  <2>2. e.ref \notin kept => e.ref \in dead
    BY <1>3, <1>5
  <2> QED BY <2>1, <2>2
<1>10. Unspent' \subseteq Ref /\ Unspent \subseteq Ref
  BY DEF Unspent, Live
<1>11. Unspent' = (Unspent \ dead) \cup kept
  BY <1>1, <1>4, <1>8, <1>9, <1>10
<1> QED BY <1>4, <1>7, <1>11 DEF dead, kept

(* A commit keeps the tables well formed, and they agree after it.         *)
LEMMA CommitAgrees ==
  ASSUME WritersInv, NEW w \in Writer, Commit(w)
  PROVE  TypeOK' /\ (TablesAgree => TablesAgree')
<1> DEFINE rows == batch[w]
           read == {e \in rows : e.old # Absent}
           dead == {e.ref : e \in read}
           kept == {e.ref : e \in {x \in rows : x.new # Absent /\ ~x.new.spent}}
           gone(e) == {x \in Scope \X Key \X {e.ref} :
                         x[1] \in ScopesOf[e.ref] /\ x[2] = SlotKey(e.old.settled)}
           filed == {e \in rows : e.at # Deleted}
<1> USE OutputAssumption
<1>1. /\ events' = (events \ UNION {gone(e) : e \in read})
                     \cup UNION {EventRows({e.ref}, e.at) : e \in filed}
      /\ unspent' = (unspent \ ScopeRows(dead)) \cup ScopeRows(kept)
      /\ units' = (units \ UnitRows(dead)) \cup UnitRows(kept)
      /\ sentinel' = sentinel \ UnitsIn(kept)
      /\ query' = query
  BY DEF Commit
<1>2. /\ Refs(w) \subseteq Ref
      /\ txo' \in [Ref -> Txo \cup {Absent}]
      /\ \A r \in Ref \ Refs(w) : txo'[r] = txo[r]
      /\ \A e \in rows : txo'[e.ref] = e.new
  BY CommitRows
<1>3. /\ dead \subseteq Refs(w) /\ kept \subseteq Refs(w)
      /\ Live' \subseteq Live \cup Refs(w)
      /\ Unspent' = (Unspent \ dead) \cup kept
  BY CommitUnspent
<1>4. \A x \in UNION {gone(e) : e \in read} : x[3] \in Refs(w)
  BY DEF Refs
<1>5. \A r \in Refs(w) : \E e \in rows : e.ref = r
  BY DEF Refs
<1>6. \A e \in rows : /\ e.ref \in Ref
                      /\ e.new # Absent => e.at \in SlotOpt /\ e \in filed
                      /\ e.new # Absent /\ ~e.new.spent => e.at = e.new.settled
  <2>1. \A e \in rows : e.ref \in Ref
    BY DEF WritersInv, WritersTyped, Write
  <2>2. \A e \in rows : WellFiled(e)
    BY DEF WritersInv, Filing
  <2> QED BY <2>1, <2>2, MarkerAssumption DEF WellFiled
<1>7. TypeOK'
  <2>1. \A e \in filed : EventRows({e.ref}, e.at) \subseteq Scope \X Key \X Ref
    BY <1>6 DEF EventRows
  <2>2. events' \subseteq Scope \X Key \X Ref
    <3>1. UNION {EventRows({e.ref}, e.at) : e \in filed} \subseteq Scope \X Key \X Ref
      BY <2>1
    <3>2. events \subseteq Scope \X Key \X Ref
      BY DEF WritersInv, TypeOK
    <3> HIDE DEF filed, gone, read
    <3> QED BY <3>1, <3>2, <1>1
  <2>3. dead \in SUBSET Ref /\ kept \in SUBSET Ref
    BY <1>2, <1>3
  <2> HIDE DEF dead, kept
  <2>4. unspent' \subseteq Scope \X Ref /\ units' \subseteq Unit \X Ref
    BY <1>1, <2>3 DEF WritersInv, TypeOK, ScopeRows, UnitRows
  <2>5. sentinel' \subseteq Unit /\ query' \in [Reader -> QueryState]
    BY <1>1 DEF WritersInv, TypeOK
  <2> QED BY <1>2, <2>2, <2>4, <2>5 DEF TypeOK
<1>8. ASSUME TablesAgree PROVE TablesAgree'
  <2> USE <1>8
  <2>1. UnspentExact'
    <3> HIDE DEF dead, kept
    <3>1. ScopeRows(Unspent)' = (ScopeRows(Unspent) \ ScopeRows(dead)) \cup ScopeRows(kept)
      BY <1>3 DEF ScopeRows
    <3> QED BY <1>1, <3>1 DEF TablesAgree, UnspentExact
  <2>2. UnitCover'
    <3> HIDE DEF dead, kept
    <3>1. UnitRows(Unspent)' = (UnitRows(Unspent) \ UnitRows(dead)) \cup UnitRows(kept)
      BY <1>3 DEF UnitRows
    <3> QED BY <1>1, <3>1 DEF TablesAgree, UnitCover
  <2>3. \A e \in rows, c \in Scope, k \in Key :
           e.new # Absent /\ c \in ScopesOf[e.ref] /\ k = SlotKey(e.at)
             => <<c, k, e.ref>> \in events'
    <3> SUFFICES ASSUME NEW e \in rows, NEW c \in Scope, NEW k \in Key,
                        e.new # Absent, c \in ScopesOf[e.ref], k = SlotKey(e.at)
                 PROVE  <<c, k, e.ref>> \in events'
      OBVIOUS
    <3>1. e \in filed
      BY <1>6
    <3>2. <<c, k, e.ref>> \in EventRows({e.ref}, e.at)
      BY DEF EventRows
    <3> QED BY <1>1, <3>1, <3>2
  <2>4. EventAtSettlement'
    <3> SUFFICES ASSUME NEW c \in Scope, NEW k \in Key, NEW r \in Unspent',
                        k = SlotKey(txo'[r].settled), c \in ScopesOf[r]
                 PROVE  <<c, k, r>> \in events'
      BY DEF EventAtSettlement, SettledRows, SlotKey
    <3>1. CASE r \in Refs(w)
      <4>1. PICK e \in rows : e.ref = r
        BY <3>1, <1>5
      <4>2. e.new # Absent /\ ~e.new.spent /\ e.new = txo'[r]
        BY <4>1, <1>2 DEF Unspent, Live
      <4>3. k = SlotKey(e.at)
        BY <4>1, <4>2, <1>6
      <4> QED BY <4>1, <4>2, <4>3, <2>3
    <3>2. CASE r \notin Refs(w)
      <4>1. r \in Ref
        BY DEF Unspent, Live
      <4>2. txo'[r] = txo[r]
        BY <3>2, <4>1, <1>2
      <4>3. r \in Unspent
        BY <4>1, <4>2 DEF Unspent, Live
      <4>4. <<c, k, r>> \in SettledRows(Unspent)
        BY <4>2, <4>3 DEF SettledRows
      <4>5. <<c, k, r>> \in events
        BY <4>4 DEF TablesAgree, EventAtSettlement
      <4>6. <<c, k, r>> \notin UNION {gone(e) : e \in read}
        BY <3>2, <1>4
      <4> HIDE DEF gone, read, filed
      <4> QED BY <4>5, <4>6, <1>1
    <3> QED BY <3>1, <3>2
  <2>5. EventReachable'
    <3> SUFFICES ASSUME NEW r \in Live', NEW c \in ScopesOf[r]
                 PROVE  \E k \in Key : <<c, k, r>> \in events'
      BY DEF EventReachable
    <3>0. r \in Ref /\ c \in Scope
      BY DEF Live
    <3>1. CASE r \in Refs(w)
      <4>1. PICK e \in rows : e.ref = r
        BY <3>1, <1>5
      <4>2. e.new # Absent
        BY <4>1, <1>2 DEF Live
      <4>3. SlotKey(e.at) \in Key
        BY <4>2, <1>6, KeyType
      <4> QED BY <3>0, <4>1, <4>2, <4>3, <2>3
    <3>2. CASE r \notin Refs(w)
      <4>1. r \in Live
        BY <3>2, <1>3
      <4>2. PICK k \in Key : <<c, k, r>> \in events
        BY <4>1 DEF TablesAgree, EventReachable
      <4>3. <<c, k, r>> \notin UNION {gone(e) : e \in read}
        BY <3>2, <1>4
      <4> HIDE DEF gone, read, filed
      <4> QED BY <4>2, <4>3, <1>1
    <3> QED BY <3>1, <3>2
  <2> QED BY <2>1, <2>2, <2>4, <2>5 DEF TablesAgree
<1> QED BY <1>7, <1>8

-----------------------------------------------------------------------------
(* What a call writes for a row it does not skip is well filed: an input   *)
(* only when it was read, an output that was never read only as unspent.   *)
LEMMA WrittenWell ==
  ASSUME WritersTyped, NEW w \in Writer, NEW r \in Ref,
         job[w] # NoJob, seen[w] # Unread, ~Skips(w, r)
  PROVE  /\ Written(w, r, seen[w]) \in Write
         /\ WellFiled(Written(w, r, seen[w]))
         /\ Written(w, r, seen[w]).ref = r
<1> DEFINE old == seen[w]
           s == job[w].slot
<1> USE AbsentAssumption, MarkerAssumption DEF Txo, Stored
<1>1. /\ job[w] \in Job /\ s \in SlotOpt
      /\ old \in Txo \cup {Absent}
  BY DEF WritersTyped, Job
<1>2. job[w].op # "apply" => job[w].op = "unapply"
  BY <1>1 DEF Job
<1>3. /\ IsInput(w, r) => old # Absent
      /\ job[w].op = "unapply" => old # Absent
  BY DEF Skips
<1> HIDE DEF old, s
<1>4. CASE job[w].op = "apply" /\ IsInput(w, r)
  <2> DEFINE new == [old EXCEPT !.spent = TRUE]
  <2>1. old \in Txo /\ Written(w, r, old) = Filed(r, old, new, s)
    BY <1>1, <1>3, <1>4 DEF Written, s
  <2>2. new \in Txo /\ new.spent = TRUE
    BY <2>1
  <2> HIDE DEF new
  <2> QED BY <2>1, <2>2, <1>1 DEF Filed, Write, WellFiled, old
<1>5. CASE job[w].op = "apply" /\ ~IsInput(w, r)
  <2> DEFINE new == Stored(s, old # Absent /\ old.spent)
  <2>1. Written(w, r, old) = Filed(r, old, new, s)
    BY <1>5 DEF Written, s
  <2>2. (old # Absent /\ old.spent) \in BOOLEAN
    BY <1>1
  <2>3. new \in Txo /\ new.settled = s /\ (old = Absent => ~new.spent)
    BY <2>2, <1>1
  <2> HIDE DEF new
  <2> QED BY <2>1, <2>3, <1>1 DEF Filed, Write, WellFiled, old
<1>6. CASE job[w].op # "apply" /\ IsInput(w, r)
  <2> DEFINE new == [old EXCEPT !.spent = FALSE]
  <2>1. old \in Txo /\ Written(w, r, old) = Filed(r, old, new, old.settled)
    BY <1>1, <1>3, <1>6 DEF Written
  <2>2. new \in Txo /\ new.settled = old.settled
    BY <2>1
  <2>3. old.settled \in SlotOpt
    BY <2>1
  <2> HIDE DEF new
  <2> QED BY <2>1, <2>2, <2>3, <1>1 DEF Filed, Write, WellFiled, old
<1>7. CASE job[w].op # "apply" /\ ~IsInput(w, r)
  <2>1. old \in Txo /\ Written(w, r, old) = Filed(r, old, Absent, Deleted)
    BY <1>1, <1>2, <1>3, <1>7 DEF Written
  <2> QED BY <2>1, <1>1 DEF Filed, Write, WellFiled, old
<1> QED BY <1>4, <1>5, <1>6, <1>7

(* The step of one writer leaves what the others have read and written.    *)
LEMMA OthersKept ==
  ASSUME NEW v \in Writer, UNCHANGED <<job[v], todo[v], batch[v]>>,
         Between(v), Once(v), Filing(v)
  PROVE  Between(v)' /\ Once(v)' /\ Filing(v)'
  BY DEF Between, Once, Filing, Refs, WellFiled

(* Every step of every writer keeps the invariant, and the agreement of    *)
(* the tables with it.  No lock is needed for this: a row and the index    *)
(* rows that go with it are committed together.                            *)
LEMMA WritersKeep ==
  ASSUME WritersInv, [WritersNext]_allVars
  PROVE  WritersInv' /\ (TablesAgree => TablesAgree')
<1> USE DEF WritersInv
<1>0. ASSUME UNCHANGED <<txo, events, unspent, units>>
      PROVE  TablesAgree => TablesAgree'
  BY <1>0 DEF TablesAgree, UnspentExact, EventAtSettlement, EventReachable, UnitCover,
         ScopeRows, SettledRows, UnitRows, Unspent, Live
<1>00. ASSUME UNCHANGED vars PROVE TypeOK' /\ (TablesAgree => TablesAgree')
  BY <1>00, <1>0 DEF vars, TypeOK
<1>1. ASSUME NEW w \in Writer, NEW j \in Calls(w), Start(w, j)
      PROVE  WritersInv' /\ (TablesAgree => TablesAgree')
  <2>1. j \in Job
    BY WriterAssumption DEF Calls, Job, SlotOpt
  <2>2. /\ job' = [job EXCEPT ![w] = j]
        /\ todo' = [todo EXCEPT ![w] = InSeq[j.tx] \o OutSeq[j.tx]]
        /\ UNCHANGED <<vars, seen, batch>> /\ job[w] = NoJob
    BY <1>1 DEF Start
  <2>3. InSeq[j.tx] \o OutSeq[j.tx] \in Seq(Ref) /\ Distinct(InSeq[j.tx] \o OutSeq[j.tx])
    BY <2>1, CallDistinct DEF Job
  <2>4. WritersTyped'
    BY <2>1, <2>2, <2>3 DEF WritersTyped
  <2>5. \A v \in Writer \ {w} : Between(v)' /\ Once(v)' /\ Filing(v)'
    BY <2>2, OthersKept DEF WritersTyped
  <2>6. Between(w)' /\ Once(w)' /\ Filing(w)'
    <3>1. job'[w] = j /\ todo'[w] = InSeq[j.tx] \o OutSeq[j.tx] /\ batch'[w] = {}
      BY <2>2 DEF WritersTyped, Between
    <3> QED BY <2>1, <2>3, <3>1, MarkerAssumption DEF Between, Once, Filing, Refs
  <2> QED BY <2>2, <2>4, <2>5, <2>6, <1>00
<1>2. ASSUME NEW w \in Writer, Read(w)
      PROVE  WritersInv' /\ (TablesAgree => TablesAgree')
  <2>1. seen' = [seen EXCEPT ![w] = txo[Head(todo[w])]] /\ UNCHANGED <<vars, job, todo, batch>>
    BY <1>2 DEF Read
  <2>2. Head(todo[w]) \in Ref
    BY <1>2, TailDistinct DEF Read, WritersTyped, Once
  <2>3. WritersTyped'
    BY <2>1, <2>2 DEF WritersTyped, TypeOK
  <2>4. \A v \in Writer : Between(v)' /\ Once(v)' /\ Filing(v)'
    BY <2>1, OthersKept
  <2> QED BY <2>1, <2>3, <2>4, <1>00
<1>3. ASSUME NEW w \in Writer, Skip(w)
      PROVE  WritersInv' /\ (TablesAgree => TablesAgree')
  <2>1. /\ todo[w] # <<>> /\ todo' = [todo EXCEPT ![w] = Tail(@)]
        /\ seen' = [seen EXCEPT ![w] = Unread] /\ UNCHANGED <<vars, job, batch>>
    BY <1>3 DEF Skip, Advance
  <2>2. todo[w] \in Seq(Ref) /\ Distinct(todo[w])
    BY DEF WritersTyped, Once
  <2>3. /\ Tail(todo[w]) \in Seq(Ref) /\ Distinct(Tail(todo[w]))
        /\ \A i \in 1..Len(Tail(todo[w])) : Tail(todo[w])[i] = todo[w][i + 1]
                                            /\ i + 1 \in 1..Len(todo[w])
    BY <2>1, <2>2, TailDistinct
  <2>4. WritersTyped'
    BY <2>1, <2>3 DEF WritersTyped
  <2>5. \A v \in Writer \ {w} : Between(v)' /\ Once(v)' /\ Filing(v)'
    BY <2>1, OthersKept DEF WritersTyped
  <2>6. Between(w)' /\ Once(w)' /\ Filing(w)'
    <3>1. todo'[w] = Tail(todo[w]) /\ batch'[w] = batch[w] /\ job'[w] = job[w] /\ job[w] # NoJob
      BY <2>1 DEF WritersTyped, Between
    <3> QED BY <2>3, <3>1 DEF Between, Once, Filing, Refs, WellFiled
  <2> QED BY <2>1, <2>4, <2>5, <2>6, <1>00
<1>4. ASSUME NEW w \in Writer, Put(w)
      PROVE  WritersInv' /\ (TablesAgree => TablesAgree')
  <2> DEFINE r == Head(todo[w])
             new == Written(w, r, seen[w])
  <2>1. /\ todo[w] # <<>> /\ seen[w] # Unread /\ ~Skips(w, r)
        /\ todo' = [todo EXCEPT ![w] = Tail(@)]
        /\ batch' = [batch EXCEPT ![w] = @ \cup {new}]
        /\ seen' = [seen EXCEPT ![w] = Unread] /\ UNCHANGED <<vars, job>>
    BY <1>4 DEF Put, Advance
  <2>2. todo[w] \in Seq(Ref) /\ Distinct(todo[w])
    BY DEF WritersTyped, Once
  <2>3. /\ r \in Ref /\ r = todo[w][1] /\ 1 \in 1..Len(todo[w])
        /\ Tail(todo[w]) \in Seq(Ref) /\ Distinct(Tail(todo[w]))
        /\ \A i \in 1..Len(Tail(todo[w])) : /\ Tail(todo[w])[i] = todo[w][i + 1]
                                            /\ i + 1 \in 1..Len(todo[w])
                                            /\ Tail(todo[w])[i] # r
    BY <2>1, <2>2, TailDistinct
  <2>4. job[w] # NoJob
    BY <2>1 DEF Between
  <2>5. new \in Write /\ WellFiled(new) /\ new.ref = r
    BY <2>1, <2>3, <2>4, WrittenWell
  <2> HIDE DEF r, new
  <2>6. WritersTyped'
    BY <2>1, <2>3, <2>5 DEF WritersTyped
  <2>7. \A v \in Writer \ {w} : Between(v)' /\ Once(v)' /\ Filing(v)'
    BY <2>1, OthersKept DEF WritersTyped
  <2>8. Between(w)' /\ Once(w)' /\ Filing(w)'
    <3>1. /\ todo'[w] = Tail(todo[w]) /\ batch'[w] = batch[w] \cup {new}
          /\ job'[w] = job[w]
      BY <2>1 DEF WritersTyped
    <3>2. r \notin Refs(w)
      BY <2>3 DEF Once
    <3>3. Refs(w)' = Refs(w) \cup {r}
      BY <3>1, <2>5 DEF Refs
    <3>4. \A e, f \in batch'[w] : e.ref = f.ref => e = f
      BY <3>1, <3>2, <2>5 DEF Once, Refs
    <3>5. \A i \in 1..Len(todo'[w]) : todo'[w][i] \notin Refs(w)'
      BY <3>1, <3>3, <2>3 DEF Once
    <3>6. Filing(w)'
      BY <3>1, <2>5 DEF Filing, WellFiled
    <3> QED BY <3>1, <3>4, <3>5, <3>6, <2>3, <2>4 DEF Between, Once
  <2> QED BY <2>1, <2>6, <2>7, <2>8, <1>00
<1>5. ASSUME NEW w \in Writer, LockTimeout(w)
      PROVE  WritersInv' /\ (TablesAgree => TablesAgree')
  <2>1. UNCHANGED <<vars, job, todo, seen, batch>>
    BY <1>5 DEF LockTimeout
  <2>2. \A v \in Writer : Between(v)' /\ Once(v)' /\ Filing(v)'
    BY <2>1, OthersKept
  <2> QED BY <2>1, <2>2, <1>00 DEF WritersTyped
<1>6. ASSUME NEW w \in Writer, Commit(w)
      PROVE  WritersInv' /\ (TablesAgree => TablesAgree')
  <2>1. TypeOK' /\ (TablesAgree => TablesAgree')
    BY <1>6, CommitAgrees
  <2>2. /\ job' = [job EXCEPT ![w] = NoJob] /\ batch' = [batch EXCEPT ![w] = {}]
        /\ UNCHANGED <<todo, seen>> /\ todo[w] = <<>>
    BY <1>6 DEF Commit
  <2>3. WritersTyped'
    BY <2>2 DEF WritersTyped
  <2>4. \A v \in Writer \ {w} : Between(v)' /\ Once(v)' /\ Filing(v)'
    BY <2>2, OthersKept DEF WritersTyped
  <2>5. Between(w)' /\ Once(w)' /\ Filing(w)'
    <3>1. job'[w] = NoJob /\ batch'[w] = {} /\ todo'[w] = <<>>
      BY <2>2 DEF WritersTyped
    <3> QED BY <3>1 DEF Between, Once, Filing, Refs, Distinct
  <2> QED BY <2>1, <2>3, <2>4, <2>5
<1>7. ASSUME UnitQuery PROVE WritersInv' /\ (TablesAgree => TablesAgree')
  <2>1. Next /\ UNCHANGED wvars /\ txo' = txo /\ events' = events /\ unspent' = unspent
             /\ units \subseteq units'
    BY <1>7 DEF UnitQuery, Next, EnsureCheck, EnsureScan, EnsureCommit, Answer
  <2>2. TypeOK'
    BY <2>1, NextKeepsTypes
  <2>3. TablesAgree => TablesAgree'
    BY <2>1 DEF TablesAgree, UnspentExact, EventAtSettlement, EventReachable, UnitCover,
         ScopeRows, SettledRows, UnitRows, Unspent, Live
  <2>4. UNCHANGED <<job, todo, seen, batch>>
    BY <2>1 DEF wvars
  <2>5. \A v \in Writer : Between(v)' /\ Once(v)' /\ Filing(v)'
    BY <2>4, OthersKept
  <2> QED BY <2>2, <2>3, <2>4, <2>5 DEF WritersTyped
<1>8. CASE UNCHANGED allVars
  <2>1. UNCHANGED <<vars, job, todo, seen, batch>>
    BY <1>8 DEF allVars, wvars
  <2>2. \A v \in Writer : Between(v)' /\ Once(v)' /\ Filing(v)'
    BY <2>1, OthersKept
  <2> QED BY <2>1, <2>2, <1>00 DEF WritersTyped
<1> QED BY <1>1, <1>2, <1>3, <1>4, <1>5, <1>6, <1>7, <1>8 DEF WritersNext

(* A process starts with no call under way.                                *)
LEMMA WritersStart == WritersInit => WritersInv
<1> SUFFICES ASSUME WritersInit PROVE WritersInv
  OBVIOUS
<1>1. TypeOK
  BY InitTypes DEF WritersInit
<1>2. WritersTyped
  BY DEF WritersInit, WritersTyped
<1>3. \A w \in Writer : job[w] = NoJob /\ todo[w] = <<>> /\ batch[w] = {}
  BY DEF WritersInit
<1>4. \A w \in Writer : Between(w) /\ Once(w) /\ Filing(w)
  BY <1>3 DEF Between, Once, Filing, Refs, Distinct
<1> QED BY <1>1, <1>2, <1>4 DEF WritersInv

(* On a database that always had the unit table the secondary tables agree *)
(* with the txo table in every committed state, whatever the ledger task   *)
(* and the mempool task overwrite of each other's rows.                    *)
THEOREM WritersAgree == LegacyRefs = {} => (WritersSpec => []TablesAgree)
<1> SUFFICES ASSUME LegacyRefs = {} PROVE WritersSpec => []TablesAgree
  OBVIOUS
<1>1. ASSUME WritersInit PROVE TablesAgree
  <2>1. txo = [r \in Ref |-> Absent] /\ unspent = ScopeRows({})
    BY <1>1 DEF WritersInit, Init
  <2>2. Live = {} /\ Unspent = {} /\ unspent = ScopeRows({})
    BY <2>1 DEF Live, Unspent
  <2> QED BY <2>2 DEF TablesAgree, UnspentExact, EventAtSettlement, EventReachable, UnitCover,
         SettledRows, UnitRows
<1>2. WritersInv /\ [WritersNext]_allVars => WritersInv' /\ (TablesAgree => TablesAgree')
  BY WritersKeep
<1> QED BY <1>1, <1>2, WritersStart, PTL DEF WritersSpec

-----------------------------------------------------------------------------
(* One writer.  Nobody overwrites a row between its read and its commit,   *)
(* so what it has read of a reference is still what the table holds.       *)
CallRefs(w) == TxIn[job[w].tx] \cup TxOut[job[w].tx]
Unknown(w, r) == txo[r] = Absent /\ (IsInput(w, r) \/ job[w].op = "unapply")
Waiting(w) == {todo[w][i] : i \in 1..Len(todo[w])}

Current(w) ==
    /\ seen[w] # Unread => todo[w] # <<>> /\ seen[w] = txo[Head(todo[w])]
    /\ \A e \in batch[w] : e.old = txo[e.ref] /\ e = Written(w, e.ref, e.old)

(* Of the references of the call, each is still to be handled, is in the   *)
(* batch, or is skipped.                                                   *)
Covered(w) ==
    job[w] # NoJob =>
        /\ Waiting(w) \cup Refs(w) \subseteq CallRefs(w)
        /\ \A r \in Refs(w) : ~Unknown(w, r)
        /\ \A r \in CallRefs(w) : r \in Waiting(w) \cup Refs(w) \/ Unknown(w, r)

LoneInv(w) == WritersInv /\ Current(w) /\ Covered(w)

(* The rows a lone writer has collected when it commits.                   *)
LEMMA LoneBatch ==
  ASSUME NEW w \in Writer, LoneInv(w), Commit(w)
  PROVE  /\ job[w] \in Job
         /\ Refs(w) = {r \in CallRefs(w) : ~Unknown(w, r)}
         /\ \A e \in batch[w] : e = Written(w, e.ref, txo[e.ref]) /\ e.old = txo[e.ref]
<1>1. job[w] \in Job /\ job[w] # NoJob /\ todo[w] = <<>>
  BY DEF LoneInv, WritersInv, WritersTyped, Commit
<1>2. Waiting(w) = {}
  BY <1>1 DEF Waiting
<1>3. Refs(w) = {r \in CallRefs(w) : ~Unknown(w, r)}
  BY <1>1, <1>2 DEF LoneInv, Covered
<1> QED BY <1>1, <1>3 DEF LoneInv, Current

(* The commit of an apply is the atomic Apply.                             *)
LEMMA CommitApplies ==
  ASSUME NEW w \in Writer, LoneInv(w), Commit(w), job[w].op = "apply"
  PROVE  Apply(job[w].tx, job[w].slot)
<1> DEFINE t == job[w].tx
           s == job[w].slot
           rows == batch[w]
           ins == TxIn[t] \cap Live
           outs == TxOut[t]
           fresh == NotSpent(outs)
           read == {e \in rows : e.old # Absent}
           dead == {e.ref : e \in read}
           kept == {e.ref : e \in {x \in rows : x.new # Absent /\ ~x.new.spent}}
           gone(e) == {x \in Scope \X Key \X {e.ref} :
                         x[1] \in ScopesOf[e.ref] /\ x[2] = SlotKey(e.old.settled)}
           filed == {e \in rows : e.at # Deleted}
<1> USE AbsentAssumption, MarkerAssumption
<1>1. /\ t \in Tx /\ s \in SlotOpt
      /\ Refs(w) = {r \in CallRefs(w) : ~Unknown(w, r)}
      /\ \A e \in rows : e = Written(w, e.ref, txo[e.ref]) /\ e.old = txo[e.ref]
  BY LoneBatch DEF Job
<1>2. /\ TxIn[t] \subseteq Ref /\ TxOut[t] \subseteq Ref /\ TxIn[t] \cap TxOut[t] = {}
      /\ txo \in [Ref -> Txo \cup {Absent}]
  BY <1>1, TxAssumption DEF LoneInv, WritersInv, TypeOK
<1>3. Refs(w) = ins \cup outs
  BY <1>1, <1>2 DEF CallRefs, Unknown, IsInput, Live
<1>4. /\ \A e \in rows : e.ref \in ins \cup outs
      /\ \A r \in ins \cup outs : \E e \in rows : e.ref = r
  BY <1>3 DEF Refs
<1>5. \A e \in rows : e.ref \in ins =>
         e.new = [txo[e.ref] EXCEPT !.spent = TRUE] /\ e.at = s
  <2> SUFFICES ASSUME NEW e \in rows, e.ref \in ins
               PROVE  e.new = [txo[e.ref] EXCEPT !.spent = TRUE] /\ e.at = s
    OBVIOUS
  <2>1. e = Filed(e.ref, txo[e.ref], [txo[e.ref] EXCEPT !.spent = TRUE], s)
    BY <1>1 DEF Written, IsInput
  <2> QED BY <2>1 DEF Filed
<1>6. \A e \in rows : e.ref \in outs =>
         e.new = Stored(s, txo[e.ref] # Absent /\ txo[e.ref].spent) /\ e.at = s
  BY <1>1, <1>2 DEF Written, IsInput, Filed
<1>7. fresh \subseteq outs /\ \A r \in outs : r \in fresh <=> ~(txo[r] # Absent /\ txo[r].spent)
  BY <1>2 DEF NotSpent, Live
<1>8. \A e \in rows : e.ref \in outs => e.new = Stored(s, e.ref \notin fresh)
  <2> SUFFICES ASSUME NEW e \in rows, e.ref \in outs
               PROVE  e.new = Stored(s, e.ref \notin fresh)
    OBVIOUS
  <2>1. (e.ref \notin fresh) = (txo[e.ref] # Absent /\ txo[e.ref].spent)
    <3> HIDE DEF fresh
    <3>1. txo[e.ref] # Absent => txo[e.ref].spent \in BOOLEAN
      BY <1>2 DEF Txo
    <3> QED BY <1>7, <3>1
  <2> HIDE DEF fresh
  <2> QED BY <1>6, <2>1 DEF Stored
<1>9. /\ Refs(w) \subseteq Ref
      /\ txo' \in [Ref -> Txo \cup {Absent}]
      /\ \A r \in Ref \ Refs(w) : txo'[r] = txo[r]
      /\ \A e \in rows : txo'[e.ref] = e.new
  BY CommitRows DEF LoneInv
<1>10. txo' = [r \in Ref |->
                 IF r \in ins THEN [txo[r] EXCEPT !.spent = TRUE]
                 ELSE IF r \in outs THEN Stored(s, r \notin fresh)
                 ELSE txo[r]]
  <2> HIDE DEF fresh, rows, s
  <2>1. \A r \in ins : txo'[r] = [txo[r] EXCEPT !.spent = TRUE]
    BY <1>4, <1>5, <1>9
  <2>2. \A r \in outs : txo'[r] = Stored(s, r \notin fresh)
    BY <1>4, <1>8, <1>9
  <2>3. \A r \in Ref : r \notin ins \cup outs => txo'[r] = txo[r]
    BY <1>3, <1>9
  <2> HIDE DEF ins, outs
  <2> QED BY <1>9, <2>1, <2>2, <2>3
<1>11. dead = ins \cup (outs \cap Live)
  <2>1. dead \subseteq ins \cup (outs \cap Live)
    BY <1>1, <1>2, <1>4 DEF Live
  <2>2. ins \cup (outs \cap Live) \subseteq dead
    BY <1>1, <1>4 DEF Live
  <2> QED BY <2>1, <2>2
<1>12. kept = fresh
  <2>1. \A e \in rows : e.ref \in ins => e.new \in Txo /\ e.new.spent
    <3> SUFFICES ASSUME NEW e \in rows, e.ref \in ins PROVE e.new \in Txo /\ e.new.spent
      OBVIOUS
    <3>1. txo[e.ref] \in Txo
      BY <1>2 DEF Live
    <3> QED BY <3>1, <1>5 DEF Txo
  <2>2. \A e \in rows : e.ref \in outs => (e.new # Absent /\ (~e.new.spent <=> e.ref \in fresh))
    <3> HIDE DEF fresh
    <3> SUFFICES ASSUME NEW e \in rows, e.ref \in outs
                 PROVE  e.new # Absent /\ (~e.new.spent <=> e.ref \in fresh)
      OBVIOUS
    <3>1. \A b \in BOOLEAN : Stored(s, b) \in Txo /\ Stored(s, b).spent = b
      BY <1>1 DEF Stored, Txo
    <3> QED BY <1>8, <3>1
  <2>3. \A e \in rows : (e.new # Absent /\ ~e.new.spent) <=> e.ref \in fresh
    <3> HIDE DEF fresh
    <3> QED BY <1>2, <1>4, <1>7, <2>1, <2>2
  <2> HIDE DEF fresh
  <2> QED BY <1>4, <1>7, <2>3
<1>13. UNION {gone(e) : e \in read} = SettledRows(dead)
  <2>1. \A x \in Scope \X Key \X Ref :
           x \in UNION {gone(e) : e \in read} <=> x \in SettledRows(dead)
    BY <1>1 DEF SettledRows
  <2>2. UNION {gone(e) : e \in read} \subseteq Scope \X Key \X Ref
    BY <1>3, <1>4, <1>9
  <2>3. SettledRows(dead) \subseteq Scope \X Key \X Ref
    BY <1>3, <1>9, <1>11 DEF SettledRows
  <2> QED BY <2>1, <2>2, <2>3
<1>14. UNION {EventRows({e.ref}, e.at) : e \in filed} = EventRows(ins \cup outs, s)
  <2>1. \A e \in rows : e \in filed /\ e.at = s
    BY <1>1, <1>4, <1>5, <1>6
  <2> QED BY <1>4, <2>1 DEF EventRows
<1>15. Rewrite(ins \cup (outs \cap Live), EventRows(ins \cup outs, s), fresh)
  <2>1. /\ events' = (events \ UNION {gone(e) : e \in read})
                       \cup UNION {EventRows({e.ref}, e.at) : e \in filed}
        /\ unspent' = (unspent \ ScopeRows(dead)) \cup ScopeRows(kept)
        /\ units' = (units \ UnitRows(dead)) \cup UnitRows(kept)
        /\ sentinel' = sentinel \ UnitsIn(kept)
    BY DEF Commit
  <2> HIDE DEF gone, read, filed, dead, kept, fresh, ins, outs, s
  <2> QED BY <2>1, <1>11, <1>12, <1>13, <1>14 DEF Rewrite
<1>16. query' = query
  BY DEF Commit
<1> QED BY <1>10, <1>15, <1>16 DEF Apply

(* The commit of an unapply is the atomic Unapply.                         *)
LEMMA CommitUnapplies ==
  ASSUME NEW w \in Writer, LoneInv(w), Commit(w), job[w].op = "unapply"
  PROVE  Unapply(job[w].tx)
<1> DEFINE t == job[w].tx
           rows == batch[w]
           ins == TxIn[t] \cap Live
           outs == TxOut[t] \cap Live
           read == {e \in rows : e.old # Absent}
           dead == {e.ref : e \in read}
           kept == {e.ref : e \in {x \in rows : x.new # Absent /\ ~x.new.spent}}
           gone(e) == {x \in Scope \X Key \X {e.ref} :
                         x[1] \in ScopesOf[e.ref] /\ x[2] = SlotKey(e.old.settled)}
           filed == {e \in rows : e.at # Deleted}
<1> USE AbsentAssumption, MarkerAssumption
<1>1. /\ t \in Tx
      /\ Refs(w) = {r \in CallRefs(w) : ~Unknown(w, r)}
      /\ \A e \in rows : e = Written(w, e.ref, txo[e.ref]) /\ e.old = txo[e.ref]
  BY LoneBatch DEF Job
<1>2. /\ TxIn[t] \subseteq Ref /\ TxOut[t] \subseteq Ref /\ TxIn[t] \cap TxOut[t] = {}
      /\ txo \in [Ref -> Txo \cup {Absent}]
  BY <1>1, TxAssumption DEF LoneInv, WritersInv, TypeOK
<1>3. Refs(w) = ins \cup outs
  BY <1>1, <1>2 DEF CallRefs, Unknown, Live
<1>4. /\ \A e \in rows : e.ref \in ins \cup outs
      /\ \A r \in ins \cup outs : \E e \in rows : e.ref = r
  BY <1>3 DEF Refs
<1>5. \A e \in rows : e.ref \in ins =>
         e.new = [txo[e.ref] EXCEPT !.spent = FALSE] /\ e.at = txo[e.ref].settled
  <2> SUFFICES ASSUME NEW e \in rows, e.ref \in ins
               PROVE  e.new = [txo[e.ref] EXCEPT !.spent = FALSE] /\ e.at = txo[e.ref].settled
    OBVIOUS
  <2>1. e = Filed(e.ref, txo[e.ref], [txo[e.ref] EXCEPT !.spent = FALSE], txo[e.ref].settled)
    BY <1>1 DEF Written, IsInput
  <2> QED BY <2>1 DEF Filed
<1>6. \A e \in rows : e.ref \in outs => e.new = Absent /\ e.at = Deleted
  BY <1>1, <1>2 DEF Written, IsInput, Filed
<1>7. \A e \in rows : e.ref \in ins =>
         e.new \in Txo /\ e.new.spent = FALSE /\ e.at \in SlotOpt
  <2> SUFFICES ASSUME NEW e \in rows, e.ref \in ins
               PROVE  e.new \in Txo /\ e.new.spent = FALSE /\ e.at \in SlotOpt
    OBVIOUS
  <2>1. txo[e.ref] \in Txo
    BY <1>2 DEF Live
  <2> QED BY <2>1, <1>5 DEF Txo
<1>9. /\ Refs(w) \subseteq Ref
      /\ txo' \in [Ref -> Txo \cup {Absent}]
      /\ \A r \in Ref \ Refs(w) : txo'[r] = txo[r]
      /\ \A e \in rows : txo'[e.ref] = e.new
  BY CommitRows DEF LoneInv
<1>10. txo' = [r \in Ref |->
                 IF r \in outs THEN Absent
                 ELSE IF r \in ins THEN [txo[r] EXCEPT !.spent = FALSE]
                 ELSE txo[r]]
  <2> HIDE DEF rows
  <2>1. \A r \in ins : txo'[r] = [txo[r] EXCEPT !.spent = FALSE]
    BY <1>4, <1>5, <1>9
  <2>2. \A r \in outs : txo'[r] = Absent
    BY <1>4, <1>6, <1>9
  <2>3. \A r \in Ref : r \notin ins \cup outs => txo'[r] = txo[r]
    BY <1>3, <1>9
  <2> HIDE DEF ins, outs
  <2> QED BY <1>9, <2>1, <2>2, <2>3
<1>11. dead = ins \cup outs
  <2>1. dead \subseteq ins \cup outs
    BY <1>4
  <2>2. ins \cup outs \subseteq dead
    BY <1>1, <1>4 DEF Live
  <2> QED BY <2>1, <2>2
<1>12. kept = ins
  <2>1. \A e \in rows : (e.new # Absent /\ ~e.new.spent) <=> e.ref \in ins
    BY <1>4, <1>6, <1>7
  <2> HIDE DEF ins
  <2> QED BY <1>4, <2>1
<1>13. UNION {gone(e) : e \in read} = SettledRows(dead)
  <2>1. \A x \in Scope \X Key \X Ref :
           x \in UNION {gone(e) : e \in read} <=> x \in SettledRows(dead)
    BY <1>1 DEF SettledRows
  <2>2. UNION {gone(e) : e \in read} \subseteq Scope \X Key \X Ref
    BY <1>3, <1>4, <1>9
  <2>3. SettledRows(dead) \subseteq Scope \X Key \X Ref
    BY <1>3, <1>9, <1>11 DEF SettledRows
  <2> QED BY <2>1, <2>2, <2>3
<1>14. UNION {EventRows({e.ref}, e.at) : e \in filed} = SettledRows(ins)
  <2>1. \A e \in rows : e \in filed <=> e.ref \in ins
    BY <1>2, <1>4, <1>6, <1>7
  <2>2. \A e \in filed : EventRows({e.ref}, e.at) = SettledRows({e.ref})
    BY <1>5, <2>1 DEF EventRows, SettledRows
  <2>3. UNION {EventRows({e.ref}, e.at) : e \in filed} = UNION {SettledRows({e.ref}) : e \in filed}
    BY <2>2
  <2>4. UNION {SettledRows({e.ref}) : e \in filed} = SettledRows(ins)
    BY <1>4, <2>1 DEF SettledRows
  <2> QED BY <2>3, <2>4
<1>15. Rewrite(outs, SettledRows(ins), ins)
  <2>1. /\ events' = (events \ UNION {gone(e) : e \in read})
                       \cup UNION {EventRows({e.ref}, e.at) : e \in filed}
        /\ unspent' = (unspent \ ScopeRows(dead)) \cup ScopeRows(kept)
        /\ units' = (units \ UnitRows(dead)) \cup UnitRows(kept)
        /\ sentinel' = sentinel \ UnitsIn(kept)
    BY DEF Commit
  <2>2. /\ SettledRows(ins \cup outs) = SettledRows(ins) \cup SettledRows(outs)
        /\ ScopeRows(ins \cup outs) = ScopeRows(ins) \cup ScopeRows(outs)
        /\ UnitRows(ins \cup outs) = UnitRows(ins) \cup UnitRows(outs)
    BY DEF SettledRows, ScopeRows, UnitRows
  <2> HIDE DEF gone, read, filed, dead, kept, ins, outs
  <2> QED BY <2>1, <2>2, <1>11, <1>12, <1>13, <1>14 DEF Rewrite
<1>16. query' = query
  BY DEF Commit
<1> QED BY <1>10, <1>15, <1>16 DEF Unapply

(* Until it commits a lone writer leaves the tables alone, and everything  *)
(* it has read and written stays current.                                  *)
LEMMA LoneKeep ==
  ASSUME NEW w, Writer = {w}, LoneInv(w), [WritersNext]_allVars
  PROVE  LoneInv(w)' /\ [Next]_vars
<1> USE DEF LoneInv
<1>1. WritersInv'
  BY WritersKeep
<1>2. w \in Writer /\ \A v \in Writer : v = w
  OBVIOUS
<1>3. /\ job[w] \in Job \cup {NoJob} /\ todo[w] \in Seq(Ref) /\ batch[w] \subseteq Write
      /\ w \in DOMAIN job /\ w \in DOMAIN todo /\ w \in DOMAIN seen /\ w \in DOMAIN batch
      /\ Between(w) /\ Once(w)
  BY <1>2 DEF WritersInv, WritersTyped
<1>4. ASSUME UNCHANGED <<vars, job, todo, seen, batch>> PROVE LoneInv(w)' /\ [Next]_vars
  BY <1>1, <1>4 DEF Current, Covered, Waiting, Refs, CallRefs, Unknown, Written, IsInput, vars
<1>5. ASSUME NEW j \in Calls(w), Start(w, j) PROVE LoneInv(w)' /\ [Next]_vars
  <2>1. /\ job'[w] = j /\ todo'[w] = InSeq[j.tx] \o OutSeq[j.tx]
        /\ UNCHANGED <<vars, seen, batch>> /\ todo[w] = <<>> /\ batch[w] = {}
    BY <1>3, <1>5 DEF Start, Between
  <2>2. j \in Job
    BY <1>2, WriterAssumption DEF Calls, Job, SlotOpt
  <2>3. Waiting(w)' = CallRefs(w)'
    <3>1. CallRefs(w)' = TxIn[j.tx] \cup TxOut[j.tx]
      BY <2>1 DEF CallRefs
    <3>2. Waiting(w)' = {(InSeq[j.tx] \o OutSeq[j.tx])[i] : i \in 1..Len(InSeq[j.tx] \o OutSeq[j.tx])}
      BY <2>1 DEF Waiting
    <3>3. j.tx \in Tx
      BY <2>2 DEF Job
    <3> QED BY <3>1, <3>2, <3>3, CallDistinct
  <2>4. Refs(w)' = {}
    BY <2>1 DEF Refs
  <2>5. Current(w)'
    BY <2>1 DEF Current
  <2>6. Covered(w)'
    BY <2>3, <2>4 DEF Covered
  <2> QED BY <1>1, <2>1, <2>5, <2>6
<1>6. ASSUME Read(w) PROVE LoneInv(w)' /\ [Next]_vars
  <2>1. /\ seen'[w] = txo[Head(todo[w])] /\ todo[w] # <<>>
        /\ UNCHANGED <<vars, job, todo, batch>>
    BY <1>3, <1>6 DEF Read
  <2>2. Current(w)'
    BY <2>1 DEF Current, vars, Written, IsInput
  <2>3. Covered(w)'
    BY <2>1 DEF Covered, Waiting, Refs, CallRefs, Unknown, IsInput, vars
  <2> QED BY <1>1, <2>1, <2>2, <2>3
<1>7. ASSUME todo[w] # <<>>, seen[w] # Unread PROVE
         /\ seen[w] = txo[Head(todo[w])] /\ job[w] # NoJob
         /\ Waiting(w) = {Tail(todo[w])[i] : i \in 1..Len(Tail(todo[w]))} \cup {Head(todo[w])}
         /\ Head(todo[w]) \notin Refs(w)
         /\ Head(todo[w]) \in CallRefs(w)
  <2>1. seen[w] = txo[Head(todo[w])] /\ job[w] # NoJob
    BY <1>3, <1>7 DEF Current, Between
  <2>2. Distinct(todo[w])
    BY <1>3 DEF Once
  <2>3. /\ Head(todo[w]) = todo[w][1] /\ 1 \in 1..Len(todo[w])
        /\ Len(Tail(todo[w])) = Len(todo[w]) - 1
        /\ \A i \in 1..Len(Tail(todo[w])) : /\ Tail(todo[w])[i] = todo[w][i + 1]
                                            /\ i + 1 \in 1..Len(todo[w])
    BY <1>3, <1>7, <2>2, TailDistinct
  <2>4. Waiting(w) = {Tail(todo[w])[i] : i \in 1..Len(Tail(todo[w]))} \cup {Head(todo[w])}
    <3> DEFINE R == {Tail(todo[w])[i] : i \in 1..Len(Tail(todo[w]))} \cup {Head(todo[w])}
    <3>1. R \subseteq Waiting(w)
      BY <2>3 DEF Waiting
    <3>2. \A i \in 1..Len(todo[w]) : todo[w][i] \in R
      <4> SUFFICES ASSUME NEW i \in 1..Len(todo[w]), i # 1 PROVE todo[w][i] \in R
        BY <2>3
      <4>1. i - 1 \in 1..Len(Tail(todo[w])) /\ (i - 1) + 1 = i
        BY <1>3, <2>3
      <4>2. Tail(todo[w])[i - 1] = todo[w][i]
        BY <4>1, <2>3
      <4> QED BY <4>1, <4>2
    <3> QED BY <3>1, <3>2 DEF Waiting
  <2>5. Head(todo[w]) \notin Refs(w)
    BY <1>3, <2>3 DEF Once
  <2>6. Head(todo[w]) \in CallRefs(w)
    BY <2>1, <2>4 DEF Covered
  <2> QED BY <2>1, <2>4, <2>5, <2>6
<1>8. ASSUME Skip(w) PROVE LoneInv(w)' /\ [Next]_vars
  <2> DEFINE r == Head(todo[w])
  <2>1. /\ todo[w] # <<>> /\ seen[w] # Unread /\ Skips(w, r)
        /\ todo'[w] = Tail(todo[w]) /\ seen'[w] = Unread /\ UNCHANGED <<vars, job, batch>>
    BY <1>3, <1>8 DEF Skip, Advance
  <2>2. Current(w)'
    BY <2>1 DEF Current, vars, Written, IsInput
  <2>3. Unknown(w, r) /\ Waiting(w) = Waiting(w)' \cup {r}
    BY <1>7, <2>1 DEF Skips, Unknown, Waiting
  <2>4. Covered(w)'
    <3>1. Refs(w)' = Refs(w) /\ CallRefs(w)' = CallRefs(w) /\ job'[w] = job[w]
      BY <2>1 DEF Refs, CallRefs
    <3>2. \A x : Unknown(w, x)' <=> Unknown(w, x)
      BY <2>1 DEF Unknown, IsInput, vars
    <3> HIDE DEF r
    <3> QED BY <2>3, <3>1, <3>2 DEF Covered
  <2> QED BY <1>1, <2>1, <2>2, <2>4
<1>9. ASSUME Put(w) PROVE LoneInv(w)' /\ [Next]_vars
  <2> DEFINE r == Head(todo[w])
             new == Written(w, r, seen[w])
  <2>1. /\ todo[w] # <<>> /\ seen[w] # Unread /\ ~Skips(w, r)
        /\ todo'[w] = Tail(todo[w]) /\ batch'[w] = batch[w] \cup {new}
        /\ seen'[w] = Unread /\ UNCHANGED <<vars, job>>
    BY <1>3, <1>9 DEF Put, Advance
  <2>2. seen[w] = txo[r] /\ job[w] # NoJob /\ r \in CallRefs(w) /\ r \in Ref
    <3>1. r \in Ref
      BY <1>3, <2>1, TailDistinct DEF Once
    <3> QED BY <1>7, <2>1, <3>1
  <2>3. new = Written(w, r, txo[r]) /\ new.ref = r /\ new.old = txo[r]
    BY <2>2 DEF Written, Filed
  <2>4. \A x, old : Written(w, x, old)' = Written(w, x, old)
    BY <2>1 DEF Written, IsInput
  <2>5. ~Unknown(w, r) /\ Waiting(w) = Waiting(w)' \cup {r}
    BY <1>7, <2>1, <2>2 DEF Skips, Unknown, Waiting
  <2> HIDE DEF r, new
  <2>6. Current(w)'
    BY <2>1, <2>3, <2>4 DEF Current, vars
  <2>7. Covered(w)'
    <3>1. Refs(w)' = Refs(w) \cup {r}
      BY <2>1, <2>3 DEF Refs
    <3>2. CallRefs(w)' = CallRefs(w) /\ job'[w] = job[w]
      BY <2>1 DEF CallRefs
    <3>3. \A x : Unknown(w, x)' <=> Unknown(w, x)
      BY <2>1 DEF Unknown, IsInput, vars
    <3> QED BY <2>2, <2>5, <3>1, <3>2, <3>3 DEF Covered
  <2> QED BY <1>1, <2>1, <2>6, <2>7
<1>10. ASSUME LockTimeout(w) PROVE LoneInv(w)' /\ [Next]_vars
  BY <1>4, <1>10 DEF LockTimeout
<1>11. ASSUME Commit(w) PROVE LoneInv(w)' /\ [Next]_vars
  <2>1. job[w] \in Job
    BY <1>2, <1>11, LoneBatch
  <2>2. Next
    <3>1. CASE job[w].op = "apply"
      <4>1. Apply(job[w].tx, job[w].slot)
        BY <1>2, <1>11, <3>1, CommitApplies
      <4> QED BY <2>1, <4>1 DEF Next, Job
    <3>2. CASE job[w].op = "unapply"
      <4>1. Unapply(job[w].tx)
        BY <1>2, <1>11, <3>2, CommitUnapplies
      <4> QED BY <2>1, <4>1 DEF Next, Job
    <3> QED BY <2>1, <3>1, <3>2 DEF Job
  <2>3. /\ job'[w] = NoJob /\ batch'[w] = {} /\ todo[w] = <<>>
        /\ UNCHANGED <<todo, seen>>
    BY <1>3, <1>11 DEF Commit
  <2>4. Current(w)' /\ Covered(w)'
    BY <2>3 DEF Current, Covered
  <2> QED BY <1>1, <2>2, <2>4
<1>12. ASSUME UnitQuery PROVE LoneInv(w)' /\ [Next]_vars
  <2>1. Next /\ UNCHANGED wvars /\ txo' = txo
    BY <1>12 DEF UnitQuery, Next, EnsureCheck, EnsureScan, EnsureCommit, Answer
  <2>2. Current(w)'
    BY <2>1 DEF Current, wvars, Written, IsInput
  <2>3. Covered(w)'
    BY <2>1 DEF Covered, Waiting, Refs, CallRefs, Unknown, IsInput, wvars
  <2> QED BY <1>1, <2>1, <2>2, <2>3
<1>13. CASE UNCHANGED allVars
  BY <1>4, <1>13 DEF allVars, wvars
<1> QED BY <1>2, <1>5, <1>6, <1>8, <1>9, <1>10, <1>11, <1>12, <1>13 DEF WritersNext

(* For one writer, reading and writing the references of a call one after  *)
(* the other and committing them together is the atomic apply or unapply   *)
(* of UtxoIndex: every step is one of its steps, or changes no table.      *)
THEOREM LoneWriterIsAtomic ==
  ASSUME NEW CONSTANT w, Writer = {w}
  PROVE  WritersSpec => AtomicSpec
<1>1. WritersInit => LoneInv(w) /\ Init
  <2> SUFFICES ASSUME WritersInit PROVE LoneInv(w) /\ Init
    OBVIOUS
  <2>1. WritersInv /\ job[w] = NoJob /\ seen[w] = Unread /\ batch[w] = {}
    BY WritersStart DEF WritersInit
  <2> QED BY <2>1 DEF LoneInv, Current, Covered, WritersInit
<1>2. LoneInv(w) /\ [WritersNext]_allVars => LoneInv(w)' /\ [Next]_vars
  BY LoneKeep
<1> QED BY <1>1, <1>2, PTL DEF WritersSpec, AtomicSpec, Spec

(* The references a lone writer counts as spent are marked spent.  The     *)
(* property alone says nothing of one that has no row, and would let its   *)
(* output come back unspent: none of them has no row.                      *)
SpendsMarked == spends \subseteq Live \ Unspent

LEMMA SpendsMarkedKept ==
  ASSUME NEW w, Writer = {w}, LoneInv(w), SpendsMarked, [WritersNext]_allVars
  PROVE  SpendsMarked'
<1>0. w \in Writer /\ \A v \in Writer : v = w
  OBVIOUS
<1>1. TypeOK
  BY DEF LoneInv, WritersInv
<1>2. ASSUME txo' = txo, spends' = spends PROVE SpendsMarked'
  BY <1>2 DEF SpendsMarked, Live, Unspent
<1>3. ASSUME Commit(w) PROVE SpendsMarked'
  <2> DEFINE t == job[w].tx
  <2>1. /\ job[w] \in Job /\ t \in Tx
        /\ Refs(w) = {r \in CallRefs(w) : ~Unknown(w, r)}
    BY <1>0, <1>3, LoneBatch DEF Job
  <2>2. TxIn[t] \subseteq Ref /\ TxOut[t] \subseteq Ref /\ TxIn[t] \cap TxOut[t] = {}
    BY <2>1, TxAssumption
  <2>3. TxIn[t] \cap Refs(w) \subseteq Live
    BY <2>1, <2>2 DEF Unknown, IsInput, Live
  <2>4. CASE job[w].op = "apply"
    <3>1. Apply(t, job[w].slot) /\ job[w].slot \in SlotOpt
      BY <1>0, <1>3, <2>1, <2>4, CommitApplies DEF Job
    <3>2. /\ Live' = Live \cup TxOut[t]
          /\ Unspent' = (Unspent \ ((TxIn[t] \cap Live) \cup (TxOut[t] \cap Live)))
                          \cup {r \in TxOut[t] : r \in Live => ~txo[r].spent}
      BY <1>1, <2>1, <3>1, ApplyUnspent
    <3>3. spends' = spends \cup (TxIn[t] \cap Refs(w))
      BY <1>3, <2>4 DEF Commit
    <3>4. \A r \in spends : r \in Live /\ txo[r].spent
      BY DEF SpendsMarked, Live, Unspent
    <3> QED
      BY <2>2, <2>3, <3>2, <3>3, <3>4 DEF SpendsMarked
  <2>5. CASE job[w].op = "unapply"
    <3>1. Unapply(t)
      BY <1>0, <1>3, <2>5, CommitUnapplies
    <3>2. /\ Live' = Live \ (TxOut[t] \cap Live)
          /\ Unspent' = (Unspent \ (TxOut[t] \cap Live)) \cup (TxIn[t] \cap Live)
      BY <1>1, <2>1, <3>1, UnapplyUnspent
    <3>3. spends' = spends \ (TxIn[t] \cup TxOut[t])
      BY <1>3, <2>5 DEF Commit
    <3> QED
      BY <3>2, <3>3 DEF SpendsMarked
  <2> QED
    BY <2>1, <2>4, <2>5 DEF Job
<1>4. CASE UnitQuery
  BY <1>2, <1>4 DEF UnitQuery, wvars, EnsureCheck, EnsureScan, EnsureCommit, Answer
<1>5. CASE UNCHANGED allVars
  BY <1>2, <1>5 DEF allVars, vars, wvars
<1>6. CASE \/ \E j \in Calls(w) : Start(w, j)
           \/ Read(w) \/ Skip(w) \/ Put(w) \/ LockTimeout(w)
  BY <1>2, <1>6 DEF Start, Read, Skip, Put, Advance, LockTimeout, vars
<1> QED
  BY <1>0, <1>3, <1>4, <1>5, <1>6 DEF WritersNext

(* While one task writes, an output that a transaction spends stays spent  *)
(* when its own transaction is confirmed, until the spender is unapplied   *)
(* (update_unspent_txo of src/index.rs, test                               *)
(* confirmation_preserves_pending_spend_state).                            *)
THEOREM LoneSpendSurvives ==
  ASSUME NEW CONSTANT w, Writer = {w}
  PROVE  WritersSpec => []SpendSurvives
<1>1. WritersInit => LoneInv(w) /\ SpendsMarked
  <2> SUFFICES ASSUME WritersInit PROVE LoneInv(w) /\ SpendsMarked
    OBVIOUS
  <2>1. WritersInv /\ job[w] = NoJob /\ seen[w] = Unread /\ batch[w] = {} /\ spends = {}
    BY WritersStart DEF WritersInit
  <2> QED BY <2>1 DEF LoneInv, Current, Covered, SpendsMarked
<1>2. LoneInv(w) /\ SpendsMarked /\ [WritersNext]_allVars => LoneInv(w)' /\ SpendsMarked'
  BY LoneKeep, SpendsMarkedKept
<1>3. SpendsMarked => SpendSurvives
  BY DEF SpendsMarked, SpendSurvives, Live, Unspent
<1> QED BY <1>1, <1>2, <1>3, PTL DEF WritersSpec
-----------------------------------------------------------------------------
(* Two writers.  Either may commit between the other's read of a row and   *)
(* its commit: what a writer has read need not be what the table holds.    *)
Applies(w) == job[w] # NoJob /\ job[w].op = "apply"

RowInv(w) ==
    /\ seen[w] # Unread => todo[w] # <<>>
    /\ job[w] # NoJob => Waiting(w) \cup Refs(w) \subseteq CallRefs(w)
    /\ Applies(w) => TxOut[job[w].tx] \subseteq Waiting(w) \cup Refs(w)
    /\ \A e \in batch[w] :
         IF job[w].op = "apply" THEN e.new # Absent /\ (IsInput(w, e.ref) => e.new.spent)
         ELSE e.new # Absent <=> IsInput(w, e.ref)

(* The locks: no two uncommitted batches have a row in common.             *)
Exclusive == \A v, w \in Writer : v # w => Refs(v) \cap Refs(w) = {}

Rows == WritersInv /\ (\A w \in Writer : RowInv(w)) /\ Exclusive

(* Outputs of its call that a writer has read, or written, as unspent.     *)
HeldBy(w) ==
    {r \in TxOut[job[w].tx] :
        \/ \E e \in batch[w] : e.ref = r /\ ~e.new.spent
        \/ Pending(w, r) /\ (seen[w] = Absent \/ ~seen[w].spent)}

(* The first of the references that wait, and the others.                  *)
LEMMA HeadWaits ==
  ASSUME Rows, NEW w \in Writer, todo[w] # <<>>
  PROVE  /\ job[w] # NoJob /\ job[w] \in Job
         /\ Head(todo[w]) \in Ref /\ Tail(todo[w]) \in Seq(Ref)
         /\ Waiting(w) = {Tail(todo[w])[i] : i \in 1..Len(Tail(todo[w]))} \cup {Head(todo[w])}
         /\ Head(todo[w]) \notin {Tail(todo[w])[i] : i \in 1..Len(Tail(todo[w]))}
         /\ Head(todo[w]) \notin Refs(w)
         /\ Head(todo[w]) \in CallRefs(w)
<1>1. /\ job[w] \in Job \cup {NoJob} /\ todo[w] \in Seq(Ref)
      /\ Between(w) /\ Once(w) /\ RowInv(w)
  BY DEF Rows, WritersInv, WritersTyped
<1>2. job[w] # NoJob /\ job[w] \in Job
  BY <1>1 DEF Between
<1>3. Distinct(todo[w])
  BY <1>1 DEF Once
<1>4. /\ Head(todo[w]) \in Ref /\ Tail(todo[w]) \in Seq(Ref)
      /\ Head(todo[w]) = todo[w][1] /\ 1 \in 1..Len(todo[w])
      /\ Len(Tail(todo[w])) = Len(todo[w]) - 1
      /\ \A i \in 1..Len(Tail(todo[w])) : /\ Tail(todo[w])[i] = todo[w][i + 1]
                                          /\ i + 1 \in 1..Len(todo[w])
                                          /\ Tail(todo[w])[i] # Head(todo[w])
  BY <1>1, <1>3, TailDistinct
<1>5. Waiting(w) = {Tail(todo[w])[i] : i \in 1..Len(Tail(todo[w]))} \cup {Head(todo[w])}
  <2> DEFINE R == {Tail(todo[w])[i] : i \in 1..Len(Tail(todo[w]))} \cup {Head(todo[w])}
  <2>1. R \subseteq Waiting(w)
    BY <1>4 DEF Waiting
  <2>2. \A i \in 1..Len(todo[w]) : todo[w][i] \in R
    <3> SUFFICES ASSUME NEW i \in 1..Len(todo[w]), i # 1 PROVE todo[w][i] \in R
      BY <1>4
    <3>1. i - 1 \in 1..Len(Tail(todo[w])) /\ (i - 1) + 1 = i
      BY <1>1, <1>4
    <3>2. Tail(todo[w])[i - 1] = todo[w][i]
      BY <3>1, <1>4
    <3> QED BY <3>1, <3>2
  <2> QED BY <2>1, <2>2 DEF Waiting
<1>6. Head(todo[w]) \notin Refs(w)
  BY <1>1, <1>4 DEF Once
<1>7. Head(todo[w]) \in CallRefs(w)
  BY <1>1, <1>2, <1>5 DEF RowInv
<1> QED BY <1>2, <1>4, <1>5, <1>6, <1>7

(* The kinds of rows a call writes.                                        *)
LEMMA WrittenKinds ==
  ASSUME NEW w \in Writer, NEW r \in Ref, job[w] \in Job, seen[w] \in Txo \cup {Absent},
         ~Skips(w, r)
  PROVE  LET e == Written(w, r, seen[w])
         IN  /\ e.ref = r
             /\ IF job[w].op = "apply"
                THEN /\ e.new # Absent
                     /\ IsInput(w, r) => e.new.spent
                     /\ ~IsInput(w, r) => (e.new.spent <=> (seen[w] # Absent /\ seen[w].spent))
                ELSE e.new # Absent <=> IsInput(w, r)
<1> DEFINE old == seen[w]
           s == job[w].slot
           e == Written(w, r, old)
<1> USE AbsentAssumption
<1>1. s \in SlotOpt /\ old \in Txo \cup {Absent}
  BY DEF Job
<1>2. job[w].op # "apply" => job[w].op = "unapply"
  BY DEF Job
<1>3. (IsInput(w, r) => old # Absent) /\ (job[w].op = "unapply" => old # Absent)
  BY DEF Skips
<1> HIDE DEF old, s
<1>4. CASE job[w].op = "apply" /\ IsInput(w, r)
  <2> DEFINE new == [old EXCEPT !.spent = TRUE]
  <2>1. old \in Txo /\ e = Filed(r, old, new, s)
    BY <1>1, <1>3, <1>4 DEF Written, s
  <2>2. new \in Txo /\ new.spent = TRUE
    BY <2>1
  <2> HIDE DEF new
  <2>3. e.ref = r /\ e.new = new
    BY <2>1 DEF Filed
  <2> HIDE DEF e
  <2> QED BY <2>2, <2>3, <1>4 DEF e, old
<1>5. CASE job[w].op = "apply" /\ ~IsInput(w, r)
  <2> DEFINE b == old # Absent /\ old.spent
             new == Stored(s, b)
  <2>1. e = Filed(r, old, new, s)
    BY <1>5 DEF Written, s
  <2>2. b \in BOOLEAN
    BY <1>1
  <2>3. new \in Txo /\ new.spent = b
    <3> HIDE DEF b
    <3> QED BY <2>2, <1>1
  <2> HIDE DEF new
  <2>4. e.ref = r /\ e.new = new
    BY <2>1 DEF Filed
  <2> HIDE DEF e
  <2> QED BY <2>3, <2>4, <1>5 DEF e, old
<1>6. CASE job[w].op # "apply" /\ IsInput(w, r)
  <2> DEFINE new == [old EXCEPT !.spent = FALSE]
  <2>1. old \in Txo /\ e = Filed(r, old, new, old.settled)
    BY <1>1, <1>3, <1>6 DEF Written
  <2>2. new \in Txo
    BY <2>1
  <2> HIDE DEF new
  <2>3. e.ref = r /\ e.new = new
    BY <2>1 DEF Filed
  <2> HIDE DEF e
  <2> QED BY <2>2, <2>3, <1>6 DEF e, old
<1>7. CASE job[w].op # "apply" /\ ~IsInput(w, r)
  <2>1. e = Filed(r, old, Absent, Deleted)
    BY <1>7 DEF Written
  <2>2. e.ref = r /\ e.new = Absent
    BY <2>1 DEF Filed
  <2> HIDE DEF e
  <2> QED BY <2>2, <1>7 DEF e, old
<1> QED BY <1>4, <1>5, <1>6, <1>7

(* A step of one writer leaves the rows of the others.                     *)
LEMMA OtherRows ==
  ASSUME NEW v \in Writer, UNCHANGED <<job[v], todo[v], seen[v], batch[v]>>, RowInv(v)
  PROVE  RowInv(v)'
BY DEF RowInv, Waiting, Refs, CallRefs, Applies, IsInput

LEMMA RowsKept ==
  ASSUME Rows, [WritersNext]_allVars
  PROVE  Rows'
<1>0. WritersInv' /\ WritersTyped
  BY WritersKeep DEF Rows, WritersInv
<1>1. ASSUME UNCHANGED <<job, todo, seen, batch>> PROVE Rows'
  <2>1. \A v \in Writer : RowInv(v)'
    BY <1>1, OtherRows DEF Rows
  <2> QED BY <1>0, <1>1, <2>1 DEF Rows, Exclusive, Refs
<1>2. ASSUME NEW w \in Writer, RowInv(w)', Refs(w)' \subseteq Refs(w),
             \A v \in Writer \ {w} : UNCHANGED <<job[v], todo[v], seen[v], batch[v]>>
      PROVE  Rows'
  <2>1. \A v \in Writer : RowInv(v)'
    BY <1>2, OtherRows DEF Rows
  <2>2. \A v \in Writer : Refs(v)' \subseteq Refs(v)
    BY <1>2 DEF Refs
  <2>3. Exclusive'
    BY <2>2 DEF Rows, Exclusive
  <2> QED BY <1>0, <2>1, <2>3 DEF Rows
<1>3. ASSUME NEW w \in Writer, NEW j \in Calls(w), Start(w, j) PROVE Rows'
  <2>1. /\ job'[w] = j /\ todo'[w] = InSeq[j.tx] \o OutSeq[j.tx] /\ job[w] = NoJob
        /\ seen'[w] = seen[w] /\ batch'[w] = batch[w]
        /\ \A v \in Writer \ {w} : UNCHANGED <<job[v], todo[v], seen[v], batch[v]>>
    BY <1>0, <1>3 DEF Start, WritersTyped
  <2>2. j.tx \in Tx
    BY DEF Calls
  <2>3. todo[w] = <<>> /\ batch[w] = {} /\ seen[w] = Unread
    BY <2>1 DEF Rows, WritersInv, Between, RowInv
  <2>4. Waiting(w)' = TxIn[j.tx] \cup TxOut[j.tx] /\ CallRefs(w)' = TxIn[j.tx] \cup TxOut[j.tx]
    <3>1. CallRefs(w)' = TxIn[j.tx] \cup TxOut[j.tx]
      BY <2>1 DEF CallRefs
    <3>2. Waiting(w)' = {(InSeq[j.tx] \o OutSeq[j.tx])[i] : i \in 1..Len(InSeq[j.tx] \o OutSeq[j.tx])}
      BY <2>1 DEF Waiting
    <3> QED BY <2>2, <3>1, <3>2, CallDistinct
  <2>5. Refs(w)' = {} /\ batch'[w] = {} /\ seen'[w] = Unread
    BY <2>1, <2>3 DEF Refs
  <2>6. RowInv(w)'
    BY <2>1, <2>4, <2>5 DEF RowInv, Applies
  <2> QED BY <1>2, <2>1, <2>5, <2>6
<1>4. ASSUME NEW w \in Writer, Read(w) PROVE Rows'
  <2>1. /\ todo[w] # <<>> /\ UNCHANGED <<job, todo, batch>>
        /\ \A v \in Writer \ {w} : UNCHANGED <<job[v], todo[v], seen[v], batch[v]>>
    BY <1>0, <1>4 DEF Read, WritersTyped
  <2>2. Refs(w)' = Refs(w)
    BY <2>1 DEF Refs
  <2>3. RowInv(w)'
    BY <2>1 DEF Rows, RowInv, Waiting, Refs, CallRefs, Applies, IsInput
  <2> QED BY <1>2, <2>1, <2>2, <2>3
<1>5. ASSUME NEW w \in Writer, Skip(w) PROVE Rows'
  <2> DEFINE r == Head(todo[w])
  <2>1. /\ todo[w] # <<>> /\ seen[w] = Absent /\ (IsInput(w, r) \/ job[w].op = "unapply")
        /\ todo'[w] = Tail(todo[w]) /\ seen'[w] = Unread /\ UNCHANGED <<job, batch>>
        /\ \A v \in Writer \ {w} : UNCHANGED <<job[v], todo[v], seen[v], batch[v]>>
    BY <1>0, <1>5 DEF Skip, Skips, Advance, WritersTyped
  <2>2. Waiting(w) = Waiting(w)' \cup {r} /\ job[w] \in Job
    <3>1. /\ Waiting(w) = {Tail(todo[w])[i] : i \in 1..Len(Tail(todo[w]))} \cup {r}
          /\ job[w] \in Job
      BY <2>1, HeadWaits
    <3>2. Waiting(w)' = {Tail(todo[w])[i] : i \in 1..Len(Tail(todo[w]))}
      BY <2>1 DEF Waiting
    <3> QED BY <3>1, <3>2
  <2>3. Refs(w)' = Refs(w) /\ CallRefs(w)' = CallRefs(w) /\ Applies(w)' = Applies(w)
    BY <2>1 DEF Refs, CallRefs, Applies
  <2>4. Applies(w) => r \notin TxOut[job[w].tx]
    BY <2>1, <2>2, TxAssumption DEF Applies, IsInput, Job
  <2>5. RowInv(w)
    BY DEF Rows
  <2> HIDE DEF r
  <2>6. RowInv(w)'
    BY <2>1, <2>2, <2>3, <2>4, <2>5 DEF RowInv, IsInput
  <2> QED BY <1>2, <2>1, <2>3, <2>6
<1>6. ASSUME NEW w \in Writer, Put(w) PROVE Rows'
  <2> DEFINE r == Head(todo[w])
             new == Written(w, r, seen[w])
  <2>1. /\ todo[w] # <<>> /\ seen[w] # Unread /\ ~Skips(w, r) /\ ~Locked(w, r)
        /\ todo'[w] = Tail(todo[w]) /\ seen'[w] = Unread
        /\ batch'[w] = batch[w] \cup {new} /\ job' = job
        /\ \A v \in Writer \ {w} : UNCHANGED <<job[v], todo[v], seen[v], batch[v]>>
    BY <1>0, <1>6 DEF Put, Advance, WritersTyped
  <2>2. /\ Waiting(w) = Waiting(w)' \cup {r} /\ job[w] \in Job /\ r \in Ref /\ r \in CallRefs(w)
    <3>1. /\ Waiting(w) = {Tail(todo[w])[i] : i \in 1..Len(Tail(todo[w]))} \cup {r}
          /\ job[w] \in Job /\ r \in Ref /\ r \in CallRefs(w)
      BY <2>1, HeadWaits
    <3>2. Waiting(w)' = {Tail(todo[w])[i] : i \in 1..Len(Tail(todo[w]))}
      BY <2>1 DEF Waiting
    <3> QED BY <3>1, <3>2
  <2>3. /\ new.ref = r
        /\ IF job[w].op = "apply" THEN new.new # Absent /\ (IsInput(w, r) => new.new.spent)
           ELSE new.new # Absent <=> IsInput(w, r)
    <3>1. seen[w] \in Txo \cup {Absent}
      BY <1>0, <2>1 DEF WritersTyped
    <3> QED BY <2>1, <2>2, <3>1, WrittenKinds
  <2> HIDE DEF new, r
  <2>4. Refs(w)' = Refs(w) \cup {r} /\ CallRefs(w)' = CallRefs(w) /\ Applies(w)' = Applies(w)
    BY <2>1, <2>3 DEF Refs, CallRefs, Applies
  <2>5. RowInv(w)
    BY DEF Rows
  <2>6. RowInv(w)'
    <3>1. \A e \in batch'[w] :
            IF job[w].op = "apply" THEN e.new # Absent /\ (IsInput(w, e.ref) => e.new.spent)
            ELSE e.new # Absent <=> IsInput(w, e.ref)
      BY <2>1, <2>3, <2>5 DEF RowInv
    <3> QED BY <2>1, <2>2, <2>4, <2>5, <3>1 DEF RowInv, IsInput
  <2>7. \A v \in Writer \ {w} : Refs(v)' = Refs(v) /\ r \notin Refs(v)
    BY <2>1 DEF Refs, Locked
  <2>8. Exclusive'
    BY <2>4, <2>7 DEF Rows, Exclusive
  <2>9. \A v \in Writer \ {w} : RowInv(v)'
    BY <2>1, OtherRows DEF Rows
  <2> QED BY <1>0, <2>6, <2>8, <2>9 DEF Rows
<1>7. ASSUME NEW w \in Writer, LockTimeout(w) PROVE Rows'
  BY <1>1, <1>7 DEF LockTimeout
<1>8. ASSUME NEW w \in Writer, Commit(w) PROVE Rows'
  <2>1. /\ job'[w] = NoJob /\ batch'[w] = {} /\ todo[w] = <<>> /\ UNCHANGED <<todo, seen>>
        /\ \A v \in Writer \ {w} : UNCHANGED <<job[v], todo[v], seen[v], batch[v]>>
    BY <1>0, <1>8 DEF Commit, WritersTyped
  <2>2. seen[w] = Unread
    BY <2>1 DEF Rows, RowInv
  <2>3. Refs(w)' = {}
    BY <2>1 DEF Refs
  <2>4. RowInv(w)'
    BY <2>1, <2>2 DEF RowInv, Applies
  <2> QED BY <1>2, <2>1, <2>3, <2>4
<1>9. CASE UnitQuery
  BY <1>1, <1>9 DEF UnitQuery, wvars
<1>10. CASE UNCHANGED allVars
  BY <1>1, <1>10 DEF allVars, wvars
<1> QED BY <1>3, <1>4, <1>5, <1>6, <1>7, <1>8, <1>9, <1>10 DEF WritersNext

LEMMA RowsStart == ASSUME WritersInit PROVE Rows
<1>1. \A w \in Writer : job[w] = NoJob /\ todo[w] = <<>> /\ batch[w] = {} /\ seen[w] = Unread
  BY DEF WritersInit
<1>2. \A w \in Writer : RowInv(w) /\ Refs(w) = {}
  BY <1>1 DEF RowInv, Refs, Applies
<1> QED BY <1>2, WritersStart DEF Rows, Exclusive

(* The commit of an apply: every output has a row, every input it did not  *)
(* skip is spent, and only an output written as unspent comes to be so.    *)
LEMMA CommitApplied ==
  ASSUME Rows, NEW w \in Writer, Commit(w), Applies(w)
  PROVE  /\ job[w].tx \in Tx
         /\ Live \subseteq Live' /\ TxOut[job[w].tx] \subseteq Live'
         /\ \A r \in TxIn[job[w].tx] \cap Refs(w) :
              r \in Ref /\ txo'[r] # Absent /\ txo'[r].spent /\ r \notin Unspent'
         /\ Unspent' \subseteq Unspent \cup (HeldBy(w) \cap TxOut[job[w].tx])
<1> DEFINE t == job[w].tx
<1>1. /\ job[w] \in Job /\ t \in Tx /\ todo[w] = <<>> /\ Waiting(w) = {} /\ WritersInv
  BY DEF Rows, WritersInv, WritersTyped, Commit, Job, Waiting
<1>2. /\ TxOut[t] \subseteq Refs(w) /\ Refs(w) \subseteq TxIn[t] \cup TxOut[t]
      /\ \A e \in batch[w] : e.new # Absent /\ (e.ref \in TxIn[t] => e.new.spent)
  BY <1>1 DEF Rows, RowInv, Applies, CallRefs, IsInput
<1>3. /\ Refs(w) \subseteq Ref
      /\ \A r \in Ref \ Refs(w) : txo'[r] = txo[r]
      /\ \A e \in batch[w] : txo'[e.ref] = e.new
  BY <1>1, CommitRows
<1>4. \A r \in Refs(w) : \E e \in batch[w] : e.ref = r
  BY DEF Refs
<1>5. \A r \in Refs(w) : r \in Live'
  BY <1>2, <1>3, <1>4 DEF Live
<1>6. Live \subseteq Live'
  BY <1>3, <1>5 DEF Live
<1>7. \A r \in TxIn[t] \cap Refs(w) : r \in Ref /\ txo'[r] # Absent /\ txo'[r].spent /\ r \notin Unspent'
  BY <1>2, <1>3, <1>4 DEF Unspent, Live
<1>8. ASSUME NEW r \in Unspent', r \notin Unspent PROVE r \in HeldBy(w) \cap TxOut[t]
  <2>1. r \in Refs(w)
    BY <1>3, <1>8 DEF Unspent, Live
  <2>2. PICK e \in batch[w] : e.ref = r
    BY <1>4, <2>1
  <2>3. ~e.new.spent
    BY <1>3, <1>8, <2>2 DEF Unspent, Live
  <2>4. r \in TxOut[t]
    BY <1>2, <2>1, <2>2, <2>3
  <2> QED BY <2>2, <2>3, <2>4 DEF HeldBy
<1> QED BY <1>1, <1>2, <1>5, <1>6, <1>7, <1>8

(* The commit of an unapply: only its outputs lose their rows, and only    *)
(* its inputs come to be unspent.                                          *)
LEMMA CommitUnapplied ==
  ASSUME Rows, NEW w \in Writer, Commit(w), ~Applies(w)
  PROVE  /\ job[w].tx \in Tx
         /\ Live \ TxOut[job[w].tx] \subseteq Live'
         /\ Unspent' \subseteq Unspent \cup TxIn[job[w].tx]
<1> DEFINE t == job[w].tx
<1>1. /\ job[w] \in Job /\ t \in Tx /\ job[w].op # "apply" /\ job[w] # NoJob /\ WritersInv
  BY DEF Rows, WritersInv, WritersTyped, Commit, Job, Applies
<1>2. /\ Refs(w) \subseteq TxIn[t] \cup TxOut[t] /\ TxIn[t] \cap TxOut[t] = {}
      /\ \A e \in batch[w] : e.new # Absent <=> e.ref \in TxIn[t]
  BY <1>1, TxAssumption DEF Rows, RowInv, CallRefs, IsInput
<1>3. /\ Refs(w) \subseteq Ref
      /\ \A r \in Ref \ Refs(w) : txo'[r] = txo[r]
      /\ \A e \in batch[w] : txo'[e.ref] = e.new
  BY <1>1, CommitRows
<1>4. \A r \in Refs(w) : \E e \in batch[w] : e.ref = r
  BY DEF Refs
<1>5. \A r \in Refs(w) : r \in Live' <=> r \in TxIn[t]
  BY <1>2, <1>3, <1>4 DEF Live
<1> QED BY <1>1, <1>2, <1>3, <1>5 DEF Live, Unspent

-----------------------------------------------------------------------------
(* The tasks of the process: the specification of Monitor.                 *)

ChainEvent == [kind : {"apply", "unapply"}, tx : Tx, block : 1..MaxBlocks]

LedgerType ==
    /\ chain \in Seq(Seq(Tx)) /\ Len(chain) <= MaxBlocks
    /\ ledgerQ \in Seq(ChainEvent)
    /\ confirmedQ \in Seq([tx : Tx, block : 1..MaxBlocks])

TrackerType ==
    /\ currentBlock \in Nat /\ clock \in Nat
    /\ queue \subseteq Agent!Entry /\ IsFiniteSet(queue)
    /\ outbox \in Seq(Agent!Entry)
    /\ failed \in Seq(Tx)

MempoolType ==
    /\ filter \in Seq(Tx)
    /\ incomingQ \in Seq(Tx)
    /\ dropped \subseteq Tx

MonitorType == Rows /\ LedgerType /\ TrackerType /\ MempoolType

(* What the mempool task has yielded is in the index, until the tracker or *)
(* the chain takes it back.                                                *)
Yielded == Elems(filter)

YieldedShown ==
    \A t \in Yielded \ (undone \cup dropped) :
        (Applies(Mempool) /\ job[Mempool].tx = t) \/ TxOut[t] \subseteq Live

-----------------------------------------------------------------------------
(* Types.                                                                  *)

(* Every step of the process is a step of the index's two writers.         *)
LEMMA WriterSteps ==
  ASSUME TwoTasks, MonitorType, [MonitorNext]_monitorVars
  PROVE  [WritersNext]_allVars
<1>1. Ledger \in Writer /\ Mempool \in Writer
  BY DEF TwoTasks
<1>2. CASE LedgerForward
  <2> DEFINE e == Head(ledgerQ)
             j == Call(e.kind, e.tx, IF e.kind = "apply" THEN e.block ELSE None)
  <2>1. e \in ChainEvent /\ Start(Ledger, j)
    BY <1>2 DEF LedgerForward, MonitorType, LedgerType
  <2>2. j \in Calls(Ledger)
    BY <2>1 DEF ChainEvent, Calls, Call, TwoTasks
  <2> QED BY <1>1, <2>1, <2>2 DEF WritersNext
<1>3. ASSUME NEW t \in Tx, Accept(t) PROVE [WritersNext]_allVars
  <2>1. Call("apply", t, None) \in Calls(Mempool)
    BY DEF Calls, Call, TwoTasks
  <2> QED BY <1>1, <1>3, <2>1 DEF Accept, WritersNext
<1>4. CASE Drop
  <2>1. Head(failed) \in Tx
    BY <1>4 DEF Drop, MonitorType, TrackerType
  <2>2. Call("unapply", Head(failed), None) \in Calls(Mempool)
    BY <2>1 DEF Calls, Call
  <2> QED BY <1>1, <1>4, <2>2 DEF Drop, WritersNext
<1>5. CASE RowStep(Ledger) \/ RowStep(Mempool) \/ LedgerCommit \/ MempoolCommit
  BY <1>1, <1>5 DEF RowStep, LedgerCommit, MempoolCommit, CommitOver, WritersNext
<1>6. CASE Node \/ TipReached \/ Acquire \/ AgentTask \/ UNCHANGED monitorVars
  BY <1>6 DEF Node, Submit, Mine, RollBack, TipReached, Acquire, AgentTask, AgentTrack, AgentConfirm,
              AgentSend, monitorVars
<1> QED BY <1>2, <1>3, <1>4, <1>5, <1>6 DEF MonitorNext, LedgerTask, MempoolTask, MempoolIndex

(* The steps of a call leave everything else alone.                        *)
LEMMA CallSteps ==
  ASSUME RowStep(Ledger) \/ RowStep(Mempool) \/ LedgerCommit \/ MempoolCommit
  PROVE  UNCHANGED <<nodeVars, channels, trackerVars, ledgerQ, synced, snapshot, filter, returned>>
BY DEF RowStep, LedgerCommit, MempoolCommit, processVars, ledgerVars, mempoolVars

(* The last block of a chain, and what is before it.                       *)
LEMMA LastBlock ==
  ASSUME NEW S, NEW c \in Seq(S), c # <<>>
  PROVE  /\ Len(c) \in Nat /\ 1 <= Len(c) /\ Last(c) = c[Len(c)] /\ Last(c) \in S
         /\ Front(c) \in Seq(S) /\ Len(Front(c)) = Len(c) - 1
         /\ \A i \in 1..Len(c) - 1 : Front(c)[i] = c[i]
<1>1. Len(c) \in Nat /\ 1 <= Len(c)
  OBVIOUS
<1>2. Last(c) = c[Len(c)] /\ Last(c) \in S
  BY <1>1 DEF Last
<1>3. Front(c) = [i \in 1..Len(c) - 1 |-> c[i]]
  BY <1>1 DEF Front
<1>4. Front(c) \in Seq(S) /\ Len(Front(c)) = Len(c) - 1
  BY <1>1, <1>3
<1> QED BY <1>1, <1>2, <1>3, <1>4

LEMMA BlockTypes == Blocks \subseteq Seq(Tx)
BY MonitorAssumption

LEMMA LedgerTypesKept ==
  ASSUME LedgerType, [MonitorNext]_monitorVars
  PROVE  LedgerType'
<1> USE DEF LedgerType
<1>1. ASSUME NEW s \in Blocks, Mine(s) PROVE LedgerType'
  <2>1. s \in Seq(Tx) /\ Len(s) \in Nat
    BY BlockTypes
  <2>2. chain' = Append(chain, s) /\ Len(chain) < MaxBlocks
    BY <1>1 DEF Mine
  <2>3. chain' \in Seq(Seq(Tx)) /\ Len(chain') = Len(chain) + 1 /\ Len(chain') \in 1..MaxBlocks
    BY <2>1, <2>2, MonitorAssumption
  <2> DEFINE es == [i \in 1..Len(s) |-> [kind |-> "apply", tx |-> s[i], block |-> Len(chain')]]
  <2>4. es \in Seq(ChainEvent)
    BY <2>1, <2>3 DEF ChainEvent
  <2>5. ledgerQ' \in Seq(ChainEvent)
    <3>1. ledgerQ' = ledgerQ \o es
      BY <1>1 DEF Mine
    <3> HIDE DEF es
    <3> QED BY <2>4, <3>1
  <2> QED BY <1>1, <2>3, <2>5 DEF Mine, ledgerVars, channels
<1>2. CASE RollBack
  <2> DEFINE D == Seq(Tx)
  <2>0. chain' = Front(chain) /\ chain # <<>> /\ chain \in Seq(D) /\ Len(chain) <= MaxBlocks
    BY <1>2 DEF RollBack
  <2>1. /\ chain' \in Seq(Seq(Tx)) /\ Len(chain) \in 1..MaxBlocks
        /\ Last(chain) \in Seq(Tx) /\ Len(chain') = Len(chain) - 1
    <3> HIDE DEF D
    <3>1. /\ Len(chain) \in Nat /\ 1 <= Len(chain) /\ Last(chain) \in D
          /\ Front(chain) \in Seq(D) /\ Len(Front(chain)) = Len(chain) - 1
      BY <2>0, LastBlock
    <3> QED BY <2>0, <3>1, MonitorAssumption DEF D
  <2> DEFINE s == Reverse(Last(chain))
             es == [i \in 1..Len(s) |-> [kind |-> "unapply", tx |-> s[i], block |-> Len(chain)]]
  <2>2. s \in Seq(Tx)
    BY <2>1 DEF Reverse
  <2>3. es \in Seq(ChainEvent)
    <3> HIDE DEF s
    <3> QED BY <2>1, <2>2 DEF ChainEvent
  <2>4. ledgerQ' \in Seq(ChainEvent)
    <3>1. ledgerQ' = ledgerQ \o es
      BY <1>2 DEF RollBack
    <3> HIDE DEF es
    <3> QED BY <2>3, <3>1
  <2>5. UNCHANGED confirmedQ
    BY <1>2 DEF RollBack, channels
  <2>6. Len(chain') <= MaxBlocks
    BY <2>1, MonitorAssumption
  <2> QED BY <2>1, <2>4, <2>5, <2>6
<1>3. CASE LedgerForward
  <2>1. Head(ledgerQ) \in ChainEvent /\ Tail(ledgerQ) \in Seq(ChainEvent)
    BY <1>3 DEF LedgerForward
  <2>2. [tx |-> Head(ledgerQ).tx, block |-> Head(ledgerQ).block] \in [tx : Tx, block : 1..MaxBlocks]
    BY <2>1 DEF ChainEvent
  <2>3. confirmedQ' \in Seq([tx : Tx, block : 1..MaxBlocks])
    BY <1>3, <2>2 DEF LedgerForward
  <2> QED BY <1>3, <2>1, <2>3 DEF LedgerForward, nodeVars
<1>4. CASE AgentConfirm
  <2>1. confirmedQ' \in Seq([tx : Tx, block : 1..MaxBlocks])
    BY <1>4 DEF AgentConfirm
  <2> QED BY <1>4, <2>1 DEF AgentConfirm, nodeVars, ledgerVars
<1>5. ASSUME UNCHANGED <<chain, ledgerQ, confirmedQ>> PROVE LedgerType'
  BY <1>5
<1>6. CASE RowStep(Ledger) \/ RowStep(Mempool) \/ LedgerCommit \/ MempoolCommit
  BY <1>5, <1>6, CallSteps DEF nodeVars, channels
<1>7. CASE Acquire \/ (\E t \in Tx : Submit(t) \/ Accept(t)) \/ Drop \/ TipReached \/ AgentTrack
           \/ AgentSend \/ UNCHANGED monitorVars
  BY <1>5, <1>7 DEF Acquire, Submit, Accept, Drop, TipReached, AgentTrack, AgentSend,
                    monitorVars, processVars, nodeVars, ledgerVars, channels
<1> QED BY <1>1, <1>2, <1>3, <1>4, <1>6, <1>7
    DEF MonitorNext, Node, LedgerTask, MempoolTask, MempoolIndex, AgentTask

(* A batch of the tracker is made of what was due.                         *)
LEMMA BatchOf ==
  ASSUME NEW S, IsFiniteSet(S), NEW s \in Agent!Batches(S)
  PROVE  s \in Seq(S)
<1>1. Cardinality(S) \in Nat
  BY FS_CardinalityType
<1>2. Agent!Cardinality(S) = Cardinality(S)
  BY Zenon DEF Agent!Cardinality, Cardinality
<1>3. s \in [1..Cardinality(S) -> S]
  BY <1>2 DEF Agent!Batches, Agent!SetToSeqs
<1> QED BY <1>1, <1>3

LEMMA ConfirmTakes ==
  ASSUME NEW t, NEW b, Agent!ConfirmTx(t, b), IsFiniteSet(queue)
  PROVE  /\ queue' \subseteq queue /\ IsFiniteSet(queue')
         /\ outbox' \in Seq(queue)
         /\ currentBlock' \in {currentBlock, b}
         /\ UNCHANGED <<clock, failed>>
<1> DEFINE due == Agent!Due(Agent!Kept(t), b)
<1>1. due \subseteq queue /\ outbox' \in Agent!Batches(due) /\ queue' \subseteq queue
  BY DEF Agent!ConfirmTx, Agent!Due, Agent!Kept
<1>2. IsFiniteSet(due) /\ IsFiniteSet(queue')
  BY <1>1, FS_Subset
<1>3. outbox' \in Seq(due)
  <2> HIDE DEF due
  <2> QED BY <1>1, <1>2, BatchOf
<1>4. outbox' \in Seq(queue)
  <2> HIDE DEF due
  <2> QED BY <1>1, <1>3
<1> QED BY <1>1, <1>2, <1>4 DEF Agent!ConfirmTx

LEMMA TrackerTypesKept ==
  ASSUME LedgerType, TrackerType, MempoolType, [MonitorNext]_monitorVars
  PROVE  TrackerType'
<1> USE DEF TrackerType
<1>1. CASE AgentTrack
  <2> DEFINE t == Head(incomingQ)
             until == Agent!Deadline
             same == {e \in queue : e.tx = t /\ e.until = until}
             new == [tx |-> t, until |-> until, at |-> clock]
  <2>1. t \in Tx /\ Agent!Track(t)
    BY <1>1 DEF AgentTrack, MempoolType
  <2>2. CASE Agent!IsRecent(t)
    BY <2>1, <2>2 DEF Agent!Track, Agent!trackerVars
  <2>3. CASE ~Agent!IsRecent(t)
    <3>1. /\ queue' = (queue \ same) \cup {new} /\ clock' = clock + 1
          /\ UNCHANGED <<currentBlock, outbox, failed>>
      BY <2>1, <2>3 DEF Agent!Track
    <3>2. new \in Agent!Entry
      BY <2>1, MonitorAssumption DEF Agent!Entry, Agent!Deadline
    <3>3. IsFiniteSet(queue \ same)
      BY FS_Subset
    <3> HIDE DEF same, new
    <3>4. IsFiniteSet(queue')
      BY <3>1, <3>3, FS_AddElement
    <3> QED BY <3>1, <3>2, <3>4
  <2> QED BY <2>2, <2>3
<1>2. CASE AgentConfirm
  <2> DEFINE c == Head(confirmedQ)
  <2>1. c.tx \in Tx /\ c.block \in 1..MaxBlocks /\ Agent!ConfirmTx(c.tx, c.block)
    <3> DEFINE C == [tx : Tx, block : 1..MaxBlocks]
    <3>1. confirmedQ \in Seq(C) /\ confirmedQ # <<>>
      BY <1>2 DEF AgentConfirm, LedgerType
    <3>2. c \in C
      <4> HIDE DEF C
      <4> QED BY <3>1
    <3> QED BY <1>2, <3>2 DEF AgentConfirm
  <2> HIDE DEF c
  <2>2. /\ queue' \subseteq queue /\ IsFiniteSet(queue') /\ outbox' \in Seq(queue)
        /\ currentBlock' \in {currentBlock, c.block} /\ UNCHANGED <<clock, failed>>
    BY <2>1, ConfirmTakes
  <2>3. outbox' \in Seq(Agent!Entry)
    BY <2>2
  <2> QED BY <2>1, <2>2, <2>3, MonitorAssumption
<1>3. CASE AgentSend
  <2>1. outbox # <<>> /\ failed' = Append(failed, Head(outbox).tx) /\ outbox' = Tail(outbox)
        /\ UNCHANGED <<currentBlock, clock, queue>>
    BY <1>3 DEF AgentSend, Agent!SendFailed
  <2>2. Head(outbox) \in Agent!Entry
    BY <2>1
  <2>3. Head(outbox).tx \in Tx
    BY <2>2 DEF Agent!Entry
  <2> QED BY <2>1, <2>3
<1>4. CASE Drop
  BY <1>4 DEF Drop, Agent!TakeFailed
<1>5. ASSUME UNCHANGED trackerVars PROVE TrackerType'
  BY <1>5 DEF trackerVars
<1>6. CASE RowStep(Ledger) \/ RowStep(Mempool) \/ LedgerCommit \/ MempoolCommit
  BY <1>5, <1>6, CallSteps
<1>7. CASE Node \/ LedgerForward \/ TipReached \/ Acquire \/ (\E t \in Tx : Accept(t))
           \/ UNCHANGED monitorVars
  BY <1>5, <1>7 DEF Node, Submit, Mine, RollBack, LedgerForward, TipReached, Acquire, Accept,
                    monitorVars, processVars
<1> QED BY <1>1, <1>2, <1>3, <1>4, <1>6, <1>7
    DEF MonitorNext, LedgerTask, MempoolTask, MempoolIndex, AgentTask

LEMMA CommitTx ==
  ASSUME Rows, NEW w \in Writer, Commit(w)
  PROVE  job[w].tx \in Tx /\ job[w] # NoJob
BY DEF Rows, WritersInv, WritersTyped, Commit, Job

LEMMA MempoolTypesKept ==
  ASSUME TwoTasks, MonitorType, [MonitorNext]_monitorVars
  PROVE  MempoolType'
<1> USE DEF MempoolType, MonitorType
<1>1. ASSUME NEW t \in Tx, Accept(t) PROVE MempoolType'
  <2>1. CASE t \in Elems(filter)
    BY <1>1, <2>1 DEF Accept
  <2>2. CASE t \notin Elems(filter)
    <3>1. Register(t) /\ incomingQ' = Append(incomingQ, t) /\ dropped' = dropped
      BY <1>1, <2>2 DEF Accept
    <3>2. filter' \in Seq(Tx)
      <4>1. Len(filter) > FilterCap => filter # <<>>
        BY MonitorAssumption
      <4>2. Len(filter) > FilterCap => Front(filter) \in Seq(Tx)
        BY <4>1, LastBlock
      <4> QED BY <3>1, <4>2 DEF Register
    <3> QED BY <3>1, <3>2
  <2> QED BY <2>1, <2>2
<1>2. CASE MempoolCommit
  <2>1. job[Mempool].tx \in Tx
    BY <1>2, CommitTx DEF MempoolCommit, CommitOver, TwoTasks
  <2>2. dropped' \subseteq Tx
    BY <1>2, <2>1 DEF MempoolCommit
  <2> QED BY <1>2, <2>2 DEF MempoolCommit, channels
<1>3. CASE AgentTrack
  <2>1. incomingQ' \in Seq(Tx)
    BY <1>3 DEF AgentTrack
  <2> QED BY <1>3, <2>1 DEF AgentTrack, mempoolVars
<1>4. ASSUME UNCHANGED <<filter, incomingQ, dropped>> PROVE MempoolType'
  BY <1>4
<1>5. CASE RowStep(Ledger) \/ RowStep(Mempool) \/ LedgerCommit
  BY <1>4, <1>5 DEF RowStep, LedgerCommit, processVars, mempoolVars, channels
<1>6. CASE Node \/ LedgerForward \/ TipReached \/ Acquire \/ Drop \/ AgentConfirm \/ AgentSend
           \/ UNCHANGED monitorVars
  BY <1>4, <1>6 DEF Node, Submit, Mine, RollBack, LedgerForward, TipReached, Acquire, Drop,
                    AgentConfirm, AgentSend, monitorVars, processVars, mempoolVars, channels
<1> QED BY <1>1, <1>2, <1>3, <1>5, <1>6
    DEF MonitorNext, LedgerTask, MempoolTask, MempoolIndex, AgentTask

LEMMA MonitorTypesKept ==
  ASSUME TwoTasks, MonitorType, [MonitorNext]_monitorVars
  PROVE  MonitorType'
<1>1. Rows'
  BY WriterSteps, RowsKept DEF MonitorType
<1> QED BY <1>1, LedgerTypesKept, TrackerTypesKept, MempoolTypesKept DEF MonitorType

LEMMA MonitorInitTypes == ASSUME MonitorInit PROVE MonitorType
<1>1. Rows
  BY RowsStart DEF MonitorInit
<1>2. LedgerType
  BY MonitorAssumption DEF MonitorInit, LedgerType
<1>3. TrackerType
  BY FS_EmptySet DEF MonitorInit, TrackerType, Agent!TrackerInit
<1>4. MempoolType
  BY DEF MonitorInit, MempoolType
<1> QED BY <1>1, <1>2, <1>3, <1>4 DEF MonitorType

-----------------------------------------------------------------------------
(* What the mempool task has yielded is in the index.                      *)

(* Only what is yielded comes to be known to the filter.                   *)
LEMMA YieldedGrows ==
  ASSUME MempoolType, NEW t \in Tx, Register(t)
  PROVE  Yielded' \subseteq Yielded \cup {t}
<1> DEFINE kept == IF Len(filter) > FilterCap THEN Front(filter) ELSE filter
<1>1. kept \in Seq(Tx) /\ Len(kept) <= Len(filter) /\ \A i \in 1..Len(kept) : kept[i] = filter[i]
  <2>1. CASE Len(filter) > FilterCap
    <3>1. filter # <<>> /\ filter \in Seq(Tx)
      BY <2>1, MonitorAssumption DEF MempoolType
    <3>2. /\ Front(filter) \in Seq(Tx) /\ Len(Front(filter)) = Len(filter) - 1 /\ Len(filter) \in Nat
          /\ \A i \in 1..Len(filter) - 1 : Front(filter)[i] = filter[i]
      BY <3>1, LastBlock
    <3> QED BY <2>1, <3>2
  <2>2. CASE ~(Len(filter) > FilterCap)
    BY <2>2 DEF MempoolType
  <2> QED BY <2>1, <2>2
<1>2. filter' = <<t>> \o kept
  BY DEF Register
<1> HIDE DEF kept
<1>3. /\ Len(filter') = Len(kept) + 1 /\ filter'[1] = t
      /\ \A i \in 1..Len(kept) : filter'[i + 1] = kept[i]
  BY <1>1, <1>2
<1>4. ASSUME NEW i \in 1..Len(filter') PROVE filter'[i] \in Elems(filter) \cup {t}
  <2>1. CASE i = 1
    BY <1>3, <2>1
  <2>2. CASE i # 1
    <3>1. i - 1 \in 1..Len(kept) /\ Len(kept) \in Nat /\ Len(filter) \in Nat
      BY <1>1, <1>3, <2>2 DEF MempoolType
    <3>2. filter'[i - 1 + 1] = kept[i - 1] /\ kept[i - 1] = filter[i - 1] /\ i - 1 \in 1..Len(filter)
      BY <1>1, <1>3, <3>1
    <3>3. filter'[i] = filter[i - 1]
      BY <3>2
    <3> QED BY <3>2, <3>3 DEF Elems
  <2> QED BY <2>1, <2>2
<1> QED BY <1>4 DEF Yielded, Elems

LEMMA YieldedShownKept ==
  ASSUME TwoTasks, MonitorType, YieldedShown, [MonitorNext]_monitorVars
  PROVE  YieldedShown'
<1> USE DEF YieldedShown, Yielded
<1>1. /\ Elems(filter) \subseteq Tx /\ MempoolType /\ Rows
      /\ Ledger \in Writer /\ Mempool \in Writer /\ Ledger # Mempool
      /\ job \in [Writer -> Job \cup {NoJob}]
  BY DEF MonitorType, MempoolType, Elems, TwoTasks, Rows, WritersInv, WritersTyped
<1>2. ASSUME job[Mempool] = NoJob, NEW t \in Elems(filter) \ (undone \cup dropped)
      PROVE  TxOut[t] \subseteq Live
  BY <1>2 DEF Applies
<1>3. ASSUME NEW t \in Tx, Accept(t) PROVE YieldedShown'
  <2>1. job[Mempool] = NoJob /\ UNCHANGED <<dropped, undone>>
    BY <1>3 DEF Accept, ledgerVars
  <2>2. CASE t \in Elems(filter)
    <3>1. UNCHANGED <<filter, job, txo>>
      BY <1>3, <2>2 DEF Accept, allVars, vars, wvars
    <3> QED BY <1>2, <2>1, <3>1 DEF Elems, Live
  <2>3. CASE t \notin Elems(filter)
    <3>1. Start(Mempool, Call("apply", t, None)) /\ Register(t)
      BY <1>3, <2>3 DEF Accept
    <3>2. job'[Mempool] = Call("apply", t, None) /\ txo' = txo
      BY <1>1, <3>1 DEF Start, vars
    <3>3. Applies(Mempool)' /\ job'[Mempool].tx = t
      <4>1. Call("apply", t, None) \in Job
        BY DEF Call, Job
      <4> QED BY <3>2, <4>1, MarkerAssumption DEF Applies, Call
    <3>4. Elems(filter') \subseteq Elems(filter) \cup {t} /\ Live' = Live
      BY <1>1, <3>1, <3>2, YieldedGrows DEF Live
    <3>5. ASSUME NEW u \in Elems(filter') \ (undone' \cup dropped'), u # t
          PROVE  TxOut[u] \subseteq Live'
      BY <1>2, <2>1, <3>4, <3>5
    <3> QED BY <3>3, <3>5
  <2> QED BY <2>2, <2>3
<1>4. CASE MempoolCommit
  <2> DEFINE m == job[Mempool].tx
  <2>1. UNCHANGED <<filter, undone>> /\ Elems(filter') = Elems(filter) /\ Commit(Mempool)
    BY <1>4 DEF MempoolCommit, CommitOver, ledgerVars
  <2>2. m \in Tx /\ job[Mempool] # NoJob
    BY <1>1, <2>1, CommitTx
  <2>3. CASE Applies(Mempool)
    <3>1. Live \subseteq Live' /\ TxOut[m] \subseteq Live'
      BY <1>1, <2>1, <2>3, CommitApplied
    <3>2. dropped' = dropped
      BY <1>4, <2>3 DEF MempoolCommit, Applies
    <3> QED BY <2>1, <3>1, <3>2
  <2>4. CASE ~Applies(Mempool)
    <3>1. Live \ TxOut[m] \subseteq Live'
      BY <1>1, <2>1, <2>4, CommitUnapplied
    <3>2. dropped' = dropped \cup {m}
      BY <1>4, <2>2, <2>4 DEF MempoolCommit, Applies
    <3>3. ASSUME NEW u \in Elems(filter') \ (undone' \cup dropped') PROVE TxOut[u] \subseteq Live'
      <4>1. TxOut[u] \subseteq Live /\ u # m /\ u \in Tx
        BY <1>1, <2>1, <2>4, <3>2, <3>3
      <4>2. TxOut[u] \cap TxOut[m] = {}
        BY <2>2, <4>1, MonitorAssumption
      <4> QED BY <3>1, <4>1, <4>2
    <3> QED BY <3>3
  <2> QED BY <2>3, <2>4
<1>5. CASE LedgerCommit
  <2> DEFINE m == job[Ledger].tx
  <2>1. UNCHANGED <<filter, dropped>> /\ Elems(filter') = Elems(filter) /\ Commit(Ledger)
    BY <1>5 DEF LedgerCommit, CommitOver, mempoolVars
  <2>2. m \in Tx /\ job[Ledger] # NoJob /\ job'[Mempool] = job[Mempool]
    BY <1>1, <2>1, CommitTx DEF Commit
  <2>3. Applies(Mempool)' = Applies(Mempool)
    BY <2>2 DEF Applies
  <2>4. CASE Applies(Ledger)
    <3>1. Live \subseteq Live'
      BY <1>1, <2>1, <2>4, CommitApplied
    <3>2. undone' = undone
      BY <1>5, <2>4 DEF LedgerCommit, Applies
    <3> QED BY <2>1, <2>2, <2>3, <3>1, <3>2
  <2>5. CASE ~Applies(Ledger)
    <3>1. Live \ TxOut[m] \subseteq Live'
      BY <1>1, <2>1, <2>5, CommitUnapplied
    <3>2. undone' = undone \cup {m}
      BY <1>5, <2>2, <2>5 DEF LedgerCommit, Applies
    <3>3. ASSUME NEW u \in Elems(filter') \ (undone' \cup dropped'), TxOut[u] \subseteq Live
          PROVE  TxOut[u] \subseteq Live'
      <4>1. u # m /\ u \in Tx
        BY <1>1, <2>1, <3>2, <3>3
      <4>2. TxOut[u] \cap TxOut[m] = {}
        BY <2>2, <4>1, MonitorAssumption
      <4> QED BY <3>1, <3>3, <4>2
    <3> QED BY <2>1, <2>2, <2>3, <3>2, <3>3
  <2> QED BY <2>4, <2>5
<1>6. CASE Drop
  <2>1. UNCHANGED <<txo, filter, dropped, undone>> /\ job[Mempool] = NoJob
    BY <1>6 DEF Drop, Start, vars, ledgerVars
  <2>2. Live' = Live /\ Elems(filter') = Elems(filter)
    BY <2>1 DEF Live
  <2> QED BY <1>2, <2>1, <2>2
<1>7. ASSUME UNCHANGED <<txo, filter, dropped, undone>>, job'[Mempool] = job[Mempool]
      PROVE  YieldedShown'
  BY <1>7 DEF Live, Elems, Applies
<1>8. CASE LedgerForward
  <2>1. job'[Mempool] = job[Mempool]
    BY <1>1, <1>8 DEF LedgerForward, Start
  <2> QED BY <1>7, <1>8, <2>1 DEF LedgerForward, Start, vars, mempoolVars
<1>9. CASE RowStep(Ledger) \/ RowStep(Mempool)
  <2>1. UNCHANGED <<txo, job>>
    BY <1>9 DEF RowStep, Read, Skip, Put, Advance, LockTimeout, vars
  <2> QED BY <1>7, <1>9, <2>1 DEF RowStep, processVars, ledgerVars, mempoolVars
<1>10. CASE Node \/ TipReached \/ Acquire \/ AgentTask \/ UNCHANGED monitorVars
  BY <1>7, <1>10 DEF Node, Submit, Mine, RollBack, TipReached, Acquire, AgentTask, AgentTrack,
                     AgentConfirm, AgentSend, monitorVars, processVars, mempoolVars, ledgerVars,
                     allVars, vars, wvars
<1> QED BY <1>3, <1>4, <1>5, <1>6, <1>8, <1>9, <1>10
    DEF MonitorNext, LedgerTask, MempoolTask, MempoolIndex

(* README: Unspent has the outputs of the mempool's transactions (Monitor's *)
(* MempoolShown), whatever the filters forget and the two tasks overwrite   *)
(* of each other's rows, for any chain, mempool and channels.               *)
THEOREM MempoolShownHolds == TwoTasks => (MonitorSpec => []MempoolShown)
<1> SUFFICES ASSUME TwoTasks PROVE MonitorSpec => []MempoolShown
  OBVIOUS
<1>1. MonitorInit => MonitorType /\ YieldedShown
  <2> SUFFICES ASSUME MonitorInit PROVE MonitorType /\ YieldedShown
    OBVIOUS
  <2>1. filter = <<>>
    BY DEF MonitorInit
  <2>2. Yielded = {}
    BY <2>1 DEF Yielded, Elems
  <2> QED BY <2>2, MonitorInitTypes DEF YieldedShown
<1>2. MonitorType /\ YieldedShown /\ [MonitorNext]_monitorVars => MonitorType' /\ YieldedShown'
  BY MonitorTypesKept, YieldedShownKept
<1>3. YieldedShown => MempoolShown
  BY DEF MempoolShown, Created, Quiet, Yielded, YieldedShown, Applies
<1> QED BY <1>1, <1>2, <1>3, PTL DEF MonitorSpec

-----------------------------------------------------------------------------
(* The index and the chain.                                                *)

(* The chain is valid: what comes before a transaction makes what it       *)
(* spends, and spends none of it.                                          *)
Earlier(c, b, i) == (UNION {Elems(c[k]) : k \in 1..b - 1}) \cup {c[b][j] : j \in 1..i - 1}

ValidChain(c) == \A b \in 1..Len(c) : \A i \in 1..Len(c[b]) : Valid(c[b][i], Earlier(c, b, i))

Sound(T) ==
    /\ T \subseteq Tx
    /\ \A t \in T : TxIn[t] \subseteq Genesis \cup Created(T)
    /\ \A t, u \in T : t # u => TxIn[t] \cap TxIn[u] = {}

(* What the ledger task is still to be told, or to do.                     *)
Ahead ==
    IF job[Ledger] = NoJob THEN ledgerQ
    ELSE <<[kind |-> job[Ledger].op, tx |-> job[Ledger].tx, block |-> 0]>> \o ledgerQ

Leads(S, e, T) ==
    IF e.kind = "apply" THEN e.tx \notin S /\ T = S \cup {e.tx}
    ELSE e.tx \in S /\ T = S \ {e.tx}

(* The events lead, from one set of transactions to the next, to those of  *)
(* the chain.                                                              *)
LeadAlong(st, q) ==
    /\ st \in Seq(SUBSET Tx)
    /\ Len(st) = Len(q) + 1
    /\ \A i \in 1..Len(st) : Sound(st[i])
    /\ \A i \in 1..Len(q) : Leads(st[i], q[i], st[i + 1])

(* What the index holds of the transactions the ledger task has handled,   *)
(* and what the mempool task may yet write into it: outputs it has read as *)
(* unspent, or as having no row.                                           *)
Held == {r \in HeldBy(Mempool) : Applies(Mempool)}

Handled(T) ==
    /\ \A t \in T \ dropped : TxOut[t] \subseteq Live
    /\ Consumed(T) \cap (Unspent \cup Held) \subseteq LostSpends

Follows ==
    \E st \in Seq(SUBSET Tx) :
        LeadAlong(st, Ahead) /\ st[Len(st)] = ChainTxs(chain) /\ Handled(st[1])

(* What the mempool task applies was not given up, or came back.           *)
OnceReturned ==
    Applies(Mempool) => job[Mempool].tx \notin dropped \/ job[Mempool].tx \in returned

(* What becomes of the inputs of a transaction the ledger task applies:    *)
(* each is in its batch, or is still to be handled and was not found       *)
(* missing; or it has no row that the ledger or the mempool task answers   *)
(* for, and if it has one, it is listed among the lost ones.               *)
Settling ==
    Applies(Ledger) =>
        \A r \in TxIn[job[Ledger].tx] :
            \/ r \in Refs(Ledger)
            \/ r \in Waiting(Ledger) /\ ~(r = Head(todo[Ledger]) /\ seen[Ledger] = Absent)
            \/ r \in Genesis \cup Created(dropped) /\ (r \notin Unspent \/ r \in LostSpends)

MonitorInv == MonitorType /\ ValidChain(chain) /\ OnceReturned /\ Settling /\ Follows

(* The transactions of a chain, and those before one of them.              *)
LEMMA ChainGrows ==
  ASSUME NEW c \in Seq(Seq(Tx)), NEW s \in Seq(Tx)
  PROVE  /\ ChainTxs(Append(c, s)) = ChainTxs(c) \cup Elems(s)
         /\ \A i \in 1..Len(s) : Earlier(Append(c, s), Len(c) + 1, i) = ChainTxs(c) \cup {s[j] : j \in 1..i - 1}
         /\ \A b \in 1..Len(c) : \A i \in 1..Len(c[b]) : Earlier(Append(c, s), b, i) = Earlier(c, b, i)
<1> DEFINE D == Seq(Tx)
           a == Append(c, s)
<1>1. /\ Len(c) \in Nat /\ Len(a) = Len(c) + 1 /\ a[Len(c) + 1] = s
      /\ \A b \in 1..Len(c) : a[b] = c[b]
  <2> HIDE DEF D
  <2>1. c \in Seq(D) /\ s \in D
    BY DEF D
  <2> QED BY <2>1
<1> HIDE DEF a, D
<1>2. PICK n \in Nat : n = Len(c)
  BY <1>1
<1>3. 1..n + 1 = 1..n \cup {n + 1} /\ n + 1 - 1 = n
  BY <1>2
<1>4. {Elems(a[b]) : b \in 1..n} = {Elems(c[b]) : b \in 1..n}
  BY <1>1, <1>2
<1>5. {Elems(a[b]) : b \in 1..n + 1} = {Elems(c[b]) : b \in 1..n} \cup {Elems(s)}
  BY <1>1, <1>2, <1>3, <1>4
<1>6. ChainTxs(a) = ChainTxs(c) \cup Elems(s)
  BY <1>1, <1>2, <1>5 DEF ChainTxs
<1>7. ASSUME NEW i \in 1..Len(s)
      PROVE  Earlier(a, n + 1, i) = ChainTxs(c) \cup {s[j] : j \in 1..i - 1}
  <2>1. {a[n + 1][j] : j \in 1..i - 1} = {s[j] : j \in 1..i - 1}
    BY <1>1, <1>2
  <2>2. UNION {Elems(a[b]) : b \in 1..n + 1 - 1} = ChainTxs(c)
    BY <1>2, <1>3, <1>4 DEF ChainTxs
  <2>3. Earlier(a, n + 1, i) =
          (UNION {Elems(a[k]) : k \in 1..n + 1 - 1}) \cup {a[n + 1][j] : j \in 1..i - 1}
    BY DEF Earlier
  <2> QED BY <2>1, <2>2, <2>3
<1>8. ASSUME NEW b \in 1..Len(c), NEW i \in 1..Len(c[b])
      PROVE  Earlier(a, b, i) = Earlier(c, b, i)
  <2>1. \A k \in 1..b - 1 : a[k] = c[k]
    BY <1>1, <1>2
  <2>2. {Elems(a[k]) : k \in 1..b - 1} = {Elems(c[k]) : k \in 1..b - 1}
    BY <2>1
  <2>3. a[b] = c[b]
    BY <1>1
  <2> QED BY <2>2, <2>3 DEF Earlier
<1> QED BY <1>2, <1>6, <1>7, <1>8 DEF a

LEMMA BlockAdded ==
  ASSUME NEW c \in Seq(Seq(Tx)), NEW s \in Seq(Tx)
  PROVE  ValidChain(Append(c, s)) <=>
           ValidChain(c) /\ \A i \in 1..Len(s) : Valid(s[i], ChainTxs(c) \cup {s[j] : j \in 1..i - 1})
<1> DEFINE D == Seq(Tx)
           a == Append(c, s)
<1>1. /\ Len(c) \in Nat /\ Len(a) = Len(c) + 1 /\ a[Len(c) + 1] = s
      /\ \A b \in 1..Len(c) : a[b] = c[b]
  <2> HIDE DEF D
  <2>1. c \in Seq(D) /\ s \in D
    BY DEF D
  <2> QED BY <2>1
<1>2. /\ \A i \in 1..Len(s) : Earlier(a, Len(c) + 1, i) = ChainTxs(c) \cup {s[j] : j \in 1..i - 1}
      /\ \A b \in 1..Len(c) : \A i \in 1..Len(c[b]) : Earlier(a, b, i) = Earlier(c, b, i)
  BY ChainGrows
<1> HIDE DEF a, D
<1>3. PICK n \in Nat : n = Len(c)
  BY <1>1
<1>4. n + 1 \in 1..n + 1 /\ \A b \in 1..n + 1 : b = n + 1 \/ b \in 1..n
  BY <1>3
<1>5. ASSUME NEW b \in 1..n
      PROVE  /\ b \in 1..n + 1 /\ a[b] = c[b]
             /\ \A i \in 1..Len(c[b]) : Earlier(a, b, i) = Earlier(c, b, i)
  BY <1>1, <1>2, <1>3
<1>6. a[n + 1] = s /\ Len(a) = n + 1
      /\ \A i \in 1..Len(s) : Earlier(a, n + 1, i) = ChainTxs(c) \cup {s[j] : j \in 1..i - 1}
  BY <1>1, <1>2, <1>3
<1>7. ASSUME ValidChain(a) PROVE ValidChain(c)
  <2> SUFFICES ASSUME NEW b \in 1..n, NEW i \in 1..Len(c[b])
               PROVE  Valid(c[b][i], Earlier(c, b, i))
    BY <1>3 DEF ValidChain
  <2>1. b \in 1..Len(a) /\ a[b] = c[b] /\ Earlier(a, b, i) = Earlier(c, b, i)
    BY <1>5, <1>6
  <2>2. Valid(a[b][i], Earlier(a, b, i))
    BY <1>7, <2>1 DEF ValidChain
  <2> QED BY <2>1, <2>2
<1>8. ASSUME ValidChain(a), NEW i \in 1..Len(s)
      PROVE  Valid(s[i], ChainTxs(c) \cup {s[j] : j \in 1..i - 1})
  <2>1. n + 1 \in 1..Len(a) /\ i \in 1..Len(a[n + 1])
    BY <1>4, <1>6
  <2>2. Valid(a[n + 1][i], Earlier(a, n + 1, i))
    BY <1>8, <2>1 DEF ValidChain
  <2> QED BY <1>6, <2>2
<1>9. ASSUME ValidChain(c), \A i \in 1..Len(s) : Valid(s[i], ChainTxs(c) \cup {s[j] : j \in 1..i - 1}),
             NEW b \in 1..Len(a), NEW i \in 1..Len(a[b])
      PROVE  Valid(a[b][i], Earlier(a, b, i))
  <2>1. CASE b \in 1..n
    <3>1. Valid(c[b][i], Earlier(c, b, i))
      BY <1>3, <1>5, <1>9, <2>1 DEF ValidChain
    <3> QED BY <1>5, <2>1, <3>1
  <2>2. CASE b = n + 1
    BY <1>6, <1>9, <2>2
  <2> QED BY <1>4, <1>6, <2>1, <2>2
<1>10. ValidChain(a) <=>
         ValidChain(c) /\ \A i \in 1..Len(s) : Valid(s[i], ChainTxs(c) \cup {s[j] : j \in 1..i - 1})
  BY <1>7, <1>8, <1>9 DEF ValidChain
<1> QED BY <1>10 DEF a

(* A chain ends in its last block.                                         *)
LEMMA ChainEnds ==
  ASSUME NEW c \in Seq(Seq(Tx)), c # <<>>
  PROVE  Front(c) \in Seq(Seq(Tx)) /\ Last(c) \in Seq(Tx) /\ c = Append(Front(c), Last(c))
<1> DEFINE D == Seq(Tx)
<1> HIDE DEF D
<1>1. c \in Seq(D)
  BY DEF D
<1>2. /\ Len(c) \in Nat /\ 1 <= Len(c) /\ Last(c) = c[Len(c)] /\ Last(c) \in D
      /\ Front(c) \in Seq(D) /\ Len(Front(c)) = Len(c) - 1
      /\ \A i \in 1..Len(c) - 1 : Front(c)[i] = c[i]
  BY <1>1, LastBlock
<1>3. c = Append(Front(c), Last(c))
  <2> DEFINE f == Front(c)
             l == Last(c)
             a == Append(f, l)
  <2>1. f \in Seq(D) /\ l \in D
    BY <1>2
  <2> HIDE DEF f, l
  <2>2. /\ a \in Seq(D) /\ Len(a) = Len(f) + 1 /\ a[Len(f) + 1] = l
        /\ \A i \in 1..Len(f) : a[i] = f[i]
    BY <2>1
  <2> HIDE DEF a
  <2>3. Len(a) = Len(c) /\ \A i \in 1..Len(c) : a[i] = c[i]
    <3>1. \A i \in 1..Len(c) : i = Len(c) \/ i \in 1..Len(c) - 1
      BY <1>2
    <3>2. Len(f) = Len(c) - 1 /\ Len(f) + 1 = Len(c)
      BY <1>2 DEF f
    <3> QED BY <1>2, <2>2, <3>1, <3>2 DEF f, l
  <2>4. a = c
    BY <1>1, <2>2, <2>3
  <2> QED BY <2>4 DEF a, f, l
<1> QED BY <1>2, <1>3 DEF D

(* A valid chain is sound, and so is every part of a valid block on it.    *)
LEMMA ChainSound ==
  ASSUME NEW c \in Seq(Seq(Tx)), ValidChain(c)
  PROVE  Sound(ChainTxs(c))
<1>1. \A b \in 1..Len(c) : c[b] \in Seq(Tx)
  <2> DEFINE D == Seq(Tx)
  <2> HIDE DEF D
  <2>1. c \in Seq(D)
    BY DEF D
  <2>2. \A b \in 1..Len(c) : c[b] \in D
    BY <2>1
  <2> QED BY <2>2 DEF D
<1>2. ASSUME NEW t \in ChainTxs(c)
      PROVE  \E b \in 1..Len(c) : \E i \in 1..Len(c[b]) : t = c[b][i]
  BY <1>2 DEF ChainTxs, Elems
<1>3. ASSUME NEW b \in 1..Len(c), NEW i \in 1..Len(c[b])
      PROVE  /\ c[b][i] \in Tx /\ Earlier(c, b, i) \subseteq ChainTxs(c)
             /\ TxIn[c[b][i]] \subseteq (Genesis \cup Created(Earlier(c, b, i))) \ Consumed(Earlier(c, b, i))
  <2>1. c[b][i] \in Tx
    BY <1>1
  <2>2. Valid(c[b][i], Earlier(c, b, i))
    BY DEF ValidChain
  <2>3. ASSUME NEW k \in 1..b - 1 PROVE k \in 1..Len(c)
    OBVIOUS
  <2>4. ASSUME NEW j \in 1..i - 1 PROVE c[b][j] \in ChainTxs(c)
    <3>1. Len(c[b]) \in Nat
      BY <1>1
    <3>2. j \in 1..Len(c[b])
      BY <3>1
    <3>3. c[b][j] \in Elems(c[b])
      BY <3>2 DEF Elems
    <3> QED BY <3>3 DEF ChainTxs
  <2>5. UNION {Elems(c[k]) : k \in 1..b - 1} \subseteq ChainTxs(c)
    BY <2>3 DEF ChainTxs
  <2>6. {c[b][j] : j \in 1..i - 1} \subseteq ChainTxs(c)
    BY <2>4
  <2>7. Earlier(c, b, i) \subseteq ChainTxs(c)
    BY <2>5, <2>6 DEF Earlier
  <2> QED BY <2>1, <2>2, <2>7 DEF Valid
<1>4. ASSUME NEW b \in 1..Len(c), NEW i \in 1..Len(c[b]), NEW d \in 1..Len(c), NEW k \in 1..Len(c[d]),
             b < d \/ (b = d /\ i < k)
      PROVE  TxIn[c[b][i]] \cap TxIn[c[d][k]] = {}
  <2>1. c[b][i] \in Earlier(c, d, k)
    <3>1. CASE b < d
      <4>1. b \in 1..d - 1 /\ c[b][i] \in Elems(c[b])
        BY <3>1 DEF Elems
      <4> QED BY <4>1 DEF Earlier
    <3>2. CASE b = d /\ i < k
      <4>1. i \in 1..k - 1 /\ c[b][i] = c[d][i]
        BY <3>2
      <4>2. c[d][i] \in {c[d][j] : j \in 1..k - 1}
        BY <4>1
      <4> QED BY <4>1, <4>2 DEF Earlier
    <3> QED BY <1>4, <3>1, <3>2
  <2>2. TxIn[c[b][i]] \subseteq Consumed(Earlier(c, d, k))
    BY <2>1 DEF Consumed
  <2> QED BY <1>3, <2>2
<1>5. ChainTxs(c) \subseteq Tx
  BY <1>2, <1>3
<1>6. ASSUME NEW t \in ChainTxs(c) PROVE TxIn[t] \subseteq Genesis \cup Created(ChainTxs(c))
  <2>1. PICK b \in 1..Len(c) : \E i \in 1..Len(c[b]) : t = c[b][i]
    BY <1>2
  <2>2. PICK i \in 1..Len(c[b]) : t = c[b][i]
    BY <2>1
  <2>3. Created(Earlier(c, b, i)) \subseteq Created(ChainTxs(c))
    BY <1>3 DEF Created
  <2> QED BY <1>3, <2>2, <2>3
<1>7. ASSUME NEW t \in ChainTxs(c), NEW u \in ChainTxs(c), t # u
      PROVE  TxIn[t] \cap TxIn[u] = {}
  <2>1. PICK b \in 1..Len(c) : \E i \in 1..Len(c[b]) : t = c[b][i]
    BY <1>2
  <2>2. PICK i \in 1..Len(c[b]) : t = c[b][i]
    BY <2>1
  <2>3. PICK d \in 1..Len(c) : \E k \in 1..Len(c[d]) : u = c[d][k]
    BY <1>2
  <2>4. PICK k \in 1..Len(c[d]) : u = c[d][k]
    BY <2>3
  <2>5. (b < d \/ (b = d /\ i < k)) \/ (d < b \/ (d = b /\ k < i))
    BY <1>7, <2>2, <2>4
  <2> QED BY <1>4, <2>2, <2>4, <2>5
<1> QED BY <1>5, <1>6, <1>7 DEF Sound

LEMMA PartSound ==
  ASSUME NEW S, Sound(S), NEW s \in Seq(Tx), NEW n \in 0..Len(s),
         \A i \in 1..Len(s) : Valid(s[i], S \cup {s[j] : j \in 1..i - 1})
  PROVE  Sound(S \cup {s[j] : j \in 1..n})
<1> DEFINE P == S \cup {s[j] : j \in 1..n}
<1>1. Len(s) \in Nat /\ \A i \in 1..n : i \in 1..Len(s) /\ s[i] \in Tx
  OBVIOUS
<1>2. P \subseteq Tx
  BY <1>1 DEF Sound
<1>3. ASSUME NEW i \in 1..n
      PROVE  /\ TxIn[s[i]] \subseteq Genesis \cup Created(P)
             /\ \A t \in S : TxIn[s[i]] \cap TxIn[t] = {}
             /\ \A j \in 1..i - 1 : TxIn[s[i]] \cap TxIn[s[j]] = {}
  <2> DEFINE B == S \cup {s[j] : j \in 1..i - 1}
  <2>1. TxIn[s[i]] \subseteq (Genesis \cup Created(B)) \ Consumed(B)
    BY <1>1 DEF Valid
  <2>2. B \subseteq P
    BY <1>1
  <2>3. Created(B) \subseteq Created(P)
    BY <2>2 DEF Created
  <2>4. \A t \in B : TxIn[t] \subseteq Consumed(B)
    BY DEF Consumed
  <2> QED BY <2>1, <2>3, <2>4
<1>4. ASSUME NEW t \in P PROVE TxIn[t] \subseteq Genesis \cup Created(P)
  <2>1. CASE t \in S
    <3>1. Created(S) \subseteq Created(P)
      BY DEF Created
    <3> QED BY <2>1, <3>1 DEF Sound
  <2> QED BY <1>3, <2>1
<1>5. ASSUME NEW t \in P, NEW u \in P, t # u PROVE TxIn[t] \cap TxIn[u] = {}
  <2>1. CASE t \in S /\ u \in S
    BY <1>5, <2>1 DEF Sound
  <2>2. CASE (t \in S /\ u \notin S) \/ (t \notin S /\ u \in S)
    BY <1>3, <2>2
  <2>3. CASE t \notin S /\ u \notin S
    <3>1. PICK i \in 1..n : t = s[i]
      BY <2>3
    <3>2. PICK j \in 1..n : u = s[j]
      BY <2>3
    <3>3. j \in 1..i - 1 \/ i \in 1..j - 1
      BY <1>5, <3>1, <3>2
    <3> QED BY <1>3, <3>1, <3>2, <3>3
  <2> QED BY <2>1, <2>2, <2>3
<1> QED BY <1>2, <1>4, <1>5 DEF Sound

(* One sequence after another, and what follows the first item of one.     *)
LEMMA Joined ==
  ASSUME NEW S, NEW a \in Seq(S), NEW b \in Seq(S)
  PROVE  /\ a \o b \in Seq(S) /\ Len(a \o b) = Len(a) + Len(b)
         /\ \A i \in 1..Len(a) : (a \o b)[i] = a[i]
         /\ \A i \in 1..Len(b) : (a \o b)[Len(a) + i] = b[i]
OBVIOUS

LEMMA Rest ==
  ASSUME NEW S, NEW s \in Seq(S), s # <<>>
  PROVE  /\ Tail(s) \in Seq(S) /\ Len(Tail(s)) = Len(s) - 1 /\ s[1] \in S
         /\ \A i \in 1..Len(s) - 1 : Tail(s)[i] = s[i + 1]
OBVIOUS

(* More events may follow, if they lead on from where the first ones lead. *)
LEMMA LeadFurther ==
  ASSUME NEW q \in Seq(Event), NEW es \in Seq(Event), NEW st, LeadAlong(st, q),
         NEW f \in [0..Len(es) -> SUBSET Tx], f[0] = st[Len(st)],
         \A k \in 0..Len(es) : Sound(f[k]),
         \A k \in 1..Len(es) : Leads(f[k - 1], es[k], f[k])
  PROVE  \E s \in Seq(SUBSET Tx) :
           LeadAlong(s, q \o es) /\ s[Len(s)] = f[Len(es)] /\ s[1] = st[1]
<1>1. PICK n \in Nat, m \in Nat : n = Len(q) /\ m = Len(es)
  OBVIOUS
<1>2. /\ st \in Seq(SUBSET Tx) /\ Len(st) = n + 1
      /\ \A i \in 1..n + 1 : Sound(st[i]) /\ st[i] \in SUBSET Tx
      /\ \A i \in 1..n : Leads(st[i], q[i], st[i + 1])
  BY <1>1 DEF LeadAlong
<1>3. PICK r \in Seq(Event) : r = q \o es
  BY Joined
<1>4. /\ Len(r) = n + m
      /\ \A i \in 1..n : r[i] = q[i]
      /\ \A i \in 1..n + m : i > n => r[i] = es[i - n]
  <2>1. Len(r) = n + m /\ (\A i \in 1..n : r[i] = q[i]) /\ \A i \in 1..m : r[n + i] = es[i]
    BY <1>1, <1>3, Joined
  <2>2. ASSUME NEW i \in 1..n + m, i > n PROVE r[i] = es[i - n]
    <3>1. i - n \in 1..m /\ n + (i - n) = i
      BY <2>2
    <3>2. r[n + (i - n)] = es[i - n]
      BY <2>1, <3>1
    <3> QED BY <3>1, <3>2
  <2> QED BY <2>1, <2>2
<1> DEFINE s == [i \in 1..n + m + 1 |-> IF i <= n + 1 THEN st[i] ELSE f[i - n - 1]]
<1>5. ASSUME NEW i \in 1..n + m + 1
      PROVE  /\ i <= n + 1 => s[i] = st[i] /\ i \in 1..n + 1
             /\ i >= n + 1 => s[i] = f[i - n - 1] /\ i - n - 1 \in 0..m
  <2>1. i <= n + 1 => s[i] = st[i] /\ i \in 1..n + 1
    OBVIOUS
  <2>2. i >= n + 1 => i - n - 1 \in 0..m
    OBVIOUS
  <2>3. CASE i > n + 1
    BY <2>1, <2>2, <2>3
  <2>4. CASE i = n + 1
    <3>1. i - n - 1 = 0 /\ 0 \in 0..m /\ i <= n + 1
      BY <2>4
    <3>2. st[n + 1] = f[0]
      BY <1>2
    <3>3. s[i] = f[i - n - 1]
      <4> HIDE DEF s
      <4> QED BY <2>1, <2>4, <3>1, <3>2
    <3>4. i - n - 1 \in 0..m
      BY <3>1
    <3> HIDE DEF s
    <3> QED BY <2>1, <3>1, <3>3, <3>4
  <2>5. CASE i < n + 1
    BY <2>1, <2>5
  <2> HIDE DEF s
  <2>6. i < n + 1 \/ i = n + 1 \/ i > n + 1
    OBVIOUS
  <2> QED BY <2>3, <2>4, <2>5, <2>6
<1>6. ASSUME NEW i \in 1..n + m + 1 PROVE Sound(s[i]) /\ s[i] \in SUBSET Tx
  <2> HIDE DEF s
  <2>1. CASE i <= n + 1
    BY <1>2, <1>5, <2>1
  <2>2. CASE i > n + 1
    <3>1. s[i] = f[i - n - 1] /\ i - n - 1 \in 0..Len(es)
      BY <1>1, <1>5, <2>2
    <3>2. Sound(f[i - n - 1]) /\ f[i - n - 1] \in SUBSET Tx
      BY <3>1
    <3> QED BY <3>1, <3>2
  <2> QED BY <2>1, <2>2
<1>7. s \in Seq(SUBSET Tx) /\ Len(s) = n + m + 1
  BY <1>6
<1>8. ASSUME NEW i \in 1..n + m PROVE Leads(s[i], r[i], s[i + 1])
  <2> HIDE DEF s
  <2>1. i \in 1..n + m + 1 /\ i + 1 \in 1..n + m + 1
    OBVIOUS
  <2>2. CASE i <= n
    BY <1>2, <1>4, <1>5, <2>1, <2>2
  <2>3. CASE i > n
    <3>1. i - n \in 1..m /\ i - n - 1 = (i - n) - 1 /\ i + 1 - n - 1 = i - n /\ i >= n + 1 /\ i + 1 >= n + 1
      BY <2>3
    <3>2. Leads(f[(i - n) - 1], es[i - n], f[i - n])
      BY <1>1, <3>1
    <3>3. s[i] = f[i - n - 1] /\ s[i + 1] = f[i + 1 - n - 1] /\ r[i] = es[i - n]
      BY <1>4, <1>5, <2>1, <2>3, <3>1
    <3> QED BY <3>1, <3>2, <3>3
  <2> QED BY <2>2, <2>3
<1>9. s[1] = st[1] /\ s[n + m + 1] = f[m]
  <2>1. 1 \in 1..n + m + 1 /\ 1 <= n + 1 /\ n + m + 1 \in 1..n + m + 1 /\ n + m + 1 >= n + 1
        /\ n + m + 1 - n - 1 = m
    OBVIOUS
  <2> HIDE DEF s
  <2>2. s[n + m + 1] = f[n + m + 1 - n - 1]
    BY <1>5, <2>1
  <2> QED BY <1>5, <2>1, <2>2
<1> HIDE DEF s
<1>10. LeadAlong(s, r)
  BY <1>4, <1>6, <1>7, <1>8 DEF LeadAlong
<1> QED BY <1>1, <1>3, <1>7, <1>9, <1>10

(* The first event handled, the others are ahead.                          *)
LEMMA LeadOn ==
  ASSUME NEW e \in Event, NEW q \in Seq(Event), NEW st, LeadAlong(st, <<e>> \o q)
  PROVE  /\ Sound(st[1]) /\ Leads(st[1], e, st[2])
         /\ LeadAlong(Tail(st), q) /\ Tail(st)[Len(Tail(st))] = st[Len(st)] /\ Tail(st)[1] = st[2]
<1>1. PICK n \in Nat : n = Len(q)
  OBVIOUS
<1>2. PICK r \in Seq(Event) : r = <<e>> \o q
  <2>1. <<e>> \in Seq(Event)
    OBVIOUS
  <2> QED BY <2>1, Joined
<1>3. Len(r) = n + 1 /\ r[1] = e /\ \A i \in 1..n : r[i + 1] = q[i]
  <2>1. <<e>> \in Seq(Event) /\ Len(<<e>>) = 1 /\ <<e>>[1] = e
    OBVIOUS
  <2>2. /\ Len(r) = 1 + n /\ r[1] = e
        /\ \A i \in 1..n : r[1 + i] = q[i]
    BY <1>1, <1>2, <2>1, Joined
  <2>3. \A i \in 1..n : 1 + i = i + 1
    OBVIOUS
  <2> QED BY <2>2, <2>3
<1>4. /\ st \in Seq(SUBSET Tx) /\ Len(st) = n + 2
      /\ \A i \in 1..n + 2 : Sound(st[i])
      /\ \A i \in 1..n + 1 : Leads(st[i], r[i], st[i + 1])
  BY <1>2, <1>3 DEF LeadAlong
<1>5. PICK u \in Seq(SUBSET Tx) : u = Tail(st)
  <2>1. st # <<>>
    BY <1>4
  <2> QED BY <1>4, <2>1, Rest
<1>6. Len(u) = n + 1 /\ \A i \in 1..n + 1 : u[i] = st[i + 1]
  <2>1. st # <<>> /\ Len(st) - 1 = n + 1
    BY <1>4
  <2> QED BY <1>4, <1>5, <2>1, Rest
<1>7. ASSUME NEW i \in 1..n PROVE Leads(u[i], q[i], u[i + 1])
  <2>1. i \in 1..n + 1 /\ i + 1 \in 1..n + 1
    OBVIOUS
  <2>2. Leads(st[i + 1], r[i + 1], st[i + 1 + 1]) /\ u[i] = st[i + 1] /\ u[i + 1] = st[i + 1 + 1]
    BY <1>4, <1>6, <2>1
  <2> QED BY <1>3, <2>2
<1>8. \A i \in 1..n + 1 : Sound(u[i])
  <2> SUFFICES ASSUME NEW i \in 1..n + 1 PROVE Sound(u[i])
    OBVIOUS
  <2>1. i + 1 \in 1..n + 2 /\ u[i] = st[i + 1]
    BY <1>6
  <2> QED BY <1>4, <2>1
<1>9. LeadAlong(u, q)
  BY <1>1, <1>6, <1>7, <1>8 DEF LeadAlong
<1>10. u[1] = st[2] /\ u[Len(u)] = st[Len(st)] /\ Sound(st[1]) /\ Leads(st[1], e, st[2])
  <2>1. 1 \in 1..n + 1 /\ 1 + 1 = 2 /\ n + 1 \in 1..n + 1 /\ n + 1 + 1 = n + 2 /\ 1 \in 1..n + 2
    OBVIOUS
  <2>2. u[1] = st[1 + 1] /\ u[n + 1] = st[n + 1 + 1]
    BY <1>6, <2>1
  <2>3. Leads(st[1], r[1], st[1 + 1])
    BY <1>4, <2>1
  <2> QED BY <1>3, <1>4, <1>6, <2>1, <2>2, <2>3
<1> QED BY <1>5, <1>9, <1>10

(* Of an event only the kind and the transaction matter here.              *)
LEMMA SameLead ==
  ASSUME NEW q \in Seq(Event), NEW r \in Seq(Event), Len(q) = Len(r),
         \A i \in 1..Len(q) : q[i].kind = r[i].kind /\ q[i].tx = r[i].tx,
         NEW st, LeadAlong(st, q)
  PROVE  LeadAlong(st, r)
BY DEF LeadAlong, Leads

LEMMA QueueType ==
  ASSUME MonitorType, TwoTasks
  PROVE  /\ ledgerQ \in Seq(Event)
         /\ job[Ledger] # NoJob =>
              /\ job[Ledger] \in Job
              /\ [kind |-> job[Ledger].op, tx |-> job[Ledger].tx, block |-> 0] \in Event
         /\ Ahead \in Seq(Event)
<1>1. ledgerQ \in Seq(ChainEvent) /\ ChainEvent \subseteq Event
  BY MonitorAssumption DEF MonitorType, LedgerType, ChainEvent, Event
<1>2. ledgerQ \in Seq(Event)
  BY <1>1
<1>3. job[Ledger] \in Job \cup {NoJob}
  BY DEF MonitorType, Rows, WritersInv, WritersTyped, TwoTasks
<1>4. ASSUME job[Ledger] # NoJob
      PROVE  [kind |-> job[Ledger].op, tx |-> job[Ledger].tx, block |-> 0] \in Event
  BY <1>3, <1>4 DEF Job, Event
<1>5. Ahead \in Seq(Event)
  <2>1. CASE job[Ledger] = NoJob
    BY <1>2, <2>1 DEF Ahead
  <2>2. CASE job[Ledger] # NoJob
    <3>1. PICK e \in Event : e = [kind |-> job[Ledger].op, tx |-> job[Ledger].tx, block |-> 0]
      BY <1>4, <2>2
    <3>2. <<e>> \in Seq(Event)
      OBVIOUS
    <3> QED BY <1>2, <2>2, <3>1, <3>2, Joined DEF Ahead
  <2> QED BY <2>1, <2>2
<1> QED BY <1>2, <1>3, <1>4, <1>5

LEMMA AheadGrows ==
  ASSUME MonitorType, TwoTasks, NEW es \in Seq(Event), ledgerQ' = ledgerQ \o es, job' = job
  PROVE  Ahead' = Ahead \o es
<1>1. /\ ledgerQ \in Seq(Event)
      /\ job[Ledger] # NoJob =>
           [kind |-> job[Ledger].op, tx |-> job[Ledger].tx, block |-> 0] \in Event
  BY QueueType
<1>2. CASE job[Ledger] = NoJob
  BY <1>2 DEF Ahead
<1>3. CASE job[Ledger] # NoJob
  <2>1. PICK q \in Seq(Event), e \in Event :
          q = ledgerQ /\ e = [kind |-> job[Ledger].op, tx |-> job[Ledger].tx, block |-> 0]
    BY <1>1, <1>3
  <2>2. <<e>> \o (q \o es) = (<<e>> \o q) \o es
    OBVIOUS
  <2> QED BY <1>3, <2>1, <2>2 DEF Ahead
<1> QED BY <1>2, <1>3

LEMMA ValidChainKept ==
  ASSUME LedgerType, ValidChain(chain), [MonitorNext]_monitorVars
  PROVE  ValidChain(chain')
<1>0. chain \in Seq(Seq(Tx))
  BY DEF LedgerType
<1>1. ASSUME NEW s \in Blocks, Mine(s) PROVE ValidChain(chain')
  <2>1. s \in Seq(Tx) /\ chain' = Append(chain, s)
        /\ \A i \in 1..Len(s) : Valid(s[i], ChainTxs(chain) \cup {s[j] : j \in 1..i - 1})
    BY <1>1, BlockTypes DEF Mine
  <2>2. ValidChain(Append(chain, s))
    BY <1>0, <2>1, BlockAdded
  <2> QED BY <2>1, <2>2
<1>2. CASE RollBack
  <2>1. chain # <<>> /\ chain' = Front(chain)
    BY <1>2 DEF RollBack
  <2>2. Front(chain) \in Seq(Seq(Tx)) /\ Last(chain) \in Seq(Tx) /\ chain = Append(Front(chain), Last(chain))
    BY <1>0, <2>1, ChainEnds
  <2>3. ValidChain(Front(chain))
    BY <2>2, BlockAdded
  <2> QED BY <2>1, <2>3
<1>3. CASE UNCHANGED chain
  BY <1>3
<1>4. CASE RowStep(Ledger) \/ RowStep(Mempool) \/ LedgerCommit \/ MempoolCommit
  BY <1>3, <1>4, CallSteps DEF nodeVars
<1>5. CASE (\E t \in Tx : Submit(t)) \/ LedgerForward \/ TipReached \/ Acquire \/ (\E t \in Tx : Accept(t))
           \/ Drop \/ AgentTask \/ UNCHANGED monitorVars
  BY <1>3, <1>5 DEF Submit, LedgerForward, TipReached, Acquire, Accept, Drop, AgentTask, AgentTrack,
                    AgentConfirm, AgentSend, monitorVars, nodeVars
<1> QED BY <1>1, <1>2, <1>4, <1>5 DEF MonitorNext, Node, LedgerTask, MempoolTask, MempoolIndex

(* An output of a transaction of T, or one that T spends, made by t.       *)
LEMMA MakerIn ==
  ASSUME NEW T, Sound(T), NEW t \in T, NEW u \in Tx, NEW r \in TxIn[t] \cap TxOut[u]
  PROVE  u \in T
<1>1. r \notin Genesis
  BY DEF Genesis, Created
<1>2. PICK v \in T : r \in TxOut[v]
  BY <1>1 DEF Sound, Created
<1>3. v \in Tx
  BY DEF Sound
<1> QED BY <1>2, <1>3, MonitorAssumption

(* A block, or the undoing of one, leads from chain to chain.              *)
LEMMA BlockLeads ==
  ASSUME NEW c \in Seq(Seq(Tx)), NEW s \in Seq(Tx), ValidChain(Append(c, s))
  PROVE  LET f == [k \in 0..Len(s) |-> ChainTxs(c) \cup {s[j] : j \in 1..k}]
         IN  /\ f \in [0..Len(s) -> SUBSET Tx]
             /\ f[0] = ChainTxs(c) /\ f[Len(s)] = ChainTxs(Append(c, s))
             /\ \A k \in 0..Len(s) : Sound(f[k])
             /\ \A k \in 1..Len(s) : s[k] \notin f[k - 1] /\ f[k] = f[k - 1] \cup {s[k]}
<1> DEFINE f == [k \in 0..Len(s) |-> ChainTxs(c) \cup {s[j] : j \in 1..k}]
<1>1. /\ ValidChain(c)
      /\ \A i \in 1..Len(s) : Valid(s[i], ChainTxs(c) \cup {s[j] : j \in 1..i - 1})
  BY BlockAdded
<1>2. Sound(ChainTxs(c))
  BY <1>1, ChainSound
<1>3. PICK n \in Nat : n = Len(s)
  OBVIOUS
<1>4. \A k \in 0..n : f[k] = ChainTxs(c) \cup {s[j] : j \in 1..k}
  BY <1>3
<1>5. ASSUME NEW k \in 0..n PROVE Sound(f[k])
  <2>1. Sound(ChainTxs(c) \cup {s[j] : j \in 1..k})
    BY <1>1, <1>2, <1>3, PartSound
  <2> QED BY <1>4, <2>1
<1>6. f \in [0..n -> SUBSET Tx]
  BY <1>3, <1>5 DEF Sound
<1>7. f[0] = ChainTxs(c)
  <2>1. 1..0 = {}
    OBVIOUS
  <2>2. {s[j] : j \in 1..0} = {}
    BY <2>1
  <2> QED BY <1>4, <2>2
<1>8. f[n] = ChainTxs(Append(c, s))
  <2>1. {s[j] : j \in 1..n} = Elems(s)
    BY <1>3 DEF Elems
  <2>2. ChainTxs(Append(c, s)) = ChainTxs(c) \cup Elems(s)
    BY ChainGrows
  <2>3. n \in 0..n
    OBVIOUS
  <2> HIDE DEF f
  <2>4. f[n] = ChainTxs(c) \cup {s[j] : j \in 1..n}
    BY <1>4, <2>3
  <2> QED BY <2>1, <2>2, <2>4
<1>9. ASSUME NEW k \in 1..n PROVE s[k] \notin f[k - 1] /\ f[k] = f[k - 1] \cup {s[k]}
  <2>1. k - 1 \in 0..n /\ k \in 0..n /\ 1..k = 1..k - 1 \cup {k}
    OBVIOUS
  <2>2. {s[j] : j \in 1..k} = {s[j] : j \in 1..k - 1} \cup {s[k]}
    BY <2>1
  <2>3. Valid(s[k], ChainTxs(c) \cup {s[j] : j \in 1..k - 1})
    BY <1>1, <1>3
  <2>4. s[k] \notin ChainTxs(c) \cup {s[j] : j \in 1..k - 1}
    BY <2>3 DEF Valid
  <2> HIDE DEF f
  <2> QED BY <1>4, <2>1, <2>2, <2>4
<1> HIDE DEF f
<1>10. /\ f \in [0..Len(s) -> SUBSET Tx]
       /\ f[0] = ChainTxs(c) /\ f[Len(s)] = ChainTxs(Append(c, s))
       /\ \A k \in 0..Len(s) : Sound(f[k])
       /\ \A k \in 1..Len(s) : s[k] \notin f[k - 1] /\ f[k] = f[k - 1] \cup {s[k]}
  BY <1>3, <1>5, <1>6, <1>7, <1>8, <1>9
<1> QED BY <1>10 DEF f

LEMMA Mined ==
  ASSUME MonitorType, TwoTasks, ValidChain(chain), Follows, NEW s \in Blocks, Mine(s)
  PROVE  \E st \in Seq(SUBSET Tx) :
           LeadAlong(st, Ahead') /\ st[Len(st)] = ChainTxs(chain') /\ Handled(st[1])
<1>1. s \in Seq(Tx) /\ chain \in Seq(Seq(Tx)) /\ chain' = Append(chain, s)
  BY BlockTypes DEF Mine, MonitorType, LedgerType
<1>2. Len(chain') \in 1..MaxBlocks
  <2>1. Len(chain) \in Nat /\ Len(chain') = Len(chain) + 1 /\ Len(chain) < MaxBlocks
    <3> DEFINE D == Seq(Tx)
    <3> HIDE DEF D
    <3>1. chain \in Seq(D) /\ s \in D
      BY <1>1 DEF D
    <3> QED BY <1>1, <3>1 DEF Mine
  <2> QED BY <2>1, MonitorAssumption
<1> DEFINE es == [i \in 1..Len(s) |-> [kind |-> "apply", tx |-> s[i], block |-> Len(chain')]]
           f == [k \in 0..Len(s) |-> ChainTxs(chain) \cup {s[j] : j \in 1..k}]
<1>3. es \in Seq(Event) /\ Len(es) = Len(s)
  BY <1>1, <1>2, MonitorAssumption DEF Event
<1>4. ValidChain(Append(chain, s))
  BY <1>1, BlockAdded DEF Mine
<1>5. /\ f \in [0..Len(s) -> SUBSET Tx]
      /\ f[0] = ChainTxs(chain) /\ f[Len(s)] = ChainTxs(chain')
      /\ \A k \in 0..Len(s) : Sound(f[k])
      /\ \A k \in 1..Len(s) : s[k] \notin f[k - 1] /\ f[k] = f[k - 1] \cup {s[k]}
  <2>1. /\ f \in [0..Len(s) -> SUBSET Tx]
        /\ f[0] = ChainTxs(chain) /\ f[Len(s)] = ChainTxs(Append(chain, s))
        /\ \A k \in 0..Len(s) : Sound(f[k])
        /\ \A k \in 1..Len(s) : s[k] \notin f[k - 1] /\ f[k] = f[k - 1] \cup {s[k]}
    BY <1>1, <1>4, BlockLeads
  <2> HIDE DEF f
  <2> QED BY <1>1, <2>1
<1>6. \A k \in 1..Len(s) : Leads(f[k - 1], es[k], f[k])
  <2> SUFFICES ASSUME NEW k \in 1..Len(s) PROVE Leads(f[k - 1], es[k], f[k])
    OBVIOUS
  <2>1. es[k].kind = "apply" /\ es[k].tx = s[k]
    OBVIOUS
  <2> HIDE DEF f, es
  <2> QED BY <1>5, <2>1 DEF Leads
<1>7. ledgerQ' = ledgerQ \o es /\ job' = job
  BY DEF Mine, allVars, wvars
<1> HIDE DEF es, f
<1>8. PICK st \in Seq(SUBSET Tx) :
        LeadAlong(st, Ahead) /\ st[Len(st)] = ChainTxs(chain) /\ Handled(st[1])
  BY DEF Follows
<1>9. Ahead \in Seq(Event) /\ Ahead' = Ahead \o es
  BY <1>3, <1>7, QueueType, AheadGrows
<1>10. \E t \in Seq(SUBSET Tx) :
         LeadAlong(t, Ahead \o es) /\ t[Len(t)] = f[Len(es)] /\ t[1] = st[1]
  <2>1. f \in [0..Len(es) -> SUBSET Tx] /\ f[0] = st[Len(st)]
        /\ (\A k \in 0..Len(es) : Sound(f[k]))
        /\ \A k \in 1..Len(es) : Leads(f[k - 1], es[k], f[k])
    BY <1>3, <1>5, <1>6, <1>8
  <2> QED BY <1>3, <1>8, <1>9, <2>1, LeadFurther
<1> QED BY <1>3, <1>5, <1>8, <1>9, <1>10

LEMMA RolledBack ==
  ASSUME MonitorType, TwoTasks, ValidChain(chain), Follows, RollBack
  PROVE  \E st \in Seq(SUBSET Tx) :
           LeadAlong(st, Ahead') /\ st[Len(st)] = ChainTxs(chain') /\ Handled(st[1])
<1> DEFINE c == Front(chain)
           s == Last(chain)
<1>1. chain # <<>> /\ chain \in Seq(Seq(Tx)) /\ chain' = c
  BY DEF RollBack, MonitorType, LedgerType
<1>2. c \in Seq(Seq(Tx)) /\ s \in Seq(Tx) /\ chain = Append(c, s)
  BY <1>1, ChainEnds
<1>3. Len(chain) \in 1..MaxBlocks
  <2>1. Len(chain) \in Nat /\ 1 <= Len(chain)
    <3> DEFINE D == Seq(Tx)
    <3> HIDE DEF D
    <3>1. chain \in Seq(D)
      BY <1>1 DEF D
    <3> QED BY <1>1, <3>1
  <2> QED BY <2>1, MonitorAssumption DEF MonitorType, LedgerType
<1> DEFINE r == Reverse(s)
           es == [i \in 1..Len(r) |-> [kind |-> "unapply", tx |-> r[i], block |-> Len(chain)]]
           f == [k \in 0..Len(s) |-> ChainTxs(c) \cup {s[j] : j \in 1..k}]
<1>4. ledgerQ' = ledgerQ \o es /\ job' = job
  BY DEF RollBack, allVars, wvars
<1> HIDE DEF c, s
<1>5. PICK n \in Nat : n = Len(s)
  BY <1>2
<1>6. r \in Seq(Tx) /\ Len(r) = n /\ \A i \in 1..n : r[i] = s[n - i + 1]
  BY <1>2, <1>5 DEF Reverse
<1> HIDE DEF r
<1>7. es \in Seq(Event) /\ Len(es) = n
  <2>1. Len(chain) \in Nat
    BY <1>3
  <2>2. /\ es = [i \in 1..n |-> [kind |-> "unapply", tx |-> r[i], block |-> Len(chain)]]
        /\ \A i \in 1..n : r[i] \in Tx
    BY <1>5, <1>6
  <2> QED BY <1>5, <2>1, <2>2 DEF Event
<1>8. /\ f \in [0..n -> SUBSET Tx]
      /\ f[0] = ChainTxs(c) /\ f[n] = ChainTxs(chain)
      /\ \A k \in 0..n : Sound(f[k])
      /\ \A k \in 1..n : s[k] \notin f[k - 1] /\ f[k] = f[k - 1] \cup {s[k]}
  <2>1. ValidChain(Append(c, s))
    BY <1>2
  <2>2. /\ f \in [0..Len(s) -> SUBSET Tx]
        /\ f[0] = ChainTxs(c) /\ f[Len(s)] = ChainTxs(Append(c, s))
        /\ \A k \in 0..Len(s) : Sound(f[k])
        /\ \A k \in 1..Len(s) : s[k] \notin f[k - 1] /\ f[k] = f[k - 1] \cup {s[k]}
    BY <1>2, <2>1, BlockLeads
  <2> HIDE DEF f
  <2> QED BY <1>2, <1>5, <2>2
<1> HIDE DEF f
<1> DEFINE g == [k \in 0..n |-> f[n - k]]
<1>9. \A k \in 0..n : n - k \in 0..n /\ g[k] = f[n - k]
  OBVIOUS
<1>10. g \in [0..n -> SUBSET Tx] /\ g[0] = ChainTxs(chain) /\ g[n] = ChainTxs(c)
  <2>1. n - 0 = n /\ n - n = 0 /\ 0 \in 0..n /\ n \in 0..n
    OBVIOUS
  <2> QED BY <1>8, <2>1
<1>11. \A k \in 0..n : Sound(g[k])
  BY <1>8, <1>9
<1>12. ASSUME NEW k \in 1..n PROVE Leads(g[k - 1], es[k], g[k])
  <2>1. n - k + 1 \in 1..n /\ (n - k + 1) - 1 = n - k /\ n - (k - 1) = n - k + 1 /\ k - 1 \in 0..n /\ k \in 0..n
    OBVIOUS
  <2>2. g[k - 1] = f[n - k + 1] /\ g[k] = f[n - k]
    <3>1. g[k - 1] = f[n - (k - 1)]
      BY <1>9, <2>1
    <3> QED BY <1>9, <2>1, <3>1
  <2>3. s[n - k + 1] \notin f[n - k] /\ f[n - k + 1] = f[n - k] \cup {s[n - k + 1]}
    <3>1. s[n - k + 1] \notin f[(n - k + 1) - 1] /\ f[n - k + 1] = f[(n - k + 1) - 1] \cup {s[n - k + 1]}
      BY <1>8, <2>1
    <3> QED BY <2>1, <3>1
  <2>4. es[k].kind = "unapply" /\ es[k].tx = r[k] /\ r[k] = s[n - k + 1]
    BY <1>6
  <2> HIDE DEF g, es
  <2> QED BY <2>2, <2>3, <2>4 DEF Leads
<1> HIDE DEF es, g
<1>13. PICK st \in Seq(SUBSET Tx) :
        LeadAlong(st, Ahead) /\ st[Len(st)] = ChainTxs(chain) /\ Handled(st[1])
  BY DEF Follows
<1>14. Ahead \in Seq(Event) /\ Ahead' = Ahead \o es
  BY <1>4, <1>7, QueueType, AheadGrows
<1>15. \E t \in Seq(SUBSET Tx) :
         LeadAlong(t, Ahead \o es) /\ t[Len(t)] = g[Len(es)] /\ t[1] = st[1]
  <2>1. g \in [0..Len(es) -> SUBSET Tx] /\ g[0] = st[Len(st)]
        /\ (\A k \in 0..Len(es) : Sound(g[k]))
        /\ \A k \in 1..Len(es) : Leads(g[k - 1], es[k], g[k])
    BY <1>7, <1>10, <1>11, <1>12, <1>13
  <2> QED BY <1>7, <1>13, <1>14, <2>1, LeadFurther
<1>16. ChainTxs(chain') = g[Len(es)]
  BY <1>1, <1>7, <1>10
<1> QED BY <1>13, <1>14, <1>15, <1>16

-----------------------------------------------------------------------------
(* The steps of the tasks and the index.                                   *)

(* Steps that leave the index and the calls alone.                         *)
LEMMA Elsewhere ==
  ASSUME Node \/ TipReached \/ Acquire \/ AgentTask \/ UNCHANGED monitorVars
  PROVE  UNCHANGED <<txo, job, todo, seen, batch, dropped, returned, overtaken>>
BY DEF Node, Submit, Mine, RollBack, TipReached, Acquire, AgentTask, AgentTrack, AgentConfirm, AgentSend,
       monitorVars, processVars, mempoolVars, allVars, vars, wvars

LEMMA RowFrame ==
  ASSUME TwoTasks, MonitorType, NEW w \in Writer, RowStep(w)
  PROVE  /\ UNCHANGED <<txo, job, dropped, returned, overtaken>>
         /\ \A v \in Writer \ {w} : UNCHANGED <<todo[v], seen[v], batch[v]>>
<1>1. WritersTyped
  BY DEF MonitorType, Rows, WritersInv
<1> QED BY <1>1 DEF RowStep, Read, Skip, Put, Advance, LockTimeout, vars, processVars, mempoolVars,
                    WritersTyped

LEMMA StartFrame ==
  ASSUME TwoTasks, MonitorType, NEW w \in Writer, NEW j, Start(w, j)
  PROVE  /\ UNCHANGED <<txo, seen, batch>>
         /\ job[w] = NoJob /\ job'[w] = j /\ todo'[w] = InSeq[j.tx] \o OutSeq[j.tx]
         /\ todo[w] = <<>> /\ batch[w] = {} /\ seen[w] = Unread
         /\ \A v \in Writer \ {w} : UNCHANGED <<job[v], todo[v]>>
<1>1. WritersTyped /\ Between(w) /\ RowInv(w)
  BY DEF MonitorType, Rows, WritersInv
<1> QED BY <1>1 DEF Start, vars, WritersTyped, Between, RowInv

LEMMA CommitFrame ==
  ASSUME TwoTasks, MonitorType, NEW w \in Writer, CommitOver(w)
  PROVE  /\ job[w] # NoJob /\ job'[w] = NoJob /\ todo[w] = <<>>
         /\ UNCHANGED <<todo, seen>>
         /\ \A v \in Writer \ {w} : UNCHANGED <<job[v], batch[v]>>
         /\ \A v \in Writer : overtaken[v] \subseteq overtaken'[v]
         /\ \A v \in Writer : \A r \in Ref :
              Pending(v, r) /\ seen[v] # txo'[r] => r \in overtaken'[v]
<1>1. WritersTyped
  BY DEF MonitorType, Rows, WritersInv
<1>2. Commit(w) /\ overtaken' = [v \in Writer |->
                     overtaken[v] \cup {r \in Ref : Pending(v, r) /\ seen[v] # txo'[r]}]
  BY DEF CommitOver
<1> QED BY <1>1, <1>2 DEF Commit, WritersTyped

LEMMA LostGrows ==
  ASSUME TwoTasks, MonitorType, [MonitorNext]_monitorVars
  PROVE  dropped \subseteq dropped' /\ returned \subseteq returned' /\ LostSpends \subseteq LostSpends'
<1>0. Ledger \in Writer /\ Mempool \in Writer
  BY DEF TwoTasks
<1>1. ASSUME dropped \subseteq dropped', returned \subseteq returned',
             overtaken[Mempool] \subseteq overtaken'[Mempool]
      PROVE  LostSpends \subseteq LostSpends'
  BY <1>1 DEF LostSpends, Consumed, Created
<1>2. CASE LedgerCommit \/ MempoolCommit
  <2>1. overtaken[Mempool] \subseteq overtaken'[Mempool]
    BY <1>0, <1>2, CommitFrame DEF LedgerCommit, MempoolCommit
  <2>2. dropped \subseteq dropped' /\ returned \subseteq returned'
    BY <1>2 DEF LedgerCommit, MempoolCommit, mempoolVars
  <2> QED BY <1>1, <2>1, <2>2
<1>3. CASE RowStep(Ledger) \/ RowStep(Mempool)
  <2>1. UNCHANGED <<dropped, returned, overtaken>>
    BY <1>0, <1>3, RowFrame
  <2> QED BY <1>1, <2>1
<1>4. CASE Node \/ TipReached \/ Acquire \/ AgentTask \/ UNCHANGED monitorVars
  <2>1. UNCHANGED <<dropped, returned, overtaken>>
    BY <1>4, Elsewhere
  <2> QED BY <1>1, <2>1
<1>5. CASE LedgerForward \/ Drop
  BY <1>1, <1>5 DEF LedgerForward, Drop, mempoolVars
<1>6. ASSUME NEW t \in Tx, Accept(t) PROVE dropped' = dropped /\ returned \subseteq returned' /\ overtaken' = overtaken
  BY <1>6 DEF Accept
<1> QED BY <1>1, <1>2, <1>3, <1>4, <1>5, <1>6 DEF MonitorNext, LedgerTask, MempoolTask, MempoolIndex

(* What is accepted after it was given up has come back.                   *)
LEMMA OnceReturnedKept ==
  ASSUME TwoTasks, MonitorType, OnceReturned, [MonitorNext]_monitorVars
  PROVE  OnceReturned'
<1> USE DEF OnceReturned, Applies
<1>0. Ledger \in Writer /\ Mempool \in Writer /\ Ledger # Mempool
  BY DEF TwoTasks
<1>1. ASSUME UNCHANGED <<job[Mempool], dropped, returned>> PROVE OnceReturned'
  BY <1>1
<1>2. ASSUME NEW t \in Tx, Accept(t) PROVE OnceReturned'
  <2>1. dropped' = dropped
    BY <1>2 DEF Accept
  <2>2. CASE t \in Elems(filter)
    <3>1. UNCHANGED <<job, returned>>
      BY <1>2, <2>2 DEF Accept, allVars, wvars
    <3> QED BY <1>1, <2>1, <3>1
  <2>3. CASE t \notin Elems(filter)
    <3>1. returned' = returned \cup ({t} \cap dropped) /\ Start(Mempool, Call("apply", t, None))
      BY <1>2, <2>3 DEF Accept
    <3>2. job'[Mempool] = Call("apply", t, None)
      BY <1>0, <3>1, StartFrame
    <3>3. job'[Mempool].tx = t
      BY <3>2 DEF Call
    <3> QED BY <2>1, <3>1, <3>3
  <2> QED BY <2>2, <2>3
<1>3. CASE Drop
  <2>1. Start(Mempool, Call("unapply", Head(failed), None))
    BY <1>3 DEF Drop
  <2>2. job'[Mempool] = Call("unapply", Head(failed), None)
    BY <1>0, <2>1, StartFrame
  <2>3. job'[Mempool].op = "unapply"
    BY <2>2 DEF Call
  <2> QED BY <2>3
<1>4. CASE MempoolCommit
  <2>1. job'[Mempool] = NoJob
    BY <1>0, <1>4, CommitFrame DEF MempoolCommit
  <2> QED BY <2>1
<1>5. CASE LedgerCommit
  <2>1. job'[Mempool] = job[Mempool]
    BY <1>0, <1>5, CommitFrame DEF LedgerCommit
  <2> QED BY <1>1, <1>5, <2>1 DEF LedgerCommit, mempoolVars
<1>6. CASE LedgerForward
  <2>1. PICK j : Start(Ledger, j)
    BY <1>6 DEF LedgerForward
  <2>2. job'[Mempool] = job[Mempool]
    BY <1>0, <2>1, StartFrame
  <2> QED BY <1>1, <1>6, <2>2 DEF LedgerForward, mempoolVars
<1>7. CASE RowStep(Ledger) \/ RowStep(Mempool)
  <2>1. UNCHANGED <<job, dropped, returned>>
    BY <1>0, <1>7, RowFrame
  <2> QED BY <1>1, <2>1
<1>8. CASE Node \/ TipReached \/ Acquire \/ AgentTask \/ UNCHANGED monitorVars
  <2>1. UNCHANGED <<job, dropped, returned>>
    BY <1>8, Elsewhere
  <2> QED BY <1>1, <2>1
<1> QED BY <1>2, <1>3, <1>4, <1>5, <1>6, <1>7, <1>8 DEF MonitorNext, LedgerTask, MempoolTask, MempoolIndex

-----------------------------------------------------------------------------
(* What a writer has read as unspent.                                      *)

LEMMA HeldRead ==
  ASSUME Rows, NEW w \in Writer, Read(w), NEW r \in HeldBy(w)', r \notin HeldBy(w)
  PROVE  r \in TxOut[job[w].tx] /\ r \in Ref /\ (txo[r] = Absent \/ r \in Unspent)
<1>1. WritersTyped /\ todo[w] # <<>>
  BY DEF Rows, WritersInv, Read
<1>2. /\ job' = job /\ todo' = todo /\ batch' = batch /\ seen'[w] = txo[Head(todo[w])]
  BY <1>1 DEF Read, WritersTyped
<1>3. r \in TxOut[job[w].tx] /\ Pending(w, r)' /\ (seen'[w] = Absent \/ ~seen'[w].spent)
  BY <1>2 DEF HeldBy
<1>4. r = Head(todo[w])
  BY <1>2, <1>3 DEF Pending
<1>5. r \in Ref
  BY <1>1, <1>4, HeadWaits
<1> QED BY <1>2, <1>3, <1>4, <1>5 DEF Unspent, Live

LEMMA HeldWritten ==
  ASSUME Rows, NEW w \in Writer, Skip(w) \/ Put(w) \/ LockTimeout(w), Applies(w)
  PROVE  HeldBy(w)' \subseteq HeldBy(w)
<1>1. WritersTyped /\ todo[w] # <<>>
  BY DEF Rows, WritersInv, Skip, Put, LockTimeout
<1>2. CASE LockTimeout(w)
  BY <1>2 DEF LockTimeout, HeldBy, Pending, Skips, IsInput
<1>3. CASE Skip(w)
  <2>1. job' = job /\ batch' = batch /\ seen'[w] = Unread
    BY <1>1, <1>3 DEF Skip, Advance, WritersTyped
  <2> QED BY <2>1 DEF HeldBy, Pending
<1>4. CASE Put(w)
  <2> DEFINE x == Head(todo[w])
             new == Written(w, x, seen[w])
  <2>1. /\ seen[w] # Unread /\ ~Skips(w, x) /\ job' = job /\ seen'[w] = Unread
        /\ batch'[w] = batch[w] \cup {new}
    BY <1>1, <1>4 DEF Put, Advance, WritersTyped
  <2>2. job[w] \in Job /\ x \in Ref /\ seen[w] \in Txo \cup {Absent}
    BY <1>1, <2>1, HeadWaits DEF WritersTyped
  <2>3. /\ new.ref = x
        /\ ~IsInput(w, x) => (new.new.spent <=> (seen[w] # Absent /\ seen[w].spent))
    BY <2>1, <2>2, WrittenKinds DEF Applies
  <2> HIDE DEF new
  <2>4. ASSUME NEW r \in HeldBy(w)' PROVE r \in HeldBy(w)
    <3>1. r \in TxOut[job[w].tx] /\ \E e \in batch'[w] : e.ref = r /\ ~e.new.spent
      BY <2>1, <2>4 DEF HeldBy, Pending
    <3>2. PICK e \in batch'[w] : e.ref = r /\ ~e.new.spent
      BY <3>1
    <3>3. CASE e \in batch[w]
      BY <3>1, <3>2, <3>3 DEF HeldBy
    <3>4. CASE e = new
      <4>1. r = x /\ r \notin TxIn[job[w].tx]
        BY <2>2, <2>3, <3>1, <3>2, <3>4, TxAssumption DEF Job
      <4>2. Pending(w, r) /\ (seen[w] = Absent \/ ~seen[w].spent)
        BY <1>1, <2>1, <2>3, <3>2, <3>4, <4>1 DEF Pending, IsInput
      <4> QED BY <3>1, <4>2 DEF HeldBy
    <3> QED BY <2>1, <3>2, <3>3, <3>4
  <2> QED BY <2>4
<1> QED BY <1>2, <1>3, <1>4

LEMMA HeldElsewhere ==
  ASSUME UNCHANGED <<job[Mempool], todo[Mempool], seen[Mempool], batch[Mempool]>>
  PROVE  Held' = Held
BY DEF Held, HeldBy, Pending, Skips, IsInput, Applies

(* The mempool task starts a call.                                         *)
LEMMA HeldStart ==
  ASSUME TwoTasks, MonitorType, NEW j, Start(Mempool, j)
  PROVE  Held' = {}
<1>1. batch'[Mempool] = {} /\ seen'[Mempool] = Unread
  BY StartFrame DEF TwoTasks
<1> QED BY <1>1 DEF Held, HeldBy, Pending

LEMMA HandledStill ==
  ASSUME txo' = txo, dropped' = dropped, LostSpends \subseteq LostSpends',
         NEW T, Handled(T), Consumed(T) \cap (Held' \ Held) \subseteq LostSpends'
  PROVE  Handled(T)'
<1>1. Live' = Live /\ Unspent' = Unspent
  BY DEF Live, Unspent
<1>2. Consumed(T)' = Consumed(T)
  BY DEF Consumed
<1> QED BY <1>1, <1>2 DEF Handled

(* Reading and writing rows.                                               *)
LEMMA RowsHandled ==
  ASSUME TwoTasks, MonitorType, OnceReturned, RowStep(Ledger) \/ RowStep(Mempool),
         LostSpends \subseteq LostSpends', NEW T, Sound(T), Handled(T)
  PROVE  Handled(T)'
<1>0. Ledger \in Writer /\ Mempool \in Writer /\ Ledger # Mempool /\ Rows
  BY DEF TwoTasks, MonitorType
<1>1. UNCHANGED <<txo, job, dropped, returned, overtaken>>
  BY <1>0, RowFrame
<1>2. CASE RowStep(Ledger)
  <2>1. UNCHANGED <<todo[Mempool], seen[Mempool], batch[Mempool]>>
    BY <1>0, <1>2, RowFrame
  <2>2. Held' = Held
    BY <1>1, <2>1, HeldElsewhere
  <2> QED BY <1>1, <2>2, HandledStill
<1>3. CASE RowStep(Mempool)
  <2> DEFINE m == job[Mempool].tx
  <2>1. ASSUME NEW r \in Consumed(T) \cap (Held' \ Held) PROVE r \in LostSpends'
    <3>1. Applies(Mempool) /\ r \in HeldBy(Mempool)' /\ r \notin HeldBy(Mempool)
      BY <1>1, <2>1 DEF Held, Applies
    <3>2. Read(Mempool)
      BY <1>0, <1>3, <3>1, HeldWritten DEF RowStep
    <3>3. r \in TxOut[m] /\ r \in Ref /\ (txo[r] = Absent \/ r \in Unspent)
      BY <1>0, <3>1, <3>2, HeldRead
    <3>4. m \in Tx
      BY <1>0, <3>1 DEF Rows, WritersInv, WritersTyped, Applies, Job
    <3>5. CASE r \in Unspent
      BY <2>1, <3>5 DEF Handled
    <3>6. CASE txo[r] = Absent
      <4>1. PICK t \in T : r \in TxIn[t]
        BY <2>1 DEF Consumed
      <4>2. m \in T
        BY <3>3, <3>4, <4>1, MakerIn
      <4>3. m \in dropped
        BY <3>3, <3>6, <4>2 DEF Handled, Live
      <4>4. m \in returned
        BY <3>1, <4>3 DEF OnceReturned
      <4>5. r \in LostSpends
        BY <3>3, <4>4 DEF LostSpends, Created
      <4> QED BY <4>5
    <3> QED BY <3>3, <3>5, <3>6
  <2>2. Consumed(T) \cap (Held' \ Held) \subseteq LostSpends'
    BY <2>1
  <2> QED BY <1>1, <2>2, HandledStill
<1> QED BY <1>2, <1>3

(* The mempool task commits.                                               *)
LEMMA MempoolHandled ==
  ASSUME TwoTasks, MonitorType, MempoolCommit, LostSpends \subseteq LostSpends',
         NEW T, Sound(T), Handled(T)
  PROVE  Handled(T)'
<1> DEFINE m == job[Mempool].tx
<1>0. Mempool \in Writer /\ Rows /\ CommitOver(Mempool) /\ Commit(Mempool)
  BY DEF TwoTasks, MonitorType, MempoolCommit, CommitOver
<1>1. job[Mempool] # NoJob /\ job'[Mempool] = NoJob /\ m \in Tx /\ T \subseteq Tx
  BY <1>0, CommitFrame, CommitTx DEF Sound
<1>2. Held' = {} /\ Consumed(T)' = Consumed(T)
  BY <1>1 DEF Held, Applies, Consumed
<1>3. CASE Applies(Mempool)
  <2>1. Live \subseteq Live' /\ Unspent' \subseteq Unspent \cup HeldBy(Mempool)
    BY <1>0, <1>3, CommitApplied
  <2>2. dropped' = dropped
    BY <1>3 DEF MempoolCommit, Applies
  <2>3. HeldBy(Mempool) = Held
    BY <1>3 DEF Held
  <2>4. Consumed(T) \cap Unspent' \subseteq LostSpends'
    BY <2>1, <2>3 DEF Handled
  <2>5. \A t \in T \ dropped' : TxOut[t] \subseteq Live'
    BY <2>1, <2>2 DEF Handled
  <2> QED BY <1>2, <2>4, <2>5 DEF Handled
<1>4. CASE ~Applies(Mempool)
  <2>1. Live \ TxOut[m] \subseteq Live' /\ Unspent' \subseteq Unspent \cup TxIn[m]
    BY <1>0, <1>4, CommitUnapplied
  <2>2. dropped' = dropped \cup {m}
    BY <1>1, <1>4 DEF MempoolCommit, Applies
  <2>3. TxIn[m] \subseteq LostSpends'
    BY <2>2 DEF LostSpends, Consumed
  <2>4. Consumed(T) \cap Unspent' \subseteq LostSpends'
    BY <2>1, <2>3 DEF Handled
  <2>5. ASSUME NEW t \in T \ dropped' PROVE TxOut[t] \subseteq Live'
    <3>1. t # m /\ t \in Tx /\ TxOut[t] \subseteq Live
      BY <1>1, <2>2, <2>5 DEF Handled
    <3>2. TxOut[t] \cap TxOut[m] = {}
      BY <1>1, <3>1, MonitorAssumption
    <3> QED BY <2>1, <3>1, <3>2
  <2> QED BY <1>2, <2>4, <2>5 DEF Handled
<1> QED BY <1>3, <1>4

(* The ledger task commits what the next event says.                       *)
LEMMA LedgerHandled ==
  ASSUME TwoTasks, MonitorType, OnceReturned, Settling, LedgerCommit,
         LostSpends \subseteq LostSpends', NEW S, Sound(S), Handled(S),
         NEW T, IF Applies(Ledger) THEN job[Ledger].tx \notin S /\ T = S \cup {job[Ledger].tx}
                ELSE job[Ledger].tx \in S /\ T = S \ {job[Ledger].tx}
  PROVE  Handled(T)'
<1> DEFINE m == job[Ledger].tx
           u == job[Mempool].tx
<1>0. /\ Ledger \in Writer /\ Mempool \in Writer /\ Ledger # Mempool /\ Rows
      /\ CommitOver(Ledger) /\ Commit(Ledger) /\ UNCHANGED <<dropped, returned>>
  BY DEF TwoTasks, MonitorType, LedgerCommit, CommitOver, mempoolVars
<1>1. /\ job[Ledger] # NoJob /\ m \in Tx /\ S \subseteq Tx /\ todo[Ledger] = <<>>
      /\ UNCHANGED <<todo, seen>> /\ UNCHANGED <<job[Mempool], batch[Mempool]>>
  BY <1>0, CommitFrame, CommitTx DEF Sound
<1>2. Held' = Held /\ \A P : Consumed(P)' = Consumed(P)
  BY <1>1, HeldElsewhere DEF Consumed
<1>3. Applies(Mempool) => u \in Tx
  BY <1>0 DEF Rows, WritersInv, WritersTyped, Applies, Job
<1>4. CASE Applies(Ledger)
  <2>1. /\ Live \subseteq Live' /\ TxOut[m] \subseteq Live'
        /\ \A r \in TxIn[m] \cap Refs(Ledger) :
              r \in Ref /\ txo'[r] # Absent /\ txo'[r].spent /\ r \notin Unspent'
        /\ Unspent' \subseteq Unspent \cup TxOut[m]
    <3>1. /\ Live \subseteq Live' /\ TxOut[m] \subseteq Live'
          /\ \A r \in TxIn[m] \cap Refs(Ledger) :
               r \in Ref /\ txo'[r] # Absent /\ txo'[r].spent /\ r \notin Unspent'
          /\ Unspent' \subseteq Unspent \cup (HeldBy(Ledger) \cap TxOut[m])
      BY <1>0, <1>4, CommitApplied
    <3> QED BY <3>1
  <2>2. m \notin S /\ T = S \cup {m} /\ TxIn[m] \cap TxOut[m] = {}
    BY <1>1, <1>4, TxAssumption
  <2>3. \A t \in T \ dropped' : TxOut[t] \subseteq Live'
    BY <1>0, <2>1, <2>2 DEF Handled
  <2>4. ASSUME NEW r \in Consumed(S) \cap (Unspent' \cup Held) PROVE r \in LostSpends'
    <3>1. PICK t \in S : r \in TxIn[t]
      BY <2>4 DEF Consumed
    <3>2. r \notin TxOut[m]
      BY <1>1, <2>2, <3>1, MakerIn
    <3> QED BY <2>1, <2>4, <3>2 DEF Handled
  <2>5. ASSUME NEW r \in TxIn[m], r \in Unspent' \cup Held PROVE r \in LostSpends'
    <3>1. CASE r \in Refs(Ledger)
      <4>1. r \in Held /\ r \in Ref /\ txo'[r] # Absent /\ txo'[r].spent
        BY <2>1, <2>5, <3>1
      <4>2. r \notin Refs(Mempool)
        BY <1>0, <3>1 DEF Rows, Exclusive
      <4>3. Pending(Mempool, r) /\ (seen[Mempool] = Absent \/ ~seen[Mempool].spent)
        BY <4>1, <4>2 DEF Held, HeldBy, Refs
      <4>4. r \in overtaken'[Mempool]
        BY <1>0, <4>1, <4>3, CommitFrame
      <4> QED BY <4>4 DEF LostSpends
    <3>2. CASE r \in Genesis \cup Created(dropped) /\ (r \notin Unspent \/ r \in LostSpends)
      <4>1. CASE r \in LostSpends
        BY <4>1
      <4>2. CASE r \notin Unspent
        <5>1. r \in Held
          BY <2>1, <2>2, <2>5, <4>2
        <5>2. Applies(Mempool) /\ u \in Tx /\ r \in TxOut[u]
          BY <1>3, <5>1 DEF Held, HeldBy
        <5>3. r \notin Genesis
          BY <5>2 DEF Genesis, Created
        <5>4. PICK v \in dropped : r \in TxOut[v]
          BY <3>2, <5>3 DEF Created
        <5>5. u \in dropped
          BY <5>2, <5>4, MonitorAssumption DEF MonitorType, MempoolType
        <5>6. u \in returned
          BY <5>2, <5>5 DEF OnceReturned
        <5>7. r \in LostSpends
          BY <5>2, <5>6 DEF LostSpends, Created
        <5> QED BY <5>7
      <4> QED BY <3>2, <4>1, <4>2
    <3>3. r \notin Waiting(Ledger)
      BY <1>1 DEF Waiting
    <3> QED BY <1>4, <3>1, <3>2, <3>3 DEF Settling
  <2>6. Consumed(T) = Consumed(S) \cup TxIn[m]
    BY <2>2 DEF Consumed
  <2>7. Consumed(T) \cap (Unspent' \cup Held) \subseteq LostSpends'
    BY <2>4, <2>5, <2>6
  <2> QED BY <1>2, <2>3, <2>7 DEF Handled
<1>5. CASE ~Applies(Ledger)
  <2>1. Live \ TxOut[m] \subseteq Live' /\ Unspent' \subseteq Unspent \cup TxIn[m]
    BY <1>0, <1>5, CommitUnapplied
  <2>2. m \in S /\ T = S \ {m}
    BY <1>5
  <2>3. ASSUME NEW t \in T \ dropped' PROVE TxOut[t] \subseteq Live'
    <3>1. t # m /\ t \in Tx /\ TxOut[t] \subseteq Live
      BY <1>0, <1>1, <2>2, <2>3 DEF Handled
    <3>2. TxOut[t] \cap TxOut[m] = {}
      BY <1>1, <3>1, MonitorAssumption
    <3> QED BY <2>1, <3>1, <3>2
  <2>4. Consumed(T) \subseteq Consumed(S) /\ Consumed(T) \cap TxIn[m] = {}
    BY <2>2 DEF Consumed, Sound
  <2>5. Consumed(T) \cap (Unspent' \cup Held) \subseteq LostSpends'
    BY <2>1, <2>4 DEF Handled
  <2> QED BY <1>2, <2>3, <2>5 DEF Handled
<1> QED BY <1>4, <1>5

(* A transaction the ledger task applies extends what it has handled to a  *)
(* sound set.                                                              *)
LEMMA NextSound ==
  ASSUME TwoTasks, MonitorType, Follows, job[Ledger] # NoJob
  PROVE  \E S, T : /\ Sound(S) /\ Sound(T) /\ Handled(S)
                   /\ IF Applies(Ledger) THEN job[Ledger].tx \notin S /\ T = S \cup {job[Ledger].tx}
                      ELSE job[Ledger].tx \in S /\ T = S \ {job[Ledger].tx}
                   /\ \E u \in Seq(SUBSET Tx) :
                        LeadAlong(u, ledgerQ) /\ u[Len(u)] = ChainTxs(chain) /\ u[1] = T
<1>1. PICK e \in Event : e = [kind |-> job[Ledger].op, tx |-> job[Ledger].tx, block |-> 0]
  BY QueueType
<1>2. ledgerQ \in Seq(Event) /\ Ahead = <<e>> \o ledgerQ
  BY <1>1, QueueType DEF Ahead
<1>3. PICK st \in Seq(SUBSET Tx) :
        LeadAlong(st, Ahead) /\ st[Len(st)] = ChainTxs(chain) /\ Handled(st[1])
  BY DEF Follows
<1>4. PICK u : u = Tail(st)
  OBVIOUS
<1>5. /\ Sound(st[1]) /\ Leads(st[1], e, st[2])
      /\ LeadAlong(u, ledgerQ) /\ u[Len(u)] = ChainTxs(chain) /\ u[1] = st[2]
  BY <1>2, <1>3, <1>4, LeadOn
<1>6. u \in Seq(SUBSET Tx) /\ Sound(u[1])
  <2>1. Len(u) = Len(ledgerQ) + 1 /\ Len(ledgerQ) \in Nat
    BY <1>2, <1>5 DEF LeadAlong
  <2>2. 1 \in 1..Len(u)
    BY <2>1
  <2> QED BY <1>5, <2>2 DEF LeadAlong
<1>7. IF Applies(Ledger) THEN job[Ledger].tx \notin st[1] /\ st[2] = st[1] \cup {job[Ledger].tx}
      ELSE job[Ledger].tx \in st[1] /\ st[2] = st[1] \ {job[Ledger].tx}
  BY <1>1, <1>5 DEF Leads, Applies
<1> QED BY <1>3, <1>5, <1>6, <1>7

-----------------------------------------------------------------------------
(* The inputs of what the ledger task applies.                             *)

LEMMA SettlingStill ==
  ASSUME UNCHANGED <<job[Ledger], todo[Ledger], seen[Ledger], batch[Ledger]>>, Settling,
         dropped \subseteq dropped', LostSpends \subseteq LostSpends',
         \A r \in Unspent' \cap (Genesis \cup Created(dropped)) : r \in Unspent \cup LostSpends'
  PROVE  Settling'
<1>1. /\ Applies(Ledger)' = Applies(Ledger) /\ Refs(Ledger)' = Refs(Ledger)
      /\ Waiting(Ledger)' = Waiting(Ledger)
  BY DEF Applies, Refs, Waiting
<1>2. Created(dropped) \subseteq Created(dropped)' /\ Genesis' = Genesis
  BY DEF Created, Genesis
<1>3. SUFFICES ASSUME Applies(Ledger), NEW r \in TxIn[job[Ledger].tx]
               PROVE  \/ r \in Refs(Ledger)
                      \/ r \in Waiting(Ledger) /\ ~(r = Head(todo[Ledger]) /\ seen[Ledger] = Absent)
                      \/ r \in Genesis \cup Created(dropped)' /\ (r \notin Unspent' \/ r \in LostSpends')
  BY <1>1, <1>2 DEF Settling
<1> QED BY <1>2, <1>3 DEF Settling

(* An input is missing when the ledger task reads it only if the chain     *)
(* does not hold its maker, or the mempool task has unapplied it.          *)
LEMMA MissingInput ==
  ASSUME TwoTasks, MonitorType, Follows, Applies(Ledger),
         NEW r \in TxIn[job[Ledger].tx], txo[r] = Absent
  PROVE  r \in Genesis \cup Created(dropped) /\ r \notin Unspent
<1> DEFINE m == job[Ledger].tx
<1>1. PICK S, T : Sound(T) /\ Handled(S) /\ T = S \cup {m}
  BY NextSound DEF Applies
<1>2. m \in Tx /\ TxIn[m] \cap TxOut[m] = {}
  BY <1>1, TxAssumption DEF Sound
<1>3. CASE r \in Genesis
  BY <1>3 DEF Unspent, Live
<1>4. CASE r \notin Genesis
  <2>1. PICK v \in T : r \in TxOut[v]
    BY <1>1, <1>4 DEF Sound, Created
  <2>2. v \in S
    BY <1>1, <1>2, <2>1
  <2>3. v \in dropped
    BY <1>1, <2>1, <2>2 DEF Handled, Live
  <2> QED BY <2>1, <2>3 DEF Created, Unspent, Live
<1> QED BY <1>3, <1>4

LEMMA LedgerRowSettling ==
  ASSUME TwoTasks, MonitorType, Follows, Settling, RowStep(Ledger)
  PROVE  Settling'
<1> DEFINE w == Ledger
           h == Head(todo[w])
           m == job[w].tx
<1>0. w \in Writer /\ Rows /\ WritersTyped
  BY DEF TwoTasks, MonitorType, Rows, WritersInv
<1>1. UNCHANGED <<txo, job, dropped, returned, overtaken>>
  BY <1>0, RowFrame
<1>2. /\ Unspent' = Unspent /\ LostSpends' = LostSpends /\ Created(dropped)' = Created(dropped)
      /\ Applies(w)' = Applies(w) /\ Genesis' = Genesis
  BY <1>1 DEF Unspent, Live, LostSpends, Consumed, Created, Applies, Genesis
<1>3. SUFFICES ASSUME Applies(w), NEW r \in TxIn[m],
                      ~(r \in Genesis \cup Created(dropped) /\ (r \notin Unspent \/ r \in LostSpends))
               PROVE  \/ r \in Refs(w)'
                      \/ r \in Waiting(w)' /\ ~(r = Head(todo'[w]) /\ seen'[w] = Absent)
  BY <1>1, <1>2 DEF Settling
<1>4. r \in Refs(w) \/ (r \in Waiting(w) /\ ~(r = h /\ seen[w] = Absent))
  BY <1>3 DEF Settling
<1>5. CASE LockTimeout(w)
  <2>1. UNCHANGED <<todo, seen, batch>>
    BY <1>5 DEF LockTimeout
  <2> QED BY <1>4, <2>1 DEF Refs, Waiting
<1>6. CASE Read(w)
  <2>1. UNCHANGED <<todo, batch>> /\ seen'[w] = txo[h]
    BY <1>0, <1>6 DEF Read, WritersTyped
  <2>2. Refs(w)' = Refs(w) /\ Waiting(w)' = Waiting(w)
    BY <2>1 DEF Refs, Waiting
  <2>3. r = h => txo[h] # Absent
    BY <1>3, MissingInput
  <2> QED BY <1>4, <2>1, <2>2, <2>3
<1>7. ASSUME todo[w] # <<>>, todo'[w] = Tail(todo[w]), seen'[w] = Unread
      PROVE  Waiting(w) = Waiting(w)' \cup {h} /\ seen'[w] # Absent
  <2>1. Waiting(w) = {Tail(todo[w])[i] : i \in 1..Len(Tail(todo[w]))} \cup {h}
    BY <1>0, <1>7, HeadWaits
  <2>2. Waiting(w)' = {Tail(todo[w])[i] : i \in 1..Len(Tail(todo[w]))}
    BY <1>7 DEF Waiting
  <2> QED BY <1>7, <2>1, <2>2, MarkerAssumption
<1>8. CASE Skip(w)
  <2>1. /\ todo[w] # <<>> /\ todo'[w] = Tail(todo[w]) /\ seen'[w] = Unread /\ batch' = batch
        /\ seen[w] = Absent
    BY <1>0, <1>8 DEF Skip, Skips, Advance, WritersTyped
  <2>2. Refs(w)' = Refs(w)
    BY <2>1 DEF Refs
  <2> QED BY <1>4, <1>7, <2>1, <2>2
<1>9. CASE Put(w)
  <2>1. /\ todo[w] # <<>> /\ todo'[w] = Tail(todo[w]) /\ seen'[w] = Unread
        /\ batch'[w] = batch[w] \cup {Written(w, h, seen[w])}
    BY <1>0, <1>9 DEF Put, Advance, WritersTyped
  <2>2. Written(w, h, seen[w]).ref = h
    BY DEF Written, Filed
  <2>3. Refs(w)' = Refs(w) \cup {h}
    BY <2>1, <2>2 DEF Refs
  <2> QED BY <1>4, <1>7, <2>1, <2>3
<1> QED BY <1>5, <1>6, <1>8, <1>9 DEF RowStep

LEMMA SettlingKept ==
  ASSUME TwoTasks, MonitorType, Follows, OnceReturned, Settling, [MonitorNext]_monitorVars
  PROVE  Settling'
<1>0. /\ Ledger \in Writer /\ Mempool \in Writer /\ Ledger # Mempool /\ Rows
      /\ dropped \subseteq dropped' /\ LostSpends \subseteq LostSpends'
  BY LostGrows DEF TwoTasks, MonitorType
<1>1. ASSUME UNCHANGED <<txo, job[Ledger], todo[Ledger], seen[Ledger], batch[Ledger]>>
      PROVE  Settling'
  <2>1. Unspent' = Unspent
    BY <1>1 DEF Unspent, Live
  <2> QED BY <1>0, <1>1, <2>1, SettlingStill
<1>2. CASE LedgerForward
  <2> DEFINE e == Head(ledgerQ)
             j == Call(e.kind, e.tx, IF e.kind = "apply" THEN e.block ELSE None)
  <2>1. e \in ChainEvent /\ Start(Ledger, j)
    BY <1>2 DEF LedgerForward, MonitorType, LedgerType
  <2>2. job'[Ledger] = j /\ todo'[Ledger] = InSeq[j.tx] \o OutSeq[j.tx] /\ seen'[Ledger] = Unread
    BY <1>0, <2>1, StartFrame
  <2>3. j.tx \in Tx
    BY <2>1 DEF ChainEvent, Call
  <2> HIDE DEF j
  <2>4. Waiting(Ledger)' = TxIn[j.tx] \cup TxOut[j.tx]
    BY <2>2, <2>3, CallDistinct DEF Waiting
  <2> QED BY <2>2, <2>4, MarkerAssumption DEF Settling
<1>3. CASE LedgerCommit
  <2>1. job'[Ledger] = NoJob
    BY <1>0, <1>3, CommitFrame DEF LedgerCommit
  <2> QED BY <2>1 DEF Settling, Applies
<1>4. CASE MempoolCommit
  <2> DEFINE m == job[Mempool].tx
  <2>1. CommitOver(Mempool) /\ Commit(Mempool)
    BY <1>4 DEF MempoolCommit, CommitOver
  <2>2. UNCHANGED <<job[Ledger], todo[Ledger], seen[Ledger], batch[Ledger]>>
    BY <1>0, <2>1, CommitFrame
  <2>3. m \in Tx /\ job[Mempool] # NoJob /\ dropped \subseteq Tx
    BY <1>0, <2>1, CommitTx DEF MonitorType, MempoolType
  <2>4. ASSUME NEW r \in Unspent' \cap (Genesis \cup Created(dropped)), r \notin Unspent
        PROVE  r \in LostSpends'
    <3>1. CASE Applies(Mempool)
      <4>1. r \in TxOut[m]
        <5>1. Unspent' \subseteq Unspent \cup (HeldBy(Mempool) \cap TxOut[m])
          BY <1>0, <2>1, <3>1, CommitApplied
        <5> QED BY <2>4, <5>1
      <4>2. r \notin Genesis
        BY <2>3, <4>1 DEF Genesis, Created
      <4>3. PICK v \in dropped : r \in TxOut[v]
        BY <2>4, <4>2 DEF Created
      <4>4. m \in dropped
        BY <2>3, <4>1, <4>3, MonitorAssumption
      <4>5. m \in returned
        BY <3>1, <4>4 DEF OnceReturned
      <4>6. r \in LostSpends
        BY <4>1, <4>5 DEF LostSpends, Created
      <4> QED BY <1>0, <4>6
    <3>2. CASE ~Applies(Mempool)
      <4>1. r \in TxIn[m]
        <5>1. Unspent' \subseteq Unspent \cup TxIn[m]
          BY <1>0, <2>1, <3>2, CommitUnapplied
        <5> QED BY <2>4, <5>1
      <4>2. m \in dropped'
        BY <1>4, <2>3, <3>2 DEF MempoolCommit, Applies
      <4> QED BY <4>1, <4>2 DEF LostSpends, Consumed
    <3> QED BY <3>1, <3>2
  <2> QED BY <1>0, <2>2, <2>4, SettlingStill
<1>5. CASE RowStep(Ledger)
  BY <1>5, LedgerRowSettling
<1>6. CASE RowStep(Mempool)
  <2>1. UNCHANGED <<txo, job, todo[Ledger], seen[Ledger], batch[Ledger]>>
    BY <1>0, <1>6, RowFrame
  <2> QED BY <1>1, <2>1
<1>7. ASSUME NEW j, Start(Mempool, j) PROVE Settling'
  <2>1. UNCHANGED <<txo, seen, batch, job[Ledger], todo[Ledger]>>
    BY <1>0, <1>7, StartFrame
  <2> QED BY <1>1, <2>1
<1>8. ASSUME NEW t \in Tx, Accept(t) PROVE Settling'
  <2>1. UNCHANGED allVars \/ Start(Mempool, Call("apply", t, None))
    BY <1>8 DEF Accept
  <2> QED BY <1>1, <1>7, <2>1 DEF allVars, vars, wvars
<1>9. CASE Drop
  BY <1>7, <1>9 DEF Drop
<1>10. CASE Node \/ TipReached \/ Acquire \/ AgentTask \/ UNCHANGED monitorVars
  <2>1. UNCHANGED <<txo, job, todo, seen, batch>>
    BY <1>10, Elsewhere
  <2> QED BY <1>1, <2>1
<1> QED BY <1>2, <1>3, <1>4, <1>5, <1>6, <1>8, <1>9, <1>10
    DEF MonitorNext, LedgerTask, MempoolTask, MempoolIndex

-----------------------------------------------------------------------------
(* The index follows the chain.                                            *)

LEMMA FollowsKept ==
  ASSUME TwoTasks, MonitorInv, [MonitorNext]_monitorVars
  PROVE  Follows'
<1> USE DEF MonitorInv
<1>0. /\ Ledger \in Writer /\ Mempool \in Writer /\ Ledger # Mempool
      /\ LostSpends \subseteq LostSpends'
  BY LostGrows DEF TwoTasks
<1>1. ASSUME UNCHANGED <<txo, dropped>>, Held' \subseteq Held, NEW T, Handled(T) PROVE Handled(T)'
  <2>1. Consumed(T) \cap (Held' \ Held) \subseteq LostSpends'
    BY <1>1
  <2> QED BY <1>0, <1>1, <2>1, HandledStill
<1>2. ASSUME NEW s \in Blocks, Mine(s) PROVE Follows'
  <2>1. UNCHANGED <<txo, dropped>> /\ Held' = Held
    BY <1>2, HeldElsewhere DEF Mine, allVars, vars, wvars, mempoolVars
  <2>2. PICK st \in Seq(SUBSET Tx) :
          LeadAlong(st, Ahead') /\ st[Len(st)] = ChainTxs(chain') /\ Handled(st[1])
    BY <1>2, Mined
  <2>3. Handled(st[1])'
    BY <1>1, <2>1, <2>2
  <2> QED BY <2>2, <2>3 DEF Follows
<1>3. CASE RollBack
  <2>1. UNCHANGED <<txo, dropped>> /\ Held' = Held
    BY <1>3, HeldElsewhere DEF RollBack, allVars, vars, wvars, mempoolVars
  <2>2. PICK st \in Seq(SUBSET Tx) :
          LeadAlong(st, Ahead') /\ st[Len(st)] = ChainTxs(chain') /\ Handled(st[1])
    BY <1>3, RolledBack
  <2>3. Handled(st[1])'
    BY <1>1, <2>1, <2>2
  <2> QED BY <2>2, <2>3 DEF Follows
<1>4. ASSUME UNCHANGED <<chain, ledgerQ, job[Ledger]>>, \A T : Sound(T) /\ Handled(T) => Handled(T)'
      PROVE  Follows'
  <2>1. PICK st \in Seq(SUBSET Tx) :
          LeadAlong(st, Ahead) /\ st[Len(st)] = ChainTxs(chain) /\ Handled(st[1])
    BY DEF Follows
  <2>2. Sound(st[1])
    <3>1. Len(Ahead) \in Nat
      BY QueueType
    <3> QED BY <2>1, <3>1 DEF LeadAlong
  <2>3. Handled(st[1])'
    BY <1>4, <2>1, <2>2
  <2>4. Ahead' = Ahead
    BY <1>4 DEF Ahead
  <2>5. LeadAlong(st, Ahead') /\ st[Len(st)] = ChainTxs(chain')
    BY <1>4, <2>1, <2>4
  <2> QED BY <2>3, <2>5 DEF Follows
<1>5. CASE LedgerForward
  <2> DEFINE e == Head(ledgerQ)
             j == Call(e.kind, e.tx, IF e.kind = "apply" THEN e.block ELSE None)
  <2>1. /\ Start(Ledger, j) /\ ledgerQ # <<>> /\ ledgerQ' = Tail(ledgerQ)
        /\ UNCHANGED <<chain, dropped>>
    BY <1>5 DEF LedgerForward, nodeVars, mempoolVars
  <2>2. /\ UNCHANGED <<txo, seen, batch, job[Mempool], todo[Mempool]>>
        /\ job[Ledger] = NoJob /\ job'[Ledger] = j
    BY <1>0, <2>1, StartFrame
  <2>3. ledgerQ \in Seq(ChainEvent) /\ e \in ChainEvent /\ ledgerQ \in Seq(Event)
    BY <2>1, QueueType DEF MonitorType, LedgerType
  <2>4. j \in Job /\ j.op = e.kind /\ j.tx = e.tx
    BY <2>3, WriterAssumption DEF ChainEvent, Call, Job, TwoTasks
  <2>5. j # NoJob
    BY <2>4, MarkerAssumption
  <2> HIDE DEF j
  <2>6. PICK f : f = [kind |-> j.op, tx |-> j.tx, block |-> 0]
    OBVIOUS
  <2>7. f \in Event /\ f.kind = e.kind /\ f.tx = e.tx
    BY <2>3, <2>4, <2>6 DEF ChainEvent, Event
  <2>8. Ahead = ledgerQ /\ Ahead' = <<f>> \o Tail(ledgerQ)
    BY <2>1, <2>2, <2>5, <2>6 DEF Ahead
  <2> HIDE DEF e
  <2>9. PICK q \in Seq(Event) : q = <<f>> \o Tail(ledgerQ)
    <3>1. <<f>> \in Seq(Event) /\ Tail(ledgerQ) \in Seq(Event)
      BY <2>1, <2>3, <2>7
    <3> QED BY <3>1, Joined
  <2>10. Len(q) = Len(ledgerQ) /\ \A i \in 1..Len(ledgerQ) : ledgerQ[i].kind = q[i].kind /\ ledgerQ[i].tx = q[i].tx
    <3>1. PICK n \in Nat : n = Len(ledgerQ)
      BY <2>3
    <3>2. PICK t : t = Tail(ledgerQ)
      OBVIOUS
    <3>3. /\ t \in Seq(Event) /\ Len(t) = n - 1 /\ n >= 1
          /\ \A i \in 1..n - 1 : t[i] = ledgerQ[i + 1]
      BY <2>1, <2>3, <3>1, <3>2, Rest
    <3>4. <<f>> \in Seq(Event) /\ Len(<<f>>) = 1 /\ <<f>>[1] = f
      BY <2>7
    <3>5. Len(q) = 1 + (n - 1) /\ q[1] = f /\ \A i \in 1..n - 1 : q[1 + i] = t[i]
      BY <2>9, <3>2, <3>3, <3>4, Joined
    <3>6. ledgerQ[1] = e
      BY <2>1, <2>3 DEF e
    <3>7. ASSUME NEW i \in 1..n PROVE ledgerQ[i].kind = q[i].kind /\ ledgerQ[i].tx = q[i].tx
      <4>1. CASE i = 1
        BY <2>7, <3>5, <3>6, <4>1
      <4>2. CASE i # 1
        <5>1. i - 1 \in 1..n - 1 /\ 1 + (i - 1) = i /\ (i - 1) + 1 = i
          BY <4>2
        <5>2. q[1 + (i - 1)] = t[i - 1] /\ t[i - 1] = ledgerQ[(i - 1) + 1]
          BY <3>3, <3>5, <5>1
        <5> QED BY <5>1, <5>2
      <4> QED BY <4>1, <4>2
    <3> QED BY <3>1, <3>3, <3>5, <3>7
  <2>11. PICK st \in Seq(SUBSET Tx) :
          LeadAlong(st, Ahead) /\ st[Len(st)] = ChainTxs(chain) /\ Handled(st[1])
    BY DEF Follows
  <2>12. LeadAlong(st, Ahead')
    BY <2>3, <2>8, <2>9, <2>10, <2>11, SameLead
  <2>13. Handled(st[1])'
    <3>1. Held' = Held
      BY <2>2, HeldElsewhere
    <3> QED BY <1>1, <2>1, <2>2, <2>11, <3>1
  <2> QED BY <2>1, <2>11, <2>12, <2>13 DEF Follows
<1>6. CASE LedgerCommit
  <2>1. job[Ledger] # NoJob /\ job'[Ledger] = NoJob /\ UNCHANGED <<chain, ledgerQ>>
    BY <1>0, <1>6, CommitFrame DEF LedgerCommit, nodeVars
  <2>2. PICK S, T : /\ Sound(S) /\ Sound(T) /\ Handled(S)
                    /\ IF Applies(Ledger) THEN job[Ledger].tx \notin S /\ T = S \cup {job[Ledger].tx}
                       ELSE job[Ledger].tx \in S /\ T = S \ {job[Ledger].tx}
                    /\ \E u \in Seq(SUBSET Tx) :
                         LeadAlong(u, ledgerQ) /\ u[Len(u)] = ChainTxs(chain) /\ u[1] = T
    BY <2>1, NextSound
  <2>3. Handled(T)'
    BY <1>0, <1>6, <2>2, LedgerHandled
  <2>4. PICK u \in Seq(SUBSET Tx) : LeadAlong(u, ledgerQ) /\ u[Len(u)] = ChainTxs(chain) /\ u[1] = T
    BY <2>2
  <2>5. Ahead' = ledgerQ /\ Handled(u[1])'
    BY <2>1, <2>3, <2>4 DEF Ahead
  <2> QED BY <2>1, <2>4, <2>5 DEF Follows
<1>7. CASE MempoolCommit
  <2>1. UNCHANGED <<chain, ledgerQ, job[Ledger]>>
    BY <1>0, <1>7, CommitFrame DEF MempoolCommit, nodeVars, ledgerVars
  <2> QED BY <1>0, <1>4, <1>7, <2>1, MempoolHandled
<1>8. CASE RowStep(Ledger) \/ RowStep(Mempool)
  <2>1. UNCHANGED <<chain, ledgerQ, job>>
    BY <1>0, <1>8, RowFrame DEF RowStep, nodeVars, processVars, ledgerVars
  <2> QED BY <1>0, <1>4, <1>8, <2>1, RowsHandled
<1>9. ASSUME NEW j, Start(Mempool, j), UNCHANGED <<chain, ledgerQ, dropped>> PROVE Follows'
  <2>1. UNCHANGED <<txo, job[Ledger]>> /\ Held' = {}
    BY <1>0, <1>9, StartFrame, HeldStart
  <2> QED BY <1>1, <1>4, <1>9, <2>1
<1>10. ASSUME UNCHANGED <<allVars, chain, ledgerQ, dropped>> PROVE Follows'
  <2>1. UNCHANGED <<txo, job>> /\ Held' = Held
    BY <1>10, HeldElsewhere DEF allVars, vars, wvars
  <2> QED BY <1>1, <1>4, <1>10, <2>1
<1>11. ASSUME NEW t \in Tx, Accept(t) PROVE Follows'
  <2>1. UNCHANGED <<chain, ledgerQ, dropped>> /\ (UNCHANGED allVars \/ Start(Mempool, Call("apply", t, None)))
    BY <1>11 DEF Accept, nodeVars, ledgerVars
  <2> QED BY <1>9, <1>10, <2>1
<1>12. CASE Drop
  BY <1>9, <1>12 DEF Drop, nodeVars, ledgerVars
<1>13. CASE (\E t \in Tx : Submit(t)) \/ TipReached \/ Acquire \/ AgentTask \/ UNCHANGED monitorVars
  BY <1>10, <1>13 DEF Submit, TipReached, Acquire, AgentTask, AgentTrack, AgentConfirm,
                      AgentSend, monitorVars, processVars, nodeVars, ledgerVars, mempoolVars
<1> QED BY <1>2, <1>3, <1>5, <1>6, <1>7, <1>8, <1>11, <1>12, <1>13
    DEF MonitorNext, Node, LedgerTask, MempoolTask, MempoolIndex

LEMMA MonitorInitInv == ASSUME TwoTasks, MonitorInit PROVE MonitorInv
<1>1. /\ chain = <<>> /\ ledgerQ = <<>> /\ dropped = {} /\ WritersInit
      /\ job = [w \in Writer |-> NoJob]
  BY DEF MonitorInit, WritersInit
<1>2. 1..Len(<<>>) = {} /\ Len(<<>>) = 0
  OBVIOUS
<1>3. ChainTxs(chain) = {} /\ ValidChain(chain)
  BY <1>1, <1>2 DEF ChainTxs, ValidChain
<1>4. job[Ledger] = NoJob /\ job[Mempool] = NoJob
  BY <1>1 DEF TwoTasks
<1>5. OnceReturned /\ Settling
  BY <1>4 DEF OnceReturned, Settling, Applies
<1>6. Follows
  <2> DEFINE st == << {} >>
  <2>1. st \in Seq(SUBSET Tx) /\ Len(st) = 1 /\ st[1] = {} /\ Ahead = <<>>
    BY <1>1, <1>4 DEF Ahead
  <2> HIDE DEF st
  <2>2. Sound({}) /\ Handled({})
    BY DEF Sound, Handled, Consumed
  <2>3. LeadAlong(st, <<>>)
    <3>1. Len(<<>>) + 1 = 1 /\ 1..1 = {1}
      BY <1>2
    <3>2. \A i \in 1..Len(st) : Sound(st[i])
      BY <2>1, <2>2, <3>1
    <3> QED BY <1>2, <2>1, <3>1, <3>2 DEF LeadAlong
  <2> QED BY <1>3, <2>1, <2>2, <2>3 DEF Follows
<1> QED BY <1>3, <1>5, <1>6, MonitorInitTypes DEF MonitorInv

(* What the chain has settled stays in the index, and what it has spent    *)
(* stays spent but for the spends the code loses (Monitor's SettledKept):  *)
(* for any chain and rollbacks, whatever the filters forget, and however   *)
(* the rows of the two tasks interleave.                                   *)
THEOREM SettledKeptHolds == TwoTasks => (MonitorSpec => []SettledKept)
<1> SUFFICES ASSUME TwoTasks PROVE MonitorSpec => []SettledKept
  OBVIOUS
<1>1. MonitorInit => MonitorInv
  BY MonitorInitInv
<1>2. MonitorInv /\ [MonitorNext]_monitorVars => MonitorInv'
  BY MonitorTypesKept, OnceReturnedKept, SettlingKept, ValidChainKept, FollowsKept
     DEF MonitorInv, MonitorType
<1>3. MonitorInv => SettledKept
  <2> SUFFICES ASSUME MonitorInv, LedgerDrained
               PROVE  /\ Created(ChainTxs(chain) \ dropped) \subseteq Live
                      /\ (Consumed(ChainTxs(chain)) \ LostSpends) \cap Unspent = {}
    BY DEF SettledKept, SettledOutputsKept, SettledSpendsKept
  <2>1. Ahead = <<>>
    BY DEF Ahead, LedgerDrained
  <2>2. Handled(ChainTxs(chain))
    BY <2>1 DEF MonitorInv, Follows, LeadAlong
  <2> QED BY <2>2 DEF Handled, Created
<1> QED BY <1>1, <1>2, <1>3, PTL DEF MonitorSpec
=============================================================================
