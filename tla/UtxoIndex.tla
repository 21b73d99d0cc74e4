------------------------------ MODULE UtxoIndex ------------------------------
(***************************************************************************)
(* The RocksDB UTXO index of src/index.rs.                                 *)
(*                                                                         *)
(* Six column families, five variables: the two events tables (payment     *)
(* and stake) are one set of rows because a Scope names the kind of the    *)
(* credential with the credential, and so are the two unspent tables.      *)
(* A row is the key the code builds from its parts; the output itself is   *)
(* determined by its reference (a reference holds the hash of the          *)
(* transaction), so what a reference says of its output (its credentials,  *)
(* its asset units) is a constant.                                         *)
(*                                                                         *)
(* apply and unapply are one RocksDB transaction each and one action here; *)
(* IndexWriters.tla takes them apart.  ensure_unit_index reads a snapshot, *)
(* then scans, then commits: three actions that writers interleave with.   *)
(***************************************************************************)
EXTENDS Integers

CONSTANTS
    Tx,          \* transactions
    Ref,         \* output references
    Scope,       \* (CredentialKind, Credential) pairs
    Unit,        \* asset units, and prefixes of them a client may ask for
    Reader,      \* server tasks that run an unscoped unit query
    Slot,        \* slots of blocks
    TopKey,      \* u64::MAX, the key of an output not settled yet
    None,        \* Option::None of settled_at
    Absent,      \* no row in the txo table
    TxIn,        \* the references a transaction spends
    TxOut,       \* the references of its outputs
    ScopesOf,    \* the credentials of an output's address
    UnitsOf,     \* the asset units in an output's value
    Under,       \* the units whose key starts with a given unit
    LegacyRefs   \* outputs a database written without the unit table may hold

ASSUME SlotAssumption ==
    /\ Slot \subseteq Nat
    /\ TopKey \in Nat
    /\ \A s \in Slot : s < TopKey
    /\ None \notin Slot

ASSUME TxAssumption ==
    /\ TxIn \in [Tx -> SUBSET Ref]
    /\ TxOut \in [Tx -> SUBSET Ref]
    /\ \A t \in Tx : TxIn[t] \cap TxOut[t] = {}

ASSUME OutputAssumption ==
    /\ ScopesOf \in [Ref -> SUBSET Scope]
    /\ UnitsOf \in [Ref -> SUBSET Unit]
    /\ Under \in [Unit -> SUBSET Unit]
    /\ \A u \in Unit : u \in Under[u]
    /\ LegacyRefs \subseteq Ref

VARIABLES
    txo,         \* "txo": reference -> settled_at and spent, or Absent
    events,      \* "*_to_txo_events": <<scope, slot key, reference>>
    unspent,     \* "*_to_txo_unspent": <<scope, reference>>
    units,       \* "unit_to_txo_unspent": <<unit, reference>>
    sentinel,    \* "unit_to_txo_unspent": units marked as having no entry
    query        \* per reader, how far its unit query is

vars == <<txo, events, unspent, units, sentinel, query>>

SlotOpt == Slot \cup {None}
SlotKey(s) == IF s = None THEN TopKey ELSE s
Key == Slot \cup {TopKey}

(* write_txo stores settled_at as it is, not the key made from it.         *)
Stored(s, b) == [settled |-> s, spent |-> b]
Txo == [settled : SlotOpt, spent : BOOLEAN]

ASSUME AbsentAssumption == Absent \notin Txo

Idle == [at |-> "idle"]
QueryState ==
    {Idle} \cup [at : {"scan", "read"}, unit : Unit]
           \cup [at : {"commit"}, unit : Unit, found : SUBSET (Unit \X Ref)]

TypeOK ==
    /\ txo \in [Ref -> Txo \cup {Absent}]
    /\ events \subseteq Scope \X Key \X Ref
    /\ unspent \subseteq Scope \X Ref
    /\ units \subseteq Unit \X Ref
    /\ sentinel \subseteq Unit
    /\ query \in [Reader -> QueryState]

-----------------------------------------------------------------------------
(* Rows of the secondary tables.                                           *)

Live == {r \in Ref : txo[r] # Absent}
Unspent == {r \in Live : ~txo[r].spent}

EventRows(R, s) == {e \in Scope \X Key \X R : e[2] = SlotKey(s) /\ e[1] \in ScopesOf[e[3]]}
SettledRows(R) ==
    {e \in Scope \X Key \X R : e[2] = SlotKey(txo[e[3]].settled) /\ e[1] \in ScopesOf[e[3]]}
ScopeRows(R) == {e \in Scope \X R : e[1] \in ScopesOf[e[2]]}
UnitRows(R) == {e \in Unit \X R : e[1] \in UnitsOf[e[2]]}
UnitsIn(R) == {u \in Unit : \E r \in R : u \in UnitsOf[r]}

-----------------------------------------------------------------------------
(* A fresh database is empty.  One written before the unit table existed   *)
(* holds unspent outputs with their credential rows and no unit row.       *)

Init ==
    \E old \in SUBSET LegacyRefs, s \in Slot :
        /\ txo = [r \in Ref |-> IF r \in old THEN Stored(s, FALSE) ELSE Absent]
        /\ events = EventRows(old, s)
        /\ unspent = ScopeRows(old)
        /\ units = {}
        /\ sentinel = {}
        /\ query = [q \in Reader |-> Idle]

(* The outputs that apply leaves unspent: all but the ones already known   *)
(* to be spent (their transaction was pending).                            *)
\* Faulty variant: the confirmation of an output resets its spent flag.
NotSpentReset(R) == R
NotSpent(R) == {r \in R : r \in Live => ~txo[r].spent}

(* The secondary tables after a write: the rows of the outputs "dead" are  *)
(* deleted, among their events the one of the stored settlement slot; rows *)
(* are filed for the outputs "fresh", whose units lose their sentinel.     *)
\* Faulty variants: unspent rows or unit rows are forgotten.
RewriteKeepingScopes(dead, filed, fresh) ==
    /\ events' = (events \ SettledRows(dead)) \cup filed
    /\ unspent' = unspent \cup ScopeRows(fresh)
    /\ units' = (units \ UnitRows(dead)) \cup UnitRows(fresh)
    /\ sentinel' = sentinel \ UnitsIn(fresh)

RewriteLosingUnits(dead, filed, fresh) ==
    /\ events' = (events \ SettledRows(dead)) \cup filed
    /\ unspent' = (unspent \ ScopeRows(dead)) \cup ScopeRows(fresh)
    /\ units' = units \ UnitRows(dead)
    /\ sentinel' = sentinel \ UnitsIn(fresh)

Rewrite(dead, filed, fresh) ==
    /\ events' = (events \ SettledRows(dead)) \cup filed
    /\ unspent' = (unspent \ ScopeRows(dead)) \cup ScopeRows(fresh)
    /\ units' = (units \ UnitRows(dead)) \cup UnitRows(fresh)
    /\ sentinel' = sentinel \ UnitsIn(fresh)

(* An input the index does not know is skipped; a known one keeps its      *)
(* settlement slot, and its event is filed under the slot of the spender.  *)
Apply(t, s) ==
    LET ins == TxIn[t] \cap Live
        outs == TxOut[t]
        fresh == NotSpent(outs)
    IN  /\ txo' = [r \in Ref |->
                     IF r \in ins THEN [txo[r] EXCEPT !.spent = TRUE]
                     ELSE IF r \in outs THEN Stored(s, r \notin fresh)
                     ELSE txo[r]]
        /\ Rewrite(ins \cup (outs \cap Live), EventRows(ins \cup outs, s), fresh)
        /\ UNCHANGED query

(* Known inputs become unspent again, whoever else spends them; outputs    *)
(* are deleted with the event row of their settlement slot.                *)
Unapply(t) ==
    LET ins == TxIn[t] \cap Live
        gone == TxOut[t] \cap Live
    IN  /\ txo' = [r \in Ref |->
                     IF r \in gone THEN Absent
                     ELSE IF r \in ins THEN [txo[r] EXCEPT !.spent = FALSE]
                     ELSE txo[r]]
        /\ Rewrite(gone, SettledRows(ins), ins)
        /\ UNCHANGED query

-----------------------------------------------------------------------------
(* An unscoped unit query first makes sure the unit has entries: any key   *)
(* that starts with the unit, other than the unit's own sentinel, counts.  *)

HasEntries(u) ==
    \/ \E e \in units : e[1] \in Under[u]
    \/ \E v \in Under[u] \ {u} : v \in sentinel

EnsureCheck(q, u) ==
    /\ query[q] = Idle
    /\ query' = [query EXCEPT ![q] =
                   [at |-> IF HasEntries(u) THEN "read" ELSE "scan", unit |-> u]]
    /\ UNCHANGED <<txo, events, unspent, units, sentinel>>

EnsureScan(q) ==
    /\ query[q].at = "scan"
    /\ LET u == query[q].unit
       IN  query' = [query EXCEPT ![q] =
                       [at |-> "commit", unit |-> u,
                        found |-> {u} \X {r \in Unspent : u \in UnitsOf[r]}]]
    /\ UNCHANGED <<txo, events, unspent, units, sentinel>>

EnsureCommit(q) ==
    /\ query[q].at = "commit"
    /\ LET u == query[q].unit
           found == query[q].found
       IN  /\ units' = units \cup found
           /\ sentinel' = IF found # {} THEN sentinel \ {u} ELSE sentinel \cup {u}
           /\ query' = [query EXCEPT ![q] = [at |-> "read", unit |-> u]]
    /\ UNCHANGED <<txo, events, unspent>>

(* The answer is read from a snapshot of the state this step starts in.    *)
Answer(q) ==
    /\ query[q].at = "read"
    /\ query' = [query EXCEPT ![q] = Idle]
    /\ UNCHANGED <<txo, events, unspent, units, sentinel>>

Next ==
    \/ \E t \in Tx, s \in SlotOpt : Apply(t, s)
    \/ \E t \in Tx : Unapply(t)
    \/ \E q \in Reader, u \in Unit : EnsureCheck(q, u)
    \/ \E q \in Reader : EnsureScan(q) \/ EnsureCommit(q) \/ Answer(q)

Spec == Init /\ [][Next]_vars

-----------------------------------------------------------------------------
(* get_utxos, offset and limit left out: the rows of the index that        *)
(* resolve to an output.  A row that resolves to nothing is skipped.       *)

AllRows(c, least) ==
    {e \in events : e[1] = c /\ e[2] >= SlotKey(least) /\ e[3] \in Live}
QueryAll(c, least) == {e[3] : e \in AllRows(c, least)}
QueryUnspent(c) == {r \in Live : <<c, r>> \in unspent}
\* Faulty variant: a unit row is taken for an unspent output unread.
QueryUnitUnread(u) == {r \in Live : <<u, r>> \in units}
QueryUnit(u) == {r \in Unspent : <<u, r>> \in units}
QueryRef(c, r) == r \in Live /\ c \in ScopesOf[r]

-----------------------------------------------------------------------------
(* Properties.                                                             *)

(* The unspent tables list exactly the unspent outputs, under every        *)
(* credential of theirs: update_txo_by_ref, update_unspent_txo and         *)
(* delete_txo_and_indexes keep them so through any order of apply and      *)
(* unapply, and "Unspent" never has a row that resolves to a spent output. *)
UnspentExact == unspent = ScopeRows(Unspent)

(* No row of an unspent output is missing from the unit table, whatever    *)
(* ensure_unit_index commits from a scan that is out of date by then.      *)
UnitCover == UnitRows(Unspent) \subseteq units

(* An unspent output has the event row of its settlement slot, so          *)
(* {"All": s} returns it whenever it settled at s or later.                *)
EventAtSettlement == SettledRows(Unspent) \subseteq events

(* A spent output stays reachable: each of its credentials has some event  *)
(* row of it, although spending files rows under another slot.             *)
EventReachable == \A r \in Live : \A c \in ScopesOf[r] : \E k \in Key : <<c, k, r>> \in events

(* The three credential tables, written and deleted by different calls,    *)
(* agree with the txo table at every moment.                               *)
CredentialTables == UnspentExact /\ EventAtSettlement /\ EventReachable

(* What a unit query answers when it gets to read: all unspent outputs     *)
(* with the unit.                                                          *)
UnitAnswerExact ==
    \A q \in Reader : query[q].at = "read" =>
        QueryUnit(query[q].unit) = {r \in Unspent : query[q].unit \in UnitsOf[r]}

(* Applying never brings a spent output back, and a spend is never         *)
(* forgotten by the confirmation of the output (update_unspent_txo         *)
(* preserves spent): only unapply of a transaction that spends the output  *)
(* makes it spendable again.                                               *)
SpendSticks ==
    [][\A r \in Live \ Unspent :
          r \in Unspent' => \E t \in Tx : r \in TxIn[t] /\ Unapply(t)]_vars

(* README: {"All": null} gets "all UTXOs since service start".             *)
AllNullComplete == \A r \in Live : \A c \in ScopesOf[r] : r \in QueryAll(c, None)
=============================================================================
