------------------------------ MODULE PoolRepo ------------------------------
(***************************************************************************)
(* EntityRepo (spectrum-offchain/src/box_resolver): what an agent stores   *)
(* of one pool, in RocksDB or in memory, and how the state to work with is *)
(* resolved from it. A record has the versions last predicted, confirmed   *)
(* and unconfirmed, the predecessors of predicted versions, and the        *)
(* versions whose state is stored.                                         *)
(*                                                                         *)
(* The two implementations run the same tests and differ where the tests   *)
(* do not look: RocksDB drops no state, forgets a prediction by dropping   *)
(* its link alone, and does not show a prediction without one.             *)
(***************************************************************************)
EXTENDS Naturals

CONSTANT MaxVersion

ASSUME PoolRepoAssumption == MaxVersion \in Nat \ {0}

Absent == 0
Version == 1..MaxVersion

EmptyRepo(kind) ==
    [kind |-> kind, predicted |-> Absent, confirmed |-> Absent, unconfirmed |-> Absent,
     links |-> [v \in Version |-> Absent], store |-> {}]

InRocks(r) == r.kind = "rocks"

Shown(r, v) == IF v \in r.store THEN v ELSE Absent

-----------------------------------------------------------------------------
(* RocksDB: a version is looked up under its prefix, then its state.       *)

RocksPredecessor(r, v) == r.links[v]

RocksPredicted(r) ==
    IF r.predicted # Absent /\ r.links[r.predicted] = Absent THEN Absent
    ELSE Shown(r, r.predicted)

RocksConfirmed(r) == Shown(r, r.confirmed)
RocksUnconfirmed(r) == Shown(r, r.unconfirmed)

RocksPutPredicted(r, v, prev) ==
    [r EXCEPT !.store = @ \cup {v}, !.predicted = v, !.links[v] = prev]

RocksPutConfirmed(r, v) == [r EXCEPT !.store = @ \cup {v}, !.confirmed = v]

RocksPutUnconfirmed(r, v) == [r EXCEPT !.store = @ \cup {v}, !.unconfirmed = v]

RocksInvalidate(r, v) ==
    [r EXCEPT !.confirmed = RocksPredecessor(r, v), !.links[v] = Absent, !.unconfirmed = Absent]

RocksEliminate(r, v) ==
    [r EXCEPT !.links[v] = Absent,
              !.predicted = Absent, !.confirmed = Absent, !.unconfirmed = Absent]

-----------------------------------------------------------------------------
(* In memory: three hash maps.                                             *)

MemPredecessor(r, v) == r.links[v]

MemPredicted(r) == Shown(r, r.predicted)
MemConfirmed(r) == Shown(r, r.confirmed)
MemUnconfirmed(r) == Shown(r, r.unconfirmed)

\* Mutant: the predecessor is not linked.
MemPutPredictedLoose(r, v, prev) ==
    [r EXCEPT !.predicted = v, !.store = @ \cup {v}]

MemPutPredicted(r, v, prev) ==
    [r EXCEPT !.predicted = v, !.links[v] = prev, !.store = @ \cup {v}]

MemPutConfirmed(r, v) == [r EXCEPT !.confirmed = v, !.store = @ \cup {v}]

MemPutUnconfirmed(r, v) == [r EXCEPT !.unconfirmed = v, !.store = @ \cup {v}]

\* Mutant: with a predecessor to go back to, the prediction stays.
MemInvalidatePartly(r, v) ==
    LET prev == MemPredecessor(r, v)
    IN  [r EXCEPT !.confirmed = prev, !.unconfirmed = Absent,
                  !.predicted = IF prev # Absent THEN @ ELSE Absent,
                  !.store = IF prev # Absent THEN @ ELSE @ \ {v}]

MemInvalidate(r, v) ==
    [r EXCEPT !.confirmed = MemPredecessor(r, v), !.predicted = Absent, !.unconfirmed = Absent,
              !.links[v] = Absent, !.store = @ \ {v}]

MemEliminate(r, v) ==
    [r EXCEPT !.predicted = Absent, !.confirmed = Absent, !.unconfirmed = Absent,
              !.links[v] = Absent, !.store = @ \ {v}]

-----------------------------------------------------------------------------
(* EntityRepo, and what is made of it. After invalidate, the predecessor   *)
(* of the version counts as confirmed; whatever else was confirmed or      *)
(* unconfirmed is forgotten, be it older or newer than the version.        *)

LastPredicted(r) == IF InRocks(r) THEN RocksPredicted(r) ELSE MemPredicted(r)
LastConfirmed(r) == IF InRocks(r) THEN RocksConfirmed(r) ELSE MemConfirmed(r)
LastUnconfirmed(r) == IF InRocks(r) THEN RocksUnconfirmed(r) ELSE MemUnconfirmed(r)

PutPredicted(r, v, prev) ==
    IF InRocks(r) THEN RocksPutPredicted(r, v, prev) ELSE MemPutPredicted(r, v, prev)
PutConfirmed(r, v) == IF InRocks(r) THEN RocksPutConfirmed(r, v) ELSE MemPutConfirmed(r, v)
PutUnconfirmed(r, v) == IF InRocks(r) THEN RocksPutUnconfirmed(r, v) ELSE MemPutUnconfirmed(r, v)
Invalidate(r, v) == IF InRocks(r) THEN RocksInvalidate(r, v) ELSE MemInvalidate(r, v)
Eliminate(r, v) == IF InRocks(r) THEN RocksEliminate(r, v) ELSE MemEliminate(r, v)

Predecessor(r, v) == IF InRocks(r) THEN RocksPredecessor(r, v) ELSE MemPredecessor(r, v)

(* is_linking: the walk along the predecessors meets the anchor. A version *)
(* is younger than its predecessor, so the walk ends; what it meets is in  *)
(* every set that holds the predecessors of its members and of v.          *)
IsLinking(r, v, anchor) ==
    \A met \in SUBSET Version :
        (\A w \in met \cup {v} : Predecessor(r, w) \in met \cup {Absent}) => anchor \in met

(* resolve_entity_state reads the three states at once ...                 *)
States(r) ==
    [conf |-> LastConfirmed(r), unconf |-> LastUnconfirmed(r), pred |-> LastPredicted(r)]

Anchor(s) == IF s.unconf # Absent THEN s.unconf ELSE s.conf

(* ... and needs the links only if both a confirmed state and another one, *)
(* predicted, are there.                                                   *)
NeedsLinks(s) == s.conf # Absent /\ s.pred # Absent /\ s.pred # Anchor(s)

\* Otherwise. Without a confirmed state a prediction hides the unconfirmed one.
Resolved(s) ==
    IF s.conf # Absent THEN IF s.pred # Absent THEN s.pred
                            ELSE Anchor(s)
    ELSE IF s.pred = Absent THEN s.unconf
    ELSE Absent

=============================================================================
