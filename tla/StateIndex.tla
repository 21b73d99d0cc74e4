----------------------------- MODULE StateIndex -----------------------------
(***************************************************************************)
(* InMemoryStateIndex (execution_engine/storage/mod.rs): what the executor *)
(* knows of one entity. Four slots hold the version last seen confirmed,   *)
(* unconfirmed or predicted, and the fallback; the store holds the states  *)
(* of the versions. A record has the slots and the part of the store that  *)
(* belongs to the entity: a version belongs to one entity only.            *)
(*                                                                         *)
(* A state is as good as its version, so `store` is a set of versions.     *)
(***************************************************************************)

CONSTANT Absent   \* a slot without a version, an entity without a state

Slots == {"confirmed", "unconfirmed", "predicted", "fallback"}

Unknown == [slots |-> [s \in Slots |-> Absent], store |-> {}]

(* put: the version that leaves the slot leaves the store too, unless      *)
(* another slot is bound to it.                                            *)
\* Mutant: the other slots are not looked at.
PutUnbound(e, slot, ver) ==
    [slots |-> [e.slots EXCEPT ![slot] = ver],
     store |-> (e.store \ {e.slots[slot]}) \cup {ver}]

Put(e, slot, ver) ==
    [slots |-> [e.slots EXCEPT ![slot] = ver],
     store |-> (e.store \ {v \in {e.slots[slot]} : \A s \in Slots \ {slot} : e.slots[s] # v})
               \cup {ver}]

(* The confirmed state of a quasi-permanent entity (a pool) stays.         *)
Invalidate(e, ver, permanent) ==
    IF ver \notin e.store THEN e
    ELSE LET kept == permanent /\ e.slots["confirmed"] = ver
         IN  [slots |-> [s \in Slots |->
                           IF e.slots[s] = ver /\ ~(kept /\ s = "confirmed") THEN Absent
                           ELSE e.slots[s]],
              store |-> IF kept THEN e.store ELSE e.store \ {ver}]

Eliminate(e) ==
    [slots |-> [s \in Slots |-> Absent],
     store |-> e.store \ {e.slots[s] : s \in Slots}]

(* resolve_state: what was predicted comes before what was seen.           *)
LastIn(e, slot) == IF e.slots[slot] \in e.store THEN e.slots[slot] ELSE Absent

Resolve(e) ==
    IF LastIn(e, "predicted") # Absent THEN LastIn(e, "predicted")
    ELSE IF LastIn(e, "unconfirmed") # Absent THEN LastIn(e, "unconfirmed")
    ELSE IF LastIn(e, "fallback") # Absent THEN LastIn(e, "fallback")
    ELSE LastIn(e, "confirmed")

(* What there is to know about an entity: the store holds the versions     *)
(* the slots are bound to, and no other.                                   *)
Tight(e) == e.store = {e.slots[s] : s \in Slots} \ {Absent}

=============================================================================
