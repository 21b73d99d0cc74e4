----------------------------- MODULE LedgerCache -----------------------------
(***************************************************************************)
(* The persistent cache of chain sync                                      *)
(* (packages/cardano-chain-sync/src/cache.rs): the tip under one key, and  *)
(* linked blocks under keys ordered by slot and hash.  Each operation is   *)
(* one write; nothing ties two of them together.                           *)
(***************************************************************************)
EXTENDS ChainNode

CONSTANTS
    NoTip,       \* the cache has never had a tip
    NotCached    \* no block under the point

ASSUME CacheAssumption == NoTip \notin Point /\ NotCached \notin Point

VARIABLES
    tip,         \* LATEST_POINT
    prev         \* per block, the previous point it is linked to, or NotCached

cacheVars == <<tip, prev>>

CacheInit == tip = NoTip /\ prev = [b \in Block |-> NotCached]

SetTip(p) == tip' = p /\ UNCHANGED prev
PutBlock(b, p) == prev' = [prev EXCEPT ![b] = p] /\ UNCHANGED tip
Delete(b) == prev' = [prev EXCEPT ![b] = NotCached] /\ UNCHANGED tip

HasBlock(p) == p \in Block /\ prev[p] # NotCached
Cached == {b \in Block : prev[b] # NotCached}

(* get_tip().unwrap_or(Origin), what a new block is linked to.             *)
LinkPoint == IF tip = NoTip THEN Origin ELSE tip
(* get_tip().unwrap_or(starting_point), where a client starts.             *)
BestPoint == IF tip = NoTip THEN StartPoint ELSE tip

(* replay: every cached block from a point on, in the order of the keys.   *)
Replay(from) == {b \in Cached : SlotOf[b] >= SlotOf[from]}
IsFirst(b, blocks) == b \in blocks /\ \A c \in blocks : SlotOf[b] <= SlotOf[c]
=============================================================================
