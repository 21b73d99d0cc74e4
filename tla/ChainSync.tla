------------------------------ MODULE ChainSync ------------------------------
(***************************************************************************)
(* ledger_transactions of                                                  *)
(* packages/cardano-chain-sync/src/event_source.rs over                    *)
(* chain_sync_stream (lib.rs): blocks replayed from the cache, then the    *)
(* node's answers, one at a time, turned into TxApplied and TxUnapplied    *)
(* events.  A block is cached before its events are handled.  The          *)
(* consumer persists every event it takes (the index of src/index.rs).     *)
(* The process may end between two steps; cache and index outlive it.      *)
(***************************************************************************)
EXTENDS LedgerCache

CONSTANTS
    NoRollbackUntil,   \* handle_rollbacks_after
    ReplayFrom,        \* replay_from, or NoReplay
    NoReplay,
    CrashAt,           \* the stages at which the process may end
    MaxCrashes

ASSUME SyncAssumption ==
    /\ NoRollbackUntil \in Nat
    /\ ReplayFrom \in Point \cup {NoReplay}
    /\ CrashAt \subseteq {"replay", "pull", "put", "rollback", "relink", "apply", "unapply"}
    /\ MaxCrashes \in Nat

VARIABLES
    step,        \* what the stream does next
    out,         \* events it has still to yield, of one block
    applied,     \* transactions the consumer holds
    rolling,     \* rollback_in_progress
    synced,      \* state_synced
    crashes

syncVars == <<step, out, applied, rolling, synced, crashes>>
vars == <<nodeVars, cacheVars, syncVars>>

Init ==
    /\ NodeInit /\ CacheInit
    /\ step = [at |-> "down"]
    /\ out = <<>>
    /\ applied = {}
    /\ rolling = FALSE /\ synced = FALSE
    /\ crashes = 0

Pulling == [at |-> "pull"]
AppliedEvents(b) == [i \in 1..Len(TxsOf[b]) |-> [kind |-> "apply", tx |-> TxsOf[b][i]]]
\* Faulty variant: a block is undone in the order it was applied.
UnappliedForward(b) == [i \in 1..Len(TxsOf[b]) |-> [kind |-> "unapply", tx |-> TxsOf[b][i]]]
UnappliedEvents(b) == Reverse([i \in 1..Len(TxsOf[b]) |-> [kind |-> "unapply", tx |-> TxsOf[b][i]]])

(* The stream is polled again once the events of the last block are out.   *)
At(stage) == step.at = stage /\ out = <<>>

(* ChainSyncClient::init, then ledger_transactions.                        *)
Start ==
    /\ At("down")
    /\ Intersect(BestPoint)
    /\ step' = IF ReplayFrom = NoReplay THEN Pulling
               ELSE [at |-> "replay", blocks |-> Replay(ReplayFrom)]
    /\ UNCHANGED <<cacheVars, out, applied, rolling, synced, crashes>>

ReplayNext ==
    /\ At("replay")
    /\ \/ step.blocks = {} /\ step' = Pulling /\ out' = out
       \/ \E b \in step.blocks :
            /\ IsFirst(b, step.blocks)
            /\ step' = [at |-> "replay", blocks |-> step.blocks \ {b}]
            /\ out' = AppliedEvents(b)
    /\ UNCHANGED <<nodeVars, cacheVars, applied, rolling, synced, crashes>>

(* A new block: cache_block sets the tip and then puts the block;          *)
(* cache_point, for a block no rollback is handled for, sets the tip only. *)
RollForward(b) ==
    /\ At("pull")
    /\ AnswerRollForward(b)
    /\ SetTip(b)
    /\ IF SlotOf[b] > NoRollbackUntil
       THEN step' = [at |-> "put", block |-> b, link |-> LinkPoint] /\ out' = out
       ELSE step' = Pulling /\ out' = AppliedEvents(b)
    /\ UNCHANGED <<applied, rolling, synced, crashes>>

FinishCaching ==
    /\ At("put")
    /\ PutBlock(step.block, step.link)
    /\ step' = Pulling
    /\ out' = AppliedEvents(step.block)
    /\ UNCHANGED <<nodeVars, applied, rolling, synced, crashes>>

RollBackward(to) ==
    /\ At("pull")
    /\ AnswerRollBackward(to)
    /\ step' = IF SlotOf[to] > NoRollbackUntil THEN [at |-> "rollback", to |-> to] ELSE Pulling
    /\ UNCHANGED <<cacheVars, out, applied, rolling, synced, crashes>>

(* One turn of the loop of rollback: the block at the tip is deleted, and  *)
(* then the tip set to the point it is linked to.                          *)
UndoTip ==
    /\ At("rollback")
    /\ tip # step.to /\ HasBlock(tip)
    /\ Delete(tip)
    /\ rolling' = TRUE
    /\ step' = [at |-> "relink", to |-> step.to, block |-> tip, link |-> prev[tip]]
    /\ UNCHANGED <<nodeVars, out, applied, synced, crashes>>

\* Faulty variants: the tip is set to the target at once; the beacon goes
\* down before the block's events are out.
RelinkToTarget ==
    /\ At("relink")
    /\ SetTip(step.to)
    /\ step' = [at |-> "rollback", to |-> step.to]
    /\ out' = UnappliedEvents(step.block)
    /\ UNCHANGED <<nodeVars, applied, rolling, synced, crashes>>

RelinkUnguarded ==
    /\ At("relink")
    /\ SetTip(step.link)
    /\ step' = [at |-> "rollback", to |-> step.to]
    /\ out' = UnappliedEvents(step.block)
    /\ rolling' = FALSE
    /\ UNCHANGED <<nodeVars, applied, synced, crashes>>

Relink ==
    /\ At("relink")
    /\ SetTip(step.link)
    /\ step' = [at |-> "rollback", to |-> step.to]
    /\ out' = UnappliedEvents(step.block)
    /\ UNCHANGED <<nodeVars, applied, rolling, synced, crashes>>

(* The loop ends at the point, or where the cache has no more blocks.      *)
\* Faulty variant: the beacon stays up.
RollbackEndsRolling ==
    /\ At("rollback")
    /\ tip = step.to \/ ~HasBlock(tip)
    /\ step' = Pulling
    /\ UNCHANGED <<nodeVars, cacheVars, out, applied, rolling, synced, crashes>>

RollbackEnds ==
    /\ At("rollback")
    /\ tip = step.to \/ ~HasBlock(tip)
    /\ rolling' = FALSE
    /\ step' = Pulling
    /\ UNCHANGED <<nodeVars, cacheVars, out, applied, synced, crashes>>

\* Faulty variant: the flag goes up with the first request.
TipReachedEarly ==
    /\ At("pull")
    /\ synced' = TRUE
    /\ UNCHANGED <<nodeVars, cacheVars, step, out, applied, rolling, crashes>>

TipReached ==
    /\ At("pull")
    /\ AnswerNone
    /\ synced' = TRUE
    /\ UNCHANGED <<cacheVars, step, out, applied, rolling, crashes>>

(* The consumer handles the next event and then polls the stream again.    *)
Deliver ==
    /\ out # <<>>
    /\ applied' = IF Head(out).kind = "apply" THEN applied \cup {Head(out).tx}
                  ELSE applied \ {Head(out).tx}
    /\ out' = Tail(out)
    /\ UNCHANGED <<nodeVars, cacheVars, step, rolling, synced, crashes>>

Stage == IF out # <<>> THEN Head(out).kind ELSE step.at

Crash ==
    /\ Stage \in CrashAt
    /\ crashes < MaxCrashes
    /\ Disconnect
    /\ step' = [at |-> "down"]
    /\ out' = <<>>
    /\ rolling' = FALSE /\ synced' = FALSE
    /\ crashes' = crashes + 1
    /\ UNCHANGED <<cacheVars, applied>>

NodeMoves ==
    /\ \/ Break
       \/ (step.at # "down" \/ ForksWhileDown) /\ \E b \in Block : Adopt(b)
    /\ UNCHANGED <<cacheVars, syncVars>>

Client ==
    \/ Start \/ ReplayNext \/ FinishCaching
    \/ \E p \in Point : RollForward(p) \/ RollBackward(p)
    \/ UndoTip \/ Relink \/ RollbackEnds \/ TipReached
    \/ Deliver

Next == Client \/ Crash \/ NodeMoves

Spec == Init /\ [][Next]_vars
FairSpec == Spec /\ WF_vars(Client)

-----------------------------------------------------------------------------
Waiting == At("pull") /\ ~announce

(* Whatever the forks, replays and allowed crashes, the index never mixes  *)
(* two chains: at every step it holds the transactions of one chain after  *)
(* the starting point, and of its next block some first ones.              *)
Upto(b, k) == TxsUpTo(Parent(b)) \cup {TxsOf[b][i] : i \in 1..k}
StandsOnOneChain ==
    \/ applied = {}
    \/ \E b \in Block : OnPath(StartPoint, Parent(b)) /\
          \E k \in 0..Len(TxsOf[b]) : applied = Upto(b, k)

(* When the client waits for the next answer, the index holds exactly what *)
(* the chain up to the read pointer applied: nothing was skipped and       *)
(* nothing of an abandoned fork is left.                                   *)
CaughtUp == Waiting => applied = TxsUpTo(ptr)

(* What a later replay or rollback reads: the cached blocks are those of   *)
(* the chain up to the read pointer, no block of an abandoned fork is left *)
(* behind, and each is linked to its parent.                               *)
CacheFollowsChain ==
    Waiting =>
        /\ Cached = {b \in AfterStart(ptr) : SlotOf[b] > NoRollbackUntil}
        /\ \A b \in Cached : prev[b] = Parent(b) \/ Parent(b) = StartPoint

(* The index and the cache it will be restored from tell of one chain.     *)
FollowsOneChain == StandsOnOneChain /\ CacheFollowsChain

(* Rollback ends at the point the node asked for ("Rolled back to point"). *)
RollbackReaches == Waiting /\ tip # NoTip => tip = ptr

(* The beacon the execution engine blocks on is up whenever a transaction  *)
(* is unapplied.                                                           *)
BeaconCoversRollback == out # <<>> /\ Head(out).kind = "unapply" => rolling

(* GET /health: 200 means the "Node is synced and serving requests".  When *)
(* the flag goes up over a standing connection, the index has caught up    *)
(* with the node.                                                          *)
SyncedMeansCaughtUp ==
    [][synced' /\ ~synced /\ link => ptr = node /\ applied = TxsUpTo(node)]_vars

(* The same whatever the connection: try_pull_next takes an error for the  *)
(* tip, so the code does not have it.                                      *)
SyncedNeverFalse ==
    [][synced' /\ ~synced => ptr = node /\ applied = TxsUpTo(node)]_vars

(* A client that cannot start again: its tip left the node's chain while   *)
(* it was down, and no older point is offered.                             *)
Stranded == step.at = "down" /\ ~OnPath(BestPoint, node)

(* No request is answered any more: the client polls on for ever, and only *)
(* a restart helps.                                                        *)
CutOff == step.at # "down" /\ ~link

(* The chain stops growing (the tree is finite): the client catches up and *)
(* stays so, unless stranded or cut off.                                   *)
EventuallySynced ==
    <>[](\/ Stranded
         \/ CutOff
         \/ At("pull") /\ ptr = node /\ applied = TxsUpTo(node) /\ ~rolling)
=============================================================================
