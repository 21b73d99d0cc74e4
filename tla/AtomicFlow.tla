------------------------------ MODULE AtomicFlow ------------------------------
(***************************************************************************)
(* AtomicFlow::run of packages/cardano-chain-sync/src/atomic_flow.rs, the  *)
(* other way blocks reach a consumer: the events of a block are sent in    *)
(* one batch with a TransactionHandle, and only after the consumer has     *)
(* committed it is the block cached (or deleted, when rolled back).  The   *)
(* consumer is not part of the repository: it holds a batch durably        *)
(* before it commits.                                                      *)
(***************************************************************************)
EXTENDS LedgerCache

CONSTANTS
    CrashAt,      \* the stages at which the process may end
    MaxCrashes

ASSUME FlowAssumption ==
    /\ CrashAt \subseteq {"pull", "sent", "consumed", "acked", "undone", "put", "rollback", "relink"}
    /\ MaxCrashes \in Nat

VARIABLES
    step,         \* where run() is
    applied,      \* transactions the consumer holds
    lost,         \* history: transactions it gave up in a block that stayed cached
    crashes

flowVars == <<step, applied, lost, crashes>>
vars == <<nodeVars, cacheVars, flowVars>>

Init ==
    /\ NodeInit /\ CacheInit
    /\ step = [at |-> "down"]
    /\ applied = {} /\ lost = {}
    /\ crashes = 0

Pulling == [at |-> "pull"]

Start ==
    /\ step.at = "down"
    /\ Intersect(BestPoint)
    /\ step' = Pulling
    /\ UNCHANGED <<cacheVars, applied, lost, crashes>>

\* Faulty variant: the tip is set before the consumer has committed.
RollForwardEager(b) ==
    /\ step.at = "pull"
    /\ AnswerRollForward(b)
    /\ step' = [at |-> "sent", job |-> [op |-> "forward", block |-> b]]
    /\ SetTip(b)
    /\ UNCHANGED <<applied, lost, crashes>>

RollForward(b) ==
    /\ step.at = "pull"
    /\ AnswerRollForward(b)
    /\ step' = [at |-> "sent", job |-> [op |-> "forward", block |-> b]]
    /\ UNCHANGED <<cacheVars, applied, lost, crashes>>

RollBackward(to) ==
    /\ step.at = "pull"
    /\ AnswerRollBackward(to)
    /\ step' = [at |-> "rollback", to |-> to]
    /\ UNCHANGED <<cacheVars, applied, lost, crashes>>

SendUndo ==
    /\ step.at = "rollback"
    /\ tip # step.to /\ HasBlock(tip)
    /\ step' = [at |-> "sent", job |-> [op |-> "backward", to |-> step.to, block |-> tip]]
    /\ UNCHANGED <<nodeVars, cacheVars, applied, lost, crashes>>

\* Faulty variant: the loop goes on until it meets the point.
RollbackEndsAtPoint ==
    /\ step.at = "rollback"
    /\ tip = step.to
    /\ step' = Pulling
    /\ UNCHANGED <<nodeVars, cacheVars, applied, lost, crashes>>

RollbackEnds ==
    /\ step.at = "rollback"
    /\ tip = step.to \/ ~HasBlock(tip)
    /\ step' = Pulling
    /\ UNCHANGED <<nodeVars, cacheVars, applied, lost, crashes>>

(* The consumer (outside the repository) takes the batch, then commits.    *)
Consume ==
    /\ step.at = "sent"
    /\ step' = [step EXCEPT !.at = "consumed"]
    /\ applied' = IF step.job.op = "forward" THEN applied \cup TxSet(step.job.block)
                  ELSE applied \ TxSet(step.job.block)
    /\ lost' = lost \ TxSet(step.job.block)
    /\ UNCHANGED <<nodeVars, cacheVars, crashes>>

CommitBatch ==
    /\ step.at = "consumed"
    /\ step' = [step EXCEPT !.at = "acked"]
    /\ UNCHANGED <<nodeVars, cacheVars, applied, lost, crashes>>

(* cache_block: the tip first, then the block.                             *)
CacheTip ==
    /\ step.at = "acked" /\ step.job.op = "forward"
    /\ SetTip(step.job.block)
    /\ step' = [at |-> "put", block |-> step.job.block, link |-> LinkPoint]
    /\ UNCHANGED <<nodeVars, applied, lost, crashes>>

CacheBlock ==
    /\ step.at = "put"
    /\ PutBlock(step.block, step.link)
    /\ step' = Pulling
    /\ UNCHANGED <<nodeVars, applied, lost, crashes>>

DeleteBlock ==
    /\ step.at = "acked" /\ step.job.op = "backward"
    /\ Delete(step.job.block)
    /\ step' = [at |-> "relink", to |-> step.job.to, link |-> prev[step.job.block]]
    /\ UNCHANGED <<nodeVars, applied, lost, crashes>>

Relink ==
    /\ step.at = "relink"
    /\ SetTip(step.link)
    /\ step' = [at |-> "rollback", to |-> step.to]
    /\ UNCHANGED <<nodeVars, applied, lost, crashes>>

TipReached ==
    /\ step.at = "pull"
    /\ AnswerNone
    /\ UNCHANGED <<cacheVars, flowVars>>

(* "undone": the consumer has undone a block that is still cached.         *)
Stage == IF step.at \in {"consumed", "acked"} /\ step.job.op = "backward" THEN "undone"
         ELSE step.at

Crash ==
    /\ Stage \in CrashAt
    /\ crashes < MaxCrashes
    /\ Disconnect
    /\ step' = [at |-> "down"]
    /\ crashes' = crashes + 1
    /\ lost' = IF Stage = "undone" THEN lost \cup TxSet(step.job.block) ELSE lost
    /\ UNCHANGED <<cacheVars, applied>>

NodeMoves ==
    /\ step.at # "down" \/ ForksWhileDown
    /\ \E b \in Block : Adopt(b)
    /\ UNCHANGED <<cacheVars, flowVars>>

Run ==
    \/ Start \/ SendUndo \/ RollbackEnds \/ CacheTip \/ CacheBlock
    \/ DeleteBlock \/ Relink \/ TipReached
    \/ \E p \in Point : RollForward(p) \/ RollBackward(p)
Consumer == Consume \/ CommitBatch

Next == Run \/ Consumer \/ Crash \/ NodeMoves

Spec == Init /\ [][Next]_vars
FairSpec == Spec /\ WF_vars(Run) /\ WF_vars(Consumer)

-----------------------------------------------------------------------------
Waiting == step.at = "pull" /\ ~announce

(* Between two upgrades the consumer holds all that the chain up to the    *)
(* read pointer applied: a batch interrupted before its block was cached   *)
(* is sent again after a restart.  (It may hold one batch more, which is   *)
(* only undone if it was sent again before a rollback.)                    *)
NothingSkipped == Waiting => TxsUpTo(ptr) \subseteq applied \cup lost

(* The order "commit, then cache": the consumer holds the whole chain up to*)
(* the point the process will restart from.                                *)
RestartPointHeld == step.at = "down" => TxsUpTo(BestPoint) \subseteq applied \cup lost

(* What a process that ends between two stages can lose is one thing: the  *)
(* transactions of a block the consumer had undone and that was not yet    *)
(* deleted (atomic_flow.rs:174-177), until that block, or another one with *)
(* them, is sent again.                                                    *)
Resumable == NothingSkipped /\ RestartPointHeld

(* Rollback ends at the point the node asked for ("Rolled back to point"). *)
RollbackReaches == Waiting /\ tip # NoTip => tip = ptr

Stranded == step.at = "down" /\ ~OnPath(BestPoint, node)

(* If the consumer commits what it is sent, it holds the chain of the node *)
(* in the end but for what was lost, or the process cannot start again.    *)
EventuallyCommitted ==
    <>[](\/ Stranded
         \/ Waiting /\ ptr = node /\ TxsUpTo(node) \subseteq applied \cup lost)
=============================================================================
