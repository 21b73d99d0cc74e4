--------------------------- MODULE MempoolTracking ---------------------------
(***************************************************************************)
(* The tracker between its two sources: the mempool monitor                *)
(* (packages/cardano-mempool-sync/src/client.rs), which yields a           *)
(* transaction unless its filter knows it, and the ledger, which confirms  *)
(* transactions block by block.  The monitor starts after the node has     *)
(* reached StartBlock, and the tracker learns of blocks from confirmed     *)
(* transactions only.                                                      *)
(***************************************************************************)
EXTENDS TxTracker

CONSTANTS
    FilterCap,    \* FILTER_CAP
    StartBlock,   \* height of the chain when the process starts
    MaxBlock      \* bound on the height

ASSUME TrackingAssumption ==
    /\ FilterCap \in Nat
    /\ StartBlock \in Nat
    /\ MaxBlock \in Nat

VARIABLES
    filter,       \* TxFilter, newest first: known_txs and eviction_queue
    height,       \* block the ledger is delivering
    heard,        \* history: the tracker has been told of the ledger's block
    filed,        \* history: for each append, the height and whether it was heard of
    retracked,    \* history: transactions last tracked while queued or confirmed
    confirmedAt   \* history: block that confirmed it

vars == <<trackerVars, filter, height, heard, filed, retracked, confirmedAt>>

Never == -1
Known(t) == \E i \in 1..Len(filter) : filter[i] = t
Confirmed(t) == confirmedAt[t] # Never
Queued(t) == \E e \in queue : e.tx = t

Init ==
    /\ TrackerInit
    /\ filter = <<>>
    /\ height = StartBlock
    /\ heard = (StartBlock = 0)
    /\ filed = <<>>
    /\ retracked = {}
    /\ confirmedAt = [t \in Tx |-> Never]

(* TxFilter::register: the set may hold one more than cap before the       *)
(* oldest is evicted.                                                      *)
Register(t) ==
    /\ ~Known(t)
    /\ filter' = <<t>> \o (IF Len(filter) > FilterCap THEN Front(filter) ELSE filter)

(* What a yield adds to the histories.                                     *)
NoteTracked(t) ==
    IF IsRecent(t) THEN UNCHANGED <<filed, retracked>>
    ELSE /\ filed' = Append(filed, [height |-> height, heard |-> heard])
         /\ retracked' = IF Queued(t) \/ Confirmed(t) THEN retracked \cup {t}
                         ELSE retracked \ {t}

(* stream_updates yields a transaction of the snapshot the filter does not *)
(* know, and track hands it to the agent.                                  *)
Yield(t) ==
    /\ clock < MaxClock
    /\ Register(t)
    /\ Track(t)
    /\ NoteTracked(t)
    /\ UNCHANGED <<height, heard, confirmedAt>>

(* The ledger delivers the transactions of a block, then those of the next *)
(* block, each once.                                                       *)
Deliver(t, b) ==
    /\ b \in {height, height + 1} /\ b <= MaxBlock
    /\ ~Confirmed(t)
    /\ ConfirmTx(t, b)
    /\ height' = b
    /\ heard' = TRUE
    /\ confirmedAt' = [confirmedAt EXCEPT ![t] = b]
    /\ UNCHANGED <<filter, filed, retracked>>

(* A transaction that is rolled back is forwarded to the tracker as if it   *)
(* were confirmed, with the block it was in.                               *)
Undeliver(t) ==
    /\ confirmedAt[t] = height
    /\ ConfirmTx(t, confirmedAt[t])
    /\ heard' = TRUE
    /\ confirmedAt' = [confirmedAt EXCEPT ![t] = Never]
    /\ UNCHANGED <<filter, height, filed, retracked>>

Drain ==
    /\ SendFailed \/ TakeFailed
    /\ UNCHANGED <<filter, height, heard, filed, retracked, confirmedAt>>

Next ==
    \/ \E t \in Tx : Yield(t)
    \/ \E t \in Tx, b \in Block : Deliver(t, b)
    \/ \E t \in Tx : Undeliver(t)
    \/ Drain

Spec == Init /\ [][Next]_vars

-----------------------------------------------------------------------------
(* What goes out as failed is not confirmed: confirm_tx took it out of the *)
(* pending table.  But it finds only the newest entry of a transaction, so *)
(* one that the filters forgot, and that was tracked again while queued or *)
(* when already confirmed, may be given up although confirmed.             *)
NoneConfirmed ==
    \A i \in 1..Len(outbox) : Confirmed(outbox[i].tx) => outbox[i].tx \in retracked

(* What goes out has had all of its blocks: Delay of them since it was     *)
(* tracked.  The exception are transactions tracked before the first block *)
(* of a ledger that is not at its start: their deadline counts from 0.     *)
NoneEarly ==
    \A i \in 1..Len(outbox) :
        LET f == filed[outbox[i].at + 1]
        IN  f.heard => f.height + Delay <= height

(* The mempool stream unapplies what the tracker gives up: so it should    *)
(* give up nothing that is confirmed, and nothing early.                   *)
FailuresJust == NoneConfirmed /\ NoneEarly

(* "Delay of them" counts the block that gives it up, whose first          *)
(* transaction moves the clock: it may still be confirmed in that block.   *)
LastBlockOver ==
    \A i \in 1..Len(outbox) :
        LET f == filed[outbox[i].at + 1]
        IN  f.heard => f.height + Delay < height
=============================================================================
