------------------------------ MODULE TxTracker ------------------------------
(***************************************************************************)
(* The transaction tracker of                                              *)
(* packages/spectrum-offchain-cardano/src/tx_tracker: one agent that       *)
(* interleaves two loops, one taking the mempool's transactions, one       *)
(* taking the ledger's, over the pending table (pending_txs.rs) and a      *)
(* circular filter of recently confirmed hashes.  A pending transaction    *)
(* has a deadline in blocks; those past it are sent out as failed, one by  *)
(* one, through a bounded channel while the incoming loop goes on.         *)
(***************************************************************************)
EXTENDS Integers, Sequences, SequencesExt

CONSTANTS
    Tx,          \* transaction hashes
    Block,       \* block numbers
    Delay,       \* max_confirmation_delay_blocks
    RecentCap,   \* capacity of the filter of recent hashes (256)
    FailedCap,   \* capacity of the channel of failed transactions
    MaxClock     \* bound on the number of appends

ASSUME TrackerAssumption ==
    /\ Block \subseteq Nat
    /\ Delay \in Nat \ {0}
    /\ RecentCap \in Nat \ {0}
    /\ FailedCap \in Nat \ {0}
    /\ MaxClock \in Nat

VARIABLES
    currentBlock,  \* current_block
    index,         \* index: transaction -> deadline, or NotIndexed
    queue,         \* queue: entries filed under their deadline
    recent,        \* recent_txs, oldest first
    clock,         \* Instant::now(), advanced by every append
    outbox,        \* the batch process_confirmed_txs is sending
    failed         \* the channel of failed transactions

trackerVars == <<currentBlock, index, queue, recent, clock, outbox, failed>>

NotIndexed == -1
Entry == [tx : Tx, until : Nat, at : Nat]
\* The batches S can go out in, youngest first: one, as no two share an instant.
Batches(S) == {s \in SetToSeqs(S) : \A i, j \in 1..Len(s) : i < j => s[i].at > s[j].at}

TrackerTypeOK ==
    /\ currentBlock \in Nat
    /\ index \in [Tx -> Nat \cup {NotIndexed}]
    /\ queue \subseteq Entry
    /\ recent \in Seq(Tx)
    /\ clock \in Nat
    /\ outbox \in Seq(Entry)
    /\ failed \in Seq(Tx)

TrackerInit ==
    /\ currentBlock = 0
    /\ index = [t \in Tx |-> NotIndexed]
    /\ queue = {}
    /\ recent = <<>>
    /\ clock = 0
    /\ outbox = <<>>
    /\ failed = <<>>

IsRecent(t) == \E i \in 1..Len(recent) : recent[i] = t

Deadline == currentBlock + Delay

(* process_incoming_txs: a hash confirmed recently is ignored, another one *)
(* gets a deadline counted from the last block seen.  Appending again      *)
(* overwrites the index; the queue keeps both deadlines.                   *)
Track(t) ==
    LET until == Deadline
        same == {e \in queue : e.tx = t /\ e.until = until}
    IN  IF IsRecent(t)
        THEN UNCHANGED trackerVars
        ELSE /\ index' = [index EXCEPT ![t] = until]
             /\ queue' = (queue \ same) \cup {[tx |-> t, until |-> until, at |-> clock]}
             /\ clock' = clock + 1
             /\ UNCHANGED <<currentBlock, recent, outbox, failed>>

(* CircularFilter::add: a full buffer evicts its front.                    *)
AddRecent(t) ==
    IF IsRecent(t) THEN recent
    ELSE IF Len(recent) < RecentCap THEN Append(recent, t)
    ELSE Append(Tail(recent), t)

(* What confirm_tx leaves in the queue: the index says where t is.         *)
\* Faulty variants: t stays queued; all that share its deadline leave.
KeptAll(t) == queue
KeptOthers(t) == {e \in queue : e.until # index[t]}
Kept(t) == {e \in queue : ~(e.tx = t /\ e.until = index[t])}

(* What try_advance takes out of it at block b.                            *)
\* Faulty variant: the deadline's own block does not count.
DueLate(kept, b) == IF currentBlock < b THEN {e \in kept : e.until < b} ELSE {}
Due(kept, b) == IF currentBlock < b THEN {e \in kept : e.until <= b} ELSE {}

(* The index once t is confirmed and the due entries are taken out.        *)
\* Faulty variant: try_advance does not clean the index.
UnindexedOne(t, due) == [index EXCEPT ![t] = NotIndexed]
Unindexed(t, due) ==
    [x \in Tx |-> IF x = t \/ (\E e \in due : e.tx = x) THEN NotIndexed ELSE index[x]]

(* process_confirmed_txs takes the next ledger transaction once the last   *)
(* batch is out: it leaves the pending table, and the first transaction of *)
(* a higher block expires every entry whose deadline has come.             *)
ConfirmTx(t, b) ==
    LET due == Due(Kept(t), b)
    IN  /\ outbox = <<>>
        /\ recent' = AddRecent(t)
        /\ currentBlock' = IF currentBlock < b THEN b ELSE currentBlock
        /\ queue' = Kept(t) \ due
        /\ index' = Unindexed(t, due)
        /\ outbox' \in Batches(due)
        /\ UNCHANGED <<clock, failed>>

(* batch_send feeds the channel item by item and waits while it is full.   *)
SendFailed ==
    /\ outbox # <<>>
    /\ Len(failed) < FailedCap
    /\ failed' = Append(failed, Head(outbox).tx)
    /\ outbox' = Tail(outbox)
    /\ UNCHANGED <<currentBlock, index, queue, recent, clock>>

(* The mempool stream takes the next failed transaction.                   *)
TakeFailed ==
    /\ failed # <<>>
    /\ failed' = Tail(failed)
    /\ UNCHANGED <<currentBlock, index, queue, recent, clock, outbox>>

TrackerNext ==
    \/ \E t \in Tx : clock < MaxClock /\ Track(t)
    \/ \E t \in Tx, b \in Block : ConfirmTx(t, b)
    \/ SendFailed
    \/ TakeFailed

TrackerSpec == TrackerInit /\ [][TrackerNext]_trackerVars

-----------------------------------------------------------------------------
(* Properties that hold however often a transaction is tracked and in      *)
(* whatever order the ledger's transactions come.                          *)

(* confirm_tx finds by the index what it has to take from the queue: an    *)
(* indexed transaction is queued under its indexed deadline.               *)
IndexedIsQueued ==
    \A t \in Tx : index[t] # NotIndexed =>
        \E e \in queue : e.tx = t /\ e.until = index[t]

(* try_advance leaves nothing behind: no queued deadline has passed.       *)
NoneOverdue == \A e \in queue : e.until > currentBlock

(* A transaction leaves the queue only confirmed or in the batch sent out. *)
NothingLost ==
    [][\A e \in queue :
         \/ e \in queue'
         \/ \E i \in 1..Len(outbox') : outbox'[i] = e
         \/ \E b \in Block : ConfirmTx(e.tx, b)
         \/ \E f \in queue' : f.tx = e.tx /\ f.until = e.until]_trackerVars
=============================================================================
