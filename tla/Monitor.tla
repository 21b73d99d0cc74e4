------------------------------- MODULE Monitor -------------------------------
(***************************************************************************)
(* The process of src/main.rs put together: the ledger task forwards every *)
(* event to the tracker and then writes it to the index; the mempool task  *)
(* hands each new transaction of the node's mempool to the tracker and     *)
(* writes it to the index, and unapplies those the tracker gives up; the   *)
(* tracker's agent sits between them.  Bounded channels connect the three  *)
(* tasks.  The index is IndexWriters with these two tasks as its writers:  *)
(* a row is read without a lock, written under one, and the other task     *)
(* runs between any two of these steps.  The agent is TxTracker.           *)
(*                                                                         *)
(* The node is the environment: a chain of blocks, undone from its end at  *)
(* a rollback, and a mempool that is valid on top of the chain.  A sender  *)
(* waits for room in a channel before it puts an item (the channel of      *)
(* futures puts first and then waits, which gives it one place more).      *)
(***************************************************************************)
EXTENDS IndexWriters, SequencesExt, FiniteSets

CONSTANTS
    Ledger,        \* the ledger task, as a writer of the index
    Mempool,       \* the mempool task
    Delay,         \* max_confirmation_delay_blocks
    RecentCap,     \* capacity of the tracker's filter
    FilterCap,     \* FILTER_CAP of the mempool monitor
    ChannelCap,    \* tx_tracker_buffer_size
    MaxBlocks,     \* bound on the height of the chain
    MaxRollbacks,  \* bound on the rollbacks of the node
    MaxLag,        \* bound on the events a further block leaves behind
    Blocks         \* the blocks the node may mine

(* A reference holds the hash of its transaction.                          *)
ASSUME MonitorAssumption ==
    /\ {Delay, RecentCap, ChannelCap} \subseteq Nat \ {0}
    /\ {FilterCap, MaxBlocks, MaxRollbacks, MaxLag} \subseteq Nat
    /\ Blocks \subseteq {s \in Seq(Tx) : s # <<>> /\ Distinct(s)}
    /\ \A t, u \in Tx : t # u => TxOut[t] \cap TxOut[u] = {}

(* The writers of the index, and the slots they settle outputs at.         *)
TwoTasks ==
    /\ Ledger # Mempool /\ Writer = {Ledger, Mempool}
    /\ 1..MaxBlocks \subseteq SlotsOf[Ledger]
    /\ None \in SlotsOf[Mempool]

VARIABLES
    chain,         \* the node's chain: per block, its transactions
    pool,          \* the node's mempool, in order
    rollbacks,     \* rollbacks of the node so far
    ledgerQ,       \* events of chain sync the ledger task has not taken
    synced,        \* state_synced
    confirmedQ,    \* channel from the ledger task to the tracker
    snapshot,      \* what is left of the mempool snapshot
    filter,        \* TxFilter: hashes the mempool monitor has yielded, newest first
    incomingQ,     \* channel from the mempool task to the tracker
    currentBlock, index, queue, recent, clock, outbox, failed,  \* TxTracker
    dropped,       \* auxiliary: what the mempool task has unapplied
    returned,      \* auxiliary: what it has accepted again after that
    undone,        \* auxiliary: what the ledger task has unapplied
    overtaken      \* auxiliary: per task, rows it overwrites from an outdated read

nodeVars == <<chain, pool, rollbacks>>
ledgerVars == <<ledgerQ, synced, undone>>
mempoolVars == <<snapshot, filter, dropped, returned>>
channels == <<confirmedQ, incomingQ>>
trackerVars == <<currentBlock, index, queue, recent, clock, outbox, failed>>
processVars == <<ledgerVars, mempoolVars, channels, trackerVars, overtaken>>
monitorVars == <<allVars, nodeVars, processVars>>

Agent == INSTANCE TxTracker WITH Block <- 0..MaxBlocks, FailedCap <- ChannelCap,
                                 MaxClock <- Cardinality(Tx)

Event == [kind : {"apply", "unapply"}, tx : Tx, block : Nat]
Elems(s) == {s[i] : i \in 1..Len(s)}

MonitorInit ==
    /\ WritersInit /\ Agent!TrackerInit
    /\ chain = <<>> /\ pool = <<>> /\ rollbacks = 0
    /\ ledgerQ = <<>> /\ synced = FALSE
    /\ confirmedQ = <<>>
    /\ snapshot = <<>> /\ filter = <<>>
    /\ incomingQ = <<>>
    /\ dropped = {} /\ returned = {} /\ undone = {}
    /\ overtaken = [w \in Writer |-> {}]

-----------------------------------------------------------------------------
(* The node.                                                               *)

ChainTxs(c) == UNION {Elems(c[b]) : b \in 1..Len(c)}
Created(T) == UNION {TxOut[t] : t \in T}
Consumed(T) == UNION {TxIn[t] : t \in T}
Genesis == Ref \ Created(Tx)

(* t can follow the transactions T.                                        *)
Valid(t, T) ==
    /\ t \notin T
    /\ TxIn[t] \subseteq (Genesis \cup Created(T)) \ Consumed(T)

(* What the node keeps of a mempool on a chain.                            *)
Revalidate(s, c) ==
    FoldLeft(LAMBDA kept, t : IF Valid(t, ChainTxs(c) \cup Elems(kept)) THEN Append(kept, t)
                              ELSE kept, <<>>, s)

Submit(t) ==
    /\ Valid(t, ChainTxs(chain) \cup Elems(pool))
    /\ pool' = Append(pool, t)
    /\ UNCHANGED <<allVars, chain, rollbacks, processVars>>

Mine(s) ==
    /\ Len(chain) < MaxBlocks /\ Len(ledgerQ) < MaxLag
    /\ \A i \in 1..Len(s) : Valid(s[i], ChainTxs(chain) \cup {s[j] : j \in 1..i - 1})
    /\ chain' = Append(chain, s)
    /\ pool' = Revalidate(pool, chain')
    /\ ledgerQ' = ledgerQ \o
         [i \in 1..Len(s) |-> [kind |-> "apply", tx |-> s[i], block |-> Len(chain')]]
    /\ UNCHANGED <<allVars, rollbacks, synced, undone, mempoolVars, channels, trackerVars, overtaken>>

(* The last block is abandoned: its transactions go back to the mempool.   *)
RollBack ==
    /\ rollbacks < MaxRollbacks /\ Len(ledgerQ) < MaxLag
    /\ chain # <<>>
    /\ rollbacks' = rollbacks + 1
    /\ chain' = Front(chain)
    /\ pool' = Revalidate(Last(chain) \o pool, chain')
    /\ LET s == Reverse(Last(chain))
       IN  ledgerQ' = ledgerQ \o
             [i \in 1..Len(s) |-> [kind |-> "unapply", tx |-> s[i], block |-> Len(chain)]]
    /\ UNCHANGED <<allVars, synced, undone, mempoolVars, channels, trackerVars, overtaken>>

-----------------------------------------------------------------------------
(* The index, row by row: both tasks run the transactions of IndexWriters. *)

Call(op, t, s) == [op |-> op, tx |-> t, slot |-> s]

RowStep(w) ==
    /\ Read(w) \/ Skip(w) \/ Put(w) \/ LockTimeout(w)
    /\ UNCHANGED <<nodeVars, processVars>>

(* The row the task v has read and is about to write from what it read.    *)
Pending(v, r) == todo[v] # <<>> /\ r = Head(todo[v]) /\ seen[v] # Unread /\ ~Skips(v, r)

(* A commit makes the reads of the other task outdated.                    *)
CommitOver(w) ==
    /\ Commit(w)
    /\ overtaken' = [v \in Writer |->
                       overtaken[v] \cup {r \in Ref : Pending(v, r) /\ seen[v] # txo'[r]}]

-----------------------------------------------------------------------------
(* The ledger task: process_events over forward_with_ref and TxHandler.    *)

LedgerForward ==
    /\ ledgerQ # <<>>
    /\ Len(confirmedQ) < ChannelCap
    /\ LET e == Head(ledgerQ)
       IN  /\ confirmedQ' = Append(confirmedQ, [tx |-> e.tx, block |-> e.block])
           /\ Start(Ledger, Call(e.kind, e.tx, IF e.kind = "apply" THEN e.block ELSE None))
    /\ ledgerQ' = Tail(ledgerQ)
    /\ UNCHANGED <<nodeVars, synced, undone, incomingQ, mempoolVars, trackerVars, overtaken>>

LedgerCommit ==
    /\ CommitOver(Ledger)
    /\ undone' = IF job[Ledger].op = "apply" THEN undone ELSE undone \cup {job[Ledger].tx}
    /\ UNCHANGED <<nodeVars, ledgerQ, synced, channels, mempoolVars, trackerVars>>

TipReached ==
    /\ ~exited
    /\ ledgerQ = <<>> /\ job[Ledger] = NoJob
    /\ ~synced
    /\ synced' = TRUE
    /\ UNCHANGED <<allVars, nodeVars, ledgerQ, undone, channels, mempoolVars, trackerVars, overtaken>>

-----------------------------------------------------------------------------
(* The mempool task: mempool_stream starts once state_synced is up.        *)

(* acquire: one snapshot after the other; those with nothing new, which    *)
(* are read to no effect, are left out.                                    *)
Acquire ==
    /\ ~exited
    /\ synced /\ snapshot = <<>>
    /\ ~(Elems(pool) \subseteq Elems(filter))
    /\ snapshot' = pool
    /\ UNCHANGED <<allVars, nodeVars, ledgerVars, channels, filter, dropped, returned, trackerVars, overtaken>>

(* register: the set may hold one more than cap before the oldest leaves.  *)
Register(t) == filter' = <<t>> \o (IF Len(filter) > FilterCap THEN Front(filter) ELSE filter)

(* query_next_tx: what the filter knows is passed over.                    *)
\* Faulty variant: an accepted transaction is tracked and not indexed.
AcceptUnindexed(t) ==
    /\ ~exited
    /\ job[Mempool] = NoJob /\ snapshot # <<>> /\ t = Head(snapshot)
    /\ snapshot' = Tail(snapshot)
    /\ \/ t \in Elems(filter) /\ UNCHANGED <<filter, incomingQ, returned>>
       \/ /\ t \notin Elems(filter)
          /\ Len(incomingQ) < ChannelCap
          /\ Register(t)
          /\ incomingQ' = Append(incomingQ, t)
          /\ returned' = returned \cup ({t} \cap dropped)
    /\ UNCHANGED <<allVars, nodeVars, ledgerVars, confirmedQ, dropped, trackerVars, overtaken>>

Accept(t) ==
    /\ ~exited
    /\ job[Mempool] = NoJob /\ snapshot # <<>> /\ t = Head(snapshot)
    /\ snapshot' = Tail(snapshot)
    /\ \/ t \in Elems(filter) /\ UNCHANGED <<filter, incomingQ, returned, allVars>>
       \/ /\ t \notin Elems(filter)
          /\ Len(incomingQ) < ChannelCap
          /\ Register(t)
          /\ incomingQ' = Append(incomingQ, t)
          /\ returned' = returned \cup ({t} \cap dropped)
          /\ Start(Mempool, Call("apply", t, None))
    /\ UNCHANGED <<nodeVars, ledgerVars, confirmedQ, dropped, trackerVars, overtaken>>

Drop ==
    /\ synced
    /\ failed # <<>>
    /\ Start(Mempool, Call("unapply", Head(failed), None))
    /\ Agent!TakeFailed
    /\ UNCHANGED <<nodeVars, ledgerVars, channels, snapshot, filter, dropped, returned, overtaken>>

MempoolCommit ==
    /\ CommitOver(Mempool)
    /\ dropped' = IF job[Mempool].op = "apply" THEN dropped ELSE dropped \cup {job[Mempool].tx}
    /\ UNCHANGED <<nodeVars, ledgerVars, channels, snapshot, filter, returned, trackerVars>>

-----------------------------------------------------------------------------
(* The tracker's agent.                                                    *)

AgentTrack ==
    /\ ~exited
    /\ incomingQ # <<>>
    /\ Agent!Track(Head(incomingQ))
    /\ incomingQ' = Tail(incomingQ)
    /\ UNCHANGED <<allVars, nodeVars, ledgerVars, confirmedQ, mempoolVars, overtaken>>

\* Faulty variant: the two loops wait for each other's items.
AgentConfirmPaired ==
    /\ ~exited
    /\ confirmedQ # <<>> /\ incomingQ # <<>>
    /\ Agent!ConfirmTx(Head(confirmedQ).tx, Head(confirmedQ).block)
    /\ confirmedQ' = Tail(confirmedQ)
    /\ UNCHANGED <<allVars, nodeVars, ledgerVars, incomingQ, mempoolVars, overtaken>>

AgentConfirm ==
    /\ ~exited
    /\ confirmedQ # <<>>
    /\ Agent!ConfirmTx(Head(confirmedQ).tx, Head(confirmedQ).block)
    /\ confirmedQ' = Tail(confirmedQ)
    /\ UNCHANGED <<allVars, nodeVars, ledgerVars, incomingQ, mempoolVars, overtaken>>

AgentSend ==
    /\ ~exited
    /\ Agent!SendFailed
    /\ UNCHANGED <<allVars, nodeVars, ledgerVars, channels, mempoolVars, overtaken>>

Node == (\E t \in Tx : Submit(t)) \/ (\E s \in Blocks : Mine(s)) \/ RollBack
LedgerTask == LedgerForward \/ RowStep(Ledger) \/ LedgerCommit \/ TipReached
MempoolIndex == RowStep(Mempool) \/ MempoolCommit
MempoolTask == Acquire \/ (\E t \in Tx : Accept(t)) \/ Drop \/ MempoolIndex
AgentTask == AgentTrack \/ AgentConfirm \/ AgentSend

MonitorNext == Node \/ LedgerTask \/ MempoolTask \/ AgentTask

MonitorSpec == MonitorInit /\ [][MonitorNext]_monitorVars

(* tokio runs every task that can run; the agent's two loops are polled in *)
(* turn, and select polls the accepted and the dropped in turn.            *)
FairMonitor ==
    /\ MonitorSpec
    /\ WF_monitorVars(LedgerTask)
    /\ WF_monitorVars(Acquire \/ (\E t \in Tx : Accept(t)) \/ MempoolIndex) /\ WF_monitorVars(Drop)
    /\ WF_monitorVars(AgentTrack) /\ WF_monitorVars(AgentConfirm \/ AgentSend)

-----------------------------------------------------------------------------
LedgerDrained == ledgerQ = <<>> /\ job[Ledger] = NoJob
Quiet ==
    /\ synced /\ LedgerDrained
    /\ job[Mempool] = NoJob /\ snapshot = <<>> /\ Elems(pool) \subseteq Elems(filter)
    /\ confirmedQ = <<>> /\ incomingQ = <<>> /\ outbox = <<>> /\ failed = <<>>

(* What the chain has settled the mempool task cannot take back: once the  *)
(* ledger's events are handled, every output of the chain is in the index, *)
(* whatever rows the mempool task has written before, between or after.    *)
(* (Of a transaction the tracker gives up and the chain settles all the    *)
(* same SettledInFull says what the index owes.)                           *)
SettledOutputsKept == LedgerDrained => Created(ChainTxs(chain) \ dropped) \subseteq Live

(* And no output the chain has spent is listed as unspent, but in the      *)
(* three ways the code has of losing the spend: one that was given up      *)
(* spends it, too (see ForeignSpendsKept); the mempool task had read the   *)
(* row when the ledger task marked it, and wrote it back (SettledSpent);   *)
(* its maker was given up, and accepted again when the filter forgot it.   *)
LostSpends == Consumed(dropped) \cup Created(returned) \cup overtaken[Mempool]
SettledSpendsKept ==
    LedgerDrained => (Consumed(ChainTxs(chain)) \ LostSpends) \cap Unspent = {}

(* The index never loses what the chain has settled.                       *)
SettledKept == SettledOutputsKept /\ SettledSpendsKept

(* The same of every transaction of the chain, given up or not.            *)
SettledInFull == LedgerDrained => Created(ChainTxs(chain)) \subseteq Live

(* The same of rows the two tasks write at once.                           *)
SettledSpent ==
    LedgerDrained =>
        (Consumed(ChainTxs(chain)) \ (Consumed(dropped) \cup Created(returned))) \cap Unspent = {}

(* README: the "complete picture of which UTXOs are actually available to  *)
(* spend".  An output the chain has spent through a transaction that never *)
(* was in the mempool task's hands is not shown as available.              *)
ForeignSpendsKept ==
    LedgerDrained =>
        \A t \in ChainTxs(chain) \ Elems(filter) : TxIn[t] \cap Unspent = {}

(* What a transaction given up has spent is unspent again, in whatever     *)
(* order the chained ones were unapplied, unless another one that the      *)
(* chain or the mempool still has spends it, or the ledger task had read   *)
(* the row when the mempool task restored it, and wrote it back.           *)
Retained == ChainTxs(chain) \cup (Elems(filter) \ dropped)
GivenBack ==
    Quiet => ((Consumed(dropped) \cap Live) \ (Consumed(Retained) \cup overtaken[Ledger]))
                 \subseteq Unspent

(* README: Unspent has the "new UTXOs created by transactions currently in *)
(* the mempool".  (A rollback returns transactions to the mempool that the *)
(* mempool task does not hear of again: see ReturnedShown.)                *)
MempoolShown == Quiet => Created(Elems(pool) \ (undone \cup dropped)) \subseteq Live

(* The same of every transaction of the mempool.                           *)
ReturnedShown == Quiet => Created(Elems(pool)) \subseteq Live

(* README: Unspent has the "confirmed UTXOs that aren't being spent by any *)
(* mempool transaction".                                                   *)
NotSpentByMempool == Quiet => Consumed(Elems(pool)) \cap Unspent = {}

(* The bounded channels never bring the three tasks to wait for each       *)
(* other: when the node is quiet, so is the process in the end, unless a   *)
(* lock timeout has ended it.                                              *)
EventuallyQuiet == <>[](Quiet \/ exited)
=============================================================================
