--------------------------- MODULE TxTracker_proofs ---------------------------
(***************************************************************************)
(* The pending table of the tracker (pending_txs.rs) stays consistent for  *)
(* every set of transactions, every delay and every order of calls: what   *)
(* the index says is queued, nothing queued is overdue, and nothing leaves *)
(* the queue unaccounted for.  For that the channel, the batch and the     *)
(* filter of recent hashes play no part.                                   *)
(*                                                                         *)
(* Between the mempool and the ledger it gives up what it should, nothing  *)
(* confirmed and nothing early, wherever the ledger is when it starts and  *)
(* whatever the two filters forget, but for transactions tracked again     *)
(* while queued or confirmed.  The last part shows that the filters have to*)
(* forget one for that.                                                    *)
(***************************************************************************)
EXTENDS MempoolTracking, FiniteSetTheorems, TLAPS

(* The types the two facts rest on.                                        *)
TableType ==
    /\ currentBlock \in Nat
    /\ index \in [Tx -> Nat \cup {NotIndexed}]
    /\ queue \subseteq Entry
    /\ clock \in Nat

TableInv == TableType /\ IndexedIsQueued /\ NoneOverdue

(* append: the new deadline lies after the current block, and the index    *)
(* points at the entry just filed.                                         *)
LEMMA TrackKeeps ==
    ASSUME TableInv, NEW t \in Tx, Track(t)
    PROVE  TableInv'
<1> DEFINE until == currentBlock + Delay
           same == {e \in queue : e.tx = t /\ e.until = until}
           entered == [tx |-> t, until |-> until, at |-> clock]
<1>1. CASE IsRecent(t)
  BY <1>1 DEF TableInv, TableType, IndexedIsQueued, NoneOverdue, Track, Deadline, trackerVars
<1>2. CASE ~IsRecent(t)
  <2>1. /\ index' = [index EXCEPT ![t] = until]
        /\ queue' = (queue \ same) \cup {entered}
        /\ clock' = clock + 1
        /\ currentBlock' = currentBlock
    BY <1>2 DEF Track, Deadline
  <2>2. until \in Nat /\ until > currentBlock
    BY TrackerAssumption DEF TableInv, TableType
  <2>3. entered \in Entry
    BY <2>2 DEF Entry, TableInv, TableType
  <2>4. TableType'
    BY <2>1, <2>2, <2>3 DEF TableInv, TableType
  <2>5. NoneOverdue'
    BY <2>1, <2>2 DEF TableInv, NoneOverdue
  <2>6. IndexedIsQueued'
    <3> SUFFICES ASSUME NEW x \in Tx, index'[x] # NotIndexed
                 PROVE  \E e \in queue' : e.tx = x /\ e.until = index'[x]
      BY DEF IndexedIsQueued
    <3>1. CASE x = t
      <4>1. index'[x] = until
        BY <3>1, <2>1 DEF TableInv, TableType
      <4>2. entered \in queue' /\ entered.tx = t /\ entered.until = until
        BY <2>1
      <4> QED
        BY <4>1, <4>2, <3>1
    <3>2. CASE x # t
      <4>1. index'[x] = index[x]
        BY <3>2, <2>1 DEF TableInv, TableType
      <4>2. PICK e \in queue : e.tx = x /\ e.until = index[x]
        BY <4>1 DEF TableInv, IndexedIsQueued
      <4>3. e \notin same
        BY <4>2, <3>2
      <4> QED
        BY <4>1, <4>2, <4>3, <2>1
    <3> QED
      BY <3>1, <3>2
  <2> QED
    BY <2>4, <2>5, <2>6 DEF TableInv
<1> QED
  BY <1>1, <1>2

(* confirm_tx and try_advance: an entry that stays indexed is neither the  *)
(* confirmed one nor due, and what is due is taken out.                    *)
LEMMA ConfirmKeeps ==
    ASSUME TableInv, NEW t \in Tx, NEW b \in Block, ConfirmTx(t, b)
    PROVE  TableInv'
<1> DEFINE kept == {e \in queue : ~(e.tx = t /\ e.until = index[t])}
           due == IF currentBlock < b THEN {e \in kept : e.until <= b} ELSE {}
<1>1. /\ currentBlock' = IF currentBlock < b THEN b ELSE currentBlock
      /\ queue' = kept \ due
      /\ index' = [x \in Tx |-> IF x = t \/ (\E e \in due : e.tx = x) THEN NotIndexed ELSE index[x]]
      /\ clock' = clock
  BY DEF ConfirmTx, Kept, Due, Unindexed
<1>2. b \in Nat
  BY TrackerAssumption
<1>3. TableType'
  BY <1>1, <1>2 DEF TableInv, TableType, NotIndexed
<1>4. NoneOverdue'
  <2> SUFFICES ASSUME NEW e \in queue' PROVE e.until > currentBlock'
    BY DEF NoneOverdue
  <2>1. e \in queue /\ e \in kept /\ e \notin due
    BY <1>1
  <2>2. e.until \in Nat /\ e.until > currentBlock
    BY <2>1 DEF TableInv, TableType, NoneOverdue, Entry
  <2> QED
    BY <1>1, <1>2, <2>1, <2>2 DEF TableInv, TableType
<1>5. IndexedIsQueued'
  <2> SUFFICES ASSUME NEW x \in Tx, index'[x] # NotIndexed
               PROVE  \E e \in queue' : e.tx = x /\ e.until = index'[x]
    BY DEF IndexedIsQueued
  <2>1. x # t /\ (\A e \in due : e.tx # x) /\ index'[x] = index[x]
    BY <1>1
  <2>2. PICK e \in queue : e.tx = x /\ e.until = index[x]
    BY <2>1 DEF TableInv, IndexedIsQueued
  <2>3. e \in kept /\ e \notin due
    BY <2>1, <2>2
  <2> QED
    BY <1>1, <2>1, <2>2, <2>3
<1> QED
  BY <1>3, <1>4, <1>5 DEF TableInv

(* Every step of the agent keeps the table consistent.                     *)
LEMMA StepKeeps == TableInv /\ [TrackerNext]_trackerVars => TableInv'
<1> SUFFICES ASSUME TableInv, [TrackerNext]_trackerVars PROVE TableInv'
  OBVIOUS
<1>1. ASSUME NEW t \in Tx, Track(t) PROVE TableInv'
  BY <1>1, TrackKeeps
<1>2. ASSUME NEW t \in Tx, NEW b \in Block, ConfirmTx(t, b) PROVE TableInv'
  BY <1>2, ConfirmKeeps
<1>3. CASE SendFailed
  BY <1>3 DEF SendFailed, TableInv, TableType, IndexedIsQueued, NoneOverdue
<1>4. CASE TakeFailed
  BY <1>4 DEF TakeFailed, TableInv, TableType, IndexedIsQueued, NoneOverdue
<1>5. CASE UNCHANGED trackerVars
  BY <1>5 DEF trackerVars, TableInv, TableType, IndexedIsQueued, NoneOverdue
<1> QED
  BY <1>1, <1>2, <1>3, <1>4, <1>5 DEF TrackerNext

LEMMA InitTable == TrackerInit => TableInv
BY DEF TrackerInit, TableInv, TableType, IndexedIsQueued, NoneOverdue, NotIndexed

(* confirm_tx finds every transaction it has to take out: whatever is      *)
(* indexed is queued under its indexed deadline, always.                   *)
THEOREM IndexConsistent == TrackerSpec => []IndexedIsQueued
<1>1. TableInv => IndexedIsQueued
  BY DEF TableInv
<1> QED
  BY InitTable, StepKeeps, <1>1, PTL DEF TrackerSpec

(* try_advance leaves nothing overdue: a transaction that is not confirmed *)
(* is given up at the first block that reaches its deadline, always.       *)
THEOREM NothingOverdue == TrackerSpec => []NoneOverdue
<1>1. TableInv => NoneOverdue
  BY DEF TableInv
<1> QED
  BY InitTable, StepKeeps, <1>1, PTL DEF TrackerSpec

-----------------------------------------------------------------------------
(* What leaves the queue.                                                  *)

(* A batch holds the entries it is made of, each of them, and no others.   *)
LEMMA BatchHolds ==
    ASSUME NEW S, IsFiniteSet(S), NEW s \in Batches(S)
    PROVE  /\ Len(s) = Cardinality(S)
           /\ \A i \in 1..Len(s) : s[i] \in S
           /\ \A e \in S : \E i \in 1..Len(s) : s[i] = e
<1> DEFINE n == Cardinality(S)
<1>1. n \in Nat
  BY FS_CardinalityType
<1>2. /\ s \in [1..n -> S]
      /\ \A i, j \in 1..n : i # j => s[i] # s[j]
  BY DEF Batches, SetToSeqs
<1>3. Len(s) = n
  BY <1>1, <1>2
<1>4. s \in Injection(1..n, S)
  BY <1>2 DEF Injection, IsInjective
<1>5. IsFiniteSet(1..n) /\ Cardinality(1..n) = n
  BY <1>1, FS_Interval
<1>6. s \in Surjection(1..n, S)
  BY <1>4, <1>5, FS_Injection
<1> QED
  BY <1>2, <1>3, <1>6 DEF Surjection

(* The queue of a running agent is finite.                                 *)
FiniteQueue == IsFiniteSet(queue)

LEMMA FiniteQueueKept == FiniteQueue /\ [TrackerNext]_trackerVars => FiniteQueue'
<1> SUFFICES ASSUME FiniteQueue, [TrackerNext]_trackerVars PROVE FiniteQueue'
  OBVIOUS
<1>1. ASSUME NEW t \in Tx, Track(t) PROVE FiniteQueue'
  <2>1. CASE IsRecent(t)
    BY <1>1, <2>1 DEF Track, trackerVars, FiniteQueue
  <2>2. CASE ~IsRecent(t)
    <3> DEFINE same == {e \in queue : e.tx = t /\ e.until = Deadline}
               entered == [tx |-> t, until |-> Deadline, at |-> clock]
    <3>1. queue' = (queue \ same) \cup {entered}
      BY <1>1, <2>2 DEF Track
    <3>2. IsFiniteSet(queue \ same)
      BY FS_Subset DEF FiniteQueue
    <3> QED
      BY <3>1, <3>2, FS_AddElement DEF FiniteQueue
  <2> QED
    BY <2>1, <2>2
<1>2. ASSUME NEW t \in Tx, NEW b \in Block, ConfirmTx(t, b) PROVE FiniteQueue'
  <2>1. queue' \subseteq queue
    BY <1>2 DEF ConfirmTx, Kept
  <2> QED
    BY <2>1, FS_Subset DEF FiniteQueue
<1>3. CASE SendFailed \/ TakeFailed \/ UNCHANGED trackerVars
  BY <1>3 DEF SendFailed, TakeFailed, trackerVars, FiniteQueue
<1> QED
  BY <1>1, <1>2, <1>3 DEF TrackerNext

(* A step takes an entry out of the queue only by confirming its           *)
(* transaction, by sending it out, or by filing it again.                  *)
LEMMA StepLosesNothing ==
    ASSUME FiniteQueue, TrackerNext, NEW e \in queue, e \notin queue'
    PROVE  \/ \E i \in 1..Len(outbox') : outbox'[i] = e
           \/ \E b \in Block : ConfirmTx(e.tx, b)
           \/ \E f \in queue' : f.tx = e.tx /\ f.until = e.until
<1>1. ASSUME NEW t \in Tx, Track(t)
      PROVE  \E f \in queue' : f.tx = e.tx /\ f.until = e.until
  <2> DEFINE same == {x \in queue : x.tx = t /\ x.until = Deadline}
             entered == [tx |-> t, until |-> Deadline, at |-> clock]
  <2>1. queue' = (queue \ same) \cup {entered}
    BY <1>1 DEF Track, trackerVars
  <2>2. e.tx = t /\ e.until = Deadline
    BY <2>1
  <2>3. entered \in queue' /\ entered.tx = t /\ entered.until = Deadline
    BY <2>1
  <2> QED
    BY <2>2, <2>3
<1>2. ASSUME NEW t \in Tx, NEW b \in Block, ConfirmTx(t, b)
      PROVE  \/ \E i \in 1..Len(outbox') : outbox'[i] = e
             \/ \E c \in Block : ConfirmTx(e.tx, c)
  <2> DEFINE due == Due(Kept(t), b)
  <2>1. queue' = Kept(t) \ due /\ outbox' \in Batches(due)
    BY <1>2 DEF ConfirmTx
  <2>2. CASE e \notin Kept(t)
    <3>1. e.tx = t
      BY <2>2 DEF Kept
    <3> QED
      BY <3>1, <1>2
  <2>3. CASE e \in due
    <3>1. due \subseteq queue
      BY DEF Due, Kept
    <3>2. IsFiniteSet(due)
      BY <3>1, FS_Subset DEF FiniteQueue
    <3> HIDE DEF due
    <3> QED
      BY <2>1, <2>3, <3>2, BatchHolds
  <2> QED
    BY <2>1, <2>2, <2>3
<1>3. CASE SendFailed \/ TakeFailed
  BY <1>3 DEF SendFailed, TakeFailed
<1> QED
  BY <1>1, <1>2, <1>3 DEF TrackerNext

(* A transaction leaves the queue only confirmed or in the batch sent out, *)
(* whatever the order of calls.                                            *)
THEOREM NothingLostHolds == TrackerSpec => NothingLost
<1>1. TrackerInit => FiniteQueue
  BY FS_EmptySet DEF TrackerInit, FiniteQueue
<1> DEFINE Accounted ==
      \A e \in queue :
        \/ e \in queue'
        \/ \E i \in 1..Len(outbox') : outbox'[i] = e
        \/ \E b \in Block : ConfirmTx(e.tx, b)
        \/ \E f \in queue' : f.tx = e.tx /\ f.until = e.until
<1>2. FiniteQueue /\ TrackerNext => Accounted
  BY StepLosesNothing
<1>3. FiniteQueue /\ [TrackerNext]_trackerVars => [Accounted]_trackerVars
  BY <1>2
<1> HIDE DEF Accounted
<1>4. TrackerSpec => [][Accounted]_trackerVars
  BY <1>1, <1>3, FiniteQueueKept, PTL DEF TrackerSpec
<1> QED
  BY <1>4 DEF NothingLost, Accounted

-----------------------------------------------------------------------------
(* What is given up.                                                       *)

Filing == [height : Nat, heard : BOOLEAN]

HistoryType ==
    /\ height \in Nat
    /\ heard \in BOOLEAN
    /\ filed \in Seq(Filing) /\ Len(filed) = clock
    /\ confirmedAt \in [Tx -> Block \cup {Never}]
    /\ outbox \in Seq(Entry)

(* The tracker is never ahead of the ledger, and once it has heard of it   *)
(* not behind either.                                                      *)
InStep == currentBlock <= height /\ (heard => currentBlock = height)

(* The n-th append, when the ledger had been heard of, gave the deadline u.*)
Gave(n, u) == filed[n + 1].heard => u = filed[n + 1].height + Delay

EntriesFiled == \A e \in queue : e.at < clock /\ Gave(e.at, e.until)

(* An entry of a transaction that was not tracked again is where the index *)
(* says, and the ledger has not confirmed it.                              *)
EntriesPending ==
    \A e \in queue : e.tx \notin retracked => index[e.tx] = e.until /\ ~Confirmed(e.tx)

BatchFiled == \A i \in 1..Len(outbox) : outbox[i].at < clock

IInv ==
    /\ TableInv /\ FiniteQueue
    /\ HistoryType
    /\ InStep
    /\ EntriesFiled /\ EntriesPending
    /\ BatchFiled /\ NoneConfirmed /\ NoneEarly

(* The mempool yields a transaction: if it is queued or confirmed it counts*)
(* as tracked again, otherwise its entry is the only one.                  *)
LEMMA YieldKeeps == ASSUME IInv, NEW t \in Tx, Yield(t) PROVE IInv'
<1>1. Track(t) /\ NoteTracked(t) /\ clock < MaxClock
      /\ UNCHANGED <<height, heard, confirmedAt>>
  BY DEF Yield
<1>2. TableInv' /\ FiniteQueue'
  BY <1>1, TrackKeeps, FiniteQueueKept DEF IInv, TrackerNext
<1>3. currentBlock' = currentBlock /\ outbox' = outbox
  BY <1>1 DEF Track, trackerVars
<1>4. InStep'
  BY <1>1, <1>3 DEF IInv, InStep
<1>5. CASE IsRecent(t)
  <2>1. UNCHANGED <<index, queue, clock, filed, retracked>>
    BY <1>1, <1>5 DEF Track, NoteTracked, trackerVars
  <2> QED
    BY <1>1, <1>2, <1>3, <1>4, <2>1 DEF IInv, HistoryType, EntriesFiled, EntriesPending,
       BatchFiled, NoneConfirmed, NoneEarly, Gave, Confirmed
<1>6. CASE ~IsRecent(t)
  <2> DEFINE until == currentBlock + Delay
             new == [tx |-> t, until |-> until, at |-> clock]
             filing == [height |-> height, heard |-> heard]
  <2>1. /\ index' = [index EXCEPT ![t] = until]
        /\ \A e \in queue' : e \in queue \/ e = new
        /\ clock' = clock + 1
        /\ filed' = Append(filed, filing)
        /\ retracked' = IF Queued(t) \/ Confirmed(t) THEN retracked \cup {t} ELSE retracked \ {t}
    BY <1>1, <1>6 DEF Track, NoteTracked, Deadline
  <2>2. /\ clock \in Nat /\ until \in Nat /\ filing \in Filing
        /\ index \in [Tx -> Nat \cup {NotIndexed}] /\ queue \subseteq Entry
    BY TrackerAssumption DEF IInv, TableInv, TableType, HistoryType, Filing
  <2>3. /\ filed' \in Seq(Filing) /\ Len(filed') = clock + 1
        /\ filed'[clock + 1] = filing
        /\ \A n \in 1..clock : filed'[n] = filed[n]
    BY <2>1, <2>2 DEF IInv, HistoryType
  <2>4. HistoryType'
    BY <1>1, <1>3, <2>1, <2>3 DEF IInv, HistoryType
  <2>5. EntriesFiled'
    <3> SUFFICES ASSUME NEW e \in queue' PROVE (e.at < clock /\ Gave(e.at, e.until))'
      BY DEF EntriesFiled
    <3>1. CASE e \in queue
      <4>1. e.at \in Nat /\ e.at < clock /\ Gave(e.at, e.until)
        BY <2>2, <3>1 DEF IInv, EntriesFiled, Entry
      <4>2. filed'[e.at + 1] = filed[e.at + 1]
        BY <2>2, <2>3, <4>1
      <4>3. e.at < clock'
        BY <2>1, <2>2, <4>1
      <4> QED
        BY <4>1, <4>2, <4>3 DEF Gave
    <3>2. CASE e = new
      <4>1. e.at = clock /\ e.until = until
        BY <3>2
      <4>2. heard => currentBlock = height
        BY DEF IInv, InStep
      <4> QED
        BY <2>1, <2>2, <2>3, <4>1, <4>2 DEF Gave
    <3> QED
      BY <2>1, <3>1, <3>2
  <2>6. EntriesPending'
    <3> SUFFICES ASSUME NEW e \in queue', e.tx \notin retracked'
                 PROVE  index'[e.tx] = e.until /\ ~Confirmed(e.tx)'
      BY DEF EntriesPending
    <3>1. CASE e \in queue
      <4>1. e.tx # t /\ e.tx \in Tx /\ e.tx \notin retracked
        BY <2>1, <2>2, <3>1 DEF Queued, Entry
      <4> QED
        BY <1>1, <2>1, <2>2, <3>1, <4>1 DEF IInv, EntriesPending, Confirmed
    <3>2. CASE e = new
      <4>1. e.tx = t /\ e.until = until
        BY <3>2
      <4>2. ~Confirmed(t)
        BY <2>1, <4>1
      <4> QED
        BY <1>1, <2>1, <2>2, <4>1, <4>2 DEF Confirmed
    <3> QED
      BY <2>1, <3>1, <3>2
  <2>7. BatchFiled' /\ NoneEarly'
    <3> SUFFICES ASSUME NEW i \in 1..Len(outbox)
                 PROVE  /\ outbox[i].at < clock'
                        /\ filed'[outbox[i].at + 1].heard =>
                             filed'[outbox[i].at + 1].height + Delay <= height'
      BY <1>3 DEF BatchFiled, NoneEarly
    <3>1. outbox[i] \in Entry
      BY DEF IInv, HistoryType
    <3>2. outbox[i].at \in Nat /\ outbox[i].at < clock
      BY <3>1 DEF Entry, IInv, BatchFiled
    <3>3. filed'[outbox[i].at + 1] = filed[outbox[i].at + 1]
      BY <2>2, <2>3, <3>2
    <3>4. outbox[i].at < clock'
      BY <2>1, <2>2, <3>2
    <3>5. filed[outbox[i].at + 1].heard => filed[outbox[i].at + 1].height + Delay <= height
      BY DEF IInv, NoneEarly
    <3> QED
      BY <1>1, <3>3, <3>4, <3>5
  <2>8. NoneConfirmed'
    BY <1>1, <1>3, <2>1 DEF IInv, NoneConfirmed, Confirmed
  <2> QED
    BY <1>2, <1>4, <2>4, <2>5, <2>6, <2>7, <2>8 DEF IInv
<1> QED
  BY <1>5, <1>6

(* A confirmation, or a rollback forwarded as one, in the block b that the *)
(* ledger is delivering: of a transaction that was not tracked again       *)
(* nothing stays queued, and what goes out has had its blocks.             *)
LEMMA ConfirmGives ==
    ASSUME IInv, NEW t \in Tx, NEW b \in Block, ConfirmTx(t, b), height <= b
    PROVE  /\ TableInv' /\ FiniteQueue'
           /\ outbox' \in Seq(Entry)
           /\ clock' = clock /\ currentBlock' = b
           /\ \A e \in queue' :
                /\ e \in queue
                /\ e.tx \notin retracked => e.tx # t /\ index'[e.tx] = index[e.tx]
           /\ \A i \in 1..Len(outbox') :
                /\ outbox'[i] \in queue
                /\ outbox'[i].tx \notin retracked => outbox'[i].tx # t
                /\ outbox'[i].until <= b
<1> DEFINE due == Due(Kept(t), b)
<1>1. /\ queue' = Kept(t) \ due
      /\ outbox' \in Batches(due)
      /\ clock' = clock
      /\ currentBlock' = IF currentBlock < b THEN b ELSE currentBlock
      /\ index' = [x \in Tx |-> IF x = t \/ (\E e \in due : e.tx = x) THEN NotIndexed ELSE index[x]]
  BY DEF ConfirmTx, Unindexed
<1>2. b \in Nat /\ height \in Nat /\ currentBlock \in Nat /\ currentBlock <= height
  BY TrackerAssumption DEF IInv, TableInv, TableType, HistoryType, InStep
<1>3. TableInv' /\ FiniteQueue'
  BY ConfirmKeeps, FiniteQueueKept DEF IInv, TrackerNext
<1>4. \A e \in Kept(t) : e \in queue /\ e \in Entry /\ e.tx \in Tx
  BY DEF Kept, IInv, TableInv, TableType, Entry
<1>5. \A e \in Kept(t) : e.tx \notin retracked => e.tx # t /\ index[e.tx] = e.until
  BY <1>4 DEF Kept, IInv, EntriesPending
<1>6. \A e \in due : e \in Kept(t) /\ e.until <= b
  BY DEF Due
<1>7. ASSUME NEW e \in queue', e.tx \notin retracked
      PROVE  index'[e.tx] = index[e.tx]
  <2>1. e \in Kept(t) /\ e \notin due /\ e.tx \in Tx /\ e.tx # t /\ index[e.tx] = e.until
    BY <1>1, <1>4, <1>5, <1>7
  <2>2. ASSUME NEW x \in due, x.tx = e.tx PROVE FALSE
    <3>1. x.until = e.until /\ currentBlock < b /\ x.until <= b
      BY <1>5, <1>6, <1>7, <2>1, <2>2 DEF Due
    <3>2. e \in due
      BY <2>1, <3>1 DEF Due
    <3> QED
      BY <2>1, <3>2
  <2> QED
    BY <1>1, <2>1, <2>2
<1>8. IsFiniteSet(due)
  <2>1. due \subseteq queue
    BY <1>4, <1>6
  <2> QED
    BY <2>1, FS_Subset DEF IInv, FiniteQueue
<1>9. due \subseteq Entry
  BY <1>4, <1>6
<1>10. \A e \in queue' : e \in Kept(t)
  BY <1>1
<1> HIDE DEF due
<1>11. /\ Cardinality(due) \in Nat /\ outbox' \in [1..Cardinality(due) -> due]
  BY <1>1, <1>8, FS_CardinalityType DEF Batches, SetToSeqs
<1>12. outbox' \in Seq(Entry) /\ \A i \in 1..Len(outbox') : outbox'[i] \in due
  BY <1>9, <1>11
<1>13. currentBlock' = b
  BY <1>1, <1>2
<1> QED
  BY <1>1, <1>3, <1>4, <1>5, <1>6, <1>7, <1>10, <1>12, <1>13

(* What a step of the ledger leaves queued and sends out, given what it    *)
(* does to the histories.                                                  *)
LEMMA ConfirmInv ==
    ASSUME IInv, NEW t \in Tx, NEW b \in Block, ConfirmTx(t, b), height <= b,
           height' = b, heard' = TRUE, UNCHANGED <<filed, retracked>>,
           confirmedAt' \in [Tx -> Block \cup {Never}],
           \A x \in Tx : x # t => confirmedAt'[x] = confirmedAt[x]
    PROVE  IInv'
<1>1. /\ TableInv' /\ FiniteQueue'
      /\ outbox' \in Seq(Entry)
      /\ clock' = clock /\ currentBlock' = b
  BY ConfirmGives
<1>2. \A e \in queue' :
        /\ e \in queue
        /\ e.tx \notin retracked => e.tx # t /\ index'[e.tx] = index[e.tx]
  BY ConfirmGives
<1>3. \A i \in 1..Len(outbox') :
        /\ outbox'[i] \in queue
        /\ outbox'[i].tx \notin retracked => outbox'[i].tx # t
        /\ outbox'[i].until <= b
  BY ConfirmGives
<1>4. b \in Nat /\ \A e \in queue : e.tx \in Tx /\ e.at \in Nat /\ e.until \in Nat
  BY TrackerAssumption DEF IInv, TableInv, TableType, Entry
<1>5. HistoryType'
  BY <1>1, <1>4 DEF IInv, HistoryType
<1>6. InStep'
  BY <1>1, <1>4 DEF InStep
<1>7. EntriesFiled'
  BY <1>1, <1>2 DEF IInv, EntriesFiled, Gave
<1>8. EntriesPending'
  BY <1>2, <1>4 DEF IInv, EntriesPending, Confirmed
<1>9. BatchFiled'
  BY <1>1, <1>3 DEF IInv, EntriesFiled, BatchFiled
<1>10. NoneConfirmed'
  BY <1>3, <1>4 DEF IInv, EntriesPending, NoneConfirmed, Confirmed
<1>11. NoneEarly'
  <2> SUFFICES ASSUME NEW i \in 1..Len(outbox'), filed[outbox'[i].at + 1].heard
               PROVE  filed[outbox'[i].at + 1].height + Delay <= b
    BY DEF NoneEarly
  <2>1. outbox'[i] \in queue /\ outbox'[i].until <= b
    BY <1>3
  <2>2. outbox'[i].until = filed[outbox'[i].at + 1].height + Delay
    BY <2>1 DEF IInv, EntriesFiled, Gave
  <2> QED
    BY <2>1, <2>2
<1> QED
  BY <1>1, <1>5, <1>6, <1>7, <1>8, <1>9, <1>10, <1>11 DEF IInv

LEMMA DeliverKeeps ==
    ASSUME IInv, NEW t \in Tx, NEW b \in Block, Deliver(t, b)
    PROVE  IInv'
<1>1. /\ ConfirmTx(t, b) /\ b \in {height, height + 1} /\ height' = b /\ heard' = TRUE
      /\ confirmedAt' = [confirmedAt EXCEPT ![t] = b]
      /\ UNCHANGED <<filed, retracked>>
  BY DEF Deliver
<1>2. height <= b /\ b \in Nat
  BY <1>1, TrackerAssumption DEF IInv, HistoryType
<1>3. confirmedAt' \in [Tx -> Block \cup {Never}] /\ \A x \in Tx : x # t => confirmedAt'[x] = confirmedAt[x]
  BY <1>1, <1>2 DEF IInv, HistoryType
<1> QED
  BY <1>1, <1>2, <1>3, ConfirmInv

LEMMA UndeliverKeeps ==
    ASSUME IInv, NEW t \in Tx, Undeliver(t)
    PROVE  IInv'
<1>0. height \in Block
  BY DEF Undeliver, IInv, HistoryType, Never
<1>1. /\ ConfirmTx(t, height) /\ height' = height /\ heard' = TRUE
      /\ confirmedAt' = [confirmedAt EXCEPT ![t] = Never]
      /\ UNCHANGED <<filed, retracked>>
  BY DEF Undeliver
<1>2. height <= height
  BY DEF IInv, HistoryType
<1>3. confirmedAt' \in [Tx -> Block \cup {Never}] /\ \A x \in Tx : x # t => confirmedAt'[x] = confirmedAt[x]
  BY <1>1 DEF IInv, HistoryType, Never
<1>4. /\ height' = height /\ heard' = TRUE /\ UNCHANGED <<filed, retracked>>
      /\ ConfirmTx(t, height)
  BY <1>1
<1> QED
  BY <1>0, <1>2, <1>3, <1>4, ConfirmInv

(* The rest of a batch is sent on.                                         *)
LEMMA DrainKeeps == ASSUME IInv, Drain PROVE IInv'
<1>1. UNCHANGED <<currentBlock, index, queue, recent, clock, height, heard, filed,
                  retracked, confirmedAt>>
  BY DEF Drain, SendFailed, TakeFailed
<1>2. outbox' = outbox \/ (outbox # <<>> /\ outbox' = Tail(outbox))
  BY DEF Drain, SendFailed, TakeFailed
<1>3. /\ outbox' \in Seq(Entry)
      /\ \A i \in 1..Len(outbox') : \E j \in 1..Len(outbox) : outbox'[i] = outbox[j]
  <2>1. outbox \in Seq(Entry)
    BY DEF IInv, HistoryType
  <2>2. CASE outbox' = outbox
    BY <2>1, <2>2
  <2>3. CASE outbox # <<>> /\ outbox' = Tail(outbox)
    <3>1. /\ outbox' \in Seq(Entry) /\ Len(outbox) \in Nat /\ Len(outbox') = Len(outbox) - 1
          /\ \A i \in 1..Len(outbox') : outbox'[i] = outbox[i + 1]
      BY <2>1, <2>3
    <3>2. \A i \in 1..Len(outbox') : i + 1 \in 1..Len(outbox)
      BY <3>1
    <3> QED
      BY <3>1, <3>2
  <2> QED
    BY <1>2, <2>2, <2>3
<1>4. TableInv' /\ FiniteQueue' /\ HistoryType' /\ InStep'
  BY <1>1, <1>3 DEF IInv, TableInv, TableType, IndexedIsQueued, NoneOverdue, FiniteQueue,
     HistoryType, InStep
<1>5. EntriesFiled' /\ EntriesPending'
  BY <1>1 DEF IInv, EntriesFiled, EntriesPending, Gave, Confirmed
<1>6. BatchFiled' /\ NoneConfirmed'
  BY <1>1, <1>3 DEF IInv, BatchFiled, NoneConfirmed, Confirmed
<1>7. NoneEarly'
  <2> SUFFICES ASSUME NEW i \in 1..Len(outbox'), filed[outbox'[i].at + 1].heard
               PROVE  filed[outbox'[i].at + 1].height + Delay <= height
    BY <1>1 DEF NoneEarly
  <2>1. PICK j \in 1..Len(outbox) : outbox'[i] = outbox[j]
    BY <1>3
  <2>2. filed[outbox[j].at + 1].heard
    BY <2>1
  <2>3. filed[outbox[j].at + 1].height + Delay <= height
    BY <2>2 DEF IInv, NoneEarly
  <2> QED
    BY <2>1, <2>3
<1> QED
  BY <1>4, <1>5, <1>6, <1>7 DEF IInv

LEMMA HistoryStep == IInv /\ [Next]_vars => IInv'
<1> SUFFICES ASSUME IInv, [Next]_vars PROVE IInv'
  OBVIOUS
<1>1. CASE UNCHANGED vars
  BY <1>1 DEF vars, trackerVars, IInv, TableInv, TableType, IndexedIsQueued, NoneOverdue,
     FiniteQueue, HistoryType, InStep, EntriesFiled, EntriesPending, Gave, Confirmed,
     BatchFiled, NoneConfirmed, NoneEarly
<1> QED
  BY <1>1, YieldKeeps, DeliverKeeps, UndeliverKeeps, DrainKeeps DEF Next

LEMMA HistoryInit == Init => IInv
<1> SUFFICES ASSUME Init PROVE IInv
  OBVIOUS
<1>1. TableInv /\ FiniteQueue
  BY InitTable, FS_EmptySet DEF Init, TrackerInit, FiniteQueue
<1>2. HistoryType
  BY TrackingAssumption DEF Init, TrackerInit, HistoryType, Never
<1>3. InStep
  <2>1. currentBlock = 0 /\ height = StartBlock /\ StartBlock \in Nat
    BY TrackingAssumption DEF Init, TrackerInit
  <2>2. heard => StartBlock = 0
    BY DEF Init
  <2> QED
    BY <2>1, <2>2 DEF InStep
<1>4. queue = {} /\ Len(outbox) = 0
  BY DEF Init, TrackerInit
<1>5. EntriesFiled /\ EntriesPending /\ BatchFiled /\ NoneConfirmed /\ NoneEarly
  BY <1>4 DEF EntriesFiled, EntriesPending, BatchFiled, NoneConfirmed, NoneEarly
<1> QED
  BY <1>1, <1>2, <1>3, <1>5 DEF IInv

(* What the tracker sends out as failed is not confirmed unless it was     *)
(* tracked again, and has had its blocks if the ledger had been heard of,  *)
(* for every delay, every starting point, filters of any size, and every   *)
(* order in which the mempool and the ledger speak.                        *)
THEOREM FailuresJustHolds == Spec => []FailuresJust
<1>1. IInv => FailuresJust
  BY DEF IInv, FailuresJust
<1> QED
  BY <1>1, HistoryInit, HistoryStep, PTL DEF Spec

-----------------------------------------------------------------------------
(* What is tracked again.                                                  *)

(* As long as there are no more transactions than the filters hold.        *)
Remembered ==
    /\ IsFiniteSet(Tx)
    /\ Cardinality(Tx) <= RecentCap
    /\ Cardinality(Tx) <= FilterCap + 1

(* What the two filters hold.                                              *)
Recents == {t \in Tx : IsRecent(t)}
Knowns == {t \in Tx : Known(t)}

Distinct(s) == \A i, j \in 1..Len(s) : i # j => s[i] # s[j]

FilterType ==
    /\ recent \in Seq(Tx) /\ Distinct(recent)
    /\ filter \in Seq(Tx) /\ Distinct(filter)

(* Whatever is queued was yielded, and whatever is confirmed was noted.    *)
RInv ==
    /\ FilterType
    /\ \A e \in queue : e.tx \in Knowns
    /\ \A t \in Tx : Confirmed(t) => t \in Recents
    /\ retracked = {}

(* A sequence without repetitions that misses one of finitely many values  *)
(* is shorter than their number.                                           *)
LEMMA ShortWithout ==
    ASSUME NEW S, IsFiniteSet(S), NEW s \in Seq(S), Distinct(s),
           NEW t \in S, ~ \E i \in 1..Len(s) : s[i] = t
    PROVE  Len(s) < Cardinality(S)
<1>1. s \in Injection(1..Len(s), S \ {t})
  BY DEF Injection, IsInjective, Distinct
<1>2. IsFiniteSet(S \ {t}) /\ Cardinality(S \ {t}) = Cardinality(S) - 1
  BY FS_RemoveElement
<1>3. Cardinality(1..Len(s)) <= Cardinality(S \ {t})
  BY <1>1, <1>2, FS_Injection
<1>4. Cardinality(1..Len(s)) = Len(s)
  <2>1. Len(s) \in Nat
    OBVIOUS
  <2> QED
    BY <2>1, FS_Interval
<1>5. Cardinality(S) \in Nat
  BY FS_CardinalityType
<1> QED
  BY <1>2, <1>3, <1>4, <1>5

(* CircularFilter::add forgets nothing while it has room.                  *)
LEMMA RecentGrows ==
    ASSUME Remembered, FilterType, NEW t \in Tx, recent' = AddRecent(t)
    PROVE  /\ recent' \in Seq(Tx)
           /\ Distinct(recent')
           /\ Recents' = Recents \cup {t}
<1>1. CASE IsRecent(t)
  <2>1. recent' = recent
    BY <1>1 DEF AddRecent
  <2> QED
    BY <1>1, <2>1 DEF Recents, IsRecent, FilterType
<1>2. CASE ~IsRecent(t)
  <2>1. Len(recent) < Cardinality(Tx)
    BY <1>2, ShortWithout DEF FilterType, Remembered, IsRecent
  <2>2. Cardinality(Tx) \in Nat
    BY FS_CardinalityType DEF Remembered
  <2>3. AddRecent(t) = Append(recent, t)
    BY <1>2, <2>1, <2>2, TrackerAssumption DEF AddRecent, Remembered, FilterType
  <2> DEFINE r == Append(recent, t)
  <2>4. /\ r \in Seq(Tx)
        /\ Len(r) = Len(recent) + 1
        /\ r[Len(recent) + 1] = t
        /\ \A i \in 1..Len(recent) : r[i] = recent[i]
    BY DEF FilterType
  <2>5. Len(recent) \in Nat
    BY DEF FilterType
  <2> HIDE DEF r
  <2>6. Distinct(r)
    <3> SUFFICES ASSUME NEW i \in 1..Len(r), NEW j \in 1..Len(r), i # j
                 PROVE  r[i] # r[j]
      BY DEF Distinct
    <3>1. CASE i \in 1..Len(recent) /\ j \in 1..Len(recent)
      BY <3>1, <2>4 DEF FilterType, Distinct
    <3>2. CASE i \in 1..Len(recent) /\ j = Len(recent) + 1
      BY <3>2, <1>2, <2>4 DEF IsRecent
    <3>3. CASE i = Len(recent) + 1 /\ j \in 1..Len(recent)
      BY <3>3, <1>2, <2>4 DEF IsRecent
    <3> QED
      BY <3>1, <3>2, <3>3, <2>4, <2>5
  <2>7. ASSUME NEW x \in Tx
        PROVE  (\E i \in 1..Len(r) : r[i] = x) <=> x = t \/ IsRecent(x)
    <3>1. CASE x = t
      BY <3>1, <2>4, <2>5
    <3>2. CASE x # t
      <4>1. ASSUME NEW i \in 1..Len(r), r[i] = x PROVE IsRecent(x)
        <5>1. i \in 1..Len(recent)
          BY <4>1, <3>2, <2>4, <2>5
        <5> QED
          BY <5>1, <4>1, <2>4 DEF IsRecent
      <4>2. ASSUME NEW i \in 1..Len(recent), recent[i] = x
            PROVE  \E j \in 1..Len(r) : r[j] = x
        <5>1. i \in 1..Len(r) /\ r[i] = x
          BY <4>2, <2>4, <2>5
        <5> QED
          BY <5>1
      <4> QED
        BY <3>2, <4>1, <4>2 DEF IsRecent
    <3> QED
      BY <3>1, <3>2
  <2>8. recent' = r
    BY <2>3 DEF r
  <2>9. Recents' = Recents \cup {t}
    BY <2>7, <2>8 DEF Recents, IsRecent
  <2> QED
    BY <2>4, <2>6, <2>8, <2>9
<1> QED
  BY <1>1, <1>2

(* TxFilter::register forgets nothing while it has room.                   *)
LEMMA KnownGrows ==
    ASSUME Remembered, FilterType, NEW t \in Tx, Register(t)
    PROVE  /\ filter' \in Seq(Tx)
           /\ Distinct(filter')
           /\ Knowns' = Knowns \cup {t}
           /\ t \notin Knowns
<1>1. Len(filter) < Cardinality(Tx)
  BY ShortWithout DEF FilterType, Remembered, Known, Register
<1>2. Cardinality(Tx) \in Nat
  BY FS_CardinalityType DEF Remembered
<1>3. filter' = <<t>> \o filter
  BY <1>1, <1>2, TrackingAssumption DEF Register, Remembered, FilterType
<1>4. Len(filter) \in Nat /\ filter \in Seq(Tx)
  BY DEF FilterType
<1>5. /\ filter' \in Seq(Tx)
      /\ Len(filter') = Len(filter) + 1
      /\ filter'[1] = t
      /\ \A i \in 1..Len(filter) : filter'[i + 1] = filter[i]
  BY <1>3, <1>4
<1>6. ASSUME NEW i \in 1..Len(filter'), i # 1
      PROVE  i - 1 \in 1..Len(filter) /\ filter'[i] = filter[i - 1]
  <2>1. i - 1 \in 1..Len(filter) /\ i = (i - 1) + 1
    BY <1>4, <1>5, <1>6
  <2> QED
    BY <2>1, <1>5
<1>7. Distinct(filter')
  <2> SUFFICES ASSUME NEW i \in 1..Len(filter'), NEW j \in 1..Len(filter'), i # j
               PROVE  filter'[i] # filter'[j]
    BY DEF Distinct
  <2>1. CASE i = 1
    BY <2>1, <1>5, <1>6 DEF Register, Known
  <2>2. CASE j = 1
    BY <2>2, <1>5, <1>6 DEF Register, Known
  <2>3. CASE i # 1 /\ j # 1
    <3>1. i - 1 # j - 1
      OBVIOUS
    <3> QED
      BY <3>1, <2>3, <1>6 DEF FilterType, Distinct
  <2> QED
    BY <2>1, <2>2, <2>3
<1>8. ASSUME NEW x \in Tx
      PROVE  (\E j \in 1..Len(filter') : filter'[j] = x) <=> x = t \/ Known(x)
  <2>1. ASSUME NEW i \in 1..Len(filter'), filter'[i] = x PROVE x = t \/ Known(x)
    BY <2>1, <1>5, <1>6 DEF Known
  <2>2. ASSUME NEW i \in 1..Len(filter), filter[i] = x
        PROVE  \E j \in 1..Len(filter') : filter'[j] = x
    <3>1. i + 1 \in 1..Len(filter') /\ filter'[i + 1] = x
      BY <2>2, <1>4, <1>5
    <3> QED
      BY <3>1
  <2>3. 1 \in 1..Len(filter')
    BY <1>4, <1>5
  <2> QED
    BY <2>1, <2>2, <2>3, <1>5 DEF Known
<1>9. Knowns' = Knowns \cup {t}
  BY <1>8 DEF Knowns, Known
<1> QED
  BY <1>5, <1>7, <1>9 DEF Knowns, Register

(* A confirmation adds to one filter and leaves the other alone.           *)
LEMMA NotedKeeps ==
    ASSUME Remembered, RInv, NEW t \in Tx, NEW b \in Block, ConfirmTx(t, b),
           UNCHANGED <<filter, retracked>>,
           \A x \in Tx : x # t => confirmedAt'[x] = confirmedAt[x]
    PROVE  RInv'
<1>1. recent' \in Seq(Tx) /\ Distinct(recent') /\ Recents' = Recents \cup {t}
  BY RecentGrows DEF RInv, ConfirmTx
<1>2. Knowns' = Knowns
  BY DEF Knowns, Known
<1>3. FilterType'
  BY <1>1 DEF RInv, FilterType, Distinct
<1>4. queue' \subseteq queue
  BY DEF ConfirmTx, Kept
<1> QED
  BY <1>1, <1>2, <1>3, <1>4 DEF RInv, Confirmed

LEMMA RememberedStep ==
    ASSUME Remembered, IInv, RInv, [Next]_vars
    PROVE  RInv'
<1>1. ASSUME NEW t \in Tx, Yield(t) PROVE RInv'
  <2>1. Register(t) /\ Track(t) /\ NoteTracked(t) /\ confirmedAt' = confirmedAt
    BY <1>1 DEF Yield
  <2>2. filter' \in Seq(Tx) /\ Distinct(filter') /\ Knowns' = Knowns \cup {t} /\ t \notin Knowns
    BY <2>1, KnownGrows DEF RInv
  <2>3. recent' = recent /\ Recents' = Recents
    BY <2>1 DEF Track, trackerVars, Recents, IsRecent
  <2>4. FilterType'
    BY <2>2, <2>3 DEF RInv, FilterType, Distinct
  <2>5. \A e \in queue' : e \in queue \/ e.tx = t
    BY <2>1 DEF Track, trackerVars
  <2>6. ~Queued(t)
    BY <2>2 DEF RInv, Queued
  <2>7. IsRecent(t) \/ ~Confirmed(t)
    BY DEF RInv, Recents
  <2>8. retracked' = {}
    BY <2>1, <2>6, <2>7 DEF RInv, NoteTracked
  <2> QED
    BY <2>1, <2>2, <2>3, <2>4, <2>5, <2>8 DEF RInv, Confirmed
<1>2. ASSUME NEW t \in Tx, NEW b \in Block, Deliver(t, b) PROVE RInv'
  <2>1. /\ ConfirmTx(t, b) /\ UNCHANGED <<filter, retracked>>
        /\ confirmedAt' = [confirmedAt EXCEPT ![t] = b]
    BY <1>2 DEF Deliver
  <2>2. \A x \in Tx : x # t => confirmedAt'[x] = confirmedAt[x]
    BY <2>1 DEF IInv, HistoryType
  <2> QED
    BY <2>1, <2>2, NotedKeeps
<1>3. ASSUME NEW t \in Tx, Undeliver(t) PROVE RInv'
  <2>0. confirmedAt[t] \in Block
    BY <1>3 DEF Undeliver, IInv, HistoryType, Never
  <2>1. /\ ConfirmTx(t, confirmedAt[t]) /\ UNCHANGED <<filter, retracked>>
        /\ confirmedAt' = [confirmedAt EXCEPT ![t] = Never]
    BY <1>3 DEF Undeliver
  <2>2. \A x \in Tx : x # t => confirmedAt'[x] = confirmedAt[x]
    BY <2>1 DEF IInv, HistoryType
  <2> QED
    BY <2>0, <2>1, <2>2, NotedKeeps
<1>4. CASE Drain \/ UNCHANGED vars
  <2>1. UNCHANGED <<queue, recent, filter, retracked, confirmedAt>>
    BY <1>4 DEF Drain, SendFailed, TakeFailed, vars, trackerVars
  <2> QED
    BY <2>1 DEF RInv, FilterType, Distinct, Recents, Knowns, IsRecent, Known, Confirmed
<1> QED
  BY <1>1, <1>2, <1>3, <1>4 DEF Next

(* Only what the filters forgot is tracked again: while they hold every    *)
(* transaction, the exception of FailuresJust does not occur.              *)
THEOREM NeverTrackedAgain == Remembered => (Spec => [](retracked = {}))
<1> SUFFICES ASSUME Remembered PROVE Spec => [](retracked = {})
  OBVIOUS
<1>1. Init => IInv /\ RInv
  <2> SUFFICES ASSUME Init PROVE RInv
    BY HistoryInit
  <2>1. FilterType
    BY DEF Init, TrackerInit, FilterType, Distinct
  <2> QED
    BY <2>1 DEF Init, TrackerInit, RInv, Confirmed
<1>2. IInv /\ RInv /\ [Next]_vars => IInv' /\ RInv'
  BY HistoryStep, RememberedStep
<1>3. RInv => retracked = {}
  BY DEF RInv
<1> QED
  BY <1>1, <1>2, <1>3, PTL DEF Spec
=============================================================================
