----------------------------- MODULE IndexWriters -----------------------------
(***************************************************************************)
(* apply and unapply of src/index.rs at the grain of the RocksDB           *)
(* transaction.  The ledger task and the mempool task call the index       *)
(* concurrently.  A transaction handles one reference after the other:     *)
(* it reads the txo row (get_cf takes no lock), then writes the row and    *)
(* its index keys, which waits for the lock of another transaction that    *)
(* wrote them; nothing is visible before commit.  A wait that times out    *)
(* is unwrapped, and the panic hook of src/main.rs ends the process.       *)
(*                                                                         *)
(* UtxoIndex is the abstract specification: with one writer every commit   *)
(* is one of its Apply or Unapply steps.                                   *)
(***************************************************************************)
EXTENDS UtxoIndex, Sequences

CONSTANTS
    Writer,     \* the tasks that write
    SlotsOf,    \* the settled_at a writer applies with
    InSeq,      \* the inputs of a transaction in its order
    OutSeq,     \* its outputs in order
    MaxJobs,    \* bound on the calls of a writer
    NoJob,      \* the task is between two calls
    Unread,     \* the row is still to be read
    Deleted     \* no event is written for a deleted row

ASSUME WriterAssumption ==
    /\ SlotsOf \in [Writer -> SUBSET SlotOpt]
    /\ InSeq \in [Tx -> Seq(Ref)]
    /\ OutSeq \in [Tx -> Seq(Ref)]
    /\ \A t \in Tx : /\ TxIn[t] = {InSeq[t][i] : i \in 1..Len(InSeq[t])}
                     /\ TxOut[t] = {OutSeq[t][i] : i \in 1..Len(OutSeq[t])}
    /\ MaxJobs \in Nat

(* The inputs of a transaction are a set, and so are its outputs.          *)
Distinct(s) == \A i, j \in 1..Len(s) : s[i] = s[j] => i = j

ASSUME DistinctAssumption == \A t \in Tx : Distinct(InSeq[t]) /\ Distinct(OutSeq[t])

VARIABLES
    job,        \* per writer, the call it executes or NoJob
    todo,       \* the references it has still to handle
    seen,       \* what it has read of the first of them, or Unread
    batch,      \* its uncommitted writes
    jobs,       \* number of calls started
    exited,     \* the process has ended on a lock timeout
    spends      \* history: references spent by a committed call and not restored

wvars == <<job, todo, seen, batch, jobs, exited, spends>>
allVars == <<vars, wvars>>

Job == [op : {"apply", "unapply"}, tx : Tx, slot : SlotOpt]

ASSUME MarkerAssumption ==
    NoJob \notin Job /\ Unread \notin Txo \cup {Absent} /\ Deleted \notin SlotOpt

(* One reference of a batch: the row read, the row written and the slot    *)
(* its event is filed under (Deleted: no event is written).                *)
Write == [ref : Ref, old : Txo \cup {Absent}, new : Txo \cup {Absent},
          at : SlotOpt \cup {Deleted}]

WritersInit ==
    /\ Init
    /\ job = [w \in Writer |-> NoJob]
    /\ todo = [w \in Writer |-> <<>>]
    /\ seen = [w \in Writer |-> Unread]
    /\ batch = [w \in Writer |-> {}]
    /\ jobs = [w \in Writer |-> 0]
    /\ exited = FALSE
    /\ spends = {}

Start(w, j) ==
    /\ ~exited
    /\ job[w] = NoJob
    /\ jobs[w] < MaxJobs
    /\ job' = [job EXCEPT ![w] = j]
    /\ jobs' = [jobs EXCEPT ![w] = @ + 1]
    /\ todo' = [todo EXCEPT ![w] = InSeq[j.tx] \o OutSeq[j.tx]]
    /\ UNCHANGED <<vars, seen, batch, exited, spends>>

Read(w) ==
    /\ ~exited
    /\ todo[w] # <<>>
    /\ seen[w] = Unread
    /\ seen' = [seen EXCEPT ![w] = txo[Head(todo[w])]]
    /\ UNCHANGED <<vars, job, todo, batch, jobs, exited, spends>>

Refs(w) == {e.ref : e \in batch[w]}
Locked(w, r) == \E v \in Writer \ {w} : r \in Refs(v)

IsInput(w, r) == r \in TxIn[job[w].tx]

(* What update_txo_by_ref, update_unspent_txo and delete_txo_and_indexes   *)
(* write for a reference they read as old.                                 *)
Filed(r, old, new, at) == [ref |-> r, old |-> old, new |-> new, at |-> at]
\* Faulty variants: a confirmed output is written unspent whatever was
\* read; a restored input is filed under the call's slot; it stays spent.
WrittenUnspent(w, r, old) ==
    LET s == job[w].slot
    IN  IF job[w].op = "apply"
        THEN IF IsInput(w, r) THEN Filed(r, old, [old EXCEPT !.spent = TRUE], s)
             ELSE Filed(r, old, Stored(s, FALSE), s)
        ELSE IF IsInput(w, r) THEN Filed(r, old, [old EXCEPT !.spent = FALSE], old.settled)
             ELSE Filed(r, old, Absent, Deleted)

WrittenNow(w, r, old) ==
    LET s == job[w].slot
    IN  IF job[w].op = "apply"
        THEN IF IsInput(w, r) THEN Filed(r, old, [old EXCEPT !.spent = TRUE], s)
             ELSE Filed(r, old, Stored(s, old # Absent /\ old.spent), s)
        ELSE IF IsInput(w, r) THEN Filed(r, old, [old EXCEPT !.spent = FALSE], s)
             ELSE Filed(r, old, Absent, Deleted)

WrittenSpent(w, r, old) ==
    LET s == job[w].slot
    IN  IF job[w].op = "apply"
        THEN IF IsInput(w, r) THEN Filed(r, old, [old EXCEPT !.spent = TRUE], s)
             ELSE Filed(r, old, Stored(s, old # Absent /\ old.spent), s)
        ELSE IF IsInput(w, r) THEN Filed(r, old, old, old.settled)
             ELSE Filed(r, old, Absent, Deleted)

Written(w, r, old) ==
    LET s == job[w].slot
    IN  IF job[w].op = "apply"
        THEN IF IsInput(w, r) THEN Filed(r, old, [old EXCEPT !.spent = TRUE], s)
             ELSE Filed(r, old, Stored(s, old # Absent /\ old.spent), s)
        ELSE IF IsInput(w, r) THEN Filed(r, old, [old EXCEPT !.spent = FALSE], old.settled)
             ELSE Filed(r, old, Absent, Deleted)

Skips(w, r) == seen[w] = Absent /\ (IsInput(w, r) \/ job[w].op = "unapply")

Advance(w) ==
    /\ todo' = [todo EXCEPT ![w] = Tail(@)]
    /\ seen' = [seen EXCEPT ![w] = Unread]
    /\ UNCHANGED <<vars, job, jobs, exited, spends>>

Skip(w) ==
    /\ ~exited /\ todo[w] # <<>> /\ seen[w] # Unread
    /\ Skips(w, Head(todo[w]))
    /\ batch' = batch
    /\ Advance(w)

Put(w) ==
    /\ ~exited /\ todo[w] # <<>> /\ seen[w] # Unread
    /\ LET r == Head(todo[w])
       IN  /\ ~Skips(w, r)
           /\ ~Locked(w, r)
           /\ batch' = [batch EXCEPT ![w] = @ \cup {Written(w, r, seen[w])}]
    /\ Advance(w)

(* The lock is still held when the wait ends: put_cf fails.                *)
\* Faulty variant: a put waits for a lock without a timeout.
LockForever(w) == FALSE
LockTimeout(w) ==
    /\ ~exited /\ todo[w] # <<>> /\ seen[w] # Unread
    /\ ~Skips(w, Head(todo[w]))
    /\ Locked(w, Head(todo[w]))
    /\ exited' = TRUE
    /\ UNCHANGED <<vars, job, todo, seen, batch, jobs, spends>>

Commit(w) ==
    LET rows == batch[w]
        old == {e \in rows : e.old # Absent}
        kept == {e.ref : e \in {x \in rows : x.new # Absent /\ ~x.new.spent}}
        dead(e) == {x \in Scope \X Key \X {e.ref} : /\ x[1] \in ScopesOf[e.ref]
                                                    /\ x[2] = SlotKey(e.old.settled)}
        row(r) == CHOOSE e \in rows : e.ref = r
    IN  /\ ~exited
        /\ job[w] # NoJob
        /\ todo[w] = <<>>
        /\ txo' = [r \in Ref |-> IF r \in Refs(w) THEN row(r).new ELSE txo[r]]
        /\ events' = (events \ UNION {dead(e) : e \in old})
                       \cup UNION {EventRows({e.ref}, e.at) : e \in {x \in rows : x.at # Deleted}}
        /\ unspent' = (unspent \ ScopeRows({e.ref : e \in old})) \cup ScopeRows(kept)
        /\ units' = (units \ UnitRows({e.ref : e \in old})) \cup UnitRows(kept)
        /\ sentinel' = sentinel \ UnitsIn(kept)
        /\ spends' = IF job[w].op = "apply"
                     THEN spends \cup (TxIn[job[w].tx] \cap Refs(w))
                     ELSE spends \ (TxIn[job[w].tx] \cup TxOut[job[w].tx])
        /\ job' = [job EXCEPT ![w] = NoJob]
        /\ batch' = [batch EXCEPT ![w] = {}]
        /\ UNCHANGED <<query, todo, seen, jobs, exited>>

Calls(w) ==
    [op : {"apply"}, tx : Tx, slot : SlotsOf[w]] \cup [op : {"unapply"}, tx : Tx, slot : {None}]

UnitQuery ==
    /\ ~exited
    /\ \/ \E q \in Reader, u \in Unit : EnsureCheck(q, u)
       \/ \E q \in Reader : EnsureScan(q) \/ EnsureCommit(q) \/ Answer(q)
    /\ UNCHANGED wvars

WritersNext ==
    \/ \E w \in Writer : \E j \in Calls(w) : Start(w, j)
    \/ \E w \in Writer : Read(w) \/ Skip(w) \/ Put(w) \/ LockTimeout(w) \/ Commit(w)
    \/ UnitQuery

WritersSpec == WritersInit /\ [][WritersNext]_allVars

(* The scheduler runs the tasks and the blocking pool.                     *)
FairWriters ==
    WritersSpec /\ \A w \in Writer :
        WF_allVars(Read(w) \/ Skip(w) \/ Put(w) \/ LockTimeout(w) \/ Commit(w))

-----------------------------------------------------------------------------
(* Every commit of a lone writer is an atomic step of UtxoIndex.           *)
AtomicSpec == Spec

(* Whatever two writers overwrite of each other's rows, the tables agree   *)
(* in every committed state: a call that writes a txo row writes the       *)
(* unspent and event rows that go with it in the same batch.               *)
TablesAgree == UnspentExact /\ EventAtSettlement /\ EventReachable /\ UnitCover

(* The test confirmation_preserves_pending_spend_state: an output that a   *)
(* transaction spends stays spent when its own transaction is confirmed.   *)
SpendSurvives == \A r \in spends \cap Live : txo[r].spent

(* A call that has begun comes to its commit, or the process ends: two     *)
(* writers that wait for each other do not wait forever.                   *)
CallsEnd == \A w \in Writer : job[w] # NoJob ~> (job[w] = NoJob \/ exited)
=============================================================================
