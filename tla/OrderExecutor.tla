--------------------------- MODULE OrderExecutor ---------------------------
(***************************************************************************)
(* HotOrderExecutor (spectrum-offchain/src/executor.rs): pops an order,    *)
(* resolves the pool it is for, runs one against the other and submits the *)
(* transaction, while pool_tracking_stream (box_resolver/process.rs) puts  *)
(* what is seen of the pool into the same repository.                      *)
(*                                                                         *)
(* The repository is locked for one read of the states, again for the walk *)
(* along the links, and once more from the submission until its result is  *)
(* stored; in between the tracking stream may run. There is one pool. The  *)
(* node is the environment: `chain` holds the states of the pool, oldest   *)
(* first, `settled` of them on the ledger and the rest in the mempool.     *)
(***************************************************************************)
EXTENDS PoolRepo, Sequences, SequencesExt

CONSTANTS
    Order,
    Kinds,           \* implementations of the repository
    MaxMishaps,      \* bound on trades and cancellations of others, rollbacks, drops,
                     \* crashes and wrong answers
    MaxLag           \* bound on the events the tracking stream is behind

ASSUME ExecutorAssumption == {MaxMishaps, MaxLag} \subseteq Nat /\ Kinds \subseteq {"memory", "rocks"}

VARIABLES
    chain, settled, nextVersion, mishaps,
    live,            \* order outputs unspent
    events,          \* for the tracking stream
    seen,            \* versions the mempool has shown
    tipReached,
    backlog, repo,
    exec,            \* where try_execute_next is
    disturbed        \* auxiliary: something else than our own trades happened

nodeVars == <<chain, settled, nextVersion, mishaps, live>>
feedVars == <<events, seen, tipReached>>
vars == <<nodeVars, feedVars, backlog, repo, exec, disturbed>>

Idle == [at |-> "idle"]

-----------------------------------------------------------------------------
(* The node, and the updates of the pool it gives rise to. A pool that is  *)
(* retired has no current state.                                           *)

StateAt(k) == IF k = 0 THEN Absent ELSE chain[k]

Current == StateAt(Len(chain))

Update(ch, dir, k) ==
    IF dir = "forward" THEN [ch |-> ch, dir |-> dir, old |-> StateAt(k - 1), new |-> StateAt(k)]
    ELSE [ch |-> ch, dir |-> dir, old |-> StateAt(k), new |-> StateAt(k - 1)]

Mishap == mishaps < MaxMishaps /\ mishaps' = mishaps + 1

Fault == Mishap /\ disturbed' = TRUE

Cancel(o) ==
    /\ Mishap
    /\ o \in live
    /\ live' = live \ {o}
    /\ UNCHANGED <<chain, settled, nextVersion, feedVars, backlog, repo, exec, disturbed>>

Rival ==
    /\ Fault
    /\ Current # Absent
    /\ \/ /\ nextVersion <= MaxVersion
          /\ chain' = Append(chain, nextVersion)
          /\ nextVersion' = nextVersion + 1
       \/ chain' = Append(chain, Absent) /\ UNCHANGED nextVersion
    /\ UNCHANGED <<settled, live, feedVars, backlog, repo, exec>>

Confirm ==
    /\ settled < Len(chain) /\ Len(events) < MaxLag
    /\ settled' = settled + 1
    /\ events' = Append(events, Update("ledger", "forward", settled + 1))
    /\ UNCHANGED <<chain, nextVersion, mishaps, live, seen, tipReached, backlog, repo, exec,
                   disturbed>>

(* The mempool shows a state before it is confirmed, or never.             *)
Show ==
    /\ Len(events) < MaxLag
    /\ \E k \in settled + 1..Len(chain) :
        /\ k \notin seen /\ \A j \in settled + 1..k - 1 : j \in seen
        /\ seen' = seen \cup {k}
        /\ events' = Append(events, Update("mempool", "forward", k))
    /\ UNCHANGED <<nodeVars, tipReached, backlog, repo, exec, disturbed>>

RollBack ==
    /\ Fault
    /\ settled > 0 /\ Len(events) < MaxLag
    /\ settled' = settled - 1
    /\ events' = Append(events, Update("ledger", "backward", settled))
    /\ UNCHANGED <<chain, nextVersion, live, seen, tipReached, backlog, repo, exec>>

Drop ==
    /\ Fault
    /\ settled < Len(chain) /\ Len(events) < MaxLag
    /\ chain' = Front(chain)
    /\ events' = IF Len(chain) \in seen THEN Append(events, Update("mempool", "backward", Len(chain)))
                 ELSE events
    /\ seen' = seen \ {Len(chain)}
    /\ UNCHANGED <<settled, nextVersion, live, tipReached, backlog, repo, exec>>

TipReached ==
    /\ ~tipReached /\ tipReached' = TRUE
    /\ UNCHANGED <<nodeVars, events, seen, backlog, repo, exec, disturbed>>

-----------------------------------------------------------------------------
(* pool_tracking_stream: the new state, whatever the direction; without    *)
(* one the pool is gone, or its first state is taken back.                 *)

Tracked(r, e) ==
    IF e.new # Absent THEN IF e.ch = "ledger" THEN PutConfirmed(r, e.new) ELSE PutUnconfirmed(r, e.new)
    ELSE IF e.dir = "forward" THEN Eliminate(r, e.old)
    ELSE Invalidate(r, e.old)

Locked == exec.at = "answer"

Track ==
    /\ ~Locked /\ events # <<>>
    /\ repo' = Tracked(repo, Head(events))
    /\ events' = Tail(events)
    /\ UNCHANGED <<nodeVars, seen, tipReached, backlog, exec, disturbed>>

-----------------------------------------------------------------------------
(* try_execute_next.                                                       *)

Pop ==
    /\ tipReached /\ exec = Idle
    /\ \E o \in backlog :
        /\ backlog' = backlog \ {o}
        /\ exec' = [at |-> "read", order |-> o]
    /\ UNCHANGED <<nodeVars, feedVars, repo, disturbed>>

RunAgainst(pool) ==
    IF pool = Absent THEN Idle ELSE [at |-> "run", order |-> exec.order, pool |-> pool]

(* Without a state of the pool the order is lost.                          *)
ReadStates ==
    /\ exec.at = "read"
    /\ LET s == States(repo)
       IN  exec' = IF NeedsLinks(s)
                   THEN [at |-> "link", order |-> exec.order, pred |-> s.pred, anchor |-> Anchor(s)]
                   ELSE RunAgainst(Resolved(s))
    /\ UNCHANGED <<nodeVars, feedVars, backlog, repo, disturbed>>

WalkLinks ==
    /\ exec.at = "link"
    /\ exec' = RunAgainst(IF IsLinking(repo, exec.pred, exec.anchor) THEN exec.pred ELSE exec.anchor)
    /\ UNCHANGED <<nodeVars, feedVars, backlog, repo, disturbed>>

(* An order that cannot be run is lost, whether the error is fatal or not. *)
RunFails ==
    /\ exec.at = "run"
    /\ exec' = Idle
    /\ UNCHANGED <<nodeVars, feedVars, backlog, repo, disturbed>>

(* The repository is locked from here. The node accepts what spends two    *)
(* unspent outputs; it may still turn it down for a reason of its own.     *)
Spent == {v \in {"pool"} : exec.pool # Current} \cup {o \in {"order"} : exec.order \notin live}

Submit ==
    /\ exec.at = "run"
    /\ exec' = [at |-> "answer", order |-> exec.order, pool |-> exec.pool,
                made |-> IF Spent = {} THEN nextVersion ELSE Absent, spent |-> Spent]
    /\ IF Spent = {}
       THEN /\ nextVersion <= MaxVersion
            /\ chain' = Append(chain, nextVersion)
            /\ nextVersion' = nextVersion + 1
            /\ live' = live \ {exec.order}
       ELSE UNCHANGED <<chain, nextVersion, live>>
    /\ UNCHANGED <<settled, mishaps, feedVars, backlog, repo, disturbed>>

SubmitRefused ==
    /\ exec.at = "run" /\ Spent = {}
    /\ Fault
    /\ exec' = [at |-> "answer", order |-> exec.order, pool |-> exec.pool, made |-> Absent,
                spent |-> {}]
    /\ UNCHANGED <<chain, settled, nextVersion, live, feedVars, backlog, repo>>

(* An answer that names neither input loses the order.                     *)
Answer ==
    /\ exec.at = "answer"
    /\ repo' = IF exec.made # Absent THEN PutPredicted(repo, exec.made, exec.pool)
               ELSE IF "pool" \in exec.spent THEN Invalidate(repo, exec.pool)
               ELSE repo
    /\ backlog' = IF exec.spent = {"pool"} THEN backlog \cup {exec.order} ELSE backlog
    /\ exec' = Idle
    /\ UNCHANGED <<nodeVars, feedVars, disturbed>>

(* A repository in memory is gone; one in RocksDB stays. Whoever fills the *)
(* backlog (the repository has no such agent) reads the unspent orders     *)
(* again.                                                                  *)
Crash ==
    /\ Fault
    /\ exec' = Idle /\ backlog' = live
    /\ repo' = IF repo.kind = "rocks" THEN repo ELSE EmptyRepo(repo.kind)
    /\ UNCHANGED <<chain, settled, nextVersion, live, feedVars>>

Executor == Pop \/ ReadStates \/ WalkLinks \/ RunFails \/ Submit \/ Answer

-----------------------------------------------------------------------------

Init ==
    /\ chain = <<1>> /\ settled = 1 /\ nextVersion = 2 /\ mishaps = 0
    /\ live = Order
    /\ events = <<[ch |-> "ledger", dir |-> "forward", old |-> Absent, new |-> 1]>>
    /\ seen = {} /\ tipReached = FALSE
    /\ backlog = Order
    /\ repo \in {EmptyRepo(k) : k \in Kinds}
    /\ exec = Idle
    /\ disturbed = FALSE

Next ==
    \/ \E o \in Order : Cancel(o)
    \/ Rival \/ Confirm \/ Show \/ RollBack \/ Drop \/ TipReached
    \/ Track \/ Executor \/ SubmitRefused \/ Crash

Spec == Init /\ [][Next]_vars

(* The executor stream and the tracking stream run, the node confirms.     *)
FairSpec == Spec /\ WF_vars(Executor) /\ WF_vars(Track) /\ WF_vars(Confirm)

-----------------------------------------------------------------------------
(* What predictions are for: as long as nobody else touches the pool and   *)
(* nothing fails, each transaction builds on the one before, however late  *)
(* the mempool and the ledger show them, and none is submitted against a   *)
(* state of the pool that is spent.                                        *)
OwnChainUnbroken ==
    ~disturbed /\ exec.at = "run" => exec.pool = Current

(* An order is not tried for ever against states that are gone: each       *)
(* refusal takes one away, down the links and past all that was seen.      *)
ExecutorRests == <>[](exec = Idle /\ (backlog = {} \/ ~tipReached))

(* resolve_entity_state is to "get latest state of an on-chain entity"     *)
(* (box_resolver.rs:13): once all is confirmed and all events are handled, *)
(* with no prediction in play, the stored state resolved is the pool's.    *)
LatestResolved ==
    events = <<>> /\ settled = Len(chain) /\ Current \in repo.store /\ repo.predicted = Absent =>
        LET s == States(repo)
        IN  Current = IF NeedsLinks(s) /\ ~IsLinking(repo, s.pred, Anchor(s)) THEN Anchor(s)
                      ELSE Resolved(s)

=============================================================================
