------------------------------ MODULE EventSink ------------------------------
(***************************************************************************)
(* The event sink of an agent (bloom-offchain-cardano/src/event_sink): the *)
(* handlers of funding boxes, of entities that evolve (orders and pools of *)
(* the liquidity book) and of special orders (deposits, redeems ...), each *)
(* with an index of the outputs it knows. Every transaction of the ledger  *)
(* and of the mempool passes the three in turn; the handlers tell the      *)
(* executor what changed and update their index.                           *)
(*                                                                         *)
(* The node is the environment. A version is an output: the entity it      *)
(* holds and the number of the transaction that made it. A transaction is  *)
(* a record of its number, the versions it spends and those it makes; one  *)
(* transaction makes a block. Every transaction also has an output no      *)
(* handler knows, so it is never skipped for want of outputs.              *)
(*                                                                         *)
(* One handler call is one step: in the code the two tasks may interleave  *)
(* between the lookup of the inputs and the update of the index.           *)
(***************************************************************************)
EXTENDS Naturals, Sequences, SequencesExt, FiniteSets

CONSTANTS
    Pool, Order, Special, Fund,   \* ids of the four kinds
    PoolOf,                       \* the pool a special order is for
    Genesis,                      \* ids on the ledger at start
    MaxForeign,                   \* bound on the transactions of others
    MaxFaults,                    \* bound on rollbacks, drops and wrong answers of the node
    MaxEvictions,                 \* bound on the evictions that remove something
    Patient,                      \* the eviction delay outlasts rollbacks
    Absent

ASSUME SinkAssumption ==
    /\ {MaxForeign, MaxFaults, MaxEvictions} \subseteq Nat
    /\ PoolOf \in [Special -> Pool]
    /\ Genesis \subseteq Pool \cup Order \cup Special \cup Fund
    /\ Pool \cap Order = {} /\ (Pool \cup Order) \cap Special = {}
    /\ (Pool \cup Order \cup Special) \cap Fund = {}

VARIABLES
    ledger, mempool,       \* the node's, in order
    nextTx,                \* number of the next transaction
    foreign, faults, evictions,   \* counters of the bounds
    ledgerFeed,            \* ledger events the sink has not handled
    droppedFeed,           \* transactions given up, not handled yet
    seen,                  \* transactions the mempool task has handled
    synced, rolling,       \* state_synced and rollback_in_progress
    indexes,               \* per handler, what it knows and what it will evict
    pairs,                 \* permanent_pairs: pools whose pair is known
    upstream, funding,     \* channels to the executor
    told                   \* auxiliary: transactions in effect, as far as handled

nodeVars == <<ledger, mempool, nextTx, foreign, faults>>
feedVars == <<ledgerFeed, droppedFeed, seen, synced, rolling>>
sinkVars == <<indexes, pairs, evictions, told>>
channels == <<upstream, funding>>
vars == <<nodeVars, feedVars, sinkVars, channels>>

Id == Pool \cup Order \cup Special \cup Fund
Evolving == Pool \cup Order
Version == [id : Id, tx : Nat]
Handlers == {"funding", "pair", "special"}
KnownBy(h) == IF h = "funding" THEN Fund ELSE IF h = "pair" THEN Evolving ELSE Special

Out(i) == [id |-> i, tx |-> nextTx]

-----------------------------------------------------------------------------
(* The node.                                                               *)

Unspent ==
    LET txs == Range(ledger \o mempool)
    IN  UNION {t.out : t \in txs} \ UNION {t.in : t \in txs}

Accept(in, out) ==
    /\ in \subseteq Unspent
    /\ mempool' = Append(mempool, [n |-> nextTx, in |-> in, out |-> out])
    /\ nextTx' = nextTx + 1
    /\ UNCHANGED <<ledger, faults>>

(* Transactions of others: an order or a pool is created, a pool is traded *)
(* with, an order is cancelled, another executor fills an order.           *)
Create ==
    \E i \in Id \ Fund :
        /\ \A t \in Range(ledger \o mempool) : \A v \in t.out : v.id # i
        /\ Accept({}, {Out(i)})

Trade == \E v \in Unspent : v.id \in Pool /\ Accept({v}, {Out(v.id)})

Cancel == \E v \in Unspent : v.id \in Order \cup Special /\ Accept({v}, {})

Rival ==
    \E v, p \in Unspent :
        /\ v.id \in Order /\ p.id \in Pool
        /\ \E left \in {{}, {Out(v.id)}} : Accept({v, p}, {Out(p.id)} \cup left)

Foreign ==
    /\ foreign < MaxForeign
    /\ Create \/ Trade \/ Cancel \/ Rival
    /\ foreign' = foreign + 1
    /\ UNCHANGED <<feedVars, sinkVars, channels>>

Confirm ==
    /\ mempool # <<>>
    /\ ledger' = Append(ledger, Head(mempool))
    /\ mempool' = Tail(mempool)
    /\ ledgerFeed' = Append(ledgerFeed, [dir |-> "forward", tx |-> Head(mempool)])
    /\ UNCHANGED <<nextTx, foreign, faults, droppedFeed, seen, synced, rolling, sinkVars, channels>>

RollBack ==
    /\ faults < MaxFaults /\ Len(ledger) > 1
    /\ faults' = faults + 1
    /\ ledger' = Front(ledger)
    /\ mempool' = <<Last(ledger)>> \o mempool
    /\ ledgerFeed' = Append(ledgerFeed, [dir |-> "backward", tx |-> Last(ledger)])
    /\ UNCHANGED <<nextTx, foreign, droppedFeed, seen, synced, rolling, sinkVars, channels>>

Drop ==
    /\ faults < MaxFaults /\ mempool # <<>>
    /\ faults' = faults + 1
    /\ mempool' = Front(mempool)
    /\ droppedFeed' = IF Last(mempool).n \in seen THEN Append(droppedFeed, Last(mempool))
                      ELSE droppedFeed
    /\ UNCHANGED <<ledger, nextTx, foreign, ledgerFeed, seen, synced, rolling, sinkVars, channels>>

-----------------------------------------------------------------------------
(* What a handler finds in a transaction: per entity, the version spent if *)
(* its index has it, and the version made.                                 *)

In(h, tx) == tx.in \cap indexes[h].store
Made(h, tx) == {v \in tx.out : v.id \in KnownBy(h)}

The(versions, i) == IF \E v \in versions : v.id = i THEN CHOOSE v \in versions : v.id = i ELSE Absent

Transitions(h, tx) ==
    {[old |-> The(In(h, tx), i), new |-> The(Made(h, tx), i)]
        : i \in {v.id : v \in In(h, tx) \cup Made(h, tx)}}

Inverted(tr) == [old |-> tr.new, new |-> tr.old]

Directed(dir, trs) == IF dir = "backward" THEN {Inverted(tr) : tr \in trs} ELSE trs

Olds(trs) == {tr.old : tr \in trs} \ {Absent}
News(trs) == {tr.new : tr \in trs} \ {Absent}

(* run_eviction drops the entries whose time has come; nothing relates the *)
(* delay to the pace of events, so any number of the oldest may be due.    *)
(* Then the index learns the transitions.                                  *)
Evicted(index, due) == index.store \ Range(SubSeq(index.queue, 1, due))

Indexed(index, trs, due) ==
    [store |-> Evicted(index, due) \cup News(trs),
     queue |-> SubSeq(index.queue, due + 1, Len(index.queue)) \o SetToSeq(Olds(trs))]

(* A handler that finds nothing in a transaction does not run eviction. A  *)
(* patient index has a delay that outlasts whatever the node undoes.       *)
Outlasted ==
    /\ faults = MaxFaults
    /\ droppedFeed = <<>>
    /\ \A e \in Range(ledgerFeed) : e.dir = "forward"

Due(h, trs) ==
    IF trs = {} \/ evictions >= MaxEvictions \/ (Patient /\ ~Outlasted) THEN {0}
    ELSE 0..Len(indexes[h].queue)

(* Special orders of a pool whose pair is not known are passed over.       *)
Routable(trs) == {tr \in trs : \A v \in Olds({tr}) \cup News({tr}) : PoolOf[v.id] \in pairs'}

Announced(ch, dir, trs) ==
    SetToSeq({[ch |-> ch, dir |-> dir, old |-> tr.old, new |-> tr.new] : tr \in trs})

(* try_handle of the three handlers in turn. Each indexes what it tells    *)
(* the executor, except that of the entities of a transaction given up:    *)
(* the executor hears of the inverse, the index learns the transition      *)
(* itself a second time.                                                   *)
IndexedOf(ch, dir, tx) ==
    IF ch = "mempool" THEN Transitions("pair", tx) ELSE Directed(dir, Transitions("pair", tx))

Handle(ch, dir, tx) ==
    /\ upstream = <<>> /\ funding = <<>>
    /\ \E funds \in {Directed(dir, Transitions("funding", tx))},
          entities \in {Directed(dir, Transitions("pair", tx))},
          learnt \in {IndexedOf(ch, dir, tx)},
          orders \in {Directed(dir, Transitions("special", tx))} :
       /\ pairs' = pairs \cup ({v.id : v \in News(learnt)} \cap Pool)
       /\ \E f \in Due("funding", funds), p \in Due("pair", entities), s \in Due("special", orders),
             routed \in {Routable(orders)} :
            /\ indexes' = [funding |-> Indexed(indexes.funding, funds, f),
                           pair |-> Indexed(indexes.pair, learnt, p),
                           special |-> Indexed(indexes.special, routed, s)]
            /\ evictions' = evictions + (IF f + p + s > 0 THEN 1 ELSE 0)
            /\ funding' = Announced(ch, dir, funds)
            /\ upstream' = Announced(ch, dir, entities)
                           \o Announced(ch, dir, routed)
    /\ told' = IF dir = "forward" THEN told \cup {tx} ELSE told \ {tx}

-----------------------------------------------------------------------------
(* The two tasks. The next event of the ledger; a rollback is announced    *)
(* before it is handled.                                                   *)

LedgerEvent ==
    /\ ledgerFeed # <<>>
    /\ Head(ledgerFeed).dir = "backward" => rolling
    /\ Handle("ledger", Head(ledgerFeed).dir, Head(ledgerFeed).tx)
    /\ ledgerFeed' = Tail(ledgerFeed)
    /\ rolling' = FALSE
    /\ UNCHANGED <<nodeVars, droppedFeed, seen, synced>>

RollbackStarts ==
    /\ ledgerFeed # <<>> /\ Head(ledgerFeed).dir = "backward" /\ ~rolling
    /\ rolling' = TRUE
    /\ UNCHANGED <<nodeVars, ledgerFeed, droppedFeed, seen, synced, sinkVars, channels>>

Synced ==
    /\ ~synced /\ ledgerFeed = <<>>
    /\ synced' = TRUE
    /\ UNCHANGED <<nodeVars, ledgerFeed, droppedFeed, seen, rolling, sinkVars, channels>>

(* The oldest transaction of the mempool that was not seen yet: one that   *)
(* is confirmed before it is seen never is.                                *)
MempoolAccepted ==
    /\ synced
    /\ LET unseen == SelectSeq(mempool, LAMBDA t : t.n \notin seen)
       IN  /\ unseen # <<>>
           /\ Handle("mempool", "forward", Head(unseen))
           /\ seen' = seen \cup {Head(unseen).n}
    /\ UNCHANGED <<nodeVars, ledgerFeed, droppedFeed, synced, rolling>>

MempoolDropped ==
    /\ droppedFeed # <<>>
    /\ Handle("mempool", "backward", Head(droppedFeed))
    /\ droppedFeed' = Tail(droppedFeed)
    /\ UNCHANGED <<nodeVars, ledgerFeed, seen, synced, rolling>>

Sink == LedgerEvent \/ RollbackStarts \/ Synced \/ MempoolAccepted \/ MempoolDropped

Node == Foreign \/ Confirm \/ RollBack \/ Drop

SinkInit ==
    LET genesis == [n |-> 0, in |-> {}, out |-> {[id |-> i, tx |-> 0] : i \in Genesis}]
    IN  /\ ledger = <<genesis>> /\ mempool = <<>>
        /\ nextTx = 1 /\ foreign = 0 /\ faults = 0 /\ evictions = 0
        /\ ledgerFeed = <<[dir |-> "forward", tx |-> genesis]>>
        /\ droppedFeed = <<>> /\ seen = {}
        /\ synced = FALSE /\ rolling = FALSE
        /\ indexes = [h \in Handlers |-> [store |-> {}, queue |-> <<>>]]
        /\ pairs = {} /\ told = {}
        /\ upstream = <<>> /\ funding = <<>>

(* A consumer that takes whatever the sink tells.                          *)
Consume ==
    /\ <<upstream, funding>> # <<<<>>, <<>>>>
    /\ upstream' = <<>> /\ funding' = <<>>
    /\ UNCHANGED <<nodeVars, feedVars, sinkVars>>

SinkSpec == SinkInit /\ [][Sink \/ Node \/ Consume]_vars

-----------------------------------------------------------------------------
(* PairUpdateHandler keeps an "index of all non-consumed states"           *)
(* (handler.rs:340): what nobody has spent, neither at the node nor as far *)
(* as the handler was told, is in its index once it was told of it.        *)
IndexHoldsUnspent ==
    LET unspent == UNION {t.out : t \in told} \ UNION {t.in : t \in told}
    IN  {v \in unspent \cap Unspent : v.id \in Evolving} \subseteq indexes["pair"].store

=============================================================================
