------------------------------- MODULE Engine -------------------------------
(***************************************************************************)
(* The executor of one pair (bloom-offchain/src/execution_engine/mod.rs)   *)
(* behind the event sink: it mirrors the orders and pools it hears of in   *)
(* an index of states (StateIndex), keeps the liquidity book and the       *)
(* backlog of special orders in step with it, makes transactions of them   *)
(* and learns from the node's answer.                                      *)
(*                                                                         *)
(* Of the book this module keeps the versions it was given: `takers`, and  *)
(* the version of each maker. What it matches is left open (LiquidityBook  *)
(* says how); a proposal that comes to nothing is rolled back. The stream  *)
(* of transactions is polled again only when the answer to the last one is *)
(* in, so nothing is handled while one is pending.                         *)
(***************************************************************************)
EXTENDS EventSink

INSTANCE StateIndex

CONSTANTS
    FeeTakers,      \* orders that pay a fee per execution: it is in their key
    FilterSize,     \* size of a circular filter: 256 of either
    Capacity,       \* of the backlog
    MaxOwn,         \* bound on the transactions the node accepts from us
    BoxUses,        \* what a batch may do with the funding box it is given
    None            \* no transaction pending

ASSUME EngineAssumption ==
    /\ FeeTakers \subseteq Order
    /\ {FilterSize, Capacity, MaxOwn} \subseteq Nat
    /\ FilterSize > 0
    /\ BoxUses \subseteq {"replaced", "added", "unused"}

VARIABLES
    state,              \* index: per evolving entity, its record
    takers, makers,     \* the settled liquidity book
    backlog,            \* special orders, and those softly evicted
    fundingPool,
    skip,               \* skip_filter: its buffer and its members
    focus,              \* the pair is in the focus set
    pending,            \* pending_effects
    spentByUs           \* auxiliary: orders our accepted transactions spent

engineVars == <<state, takers, makers, backlog, fundingPool, skip, focus, pending, spentByUs>>
allVars == <<vars, engineVars>>

-----------------------------------------------------------------------------
(* CircularFilter. Removal leaves the element in the buffer.               *)

Add(filter, v) ==
    IF v \in filter.members THEN filter
    ELSE IF Len(filter.buffer) < FilterSize
         THEN [buffer |-> Append(filter.buffer, v), members |-> filter.members \cup {v}]
         ELSE [buffer |-> Append(Tail(filter.buffer), v),
               members |-> (filter.members \cup {v}) \ {Head(filter.buffer)}]

NoneSeen == [buffer |-> <<>>, members |-> {}]

AddAll(filter, versions) ==
    LET list == SetToSeq(versions)
        added[n \in 0..Len(list)] == IF n = 0 THEN filter ELSE Add(added[n - 1], list[n])
    IN  added[Len(list)]

TakeOff(filter, v) == [filter EXCEPT !.members = @ \ {v}]

(* update_state. The state of a version in the skip filter is remembered   *)
(* without telling the book. A rollback takes a version off the filter.    *)
SlotOf(ch) == IF ch = "ledger" THEN "confirmed" ELSE IF ch = "mempool" THEN "unconfirmed" ELSE "predicted"

\* Mutant: the filter is not asked.
NeverSkipped(e) == FALSE

Skipped(e) == e.new \in skip.members /\ e.dir = "forward"

WithNew(s, e) ==
    IF Skipped(e) THEN Put(s, IF e.ch = "ledger" THEN "confirmed" ELSE "fallback", e.new)
    ELSE Put(IF e.dir = "backward" /\ e.old # Absent THEN Invalidate(s, e.old, e.old.id \in Pool) ELSE s,
             SlotOf(e.ch), e.new)

Updated(s, e) ==
    IF e.new # Absent THEN WithNew(s, e)
    ELSE IF e.ch = "ledger" \/ e.old.id \notin Pool THEN Eliminate(s)
    ELSE s

Change(from, to) == IF from = Absent /\ to = Absent THEN {} ELSE {[from |-> from, to |-> to]}

Told(s, after, e) ==
    IF e.new = Absent THEN {[from |-> e.old, to |-> Absent]}
    ELSE IF Skipped(e) THEN {}
    ELSE Change(Resolve(s), Resolve(after))

(* sync_book. Entries of the book compare by price, fee and id, so a taker *)
(* is found by another version of it unless the fee has changed.           *)
SameKey(v, w) == v.id = w.id /\ (v.id \in FeeTakers => v = w)

Without(ts, gone) == {t \in ts : \A v \in gone : ~SameKey(t, v)}

With(ts, new) == UNION {os \cup {v \in new : \A t \in os : ~SameKey(t, v)} : os \in {ts}}

Ends(changes, side) == {c[side] : c \in changes} \ {Absent}

Takers(versions) == {v \in versions : v.id \in Order}

SyncBook(ts, ms, changes) ==
    \E from \in {Ends(changes, "from")}, to \in {Ends(changes, "to")} :
       /\ takers' = With(Without(ts, Takers(from)), Takers(to))
       /\ makers' = [p \in Pool |-> IF The(to, p) # Absent \/ The(from, p) # Absent THEN The(to, p)
                                     ELSE ms[p]]

-----------------------------------------------------------------------------
(* HotPriorityBacklog. Orders softly evicted are not taken in again while  *)
(* the filter remembers them.                                              *)

PutOrder(b, v) ==
    IF Cardinality(b.store) < Capacity /\ v \notin b.store \cup b.softEvicted.members
    THEN [store |-> b.store \cup {v}, softEvicted |-> b.softEvicted]
    ELSE b

SoftEvict(b, v) == [store |-> b.store, softEvicted |-> Add(b.softEvicted, v)]

RemoveOrder(b, v) == [store |-> b.store \ {v}, softEvicted |-> TakeOff(b.softEvicted, v)]

SyncedBacklog(e) ==
    IF e.new # Absent THEN IF e.new \in skip.members THEN backlog ELSE PutOrder(backlog, e.new)
    ELSE IF e.ch = "ledger" THEN RemoveOrder(backlog, e.old)
    ELSE SoftEvict(backlog, e.old)

-----------------------------------------------------------------------------
(* Events of the sink, taken before anything else.                         *)

IdOf(e) == IF e.new # Absent THEN e.new.id ELSE e.old.id

OnEntity(e) ==
    /\ \E i \in {IdOf(e)} :
       \E after \in {Updated(state[i], e)} :
          /\ state' = [state EXCEPT ![i] = after]
          /\ SyncBook(takers, makers, Told(state[i], after, e))
    /\ skip' = IF e.dir = "backward" THEN TakeOff(skip, e.new) ELSE skip
    /\ UNCHANGED backlog

OnSpecial(e) ==
    /\ backlog' = SyncedBacklog(e)
    /\ UNCHANGED <<state, takers, makers, skip>>

OnPairEvent ==
    /\ pending = None /\ upstream # <<>>
    /\ LET e == Head(upstream)
       IN  /\ IF IdOf(e) \in Special THEN OnSpecial(e) ELSE OnEntity(e)
           /\ spentByUs' = {v \in spentByUs : e.dir = "forward" \/ v.id # IdOf(e)}
    /\ upstream' = Tail(upstream)
    /\ focus' = TRUE
    /\ UNCHANGED <<nodeVars, feedVars, sinkVars, funding, fundingPool, pending>>

OnFundingEvent ==
    /\ pending = None /\ upstream = <<>> /\ funding # <<>>
    /\ LET e == Head(funding)
       IN  fundingPool' = (fundingPool \ {e.old}) \cup ({e.new} \ {Absent})
    /\ funding' = Tail(funding)
    /\ UNCHANGED <<nodeVars, feedVars, sinkVars, upstream, state, takers, makers, backlog, skip,
                   focus, pending, spentByUs>>

-----------------------------------------------------------------------------
(* Matchmaking. The book proposes a batch of takers, at most one of them   *)
(* filled in part, and makers; each is linked to the state the index       *)
(* resolves to, whatever version the book matched.                         *)

Ready ==
    /\ pending = None /\ upstream = <<>> /\ funding = <<>>
    /\ synced /\ ~rolling
    /\ focus

Quoted == {makers[p] : p \in Pool} \ {Absent}

Proposals == {m \in SUBSET (takers \cup Quoted) : Cardinality(m) > 1 /\ Takers(m) # {}}

Linked(m) == {Resolve(state[v.id]) : v \in m}

Orphans(m) == {v \in m : Resolve(state[v.id]) = Absent}

(* Past the bound on accepted transactions only those are tried that the   *)
(* node would turn down.                                                   *)
Tried(inputs) == nextTx - 1 - foreign < MaxOwn \/ ~(inputs \subseteq Unspent)

(* FundingIO: the batch replaces the box, adds one, or leaves it unused.   *)
TradeBook ==
    \E m \in Proposals :
       /\ Orphans(m) = {} /\ Tried(Linked(m))
       /\ \E box \in fundingPool, io \in BoxUses,
             left \in {{}} \cup {{v.id} : v \in Takers(m)} :
            /\ pending' = [kind |-> "book", matched |-> m, consumed |-> Linked(m), left |-> left,
                           fund |-> IF io = "replaced" THEN {box} ELSE {},
                           made |-> IF io = "unused" THEN {} ELSE {box.id}]
            /\ fundingPool' = IF io = "replaced" THEN fundingPool \ {box} ELSE fundingPool
       /\ focus' = TRUE
       /\ UNCHANGED <<takers, makers, backlog>>

(* No proposal, or no funding box for it, or one that cannot be linked.    *)
BookYieldsNothing ==
    \/ UNCHANGED <<takers, makers>>
    \/ \E m \in Proposals :
         /\ Orphans(m) # {}
         /\ SyncBook(takers, makers, {[from |-> v, to |-> Absent] : v \in Orphans(m)})

(* An order popped without a pool to run it against is lost.               *)
TryBacklog ==
    /\ IF backlog.store = {} THEN focus' = FALSE /\ UNCHANGED <<pending, backlog>>
       ELSE \E v \in backlog.store :
              /\ backlog' = [store |-> backlog.store \ {v}, softEvicted |-> backlog.softEvicted]
              /\ LET pool == Resolve(state[PoolOf[v.id]])
                 IN  \/ /\ pool # Absent
                        /\ Tried({pool, v})
                        /\ pending' = [kind |-> "special", matched |-> {v}, consumed |-> {pool, v},
                                       left |-> {}, fund |-> {}, made |-> {}]
                        /\ focus' = TRUE
                     \/ focus' = FALSE /\ UNCHANGED pending
    /\ UNCHANGED fundingPool

Attempt ==
    /\ Ready
    /\ TradeBook \/ (BookYieldsNothing /\ TryBacklog)
    /\ UNCHANGED <<vars, state, skip, spentByUs>>

-----------------------------------------------------------------------------
(* The node's answer.                                                      *)

(* The special order of a transaction made for it.                        *)
TheOrder == CHOOSE v \in pending.matched : TRUE

Inputs == pending.consumed \cup pending.fund
Missing == Inputs \ Unspent

(* Made with a state of the book that is not the one linked: no validator  *)
(* accepts it.                                                             *)
Stale == pending.kind = "book" /\ pending.matched # pending.consumed

Successor(v) == IF v.id \in Pool \cup pending.left THEN Out(v.id) ELSE Absent

Local(old, new) == [ch |-> "local", dir |-> "forward", old |-> old, new |-> new]

(* The settled book is what the attempt made of it.                        *)
Committed(ts) == With(ts \ pending.matched, {Out(i) : i \in pending.left})

Applied(effects) ==
    [i \in Evolving |-> IF \E e \in effects : e.old.id = i
                       THEN Updated(state[i], CHOOSE e \in effects : e.old.id = i)
                       ELSE state[i]]

OnBookSuccess ==
    \E effects \in {{Local(v, Successor(v)) : v \in pending.consumed}} :
    \E after \in {Applied(effects)} :
       /\ state' = after
       /\ SyncBook(Committed(takers), makers,
                   UNION {Told(state[e.old.id], after[e.old.id], e) : e \in effects})
       /\ skip' = AddAll(skip, pending.consumed)

(* The state of the pool changes without word to the book.                 *)
OnBacklogSuccess ==
    LET pool == CHOOSE v \in pending.consumed : v.id \in Pool
    IN  /\ state' = [state EXCEPT ![pool.id] = Updated(@, Local(Absent, Out(pool.id)))]
        /\ skip' = AddAll(skip, pending.matched)
        /\ UNCHANGED <<takers, makers>>

Accepted ==
    /\ pending # None
    /\ Missing = {} /\ ~Stale
    /\ Accept(Inputs, {Out(v.id) : v \in {w \in pending.consumed : Successor(w) # Absent}}
                      \cup {Out(i) : i \in pending.made})
    /\ IF pending.kind = "book" THEN OnBookSuccess ELSE OnBacklogSuccess
    /\ fundingPool' = fundingPool \cup {Out(i) : i \in pending.made}
    /\ spentByUs' = spentByUs \cup {v \in pending.consumed : v.id \notin Pool}
    /\ pending' = None
    /\ UNCHANGED <<foreign, feedVars, sinkVars, channels, backlog, focus>>

(* invalidate_versions.                                                    *)
\* Mutant: what is missing stays.
NoneInvalidated(gone) == state

Invalidated(gone) ==
    [i \in Evolving |->
       IF \E v \in gone : v.id = i THEN Invalidate(state[i], The(gone, i), i \in Pool) ELSE state[i]]

ChangesBy(gone, after) ==
    UNION {Change(Resolve(state[v.id]), Resolve(after[v.id])) : v \in gone}

Rejected ==
    /\ pending # None
    /\ \E missing \in {Missing} :
       /\ missing # {}
       /\ \E gone \in {{v \in missing \cap pending.consumed : v.id \in Evolving}} :
          \E after \in {Invalidated(gone)} :
            /\ state' = after
            /\ SyncBook(takers, makers, ChangesBy(gone, after))
            /\ spentByUs' = {v \in spentByUs : \A w \in gone : v.id # w.id}
       /\ backlog' = IF pending.kind = "book" THEN backlog
                     ELSE IF pending.matched \subseteq missing THEN SoftEvict(backlog, TheOrder)
                     ELSE PutOrder(backlog, TheOrder)
       /\ fundingPool' = fundingPool \cup (pending.fund \ missing)
    /\ pending' = None
    /\ UNCHANGED <<vars, skip, focus>>

(* An error that names no input: the orders of the batch are taken for     *)
(* poisonous.                                                              *)
Refused ==
    /\ pending # None
    /\ Missing = {}
    /\ \/ Stale /\ UNCHANGED vars
       \/ /\ ~Stale /\ faults < MaxFaults
          /\ faults' = faults + 1
          /\ UNCHANGED <<ledger, mempool, nextTx, foreign, feedVars, sinkVars, channels>>
    /\ IF pending.kind = "book"
       THEN takers' = Without(takers, Takers(pending.matched)) /\ UNCHANGED backlog
       ELSE backlog' = PutOrder(backlog, TheOrder) /\ UNCHANGED takers
    /\ fundingPool' = fundingPool \cup pending.fund
    /\ pending' = None
    /\ UNCHANGED <<state, makers, skip, focus, spentByUs>>

Executor == OnPairEvent \/ OnFundingEvent \/ Attempt \/ Accepted \/ Rejected \/ Refused

-----------------------------------------------------------------------------

Init ==
    /\ SinkInit
    /\ state = [i \in Evolving |-> Unknown]
    /\ takers = {} /\ makers = [p \in Pool |-> Absent]
    /\ backlog = [store |-> {}, softEvicted |-> NoneSeen]
    /\ fundingPool = {}
    /\ skip = NoneSeen
    /\ focus = FALSE /\ pending = None
    /\ spentByUs = {}

Next == ((Sink \/ Node) /\ UNCHANGED engineVars) \/ Executor

Spec == Init /\ [][Next]_allVars

(* The node confirms; the ledger task and the mempool task of the sink and *)
(* the executor run.                                                       *)
LedgerTask == LedgerEvent \/ RollbackStarts \/ Synced
MempoolTask == MempoolAccepted \/ MempoolDropped

FairSpec ==
    /\ Spec
    /\ WF_allVars(Confirm /\ UNCHANGED engineVars)
    /\ WF_allVars(LedgerTask /\ UNCHANGED engineVars)
    /\ WF_allVars(MempoolTask /\ UNCHANGED engineVars)
    /\ WF_allVars(Executor)

-----------------------------------------------------------------------------
(* The index keeps the states its slots are bound to and no other, and the *)
(* states of a batch under way are in it: the executor panics when a       *)
(* version it consumed is gone at the answer.                              *)
IndexSound ==
    /\ \A i \in Evolving : Tight(state[i])
    /\ pending # None =>
         \A v \in pending.consumed : v.id \in Evolving => v \in state[v.id].store

(* What the skip filter is for: an order one of our accepted transactions  *)
(* spent is not offered again by the book or the backlog, until a rollback *)
(* brings it back or a later state of it turns out to be gone. One hole is *)
(* left: the fallback, which resolve_state prefers to a newer confirmed    *)
(* state (LatestResolved). What came in through it stays when a newer      *)
(* fallback is noted, of which the book is not told.                       *)
Offered == takers \cup backlog.store

OwnSpendsStick ==
    [][\A v \in (Offered \cap spentByUs)' :
          \/ v \in Offered \cap spentByUs
          \/ v.id \in Order /\ state'[v.id].slots["fallback"] = v]_allVars

(* Answers that name missing inputs teach the executor: it does not submit *)
(* for ever, but comes to rest when nothing happens any more.              *)
EventuallyQuiet == <>[](pending = None /\ upstream = <<>> /\ funding = <<>>)

(* resolve_state is to "get latest state of an on-chain entity"            *)
(* (resolver.rs:7): it never answers with a version older than the one     *)
(* seen confirmed last.                                                    *)
LatestResolved ==
    \A i \in Evolving : LET seenLast == state[i].slots["confirmed"]
                       IN  seenLast # Absent => Resolve(state[i]).tx >= seenLast.tx

=============================================================================
