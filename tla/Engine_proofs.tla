--------------------------- MODULE Engine_proofs ---------------------------
(***************************************************************************)
(* Spec => []IndexSound: the index of the executor keeps the states its    *)
(* slots are bound to and no other, and what a transaction under way       *)
(* consumes is in it when the answer comes, so that the executor never     *)
(* meets the version it must invalidate missing.                           *)
(*                                                                         *)
(* IndexSound is not inductive: that the batch just made is in the index   *)
(* follows because a version is kept under its own entity, because the     *)
(* book holds orders and pools only, and the backlog special orders only.  *)
(*                                                                         *)
(* Spec /\ []Roomy => OwnSpendsStick: as long as the filter of our own     *)
(* versions has not been filled, what our transactions have spent is not   *)
(* offered again. The invariant says that all of it is in the filter, and  *)
(* that the index takes none of it for predicted, nor for unconfirmed      *)
(* where no prediction hides it (OwnInv).                                  *)
(***************************************************************************)
EXTENDS Engine, FiniteSetTheorems, WellFoundedInduction, TLAPS

(* A record of the index of entity i, as far as its shape matters.         *)
RecordOf(e, i) ==
    /\ DOMAIN e.slots = Slots
    /\ Tight(e)
    /\ \A v \in e.store : v.id = i

BookOf(ts, ms) ==
    /\ \A v \in ts : v.id \in Order
    /\ \A p \in Pool : ms[p] = Absent \/ ms[p].id = p

BacklogOf(b) == \A v \in b.store : v.id \in Special

(* A batch of the book leaves orders behind, one of the backlog is made    *)
(* for one special order.                                                  *)
PendingOf(b) ==
    b # None =>
      /\ b.left \subseteq Order
      /\ b.kind = "book" \/ \E v : v.id \in Special /\ b.matched = {v}
      /\ \A v \in b.consumed : v.id \in Evolving => v \in state[v.id].store

IndexInv ==
    /\ DOMAIN state = Evolving
    /\ \A i \in Evolving : RecordOf(state[i], i)
    /\ BookOf(takers, makers)
    /\ BacklogOf(backlog)
    /\ PendingOf(pending)

-----------------------------------------------------------------------------
(* The four operations on a record.                                        *)

(* An entity nothing is known of has a record.                             *)
LEMMA UnknownIsRecord == ASSUME NEW i PROVE RecordOf(Unknown, i)
  BY DEF RecordOf, Unknown, Tight

(* put leaves a record: what leaves the slot leaves the store unless       *)
(* another slot is bound to it.                                            *)
LEMMA PutKeepsRecord ==
  ASSUME NEW e, NEW i, RecordOf(e, i), NEW slot \in Slots, NEW v, v # Absent, v.id = i
  PROVE  RecordOf(Put(e, slot, v), i)
<1> DEFINE f == Put(e, slot, v)
           old == {w \in {e.slots[slot]} : \A s \in Slots \ {slot} : e.slots[s] # w}
<1>1. f.slots = [e.slots EXCEPT ![slot] = v] /\ f.store = (e.store \ old) \cup {v}
  BY DEF Put
<1>2. DOMAIN f.slots = Slots
  BY <1>1 DEF RecordOf
<1>3. f.slots[slot] = v /\ \A s \in Slots \ {slot} : f.slots[s] = e.slots[s]
  BY <1>1 DEF RecordOf
<1>4. e.store = {e.slots[s] : s \in Slots} \ {Absent}
  BY DEF RecordOf, Tight
<1>5. f.store \subseteq {f.slots[s] : s \in Slots} \ {Absent}
  <2> SUFFICES ASSUME NEW w \in f.store, w # v
               PROVE  w # Absent /\ \E s \in Slots : f.slots[s] = w
    BY <1>3
  <2>1. w \in e.store /\ w \notin old
    BY <1>1
  <2>2. PICK s \in Slots : e.slots[s] = w
    BY <2>1, <1>4
  <2>3. PICK t \in Slots \ {slot} : e.slots[t] = w
    BY <2>1, <2>2
  <2> QED
    BY <2>1, <2>3, <1>3, <1>4
<1>6. {f.slots[s] : s \in Slots} \ {Absent} \subseteq f.store
  <2> SUFFICES ASSUME NEW s \in Slots, f.slots[s] # Absent, s # slot
               PROVE  f.slots[s] \in f.store
    BY <1>1, <1>3
  <2>1. f.slots[s] = e.slots[s] /\ e.slots[s] \in e.store
    BY <1>3, <1>4
  <2>2. e.slots[s] \notin old
    OBVIOUS
  <2> QED
    BY <2>1, <2>2, <1>1
<1>7. \A w \in f.store : w.id = i
  BY <1>1 DEF RecordOf
<1> QED
  BY <1>2, <1>5, <1>6, <1>7 DEF RecordOf, Tight

(* invalidate_version leaves a record, whether or not the confirmed state  *)
(* stays.                                                                  *)
LEMMA InvalidateKeepsRecord ==
  ASSUME NEW e, NEW i, RecordOf(e, i), NEW v, NEW permanent \in BOOLEAN
  PROVE  RecordOf(Invalidate(e, v, permanent), i)
<1>1. CASE v \notin e.store
  BY <1>1 DEF Invalidate
<1>2. CASE v \in e.store
  <2> DEFINE f == Invalidate(e, v, permanent)
             kept == permanent /\ e.slots["confirmed"] = v
  <2>1. /\ f.slots = [s \in Slots |-> IF e.slots[s] = v /\ ~(kept /\ s = "confirmed") THEN Absent
                                      ELSE e.slots[s]]
        /\ f.store = IF kept THEN e.store ELSE e.store \ {v}
    BY <1>2 DEF Invalidate
  <2>2. e.store = {e.slots[s] : s \in Slots} \ {Absent}
    BY DEF RecordOf, Tight
  <2>3. "confirmed" \in Slots
    BY DEF Slots
  <2>4. v # Absent
    BY <1>2, <2>2
  <2> HIDE DEF f
  <2>5. f.store = {f.slots[s] : s \in Slots} \ {Absent}
    <3>1. CASE kept
      <4>1. f.store = e.store /\ f.slots["confirmed"] = v
        BY <3>1, <2>1, <2>3
      <4>2. \A s \in Slots : f.slots[s] # Absent => f.slots[s] = e.slots[s]
        BY <2>1
      <4>3. \A s \in Slots : e.slots[s] # v => f.slots[s] = e.slots[s]
        BY <2>1
      <4> QED
        BY <4>1, <4>2, <4>3, <2>2, <2>3
    <3>2. CASE ~kept
      <4>1. f.store = e.store \ {v}
        BY <3>2, <2>1
      <4>2. \A s \in Slots : f.slots[s] = IF e.slots[s] = v THEN Absent ELSE e.slots[s]
        BY <3>2, <2>1
      <4> QED
        BY <4>1, <4>2, <2>2, <2>4
    <3> QED
      BY <3>1, <3>2
  <2>6. f.store \subseteq e.store /\ DOMAIN f.slots = Slots
    BY <2>1
  <2>7. RecordOf(f, i)
    BY <2>5, <2>6 DEF RecordOf, Tight
  <2> QED
    BY <2>7 DEF f
<1> QED
  BY <1>1, <1>2

(* eliminate leaves nothing.                                               *)
LEMMA EliminateKeepsRecord ==
  ASSUME NEW e, NEW i, RecordOf(e, i)
  PROVE  RecordOf(Eliminate(e), i)
<1> DEFINE f == Eliminate(e)
<1>1. f.slots = [s \in Slots |-> Absent] /\ f.store = e.store \ {e.slots[s] : s \in Slots}
  BY DEF Eliminate
<1>2. f.store = {}
  BY <1>1 DEF RecordOf, Tight
<1>3. {f.slots[s] : s \in Slots} \ {Absent} = {}
  BY <1>1
<1> QED
  BY <1>1, <1>2, <1>3 DEF RecordOf, Tight

(* resolve_state answers with a state of the store.                        *)
LEMMA ResolveInStore ==
  ASSUME NEW e, Resolve(e) # Absent
  PROVE  Resolve(e) \in e.store
  BY DEF Resolve, LastIn

(* update_state leaves a record of the entity the event is about.          *)
LEMMA UpdatedKeepsRecord ==
  ASSUME NEW r, NEW i, RecordOf(r, i), NEW e, e.new # Absent => e.new.id = i
  PROVE  RecordOf(Updated(r, e), i)
<1>1. CASE e.new # Absent
  <2>1. CASE Skipped(e)
    <3> DEFINE slot == IF e.ch = "ledger" THEN "confirmed" ELSE "fallback"
    <3>1. slot \in Slots
      BY DEF Slots
    <3>2. Updated(r, e) = Put(r, slot, e.new)
      BY <1>1, <2>1 DEF Updated, WithNew
    <3> HIDE DEF slot
    <3>3. RecordOf(Put(r, slot, e.new), i)
      BY <1>1, <3>1, PutKeepsRecord
    <3> QED
      BY <3>2, <3>3
  <2>2. CASE ~Skipped(e)
    <3> DEFINE base == IF e.dir = "backward" /\ e.old # Absent
                       THEN Invalidate(r, e.old, e.old.id \in Pool) ELSE r
    <3>0. (e.old.id \in Pool) \in BOOLEAN
      OBVIOUS
    <3>1. RecordOf(Invalidate(r, e.old, e.old.id \in Pool), i)
      BY <3>0, InvalidateKeepsRecord
    <3>2. RecordOf(base, i)
      BY <3>1
    <3>3. SlotOf(e.ch) \in Slots
      BY DEF SlotOf, Slots
    <3>4. Updated(r, e) = Put(base, SlotOf(e.ch), e.new)
      BY <1>1, <2>2 DEF Updated, WithNew
    <3> HIDE DEF base
    <3>5. RecordOf(Put(base, SlotOf(e.ch), e.new), i)
      BY <1>1, <3>2, <3>3, PutKeepsRecord
    <3> QED
      BY <3>4, <3>5
  <2> QED
    BY <2>1, <2>2
<1>2. CASE e.new = Absent
  <2>1. Updated(r, e) = Eliminate(r) \/ Updated(r, e) = r
    BY <1>2 DEF Updated
  <2> QED
    BY <2>1, EliminateKeepsRecord
<1> QED
  BY <1>1, <1>2

(* sync_book leaves orders among the takers and pools among the makers.    *)
LEMMA SyncBookKeeps ==
  ASSUME NEW ts, NEW ms, NEW changes, BookOf(ts, ms), SyncBook(ts, ms, changes)
  PROVE  BookOf(takers', makers')
<1>1. PICK from \in {Ends(changes, "from")} : \E to \in {Ends(changes, "to")} :
         /\ takers' = With(Without(ts, Takers(from)), Takers(to))
         /\ makers' = [p \in Pool |-> IF The(to, p) # Absent \/ The(from, p) # Absent THEN The(to, p)
                                      ELSE ms[p]]
  BY DEF SyncBook
<1>2. PICK to \in {Ends(changes, "to")} :
         /\ takers' = With(Without(ts, Takers(from)), Takers(to))
         /\ makers' = [p \in Pool |-> IF The(to, p) # Absent \/ The(from, p) # Absent THEN The(to, p)
                                      ELSE ms[p]]
  BY <1>1
<1>3. takers' \subseteq ts \cup Takers(to)
  BY <1>2 DEF With, Without
<1>4. \A v \in takers' : v.id \in Order
  BY <1>3 DEF BookOf, Takers
<1>5. \A p \in Pool : The(to, p) = Absent \/ The(to, p).id = p
  BY DEF The
<1>6. \A p \in Pool : makers'[p] = The(to, p) \/ makers'[p] = ms[p]
  BY <1>2
<1> QED
  BY <1>4, <1>5, <1>6 DEF BookOf

-----------------------------------------------------------------------------
(* The steps.                                                              *)

(* An event of an order or a pool changes the record of its entity; one of *)
(* a special order changes the backlog.                                    *)
LEMMA OnPairEventKeeps == ASSUME IndexInv, OnPairEvent PROVE IndexInv'
<1> DEFINE e == Head(upstream)
<1>1. pending = None /\ pending' = pending
  BY DEF OnPairEvent
<1>2. PendingOf(pending)'
  BY <1>1 DEF PendingOf
<1>3. CASE IdOf(e) \in Special
  <2>1. OnSpecial(e)
    BY <1>3 DEF OnPairEvent
  <2>2. state' = state /\ takers' = takers /\ makers' = makers
    BY <2>1 DEF OnSpecial
  <2>3. e.new # Absent => e.new.id \in Special
    BY <1>3 DEF IdOf
  <2>4. \A v \in SyncedBacklog(e).store : v \in backlog.store \/ (e.new # Absent /\ v = e.new)
    BY DEF SyncedBacklog, PutOrder, RemoveOrder, SoftEvict
  <2>5. BacklogOf(backlog')
    BY <2>1, <2>3, <2>4 DEF OnSpecial, BacklogOf, IndexInv
  <2> QED
    BY <1>2, <2>2, <2>5 DEF IndexInv, BacklogOf
<1>4. CASE IdOf(e) \notin Special
  <2> DEFINE i == IdOf(e)
  <2>1. OnEntity(e)
    BY <1>4 DEF OnPairEvent
  <2>2. /\ state' = [state EXCEPT ![i] = Updated(state[i], e)]
        /\ SyncBook(takers, makers, Told(state[i], Updated(state[i], e), e))
        /\ backlog' = backlog
    BY <2>1 DEF OnEntity
  <2>3. e.new # Absent => e.new.id = i
    BY DEF IdOf
  <2> HIDE DEF i
  <2>4. DOMAIN state' = Evolving
    BY <2>2 DEF IndexInv
  <2>5. ASSUME NEW j \in Evolving PROVE RecordOf(state'[j], j)
    <3>1. CASE j = i
      <4>1. state'[j] = Updated(state[j], e)
        BY <3>1, <2>2 DEF IndexInv
      <4>2. RecordOf(state[j], j) /\ (e.new # Absent => e.new.id = j)
        BY <3>1, <2>3 DEF IndexInv
      <4>3. RecordOf(Updated(state[j], e), j)
        BY <4>2, UpdatedKeepsRecord
      <4> QED
        BY <4>1, <4>3
    <3>2. CASE j # i
      BY <3>2, <2>2 DEF IndexInv
    <3> QED
      BY <3>1, <3>2
  <2>6. BookOf(takers', makers')
    BY <2>2, SyncBookKeeps DEF IndexInv
  <2> QED
    BY <1>2, <2>2, <2>4, <2>5, <2>6 DEF IndexInv, BacklogOf, BookOf, RecordOf, Tight
<1> QED
  BY <1>3, <1>4

(* A batch of the book consumes what its orders and makers resolve to, one *)
(* of the backlog a pool and a special order; both are in the index.       *)
LEMMA AttemptKeeps == ASSUME IndexInv, Attempt PROVE IndexInv'
<1>1. state' = state
  BY DEF Attempt
<1>2. ASSUME NEW i \in Evolving, Resolve(state[i]) # Absent
      PROVE  Resolve(state[i]).id = i /\ Resolve(state[i]) \in state[i].store
  <2>1. Resolve(state[i]) \in state[i].store
    BY <1>2, ResolveInStore
  <2> QED
    BY <2>1 DEF IndexInv, RecordOf
<1>3. CASE TradeBook
  <2>1. PICK m \in Proposals :
          /\ Orphans(m) = {}
          /\ \E box \in fundingPool, io \in BoxUses, left \in {{}} \cup {{v.id} : v \in Takers(m)} :
               pending' = [kind |-> "book", matched |-> m, consumed |-> Linked(m), left |-> left,
                           fund |-> IF io = "replaced" THEN {box} ELSE {},
                           made |-> IF io = "unused" THEN {} ELSE {box.id}]
    BY <1>3 DEF TradeBook
  <2>2. PICK left \in {{}} \cup {{v.id} : v \in Takers(m)} :
          pending'.kind = "book" /\ pending'.consumed = Linked(m) /\ pending'.left = left
    BY <2>1
  <2>3. left \subseteq Order
    BY <2>2 DEF Takers
  <2>4. \A v \in m : v.id \in Evolving
    BY DEF Proposals, Quoted, IndexInv, BookOf, Evolving
  <2>5. ASSUME NEW v \in Linked(m) PROVE v \in state[v.id].store
    <3>1. PICK w \in m : v = Resolve(state[w.id])
      BY DEF Linked
    <3>2. v # Absent
      BY <2>1, <3>1 DEF Orphans
    <3>3. w.id \in Evolving
      BY <2>4
    <3>4. v.id = w.id /\ v \in state[w.id].store
      BY <1>2, <3>1, <3>2, <3>3
    <3> QED
      BY <3>4
  <2>6. PendingOf(pending)'
    BY <1>1, <2>2, <2>3, <2>5 DEF PendingOf
  <2>7. takers' = takers /\ makers' = makers /\ backlog' = backlog
    BY <1>3 DEF TradeBook
  <2> QED
    BY <1>1, <2>6, <2>7 DEF IndexInv, BacklogOf, BookOf, RecordOf, Tight
<1>4. CASE BookYieldsNothing /\ TryBacklog
  <2>1. BookOf(takers', makers')
    <3>1. BookOf(takers, makers)
      BY DEF IndexInv
    <3>2. CASE UNCHANGED <<takers, makers>>
      BY <3>1, <3>2
    <3>3. CASE \E m \in Proposals :
                  SyncBook(takers, makers, {[from |-> v, to |-> Absent] : v \in Orphans(m)})
      <4>1. PICK m \in Proposals :
               SyncBook(takers, makers, {[from |-> v, to |-> Absent] : v \in Orphans(m)})
        BY <3>3
      <4> QED
        BY <3>1, <4>1, SyncBookKeeps
    <3> QED
      BY <1>4, <3>2, <3>3 DEF BookYieldsNothing
  <2>2. pending = None
    BY DEF Attempt, Ready
  <2>3. CASE backlog.store = {}
    <3>1. pending' = pending /\ backlog' = backlog
      BY <1>4, <2>3 DEF TryBacklog
    <3> QED
      BY <1>1, <2>1, <2>2, <3>1 DEF IndexInv, BacklogOf, PendingOf, BookOf, RecordOf, Tight
  <2>4. CASE backlog.store # {}
    <3>1. PICK v \in backlog.store :
            /\ backlog' = [store |-> backlog.store \ {v}, softEvicted |-> backlog.softEvicted]
            /\ LET pool == Resolve(state[PoolOf[v.id]])
               IN  \/ /\ pool # Absent
                      /\ pending' = [kind |-> "special", matched |-> {v}, consumed |-> {pool, v},
                                     left |-> {}, fund |-> {}, made |-> {}]
                   \/ UNCHANGED pending
      BY <1>4, <2>4 DEF TryBacklog
    <3> DEFINE pool == Resolve(state[PoolOf[v.id]])
    <3>2. v.id \in Special /\ v.id \notin Evolving
      BY SinkAssumption DEF IndexInv, BacklogOf, Evolving
    <3>3. PoolOf[v.id] \in Evolving
      BY <3>2, SinkAssumption DEF Evolving
    <3>4. pool # Absent => pool.id = PoolOf[v.id] /\ pool \in state[PoolOf[v.id]].store
      BY <1>2, <3>3
    <3> HIDE DEF pool
    <3>5. ASSUME pool # Absent,
                 pending' = [kind |-> "special", matched |-> {v}, consumed |-> {pool, v},
                             left |-> {}, fund |-> {}, made |-> {}]
          PROVE  PendingOf(pending)'
      BY <3>2, <3>4, <3>5, <1>1 DEF PendingOf
    <3>6. ASSUME pending' = pending PROVE PendingOf(pending)'
      BY <3>6, <2>2 DEF PendingOf
    <3>7. PendingOf(pending)'
      BY <3>1, <3>5, <3>6 DEF pool
    <3>8. BacklogOf(backlog')
      BY <3>1 DEF BacklogOf, IndexInv
    <3> QED
      BY <1>1, <2>1, <3>7, <3>8 DEF IndexInv, BacklogOf, BookOf, RecordOf, Tight
  <2> QED
    BY <2>3, <2>4
<1> QED
  BY <1>3, <1>4 DEF Attempt

(* A transaction the node accepts is applied to the index and to the book. *)
LEMMA AcceptedKeeps == ASSUME IndexInv, Accepted PROVE IndexInv'
<1>1. pending' = None /\ backlog' = backlog /\ pending # None
  BY DEF Accepted
<1>2. PendingOf(pending)' /\ BacklogOf(backlog')
  BY <1>1 DEF PendingOf, IndexInv, BacklogOf
<1>3. \A i : Out(i).id = i
  BY DEF Out
<1>4. CASE pending.kind = "book"
  <2>1. OnBookSuccess
    BY <1>4 DEF Accepted
  <2> DEFINE effects == {Local(v, Successor(v)) : v \in pending.consumed}
             after == Applied(effects)
  <2>2. /\ state' = after
        /\ SyncBook(Committed(takers), makers,
                    UNION {Told(state[e.old.id], after[e.old.id], e) : e \in effects})
    BY <2>1, Zenon DEF OnBookSuccess
  <2>3. ASSUME NEW e \in effects PROVE e.new # Absent => e.new.id = e.old.id
    BY <1>3 DEF Local, Successor
  <2>4. ASSUME NEW i \in Evolving PROVE RecordOf(after[i], i)
    <3>1. RecordOf(state[i], i)
      BY DEF IndexInv
    <3>2. CASE \E e \in effects : e.old.id = i
      <4> DEFINE e == CHOOSE x \in effects : x.old.id = i
      <4>1. e \in effects /\ e.old.id = i
        BY <3>2
      <4>2. after[i] = Updated(state[i], e)
        BY <3>2 DEF Applied
      <4> HIDE DEF e, effects, after
      <4>3. e.new # Absent => e.new.id = i
        BY <4>1, <2>3
      <4>4. RecordOf(Updated(state[i], e), i)
        BY <3>1, <4>3, UpdatedKeepsRecord
      <4> QED
        BY <4>2, <4>4
    <3>3. CASE ~\E e \in effects : e.old.id = i
      BY <3>1, <3>3 DEF Applied
    <3> QED
      BY <3>2, <3>3
  <2>5. DOMAIN after = Evolving
    BY DEF Applied
  <2>6. BookOf(Committed(takers), makers)
    <3>1. pending.left \subseteq Order
      BY <1>1 DEF IndexInv, PendingOf
    <3>2. Committed(takers) \subseteq takers \cup {Out(i) : i \in pending.left}
      BY DEF Committed, With
    <3> QED
      BY <1>3, <3>1, <3>2 DEF BookOf, IndexInv
  <2>7. BookOf(takers', makers')
    BY <2>2, <2>6, SyncBookKeeps
  <2> HIDE DEF after
  <2> QED
    BY <1>2, <2>2, <2>4, <2>5, <2>7 DEF IndexInv, BookOf, BacklogOf, PendingOf, RecordOf, Tight
<1>5. CASE pending.kind # "book"
  <2>1. OnBacklogSuccess
    BY <1>5 DEF Accepted
  <2> DEFINE pool == CHOOSE v \in pending.consumed : v.id \in Pool
             e == Local(Absent, Out(pool.id))
  <2>2. /\ state' = [state EXCEPT ![pool.id] = Updated(state[pool.id], e)]
        /\ takers' = takers /\ makers' = makers
    BY <2>1 DEF OnBacklogSuccess
  <2>3. e.new # Absent => e.new.id = pool.id
    BY <1>3 DEF Local
  <2> HIDE DEF pool, e
  <2>4. DOMAIN state' = Evolving
    BY <2>2 DEF IndexInv
  <2>5. ASSUME NEW j \in Evolving PROVE RecordOf(state'[j], j)
    <3>1. CASE j = pool.id
      <4>1. state'[j] = Updated(state[j], e)
        BY <3>1, <2>2 DEF IndexInv
      <4>2. RecordOf(state[j], j) /\ (e.new # Absent => e.new.id = j)
        BY <3>1, <2>3 DEF IndexInv
      <4>3. RecordOf(Updated(state[j], e), j)
        BY <4>2, UpdatedKeepsRecord
      <4> QED
        BY <4>1, <4>3
    <3>2. CASE j # pool.id
      BY <3>2, <2>2 DEF IndexInv
    <3> QED
      BY <3>1, <3>2
  <2> QED
    BY <1>2, <2>2, <2>4, <2>5 DEF IndexInv, BookOf, BacklogOf, PendingOf, RecordOf, Tight
<1> QED
  BY <1>4, <1>5

(* What the node misses is invalidated, and a special order goes back.     *)
LEMMA RejectedKeeps == ASSUME IndexInv, Rejected PROVE IndexInv'
<1>1. pending' = None /\ pending # None
  BY DEF Rejected
<1>2. PendingOf(pending)'
  BY <1>1 DEF PendingOf
<1>3. PICK gone : state' = Invalidated(gone) /\ SyncBook(takers, makers, ChangesBy(gone, Invalidated(gone)))
  BY DEF Rejected
<1>4. DOMAIN state' = Evolving
  BY <1>3 DEF Invalidated
<1>5. ASSUME NEW i \in Evolving PROVE RecordOf(state'[i], i)
  <2>1. RecordOf(state[i], i)
    BY DEF IndexInv
  <2>2. (i \in Pool) \in BOOLEAN
    OBVIOUS
  <2>3. RecordOf(Invalidate(state[i], The(gone, i), i \in Pool), i)
    BY <2>1, <2>2, InvalidateKeepsRecord
  <2>4. state'[i] = Invalidate(state[i], The(gone, i), i \in Pool) \/ state'[i] = state[i]
    BY <1>3 DEF Invalidated
  <2> QED
    BY <2>1, <2>3, <2>4
<1>6. BookOf(takers', makers')
  BY <1>3, SyncBookKeeps DEF IndexInv
<1>7. BacklogOf(backlog')
  <2>1. \/ pending.kind = "book" /\ backlog' = backlog
        \/ pending.kind # "book" /\ backlog' = SoftEvict(backlog, TheOrder)
        \/ pending.kind # "book" /\ backlog' = PutOrder(backlog, TheOrder)
    BY DEF Rejected
  <2>2. pending.kind # "book" => TheOrder.id \in Special
    BY <1>1 DEF IndexInv, PendingOf, TheOrder
  <2> QED
    BY <2>1, <2>2 DEF BacklogOf, PutOrder, SoftEvict, IndexInv
<1> QED
  BY <1>2, <1>4, <1>5, <1>6, <1>7 DEF IndexInv, BookOf, BacklogOf, RecordOf, Tight

(* What the node refuses otherwise is taken off the book, or goes back.    *)
LEMMA RefusedKeeps == ASSUME IndexInv, Refused PROVE IndexInv'
<1>1. pending' = None /\ pending # None /\ state' = state /\ makers' = makers
  BY DEF Refused
<1>2. PendingOf(pending)'
  BY <1>1 DEF PendingOf
<1>3. takers' \subseteq takers
  BY DEF Refused, Without
<1>4. BacklogOf(backlog')
  <2>1. \/ pending.kind = "book" /\ backlog' = backlog
        \/ pending.kind # "book" /\ backlog' = PutOrder(backlog, TheOrder)
    BY DEF Refused
  <2>2. pending.kind # "book" => TheOrder.id \in Special
    BY <1>1 DEF IndexInv, PendingOf, TheOrder
  <2> QED
    BY <2>1, <2>2 DEF BacklogOf, PutOrder, IndexInv
<1> QED
  BY <1>1, <1>2, <1>3, <1>4 DEF IndexInv, BookOf, BacklogOf, RecordOf, Tight

-----------------------------------------------------------------------------
(* The steps keep the invariant.                                           *)
LEMMA IndexInvHolds == Spec => []IndexInv
<1>1. Init => IndexInv
  <2> SUFFICES ASSUME Init PROVE IndexInv
    OBVIOUS
  <2>1. state = [i \in Evolving |-> Unknown] /\ pending = None
    BY DEF Init
  <2>2. \A i \in Evolving : RecordOf(state[i], i)
    BY <2>1, UnknownIsRecord
  <2>3. BookOf(takers, makers) /\ BacklogOf(backlog)
    BY DEF Init, BookOf, BacklogOf
  <2>4. PendingOf(pending)
    BY <2>1 DEF PendingOf
  <2> QED
    BY <2>1, <2>2, <2>3, <2>4 DEF IndexInv
<1>2. IndexInv /\ [Next]_allVars => IndexInv'
  <2> SUFFICES ASSUME IndexInv, [Next]_allVars PROVE IndexInv'
    OBVIOUS
  <2>1. CASE UNCHANGED engineVars
    BY <2>1 DEF engineVars, IndexInv, RecordOf, Tight, BookOf, BacklogOf, PendingOf
  <2>2. CASE OnPairEvent
    BY <2>2, OnPairEventKeeps
  <2>3. CASE OnFundingEvent
    BY <2>3 DEF OnFundingEvent, IndexInv, RecordOf, Tight, BookOf, BacklogOf, PendingOf
  <2>4. CASE Attempt
    BY <2>4, AttemptKeeps
  <2>5. CASE Accepted
    BY <2>5, AcceptedKeeps
  <2>6. CASE Rejected
    BY <2>6, RejectedKeeps
  <2>7. CASE Refused
    BY <2>7, RefusedKeeps
  <2> QED
    BY <2>1, <2>2, <2>3, <2>4, <2>5, <2>6, <2>7 DEF Next, Executor, allVars
<1> QED
  BY <1>1, <1>2, PTL DEF Spec

(* IndexSound, for any number of pools, orders, transactions and faults:   *)
(* the executor finds in its index every version a transaction of its own  *)
(* consumed when the answer comes.                                         *)
THEOREM IndexStaysSound == Spec => []IndexSound
<1>1. IndexInv => IndexSound
  BY DEF IndexInv, IndexSound, RecordOf, PendingOf
<1> QED
  BY <1>1, IndexInvHolds, PTL

-----------------------------------------------------------------------------
(* The skip filter.                                                        *)

FilterOf(f) == (\E S : f.buffer \in Seq(S)) /\ Len(f.buffer) <= FilterSize

(* The ids that occur are finitely many, and the filter has room: then it  *)
(* holds all that was added and not taken off.                             *)
FiniteIds == IsFiniteSet(Pool) /\ IsFiniteSet(Order) /\ IsFiniteSet(Special)

Roomy == Len(skip.buffer) < FilterSize

(* A filter with room left after an addition has forgotten nothing in it.  *)
LEMMA AddAdds ==
  ASSUME NEW f, FilterOf(f), NEW v
  PROVE  /\ FilterOf(Add(f, v))
         /\ Add(f, v).members \subseteq f.members \cup {v}
         /\ Len(Add(f, v).buffer) < FilterSize =>
              Len(f.buffer) < FilterSize /\ Add(f, v).members = f.members \cup {v}
<1>1. FilterSize \in Nat /\ FilterSize > 0
  BY EngineAssumption
<1>2. PICK S : f.buffer \in Seq(S)
  BY DEF FilterOf
<1>3. f.buffer \in Seq(S \cup {v})
  BY <1>2
<1>4. Len(f.buffer) \in Nat /\ Len(f.buffer) <= FilterSize
  BY <1>2 DEF FilterOf
<1>5. CASE v \in f.members
  BY <1>4, <1>5 DEF Add
<1>6. CASE v \notin f.members /\ Len(f.buffer) < FilterSize
  <2>1. /\ Add(f, v).buffer = Append(f.buffer, v)
        /\ Add(f, v).members = f.members \cup {v}
    BY <1>6 DEF Add
  <2>2. Append(f.buffer, v) \in Seq(S \cup {v}) /\ Len(Append(f.buffer, v)) = Len(f.buffer) + 1
    BY <1>3
  <2>3. Len(f.buffer) + 1 <= FilterSize
    BY <1>1, <1>4, <1>6
  <2>4. FilterOf(Add(f, v))
    BY <2>1, <2>2, <2>3 DEF FilterOf
  <2> QED
    BY <1>6, <2>1, <2>4
<1>7. CASE v \notin f.members /\ ~(Len(f.buffer) < FilterSize)
  <2>1. Len(f.buffer) = FilterSize /\ f.buffer # <<>>
    BY <1>1, <1>4, <1>7
  <2>2. /\ Add(f, v).buffer = Append(Tail(f.buffer), v)
        /\ Add(f, v).members = (f.members \cup {v}) \ {Head(f.buffer)}
    BY <1>7 DEF Add
  <2>3. Tail(f.buffer) \in Seq(S \cup {v}) /\ Len(Tail(f.buffer)) = FilterSize - 1
    BY <1>3, <2>1
  <2>4. Append(Tail(f.buffer), v) \in Seq(S \cup {v}) /\ Len(Append(Tail(f.buffer), v)) = FilterSize
    BY <1>1, <2>3
  <2>5. FilterOf(Add(f, v)) /\ ~(Len(Add(f, v).buffer) < FilterSize)
    BY <1>1, <2>2, <2>4 DEF FilterOf
  <2> QED
    BY <2>2, <2>5
<1> QED
  BY <1>5, <1>6, <1>7

(* A set of numbers has a least one.                                       *)
LEMMA LeastOf ==
  ASSUME NEW S \in SUBSET Nat, S # {}
  PROVE  \E m \in S : \A w \in S : m <= w
<1> DEFINE Less == {p \in Nat \X Nat : p[1] < p[2]}
<1>1. IsWellFoundedOn(Less, Nat)
  BY NatLessThanWellFounded DEF OpToRel
<1>2. PICK m \in S : \A w \in S : <<w, m>> \notin Less
  <2> HIDE DEF Less
  <2> QED
    BY <1>1, WFMin
<1>3. ASSUME NEW w \in S PROVE m <= w
  <2>1. <<w, m>> \in Nat \X Nat /\ <<w, m>>[1] = w /\ <<w, m>>[2] = m
    OBVIOUS
  <2>2. ~(w < m)
    BY <1>2, <2>1
  <2> QED
    BY <2>2
<1> QED
  BY <1>3

(* What a number of the first k have passed on from one to the next, all   *)
(* of them have.                                                           *)
LEMMA UpTo ==
  ASSUME NEW k \in Nat, NEW P, 0 \in P, \A j \in 0..k : j \in P /\ j < k => j + 1 \in P
  PROVE  0..k \subseteq P
<1> DEFINE T == (0..k) \ P
<1> SUFFICES ASSUME T # {} PROVE FALSE
  OBVIOUS
<1>0. T \in SUBSET Nat
  OBVIOUS
<1> HIDE DEF T
<1>1. PICK m \in T : \A w \in T : m <= w
  BY <1>0, LeastOf
<1>2. m # 0 /\ m \in Nat /\ m <= k /\ m \notin P
  BY <1>1 DEF T
<1>3. m - 1 \in 0..k /\ m - 1 < k /\ ~(m <= m - 1) /\ (m - 1) + 1 = m
  BY <1>2
<1>4. m - 1 \in P
  BY <1>1, <1>3 DEF T
<1> QED
  BY <1>2, <1>3, <1>4

(* The elements of a finite set, in some order.                            *)
LEMMA ListOf ==
  ASSUME NEW S, IsFiniteSet(S)
  PROVE  /\ SetToSeq(S) \in Seq(S)
         /\ \A v \in S : \E n \in 1..Len(SetToSeq(S)) : SetToSeq(S)[n] = v
<1> DEFINE n == Cardinality(S)
           list == SetToSeq(S)
<1>1. n \in Nat /\ \E f : f \in Bijection(1..n, S)
  BY FS_CardinalityType DEF ExistsBijection
<1>2. \E f \in [1..n -> S] : IsInjective(f)
  BY <1>1, Zenon DEF Bijection, Injection
<1>3. list \in [1..n -> S] /\ IsInjective(list)
  BY <1>2, Zenon DEF SetToSeq
<1>4. list \in Injection(1..n, S)
  BY <1>3 DEF Injection
<1>5. IsFiniteSet(1..n) /\ Cardinality(1..n) = n
  BY <1>1, FS_Interval
<1>6. list \in Surjection(1..n, S)
  BY <1>4, <1>5, FS_Injection
<1> HIDE DEF list, n
<1>7. list \in Seq(S) /\ Len(list) = n
  BY <1>1, <1>3
<1>8. \A v \in S : \E k \in 1..n : list[k] = v
  BY <1>6 DEF Surjection
<1> QED
  BY <1>7, <1>8 DEF list

(* A function with a finite domain has a finite range.                     *)
LEMMA ImageFinite ==
  ASSUME NEW S, IsFiniteSet(S), NEW f, DOMAIN f = S
  PROVE  IsFiniteSet({f[x] : x \in S})
<1> DEFINE T == {f[x] : x \in S}
           g == [x \in S |-> f[x]]
<1>1. g \in Surjection(S, T)
  BY DEF Surjection
<1> QED
  BY <1>1, FS_Surjection

(* Adding all the elements of a finite set, one after the other.           *)
LEMMA AddAllAdds ==
  ASSUME NEW f, FilterOf(f), NEW versions, IsFiniteSet(versions)
  PROVE  /\ FilterOf(AddAll(f, versions))
         /\ AddAll(f, versions).members \subseteq f.members \cup versions
         /\ Len(AddAll(f, versions).buffer) < FilterSize =>
              AddAll(f, versions).members = f.members \cup versions
<1> DEFINE list == SetToSeq(versions)
           k == Len(list)
           Equation(added) == added = [n \in 0..k |-> IF n = 0 THEN f ELSE Add(added[n - 1], list[n])]
           Chain(m, g) == /\ g = [n \in 0..m |-> g[n]]
                          /\ g[0] = f
                          /\ \A n \in 1..m : g[n] = Add(g[n - 1], list[n])
           Exists == {m \in 0..k : \E g : Chain(m, g)}
<1>1. AddAll(f, versions) = (CHOOSE added : Equation(added))[k]
  BY DEF AddAll
<1>2. /\ list \in Seq(versions) /\ k \in Nat
      /\ \A v \in versions : \E n \in 1..k : list[n] = v
  <2>1. list \in Seq(versions) /\ \A v \in versions : \E n \in 1..k : list[n] = v
    BY ListOf
  <2> QED
    BY <2>1
<1> HIDE DEF list, k
<1>3. 0..k \subseteq Exists
  <2>1. 0 \in Exists
    <3> DEFINE g == [n \in 0..0 |-> f]
    <3>1. Chain(0, g) /\ 0 \in 0..k
      BY <1>2
    <3> HIDE DEF g
    <3> QED
      BY <3>1
  <2>2. ASSUME NEW m \in 0..k, m \in Exists, m < k PROVE m + 1 \in Exists
    <3>1. PICK g : Chain(m, g)
      BY <2>2
    <3> DEFINE h == [n \in 0..m + 1 |-> IF n = m + 1 THEN Add(g[m], list[m + 1]) ELSE g[n]]
    <3>2. m \in Nat /\ k \in Nat /\ m + 1 \in 0..k
      BY <1>2, <2>2
    <3>3. h = [n \in 0..m + 1 |-> h[n]] /\ h[0] = f
      BY <3>1, <3>2
    <3>4. ASSUME NEW n \in 1..m + 1 PROVE h[n] = Add(h[n - 1], list[n])
      <4>1. n - 1 \in 0..m /\ h[n - 1] = g[n - 1]
        BY <3>2
      <4>2. CASE n = m + 1
        BY <3>2, <4>1, <4>2
      <4>3. CASE n # m + 1
        <5>1. n \in 1..m /\ h[n] = g[n]
          BY <3>2, <4>3
        <5> QED
          BY <3>1, <4>1, <5>1
      <4> QED
        BY <4>2, <4>3
    <3> HIDE DEF h
    <3>5. Chain(m + 1, h)
      BY <3>3, <3>4
    <3> QED
      BY <3>2, <3>5
  <2> HIDE DEF Exists
  <2> QED
    BY <1>2, <2>1, <2>2, UpTo
<1>4. \E added : Equation(added)
  <2>1. PICK g : Chain(k, g)
    BY <1>2, <1>3
  <2>2. ASSUME NEW n \in 0..k PROVE g[n] = IF n = 0 THEN f ELSE Add(g[n - 1], list[n])
    <3>1. n = 0 \/ n \in 1..k
      BY <1>2
    <3>2. g[0] = f /\ \A j \in 1..k : g[j] = Add(g[j - 1], list[j])
      BY <2>1
    <3> QED
      BY <3>1, <3>2
  <2>3. g = [n \in 0..k |-> g[n]]
    BY <2>1
  <2>4. [n \in 0..k |-> g[n]] = [n \in 0..k |-> IF n = 0 THEN f ELSE Add(g[n - 1], list[n])]
    BY <2>2
  <2>5. Equation(g)
    BY <2>3, <2>4, Zenon
  <2> QED
    BY <2>5
<1>5. PICK a : Equation(a) /\ AddAll(f, versions) = a[k]
  BY <1>1, <1>4, Zenon
<1>6. a[0] = f /\ \A n \in 1..k : a[n] = Add(a[n - 1], list[n])
  BY <1>2, <1>5
<1> DEFINE From(m) == {v \in versions : \E n \in 1..m : list[n] = v}
           Kept == {m \in 0..k :
                      /\ FilterOf(a[m])
                      /\ a[m].members \subseteq f.members \cup From(m)
                      /\ Len(a[m].buffer) < FilterSize => a[m].members = f.members \cup From(m)}
<1>7. 0..k \subseteq Kept
  <2>1. 0 \in Kept
    BY <1>2, <1>6
  <2>2. ASSUME NEW m \in 0..k, m \in Kept, m < k PROVE m + 1 \in Kept
    <3>1. m \in Nat /\ k \in Nat /\ m + 1 \in 1..k /\ (m + 1) - 1 = m
      BY <1>2, <2>2
    <3>2. a[m + 1] = Add(a[m], list[m + 1])
      BY <1>6, <3>1
    <3>3. From(m + 1) = From(m) \cup {list[m + 1]}
      <4>1. list[m + 1] \in versions
        BY <1>2, <3>1 DEF k
      <4>2. \A n : n \in 1..m + 1 <=> n \in 1..m \/ n = m + 1
        BY <3>1
      <4> QED
        BY <4>1, <4>2
    <3>4. FilterOf(a[m])
      BY <2>2
    <3>5. /\ FilterOf(a[m + 1])
          /\ a[m + 1].members \subseteq a[m].members \cup {list[m + 1]}
          /\ Len(a[m + 1].buffer) < FilterSize =>
               Len(a[m].buffer) < FilterSize /\ a[m + 1].members = a[m].members \cup {list[m + 1]}
      BY <3>2, <3>4, AddAdds
    <3> HIDE DEF From
    <3> QED
      BY <2>2, <3>1, <3>3, <3>5
  <2> HIDE DEF Kept
  <2> QED
    BY <1>2, <2>1, <2>2, UpTo
<1>8. From(k) = versions
  BY <1>2
<1>9. k \in Kept
  BY <1>2, <1>7
<1> HIDE DEF From
<1> QED
  BY <1>5, <1>8, <1>9

-----------------------------------------------------------------------------
(* The node: a transaction makes versions of its own number, so what one   *)
(* makes is new.                                                           *)

NodeInv ==
    /\ nextTx \in Nat
    /\ \E T : /\ ledger \in Seq(T) /\ mempool \in Seq(T)
              /\ \A t \in T : \A v \in t.out : v.tx \in 0..nextTx - 1

(* What is unspent was made before.                                        *)
LEMMA UnspentMade == ASSUME NodeInv PROVE \A v \in Unspent : v.tx \in 0..nextTx - 1
<1>1. PICK T : /\ ledger \in Seq(T) /\ mempool \in Seq(T)
               /\ \A t \in T : \A v \in t.out : v.tx \in 0..nextTx - 1
  BY DEF NodeInv
<1>2. ledger \o mempool \in Seq(T)
  BY <1>1
<1>3. Range(ledger \o mempool) \subseteq T
  <2> DEFINE all == ledger \o mempool
  <2>1. \A n \in DOMAIN all : all[n] \in T
    BY <1>2
  <2> QED
    BY <2>1 DEF Range
<1>4. ASSUME NEW v \in Unspent PROVE \E t \in Range(ledger \o mempool) : v \in t.out
  BY DEF Unspent
<1> QED
  BY <1>1, <1>3, <1>4

(* A transaction the node takes in makes versions of its number.           *)
LEMMA AcceptKeepsNode ==
  ASSUME NodeInv, NEW in, NEW out, Accept(in, out), \A v \in out : v.tx = nextTx
  PROVE  NodeInv'
<1>1. PICK T : /\ ledger \in Seq(T) /\ mempool \in Seq(T)
               /\ \A t \in T : \A v \in t.out : v.tx \in 0..nextTx - 1
  BY DEF NodeInv
<1> DEFINE new == [n |-> nextTx, in |-> in, out |-> out]
           T2 == T \cup {new}
<1>2. /\ nextTx \in Nat /\ nextTx' = nextTx + 1
      /\ ledger' = ledger /\ mempool' = Append(mempool, new)
  BY DEF Accept, NodeInv
<1>3. ledger' \in Seq(T2) /\ mempool' \in Seq(T2)
  <2> HIDE DEF new
  <2>1. new \in T2 /\ \A x \in T : x \in T2
    OBVIOUS
  <2> HIDE DEF T2
  <2>2. ledger \in Seq(T2) /\ mempool \in Seq(T2)
    BY <1>1, <2>1
  <2>3. Append(mempool, new) \in Seq(T2)
    BY <2>1, <2>2
  <2> QED
    BY <1>2, <2>2, <2>3
<1>4. \A v \in out : v.tx \in 0..nextTx' - 1
  BY <1>2
<1>5. \A t \in T : \A v \in t.out : v.tx \in 0..nextTx' - 1
  BY <1>1, <1>2
<1>6. \A t \in T2 : \A v \in t.out : v.tx \in 0..nextTx' - 1
  BY <1>4, <1>5
<1> HIDE DEF T2
<1> QED
  BY <1>2, <1>3, <1>6 DEF NodeInv

LEMMA NodeInvHolds == Spec => []NodeInv
<1>1. Init => NodeInv
  <2> SUFFICES ASSUME Init PROVE NodeInv
    OBVIOUS
  <2> DEFINE genesis == [n |-> 0, in |-> {}, out |-> {[id |-> i, tx |-> 0] : i \in Genesis}]
  <2>1. ledger = <<genesis>> /\ mempool = <<>> /\ nextTx = 1
    BY DEF Init, SinkInit
  <2>2. \A v \in genesis.out : v.tx \in 0..nextTx - 1
    BY <2>1
  <2> HIDE DEF genesis
  <2> DEFINE T == {genesis}
  <2>3. ledger \in Seq(T) /\ mempool \in Seq(T)
    BY <2>1
  <2>4. \A t \in T : \A v \in t.out : v.tx \in 0..nextTx - 1
    BY <2>2
  <2>5. nextTx \in Nat
    BY <2>1
  <2> HIDE DEF T
  <2> QED
    BY <2>3, <2>4, <2>5 DEF NodeInv
<1>2. NodeInv /\ [Next]_allVars => NodeInv'
  <2> SUFFICES ASSUME NodeInv, [Next]_allVars PROVE NodeInv'
    OBVIOUS
  <2>1. PICK T : /\ ledger \in Seq(T) /\ mempool \in Seq(T)
                 /\ \A t \in T : \A v \in t.out : v.tx \in 0..nextTx - 1
    BY DEF NodeInv
  <2>2. \A i : Out(i).tx = nextTx
    BY DEF Out
  <2>3. CASE UNCHANGED <<ledger, mempool, nextTx>>
    BY <2>3 DEF NodeInv
  <2>4. CASE Foreign
    <3>1. \/ \E i \in Id : Accept({}, {Out(i)})
          \/ \E v \in Unspent : Accept({v}, {Out(v.id)})
          \/ \E v \in Unspent : Accept({v}, {})
          \/ \E v, p \in Unspent : \E left \in {{}, {Out(v.id)}} :
               Accept({v, p}, {Out(p.id)} \cup left)
      BY <2>4 DEF Foreign, Create, Trade, Cancel, Rival
    <3>2. \E in, out : Accept(in, out) /\ \A v \in out : v.tx = nextTx
      <4>1. CASE \E i \in Id : Accept({}, {Out(i)})
        BY <4>1, <2>2
      <4>2. CASE \E v \in Unspent : Accept({v}, {Out(v.id)})
        BY <4>2, <2>2
      <4>3. CASE \E v \in Unspent : Accept({v}, {})
        BY <4>3
      <4>4. CASE \E v, p \in Unspent : \E left \in {{}, {Out(v.id)}} :
                    Accept({v, p}, {Out(p.id)} \cup left)
        BY <4>4, <2>2
      <4> QED
        BY <3>1, <4>1, <4>2, <4>3, <4>4
    <3> QED
      BY <3>2, AcceptKeepsNode
  <2>5. CASE Confirm
    <3>1. /\ mempool # <<>> /\ nextTx' = nextTx
          /\ ledger' = Append(ledger, Head(mempool)) /\ mempool' = Tail(mempool)
      BY <2>5 DEF Confirm
    <3>2. ledger' \in Seq(T) /\ mempool' \in Seq(T)
      BY <2>1, <3>1
    <3> QED
      BY <2>1, <3>1, <3>2 DEF NodeInv
  <2>6. CASE RollBack
    <3>1. /\ Len(ledger) > 1 /\ nextTx' = nextTx
          /\ ledger' = Front(ledger) /\ mempool' = <<Last(ledger)>> \o mempool
      BY <2>6 DEF RollBack
    <3>2. Front(ledger) \in Seq(T) /\ Last(ledger) \in T
      BY <2>1, <3>1 DEF Front, Last
    <3>3. ledger' \in Seq(T) /\ mempool' \in Seq(T)
      BY <2>1, <3>1, <3>2
    <3> QED
      BY <2>1, <3>1, <3>3 DEF NodeInv
  <2>7. CASE Drop
    <3>1. mempool # <<>> /\ nextTx' = nextTx /\ ledger' = ledger /\ mempool' = Front(mempool)
      BY <2>7 DEF Drop
    <3>2. Front(mempool) \in Seq(T)
      BY <2>1, <3>1 DEF Front
    <3> QED
      BY <2>1, <3>1, <3>2 DEF NodeInv
  <2>8. CASE Accepted
    <3>1. \E out : Accept(Inputs, out) /\ \A v \in out : v.tx = nextTx
      BY <2>2, <2>8 DEF Accepted
    <3> QED
      BY <3>1, AcceptKeepsNode
  <2>9. CASE OnPairEvent \/ OnFundingEvent \/ Attempt \/ Rejected \/ Refused \/ Sink \/ UNCHANGED allVars
    <3>1. UNCHANGED <<ledger, mempool, nextTx>>
      BY <2>9 DEF OnPairEvent, OnFundingEvent, Attempt, Rejected, Refused, Sink, LedgerEvent,
           RollbackStarts, Synced, MempoolAccepted, MempoolDropped, allVars, vars, nodeVars
    <3> QED
      BY <2>3, <3>1
  <2> QED
    BY <2>4, <2>5, <2>6, <2>7, <2>8, <2>9 DEF Next, Node, Executor
<1> QED
  BY <1>1, <1>2, PTL DEF Spec

-----------------------------------------------------------------------------
(* The sink: its indexes hold versions of their kind, and it tells the     *)
(* executor of orders, pools and special orders only.                      *)

About(e) == IdOf(e) \in Evolving \cup Special

FeedInv ==
    /\ \A h \in {"pair", "special"} :
         \A v \in indexes[h].store : v # Absent /\ v.id \in KnownBy(h)
    /\ \E S : upstream \in Seq(S) /\ \A e \in S : About(e)

(* The transitions of a transaction are one for each entity it has a       *)
(* version of.                                                             *)
LEMMA TransitionsOf ==
  ASSUME FiniteIds, FeedInv, NEW h \in {"pair", "special"}, NEW tx
  PROVE  /\ IsFiniteSet(Transitions(h, tx))
         /\ \A tr \in Transitions(h, tx) :
              /\ \E i \in KnownBy(h) : /\ IF tr.new = Absent THEN tr.old.id = i ELSE tr.new.id = i
                                       /\ IF tr.old = Absent THEN tr.new.id = i ELSE tr.old.id = i
              /\ tr.old # Absent => tr.old.id \in KnownBy(h)
              /\ tr.new # Absent => tr.new.id \in KnownBy(h)
<1> DEFINE in == In(h, tx)
           made == Made(h, tx)
           ids == {v.id : v \in in \cup made}
           of == [i \in ids |-> [old |-> The(in, i), new |-> The(made, i)]]
<1>1. \A v \in in : v # Absent /\ v.id \in KnownBy(h)
  BY DEF In, FeedInv
<1>2. \A v \in made : v.id \in KnownBy(h)
  BY DEF Made
<1>3. Transitions(h, tx) = {of[i] : i \in ids}
  BY DEF Transitions
<1> HIDE DEF in, made
<1>4. ids \subseteq KnownBy(h)
  BY <1>1, <1>2
<1>5. IsFiniteSet(KnownBy(h))
  <2>1. IsFiniteSet(Pool \cup Order)
    BY FS_Union DEF FiniteIds
  <2> QED
    BY <2>1 DEF KnownBy, Evolving, FiniteIds
<1>6. IsFiniteSet(ids)
  BY <1>4, <1>5, FS_Subset
<1>7. IsFiniteSet({of[i] : i \in ids})
  <2>1. DOMAIN of = ids
    OBVIOUS
  <2> HIDE DEF ids, of
  <2> QED
    BY <1>6, <2>1, ImageFinite
<1>8. ASSUME NEW i \in ids
      PROVE  /\ IF of[i].new = Absent THEN of[i].old.id = i ELSE of[i].new.id = i
             /\ IF of[i].old = Absent THEN of[i].new.id = i ELSE of[i].old.id = i
  <2>1. of[i].old = The(in, i) /\ of[i].new = The(made, i)
    OBVIOUS
  <2>2. \/ \E v \in in : v.id = i
        \/ \E v \in made : v.id = i
    OBVIOUS
  <2>3. (\E v \in in : v.id = i) => The(in, i) \in in /\ The(in, i).id = i
    BY DEF The
  <2>4. (\E v \in made : v.id = i) => The(made, i).id = i
    BY DEF The
  <2>5. /\ ~(\E v \in in : v.id = i) => The(in, i) = Absent
        /\ ~(\E v \in made : v.id = i) => The(made, i) = Absent
    BY DEF The
  <2> HIDE DEF of, ids
  <2> QED
    BY <1>1, <2>1, <2>2, <2>3, <2>4, <2>5
<1>9. ASSUME NEW i \in ids
      PROVE  /\ of[i].old # Absent => of[i].old.id \in KnownBy(h)
             /\ of[i].new # Absent => of[i].new.id \in KnownBy(h)
  <2>1. of[i].old = The(in, i) /\ of[i].new = The(made, i)
    OBVIOUS
  <2>2. \A vs : The(vs, i) = Absent \/ The(vs, i) \in vs
    BY DEF The
  <2> HIDE DEF of, ids
  <2> QED
    BY <1>1, <1>2, <2>1, <2>2
<1> HIDE DEF ids, of
<1> QED
  BY <1>3, <1>4, <1>7, <1>8, <1>9

(* What a handler call tells is about an entity of its kind.               *)
LEMMA HandleKeepsFeed ==
  ASSUME FiniteIds, FeedInv, NEW ch, NEW dir, NEW tx, Handle(ch, dir, tx)
  PROVE  FeedInv'
<1> DEFINE entities == Directed(dir, Transitions("pair", tx))
           learnt == IndexedOf(ch, dir, tx)
           orders == Directed(dir, Transitions("special", tx))
           Event(tr) == [ch |-> ch, dir |-> dir, old |-> tr.old, new |-> tr.new]
           Events(trs) == {Event(tr) : tr \in trs}
<1>1. ASSUME NEW h \in {"pair", "special"}
      PROVE  /\ IsFiniteSet(Directed(dir, Transitions(h, tx)))
             /\ \A tr \in Directed(dir, Transitions(h, tx)) :
                  /\ (IF tr.new # Absent THEN tr.new.id ELSE tr.old.id) \in KnownBy(h)
                  /\ tr.new # Absent => tr.new.id \in KnownBy(h)
  <2> DEFINE trs == Transitions(h, tx)
             inverted == [tr \in trs |-> Inverted(tr)]
  <2>1. IsFiniteSet({inverted[tr] : tr \in trs})
    <3>1. IsFiniteSet(trs)
      BY TransitionsOf
    <3>2. DOMAIN inverted = trs
      OBVIOUS
    <3> HIDE DEF inverted, trs
    <3> QED
      BY <3>1, <3>2, ImageFinite
  <2>2. {Inverted(tr) : tr \in trs} = {inverted[tr] : tr \in trs}
    OBVIOUS
  <2>3. CASE dir = "backward"
    <3>1. Directed(dir, trs) = {Inverted(tr) : tr \in trs}
      BY <2>3 DEF Directed
    <3>2. \A tr : Inverted(tr).new = tr.old /\ Inverted(tr).old = tr.new
      BY DEF Inverted
    <3>3. IsFiniteSet(Directed(dir, trs))
      BY <2>1, <2>2, <3>1
    <3> QED
      BY <3>1, <3>2, <3>3, TransitionsOf
  <2>4. CASE dir # "backward"
    <3>1. Directed(dir, trs) = trs
      BY <2>4 DEF Directed
    <3> HIDE DEF trs
    <3> QED
      BY <3>1, TransitionsOf DEF trs
  <2> QED
    BY <2>3, <2>4
<1>2. \A tr \in learnt : tr.new # Absent => tr.new.id \in KnownBy("pair")
  BY <1>1, TransitionsOf DEF IndexedOf
<1>3. \A tr \in orders : tr.new # Absent => tr.new.id \in KnownBy("special")
  BY <1>1
<1>4. PICK f, p, s, routed :
        /\ routed \subseteq orders
        /\ indexes' = [funding |-> Indexed(indexes.funding, Directed(dir, Transitions("funding", tx)), f),
                       pair |-> Indexed(indexes.pair, learnt, p),
                       special |-> Indexed(indexes.special, routed, s)]
        /\ upstream' = SetToSeq(Events(entities)) \o SetToSeq(Events(routed))
  <2>1. Routable(orders) \subseteq orders
    BY DEF Routable
  <2>2. \A trs : Announced(ch, dir, trs) = SetToSeq(Events(trs))
    BY DEF Announced
  <2>3. \E f, p, s :
          /\ indexes' = [funding |-> Indexed(indexes.funding, Directed(dir, Transitions("funding", tx)), f),
                         pair |-> Indexed(indexes.pair, learnt, p),
                         special |-> Indexed(indexes.special, Routable(orders), s)]
          /\ upstream' = Announced(ch, dir, entities) \o Announced(ch, dir, Routable(orders))
    <3> HIDE DEF entities, learnt, orders, Event, Events
    <3> QED
      BY DEF Handle, entities, learnt, orders
  <2> HIDE DEF entities, learnt, orders, Event, Events
  <2> QED
    BY <2>1, <2>2, <2>3
<1>5. \A index, trs, due : Indexed(index, trs, due).store \subseteq index.store \cup News(trs)
  BY DEF Indexed, Evicted
<1>6. \A h \in {"pair", "special"} :
        \A v \in indexes'[h].store : v # Absent /\ v.id \in KnownBy(h)
  <2>1. /\ indexes'["pair"].store \subseteq indexes["pair"].store \cup News(learnt)
        /\ indexes'["special"].store \subseteq indexes["special"].store \cup News(routed)
    <3> HIDE DEF entities, learnt, orders, Event, Events
    <3> QED
      BY <1>4, <1>5
  <2>2. \A v \in News(learnt) : v # Absent /\ v.id \in KnownBy("pair")
    BY <1>2 DEF News
  <2>3. \A v \in News(routed) : v # Absent /\ v.id \in KnownBy("special")
    BY <1>3, <1>4 DEF News
  <2>4. \A h \in {"pair", "special"} : \A v \in indexes[h].store : v # Absent /\ v.id \in KnownBy(h)
    BY DEF FeedInv
  <2> HIDE DEF learnt, entities, orders
  <2> QED
    BY <2>1, <2>2, <2>3, <2>4
<1>7. ASSUME NEW trs, IsFiniteSet(trs),
             \A tr \in trs : (IF tr.new # Absent THEN tr.new.id ELSE tr.old.id) \in Evolving \cup Special
      PROVE  IsFiniteSet(Events(trs)) /\ \A e \in Events(trs) : About(e)
  <2> DEFINE told1 == [tr \in trs |-> Event(tr)]
  <2>1. DOMAIN told1 = trs /\ Events(trs) = {told1[tr] : tr \in trs}
    OBVIOUS
  <2>2. IsFiniteSet({told1[tr] : tr \in trs})
    <3> HIDE DEF told1
    <3> QED
      BY <1>7, <2>1, ImageFinite
  <2>3. \A tr : Event(tr).new = tr.new /\ Event(tr).old = tr.old
    OBVIOUS
  <2>4. ASSUME NEW tr \in trs PROVE About(Event(tr))
    <3> HIDE DEF Event
    <3> QED
      BY <1>7, <2>3 DEF About, IdOf
  <2>5. \A e \in Events(trs) : \E tr \in trs : e = Event(tr)
    OBVIOUS
  <2> HIDE DEF told1, Event, Events
  <2> QED
    BY <2>1, <2>2, <2>4, <2>5
<1>8. KnownBy("pair") = Evolving /\ KnownBy("special") = Special
  BY DEF KnownBy
<1>9. IsFiniteSet(Events(entities)) /\ \A e \in Events(entities) : About(e)
  <2>1. IsFiniteSet(entities)
    BY <1>1
  <2>2. \A tr \in entities : (IF tr.new # Absent THEN tr.new.id ELSE tr.old.id) \in Evolving \cup Special
    BY <1>1, <1>8
  <2> HIDE DEF entities, Events
  <2> QED
    BY <2>1, <2>2, <1>7
<1>10. IsFiniteSet(Events(routed)) /\ \A e \in Events(routed) : About(e)
  <2>1. IsFiniteSet(routed)
    BY <1>1, <1>4, FS_Subset
  <2>2. \A tr \in routed : (IF tr.new # Absent THEN tr.new.id ELSE tr.old.id) \in Evolving \cup Special
    BY <1>1, <1>4, <1>8
  <2> HIDE DEF Events, orders
  <2> QED
    BY <2>1, <2>2, <1>7
<1>11. \E S : upstream' \in Seq(S) /\ \A e \in S : About(e)
  <2> DEFINE A == Events(entities)
             B == Events(routed)
             S == A \cup B
  <2>1. SetToSeq(A) \in Seq(A) /\ SetToSeq(B) \in Seq(B)
    <3> HIDE DEF A, B
    <3> QED
      BY <1>9, <1>10, ListOf DEF A, B
  <2>2. upstream' = SetToSeq(A) \o SetToSeq(B)
    BY <1>4
  <2>3. \A e \in S : About(e)
    BY <1>9, <1>10
  <2> HIDE DEF A, B
  <2>4. SetToSeq(A) \in Seq(S) /\ SetToSeq(B) \in Seq(S)
    BY <2>1
  <2> HIDE DEF S
  <2>5. upstream' \in Seq(S)
    BY <2>2, <2>4
  <2> QED
    BY <2>3, <2>5
<1> QED
  BY <1>6, <1>11 DEF FeedInv, About, IdOf

LEMMA FeedInvHolds == ASSUME FiniteIds PROVE Spec => []FeedInv
<1>1. Init => FeedInv
  <2> SUFFICES ASSUME Init PROVE FeedInv
    OBVIOUS
  <2>1. upstream = <<>> /\ indexes = [h \in Handlers |-> [store |-> {}, queue |-> <<>>]]
    BY DEF Init, SinkInit
  <2>2. \A h \in {"pair", "special"} : indexes[h].store = {}
    BY <2>1 DEF Handlers
  <2>3. upstream \in Seq({}) /\ \A e \in {} : About(e)
    BY <2>1
  <2> QED
    BY <2>2, <2>3 DEF FeedInv
<1>2. FeedInv /\ [Next]_allVars => FeedInv'
  <2> SUFFICES ASSUME FeedInv, [Next]_allVars PROVE FeedInv'
    OBVIOUS
  <2>1. CASE UNCHANGED <<indexes, upstream>>
    BY <2>1 DEF FeedInv, About, IdOf
  <2>2. CASE LedgerEvent \/ MempoolAccepted \/ MempoolDropped
    <3>1. PICK ch, dir, tx : Handle(ch, dir, tx)
      BY <2>2 DEF LedgerEvent, MempoolAccepted, MempoolDropped
    <3> QED
      BY <3>1, HandleKeepsFeed
  <2>3. CASE OnPairEvent
    <3>1. upstream # <<>> /\ upstream' = Tail(upstream) /\ indexes' = indexes
      BY <2>3 DEF OnPairEvent, sinkVars
    <3>2. PICK S : upstream \in Seq(S) /\ \A e \in S : About(e)
      BY DEF FeedInv
    <3>3. upstream' \in Seq(S)
      BY <3>1, <3>2
    <3> QED
      BY <3>1, <3>2, <3>3 DEF FeedInv, About, IdOf
  <2>4. CASE Node \/ RollbackStarts \/ Synced \/ OnFundingEvent \/ Attempt \/ Accepted
             \/ Rejected \/ Refused \/ UNCHANGED allVars
    <3>1. UNCHANGED <<indexes, upstream>>
      BY <2>4 DEF Node, Foreign, Confirm, RollBack, Drop, RollbackStarts, Synced, OnFundingEvent,
           Attempt, Accepted, Rejected, Refused, allVars, vars, sinkVars, channels
    <3> QED
      BY <2>1, <3>1
  <2> QED
    BY <2>2, <2>3, <2>4 DEF Next, Sink, Executor
<1> QED
  BY <1>1, <1>2, PTL DEF Spec

-----------------------------------------------------------------------------
(* What our transactions spent stays off the book and the backlog.         *)

(* All of it is in the skip filter, which holds versions already made.     *)
FilterInv ==
    /\ FilterOf(skip)
    /\ \A v \in skip.members : v.tx \in 0..nextTx - 1
    /\ spentByUs \subseteq skip.members
    /\ Absent \notin spentByUs

(* It is never predicted, and where it is still taken for unconfirmed, a   *)
(* prediction hides it.                                                    *)
Hidden(e, spent) ==
    /\ e.slots["predicted"] \notin spent
    /\ e.slots["predicted"] = Absent => e.slots["unconfirmed"] \notin spent

SlotInv == \A i \in Order : Hidden(state[i], spentByUs)

BacklogInv == Absent \notin backlog.store /\ backlog.store \cap spentByUs = {}

(* A batch of the book consumes orders and pools; one of the backlog a     *)
(* pool and the order that has left the backlog for it.                    *)
BatchInv ==
    pending # None =>
      /\ Absent \notin pending.consumed
      /\ IsFiniteSet(pending.consumed)
      /\ \/ pending.kind = "book" /\ \A v \in pending.consumed : v.id \in Evolving
         \/ /\ pending.kind # "book"
            /\ \E v, p : /\ v.id \in Special /\ p.id \in Pool
                         /\ v \notin backlog.store \cup spentByUs
                         /\ pending.matched = {v} /\ pending.consumed = {p, v}

OwnInv == FilterInv /\ SlotInv /\ BacklogInv /\ BatchInv

(* What the step may add to the book of what we have spent.                *)
Sticks ==
    \A v \in (Offered \cap spentByUs)' :
        \/ v \in Offered \cap spentByUs
        \/ v.id \in Order /\ state'[v.id].slots["fallback"] = v

(* A slot of the record of i holds a version of i or nothing.              *)
LEMMA SlotsHold ==
  ASSUME NEW e, NEW i, RecordOf(e, i), NEW slot \in Slots
  PROVE  e.slots[slot] = Absent \/ (e.slots[slot].id = i /\ e.slots[slot] \in e.store)
  BY DEF RecordOf, Tight

(* What is spent of other entities, or given up, does not matter.          *)
LEMMA HiddenFrom ==
  ASSUME NEW e, NEW i, RecordOf(e, i), NEW spent, NEW more, Hidden(e, spent),
         Absent \notin more, \A v \in more \ spent : v.id # i
  PROVE  Hidden(e, more)
<1>1. "predicted" \in Slots /\ "unconfirmed" \in Slots
  BY DEF Slots
<1> QED
  BY <1>1, SlotsHold DEF Hidden

(* An event that moves forward does not uncover what we have spent: what   *)
(* it brings is not in the skip filter, or goes to another slot.           *)
LEMMA UpdatedHides ==
  ASSUME NEW r, NEW i, RecordOf(r, i), NEW e, e.dir = "forward",
         e.new # Absent => e.new.id = i, FilterInv, Hidden(r, spentByUs)
  PROVE  Hidden(Updated(r, e), spentByUs)
<1>1. "predicted" \in Slots /\ "unconfirmed" \in Slots /\ DOMAIN r.slots = Slots
  BY DEF Slots, RecordOf
<1>2. CASE e.new = Absent
  <2>1. Updated(r, e) = Eliminate(r) \/ Updated(r, e) = r
    BY <1>2 DEF Updated
  <2>2. \A s \in Slots : Eliminate(r).slots[s] = Absent
    BY DEF Eliminate
  <2> QED
    BY <1>1, <2>1, <2>2 DEF Hidden, FilterInv
<1>3. CASE e.new # Absent /\ Skipped(e)
  <2> DEFINE slot == IF e.ch = "ledger" THEN "confirmed" ELSE "fallback"
  <2>1. Updated(r, e) = Put(r, slot, e.new)
    BY <1>3 DEF Updated, WithNew
  <2>2. slot # "predicted" /\ slot # "unconfirmed"
    OBVIOUS
  <2> HIDE DEF slot
  <2>3. /\ Updated(r, e).slots["predicted"] = r.slots["predicted"]
        /\ Updated(r, e).slots["unconfirmed"] = r.slots["unconfirmed"]
    BY <1>1, <2>1, <2>2 DEF Put
  <2> QED
    BY <2>3 DEF Hidden
<1>4. CASE e.new # Absent /\ ~Skipped(e)
  <2>1. e.new \notin spentByUs
    BY <1>4 DEF Skipped, FilterInv
  <2>2. Updated(r, e) = Put(r, SlotOf(e.ch), e.new)
    BY <1>4 DEF Updated, WithNew
  <2>3. \A s \in Slots : Updated(r, e).slots[s] = IF s = SlotOf(e.ch) THEN e.new ELSE r.slots[s]
    BY <1>1, <2>2 DEF Put
  <2>4. SlotOf(e.ch) \in {"predicted", "unconfirmed", "confirmed"}
    BY DEF SlotOf
  <2> QED
    BY <1>1, <1>4, <2>1, <2>3, <2>4 DEF Hidden
<1> QED
  BY <1>2, <1>3, <1>4

(* Nor does the entity then resolve to it, unless as the fallback.         *)
LEMMA UpdatedResolves ==
  ASSUME NEW r, NEW i, RecordOf(r, i), NEW e, e.dir = "forward",
         e.new # Absent, e.new.id = i, ~Skipped(e), FilterInv, Hidden(r, spentByUs)
  PROVE  \/ Resolve(Updated(r, e)) \notin spentByUs
         \/ Resolve(Updated(r, e)) = Updated(r, e).slots["fallback"]
<1> DEFINE after == Updated(r, e)
<1>1. /\ Hidden(after, spentByUs) /\ RecordOf(after, i)
      /\ e.new \notin spentByUs /\ Absent \notin spentByUs
  BY UpdatedHides, UpdatedKeepsRecord DEF Skipped, FilterInv
<1>2. after = Put(r, SlotOf(e.ch), e.new)
  BY DEF Updated, WithNew
<1>3. SlotOf(e.ch) \in {"predicted", "unconfirmed", "confirmed"}
  BY DEF SlotOf
<1>4. after.slots[SlotOf(e.ch)] = e.new
  <2>1. SlotOf(e.ch) \in DOMAIN r.slots
    BY <1>3 DEF RecordOf, Slots
  <2> QED
    BY <1>2, <2>1 DEF Put
<1> HIDE DEF after
<1>5. \A s \in Slots : LastIn(after, s) = after.slots[s]
  BY <1>1, SlotsHold DEF LastIn
<1>6. Resolve(after) = IF after.slots["predicted"] # Absent THEN after.slots["predicted"]
                       ELSE IF after.slots["unconfirmed"] # Absent THEN after.slots["unconfirmed"]
                       ELSE IF after.slots["fallback"] # Absent THEN after.slots["fallback"]
                       ELSE after.slots["confirmed"]
  BY <1>5 DEF Resolve, Slots
<1> QED
  BY <1>1, <1>3, <1>4, <1>6 DEF Hidden, after

(* What the changes do not lead to does not enter the book.                *)
LEMMA SyncBookAdds ==
  ASSUME NEW ts, NEW ms, NEW changes, SyncBook(ts, ms, changes)
  PROVE  \A v \in takers' :
           v \in ts \/ (v.id \in Order /\ v # Absent /\ \E c \in changes : c.to = v)
<1>1. PICK from \in {Ends(changes, "from")}, to \in {Ends(changes, "to")} :
         takers' = With(Without(ts, Takers(from)), Takers(to))
  BY DEF SyncBook
<1>2. takers' \subseteq ts \cup Takers(to)
  BY <1>1 DEF With, Without
<1>3. \A v \in Takers(to) : v.id \in Order /\ v # Absent /\ \E c \in changes : c.to = v
  BY DEF Takers, Ends
<1> QED
  BY <1>2, <1>3

(* The book is told of a version in the filter by no event forward.        *)
LEMMA ToldResolves ==
  ASSUME NEW r, NEW after, NEW e, NEW c \in Told(r, after, e), c.to # Absent
  PROVE  e.new # Absent /\ ~Skipped(e) /\ c.to = Resolve(after)
<1>1. CASE e.new = Absent
  <2>1. c = [from |-> e.old, to |-> Absent]
    BY <1>1 DEF Told
  <2> QED
    BY <2>1
<1>2. CASE e.new # Absent
  <2>1. ~Skipped(e) /\ c \in Change(Resolve(r), Resolve(after))
    BY <1>2 DEF Told
  <2>2. c = [from |-> Resolve(r), to |-> Resolve(after)]
    BY <2>1 DEF Change
  <2> QED
    BY <1>2, <2>1, <2>2
<1> QED
  BY <1>1, <1>2

(* What nothing of i is in hides nothing of i.                             *)
LEMMA HiddenFromOthers ==
  ASSUME NEW e, NEW i, RecordOf(e, i), NEW spent, Absent \notin spent, \A v \in spent : v.id # i
  PROVE  Hidden(e, spent)
<1>1. Hidden(e, {})
  BY DEF Hidden
<1> QED
  BY <1>1, HiddenFrom

LEMMA OnPairEventSticks ==
  ASSUME OwnInv, IndexInv, IndexInv', FeedInv, OnPairEvent
  PROVE  OwnInv' /\ Sticks
<1> DEFINE e == Head(upstream)
           i == IdOf(e)
<1>1. About(e)
  <2>1. PICK S : upstream \in Seq(S) /\ \A x \in S : About(x)
    BY DEF FeedInv
  <2>2. upstream # <<>>
    BY DEF OnPairEvent
  <2>3. Head(upstream) \in S
    BY <2>1, <2>2
  <2> QED
    BY <2>1, <2>3
<1>2. /\ spentByUs' = {v \in spentByUs : e.dir = "forward" \/ v.id # i}
      /\ pending' = None /\ nextTx' = nextTx
      /\ IF i \in Special THEN OnSpecial(e) ELSE OnEntity(e)
  BY DEF OnPairEvent, nodeVars
<1>3. e.new # Absent => e.new.id = i
  BY DEF IdOf
<1>4. BatchInv'
  BY <1>2 DEF BatchInv
<1>5. i \in Evolving \cup Special
  BY <1>1 DEF About
<1> HIDE DEF i, e
<1>6. spentByUs' \subseteq spentByUs /\ Absent \notin spentByUs'
  BY <1>2 DEF OwnInv, FilterInv
<1>7. ASSUME NEW j \in Order, state'[j] = state[j] PROVE Hidden(state[j], spentByUs')
  <2>1. RecordOf(state[j], j)
    BY DEF IndexInv, Evolving
  <2>2. Hidden(state[j], spentByUs)
    BY DEF OwnInv, SlotInv
  <2> QED
    BY <1>6, <2>1, <2>2, HiddenFrom
<1>8. CASE i \in Special
  <2>1. OnSpecial(e)
    BY <1>2, <1>8
  <2>2. state' = state /\ takers' = takers /\ skip' = skip /\ backlog' = SyncedBacklog(e)
    BY <2>1 DEF OnSpecial
  <2>3. FilterInv'
    BY <1>2, <1>6, <2>2 DEF OwnInv, FilterInv, FilterOf
  <2>4. SlotInv'
    BY <1>7, <2>2 DEF SlotInv, Hidden
  <2>5. \A v \in SyncedBacklog(e).store :
          v \in backlog.store \/ (v = e.new /\ v # Absent /\ v \notin skip.members)
    BY DEF SyncedBacklog, PutOrder, RemoveOrder, SoftEvict
  <2>6. BacklogInv'
    BY <1>6, <2>2, <2>5 DEF OwnInv, BacklogInv, FilterInv
  <2>7. Sticks
    BY <1>6, <2>2, <2>6 DEF Sticks, Offered, BacklogInv
  <2> QED
    BY <1>4, <2>3, <2>4, <2>6, <2>7 DEF OwnInv
<1>9. CASE i \notin Special
  <2> DEFINE after == Updated(state[i], e)
  <2>1. OnEntity(e) /\ i \in Evolving
    BY <1>2, <1>5, <1>9
  <2>2. /\ state' = [state EXCEPT ![i] = after]
        /\ SyncBook(takers, makers, Told(state[i], after, e))
        /\ skip' = IF e.dir = "backward" THEN TakeOff(skip, e.new) ELSE skip
        /\ backlog' = backlog
    BY <2>1 DEF OnEntity, i
  <2>3. state'[i] = after /\ \A j \in Evolving \ {i} : state'[j] = state[j]
    BY <2>1, <2>2 DEF IndexInv
  <2>4. RecordOf(state[i], i) /\ RecordOf(after, i)
    BY <1>3, <2>1, UpdatedKeepsRecord DEF IndexInv
  <2> HIDE DEF after
  <2>5. BacklogInv'
    BY <1>6, <2>2 DEF OwnInv, BacklogInv
  <2>6. \A v \in takers' : v \in takers \/ (/\ v.id \in Order /\ v = Resolve(after) /\ v.id = i
                                           /\ e.new # Absent /\ ~Skipped(e))
    <3> SUFFICES ASSUME NEW v \in takers', v \notin takers
                 PROVE  /\ v.id \in Order /\ v = Resolve(after) /\ v.id = i
                        /\ e.new # Absent /\ ~Skipped(e)
      OBVIOUS
    <3>1. v.id \in Order /\ v # Absent /\ \E c \in Told(state[i], after, e) : c.to = v
      BY <2>2, SyncBookAdds
    <3>2. v = Resolve(after) /\ e.new # Absent /\ ~Skipped(e)
      BY <3>1, ToldResolves
    <3>3. v.id = i
      BY <2>4, <3>1, <3>2, ResolveInStore DEF RecordOf
    <3> QED
      BY <3>1, <3>2, <3>3
  <2>7. CASE e.dir = "forward"
    <3>1. skip' = skip /\ spentByUs' = spentByUs
      BY <1>2, <2>2, <2>7
    <3>2. FilterInv'
      BY <1>2, <3>1 DEF OwnInv, FilterInv, FilterOf
    <3>3. ASSUME NEW j \in Order PROVE Hidden(state'[j], spentByUs')
      <4>1. CASE j = i
        <5>1. Hidden(state[i], spentByUs) /\ FilterInv
          BY <4>1 DEF OwnInv, SlotInv
        <5>2. Hidden(after, spentByUs)
          BY <1>3, <2>4, <2>7, <5>1, UpdatedHides DEF after
        <5> QED
          BY <2>3, <3>1, <4>1, <5>2
      <4>2. CASE j # i
        BY <1>7, <2>3, <4>2 DEF Evolving
      <4> QED
        BY <4>1, <4>2
    <3>4. Sticks
      <4> SUFFICES ASSUME NEW v \in takers', v \in spentByUs', v \notin takers
                   PROVE  v.id \in Order /\ state'[v.id].slots["fallback"] = v
        BY <2>5, <3>1 DEF Sticks, Offered, BacklogInv
      <4>1. v.id \in Order /\ v = Resolve(after) /\ v.id = i /\ e.new # Absent /\ ~Skipped(e)
        BY <2>6
      <4>2. Hidden(state[i], spentByUs) /\ FilterInv
        BY <4>1 DEF OwnInv, SlotInv
      <4>3. Resolve(after) \notin spentByUs \/ Resolve(after) = after.slots["fallback"]
        BY <1>3, <2>4, <2>7, <4>1, <4>2, UpdatedResolves DEF after
      <4> QED
        BY <2>3, <3>1, <4>1, <4>3
    <3> QED
      BY <1>4, <2>5, <3>2, <3>3, <3>4 DEF OwnInv, SlotInv, Hidden
  <2>8. CASE e.dir # "forward"
    <3>1. \A v \in spentByUs' : v.id # i /\ v # e.new
      BY <1>2, <1>3, <1>6, <2>8
    <3>2. skip'.buffer = skip.buffer /\ skip'.members \subseteq skip.members
          /\ skip.members \subseteq skip'.members \cup {e.new}
      BY <2>2 DEF TakeOff
    <3>3. FilterInv'
      BY <1>2, <1>6, <3>1, <3>2 DEF OwnInv, FilterInv, FilterOf
    <3>4. ASSUME NEW j \in Order PROVE Hidden(state'[j], spentByUs')
      <4>1. CASE j = i
        BY <1>6, <2>3, <2>4, <3>1, <4>1, HiddenFromOthers
      <4>2. CASE j # i
        BY <1>7, <2>3, <4>2 DEF Evolving
      <4> QED
        BY <4>1, <4>2
    <3>5. Sticks
      BY <1>6, <2>5, <2>6, <3>1 DEF Sticks, Offered, BacklogInv
    <3> QED
      BY <1>4, <2>5, <3>3, <3>4, <3>5 DEF OwnInv, SlotInv, Hidden
  <2> QED
    BY <2>7, <2>8
<1> QED
  BY <1>8, <1>9

(* A batch under way takes its order off the backlog.                      *)
LEMMA AttemptSticks ==
  ASSUME FiniteIds, OwnInv, IndexInv, IndexInv', Attempt
  PROVE  OwnInv' /\ Sticks
<1>1. /\ state' = state /\ skip' = skip /\ spentByUs' = spentByUs /\ nextTx' = nextTx
      /\ pending = None
  BY DEF Attempt, Ready, vars, nodeVars
<1>2. FilterInv' /\ SlotInv'
  BY <1>1 DEF OwnInv, FilterInv, FilterOf, SlotInv, Hidden
<1>3. CASE TradeBook
  <2>1. PICK m \in Proposals :
          /\ Orphans(m) = {}
          /\ \E box \in fundingPool, io \in BoxUses, left \in {{}} \cup {{v.id} : v \in Takers(m)} :
               pending' = [kind |-> "book", matched |-> m, consumed |-> Linked(m), left |-> left,
                           fund |-> IF io = "replaced" THEN {box} ELSE {},
                           made |-> IF io = "unused" THEN {} ELSE {box.id}]
    BY <1>3 DEF TradeBook
  <2>2. pending'.kind = "book" /\ pending'.consumed = Linked(m)
    BY <2>1
  <2>3. takers' = takers /\ backlog' = backlog
    BY <1>3 DEF TradeBook
  <2>4. \A w \in m : w.id \in Evolving
    BY DEF Proposals, Quoted, IndexInv, BookOf, Evolving
  <2>5. ASSUME NEW v \in Linked(m) PROVE v # Absent /\ v.id \in Evolving
    <3>1. PICK w \in m : v = Resolve(state[w.id])
      BY DEF Linked
    <3>2. v # Absent /\ w.id \in Evolving
      BY <2>1, <2>4, <3>1 DEF Orphans
    <3>3. v.id = w.id
      BY <3>1, <3>2, ResolveInStore DEF IndexInv, RecordOf
    <3> QED
      BY <3>2, <3>3
  <2>6. IsFiniteSet(Linked(m))
    <3> DEFINE resolved == [i \in Evolving |-> Resolve(state[i])]
    <3>1. IsFiniteSet(Evolving)
      BY FS_Union DEF FiniteIds, Evolving
    <3>2. IsFiniteSet({resolved[i] : i \in Evolving})
      <4>1. DOMAIN resolved = Evolving
        OBVIOUS
      <4> HIDE DEF resolved
      <4> QED
        BY <3>1, <4>1, ImageFinite
    <3>3. Linked(m) \subseteq {resolved[i] : i \in Evolving}
      BY <2>4 DEF Linked
    <3> QED
      BY <3>2, <3>3, FS_Subset
  <2>7. BatchInv'
    BY <2>2, <2>5, <2>6 DEF BatchInv
  <2> QED
    BY <1>1, <1>2, <2>3, <2>7 DEF OwnInv, BacklogInv, Sticks, Offered
<1>4. CASE BookYieldsNothing /\ TryBacklog
  <2>1. takers' \subseteq takers
    <3>1. CASE UNCHANGED <<takers, makers>>
      BY <3>1
    <3>2. CASE \E m \in Proposals :
                 SyncBook(takers, makers, {[from |-> v, to |-> Absent] : v \in Orphans(m)})
      <4>1. PICK m \in Proposals :
              SyncBook(takers, makers, {[from |-> v, to |-> Absent] : v \in Orphans(m)})
        BY <3>2
      <4>2. \A c \in {[from |-> v, to |-> Absent] : v \in Orphans(m)} : c.to = Absent
        OBVIOUS
      <4> QED
        BY <4>1, <4>2, SyncBookAdds
    <3> QED
      BY <1>4, <3>1, <3>2 DEF BookYieldsNothing
  <2>2. BacklogInv' /\ BatchInv'
    <3>1. CASE backlog.store = {}
      <4>1. pending' = None /\ backlog' = backlog
        BY <1>1, <1>4, <3>1 DEF TryBacklog
      <4> QED
        BY <1>1, <4>1 DEF OwnInv, BacklogInv, BatchInv
    <3>2. CASE backlog.store # {}
      <4>1. PICK v \in backlog.store :
              /\ backlog' = [store |-> backlog.store \ {v}, softEvicted |-> backlog.softEvicted]
              /\ LET pool == Resolve(state[PoolOf[v.id]])
                 IN  \/ /\ pool # Absent
                        /\ pending' = [kind |-> "special", matched |-> {v}, consumed |-> {pool, v},
                                       left |-> {}, fund |-> {}, made |-> {}]
                     \/ UNCHANGED pending
        BY <1>4, <3>2 DEF TryBacklog
      <4> DEFINE pool == Resolve(state[PoolOf[v.id]])
      <4>2. v.id \in Special /\ v # Absent /\ v \notin spentByUs
        BY DEF IndexInv, BacklogOf, OwnInv, BacklogInv
      <4>3. PoolOf[v.id] \in Pool /\ PoolOf[v.id] \in Evolving
        BY <4>2, SinkAssumption DEF Evolving
      <4>4. pool # Absent => pool.id \in Pool
        BY <4>3, ResolveInStore DEF IndexInv, RecordOf
      <4>5. backlog'.store = backlog.store \ {v}
        BY <4>1
      <4>6. BacklogInv'
        BY <1>1, <4>5 DEF OwnInv, BacklogInv
      <4> HIDE DEF pool
      <4>7. CASE pool # Absent /\ pending' = [kind |-> "special", matched |-> {v}, consumed |-> {pool, v},
                                              left |-> {}, fund |-> {}, made |-> {}]
        <5>1. pending'.kind = "special" /\ pending'.matched = {v} /\ pending'.consumed = {pool, v}
          BY <4>7
        <5>2. IsFiniteSet({pool, v})
          <6>1. IsFiniteSet({pool})
            BY FS_Singleton
          <6>2. IsFiniteSet({pool} \cup {v})
            BY <6>1, FS_AddElement
          <6>3. {pool, v} = {pool} \cup {v}
            OBVIOUS
          <6> QED
            BY <6>2, <6>3
        <5>3. v \notin backlog'.store \cup spentByUs'
          BY <1>1, <4>2, <4>5
        <5> QED
          BY <4>2, <4>4, <4>6, <4>7, <5>1, <5>2, <5>3 DEF BatchInv
      <4>8. CASE pending' = None
        BY <4>6, <4>8 DEF BatchInv
      <4> QED
        BY <1>1, <4>1, <4>7, <4>8 DEF pool
    <3> QED
      BY <3>1, <3>2
  <2> QED
    BY <1>1, <1>2, <2>1, <2>2 DEF OwnInv, BacklogInv, Sticks, Offered
<1> QED
  BY <1>3, <1>4 DEF Attempt

(* What the node misses is given up, with all we spent of that entity.     *)
LEMMA RejectedSticks ==
  ASSUME OwnInv, IndexInv, IndexInv', Rejected
  PROVE  OwnInv' /\ Sticks
<1>1. pending # None /\ pending' = None /\ skip' = skip /\ nextTx' = nextTx
  BY DEF Rejected, vars, nodeVars
<1>2. PICK gone :
        /\ \A w \in gone : w.id \in Evolving
        /\ state' = Invalidated(gone)
        /\ SyncBook(takers, makers, ChangesBy(gone, Invalidated(gone)))
        /\ spentByUs' = {v \in spentByUs : \A w \in gone : v.id # w.id}
  BY DEF Rejected
<1>3. spentByUs' \subseteq spentByUs /\ Absent \notin spentByUs'
  BY <1>2 DEF OwnInv, FilterInv
<1>4. FilterInv'
  BY <1>1, <1>3 DEF OwnInv, FilterInv, FilterOf
<1>5. ASSUME NEW j \in Order PROVE Hidden(state'[j], spentByUs')
  <2>1. j \in Evolving /\ RecordOf(state[j], j) /\ RecordOf(state'[j], j)
    BY DEF IndexInv, Evolving
  <2>2. CASE \E w \in gone : w.id = j
    BY <1>2, <1>3, <2>1, <2>2, HiddenFromOthers
  <2>3. CASE ~\E w \in gone : w.id = j
    <3>1. state'[j] = state[j]
      BY <1>2, <2>1, <2>3 DEF Invalidated
    <3> QED
      BY <1>3, <2>1, <3>1, HiddenFrom DEF OwnInv, SlotInv
  <2> QED
    BY <2>2, <2>3
<1>6. BacklogInv'
  <2>1. \/ backlog' = backlog
        \/ pending.kind # "book" /\ backlog' = SoftEvict(backlog, TheOrder)
        \/ pending.kind # "book" /\ backlog' = PutOrder(backlog, TheOrder)
    BY DEF Rejected
  <2>2. pending.kind # "book" => TheOrder # Absent /\ TheOrder \notin spentByUs
    BY <1>1 DEF OwnInv, BatchInv, TheOrder
  <2> QED
    BY <1>3, <2>1, <2>2 DEF OwnInv, BacklogInv, PutOrder, SoftEvict
<1>7. Sticks
  <2> SUFFICES ASSUME NEW v \in takers', v \in spentByUs', v \notin takers
               PROVE  FALSE
    BY <1>3, <1>6 DEF Sticks, Offered, BacklogInv
  <2>1. v # Absent /\ \E c \in ChangesBy(gone, Invalidated(gone)) : c.to = v
    BY <1>2, SyncBookAdds
  <2>2. PICK w \in gone : v = Resolve(state'[w.id])
    BY <1>2, <2>1 DEF ChangesBy, Change
  <2>3. v.id = w.id
    BY <1>2, <2>1, <2>2, ResolveInStore DEF IndexInv, RecordOf
  <2> QED
    BY <1>2, <2>2, <2>3
<1> QED
  BY <1>1, <1>4, <1>5, <1>6, <1>7 DEF OwnInv, SlotInv, Hidden, BatchInv

LEMMA RefusedSticks == ASSUME OwnInv, Refused PROVE OwnInv' /\ Sticks
<1>1. /\ pending # None /\ pending' = None /\ skip' = skip /\ nextTx' = nextTx
      /\ state' = state /\ spentByUs' = spentByUs /\ takers' \subseteq takers
  BY DEF Refused, vars, nodeVars, Without
<1>2. FilterInv' /\ SlotInv'
  BY <1>1 DEF OwnInv, FilterInv, FilterOf, SlotInv, Hidden
<1>3. BacklogInv'
  <2>1. \/ backlog' = backlog
        \/ pending.kind # "book" /\ backlog' = PutOrder(backlog, TheOrder)
    BY DEF Refused
  <2>2. pending.kind # "book" => TheOrder # Absent /\ TheOrder \notin spentByUs
    BY <1>1 DEF OwnInv, BatchInv, TheOrder
  <2> QED
    BY <1>1, <2>1, <2>2 DEF OwnInv, BacklogInv, PutOrder
<1> QED
  BY <1>1, <1>2, <1>3 DEF OwnInv, BatchInv, BacklogInv, Sticks, Offered

(* What an accepted transaction spent goes into the filter, and its        *)
(* successor is predicted in its place.                                    *)
LEMMA AcceptedSticks ==
  ASSUME OwnInv, IndexInv, IndexInv', NodeInv, Accepted, Roomy'
  PROVE  OwnInv' /\ Sticks
<1> DEFINE C == pending.consumed
           spent == {v \in C : v.id \notin Pool}
<1>1. /\ pending # None /\ pending' = None /\ backlog' = backlog
      /\ spentByUs' = spentByUs \cup spent
      /\ nextTx \in Nat /\ nextTx' = nextTx + 1
  BY DEF Accepted, Accept, NodeInv
<1>2. \A v \in C : v.tx \in 0..nextTx - 1
  <2>1. C \subseteq Unspent
    BY DEF Accepted, Missing, Inputs
  <2> QED
    BY <2>1, UnspentMade
<1>3. Absent \notin C /\ IsFiniteSet(C)
  BY <1>1 DEF OwnInv, BatchInv
<1>4. Absent \notin spentByUs'
  BY <1>1, <1>3 DEF OwnInv, FilterInv
<1>5. \A v \in skip.members \cup C : v.tx \in 0..nextTx - 1 /\ v.tx \in 0..nextTx' - 1
  BY <1>1, <1>2 DEF OwnInv, FilterInv
<1>6. ASSUME NEW i PROVE Out(i) \notin skip.members \cup C /\ Out(i) \notin spentByUs'
  <2>1. Out(i).tx = nextTx /\ nextTx \notin 0..nextTx - 1
    BY <1>1 DEF Out
  <2>2. Out(i) \notin skip.members \cup C
    BY <1>5, <2>1
  <2> QED
    BY <1>1, <2>2 DEF OwnInv, FilterInv
<1>7. ASSUME NEW added \in SUBSET C, IsFiniteSet(added), spent \subseteq added, skip' = AddAll(skip, added)
      PROVE  FilterInv'
  <2>1. FilterOf(skip)
    BY DEF OwnInv, FilterInv
  <2>2. /\ FilterOf(skip') /\ skip'.members \subseteq skip.members \cup added
        /\ Len(skip'.buffer) < FilterSize => skip'.members = skip.members \cup added
    BY <1>7, <2>1, AddAllAdds
  <2>3. skip'.members = skip.members \cup added
    BY <2>2 DEF Roomy
  <2>4. spentByUs' \subseteq skip'.members
    BY <1>1, <1>7, <2>3 DEF OwnInv, FilterInv
  <2> QED
    BY <1>4, <1>5, <1>7, <2>2, <2>3, <2>4 DEF FilterInv, FilterOf
<1>8. ASSUME NEW j \in Order, \A v \in spent : v.id # j PROVE Hidden(state[j], spentByUs')
  <2>1. RecordOf(state[j], j) /\ Hidden(state[j], spentByUs)
    BY DEF IndexInv, Evolving, OwnInv, SlotInv
  <2> HIDE DEF spent
  <2> QED
    BY <1>1, <1>4, <1>8, <2>1, HiddenFrom
<1>9. CASE pending.kind = "book"
  <2> DEFINE effects == {Local(v, Successor(v)) : v \in C}
             after == Applied(effects)
  <2>1. /\ state' = after
        /\ SyncBook(Committed(takers), makers,
                    UNION {Told(state[e.old.id], after[e.old.id], e) : e \in effects})
        /\ skip' = AddAll(skip, C)
    BY <1>9, Zenon DEF Accepted, OnBookSuccess
  <2>0. \A old, new : /\ Local(old, new).old = old /\ Local(old, new).new = new
                      /\ Local(old, new).ch = "local" /\ Local(old, new).dir = "forward"
    BY DEF Local
  <2>2. pending.matched = C /\ \A v \in C : v.id \in Evolving
    BY <1>1, <1>9 DEF Accepted, Stale, OwnInv, BatchInv
  <2>3. FilterInv'
    BY <1>3, <1>7, <2>1
  <2>4. ASSUME NEW v \in C, v.id \in Order
        PROVE  /\ Hidden(after[v.id], spentByUs')
               /\ Successor(v) # Absent => after[v.id].slots["predicted"] = Out(v.id)
    <3> DEFINE i == v.id
               e == CHOOSE x \in effects : x.old.id = i
    <3>1. i \in Evolving /\ i \notin Pool /\ RecordOf(state[i], i)
      BY <2>4, SinkAssumption DEF IndexInv, Evolving
    <3>2. \E x \in effects : x.old.id = i
      <4>1. Local(v, Successor(v)) \in effects
        OBVIOUS
      <4> HIDE DEF effects
      <4> QED
        BY <2>0, <4>1
    <3>3. e \in effects /\ e.old.id = i /\ after[i] = Updated(state[i], e)
      BY <3>1, <3>2 DEF Applied
    <3>4. PICK w \in C : e = Local(w, Successor(w))
      <4> HIDE DEF e
      <4> QED
        BY <3>3
    <3> HIDE DEF e
    <3>5. e.ch = "local" /\ e.dir = "forward" /\ w.id = i /\ e.new = Successor(w)
      BY <2>0, <3>3, <3>4
    <3>6. Successor(w) = Successor(v) /\ (Successor(v) = Absent \/ Successor(v) = Out(i))
      BY <3>5 DEF Successor
    <3> HIDE DEF effects, after, i
    <3>7. "predicted" \in Slots /\ "unconfirmed" \in Slots
      BY DEF Slots
    <3>8. CASE Successor(v) = Absent
      <4>1. after[i] = Eliminate(state[i])
        BY <3>1, <3>3, <3>5, <3>6, <3>8 DEF Updated
      <4>2. \A s \in Slots : after[i].slots[s] = Absent
        BY <4>1 DEF Eliminate
      <4> QED
        BY <1>4, <3>7, <3>8, <4>2 DEF Hidden, i
    <3>9. CASE Successor(v) # Absent
      <4>1. e.new = Out(i) /\ e.new # Absent
        BY <3>5, <3>6, <3>9
      <4>2. ~Skipped(e)
        BY <1>6, <4>1 DEF Skipped
      <4>3. after[i] = Put(state[i], "predicted", Out(i))
        BY <3>3, <3>5, <4>1, <4>2 DEF Updated, WithNew, SlotOf
      <4>4. after[i].slots["predicted"] = Out(i)
        BY <3>1, <3>7, <4>3 DEF Put, RecordOf
      <4> QED
        BY <1>6, <4>1, <4>4 DEF Hidden, i
    <3> QED
      BY <3>8, <3>9
  <2>5. SlotInv'
    <3>1. ASSUME NEW j \in Order PROVE Hidden(state'[j], spentByUs')
      <4>1. CASE \E v \in C : v.id = j
        BY <2>1, <2>4, <4>1
      <4>2. CASE ~\E v \in C : v.id = j
        <5>1. state'[j] = state[j]
          BY <2>1, <4>2 DEF Applied, Local, Evolving
        <5> QED
          BY <1>8, <4>2, <5>1
      <4> QED
        BY <4>1, <4>2
    <3> QED
      BY <3>1 DEF SlotInv, Hidden
  <2>6. BacklogInv'
    <3>1. \A v \in backlog.store : v.id \notin Evolving
      BY SinkAssumption DEF IndexInv, BacklogOf, Evolving
    <3> QED
      BY <1>1, <2>2, <3>1 DEF OwnInv, BacklogInv
  <2>7. Sticks
    <3> SUFFICES ASSUME NEW v \in takers', v \in spentByUs', v \notin takers \/ v \notin spentByUs
                 PROVE  FALSE
      BY <1>1, <2>6 DEF Sticks, Offered, BacklogInv
    <3>1. \/ v \in Committed(takers)
          \/ /\ v.id \in Order /\ v # Absent
             /\ \E e \in effects : \E c \in Told(state[e.old.id], after[e.old.id], e) : c.to = v
      <4> HIDE DEF effects, after
      <4>1. \/ v \in Committed(takers)
            \/ /\ v.id \in Order /\ v # Absent
               /\ \E c \in UNION {Told(state[e.old.id], after[e.old.id], e) : e \in effects} : c.to = v
        BY <2>1, SyncBookAdds
      <4> QED
        BY <4>1
    <3>2. CASE v \in Committed(takers)
      <4>1. v \in takers \ C \/ \E i : v = Out(i)
        BY <2>2, <3>2 DEF Committed, With
      <4> QED
        BY <1>1, <1>6, <4>1
    <3>3. CASE v.id \in Order /\ v # Absent
               /\ \E e \in effects : \E c \in Told(state[e.old.id], after[e.old.id], e) : c.to = v
      <4>1. PICK w \in C : \E c \in Told(state[w.id], after[w.id], Local(w, Successor(w))) : c.to = v
        <5>1. PICK e \in effects : \E c \in Told(state[e.old.id], after[e.old.id], e) : c.to = v
          BY <3>3
        <5>2. PICK w \in C : e = Local(w, Successor(w))
          OBVIOUS
        <5>3. e.old = w
          BY <2>0, <5>2
        <5> HIDE DEF effects, after
        <5> QED
          BY <5>1, <5>2, <5>3
      <4>2. Local(w, Successor(w)).new # Absent /\ v = Resolve(after[w.id])
        BY <3>3, <4>1, ToldResolves
      <4>3. Successor(w) # Absent
        BY <4>2 DEF Local
      <4>4. w.id \in Evolving /\ RecordOf(after[w.id], w.id)
        BY <2>1, <2>2 DEF IndexInv
      <4> HIDE DEF after
      <4>5. v.id = w.id
        BY <3>3, <4>2, <4>4, ResolveInStore DEF RecordOf
      <4>6. Hidden(after[w.id], spentByUs') /\ after[w.id].slots["predicted"] = Out(w.id)
        BY <2>4, <3>3, <4>3, <4>5
      <4>7. Out(w.id) # Absent
        BY <4>3 DEF Successor
      <4>8. LastIn(after[w.id], "predicted") = Out(w.id)
        BY <4>4, <4>6, <4>7, SlotsHold DEF LastIn, Slots
      <4>9. v = Out(w.id)
        BY <4>2, <4>7, <4>8 DEF Resolve
      <4> QED
        BY <1>6, <4>9
    <3> QED
      BY <3>1, <3>2, <3>3
  <2> QED
    BY <1>1, <2>3, <2>5, <2>6, <2>7 DEF OwnInv, BatchInv
<1>10. CASE pending.kind # "book"
  <2>1. PICK v, p : /\ v.id \in Special /\ p.id \in Pool
                    /\ v \notin backlog.store \cup spentByUs
                    /\ pending.matched = {v} /\ C = {p, v}
    BY <1>1, <1>10 DEF OwnInv, BatchInv
  <2>2. v.id \notin Pool /\ v.id \notin Order
    BY <2>1, SinkAssumption
  <2>3. spent = {v}
    BY <2>1, <2>2
  <2>4. OnBacklogSuccess
    BY <1>10 DEF Accepted
  <2> DEFINE pool == CHOOSE x \in C : x.id \in Pool
  <2>5. /\ \E new : state' = [state EXCEPT ![pool.id] = new]
        /\ skip' = AddAll(skip, pending.matched) /\ takers' = takers
    BY <2>4 DEF OnBacklogSuccess
  <2>6. pool.id \in Pool
    BY <2>1
  <2> HIDE DEF pool
  <2>7. FilterInv'
    <3>1. IsFiniteSet(pending.matched)
      BY <2>1, FS_Singleton
    <3> HIDE DEF spent, C
    <3> QED
      BY <1>7, <2>1, <2>3, <2>5, <3>1
  <2>8. ASSUME NEW j \in Order PROVE Hidden(state'[j], spentByUs')
    <3>1. state'[j] = state[j]
      BY <2>5, <2>6, SinkAssumption DEF IndexInv, Evolving
    <3>2. \A x \in spent : x.id # j
      BY <2>2, <2>3
    <3> HIDE DEF spent
    <3> QED
      BY <1>8, <3>1, <3>2
  <2>9. BacklogInv'
    <3> HIDE DEF spent
    <3> QED
      BY <1>1, <2>1, <2>3 DEF OwnInv, BacklogInv
  <2>10. Sticks
    <3>1. v \notin takers
      BY <2>2 DEF IndexInv, BookOf
    <3> HIDE DEF spent
    <3> QED
      BY <1>1, <2>3, <2>5, <2>9, <3>1 DEF Sticks, Offered, BacklogInv
  <2> QED
    BY <1>1, <2>7, <2>8, <2>9, <2>10 DEF OwnInv, SlotInv, Hidden, BatchInv
<1> QED
  BY <1>9, <1>10

(* The steps of the node and the sink leave all of it alone, but for the   *)
(* number of the next transaction.                                         *)
LEMMA EngineSticks ==
  ASSUME FiniteIds, OwnInv, IndexInv, IndexInv', NodeInv, FeedInv, [Next]_allVars, Roomy'
  PROVE  OwnInv' /\ Sticks
<1>1. CASE UNCHANGED engineVars /\ (nextTx' = nextTx \/ nextTx' = nextTx + 1)
  <2>1. UNCHANGED <<state, takers, backlog, skip, pending, spentByUs>>
    BY <1>1 DEF engineVars
  <2>2. \A v : v.tx \in 0..nextTx - 1 => v.tx \in 0..nextTx' - 1
    BY <1>1 DEF NodeInv
  <2>3. FilterInv'
    BY <2>1, <2>2 DEF OwnInv, FilterInv, FilterOf
  <2> QED
    BY <2>1, <2>3 DEF OwnInv, SlotInv, Hidden, BacklogInv, BatchInv, Sticks, Offered
<1>2. CASE OnFundingEvent
  BY <1>2 DEF OnFundingEvent, nodeVars, OwnInv, FilterInv, FilterOf, SlotInv, Hidden, BacklogInv,
     BatchInv, Sticks, Offered
<1>3. CASE (Sink \/ Node) /\ UNCHANGED engineVars
  <2>1. Sink => nextTx' = nextTx
    BY DEF Sink, LedgerEvent, RollbackStarts, Synced, MempoolAccepted, MempoolDropped, nodeVars
  <2>2. Foreign => nextTx' = nextTx + 1
    BY DEF Foreign, Create, Trade, Cancel, Rival, Accept
  <2>3. Confirm \/ RollBack \/ Drop => nextTx' = nextTx
    BY DEF Confirm, RollBack, Drop
  <2> QED
    BY <1>1, <1>3, <2>1, <2>2, <2>3 DEF Node
<1>4. CASE UNCHANGED allVars
  BY <1>1, <1>4 DEF allVars, vars, nodeVars
<1> QED
  BY <1>1, <1>2, <1>3, <1>4, OnPairEventSticks, AttemptSticks, AcceptedSticks, RejectedSticks,
     RefusedSticks DEF Next, Executor, allVars

(* OwnSpendsStick, for any pools, orders and faults, as long as the skip   *)
(* filter has room: what our accepted transactions have spent comes back   *)
(* into the book, if at all, as the fallback only, and never into the      *)
(* backlog.                                                                *)
THEOREM OwnSpendsStickHolds == ASSUME FiniteIds PROVE Spec /\ []Roomy => OwnSpendsStick
<1>1. Init => OwnInv
  <2> SUFFICES ASSUME Init PROVE OwnInv
    OBVIOUS
  <2>1. /\ state = [i \in Evolving |-> Unknown] /\ pending = None /\ spentByUs = {}
        /\ backlog = [store |-> {}, softEvicted |-> [buffer |-> <<>>, members |-> {}]]
        /\ skip = [buffer |-> <<>>, members |-> {}]
    BY DEF Init, NoneSeen
  <2>2. FilterOf(skip)
    <3>1. skip.buffer \in Seq({}) /\ Len(skip.buffer) = 0
      BY <2>1
    <3> QED
      BY <3>1, EngineAssumption DEF FilterOf
  <2>3. FilterInv
    BY <2>1, <2>2 DEF FilterInv
  <2> QED
    BY <2>1, <2>3 DEF OwnInv, SlotInv, Hidden, BacklogInv, BatchInv
<1>2. /\ OwnInv /\ IndexInv /\ IndexInv' /\ NodeInv /\ FeedInv /\ Roomy' /\ [Next]_allVars
      => OwnInv' /\ Sticks
  BY EngineSticks
<1>3. Spec => []FeedInv
  BY FeedInvHolds
<1>4. Spec /\ []Roomy => [][Sticks]_allVars
  <2>1. Sticks => [Sticks]_allVars
    OBVIOUS
  <2> QED
    BY <1>1, <1>2, <1>3, <2>1, IndexInvHolds, NodeInvHolds, PTL DEF Spec
<1>5. [][Sticks]_allVars <=> OwnSpendsStick
  BY DEF Sticks, OwnSpendsStick
<1> QED
  BY <1>4, <1>5

=============================================================================
