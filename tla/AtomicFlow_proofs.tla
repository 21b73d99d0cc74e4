-------------------------- MODULE AtomicFlow_proofs --------------------------
(***************************************************************************)
(* Spec => []Resumable: what a process that ends between two stages of the *)
(* atomic flow can lose for the consumer is the block it had undone and    *)
(* that was not yet deleted, and nothing else, for every tree of blocks and*)
(* every number of crashes at any stage but one: between the two writes of *)
(* a block to the cache (or of its deletion), which leave a tip without a  *)
(* block.                                                                  *)
(*                                                                         *)
(* The argument is about what a restart will find.  The cache is the path  *)
(* of its tip from one of two feet: the starting point, or the origin of   *)
(* the chain, which the tip falls back to when the first block after the   *)
(* starting point is undone (its link is Origin).  A client that restarts  *)
(* there reads the chain from its first block.  The consumer holds the     *)
(* chain to the tip, and gives a block up only once it is to be uncached:  *)
(* one that is still cached when the process ends counts as lost until it  *)
(* is sent again, one way or the other.                                    *)
(***************************************************************************)
EXTENDS AtomicFlow, ChainNode_proofs

(* The process does not end between the two writes to the cache.           *)
Configured == CrashAt \subseteq {"pull", "sent", "consumed", "acked", "undone", "rollback"}

-----------------------------------------------------------------------------
(* The invariant.                                                          *)

(* Where a client starts from tip t, and what a block is linked to there.  *)
Best(t) == IF t = NoTip THEN StartPoint ELSE t
LinkTo(t) == IF t = NoTip THEN Origin ELSE t

Linked(links) == {b \in Block : links[b] # NotCached}

(* The cache is the path of t, from the origin or from the starting point. *)
FromOrigin(links, t) ==
    /\ t \in Point
    /\ Linked(links) = {b \in Block : OnPath(b, t)}
    /\ \A b \in Linked(links) : links[b] = Parent(b)

FromStart(links, t) ==
    /\ t = NoTip \/ (t \in Block /\ OnPath(StartPoint, Parent(t)))
    /\ Linked(links) = AfterStart(Best(t))
    /\ \A b \in Linked(links) : links[b] = IF Parent(b) = StartPoint THEN Origin ELSE Parent(b)

Whole(links, t) == FromOrigin(links, t) \/ FromStart(links, t)

(* A read pointer p that follows tip t, ...                                *)
Follows(links, p, t) ==
    \/ Whole(links, t) /\ p = Best(t)
    \/ FromOrigin(links, t) /\ t = Origin /\ p = StartPoint

(* ... and one that a rollback from t leads to.                            *)
LeadsTo(links, p, t) ==
    \/ FromOrigin(links, t) /\ OnPath(p, t)
    \/ FromStart(links, t) /\ OnPath(p, Best(t)) /\ OnPath(StartPoint, p)
    \/ FromOrigin(links, t) /\ t = Origin /\ p = StartPoint

(* What the consumer holds, and what a crash made it lose.                 *)
Known == applied \cup lost

Held(t) == TxsUpTo(Best(t)) \subseteq Known

Typed ==
    /\ node \in Point /\ ptr \in Point
    /\ OnPath(StartPoint, node)
    /\ prev \in [Block -> Point \cup {NotCached}]

Down == step = [at |-> "down"] /\ Whole(prev, tip) /\ Held(tip)

Pulls == step = Pulling /\ Follows(prev, ptr, tip) /\ Held(tip)

InHand == {"sent", "consumed", "acked"}

Sending ==
    /\ step.at \in InHand
    /\ step = [at |-> step.at, job |-> [op |-> "forward", block |-> ptr]]
    /\ ptr \in Block
    /\ Follows(prev, Parent(ptr), tip) /\ Held(tip)
    /\ step.at # "sent" => TxSet(ptr) \subseteq Known

Putting ==
    /\ step.at = "put" /\ step = [at |-> "put", block |-> ptr, link |-> step.link]
    /\ ptr \in Block /\ tip = ptr
    /\ \E t \in Point \cup {NoTip} : Follows(prev, Parent(ptr), t) /\ step.link = LinkTo(t)
    /\ TxsUpTo(ptr) \subseteq Known

RollingBack == step = [at |-> "rollback", to |-> ptr] /\ LeadsTo(prev, ptr, tip) /\ Held(tip)

Undoing ==
    /\ step.at \in InHand
    /\ step = [at |-> step.at, job |-> [op |-> "backward", to |-> ptr, block |-> tip]]
    /\ tip \in Block /\ tip # ptr
    /\ LeadsTo(prev, ptr, tip)
    /\ TxsUpTo(Parent(tip)) \subseteq Known
    /\ step.at = "sent" => Held(tip)

Relinking ==
    /\ step.at = "relink" /\ step = [at |-> "relink", to |-> ptr, link |-> step.link]
    /\ LeadsTo(prev, ptr, step.link) /\ Held(step.link)

IInv ==
    /\ Typed
    /\ Down \/ Pulls \/ Sending \/ Putting \/ RollingBack \/ Undoing \/ Relinking

-----------------------------------------------------------------------------
(* Points and chains.                                                      *)

LEMMA Constants ==
  /\ Origin \notin Block /\ Origin \in Point /\ Block \subseteq Point
  /\ NoTip \notin Point /\ NotCached \notin Point
  /\ StartPoint \in Point /\ OnPath(StartPoint, StartPoint)
  /\ \A p \in Point : OnPath(p, Origin) <=> p = Origin
<1>1. Origin \notin Block
  BY PathAssumption DEF Point
<1>2. \A p \in Point : OnPath(p, Origin) <=> p = Origin
  BY PathFacts DEF OnPath, Point
<1> QED
  BY <1>1, <1>2, OnPathReflexive, BlockAssumption, CacheAssumption DEF Point

(* What a block adds to its chain.                                         *)
LEMMA OneBlockMore ==
  ASSUME NEW b \in Block
  PROVE  TxsUpTo(b) \subseteq TxsUpTo(Parent(b)) \cup TxSet(b)
<1>1. AfterStart(b) \subseteq AfterStart(Parent(b)) \cup {b}
  BY ParentFacts DEF AfterStart, Point
<1> QED
  BY <1>1 DEF TxsUpTo

LEMMA OneBlockLess ==
  ASSUME NEW b \in Block
  PROVE  /\ TxsUpTo(Parent(b)) \subseteq TxsUpTo(b)
         /\ TxsUpTo(Parent(b)) \cap TxSet(b) = {}
<1>1. AfterStart(Parent(b)) \subseteq AfterStart(b)
  BY ParentFacts DEF AfterStart, Point
<1>2. ASSUME NEW i \in 1..Len(TxsOf[b]) PROVE TxsOf[b][i] \notin TxsUpTo(Parent(b))
  BY NewTransactions
<1> QED
  BY <1>1, <1>2 DEF TxsUpTo, TxSet

LEMMA NothingToHold ==
  TxsUpTo(Origin) = {} /\ TxsUpTo(StartPoint) = {}
<1>1. OnPath(Origin, StartPoint) /\ OnPath(StartPoint, StartPoint)
  BY Constants DEF OnPath
<1> QED
  BY <1>1, Constants, NothingAfterStart

(* What the consumer holds to a tip, it holds to a pointer that follows it.*)
LEMMA FollowerHeld ==
  ASSUME NEW p \in Point, NEW t, Follows(prev, p, t), Held(t)
  PROVE  TxsUpTo(p) \subseteq Known
  BY NothingToHold DEF Follows, Held

-----------------------------------------------------------------------------
(* The cache.                                                              *)

LEMMA WholeFacts ==
  ASSUME NEW t, Whole(prev, t)
  PROVE  /\ t \in Point \cup {NoTip}
         /\ Best(t) \in Point
         /\ t \in Block => t \in Linked(prev)
<1>1. CASE FromOrigin(prev, t)
  BY <1>1, Constants, OnPathReflexive DEF FromOrigin, Best
<1>2. CASE FromStart(prev, t)
  <2>1. CASE t = NoTip
    BY <2>1, Constants DEF Best
  <2>2. CASE t # NoTip
    BY <1>2, <2>2, Constants, NextAfterStart DEF FromStart, Best
  <2> QED
    BY <2>1, <2>2
<1> QED
  BY <1>1, <1>2 DEF Whole

(* A block is put on top of a whole cache.                                 *)
LEMMA PutWhole ==
  ASSUME Typed, NEW b \in Block, NEW t \in Point \cup {NoTip},
         Follows(prev, Parent(b), t), prev' = [prev EXCEPT ![b] = LinkTo(t)]
  PROVE  Whole(prev', b)
<1>1. LinkTo(t) \in Point
  BY Constants DEF LinkTo
<1>2. prev' \in [Block -> Point \cup {NotCached}] /\ prev'[b] = LinkTo(t)
      /\ \A c \in Block \ {b} : prev'[c] = prev[c]
  BY <1>1 DEF Typed
<1>3. Linked(prev') = Linked(prev) \cup {b}
  BY <1>1, <1>2, Constants DEF Linked
<1>4. CASE FromOrigin(prev, t) /\ Parent(b) = t
  <2>1. LinkTo(t) = Parent(b)
    BY <1>4, Constants DEF FromOrigin, LinkTo
  <2>2. Linked(prev') = {c \in Block : OnPath(c, b)}
    <3>1. \A c \in Block : OnPath(c, b) <=> c = b \/ OnPath(c, t)
      BY <1>4, ParentFacts, Constants
    <3>2. Linked(prev) = {c \in Block : OnPath(c, t)}
      BY <1>4 DEF FromOrigin
    <3> QED
      BY <1>3, <3>1, <3>2
  <2>3. FromOrigin(prev', b)
    BY <1>2, <1>3, <1>4, <2>1, <2>2, Constants DEF FromOrigin, Linked
  <2> QED
    BY <2>3 DEF Whole
<1>5. CASE FromStart(prev, t) /\ Parent(b) = Best(t)
  <2>1. OnPath(StartPoint, Parent(b))
    BY <1>5, Constants, NextAfterStart DEF FromStart, Best
  <2>2. LinkTo(t) = IF Parent(b) = StartPoint THEN Origin ELSE Parent(b)
    <3>1. CASE t = NoTip
      BY <1>5, <3>1 DEF LinkTo, Best
    <3>2. CASE t # NoTip
      <4>1. t \in Block /\ OnPath(StartPoint, Parent(t)) /\ Parent(b) = t /\ LinkTo(t) = t
        BY <1>5, <3>2 DEF FromStart, Best, LinkTo
      <4>2. t # StartPoint
        BY <4>1, Constants, NextAfterStart
      <4> QED
        BY <4>1, <4>2
    <3> QED
      BY <3>1, <3>2
  <2>3. Linked(prev') = AfterStart(b)
    BY <1>3, <1>5, <2>1, NextAfterStart DEF FromStart
  <2>4. Best(b) = b
    BY Constants DEF Best
  <2>5. FromStart(prev', b)
    BY <1>2, <1>3, <1>5, <2>1, <2>2, <2>3, <2>4 DEF FromStart, Linked
  <2> QED
    BY <2>5 DEF Whole
<1>6. CASE FromOrigin(prev, t) /\ t = Origin /\ Parent(b) = StartPoint
  <2>1. Linked(prev) = {} /\ LinkTo(t) = Origin
    BY <1>6, Constants DEF FromOrigin, LinkTo
  <2>2. AfterStart(b) = {b}
    BY <1>6, Constants, NextAfterStart, NothingAfterStart
  <2>3. Best(b) = b
    BY Constants DEF Best
  <2>4. FromStart(prev', b)
    BY <1>2, <1>3, <1>6, <2>1, <2>2, <2>3, Constants DEF FromStart
  <2> QED
    BY <2>4 DEF Whole
<1>7. FromOrigin(prev, t) => Best(t) = t
  BY Constants DEF FromOrigin, Best
<1> QED
  BY <1>4, <1>5, <1>6, <1>7 DEF Follows, Whole

(* The block at the tip is taken off: what it is linked to is the next tip,*)
(* on the way to the same point.                                           *)
LEMMA TakeOff ==
  ASSUME Typed, NEW t \in Block, NEW p \in Point, p # t,
         LeadsTo(prev, p, t), prev' = [prev EXCEPT ![t] = NotCached]
  PROVE  /\ prev[t] = Parent(t) \/ prev[t] = Origin
         /\ LeadsTo(prev', p, prev[t])
<1>0. t # Origin /\ t # NoTip /\ Best(t) = t /\ Parent(t) \in Point
  BY Constants, ParentFacts DEF Best
<1>1. prev' \in [Block -> Point \cup {NotCached}] /\ prev'[t] = NotCached
      /\ \A c \in Block \ {t} : prev'[c] = prev[c]
  BY DEF Typed
<1>2. Linked(prev') = Linked(prev) \ {t}
  BY <1>1 DEF Linked
<1>3. CASE FromOrigin(prev, t) /\ OnPath(p, t)
  <2>1. t \in Linked(prev) /\ prev[t] = Parent(t)
    BY <1>3, Constants, OnPathReflexive DEF FromOrigin
  <2>2. Linked(prev') = {c \in Block : OnPath(c, Parent(t))}
    BY <1>2, <1>3, ParentFacts, Constants DEF FromOrigin
  <2>3. FromOrigin(prev', Parent(t))
    BY <1>0, <1>1, <1>2, <1>3, <2>2 DEF FromOrigin, Linked
  <2>4. OnPath(p, Parent(t))
    BY <1>3, ParentFacts
  <2> QED
    BY <2>1, <2>3, <2>4 DEF LeadsTo
<1>4. CASE FromStart(prev, t) /\ OnPath(p, Best(t)) /\ OnPath(StartPoint, p)
  <2>1. OnPath(StartPoint, Parent(t)) /\ Linked(prev) = AfterStart(t) /\ OnPath(p, t)
    BY <1>0, <1>4 DEF FromStart
  <2>2. t \in Linked(prev) /\ prev[t] = IF Parent(t) = StartPoint THEN Origin ELSE Parent(t)
    BY <1>4, <2>1, NextAfterStart DEF FromStart
  <2>3. Linked(prev') = AfterStart(Parent(t))
    <3>1. t \notin AfterStart(Parent(t)) /\ AfterStart(t) = AfterStart(Parent(t)) \cup {t}
      BY <2>1, NextAfterStart
    <3> QED
      BY <1>2, <2>1, <3>1
  <2>4. OnPath(p, Parent(t))
    BY <2>1, ParentFacts
  <2>5. CASE Parent(t) = StartPoint
    <3>1. p = StartPoint
      BY <1>4, <2>4, <2>5, Constants, OnPathAntisymmetric
    <3>2. Linked(prev') = {}
      BY <2>3, <2>5, Constants, NothingAfterStart
    <3>3. FromOrigin(prev', Origin)
      BY <3>2, Constants DEF FromOrigin
    <3> QED
      BY <2>2, <2>5, <3>1, <3>3 DEF LeadsTo
  <2>6. CASE Parent(t) # StartPoint
    <3>1. Parent(t) \in Block /\ OnPath(StartPoint, Parent(Parent(t)))
      BY <1>0, <2>1, <2>6, AtOrAfterStart
    <3>2. Best(Parent(t)) = Parent(t)
      BY <3>1, Constants DEF Best
    <3>3. \A c \in Linked(prev') : prev'[c] = IF Parent(c) = StartPoint THEN Origin ELSE Parent(c)
      BY <1>1, <1>2, <1>4 DEF FromStart, Linked
    <3>4. FromStart(prev', Parent(t))
      BY <2>3, <3>1, <3>2, <3>3 DEF FromStart
    <3> QED
      BY <1>4, <2>2, <2>4, <2>6, <3>2, <3>4 DEF LeadsTo
  <2> QED
    BY <2>5, <2>6
<1> QED
  BY <1>0, <1>3, <1>4 DEF LeadsTo

-----------------------------------------------------------------------------
(* The steps.                                                              *)

LEMMA InitInv == Init => IInv
<1> SUFFICES ASSUME Init PROVE IInv
  OBVIOUS
<1>1. /\ node \in Point /\ OnPath(StartPoint, node) /\ ptr = Origin
      /\ tip = NoTip /\ prev = [b \in Block |-> NotCached]
      /\ step = [at |-> "down"] /\ applied = {}
  BY DEF Init, NodeInit, CacheInit
<1>2. Linked(prev) = {} /\ Best(tip) = StartPoint
  BY <1>1 DEF Linked, Best
<1>3. AfterStart(StartPoint) = {}
  BY Constants, NothingAfterStart
<1>4. Whole(prev, tip)
  BY <1>1, <1>2, <1>3 DEF Whole, FromStart
<1>5. Held(tip)
  BY <1>2, NothingToHold DEF Held
<1> QED
  BY <1>1, <1>4, <1>5, Constants DEF IInv, Typed, Down

LEMMA StartInv == ASSUME IInv, Start PROVE IInv'
<1>1. /\ step.at = "down" /\ step' = Pulling /\ ptr' = BestPoint /\ node' = node
      /\ tip' = tip /\ prev' = prev /\ Known' = Known
  BY DEF Start, Intersect, cacheVars, Known
<1>2. Down /\ Typed
  BY <1>1 DEF IInv, Pulls, Pulling, Sending, InHand, Putting, RollingBack, Undoing, Relinking
<1>3. BestPoint = Best(tip) /\ BestPoint \in Point
  BY <1>2, WholeFacts DEF Down, BestPoint, Best
<1>4. Pulls'
  BY <1>1, <1>2, <1>3 DEF Pulls, Down, Follows, Held
<1> QED
  BY <1>1, <1>2, <1>3, <1>4 DEF IInv, Typed

LEMMA AtPull == ASSUME IInv, step.at = "pull" PROVE Typed /\ Pulls
  BY DEF IInv, Down, Sending, InHand, Putting, RollingBack, Undoing, Relinking

LEMMA RollForwardInv == ASSUME IInv, NEW b \in Point, RollForward(b) PROVE IInv'
<1>1. /\ step.at = "pull" /\ step' = [at |-> "sent", job |-> [op |-> "forward", block |-> b]]
      /\ ptr' = b /\ node' = node /\ b # Origin /\ Parent(b) = ptr
      /\ tip' = tip /\ prev' = prev /\ Known' = Known
  BY DEF RollForward, AnswerRollForward, cacheVars, Known
<1>2. Typed /\ Pulls /\ b \in Block
  BY <1>1, AtPull DEF Point
<1>3. Sending'
  BY <1>1, <1>2 DEF Pulls, Sending, InHand, Held
<1> QED
  BY <1>1, <1>2, <1>3 DEF IInv, Typed

(* The point the two chains share lies on the path of the tip, or is where *)
(* the client has been since the first block was undone.                   *)
LEMMA RollBackwardInv == ASSUME IInv, NEW to \in Point, RollBackward(to) PROVE IInv'
<1>1. /\ step.at = "pull" /\ step' = [at |-> "rollback", to |-> to]
      /\ ptr' = to /\ node' = node /\ IsMeet(to, ptr, node)
      /\ tip' = tip /\ prev' = prev /\ Known' = Known
  BY DEF RollBackward, AnswerRollBackward, cacheVars, Known
<1>2. Typed /\ Pulls
  BY <1>1, AtPull
<1>3. LeadsTo(prev, to, tip)
  <2>1. CASE FromOrigin(prev, tip) /\ ptr = Best(tip)
    <3>1. Best(tip) = tip
      BY <2>1, Constants DEF FromOrigin, Best
    <3> QED
      BY <1>1, <2>1, <3>1 DEF LeadsTo, IsMeet
  <2>2. CASE FromStart(prev, tip) /\ ptr = Best(tip)
    <3>1. OnPath(StartPoint, ptr)
      BY <2>2, Constants, NextAfterStart DEF FromStart, Best
    <3>2. OnPath(StartPoint, to) /\ OnPath(to, ptr)
      BY <1>1, <1>2, <3>1, Constants DEF IsMeet, Typed
    <3> QED
      BY <2>2, <3>2 DEF LeadsTo
  <2>3. CASE FromOrigin(prev, tip) /\ tip = Origin /\ ptr = StartPoint
    <3>1. OnPath(StartPoint, to) /\ OnPath(to, StartPoint)
      BY <1>1, <1>2, <2>3, Constants DEF IsMeet, Typed
    <3>2. to = StartPoint
      BY <3>1, Constants, OnPathAntisymmetric
    <3> QED
      BY <2>3, <3>2 DEF LeadsTo
  <2> QED
    BY <1>2, <2>1, <2>2, <2>3 DEF Pulls, Follows, Whole
<1>4. RollingBack'
  BY <1>1, <1>2, <1>3 DEF Pulls, RollingBack, Held
<1> QED
  BY <1>1, <1>2, <1>4 DEF IInv, Typed

LEMMA SendUndoInv == ASSUME IInv, SendUndo PROVE IInv'
<1>1. /\ step.at = "rollback" /\ tip # step.to /\ HasBlock(tip)
      /\ step' = [at |-> "sent", job |-> [op |-> "backward", to |-> step.to, block |-> tip]]
      /\ UNCHANGED <<node, ptr, tip, prev, Known>>
  BY DEF SendUndo, nodeVars, cacheVars, Known
<1>2. RollingBack /\ Typed
  BY <1>1 DEF IInv, Down, Pulls, Pulling, Sending, InHand, Putting, Undoing, Relinking
<1>3. tip \in Block /\ step.to = ptr /\ Best(tip) = tip
  BY <1>1, <1>2, Constants DEF HasBlock, RollingBack, Best
<1>4. TxsUpTo(Parent(tip)) \subseteq Known
  BY <1>2, <1>3, OneBlockLess DEF RollingBack, Held
<1>5. Undoing'
  BY <1>1, <1>2, <1>3, <1>4 DEF RollingBack, Undoing, InHand, Held
<1> QED
  BY <1>1, <1>2, <1>5 DEF IInv, Typed

(* The loop has nothing left to undo only where the pointer is.            *)
LEMMA RollbackEndsInv == ASSUME IInv, RollbackEnds PROVE IInv'
<1>1. /\ step.at = "rollback" /\ (tip = step.to \/ ~HasBlock(tip)) /\ step' = Pulling
      /\ UNCHANGED <<node, ptr, tip, prev, Known>>
  BY DEF RollbackEnds, nodeVars, cacheVars, Known
<1>2. RollingBack /\ Typed
  BY <1>1 DEF IInv, Down, Pulls, Pulling, Sending, InHand, Putting, Undoing, Relinking
<1>3. LeadsTo(prev, ptr, tip) /\ (tip = ptr \/ ~HasBlock(tip)) /\ ptr \in Point
  BY <1>1, <1>2 DEF RollingBack, Typed
<1>4. Follows(prev, ptr, tip)
  <2>1. CASE tip = ptr
    <3>1. Best(tip) = tip
      BY <1>3, <2>1, Constants DEF Best
    <3> QED
      BY <1>3, <2>1, <3>1 DEF LeadsTo, Follows, Whole
  <2>2. CASE tip \notin Block
    <3>1. CASE FromOrigin(prev, tip) /\ OnPath(ptr, tip)
      <4>1. tip = Origin /\ ptr = Origin /\ Best(tip) = Origin
        BY <1>3, <2>2, <3>1, Constants DEF FromOrigin, Point, Best
      <4> QED
        BY <3>1, <4>1 DEF Follows, Whole
    <3>2. CASE FromStart(prev, tip) /\ OnPath(ptr, Best(tip)) /\ OnPath(StartPoint, ptr)
      <4>1. Best(tip) = StartPoint
        BY <2>2, <3>2 DEF FromStart, Best
      <4>2. ptr = StartPoint
        BY <1>3, <3>2, <4>1, Constants, OnPathAntisymmetric
      <4> QED
        BY <3>2, <4>1, <4>2 DEF Follows, Whole
    <3> QED
      BY <1>3, <3>1, <3>2 DEF LeadsTo, Follows
  <2>3. CASE tip \in Block
    <3>1. LeadsTo(prev, ptr, tip) => Whole(prev, tip)
      BY DEF LeadsTo, Whole
    <3>2. HasBlock(tip)
      BY <1>3, <2>3, <3>1, WholeFacts DEF HasBlock, Linked
    <3> QED
      BY <1>3, <2>1, <3>2
  <2> QED
    BY <2>2, <2>3
<1>5. Pulls'
  BY <1>1, <1>2, <1>4 DEF RollingBack, Pulls, Held
<1> QED
  BY <1>1, <1>2, <1>5 DEF IInv, Typed

(* The consumer takes the transactions of the block, or gives them up: no  *)
(* block below has one of them.                                            *)
LEMMA ConsumeInv == ASSUME IInv, Consume PROVE IInv'
<1>1. /\ step.at = "sent" /\ step' = [step EXCEPT !.at = "consumed"]
      /\ applied' = IF step.job.op = "forward" THEN applied \cup TxSet(step.job.block)
                    ELSE applied \ TxSet(step.job.block)
      /\ lost' = lost \ TxSet(step.job.block)
      /\ UNCHANGED <<node, ptr, tip, prev>>
  BY DEF Consume, nodeVars, cacheVars
<1>2. Typed /\ Typed' /\ (Sending \/ Undoing)
  BY <1>1 DEF IInv, Down, Pulls, Pulling, Putting, RollingBack, Relinking, Typed
<1>3. CASE Sending
  <2>1. step' = [at |-> "consumed", job |-> [op |-> "forward", block |-> ptr]]
        /\ Known' = Known \cup TxSet(ptr)
    BY <1>1, <1>3 DEF Sending, Known
  <2>2. Sending'
    BY <1>1, <1>3, <2>1 DEF Sending, InHand, Held
  <2> QED
    BY <1>2, <2>2 DEF IInv
<1>4. CASE Undoing
  <2>1. step' = [at |-> "consumed", job |-> [op |-> "backward", to |-> ptr, block |-> tip]]
        /\ Known' = Known \ TxSet(tip)
    BY <1>1, <1>4 DEF Undoing, Known
  <2>2. TxsUpTo(Parent(tip)) \subseteq Known'
    BY <1>4, <2>1, OneBlockLess DEF Undoing
  <2>3. Undoing'
    BY <1>1, <1>4, <2>1, <2>2 DEF Undoing, InHand
  <2> QED
    BY <1>2, <2>3 DEF IInv
<1> QED
  BY <1>2, <1>3, <1>4

LEMMA CommitBatchInv == ASSUME IInv, CommitBatch PROVE IInv'
<1>1. /\ step.at = "consumed" /\ step' = [step EXCEPT !.at = "acked"]
      /\ UNCHANGED <<node, ptr, tip, prev, Known>>
  BY DEF CommitBatch, nodeVars, cacheVars, Known
<1>2. Typed /\ Typed' /\ (Sending \/ Undoing)
  BY <1>1 DEF IInv, Down, Pulls, Pulling, Putting, RollingBack, Relinking, Typed
<1>3. CASE Sending
  <2>1. step' = [at |-> "acked", job |-> [op |-> "forward", block |-> ptr]]
    BY <1>1, <1>3 DEF Sending
  <2>2. Sending'
    BY <1>1, <1>3, <2>1 DEF Sending, InHand, Held
  <2> QED
    BY <1>2, <2>2 DEF IInv
<1>4. CASE Undoing
  <2>1. step' = [at |-> "acked", job |-> [op |-> "backward", to |-> ptr, block |-> tip]]
    BY <1>1, <1>4 DEF Undoing
  <2>2. Undoing'
    BY <1>1, <1>4, <2>1 DEF Undoing, InHand
  <2> QED
    BY <1>2, <2>2 DEF IInv
<1> QED
  BY <1>2, <1>3, <1>4

(* The consumer has committed: the block becomes the tip, ...              *)
LEMMA CacheTipInv == ASSUME IInv, CacheTip PROVE IInv'
<1>1. /\ step.at = "acked" /\ step.job.op = "forward"
      /\ tip' = step.job.block /\ prev' = prev
      /\ step' = [at |-> "put", block |-> step.job.block, link |-> LinkPoint]
      /\ UNCHANGED <<node, ptr, Known>>
  BY DEF CacheTip, SetTip, nodeVars, Known
<1>2. Typed /\ Sending
  BY <1>1 DEF IInv, Down, Pulls, Pulling, Putting, RollingBack, Relinking, Undoing
<1>3. step.job.block = ptr /\ ptr \in Block /\ Parent(ptr) \in Point
  BY <1>2, ParentFacts DEF Sending
<1>4. LinkPoint = LinkTo(tip) /\ tip \in Point \cup {NoTip}
  BY <1>2, WholeFacts, Constants DEF LinkPoint, LinkTo, Sending, Follows
<1>5. TxsUpTo(ptr) \subseteq Known
  BY <1>1, <1>2, <1>3, FollowerHeld, OneBlockMore DEF Sending
<1>6. Putting'
  BY <1>1, <1>2, <1>3, <1>4, <1>5 DEF Sending, Putting
<1> QED
  BY <1>1, <1>2, <1>6 DEF IInv, Typed

(* ... and is then linked to the one before.                               *)
LEMMA CacheBlockInv == ASSUME IInv, CacheBlock PROVE IInv'
<1>1. /\ step.at = "put" /\ prev' = [prev EXCEPT ![step.block] = step.link] /\ tip' = tip
      /\ step' = Pulling /\ UNCHANGED <<node, ptr, Known>>
  BY DEF CacheBlock, PutBlock, nodeVars, Known
<1>2. Typed /\ Putting
  BY <1>1 DEF IInv, Down, Pulls, Pulling, Sending, InHand, RollingBack, Relinking, Undoing
<1>3. PICK t \in Point \cup {NoTip} : Follows(prev, Parent(ptr), t) /\ step.link = LinkTo(t)
  BY <1>2 DEF Putting
<1>4. tip = ptr /\ ptr \in Block /\ step.block = ptr /\ Best(tip) = ptr
  BY <1>2, Constants DEF Putting, Best
<1>5. Whole(prev', tip)
  BY <1>1, <1>2, <1>3, <1>4, PutWhole
<1>6. Held(tip)'
  BY <1>1, <1>2, <1>4 DEF Held, Putting
<1>7. Pulls'
  BY <1>1, <1>4, <1>5, <1>6 DEF Pulls, Follows
<1>8. prev' \in [Block -> Point \cup {NotCached}]
  BY <1>1, <1>2, <1>3, <1>4, Constants DEF Typed, LinkTo
<1> QED
  BY <1>1, <1>2, <1>7, <1>8 DEF IInv, Typed

LEMMA DeleteBlockInv == ASSUME IInv, DeleteBlock PROVE IInv'
<1>1. /\ step.at = "acked" /\ step.job.op = "backward"
      /\ prev' = [prev EXCEPT ![step.job.block] = NotCached] /\ tip' = tip
      /\ step' = [at |-> "relink", to |-> step.job.to, link |-> prev[step.job.block]]
      /\ UNCHANGED <<node, ptr, Known>>
  BY DEF DeleteBlock, Delete, nodeVars, Known
<1>2. Typed /\ Undoing
  BY <1>1 DEF IInv, Down, Pulls, Pulling, Putting, RollingBack, Relinking, Sending
<1>3. step.job.block = tip /\ step.job.to = ptr /\ tip \in Block /\ tip # ptr
  BY <1>2 DEF Undoing
<1>4. /\ prev[tip] = Parent(tip) \/ prev[tip] = Origin
      /\ LeadsTo(prev', ptr, prev[tip])
  BY <1>1, <1>2, <1>3, TakeOff DEF Undoing, Typed
<1>5. TxsUpTo(Best(prev[tip])) \subseteq Known
  <2>1. Best(prev[tip]) = prev[tip]
    BY <1>3, <1>4, Constants, ParentFacts DEF Best
  <2> QED
    BY <1>2, <1>4, <2>1, NothingToHold DEF Undoing
<1>6. Relinking'
  BY <1>1, <1>3, <1>4, <1>5 DEF Relinking, Held
<1>7. prev' \in [Block -> Point \cup {NotCached}]
  BY <1>1, <1>2, <1>3 DEF Typed
<1> QED
  BY <1>1, <1>2, <1>6, <1>7 DEF IInv, Typed

LEMMA RelinkInv == ASSUME IInv, Relink PROVE IInv'
<1>1. /\ step.at = "relink" /\ tip' = step.link /\ prev' = prev
      /\ step' = [at |-> "rollback", to |-> step.to]
      /\ UNCHANGED <<node, ptr, Known>>
  BY DEF Relink, SetTip, nodeVars, Known
<1>2. Typed /\ Relinking
  BY <1>1 DEF IInv, Down, Pulls, Pulling, Putting, RollingBack, Sending, InHand, Undoing
<1>3. RollingBack'
  BY <1>1, <1>2 DEF Relinking, RollingBack, Held
<1> QED
  BY <1>1, <1>2, <1>3 DEF IInv, Typed

(* Whatever stage the process ends at, the consumer holds the chain to the *)
(* tip of the cache, or has just lost the block at the tip.                *)
LEMMA CrashInv == ASSUME Configured, IInv, Crash PROVE IInv'
<1>1. /\ Stage \in {"pull", "sent", "consumed", "acked", "undone", "rollback"}
      /\ step' = [at |-> "down"]
      /\ applied' = applied
      /\ lost' = IF Stage = "undone" THEN lost \cup TxSet(step.job.block) ELSE lost
      /\ UNCHANGED <<node, ptr, tip, prev>>
  BY DEF Crash, Disconnect, Configured, cacheVars
<1>2. Typed /\ Typed'
  BY <1>1 DEF IInv, Typed
<1>3. Known \subseteq Known'
  BY <1>1 DEF Known
<1>4. Whole(prev, tip) /\ TxsUpTo(Best(tip)) \subseteq Known'
  <2>1. CASE Pulls
    BY <1>3, <2>1, Constants DEF Pulls, Follows, Whole, Held
  <2>2. CASE Sending
    BY <1>3, <2>2 DEF Sending, Follows, Whole, Held
  <2>3. CASE RollingBack
    BY <1>3, <2>3 DEF RollingBack, LeadsTo, Whole, Held
  <2>4. CASE Undoing
    <3>1. Whole(prev, tip)
      BY <2>4 DEF Undoing, LeadsTo, Whole
    <3>2. CASE step.at = "sent"
      BY <1>3, <2>4, <3>1, <3>2 DEF Undoing, Held
    <3>3. CASE step.at # "sent"
      <4>1. Stage = "undone" /\ step.job.block = tip /\ tip \in Block
        BY <2>4, <3>3 DEF Undoing, Stage, InHand
      <4>2. Best(tip) = tip
        BY <4>1, Constants DEF Best
      <4>3. TxSet(tip) \subseteq Known'
        BY <1>1, <4>1 DEF Known
      <4>4. TxsUpTo(Parent(tip)) \subseteq Known'
        BY <1>3, <2>4 DEF Undoing
      <4> QED
        BY <3>1, <4>1, <4>2, <4>3, <4>4, OneBlockMore
    <3> QED
      BY <3>1, <3>2, <3>3
  <2>5. CASE Down
    BY <1>3, <2>5 DEF Down, Held
  <2>6. ~Putting /\ ~Relinking
    BY <1>1 DEF Putting, Relinking, Stage
  <2> QED
    BY <1>2, <2>1, <2>2, <2>3, <2>4, <2>5, <2>6 DEF IInv
<1>5. Down'
  BY <1>1, <1>4 DEF Down, Held
<1> QED
  BY <1>2, <1>5 DEF IInv

LEMMA StutterInv ==
  ASSUME IInv, Typed', UNCHANGED <<ptr, tip, prev, step, Known>>
  PROVE  IInv'
<1>1. Held(tip)' <=> Held(tip)
  BY DEF Held
<1> QED
  BY <1>1 DEF IInv, Down, Pulls, Sending, Putting, RollingBack, Undoing, Relinking, Held

LEMMA NodeMovesInv == ASSUME IInv, NodeMoves PROVE IInv'
<1>1. Typed'
  BY DEF IInv, Typed, NodeMoves, Adopt, cacheVars, flowVars, Point
<1>2. UNCHANGED <<ptr, tip, prev, step, Known>>
  BY DEF NodeMoves, Adopt, cacheVars, flowVars, Known
<1> QED
  BY <1>1, <1>2, StutterInv

LEMMA NextInv == ASSUME Configured, IInv, [Next]_vars PROVE IInv'
<1>1. CASE UNCHANGED vars \/ TipReached
  <2>1. UNCHANGED <<node, ptr, tip, prev, step, Known>>
    BY <1>1 DEF TipReached, AnswerNone, vars, nodeVars, cacheVars, flowVars, Known
  <2>2. Typed'
    BY <2>1 DEF IInv, Typed
  <2> QED
    BY <2>1, <2>2, StutterInv
<1>2. CASE Run
  BY <1>1, <1>2, StartInv, SendUndoInv, RollbackEndsInv, CacheTipInv, CacheBlockInv,
     DeleteBlockInv, RelinkInv, RollForwardInv, RollBackwardInv DEF Run
<1>3. CASE Consumer
  BY <1>3, ConsumeInv, CommitBatchInv DEF Consumer
<1> QED
  BY <1>1, <1>2, <1>3, CrashInv, NodeMovesInv DEF Next

THEOREM Invariant == ASSUME Configured PROVE Spec => []IInv
<1>1. IInv /\ [Next]_vars => IInv'
  BY NextInv
<1> QED
  BY <1>1, InitInv, PTL DEF Spec

(* Between two batches the consumer holds all that the chain up to the     *)
(* read pointer applied, and when the process is down, all of the chain to *)
(* the point it will restart from, but for a block undone and still cached *)
(* when the process ended (atomic_flow.rs, cache.rs).                      *)
THEOREM ResumableHolds == ASSUME Configured PROVE Spec => []Resumable
<1>1. IInv => Resumable
  <2> SUFFICES ASSUME IInv PROVE Resumable
    OBVIOUS
  <2>1. NothingSkipped
    BY AtPull, FollowerHeld DEF NothingSkipped, Waiting, Pulls, Typed, Known
  <2>2. ASSUME step.at = "down" PROVE TxsUpTo(BestPoint) \subseteq Known
    <3>1. Down
      BY <2>2 DEF IInv, Pulls, Pulling, Sending, InHand, Putting, RollingBack, Undoing, Relinking
    <3> QED
      BY <3>1 DEF Down, Held, Best, BestPoint
  <2> QED
    BY <2>1, <2>2 DEF Resumable, RestartPointHeld, Known
<1> QED
  BY <1>1, Invariant, PTL
=============================================================================
