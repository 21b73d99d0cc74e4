--------------------------- MODULE ChainSync_proofs ---------------------------
(***************************************************************************)
(* Spec => []FollowsOneChain, and what else holds of the chain-sync        *)
(* client at every step, for every tree of blocks, every chain the node    *)
(* adopts and every number of crashes.                                     *)
(*                                                                         *)
(* None of it is inductive as it stands: what the index holds follows only *)
(* from where the stream is, from which events it has still to yield, and  *)
(* from the cache being the path to the tip.  The invariant says so stage  *)
(* by stage.                                                               *)
(***************************************************************************)
EXTENDS ChainSync, ChainNode_proofs

(* The configurations the theorems are about.  A crash after a cache write *)
(* and before the next one, or halfway through the events of a rollback,   *)
(* is what the cache cannot repair; a block that arrives has its rollbacks *)
(* handled; the first block after the starting point is final; and if the  *)
(* process may end in the middle of a block, the replay covers the cache.  *)
IsAfterStart(b) == OnPath(StartPoint, Parent(b))

Configured ==
    /\ CrashAt \subseteq {"replay", "pull", "rollback", "apply"}
    /\ \A b \in Block : IsAfterStart(b) => SlotOf[b] > NoRollbackUntil
    /\ \A b, c \in Block : Parent(b) = StartPoint /\ Parent(c) = StartPoint => b = c
    /\ "apply" \in CrashAt =>
         /\ ReplayFrom # NoReplay
         /\ \A b \in Block : IsAfterStart(b) => SlotOf[ReplayFrom] <= SlotOf[b]

-----------------------------------------------------------------------------
(* The invariant.                                                          *)

Event == [kind : {"apply", "unapply"}, tx : Tx]

(* The node's chain has the starting point, and has grown from it once a   *)
(* block was taken.                                                        *)
NodeOf ==
    /\ node \in Point /\ ptr \in Point
    /\ OnPath(StartPoint, node)
    /\ tip # NoTip => node # StartPoint

CacheOf ==
    /\ tip = NoTip \/ (tip \in Block /\ IsAfterStart(tip))
    /\ prev \in [Block -> Point \cup {NotCached}]
    /\ \A b \in Cached : prev[b] = Parent(b) \/ Parent(b) = StartPoint

(* The events still to yield: those of b after the first j, those that     *)
(* undo the first j of b, or some whose transactions the index has.        *)
Yielding(b, j) ==
    /\ Len(out) = Len(TxsOf[b]) - j
    /\ \A i \in 1..Len(out) : out[i] = [kind |-> "apply", tx |-> TxsOf[b][j + i]]

Undoing(b, j) ==
    /\ Len(out) = j
    /\ \A i \in 1..j : out[i] = [kind |-> "unapply", tx |-> TxsOf[b][j - i + 1]]

Repeating == \A i \in 1..Len(out) : out[i].kind = "apply" /\ out[i].tx \in applied

CacheWhole == Cached = AfterStart(BestPoint)

(* The block at the tip was interrupted.                                   *)
Interrupted ==
    /\ "apply" \in CrashAt
    /\ tip # NoTip
    /\ \E k \in 0..Len(TxsOf[tip]) : applied = Upto(tip, k)

Down ==
    /\ step = [at |-> "down"] /\ out = <<>>
    /\ CacheWhole
    /\ applied = TxsUpTo(BestPoint) \/ Interrupted

Replaying ==
    /\ step.at = "replay" /\ step = [at |-> "replay", blocks |-> step.blocks]
    /\ ptr = BestPoint /\ CacheWhole
    /\ step.blocks \subseteq Cached
    /\ \/ applied = TxsUpTo(BestPoint) /\ Repeating
       \/ Interrupted /\ tip \in step.blocks /\ Repeating
       \/ /\ Interrupted /\ step.blocks = {}
          /\ \E j, k \in 0..Len(TxsOf[tip]) :
               j <= k /\ Yielding(tip, j) /\ applied = Upto(tip, k)

Waits ==
    /\ step = Pulling
    /\ ptr = BestPoint /\ CacheWhole
    /\ \/ out = <<>> /\ applied = TxsUpTo(BestPoint)
       \/ /\ tip # NoTip
          /\ \E j \in 0..Len(TxsOf[tip]) : Yielding(tip, j) /\ applied = Upto(tip, j)

Putting ==
    /\ step.at = "put" /\ step = [at |-> "put", block |-> tip, link |-> step.link]
    /\ out = <<>>
    /\ tip \in Block /\ ptr = tip
    /\ step.link \in Point /\ (step.link = Parent(tip) \/ Parent(tip) = StartPoint)
    /\ Cached = AfterStart(Parent(tip))
    /\ applied = TxsUpTo(Parent(tip))

RollingBack ==
    /\ step = [at |-> "rollback", to |-> ptr]
    /\ OnPath(StartPoint, ptr) /\ OnPath(ptr, BestPoint)
    /\ ptr = StartPoint => BestPoint = StartPoint
    /\ CacheWhole
    /\ \/ out = <<>> /\ applied = TxsUpTo(BestPoint)
       \/ /\ rolling
          /\ \E b \in Block : \E j \in 0..Len(TxsOf[b]) :
               Parent(b) = BestPoint /\ Undoing(b, j) /\ applied = Upto(b, j)

Relinking ==
    /\ step = [at |-> "relink", to |-> ptr, block |-> tip, link |-> Parent(tip)] /\ out = <<>>
    /\ tip \in Block /\ rolling
    /\ OnPath(StartPoint, ptr) /\ OnPath(ptr, Parent(tip)) /\ ptr # StartPoint
    /\ Cached = AfterStart(Parent(tip))
    /\ applied = TxsUpTo(tip)

IInv ==
    /\ NodeOf /\ CacheOf
    /\ out \in Seq(Event)
    /\ Down \/ Replaying \/ Waits \/ Putting \/ RollingBack \/ Relinking

-----------------------------------------------------------------------------
(* A block cut after its first k transactions.                             *)

LEMMA CutEnds ==
  ASSUME NEW b \in Block, IsAfterStart(b)
  PROVE  /\ Len(TxsOf[b]) \in Nat
         /\ Upto(b, 0) = TxsUpTo(Parent(b))
         /\ Upto(b, Len(TxsOf[b])) = TxsUpTo(b)
<1>1. TxsOf[b] \in Seq(Tx)
  BY BlockAssumption
<1>2. 1..0 = {}
  OBVIOUS
<1>3. Upto(b, 0) = TxsUpTo(Parent(b))
  BY <1>2 DEF Upto
<1>4. Upto(b, Len(TxsOf[b])) = TxsUpTo(b)
  BY NextAfterStart DEF Upto, TxSet, IsAfterStart
<1> QED
  BY <1>1, <1>3, <1>4

(* The next transaction lengthens the cut, and undoing it takes it back.   *)
LEMMA CutGrows ==
  ASSUME NEW b \in Block, NEW j \in 0..Len(TxsOf[b]) - 1
  PROVE  /\ Upto(b, j) \cup {TxsOf[b][j + 1]} = Upto(b, j + 1)
         /\ Upto(b, j + 1) \ {TxsOf[b][j + 1]} = Upto(b, j)
<1>1. Len(TxsOf[b]) \in Nat
  BY BlockAssumption
<1>2. j \in Nat /\ j + 1 \in 1..Len(TxsOf[b])
  BY <1>1
<1>3. 1..j + 1 = (1..j) \cup {j + 1}
  BY <1>2
<1>4. {TxsOf[b][i] : i \in 1..j + 1} = {TxsOf[b][i] : i \in 1..j} \cup {TxsOf[b][j + 1]}
  BY <1>3
<1>5. TxsOf[b][j + 1] \notin TxsUpTo(Parent(b))
  BY <1>2, NewTransactions
<1>6. TxsOf[b][j + 1] \notin {TxsOf[b][i] : i \in 1..j}
  <2> SUFFICES ASSUME NEW i \in 1..j, TxsOf[b][j + 1] = TxsOf[b][i] PROVE FALSE
    OBVIOUS
  <2>1. i \in 1..Len(TxsOf[b]) /\ i # j + 1
    BY <1>1, <1>2
  <2> QED
    BY <2>1, <1>2, NewTransactions
<1> QED
  BY <1>4, <1>5, <1>6 DEF Upto

LEMMA CutHas ==
  ASSUME NEW b \in Block, NEW k \in 0..Len(TxsOf[b]), NEW j \in 1..k
  PROVE  TxsOf[b][j] \in Upto(b, k)
  BY DEF Upto

(* The transactions of a block on a chain are among those of the chain,    *)
(* and of a cut of the block above it.                                     *)
LEMMA OlderKnown ==
  ASSUME NEW p \in Point, NEW b \in AfterStart(p), NEW i \in 1..Len(TxsOf[b])
  PROVE  TxsOf[b][i] \in TxsUpTo(p)
  BY DEF TxsUpTo, TxSet

-----------------------------------------------------------------------------
(* The cache.                                                              *)

LEMMA BestFacts ==
  ASSUME CacheOf
  PROVE  /\ BestPoint \in Point
         /\ OnPath(StartPoint, BestPoint)
         /\ tip = NoTip => BestPoint = StartPoint
         /\ tip # NoTip => BestPoint = tip /\ tip \in Block /\ IsAfterStart(tip) /\ tip # StartPoint
<1>1. CASE tip = NoTip
  BY <1>1, BlockAssumption, OnPathReflexive DEF BestPoint
<1>2. CASE tip # NoTip
  <2>1. BestPoint = tip /\ tip \in Block /\ IsAfterStart(tip)
    BY <1>2 DEF BestPoint, CacheOf
  <2>2. OnPath(StartPoint, tip) /\ ~OnPath(tip, StartPoint)
    BY <2>1, NextAfterStart DEF IsAfterStart
  <2>3. tip # StartPoint
    BY <2>2, OnPathReflexive, BlockAssumption
  <2> QED
    BY <1>2, <2>1, <2>2, <2>3 DEF Point
<1> QED
  BY <1>1, <1>2

LEMMA SameCache ==
  ASSUME UNCHANGED cacheVars
  PROVE  /\ Cached' = Cached /\ BestPoint' = BestPoint
         /\ CacheWhole' <=> CacheWhole
         /\ CacheOf' <=> CacheOf
  BY DEF cacheVars, Cached, BestPoint, CacheWhole, CacheOf, IsAfterStart

(* A cache that is whole has the block at the tip.                         *)
LEMMA TipCached ==
  ASSUME CacheOf, CacheWhole, tip # NoTip
  PROVE  tip \in Cached /\ HasBlock(tip)
<1>1. tip \in Block /\ IsAfterStart(tip) /\ BestPoint = tip
  BY BestFacts
<1>2. tip \in AfterStart(tip)
  BY <1>1, NextAfterStart DEF IsAfterStart
<1> QED
  BY <1>1, <1>2 DEF CacheWhole, Cached, HasBlock

-----------------------------------------------------------------------------
(* The steps.                                                              *)

LEMMA InitInv == Init => IInv
<1> SUFFICES ASSUME Init PROVE IInv
  OBVIOUS
<1>1. /\ node \in Point /\ OnPath(StartPoint, node) /\ ptr = Origin
      /\ tip = NoTip /\ prev = [b \in Block |-> NotCached]
      /\ step = [at |-> "down"] /\ out = <<>> /\ applied = {}
  BY DEF Init, NodeInit, CacheInit
<1>2. Cached = {}
  BY <1>1 DEF Cached
<1>3. BestPoint = StartPoint /\ StartPoint \in Point
  BY <1>1, BlockAssumption DEF BestPoint
<1>4. AfterStart(StartPoint) = {} /\ TxsUpTo(StartPoint) = {}
  BY <1>3, OnPathReflexive, NothingAfterStart
<1>5. NodeOf
  BY <1>1 DEF NodeOf, Point
<1>6. CacheOf
  BY <1>1, <1>2 DEF CacheOf
<1>7. Down
  BY <1>1, <1>2, <1>3, <1>4 DEF Down, CacheWhole
<1>8. out \in Seq(Event)
  BY <1>1
<1> QED
  BY <1>5, <1>6, <1>7, <1>8 DEF IInv

(* A client that starts reads from the tip, and replays the whole cache if *)
(* a block was interrupted.                                                *)
LEMMA StartInv == ASSUME Configured, IInv, Start PROVE IInv'
<1>1. /\ step.at = "down" /\ out = <<>>
      /\ node' = node /\ ptr' = BestPoint
      /\ step' = IF ReplayFrom = NoReplay THEN Pulling
                 ELSE [at |-> "replay", blocks |-> Replay(ReplayFrom)]
      /\ UNCHANGED cacheVars /\ out' = out /\ applied' = applied
  BY DEF Start, At, Intersect
<1>2. Down /\ NodeOf /\ CacheOf
  BY <1>1 DEF IInv, Replaying, Waits, Pulling, Putting, RollingBack, Relinking
<1>3. NodeOf' /\ CacheOf' /\ CacheWhole' /\ ptr' = BestPoint' /\ BestPoint' = BestPoint /\ Cached' = Cached
  BY <1>1, <1>2, SameCache, BestFacts DEF NodeOf, cacheVars, Down
<1>4. out' \in Seq(Event) /\ out' = <<>>
  BY <1>1
<1>5. Repeating'
  BY <1>4 DEF Repeating
<1>6. CASE ReplayFrom = NoReplay
  <2>1. applied = TxsUpTo(BestPoint)
    BY <1>2, <1>6 DEF Down, Interrupted, Configured
  <2>2. Waits'
    BY <1>1, <1>3, <1>4, <1>6, <2>1 DEF Waits, Pulling
  <2> QED
    BY <1>3, <1>4, <2>2 DEF IInv
<1>7. CASE ReplayFrom # NoReplay
  <2>1. step' = [at |-> "replay", blocks |-> Replay(ReplayFrom)] /\ step'.blocks \subseteq Cached'
    BY <1>1, <1>3, <1>7 DEF Replay
  <2>2. CASE applied = TxsUpTo(BestPoint)
    <3>1. Replaying'
      BY <1>1, <1>3, <1>5, <2>1, <2>2 DEF Replaying
    <3> QED
      BY <1>3, <1>4, <3>1 DEF IInv
  <2>3. CASE Interrupted
    <3>1. tip \in Cached /\ tip \in Block /\ IsAfterStart(tip)
      BY <1>2, <2>3, TipCached, BestFacts DEF Down, Interrupted
    <3>2. SlotOf[ReplayFrom] <= SlotOf[tip]
      BY <3>1, <2>3 DEF Configured, Interrupted
    <3>3. ReplayFrom \in Point
      BY <1>7, SyncAssumption
    <3>4. tip \in Replay(ReplayFrom)
      BY <3>1, <3>2, <3>3, BlockAssumption DEF Replay, Point
    <3>5. Interrupted' /\ tip' = tip
      BY <1>1, <2>3 DEF Interrupted, cacheVars
    <3>6. Replaying'
      BY <1>1, <1>3, <1>5, <2>1, <3>4, <3>5 DEF Replaying
    <3> QED
      BY <1>3, <1>4, <3>6 DEF IInv
  <2> QED
    BY <1>2, <2>2, <2>3 DEF Down
<1> QED
  BY <1>6, <1>7

(* The first block left to replay is the one of the tip only if it is the  *)
(* last; another one has nothing the index does not have.                  *)
LEMMA ReplayInv == ASSUME Configured, IInv, ReplayNext PROVE IInv'
<1>1. /\ step.at = "replay" /\ out = <<>>
      /\ UNCHANGED nodeVars /\ UNCHANGED cacheVars /\ applied' = applied
  BY DEF ReplayNext, At
<1>2. Replaying /\ NodeOf /\ CacheOf
  BY <1>1 DEF IInv, Down, Waits, Pulling, Putting, RollingBack, Relinking
<1>3. /\ NodeOf' /\ CacheOf' /\ CacheWhole' /\ ptr' = BestPoint'
      /\ BestPoint' = BestPoint /\ Cached' = Cached /\ tip' = tip
  BY <1>1, <1>2, SameCache DEF NodeOf, cacheVars, nodeVars, Replaying
<1>4. CASE step.blocks = {} /\ step' = Pulling /\ out' = out
  <2>1. applied = TxsUpTo(BestPoint)
    <3>1. CASE Interrupted /\ step.blocks = {}
             /\ \E j, k \in 0..Len(TxsOf[tip]) :
                   j <= k /\ Yielding(tip, j) /\ applied = Upto(tip, k)
      <4>1. tip \in Block /\ IsAfterStart(tip) /\ BestPoint = tip
        BY <3>1, <1>2, BestFacts DEF Interrupted
      <4>2. PICK j, k \in 0..Len(TxsOf[tip]) :
                   j <= k /\ Yielding(tip, j) /\ applied = Upto(tip, k)
        BY <3>1
      <4>3. Len(TxsOf[tip]) \in Nat /\ j = Len(TxsOf[tip])
        BY <4>1, <4>2, <1>1, CutEnds DEF Yielding
      <4>4. k = Len(TxsOf[tip])
        BY <4>2, <4>3
      <4> QED
        BY <4>1, <4>2, <4>4, CutEnds
    <3> QED
      BY <1>2, <1>4, <3>1 DEF Replaying
  <2>2. Waits'
    BY <1>1, <1>3, <1>4, <2>1 DEF Waits
  <2> QED
    BY <1>1, <1>3, <1>4, <2>2 DEF IInv
<1>5. ASSUME NEW b \in step.blocks, IsFirst(b, step.blocks),
             step' = [at |-> "replay", blocks |-> step.blocks \ {b}],
             out' = AppliedEvents(b)
      PROVE  IInv'
  <2>1. b \in Cached /\ b \in AfterStart(BestPoint) /\ b \in Block
    BY <1>2 DEF Replaying, CacheWhole, AfterStart
  <2>2. /\ TxsOf[b] \in Seq(Tx) /\ Len(TxsOf[b]) \in Nat
        /\ Len(out') = Len(TxsOf[b])
        /\ \A i \in 1..Len(out') : out'[i] = [kind |-> "apply", tx |-> TxsOf[b][i]]
    BY <1>5, <2>1, BlockAssumption DEF AppliedEvents
  <2>3. out' \in Seq(Event)
    <3>1. \A i \in 1..Len(TxsOf[b]) : [kind |-> "apply", tx |-> TxsOf[b][i]] \in Event
      BY <2>2 DEF Event
    <3>2. out' = [i \in 1..Len(TxsOf[b]) |-> [kind |-> "apply", tx |-> TxsOf[b][i]]]
      BY <1>5 DEF AppliedEvents
    <3> QED
      BY <2>2, <3>1, <3>2
  <2>4. step'.blocks = step.blocks \ {b} /\ step'.blocks \subseteq Cached'
    BY <1>2, <1>3, <1>5 DEF Replaying
  <2>5. BestPoint \in Point
    BY <1>2, BestFacts
  <2>8. ASSUME \A i \in 1..Len(TxsOf[b]) : TxsOf[b][i] \in applied
        PROVE  Repeating'
    <3>1. ASSUME NEW i \in 1..Len(out') PROVE out'[i].kind = "apply" /\ out'[i].tx \in applied'
      <4>1. i \in 1..Len(TxsOf[b]) /\ out'[i] = [kind |-> "apply", tx |-> TxsOf[b][i]]
        BY <2>2
      <4>2. out'[i].kind = "apply" /\ out'[i].tx = TxsOf[b][i]
        BY <4>1
      <4>3. TxsOf[b][i] \in applied'
        BY <1>1, <2>8, <4>1
      <4> QED
        BY <4>2, <4>3
    <3> QED
      BY <3>1 DEF Repeating
  <2>6. CASE applied = TxsUpTo(BestPoint)
    <3>1. Repeating'
      <4>1. \A i \in 1..Len(TxsOf[b]) : TxsOf[b][i] \in TxsUpTo(BestPoint)
        BY <2>1, <2>5, OlderKnown
      <4> QED
        BY <2>6, <2>8, <4>1
    <3>2. Replaying'
      BY <1>1, <1>3, <1>5, <2>4, <2>6, <3>1 DEF Replaying
    <3> QED
      BY <1>3, <2>3, <3>2 DEF IInv
  <2>7. CASE Interrupted /\ tip \in step.blocks
    <3>1. tip \in Block /\ IsAfterStart(tip) /\ BestPoint = tip /\ tip \in Point
      BY <2>7, <1>2, BestFacts DEF Interrupted
    <3>2. Interrupted'
      BY <1>1, <1>3, <2>7 DEF Interrupted
    <3>3. PICK k \in 0..Len(TxsOf[tip]) : applied = Upto(tip, k)
      BY <2>7 DEF Interrupted
    <3>4. CASE b = tip
      <4>1. ASSUME NEW c \in step.blocks PROVE c = tip
        <5>1. c \in Block /\ OnPath(c, tip) /\ SlotOf[tip] <= SlotOf[c]
          BY <1>2, <1>5, <3>1, <3>4 DEF Replaying, CacheWhole, AfterStart, IsFirst
        <5> QED
          BY <3>1, <5>1, SlotsIncrease DEF Point
      <4>2. step'.blocks = {}
        BY <2>4, <3>4, <4>1
      <4>3. Yielding(tip, 0)'
        BY <2>2, <1>3, <3>4 DEF Yielding
      <4>4. 0 \in 0..Len(TxsOf[tip]) /\ 0 <= k
        BY <2>2, <3>4, <3>3
      <4>5. \E i, m \in 0..Len(TxsOf[tip']) :
                 i <= m /\ Yielding(tip, i)' /\ applied' = Upto(tip', m)
        BY <1>1, <1>3, <3>3, <4>3, <4>4
      <4>6. Replaying'
        BY <1>3, <1>5, <2>4, <3>2, <4>2, <4>5 DEF Replaying
      <4> QED
        BY <1>3, <2>3, <4>6 DEF IInv
    <3>5. CASE b # tip
      <4>1. b \in AfterStart(Parent(tip))
        BY <2>1, <3>1, <3>5, NextAfterStart DEF IsAfterStart
      <4>0. \A i \in 1..Len(TxsOf[b]) : TxsOf[b][i] \in TxsUpTo(Parent(tip))
        BY <3>1, <4>1, ParentFacts, OlderKnown
      <4>2. Repeating'
        BY <2>8, <3>3, <4>0 DEF Upto
      <4>3. tip' \in step'.blocks
        BY <1>3, <2>4, <2>7, <3>5
      <4>4. Replaying'
        BY <1>3, <1>5, <2>4, <3>2, <4>2, <4>3 DEF Replaying
      <4> QED
        BY <1>3, <2>3, <4>4 DEF IInv
    <3> QED
      BY <3>4, <3>5
  <2> QED
    BY <1>2, <2>6, <2>7 DEF Replaying
<1> QED
  BY <1>4, <1>5 DEF ReplayNext

(* Between blocks the index holds the chain to the read pointer.           *)
LEMMA AtPull ==
  ASSUME IInv, At("pull")
  PROVE  /\ Waits /\ NodeOf /\ CacheOf /\ CacheWhole
         /\ out = <<>> /\ ptr = BestPoint /\ applied = TxsUpTo(BestPoint)
<1>1. Waits /\ NodeOf /\ CacheOf /\ out = <<>>
  BY DEF At, IInv, Down, Replaying, Putting, RollingBack, Relinking
<1>2. applied = TxsUpTo(BestPoint)
  <2>1. CASE tip # NoTip /\ \E j \in 0..Len(TxsOf[tip]) : Yielding(tip, j) /\ applied = Upto(tip, j)
    <3>1. tip \in Block /\ IsAfterStart(tip) /\ BestPoint = tip
      BY <1>1, <2>1, BestFacts
    <3>2. PICK j \in 0..Len(TxsOf[tip]) : Yielding(tip, j) /\ applied = Upto(tip, j)
      BY <2>1
    <3>3. j = Len(TxsOf[tip])
      BY <1>1, <3>1, <3>2, CutEnds DEF Yielding
    <3> QED
      BY <3>1, <3>2, <3>3, CutEnds
  <2> QED
    BY <1>1, <2>1 DEF Waits
<1> QED
  BY <1>1, <1>2 DEF Waits

(* The node answers with the block above the read pointer, which is linked *)
(* to the tip.                                                             *)
LEMMA RollForwardInv ==
  ASSUME Configured, IInv, NEW b \in Point, RollForward(b)
  PROVE  IInv'
<1>1. /\ node' = node /\ ptr' = b /\ tip' = b /\ prev' = prev /\ applied' = applied
      /\ OnPath(b, node) /\ b # Origin /\ Parent(b) = ptr
      /\ IF SlotOf[b] > NoRollbackUntil
         THEN step' = [at |-> "put", block |-> b, link |-> LinkPoint] /\ out' = out
         ELSE step' = Pulling /\ out' = AppliedEvents(b)
      /\ At("pull")
  BY DEF RollForward, AnswerRollForward, SetTip
<1>2. NodeOf /\ CacheOf /\ CacheWhole /\ out = <<>> /\ ptr = BestPoint /\ applied = TxsUpTo(BestPoint)
  BY <1>1, AtPull
<1>3. b \in Block /\ IsAfterStart(b) /\ b # NoTip
  BY <1>1, <1>2, BestFacts, CacheAssumption DEF IsAfterStart, Point
<1>4. step' = [at |-> "put", block |-> b, link |-> LinkPoint] /\ out' = <<>>
  BY <1>1, <1>2, <1>3 DEF Configured
<1>5. LinkPoint \in Point /\ (LinkPoint = Parent(b) \/ Parent(b) = StartPoint)
  BY <1>1, <1>2, BestFacts DEF LinkPoint, Point
<1>6. node # StartPoint
  <2>1. ~OnPath(b, StartPoint)
    BY <1>3, NextAfterStart DEF IsAfterStart
  <2> QED
    BY <1>1, <2>1
<1>7. NodeOf'
  BY <1>1, <1>2, <1>6 DEF NodeOf
<1>8. Cached' = Cached
  BY <1>1 DEF Cached
<1>9. CacheOf'
  BY <1>1, <1>2, <1>3, <1>8 DEF CacheOf, IsAfterStart
<1>10. Putting'
  BY <1>1, <1>2, <1>3, <1>4, <1>5, <1>8 DEF Putting, CacheWhole
<1> QED
  BY <1>4, <1>7, <1>9, <1>10 DEF IInv

LEMMA FinishCachingInv == ASSUME Configured, IInv, FinishCaching PROVE IInv'
<1>1. /\ step.at = "put" /\ UNCHANGED nodeVars /\ tip' = tip /\ applied' = applied
      /\ prev' = [prev EXCEPT ![step.block] = step.link]
      /\ step' = Pulling /\ out' = AppliedEvents(step.block)
  BY DEF FinishCaching, At, PutBlock
<1>2. Putting /\ NodeOf /\ CacheOf
  BY <1>1 DEF IInv, Down, Replaying, Waits, Pulling, RollingBack, Relinking
<1>3. /\ tip \in Block /\ step.block = tip /\ step.link \in Point /\ ptr = tip
      /\ step.link = Parent(tip) \/ Parent(tip) = StartPoint
      /\ Cached = AfterStart(Parent(tip)) /\ applied = TxsUpTo(Parent(tip))
  BY <1>2 DEF Putting
<1>4. tip # NoTip /\ IsAfterStart(tip) /\ BestPoint = tip /\ BestPoint' = tip
  BY <1>1, <1>2, <1>3, CacheAssumption, BestFacts DEF Point, BestPoint
<1>5. prev' \in [Block -> Point \cup {NotCached}] /\ prev'[tip] = step.link
      /\ \A b \in Block \ {tip} : prev'[b] = prev[b]
  BY <1>1, <1>2, <1>3 DEF CacheOf
<1>6. Cached' = Cached \cup {tip}
  BY <1>3, <1>5, CacheAssumption DEF Cached
<1>7. CacheWhole'
  BY <1>3, <1>4, <1>6, NextAfterStart DEF CacheWhole, IsAfterStart
<1>8. CacheOf'
  BY <1>1, <1>2, <1>3, <1>5, <1>6 DEF CacheOf, IsAfterStart, Cached
<1>9. NodeOf'
  BY <1>1, <1>2 DEF NodeOf, nodeVars
<1>10. /\ TxsOf[tip] \in Seq(Tx) /\ Len(TxsOf[tip]) \in Nat
       /\ out' = [i \in 1..Len(TxsOf[tip]) |-> [kind |-> "apply", tx |-> TxsOf[tip][i]]]
  BY <1>1, <1>3, BlockAssumption DEF AppliedEvents
<1>11. out' \in Seq(Event)
  <2>1. \A i \in 1..Len(TxsOf[tip]) : [kind |-> "apply", tx |-> TxsOf[tip][i]] \in Event
    BY <1>10 DEF Event
  <2> QED
    BY <1>10, <2>1
<1>12. Yielding(tip, 0)' /\ applied' = Upto(tip', 0) /\ 0 \in 0..Len(TxsOf[tip'])
  BY <1>1, <1>3, <1>4, <1>10, CutEnds DEF Yielding
<1>13. Waits'
  BY <1>1, <1>3, <1>4, <1>7, <1>12, nodeVars' = nodeVars DEF Waits, nodeVars
<1> QED
  BY <1>8, <1>9, <1>11, <1>13 DEF IInv

(* The point the node rolls back to lies on the path of the tip, and is    *)
(* the starting point only before the first block.                         *)
LEMMA RollBackwardInv ==
  ASSUME Configured, IInv, NEW to \in Point, RollBackward(to)
  PROVE  IInv'
<1>1. /\ node' = node /\ ptr' = to /\ UNCHANGED cacheVars /\ out' = out /\ applied' = applied
      /\ IsMeet(to, ptr, node)
      /\ step' = IF SlotOf[to] > NoRollbackUntil THEN [at |-> "rollback", to |-> to] ELSE Pulling
      /\ At("pull")
  BY DEF RollBackward, AnswerRollBackward
<1>2. NodeOf /\ CacheOf /\ CacheWhole /\ out = <<>> /\ ptr = BestPoint /\ applied = TxsUpTo(BestPoint)
  BY <1>1, AtPull
<1>3. BestPoint \in Point /\ OnPath(StartPoint, BestPoint) /\ OnPath(StartPoint, node) /\ node \in Point
  BY <1>2, BestFacts DEF NodeOf
<1>4. OnPath(to, BestPoint) /\ OnPath(StartPoint, to)
  BY <1>1, <1>2, <1>3, BlockAssumption DEF IsMeet
<1>5. ASSUME to = StartPoint PROVE BestPoint = StartPoint
  <2> SUFFICES ASSUME tip # NoTip PROVE FALSE
    BY <1>2, BestFacts
  <2>1. BestPoint = tip /\ tip \in Block /\ IsAfterStart(tip) /\ node # StartPoint
    BY <1>2, BestFacts DEF NodeOf
  <2>2. PICK b \in Block : Parent(b) = StartPoint /\ OnPath(b, tip)
    BY <2>1, FirstBlock, NextAfterStart, OnPathReflexive DEF IsAfterStart, Point
  <2>3. PICK c \in Block : Parent(c) = StartPoint /\ OnPath(c, node)
    BY <1>3, <2>1, FirstBlock
  <2>4. b = c
    BY <2>2, <2>3 DEF Configured
  <2>5. OnPath(b, to)
    BY <1>1, <1>2, <2>1, <2>2, <2>3, <2>4 DEF IsMeet, Point
  <2> QED
    BY <1>5, <2>2, <2>5, ParentFacts, OnPathReflexive, BlockAssumption
<1>6. NodeOf' /\ CacheOf' /\ CacheWhole' /\ BestPoint' = BestPoint
  BY <1>1, <1>2, SameCache DEF NodeOf, cacheVars
<1>7. out' = <<>> /\ out' \in Seq(Event)
  BY <1>1, <1>2
<1>8. CASE SlotOf[to] > NoRollbackUntil
  <2>1. RollingBack'
    BY <1>1, <1>2, <1>4, <1>5, <1>6, <1>7, <1>8 DEF RollingBack
  <2> QED
    BY <1>6, <1>7, <2>1 DEF IInv
<1>9. CASE ~(SlotOf[to] > NoRollbackUntil)
  <2>1. to = StartPoint
    BY <1>4, <1>9, AtOrAfterStart DEF Configured, IsAfterStart
  <2>2. Waits'
    BY <1>1, <1>2, <1>5, <1>6, <1>7, <1>9, <2>1 DEF Waits
  <2> QED
    BY <1>6, <1>7, <2>2 DEF IInv
<1> QED
  BY <1>8, <1>9

(* The block at the tip leaves the cache first, ...                        *)
LEMMA UndoTipInv == ASSUME Configured, IInv, UndoTip PROVE IInv'
<1>1. /\ step.at = "rollback" /\ out = <<>> /\ tip # step.to /\ HasBlock(tip)
      /\ prev' = [prev EXCEPT ![tip] = NotCached] /\ tip' = tip /\ rolling' = TRUE
      /\ step' = [at |-> "relink", to |-> step.to, block |-> tip, link |-> prev[tip]]
      /\ UNCHANGED nodeVars /\ out' = out /\ applied' = applied
  BY DEF UndoTip, At, Delete
<1>2. RollingBack /\ NodeOf /\ CacheOf
  BY <1>1 DEF IInv, Down, Replaying, Waits, Pulling, Putting, Relinking
<1>3. /\ step.to = ptr /\ OnPath(StartPoint, ptr) /\ OnPath(ptr, BestPoint) /\ ptr \in Point
      /\ ptr = StartPoint => BestPoint = StartPoint
      /\ CacheWhole
  BY <1>2 DEF RollingBack, NodeOf
<1>4. tip \in Block /\ tip # NoTip /\ BestPoint = tip /\ IsAfterStart(tip) /\ tip # StartPoint
  BY <1>1, <1>2, BestFacts, CacheAssumption DEF HasBlock, Point
<1>5. applied = TxsUpTo(tip)
  <2>1. ASSUME NEW b \in Block, NEW j \in 0..Len(TxsOf[b]),
               Parent(b) = BestPoint, Undoing(b, j), applied = Upto(b, j)
        PROVE  applied = TxsUpTo(tip)
    <3>1. j = 0
      BY <1>1, <2>1 DEF Undoing
    <3>2. IsAfterStart(b)
      BY <1>2, <2>1, BestFacts DEF IsAfterStart
    <3> QED
      BY <1>4, <2>1, <3>1, <3>2, CutEnds
  <2> QED
    BY <1>2, <1>4, <2>1 DEF RollingBack
<1>6. ptr # StartPoint /\ OnPath(ptr, Parent(tip)) /\ Parent(tip) \in Point
  BY <1>1, <1>3, <1>4, ParentFacts
<1>7. Parent(tip) # StartPoint
  BY <1>3, <1>6, OnPathAntisymmetric
<1>8. tip \in Cached
  BY <1>1 DEF HasBlock, Cached
<1>9. prev[tip] = Parent(tip)
  BY <1>2, <1>7, <1>8 DEF CacheOf
<1>10. prev' \in [Block -> Point \cup {NotCached}] /\ prev'[tip] = NotCached
       /\ \A b \in Block \ {tip} : prev'[b] = prev[b]
  BY <1>1, <1>2, <1>4 DEF CacheOf
<1>11. Cached' = Cached \ {tip}
  BY <1>4, <1>10 DEF Cached
<1>12. Cached' = AfterStart(Parent(tip))
  BY <1>3, <1>4, <1>11, NextAfterStart DEF CacheWhole, IsAfterStart
<1>13. CacheOf'
  BY <1>1, <1>2, <1>10, <1>11 DEF CacheOf, IsAfterStart
<1>14. NodeOf'
  BY <1>1, <1>2 DEF NodeOf, nodeVars
<1>15. Relinking'
  BY <1>1, <1>3, <1>4, <1>5, <1>6, <1>9, <1>12 DEF Relinking, nodeVars
<1> QED
  BY <1>1, <1>13, <1>14, <1>15 DEF IInv

(* ... then the tip goes back to its parent, and its events are undone     *)
(* from the last.                                                          *)
LEMMA RelinkInv == ASSUME Configured, IInv, Relink PROVE IInv'
<1>1. /\ step.at = "relink" /\ tip' = step.link /\ prev' = prev
      /\ step' = [at |-> "rollback", to |-> step.to]
      /\ out' = UnappliedEvents(step.block)
      /\ UNCHANGED nodeVars /\ applied' = applied /\ rolling' = rolling
  BY DEF Relink, At, SetTip
<1>2. Relinking /\ NodeOf /\ CacheOf
  BY <1>1 DEF IInv, Down, Replaying, Waits, Pulling, Putting, RollingBack
<1>3. /\ step.to = ptr /\ step.block = tip /\ step.link = Parent(tip) /\ tip \in Block /\ rolling
      /\ OnPath(StartPoint, ptr) /\ OnPath(ptr, Parent(tip)) /\ ptr # StartPoint /\ ptr \in Point
      /\ Cached = AfterStart(Parent(tip)) /\ applied = TxsUpTo(tip)
  BY <1>2 DEF Relinking, NodeOf
<1>4. tip # NoTip /\ IsAfterStart(tip) /\ Parent(tip) \in Point /\ OnPath(StartPoint, Parent(tip))
  BY <1>2, <1>3, CacheAssumption, BestFacts, ParentFacts DEF Point, IsAfterStart
<1>5. Parent(tip) # StartPoint
  BY <1>3, <1>4, OnPathAntisymmetric
<1>6. Parent(tip) \in Block /\ IsAfterStart(Parent(tip))
  BY <1>4, <1>5, AtOrAfterStart DEF IsAfterStart
<1>7. tip' = Parent(tip) /\ BestPoint' = Parent(tip) /\ Cached' = Cached /\ tip' # NoTip
  BY <1>1, <1>3, <1>6, CacheAssumption DEF BestPoint, Cached, Point
<1>8. CacheOf'
  BY <1>1, <1>2, <1>6, <1>7 DEF CacheOf, IsAfterStart
<1>9. NodeOf'
  BY <1>1, <1>2, <1>4 DEF NodeOf, nodeVars
<1> DEFINE n == Len(TxsOf[tip])
           ev == [i \in 1..n |-> [kind |-> "unapply", tx |-> TxsOf[tip][i]]]
<1>10. TxsOf[tip] \in Seq(Tx) /\ n \in Nat
  BY <1>3, BlockAssumption
<1>11. ev \in Seq(Event) /\ Len(ev) = n
  <2>1. \A i \in 1..n : [kind |-> "unapply", tx |-> TxsOf[tip][i]] \in Event
    BY <1>10 DEF Event
  <2> QED
    BY <1>10, <2>1
<1>12. out' = [i \in 1..n |-> ev[n - i + 1]]
  BY <1>1, <1>3, <1>11 DEF UnappliedEvents, Reverse
<1>13. \A i \in 1..n : n - i + 1 \in 1..n
  BY <1>10
<1>14. out' \in Seq(Event)
  <2>1. \A i \in 1..n : ev[n - i + 1] \in Event
    BY <1>11, <1>13
  <2> QED
    BY <1>10, <1>12, <2>1
<1>15. /\ Len(out') = n
       /\ \A i \in 1..n : out'[i] = [kind |-> "unapply", tx |-> TxsOf[tip][n - i + 1]]
  <2>1. Len(out') = n
    BY <1>10, <1>12
  <2>2. ASSUME NEW i \in 1..n
        PROVE  out'[i] = [kind |-> "unapply", tx |-> TxsOf[tip][n - i + 1]]
    BY <1>12, <1>13
  <2>3. \A i \in 1..n : out'[i] = [kind |-> "unapply", tx |-> TxsOf[tip][n - i + 1]]
    BY <2>2
  <2> QED
    BY <2>1, <2>3
<1>16. applied' = Upto(tip, n) /\ n \in 0..Len(TxsOf[tip])
  BY <1>1, <1>3, <1>4, <1>10, CutEnds
<1>17. \E b \in Block : \E j \in 0..Len(TxsOf[b]) :
          /\ Parent(b) = BestPoint'
          /\ Len(out') = j
          /\ \A i \in 1..j : out'[i] = [kind |-> "unapply", tx |-> TxsOf[b][j - i + 1]]
          /\ applied' = Upto(b, j)
  <2> HIDE DEF n
  <2> QED
    BY <1>3, <1>7, <1>15, <1>16
<1>18. RollingBack'
  BY <1>1, <1>3, <1>7, <1>17 DEF RollingBack, CacheWhole, nodeVars, Undoing, Upto
<1> QED
  BY <1>8, <1>9, <1>14, <1>18 DEF IInv

(* The rollback ends at its point: no block on the way is missing.         *)
LEMMA RollbackEndsInv == ASSUME Configured, IInv, RollbackEnds PROVE IInv'
<1>1. /\ step.at = "rollback" /\ out = <<>> /\ (tip = step.to \/ ~HasBlock(tip))
      /\ step' = Pulling /\ out' = out /\ applied' = applied
      /\ UNCHANGED nodeVars /\ UNCHANGED cacheVars
  BY DEF RollbackEnds, At
<1>2. RollingBack /\ NodeOf /\ CacheOf
  BY <1>1 DEF IInv, Down, Replaying, Waits, Pulling, Putting, Relinking
<1>3. ptr = BestPoint
  <2>1. CASE tip = NoTip
    BY <1>2, <2>1, BestFacts, OnPathAntisymmetric DEF RollingBack, NodeOf
  <2>2. CASE tip # NoTip
    BY <1>1, <1>2, <2>2, TipCached, BestFacts DEF RollingBack
  <2> QED
    BY <2>1, <2>2
<1>4. applied = TxsUpTo(BestPoint)
  <2>1. ASSUME NEW b \in Block, NEW j \in 0..Len(TxsOf[b]),
               Parent(b) = BestPoint, Undoing(b, j), applied = Upto(b, j)
        PROVE  applied = TxsUpTo(BestPoint)
    <3>1. j = 0
      BY <1>1, <2>1 DEF Undoing
    <3>2. IsAfterStart(b)
      BY <1>2, <2>1, BestFacts DEF IsAfterStart
    <3> QED
      BY <2>1, <3>1, <3>2, CutEnds
  <2> QED
    BY <1>2, <2>1 DEF RollingBack
<1>5. NodeOf' /\ CacheOf' /\ CacheWhole' /\ BestPoint' = BestPoint /\ ptr' = ptr
  BY <1>1, <1>2, SameCache DEF NodeOf, RollingBack, cacheVars, nodeVars
<1>6. Waits'
  BY <1>1, <1>3, <1>4, <1>5 DEF Waits
<1> QED
  BY <1>1, <1>5, <1>6 DEF IInv

(* Steps that touch neither the cache, nor the stream, nor the index.      *)
LEMMA StutterInv ==
  ASSUME IInv, NodeOf', ptr' = ptr, UNCHANGED cacheVars,
         step' = step, out' = out, applied' = applied, rolling' = rolling
  PROVE  IInv'
<1>1. /\ CacheOf' <=> CacheOf
      /\ CacheWhole' <=> CacheWhole
      /\ BestPoint' = BestPoint /\ Cached' = Cached /\ tip' = tip
  BY SameCache DEF cacheVars
<1>2. /\ Down => Down'
      /\ Waits => Waits'
      /\ Putting => Putting'
      /\ Relinking => Relinking'
  BY <1>1 DEF Down, Interrupted, Waits, Putting, Relinking, Yielding
<1>3. RollingBack => RollingBack'
  BY <1>1 DEF RollingBack, Undoing
<1>4. Replaying => Replaying'
  BY <1>1 DEF Replaying, Interrupted, Repeating, Yielding
<1> QED
  BY <1>1, <1>2, <1>3, <1>4 DEF IInv

LEMMA TipReachedInv == ASSUME IInv, TipReached PROVE IInv'
<1>1. NodeOf
  BY DEF IInv
<1>2. /\ UNCHANGED nodeVars /\ UNCHANGED cacheVars
      /\ step' = step /\ out' = out /\ applied' = applied /\ rolling' = rolling
  BY DEF TipReached, AnswerNone
<1>3. NodeOf' /\ ptr' = ptr
  BY <1>1, <1>2 DEF NodeOf, nodeVars, cacheVars
<1> QED
  BY <1>2, <1>3, StutterInv

LEMMA NodeMovesInv == ASSUME IInv, NodeMoves PROVE IInv'
<1>1. NodeOf
  BY DEF IInv
<1>2. /\ UNCHANGED cacheVars /\ ptr' = ptr
      /\ step' = step /\ out' = out /\ applied' = applied /\ rolling' = rolling
  BY DEF NodeMoves, Break, Adopt, syncVars
<1>3. NodeOf'
  <2>1. CASE node' = node
    BY <1>1, <1>2, <2>1 DEF NodeOf, cacheVars
  <2>2. ASSUME NEW b \in Block, Adopt(b) PROVE NodeOf'
    <3>1. node' = b /\ OnPath(StartPoint, b) /\ Height(b) > Height(node)
      BY <2>2 DEF Adopt
    <3>2. Height(node) >= Height(StartPoint) /\ Height(StartPoint) \in Nat /\ Height(node) \in Nat
          /\ Height(b) \in Nat
      BY <1>1, <3>1, OnPathHeight, BlockAssumption DEF NodeOf, Point
    <3>3. b # StartPoint
      BY <3>1, <3>2
    <3> QED
      BY <1>1, <1>2, <3>1, <3>3 DEF NodeOf, Point
  <2> QED
    BY <2>1, <2>2 DEF NodeMoves, Break
<1> QED
  BY <1>2, <1>3, StutterInv

(* What is left once the consumer has taken an event.                      *)
LEMMA NextEvent ==
  ASSUME out \in Seq(Event), out # <<>>
  PROVE  /\ Len(out) \in Nat \ {0} /\ Head(out) = out[1]
         /\ Tail(out) \in Seq(Event) /\ Len(Tail(out)) = Len(out) - 1
         /\ \A i \in 1..Len(Tail(out)) : Tail(out)[i] = out[i + 1]
  OBVIOUS

LEMMA NextYielded ==
  ASSUME NEW b \in Block, NEW j \in 0..Len(TxsOf[b]),
         out \in Seq(Event), out # <<>>, Yielding(b, j)
  PROVE  /\ j \in 0..Len(TxsOf[b]) - 1 /\ j + 1 \in 0..Len(TxsOf[b])
         /\ Head(out) = [kind |-> "apply", tx |-> TxsOf[b][j + 1]]
         /\ Len(Tail(out)) = Len(TxsOf[b]) - (j + 1)
         /\ \A i \in 1..Len(Tail(out)) : Tail(out)[i] = [kind |-> "apply", tx |-> TxsOf[b][(j + 1) + i]]
<1>1. Len(TxsOf[b]) \in Nat /\ j \in Nat
  BY BlockAssumption
<1>2. Len(out) = Len(TxsOf[b]) - j /\ 1 \in 1..Len(out)
  BY NextEvent DEF Yielding
<1>3. out[1] = [kind |-> "apply", tx |-> TxsOf[b][j + 1]]
  BY <1>2 DEF Yielding
<1>4. Len(Tail(out)) = Len(TxsOf[b]) - (j + 1)
  BY <1>1, <1>2, NextEvent
<1>5. ASSUME NEW i \in 1..Len(Tail(out))
      PROVE  Tail(out)[i] = [kind |-> "apply", tx |-> TxsOf[b][(j + 1) + i]]
  <2>1. i + 1 \in 1..Len(out) /\ Tail(out)[i] = out[i + 1]
    BY NextEvent
  <2>2. out[i + 1] = [kind |-> "apply", tx |-> TxsOf[b][j + (i + 1)]]
    BY <2>1 DEF Yielding
  <2>3. j + (i + 1) = (j + 1) + i
    BY <1>1
  <2> QED
    BY <2>1, <2>2, <2>3
<1> QED
  BY <1>1, <1>2, <1>3, <1>4, <1>5, NextEvent

LEMMA NextUndone ==
  ASSUME NEW b \in Block, NEW j \in 0..Len(TxsOf[b]),
         out \in Seq(Event), out # <<>>, Undoing(b, j)
  PROVE  /\ j - 1 \in 0..Len(TxsOf[b]) - 1 /\ j - 1 \in 0..Len(TxsOf[b])
         /\ Head(out) = [kind |-> "unapply", tx |-> TxsOf[b][(j - 1) + 1]]
         /\ Len(Tail(out)) = j - 1
         /\ \A i \in 1..j - 1 : Tail(out)[i] = [kind |-> "unapply", tx |-> TxsOf[b][(j - 1) - i + 1]]
<1>1. Len(TxsOf[b]) \in Nat /\ j \in Nat
  BY BlockAssumption
<1>2. Len(out) = j /\ j > 0 /\ 1 \in 1..j
  BY <1>1, NextEvent DEF Undoing
<1>3. out[1] = [kind |-> "unapply", tx |-> TxsOf[b][j - 1 + 1]]
  BY <1>2 DEF Undoing
<1>4. Len(Tail(out)) = j - 1
  BY <1>1, <1>2, NextEvent
<1>5. ASSUME NEW i \in 1..j - 1
      PROVE  Tail(out)[i] = [kind |-> "unapply", tx |-> TxsOf[b][(j - 1) - i + 1]]
  <2>1. i + 1 \in 1..j /\ Tail(out)[i] = out[i + 1]
    BY <1>1, <1>4, NextEvent
  <2>2. out[i + 1] = [kind |-> "unapply", tx |-> TxsOf[b][j - (i + 1) + 1]]
    BY <2>1 DEF Undoing
  <2>3. j - (i + 1) + 1 = (j - 1) - i + 1
    BY <1>1
  <2> QED
    BY <2>1, <2>2, <2>3
<1> QED
  BY <1>1, <1>2, <1>3, <1>4, <1>5, NextEvent

(* The consumer takes an event.                                            *)
LEMMA DeliverInv == ASSUME Configured, IInv, Deliver PROVE IInv'
<1>1. /\ out # <<>> /\ out' = Tail(out) /\ UNCHANGED nodeVars /\ UNCHANGED cacheVars
      /\ step' = step /\ rolling' = rolling
      /\ applied' = IF Head(out).kind = "apply" THEN applied \cup {Head(out).tx}
                    ELSE applied \ {Head(out).tx}
  BY DEF Deliver
<1>2. NodeOf /\ CacheOf /\ out \in Seq(Event) /\ (Replaying \/ Waits \/ RollingBack)
  BY <1>1 DEF IInv, Down, Putting, Relinking
<1>3. /\ NodeOf' /\ CacheOf' /\ (CacheWhole' <=> CacheWhole)
      /\ BestPoint' = BestPoint /\ Cached' = Cached /\ tip' = tip /\ ptr' = ptr
  BY <1>1, <1>2, SameCache DEF NodeOf, cacheVars, nodeVars
<1>4. out' \in Seq(Event)
  BY <1>1, <1>2, NextEvent
<1>5. ASSUME Repeating PROVE applied' = applied /\ Repeating'
  <2>1. 1 \in 1..Len(out) /\ Head(out) = out[1]
    BY <1>1, <1>2, NextEvent
  <2>2. applied' = applied
    BY <1>1, <1>5, <2>1 DEF Repeating
  <2>3. ASSUME NEW i \in 1..Len(out') PROVE out'[i].kind = "apply" /\ out'[i].tx \in applied'
    <3>1. i + 1 \in 1..Len(out) /\ out'[i] = out[i + 1]
      BY <1>1, <1>2, <2>3, NextEvent
    <3> QED
      BY <1>5, <2>2, <3>1 DEF Repeating
  <2> QED
    BY <2>2, <2>3 DEF Repeating
<1>6. CASE Replaying
  <2>1. CASE applied = TxsUpTo(BestPoint) /\ Repeating
    <3>1. Replaying'
      BY <1>1, <1>3, <1>5, <1>6, <2>1 DEF Replaying, nodeVars
    <3> QED
      BY <1>3, <1>4, <3>1 DEF IInv
  <2>2. CASE Interrupted /\ tip \in step.blocks /\ Repeating
    <3>1. Interrupted'
      BY <1>3, <1>5, <2>2 DEF Interrupted
    <3>2. Replaying'
      BY <1>1, <1>3, <1>5, <1>6, <2>2, <3>1 DEF Replaying, nodeVars
    <3> QED
      BY <1>3, <1>4, <3>2 DEF IInv
  <2>3. CASE /\ Interrupted /\ step.blocks = {}
             /\ \E j, k \in 0..Len(TxsOf[tip]) :
                  j <= k /\ Yielding(tip, j) /\ applied = Upto(tip, k)
    <3>1. tip \in Block /\ tip # NoTip /\ Len(TxsOf[tip]) \in Nat
      BY <1>2, <2>3, BestFacts, BlockAssumption DEF Interrupted
    <3>2. PICK j, k \in 0..Len(TxsOf[tip]) :
                 j <= k /\ Yielding(tip, j) /\ applied = Upto(tip, k)
      BY <2>3
    <3>3. /\ j \in 0..Len(TxsOf[tip]) - 1 /\ j + 1 \in 0..Len(TxsOf[tip])
          /\ Head(out) = [kind |-> "apply", tx |-> TxsOf[tip][j + 1]]
          /\ Len(out') = Len(TxsOf[tip]) - (j + 1)
          /\ \A i \in 1..Len(out') : out'[i] = [kind |-> "apply", tx |-> TxsOf[tip][(j + 1) + i]]
      BY <1>1, <1>2, <3>1, <3>2, NextYielded
    <3>4. applied' = applied \cup {TxsOf[tip][j + 1]}
      BY <1>1, <3>3
    <3>5. \E m \in 0..Len(TxsOf[tip]) : j + 1 <= m /\ applied' = Upto(tip, m)
      <4>1. CASE j = k
        <5>1. applied' = Upto(tip, j + 1)
          BY <3>1, <3>2, <3>3, <3>4, <4>1, CutGrows
        <5> QED
          BY <3>3, <5>1
      <4>2. CASE j < k
        <5>1. j + 1 \in 1..k
          BY <3>1, <4>2
        <5>2. applied' = applied
          BY <3>1, <3>2, <3>4, <5>1, CutHas
        <5> QED
          BY <3>2, <5>1, <5>2
      <4> QED
        BY <3>2, <4>1, <4>2
    <3>6. PICK m \in 0..Len(TxsOf[tip]) : j + 1 <= m /\ applied' = Upto(tip, m)
      BY <3>5
    <3>7. Interrupted'
      <4>1. \E l \in 0..Len(TxsOf[tip']) : applied' = Upto(tip', l)
        BY <1>3, <3>6
      <4> QED
        BY <1>3, <2>3, <4>1 DEF Interrupted
    <3>8. Yielding(tip, j + 1)'
      BY <1>3, <3>3 DEF Yielding
    <3>9. \E i, l \in 0..Len(TxsOf[tip']) :
             i <= l /\ Yielding(tip, i)' /\ applied' = Upto(tip', l)
      BY <1>3, <3>3, <3>6, <3>8
    <3>10. Replaying'
      BY <1>1, <1>3, <1>6, <2>3, <3>7, <3>9 DEF Replaying, nodeVars
    <3> QED
      BY <1>3, <1>4, <3>10 DEF IInv
  <2> QED
    BY <1>6, <2>1, <2>2, <2>3 DEF Replaying
<1>7. CASE Waits
  <2>1. tip # NoTip /\ tip \in Block
    BY <1>1, <1>2, <1>7, BestFacts DEF Waits
  <2>2. PICK j \in 0..Len(TxsOf[tip]) : Yielding(tip, j) /\ applied = Upto(tip, j)
    BY <1>1, <1>7 DEF Waits
  <2>3. /\ j \in 0..Len(TxsOf[tip]) - 1 /\ j + 1 \in 0..Len(TxsOf[tip])
        /\ Head(out) = [kind |-> "apply", tx |-> TxsOf[tip][j + 1]]
        /\ Len(out') = Len(TxsOf[tip]) - (j + 1)
        /\ \A i \in 1..Len(out') : out'[i] = [kind |-> "apply", tx |-> TxsOf[tip][(j + 1) + i]]
    BY <1>1, <1>2, <2>1, <2>2, NextYielded
  <2>4. applied' = Upto(tip, j + 1)
    <3>1. applied' = applied \cup {TxsOf[tip][j + 1]}
      BY <1>1, <2>3
    <3>2. Upto(tip, j) \cup {TxsOf[tip][j + 1]} = Upto(tip, j + 1)
      BY <2>1, <2>3, CutGrows
    <3> QED
      BY <2>2, <3>1, <3>2
  <2>5. Yielding(tip, j + 1)'
    BY <1>3, <2>3 DEF Yielding
  <2>6. \E i \in 0..Len(TxsOf[tip]) : Yielding(tip, i)' /\ applied' = Upto(tip, i)
    BY <2>3, <2>4, <2>5
  <2>7. Waits'
    BY <1>1, <1>3, <1>7, <2>1, <2>6 DEF Waits, Pulling, nodeVars, Upto
  <2> QED
    BY <1>3, <1>4, <2>7 DEF IInv
<1>8. CASE RollingBack
  <2>1. PICK b \in Block : \E j \in 0..Len(TxsOf[b]) :
               Parent(b) = BestPoint /\ Undoing(b, j) /\ applied = Upto(b, j)
    BY <1>1, <1>8 DEF RollingBack
  <2>2. PICK j \in 0..Len(TxsOf[b]) :
               Parent(b) = BestPoint /\ Undoing(b, j) /\ applied = Upto(b, j)
    BY <2>1
  <2>3. /\ j - 1 \in 0..Len(TxsOf[b]) - 1 /\ j - 1 \in 0..Len(TxsOf[b])
        /\ Head(out) = [kind |-> "unapply", tx |-> TxsOf[b][(j - 1) + 1]]
        /\ Len(out') = j - 1
        /\ \A i \in 1..j - 1 : out'[i] = [kind |-> "unapply", tx |-> TxsOf[b][(j - 1) - i + 1]]
    BY <1>1, <1>2, <2>1, <2>2, NextUndone
  <2>4. applied' = applied \ {TxsOf[b][(j - 1) + 1]}
    BY <1>1, <2>3
  <2>5. Upto(b, (j - 1) + 1) \ {TxsOf[b][(j - 1) + 1]} = Upto(b, j - 1)
    BY <2>3, CutGrows
  <2>6. (j - 1) + 1 = j
    BY BlockAssumption
  <2>7. applied' = Upto(b, j - 1)
    BY <2>2, <2>4, <2>5, <2>6
  <2>8. Undoing(b, j - 1)'
    BY <2>3 DEF Undoing
  <2>9. \E c \in Block : \E i \in 0..Len(TxsOf[c]) :
               Parent(c) = BestPoint /\ Undoing(c, i)' /\ applied' = Upto(c, i)
    BY <2>2, <2>3, <2>7, <2>8
  <2>10. RollingBack'
    BY <1>1, <1>3, <1>8, <2>9 DEF RollingBack, nodeVars, Upto
  <2> QED
    BY <1>3, <1>4, <2>10 DEF IInv
<1> QED
  BY <1>2, <1>6, <1>7, <1>8

(* The process ends where Configured lets it: between two steps of the     *)
(* stream, or with a block of the chain half applied.                      *)
LEMMA CrashInv == ASSUME Configured, IInv, Crash PROVE IInv'
<1>1. /\ Stage \in {"replay", "pull", "rollback", "apply"} /\ Stage \in CrashAt
      /\ node' = node /\ ptr' = ptr /\ UNCHANGED cacheVars
      /\ step' = [at |-> "down"] /\ out' = <<>> /\ applied' = applied
  BY DEF Crash, Disconnect, Configured
<1>2. /\ NodeOf /\ CacheOf /\ out \in Seq(Event)
      /\ NodeOf' /\ CacheOf' /\ BestPoint' = BestPoint /\ Cached' = Cached /\ tip' = tip
      /\ CacheWhole' <=> CacheWhole
  BY <1>1, SameCache DEF NodeOf, cacheVars, IInv
<1>3. out # <<>> => 1 \in 1..Len(out) /\ Head(out) = out[1] /\ Stage = out[1].kind
  BY <1>2, NextEvent DEF Stage
<1>4. CacheWhole /\ (applied = TxsUpTo(BestPoint) \/ Interrupted)
  <2>1. CASE Replaying
    BY <2>1 DEF Replaying
  <2>2. CASE Waits
    <3>1. CASE out = <<>>
      BY <1>1, <1>2, <2>2, <3>1, AtPull DEF Waits, At, Pulling
    <3>2. CASE out # <<>>
      <4>1. tip # NoTip
        BY <2>2, <3>2 DEF Waits
      <4>2. PICK j \in 0..Len(TxsOf[tip]) : Yielding(tip, j) /\ applied = Upto(tip, j)
        BY <2>2, <3>2 DEF Waits
      <4>3. Stage = "apply"
        <5>1. out[1] = [kind |-> "apply", tx |-> TxsOf[tip][j + 1]]
          BY <1>3, <3>2, <4>2 DEF Yielding
        <5> QED
          BY <1>3, <3>2, <5>1
      <4>4. Interrupted
        BY <1>1, <4>1, <4>2, <4>3 DEF Interrupted
      <4> QED
        BY <2>2, <4>4 DEF Waits
    <3> QED
      BY <3>1, <3>2
  <2>3. CASE Putting
    BY <1>1, <2>3 DEF Putting, Stage
  <2>4. CASE Relinking
    BY <1>1, <2>4 DEF Relinking, Stage
  <2>5. CASE RollingBack
    <3>1. ASSUME NEW b \in Block, NEW j \in 0..Len(TxsOf[b]),
                 Parent(b) = BestPoint, Undoing(b, j), applied = Upto(b, j)
          PROVE  applied = TxsUpTo(BestPoint)
      <4>1. Len(out) = j /\ j \in Nat
        BY <3>1, BlockAssumption DEF Undoing
      <4>2. CASE j = 0
        <5>1. IsAfterStart(b)
          BY <1>2, <3>1, BestFacts DEF IsAfterStart
        <5> QED
          BY <3>1, <4>2, <5>1, CutEnds
      <4>3. CASE j # 0
        <5>1. out # <<>> /\ 1 \in 1..j
          BY <4>1, <4>3
        <5>2. Stage = "unapply"
          BY <1>3, <3>1, <5>1 DEF Undoing
        <5> QED
          BY <1>1, <5>2
      <4> QED
        BY <4>2, <4>3
    <3> QED
      BY <2>5, <3>1 DEF RollingBack
  <2>6. CASE Down
    BY <1>1, <2>6 DEF Down, Stage
  <2> QED
    BY <2>1, <2>2, <2>3, <2>4, <2>5, <2>6 DEF IInv
<1>5. Interrupted => Interrupted'
  BY <1>1, <1>2 DEF Interrupted
<1>6. Down'
  BY <1>1, <1>2, <1>4, <1>5 DEF Down
<1> QED
  BY <1>1, <1>2, <1>6 DEF IInv

LEMMA NextInv == ASSUME Configured, IInv, [Next]_vars PROVE IInv'
<1>1. CASE UNCHANGED vars
  <2>1. NodeOf'
    BY <1>1 DEF IInv, NodeOf, vars, nodeVars, cacheVars
  <2> QED
    BY <1>1, <2>1, StutterInv DEF vars, nodeVars, syncVars
<1>2. CASE Client
  BY <1>2, StartInv, ReplayInv, FinishCachingInv, RollForwardInv, RollBackwardInv, UndoTipInv,
     RelinkInv, RollbackEndsInv, TipReachedInv, DeliverInv DEF Client
<1> QED
  BY <1>1, <1>2, CrashInv, NodeMovesInv DEF Next

THEOREM Invariant == ASSUME Configured PROVE Spec => []IInv
<1>1. IInv /\ [Next]_vars => IInv'
  BY NextInv
<1> QED
  BY <1>1, InitInv, PTL DEF Spec

-----------------------------------------------------------------------------
(* What the invariant means.                                               *)

LEMMA OneChain == ASSUME IInv PROVE StandsOnOneChain
<1>0. CacheOf
  BY DEF IInv
<1>1. ASSUME NEW b \in Block, NEW k \in 0..Len(TxsOf[b]),
             OnPath(StartPoint, Parent(b)), applied = Upto(b, k)
      PROVE  StandsOnOneChain
  BY <1>1 DEF StandsOnOneChain
<1>2. ASSUME NEW p \in Point, OnPath(StartPoint, p), applied = TxsUpTo(p)
      PROVE  StandsOnOneChain
  <2>1. CASE p = StartPoint
    BY <1>2, <2>1, NothingAfterStart, OnPathReflexive DEF StandsOnOneChain
  <2>2. CASE p # StartPoint
    <3>1. p \in Block /\ IsAfterStart(p)
      BY <1>2, <2>2, AtOrAfterStart DEF IsAfterStart
    <3>2. Len(TxsOf[p]) \in 0..Len(TxsOf[p]) /\ applied = Upto(p, Len(TxsOf[p]))
      BY <1>2, <3>1, CutEnds
    <3> QED
      BY <1>1, <3>1, <3>2 DEF IsAfterStart
  <2> QED
    BY <2>1, <2>2
<1>3. CASE applied = TxsUpTo(BestPoint)
  BY <1>0, <1>2, <1>3, BestFacts
<1>4. ASSUME tip # NoTip, \E k \in 0..Len(TxsOf[tip]) : applied = Upto(tip, k)
      PROVE  StandsOnOneChain
  BY <1>0, <1>1, <1>4, BestFacts DEF IsAfterStart
<1>5. CASE Down
  BY <1>3, <1>4, <1>5 DEF Down, Interrupted
<1>6. CASE Replaying
  BY <1>3, <1>4, <1>6 DEF Replaying, Interrupted
<1>7. CASE Waits
  BY <1>3, <1>4, <1>7 DEF Waits
<1>8. CASE Putting
  <2>1. tip \in Block /\ IsAfterStart(tip) /\ applied = TxsUpTo(Parent(tip))
    BY <1>0, <1>8, CacheAssumption DEF Putting, CacheOf, Point
  <2> QED
    BY <1>2, <2>1, ParentFacts DEF IsAfterStart
<1>9. CASE RollingBack
  BY <1>0, <1>1, <1>3, <1>9, BestFacts DEF RollingBack
<1>10. CASE Relinking
  <2>1. tip \in Block /\ IsAfterStart(tip) /\ applied = TxsUpTo(tip)
    BY <1>0, <1>10, CacheAssumption DEF Relinking, CacheOf, Point
  <2> QED
    BY <1>2, <2>1, NextAfterStart DEF IsAfterStart, Point
<1> QED
  BY <1>5, <1>6, <1>7, <1>8, <1>9, <1>10 DEF IInv

LEMMA CacheFollows == ASSUME Configured, IInv PROVE CacheFollowsChain
<1> SUFFICES ASSUME Waiting
             PROVE  /\ Cached = {b \in AfterStart(ptr) : SlotOf[b] > NoRollbackUntil}
                    /\ \A b \in Cached : prev[b] = Parent(b) \/ Parent(b) = StartPoint
  BY DEF CacheFollowsChain
<1>1. CacheOf /\ CacheWhole /\ ptr = BestPoint
  BY AtPull DEF Waiting
<1>2. ASSUME NEW b \in AfterStart(ptr) PROVE SlotOf[b] > NoRollbackUntil
  <2>1. b \in Block /\ b \in Point /\ OnPath(b, ptr) /\ ~OnPath(b, StartPoint)
    BY DEF AfterStart, Point
  <2>2. OnPath(StartPoint, b)
    BY <1>1, <2>1, BestFacts, OnPathLinear, BlockAssumption
  <2>3. IsAfterStart(b)
    BY <2>1, <2>2, AtOrAfterStart DEF IsAfterStart
  <2> QED
    BY <2>1, <2>3 DEF Configured
<1> QED
  BY <1>1, <1>2 DEF CacheWhole, CacheOf

-----------------------------------------------------------------------------
(* The index never mixes two chains, at any step: it has the transactions  *)
(* of one chain after the starting point and, of its next block, some      *)
(* first ones; and when the client waits for an answer, the cache has the  *)
(* blocks of that chain and no other, each linked to its parent            *)
(* (event_source.rs, cache.rs).                                            *)
THEOREM FollowsOneChainHolds == ASSUME Configured PROVE Spec => []FollowsOneChain
<1>1. IInv => FollowsOneChain
  BY OneChain, CacheFollows DEF FollowsOneChain
<1> QED
  BY <1>1, Invariant, PTL

(* When the client waits for an answer, the index has exactly what the     *)
(* chain up to the read pointer applied (event_source.rs, client.rs).      *)
THEOREM CaughtUpHolds == ASSUME Configured PROVE Spec => []CaughtUp
<1>1. IInv => CaughtUp
  BY AtPull DEF CaughtUp, Waiting
<1> QED
  BY <1>1, Invariant, PTL

(* The beacon the execution engine blocks on is up whenever a transaction  *)
(* is unapplied (rollback_in_progress of event_source.rs).                 *)
THEOREM BeaconCoversRollbackHolds == ASSUME Configured PROVE Spec => []BeaconCoversRollback
<1>1. IInv => BeaconCoversRollback
  <2> SUFFICES ASSUME IInv, out # <<>>, Head(out).kind = "unapply" PROVE rolling
    BY DEF BeaconCoversRollback
  <2>1. 1 \in 1..Len(out) /\ Head(out) = out[1]
    BY NextEvent DEF IInv
  <2>2. ASSUME NEW b, NEW j, Yielding(b, j) PROVE FALSE
    <3>1. out[1] = [kind |-> "apply", tx |-> TxsOf[b][j + 1]]
      BY <2>1, <2>2 DEF Yielding
    <3> QED
      BY <2>1, <3>1
  <2>3. ~Replaying /\ ~Waits
    BY <2>1, <2>2 DEF Replaying, Repeating, Waits
  <2>4. CASE RollingBack
    BY <2>4 DEF RollingBack
  <2> QED
    BY <2>3, <2>4 DEF IInv, Down, Putting, Relinking
<1> QED
  BY <1>1, Invariant, PTL

(* When state_synced goes up over a standing connection, the index has     *)
(* caught up with the node (event_source.rs, GET /health of server.rs).    *)
THEOREM SyncedMeansCaughtUpHolds == ASSUME Configured PROVE Spec => SyncedMeansCaughtUp
<1> DEFINE Kept == synced' /\ ~synced /\ link => ptr = node /\ applied = TxsUpTo(node)
<1>1. IInv /\ [Next]_vars => [Kept]_vars
  <2> SUFFICES ASSUME IInv, Next, synced', ~synced, link
               PROVE  ptr = node /\ applied = TxsUpTo(node)
    OBVIOUS
  <2>1. TipReached
    BY DEF Next, Client, Crash, NodeMoves, syncVars, Start, ReplayNext, RollForward, FinishCaching,
           RollBackward, UndoTip, Relink, RollbackEnds, Deliver
  <2> QED
    BY <2>1, AtPull DEF TipReached, AnswerNone
<1>2. SyncedMeansCaughtUp <=> [][Kept]_vars
  BY DEF SyncedMeansCaughtUp
<1> QED
  BY <1>1, <1>2, Invariant, PTL DEF Spec
=============================================================================
