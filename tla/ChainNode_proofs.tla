--------------------------- MODULE ChainNode_proofs ---------------------------
(***************************************************************************)
(* The tree of blocks, as the proofs about its two clients need it: the    *)
(* points on the path of a point are ordered, a path grows by its last     *)
(* block, and so do the blocks and the transactions a chain has after the  *)
(* starting point.  Nothing here depends on how a path is represented once *)
(* the lemmas of the first part are proved.                                *)
(***************************************************************************)
EXTENDS ChainNode, TLAPS

(* A path as a sequence: what PathAssumption says of it.                   *)
LEMMA PathFacts ==
  ASSUME NEW p \in Point
  PROVE  /\ Path[p] \in Seq(Block)
         /\ Len(Path[p]) \in Nat
         /\ p \in Block => Len(Path[p]) > 0 /\ Path[p][Len(Path[p])] = p
         /\ p = Origin => Len(Path[p]) = 0
         /\ \A i \in 1..Len(Path[p]) : Path[p][i] \in Block
<1>1. Path[p] \in Seq(Block) /\ Len(Path[p]) \in Nat
  BY PathAssumption
<1>2. ASSUME p \in Block PROVE Len(Path[p]) > 0 /\ Path[p][Len(Path[p])] = p
  <2>1. Path[p] # <<>> /\ Last(Path[p]) = p
    BY <1>2, PathAssumption
  <2> QED
    BY <1>1, <2>1 DEF Last
<1>3. p = Origin => Len(Path[p]) = 0
  BY PathAssumption
<1>4. \A i \in 1..Len(Path[p]) : Path[p][i] \in Block
  BY <1>1
<1> QED
  BY <1>1, <1>2, <1>3, <1>4

(* The path of a point on a path is a prefix of it.                        *)
LEMMA PathPrefix ==
  ASSUME NEW b \in Block, NEW i \in 1..Len(Path[b])
  PROVE  /\ Path[b][i] \in Block
         /\ Len(Path[Path[b][i]]) = i
         /\ \A j \in 1..i : Path[Path[b][i]][j] = Path[b][j]
<1>1. Path[b] \in Seq(Block) /\ Path[b][i] \in Block
  BY PathFacts DEF Point
<1>2. Path[Path[b][i]] = SubSeq(Path[b], 1, i)
  BY PathAssumption
<1> QED
  BY <1>1, <1>2

(* OnPath is an order, and linear below a point.                           *)
LEMMA OnPathReflexive == \A p \in Point : OnPath(p, p)
  BY PathFacts DEF OnPath, Point

LEMMA OnPathTransitive ==
  ASSUME NEW p \in Point, NEW q \in Point, NEW r \in Point, OnPath(p, q), OnPath(q, r)
  PROVE  OnPath(p, r)
<1>1. CASE p = Origin
  BY <1>1 DEF OnPath
<1>2. CASE p # Origin
  <2>1. PICK i \in 1..Len(Path[q]) : Path[q][i] = p
    BY <1>2 DEF OnPath
  <2>2. q # Origin
    BY <2>1, PathFacts
  <2>3. PICK j \in 1..Len(Path[r]) : Path[r][j] = q
    BY <2>2 DEF OnPath
  <2>4. r \in Block
    BY <2>3, PathFacts DEF Point
  <2>5. Len(Path[q]) = j /\ Path[r][i] = p
    BY <2>1, <2>3, <2>4, PathPrefix
  <2>6. i \in 1..Len(Path[r])
    BY <2>3, <2>5, PathFacts
  <2> QED
    BY <2>5, <2>6 DEF OnPath
<1> QED
  BY <1>1, <1>2

LEMMA OnPathLinear ==
  ASSUME NEW p \in Point, NEW q \in Point, NEW r \in Point, OnPath(p, r), OnPath(q, r)
  PROVE  OnPath(p, q) \/ OnPath(q, p)
<1>1. CASE p = Origin \/ q = Origin
  BY <1>1 DEF OnPath
<1>2. CASE p # Origin /\ q # Origin
  <2>1. PICK i \in 1..Len(Path[r]) : Path[r][i] = p
    BY <1>2 DEF OnPath
  <2>2. PICK j \in 1..Len(Path[r]) : Path[r][j] = q
    BY <1>2 DEF OnPath
  <2>3. r \in Block
    BY <2>1, PathFacts DEF Point
  <2>4. Len(Path[p]) = i /\ Len(Path[q]) = j
    BY <2>1, <2>2, <2>3, PathPrefix
  <2>5. CASE i <= j
    <3>1. Path[q][i] = p
      BY <2>1, <2>2, <2>3, <2>5, PathPrefix
    <3> QED
      BY <3>1, <2>4, <2>5, <2>1, <2>2 DEF OnPath
  <2>6. CASE j <= i
    <3>1. Path[p][j] = q
      BY <2>1, <2>2, <2>3, <2>6, PathPrefix
    <3> QED
      BY <3>1, <2>4, <2>6, <2>1, <2>2 DEF OnPath
  <2>7. i \in Int /\ j \in Int
    OBVIOUS
  <2> QED
    BY <2>5, <2>6, <2>7
<1> QED
  BY <1>1, <1>2

(* A point on the path of another has a lower height.                      *)
LEMMA OnPathHeight ==
  ASSUME NEW p \in Point, NEW q \in Point, OnPath(p, q)
  PROVE  /\ Height(p) \in Nat /\ Height(q) \in Nat
         /\ Height(p) <= Height(q)
         /\ Height(p) = Height(q) => p = q
<1>1. CASE p = Origin
  BY <1>1, PathFacts DEF Height, Point
<1>2. CASE p # Origin
  <2>1. PICK i \in 1..Len(Path[q]) : Path[q][i] = p
    BY <1>2 DEF OnPath
  <2>2. q \in Block
    BY <2>1, PathFacts DEF Point
  <2> QED
    BY <2>1, <2>2, PathFacts, PathPrefix DEF Height
<1> QED
  BY <1>1, <1>2

LEMMA OnPathAntisymmetric ==
  ASSUME NEW p \in Point, NEW q \in Point, OnPath(p, q), OnPath(q, p)
  PROVE  p = q
  BY OnPathHeight

(* The parent of a block is next to it.                                    *)
LEMMA ParentFacts ==
  ASSUME NEW b \in Block
  PROVE  /\ Parent(b) \in Point
         /\ OnPath(Parent(b), b)
         /\ Parent(b) # b
         /\ ~OnPath(b, Parent(b))
         /\ \A p \in Point : OnPath(p, b) <=> p = b \/ OnPath(p, Parent(b))
<1> DEFINE n == Len(Path[b])
<1>1. n \in Nat /\ n > 0 /\ Path[b][n] = b /\ b \in Point
  BY PathFacts DEF Point
<1>2. CASE n = 1
  <2>1. Parent(b) = Origin /\ Len(Path[Origin]) = 0 /\ Origin \in Point
    BY <1>2, PathFacts DEF Parent, Point
  <2>2. \A p \in Point : OnPath(p, b) <=> p = b \/ p = Origin
    BY <1>1, <1>2 DEF OnPath
  <2>3. Origin # b
    BY <1>1, <2>1
  <2> QED
    BY <2>1, <2>2, <2>3 DEF OnPath
<1>3. CASE n > 1
  <2>1. n - 1 \in 1..n /\ Parent(b) = Path[b][n - 1]
    BY <1>1, <1>3 DEF Parent
  <2>2. /\ Parent(b) \in Block
        /\ Len(Path[Parent(b)]) = n - 1
        /\ \A j \in 1..n - 1 : Path[Parent(b)][j] = Path[b][j]
    BY <2>1, PathPrefix
  <2>3. Parent(b) # b
    BY <2>2, <1>1
  <2>4. OnPath(Parent(b), b)
    BY <2>1 DEF OnPath
  <2>5. ASSUME NEW p \in Point PROVE OnPath(p, b) <=> p = b \/ OnPath(p, Parent(b))
    <3>1. ASSUME OnPath(p, b), p # b PROVE OnPath(p, Parent(b))
      BY <3>1, <1>1, <2>2 DEF OnPath
    <3>2. OnPath(p, Parent(b)) => OnPath(p, b)
      BY <1>1, <2>2 DEF OnPath
    <3> QED
      BY <3>1, <3>2, OnPathReflexive, <1>1
  <2>6. ~OnPath(b, Parent(b))
    BY <2>2, <2>3, <2>4, <1>1, OnPathAntisymmetric DEF Point
  <2> QED
    BY <2>2, <2>3, <2>4, <2>5, <2>6 DEF Point
<1>4. n \in Nat /\ n > 0
  BY <1>1
<1>5. n = 1 \/ n > 1
  <2> HIDE DEF n
  <2> QED
    BY <1>4
<1> QED
  BY <1>2, <1>3, <1>5

(* The slots of a chain increase.                                          *)
LEMMA SlotsIncrease ==
  ASSUME NEW p \in Point, NEW q \in Point, OnPath(p, q), p # q
  PROVE  SlotOf[p] \in Nat /\ SlotOf[q] \in Nat /\ SlotOf[p] < SlotOf[q]
<1>1. q # Origin
  BY PathFacts DEF OnPath
<1> QED
  BY <1>1, BlockAssumption DEF Point

-----------------------------------------------------------------------------
(* After the starting point.                                               *)

(* The starting point itself has nothing after it.                         *)
LEMMA NothingAfterStart ==
  ASSUME NEW p \in Point, OnPath(p, StartPoint)
  PROVE  AfterStart(p) = {} /\ TxsUpTo(p) = {}
<1>1. AfterStart(p) = {}
  BY OnPathTransitive, BlockAssumption DEF AfterStart, Point
<1> QED
  BY <1>1 DEF TxsUpTo

(* A block whose parent has the starting point on its path lies after it,  *)
(* and adds itself to what lies after it.                                  *)
LEMMA NextAfterStart ==
  ASSUME NEW b \in Block, OnPath(StartPoint, Parent(b))
  PROVE  /\ OnPath(StartPoint, b)
         /\ ~OnPath(b, StartPoint)
         /\ b \notin AfterStart(Parent(b))
         /\ AfterStart(b) = AfterStart(Parent(b)) \cup {b}
         /\ TxsUpTo(b) = TxsUpTo(Parent(b)) \cup TxSet(b)
<1>1. OnPath(StartPoint, b)
  BY ParentFacts, BlockAssumption
<1>2. ~OnPath(b, StartPoint)
  BY ParentFacts, OnPathTransitive, BlockAssumption DEF Point
<1>3. b \notin AfterStart(Parent(b))
  BY ParentFacts DEF AfterStart
<1>4. AfterStart(b) = AfterStart(Parent(b)) \cup {b}
  BY <1>2, ParentFacts DEF AfterStart, Point
<1> QED
  BY <1>1, <1>2, <1>3, <1>4 DEF TxsUpTo

(* The transactions of a block are new to its chain, and each is there     *)
(* once.                                                                   *)
LEMMA NewTransactions ==
  ASSUME NEW b \in Block, NEW i \in 1..Len(TxsOf[b])
  PROVE  /\ TxsOf[b][i] \notin TxsUpTo(Parent(b))
         /\ \A j \in 1..Len(TxsOf[b]) : TxsOf[b][i] = TxsOf[b][j] => i = j
<1>1. ASSUME TxsOf[b][i] \in TxsUpTo(Parent(b)) PROVE FALSE
  <2>1. PICK c \in AfterStart(Parent(b)) : TxsOf[b][i] \in TxSet(c)
    BY <1>1 DEF TxsUpTo
  <2>2. c \in Block /\ OnPath(c, Parent(b))
    BY <2>1 DEF AfterStart
  <2>3. OnPath(c, b) /\ c # b
    BY <2>2, ParentFacts DEF Point
  <2> QED
    BY <2>1, <2>2, <2>3, OnPathReflexive, OnceAssumption DEF TxSet, Point
<1>2. \A j \in 1..Len(TxsOf[b]) : TxsOf[b][i] = TxsOf[b][j] => i = j
  BY OnPathReflexive, OnceAssumption DEF Point
<1> QED
  BY <1>1, <1>2

(* A point with the starting point on its path is the starting point, or   *)
(* a block after it whose parent has it on its path as well.               *)
LEMMA AtOrAfterStart ==
  ASSUME NEW p \in Point, OnPath(StartPoint, p)
  PROVE  \/ p = StartPoint
         \/ p \in Block /\ OnPath(StartPoint, Parent(p)) /\ p \in AfterStart(p)
<1>1. ASSUME p # StartPoint PROVE p \in Block /\ OnPath(StartPoint, Parent(p))
  <2>1. p # Origin
    BY <1>1, PathFacts, BlockAssumption DEF OnPath
  <2> QED
    BY <1>1, <2>1, ParentFacts, BlockAssumption DEF Point
<1> QED
  BY <1>1, NextAfterStart

(* Below a point after the starting point there is a block next to it.     *)
LEMMA FirstBlock ==
  ASSUME NEW p \in Point, OnPath(StartPoint, p), p # StartPoint
  PROVE  \E b \in Block : Parent(b) = StartPoint /\ OnPath(b, p)
<1>1. p \in Block
  BY AtOrAfterStart
<1> DEFINE n == Len(Path[p])
           k == Len(Path[StartPoint])
<1>2. n \in Nat /\ k \in Nat /\ k < n
  BY OnPathHeight, BlockAssumption DEF Height
<1>3. k + 1 \in 1..n
  BY <1>2
<1> DEFINE b == Path[p][k + 1]
<1>4. b \in Block /\ Len(Path[b]) = k + 1 /\ \A j \in 1..k + 1 : Path[b][j] = Path[p][j]
  BY <1>1, <1>3, PathPrefix
<1>5. OnPath(b, p)
  BY <1>3 DEF OnPath
<1>6. Parent(b) = StartPoint
  <2>1. CASE StartPoint = Origin
    BY <1>4, <2>1, PathFacts, BlockAssumption DEF Parent
  <2>2. CASE StartPoint # Origin
    <3>1. PICK i \in 1..n : Path[p][i] = StartPoint
      BY <2>2 DEF OnPath
    <3>2. i = k /\ k > 0
      BY <1>1, <3>1, PathPrefix
    <3> QED
      BY <1>2, <1>4, <3>1, <3>2 DEF Parent
  <2> QED
    BY <2>1, <2>2
<1> QED
  BY <1>4, <1>5, <1>6
=============================================================================
