------------------------------ MODULE ChainNode ------------------------------
(***************************************************************************)
(* The Cardano node as the chain-sync client                               *)
(* (packages/cardano-chain-sync/src/client.rs) sees it: a tree of blocks,  *)
(* the tip of the chain the node has selected, and the read pointer the    *)
(* node keeps for the client.  The node answers a request with the next    *)
(* block, with a rollback to the last point the two chains share, or with  *)
(* nothing yet; its first answer after an intersection is a rollback to    *)
(* the intersection.                                                       *)
(***************************************************************************)
EXTENDS Integers, Sequences, SequencesExt

CONSTANTS
    Block,         \* block hashes
    Tx,            \* transactions
    Origin,        \* Point::Origin
    Path,          \* the blocks from the first to a given one
    SlotOf,        \* the slot of a point (Origin has slot 0)
    TxsOf,         \* the valid transactions of a block, in order
    StartPoint,    \* starting_point of the configuration
    ForksWhileDown,  \* the node may change its chain while the client is down
    LinkBreaks     \* the connection to the node may break

Point == Block \cup {Origin}

ASSUME PathAssumption ==
    /\ Path \in [Point -> Seq(Block)]
    /\ Path[Origin] = <<>>
    /\ \A b \in Block : Path[b] # <<>> /\ Last(Path[b]) = b
    /\ \A b \in Block : \A i \in 1..Len(Path[b]) : Path[Path[b][i]] = SubSeq(Path[b], 1, i)

OnPath(p, q) == p = Origin \/ \E i \in 1..Len(Path[q]) : Path[q][i] = p
Parent(b) == IF Len(Path[b]) = 1 THEN Origin ELSE Path[b][Len(Path[b]) - 1]
Height(p) == Len(Path[p])

ASSUME BlockAssumption ==
    /\ SlotOf \in [Point -> Nat]
    /\ \A p \in Point, b \in Block : OnPath(p, b) /\ p # b => SlotOf[p] < SlotOf[b]
    /\ TxsOf \in [Block -> Seq(Tx)]
    /\ StartPoint \in Point

(* A transaction spends an output, so no chain has it twice.               *)
ASSUME OnceAssumption ==
    \A p \in Point : \A b, c \in Block :
        OnPath(b, p) /\ OnPath(c, p) =>
            \A i \in 1..Len(TxsOf[b]), j \in 1..Len(TxsOf[c]) :
                TxsOf[b][i] = TxsOf[c][j] => b = c /\ i = j

VARIABLES
    node,        \* tip of the node's chain
    ptr,         \* the client's read pointer
    announce,    \* the node has yet to answer with the intersection
    link         \* the connection stands

nodeVars == <<node, ptr, announce, link>>

(* The last point the chains of p and q share.                             *)
IsMeet(m, p, q) ==
    /\ OnPath(m, p) /\ OnPath(m, q)
    /\ \A n \in Point : OnPath(n, p) /\ OnPath(n, q) => OnPath(n, m)

NodeInit ==
    /\ node \in {p \in Point : OnPath(StartPoint, p)}
    /\ ptr = Origin
    /\ announce = FALSE
    /\ link = FALSE

(* The node adopts a longer chain that still has the starting point.       *)
Adopt(b) ==
    /\ Height(b) > Height(node)
    /\ OnPath(StartPoint, b)
    /\ node' = b
    /\ UNCHANGED <<ptr, announce, link>>

(* find_intersect: only one point is offered.                              *)
Intersect(best) ==
    /\ OnPath(best, node)
    /\ ptr' = best
    /\ announce' = TRUE
    /\ link' = TRUE
    /\ UNCHANGED node

MustRollBack == announce \/ ~OnPath(ptr, node)

AnswerRollBackward(to) ==
    /\ link /\ MustRollBack
    /\ IsMeet(to, ptr, node)
    /\ ptr' = to
    /\ announce' = FALSE
    /\ UNCHANGED <<node, link>>

AnswerRollForward(b) ==
    /\ link /\ ~MustRollBack
    /\ OnPath(b, node) /\ b # Origin
    /\ Parent(b) = ptr
    /\ ptr' = b
    /\ UNCHANGED <<node, announce, link>>

(* No block yet, or an error of the protocol: try_pull_next does not tell  *)
(* the two apart.                                                          *)
AnswerNone ==
    /\ link => ~MustRollBack /\ ptr = node
    /\ UNCHANGED nodeVars

Break ==
    /\ LinkBreaks /\ link
    /\ link' = FALSE
    /\ UNCHANGED <<node, ptr, announce>>

Disconnect ==
    /\ link' = FALSE
    /\ announce' = FALSE
    /\ UNCHANGED <<node, ptr>>

-----------------------------------------------------------------------------
(* The blocks of a chain after the starting point, and what they hold.     *)

AfterStart(p) == {b \in Block : OnPath(b, p) /\ ~OnPath(b, StartPoint)}
TxSet(b) == {TxsOf[b][i] : i \in 1..Len(TxsOf[b])}
TxsUpTo(p) == UNION {TxSet(b) : b \in AfterStart(p)}
=============================================================================
