----------------------------- MODULE BookState -----------------------------
(***************************************************************************)
(* The states of a liquidity book (liquidity_book/state/mod.rs) and the    *)
(* moves between them. A settled book is "idle". Matching consumes and     *)
(* pre-adds takers and makers on a preview of it, which is committed or    *)
(* rolled back. To avoid copies the code keeps the preview in one of two   *)
(* shapes: "partial", while takers were only consumed, where the takers of *)
(* the settled book are those in view and those consumed, and "preview",   *)
(* where they are kept apart. A rollback may stash takers: they stay out   *)
(* of view until the book is settled again.                                *)
(*                                                                         *)
(* A book is a record: `takers` and `makers` are what is in view,          *)
(* `consumed`, `stashed`, `intact` and `makersIntact` what the rollback    *)
(* needs. Makers are a function from their ids. The chronology of takers   *)
(* that start later is left out: no order of the DEX has time bounds.      *)
(***************************************************************************)
EXTENDS Integers

(* A BTreeSet of takers holds one of those that compare as equal, and      *)
(* keeps the one it has. Ord of an order: price, weight and id.            *)

SameEntry(t, u) == t.side = u.side /\ t.price = u.price /\ t.fee = u.fee /\ t.id = u.id

Insert(S, t) == IF \E u \in S : SameEntry(t, u) THEN S ELSE S \cup {t}

InsertAll(S, T) == S \cup {t \in T : \A u \in S : ~SameEntry(t, u)}

RemoveAll(S, T) == {u \in S : \A t \in T : ~SameEntry(t, u)}

UpdatePool(makers, id, pool) ==
    [i \in DOMAIN makers \cup {id} |-> IF i = id THEN pool ELSE makers[i]]

RemovePool(makers, id) == [i \in DOMAIN makers \ {id} |-> makers[i]]

-----------------------------------------------------------------------------

NoMakers == [i \in {} |-> 0]

Idle(takers, makers) ==
    [mode |-> "idle", takers |-> takers, makers |-> makers, intact |-> {},
     consumed |-> {}, stashed |-> {}, makersIntact |-> NoMakers]

PartialPreview(takers, makers, consumed, stashed) ==
    [mode |-> "partial", takers |-> takers, makers |-> makers, intact |-> {},
     consumed |-> consumed, stashed |-> stashed, makersIntact |-> makers]

MoveIntoPartialPreview(b) ==
    IF b.mode = "idle" THEN PartialPreview(b.takers, b.makers, {}, {}) ELSE b

\* Mutant: the takers consumed so far are not returned to the intact ones.
PreviewOfTheView(b) ==
    IF b.mode = "preview" THEN b
    ELSE [b EXCEPT !.mode = "preview", !.intact = b.takers, !.consumed = {},
                   !.makersIntact = IF b.mode = "idle" THEN b.makers ELSE @]

MoveIntoPreview(b) ==
    IF b.mode = "preview" THEN b
    ELSE [b EXCEPT !.mode = "preview", !.intact = InsertAll(b.takers, b.consumed),
                   !.consumed = {},
                   !.makersIntact = IF b.mode = "idle" THEN b.makers ELSE @]

-----------------------------------------------------------------------------
(* Matching. A taker that is picked is in view.                            *)

PickTaker(b, t) ==
    LET busy == MoveIntoPartialPreview(b)
    IN  [busy EXCEPT !.takers = RemoveAll(@, {t}),
                     !.consumed = IF busy.mode = "partial" THEN @ \cup {t} ELSE @]

PreAddTaker(b, t) == [MoveIntoPreview(b) EXCEPT !.takers = Insert(@, t)]

PickMaker(b, id) == [MoveIntoPartialPreview(b) EXCEPT !.makers = RemovePool(@, id)]

PreAddMaker(b, id, pool) == [MoveIntoPreview(b) EXCEPT !.makers = UpdatePool(@, id, pool)]

-----------------------------------------------------------------------------
(* Settling. Only a preview gives its stash back when it is committed.     *)

\* Mutant: the stash is forgotten by either.
CommitForgets(b) == IF b.mode = "idle" THEN b ELSE Idle(b.takers, b.makers)

Commit(b) ==
    IF b.mode = "idle" THEN b
    ELSE IF b.mode = "partial" THEN Idle(b.takers, b.makers)
    ELSE Idle(InsertAll(b.takers, b.stashed), b.makers)

\* The takers of the settled book, but for the stashed ones.
Initial(b) == IF b.mode = "preview" THEN b.intact ELSE InsertAll(b.takers, b.consumed)

RollbackUnstash(b) ==
    IF b.mode = "idle" THEN b
    ELSE Idle(InsertAll(Initial(b), b.stashed), b.makersIntact)

\* Mutant: what was to be stashed stays in view.
RollbackOnly(b, S) ==
    IF b.mode = "idle" THEN b
    ELSE PartialPreview(Initial(b), b.makersIntact, {}, b.stashed \cup S)

RollbackStash(b, S) ==
    IF b.mode = "idle" THEN b
    ELSE IF b.stashed \cup S = {} THEN Idle(Initial(b), b.makersIntact)
    ELSE PartialPreview(RemoveAll(Initial(b), S), b.makersIntact, {}, b.stashed \cup S)

=============================================================================
