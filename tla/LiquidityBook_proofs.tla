------------------------ MODULE LiquidityBook_proofs ------------------------
(***************************************************************************)
(* Proofs that giving an attempt up restores the book, and that a recipe   *)
(* that succeeds changes what it names and nothing else, whatever orders   *)
(* and pools there are, whatever the prices and however long the attempt.  *)
(*                                                                         *)
(* The invariant says what each shape of the preview keeps of the settled  *)
(* book (Sound), that every taker in view is one of the settled book or    *)
(* the successor of one that was matched (ViewKnown), and that what a      *)
(* retry may stash was in the settled book (TakesOk). The second part adds *)
(* that the settled book has one taker of an id, that the takers in view   *)
(* are the settled ones that are not stashed, but where a take names them  *)
(* (Follows), and that the stash is apart from them (Apart).               *)
(***************************************************************************)
EXTENDS LiquidityBook, TLAPS

(* Sets of takers without equal entries.                                   *)

Unique(S) == \A t, u \in S : SameEntry(t, u) => t = u

IsBook(b) ==
    /\ b = [mode |-> b.mode, takers |-> b.takers, makers |-> b.makers, intact |-> b.intact,
            consumed |-> b.consumed, stashed |-> b.stashed, makersIntact |-> b.makersIntact]
    /\ b.mode \in {"idle", "partial", "preview"}

\* What the book b keeps of the settled book s.
Sound(b, s) ==
    /\ IsBook(b)
    /\ Unique(s.takers)
    /\ Unique(b.takers)
    /\ b.mode = "idle" => b = Idle(s.takers, s.makers)
    /\ b.mode = "partial" =>
         /\ b.takers \cup b.consumed \cup b.stashed = s.takers
         /\ b.makersIntact = s.makers
    /\ b.mode = "preview" =>
         /\ b.intact \cup b.stashed = s.takers
         /\ b.makersIntact = s.makers

-----------------------------------------------------------------------------

\* An entry compares as equal to itself (Ord of LimitOrder).
LEMMA EntryReflexive == ASSUME NEW t PROVE SameEntry(t, t)
  BY DEF SameEntry

\* Inserting into a set what comes from the same settled set is a union.
LEMMA InsertAllIsUnion ==
  ASSUME NEW S, NEW T, Unique(S \cup T)
  PROVE  InsertAll(S, T) = S \cup T
  <1>1. \A t \in T, u \in S : SameEntry(t, u) => t \in S
    BY DEF Unique
  <1>2. \A x : x \in InsertAll(S, T) <=> x \in S \/ (x \in T /\ \A u \in S : ~SameEntry(x, u))
    BY DEF InsertAll
  <1>3. \A x : x \in InsertAll(S, T) <=> x \in S \cup T
    BY <1>1, <1>2
  <1>4. QED
    BY <1>3

\* A set without equal entries gets none by insertion (BTreeSet::insert).
LEMMA InsertUnique ==
  ASSUME NEW S, NEW t, Unique(S)
  PROVE  Unique(Insert(S, t))
  BY DEF Unique, Insert, SameEntry

\* The same for several insertions, of takers without equal entries.
LEMMA InsertAllUnique ==
  ASSUME NEW S, NEW T, Unique(S), Unique(T)
  PROVE  Unique(InsertAll(S, T))
  BY DEF Unique, InsertAll, SameEntry

\* Removing by entry removes just the members named (BTreeSet::remove).
LEMMA RemoveAllIsDifference ==
  ASSUME NEW S, NEW T, NEW W, Unique(W), S \subseteq W, T \subseteq W
  PROVE  RemoveAll(S, T) = S \ T
  BY EntryReflexive DEF Unique, RemoveAll

\* Removing leaves no equal entries where there were none (BTreeSet::remove).
LEMMA RemoveAllUnique ==
  ASSUME NEW S, NEW T, Unique(S)
  PROVE  Unique(RemoveAll(S, T)) /\ RemoveAll(S, T) \subseteq S
  BY DEF Unique, RemoveAll

-----------------------------------------------------------------------------
(* The moves between the shapes keep what the rollback needs.              *)

\* What a rollback finds of the settled takers, but for the stashed.
LEMMA InitialIsSettled ==
  ASSUME NEW b, NEW s, Sound(b, s)
  PROVE  Initial(b) \subseteq s.takers /\ (b.mode # "idle" => Initial(b) \cup b.stashed = s.takers)
  <1>1. CASE b.mode = "idle"
    <2>1. InsertAll({}, {}) = {} /\ InsertAll(s.takers, {}) = s.takers
      BY DEF InsertAll
    <2>2. QED
      BY <1>1, <2>1 DEF Sound, Idle, Initial
  <1>2. CASE b.mode = "partial"
    <2>1. Unique(b.takers \cup b.consumed)
      BY <1>2 DEF Sound, Unique
    <2>2. InsertAll(b.takers, b.consumed) = b.takers \cup b.consumed
      BY <2>1, InsertAllIsUnion
    <2>3. QED
      BY <1>2, <2>2 DEF Sound, Initial
  <1>3. CASE b.mode = "preview"
    BY <1>3 DEF Sound, Initial
  <1>4. QED
    BY <1>1, <1>2, <1>3 DEF Sound, IsBook

\* Giving up restores the settled book (rollback with Unstash).
LEMMA RollbackRestores ==
  ASSUME NEW b, NEW s, Sound(b, s)
  PROVE  RollbackUnstash(b) = Idle(s.takers, s.makers)
  <1>1. CASE b.mode = "idle"
    BY <1>1 DEF Sound, RollbackUnstash
  <1>2. CASE b.mode # "idle"
    <2>1. Initial(b) \cup b.stashed = s.takers
      BY <1>2, InitialIsSettled
    <2>2. InsertAll(Initial(b), b.stashed) = s.takers
      BY <2>1, InsertAllIsUnion DEF Sound
    <2>3. b.makersIntact = s.makers
      BY <1>2 DEF Sound, IsBook
    <2>4. QED
      BY <1>2, <2>2, <2>3 DEF RollbackUnstash
  <1>3. QED
    BY <1>1, <1>2

\* A settled book keeps itself, and holds each entry once (IdleState).
LEMMA IdleSound ==
  ASSUME NEW takers, NEW makers, Unique(takers)
  PROVE  Sound(Idle(takers, makers), [takers |-> takers, makers |-> makers])
  BY DEF Sound, IsBook, Idle

\* A settled book is the same seen as a partial preview (PartialPreviewState).
LEMMA PartialSound ==
  ASSUME NEW b, NEW s, Sound(b, s), b.mode # "preview"
  PROVE  /\ Sound(MoveIntoPartialPreview(b), s)
         /\ MoveIntoPartialPreview(b).mode = "partial"
         /\ MoveIntoPartialPreview(b).takers = b.takers
  BY DEF Sound, IsBook, Idle, PartialPreview, MoveIntoPartialPreview

\* move_into_preview.
LEMMA PreviewSound ==
  ASSUME NEW b, NEW s, Sound(b, s)
  PROVE  /\ Sound(MoveIntoPreview(b), s)
         /\ MoveIntoPreview(b).mode = "preview"
         /\ MoveIntoPreview(b).takers = b.takers
  <1>1. CASE b.mode = "preview"
    BY <1>1 DEF MoveIntoPreview
  <1>2. CASE b.mode # "preview"
    <2> DEFINE m == IF b.mode = "idle" THEN b.makers ELSE b.makersIntact
    <2>1. MoveIntoPreview(b) =
            [mode |-> "preview", takers |-> b.takers, makers |-> b.makers, intact |-> Initial(b),
             consumed |-> {}, stashed |-> b.stashed, makersIntact |-> m]
      BY <1>2 DEF Sound, IsBook, MoveIntoPreview, Initial
    <2>2. Initial(b) \cup b.stashed = s.takers
      <3>1. CASE b.mode = "idle"
        <4>1. InsertAll(s.takers, {}) = s.takers
          BY DEF InsertAll
        <4>2. QED
          BY <3>1, <4>1 DEF Sound, Idle, Initial
      <3>2. CASE b.mode # "idle"
        BY <3>2, InitialIsSettled
      <3>3. QED
        BY <3>1, <3>2
    <2>3. m = s.makers
      BY <1>2 DEF Sound, IsBook, Idle
    <2> HIDE DEF m
    <2>4. QED
      BY <2>1, <2>2, <2>3 DEF Sound, IsBook
  <1>3. QED
    BY <1>1, <1>2

\* pick_active_taker, for a taker in view.
LEMMA PickTakerSound ==
  ASSUME NEW b, NEW s, Sound(b, s), NEW t \in b.takers
  PROVE  Sound(PickTaker(b, t), s) /\ PickTaker(b, t).takers \subseteq b.takers
  <1>1. CASE b.mode = "preview"
    <2>1. PickTaker(b, t) = [b EXCEPT !.takers = RemoveAll(b.takers, {t}), !.consumed = b.consumed]
      BY <1>1 DEF PickTaker, MoveIntoPartialPreview
    <2>2. Unique(RemoveAll(b.takers, {t})) /\ RemoveAll(b.takers, {t}) \subseteq b.takers
      BY RemoveAllUnique DEF Sound
    <2>3. QED
      BY <1>1, <2>1, <2>2 DEF Sound, IsBook
  <1>2. CASE b.mode # "preview"
    <2> DEFINE c == MoveIntoPartialPreview(b)
    <2>1. Sound(c, s) /\ c.mode = "partial" /\ c.takers = b.takers
      BY <1>2, PartialSound
    <2>2. PickTaker(b, t) = [c EXCEPT !.takers = RemoveAll(@, {t}), !.consumed = @ \cup {t}]
      BY <2>1 DEF PickTaker
    <2> HIDE DEF c
    <2>3. RemoveAll(c.takers, {t}) = c.takers \ {t}
      BY <2>1, RemoveAllIsDifference DEF Sound
    <2>4. Unique(c.takers \ {t})
      BY <2>1 DEF Sound, Unique
    <2>5. (c.takers \ {t}) \cup c.consumed \cup {t} \cup c.stashed = s.takers
      BY <2>1 DEF Sound
    <2>6. PickTaker(b, t) =
            [mode |-> "partial", takers |-> c.takers \ {t}, makers |-> c.makers,
             intact |-> c.intact, consumed |-> c.consumed \cup {t}, stashed |-> c.stashed,
             makersIntact |-> c.makersIntact]
      BY <2>1, <2>2, <2>3 DEF Sound, IsBook
    <2>7. c.makersIntact = s.makers /\ Unique(s.takers)
      BY <2>1 DEF Sound
    <2>8. QED
      BY <2>1, <2>4, <2>5, <2>6, <2>7 DEF Sound, IsBook
  <1>3. QED
    BY <1>1, <1>2

\* pre_add_taker changes the view only, not what a rollback needs.
LEMMA PreAddTakerSound ==
  ASSUME NEW b, NEW s, Sound(b, s), NEW t
  PROVE  Sound(PreAddTaker(b, t), s) /\ PreAddTaker(b, t).takers \subseteq b.takers \cup {t}
  <1> DEFINE c == MoveIntoPreview(b)
  <1>1. Sound(c, s) /\ c.mode = "preview" /\ c.takers = b.takers
    BY PreviewSound
  <1>2. PreAddTaker(b, t) = [c EXCEPT !.takers = Insert(c.takers, t)]
    BY DEF PreAddTaker
  <1> HIDE DEF c
  <1>3. Unique(Insert(c.takers, t)) /\ Insert(c.takers, t) \subseteq b.takers \cup {t}
    BY <1>1, InsertUnique DEF Sound, Insert
  <1>4. QED
    BY <1>1, <1>2, <1>3 DEF Sound, IsBook

\* Neither does picking a pool (pick_maker_by_id).
LEMMA PickMakerSound ==
  ASSUME NEW b, NEW s, Sound(b, s), NEW i
  PROVE  Sound(PickMaker(b, i), s) /\ PickMaker(b, i).takers = b.takers
  <1> DEFINE c == MoveIntoPartialPreview(b)
  <1>1. Sound(c, s) /\ c.takers = b.takers /\ c.mode # "idle"
    BY PartialSound DEF MoveIntoPartialPreview, Sound
  <1>2. PickMaker(b, i) = [c EXCEPT !.makers = RemovePool(c.makers, i)]
    BY DEF PickMaker
  <1> HIDE DEF c
  <1>3. QED
    BY <1>1, <1>2 DEF Sound, IsBook

\* Nor pre_add_maker.
LEMMA PreAddMakerSound ==
  ASSUME NEW b, NEW s, Sound(b, s), NEW i, NEW pool
  PROVE  Sound(PreAddMaker(b, i, pool), s) /\ PreAddMaker(b, i, pool).takers = b.takers
  <1> DEFINE c == MoveIntoPreview(b)
  <1>1. Sound(c, s) /\ c.takers = b.takers /\ c.mode = "preview"
    BY PreviewSound
  <1>2. PreAddMaker(b, i, pool) = [c EXCEPT !.makers = UpdatePool(c.makers, i, pool)]
    BY DEF PreAddMaker
  <1> HIDE DEF c
  <1>3. QED
    BY <1>1, <1>2 DEF Sound, IsBook

\* Rollback with Stash, for takers of the settled book.
LEMMA RollbackStashSound ==
  ASSUME NEW b, NEW s, Sound(b, s), NEW S, S \subseteq s.takers
  PROVE  Sound(RollbackStash(b, S), s) /\ RollbackStash(b, S).takers \subseteq s.takers
  <1>1. CASE b.mode = "idle"
    BY <1>1 DEF RollbackStash, Sound, Idle
  <1>2. CASE b.mode # "idle"
    <2>1. Initial(b) \cup b.stashed = s.takers /\ b.makersIntact = s.makers
      BY <1>2, InitialIsSettled DEF Sound, IsBook
    <2>2. RemoveAll(Initial(b), S) = Initial(b) \ S
      BY <2>1, RemoveAllIsDifference DEF Sound
    <2>3. Unique(Initial(b) \ S)
      BY <2>1 DEF Sound, Unique
    <2>4. CASE b.stashed \cup S = {}
      <3>1. RollbackStash(b, S) = Idle(s.takers, s.makers)
        BY <1>2, <2>1, <2>4 DEF RollbackStash
      <3>2. QED
        BY <3>1 DEF Sound, Idle, IsBook
    <2>5. CASE b.stashed \cup S # {}
      <3>1. RollbackStash(b, S) =
              PartialPreview(Initial(b) \ S, s.makers, {}, b.stashed \cup S)
        BY <1>2, <2>1, <2>2, <2>5 DEF RollbackStash
      <3>2. (Initial(b) \ S) \cup {} \cup (b.stashed \cup S) = s.takers
        BY <2>1
      <3>3. QED
        BY <2>1, <2>3, <3>1, <3>2 DEF Sound, PartialPreview, IsBook
    <2>6. QED
      BY <2>4, <2>5
  <1>3. QED
    BY <1>1, <1>2

-----------------------------------------------------------------------------
(* The inductive invariant.                                                *)

HasId(t) == "id" \in DOMAIN t

\* Takes of settled takers, under the id of what they lead to.
TakesOk(takes, s) ==
    \A i \in DOMAIN takes :
        /\ takes[i] = [target |-> takes[i].target, result |-> takes[i].result,
                       fills |-> takes[i].fills]
        /\ takes[i].target \in s.takers
        /\ HasId(takes[i].result)
        /\ takes[i].result.id = i

\* Every taker in view is a settled one, or follows from a take.
ViewKnown(b, takes, s) ==
    \A t \in b.takers : HasId(t) /\ (t \in s.takers \/ t.id \in DOMAIN takes)

\* The takes of a recipe, under the id of what they leave.
FinalTakesOk(takes) ==
    \A i \in DOMAIN takes :
        /\ takes[i] = [target |-> takes[i].target, result |-> takes[i].result,
                       fills |-> takes[i].fills, term |-> takes[i].term]
        /\ HasId(takes[i].result)
        /\ takes[i].result.id = i

IInv ==
    /\ Sound(book, settled)
    /\ \A t \in settled.takers : HasId(t)
    /\ TakesOk(batch.takes, settled)
    /\ phase = "settled" => book.mode = "idle"
    /\ phase \in {"settled", "interpreting", "pending"} => batch = NoBatch
    /\ phase \in {"matching", "settling"} => ViewKnown(book, batch.takes, settled)
    /\ phase \in {"interpreting", "pending"} =>
         /\ \A t \in book.takers : HasId(t)
         /\ FinalTakesOk(recipe.takes)
    /\ phase = "interpreting" => "takes" \in DOMAIN recipe

\* with_applied_trade keeps the identity of the order.
LEMMA TradeKeepsId ==
  ASSUME NEW t, HasId(t), NEW removed, NEW added
  PROVE  /\ HasId(WithAppliedTrade(t, removed, added))
         /\ WithAppliedTrade(t, removed, added).id = t.id
  BY DEF HasId, WithAppliedTrade

\* MatchmakingAttempt::add_take keeps the first target of a taker.
LEMMA AddTakeOk ==
  ASSUME NEW takes, NEW s, TakesOk(takes, s), NEW t, NEW next, HasId(next), next.id = t.id,
         t \in s.takers \/ t.id \in DOMAIN takes
  PROVE  /\ TakesOk(AddTake(takes, t, next), s)
         /\ DOMAIN AddTake(takes, t, next) = DOMAIN takes \cup {t.id}
  <1> DEFINE new == IF t.id \in DOMAIN takes
                     THEN [takes[t.id] EXCEPT !.result = next, !.fills = @ + 1]
                     ELSE [target |-> t, result |-> next, fills |-> 1]
  <1>1. AddTake(takes, t, next) =
          [i \in DOMAIN takes \cup {t.id} |-> IF i = t.id THEN new ELSE takes[i]]
    BY DEF AddTake, UpdatePool
  <1>2. /\ new = [target |-> new.target, result |-> new.result, fills |-> new.fills]
        /\ new.target \in s.takers
        /\ new.result = next
    <2>1. CASE t.id \in DOMAIN takes
      <3> DEFINE old == takes[t.id]
      <3>1. old = [target |-> old.target, result |-> old.result, fills |-> old.fills]
            /\ old.target \in s.takers
        BY <2>1 DEF TakesOk
      <3>2. new = [old EXCEPT !.result = next, !.fills = old.fills + 1]
        BY <2>1
      <3> HIDE DEF old, new
      <3>3. QED
        BY <3>1, <3>2
    <2>2. CASE t.id \notin DOMAIN takes
      BY <2>2
    <2>3. QED
      BY <2>1, <2>2
  <1> HIDE DEF new
  <1>3. QED
    BY <1>1, <1>2 DEF TakesOk

\* on_take adds the successor to the view, or nothing.
LEMMA OnTakeSound ==
  ASSUME NEW b, NEW s, Sound(b, s), NEW next
  PROVE  Sound(OnTake(b, next), s) /\ OnTake(b, next).takers \subseteq b.takers \cup {next}
  BY PreAddTakerSound DEF OnTake

\* The target of a match is in view (max_by_distance_to_spot).
LEMMA TargetInView ==
  ASSUME NEW b, NEW spot, NEW t \in TargetTaker(b, spot)
  PROVE  t \in b.takers
  <1>1. \A side : BestTaker(b.takers, side) \subseteq b.takers
    BY DEF BestTaker
  <1>2. \A ask, bid : MaxByDistance(ask, bid, spot) \in {ask, bid}
    BY DEF MaxByDistance, MaxByVolume
  <1>3. QED
    BY <1>1, <1>2 DEF TargetTaker

\* Changing what a take leaves, but for its id, keeps the form of the take.
LEMMA FieldKeepsId ==
  ASSUME NEW t, HasId(t), NEW v
  PROVE  /\ HasId([t EXCEPT !.output = v]) /\ [t EXCEPT !.output = v].id = t.id
         /\ HasId([t EXCEPT !.fee = v]) /\ [t EXCEPT !.fee = v].id = t.id
         /\ HasId([t EXCEPT !.budget = v]) /\ [t EXCEPT !.budget = v].id = t.id
         /\ HasId([t EXCEPT !.out = v]) /\ [t EXCEPT !.out = v].id = t.id
  BY DEF HasId

\* The takers a recipe leaves have their takes' ids (TakeInProgress::finalized).
LEMMA FinalTakeKeepsId ==
  ASSUME NEW take, NEW excess, HasId(take.result)
  PROVE  LET final == FinalTake(take, excess)
         IN  /\ final = [target |-> final.target, result |-> final.result,
                         fills |-> final.fills, term |-> final.term]
             /\ final.target = take.target
             /\ HasId(final.result) /\ final.result.id = take.result.id
  <1> DEFINE removed == take.target.input - take.result.input
             fee == (take.target.fee * removed) \div take.target.input
             budget == AtLeastZero(take.target.budget - take.target.cost)
             one == [take.result EXCEPT !.output = @ + excess]
             two == [one EXCEPT !.fee = @ - fee]
             three == [two EXCEPT !.budget = budget]
  <1>1. Charged(take, excess) = three
    BY DEF Charged
  <1>2. HasId(one) /\ one.id = take.result.id
    BY FieldKeepsId
  <1> HIDE DEF one
  <1>3. HasId(two) /\ two.id = take.result.id
    BY <1>2, FieldKeepsId
  <1> HIDE DEF two
  <1>4. HasId(three) /\ three.id = take.result.id
    BY <1>3, FieldKeepsId
  <1> HIDE DEF three
  <1>5. QED
    BY <1>1, <1>4 DEF FinalTake

\* Replacing what a take leaves by something of its id keeps the take's form.
LEMMA LeftReplaced ==
  ASSUME NEW take, NEW left, NEW i, HasId(left), left.id = i,
         take = [target |-> take.target, result |-> take.result,
                 fills |-> take.fills, term |-> take.term]
  PROVE  LET new == [take EXCEPT !.result = left]
         IN  /\ new = [target |-> new.target, result |-> new.result,
                       fills |-> new.fills, term |-> new.term]
             /\ HasId(new.result) /\ new.result.id = i
  OBVIOUS

\* Correcting a budget keeps who the take is of.
LEMMA CorrectedOk ==
  ASSUME NEW takes, FinalTakesOk(takes), NEW new, DOMAIN new = DOMAIN takes,
         \A i \in DOMAIN takes : \E delta : new[i] = WithBudgetCorrected(takes[i], delta)
  PROVE  FinalTakesOk(new)
  <1> SUFFICES ASSUME NEW i \in DOMAIN takes
               PROVE  /\ new[i] = [target |-> new[i].target, result |-> new[i].result,
                                   fills |-> new[i].fills, term |-> new[i].term]
                      /\ HasId(new[i].result)
                      /\ new[i].result.id = i
    BY DEF FinalTakesOk
  <1> DEFINE take == takes[i]
  <1>1. /\ take = [target |-> take.target, result |-> take.result,
                   fills |-> take.fills, term |-> take.term]
        /\ HasId(take.result) /\ take.result.id = i
    BY DEF FinalTakesOk
  <1>2. PICK budget : new[i] = [take EXCEPT !.result = [take.result EXCEPT !.budget = budget]]
    BY DEF WithBudgetCorrected
  <1> HIDE DEF take
  <1> DEFINE left == [take.result EXCEPT !.budget = budget]
  <1>3. new[i] = [take EXCEPT !.result = left]
    BY <1>2
  <1>4. HasId(left) /\ left.id = i
    BY <1>1, FieldKeepsId
  <1> HIDE DEF left
  <1>5. QED
    BY <1>1, <1>3, <1>4, LeftReplaced

\* balance_fee corrects budgets when it scales them, and again afterwards.
LEMMA BalanceOk ==
  ASSUME NEW takes, FinalTakesOk(takes), NEW num, NEW den, NEW ordering, NEW mismatch
  PROVE  FinalTakesOk(Correct(Scale(takes, num, den), ordering, mismatch))
  <1> DEFINE scaled == Scale(takes, num, den)
  <1>1. FinalTakesOk(scaled)
    BY CorrectedOk DEF Scale, ScaleConsumedBudget
  <1> HIDE DEF scaled
  <1>2. FinalTakesOk(Correct(scaled, ordering, mismatch))
    BY <1>1, CorrectedOk DEF Correct
  <1>3. QED
    BY <1>2 DEF scaled

\* Executing the takes keeps it too (Magnet<Take<LimitOrder>>::exec).
LEMMA ExecuteOk ==
  ASSUME NEW takes, FinalTakesOk(takes)
  PROVE  FinalTakesOk(Execute(takes))
  <1>1. ASSUME NEW take
        PROVE  \E out : ExecTake(take) = [take EXCEPT !.result = [take.result EXCEPT !.out = out]]
    BY DEF ExecTake
  <1>2. ASSUME NEW i \in DOMAIN takes
        PROVE  LET new == ExecTake(takes[i])
               IN  /\ new = [target |-> new.target, result |-> new.result,
                             fills |-> new.fills, term |-> new.term]
                   /\ HasId(new.result) /\ new.result.id = i
    <2> DEFINE take == takes[i]
    <2>1. /\ take = [target |-> take.target, result |-> take.result,
                     fills |-> take.fills, term |-> take.term]
          /\ HasId(take.result) /\ take.result.id = i
      BY DEF FinalTakesOk
    <2> HIDE DEF take
    <2>2. PICK out : ExecTake(take) = [take EXCEPT !.result = [take.result EXCEPT !.out = out]]
      BY <1>1
    <2> DEFINE left == [take.result EXCEPT !.out = out]
    <2>3. HasId(left) /\ left.id = i
      BY <2>1, FieldKeepsId
    <2> HIDE DEF left
    <2>4. ExecTake(take) = [take EXCEPT !.result = left]
      BY <2>2 DEF left
    <2>5. /\ ExecTake(take) = [target |-> ExecTake(take).target, result |-> ExecTake(take).result,
                               fills |-> ExecTake(take).fills, term |-> ExecTake(take).term]
          /\ HasId(ExecTake(take).result) /\ ExecTake(take).result.id = i
      BY <2>1, <2>3, <2>4, LeftReplaced
    <2>6. QED
      BY <2>5 DEF take
  <1>3. QED
    BY <1>2 DEF FinalTakesOk, Execute

-----------------------------------------------------------------------------

\* The invariant holds of a book that has not been matched yet.
LEMMA InitInv == Init => IInv
  <1> SUFFICES ASSUME NEW takers \in SUBSET Orders, NEW makers,
                      \A t, u \in takers : t.id = u.id => t = u,
                      book = Idle(takers, makers),
                      settled = [takers |-> takers, makers |-> makers],
                      batch = NoBatch, phase = "settled"
               PROVE  IInv
    BY DEF Init
  <1>1. Unique(takers)
    BY DEF Unique, SameEntry
  <1>2. Sound(book, settled)
    BY <1>1, IdleSound
  <1>3. \A t \in settled.takers : HasId(t)
    BY OrdersAssumption DEF HasId
  <1>4. TakesOk(batch.takes, settled)
    BY DEF NoBatch, NoMakers, TakesOk
  <1>5. QED
    BY <1>2, <1>3, <1>4 DEF IInv, Idle

\* An empty batch names no taker (MatchmakingAttempt::empty).
LEMMA NoTakesOk == ASSUME NEW s PROVE TakesOk(NoBatch.takes, s)
  BY DEF NoBatch, NoMakers, TakesOk

\* A match trades takers in view, and puts their successors there.
LEMMA MatchInv == ASSUME IInv, Match PROVE IInv'
  <1>1. PICK spot \in SpotPrices(book.makers) : \E t \in TargetTaker(book, spot) :
          \E picked \in {PickTaker(book, t)} :
            \E fills \in {Preselect(book.makers, t, optimized)} :
              \/ MatchWithTaker(picked, t, spot, fills)
              \/ CounterTaker(picked, t, fills) = {} /\ MatchWithMaker(picked, t, fills)
    BY DEF Match
  <1>2. PICK t \in TargetTaker(book, spot) :
          \E fills \in {Preselect(book.makers, t, optimized)} :
              \/ MatchWithTaker(PickTaker(book, t), t, spot, fills)
              \/ MatchWithMaker(PickTaker(book, t), t, fills)
    BY <1>1
  <1> DEFINE picked == PickTaker(book, t)
  <1>3. PICK fills : MatchWithTaker(picked, t, spot, fills) \/ MatchWithMaker(picked, t, fills)
    BY <1>2
  <1>4. t \in book.takers
    BY TargetInView
  <1>5. Sound(picked, settled) /\ picked.takers \subseteq book.takers
    BY <1>4, PickTakerSound DEF IInv
  <1> HIDE DEF picked
  <1>6. phase = "matching" /\ phase' = phase /\ settled' = settled
    BY DEF Match
  <1>7. /\ \A u \in book.takers : HasId(u) /\ (u \in settled.takers \/ u.id \in DOMAIN batch.takes)
        /\ TakesOk(batch.takes, settled)
    BY <1>6 DEF IInv, ViewKnown
  <1> SUFFICES /\ Sound(book', settled)
               /\ TakesOk(batch'.takes, settled)
               /\ ViewKnown(book', batch'.takes, settled)
    BY <1>6 DEF IInv
  <1>8. CASE MatchWithTaker(picked, t, spot, fills)
    <2>1. PICK counter \in CounterTaker(picked, t, fills) :
            \E ask \in {IF t.side = "ask" THEN t ELSE counter},
               bid \in {IF t.side = "ask" THEN counter ELSE t} :
              \E done \in {Executed(ask, bid, SettlePrice(ask, bid, spot))} :
                \E nextAsk \in {WithAppliedTrade(ask, done.base, done.quote)},
                   nextBid \in {WithAppliedTrade(bid, done.quote, done.base)} :
                  /\ batch' = [takes |-> AddTake(AddTake(batch.takes, ask, nextAsk), bid, nextBid),
                               makes |-> batch.makes,
                               ordering |-> Ordered(Ordered(batch.ordering, ask.id), bid.id)]
                  /\ book' = OnTake(OnTake(PickTaker(picked, counter), nextAsk), nextBid)
      BY <1>8 DEF MatchWithTaker
    <2>2. counter \in picked.takers
      BY DEF CounterTaker, BestTaker
    <2>3. PICK ask \in {t, counter}, bid \in {t, counter} :
            \E done :
                \E nextAsk \in {WithAppliedTrade(ask, done.base, done.quote)},
                   nextBid \in {WithAppliedTrade(bid, done.quote, done.base)} :
                  /\ batch' = [takes |-> AddTake(AddTake(batch.takes, ask, nextAsk), bid, nextBid),
                               makes |-> batch.makes,
                               ordering |-> Ordered(Ordered(batch.ordering, ask.id), bid.id)]
                  /\ book' = OnTake(OnTake(PickTaker(picked, counter), nextAsk), nextBid)
      BY <2>1
    <2>4. PICK done, nextAsk, nextBid :
            /\ nextAsk = WithAppliedTrade(ask, done.base, done.quote)
            /\ nextBid = WithAppliedTrade(bid, done.quote, done.base)
            /\ batch'.takes = AddTake(AddTake(batch.takes, ask, nextAsk), bid, nextBid)
            /\ book' = OnTake(OnTake(PickTaker(picked, counter), nextAsk), nextBid)
      BY <2>3
    <2>5. ask \in book.takers /\ bid \in book.takers
      BY <1>4, <1>5, <2>2, <2>3
    <2>6. /\ HasId(nextAsk) /\ nextAsk.id = ask.id
          /\ HasId(nextBid) /\ nextBid.id = bid.id
      BY <1>7, <2>4, <2>5, TradeKeepsId
    <2> DEFINE once == AddTake(batch.takes, ask, nextAsk)
               twice == AddTake(once, bid, nextBid)
               view == PickTaker(picked, counter)
    <2>7. TakesOk(once, settled) /\ DOMAIN once = DOMAIN batch.takes \cup {ask.id}
      <3>1. TakesOk(batch.takes, settled) /\ (ask \in settled.takers \/ ask.id \in DOMAIN batch.takes)
        BY <1>7, <2>5
      <3>2. QED
        BY <2>6, <3>1, AddTakeOk
    <2>8. TakesOk(twice, settled) /\ DOMAIN twice = DOMAIN batch.takes \cup {ask.id, bid.id}
      <3> HIDE DEF once
      <3>1. TakesOk(once, settled) /\ (bid \in settled.takers \/ bid.id \in DOMAIN once)
        BY <1>7, <2>5, <2>7
      <3>2. TakesOk(twice, settled) /\ DOMAIN twice = DOMAIN once \cup {bid.id}
        BY <2>6, <3>1, AddTakeOk
      <3> HIDE DEF twice
      <3>3. QED
        BY <2>7, <3>2
    <2>9. Sound(view, settled) /\ view.takers \subseteq book.takers
      BY <1>5, <2>2, PickTakerSound
    <2> HIDE DEF view
    <2>10. /\ Sound(book', settled)
           /\ book'.takers \subseteq book.takers \cup {nextAsk, nextBid}
      <3>1. book' = OnTake(OnTake(view, nextAsk), nextBid)
        BY <2>4 DEF view
      <3>2. /\ Sound(OnTake(view, nextAsk), settled)
            /\ OnTake(view, nextAsk).takers \subseteq view.takers \cup {nextAsk}
        BY <2>9, OnTakeSound
      <3>3. /\ Sound(book', settled)
            /\ book'.takers \subseteq OnTake(view, nextAsk).takers \cup {nextBid}
        BY <3>1, <3>2, OnTakeSound
      <3>4. QED
        BY <2>9, <3>2, <3>3
    <2>11. batch'.takes = twice
      BY <2>4
    <2> HIDE DEF twice
    <2>12. ViewKnown(book', batch'.takes, settled)
      BY <1>7, <2>6, <2>8, <2>10, <2>11 DEF ViewKnown
    <2>13. QED
      BY <2>8, <2>10, <2>11, <2>12
  <1>9. CASE MatchWithMaker(picked, t, fills)
    <2>1. PICK f, next, taken, removed, added :
            /\ taken = WithAppliedTrade(t, removed, added)
            /\ batch'.takes = AddTake(batch.takes, t, taken)
            /\ book' = PreAddMaker(OnTake(PickMaker(picked, f.id), taken), f.id, next)
      <3>1. PICK f \in fills : \E pool \in {picked.makers[f.id]} :
              \E next \in {CfmmSwap(pool, t.side, f.input)} :
                 \E taken \in {WithAppliedTrade(t, f.input,
                                   pool.res[Other(InputSide(pool, t.side))]
                                     - next.res[Other(InputSide(pool, t.side))])} :
                    /\ batch' = [takes |-> AddTake(batch.takes, t, taken),
                                 makes |-> AddMake(batch.makes, f.id, pool, next),
                                 ordering |-> Ordered(batch.ordering, t.id)]
                    /\ book' = PreAddMaker(OnTake(PickMaker(picked, f.id), taken), f.id, next)
        BY <1>9 DEF MatchWithMaker
      <3>2. QED
        BY <3>1
    <2>2. HasId(taken) /\ taken.id = t.id
      BY <1>4, <1>7, <2>1, TradeKeepsId
    <2>3. /\ TakesOk(batch'.takes, settled)
          /\ DOMAIN batch'.takes = DOMAIN batch.takes \cup {t.id}
      <3>1. TakesOk(batch.takes, settled) /\ (t \in settled.takers \/ t.id \in DOMAIN batch.takes)
        BY <1>4, <1>7
      <3> DEFINE next2 == AddTake(batch.takes, t, taken)
      <3>2. TakesOk(next2, settled) /\ DOMAIN next2 = DOMAIN batch.takes \cup {t.id}
        BY <2>2, <3>1, AddTakeOk
      <3>3. batch'.takes = next2
        BY <2>1
      <3> HIDE DEF next2
      <3>4. QED
        BY <3>2, <3>3
    <2>4. Sound(PickMaker(picked, f.id), settled) /\ PickMaker(picked, f.id).takers = picked.takers
      BY <1>5, PickMakerSound
    <2> DEFINE view == OnTake(PickMaker(picked, f.id), taken)
    <2>5. Sound(view, settled) /\ view.takers \subseteq picked.takers \cup {taken}
      BY <2>4, OnTakeSound
    <2> HIDE DEF view
    <2>6. Sound(book', settled) /\ book'.takers = view.takers
      BY <2>1, <2>5, PreAddMakerSound DEF view
    <2>7. ViewKnown(book', batch'.takes, settled)
      BY <1>4, <1>5, <1>7, <2>2, <2>3, <2>5, <2>6 DEF ViewKnown
    <2>8. QED
      BY <2>3, <2>6, <2>7
  <1>10. QED
    BY <1>3, <1>8, <1>9

\* A target nothing overlaps is pre-added as it was picked.
LEMMA FailToMatchInv == ASSUME IInv, FailToMatch PROVE IInv'
  <1>1. PICK spot : \E t \in TargetTaker(book, spot) : book' = PreAddTaker(PickTaker(book, t), t)
    BY DEF FailToMatch
  <1>. PICK t \in TargetTaker(book, spot) : book' = PreAddTaker(PickTaker(book, t), t)
    BY <1>1
  <1>2. /\ phase = "matching" /\ phase' = "settling"
        /\ settled' = settled /\ batch' = batch
    BY DEF FailToMatch
  <1>3. t \in book.takers
    BY TargetInView
  <1> DEFINE picked == PickTaker(book, t)
  <1>4. Sound(picked, settled) /\ picked.takers \subseteq book.takers
    BY <1>3, PickTakerSound DEF IInv
  <1> HIDE DEF picked
  <1>5. Sound(book', settled) /\ book'.takers \subseteq picked.takers \cup {t}
    BY <1>4, PreAddTakerSound DEF picked
  <1>6. ViewKnown(book', batch.takes, settled)
    BY <1>2, <1>3, <1>4, <1>5 DEF IInv, ViewKnown
  <1>7. QED
    BY <1>2, <1>5, <1>6 DEF IInv

\* What a retry stashes are targets of takes, so settled takers.
LEMMA UnsatisfiedAreSettled ==
  ASSUME TakesOk(batch.takes, settled), NEW r \in Finalized
  PROVE  /\ Unsatisfied(r.takes) \subseteq settled.takers
         /\ FinalTakesOk(r.takes)
  <1>1. PICK forBid, forAsk, base, quote : r.takes = FinalTakes(batch.takes, forBid, forAsk, base, quote)
    <2>1. PICK makes : r \in FinalRecipes(batch.takes, makes)
      BY DEF Finalized
    <2>2. QED
      BY <2>1 DEF FinalRecipes
  <1>2. DOMAIN r.takes = DOMAIN batch.takes
    BY <1>1 DEF FinalTakes
  <1>3. \A i \in DOMAIN r.takes : \E e : r.takes[i] = FinalTake(batch.takes[i], e)
    BY <1>1, <1>2 DEF FinalTakes
  <1>4. ASSUME NEW i \in DOMAIN r.takes
        PROVE  /\ r.takes[i].target \in settled.takers
               /\ r.takes[i] = [target |-> r.takes[i].target, result |-> r.takes[i].result,
                                fills |-> r.takes[i].fills, term |-> r.takes[i].term]
               /\ HasId(r.takes[i].result) /\ r.takes[i].result.id = i
    <2>1. PICK e : r.takes[i] = FinalTake(batch.takes[i], e)
      BY <1>3
    <2> DEFINE take == batch.takes[i]
    <2>2. take.target \in settled.takers /\ HasId(take.result) /\ take.result.id = i
      BY <1>2 DEF TakesOk
    <2>3. r.takes[i] = FinalTake(take, e)
      BY <2>1
    <2> HIDE DEF take
    <2> DEFINE final == FinalTake(take, e)
    <2>4. /\ final = [target |-> final.target, result |-> final.result,
                      fills |-> final.fills, term |-> final.term]
          /\ final.target = take.target
          /\ HasId(final.result) /\ final.result.id = take.result.id
      BY <2>2, FinalTakeKeepsId
    <2> HIDE DEF final
    <2>5. r.takes[i] = final
      BY <2>3 DEF final
    <2>6. QED
      BY <2>2, <2>4, <2>5
  <1>5. QED
    BY <1>4 DEF Unsatisfied, FinalTakesOk

\* A retry rolls back and stashes settled takers only (rollback with Stash).
LEMMA RetryInv ==
  ASSUME IInv, NEW S, S \subseteq settled.takers, book' = RollbackStash(book, S),
         batch' = NoBatch, phase' = "matching", settled' = settled
  PROVE  IInv'
  <1>1. Sound(book', settled) /\ book'.takers \subseteq settled.takers
    BY RollbackStashSound DEF IInv
  <1>2. ViewKnown(book', batch'.takes, settled)
    BY <1>1 DEF IInv, ViewKnown
  <1>3. QED
    BY <1>1, <1>2, NoTakesOk DEF IInv

\* Giving an attempt up settles the book as it was (rollback with Unstash).
LEMMA GiveUpInv ==
  ASSUME IInv, book' = RollbackUnstash(book), batch' = NoBatch,
         phase' = "settled", settled' = settled
  PROVE  IInv'
  <1>1. book' = Idle(settled.takers, settled.makers)
    BY RollbackRestores DEF IInv
  <1>2. Sound(book', settled)
    BY <1>1 DEF IInv, Sound, IsBook, Idle
  <1>3. QED
    BY <1>1, <1>2, NoTakesOk DEF IInv, Idle

\* A book that is settled anew keeps itself.
LEMMA ResettledInv ==
  ASSUME IInv, NEW takers, NEW makers, Unique(takers), \A t \in takers : HasId(t),
         book' = Idle(takers, makers), settled' = [takers |-> takers, makers |-> makers],
         batch' = NoBatch, phase' = "settled"
  PROVE  IInv'
  <1>1. Sound(book', settled')
    BY IdleSound
  <1>2. QED
    BY <1>1, NoTakesOk DEF IInv, Idle

\* Interpreting a recipe changes its budgets and outputs, not whose they are.
LEMMA InterpretingInv == ASSUME IInv, Interpreting PROVE IInv'
  <1>1. /\ phase = "interpreting" /\ phase' \in {"interpreting", "pending"}
        /\ UNCHANGED <<book, settled, batch>>
    BY DEF Interpreting, LeaveResidue, CorrectBudgets, Interpreted
  <1>2. FinalTakesOk(recipe.takes)
    BY <1>1 DEF IInv
  <1>3. FinalTakesOk(recipe'.takes)
    <2>1. CASE LeaveResidue
      <3>1. PICK m : recipe' = [recipe EXCEPT !.residual = FALSE, !.residue = @ + m]
        BY <2>1 DEF LeaveResidue
      <3>2. recipe'.takes = recipe.takes
        BY <3>1
      <3>3. QED
        BY <1>2, <3>2
    <2>2. CASE CorrectBudgets
      <3>1. PICK num, den, mismatch :
              recipe' = [recipe EXCEPT !.takes = Correct(Scale(recipe.takes, num, den),
                                                         recipe.ordering, mismatch),
                                       !.residual = FALSE, !.residue = 0]
        <4>1. PICK needed, reserved : \E scaled \in {Scale(recipe.takes, needed, reserved)} :
                \E corrected \in {Correct(scaled, recipe.ordering,
                                     FeeMismatch(needed) + TotalReserved(scaled) - reserved)} :
                  recipe' = [recipe EXCEPT !.takes = corrected, !.residual = FALSE,
                                           !.residue = 0]
          BY <2>2 DEF CorrectBudgets
        <4> DEFINE mismatch == FeeMismatch(needed)
                                 + TotalReserved(Scale(recipe.takes, needed, reserved)) - reserved
        <4>2. recipe' = [recipe EXCEPT !.takes = Correct(Scale(recipe.takes, needed, reserved),
                                                         recipe.ordering, mismatch),
                                       !.residual = FALSE, !.residue = 0]
          BY <4>1
        <4> HIDE DEF mismatch
        <4>3. QED
          BY <4>2
      <3>2. FinalTakesOk(Correct(Scale(recipe.takes, num, den), recipe.ordering, mismatch))
        BY <1>2, BalanceOk
      <3>3. "takes" \in DOMAIN recipe
        BY <1>1 DEF IInv
      <3>4. recipe'.takes = Correct(Scale(recipe.takes, num, den), recipe.ordering, mismatch)
        BY <3>1, <3>3
      <3>5. QED
        BY <3>2, <3>4
    <2>3. CASE Interpreted
      <3>1. recipe'.takes = Execute(recipe.takes)
        BY <2>3 DEF Interpreted
      <3>2. QED
        BY <1>2, <3>1, ExecuteOk
    <2>4. QED
      BY <2>1, <2>2, <2>3 DEF Interpreting
  <1>4. phase' = "interpreting" => "takes" \in DOMAIN recipe'
    <2>1. ASSUME phase' = "interpreting" PROVE DOMAIN recipe' = DOMAIN recipe
      BY <2>1 DEF Interpreting, LeaveResidue, CorrectBudgets, Interpreted
    <2>2. QED
      BY <1>1, <2>1 DEF IInv
  <1>5. QED
    BY <1>1, <1>3, <1>4 DEF IInv

\* A committed recipe settles a new book (commit, then sync_book).
LEMMA SucceededInv == ASSUME IInv, RecipeSucceeded PROVE IInv'
  <1> DEFINE b == Commit(book)
             takers == InsertAll(RemoveAll(b.takers, Targets(recipe.takes)),
                                 Remaining(recipe.takes))
             makers == WithUpdatedPools(b.makers, recipe.makes)
  <1>1. /\ phase = "pending" /\ phase' = "settled" /\ batch' = batch
        /\ book' = Idle(takers, makers)
        /\ settled' = [takers |-> takers, makers |-> makers]
    BY DEF RecipeSucceeded, Idle
  <1>2. /\ \A t \in book.takers : HasId(t)
        /\ FinalTakesOk(recipe.takes)
    BY <1>1 DEF IInv
  <1>3. book.stashed \subseteq settled.takers
    BY DEF IInv, Sound, IsBook, Idle
  <1>4. Unique(b.takers) /\ \A t \in b.takers : HasId(t)
    <2>1. b.takers = book.takers \/ b.takers = InsertAll(book.takers, book.stashed)
      BY DEF Commit, Idle
    <2>2. Unique(book.takers) /\ Unique(book.stashed)
      BY <1>3 DEF IInv, Sound, Unique
    <2>3. Unique(InsertAll(book.takers, book.stashed))
      BY <2>2, InsertAllUnique
    <2>4. \A t \in InsertAll(book.takers, book.stashed) : HasId(t)
      BY <1>2, <1>3 DEF IInv, InsertAll
    <2>5. QED
      BY <1>2, <2>1, <2>2, <2>3, <2>4
  <1> HIDE DEF b
  <1>5. Unique(Remaining(recipe.takes)) /\ \A t \in Remaining(recipe.takes) : HasId(t)
    <2>1. \A i \in DOMAIN recipe.takes :
             HasId(recipe.takes[i].result) /\ recipe.takes[i].result.id = i
      BY <1>2 DEF FinalTakesOk
    <2>2. QED
      BY <2>1 DEF Remaining, Unique, SameEntry
  <1> DEFINE rest == RemoveAll(b.takers, Targets(recipe.takes))
  <1>6. Unique(rest) /\ rest \subseteq b.takers
    BY <1>4, RemoveAllUnique
  <1> HIDE DEF rest
  <1>7. Unique(InsertAll(rest, Remaining(recipe.takes)))
    BY <1>5, <1>6, InsertAllUnique
  <1>8. Unique(takers)
    BY <1>7 DEF rest
  <1>9. \A t \in takers : HasId(t)
    BY <1>4, <1>5, <1>6 DEF InsertAll, rest
  <1> HIDE DEF takers, makers
  <1>10. batch' = NoBatch
    BY <1>1 DEF IInv
  <1>11. QED
    BY <1>1, <1>8, <1>9, <1>10, ResettledInv

\* An outside event changes a settled book only (requiring_settled_state).
LEMMA EventInv ==
  ASSUME IInv, NEW takers, NEW makers, Event(takers, makers),
         Unique(takers), \A t \in takers : HasId(t)
  PROVE  IInv'
  <1>1. book = Idle(settled.takers, settled.makers) /\ batch' = NoBatch /\ phase' = "settled"
    BY DEF IInv, Event, Sound
  <1>2. /\ book' = Idle(takers, makers)
        /\ settled' = [takers |-> takers, makers |-> makers]
    BY <1>1 DEF Event, Idle
  <1>3. QED
    BY <1>1, <1>2, ResettledInv

\* The four kinds of outside events keep each entry once.
LEMMA ExternalInv == ASSUME IInv, External PROVE IInv'
  <1>1. phase = "settled" /\ Unique(book.takers) /\ \A t \in book.takers : HasId(t)
    <2>1. phase = "settled"
      BY DEF External, AddTaker, RemoveTaker, UpdateMaker, RemoveMaker, Event
    <2>2. book = Idle(settled.takers, settled.makers)
      BY <2>1 DEF IInv, Sound
    <2>3. book.takers = settled.takers
      BY <2>2 DEF Idle
    <2>4. QED
      BY <2>1, <2>3 DEF IInv, Sound
  <1>2. CASE AddTaker
    <2>1. PICK o \in Orders : Event(Insert(book.takers, o), book.makers)
      BY <1>2 DEF AddTaker
    <2>2. HasId(o)
      BY OrdersAssumption DEF HasId
    <2>3. Unique(Insert(book.takers, o)) /\ \A t \in Insert(book.takers, o) : HasId(t)
      BY <1>1, <2>2, InsertUnique DEF Insert
    <2>4. QED
      BY <2>1, <2>3, EventInv
  <1>3. CASE RemoveTaker
    <2>1. PICK t \in book.takers : Event(RemoveAll(book.takers, {t}), book.makers)
      BY <1>3 DEF RemoveTaker
    <2>2. /\ Unique(RemoveAll(book.takers, {t}))
          /\ RemoveAll(book.takers, {t}) \subseteq book.takers
      BY <1>1, RemoveAllUnique
    <2>3. QED
      BY <1>1, <2>1, <2>2, EventInv
  <1>4. CASE UpdateMaker
    <2>1. PICK makers : Event(book.takers, makers)
      BY <1>4 DEF UpdateMaker
    <2>2. QED
      BY <1>1, <2>1, EventInv
  <1>5. CASE RemoveMaker
    <2>1. PICK makers : Event(book.takers, makers)
      BY <1>5 DEF RemoveMaker
    <2>2. QED
      BY <1>1, <2>1, EventInv
  <1>6. QED
    BY <1>2, <1>3, <1>4, <1>5 DEF External

\* Every step of the book keeps the invariant.
LEMMA NextInv == ASSUME IInv, [Next]_vars PROVE IInv'
  <1>1. CASE Attempt
    <2>1. /\ batch' = NoBatch /\ phase' = "matching" /\ UNCHANGED <<book, settled>>
          /\ book = Idle(settled.takers, settled.makers)
      BY <1>1 DEF Attempt, IInv, Sound
    <2>2. ViewKnown(book', batch'.takes, settled')
      BY <2>1 DEF IInv, ViewKnown, Idle
    <2>3. QED
      BY <2>1, <2>2, NoTakesOk DEF IInv
  <1>2. CASE Match
    BY <1>2, MatchInv
  <1>3. CASE FailToMatch
    BY <1>3, FailToMatchInv
  <1>4. CASE StopMatching
    BY <1>4 DEF StopMatching, IInv
  <1>5. CASE NoMatchFound
    BY <1>5, GiveUpInv DEF NoMatchFound
  <1>6. CASE RetryWithoutUnsatisfied
    <2>1. PICK r \in Finalized : book' = RollbackStash(book, Unsatisfied(r.takes))
      BY <1>6 DEF RetryWithoutUnsatisfied
    <2>2. Unsatisfied(r.takes) \subseteq settled.takers
      BY UnsatisfiedAreSettled DEF IInv
    <2>3. QED
      BY <1>6, <2>1, <2>2, RetryInv DEF RetryWithoutUnsatisfied
  <1>7. CASE Downgrade
    <2>1. /\ book' = RollbackStash(book, {})
          /\ batch' = NoBatch /\ phase' = "matching" /\ settled' = settled
      BY <1>7 DEF Downgrade
    <2>2. QED
      BY <2>1, RetryInv
  <1>8. CASE Propose
    <2>1. PICK r \in Finalized :
            recipe' = [takes |-> r.takes, makes |-> r.makes, ordering |-> r.ordering,
                       residual |-> TakeResidualFee, residue |-> 0]
      BY <1>8 DEF Propose
    <2>2. /\ phase = "settling" /\ phase' = "interpreting"
          /\ batch' = NoBatch /\ UNCHANGED <<book, settled>>
      BY <1>8 DEF Propose
    <2>3. FinalTakesOk(recipe'.takes) /\ "takes" \in DOMAIN recipe'
      BY <2>1, UnsatisfiedAreSettled DEF IInv
    <2>4. \A t \in book.takers : HasId(t)
      BY <2>2 DEF IInv, ViewKnown
    <2>5. QED
      BY <2>2, <2>3, <2>4, NoTakesOk DEF IInv
  <1>9. CASE Interpreting
    BY <1>9, InterpretingInv
  <1>10. CASE RecipeSucceeded
    BY <1>10, SucceededInv
  <1>11. CASE RecipeFailed
    <2>1. batch' = NoBatch
      BY <1>11 DEF RecipeFailed, IInv
    <2>2. QED
      BY <1>11, <2>1, GiveUpInv DEF RecipeFailed
  <1>12. CASE External
    BY <1>12, ExternalInv
  <1>13. CASE UNCHANGED vars
    BY <1>13 DEF vars, IInv
  <1>14. QED
    BY <1>1, <1>2, <1>3, <1>4, <1>5, <1>6, <1>7, <1>8, <1>9, <1>10, <1>11, <1>12, <1>13
       DEF Next, Matching, Settling, Feedback

\* Giving an attempt up always restores the settled book: what was picked,
\* pre-added and stashed is undone (state/mod.rs, rollback).
THEOREM RollbackIsSound == Spec => []Restorable
  <1>1. Init => IInv
    BY InitInv
  <1>2. IInv /\ [Next]_vars => IInv'
    BY NextInv
  <1>3. IInv => Restorable
    BY RollbackRestores DEF IInv, Restorable
  <1>4. QED
    BY <1>1, <1>2, <1>3, PTL DEF Spec

-----------------------------------------------------------------------------
(* The book follows the recipe.                                            *)

IdsUnique(S) == \A t, u \in S : t.id = u.id => t = u

\* What the preview may still hand out of the settled book s.
InPlay(b, s) == s.takers \ b.stashed

\* What is stashed is neither in view nor consumed nor intact.
Apart(b) ==
    (IF b.mode = "preview" THEN b.intact ELSE b.takers \cup b.consumed) \cap b.stashed = {}

\* A taker is one in play, or stands for one that a take has consumed.
Known(t, takes, D) ==
    IF t.id \in DOMAIN takes THEN SameEntry(takes[t.id].target, t) ELSE t \in D

\* The takers in view follow from those in play, D, by the takes.
TakersFollow(view, takes, D) ==
    /\ \A i \in DOMAIN takes : takes[i].target \in D /\ takes[i].target.id = i
    /\ \A t \in D : t.id \in DOMAIN takes \/ t \in view
    /\ \A t \in view : Known(t, takes, D)

\* The pools in view are those of the settled book, but for the makes.
MakersFollow(makers, makes, before) ==
    /\ DOMAIN makers = DOMAIN before
    /\ DOMAIN makes \subseteq DOMAIN before
    /\ \A i \in DOMAIN before \ DOMAIN makes : makers[i] = before[i]

Follows(b, s, takes, makes) ==
    /\ TakersFollow(b.takers, takes, InPlay(b, s))
    /\ MakersFollow(b.makers, makes, s.makers)

FInv ==
    /\ IInv
    /\ IdsUnique(settled.takers)
    /\ Apart(book)
    /\ phase \in {"matching", "settling"} =>
         Follows(book, settled, batch.takes, batch.makes)
    /\ phase \in {"interpreting", "pending"} =>
         Follows(book, settled, recipe.takes, recipe.makes)

-----------------------------------------------------------------------------
(* What the moves between the shapes leave as it is.                       *)

\* move_into_preview shows the takers and makers it found.
LEMMA PreviewKeeps ==
  ASSUME NEW b, NEW s, Sound(b, s), Apart(b)
  PROVE  LET c == MoveIntoPreview(b)
         IN  c.stashed = b.stashed /\ c.makers = b.makers /\ Apart(c)
  <1>1. CASE b.mode = "preview"
    BY <1>1 DEF MoveIntoPreview
  <1>2. CASE b.mode # "preview"
    <2> DEFINE m == IF b.mode = "idle" THEN b.makers ELSE b.makersIntact
               intact == InsertAll(b.takers, b.consumed)
    <2>1. MoveIntoPreview(b) =
            [mode |-> "preview", takers |-> b.takers, makers |-> b.makers, intact |-> intact,
             consumed |-> {}, stashed |-> b.stashed, makersIntact |-> m]
      BY <1>2 DEF Sound, IsBook, MoveIntoPreview
    <2>2. intact \subseteq b.takers \cup b.consumed
      BY DEF InsertAll
    <2> HIDE DEF m, intact
    <2>3. QED
      BY <1>2, <2>1, <2>2 DEF Apart
  <1>3. QED
    BY <1>1, <1>2

\* So does a partial preview.
LEMMA PartialKeeps ==
  ASSUME NEW b, NEW s, Sound(b, s), Apart(b)
  PROVE  LET c == MoveIntoPartialPreview(b)
         IN  /\ Sound(c, s) /\ Apart(c) /\ c.mode # "idle"
             /\ c.takers = b.takers /\ c.stashed = b.stashed /\ c.makers = b.makers
  <1>1. CASE b.mode = "idle"
    BY <1>1, PartialSound DEF Sound, Idle, MoveIntoPartialPreview, PartialPreview, Apart
  <1>2. CASE b.mode # "idle"
    BY <1>2 DEF MoveIntoPartialPreview
  <1>3. QED
    BY <1>1, <1>2

\* pick_active_taker takes one taker out of view and nothing else.
LEMMA PickTakerKeeps ==
  ASSUME NEW b, NEW s, Sound(b, s), Apart(b), NEW t \in b.takers
  PROVE  LET c == PickTaker(b, t)
         IN  /\ Sound(c, s) /\ Apart(c)
             /\ c.takers = RemoveAll(b.takers, {t})
             /\ c.stashed = b.stashed /\ c.makers = b.makers
  <1> DEFINE c == MoveIntoPartialPreview(b)
             rest == RemoveAll(c.takers, {t})
             consumed == IF c.mode = "partial" THEN c.consumed \cup {t} ELSE c.consumed
  <1>1. /\ Sound(c, s) /\ Apart(c) /\ c.mode # "idle"
        /\ c.takers = b.takers /\ c.stashed = b.stashed /\ c.makers = b.makers
    BY PartialKeeps
  <1>2. PickTaker(b, t) = [c EXCEPT !.takers = rest, !.consumed = consumed]
    BY DEF PickTaker
  <1>3. rest \subseteq c.takers
    BY DEF RemoveAll
  <1>4. rest = RemoveAll(b.takers, {t})
    BY <1>1
  <1> HIDE DEF c, rest
  <1>5. PickTaker(b, t) =
          [mode |-> c.mode, takers |-> rest, makers |-> c.makers, intact |-> c.intact,
           consumed |-> consumed, stashed |-> c.stashed, makersIntact |-> c.makersIntact]
    BY <1>1, <1>2 DEF Sound, IsBook
  <1>6. Apart(PickTaker(b, t))
    BY <1>1, <1>3, <1>5 DEF Apart, Sound, IsBook
  <1>7. Sound(PickTaker(b, t), s)
    BY PickTakerSound
  <1>8. QED
    BY <1>1, <1>4, <1>5, <1>6, <1>7

\* pre_add_taker inserts one taker into the view.
LEMMA PreAddTakerKeeps ==
  ASSUME NEW b, NEW s, Sound(b, s), Apart(b), NEW t
  PROVE  LET c == PreAddTaker(b, t)
         IN  /\ Sound(c, s) /\ Apart(c)
             /\ c.takers = Insert(b.takers, t)
             /\ c.stashed = b.stashed /\ c.makers = b.makers
  <1> DEFINE c == MoveIntoPreview(b)
  <1>1. /\ Sound(c, s) /\ Apart(c) /\ c.mode = "preview"
        /\ c.takers = b.takers /\ c.stashed = b.stashed /\ c.makers = b.makers
    BY PreviewSound, PreviewKeeps
  <1>2. PreAddTaker(b, t) = [c EXCEPT !.takers = Insert(c.takers, t)]
    BY DEF PreAddTaker
  <1> HIDE DEF c
  <1>3. PreAddTaker(b, t) =
          [mode |-> c.mode, takers |-> Insert(c.takers, t), makers |-> c.makers,
           intact |-> c.intact, consumed |-> c.consumed, stashed |-> c.stashed,
           makersIntact |-> c.makersIntact]
    BY <1>1, <1>2 DEF Sound, IsBook
  <1>4. Sound(PreAddTaker(b, t), s)
    BY PreAddTakerSound
  <1>5. QED
    BY <1>1, <1>3, <1>4 DEF Apart

\* on_take inserts the successor, or nothing.
LEMMA OnTakeKeeps ==
  ASSUME NEW b, NEW s, Sound(b, s), Apart(b), NEW next
  PROVE  LET c == OnTake(b, next)
         IN  /\ Sound(c, s) /\ Apart(c)
             /\ b.takers \subseteq c.takers /\ c.takers \subseteq b.takers \cup {next}
             /\ c.stashed = b.stashed /\ c.makers = b.makers
  <1>1. CASE next.input = 0
    BY <1>1 DEF OnTake
  <1>2. CASE next.input # 0
    <2>1. b.takers \subseteq Insert(b.takers, next) /\ Insert(b.takers, next) \subseteq b.takers \cup {next}
      BY DEF Insert
    <2>2. OnTake(b, next) = PreAddTaker(b, next)
      BY <1>2 DEF OnTake
    <2>3. QED
      BY <2>1, <2>2, PreAddTakerKeeps
  <1>3. QED
    BY <1>1, <1>2

\* A pool that is picked and comes back traded is the one that changes.
LEMMA PickMakerKeeps ==
  ASSUME NEW b, NEW s, Sound(b, s), Apart(b), NEW i
  PROVE  LET c == PickMaker(b, i)
         IN  /\ Sound(c, s) /\ Apart(c)
             /\ c.takers = b.takers /\ c.stashed = b.stashed
             /\ c.makers = RemovePool(b.makers, i)
  <1> DEFINE c == MoveIntoPartialPreview(b)
  <1>1. /\ Sound(c, s) /\ Apart(c)
        /\ c.takers = b.takers /\ c.stashed = b.stashed /\ c.makers = b.makers
    BY PartialKeeps
  <1>2. PickMaker(b, i) = [c EXCEPT !.makers = RemovePool(c.makers, i)]
    BY DEF PickMaker
  <1> HIDE DEF c
  <1>3. PickMaker(b, i) =
          [mode |-> c.mode, takers |-> c.takers, makers |-> RemovePool(c.makers, i),
           intact |-> c.intact, consumed |-> c.consumed, stashed |-> c.stashed,
           makersIntact |-> c.makersIntact]
    BY <1>1, <1>2 DEF Sound, IsBook
  <1>4. Sound(PickMaker(b, i), s)
    BY PickMakerSound
  <1>5. QED
    BY <1>1, <1>3, <1>4 DEF Apart

\* pre_add_maker.
LEMMA PreAddMakerKeeps ==
  ASSUME NEW b, NEW s, Sound(b, s), Apart(b), NEW i, NEW pool
  PROVE  LET c == PreAddMaker(b, i, pool)
         IN  /\ Sound(c, s) /\ Apart(c)
             /\ c.takers = b.takers /\ c.stashed = b.stashed
             /\ c.makers = UpdatePool(b.makers, i, pool)
  <1> DEFINE c == MoveIntoPreview(b)
  <1>1. /\ Sound(c, s) /\ Apart(c) /\ c.mode = "preview"
        /\ c.takers = b.takers /\ c.stashed = b.stashed /\ c.makers = b.makers
    BY PreviewSound, PreviewKeeps
  <1>2. PreAddMaker(b, i, pool) = [c EXCEPT !.makers = UpdatePool(c.makers, i, pool)]
    BY DEF PreAddMaker
  <1> HIDE DEF c
  <1>3. PreAddMaker(b, i, pool) =
          [mode |-> c.mode, takers |-> c.takers, makers |-> UpdatePool(c.makers, i, pool),
           intact |-> c.intact, consumed |-> c.consumed, stashed |-> c.stashed,
           makersIntact |-> c.makersIntact]
    BY <1>1, <1>2 DEF Sound, IsBook
  <1>4. Sound(PreAddMaker(b, i, pool), s)
    BY PreAddMakerSound
  <1>5. QED
    BY <1>1, <1>3, <1>4 DEF Apart

\* An attempt that starts over follows from what is not stashed, with no
\* takes and no makes (rollback with Stash).
LEMMA RollbackStashFollows ==
  ASSUME NEW b, NEW s, Sound(b, s), Apart(b), NEW S, S \subseteq s.takers
  PROVE  /\ Apart(RollbackStash(b, S))
         /\ Follows(RollbackStash(b, S), s, NoBatch.takes, NoBatch.makes)
  <1> DEFINE c == RollbackStash(b, S)
  <1>1. CASE b.mode = "idle"
    BY <1>1 DEF RollbackStash, Sound, Idle, Apart, Follows, TakersFollow, MakersFollow, Known,
                InPlay, NoBatch, NoMakers
  <1>2. CASE b.mode # "idle"
    <2>1. Initial(b) \cup b.stashed = s.takers /\ b.makersIntact = s.makers
      BY <1>2, InitialIsSettled DEF Sound, IsBook
    <2>2. Initial(b) \cap b.stashed = {}
      BY DEF Apart, Initial, InsertAll
    <2>3. CASE b.stashed \cup S = {}
      <3>1. c = Idle(Initial(b), s.makers) /\ Initial(b) = s.takers
        BY <1>2, <2>1, <2>3 DEF RollbackStash
      <3> HIDE DEF c
      <3>2. QED
        BY <3>1 DEF c, Idle, Apart, Follows, TakersFollow, MakersFollow, Known, InPlay,
                    NoBatch, NoMakers
    <2>4. CASE b.stashed \cup S # {}
      <3> DEFINE left == RemoveAll(Initial(b), S)
      <3>1. c = PartialPreview(left, s.makers, {}, b.stashed \cup S)
        BY <1>2, <2>1, <2>4 DEF RollbackStash
      <3>2. left = Initial(b) \ S
        BY <2>1, RemoveAllIsDifference DEF Sound
      <3> HIDE DEF left
      <3>3. /\ c.mode = "partial" /\ c.takers = left /\ c.consumed = {}
            /\ c.makers = s.makers /\ c.stashed = b.stashed \cup S
        BY <3>1 DEF PartialPreview
      <3> HIDE DEF c
      <3>4. Apart(c)
        BY <2>2, <3>2, <3>3 DEF Apart
      <3>5. InPlay(c, s) = left
        BY <2>1, <2>2, <3>2, <3>3 DEF InPlay
      <3>6. Follows(c, s, NoBatch.takes, NoBatch.makes)
        BY <3>3, <3>5 DEF Follows, TakersFollow, MakersFollow, Known, NoBatch, NoMakers
      <3>7. QED
        BY <3>4, <3>6 DEF c
    <2>5. QED
      BY <2>3, <2>4
  <1>3. QED
    BY <1>1, <1>2

-----------------------------------------------------------------------------
(* What a match does to the takers in view.                                *)

\* A taker that trades leaves the view, and its successor may come.
LEMMA OneMatched ==
  ASSUME NEW view, NEW takes, NEW D, IdsUnique(D), TakersFollow(view, takes, D),
         NEW t \in view, NEW next, SameEntry(t, next)
  PROVE  TakersFollow(RemoveAll(view, {t}) \cup {next}, AddTake(takes, t, next), D)
  <1> DEFINE all == AddTake(takes, t, next)
             later == RemoveAll(view, {t}) \cup {next}
  <1>1. /\ DOMAIN all = DOMAIN takes \cup {t.id}
        /\ \A i \in DOMAIN takes : all[i].target = takes[i].target
        /\ t.id \notin DOMAIN takes => all[t.id].target = t
    BY DEF AddTake, UpdatePool, TakersFollow
  <1>2. /\ \A i \in DOMAIN takes : takes[i].target \in D /\ takes[i].target.id = i
        /\ \A u \in D : u.id \in DOMAIN takes \/ u \in view
        /\ \A u \in view : IF u.id \in DOMAIN takes THEN SameEntry(takes[u.id].target, u)
                           ELSE u \in D
    BY DEF TakersFollow, Known
  <1>3. \A u : u \in later <=> (u \in view /\ ~SameEntry(t, u)) \/ u = next
    BY DEF RemoveAll
  <1>4. next.id = t.id
    BY DEF SameEntry
  <1> HIDE DEF all, later
  <1>5. \A i \in DOMAIN all : all[i].target \in D /\ all[i].target.id = i
    BY <1>1, <1>2
  <1>6. \A u \in D : u.id \in DOMAIN all \/ u \in later
    BY <1>1, <1>2, <1>3 DEF SameEntry
  <1>7. ASSUME NEW u \in later PROVE Known(u, all, D)
    <2>1. CASE u = next
      BY <1>1, <1>2, <1>4, <2>1 DEF Known, SameEntry
    <2>2. CASE u # next
      <3>1. u \in view /\ ~SameEntry(t, u)
        BY <1>3, <2>2
      <3>2. CASE u.id \in DOMAIN takes
        BY <1>1, <1>2, <3>1, <3>2 DEF Known
      <3>3. CASE u.id \notin DOMAIN takes
        <4>1. u \in D
          BY <1>2, <3>1, <3>3
        <4>2. u.id # t.id
          BY <1>2, <3>1, <3>3, <4>1, EntryReflexive DEF IdsUnique
        <4>3. QED
          BY <1>1, <3>3, <4>1, <4>2 DEF Known
      <3>4. QED
        BY <3>2, <3>3
    <2>3. QED
      BY <2>1, <2>2
  <1>8. TakersFollow(later, all, D)
    BY <1>5, <1>6, <1>7 DEF TakersFollow
  <1>9. QED
    BY <1>8 DEF all, later

\* A successor that stays out of view is one of a take (on_take).
LEMMA NarrowerView ==
  ASSUME NEW view, NEW takes, NEW D, TakersFollow(view, takes, D),
         NEW less, less \subseteq view, \A t \in view \ less : t.id \in DOMAIN takes
  PROVE  TakersFollow(less, takes, D)
  BY DEF TakersFollow

\* with_applied_trade keeps what orders compare by.
LEMMA TradeKeepsEntry ==
  ASSUME NEW t, NEW removed, NEW added
  PROVE  SameEntry(t, WithAppliedTrade(t, removed, added))
  BY DEF SameEntry, WithAppliedTrade

\* A trade of two takers (execute_with_taker).
LEMMA TwoMatched ==
  ASSUME NEW view, NEW takes, NEW D, IdsUnique(D), TakersFollow(view, takes, D),
         NEW ask \in view, NEW bid \in view, ask.side # bid.side,
         NEW nextAsk, SameEntry(ask, nextAsk), NEW nextBid, SameEntry(bid, nextBid),
         NEW less, RemoveAll(RemoveAll(view, {ask}), {bid}) \subseteq less,
         less \subseteq RemoveAll(RemoveAll(view, {ask}), {bid}) \cup {nextAsk, nextBid}
  PROVE  TakersFollow(less, AddTake(AddTake(takes, ask, nextAsk), bid, nextBid), D)
  <1> DEFINE once == AddTake(takes, ask, nextAsk)
             view1 == RemoveAll(view, {ask}) \cup {nextAsk}
             twice == AddTake(once, bid, nextBid)
             view2 == RemoveAll(view1, {bid}) \cup {nextBid}
  <1>1. TakersFollow(view1, once, D)
    BY OneMatched
  <1>2. bid \in view1
    BY DEF RemoveAll, SameEntry
  <1>3. view2 = RemoveAll(RemoveAll(view, {ask}), {bid}) \cup {nextAsk, nextBid}
    BY DEF RemoveAll, SameEntry
  <1>4. ask.id \in DOMAIN once
    BY DEF AddTake, UpdatePool
  <1> HIDE DEF once, view1
  <1>5. TakersFollow(view2, twice, D)
    BY <1>1, <1>2, OneMatched
  <1>6. bid.id \in DOMAIN twice /\ ask.id \in DOMAIN twice
    BY <1>4 DEF AddTake, UpdatePool
  <1> HIDE DEF twice, view2
  <1>7. \A t \in view2 \ less : t.id \in DOMAIN twice
    BY <1>3, <1>6 DEF SameEntry
  <1>8. less \subseteq view2
    BY <1>3
  <1>9. TakersFollow(less, twice, D)
    BY <1>5, <1>7, <1>8, NarrowerView
  <1>10. QED
    BY <1>9 DEF twice, once

\* A match follows the takers and makers of the batch (the loop of attempt()).
LEMMA MatchFollows == ASSUME FInv, Match PROVE FInv'
  <1>1. PICK spot \in SpotPrices(book.makers) : \E t \in TargetTaker(book, spot) :
          \E picked \in {PickTaker(book, t)} :
            \E fills \in {Preselect(book.makers, t, optimized)} :
              \/ MatchWithTaker(picked, t, spot, fills)
              \/ CounterTaker(picked, t, fills) = {} /\ MatchWithMaker(picked, t, fills)
    BY DEF Match
  <1>2. PICK t \in TargetTaker(book, spot) :
              LET fills == Preselect(book.makers, t, optimized)
              IN  \/ MatchWithTaker(PickTaker(book, t), t, spot, fills)
                  \/ MatchWithMaker(PickTaker(book, t), t, fills)
    BY <1>1
  <1> DEFINE picked == PickTaker(book, t)
             fills == Preselect(book.makers, t, optimized)
             D == InPlay(book, settled)
  <1>3. MatchWithTaker(picked, t, spot, fills) \/ MatchWithMaker(picked, t, fills)
    BY <1>2
  <1>4. t \in book.takers
    BY TargetInView
  <1>5. fills \subseteq FillPreviews(book.makers, t, optimized)
    BY DEF Preselect, BestFills
  <1>6. \A f \in fills : f.id \in DOMAIN book.makers
    <2>1. ASSUME NEW i, NEW available, NEW side, NEW demand, NEW price,
                 NEW f \in OrElse(IF optimized THEN TryOptimizedSwap(i, available, side, demand)
                                  ELSE {}, DummySwap(i, price, demand))
          PROVE  f.id = i
      BY DEF OrElse, TryOptimizedSwap, DummySwap
    <2>2. QED
      BY <1>5, <2>1 DEF FillPreviews
  <1> HIDE DEF fills
  <1>7. /\ phase = "matching" /\ phase' = phase /\ settled' = settled
        /\ Sound(book, settled) /\ Apart(book) /\ IdsUnique(settled.takers)
        /\ TakersFollow(book.takers, batch.takes, D)
        /\ MakersFollow(book.makers, batch.makes, settled.makers)
    BY DEF Match, FInv, IInv, Follows
  <1>8. /\ Sound(picked, settled) /\ Apart(picked)
        /\ picked.takers = RemoveAll(book.takers, {t})
        /\ picked.stashed = book.stashed /\ picked.makers = book.makers
    BY <1>4, <1>7, PickTakerKeeps
  <1>9. IdsUnique(D)
    BY <1>7 DEF IdsUnique, InPlay
  <1>10. SUFFICES /\ Apart(book')
                  /\ book'.stashed = book.stashed
                  /\ TakersFollow(book'.takers, batch'.takes, D)
                  /\ MakersFollow(book'.makers, batch'.makes, settled.makers)
    <2>1. IInv'
      BY MatchInv DEF FInv
    <2>2. InPlay(book', settled') = D
      BY <1>7, <1>10 DEF InPlay
    <2>3. QED
      BY <1>7, <1>10, <2>1, <2>2 DEF FInv, Follows
  <1> HIDE DEF picked, D
  <1>11. CASE MatchWithTaker(picked, t, spot, fills)
    <2>1. PICK counter \in CounterTaker(picked, t, fills) :
            \E ask \in {IF t.side = "ask" THEN t ELSE counter},
               bid \in {IF t.side = "ask" THEN counter ELSE t} :
              \E done \in {Executed(ask, bid, SettlePrice(ask, bid, spot))} :
                \E nextAsk \in {WithAppliedTrade(ask, done.base, done.quote)},
                   nextBid \in {WithAppliedTrade(bid, done.quote, done.base)} :
                  /\ batch' = [takes |-> AddTake(AddTake(batch.takes, ask, nextAsk), bid, nextBid),
                               makes |-> batch.makes,
                               ordering |-> Ordered(Ordered(batch.ordering, ask.id), bid.id)]
                  /\ book' = OnTake(OnTake(PickTaker(picked, counter), nextAsk), nextBid)
      BY <1>11 DEF MatchWithTaker
    <2>2. counter \in picked.takers /\ counter.side # t.side
      BY DEF CounterTaker, BestTaker, Opposite
    <2>3. PICK ask, bid, nextAsk, nextBid, removedAsk, addedAsk, removedBid, addedBid :
            /\ (ask = t /\ bid = counter) \/ (ask = counter /\ bid = t)
            /\ nextAsk = WithAppliedTrade(ask, removedAsk, addedAsk)
            /\ nextBid = WithAppliedTrade(bid, removedBid, addedBid)
            /\ batch'.takes = AddTake(AddTake(batch.takes, ask, nextAsk), bid, nextBid)
            /\ batch'.makes = batch.makes
            /\ book' = OnTake(OnTake(PickTaker(picked, counter), nextAsk), nextBid)
      BY <2>1
    <2>4. SameEntry(ask, nextAsk) /\ SameEntry(bid, nextBid)
      BY <2>3, TradeKeepsEntry
    <2>5. ask \in book.takers /\ bid \in book.takers /\ ask.side # bid.side
      BY <1>4, <1>8, <2>2, <2>3 DEF RemoveAll
    <2> DEFINE both == PickTaker(picked, counter)
               first == OnTake(both, nextAsk)
               second == OnTake(first, nextBid)
    <2>6. /\ Sound(both, settled) /\ Apart(both)
          /\ both.takers = RemoveAll(picked.takers, {counter})
          /\ both.stashed = picked.stashed /\ both.makers = picked.makers
      BY <1>8, <2>2, PickTakerKeeps
    <2>7. both.takers = RemoveAll(RemoveAll(book.takers, {ask}), {bid})
      BY <1>8, <2>3, <2>6 DEF RemoveAll
    <2> HIDE DEF both
    <2>8. /\ Sound(first, settled) /\ Apart(first)
          /\ both.takers \subseteq first.takers /\ first.takers \subseteq both.takers \cup {nextAsk}
          /\ first.stashed = both.stashed /\ first.makers = both.makers
      BY <2>6, OnTakeKeeps
    <2> HIDE DEF first
    <2>9. /\ Sound(second, settled) /\ Apart(second)
          /\ first.takers \subseteq second.takers
          /\ second.takers \subseteq first.takers \cup {nextBid}
          /\ second.stashed = first.stashed /\ second.makers = first.makers
      BY <2>8, OnTakeKeeps
    <2>10. book' = second
      BY <2>3 DEF second, first, both
    <2> HIDE DEF second
    <2>11. TakersFollow(book'.takers, batch'.takes, D)
      <3>1. /\ RemoveAll(RemoveAll(book.takers, {ask}), {bid}) \subseteq book'.takers
            /\ book'.takers \subseteq
                 RemoveAll(RemoveAll(book.takers, {ask}), {bid}) \cup {nextAsk, nextBid}
        BY <2>7, <2>8, <2>9, <2>10
      <3>2. TakersFollow(book'.takers, AddTake(AddTake(batch.takes, ask, nextAsk), bid, nextBid), D)
        BY <1>7, <1>9, <2>4, <2>5, <3>1, TwoMatched
      <3>3. QED
        BY <2>3, <3>2
    <2>12. QED
      BY <1>7, <1>8, <2>3, <2>6, <2>8, <2>9, <2>10, <2>11
  <1>12. CASE MatchWithMaker(picked, t, fills)
    <2>1. PICK f \in fills : \E pool, next, taken, removed, added :
            /\ taken = WithAppliedTrade(t, removed, added)
            /\ batch'.takes = AddTake(batch.takes, t, taken)
            /\ batch'.makes = AddMake(batch.makes, f.id, pool, next)
            /\ book' = PreAddMaker(OnTake(PickMaker(picked, f.id), taken), f.id, next)
      <3>1. PICK f \in fills : \E pool \in {picked.makers[f.id]} :
              \E next \in {CfmmSwap(pool, t.side, f.input)} :
                 \E taken \in {WithAppliedTrade(t, f.input,
                                   pool.res[Other(InputSide(pool, t.side))]
                                     - next.res[Other(InputSide(pool, t.side))])} :
                    /\ batch' = [takes |-> AddTake(batch.takes, t, taken),
                                 makes |-> AddMake(batch.makes, f.id, pool, next),
                                 ordering |-> Ordered(batch.ordering, t.id)]
                    /\ book' = PreAddMaker(OnTake(PickMaker(picked, f.id), taken), f.id, next)
        BY <1>12 DEF MatchWithMaker
      <3>2. QED
        BY <3>1
    <2>2. PICK pool, next, taken, removed, added :
            /\ taken = WithAppliedTrade(t, removed, added)
            /\ batch'.takes = AddTake(batch.takes, t, taken)
            /\ batch'.makes = AddMake(batch.makes, f.id, pool, next)
            /\ book' = PreAddMaker(OnTake(PickMaker(picked, f.id), taken), f.id, next)
      BY <2>1
    <2> DEFINE out == PickMaker(picked, f.id)
               on == OnTake(out, taken)
               back == PreAddMaker(on, f.id, next)
    <2>3. /\ Sound(out, settled) /\ Apart(out)
          /\ out.takers = picked.takers /\ out.stashed = picked.stashed
          /\ out.makers = RemovePool(picked.makers, f.id)
      BY <1>8, PickMakerKeeps
    <2> HIDE DEF out
    <2>4. /\ Sound(on, settled) /\ Apart(on)
          /\ out.takers \subseteq on.takers /\ on.takers \subseteq out.takers \cup {taken}
          /\ on.stashed = out.stashed /\ on.makers = out.makers
      BY <2>3, OnTakeKeeps
    <2> HIDE DEF on
    <2>5. /\ Sound(back, settled) /\ Apart(back)
          /\ back.takers = on.takers /\ back.stashed = on.stashed
          /\ back.makers = UpdatePool(on.makers, f.id, next)
      BY <2>4, PreAddMakerKeeps
    <2>6. book' = back
      BY <2>2 DEF back, on, out
    <2> HIDE DEF back
    <2>7. SameEntry(t, taken)
      BY <2>2, TradeKeepsEntry
    <2>8. TakersFollow(book'.takers, batch'.takes, D)
      <3> DEFINE all == AddTake(batch.takes, t, taken)
                 view == RemoveAll(book.takers, {t}) \cup {taken}
      <3>1. TakersFollow(view, all, D)
        BY <1>4, <1>7, <1>9, <2>7, OneMatched
      <3>2. t.id \in DOMAIN all
        BY DEF AddTake, UpdatePool
      <3>3. book'.takers \subseteq view /\ view \ book'.takers \subseteq {taken}
        BY <1>8, <2>3, <2>4, <2>5, <2>6
      <3> HIDE DEF all, view
      <3>4. \A u \in view \ book'.takers : u.id \in DOMAIN all
        BY <2>7, <3>2, <3>3 DEF SameEntry
      <3>5. TakersFollow(book'.takers, all, D)
        BY <3>1, <3>3, <3>4, NarrowerView
      <3>6. QED
        BY <2>2, <3>5 DEF all
    <2>9. MakersFollow(book'.makers, batch'.makes, settled.makers)
      <3>1. f.id \in DOMAIN book.makers
        BY <1>6
      <3>2. book'.makers = UpdatePool(RemovePool(book.makers, f.id), f.id, next)
        BY <1>8, <2>3, <2>4, <2>5, <2>6
      <3>3. DOMAIN batch'.makes = DOMAIN batch.makes \cup {f.id}
        BY <2>2 DEF AddMake, UpdatePool
      <3>4. /\ DOMAIN book'.makers = DOMAIN book.makers
            /\ \A i \in DOMAIN book.makers \ {f.id} : book'.makers[i] = book.makers[i]
        BY <3>1, <3>2 DEF UpdatePool, RemovePool
      <3>5. QED
        BY <1>7, <3>1, <3>3, <3>4 DEF MakersFollow
    <2>10. QED
      BY <1>8, <2>3, <2>4, <2>5, <2>6, <2>8, <2>9
  <1>13. QED
    BY <1>3, <1>11, <1>12

\* A target nothing overlaps leaves the view as it was (attempt()).
LEMMA FailToMatchFollows == ASSUME FInv, FailToMatch PROVE FInv'
  <1>1. PICK spot : \E t \in TargetTaker(book, spot) : book' = PreAddTaker(PickTaker(book, t), t)
    BY DEF FailToMatch
  <1>. PICK t \in TargetTaker(book, spot) : book' = PreAddTaker(PickTaker(book, t), t)
    BY <1>1
  <1>2. /\ phase = "matching" /\ phase' = "settling"
        /\ settled' = settled /\ batch' = batch
    BY DEF FailToMatch
  <1>3. /\ t \in book.takers
        /\ Sound(book, settled) /\ Apart(book) /\ IdsUnique(settled.takers)
        /\ Follows(book, settled, batch.takes, batch.makes)
    BY <1>2, TargetInView DEF FInv, IInv
  <1> DEFINE picked == PickTaker(book, t)
  <1>4. /\ Sound(picked, settled) /\ Apart(picked)
        /\ picked.takers = RemoveAll(book.takers, {t})
        /\ picked.stashed = book.stashed /\ picked.makers = book.makers
    BY <1>3, PickTakerKeeps
  <1> HIDE DEF picked
  <1> DEFINE back == PreAddTaker(picked, t)
  <1>5. /\ Apart(back)
        /\ back.takers = Insert(picked.takers, t)
        /\ back.stashed = picked.stashed /\ back.makers = picked.makers
    BY <1>4, PreAddTakerKeeps
  <1>6. book' = back
    BY DEF back, picked
  <1> HIDE DEF back
  <1>7. RemoveAll(book.takers, {t}) = book.takers \ {t}
    BY <1>3, RemoveAllIsDifference DEF Sound
  <1>8. Insert(book.takers \ {t}, t) = book.takers
    BY <1>3 DEF Insert, Sound, Unique, SameEntry
  <1>9. Follows(book', settled, batch.takes, batch.makes)
    BY <1>3, <1>4, <1>5, <1>6, <1>7, <1>8 DEF Follows, InPlay
  <1>10. IInv'
    BY FailToMatchInv DEF FInv
  <1>11. QED
    BY <1>2, <1>3, <1>5, <1>6, <1>9, <1>10 DEF FInv

\* A retry, as it stashes settled takers only.
LEMMA RetryFollows ==
  ASSUME FInv, IInv', NEW S, S \subseteq settled.takers, book' = RollbackStash(book, S),
         batch' = NoBatch, phase' = "matching", settled' = settled
  PROVE  FInv'
  <1>1. Sound(book, settled) /\ Apart(book) /\ IdsUnique(settled.takers)
    BY DEF FInv, IInv
  <1>2. Apart(book') /\ Follows(book', settled, NoBatch.takes, NoBatch.makes)
    BY <1>1, RollbackStashFollows
  <1>3. QED
    BY <1>1, <1>2 DEF FInv

\* A book that is settled has nothing stashed.
LEMMA SettledFollows ==
  ASSUME IInv', IdsUnique(settled'.takers), phase' = "settled"
  PROVE  FInv'
  <1>1. book' = Idle(settled'.takers, settled'.makers)
    BY DEF IInv, Sound
  <1>2. Apart(book')
    BY <1>1 DEF Apart, Idle
  <1>3. QED
    BY <1>2 DEF FInv

\* The recipe names the targets and pools of the batch (try_from).
LEMMA RecipeIsOfBatch ==
  ASSUME NEW r \in Finalized
  PROVE  /\ DOMAIN r.takes = DOMAIN batch.takes
         /\ \A i \in DOMAIN r.takes : r.takes[i].target = batch.takes[i].target
         /\ DOMAIN r.makes = DOMAIN batch.makes
  <1>1. PICK makes : /\ makes = Rebalanced(batch.makes) /\ makes # Refused
                     /\ r \in FinalRecipes(batch.takes, makes)
    BY DEF Finalized
  <1>2. PICK forBid, forAsk, base, quote :
          /\ r.takes = FinalTakes(batch.takes, forBid, forAsk, base, quote)
          /\ r.makes = makes
    BY <1>1 DEF FinalRecipes
  <1>3. DOMAIN makes = DOMAIN batch.makes
    BY <1>1 DEF Rebalanced
  <1>4. QED
    BY <1>2, <1>3 DEF FinalTakes, FinalTake

\* Takes and makes of the same targets and pools follow as well.
LEMMA SameTargetsFollow ==
  ASSUME NEW b, NEW s, NEW takes, NEW makes, Follows(b, s, takes, makes),
         NEW takes2, NEW makes2,
         DOMAIN takes2 = DOMAIN takes, \A i \in DOMAIN takes : takes2[i].target = takes[i].target,
         DOMAIN makes2 = DOMAIN makes
  PROVE  Follows(b, s, takes2, makes2)
  BY DEF Follows, TakersFollow, MakersFollow, Known

\* The recipe after balance_fee.
Corrected(num, den, mismatch) ==
    [recipe EXCEPT !.takes = Correct(Scale(recipe.takes, num, den), recipe.ordering, mismatch),
                   !.residual = FALSE, !.residue = 0]

\* Correcting the budgets is one scaling and one correction.
LEMMA CorrectBudgetsIs ==
  ASSUME CorrectBudgets
  PROVE  \E num, den, mismatch : recipe' = Corrected(num, den, mismatch)
  <1>1. PICK needed, reserved : \E scaled \in {Scale(recipe.takes, needed, reserved)} :
          \E corrected \in {Correct(scaled, recipe.ordering,
                               FeeMismatch(needed) + TotalReserved(scaled) - reserved)} :
            recipe' = [recipe EXCEPT !.takes = corrected, !.residual = FALSE, !.residue = 0]
    BY DEF CorrectBudgets
  <1> DEFINE mismatch == FeeMismatch(needed)
                           + TotalReserved(Scale(recipe.takes, needed, reserved)) - reserved
  <1>2. recipe' = Corrected(needed, reserved, mismatch)
    BY <1>1 DEF Corrected
  <1> HIDE DEF mismatch
  <1>3. QED
    BY <1>2

\* Neither a correction of the budgets nor the execution changes what a take
\* is of (with_budget_corrected, exec).
LEMMA TargetsStay ==
  ASSUME NEW takes
  PROVE  /\ \A num, den : /\ DOMAIN Scale(takes, num, den) = DOMAIN takes
                           /\ \A i \in DOMAIN takes :
                                 Scale(takes, num, den)[i].target = takes[i].target
         /\ \A ordering, mismatch :
               /\ DOMAIN Correct(takes, ordering, mismatch) = DOMAIN takes
               /\ \A i \in DOMAIN takes :
                     Correct(takes, ordering, mismatch)[i].target = takes[i].target
         /\ DOMAIN Execute(takes) = DOMAIN takes
         /\ \A i \in DOMAIN takes : Execute(takes)[i].target = takes[i].target
  <1>1. \A take, left : [take EXCEPT !.result = left].target = take.target
    OBVIOUS
  <1>2. \A take, delta : WithBudgetCorrected(take, delta).target = take.target
    <2> SUFFICES ASSUME NEW take, NEW delta
                 PROVE  WithBudgetCorrected(take, delta).target = take.target
      OBVIOUS
    <2>1. PICK left : WithBudgetCorrected(take, delta) = [take EXCEPT !.result = left]
      BY DEF WithBudgetCorrected
    <2>2. QED
      BY <1>1, <2>1
  <1>3. \A take : ExecTake(take).target = take.target
    <2> SUFFICES ASSUME NEW take PROVE ExecTake(take).target = take.target
      OBVIOUS
    <2>1. PICK left : ExecTake(take) = [take EXCEPT !.result = left]
      BY DEF ExecTake
    <2>2. QED
      BY <1>1, <2>1
  <1>4. QED
    BY <1>2, <1>3 DEF Scale, ScaleConsumedBudget, Correct, Execute

\* Interpreting a recipe keeps whom it is about (execute_recipe).
LEMMA InterpretingFollows == ASSUME FInv, Interpreting PROVE FInv'
  <1>1. /\ phase = "interpreting" /\ phase' \in {"interpreting", "pending"}
        /\ UNCHANGED <<book, settled, batch>>
    BY DEF Interpreting, LeaveResidue, CorrectBudgets, Interpreted
  <1>2. IInv'
    BY InterpretingInv DEF FInv
  <1>3. /\ DOMAIN recipe'.takes = DOMAIN recipe.takes
        /\ \A i \in DOMAIN recipe.takes : recipe'.takes[i].target = recipe.takes[i].target
        /\ recipe'.makes = recipe.makes
    <2>1. CASE LeaveResidue
      BY <2>1 DEF LeaveResidue
    <2>2. CASE CorrectBudgets
      <3>1. PICK num, den, mismatch : recipe' = Corrected(num, den, mismatch)
        BY <2>2, CorrectBudgetsIs
      <3> DEFINE scaled == Scale(recipe.takes, num, den)
                 corrected == Correct(scaled, recipe.ordering, mismatch)
      <3>2. "takes" \in DOMAIN recipe
        BY <1>1 DEF FInv, IInv
      <3>3. recipe'.takes = corrected /\ recipe'.makes = recipe.makes
        BY <3>1, <3>2 DEF Corrected
      <3>4. /\ DOMAIN scaled = DOMAIN recipe.takes
            /\ \A i \in DOMAIN recipe.takes : scaled[i].target = recipe.takes[i].target
        BY TargetsStay
      <3> HIDE DEF scaled
      <3>5. /\ DOMAIN corrected = DOMAIN scaled
            /\ \A i \in DOMAIN scaled : corrected[i].target = scaled[i].target
        BY TargetsStay
      <3> HIDE DEF corrected
      <3>6. QED
        BY <3>3, <3>4, <3>5
    <2>3. CASE Interpreted
      BY <2>3, TargetsStay DEF Interpreted
    <2>4. QED
      BY <2>1, <2>2, <2>3 DEF Interpreting
  <1>4. Follows(book, settled, recipe.takes, recipe.makes)
    BY <1>1 DEF FInv
  <1>5. Follows(book, settled, recipe'.takes, recipe'.makes)
    BY <1>3, <1>4, SameTargetsFollow
  <1>6. QED
    BY <1>1, <1>2, <1>5 DEF FInv

\* What a recipe that succeeds makes of the book (commit, then sync_book).
LEMMA CommitFollows ==
  ASSUME NEW b, NEW s, NEW takes, NEW makes,
         Sound(b, s), Apart(b), IdsUnique(s.takers), Follows(b, s, takes, makes),
         NEW left, \A t \in left : t.id \in DOMAIN takes
  PROVE  /\ InsertAll(RemoveAll(Commit(b).takers, Targets(takes)), left) =
              InsertAll(RemoveAll(s.takers, Targets(takes)), left)
                \ (IF b.mode = "partial" THEN b.stashed ELSE {})
         /\ WithUpdatedPools(Commit(b).makers, makes) = WithUpdatedPools(s.makers, makes)
         /\ \A t \in RemoveAll(s.takers, Targets(takes)) : t.id \notin DOMAIN takes
  <1> DEFINE all == Commit(b).takers
             lost == IF b.mode = "partial" THEN b.stashed ELSE {}
             rest == RemoveAll(all, Targets(takes))
             kept == RemoveAll(s.takers, Targets(takes))
  <1>1. /\ \A i \in DOMAIN takes : takes[i].target \in s.takers /\ takes[i].target \notin b.stashed
                                     /\ takes[i].target.id = i
        /\ \A t \in s.takers : t \notin b.stashed => t.id \in DOMAIN takes \/ t \in b.takers
        /\ \A t \in b.takers : IF t.id \in DOMAIN takes THEN SameEntry(takes[t.id].target, t)
                               ELSE t \in s.takers /\ t \notin b.stashed
    BY DEF Follows, TakersFollow, Known, InPlay
  <1>2. \A t : t \in Targets(takes) <=> \E i \in DOMAIN takes : t = takes[i].target
    BY DEF Targets
  <1>3. b.stashed \subseteq s.takers
    BY DEF Sound, IsBook, Idle
  <1>4. \A t \in s.takers : t \in kept <=> t.id \notin DOMAIN takes
    <2>1. ASSUME NEW t \in s.takers, t.id \in DOMAIN takes PROVE t \notin kept
      <3>1. takes[t.id].target = t
        BY <1>1, <2>1 DEF IdsUnique
      <3>2. QED
        BY <1>2, <2>1, <3>1, EntryReflexive DEF RemoveAll
    <2>2. ASSUME NEW t \in s.takers, t.id \notin DOMAIN takes PROVE t \in kept
      BY <1>1, <1>2, <2>2 DEF RemoveAll, SameEntry
    <2>3. QED
      BY <2>1, <2>2
  <1>5. kept \subseteq s.takers
    BY DEF RemoveAll
  <1>6. \A t : t \in all <=> \/ t \in b.takers
                             \/ /\ t \in b.stashed /\ t \notin lost
                                /\ \A u \in b.takers : ~SameEntry(t, u)
    <2>1. CASE b.mode = "idle"
      BY <2>1 DEF Commit, Sound, Idle
    <2>2. CASE b.mode = "partial"
      BY <2>2 DEF Commit, Idle
    <2>3. CASE b.mode = "preview"
      <3>1. all = InsertAll(b.takers, b.stashed)
        BY <2>3 DEF Commit, Idle
      <3>2. QED
        BY <2>3, <3>1 DEF InsertAll
    <2>4. QED
      BY <2>1, <2>2, <2>3 DEF Sound, IsBook
  <1>7. \A t : t \in rest <=> t \in all /\ \A i \in DOMAIN takes : ~SameEntry(takes[i].target, t)
    BY <1>2 DEF RemoveAll
  <1>8. lost \subseteq b.stashed
    OBVIOUS
  <1> HIDE DEF all, rest, kept, lost
  <1>9. \A t \in rest : t \in s.takers /\ t \notin lost /\ t.id \notin DOMAIN takes
    <2> SUFFICES ASSUME NEW t \in rest
                 PROVE  t \in s.takers /\ t \notin lost /\ t.id \notin DOMAIN takes
      OBVIOUS
    <2>1. CASE t \in b.takers
      BY <1>1, <1>7, <1>8, <2>1
    <2>2. CASE t \notin b.takers
      <3>1. t \in b.stashed /\ t \notin lost
        BY <1>6, <1>7, <2>2
      <3>2. t.id \notin DOMAIN takes
        BY <1>1, <1>3, <3>1 DEF IdsUnique
      <3>3. QED
        BY <1>3, <3>1, <3>2
    <2>3. QED
      BY <2>1, <2>2
  <1>10. ASSUME NEW t \in kept, t \notin lost PROVE t \in rest
    <2>1. t \in s.takers /\ t.id \notin DOMAIN takes
      BY <1>4, <1>5
    <2>2. \A i \in DOMAIN takes : ~SameEntry(takes[i].target, t)
      BY <1>1, <2>1 DEF SameEntry
    <2>3. CASE t \in b.stashed
      <3>1. ASSUME NEW u \in b.takers, SameEntry(t, u) PROVE FALSE
        <4>1. u.id = t.id
          BY <3>1 DEF SameEntry
        <4>2. u \in s.takers /\ u \notin b.stashed
          BY <1>1, <2>1, <4>1
        <4>3. QED
          BY <2>1, <2>3, <4>1, <4>2 DEF IdsUnique
      <3>2. QED
        BY <1>6, <1>7, <1>10, <2>2, <2>3, <3>1
    <2>4. CASE t \notin b.stashed
      BY <1>1, <1>6, <1>7, <2>1, <2>2, <2>4
    <2>5. QED
      BY <2>3, <2>4
  <1>11. rest = kept \ lost
    BY <1>4, <1>9, <1>10
  <1>12. \A t \in left, u \in kept : ~SameEntry(t, u)
    BY <1>4, <1>5 DEF SameEntry
  <1>13. InsertAll(rest, left) = rest \cup left /\ InsertAll(kept, left) = kept \cup left
    <2>1. \A t \in left : (\A u \in rest : ~SameEntry(t, u)) /\ (\A u \in kept : ~SameEntry(t, u))
      BY <1>11, <1>12
    <2>2. \A S : (\A t \in left : \A u \in S : ~SameEntry(t, u)) => InsertAll(S, left) = S \cup left
      BY DEF InsertAll
    <2>3. QED
      BY <2>1, <2>2
  <1>14. \A t \in left : t \notin lost
    <2>1. ASSUME NEW t \in left, t \in lost PROVE FALSE
      <3>1. t \in s.takers /\ t \in b.stashed /\ t.id \in DOMAIN takes
        BY <1>3, <1>8, <2>1
      <3>2. QED
        BY <1>1, <3>1 DEF IdsUnique
    <2>2. QED
      BY <2>1
  <1>15. InsertAll(rest, left) = InsertAll(kept, left) \ lost
    BY <1>11, <1>13, <1>14
  <1>16. WithUpdatedPools(Commit(b).makers, makes) = WithUpdatedPools(s.makers, makes)
    <2>1. Commit(b).makers = b.makers
      BY DEF Commit, Idle
    <2>2. QED
      BY <2>1 DEF Follows, MakersFollow, WithUpdatedPools
  <1>17. \A t \in kept : t.id \notin DOMAIN takes
    BY <1>4, <1>5
  <1>18. QED
    BY <1>15, <1>16, <1>17 DEF rest, kept, lost, all

\* What the takes of a recipe leave has their ids.
LEMMA RemainingIds ==
  ASSUME NEW takes, FinalTakesOk(takes)
  PROVE  IdsUnique(Remaining(takes)) /\ \A t \in Remaining(takes) : t.id \in DOMAIN takes
  BY DEF FinalTakesOk, Remaining, IdsUnique

\* A committed recipe leaves one taker of an id.
LEMMA SucceededFollows == ASSUME FInv, RecipeSucceeded PROVE FInv'
  <1> DEFINE takes == recipe.takes
             takers == InsertAll(RemoveAll(Commit(book).takers, Targets(takes)), Remaining(takes))
             lost == IF book.mode = "partial" THEN book.stashed ELSE {}
             kept == RemoveAll(settled.takers, Targets(takes))
  <1>1. /\ phase = "pending" /\ phase' = "settled"
        /\ settled'.takers = takers
    BY DEF RecipeSucceeded, Idle
  <1>2. /\ Sound(book, settled) /\ Apart(book) /\ IdsUnique(settled.takers)
        /\ Follows(book, settled, takes, recipe.makes) /\ FinalTakesOk(takes)
    BY <1>1 DEF FInv, IInv
  <1>3. IdsUnique(Remaining(takes)) /\ \A t \in Remaining(takes) : t.id \in DOMAIN takes
    BY <1>2, RemainingIds
  <1>4. /\ takers = InsertAll(kept, Remaining(takes)) \ lost
        /\ \A t \in kept : t.id \notin DOMAIN takes
    BY <1>2, <1>3, CommitFollows
  <1>5. kept \subseteq settled.takers
    BY DEF RemoveAll
  <1> HIDE DEF takers, takes, kept, lost
  <1>6. takers \subseteq kept \cup Remaining(takes)
    BY <1>4 DEF InsertAll
  <1>7. IdsUnique(takers)
    BY <1>2, <1>3, <1>4, <1>5, <1>6 DEF IdsUnique
  <1>8. IInv'
    BY SucceededInv DEF FInv
  <1>9. QED
    BY <1>1, <1>7, <1>8, SettledFollows

\* An outside event leaves one taker of an id (AddTaker is of a new one).
LEMMA ExternalFollows == ASSUME FInv, External PROVE FInv'
  <1>1. phase = "settled" /\ phase' = "settled"
    BY DEF External, AddTaker, RemoveTaker, UpdateMaker, RemoveMaker, Event
  <1>2. book = Idle(settled.takers, settled.makers)
    BY <1>1 DEF FInv, IInv, Sound
  <1>3. IdsUnique(book.takers)
    BY <1>2 DEF FInv, Idle
  <1>4. IdsUnique(settled'.takers)
    <2>1. CASE AddTaker
      BY <1>3, <2>1 DEF AddTaker, Event, Insert, IdsUnique
    <2>2. CASE RemoveTaker
      BY <1>3, <2>2 DEF RemoveTaker, Event, RemoveAll, IdsUnique
    <2>3. CASE UpdateMaker \/ RemoveMaker
      <3>1. PICK makers : Event(book.takers, makers)
        BY <2>3 DEF UpdateMaker, RemoveMaker
      <3>2. settled'.takers = book.takers
        BY <3>1 DEF Event
      <3>3. QED
        BY <1>3, <3>2
    <2>4. QED
      BY <2>1, <2>2, <2>3 DEF External
  <1>5. IInv'
    BY ExternalInv DEF FInv
  <1>6. QED
    BY <1>1, <1>4, <1>5, SettledFollows

\* The invariant holds of a book that has not been matched yet.
LEMMA InitFollows == Init => FInv
  <1> SUFFICES ASSUME Init PROVE FInv
    OBVIOUS
  <1>1. PICK takers \in SUBSET Orders, makers \in Makers :
          /\ \A t, u \in takers : t.id = u.id => t = u
          /\ book = Idle(takers, makers)
          /\ settled = [takers |-> takers, makers |-> makers]
          /\ phase = "settled"
    BY DEF Init
  <1>2. IdsUnique(settled.takers)
    BY <1>1 DEF IdsUnique
  <1>3. Apart(book)
    BY <1>1 DEF Apart, Idle
  <1>4. QED
    BY <1>1, <1>2, <1>3, InitInv DEF FInv

\* Every step keeps it.
LEMMA NextFollows == ASSUME FInv, [Next]_vars PROVE FInv'
  <1>1. IInv'
    BY NextInv DEF FInv
  <1>2. CASE Attempt
    <2>1. /\ batch' = NoBatch /\ phase' = "matching" /\ UNCHANGED <<book, settled>>
          /\ book = Idle(settled.takers, settled.makers)
      BY <1>2 DEF Attempt, FInv, IInv, Sound
    <2>2. Follows(book', settled', batch'.takes, batch'.makes)
      BY <2>1 DEF Follows, TakersFollow, MakersFollow, Known, InPlay, Idle, NoBatch, NoMakers
    <2>3. QED
      BY <1>1, <2>1, <2>2 DEF FInv
  <1>3. CASE Match
    BY <1>3, MatchFollows
  <1>4. CASE FailToMatch
    BY <1>4, FailToMatchFollows
  <1>5. CASE StopMatching
    BY <1>1, <1>5 DEF StopMatching, FInv
  <1>6. CASE NoMatchFound
    BY <1>1, <1>6, SettledFollows DEF NoMatchFound, FInv
  <1>7. CASE RetryWithoutUnsatisfied
    <2>1. PICK r \in Finalized : book' = RollbackStash(book, Unsatisfied(r.takes))
      BY <1>7 DEF RetryWithoutUnsatisfied
    <2>2. Unsatisfied(r.takes) \subseteq settled.takers
      BY UnsatisfiedAreSettled DEF FInv, IInv
    <2>3. QED
      BY <1>1, <1>7, <2>1, <2>2, RetryFollows DEF RetryWithoutUnsatisfied
  <1>8. CASE Downgrade
    <2>1. /\ book' = RollbackStash(book, {})
          /\ batch' = NoBatch /\ phase' = "matching" /\ settled' = settled
      BY <1>8 DEF Downgrade
    <2>2. QED
      BY <1>1, <2>1, RetryFollows
  <1>9. CASE Propose
    <2>1. PICK r \in Finalized :
            recipe' = [takes |-> r.takes, makes |-> r.makes, ordering |-> r.ordering,
                       residual |-> TakeResidualFee, residue |-> 0]
      BY <1>9 DEF Propose
    <2>2. /\ phase = "settling" /\ phase' = "interpreting" /\ UNCHANGED <<book, settled>>
      BY <1>9 DEF Propose
    <2>3. Follows(book, settled, r.takes, r.makes)
      <3>1. Follows(book, settled, batch.takes, batch.makes)
        BY <2>2 DEF FInv
      <3>2. QED
        BY <3>1, RecipeIsOfBatch, SameTargetsFollow
    <2>4. recipe'.takes = r.takes /\ recipe'.makes = r.makes
      BY <2>1
    <2>5. QED
      BY <1>1, <2>2, <2>3, <2>4 DEF FInv
  <1>10. CASE Interpreting
    BY <1>10, InterpretingFollows
  <1>11. CASE RecipeSucceeded
    BY <1>11, SucceededFollows
  <1>12. CASE RecipeFailed
    BY <1>1, <1>12, SettledFollows DEF RecipeFailed, FInv
  <1>13. CASE External
    BY <1>13, ExternalFollows
  <1>14. CASE UNCHANGED vars
    BY <1>1, <1>14 DEF vars, FInv
  <1>15. QED
    BY <1>2, <1>3, <1>4, <1>5, <1>6, <1>7, <1>8, <1>9, <1>10, <1>11, <1>12, <1>13, <1>14
       DEF Next, Matching, Settling, Feedback

\* A pending recipe leads to the book it names, or back to the settled one.
LEMMA StepFollows ==
  ASSUME FInv, [Next]_vars, phase = "pending"
  PROVE  \/ book' = Idle(settled.takers, settled.makers)
         \/ book' = Idle(Expected \ (IF book.mode = "partial" THEN book.stashed ELSE {}),
                         WithUpdatedPools(settled.makers, recipe.makes))
         \/ UNCHANGED vars
  <1>1. /\ Sound(book, settled) /\ Apart(book) /\ IdsUnique(settled.takers)
        /\ Follows(book, settled, recipe.takes, recipe.makes) /\ FinalTakesOk(recipe.takes)
    BY DEF FInv, IInv
  <1>2. RecipeSucceeded \/ RecipeFailed \/ UNCHANGED vars
    BY DEF Next, Attempt, Matching, Match, FailToMatch, StopMatching, Settling, NoMatchFound,
           RetryWithoutUnsatisfied, Downgrade, Propose, Interpreting, LeaveResidue,
           CorrectBudgets, Interpreted, Feedback, External, AddTaker, RemoveTaker, UpdateMaker,
           RemoveMaker, Event
  <1>3. CASE RecipeFailed
    BY <1>1, <1>3, RollbackRestores DEF RecipeFailed
  <1>4. CASE RecipeSucceeded
    <2>1. \A t \in Remaining(recipe.takes) : t.id \in DOMAIN recipe.takes
      BY <1>1, RemainingIds
    <2>2. book' = Idle(InsertAll(RemoveAll(Commit(book).takers, Targets(recipe.takes)),
                                 Remaining(recipe.takes)),
                       WithUpdatedPools(Commit(book).makers, recipe.makes))
      BY <1>4 DEF RecipeSucceeded
    <2> DEFINE takes == recipe.takes
               rest == RemoveAll(Commit(book).takers, Targets(takes))
               lost == IF book.mode = "partial" THEN book.stashed ELSE {}
    <2>3. /\ InsertAll(rest, Remaining(takes)) =
               InsertAll(RemoveAll(settled.takers, Targets(takes)), Remaining(takes)) \ lost
          /\ WithUpdatedPools(Commit(book).makers, recipe.makes) =
               WithUpdatedPools(settled.makers, recipe.makes)
      <3> HIDE DEF takes
      <3> DEFINE left == Remaining(takes)
      <3>1. /\ Sound(book, settled) /\ Apart(book) /\ IdsUnique(settled.takers)
            /\ Follows(book, settled, takes, recipe.makes)
            /\ \A t \in left : t.id \in DOMAIN takes
        BY <1>1, <2>1 DEF takes
      <3> HIDE DEF left
      <3>2. InsertAll(rest, left) =
              InsertAll(RemoveAll(settled.takers, Targets(takes)), left) \ lost
        BY <3>1, CommitFollows
      <3>3. WithUpdatedPools(Commit(book).makers, recipe.makes) =
              WithUpdatedPools(settled.makers, recipe.makes)
        BY <3>1, CommitFollows
      <3>4. QED
        BY <3>2, <3>3 DEF left
    <2>4. Expected = InsertAll(RemoveAll(settled.takers, Targets(takes)), Remaining(takes))
      BY DEF Expected
    <2>5. book' = Idle(Expected \ lost, WithUpdatedPools(settled.makers, recipe.makes))
      BY <2>2, <2>3, <2>4
    <2>6. QED
      BY <2>5
  <1>5. QED
    BY <1>2, <1>3, <1>4

\* Whatever an attempt picked, pre-added and stashed on its way, a recipe
\* that succeeds changes the takers and pools it names, and one that fails
\* none (state/mod.rs, commit and rollback; execution_engine/mod.rs, sync_book).
THEOREM BookFollowsRecipeHolds == Spec => BookFollowsRecipe
  <1>1. Init => FInv
    BY InitFollows
  <1>2. FInv /\ [Next]_vars => FInv'
    BY NextFollows
  <1> DEFINE Step ==
        phase = "pending" =>
          \/ book' = Idle(settled.takers, settled.makers)
          \/ book' = Idle(Expected \ (IF book.mode = "partial" THEN book.stashed ELSE {}),
                          WithUpdatedPools(settled.makers, recipe.makes))
  <1>3. FInv /\ [Next]_vars => [Step]_vars
    BY StepFollows
  <1> HIDE DEF Step
  <1>4. Spec => [][Step]_vars
    BY <1>1, <1>2, <1>3, PTL DEF Spec
  <1>5. QED
    BY <1>4 DEF Step, BookFollowsRecipe

=============================================================================
