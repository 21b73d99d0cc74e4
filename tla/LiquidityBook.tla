--------------------------- MODULE LiquidityBook ---------------------------
(***************************************************************************)
(* The liquidity book of one pair (liquidity_book/mod.rs, core.rs): limit  *)
(* orders and pools, matched against each other in attempts. An attempt    *)
(* takes one taker after another, the one whose price lies farthest beyond *)
(* the spot price, and trades it with the best counter-taker or the best   *)
(* pool, on a preview of the book (BookState). The batch is then made      *)
(* final: each pool's trades become one, what that saves is given to a     *)
(* taker, fees and budgets are charged. A batch some taker of which gets   *)
(* too little is retried without that taker; one with more pools than its  *)
(* budget pays for is retried with whole trades only; else the recipe is   *)
(* interpreted as a transaction (Settlement), submitted, and the engine    *)
(* tells the book how it ended.                                            *)
(*                                                                         *)
(* The attempt is one call in the code. Its steps are actions here, as     *)
(* nothing else touches the book meanwhile. A price is <<quote, base>>.    *)
(* Takers are limit orders (bloom-offchain-cardano/src/orders/limit.rs),   *)
(* makers constant-product pools.                                          *)
(***************************************************************************)
EXTENDS BookState, CfmmPools, Settlement

CONSTANTS
    Orders,         \* the limit orders that may come
    Makers,         \* the sets of pools to start from: functions from ids to pools
    Reserves2,      \* the reserves an outside trade may leave in a pool
    SoftCap,        \* execution_cap.soft: no more is matched beyond it
    MaxTakes,       \* 15
    TakeUnits, MakeUnits,   \* marginal costs of a take and of a make
    BaseStepBudget,
    O2oAllowed,
    MaxEvents, MaxAttempts,
    NoRecipe

ASSUME OrdersAssumption ==
    \A o \in Orders :
        /\ o = ReadOrder(o.out, TRUE)
        /\ o \in [id : Nat, side : {"ask", "bid"}, input : Nat \ {0}, output : Nat,
                  price : (Nat \ {0}) \X (Nat \ {0}), fee : Nat, budget : Nat, cost : Nat,
                  min : Nat, out : {o.out}]

VARIABLES
    book,
    settled,        \* auxiliary: takers and makers of the last settled book
    batch,          \* the matchmaking attempt: takes and makes by id
    optimized,
    recipe,
    phase,          \* "settled", "matching", "settling", "interpreting" or "pending"
    events, attempts

vars == <<book, settled, batch, optimized, recipe, phase, events, attempts>>

-----------------------------------------------------------------------------
(* Prices and the order of the takers.                                     *)

LtPrice(p, q) == p[1] * q[2] < q[1] * p[2]
LePrice(p, q) == p[1] * q[2] <= q[1] * p[2]

Opposite(side) == IF side = "bid" THEN "ask" ELSE "bid"

\* OnSide::overlaps and OnSide::better_than, which are the same comparison.
Overlaps(side, this, that) ==
    IF side = "bid" THEN LePrice(that, this) ELSE LePrice(this, that)

\* Of two takers of a side: by price, by weight (lower fee first), by id.
ComesBefore(t, u) ==
    \/ IF t.side = "bid" THEN LtPrice(u.price, t.price) ELSE LtPrice(t.price, u.price)
    \/ /\ ~LtPrice(t.price, u.price)
       /\ ~LtPrice(u.price, t.price)
       /\ t.fee < u.fee \/ (t.fee = u.fee /\ t.id <= u.id)

\* The first taker of a side, if any.
BestTaker(takers, side) ==
    {t \in takers : t.side = side /\ \A u \in takers : u.side = side => ComesBefore(t, u)}

\* The pools of the highest quality, active or not.
SpotPrices(makers) ==
    {CfmmStaticPrice(makers[i]) : i \in
        {i \in DOMAIN makers : \A j \in DOMAIN makers : makers[j].lq <= makers[i].lq}}

\* AllowedPriceRange: no worse than what is stashed. Bids are tested
\* against the stashed asks too.
InRange(stashed, t) ==
    LET asks == {u \in stashed : u.side = "ask"}
    IN  IF t.side = "ask" THEN \A u \in asks : LePrice(t.price, u.price)
        ELSE asks = {} \/ \E u \in asks : LePrice(u.price, t.price)

-----------------------------------------------------------------------------
(* max_by_distance_to_spot.                                                *)

MaxByVolume(ask, bid, spot) ==
    IF ask.input * bid.input * spot[2] > spot[1] THEN ask ELSE bid

MaxByDistance(ask, bid, spot) ==
    LET twice == 2 * spot[1] * ask.price[2] * bid.price[2]
        sum == spot[2] * (ask.price[1] * bid.price[2] + bid.price[1] * ask.price[2])
    IN  IF twice > sum THEN ask ELSE IF twice < sum THEN bid ELSE MaxByVolume(ask, bid, spot)

TargetTaker(b, spot) ==
    LET asks == {t \in BestTaker(b.takers, "ask") : InRange(b.stashed, t)}
        bids == {t \in BestTaker(b.takers, "bid") : InRange(b.stashed, t)}
    IN  IF asks = {} \/ bids = {} THEN asks \cup bids
        ELSE {MaxByDistance(ask, bid, spot) : ask \in asks, bid \in bids}

-----------------------------------------------------------------------------
(* preselect_market_maker. An optimized trade takes what a pool can give   *)
(* at the taker's price, another one the taker's whole input.              *)

PriceOf(side, input, output) == IF side = "bid" THEN <<input, output>> ELSE <<output, input>>

TryOptimizedSwap(id, available, side, demand) ==
    IF available = Refused THEN {}
    ELSE {fill \in {[id |-> id, input |-> available.input,
                     price |-> PriceOf(side, available.input, available.output)]} :
              fill.price[2] # 0 /\ fill.input > 0 /\ demand >= fill.input}

DummySwap(id, price, demand) ==
    {fill \in {[id |-> id, input |-> demand, price |-> price]} : fill.price[2] # 0}

OrElse(first, second) == IF first = {} THEN second ELSE first

FillPreviews(makers, t, optimizing) ==
    UNION {OrElse(IF optimizing
                    THEN TryOptimizedSwap(i, CfmmAvailable(makers[i], t.side, t.price),
                                          t.side, t.input)
                    ELSE {},
                  DummySwap(i, ClassicRealPrice(makers[i], t.side, t.input), t.input))
           : i \in {i \in DOMAIN makers : CfmmIsActive(makers[i])}}

BestFills(fills, side) ==
    {f \in fills : \A g \in fills : Overlaps(side, g.price, f.price)}

Preselect(makers, t, optimizing) == BestFills(FillPreviews(makers, t, optimizing), t.side)

-----------------------------------------------------------------------------
(* settle_price: the spot price, held between the two takers' prices, and  *)
(* up to 3 % off to the favour of the one who pays the higher fee.         *)

ClampPrice(p, low, high) ==
    IF LtPrice(p, low) THEN low ELSE IF LtPrice(high, p) THEN high ELSE p

MaxBiasPercent == 3

BiasPercent(feeAsk, feeBid) ==
    IF feeAsk < feeBid THEN -((feeAsk * 100) \div feeBid)
    ELSE IF feeAsk = 0 THEN 0 ELSE (feeBid * 100) \div feeAsk

Biased(p, bias) == <<p[1] * (10000 + MaxBiasPercent * bias), p[2] * 10000>>

\* Mutant: the spot price is not held between the takers' prices.
SettlePriceAtSpot(ask, bid, spot) == Biased(spot, BiasPercent(ask.fee, bid.fee))

SettlePrice(ask, bid, spot) ==
    ClampPrice(Biased(ClampPrice(spot, ask.price, bid.price), BiasPercent(ask.fee, bid.fee)),
               ask.price, bid.price)

\* linear_output_unsafe.
BaseFor(quote, price) == (quote * price[2]) \div price[1]
QuoteFor(base, price) == (base * price[1]) \div price[2]

\* LimitOrder::with_applied_trade; a result is terminal once nothing is left
\* to sell.
WithAppliedTrade(t, removed, added) ==
    [t EXCEPT !.input = @ - removed, !.output = @ + added]

\* execute_with_taker: what the two give each other.
Executed(ask, bid, price) ==
    LET demand == BaseFor(bid.input, price)
    IN  IF ask.input < demand THEN [quote |-> QuoteFor(ask.input, price), base |-> ask.input]
        ELSE [quote |-> bid.input, base |-> demand]

-----------------------------------------------------------------------------
(* The batch. Takes of one taker combine, as do makes of one pool: the     *)
(* first target and the last result stay. `fills` is auxiliary. `ordering` *)
(* is the order of the takers' first takes.                                *)

NoBatch == [takes |-> NoMakers, makes |-> NoMakers, ordering |-> <<>>]

Ordered(ordering, id) ==
    IF \E k \in DOMAIN ordering : ordering[k] = id THEN ordering ELSE Append(ordering, id)

AddTake(takes, t, result) ==
    UpdatePool(takes, t.id,
               IF t.id \in DOMAIN takes
                 THEN [takes[t.id] EXCEPT !.result = result, !.fills = @ + 1]
                 ELSE [target |-> t, result |-> result, fills |-> 1])

AddMake(makes, id, pool, result) ==
    UpdatePool(makes, id,
               IF id \in DOMAIN makes THEN [makes[id] EXCEPT !.result = result]
               ELSE [target |-> pool, result |-> result])

ExecutionUnits ==
    TakeUnits * Cardinality(DOMAIN batch.takes) + MakeUnits * Cardinality(DOMAIN batch.makes)

IsComplete ==
    \/ Cardinality(DOMAIN batch.takes) > 1
    \/ Cardinality(DOMAIN batch.takes) = 1 /\ batch.makes # NoMakers

\* on_take: the successor comes into view, unless nothing is left to sell.
OnTake(b, next) == IF next.input = 0 THEN b ELSE PreAddTaker(b, next)

-----------------------------------------------------------------------------
(* attempt().                                                              *)

Attempt ==
    /\ phase = "settled"
    /\ attempts < MaxAttempts
    /\ phase' = "matching"
    /\ batch' = NoBatch
    /\ optimized' = TRUE
    /\ attempts' = attempts + 1
    /\ UNCHANGED <<book, settled, recipe, events>>

\* The best counter-taker, where it overlaps and no pool is better than it.
\* Without a pool to compare with there is none.
CounterTaker(picked, t, fills) ==
    {counter \in BestTaker(picked.takers, Opposite(t.side)) :
        /\ O2oAllowed
        /\ Overlaps(t.side, t.price, counter.price)
        /\ \E f \in fills : Overlaps(counter.side, counter.price, f.price)}

MatchWithTaker(picked, t, spot, fills) ==
    \E counter \in CounterTaker(picked, t, fills) :
      \E ask \in {IF t.side = "ask" THEN t ELSE counter},
         bid \in {IF t.side = "ask" THEN counter ELSE t} :
        \E done \in {Executed(ask, bid, SettlePrice(ask, bid, spot))} :
          \E nextAsk \in {WithAppliedTrade(ask, done.base, done.quote)},
             nextBid \in {WithAppliedTrade(bid, done.quote, done.base)} :
            /\ batch' = [takes |-> AddTake(AddTake(batch.takes, ask, nextAsk), bid, nextBid),
                         makes |-> batch.makes,
                         ordering |-> Ordered(Ordered(batch.ordering, ask.id), bid.id)]
            /\ book' = OnTake(OnTake(PickTaker(picked, counter), nextAsk), nextBid)

MatchWithMaker(picked, t, fills) ==
    \E f \in fills :
        /\ Overlaps(t.side, t.price, f.price)
        /\ \E pool \in {picked.makers[f.id]} :
              \E next \in {CfmmSwap(pool, t.side, f.input)} :
                 \E taken \in {WithAppliedTrade(t, f.input,
                                   pool.res[Other(InputSide(pool, t.side))]
                                     - next.res[Other(InputSide(pool, t.side))])} :
                    /\ batch' = [takes |-> AddTake(batch.takes, t, taken),
                                 makes |-> AddMake(batch.makes, f.id, pool, next),
                                 ordering |-> Ordered(batch.ordering, t.id)]
                    /\ book' = PreAddMaker(OnTake(PickMaker(picked, f.id), taken), f.id, next)

\* One turn of the loop: the target is taken out of view and matched.
Match ==
    /\ phase = "matching"
    /\ ExecutionUnits < SoftCap
    /\ Cardinality(DOMAIN batch.takes) < MaxTakes
    /\ \E spot \in SpotPrices(book.makers) :
         \E t \in TargetTaker(book, spot) :
           \E picked \in {PickTaker(book, t)} :
             \E fills \in {Preselect(book.makers, t, optimized)} :
                \/ MatchWithTaker(picked, t, spot, fills)
                \/ CounterTaker(picked, t, fills) = {} /\ MatchWithMaker(picked, t, fills)
    /\ UNCHANGED <<settled, optimized, recipe, phase, events, attempts>>

\* A target nothing overlaps returns to the book, and matching ends.
FailToMatch ==
    /\ phase = "matching"
    /\ ExecutionUnits < SoftCap
    /\ Cardinality(DOMAIN batch.takes) < MaxTakes
    /\ \E spot \in SpotPrices(book.makers) :
         \E t \in TargetTaker(book, spot) :
           \E picked \in {PickTaker(book, t)} :
             \E fills \in {Preselect(book.makers, t, optimized)} :
                /\ CounterTaker(picked, t, fills) = {}
                /\ \A f \in fills : ~Overlaps(t.side, t.price, f.price)
                /\ book' = PreAddTaker(picked, t)
    /\ phase' = "settling"
    /\ UNCHANGED <<settled, batch, optimized, recipe, events, attempts>>

\* The cap is reached, no pool gives a spot price or no taker is in range.
StopMatching ==
    /\ phase = "matching"
    /\ \/ ExecutionUnits >= SoftCap
       \/ Cardinality(DOMAIN batch.takes) >= MaxTakes
       \/ \A spot \in SpotPrices(book.makers) : TargetTaker(book, spot) = {}
    /\ phase' = "settling"
    /\ UNCHANGED <<book, settled, batch, optimized, recipe, events, attempts>>

-----------------------------------------------------------------------------
(* MatchmakingRecipe::try_from. A pool's trades become one trade of what   *)
(* it gained in all; what that leaves over is the excess.                  *)

Liquid(p) == [base |-> p.res[p.base], quote |-> p.res[Other(p.base)]]

\* MakeInProgress::finalized, as [target, result, base, quote].
FinalMake(target, next, gained) ==
    LET now == CfmmSwap(target, IF gained.base >= 0 THEN "ask" ELSE "bid",
                        IF gained.base >= 0 THEN gained.base ELSE gained.quote)
    IN  [target |-> target, result |-> now,
         base |-> IF gained.base >= 0 THEN 0 ELSE Liquid(next).base - Liquid(now).base,
         quote |-> IF gained.base >= 0 THEN Liquid(next).quote - Liquid(now).quote ELSE 0]

Gained(m) ==
    [base |-> Liquid(m.result).base - Liquid(m.target).base,
     quote |-> Liquid(m.result).quote - Liquid(m.target).quote]

\* A pool that lost both assets has no trade to become.
Rebalanced(makes) ==
    IF \E i \in DOMAIN makes : Gained(makes[i]).base < 0 /\ Gained(makes[i]).quote < 0
      THEN Refused
      ELSE [i \in DOMAIN makes |->
               FinalMake(makes[i].target, makes[i].result, Gained(makes[i]))]

\* Nothing is left to sell, or no budget for another step.
IsTerminal(next) == next.input = 0 \/ next.budget < next.cost

\* TakeInProgress::finalized.
Charged(take, excess) ==
    LET removed == take.target.input - take.result.input
        fee == (take.target.fee * removed) \div take.target.input
    IN  [take.result EXCEPT !.output = @ + excess, !.fee = @ - fee,
                            !.budget = AtLeastZero(take.target.budget - take.target.cost)]

FinalTake(take, excess) ==
    [target |-> take.target, result |-> Charged(take, excess), fills |-> take.fills,
     term |-> IsTerminal(Charged(take, excess))]

ExcessOn(makes, asset) == SumOver([i \in DOMAIN makes |-> makes[i][asset]])

\* Who may get the excess of an asset: any take on the side that buys it,
\* as the takes are in a HashMap. Without one the recipe is refused.
Receivers(takes, side, excess) ==
    IF excess = 0 THEN {NoRecipe}
    ELSE {i \in DOMAIN takes : takes[i].target.side = side}

FinalTakes(takes, forBid, forAsk, base, quote) ==
    [i \in DOMAIN takes |->
        FinalTake(takes[i], IF i = forBid THEN base ELSE IF i = forAsk THEN quote ELSE 0)]

\* The recipes the batch can become.
FinalRecipes(takes, makes) ==
    IF \E i \in DOMAIN makes : makes[i].base < 0 \/ makes[i].quote < 0 THEN {}
    ELSE {[takes |-> FinalTakes(takes, forBid, forAsk,
                                ExcessOn(makes, "base"), ExcessOn(makes, "quote")),
           makes |-> makes, ordering |-> batch.ordering] :
             forBid \in Receivers(takes, "bid", ExcessOn(makes, "base")),
             forAsk \in Receivers(takes, "ask", ExcessOn(makes, "quote"))}

Finalized ==
    IF ~IsComplete THEN {}
    ELSE UNION {IF makes = Refused THEN {} ELSE FinalRecipes(batch.takes, makes)
                : makes \in {Rebalanced(batch.makes)}}

Unsatisfied(takes) ==
    {takes[i].target : i \in
        {i \in DOMAIN takes : takes[i].result.output - takes[i].target.output
                                 < takes[i].target.min}}

\* MakeInProgress::is_zero: no asset went up while the other went down.
IsZero(m) ==
    LET gained == Gained(m)
    IN  ~(gained.base > 0 /\ gained.quote < 0) /\ ~(gained.base < 0 /\ gained.quote > 0)

HasZeroMake(r) == \E i \in DOMAIN r.makes : IsZero(r.makes[i])

\* check_recipe_complexity: half a take of base budget per make at least.
ComplexityOk(r) ==
    LET takes == Cardinality(DOMAIN r.takes)
        makes == Cardinality(DOMAIN r.makes)
        budget == SumOver([i \in DOMAIN r.takes |-> r.takes[i].target.cost])
    IN  makes = 0 \/ 2 * takes * budget >= makes * (IF BaseStepBudget = 0 THEN 1 ELSE BaseStepBudget)

-----------------------------------------------------------------------------
(* What attempt() makes of the batch.                                      *)

NoMatchFound ==
    /\ phase = "settling"
    /\ \/ Finalized = {}
       \/ \E r \in Finalized : Unsatisfied(r.takes) = {} /\ HasZeroMake(r)
    /\ book' = RollbackUnstash(book)
    /\ phase' = "settled"
    /\ batch' = NoBatch
    /\ UNCHANGED <<settled, optimized, recipe, events, attempts>>

RetryWithoutUnsatisfied ==
    /\ phase = "settling"
    /\ \E r \in Finalized :
          /\ Unsatisfied(r.takes) # {}
          /\ book' = RollbackStash(book, Unsatisfied(r.takes))
    /\ phase' = "matching"
    /\ batch' = NoBatch
    /\ UNCHANGED <<settled, optimized, recipe, events, attempts>>

Downgrade ==
    /\ phase = "settling"
    /\ \E r \in Finalized : Unsatisfied(r.takes) = {} /\ ~HasZeroMake(r) /\ ~ComplexityOk(r)
    /\ book' = RollbackStash(book, {})
    /\ optimized' = FALSE
    /\ phase' = "matching"
    /\ batch' = NoBatch
    /\ UNCHANGED <<settled, recipe, events, attempts>>

Propose ==
    /\ phase = "settling"
    /\ \E r \in Finalized :
          /\ Unsatisfied(r.takes) = {}
          /\ ~HasZeroMake(r)
          /\ ComplexityOk(r)
          /\ recipe' = [takes |-> r.takes, makes |-> r.makes, ordering |-> r.ordering,
                        residual |-> TakeResidualFee, residue |-> 0]
    /\ phase' = "interpreting"
    /\ batch' = NoBatch
    /\ UNCHANGED <<book, settled, optimized, events, attempts>>

-----------------------------------------------------------------------------
(* The interpreter: one call of execute_recipe is a step. It executes the  *)
(* takes and compares the fee reserved with the one needed; unless they    *)
(* match it calls itself, with what is left over for the operator, or with *)
(* the budgets corrected. The pools are executed by CfmmPools.             *)

OperatorShare == OperatorIO(TotalInterest(recipe.takes) + recipe.residue)

Needed == EstimatedFee(Execute(recipe.takes), recipe.makes, OperatorShare)

\* What is reserved beyond what the transaction needs.
FeeMismatch(needed) == TotalReserved(recipe.takes) - recipe.residue - needed

LeaveResidue ==
    /\ phase = "interpreting"
    /\ recipe.residual
    /\ \E mismatch \in {FeeMismatch(Needed)} :
          /\ mismatch > 0
          /\ recipe' = [recipe EXCEPT !.residual = FALSE, !.residue = @ + mismatch]
    /\ UNCHANGED <<book, settled, batch, optimized, phase, events, attempts>>

\* balance_fee: scale what the takes consume, then correct it. Without any
\* fee reserved the ratio is undefined, and the process ends.
CorrectBudgets ==
    /\ phase = "interpreting"
    /\ \E needed \in {Needed}, reserved \in {TotalReserved(recipe.takes)} :
          /\ FeeMismatch(needed) < 0 \/ (FeeMismatch(needed) > 0 /\ ~recipe.residual)
          /\ reserved # 0
          /\ \E scaled \in {Scale(recipe.takes, needed, reserved)} :
               \E corrected \in {Correct(scaled, recipe.ordering,
                                    FeeMismatch(needed) + TotalReserved(scaled) - reserved)} :
                  recipe' = [recipe EXCEPT !.takes = corrected, !.residual = FALSE,
                                           !.residue = 0]
    /\ UNCHANGED <<book, settled, batch, optimized, phase, events, attempts>>

Interpreted ==
    /\ phase = "interpreting"
    /\ FeeMismatch(Needed) = 0
    /\ recipe' = [takes |-> Execute(recipe.takes), makes |-> recipe.makes,
                  fee |-> Needed, operator |-> OperatorShare]
    /\ phase' = "pending"
    /\ UNCHANGED <<book, settled, batch, optimized, events, attempts>>

Interpreting == LeaveResidue \/ CorrectBudgets \/ Interpreted

-----------------------------------------------------------------------------
(* The feedback of the engine, and what it tells a settled book.           *)

Targets(takes) == {takes[i].target : i \in DOMAIN takes}

Remaining(takes) == {takes[i].result : i \in {i \in DOMAIN takes : ~takes[i].term}}

WithUpdatedPools(makers, makes) ==
    [i \in DOMAIN makers \cup DOMAIN makes |->
        IF i \in DOMAIN makes THEN makes[i].result ELSE makers[i]]

\* on_recipe_succeeded, then sync_book for every effect of the recipe: the
\* old state is removed, the new one added (execution_engine/mod.rs).
RecipeSucceeded ==
    /\ phase = "pending"
    /\ \E b \in {Commit(book)} :
          book' = Idle(InsertAll(RemoveAll(b.takers, Targets(recipe.takes)),
                                 Remaining(recipe.takes)),
                       WithUpdatedPools(b.makers, recipe.makes))
    /\ settled' = [takers |-> book'.takers, makers |-> book'.makers]
    /\ recipe' = NoRecipe
    /\ phase' = "settled"
    /\ UNCHANGED <<batch, optimized, events, attempts>>

RecipeFailed ==
    /\ phase = "pending"
    /\ book' = RollbackUnstash(book)
    /\ recipe' = NoRecipe
    /\ phase' = "settled"
    /\ UNCHANGED <<settled, batch, optimized, events, attempts>>

Event(takers, makers) ==
    /\ phase = "settled"
    /\ events < MaxEvents
    /\ book' = [book EXCEPT !.takers = takers, !.makers = makers]
    /\ settled' = [takers |-> takers, makers |-> makers]
    /\ events' = events + 1
    /\ UNCHANGED <<batch, optimized, recipe, phase, attempts>>

AddTaker ==
    \E o \in Orders :
        /\ \A t \in book.takers : t.id # o.id
        /\ Event(Insert(book.takers, o), book.makers)

RemoveTaker == \E t \in book.takers : Event(RemoveAll(book.takers, {t}), book.makers)

UpdateMaker ==
    \E i \in DOMAIN book.makers, res \in Reserves2 :
        /\ res # book.makers[i].res
        /\ Event(book.takers, UpdatePool(book.makers, i, [book.makers[i] EXCEPT !.res = res]))

RemoveMaker == \E i \in DOMAIN book.makers : Event(book.takers, RemovePool(book.makers, i))

-----------------------------------------------------------------------------

Init ==
    \E takers \in SUBSET Orders, makers \in Makers :
        /\ \A t, u \in takers : t.id = u.id => t = u
        /\ book = Idle(takers, makers)
        /\ settled = [takers |-> takers, makers |-> makers]
        /\ batch = NoBatch
        /\ optimized = TRUE
        /\ recipe = NoRecipe
        /\ phase = "settled"
        /\ events = 0
        /\ attempts = 0

Matching == Match \/ FailToMatch \/ StopMatching

Settling == NoMatchFound \/ RetryWithoutUnsatisfied \/ Downgrade \/ Propose

Feedback == RecipeSucceeded \/ RecipeFailed

External == AddTaker \/ RemoveTaker \/ UpdateMaker \/ RemoveMaker

Next == Attempt \/ Matching \/ Settling \/ Interpreting \/ Feedback \/ External

Spec == Init /\ [][Next]_vars

\* attempt() and execute_recipe are loops without a pause.
FairSpec == Spec /\ WF_vars(Matching \/ Settling \/ Interpreting)

-----------------------------------------------------------------------------
(* Properties.                                                             *)

\* Whatever was picked, pre-added and stashed, giving the attempt up leads
\* back to the book it started from (state/mod.rs: PartialPreviewState and
\* PreviewState::rollback, move_into_preview).
Restorable == RollbackUnstash(book) = Idle(settled.takers, settled.makers)

\* The transaction adds up, in ADA and in tokens: the outputs of the orders
\* and pools it spends, and the funding box if it is used, are worth its
\* outputs and its fee (execute_recipe, balance_fee), after the trades of a
\* pool were merged, the excess was given away, the operator took its share
\* and the budgets were corrected. The output of an order that lives on
\* covers what its state says (LimitOrder::exec, unsafe_update_datum).
TransactionBalanced ==
    phase = "pending" =>
        LET takes == recipe.takes
            gained == [i \in DOMAIN recipe.makes |-> Gained(recipe.makes[i])]
        IN  /\ SumOver([i \in DOMAIN takes |-> takes[i].target.out.ada - takes[i].result.out.ada])
                  + recipe.operator.spent
                = recipe.operator.made + recipe.fee
                    + SumOver([i \in DOMAIN gained |-> gained[i].base])
            /\ SumOver([i \in DOMAIN takes |->
                            takes[i].target.out.token - takes[i].result.out.token])
                = SumOver([i \in DOMAIN gained |-> gained[i].quote])
            /\ \A t \in Remaining(takes) :
                  /\ t.out.input = t.input /\ t.out.fee = t.fee
                  /\ t.budget <= ExecutionBudget(t.out)

\* Every taker of a recipe gets at least its price for what it sells, but
\* for one unit per trade lost to rounding, and at least its minimum
\* (settle_price, try_optimized_swap, unsatisfied_fragments). What it gets
\* is what the transaction adds to its output.
LimitHonoured ==
    phase = "pending" => \A i \in DOMAIN recipe.takes :
        LET take == recipe.takes[i]
            ask == take.target.side = "ask"
            left == take.result.out
            charge == ConsumedBudget(take) + ConsumedFee(take)
            ada == left.ada - take.target.out.ada + charge
            token == left.token - take.target.out.token
            sold == IF ask THEN -ada ELSE -token
            got == IF ask THEN token ELSE ada
            price == take.target.price
        IN  /\ got >= take.target.min
            /\ IF ask THEN (got + take.fills) * price[2] >= sold * price[1]
                      ELSE (got + take.fills) * price[1] >= sold * price[2]

\* The book the recipe leads to, from the book the attempt started from.
Expected ==
    InsertAll(RemoveAll(settled.takers, Targets(recipe.takes)), Remaining(recipe.takes))

\* A recipe that succeeds changes just the takers and makers it names, one
\* that fails nothing, whatever was previewed and stashed on the way. Where
\* the attempt consumed takers only, what it had stashed is lost
\* (PartialPreviewState::commit).
BookFollowsRecipe ==
    [][phase = "pending" =>
        \/ book' = Idle(settled.takers, settled.makers)
        \/ book' = Idle(Expected \ (IF book.mode = "partial" THEN book.stashed ELSE {}),
                        WithUpdatedPools(settled.makers, recipe.makes))]_vars

\* An attempt comes to an end: every retry stashes somebody or gives up
\* optimized trades for good (the loop of attempt()). So does the
\* interpretation of its recipe, where the budgets are up to the fee
\* (execute_recipe).
AttemptEnds == phase = "matching" ~> phase \in {"settled", "pending"}

=============================================================================
