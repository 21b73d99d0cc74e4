----------------------------- MODULE StablePools ----------------------------
(***************************************************************************)
(* The stable-swap pools of data/stable_pool_t2t.rs with the exact integer *)
(* arithmetic of pool_math/stable_pool_t2t_exact_math.rs: the amount `a`   *)
(* (an2n in the code) times n^2n, amounts scaled by a multiplier per side, *)
(* and the invariant d of a pair found by Newton's method.                 *)
(*                                                                         *)
(* The two Newton loops end when a step changes nothing. Steps is the      *)
(* number the model follows them for; a loop still running then is         *)
(* Unsettled, for the code a loop that need never end.                     *)
(***************************************************************************)
EXTENDS PoolMath

CONSTANTS
    MaxSwapError,   \* MAX_SWAP_ERROR, 2
    Corrections,    \* how often the swap corrects its result, 255
    Steps,
    Unsettled

NN == 4             \* n^n for the two assets of a pool

\* What repeating a step on v comes to rest at: once a step changes nothing,
\* neither do those after it.
Settle(Step(_), v) ==
    LET at[n \in 0 .. Steps] == IF n = 0 THEN v ELSE Step(at[n - 1])
    IN  IF Step(at[Steps]) = at[Steps] THEN at[Steps] ELSE Unsettled

Cube(d) == d * d * d

-----------------------------------------------------------------------------
(* The invariant.                                                          *)

\* calculate_invariant_error_sgn: d is not below the root.
NotBelow(x, y, ann, d) == d * ann + Cube(d) \div (NN * x * y) >= ann * (x + y) + d

Invariant(x, y, a) ==
    LET ann == a \div NN
        Step(d) == LET part == (Cube(d) \div NN) \div (x * y)
                   IN  ((ann * (x + y) + 2 * part) * d) \div ((ann - 1) * d + 3 * part)
        d == Settle(Step, x + y)
    IN  IF x = 0 \/ y = 0 \/ a = 0 THEN Refused
        ELSE IF d = Unsettled THEN Unsettled
        ELSE Min({e \in d .. d + x + y : NotBelow(x, y, ann, e)})

\* check_exact_invariant: before and after are pairs <<base, quote>> of
\* scaled amounts; d lies between them, and not far above the one after.
ExactAt(before, after, quoteMult, a, d) ==
    LET prod(q) == q[1] * q[2]
        left(q) == Cube(d) + (a - NN) * prod(q) * d
        right(q) == a * prod(q) * (q[1] + q[2])
        shifted == <<after[1], after[2] - MaxSwapError * quoteMult>>
    IN  /\ left(before) >= right(before)
        /\ left(after) <= right(after)
        /\ left(shifted) >= right(shifted)

CanCheck(after, quoteMult) == MaxSwapError * quoteMult <= after[2]

-----------------------------------------------------------------------------

\* Newton's method for the quote that goes with `base` on the curve of d.
QuoteAt(d, base, from, ann) ==
    LET c == ((Cube(d) \div NN) \div base) \div ann
        Step(q) == (q * q + c) \div (2 * q + base + d \div ann - d)
    IN  IF d \in {Refused, Unsettled} THEN d ELSE Settle(Step, from)

\* The first correction of `quote` that the validator's check accepts.
CorrectedQuote(before, base, quote, quoteMult, a, d) ==
    LET fitting == {q \in quote .. quote + Corrections :
                        ExactAt(before, <<base, q>>, quoteMult, a, d)}
    IN  IF fitting = {} THEN quote + Corrections ELSE Min(fitting)

\* What the quote falls by, when the curve is at d before and `after` after.
QuoteOut(before, base, quote, quoteMult, a, d, after) ==
    IF d = Refused THEN 0
    ELSE IF Unsettled \in {d, quote} THEN Unsettled
    ELSE IF after = Refused THEN 0
    ELSE IF after = Unsettled THEN Unsettled
    ELSE IF ~ CanCheck(<<base, quote>>, quoteMult) THEN 0
    ELSE (before[2] - CorrectedQuote(before, base, quote, quoteMult, a,
                                     IF after > d THEN after ELSE d)) \div quoteMult

\* calc_stable_swap: 0 where the code finds no answer.
SwapCurve(res, mult, s, amount, a) ==
    LET out == Other(s)
        before == <<res[s] * mult[s], res[out] * mult[out]>>
        base == before[1] + amount * mult[s]
        d == Invariant(before[1], before[2], a)
        quote == QuoteAt(d, base, before[2], a \div NN)
        after == IF quote \in {Refused, Unsettled} THEN quote ELSE Invariant(base, quote, a)
    IN  QuoteOut(before, base, quote, mult[out], a, d, after)

\* calculate_context_values_list: the invariant the validator is shown for
\* a swap from the tradable reserves `from` to `to`. The search is upwards
\* and has no end of its own: Unsettled if there is nothing to find.
ContextValue(from, to, mult, fee, a) ==
    LET s == IF to["x"] > from["x"] THEN "x" ELSE "y"
        out == Other(s)
        before == <<from[s] * mult[s], from[out] * mult[out]>>
        noFee == to[out] - ((from[out] - to[out]) * fee[out]) \div (FeeDen - fee[out]) - 1
        after == <<to[s] * mult[s], noFee * mult[out]>>
        d == Invariant(before[1], before[2], a)
        found == {e \in d .. d + before[1] + before[2] : ExactAt(before, after, mult[out], a, e)}
    IN  IF d \in {Refused, Unsettled} THEN d
        ELSE IF ~ CanCheck(after, mult[out]) THEN Refused
        ELSE IF found = {} THEN Unsettled
        ELSE Min(found)

-----------------------------------------------------------------------------
(* The pool. It is a pair of tokens or holds ADA like any other; its datum *)
(* has the fees at 9 and 10 and the treasury at 13 and 14.                 *)

StableConfig(d) ==
    [an2n |-> d[1], mult |-> Pair(d[4], d[5]), fee |-> Pair(d[9], d[9]), tfee |-> d[10],
     treasury |-> Pair(d[13], d[14])]

ParseStable(u, native, base) ==
    LET conf == StableConfig(u.datum)
        res == Reserves(u, native)
    IN  IF /\ \A s \in Side : res[s] > conf.treasury[s]
           /\ native # "none" \/ MinT2T <= u.value.ada
          THEN [ver |-> u.ver, native |-> native, base |-> base, res |-> res,
                lq |-> MaxLqCap - u.value.lq, an2n |-> conf.an2n, mult |-> conf.mult,
                fee |-> conf.fee, tfee |-> conf.tfee, treasury |-> conf.treasury]
          ELSE Refused

UpdateStable(d, treasury) == [d EXCEPT ![13] = treasury["x"], ![14] = treasury["y"]]

IntoStable(p, u) == [u EXCEPT !.value = PooledValue(p, u), !.datum = UpdateStable(@, p.treasury)]

StablePure(p) == Minus(p.res, p.treasury)

StableOutput(p, s, amount) == SwapCurve(StablePure(p), p.mult, s, amount, p.an2n)

\* The LP fee and the treasury's part of what the curve gives. The part is
\* raised until it is worth its share of what the taker and it receive.
LpFeesDown(p, pure, s) == (pure * p.fee[s]) \div FeeDen    \* mutant: no unit more

LpFees(p, pure, s) == (pure * p.fee[s]) \div FeeDen + 1

TreasuryFee(p, pure, lpFees, lpFee) ==
    LET least == (pure * p.tfee) \div FeeDen
        rest == FeeDen - p.tfee - lpFee
    IN  IF p.tfee = 0 \/ least * rest >= (pure - lpFees - least - 1) * p.tfee THEN least
        ELSE Min({t \in least + 1 .. pure : t * rest >= (pure - lpFees - t) * p.tfee})

\* What a swap takes out of the pool: the fees come off the output. The LP
\* fee is the quote side's for both directions.
StableTrade(p, pure) ==
    LET lpFees == LpFees(p, pure, Other(p.base))
        treasury == TreasuryFee(p, pure, lpFees, p.fee[Other(p.base)])
    IN  [treasury |-> treasury, output |-> pure - treasury - lpFees]

\* The subtractions of a swap are unchecked: an input too small for its
\* fees has no defined result.
StableSwapDefined(p, side, amount) ==
    \E pure \in {StableOutput(p, InputSide(p, side), amount)} :
        /\ pure # Unsettled
        /\ pure >= LpFees(p, pure, Other(p.base)) + (pure * p.tfee) \div FeeDen + 1

\* The treasury of x grows by a bid and that of y by an ask, whichever of
\* the two sides is the base.
AfterStableTrade(p, side, amount, trade) ==
    LET s == InputSide(p, side)
    IN  [p EXCEPT !.res = AddOn(AddOn(@, s, amount), Other(s), -trade.output),
                  !.treasury = AddOn(@, IF side = "bid" THEN "x" ELSE "y", trade.treasury)]

StableSwap(p, side, amount) ==
    AfterStableTrade(p, side, amount,
                     StableTrade(p, StableOutput(p, InputSide(p, side), amount)))

\* The slope of the curve, with the fee taken off once.
StableStaticPrice(p) ==
    LET x == StablePure(p)["x"] * p.mult["x"]
        y == StablePure(p)["y"] * p.mult["y"]
        d == Invariant(x, y, p.an2n)
        num == p.an2n \div NN + Cube(d) \div (NN * x * x * y)
        den == FeeDen * (p.an2n \div NN + Cube(d) \div (NN * y * y * x))
    IN  IF p.base = "x" THEN <<num * (FeeDen - p.fee["x"] - p.tfee), den>>
        ELSE <<den, num * (FeeDen - p.fee["y"] - p.tfee)>>

\* The fees are not part of this price.
StableRealPrice(p, side, amount) ==
    LET out == StableOutput(p, InputSide(p, side), amount)
    IN  IF side = "bid" THEN <<amount, out>> ELSE <<out, amount>>

StableIsActive(p) == TRUE

StableLiquidity(p) == [base |-> p.res[p.base], quote |-> p.res[Other(p.base)]]

\* Amounts stay scaled by the multipliers here, and the fee is the LP fee
\* less the treasury's.
StableAvailable(p, side, worst) ==
    LET s == InputSide(p, side)
        x == StablePure(p)[s] * p.mult[s]
        y == StablePure(p)[Other(s)] * p.mult[Other(s)]
        fee == p.fee[s] - p.tfee
        rate == WorstRate(side, worst)
        d == Invariant(x, y, p.an2n)
        \* How far y falls along the curve when x grows by n.
        Gained(n) == Max({0} \cup
            {g \in 1 .. y - 1 : ~ NotBelow(x + n, y - g, p.an2n \div NN, d)})
        curve == [n \in 1 .. (y * rate[2]) \div rate[1] |-> Gained(n)]
        traded == LargestTrade(curve, FeeDen - fee, rate[1], rate[2])
        output == (Gained(traded) * (FeeDen - fee)) \div FeeDen
    IN  IF fee < 0 \/ d = Refused \/ traded = Refused THEN Refused
        ELSE [input |-> traded, output |-> Least(output, y)]

-----------------------------------------------------------------------------

\* stable_cfmm_reward_lp. The change is always paid in y, also when it is x
\* that is left over.
StableReward(p, in) ==
    LET pure == StablePure(p)
        by == [s \in Side |-> (in[s] * p.lq) \div pure[s]]
        unlocked == Least(by["x"], by["y"])
        excess == IF by["x"] < by["y"] THEN "y" ELSE "x"
    IN  IF pure["x"] = 0 \/ pure["y"] = 0 THEN Refused
        ELSE IF by["x"] = by["y"] THEN [lq |-> unlocked, change |-> Zero]
        ELSE [lq |-> unlocked,
              change |-> Pair(0, in[excess] - Rounded(unlocked * pure[excess], p.lq))]

StableDeposit(p, in) == Deposited(p, in, StableReward(p, in))

StableRedeem(p, burned) == Redeemed(p, burned, ClassicShares(StablePure(p), p.lq, burned))

=============================================================================
