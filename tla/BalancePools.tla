---------------------------- MODULE BalancePools ----------------------------
(***************************************************************************)
(* The weighted pools of data/balance_pool.rs: x^wx * y^wy is kept, with   *)
(* the weight of ADA on x and the token's on y, whichever side holds ADA.  *)
(***************************************************************************)
EXTENDS PoolMath

CONSTANTS
    AdaWeight,      \* ADA_WEIGHT, 1
    TokenWeight,    \* TOKEN_WEIGHT, 4
    WeightDen,      \* WEIGHT_FEE_DEN, 5
    BalanceWord     \* 2^64, the width of the fee products

ASSUME BalancePoolsAssumption ==
    {AdaWeight, TokenWeight, WeightDen, BalanceWord} \subseteq Nat \ {0}

BalanceVer == {"BalanceV1", "BalanceV2"}

BalanceConfig(d) == [fee |-> Pair(d[4], d[4]), tfee |-> d[5], treasury |-> Pair(d[6], d[7])]

\* Nothing compares the treasury with the reserves.
ParseBalance(u, native, base) ==
    LET conf == BalanceConfig(u.datum)
    IN  IF native = "none" /\ u.value.ada < MinT2T THEN Refused
        ELSE [ver |-> u.ver, native |-> native, base |-> base,
              res |-> Reserves(u, native), lq |-> MaxLqCap - u.value.lq,
              weight |-> Pair(AdaWeight, TokenWeight),
              fee |-> conf.fee, tfee |-> conf.tfee, treasury |-> conf.treasury]

UpdateBalance(d, treasury) == [d EXCEPT ![6] = treasury["x"], ![7] = treasury["y"]]

IntoBalance(p, u) ==
    [u EXCEPT !.value = PooledValue(p, u), !.datum = UpdateBalance(@, p.treasury)]

BalancePure(p) == Minus(p.res, p.treasury)

-----------------------------------------------------------------------------

\* calculate_new_invariant_bn_u: what trading `amount` for `out` leaves.
NewInvariant(res, w, fee, s, amount, out) ==
    (res[s] + ((amount * fee) % BalanceWord) \div FeeDen) ^ w[s] * (res[Other(s)] - out) ^ w[Other(s)]

\* The estimate is a root rounded to the nearest; the loop after it steps
\* down to the most that leaves the invariant, as paying nothing does.
BalanceCurve(res, w, fee, s, amount) ==
    LET invariant == res["x"] ^ w["x"] * res["y"] ^ w["y"]
    IN  Max({0} \cup {out \in 1 .. res[Other(s)] :
                 NewInvariant(res, w, fee, s, amount, out) >= invariant})

BalanceOutput(p, s, amount) ==
    BalanceCurve(BalancePure(p), p.weight, p.fee[s] - p.tfee, s, amount)

BalanceSwap(p, side, amount) ==
    LET s == InputSide(p, side)
    IN  [p EXCEPT !.res = AddOn(AddOn(@, s, amount), Other(s), -BalanceOutput(p, s, amount)),
                  !.treasury = AddOn(@, s, ((amount * p.tfee) % BalanceWord) \div FeeDen)]

BalanceStaticPrice(p) ==
    LET scaled == [s \in Side |-> (BalancePure(p)[s] * WeightDen) \div p.weight[s]]
    IN  <<scaled[Other(p.base)], scaled[p.base]>>

BalanceRealPrice(p, side, amount) ==
    LET out == BalanceOutput(p, InputSide(p, side), amount)
    IN  IF side = "bid" THEN <<amount, out>> ELSE <<out, amount>>

BalanceIsActive(p) == p.native # "none" => p.res[p.native] >= MinN2T

BalanceLiquidity(p) == [base |-> p.res[p.base], quote |-> p.res[Other(p.base)]]

\* No part of the reserves is held back here.
BalanceAvailable(p, side, worst) ==
    LET s == InputSide(p, side)
        res == BalancePure(p)
        fee == p.fee[s] - p.tfee
        rate == WorstRate(side, worst)
        Gained(d) == BalanceCurve(res, p.weight, FeeDen, s, d)
        curve == [d \in 1 .. (res[Other(s)] * rate[2]) \div rate[1] |-> Gained(d)]
        traded == LargestTrade(curve, fee, rate[1], rate[2])
    IN  IF fee < 0 \/ traded = Refused THEN Refused
        ELSE [input |-> (traded * FeeDen) \div fee, output |-> Gained(traded)]

BalanceEstimate(p, side, amount) ==
    [input |-> amount, output |-> BalanceOutput(p, InputSide(p, side), amount)]

-----------------------------------------------------------------------------

\* Shares as in a classic pool; the change is what the shares do not need.
BalanceReward(p, in) ==
    LET reward == ClassicReward(BalancePure(p), p.lq, in)
    IN  IF reward = Refused \/ p.lq = 0 THEN Refused
        ELSE [lq |-> reward.lq,
              change |-> [s \in Side |-> in[s] - (reward.lq * BalancePure(p)[s]) \div p.lq]]

BalanceDeposit(p, in) == Deposited(p, in, BalanceReward(p, in))

BalanceRedeem(p, burned) == Redeemed(p, burned, ClassicShares(BalancePure(p), p.lq, burned))

=============================================================================
