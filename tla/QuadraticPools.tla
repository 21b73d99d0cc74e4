--------------------------- MODULE QuadraticPools ---------------------------
(***************************************************************************)
(* The bonding-curve pools of data/quadratic_pool.rs and                   *)
(* pool_math/degen_quadratic_math.rs. A pool sells a fixed emission of the *)
(* token y; when `s` of them are out, the next one costs a*s^2 + b of x,   *)
(* until the pool has gathered cap_thr of x. Version V1 holds ADA on x,    *)
(* V1T2T a token, of which it keeps a fee (`kept`) apart. There are no     *)
(* shares: nobody deposits or redeems.                                     *)
(*                                                                         *)
(* Roots of cubics are taken in decimal fractions and cut off; the model   *)
(* finds the same whole number by comparing both sides of the equation     *)
(* multiplied by 3 * ADenom * BDenom.                                      *)
(***************************************************************************)
EXTENDS PoolMath

CONSTANTS
    Emission,       \* TOKEN_EMISSION
    ADenom, BDenom, \* A_DENOM, B_DENOM
    MinAda,         \* MIN_ADA, locked in a pool that holds ADA
    FeePart,        \* T2T_FEE_DENOM; the fee is 1 part of it, T2T_FEE_NUM
    Percentile,     \* FULL_PERCENTILE, 1000, of which 1 may exceed the cap
    Operator        \* the operator's key

ASSUME QuadraticPoolsAssumption ==
    /\ {Emission, MinAda} \subseteq Nat
    /\ {ADenom, BDenom, FeePart, Percentile} \subseteq Nat \ {0}

QuadraticVer == {"QuadraticV1", "QuadraticT2T"}

QuadraticConfig(d) == [aNum |-> d[3], bNum |-> d[4], operator |-> d[5], cap |-> d[6], kept |-> 0]

QuadraticT2TConfig(d) == [QuadraticConfig(d) EXCEPT !.kept = d[7]]

\* The pool is refused to any other operator and above its cap.
ParseQuadratic(u, native, base) ==
    LET conf == IF u.ver = "QuadraticV1" THEN QuadraticConfig(u.datum) ELSE QuadraticT2TConfig(u.datum)
        res == Reserves(u, native)
    IN  IF conf.operator = Operator /\ res["x"] - conf.kept < conf.cap
          THEN [ver |-> u.ver, native |-> native, base |-> base, res |-> res, lq |-> MaxLqCap,
                aNum |-> conf.aNum, bNum |-> conf.bNum, cap |-> conf.cap, kept |-> conf.kept,
                parts |-> IF u.ver = "QuadraticV1" THEN 0 ELSE 1]
          ELSE Refused

\* into_ledger leaves the datum alone; the fee is written by the engine.
IntoQuadratic(p, u) == [u EXCEPT !.value = PooledValue(p, u)]

UpdateQuadratic(d, kept) == [d EXCEPT ![7] = kept]

-----------------------------------------------------------------------------
(* The curve.                                                              *)

Power3(n) == n * n * n

\* What the tokens between two supplies cost, times 3 * ADenom * BDenom.
CurveCost(p, from, to) ==
    BDenom * p.aNum * (Power3(to) - Power3(from)) + 3 * ADenom * p.bNum * (to - from)

Scaled(x) == x * 3 * ADenom * BDenom

Supply(p) == Emission - p.res["y"]

QuadraticOutput(p, s, amount) ==
    IF s = "x"
      THEN Max({0} \cup {n \in 1 .. p.res["y"] :
                   CurveCost(p, Supply(p), Supply(p) + n) <= Scaled(amount)})
      ELSE CurveCost(p, Supply(p) - amount, Supply(p)) \div Scaled(1)

\* Fees are taken on the x side, the roundings always in the pool's favour.
AdjustedXInput(parts, input) ==
    (input * (FeePart - parts)) \div FeePart
        - (IF (input * (FeePart - parts)) % FeePart = 0 THEN 2 ELSE 1)

AdjustedXOutput(parts, output) ==
    (output * (FeePart - parts)) \div FeePart
        - (IF (output * (FeePart - parts)) % FeePart = 0 THEN 1 ELSE 0)

AdjustedXFee(parts, input) ==
    (input * parts) \div FeePart + (IF (input * parts) % FeePart = 0 THEN 0 ELSE 1)

\* Paying out more than there is empties the reserve. A V1 pool is emptied
\* by a bid that would cut into its MinAda, a T2T pool's bid is not capped.
SafeOutput(p, side, candidate) ==
    LET there == p.res[Other(InputSide(p, side))]
        fits == IF side = "ask" THEN candidate <= there
                ELSE p.ver # "QuadraticV1" \/ candidate + MinAda <= there
    IN  IF fits THEN candidate ELSE there

QuadraticSwapV1(p, side, amount) ==
    LET s == InputSide(p, side)
        out == SafeOutput(p, side, QuadraticOutput(p, s, amount))
    IN  [p EXCEPT !.res = AddOn(AddOn(@, s, amount), Other(s), -out)]

QuadraticSwapT2T(p, side, amount) ==
    LET s == InputSide(p, side)
        input == IF s = "x" THEN AdjustedXInput(p.parts, amount) ELSE amount
        out == SafeOutput(p, side, QuadraticOutput(p, s, input))
    IN  IF s = "x"
          THEN [p EXCEPT !.res = Pair(@["x"] + amount, @["y"] - out),
                         !.kept = @ + AdjustedXFee(p.parts, amount)]
          ELSE [p EXCEPT !.res = Pair(@["x"] - AdjustedXOutput(p.parts, out), @["y"] + amount),
                         !.kept = @ + AdjustedXFee(p.parts, out)]

QuadraticSwap(p, side, amount) ==
    IF p.ver = "QuadraticV1" THEN QuadraticSwapV1(p, side, amount)
    ELSE QuadraticSwapT2T(p, side, amount)

-----------------------------------------------------------------------------
(* What the order book asks.                                               *)

QuadraticStaticPrice(p) ==
    LET num == Supply(p) * Supply(p) * p.aNum * BDenom + ADenom * p.bNum
    IN  IF p.base = "x" THEN <<ADenom * BDenom, num>> ELSE <<num, ADenom * BDenom>>

\* An ask is refused above the cap, also when it pays with y.
QuadraticRealPrice(p, side, amount) ==
    LET out == QuadraticOutput(p, InputSide(p, side), amount)
    IN  IF side = "bid" THEN <<amount, out>>
        ELSE IF p.res["x"] + amount - p.kept <= p.cap THEN <<out, amount>>
        ELSE Refused

QuadraticIsActive(p) ==
    p.res["x"] - (IF p.ver = "QuadraticV1" THEN 0 ELSE p.kept)
        < (p.cap * (1 + Percentile)) \div Percentile

QuadraticLiquidity(p) ==
    LET x == IF p.native # "x" THEN p.res["x"]
             ELSE IF p.res["x"] >= MinAda THEN p.res["x"] - MinAda ELSE 0
    IN  IF p.base = "x" THEN [base |-> x, quote |-> p.res["y"]]
        ELSE [base |-> p.res["y"], quote |-> x]

\* Up to where the average price reaches the worst one: of the x still to
\* be gathered.
AvailableToBuyers(p, rate, left) ==
    LET Bought(d) == QuadraticOutput(p, "x", d)
        paid == LargestTrade([d \in 1 .. left |-> Bought(d)], FeeDen, rate[1], rate[2])
    IN  IF Bought(left) * rate[2] > rate[1] * left THEN [input |-> left, output |-> Bought(left)]
        ELSE IF paid = Refused THEN [input |-> 0, output |-> 0]
        ELSE [input |-> paid, output |-> (paid * rate[1]) \div rate[2]]

\* Or of the tokens that are out; here the price is read the other way
\* round than in a purchase.
AvailableToSellers(p, rate, x0) ==
    LET Sold(d) == QuadraticOutput(p, "y", d)
        fits == {d \in 1 .. Supply(p) : Sold(d) * rate[1] >= rate[2] * d}
    IN  IF fits = {} \/ Supply(p) \in fits
          THEN [input |-> Supply(p), output |-> IF Supply(p) > 0 THEN x0 ELSE 0]
          ELSE [input |-> Max(fits), output |-> (Max(fits) * rate[2]) \div rate[1]]

QuadraticAvailable(p, side, worst) ==
    LET locked == IF p.native = "x" THEN MinAda ELSE 0
        x0 == p.res["x"] - (IF p.native = "x" THEN MinAda ELSE p.kept)
        rate == WorstRate(side, worst)
    IN  IF x0 >= p.cap - locked THEN Refused
        ELSE IF InputSide(p, side) = "x" THEN AvailableToBuyers(p, rate, p.cap - x0 - locked)
        ELSE AvailableToSellers(p, rate, x0)

\* A bid is always priced as a sale of y, an ask as a purchase with x, the
\* latter up to a little above the cap.
QuadraticEstimate(p, side, amount) ==
    LET most == (p.cap * (Percentile + 5)) \div Percentile - (p.res["x"] - p.kept)
        Bought(d) == QuadraticOutput(p, "x", d)
    IN  IF side = "bid" THEN [input |-> amount, output |-> QuadraticOutput(p, "y", amount)]
        ELSE IF Bought(amount) <= Bought(most) THEN [input |-> amount, output |-> Bought(amount)]
        ELSE [input |-> most, output |-> Bought(most)]

=============================================================================
