------------------------------ MODULE AnyPool ------------------------------
(***************************************************************************)
(* A pool of any kind: the dispatch over the kinds, and the trade that     *)
(* lies between two states of a pool, with the output that carries the     *)
(* second one.                                                             *)
(***************************************************************************)
EXTENDS CfmmPools, BalancePools, StablePools, QuadraticPools

-----------------------------------------------------------------------------
(* Dispatch over the kinds (data/pool.rs; data/quadratic_pool.rs is served *)
(* by an agent of its own).                                                *)

AnyParse(u, native, base) ==
    IF u.ver \in CfmmVer THEN ParseCfmm(u, native, base)
    ELSE IF u.ver \in BalanceVer THEN ParseBalance(u, native, base)
    ELSE IF u.ver \in QuadraticVer THEN ParseQuadratic(u, native, base)
    ELSE ParseStable(u, native, base)

AnySwap(p, side, amount) ==
    IF p.ver \in CfmmVer THEN CfmmSwap(p, side, amount)
    ELSE IF p.ver \in BalanceVer THEN BalanceSwap(p, side, amount)
    ELSE IF p.ver \in QuadraticVer THEN QuadraticSwap(p, side, amount)
    ELSE StableSwap(p, side, amount)

AnyIsActive(p) ==
    IF p.ver \in CfmmVer THEN CfmmIsActive(p)
    ELSE IF p.ver \in BalanceVer THEN BalanceIsActive(p)
    ELSE IF p.ver \in QuadraticVer THEN QuadraticIsActive(p)
    ELSE StableIsActive(p)

AnyLiquidity(p) ==
    IF p.ver \in CfmmVer THEN ClassicLiquidity(p)
    ELSE IF p.ver \in BalanceVer THEN BalanceLiquidity(p)
    ELSE IF p.ver \in QuadraticVer THEN QuadraticLiquidity(p)
    ELSE StableLiquidity(p)

AnyAvailable(p, side, worst) ==
    IF p.ver \in CfmmVer THEN CfmmAvailable(p, side, worst)
    ELSE IF p.ver \in BalanceVer THEN BalanceAvailable(p, side, worst)
    ELSE IF p.ver \in QuadraticVer THEN QuadraticAvailable(p, side, worst)
    ELSE StableAvailable(p, side, worst)

AnyStaticPrice(p) ==
    IF p.ver \in CfmmVer THEN CfmmStaticPrice(p)
    ELSE IF p.ver \in BalanceVer THEN BalanceStaticPrice(p)
    ELSE IF p.ver \in QuadraticVer THEN QuadraticStaticPrice(p)
    ELSE StableStaticPrice(p)

AnyRealPrice(p, side, amount) ==
    IF p.ver \in ClassicVer THEN ClassicRealPrice(p, side, amount)
    ELSE IF p.ver \in FeeSwitchVer THEN FeeSwitchRealPrice(p, side, amount)
    ELSE IF p.ver \in RoyaltyVer THEN RoyaltyRealPrice(p, side, amount)
    ELSE IF p.ver \in BalanceVer THEN BalanceRealPrice(p, side, amount)
    ELSE IF p.ver \in QuadraticVer THEN QuadraticRealPrice(p, side, amount)
    ELSE StableRealPrice(p, side, amount)

AnyInto(p, u) ==
    IF p.ver \in CfmmVer THEN IntoCfmm(p, u)
    ELSE IF p.ver \in BalanceVer THEN IntoBalance(p, u)
    ELSE IntoStable(p, u)

AnyDeposit(p, in) ==
    IF p.ver \in CfmmVer THEN CfmmDeposit(p, in)
    ELSE IF p.ver \in BalanceVer THEN BalanceDeposit(p, in)
    ELSE StableDeposit(p, in)

AnyRedeem(p, burned) ==
    IF p.ver \in CfmmVer THEN CfmmRedeem(p, burned)
    ELSE IF p.ver \in BalanceVer THEN BalanceRedeem(p, burned)
    ELSE StableRedeem(p, burned)

-----------------------------------------------------------------------------
(* A swap, as the engine executes it.                                      *)

\* Make::trade_side: None unless one reserve rises and the other falls.
TradeSide(p, next) ==
    LET a == AnyLiquidity(p)
        b == AnyLiquidity(next)
    IN  IF b.base < a.base /\ b.quote > a.quote THEN "bid"
        ELSE IF b.base > a.base /\ b.quote < a.quote THEN "ask"
        ELSE Refused

\* What the pool gains and loses, as its liquidity tells.
Gain(p, next) ==
    LET a == AnyLiquidity(p)
        b == AnyLiquidity(next)
    IN  IF b.base >= a.base THEN b.base - a.base ELSE b.quote - a.quote

Loss(p, next) ==
    LET a == AnyLiquidity(p)
        b == AnyLiquidity(next)
    IN  IF a.base >= b.base THEN a.base - b.base ELSE a.quote - b.quote

AddAsset(v, native, s, n) ==
    IF s = native THEN [v EXCEPT !.ada = @ + n] ELSE [v EXCEPT ![s] = @ + n]

UpdateDatum(d, next) ==
    IF next.ver \in ClassicVer \cup {"QuadraticV1"} THEN d
    ELSE IF next.ver \in FeeSwitchVer THEN UpdateFeeSwitch(d, next.treasury)
    ELSE IF next.ver = "RoyaltyV2" THEN UpdateRoyaltyV2(d, next)
    ELSE IF next.ver \in RoyaltyVer THEN UpdateRoyalty(d, next)
    ELSE IF next.ver \in BalanceVer THEN UpdateBalance(d, next.treasury)
    ELSE IF next.ver = "QuadraticT2T" THEN UpdateQuadratic(d, next.kept)
    ELSE UpdateStable(d, next.treasury)

\* The consumed output, less the loss, plus the gain, its datum updated.
Produced(u, p, next) ==
    LET s == InputSide(p, TradeSide(p, next))
    IN  [u EXCEPT !.value = AddAsset(AddAsset(@, p.native, Other(s), -Loss(p, next)),
                                     p.native, s, Gain(p, next)),
                  !.datum = UpdateDatum(@, next)]

=============================================================================
