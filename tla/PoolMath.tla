------------------------------ MODULE PoolMath ------------------------------
(***************************************************************************)
(* The arithmetic every pool of the DEX shares: the constant-product       *)
(* formulas of pool_math/cfmm_math.rs and the way an amount, a side and a  *)
(* ledger value are represented.                                           *)
(*                                                                         *)
(* A pool holds two assets, on the sides "x" and "y". An amount per side   *)
(* is a function of the side, so p.res["x"] is reserves_x. `native` is the *)
(* side that holds ADA ("none" in a token-to-token pool), `base` the side  *)
(* that sorts first (order_canonical; ADA sorts before every token).       *)
(*                                                                         *)
(* Amounts are u64 in the code and intermediate products u128: no product  *)
(* wraps there. Subtractions the code does not check are subtractions of   *)
(* integers here: a negative result is what a wrapped u64 stands for.      *)
(***************************************************************************)
EXTENDS Integers, FiniteSetsExt

CONSTANTS
    FeeDen,         \* FEE_DEN, 100000
    Untouchable,    \* UNTOUCHABLE_LOVELACE_AMOUNT, 3 ADA
    MaxLqCap,       \* MAX_LQ_CAP, the LQ tokens ever minted
    MinN2T,         \* PoolValidation.min_n2t_lovelace
    MinT2T,         \* PoolValidation.min_t2t_lovelace
    Refused         \* the None of the code

ASSUME PoolMathAssumption ==
    /\ FeeDen \in Nat \ {0}
    /\ Untouchable \in Nat
    /\ MaxLqCap \in Nat
    /\ MinN2T \in Nat
    /\ MinT2T \in Nat

Side == {"x", "y"}

Other(s) == IF s = "x" THEN "y" ELSE "x"

Least(a, b) == IF a <= b THEN a ELSE b

\* Both sides of a pair, as an amount per side.
Pair(x, y) == [s \in Side |-> IF s = "x" THEN x ELSE y]

Plus(a, b) == [s \in Side |-> a[s] + b[s]]

Minus(a, b) == [s \in Side |-> a[s] - b[s]]

Zero == Pair(0, 0)

AddOn(a, s, n) == [a EXCEPT ![s] = @ + n]

\* The side a taker's input goes to: a bid pays quote for base.
InputSide(p, side) == IF side = "bid" THEN Other(p.base) ELSE p.base

\* BigNumber::to_int rounds a half away from zero; Refused below zero.
Rounded(n, d) == IF 2 * n + d <= 0 THEN Refused ELSE (2 * n + d) \div (2 * d)

-----------------------------------------------------------------------------
(* Ledger values. ADA is held apart; the ADA side of a pair lies there, and *)
(* a pool of two tokens keeps the ADA of the UTxO it was read from.        *)

AmountOf(v, native, s) == IF s = native THEN v.ada ELSE v[s]

MadeOf(native, ada, pair, lq) ==
    [ada |-> IF native = "none" THEN ada ELSE ada + pair[native],
     x   |-> IF native = "x" THEN 0 ELSE pair["x"],
     y   |-> IF native = "y" THEN 0 ELSE pair["y"],
     lq  |-> lq]

Reserves(u, native) == [s \in Side |-> AmountOf(u.value, native, s)]

PooledValue(p, u) ==
    MadeOf(p.native, IF p.native = "none" THEN u.value.ada ELSE 0, p.res, MaxLqCap - p.lq)

-----------------------------------------------------------------------------
(* The constant-product formulas. `res` are the tradable reserves, `fee`   *)
(* the fee of the input side, as the part of FeeDen that is traded.        *)

ClassicOutput(res, native, fee, s, amount) ==
    LET out == Other(s)
        quote == (res[out] * amount * fee) \div (res[s] * FeeDen + amount * fee)
    IN  IF native = out /\ res[out] - quote < Untouchable
          THEN res[out] - Untouchable
          ELSE quote

\* Mutant: the shares of the asset that earns more.
RewardByMore(res, lq, in) ==
    IF res["x"] = 0 \/ res["y"] = 0 \/ lq = 0 THEN Refused
    ELSE LET by == [s \in Side |-> (in[s] * lq) \div res[s]]
         IN  [lq |-> IF by["x"] > by["y"] THEN by["x"] ELSE by["y"], change |-> Zero]

\* The shares a deposit of `in` earns, and the change it gets back.
ClassicReward(res, lq, in) ==
    IF res["x"] = 0 \/ res["y"] = 0 THEN Refused
    ELSE LET by == [s \in Side |-> (in[s] * lq) \div res[s]]
             unlocked == Least(by["x"], by["y"])
         IN  IF by["x"] # by["y"] /\ lq = 0 THEN Refused
             ELSE [lq |-> unlocked,
                   change |-> [s \in Side |->
                       IF by[s] > unlocked THEN ((by[s] - unlocked) * res[s]) \div lq ELSE 0]]

\* What burning `burned` shares pays out.
ClassicShares(res, lq, burned) ==
    IF lq = 0 THEN Refused
    ELSE [s \in Side |-> (burned * res[s]) \div lq]

-----------------------------------------------------------------------------
(* Applying a deposit or a redeem: the pool answers with a reward or with  *)
(* shares, and moves its reserves by them with checked arithmetic.         *)

Deposited(p, in, reward) ==
    IF reward = Refused \/ \E s \in Side : p.res[s] + in[s] < reward.change[s] THEN Refused
    ELSE [pool |-> [p EXCEPT !.res = Minus(Plus(@, in), reward.change), !.lq = @ + reward.lq],
          lq |-> reward.lq, change |-> reward.change]

Redeemed(p, burned, shares) ==
    IF shares = Refused \/ (\E s \in Side : shares[s] > p.res[s]) \/ burned > p.lq THEN Refused
    ELSE [pool |-> [p EXCEPT !.res = Minus(@, shares), !.lq = @ - burned], paid |-> shares]

-----------------------------------------------------------------------------
(* The curves without a closed form are searched for the trade whose       *)
(* average price is the worst one the taker accepts: the largest input d   *)
(* whose output, fee/FeeDen of curve[d], is still worth <<num, den>> per   *)
(* unit. The domain of the curve bounds the search. The code runs Newton's *)
(* method to the same point, within one unit.                              *)

LargestTrade(curve, fee, num, den) ==
    LET fits == {d \in DOMAIN curve : curve[d] * fee * den >= num * d * FeeDen}
    IN  IF fits = {} THEN Refused ELSE Max(fits)

\* A price <<quote, base>> as output over input for a taker on `side`.
WorstRate(side, worst) == IF side = "bid" THEN <<worst[2], worst[1]>> ELSE worst

=============================================================================
