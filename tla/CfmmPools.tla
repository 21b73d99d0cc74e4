----------------------------- MODULE CfmmPools -----------------------------
(***************************************************************************)
(* The constant-product pools: classic, fee switch (with one LP fee or one *)
(* per direction) and royalty, as data/cfmm_pool.rs dispatches over them.  *)
(*                                                                         *)
(* A pool in memory is one record for all three, as every version keeps    *)
(* some of the same parts: `res` the reserves that lie in the UTxO,        *)
(* `treasury`, `first` and `second` the parts of the reserves owed to the  *)
(* treasury and to the two royalty holders (zero where a version has       *)
(* none), `fee` the LP fee per input side, `tfee`, `fee1`, `fee2` what is   *)
(* set aside of it. A UTxO is [ver, value, datum, stake]; a datum maps     *)
(* field numbers to contents. Identity, assets and scripts are constant    *)
(* for a pool and are not repeated in its record, but for `native` and     *)
(* `base`.                                                                 *)
(***************************************************************************)
EXTENDS PoolMath, Sequences, TLC

CONSTANTS
    LegacyFeeMult,  \* LEGACY_FEE_NUM_MULTIPLIER: legacy fees have another scale
    Word,           \* 2^64, the width of the fee products of a swap
    NoStake,        \* the address has no script as stake credential
    NoKey           \* the all-zero second key of a V1 royalty pool

ASSUME CfmmPoolsAssumption ==
    /\ LegacyFeeMult \in Nat
    /\ Word \in Nat \ {0}

ClassicVer == {"ConstFnV1", "ConstFnV2"}
FeeSwitchVer == {"FeeSwitchV1", "FeeSwitchV2", "FeeSwitchBiDir"}
RoyaltyVer == {"RoyaltyV1", "RoyaltyV1LedgerFixed", "RoyaltyV2"}
CfmmVer == ClassicVer \cup FeeSwitchVer \cup RoyaltyVer

-----------------------------------------------------------------------------
\* The part of a pool all versions parse alike.
Parsed(u, native, base) ==
    [ver |-> u.ver, native |-> native, base |-> base,
     res |-> Reserves(u, native), lq |-> MaxLqCap - u.value.lq, stake |-> u.stake,
     treasury |-> Zero, first |-> Zero, second |-> Zero,
     fee |-> Zero, tfee |-> 0, fee1 |-> 0, fee2 |-> 0, nonce |-> 0, bound |-> 0,
     admin |-> NoKey, treasuryAddress |-> NoKey, key1 |-> NoKey, key2 |-> NoKey]

Optional(datum, i) == IF i \in DOMAIN datum THEN datum[i] ELSE 0

\* What is left of the reserves once everything owed is set aside.
Pure(p) == Minus(Minus(Minus(p.res, p.treasury), p.first), p.second)

\* The checks every pool with a treasury runs on what it has read. The
\* subtraction of the reserves that are owed comes before `enough_reserves`.
Accepted(p, u) ==
    /\ \A s \in Side : Pure(p)[s] > 0
    /\ p.native # "none" \/ MinT2T <= u.value.ada
    /\ \A s \in Side : p.res[s] > p.treasury[s] + p.first[s] + p.second[s]

-----------------------------------------------------------------------------
(* Reading a pool off the ledger.                                          *)

LegacyConfig(d) == [fee |-> d[4], bound |-> Optional(d, 6)]

ParseClassic(u, native, base) ==
    LET conf == LegacyConfig(u.datum)
    IN  [Parsed(u, native, base) EXCEPT
            !.bound = conf.bound, !.fee = Pair(conf.fee * LegacyFeeMult, conf.fee * LegacyFeeMult)]

FeeSwitchConfig(d) ==
    [fee |-> Pair(d[4], d[4]), tfee |-> d[5], treasury |-> Pair(d[6], d[7]),
     bound |-> Optional(d, 9)]

BiDirConfig(d) ==
    [fee |-> Pair(d[4], d[5]), tfee |-> d[6], treasury |-> Pair(d[7], d[8]),
     bound |-> Optional(d, 10)]

ParseFeeSwitch(u, native, base) ==
    LET conf == IF u.ver = "FeeSwitchBiDir" THEN BiDirConfig(u.datum) ELSE FeeSwitchConfig(u.datum)
        p == [Parsed(u, native, base) EXCEPT
                 !.fee = conf.fee, !.tfee = conf.tfee, !.treasury = conf.treasury,
                 !.bound = conf.bound]
    IN  IF Accepted(p, u) THEN p ELSE Refused

\* Of the admin credentials only the first is read.
RoyaltyConfig(d) ==
    [fee |-> d[4], tfee |-> d[5], fee1 |-> d[6], fee2 |-> 0, treasury |-> Pair(d[7], d[8]),
     first |-> Pair(d[9], d[10]), second |-> Zero, admin |-> Head(d[11]),
     treasuryAddress |-> d[12], key1 |-> d[13], key2 |-> NoKey, nonce |-> d[14]]

RoyaltyV2Config(d) ==
    [fee |-> d[4], tfee |-> d[5], fee1 |-> d[6], fee2 |-> d[7], treasury |-> Pair(d[8], d[9]),
     first |-> Pair(d[10], d[11]), second |-> Pair(d[12], d[13]), admin |-> Head(d[14]),
     treasuryAddress |-> d[15], key1 |-> d[16], key2 |-> d[17], nonce |-> d[18]]

ParseRoyalty(u, native, base) ==
    LET conf == IF u.ver = "RoyaltyV2" THEN RoyaltyV2Config(u.datum) ELSE RoyaltyConfig(u.datum)
        p == [Parsed(u, native, base) EXCEPT
                 !.fee = Pair(conf.fee, conf.fee), !.tfee = conf.tfee,
                 !.fee1 = conf.fee1, !.fee2 = conf.fee2, !.treasury = conf.treasury,
                 !.first = conf.first, !.second = conf.second, !.admin = conf.admin,
                 !.treasuryAddress = conf.treasuryAddress,
                 !.key1 = conf.key1, !.key2 = conf.key2, !.nonce = conf.nonce]
    IN  IF Accepted(p, u) THEN p ELSE Refused

ParseCfmm(u, native, base) ==
    IF u.ver \in ClassicVer THEN ParseClassic(u, native, base)
    ELSE IF u.ver \in FeeSwitchVer THEN ParseFeeSwitch(u, native, base)
    ELSE ParseRoyalty(u, native, base)

-----------------------------------------------------------------------------
(* Writing a pool back to the ledger. `u` is the UTxO it was read from: a  *)
(* pool without a stake script keeps the address's.                        *)

Staked(p, u) == IF p.stake = NoStake THEN u.stake ELSE p.stake

IntoClassic(p, u) == [u EXCEPT !.value = PooledValue(p, u), !.stake = Staked(p, u)]

UpdateFeeSwitch(d, treasury) == [d EXCEPT ![6] = treasury["x"], ![7] = treasury["y"]]

IntoFeeSwitch(p, u) ==
    [IntoClassic(p, u) EXCEPT !.datum = UpdateFeeSwitch(u.datum, p.treasury)]

UpdateRoyalty(d, p) ==
    [d EXCEPT ![4] = p.fee["x"], ![5] = p.tfee, ![6] = p.fee1,
              ![7] = p.treasury["x"], ![8] = p.treasury["y"],
              ![9] = p.first["x"], ![10] = p.first["y"],
              ![11] = <<p.admin>>, ![12] = p.treasuryAddress, ![14] = p.nonce]

\* Mutant: as if a V2 pool had the one royalty of a V1 pool.
UpdateRoyaltyV2Once(d, p) ==
    [d EXCEPT ![4] = p.fee["x"], ![5] = p.tfee, ![6] = p.fee1, ![7] = p.fee2,
              ![8] = p.treasury["x"], ![9] = p.treasury["y"],
              ![10] = p.first["x"], ![11] = p.first["y"],
              ![14] = <<p.admin>>, ![15] = p.treasuryAddress, ![18] = p.nonce]

UpdateRoyaltyV2(d, p) ==
    [d EXCEPT ![4] = p.fee["x"], ![5] = p.tfee, ![6] = p.fee1, ![7] = p.fee2,
              ![8] = p.treasury["x"], ![9] = p.treasury["y"],
              ![10] = p.first["x"], ![11] = p.first["y"],
              ![12] = p.second["x"], ![13] = p.second["y"],
              ![14] = <<p.admin>>, ![15] = p.treasuryAddress, ![18] = p.nonce]

IntoRoyalty(p, u) ==
    [IntoClassic(p, u) EXCEPT !.datum =
        IF p.ver = "RoyaltyV2" THEN UpdateRoyaltyV2(@, p) ELSE UpdateRoyalty(@, p)]

IntoCfmm(p, u) ==
    IF p.ver \in ClassicVer THEN IntoClassic(p, u)
    ELSE IF p.ver \in FeeSwitchVer THEN IntoFeeSwitch(p, u)
    ELSE IntoRoyalty(p, u)

-----------------------------------------------------------------------------
(* Trading. Every version prices by the same formulas, over its own        *)
(* tradable reserves and fee.                                              *)

ClassicAmm(p) == [res |-> p.res, fee |-> p.fee]

FeeSwitchAmm(p) ==
    [res |-> Minus(p.res, p.treasury), fee |-> Minus(p.fee, Pair(p.tfee, p.tfee))]

RoyaltyAmm(p) ==
    LET aside == p.tfee + p.fee1 + p.fee2
    IN  [res |-> Pure(p), fee |-> Minus(p.fee, Pair(aside, aside))]

CfmmAmm(p) ==
    IF p.ver \in ClassicVer THEN ClassicAmm(p)
    ELSE IF p.ver \in FeeSwitchVer THEN FeeSwitchAmm(p)
    ELSE RoyaltyAmm(p)

CfmmOutput(p, s, amount) ==
    ClassicOutput(CfmmAmm(p).res, p.native, CfmmAmm(p).fee[s], s, amount)

\* The share of a swap's input that is set aside: a u64 product.
SetAside(amount, fee) == ((amount * fee) % Word) \div FeeDen

ClassicSwap(p, side, amount) ==
    LET s == InputSide(p, side)
        out == CfmmOutput(p, s, amount)
    IN  [p EXCEPT !.res = AddOn(AddOn(@, s, amount), Other(s), -out)]

FeeSwitchSwap(p, side, amount) ==
    [ClassicSwap(p, side, amount) EXCEPT
        !.treasury = AddOn(@, InputSide(p, side), SetAside(amount, p.tfee))]

RoyaltySwap(p, side, amount) ==
    LET s == InputSide(p, side)
    IN  [FeeSwitchSwap(p, side, amount) EXCEPT
            !.first = AddOn(@, s, SetAside(amount, p.fee1)),
            !.second = AddOn(@, s, SetAside(amount, p.fee2))]

CfmmSwap(p, side, amount) ==
    IF p.ver \in ClassicVer THEN ClassicSwap(p, side, amount)
    ELSE IF p.ver \in FeeSwitchVer THEN FeeSwitchSwap(p, side, amount)
    ELSE RoyaltySwap(p, side, amount)

-----------------------------------------------------------------------------
(* What the order book asks a pool. A price is a pair <<quote, base>>.     *)

SpotOf(res, base) ==
    IF res["x"] = res["y"] THEN <<1, 1>> ELSE <<res[Other(base)], res[base]>>

ClassicStaticPrice(p) == SpotOf(p.res, p.base)
FeeSwitchStaticPrice(p) == SpotOf(Minus(p.res, p.treasury), p.base)
RoyaltyStaticPrice(p) == SpotOf(Pure(p), p.base)

CfmmStaticPrice(p) ==
    IF p.ver \in ClassicVer THEN ClassicStaticPrice(p)
    ELSE IF p.ver \in FeeSwitchVer THEN FeeSwitchStaticPrice(p)
    ELSE RoyaltyStaticPrice(p)

\* The bounds look at everything in the UTxO, what is owed included.
IsActive(p) ==
    /\ p.res["x"] * 2 >= p.bound
    /\ p.native # "none" => p.res[p.native] >= MinN2T

ClassicIsActive(p) == IsActive(p)
FeeSwitchIsActive(p) == IsActive(p)
RoyaltyIsActive(p) == IsActive(p)

CfmmIsActive(p) ==
    IF p.ver \in ClassicVer THEN ClassicIsActive(p)
    ELSE IF p.ver \in FeeSwitchVer THEN FeeSwitchIsActive(p)
    ELSE RoyaltyIsActive(p)

\* Mutant: the fee is left out of the price.
AvailableFeeFree(res, fee, s, side, worst) ==
    LET num == IF side = "bid" THEN worst[2] ELSE worst[1]
        den == IF side = "bid" THEN worst[1] ELSE worst[2]
        gain == (res[Other(s)] * den - res[s] * num) * FeeDen
        input == Rounded(gain, num * FeeDen)
        output == Rounded(gain, den * FeeDen)
    IN  IF input = Refused \/ output = Refused THEN Refused
        ELSE [input |-> input, output |-> output]

\* How much can be traded before the average price of the trade falls to
\* `worst`, by the closed form of the constant-product curve. The cap is
\* applied to tokens as well.
Available(res, fee, s, side, worst) ==
    LET in == res[s]
        out == res[Other(s)]
        num == IF side = "bid" THEN worst[2] ELSE worst[1]
        den == IF side = "bid" THEN worst[1] ELSE worst[2]
        gain == out * fee * den - in * FeeDen * num
        input == Rounded(gain, num * fee)
        output == Rounded(gain, den * fee)
    IN  IF input = Refused \/ output = Refused THEN Refused
        ELSE IF out - output > Untouchable THEN [input |-> input, output |-> output]
        ELSE IF out < Untouchable THEN Refused
        ELSE [input |-> input, output |-> out - Untouchable]

ClassicAvailable(p, side, worst) ==
    Available(p.res, p.fee[InputSide(p, side)], InputSide(p, side), side, worst)

FeeSwitchAvailable(p, side, worst) ==
    IF \E s \in Side : p.fee[s] < p.tfee THEN Refused
    ELSE Available(FeeSwitchAmm(p).res, FeeSwitchAmm(p).fee[InputSide(p, side)],
                   InputSide(p, side), side, worst)

RoyaltyAvailable(p, side, worst) ==
    IF RoyaltyAmm(p).fee["x"] < 0 THEN Refused
    ELSE Available(Pure(p), RoyaltyAmm(p).fee["x"], InputSide(p, side), side, worst)

CfmmAvailable(p, side, worst) ==
    IF p.ver \in ClassicVer THEN ClassicAvailable(p, side, worst)
    ELSE IF p.ver \in FeeSwitchVer THEN FeeSwitchAvailable(p, side, worst)
    ELSE RoyaltyAvailable(p, side, worst)

\* The price of a trade of `amount`: quote over base, whichever is paid in.
ClassicRealPrice(p, side, amount) ==
    LET out == CfmmOutput(p, InputSide(p, side), amount)
    IN  IF side = "bid" THEN <<amount, out>> ELSE <<out, amount>>

FeeSwitchRealPrice(p, side, amount) == ClassicRealPrice(p, side, amount)
RoyaltyRealPrice(p, side, amount) == ClassicRealPrice(p, side, amount)

ClassicEstimate(p, side, amount) ==
    [input |-> amount, output |-> CfmmOutput(p, InputSide(p, side), amount)]

FeeSwitchEstimate(p, side, amount) == ClassicEstimate(p, side, amount)
RoyaltyEstimate(p, side, amount) == ClassicEstimate(p, side, amount)

ClassicLiquidity(p) == [base |-> p.res[p.base], quote |-> p.res[Other(p.base)]]
FeeSwitchLiquidity(p) == ClassicLiquidity(p)
RoyaltyLiquidity(p) == ClassicLiquidity(p)

-----------------------------------------------------------------------------

CfmmDeposit(p, in) == Deposited(p, in, ClassicReward(CfmmAmm(p).res, p.lq, in))

\* Mutant: shares of everything in the UTxO.
CfmmRedeemAll(p, burned) == Redeemed(p, burned, ClassicShares(p.res, p.lq, burned))

CfmmRedeem(p, burned) == Redeemed(p, burned, ClassicShares(CfmmAmm(p).res, p.lq, burned))

=============================================================================
