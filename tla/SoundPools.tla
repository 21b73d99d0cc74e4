----------------------------- MODULE SoundPools -----------------------------
(***************************************************************************)
(* The invariant of PoolTrading, as an inductive one: of each kind of pool *)
(* what makes it sound, what its output on the ledger says of it, and what *)
(* the orders on the ledger are like. A stable pool is left out, as it     *)
(* trades by a search whose end TLC alone can look at.                     *)
(***************************************************************************)
EXTENDS PoolTrading

\* A pool of constant product: numbers where there should be numbers, and
\* nothing owed where the version owes nothing.
CfmmFields ==
    {"ver", "native", "base", "res", "lq", "stake", "treasury", "first", "second", "fee",
     "tfee", "fee1", "fee2", "nonce", "bound", "admin", "treasuryAddress", "key1", "key2"}

CfmmTyped(p) ==
    /\ p = [f \in CfmmFields |-> p[f]]
    /\ p.ver \in CfmmVer /\ p.native \in Side \cup {"none"} /\ p.base \in Side
    /\ p.res \in [Side -> Nat] /\ p.treasury \in [Side -> Nat]
    /\ p.first \in [Side -> Nat] /\ p.second \in [Side -> Nat] /\ p.fee \in [Side -> Nat]
    /\ p.lq \in Nat /\ p.tfee \in Nat /\ p.fee1 \in Nat /\ p.fee2 \in Nat /\ p.nonce \in Nat
    /\ p.ver \in ClassicVer => p.treasury = Zero /\ p.tfee = 0
    /\ p.ver \notin RoyaltyVer => p.first = Zero /\ p.fee1 = 0
    /\ p.ver # "RoyaltyV2" => p.second = Zero /\ p.fee2 = 0
    /\ p.ver \in RoyaltyVer => p.fee["x"] = p.fee["y"]

\* What is owed of the reserves lies in them.
Covered(p) == \A s \in Side : p.treasury[s] + p.first[s] + p.second[s] <= p.res[s]

CfmmPool(p) == CfmmTyped(p) /\ Covered(p)

\* Of a fee more is traded than set aside, and it is not more than all.
AsideOf(p) == IF p.ver \in CfmmVer THEN p.tfee + p.fee1 + p.fee2 ELSE p.tfee

FeeFits(p) == \A s \in Side : AsideOf(p) < p.fee[s] /\ p.fee[s] <= FeeDen

\* A weighted pool, likewise.
BalanceFields ==
    {"ver", "native", "base", "res", "lq", "weight", "fee", "tfee", "treasury"}

BalancePool(p) ==
    /\ p = [f \in BalanceFields |-> p[f]]
    /\ p.ver \in BalanceVer /\ p.native \in Side \cup {"none"} /\ p.base \in Side
    /\ p.res \in [Side -> Nat] /\ p.treasury \in [Side -> Nat] /\ p.fee \in [Side -> Nat]
    /\ p.lq \in Nat /\ p.tfee \in Nat
    /\ p.weight = Pair(AdaWeight, TokenWeight)
    /\ \A s \in Side : p.treasury[s] <= p.res[s]

\* A bonding curve, with no more of its token than there is.
QuadraticFields ==
    {"ver", "native", "base", "res", "lq", "aNum", "bNum", "cap", "kept", "parts"}

\* What a bonding curve may not spend, and that the rest buys back what it
\* has sold.
LockedOf(p) == IF p.ver = "QuadraticV1" THEN MinAda ELSE p.kept

QuadraticTyped(p) ==
    /\ p = [f \in QuadraticFields |-> p[f]]
    /\ p.ver \in QuadraticVer /\ p.base \in Side
    /\ p.native = (IF p.ver = "QuadraticV1" THEN "x" ELSE "none")
    /\ p.ver = "QuadraticV1" => p.base = "x" /\ p.kept = 0
    /\ p.res \in [Side -> Nat] /\ p.res["y"] <= Emission
    /\ p.lq = MaxLqCap /\ p.aNum \in Nat /\ p.bNum \in Nat /\ p.cap \in Nat /\ p.kept \in Nat
    /\ p.parts = (IF p.ver = "QuadraticV1" THEN 0 ELSE 1)

Backed(p) == Scaled(p.res["x"] - LockedOf(p)) >= CurveCost(p, 0, Supply(p))

QuadraticPool(p) == QuadraticTyped(p) /\ Backed(p)

\* Any pool but a stable one.
PoolOk(p) ==
    \/ p.ver \in CfmmVer /\ CfmmPool(p)
    \/ p.ver \in BalanceVer /\ BalancePool(p)
    \/ p.ver \in QuadraticVer /\ QuadraticPool(p)

\* The value of a pool's output says what its reserves are.
IsValue(v) ==
    /\ v = [ada |-> v.ada, x |-> v.x, y |-> v.y, lq |-> v.lq]
    /\ v.ada \in Int /\ v.x \in Int /\ v.y \in Int /\ v.lq \in Int

ValueHolds(p, v) ==
    /\ IsValue(v)
    /\ \A s \in Side : AmountOf(v, p.native, s) = p.res[s]
    /\ p.native \in Side => v[p.native] = 0
    /\ p.native = "none" => v.ada \in Nat
    /\ p.ver \notin QuadraticVer => v.lq = MaxLqCap - p.lq

\* The datum of a pool's output says the same as the pool in memory, for
\* the versions that write the fields they read.
LegacyHolds(p, d) ==
    p.bound = Optional(d, 6) /\ p.fee = Pair(d[4] * LegacyFeeMult, d[4] * LegacyFeeMult)

FeeSwitchHolds(p, d) ==
    /\ p.fee = Pair(d[4], d[4]) /\ p.tfee = d[5]
    /\ p.treasury = Pair(d[6], d[7]) /\ p.bound = Optional(d, 9)

RoyaltyHolds(p, d) ==
    /\ p.fee = Pair(d[4], d[4]) /\ p.tfee = d[5] /\ p.fee1 = d[6]
    /\ p.treasury = Pair(d[7], d[8]) /\ p.first = Pair(d[9], d[10])
    /\ p.admin = Head(d[11]) /\ p.treasuryAddress = d[12] /\ p.key1 = d[13] /\ p.nonce = d[14]

RoyaltyV2Holds(p, d) ==
    /\ p.fee = Pair(d[4], d[4]) /\ p.tfee = d[5] /\ p.fee1 = d[6] /\ p.fee2 = d[7]
    /\ p.treasury = Pair(d[8], d[9]) /\ p.first = Pair(d[10], d[11])
    /\ p.second = Pair(d[12], d[13])
    /\ p.admin = Head(d[14]) /\ p.treasuryAddress = d[15]
    /\ p.key1 = d[16] /\ p.key2 = d[17] /\ p.nonce = d[18]

\* What a version has no field for.
Blank(p) ==
    /\ p.ver \notin RoyaltyVer =>
          p.nonce = 0 /\ p.admin = NoKey /\ p.treasuryAddress = NoKey /\ p.key1 = NoKey
    /\ p.ver # "RoyaltyV2" => p.key2 = NoKey
    /\ p.ver \in RoyaltyVer => p.bound = 0

CfmmHolds(p, u) ==
    /\ p.stake = u.stake /\ Blank(p)
    /\ p.ver \in ClassicVer => LegacyHolds(p, u.datum)
    /\ p.ver \in FeeSwitchVer => FeeSwitchHolds(p, u.datum)
    /\ p.ver \in RoyaltyVer /\ p.ver # "RoyaltyV2" => RoyaltyHolds(p, u.datum)
    /\ p.ver = "RoyaltyV2" => RoyaltyV2Holds(p, u.datum)

BalanceHolds(p, d) ==
    p.fee = Pair(d[4], d[4]) /\ p.tfee = d[5] /\ p.treasury = Pair(d[6], d[7])

QuadraticHolds(p, d) ==
    /\ p.aNum = d[3] /\ p.bNum = d[4] /\ p.cap = d[6]
    /\ p.ver = "QuadraticT2T" => p.kept = d[7]

DatumHolds(p, u) ==
    /\ p.ver \in CfmmVer => CfmmHolds(p, u)
    /\ p.ver \in BalanceVer => BalanceHolds(p, u.datum)
    /\ p.ver \in QuadraticVer => QuadraticHolds(p, u.datum)

\* The fields that are written or read.
Written(ver) == NumbersOf(ver) \cup CredentialsOf(ver)

\* Every request of the DAO names the stake credential. (One that names none
\* would leave the address with the one it had.)
StakeNamed == \A t \in Signatories : t.kind = "dao" => t.datum.terms.stake # NoStake

\* An order on the ledger, as wallets and key holders make them.
OrderOk(r, native) ==
    /\ r.kind \in {"deposit", "redeem", "royalty", "dao"}
    /\ r.value \in Values /\ r.value.ada < Word /\ r.datum.fee \in Nat
    /\ native \in Side => r.value[native] = 0
    /\ r.kind = "deposit" =>
          /\ r.value.lq = 0 /\ r.datum.collateral \in Nat
          /\ native = "none" => r.value.ada = r.datum.fee + r.datum.collateral
    /\ r.kind # "deposit" => r.value.x = 0 /\ r.value.y = 0
    /\ r.kind \in {"royalty", "dao"} => r.value.lq = 0
    /\ r.kind = "royalty" => r.datum.out \in [Side -> Nat]
    /\ r.kind = "dao" =>
          /\ r.datum.terms.treasury \in [Side -> Nat]
          /\ r.datum.terms.fee \in Nat /\ r.datum.terms.tfee \in Nat
          /\ StakeNamed => r.datum.terms.stake # NoStake

\* Whatever the DAO sets, the fees of the pool make sense.
FeesFit == pool.ver \in CfmmVer \cup BalanceVer => FeeFits(pool)

\* An output of the pool's version.
OutputOk(u, p) ==
    u = [ver |-> u.ver, value |-> u.value, datum |-> u.datum, stake |-> u.stake] /\ u.ver = p.ver

\* What a key holder has signed.
SignedOk(d) ==
    /\ d.fee \in Nat
    /\ "out" \in DOMAIN d => d.out \in [Side -> Nat]
    /\ "out" \notin DOMAIN d =>
          /\ d.terms.treasury \in [Side -> Nat] /\ d.terms.fee \in Nat /\ d.terms.tfee \in Nat
          /\ StakeNamed => d.terms.stake # NoStake

\* Where a pool is read as it is written, its datum holds it.
Mirrored(p, u) ==
    p.ver \in RoundTrip /\ StakeNamed => DatumHolds(p, u) /\ Written(p.ver) \subseteq DOMAIN u.datum

-----------------------------------------------------------------------------
(* The invariant.                                                          *)
PoolInv == PoolOk(pool) /\ ValueHolds(pool, utxo.value) /\ OutputOk(utxo, pool) /\ Mirrored(pool, utxo)

OrdersInv ==
    /\ \A r \in requests : OrderOk(r, pool.native)
    /\ \A d \in signed : SignedOk(d)

TradingInv == PoolInv /\ OrdersInv /\ OperatorTakesOnlyFee

=============================================================================
