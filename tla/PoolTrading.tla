---------------------------- MODULE PoolTrading ----------------------------
(***************************************************************************)
(* One pool of any kind in the hands of the operator: swaps executed by    *)
(* the engine (execution_engine/instances.rs), and orders run one by one   *)
(* (try_run_order_against_pool). `pool` is the pool in memory, `utxo` the  *)
(* output that carries it on the ledger, `requests` the order UTxOs on the *)
(* ledger, `signed` the request data the key holders have signed, which    *)
(* anyone may place on the ledger again, `tx` the last transaction that    *)
(* ran an order and `ran` the signed data of all that did.                 *)
(*                                                                         *)
(* The two ways write the pool differently: a swap edits the UTxO it has   *)
(* consumed, an order writes the pool from memory (into_ledger). Both must *)
(* leave an output that reads back as the pool in memory.                  *)
(***************************************************************************)
EXTENDS AmmOrders

CONSTANTS
    Pools,          \* the pool outputs to start from, <<utxo, native, base>>
    Amounts,        \* what a taker may offer
    Prices,         \* prices <<quote, base>> a taker may ask for
    OrderTerms,     \* the unsigned orders: [kind, value, datum]
    Signatories,    \* the signed ones: [kind, value, datum without signatures, by]
    TxFee,          \* what the builder computes
    MaxSteps

VARIABLES pool, utxo, requests, signed, ran, tx, steps

Assets == {"ada", "x", "y", "lq"}

Values == [ada : Nat, x : Nat, y : Nat, lq : Nat]

\* The fields of a pool's datum that hold whole numbers, and those that hold
\* credentials and keys.
NumbersOf(ver) ==
    IF ver \in ClassicVer THEN {4}
    ELSE IF ver \in {"FeeSwitchV1", "FeeSwitchV2"} \cup BalanceVer THEN 4 .. 7
    ELSE IF ver = "FeeSwitchBiDir" THEN 4 .. 8
    ELSE IF ver = "RoyaltyV2" THEN (4 .. 13) \cup {18}
    ELSE IF ver \in RoyaltyVer THEN (4 .. 10) \cup {14}
    ELSE IF ver = "QuadraticV1" THEN {3, 4, 6}
    ELSE IF ver = "QuadraticT2T" THEN {3, 4, 6, 7}
    ELSE {1, 4, 5, 9, 10, 13, 14}

CredentialsOf(ver) ==
    IF ver = "RoyaltyV2" THEN 14 .. 17 ELSE IF ver \in RoyaltyVer THEN 11 .. 13 ELSE {}

\* An output that is read as a pool. ADA sorts first, a bonding curve has it
\* on x, and no more of its token than there is.
IsPoolOutput(u, native, base) ==
    /\ u = [ver |-> u.ver, value |-> u.value, datum |-> u.datum, stake |-> u.stake]
    /\ u.ver \in CfmmVer \cup BalanceVer \cup QuadraticVer \cup {"Stable"}
    /\ native \in Side \cup {"none"} /\ base \in Side
    /\ native \in Side => base = native
    /\ u.ver \in QuadraticVer => /\ native = IF u.ver = "QuadraticV1" THEN "x" ELSE "none"
                                /\ u.value.y <= Emission
    /\ u.value \in Values /\ u.value.lq <= MaxLqCap
    /\ native \in Side => u.value[native] = 0
    /\ \A i \in NumbersOf(u.ver) : u.datum[i] \in Nat
    /\ NumbersOf(u.ver) \cup CredentialsOf(u.ver) \subseteq DOMAIN u.datum
    /\ AnyParse(u, native, base) # Refused

\* Orders as wallets make them: a deposit brings no shares, the others
\* nothing but ADA, and a redeem its shares.
IsOrderTerms(r) ==
    /\ r.kind \in {"deposit", "redeem"}
    /\ r.value \in Values /\ r.value.ada < Word
    /\ r.datum.fee \in Nat
    /\ {"signature", "signatures"} \cap DOMAIN r.datum = {}
    /\ IF r.kind = "deposit" THEN r.value.lq = 0 /\ r.datum.collateral \in Nat
       ELSE r.value.x = 0 /\ r.value.y = 0

IsRequest(t) ==
    /\ t.kind \in {"royalty", "dao"}
    /\ t.value \in Values /\ t.value.ada < Word
    /\ \A a \in Assets \ {"ada"} : t.value[a] = 0
    /\ t.datum.fee \in Nat
    /\ Len(t.by) \in Nat
    /\ IF t.kind = "royalty" THEN t.datum.out \in [Side -> Nat]
       ELSE /\ t.datum.terms.treasury \in [Side -> Nat]
            /\ {t.datum.terms.fee, t.datum.terms.tfee} \subseteq Nat

ASSUME PoolTradingAssumption ==
    /\ Amounts \subseteq Nat \ {0}
    /\ Prices \subseteq (Nat \ {0}) \X (Nat \ {0})
    /\ TxFee \in Nat
    /\ \A c \in Pools : IsPoolOutput(c[1], c[2], c[3])
    /\ \A r \in OrderTerms : IsOrderTerms(r)
    /\ \A t \in Signatories : IsRequest(t)

tradingVars == <<pool, utxo, requests, signed, ran, tx, steps>>

-----------------------------------------------------------------------------
(* A swap, as the engine executes it.                                      *)

\* The arithmetic of the swap is defined, and of the token of a bonding
\* curve nobody offers more than the pool has sold.
SwapDefined(p, side, amount) ==
    /\ p.ver = "Stable" => StableSwapDefined(p, side, amount)
    /\ p.ver \in QuadraticVer /\ InputSide(p, side) = "y" => amount <= Supply(p)

Swap(side, amount) ==
    /\ steps < MaxSteps
    /\ AnyIsActive(pool)
    /\ SwapDefined(pool, side, amount)
    /\ \E next \in {AnySwap(pool, side, amount)} :
          /\ TradeSide(pool, next) # Refused
          /\ pool' = next
          /\ utxo' = Produced(utxo, pool, next)
    /\ steps' = steps + 1
    /\ UNCHANGED <<requests, signed, ran, tx>>

-----------------------------------------------------------------------------
(* Orders, as try_run_order_against_pool runs them.                        *)

ApplyOrder(p, o) ==
    IF o.kind = "deposit" THEN ApplyDeposit(p, o)
    ELSE IF o.kind = "redeem" THEN ApplyRedeem(p, o)
    ELSE IF o.kind = "royalty" THEN ApplyRoyaltyWithdraw(p, o)
    ELSE ApplyDaoRequest(p, o)

Sum2(v, w) == [a \in Assets |-> v[a] + w[a]]

\* An order is answered with one output, or two.
Paid(outputs) ==
    [a \in Assets |-> outputs[1][a] + (IF Len(outputs) > 1 THEN outputs[2][a] ELSE 0)]

\* The operator gets what the pool and the outputs leave of the inputs,
\* less the fee. Nothing can be built if they leave less than nothing.
Balanced(blueprint, u, orderUtxo) ==
    LET out == AnyInto(blueprint.pool, u)
        fee == IF blueprint.fee = NoFee THEN TxFee ELSE blueprint.fee
        spent == Sum2(out.value, Paid(blueprint.outputs))
        had == Sum2(u.value, orderUtxo.value)
        left == [a \in Assets |-> had[a] - spent[a] - (IF a = "ada" THEN fee ELSE 0)]
    IN  IF ~ Succeeded(blueprint) THEN blueprint
        ELSE IF \E a \in Assets : left[a] < 0 THEN Failed("insufficient")
        ELSE [pool |-> blueprint.pool, utxo |-> out, outputs |-> blueprint.outputs,
              operator |-> left, fee |-> fee]

Built(p, u, o, orderUtxo) == Balanced(ApplyOrder(p, o), u, orderUtxo)

\* Order::weight and the backlog decide which order is next; here any may be.
Run(r) ==
    /\ steps < MaxSteps
    /\ pool.ver \notin QuadraticVer
    /\ \E o \in {ParseOrder(r, pool.native)} \ {Refused} :
          \E built \in {Built(pool, utxo, o, r)} :
              /\ Succeeded(built)
              /\ pool' = built.pool
              /\ utxo' = built.utxo
              /\ tx' = [order |-> o, outputs |-> built.outputs, operator |-> built.operator,
                        fee |-> built.fee]
    /\ ran' = IF r.datum \in signed THEN Append(ran, r.datum) ELSE ran
    /\ requests' = requests \ {r}
    /\ steps' = steps + 1
    /\ UNCHANGED signed

-----------------------------------------------------------------------------
(* The users.                                                              *)

\* Orders as wallets make them: no asset that is not the pool's, and where
\* the pair has no ADA just the ADA that the deposit's datum speaks of.
Place(r) ==
    /\ requests = {}
    /\ IF pool.native # "none" THEN r.value[pool.native] = 0
       ELSE r.kind = "deposit" => r.value.ada = r.datum.fee + r.datum.collateral
    /\ requests' = {r}
    /\ UNCHANGED <<pool, utxo, signed, ran, tx, steps>>

\* A holder signs for the pool's present nonce. A request with one signer
\* is a royalty holder's, a request of the DAO has one signature per key.
Signed(t) ==
    LET royalty == [out |-> t.datum.out, fee |-> t.datum.fee, nonce |-> pool.nonce]
        dao == [action |-> t.datum.action, terms |-> t.datum.terms,
                script |-> SignedScript(pool.ver), nonce |-> pool.nonce]
    IN  IF t.kind = "royalty"
          THEN [out |-> t.datum.out, fee |-> t.datum.fee,
                signature |-> [by |-> t.by[1], data |-> royalty]]
        ELSE [action |-> t.datum.action, terms |-> t.datum.terms, fee |-> t.datum.fee,
              signatures |-> [i \in 1 .. Len(t.by) |-> [by |-> t.by[i], data |-> dao]]]

Sign(t) ==
    /\ pool.ver \in RoyaltyVer
    /\ requests = {}
    /\ Cardinality(signed) < 2
    /\ signed' = signed \cup {Signed(t)}
    /\ requests' = {[kind |-> t.kind, value |-> t.value, datum |-> Signed(t)]}
    /\ UNCHANGED <<pool, utxo, ran, tx, steps>>

\* Whatever was signed once can be put on the ledger again.
PlaceAgain(d, t) ==
    /\ requests = {}
    /\ d \in signed
    /\ ("out" \in DOMAIN d) = (t.kind = "royalty")
    /\ requests' = {[kind |-> t.kind, value |-> t.value, datum |-> d]}
    /\ UNCHANGED <<pool, utxo, signed, ran, tx, steps>>

Withdraw ==
    /\ requests # {}
    /\ requests' = {}
    /\ UNCHANGED <<pool, utxo, signed, ran, tx, steps>>

NoTx == [order |-> Refused]

TradingInit ==
    /\ \E c \in Pools :
          /\ utxo = c[1]
          /\ pool = AnyParse(c[1], c[2], c[3])
    /\ requests = {}
    /\ signed = {}
    /\ ran = <<>>
    /\ tx = NoTx
    /\ steps = 0

TradingNext ==
    \/ \E side \in {"bid", "ask"}, amount \in Amounts : Swap(side, amount)
    \/ \E r \in requests : Run(r)
    \/ \E r \in OrderTerms : Place(r)
    \/ \E t \in Signatories : Sign(t)
    \/ \E d \in signed, t \in Signatories : PlaceAgain(d, t)
    \/ Withdraw

TradingSpec == TradingInit /\ [][TradingNext]_tradingVars

-----------------------------------------------------------------------------
(* Properties.                                                             *)

PureOf(p) ==
    IF p.ver \in CfmmVer THEN Pure(p)
    ELSE IF p.ver \in QuadraticVer THEN p.res
    ELSE Minus(p.res, p.treasury)

\* The kinds whose datum is written and read at the same fields. A pool
\* with a fee per direction is written at the fields of one with one fee.
RoundTrip == (CfmmVer \ {"FeeSwitchBiDir"}) \cup BalanceVer \cup QuadraticVer \cup {"Stable"}

\* The pool in memory is what the ledger holds: reading the output a swap
\* or an order has produced gives the pool the operator goes on with. An
\* output that would be refused is one the operator would not read again.
PoolMirrorsLedger ==
    pool.ver \in RoundTrip =>
        AnyParse(utxo, pool.native, pool.base) \in {pool, Refused}

\* What is owed to the treasury and to the royalty holders is there.
OwedIsCovered == \A s \in Side : PureOf(pool)[s] >= 0 /\ PureOf(pool)[s] <= pool.res[s]

\* The curve of a pool as a number that trading never lowers.
CurveOf(p) ==
    LET pure == PureOf(p)
    IN  IF p.ver \in BalanceVer THEN pure["x"] ^ p.weight["x"] * pure["y"] ^ p.weight["y"]
        ELSE IF p.ver = "Stable" /\ pure["x"] * pure["y"] > 0 THEN Invariant(pure["x"] * p.mult["x"], pure["y"] * p.mult["y"], p.an2n)
        ELSE pure["x"] * pure["y"]

\* A stable pool pays the change of a deposit in y, even where it is x that
\* the deposit has too much of.
ChangeInWrongAsset ==
    /\ pool.ver = "Stable" /\ pool'.lq > pool.lq
    /\ LET in == NetDeposit(tx'.order)
           pure == StablePure(pool)
       IN  (in["x"] * pool.lq) \div pure["x"] > (in["y"] * pool.lq) \div pure["y"]

\* A depositor's share is never worth less: a swap does not lower the curve,
\* and a deposit or a redeem leaves as much of either asset for every share,
\* but for one unit lost to rounding. The one exception is known.
SharesKeepValue ==
    [][ pool.ver \notin QuadraticVer /\ ~ ChangeInWrongAsset =>
          IF pool'.lq = pool.lq THEN CurveOf(pool') >= CurveOf(pool)
          ELSE \A s \in Side :
                  (PureOf(pool')[s] + 1) * pool.lq >= PureOf(pool)[s] * pool'.lq ]_pool

\* The owner of an order gets everything but the fee it names: no token of
\* the pool or of the order and no ADA beyond the fee goes to the operator.
OperatorTakesOnlyFee ==
    tx # NoTx =>
        /\ \A a \in {"x", "y", "lq"} : tx.operator[a] = 0
        /\ tx.operator.ada + tx.fee <= tx.order.fee

\* What a key holder has signed once is done at most once, however often it
\* is put on the ledger.
SignedOnceRunOnce == \A i, j \in 1 .. Len(ran) : ran[i] = ran[j] => i = j

\* A bonding-curve pool can buy back every token it has sold: the curve's
\* value of the supply lies in it, beside what it may not touch.
SupplyIsBacked ==
    pool.ver \in QuadraticVer =>
        Scaled(pool.res["x"] - (IF pool.ver = "QuadraticV1" THEN MinAda ELSE pool.kept))
            >= CurveCost(pool, 0, Supply(pool))

\* Every claim on a pool's reserves can be paid out of them.
Solvent == OwedIsCovered /\ SupplyIsBacked

\* A stable swap always has an invariant to show to the validator: the
\* search for it ends. (Of a pool whose base is y the treasury's part is
\* booked on the wrong side, and there the search need not end.)
StableSwapProvable ==
    [][ pool.ver = "Stable" /\ pool.base = "x" /\ pool'.lq = pool.lq =>
          ContextValue(StablePure(pool), StablePure(pool'), pool.mult, pool.fee, pool.an2n)
              \notin {Refused, Unsettled} ]_pool

\* What a pool says is available has not been cut to leave something in it.
Uncut(p, out, a) == p.ver \in BalanceVer \/ PureOf(p)[out] - a.output > Untouchable

\* What a pool says is available at a price is worth that price, but for
\* half a unit of either amount lost to rounding, unless it is cut off; and
\* a swap of that size pays it out, but for one unit of either amount.
AvailableAtPrice ==
    pool.ver \in CfmmVer \cup BalanceVer /\ AnyIsActive(pool) =>
        \A side \in {"bid", "ask"}, worst \in Prices :
            \A a \in {AnyAvailable(pool, side, worst)} \ {Refused} :
                LET out == Other(InputSide(pool, side))
                    got == pool.res[out] - AnySwap(pool, side, a.input + 1).res[out]
                    rate == WorstRate(side, worst)
                IN  /\ got + 1 >= a.output
                    /\ Uncut(pool, out, a)
                         => (2 * a.output + 1) * rate[2] >= (2 * a.input - 1) * rate[1]

=============================================================================
