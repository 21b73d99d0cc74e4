----------------------------- MODULE AmmOrders -----------------------------
(***************************************************************************)
(* The orders the operator runs against a pool one by one: deposits,       *)
(* redeems, withdrawals of a royalty and requests of the DAO, as they are  *)
(* read off the ledger (deposit.rs, redeem.rs, royalty_withdraw_request.rs,*)
(* dao_request.rs) and applied to a pool.                                  *)
(*                                                                         *)
(* An order UTxO is [kind, value, datum]. Applying an order to a pool      *)
(* gives a blueprint [pool, outputs, fee]: the pool after it, the values   *)
(* of the outputs for the order's owner, and a transaction fee, or NoFee   *)
(* when the builder computes one. "incompatible" and "unverified" are the  *)
(* two ApplyOrderErrors.                                                   *)
(*                                                                         *)
(* A signature is [by, data], the key and what it has signed; whether the  *)
(* data were hashed first makes no difference here. Ada amounts are u64    *)
(* and some subtractions of them are unchecked: those wrap at Word.        *)
(***************************************************************************)
EXTENDS AnyPool, FiniteSets

CONSTANTS
    MinCollateral,  \* the least ADA an order's output keeps (*OrderValidation)
    DaoKeys,        \* DAOContext.public_keys, a sequence
    DaoThreshold,   \* DAOContext.signature_threshold
    DaoFee,         \* DAOContext.execution_fee
    RoyaltyFee,     \* RoyaltyWithdrawContext.transaction_fee
    NoFee

ASSUME AmmOrdersAssumption ==
    /\ MinCollateral \in Nat
    /\ DaoThreshold \in Nat
    /\ DaoFee \in Nat
    /\ RoyaltyFee \in Nat

Failed(why) == [failed |-> why]

Succeeded(result) == "failed" \notin DOMAIN result

-----------------------------------------------------------------------------
(* Reading an order.                                                       *)

Wrapped(n) == n % Word

\* The collateral is what the datum says; the amounts are all there is.
ParseDeposit(u, native) ==
    IF u.datum.collateral >= MinCollateral
      THEN [kind |-> "deposit", in |-> Reserves(u, native), native |-> native,
            fee |-> u.datum.fee, collateral |-> u.datum.collateral]
      ELSE Refused

\* The collateral is what the fee leaves of the ADA, unchecked.
ParseRedeem(u) ==
    LET collateral == Wrapped(u.value.ada - u.datum.fee)
    IN  IF u.value.lq > 0 /\ collateral >= MinCollateral
          THEN [kind |-> "redeem", burned |-> u.value.lq, fee |-> u.datum.fee,
                collateral |-> collateral]
          ELSE Refused

ParseRoyaltyWithdraw(u) ==
    IF Wrapped(u.value.ada - u.datum.fee) >= MinCollateral
      THEN [kind |-> "royalty", out |-> u.datum.out, fee |-> u.datum.fee,
            ada |-> u.value.ada, signature |-> u.datum.signature]
      ELSE Refused

ParseDaoRequest(u) ==
    IF u.value.ada >= u.datum.fee /\ u.value.ada - u.datum.fee >= MinCollateral
      THEN [kind |-> "dao", action |-> u.datum.action, terms |-> u.datum.terms,
            signatures |-> u.datum.signatures, fee |-> u.datum.fee, ada |-> u.value.ada]
      ELSE Refused

\* Each kind lies at script addresses of its own, tried one after another.
ParseOrder(u, native) ==
    IF u.kind = "deposit" THEN ParseDeposit(u, native)
    ELSE IF u.kind = "redeem" THEN ParseRedeem(u)
    ELSE IF u.kind = "royalty" THEN ParseRoyaltyWithdraw(u)
    ELSE ParseDaoRequest(u)

-----------------------------------------------------------------------------
(* Deposit and redeem.                                                     *)

\* Mutant: the fee is taken off and left in the collateral's place, too.
NetDepositTwice(o) ==
    [s \in Side |-> IF s = o.native THEN o.in[s] - 2 * o.fee - o.collateral ELSE o.in[s]]

\* The fee and the collateral come off the ADA side, where there is one.
NetDeposit(o) ==
    [s \in Side |-> IF s = o.native THEN o.in[s] - o.fee - o.collateral ELSE o.in[s]]

ApplyDeposit(p, o) ==
    LET in == NetDeposit(o)
        result == AnyDeposit(p, in)
    IN  IF (\E s \in Side : in[s] < 0) \/ result = Refused THEN Failed("incompatible")
        ELSE [pool |-> result.pool, fee |-> NoFee,
              outputs |-> <<MadeOf(p.native, o.collateral, result.change, result.lq)>>]

ApplyRedeem(p, o) ==
    LET result == AnyRedeem(p, o.burned)
    IN  IF result = Refused THEN Failed("incompatible")
        ELSE [pool |-> result.pool, fee |-> NoFee,
              outputs |-> <<MadeOf(p.native, o.collateral, result.paid, 0)>>]

-----------------------------------------------------------------------------
(* A royalty holder's withdrawal. What is signed names the amounts, the    *)
(* fee and the pool's nonce.                                               *)

RoyaltyDataToSign(o, nonce) == [out |-> o.out, fee |-> o.fee, nonce |-> nonce]

SignedBy(key, signature, data) == signature.by = key /\ signature.data = data

\* Which of the pool's royalties the signer may draw on.
RoyaltyOf(p, o) ==
    LET data == RoyaltyDataToSign(o, p.nonce)
    IN  IF SignedBy(p.key1, o.signature, data) THEN "first"
        ELSE IF p.ver = "RoyaltyV2" /\ SignedBy(p.key2, o.signature, data) THEN "second"
        ELSE Refused

\* Mutant: the nonce stays.
ApplyRoyaltyWithdrawUncounted(p, o) ==
    LET royalty == RoyaltyOf(p, o)
    IN  IF p.ver \notin RoyaltyVer THEN Failed("incompatible")
        ELSE IF royalty = Refused THEN Failed("unverified")
        ELSE IF \E s \in Side : o.out[s] > p[royalty][s] THEN Failed("incompatible")
        ELSE [pool |-> [p EXCEPT !.res = Minus(@, o.out), ![royalty] = Minus(@, o.out)],
              fee |-> RoyaltyFee,
              outputs |-> <<MadeOf(p.native, Wrapped(o.ada - o.fee), o.out, 0)>>]

ApplyRoyaltyWithdraw(p, o) ==
    LET royalty == RoyaltyOf(p, o)
    IN  IF p.ver \notin RoyaltyVer THEN Failed("incompatible")
        ELSE IF royalty = Refused THEN Failed("unverified")
        ELSE IF \E s \in Side : o.out[s] > p.res[s] \/ o.out[s] > p[royalty][s] THEN Failed("incompatible")
        ELSE [pool |-> [p EXCEPT !.res = Minus(@, o.out), ![royalty] = Minus(@, o.out),
                                 !.nonce = @ + 1],
              fee |-> RoyaltyFee,
              outputs |-> <<MadeOf(p.native, Wrapped(o.ada - o.fee), o.out, 0)>>]

-----------------------------------------------------------------------------
(* A request of the DAO. `terms` are all the fields a request carries,     *)
(* whichever of them its action uses; they are signed together with the    *)
(* action, the pool's script and its nonce.                                *)

DaoActions == {"WithdrawTreasury", "ChangeStakePart", "ChangeTreasuryFee",
               "ChangeTreasuryAddress", "ChangeAdminAddress", "ChangePoolFee"}

\* The script named in what is signed is not the pool's own.
SignedScript(ver) == IF ver = "RoyaltyV2" THEN "RoyaltyV1" ELSE "RoyaltyV2"

DaoDataToSign(o, p) ==
    [action |-> o.action, terms |-> o.terms, script |-> SignedScript(p.ver), nonce |-> p.nonce]

\* Signatures are matched with the keys by their places.
CorrectSignatures(o, p) ==
    Cardinality({i \in 1 .. Least(Len(o.signatures), Len(DaoKeys)) :
                     SignedBy(DaoKeys[i], o.signatures[i], DaoDataToSign(o, p))})

WithdrawTreasury(p, out) ==
    IF \E s \in Side : out[s] > p.res[s] \/ out[s] > p.treasury[s] THEN Refused
    ELSE [p EXCEPT !.res = Minus(@, out), !.treasury = Minus(@, out)]

AfterDaoAction(p, o) ==
    IF o.action = "WithdrawTreasury" THEN WithdrawTreasury(p, o.terms.treasury)
    ELSE IF o.action = "ChangeStakePart" THEN [p EXCEPT !.stake = o.terms.stake]
    ELSE IF o.action = "ChangeTreasuryFee" THEN [p EXCEPT !.tfee = o.terms.tfee]
    ELSE IF o.action = "ChangeTreasuryAddress" THEN [p EXCEPT !.treasuryAddress = o.terms.address]
    ELSE IF o.action = "ChangeAdminAddress" THEN [p EXCEPT !.admin = o.terms.admin]
    ELSE [p EXCEPT !.fee = Pair(o.terms.fee, o.terms.fee)]

\* A treasury withdrawal has a second output, for the treasury.
ApplyDaoRequest(p, o) ==
    LET after == AfterDaoAction(p, o)
        back == MadeOf("none", o.ada - o.fee, Zero, 0)
        treasury == MadeOf(p.native, 0, o.terms.treasury, 0)
    IN  IF p.ver \notin RoyaltyVer THEN Failed("incompatible")
        ELSE IF CorrectSignatures(o, p) < DaoThreshold THEN Failed("unverified")
        ELSE IF after = Refused THEN Failed("incompatible")
        ELSE [pool |-> [after EXCEPT !.nonce = @ + 1], fee |-> DaoFee,
              outputs |-> IF o.action = "WithdrawTreasury" THEN <<back, treasury>> ELSE <<back>>]

=============================================================================
