------------------------------ MODULE MCPools ------------------------------
(***************************************************************************)
(* Pools of every kind with reserves of a few dozen units: ADA on x, ADA   *)
(* on y, or none; base on x, and on y where the code treats it apart.      *)
(***************************************************************************)
EXTENDS PoolTrading

Out(ver, ada, x, y, datum) ==
    [ver |-> ver, value |-> [ada |-> ada, x |-> x, y |-> y, lq |-> MaxLqCap - 30],
     datum |-> datum, stake |-> NoStake]

ClassicDatum == 4 :> 3
FeeSwitchDatum == 4 :> 9 @@ 5 :> 1 @@ 6 :> 2 @@ 7 :> 1
BiDirDatum == 4 :> 9 @@ 5 :> 8 @@ 6 :> 1 @@ 7 :> 2 @@ 8 :> 1
RoyaltyDatum ==
    4 :> 9 @@ 5 :> 1 @@ 6 :> 1 @@ 7 :> 2 @@ 8 :> 2 @@ 9 :> 2 @@ 10 :> 1 @@ 11 :> <<"admin">>
        @@ 12 :> "treasury" @@ 13 :> "k1" @@ 14 :> 0
RoyaltyV2Datum ==
    4 :> 9 @@ 5 :> 1 @@ 6 :> 1 @@ 7 :> 1 @@ 8 :> 2 @@ 9 :> 2 @@ 10 :> 2 @@ 11 :> 1
        @@ 12 :> 1 @@ 13 :> 2 @@ 14 :> <<"admin", "deputy">> @@ 15 :> "treasury"
        @@ 16 :> "k1" @@ 17 :> "k2" @@ 18 :> 0
BalanceDatum == 4 :> 9 @@ 5 :> 1 @@ 6 :> 2 @@ 7 :> 1
StableDatum == 1 :> 16 @@ 4 :> 1 @@ 5 :> 1 @@ 9 :> 1 @@ 10 :> 1 @@ 13 :> 2 @@ 14 :> 2
QuadraticDatum == 3 :> 1 @@ 4 :> 1 @@ 5 :> Operator @@ 6 :> 20
QuadraticT2TDatum == QuadraticDatum @@ 7 :> 1

AllPools == {
    <<Out("ConstFnV1", 30, 0, 40, ClassicDatum), "x", "x">>,
    <<Out("ConstFnV2", 5, 30, 20, ClassicDatum), "none", "y">>,
    <<Out("FeeSwitchV1", 30, 0, 40, FeeSwitchDatum), "x", "x">>,
    <<Out("FeeSwitchV2", 30, 40, 0, FeeSwitchDatum), "y", "y">>,
    <<Out("FeeSwitchBiDir", 30, 0, 40, BiDirDatum), "x", "x">>,
    <<Out("RoyaltyV1", 30, 0, 40, RoyaltyDatum), "x", "x">>,
    <<Out("RoyaltyV1LedgerFixed", 5, 40, 30, RoyaltyDatum), "none", "x">>,
    <<Out("RoyaltyV2", 40, 30, 0, RoyaltyV2Datum), "y", "y">>,
    <<Out("BalanceV1", 24, 0, 12, BalanceDatum), "x", "x">>,
    <<Out("BalanceV2", 5, 20, 12, BalanceDatum), "none", "x">>,
    <<Out("Stable", 5, 40, 40, StableDatum), "none", "x">>,
    <<Out("Stable", 5, 40, 40, StableDatum), "none", "y">>,
    <<Out("QuadraticV1", 8, 0, 6, QuadraticDatum), "x", "x">>,
    <<Out("QuadraticT2T", 5, 6, 6, QuadraticT2TDatum), "none", "x">>}

Value(ada, x, y, lq) == [ada |-> ada, x |-> x, y |-> y, lq |-> lq]

\* Deposits in several proportions, and redeems of a part and of everything;
\* one of them holds less ADA than its fee.
Deposit(ada, x, y) ==
    [kind |-> "deposit", value |-> Value(ada, x, y, 0), datum |-> [fee |-> 4, collateral |-> 2]]
Redeem(ada, lq) == [kind |-> "redeem", value |-> Value(ada, 0, 0, lq), datum |-> [fee |-> 4]]

AllOrders ==
    {Deposit(6, 10, 12), Deposit(6, 8, 6), Deposit(16, 0, 12), Deposit(12, 0, 12),
     Deposit(16, 10, 0), Redeem(6, 7), Redeem(3, 7), Redeem(6, 30)}

Terms == [treasury |-> Pair(1, 1), stake |-> "delegate", tfee |-> 2, fee |-> 8,
          admin |-> "newAdmin", address |-> "newTreasury"]

RoyaltyRequest(out, by) ==
    [kind |-> "royalty", value |-> Value(6, 0, 0, 0), datum |-> [out |-> out, fee |-> 4], by |-> <<by>>]

DaoRequest(action, by) ==
    [kind |-> "dao", value |-> Value(6, 0, 0, 0), by |-> by,
     datum |-> [action |-> action, terms |-> Terms, fee |-> 4]]

AllSignatories ==
    {RoyaltyRequest(Pair(1, 0), "k1"), RoyaltyRequest(Pair(1, 1), "k2")}
        \cup {DaoRequest(action, <<"d1", "d2">>) : action \in DaoActions}
        \cup {DaoRequest("WithdrawTreasury", <<"d2", "d1">>)}

Keys == <<"d1", "d2", "d3">>

AllPrices == {<<1, 1>>, <<2, 3>>, <<3, 2>>, <<1, 2>>}
=============================================================================
