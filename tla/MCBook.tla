------------------------------- MODULE MCBook -------------------------------
(***************************************************************************)
(* Books of a few limit orders on a pair with ADA as base, and one or two  *)
(* pools. Prices lie around those of the pools.                            *)
(***************************************************************************)
EXTENDS LiquidityBook

Ask(id, input, price, fee, budget, min) ==
    [id |-> id, side |-> "ask", input |-> input, price |-> price, fee |-> fee, cost |-> 8,
     min |-> min, ada |-> MinLovelace + fee + budget + input, token |-> 0]

Bid(id, input, price, fee, budget, min) ==
    [id |-> id, side |-> "bid", input |-> input, price |-> price, fee |-> fee, cost |-> 8,
     min |-> min, ada |-> fee + budget, token |-> input]

AllOutputs == {
    Ask(1, 6, <<1, 1>>, 4, 8, 4),
    Ask(1, 12, <<2, 3>>, 0, 16, 12),
    Bid(2, 9, <<2, 3>>, 2, 16, 3),
    Bid(2, 20, <<1, 2>>, 2, 8, 6),
    Bid(3, 12, <<1, 2>>, 4, 16, 6),
    Ask(3, 14, <<1, 2>>, 2, 16, 3),
    Ask(4, 5, <<4, 3>>, 0, 16, 3)}

AllOrders == {ReadOrder(out, TRUE) : out \in AllOutputs}

Classic(x, y, lq) ==
    [ver |-> "ConstFnV1", native |-> "x", base |-> "x", res |-> Pair(x, y),
     fee |-> Pair(9, 9), treasury |-> Zero, tfee |-> 0, lq |-> lq, bound |-> 0]

FeeSwitch(x, y, lq) ==
    [ver |-> "FeeSwitchV1", native |-> "x", base |-> "x", res |-> Pair(x, y),
     fee |-> Pair(9, 9), treasury |-> Pair(1, 0), tfee |-> 1, lq |-> lq, bound |-> 0]

AllMakers == {
    [i \in {"p"} |-> Classic(30, 40, 30)],
    [i \in {"p", "q"} |-> IF i = "p" THEN Classic(30, 40, 30) ELSE FeeSwitch(20, 30, 20)],
    [i \in {"p", "q"} |-> IF i = "p" THEN Classic(30, 30, 30) ELSE Classic(6, 9, 30)]}

AllReserves == {Pair(24, 50), Pair(40, 30)}
=============================================================================
