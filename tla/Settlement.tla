----------------------------- MODULE Settlement -----------------------------
(***************************************************************************)
(* From a recipe of the liquidity book to a balanced transaction, on a     *)
(* pair with ADA as base: the outputs limit orders are read from           *)
(* (bloom-offchain-cardano/src/orders/limit.rs), the outputs an execution  *)
(* leaves of them (execution_engine/instances.rs), the operator's share    *)
(* (execution_state.rs), and the way the budgets the takers pay are fitted *)
(* to the fee the transaction turns out to need (interpreter.rs).          *)
(*                                                                         *)
(* An output of an order is a record: its ADA and tokens, and of its datum *)
(* what is left to sell and of the fee (input, fee), price (output per     *)
(* input), cost per step and minimum. The order keeps the output it was    *)
(* read from as its bearer, `out`.                                         *)
(***************************************************************************)
EXTENDS Integers, Sequences, SequencesExt, FiniteSets, Functions

CONSTANTS
    MinLovelace,    \* kept in an output that sells ADA
    MinCost,        \* LimitOrderValidation
    MinFee,
    MinSafe,        \* MIN_SAFE_LOVELACE_VALUE: no smaller output is made
    FundingAda,     \* what the operator's funding box holds
    BaseFee, TakeFee, MakeFee, OutputFee, FundingFee,   \* the ledger's fee
    WideFrom, WideFee,   \* an amount from WideFrom on takes more bytes
    TakeResidualFee,
    NoOrder

ASSUME SettlementAssumption ==
    {MinLovelace, MinCost, MinFee, MinSafe, FundingAda, BaseFee, TakeFee, MakeFee, OutputFee,
     FundingFee, WideFrom, WideFee} \subseteq Nat

SumOver(f) == FoldFunction(+, 0, f)

AtLeastZero(n) == IF n >= 0 THEN n ELSE 0

-----------------------------------------------------------------------------
(* Reading an order. One that buys ADA has nothing set apart: what it was  *)
(* paid so far counts as its budget.                                       *)

Kept(side) == IF side = "ask" THEN MinLovelace ELSE 0

ExecutionBudget(out) ==
    out.ada - Kept(out.side) - out.fee - (IF out.side = "ask" THEN out.input ELSE 0)

LinearOutput(input, price) == (input * price[1]) \div price[2]

\* harden_price: the least price that yields the least output for all the input.
Harden(price, input) == <<-((-(input * price[1])) \div price[2]), input>>

AbsolutePrice(side, price) == IF side = "bid" THEN <<price[2], price[1]>> ELSE price

MinMarginalOutput(out) ==
    LET base == LinearOutput(out.input, out.price)
    IN  IF out.min < base THEN out.min ELSE base

\* The budget must do for as many steps as the minimum allows.
Executable(out, fresh) ==
    /\ MinMarginalOutput(out) > 0 /\ out.cost > 0
    /\ ExecutionBudget(out) >= out.cost /\ out.cost >= MinCost
    /\ ExecutionBudget(out) \div out.cost >=
          LinearOutput(out.input, out.price) \div MinMarginalOutput(out)
    /\ out.input <= IF out.side = "ask" THEN out.ada ELSE out.token
    /\ fresh => out.fee >= MinFee

ReadOrder(out, fresh) ==
    IF ~Executable(out, fresh) THEN NoOrder
    ELSE [id |-> out.id, side |-> out.side, input |-> out.input,
          output |-> IF out.side = "ask" THEN out.token ELSE out.ada,
          price |-> AbsolutePrice(out.side, Harden(out.price, out.input)),
          fee |-> out.fee, budget |-> ExecutionBudget(out), cost |-> out.cost,
          min |-> MinMarginalOutput(out), out |-> out]

-----------------------------------------------------------------------------
(* What a take consumes, and its correction. A budget stops at zero.       *)

RemovedInput(take) == take.target.input - take.result.input
AddedOutput(take) == take.result.output - take.target.output
ConsumedFee(take) == take.target.fee - take.result.fee
ConsumedBudget(take) == take.target.budget - take.result.budget

WithBudgetCorrected(take, delta) ==
    [take EXCEPT !.result = [@ EXCEPT !.budget = AtLeastZero(@ + delta)]]

ScaleConsumedBudget(take, num, den) ==
    WithBudgetCorrected(take, ConsumedBudget(take) - (ConsumedBudget(take) * num) \div den)

TotalReserved(takes) == SumOver([i \in DOMAIN takes |-> ConsumedBudget(takes[i])])
TotalInterest(takes) == SumOver([i \in DOMAIN takes |-> ConsumedFee(takes[i])])

\* One take after another absorbs what it can of the mismatch: this much is
\* left of it for the take at i.
LeftFor(takes, ordering, mismatch, i) ==
    LET after(m, j) == m + takes[j].result.budget - AtLeastZero(takes[j].result.budget + m)
        place == CHOOSE k \in DOMAIN ordering : ordering[k] = i
    IN  FoldLeft(after, mismatch, SubSeq(ordering, 1, place - 1))

Correct(takes, ordering, mismatch) ==
    [i \in DOMAIN takes |->
        WithBudgetCorrected(takes[i], LeftFor(takes, ordering, mismatch, i))]

Scale(takes, num, den) == [i \in DOMAIN takes |-> ScaleConsumedBudget(takes[i], num, den)]

-----------------------------------------------------------------------------
(* Executing a take on its output; the rest of a terminal one goes to the  *)
(* trader, without a datum.                                                *)

\* Mutant: the operator's fee is not taken from the order's output.
ExecTakeFeeLeft(take) ==
    LET out == take.target.out
        ask == out.side = "ask"
        ada == out.ada - ConsumedBudget(take)
                 + (IF ask THEN -RemovedInput(take) ELSE AddedOutput(take))
        token == out.token + (IF ask THEN AddedOutput(take) ELSE -RemovedInput(take))
        input == IF take.term THEN 0 ELSE take.result.input
        fee == IF take.term THEN 0 ELSE take.result.fee
        left == [out EXCEPT !.ada = ada, !.token = token, !.input = input, !.fee = fee]
    IN  [take EXCEPT !.result = [@ EXCEPT !.out = left]]

ExecTake(take) ==
    LET out == take.target.out
        ask == out.side = "ask"
        ada == out.ada - ConsumedBudget(take) - ConsumedFee(take)
                 + (IF ask THEN -RemovedInput(take) ELSE AddedOutput(take))
        token == out.token + (IF ask THEN AddedOutput(take) ELSE -RemovedInput(take))
        input == IF take.term THEN 0 ELSE take.result.input
        fee == IF take.term THEN 0 ELSE take.result.fee
        left == [out EXCEPT !.ada = ada, !.token = token, !.input = input, !.fee = fee]
    IN  [take EXCEPT !.result = [@ EXCEPT !.out = left]]

Execute(takes) == [i \in DOMAIN takes |-> ExecTake(takes[i])]

-----------------------------------------------------------------------------
(* The transaction. The operator's interest is an output of its own, or    *)
(* is added to the funding box when it is too little for one.              *)

OperatorIO(interest) ==
    IF interest = 0 THEN [spent |-> 0, made |-> 0]
    ELSE IF interest >= MinSafe THEN [spent |-> 0, made |-> interest]
    ELSE [spent |-> FundingAda, made |-> FundingAda + interest]

\* The fee by the transaction's size, whatever the amounts in it say of it.
EstimatedFee(takes, makes, io) ==
    LET wide == {i \in DOMAIN takes : takes[i].result.out.ada >= WideFrom}
    IN  BaseFee + TakeFee * Cardinality(DOMAIN takes) + MakeFee * Cardinality(DOMAIN makes)
          + (IF io.made > 0 THEN OutputFee ELSE 0)
          + (IF io.spent > 0 THEN FundingFee ELSE 0)
          + WideFee * Cardinality(wide)

=============================================================================
