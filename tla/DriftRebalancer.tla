--------------------------- MODULE DriftRebalancer ---------------------------
(***************************************************************************)
(* The drift rebalancer (lumibot/components/drift_rebalancer_logic.py and  *)
(* lumibot/example_strategies/drift_rebalancer.py): an iteration cancels   *)
(* what is open, compares the holdings of the last synchronisation with    *)
(* the target weights, submits sells, waits, reads the cash and submits    *)
(* buys.  Prices are asked for again for each order; orders are executed   *)
(* between the iterations of a backtest and at any time when live.         *)
(*                                                                         *)
(* Weights are n/Whole; money and shares are integers (whole shares, whole *)
(* cents), so products are compared instead of quotients.                  *)
(***************************************************************************)
EXTENDS Integers, FiniteSets, Sequences, SequencesExt, FiniteSetsExt, Functions

CONSTANTS Assets,
          Alphabet,     \* the assets in alphabetical order
          Multiplier,   \* 100 for an option, 1 for anything else
          Whole,        \* the unit of weights, slippage and threshold
          Slippage, Threshold, Fee,
          Modes,        \* [weights, live, relative, only, shorting, market]
          Markets,      \* the prices the market may show, the first one first
          Endowments,   \* [shares, cash] the account may begin with
          MaxMoves,     \* bound: changes of the prices
          MaxFailures   \* bound: late fills, prices and balances that cannot be had

ASSUME RebalancerAssumption ==
    /\ IsFiniteSet(Assets) /\ Assets # {}
    /\ Alphabet \in Seq(Assets) /\ IsInjective(Alphabet) /\ ToSet(Alphabet) = Assets
    /\ Multiplier \in [Assets -> {1, 100}]
    /\ Whole \in Nat \ {0} /\ Threshold \in 1 .. Whole - 1 /\ Slippage \in 0 .. Threshold - 1
    /\ Fee \in Nat /\ MaxMoves \in Nat /\ MaxFailures \in Nat
    /\ Modes \subseteq [weights: [Assets -> Int], live: BOOLEAN, relative: BOOLEAN,
                        only: BOOLEAN, shorting: BOOLEAN, market: BOOLEAN]
    /\ Markets \in Seq([Assets -> Nat \ {0}]) /\ Markets # <<>>
    /\ Endowments \subseteq [shares: [Assets -> Nat], cash: Nat]

VARIABLES mode,     \* the parameters of the strategy
          shares, cash,             \* the account at the brokerage
          price,                    \* the market
          open,     \* orders at the brokerage
          seen,     \* [shares, cash, total] as last synchronised
          rows,     \* drift_df: asset -> [quantity, value, gap, drift]
          pc, todo, \* where the iteration is, and the assets it has yet to visit
          budget,   \* cash_position
          moves, failures

rebalancerVars == <<mode, shares, cash, price, open, seen, rows, pc, todo, budget,
          moves, failures>>

Sign(n) == IF n > 0 THEN 1 ELSE IF n < 0 THEN -1 ELSE 0
Size(n) == IF n < 0 THEN -n ELSE n
TowardZero(n, d) == Sign(n) * (Size(n) \div d)

Worth(a, n) == n * Multiplier[a] * price[a]
Total == cash + SumFunction([a \in Assets |-> Worth(a, shares[a])])

(* calculate_limit_price: rounded to the cent, a sell up and a buy down.   *)
SellLimit(a) == (price[a] * (Whole - Slippage) + Whole - 1) \div Whole
BuyLimit(a) == (price[a] * (Whole + Slippage)) \div Whole

RebalancerInit ==
        /\ mode \in Modes
        /\ \E e \in Endowments : shares = e.shares /\ cash = e.cash
        /\ price = Markets[1]
        /\ open = {}
        /\ seen = <<>> /\ rows = <<>> /\ todo = {} /\ budget = 0
        /\ pc = "asleep"
        /\ moves = 0
        /\ failures = 0

(* What an iteration knows is not read by the next one.                    *)
Sleep == /\ pc' = "asleep"
         /\ seen' = <<>> /\ rows' = <<>> /\ todo' = {} /\ budget' = 0

-----------------------------------------------------------------------------
(* The calculation. *)

(* _calculate_drift_row, as <<numerator, denominator>>.                    *)
DriftOf(weight, quantity, value, total) ==
    IF weight = 0 THEN <<IF total > 0 THEN -Sign(quantity) ELSE 0, 1>>
    ELSE IF quantity = 0 THEN <<Sign(weight), 1>>
    ELSE IF total <= 0 THEN <<weight, IF mode.relative THEN Size(weight) ELSE Whole>>
    ELSE <<weight * total - Whole * value,
           total * (IF mode.relative THEN Size(weight) ELSE Whole)>>

(* _add_positions: the value of a holding, whatever one contract stands for. *)
CurrentValue(a, quantity) == quantity * price[a]

(* The row of an asset; "gap" is Whole * (target value - current value).   *)
RowOf(a) ==
    LET quantity == seen.shares[a]
        value == CurrentValue(a, quantity)
        weight == mode.weights[a]
    IN  [quantity |-> quantity, value |-> value,
         gap |-> weight * seen.total - Whole * value,
         drift |-> DriftOf(weight, quantity, value, seen.total)]

Exceeds(drift) == Whole * Size(drift[1]) > Threshold * drift[2]
IsWhole(drift) == Size(drift[1]) = drift[2]

(* Rows by absolute drift, the largest first, then by symbol.              *)
Alphabetical(a) == CHOOSE i \in DOMAIN Alphabet : Alphabet[i] = a
Precedes(a, b) == LET x == Size(rows[a].drift[1]) * rows[b].drift[2]
                      y == Size(rows[b].drift[1]) * rows[a].drift[2]
                  IN  x > y \/ (x = y /\ Alphabetical(a) < Alphabetical(b))
IsNext(a) == a \in todo /\ \A b \in todo \ {a} : Precedes(a, b)

(* cancel_open_orders: at once in a backtest, a request when live.         *)
Canceled == IF mode.live THEN {[o EXCEPT !.canceling = TRUE] : o \in open} ELSE {}

Marketable(o) == \/ mode.market
                 \/ o.side = "sell" /\ price[o.asset] >= o.limit
                 \/ o.side = "buy" /\ price[o.asset] <= o.limit

(* The next iteration comes when what the market fills has been filled and *)
(* what was canceled has ended; a live one may also come too early.        *)
Sync == /\ pc = "asleep"
        /\ \A o \in open : ~o.canceling
        /\ \/ /\ \A o \in open : ~Marketable(o)
              /\ UNCHANGED failures
           \/ /\ mode.live /\ failures < MaxFailures
              /\ \E o \in open : Marketable(o)
              /\ failures' = failures + 1
        /\ seen' = [shares |-> shares, cash |-> cash, total |-> Total]
        /\ pc' = "calculate"
        /\ UNCHANGED <<mode, shares, cash, price, open, rows, todo, budget, moves>>

(* cancel_open_orders, calculate, and the test whether any drift exceeds   *)
(* the threshold.                                                          *)
Calculate ==
    /\ pc = "calculate"
    /\ open' = Canceled
    /\ LET table == [a \in Assets |-> RowOf(a)]
       IN  IF \E a \in Assets : Exceeds(table[a].drift)
             THEN /\ rows' = table
                  /\ todo' = {a \in Assets : table[a].drift[1] < 0}
                  /\ pc' = "sell"
                  /\ UNCHANGED <<seen, budget>>
             ELSE Sleep
    /\ UNCHANGED <<mode, shares, cash, price, moves, failures>>

-----------------------------------------------------------------------------
(* The orders. *)

Spared(a) == mode.only /\ Whole * Size(rows[a].drift[1]) < Threshold * rows[a].drift[2]

Part(a) == TowardZero(-rows[a].gap, Whole * SellLimit(a) * Multiplier[a])

(* A drift of exactly -1 sells all there is, or opens a short position;    *)
(* otherwise the part above the target, if it is less than all.            *)
SellQuantity(a) ==
    IF IsWhole(rows[a].drift)
      THEN IF rows[a].quantity = 0 /\ mode.shorting
             THEN Size(mode.weights[a] * seen.total) \div (Whole * SellLimit(a))
             ELSE rows[a].quantity
    ELSE IF Spared(a) THEN 0
    ELSE IF Part(a) < rows[a].quantity \/ mode.shorting THEN Part(a)
    ELSE 0

NewOrder(a, side, quantity, limit) ==
    [asset |-> a, side |-> side, quantity |-> quantity, limit |-> limit,
     canceling |-> FALSE]

Sell == /\ pc = "sell"
        /\ \E a \in todo :
             LET n == SellQuantity(a)
             IN /\ IsNext(a)
                /\ open' = open \cup
                            (IF n > 0 THEN {NewOrder(a, "sell", n, SellLimit(a))} ELSE {})
                /\ todo' = todo \ {a}
        /\ UNCHANGED <<mode, shares, cash, price, seen, rows, pc, budget, moves, failures>>

(* get_current_cash_position after the sleep: the cash there is now, or    *)
(* that of the synchronisation when the balances cannot be had.            *)
ReadCash ==
    /\ pc = "sell"
    /\ todo = {}
    /\ \/ /\ budget' = cash
          /\ UNCHANGED failures
       \/ /\ mode.live /\ failures < MaxFailures
          /\ budget' = seen.cash
          /\ failures' = failures + 1
    /\ pc' = "buy"
    /\ todo' = {a \in Assets : rows[a].drift[1] > 0}
    /\ UNCHANGED <<mode, shares, cash, price, open, seen, rows, moves>>

(* adjust_quantity_for_fees: the wanted value, or what is left after fees; *)
(* all amounts times Whole.                                                *)
Affordable(wanted, a) ==
    LET per == Whole * BuyLimit(a) * Multiplier[a]
    IN  IF wanted + Whole * Fee * Multiplier[a] < Whole * budget * Multiplier[a]
          THEN wanted \div per
          ELSE Max({0, (Whole * (budget - Fee)) \div (Whole * BuyLimit(a))})

Covers(a) == IsWhole(rows[a].drift) /\ rows[a].quantity < 0 /\ mode.shorting

(* Mutant: the value held already is not deducted.                         *)
WantedInFull(a) == Min({mode.weights[a] * seen.total, Whole * budget})

Wanted(a) == Min({rows[a].gap, Whole * budget})

BuyQuantity(a) ==
    IF Covers(a) THEN -rows[a].quantity
    ELSE IF Spared(a) \/ Wanted(a) <= 0 THEN 0
    ELSE LET n == Affordable(Wanted(a), a)
         IN  IF n * BuyLimit(a) * Multiplier[a] > budget THEN 0 ELSE n

(* Mutant: cash is not set aside for an order that has been submitted.     *)
BudgetKept(a, n) == budget

BudgetAfter(a, n) == budget - n * BuyLimit(a) * (IF Covers(a) THEN 1 ELSE Multiplier[a])

Buy == /\ pc = "buy"
       /\ \E a \in todo :
            LET n == BuyQuantity(a)
            IN /\ IsNext(a)
               /\ open' = open \cup
                           (IF n > 0 THEN {NewOrder(a, "buy", n, BuyLimit(a))} ELSE {})
               /\ budget' = BudgetAfter(a, n)
               /\ todo' = todo \ {a}
       /\ UNCHANGED <<mode, shares, cash, price, seen, rows, pc, moves, failures>>

Done == /\ pc = "buy"
        /\ todo = {}
        /\ Sleep
        /\ UNCHANGED <<mode, shares, cash, price, open, moves, failures>>

(* get_last_price_or_raise: the rest of a live iteration is dropped.       *)
NoPrice == /\ mode.live
           /\ failures < MaxFailures
           /\ pc = "calculate" \/ (pc \in {"sell", "buy"} /\ todo # {})
           /\ failures' = failures + 1
           /\ open' = IF pc = "calculate" THEN Canceled ELSE open
           /\ Sleep
           /\ UNCHANGED <<mode, shares, cash, price, moves>>

-----------------------------------------------------------------------------
(* The brokerage and the market. *)

Fill(o) ==
    LET n == IF o.side = "buy" THEN o.quantity ELSE -o.quantity
    IN  /\ o \in open
        /\ Marketable(o)
        /\ mode.live \/ pc = "asleep"
        /\ shares' = [shares EXCEPT ![o.asset] = @ + n]
        /\ cash' = cash - Worth(o.asset, n) - Fee
        /\ open' = open \ {o}
        /\ UNCHANGED <<mode, price, seen, rows, pc, todo, budget, moves, failures>>

EndCancel(o) == /\ o \in open
                /\ o.canceling
                /\ open' = open \ {o}
                /\ UNCHANGED <<mode, shares, cash, price, seen, rows, pc, todo,
                               budget, moves, failures>>

(* Prices are one and the same throughout an iteration of a backtest.      *)
Move == /\ moves < MaxMoves
        /\ mode.live \/ pc = "asleep"
        /\ moves' = moves + 1
        /\ price' \in ToSet(Markets) \ {price}
        /\ UNCHANGED <<mode, shares, cash, open, seen, rows, pc, todo, budget, failures>>

Iteration == Sync \/ Calculate \/ Sell \/ ReadCash \/ Buy \/ Done \/ NoPrice
SomeFill == \E o \in open : Fill(o)
SomeCancel == \E o \in open : EndCancel(o)

RebalancerNext == Iteration \/ SomeFill \/ SomeCancel \/ Move

(* The executor calls the strategy again and again; the brokerage answers  *)
(* cancellations and fills what can be filled.                             *)
RebalancerSpec ==
    /\ RebalancerInit /\ [][RebalancerNext]_rebalancerVars
    /\ WF_rebalancerVars(Iteration)
    /\ WF_rebalancerVars(SomeCancel) /\ WF_rebalancerVars(SomeFill)

-----------------------------------------------------------------------------
OrderType == [asset: Assets, side: {"buy", "sell"}, quantity: Nat \ {0},
              limit: Nat \ {0}, canceling: BOOLEAN]
RowType == [quantity: Int, value: Int, gap: Int, drift: Int \X Int]

RebalancerTypeOK ==
    /\ mode \in Modes
    /\ shares \in [Assets -> Int]
    /\ cash \in Int /\ budget \in Int
    /\ price \in ToSet(Markets)
    /\ open \in SUBSET OrderType /\ IsFiniteSet(open)
    /\ pc \in {"asleep", "calculate", "sell", "buy"}
    /\ pc # "asleep" => seen \in [shares: [Assets -> Int], cash: Int, total: Int]
    /\ pc \in {"sell", "buy"} => rows \in [Assets -> RowType]
    /\ todo \subseteq Assets
    /\ moves \in 0 .. MaxMoves /\ failures \in 0 .. MaxFailures

(* In a backtest with limit orders and without short positions the cash is *)
(* never overdrawn, however prices move between an order and its fill, by  *)
(* more than fees: each buy is limited by the cash that the ones before it *)
(* leave (DriftOrderLogic._rebalance), of which adjust_quantity_for_fees   *)
(* keeps one fee back, except where contracts stand for a hundred shares.  *)
FeesNotKept == Cardinality(Assets)
                 - (IF \A a \in Assets : Multiplier[a] = 1 THEN 1 ELSE 0)
FeesAreSmall ==     \* what is sold fetches its fee at least
    \A i \in DOMAIN Markets, a \in Assets : Markets[i][a] * Multiplier[a] >= Fee
CashCovers ==
    ~mode.live /\ ~mode.market /\ ~mode.shorting => cash >= -(Fee * FeesNotKept)

(* In a backtest that must not go short nothing is sold that is not held,  *)
(* by all the open orders together.                                        *)
SellsOf(a) == {o \in open : o.asset = a /\ o.side = "sell"}
HeldCoversSells ==
    ~mode.live /\ ~mode.shorting =>
      \A a \in Assets : shares[a] >= SumFunction([o \in SellsOf(a) |-> o.quantity])

(* No order of a backtest needs cash or shares that are not there.         *)
OrdersAreCovered == CashCovers /\ HeldCoversSells

(* Once prices rest, and whatever was filled late, dropped or read from a  *)
(* stale balance before, the account comes to rest with no drift beyond    *)
(* the threshold, or none that whole shares and the cash could reduce.     *)
(* Two accounts are left as they are: one that owes more than it owns, and *)
(* one whose excess would, at the limit price, take every share.           *)
Gap(a) == mode.weights[a] * Total - Whole * Worth(a, shares[a])
Unit(a) == Whole * Multiplier[a]
TakesAll(a) ==
    mode.weights[a] > 0 /\ TowardZero(-Gap(a), Unit(a) * SellLimit(a)) >= shares[a]

AtTarget(a) ==
    /\ Gap(a) >= 0 => \/ Gap(a) < Unit(a) * BuyLimit(a)
                      \/ cash < Multiplier[a] * BuyLimit(a) + Fee
    /\ Gap(a) <= 0 => -Gap(a) < Unit(a) * price[a] \/ TakesAll(a)

InBounds(a) ==
    ~Exceeds(DriftOf(mode.weights[a], shares[a], Worth(a, shares[a]), Total))

AtRest == \/ Total <= 0
          \/ \A a \in Assets : InBounds(a)
          \/ \A a \in Assets : AtTarget(a) \/ (mode.only /\ InBounds(a))

Balances == <>[]AtRest

(* What is said of the code and what it does not do (no run checks it):    *)
(* what is held of an asset with a target is only adjusted to it, an order *)
(* submitted does not take the holding past its target                     *)
(* (_calculate_drift_row, "Otherwise we just need to adjust our holding"). *)
OnlyAdjusts ==
    \A o \in open :
      \/ o.canceling \/ pc \notin {"sell", "buy"} \/ rows[o.asset].quantity = 0
      \/ mode.weights[o.asset] = 0
      \/ LET moved == Whole * o.quantity * Multiplier[o.asset] * o.limit
         IN  moved <= Size(rows[o.asset].gap)
=============================================================================
