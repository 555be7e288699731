---------------------------- MODULE OptionExpiry ----------------------------
(***************************************************************************)
(* What becomes of options in a backtest (backtesting_broker.py): settled  *)
(* when they have expired, short ones perhaps assigned a day or more       *)
(* before, and when in its day the executor asks for it                    *)
(* (strategy_executor.py).                                                 *)
(*                                                                         *)
(* All runs in one thread.  A settlement changes the positions at once;    *)
(* the cash of delivered shares is booked only when the executor drains    *)
(* its event queue, between the methods of the strategy, while a cash      *)
(* settlement sets the cash itself.  A pass over the positions settles one *)
(* after the other, each by what the ones before it left.                  *)
(*                                                                         *)
(* Agenda: what the executor still does today, in order.  One iteration    *)
(* comes before the closing minutes and perhaps one at their beginning,    *)
(* which stand for all.  Orders are plain ones, one at a time for an       *)
(* asset, filled at the price of the moment if at all; BacktestingBroker   *)
(* has the rest of them.  A pass may take the positions in any order,      *)
(* which is the order the strategy has opened them in.                     *)
(*                                                                         *)
(* Fees, dividends, a second price source and data other than a pandas     *)
(* source's, for which nothing is settled, are left out.                   *)
(***************************************************************************)
EXTENDS Integers, FiniteSets, SequencesExt

CONSTANTS Options, Underlyings,
          Terms,          \* Terms[o]: the contract, see Contract
          Indices,        \* underlyings that deliver nothing
          Multiplier,     \* shares of a contract
          Budget,
          EarlyAssignment, MaxDteDays, MaxExtrinsic,
                          \* the strategy's option_early_assignment parameters
          TradingDays,
          Markets,        \* what prices there may be, see Market
          NoPrice,
          MaxOrders       \* bound: orders submitted

Contract == [underlying : Underlyings, call : BOOLEAN, strike : Nat, expiration : Nat]
Market == [spot : [Underlyings -> Nat \cup {NoPrice}],
           extrinsic : Nat \cup {NoPrice}]   \* of every option, over its intrinsic value

ASSUME ExpiryAssumption ==
    /\ \A o \in Options : Terms[o] \in Contract
    /\ Indices \subseteq Underlyings /\ Options \cap Underlyings = {}
    /\ IsFiniteSet(Options) /\ IsFiniteSet(Underlyings)
    /\ Markets \subseteq Market
    /\ {Multiplier, Budget, MaxDteDays, MaxExtrinsic, MaxOrders} \subseteq Nat
    /\ EarlyAssignment \in BOOLEAN
    /\ IsFiniteSet(TradingDays) /\ TradingDays \subseteq Nat \ {0}

VARIABLES account,    \* see Account
          day, time,  \* the broker's datetime
          market,
          daily,      \* the data source's timestep is a day
          agenda,
          todo,       \* positions the pass under way has still to look at
          assessed,   \* _option_early_assignment_last_eval, 0 for none
          orders      \* orders submitted

vars == <<account, day, time, market, daily, agenda, todo, assessed, orders>>

Assets == Options \cup Underlyings
Account == [cash : Int,
            owed : Int,                   \* cash of fills in the event queue
            held : [Assets -> Int],       \* _filled_positions, 0 for none
            working : [Assets -> Int]]    \* quantity of the open order, signed

Times == {"early", "near", "closed"}      \* near: within minutes_before_closing
Stages == {"pending", "assign", "assigning", "expire", "expiring", "iteration",
           "sleep", "nearing", "hook", "closing", "night", "morning", "opening"}
-----------------------------------------------------------------------------
Spot(o) == market.spot[Terms[o].underlying]
AtLeastZero(n) == IF n > 0 THEN n ELSE 0

(* _intrinsic_value_per_contract, per share.                               *)
Intrinsic(o) == AtLeastZero(IF Terms[o].call THEN Spot(o) - Terms[o].strike
                                             ELSE Terms[o].strike - Spot(o))

HasPrice(a) ==
    IF a \in Options THEN Spot(a) # NoPrice /\ market.extrinsic # NoPrice
                     ELSE market.spot[a] # NoPrice
Price(a) == IF a \in Options THEN Multiplier * (Intrinsic(a) + market.extrinsic)
                             ELSE market.spot[a]

(* The fill of an order for q of a: the position changes, its cash waits in *)
(* the queue.  A sale that leaves nothing cancels the other sale.          *)
Filled(acc, a, q, price) ==
    LET flat == acc.held[a] + q = 0
    IN  [acc EXCEPT !.owed = @ - q * price,
                    !.held[a] = @ + q,
                    !.working[a] = IF flat /\ q < 0 /\ @ < 0 THEN 0 ELSE @]

(* The lifecycle event of an option: its position is removed at once, and  *)
(* its open orders are canceled.                                           *)
Removed(acc, o) == [acc EXCEPT !.held[o] = 0, !.working[o] = 0]

(* Mutant: a put is delivered like a call.                                 *)
DeliveredAsCall(o, n) == Multiplier * n

(* Shares that a position of n contracts receives, or delivers if negative.*)
DeliveredShares(o, n) == Multiplier * (IF Terms[o].call THEN n ELSE -n)

(* EXERCISED or ASSIGNED: _dispatch_underlying_delivery_fill at the strike.*)
Delivered(acc, o) ==
    Filled(Removed(acc, o), Terms[o].underlying,
           DeliveredShares(o, acc.held[o]), Terms[o].strike)

(* cash_settle_options_contract, with the cash that is booked by now.      *)
CashSettled(acc, o) ==
    [Removed(acc, o) EXCEPT !.cash = @ + Intrinsic(o) * acc.held[o] * Multiplier]

(* Mutant: puts are tested against contracts, not shares.                  *)
CanSupportContracts(acc, o) ==
    IF Terms[o].call THEN acc.cash >= Terms[o].strike * Multiplier * acc.held[o]
                     ELSE acc.held[Terms[o].underlying] >= acc.held[o]

CanSupportLongExercise(acc, o) ==
    LET shares == Multiplier * acc.held[o]
    IN  IF Terms[o].call THEN acc.cash >= Terms[o].strike * shares
                         ELSE acc.held[Terms[o].underlying] >= shares

Settled(acc, o) ==
    IF Intrinsic(o) = 0 THEN Removed(acc, o)
    ELSE IF Terms[o].underlying \in Indices THEN CashSettled(acc, o)
    ELSE IF acc.held[o] > 0 /\ ~CanSupportLongExercise(acc, o)
         THEN CashSettled(acc, o)
    ELSE Delivered(acc, o)

(* A short option that is nearly all intrinsic value is assigned early.    *)
AssignedEarly(o) ==
    /\ Terms[o].underlying \notin Indices
    /\ Intrinsic(o) > 0
    /\ HasPrice(o)
    /\ market.extrinsic <= MaxExtrinsic

(* Mutant: expirations between two trading days are forgotten.             *)
ExpiredToday(o) == Terms[o].expiration = day /\ time # "early"

Expired(o) == \/ Terms[o].expiration < day
              \/ Terms[o].expiration = day /\ time # "early"

ShortSoonExpiring(o) ==
    /\ account.held[o] < 0
    /\ Terms[o].expiration - day \in 1..MaxDteDays

(* process_queue: the cash of the fills is booked (_update_cash).          *)
Drained(acc) == [acc EXCEPT !.cash = @ + acc.owed, !.owed = 0]
-----------------------------------------------------------------------------
Stage(s) == agenda # <<>> /\ Head(agenda) = s
First(stages) == agenda' = stages \o Tail(agenda)
Instead(stages) == agenda' = stages

(* From the loop's end to the next day: await_market_to_close, the hook,   *)
(* await_market_to_close(0), the settlement, after_market_closes.          *)
Evening == <<"pending", "nearing", "hook", "pending", "closing", "expire", "night">>
Iterate == <<"iteration", "pending", "sleep">>

(* From the first iteration on: what methods before it submitted, and the  *)
(* events that the executor skips until its end, are BacktestingBroker's.  *)
ExpiryInit ==
    /\ account = [cash |-> Budget, owed |-> 0,
                  held |-> [a \in Assets |-> 0], working |-> [a \in Assets |-> 0]]
    /\ day \in TradingDays /\ \A e \in TradingDays : day <= e
    /\ time = "early"
    /\ market \in Markets
    /\ daily \in BOOLEAN
    /\ agenda = Iterate
    /\ todo = {}
    /\ assessed = 0
    /\ orders = 0

(* A method of the strategy submits an order, or several.  An index itself *)
(* is not traded.                                                          *)
Submit ==
    /\ \/ Stage("opening") \/ Stage("iteration") \/ Stage("night")
       \/ Stage("hook") /\ time # "closed"
    /\ orders < MaxOrders
    /\ \E a \in Assets \ Indices, q \in {1, -1} :
         /\ account.working[a] = 0
         /\ account' = [account EXCEPT !.working[a] =
                          IF a \in Options THEN q ELSE q * Multiplier]
    /\ orders' = orders + 1
    /\ UNCHANGED <<day, time, market, daily, agenda, todo, assessed>>

(* The method returns; the queue is drained before and after it.  At the   *)
(* close before_market_closes is not called.                               *)
EndMethod(stage, stages) ==
    /\ Stage(stage)
    /\ account' = IF stage = "hook" /\ time = "closed" THEN account
                                                       ELSE Drained(account)
    /\ First(stages)
    /\ UNCHANGED <<day, time, market, daily, todo, assessed, orders>>

EndOpening == EndMethod("opening", <<>>)
EndIteration == EndMethod("iteration", <<>>)
EndHook == EndMethod("hook", <<>>)
EndNight == EndMethod("night", <<"pending", "morning">>)

(* process_pending_orders fills some of the open orders, and then looks    *)
(* for early assignments, and with daily data for expired contracts.       *)
Fill ==
    /\ Stage("pending")
    /\ \E a \in Assets :
         /\ account.working[a] # 0
         /\ HasPrice(a)
         /\ account' = Filled([account EXCEPT !.working[a] = 0], a,
                              account.working[a], Price(a))
    /\ UNCHANGED <<day, time, market, daily, agenda, todo, assessed, orders>>

EndPending ==
    /\ Stage("pending")
    /\ First(IF daily THEN <<"assign", "expire">> ELSE <<"assign">>)
    /\ UNCHANGED <<account, day, time, market, daily, todo, assessed, orders>>

(* process_early_assignment_contracts: once a day, near the close.         *)
StartAssignment ==
    /\ Stage("assign")
    /\ IF EarlyAssignment /\ time # "early" /\ assessed # day
       THEN /\ assessed' = day
            /\ todo' = {o \in Options : ShortSoonExpiring(o)}
            /\ First(<<"assigning">>)
       ELSE /\ UNCHANGED <<todo, assessed>>
            /\ First(<<>>)
    /\ UNCHANGED <<account, day, time, market, daily, orders>>

Assess(o) ==
    /\ Stage("assigning") /\ o \in todo
    /\ Spot(o) # NoPrice
    /\ account' = IF AssignedEarly(o) THEN Delivered(account, o) ELSE account
    /\ todo' = todo \ {o}
    /\ UNCHANGED <<day, time, market, daily, agenda, assessed, orders>>

(* process_expired_option_contracts.                                       *)
StartExpiry ==
    /\ Stage("expire")
    /\ todo' = {o \in Options : account.held[o] # 0 /\ Expired(o)}
    /\ First(<<"expiring">>)
    /\ UNCHANGED <<account, day, time, market, daily, assessed, orders>>

Settle(o) ==
    /\ Stage("expiring") /\ o \in todo
    /\ Spot(o) # NoPrice
    /\ account' = Settled(account, o)
    /\ todo' = todo \ {o}
    /\ UNCHANGED <<day, time, market, daily, agenda, assessed, orders>>

EndPass ==
    /\ Stage("assigning") \/ Stage("expiring")
    /\ todo = {}
    /\ First(<<>>)
    /\ UNCHANGED <<account, day, time, market, daily, todo, assessed, orders>>

(* The underlying has no price: the exception ends the backtest with the   *)
(* rest of the pass undone.                                                *)
Abort(o) ==
    /\ Stage("assigning") \/ Stage("expiring")
    /\ o \in todo
    /\ Spot(o) = NoPrice
    /\ Instead(<<>>)
    /\ UNCHANGED <<account, day, time, market, daily, todo, assessed, orders>>

(* _strategy_sleep.  Near the close the contracts are settled and the loop *)
(* ends; else the queue is drained and the clock moves on, to the next     *)
(* iteration, into the closing minutes, or to the close and settlement.    *)
Sleep ==
    /\ Stage("sleep")
    /\ IF time # "early"
       THEN Instead(<<"expire">> \o Evening) /\ UNCHANGED <<account, time, market>>
       ELSE /\ account' = Drained(account)
            /\ market' \in Markets
            /\ \/ time' = "near" /\ (Instead(Iterate) \/ Instead(Evening))
               \/ time' = "closed" /\ Instead(<<"expire">> \o Evening)
    /\ UNCHANGED <<day, daily, todo, assessed, orders>>

(* The two awaits; the clock does not go back.                             *)
Await(stage, until) ==
    /\ Stage(stage)
    /\ IF time = "closed" \/ time = until
       THEN UNCHANGED <<time, market>>
       ELSE time' = until /\ market' \in Markets
    /\ First(<<>>)
    /\ UNCHANGED <<account, day, daily, todo, assessed, orders>>

(* The next trading day, if there is one (_setup_market_session).          *)
Morning ==
    /\ Stage("morning")
    /\ \E d \in TradingDays :
         /\ d > day /\ ~\E e \in TradingDays : day < e /\ e < d
         /\ day' = d
    /\ time' = "early"
    /\ market' \in Markets
    /\ Instead(<<"pending", "opening", "pending">> \o Iterate)
    /\ UNCHANGED <<account, daily, todo, assessed, orders>>

ExpiryNext ==
    \/ Submit \/ EndOpening \/ EndIteration \/ EndHook \/ EndNight
    \/ Fill \/ EndPending
    \/ StartAssignment \/ StartExpiry \/ EndPass
    \/ \E o \in Options : Assess(o) \/ Settle(o) \/ Abort(o)
    \/ Sleep \/ Await("nearing", "near") \/ Await("closing", "closed") \/ Morning

ExpirySpec == ExpiryInit /\ [][ExpiryNext]_vars
-----------------------------------------------------------------------------
(* Every variable stays in its type.                                       *)
ExpiryTypeOK ==
    /\ account \in Account
    /\ day \in TradingDays /\ time \in Times
    /\ market \in Markets /\ daily \in BOOLEAN
    /\ agenda \in Seq(Stages)
    /\ todo \subseteq Options
    /\ assessed \in TradingDays \cup {0}
    /\ orders \in 0..MaxOrders

(* What an account is worth, its options at their intrinsic value.         *)
ShareValues(acc) ==
    [u \in Underlyings |-> IF acc.held[u] = 0 THEN 0 ELSE acc.held[u] * market.spot[u]]
OptionValues(acc) ==
    [o \in Options |-> IF acc.held[o] = 0 THEN 0
                       ELSE acc.held[o] * (Multiplier * Intrinsic(o))]
ValueOf(acc) ==
    (acc.cash + acc.owed) + (SumFunction(ShareValues(acc)) + SumFunction(OptionValues(acc)))
Worth == ValueOf(account)
Priced == \A u \in Underlyings : market.spot[u] # NoPrice

(* While prices stand and nothing is traded, nothing is lost or won,       *)
(* whichever way each position is settled and wherever the cash of earlier *)
(* fills is: exercise, assignment, cash settlement and the queue agree.    *)
WorthIsKept ==
    [][market' = market /\ Priced /\ ~Fill => Worth' = Worth]_vars

(* No position outlasts the settlement at the end of its last day, or of   *)
(* the first trading day after it, though orders that were open or are     *)
(* submitted late trade between the passes, the night before included.     *)
NoneOverstays ==
    Stage("night") => \A o \in Options : account.held[o] # 0 => Terms[o].expiration > day

(* An exercise of the pass sells no shares that are not there, though      *)
(* others of the pass have moved them, and what a purchase overdraws is no *)
(* more than the cash of earlier fills that is still in the queue.         *)
ExercisesAreSupported ==
    [][\A o \in Options :
         /\ Stage("expiring") /\ account.held[o] > 0 /\ account'.held[o] = 0
         /\ account'.owed # account.owed
         => LET u == Terms[o].underlying
            IN  /\ account'.held[u] < account.held[u] => account'.held[u] >= 0
                /\ account'.owed < account.owed
                     => account'.cash + account'.owed >= IF account.owed < 0
                                                         THEN account.owed ELSE 0]_vars

(* What the policy asks and the code does not do (no run checks it): an    *)
(* exercise leaves no debt.                                                *)
ExerciseIsAffordable ==
    [][\A o \in Options :
         Stage("expiring") /\ account.held[o] > 0 /\ account'.owed < account.owed
           => account'.cash + account'.owed >= 0]_vars
=============================================================================
