------------------------------ MODULE StonxxBot ------------------------------
(***************************************************************************)
(* The daily swing bot (lumibot/example_strategies/stonxx_india_bot.py)    *)
(* and the file it keeps its state in (state_manager.py).                  *)
(*                                                                         *)
(* After the close a plan is made: the orders for the next open.  At the   *)
(* open the plan is carried out, in paper trading on the bot's own books,  *)
(* otherwise at the brokerage.  Both are called from two threads, a cron   *)
(* job and the executor (on_trading_iteration, after_market_closes), and a *)
(* third one calls on_filled_order; self.state is shared and not locked.   *)
(* The process may be killed between any two steps and started again.      *)
(*                                                                         *)
(* Steps are cut where the code waits (for prices and signals, for the     *)
(* brokerage, for the file) and where it reads the books and writes them   *)
(* later.  An operation does not outlast the half day it starts in.        *)
(* Backtesting is left out.                                                *)
(***************************************************************************)
EXTENDS Integers, FiniteSets, SequencesExt

CONSTANTS Symbols,      \* the active universe
          Callers,      \* the cron scheduler's thread and the executor's
          Seed,         \* paper_cash_seed
          Prices,       \* what a share may cost at the open
          LastDay,      \* bound: trading days
          MaxCrashes    \* bound: times the process is killed

ASSUME StonxxAssumption == /\ IsFiniteSet(Callers)
                           /\ Seed \in Nat \ {0}
                           /\ Prices \subseteq Nat \ {0}
                           /\ LastDay \in Nat \ {0}
                           /\ MaxCrashes \in Nat

VARIABLES paper,        \* IS_PAPER_TRADING
          day, phase,   \* the date, and "open" or "close"
          state,        \* self.state, or Down when the process is not running
          file,         \* what the state file holds
          caller,       \* caller[c]: what thread c is about
          handler,      \* the thread that calls on_filled_order
          fills,        \* fills the process has yet to be told of
          position,     \* position[s]: shares at the brokerage
          submitted,    \* submitted[k]: times the plan's order k was submitted
                        \* in this life of the process
          doubled,      \* history: the orders submitted twice in one life
          crashes

vars == <<paper, day, phase, state, file, caller, handler, fills, position,
          submitted, doubled, crashes>>

Down == [at |-> "down"]
Days == 1 .. LastDay + 1
Sides == {"sell", "buy"}
OrderKey == [symbol : Symbols, side : Sides, day : Days]
Order == [key : OrderKey, quantity : Nat \ {0}]

(* active_trades holds a quantity for each symbol, 0 for a missing entry;  *)
(* day 0 is a date of None.                                                *)
BotState == [active : [Symbols -> Nat], pending : SUBSET Order, cash : Int,
             signalDate : {0} \cup Days, submissionDate : {0} \cup Days]

DefaultState == [active |-> [s \in Symbols |-> 0], pending |-> {}, cash |-> 0,
                 signalDate |-> 0, submissionDate |-> 0]

(* What a thread is about: its batch, the orders of it still to be         *)
(* submitted, the paper deal it has yet to book, and the state as dumped   *)
(* to the temporary file.                                                  *)
NoDeal == [symbol |-> "none", buys |-> 0, pays |-> 0]
Deal == [symbol : Symbols, buys : Nat, pays : Int]

Idle == [at |-> "idle", due |-> {}, todo |-> {}, deal |-> NoDeal,
         dump |-> DefaultState]
Batch(due, todo) == [Idle EXCEPT !.at = "batch", !.due = due, !.todo = todo]
Planning == [Idle EXCEPT !.at = "plan"]
Dumping == [Idle EXCEPT !.at = "dump"]
Saving == [Idle EXCEPT !.at = "save", !.dump = state]

Up == state # Down

Init == /\ paper \in BOOLEAN
        /\ day = 1
        /\ phase = "open"
        /\ state = Down
        /\ file = DefaultState
        /\ caller = [c \in Callers |-> Idle]
        /\ handler = Idle
        /\ fills = <<>>
        /\ position = [s \in Symbols |-> 0]
        /\ submitted = [k \in OrderKey |-> 0]
        /\ doubled = {}
        /\ crashes = 0

-----------------------------------------------------------------------------
(* The process. *)

(* initialize: a paper account without cash is given its seed again.       *)
Start == /\ ~Up
         /\ state' = IF paper /\ file.cash <= 0 THEN [file EXCEPT !.cash = Seed]
                                                ELSE file
         /\ file' \in {state', file}
         /\ UNCHANGED <<paper, day, phase, caller, handler, fills, position,
                        submitted, doubled, crashes>>

Crash == /\ Up
         /\ crashes < MaxCrashes
         /\ crashes' = crashes + 1
         /\ state' = Down
         /\ caller' = [c \in Callers |-> Idle]
         /\ handler' = Idle
         /\ fills' = <<>>
         /\ submitted' = [k \in OrderKey |-> 0]
         /\ UNCHANGED <<paper, day, phase, file, position, doubled>>

TimePasses == /\ \A c \in Callers : caller[c] = Idle
              /\ handler = Idle
              /\ IF phase = "open"
                   THEN phase' = "close" /\ UNCHANGED day
                   ELSE phase' = "open" /\ day < LastDay /\ day' = day + 1
              /\ UNCHANGED <<paper, state, file, caller, handler, fills, position,
                             submitted, doubled, crashes>>

-----------------------------------------------------------------------------
(* save_state: the state is dumped, and then the file replaced, or not at  *)
(* all.                                                                    *)

Change(c, s) == state' = s /\ caller' = [caller EXCEPT ![c] = Dumping]

DumpState(c) == /\ caller[c].at = "dump"
                /\ caller' = [caller EXCEPT ![c] = Saving]
                /\ UNCHANGED <<paper, day, phase, state, file, handler, fills,
                               position, submitted, doubled, crashes>>

ReplaceFile(c) == /\ caller[c].at = "save"
                  /\ file' \in {caller[c].dump, file}
                  /\ caller' = [caller EXCEPT ![c] = Idle]
                  /\ UNCHANGED <<paper, day, phase, state, handler, fills,
                                 position, submitted, doubled, crashes>>

SaveState(c) == DumpState(c) \/ ReplaceFile(c)

-----------------------------------------------------------------------------
(* generate_after_close_plan *)

BeginPlan(c) == /\ Up
                /\ phase = "close"
                /\ caller[c] = Idle
                /\ state.signalDate # day
                /\ caller' = [caller EXCEPT ![c] = Planning]
                /\ UNCHANGED <<paper, day, phase, state, file, handler, fills,
                               position, submitted, doubled, crashes>>

(* The shares of s the account is long of. *)
Shares(s) == IF position[s] > 0 THEN position[s] ELSE 0

Holding(s) == IF paper THEN state.active[s] ELSE Shares(s)

Planned(s, side, q) == [key |-> [symbol |-> s, side |-> side, day |-> day + 1],
                        quantity |-> q]

(* _queue_orders_for_next_open: what is held and not selected is sold,     *)
(* some of what is selected and not held is bought, one lot of it.         *)
PendingOrders(selected) ==
    LET held == {s \in Symbols : Holding(s) > 0} IN
    {{Planned(s, "sell", Holding(s)) : s \in held \ selected}
        \cup {Planned(s, "buy", 1) : s \in bought} :
            bought \in SUBSET (selected \ held)}

FinishPlan(c) == /\ caller[c] = Planning
                 /\ \E selected \in SUBSET Symbols :
                        \E plan \in PendingOrders(selected) :
                            Change(c, [state EXCEPT !.pending = plan,
                                                    !.signalDate = day])
                 /\ UNCHANGED <<paper, day, phase, file, handler, fills, position,
                                submitted, doubled, crashes>>

-----------------------------------------------------------------------------
(* submit_pending_orders *)

Due == {o \in state.pending : o.key.day <= day}

BeginBatch(c) == /\ Up
                 /\ phase = "open"
                 /\ caller[c] = Idle
                 /\ state.submissionDate # day
                 /\ Due # {}
                 /\ caller' = [caller EXCEPT ![c] = Batch(Due, Due)]
                 /\ UNCHANGED <<paper, day, phase, state, file, handler, fills,
                                position, submitted, doubled, crashes>>

Lesser(m, n) == IF m < n THEN m ELSE n

(* _paper_execute_order.  A sale takes the whole entry out and then pays;  *)
(* a purchase is cut down to the cash there is, paid and entered.          *)
PaperSell(c, o, price) ==
    LET s == o.key.symbol
        q == Lesser(o.quantity, state.active[s])
    IN  /\ state' = [state EXCEPT !.active[s] = 0]
        /\ caller' = [caller EXCEPT ![c].todo = @ \ {o}, ![c].deal =
                          IF state.active[s] = 0 THEN NoDeal
                          ELSE [symbol |-> s, buys |-> 0, pays |-> - price * q]]

(* Mutant: the cash is not looked at again when the price has changed.     *)
PaperBuyUnchecked(c, o, price) ==
    /\ caller' = [caller EXCEPT ![c].todo = @ \ {o}, ![c].deal =
                      [symbol |-> o.key.symbol, buys |-> o.quantity,
                       pays |-> price * o.quantity]]
    /\ UNCHANGED state

PaperBuy(c, o, price) ==
    LET q == Lesser(o.quantity, state.cash \div price) IN
    /\ caller' = [caller EXCEPT ![c].todo = @ \ {o}, ![c].deal =
                      IF q <= 0 THEN NoDeal
                      ELSE [symbol |-> o.key.symbol, buys |-> q, pays |-> price * q]]
    /\ UNCHANGED state

PaperExecute(c, o) ==
    \E price \in Prices : IF o.key.side = "sell" THEN PaperSell(c, o, price)
                                                 ELSE PaperBuy(c, o, price)

(* Mutant: the books are saved deal by deal.                               *)
BookDealSaved(c) ==
    /\ caller[c].deal # NoDeal
    /\ LET d == caller[c].deal IN
           state' = [state EXCEPT !.cash = @ - d.pays,
                                  !.active[d.symbol] = IF d.buys > 0 THEN d.buys ELSE @]
    /\ file' = state'
    /\ caller' = [caller EXCEPT ![c].deal = NoDeal]
    /\ UNCHANGED <<paper, day, phase, handler, fills, position, submitted, doubled, crashes>>

BookDeal(c) ==
    /\ caller[c].deal # NoDeal
    /\ LET d == caller[c].deal IN
           state' = [state EXCEPT !.cash = @ - d.pays,
                                  !.active[d.symbol] = IF d.buys > 0 THEN d.buys ELSE @]
    /\ caller' = [caller EXCEPT ![c].deal = NoDeal]
    /\ UNCHANGED <<paper, day, phase, file, handler, fills, position, submitted, doubled,
                   crashes>>

(* A market order, which the brokerage fills at once.                      *)
LiveExecute(c, o) ==
    /\ position' = [position EXCEPT ![o.key.symbol] =
                        IF o.key.side = "sell" THEN @ - o.quantity ELSE @ + o.quantity]
    /\ fills' = Append(fills, o)
    /\ caller' = [caller EXCEPT ![c].todo = @ \ {o}]
    /\ UNCHANGED state

(* _submit_order_batch: sales go first, and the rest in an order that is   *)
(* the same for every thread.                                              *)
FirstOf(orders) == CHOOSE o \in orders :
                       o.key.side = "buy" => \A p \in orders : p.key.side = "buy"

SubmitOne(c) ==
    /\ caller[c].at = "batch"
    /\ caller[c].deal = NoDeal
    /\ caller[c].todo # {}
    /\ LET o == FirstOf(caller[c].todo) IN
           /\ submitted' = [submitted EXCEPT ![o.key] = @ + 1]
           /\ doubled' = IF submitted[o.key] > 0 THEN doubled \cup {o.key} ELSE doubled
           /\ IF paper THEN PaperExecute(c, o) /\ UNCHANGED <<position, fills>>
                       ELSE LiveExecute(c, o)
    /\ UNCHANGED <<paper, day, phase, file, handler, crashes>>

(* Mutant: the submitted orders stay in the plan.                          *)
FinishBatchKeeping(c) ==
    /\ caller[c].at = "batch"
    /\ caller[c].todo = {} /\ caller[c].deal = NoDeal
    /\ Change(c, [state EXCEPT !.submissionDate = day])
    /\ UNCHANGED <<paper, day, phase, file, handler, fills, position, submitted, doubled,
                   crashes>>

(* Mutant: the batch is taken out of the plan before it is submitted.      *)
FinishBatchEarly(c) ==
    /\ caller[c].at = "batch"
    /\ Change(c, [state EXCEPT !.pending = @ \ caller[c].due,
                               !.submissionDate = day])
    /\ UNCHANGED <<paper, day, phase, file, handler, fills, position, submitted, doubled,
                   crashes>>

FinishBatch(c) ==
    /\ caller[c].at = "batch"
    /\ caller[c].todo = {} /\ caller[c].deal = NoDeal
    /\ Change(c, [state EXCEPT !.pending = @ \ caller[c].due,
                               !.submissionDate = day])
    /\ UNCHANGED <<paper, day, phase, file, handler, fills, position, submitted, doubled,
                   crashes>>

-----------------------------------------------------------------------------
(* on_filled_order, in live trading only: the entry of a bought symbol is  *)
(* the quantity of the fill, that of a sold one the position that is left. *)

Entry(o) == IF o.key.side = "buy" THEN o.quantity ELSE Shares(o.key.symbol)

OnFilledOrder ==
    /\ Up
    /\ handler = Idle
    /\ fills # <<>>
    /\ LET o == Head(fills) IN state' = [state EXCEPT !.active[o.key.symbol] = Entry(o)]
    /\ handler' = Dumping
    /\ fills' = Tail(fills)
    /\ UNCHANGED <<paper, day, phase, file, caller, position, submitted, doubled, crashes>>

SaveFill == /\ \/ /\ handler.at = "dump"
                  /\ handler' = Saving
                  /\ UNCHANGED file
               \/ /\ handler.at = "save"
                  /\ file' \in {handler.dump, file}
                  /\ handler' = Idle
            /\ UNCHANGED <<paper, day, phase, state, caller, fills, position,
                           submitted, doubled, crashes>>

-----------------------------------------------------------------------------

Plan(c) == BeginPlan(c) \/ FinishPlan(c)

Submission(c) == BeginBatch(c) \/ SubmitOne(c) \/ BookDeal(c) \/ FinishBatch(c)

Next == \/ Start \/ Crash \/ TimePasses
        \/ \E c \in Callers : Plan(c) \/ Submission(c) \/ SaveState(c)
        \/ OnFilledOrder \/ SaveFill

Spec == Init /\ [][Next]_vars

-----------------------------------------------------------------------------
(* Every variable stays in its type.                                       *)
Thread == [at : {"idle", "plan", "batch", "dump", "save"}, due : SUBSET Order,
           todo : SUBSET Order, deal : {NoDeal} \cup Deal, dump : BotState]

StateTypeOK == /\ paper \in BOOLEAN
               /\ day \in 1 .. LastDay /\ phase \in {"open", "close"}
               /\ state = Down \/ state \in BotState
               /\ file \in BotState
               /\ caller \in [Callers -> Thread]
               /\ handler \in Thread
               /\ fills \in Seq(Order)
               /\ position \in [Symbols -> Int]
               /\ submitted \in [OrderKey -> Nat] /\ doubled \subseteq OrderKey
               /\ crashes \in 0 .. MaxCrashes

(* In paper trading a kill does no harm, at whatever point of a batch it   *)
(* comes and whichever thread saved last: the books in the file never show *)
(* an order that the plan in the same file still has to carry out.         *)
PendingFitsBooks ==
    paper => \A o \in file.pending :
                 (o.key.side = "sell") = (file.active[o.key.symbol] > 0)

(* The plan is sized with the closing price and paid with the opening one: *)
(* the saved cash of a paper account is short only where two threads of    *)
(* one process have carried out one order, however often the process was   *)
(* killed in a batch and carried it out again.                             *)
PaperCashCovers == paper /\ file.cash < 0 => doubled # {}

(* At the open an order leaves the plan in force only when this process    *)
(* has submitted it, whichever thread takes it out and whichever began the *)
(* batch.                                                                  *)
PlanNotLost ==
    [][phase = "open" /\ Up /\ Up' =>
           \A o \in state.pending \ state'.pending : submitted[o.key] > 0]_vars

(* No order is submitted more than once by a thread in one life of the     *)
(* process, on whichever day its plan is carried out.                      *)
SubmissionsBounded ==
    \A k \in OrderKey : submitted[k] <= Cardinality(Callers)

-----------------------------------------------------------------------------
(* What the repository says of this code, and it does not do.              *)

(* "Long-only daily swing execution" (stonxx_india_bot.py:1): the account  *)
(* is never short.                                                         *)
NeverShort == \A s \in Symbols : position[s] >= 0
==============================================================================
