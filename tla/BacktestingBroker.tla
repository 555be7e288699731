------------------------- MODULE BacktestingBroker --------------------------
(***************************************************************************)
(* The simulated brokerage of a backtest (backtesting_broker.py, over the  *)
(* base class's event handlers in brokers/broker.py).                      *)
(*                                                                         *)
(* Everything runs in one thread: events are dispatched inline.  The       *)
(* strategy submits and cancels orders; then process_pending_orders takes  *)
(* a snapshot of the working orders and looks at each of them against the  *)
(* prices of the current period.  One step below is one order of that      *)
(* snapshot, with everything its fill sets off: the linked order is        *)
(* canceled, exits of the entry start to work, a position that goes flat   *)
(* cancels the orders that were to close it, the parent is closed.         *)
(*                                                                         *)
(* The cash of a stock fill is booked later, when the executor takes the   *)
(* fill off its event queue; that of a future at once, by its lots.  Until *)
(* the first iteration has ended the executor skips what it takes off.     *)
(*                                                                         *)
(* Fees, slippage, partial fills, option expiry, crypto, daily bars, the   *)
(* choice of the bar for a data source, fills by a quote of one side where *)
(* there is a bar, the fallback at the open of the market, and the limit   *)
(* and the net quote of a package are left out.                            *)
(***************************************************************************)
EXTENDS Integers, FiniteSets, SequencesExt, FillPrices, FuturesLedger

CONSTANTS Orders,       \* every order the strategy may submit, parents and legs too
          Terms,        \* Terms[o]: what it is, see OrderTerms
          NoOrder,
          Assets, Futures,
          Budget,       \* the cash to begin with
          Margin,       \* get_futures_margin_requirement
          MaxSpread,    \* the strategy's max_spread_pct, 0 for none
          Patience,     \* periods a package waits before it times out
          CancelsWithoutBars,  \* a pandas data source
          Periods,      \* what a period may bring: [Assets -> [bar, quote]]
          LastPeriod,   \* bound: periods
          MaxRoots      \* bound: orders submitted

(* class:  "simple", "bracket" or "oto" (kids wait for the order), "oco",  *)
(*         "multileg", or "package", a multi-leg order with a smart limit. *)
(* kids:   child_orders;  partner: dependent_order.                        *)
OrderTerms ==
    [class : {"simple", "bracket", "oto", "oco", "multileg", "package"},
     kids : Seq(Orders), partner : Orders \cup {NoOrder},
     asset : Assets \cup {NoOrder}, qty : Nat \ {0},
     side : {"buy", "sell", "buy_to_close", "sell_to_close"}, buy : BOOLEAN,
     type : {"market", "limit", "stop", "stop_limit", "trail"},
     limit : Nat, stop : Nat, by : Nat, percent : BOOLEAN]

(* What a period brings for an asset: a bar and a quote, or neither.       *)
Feed == [bar : [open : Nat, high : Nat, low : Nat], quote : [bid : Nat, ask : Nat]]
Proper(bar) == bar = NoBar \/ (0 < bar.low /\ bar.low <= bar.open /\ bar.open <= bar.high)

ASSUME BacktestAssumption ==
    /\ IsFiniteSet(Orders) /\ IsFiniteSet(Assets)
    /\ Futures \subseteq Assets
    /\ NoOrder \notin Orders \cup Assets
    /\ Terms \in [Orders -> OrderTerms]
    /\ Periods \subseteq [Assets -> Feed]
    /\ \A period \in Periods : \A a \in Assets : Proper(period[a].bar)
    /\ {Budget, Margin, MaxSpread, Patience, LastPeriod, MaxRoots} \subseteq Nat
    /\ CancelsWithoutBars \in BOOLEAN

VARIABLES book,       \* what the broker holds, see Book
          memory,     \* memory[o]: see FillPrices
          born,       \* born[o]: the period o was submitted in, or Never
          clock,      \* periods begun
          feed,       \* what the current period brings
          todo,       \* orders of the snapshot still to be looked at
          first,      \* strategy._first_iteration
          skipped     \* history: the cash of the fills that were skipped

vars == <<book, memory, born, clock, feed, todo, first, skipped>>

Never == LastPeriod + 1
Statuses == {"unprocessed", "new", "filled", "canceled"}
Lot == [qty : Int, price : Nat]
Book == [status : [Orders -> Statuses],
         new : Seq(Orders),                \* _new_orders
         placeholders : SUBSET Orders,     \* _placeholder_orders
         position : [Assets -> Int],
         lots : [Futures -> Seq(Lot)],
         cash : Int,
         owed : Int,                       \* cash of fills in the event queue
         transactions : [Orders -> Seq(Nat)]]

Kids == [o \in Orders |-> ToSet(Terms[o].kids)]
Roots == Orders \ UNION {Kids[o] : o \in Orders}
Submitted == {o \in Roots : born[o] # Never}

(* parent_identifier, which only OCO and multi-leg orders give their kids. *)
HoldsLegs(p) == Terms[p].class \in {"oco", "multileg", "package"}
ParentOf ==
    [o \in Orders |->
        IF \E p \in Orders : HoldsLegs(p) /\ o \in Kids[p]
        THEN CHOOSE p \in Orders : HoldsLegs(p) /\ o \in Kids[p]
        ELSE NoOrder]
IsLegOf(o, classes) == ParentOf[o] # NoOrder /\ Terms[ParentOf[o]].class \in classes
Managed == {o \in Orders : IsLegOf(o, {"package"})}
Signed(o) == IF Terms[o].buy THEN Terms[o].qty ELSE -Terms[o].qty

(* Orders as the code makes them (_set_order_class_children, and           *)
(* _submit_orders for legs): children are simple orders of one parent, and *)
(* orders are linked in pairs, as the children of a bracket or an OCO,     *)
(* whose parent has their asset.                                           *)
ASSUME TermsAssumption ==
    \A o \in Orders :
        /\ IsInjective(Terms[o].kids)
        /\ Terms[o].class = "simple" => Kids[o] = {}
        /\ ~HoldsLegs(o) => Terms[o].asset \in Assets
        /\ \A k \in Kids[o] : /\ Terms[k].class = "simple"
                              /\ \A p \in Orders : k \in Kids[p] => p = o
                              /\ Terms[o].class = "oco" => Terms[k].asset = Terms[o].asset
        /\ LET q == Terms[o].partner
           IN  q # NoOrder => /\ q # o
                              /\ Terms[q].partner = o
                              /\ \E p \in Orders : /\ Terms[p].class \in {"bracket", "oco"}
                                                   /\ {o, q} \subseteq Kids[p]

Open(b, o) == b.status[o] \in {"unprocessed", "new"}
Active(b, o) == Open(b, o) \/ \E k \in Kids[o] : Open(b, k)

(* The orders of a list that are not in S, in their order.                 *)
Without(list, S) ==
    LET kept[n \in 0 .. Len(list)] ==
            IF n = 0 THEN <<>>
            ELSE IF list[n] \in S THEN kept[n - 1]
            ELSE Append(kept[n - 1], list[n])
    IN  kept[Len(list)]

Marked(b, S, status) == [o \in Orders |-> IF o \in S THEN status ELSE b.status[o]]

(* The NEW_ORDER and CANCELED_ORDER events, and the marks of a fill.       *)
Listed(b, orders) ==
    [b EXCEPT !.status = Marked(b, ToSet(orders), "new"), !.new = @ \o orders]

Canceled(b, S) ==
    [b EXCEPT !.status = Marked(b, S, "canceled"), !.new = Without(@, S)]

Closed(b, o) ==
    [b EXCEPT !.status = Marked(b, {o}, "filled"), !.new = Without(@, {o})]

(* cancel_order: the order whatever its status, and its active children.   *)
CancelOrder(b, o) == Canceled(b, {o} \cup {k \in Kids[o] : Open(b, k)})

(* The position of an asset went flat by an order of this side: the other  *)
(* orders that were only to close it are canceled, a parent if one of its  *)
(* children is such an order, a child only with its parent.                *)
ClosingSides(side) == CASE side \in {"sell", "sell_to_close"} -> {"sell", "sell_to_close"}
                        [] side = "buy_to_close" -> {"buy_to_close"}
                        [] OTHER -> {}

(* Mutant: orders on the asset are not canceled when it goes flat.         *)
KeepOpenOrdersForAsset(b, o) == b

CancelOpenOrdersForAsset(b, o) ==
    LET tracked == {x \in ToSet(b.new) \cup b.placeholders : Active(b, x)}
        sides == ClosingSides(Terms[o].side)
        doomed == {x \in tracked \ {o} :
                     /\ ~\E p \in tracked : x \in Kids[p]
                     /\ Terms[x].asset = Terms[o].asset
                     /\ \E y \in {x} \cup Kids[x] : Terms[y].side \in sides}
    IN  Canceled(b, doomed \cup {k \in UNION {Kids[x] : x \in doomed} : Open(b, k)})

(* The parent closes when none of its children is active any more.         *)
UpdateParentOrderStatus(b, p) ==
    IF \E k \in Kids[p] : Active(b, k) THEN b
    ELSE IF \A k \in Kids[p] : b.status[k] = "canceled" THEN CancelOrder(b, p)
    ELSE Closed(b, p)

Parents(b, o) ==
    IF ParentOf[o] = NoOrder THEN b ELSE UpdateParentOrderStatus(b, ParentOf[o])

(* An OCO parent is closed at the first fill of a child in any case.       *)
CloseOco(b, o) ==
    LET p == ParentOf[o]
    IN  IF IsLegOf(o, {"oco"}) /\ b.status[p] # "filled"
        THEN [b EXCEPT !.status = Marked(b, {p}, "filled"), !.placeholders = @ \ {p}]
        ELSE b

(* The FILLED_ORDER event of an order that trades (_process_filled_order). *)
Traded(b, o, price) ==
    LET a == Terms[o].asset
        flat == b.position[a] + Signed(o) = 0
        done == [Closed(b, o) EXCEPT !.transactions[o] = Append(@, price),
                                     !.position[a] = @ + Signed(o)]
    IN  Parents(IF flat THEN CancelOpenOrdersForAsset(done, o) ELSE done, o)

(* What a fill does to the cash.                                           *)
Paid(b, o, price) ==
    LET a == Terms[o].asset
        fill == FuturesFill(b.lots[a], Signed(o), price, Margin)
    IN  IF a \in Futures
        THEN [b EXCEPT !.lots[a] = fill.lots, !.cash = @ + fill.cash]
        ELSE [b EXCEPT !.owed = @ - Signed(o) * price]

(* Mutant: the linked order is not canceled.                               *)
LeavePartner(b, o) == b

CancelPartner(b, o) ==
    IF Terms[o].partner = NoOrder THEN b ELSE CancelOrder(b, Terms[o].partner)

(* The exits of an entry join _new_orders, without a NEW_ORDER event.      *)
StartKids(b, o) ==
    IF Terms[o].class \in {"bracket", "oto"} THEN [b EXCEPT !.new = @ \o Terms[o].kids]
    ELSE b

(* _execute_filled_order                                                   *)
ExecuteFilledOrder(b, o, price) ==
    CloseOco(Traded(Paid(StartKids(CancelPartner(b, o), o), o, price), o, price), o)
-----------------------------------------------------------------------------
(* The verdict on a working order: fill it (price), or leave it, or cancel *)
(* it for want of data.  A quote comes first for market and limit orders;  *)
(* one of one side only with a pandas data source.                         *)
Verdict(o) ==
    LET t == Terms[o]
        bar == feed[t.asset].bar
        quote == feed[t.asset].quote
        asked == CASE t.type = "market" -> Take(t.buy, quote)
                   [] t.type = "limit" /\ TwoSided(quote) ->
                         QuoteLimit(t.limit, t.buy, quote, MaxSpread)
                   [] t.type = "limit" /\ ~TwoSided(quote) /\ CancelsWithoutBars ->
                         Crossing(t.limit, t.buy, quote)
                   [] OTHER -> NoPrice
        settled == asked # NoPrice \/ (t.type = "limit" /\ TwoSided(quote))
        found == IF settled THEN [price |-> asked, mem |-> memory[o]]
                 ELSE IF bar # NoBar THEN BarVerdict(t, memory[o], bar)
                 ELSE IF CancelsWithoutBars THEN QuoteVerdict(t, memory[o], quote, MaxSpread)
                 ELSE [price |-> NoPrice, mem |-> memory[o]]
    IN  [price |-> found.price, mem |-> found.mem,
         drop |-> ~settled /\ bar = NoBar /\ CancelsWithoutBars /\ found.price = NoPrice]

Single(o) ==
    LET v == Verdict(o)
    IN  /\ memory' = [memory EXCEPT ![o] = v.mem]
        /\ book' = IF v.price # NoPrice THEN ExecuteFilledOrder(book, o, v.price)
                   ELSE IF v.drop THEN CancelOrder(book, o)
                   ELSE book

(* A package fills its legs together at the middle of their quotes; if one *)
(* has none, or the net price is not valid or beyond the package's limit   *)
(* (here a free choice), leg after leg at the open of its bar, up to the   *)
(* first leg that has no bar either.                                       *)
Middle(a) == (feed[a].quote.bid + feed[a].quote.ask) \div 2
Quoted(legs) == \A i \in DOMAIN legs : TwoSided(feed[Terms[legs[i]].asset].quote)
LegPrice(legs, quoted, n) ==
    LET a == Terms[legs[n]].asset
    IN  IF quoted THEN Middle(a)
        ELSE IF \A m \in 1 .. n : feed[Terms[legs[m]].asset].bar # NoBar THEN feed[a].bar.open
        ELSE NoPrice

FillLegs(b, legs, quoted) ==
    LET after[n \in 0 .. Len(legs)] ==
            IF n = 0 THEN b
            ELSE IF LegPrice(legs, quoted, n) = NoPrice THEN after[n - 1]
            ELSE ExecuteFilledOrder(after[n - 1], legs[n], LegPrice(legs, quoted, n))
    IN  after[Len(legs)]

Package(o) ==
    LET legs == Terms[o].kids
        filled(quoted) == FillLegs(book, legs, quoted)
    IN  /\ \E quoted \in {Quoted(legs), FALSE} :
             book' = IF clock - born[o] > Patience THEN CancelOrder(book, o)
                     ELSE IF \A n \in DOMAIN legs : LegPrice(legs, quoted, n) # NoPrice
                          THEN Closed(filled(quoted), o)
                     ELSE filled(quoted)
        /\ UNCHANGED memory

(* A plain multi-leg parent waits for its legs to be filled.               *)
Holder(o) ==
    /\ book' = IF \A k \in Kids[o] : book.status[k] = "filled" THEN Closed(book, o)
               ELSE book
    /\ UNCHANGED memory
-----------------------------------------------------------------------------
Init ==
    /\ book = [status |-> [o \in Orders |-> "unprocessed"], new |-> <<>>,
               placeholders |-> {}, position |-> [a \in Assets |-> 0],
               lots |-> [a \in Futures |-> <<>>], cash |-> Budget, owed |-> 0,
               transactions |-> [o \in Orders |-> <<>>]]
    /\ memory = [o \in Orders |-> Fresh]
    /\ born = [o \in Orders |-> Never]
    /\ clock = 0
    /\ feed = [a \in Assets |-> [bar |-> NoBar, quote |-> NoQuote]]
    /\ todo = <<>>
    /\ first = TRUE
    /\ skipped = 0

(* The strategy submits an order: legs before the parent that holds them,  *)
(* an OCO parent as a placeholder.                                         *)
Submit(o) ==
    LET legs == IF HoldsLegs(o) THEN Terms[o].kids ELSE <<>>
    IN  /\ todo = <<>>
        /\ born[o] = Never
        /\ Cardinality(Submitted) < MaxRoots
        /\ born' = [born EXCEPT ![o] = clock]
        /\ book' = IF Terms[o].class = "oco"
                   THEN [Listed(book, legs) EXCEPT !.status[o] = "new",
                                                   !.placeholders = @ \cup {o}]
                   ELSE Listed(book, Append(legs, o))
        /\ UNCHANGED <<memory, clock, feed, todo, first, skipped>>

(* The strategy cancels an order it has, a parent or one of the children.  *)
Cancel(o) ==
    /\ todo = <<>>
    /\ \E r \in Submitted : o = r \/ o \in Kids[r]
    /\ Open(book, o)
    /\ book' = CancelOrder(book, o)
    /\ UNCHANGED <<memory, born, clock, feed, todo, first, skipped>>

(* The clock moves on and process_pending_orders begins.                   *)
StartPass ==
    /\ todo = <<>>
    /\ clock < LastPeriod
    /\ clock' = clock + 1
    /\ feed' \in Periods
    /\ todo' = book.new
    /\ UNCHANGED <<book, memory, born, first, skipped>>

ProcessOrder ==
    /\ todo # <<>>
    /\ todo' = Tail(todo)
    /\ LET o == Head(todo)
       IN  IF ~Active(book, o) \/ o \in Managed THEN UNCHANGED <<book, memory>>
           ELSE CASE Terms[o].class = "package" -> Package(o)
                  [] Terms[o].class = "multileg" -> Holder(o)
                  [] OTHER -> Single(o)
    /\ UNCHANGED <<born, clock, feed, first, skipped>>

(* The executor takes the fills off its queue (process_queue), and books   *)
(* none of them before the first iteration has ended (process_event).      *)
BookCash ==
    /\ todo = <<>>
    /\ book.owed # 0
    /\ book' = [book EXCEPT !.cash = IF first THEN @ ELSE @ + book.owed, !.owed = 0]
    /\ skipped' = IF first THEN skipped + book.owed ELSE skipped
    /\ UNCHANGED <<memory, born, clock, feed, todo, first>>

(* on_trading_iteration returns for the first time.                        *)
EndFirstIteration ==
    /\ todo = <<>>
    /\ first
    /\ first' = FALSE
    /\ UNCHANGED <<book, memory, born, clock, feed, todo, skipped>>

Next == \/ \E o \in Roots : Submit(o)
        \/ \E o \in Orders : Cancel(o)
        \/ StartPass
        \/ ProcessOrder
        \/ BookCash
        \/ EndFirstIteration

Spec == Init /\ [][Next]_vars
-----------------------------------------------------------------------------
TypeOK ==
    /\ book \in Book
    /\ memory \in [Orders -> Memory]
    /\ born \in [Orders -> 0 .. Never]
    /\ clock \in 0 .. LastPeriod
    /\ feed \in [Assets -> Feed]
    /\ todo \in Seq(Orders)
    /\ first \in BOOLEAN
    /\ skipped \in Int

Traders == {o \in Orders : ~HoldsLegs(o)}
Fills(o) == Len(book.transactions[o])

(* The position of an asset is what its orders bought less what they sold, *)
(* and the lots of a future add up to its position: three records of the   *)
(* same fills kept by different handlers (_process_filled_order,           *)
(* add_transaction, _process_futures_fill).                                *)
BooksAgree ==
    \A a \in Assets :
        /\ book.position[a] =
             SumFunction([o \in {t \in Traders : Terms[t].asset = a} |-> Signed(o) * Fills(o)])
        /\ a \in Futures => Net(book.lots[a]) = book.position[a]

(* Cash is the budget and the proceeds of all fills; a stock's fills count *)
(* when they are taken off the queue, and not at all when that is before   *)
(* the first iteration has ended; an open future's not yet, less the       *)
(* margin of the open contracts (_process_futures_fill, _update_cash).     *)
Proceeds(o) == -Signed(o) * SumFunction(book.transactions[o])
Invested(a) == Basis(book.lots[a]) - Margin * Abs(Net(book.lots[a]))

CashIsProceeds ==
    book.cash + book.owed + skipped =
        Budget + SumFunction([o \in Traders |-> Proceeds(o)])
               + SumFunction([a \in Futures |-> Invested(a)])

(* An order that is not a leg of a package is filled at a price its period *)
(* offers, never beyond its limit and never better than its stop.  A bid   *)
(* without an ask bounds no price from above.                              *)
Offered(a, p) ==
    LET bar == feed[a].bar
        quote == feed[a].quote
    IN  \/ bar.low <= p /\ p <= bar.high
        \/ p = quote.bid
        \/ p = quote.ask
        \/ quote.bid < p /\ p < quote.ask
        \/ quote.bid # NoPrice /\ quote.bid < p /\ quote.ask = NoPrice

FillsAreFair ==
    [][\A o \in Traders :
         (o \notin Managed /\ book'.transactions[o] # book.transactions[o]) =>
            LET t == Terms[o]
                p == Last(book'.transactions[o])
            IN  /\ p > 0
                /\ Offered(t.asset, p)
                /\ t.type \in {"limit", "stop_limit"} => NoWorse(t.buy, p, t.limit)
                /\ t.type = "stop" => NoWorse(t.buy, t.stop, p)]_vars

(* A stop that trails by an amount never moves away from the order's side  *)
(* (update_trail_stop_price, called with the high or the low of a bar, or  *)
(* with a quote).                                                          *)
TrailRatchets ==
    [][\A o \in Orders :
         (Terms[o].type = "trail" /\ ~Terms[o].percent /\ memory[o].trail # NoPrice) =>
            NoWorse(Terms[o].buy, memory'[o].trail, memory[o].trail)]_vars

(* When a fill leaves a position flat, no other order that was only to     *)
(* close it keeps working, the legs of a multi-leg order excepted          *)
(* (_cancel_open_orders_for_asset).                                        *)
Legs == {o \in Traders : IsLegOf(o, {"multileg", "package"})}

NoExitLeftWhenFlat ==
    [][\A o \in Traders :
         (/\ book'.transactions[o] # book.transactions[o]
          /\ book'.position[Terms[o].asset] = 0
          /\ o \notin Legs) =>
            \A x \in ToSet(book'.new) :
                (/\ Terms[x].asset = Terms[o].asset
                 /\ Terms[x].side \in ClosingSides(Terms[o].side)
                 /\ x \notin Legs) => ~Open(book', x)]_vars

(* Apart from the legs of packages, the broker keeps what ContingentOrders *)
(* promises.                                                               *)
Plain == Traders \ Managed
EntryOf == [o \in Plain |->
              IF \E p \in Plain : o \in Kids[p] THEN CHOOSE p \in Plain : o \in Kids[p]
              ELSE NoOrder]
PartnerOf == [o \in Plain |-> Terms[o].partner]
OpenPlain == {o \in Plain : Open(book, o)}

Contingent == INSTANCE ContingentOrders
    WITH Orders <- Plain, Entry <- EntryOf, Partner <- PartnerOf,
         live <- OpenPlain \cap ToSet(book.new),
         waiting <- (OpenPlain \ ToSet(book.new)) \cap UNION {Kids[r] : r \in Submitted},
         filled <- {o \in Plain : book.status[o] = "filled"},
         canceled <- {o \in Plain : book.status[o] = "canceled"}
ImplementsContingent == Contingent!Spec

(* A comment of process_event (lines 541-542) says that what is skipped in *)
(* the first iteration came from before the start of the strategy.         *)
NothingSkipped == skipped = 0

(* broker comments (lines 2008, 3797) say that the legs of a package are   *)
(* filled atomically by their parent: no leg is filled twice.              *)
LegFilledOnce == \A o \in Managed : Fills(o) <= 1

(* A comment (line 919) says that the parent's status follows when all its *)
(* children are filled or canceled: between two passes no parent of legs   *)
(* is open whose legs are all closed.                                      *)
ParentsClose ==
    todo = <<>> => \A p \in Submitted :
        HoldsLegs(p) /\ Open(book, p) => \E k \in Kids[p] : Open(book, k)

(* A comment (lines 886-894) says that a position going flat cancels the   *)
(* remaining close-only orders: an entry whose own side is not such a side *)
(* keeps waiting.                                                          *)
EntriesSurviveFlat ==
    [][\A o \in Traders :
         book'.transactions[o] # book.transactions[o] =>
            \A x \in Traders \ {o, Terms[o].partner} :
                Open(book, x) /\ Terms[x].side \notin ClosingSides(Terms[o].side)
                    => book'.status[x] # "canceled"]_vars
=============================================================================
