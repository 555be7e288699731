----------------------------- MODULE FillPrices -----------------------------
(***************************************************************************)
(* At what price a working order is filled in a backtest                   *)
(* (backtesting_broker.py; the trailing stop is in entities/order.py).     *)
(*                                                                         *)
(* A price is a natural number; 0 stands for a missing or unusable one.    *)
(* A bar is the open, high and low of the current period, a quote its bid  *)
(* and ask.  Terms of an order:                                            *)
(*   type       "market", "limit", "stop", "stop_limit" or "trail"         *)
(*   buy        is_buy_order()                                             *)
(*   limit, stop                                                           *)
(*   by         how far the trailing stop follows, as a price or, if       *)
(*              percent, as a percentage                                   *)
(* What an order remembers from one bar to the next is its memory: whether *)
(* its stop was triggered, and the current trailing stop.                  *)
(***************************************************************************)
EXTENDS Integers

NoPrice == 0
NoBar == [open |-> NoPrice, high |-> NoPrice, low |-> NoPrice]
NoQuote == [bid |-> NoPrice, ask |-> NoPrice]
Memory == [triggered : BOOLEAN, trail : Int]
Fresh == [triggered |-> FALSE, trail |-> NoPrice]
TwoSided(quote) == quote.bid > 0 /\ quote.ask > 0

(* The price an order of this side pays or gets at once.                   *)
Take(buy, quote) == IF buy THEN quote.ask ELSE quote.bid
Rest(buy, quote) == IF buy THEN quote.bid ELSE quote.ask

(* p is at least as good for the order as q.                               *)
NoWorse(buy, p, q) == IF buy THEN p <= q ELSE p >= q

(* A limit already reached at the open fills there (a gap), otherwise at   *)
(* the limit if the bar trades through it.                                 *)
LimitOrder(limit, buy, bar) ==
    IF NoWorse(buy, bar.open, limit) THEN bar.open
    ELSE IF bar.low <= limit /\ limit <= bar.high THEN limit
    ELSE NoPrice

(* Mutant: a stop that is passed at the open still fills at the stop.      *)
StopWithoutGap(stop, buy, bar) ==
    IF stop = NoPrice THEN NoPrice
    ELSE IF NoWorse(buy, stop, bar.open) THEN stop
    ELSE IF bar.low <= stop /\ stop <= bar.high THEN stop
    ELSE NoPrice

StopOrder(stop, buy, bar) ==
    IF stop = NoPrice THEN NoPrice
    ELSE IF NoWorse(buy, stop, bar.open) THEN bar.open
    ELSE IF bar.low <= stop /\ stop <= bar.high THEN stop
    ELSE NoPrice

(* A limit order takes the other side of a quote when it crosses it.       *)
Crossing(limit, buy, quote) ==
    LET take == Take(buy, quote)
    IN  IF take > 0 /\ NoWorse(buy, take, limit) THEN take ELSE NoPrice

(* Otherwise it is taken at its own price inside the spread, unless the    *)
(* spread is wider than maxSpread percent of the middle (0: no limit).     *)
TooWide(quote, maxSpread) ==
    /\ maxSpread > 0
    /\ TwoSided(quote)
    /\ 200 * (quote.ask - quote.bid) > maxSpread * (quote.ask + quote.bid)

QuoteLimit(limit, buy, quote, maxSpread) ==
    LET take == Crossing(limit, buy, quote)
        rest == Rest(buy, quote)
    IN  IF take # NoPrice THEN take
        ELSE IF rest > 0 /\ NoWorse(buy, rest, limit) /\ ~TooWide(quote, maxSpread)
             THEN limit
        ELSE NoPrice

QuoteStop(stop, buy, quote) ==
    LET take == Take(buy, quote)
    IN  IF stop > 0 /\ take > 0 /\ NoWorse(buy, stop, take) THEN take
        ELSE NoPrice

(* update_trail_stop_price: an amount ratchets in the order's favour, a    *)
(* percentage follows the price of a sell order both ways and that of a    *)
(* buy order not at all.                                                   *)
Trailing(t, price) ==
    LET gap == IF t.percent THEN (price * t.by) \div 100 ELSE t.by
    IN  IF t.buy THEN price + gap ELSE price - gap

TrailAfter(t, trail, price) ==
    LET potential == Trailing(t, price)
        moves == IF t.percent THEN ~t.buy ELSE NoWorse(t.buy, potential, trail)
    IN  IF trail = NoPrice \/ moves THEN potential ELSE trail

(* The verdict on an order: the price to fill it at, or NoPrice, and its   *)
(* memory.  From a bar:                                                    *)
BarVerdict(t, mem, bar) ==
    LET stopped == StopOrder(t.stop, t.buy, bar)
        from == IF mem.triggered THEN bar
                ELSE IF stopped = NoPrice THEN NoBar ELSE [bar EXCEPT !.open = stopped]
    IN  CASE t.type = "market" -> [price |-> bar.open, mem |-> mem]
          [] t.type = "limit" -> [price |-> LimitOrder(t.limit, t.buy, bar), mem |-> mem]
          [] t.type = "stop" -> [price |-> stopped, mem |-> mem]
          [] t.type = "stop_limit" ->
                [price |-> IF from = NoBar THEN NoPrice
                           ELSE LimitOrder(t.limit, t.buy, from),
                 mem |-> [mem EXCEPT !.triggered = @ \/ stopped # NoPrice]]
          [] t.type = "trail" ->
                [price |-> StopOrder(mem.trail, t.buy, bar),
                 mem |-> [mem EXCEPT !.trail =
                            TrailAfter(t, @, IF t.buy THEN bar.low ELSE bar.high)]]

(* From a quote, when there is no bar (_try_fill_with_quote): here the     *)
(* trailing stop moves first and is compared afterwards.                   *)
QuoteVerdict(t, mem, quote, maxSpread) ==
    LET triggered == mem.triggered \/ QuoteStop(t.stop, t.buy, quote) # NoPrice
        seen == Rest(t.buy, quote)
        trail == TrailAfter(t, mem.trail, seen)
    IN  CASE t.type = "market" -> [price |-> Take(t.buy, quote), mem |-> mem]
          [] t.type = "limit" ->
                [price |-> QuoteLimit(t.limit, t.buy, quote, maxSpread), mem |-> mem]
          [] t.type = "stop" ->
                [price |-> QuoteStop(t.stop, t.buy, quote), mem |-> mem]
          [] t.type = "stop_limit" ->
                [price |-> IF triggered THEN QuoteLimit(t.limit, t.buy, quote, maxSpread)
                           ELSE NoPrice,
                 mem |-> [mem EXCEPT !.triggered = triggered]]
          [] t.type = "trail" ->
                IF seen = NoPrice THEN [price |-> NoPrice, mem |-> mem]
                ELSE [price |-> QuoteStop(trail, t.buy, quote),
                      mem |-> [mem EXCEPT !.trail = trail]]
=============================================================================
