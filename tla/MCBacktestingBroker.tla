------------------------ MODULE MCBacktestingBroker -------------------------
(* One order of each class, and orders of each type, on a future F and a   *)
(* stock S.  Every order may be submitted, in any order and any period.    *)
EXTENDS BacktestingBroker

MCOrders == {"buy", "trail", "short", "bracket", "take", "stop",
             "oco", "high", "low", "pack", "legF", "legS", "combo", "longF", "longS"}

Simple(asset, side, type) ==
    [class |-> "simple", kids |-> <<>>, partner |-> "none", asset |-> asset, qty |-> 1,
     side |-> side, buy |-> side \in {"buy", "buy_to_close"}, type |-> type,
     limit |-> 0, stop |-> 0, by |-> 0, percent |-> FALSE]

(* bracket: buy F at 4, take 6 or stop 2;  oco: sell F at 6 or stop-limit. *)
MCTerms ==
    [o \in MCOrders |->
        CASE o = "buy" -> Simple("F", "buy", "market")
          [] o = "trail" -> [Simple("F", "sell", "trail") EXCEPT !.by = 1]
          [] o = "short" -> [Simple("F", "sell", "stop") EXCEPT !.stop = 3, !.qty = 2]
          [] o = "bracket" -> [Simple("F", "buy", "limit") EXCEPT
                                 !.class = "bracket", !.kids = <<"take", "stop">>, !.limit = 4]
          [] o = "take" -> [Simple("F", "sell_to_close", "limit") EXCEPT
                              !.partner = "stop", !.limit = 6]
          [] o = "stop" -> [Simple("F", "sell_to_close", "stop") EXCEPT
                              !.partner = "take", !.stop = 2]
          [] o = "oco" -> [Simple("F", "sell", "limit") EXCEPT
                             !.class = "oco", !.kids = <<"high", "low">>]
          [] o = "high" -> [Simple("F", "sell", "limit") EXCEPT
                              !.partner = "low", !.limit = 6]
          [] o = "low" -> [Simple("F", "sell", "stop_limit") EXCEPT
                             !.partner = "high", !.stop = 3, !.limit = 2]
          [] o = "pack" -> [Simple("none", "buy", "limit") EXCEPT
                              !.class = "package", !.kids = <<"legF", "legS">>]
          [] o = "legF" -> Simple("F", "buy", "market")
          [] o = "legS" -> Simple("S", "sell", "market")
          [] o = "combo" -> [Simple("none", "buy", "market") EXCEPT
                               !.class = "multileg", !.kids = <<"longF", "longS">>]
          [] o = "longF" -> Simple("F", "buy", "market")
          [] o = "longS" -> Simple("S", "buy", "market")]

BarOf(o, h, l) == [bar |-> [open |-> o, high |-> h, low |-> l], quote |-> NoQuote]
QuoteOf(b, a) == [bar |-> NoBar, quote |-> [bid |-> b, ask |-> a]]
Nothing == [bar |-> NoBar, quote |-> NoQuote]

(* F goes up, down, also with a bid above its bar, opens with a gap, or    *)
(* has a quote only, of two sides or of a bid; S has a quote or nothing.   *)
Period(f, s) == [a \in {"F", "S"} |-> IF a = "F" THEN f ELSE s]
Up == BarOf(4, 6, 4)
Down == BarOf(4, 4, 2)
Gap == BarOf(1, 2, 1)
Bid == [Down EXCEPT !.quote.bid = 6]

MCPeriods == {Period(Up, Nothing), Period(Up, QuoteOf(2, 4)), Period(Down, QuoteOf(2, 4)),
              Period(Gap, Nothing), Period(QuoteOf(4, 6), QuoteOf(2, 4)),
              Period(QuoteOf(4, NoPrice), QuoteOf(2, 4)), Period(Bid, Nothing)}

=============================================================================
