--------------------------- MODULE FuturesLedger ----------------------------
(***************************************************************************)
(* The lots of a futures position in a backtest: first in, first out, with *)
(* the margin of open contracts set aside from cash and the profit booked  *)
(* when they are closed (_process_futures_fill, _realize_futures_pnl).     *)
(* A lot is a signed quantity and the price it was opened at.              *)
(***************************************************************************)
EXTENDS Integers, Sequences, Functions

Smaller(a, b) == IF a < b THEN a ELSE b
Abs(n) == IF n < 0 THEN -n ELSE n
SignOf(n) == IF n < 0 THEN -1 ELSE 1

Net(lots) == SumFunction([i \in DOMAIN lots |-> lots[i].qty])
Basis(lots) == SumFunction([i \in DOMAIN lots |-> lots[i].qty * lots[i].price])

(* Mutant: a fill larger than the position closes that much all the same.  *)
ClosesWholeFill(lots, signed) == IF Net(lots) * signed < 0 THEN Abs(signed) ELSE 0

(* Mutant: a fill against the position opens lots the other way.           *)
NeverCloses(lots, signed) == 0

(* How much of a fill of this signed quantity closes open contracts.       *)
Closing(lots, signed) ==
    IF Net(lots) * signed < 0 THEN Smaller(Abs(Net(lots)), Abs(signed)) ELSE 0

(* One round of the loop that closes contracts: as many as are left to     *)
(* close of the oldest lot.                                                *)
CloseOldest(s, price) ==
    LET lot == Head(s.lots)
        take == Smaller(Abs(lot.qty), s.left)
        rest == lot.qty - SignOf(lot.qty) * take
    IN  [left |-> s.left - take,
         profit |-> s.profit + SignOf(lot.qty) * take * (price - lot.price),
         lots |-> IF rest = 0 THEN Tail(s.lots) ELSE [s.lots EXCEPT ![1].qty = rest]]

(* Closes qty contracts, the oldest first: the lots left and the profit.   *)
(* A round uses up a lot or the quantity, so that the loop has no more     *)
(* rounds than there are lots.                                             *)
Realized(lots, qty, price) ==
    LET after[n \in 0 .. Len(lots)] ==
            IF n = 0 THEN [left |-> qty, profit |-> 0, lots |-> lots]
            ELSE IF after[n - 1].left = 0 \/ after[n - 1].lots = <<>> THEN after[n - 1]
            ELSE CloseOldest(after[n - 1], price)
    IN  after[Len(lots)]

(* A fill: the lots it leaves and what it adds to the cash.                *)
FuturesFill(lots, signed, price, margin) ==
    LET closing == Closing(lots, signed)
        opening == Abs(signed) - closing
        realized == Realized(lots, closing, price)
    IN  [lots |-> IF opening = 0 THEN realized.lots
                  ELSE Append(realized.lots,
                              [qty |-> SignOf(signed) * opening, price |-> price]),
         cash |-> margin * (closing - opening) + realized.profit]
=============================================================================
