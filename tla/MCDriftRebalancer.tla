-------------------------- MODULE MCDriftRebalancer --------------------------
(* Two assets with a target and one without, four portfolios, and an       *)
(* account that holds cash, the first two assets, or mostly the third.     *)
EXTENDS DriftRebalancer, TLC

CONSTANTS a1, a2, a3

ThreeAssets == {a1, a2, a3}
InOrder == <<a1, a2, a3>>
Triple(l, m, n) == a1 :> l @@ a2 :> m @@ a3 :> n
Shares == Triple(1, 1, 1)

Mode(weights, live, relative, only, shorting, market) ==
    [weights |-> weights, live |-> live, relative |-> relative, only |-> only,
     shorting |-> shorting, market |-> market]

(* In a backtest every kind of drift and order; a few of them live.        *)
Backtests ==
    {Mode(Triple(6, 4, 0), FALSE, relative, only, FALSE, FALSE) :
        relative \in BOOLEAN, only \in BOOLEAN}
    \cup {Mode(Triple(3, 6, 0), FALSE, FALSE, FALSE, FALSE, TRUE),
          Mode(Triple(5, -2, 0), FALSE, TRUE, FALSE, TRUE, FALSE)}

LiveModes == {Mode(Triple(6, 4, 0), TRUE, TRUE, TRUE, FALSE, FALSE),
              Mode(Triple(7, 2, 0), TRUE, FALSE, FALSE, FALSE, TRUE)}

AllModes == Backtests \cup LiveModes

Prices == <<Triple(10, 20, 10), Triple(20, 20, 10), Triple(10, 10, 5)>>
Accounts == {[shares |-> Triple(0, 0, 0), cash |-> 70],
             [shares |-> Triple(0, 1, 6), cash |-> 25]}

(* Which the theorem about the cash requires.                              *)
ASSUME EverySalePays == FeesAreSmall
=============================================================================
