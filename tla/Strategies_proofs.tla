-------------------------- MODULE Strategies_proofs --------------------------
(***************************************************************************)
(* Proofs about the two strategies.                                        *)
(*                                                                         *)
(* The first part is about DriftRebalancer for any assets, prices, weights *)
(* and fees and any number of iterations.  What is open in a backtest is   *)
(* what one iteration submitted with the account and the prices at rest,   *)
(* so that each order can be held against the account that it was made     *)
(* for, and the cash against what the open purchases may still cost.       *)
(*                                                                         *)
(* The second part is about StonxxBot for any universe of symbols, any     *)
(* number of threads, any prices, any number of days and of times the      *)
(* process is killed.  The invariant has a part for each thing the four    *)
(* properties rest on: what a thread in a batch may rely on although       *)
(* self.state is not locked, what each copy of the books shows (in memory, *)
(* dumped, in the file), and who may still submit an order.                *)
(***************************************************************************)
EXTENDS StonxxBot, DriftRebalancer, Sums, FiniteSetTheorems, TLAPS

-----------------------------------------------------------------------------
(* The drift rebalancer: its invariant.                                    *)

(* A backtest that must not go short, with orders of limits. *)
Plain == ~mode.live /\ ~mode.shorting

(* In a backtest nothing changes the account or the prices during an       *)
(* iteration.                                                              *)
AccountInv ==
    ~mode.live =>
      /\ pc # "asleep" => seen.shares = shares
      /\ pc \in {"sell", "buy"} => \A a \in Assets : rows[a].quantity = shares[a]

(* In a backtest orders are canceled at once.  One at most is open for an  *)
(* asset: a sell where the drift is negative, a buy where it is positive,  *)
(* once the asset has been visited.                                        *)
Visits(drift, side) == IF side = "sell" THEN drift < 0 ELSE drift > 0
OrdersInv ==
    ~mode.live =>
      /\ \A o \in open : ~o.canceling
      /\ \A o, p \in open : o.asset = p.asset => o = p
      /\ pc \in {"sell", "buy"} =>
           /\ \A a \in todo : Visits(rows[a].drift[1], pc)
           /\ \A o \in open : /\ Visits(rows[o.asset].drift[1], o.side)
                              /\ o.asset \notin todo
      /\ pc = "sell" => \A o \in open : o.side = "sell"

HeldInv ==
    Plain => /\ \A a \in Assets : shares[a] >= 0
             /\ \A o \in open : o.side = "sell" => o.quantity <= shares[o.asset]

(* What the open purchases may cost, without and with their fees.          *)
Purchases == {o \in open : o.side = "buy"}
Price(o) == o.quantity * o.limit * Multiplier[o.asset]
Cost(S) == SumFunction([o \in S |-> Price(o)])
Bought == {o.asset : o \in Purchases}
FeeKept == IF \A a \in Assets : Multiplier[a] = 1 THEN Fee ELSE 0

BudgetInv ==
    Plain /\ ~mode.market =>
      /\ cash - Cost(Purchases) - Fee * Cardinality(Bought) >= -(Fee * FeesNotKept)
      /\ pc = "buy" =>
           /\ budget = cash - Cost(Purchases)
           /\ Purchases # {} => budget >= FeeKept

RebalancerInv ==
    RebalancerTypeOK /\ AccountInv /\ OrdersInv /\ HeldInv /\ BudgetInv
-----------------------------------------------------------------------------
(* Arithmetic: of quotients, and of products that are compared.            *)
LEMMA Quotient ==
  ASSUME NEW n \in Int, NEW d \in Nat \ {0}
  PROVE  n \div d \in Int /\ d * (n \div d) <= n /\ n < d * (n \div d) + d
OBVIOUS

LEMMA QuotientSign ==
  ASSUME NEW n \in Nat, NEW d \in Nat \ {0}
  PROVE  n \div d \in Nat
OBVIOUS

LEMMA ProductGrows ==
  \A x, y \in Int, w \in Nat : x <= y => w * x <= w * y
OBVIOUS

LEMMA FactorCancels ==
  ASSUME NEW w \in Nat \ {0}, NEW x \in Int, NEW y \in Int, w * x <= w * y
  PROVE  x <= y
<1> SUFFICES ASSUME y + 1 <= x PROVE FALSE
  OBVIOUS
<1>1. w * (y + 1) <= w * x
  BY ProductGrows
<1>2. w * (y + 1) = w * y + w
  OBVIOUS
<1>3. w * y \in Int /\ w * x \in Int
  OBVIOUS
<1> QED BY <1>1, <1>2, <1>3

LEMMA QuotientAtLeast ==
  ASSUME NEW n \in Int, NEW d \in Nat \ {0}, NEW q \in Int, n >= d * q
  PROVE  n \div d >= q
<1> DEFINE r == n \div d
<1>1. r \in Int /\ n < d * r + d
  BY Quotient
<1> HIDE DEF r
<1> SUFFICES ASSUME r + 1 <= q PROVE FALSE
  BY <1>1 DEF r
<1>2. d * (r + 1) <= d * q
  BY <1>1, ProductGrows
<1>3. d * (r + 1) = d * r + d
  BY <1>1
<1>4. d * q \in Int /\ d * r \in Int
  BY <1>1
<1> QED BY <1>1, <1>2, <1>3, <1>4

LEMMA LeastOfTwo ==
  ASSUME NEW x \in Int, NEW y \in Int
  PROVE  /\ Min({x, y}) \in Int /\ Min({x, y}) <= x /\ Min({x, y}) <= y
         /\ Max({x, y}) \in {x, y} /\ Max({x, y}) >= x /\ Max({x, y}) >= y
<1>1. x <= y => \A z \in {x, y} : x <= z /\ y >= z
  OBVIOUS
<1>2. y <= x => \A z \in {x, y} : y <= z /\ x >= z
  OBVIOUS
<1>3. x <= y \/ y <= x
  OBVIOUS
<1>4. \E m \in {x, y} : \A z \in {x, y} : m <= z
  BY <1>1, <1>2, <1>3
<1>5. \E m \in {x, y} : \A z \in {x, y} : m >= z
  BY <1>1, <1>2, <1>3
<1>6. Min({x, y}) \in {x, y} /\ \A z \in {x, y} : Min({x, y}) <= z
  BY <1>4 DEF Min
<1>7. Max({x, y}) \in {x, y} /\ \A z \in {x, y} : Max({x, y}) >= z
  BY <1>5 DEF Max
<1> QED BY <1>6, <1>7

-----------------------------------------------------------------------------
(* What the constants give: prices, limits, and bounds of the fees.        *)
LEMMA ConstantsTyped ==
  /\ Whole \in Nat \ {0} /\ Slippage \in Nat /\ Slippage < Whole /\ Fee \in Nat
  /\ Multiplier \in [Assets -> Nat \ {0}]
  /\ IsFiniteSet(Assets)
<1>1. Slippage \in Nat /\ Slippage < Whole
  BY RebalancerAssumption
<1>2. Multiplier \in [Assets -> Nat \ {0}]
  BY RebalancerAssumption
<1> QED BY <1>1, <1>2, RebalancerAssumption

LEMMA ModesTyped ==
  ASSUME NEW m \in Modes
  PROVE  /\ m.weights \in [Assets -> Int]
         /\ m.live \in BOOLEAN /\ m.market \in BOOLEAN /\ m.shorting \in BOOLEAN
<1>1. m \in [weights: [Assets -> Int], live: BOOLEAN, relative: BOOLEAN,
             only: BOOLEAN, shorting: BOOLEAN, market: BOOLEAN]
  BY RebalancerAssumption
<1> QED BY <1>1

LEMMA PricesTyped ==
  ASSUME NEW p \in ToSet(Markets)
  PROVE  /\ p \in [Assets -> Nat \ {0}]
         /\ FeesAreSmall => \A a \in Assets : p[a] * Multiplier[a] >= Fee
<1>1. PICK i \in DOMAIN Markets : p = Markets[i]
  BY DEF ToSet
<1>2. Markets \in Seq([Assets -> Nat \ {0}])
  BY RebalancerAssumption
<1>3. \A s \in Seq([Assets -> Nat \ {0}]) : \A j \in DOMAIN s : s[j] \in [Assets -> Nat \ {0}]
  OBVIOUS
<1> QED BY <1>1, <1>2, <1>3 DEF FeesAreSmall

(* Every limit is a positive price, that of a purchase not below the        *)
(* market's.                                                               *)
LEMMA LimitsTyped ==
  ASSUME RebalancerTypeOK, NEW a \in Assets
  PROVE  /\ SellLimit(a) \in Nat \ {0}
         /\ BuyLimit(a) \in Nat \ {0}
         /\ Multiplier[a] \in Nat \ {0}
<1> DEFINE p == price[a]
           w == Whole
           s == Slippage
<1>1. p \in Nat \ {0} /\ w \in Nat \ {0} /\ s \in Nat /\ s < w
  BY PricesTyped, ConstantsTyped DEF RebalancerTypeOK
<1>2. SellLimit(a) = (p * (w - s) + w - 1) \div w /\ BuyLimit(a) = (p * (w + s)) \div w
  BY DEF SellLimit, BuyLimit
<1> HIDE DEF p, w, s
<1>3. w - s \in Nat \ {0} /\ w + s \in Nat \ {0} /\ w + s >= w
  BY <1>1
<1>4. p * (w - s) \in Nat /\ p * (w - s) >= 1
  BY <1>1, <1>3
<1>5. (p * (w - s) + w - 1) \div w >= 1
  <2> DEFINE n == p * (w - s) + w - 1
  <2>1. n \in Int /\ n >= w * 1
    BY <1>1, <1>4
  <2> HIDE DEF n
  <2>2. n \div w >= 1
    BY <1>1, <2>1, QuotientAtLeast
  <2> QED BY <2>2 DEF n
<1>6. (p * (w + s)) \div w >= 1
  <2> DEFINE n == p * (w + s)
  <2>1. n \in Int
    BY <1>1
  <2>2. p * (w + s) = p * w + p * s /\ p * s \in Nat /\ p * w \in Nat
    BY <1>1
  <2>3. p * w >= w * 1
    <3>1. w * p >= w * 1
      BY <1>1, ProductGrows
    <3>2. w * p = p * w
      BY <1>1
    <3> QED BY <3>1, <3>2
  <2>4. n >= w * 1
    BY <2>2, <2>3, <1>1
  <2> HIDE DEF n
  <2>5. n \div w >= 1
    BY <1>1, <2>1, <2>4, QuotientAtLeast
  <2> QED BY <2>5 DEF n
<1>7. (p * (w - s) + w - 1) \div w \in Int /\ (p * (w + s)) \div w \in Int
  BY <1>1
<1>8. Multiplier[a] \in Nat \ {0}
  BY ConstantsTyped
<1> QED BY <1>2, <1>5, <1>6, <1>7, <1>8

LEMMA FeesTyped ==
  /\ FeesNotKept \in Nat /\ Fee * FeesNotKept \in Nat /\ FeeKept \in Nat
  /\ \A k \in 0 .. Cardinality(Assets) :
       k > 0 => FeeKept - Fee * k >= -(Fee * FeesNotKept)
<1> DEFINE n == Cardinality(Assets)
           plain == \A a \in Assets : Multiplier[a] = 1
<1>1. n \in Nat \ {0} /\ Fee \in Nat
  BY RebalancerAssumption, FS_CardinalityType, FS_EmptySet
<1>2. /\ plain => FeesNotKept = n - 1 /\ FeeKept = Fee
      /\ ~plain => FeesNotKept = n - 0 /\ FeeKept = 0
  BY DEF FeesNotKept, FeeKept
<1> HIDE DEF n, plain
<1>3. FeesNotKept \in Nat /\ FeeKept \in Nat
  BY <1>1, <1>2
<1>4. Fee * FeesNotKept \in Nat
  BY <1>1, <1>3
<1>5. ASSUME NEW k \in 0 .. n, k > 0
      PROVE  FeeKept - Fee * k >= -(Fee * FeesNotKept)
  <2>1. Fee * k <= Fee * n /\ Fee * k \in Int /\ Fee * n \in Int
    BY <1>1, ProductGrows
  <2>2. Fee * (n - 1) = Fee * n - Fee
    BY <1>1
  <2>3. CASE plain
    BY <1>1, <1>2, <2>1, <2>2, <2>3
  <2>4. CASE ~plain
    <3>1. FeesNotKept = n
      BY <1>1, <1>2, <2>4
    <3> QED BY <1>1, <1>2, <2>1, <2>4, <3>1
  <2> QED BY <2>3, <2>4
<1> QED BY <1>3, <1>4, <1>5 DEF n

-----------------------------------------------------------------------------
(* The cost of a set of orders.                                            *)
LEMMA PriceTyped ==
  ASSUME NEW o \in OrderType
  PROVE  Price(o) \in Nat
<1>1. o.quantity \in Nat /\ o.limit \in Nat /\ Multiplier[o.asset] \in Nat
  BY ConstantsTyped DEF OrderType
<1> QED BY <1>1 DEF Price

LEMMA CostTyped ==
  ASSUME NEW S \in SUBSET OrderType, IsFiniteSet(S)
  PROVE  Cost(S) \in Nat /\ (S = {} => Cost(S) = 0)
<1> DEFINE g == [o \in S |-> Price(o)]
<1>1. g \in [S -> Int] /\ \A o \in S : g[o] >= 0
  BY PriceTyped
<1>2. Cost(S) = SumFunction(g)
  BY DEF Cost
<1> HIDE DEF g
<1>3. SumFunction(g) \in Int /\ SumFunction(g) >= 0
  BY <1>1, SumType, SumSign
<1>4. S = {} => SumFunction(g) = 0
  BY <1>1, SumOfNone
<1> QED BY <1>2, <1>3, <1>4

LEMMA CostSplit ==
  ASSUME NEW S \in SUBSET OrderType, IsFiniteSet(S), NEW o \in S
  PROVE  Cost(S) = Price(o) + Cost(S \ {o})
<1> DEFINE g == [p \in S |-> Price(p)]
           h == [p \in S \ {o} |-> g[p]]
<1>1. g \in [S -> Int]
  BY PriceTyped
<1>2. SumFunction(g) = g[o] + SumFunction(h)
  <2> HIDE DEF g
  <2> QED BY <1>1, SumSplit
<1>3. h = [p \in S \ {o} |-> Price(p)] /\ g[o] = Price(o)
  OBVIOUS
<1> HIDE DEF g, h
<1> QED BY <1>2, <1>3 DEF Cost, g
-----------------------------------------------------------------------------
(* What is calculated: a row, and the quantities of the orders.            *)
LEMMA SignTyped ==
  /\ \A n \in Int : Sign(n) \in Int /\ Size(n) \in Nat /\ -n \in Int
  /\ \A n \in Int, d \in Nat \ {0} : TowardZero(n, d) \in Int
<1>1. \A n \in Int : Sign(n) \in {-1, 0, 1} /\ Size(n) \in Nat /\ -n \in Int
  BY DEF Sign, Size
<1>2. ASSUME NEW n \in Int, NEW d \in Nat \ {0} PROVE TowardZero(n, d) \in Int
  <2>1. Size(n) \div d \in Nat /\ Sign(n) \in Int
    BY <1>1, QuotientSign
  <2> QED BY <2>1 DEF TowardZero
<1> QED BY <1>1, <1>2

LEMMA DriftTyped ==
  ASSUME RebalancerTypeOK, NEW w \in Int, NEW q \in Int, NEW v \in Int, NEW t \in Int
  PROVE  DriftOf(w, q, v, t) \in Int \X Int
<1>1. Whole \in Int /\ Size(w) \in Int /\ Sign(w) \in Int /\ -Sign(q) \in Int
  BY ConstantsTyped, SignTyped
<1>2. t * Size(w) \in Int /\ t * Whole \in Int /\ w * t - Whole * v \in Int
  BY <1>1
<1> QED BY <1>1, <1>2 DEF DriftOf

LEMMA TotalTyped ==
  ASSUME RebalancerTypeOK PROVE Total \in Int
<1> DEFINE g == [a \in Assets |-> Worth(a, shares[a])]
<1>1. ASSUME NEW a \in Assets PROVE Worth(a, shares[a]) \in Int
  <2>1. shares[a] \in Int /\ Multiplier[a] \in Int /\ price[a] \in Int
    BY PricesTyped, ConstantsTyped DEF RebalancerTypeOK
  <2> QED BY <2>1 DEF Worth
<1>2. g \in [Assets -> Int]
  BY <1>1
<1>3. Total = cash + SumFunction(g)
  BY DEF Total
<1> HIDE DEF g
<1>4. SumFunction(g) \in Int
  BY <1>2, ConstantsTyped, SumType
<1> QED BY <1>3, <1>4 DEF RebalancerTypeOK

LEMMA RowTyped ==
  ASSUME RebalancerTypeOK, pc = "calculate", NEW a \in Assets
  PROVE  RowOf(a) \in RowType /\ RowOf(a).quantity = seen.shares[a]
<1> DEFINE q == seen.shares[a]
           w == mode.weights[a]
           t == seen.total
           v == CurrentValue(a, q)
<1>1. q \in Int /\ t \in Int
  BY DEF RebalancerTypeOK
<1>2. w \in Int
  BY ModesTyped DEF RebalancerTypeOK
<1>3. price[a] \in Int
  BY PricesTyped DEF RebalancerTypeOK
<1>4. v \in Int
  BY <1>1, <1>3 DEF CurrentValue
<1>5. RowOf(a) = [quantity |-> q, value |-> v, gap |-> w * t - Whole * v,
                  drift |-> DriftOf(w, q, v, t)]
  BY DEF RowOf
<1> HIDE DEF q, w, t, v
<1>6. w * t - Whole * v \in Int
  BY <1>1, <1>2, <1>4, ConstantsTyped
<1>7. DriftOf(w, q, v, t) \in Int \X Int
  BY <1>1, <1>2, <1>4, DriftTyped
<1> QED BY <1>1, <1>4, <1>5, <1>6, <1>7 DEF RowType, q

LEMMA SoldTyped ==
  ASSUME RebalancerTypeOK, pc = "sell", NEW a \in Assets
  PROVE  /\ SellQuantity(a) \in Int
         /\ ~mode.shorting /\ SellQuantity(a) > 0 => SellQuantity(a) <= rows[a].quantity
<1>1. rows[a] \in RowType
  BY DEF RebalancerTypeOK
<1>2. rows[a].quantity \in Int /\ -rows[a].gap \in Int
  BY <1>1 DEF RowType
<1>3. seen.total \in Int /\ mode.weights[a] \in Int
  BY ModesTyped DEF RebalancerTypeOK
<1>4. SellLimit(a) \in Nat \ {0} /\ Multiplier[a] \in Nat \ {0} /\ Whole \in Nat \ {0}
  BY LimitsTyped, ConstantsTyped
<1> DEFINE d == Whole * SellLimit(a)
           e == d * Multiplier[a]
           n == mode.weights[a] * seen.total
<1>5. d \in Nat \ {0} /\ n \in Int
  BY <1>3, <1>4
<1>6. e \in Nat \ {0}
  <2> HIDE DEF d
  <2> QED BY <1>4, <1>5
<1>7. Part(a) = TowardZero(-rows[a].gap, e)
  BY DEF Part
<1> DEFINE short == Size(n) \div d
<1>8. short \in Int /\ Part(a) \in Int
  <2> HIDE DEF d, e, n
  <2>1. Size(n) \in Nat
    BY <1>5, SignTyped
  <2>2. Size(n) \div d \in Nat
    BY <1>5, <2>1, QuotientSign
  <2>3. TowardZero(-rows[a].gap, e) \in Int
    BY <1>2, <1>6, SignTyped
  <2> QED BY <1>7, <2>2, <2>3
<1>9. \/ SellQuantity(a) = short /\ mode.shorting
      \/ SellQuantity(a) = rows[a].quantity
      \/ SellQuantity(a) = 0
      \/ SellQuantity(a) = Part(a) /\ (Part(a) < rows[a].quantity \/ mode.shorting)
  BY DEF SellQuantity
<1> HIDE DEF short
<1> QED BY <1>2, <1>8, <1>9

(* A purchase has no negative quantity; unless it covers a short position, *)
(* it leaves of the budget what is kept back for a fee.                    *)
LEMMA Afforded ==
  ASSUME RebalancerTypeOK, pc = "buy", NEW a \in Assets
  PROVE  LET n == BuyQuantity(a)
             cost == n * BuyLimit(a) * Multiplier[a]
         IN /\ n \in Int /\ BudgetAfter(a, n) \in Int
            /\ ~mode.shorting => /\ n \in Nat
                                 /\ BudgetAfter(a, n) = budget - cost
                                 /\ n > 0 => budget - cost >= FeeKept
<1> DEFINE b == BuyLimit(a)
           m == Multiplier[a]
           w == Whole
           want == Wanted(a)
           n == BuyQuantity(a)
           k == Affordable(want, a)
<1>1. b \in Nat \ {0} /\ m \in Nat \ {0} /\ w \in Nat \ {0} /\ Fee \in Nat /\ budget \in Int
  BY LimitsTyped, ConstantsTyped DEF RebalancerTypeOK
<1>2. rows[a].quantity \in Int /\ rows[a].gap \in Int /\ -rows[a].quantity \in Int
  BY DEF RebalancerTypeOK, RowType
<1>3. want \in Int
  <2>1. w * budget \in Int
    BY <1>1
  <2> QED BY <1>2, <2>1, LeastOfTwo DEF Wanted
<1>4. \/ n = -rows[a].quantity /\ Covers(a)
      \/ n = 0 /\ ~Covers(a)
      \/ n = k /\ want > 0 /\ k * b * m <= budget /\ ~Covers(a)
  <2> HIDE DEF k, want
  <2>1. CASE Covers(a)
    BY <2>1 DEF BuyQuantity
  <2>2. CASE ~Covers(a)
    <3>1. n = IF Spared(a) \/ want <= 0 THEN 0 ELSE IF k * b * m > budget THEN 0 ELSE k
      BY <2>2 DEF BuyQuantity, k, want
    <3>2. k * b * m \in Int => (k * b * m > budget \/ k * b * m <= budget)
      BY <1>1
    <3>3. want > 0 => k * b * m \in Int
      <4> SUFFICES ASSUME want > 0 PROVE k \in Int
        BY <1>1
      <4>1. k = IF want + w * Fee * m < w * budget * m THEN want \div (w * b * m)
                ELSE Max({0, (w * (budget - Fee)) \div (w * b)})
        BY DEF k, Affordable
      <4>2. w * b \in Nat \ {0} /\ w * (budget - Fee) \in Int
        BY <1>1
      <4>3. w * b * m \in Nat \ {0}
        <5> DEFINE d == w * b
        <5> HIDE DEF d
        <5>1. d * m \in Nat \ {0}
          BY <1>1, <4>2 DEF d
        <5> QED BY <5>1 DEF d
      <4>4. want \div (w * b * m) \in Int /\ (w * (budget - Fee)) \div (w * b) \in Int
        BY <1>3, <4>2, <4>3, Quotient
      <4>5. Max({0, (w * (budget - Fee)) \div (w * b)}) \in Int
        <5> DEFINE z == (w * (budget - Fee)) \div (w * b)
        <5>1. z \in Int
          BY <4>4
        <5> HIDE DEF z
        <5>2. Max({0, z}) \in {0, z}
          BY <5>1, LeastOfTwo
        <5>3. Max({0, z}) \in Int
          BY <5>1, <5>2
        <5> QED BY <5>3 DEF z
      <4> HIDE DEF b, m, w
      <4> QED BY <4>1, <4>4, <4>5
    <3> HIDE DEF n, b, m
    <3> QED BY <1>1, <1>3, <2>2, <3>1, <3>2, <3>3
  <2> QED BY <2>1, <2>2
<1>5. want > 0 => k \in Nat /\ (m = 1 /\ k > 0 => k * b * m <= budget - Fee)
  <2> SUFFICES ASSUME want > 0 PROVE k \in Nat /\ (m = 1 /\ k > 0 => k * b * m <= budget - Fee)
    OBVIOUS
  <2>1. k = IF want + w * Fee * m < w * budget * m THEN want \div (w * b * m)
            ELSE Max({0, (w * (budget - Fee)) \div (w * b)})
    BY DEF Affordable
  <2> HIDE DEF k, want, b, m, w
  <2>2. CASE want + w * Fee * m < w * budget * m
    <3> DEFINE d == w * b * m
    <3>1. d \in Nat \ {0}
      <4>1. w * b \in Nat \ {0}
        BY <1>1
      <4> DEFINE e == w * b
      <4> HIDE DEF e
      <4>2. e * m \in Nat \ {0}
        BY <1>1, <4>1 DEF e
      <4> QED BY <4>2 DEF e
    <3>2. k = want \div d
      BY <2>1, <2>2
    <3> HIDE DEF d
    <3>3. k \in Nat /\ d * k <= want
      BY <1>3, <3>1, <3>2, Quotient, QuotientSign
    <3>4. m = 1 => k * b * m <= budget - Fee
      <4> SUFFICES ASSUME m = 1 PROVE k * b * m <= budget - Fee
        OBVIOUS
      <4>1. d = w * b
        BY <1>1 DEF d
      <4>2. want + w * Fee < w * budget
        BY <1>1, <2>2
      <4>3. w * (budget - Fee) = w * budget - w * Fee /\ w * Fee \in Int /\ w * budget \in Int
        BY <1>1
      <4>4. w * (b * k) = d * k
        BY <1>1, <3>3, <4>1
      <4>5. d * k \in Int
        BY <3>1, <3>3
      <4>6. w * (b * k) <= w * (budget - Fee)
        BY <1>3, <3>3, <4>2, <4>3, <4>4, <4>5
      <4>7. b * k <= budget - Fee
        BY <1>1, <3>3, <4>6, FactorCancels
      <4> QED BY <1>1, <3>3, <4>7
    <3> QED BY <3>3, <3>4
  <2>3. CASE ~(want + w * Fee * m < w * budget * m)
    <3> DEFINE d == w * b
               x == w * (budget - Fee)
    <3>1. d \in Nat \ {0} /\ x \in Int
      BY <1>1
    <3>2. k = Max({0, x \div d})
      BY <2>1, <2>3
    <3> HIDE DEF d, x
    <3>3. x \div d \in Int /\ d * (x \div d) <= x
      BY <3>1, Quotient
    <3>4. k = 0 \/ (k = x \div d /\ k >= 0)
      <4> DEFINE z == x \div d
      <4> HIDE DEF z
      <4>1. z \in Int /\ k = Max({0, z})
        BY <3>2, <3>3 DEF z
      <4>2. k \in {0, z} /\ k >= 0
        BY <4>1, LeastOfTwo
      <4> QED BY <4>2 DEF z
    <3>5. CASE k = 0
      BY <3>5
    <3>6. CASE k = x \div d /\ k >= 0
      <4>1. k \in Nat /\ d * k <= x
        BY <3>3, <3>6
      <4>2. w * (b * k) = d * k
        BY <1>1, <4>1 DEF d
      <4>3. b * k <= budget - Fee
        <5>1. w * (b * k) <= w * (budget - Fee)
          BY <4>1, <4>2 DEF x
        <5> QED BY <1>1, <4>1, <5>1, FactorCancels
      <4>4. m = 1 => k * b * m = b * k
        BY <1>1, <4>1
      <4> QED BY <4>1, <4>3, <4>4
    <3> QED BY <3>4, <3>5, <3>6
  <2> QED BY <2>2, <2>3
<1>6. FeeKept = 0 \/ (FeeKept = Fee /\ m = 1)
  BY DEF FeeKept
<1>7. BudgetAfter(a, n) = budget - n * b * (IF Covers(a) THEN 1 ELSE m)
  BY DEF BudgetAfter
<1>8. Covers(a) => mode.shorting
  BY DEF Covers
<1> HIDE DEF n, k, want, b, m, w
<1>9. n \in Int /\ (~Covers(a) => n \in Nat)
  BY <1>2, <1>4, <1>5
<1>10. n * b \in Int /\ n * b * m \in Int /\ n * b * 1 \in Int
  BY <1>1, <1>9
<1>11. BudgetAfter(a, n) \in Int /\ (~Covers(a) => BudgetAfter(a, n) = budget - n * b * m)
  BY <1>1, <1>7, <1>10
<1>12. ASSUME ~Covers(a), n > 0 PROVE budget - n * b * m >= FeeKept
  <2>1. n = k /\ want > 0 /\ n * b * m <= budget
    BY <1>4, <1>12
  <2>2. m = 1 => n * b * m <= budget - Fee
    BY <1>5, <1>12, <2>1
  <2> QED BY <1>1, <1>6, <1>10, <2>1, <2>2
<1>13. n \in Int /\ BudgetAfter(a, n) \in Int
       /\ (~mode.shorting => n \in Nat /\ BudgetAfter(a, n) = budget - n * b * m
                             /\ (n > 0 => budget - n * b * m >= FeeKept))
  BY <1>8, <1>9, <1>11, <1>12
<1> QED BY <1>13, Zenon DEF n, b, m
-----------------------------------------------------------------------------
(* How the invariant begins, and what keeps each part of it.               *)
LEMMA RebalancerBegins ==
  ASSUME RebalancerInit PROVE RebalancerInv
<1>1. PICK e \in Endowments : shares = e.shares /\ cash = e.cash
  BY DEF RebalancerInit
<1>2. e \in [shares: [Assets -> Nat], cash: Nat]
  BY RebalancerAssumption
<1>3. shares \in [Assets -> Nat] /\ cash \in Nat
  BY <1>1, <1>2
<1>4. Markets[1] \in ToSet(Markets)
  <2>1. 1 \in DOMAIN Markets
    <3>1. \A s \in Seq([Assets -> Nat \ {0}]) : s # <<>> => 1 \in DOMAIN s
      OBVIOUS
    <3> QED BY <3>1, RebalancerAssumption
  <2> QED BY <2>1 DEF ToSet
<1>5. open = {} /\ IsFiniteSet(open) /\ Purchases = {} /\ Bought = {}
  BY FS_EmptySet DEF RebalancerInit, Purchases, Bought
<1>6. RebalancerTypeOK
  <2>1. MaxMoves \in Nat /\ MaxFailures \in Nat
    BY RebalancerAssumption
  <2> QED BY <1>3, <1>4, <1>5, <2>1 DEF RebalancerInit, RebalancerTypeOK
<1>7. AccountInv /\ OrdersInv /\ HeldInv
  BY <1>3, <1>5 DEF RebalancerInit, AccountInv, OrdersInv, HeldInv
<1>8. BudgetInv
  <2>1. Cost(Purchases) = 0 /\ Cardinality(Bought) = 0
    <3>1. Cost({}) = 0
      BY CostTyped, FS_EmptySet
    <3> QED BY <1>5, <3>1, FS_EmptySet
  <2>2. Fee * 0 = 0
    BY ConstantsTyped
  <2>3. pc # "buy"
    BY DEF RebalancerInit
  <2> HIDE DEF RebalancerInit
  <2> QED BY <1>3, <2>1, <2>2, <2>3, FeesTyped DEF BudgetInv
<1> QED BY <1>6, <1>7, <1>8 DEF RebalancerInv

LEMMA TypeStep ==
  ASSUME RebalancerTypeOK, [RebalancerNext]_rebalancerVars
  PROVE  RebalancerTypeOK'
<1> USE DEF RebalancerTypeOK
<1>0. MaxMoves \in Nat /\ MaxFailures \in Nat
  BY RebalancerAssumption
<1>1. CASE UNCHANGED rebalancerVars
  BY <1>1 DEF rebalancerVars
<1>2. CASE Sync
  BY <1>0, <1>2, TotalTyped DEF Sync
<1>3. ASSUME open' = Canceled PROVE open' \in SUBSET OrderType /\ IsFiniteSet(open')
  <2>1. CASE mode.live
    <3>1. \A o \in open : [o EXCEPT !.canceling = TRUE] \in OrderType
      BY DEF OrderType
    <3>2. open' = {[o EXCEPT !.canceling = TRUE] : o \in open}
      BY <1>3, <2>1 DEF Canceled
    <3> DEFINE f == [o \in open |-> [o EXCEPT !.canceling = TRUE]]
    <3>3. f \in Surjection(open, open')
      BY <3>2 DEF Surjection
    <3> HIDE DEF f
    <3>4. IsFiniteSet(open')
      BY <3>3, FS_Surjection
    <3> QED BY <3>1, <3>2, <3>4
  <2>2. CASE ~mode.live
    BY <1>3, <2>2, FS_EmptySet DEF Canceled
  <2> QED BY <2>1, <2>2
<1>4. CASE Calculate
  <2> DEFINE table == [a \in Assets |-> RowOf(a)]
  <2>1. table \in [Assets -> RowType]
    BY <1>4, RowTyped DEF Calculate
  <2>2. \/ /\ rows' = table
           /\ todo' = {a \in Assets : table[a].drift[1] < 0}
           /\ pc' = "sell"
           /\ UNCHANGED <<seen, budget>>
        \/ Sleep
    BY <1>4 DEF Calculate
  <2> HIDE DEF table
  <2>3. todo' \subseteq Assets /\ budget' \in Int
    BY <2>2 DEF Sleep
  <2>4. /\ pc' \in {"asleep", "sell"}
        /\ pc' = "sell" => rows' \in [Assets -> RowType] /\ seen' = seen
    BY <2>1, <2>2 DEF Sleep
  <2> QED BY <1>3, <1>4, <2>3, <2>4 DEF Calculate
<1>5. ASSUME NEW a \in Assets, NEW side \in {"buy", "sell"}, NEW n \in Int,
             NEW limit \in Nat \ {0},
             open' = open \cup (IF n > 0 THEN {NewOrder(a, side, n, limit)} ELSE {})
      PROVE  open' \in SUBSET OrderType /\ IsFiniteSet(open')
  <2>1. n > 0 => NewOrder(a, side, n, limit) \in OrderType
    BY DEF NewOrder, OrderType
  <2>2. IsFiniteSet(open \cup {NewOrder(a, side, n, limit)})
    BY FS_AddElement
  <2> QED BY <1>5, <2>1, <2>2
<1>6. CASE Sell
  <2>1. PICK a \in todo :
          /\ open' = open \cup (IF SellQuantity(a) > 0
                                THEN {NewOrder(a, "sell", SellQuantity(a), SellLimit(a))} ELSE {})
          /\ todo' = todo \ {a}
    BY <1>6 DEF Sell
  <2>2. a \in Assets /\ SellQuantity(a) \in Int /\ SellLimit(a) \in Nat \ {0}
    BY <1>6, SoldTyped, LimitsTyped DEF Sell
  <2>3. open' \in SUBSET OrderType /\ IsFiniteSet(open')
    BY <1>5, <2>1, <2>2
  <2> QED BY <1>6, <2>1, <2>3 DEF Sell
<1>7. CASE ReadCash
  BY <1>0, <1>7 DEF ReadCash
<1>8. CASE Buy
  <2>1. PICK a \in todo :
          /\ open' = open \cup (IF BuyQuantity(a) > 0
                                THEN {NewOrder(a, "buy", BuyQuantity(a), BuyLimit(a))} ELSE {})
          /\ budget' = BudgetAfter(a, BuyQuantity(a))
          /\ todo' = todo \ {a}
    BY <1>8 DEF Buy
  <2>2. a \in Assets /\ BuyQuantity(a) \in Int /\ BudgetAfter(a, BuyQuantity(a)) \in Int
        /\ BuyLimit(a) \in Nat \ {0}
    BY <1>8, Afforded, LimitsTyped DEF Buy
  <2>3. open' \in SUBSET OrderType /\ IsFiniteSet(open')
    BY <1>5, <2>1, <2>2
  <2>4. budget' \in Int /\ todo' \subseteq Assets
    BY <2>1, <2>2
  <2> QED BY <1>8, <2>3, <2>4 DEF Buy
<1>9. CASE Done
  BY <1>9 DEF Done, Sleep
<1>10. CASE NoPrice
  <2>1. open' \in SUBSET OrderType /\ IsFiniteSet(open')
    BY <1>3, <1>10 DEF NoPrice
  <2> QED BY <1>0, <1>10, <2>1 DEF NoPrice, Sleep
<1>11. ASSUME NEW o \in open, Fill(o) PROVE RebalancerTypeOK'
  <2> DEFINE n == IF o.side = "buy" THEN o.quantity ELSE -o.quantity
  <2>1. o.asset \in Assets /\ n \in Int
    BY DEF OrderType
  <2>2. shares' = [shares EXCEPT ![o.asset] = @ + n] /\ cash' = cash - Worth(o.asset, n) - Fee
        /\ open' = open \ {o} /\ UNCHANGED <<mode, price, seen, rows, pc, todo, budget, moves, failures>>
    BY <1>11 DEF Fill
  <2> HIDE DEF n
  <2>3. Worth(o.asset, n) \in Int
    BY <2>1, PricesTyped, ConstantsTyped DEF Worth
  <2>4. cash' \in Int
    BY <2>2, <2>3, ConstantsTyped
  <2>5. IsFiniteSet(open')
    BY <2>2, FS_Subset
  <2> QED BY <2>1, <2>2, <2>4, <2>5
<1>12. ASSUME NEW o \in open, EndCancel(o) PROVE RebalancerTypeOK'
  <2>1. IsFiniteSet(open')
    BY <1>12, FS_Subset DEF EndCancel
  <2> QED BY <1>12, <2>1 DEF EndCancel
<1>13. CASE Move
  BY <1>0, <1>13 DEF Move
<1> QED BY <1>1, <1>2, <1>4, <1>6, <1>7, <1>8, <1>9, <1>10, <1>11, <1>12, <1>13
        DEF RebalancerNext, Iteration, SomeFill, SomeCancel
(* The parameters of the strategy stay.                                    *)
LEMMA ModeKept ==
  ASSUME [RebalancerNext]_rebalancerVars PROVE mode' = mode
BY DEF RebalancerNext, Iteration, SomeFill, SomeCancel, Sync, Calculate, Sell, ReadCash, Buy,
       Done, NoPrice, Fill, EndCancel, Move, rebalancerVars

(* The steps of a backtest: those of an iteration, and those between two.  *)
LEMMA BacktestSteps ==
  ASSUME RebalancerTypeOK, OrdersInv, ~mode.live, [RebalancerNext]_rebalancerVars
  PROVE  \/ UNCHANGED rebalancerVars
         \/ Sync \/ Calculate \/ Sell \/ ReadCash \/ Buy \/ Done
         \/ pc = "asleep" /\ \E o \in open : Fill(o)
         \/ pc = "asleep" /\ Move
BY DEF RebalancerNext, Iteration, SomeFill, SomeCancel, NoPrice, Fill, EndCancel, Move, OrdersInv

LEMMA AccountStep ==
  ASSUME RebalancerTypeOK, AccountInv, OrdersInv, [RebalancerNext]_rebalancerVars
  PROVE  AccountInv'
<1> SUFFICES ASSUME ~mode.live
             PROVE  /\ pc' # "asleep" => seen'.shares = shares'
                    /\ pc' \in {"sell", "buy"} =>
                         \A a \in Assets : rows'[a].quantity = shares'[a]
  BY ModeKept DEF AccountInv
<1>0. /\ pc # "asleep" => seen.shares = shares
      /\ pc \in {"sell", "buy"} => \A a \in Assets : rows[a].quantity = shares[a]
  BY DEF AccountInv
<1>1. CASE UNCHANGED rebalancerVars
  BY <1>0, <1>1 DEF rebalancerVars
<1>2. CASE Sync
  BY <1>2 DEF Sync
<1>3. CASE Calculate
  <2>1. pc = "calculate" /\ UNCHANGED shares
    BY <1>3 DEF Calculate
  <2>2. \/ pc' = "sell" /\ seen' = seen /\ rows' = [a \in Assets |-> RowOf(a)]
        \/ pc' = "asleep"
    BY <1>3 DEF Calculate, Sleep
  <2>3. \A a \in Assets : RowOf(a).quantity = shares[a]
    BY <1>0, <2>1, RowTyped
  <2> QED BY <1>0, <2>1, <2>2, <2>3
<1>4. CASE Sell
  BY <1>0, <1>4 DEF Sell
<1>5. CASE ReadCash
  BY <1>0, <1>5 DEF ReadCash
<1>6. CASE Buy
  BY <1>0, <1>6 DEF Buy
<1>7. CASE Done
  BY <1>7 DEF Done, Sleep
<1>8. CASE pc = "asleep" /\ \E o \in open : Fill(o)
  BY <1>8 DEF Fill
<1>9. CASE pc = "asleep" /\ Move
  BY <1>9 DEF Move
<1> QED BY <1>1, <1>2, <1>3, <1>4, <1>5, <1>6, <1>7, <1>8, <1>9, BacktestSteps

LEMMA OrdersStep ==
  ASSUME RebalancerTypeOK, OrdersInv, [RebalancerNext]_rebalancerVars
  PROVE  OrdersInv'
<1> SUFFICES ASSUME ~mode.live
             PROVE  /\ \A o \in open' : ~o.canceling
                    /\ \A o, p \in open' : o.asset = p.asset => o = p
                    /\ pc' \in {"sell", "buy"} =>
                         /\ \A a \in todo' : Visits(rows'[a].drift[1], pc')
                         /\ \A o \in open' : /\ Visits(rows'[o.asset].drift[1], o.side)
                                             /\ o.asset \notin todo'
                    /\ pc' = "sell" => \A o \in open' : o.side = "sell"
  BY ModeKept DEF OrdersInv
<1>0. /\ \A o \in open : ~o.canceling
      /\ \A o, p \in open : o.asset = p.asset => o = p
      /\ pc \in {"sell", "buy"} =>
           /\ \A a \in todo : Visits(rows[a].drift[1], pc)
           /\ \A o \in open : /\ Visits(rows[o.asset].drift[1], o.side)
                              /\ o.asset \notin todo
      /\ pc = "sell" => \A o \in open : o.side = "sell"
  BY DEF OrdersInv
<1>1. CASE UNCHANGED rebalancerVars
  BY <1>0, <1>1 DEF rebalancerVars
<1>2. CASE Sync
  BY <1>0, <1>2 DEF Sync
<1>3. CASE Calculate
  <2> DEFINE table == [a \in Assets |-> RowOf(a)]
  <2>1. open' = {}
    BY <1>3 DEF Calculate, Canceled
  <2>2. \/ /\ rows' = table
           /\ todo' = {a \in Assets : table[a].drift[1] < 0}
           /\ pc' = "sell"
        \/ pc' = "asleep"
    BY <1>3 DEF Calculate, Sleep
  <2> HIDE DEF table
  <2> QED BY <2>1, <2>2 DEF Visits
<1>4. ASSUME NEW a \in todo, NEW n, NEW limit, NEW side,
             pc \in {"sell", "buy"}, side = pc, pc' = pc, rows' = rows, todo' = todo \ {a},
             open' = open \cup (IF n > 0 THEN {NewOrder(a, side, n, limit)} ELSE {})
      PROVE  /\ \A o \in open' : ~o.canceling
             /\ \A o, p \in open' : o.asset = p.asset => o = p
             /\ \A b \in todo' : Visits(rows'[b].drift[1], pc')
             /\ \A o \in open' : /\ Visits(rows'[o.asset].drift[1], o.side)
                                 /\ o.asset \notin todo'
             /\ pc' = "sell" => \A o \in open' : o.side = "sell"
  <2> DEFINE new == NewOrder(a, side, n, limit)
  <2>1. new.asset = a /\ new.side = side /\ ~new.canceling
    BY DEF NewOrder
  <2>2. \A o \in open' : o \in open \/ o = new
    BY <1>4
  <2> HIDE DEF new
  <2>3. \A o \in open : o.asset # a
    BY <1>0, <1>4
  <2>4. \A o, p \in open' : o.asset = p.asset => o = p
    BY <1>0, <2>1, <2>2, <2>3
  <2>5. Visits(rows[a].drift[1], side)
    BY <1>0, <1>4
  <2>6. \A o \in open' : /\ Visits(rows[o.asset].drift[1], o.side)
                         /\ o.asset \notin todo'
    BY <1>0, <1>4, <2>1, <2>2, <2>5
  <2>7. pc = "sell" => \A o \in open' : o.side = "sell"
    BY <1>0, <1>4, <2>1, <2>2
  <2>8. \A o \in open' : ~o.canceling
    BY <1>0, <2>1, <2>2
  <2> QED BY <1>0, <1>4, <2>4, <2>6, <2>7, <2>8
<1>5. CASE Sell
  <2>1. PICK a \in todo :
          /\ open' = open \cup (IF SellQuantity(a) > 0
                                THEN {NewOrder(a, "sell", SellQuantity(a), SellLimit(a))} ELSE {})
          /\ todo' = todo \ {a}
    BY <1>5 DEF Sell
  <2>2. pc = "sell" /\ pc' = pc /\ rows' = rows
    BY <1>5 DEF Sell
  <2> QED BY <1>4, <2>1, <2>2
<1>6. CASE ReadCash
  <2>1. /\ pc = "sell" /\ pc' = "buy" /\ open' = open /\ rows' = rows
        /\ todo' = {a \in Assets : rows[a].drift[1] > 0}
    BY <1>6 DEF ReadCash
  <2>2. \A a \in todo' : Visits(rows'[a].drift[1], pc')
    BY <2>1 DEF Visits
  <2>3. ASSUME NEW o \in open'
        PROVE  Visits(rows'[o.asset].drift[1], o.side) /\ o.asset \notin todo'
    <3>1. o \in open /\ o.side = "sell" /\ Visits(rows[o.asset].drift[1], o.side)
      BY <1>0, <2>1
    <3>2. rows[o.asset].drift[1] \in Int
      BY <2>1, <3>1 DEF RebalancerTypeOK, OrderType, RowType
    <3> QED BY <2>1, <3>1, <3>2 DEF Visits
  <2> QED BY <1>0, <2>1, <2>2, <2>3
<1>7. CASE Buy
  <2>1. PICK a \in todo :
          /\ open' = open \cup (IF BuyQuantity(a) > 0
                                THEN {NewOrder(a, "buy", BuyQuantity(a), BuyLimit(a))} ELSE {})
          /\ todo' = todo \ {a}
    BY <1>7 DEF Buy
  <2>2. pc = "buy" /\ pc' = pc /\ rows' = rows
    BY <1>7 DEF Buy
  <2> QED BY <1>4, <2>1, <2>2
<1>8. CASE Done
  BY <1>0, <1>8 DEF Done, Sleep
<1>9. CASE pc = "asleep" /\ \E o \in open : Fill(o)
  BY <1>0, <1>9 DEF Fill
<1>10. CASE pc = "asleep" /\ Move
  BY <1>0, <1>10 DEF Move
<1> QED BY <1>1, <1>2, <1>3, <1>5, <1>6, <1>7, <1>8, <1>9, <1>10, BacktestSteps

LEMMA HeldStep ==
  ASSUME RebalancerTypeOK, AccountInv, OrdersInv, HeldInv, [RebalancerNext]_rebalancerVars
  PROVE  HeldInv'
<1> SUFFICES ASSUME Plain
             PROVE  /\ \A a \in Assets : shares'[a] >= 0
                    /\ \A o \in open' : o.side = "sell" => o.quantity <= shares'[o.asset]
  BY ModeKept DEF HeldInv, Plain
<1> USE DEF Plain
<1>0. /\ \A a \in Assets : shares[a] >= 0
      /\ \A o \in open : o.side = "sell" => o.quantity <= shares[o.asset]
  BY DEF HeldInv
<1>1. ASSUME shares' = shares, open' \subseteq open
      PROVE  /\ \A a \in Assets : shares'[a] >= 0
             /\ \A o \in open' : o.side = "sell" => o.quantity <= shares'[o.asset]
  BY <1>0, <1>1
<1>2. CASE UNCHANGED rebalancerVars \/ Sync \/ ReadCash \/ Done \/ (pc = "asleep" /\ Move)
  BY <1>1, <1>2 DEF rebalancerVars, Sync, ReadCash, Done, Move
<1>3. CASE Calculate
  BY <1>1, <1>3 DEF Calculate, Canceled
<1>4. CASE Sell
  <2>1. PICK a \in todo :
          open' = open \cup (IF SellQuantity(a) > 0
                             THEN {NewOrder(a, "sell", SellQuantity(a), SellLimit(a))} ELSE {})
    BY <1>4 DEF Sell
  <2>2. pc = "sell" /\ shares' = shares /\ a \in Assets
    BY <1>4 DEF Sell, RebalancerTypeOK
  <2>3. SellQuantity(a) > 0 => SellQuantity(a) <= shares[a]
    BY <2>2, SoldTyped DEF AccountInv
  <2>4. ASSUME NEW o \in open', o.side = "sell" PROVE o.quantity <= shares'[o.asset]
    <3>1. CASE o \in open
      BY <1>0, <2>2, <2>4, <3>1
    <3>2. CASE SellQuantity(a) > 0 /\ o = NewOrder(a, "sell", SellQuantity(a), SellLimit(a))
      BY <2>2, <2>3, <3>2 DEF NewOrder
    <3> QED BY <2>1, <2>4, <3>1, <3>2
  <2> QED BY <1>0, <2>2, <2>4
<1>5. CASE Buy
  <2>1. PICK a \in todo :
          open' = open \cup (IF BuyQuantity(a) > 0
                             THEN {NewOrder(a, "buy", BuyQuantity(a), BuyLimit(a))} ELSE {})
    BY <1>5 DEF Buy
  <2>2. \A o \in open' : o.side = "sell" => o \in open
    BY <2>1 DEF NewOrder
  <2>3. shares' = shares
    BY <1>5 DEF Buy
  <2> QED BY <1>0, <2>2, <2>3
<1>6. ASSUME NEW o \in open, Fill(o)
      PROVE  /\ \A a \in Assets : shares'[a] >= 0
             /\ \A p \in open' : p.side = "sell" => p.quantity <= shares'[p.asset]
  <2> DEFINE n == IF o.side = "buy" THEN o.quantity ELSE -o.quantity
  <2>1. shares' = [shares EXCEPT ![o.asset] = @ + n] /\ open' = open \ {o}
    BY <1>6 DEF Fill
  <2>2. o.asset \in Assets /\ o.quantity \in Nat /\ o.side \in {"buy", "sell"}
    BY DEF RebalancerTypeOK, OrderType
  <2>3. shares[o.asset] + n >= 0
    BY <1>0, <2>2 DEF RebalancerTypeOK
  <2> HIDE DEF n
  <2>4. /\ shares'[o.asset] = shares[o.asset] + n
        /\ \A a \in Assets \ {o.asset} : shares'[a] = shares[a]
    BY <2>1, <2>2 DEF RebalancerTypeOK
  <2>5. \A a \in Assets : shares'[a] >= 0
    BY <1>0, <2>3, <2>4
  <2>6. \A p \in open' : p \in open /\ p.asset # o.asset /\ p.asset \in Assets
    BY <2>1 DEF OrdersInv, RebalancerTypeOK, OrderType
  <2>7. \A p \in open' : p.side = "sell" => p.quantity <= shares'[p.asset]
    BY <1>0, <2>4, <2>6
  <2> QED BY <2>5, <2>7
<1>7. \/ UNCHANGED rebalancerVars
      \/ Sync \/ Calculate \/ Sell \/ ReadCash \/ Buy \/ Done
      \/ pc = "asleep" /\ \E o \in open : Fill(o)
      \/ pc = "asleep" /\ Move
  BY BacktestSteps
<1> QED BY <1>2, <1>3, <1>4, <1>5, <1>6, <1>7
(* The open purchases: a finite set of orders, for at most all assets.     *)
LEMMA PurchasesTyped ==
  ASSUME RebalancerTypeOK
  PROVE  /\ Purchases \in SUBSET OrderType /\ IsFiniteSet(Purchases)
         /\ Cost(Purchases) \in Nat
         /\ Bought \subseteq Assets /\ IsFiniteSet(Bought)
         /\ Cardinality(Bought) \in 0 .. Cardinality(Assets)
         /\ Fee * Cardinality(Bought) \in Nat
<1>1. Purchases \in SUBSET OrderType /\ IsFiniteSet(Purchases)
  BY FS_Subset DEF RebalancerTypeOK, Purchases
<1>2. Cost(Purchases) \in Nat
  BY <1>1, CostTyped
<1>3. Bought \subseteq Assets
  BY <1>1 DEF Bought, OrderType
<1>4. IsFiniteSet(Bought) /\ Cardinality(Bought) <= Cardinality(Assets)
  BY <1>3, ConstantsTyped, FS_Subset
<1>5. Cardinality(Bought) \in Nat /\ Cardinality(Assets) \in Nat
  BY <1>4, ConstantsTyped, FS_CardinalityType
<1>6. Fee * Cardinality(Bought) \in Nat
  BY <1>5, ConstantsTyped
<1> QED BY <1>1, <1>2, <1>3, <1>4, <1>5, <1>6

(* A purchase costs at most what was set aside for it, and a sale of       *)
(* anything brings its fee at least.                                       *)
LEMMA FillPays ==
  ASSUME RebalancerTypeOK, FeesAreSmall, ~mode.market, NEW o \in open, Fill(o)
  PROVE  /\ o.side = "buy" => cash' >= cash - Price(o) - Fee
         /\ o.side = "sell" => cash' >= cash
<1> DEFINE p == price[o.asset]
           m == Multiplier[o.asset]
           q == o.quantity
<1>1. o \in OrderType
  BY DEF RebalancerTypeOK
<1>2. /\ p \in Nat \ {0} /\ m \in Nat \ {0} /\ p * m >= Fee
      /\ q \in Nat \ {0} /\ o.limit \in Nat /\ cash \in Int /\ Fee \in Nat
  BY <1>1, PricesTyped, ConstantsTyped DEF RebalancerTypeOK, OrderType
<1>3. /\ o.side = "buy" => cash' = cash - q * m * p - Fee /\ p <= o.limit
      /\ o.side = "sell" => cash' = cash - (-q) * m * p - Fee
  BY DEF Fill, Worth, Marketable
<1>4. Price(o) = q * o.limit * m
  BY DEF Price
<1> HIDE DEF p, m, q
<1>5. CASE o.side = "buy"
  <2>1. q * m \in Nat
    BY <1>2
  <2>2. (q * m) * p <= (q * m) * o.limit
    BY <1>2, <1>3, <1>5, <2>1, ProductGrows
  <2>3. (q * m) * o.limit = q * o.limit * m
    BY <1>2
  <2>4. (q * m) * p \in Int /\ q * o.limit * m \in Int
    BY <1>2, <2>1
  <2>5. cash' >= cash - Price(o) - Fee
    BY <1>2, <1>3, <1>4, <1>5, <2>2, <2>3, <2>4
  <2> QED BY <1>5, <2>5
<1>6. CASE o.side = "sell"
  <2>1. (-q) * m * p = -(q * (p * m)) /\ q * (p * m) \in Int /\ p * m \in Nat
    BY <1>2
  <2>2. q * (p * m) >= p * m
    <3>1. (p * m) * 1 <= (p * m) * q
      BY <1>2, <2>1, ProductGrows
    <3>2. (p * m) * q = q * (p * m) /\ (p * m) * 1 = p * m
      BY <1>2, <2>1
    <3> QED BY <3>1, <3>2
  <2> DEFINE g == q * (p * m)
             f == p * m
  <2>3. g \in Int /\ f \in Int /\ g >= f /\ f >= Fee /\ cash' = cash - (-g) - Fee
    BY <1>2, <1>3, <1>6, <2>1, <2>2
  <2> HIDE DEF f, g
  <2>4. cash' >= cash
    BY <1>2, <2>3
  <2> QED BY <1>6, <2>4
<1> QED BY <1>5, <1>6

LEMMA BudgetStep ==
  ASSUME RebalancerTypeOK, OrdersInv, BudgetInv, FeesAreSmall, [RebalancerNext]_rebalancerVars
  PROVE  BudgetInv'
<1> SUFFICES ASSUME Plain, ~mode.market
             PROVE  /\ cash' - Cost(Purchases') - Fee * Cardinality(Bought')
                         >= -(Fee * FeesNotKept)
                    /\ pc' = "buy" =>
                         /\ budget' = cash' - Cost(Purchases')
                         /\ Purchases' # {} => budget' >= FeeKept
  BY ModeKept DEF BudgetInv, Plain, Cost, Price
<1>0. /\ cash - Cost(Purchases) - Fee * Cardinality(Bought) >= -(Fee * FeesNotKept)
      /\ pc = "buy" => /\ budget = cash - Cost(Purchases)
                       /\ Purchases # {} => budget >= FeeKept
  BY DEF BudgetInv, Plain
<1>t. RebalancerTypeOK'
  BY TypeStep
<1>n. /\ Fee * FeesNotKept \in Nat /\ FeeKept \in Nat /\ Fee \in Nat
      /\ cash \in Int /\ cash' \in Int /\ budget \in Int /\ budget' \in Int
  BY <1>t, FeesTyped, ConstantsTyped DEF RebalancerTypeOK
<1>p. /\ Cost(Purchases) \in Nat /\ Fee * Cardinality(Bought) \in Nat
      /\ Cost(Purchases') \in Nat /\ Fee * Cardinality(Bought') \in Nat
      /\ Cardinality(Bought) \in Nat /\ Cardinality(Bought') \in 0 .. Cardinality(Assets)
  <2>1. (/\ Cost(Purchases) \in Nat /\ Fee * Cardinality(Bought) \in Nat
         /\ Cardinality(Bought) \in 0 .. Cardinality(Assets))'
    BY <1>t, PurchasesTyped, PTL
  <2> QED BY PurchasesTyped, <2>1 DEF Cost, Price
<1>1. ASSUME cash' = cash, open' = open, pc' # "buy" \/ (pc' = pc /\ budget' = budget)
      PROVE  /\ cash' - Cost(Purchases') - Fee * Cardinality(Bought')
                  >= -(Fee * FeesNotKept)
             /\ pc' = "buy" => /\ budget' = cash' - Cost(Purchases')
                               /\ Purchases' # {} => budget' >= FeeKept
  <2>1. Purchases' = Purchases /\ Bought' = Bought
    BY <1>1 DEF Purchases, Bought
  <2> QED BY <1>0, <1>1, <2>1
<1>2. CASE UNCHANGED rebalancerVars \/ Sync \/ Done
           \/ (pc = "asleep" /\ Move)
  BY <1>1, <1>2 DEF rebalancerVars, Sync, Done, Sleep, Move
<1>none. ASSUME Purchases' = {}
         PROVE  Cost(Purchases') = 0 /\ Fee * Cardinality(Bought') = 0
  <2>1. Cost({}) = 0
    BY CostTyped, FS_EmptySet
  <2>2. Bought' = {}
    BY <1>none DEF Bought
  <2>3. Fee * 0 = 0
    BY <1>n
  <2> QED BY <1>none, <2>1, <2>2, <2>3, FS_EmptySet
<1>3. CASE Calculate
  <2>1. open' = {} /\ cash' = cash /\ pc' # "buy"
    BY <1>3 DEF Calculate, Canceled, Plain, Sleep
  <2>2. Purchases' = {}
    BY <2>1 DEF Purchases
  <2> QED BY <1>0, <1>n, <1>p, <1>none, <2>1, <2>2
<1>4. CASE Sell
  <2>1. PICK a \in todo :
          open' = open \cup (IF SellQuantity(a) > 0
                             THEN {NewOrder(a, "sell", SellQuantity(a), SellLimit(a))} ELSE {})
    BY <1>4 DEF Sell
  <2>2. Purchases' = Purchases
    BY <2>1 DEF Purchases, NewOrder
  <2>3. Bought' = Bought
    BY <2>2 DEF Bought
  <2>4. cash' = cash /\ pc' # "buy"
    BY <1>4 DEF Sell
  <2> QED BY <1>0, <2>2, <2>3, <2>4
<1>5. CASE ReadCash
  <2>1. pc = "sell" /\ open' = open /\ cash' = cash /\ budget' = cash
    BY <1>5 DEF ReadCash, Plain
  <2>2. Purchases' = {}
    BY <2>1 DEF Purchases, OrdersInv, Plain
  <2>3. Purchases = {}
    BY <2>1, <2>2 DEF Purchases
  <2>4. Bought' = Bought
    BY <2>2, <2>3 DEF Bought
  <2> QED BY <1>0, <1>n, <1>none, <2>1, <2>2, <2>3, <2>4
<1>6. CASE Buy
  <2>1. PICK a \in todo :
          /\ open' = open \cup (IF BuyQuantity(a) > 0
                                THEN {NewOrder(a, "buy", BuyQuantity(a), BuyLimit(a))} ELSE {})
          /\ budget' = BudgetAfter(a, BuyQuantity(a))
    BY <1>6 DEF Buy
  <2> DEFINE n == BuyQuantity(a)
             new == NewOrder(a, "buy", n, BuyLimit(a))
  <2>2. pc = "buy" /\ pc' = "buy" /\ cash' = cash /\ a \in Assets
    BY <1>6 DEF Buy, RebalancerTypeOK
  <2>3. /\ n \in Nat /\ budget' = budget - n * BuyLimit(a) * Multiplier[a]
        /\ n > 0 => budget' >= FeeKept
    BY <2>1, <2>2, Afforded DEF Plain
  <2>4. CASE n = 0
    <3>1. open' = open
      BY <2>1, <2>4
    <3>2. Purchases' = Purchases /\ Bought' = Bought
      BY <3>1 DEF Purchases, Bought
    <3>3. 0 * BuyLimit(a) * Multiplier[a] = 0
      BY <2>2, LimitsTyped
    <3>4. budget' = budget
      BY <1>n, <2>3, <2>4, <3>3
    <3> QED BY <1>0, <2>2, <3>2, <3>4
  <2>5. CASE n > 0
    <3> HIDE DEF n
    <3>1. Purchases' = Purchases \cup {new}
      BY <2>1, <2>5 DEF Purchases, NewOrder, n
    <3>2. \A o \in open : o.asset # a
      BY <2>2 DEF OrdersInv, Plain
    <3>3. new \notin Purchases /\ Price(new) = n * BuyLimit(a) * Multiplier[a]
      BY <3>2 DEF Purchases, NewOrder, Price
    <3>4. Purchases' \in SUBSET OrderType /\ IsFiniteSet(Purchases')
      <4>1. (Purchases \in SUBSET OrderType /\ IsFiniteSet(Purchases))'
        BY <1>t, PurchasesTyped, PTL
      <4> QED BY <4>1 DEF OrderType
    <3>5. Cost(Purchases') = Price(new) + Cost(Purchases)
      <4>1. Purchases' \ {new} = Purchases /\ new \in Purchases'
        BY <3>1, <3>3
      <4> HIDE DEF new
      <4> QED BY <3>4, <4>1, CostSplit
    <3>6. Price(new) \in Nat
      BY <3>1, <3>4, PriceTyped
    <3> HIDE DEF new
    <3>7. budget' = cash' - Cost(Purchases')
      BY <1>0, <1>n, <1>p, <2>2, <2>3, <3>3, <3>5, <3>6
    <3>8. Cardinality(Bought') > 0
      <4>1. IsFiniteSet(Bought')
        <5>1. (IsFiniteSet(Bought))'
          BY <1>t, PurchasesTyped, PTL
        <5> QED BY <5>1
      <4>2. Bought' # {}
        BY <3>1 DEF Bought
      <4> QED BY <1>p, <4>1, <4>2, FS_EmptySet
    <3>9. FeeKept - Fee * Cardinality(Bought') >= -(Fee * FeesNotKept)
      BY <1>p, <3>8, FeesTyped
    <3>10. budget' >= FeeKept
      BY <2>3, <2>5
    <3>11. cash' - Cost(Purchases') - Fee * Cardinality(Bought') >= -(Fee * FeesNotKept)
      BY <1>n, <1>p, <3>7, <3>9, <3>10
    <3> QED BY <3>7, <3>10, <3>11
  <2> HIDE DEF n, new
  <2> QED BY <2>3, <2>4, <2>5
<1>7. ASSUME pc = "asleep", NEW o \in open, Fill(o)
      PROVE  /\ cash' - Cost(Purchases') - Fee * Cardinality(Bought')
                  >= -(Fee * FeesNotKept)
             /\ pc' # "buy"
  <2>1. open' = open \ {o} /\ pc' # "buy" /\ o.side \in {"buy", "sell"}
    BY <1>7 DEF Fill, RebalancerTypeOK, OrderType
  <2>2. CASE o.side = "buy"
    <3>1. o \in Purchases /\ Purchases' = Purchases \ {o}
      BY <2>1, <2>2 DEF Purchases
    <3>2. Cost(Purchases) = Price(o) + Cost(Purchases')
      BY <3>1, PurchasesTyped, CostSplit
    <3>3. Bought' = Bought \ {o.asset} /\ o.asset \in Bought
      <4>1. \A p \in Purchases : p.asset = o.asset => p = o
        BY DEF Purchases, OrdersInv, Plain
      <4>2. Bought' = {p.asset : p \in Purchases'}
        BY DEF Bought
      <4> QED BY <3>1, <4>1, <4>2 DEF Bought
    <3>4. Cardinality(Bought') = Cardinality(Bought) - 1
      <4>1. IsFiniteSet(Bought)
        BY PurchasesTyped
      <4>2. Cardinality(Bought \ {o.asset}) = Cardinality(Bought) - 1
        BY <3>3, <4>1, FS_RemoveElement
      <4> QED BY <3>3, <4>2
    <3>5. Fee * Cardinality(Bought') = Fee * Cardinality(Bought) - Fee
      BY <1>n, <1>p, <3>4
    <3>6. Price(o) \in Nat /\ cash' >= cash - Price(o) - Fee
      BY <1>7, <2>2, PriceTyped, FillPays DEF RebalancerTypeOK
    <3> QED BY <1>0, <1>n, <1>p, <2>1, <3>2, <3>5, <3>6
  <2>3. CASE o.side = "sell"
    <3>1. Purchases' = Purchases
      BY <2>1, <2>3 DEF Purchases
    <3>2. Bought' = Bought
      BY <3>1 DEF Bought
    <3>3. cash' >= cash
      BY <1>7, <2>3, FillPays
    <3> QED BY <1>0, <1>n, <1>p, <2>1, <3>1, <3>2, <3>3
  <2> QED BY <2>1, <2>2, <2>3
<1>8. \/ UNCHANGED rebalancerVars
      \/ Sync \/ Calculate \/ Sell \/ ReadCash \/ Buy \/ Done
      \/ pc = "asleep" /\ \E o \in open : Fill(o)
      \/ pc = "asleep" /\ Move
  BY BacktestSteps DEF Plain
<1> QED BY <1>2, <1>3, <1>4, <1>5, <1>6, <1>7, <1>8

(* The two properties follow. *)
LEMMA HeldCovers ==
  ASSUME RebalancerTypeOK, OrdersInv, HeldInv
  PROVE  HeldCoversSells
<1> SUFFICES ASSUME Plain, NEW a \in Assets
             PROVE  shares[a] >= SumFunction([o \in SellsOf(a) |-> o.quantity])
  BY DEF HeldCoversSells, Plain
<1> DEFINE S == SellsOf(a)
           g == [o \in S |-> o.quantity]
<1>1. S \in SUBSET OrderType /\ IsFiniteSet(S)
  BY FS_Subset DEF SellsOf, RebalancerTypeOK
<1>2. g \in [S -> Int] /\ \A o \in S : g[o] = o.quantity
  BY <1>1 DEF OrderType
<1> HIDE DEF g
<1>3. CASE S = {}
  <2>1. SumFunction(g) = 0
    BY <1>2, <1>3, SumOfNone
  <2>2. shares[a] >= 0
    BY DEF HeldInv
  <2> QED BY <2>1, <2>2 DEF g
<1>4. CASE S # {}
  <2>1. PICK o \in S : TRUE
    BY <1>4
  <2>2. o.asset = a /\ o.quantity <= shares[a] /\ S \ {o} = {}
    BY DEF SellsOf, HeldInv, OrdersInv, Plain
  <2> DEFINE h == [p \in S \ {o} |-> g[p]]
  <2>3. SumFunction(g) = g[o] + SumFunction(h)
    BY <1>1, <1>2, SumSplit
  <2>4. h \in [{} -> Int]
    BY <1>2, <2>2
  <2> HIDE DEF h
  <2>5. SumFunction(h) = 0
    BY <2>4, SumOfNone
  <2>6. g[o] = o.quantity /\ g[o] \in Int /\ shares[a] \in Int
    BY <1>2 DEF RebalancerTypeOK
  <2>7. shares[a] >= SumFunction(g)
    BY <2>2, <2>3, <2>5, <2>6
  <2> QED BY <2>7 DEF g
<1> QED BY <1>3, <1>4

LEMMA CashIsCovered ==
  ASSUME RebalancerTypeOK, BudgetInv
  PROVE  CashCovers
<1>1. cash \in Int /\ Fee * FeesNotKept \in Nat
  BY FeesTyped DEF RebalancerTypeOK
<1> QED BY <1>1, PurchasesTyped DEF CashCovers, BudgetInv, Plain

-----------------------------------------------------------------------------
(* The theorems. *)

(* The account, the orders and what an iteration knows stay in their types. *)
THEOREM RebalancerTypeCorrect == RebalancerSpec => []RebalancerTypeOK
<1>1. RebalancerInit => RebalancerTypeOK
  BY RebalancerBegins DEF RebalancerInv
<1>2. RebalancerTypeOK /\ [RebalancerNext]_rebalancerVars => RebalancerTypeOK'
  BY TypeStep
<1> QED BY <1>1, <1>2, PTL DEF RebalancerSpec

(* In a backtest that must not go short the open orders together sell no   *)
(* more of an asset than is held (DriftOrderLogic._rebalance).             *)
THEOREM HeldAlwaysCovers == RebalancerSpec => []HeldCoversSells
<1> DEFINE Inv == RebalancerTypeOK /\ AccountInv /\ OrdersInv /\ HeldInv
<1>1. RebalancerInit => Inv
  BY RebalancerBegins DEF RebalancerInv
<1>2. Inv /\ [RebalancerNext]_rebalancerVars => Inv'
  BY TypeStep, AccountStep, OrdersStep, HeldStep
<1>3. Inv => HeldCoversSells
  BY HeldCovers
<1> QED BY <1>1, <1>2, <1>3, PTL DEF RebalancerSpec

(* No order of a backtest needs cash or shares that are not there, but for *)
(* the fees that adjust_quantity_for_fees does not keep back: as long as   *)
(* what is sold fetches its fee.                                           *)
THEOREM OrdersAlwaysCovered ==
  ASSUME FeesAreSmall
  PROVE  RebalancerSpec => []OrdersAreCovered
<1>1. RebalancerInit => RebalancerInv
  BY RebalancerBegins
<1>2. RebalancerInv /\ [RebalancerNext]_rebalancerVars => RebalancerInv'
  BY TypeStep, AccountStep, OrdersStep, HeldStep, BudgetStep DEF RebalancerInv
<1>3. RebalancerInv => OrdersAreCovered
  BY HeldCovers, CashIsCovered DEF RebalancerInv, OrdersAreCovered
<1> QED BY <1>1, <1>2, <1>3, PTL DEF RebalancerSpec

-----------------------------------------------------------------------------
(* The swing bot.                                                          *)

InBatch(c) == caller[c].at = "batch"

(* A thread that has submitted an order of its batch. *)
Begun(c) == InBatch(c) /\ caller[c].todo # caller[c].due

(* A plan has one order for a symbol, and it is due at the next open.      *)
PlanOK(plan, last) ==
    /\ \A o, p \in plan : o.key.symbol = p.key.symbol => o = p
    /\ \A o \in plan : o.key.day <= last

(* The latest day a plan may be for.                                       *)
NextOpen == IF phase = "open" THEN day ELSE day + 1

(* Sales are of what the books show, purchases of what they do not.        *)
Fits(s) == \A o \in s.pending : (o.key.side = "sell") <=> (s.active[o.key.symbol] > 0)

-----------------------------------------------------------------------------
(* The parts of the invariant. *)

(* Nothing goes on in a process that is not running, and a thread is in    *)
(* its half of the day.                                                    *)
ThreadInv ==
    /\ ~Up => handler = Idle /\ \A c \in Callers : caller[c] = Idle
    /\ paper => handler = Idle /\ fills = <<>>
    /\ \A c \in Callers :
           /\ InBatch(c) => phase = "open" /\ caller[c].due # {}
           /\ caller[c].at = "plan" => phase = "close"
           /\ caller[c].todo \subseteq caller[c].due
           /\ caller[c].deal # NoDeal => Begun(c)

(* Every copy of a plan is one for this open or an earlier one.            *)
PlanInv ==
    /\ PlanOK(file.pending, NextOpen)
    /\ Up => PlanOK(state.pending, NextOpen)
    /\ handler.at = "save" => PlanOK(handler.dump.pending, NextOpen)
    /\ \A c \in Callers :
           /\ PlanOK(caller[c].due, day)
           /\ caller[c].at = "save" => PlanOK(caller[c].dump.pending, NextOpen)

(* A batch is the whole plan, until a thread that has carried it out takes *)
(* it out.                                                                 *)
BatchInv ==
    /\ \A c \in Callers : InBatch(c) => state.pending \in {caller[c].due, {}}
    /\ \A c, d \in Callers : InBatch(c) /\ InBatch(d) => caller[c].due = caller[d].due
    /\ \A c \in Callers :
           caller[c].at = "dump" /\ phase = "open" => state.pending = {}

(* What a thread has taken off its batch has been submitted.               *)
SubmittedInv ==
    /\ \A k \in OrderKey : k.day > day => submitted[k] = 0
    /\ \A c \in Callers : \A o \in caller[c].due \ caller[c].todo :
           submitted[o.key] > 0

(* The threads that may still submit k in this life of the process.        *)
Has(orders, k) == \E o \in orders : o.key = k
MaySubmit(k) ==
    {c \in Callers : IF InBatch(c) THEN Has(caller[c].todo, k) ELSE Has(state.pending, k)}

CountInv ==
    \A k \in OrderKey :
        IF Up THEN submitted[k] + Cardinality(MaySubmit(k)) <= Cardinality(Callers)
              ELSE submitted[k] = 0

(* The books in memory fit the plan when no batch is under way.            *)
BooksInv ==
    paper => /\ Fits(file)
             /\ Up /\ (\A c \in Callers : ~InBatch(c)) => Fits(state)
             /\ \A c \in Callers : caller[c].at = "save" => Fits(caller[c].dump)

(* While no process has submitted an order twice the cash is not short.    *)
Covered ==
    paper /\ doubled = {} =>
        /\ file.cash >= 0
        /\ Up => state.cash >= 0
        /\ \A c \in Callers :
               /\ caller[c].deal # NoDeal => caller[c].deal.pays <= state.cash
               /\ caller[c].at = "save" => caller[c].dump.cash >= 0

(* Then one thread at a time has deals to book.                            *)
CashInv ==
    /\ \A c \in Callers : Begun(c) => submitted[FirstOf(caller[c].due).key] > 0
    /\ doubled = {} => \A c, d \in Callers : Begun(c) /\ Begun(d) => c = d
    /\ Covered

IInv == /\ StateTypeOK /\ ThreadInv /\ PlanInv /\ BatchInv
        /\ SubmittedInv /\ CountInv /\ BooksInv /\ CashInv

-----------------------------------------------------------------------------
(* The state of the bot, and its threads. *)

LEMMA StateIsNotDown == ASSUME NEW s \in BotState PROVE s # Down
<1>1. DOMAIN s = {"active", "pending", "cash", "signalDate", "submissionDate"}
  BY DEF BotState
<1>2. DOMAIN Down = {"at"}
  BY DEF Down
<1> QED BY <1>1, <1>2

LEMMA ThreadShapes ==
    ASSUME StateTypeOK
    PROVE  /\ Idle \in Thread /\ Planning \in Thread /\ Dumping \in Thread
           /\ Up => Saving \in Thread
           /\ \A due, left \in SUBSET Order : Batch(due, left) \in Thread
<1>1. DefaultState \in BotState
  BY DEF DefaultState, BotState
<1>2. Idle \in Thread
  BY <1>1 DEF Idle, Thread
<1>3. Planning \in Thread /\ Dumping \in Thread
  BY <1>2 DEF Planning, Dumping, Thread
<1>4. Up => Saving \in Thread
  BY <1>2 DEF Saving, Thread, Up, StateTypeOK
<1>5. \A due, left \in SUBSET Order : Batch(due, left) \in Thread
  BY <1>2 DEF Batch, Thread
<1> QED BY <1>2, <1>3, <1>4, <1>5

(* What the shapes hold. *)
LEMMA ThreadFields ==
    /\ Idle.at = "idle" /\ Idle.due = {} /\ Idle.todo = {} /\ Idle.deal = NoDeal
    /\ Planning.at = "plan" /\ Planning.due = {} /\ Planning.todo = {}
    /\ Planning.deal = NoDeal
    /\ Dumping.at = "dump" /\ Dumping.due = {} /\ Dumping.todo = {}
    /\ Dumping.deal = NoDeal
    /\ Saving.at = "save" /\ Saving.due = {} /\ Saving.todo = {}
    /\ Saving.deal = NoDeal /\ Saving.dump = state
    /\ \A due, left : LET b == Batch(due, left)
                     IN  b.at = "batch" /\ b.due = due /\ b.todo = left /\ b.deal = NoDeal
BY DEF Idle, Planning, Dumping, Saving, Batch

LEMMA CallerMoves ==
    ASSUME caller \in [Callers -> Thread], NEW c \in Callers, NEW r,
           caller' = [caller EXCEPT ![c] = r]
    PROVE  /\ caller'[c] = r
           /\ \A d \in Callers \ {c} : caller'[d] = caller[d]
           /\ r \in Thread => caller' \in [Callers -> Thread]
OBVIOUS

(* A plan has one order for each of its symbols, at the next open, and     *)
(* sells what is held.                                                     *)
LEMMA PlanShape ==
    ASSUME StateTypeOK, Up, NEW selected \in SUBSET Symbols,
           NEW plan \in PendingOrders(selected)
    PROVE  /\ plan \subseteq Order
           /\ \A o \in plan : o.key.day = day + 1
           /\ \A o, p \in plan : o.key.symbol = p.key.symbol => o = p
           /\ paper => \A o \in plan :
                  (o.key.side = "sell") <=> (state.active[o.key.symbol] > 0)
<1> DEFINE held == {s \in Symbols : Holding(s) > 0}
<1>1. PICK bought \in SUBSET (selected \ held) :
          plan = {Planned(s, "sell", Holding(s)) : s \in held \ selected}
                     \cup {Planned(s, "buy", 1) : s \in bought}
  BY DEF PendingOrders
<1>2. \A s \in Symbols : Holding(s) \in Nat
  <2>1. \A s \in Symbols : state.active[s] \in Nat
    BY DEF StateTypeOK, BotState, Up
  <2>2. \A s \in Symbols : Shares(s) \in Nat
    BY DEF StateTypeOK, Shares
  <2> QED BY <2>1, <2>2 DEF Holding
<1>3. \A s \in Symbols, side \in Sides, q \in Nat \ {0} :
          /\ Planned(s, side, q) \in Order
          /\ Planned(s, side, q).key.symbol = s
          /\ Planned(s, side, q).key.side = side
          /\ Planned(s, side, q).key.day = day + 1
  <2>1. day + 1 \in Days
    BY StonxxAssumption DEF StateTypeOK, Days
  <2> QED BY <2>1 DEF Planned, Order, OrderKey
<1>4. \A o \in plan : \E s \in Symbols, side \in Sides, q \in Nat \ {0} :
          /\ o = Planned(s, side, q)
          /\ \/ s \in held \ selected /\ side = "sell" /\ q = Holding(s)
             \/ s \in selected \ held /\ side = "buy" /\ q = 1
  BY <1>1, <1>2 DEF Sides
<1>5. \A o, p \in plan : o.key.symbol = p.key.symbol => o = p
  BY <1>3, <1>4
<1>6. \A o \in plan : /\ o \in Order /\ o.key.day = day + 1
                      /\ o.key.symbol \in Symbols
                      /\ (o.key.side = "sell") <=> o.key.symbol \in held
  BY <1>3, <1>4
<1>7. paper => \A s \in Symbols : s \in held <=> state.active[s] > 0
  BY DEF Holding
<1> QED BY <1>5, <1>6, <1>7

LEMMA SomeCallers ==
    ASSUME NEW S \in SUBSET Callers
    PROVE  /\ IsFiniteSet(S) /\ Cardinality(S) \in Nat
           /\ Cardinality(Callers) \in Nat /\ Cardinality(S) <= Cardinality(Callers)
BY StonxxAssumption, FS_Subset, FS_CardinalityType

(* Nobody new may submit.                                                  *)
LEMMA CountStays ==
    ASSUME IInv, UNCHANGED <<submitted, doubled, crashes>>, Up, Up',
           \A k \in OrderKey : MaySubmit(k)' \subseteq MaySubmit(k)
    PROVE  CountInv'
<1> SUFFICES ASSUME NEW k \in OrderKey
             PROVE  submitted[k] + Cardinality(MaySubmit(k)') <= Cardinality(Callers)
  BY DEF CountInv
<1>1. submitted[k] + Cardinality(MaySubmit(k)) <= Cardinality(Callers)
  BY DEF IInv, CountInv
<1>2. MaySubmit(k) \in SUBSET Callers /\ MaySubmit(k)' \in SUBSET MaySubmit(k)
  BY DEF MaySubmit
<1>3. /\ Cardinality(MaySubmit(k)') <= Cardinality(MaySubmit(k))
      /\ Cardinality(MaySubmit(k)') \in Nat /\ Cardinality(MaySubmit(k)) \in Nat
  BY <1>2, SomeCallers, FS_Subset
<1>4. submitted[k] \in Nat /\ Cardinality(Callers) \in Nat
  BY <1>2, SomeCallers DEF IInv, StateTypeOK
<1> QED BY <1>1, <1>3, <1>4

(* A thread that turns to something else, with nothing begun, while the    *)
(* others stay as they are.                                                *)
LEMMA QuietMove ==
    ASSUME IInv, NEW c \in Callers, NEW r,
           caller' = [caller EXCEPT ![c] = r], r.todo = r.due, r.deal = NoDeal,
           r.at = "batch" => phase = "open" /\ r.due # {},
           r.at = "plan" => phase = "close",
           Up, Up', UNCHANGED <<paper, day, phase, submitted, doubled, handler, fills>>
    PROVE  /\ ThreadInv' /\ SubmittedInv'
           /\ \A d \in Callers : Begun(d)' => d # c /\ Begun(d) /\ caller'[d] = caller[d]
           /\ \A d \in Callers : Begun(d)' => submitted[FirstOf(caller[d].due).key] > 0
           /\ doubled = {} => \A d, e \in Callers : Begun(d)' /\ Begun(e)' => d = e
<1>1. caller'[c] = r /\ \A d \in Callers \ {c} : caller'[d] = caller[d]
  BY DEF IInv, StateTypeOK
<1>2. ThreadInv'
  <2>1. (paper => handler = Idle /\ fills = <<>>)'
    BY DEF IInv, ThreadInv
  <2>2. ASSUME NEW d \in Callers
        PROVE  /\ InBatch(d)' => phase = "open" /\ caller'[d].due # {}
               /\ caller'[d].at = "plan" => phase = "close"
               /\ caller'[d].todo \subseteq caller'[d].due
               /\ caller'[d].deal # NoDeal => Begun(d)'
    BY <1>1 DEF IInv, ThreadInv, InBatch, Begun
  <2> QED BY <2>1, <2>2 DEF ThreadInv
<1>3. SubmittedInv'
  BY <1>1 DEF IInv, SubmittedInv
<1>4. \A d \in Callers : Begun(d)' => d # c /\ Begun(d) /\ caller'[d] = caller[d]
  BY <1>1 DEF Begun, InBatch
<1> QED BY <1>2, <1>3, <1>4 DEF IInv, CashInv

LEMMA QuietCash ==
    ASSUME IInv, NEW c \in Callers, NEW r,
           caller' = [caller EXCEPT ![c] = r], r.todo = r.due, r.deal = NoDeal,
           r.at = "batch" => phase = "open" /\ r.due # {},
           r.at = "plan" => phase = "close",
           Up, Up', UNCHANGED <<paper, day, phase, submitted, doubled, handler, fills>>,
           state'.cash = state.cash,
           paper /\ doubled = {} => /\ file'.cash >= 0
                                    /\ r.at = "save" => r.dump.cash >= 0
    PROVE  CashInv'
<1>1. /\ \A d \in Callers : Begun(d)' => caller'[d] = caller[d]
      /\ \A d \in Callers : Begun(d)' => submitted[FirstOf(caller[d].due).key] > 0
      /\ doubled = {} => \A d, e \in Callers : Begun(d)' /\ Begun(e)' => d = e
  BY QuietMove
<1>2. caller'[c] = r /\ \A d \in Callers \ {c} : caller'[d] = caller[d]
  BY DEF IInv, StateTypeOK
<1>3. \A d \in Callers : Begun(d)' => submitted'[FirstOf(caller'[d].due).key] > 0
  BY <1>1
<1>4. Covered'
  BY <1>1, <1>2 DEF IInv, CashInv, Covered
<1> QED BY <1>1, <1>3, <1>4 DEF CashInv, Covered

-----------------------------------------------------------------------------
(* The plan. *)

LEMMA BeginPlanStep ==
    ASSUME IInv, NEW c \in Callers, BeginPlan(c)
    PROVE  IInv'
<1>1. /\ Up /\ Up' /\ phase = "close" /\ caller[c] = Idle
      /\ caller' = [caller EXCEPT ![c] = Planning]
      /\ UNCHANGED <<paper, day, phase, state, file, handler, fills, position,
                     submitted, doubled, crashes>>
  BY DEF BeginPlan, Up
<1>2. /\ caller'[c] = Planning /\ caller' \in [Callers -> Thread]
      /\ \A d \in Callers \ {c} : caller'[d] = caller[d]
  BY <1>1, ThreadShapes, CallerMoves DEF IInv, StateTypeOK
<1>3. StateTypeOK'
  BY <1>1, <1>2 DEF IInv, StateTypeOK
<1>4. ThreadInv' /\ SubmittedInv' /\ CashInv'
  <2>1. /\ Planning.todo = Planning.due /\ Planning.deal = NoDeal
        /\ Planning.at = "plan" /\ Planning.at # "batch" /\ Planning.at # "save"
    BY ThreadFields
  <2>2. paper /\ doubled = {} => file'.cash >= 0
    BY <1>1 DEF IInv, CashInv, Covered
  <2>3. ThreadInv' /\ SubmittedInv'
    BY <1>1, <2>1, QuietMove
  <2>4. CashInv'
    BY <1>1, <2>1, <2>2, QuietCash
  <2> QED BY <2>3, <2>4
<1>5. PlanInv'
  BY <1>1, <1>2, ThreadFields DEF IInv, PlanInv, PlanOK, NextOpen
<1>6. BatchInv'
  BY <1>1, <1>2, ThreadFields DEF IInv, BatchInv, InBatch
<1>7. CountInv'
  <2>1. \A k \in OrderKey : MaySubmit(k)' \subseteq MaySubmit(k)
    BY <1>1, <1>2, ThreadFields DEF MaySubmit, InBatch, Has
  <2> QED BY <1>1, <2>1, CountStays
<1>8. BooksInv'
  BY <1>1, <1>2, ThreadFields DEF IInv, BooksInv, InBatch, Fits
<1> QED BY <1>3, <1>4, <1>5, <1>6, <1>7, <1>8 DEF IInv

(* Every thread may submit the new orders, which nobody has submitted.     *)
LEMMA FinishPlanStep ==
    ASSUME IInv, NEW c \in Callers, FinishPlan(c)
    PROVE  IInv'
<1>1. /\ caller[c] = Planning /\ phase = "close" /\ Up
      /\ \A d \in Callers : ~InBatch(d)
  <2>1. caller[c] = Planning
    BY DEF FinishPlan
  <2>2. caller[c].at = "plan" /\ caller[c] # Idle
    BY <2>1, ThreadFields
  <2> QED BY <2>1, <2>2 DEF IInv, ThreadInv
<1>0. PICK selected \in SUBSET Symbols :
          \E plan \in PendingOrders(selected) :
              Change(c, [state EXCEPT !.pending = plan, !.signalDate = day])
  BY DEF FinishPlan
<1>2. PICK plan \in PendingOrders(selected) :
          Change(c, [state EXCEPT !.pending = plan, !.signalDate = day])
  BY <1>0
<1> DEFINE s == [state EXCEPT !.pending = plan, !.signalDate = day]
<1>3. /\ state \in BotState /\ plan \subseteq Order /\ day \in {0} \cup Days
      /\ s \in BotState /\ s.pending = plan /\ s.active = state.active /\ s.cash = state.cash
  <2>1. state \in BotState /\ plan \subseteq Order /\ day \in {0} \cup Days
    BY <1>1, PlanShape, StonxxAssumption DEF IInv, StateTypeOK, Up, Days
  <2> QED BY <2>1 DEF BotState
<1>4. /\ state' = s /\ caller' = [caller EXCEPT ![c] = Dumping] /\ Up'
      /\ UNCHANGED <<paper, day, phase, file, handler, fills, position, submitted, doubled, crashes>>
  BY <1>2, <1>3, StateIsNotDown DEF Change, FinishPlan, Up
<1> HIDE DEF s
<1>5. /\ caller'[c] = Dumping /\ caller' \in [Callers -> Thread]
      /\ \A d \in Callers \ {c} : caller'[d] = caller[d]
  BY <1>4, ThreadShapes, CallerMoves DEF IInv, StateTypeOK
<1>6. StateTypeOK'
  BY <1>3, <1>4, <1>5 DEF IInv, StateTypeOK
<1>7. ThreadInv' /\ SubmittedInv' /\ CashInv'
  <2>1. /\ Dumping.todo = Dumping.due /\ Dumping.deal = NoDeal
        /\ Dumping.at # "plan" /\ Dumping.at # "batch" /\ Dumping.at # "save"
    BY ThreadFields
  <2>2. /\ paper /\ doubled = {} => file'.cash >= 0
        /\ state'.cash = state.cash
    BY <1>3, <1>4 DEF IInv, CashInv, Covered
  <2>3. ThreadInv' /\ SubmittedInv'
    BY <1>1, <1>4, <2>1, QuietMove
  <2>4. CashInv'
    BY <1>1, <1>4, <2>1, <2>2, QuietCash
  <2> QED BY <2>3, <2>4
<1>8. PlanInv'
  <2>1. PlanOK(plan, day + 1) /\ NextOpen = day + 1
    BY <1>1, <1>3, PlanShape DEF PlanOK, NextOpen, IInv, StateTypeOK
  <2> QED BY <1>1, <1>3, <1>4, <1>5, <2>1, ThreadFields DEF IInv, PlanInv, PlanOK, NextOpen
<1>9. BatchInv'
  BY <1>1, <1>4, <1>5, ThreadFields DEF BatchInv, InBatch
<1>10. CountInv'
  <2> SUFFICES ASSUME NEW k \in OrderKey
               PROVE  submitted[k] + Cardinality(MaySubmit(k)') <= Cardinality(Callers)
    BY <1>4 DEF CountInv
  <2>1. /\ submitted[k] \in Nat /\ Cardinality(Callers) \in Nat
        /\ MaySubmit(k)' \in SUBSET Callers /\ MaySubmit(k) \in SUBSET Callers
    BY SomeCallers DEF IInv, StateTypeOK, MaySubmit
  <2>2. CASE k.day > day
    <3>1. submitted[k] = 0
      BY <2>2 DEF IInv, SubmittedInv
    <3>2. Cardinality(MaySubmit(k)') \in Nat /\ Cardinality(MaySubmit(k)') <= Cardinality(Callers)
      BY <2>1, SomeCallers
    <3> HIDE DEF s
    <3> QED BY <2>1, <3>1, <3>2
  <2>3. CASE ~(k.day > day)
    <3>1. \A o \in plan : o.key # k
      <4>1. StateTypeOK /\ Up /\ day \in Nat
        BY <1>1 DEF IInv, StateTypeOK
      <4>2. \A o \in plan : o.key.day = day + 1
        BY <4>1, PlanShape, Zenon
      <4>3. day + 1 > day
        BY <4>1
      <4> QED BY <2>3, <4>2, <4>3, Zenon
    <3>2. MaySubmit(k)' = {}
      BY <1>1, <1>3, <1>4, <1>5, <3>1, ThreadFields DEF MaySubmit, InBatch, Has
    <3>3. Cardinality(MaySubmit(k)') <= Cardinality(MaySubmit(k)) /\ Cardinality(MaySubmit(k)) \in Nat
          /\ Cardinality(MaySubmit(k)') \in Nat
      BY <2>1, <3>2, SomeCallers, FS_EmptySet
    <3>4. submitted[k] + Cardinality(MaySubmit(k)) <= Cardinality(Callers)
      BY <1>1 DEF IInv, CountInv
    <3> QED BY <2>1, <3>3, <3>4
  <2> QED BY <2>2, <2>3
<1>11. BooksInv'
  <2>1. paper => Fits(s)
    BY <1>1, <1>3, PlanShape DEF Fits, IInv
  <2> QED BY <1>1, <1>4, <1>5, <2>1, ThreadFields DEF IInv, BooksInv, InBatch, Fits
<1> QED BY <1>6, <1>7, <1>8, <1>9, <1>10, <1>11 DEF IInv

-----------------------------------------------------------------------------
(* The file. *)

LEMMA DumpStateStep ==
    ASSUME IInv, NEW c \in Callers, DumpState(c)
    PROVE  IInv'
<1>1. /\ Up /\ Up' /\ caller[c].at = "dump" /\ state \in BotState
      /\ caller' = [caller EXCEPT ![c] = Saving]
      /\ UNCHANGED <<paper, day, phase, state, file, handler, fills, position,
                     submitted, doubled, crashes>>
  <2>1. Up
    BY ThreadFields DEF DumpState, IInv, ThreadInv
  <2> QED BY <2>1 DEF DumpState, Up, IInv, StateTypeOK
<1>2. /\ caller'[c] = Saving /\ caller' \in [Callers -> Thread]
      /\ \A d \in Callers \ {c} : caller'[d] = caller[d]
  BY <1>1, ThreadShapes, CallerMoves DEF IInv, StateTypeOK
<1>3. StateTypeOK'
  BY <1>1, <1>2 DEF IInv, StateTypeOK
<1>4. ThreadInv' /\ SubmittedInv' /\ CashInv'
  <2>1. /\ Saving.todo = Saving.due /\ Saving.deal = NoDeal
        /\ Saving.at # "plan" /\ Saving.at # "batch" /\ Saving.dump = state
    BY ThreadFields
  <2>2. paper /\ doubled = {} => file'.cash >= 0 /\ state.cash >= 0
    BY <1>1 DEF IInv, CashInv, Covered
  <2>3. ThreadInv' /\ SubmittedInv'
    BY <1>1, <2>1, QuietMove
  <2>4. CashInv'
    BY <1>1, <2>1, <2>2, QuietCash
  <2> QED BY <2>3, <2>4
<1>5. PlanInv'
  <2>1. PlanOK({}, day) /\ PlanOK(state.pending, NextOpen) /\ NextOpen' = NextOpen
    BY <1>1 DEF IInv, PlanInv, PlanOK, NextOpen
  <2>2. Saving.due = {} /\ Saving.dump = state
    BY ThreadFields
  <2> QED BY <1>1, <1>2, <2>1, <2>2 DEF IInv, PlanInv
<1>6. BatchInv'
  BY <1>1, <1>2, ThreadFields DEF IInv, BatchInv, InBatch
<1>7. CountInv'
  <2>1. \A k \in OrderKey : MaySubmit(k)' \subseteq MaySubmit(k)
    BY <1>1, <1>2, ThreadFields DEF MaySubmit, InBatch, Has
  <2> QED BY <1>1, <2>1, CountStays
<1>8. BooksInv'
  <2>1. paper => Fits(state)
    <3>1. CASE phase = "open"
      BY <1>1, <3>1 DEF IInv, BatchInv, Fits
    <3>2. CASE phase # "open"
      BY <1>1, <3>2 DEF IInv, ThreadInv, BooksInv
    <3> QED BY <3>1, <3>2
  <2>2. Saving.at # "batch" /\ Saving.dump = state
    BY ThreadFields
  <2>3. \A d \in Callers : caller'[d].at = "save" => d = c \/ caller[d].at = "save"
    BY <1>2
  <2> QED BY <1>1, <1>2, <2>1, <2>2, <2>3 DEF IInv, BooksInv, InBatch, Fits
<1> QED BY <1>3, <1>4, <1>5, <1>6, <1>7, <1>8 DEF IInv

LEMMA ReplaceFileStep ==
    ASSUME IInv, NEW c \in Callers, ReplaceFile(c)
    PROVE  IInv'
<1>1. /\ Up /\ Up' /\ caller[c].at = "save"
      /\ file' = caller[c].dump \/ file' = file
      /\ caller' = [caller EXCEPT ![c] = Idle]
      /\ UNCHANGED <<paper, day, phase, state, handler, fills, position,
                     submitted, doubled, crashes>>
  <2>1. Up
    BY ThreadFields DEF ReplaceFile, IInv, ThreadInv
  <2> QED BY <2>1 DEF ReplaceFile, Up
<1>2. /\ caller'[c] = Idle /\ caller' \in [Callers -> Thread] /\ file' \in BotState
      /\ \A d \in Callers \ {c} : caller'[d] = caller[d]
  <2>1. caller[c].dump \in BotState
    BY DEF IInv, StateTypeOK, Thread
  <2> QED BY <1>1, <2>1, ThreadShapes, CallerMoves DEF IInv, StateTypeOK
<1>3. StateTypeOK'
  BY <1>1, <1>2 DEF IInv, StateTypeOK
<1>4. ThreadInv' /\ SubmittedInv' /\ CashInv'
  <2>1. /\ Idle.todo = Idle.due /\ Idle.deal = NoDeal
        /\ Idle.at # "plan" /\ Idle.at # "batch" /\ Idle.at # "save"
    BY ThreadFields
  <2>2. paper /\ doubled = {} => file'.cash >= 0
    BY <1>1 DEF IInv, CashInv, Covered
  <2>3. ThreadInv' /\ SubmittedInv'
    BY <1>1, <2>1, QuietMove
  <2>4. CashInv'
    BY <1>1, <2>1, <2>2, QuietCash
  <2> QED BY <2>3, <2>4
<1>5. PlanInv'
  <2>1. PlanOK({}, day) /\ PlanOK(file'.pending, NextOpen) /\ NextOpen' = NextOpen
    BY <1>1 DEF IInv, PlanInv, PlanOK, NextOpen
  <2>2. Idle.due = {} /\ Idle.at # "save"
    BY ThreadFields
  <2> QED BY <1>1, <1>2, <2>1, <2>2 DEF IInv, PlanInv
<1>6. BatchInv'
  BY <1>1, <1>2, ThreadFields DEF IInv, BatchInv, InBatch
<1>7. CountInv'
  <2>1. \A k \in OrderKey : MaySubmit(k)' \subseteq MaySubmit(k)
    BY <1>1, <1>2, ThreadFields DEF MaySubmit, InBatch, Has
  <2> QED BY <1>1, <2>1, CountStays
<1>8. BooksInv'
  <2>1. paper => Fits(file)'
    BY <1>1 DEF IInv, BooksInv, Fits
  <2>2. Idle.at # "batch" /\ Idle.at # "save" /\ caller[c].at # "batch"
    BY <1>1, ThreadFields
  <2>3. \A d \in Callers : InBatch(d)' <=> InBatch(d)
    BY <1>2, <2>2 DEF InBatch
  <2>4. \A d \in Callers : caller'[d].at = "save" =>
            caller[d].at = "save" /\ caller'[d] = caller[d]
    BY <1>2, <2>2
  <2> QED BY <1>1, <2>1, <2>3, <2>4 DEF IInv, BooksInv, Fits
<1> QED BY <1>3, <1>4, <1>5, <1>6, <1>7, <1>8 DEF IInv

-----------------------------------------------------------------------------
(* The batch. *)

LEMMA BeginBatchStep ==
    ASSUME IInv, NEW c \in Callers, BeginBatch(c)
    PROVE  IInv'
<1> DEFINE r == Batch(Due, Due)
<1>1. /\ Up /\ Up' /\ phase = "open" /\ caller[c] = Idle /\ Due # {}
      /\ caller' = [caller EXCEPT ![c] = r]
      /\ UNCHANGED <<paper, day, phase, state, file, handler, fills, position,
                     submitted, doubled, crashes>>
  BY DEF BeginBatch, Up
<1>2. Due = state.pending /\ Due \in SUBSET Order /\ PlanOK(Due, day)
  <2>1. PlanOK(state.pending, day)
    BY <1>1 DEF IInv, PlanInv, NextOpen
  <2>2. state.pending \in SUBSET Order
    BY <1>1 DEF IInv, StateTypeOK, BotState, Up
  <2> QED BY <2>1, <2>2 DEF Due, PlanOK
<1>3. r \in Thread /\ r.at = "batch" /\ r.due = Due /\ r.todo = Due /\ r.deal = NoDeal
  BY <1>2, ThreadShapes, ThreadFields DEF IInv
<1> HIDE DEF r
<1>4. /\ caller'[c] = r /\ caller' \in [Callers -> Thread]
      /\ \A d \in Callers \ {c} : caller'[d] = caller[d]
  BY <1>1, <1>3, CallerMoves DEF IInv, StateTypeOK
<1>5. StateTypeOK'
  BY <1>1, <1>4 DEF IInv, StateTypeOK
<1>6. ThreadInv' /\ SubmittedInv' /\ CashInv'
  <2>1. r.at # "plan" /\ r.at # "save" /\ r.todo = r.due /\ r.due # {}
    BY <1>1, <1>3
  <2>2. paper /\ doubled = {} => file'.cash >= 0
    BY <1>1 DEF IInv, CashInv, Covered
  <2>3. ThreadInv' /\ SubmittedInv'
    BY <1>1, <1>3, <2>1, QuietMove
  <2>4. CashInv'
    BY <1>1, <1>3, <2>1, <2>2, QuietCash
  <2> QED BY <2>3, <2>4
<1>7. PlanInv'
  BY <1>1, <1>2, <1>3, <1>4 DEF IInv, PlanInv, NextOpen
<1>8. BatchInv'
  <2>1. \A d \in Callers : InBatch(d)' => caller'[d].due = state.pending
    BY <1>1, <1>2, <1>3, <1>4 DEF IInv, BatchInv, InBatch
  <2>2. \A d \in Callers : caller'[d].at = "dump" => caller[d].at = "dump"
    BY <1>3, <1>4
  <2> QED BY <1>1, <2>1, <2>2 DEF IInv, BatchInv
<1>9. CountInv'
  <2>1. \A k \in OrderKey : MaySubmit(k)' \subseteq MaySubmit(k)
    BY <1>1, <1>2, <1>3, <1>4, ThreadFields DEF MaySubmit, InBatch, Has
  <2> QED BY <1>1, <2>1, CountStays
<1>10. BooksInv'
  <2>1. InBatch(c)' /\ \A d \in Callers : caller'[d].at = "save" =>
            caller[d].at = "save" /\ caller'[d] = caller[d]
    BY <1>3, <1>4 DEF InBatch
  <2> QED BY <1>1, <2>1 DEF IInv, BooksInv, Fits
<1> QED BY <1>5, <1>6, <1>7, <1>8, <1>9, <1>10 DEF IInv

(* The first of the threads takes the whole batch out of the plan.         *)
LEMMA FinishBatchStep ==
    ASSUME IInv, NEW c \in Callers, FinishBatch(c)
    PROVE  IInv'
<1> DEFINE s == [state EXCEPT !.pending = @ \ caller[c].due, !.submissionDate = day]
<1>1. /\ InBatch(c) /\ phase = "open" /\ Up /\ caller[c].todo = {}
      /\ state \in BotState /\ state.pending \ caller[c].due = {} /\ day \in {0} \cup Days
  <2>1. InBatch(c) /\ caller[c].todo = {}
    BY DEF FinishBatch, InBatch
  <2>2. Up /\ phase = "open"
    BY <2>1, ThreadFields DEF IInv, ThreadInv, InBatch
  <2> QED BY <2>1, <2>2, StonxxAssumption DEF IInv, BatchInv, StateTypeOK, Up, Days
<1>2. /\ s \in BotState /\ s.pending = {} /\ s.active = state.active /\ s.cash = state.cash
  BY <1>1 DEF BotState
<1>3. /\ state' = s /\ caller' = [caller EXCEPT ![c] = Dumping] /\ Up'
      /\ UNCHANGED <<paper, day, phase, file, handler, fills, position, submitted, doubled, crashes>>
  BY <1>2, StateIsNotDown DEF Change, FinishBatch, Up
<1> HIDE DEF s
<1>4. /\ caller'[c] = Dumping /\ caller' \in [Callers -> Thread]
      /\ \A d \in Callers \ {c} : caller'[d] = caller[d]
  BY <1>3, ThreadShapes, CallerMoves DEF IInv, StateTypeOK
<1>5. StateTypeOK'
  BY <1>2, <1>3, <1>4 DEF IInv, StateTypeOK
<1>6. ThreadInv' /\ SubmittedInv' /\ CashInv'
  <2>1. /\ Dumping.todo = Dumping.due /\ Dumping.deal = NoDeal
        /\ Dumping.at # "plan" /\ Dumping.at # "batch" /\ Dumping.at # "save"
    BY ThreadFields
  <2>2. /\ paper /\ doubled = {} => file'.cash >= 0
        /\ state'.cash = state.cash
    BY <1>2, <1>3 DEF IInv, CashInv, Covered
  <2>3. ThreadInv' /\ SubmittedInv'
    BY <1>1, <1>3, <2>1, QuietMove
  <2>4. CashInv'
    BY <1>1, <1>3, <2>1, <2>2, QuietCash
  <2> QED BY <2>3, <2>4
<1>7. PlanInv'
  <2>1. PlanOK({}, NextOpen) /\ PlanOK({}, day) /\ NextOpen' = NextOpen
    BY <1>3 DEF PlanOK, NextOpen
  <2>2. Dumping.due = {} /\ Dumping.at # "save"
    BY ThreadFields
  <2> QED BY <1>2, <1>3, <1>4, <2>1, <2>2 DEF IInv, PlanInv
<1>8. BatchInv'
  BY <1>2, <1>3, <1>4, ThreadFields DEF IInv, BatchInv, InBatch
<1>9. CountInv'
  <2>1. \A k \in OrderKey : MaySubmit(k)' \subseteq MaySubmit(k)
    BY <1>1, <1>2, <1>3, <1>4, ThreadFields DEF MaySubmit, InBatch, Has
  <2> QED BY <1>1, <1>3, <2>1, CountStays
<1>10. BooksInv'
  <2>1. Fits(state)'
    BY <1>2, <1>3 DEF Fits
  <2>2. \A d \in Callers : caller'[d].at = "save" =>
            caller[d].at = "save" /\ caller'[d] = caller[d]
    BY <1>4, ThreadFields
  <2> QED BY <1>3, <2>1, <2>2 DEF IInv, BooksInv, Fits
<1> QED BY <1>5, <1>6, <1>7, <1>8, <1>9, <1>10 DEF IInv

LEMMA FirstIsOne == ASSUME NEW S, S # {} PROVE FirstOf(S) \in S
<1>1. \E o \in S : o.key.side = "buy" => \A p \in S : p.key.side = "buy"
  <2>1. CASE \A p \in S : p.key.side = "buy"
    BY <2>1
  <2>2. CASE \E p \in S : p.key.side # "buy"
    BY <2>2
  <2> QED BY <2>1, <2>2
<1> QED BY <1>1 DEF FirstOf

(* What is paid for as many shares as the cash there is can buy.           *)
LEMMA PurchaseIsCovered ==
    ASSUME NEW paid \in Nat \ {0}, NEW have \in Int, NEW q \in Nat,
           q <= have \div paid
    PROVE  paid * q <= have
<1>1. have \div paid \in Int /\ paid * (have \div paid) <= have
  OBVIOUS
<1>2. \A a, b, p \in Int : p > 0 /\ a <= b => p * a <= p * b
  OBVIOUS
<1> QED BY <1>1, <1>2

LEMMA SaleIsPaid ==
    ASSUME NEW paid \in Nat, NEW q \in Nat
    PROVE  - paid * q \in Int /\ - paid * q <= 0
OBVIOUS

(* An order carried out on paper: the cash and the plan stay as they are,  *)
(* until the deal is booked, which the cash covers.                        *)
LEMMA PaperShape ==
    ASSUME StateTypeOK, Up, NEW c \in Callers, NEW o \in Order,
           caller[c].deal = NoDeal, PaperExecute(c, o)
    PROVE  /\ state' \in BotState
           /\ state'.pending = state.pending /\ state'.cash = state.cash
           /\ \E deal \in {NoDeal} \cup Deal :
                  /\ caller' = [caller EXCEPT ![c].todo = @ \ {o}, ![c].deal = deal]
                  /\ state.cash >= 0 /\ deal # NoDeal => deal.pays <= state.cash
<1>1. PICK paid \in Prices : IF o.key.side = "sell" THEN PaperSell(c, o, paid)
                                                     ELSE PaperBuy(c, o, paid)
  BY DEF PaperExecute
<1>2. /\ paid \in Nat \ {0} /\ o.quantity \in Nat \ {0} /\ o.key.symbol \in Symbols
      /\ state \in BotState /\ state.cash \in Int /\ state.active[o.key.symbol] \in Nat
      /\ state.active \in [Symbols -> Nat]
  BY StonxxAssumption DEF StateTypeOK, Up, BotState, Order, OrderKey
<1>3. CASE PaperSell(c, o, paid)
  <2> DEFINE q == Lesser(o.quantity, state.active[o.key.symbol])
             deal == IF state.active[o.key.symbol] = 0 THEN NoDeal
                     ELSE [symbol |-> o.key.symbol, buys |-> 0, pays |-> - paid * q]
  <2>1. q \in Nat
    BY <1>2 DEF Lesser
  <2>2. - paid * q \in Int /\ - paid * q <= 0
    BY <1>2, <2>1, SaleIsPaid
  <2>3. deal \in {NoDeal} \cup Deal /\ (deal # NoDeal => deal.pays <= 0)
    <3> HIDE DEF q
    <3> QED BY <1>2, <2>2 DEF Deal
  <2>4. caller' = [caller EXCEPT ![c].todo = @ \ {o}, ![c].deal = deal]
    BY <1>3 DEF PaperSell
  <2>5. /\ state' \in BotState
        /\ state'.pending = state.pending /\ state'.cash = state.cash
    BY <1>2, <1>3 DEF PaperSell, BotState
  <2> HIDE DEF deal
  <2>6. state.cash >= 0 /\ deal # NoDeal => deal.pays <= state.cash
    <3>1. ASSUME deal # NoDeal PROVE deal.pays \in Int
      BY <2>3, <3>1 DEF Deal
    <3> QED BY <1>2, <2>3, <3>1
  <2> QED BY <2>3, <2>4, <2>5, <2>6
<1>4. CASE PaperBuy(c, o, paid)
  <2> DEFINE q == Lesser(o.quantity, state.cash \div paid)
             deal == IF q <= 0 THEN NoDeal
                     ELSE [symbol |-> o.key.symbol, buys |-> q, pays |-> paid * q]
  <2>1. q \in Int /\ q <= state.cash \div paid
    BY <1>2 DEF Lesser
  <2>2. q > 0 => paid * q \in Int /\ paid * q <= state.cash /\ q \in Nat
    BY <1>2, <2>1, PurchaseIsCovered
  <2>3. deal \in {NoDeal} \cup Deal /\ (deal # NoDeal => deal.pays <= state.cash)
    <3> HIDE DEF q
    <3> QED BY <1>2, <2>1, <2>2 DEF Deal
  <2>4. caller' = [caller EXCEPT ![c].todo = @ \ {o}, ![c].deal = deal] /\ state' = state
    BY <1>4 DEF PaperBuy
  <2> HIDE DEF deal
  <2> QED BY <1>2, <2>3, <2>4
<1> QED BY <1>1, <1>3, <1>4

(* One order of the batch is submitted, on paper or at the brokerage.      *)
LEMMA SubmitShape ==
    ASSUME IInv, NEW c \in Callers, SubmitOne(c)
    PROVE  \E o \in caller[c].todo : \E deal \in {NoDeal} \cup Deal :
               /\ o = FirstOf(caller[c].todo)
               /\ submitted' = [submitted EXCEPT ![o.key] = @ + 1]
               /\ doubled' = IF submitted[o.key] > 0 THEN doubled \cup {o.key} ELSE doubled
               /\ caller' = [caller EXCEPT ![c] = [caller[c] EXCEPT !.todo = @ \ {o},
                                                                  !.deal = deal]]
               /\ paper /\ state.cash >= 0 /\ deal # NoDeal => deal.pays <= state.cash
               /\ state' \in BotState
               /\ state'.pending = state.pending /\ state'.cash = state.cash
               /\ position' \in [Symbols -> Int] /\ fills' \in Seq(Order)
               /\ paper => fills' = fills
<1> DEFINE o == FirstOf(caller[c].todo)
<1>1. o \in caller[c].todo /\ caller[c].deal = NoDeal
  BY FirstIsOne DEF SubmitOne
<1>2. InBatch(c) /\ Up /\ state \in BotState
  BY ThreadFields DEF SubmitOne, IInv, ThreadInv, InBatch, StateTypeOK, Up
<1>3. o \in Order /\ caller[c] \in Thread
  BY <1>1 DEF IInv, StateTypeOK, Thread
<1>4. /\ submitted' = [submitted EXCEPT ![o.key] = @ + 1]
      /\ doubled' = IF submitted[o.key] > 0 THEN doubled \cup {o.key} ELSE doubled
  BY DEF SubmitOne
<1>5. CASE paper
  <2>1. PaperExecute(c, o) /\ UNCHANGED <<position, fills>>
    BY <1>5 DEF SubmitOne
  <2> HIDE DEF o
  <2>2. PICK deal \in {NoDeal} \cup Deal :
            /\ caller' = [caller EXCEPT ![c].todo = @ \ {o}, ![c].deal = deal]
            /\ state.cash >= 0 /\ deal # NoDeal => deal.pays <= state.cash
    BY <1>1, <1>2, <1>3, <2>1, PaperShape DEF IInv
  <2>3. /\ state' \in BotState
        /\ state'.pending = state.pending /\ state'.cash = state.cash
    BY <1>1, <1>2, <1>3, <2>1, PaperShape DEF IInv
  <2>4. caller' = [caller EXCEPT ![c] = [caller[c] EXCEPT !.todo = @ \ {o}, !.deal = deal]]
    BY <2>2 DEF IInv, StateTypeOK
  <2> QED BY <1>1, <1>4, <2>1, <2>2, <2>3, <2>4 DEF IInv, StateTypeOK, o
<1>6. CASE ~paper
  <2>1. LiveExecute(c, o)
    BY <1>6 DEF SubmitOne
  <2> HIDE DEF o
  <2>2. caller' = [caller EXCEPT ![c] = [caller[c] EXCEPT !.todo = @ \ {o}, !.deal = NoDeal]]
    BY <1>1, <1>3, <2>1 DEF LiveExecute, IInv, StateTypeOK, Thread
  <2>3. position' \in [Symbols -> Int]
    BY <1>3, <2>1 DEF LiveExecute, IInv, StateTypeOK, Order, OrderKey
  <2>4. fills' \in Seq(Order) /\ state' = state
    BY <1>3, <2>1 DEF LiveExecute, IInv, StateTypeOK
  <2> QED BY <1>1, <1>2, <1>4, <1>6, <2>2, <2>3, <2>4 DEF o
<1> QED BY <1>5, <1>6

(* The order has one thread less that may submit it, and it was submitted  *)
(* before if another thread has begun the same batch.                      *)
LEMMA SubmitOneStep ==
    ASSUME IInv, NEW c \in Callers, SubmitOne(c)
    PROVE  IInv'
<1>1. PICK o \in caller[c].todo, deal \in {NoDeal} \cup Deal :
          /\ o = FirstOf(caller[c].todo)
          /\ submitted' = [submitted EXCEPT ![o.key] = @ + 1]
          /\ doubled' = IF submitted[o.key] > 0 THEN doubled \cup {o.key} ELSE doubled
          /\ caller' = [caller EXCEPT ![c] = [caller[c] EXCEPT !.todo = @ \ {o}, !.deal = deal]]
          /\ paper /\ state.cash >= 0 /\ deal # NoDeal => deal.pays <= state.cash
          /\ state' \in BotState
          /\ state'.pending = state.pending /\ state'.cash = state.cash
          /\ position' \in [Symbols -> Int] /\ fills' \in Seq(Order)
          /\ paper => fills' = fills
  BY SubmitShape
<1> DEFINE r == [caller[c] EXCEPT !.todo = @ \ {o}, !.deal = deal]
<1>2. /\ caller[c] \in Thread /\ caller[c].at = "batch" /\ InBatch(c) /\ Up
      /\ phase = "open" /\ caller[c].due # {} /\ caller[c].todo \subseteq caller[c].due
      /\ caller[c].due \subseteq Order
  BY ThreadFields DEF SubmitOne, IInv, ThreadInv, InBatch, StateTypeOK, Thread
<1>3. /\ r \in Thread /\ r.at = "batch" /\ r.due = caller[c].due /\ r.dump = caller[c].dump
      /\ r.todo = caller[c].todo \ {o} /\ r.deal = deal
  BY <1>2 DEF Thread
<1> HIDE DEF r
<1>4. caller' = [caller EXCEPT ![c] = r]
  BY <1>1 DEF r
<1>5. /\ caller'[c] = r /\ caller' \in [Callers -> Thread]
      /\ \A d \in Callers \ {c} : caller'[d] = caller[d]
  BY <1>3, <1>4, CallerMoves DEF IInv, StateTypeOK
<1>6. Up' /\ UNCHANGED <<paper, day, phase, file, handler, crashes>>
  BY <1>1, StateIsNotDown DEF SubmitOne, Up
<1>7. /\ o \in Order /\ o.key \in OrderKey /\ o \in caller[c].due /\ o.key.day <= day
      /\ \A p \in caller[c].due : p.key = o.key => p = o
      /\ submitted \in [OrderKey -> Nat] /\ submitted' \in [OrderKey -> Nat]
      /\ submitted'[o.key] = submitted[o.key] + 1
      /\ \A k \in OrderKey \ {o.key} : submitted'[k] = submitted[k]
      /\ \A k \in OrderKey : submitted'[k] >= submitted[k]
  <2>1. o \in Order /\ o.key \in OrderKey /\ o \in caller[c].due
    BY <1>2 DEF Order
  <2>2. o.key.day <= day /\ \A p \in caller[c].due : p.key = o.key => p = o
    BY <2>1 DEF IInv, PlanInv, PlanOK
  <2>3. submitted \in [OrderKey -> Nat]
    BY DEF IInv, StateTypeOK
  <2> QED BY <1>1, <2>1, <2>2, <2>3
<1>8. StateTypeOK'
  BY <1>1, <1>5, <1>6, <1>7 DEF IInv, StateTypeOK
<1>9. ThreadInv'
  <2>1. ASSUME NEW d \in Callers
        PROVE  /\ InBatch(d)' => phase = "open" /\ caller'[d].due # {}
               /\ caller'[d].at = "plan" => phase = "close"
               /\ caller'[d].todo \subseteq caller'[d].due
               /\ caller'[d].deal # NoDeal => Begun(d)'
    <3>1. CASE d = c
      BY <1>2, <1>3, <1>5, <1>7, <3>1 DEF InBatch, Begun
    <3>2. CASE d # c
      BY <1>5, <3>2 DEF IInv, ThreadInv, InBatch, Begun
    <3> QED BY <3>1, <3>2
  <2>2. paper => handler = Idle /\ fills' = <<>>
    BY <1>1 DEF IInv, ThreadInv
  <2> QED BY <1>6, <2>1, <2>2 DEF ThreadInv
<1>10. PlanInv'
  <2>1. \A d \in Callers : /\ caller'[d].at = caller[d].at /\ caller'[d].due = caller[d].due
                           /\ caller'[d].dump = caller[d].dump
    BY <1>2, <1>3, <1>5
  <2>2. NextOpen' = NextOpen
    BY <1>6 DEF NextOpen
  <2> QED BY <1>1, <1>2, <1>6, <2>1, <2>2 DEF IInv, PlanInv
<1>11. BatchInv'
  <2>1. \A d \in Callers : caller'[d].at = caller[d].at /\ caller'[d].due = caller[d].due
    BY <1>2, <1>3, <1>5
  <2> QED BY <1>1, <1>6, <2>1 DEF IInv, BatchInv, InBatch
<1>12. SubmittedInv'
  <2>1. \A k \in OrderKey : k.day > day => submitted'[k] = 0
    BY <1>7 DEF IInv, SubmittedInv, StateTypeOK, OrderKey, Days
  <2>2. ASSUME NEW d \in Callers, NEW p \in caller'[d].due \ caller'[d].todo
        PROVE  submitted'[p.key] > 0
    <3>1. p \in Order /\ p.key \in OrderKey
      BY <1>5 DEF Thread, Order
    <3>2. p = o \/ p \in caller[d].due \ caller[d].todo
      BY <1>3, <1>5
    <3>3. p \in caller[d].due \ caller[d].todo => submitted[p.key] > 0
      BY DEF IInv, SubmittedInv
    <3> QED BY <1>7, <3>1, <3>2, <3>3
  <2> QED BY <1>6, <2>1, <2>2 DEF SubmittedInv
<1>13. CountInv'
  <2> SUFFICES ASSUME NEW k \in OrderKey
               PROVE  submitted'[k] + Cardinality(MaySubmit(k)') <= Cardinality(Callers)
    BY <1>6 DEF CountInv
  <2>1. /\ submitted[k] + Cardinality(MaySubmit(k)) <= Cardinality(Callers)
        /\ submitted[k] \in Nat /\ submitted'[k] \in Nat
        /\ Cardinality(Callers) \in Nat
    BY <1>2, <1>7, SomeCallers DEF IInv, CountInv
  <2>2. /\ MaySubmit(k) \in SUBSET Callers
        /\ IsFiniteSet(MaySubmit(k)) /\ Cardinality(MaySubmit(k)) \in Nat
    BY SomeCallers DEF MaySubmit
  <2>3. CASE k = o.key
    <3>1. c \in MaySubmit(k) /\ MaySubmit(k)' = MaySubmit(k) \ {c}
      BY <1>1, <1>2, <1>3, <1>5, <1>7, <2>3 DEF MaySubmit, Has, InBatch
    <3>2. Cardinality(MaySubmit(k)') = Cardinality(MaySubmit(k)) - 1
      BY <2>2, <3>1, FS_RemoveElement
    <3> QED BY <1>7, <2>1, <2>2, <2>3, <3>2
  <2>4. CASE k # o.key
    <3>1. MaySubmit(k)' = MaySubmit(k)
      BY <1>1, <1>2, <1>3, <1>5, <2>4 DEF MaySubmit, Has, InBatch
    <3> QED BY <1>7, <2>1, <2>4, <3>1
  <2> QED BY <2>3, <2>4
<1>14. BooksInv'
  <2>1. InBatch(c)' /\ \A d \in Callers : caller'[d].at = "save" =>
            caller[d].at = "save" /\ caller'[d] = caller[d]
    BY <1>3, <1>5 DEF InBatch
  <2> QED BY <1>6, <2>1 DEF IInv, BooksInv, Fits
<1>15. doubled # {} => doubled' # {}
  BY <1>1
<1>16. /\ \A d \in Callers : Begun(d)' => submitted'[FirstOf(caller'[d].due).key] > 0
       /\ doubled' = {} => \A d, e \in Callers : Begun(d)' /\ Begun(e)' => d = e
  <2>1. \A d \in Callers \ {c} : Begun(d)' <=> Begun(d)
    BY <1>5 DEF Begun, InBatch
  <2>2. \A d \in Callers : Begun(d)' /\ d # c => Begun(d) /\ caller'[d].due = caller[d].due
    <3>1. \A d \in Callers \ {c} : caller'[d].due = caller[d].due
      BY <1>5
    <3> QED BY <2>1, <3>1 DEF Begun, InBatch
  <2>3. \A d \in Callers : InBatch(d) => /\ caller[d].due = caller[c].due
                                        /\ FirstOf(caller[d].due).key \in OrderKey
    <3>1. \A d \in Callers : InBatch(d) => caller[d].due = caller[c].due
      BY <1>2 DEF IInv, BatchInv
    <3>2. FirstOf(caller[c].due).key \in OrderKey
      BY <1>2, FirstIsOne DEF Order
    <3> QED BY <3>1, <3>2
  <2>4. \A d \in Callers : Begun(d) => submitted[FirstOf(caller[d].due).key] > 0
    BY DEF IInv, CashInv
  <2>5. CASE Begun(c)
    <3>1. \A d \in Callers : Begun(d)' => Begun(d) /\ caller'[d].due = caller[d].due
      BY <1>3, <1>5, <2>2, <2>5
    <3>2. doubled = {} => \A d, e \in Callers : Begun(d) /\ Begun(e) => d = e
      BY DEF IInv, CashInv
    <3>3. \A d \in Callers : Begun(d)' => submitted'[FirstOf(caller'[d].due).key] > 0
      BY <1>7, <2>3, <2>4, <3>1 DEF Begun
    <3> QED BY <1>15, <3>1, <3>2, <3>3
  <2>6. CASE ~Begun(c)
    <3>1. o = FirstOf(caller[c].due)
      BY <1>1, <1>2, <2>6 DEF Begun
    <3>2. ASSUME NEW d \in Callers, Begun(d)'
          PROVE  submitted'[FirstOf(caller'[d].due).key] > 0
      <4>1. FirstOf(caller'[d].due) = o
        BY <1>3, <1>5, <2>2, <2>3, <3>1, <3>2 DEF Begun
      <4> QED BY <1>7, <4>1
    <3>3. ASSUME NEW d \in Callers, Begun(d) PROVE doubled' # {}
      <4>1. submitted[o.key] > 0
        BY <2>3, <2>4, <3>1, <3>3 DEF Begun
      <4> QED BY <1>1, <4>1
    <3>4. doubled' = {} => \A d, e \in Callers : Begun(d)' /\ Begun(e)' => d = e
      BY <2>2, <3>3
    <3> QED BY <3>2, <3>4
  <2> QED BY <2>5, <2>6
<1>17. Covered'
  <2> SUFFICES ASSUME paper, doubled = {}
               PROVE  /\ file.cash >= 0 /\ state'.cash >= 0
                      /\ \A d \in Callers :
                            /\ caller'[d].deal # NoDeal => caller'[d].deal.pays <= state'.cash
                            /\ caller'[d].at = "save" => caller'[d].dump.cash >= 0
    BY <1>6, <1>15 DEF Covered
  <2>1. /\ file.cash >= 0 /\ state.cash >= 0
        /\ \A d \in Callers :
               /\ caller[d].deal # NoDeal => caller[d].deal.pays <= state.cash
               /\ caller[d].at = "save" => caller[d].dump.cash >= 0
    BY <1>2 DEF IInv, CashInv, Covered
  <2> QED BY <1>1, <1>3, <1>5, <2>1
<1> QED BY <1>8, <1>9, <1>10, <1>11, <1>12, <1>13, <1>14, <1>16, <1>17 DEF IInv, CashInv

(* The thread that books a deal is the only one that has deals to book.    *)
LEMMA BookDealStep ==
    ASSUME IInv, NEW c \in Callers, BookDeal(c)
    PROVE  IInv'
<1> DEFINE deal == caller[c].deal
           r == [caller[c] EXCEPT !.deal = NoDeal]
<1>1. /\ caller[c] \in Thread /\ Begun(c) /\ InBatch(c) /\ Up /\ phase = "open"
      /\ deal # NoDeal /\ deal \in Deal /\ state \in BotState
  <2>1. caller[c] \in Thread /\ deal # NoDeal
    BY DEF BookDeal, IInv, StateTypeOK
  <2>2. Begun(c) /\ InBatch(c)
    BY <2>1 DEF IInv, ThreadInv, Begun
  <2>3. Up /\ phase = "open"
    BY <2>2, ThreadFields DEF IInv, ThreadInv, InBatch
  <2> QED BY <2>1, <2>2, <2>3 DEF Thread, IInv, StateTypeOK, Up
<1>2. /\ r \in Thread /\ r.at = caller[c].at /\ r.due = caller[c].due
      /\ r.dump = caller[c].dump /\ r.todo = caller[c].todo /\ r.deal = NoDeal
  BY <1>1 DEF Thread
<1>3. /\ caller' = [caller EXCEPT ![c] = r]
      /\ UNCHANGED <<paper, day, phase, file, handler, fills, position, submitted, doubled, crashes>>
  BY DEF BookDeal
<1>4. /\ state' \in BotState /\ state'.pending = state.pending
      /\ state'.cash = state.cash - deal.pays
  <2> DEFINE n == IF deal.buys > 0 THEN deal.buys ELSE state.active[deal.symbol]
  <2>1. state' = [state EXCEPT !.cash = @ - deal.pays, !.active[deal.symbol] = n]
    BY DEF BookDeal
  <2>2. n \in Nat /\ deal.pays \in Int /\ deal.symbol \in Symbols
    BY <1>1 DEF Deal, BotState
  <2> DEFINE active == [state.active EXCEPT ![deal.symbol] = n]
             left == state.cash - deal.pays
  <2> HIDE DEF n, deal
  <2>3. active \in [Symbols -> Nat] /\ left \in Int
    BY <1>1, <2>2 DEF BotState
  <2>4. state' = [state EXCEPT !.cash = left, !.active = active]
    BY <1>1, <2>1 DEF BotState
  <2> HIDE DEF active
  <2>5. state' \in BotState /\ state'.pending = state.pending /\ state'.cash = left
    <3> HIDE DEF left
    <3> QED BY <1>1, <2>3, <2>4 DEF BotState
  <2> QED BY <2>5
<1> HIDE DEF r
<1>5. /\ caller'[c] = r /\ caller' \in [Callers -> Thread]
      /\ \A d \in Callers \ {c} : caller'[d] = caller[d]
  BY <1>2, <1>3, CallerMoves DEF IInv, StateTypeOK
<1>6. \A d \in Callers :
          /\ caller'[d].at = caller[d].at /\ caller'[d].due = caller[d].due
          /\ caller'[d].todo = caller[d].todo /\ caller'[d].dump = caller[d].dump
          /\ caller'[d].deal # NoDeal => d # c /\ caller'[d].deal = caller[d].deal
  BY <1>2, <1>5
<1>7. Up' /\ StateTypeOK'
  BY <1>3, <1>4, <1>5, StateIsNotDown DEF IInv, StateTypeOK, Up
<1>8. ThreadInv'
  BY <1>3, <1>6, <1>7 DEF IInv, ThreadInv, Begun, InBatch
<1>9. PlanInv' /\ BatchInv' /\ SubmittedInv'
  <2>1. NextOpen' = NextOpen
    BY <1>3 DEF NextOpen
  <2>2. PlanInv'
    BY <1>1, <1>3, <1>4, <1>6, <2>1 DEF IInv, PlanInv
  <2>3. BatchInv'
    BY <1>3, <1>4, <1>6 DEF IInv, BatchInv, InBatch
  <2>4. SubmittedInv'
    BY <1>3, <1>6 DEF IInv, SubmittedInv
  <2> QED BY <2>2, <2>3, <2>4
<1>10. CountInv'
  <2>1. \A k \in OrderKey : MaySubmit(k)' \subseteq MaySubmit(k)
    BY <1>4, <1>6 DEF MaySubmit, InBatch, Has
  <2> QED BY <1>1, <1>3, <1>7, <2>1, CountStays
<1>11. BooksInv'
  BY <1>1, <1>3, <1>6 DEF IInv, BooksInv, InBatch, Fits
<1>13. Covered'
  <2> SUFFICES ASSUME paper, doubled = {}
               PROVE  /\ file.cash >= 0 /\ state'.cash >= 0
                      /\ \A d \in Callers :
                            /\ caller'[d].deal = NoDeal
                            /\ caller'[d].at = "save" => caller'[d].dump.cash >= 0
    BY <1>3 DEF Covered
  <2>1. /\ file.cash >= 0 /\ deal.pays <= state.cash
        /\ \A d \in Callers : caller[d].at = "save" => caller[d].dump.cash >= 0
    BY <1>1 DEF IInv, CashInv, Covered
  <2>2. state'.cash >= 0
    BY <1>1, <1>4, <2>1 DEF BotState, Deal
  <2>3. \A d \in Callers : caller[d].deal # NoDeal => d = c
    BY <1>1 DEF IInv, CashInv, ThreadInv
  <2> QED BY <1>6, <2>1, <2>2, <2>3
<1>14. CashInv'
  BY <1>3, <1>6, <1>13 DEF IInv, CashInv, Begun, InBatch
<1> QED BY <1>7, <1>8, <1>9, <1>10, <1>11, <1>14 DEF IInv

-----------------------------------------------------------------------------
(* Time, kills and starts. *)

LEMMA TimePassesStep ==
    ASSUME IInv, TimePasses
    PROVE  IInv'
<1>1. /\ \A c \in Callers : caller[c] = Idle
      /\ UNCHANGED <<paper, state, file, caller, handler, fills, position, submitted, doubled, crashes>>
      /\ Up' <=> Up
  BY DEF TimePasses, Up
<1>2. /\ day \in 1 .. LastDay /\ day' \in 1 .. LastDay /\ phase' \in {"open", "close"}
      /\ day' >= day /\ NextOpen' >= NextOpen /\ NextOpen' \in Int /\ NextOpen \in Int
  BY StonxxAssumption DEF TimePasses, IInv, StateTypeOK, NextOpen
<1>3. StateTypeOK'
  BY <1>1, <1>2 DEF IInv, StateTypeOK
<1>4. ThreadInv' /\ BatchInv'
  <2>1. \A c \in Callers : /\ caller'[c].at = "idle" /\ caller'[c].deal = NoDeal
                           /\ caller'[c].todo = {} /\ caller'[c].due = {}
    BY <1>1, ThreadFields
  <2>2. ThreadInv'
    BY <1>1, <2>1 DEF IInv, ThreadInv, InBatch
  <2>3. BatchInv'
    BY <1>1, <2>1 DEF BatchInv, InBatch
  <2> QED BY <2>2, <2>3
<1>5. PlanInv'
  <2>1. ASSUME NEW plan \in SUBSET Order, PlanOK(plan, NextOpen) PROVE PlanOK(plan, NextOpen')
    BY <1>2, <2>1 DEF PlanOK, Order, OrderKey, Days
  <2>2. /\ file.pending \in SUBSET Order
        /\ Up => state.pending \in SUBSET Order
        /\ handler.dump.pending \in SUBSET Order
        /\ \A c \in Callers : caller[c].due = {} /\ caller[c].at # "save"
    BY <1>1, ThreadFields DEF IInv, StateTypeOK, BotState, Thread, Up
  <2>3. PlanOK({}, day')
    BY DEF PlanOK
  <2> QED BY <1>1, <2>1, <2>2, <2>3 DEF IInv, PlanInv
<1>6. SubmittedInv'
  <2>1. \A k \in OrderKey : k.day > day' => k.day > day
    BY <1>2 DEF OrderKey, Days
  <2> QED BY <1>1, <2>1, ThreadFields DEF IInv, SubmittedInv
<1>7. CountInv'
  BY <1>1 DEF IInv, CountInv, MaySubmit, InBatch, Has
<1>8. BooksInv' /\ CashInv'
  <2>1. BooksInv'
    BY <1>1 DEF IInv, BooksInv, InBatch, Fits
  <2>2. CashInv'
    BY <1>1 DEF IInv, CashInv, Begun, InBatch, Covered
  <2> QED BY <2>1, <2>2
<1> QED BY <1>3, <1>4, <1>5, <1>6, <1>7, <1>8 DEF IInv

(* The threads of a process that is started or has just been killed.       *)
LEMMA FreshThreads ==
    ASSUME IInv, \A c \in Callers : caller'[c] = Idle, handler' = Idle,
           caller' \in [Callers -> Thread], UNCHANGED <<paper, day, phase>>,
           \A k \in OrderKey : submitted'[k] \in {0, submitted[k]},
           paper => fills' = <<>>
    PROVE  /\ ThreadInv' /\ BatchInv' /\ SubmittedInv'
           /\ \A c \in Callers : /\ caller'[c].at = "idle" /\ caller'[c].deal = NoDeal
                                 /\ PlanOK(caller'[c].due, day)
<1>1. \A c \in Callers : /\ caller'[c].at = "idle" /\ caller'[c].deal = NoDeal
                         /\ caller'[c].todo = {} /\ caller'[c].due = {}
  BY ThreadFields
<1>2. ThreadInv'
  BY <1>1 DEF IInv, ThreadInv, InBatch
<1>3. BatchInv' /\ SubmittedInv'
  BY <1>1 DEF IInv, BatchInv, SubmittedInv, InBatch
<1> QED BY <1>1, <1>2, <1>3 DEF PlanOK

LEMMA CrashStep ==
    ASSUME IInv, Crash
    PROVE  IInv'
<1>1. /\ Up /\ state' = Down /\ ~Up' /\ crashes' = crashes + 1 /\ crashes < MaxCrashes
      /\ caller' = [c \in Callers |-> Idle] /\ handler' = Idle /\ fills' = <<>>
      /\ submitted' = [k \in OrderKey |-> 0]
      /\ UNCHANGED <<paper, day, phase, file, position, doubled>>
  BY DEF Crash, Up
<1>2. /\ \A c \in Callers : caller'[c] = Idle
      /\ caller' \in [Callers -> Thread] /\ handler' \in Thread
  BY <1>1, ThreadShapes DEF IInv
<1>3. StateTypeOK'
  BY <1>1, <1>2, StonxxAssumption DEF IInv, StateTypeOK
<1>4. /\ ThreadInv' /\ BatchInv' /\ SubmittedInv'
      /\ \A c \in Callers : /\ caller'[c].at = "idle" /\ caller'[c].deal = NoDeal
                            /\ PlanOK(caller'[c].due, day)
  BY <1>1, <1>2, FreshThreads
<1>5. PlanInv'
  BY <1>1, <1>4, ThreadFields DEF IInv, PlanInv, NextOpen
<1>6. CountInv'
  BY <1>1 DEF CountInv
<1>7. BooksInv'
  BY <1>1, <1>4 DEF IInv, BooksInv, Fits
<1>8. CashInv'
  BY <1>1, <1>4 DEF IInv, CashInv, Begun, InBatch, Covered
<1> QED BY <1>3, <1>4, <1>5, <1>6, <1>7, <1>8 DEF IInv

LEMMA StartStep ==
    ASSUME IInv, Start
    PROVE  IInv'
<1>1. /\ ~Up /\ state' = IF paper /\ file.cash <= 0 THEN [file EXCEPT !.cash = Seed] ELSE file
      /\ file' = state' \/ file' = file
      /\ UNCHANGED <<paper, day, phase, caller, handler, fills, position, submitted, doubled, crashes>>
  BY DEF Start
<1>2. /\ \A c \in Callers : caller'[c] = Idle
      /\ caller' \in [Callers -> Thread] /\ handler' \in Thread /\ handler' = Idle
  BY <1>1 DEF IInv, ThreadInv, StateTypeOK
<1>3. /\ state' \in BotState /\ file' \in BotState
      /\ state'.pending = file.pending /\ state'.active = file.active
      /\ paper => state'.cash >= 0
      /\ file'.pending = file.pending /\ file'.active = file.active
      /\ file'.cash = file.cash \/ file'.cash = state'.cash
  <2> DEFINE seeded == [file EXCEPT !.cash = Seed]
  <2>1. file \in BotState /\ file.cash \in Int /\ Seed \in Int /\ Seed >= 0
    BY StonxxAssumption DEF IInv, StateTypeOK, BotState
  <2>2. /\ seeded \in BotState /\ seeded.cash = Seed
        /\ seeded.pending = file.pending /\ seeded.active = file.active
    BY <2>1 DEF BotState
  <2>3. state' = IF paper /\ file.cash <= 0 THEN seeded ELSE file
    BY <1>1
  <2> HIDE DEF seeded
  <2> QED BY <1>1, <2>1, <2>2, <2>3
<1>4. Up' /\ StateTypeOK'
  BY <1>1, <1>2, <1>3, StateIsNotDown DEF IInv, StateTypeOK, Up
<1>5. /\ ThreadInv' /\ BatchInv' /\ SubmittedInv'
      /\ \A c \in Callers : /\ caller'[c].at = "idle" /\ caller'[c].deal = NoDeal
                            /\ PlanOK(caller'[c].due, day)
  BY <1>1, <1>2, FreshThreads DEF IInv, ThreadInv
<1>6. PlanInv'
  BY <1>1, <1>2, <1>3, <1>5, ThreadFields DEF IInv, PlanInv, NextOpen
<1>7. CountInv'
  <2> SUFFICES ASSUME NEW k \in OrderKey
               PROVE  submitted[k] + Cardinality(MaySubmit(k)') <= Cardinality(Callers)
    BY <1>1, <1>4 DEF CountInv
  <2>1. submitted[k] = 0
    BY <1>1 DEF IInv, CountInv
  <2>2. MaySubmit(k)' \in SUBSET Callers
    BY DEF MaySubmit
  <2>3. /\ Cardinality(MaySubmit(k)') <= Cardinality(Callers)
        /\ Cardinality(MaySubmit(k)') \in Nat /\ Cardinality(Callers) \in Nat
    BY <2>2, SomeCallers
  <2> QED BY <2>1, <2>3
<1>8. BooksInv'
  BY <1>1, <1>3, <1>5 DEF IInv, BooksInv, Fits
<1>9. CashInv'
  <2>1. Covered'
    BY <1>1, <1>3, <1>5 DEF IInv, CashInv, Covered
  <2> QED BY <2>1, <1>5 DEF CashInv, Begun, InBatch
<1> QED BY <1>4, <1>5, <1>6, <1>7, <1>8, <1>9 DEF IInv

-----------------------------------------------------------------------------
(* The handler of fills, in live trading only. *)

LEMMA HandlerStep ==
    ASSUME IInv, OnFilledOrder \/ SaveFill
    PROVE  IInv'
<1>1. /\ Up /\ ~paper /\ state \in BotState
      /\ UNCHANGED <<paper, day, phase, caller, position, submitted, doubled, crashes>>
  <2>1. ~paper
    BY ThreadFields DEF OnFilledOrder, SaveFill, IInv, ThreadInv
  <2>2. Up
    BY ThreadFields DEF OnFilledOrder, SaveFill, IInv, ThreadInv
  <2> QED BY <2>1, <2>2 DEF OnFilledOrder, SaveFill, IInv, StateTypeOK, Up
<1>2. /\ state' \in BotState /\ file' \in BotState /\ handler' \in Thread
      /\ fills' \in Seq(Order)
      /\ state'.pending = state.pending /\ state'.cash = state.cash
      /\ \/ file'.pending = file.pending
         \/ handler.at = "save" /\ file'.pending = handler.dump.pending
      /\ handler'.at = "save" => handler'.dump.pending = state.pending
  <2>1. CASE OnFilledOrder
    <3>1. Head(fills) \in Order /\ Tail(fills) \in Seq(Order)
      BY <2>1 DEF OnFilledOrder, IInv, StateTypeOK
    <3> DEFINE o == Head(fills)
    <3>2. state' = [state EXCEPT !.active[o.key.symbol] = Entry(o)]
      BY <2>1 DEF OnFilledOrder
    <3>3. Entry(o) \in Nat /\ o.key.symbol \in Symbols
      BY <3>1 DEF Entry, Shares, IInv, StateTypeOK, Order, OrderKey
    <3> HIDE DEF o
    <3> DEFINE active == [state.active EXCEPT ![o.key.symbol] = Entry(o)]
    <3>4. active \in [Symbols -> Nat]
      BY <1>1, <3>3 DEF BotState
    <3>5. state' = [state EXCEPT !.active = active]
      BY <1>1, <3>2 DEF BotState
    <3> HIDE DEF active
    <3>6. state' \in BotState /\ state'.pending = state.pending /\ state'.cash = state.cash
      BY <1>1, <3>4, <3>5 DEF BotState
    <3>7. file' = file /\ fills' = Tail(fills) /\ handler' = Dumping
      BY <2>1 DEF OnFilledOrder
    <3>8. handler' \in Thread /\ handler'.at # "save" /\ file' \in BotState
      BY <3>7, ThreadShapes, ThreadFields DEF IInv, StateTypeOK
    <3> QED BY <3>1, <3>6, <3>7, <3>8
  <2>2. CASE SaveFill
    <3>1. state' = state /\ fills' = fills
      BY <2>2 DEF SaveFill
    <3>0. file \in BotState /\ handler.dump \in BotState /\ fills \in Seq(Order)
      BY DEF IInv, StateTypeOK, Thread
    <3>2. CASE handler' = Saving /\ file' = file
      <4>1. handler' \in Thread /\ handler'.dump = state
        BY <1>1, <3>2, ThreadShapes, ThreadFields DEF IInv
      <4> QED BY <1>1, <3>1, <3>0, <3>2, <4>1
    <3>3. CASE handler.at = "save" /\ handler' = Idle /\ file' \in {handler.dump, file}
      <4>1. handler' \in Thread /\ handler'.at # "save"
        BY <3>3, ThreadShapes, ThreadFields DEF IInv
      <4> QED BY <1>1, <3>1, <3>0, <3>3, <4>1
    <3> QED BY <2>2, <3>2, <3>3 DEF SaveFill
  <2> QED BY <2>1, <2>2
<1>3. Up' /\ StateTypeOK'
  BY <1>1, <1>2, StateIsNotDown DEF IInv, StateTypeOK, Up
<1>4. ThreadInv' /\ BatchInv' /\ SubmittedInv'
  <2>1. ThreadInv'
    BY <1>1, <1>3 DEF IInv, ThreadInv, InBatch, Begun
  <2>2. BatchInv' /\ SubmittedInv'
    BY <1>1, <1>2 DEF IInv, BatchInv, SubmittedInv, InBatch
  <2> QED BY <2>1, <2>2
<1>5. PlanInv'
  <2>1. NextOpen' = NextOpen
    BY <1>1 DEF NextOpen
  <2> QED BY <1>1, <1>2, <2>1 DEF IInv, PlanInv
<1>6. CountInv'
  <2>1. \A k \in OrderKey : MaySubmit(k)' \subseteq MaySubmit(k)
    BY <1>1, <1>2 DEF MaySubmit, InBatch, Has
  <2> QED BY <1>1, <1>3, <2>1, CountStays
<1>7. BooksInv' /\ Covered'
  BY <1>1 DEF BooksInv, Covered
<1>8. CashInv'
  BY <1>1, <1>7 DEF IInv, CashInv, Begun, InBatch
<1> QED BY <1>3, <1>4, <1>5, <1>6, <1>7, <1>8 DEF IInv

-----------------------------------------------------------------------------
LEMMA Initial == Init => IInv
<1> SUFFICES ASSUME Init PROVE IInv
  OBVIOUS
<1>1. /\ DefaultState \in BotState /\ DefaultState.pending = {} /\ DefaultState.cash = 0
  BY DEF DefaultState, BotState
<1>2. Idle \in Thread
  BY <1>1 DEF Idle, Thread
<1>3. StateTypeOK
  BY <1>1, <1>2, StonxxAssumption DEF Init, StateTypeOK
<1>4. /\ \A c \in Callers : /\ caller[c].at = "idle" /\ caller[c].deal = NoDeal
                            /\ caller[c].todo = {} /\ caller[c].due = {}
      /\ handler.at = "idle"
  BY ThreadFields DEF Init
<1>5. ~Up /\ file = DefaultState /\ crashes = 0 /\ \A k \in OrderKey : submitted[k] = 0
  BY DEF Init, Up
<1>6. ThreadInv /\ BatchInv /\ SubmittedInv
  BY <1>4, <1>5 DEF Init, ThreadInv, BatchInv, SubmittedInv, InBatch
<1>7. PlanInv
  BY <1>1, <1>4, <1>5 DEF PlanInv, PlanOK
<1>8. CountInv
  BY <1>5 DEF CountInv
<1>9. BooksInv /\ CashInv
  BY <1>1, <1>4, <1>5 DEF BooksInv, Fits, CashInv, Begun, InBatch, Covered
<1> QED BY <1>3, <1>6, <1>7, <1>8, <1>9 DEF IInv

LEMMA StutterStep == ASSUME IInv, UNCHANGED vars PROVE IInv'
<1>1. StateTypeOK' /\ ThreadInv' /\ PlanInv' /\ BatchInv' /\ SubmittedInv'
  BY DEF vars, IInv, StateTypeOK, ThreadInv, PlanInv, NextOpen, BatchInv, SubmittedInv,
         InBatch, Begun, Up
<1>2. CountInv'
  BY DEF vars, IInv, CountInv, MaySubmit, InBatch, Has, Up
<1>3. BooksInv' /\ CashInv'
  BY DEF vars, IInv, BooksInv, Fits, CashInv, Covered, InBatch, Begun, Up
<1> QED BY <1>1, <1>2, <1>3 DEF IInv

LEMMA Inductive == IInv /\ [Next]_vars => IInv'
<1> SUFFICES ASSUME IInv, [Next]_vars PROVE IInv'
  OBVIOUS
<1>1. CASE Start \/ Crash \/ TimePasses
  BY <1>1, StartStep, CrashStep, TimePassesStep
<1>2. ASSUME NEW c \in Callers, Plan(c) PROVE IInv'
  BY <1>2, BeginPlanStep, FinishPlanStep DEF Plan
<1>3. ASSUME NEW c \in Callers, Submission(c) PROVE IInv'
  BY <1>3, BeginBatchStep, SubmitOneStep, BookDealStep, FinishBatchStep DEF Submission
<1>4. ASSUME NEW c \in Callers, SaveState(c) PROVE IInv'
  BY <1>4, DumpStateStep, ReplaceFileStep DEF SaveState
<1>5. CASE OnFilledOrder \/ SaveFill
  BY <1>5, HandlerStep
<1>6. CASE UNCHANGED vars
  BY <1>6, StutterStep
<1> QED BY <1>1, <1>2, <1>3, <1>4, <1>5, <1>6 DEF Next

LEMMA Invariance == Spec => []IInv
BY Initial, Inductive, PTL DEF Spec

(* Every variable stays in its type (the state of the bot and of the       *)
(* threads of the process).                                                *)
THEOREM TypeCorrect == Spec => []StateTypeOK
<1>1. IInv => StateTypeOK
  BY DEF IInv
<1> QED BY <1>1, Invariance, PTL

(* In paper trading the state file never shows an order that the plan in   *)
(* the same file still has to carry out (save_state, _submit_order_batch): *)
(* killed at any point, the bot finds books and plan that fit.             *)
THEOREM FileFitsPlan == Spec => []PendingFitsBooks
<1>1. IInv => PendingFitsBooks
  BY DEF IInv, BooksInv, Fits, PendingFitsBooks
<1> QED BY <1>1, Invariance, PTL

(* The saved cash of a paper account is short only where one process has   *)
(* submitted an order twice, from its two threads: kills and batches       *)
(* carried out again do not bring it about (_paper_execute_order cuts a    *)
(* purchase to the cash).                                                  *)
THEOREM CashCovered == Spec => []PaperCashCovers
<1>1. IInv => PaperCashCovers
  <2> SUFFICES ASSUME IInv, paper, file.cash < 0 PROVE doubled # {}
    BY DEF PaperCashCovers
  <2>1. file.cash \in Int
    BY DEF IInv, StateTypeOK, BotState
  <2> QED BY <2>1 DEF IInv, CashInv, Covered
<1> QED BY <1>1, Invariance, PTL

(* An order is submitted at most once by each thread in each life of the   *)
(* process (submit_pending_orders, called from two threads).               *)
THEOREM SubmissionsAreBounded == Spec => []SubmissionsBounded
<1>1. IInv => SubmissionsBounded
  <2> SUFFICES ASSUME IInv, NEW k \in OrderKey
               PROVE  submitted[k] <= Cardinality(Callers)
    BY DEF SubmissionsBounded
  <2>1. /\ submitted[k] \in Nat /\ Cardinality(Callers) \in Nat
        /\ Cardinality(MaySubmit(k)) \in Nat
    BY SomeCallers DEF IInv, StateTypeOK, MaySubmit
  <2>3. CASE Up
    BY <2>1, <2>3 DEF IInv, CountInv
  <2>4. CASE ~Up
    BY <2>1, <2>4 DEF IInv, CountInv
  <2> QED BY <2>3, <2>4
<1> QED BY <1>1, Invariance, PTL

-----------------------------------------------------------------------------
(* Who takes an order out of the plan. *)

LEMMA OnlyFinishedBatchesLeave ==
    ASSUME IInv, [Next]_vars, phase = "open", Up, Up',
           NEW o \in state.pending \ state'.pending
    PROVE  submitted[o.key] > 0
<1>1. state \in BotState
  BY DEF IInv, StateTypeOK, Up
<1>2. CASE Start \/ Crash \/ TimePasses
  BY <1>2 DEF Start, Crash, TimePasses, Up
<1>3. ASSUME NEW c \in Callers, Plan(c) PROVE FALSE
  <2>1. CASE BeginPlan(c)
    BY <2>1 DEF BeginPlan
  <2>2. CASE FinishPlan(c)
    BY <2>2, ThreadFields DEF FinishPlan, IInv, ThreadInv
  <2> QED BY <1>3, <2>1, <2>2 DEF Plan
<1>4. ASSUME NEW c \in Callers, Submission(c) PROVE submitted[o.key] > 0
  <2>1. CASE BeginBatch(c)
    BY <2>1 DEF BeginBatch
  <2>2. CASE SubmitOne(c)
    BY <2>2, SubmitShape
  <2>3. CASE BookDeal(c)
    BY <1>1, <2>3 DEF BookDeal, BotState
  <2>4. CASE FinishBatch(c)
    <3>1. state'.pending = state.pending \ caller[c].due /\ caller[c].todo = {}
      BY <1>1, <2>4 DEF FinishBatch, Change, BotState
    <3> QED BY <3>1 DEF IInv, SubmittedInv
  <2> QED BY <1>4, <2>1, <2>2, <2>3, <2>4 DEF Submission
<1>5. ASSUME NEW c \in Callers, SaveState(c) PROVE FALSE
  BY <1>5 DEF SaveState, DumpState, ReplaceFile
<1>6. CASE OnFilledOrder \/ SaveFill
  BY <1>1, <1>6 DEF OnFilledOrder, SaveFill, BotState
<1>7. CASE UNCHANGED vars
  BY <1>7 DEF vars
<1> QED BY <1>2, <1>3, <1>4, <1>5, <1>6, <1>7 DEF Next

(* At the open an order leaves the plan only when this process has         *)
(* submitted it, whichever thread takes it out (submit_pending_orders, a   *)
(* batch that two threads may carry out).                                  *)
THEOREM PlanIsNotLost == Spec => PlanNotLost
<1>1. IInv /\ [Next]_vars =>
          [phase = "open" /\ Up /\ Up' =>
               \A o \in state.pending \ state'.pending : submitted[o.key] > 0]_vars
  BY OnlyFinishedBatchesLeave
<1> QED BY <1>1, Invariance, PTL DEF Spec, PlanNotLost
=============================================================================
