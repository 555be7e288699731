--------------------------- MODULE Backtest_proofs ---------------------------
(* Safety of BacktestingBroker for any finite set of orders of any class    *)
(* and type, any lots, prices and cash, and any periods: the books agree    *)
(* with the fills, every fill is at a price the period offered, no exit     *)
(* outlives its position, and the broker implements ContingentOrders.       *)
(*                                                                          *)
(* The argument goes upwards.  First the lots of a future, which a fill     *)
(* leaves all long or all short; then what each operation changes in the    *)
(* book; then three parts of the invariant, kept by a fill and by a         *)
(* cancelation: position, lots and cash agree with the fills (Agrees,       *)
(* Balances), the lists of orders fit the statuses (Fit), and what is left  *)
(* of the pass fits both (TodoFits).  The actions combine them into Inv.    *)
EXTENDS BacktestingBroker, Sums
-----------------------------------------------------------------------------
(* The lots of a future.                                                    *)

Quantities(lots) == [i \in DOMAIN lots |-> lots[i].qty]
Values(lots) == [i \in DOMAIN lots |-> lots[i].qty * lots[i].price]

(* All lots are long, or all are short.                                     *)
Long(lots) == \A i \in DOMAIN lots : lots[i].qty > 0
Short(lots) == \A i \in DOMAIN lots : lots[i].qty < 0
OneSided(lots) == Long(lots) \/ Short(lots)

LEMMA AppendIs ==
  ASSUME NEW S, NEW s \in Seq(S), NEW x \in S
  PROVE  /\ Append(s, x) \in Seq(S) /\ Len(Append(s, x)) = Len(s) + 1 /\ Len(s) \in Nat
         /\ \A i \in 1 .. Len(s) + 1 : Append(s, x)[i] = IF i = Len(s) + 1 THEN x ELSE s[i]
OBVIOUS

LEMMA SameSeq ==
  ASSUME NEW S, NEW s \in Seq(S), NEW t \in Seq(S), Len(s) = Len(t),
         \A i \in 1 .. Len(s) : s[i] = t[i]
  PROVE  s = t
<1>1. \A u \in Seq(S) : u \in [1 .. Len(u) -> S]
  OBVIOUS
<1>2. s \in [1 .. Len(s) -> S] /\ t \in [1 .. Len(s) -> S]
  BY <1>1
<1> QED BY <1>2

LEMMA SumsOfLots ==
  ASSUME NEW lots \in Seq(Lot)
  PROVE  /\ Quantities(lots) \in Seq(Int) /\ Len(Quantities(lots)) = Len(lots)
         /\ Values(lots) \in Seq(Int) /\ Len(Values(lots)) = Len(lots)
         /\ IsFiniteSet(DOMAIN lots)
         /\ Quantities(lots) \in [DOMAIN lots -> Int] /\ Values(lots) \in [DOMAIN lots -> Int]
         /\ Net(lots) = SumFunction(Quantities(lots)) /\ Net(lots) \in Int
         /\ Basis(lots) = SumFunction(Values(lots)) /\ Basis(lots) \in Int
<1>1. DOMAIN lots = 1 .. Len(lots) /\ Len(lots) \in Nat
  OBVIOUS
<1>2. \A i \in DOMAIN lots : lots[i].qty \in Int /\ lots[i].price \in Int
                             /\ lots[i].qty * lots[i].price \in Int
  <2>1. \A i \in DOMAIN lots : lots[i] \in Lot
    OBVIOUS
  <2>2. \A x, y \in Int : x * y \in Int
    OBVIOUS
  <2>3. \A lot \in Lot : lot.qty \in Int /\ lot.price \in Int
    BY DEF Lot
  <2> QED BY <2>1, <2>2, <2>3
<1>3. Quantities(lots) \in [1 .. Len(lots) -> Int] /\ Values(lots) \in [1 .. Len(lots) -> Int]
  BY <1>1, <1>2 DEF Quantities, Values
<1>4. \A f, n : n \in Nat /\ f \in [1 .. n -> Int] => f \in Seq(Int) /\ Len(f) = n
  OBVIOUS
<1>5. IsFiniteSet(1 .. Len(lots))
  BY <1>1, FS_Interval
<1>6. Net(lots) = SumFunction(Quantities(lots)) /\ Basis(lots) = SumFunction(Values(lots))
  BY DEF Net, Basis, Quantities, Values
<1>7. SumFunction(Quantities(lots)) \in Int /\ SumFunction(Values(lots)) \in Int
  BY <1>3, <1>5, SumType
<1> QED BY <1>1, <1>3, <1>4, <1>5, <1>6, <1>7

LEMMA NoLots ==
  Net(<<>>) = 0 /\ Basis(<<>>) = 0
<1>1. <<>> \in Seq(Lot) /\ DOMAIN <<>> = {}
  OBVIOUS
<1> HIDE DEF Lot
<1>2. Quantities(<<>>) \in [{} -> Int] /\ Values(<<>>) \in [{} -> Int]
  BY <1>1, SumsOfLots
<1> QED BY <1>1, <1>2, SumsOfLots, SumOfNone

LEMMA AppendLot ==
  ASSUME NEW lots \in Seq(Lot), NEW lot \in Lot
  PROVE  /\ Net(Append(lots, lot)) = Net(lots) + lot.qty
         /\ Basis(Append(lots, lot)) = Basis(lots) + lot.qty * lot.price
<1> DEFINE more == Append(lots, lot)
<1>1. more \in Seq(Lot) /\ Len(more) = Len(lots) + 1 /\ Len(lots) \in Nat
      /\ \A i \in 1 .. Len(more) : more[i] = IF i = Len(more) THEN lot ELSE lots[i]
  OBVIOUS
<1>2. lot.qty \in Int /\ lot.price \in Int /\ lot.qty * lot.price \in Int
  BY DEF Lot
<1>3. \A s \in Seq(Lot) : DOMAIN s = 1 .. Len(s)
  OBVIOUS
<1>0. \A n : \A s \in Seq(Int) : \A x \in Int :
        Len(s) = n => /\ Append(s, x) \in Seq(Int) /\ Len(Append(s, x)) = n + 1
                      /\ \A i \in 1 .. n + 1 : Append(s, x)[i] = IF i = n + 1 THEN x ELSE s[i]
  BY AppendIs
<1> HIDE DEF more
<1>4. Quantities(more) = Append(Quantities(lots), lot.qty)
  <2> DEFINE q == Append(Quantities(lots), lot.qty)
  <2>1. q \in Seq(Int) /\ Len(q) = Len(lots) + 1
        /\ \A i \in 1 .. Len(lots) + 1 :
             q[i] = IF i = Len(lots) + 1 THEN lot.qty ELSE Quantities(lots)[i]
    <3>1. Quantities(lots) \in Seq(Int) /\ Len(Quantities(lots)) = Len(lots)
      BY SumsOfLots
    <3>2. lot.qty \in Int
      BY <1>2
    <3> QED BY <1>0, <3>1, <3>2, Zenon
  <2>2. Quantities(more) \in Seq(Int) /\ Len(Quantities(more)) = Len(lots) + 1
    BY <1>1, SumsOfLots
  <2>3. \A i \in 1 .. Len(lots) + 1 : Quantities(more)[i] = more[i].qty
    BY <1>1, <1>3 DEF Quantities
  <2>4. \A i \in 1 .. Len(lots) : Quantities(lots)[i] = lots[i].qty
    BY <1>3 DEF Quantities
  <2> HIDE DEF q
  <2>5. \A i \in 1 .. Len(lots) + 1 : Quantities(more)[i] = q[i]
    BY <1>1, <2>1, <2>3, <2>4
  <2>6. Quantities(more) = q
    BY <2>1, <2>2, <2>5, SameSeq
  <2> QED BY <2>6 DEF q
<1>5. Values(more) = Append(Values(lots), lot.qty * lot.price)
  <2> DEFINE v == lot.qty * lot.price
             q == Append(Values(lots), v)
  <2> HIDE DEF v
  <2>1. q \in Seq(Int) /\ Len(q) = Len(lots) + 1
        /\ \A i \in 1 .. Len(lots) + 1 : q[i] = IF i = Len(lots) + 1 THEN v ELSE Values(lots)[i]
    <3>1. Values(lots) \in Seq(Int) /\ Len(Values(lots)) = Len(lots)
      BY SumsOfLots
    <3>2. v \in Int
      BY <1>2 DEF v
    <3> QED BY <1>0, <3>1, <3>2, Zenon
  <2>2. Values(more) \in Seq(Int) /\ Len(Values(more)) = Len(lots) + 1
    BY <1>1, SumsOfLots
  <2>3. \A i \in 1 .. Len(lots) + 1 : Values(more)[i] = more[i].qty * more[i].price
    BY <1>1, <1>3 DEF Values
  <2>4. \A i \in 1 .. Len(lots) : Values(lots)[i] = lots[i].qty * lots[i].price
    BY <1>3 DEF Values
  <2> HIDE DEF q
  <2>5. ASSUME NEW i \in 1 .. Len(lots) + 1 PROVE Values(more)[i] = q[i]
    <3>1. CASE i = Len(lots) + 1
      BY <1>1, <2>1, <2>3, <3>1 DEF v
    <3>2. CASE i # Len(lots) + 1
      <4>1. i \in 1 .. Len(lots) /\ more[i] = lots[i]
        BY <1>1, <3>2
      <4>2. q[i] = Values(lots)[i] /\ Values(more)[i] = more[i].qty * more[i].price
        BY <2>1, <2>3, <3>2
      <4>3. Values(lots)[i] = lots[i].qty * lots[i].price
        BY <2>4, <4>1
      <4> QED BY <4>1, <4>2, <4>3, Zenon
    <3> QED BY <3>1, <3>2
  <2>6. Values(more) = q
    BY <2>1, <2>2, <2>5, SameSeq
  <2> QED BY <2>6 DEF q, v
<1>6. SumFunction(Quantities(more)) = SumFunction(Quantities(lots)) + lot.qty
  BY <1>2, <1>4, SumsOfLots, SumOfAppend
<1>7. SumFunction(Values(more)) = SumFunction(Values(lots)) + lot.qty * lot.price
  BY <1>2, <1>5, SumsOfLots, SumOfAppend
<1> QED BY <1>1, <1>6, <1>7, SumsOfLots DEF more

LEMMA OldestLot ==
  ASSUME NEW lots \in Seq(Lot), lots # <<>>
  PROVE  /\ Net(lots) = lots[1].qty + Net(Tail(lots))
         /\ Basis(lots) = lots[1].qty * lots[1].price + Basis(Tail(lots))
<1>1. Tail(lots) \in Seq(Lot) /\ Len(Tail(lots)) = Len(lots) - 1 /\ Len(lots) \in Nat
      /\ Len(lots) > 0 /\ \A i \in 1 .. Len(lots) - 1 : Tail(lots)[i] = lots[i + 1]
  OBVIOUS
<1>2. \A s \in Seq(Lot) : DOMAIN s = 1 .. Len(s)
  OBVIOUS
<1>3. \A s \in Seq(Int) : s # <<>> => /\ Tail(s) \in Seq(Int) /\ Len(Tail(s)) = Len(s) - 1
                                      /\ \A i \in 1 .. Len(s) - 1 : Tail(s)[i] = s[i + 1]
  OBVIOUS
<1>4. \A s, t \in Seq(Int) : Len(s) = Len(t) /\ (\A i \in 1 .. Len(s) : s[i] = t[i]) => s = t
  BY SameSeq
<1>5. Quantities(lots) # <<>> /\ Values(lots) # <<>>
  BY <1>1, SumsOfLots
<1>6. Tail(Quantities(lots)) = Quantities(Tail(lots))
  <2>1. \A i \in 1 .. Len(lots) - 1 : /\ Tail(Quantities(lots))[i] = lots[i + 1].qty
                                      /\ Quantities(Tail(lots))[i] = lots[i + 1].qty
    BY <1>1, <1>2, <1>3, <1>5, SumsOfLots DEF Quantities
  <2>2. Len(Tail(Quantities(lots))) = Len(lots) - 1 /\ Len(Quantities(Tail(lots))) = Len(lots) - 1
        /\ Tail(Quantities(lots)) \in Seq(Int) /\ Quantities(Tail(lots)) \in Seq(Int)
    BY <1>1, <1>3, <1>5, SumsOfLots
  <2> QED BY <1>4, <2>1, <2>2
<1>7. Tail(Values(lots)) = Values(Tail(lots))
  <2>1. \A i \in 1 .. Len(lots) - 1 : /\ Tail(Values(lots))[i] = lots[i + 1].qty * lots[i + 1].price
                                      /\ Values(Tail(lots))[i] = lots[i + 1].qty * lots[i + 1].price
    BY <1>1, <1>2, <1>3, <1>5, SumsOfLots DEF Values
  <2>2. Len(Tail(Values(lots))) = Len(lots) - 1 /\ Len(Values(Tail(lots))) = Len(lots) - 1
        /\ Tail(Values(lots)) \in Seq(Int) /\ Values(Tail(lots)) \in Seq(Int)
    BY <1>1, <1>3, <1>5, SumsOfLots
  <2> QED BY <1>4, <2>1, <2>2
<1>8. Quantities(lots)[1] = lots[1].qty /\ Values(lots)[1] = lots[1].qty * lots[1].price
  BY <1>1, <1>2 DEF Quantities, Values
<1> QED BY <1>1, <1>5, <1>6, <1>7, <1>8, SumsOfLots, SumOfTail

LEMMA ReducedLot ==
  ASSUME NEW lots \in Seq(Lot), lots # <<>>, NEW rest \in Int
  PROVE  LET less == [lots EXCEPT ![1].qty = rest]
         IN  /\ less \in Seq(Lot) /\ Len(less) = Len(lots)
             /\ \A i \in DOMAIN less : less[i].qty = IF i = 1 THEN rest ELSE lots[i].qty
             /\ Net(less) = (Net(lots) - lots[1].qty) + rest
             /\ Basis(less) = (Basis(lots) - lots[1].qty * lots[1].price) + rest * lots[1].price
<1> DEFINE less == [lots EXCEPT ![1].qty = rest]
<1>1. Len(lots) \in Nat /\ Len(lots) > 0 /\ DOMAIN lots = 1 .. Len(lots) /\ lots[1] \in Lot
  OBVIOUS
<1>2. less \in Seq(Lot) /\ Len(less) = Len(lots) /\ DOMAIN less = DOMAIN lots
  BY <1>1 DEF Lot
<1>3. /\ less[1] = [lots[1] EXCEPT !.qty = rest]
      /\ \A i \in DOMAIN lots : i # 1 => less[i] = lots[i]
  BY <1>1
<1>4. less[1].qty = rest /\ less[1].price = lots[1].price
  BY <1>1, <1>3 DEF Lot
<1> HIDE DEF less
<1>5. 1 \in DOMAIN lots
  BY <1>1
<1>6. \A i \in DOMAIN lots \ {1} : /\ Quantities(less)[i] = Quantities(lots)[i]
                                   /\ Values(less)[i] = Values(lots)[i]
  BY <1>2, <1>3 DEF Quantities, Values
<1>7. /\ Quantities(less)[1] = rest /\ Quantities(lots)[1] = lots[1].qty
      /\ Values(less)[1] = rest * lots[1].price /\ Values(lots)[1] = lots[1].qty * lots[1].price
  BY <1>2, <1>4, <1>5 DEF Quantities, Values
<1>8. /\ SumFunction(Quantities(less)) =
           SumFunction(Quantities(lots)) + (Quantities(less)[1] - Quantities(lots)[1])
      /\ SumFunction(Values(less)) =
           SumFunction(Values(lots)) + (Values(less)[1] - Values(lots)[1])
  <2>1. /\ Quantities(less) \in [DOMAIN lots -> Int] /\ Quantities(lots) \in [DOMAIN lots -> Int]
        /\ Values(less) \in [DOMAIN lots -> Int] /\ Values(lots) \in [DOMAIN lots -> Int]
        /\ IsFiniteSet(DOMAIN lots)
    <3>1. /\ Quantities(lots) \in [DOMAIN lots -> Int] /\ Values(lots) \in [DOMAIN lots -> Int]
          /\ IsFiniteSet(DOMAIN lots)
      BY SumsOfLots
    <3>2. Quantities(less) \in [DOMAIN less -> Int] /\ Values(less) \in [DOMAIN less -> Int]
      BY <1>2, SumsOfLots
    <3>3. DOMAIN less = DOMAIN lots
      BY <1>2
    <3> HIDE DEF Quantities, Values
    <3> QED BY <3>1, <3>2, <3>3, Zenon
  <2>2. \A g, h \in [DOMAIN lots -> Int] :
           (\A i \in DOMAIN lots \ {1} : h[i] = g[i])
             => SumFunction(h) = SumFunction(g) + (h[1] - g[1])
    BY <1>5, <2>1, SumChanges
  <2>3. SumFunction(Quantities(less)) =
           SumFunction(Quantities(lots)) + (Quantities(less)[1] - Quantities(lots)[1])
    BY <1>6, <2>1, <2>2, Zenon
  <2>4. SumFunction(Values(less)) =
           SumFunction(Values(lots)) + (Values(less)[1] - Values(lots)[1])
    BY <1>6, <2>1, <2>2, Zenon
  <2> QED BY <2>3, <2>4
<1>9. lots[1].qty \in Int /\ lots[1].price \in Int /\ lots[1].qty * lots[1].price \in Int
      /\ rest * lots[1].price \in Int
  BY <1>1 DEF Lot
<1>10. Net(less) = (Net(lots) - lots[1].qty) + rest
  <2>1. Net(less) = Net(lots) + (rest - lots[1].qty) /\ Net(lots) \in Int
    BY <1>2, <1>7, <1>8, SumsOfLots
  <2> QED BY <1>9, <2>1
<1>11. Basis(less) = (Basis(lots) - lots[1].qty * lots[1].price) + rest * lots[1].price
  <2> DEFINE v == lots[1].qty * lots[1].price
             w == rest * lots[1].price
  <2>1. v \in Int /\ w \in Int /\ Values(less)[1] = w /\ Values(lots)[1] = v
    BY <1>7, <1>9
  <2> HIDE DEF v, w
  <2>2. Basis(less) = (Basis(lots) - v) + w
    BY <1>2, <1>8, <2>1, SumsOfLots
  <2> QED BY <2>2 DEF v, w
<1> QED BY <1>2, <1>3, <1>4, <1>10, <1>11 DEF less

(* Lots of one side add up to that side, and to nothing only if there are   *)
(* none.                                                                    *)
LEMMA NetSign ==
  ASSUME NEW lots \in Seq(Lot)
  PROVE  /\ Long(lots) => Net(lots) >= 0 /\ (lots # <<>> => Net(lots) > 0)
         /\ Short(lots) => Net(lots) <= 0 /\ (lots # <<>> => Net(lots) < 0)
<1>1. ASSUME NEW some \in Seq(Lot)
      PROVE  /\ Long(some) => Net(some) >= 0
             /\ Short(some) => Net(some) <= 0
  <2>1. \A i \in DOMAIN some : Quantities(some)[i] = some[i].qty /\ some[i].qty \in Int
    <3>1. \A i \in DOMAIN some : some[i] \in Lot
      OBVIOUS
    <3> QED BY <3>1 DEF Quantities, Lot
  <2>2. /\ Long(some) => \A i \in DOMAIN some : Quantities(some)[i] >= 0
        /\ Short(some) => \A i \in DOMAIN some : Quantities(some)[i] <= 0
    BY <2>1 DEF Long, Short
  <2> QED BY <2>2, SumsOfLots, SumSign
<1>2. ASSUME lots # <<>>
      PROVE  /\ Long(lots) => Net(lots) > 0
             /\ Short(lots) => Net(lots) < 0
  <2>1. /\ Tail(lots) \in Seq(Lot)
        /\ \A i \in DOMAIN Tail(lots) : i + 1 \in DOMAIN lots /\ Tail(lots)[i] = lots[i + 1]
    BY <1>2
  <2>2. (Long(lots) => Long(Tail(lots))) /\ (Short(lots) => Short(Tail(lots)))
    BY <2>1 DEF Long, Short
  <2>3. 1 \in DOMAIN lots /\ lots[1].qty \in Int /\ Net(Tail(lots)) \in Int
    <3>1. 1 \in DOMAIN lots /\ lots[1] \in Lot
      BY <1>2
    <3> QED BY <2>1, <3>1, SumsOfLots DEF Lot
  <2>4. Net(lots) = lots[1].qty + Net(Tail(lots))
    BY <1>2, OldestLot
  <2>5. (Long(lots) => lots[1].qty > 0) /\ (Short(lots) => lots[1].qty < 0)
    BY <2>3 DEF Long, Short
  <2>6. (Long(lots) => Net(Tail(lots)) >= 0) /\ (Short(lots) => Net(Tail(lots)) <= 0)
    BY <1>1, <2>1, <2>2
  <2> QED BY <2>3, <2>4, <2>5, <2>6
<1> QED BY <1>1, <1>2

(* One round of the loop that closes contracts books what the lots it takes *)
(* are worth more at the price of the fill than at their own.               *)
OfSide(lots, buy) == IF buy THEN Long(lots) ELSE Short(lots)
LoopState == [left : Nat, profit : Int, lots : Seq(Lot)]

LEMMA Products ==
  /\ \A x, y \in Int : x * y \in Int
  /\ \A x, y, z \in Int : (x - y) * z = x * z - y * z /\ (x + y) * z = x * z + y * z
  /\ \A x, y, z \in Int : x * (y - z) = x * y - x * z
  /\ \A x, y \in Int : (-x) * y = -(x * y)
  /\ \A x, y \in Int : x * y < 0 <=> (x < 0 /\ y > 0) \/ (x > 0 /\ y < 0)
<1>1. \A x, y \in Int : x * y \in Int
  OBVIOUS
<1>2. \A x, y, z \in Int : (x - y) * z = x * z - y * z /\ (x + y) * z = x * z + y * z
  OBVIOUS
<1>3. \A x, y, z \in Int : x * (y - z) = x * y - x * z
  OBVIOUS
<1>4. \A x, y \in Int : (-x) * y = -(x * y)
  OBVIOUS
<1>5. \A x, y \in Int : x * y < 0 <=> (x < 0 /\ y > 0) \/ (x > 0 /\ y < 0)
  OBVIOUS
<1> QED BY <1>1, <1>2, <1>3, <1>4, <1>5

LEMMA OneRound ==
  ASSUME NEW s \in LoopState, s.left > 0, s.lots # <<>>, NEW price \in Nat,
         NEW buy \in BOOLEAN, OfSide(s.lots, buy)
  PROVE  LET t == CloseOldest(s, price)
             moved == Net(s.lots) - Net(t.lots)
         IN  /\ t \in LoopState /\ OfSide(t.lots, buy)
             /\ Len(t.lots) <= Len(s.lots)
             /\ t.left = 0 \/ Len(t.lots) = Len(s.lots) - 1
             /\ s.left - t.left = IF buy THEN moved ELSE -moved
             /\ t.profit = s.profit + (Basis(t.lots) - Basis(s.lots)) + moved * price
<1> DEFINE lots == s.lots
           lot == Head(s.lots)
           take == Smaller(Abs(lot.qty), s.left)
           closed == SignOf(lot.qty) * take
           rest == lot.qty - closed
           t == CloseOldest(s, price)
<1>1. lots \in Seq(Lot) /\ s.left \in Nat /\ s.profit \in Int
  BY DEF LoopState
<1>2. lot = lots[1] /\ lot \in Lot /\ 1 \in DOMAIN lots
  BY <1>1
<1>3. lot.qty \in Int /\ lot.price \in Int /\ price \in Int
  BY <1>2 DEF Lot
<1>4. IF buy THEN lot.qty > 0 ELSE lot.qty < 0
  BY <1>2 DEF OfSide, Long, Short
<1>5. /\ take \in Nat /\ closed \in Int /\ rest \in Int
      /\ s.left - take \in Nat
      /\ take = IF buy THEN closed ELSE -closed
      /\ s.left = take \/ rest = 0
      /\ rest # 0 => IF buy THEN rest > 0 ELSE rest < 0
      /\ take > 0
  <2>1. CASE buy
    BY <1>1, <1>3, <1>4, <2>1 DEF Smaller, Abs, SignOf
  <2>2. CASE ~buy
    <3>1. lot.qty < 0 /\ Abs(lot.qty) = -lot.qty /\ SignOf(lot.qty) = -1 /\ Abs(lot.qty) \in Nat
      BY <1>3, <1>4, <2>2 DEF Abs, SignOf
    <3>2. /\ take \in Nat /\ take > 0 /\ take <= s.left /\ take <= -lot.qty
          /\ take = s.left \/ take = -lot.qty
      BY <1>1, <1>3, <3>1 DEF Smaller
    <3> HIDE DEF take
    <3>3. closed = -take /\ rest = lot.qty + take
      BY <1>3, <3>1, <3>2
    <3> HIDE DEF closed, rest
    <3> QED BY <1>1, <1>3, <2>2, <3>2, <3>3
  <2> QED BY <2>1, <2>2
<1>6. /\ t.left = s.left - take
      /\ t.profit = s.profit + closed * (price - lot.price)
      /\ t.lots = IF rest = 0 THEN Tail(lots) ELSE [lots EXCEPT ![1].qty = rest]
      /\ t = [left |-> t.left, profit |-> t.profit, lots |-> t.lots]
  BY DEF CloseOldest
<1> HIDE DEF lots, lot, take, closed, rest, t
<1>7. /\ t.lots \in Seq(Lot) /\ OfSide(t.lots, buy) /\ Len(t.lots) <= Len(lots)
      /\ rest = 0 => Len(t.lots) = Len(lots) - 1
      /\ Net(t.lots) = Net(lots) - closed
      /\ Basis(t.lots) = Basis(lots) - closed * lot.price
  <2>0. Net(lots) \in Int /\ Basis(lots) \in Int /\ lots # <<>> /\ Len(lots) \in Nat
    BY <1>1, SumsOfLots DEF lots
  <2>1. CASE rest = 0
    <3>1. t.lots = Tail(lots) /\ closed = lot.qty
      BY <1>3, <1>5, <1>6, <2>1 DEF rest
    <3>2. Tail(lots) \in Seq(Lot) /\ Len(Tail(lots)) = Len(lots) - 1
          /\ \A i \in DOMAIN Tail(lots) : i + 1 \in DOMAIN lots /\ Tail(lots)[i] = lots[i + 1]
      BY <1>1, <2>0
    <3>3. OfSide(Tail(lots), buy)
      BY <3>2 DEF OfSide, Long, Short, lots
    <3>4. Net(lots) = lot.qty + Net(Tail(lots)) /\ Basis(lots) = lot.qty * lot.price + Basis(Tail(lots))
      BY <1>1, <1>2, <2>0, OldestLot
    <3>5. Net(Tail(lots)) \in Int /\ Basis(Tail(lots)) \in Int /\ lot.qty * lot.price \in Int
      BY <1>3, <3>2, SumsOfLots, Products
    <3>6. Net(Tail(lots)) = Net(lots) - closed
      BY <1>3, <3>1, <3>4, <3>5
    <3>7. Basis(Tail(lots)) = Basis(lots) - closed * lot.price
      <4> DEFINE v == lot.qty * lot.price
      <4>1. v \in Int /\ closed * lot.price = v /\ Basis(lots) = v + Basis(Tail(lots))
        BY <3>1, <3>4, <3>5
      <4> HIDE DEF v
      <4> QED BY <3>5, <4>1
    <3> QED BY <2>0, <3>1, <3>2, <3>3, <3>6, <3>7
  <2>2. CASE rest # 0
    <3> DEFINE less == [lots EXCEPT ![1].qty = rest]
    <3>1. t.lots = less
      BY <1>6, <2>2
    <3>2. /\ less \in Seq(Lot) /\ Len(less) = Len(lots)
          /\ \A i \in DOMAIN less : less[i].qty = IF i = 1 THEN rest ELSE lots[i].qty
          /\ Net(less) = (Net(lots) - lots[1].qty) + rest
          /\ Basis(less) = (Basis(lots) - lots[1].qty * lots[1].price) + rest * lots[1].price
      BY <1>1, <1>5, <2>0, ReducedLot
    <3> HIDE DEF less
    <3>3. DOMAIN less = DOMAIN lots
      BY <1>1, <3>2
    <3>4. OfSide(less, buy)
      BY <1>5, <2>2, <3>2, <3>3 DEF OfSide, Long, Short, lots
    <3>5. Net(less) = Net(lots) - closed
      BY <1>2, <1>3, <1>5, <2>0, <3>2 DEF rest
    <3>6. Basis(less) = Basis(lots) - closed * lot.price
      <4> DEFINE v == lot.qty * lot.price
                 w == closed * lot.price
      <4>1. rest * lot.price = v - w
        <5>1. \A x, y, z \in Int : (x - y) * z = x * z - y * z
          BY Products
        <5>2. (lot.qty - closed) * lot.price = v - w
          BY <1>3, <1>5, <5>1
        <5> QED BY <5>2 DEF rest
      <4>2. v \in Int /\ w \in Int
        BY <1>3, <1>5, Products
      <4>3. Basis(less) = (Basis(lots) - v) + rest * lot.price
        BY <1>2, <3>2
      <4> HIDE DEF v, w
      <4>4. Basis(less) = Basis(lots) - w
        BY <2>0, <4>1, <4>2, <4>3
      <4> QED BY <4>4 DEF w
    <3> QED BY <2>0, <2>2, <3>1, <3>2, <3>4, <3>5, <3>6
  <2> QED BY <2>1, <2>2
<1>8. t.profit = s.profit + (Basis(t.lots) - Basis(lots)) + (Net(lots) - Net(t.lots)) * price
  <2>1. closed * (price - lot.price) = closed * price - closed * lot.price
    BY <1>3, <1>5, Products
  <2>2. Net(lots) - Net(t.lots) = closed
    BY <1>1, <1>5, <1>7, SumsOfLots
  <2> DEFINE v == closed * price
             w == closed * lot.price
  <2>3. v \in Int /\ w \in Int
    BY <1>3, <1>5, Products
  <2>4. /\ t.profit = s.profit + (v - w) /\ Basis(t.lots) = Basis(lots) - w
        /\ (Net(lots) - Net(t.lots)) * price = v
    BY <1>6, <1>7, <2>1, <2>2
  <2>5. Basis(lots) \in Int
    BY <1>1, SumsOfLots
  <2> HIDE DEF v, w
  <2> QED BY <1>1, <2>3, <2>4, <2>5
<1>9. t \in LoopState
  <2>1. t.profit \in Int
    <3>1. closed * (price - lot.price) \in Int
      BY <1>3, <1>5, Products
    <3> QED BY <1>1, <1>6, <3>1
  <2> QED BY <1>5, <1>6, <1>7, <2>1 DEF LoopState
<1>10. s.left - t.left = IF buy THEN Net(lots) - Net(t.lots) ELSE -(Net(lots) - Net(t.lots))
  <2>1. Net(lots) \in Int
    BY <1>1, SumsOfLots
  <2> QED BY <1>1, <1>5, <1>6, <1>7, <2>1
<1>11. t.left = 0 \/ Len(t.lots) = Len(lots) - 1
  BY <1>1, <1>5, <1>6, <1>7
<1> QED BY <1>7, <1>8, <1>9, <1>10, <1>11 DEF lots, t

(* The whole loop, when there are enough contracts to close.                *)
LEMMA AllClosed ==
  ASSUME NEW lots \in Seq(Lot), NEW qty \in Nat, NEW price \in Nat, NEW buy \in BOOLEAN,
         OfSide(lots, buy), qty <= IF buy THEN Net(lots) ELSE -Net(lots)
  PROVE  LET r == Realized(lots, qty, price)
         IN  /\ r.lots \in Seq(Lot) /\ OfSide(r.lots, buy) /\ r.profit \in Int
             /\ Net(lots) - Net(r.lots) = IF buy THEN qty ELSE -qty
             /\ r.profit = (Basis(r.lots) - Basis(lots)) + (Net(lots) - Net(r.lots)) * price
<1> DEFINE N == Len(lots)
           D == {s \in LoopState : OfSide(s.lots, buy)}
           start == [left |-> qty, profit |-> 0, lots |-> lots]
           Round(s) == IF s.left = 0 \/ s.lots = <<>> THEN s ELSE CloseOldest(s, price)
           Rounds(f) == [n \in 0 .. N |-> IF n = 0 THEN start ELSE Round(f[n - 1])]
           after == CHOOSE f : f = Rounds(f)
           Booked(s) == /\ qty - s.left = IF buy THEN Net(lots) - Net(s.lots)
                                          ELSE -(Net(lots) - Net(s.lots))
                        /\ s.profit = (Basis(s.lots) - Basis(lots))
                                        + (Net(lots) - Net(s.lots)) * price
           Fits(n, s) == s.left = 0 \/ Len(s.lots) <= N - n
<1>1. N \in Nat /\ start \in D
  BY DEF LoopState
<1>2. \A s \in D : s.left \in Nat /\ s.profit \in Int /\ s.lots \in Seq(Lot)
                   /\ OfSide(s.lots, buy) /\ s \in LoopState
  BY DEF LoopState
<1>3. \A s \in D : Round(s) \in D
  <2>1. ASSUME NEW s \in D PROVE Round(s) \in D
    <3>1. CASE s.left = 0 \/ s.lots = <<>>
      BY <3>1
    <3>2. CASE ~(s.left = 0 \/ s.lots = <<>>)
      <4>1. s.left > 0 /\ s.lots # <<>> /\ s \in LoopState /\ OfSide(s.lots, buy)
        BY <1>2, <3>2
      <4>2. CloseOldest(s, price) \in D
        BY <4>1, OneRound
      <4> QED BY <3>2, <4>2
    <3> QED BY <3>1, <3>2
  <2> QED BY <2>1
<1> HIDE DEF D, Round, start
<1>4. after = Rounds(after) /\ after \in [0 .. N -> D]
  <2> DEFINE step == [i \in 1 .. N |-> [s \in D |-> Round(s)]]
  <2>1. step \in [1 .. N -> [D -> D]]
    BY <1>3
  <2>2. \A i \in 1 .. N : \A s \in D : step[i][s] = Round(s)
    OBVIOUS
  <2> HIDE DEF step, N
  <2>3. PICK f \in [0 .. N -> D] : f[0] = start /\ \A i \in 1 .. N : f[i] = step[i][f[i - 1]]
    <3>1. \E f : Stepwise(f, N, D, start, step)
      BY <1>1, <2>1, StepsExist
    <3> QED BY <3>1 DEF Stepwise
  <2>4. \A i \in 1 .. N : f[i] = Round(f[i - 1])
    <3>1. \A i \in 1 .. N : f[i - 1] \in D
      BY <1>1, <2>3
    <3> QED BY <2>2, <2>3, <3>1
  <2>5. f = Rounds(f)
    <3>1. \A n \in 0 .. N : n = 0 \/ n \in 1 .. N
      BY <1>1
    <3>2. \A n \in 0 .. N : f[n] = IF n = 0 THEN start ELSE Round(f[n - 1])
      BY <2>3, <2>4, <3>1
    <3> QED BY <3>2
  <2>6. after = Rounds(after)
    BY <2>5
  <2>7. \A g : g = Rounds(g) => g \in [0 .. N -> D]
    <3> SUFFICES ASSUME NEW g, g = Rounds(g) PROVE g \in [0 .. N -> D]
      OBVIOUS
    <3>1. DOMAIN g = 0 .. N /\ \A n \in 0 .. N : g[n] = IF n = 0 THEN start ELSE Round(g[n - 1])
      OBVIOUS
    <3> DEFINE B == {n \in 0 .. N : g[n] \notin D}
    <3>2. 0 \notin B
      BY <1>1, <3>1
    <3>3. \A n \in 1 .. N : n - 1 \notin B => n \notin B
      <4> SUFFICES ASSUME NEW n \in 1 .. N, n - 1 \notin B PROVE n \notin B
        OBVIOUS
      <4>1. n - 1 \in 0 .. N /\ n # 0 /\ n \in 0 .. N
        BY <1>1
      <4>2. g[n - 1] \in D /\ g[n] = Round(g[n - 1])
        BY <3>1, <4>1
      <4> QED BY <1>3, <4>2
    <3>4. B = {}
      <4>1. B \in SUBSET (0 .. N)
        OBVIOUS
      <4> HIDE DEF B
      <4> QED BY <1>1, <3>2, <3>3, <4>1, Climb
    <3>5. g = [n \in 0 .. N |-> g[n]]
      OBVIOUS
    <3>6. \A n \in 0 .. N : g[n] \in D
      BY <3>4
    <3> QED BY <3>5, <3>6
  <2> HIDE DEF after, Rounds
  <2> QED BY <2>6, <2>7
<1>5. /\ after[0] = start
      /\ \A n \in 1 .. N : after[n] = Round(after[n - 1]) /\ after[n - 1] \in D /\ after[n] \in D
  <2>1. \A n \in 1 .. N : n \in 0 .. N /\ n # 0 /\ n - 1 \in 0 .. N
    BY <1>1
  <2>2. 0 \in 0 .. N
    BY <1>1
  <2> HIDE DEF after, N
  <2> QED BY <1>4, <2>1, <2>2
<1>6. Realized(lots, qty, price) = after[N]
  BY DEF Realized, Round, start
<1> HIDE DEF after, Rounds, N
<1>7. Booked(start) /\ Fits(0, start)
  <2>1. start.left = qty /\ start.profit = 0 /\ start.lots = lots
    BY DEF start
  <2>2. Net(lots) \in Int /\ Basis(lots) \in Int /\ price \in Int
    BY SumsOfLots
  <2>3. (Net(lots) - Net(lots)) * price = 0
    BY <2>2
  <2> QED BY <1>1, <2>1, <2>2, <2>3 DEF N
<1>8. ASSUME NEW n \in 1 .. N, NEW s \in D, Booked(s), Fits(n - 1, s)
      PROVE  Booked(Round(s)) /\ Fits(n, Round(s))
  <2>1. s.left \in Nat /\ s.profit \in Int /\ s.lots \in Seq(Lot) /\ s \in LoopState
        /\ OfSide(s.lots, buy) /\ Len(s.lots) \in Nat
    <3>1. \A u \in Seq(Lot) : Len(u) \in Nat
      OBVIOUS
    <3> QED BY <1>2, <3>1
  <2>2. CASE s.left = 0 \/ s.lots = <<>>
    <3>1. Round(s) = s
      BY <2>2 DEF Round
    <3>2. Fits(n, s)
      BY <1>1, <2>2
    <3> QED BY <1>8, <3>1, <3>2
  <2>3. CASE ~(s.left = 0 \/ s.lots = <<>>)
    <3> DEFINE t == CloseOldest(s, price)
    <3>1. Round(s) = t
      BY <2>3 DEF Round
    <3>2. /\ t \in LoopState /\ OfSide(t.lots, buy)
          /\ t.left = 0 \/ Len(t.lots) = Len(s.lots) - 1
          /\ s.left - t.left = IF buy THEN Net(s.lots) - Net(t.lots) ELSE -(Net(s.lots) - Net(t.lots))
          /\ t.profit = s.profit + (Basis(t.lots) - Basis(s.lots)) + (Net(s.lots) - Net(t.lots)) * price
      BY <2>1, <2>3, OneRound
    <3> HIDE DEF t
    <3>3. t.left \in Nat /\ t.profit \in Int /\ t.lots \in Seq(Lot)
      BY <3>2 DEF LoopState
    <3>4. /\ Net(lots) \in Int /\ Net(s.lots) \in Int /\ Net(t.lots) \in Int
          /\ Basis(lots) \in Int /\ Basis(s.lots) \in Int /\ Basis(t.lots) \in Int
      BY <2>1, <3>3, SumsOfLots
    <3> DEFINE v == (Net(lots) - Net(s.lots)) * price
               w == (Net(s.lots) - Net(t.lots)) * price
    <3>5. (Net(lots) - Net(t.lots)) * price = v + w /\ v \in Int /\ w \in Int
      <4> DEFINE x == Net(lots) - Net(s.lots)
                 y == Net(s.lots) - Net(t.lots)
      <4>1. Net(lots) - Net(t.lots) = x + y /\ x \in Int /\ y \in Int /\ price \in Int
        BY <3>4
      <4> HIDE DEF x, y
      <4>2. \A u, z \in Int : u * z \in Int
        BY Products
      <4>3. \A a, b, c \in Int : (a + b) * c = a * c + b * c
        BY Products
      <4>4. (x + y) * price = x * price + y * price
        BY <4>1, <4>3
      <4>5. x * price \in Int /\ y * price \in Int
        BY <4>1, <4>2
      <4> QED BY <4>1, <4>4, <4>5 DEF x, y
    <3>6. /\ s.profit = (Basis(s.lots) - Basis(lots)) + v
          /\ t.profit = s.profit + (Basis(t.lots) - Basis(s.lots)) + w
      BY <1>8, <3>2
    <3> HIDE DEF v, w
    <3>7. t.profit = (Basis(t.lots) - Basis(lots)) + (v + w)
      <4>2. s.profit \in Int /\ t.profit \in Int
        BY <2>1, <3>3
      <4> DEFINE p == s.profit
                 q == t.profit
                 a == Basis(lots)
                 b == Basis(s.lots)
                 c == Basis(t.lots)
      <4>3. p \in Int /\ q \in Int /\ a \in Int /\ b \in Int /\ c \in Int
        BY <3>4, <4>2
      <4>4. p = (b - a) + v /\ q = p + (c - b) + w
        BY <3>6
      <4> HIDE DEF p, q, a, b, c
      <4>5. q = (c - a) + (v + w)
        BY <3>5, <4>3, <4>4
      <4> QED BY <4>5 DEF q, a, c
    <3>8. qty - t.left = IF buy THEN Net(lots) - Net(t.lots) ELSE -(Net(lots) - Net(t.lots))
      <4>1. qty - s.left = IF buy THEN Net(lots) - Net(s.lots) ELSE -(Net(lots) - Net(s.lots))
        BY <1>8
      <4>2. s.left - t.left = IF buy THEN Net(s.lots) - Net(t.lots) ELSE -(Net(s.lots) - Net(t.lots))
        BY <3>2
      <4>3. s.left \in Int /\ t.left \in Int /\ qty \in Int
        BY <2>1, <3>3
      <4> DEFINE l == s.left
                 m == t.left
                 a == Net(lots)
                 b == Net(s.lots)
                 c == Net(t.lots)
      <4>4. l \in Int /\ m \in Int /\ qty \in Int /\ a \in Int /\ b \in Int /\ c \in Int
        BY <3>4, <4>3
      <4>5. qty - l = (IF buy THEN a - b ELSE -(a - b)) /\ l - m = (IF buy THEN b - c ELSE -(b - c))
        BY <4>1, <4>2
      <4> HIDE DEF l, m, a, b, c
      <4>6. qty - m = IF buy THEN a - c ELSE -(a - c)
        BY <4>4, <4>5
      <4> QED BY <4>6 DEF m, a, c
    <3>9. Fits(n, t)
      BY <1>1, <1>8, <2>1, <2>3, <3>2
    <3> QED BY <3>1, <3>5, <3>7, <3>8, <3>9
  <2> QED BY <2>2, <2>3
<1> HIDE DEF Booked, Fits
<1>9. Booked(after[N]) /\ Fits(N, after[N]) /\ after[N] \in D
  <2> DEFINE B == {n \in 0 .. N : ~(Booked(after[n]) /\ Fits(n, after[n]))}
  <2>1. 0 \notin B
    BY <1>5, <1>7
  <2>2. \A n \in 1 .. N : n - 1 \notin B => n \notin B
    <3> SUFFICES ASSUME NEW n \in 1 .. N, n - 1 \notin B PROVE n \notin B
      OBVIOUS
    <3>1. n - 1 \in 0 .. N
      BY <1>1
    <3>2. Booked(after[n - 1]) /\ Fits(n - 1, after[n - 1])
      BY <3>1
    <3>3. after[n - 1] \in D /\ after[n] = Round(after[n - 1])
      BY <1>5
    <3> QED BY <1>8, <3>2, <3>3
  <2>3. B = {}
    <3>1. B \in SUBSET (0 .. N)
      OBVIOUS
    <3> HIDE DEF B
    <3> QED BY <1>1, <2>1, <2>2, <3>1, Climb
  <2>4. N \in 0 .. N
    BY <1>1
  <2> QED BY <1>4, <2>3, <2>4
<1> DEFINE r == after[N]
<1> HIDE DEF r
<1>10. r \in D /\ Booked(r) /\ Fits(N, r)
  BY <1>9 DEF r
<1>11. r.left \in Nat /\ r.profit \in Int /\ r.lots \in Seq(Lot) /\ OfSide(r.lots, buy)
  BY <1>2, <1>10
<1>12. r.left = 0
  <2>1. r.left = 0 \/ r.lots = <<>>
    <3>1. \A u \in Seq(Lot) : Len(u) <= 0 => u = <<>>
      OBVIOUS
    <3> QED BY <1>1, <1>10, <1>11, <3>1 DEF Fits
  <2>2. ASSUME r.lots = <<>> PROVE r.left = 0
    <3>1. Net(r.lots) = 0
      BY <2>2, NoLots
    <3>2. Net(lots) \in Int
      BY SumsOfLots
    <3> QED BY <1>10, <1>11, <3>1, <3>2 DEF Booked
  <2> QED BY <2>1, <2>2
<1>13. Net(lots) - Net(r.lots) = IF buy THEN qty ELSE -qty
  <2>1. Net(lots) \in Int /\ Net(r.lots) \in Int
    BY <1>11, SumsOfLots
  <2> QED BY <1>10, <1>12, <2>1 DEF Booked
<1>14. r.profit = (Basis(r.lots) - Basis(lots)) + (Net(lots) - Net(r.lots)) * price
  BY <1>10 DEF Booked
<1>15. Realized(lots, qty, price) = r
  BY <1>6 DEF r
<1> QED BY <1>11, <1>13, <1>14, <1>15

(* A fill moves the lots by its quantity and the cash by its proceeds, less *)
(* what is invested in open contracts and their margin.                     *)
LEMMA LedgerFill ==
  ASSUME NEW lots \in Seq(Lot), OneSided(lots), NEW signed \in Int, signed # 0,
         NEW price \in Nat, NEW margin \in Nat
  PROVE  LET fill == FuturesFill(lots, signed, price, margin)
         IN  /\ fill.lots \in Seq(Lot) /\ OneSided(fill.lots) /\ fill.cash \in Int
             /\ Net(fill.lots) = Net(lots) + signed
             /\ fill.cash = ((Basis(fill.lots) - Basis(lots))
                               + (margin * Abs(Net(lots)) - margin * Abs(Net(fill.lots))))
                              - signed * price
<1> DEFINE N == Net(lots)
           c == Closing(lots, signed)
           o == Abs(signed) - c
           r == Realized(lots, c, price)
           lot == [qty |-> SignOf(signed) * o, price |-> price]
           fill == FuturesFill(lots, signed, price, margin)
           new == fill.lots
           proceeds == signed * price
<1>1. N \in Int /\ Basis(lots) \in Int /\ proceeds \in Int
  BY SumsOfLots, Products
<1>2. /\ Long(lots) => N >= 0 /\ (lots # <<>> => N > 0)
      /\ Short(lots) => N <= 0 /\ (lots # <<>> => N < 0)
  BY NetSign
<1>3. lots = <<>> => Long(lots) /\ Short(lots)
  BY DEF Long, Short
<1>4. PICK buy \in BOOLEAN : OfSide(lots, buy) /\ (IF buy THEN N >= 0 ELSE N <= 0)
  BY <1>2 DEF OneSided, OfSide
<1>5. N * signed < 0 <=> (N < 0 /\ signed > 0) \/ (N > 0 /\ signed < 0)
  <2>1. \A x, y \in Int : x * y < 0 <=> (x < 0 /\ y > 0) \/ (x > 0 /\ y < 0)
    BY Products
  <2> HIDE DEF N
  <2> QED BY <1>1, <2>1
<1>6. /\ c \in Nat /\ o \in Nat /\ c <= IF buy THEN N ELSE -N
      /\ c - o = Abs(N) - Abs(N + signed)
      /\ c = IF (N < 0 /\ signed > 0) \/ (N > 0 /\ signed < 0)
             THEN Smaller(Abs(N), Abs(signed)) ELSE 0
  <2>1. c = IF (N < 0 /\ signed > 0) \/ (N > 0 /\ signed < 0)
            THEN Smaller(Abs(N), Abs(signed)) ELSE 0
    BY <1>5 DEF Closing
  <2> HIDE DEF N, c
  <2>2. c \in Nat /\ o \in Nat /\ c <= IF buy THEN N ELSE -N
    BY <1>1, <1>4, <2>1 DEF Smaller, Abs
  <2>3. c - o = Abs(N) - Abs(N + signed)
    BY <1>1, <2>1 DEF Smaller, Abs
  <2> QED BY <2>1, <2>2, <2>3
<1>7. /\ r.lots \in Seq(Lot) /\ OfSide(r.lots, buy) /\ r.profit \in Int
      /\ N - Net(r.lots) = IF buy THEN c ELSE -c
      /\ r.profit = (Basis(r.lots) - Basis(lots)) + (N - Net(r.lots)) * price
  <2>1. c \in Nat /\ c <= (IF buy THEN Net(lots) ELSE -Net(lots)) /\ OfSide(lots, buy)
    BY <1>4, <1>6
  <2> HIDE DEF c
  <2> QED BY <2>1, AllClosed
<1>8. new = (IF o = 0 THEN r.lots ELSE Append(r.lots, lot))
      /\ fill.cash = margin * (c - o) + r.profit
  BY DEF FuturesFill
<1>9. /\ Net(r.lots) \in Int /\ Basis(r.lots) \in Int
      /\ Net(r.lots) = 0 => r.lots = <<>> /\ Basis(r.lots) = 0
  <2>1. Net(r.lots) = 0 => r.lots = <<>>
    <3> HIDE DEF r
    <3> QED BY <1>7, NetSign DEF OfSide
  <2> QED BY <1>7, <2>1, SumsOfLots, NoLots
<1> HIDE DEF N, c, r, fill
<1>10. /\ new \in Seq(Lot) /\ OneSided(new) /\ Net(new) = N + signed
       /\ r.profit = (Basis(new) - Basis(lots)) - proceeds
  <2> DEFINE nr == Net(r.lots)
             br == Basis(r.lots)
             moved == (N - nr) * price
  <2>0. nr \in Int /\ br \in Int /\ moved \in Int /\ r.profit = (br - Basis(lots)) + moved
        /\ N - nr = IF buy THEN c ELSE -c
    <3>1. (N - nr) \in Int /\ price \in Int
      BY <1>1, <1>9
    <3> QED BY <1>7, <1>9, <3>1, Products
  <2>1. CASE o = 0
    <3>1. new = r.lots /\ OneSided(new)
      BY <1>7, <1>8, <2>1 DEF OfSide, OneSided
    <3>2. N - nr = -signed
      <4> HIDE DEF nr
      <4> QED BY <1>1, <1>4, <1>6, <2>0, <2>1 DEF Smaller, Abs
    <3>3. moved = -proceeds
      <4>1. \A x, y \in Int : (-x) * y = -(x * y)
        BY Products
      <4> QED BY <3>2, <4>1
    <3>4. nr = N + signed
      <4> HIDE DEF nr
      <4> QED BY <1>1, <2>0, <3>2
    <3>5. r.profit = (br - Basis(lots)) - proceeds
      <4> HIDE DEF nr, br, moved, proceeds
      <4> QED BY <1>1, <2>0, <3>3
    <3> QED BY <1>7, <3>1, <3>4, <3>5
  <2>2. CASE o # 0
    <3>1. lot \in Lot /\ lot.qty = SignOf(signed) * o /\ lot.price = price
      BY <1>6 DEF Lot, SignOf
    <3>2. new = Append(r.lots, lot) /\ new \in Seq(Lot)
      BY <1>7, <1>8, <2>2, <3>1
    <3> DEFINE q == SignOf(signed) * o
               worth == q * price
    <3>3. /\ q \in Int /\ worth \in Int /\ (IF signed > 0 THEN q > 0 ELSE q < 0)
          /\ nr + q = N + signed
          /\ nr = 0 \/ IF buy THEN nr > 0 /\ q > 0 ELSE nr < 0 /\ q < 0
      <4>1. q = (IF signed > 0 THEN o ELSE -o) /\ o = Abs(signed) - c
        BY <1>6 DEF SignOf
      <4> HIDE DEF q, o, nr
      <4>0. o \in Nat /\ o # 0
        BY <1>6, <2>2
      <4>2. q \in Int /\ (IF signed > 0 THEN q > 0 ELSE q < 0)
        <5>1. q = (IF signed > 0 THEN o ELSE -o)
          BY <4>1
        <5> QED BY <4>0, <5>1
      <4>3. nr + q = N + signed
        BY <1>1, <1>4, <1>6, <2>0, <4>1 DEF Smaller, Abs
      <4>4. nr = 0 \/ IF buy THEN nr > 0 /\ q > 0 ELSE nr < 0 /\ q < 0
        BY <1>1, <1>4, <1>6, <2>0, <2>2, <4>1 DEF Smaller, Abs
      <4>5. worth \in Int
        BY <4>2, Products
      <4> QED BY <4>2, <4>3, <4>4, <4>5
    <3>4. Net(new) = nr + q /\ Basis(new) = br + worth
      BY <1>7, <3>1, <3>2, AppendLot
    <3>5. OneSided(new)
      <4>1. \A i \in DOMAIN new : new[i] = lot \/ (i \in DOMAIN r.lots /\ new[i] = r.lots[i])
        BY <1>7, <3>1, <3>2
      <4>2. lot.qty = q
        BY <3>1
      <4> HIDE DEF nr, q, lot
      <4>3. CASE nr = 0
        <5>1. r.lots = <<>>
          BY <1>9, <4>3 DEF nr
        <5>2. \A i \in DOMAIN new : new[i] = lot
          BY <4>1, <5>1
        <5> QED BY <3>3, <4>2, <5>2 DEF OneSided, Long, Short
      <4>4. CASE buy /\ q > 0
        BY <1>7, <4>1, <4>2, <4>4 DEF OfSide, OneSided, Long, Short
      <4>5. CASE ~buy /\ q < 0
        BY <1>7, <4>1, <4>2, <4>5 DEF OfSide, OneSided, Long, Short
      <4> QED BY <3>3, <4>3, <4>4, <4>5
    <3>6. moved + proceeds = worth
      <4>1. N - nr = q - signed
        <5> HIDE DEF nr, q
        <5> QED BY <1>1, <2>0, <3>3
      <4>2. (q - signed) * price = q * price - signed * price
        <5>1. \A x, y, z \in Int : (x - y) * z = x * z - y * z
          BY Products
        <5> HIDE DEF q
        <5> QED BY <3>3, <5>1
      <4>3. moved = worth - proceeds
        BY <4>1, <4>2
      <4> HIDE DEF moved, worth, proceeds
      <4> QED BY <1>1, <3>3, <4>3
    <3>7. r.profit = ((br + worth) - Basis(lots)) - proceeds
      <4> DEFINE bl == Basis(lots)
                 p == r.profit
      <4>1. bl \in Int /\ br \in Int /\ moved \in Int /\ worth \in Int /\ proceeds \in Int
            /\ p = (br - bl) + moved /\ moved + proceeds = worth
        BY <1>1, <2>0, <3>3, <3>6
      <4> HIDE DEF bl, p, br, moved, worth, proceeds
      <4>2. p = ((br + worth) - bl) - proceeds
        BY <4>1
      <4> QED BY <4>2 DEF p, bl
    <3> QED BY <3>2, <3>3, <3>4, <3>5, <3>7
  <2> QED BY <2>1, <2>2
<1>11. margin * (c - o) = margin * Abs(N) - margin * Abs(N + signed)
       /\ margin * Abs(N) \in Int /\ margin * Abs(N + signed) \in Int
  <2>1. Abs(N) \in Int /\ Abs(N + signed) \in Int
    BY <1>1 DEF Abs
  <2>2. \A x, y, z \in Int : x * (y - z) = x * y - x * z /\ x * y \in Int
    BY Products
  <2>3. c - o = Abs(N) - Abs(N + signed)
    BY <1>6
  <2> QED BY <2>1, <2>2, <2>3
<1>12. /\ fill.cash \in Int
       /\ fill.cash = ((Basis(new) - Basis(lots))
                         + (margin * Abs(N) - margin * Abs(Net(new)))) - proceeds
  <2> DEFINE m == margin * Abs(N)
             k == margin * Abs(N + signed)
             bn == Basis(new)
             bl == Basis(lots)
  <2>1. m \in Int /\ k \in Int /\ bn \in Int /\ bl \in Int /\ margin * (c - o) = m - k
    BY <1>1, <1>10, <1>11, SumsOfLots
  <2>2. r.profit = (bn - bl) - proceeds /\ fill.cash = (m - k) + r.profit
    BY <1>8, <1>10, <2>1
  <2>3. margin * Abs(Net(new)) = k
    BY <1>10
  <2> HIDE DEF m, k, bn, bl, proceeds, new
  <2>4. fill.cash \in Int /\ fill.cash = ((bn - bl) + (m - k)) - proceeds
    BY <1>1, <2>1, <2>2
  <2> QED BY <2>3, <2>4 DEF m, bn, bl
<1> QED BY <1>10, <1>12 DEF fill, N
-----------------------------------------------------------------------------
(* The lists of orders.                                                     *)
LEMMA Appended ==
  ASSUME NEW S, NEW s \in Seq(S), NEW x \in S
  PROVE  /\ Append(s, x) \in Seq(S) /\ ToSet(Append(s, x)) = ToSet(s) \cup {x}
         /\ IsInjective(s) /\ x \notin ToSet(s) => IsInjective(Append(s, x))
<1>1. /\ Append(s, x) \in Seq(S) /\ Len(s) \in Nat
      /\ DOMAIN s = 1 .. Len(s) /\ DOMAIN Append(s, x) = 1 .. Len(s) + 1
      /\ \A i \in 1 .. Len(s) + 1 : Append(s, x)[i] = IF i = Len(s) + 1 THEN x ELSE s[i]
  OBVIOUS
<1> DEFINE n == Len(s)
           t == Append(s, x)
<1> HIDE DEF n, t
<1>2. ToSet(t) = ToSet(s) \cup {x}
  <2>1. t[n + 1] = x /\ \A i \in 1 .. n : t[i] = s[i]
    BY <1>1 DEF n, t
  <2>2. DOMAIN s = 1 .. n /\ DOMAIN t = 1 .. n + 1 /\ n \in Nat
    BY <1>1 DEF n, t
  <2>3. \A i \in 1 .. n + 1 : i = n + 1 \/ i \in 1 .. n
    BY <2>2
  <2>4. \A i \in 1 .. n : i \in 1 .. n + 1
    BY <2>2
  <2>5. n + 1 \in 1 .. n + 1
    BY <2>2
  <2> QED BY <2>1, <2>2, <2>3, <2>4, <2>5 DEF ToSet
<1>3. IsInjective(s) /\ x \notin ToSet(s) => IsInjective(t)
  BY <1>1 DEF IsInjective, ToSet, t
<1> QED BY <1>1, <1>2, <1>3 DEF t

LEMMA WithoutIs ==
  ASSUME NEW list \in Seq(Orders), NEW S
  PROVE  /\ Without(list, S) \in Seq(Orders)
         /\ ToSet(Without(list, S)) = ToSet(list) \ S
         /\ IsInjective(list) => IsInjective(Without(list, S))
<1> DEFINE N == Len(list)
           Round(n, s) == IF list[n] \in S THEN s ELSE Append(s, list[n])
           Rounds(f) == [n \in 0 .. N |-> IF n = 0 THEN <<>>
                                          ELSE IF list[n] \in S THEN f[n - 1]
                                          ELSE Append(f[n - 1], list[n])]
           kept == CHOOSE f : f = Rounds(f)
           D == Seq(Orders)
           First(n) == {list[i] : i \in 1 .. n}
           Good(n, s) == /\ s \in D /\ ToSet(s) = First(n) \ S
                         /\ IsInjective(list) => IsInjective(s)
<1>1. N \in Nat /\ <<>> \in D /\ \A n \in 1 .. N : list[n] \in Orders
  OBVIOUS
<1>2. \A n \in 1 .. N : \A s \in D : Round(n, s) \in D
  BY <1>1
<1>3. Without(list, S) = kept[N]
  BY DEF Without
<1>4. \A f : Rounds(f) = [n \in 0 .. N |-> IF n = 0 THEN <<>> ELSE Round(n, f[n - 1])]
  OBVIOUS
<1> HIDE DEF D, Round, Rounds
<1>5. kept = Rounds(kept)
  <2> DEFINE step == [i \in 1 .. N |-> [s \in D |-> Round(i, s)]]
  <2>1. step \in [1 .. N -> [D -> D]]
    BY <1>2
  <2>2. \A i \in 1 .. N : \A s \in D : step[i][s] = Round(i, s)
    OBVIOUS
  <2> HIDE DEF step, N
  <2>3. PICK f : Stepwise(f, N, D, <<>>, step)
    BY <1>1, <2>1, StepsExist
  <2>4. f \in [0 .. N -> D] /\ f[0] = <<>> /\ \A i \in 1 .. N : f[i] = Round(i, f[i - 1])
    <3>1. \A i \in 1 .. N : i - 1 \in 0 .. N
      BY <1>1
    <3>2. f \in [0 .. N -> D] /\ f[0] = <<>> /\ \A i \in 1 .. N : f[i] = step[i][f[i - 1]]
      BY <2>3 DEF Stepwise
    <3> QED BY <2>2, <3>1, <3>2
  <2>5. f = Rounds(f)
    <3>1. \A n \in 0 .. N : n = 0 \/ n \in 1 .. N
      BY <1>1
    <3>2. \A n \in 0 .. N : f[n] = IF n = 0 THEN <<>> ELSE Round(n, f[n - 1])
      BY <2>4, <3>1
    <3>3. f = [n \in 0 .. N |-> IF n = 0 THEN <<>> ELSE Round(n, f[n - 1])]
      BY <2>4, <3>2
    <3> QED BY <1>4, <3>3
  <2> QED BY <2>5
<1> HIDE DEF kept
<1>6. kept[0] = <<>> /\ \A n \in 1 .. N : kept[n] = Round(n, kept[n - 1])
  <2>1. 0 \in 0 .. N /\ \A n \in 1 .. N : n \in 0 .. N /\ n # 0
    BY <1>1
  <2> HIDE DEF N
  <2> QED BY <1>4, <1>5, <2>1
<1>7. Good(0, <<>>)
  <2>1. ToSet(<<>>) = {} /\ IsInjective(<<>>)
    BY DEF ToSet, IsInjective
  <2>2. First(0) = {}
    OBVIOUS
  <2> QED BY <1>1, <2>1, <2>2
<1>8. ASSUME NEW n \in 1 .. N, NEW s, Good(n - 1, s)
      PROVE  Good(n, Round(n, s))
  <2>1. First(n) = First(n - 1) \cup {list[n]}
    <3>1. 1 .. n = (1 .. n - 1) \cup {n}
      BY <1>1
    <3> QED BY <3>1
  <2>2. s \in D /\ ToSet(s) = First(n - 1) \ S /\ (IsInjective(list) => IsInjective(s))
    BY <1>8
  <2>3. CASE list[n] \in S
    <3>1. Round(n, s) = s
      BY <2>3 DEF Round
    <3> HIDE DEF First
    <3> QED BY <2>1, <2>2, <2>3, <3>1
  <2>4. CASE list[n] \notin S
    <3>1. Round(n, s) = Append(s, list[n]) /\ list[n] \in Orders
      BY <1>1, <2>4 DEF Round
    <3>2. IsInjective(list) => list[n] \notin First(n - 1)
      <4>1. \A i \in 1 .. n - 1 : i \in DOMAIN list /\ n \in DOMAIN list /\ i # n
        BY <1>1
      <4> QED BY <4>1 DEF IsInjective
    <3> HIDE DEF First
    <3>3. /\ Append(s, list[n]) \in D /\ ToSet(Append(s, list[n])) = ToSet(s) \cup {list[n]}
          /\ IsInjective(s) /\ list[n] \notin ToSet(s) => IsInjective(Append(s, list[n]))
      BY <2>2, <3>1, Appended DEF D
    <3> QED BY <2>1, <2>2, <2>4, <3>1, <3>2, <3>3
  <2> QED BY <2>3, <2>4
<1> HIDE DEF Good
<1>9. Good(N, kept[N])
  <2> DEFINE B == {n \in 0 .. N : ~Good(n, kept[n])}
  <2>1. 0 \notin B
    BY <1>6, <1>7
  <2>2. \A n \in 1 .. N : n - 1 \notin B => n \notin B
    <3> SUFFICES ASSUME NEW n \in 1 .. N, n - 1 \notin B PROVE n \notin B
      OBVIOUS
    <3>1. n - 1 \in 0 .. N
      BY <1>1
    <3>2. Good(n - 1, kept[n - 1])
      BY <3>1
    <3>3. kept[n] = Round(n, kept[n - 1])
      BY <1>6
    <3> HIDE DEF N
    <3> QED BY <1>8, <3>2, <3>3
  <2>3. B = {}
    <3>1. B \in SUBSET (0 .. N)
      OBVIOUS
    <3> HIDE DEF B
    <3> QED BY <1>1, <2>1, <2>2, <3>1, Climb
  <2>4. N \in 0 .. N
    BY <1>1
  <2> QED BY <2>3, <2>4
<1>10. First(N) = ToSet(list)
  <2>1. DOMAIN list = 1 .. Len(list)
    OBVIOUS
  <2> QED BY <2>1 DEF ToSet
<1> QED BY <1>3, <1>9, <1>10 DEF Good, D
-----------------------------------------------------------------------------
(* What the terms say.                                                      *)
LEMMA TermFacts ==
  ASSUME NEW o \in Orders
  PROVE  /\ Terms[o].class \in {"simple", "bracket", "oto", "oco", "multileg", "package"}
         /\ Terms[o].kids \in Seq(Orders) /\ IsInjective(Terms[o].kids)
         /\ Kids[o] = ToSet(Terms[o].kids) /\ Kids[o] \subseteq Orders
         /\ Terms[o].partner \in Orders \cup {NoOrder}
         /\ Signed(o) \in Int /\ Signed(o) # 0
         /\ ~HoldsLegs(o) => Terms[o].asset \in Assets
         /\ \A k \in Kids[o] : k \in Orders /\ Terms[k].class = "simple" /\ ~HoldsLegs(k)
         /\ \A k \in Kids[o], p \in Orders : k \in Kids[p] => p = o
         /\ Terms[o].class = "simple" => Kids[o] = {}
<1>1. Terms[o] \in OrderTerms
  BY BacktestAssumption
<1>2. /\ Terms[o].class \in {"simple", "bracket", "oto", "oco", "multileg", "package"}
      /\ Terms[o].kids \in Seq(Orders) /\ Terms[o].partner \in Orders \cup {NoOrder}
      /\ Terms[o].qty \in Nat \ {0} /\ Terms[o].buy \in BOOLEAN
  BY <1>1 DEF OrderTerms
<1>3. Kids[o] = ToSet(Terms[o].kids)
  BY DEF Kids
<1>4. Kids[o] \subseteq Orders
  BY <1>2, <1>3 DEF ToSet
<1>5. Signed(o) \in Int /\ Signed(o) # 0
  BY <1>2 DEF Signed
<1>6. /\ IsInjective(Terms[o].kids) /\ (~HoldsLegs(o) => Terms[o].asset \in Assets)
      /\ \A k \in Kids[o] : Terms[k].class = "simple" /\ \A p \in Orders : k \in Kids[p] => p = o
      /\ Terms[o].class = "simple" => Kids[o] = {}
  BY TermsAssumption
<1>7. \A k \in Kids[o] : ~HoldsLegs(k)
  BY <1>6 DEF HoldsLegs
<1> QED BY <1>2, <1>3, <1>4, <1>5, <1>6, <1>7

LEMMA ParentFacts ==
  ASSUME NEW o \in Orders
  PROVE  /\ ParentOf[o] \in Orders \cup {NoOrder}
         /\ ParentOf[o] # NoOrder =>
              ParentOf[o] \in Orders /\ HoldsLegs(ParentOf[o]) /\ o \in Kids[ParentOf[o]]
         /\ \A p \in Orders : HoldsLegs(p) /\ o \in Kids[p] => ParentOf[o] = p
<1>0. NoOrder \notin Orders
  BY BacktestAssumption
<1>1. ParentOf[o] = IF \E p \in Orders : HoldsLegs(p) /\ o \in Kids[p]
                    THEN CHOOSE p \in Orders : HoldsLegs(p) /\ o \in Kids[p]
                    ELSE NoOrder
  BY DEF ParentOf
<1>2. CASE \E p \in Orders : HoldsLegs(p) /\ o \in Kids[p]
  <2>1. ParentOf[o] \in Orders /\ HoldsLegs(ParentOf[o]) /\ o \in Kids[ParentOf[o]]
    BY <1>1, <1>2
  <2>2. \A p \in Orders : o \in Kids[p] => p = ParentOf[o]
    BY <2>1, TermFacts
  <2> QED BY <2>1, <2>2
<1>3. CASE ~ \E p \in Orders : HoldsLegs(p) /\ o \in Kids[p]
  BY <1>1, <1>3
<1> QED BY <1>2, <1>3

(* Partners are simple orders that share a parent.                          *)
LEMMA PartnerFacts ==
  ASSUME NEW o \in Orders, Terms[o].partner # NoOrder
  PROVE  LET q == Terms[o].partner
         IN  /\ q \in Orders /\ Terms[q].partner = o /\ q # o
             /\ \E p \in Orders : /\ Terms[p].class \in {"bracket", "oco"}
                                  /\ o \in Kids[p] /\ q \in Kids[p]
             /\ Terms[o].class = "simple" /\ Terms[q].class = "simple"
             /\ Kids[q] = {} /\ Kids[o] = {}
<1> DEFINE q == Terms[o].partner
<1>1. q \in Orders
  BY TermFacts
<1>2. /\ Terms[q].partner = o /\ q # o
      /\ \E p \in Orders : Terms[p].class \in {"bracket", "oco"} /\ {o, q} \subseteq Kids[p]
  BY TermsAssumption
<1> QED BY <1>1, <1>2, TermFacts
-----------------------------------------------------------------------------
(* What each operation changes in the book.                                 *)
Sound == {b \in Book : \A a \in Futures : OneSided(b.lots[a])}

SameMoney(b, c) ==
  /\ c.position = b.position /\ c.lots = b.lots /\ c.cash = b.cash
  /\ c.owed = b.owed /\ c.transactions = b.transactions

SameOrders(b, c) ==
  c.status = b.status /\ c.new = b.new /\ c.placeholders = b.placeholders

LEMMA BookFields ==
  ASSUME NEW b \in Book
  PROVE  /\ b.status \in [Orders -> Statuses] /\ b.new \in Seq(Orders)
         /\ b.placeholders \in SUBSET Orders /\ b.position \in [Assets -> Int]
         /\ b.lots \in [Futures -> Seq(Lot)] /\ b.cash \in Int /\ b.owed \in Int
         /\ b.transactions \in [Orders -> Seq(Nat)]
BY DEF Book

LEMMA Joined ==
  ASSUME NEW S, NEW s \in Seq(S), NEW t \in Seq(S)
  PROVE  /\ s \o t \in Seq(S) /\ ToSet(s \o t) = ToSet(s) \cup ToSet(t)
         /\ (IsInjective(s) /\ IsInjective(t) /\ ToSet(s) \cap ToSet(t) = {})
              => IsInjective(s \o t)
<1> DEFINE n == Len(s)
           m == Len(t)
           u == s \o t
<1>1. /\ u \in Seq(S) /\ n \in Nat /\ m \in Nat
      /\ DOMAIN s = 1 .. n /\ DOMAIN t = 1 .. m /\ DOMAIN u = 1 .. n + m
      /\ \A i \in 1 .. n + m : u[i] = IF i <= n THEN s[i] ELSE t[i - n]
  OBVIOUS
<1> HIDE DEF n, m, u
<1>2. \A i \in 1 .. n : i \in 1 .. n + m /\ u[i] = s[i]
  BY <1>1
<1>3. \A i \in 1 .. m : n + i \in 1 .. n + m /\ u[n + i] = t[i]
  BY <1>1
<1>4. \A i \in 1 .. n + m : \/ i \in 1 .. n /\ u[i] = s[i]
                            \/ i - n \in 1 .. m /\ u[i] = t[i - n] /\ i = n + (i - n)
  BY <1>1
<1>5. ToSet(u) = ToSet(s) \cup ToSet(t)
  <2>1. ToSet(u) \subseteq ToSet(s) \cup ToSet(t)
    BY <1>1, <1>4 DEF ToSet
  <2>2. ToSet(s) \subseteq ToSet(u)
    BY <1>1, <1>2 DEF ToSet
  <2>3. ToSet(t) \subseteq ToSet(u)
    BY <1>1, <1>3 DEF ToSet
  <2> QED BY <2>1, <2>2, <2>3
<1>6. ASSUME IsInjective(s), IsInjective(t), ToSet(s) \cap ToSet(t) = {}
      PROVE  IsInjective(u)
  <2>1. \A i \in 1 .. n, j \in 1 .. m : s[i] # t[j]
    BY <1>1, <1>6 DEF ToSet
  <2>2. \A i, j \in 1 .. n : s[i] = s[j] => i = j
    BY <1>1, <1>6 DEF IsInjective
  <2>3. \A i, j \in 1 .. m : t[i] = t[j] => i = j
    BY <1>1, <1>6 DEF IsInjective
  <2>4. ASSUME NEW i \in 1 .. n + m, NEW j \in 1 .. n + m, u[i] = u[j] PROVE i = j
    <3>1. CASE i \in 1 .. n /\ u[i] = s[i]
      <4>1. j \in 1 .. n /\ u[j] = s[j]
        BY <1>4, <2>1, <2>4, <3>1
      <4> QED BY <2>2, <2>4, <3>1, <4>1
    <3>2. CASE i - n \in 1 .. m /\ u[i] = t[i - n]
      <4>1. j - n \in 1 .. m /\ u[j] = t[j - n]
        BY <1>4, <2>1, <2>4, <3>2
      <4>2. i - n = j - n
        BY <2>3, <2>4, <3>2, <4>1
      <4> QED BY <1>1, <4>2
    <3> QED BY <1>4, <3>1, <3>2
  <2> QED BY <1>1, <2>4 DEF IsInjective
<1> QED BY <1>1, <1>5, <1>6 DEF u

LEMMA CanceledIs ==
  ASSUME NEW b \in Book, NEW S
  PROVE  LET c == Canceled(b, S)
         IN  /\ c \in Book /\ SameMoney(b, c) /\ c.placeholders = b.placeholders
             /\ \A x \in Orders : c.status[x] = IF x \in S THEN "canceled" ELSE b.status[x]
             /\ ToSet(c.new) = ToSet(b.new) \ S
             /\ IsInjective(b.new) => IsInjective(c.new)
<1> DEFINE c == Canceled(b, S)
<1>1. /\ b.new \in Seq(Orders) /\ b.status \in [Orders -> Statuses]
  BY BookFields
<1>2. Marked(b, S, "canceled") \in [Orders -> Statuses]
  BY <1>1 DEF Marked, Statuses
<1>3. Without(b.new, S) \in Seq(Orders)
  BY <1>1, WithoutIs
<1>4. c = [b EXCEPT !.status = Marked(b, S, "canceled"), !.new = Without(b.new, S)]
  BY DEF Canceled
<1>5. c \in Book /\ c.status = Marked(b, S, "canceled") /\ c.new = Without(b.new, S)
      /\ c.placeholders = b.placeholders /\ SameMoney(b, c)
  BY <1>2, <1>3, <1>4 DEF Book, SameMoney
<1>6. \A x \in Orders : c.status[x] = IF x \in S THEN "canceled" ELSE b.status[x]
  BY <1>5 DEF Marked
<1> QED BY <1>1, <1>5, <1>6, WithoutIs

LEMMA ClosedIs ==
  ASSUME NEW b \in Book, NEW o \in Orders
  PROVE  LET c == Closed(b, o)
         IN  /\ c \in Book /\ SameMoney(b, c) /\ c.placeholders = b.placeholders
             /\ \A x \in Orders : c.status[x] = IF x = o THEN "filled" ELSE b.status[x]
             /\ ToSet(c.new) = ToSet(b.new) \ {o}
             /\ IsInjective(b.new) => IsInjective(c.new)
<1> DEFINE c == Closed(b, o)
<1>1. /\ b.new \in Seq(Orders) /\ b.status \in [Orders -> Statuses]
  BY BookFields
<1>2. Marked(b, {o}, "filled") \in [Orders -> Statuses]
  BY <1>1 DEF Marked, Statuses
<1>3. Without(b.new, {o}) \in Seq(Orders)
  BY <1>1, WithoutIs
<1>4. c = [b EXCEPT !.status = Marked(b, {o}, "filled"), !.new = Without(b.new, {o})]
  BY DEF Closed
<1>5. c \in Book /\ c.status = Marked(b, {o}, "filled") /\ c.new = Without(b.new, {o})
      /\ c.placeholders = b.placeholders /\ SameMoney(b, c)
  BY <1>2, <1>3, <1>4 DEF Book, SameMoney
<1>6. \A x \in Orders : c.status[x] = IF x = o THEN "filled" ELSE b.status[x]
  BY <1>5 DEF Marked
<1>7. /\ ToSet(Without(b.new, {o})) = ToSet(b.new) \ {o}
      /\ IsInjective(b.new) => IsInjective(Without(b.new, {o}))
  BY <1>1, WithoutIs
<1> HIDE DEF c
<1>8. ToSet(c.new) = ToSet(b.new) \ {o} /\ (IsInjective(b.new) => IsInjective(c.new))
  BY <1>5, <1>7
<1> QED BY <1>5, <1>6, <1>8 DEF c

LEMMA ListedIs ==
  ASSUME NEW b \in Book, NEW orders \in Seq(Orders)
  PROVE  LET c == Listed(b, orders)
         IN  /\ c \in Book /\ SameMoney(b, c) /\ c.placeholders = b.placeholders
             /\ \A x \in Orders : c.status[x] = IF x \in ToSet(orders) THEN "new" ELSE b.status[x]
             /\ ToSet(c.new) = ToSet(b.new) \cup ToSet(orders)
             /\ IsInjective(b.new) /\ IsInjective(orders) /\ ToSet(b.new) \cap ToSet(orders) = {}
                  => IsInjective(c.new)
<1> DEFINE c == Listed(b, orders)
           S == ToSet(orders)
<1>1. /\ b.new \in Seq(Orders) /\ b.status \in [Orders -> Statuses]
  BY BookFields
<1> HIDE DEF S
<1>2. Marked(b, S, "new") \in [Orders -> Statuses]
  BY <1>1 DEF Marked, Statuses
<1>3. b.new \o orders \in Seq(Orders)
  BY <1>1
<1>4. c = [b EXCEPT !.status = Marked(b, S, "new"), !.new = b.new \o orders]
  BY DEF Listed, S
<1>5. c \in Book /\ c.status = Marked(b, S, "new") /\ c.new = b.new \o orders
      /\ c.placeholders = b.placeholders /\ SameMoney(b, c)
  BY <1>2, <1>3, <1>4 DEF Book, SameMoney
<1>6. \A x \in Orders : c.status[x] = IF x \in S THEN "new" ELSE b.status[x]
  BY <1>5 DEF Marked
<1> QED BY <1>1, <1>5, <1>6, Joined DEF S

LEMMA StartKidsIs ==
  ASSUME NEW b \in Book, NEW o \in Orders
  PROVE  LET c == StartKids(b, o)
             kids == IF Terms[o].class \in {"bracket", "oto"} THEN Kids[o] ELSE {}
         IN  /\ c \in Book /\ SameMoney(b, c) /\ c.placeholders = b.placeholders
             /\ c.status = b.status /\ ToSet(c.new) = ToSet(b.new) \cup kids
             /\ IsInjective(b.new) /\ ToSet(b.new) \cap kids = {} => IsInjective(c.new)
<1> DEFINE c == StartKids(b, o)
<1>1. /\ b.new \in Seq(Orders) /\ Terms[o].kids \in Seq(Orders) /\ IsInjective(Terms[o].kids)
      /\ Kids[o] = ToSet(Terms[o].kids)
  BY BookFields, TermFacts
<1>2. CASE Terms[o].class \in {"bracket", "oto"}
  <2>1. c = [b EXCEPT !.new = b.new \o Terms[o].kids]
    BY <1>2 DEF StartKids
  <2>2. b.new \o Terms[o].kids \in Seq(Orders)
    BY <1>1
  <2>3. c \in Book /\ c.new = b.new \o Terms[o].kids /\ c.status = b.status
        /\ c.placeholders = b.placeholders /\ SameMoney(b, c)
    BY <2>1, <2>2 DEF Book, SameMoney
  <2> QED BY <1>1, <1>2, <2>3, Joined
<1>3. CASE Terms[o].class \notin {"bracket", "oto"}
  BY <1>3 DEF StartKids, SameMoney
<1> QED BY <1>2, <1>3

LEMMA CloseOcoIs ==
  ASSUME NEW b \in Book, NEW o \in Orders
  PROVE  LET c == CloseOco(b, o)
             p == ParentOf[o]
         IN  /\ c \in Book /\ SameMoney(b, c) /\ c.new = b.new
             /\ c.placeholders \in SUBSET b.placeholders
             /\ \A x \in b.placeholders : x \in c.placeholders \/ (IsLegOf(o, {"oco"}) /\ x = p)
             /\ \A x \in Orders : \/ c.status[x] = b.status[x]
                                  \/ IsLegOf(o, {"oco"}) /\ x = p /\ c.status[x] = "filled"
<1> DEFINE c == CloseOco(b, o)
           p == ParentOf[o]
<1>1. CASE IsLegOf(o, {"oco"}) /\ b.status[p] # "filled"
  <2>1. c = [b EXCEPT !.status = Marked(b, {p}, "filled"), !.placeholders = b.placeholders \ {p}]
    BY <1>1 DEF CloseOco
  <2>2. Marked(b, {p}, "filled") \in [Orders -> Statuses] /\ b.placeholders \ {p} \in SUBSET Orders
    BY BookFields DEF Marked, Statuses
  <2>3. c \in Book /\ c.status = Marked(b, {p}, "filled") /\ c.new = b.new
        /\ c.placeholders = b.placeholders \ {p} /\ SameMoney(b, c)
    BY <2>1, <2>2 DEF Book, SameMoney
  <2>4. \A x \in Orders : c.status[x] = IF x = p THEN "filled" ELSE b.status[x]
    BY <2>3 DEF Marked
  <2>5. \A x \in b.placeholders : x \in c.placeholders \/ (IsLegOf(o, {"oco"}) /\ x = p)
    <3> HIDE DEF c, p
    <3>1. \A x \in b.placeholders : x # p => x \in c.placeholders
      BY <2>3
    <3> QED BY <1>1, <3>1, Zenon
  <2>6. \A x \in Orders : \/ c.status[x] = b.status[x]
                          \/ IsLegOf(o, {"oco"}) /\ x = p /\ c.status[x] = "filled"
    <3> HIDE DEF c, p
    <3>1. \A x \in Orders : (x # p => c.status[x] = b.status[x]) /\ (x = p => c.status[x] = "filled")
      BY <2>4
    <3> QED BY <1>1, <3>1, Zenon
  <2> HIDE DEF c, p
  <2>7. c.placeholders \in SUBSET b.placeholders
    BY <2>3
  <2> QED BY <2>3, <2>5, <2>6, <2>7 DEF c, p
<1>2. CASE ~(IsLegOf(o, {"oco"}) /\ b.status[p] # "filled")
  <2>1. c = b
    BY <1>2 DEF CloseOco
  <2>2. b.placeholders \in SUBSET b.placeholders
    OBVIOUS
  <2>3. SameMoney(b, b)
    BY DEF SameMoney
  <2> HIDE DEF c
  <2> QED BY <2>1, <2>2, <2>3, Zenon DEF c
<1> QED BY <1>1, <1>2

LEMMA CancelPartnerIs ==
  ASSUME NEW b \in Book, NEW o \in Orders
  PROVE  CancelPartner(b, o) \in Book /\ SameMoney(b, CancelPartner(b, o))
<1>1. CASE Terms[o].partner = NoOrder
  <2>1. CancelPartner(b, o) = b
    BY <1>1 DEF CancelPartner
  <2> QED BY <2>1 DEF SameMoney
<1>2. CASE Terms[o].partner # NoOrder
  BY <1>2, CanceledIs DEF CancelPartner, CancelOrder
<1> QED BY <1>1, <1>2

LEMMA FlatIs ==
  ASSUME NEW b \in Book, NEW o \in Orders
  PROVE  /\ CancelOpenOrdersForAsset(b, o) \in Book
         /\ SameMoney(b, CancelOpenOrdersForAsset(b, o))
BY CanceledIs DEF CancelOpenOrdersForAsset

LEMMA ParentsIs ==
  ASSUME NEW b \in Book, NEW o \in Orders
  PROVE  Parents(b, o) \in Book /\ SameMoney(b, Parents(b, o))
<1>1. SameMoney(b, b)
  BY DEF SameMoney
<1>2. ASSUME NEW p \in Orders
      PROVE  UpdateParentOrderStatus(b, p) \in Book /\ SameMoney(b, UpdateParentOrderStatus(b, p))
  BY <1>1, CanceledIs, ClosedIs DEF UpdateParentOrderStatus, CancelOrder
<1>3. ParentOf[o] = NoOrder \/ ParentOf[o] \in Orders
  BY ParentFacts
<1> QED BY <1>1, <1>2, <1>3 DEF Parents

(* The marks of a fill: the order is closed and its trade recorded.         *)
Recorded(b, o, price) ==
  [Closed(b, o) EXCEPT !.transactions[o] = Append(@, price),
                       !.position[Terms[o].asset] = @ + Signed(o)]

LEMMA RecordedIs ==
  ASSUME NEW b \in Book, NEW o \in Orders, Terms[o].asset \in Assets, NEW price \in Nat
  PROVE  LET c == Recorded(b, o, price)
         IN  /\ c \in Book /\ SameOrders(Closed(b, o), c)
             /\ c.lots = b.lots /\ c.cash = b.cash /\ c.owed = b.owed
             /\ c.position = [b.position EXCEPT ![Terms[o].asset] = @ + Signed(o)]
             /\ c.transactions = [b.transactions EXCEPT ![o] = Append(@, price)]
<1> DEFINE d == Closed(b, o)
           a == Terms[o].asset
           c == Recorded(b, o, price)
           position == [b.position EXCEPT ![a] = @ + Signed(o)]
           transactions == [b.transactions EXCEPT ![o] = Append(@, price)]
<1>1. d \in Book /\ SameMoney(b, d)
  BY ClosedIs
<1>2. position \in [Assets -> Int]
  <2>1. Signed(o) \in Int
    BY TermFacts
  <2> QED BY <2>1, BookFields
<1>3. transactions \in [Orders -> Seq(Nat)]
  <2>1. b.transactions \in [Orders -> Seq(Nat)]
    BY BookFields
  <2>2. Append(b.transactions[o], price) \in Seq(Nat)
    BY <2>1
  <2> QED BY <2>1, <2>2
<1>4. c = [d EXCEPT !.transactions = transactions, !.position = position]
  <2>1. d.transactions = b.transactions /\ d.position = b.position
    BY <1>1 DEF SameMoney
  <2>2. c = [d EXCEPT !.transactions[o] = Append(@, price), !.position[a] = @ + Signed(o)]
    BY DEF Recorded
  <2> HIDE DEF d, c
  <2>3. d = [d EXCEPT !.status = d.status]
    BY <1>1 DEF Book
  <2> QED BY <1>1, <2>1, <2>2 DEF Book
<1> HIDE DEF d, c, position, transactions
<1>5. c \in Book /\ c.transactions = transactions /\ c.position = position
      /\ c.status = d.status /\ c.new = d.new /\ c.placeholders = d.placeholders
      /\ c.lots = d.lots /\ c.cash = d.cash /\ c.owed = d.owed
  BY <1>1, <1>2, <1>3, <1>4 DEF Book
<1> QED BY <1>1, <1>5 DEF SameMoney, SameOrders, d, c, position, transactions

LEMMA PaidIs ==
  ASSUME NEW b \in Sound, NEW o \in Orders, Terms[o].asset \in Assets, NEW price \in Nat
  PROVE  LET c == Paid(b, o, price)
             a == Terms[o].asset
             fill == FuturesFill(b.lots[a], Signed(o), price, Margin)
         IN  /\ c \in Sound /\ SameOrders(b, c)
             /\ c.position = b.position /\ c.transactions = b.transactions
             /\ a \in Futures => /\ b.lots[a] \in Seq(Lot) /\ OneSided(b.lots[a])
                                 /\ fill.lots \in Seq(Lot) /\ fill.cash \in Int
                                 /\ c.lots = [b.lots EXCEPT ![a] = fill.lots]
                                 /\ c.cash = b.cash + fill.cash /\ c.owed = b.owed
             /\ a \notin Futures => /\ c.lots = b.lots /\ c.cash = b.cash
                                    /\ c.owed = b.owed - Signed(o) * price
<1> DEFINE c == Paid(b, o, price)
           a == Terms[o].asset
           fill == FuturesFill(b.lots[a], Signed(o), price, Margin)
<1>1. b \in Book /\ \A f \in Futures : OneSided(b.lots[f])
  BY DEF Sound
<1>2. Signed(o) \in Int /\ Signed(o) # 0 /\ Margin \in Nat
  BY TermFacts, BacktestAssumption
<1>3. CASE a \in Futures
  <2>1. b.lots[a] \in Seq(Lot) /\ OneSided(b.lots[a])
    BY <1>1, <1>3, BookFields
  <2>2. fill.lots \in Seq(Lot) /\ OneSided(fill.lots) /\ fill.cash \in Int
    BY <1>2, <2>1, LedgerFill
  <2>3. c = [b EXCEPT !.lots[a] = fill.lots, !.cash = @ + fill.cash]
    BY <1>3 DEF Paid
  <2> HIDE DEF fill, c
  <2> DEFINE lots == [b.lots EXCEPT ![a] = fill.lots]
             cash == b.cash + fill.cash
  <2>4. lots \in [Futures -> Seq(Lot)] /\ cash \in Int
    <3>1. b.lots \in [Futures -> Seq(Lot)] /\ b.cash \in Int
      BY <1>1, BookFields
    <3>2. cash \in Int
      BY <2>2, <3>1
    <3>3. lots \in [Futures -> Seq(Lot)]
      BY <2>2, <3>1
    <3> QED BY <3>2, <3>3
  <2>5. c = [b EXCEPT !.lots = lots, !.cash = cash]
    BY <2>3
  <2> HIDE DEF lots, cash
  <2>6. c \in Book /\ SameOrders(b, c) /\ c.position = b.position /\ c.transactions = b.transactions
        /\ c.lots = lots /\ c.cash = cash /\ c.owed = b.owed
    BY <1>1, <2>4, <2>5 DEF Book, SameOrders
  <2>7. \A f \in Futures : OneSided(c.lots[f])
    <3>1. \A f \in Futures : c.lots[f] = IF f = a THEN fill.lots ELSE b.lots[f]
      BY <1>1, <2>6, BookFields DEF lots
    <3> QED BY <1>1, <2>2, <3>1
  <2> QED BY <1>3, <2>1, <2>2, <2>6, <2>7 DEF Sound, lots, cash, c, fill
<1>4. CASE a \notin Futures
  <2>1. c = [b EXCEPT !.owed = b.owed - Signed(o) * price]
    BY <1>4 DEF Paid
  <2>2. b.owed - Signed(o) * price \in Int
    <3>1. Signed(o) * price \in Int /\ b.owed \in Int
      BY <1>1, <1>2, BookFields, Products
    <3> QED BY <3>1
  <2> DEFINE owed == b.owed - Signed(o) * price
  <2> HIDE DEF owed, c
  <2>3. c \in Book /\ SameOrders(b, c) /\ c.position = b.position /\ c.transactions = b.transactions
        /\ c.lots = b.lots /\ c.cash = b.cash /\ c.owed = owed
    BY <1>1, <2>1, <2>2 DEF Book, SameOrders, owed
  <2> QED BY <1>1, <1>4, <2>3 DEF Sound, owed, c
<1> QED BY <1>3, <1>4

(* The money of a book after a fill.                                        *)
FillOf(b, o, price) == FuturesFill(b.lots[Terms[o].asset], Signed(o), price, Margin)

Moves(b, c, o, price) ==
  LET a == Terms[o].asset
      fill == FillOf(b, o, price)
  IN  /\ c \in Sound
      /\ \A x \in Assets : c.position[x] = IF x = a THEN b.position[x] + Signed(o) ELSE b.position[x]
      /\ \A x \in Orders : c.transactions[x] = IF x = o THEN Append(b.transactions[x], price)
                                               ELSE b.transactions[x]
      /\ a \in Futures => /\ b.lots[a] \in Seq(Lot) /\ OneSided(b.lots[a])
                          /\ fill.lots \in Seq(Lot) /\ fill.cash \in Int
                          /\ \A x \in Futures : c.lots[x] = IF x = a THEN fill.lots ELSE b.lots[x]
                          /\ c.cash = b.cash + fill.cash /\ c.owed = b.owed
      /\ a \notin Futures => /\ c.lots = b.lots /\ c.cash = b.cash
                             /\ c.owed = b.owed - Signed(o) * price

(* The book of a fill before and after the orders of a flat position are    *)
(* canceled.                                                                *)
PaidBook(b, o, price) == Paid(StartKids(CancelPartner(b, o), o), o, price)
DoneBook(b, o, price) == Recorded(PaidBook(b, o, price), o, price)
LeftBook(b, o, price) ==
  IF PaidBook(b, o, price).position[Terms[o].asset] + Signed(o) = 0
  THEN CancelOpenOrdersForAsset(DoneBook(b, o, price), o) ELSE DoneBook(b, o, price)

LEMMA ExecuteIs ==
  ASSUME NEW b \in Sound, NEW o \in Orders, Terms[o].asset \in Assets, NEW price \in Nat
  PROVE  LET b1 == CancelPartner(b, o)
             paid == PaidBook(b, o, price)
             left == LeftBook(b, o, price)
         IN  /\ ExecuteFilledOrder(b, o, price) = CloseOco(Parents(left, o), o)
             /\ b1 \in Book /\ StartKids(b1, o) \in Book /\ paid \in Book
             /\ DoneBook(b, o, price) \in Book /\ left \in Book /\ Parents(left, o) \in Book
             /\ SameOrders(StartKids(b1, o), paid) /\ paid.position = b.position
             /\ Moves(b, ExecuteFilledOrder(b, o, price), o, price)
<1> DEFINE b1 == CancelPartner(b, o)
           b2 == StartKids(b1, o)
           paid == PaidBook(b, o, price)
           done == DoneBook(b, o, price)
           left == LeftBook(b, o, price)
           closed == Parents(left, o)
           c == ExecuteFilledOrder(b, o, price)
           a == Terms[o].asset
           fill == FillOf(b, o, price)
<1>1. b \in Book /\ \A f \in Futures : OneSided(b.lots[f])
  BY DEF Sound
<1>2. c = CloseOco(closed, o)
  BY DEF ExecuteFilledOrder, Traded, Recorded, LeftBook, DoneBook, PaidBook
<1>3. b1 \in Book /\ SameMoney(b, b1)
  BY <1>1, CancelPartnerIs
<1>4. b2 \in Book /\ SameMoney(b1, b2)
  BY <1>3, StartKidsIs
<1>5. SameMoney(b, b2) /\ b2 \in Sound
  BY <1>1, <1>3, <1>4 DEF SameMoney, Sound
<1> HIDE DEF b2, c
<1>6. /\ paid \in Sound /\ SameOrders(b2, paid)
      /\ paid.position = b.position /\ paid.transactions = b.transactions
      /\ a \in Futures => /\ b.lots[a] \in Seq(Lot) /\ OneSided(b.lots[a])
                          /\ fill.lots \in Seq(Lot) /\ fill.cash \in Int
                          /\ paid.lots = [b.lots EXCEPT ![a] = fill.lots]
                          /\ paid.cash = b.cash + fill.cash /\ paid.owed = b.owed
      /\ a \notin Futures => /\ paid.lots = b.lots /\ paid.cash = b.cash
                             /\ paid.owed = b.owed - Signed(o) * price
  <2>1. b2.lots = b.lots /\ b2.cash = b.cash /\ b2.owed = b.owed
        /\ b2.position = b.position /\ b2.transactions = b.transactions
    BY <1>5 DEF SameMoney
  <2>2. fill = FuturesFill(b2.lots[a], Signed(o), price, Margin)
    BY <2>1 DEF FillOf
  <2> HIDE DEF paid, fill
  <2>3. /\ paid \in Sound /\ SameOrders(b2, paid)
        /\ paid.position = b2.position /\ paid.transactions = b2.transactions
        /\ a \in Futures => /\ b2.lots[a] \in Seq(Lot) /\ OneSided(b2.lots[a])
                            /\ fill.lots \in Seq(Lot) /\ fill.cash \in Int
                            /\ paid.lots = [b2.lots EXCEPT ![a] = fill.lots]
                            /\ paid.cash = b2.cash + fill.cash /\ paid.owed = b2.owed
        /\ a \notin Futures => /\ paid.lots = b2.lots /\ paid.cash = b2.cash
                               /\ paid.owed = b2.owed - Signed(o) * price
    BY <1>5, <2>2, PaidIs DEF paid, PaidBook, b2
  <2> QED BY <2>1, <2>3
<1> HIDE DEF paid, fill
<1>7. paid \in Book /\ \A f \in Futures : OneSided(paid.lots[f])
  BY <1>6 DEF Sound
<1>8. /\ done \in Book
      /\ done.lots = paid.lots /\ done.cash = paid.cash /\ done.owed = paid.owed
      /\ done.position = [b.position EXCEPT ![a] = @ + Signed(o)]
      /\ done.transactions = [b.transactions EXCEPT ![o] = Append(@, price)]
  <2>1. /\ done \in Book
        /\ done.lots = paid.lots /\ done.cash = paid.cash /\ done.owed = paid.owed
        /\ done.position = [paid.position EXCEPT ![a] = @ + Signed(o)]
        /\ done.transactions = [paid.transactions EXCEPT ![o] = Append(@, price)]
    <3>1. done = Recorded(paid, o, price)
      BY DEF done, DoneBook, paid
    <3> QED BY <1>7, <3>1, RecordedIs
  <2> HIDE DEF done
  <2> QED BY <1>6, <2>1
<1> HIDE DEF done
<1>9. left \in Book /\ SameMoney(done, left)
  <2>1. SameMoney(done, done)
    BY DEF SameMoney
  <2>2. CancelOpenOrdersForAsset(done, o) \in Book /\ SameMoney(done, CancelOpenOrdersForAsset(done, o))
    BY <1>8, FlatIs
  <2>3. left = CancelOpenOrdersForAsset(done, o) \/ left = done
    BY DEF LeftBook, done
  <2> HIDE DEF left
  <2> QED BY <1>8, <2>1, <2>2, <2>3
<1> HIDE DEF left
<1>10. closed \in Book /\ SameMoney(left, closed)
  BY <1>9, ParentsIs
<1> HIDE DEF closed
<1>11. c \in Book /\ SameMoney(closed, c)
  BY <1>2, <1>10, CloseOcoIs
<1>12. c.lots = paid.lots /\ c.cash = paid.cash /\ c.owed = paid.owed
       /\ c.position = done.position /\ c.transactions = done.transactions
  BY <1>8, <1>9, <1>10, <1>11 DEF SameMoney
<1>13. c \in Sound
  BY <1>7, <1>11, <1>12 DEF Sound
<1>14. /\ b.position \in [Assets -> Int] /\ b.transactions \in [Orders -> Seq(Nat)]
       /\ b.lots \in [Futures -> Seq(Lot)]
  BY <1>1, BookFields
<1>15. /\ \A x \in Assets : c.position[x] = IF x = a THEN b.position[x] + Signed(o) ELSE b.position[x]
       /\ \A x \in Orders : c.transactions[x] = IF x = o THEN Append(b.transactions[x], price)
                                                ELSE b.transactions[x]
  BY <1>8, <1>12, <1>14
<1>16. a \in Futures => /\ b.lots[a] \in Seq(Lot) /\ OneSided(b.lots[a])
                        /\ fill.lots \in Seq(Lot) /\ fill.cash \in Int
                        /\ \A x \in Futures : c.lots[x] = IF x = a THEN fill.lots ELSE b.lots[x]
                        /\ c.cash = b.cash + fill.cash /\ c.owed = b.owed
  BY <1>6, <1>12, <1>14
<1>17. a \notin Futures => /\ c.lots = b.lots /\ c.cash = b.cash
                           /\ c.owed = b.owed - Signed(o) * price
  BY <1>6, <1>12
<1>18. Moves(b, c, o, price)
  BY <1>13, <1>15, <1>16, <1>17, Zenon DEF Moves, fill
<1>19. paid \in Book /\ done \in Book /\ left \in Book /\ closed \in Book /\ b2 \in Book
       /\ SameOrders(b2, paid) /\ paid.position = b.position
  BY <1>4, <1>6, <1>7, <1>8, <1>9, <1>10
<1> USE DEF b2, paid, done, left, closed, c
<1> QED BY <1>2, <1>3, <1>18, <1>19, Zenon

LEMMA FillMoves ==
  ASSUME NEW b \in Sound, NEW o \in Orders, Terms[o].asset \in Assets, NEW price \in Nat
  PROVE  Moves(b, ExecuteFilledOrder(b, o, price), o, price)
BY ExecuteIs

(* The legs of a package are filled one after the other.                    *)
LegsTrade(legs) == legs \in Seq(Orders) /\ \A n \in 1 .. Len(legs) : Terms[legs[n]].asset \in Assets

LEMMA LegPriceIs ==
  ASSUME feed \in [Assets -> Feed], NEW legs, LegsTrade(legs), NEW n \in 1 .. Len(legs),
         NEW quoted
  PROVE  LegPrice(legs, quoted, n) \in Nat
<1> DEFINE a == Terms[legs[n]].asset
<1>1. a \in Assets
  BY DEF LegsTrade
<1>2. feed[a] \in Feed
  BY <1>1
<1>3. feed[a].bar.open \in Nat /\ feed[a].quote.bid \in Nat /\ feed[a].quote.ask \in Nat
  BY <1>2 DEF Feed
<1>4. \A x, y \in Nat : (x + y) \div 2 \in Nat
  OBVIOUS
<1>5. Middle(a) \in Nat
  BY <1>3, <1>4 DEF Middle
<1>6. LegPrice(legs, quoted, n) = Middle(a) \/ LegPrice(legs, quoted, n) = feed[a].bar.open
      \/ LegPrice(legs, quoted, n) = NoPrice
  BY DEF LegPrice
<1> QED BY <1>3, <1>5, <1>6 DEF NoPrice

LEMMA FillLegsIs ==
  ASSUME feed \in [Assets -> Feed], NEW b \in Sound, NEW legs, LegsTrade(legs),
         NEW quoted
  PROVE  \E f \in [0 .. Len(legs) -> Sound] :
           /\ f[0] = b /\ FillLegs(b, legs, quoted) = f[Len(legs)]
           /\ \A n \in 1 .. Len(legs) :
                f[n] = IF LegPrice(legs, quoted, n) = NoPrice THEN f[n - 1]
                       ELSE ExecuteFilledOrder(f[n - 1], legs[n], LegPrice(legs, quoted, n))
<1> DEFINE N == Len(legs)
           Round(n, s) == IF LegPrice(legs, quoted, n) = NoPrice THEN s
                          ELSE ExecuteFilledOrder(s, legs[n], LegPrice(legs, quoted, n))
           Rounds(f) == [n \in 0 .. N |->
                           IF n = 0 THEN b
                           ELSE IF LegPrice(legs, quoted, n) = NoPrice THEN f[n - 1]
                           ELSE ExecuteFilledOrder(f[n - 1], legs[n], LegPrice(legs, quoted, n))]
           after == CHOOSE f : f = Rounds(f)
           D == Sound
<1>1. N \in Nat /\ \A n \in 1 .. N : legs[n] \in Orders /\ Terms[legs[n]].asset \in Assets
                                     /\ LegPrice(legs, quoted, n) \in Nat
  <2>1. N \in Nat /\ \A n \in 1 .. N : legs[n] \in Orders /\ Terms[legs[n]].asset \in Assets
    BY DEF LegsTrade
  <2> QED BY <2>1, LegPriceIs
<1>2. \A n \in 1 .. N : \A s \in D : Round(n, s) \in D
  <2>1. ASSUME NEW n \in 1 .. N, NEW s \in D PROVE Round(n, s) \in D
    <3>1. ExecuteFilledOrder(s, legs[n], LegPrice(legs, quoted, n)) \in Sound
      BY <1>1, FillMoves DEF Moves
    <3> QED BY <3>1
  <2> QED BY <2>1
<1>3. FillLegs(b, legs, quoted) = after[N]
  BY DEF FillLegs
<1>4. \A f : Rounds(f) = [n \in 0 .. N |-> IF n = 0 THEN b ELSE Round(n, f[n - 1])]
  OBVIOUS
<1> HIDE DEF D, Round, Rounds
<1>5. \E f \in [0 .. N -> D] : f = Rounds(f)
  <2> DEFINE step == [i \in 1 .. N |-> [s \in D |-> Round(i, s)]]
  <2>1. step \in [1 .. N -> [D -> D]] /\ b \in D
    BY <1>2 DEF D
  <2>2. \A i \in 1 .. N : \A s \in D : step[i][s] = Round(i, s)
    OBVIOUS
  <2> HIDE DEF step, N
  <2>3. PICK f : Stepwise(f, N, D, b, step)
    BY <1>1, <2>1, StepsExist
  <2>4. f \in [0 .. N -> D] /\ f[0] = b /\ \A i \in 1 .. N : f[i] = Round(i, f[i - 1])
    <3>1. \A i \in 1 .. N : i - 1 \in 0 .. N
      BY <1>1
    <3>2. f \in [0 .. N -> D] /\ f[0] = b /\ \A i \in 1 .. N : f[i] = step[i][f[i - 1]]
      BY <2>3 DEF Stepwise
    <3> QED BY <2>2, <3>1, <3>2
  <2>5. f = Rounds(f)
    <3>1. \A n \in 0 .. N : n = 0 \/ n \in 1 .. N
      BY <1>1
    <3>2. \A n \in 0 .. N : f[n] = IF n = 0 THEN b ELSE Round(n, f[n - 1])
      BY <2>4, <3>1
    <3>3. f = [n \in 0 .. N |-> IF n = 0 THEN b ELSE Round(n, f[n - 1])]
      BY <2>4, <3>2
    <3> QED BY <1>4, <3>3
  <2> QED BY <2>4, <2>5
<1>6. after = Rounds(after)
  BY <1>5
<1> HIDE DEF after
<1>7. after[0] = b /\ (\A n \in 1 .. N : after[n] = Round(n, after[n - 1])) /\ DOMAIN after = 0 .. N
  <2>1. 0 \in 0 .. N /\ \A n \in 1 .. N : n \in 0 .. N /\ n # 0
    BY <1>1
  <2> HIDE DEF N
  <2>2. after = [n \in 0 .. N |-> IF n = 0 THEN b ELSE Round(n, after[n - 1])]
    BY <1>4, <1>6
  <2> QED BY <2>1, <2>2
<1>8. \A n \in 0 .. N : after[n] \in D
  <2> DEFINE B == {n \in 0 .. N : after[n] \notin D}
  <2>1. 0 \notin B
    BY <1>7 DEF D
  <2>2. \A n \in 1 .. N : n - 1 \notin B => n \notin B
    <3> SUFFICES ASSUME NEW n \in 1 .. N, n - 1 \notin B PROVE n \notin B
      OBVIOUS
    <3>1. n - 1 \in 0 .. N
      BY <1>1
    <3>2. after[n - 1] \in D
      BY <3>1
    <3> HIDE DEF N
    <3> QED BY <1>2, <1>7, <3>2
  <2>3. B = {}
    <3>1. B \in SUBSET (0 .. N)
      OBVIOUS
    <3> HIDE DEF B
    <3> QED BY <1>1, <2>1, <2>2, <3>1, Climb
  <2> QED BY <2>3
<1>9. after \in [0 .. N -> Sound]
  <2>1. after = [n \in 0 .. N |-> after[n]]
    <3>1. after = [n \in 0 .. N |-> IF n = 0 THEN b ELSE Round(n, after[n - 1])]
      BY <1>4, <1>6
    <3> QED BY <3>1
  <2> QED BY <1>8, <2>1 DEF D
<1>10. \A n \in 1 .. N : after[n] = IF LegPrice(legs, quoted, n) = NoPrice THEN after[n - 1]
                                   ELSE ExecuteFilledOrder(after[n - 1], legs[n], LegPrice(legs, quoted, n))
  BY <1>7 DEF Round
<1> QED BY <1>3, <1>7, <1>9, <1>10
-----------------------------------------------------------------------------
(* The books.                                                               *)
Count(b, a) ==
  [o \in {t \in Traders : Terms[t].asset = a} |-> Signed(o) * Len(b.transactions[o])]
Earned(b) == [o \in Traders |-> -Signed(o) * SumFunction(b.transactions[o])]
Held(b) == [a \in Futures |-> Basis(b.lots[a]) - Margin * Abs(Net(b.lots[a]))]

Agrees(b) ==
  \A a \in Assets : /\ b.position[a] = SumFunction(Count(b, a))
                    /\ a \in Futures => Net(b.lots[a]) = b.position[a]
(* What is there to begin with, less what the first iteration skipped.      *)
Means == Budget - skipped
Balances(b) ==
  b.cash + b.owed = (Means + SumFunction(Earned(b))) + SumFunction(Held(b))

LEMMA FillKeepsAgreement ==
  ASSUME NEW b \in Sound, NEW o \in Traders, Terms[o].asset \in Assets, NEW price \in Nat,
         Agrees(b)
  PROVE  Agrees(ExecuteFilledOrder(b, o, price))
<1> DEFINE c == ExecuteFilledOrder(b, o, price)
           s == Terms[o].asset
           fill == FillOf(b, o, price)
<1>1. b \in Book /\ o \in Orders
  BY DEF Sound, Traders
<1>2. /\ \A x \in Assets : c.position[x] = IF x = s THEN b.position[x] + Signed(o) ELSE b.position[x]
      /\ \A x \in Orders : c.transactions[x] = IF x = o THEN Append(b.transactions[x], price)
                                               ELSE b.transactions[x]
      /\ s \in Futures => /\ b.lots[s] \in Seq(Lot) /\ OneSided(b.lots[s])
                          /\ \A x \in Futures : c.lots[x] = IF x = s THEN fill.lots ELSE b.lots[x]
      /\ s \notin Futures => c.lots = b.lots
      /\ c \in Book
  <2>1. Moves(b, c, o, price)
    BY <1>1, FillMoves
  <2> QED BY <2>1 DEF Moves, Sound
<1>3. /\ b.position \in [Assets -> Int] /\ b.transactions \in [Orders -> Seq(Nat)]
      /\ b.lots \in [Futures -> Seq(Lot)]
  BY <1>1, BookFields
<1>4. Signed(o) \in Int /\ Signed(o) # 0 /\ Margin \in Nat
  BY <1>1, TermFacts, BacktestAssumption
<1>5. s \in Futures => Net(fill.lots) = Net(b.lots[s]) + Signed(o)
  BY <1>2, <1>4, LedgerFill DEF FillOf
<1> HIDE DEF c, fill
<1> SUFFICES ASSUME NEW a \in Assets
             PROVE  /\ c.position[a] = SumFunction(Count(c, a))
                    /\ a \in Futures => Net(c.lots[a]) = c.position[a]
  BY DEF Agrees, c
<1>6. /\ b.position[a] = SumFunction(Count(b, a))
      /\ a \in Futures => Net(b.lots[a]) = b.position[a]
  BY DEF Agrees
<1>7. CASE a = s
  <2> DEFINE T == {t \in Traders : Terms[t].asset = a}
             g == Count(b, a)
             h == Count(c, a)
  <2>1. IsFiniteSet(T)
    BY FS_Subset, BacktestAssumption DEF Traders
  <2>2. \A t \in T : t \in Orders /\ Signed(t) \in Int
    BY TermFacts DEF Traders
  <2>3. o \in T
    BY <1>7
  <2>4. c.transactions \in [Orders -> Seq(Nat)]
        /\ Len(c.transactions[o]) = Len(b.transactions[o]) + 1 /\ Len(b.transactions[o]) \in Nat
        /\ \A t \in T \ {o} : c.transactions[t] = b.transactions[t]
    <3>1. b.transactions[o] \in Seq(Nat)
      BY <1>1, <1>3
    <3>2. /\ Append(b.transactions[o], price) \in Seq(Nat)
          /\ Len(Append(b.transactions[o], price)) = Len(b.transactions[o]) + 1
          /\ Len(b.transactions[o]) \in Nat
      BY <3>1
    <3>3. c.transactions[o] = Append(b.transactions[o], price)
          /\ c.transactions \in [Orders -> Seq(Nat)]
      BY <1>1, <1>2, BookFields
    <3>4. \A t \in T \ {o} : c.transactions[t] = b.transactions[t]
      BY <1>2, <1>3, <2>2
    <3> QED BY <3>2, <3>3, <3>4
  <2>5. g \in [T -> Int] /\ h \in [T -> Int]
    <3>1. \A f \in [Orders -> Seq(Nat)] : \A t \in T : Signed(t) * Len(f[t]) \in Int
      <4>1. \A f \in [Orders -> Seq(Nat)] : \A t \in T : Len(f[t]) \in Int
        BY <2>2
      <4> QED BY <2>2, <4>1, Products
    <3>2. \A t \in T : /\ Signed(t) * Len(b.transactions[t]) \in Int
                       /\ Signed(t) * Len(c.transactions[t]) \in Int
      BY <1>3, <2>4, <3>1
    <3> HIDE DEF T
    <3>3. g = [t \in T |-> Signed(t) * Len(b.transactions[t])]
          /\ h = [t \in T |-> Signed(t) * Len(c.transactions[t])]
      BY DEF Count, T
    <3> HIDE DEF g, h
    <3> QED BY <3>2, <3>3
  <2>6. \A t \in T \ {o} : h[t] = g[t]
    BY <2>4 DEF Count
  <2>7. h[o] - g[o] = Signed(o)
    <3>1. h[o] = Signed(o) * Len(c.transactions[o]) /\ g[o] = Signed(o) * Len(b.transactions[o])
      BY <2>3 DEF Count
    <3>2. \A x, n \in Int : x * (n + 1) - x * n = x
      OBVIOUS
    <3> HIDE DEF g, h
    <3> QED BY <1>4, <2>4, <3>1, <3>2
  <2> HIDE DEF g, h, T
  <2>8. SumFunction(h) = SumFunction(g) + Signed(o)
    BY <2>1, <2>3, <2>5, <2>6, <2>7, SumChanges
  <2>9. c.position[a] = b.position[a] + Signed(o) /\ b.position[a] \in Int
    BY <1>2, <1>3, <1>7
  <2>10. c.position[a] = SumFunction(h)
    BY <1>6, <2>8, <2>9 DEF g
  <2>11. a \in Futures => c.lots[a] = fill.lots
    BY <1>2, <1>3, <1>7
  <2> QED BY <1>5, <1>6, <1>7, <2>9, <2>10, <2>11 DEF h
<1>8. CASE a # s
  <2>1. c.position[a] = b.position[a]
    BY <1>2, <1>3, <1>8
  <2>2. a \in Futures => c.lots[a] = b.lots[a]
    BY <1>2, <1>3, <1>8
  <2>3. Count(c, a) = Count(b, a)
    <3>1. \A t \in Traders : Terms[t].asset = a => c.transactions[t] = b.transactions[t]
      BY <1>2, <1>3, <1>8 DEF Traders
    <3> QED BY <3>1 DEF Count
  <2> QED BY <1>6, <2>1, <2>2, <2>3
<1> QED BY <1>7, <1>8

LEMMA SumsOfBook ==
  ASSUME NEW b \in Book
  PROVE  /\ IsFiniteSet(Traders) /\ IsFiniteSet(Futures)
         /\ \A o \in Traders : /\ b.transactions[o] \in Seq(Int)
                               /\ SumFunction(b.transactions[o]) \in Int
                               /\ Signed(o) \in Int
                               /\ -Signed(o) * SumFunction(b.transactions[o]) \in Int
         /\ Earned(b) \in [Traders -> Int] /\ Held(b) \in [Futures -> Int]
         /\ SumFunction(Earned(b)) \in Int /\ SumFunction(Held(b)) \in Int
         /\ b.cash \in Int /\ b.owed \in Int /\ Budget \in Int
<1>1. IsFiniteSet(Traders) /\ IsFiniteSet(Futures) /\ Budget \in Int /\ Margin \in Int
  BY FS_Subset, BacktestAssumption DEF Traders
<1>2. /\ b.cash \in Int /\ b.owed \in Int /\ b.lots \in [Futures -> Seq(Lot)]
      /\ b.transactions \in [Orders -> Seq(Nat)]
  BY BookFields
<1>3. \A t \in Seq(Nat) : t \in Seq(Int) /\ SumFunction(t) \in Int
  <2>1. ASSUME NEW t \in Seq(Nat) PROVE t \in Seq(Int) /\ SumFunction(t) \in Int
    <3>1. t \in Seq(Int)
      OBVIOUS
    <3>2. Len(t) \in Nat /\ \A u \in Seq(Int) : u \in [1 .. Len(u) -> Int]
      OBVIOUS
    <3>3. t \in [1 .. Len(t) -> Int] /\ IsFiniteSet(1 .. Len(t))
      BY <3>1, <3>2, FS_Interval
    <3> QED BY <3>1, <3>3, SumType
  <2> QED BY <2>1
<1>4. \A o \in Traders : /\ b.transactions[o] \in Seq(Int)
                         /\ SumFunction(b.transactions[o]) \in Int
                         /\ Signed(o) \in Int
  BY <1>2, <1>3, TermFacts DEF Traders
<1>5. \A x, y \in Int : -x * y \in Int
  OBVIOUS
<1>6. \A o \in Traders : -Signed(o) * SumFunction(b.transactions[o]) \in Int
  BY <1>4, <1>5
<1>7. \A a \in Futures : Basis(b.lots[a]) - Margin * Abs(Net(b.lots[a])) \in Int
  <2>1. ASSUME NEW a \in Futures PROVE Basis(b.lots[a]) - Margin * Abs(Net(b.lots[a])) \in Int
    <3>1. Basis(b.lots[a]) \in Int /\ Net(b.lots[a]) \in Int
      BY <1>2, SumsOfLots
    <3>2. Abs(Net(b.lots[a])) \in Int
      BY <3>1 DEF Abs
    <3>3. Margin * Abs(Net(b.lots[a])) \in Int
      BY <1>1, <3>2, Products
    <3> QED BY <3>1, <3>3
  <2> QED BY <2>1
<1>8. Earned(b) \in [Traders -> Int] /\ Held(b) \in [Futures -> Int]
  BY <1>6, <1>7 DEF Earned, Held
<1> QED BY <1>1, <1>2, <1>4, <1>6, <1>8, SumType

LEMMA BooksAre ==
  ASSUME skipped \in Int, book \in Book
  PROVE  (BooksAgree <=> Agrees(book)) /\ (CashIsProceeds <=> Balances(book))
<1>1. BooksAgree <=> Agrees(book)
  BY DEF BooksAgree, Agrees, Count, Fills
<1>2. CashIsProceeds <=>
          book.cash + book.owed + skipped =
              Budget + SumFunction(Earned(book)) + SumFunction(Held(book))
  BY DEF CashIsProceeds, Earned, Held, Proceeds, Invested
<1>3. Balances(book) <=>
          book.cash + book.owed =
              ((Budget - skipped) + SumFunction(Earned(book))) + SumFunction(Held(book))
  BY DEF Balances, Means
<1>4. /\ SumFunction(Earned(book)) \in Int /\ SumFunction(Held(book)) \in Int
      /\ book.cash \in Int /\ book.owed \in Int /\ Budget \in Int
  BY SumsOfBook
<1> DEFINE cash == book.cash
           owed == book.owed
           e == SumFunction(Earned(book))
           h == SumFunction(Held(book))
<1>5. cash \in Int /\ owed \in Int /\ e \in Int /\ h \in Int /\ Budget \in Int
  BY <1>4
<1> HIDE DEF cash, owed, e, h
<1>6. cash + owed + skipped = Budget + e + h <=> cash + owed = ((Budget - skipped) + e) + h
  BY <1>5
<1> QED BY <1>1, <1>2, <1>3, <1>6 DEF cash, owed, e, h

(* The balance of a step that skips nothing.                                *)
LEMMA BalanceStays ==
  ASSUME skipped' = skipped, Balances(book')
  PROVE  Balances(book)'
BY DEF Balances, Means

LEMMA FillKeepsBalance ==
  ASSUME NEW b \in Sound, NEW o \in Traders, Terms[o].asset \in Assets, NEW price \in Nat,
         Balances(b), skipped \in Int
  PROVE  Balances(ExecuteFilledOrder(b, o, price))
<1> DEFINE c == ExecuteFilledOrder(b, o, price)
           a == Terms[o].asset
           fill == FillOf(b, o, price)
           cost == Signed(o) * price
<1>1. b \in Book /\ o \in Orders
  BY DEF Sound, Traders
<1>2. Moves(b, c, o, price)
  BY <1>1, FillMoves
<1> HIDE DEF c
<1>3. c \in Book
  BY <1>2 DEF Moves, Sound
<1>4. Signed(o) \in Int /\ Signed(o) # 0 /\ Margin \in Nat /\ price \in Int /\ cost \in Int
  <2>1. Signed(o) \in Int /\ Signed(o) # 0 /\ Margin \in Nat /\ price \in Int
    BY <1>1, TermFacts, BacktestAssumption
  <2> QED BY <2>1, Products
<1>5. SumFunction(Earned(c)) = SumFunction(Earned(b)) - cost
  <2> DEFINE g == Earned(b)
             h == Earned(c)
  <2>1. g \in [Traders -> Int] /\ h \in [Traders -> Int] /\ IsFiniteSet(Traders)
    BY <1>1, <1>3, SumsOfBook
  <2>2. \A t \in Traders \ {o} : h[t] = g[t]
    <3>1. \A t \in Traders \ {o} : c.transactions[t] = b.transactions[t]
      BY <1>2 DEF Moves, Traders
    <3> QED BY <3>1 DEF Earned
  <2>3. h[o] - g[o] = -cost
    <3> DEFINE x == SumFunction(b.transactions[o])
    <3>1. b.transactions[o] \in Seq(Int) /\ x \in Int
      BY <1>1, SumsOfBook
    <3>2. c.transactions[o] = Append(b.transactions[o], price)
      BY <1>1, <1>2 DEF Moves
    <3>3. SumFunction(c.transactions[o]) = x + price
      BY <1>4, <3>1, <3>2, SumOfAppend
    <3>4. g[o] = -Signed(o) * x /\ h[o] = -Signed(o) * SumFunction(c.transactions[o])
      BY DEF Earned
    <3> HIDE DEF x, g, h
    <3>5. h[o] = -Signed(o) * (x + price)
      BY <3>3, <3>4
    <3>6. \A s, y, z \in Int : (-s * (y + z)) - (-s * y) = -(s * z)
      OBVIOUS
    <3> QED BY <1>4, <3>1, <3>4, <3>5, <3>6
  <2> HIDE DEF g, h
  <2>4. SumFunction(h) = SumFunction(g) + (h[o] - g[o])
    BY <2>1, <2>2, SumChanges
  <2>5. SumFunction(g) \in Int
    BY <2>1, SumType
  <2> QED BY <1>4, <2>3, <2>4, <2>5 DEF g, h
<1> DEFINE eb == SumFunction(Earned(b))
           ec == SumFunction(Earned(c))
           hb == SumFunction(Held(b))
           hc == SumFunction(Held(c))
<1>6. /\ eb \in Int /\ ec \in Int /\ hb \in Int /\ hc \in Int /\ Means \in Int
      /\ b.cash \in Int /\ b.owed \in Int /\ c.cash \in Int /\ c.owed \in Int
  BY <1>1, <1>3, SumsOfBook DEF Means
<1>7. b.cash + b.owed = (Means + eb) + hb
  BY DEF Balances
<1>8. CASE a \in Futures
  <2>1. /\ b.lots[a] \in Seq(Lot) /\ OneSided(b.lots[a])
        /\ fill.lots \in Seq(Lot) /\ fill.cash \in Int
        /\ \A x \in Futures : c.lots[x] = IF x = a THEN fill.lots ELSE b.lots[x]
        /\ c.cash = b.cash + fill.cash /\ c.owed = b.owed
    BY <1>2, <1>8 DEF Moves
  <2>2. fill.cash = ((Basis(fill.lots) - Basis(b.lots[a]))
                       + (Margin * Abs(Net(b.lots[a])) - Margin * Abs(Net(fill.lots)))) - cost
    <3> DEFINE l == b.lots[a]
               q == Signed(o)
               f == FuturesFill(l, q, price, Margin)
    <3>1. l \in Seq(Lot) /\ OneSided(l) /\ q \in Int /\ q # 0 /\ fill = f
      BY <1>4, <2>1 DEF FillOf
    <3> HIDE DEF l, q, fill
    <3>2. f.cash = ((Basis(f.lots) - Basis(l))
                       + (Margin * Abs(Net(l)) - Margin * Abs(Net(f.lots)))) - q * price
      BY <1>4, <3>1, LedgerFill
    <3> QED BY <3>1, <3>2 DEF l, q
  <2> HIDE DEF fill
  <2> DEFINE g == Held(b)
             h == Held(c)
  <2>3. g \in [Futures -> Int] /\ h \in [Futures -> Int] /\ IsFiniteSet(Futures)
    BY <1>1, <1>3, SumsOfBook
  <2>4. \A x \in Futures \ {a} : h[x] = g[x]
    BY <2>1 DEF Held
  <2>5. /\ g[a] = Basis(b.lots[a]) - Margin * Abs(Net(b.lots[a]))
        /\ h[a] = Basis(fill.lots) - Margin * Abs(Net(fill.lots))
    BY <1>8, <2>1 DEF Held
  <2> DEFINE x1 == Basis(b.lots[a])
             x2 == Basis(fill.lots)
             m1 == Margin * Abs(Net(b.lots[a]))
             m2 == Margin * Abs(Net(fill.lots))
  <2>6. x1 \in Int /\ x2 \in Int /\ m1 \in Int /\ m2 \in Int
    <3>1. x1 \in Int /\ x2 \in Int /\ Net(b.lots[a]) \in Int /\ Net(fill.lots) \in Int
      BY <2>1, SumsOfLots
    <3>2. Abs(Net(b.lots[a])) \in Int /\ Abs(Net(fill.lots)) \in Int
      BY <3>1 DEF Abs
    <3> QED BY <1>4, <3>1, <3>2, Products
  <2>7. fill.cash = ((x2 - x1) + (m1 - m2)) - cost /\ g[a] = x1 - m1 /\ h[a] = x2 - m2
    BY <2>2, <2>5
  <2> HIDE DEF g, h, x1, x2, m1, m2
  <2>8. SumFunction(h) = SumFunction(g) + (h[a] - g[a])
    BY <1>8, <2>3, <2>4, SumChanges
  <2>9. hc = hb + ((x2 - m2) - (x1 - m1))
    BY <2>7, <2>8 DEF g, h
  <2> HIDE DEF eb, ec, hb, hc, cost
  <2>10. ec = eb - cost
    BY <1>5 DEF ec, eb
  <2> DEFINE cash == b.cash
             owed == b.owed
             paid == fill.cash
  <2>11. cash \in Int /\ owed \in Int /\ paid \in Int /\ cash + owed = (Means + eb) + hb
         /\ paid = ((x2 - x1) + (m1 - m2)) - cost
         /\ c.cash + c.owed = (cash + paid) + owed
    BY <1>6, <1>7, <2>1, <2>7
  <2> HIDE DEF cash, owed, paid
  <2>12. (cash + paid) + owed = (Means + ec) + hc
    BY <1>4, <1>6, <2>6, <2>9, <2>10, <2>11
  <2> QED BY <2>11, <2>12 DEF Balances, ec, hc, c
<1>9. CASE a \notin Futures
  <2>1. c.lots = b.lots /\ c.cash = b.cash /\ c.owed = b.owed - cost
    BY <1>2, <1>9 DEF Moves
  <2>2. hc = hb
    BY <2>1 DEF Held
  <2> HIDE DEF eb, ec, hb, hc, cost
  <2>3. ec = eb - cost
    BY <1>5 DEF ec, eb
  <2> DEFINE cash == b.cash
             owed == b.owed
  <2>4. cash \in Int /\ owed \in Int /\ cash + owed = (Means + eb) + hb
        /\ c.cash + c.owed = cash + (owed - cost)
    BY <1>6, <1>7, <2>1
  <2> HIDE DEF cash, owed
  <2>5. cash + (owed - cost) = (Means + ec) + hc
    BY <1>4, <1>6, <2>2, <2>3, <2>4
  <2> QED BY <2>4, <2>5 DEF Balances, ec, hc, c
<1> QED BY <1>8, <1>9
-----------------------------------------------------------------------------
(* The orders.  R is the set of roots submitted so far.                     *)
Family(R) == R \cup UNION {Kids[r] : r \in R}
Waits(p) == Terms[p].class \in {"bracket", "oto"}

(* Nothing has happened to an order that was not submitted.                 *)
OthersUntouched(b, R) ==
  \A x \in Orders \ Family(R) : /\ b.status[x] = "unprocessed"
                                /\ x \notin ToSet(b.new) /\ x \notin b.placeholders

(* _new_orders holds no order twice, no filled order and no OCO parent.     *)
NewFits(b) ==
  /\ IsInjective(b.new)
  /\ \A x \in ToSet(b.new) : Terms[x].class # "oco" /\ b.status[x] # "filled"

PlaceholdersFit(b) == \A x \in b.placeholders : Terms[x].class = "oco"

(* Exits work only after their entry is filled, and end with it if it is    *)
(* canceled.                                                                *)
ExitsFit(b) ==
  \A p \in Orders : Waits(p) =>
    \A k \in Kids[p] :
      /\ k \in ToSet(b.new) \/ b.status[k] = "filled" => b.status[p] = "filled"
      /\ b.status[p] = "canceled" => ~Open(b, k)

(* The order linked to a filled one is canceled.                            *)
PartnersFit(b) ==
  \A o \in Plain : b.status[o] = "filled" /\ Terms[o].partner # NoOrder
                     => b.status[Terms[o].partner] = "canceled"

RootsFit(b, R) == \A r \in R : r \in Plain /\ Open(b, r) => r \in ToSet(b.new)

Fit(b, R) ==
  /\ OthersUntouched(b, R) /\ NewFits(b) /\ PlaceholdersFit(b) /\ ExitsFit(b)
  /\ PartnersFit(b) /\ RootsFit(b, R)

(* What remains of the pass: each order once, and if it trades on its own   *)
(* account it is not filled, and still listed if it is open.                *)
TodoFits(b, list, R) ==
  /\ IsInjective(list)
  /\ \A x \in ToSet(list) :
       /\ x \in Family(R) /\ Terms[x].class # "oco"
       /\ x \in Plain => /\ b.status[x] # "filled"
                         /\ Open(b, x) => x \in ToSet(b.new)

(* Between two books plain orders are only canceled.                        *)
Drops(b, c) ==
  \A x \in Plain :
    /\ c.status[x] = b.status[x] \/ (Open(b, x) /\ c.status[x] = "canceled")
    /\ Open(c, x) => (x \in ToSet(c.new) <=> x \in ToSet(b.new))

(* One is filled, others are canceled, and its exits are listed.            *)
Fills1(b, c, o) ==
  /\ c.status[o] = "filled"
  /\ Terms[o].partner # NoOrder => c.status[Terms[o].partner] = "canceled"
  /\ \A x \in Plain \ {o} :
       /\ c.status[x] = b.status[x] \/ (Open(b, x) /\ c.status[x] = "canceled")
       /\ Open(c, x) => (x \in ToSet(c.new) <=> x \in ToSet(b.new) \/ (Waits(o) /\ x \in Kids[o]))

(* Nothing is listed or opened.                                             *)
Narrows(b, c) ==
  ToSet(c.new) \subseteq ToSet(b.new) /\ \A x \in Orders : Open(c, x) => Open(b, x)

LEMMA Kinds ==
  ASSUME NEW o \in Orders
  PROVE  /\ Waits(o) => o \in Plain
         /\ o \in Plain => o \in Traders /\ ~HoldsLegs(o) /\ o \notin Managed
         /\ HoldsLegs(o) => ~Waits(o) /\ o \notin Plain /\ o \notin Traders
         /\ o \in Traders => o \in Plain \/ o \in Managed
         /\ o \in Managed => /\ ParentOf[o] \in Orders /\ o \in Kids[ParentOf[o]]
                             /\ Terms[ParentOf[o]].class = "package"
                             /\ Terms[o].class = "simple" /\ Kids[o] = {} /\ o \in Traders
                             /\ Terms[o].partner = NoOrder
         /\ \A p \in Orders : o \in Kids[p] =>
              /\ Terms[o].class = "simple" /\ ~Waits(o) /\ o \in Traders
              /\ Terms[p].class # "package" => o \in Plain
              /\ Terms[p].class = "package" => o \in Managed
<1>1. o \in Managed => /\ ParentOf[o] \in Orders /\ o \in Kids[ParentOf[o]]
                       /\ Terms[ParentOf[o]].class = "package"
  BY ParentFacts DEF Managed, IsLegOf
<1>2. o \in Managed => Terms[o].class = "simple" /\ Kids[o] = {} /\ o \in Traders
  BY <1>1, TermFacts DEF Traders, HoldsLegs
<1>3. Waits(o) => o \in Plain
  BY <1>2 DEF Waits, Plain, Traders, HoldsLegs
<1>4. HoldsLegs(o) => ~Waits(o) /\ o \notin Plain /\ o \notin Traders
  BY DEF HoldsLegs, Waits, Plain, Traders
<1>5. o \in Plain => o \in Traders /\ ~HoldsLegs(o) /\ o \notin Managed
  BY DEF Plain, Traders
<1>6. o \in Traders => o \in Plain \/ o \in Managed
  BY DEF Plain
<1>7. ASSUME o \in Managed PROVE Terms[o].partner = NoOrder
  <2> SUFFICES ASSUME Terms[o].partner # NoOrder PROVE FALSE
    OBVIOUS
  <2>1. PICK p \in Orders : Terms[p].class \in {"bracket", "oco"} /\ o \in Kids[p]
    BY PartnerFacts
  <2>2. p = ParentOf[o]
    BY <1>1, <1>7, <2>1, TermFacts
  <2> QED BY <1>1, <1>7, <2>1, <2>2
<1>8. ASSUME NEW p \in Orders, o \in Kids[p]
      PROVE  /\ Terms[o].class = "simple" /\ ~Waits(o) /\ o \in Traders
             /\ Terms[p].class # "package" => o \in Plain
             /\ Terms[p].class = "package" => o \in Managed
  <2>1. Terms[o].class = "simple" /\ ~HoldsLegs(o) /\ \A q \in Orders : o \in Kids[q] => q = p
    BY <1>8, TermFacts
  <2>2. ~Waits(o) /\ o \in Traders
    BY <2>1 DEF Waits, Traders
  <2>3. Terms[p].class # "package" => o \in Plain
    BY <1>1, <2>1, <2>2 DEF Plain
  <2>4. ASSUME Terms[p].class = "package" PROVE o \in Managed
    <3>1. ParentOf[o] = p /\ p # NoOrder
      BY <1>8, <2>4, ParentFacts, BacktestAssumption DEF HoldsLegs
    <3> QED BY <2>4, <3>1 DEF Managed, IsLegOf
  <2> QED BY <2>1, <2>2, <2>3, <2>4
<1> QED BY <1>1, <1>2, <1>3, <1>4, <1>5, <1>6, <1>7, <1>8

LEMMA Families ==
  ASSUME NEW R \in SUBSET Roots
  PROVE  /\ Family(R) \subseteq Orders
         /\ \A p \in Family(R) : Kids[p] \subseteq Family(R)
         /\ \A p \in Orders : \A k \in Kids[p] : k \in Family(R) => p \in R
         /\ \A p \in Orders : \A k \in Kids[p] : k \notin Roots
<1>1. Roots \subseteq Orders /\ \A p \in Orders : \A k \in Kids[p] : k \notin Roots
  BY DEF Roots
<1>2. \A r \in R : Kids[r] \subseteq Orders
  BY <1>1, TermFacts
<1>3. \A p \in Family(R) : Kids[p] \subseteq Family(R)
  <2>1. ASSUME NEW p \in Family(R), p \notin R PROVE Kids[p] = {}
    <3>1. PICK r \in R : p \in Kids[r]
      BY <2>1 DEF Family
    <3> QED BY <1>1, <1>2, <3>1, TermFacts
  <2> QED BY <2>1 DEF Family
<1>4. ASSUME NEW p \in Orders, NEW k \in Kids[p], k \in Family(R) PROVE p \in R
  <2>1. PICK r \in R : k \in Kids[r]
    BY <1>1, <1>4 DEF Family
  <2> QED BY <1>1, <1>4, <2>1, TermFacts
<1> QED BY <1>1, <1>2, <1>3, <1>4 DEF Family

LEMMA FitSame ==
  ASSUME NEW b, NEW c, NEW R, SameOrders(b, c), Fit(b, R)
  PROVE  Fit(c, R) /\ \A x \in Orders : Open(c, x) <=> Open(b, x)
<1>1. c.status = b.status /\ c.new = b.new /\ c.placeholders = b.placeholders
  BY DEF SameOrders
<1>2. \A x : Open(c, x) <=> Open(b, x)
  BY <1>1 DEF Open
<1>3. OthersUntouched(c, R) /\ NewFits(c) /\ PlaceholdersFit(c)
  BY <1>1 DEF Fit, OthersUntouched, NewFits, PlaceholdersFit
<1>4. ExitsFit(c)
  BY <1>1, <1>2 DEF Fit, ExitsFit
<1>5. PartnersFit(c) /\ RootsFit(c, R)
  BY <1>1, <1>2 DEF Fit, PartnersFit, RootsFit
<1> QED BY <1>2, <1>3, <1>4, <1>5 DEF Fit

LEMMA DropsMore ==
  /\ \A b : Drops(b, b)
  /\ \A b, c, d : Drops(b, c) /\ Drops(c, d) => Drops(b, d)
  /\ \A b, c, d : \A o \in Plain : Fills1(b, c, o) /\ Drops(c, d) => Fills1(b, d, o)
  /\ \A b, c, d : \A o \in Plain : Drops(b, c) /\ Fills1(c, d, o) => Fills1(b, d, o)
<1>1. ASSUME NEW b PROVE Drops(b, b)
  BY DEF Drops
<1>2. \A b, x : Open(b, x) <=> b.status[x] = "unprocessed" \/ b.status[x] = "new"
  BY DEF Open
<1>3. ASSUME NEW b, NEW c, NEW d, Drops(b, c), Drops(c, d) PROVE Drops(b, d)
  <2> SUFFICES ASSUME NEW x \in Plain
               PROVE  /\ d.status[x] = b.status[x] \/ (Open(b, x) /\ d.status[x] = "canceled")
                      /\ Open(d, x) => (x \in ToSet(d.new) <=> x \in ToSet(b.new))
    BY DEF Drops
  <2>1. /\ c.status[x] = b.status[x] \/ (Open(b, x) /\ c.status[x] = "canceled")
        /\ Open(c, x) => (x \in ToSet(c.new) <=> x \in ToSet(b.new))
        /\ d.status[x] = c.status[x] \/ (Open(c, x) /\ d.status[x] = "canceled")
        /\ Open(d, x) => (x \in ToSet(d.new) <=> x \in ToSet(c.new))
    BY <1>3 DEF Drops
  <2> QED BY <1>2, <2>1
<1>4. \A o \in Plain : Terms[o].partner # NoOrder => Terms[o].partner \in Plain
  <2>1. ASSUME NEW o \in Plain, Terms[o].partner # NoOrder PROVE Terms[o].partner \in Plain
    <3>1. o \in Orders
      BY DEF Plain, Traders
    <3>2. /\ Terms[o].partner \in Orders
          /\ \E p \in Orders : Terms[p].class \in {"bracket", "oco"} /\ Terms[o].partner \in Kids[p]
      BY <2>1, <3>1, PartnerFacts
    <3> QED BY <3>2, Kinds
  <2> QED BY <2>1
<1>5. ASSUME NEW b, NEW c, NEW d, NEW o \in Plain, Fills1(b, c, o), Drops(c, d)
      PROVE  Fills1(b, d, o)
  <2>1. d.status[o] = "filled"
    BY <1>2, <1>5 DEF Fills1, Drops
  <2>2. Terms[o].partner # NoOrder => d.status[Terms[o].partner] = "canceled"
    BY <1>2, <1>4, <1>5 DEF Fills1, Drops
  <2>3. ASSUME NEW x \in Plain \ {o}
        PROVE  /\ d.status[x] = b.status[x] \/ (Open(b, x) /\ d.status[x] = "canceled")
               /\ Open(d, x) => (x \in ToSet(d.new) <=>
                                   x \in ToSet(b.new) \/ (Waits(o) /\ x \in Kids[o]))
    <3>1. /\ c.status[x] = b.status[x] \/ (Open(b, x) /\ c.status[x] = "canceled")
          /\ Open(c, x) => (x \in ToSet(c.new) <=> x \in ToSet(b.new) \/ (Waits(o) /\ x \in Kids[o]))
      BY <1>5 DEF Fills1
    <3>2. /\ d.status[x] = c.status[x] \/ (Open(c, x) /\ d.status[x] = "canceled")
          /\ Open(d, x) => (x \in ToSet(d.new) <=> x \in ToSet(c.new))
      BY <1>5 DEF Drops
    <3> QED BY <1>2, <3>1, <3>2
  <2> QED BY <2>1, <2>2, <2>3 DEF Fills1
<1>6. ASSUME NEW b, NEW c, NEW d, NEW o \in Plain, Drops(b, c), Fills1(c, d, o)
      PROVE  Fills1(b, d, o)
  <2>1. ASSUME NEW x \in Plain \ {o}
        PROVE  /\ d.status[x] = b.status[x] \/ (Open(b, x) /\ d.status[x] = "canceled")
               /\ Open(d, x) => (x \in ToSet(d.new) <=>
                                   x \in ToSet(b.new) \/ (Waits(o) /\ x \in Kids[o]))
    <3>1. /\ d.status[x] = c.status[x] \/ (Open(c, x) /\ d.status[x] = "canceled")
          /\ Open(d, x) => (x \in ToSet(d.new) <=> x \in ToSet(c.new) \/ (Waits(o) /\ x \in Kids[o]))
      BY <1>6 DEF Fills1
    <3>2. /\ c.status[x] = b.status[x] \/ (Open(b, x) /\ c.status[x] = "canceled")
          /\ Open(c, x) => (x \in ToSet(c.new) <=> x \in ToSet(b.new))
      BY <1>6 DEF Drops
    <3> QED BY <1>2, <3>1, <3>2
  <2> QED BY <1>6, <2>1 DEF Fills1
<1> QED BY <1>1, <1>3, <1>5, <1>6

(* Canceling orders that are not filled, entries with their open exits.     *)
LEMMA CancelFits ==
  ASSUME NEW b \in Book, NEW R \in SUBSET Roots, Fit(b, R), NEW S \in SUBSET Family(R),
         \A x \in S : /\ x \in Plain => b.status[x] # "filled"
                      /\ \A k \in Kids[x] : Open(b, k) => k \in S
  PROVE  /\ Fit(Canceled(b, S), R) /\ Drops(b, Canceled(b, S)) /\ Narrows(b, Canceled(b, S))
<1> DEFINE c == Canceled(b, S)
<1>1. /\ c.placeholders = b.placeholders
      /\ \A x \in Orders : c.status[x] = IF x \in S THEN "canceled" ELSE b.status[x]
      /\ ToSet(c.new) = ToSet(b.new) \ S
      /\ IsInjective(b.new) => IsInjective(c.new)
  BY CanceledIs
<1>2. \A x \in Orders : b.status[x] \in Statuses
  BY BookFields
<1>3. Family(R) \subseteq Orders
  BY Families
<1> HIDE DEF c
<1>4. \A x \in Orders : /\ x \in S => c.status[x] = "canceled" /\ ~Open(c, x)
                        /\ x \notin S => c.status[x] = b.status[x] /\ (Open(c, x) <=> Open(b, x))
  BY <1>1 DEF Open
<1>5. OthersUntouched(c, R)
  BY <1>1 DEF Fit, OthersUntouched
<1>6. ToSet(b.new) \subseteq Orders
  BY BookFields DEF ToSet
<1>7. NewFits(c) /\ PlaceholdersFit(c)
  BY <1>1, <1>6 DEF Fit, NewFits, PlaceholdersFit
<1>8. ExitsFit(c)
  <2> SUFFICES ASSUME NEW p \in Orders, Waits(p), NEW k \in Kids[p]
               PROVE  /\ k \in ToSet(c.new) \/ c.status[k] = "filled" => c.status[p] = "filled"
                      /\ c.status[p] = "canceled" => ~Open(c, k)
    BY DEF ExitsFit
  <2>1. /\ k \in ToSet(b.new) \/ b.status[k] = "filled" => b.status[p] = "filled"
        /\ b.status[p] = "canceled" => ~Open(b, k)
    BY DEF Fit, ExitsFit
  <2>2. k \in Orders /\ p \in Plain
    BY TermFacts, Kinds
  <2>3. p \in S => b.status[p] # "filled" /\ (Open(b, k) => k \in S)
    BY <2>2
  <2>4. k \in ToSet(c.new) \/ c.status[k] = "filled" => c.status[p] = "filled"
    BY <1>1, <1>4, <2>1, <2>2, <2>3
  <2>5. c.status[p] = "canceled" => ~Open(c, k)
    BY <1>4, <2>1, <2>2, <2>3
  <2> QED BY <2>4, <2>5
<1>9. PartnersFit(c)
  <2> SUFFICES ASSUME NEW o \in Plain, c.status[o] = "filled", Terms[o].partner # NoOrder
               PROVE  c.status[Terms[o].partner] = "canceled"
    BY DEF PartnersFit
  <2>1. o \in Orders /\ Terms[o].partner \in Orders
    BY PartnerFacts DEF Plain, Traders
  <2>2. b.status[o] = "filled"
    BY <1>4, <2>1
  <2>3. b.status[Terms[o].partner] = "canceled"
    BY <2>2 DEF Fit, PartnersFit
  <2> QED BY <1>4, <2>1, <2>3
<1>10. RootsFit(c, R)
  <2> SUFFICES ASSUME NEW r \in R, r \in Plain, Open(c, r) PROVE r \in ToSet(c.new)
    BY DEF RootsFit
  <2>1. r \in Orders
    BY DEF Plain, Traders
  <2>2. r \notin S /\ Open(b, r)
    BY <1>4, <2>1
  <2>3. r \in ToSet(b.new)
    BY <2>2 DEF Fit, RootsFit
  <2> QED BY <1>1, <2>2, <2>3
<1>11. Drops(b, c)
  <2> SUFFICES ASSUME NEW x \in Plain
               PROVE  /\ c.status[x] = b.status[x] \/ (Open(b, x) /\ c.status[x] = "canceled")
                      /\ Open(c, x) => (x \in ToSet(c.new) <=> x \in ToSet(b.new))
    BY DEF Drops
  <2>1. x \in Orders /\ b.status[x] \in Statuses
    BY <1>2 DEF Plain, Traders
  <2>2. x \in S => b.status[x] # "filled"
    OBVIOUS
  <2>3. x \in S => Open(b, x) \/ b.status[x] = "canceled"
    BY <2>1, <2>2 DEF Open, Statuses
  <2> QED BY <1>1, <1>4, <2>1, <2>3
<1>12. Narrows(b, c)
  BY <1>1, <1>4 DEF Narrows
<1> QED BY <1>5, <1>7, <1>8, <1>9, <1>10, <1>11, <1>12 DEF Fit, c

(* An order that does not trade on its own account changes its status.      *)
LEMMA OtherFits ==
  ASSUME NEW b \in Book, NEW c \in Book, NEW R \in SUBSET Roots, Fit(b, R),
         NEW p \in Family(R), p \notin Plain,
         \A x \in Orders : x # p => c.status[x] = b.status[x],
         ToSet(c.new) = ToSet(b.new) \ {p}, IsInjective(c.new),
         c.placeholders \subseteq b.placeholders
  PROVE  Fit(c, R) /\ Drops(b, c)
<1>1. \A x \in Plain : x \in Orders /\ x # p
  BY DEF Plain, Traders
<1>2. \A x \in Plain : /\ c.status[x] = b.status[x] /\ (Open(c, x) <=> Open(b, x))
                       /\ (x \in ToSet(c.new) <=> x \in ToSet(b.new))
  BY <1>1 DEF Open
<1>3. OthersUntouched(c, R)
  <2>1. \A x \in Orders \ Family(R) : x # p
    OBVIOUS
  <2> QED BY <2>1 DEF Fit, OthersUntouched
<1>4. NewFits(c) /\ PlaceholdersFit(c)
  <2>1. ToSet(b.new) \subseteq Orders
    BY BookFields DEF ToSet
  <2> QED BY <2>1 DEF Fit, NewFits, PlaceholdersFit
<1>5. ExitsFit(c)
  <2> SUFFICES ASSUME NEW q \in Orders, Waits(q), NEW k \in Kids[q]
               PROVE  /\ k \in ToSet(c.new) \/ c.status[k] = "filled" => c.status[q] = "filled"
                      /\ c.status[q] = "canceled" => ~Open(c, k)
    BY DEF ExitsFit
  <2>1. /\ k \in ToSet(b.new) \/ b.status[k] = "filled" => b.status[q] = "filled"
        /\ b.status[q] = "canceled" => ~Open(b, k)
    BY DEF Fit, ExitsFit
  <2>2. q \in Plain
    BY Kinds
  <2>3. k \in Plain
    <3>1. k \in Orders /\ Terms[q].class # "package"
      BY TermFacts DEF Waits
    <3> QED BY <3>1, Kinds
  <2> QED BY <1>2, <2>1, <2>2, <2>3
<1>6. PartnersFit(c)
  <2> SUFFICES ASSUME NEW x \in Plain, c.status[x] = "filled", Terms[x].partner # NoOrder
               PROVE  c.status[Terms[x].partner] = "canceled"
    BY DEF PartnersFit
  <2>1. x \in Orders
    BY <1>1
  <2>2. PICK q \in Orders : Terms[q].class \in {"bracket", "oco"} /\ Terms[x].partner \in Kids[q]
    BY <2>1, PartnerFacts
  <2>3. Terms[x].partner \in Plain
    <3>1. Terms[x].partner \in Orders
      BY <2>1, PartnerFacts
    <3> QED BY <2>2, <3>1, Kinds
  <2>4. b.status[Terms[x].partner] = "canceled"
    BY <1>2 DEF Fit, PartnersFit
  <2> QED BY <1>2, <2>3, <2>4
<1>7. RootsFit(c, R)
  BY <1>2 DEF Fit, RootsFit
<1>8. Drops(b, c)
  BY <1>2 DEF Drops
<1> QED BY <1>3, <1>4, <1>5, <1>6, <1>7, <1>8 DEF Fit

(* The parent of legs is closed.                                            *)
LEMMA HolderFits ==
  ASSUME NEW b \in Book, NEW R \in SUBSET Roots, Fit(b, R), NEW p \in Family(R), HoldsLegs(p)
  PROVE  /\ Fit(Closed(b, p), R) /\ Drops(b, Closed(b, p)) /\ Narrows(b, Closed(b, p))
<1> DEFINE c == Closed(b, p)
<1>1. p \in Orders /\ p \notin Plain
  BY Families, Kinds
<1>2. /\ c \in Book /\ c.placeholders = b.placeholders
      /\ \A x \in Orders : c.status[x] = IF x = p THEN "filled" ELSE b.status[x]
      /\ ToSet(c.new) = ToSet(b.new) \ {p}
      /\ IsInjective(b.new) => IsInjective(c.new)
  BY <1>1, ClosedIs
<1> HIDE DEF c
<1>3. IsInjective(c.new) /\ c.placeholders \subseteq b.placeholders
  BY <1>2 DEF Fit, NewFits
<1>4. \A x \in Orders : x # p => c.status[x] = b.status[x]
  BY <1>2
<1>5. Fit(c, R) /\ Drops(b, c)
  BY <1>1, <1>2, <1>3, <1>4, OtherFits
<1>6. Narrows(b, c)
  BY <1>2 DEF Narrows, Open
<1> QED BY <1>5, <1>6 DEF c

LEMMA CloseOcoFits ==
  ASSUME NEW b \in Book, NEW R \in SUBSET Roots, Fit(b, R), NEW o \in Family(R)
  PROVE  /\ Fit(CloseOco(b, o), R) /\ Drops(b, CloseOco(b, o)) /\ Narrows(b, CloseOco(b, o))
<1> DEFINE c == CloseOco(b, o)
           p == ParentOf[o]
<1>1. o \in Orders
  BY Families
<1>2. /\ c \in Book /\ c.new = b.new /\ c.placeholders \in SUBSET b.placeholders
      /\ \A x \in Orders : \/ c.status[x] = b.status[x]
                           \/ IsLegOf(o, {"oco"}) /\ x = p /\ c.status[x] = "filled"
  BY <1>1, CloseOcoIs, Zenon
<1> HIDE DEF c
<1>3. Narrows(b, c)
  BY <1>2 DEF Narrows, Open
<1>4. CASE IsLegOf(o, {"oco"})
  <2>1. p \in Orders /\ o \in Kids[p] /\ Terms[p].class = "oco"
    BY <1>1, <1>4, ParentFacts DEF IsLegOf
  <2>2. p \in Family(R)
    BY <2>1, Families DEF Family
  <2>3. p \notin Plain
    BY <2>1, Kinds DEF HoldsLegs
  <2>4. p \notin ToSet(b.new) /\ IsInjective(b.new)
    BY <2>1 DEF Fit, NewFits
  <2>5. ToSet(c.new) = ToSet(b.new) \ {p} /\ IsInjective(c.new)
    BY <1>2, <2>4
  <2>6. \A x \in Orders : x # p => c.status[x] = b.status[x]
    BY <1>2
  <2>7. Fit(c, R) /\ Drops(b, c)
    <3> HIDE DEF p
    <3> QED BY <1>2, <2>2, <2>3, <2>5, <2>6, OtherFits
  <2> QED BY <1>3, <2>7 DEF c
<1>5. CASE ~IsLegOf(o, {"oco"})
  <2>1. c = b
    BY <1>5 DEF c, CloseOco
  <2> QED BY <1>3, <2>1, DropsMore DEF c
<1> QED BY <1>4, <1>5

(* A position has gone flat by the fill of o.                               *)
LEMMA FlatFits ==
  ASSUME NEW b \in Book, NEW R \in SUBSET Roots, Fit(b, R), NEW o \in Traders,
         b.status[o] = "filled"
  PROVE  LET c == CancelOpenOrdersForAsset(b, o)
         IN  /\ c \in Book /\ Fit(c, R) /\ Drops(b, c) /\ Narrows(b, c)
             /\ c.status[o] = "filled"
             /\ \A x \in ToSet(c.new) :
                  (/\ Terms[x].asset = Terms[o].asset
                   /\ Terms[x].side \in ClosingSides(Terms[o].side)
                   /\ x \notin Legs) => ~Open(c, x)
<1> DEFINE tracked == {x \in ToSet(b.new) \cup b.placeholders : Active(b, x)}
           sides == ClosingSides(Terms[o].side)
           doomed == {x \in tracked \ {o} :
                       /\ ~\E p \in tracked : x \in Kids[p]
                       /\ Terms[x].asset = Terms[o].asset
                       /\ \E y \in {x} \cup Kids[x] : Terms[y].side \in sides}
           S == doomed \cup {k \in UNION {Kids[x] : x \in doomed} : Open(b, k)}
           c == CancelOpenOrdersForAsset(b, o)
<1>1. c = Canceled(b, S)
  BY DEF CancelOpenOrdersForAsset
<1>2. o \in Orders /\ ~HoldsLegs(o) /\ ~Open(b, o)
  BY DEF Traders, Open
<1>3. tracked \subseteq Family(R) /\ tracked \subseteq Orders
  <2>1. tracked \subseteq Orders
    BY BookFields DEF ToSet
  <2> HIDE DEF tracked
  <2>2. \A x \in tracked : x \in ToSet(b.new) \/ x \in b.placeholders
    BY DEF tracked
  <2> QED BY <2>1, <2>2 DEF Fit, OthersUntouched
<1>4. \A x \in tracked : x \in Plain => b.status[x] # "filled"
  <2>1. ASSUME NEW x \in b.placeholders, x \in Plain PROVE FALSE
    <3>1. Terms[x].class = "oco" /\ x \in Orders
      BY <2>1, BookFields DEF Fit, PlaceholdersFit
    <3> QED BY <2>1, <3>1, Kinds DEF HoldsLegs
  <2>2. \A x \in ToSet(b.new) : b.status[x] # "filled"
    BY DEF Fit, NewFits
  <2> QED BY <2>1, <2>2
<1>5. \A x \in S : /\ x \in Plain => b.status[x] # "filled"
                   /\ \A k \in Kids[x] : Open(b, k) => k \in S
  <2>1. ASSUME NEW x \in doomed
        PROVE  /\ x \in Plain => b.status[x] # "filled"
               /\ \A k \in Kids[x] : Open(b, k) => k \in S
    BY <1>4
  <2>2. ASSUME NEW y \in doomed, NEW x \in Kids[y], Open(b, x)
        PROVE  b.status[x] # "filled" /\ Kids[x] = {}
    <3>1. y \in Orders
      BY <1>3
    <3>2. Kids[x] = {}
      BY <3>1, TermFacts
    <3> QED BY <2>2, <3>2 DEF Open
  <2> QED BY <2>1, <2>2
<1>6. S \in SUBSET Family(R)
  <2>1. \A x \in doomed : x \in Family(R) /\ Kids[x] \subseteq Family(R)
    BY <1>3, Families
  <2> QED BY <2>1
<1>7. o \notin S
  BY <1>2
<1>8. doomed \subseteq S /\ \A x \in doomed : \A k \in Kids[x] : Open(b, k) => k \in S
  OBVIOUS
<1>9. \A x : x \in doomed <=> /\ x \in tracked \ {o}
                              /\ ~\E p \in tracked : x \in Kids[p]
                              /\ Terms[x].asset = Terms[o].asset
                              /\ \E y \in {x} \cup Kids[x] : Terms[y].side \in sides
  OBVIOUS
<1> HIDE DEF c, S, doomed
<1>10. /\ c \in Book /\ Fit(c, R) /\ Drops(b, c) /\ Narrows(b, c)
       /\ \A x \in Orders : c.status[x] = IF x \in S THEN "canceled" ELSE b.status[x]
       /\ ToSet(c.new) = ToSet(b.new) \ S
  BY <1>1, <1>5, <1>6, CancelFits, CanceledIs
<1>11. c.status[o] = "filled"
  BY <1>2, <1>7, <1>10
<1>12. ASSUME NEW x \in ToSet(c.new), Terms[x].asset = Terms[o].asset,
              Terms[x].side \in sides, x \notin Legs, Open(c, x)
       PROVE  FALSE
  <2>1. x \in ToSet(b.new) /\ x \notin S /\ x \in Orders
    BY <1>10, BookFields DEF ToSet
  <2>2. Open(b, x) /\ x # o
    BY <1>2, <1>10, <1>12, <2>1 DEF Open
  <2>3. x \in tracked
    BY <2>1, <2>2 DEF Active
  <2>4. PICK p \in tracked : x \in Kids[p]
    <3>1. x \notin doomed
      BY <1>8, <2>1
    <3> QED BY <1>9, <1>12, <2>2, <2>3, <3>1
  <2>5. p \in Orders /\ (p \in ToSet(b.new) \/ Terms[p].class = "oco")
    <3>1. p \in Orders
      BY <1>3
    <3>2. p \in ToSet(b.new) \/ p \in b.placeholders
      OBVIOUS
    <3> QED BY <3>1, <3>2 DEF Fit, PlaceholdersFit
  <2>6. Terms[p].class = "oco"
    <3>1. ~Waits(p)
      <4>1. Waits(p) => b.status[p] = "filled"
        BY <2>1, <2>4, <2>5 DEF Fit, ExitsFit
      <4>2. p \in ToSet(b.new) => b.status[p] # "filled"
        BY DEF Fit, NewFits
      <4> QED BY <2>5, <4>1, <4>2 DEF Waits
    <3>2. Terms[p].class \notin {"multileg", "package"}
      <4>1. ASSUME Terms[p].class \in {"multileg", "package"} PROVE FALSE
        <5>1. HoldsLegs(p)
          BY <4>1 DEF HoldsLegs
        <5>2. ParentOf[x] = p
          BY <2>1, <2>4, <2>5, <5>1, ParentFacts
        <5>3. p # NoOrder
          BY <2>5, BacktestAssumption
        <5>4. x \in Traders
          BY <2>1, <2>4, <2>5, Kinds
        <5> QED BY <1>12, <4>1, <5>2, <5>3, <5>4 DEF Legs, IsLegOf
      <4> QED BY <4>1
    <3>3. Terms[p].class # "simple"
      BY <2>4, <2>5, TermFacts
    <3> QED BY <2>5, <3>1, <3>2, <3>3, TermFacts DEF Waits
  <2>7. p \in doomed
    <3>1. p # o
      BY <1>2, <2>6 DEF HoldsLegs
    <3>2. ~\E q \in tracked : p \in Kids[q]
      BY <1>3, <2>6, TermFacts
    <3>3. Terms[x].asset = Terms[p].asset
      BY <2>4, <2>5, <2>6, TermsAssumption
    <3> QED BY <1>9, <1>12, <2>4, <3>1, <3>2, <3>3
  <2> QED BY <1>8, <2>1, <2>2, <2>4, <2>7
<1>13. c \in Book /\ Fit(c, R) /\ Drops(b, c) /\ Narrows(b, c)
  BY <1>10
<1> QED BY <1>11, <1>12, <1>13 DEF c

LEMMA ParentsFit ==
  ASSUME NEW b \in Book, NEW R \in SUBSET Roots, Fit(b, R), NEW o \in Family(R),
         b.status[o] = "filled"
  PROVE  /\ Parents(b, o) \in Book /\ Fit(Parents(b, o), R)
         /\ Drops(b, Parents(b, o)) /\ Narrows(b, Parents(b, o))
<1> DEFINE p == ParentOf[o]
<1>1. o \in Orders /\ Parents(b, o) \in Book
  BY Families, ParentsIs
<1>2. Drops(b, b) /\ Narrows(b, b)
  BY DropsMore DEF Narrows
<1>3. CASE p = NoOrder
  BY <1>1, <1>2, <1>3 DEF Parents
<1>4. CASE p # NoOrder
  <2>1. p \in Orders /\ HoldsLegs(p) /\ o \in Kids[p]
    BY <1>1, <1>4, ParentFacts
  <2>2. p \in Family(R)
    BY <2>1, Families DEF Family
  <2>3. Parents(b, o) = b \/ Parents(b, o) = Closed(b, p)
    <3>1. ~ \A k \in Kids[p] : b.status[k] = "canceled"
      BY <2>1
    <3> QED BY <1>4, <3>1 DEF Parents, UpdateParentOrderStatus
  <2>4. Fit(Closed(b, p), R) /\ Drops(b, Closed(b, p)) /\ Narrows(b, Closed(b, p))
    BY <2>1, <2>2, HolderFits
  <2> QED BY <1>1, <1>2, <2>3, <2>4
<1> QED BY <1>3, <1>4

(* The marks of a fill: the partner is canceled, the order is filled and    *)
(* its exits are listed.                                                    *)
LEMMA MarksAre ==
  ASSUME NEW b \in Sound, NEW o \in Orders, Terms[o].asset \in Assets, NEW price \in Nat
  PROVE  LET b1 == CancelPartner(b, o)
             d == DoneBook(b, o, price)
             kids == IF Waits(o) THEN Kids[o] ELSE {}
         IN  /\ b1 \in Book /\ d \in Book /\ d.placeholders = b1.placeholders
             /\ \A x \in Orders : d.status[x] = IF x = o THEN "filled" ELSE b1.status[x]
             /\ ToSet(d.new) = (ToSet(b1.new) \cup kids) \ {o}
             /\ IsInjective(b1.new) /\ ToSet(b1.new) \cap kids = {} => IsInjective(d.new)
<1> DEFINE b1 == CancelPartner(b, o)
           b2 == StartKids(b1, o)
           paid == PaidBook(b, o, price)
           d == DoneBook(b, o, price)
           kids == IF Waits(o) THEN Kids[o] ELSE {}
<1>1. /\ b1 \in Book /\ b2 \in Book /\ paid \in Book /\ d \in Book
      /\ SameOrders(b2, paid)
  BY ExecuteIs
<1>2. /\ b2.placeholders = b1.placeholders
      /\ b2.status = b1.status /\ ToSet(b2.new) = ToSet(b1.new) \cup kids
      /\ IsInjective(b1.new) /\ ToSet(b1.new) \cap kids = {} => IsInjective(b2.new)
  BY <1>1, StartKidsIs DEF Waits
<1>3. /\ Closed(paid, o).placeholders = paid.placeholders
      /\ \A x \in Orders : Closed(paid, o).status[x] = IF x = o THEN "filled" ELSE paid.status[x]
      /\ ToSet(Closed(paid, o).new) = ToSet(paid.new) \ {o}
      /\ IsInjective(paid.new) => IsInjective(Closed(paid, o).new)
  BY <1>1, ClosedIs
<1>4. SameOrders(Closed(paid, o), d)
  BY <1>1, RecordedIs DEF DoneBook
<1> HIDE DEF b1, b2, paid, d, kids
<1>5. paid.status = b1.status /\ paid.placeholders = b1.placeholders /\ paid.new = b2.new
  BY <1>1, <1>2 DEF SameOrders
<1>6. /\ d.placeholders = b1.placeholders
      /\ \A x \in Orders : d.status[x] = IF x = o THEN "filled" ELSE b1.status[x]
      /\ ToSet(d.new) = (ToSet(b1.new) \cup kids) \ {o}
  BY <1>2, <1>3, <1>4, <1>5 DEF SameOrders
<1>7. IsInjective(b1.new) /\ ToSet(b1.new) \cap kids = {} => IsInjective(d.new)
  BY <1>2, <1>3, <1>4, <1>5 DEF SameOrders
<1> QED BY <1>1, <1>6, <1>7 DEF b1, d, kids

(* A leg of a package is filled.                                            *)
LEMMA LegMarksFit ==
  ASSUME NEW b \in Sound, NEW R \in SUBSET Roots, Fit(b, R), NEW o \in Family(R),
         o \in Managed, Terms[o].asset \in Assets, NEW price \in Nat
  PROVE  LET d == DoneBook(b, o, price)
         IN  d \in Book /\ Fit(d, R) /\ Drops(b, d) /\ d.status[o] = "filled"
<1> DEFINE d == DoneBook(b, o, price)
<1>1. o \in Orders /\ b \in Book
  BY Families DEF Sound
<1>2. o \notin Plain /\ Terms[o].partner = NoOrder /\ ~Waits(o)
  BY <1>1, Kinds
<1>3. CancelPartner(b, o) = b
  BY <1>2 DEF CancelPartner
<1>4. /\ d \in Book /\ d.placeholders = b.placeholders
      /\ \A x \in Orders : d.status[x] = IF x = o THEN "filled" ELSE b.status[x]
      /\ ToSet(d.new) = ToSet(b.new) \ {o}
      /\ IsInjective(b.new) => IsInjective(d.new)
  BY <1>1, <1>2, <1>3, MarksAre
<1> HIDE DEF d
<1>5. IsInjective(d.new) /\ d.placeholders \subseteq b.placeholders
  BY <1>4 DEF Fit, NewFits
<1>6. \A x \in Orders : x # o => d.status[x] = b.status[x]
  BY <1>4
<1>7. Fit(d, R) /\ Drops(b, d)
  BY <1>1, <1>2, <1>4, <1>5, <1>6, OtherFits
<1> QED BY <1>1, <1>4, <1>7 DEF d

(* The order linked to an open one can be canceled.                         *)
LEMMA PartnerFits ==
  ASSUME NEW b \in Book, NEW R \in SUBSET Roots, Fit(b, R), NEW o \in Family(R),
         o \in Plain, Open(b, o), o \in ToSet(b.new)
  PROVE  LET c == CancelPartner(b, o)
         IN  /\ c \in Book /\ Fit(c, R) /\ Drops(b, c)
             /\ Open(c, o) /\ o \in ToSet(c.new)
             /\ Terms[o].partner # NoOrder => c.status[Terms[o].partner] = "canceled"
<1> DEFINE q == Terms[o].partner
           c == CancelPartner(b, o)
<1>1. o \in Orders
  BY Families
<1>2. CASE q = NoOrder
  BY <1>2, DropsMore DEF CancelPartner
<1>3. CASE q # NoOrder
  <2>1. /\ q \in Orders /\ Terms[q].partner = o /\ q # o /\ Kids[q] = {}
        /\ \E p \in Orders : /\ Terms[p].class \in {"bracket", "oco"}
                             /\ o \in Kids[p] /\ q \in Kids[p]
    BY <1>1, <1>3, PartnerFacts
  <2>2. q \in Family(R) /\ q \in Plain
    <3>1. PICK p \in Orders : /\ Terms[p].class \in {"bracket", "oco"}
                              /\ o \in Kids[p] /\ q \in Kids[p]
      BY <2>1
    <3>2. p \in R
      BY <3>1, Families
    <3> QED BY <2>1, <3>1, <3>2, Kinds DEF Family
  <2>3. b.status[q] # "filled"
    <3>1. b.status[q] = "filled" => b.status[o] = "canceled"
      <4>1. o # NoOrder
        BY <1>1, BacktestAssumption
      <4> QED BY <2>1, <2>2, <4>1 DEF Fit, PartnersFit
    <3> QED BY <3>1 DEF Open
  <2>4. c = Canceled(b, {q})
    <3>1. {q} \cup {k \in Kids[q] : Open(b, k)} = {q}
      BY <2>1
    <3> QED BY <1>3, <3>1 DEF CancelPartner, CancelOrder
  <2> HIDE DEF c, q
  <2>5. {q} \in SUBSET Family(R)
    BY <2>2
  <2>6. \A x \in {q} : /\ x \in Plain => b.status[x] # "filled"
                       /\ \A k \in Kids[x] : Open(b, k) => k \in {q}
    BY <2>1, <2>3
  <2>7. Fit(c, R) /\ Drops(b, c)
    BY <2>4, <2>5, <2>6, CancelFits
  <2>8. /\ c \in Book
        /\ \A x \in Orders : c.status[x] = IF x \in {q} THEN "canceled" ELSE b.status[x]
        /\ ToSet(c.new) = ToSet(b.new) \ {q}
    BY <2>4, CanceledIs
  <2>9. Open(c, o) /\ o \in ToSet(c.new) /\ c.status[q] = "canceled"
    BY <1>1, <2>1, <2>8 DEF Open
  <2> QED BY <2>7, <2>8, <2>9 DEF c, q
<1> QED BY <1>2, <1>3

(* An order that trades on its own account is filled.                       *)
LEMMA MarksFit ==
  ASSUME NEW b \in Sound, NEW R \in SUBSET Roots, Fit(b, R), NEW o \in Family(R),
         o \in Plain, Open(b, o), o \in ToSet(b.new),
         Terms[o].asset \in Assets, NEW price \in Nat
  PROVE  LET d == DoneBook(b, o, price)
         IN  d \in Book /\ Fit(d, R) /\ Fills1(b, d, o)
<1> DEFINE b1 == CancelPartner(b, o)
           d == DoneBook(b, o, price)
           kids == IF Waits(o) THEN Kids[o] ELSE {}
<1>1. o \in Orders /\ b \in Book
  BY Families DEF Sound
<1>2. /\ b1 \in Book /\ Fit(b1, R) /\ Drops(b, b1) /\ Open(b1, o) /\ o \in ToSet(b1.new)
      /\ Terms[o].partner # NoOrder => b1.status[Terms[o].partner] = "canceled"
  BY <1>1, PartnerFits
<1>3. /\ d \in Book /\ d.placeholders = b1.placeholders
      /\ \A x \in Orders : d.status[x] = IF x = o THEN "filled" ELSE b1.status[x]
      /\ ToSet(d.new) = (ToSet(b1.new) \cup kids) \ {o}
      /\ IsInjective(b1.new) /\ ToSet(b1.new) \cap kids = {} => IsInjective(d.new)
  BY <1>1, MarksAre
<1>4. kids \subseteq Kids[o] /\ kids \subseteq Orders /\ (Waits(o) => kids = Kids[o])
      /\ (~Waits(o) => kids = {})
  BY <1>1, TermFacts
<1> HIDE DEF b1, d, kids
<1>5. b1.status[o] # "filled" /\ b1.status[o] # "canceled"
  BY <1>2 DEF Open
<1>6. \A k \in kids : k \notin ToSet(b1.new) /\ b1.status[k] # "filled" /\ k # o
  <2>1. ASSUME NEW k \in kids PROVE k \notin ToSet(b1.new) /\ b1.status[k] # "filled"
    <3>1. Waits(o) /\ k \in Kids[o]
      BY <1>4
    <3> QED BY <1>1, <1>2, <1>5, <3>1 DEF Fit, ExitsFit
  <2> QED BY <1>2, <2>1
<1>7. OthersUntouched(d, R)
  <2>1. \A x \in Orders \ Family(R) : x # o /\ x \notin kids
    BY <1>4, Families
  <2> QED BY <1>2, <1>3, <2>1 DEF Fit, OthersUntouched
<1>8. NewFits(d) /\ PlaceholdersFit(d)
  <2>1. ToSet(b1.new) \subseteq Orders
    BY <1>2, BookFields DEF ToSet
  <2>2. \A k \in kids : Terms[k].class # "oco"
    BY <1>1, <1>4, TermFacts
  <2>3. IsInjective(d.new)
    BY <1>2, <1>3, <1>6 DEF Fit, NewFits
  <2>4. ASSUME NEW x \in ToSet(d.new) PROVE Terms[x].class # "oco" /\ d.status[x] # "filled"
    <3>1. x # o /\ (x \in ToSet(b1.new) \/ x \in kids) /\ x \in Orders
      BY <1>3, <1>4, <2>1
    <3>2. d.status[x] = b1.status[x]
      BY <1>3, <3>1
    <3>3. x \in ToSet(b1.new) => Terms[x].class # "oco" /\ b1.status[x] # "filled"
      BY <1>2 DEF Fit, NewFits
    <3> QED BY <1>6, <2>2, <3>1, <3>2, <3>3
  <2> QED BY <1>2, <1>3, <2>3, <2>4 DEF Fit, NewFits, PlaceholdersFit
<1>9. ExitsFit(d)
  <2> SUFFICES ASSUME NEW p \in Orders, Waits(p), NEW k \in Kids[p]
               PROVE  /\ k \in ToSet(d.new) \/ d.status[k] = "filled" => d.status[p] = "filled"
                      /\ d.status[p] = "canceled" => ~Open(d, k)
    BY DEF ExitsFit
  <2>1. /\ k \in ToSet(b1.new) \/ b1.status[k] = "filled" => b1.status[p] = "filled"
        /\ b1.status[p] = "canceled" => ~Open(b1, k)
    BY <1>2 DEF Fit, ExitsFit
  <2>2. k \in Orders
    BY TermFacts
  <2>3. CASE p = o
    BY <1>3, <2>3
  <2>4. CASE p # o
    <3>1. k \notin kids
      BY <1>1, <1>4, <2>4, TermFacts
    <3>2. k \in ToSet(d.new) \/ d.status[k] = "filled"
             => k \in ToSet(b1.new) \/ b1.status[k] = "filled"
      BY <1>2, <1>3, <2>2, <3>1
    <3>3. d.status[p] = b1.status[p] /\ (Open(d, k) => Open(b1, k))
      BY <1>3, <2>2, <2>4 DEF Open
    <3> QED BY <2>1, <3>2, <3>3
  <2> QED BY <2>3, <2>4
<1>10. PartnersFit(d)
  <2> SUFFICES ASSUME NEW x \in Plain, d.status[x] = "filled", Terms[x].partner # NoOrder
               PROVE  d.status[Terms[x].partner] = "canceled"
    BY DEF PartnersFit
  <2>1. x \in Orders /\ Terms[x].partner \in Orders /\ Terms[x].partner # x
    BY PartnerFacts DEF Plain, Traders
  <2>2. b1.status[Terms[x].partner] = "canceled"
    <3>1. CASE x = o
      BY <1>2, <3>1
    <3>2. CASE x # o
      <4>1. b1.status[x] = "filled"
        BY <1>3, <2>1, <3>2
      <4> QED BY <1>2, <4>1 DEF Fit, PartnersFit
    <3> QED BY <3>1, <3>2
  <2>3. Terms[x].partner # o
    BY <1>5, <2>2
  <2> QED BY <1>3, <2>1, <2>2, <2>3
<1>11. RootsFit(d, R)
  <2> SUFFICES ASSUME NEW r \in R, r \in Plain, Open(d, r) PROVE r \in ToSet(d.new)
    BY DEF RootsFit
  <2>1. r \in Orders
    BY DEF Plain, Traders
  <2>2. r # o /\ Open(b1, r)
    BY <1>3, <2>1 DEF Open
  <2>3. r \in ToSet(b1.new)
    BY <1>2, <2>2 DEF Fit, RootsFit
  <2> QED BY <1>3, <2>2, <2>3
<1>12. Fills1(b1, d, o)
  <2>1. d.status[o] = "filled"
    BY <1>1, <1>3
  <2>2. Terms[o].partner # NoOrder => d.status[Terms[o].partner] = "canceled"
    <3>1. Terms[o].partner # NoOrder => Terms[o].partner \in Orders /\ Terms[o].partner # o
      BY <1>1, PartnerFacts
    <3> QED BY <1>2, <1>3, <3>1
  <2>3. ASSUME NEW x \in Plain \ {o}
        PROVE  /\ d.status[x] = b1.status[x]
               /\ x \in ToSet(d.new) <=> x \in ToSet(b1.new) \/ (Waits(o) /\ x \in Kids[o])
    <3>1. x \in Orders /\ x # o
      BY DEF Plain, Traders
    <3> QED BY <1>3, <1>4, <3>1
  <2> QED BY <2>1, <2>2, <2>3 DEF Fills1
<1>13. Fills1(b, d, o)
  BY <1>2, <1>12, DropsMore
<1>14. Fit(d, R)
  BY <1>7, <1>8, <1>9, <1>10, <1>11 DEF Fit
<1> QED BY <1>3, <1>13, <1>14 DEF d

(* No order that was only to close the position of o keeps working.         *)
NoneLeft(c, o) ==
  \A x \in ToSet(c.new) :
    (/\ Terms[x].asset = Terms[o].asset
     /\ Terms[x].side \in ClosingSides(Terms[o].side)
     /\ x \notin Legs) => ~Open(c, x)

LEMMA ExecuteFits ==
  ASSUME NEW b \in Sound, NEW R \in SUBSET Roots, Fit(b, R), NEW o \in Family(R), o \in Traders,
         o \in Plain => Open(b, o) /\ o \in ToSet(b.new),
         Terms[o].asset \in Assets, NEW price \in Nat
  PROVE  LET c == ExecuteFilledOrder(b, o, price)
         IN  /\ Fit(c, R)
             /\ o \in Managed => Drops(b, c)
             /\ o \in Plain => Fills1(b, c, o)
             /\ c.position[Terms[o].asset] = 0 => NoneLeft(c, o)
<1> DEFINE d == DoneBook(b, o, price)
           left == LeftBook(b, o, price)
           closed == Parents(left, o)
           c == ExecuteFilledOrder(b, o, price)
           a == Terms[o].asset
           flat == PaidBook(b, o, price).position[a] + Signed(o) = 0
<1>1. o \in Orders /\ b \in Book /\ (o \in Plain \/ o \in Managed)
  BY Families, Kinds DEF Sound
<1>2. /\ c = CloseOco(closed, o) /\ left \in Book /\ closed \in Book /\ d \in Book
      /\ PaidBook(b, o, price).position = b.position
      /\ Moves(b, c, o, price)
  BY <1>1, ExecuteIs
<1>3. c.position[a] = 0 => flat
  <2>1. c.position[a] = b.position[a] + Signed(o)
    BY <1>2 DEF Moves
  <2> QED BY <1>2, <2>1
<1>4. /\ Fit(d, R) /\ (o \in Managed => Drops(b, d)) /\ (o \in Plain => Fills1(b, d, o))
      /\ d.status[o] = "filled"
  <2>1. CASE o \in Plain
    <3>1. Fit(d, R) /\ Fills1(b, d, o) /\ o \notin Managed
      BY <1>1, <2>1, MarksFit, Kinds
    <3> QED BY <3>1 DEF Fills1
  <2>2. CASE o \in Managed
    <3>1. Fit(d, R) /\ Drops(b, d) /\ d.status[o] = "filled" /\ o \notin Plain
      BY <1>1, <2>2, LegMarksFit, Kinds
    <3> QED BY <3>1
  <2> QED BY <1>1, <2>1, <2>2
<1>5. left = IF flat THEN CancelOpenOrdersForAsset(d, o) ELSE d
  BY DEF LeftBook
<1> HIDE DEF d, left, closed, c, flat
<1>6. /\ Fit(left, R) /\ Drops(d, left) /\ left.status[o] = "filled"
      /\ flat => NoneLeft(left, o)
  <2>1. CASE flat
    <3>1. left = CancelOpenOrdersForAsset(d, o)
      BY <1>5, <2>1
    <3> QED BY <1>2, <1>4, <3>1, FlatFits DEF NoneLeft
  <2>2. CASE ~flat
    <3>1. left = d
      BY <1>5, <2>2
    <3> QED BY <1>4, <2>2, <3>1, DropsMore
  <2> QED BY <2>1, <2>2
<1>7. Fit(closed, R) /\ Drops(left, closed) /\ Narrows(left, closed)
  BY <1>2, <1>6, ParentsFit DEF closed
<1>8. Fit(c, R) /\ Drops(closed, c) /\ Narrows(closed, c)
  BY <1>2, <1>7, CloseOcoFits
<1>9. Drops(d, c)
  BY <1>6, <1>7, <1>8, DropsMore
<1>10. o \in Managed => Drops(b, c)
  BY <1>4, <1>9, DropsMore
<1>11. o \in Plain => Fills1(b, c, o)
  BY <1>4, <1>9, DropsMore
<1>12. flat => NoneLeft(c, o)
  <2>1. ASSUME NEW x \in ToSet(c.new), Open(c, x)
        PROVE  x \in ToSet(left.new) /\ Open(left, x)
    <3>1. x \in ToSet(closed.new) /\ x \in ToSet(left.new)
      BY <1>7, <1>8 DEF Narrows
    <3>2. x \in Orders
      BY <1>2, <3>1, BookFields DEF ToSet
    <3> QED BY <1>7, <1>8, <2>1, <3>1, <3>2 DEF Narrows
  <2> QED BY <1>6, <2>1 DEF NoneLeft
<1> QED BY <1>3, <1>8, <1>10, <1>11, <1>12 DEF c

(* A step that no order on its own account trades in.                       *)
Quiet(b, c, R) ==
  /\ c \in Sound /\ Agrees(c) /\ Balances(c) /\ Fit(c, R) /\ Drops(b, c)
  /\ \A x \in Plain : c.transactions[x] = b.transactions[x]

LEMMA QuietMore ==
  ASSUME NEW R
  PROVE  \A b, c, d : Quiet(b, c, R) /\ Quiet(c, d, R) => Quiet(b, d, R)
BY DropsMore DEF Quiet

LEMMA MoneyKept ==
  ASSUME NEW b \in Sound, NEW c \in Book, SameMoney(b, c), Agrees(b), Balances(b),
         NEW R, Fit(c, R), Drops(b, c)
  PROVE  Quiet(b, c, R)
<1>1. /\ c.position = b.position /\ c.lots = b.lots /\ c.cash = b.cash
      /\ c.owed = b.owed /\ c.transactions = b.transactions
  BY DEF SameMoney
<1>2. c \in Sound
  BY <1>1 DEF Sound
<1>3. Agrees(c)
  BY <1>1 DEF Agrees, Count
<1>4. Earned(c) = Earned(b) /\ Held(c) = Held(b)
  BY <1>1 DEF Earned, Held
<1>5. Balances(c)
  BY <1>1, <1>4 DEF Balances
<1> QED BY <1>1, <1>2, <1>3, <1>5 DEF Quiet

LEMMA CancelOrderFits ==
  ASSUME NEW b \in Sound, Agrees(b), Balances(b), NEW R \in SUBSET Roots, Fit(b, R),
         NEW o \in Family(R), o \in Plain => b.status[o] # "filled"
  PROVE  Quiet(b, CancelOrder(b, o), R)
<1> DEFINE S == {o} \cup {k \in Kids[o] : Open(b, k)}
<1>1. CancelOrder(b, o) = Canceled(b, S)
  BY DEF CancelOrder
<1>2. b \in Book /\ o \in Orders
  BY Families DEF Sound
<1>3. S \in SUBSET Family(R)
  BY Families
<1>4. \A x \in S : /\ x \in Plain => b.status[x] # "filled"
                   /\ \A k \in Kids[x] : Open(b, k) => k \in S
  <2>1. ASSUME NEW x \in Kids[o], Open(b, x)
        PROVE  b.status[x] # "filled" /\ Kids[x] = {}
    BY <1>2, <2>1, TermFacts DEF Open
  <2> QED BY <2>1
<1> HIDE DEF S
<1>5. Canceled(b, S) \in Book /\ SameMoney(b, Canceled(b, S))
  BY <1>2, CanceledIs
<1>6. Fit(Canceled(b, S), R) /\ Drops(b, Canceled(b, S))
  BY <1>2, <1>3, <1>4, CancelFits
<1> QED BY <1>1, <1>5, <1>6, MoneyKept

LEMMA CloseFits ==
  ASSUME NEW b \in Sound, Agrees(b), Balances(b), NEW R \in SUBSET Roots, Fit(b, R),
         NEW p \in Family(R), HoldsLegs(p)
  PROVE  Quiet(b, Closed(b, p), R)
<1>1. b \in Book /\ p \in Orders
  BY Families DEF Sound
<1>2. Closed(b, p) \in Book /\ SameMoney(b, Closed(b, p))
  BY <1>1, ClosedIs
<1>3. Fit(Closed(b, p), R) /\ Drops(b, Closed(b, p))
  BY <1>1, HolderFits
<1> QED BY <1>2, <1>3, MoneyKept

LEMMA FillLegsFit ==
  ASSUME feed \in [Assets -> Feed], NEW b \in Sound, NEW R \in SUBSET Roots, Fit(b, R),
         Agrees(b), Balances(b), skipped \in Int, NEW legs, LegsTrade(legs),
         \A n \in 1 .. Len(legs) : legs[n] \in Family(R) /\ legs[n] \in Managed, NEW quoted
  PROVE  Quiet(b, FillLegs(b, legs, quoted), R)
<1> DEFINE N == Len(legs)
<1>1. PICK f \in [0 .. N -> Sound] :
        /\ f[0] = b /\ FillLegs(b, legs, quoted) = f[N]
        /\ \A n \in 1 .. N :
             f[n] = IF LegPrice(legs, quoted, n) = NoPrice THEN f[n - 1]
                    ELSE ExecuteFilledOrder(f[n - 1], legs[n], LegPrice(legs, quoted, n))
  BY FillLegsIs
<1>2. N \in Nat
  BY DEF LegsTrade
<1> DEFINE B == {n \in 0 .. N : ~Quiet(b, f[n], R)}
<1>3. 0 \notin B
  BY <1>1, DropsMore DEF Quiet
<1>4. ASSUME NEW n \in 1 .. N, n - 1 \notin B PROVE n \notin B
  <2>1. n - 1 \in 0 .. N
    BY <1>2
  <2>2. Quiet(b, f[n - 1], R)
    BY <1>4, <2>1
  <2>3. f[n] = IF LegPrice(legs, quoted, n) = NoPrice THEN f[n - 1]
               ELSE ExecuteFilledOrder(f[n - 1], legs[n], LegPrice(legs, quoted, n))
    BY <1>1
  <2> DEFINE s == f[n - 1]
             o == legs[n]
             price == LegPrice(legs, quoted, n)
             c == ExecuteFilledOrder(s, o, price)
  <2>4. o \in Orders /\ Terms[o].asset \in Assets /\ price \in Nat
        /\ o \in Family(R) /\ o \in Managed
    BY LegPriceIs DEF LegsTrade
  <2> HIDE DEF s, o, price, c
  <2>5. s \in Sound /\ Agrees(s) /\ Balances(s) /\ Fit(s, R)
    BY <2>2 DEF s, Quiet
  <2>6. o \in Traders /\ o \notin Plain
    BY <2>4, Kinds
  <2>7. Agrees(c) /\ Balances(c)
    BY <2>4, <2>5, <2>6, FillKeepsAgreement, FillKeepsBalance DEF c
  <2>8. Fit(c, R) /\ Drops(s, c)
    BY <2>4, <2>5, <2>6, ExecuteFits DEF c
  <2>9. c \in Sound /\ \A x \in Plain : c.transactions[x] = s.transactions[x]
    <3>1. Moves(s, c, o, price)
      BY <2>4, <2>5, FillMoves DEF c
    <3>2. \A x \in Plain : x \in Orders /\ x # o
      BY <2>6 DEF Plain, Traders
    <3> QED BY <3>1, <3>2 DEF Moves
  <2>10. Quiet(b, c, R)
    BY <2>2, <2>7, <2>8, <2>9, QuietMore DEF Quiet, s
  <2>11. f[n] = f[n - 1] \/ f[n] = c
    BY <2>3 DEF c, s, o, price
  <2>12. Quiet(b, f[n], R)
    BY <2>2, <2>10, <2>11
  <2> QED BY <2>12
<1>5. B = {}
  <2>1. B \in SUBSET (0 .. N)
    OBVIOUS
  <2> HIDE DEF B
  <2> QED BY <1>2, <1>3, <1>4, <2>1, Climb
<1>6. Quiet(b, f[N], R)
  <2>1. N \in 0 .. N
    BY <1>2
  <2> QED BY <1>5, <2>1
<1> QED BY <1>1, <1>6
-----------------------------------------------------------------------------
(* The prices of fills.                                                     *)
Bars == [open : Nat, high : Nat, low : Nat]
Quotes == [bid : Nat, ask : Nat]
Inside(bar, p) == p = bar.open \/ (bar.low <= p /\ p <= bar.high)
OnQuote(quote, p) == \/ p = quote.bid \/ p = quote.ask
                     \/ quote.bid < p /\ p < quote.ask
                     \/ quote.bid # NoPrice /\ quote.bid < p /\ quote.ask = NoPrice

LEMMA LimitOrderIs ==
  ASSUME NEW bar \in Bars, NEW limit \in Nat, NEW buy \in BOOLEAN
  PROVE  LET p == LimitOrder(limit, buy, bar)
         IN  p \in Nat /\ (p # NoPrice => Inside(bar, p) /\ NoWorse(buy, p, limit))
<1>1. bar.open \in Nat /\ bar.high \in Nat /\ bar.low \in Nat
  BY DEF Bars
<1>2. LimitOrder(limit, buy, bar) = bar.open => NoWorse(buy, bar.open, limit)
                                                \/ bar.open = limit \/ bar.open = NoPrice
  BY <1>1 DEF LimitOrder
<1> QED BY <1>1, <1>2 DEF LimitOrder, Inside, NoWorse, NoPrice

LEMMA StopOrderIs ==
  ASSUME NEW bar \in Bars, NEW stop \in Int, NEW buy \in BOOLEAN
  PROVE  LET p == StopOrder(stop, buy, bar)
         IN  p \in Nat /\ (p # NoPrice => Inside(bar, p) /\ NoWorse(buy, stop, p))
<1>1. bar.open \in Nat /\ bar.high \in Nat /\ bar.low \in Nat
  BY DEF Bars
<1> QED BY <1>1 DEF StopOrder, Inside, NoWorse, NoPrice

LEMMA CrossingIs ==
  ASSUME NEW quote \in Quotes, NEW limit \in Nat, NEW buy \in BOOLEAN
  PROVE  LET p == Crossing(limit, buy, quote)
         IN  p \in Nat /\ (p # NoPrice => OnQuote(quote, p) /\ NoWorse(buy, p, limit))
<1> DEFINE p == Crossing(limit, buy, quote)
           take == Take(buy, quote)
<1>1. quote.bid \in Nat /\ quote.ask \in Nat
  BY DEF Quotes
<1>2. p = NoPrice \/ (p = take /\ take > 0 /\ NoWorse(buy, take, limit))
  BY DEF Crossing
<1> HIDE DEF p
<1>3. p \in Nat /\ (p # NoPrice => OnQuote(quote, p) /\ NoWorse(buy, p, limit))
  BY <1>1, <1>2 DEF Take, OnQuote, NoPrice
<1> QED BY <1>3 DEF p

LEMMA QuoteLimitIs ==
  ASSUME NEW quote \in Quotes, NEW limit \in Nat, NEW buy \in BOOLEAN, NEW maxSpread
  PROVE  LET p == QuoteLimit(limit, buy, quote, maxSpread)
         IN  p \in Nat /\ (p # NoPrice => OnQuote(quote, p) /\ NoWorse(buy, p, limit))
<1> DEFINE p == QuoteLimit(limit, buy, quote, maxSpread)
           take == Take(buy, quote)
           rest == Rest(buy, quote)
<1>1. quote.bid \in Nat /\ quote.ask \in Nat
  BY DEF Quotes
<1>2. \/ p = take /\ take > 0 /\ NoWorse(buy, take, limit)
      \/ /\ p = limit /\ ~(take > 0 /\ NoWorse(buy, take, limit))
         /\ rest > 0 /\ NoWorse(buy, rest, limit)
      \/ p = NoPrice
  <2>1. take \in Nat
    BY <1>1 DEF Take
  <2> QED BY <2>1 DEF QuoteLimit, Crossing, NoPrice
<1> HIDE DEF p
<1>3. p \in Nat /\ (p # NoPrice => OnQuote(quote, p) /\ NoWorse(buy, p, limit))
  <2>1. CASE buy
    BY <1>1, <1>2, <2>1 DEF Take, Rest, NoWorse, NoPrice, OnQuote
  <2>2. CASE ~buy
    BY <1>1, <1>2, <2>2 DEF Take, Rest, NoWorse, NoPrice, OnQuote
  <2> QED BY <2>1, <2>2
<1> QED BY <1>3 DEF p

LEMMA QuoteStopIs ==
  ASSUME NEW quote \in Quotes, NEW stop \in Int, NEW buy \in BOOLEAN
  PROVE  LET p == QuoteStop(stop, buy, quote)
         IN  p \in Nat /\ (p # NoPrice => OnQuote(quote, p) /\ NoWorse(buy, stop, p))
<1>1. quote.bid \in Nat /\ quote.ask \in Nat
  BY DEF Quotes
<1> QED BY <1>1 DEF QuoteStop, Take, NoWorse, NoPrice, OnQuote

LEMMA TakeIs ==
  ASSUME NEW quote \in Quotes, NEW buy \in BOOLEAN
  PROVE  /\ Take(buy, quote) \in Nat /\ Rest(buy, quote) \in Nat
         /\ OnQuote(quote, Take(buy, quote))
BY DEF Quotes, Take, Rest, OnQuote

LEMMA TrailAfterIs ==
  ASSUME NEW o \in Orders, NEW trail \in Int, NEW price \in Nat
  PROVE  TrailAfter(Terms[o], trail, price) \in Int
<1>1. Terms[o].by \in Nat /\ Terms[o].buy \in BOOLEAN
  BY BacktestAssumption DEF OrderTerms
<1>2. price * Terms[o].by \in Int
  BY <1>1, Products
<1>3. (price * Terms[o].by) \div 100 \in Int
  <2> DEFINE x == price * Terms[o].by
  <2> HIDE DEF x
  <2>1. x \in Int => x \div 100 \in Int
    OBVIOUS
  <2> QED BY <1>2, <2>1 DEF x
<1>4. Trailing(Terms[o], price) \in Int
  <2> DEFINE gap == (price * Terms[o].by) \div 100
  <2>1. gap \in Int
    BY <1>3
  <2>2. Trailing(Terms[o], price) =
          LET g == IF Terms[o].percent THEN gap ELSE Terms[o].by
          IN  IF Terms[o].buy THEN price + g ELSE price - g
    BY DEF Trailing
  <2> HIDE DEF gap
  <2> QED BY <1>1, <2>1, <2>2
<1> QED BY <1>4 DEF TrailAfter

(* What makes the fill of an order fair.                                    *)
Fair(o, p) ==
  LET t == Terms[o]
  IN  /\ p > 0
      /\ Offered(t.asset, p)
      /\ t.type \in {"limit", "stop_limit"} => NoWorse(t.buy, p, t.limit)
      /\ t.type = "stop" => NoWorse(t.buy, t.stop, p)

LEMMA BarVerdictIs ==
  ASSUME NEW o \in Orders, NEW mem \in Memory, NEW bar \in Bars, bar # NoBar, Proper(bar)
  PROVE  LET v == BarVerdict(Terms[o], mem, bar)
             t == Terms[o]
         IN  /\ v.price \in Nat /\ v.mem \in Memory
             /\ v.price # NoPrice =>
                  /\ bar.low <= v.price /\ v.price <= bar.high
                  /\ t.type \in {"limit", "stop_limit"} => NoWorse(t.buy, v.price, t.limit)
                  /\ t.type = "stop" => NoWorse(t.buy, t.stop, v.price)
<1> DEFINE t == Terms[o]
           v == BarVerdict(t, mem, bar)
           stopped == StopOrder(t.stop, t.buy, bar)
           from == IF mem.triggered THEN bar
                   ELSE IF stopped = NoPrice THEN NoBar ELSE [bar EXCEPT !.open = stopped]
           Within(p) == p \in Nat /\ (p # NoPrice => bar.low <= p /\ p <= bar.high)
<1>1. /\ t.type \in {"market", "limit", "stop", "stop_limit", "trail"}
      /\ t.limit \in Nat /\ t.stop \in Int /\ t.buy \in BOOLEAN
  BY BacktestAssumption DEF OrderTerms
<1>2. mem.triggered \in BOOLEAN /\ mem.trail \in Int
  BY DEF Memory
<1>3. /\ bar.open \in Nat /\ bar.high \in Nat /\ bar.low \in Nat
      /\ bar.low <= bar.open /\ bar.open <= bar.high
  BY DEF Bars, Proper
<1>4. \A p \in Nat : Inside(bar, p) => Within(p)
  BY <1>3 DEF Inside
<1> HIDE DEF v, t, stopped
<1>5. stopped \in Nat /\ (stopped # NoPrice => Within(stopped) /\ NoWorse(t.buy, t.stop, stopped))
  BY <1>1, <1>4, StopOrderIs DEF stopped
<1>6. CASE t.type = "market"
  <2>1. v = [price |-> bar.open, mem |-> mem]
    BY <1>6 DEF v, BarVerdict
  <2> QED BY <1>3, <1>6, <2>1 DEF v, t
<1>7. CASE t.type = "limit"
  <2>1. v = [price |-> LimitOrder(t.limit, t.buy, bar), mem |-> mem]
    BY <1>7 DEF v, BarVerdict
  <2>2. v.price = LimitOrder(t.limit, t.buy, bar) /\ v.mem = mem
    BY <2>1
  <2>3. /\ v.price \in Nat
        /\ (v.price # NoPrice => Within(v.price) /\ NoWorse(t.buy, v.price, t.limit))
    BY <1>1, <1>4, <2>2, LimitOrderIs
  <2> QED BY <1>7, <2>2, <2>3 DEF v, t
<1>8. CASE t.type = "stop"
  <2>1. v = [price |-> stopped, mem |-> mem]
    BY <1>8 DEF v, BarVerdict, stopped
  <2>2. v.price = stopped /\ v.mem = mem
    BY <2>1
  <2> QED BY <1>5, <1>8, <2>2 DEF v, t
<1>9. CASE t.type = "stop_limit"
  <2> DEFINE price == IF from = NoBar THEN NoPrice ELSE LimitOrder(t.limit, t.buy, from)
             after == [mem EXCEPT !.triggered = mem.triggered \/ stopped # NoPrice]
  <2>1. v = [price |-> price, mem |-> after]
    BY <1>9 DEF v, BarVerdict, stopped
  <2>2. after \in Memory
    <3>1. (mem.triggered \/ stopped # NoPrice) \in BOOLEAN
      OBVIOUS
    <3> QED BY <3>1 DEF Memory
  <2>3. price \in Nat /\ (price # NoPrice => Within(price) /\ NoWorse(t.buy, price, t.limit))
    <3>1. CASE mem.triggered
      <4>1. from = bar
        BY <3>1
      <4> HIDE DEF from
      <4>2. price = LimitOrder(t.limit, t.buy, bar)
        BY <4>1
      <4> HIDE DEF price
      <4> QED BY <1>1, <1>4, <4>2, LimitOrderIs
    <3>2. CASE ~mem.triggered /\ stopped = NoPrice
      BY <3>2 DEF NoPrice
    <3>3. CASE ~mem.triggered /\ stopped # NoPrice
      <4> DEFINE cut == [bar EXCEPT !.open = stopped]
      <4>1. from = cut
        BY <3>3
      <4>2. cut \in Bars /\ cut.open = stopped /\ cut.low = bar.low /\ cut.high = bar.high
        BY <1>5 DEF Bars
      <4> HIDE DEF cut, from
      <4> DEFINE l == LimitOrder(t.limit, t.buy, cut)
      <4>3. l \in Nat /\ (l # NoPrice => Inside(cut, l) /\ NoWorse(t.buy, l, t.limit))
        BY <1>1, <4>2, LimitOrderIs
      <4>4. price = l \/ price = NoPrice
        BY <4>1
      <4> HIDE DEF price, l
      <4>5. l # NoPrice => Within(l)
        BY <1>5, <3>3, <4>2, <4>3 DEF Inside
      <4> QED BY <4>3, <4>4, <4>5 DEF NoPrice
    <3> QED BY <3>1, <3>2, <3>3
  <2> HIDE DEF price, after
  <2>4. v.price = price /\ v.mem = after
    BY <2>1
  <2> QED BY <1>9, <2>2, <2>3, <2>4 DEF v, t
<1>10. CASE t.type = "trail"
  <2> DEFINE price == StopOrder(mem.trail, t.buy, bar)
             next == TrailAfter(t, mem.trail, IF t.buy THEN bar.low ELSE bar.high)
             after == [mem EXCEPT !.trail = next]
  <2>1. v = [price |-> price, mem |-> after]
    BY <1>10 DEF v, BarVerdict
  <2>2. next \in Int
    BY <1>2, <1>3, TrailAfterIs DEF t
  <2>3. price \in Nat /\ (price # NoPrice => Within(price))
    BY <1>1, <1>2, <1>4, StopOrderIs
  <2> HIDE DEF price, next
  <2>4. after \in Memory
    BY <2>2 DEF Memory
  <2>5. v.price = price /\ v.mem = after
    BY <2>1
  <2> QED BY <1>10, <2>3, <2>4, <2>5 DEF v, t
<1> QED BY <1>1, <1>6, <1>7, <1>8, <1>9, <1>10

LEMMA QuoteVerdictIs ==
  ASSUME NEW o \in Orders, NEW mem \in Memory, NEW quote \in Quotes, NEW maxSpread
  PROVE  LET v == QuoteVerdict(Terms[o], mem, quote, maxSpread)
             t == Terms[o]
         IN  /\ v.price \in Nat /\ v.mem \in Memory
             /\ v.price # NoPrice =>
                  /\ OnQuote(quote, v.price)
                  /\ t.type \in {"limit", "stop_limit"} => NoWorse(t.buy, v.price, t.limit)
                  /\ t.type = "stop" => NoWorse(t.buy, t.stop, v.price)
<1> DEFINE t == Terms[o]
           v == QuoteVerdict(t, mem, quote, maxSpread)
           triggered == mem.triggered \/ QuoteStop(t.stop, t.buy, quote) # NoPrice
           seen == Rest(t.buy, quote)
           trail == TrailAfter(t, mem.trail, seen)
           limited == QuoteLimit(t.limit, t.buy, quote, maxSpread)
<1>1. /\ t.type \in {"market", "limit", "stop", "stop_limit", "trail"}
      /\ t.limit \in Nat /\ t.stop \in Int /\ t.buy \in BOOLEAN
  BY BacktestAssumption DEF OrderTerms
<1>2. mem.triggered \in BOOLEAN /\ mem.trail \in Int
  BY DEF Memory
<1>3. seen \in Nat
  BY <1>1, TakeIs
<1>4. trail \in Int
  BY <1>2, <1>3, TrailAfterIs
<1>5. /\ limited \in Nat
      /\ (limited # NoPrice => OnQuote(quote, limited) /\ NoWorse(t.buy, limited, t.limit))
  BY <1>1, QuoteLimitIs
<1>6. triggered \in BOOLEAN
  BY <1>2
<1> HIDE DEF v, t, triggered, seen, trail, limited
<1>7. CASE t.type = "market"
  <2>1. v = [price |-> Take(t.buy, quote), mem |-> mem]
    BY <1>7 DEF v, QuoteVerdict
  <2>2. v.price = Take(t.buy, quote) /\ v.mem = mem
    BY <2>1
  <2> QED BY <1>1, <1>7, <2>2, TakeIs DEF v, t
<1>8. CASE t.type = "limit"
  <2>1. v = [price |-> limited, mem |-> mem]
    BY <1>8 DEF v, QuoteVerdict, limited
  <2>2. v.price = limited /\ v.mem = mem
    BY <2>1
  <2> QED BY <1>5, <1>8, <2>2 DEF v, t
<1>9. CASE t.type = "stop"
  <2>1. v = [price |-> QuoteStop(t.stop, t.buy, quote), mem |-> mem]
    BY <1>9 DEF v, QuoteVerdict
  <2>2. v.price = QuoteStop(t.stop, t.buy, quote) /\ v.mem = mem
    BY <2>1
  <2>3. /\ v.price \in Nat
        /\ (v.price # NoPrice => OnQuote(quote, v.price) /\ NoWorse(t.buy, t.stop, v.price))
    BY <1>1, <2>2, QuoteStopIs
  <2> QED BY <1>9, <2>2, <2>3 DEF v, t
<1>10. CASE t.type = "stop_limit"
  <2>1. v = [price |-> IF triggered THEN limited ELSE NoPrice,
             mem |-> [mem EXCEPT !.triggered = triggered]]
    BY <1>10 DEF v, QuoteVerdict, limited, triggered
  <2>2. v.mem \in Memory
    BY <1>6, <2>1 DEF Memory
  <2>3. v.price = limited \/ v.price = NoPrice
    BY <2>1
  <2>4. /\ v.price \in Nat
        /\ (v.price # NoPrice => OnQuote(quote, v.price) /\ NoWorse(t.buy, v.price, t.limit))
    BY <1>5, <2>3 DEF NoPrice
  <2> QED BY <1>10, <2>2, <2>4 DEF v, t
<1>11. CASE t.type = "trail"
  <2>1. \/ v = [price |-> NoPrice, mem |-> mem]
        \/ v = [price |-> QuoteStop(trail, t.buy, quote), mem |-> [mem EXCEPT !.trail = trail]]
    BY <1>11 DEF v, QuoteVerdict, seen, trail
  <2>2. v.mem \in Memory
    BY <1>4, <2>1 DEF Memory
  <2>3. v.price = NoPrice \/ v.price = QuoteStop(trail, t.buy, quote)
    BY <2>1
  <2>4. /\ v.price \in Nat
        /\ (v.price # NoPrice => OnQuote(quote, v.price))
    BY <1>1, <1>4, <2>3, QuoteStopIs DEF NoPrice
  <2> QED BY <1>11, <2>2, <2>4 DEF v, t
<1> QED BY <1>1, <1>7, <1>8, <1>9, <1>10, <1>11

(* The verdict on an order: a price that is fair, or none.                  *)
LEMMA VerdictIs ==
  ASSUME feed \in [Assets -> Feed], \A a \in Assets : Proper(feed[a].bar),
         memory \in [Orders -> Memory], NEW o \in Orders, Terms[o].asset \in Assets
  PROVE  /\ Verdict(o).price \in Nat /\ Verdict(o).mem \in Memory
         /\ Verdict(o).price # NoPrice => Fair(o, Verdict(o).price)
<1> DEFINE t == Terms[o]
           a == t.asset
           bar == feed[a].bar
           quote == feed[a].quote
           mem == memory[o]
           limited == QuoteLimit(t.limit, t.buy, quote, MaxSpread)
           crossed == Crossing(t.limit, t.buy, quote)
           asked == CASE t.type = "market" -> Take(t.buy, quote)
                      [] t.type = "limit" /\ TwoSided(quote) -> limited
                      [] t.type = "limit" /\ ~TwoSided(quote) /\ CancelsWithoutBars -> crossed
                      [] OTHER -> NoPrice
           settled == asked # NoPrice \/ (t.type = "limit" /\ TwoSided(quote))
           fromBar == BarVerdict(t, mem, bar)
           fromQuote == QuoteVerdict(t, mem, quote, MaxSpread)
           found == IF settled THEN [price |-> asked, mem |-> mem]
                    ELSE IF bar # NoBar THEN fromBar
                    ELSE IF CancelsWithoutBars THEN fromQuote
                    ELSE [price |-> NoPrice, mem |-> mem]
           v == Verdict(o)
           Good(p) == p # NoPrice => Fair(o, p)
<1>1. /\ t.type \in {"market", "limit", "stop", "stop_limit", "trail"}
      /\ t.limit \in Nat /\ t.buy \in BOOLEAN
  BY BacktestAssumption DEF OrderTerms
<1>2. bar \in Bars /\ quote \in Quotes /\ Proper(bar) /\ mem \in Memory
  <2>1. feed[a] \in Feed
    OBVIOUS
  <2>2. bar \in Bars /\ quote \in Quotes
    BY <2>1 DEF Feed, Bars, Quotes
  <2> QED BY <2>2
<1>3. v.price = found.price /\ v.mem = found.mem
  BY DEF Verdict
<1>4. \A p \in Nat : /\ OnQuote(quote, p) => Offered(a, p)
                     /\ bar.low <= p /\ p <= bar.high => Offered(a, p)
  BY DEF OnQuote, Offered
<1>5. \A p \in Nat : p # NoPrice => p > 0
  BY DEF NoPrice
<1>6. ASSUME settled PROVE asked \in Nat /\ Good(asked)
  <2>1. CASE t.type = "market"
    <3>1. asked = Take(t.buy, quote)
      BY <2>1
    <3> HIDE DEF asked
    <3>2. asked \in Nat /\ Offered(a, asked)
      BY <1>1, <1>2, <1>4, <3>1, TakeIs
    <3> QED BY <1>5, <2>1, <3>2 DEF Fair
  <2>2. CASE t.type = "limit" /\ TwoSided(quote)
    <3>1. asked = limited
      BY <2>2
    <3> HIDE DEF asked
    <3>2. asked \in Nat /\ (asked # NoPrice => OnQuote(quote, asked) /\ NoWorse(t.buy, asked, t.limit))
      <4> HIDE DEF quote, t
      <4> QED BY <1>1, <1>2, <3>1, QuoteLimitIs
    <3>3. asked # NoPrice => Offered(a, asked)
      BY <1>4, <3>2
    <3> QED BY <1>5, <2>2, <3>2, <3>3 DEF Fair
  <2>3. CASE t.type = "limit" /\ ~TwoSided(quote) /\ CancelsWithoutBars
    <3>1. asked = crossed
      BY <2>3
    <3> HIDE DEF asked
    <3>2. asked \in Nat /\ (asked # NoPrice => OnQuote(quote, asked) /\ NoWorse(t.buy, asked, t.limit))
      <4> HIDE DEF quote, t
      <4> QED BY <1>1, <1>2, <3>1, CrossingIs
    <3>3. asked # NoPrice => Offered(a, asked)
      BY <1>4, <3>2
    <3> QED BY <1>5, <2>3, <3>2, <3>3 DEF Fair
  <2> QED BY <1>6, <2>1, <2>2, <2>3
<1>7. ASSUME bar # NoBar PROVE fromBar.price \in Nat /\ fromBar.mem \in Memory /\ Good(fromBar.price)
  <2> DEFINE p == fromBar.price
  <2>1. /\ p \in Nat /\ fromBar.mem \in Memory
        /\ p # NoPrice =>
             /\ bar.low <= p /\ p <= bar.high
             /\ t.type \in {"limit", "stop_limit"} => NoWorse(t.buy, p, t.limit)
             /\ t.type = "stop" => NoWorse(t.buy, t.stop, p)
    BY <1>2, <1>7, BarVerdictIs
  <2> HIDE DEF p, fromBar
  <2>2. p # NoPrice => Offered(a, p)
    BY <1>4, <2>1
  <2>3. Good(p)
    BY <1>5, <2>1, <2>2 DEF Fair
  <2> QED BY <2>1, <2>3 DEF p
<1>8. fromQuote.price \in Nat /\ fromQuote.mem \in Memory /\ Good(fromQuote.price)
  <2> DEFINE p == fromQuote.price
  <2>1. /\ p \in Nat /\ fromQuote.mem \in Memory
        /\ p # NoPrice =>
             /\ OnQuote(quote, p)
             /\ t.type \in {"limit", "stop_limit"} => NoWorse(t.buy, p, t.limit)
             /\ t.type = "stop" => NoWorse(t.buy, t.stop, p)
    BY <1>2, QuoteVerdictIs
  <2> HIDE DEF p, fromQuote
  <2>2. p # NoPrice => Offered(a, p)
    BY <1>4, <2>1
  <2>3. Good(p)
    BY <1>5, <2>1, <2>2 DEF Fair
  <2> QED BY <2>1, <2>3 DEF p
<1> HIDE DEF settled, asked, fromBar, fromQuote, v, Good
<1>9. found.price \in Nat /\ found.mem \in Memory /\ Good(found.price)
  <2>1. Good(NoPrice) /\ NoPrice \in Nat
    BY DEF Good, NoPrice
  <2>2. CASE settled
    BY <1>2, <1>6, <2>2
  <2>3. CASE ~settled /\ bar # NoBar
    BY <1>7, <2>3
  <2>4. CASE ~settled /\ bar = NoBar
    BY <1>2, <1>8, <2>1, <2>4
  <2> QED BY <2>2, <2>3, <2>4
<1> QED BY <1>3, <1>9 DEF v, Good
-----------------------------------------------------------------------------
(* The inductive invariant.                                                 *)
BooksFit == book \in Sound /\ Agrees(book) /\ Balances(book)
OrdersFit == Fit(book, Submitted) /\ TodoFits(book, todo, Submitted)
FeedFits == \A a \in Assets : Proper(feed[a].bar)
Inv == TypeOK /\ BooksFit /\ OrdersFit /\ FeedFits

(* The order o, which trades on its own account, is filled.                 *)
Trades(o, price) ==
  /\ o \in Plain /\ o \in Family(Submitted) /\ Open(book, o) /\ o \in ToSet(book.new)
  /\ Terms[o].asset \in Assets /\ price \in Nat /\ Fair(o, price)
  /\ book' = ExecuteFilledOrder(book, o, price)

LEMMA SubmittedAre == Submitted \in SUBSET Roots
BY DEF Submitted

LEMMA TodoIs ==
  ASSUME Inv, todo # <<>>
  PROVE  /\ Head(todo) \in Orders /\ Head(todo) \in Family(Submitted)
         /\ Terms[Head(todo)].class # "oco"
         /\ Head(todo) \in Plain /\ Active(book, Head(todo)) =>
              Open(book, Head(todo)) /\ Head(todo) \in ToSet(book.new)
         /\ Tail(todo) \in Seq(Orders)
         /\ IsInjective(Tail(todo)) /\ ToSet(Tail(todo)) \subseteq ToSet(todo) \ {Head(todo)}
<1> DEFINE s == todo
           o == Head(s)
           t == Tail(s)
<1>1. s \in Seq(Orders) /\ IsInjective(s) /\ s # <<>>
  BY DEF Inv, TypeOK, OrdersFit, TodoFits
<1>2. /\ Len(s) \in Nat /\ Len(s) > 0 /\ DOMAIN s = 1 .. Len(s) /\ o = s[1] /\ o \in Orders
      /\ t \in Seq(Orders) /\ DOMAIN t = 1 .. Len(s) - 1
      /\ \A i \in 1 .. Len(s) - 1 : t[i] = s[i + 1]
  BY <1>1
<1>3. o \in ToSet(s)
  <2>1. 1 \in DOMAIN s
    BY <1>2
  <2> QED BY <1>2, <2>1 DEF ToSet
<1> HIDE DEF s, t, o
<1>4. \A i \in DOMAIN t : i + 1 \in DOMAIN s /\ i + 1 # 1 /\ t[i] = s[i + 1]
  BY <1>2
<1>5. IsInjective(t)
  <2>1. \A i, j \in DOMAIN t : i + 1 = j + 1 => i = j
    BY <1>2
  <2> QED BY <1>1, <1>4, <2>1 DEF IsInjective
<1>6. \A i \in DOMAIN t : t[i] \in ToSet(s) /\ t[i] # o
  <2>1. 1 \in DOMAIN s /\ \A i, j \in DOMAIN s : s[i] = s[j] => i = j
    BY <1>1, <1>2 DEF IsInjective
  <2>2. \A i \in DOMAIN s : s[i] \in ToSet(s)
    BY DEF ToSet
  <2> QED BY <1>2, <1>4, <2>1, <2>2
<1>7. ToSet(t) \subseteq ToSet(s) \ {o}
  BY <1>6 DEF ToSet
<1>8. /\ o \in Family(Submitted) /\ Terms[o].class # "oco"
      /\ o \in Plain => /\ book.status[o] # "filled"
                        /\ Open(book, o) => o \in ToSet(book.new)
  BY <1>3 DEF s, Inv, OrdersFit, TodoFits
<1>9. o \in Plain /\ Active(book, o) => Open(book, o)
  <2> SUFFICES ASSUME o \in Plain, NEW k \in Kids[o], Open(book, k), ~Open(book, o) PROVE FALSE
    BY DEF Active
  <2>1. book \in Book
    BY DEF Inv, TypeOK
  <2>2. book.status[o] = "canceled"
    <3>1. book.status[o] \in Statuses
      BY <1>2, <2>1, BookFields
    <3> QED BY <1>8, <3>1 DEF Open, Statuses
  <2>3. Waits(o)
    <3>1. ~HoldsLegs(o) /\ Terms[o].class # "simple"
      BY <1>2, Kinds, TermFacts
    <3> QED BY <1>2, <3>1, TermFacts DEF HoldsLegs, Waits
  <2> QED BY <1>2, <2>2, <2>3 DEF Inv, OrdersFit, Fit, ExitsFit
<1> QED BY <1>2, <1>5, <1>7, <1>8, <1>9 DEF s, t, o

(* A step of the pass fills at most one order that trades on its own        *)
(* account.                                                                 *)
LEMMA ProcessIs ==
  ASSUME Inv, ProcessOrder
  PROVE  \/ Quiet(book, book', Submitted)
         \/ \E p \in Nat : Trades(Head(todo), p)
<1> DEFINE o == Head(todo)
           R == Submitted
<1>1. todo # <<>>
  BY DEF ProcessOrder
<1>2. /\ o \in Orders /\ o \in Family(R) /\ Terms[o].class # "oco"
      /\ o \in Plain /\ Active(book, o) => Open(book, o) /\ o \in ToSet(book.new)
  BY <1>1, TodoIs
<1>3. /\ book \in Sound /\ Agrees(book) /\ Balances(book) /\ Fit(book, R)
      /\ skipped \in Int
      /\ feed \in [Assets -> Feed] /\ memory \in [Orders -> Memory] /\ R \in SUBSET Roots
  BY SubmittedAre DEF Inv, TypeOK, BooksFit, OrdersFit
<1>4. Quiet(book, book, R)
  BY <1>3, DropsMore DEF Quiet
<1> HIDE DEF o, R
<1>5. CASE ~Active(book, o) \/ o \in Managed
  BY <1>4, <1>5 DEF ProcessOrder, o, R
<1>6. CASE Active(book, o) /\ o \notin Managed
  <2>1. CASE Terms[o].class = "package"
    <3> DEFINE legs == Terms[o].kids
    <3>1. Package(o)
      BY <1>6, <2>1 DEF ProcessOrder, o
    <3>2. PICK quoted : \/ book' = CancelOrder(book, o)
                        \/ book' = Closed(FillLegs(book, legs, quoted), o)
                        \/ book' = FillLegs(book, legs, quoted)
      BY <3>1 DEF Package
    <3> DEFINE filled == FillLegs(book, legs, quoted)
    <3>3. book' = CancelOrder(book, o) \/ book' = Closed(filled, o) \/ book' = filled
      BY <3>2
    <3>4. HoldsLegs(o) /\ o \notin Plain
      BY <1>2, <2>1, Kinds DEF HoldsLegs
    <3>5. LegsTrade(legs) /\ \A n \in 1 .. Len(legs) : legs[n] \in Family(R) /\ legs[n] \in Managed
      <4>1. legs \in Seq(Orders) /\ ToSet(legs) = Kids[o] /\ Kids[o] \subseteq Family(R)
        BY <1>2, <1>3, TermFacts, Families
      <4>2. \A n \in 1 .. Len(legs) : legs[n] \in Kids[o] /\ legs[n] \in Orders
        <5>1. DOMAIN legs = 1 .. Len(legs) /\ \A n \in 1 .. Len(legs) : legs[n] \in Orders
          BY <4>1
        <5>2. \A n \in DOMAIN legs : legs[n] \in ToSet(legs)
          BY DEF ToSet
        <5> QED BY <4>1, <5>1, <5>2
      <4>3. \A k \in Kids[o] : k \in Managed
        BY <1>2, <2>1, TermFacts, Kinds
      <4>4. \A k \in Kids[o] : Terms[k].asset \in Assets
        BY <1>2, TermFacts
      <4> QED BY <4>1, <4>2, <4>3, <4>4 DEF LegsTrade
    <3> HIDE DEF legs, filled
    <3>6. Quiet(book, filled, R)
      BY <1>3, <3>5, FillLegsFit DEF filled
    <3>7. Quiet(filled, Closed(filled, o), R)
      BY <1>2, <1>3, <3>4, <3>6, CloseFits DEF Quiet
    <3>8. Quiet(book, Closed(filled, o), R)
      BY <3>6, <3>7, QuietMore
    <3>9. Quiet(book, CancelOrder(book, o), R)
      BY <1>2, <1>3, <3>4, CancelOrderFits
    <3> QED BY <3>3, <3>6, <3>8, <3>9 DEF R
  <2>2. CASE Terms[o].class = "multileg"
    <3>1. Holder(o)
      BY <1>6, <2>2 DEF ProcessOrder, o
    <3>2. book' = Closed(book, o) \/ book' = book
      BY <3>1 DEF Holder
    <3>3. Quiet(book, Closed(book, o), R)
      BY <1>2, <1>3, <2>2, CloseFits DEF HoldsLegs
    <3> QED BY <1>4, <3>2, <3>3 DEF R
  <2>3. CASE Terms[o].class \notin {"package", "multileg"}
    <3>1. Single(o)
      BY <1>6, <2>3 DEF ProcessOrder, o
    <3>2. ~HoldsLegs(o) /\ o \in Plain
      BY <1>2, <1>6, <2>3 DEF HoldsLegs, Plain, Traders
    <3>3. Terms[o].asset \in Assets
      BY <1>2, <3>2, TermFacts
    <3>4. Open(book, o) /\ o \in ToSet(book.new)
      BY <1>2, <1>6, <3>2
    <3> DEFINE p == Verdict(o).price
    <3>5. p \in Nat /\ (p # NoPrice => Fair(o, p))
      BY <1>2, <1>3, <3>3, VerdictIs DEF Inv, FeedFits
    <3>6. \/ p # NoPrice /\ book' = ExecuteFilledOrder(book, o, p)
          \/ book' = CancelOrder(book, o)
          \/ book' = book
      BY <3>1 DEF Single
    <3> HIDE DEF p
    <3>7. Quiet(book, CancelOrder(book, o), R)
      BY <1>2, <1>3, <3>4, CancelOrderFits DEF Open
    <3>8. CASE p # NoPrice /\ book' = ExecuteFilledOrder(book, o, p)
      <4>1. Trades(o, p)
        BY <1>2, <3>2, <3>3, <3>4, <3>5, <3>8 DEF Trades, R
      <4> QED BY <3>5, <4>1 DEF o
    <3> QED BY <1>4, <3>6, <3>7, <3>8 DEF R
  <2> QED BY <2>1, <2>2, <2>3
<1> QED BY <1>5, <1>6

(* What an order submitted brings along.                                    *)
Bundle(o) == {o} \cup (IF HoldsLegs(o) THEN Kids[o] ELSE {})

LEMMA SubmitIs ==
  ASSUME Inv, NEW o \in Roots, Submit(o)
  PROVE  /\ book' \in Book /\ SameMoney(book, book')
         /\ \A x \in Orders : book'.status[x] = IF x \in Bundle(o) THEN "new" ELSE book.status[x]
         /\ ToSet(book'.new) = ToSet(book.new) \cup (Bundle(o) \ {x \in {o} : Terms[o].class = "oco"})
         /\ IsInjective(book'.new)
         /\ book'.placeholders = book.placeholders \cup {x \in {o} : Terms[o].class = "oco"}
         /\ Bundle(o) \cap Family(Submitted) = {} /\ Bundle(o) \subseteq Orders
         /\ Submitted' = Submitted \cup {o}
<1> DEFINE legs == IF HoldsLegs(o) THEN Terms[o].kids ELSE <<>>
           kids == IF HoldsLegs(o) THEN Kids[o] ELSE {}
           R == Submitted
<1>1. /\ book \in Book /\ Fit(book, R) /\ R \in SUBSET Roots
      /\ born \in [Orders -> 0 .. Never] /\ clock \in 0 .. LastPeriod /\ LastPeriod \in Nat
  BY SubmittedAre, BacktestAssumption DEF Inv, TypeOK, OrdersFit
<1>2. o \in Orders /\ Roots \subseteq Orders
  BY DEF Roots
<1>3. legs \in Seq(Orders) /\ IsInjective(legs) /\ ToSet(legs) = kids
  <2>1. CASE HoldsLegs(o)
    BY <1>2, <2>1, TermFacts
  <2>2. CASE ~HoldsLegs(o)
    <3>1. <<>> \in Seq(Orders) /\ IsInjective(<<>>) /\ ToSet(<<>>) = {}
      BY DEF IsInjective, ToSet
    <3> QED BY <2>2, <3>1
  <2> QED BY <2>1, <2>2
<1>4. Bundle(o) = {o} \cup kids /\ kids \subseteq Kids[o] /\ kids \subseteq Orders
  BY <1>2, TermFacts DEF Bundle
<1>5. /\ born[o] = Never /\ born' = [born EXCEPT ![o] = clock]
      /\ book' = IF Terms[o].class = "oco"
                 THEN [Listed(book, legs) EXCEPT !.status[o] = "new",
                                                 !.placeholders = @ \cup {o}]
                 ELSE Listed(book, Append(legs, o))
  BY DEF Submit
<1> HIDE DEF legs, kids
<1>6. o \notin Family(R) /\ o \notin kids
  <2>1. o \notin R
    BY <1>5 DEF R, Submitted
  <2>2. \A r \in Orders : o \notin Kids[r]
    BY <1>1, Families
  <2> QED BY <1>1, <1>2, <1>4, <2>1, <2>2 DEF Family
<1>7. kids \cap Family(R) = {}
  <2>1. o \notin R
    BY <1>6 DEF Family
  <2>2. \A k \in Kids[o] : k \in Family(R) => o \in R
    BY <1>1, <1>2, Families
  <2> QED BY <1>4, <2>1, <2>2
<1>8. Submitted' = R \cup {o}
  <2>1. Never = LastPeriod + 1 /\ clock # Never
    BY <1>1 DEF Never
  <2>2. \A x \in Orders : born'[x] = IF x = o THEN clock ELSE born[x]
    BY <1>1, <1>5
  <2> QED BY <1>2, <2>1, <2>2 DEF Submitted, R
<1>9. Bundle(o) \cap ToSet(book.new) = {}
  <2>1. \A x \in Orders \ Family(R) : x \notin ToSet(book.new)
    BY <1>1 DEF Fit, OthersUntouched
  <2> QED BY <1>2, <1>4, <1>6, <1>7, <2>1
<1>10. IsInjective(book.new)
  BY <1>1 DEF Fit, NewFits
<1>11. CASE Terms[o].class = "oco"
  <2> DEFINE l == Listed(book, legs)
  <2>1. /\ l \in Book /\ SameMoney(book, l) /\ l.placeholders = book.placeholders
        /\ \A x \in Orders : l.status[x] = IF x \in kids THEN "new" ELSE book.status[x]
        /\ ToSet(l.new) = ToSet(book.new) \cup kids /\ IsInjective(l.new)
    BY <1>1, <1>3, <1>4, <1>9, <1>10, ListedIs
  <2>2. book' = [l EXCEPT !.status[o] = "new", !.placeholders = @ \cup {o}]
    BY <1>5, <1>11
  <2> HIDE DEF l
  <2>3. l.status \in [Orders -> Statuses] /\ l.placeholders \in SUBSET Orders
    BY <2>1, BookFields
  <2> DEFINE status == [l.status EXCEPT ![o] = "new"]
             placeholders == l.placeholders \cup {o}
  <2>4. status \in [Orders -> Statuses] /\ placeholders \in SUBSET Orders
        /\ \A x \in Orders : status[x] = IF x = o THEN "new" ELSE l.status[x]
    BY <1>2, <2>3 DEF Statuses
  <2>5. book' = [l EXCEPT !.status = status, !.placeholders = placeholders]
    BY <2>2
  <2> HIDE DEF status, placeholders
  <2>6. /\ book' \in Book /\ SameMoney(l, book') /\ book'.new = l.new /\ book'.status = status
        /\ book'.placeholders = placeholders
    BY <2>1, <2>4, <2>5 DEF Book, SameMoney
  <2>7. SameMoney(book, book')
    BY <2>1, <2>6 DEF SameMoney
  <2>8. \A x \in Orders : book'.status[x] = IF x \in Bundle(o) THEN "new" ELSE book.status[x]
    BY <1>4, <2>1, <2>4, <2>6
  <2>9. {x \in {o} : Terms[o].class = "oco"} = {o}
    BY <1>11
  <2>10. ToSet(book'.new) = ToSet(book.new) \cup (Bundle(o) \ {o})
    BY <1>4, <1>6, <2>1, <2>6
  <2>11. book'.placeholders = book.placeholders \cup {o} /\ IsInjective(book'.new)
    BY <2>1, <2>6 DEF placeholders
  <2> QED BY <1>2, <1>4, <1>6, <1>7, <1>8, <2>6, <2>7, <2>8, <2>9, <2>10, <2>11 DEF R
<1>12. CASE Terms[o].class # "oco"
  <2> DEFINE l == Append(legs, o)
  <2>1. l \in Seq(Orders) /\ ToSet(l) = Bundle(o) /\ IsInjective(l)
    BY <1>2, <1>3, <1>4, <1>6, Appended
  <2> HIDE DEF l
  <2>2. book' = Listed(book, l)
    BY <1>5, <1>12 DEF l
  <2>3. /\ book' \in Book /\ SameMoney(book, book') /\ book'.placeholders = book.placeholders
        /\ \A x \in Orders : book'.status[x] = IF x \in Bundle(o) THEN "new" ELSE book.status[x]
        /\ ToSet(book'.new) = ToSet(book.new) \cup Bundle(o) /\ IsInjective(book'.new)
    BY <1>1, <1>9, <1>10, <2>1, <2>2, ListedIs
  <2>4. {x \in {o} : Terms[o].class = "oco"} = {}
    BY <1>12
  <2> QED BY <1>2, <1>4, <1>6, <1>7, <1>8, <2>3, <2>4 DEF R
<1> QED BY <1>11, <1>12

LEMMA SubmitFits ==
  ASSUME Inv, NEW o \in Roots, Submit(o)
  PROVE  Fit(book', Submitted')
<1> DEFINE b == book
           c == book'
           R == Submitted
           T == Bundle(o)
           P == {x \in {o} : Terms[o].class = "oco"}
<1>1. /\ c \in Book
      /\ \A x \in Orders : c.status[x] = IF x \in T THEN "new" ELSE b.status[x]
      /\ ToSet(c.new) = ToSet(b.new) \cup (T \ P)
      /\ IsInjective(c.new)
      /\ c.placeholders = b.placeholders \cup P
      /\ T \cap Family(R) = {} /\ T \subseteq Orders
      /\ Submitted' = R \cup {o}
  BY SubmitIs
<1>2. b \in Book /\ Fit(b, R) /\ R \in SUBSET Roots
  BY SubmittedAre DEF Inv, TypeOK, OrdersFit
<1>3. o \in Orders /\ \A p \in Orders : o \notin Kids[p]
  BY <1>2, Families DEF Roots
<1>4. \A x \in T : x \in Orders /\ b.status[x] = "unprocessed" /\ x \notin ToSet(b.new)
  BY <1>1, <1>2 DEF Fit, OthersUntouched
<1>5. ToSet(b.new) \subseteq Orders
  BY <1>2, BookFields DEF ToSet
<1>6. \A x \in T : x = o \/ (x \in Kids[o] /\ HoldsLegs(o))
  BY DEF Bundle
<1>7. P \subseteq {o} /\ o \in T /\ (o \in P <=> Terms[o].class = "oco")
  BY DEF Bundle
<1> HIDE DEF c, b, R, T, P
<1>8. OthersUntouched(c, R \cup {o})
  <2>1. \A x \in Orders \ Family(R \cup {o}) : x \notin Family(R) /\ x \notin T
    <3>1. Family(R) \subseteq Family(R \cup {o}) /\ o \in Family(R \cup {o})
          /\ Kids[o] \subseteq Family(R \cup {o})
      BY DEF Family
    <3> QED BY <1>6, <3>1
  <2>2. \A x \in Orders \ Family(R) : /\ b.status[x] = "unprocessed"
                                      /\ x \notin ToSet(b.new) /\ x \notin b.placeholders
    BY <1>2 DEF Fit, OthersUntouched
  <2>3. \A x \in Orders \ Family(R \cup {o}) : x # o
    BY <1>7, <2>1
  <2> QED BY <1>1, <1>7, <2>1, <2>2, <2>3 DEF OthersUntouched
<1>9. NewFits(c) /\ PlaceholdersFit(c)
  <2>1. \A x \in T \ P : Terms[x].class # "oco"
    BY <1>3, <1>6, <1>7, TermFacts
  <2>2. \A x \in P : Terms[x].class = "oco"
    BY <1>7
  <2>3. \A x \in ToSet(c.new) : Terms[x].class # "oco" /\ c.status[x] # "filled"
    <3>1. \A x \in ToSet(b.new) : Terms[x].class # "oco" /\ b.status[x] # "filled"
      BY <1>2 DEF Fit, NewFits
    <3> QED BY <1>1, <1>5, <2>1, <3>1
  <2> QED BY <1>1, <1>2, <2>2, <2>3 DEF Fit, NewFits, PlaceholdersFit
<1>10. ExitsFit(c)
  <2> SUFFICES ASSUME NEW p \in Orders, Waits(p), NEW k \in Kids[p]
               PROVE  /\ k \in ToSet(c.new) \/ c.status[k] = "filled" => c.status[p] = "filled"
                      /\ c.status[p] = "canceled" => ~Open(c, k)
    BY DEF ExitsFit
  <2>1. /\ k \in ToSet(b.new) \/ b.status[k] = "filled" => b.status[p] = "filled"
        /\ b.status[p] = "canceled" => ~Open(b, k)
    BY <1>2 DEF Fit, ExitsFit
  <2>2. k \in Orders
    BY TermFacts
  <2>3. k \notin T
    <3>1. k # o
      BY <1>3
    <3>2. ~(k \in Kids[o] /\ HoldsLegs(o))
      BY <1>3, TermFacts, Kinds
    <3> QED BY <1>6, <3>1, <3>2
  <2>4. b.status[p] = "filled" => c.status[p] = "filled"
    BY <1>1, <1>4
  <2>5. c.status[p] = "canceled" => b.status[p] = "canceled"
    BY <1>1
  <2>6. c.status[k] = b.status[k] /\ (k \in ToSet(c.new) => k \in ToSet(b.new))
    BY <1>1, <2>2, <2>3
  <2> QED BY <2>1, <2>4, <2>5, <2>6 DEF Open
<1>11. PartnersFit(c)
  <2> SUFFICES ASSUME NEW x \in Plain, c.status[x] = "filled", Terms[x].partner # NoOrder
               PROVE  c.status[Terms[x].partner] = "canceled"
    BY DEF PartnersFit
  <2>1. x \in Orders /\ Terms[x].partner \in Orders
    BY PartnerFacts DEF Plain, Traders
  <2>2. b.status[x] = "filled"
    BY <1>1, <2>1
  <2>3. b.status[Terms[x].partner] = "canceled"
    BY <1>2, <2>2 DEF Fit, PartnersFit
  <2> QED BY <1>1, <1>4, <2>1, <2>3
<1>12. RootsFit(c, R \cup {o})
  <2> SUFFICES ASSUME NEW r \in R \cup {o}, r \in Plain, Open(c, r) PROVE r \in ToSet(c.new)
    BY DEF RootsFit
  <2>1. r \in Orders /\ ~HoldsLegs(r)
    BY DEF Plain, Traders
  <2>2. CASE r = o
    BY <1>1, <1>7, <2>1, <2>2 DEF HoldsLegs
  <2>3. CASE r # o
    <3>1. r \in R /\ r \notin T
      BY <1>1, <2>3 DEF Family
    <3>2. Open(b, r)
      BY <1>1, <2>1, <3>1 DEF Open
    <3>3. r \in ToSet(b.new)
      BY <1>2, <3>1, <3>2 DEF Fit, RootsFit
    <3> QED BY <1>1, <3>3
  <2> QED BY <2>2, <2>3
<1>13. Fit(c, R \cup {o})
  BY <1>8, <1>9, <1>10, <1>11, <1>12 DEF Fit
<1> QED BY <1>1, <1>13 DEF c, R

(* The rest of the pass.                                                    *)
LEMMA TodoKeeps ==
  ASSUME Inv, todo # <<>>, NEW c,
         Drops(book, c) \/ (Head(todo) \in Plain /\ Fills1(book, c, Head(todo)))
  PROVE  TodoFits(c, Tail(todo), Submitted)
<1> DEFINE o == Head(todo)
           t == Tail(todo)
<1>1. IsInjective(t) /\ ToSet(t) \subseteq ToSet(todo) \ {o}
  BY TodoIs
<1>2. \A x \in ToSet(todo) :
        /\ x \in Family(Submitted) /\ Terms[x].class # "oco"
        /\ x \in Plain => /\ book.status[x] # "filled"
                          /\ Open(book, x) => x \in ToSet(book.new)
  BY DEF Inv, OrdersFit, TodoFits
<1> HIDE DEF o, t
<1>3. ASSUME NEW x \in ToSet(t), x \in Plain
      PROVE  c.status[x] # "filled" /\ (Open(c, x) => x \in ToSet(c.new))
  <2>1. x \in ToSet(todo) /\ x # o
    BY <1>1
  <2>2. /\ c.status[x] = book.status[x] \/ (Open(book, x) /\ c.status[x] = "canceled")
        /\ Open(c, x) /\ x \in ToSet(book.new) => x \in ToSet(c.new)
    <3>1. CASE Drops(book, c)
      BY <1>3, <3>1 DEF Drops
    <3>2. CASE o \in Plain /\ Fills1(book, c, o)
      BY <1>3, <2>1, <3>2 DEF Fills1
    <3> QED BY <3>1, <3>2 DEF o
  <2>3. Open(c, x) => Open(book, x)
    BY <2>2 DEF Open
  <2> QED BY <1>2, <1>3, <2>1, <2>2, <2>3
<1> QED BY <1>1, <1>2, <1>3 DEF TodoFits, t

LEMMA SubmitKeeps ==
  ASSUME Inv, NEW o \in Roots, Submit(o)
  PROVE  Inv'
<1>1. /\ book' \in Book /\ SameMoney(book, book') /\ Submitted' = Submitted \cup {o}
  BY SubmitIs
<1>2. /\ born' = [born EXCEPT ![o] = clock] /\ todo = <<>>
      /\ UNCHANGED <<memory, clock, feed, todo, first, skipped>>
  BY DEF Submit
<1>3. TypeOK' /\ FeedFits'
  <2>1. LastPeriod \in Nat
    BY BacktestAssumption
  <2>2. clock \in 0 .. Never /\ born \in [Orders -> 0 .. Never]
    BY <2>1 DEF Inv, TypeOK, Never
  <2>3. born' \in [Orders -> 0 .. Never]
    BY <1>2, <2>2
  <2> QED BY <1>1, <1>2, <2>3 DEF Inv, TypeOK, FeedFits, Never
<1>4. BooksFit'
  <2> DEFINE b == book
             c == book'
  <2>2. b \in Sound /\ Agrees(b) /\ Balances(b)
    BY DEF Inv, BooksFit
  <2>3. c.position = b.position /\ c.lots = b.lots /\ c.cash = b.cash
        /\ c.owed = b.owed /\ c.transactions = b.transactions /\ c \in Book
    BY <1>1 DEF SameMoney
  <2> HIDE DEF b, c
  <2>4. c \in Sound /\ Agrees(c)
    BY <2>2, <2>3 DEF Sound, Agrees, Count
  <2>5. Earned(c) = Earned(b) /\ Held(c) = Held(b)
    BY <2>3 DEF Earned, Held
  <2>6. Balances(c)
    BY <2>2, <2>3, <2>5 DEF Balances
  <2> QED BY <1>2, <2>4, <2>6, BalanceStays DEF BooksFit, Agrees, Count, c
<1>5. OrdersFit'
  <2>1. Fit(book', Submitted')
    BY SubmitFits
  <2>2. TodoFits(book', <<>>, Submitted')
    <3>1. IsInjective(<<>>) /\ ToSet(<<>>) = {}
      BY DEF IsInjective, ToSet
    <3> QED BY <3>1 DEF TodoFits
  <2>3. todo' = <<>>
    BY <1>2
  <2> QED BY <2>1, <2>2, <2>3 DEF OrdersFit
<1> QED BY <1>3, <1>4, <1>5 DEF Inv

LEMMA CancelIs ==
  ASSUME Inv, NEW o \in Orders, Cancel(o)
  PROVE  Quiet(book, book', Submitted)
<1>1. /\ Open(book, o) /\ book' = CancelOrder(book, o)
      /\ \E r \in Submitted : o = r \/ o \in Kids[r]
  BY DEF Cancel
<1>2. o \in Family(Submitted) /\ book.status[o] # "filled"
  BY <1>1 DEF Family, Open
<1> QED BY <1>1, <1>2, CancelOrderFits, SubmittedAre DEF Inv, BooksFit, OrdersFit

LEMMA CancelKeeps ==
  ASSUME Inv, NEW o \in Orders, Cancel(o)
  PROVE  Inv'
<1>1. todo = <<>> /\ UNCHANGED <<memory, born, clock, feed, todo, first, skipped>>
  BY DEF Cancel
<1>2. Quiet(book, book', Submitted)
  BY CancelIs
<1>3. Submitted' = Submitted
  BY <1>1 DEF Submitted
<1>4. BooksFit' /\ Fit(book', Submitted)
  BY <1>1, <1>2, BalanceStays DEF Quiet, BooksFit
<1>5. TodoFits(book', <<>>, Submitted)
  <2>1. IsInjective(<<>>) /\ ToSet(<<>>) = {}
    BY DEF IsInjective, ToSet
  <2> QED BY <2>1 DEF TodoFits
<1>6. OrdersFit'
  BY <1>1, <1>3, <1>4, <1>5 DEF OrdersFit
<1>7. book' \in Book
  BY <1>4 DEF BooksFit, Sound
<1>8. TypeOK' /\ FeedFits'
  BY <1>1, <1>7 DEF Inv, TypeOK, FeedFits, Never
<1> QED BY <1>4, <1>6, <1>8 DEF Inv

LEMMA StartPassKeeps ==
  ASSUME Inv, StartPass
  PROVE  Inv'
<1>1. /\ clock < LastPeriod /\ clock' = clock + 1 /\ feed' \in Periods
      /\ todo' = book.new /\ UNCHANGED <<book, memory, born, first, skipped>>
  BY DEF StartPass
<1>2. Submitted' = Submitted /\ BooksFit'
  BY <1>1, BalanceStays DEF Submitted, Inv, BooksFit
<1>3. TypeOK'
  <2>1. feed' \in [Assets -> Feed] /\ LastPeriod \in Nat
    BY <1>1, BacktestAssumption
  <2>2. clock' \in 0 .. LastPeriod
    BY <1>1, <2>1 DEF Inv, TypeOK
  <2>3. book \in Book /\ todo' \in Seq(Orders)
    BY <1>1, BookFields DEF Inv, TypeOK
  <2> QED BY <1>1, <2>1, <2>2, <2>3 DEF Inv, TypeOK, Never
<1>4. FeedFits'
  <2>1. \A a \in Assets : Proper(feed'[a].bar)
    BY <1>1, BacktestAssumption
  <2> QED BY <2>1 DEF FeedFits
<1>5. TodoFits(book, book.new, Submitted)
  <2>1. Fit(book, Submitted) /\ book \in Book
    BY DEF Inv, TypeOK, OrdersFit
  <2>2. IsInjective(book.new)
    BY <2>1 DEF Fit, NewFits
  <2>3. ASSUME NEW x \in ToSet(book.new)
        PROVE  x \in Family(Submitted) /\ Terms[x].class # "oco" /\ book.status[x] # "filled"
    <3>1. x \in Orders
      BY <2>1, BookFields DEF ToSet
    <3> QED BY <2>1, <3>1 DEF Fit, NewFits, OthersUntouched
  <2> QED BY <2>2, <2>3 DEF TodoFits
<1>6. OrdersFit'
  BY <1>1, <1>2, <1>5 DEF Inv, OrdersFit
<1> QED BY <1>2, <1>3, <1>4, <1>6 DEF Inv

LEMMA BookCashKeeps ==
  ASSUME Inv, BookCash
  PROVE  Inv' /\ SameOrders(book, book') /\ book'.transactions = book.transactions
<1> DEFINE b == book
           c == book'
           cash == b.cash
           owed == b.owed
           sum == IF first THEN cash ELSE cash + owed
<1>0. /\ c = [b EXCEPT !.cash = sum, !.owed = 0]
      /\ skipped' = IF first THEN skipped + owed ELSE skipped
  BY DEF BookCash
<1>1. UNCHANGED <<memory, born, clock, feed, todo, first>>
  BY DEF BookCash
<1>2. b \in Book /\ cash \in Int /\ owed \in Int /\ skipped \in Int /\ Budget \in Int
  BY BookFields, BacktestAssumption DEF Inv, TypeOK
<1>3. b \in Sound /\ Agrees(b) /\ Balances(b)
  BY DEF Inv, BooksFit
<1> HIDE DEF b, c, cash, owed
<1>4. /\ sum \in Int /\ skipped' \in Int
      /\ sum + 0 = (cash + owed) - (skipped' - skipped)
  BY <1>0, <1>2
<1> HIDE DEF sum
<1>5. /\ c \in Book /\ SameOrders(b, c) /\ c.position = b.position /\ c.lots = b.lots
      /\ c.transactions = b.transactions /\ c.cash = sum /\ c.owed = 0
  <2>1. 0 \in Int /\ b \in Book /\ sum \in Int
    BY <1>2, <1>4
  <2> QED BY <1>0, <2>1 DEF Book, SameOrders
<1>6. c \in Sound /\ Agrees(c)
  BY <1>3, <1>5 DEF Sound, Agrees, Count
<1>7. Earned(c) = Earned(b) /\ Held(c) = Held(b)
  BY <1>5 DEF Earned, Held
<1>8. Balances(book)'
  <2> DEFINE e == SumFunction(Earned(b))
             h == SumFunction(Held(b))
  <2>1. e \in Int /\ h \in Int
    BY <1>2, SumsOfBook
  <2>2. cash + owed = ((Budget - skipped) + e) + h
    BY <1>3 DEF Balances, Means, cash, owed
  <2>3. Balances(book)' <=> c.cash + c.owed = ((Budget - skipped') + e) + h
    BY <1>7 DEF Balances, Means, c
  <2> HIDE DEF e, h
  <2>4. sum + 0 = ((Budget - skipped') + e) + h
    BY <1>2, <1>4, <2>1, <2>2
  <2> QED BY <1>5, <2>3, <2>4
<1>9. Submitted' = Submitted /\ Fit(c, Submitted) /\ \A x \in Orders : Open(c, x) <=> Open(b, x)
  BY <1>1, <1>5, FitSame DEF Submitted, Inv, OrdersFit, b
<1>10. TodoFits(c, todo, Submitted)
  <2>1. c.status = b.status /\ c.new = b.new
    BY <1>5 DEF SameOrders
  <2>2. \A x : Open(c, x) <=> Open(b, x)
    BY <2>1 DEF Open
  <2> QED BY <2>1, <2>2 DEF Inv, OrdersFit, TodoFits, b
<1>11. OrdersFit' /\ BooksFit'
  BY <1>1, <1>6, <1>8, <1>9, <1>10 DEF OrdersFit, BooksFit, Agrees, Count, c
<1>12. TypeOK' /\ FeedFits'
  BY <1>1, <1>4, <1>5 DEF Inv, TypeOK, FeedFits, Never, c
<1> QED BY <1>5, <1>11, <1>12 DEF Inv, b, c

LEMMA EndFirstKeeps ==
  ASSUME Inv, EndFirstIteration
  PROVE  Inv' /\ UNCHANGED <<book, memory>>
<1>1. UNCHANGED <<book, memory, born, clock, feed, todo, skipped>> /\ first' \in BOOLEAN
  BY DEF EndFirstIteration
<1>2. TypeOK' /\ FeedFits'
  BY <1>1 DEF Inv, TypeOK, FeedFits, Never
<1>3. BooksFit'
  BY <1>1, BalanceStays DEF Inv, BooksFit
<1>4. Submitted' = Submitted
  BY <1>1 DEF Submitted
<1>5. OrdersFit'
  BY <1>1, <1>4 DEF Inv, OrdersFit
<1> QED BY <1>1, <1>2, <1>3, <1>5 DEF Inv

LEMMA ProcessKeeps ==
  ASSUME Inv, ProcessOrder
  PROVE  Inv'
<1> DEFINE o == Head(todo)
           R == Submitted
<1>1. /\ todo # <<>> /\ todo' = Tail(todo) /\ UNCHANGED <<born, clock, feed, first, skipped>>
  BY DEF ProcessOrder
<1>2. Submitted' = R
  BY <1>1 DEF Submitted
<1>3. /\ book' \in Sound /\ Agrees(book') /\ Balances(book') /\ Fit(book', R)
      /\ Drops(book, book') \/ (o \in Plain /\ Fills1(book, book', o))
  <2>1. CASE Quiet(book, book', R)
    BY <2>1 DEF Quiet
  <2>2. ASSUME NEW p \in Nat, Trades(o, p)
        PROVE  /\ book' \in Sound /\ Agrees(book') /\ Balances(book') /\ Fit(book', R)
               /\ o \in Plain /\ Fills1(book, book', o)
    <3>1. /\ o \in Plain /\ o \in Family(R) /\ Open(book, o) /\ o \in ToSet(book.new)
          /\ Terms[o].asset \in Assets /\ book' = ExecuteFilledOrder(book, o, p)
      BY <2>2 DEF Trades
    <3>2. book \in Sound /\ Agrees(book) /\ Balances(book) /\ Fit(book, R)
      BY DEF Inv, BooksFit, OrdersFit
    <3>3. o \in Traders /\ o \in Orders
      BY <3>1 DEF Plain, Traders
    <3> HIDE DEF o, R
    <3>0. skipped \in Int
      BY DEF Inv, TypeOK
    <3>4. Agrees(book') /\ Balances(book')
      BY <3>0, <3>1, <3>2, <3>3, FillKeepsAgreement, FillKeepsBalance
    <3>5. book' \in Sound
      BY <3>1, <3>2, <3>3, FillMoves DEF Moves
    <3>6. Fit(book', R) /\ Fills1(book, book', o)
      BY <3>1, <3>2, <3>3, ExecuteFits, SubmittedAre DEF R
    <3> QED BY <3>1, <3>4, <3>5, <3>6
  <2> QED BY <2>1, <2>2, ProcessIs
<1>4. BooksFit'
  BY <1>1, <1>3, BalanceStays DEF BooksFit
<1>5. TodoFits(book', Tail(todo), R)
  BY <1>1, <1>3, TodoKeeps
<1>6. OrdersFit'
  BY <1>1, <1>2, <1>3, <1>5 DEF OrdersFit
<1>7. memory' \in [Orders -> Memory]
  <2>1. memory \in [Orders -> Memory]
    BY DEF Inv, TypeOK
  <2>2. UNCHANGED memory \/ (Single(o) /\ o \notin Managed
                               /\ Terms[o].class \notin {"package", "multileg"})
    BY DEF ProcessOrder, Package, Holder
  <2>3. CASE UNCHANGED memory
    BY <2>1, <2>3
  <2>4. CASE Single(o) /\ o \notin Managed /\ Terms[o].class \notin {"package", "multileg"}
    <3>1. o \in Orders /\ Terms[o].class # "oco"
      BY <1>1, TodoIs
    <3>2. Terms[o].asset \in Assets
      BY <2>4, <3>1, TermFacts DEF HoldsLegs
    <3>3. Verdict(o).mem \in Memory
      BY <2>1, <3>1, <3>2, VerdictIs DEF Inv, TypeOK, FeedFits
    <3>4. memory' = [memory EXCEPT ![o] = Verdict(o).mem]
      BY <2>4 DEF Single
    <3> HIDE DEF o
    <3> QED BY <2>1, <3>1, <3>3, <3>4
  <2> QED BY <2>2, <2>3, <2>4
<1>8. TypeOK' /\ FeedFits'
  <2>1. book' \in Book
    BY <1>3 DEF Sound
  <2>2. todo' \in Seq(Orders)
    BY <1>1, TodoIs
  <2> QED BY <1>1, <1>7, <2>1, <2>2 DEF Inv, TypeOK, FeedFits, Never
<1> QED BY <1>4, <1>6, <1>8 DEF Inv

LEMMA NextKeeps ==
  ASSUME Inv, [Next]_vars
  PROVE  Inv'
<1>1. CASE UNCHANGED vars
  <2>1. UNCHANGED <<book, memory, born, clock, feed, todo, first, skipped>>
    BY <1>1 DEF vars
  <2>2. TypeOK'
    BY <2>1 DEF Inv, TypeOK, Never
  <2>3. BooksFit'
    BY <2>1, BalanceStays DEF Inv, BooksFit
  <2>4. Submitted' = Submitted
    BY <2>1 DEF Submitted
  <2>5. OrdersFit' /\ FeedFits'
    BY <2>1, <2>4 DEF Inv, OrdersFit, FeedFits
  <2> QED BY <2>2, <2>3, <2>5 DEF Inv
<1>2. ASSUME NEW o \in Roots, Submit(o) PROVE Inv'
  BY <1>2, SubmitKeeps
<1>3. ASSUME NEW o \in Orders, Cancel(o) PROVE Inv'
  BY <1>3, CancelKeeps
<1>4. CASE StartPass
  BY <1>4, StartPassKeeps
<1>5. CASE ProcessOrder
  BY <1>5, ProcessKeeps
<1>6. CASE BookCash
  BY <1>6, BookCashKeeps
<1>7. CASE EndFirstIteration
  BY <1>7, EndFirstKeeps
<1> QED BY <1>1, <1>2, <1>3, <1>4, <1>5, <1>6, <1>7 DEF Next

LEMMA InitFits ==
  ASSUME Init
  PROVE  Inv
<1> DEFINE b == book
<1>1. /\ b = [status |-> [o \in Orders |-> "unprocessed"], new |-> <<>>,
              placeholders |-> {}, position |-> [a \in Assets |-> 0],
              lots |-> [a \in Futures |-> <<>>], cash |-> Budget, owed |-> 0,
              transactions |-> [o \in Orders |-> <<>>]]
      /\ memory = [o \in Orders |-> Fresh]
      /\ born = [o \in Orders |-> Never]
      /\ clock = 0
      /\ feed = [a \in Assets |-> [bar |-> NoBar, quote |-> NoQuote]]
      /\ todo = <<>> /\ first = TRUE /\ skipped = 0
  BY DEF Init
<1> HIDE DEF b
<1>2. /\ \A o \in Orders : b.status[o] = "unprocessed" /\ b.transactions[o] = <<>>
      /\ b.new = <<>> /\ b.placeholders = {} /\ b.cash = Budget /\ b.owed = 0
      /\ \A a \in Assets : b.position[a] = 0
      /\ \A a \in Futures : b.lots[a] = <<>>
  BY <1>1
<1>3. Budget \in Nat /\ Margin \in Int /\ Futures \subseteq Assets /\ LastPeriod \in Nat
  BY BacktestAssumption
<1>4. b \in Book
  <2>1. [o \in Orders |-> "unprocessed"] \in [Orders -> Statuses]
    BY DEF Statuses
  <2>2. /\ <<>> \in Seq(Orders) /\ [a \in Assets |-> 0] \in [Assets -> Int]
        /\ [a \in Futures |-> <<>>] \in [Futures -> Seq(Lot)]
        /\ [o \in Orders |-> <<>>] \in [Orders -> Seq(Nat)] /\ Budget \in Int
    BY <1>3
  <2> QED BY <1>1, <2>1, <2>2 DEF Book
<1>5. b \in Sound
  <2>1. OneSided(<<>>)
    BY DEF OneSided, Long
  <2> QED BY <1>2, <1>4, <2>1 DEF Sound
<1>6. \A g : \A S : IsFiniteSet(S) /\ g \in [S -> Int] /\ (\A x \in S : g[x] = 0)
                    => SumFunction(g) = 0
  <2>1. ASSUME NEW S, IsFiniteSet(S), NEW g \in [S -> Int], \A x \in S : g[x] = 0
        PROVE  SumFunction(g) = 0
    <3>1. SumFunction(g) \in Int
      BY <2>1, SumType
    <3>2. \A x \in S : g[x] >= 0 /\ g[x] <= 0
      BY <2>1
    <3>3. SumFunction(g) >= 0 /\ SumFunction(g) <= 0
      BY <2>1, <3>2, SumSign
    <3> QED BY <3>1, <3>3
  <2> QED BY <2>1
<1>7. Agrees(b)
  <2> SUFFICES ASSUME NEW a \in Assets
               PROVE  /\ b.position[a] = SumFunction(Count(b, a))
                      /\ a \in Futures => Net(b.lots[a]) = b.position[a]
    BY DEF Agrees
  <2> DEFINE S == {t \in Traders : Terms[t].asset = a}
             g == Count(b, a)
  <2>1. IsFiniteSet(S)
    BY FS_Subset, BacktestAssumption DEF Traders
  <2>2. \A t \in S : Signed(t) * Len(b.transactions[t]) = 0
    <3>1. ASSUME NEW t \in S PROVE Signed(t) * Len(b.transactions[t]) = 0
      <4>1. t \in Orders /\ Signed(t) \in Int
        BY TermFacts DEF Traders
      <4>2. b.transactions[t] = <<>> /\ Len(<<>>) = 0
        BY <1>2, <4>1
      <4>3. \A x \in Int : x * 0 = 0
        OBVIOUS
      <4> QED BY <4>1, <4>2, <4>3
    <3> QED BY <3>1
  <2>3. g \in [S -> Int] /\ \A t \in S : g[t] = 0
    <3>1. g = [t \in S |-> Signed(t) * Len(b.transactions[t])]
      BY DEF Count
    <3> HIDE DEF g, S
    <3> QED BY <2>2, <3>1
  <2>4. SumFunction(g) = 0
    BY <1>6, <2>1, <2>3
  <2>5. a \in Futures => Net(b.lots[a]) = 0
    BY <1>2, NoLots
  <2> QED BY <1>2, <2>4, <2>5
<1>8. Balances(b)
  <2>1. IsFiniteSet(Traders) /\ IsFiniteSet(Futures) /\ Earned(b) \in [Traders -> Int]
        /\ Held(b) \in [Futures -> Int]
    BY <1>4, SumsOfBook
  <2>2. \A x \in Int : -x * 0 = 0 /\ 0 - x * 0 = 0
    OBVIOUS
  <2>3. \A t \in Traders : Earned(b)[t] = 0
    <3>1. ASSUME NEW t \in Traders PROVE Earned(b)[t] = 0
      <4>1. t \in Orders /\ Signed(t) \in Int
        BY TermFacts DEF Traders
      <4>2. b.transactions[t] = <<>>
        BY <1>2, <4>1
      <4>3. SumFunction(<<>>) = 0
        <5>1. <<>> \in [{} -> Int]
          OBVIOUS
        <5> QED BY <5>1, SumOfNone
      <4>4. Earned(b)[t] = -Signed(t) * SumFunction(b.transactions[t])
        BY DEF Earned
      <4> QED BY <2>2, <4>1, <4>2, <4>3, <4>4
    <3> QED BY <3>1
  <2>4. \A a \in Futures : Held(b)[a] = 0
    <3>1. ASSUME NEW a \in Futures PROVE Held(b)[a] = 0
      <4>1. Held(b)[a] = Basis(b.lots[a]) - Margin * Abs(Net(b.lots[a]))
        BY DEF Held
      <4>2. Basis(b.lots[a]) = 0 /\ Net(b.lots[a]) = 0
        BY <1>2, NoLots
      <4>3. Abs(0) = 0
        BY DEF Abs
      <4> QED BY <1>3, <2>2, <4>1, <4>2, <4>3
    <3> QED BY <3>1
  <2>5. SumFunction(Earned(b)) = 0 /\ SumFunction(Held(b)) = 0
    BY <1>6, <2>1, <2>3, <2>4
  <2>6. Budget + 0 = (Means + 0) + 0
    BY <1>1, <1>3 DEF Means
  <2> QED BY <1>2, <2>5, <2>6 DEF Balances
<1>9. IsInjective(<<>>) /\ ToSet(<<>>) = {}
  BY DEF IsInjective, ToSet
<1>10. Submitted = {}
  BY <1>1 DEF Submitted, Roots
<1>11. Fit(b, {})
  <2>1. \A o \in Orders : b.status[o] # "filled" /\ b.status[o] # "canceled"
    BY <1>2
  <2>2. \A p \in Orders : Kids[p] \subseteq Orders
    BY TermFacts
  <2>3. OthersUntouched(b, {}) /\ NewFits(b) /\ PlaceholdersFit(b)
    BY <1>2, <1>9 DEF OthersUntouched, NewFits, PlaceholdersFit
  <2>4. ExitsFit(b)
    BY <1>2, <1>9, <2>1, <2>2 DEF ExitsFit
  <2>5. PartnersFit(b) /\ RootsFit(b, {})
    BY <2>1 DEF PartnersFit, RootsFit, Plain, Traders
  <2> QED BY <2>3, <2>4, <2>5 DEF Fit
<1>12. TodoFits(b, todo, {})
  BY <1>1, <1>9 DEF TodoFits
<1>13. feed \in [Assets -> Feed] /\ FeedFits
  <2>1. [bar |-> NoBar, quote |-> NoQuote] \in Feed
    BY DEF Feed, NoBar, NoQuote, NoPrice
  <2>2. \A a \in Assets : feed[a] = [bar |-> NoBar, quote |-> NoQuote]
    BY <1>1
  <2>3. FeedFits
    BY <2>2 DEF FeedFits, Proper
  <2> QED BY <1>1, <2>1, <2>3
<1>14. memory \in [Orders -> Memory]
  <2>1. Fresh \in Memory
    BY DEF Fresh, Memory, NoPrice
  <2> QED BY <1>1, <2>1
<1>15. born \in [Orders -> 0 .. Never] /\ clock \in 0 .. LastPeriod /\ todo \in Seq(Orders)
  <2>1. Never \in 0 .. Never /\ <<>> \in Seq(Orders)
    BY <1>3 DEF Never
  <2>2. 0 \in 0 .. LastPeriod
    BY <1>3
  <2> QED BY <1>1, <2>1, <2>2
<1>16. TypeOK
  BY <1>1, <1>4, <1>13, <1>14, <1>15 DEF TypeOK, b
<1> QED BY <1>5, <1>7, <1>8, <1>10, <1>11, <1>12, <1>13, <1>16 DEF Inv, BooksFit, OrdersFit, b

THEOREM Invariance == Spec => []Inv
<1>1. Init => Inv
  BY InitFits
<1>2. Inv /\ [Next]_vars => Inv'
  BY NextKeeps
<1> QED BY <1>1, <1>2, PTL DEF Spec

(* Every component of the state keeps its type.                             *)
THEOREM TypeCorrect == Spec => []TypeOK
<1>1. Inv => TypeOK
  BY DEF Inv
<1> QED BY <1>1, Invariance, PTL

(* The positions, the fills recorded for the orders and the lots of the     *)
(* futures always agree.                                                    *)
THEOREM BooksAlwaysAgree == Spec => []BooksAgree
<1>1. Inv => BooksAgree
  BY BooksAre DEF Inv, BooksFit, TypeOK
<1> QED BY <1>1, Invariance, PTL

(* Cash is always what the fills earned, less what open contracts bind and  *)
(* less the fills that were skipped in the first iteration (process_event,  *)
(* _update_cash, _process_futures_fill).                                    *)
THEOREM CashIsAlwaysProceeds == Spec => []CashIsProceeds
<1>1. Inv => CashIsProceeds
  BY BooksAre DEF Inv, BooksFit, TypeOK
<1> QED BY <1>1, Invariance, PTL
-----------------------------------------------------------------------------
(* What a step may do to the orders that trade on their own account.        *)
LEMMA StepIs ==
  ASSUME Inv, [Next]_vars
  PROVE  \/ \A x \in Plain : book'.transactions[x] = book.transactions[x]
         \/ \E o \in Plain, p \in Nat : Trades(o, p)
<1>1. CASE UNCHANGED vars
  BY <1>1 DEF vars
<1>2. ASSUME NEW o \in Roots, Submit(o)
      PROVE  book'.transactions = book.transactions
  BY <1>2, SubmitIs DEF SameMoney
<1>3. ASSUME NEW o \in Orders, Cancel(o)
      PROVE  \A x \in Plain : book'.transactions[x] = book.transactions[x]
  BY <1>3, CancelIs DEF Quiet
<1>4. CASE StartPass
  BY <1>4 DEF StartPass
<1>5. CASE ProcessOrder
  <2>1. ASSUME NEW p \in Nat, Trades(Head(todo), p)
        PROVE  \E o \in Plain, q \in Nat : Trades(o, q)
    BY <2>1 DEF Trades
  <2> QED BY <1>5, <2>1, ProcessIs DEF Quiet
<1>6. CASE BookCash
  BY <1>6, BookCashKeeps
<1>7. CASE EndFirstIteration
  BY <1>7, EndFirstKeeps
<1> QED BY <1>1, <1>2, <1>3, <1>4, <1>5, <1>6, <1>7 DEF Next

(* The order whose fills a step changes is the one that trades.             *)
LEMMA TraderIs ==
  ASSUME Inv, [Next]_vars, NEW o \in Plain,
         book'.transactions[o] # book.transactions[o]
  PROVE  \E p \in Nat : /\ Trades(o, p)
                        /\ book'.transactions[o] = Append(book.transactions[o], p)
<1>1. PICK x \in Plain, p \in Nat : Trades(x, p)
  BY StepIs
<1>2. /\ x \in Orders /\ o \in Orders /\ Terms[x].asset \in Assets /\ book \in Sound
      /\ book' = ExecuteFilledOrder(book, x, p)
  BY <1>1 DEF Trades, Plain, Traders, Inv, BooksFit
<1>3. \A y \in Orders : book'.transactions[y] = IF y = x THEN Append(book.transactions[y], p)
                                                ELSE book.transactions[y]
  BY <1>2, FillMoves DEF Moves
<1> QED BY <1>1, <1>2, <1>3

(* Every fill is at a price its period offers, within the order's limit     *)
(* and not better than its stop.                                            *)
THEOREM FillsAlwaysFair == Spec => FillsAreFair
<1> DEFINE A == \A o \in Traders :
                  (o \notin Managed /\ book'.transactions[o] # book.transactions[o]) =>
                    LET t == Terms[o]
                        p == Last(book'.transactions[o])
                    IN  /\ p > 0
                        /\ Offered(t.asset, p)
                        /\ t.type \in {"limit", "stop_limit"} => NoWorse(t.buy, p, t.limit)
                        /\ t.type = "stop" => NoWorse(t.buy, t.stop, p)
<1>1. ASSUME Inv, [Next]_vars PROVE A
  <2> SUFFICES ASSUME NEW o \in Traders, o \notin Managed,
                      book'.transactions[o] # book.transactions[o]
               PROVE  Fair(o, Last(book'.transactions[o]))
    BY DEF Fair
  <2>1. o \in Plain /\ o \in Orders
    BY DEF Plain, Traders
  <2>2. PICK p \in Nat : Trades(o, p) /\ book'.transactions[o] = Append(book.transactions[o], p)
    BY <1>1, <2>1, TraderIs
  <2>3. book.transactions[o] \in Seq(Nat)
    BY <1>1, <2>1, BookFields DEF Inv, TypeOK
  <2>4. \A s \in Seq(Nat) : Last(Append(s, p)) = p
    BY DEF Last
  <2>5. Last(book'.transactions[o]) = p
    BY <2>2, <2>3, <2>4
  <2> QED BY <2>2, <2>5 DEF Trades
<1>2. FillsAreFair <=> [][A]_vars
  BY DEF FillsAreFair
<1> HIDE DEF A
<1>3. Inv /\ [Next]_vars => [A]_vars
  BY <1>1
<1> QED BY <1>2, <1>3, Invariance, PTL DEF Spec

(* After a fill that leaves a position flat no other order that was only to *)
(* close it is still working.                                               *)
THEOREM NoExitEverLeftWhenFlat == Spec => NoExitLeftWhenFlat
<1> DEFINE A == \A o \in Traders :
                  (/\ book'.transactions[o] # book.transactions[o]
                   /\ book'.position[Terms[o].asset] = 0
                   /\ o \notin Legs) =>
                     \A x \in ToSet(book'.new) :
                       (/\ Terms[x].asset = Terms[o].asset
                        /\ Terms[x].side \in ClosingSides(Terms[o].side)
                        /\ x \notin Legs) => ~Open(book', x)
<1>1. ASSUME Inv, [Next]_vars PROVE A
  <2> SUFFICES ASSUME NEW o \in Traders, book'.transactions[o] # book.transactions[o],
                      book'.position[Terms[o].asset] = 0, o \notin Legs
               PROVE  NoneLeft(book', o)
    BY DEF NoneLeft
  <2>1. o \notin Managed
    BY DEF Managed, Legs, IsLegOf
  <2>2. o \in Plain
    BY <2>1 DEF Plain
  <2>3. PICK p \in Nat : Trades(o, p)
    BY <1>1, <2>2, TraderIs
  <2>4. /\ o \in Family(Submitted) /\ Open(book, o) /\ o \in ToSet(book.new)
        /\ Terms[o].asset \in Assets /\ book' = ExecuteFilledOrder(book, o, p)
    BY <2>3 DEF Trades
  <2>5. book \in Sound /\ Fit(book, Submitted) /\ Submitted \in SUBSET Roots
    BY <1>1, SubmittedAre DEF Inv, BooksFit, OrdersFit
  <2> QED BY <2>2, <2>4, <2>5, ExecuteFits
<1>2. NoExitLeftWhenFlat <=> [][A]_vars
  BY DEF NoExitLeftWhenFlat
<1> HIDE DEF A
<1>3. Inv /\ [Next]_vars => [A]_vars
  BY <1>1
<1> QED BY <1>2, <1>3, Invariance, PTL DEF Spec

(* What an order that trails by an amount remembers moves in its favour.    *)
LEMMA TrailFavours ==
  ASSUME NEW o \in Orders, Terms[o].type = "trail", ~Terms[o].percent,
         memory[o] \in Memory, memory[o].trail # NoPrice
  PROVE  NoWorse(Terms[o].buy, Verdict(o).mem.trail, memory[o].trail)
<1> DEFINE t == Terms[o]
           mem == memory[o]
           bar == feed[t.asset].bar
           quote == feed[t.asset].quote
           after(price) == [mem EXCEPT !.trail = TrailAfter(t, @, price)]
<1>1. mem.trail \in Int /\ \A n \in Int : NoWorse(t.buy, n, n)
  BY DEF Memory, NoWorse
<1>2. ASSUME NEW price PROVE NoWorse(t.buy, after(price).trail, mem.trail)
  <2>1. after(price).trail = TrailAfter(t, mem.trail, price)
    BY DEF Memory
  <2>2. \/ TrailAfter(t, mem.trail, price) = mem.trail
        \/ NoWorse(t.buy, TrailAfter(t, mem.trail, price), mem.trail)
    BY DEF TrailAfter
  <2> HIDE DEF after, mem, t
  <2> QED BY <1>1, <2>1, <2>2
<1>3. BarVerdict(t, mem, bar).mem = after(IF t.buy THEN bar.low ELSE bar.high)
  BY DEF BarVerdict
<1>4. \/ QuoteVerdict(t, mem, quote, MaxSpread).mem = mem
      \/ QuoteVerdict(t, mem, quote, MaxSpread).mem = after(Rest(t.buy, quote))
  <2>1. QuoteVerdict(t, mem, quote, MaxSpread) =
          IF Rest(t.buy, quote) = NoPrice THEN [price |-> NoPrice, mem |-> mem]
          ELSE LET trail == TrailAfter(t, mem.trail, Rest(t.buy, quote))
               IN  [price |-> QuoteStop(trail, t.buy, quote),
                    mem |-> [mem EXCEPT !.trail = trail]]
    BY DEF QuoteVerdict
  <2> QED BY <2>1
<1>5. \/ Verdict(o).mem = mem
      \/ Verdict(o).mem = BarVerdict(t, mem, bar).mem
      \/ Verdict(o).mem = QuoteVerdict(t, mem, quote, MaxSpread).mem
  BY DEF Verdict
<1> HIDE DEF after
<1> QED BY <1>1, <1>2, <1>3, <1>4, <1>5

(* A stop that trails by an amount never moves away from its order's side,  *)
(* whether it is moved by a bar or by a quote (update_trail_stop_price).    *)
THEOREM TrailAlwaysRatchets == Spec => TrailRatchets
<1> DEFINE A == \A o \in Orders :
                  (Terms[o].type = "trail" /\ ~Terms[o].percent /\ memory[o].trail # NoPrice) =>
                     NoWorse(Terms[o].buy, memory'[o].trail, memory[o].trail)
<1>1. ASSUME Inv, [Next]_vars PROVE A
  <2> SUFFICES ASSUME NEW o \in Orders, Terms[o].type = "trail", ~Terms[o].percent,
                      memory[o].trail # NoPrice
               PROVE  NoWorse(Terms[o].buy, memory'[o].trail, memory[o].trail)
    OBVIOUS
  <2>1. memory \in [Orders -> Memory] /\ memory[o].trail \in Int
    BY <1>1 DEF Inv, TypeOK, Memory
  <2>2. CASE memory'[o] = memory[o]
    BY <2>1, <2>2 DEF NoWorse
  <2>3. CASE \E x \in Orders : memory' = [memory EXCEPT ![x] = Verdict(x).mem]
    <3>1. PICK x \in Orders : memory' = [memory EXCEPT ![x] = Verdict(x).mem]
      BY <2>3
    <3>2. CASE x = o
      <4>1. memory'[o].trail = Verdict(o).mem.trail
        BY <2>1, <3>1, <3>2
      <4> QED BY <2>1, <4>1, TrailFavours
    <3>3. CASE x # o
      BY <2>1, <2>2, <3>1, <3>3
    <3> QED BY <3>2, <3>3
  <2>4. memory' = memory \/ \E x \in Orders : memory' = [memory EXCEPT ![x] = Verdict(x).mem]
    <3>1. CASE ProcessOrder
      <4>1. \/ UNCHANGED memory
            \/ memory' = [memory EXCEPT ![Head(todo)] = Verdict(Head(todo)).mem]
        BY <3>1 DEF ProcessOrder, Single, Package, Holder
      <4>2. Head(todo) \in Orders
        BY <1>1, <3>1, TodoIs DEF ProcessOrder
      <4> QED BY <4>1, <4>2
    <3>2. CASE UNCHANGED vars
      BY <3>2 DEF vars
    <3>3. ASSUME NEW x \in Roots, Submit(x) PROVE memory' = memory
      BY <3>3 DEF Submit
    <3>4. ASSUME NEW x \in Orders, Cancel(x) PROVE memory' = memory
      BY <3>4 DEF Cancel
    <3>5. CASE StartPass
      BY <3>5 DEF StartPass
    <3>6. CASE BookCash
      BY <3>6 DEF BookCash
    <3>7. CASE EndFirstIteration
      BY <3>7 DEF EndFirstIteration
    <3> QED BY <1>1, <3>1, <3>2, <3>3, <3>4, <3>5, <3>6, <3>7 DEF Next
  <2> QED BY <2>2, <2>3, <2>4
<1>2. TrailRatchets <=> [][A]_vars
  BY DEF TrailRatchets
<1> HIDE DEF A
<1>3. Inv /\ [Next]_vars => [A]_vars
  BY <1>1
<1> QED BY <1>2, <1>3, Invariance, PTL DEF Spec

-----------------------------------------------------------------------------
(* The promise of ContingentOrders: the four sets of orders it is about.    *)
OpenIn(b) == {o \in Plain : Open(b, o)}
Live(b) == OpenIn(b) \cap ToSet(b.new)
Waiting(b, R) == (OpenIn(b) \ ToSet(b.new)) \cap UNION {Kids[r] : r \in R}
Filled(b) == {o \in Plain : b.status[o] = "filled"}
CanceledIn(b) == {o \in Plain : b.status[o] = "canceled"}
ExitsOf(S) == {o \in Plain : EntryOf[o] \in S}

LEMMA EntryFacts ==
  ASSUME NEW o \in Plain
  PROVE  /\ EntryOf[o] \in Plain \cup {NoOrder}
         /\ EntryOf[o] # NoOrder => /\ EntryOf[o] \in Plain /\ EntryOf[o] \in Orders
                                    /\ Waits(EntryOf[o]) /\ o \in Kids[EntryOf[o]]
         /\ \A p \in Orders : o \in Kids[p] =>
              EntryOf[o] = IF HoldsLegs(p) THEN NoOrder ELSE p
         /\ o \in Roots => EntryOf[o] = NoOrder
<1>1. EntryOf[o] = IF \E p \in Plain : o \in Kids[p] THEN CHOOSE p \in Plain : o \in Kids[p]
                   ELSE NoOrder
  BY DEF EntryOf
<1>2. Plain \subseteq Orders /\ o \in Orders /\ NoOrder \notin Plain
  BY BacktestAssumption DEF Plain, Traders
<1>3. \A p \in Orders, q \in Orders : o \in Kids[p] /\ o \in Kids[q] => p = q
  BY <1>2, TermFacts
<1>4. \A p \in Orders : o \in Kids[p] => (p \in Plain <=> ~HoldsLegs(p))
  <2>1. ASSUME NEW p \in Orders, o \in Kids[p], ~HoldsLegs(p) PROVE p \in Plain
    <3>1. Terms[p].class # "simple"
      BY <2>1, TermFacts
    <3>2. Waits(p)
      BY <2>1, <3>1, TermFacts DEF HoldsLegs, Waits
    <3> QED BY <3>2, Kinds
  <2> QED BY <2>1, Kinds
<1>5. CASE \E p \in Plain : o \in Kids[p]
  <2>1. EntryOf[o] \in Plain /\ o \in Kids[EntryOf[o]]
    BY <1>1, <1>5
  <2>2. Waits(EntryOf[o])
    <3>1. Terms[EntryOf[o]].class # "simple" /\ ~HoldsLegs(EntryOf[o])
      BY <1>2, <1>4, <2>1, TermFacts
    <3> QED BY <1>2, <2>1, <3>1, TermFacts DEF HoldsLegs, Waits
  <2>3. o \notin Roots
    BY <1>2, <2>1 DEF Roots
  <2> QED BY <1>2, <1>3, <1>4, <2>1, <2>2, <2>3
<1>6. CASE ~\E p \in Plain : o \in Kids[p]
  BY <1>1, <1>2, <1>4, <1>6
<1> QED BY <1>5, <1>6

(* The orders a step cancels were open, and waiting exits go with their     *)
(* entry.                                                                   *)
LEMMA DroppedTogether ==
  ASSUME NEW b \in Book, NEW c \in Book, NEW R \in SUBSET Roots, Fit(b, R), Fit(c, R),
         NEW C \in SUBSET Plain,
         \A x \in C : Open(b, x) /\ c.status[x] = "canceled",
         \A x \in Plain : Open(b, x) /\ c.status[x] = "canceled" => x \in C,
         \A x \in Waiting(b, R) : c.status[x] = b.status[x] \/ c.status[x] = "canceled"
  PROVE  C \subseteq Waiting(b, R) \cup Live(b) /\ ExitsOf(C) \cap Waiting(b, R) \subseteq C
<1>0. Plain \subseteq Orders /\ NoOrder \notin Plain
  BY BacktestAssumption DEF Plain, Traders
<1>1. ASSUME NEW x \in C PROVE x \in Waiting(b, R) \cup Live(b)
  <2>1. x \in Plain /\ x \in Orders /\ Open(b, x) /\ c.status[x] = "canceled"
    BY <1>0
  <2>2. x \in Family(R)
    BY <2>1 DEF Fit, OthersUntouched
  <2>3. CASE x \in R
    BY <2>1, <2>3 DEF Fit, RootsFit, Live, OpenIn
  <2>4. CASE x \in UNION {Kids[r] : r \in R}
    BY <2>1, <2>4 DEF Live, Waiting, OpenIn
  <2> QED BY <2>2, <2>3, <2>4 DEF Family
<1>2. ASSUME NEW x \in Plain, EntryOf[x] \in C, x \in Waiting(b, R) PROVE x \in C
  <2>1. /\ EntryOf[x] \in Orders /\ Waits(EntryOf[x]) /\ x \in Kids[EntryOf[x]]
        /\ c.status[EntryOf[x]] = "canceled"
    BY <1>0, <1>2, EntryFacts
  <2>2. ~Open(c, x)
    BY <2>1 DEF Fit, ExitsFit
  <2>3. Open(b, x)
    BY <1>2 DEF Waiting, OpenIn
  <2>4. c.status[x] = "canceled"
    BY <1>2, <2>2, <2>3 DEF Open
  <2> QED BY <1>2, <2>3, <2>4
<1> QED BY <1>1, <1>2 DEF ExitsOf

LEMMA DropsMap ==
  ASSUME NEW b \in Book, NEW c \in Book, NEW R \in SUBSET Roots, Fit(b, R), Fit(c, R),
         Drops(b, c)
  PROVE  LET C == CanceledIn(c) \ CanceledIn(b)
         IN  /\ C \subseteq Waiting(b, R) \cup Live(b)
             /\ ExitsOf(C) \cap Waiting(b, R) \subseteq C
             /\ CanceledIn(c) = CanceledIn(b) \cup C
             /\ Live(c) = Live(b) \ C /\ Waiting(c, R) = Waiting(b, R) \ C
             /\ Filled(c) = Filled(b)
<1> DEFINE C == CanceledIn(c) \ CanceledIn(b)
<1>1. \A x \in Plain :
        /\ c.status[x] = b.status[x] \/ (Open(b, x) /\ c.status[x] = "canceled")
        /\ Open(c, x) => (x \in ToSet(c.new) <=> x \in ToSet(b.new))
  BY DEF Drops
<1>2. /\ C \in SUBSET Plain /\ \A x \in C : Open(b, x) /\ c.status[x] = "canceled"
      /\ \A x \in Plain : Open(b, x) /\ c.status[x] = "canceled" => x \in C
  BY <1>1 DEF CanceledIn, Open
<1>3. \A x \in Waiting(b, R) : c.status[x] = b.status[x] \/ c.status[x] = "canceled"
  BY <1>1 DEF Waiting, OpenIn
<1>4. C \subseteq Waiting(b, R) \cup Live(b) /\ ExitsOf(C) \cap Waiting(b, R) \subseteq C
  <2> HIDE DEF C
  <2> QED BY <1>2, <1>3, DroppedTogether
<1>5. \A x \in Plain : Open(c, x) <=> Open(b, x) /\ x \notin C
  BY <1>1, <1>2 DEF Open
<1>6. CanceledIn(c) = CanceledIn(b) \cup C /\ Filled(c) = Filled(b)
  BY <1>1 DEF CanceledIn, Filled, Open
<1> HIDE DEF C
<1>7. Live(c) = Live(b) \ C
  BY <1>1, <1>5 DEF Live, OpenIn
<1>8. Waiting(c, R) = Waiting(b, R) \ C
  BY <1>1, <1>5 DEF Waiting, OpenIn
<1> QED BY <1>4, <1>6, <1>7, <1>8 DEF C

(* A fill of o as ContingentOrders has it: o is filled, its exits begin to  *)
(* work, and the orders canceled with it are those that may be.             *)
FillsAs(b, c, R, o) ==
    LET C == CanceledIn(c) \ CanceledIn(b)
    IN  /\ o \in Live(b) \ C
        /\ C \subseteq Waiting(b, R) \cup Live(b)
        /\ ExitsOf(C) \cap Waiting(b, R) \subseteq C
        /\ PartnerOf[o] \in Waiting(b, R) \cup Live(b) => PartnerOf[o] \in C
        /\ Filled(c) = Filled(b) \cup {o}
        /\ CanceledIn(c) = CanceledIn(b) \cup C
        /\ Live(c) = (Live(b) \cup (ExitsOf({o}) \cap Waiting(b, R))) \ (C \cup {o})
        /\ Waiting(c, R) = Waiting(b, R) \ (C \cup ExitsOf({o}))

LEMMA FillMaps ==
  ASSUME NEW b \in Book, NEW c \in Book, NEW R \in SUBSET Roots, Fit(b, R), Fit(c, R),
         NEW o \in Plain, o \in Family(R), Open(b, o), o \in ToSet(b.new), Fills1(b, c, o)
  PROVE  FillsAs(b, c, R, o)
<1> DEFINE C == CanceledIn(c) \ CanceledIn(b)
           K == {x \in Plain : Waits(o) /\ x \in Kids[o]}
<1>1. /\ c.status[o] = "filled"
      /\ Terms[o].partner # NoOrder => c.status[Terms[o].partner] = "canceled"
      /\ \A x \in Plain \ {o} :
           /\ c.status[x] = b.status[x] \/ (Open(b, x) /\ c.status[x] = "canceled")
           /\ Open(c, x) => (x \in ToSet(c.new) <=> x \in ToSet(b.new) \/ x \in K)
  BY DEF Fills1
<1>2. o \in Orders /\ Plain \subseteq Orders /\ NoOrder \notin Plain
  BY BacktestAssumption DEF Plain, Traders
<1>3. /\ C \in SUBSET Plain /\ \A x \in C : Open(b, x) /\ c.status[x] = "canceled"
      /\ \A x \in Plain : Open(b, x) /\ c.status[x] = "canceled" => x \in C
  BY <1>1 DEF CanceledIn, Open
<1>4. o \notin C /\ o \notin Waiting(b, R)
  BY <1>1 DEF CanceledIn, Waiting
<1>5. \A x \in Waiting(b, R) : c.status[x] = b.status[x] \/ c.status[x] = "canceled"
  BY <1>1, <1>4 DEF Waiting, OpenIn
<1> HIDE DEF K
<1>6. C \subseteq Waiting(b, R) \cup Live(b) /\ ExitsOf(C) \cap Waiting(b, R) \subseteq C
  <2> HIDE DEF C
  <2> QED BY <1>3, <1>5, DroppedTogether
<1>7. \A x \in Plain : Open(c, x) <=> Open(b, x) /\ x \notin C /\ x # o
  BY <1>1, <1>3 DEF Open
<1>8. CanceledIn(c) = CanceledIn(b) \cup C /\ Filled(c) = Filled(b) \cup {o}
  BY <1>1 DEF CanceledIn, Filled, Open
<1> HIDE DEF C
<1>9. PartnerOf[o] \in Waiting(b, R) \cup Live(b) => PartnerOf[o] \in C
  <2>1. PartnerOf[o] = Terms[o].partner
    BY DEF PartnerOf
  <2>2. \A x \in Waiting(b, R) \cup Live(b) : x \in Plain /\ Open(b, x)
    BY DEF Waiting, Live, OpenIn
  <2> QED BY <1>1, <1>2, <1>3, <2>1, <2>2
<1>10. ExitsOf({o}) = K
  <2>1. ASSUME NEW x \in Plain PROVE EntryOf[x] = o <=> x \in K
    <3>1. EntryOf[x] = o => Waits(o) /\ x \in Kids[o]
      BY <1>2, EntryFacts
    <3>2. Waits(o) /\ x \in Kids[o] => EntryOf[x] = o
      BY <1>2, EntryFacts, Kinds
    <3> QED BY <3>1, <3>2 DEF K
  <2> QED BY <2>1 DEF ExitsOf, K
<1>11. K \subseteq UNION {Kids[r] : r \in R}
  <2>1. K # {} => o \in R
    <3>1. ASSUME NEW r \in R, o \in Kids[r] PROVE K = {}
      <4>1. r \in Orders
        BY DEF Roots
      <4>2. Terms[o].class = "simple"
        BY <3>1, <4>1, TermFacts
      <4> QED BY <4>2 DEF K, Waits
    <3> QED BY <3>1 DEF Family
  <2> QED BY <2>1 DEF K
<1>12. K \subseteq Plain /\ o \notin K
  <2>1. o \notin Kids[o]
    <3>1. o \in Kids[o] => Kids[o] = {}
      BY <1>2, TermFacts
    <3> QED BY <3>1
  <2> QED BY <2>1 DEF K
<1>13. Live(c) = (Live(b) \cup (K \cap Waiting(b, R))) \ (C \cup {o})
  <2>1. ASSUME NEW x \in Plain
        PROVE  x \in Live(c) <=> x \in (Live(b) \cup (K \cap Waiting(b, R))) \ (C \cup {o})
    BY <1>1, <1>7, <1>11 DEF Live, Waiting, OpenIn
  <2>2. Live(c) \subseteq Plain /\ Live(b) \subseteq Plain
    BY DEF Live, OpenIn
  <2> QED BY <1>12, <2>1, <2>2
<1>14. Waiting(c, R) = Waiting(b, R) \ (C \cup K)
  <2>1. ASSUME NEW x \in Plain
        PROVE  x \in Waiting(c, R) <=> x \in Waiting(b, R) \ (C \cup K)
    BY <1>1, <1>4, <1>7, <1>11 DEF Waiting, OpenIn
  <2>2. Waiting(c, R) \subseteq Plain /\ Waiting(b, R) \subseteq Plain
    BY DEF Waiting, OpenIn
  <2> QED BY <2>1, <2>2
<1>15. o \in Live(b) \ C
  BY <1>4 DEF Live, OpenIn
<1> QED BY <1>6, <1>8, <1>9, <1>10, <1>13, <1>14, <1>15 DEF C, FillsAs

LEMMA SubmitMaps ==
  ASSUME Inv, NEW o \in Roots, Submit(o)
  PROVE  LET b == book
             c == book'
             R == Submitted
             S == Live(c) \ Live(b)
         IN  /\ S \subseteq Plain \ (Waiting(b, R) \cup Live(b) \cup Filled(b) \cup CanceledIn(b))
             /\ \A x \in S : /\ EntryOf[x] = NoOrder
                             /\ PartnerOf[x] # NoOrder => PartnerOf[x] \in S
             /\ Live(c) = Live(b) \cup S
             /\ Waiting(c, Submitted') = Waiting(b, R) \cup ExitsOf(S)
             /\ Filled(c) = Filled(b) /\ CanceledIn(c) = CanceledIn(b)
<1> DEFINE b == book
           c == book'
           R == Submitted
           S == Live(c) \ Live(b)
           T == Bundle(o)
           P == {x \in {o} : Terms[o].class = "oco"}
<1>1. /\ \A x \in Orders : c.status[x] = IF x \in T THEN "new" ELSE b.status[x]
      /\ ToSet(c.new) = ToSet(b.new) \cup (T \ P)
      /\ T \cap Family(R) = {} /\ T \subseteq Orders
      /\ Submitted' = R \cup {o}
  BY SubmitIs
<1>2. b \in Book /\ Fit(b, R) /\ R \in SUBSET Roots
  BY SubmittedAre DEF Inv, TypeOK, OrdersFit
<1>3. o \in Orders /\ \A p \in Orders : o \notin Kids[p]
  BY <1>2, Families DEF Roots
<1>4. \A x \in Orders \ Family(R) : b.status[x] = "unprocessed" /\ x \notin ToSet(b.new)
  BY <1>2 DEF Fit, OthersUntouched
<1>5. T = {o} \cup (IF HoldsLegs(o) THEN Kids[o] ELSE {})
  BY DEF Bundle
<1>6. P \subseteq {o} /\ \A x \in P : x \notin Plain
  BY <1>3, Kinds DEF HoldsLegs
<1>7. Plain \subseteq Orders /\ NoOrder \notin Orders
  BY BacktestAssumption DEF Plain, Traders
<1>8. UNION {Kids[r] : r \in R} \subseteq Family(R) /\ R \subseteq Family(R) /\ R \subseteq Orders
  BY <1>2 DEF Family, Roots
<1>9. Kids[o] \cap Family(R) = {} /\ o \notin Family(R)
  <2>1. o \notin Family(R)
    BY <1>1, <1>5
  <2> QED BY <1>2, <1>3, <1>8, <2>1, Families
<1>10. \A r \in R \cup {o} : r \in Orders
  BY <1>3, <1>8
<1> HIDE DEF b, c, R, T, P
<1>11. \A x \in Plain : /\ x \in T => Open(c, x) /\ x \in ToSet(c.new)
                        /\ x \notin T => /\ c.status[x] = b.status[x] /\ (Open(c, x) <=> Open(b, x))
                                         /\ (x \in ToSet(c.new) <=> x \in ToSet(b.new))
  BY <1>1, <1>6, <1>7 DEF Open
<1>12. \A x \in T : x \notin Family(R) /\ b.status[x] = "unprocessed" /\ x \notin ToSet(b.new)
  BY <1>1, <1>4
<1>13. Live(c) = Live(b) \cup (T \cap Plain) /\ S = T \cap Plain
  <2>1. ASSUME NEW x \in Plain PROVE x \in Live(c) <=> x \in Live(b) \/ x \in T
    BY <1>11 DEF Live, OpenIn
  <2>2. Live(c) \subseteq Plain /\ Live(b) \subseteq Plain
    BY DEF Live, OpenIn
  <2>3. Live(c) = Live(b) \cup (T \cap Plain)
    BY <2>1, <2>2
  <2>4. (T \cap Plain) \cap Live(b) = {}
    BY <1>12 DEF Live
  <2> QED BY <2>3, <2>4
<1>14. S \subseteq Plain \ (Waiting(b, R) \cup Live(b) \cup Filled(b) \cup CanceledIn(b))
  BY <1>8, <1>12, <1>13 DEF Waiting, Live, Filled, CanceledIn
<1>15. ASSUME NEW x \in S
       PROVE  EntryOf[x] = NoOrder /\ (PartnerOf[x] # NoOrder => PartnerOf[x] \in S)
  <2>1. x \in Plain /\ x \in Orders /\ (x = o \/ (HoldsLegs(o) /\ x \in Kids[o]))
    BY <1>5, <1>7, <1>13
  <2>2. EntryOf[x] = NoOrder
    BY <1>3, <2>1, EntryFacts
  <2>3. ASSUME PartnerOf[x] # NoOrder PROVE PartnerOf[x] \in S
    <3> DEFINE q == Terms[x].partner
    <3>1. PartnerOf[x] = q
      BY <2>1 DEF PartnerOf
    <3>2. q \in Orders /\ \E p \in Orders : /\ Terms[p].class \in {"bracket", "oco"}
                                            /\ x \in Kids[p] /\ q \in Kids[p]
      BY <2>1, <2>3, <3>1, PartnerFacts
    <3>3. PICK p \in Orders : /\ Terms[p].class \in {"bracket", "oco"}
                              /\ x \in Kids[p] /\ q \in Kids[p]
      BY <3>2
    <3>4. x \in Kids[o] /\ HoldsLegs(o) /\ p = o
      BY <1>3, <2>1, <3>3, TermFacts
    <3>5. q \in T /\ q \in Plain
      BY <1>5, <3>2, <3>3, <3>4, Kinds
    <3> QED BY <1>13, <3>1, <3>5
  <2> QED BY <2>2, <2>3
<1>16. Waiting(c, R \cup {o}) = Waiting(b, R) \cup ExitsOf(S)
  <2>1. ASSUME NEW x \in Plain, x \in Waiting(c, R \cup {o})
        PROVE  x \in Waiting(b, R) \cup ExitsOf(S)
    <3>1. Open(c, x) /\ x \notin ToSet(c.new) /\ \E r \in R \cup {o} : x \in Kids[r]
      BY <2>1 DEF Waiting, OpenIn
    <3>2. x \notin T
      BY <1>11, <3>1
    <3>3. Open(b, x) /\ x \notin ToSet(b.new)
      BY <1>11, <3>1, <3>2
    <3>4. CASE \E r \in R : x \in Kids[r]
      BY <3>3, <3>4 DEF Waiting, OpenIn
    <3>5. CASE x \in Kids[o]
      <4>1. ~HoldsLegs(o)
        BY <1>5, <3>2, <3>5
      <4>2. EntryOf[x] = o
        BY <1>3, <3>5, <4>1, EntryFacts
      <4>3. o \in Plain
        <5>1. o # NoOrder
          BY <1>3, <1>7
        <5> QED BY <4>2, <5>1, EntryFacts
      <4>4. o \in S
        BY <1>5, <1>13, <4>3
      <4> QED BY <4>2, <4>4 DEF ExitsOf
    <3> QED BY <3>1, <3>4, <3>5
  <2>2. ASSUME NEW x \in Plain, x \in Waiting(b, R)
        PROVE  x \in Waiting(c, R \cup {o})
    <3>1. Open(b, x) /\ x \notin ToSet(b.new) /\ \E r \in R : x \in Kids[r]
      BY <2>2 DEF Waiting, OpenIn
    <3>2. x \notin T
      BY <1>8, <1>12, <3>1
    <3> QED BY <1>11, <3>1, <3>2 DEF Waiting, OpenIn
  <2>3. ASSUME NEW x \in Plain, EntryOf[x] \in S
        PROVE  x \in Waiting(c, R \cup {o})
    <3>1. /\ EntryOf[x] \in Orders /\ Waits(EntryOf[x]) /\ x \in Kids[EntryOf[x]]
          /\ EntryOf[x] \in T
      BY <1>7, <1>13, <2>3, EntryFacts
    <3>2. EntryOf[x] = o
      <4>1. \A k \in Kids[o] : ~Waits(k)
        BY <1>3, TermFacts, Kinds
      <4> QED BY <1>5, <3>1, <4>1
    <3>3. x \in Kids[o] /\ ~HoldsLegs(o) /\ x \in Orders
      BY <1>3, <1>7, <3>1, <3>2, Kinds
    <3>4. x \notin T /\ x \notin Family(R)
      BY <1>3, <1>5, <1>9, <3>3
    <3>5. Open(c, x) /\ x \notin ToSet(c.new)
      BY <1>4, <1>11, <3>3, <3>4 DEF Open
    <3> QED BY <3>3, <3>5 DEF Waiting, OpenIn
  <2>4. /\ Waiting(c, R \cup {o}) \subseteq Plain /\ Waiting(b, R) \subseteq Plain
        /\ \A x : x \in ExitsOf(S) <=> x \in Plain /\ EntryOf[x] \in S
    BY DEF Waiting, OpenIn, ExitsOf
  <2> HIDE DEF S
  <2> QED BY <2>1, <2>2, <2>3, <2>4
<1>17. Filled(c) = Filled(b) /\ CanceledIn(c) = CanceledIn(b)
  <2>1. \A x \in Plain : /\ c.status[x] = "filled" <=> b.status[x] = "filled"
                         /\ c.status[x] = "canceled" <=> b.status[x] = "canceled"
    <3>1. \A x \in Plain : x \in T => c.status[x] = "new" /\ b.status[x] = "unprocessed"
      BY <1>1, <1>7, <1>12
    <3> QED BY <1>11, <3>1
  <2> QED BY <2>1 DEF Filled, CanceledIn
<1>18. Live(c) = Live(b) \cup S
  BY <1>13
<1>19. Waiting(c, Submitted') = Waiting(b, R) \cup ExitsOf(S)
  BY <1>1, <1>16
<1> HIDE DEF S
<1> QED BY <1>14, <1>15, <1>17, <1>18, <1>19 DEF b, c, R, S

(* Every step is one that ContingentOrders allows.                          *)
LEMMA QuietMaps ==
  ASSUME Inv, book' \in Book, Fit(book', Submitted), Drops(book, book'), Submitted' = Submitted
  PROVE  Contingent!Next
<1> DEFINE b == book
           c == book'
           R == Submitted
           C == CanceledIn(c) \ CanceledIn(b)
<1>1. /\ C \subseteq Waiting(b, R) \cup Live(b)
      /\ ExitsOf(C) \cap Waiting(b, R) \subseteq C
      /\ CanceledIn(c) = CanceledIn(b) \cup C
      /\ Live(c) = Live(b) \ C /\ Waiting(c, R) = Waiting(b, R) \ C
      /\ Filled(c) = Filled(b)
  BY DropsMap, SubmittedAre DEF Inv, TypeOK, OrdersFit
<1>2. Contingent!Cancel(C)
  BY <1>1 DEF Contingent!Cancel, Contingent!Droppable, Contingent!Exits, OpenPlain,
              OpenIn, Live, Waiting, Filled, CanceledIn, ExitsOf
<1> QED BY <1>2 DEF Contingent!Next, CanceledIn

LEMMA TradeMaps ==
  ASSUME Inv, NEW o \in Plain, NEW p \in Nat, Trades(o, p), Submitted' = Submitted
  PROVE  Contingent!Next
<1> DEFINE b == book
           c == book'
           R == Submitted
           C == CanceledIn(c) \ CanceledIn(b)
<1>1. /\ o \in Family(R) /\ Open(b, o) /\ o \in ToSet(b.new) /\ o \in Traders /\ o \in Orders
      /\ Terms[o].asset \in Assets /\ c = ExecuteFilledOrder(b, o, p)
  BY DEF Trades, Plain, Traders
<1>2. b \in Sound /\ b \in Book /\ Fit(b, R) /\ R \in SUBSET Roots
  BY SubmittedAre DEF Inv, TypeOK, BooksFit, OrdersFit
<1>3. Fit(c, R) /\ Fills1(b, c, o)
  <2> HIDE DEF b, c, R
  <2> QED BY <1>1, <1>2, ExecuteFits
<1>4. c \in Book
  <2> HIDE DEF b, c, R
  <2> QED BY <1>1, <1>2, FillMoves DEF Moves, Sound
<1>5. /\ o \in Live(b) \ C
      /\ C \subseteq Waiting(b, R) \cup Live(b)
      /\ ExitsOf(C) \cap Waiting(b, R) \subseteq C
      /\ PartnerOf[o] \in Waiting(b, R) \cup Live(b) => PartnerOf[o] \in C
      /\ Filled(c) = Filled(b) \cup {o}
      /\ CanceledIn(c) = CanceledIn(b) \cup C
      /\ Live(c) = (Live(b) \cup (ExitsOf({o}) \cap Waiting(b, R))) \ (C \cup {o})
      /\ Waiting(c, R) = Waiting(b, R) \ (C \cup ExitsOf({o}))
  <2>1. FillsAs(b, c, R, o)
    <3> HIDE DEF b, c, R
    <3> QED BY <1>1, <1>2, <1>3, <1>4, FillMaps
  <2> QED BY <2>1 DEF FillsAs
<1>6. Contingent!Fill(o, C)
  BY <1>5 DEF Contingent!Fill, Contingent!Droppable, Contingent!Exits, OpenPlain,
              OpenIn, Live, Waiting, Filled, CanceledIn, ExitsOf
<1> QED BY <1>6 DEF Contingent!Next, CanceledIn

LEMMA PlaceMaps ==
  ASSUME Inv, NEW o \in Roots, Submit(o)
  PROVE  Contingent!Next
<1> DEFINE b == book
           c == book'
           R == Submitted
           S == Live(c) \ Live(b)
<1>1. /\ S \subseteq Plain \ (Waiting(b, R) \cup Live(b) \cup Filled(b) \cup CanceledIn(b))
      /\ \A x \in S : /\ EntryOf[x] = NoOrder
                      /\ PartnerOf[x] # NoOrder => PartnerOf[x] \in S
      /\ Live(c) = Live(b) \cup S
      /\ Waiting(c, Submitted') = Waiting(b, R) \cup ExitsOf(S)
      /\ Filled(c) = Filled(b) /\ CanceledIn(c) = CanceledIn(b)
  BY SubmitMaps
<1>2. Contingent!Place(S)
  BY <1>1 DEF Contingent!Place, Contingent!Placed, Contingent!Exits, OpenPlain,
              OpenIn, Live, Waiting, Filled, CanceledIn, ExitsOf
<1> QED BY <1>2 DEF Contingent!Next, Live, OpenIn, OpenPlain

LEMMA StepMaps ==
  ASSUME Inv, [Next]_vars
  PROVE  Contingent!Next
<1>1. /\ book \in Book /\ Fit(book, Submitted) /\ Drops(book, book)
  BY DropsMore DEF Inv, TypeOK, OrdersFit
<1>2. CASE UNCHANGED vars
  <2>1. book' = book /\ Submitted' = Submitted
    BY <1>2 DEF vars, Submitted
  <2> QED BY <1>1, <2>1, QuietMaps
<1>3. ASSUME NEW o \in Roots, Submit(o) PROVE Contingent!Next
  BY <1>3, PlaceMaps
<1>4. ASSUME NEW o \in Orders, Cancel(o) PROVE Contingent!Next
  <2>1. Quiet(book, book', Submitted) /\ Submitted' = Submitted
    BY <1>4, CancelIs DEF Cancel, Submitted
  <2> QED BY <2>1, QuietMaps DEF Quiet, Sound
<1>5. CASE StartPass
  <2>1. book' = book /\ Submitted' = Submitted
    BY <1>5 DEF StartPass, Submitted
  <2> QED BY <1>1, <2>1, QuietMaps
<1>6. CASE ProcessOrder
  <2>1. Submitted' = Submitted
    BY <1>6 DEF ProcessOrder, Submitted
  <2>2. CASE Quiet(book, book', Submitted)
    BY <2>1, <2>2, QuietMaps DEF Quiet, Sound
  <2>3. ASSUME NEW p \in Nat, Trades(Head(todo), p) PROVE Contingent!Next
    BY <2>1, <2>3, TradeMaps DEF Trades
  <2> QED BY <1>6, <2>2, <2>3, ProcessIs
<1>7. CASE BookCash
  <2>1. Inv' /\ SameOrders(book, book') /\ Submitted' = Submitted
    BY <1>7, BookCashKeeps DEF BookCash, Submitted
  <2>2. book' \in Book /\ Fit(book', Submitted)
    BY <1>1, <2>1, FitSame DEF Inv, TypeOK
  <2>3. Drops(book, book')
    BY <1>1, <2>1 DEF SameOrders, Drops
  <2> QED BY <2>1, <2>2, <2>3, QuietMaps
<1>8. CASE EndFirstIteration
  <2>1. book' = book /\ Submitted' = Submitted
    BY <1>8 DEF EndFirstIteration, Submitted
  <2> QED BY <1>1, <2>1, QuietMaps
<1> QED BY <1>2, <1>3, <1>4, <1>5, <1>6, <1>7, <1>8 DEF Next

LEMMA InitMaps == Init => Contingent!Init
<1> SUFFICES ASSUME Init PROVE Contingent!Init
  OBVIOUS
<1>1. /\ \A o \in Orders : book.status[o] = "unprocessed"
      /\ book.new = <<>>
      /\ \A o \in Orders : born[o] = Never
  BY DEF Init
<1>2. Submitted = {} /\ ToSet(book.new) = {}
  BY <1>1 DEF Submitted, Roots, ToSet
<1> QED BY <1>1, <1>2 DEF Contingent!Init, OpenPlain, Plain, Traders

(* Apart from the legs of packages the broker keeps the promises of         *)
(* ContingentOrders about entries, exits and linked orders.                 *)
THEOREM BrokerImplementsContingent == Spec => ImplementsContingent
<1>1. Inv /\ [Next]_vars => [Contingent!Next]_(Contingent!vars)
  BY StepMaps
<1> QED BY <1>1, InitMaps, Invariance, PTL DEF Spec, ImplementsContingent, Contingent!Spec

(* No exit works or is filled before its entry is filled.                   *)
THEOREM ExitsAlwaysFollowEntry == Spec => []Contingent!ExitsFollowEntry
<1>1. ASSUME Inv PROVE Contingent!ExitsFollowEntry
  <2> SUFFICES ASSUME NEW o \in Plain, o \in Live(book) \cup Filled(book), EntryOf[o] # NoOrder
               PROVE  EntryOf[o] \in Filled(book)
    BY DEF Contingent!ExitsFollowEntry, OpenPlain, OpenIn, Live, Filled
  <2>1. EntryOf[o] \in Plain /\ EntryOf[o] \in Orders /\ Waits(EntryOf[o]) /\ o \in Kids[EntryOf[o]]
    BY EntryFacts
  <2>2. o \in ToSet(book.new) \/ book.status[o] = "filled"
    BY DEF Live, Filled
  <2> QED BY <1>1, <2>1, <2>2 DEF Inv, OrdersFit, Fit, ExitsFit, Filled
<1> QED BY <1>1, Invariance, PTL

(* Two orders linked to each other are never both filled.                   *)
THEOREM AtMostOneEverFills == Spec => []Contingent!AtMostOneExit
<1>1. ASSUME Inv PROVE Contingent!AtMostOneExit
  <2> SUFFICES ASSUME NEW o \in Filled(book) PROVE PartnerOf[o] \notin Filled(book)
    BY DEF Contingent!AtMostOneExit, Filled
  <2>1. o \in Plain /\ book.status[o] = "filled" /\ PartnerOf[o] = Terms[o].partner
    BY DEF Filled, PartnerOf
  <2>2. NoOrder \notin Plain
    BY BacktestAssumption DEF Plain, Traders
  <2>3. Terms[o].partner # NoOrder => book.status[Terms[o].partner] = "canceled"
    BY <1>1, <2>1 DEF Inv, OrdersFit, Fit, PartnersFit
  <2> QED BY <2>1, <2>2, <2>3 DEF Filled
<1> QED BY <1>1, Invariance, PTL

(* Entries and linked orders are as ContingentOrders requires.              *)
THEOREM TermsAreWellLinked == Contingent!WellLinked
<1>1. NoOrder \notin Plain /\ Plain \subseteq Orders
  BY BacktestAssumption DEF Plain, Traders
<1>2. EntryOf \in [Plain -> Plain \cup {NoOrder}]
  <2>1. \A o \in Plain : EntryOf[o] \in Plain \cup {NoOrder}
    BY EntryFacts
  <2>2. EntryOf = [o \in Plain |-> EntryOf[o]]
    BY DEF EntryOf
  <2> QED BY <2>1, <2>2
<1>3. ASSUME NEW o \in Plain, PartnerOf[o] # NoOrder
      PROVE  /\ PartnerOf[o] \in Plain /\ PartnerOf[PartnerOf[o]] = o
             /\ EntryOf[PartnerOf[o]] = EntryOf[o]
  <2> DEFINE q == Terms[o].partner
  <2>1. PartnerOf[o] = q /\ o \in Orders
    BY <1>1 DEF PartnerOf
  <2>2. /\ q \in Orders /\ Terms[q].partner = o
        /\ \E p \in Orders : /\ Terms[p].class \in {"bracket", "oco"}
                             /\ o \in Kids[p] /\ q \in Kids[p]
    BY <1>3, <2>1, PartnerFacts
  <2>3. PICK p \in Orders : /\ Terms[p].class \in {"bracket", "oco"}
                            /\ o \in Kids[p] /\ q \in Kids[p]
    BY <2>2
  <2>4. q \in Plain
    BY <2>2, <2>3, Kinds
  <2>5. EntryOf[q] = EntryOf[o]
    BY <2>3, <2>4, EntryFacts
  <2>6. PartnerOf[q] = Terms[q].partner
    BY <2>4 DEF PartnerOf
  <2> HIDE DEF q
  <2> QED BY <2>1, <2>2, <2>4, <2>5, <2>6
<1>4. PartnerOf \in [Plain -> Plain \cup {NoOrder}]
  <2>1. \A o \in Plain : PartnerOf[o] \in Plain \cup {NoOrder}
    BY <1>3
  <2>2. PartnerOf = [o \in Plain |-> PartnerOf[o]]
    BY DEF PartnerOf
  <2> QED BY <2>1, <2>2
<1> QED BY <1>1, <1>2, <1>3, <1>4 DEF Contingent!WellLinked
=============================================================================
