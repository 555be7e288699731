------------------------ MODULE OptionExpiry_proofs -------------------------
(* Safety of OptionExpiry for any contracts, prices, trading days and any   *)
(* number of orders: no contract is held overnight after its expiration has *)
(* been settled, an exercise is one that the account supports, and nothing  *)
(* but a trade changes what the account is worth at standing prices.        *)
EXTENDS OptionExpiry, SequenceTheorems, Sums, TLAPS

(* When after_market_closes is still to come, the closing minutes have      *)
(* begun, and a settlement comes right before it.  A pass that has begun is *)
(* always what is done next.                                                *)
AgendaInv ==
  \A k \in DOMAIN agenda :
    /\ agenda[k] = "night" => /\ time # "early"
                              /\ k > 1 => agenda[k - 1] \in {"expire", "expiring"}
    /\ agenda[k] = "expiring" => k = 1

(* The settlement has every expired contract on its list until it has       *)
(* settled it: what it delivers is no option.                               *)
PassInv ==
  Stage("expiring") => \A o \in Options : account.held[o] # 0 /\ Expired(o) => o \in todo

IInv == ExpiryTypeOK /\ AgendaInv /\ PassInv /\ NoneOverstays

-----------------------------------------------------------------------------
(* What is done to the account.                                             *)
LEMMA FilledOK ==
  ASSUME NEW acc \in Account, NEW a \in Assets, NEW q \in Int, NEW price \in Int
  PROVE  /\ Filled(acc, a, q, price) \in Account
         /\ Filled(acc, a, q, price).cash = acc.cash
         /\ Filled(acc, a, q, price).owed = acc.owed - q * price
         /\ Filled(acc, a, q, price).held[a] = acc.held[a] + q
         /\ \A b \in Assets \ {a} : Filled(acc, a, q, price).held[b] = acc.held[b]
<1>1. q * price \in Int
  OBVIOUS
<1> DEFINE c == q * price
           w == IF acc.held[a] + q = 0 /\ q < 0 /\ acc.working[a] < 0 THEN 0 ELSE acc.working[a]
           f == [acc EXCEPT !.owed = acc.owed - c,
                            !.held = [acc.held EXCEPT ![a] = acc.held[a] + q],
                            !.working = [acc.working EXCEPT ![a] = w]]
<1>2. acc.held[a] + q \in Int /\ w \in Int /\ acc.owed - c \in Int
  BY <1>1 DEF Account
<1> HIDE DEF c, w
<1>3. f \in Account /\ f.cash = acc.cash /\ f.owed = acc.owed - c
      /\ f.held = [acc.held EXCEPT ![a] = acc.held[a] + q]
  BY <1>2 DEF Account
<1>4. Filled(acc, a, q, price) = f
  BY DEF Filled, Account, c, w
<1>5. f.held[a] = acc.held[a] + q /\ \A b \in Assets \ {a} : f.held[b] = acc.held[b]
  <2>1. acc.held \in [Assets -> Int]
    BY DEF Account
  <2> HIDE DEF f
  <2> QED BY <1>3, <2>1
<1> HIDE DEF f
<1> QED BY <1>3, <1>4, <1>5 DEF c

LEMMA RemovedOK ==
  ASSUME NEW acc \in Account, NEW o \in Options
  PROVE  /\ Removed(acc, o) \in Account
         /\ Removed(acc, o).cash = acc.cash
         /\ Removed(acc, o).owed = acc.owed
         /\ Removed(acc, o).held[o] = 0
         /\ \A b \in Assets \ {o} : Removed(acc, o).held[b] = acc.held[b]
<1> DEFINE h == [acc.held EXCEPT ![o] = 0]
           w == [acc.working EXCEPT ![o] = 0]
<1>1. h \in [Assets -> Int] /\ w \in [Assets -> Int]
  <2>1. acc.held \in [Assets -> Int] /\ acc.working \in [Assets -> Int]
    BY DEF Account
  <2>2. \A e \in Int : [acc.held EXCEPT ![o] = e] \in [Assets -> Int]
                     /\ [acc.working EXCEPT ![o] = e] \in [Assets -> Int]
    BY <2>1
  <2>3. 0 \in Int
    OBVIOUS
  <2> QED BY <2>2, <2>3, Zenon
<1>2. Removed(acc, o) = [acc EXCEPT !.held = h, !.working = w]
  BY DEF Removed, Account
<1> HIDE DEF h, w
<1>3. /\ [acc EXCEPT !.held = h, !.working = w] \in Account
      /\ [acc EXCEPT !.held = h, !.working = w].cash = acc.cash
      /\ [acc EXCEPT !.held = h, !.working = w].owed = acc.owed
      /\ [acc EXCEPT !.held = h, !.working = w].held = h
  BY <1>1 DEF Account
<1>4. h[o] = 0 /\ \A b \in Assets \ {o} : h[b] = acc.held[b]
  <2>1. acc.held \in [Assets -> Int] /\ o \in Assets
    BY DEF Account, Assets
  <2> QED BY <2>1 DEF h
<1> QED BY <1>2, <1>3, <1>4

LEMMA TermsOK ==
  ASSUME NEW o \in Options
  PROVE  /\ Terms[o].underlying \in Underlyings /\ Terms[o].call \in BOOLEAN
         /\ Terms[o].strike \in Nat /\ Terms[o].expiration \in Nat
         /\ Multiplier \in Nat /\ o \notin Underlyings
BY ExpiryAssumption DEF Contract

LEMMA IntrinsicOK ==
  ASSUME market \in Markets, NEW o \in Options, Spot(o) # NoPrice
  PROVE  Intrinsic(o) \in Nat
<1>1. market \in Market
  BY ExpiryAssumption
<1>2. Spot(o) \in Nat
  BY <1>1, TermsOK DEF Spot, Market
<1> QED BY <1>2, TermsOK DEF Intrinsic, AtLeastZero

LEMMA PriceOK ==
  ASSUME market \in Markets, NEW a \in Assets, HasPrice(a)
  PROVE  Price(a) \in Int
<1>1. market \in Market
  BY ExpiryAssumption
<1>2. CASE a \in Options
  <2>1. market.extrinsic \in Nat /\ Intrinsic(a) \in Nat /\ Multiplier \in Nat
    BY <1>1, <1>2, IntrinsicOK, TermsOK DEF HasPrice, Market
  <2> QED BY <1>2, <2>1 DEF Price
<1>3. CASE a \notin Options
  BY <1>1, <1>3 DEF Price, HasPrice, Market, Assets
<1> QED BY <1>2, <1>3

LEMMA SharesOK ==
  ASSUME NEW o \in Options, NEW n \in Int
  PROVE  DeliveredShares(o, n) \in Int
BY TermsOK DEF DeliveredShares

LEMMA DeliveredOK ==
  ASSUME NEW acc \in Account, NEW o \in Options
  PROVE  /\ Delivered(acc, o) \in Account
         /\ Delivered(acc, o).cash = acc.cash
         /\ Delivered(acc, o).owed
              = acc.owed - DeliveredShares(o, acc.held[o]) * Terms[o].strike
         /\ Delivered(acc, o).held[o] = 0
         /\ \A p \in Options \ {o} : Delivered(acc, o).held[p] = acc.held[p]
         /\ Delivered(acc, o).held[Terms[o].underlying]
              = acc.held[Terms[o].underlying] + DeliveredShares(o, acc.held[o])
<1> DEFINE u == Terms[o].underlying
           q == DeliveredShares(o, acc.held[o])
           r == Removed(acc, o)
           f == Filled(r, u, q, Terms[o].strike)
<1>1. u \in Underlyings /\ u \in Assets /\ Terms[o].strike \in Int /\ u \notin Options
  BY TermsOK, ExpiryAssumption DEF Assets
<1>2. acc.held[o] \in Int /\ acc.held \in [Assets -> Int]
  BY DEF Account, Assets
<1>3. q \in Int
  BY <1>2, SharesOK
<1>4. r \in Account /\ r.cash = acc.cash /\ r.owed = acc.owed /\ r.held[o] = 0
      /\ \A b \in Assets \ {o} : r.held[b] = acc.held[b]
  BY RemovedOK
<1>5. Delivered(acc, o) = f
  BY DEF Delivered
<1> HIDE DEF q, r, u
<1>6. f \in Account /\ f.cash = r.cash /\ f.owed = r.owed - q * Terms[o].strike
      /\ f.held[u] = r.held[u] + q /\ \A b \in Assets \ {u} : f.held[b] = r.held[b]
  BY <1>1, <1>3, <1>4, FilledOK
<1> HIDE DEF f
<1>7. o \in Assets /\ u # o /\ \A p \in Options : p \in Assets \ {u}
  BY <1>1 DEF Assets
<1> QED BY <1>1, <1>4, <1>5, <1>6, <1>7 DEF q, u

LEMMA CashSettledOK ==
  ASSUME NEW acc \in Account, NEW o \in Options, market \in Markets, Spot(o) # NoPrice
  PROVE  /\ CashSettled(acc, o) \in Account
         /\ CashSettled(acc, o).owed = acc.owed
         /\ CashSettled(acc, o).held[o] = 0
         /\ \A b \in Assets \ {o} : CashSettled(acc, o).held[b] = acc.held[b]
<1> DEFINE r == Removed(acc, o)
           c == r.cash + Intrinsic(o) * acc.held[o] * Multiplier
<1>1. r \in Account /\ r.owed = acc.owed /\ r.held[o] = 0
      /\ \A b \in Assets \ {o} : r.held[b] = acc.held[b]
  BY RemovedOK
<1>2. c \in Int
  <2>1. Intrinsic(o) \in Int /\ acc.held[o] \in Int /\ Multiplier \in Int /\ r.cash \in Int
    BY <1>1, IntrinsicOK, TermsOK DEF Account, Assets
  <2> QED BY <2>1
<1>3. CashSettled(acc, o) = [r EXCEPT !.cash = c]
  BY DEF CashSettled
<1> HIDE DEF r, c
<1> QED BY <1>1, <1>2, <1>3 DEF Account

(* A settlement takes its contract away and no other's.                     *)
LEMMA SettledOK ==
  ASSUME NEW acc \in Account, NEW o \in Options, market \in Markets, Spot(o) # NoPrice
  PROVE  /\ Settled(acc, o) \in Account
         /\ Settled(acc, o).held[o] = 0
         /\ \A p \in Options \ {o} : Settled(acc, o).held[p] = acc.held[p]
<1>1. \A p \in Options \ {o} : p \in Assets \ {o}
  BY DEF Assets
<1>2. \/ Settled(acc, o) = Removed(acc, o)
      \/ Settled(acc, o) = CashSettled(acc, o)
      \/ Settled(acc, o) = Delivered(acc, o)
  BY DEF Settled
<1>3. CASE Settled(acc, o) = Removed(acc, o)
  BY <1>1, <1>3, RemovedOK
<1>4. CASE Settled(acc, o) = CashSettled(acc, o)
  BY <1>1, <1>4, CashSettledOK
<1>5. CASE Settled(acc, o) = Delivered(acc, o)
  BY <1>5, DeliveredOK
<1> QED BY <1>2, <1>3, <1>4, <1>5

LEMMA DrainedOK ==
  ASSUME NEW acc \in Account
  PROVE  Drained(acc) \in Account /\ Drained(acc).held = acc.held
<1>1. \A c \in Int, e \in Int : [acc EXCEPT !.cash = c, !.owed = e] \in Account
                              /\ [acc EXCEPT !.cash = c, !.owed = e].held = acc.held
  BY DEF Account
<1> DEFINE c == acc.cash + acc.owed
<1>2. c \in Int /\ 0 \in Int
  BY DEF Account
<1>3. Drained(acc) = [acc EXCEPT !.cash = c, !.owed = 0]
  BY DEF Drained
<1> HIDE DEF c
<1>4. [acc EXCEPT !.cash = c, !.owed = 0] \in Account
      /\ [acc EXCEPT !.cash = c, !.owed = 0].held = acc.held
  BY <1>1, <1>2, Zenon
<1> QED BY <1>3, <1>4, Zenon

LEMMA WorkingOK ==
  ASSUME NEW acc \in Account, NEW a \in Assets, NEW w \in Int
  PROVE  /\ [acc EXCEPT !.working[a] = w] \in Account
         /\ [acc EXCEPT !.working[a] = w].held = acc.held
<1> DEFINE f == [acc.working EXCEPT ![a] = w]
<1>1. f \in [Assets -> Int]
  <2>1. acc.working \in [Assets -> Int]
    BY DEF Account
  <2> QED BY <2>1
<1>2. [acc EXCEPT !.working[a] = w] = [acc EXCEPT !.working = f]
  OBVIOUS
<1> HIDE DEF f
<1>3. [acc EXCEPT !.working = f] \in Account /\ [acc EXCEPT !.working = f].held = acc.held
  BY <1>1 DEF Account
<1> QED BY <1>2, <1>3, Zenon

-----------------------------------------------------------------------------
(* What is done to the agenda.                                              *)
LEMMA Popped ==
  ASSUME agenda \in Seq(Stages), agenda # <<>>, AgendaInv, NEW stages \in Seq(Stages),
         \A k \in DOMAIN stages : stages[k] # "night" /\ (stages[k] = "expiring" => k = 1),
         First(stages), time' = "early" => time = "early",
         Head(agenda) \in {"expire", "expiring"} => stages = <<>> \/ stages = <<"expiring">>
  PROVE  /\ agenda' \in Seq(Stages) /\ AgendaInv'
         /\ Stage("night")' => /\ stages = <<>> /\ time # "early"
                               /\ Head(agenda) \in {"expire", "expiring"}
         /\ Stage("expiring")' => stages # <<>> /\ Head(stages) = "expiring"
<1> DEFINE n == Len(stages)
<1>1. n \in Nat /\ DOMAIN stages = 1..n
  OBVIOUS
<1>2. Len(agenda) \in Nat \ {0} /\ DOMAIN agenda = 1..Len(agenda) /\ Head(agenda) = agenda[1]
  OBVIOUS
<1>3. /\ Tail(agenda) \in Seq(Stages) /\ Len(Tail(agenda)) = Len(agenda) - 1
      /\ \A k \in 1..(Len(agenda) - 1) : Tail(agenda)[k] = agenda[k + 1]
  BY <1>2
<1>4. /\ agenda' \in Seq(Stages) /\ Len(agenda') = n + (Len(agenda) - 1)
      /\ \A k \in 1..n : agenda'[k] = stages[k]
      /\ \A k \in (n + 1)..(n + (Len(agenda) - 1)) : agenda'[k] = agenda[k - n + 1]
  <2>1. agenda' = stages \o Tail(agenda)
    BY DEF First
  <2>2. /\ Len(agenda') = n + Len(Tail(agenda)) /\ agenda' \in Seq(Stages)
        /\ \A k \in 1..(n + Len(Tail(agenda))) :
             agenda'[k] = IF k <= n THEN stages[k] ELSE Tail(agenda)[k - n]
    BY <1>3, <2>1, ConcatProperties
  <2> HIDE DEF n
  <2>3. \A k \in 1..n : agenda'[k] = stages[k]
    BY <1>1, <1>2, <1>3, <2>2
  <2>4. ASSUME NEW k \in (n + 1)..(n + (Len(agenda) - 1))
        PROVE  agenda'[k] = agenda[k - n + 1]
    <3>1. k \in 1..(n + Len(Tail(agenda))) /\ ~(k <= n) /\ k - n \in 1..(Len(agenda) - 1)
      BY <1>1, <1>2, <1>3
    <3> QED BY <1>3, <2>2, <3>1
  <2> QED BY <1>3, <2>2, <2>3, <2>4
<1>5. ASSUME NEW k \in DOMAIN agenda', agenda'[k] = "night"
      PROVE  /\ time # "early"
             /\ k > 1 => agenda'[k - 1] \in {"expire", "expiring"}
             /\ k = 1 => stages = <<>> /\ Head(agenda) \in {"expire", "expiring"}
  <2>1. k \in 1..(n + (Len(agenda) - 1))
    BY <1>4
  <2>2. k \notin 1..n
    BY <1>1, <1>4, <1>5
  <2> DEFINE j == k - n + 1
  <2>3. j \in 2..Len(agenda) /\ j \in DOMAIN agenda /\ k \in (n + 1)..(n + (Len(agenda) - 1))
    <3> HIDE DEF n
    <3> QED BY <1>1, <1>2, <2>1, <2>2
  <2>4. agenda[j] = "night"
    BY <1>4, <1>5, <2>3
  <2>5. time # "early" /\ agenda[j - 1] \in {"expire", "expiring"}
    <3> HIDE DEF j
    <3> QED BY <2>3, <2>4 DEF AgendaInv
  <2>6. CASE j > 2
    <3>1. k - 1 \in (n + 1)..(n + (Len(agenda) - 1)) /\ j - 1 = (k - 1) - n + 1 /\ k # 1
      <4> HIDE DEF n
      <4> QED BY <1>1, <1>2, <2>3, <2>6
    <3>2. agenda'[k - 1] = agenda[j - 1]
      BY <1>4, <3>1
    <3> QED BY <2>5, <3>1, <3>2
  <2>7. CASE j = 2
    <3>1. k = n + 1 /\ j - 1 = 1
      <4> HIDE DEF n
      <4> QED BY <1>1, <2>1, <2>7
    <3>2. Head(agenda) \in {"expire", "expiring"}
      BY <1>2, <2>5, <3>1
    <3>3. stages = <<>> \/ stages = <<"expiring">>
      BY <3>2
    <3>4. CASE stages = <<>>
      BY <2>5, <3>1, <3>2, <3>4
    <3>5. CASE stages = <<"expiring">>
      <4>1. n = 1 /\ stages[1] = "expiring"
        BY <3>5
      <4>2. agenda'[1] = "expiring" /\ k = 2
        BY <1>4, <3>1, <4>1
      <4> QED BY <2>5, <4>2
    <3> QED BY <3>3, <3>4, <3>5
  <2> HIDE DEF j
  <2> QED BY <2>3, <2>6, <2>7
<1>6. ASSUME NEW k \in DOMAIN agenda', agenda'[k] = "expiring"
      PROVE  k = 1 /\ stages # <<>> /\ Head(stages) = "expiring"
  <2>1. k \in 1..(n + (Len(agenda) - 1))
    BY <1>4
  <2>2. CASE k \in 1..n
    <3>1. stages[k] = "expiring"
      BY <1>4, <1>6, <2>2
    <3> QED BY <1>1, <2>2, <3>1
  <2>3. CASE k \notin 1..n
    <3> DEFINE j == k - n + 1
    <3>1. j \in DOMAIN agenda /\ j # 1 /\ k \in (n + 1)..(n + (Len(agenda) - 1))
      <4> HIDE DEF n
      <4> QED BY <1>1, <1>2, <2>1, <2>3
    <3>2. agenda[j] = "expiring"
      BY <1>4, <1>6, <3>1
    <3> HIDE DEF j
    <3> QED BY <3>1, <3>2 DEF AgendaInv
  <2> QED BY <2>2, <2>3
<1>7. AgendaInv'
  <2>1. \A k \in DOMAIN agenda' :
          /\ agenda'[k] = "night" => /\ time' # "early"
                                     /\ k > 1 => agenda'[k - 1] \in {"expire", "expiring"}
          /\ agenda'[k] = "expiring" => k = 1
    BY <1>5, <1>6
  <2> QED BY <2>1 DEF AgendaInv
<1>8. agenda' # <<>> => 1 \in DOMAIN agenda' /\ Head(agenda') = agenda'[1]
  BY <1>4
<1> QED BY <1>4, <1>5, <1>6, <1>7, <1>8 DEF Stage

-----------------------------------------------------------------------------
(* Elsewhere than in a settlement and in the night only the types and the   *)
(* agenda matter.                                                           *)
LEMMA Elsewhere ==
  ASSUME ~Stage("expiring")', ~Stage("night")'
  PROVE  PassInv' /\ NoneOverstays'
BY DEF PassInv, NoneOverstays, Stage

LEMMA StageAt ==
  ASSUME IInv, NEW s, Stage(s)
  PROVE  agenda \in Seq(Stages) /\ agenda # <<>> /\ Head(agenda) = s
BY DEF IInv, ExpiryTypeOK, Stage

(* A stage that is no settlement is over, and something else comes first.   *)
LEMMA StageOver ==
  ASSUME IInv, NEW s, Stage(s), s \notin {"expire", "expiring"},
         NEW stages \in Seq(Stages),
         \A k \in DOMAIN stages : stages[k] \notin {"night", "expiring"},
         First(stages), time' = "early" => time = "early"
  PROVE  agenda' \in Seq(Stages) /\ AgendaInv' /\ PassInv' /\ NoneOverstays'
<1>1. agenda \in Seq(Stages) /\ agenda # <<>> /\ Head(agenda) = s
  BY StageAt
<1>2. /\ agenda' \in Seq(Stages) /\ AgendaInv' /\ ~Stage("night")'
      /\ Stage("expiring")' => stages # <<>> /\ Head(stages) = "expiring"
  BY <1>1, Popped DEF IInv
<1>3. stages # <<>> => 1 \in DOMAIN stages /\ Head(stages) = stages[1]
  OBVIOUS
<1>4. ~Stage("expiring")'
  BY <1>2, <1>3
<1> QED BY <1>2, <1>4, Elsewhere

LEMMA SubmitKeeps == ASSUME IInv, Submit PROVE IInv'
<1>1. UNCHANGED <<day, time, market, daily, agenda, todo, assessed>> /\ orders' = orders + 1
      /\ orders < MaxOrders
  BY DEF Submit
<1>2. PICK a \in Assets \ Indices, q \in {1, -1} :
        account' = [account EXCEPT !.working[a] = IF a \in Options THEN q ELSE q * Multiplier]
  BY DEF Submit
<1> DEFINE w == IF a \in Options THEN q ELSE q * Multiplier
<1>3. w \in Int
  BY ExpiryAssumption
<1>4. account' = [account EXCEPT !.working[a] = w]
  BY <1>2
<1> HIDE DEF w
<1>5. account' \in Account /\ account'.held = account.held
  BY <1>3, <1>4, WorkingOK DEF IInv, ExpiryTypeOK
<1>6. orders' \in 0..MaxOrders
  BY <1>1, ExpiryAssumption DEF IInv, ExpiryTypeOK
<1>7. ExpiryTypeOK'
  BY <1>1, <1>5, <1>6 DEF IInv, ExpiryTypeOK
<1>8. AgendaInv' /\ PassInv' /\ NoneOverstays'
  BY <1>1, <1>5 DEF IInv, AgendaInv, PassInv, NoneOverstays, Stage, Expired
<1> QED BY <1>7, <1>8 DEF IInv

LEMMA EndMethodKeeps ==
  ASSUME IInv, NEW s, s \notin {"expire", "expiring"}, NEW stages \in Seq(Stages),
         \A k \in DOMAIN stages : stages[k] \notin {"night", "expiring"},
         EndMethod(s, stages)
  PROVE  IInv'
<1>1. Stage(s) /\ First(stages) /\ UNCHANGED <<day, time, market, daily, todo, assessed, orders>>
  BY DEF EndMethod
<1>2. account' \in Account
  BY DrainedOK DEF EndMethod, IInv, ExpiryTypeOK
<1>3. agenda' \in Seq(Stages) /\ AgendaInv' /\ PassInv' /\ NoneOverstays'
  BY <1>1, StageOver
<1>4. ExpiryTypeOK'
  BY <1>1, <1>2, <1>3 DEF IInv, ExpiryTypeOK
<1> QED BY <1>3, <1>4 DEF IInv

LEMMA EmptyStages == <<>> \in Seq(Stages) /\ \A k \in DOMAIN <<>> : FALSE
OBVIOUS

LEMMA MethodsKeep ==
  ASSUME IInv, EndOpening \/ EndIteration \/ EndHook \/ EndNight PROVE IInv'
<1>1. <<"pending", "morning">> \in Seq(Stages)
      /\ \A k \in DOMAIN <<"pending", "morning">> :
           <<"pending", "morning">>[k] \notin {"night", "expiring"}
  BY DEF Stages
<1>2. CASE EndOpening
  BY <1>2, EmptyStages, EndMethodKeeps DEF EndOpening
<1>3. CASE EndIteration
  BY <1>3, EmptyStages, EndMethodKeeps DEF EndIteration
<1>4. CASE EndHook
  BY <1>4, EmptyStages, EndMethodKeeps DEF EndHook
<1>5. CASE EndNight
  BY <1>1, <1>5, EndMethodKeeps DEF EndNight
<1> QED BY <1>2, <1>3, <1>4, <1>5

LEMMA FillKeeps == ASSUME IInv, Fill PROVE IInv'
<1>1. Stage("pending") /\ UNCHANGED <<day, time, market, daily, agenda, todo, assessed, orders>>
  BY DEF Fill
<1>2. PICK a \in Assets :
        /\ HasPrice(a)
        /\ account' = Filled([account EXCEPT !.working[a] = 0], a, account.working[a], Price(a))
  BY DEF Fill
<1>3. account \in Account /\ account.working[a] \in Int /\ Price(a) \in Int
  <2>1. account \in Account
    BY DEF IInv, ExpiryTypeOK
  <2>2. account.working[a] \in Int
    BY <2>1 DEF Account
  <2>3. Price(a) \in Int
    BY <1>2, PriceOK DEF IInv, ExpiryTypeOK
  <2> QED BY <2>1, <2>2, <2>3
<1>4. account' \in Account
  <2>1. \A w \in Int : [account EXCEPT !.working[a] = w] \in Account
    BY <1>3, WorkingOK
  <2>2. [account EXCEPT !.working[a] = 0] \in Account
    <3>1. 0 \in Int
      OBVIOUS
    <3> QED BY <2>1, <3>1, Zenon
  <2> QED BY <1>2, <1>3, <2>2, FilledOK
<1>5. ExpiryTypeOK'
  BY <1>1, <1>4 DEF IInv, ExpiryTypeOK
<1>6. AgendaInv' /\ ~Stage("expiring")' /\ ~Stage("night")'
  BY <1>1 DEF IInv, AgendaInv, Stage
<1> QED BY <1>5, <1>6, Elsewhere DEF IInv

LEMMA EndPendingKeeps == ASSUME IInv, EndPending PROVE IInv'
<1> DEFINE stages == IF daily THEN <<"assign", "expire">> ELSE <<"assign">>
<1>1. /\ Stage("pending") /\ First(stages)
      /\ UNCHANGED <<account, day, time, market, daily, todo, assessed, orders>>
  BY DEF EndPending
<1>2. stages \in Seq(Stages) /\ \A k \in DOMAIN stages : stages[k] \notin {"night", "expiring"}
  <2>1. /\ <<"assign", "expire">> \in Seq(Stages) /\ <<"assign">> \in Seq(Stages)
        /\ \A k \in DOMAIN <<"assign", "expire">> :
             <<"assign", "expire">>[k] \notin {"night", "expiring"}
        /\ \A k \in DOMAIN <<"assign">> : <<"assign">>[k] \notin {"night", "expiring"}
    BY DEF Stages
  <2> QED BY <2>1, Zenon
<1> HIDE DEF stages
<1>3. agenda' \in Seq(Stages) /\ AgendaInv' /\ PassInv' /\ NoneOverstays'
  BY <1>1, <1>2, StageOver
<1>4. ExpiryTypeOK'
  BY <1>1, <1>3 DEF IInv, ExpiryTypeOK
<1> QED BY <1>3, <1>4 DEF IInv

LEMMA StartAssignmentKeeps == ASSUME IInv, StartAssignment PROVE IInv'
<1>1. /\ Stage("assign") /\ (First(<<"assigning">>) \/ First(<<>>))
      /\ UNCHANGED <<account, day, time, market, daily, orders>>
  BY DEF StartAssignment
<1>2. todo' \subseteq Options /\ assessed' \in TradingDays \cup {0}
  BY DEF StartAssignment, IInv, ExpiryTypeOK
<1>3. agenda' \in Seq(Stages) /\ AgendaInv' /\ PassInv' /\ NoneOverstays'
  <2>1. <<"assigning">> \in Seq(Stages)
        /\ \A k \in DOMAIN <<"assigning">> : <<"assigning">>[k] \notin {"night", "expiring"}
    BY DEF Stages
  <2>2. Stage("assign") /\ (First(<<"assigning">>) \/ First(<<>>)) /\ time' = time
    BY DEF StartAssignment
  <2>3. CASE First(<<"assigning">>)
    BY <2>1, <2>2, <2>3, StageOver
  <2>4. CASE First(<<>>)
    BY <2>2, <2>4, EmptyStages, StageOver
  <2> QED BY <2>2, <2>3, <2>4
<1>4. ExpiryTypeOK'
  BY <1>1, <1>2, <1>3 DEF IInv, ExpiryTypeOK
<1> QED BY <1>3, <1>4 DEF IInv

LEMMA AssessKeeps == ASSUME IInv, NEW o \in Options, Assess(o) PROVE IInv'
<1>1. /\ Stage("assigning") /\ todo' = todo \ {o}
      /\ UNCHANGED <<day, time, market, daily, agenda, assessed, orders>>
  BY DEF Assess
<1>2. account' \in Account
  <2>1. account \in Account
    BY DEF IInv, ExpiryTypeOK
  <2> QED BY <2>1, DeliveredOK DEF Assess
<1>3. ExpiryTypeOK'
  BY <1>1, <1>2 DEF IInv, ExpiryTypeOK
<1>4. AgendaInv' /\ ~Stage("expiring")' /\ ~Stage("night")'
  BY <1>1 DEF IInv, AgendaInv, Stage
<1> QED BY <1>3, <1>4, Elsewhere DEF IInv

LEMMA StartExpiryKeeps == ASSUME IInv, StartExpiry PROVE IInv'
<1>1. /\ Stage("expire") /\ First(<<"expiring">>)
      /\ todo' = {o \in Options : account.held[o] # 0 /\ Expired(o)}
      /\ UNCHANGED <<account, day, time, market, daily, assessed, orders>>
  BY DEF StartExpiry
<1>2. agenda \in Seq(Stages) /\ agenda # <<>> /\ Head(agenda) = "expire"
  BY <1>1, StageAt
<1>3. <<"expiring">> \in Seq(Stages)
      /\ \A k \in DOMAIN <<"expiring">> : <<"expiring">>[k] # "night" /\ k = 1
  BY DEF Stages
<1>4. <<"expiring">> # <<>>
  OBVIOUS
<1>5. agenda' \in Seq(Stages) /\ AgendaInv' /\ ~Stage("night")'
  BY <1>1, <1>2, <1>3, <1>4, Popped DEF IInv
<1>6. PassInv' /\ NoneOverstays'
  BY <1>1, <1>5 DEF PassInv, NoneOverstays, Stage, Expired
<1>7. ExpiryTypeOK'
  BY <1>1, <1>5 DEF IInv, ExpiryTypeOK
<1> QED BY <1>5, <1>6, <1>7 DEF IInv

LEMMA SettleKeeps == ASSUME IInv, NEW o \in Options, Settle(o) PROVE IInv'
<1>1. /\ Stage("expiring") /\ account' = Settled(account, o) /\ todo' = todo \ {o}
      /\ Spot(o) # NoPrice /\ UNCHANGED <<day, time, market, daily, agenda, assessed, orders>>
  BY DEF Settle
<1>2. /\ account' \in Account /\ account'.held[o] = 0
      /\ \A p \in Options \ {o} : account'.held[p] = account.held[p]
  <2>1. account \in Account /\ market \in Markets
    BY DEF IInv, ExpiryTypeOK
  <2> QED BY <1>1, <2>1, SettledOK
<1>3. ExpiryTypeOK'
  BY <1>1, <1>2 DEF IInv, ExpiryTypeOK
<1>4. AgendaInv' /\ ~Stage("night")'
  BY <1>1 DEF IInv, AgendaInv, Stage
<1>5. PassInv'
  BY <1>1, <1>2 DEF IInv, PassInv, Stage, Expired
<1>6. NoneOverstays'
  BY <1>4 DEF NoneOverstays, Stage
<1> QED BY <1>3, <1>4, <1>5, <1>6 DEF IInv

(* A contract that is not expired in the closing minutes is one of a later  *)
(* day.                                                                     *)
LEMMA NotExpired ==
  ASSUME ExpiryTypeOK, NEW o \in Options, time # "early", ~Expired(o)
  PROVE  Terms[o].expiration > day
<1>1. Terms[o].expiration \in Nat /\ day \in Nat
  BY TermsOK, ExpiryAssumption DEF ExpiryTypeOK
<1> QED BY <1>1 DEF Expired

LEMMA EndPassKeeps == ASSUME IInv, EndPass PROVE IInv'
<1>1. /\ Stage("assigning") \/ Stage("expiring")
      /\ First(<<>>) /\ todo = {}
      /\ UNCHANGED <<account, day, time, market, daily, todo, assessed, orders>>
  BY DEF EndPass
<1>2. CASE Stage("assigning")
  <2>1. agenda' \in Seq(Stages) /\ AgendaInv' /\ PassInv' /\ NoneOverstays'
    BY <1>1, <1>2, EmptyStages, StageOver
  <2>2. ExpiryTypeOK'
    BY <1>1, <2>1 DEF IInv, ExpiryTypeOK
  <2> QED BY <2>1, <2>2 DEF IInv
<1>3. CASE Stage("expiring")
  <2>1. agenda \in Seq(Stages) /\ agenda # <<>> /\ Head(agenda) = "expiring"
    BY <1>3, StageAt
  <2>2. /\ agenda' \in Seq(Stages) /\ AgendaInv' /\ ~Stage("expiring")'
        /\ Stage("night")' => time # "early"
    BY <1>1, <2>1, EmptyStages, Popped DEF IInv
  <2>3. \A o \in Options : account.held[o] # 0 => ~Expired(o)
    BY <1>1, <1>3 DEF IInv, PassInv
  <2>4. Stage("night")' => \A o \in Options : account.held[o] # 0 => Terms[o].expiration > day
    BY <2>2, <2>3, NotExpired DEF IInv
  <2>5. NoneOverstays'
    BY <1>1, <2>4 DEF NoneOverstays, Stage
  <2>6. PassInv'
    BY <2>2 DEF PassInv, Stage
  <2>7. ExpiryTypeOK'
    BY <1>1, <2>2 DEF IInv, ExpiryTypeOK
  <2> QED BY <2>2, <2>5, <2>6, <2>7 DEF IInv
<1> QED BY <1>1, <1>2, <1>3

LEMMA AbortKeeps == ASSUME IInv, NEW o \in Options, Abort(o) PROVE IInv'
<1>1. agenda' = <<>> /\ UNCHANGED <<account, day, time, market, daily, todo, assessed, orders>>
  BY DEF Abort, Instead
<1>2. ExpiryTypeOK' /\ AgendaInv' /\ ~Stage("expiring")' /\ ~Stage("night")'
  BY <1>1 DEF IInv, ExpiryTypeOK, AgendaInv, Stage
<1> QED BY <1>2, Elsewhere DEF IInv

(* The agendas that the loop is left and a day is begun with.               *)
LEMMA Agendas ==
  ASSUME NEW s \in {Iterate, Evening, <<"expire">> \o Evening,
                    <<"pending", "opening", "pending">> \o Iterate},
         agenda' = s,
         time' = "early" => s \notin {Evening, <<"expire">> \o Evening}
  PROVE  agenda' \in Seq(Stages) /\ AgendaInv' /\ ~Stage("expiring")' /\ ~Stage("night")'
<1>1. /\ Iterate = <<"iteration", "pending", "sleep">>
      /\ Evening = <<"pending", "nearing", "hook", "pending", "closing", "expire", "night">>
      /\ Iterate \in Seq(Stages) /\ Evening \in Seq(Stages)
  BY DEF Iterate, Evening, Stages
<1>2. CASE s = Iterate
  BY <1>1, <1>2 DEF AgendaInv, Stage, Stages
<1>3. CASE s = Evening
  <2>1. time' # "early"
    BY <1>3
  <2>2. agenda' = <<"pending", "nearing", "hook", "pending", "closing", "expire", "night">>
    BY <1>1, <1>3
  <2>3. agenda' \in Seq(Stages) /\ ~Stage("expiring")' /\ ~Stage("night")'
    BY <2>2 DEF Stage, Stages
  <2>4. \A k \in DOMAIN agenda' : /\ agenda'[k] = "night" => k = 7
                                 /\ agenda'[k] # "expiring"
    BY <2>2
  <2>5. agenda'[7 - 1] = "expire"
    BY <2>2
  <2> QED BY <2>1, <2>3, <2>4, <2>5 DEF AgendaInv
<1>4. CASE s = <<"expire">> \o Evening
  <2>1. time' # "early"
    BY <1>4
  <2>2. <<"expire">> \in Seq(Stages) /\ Len(<<"expire">>) = 1 /\ <<"expire">>[1] = "expire"
    BY DEF Stages
  <2>3. /\ Len(Evening) = 7 /\ Evening[6] = "expire"
        /\ \A k \in 1..7 : (Evening[k] = "night" => k = 7) /\ Evening[k] # "expiring"
    BY <1>1
  <2>4. /\ agenda' \in Seq(Stages) /\ Len(agenda') = 1 + 7
        /\ \A k \in 1..(1 + 7) : agenda'[k] = IF k <= 1 THEN <<"expire">>[k] ELSE Evening[k - 1]
    BY <1>1, <1>4, <2>2, <2>3, ConcatProperties
  <2>5. /\ DOMAIN agenda' = 1..8 /\ agenda' # <<>> /\ agenda'[1] = "expire"
        /\ \A k \in 2..8 : agenda'[k] = Evening[k - 1]
    BY <2>2, <2>4
  <2>6. /\ agenda'[8 - 1] = "expire" /\ Head(agenda') = "expire"
        /\ \A k \in 1..8 : (agenda'[k] = "night" => k = 8) /\ agenda'[k] # "expiring"
    BY <2>3, <2>4, <2>5
  <2> QED BY <2>1, <2>4, <2>5, <2>6 DEF AgendaInv, Stage
<1>5. CASE s = <<"pending", "opening", "pending">> \o Iterate
  <2> DEFINE m == <<"pending", "opening", "pending">>
  <2>1. /\ m \in Seq(Stages) /\ Len(m) = 3 /\ m[1] = "pending"
        /\ \A k \in 1..3 : m[k] \notin {"night", "expiring"}
    BY DEF Stages
  <2>2. Len(Iterate) = 3 /\ \A k \in 1..3 : Iterate[k] \notin {"night", "expiring"}
    BY <1>1
  <2> HIDE DEF m
  <2>3. /\ agenda' \in Seq(Stages) /\ Len(agenda') = 3 + 3
        /\ \A k \in 1..(3 + 3) : agenda'[k] = IF k <= 3 THEN m[k] ELSE Iterate[k - 3]
    BY <1>1, <1>5, <2>1, <2>2, ConcatProperties DEF m
  <2>4. /\ DOMAIN agenda' = 1..6 /\ Head(agenda') = "pending"
        /\ \A k \in 1..6 : agenda'[k] \notin {"night", "expiring"}
    BY <2>1, <2>2, <2>3
  <2> QED BY <2>3, <2>4 DEF AgendaInv, Stage
<1> QED BY <1>2, <1>3, <1>4, <1>5

LEMMA SleepKeeps == ASSUME IInv, Sleep PROVE IInv'
<1> DEFINE Leave == <<"expire">> \o Evening
<1>1. UNCHANGED <<day, daily, todo, assessed, orders>>
  BY DEF Sleep
<1>2. /\ account' \in Account /\ market' \in Markets /\ time' \in Times /\ time' # "early"
      /\ agenda' \in {Iterate, Evening, Leave}
  <2>1. account \in Account /\ Drained(account) \in Account /\ market \in Markets
    BY DrainedOK DEF IInv, ExpiryTypeOK
  <2>2. CASE time # "early"
    BY <2>1, <2>2 DEF Sleep, Instead, IInv, ExpiryTypeOK
  <2>3. CASE time = "early"
    BY <2>1, <2>3 DEF Sleep, Instead, Times
  <2> QED BY <2>2, <2>3
<1>3. agenda' \in Seq(Stages) /\ AgendaInv' /\ ~Stage("expiring")' /\ ~Stage("night")'
  BY <1>2, Agendas
<1>4. ExpiryTypeOK'
  BY <1>1, <1>2, <1>3 DEF IInv, ExpiryTypeOK
<1> QED BY <1>3, <1>4, Elsewhere DEF IInv

LEMMA AwaitKeeps ==
  ASSUME IInv, Await("nearing", "near") \/ Await("closing", "closed") PROVE IInv'
<1>1. PICK s \in {"nearing", "closing"}, until \in {"near", "closed"} : Await(s, until)
  OBVIOUS
<1>2. /\ Stage(s) /\ First(<<>>)
      /\ UNCHANGED <<account, day, daily, todo, assessed, orders>>
      /\ (time' = time /\ market' = market) \/ (time' = until /\ market' \in Markets)
  <2>1. Stage(s) /\ First(<<>>) /\ UNCHANGED <<account, day, daily, todo, assessed, orders>>
    BY <1>1 DEF Await
  <2>2. (time' = time /\ market' = market) \/ (time' = until /\ market' \in Markets)
    BY <1>1 DEF Await
  <2> QED BY <2>1, <2>2
<1>3. time' \in Times /\ market' \in Markets /\ (time' = "early" => time = "early")
  BY <1>2 DEF IInv, ExpiryTypeOK, Times
<1>4. agenda' \in Seq(Stages) /\ AgendaInv' /\ PassInv' /\ NoneOverstays'
  BY <1>2, <1>3, EmptyStages, StageOver
<1>5. ExpiryTypeOK'
  BY <1>2, <1>3, <1>4 DEF IInv, ExpiryTypeOK
<1> QED BY <1>4, <1>5 DEF IInv

LEMMA MorningKeeps == ASSUME IInv, Morning PROVE IInv'
<1>1. /\ day' \in TradingDays /\ time' = "early" /\ market' \in Markets
      /\ agenda' = <<"pending", "opening", "pending">> \o Iterate
      /\ UNCHANGED <<account, daily, todo, assessed, orders>>
  BY DEF Morning, Instead
<1>2. <<"pending", "opening", "pending">> \o Iterate \notin {Evening, <<"expire">> \o Evening}
  <2>1. Iterate \in Seq(Stages) /\ Len(Iterate) = 3 /\ Evening \in Seq(Stages) /\ Len(Evening) = 7
    BY DEF Iterate, Evening, Stages
  <2> DEFINE m == <<"pending", "opening", "pending">>
             e == <<"expire">>
  <2>2. m \in Seq(Stages) /\ Len(m) = 3 /\ e \in Seq(Stages) /\ Len(e) = 1
    BY DEF Stages
  <2> HIDE DEF m, e
  <2>3. Len(m \o Iterate) = 3 + 3
    <3>1. Len(m \o Iterate) = Len(m) + Len(Iterate)
      BY <2>1, <2>2, ConcatProperties, Zenon
    <3> QED BY <2>1, <2>2, <3>1
  <2>4. Len(e \o Evening) = 1 + 7
    <3>1. Len(e \o Evening) = Len(e) + Len(Evening)
      BY <2>1, <2>2, ConcatProperties, Zenon
    <3> QED BY <2>1, <2>2, <3>1
  <2>5. m \o Iterate # Evening /\ m \o Iterate # e \o Evening
    <3>1. 3 + 3 # 7 /\ 3 + 3 # 1 + 7
      OBVIOUS
    <3> QED BY <2>1, <2>3, <2>4, <3>1, Zenon
  <2> QED BY <2>5, Zenon DEF m, e
<1>3. agenda' \in Seq(Stages) /\ AgendaInv' /\ ~Stage("expiring")' /\ ~Stage("night")'
  BY <1>1, <1>2, Agendas
<1>4. ExpiryTypeOK'
  BY <1>1, <1>3 DEF IInv, ExpiryTypeOK, Times
<1> QED BY <1>3, <1>4, Elsewhere DEF IInv

-----------------------------------------------------------------------------
LEMMA InitOK == ExpiryInit => IInv
<1> SUFFICES ASSUME ExpiryInit PROVE IInv
  OBVIOUS
<1>1. account \in Account
  <2>1. account = [cash |-> Budget, owed |-> 0,
                   held |-> [a \in Assets |-> 0], working |-> [a \in Assets |-> 0]]
    BY DEF ExpiryInit
  <2>2. Budget \in Int /\ [a \in Assets |-> 0] \in [Assets -> Int]
    BY ExpiryAssumption
  <2> QED BY <2>1, <2>2 DEF Account
<1>2. agenda \in Seq(Stages) /\ AgendaInv /\ ~Stage("expiring") /\ ~Stage("night")
  BY DEF ExpiryInit, Iterate, Stages, AgendaInv, Stage
<1>3. ExpiryTypeOK
  BY <1>1, <1>2, ExpiryAssumption DEF ExpiryInit, ExpiryTypeOK, Times
<1> QED BY <1>2, <1>3 DEF IInv, PassInv, NoneOverstays

LEMMA StepOK == IInv /\ [ExpiryNext]_vars => IInv'
<1> SUFFICES ASSUME IInv, [ExpiryNext]_vars PROVE IInv'
  OBVIOUS
<1>1. CASE Submit
  BY <1>1, SubmitKeeps
<1>2. CASE EndOpening \/ EndIteration \/ EndHook \/ EndNight
  BY <1>2, MethodsKeep
<1>3. CASE Fill
  BY <1>3, FillKeeps
<1>4. CASE EndPending
  BY <1>4, EndPendingKeeps
<1>5. CASE StartAssignment
  BY <1>5, StartAssignmentKeeps
<1>6. CASE StartExpiry
  BY <1>6, StartExpiryKeeps
<1>7. CASE EndPass
  BY <1>7, EndPassKeeps
<1>8. ASSUME NEW o \in Options, Assess(o) \/ Settle(o) \/ Abort(o) PROVE IInv'
  BY <1>8, AssessKeeps, SettleKeeps, AbortKeeps
<1>9. CASE Sleep
  BY <1>9, SleepKeeps
<1>10. CASE Await("nearing", "near") \/ Await("closing", "closed")
  BY <1>10, AwaitKeeps
<1>11. CASE Morning
  BY <1>11, MorningKeeps
<1>12. CASE UNCHANGED vars
  BY <1>12 DEF vars, IInv, ExpiryTypeOK, AgendaInv, PassInv, NoneOverstays, Stage, Expired
<1> QED BY <1>1, <1>2, <1>3, <1>4, <1>5, <1>6, <1>7, <1>8, <1>9, <1>10, <1>11, <1>12
        DEF ExpiryNext

LEMMA Invariance == ExpirySpec => []IInv
<1>1. ExpiryInit => IInv
  BY InitOK
<1>2. IInv /\ [ExpiryNext]_vars => IInv'
  BY StepOK
<1> QED BY <1>1, <1>2, PTL DEF ExpirySpec

(* After the settlement at the end of a day the strategy holds no contract  *)
(* whose last day that was or that expired before it, whatever orders were  *)
(* filled between the passes (process_expired_option_contracts).            *)
THEOREM ExpiredAreGone == ExpirySpec => []NoneOverstays
<1>1. ExpirySpec => []IInv
  BY Invariance
<1>2. IInv => NoneOverstays
  BY DEF IInv
<1> QED BY <1>1, <1>2, PTL

(* The account, the clock, the agenda and the lists stay in their types.    *)
THEOREM TypesAreKept == ExpirySpec => []ExpiryTypeOK
<1>1. ExpirySpec => []IInv
  BY Invariance
<1>2. IInv => ExpiryTypeOK
  BY DEF IInv
<1> QED BY <1>1, <1>2, PTL

-----------------------------------------------------------------------------
(* What an exercise delivers is what the account was tested for.            *)
Supported(o) ==
  LET u == Terms[o].underlying
  IN  /\ account'.held[u] < account.held[u] => account'.held[u] >= 0
      /\ account'.owed < account.owed
           => account'.cash + account'.owed >= IF account.owed < 0 THEN account.owed ELSE 0

LEMMA ExerciseOK ==
  ASSUME ExpiryTypeOK, NEW o \in Options, account.held[o] > 0, Settle(o),
         account'.owed # account.owed
  PROVE  Supported(o)
<1> DEFINE n == account.held[o]
           k == Terms[o].strike
           u == Terms[o].underlying
           q == DeliveredShares(o, n)
           m == Multiplier * n
<1>1. account \in Account /\ market \in Markets /\ Spot(o) # NoPrice /\ account' = Settled(account, o)
  BY DEF ExpiryTypeOK, Settle
<1>2. account' = Delivered(account, o) /\ CanSupportLongExercise(account, o)
  <2>1. Removed(account, o).owed = account.owed /\ CashSettled(account, o).owed = account.owed
    BY <1>1, RemovedOK, CashSettledOK
  <2> QED BY <1>1, <2>1 DEF Settled
<1>3. /\ account'.cash = account.cash
      /\ account'.owed = account.owed - q * k
      /\ account'.held[u] = account.held[u] + q
  BY <1>1, <1>2, DeliveredOK
<1>4. /\ n \in Int /\ n > 0 /\ k \in Nat /\ Multiplier \in Nat /\ account.cash \in Int
      /\ account.owed \in Int /\ account.held[u] \in Int
  <2>1. o \in Assets /\ u \in Assets
    BY TermsOK DEF Assets
  <2>2. account.held[o] \in Int /\ account.held[u] \in Int /\ account.cash \in Int /\ account.owed \in Int
    BY <1>1, <2>1 DEF Account
  <2> QED BY <2>2, TermsOK
<1>5. m \in Nat /\ k * m \in Nat
  <2> HIDE DEF n, k
  <2> QED BY <1>4
<1>6. CASE Terms[o].call
  <2>1. q = m /\ account.cash >= k * m
    BY <1>2, <1>6 DEF DeliveredShares, CanSupportLongExercise
  <2>2. q * k = k * m
    <3> HIDE DEF n, k, m, q
    <3> QED BY <1>4, <1>5, <2>1
  <2> HIDE DEF n, k, m, q, u
  <2>3. account'.owed = account.owed - k * m
    BY <1>3, <2>2
  <2> DEFINE price == k * m
  <2>4. price \in Nat /\ account.cash >= price /\ account'.owed = account.owed - price
    BY <1>5, <2>1, <2>3
  <2> HIDE DEF price
  <2>5. account'.cash + account'.owed >= IF account.owed < 0 THEN account.owed ELSE 0
    BY <1>3, <1>4, <2>4
  <2>6. ~(account'.held[u] < account.held[u])
    BY <1>3, <1>4, <1>5, <2>1
  <2> QED BY <2>5, <2>6 DEF Supported, u
<1>7. CASE ~Terms[o].call
  <2>1. q = -m /\ account.held[u] >= m
    <3>1. q = Multiplier * (-n) /\ account.held[u] >= m
      BY <1>2, <1>7 DEF DeliveredShares, CanSupportLongExercise
    <3>2. Multiplier * (-n) = -(Multiplier * n)
      <4> HIDE DEF n
      <4> QED BY <1>4
    <3> QED BY <3>1, <3>2
  <2> HIDE DEF n, k, m, q
  <2>2. account'.held[u] >= 0
    <3> HIDE DEF u
    <3> QED BY <1>3, <1>4, <1>5, <2>1
  <2>3. q * k = -(k * m)
    BY <1>4, <1>5, <2>1
  <2>4. ~(account'.owed < account.owed)
    <3> DEFINE price == k * m
    <3>1. price \in Nat /\ account'.owed = account.owed - (-price)
      BY <1>3, <1>5, <2>3
    <3> HIDE DEF price
    <3> QED BY <1>4, <3>1
  <2> QED BY <2>2, <2>4 DEF Supported, u
<1> QED BY <1>6, <1>7, TermsOK

LEMMA ExerciseStep ==
  ASSUME IInv, [ExpiryNext]_vars, NEW o \in Options, Stage("expiring"),
         account.held[o] > 0, account'.held[o] = 0, account'.owed # account.owed
  PROVE  Supported(o)
<1>1. agenda # <<>> /\ Head(agenda) = "expiring"
  BY DEF Stage
<1>2. \E p \in Options : Settle(p)
  <2>1. account' # account
    BY DEF IInv
  <2> QED BY <1>1, <2>1 DEF ExpiryNext, vars, Submit, EndOpening, EndIteration, EndHook, EndNight,
        EndMethod, Fill, EndPending, StartAssignment, StartExpiry, EndPass, Assess, Abort,
        Sleep, Await, Morning, Stage
<1>3. PICK p \in Options : Settle(p)
  BY <1>2
<1>4. account \in Account /\ market \in Markets /\ Spot(p) # NoPrice /\ account' = Settled(account, p)
  BY <1>3 DEF IInv, ExpiryTypeOK, Settle
<1>5. p = o
  <2>1. \A b \in Options \ {p} : account'.held[b] = account.held[b]
    BY <1>4, SettledOK
  <2>2. account.held[o] # account'.held[o]
    <3>1. account.held[o] \in Int
      BY <1>4 DEF Account, Assets
    <3> QED BY <3>1
  <2> QED BY <2>1, <2>2
<1> QED BY <1>3, <1>5, ExerciseOK DEF IInv

(* Whatever the contracts settled before it in the pass have moved, an      *)
(* exercise delivers shares that are held and pays, apart from the cash of  *)
(* earlier fills that the event queue still has, with cash that is there    *)
(* (_can_support_long_exercise).                                            *)
THEOREM ExerciseIsSupported == ExpirySpec => ExercisesAreSupported
<1>1. ExpirySpec => []IInv
  BY Invariance
<1>2. IInv /\ [ExpiryNext]_vars =>
        [\A o \in Options :
           /\ Stage("expiring") /\ account.held[o] > 0 /\ account'.held[o] = 0
           /\ account'.owed # account.owed
           => LET u == Terms[o].underlying
              IN  /\ account'.held[u] < account.held[u] => account'.held[u] >= 0
                  /\ account'.owed < account.owed
                       => account'.cash + account'.owed >= IF account.owed < 0
                                                           THEN account.owed ELSE 0]_vars
  BY ExerciseStep DEF Supported
<1> QED BY <1>1, <1>2, PTL DEF ExpirySpec, ExercisesAreSupported
-----------------------------------------------------------------------------
(* What is done to the account and what it is worth.                        *)
ValueNow == market \in Markets /\ Priced

LEMMA PricedOK ==
  ASSUME ValueNow
  PROVE  /\ \A u \in Underlyings : market.spot[u] \in Nat
         /\ \A o \in Options : Spot(o) # NoPrice /\ Spot(o) \in Nat /\ Intrinsic(o) \in Nat
<1>1. market \in Market
  BY ExpiryAssumption DEF ValueNow
<1>2. \A u \in Underlyings : market.spot[u] \in Nat
  BY <1>1 DEF Market, ValueNow, Priced
<1>3. ASSUME NEW o \in Options PROVE Spot(o) # NoPrice /\ Spot(o) \in Nat /\ Intrinsic(o) \in Nat
  <2>1. Spot(o) # NoPrice /\ Spot(o) \in Nat
    BY <1>2, TermsOK DEF Spot, ValueNow, Priced
  <2> QED BY <2>1, IntrinsicOK DEF ValueNow
<1> QED BY <1>2, <1>3

LEMMA ShareValuesOK ==
  ASSUME ValueNow, NEW acc \in Account
  PROVE  /\ ShareValues(acc) \in [Underlyings -> Int]
         /\ \A u \in Underlyings : ShareValues(acc)[u] = acc.held[u] * market.spot[u]
<1>1. ASSUME NEW u \in Underlyings
      PROVE  acc.held[u] \in Int /\ market.spot[u] \in Int
  BY PricedOK DEF Account, Assets
<1>2. \A u \in Underlyings : acc.held[u] * market.spot[u] \in Int
  <2>1. \A i, j \in Int : i * j \in Int
    OBVIOUS
  <2> QED BY <1>1, <2>1
<1>3. \A u \in Underlyings : acc.held[u] = 0 => acc.held[u] * market.spot[u] = 0
  <2>1. \A j \in Int : 0 * j = 0
    OBVIOUS
  <2> QED BY <1>1, <2>1
<1> QED BY <1>2, <1>3 DEF ShareValues

LEMMA OptionValuesOK ==
  ASSUME ValueNow, NEW acc \in Account
  PROVE  /\ OptionValues(acc) \in [Options -> Int]
         /\ \A o \in Options :
              OptionValues(acc)[o] = acc.held[o] * (Multiplier * Intrinsic(o))
<1>1. ASSUME NEW o \in Options
      PROVE  acc.held[o] \in Int /\ Multiplier * Intrinsic(o) \in Int
  <2>1. acc.held[o] \in Int /\ Multiplier \in Int /\ Intrinsic(o) \in Int
    BY PricedOK, ExpiryAssumption DEF Account, Assets
  <2> QED BY <2>1
<1>2. \A o \in Options : acc.held[o] * (Multiplier * Intrinsic(o)) \in Int
  <2>1. \A i, j \in Int : i * j \in Int
    OBVIOUS
  <2> QED BY <1>1, <2>1
<1>3. \A o \in Options : acc.held[o] = 0 => acc.held[o] * (Multiplier * Intrinsic(o)) = 0
  <2>1. \A j \in Int : 0 * j = 0
    OBVIOUS
  <2> QED BY <1>1, <2>1
<1> QED BY <1>2, <1>3 DEF OptionValues

LEMMA ValueOK ==
  ASSUME ValueNow, NEW acc \in Account
  PROVE  /\ SumFunction(ShareValues(acc)) \in Int /\ SumFunction(OptionValues(acc)) \in Int
         /\ acc.cash \in Int /\ acc.owed \in Int /\ ValueOf(acc) \in Int
<1>1. IsFiniteSet(Underlyings) /\ IsFiniteSet(Options)
  BY ExpiryAssumption
<1>2. SumFunction(ShareValues(acc)) \in Int
  BY <1>1, ShareValuesOK, SumType
<1>3. SumFunction(OptionValues(acc)) \in Int
  BY <1>1, OptionValuesOK, SumType
<1>4. acc.cash \in Int /\ acc.owed \in Int
  BY DEF Account
<1> QED BY <1>2, <1>3, <1>4 DEF ValueOf

(* A contract that is taken away takes its intrinsic value with it.         *)
LEMMA RemovedValue ==
  ASSUME ValueNow, NEW acc \in Account, NEW o \in Options
  PROVE  ValueOf(Removed(acc, o)) = ValueOf(acc) - acc.held[o] * (Multiplier * Intrinsic(o))
<1> DEFINE r == Removed(acc, o)
           v == acc.held[o] * (Multiplier * Intrinsic(o))
<1>1. /\ r \in Account /\ r.cash = acc.cash /\ r.owed = acc.owed /\ r.held[o] = 0
      /\ \A b \in Assets \ {o} : r.held[b] = acc.held[b]
  BY RemovedOK
<1> HIDE DEF r
<1>2. ShareValues(r) = ShareValues(acc)
  <2>1. \A u \in Underlyings : u \in Assets \ {o}
    BY TermsOK DEF Assets
  <2>2. \A u \in Underlyings : r.held[u] = acc.held[u]
    BY <1>1, <2>1
  <2> QED BY <2>2 DEF ShareValues
<1>3. SumFunction(OptionValues(r)) = SumFunction(OptionValues(acc)) + (0 - v)
  <2> DEFINE g == OptionValues(acc)
             h == OptionValues(r)
  <2>1. g \in [Options -> Int] /\ h \in [Options -> Int] /\ g[o] = v
    BY <1>1, OptionValuesOK
  <2>2. h[o] = 0
    BY <1>1 DEF OptionValues
  <2>3. \A p \in Options \ {o} : h[p] = g[p]
    <3>1. \A p \in Options \ {o} : p \in Assets \ {o}
      BY DEF Assets
    <3>2. \A p \in Options \ {o} : r.held[p] = acc.held[p]
      BY <1>1, <3>1
    <3> QED BY <3>2 DEF OptionValues
  <2> HIDE DEF g, h, v
  <2>4. SumFunction(h) = SumFunction(g) + (h[o] - g[o])
    BY <2>1, <2>3, SumChanges, ExpiryAssumption
  <2> QED BY <2>1, <2>2, <2>4 DEF g, h
<1>4. v \in Int
  <2>1. v = OptionValues(acc)[o] /\ OptionValues(acc) \in [Options -> Int]
    BY OptionValuesOK
  <2> QED BY <2>1
<1> HIDE DEF v
<1>5. ValueOf(r) = (acc.cash + acc.owed)
                   + (SumFunction(ShareValues(acc)) + (SumFunction(OptionValues(acc)) + (0 - v)))
  BY <1>1, <1>2, <1>3 DEF ValueOf
<1>6. /\ SumFunction(ShareValues(acc)) \in Int /\ SumFunction(OptionValues(acc)) \in Int
      /\ acc.cash \in Int /\ acc.owed \in Int
  BY ValueOK
<1> DEFINE a == SumFunction(ShareValues(acc))
           b == SumFunction(OptionValues(acc))
<1>7. ValueOf(acc) = (acc.cash + acc.owed) + (a + b)
  BY DEF ValueOf
<1>8. ValueOf(r) = (acc.cash + acc.owed) + (a + (b + (0 - v)))
  BY <1>5
<1> HIDE DEF a, b
<1>9. a \in Int /\ b \in Int
  BY <1>6 DEF a, b
<1>10. ValueOf(r) = ValueOf(acc) - v
  BY <1>4, <1>6, <1>7, <1>8, <1>9
<1> QED BY <1>10 DEF r, v

(* Shares that are received are worth their price and cost the strike.      *)
LEMMA FilledValue ==
  ASSUME ValueNow, NEW acc \in Account, NEW u \in Underlyings, NEW q \in Int, NEW price \in Int
  PROVE  ValueOf(Filled(acc, u, q, price)) = ValueOf(acc) + (q * market.spot[u] - q * price)
<1> DEFINE r == Filled(acc, u, q, price)
           v == q * market.spot[u]
           c == q * price
<1>1. /\ r \in Account /\ r.cash = acc.cash /\ r.owed = acc.owed - c
      /\ r.held[u] = acc.held[u] + q
      /\ \A b \in Assets \ {u} : r.held[b] = acc.held[b]
  <2>1. u \in Assets
    BY DEF Assets
  <2> QED BY <2>1, FilledOK
<1> HIDE DEF r
<1>2. OptionValues(r) = OptionValues(acc)
  <2>1. \A o \in Options : o \in Assets \ {u}
    BY TermsOK DEF Assets
  <2>2. \A o \in Options : r.held[o] = acc.held[o]
    BY <1>1, <2>1
  <2> QED BY <2>2 DEF OptionValues
<1>3. acc.held[u] \in Int /\ market.spot[u] \in Int /\ v \in Int /\ c \in Int
  <2>1. acc.held[u] \in Int /\ market.spot[u] \in Int
    BY PricedOK DEF Account, Assets
  <2> QED BY <2>1
<1>4. SumFunction(ShareValues(r)) = SumFunction(ShareValues(acc)) + v
  <2> DEFINE g == ShareValues(acc)
             h == ShareValues(r)
  <2>1. /\ g \in [Underlyings -> Int] /\ h \in [Underlyings -> Int]
        /\ g[u] = acc.held[u] * market.spot[u] /\ h[u] = r.held[u] * market.spot[u]
    BY <1>1, ShareValuesOK
  <2>2. h[u] = g[u] + v
    <3>1. \A i, j, k \in Int : (i + j) * k = i * k + j * k
      OBVIOUS
    <3>2. (acc.held[u] + q) * market.spot[u] = acc.held[u] * market.spot[u] + q * market.spot[u]
      BY <1>3, <3>1
    <3> QED BY <1>1, <2>1, <3>2
  <2>3. \A p \in Underlyings \ {u} : h[p] = g[p]
    <3>1. \A p \in Underlyings \ {u} : p \in Assets \ {u}
      BY DEF Assets
    <3>2. \A p \in Underlyings \ {u} : r.held[p] = acc.held[p]
      BY <1>1, <3>1
    <3> QED BY <3>2 DEF ShareValues
  <2>4. SumFunction(g) \in Int
    BY ValueOK
  <2> HIDE DEF g, h, v
  <2>5. SumFunction(h) = SumFunction(g) + (h[u] - g[u])
    BY <2>1, <2>3, SumChanges, ExpiryAssumption
  <2>6. h[u] - g[u] = v
    BY <1>3, <2>1, <2>2
  <2> QED BY <2>5, <2>6 DEF g, h
<1> DEFINE a == SumFunction(ShareValues(acc))
           b == SumFunction(OptionValues(acc))
<1>5. a \in Int /\ b \in Int /\ acc.cash \in Int /\ acc.owed \in Int
  BY ValueOK
<1>6. ValueOf(acc) = (acc.cash + acc.owed) + (a + b)
  BY DEF ValueOf
<1> HIDE DEF v, c
<1>7. ValueOf(r) = (acc.cash + (acc.owed - c)) + ((a + v) + b)
  BY <1>1, <1>2, <1>4 DEF ValueOf
<1> HIDE DEF a, b
<1>8. ValueOf(r) = ValueOf(acc) + (v - c)
  BY <1>3, <1>5, <1>6, <1>7
<1> QED BY <1>8 DEF r, v, c

LEMMA CashSettledValue ==
  ASSUME ValueNow, NEW acc \in Account, NEW o \in Options
  PROVE  ValueOf(CashSettled(acc, o)) = ValueOf(acc)
<1> DEFINE r == Removed(acc, o)
           i == Intrinsic(o)
           n == acc.held[o]
           v == n * (Multiplier * i)
           f == [r EXCEPT !.cash = r.cash + v]
<1>1. i \in Int /\ n \in Int /\ Multiplier \in Int /\ r \in Account /\ r.cash \in Int
  <2>1. i \in Int /\ n \in Int /\ Multiplier \in Int
    BY PricedOK, ExpiryAssumption DEF Account, Assets
  <2>2. r \in Account
    BY RemovedOK
  <2> HIDE DEF r
  <2> QED BY <2>1, <2>2 DEF Account
<1>2. v \in Int /\ i * n * Multiplier = v
  <2> HIDE DEF i, n
  <2> QED BY <1>1
<1>3. CashSettled(acc, o) = f
  BY <1>2 DEF CashSettled
<1>4. ValueOf(r) = ValueOf(acc) - v /\ ValueOf(acc) \in Int
  BY RemovedValue, ValueOK
<1> HIDE DEF r, v
<1>5. f.cash = r.cash + v /\ f.owed = r.owed /\ f.held = r.held
  BY <1>1 DEF Account
<1> HIDE DEF f
<1>6. ShareValues(f) = ShareValues(r) /\ OptionValues(f) = OptionValues(r)
  BY <1>5, Zenon DEF ShareValues, OptionValues
<1> DEFINE a == SumFunction(ShareValues(r))
           b == SumFunction(OptionValues(r))
<1>7. a \in Int /\ b \in Int /\ r.cash \in Int /\ r.owed \in Int
  BY <1>1, ValueOK
<1>8. ValueOf(f) = ((r.cash + v) + r.owed) + (a + b)
  BY <1>5, <1>6 DEF ValueOf
<1>9. ValueOf(r) = (r.cash + r.owed) + (a + b)
  BY DEF ValueOf
<1> HIDE DEF a, b
<1>10. ValueOf(f) = ValueOf(acc)
  BY <1>2, <1>4, <1>7, <1>8, <1>9
<1> QED BY <1>3, <1>10

(* Shares delivered at the strike are worth what the contract was.          *)
LEMMA DeliveredValue ==
  ASSUME ValueNow, NEW acc \in Account, NEW o \in Options, Intrinsic(o) # 0
  PROVE  ValueOf(Delivered(acc, o)) = ValueOf(acc)
<1> DEFINE u == Terms[o].underlying
           k == Terms[o].strike
           s == Spot(o)
           n == acc.held[o]
           r == Removed(acc, o)
           q == DeliveredShares(o, n)
           v == n * (Multiplier * Intrinsic(o))
<1>1. /\ u \in Underlyings /\ k \in Int /\ Terms[o].call \in BOOLEAN /\ Multiplier \in Int
      /\ n \in Int /\ s \in Int /\ s = market.spot[u] /\ r \in Account
  <2>1. /\ u \in Underlyings /\ k \in Int /\ Terms[o].call \in BOOLEAN /\ Multiplier \in Int
        /\ s \in Int /\ s = market.spot[u]
    BY TermsOK, PricedOK DEF Spot
  <2>2. n \in Int
    BY DEF Account, Assets
  <2>3. r \in Account
    BY RemovedOK
  <2> QED BY <2>1, <2>2, <2>3
<1>2. q \in Int
  BY <1>1, SharesOK
<1>3. ValueOf(r) = ValueOf(acc) - v
  BY RemovedValue
<1>4. ValueOf(Filled(r, u, q, k)) = ValueOf(r) + (q * s - q * k)
  <2> HIDE DEF r, q
  <2> QED BY <1>1, <1>2, FilledValue
<1>5. q * s - q * k = v /\ v \in Int
  <2>1. CASE Terms[o].call
    <3>1. Intrinsic(o) = s - k /\ q = Multiplier * n
      BY <1>1, <2>1 DEF Intrinsic, AtLeastZero, DeliveredShares
    <3> HIDE DEF n, s, k
    <3>2. (Multiplier * n) * s - (Multiplier * n) * k = n * (Multiplier * (s - k))
      BY <1>1
    <3>3. n * (Multiplier * (s - k)) \in Int
      BY <1>1
    <3> QED BY <3>1, <3>2, <3>3
  <2>2. CASE ~Terms[o].call
    <3>1. Intrinsic(o) = k - s /\ q = Multiplier * (-n)
      BY <1>1, <2>2 DEF Intrinsic, AtLeastZero, DeliveredShares
    <3> HIDE DEF n, s, k
    <3>2. (Multiplier * (-n)) * s - (Multiplier * (-n)) * k = n * (Multiplier * (k - s))
      BY <1>1
    <3>3. n * (Multiplier * (k - s)) \in Int
      BY <1>1
    <3> QED BY <3>1, <3>2, <3>3
  <2> QED BY <1>1, <2>1, <2>2
<1>6. ValueOf(acc) \in Int
  BY ValueOK
<1>7. Delivered(acc, o) = Filled(r, u, q, k)
  BY DEF Delivered
<1> HIDE DEF v, q, r, s, k
<1>8. ValueOf(Filled(r, u, q, k)) = ValueOf(acc)
  BY <1>3, <1>4, <1>5, <1>6
<1> QED BY <1>7, <1>8

LEMMA SettledValue ==
  ASSUME ValueNow, NEW acc \in Account, NEW o \in Options
  PROVE  ValueOf(Settled(acc, o)) = ValueOf(acc)
<1>1. CASE Intrinsic(o) = 0
  <2>1. Settled(acc, o) = Removed(acc, o)
    BY <1>1 DEF Settled
  <2>2. acc.held[o] \in Int /\ Multiplier \in Int
    BY ExpiryAssumption DEF Account, Assets
  <2>3. acc.held[o] * (Multiplier * Intrinsic(o)) = 0
    BY <1>1, <2>2
  <2>4. ValueOf(acc) \in Int /\ ValueOf(Removed(acc, o)) = ValueOf(acc) - 0
    BY <2>3, RemovedValue, ValueOK
  <2> QED BY <2>1, <2>4
<1>2. CASE Intrinsic(o) # 0
  <2>1. Settled(acc, o) = CashSettled(acc, o) \/ Settled(acc, o) = Delivered(acc, o)
    BY <1>2 DEF Settled
  <2> QED BY <1>2, <2>1, CashSettledValue, DeliveredValue
<1> QED BY <1>1, <1>2

LEMMA DrainedValue ==
  ASSUME ValueNow, NEW acc \in Account
  PROVE  ValueOf(Drained(acc)) = ValueOf(acc)
<1> DEFINE f == [acc EXCEPT !.cash = acc.cash + acc.owed, !.owed = 0]
<1>1. Drained(acc) = f
  BY DEF Drained
<1>2. f.cash = acc.cash + acc.owed /\ f.owed = 0 /\ f.held = acc.held
  BY DEF Account
<1> HIDE DEF f
<1>3. ShareValues(f) = ShareValues(acc) /\ OptionValues(f) = OptionValues(acc)
  BY <1>2, Zenon DEF ShareValues, OptionValues
<1> DEFINE a == SumFunction(ShareValues(acc))
           b == SumFunction(OptionValues(acc))
<1>4. a \in Int /\ b \in Int /\ acc.cash \in Int /\ acc.owed \in Int
  BY ValueOK
<1>5. ValueOf(f) = ((acc.cash + acc.owed) + 0) + (a + b) /\ ValueOf(acc) = (acc.cash + acc.owed) + (a + b)
  BY <1>2, <1>3 DEF ValueOf
<1> HIDE DEF a, b
<1>6. ValueOf(f) = ValueOf(acc)
  BY <1>4, <1>5
<1> QED BY <1>1, <1>6

LEMMA WorkingValue ==
  ASSUME ValueNow, NEW acc \in Account, NEW a \in Assets, NEW w
  PROVE  ValueOf([acc EXCEPT !.working[a] = w]) = ValueOf(acc)
<1> DEFINE f == [acc EXCEPT !.working[a] = w]
<1>1. f.cash = acc.cash /\ f.owed = acc.owed /\ f.held = acc.held
  BY DEF Account
<1> HIDE DEF f
<1>2. ShareValues(f) = ShareValues(acc) /\ OptionValues(f) = OptionValues(acc)
  BY <1>1, Zenon DEF ShareValues, OptionValues
<1>3. ValueOf(f) = ValueOf(acc)
  BY <1>1, <1>2 DEF ValueOf
<1> QED BY <1>3 DEF f

(* No step but a fill changes what the account is worth at standing prices. *)
LEMMA WorthStep ==
  ASSUME IInv, [ExpiryNext]_vars, market' = market, Priced, ~Fill
  PROVE  Worth' = Worth
<1>1. ValueNow /\ account \in Account
  BY DEF IInv, ExpiryTypeOK, ValueNow
<1>2. Worth' = ValueOf(account')
  BY DEF Worth, ValueOf, ShareValues, OptionValues, Intrinsic, Spot
<1>3. \/ account' = account
      \/ account' = Drained(account)
      \/ \E a \in Assets, w \in Int : account' = [account EXCEPT !.working[a] = w]
      \/ \E o \in Options : Settle(o) \/ Assess(o)
  <2>1. CASE Submit
    <3>1. PICK a \in Assets, q \in {1, -1} :
            account' = [account EXCEPT !.working[a] = IF a \in Options THEN q ELSE q * Multiplier]
      BY <2>1 DEF Submit
    <3> DEFINE w == IF a \in Options THEN q ELSE q * Multiplier
    <3>2. w \in Int
      BY ExpiryAssumption
    <3>3. account' = [account EXCEPT !.working[a] = w]
      BY <3>1
    <3> HIDE DEF w
    <3> QED BY <3>2, <3>3
  <2>2. CASE EndOpening \/ EndIteration \/ EndHook \/ EndNight
    BY <2>2 DEF EndOpening, EndIteration, EndHook, EndNight, EndMethod
  <2>3. CASE EndPending \/ StartAssignment \/ StartExpiry \/ EndPass
             \/ (\E o \in Options : Abort(o)) \/ Morning
             \/ Await("nearing", "near") \/ Await("closing", "closed")
    BY <2>3 DEF EndPending, StartAssignment, StartExpiry, EndPass, Abort, Morning, Await
  <2>4. CASE Sleep
    BY <2>4 DEF Sleep
  <2>5. CASE \E o \in Options : Settle(o) \/ Assess(o)
    BY <2>5
  <2>6. CASE UNCHANGED vars
    BY <2>6 DEF vars
  <2> QED BY <2>1, <2>2, <2>3, <2>4, <2>5, <2>6 DEF ExpiryNext
<1>4. CASE account' = account
  BY <1>2, <1>4 DEF Worth
<1>5. CASE account' = Drained(account)
  BY <1>1, <1>2, <1>5, DrainedValue DEF Worth
<1>6. CASE \E a \in Assets, w \in Int : account' = [account EXCEPT !.working[a] = w]
  BY <1>1, <1>2, <1>6, WorkingValue DEF Worth
<1>7. ASSUME NEW o \in Options, Settle(o) PROVE Worth' = Worth
  BY <1>1, <1>2, <1>7, SettledValue DEF Worth, Settle
<1>8. ASSUME NEW o \in Options, Assess(o) PROVE Worth' = Worth
  <2>1. CASE account' = account
    BY <1>2, <2>1 DEF Worth
  <2>2. CASE AssignedEarly(o) /\ account' = Delivered(account, o)
    <3>1. Intrinsic(o) # 0
      BY <1>1, <2>2, PricedOK DEF AssignedEarly
    <3> QED BY <1>1, <1>2, <2>2, <3>1, DeliveredValue DEF Worth
  <2> QED BY <1>8, <2>1, <2>2 DEF Assess
<1> QED BY <1>3, <1>4, <1>5, <1>6, <1>7, <1>8

(* While prices stand and nothing is traded, the account keeps its worth:   *)
(* exercise, assignment, cash settlement, the drop of a worthless contract  *)
(* and the cash that waits in the queue agree (_settle_expired_option,      *)
(* _dispatch_underlying_delivery_fill, cash_settle_options_contract).       *)
THEOREM WorthStays == ExpirySpec => WorthIsKept
<1>1. ExpirySpec => []IInv
  BY Invariance
<1>2. IInv /\ [ExpiryNext]_vars =>
        [market' = market /\ Priced /\ ~Fill => Worth' = Worth]_vars
  BY WorthStep
<1> QED BY <1>1, <1>2, PTL DEF ExpirySpec, WorthIsKept
=============================================================================
