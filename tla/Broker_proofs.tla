---------------------------- MODULE Broker_proofs ----------------------------
(***************************************************************************)
(* Proofs about the trackers of a broker and the threads that change them, *)
(* in four parts: facts about the tracker lists and what each handler of  *)
(* OrderTracking does to them; PollingBroker, for any number of orders,    *)
(* queue size, failed fetches and outcomes; SyncBroker, where two threads  *)
(* run the handlers step by step, and for any number of held events too;   *)
(* and LazyEvent, the event of an order that threads wait for.             *)
(***************************************************************************)
EXTENDS SyncBroker, LazyEvent, SequenceTheorems, WellFoundedInduction, TLAPS

(* The first position of an identifier exists when any position does.      *)
LEMMA FirstPosition ==
    ASSUME NEW S, NEW s \in Seq(S), NEW i, HasId(s, i)
    PROVE  LET k == SelectInSeq(s, LAMBDA o : o.id = i)
           IN  k \in DOMAIN s /\ s[k].id = i
<1> DEFINE I == {n \in 1 .. Len(s) : s[n].id = i}
<1>1. DOMAIN s = 1 .. Len(s) /\ Len(s) \in Nat
  OBVIOUS
<1>2. I # {} /\ I \subseteq Nat
  BY <1>1 DEF HasId
<1>3. PICK m \in I : \A n \in I : ~ (<<n, m>> \in OpToRel(<, Nat))
  BY <1>2, NatLessThanWellFounded, WFMin
<1>4. \A n \in I : m =< n
  <2>1. TAKE n \in I
  <2>2. n \in Nat /\ m \in Nat /\ ~ (n < m)
    BY <1>2, <1>3 DEF OpToRel
  <2> QED  BY <2>2
<1>5. Min(I) \in I
  BY <1>4, <1>3 DEF Min
<1>6. SelectInSeq(s, LAMBDA o : o.id = i) = Min(I)
  BY <1>2 DEF SelectInSeq
<1> QED  BY <1>1, <1>5, <1>6

(* Without takes out one position, that of the identifier, if there is one. *)
LEMMA WithoutShape ==
    ASSUME NEW S, NEW s \in Seq(S), NEW i
    PROVE  \/ ~ HasId(s, i) /\ Without(s, i) = s
           \/ \E k \in DOMAIN s :
                  /\ s[k].id = i
                  /\ Without(s, i) = SubSeq(s, 1, k-1) \o SubSeq(s, k+1, Len(s))
<1> DEFINE k == SelectInSeq(s, LAMBDA o : o.id = i)
<1>1. CASE HasId(s, i)
  <2>1. k \in DOMAIN s /\ s[k].id = i
    BY <1>1, FirstPosition
  <2>2. \E n \in 1 .. Len(s) : s[n].id = i
    BY <1>1 DEF HasId
  <2>3. Without(s, i) = SubSeq(s, 1, k-1) \o SubSeq(s, k+1, Len(s))
    BY <2>2 DEF Without, RemoveFirstMatch, RemoveAt
  <2> QED  BY <2>1, <2>3
<1>2. CASE ~ HasId(s, i)
  <2>1. ~ \E n \in 1 .. Len(s) : s[n].id = i
    BY <1>2 DEF HasId
  <2> QED  BY <1>2, <2>1 DEF Without, RemoveFirstMatch
<1> QED  BY <1>1, <1>2

Distinct(s) == \A m, n \in DOMAIN s : s[m].id = s[n].id => m = n

(* The elements that remain, in a list of distinct identifiers and in any. *)
LEMMA WithoutElements ==
    ASSUME NEW S, NEW s \in Seq(S), NEW i
    PROVE  /\ Without(s, i) \in Seq(S)
           /\ ToSet(Without(s, i)) \subseteq ToSet(s)
           /\ \A o \in ToSet(s) : o.id # i => o \in ToSet(Without(s, i))
           /\ Distinct(s) => /\ Distinct(Without(s, i))
                             /\ \A o \in ToSet(Without(s, i)) : o.id # i
<1> DEFINE w == Without(s, i)
<1>1. CASE ~ HasId(s, i) /\ w = s
  BY <1>1 DEF HasId, ToSet
<1>2. ASSUME NEW k \in DOMAIN s,
             s[k].id = i,
             w = SubSeq(s, 1, k-1) \o SubSeq(s, k+1, Len(s))
      PROVE  /\ w \in Seq(S)
             /\ ToSet(w) \subseteq ToSet(s)
             /\ \A o \in ToSet(s) : o.id # i => o \in ToSet(w)
             /\ Distinct(s) => /\ Distinct(w)
                               /\ \A o \in ToSet(w) : o.id # i
  <2>1. k \in 1 .. Len(s) /\ Len(s) \in Nat
    OBVIOUS
  <2>2. /\ w \in Seq(S)
        /\ Len(w) = Len(s) - 1
        /\ \A n \in 1 .. Len(w) : w[n] = s[IF n < k THEN n ELSE n + 1]
    <3> DEFINE a == SubSeq(s, 1, k-1)
               b == SubSeq(s, k+1, Len(s))
    <3>1. /\ a \in Seq(S)
          /\ Len(a) = k - 1
          /\ \A n \in 1 .. k - 1 : a[n] = s[n]
      <4>1. /\ 1 \in Int /\ k - 1 \in Int
            /\ \A n \in 1 .. k - 1 : s[n] \in S
        BY <2>1
      <4> QED  BY <2>1, <4>1, SubSeqProperties
    <3>2. /\ b \in Seq(S)
          /\ Len(b) = Len(s) - k
          /\ \A n \in 1 .. Len(s) - k : b[n] = s[k + n]
      <4>1. /\ k + 1 \in Int /\ Len(s) \in Int
            /\ \A n \in k + 1 .. Len(s) : s[n] \in S
        BY <2>1
      <4> QED  BY <2>1, <4>1, SubSeqProperties
    <3> HIDE DEF a, b, w
    <3>3. /\ a \o b \in Seq(S)
          /\ Len(a \o b) = Len(a) + Len(b)
          /\ \A n \in 1 .. Len(a) + Len(b) :
                 (a \o b)[n] = IF n <= Len(a) THEN a[n] ELSE b[n - Len(a)]
      BY <3>1, <3>2, ConcatProperties
    <3>4. w = a \o b
      BY <1>2 DEF a, b
    <3>5. Len(w) = Len(s) - 1
      BY <2>1, <3>1, <3>2, <3>3, <3>4
    <3>6. ASSUME NEW n \in 1 .. Len(w)
          PROVE  w[n] = s[IF n < k THEN n ELSE n + 1]
      <4>1. CASE n < k
        BY <2>1, <3>1, <3>2, <3>3, <3>4, <3>5, <4>1
      <4>2. CASE n >= k
        <5>1. /\ n - (k - 1) \in 1 .. Len(s) - k
              /\ k + (n - (k - 1)) = n + 1
          BY <2>1, <3>5, <4>2
        <5>2. n \in 1 .. Len(a) + Len(b) /\ ~ (n <= Len(a))
          BY <2>1, <3>1, <3>2, <3>5, <4>2
        <5>3. w[n] = b[n - (k - 1)]
          BY <3>1, <3>3, <3>4, <5>2
        <5>4. b[n - (k - 1)] = s[n + 1]
          BY <3>2, <5>1
        <5> QED  BY <2>1, <4>2, <5>3, <5>4
      <4> QED  BY <2>1, <4>1, <4>2
    <3> QED  BY <3>3, <3>4, <3>5, <3>6
  <2>3. ToSet(w) \subseteq ToSet(s)
    BY <2>1, <2>2 DEF ToSet
  <2>4. \A o \in ToSet(s) : o.id # i => o \in ToSet(w)
    <3>1. SUFFICES ASSUME NEW m \in 1 .. Len(s), s[m].id # i
                   PROVE  s[m] \in ToSet(w)
      BY DEF ToSet
    <3>2. m # k
      BY <1>2, <3>1
    <3>3. CASE m < k
      BY <2>1, <2>2, <3>3 DEF ToSet
    <3>4. CASE m > k
      <4>1. m - 1 \in 1 .. Len(w) /\ w[m - 1] = s[m]
        BY <2>1, <2>2, <3>4
      <4> QED  BY <2>2, <4>1 DEF ToSet
    <3> QED  BY <2>1, <3>2, <3>3, <3>4
  <2>5. ASSUME Distinct(s)
        PROVE  Distinct(w) /\ \A o \in ToSet(w) : o.id # i
    <3>1. \A n \in 1 .. Len(w) : (IF n < k THEN n ELSE n + 1) \in 1 .. Len(s)
      BY <2>1, <2>2
    <3>2. \A m, n \in 1 .. Len(s) : s[m].id = s[n].id => m = n
      BY <2>5 DEF Distinct
    <3>3. DOMAIN w = 1 .. Len(w)
      BY <2>2
    <3> HIDE DEF w
    <3>4. Distinct(w)
      <4>1. SUFFICES ASSUME NEW m \in 1 .. Len(w), NEW n \in 1 .. Len(w),
                            w[m].id = w[n].id
                     PROVE  m = n
        BY <3>3 DEF Distinct
      <4>2. (IF m < k THEN m ELSE m + 1) = (IF n < k THEN n ELSE n + 1)
        BY <2>2, <3>1, <3>2, <4>1
      <4> QED  BY <2>1, <2>2, <4>2
    <3>5. \A n \in 1 .. Len(w) : w[n].id # i
      <4>1. SUFFICES ASSUME NEW n \in 1 .. Len(w), w[n].id = i
                     PROVE  FALSE
        OBVIOUS
      <4>2. (IF n < k THEN n ELSE n + 1) = k
        BY <1>2, <2>1, <2>2, <3>1, <3>2, <4>1
      <4> QED  BY <2>1, <2>2, <4>2
    <3> QED  BY <3>3, <3>4, <3>5 DEF ToSet
  <2> QED  BY <2>2, <2>3, <2>4, <2>5
<1> QED  BY <1>1, <1>2, WithoutShape

LEMMA AppendElements ==
    ASSUME NEW S, NEW s \in Seq(S), NEW o \in S
    PROVE  /\ Append(s, o) \in Seq(S)
           /\ ToSet(Append(s, o)) = ToSet(s) \cup {o}
           /\ Distinct(s) /\ ~ HasId(s, o.id) => Distinct(Append(s, o))
<1>1. /\ Append(s, o) \in Seq(S)
      /\ DOMAIN Append(s, o) = 1 .. Len(s) + 1
      /\ \A n \in 1 .. Len(s) : Append(s, o)[n] = s[n]
      /\ Append(s, o)[Len(s) + 1] = o
      /\ DOMAIN s = 1 .. Len(s) /\ Len(s) \in Nat
  OBVIOUS
<1>2. ToSet(Append(s, o)) = ToSet(s) \cup {o}
  BY <1>1 DEF ToSet
<1>3. Distinct(s) /\ ~ HasId(s, o.id) => Distinct(Append(s, o))
  BY <1>1 DEF Distinct, HasId
<1> QED  BY <1>1, <1>2, <1>3

-----------------------------------------------------------------------------
(* Objects that wait_orders_clear counts as outstanding, and objects that  *)
(* some event has declared over.                                           *)
Outstanding == ToSet(unprocessedOrders) \cup ToSet(newOrders)
Settled == ToSet(filledOrders) \cup ToSet(errorOrders) \cup ToSet(canceledOrders)

LEMMA ListTypes ==
    ASSUME TrackTypeOK
    PROVE  /\ unprocessedOrders \in Seq(Obj)
           /\ newOrders \in Seq(Obj)
           /\ filledOrders \in Seq(Obj)
           /\ errorOrders \in Seq(Obj)
           /\ canceledOrders \in Seq(Obj)
BY DEF TrackTypeOK

LEMMA ConcatElements ==
    ASSUME NEW S, NEW s \in Seq(S), NEW t \in Seq(S)
    PROVE  /\ s \o t \in Seq(S)
           /\ ToSet(s \o t) = ToSet(s) \cup ToSet(t)
           /\ DOMAIN (s \o t) = 1 .. Len(s) + Len(t)
           /\ \A n \in 1 .. Len(s) : (s \o t)[n] = s[n]
           /\ \A n \in 1 .. Len(t) : (s \o t)[Len(s) + n] = t[n]
<1>1. /\ s \o t \in Seq(S)
      /\ DOMAIN (s \o t) = 1 .. Len(s) + Len(t)
      /\ DOMAIN s = 1 .. Len(s) /\ Len(s) \in Nat
      /\ DOMAIN t = 1 .. Len(t) /\ Len(t) \in Nat
  BY ConcatProperties
<1>2. \A n \in 1 .. Len(s) : (s \o t)[n] = s[n]
  BY <1>1, ConcatProperties
<1>3. ASSUME NEW n \in 1 .. Len(t) PROVE (s \o t)[Len(s) + n] = t[n]
  BY <1>1, ConcatProperties
<1>4. ASSUME NEW n \in 1 .. Len(s) + Len(t)
      PROVE  n \in 1 .. Len(s) \/ \E m \in 1 .. Len(t) : n = Len(s) + m
  <2>1. CASE n > Len(s)
    <3>1. n - Len(s) \in 1 .. Len(t) /\ n = Len(s) + (n - Len(s))
      BY <1>1, <2>1
    <3> QED  BY <3>1
  <2> QED  BY <1>1, <2>1
<1>5. ASSUME NEW n \in 1 .. Len(t) PROVE Len(s) + n \in 1 .. Len(s) + Len(t)
  BY <1>1
<1>6. ASSUME NEW n \in 1 .. Len(s) PROVE n \in 1 .. Len(s) + Len(t)
  BY <1>1
<1>7. ToSet(s \o t) = ToSet(s) \cup ToSet(t)
  <2>1. ASSUME NEW x \in ToSet(s \o t) PROVE x \in ToSet(s) \cup ToSet(t)
    <3>1. PICK n \in 1 .. Len(s) + Len(t) : x = (s \o t)[n]
      BY <1>1 DEF ToSet
    <3>2. CASE n \in 1 .. Len(s)
      <4>1. x = s[n] /\ n \in DOMAIN s
        BY <1>1, <1>2, <3>1, <3>2
      <4> QED  BY <4>1 DEF ToSet
    <3>3. CASE n \notin 1 .. Len(s)
      <4>1. PICK m \in 1 .. Len(t) : n = Len(s) + m
        BY <1>4, <3>3
      <4>2. x = t[m] /\ m \in DOMAIN t
        BY <1>1, <1>3, <3>1, <4>1
      <4> QED  BY <4>2 DEF ToSet
    <3> QED  BY <3>2, <3>3
  <2>2. ToSet(s) \subseteq ToSet(s \o t)
    BY <1>1, <1>2, <1>6 DEF ToSet
  <2>3. ToSet(t) \subseteq ToSet(s \o t)
    BY <1>1, <1>3, <1>5 DEF ToSet
  <2> QED  BY <2>1, <2>2, <2>3
<1> QED  BY <1>1, <1>2, <1>3, <1>7

(* The tracked orders, with those that are over behind the others.         *)
TrackShape ==
    /\ TrackedIds = {o.id : o \in Outstanding \cup Settled}
    /\ \A n \in DOMAIN TrackedOrders :
           /\ TrackedOrders[n] \in Outstanding \cup Settled
           /\ TrackedOrders[n] \in Settled
              \/ \A o \in Settled :
                     \E m \in n+1 .. Len(TrackedOrders) : TrackedOrders[m] = o

LEMMA TrackedShape == TrackTypeOK => TrackShape
<1> SUFFICES ASSUME TrackTypeOK PROVE TrackShape
  OBVIOUS
<1> DEFINE a == unprocessedOrders \o newOrders
           c == filledOrders \o errorOrders
           b == c \o canceledOrders
<1>0. /\ unprocessedOrders \in Seq(Obj) /\ newOrders \in Seq(Obj)
      /\ filledOrders \in Seq(Obj) /\ errorOrders \in Seq(Obj)
      /\ canceledOrders \in Seq(Obj)
  BY ListTypes
<1>1. a \in Seq(Obj) /\ ToSet(a) = Outstanding
  BY <1>0, ConcatElements DEF Outstanding
<1>2. c \in Seq(Obj) /\ ToSet(c) = ToSet(filledOrders) \cup ToSet(errorOrders)
  BY <1>0, ConcatElements
<1>3. b \in Seq(Obj) /\ ToSet(b) = Settled
  <2> HIDE DEF c
  <2> QED  BY <1>0, <1>2, ConcatElements DEF Settled
<1>4. TrackedOrders = a \o b
  <2>1. TrackedOrders = ((a \o filledOrders) \o errorOrders) \o canceledOrders
    BY DEF TrackedOrders
  <2> HIDE DEF a
  <2>2. (a \o filledOrders) \o errorOrders = a \o c
    BY <1>0, <1>1, ConcatAssociative
  <2>3. (a \o c) \o canceledOrders = a \o b
    <3>1. b = c \o canceledOrders
      OBVIOUS
    <3>2. a \in Seq(Obj) /\ c \in Seq(Obj) /\ canceledOrders \in Seq(Obj)
      BY <1>0, <1>1, <1>2
    <3> HIDE DEF b, c
    <3>3. (a \o c) \o canceledOrders = a \o (c \o canceledOrders)
      BY <3>2, ConcatAssociative
    <3> QED  BY <3>1, <3>3
  <2> QED  BY <2>1, <2>2, <2>3
<1> HIDE DEF a, b, c
<1>5. /\ TrackedOrders \in Seq(Obj)
      /\ ToSet(TrackedOrders) = Outstanding \cup Settled
      /\ DOMAIN TrackedOrders = 1 .. Len(a) + Len(b)
      /\ \A n \in 1 .. Len(a) : TrackedOrders[n] = a[n]
      /\ \A n \in 1 .. Len(b) : TrackedOrders[Len(a) + n] = b[n]
  BY <1>1, <1>3, <1>4, ConcatElements
<1>6. /\ DOMAIN a = 1 .. Len(a) /\ Len(a) \in Nat
      /\ DOMAIN b = 1 .. Len(b) /\ Len(b) \in Nat
      /\ Len(TrackedOrders) = Len(a) + Len(b)
  <2>1. DOMAIN TrackedOrders = 1 .. Len(TrackedOrders) /\ Len(TrackedOrders) \in Nat
    BY <1>5
  <2> QED  BY <1>1, <1>3, <1>5, <2>1
<1>7. TrackedIds = {o.id : o \in Outstanding \cup Settled}
  BY <1>5 DEF TrackedIds, ToSet
<1>8. ASSUME NEW n \in DOMAIN TrackedOrders,
             TrackedOrders[n] \notin Settled,
             NEW o \in Settled
      PROVE  \E m \in n+1 .. Len(TrackedOrders) : TrackedOrders[m] = o
  <2>1. n <= Len(a)
    <3>1. SUFFICES ASSUME n > Len(a) PROVE FALSE
      BY <1>5, <1>6
    <3>2. n - Len(a) \in 1 .. Len(b) /\ n = Len(a) + (n - Len(a))
      BY <1>5, <1>6, <3>1
    <3>3. TrackedOrders[n] = b[n - Len(a)]
      BY <1>5, <3>2
    <3> QED  BY <1>3, <1>6, <1>8, <3>2, <3>3 DEF ToSet
  <2>2. PICK j \in 1 .. Len(b) : b[j] = o
    BY <1>3, <1>6, <1>8 DEF ToSet
  <2>3. Len(a) + j \in n+1 .. Len(TrackedOrders)
    BY <1>5, <1>6, <2>1
  <2> QED  BY <1>5, <2>2, <2>3
<1>9. \A n \in DOMAIN TrackedOrders : TrackedOrders[n] \in Outstanding \cup Settled
  BY <1>5 DEF ToSet
<1> QED  BY <1>7, <1>8, <1>9 DEF TrackShape

LEMMA TrackedShapeNext == TrackTypeOK' => TrackShape'
BY TrackedShape, PTL

-----------------------------------------------------------------------------
(* What the handlers do to the lists, seen as sets.                        *)

ListsDistinct == Distinct(newOrders) /\ Distinct(unprocessedOrders)

LEMMA LeaveSets ==
    ASSUME TrackTypeOK, ListsDistinct, NEW o \in Obj, LeaveActiveTrackers(o)
    PROVE  /\ newOrders' \in Seq(Obj) /\ unprocessedOrders' \in Seq(Obj)
           /\ ListsDistinct'
           /\ Outstanding' = {p \in Outstanding : p.id # o.id}
           /\ ToSet(unprocessedOrders') \subseteq ToSet(unprocessedOrders)
<1>1. /\ newOrders' = Without(newOrders, o.id)
      /\ unprocessedOrders' = Without(unprocessedOrders, o.id)
  BY DEF LeaveActiveTrackers
<1>2. newOrders \in Seq(Obj) /\ unprocessedOrders \in Seq(Obj)
  BY ListTypes
<1>3. /\ newOrders' \in Seq(Obj) /\ Distinct(newOrders')
      /\ ToSet(newOrders') = {p \in ToSet(newOrders) : p.id # o.id}
  BY <1>1, <1>2, WithoutElements DEF ListsDistinct
<1>4. /\ unprocessedOrders' \in Seq(Obj) /\ Distinct(unprocessedOrders')
      /\ ToSet(unprocessedOrders') = {p \in ToSet(unprocessedOrders) : p.id # o.id}
  BY <1>1, <1>2, WithoutElements DEF ListsDistinct
<1> QED  BY <1>3, <1>4 DEF ListsDistinct, Outstanding

LEMMA TrackedIdsAre ==
    ASSUME TrackTypeOK, TrackTypeOK', NEW i,
           {p.id : p \in Outstanding' \cup Settled'}
               = {p.id : p \in Outstanding \cup Settled} \cup {i}
    PROVE  TrackedIds' = TrackedIds \cup {i}
BY TrackedShape, TrackedShapeNext DEF TrackShape

Ends(o) == ProcessFilledOrder(o) \/ ProcessCanceledOrder(o) \/ ProcessErrorOrder(o)

LEMMA EndSets ==
    ASSUME TrackTypeOK, ListsDistinct, NEW o \in Obj, Ends(o)
    PROVE  /\ TrackTypeOK' /\ ListsDistinct'
           /\ Outstanding' = {p \in Outstanding : p.id # o.id}
           /\ ToSet(unprocessedOrders') \subseteq ToSet(unprocessedOrders)
           /\ o \in Settled' /\ Settled' \subseteq Settled \cup {o}
           /\ \A p \in Settled : p.id # o.id => p \in Settled'
           /\ TrackedIds' = TrackedIds \cup {o.id}
<1>1. LeaveActiveTrackers(o)
  BY DEF Ends, ProcessFilledOrder, ProcessCanceledOrder, ProcessErrorOrder
<1>2. /\ newOrders' \in Seq(Obj) /\ unprocessedOrders' \in Seq(Obj)
      /\ ListsDistinct'
      /\ Outstanding' = {p \in Outstanding : p.id # o.id}
      /\ ToSet(unprocessedOrders') \subseteq ToSet(unprocessedOrders)
  BY <1>1, LeaveSets
<1>3. /\ filledOrders \in Seq(Obj) /\ errorOrders \in Seq(Obj)
      /\ canceledOrders \in Seq(Obj)
  BY ListTypes
<1>4. /\ filledOrders' \in Seq(Obj) /\ errorOrders' \in Seq(Obj)
      /\ canceledOrders' \in Seq(Obj)
      /\ o \in Settled' /\ Settled' \subseteq Settled \cup {o}
      /\ \A p \in Settled : p.id # o.id => p \in Settled'
  <2>1. CASE ProcessFilledOrder(o)
    BY <1>3, <2>1, AppendElements DEF ProcessFilledOrder, Settled
  <2>2. CASE ProcessCanceledOrder(o)
    BY <1>3, <2>2, AppendElements DEF ProcessCanceledOrder, Settled
  <2>3. CASE ProcessErrorOrder(o)
    BY <1>3, <2>3, AppendElements, WithoutElements DEF ProcessErrorOrder, Settled
  <2> QED  BY <2>1, <2>2, <2>3 DEF Ends
<1>5. /\ status' \in [Obj -> OrderStatus]
      /\ registered' \subseteq Obj /\ closed' \subseteq Obj
      /\ fills' \in [Obj -> Nat]
  <2>1. /\ status \in [Obj -> OrderStatus] /\ fills \in [Obj -> Nat]
        /\ registered \subseteq Obj /\ closed \subseteq Obj
    BY DEF TrackTypeOK
  <2>2. registered' \subseteq Obj /\ closed' \subseteq Obj
    BY <1>1, <2>1 DEF LeaveActiveTrackers
  <2>3. CASE ProcessFilledOrder(o)
    BY <2>1, <2>2, <2>3 DEF ProcessFilledOrder, OrderStatus
  <2>4. CASE ProcessCanceledOrder(o)
    BY <2>1, <2>2, <2>4 DEF ProcessCanceledOrder, OrderStatus
  <2>5. CASE ProcessErrorOrder(o)
    BY <2>1, <2>2, <2>5 DEF ProcessErrorOrder, OrderStatus
  <2> QED  BY <2>3, <2>4, <2>5 DEF Ends
<1>6. TrackTypeOK'
  BY <1>2, <1>4, <1>5 DEF TrackTypeOK
<1>7. {p.id : p \in Outstanding' \cup Settled'}
          = {p.id : p \in Outstanding \cup Settled} \cup {o.id}
  BY <1>2, <1>4
<1> QED  BY <1>2, <1>4, <1>6, <1>7, TrackedIdsAre

LEMMA RegisterSets ==
    ASSUME TrackTypeOK, ListsDistinct, NEW x \in Obj, ~ HasId(newOrders, x.id),
           Register(x)
    PROVE  /\ TrackTypeOK' /\ ListsDistinct'
           /\ Outstanding' = {p \in Outstanding : p.id # x.id} \cup {x}
           /\ ToSet(unprocessedOrders') \subseteq ToSet(unprocessedOrders)
           /\ Settled' = Settled
           /\ TrackedIds' = TrackedIds \cup {x.id}
<1>1. newOrders \in Seq(Obj) /\ unprocessedOrders \in Seq(Obj)
  BY ListTypes
<1>2. /\ newOrders' \in Seq(Obj) /\ Distinct(newOrders')
      /\ ToSet(newOrders') = ToSet(newOrders) \cup {x}
  BY <1>1, AppendElements DEF Register, ListsDistinct
<1>3. \A p \in ToSet(newOrders) : p.id # x.id
  BY DEF HasId, ToSet
<1>4. /\ unprocessedOrders' \in Seq(Obj) /\ Distinct(unprocessedOrders')
      /\ ToSet(unprocessedOrders') = {p \in ToSet(unprocessedOrders) : p.id # x.id}
  BY <1>1, WithoutElements DEF Register, ListsDistinct
<1>5. Outstanding' = {p \in Outstanding : p.id # x.id} \cup {x}
  BY <1>2, <1>3, <1>4 DEF Outstanding
<1>6. Settled' = Settled
  BY DEF Register, Settled
<1>7. TrackTypeOK'
  BY <1>2, <1>4 DEF Register, TrackTypeOK, OrderStatus
<1>8. {p.id : p \in Outstanding' \cup Settled'}
          = {p.id : p \in Outstanding \cup Settled} \cup {x.id}
  BY <1>5, <1>6
<1> QED  BY <1>2, <1>4, <1>5, <1>6, <1>7, <1>8, TrackedIdsAre DEF ListsDistinct

LEMMA SubmittedSets ==
    ASSUME TrackTypeOK, ListsDistinct, NEW o \in Obj,
           ~ HasId(unprocessedOrders, o.id), TrackSubmitted(o)
    PROVE  /\ TrackTypeOK' /\ ListsDistinct'
           /\ Outstanding' = Outstanding \cup {o}
           /\ ToSet(unprocessedOrders') = ToSet(unprocessedOrders) \cup {o}
           /\ Settled' = Settled
           /\ TrackedIds' = TrackedIds \cup {o.id}
<1>1. unprocessedOrders \in Seq(Obj)
  BY ListTypes
<1>2. /\ unprocessedOrders' \in Seq(Obj) /\ Distinct(unprocessedOrders')
      /\ ToSet(unprocessedOrders') = ToSet(unprocessedOrders) \cup {o}
  BY <1>1, AppendElements DEF TrackSubmitted, ListsDistinct
<1>3. Outstanding' = Outstanding \cup {o} /\ Settled' = Settled
  BY <1>2 DEF TrackSubmitted, Outstanding, Settled
<1>4. TrackTypeOK'
  BY <1>2 DEF TrackSubmitted, TrackTypeOK, OrderStatus
<1>5. ListsDistinct'
  BY <1>2 DEF TrackSubmitted, ListsDistinct
<1>6. {p.id : p \in Outstanding' \cup Settled'}
          = {p.id : p \in Outstanding \cup Settled} \cup {o.id}
  BY <1>3
<1> QED  BY <1>2, <1>3, <1>4, <1>5, <1>6, TrackedIdsAre

LEMMA TrackSame ==
    ASSUME UNCHANGED trackVars
    PROVE  /\ Outstanding' = Outstanding
           /\ Settled' = Settled
           /\ TrackedIds' = TrackedIds
           /\ TrackTypeOK => TrackTypeOK'
           /\ ListsDistinct => ListsDistinct'
<1>1. TrackedOrders' = TrackedOrders
  BY DEF trackVars, trackers, TrackedOrders
<1>2. TrackedIds' = TrackedIds
  BY <1>1 DEF TrackedIds
<1> QED
  BY <1>2 DEF trackVars, trackers, Outstanding, Settled, TrackTypeOK, ListsDistinct,
              Distinct

-----------------------------------------------------------------------------
(* PollingBroker.  Its inductive invariant IInv says why an event in the   *)
(* queue is still right when it is handled, long after the comparison that *)
(* produced it.                                                            *)

(* An event that ends an order.  The error of a refused submission is the  *)
(* only one that does not come from a comparison made by a poll.           *)
IsVerdict(e) == e.kind # "new"

IsRefusal(e) == /\ e.kind = "error"
                /\ e.order.by = "strategy"
                /\ submit[e.order.id] = "refused"
                /\ e.order.id \notin TrackedIds

-----------------------------------------------------------------------------
(* The parts of the invariant. *)

SubmitInv ==
    \A i \in Ids :
        /\ market[i] = "none" <=> submit[i] \in {"idle", "refused"}
        /\ submit[i] = "idle" => i \notin TrackedIds
        /\ submit[i] \in {"tracked", "done"} => i \in TrackedIds
        /\ submit[i] \notin {"tracked", "done", "refused"}
               => status[Own(i)] = "unprocessed"

ListsInv ==
    /\ ListsDistinct
    /\ \A o \in ToSet(unprocessedOrders) :
           o = Own(o.id) /\ submit[o.id] \in {"tracked", "done"}

(* The status of an object tells where it is tracked, and never claims an  *)
(* end that the brokerage may still take back.                             *)
StatusInv ==
    \A o \in Obj :
        /\ o.id \notin TrackedIds => status[o] = "unprocessed"
        /\ fills[o] = IF status[o] = "fill" THEN 1 ELSE 0
        /\ status[o] = "fill" => market[o.id] = "fill"
        /\ status[o] = "error" => market[o.id] \in {"error", "none"}
        /\ status[o] \in {"fill", "error", "canceled"} => o \in Settled
        /\ o \in Outstanding => status[o] = "open"
        /\ o \in Settled => status[o] # "unprocessed"

(* At most one object of an order is ever declared over.                   *)
SettledInv == \A o, p \in Settled : o.id = p.id => o = p

RawInv ==
    \A i \in DOMAIN raw :
        /\ market[i] # "none" /\ raw[i] # "none"
        /\ raw[i] \in Finished => market[i] = raw[i]

(* The latest object of an order that is over is the one declared over.    *)
KnownInv ==
    \A i \in DOMAIN known :
        /\ known[i].id = i
        /\ i \in TrackedIds
        /\ status[known[i]] # "unprocessed"
        /\ \A o \in Settled : o.id = i => o = known[i]

TodoInv == /\ pc = "get" => DOMAIN known = {}
           /\ pc = "rows" => todo \subseteq DOMAIN raw
           /\ pc = "missing" => todo \subseteq DOMAIN known \ DOMAIN raw

(* What a verdict says is still so.                                        *)
VerdictHolds(e) == LET o == e.order IN
    /\ e.kind = "fill" => /\ market[o.id] = "fill"
                          /\ status[o] \in {"open", "canceled"}
    /\ e.kind = "canceled" => status[o] = "open"
    /\ e.kind = "error" => \/ IsRefusal(e)
                           \/ /\ market[o.id] = "error"
                              /\ status[o] \in {"open", "canceled"}
    /\ \A p \in Settled : p.id = o.id => p = o

(* The poll that is under way will not pronounce a second one.             *)
VerdictSpoken(e) == LET i == e.order.id IN
    /\ pc = "store" => IsRefusal(e)
    /\ pc = "rows" => i \notin todo /\ (i \in DOMAIN raw \/ IsRefusal(e))
    /\ pc = "missing" => i \notin todo

EventOK(e) == IF IsVerdict(e) THEN VerdictHolds(e) /\ VerdictSpoken(e)
                              ELSE e.order.id \in TrackedIds

(* No two events in the queue end the same order.                          *)
OneVerdict ==
    \A m, n \in DOMAIN queue :
        IsVerdict(queue[m]) /\ IsVerdict(queue[n])
            /\ queue[m].order.id = queue[n].order.id => m = n

QueueInv == /\ OneVerdict
            /\ \A e \in ToSet(queue) : EventOK(e)

TrackInv == SubmitInv /\ ListsInv /\ StatusInv /\ SettledInv

PollInv == RawInv /\ KnownInv /\ TodoInv

IInv == TypeOK /\ TrackInv /\ PollInv /\ QueueInv

-----------------------------------------------------------------------------
(* The queue. *)

LEMMA QueuedEvent ==
    ASSUME TypeOK, NEW e \in ToSet(queue)
    PROVE  e \in Event /\ e.order \in Obj /\ e.order.id \in Ids
<1>1. queue \in Seq(Event)
  BY DEF TypeOK
<1>2. DOMAIN queue = 1 .. Len(queue) /\ \A n \in 1 .. Len(queue) : queue[n] \in Event
  BY <1>1
<1>3. e \in Event
  BY <1>2 DEF ToSet
<1>4. e.order \in Obj
  BY <1>3 DEF Event
<1> QED  BY <1>3, <1>4 DEF Obj

LEMMA DispatchEvent ==
    ASSUME TypeOK, QueueInv, NEW e \in Event, Dispatch(e.kind, e.order),
           \A d \in ToSet(queue) : EventOK(d)',
           EventOK(e)',
           IsVerdict(e) => \A d \in ToSet(queue) :
                               IsVerdict(d) => d.order.id # e.order.id
    PROVE  QueueInv' /\ queue' \in Seq(Event) /\ Len(queue') <= QueueSize
<1>1. queue \in Seq(Event) /\ Len(queue) <= QueueSize
  BY DEF TypeOK
<1>2. CASE queue' = queue
  BY <1>1, <1>2 DEF QueueInv, OneVerdict
<1>3. CASE queue' = Append(queue, e) /\ Len(queue) < QueueSize
  <2>1. /\ queue' \in Seq(Event) /\ Len(queue') = Len(queue) + 1
        /\ DOMAIN queue' = 1 .. Len(queue) + 1
        /\ \A n \in 1 .. Len(queue) : queue'[n] = queue[n]
        /\ queue'[Len(queue) + 1] = e
        /\ DOMAIN queue = 1 .. Len(queue) /\ Len(queue) \in Nat
    BY <1>1, <1>3
  <2>2. Len(queue') <= QueueSize
    BY <1>3, <2>1, BoundsAssumption
  <2>3. \A d \in ToSet(queue') : EventOK(d)'
    <3>1. ToSet(queue') = ToSet(queue) \cup {e}
      BY <2>1 DEF ToSet
    <3> QED  BY <3>1
  <2>4. OneVerdict'
    <3>1. SUFFICES ASSUME NEW m \in 1 .. Len(queue) + 1, NEW n \in 1 .. Len(queue) + 1,
                          IsVerdict(queue'[m]), IsVerdict(queue'[n]),
                          queue'[m].order.id = queue'[n].order.id
                   PROVE  m = n
      BY <2>1 DEF OneVerdict, IsVerdict
    <3>2. CASE m \in 1 .. Len(queue) /\ n \in 1 .. Len(queue)
      <4>1. /\ queue'[m] = queue[m] /\ queue'[n] = queue[n]
            /\ m \in DOMAIN queue /\ n \in DOMAIN queue
        BY <2>1, <3>2
      <4> QED  BY <3>1, <4>1 DEF QueueInv, OneVerdict
    <3>3. CASE m \in 1 .. Len(queue) /\ n = Len(queue) + 1
      BY <2>1, <3>1, <3>3 DEF ToSet
    <3>4. CASE n \in 1 .. Len(queue) /\ m = Len(queue) + 1
      BY <2>1, <3>1, <3>4 DEF ToSet
    <3> QED  BY <2>1, <3>2, <3>3, <3>4
  <2> QED  BY <2>1, <2>2, <2>3, <2>4 DEF QueueInv
<1>4. e = [kind |-> e.kind, order |-> e.order]
  BY DEF Event
<1> QED  BY <1>2, <1>3, <1>4 DEF Dispatch

LEMMA SameQueue ==
    ASSUME TypeOK, QueueInv, queue' = queue, \A e \in ToSet(queue) : EventOK(e)'
    PROVE  QueueInv'
BY DEF QueueInv, OneVerdict, IsVerdict

LEMMA TakenEvent ==
    ASSUME TypeOK, QueueInv, queue # <<>>, queue' = Tail(queue)
    PROVE  /\ queue' \in Seq(Event) /\ Len(queue') <= QueueSize
           /\ ToSet(queue') \subseteq ToSet(queue)
           /\ Head(queue) \in Event /\ Head(queue) \in ToSet(queue)
           /\ OneVerdict'
           /\ IsVerdict(Head(queue)) =>
                  \A e \in ToSet(queue') :
                      IsVerdict(e) => e.order.id # Head(queue).order.id
<1>1. queue \in Seq(Event) /\ Len(queue) <= QueueSize
  BY DEF TypeOK
<1>2. /\ DOMAIN queue = 1 .. Len(queue) /\ Len(queue) \in Nat \ {0}
      /\ 1 \in DOMAIN queue /\ Head(queue) = queue[1] /\ queue[1] \in Event
  BY <1>1
<1>3. /\ queue' \in Seq(Event) /\ Len(queue') = Len(queue) - 1
      /\ DOMAIN queue' = 1 .. Len(queue) - 1
      /\ \A n \in 1 .. Len(queue) - 1 : queue'[n] = queue[n + 1]
  BY <1>1
<1>4. Len(queue') <= QueueSize
  BY <1>1, <1>2, <1>3, BoundsAssumption
<1>5. \A n \in DOMAIN queue' : n + 1 \in DOMAIN queue /\ n \in Nat /\ queue'[n] = queue[n + 1]
  BY <1>2, <1>3
<1>6. ToSet(queue') \subseteq ToSet(queue)
  BY <1>5 DEF ToSet
<1>7. OneVerdict'
  <2>1. SUFFICES ASSUME NEW m \in DOMAIN queue', NEW n \in DOMAIN queue',
                        IsVerdict(queue'[m]), IsVerdict(queue'[n]),
                        queue'[m].order.id = queue'[n].order.id
                 PROVE  m = n
    BY DEF OneVerdict, IsVerdict
  <2>2. m + 1 = n + 1
    BY <1>5, <2>1 DEF QueueInv, OneVerdict
  <2> QED  BY <1>5, <2>2
<1>8. ASSUME IsVerdict(Head(queue)), NEW n \in DOMAIN queue', IsVerdict(queue'[n])
      PROVE  queue'[n].order.id # Head(queue).order.id
  <2>1. queue[n + 1].order.id = queue[1].order.id => n + 1 = 1
    BY <1>2, <1>5, <1>8 DEF QueueInv, OneVerdict
  <2> QED  BY <1>2, <1>5, <2>1
<1> QED  BY <1>2, <1>3, <1>4, <1>6, <1>7, <1>8 DEF ToSet

-----------------------------------------------------------------------------
(* The initial states. *)

LEMMA InitEstablishes == Init => IInv
<1> SUFFICES ASSUME Init PROVE IInv
  OBVIOUS
<1>1. /\ unprocessedOrders = <<>> /\ newOrders = <<>> /\ filledOrders = <<>>
      /\ errorOrders = <<>> /\ canceledOrders = <<>>
      /\ status = [o \in Obj |-> "unprocessed"] /\ fills = [o \in Obj |-> 0]
  BY DEF Init, TrackInit
<1>2. TrackTypeOK
  BY DEF Init, TrackInit, TrackTypeOK, OrderStatus
<1>3. Outstanding = {} /\ Settled = {}
  BY <1>1 DEF Outstanding, Settled, ToSet
<1>4. TrackedIds = {}
  BY <1>2, <1>3, TrackedShape DEF TrackShape
<1>5. TypeOK
  <2>1. /\ raw \in [{} -> MarketStatus] /\ known \in [{} -> Obj]
    BY DEF Init
  <2>2. /\ raw \in UNION {[S -> MarketStatus] : S \in SUBSET Ids}
        /\ known \in UNION {[S -> Obj] : S \in SUBSET Ids}
    BY <2>1
  <2>3. market \in [Ids -> MarketStatus]
    BY DEF Init, MarketStatus, Finished
  <2>4. submit \in [Ids -> SubmitStatus]
    <3>1. \A i \in Ids : submit[i] \in {"idle", "foreign", "historic"}
      BY DEF Init
    <3> QED  BY <3>1 DEF Init, SubmitStatus
  <2>5. queue \in Seq(Event) /\ Len(queue) <= QueueSize
    BY BoundsAssumption DEF Init
  <2>6. failures \in 0 .. MaxFailures
    BY BoundsAssumption DEF Init
  <2> QED  BY <1>2, <2>2, <2>3, <2>4, <2>5, <2>6 DEF Init, TypeOK, StreamPC
<1>6. \A i \in Ids : Own(i) \in Obj
  BY DEF Own, Obj, Origins
<1>7. SubmitInv
  <2>1. ASSUME NEW i \in Ids
        PROVE  /\ market[i] = "none" <=> submit[i] \in {"idle", "refused"}
               /\ submit[i] \notin {"tracked", "done"}
    BY DEF Init
  <2> QED  BY <1>1, <1>4, <1>6, <2>1 DEF SubmitInv
<1>8. ListsInv
  BY <1>1 DEF ListsInv, ListsDistinct, Distinct, ToSet
<1>9. StatusInv /\ SettledInv
  BY <1>1, <1>3 DEF StatusInv, SettledInv
<1>10. PollInv
  BY DEF Init, PollInv, RawInv, KnownInv, TodoInv
<1>11. QueueInv
  BY DEF Init, QueueInv, OneVerdict, ToSet
<1> QED  BY <1>5, <1>7, <1>8, <1>9, <1>10, <1>11 DEF IInv, TrackInv

-----------------------------------------------------------------------------
(* The brokerage: an order that is over there stays what it is. *)

LEMMA MarketPreserves ==
    ASSUME IInv, TypeOK', UNCHANGED <<trackVars, submit, queue, pc, raw, known, todo>>,
           \A i \in Ids : /\ market[i] \in Finished => market'[i] = market[i]
                          /\ market[i] = "none" <=> market'[i] = "none"
    PROVE  IInv'
<1>1. /\ Outstanding' = Outstanding /\ Settled' = Settled
      /\ TrackedIds' = TrackedIds /\ ListsDistinct'
  BY TrackSame DEF IInv, TrackInv, ListsInv
<1>2. /\ status' = status /\ fills' = fills
      /\ unprocessedOrders' = unprocessedOrders
  BY DEF trackVars, trackers
<1>3. SubmitInv'
  BY <1>1, <1>2 DEF IInv, TrackInv, SubmitInv
<1>4. ListsInv'
  BY <1>1, <1>2 DEF IInv, TrackInv, ListsInv
<1>5. StatusInv' /\ SettledInv'
  <2>1. \A o \in Obj : o.id \in Ids
    BY DEF Obj
  <2> QED
    BY <1>1, <1>2, <2>1 DEF IInv, TrackInv, StatusInv, SettledInv, Finished
<1>6. RawInv'
  <2>1. \A i \in DOMAIN raw : i \in Ids
    BY DEF IInv, TypeOK
  <2> QED  BY <2>1 DEF IInv, PollInv, RawInv
<1>7. KnownInv' /\ TodoInv'
  BY <1>1, <1>2 DEF IInv, PollInv, KnownInv, TodoInv
<1>8. ASSUME NEW e \in ToSet(queue) PROVE EventOK(e)'
  <2>1. e \in Event /\ e.order \in Obj /\ e.order.id \in Ids
    BY QueuedEvent DEF IInv
  <2>2. EventOK(e)
    BY DEF IInv, QueueInv
  <2>3. IsRefusal(e) => IsRefusal(e)'
    BY <1>1 DEF IsRefusal
  <2> QED
    BY <1>1, <1>2, <2>1, <2>2, <2>3
    DEF EventOK, IsVerdict, VerdictHolds, VerdictSpoken, Finished
<1>9. QueueInv'
  BY <1>8, SameQueue DEF IInv
<1> QED  BY <1>3, <1>4, <1>5, <1>6, <1>7, <1>9 DEF IInv, TrackInv, PollInv

LEMMA MarketStepPreserves ==
    ASSUME IInv, NEW i \in Ids, NEW from \in SUBSET {"open", "unpriced"},
           NEW to \in {"unpriced", "fill", "canceled", "error", "expired"},
           MarketStep(i, from, to)
    PROVE  IInv'
<1>1. TypeOK'
  BY TrackSame DEF IInv, TypeOK, MarketStep, MarketStatus, Finished
<1>2. \A j \in Ids : /\ market[j] \in Finished => market'[j] = market[j]
                     /\ market[j] = "none" <=> market'[j] = "none"
  BY DEF IInv, TypeOK, MarketStep, Finished
<1> QED  BY <1>1, <1>2, MarketPreserves DEF MarketStep

LEMMA BrokeragePreserves == ASSUME IInv, Brokerage PROVE IInv'
<1>1. PICK i \in Ids : Execute(i) \/ EndOtherwise(i) \/ Drop(i)
  BY DEF Brokerage
<1>2. CASE Execute(i)
  BY <1>2, MarketStepPreserves DEF Execute
<1>3. CASE EndOtherwise(i)
  BY <1>3, MarketStepPreserves, BoundsAssumption DEF EndOtherwise
<1>4. CASE Drop(i)
  <2>1. TypeOK'
    BY <1>4, TrackSame DEF IInv, TypeOK, Drop
  <2> QED  BY <1>4, <2>1, MarketPreserves DEF Drop
<1> QED  BY <1>1, <1>2, <1>3, <1>4

-----------------------------------------------------------------------------
(* Steps that leave what is tracked alone. *)

LEMMA TrackInvSame ==
    ASSUME IInv, UNCHANGED <<trackVars, market, submit>>
    PROVE  TrackInv'
<1>1. /\ Outstanding' = Outstanding /\ Settled' = Settled
      /\ TrackedIds' = TrackedIds /\ ListsDistinct'
  BY TrackSame DEF IInv, TrackInv, ListsInv
<1>2. /\ status' = status /\ fills' = fills
      /\ unprocessedOrders' = unprocessedOrders
  BY DEF trackVars, trackers
<1>3. SubmitInv'
  BY <1>1, <1>2 DEF IInv, TrackInv, SubmitInv
<1>4. ListsInv'
  BY <1>1, <1>2 DEF IInv, TrackInv, ListsInv
<1>5. StatusInv' /\ SettledInv'
  BY <1>1, <1>2 DEF IInv, TrackInv, StatusInv, SettledInv
<1> QED  BY <1>3, <1>4, <1>5 DEF TrackInv

LEMMA EventSame ==
    ASSUME IInv, UNCHANGED <<trackVars, market, submit>>, NEW e \in ToSet(queue),
           IsVerdict(e) => VerdictSpoken(e)'
    PROVE  EventOK(e)'
<1>1. Settled' = Settled /\ TrackedIds' = TrackedIds
  BY TrackSame
<1>2. EventOK(e)
  BY DEF IInv, QueueInv
<1> QED
  BY <1>1, <1>2 DEF EventOK, VerdictHolds, IsRefusal, IsVerdict, trackVars

LEMMA FetchOrdersPreserves == ASSUME IInv, FetchOrders \/ FetchFails PROVE IInv'
<1>1. /\ UNCHANGED <<trackVars, market, submit, queue, known, todo>>
      /\ pc = "get" /\ pc' = "store" /\ queue = <<>>
      /\ raw' = Listing \/ raw' = <<>>
  BY DEF FetchOrders, FetchFails, PollGoto
<1>2. /\ raw' \in UNION {[S -> MarketStatus] : S \in SUBSET Ids}
      /\ \A i \in DOMAIN raw' : market[i] # "none" /\ raw'[i] = market[i]
  <2>1. market \in [Ids -> MarketStatus]
    BY DEF IInv, TypeOK
  <2>2. CASE raw' = Listing
    <3> DEFINE S == {j \in Ids : market[j] # "none"} \ dropped
    <3>1. S \in SUBSET Ids /\ raw' = [i \in S |-> market[i]]
      BY <2>2 DEF Listing
    <3> HIDE DEF S
    <3>2. raw' \in [S -> MarketStatus]
      BY <2>1, <3>1
    <3>3. raw' \in UNION {[T -> MarketStatus] : T \in SUBSET Ids}
      BY <3>1, <3>2
    <3> QED  BY <3>1, <3>3 DEF S
  <2>3. CASE raw' = <<>>
    <3>1. raw' \in [{} -> MarketStatus] /\ DOMAIN raw' = {}
      BY <2>3
    <3> QED  BY <3>1
  <2> QED  BY <1>1, <2>2, <2>3
<1>3. TypeOK'
  <2>1. failures' \in 0 .. MaxFailures
    BY BoundsAssumption DEF IInv, TypeOK, FetchOrders, FetchFails
  <2>2. UNCHANGED <<dropped, firstIteration>>
    BY DEF FetchOrders, FetchFails
  <2> QED  BY <1>1, <1>2, <2>1, <2>2, TrackSame DEF IInv, TypeOK, StreamPC
<1>4. TrackInv'
  BY <1>1, TrackInvSame
<1>5. PollInv'
  BY <1>1, <1>2 DEF IInv, PollInv, RawInv, KnownInv, TodoInv
<1>6. QueueInv'
  BY <1>1 DEF QueueInv, OneVerdict, ToSet
<1> QED  BY <1>3, <1>4, <1>5, <1>6 DEF IInv

(* What a snapshot holds for an order: its latest object.                  *)
LEMMA SnapshotKnows ==
    ASSUME IInv, NEW f \in Snapshots
    PROVE  /\ f \in UNION {[S -> Obj] : S \in SUBSET Ids}
           /\ DOMAIN f = TrackedIds
           /\ \A i \in TrackedIds : /\ f[i].id = i
                                    /\ status[f[i]] # "unprocessed"
                                    /\ \A o \in Settled : o.id = i => o = f[i]
<1>1. /\ f \in [TrackedIds -> Obj]
      /\ \A i \in TrackedIds : IsLatest(f[i], i)
  BY DEF Snapshots
<1>2. TrackShape
  BY TrackedShape DEF IInv, TypeOK
<1>3. Outstanding \subseteq Obj /\ Settled \subseteq Obj
  <2>1. \A l \in {unprocessedOrders, newOrders, filledOrders, errorOrders,
                  canceledOrders} : ToSet(l) \subseteq Obj
    BY ListTypes DEF IInv, TypeOK, ToSet
  <2> QED  BY <2>1 DEF Outstanding, Settled
<1>4. TrackedIds \subseteq Ids
  BY <1>2, <1>3 DEF TrackShape, Obj
<1>5. ASSUME NEW i \in TrackedIds
      PROVE  /\ f[i].id = i
             /\ status[f[i]] # "unprocessed"
             /\ \A o \in Settled : o.id = i => o = f[i]
  <2>1. PICK n \in DOMAIN TrackedOrders :
            /\ TrackedOrders[n] = f[i]
            /\ f[i].id = i
            /\ \A m \in n+1 .. Len(TrackedOrders) : TrackedOrders[m].id # i
    BY <1>1 DEF IsLatest
  <2>2. f[i] \in Outstanding \cup Settled
    BY <1>2, <2>1 DEF TrackShape
  <2>3. status[f[i]] # "unprocessed"
    BY <1>3, <2>2 DEF IInv, TrackInv, StatusInv
  <2>4. ASSUME NEW o \in Settled, o.id = i PROVE o = f[i]
    <3>1. f[i] \in Settled
      BY <1>2, <2>1, <2>4 DEF TrackShape
    <3> QED  BY <2>1, <2>4, <3>1 DEF IInv, TrackInv, SettledInv
  <2> QED  BY <2>1, <2>3, <2>4
<1> QED  BY <1>1, <1>4, <1>5

LEMMA StoreOrdersPreserves == ASSUME IInv, StoreOrders PROVE IInv'
<1>1. /\ UNCHANGED <<trackVars, market, submit, queue, raw>>
      /\ pc = "store" /\ pc' = "rows" /\ todo' = DOMAIN raw
      /\ known' \in Snapshots
  BY DEF StoreOrders, PollGoto
<1>2. /\ Settled' = Settled /\ TrackedIds' = TrackedIds /\ status' = status
  BY <1>1, TrackSame DEF trackVars
<1>3. TypeOK'
  <2>1. DOMAIN raw \subseteq Ids
    BY DEF IInv, TypeOK
  <2> QED
    BY <1>1, <2>1, SnapshotKnows, TrackSame DEF IInv, TypeOK, StoreOrders, StreamPC
<1>4. TrackInv'
  BY <1>1, TrackInvSame
<1>5. KnownInv'
  BY <1>1, <1>2, SnapshotKnows DEF KnownInv
<1>6. RawInv' /\ TodoInv'
  BY <1>1 DEF IInv, PollInv, RawInv, TodoInv
<1>7. ASSUME NEW e \in ToSet(queue) PROVE EventOK(e)'
  <2>1. ASSUME IsVerdict(e) PROVE VerdictSpoken(e)'
    <3>1. IsRefusal(e) /\ e.order.id \in Ids
      BY <1>1, <2>1, QueuedEvent DEF IInv, QueueInv, EventOK, VerdictSpoken
    <3>2. e.order.id \notin DOMAIN raw
      BY <3>1 DEF IsRefusal, IInv, TrackInv, SubmitInv, PollInv, RawInv
    <3> QED  BY <1>1, <1>2, <3>1, <3>2 DEF VerdictSpoken, IsRefusal
  <2> QED  BY <1>1, <2>1, EventSame
<1>8. QueueInv'
  BY <1>1, <1>7, SameQueue DEF IInv
<1> QED  BY <1>3, <1>4, <1>5, <1>6, <1>8 DEF IInv, PollInv

LEMMA SnapshotTrackedPreserves == ASSUME IInv, SnapshotTracked PROVE IInv'
<1>1. /\ UNCHANGED <<trackVars, market, submit, queue, raw>>
      /\ pc = "rows" /\ pc' = "missing" /\ todo' = TrackedIds \ DOMAIN raw
      /\ known' \in Snapshots
  BY DEF SnapshotTracked, PollGoto
<1>2. /\ Settled' = Settled /\ TrackedIds' = TrackedIds /\ status' = status
  BY <1>1, TrackSame DEF trackVars
<1>3. TypeOK'
  <2>1. TrackedIds \subseteq Ids
    BY <1>1, SnapshotKnows
  <2> QED
    BY <1>1, <2>1, SnapshotKnows, TrackSame DEF IInv, TypeOK, SnapshotTracked, StreamPC
<1>4. TrackInv'
  BY <1>1, TrackInvSame
<1>5. KnownInv'
  BY <1>1, <1>2, SnapshotKnows DEF KnownInv
<1>6. RawInv' /\ TodoInv'
  BY <1>1, SnapshotKnows DEF IInv, PollInv, RawInv, TodoInv
<1>7. ASSUME NEW e \in ToSet(queue) PROVE EventOK(e)'
  <2>1. ASSUME IsVerdict(e) PROVE VerdictSpoken(e)'
    <3>1. e.order.id \in DOMAIN raw \/ IsRefusal(e)
      BY <1>1, <2>1 DEF IInv, QueueInv, EventOK, VerdictSpoken
    <3> QED  BY <1>1, <3>1 DEF VerdictSpoken, IsRefusal
  <2> QED  BY <1>1, <2>1, EventSame
<1>8. QueueInv'
  BY <1>1, <1>7, SameQueue DEF IInv
<1> QED  BY <1>3, <1>4, <1>5, <1>6, <1>8 DEF IInv, PollInv

LEMMA PollDonePreserves == ASSUME IInv, PollDone PROVE IInv'
<1>1. /\ UNCHANGED <<trackVars, market, submit, queue, todo>>
      /\ pc' = "get" /\ raw' = <<>> /\ known' = <<>>
  BY DEF PollDone, PollGoto
<1>2. TypeOK'
  <2>1. /\ raw' \in [{} -> MarketStatus] /\ known' \in [{} -> Obj]
    BY <1>1
  <2>2. /\ raw' \in UNION {[S -> MarketStatus] : S \in SUBSET Ids}
        /\ known' \in UNION {[S -> Obj] : S \in SUBSET Ids}
    BY <2>1
  <2> QED  BY <1>1, <2>2, TrackSame DEF IInv, TypeOK, PollDone, StreamPC
<1>3. TrackInv'
  BY <1>1, TrackInvSame
<1>4. PollInv'
  BY <1>1 DEF PollInv, RawInv, KnownInv, TodoInv
<1>5. ASSUME NEW e \in ToSet(queue) PROVE EventOK(e)'
  BY <1>1, EventSame DEF VerdictSpoken
<1>6. QueueInv'
  BY <1>1, <1>5, SameQueue DEF IInv
<1> QED  BY <1>2, <1>3, <1>4, <1>6 DEF IInv

(* A difference that the poll dispatches for identifier i, which then is   *)
(* not to come.                                                            *)
LEMMA PollDispatchPreserves ==
    ASSUME IInv, UNCHANGED <<trackVars, market, dropped, submit, pc, raw, known,
                             firstIteration, failures>>,
           pc \in {"rows", "missing"}, NEW i \in todo, i \in DOMAIN known,
           todo' = todo \ {i},
           NEW kind \in {"new", "fill", "canceled", "error"},
           Dispatch(kind, known[i]),
           kind = "fill" => /\ market[i] = "fill"
                            /\ status[known[i]] \in {"open", "canceled"},
           kind = "canceled" => status[known[i]] = "open",
           kind = "error" => /\ market[i] = "error"
                             /\ status[known[i]] \in {"open", "canceled"}
    PROVE  IInv'
<1>1. /\ known[i].id = i /\ i \in TrackedIds
      /\ \A o \in Settled : o.id = i => o = known[i]
  BY DEF IInv, PollInv, KnownInv
<1>2. PICK e \in Event : e.kind = kind /\ e.order = known[i]
  <2>1. known[i] \in Obj
    BY DEF IInv, TypeOK
  <2>2. [kind |-> kind, order |-> known[i]] \in Event
    BY <2>1 DEF Event
  <2> QED  BY <2>2
<1>3. /\ Settled' = Settled /\ TrackedIds' = TrackedIds /\ status' = status
  BY TrackSame DEF trackVars
<1>4. ASSUME NEW d \in ToSet(queue) PROVE EventOK(d)'
  <2>1. ASSUME IsVerdict(d) PROVE VerdictSpoken(d)'
    BY <1>3, <2>1 DEF IInv, QueueInv, EventOK, VerdictSpoken, IsRefusal
  <2> QED  BY <2>1, EventSame
<1>5. EventOK(e)'
  <2>1. pc = "rows" => i \in DOMAIN raw
    BY DEF IInv, PollInv, TodoInv
  <2>2. VerdictSpoken(e)'
    BY <1>1, <1>2, <2>1 DEF VerdictSpoken
  <2>3. IsVerdict(e) => VerdictHolds(e)'
    BY <1>1, <1>2, <1>3 DEF VerdictHolds, IsVerdict
  <2> QED  BY <1>1, <1>2, <1>3, <2>2, <2>3 DEF EventOK, IsVerdict
<1>6. ASSUME NEW d \in ToSet(queue), IsVerdict(d) PROVE d.order.id # i
  BY <1>6 DEF IInv, QueueInv, EventOK, VerdictSpoken
<1>7. Dispatch(e.kind, e.order) /\ e.order.id = i
  BY <1>1, <1>2
<1>8. QueueInv' /\ queue' \in Seq(Event) /\ Len(queue') <= QueueSize
  BY <1>4, <1>5, <1>6, <1>7, DispatchEvent DEF IInv
<1>9. TypeOK'
  BY <1>8, TrackSame DEF IInv, TypeOK
<1>10. PollInv'
  BY <1>3 DEF IInv, PollInv, RawInv, KnownInv, TodoInv
<1> QED  BY <1>8, <1>9, <1>10, TrackInvSame DEF IInv

(* A record or an object that makes the poll do nothing.                   *)
LEMMA PollSkipPreserves ==
    ASSUME IInv, UNCHANGED <<trackVars, market, dropped, submit, queue, pc, raw,
                             known, firstIteration, failures>>,
           pc \in {"rows", "missing"}, NEW i \in todo, todo' = todo \ {i}
    PROVE  IInv'
<1>1. /\ Settled' = Settled /\ TrackedIds' = TrackedIds /\ status' = status
  BY TrackSame DEF trackVars
<1>2. ASSUME NEW d \in ToSet(queue) PROVE EventOK(d)'
  <2>1. ASSUME IsVerdict(d) PROVE VerdictSpoken(d)'
    BY <1>1, <2>1 DEF IInv, QueueInv, EventOK, VerdictSpoken, IsRefusal
  <2> QED  BY <2>1, EventSame
<1>3. QueueInv'
  BY <1>2, SameQueue DEF IInv
<1>4. TypeOK'
  BY TrackSame DEF IInv, TypeOK
<1>5. PollInv'
  BY <1>1 DEF IInv, PollInv, RawInv, KnownInv, TodoInv
<1> QED  BY <1>3, <1>4, <1>5, TrackInvSame DEF IInv

LEMMA KnownRowPreserves ==
    ASSUME IInv, NEW i \in todo, KnownRow(i), pc = "rows", todo' = todo \ {i},
           UNCHANGED <<market, dropped, submit, pc, raw, known, firstIteration,
                       failures>>
    PROVE  IInv'
<1>1. i \in DOMAIN known /\ UNCHANGED trackVars
  BY DEF KnownRow
<1>2. CASE raw[i] \in {status[known[i]], "expired", "unpriced"}
  BY <1>1, <1>2, PollSkipPreserves DEF KnownRow
<1>3. CASE raw[i] \notin {status[known[i]], "expired", "unpriced"}
  <2> DEFINE kind == IF raw[i] = "open" THEN "new" ELSE raw[i]
  <2>1. i \in DOMAIN raw /\ raw[i] # "none" /\ (raw[i] \in Finished => market[i] = raw[i])
    BY DEF IInv, PollInv, TodoInv, RawInv
  <2>2. raw[i] \in MarketStatus
    BY <2>1 DEF IInv, TypeOK
  <2>3. kind \in {"new", "fill", "canceled", "error"}
    BY <1>3, <2>1, <2>2 DEF MarketStatus, Finished
  <2>4. /\ known[i] \in Obj /\ known[i].id = i
        /\ status[known[i]] \in OrderStatus \ {"unprocessed"}
    BY <1>1 DEF IInv, TypeOK, TrackTypeOK, PollInv, KnownInv
  <2>5. /\ status[known[i]] = "fill" => market[i] = "fill"
        /\ status[known[i]] = "error" => market[i] \in {"error", "none"}
    BY <2>4 DEF IInv, TrackInv, StatusInv
  <2>6. /\ kind = "fill" => /\ market[i] = "fill"
                            /\ status[known[i]] \in {"open", "canceled"}
        /\ kind = "canceled" => status[known[i]] = "open"
        /\ kind = "error" => /\ market[i] = "error"
                             /\ status[known[i]] \in {"open", "canceled"}
    BY <1>3, <2>1, <2>4, <2>5 DEF OrderStatus, Finished
  <2>7. Dispatch(kind, known[i])
    BY <1>3 DEF KnownRow
  <2> HIDE DEF kind
  <2> QED  BY <1>1, <2>3, <2>6, <2>7, PollDispatchPreserves
<1> QED  BY <1>2, <1>3

LEMMA PollMissingPreserves == ASSUME IInv, PollMissing PROVE IInv'
<1>1. /\ UNCHANGED <<trackVars, market, dropped, submit, pc, raw, known,
                     firstIteration, failures>>
      /\ pc = "missing"
  BY DEF PollMissing
<1>2. PICK i \in todo : /\ IF IsActive(known[i])
                             THEN Dispatch("canceled", known[i])
                             ELSE UNCHANGED queue
                        /\ todo' = todo \ {i}
  BY DEF PollMissing
<1>3. CASE ~ IsActive(known[i])
  BY <1>1, <1>2, <1>3, PollSkipPreserves
<1>4. CASE IsActive(known[i])
  <2>1. i \in DOMAIN known
    BY <1>1 DEF IInv, PollInv, TodoInv
  <2>2. status[known[i]] = "open"
    <3>1. /\ known[i] \in Obj
          /\ status[known[i]] \in OrderStatus \ {"unprocessed"}
      BY <2>1 DEF IInv, TypeOK, TrackTypeOK, PollInv, KnownInv
    <3> QED  BY <1>4, <3>1 DEF IsActive, IsFilled, IsCanceled, OrderStatus
  <2>3. Dispatch("canceled", known[i])
    BY <1>2, <1>4
  <2> QED  BY <1>1, <1>2, <2>1, <2>2, <2>3, PollDispatchPreserves
<1> QED  BY <1>3, <1>4

-----------------------------------------------------------------------------
(* Steps that track more orders and end none. *)

Grows ==
    /\ Settled' = Settled
    /\ TrackedIds \subseteq TrackedIds'
    /\ \A i \in Ids :
           /\ submit[i] = "refused" => /\ submit'[i] = "refused"
                                       /\ i \in TrackedIds' => i \in TrackedIds
           /\ market[i] \in Finished => market'[i] = market[i]
    /\ \A o \in Obj : \/ status'[o] = status[o]
                      \/ status[o] \in {"unprocessed", "open"} /\ status'[o] = "open"

LEMMA GrowsKeepsEvent ==
    ASSUME IInv, Grows, NEW e \in ToSet(queue), IsVerdict(e) => VerdictSpoken(e)'
    PROVE  EventOK(e)'
<1>1. e.order \in Obj /\ e.order.id \in Ids /\ EventOK(e)
  BY QueuedEvent DEF IInv, QueueInv
<1>2. CASE ~ IsVerdict(e)
  BY <1>1, <1>2 DEF EventOK, IsVerdict, Grows
<1>3. CASE IsVerdict(e)
  <2>1. IsRefusal(e) => IsRefusal(e)'
    BY <1>1 DEF IsRefusal, Grows
  <2>2. VerdictHolds(e)
    BY <1>1, <1>3 DEF EventOK
  <2>3. VerdictHolds(e)'
    BY <1>1, <2>1, <2>2 DEF VerdictHolds, Grows, Finished
  <2> QED  BY <1>3, <2>3 DEF EventOK, IsVerdict
<1> QED  BY <1>2, <1>3

LEMMA GrowsKeepsKnown == ASSUME IInv, Grows, known' = known PROVE KnownInv'
<1>1. \A i \in DOMAIN known : known[i] \in Obj
  BY DEF IInv, TypeOK
<1> QED  BY <1>1 DEF IInv, PollInv, KnownInv, Grows

(* When only the tracked orders change, the poll goes on as before.        *)
LEMMA GrowsKeepsPoll ==
    ASSUME IInv, Grows, UNCHANGED <<market, queue, pc, raw, known>>,
           todo' \subseteq todo
    PROVE  PollInv' /\ QueueInv'
<1>1. PollInv'
  BY GrowsKeepsKnown DEF IInv, PollInv, RawInv, TodoInv
<1>2. ASSUME NEW e \in ToSet(queue) PROVE EventOK(e)'
  <2>1. ASSUME IsVerdict(e) PROVE VerdictSpoken(e)'
    <3>1. e.order.id \in Ids /\ VerdictSpoken(e)
      BY <2>1, QueuedEvent DEF IInv, QueueInv, EventOK
    <3> QED  BY <3>1 DEF VerdictSpoken, IsRefusal, Grows
  <2> QED  BY <2>1, GrowsKeepsEvent
<1> QED  BY <1>1, <1>2, SameQueue DEF IInv

LEMMA RegisterTracks ==
    ASSUME IInv, NEW x \in Obj, ~ HasId(newOrders, x.id), Register(x),
           UNCHANGED <<market, submit>>,
           status[x] \in {"unprocessed", "open"},
           submit[x.id] \notin {"idle", "refused"},
           x = Own(x.id) => submit[x.id] \in {"tracked", "done"}
    PROVE  TrackTypeOK' /\ TrackInv' /\ Grows
<1>1. TrackTypeOK /\ ListsDistinct
  BY DEF IInv, TypeOK, TrackInv, ListsInv
<1>2. /\ TrackTypeOK' /\ ListsDistinct'
      /\ Outstanding' = {p \in Outstanding : p.id # x.id} \cup {x}
      /\ ToSet(unprocessedOrders') \subseteq ToSet(unprocessedOrders)
      /\ Settled' = Settled
      /\ TrackedIds' = TrackedIds \cup {x.id}
  BY <1>1, RegisterSets
<1>3. /\ \A p \in Obj : status'[p] = IF p = x THEN "open" ELSE status[p]
      /\ fills' = fills
  BY <1>1 DEF Register, TrackTypeOK
<1>4. \A j \in Ids : Own(j) \in Obj /\ Own(j).id = j
  BY DEF Own, Obj, Origins
<1>5. SubmitInv'
  BY <1>2, <1>3, <1>4 DEF IInv, TrackInv, SubmitInv
<1>6. ListsInv'
  BY <1>2 DEF IInv, TrackInv, ListsInv
<1>7. StatusInv'
  BY <1>2, <1>3 DEF IInv, TrackInv, StatusInv
<1>8. SettledInv'
  BY <1>2 DEF IInv, TrackInv, SettledInv
<1>9. Grows
  BY <1>2, <1>3 DEF Grows
<1> QED  BY <1>2, <1>5, <1>6, <1>7, <1>8, <1>9 DEF TrackInv

(* The object that _process_new_order registers, if any: one that waits    *)
(* after its submission, or one of an order nobody tracks.                 *)
LEMMA ProcessNewCases ==
    ASSUME IInv, NEW o \in Obj, ProcessNewOrder(o)
    PROVE  \/ UNCHANGED trackVars
           \/ \E x \in Obj :
                  /\ ~ HasId(newOrders, x.id) /\ Register(x)
                  /\ \/ /\ status[x] = "open"
                        /\ x = Own(x.id) /\ submit[x.id] \in {"tracked", "done"}
                     \/ /\ status[x] = "unprocessed"
                        /\ x = o /\ o.id \notin TrackedIds
<1>1. CASE /\ ~ AlreadyPastNew(o.id)
           /\ HasId(unprocessedOrders, o.id)
           /\ Register(FirstWith(unprocessedOrders, o.id))
  <2> DEFINE x == FirstWith(unprocessedOrders, o.id)
  <2>1. x \in ToSet(unprocessedOrders) /\ x \in Obj /\ x.id = o.id
    <3>1. unprocessedOrders \in Seq(Obj)
      BY ListTypes DEF IInv, TypeOK
    <3> DEFINE k == SelectInSeq(unprocessedOrders, LAMBDA p : p.id = o.id)
    <3>2. k \in DOMAIN unprocessedOrders /\ unprocessedOrders[k].id = o.id
      BY <1>1, <3>1, FirstPosition
    <3>3. x = unprocessedOrders[k]
      BY DEF FirstWith
    <3> HIDE DEF k, x
    <3> QED  BY <3>1, <3>2, <3>3 DEF ToSet
  <2>2. x = Own(x.id) /\ submit[x.id] \in {"tracked", "done"}
    BY <2>1 DEF IInv, TrackInv, ListsInv
  <2>3. status[x] = "open"
    BY <2>1 DEF IInv, TrackInv, StatusInv, Outstanding
  <2>4. ~ HasId(newOrders, x.id) /\ Register(x)
    BY <1>1, <2>1 DEF AlreadyPastNew
  <2> HIDE DEF x
  <2> QED  BY <2>1, <2>2, <2>3, <2>4
<1>2. CASE /\ ~ AlreadyPastNew(o.id)
           /\ ~ HasId(unprocessedOrders, o.id)
           /\ Register(o)
  <2>1. o.id \notin TrackedIds /\ ~ HasId(newOrders, o.id)
    BY <1>2 DEF AlreadyPastNew
  <2>2. status[o] = "unprocessed"
    BY <2>1 DEF IInv, TrackInv, StatusInv
  <2> QED  BY <1>2, <2>1, <2>2
<1> QED  BY <1>1, <1>2 DEF ProcessNewOrder

LEMMA ProcessNewTracks ==
    ASSUME IInv, NEW o \in Obj, ProcessNewOrder(o), UNCHANGED <<market, submit>>,
           o.id \in TrackedIds \/ (o.by = "poll" /\ market[o.id] # "none")
    PROVE  TrackTypeOK' /\ TrackInv' /\ Grows
<1>1. CASE UNCHANGED trackVars
  <2>1. Grows
    BY <1>1, TrackSame DEF Grows, trackVars
  <2> QED  BY <1>1, <2>1, TrackInvSame, TrackSame DEF IInv, TypeOK
<1>2. ASSUME NEW x \in Obj, ~ HasId(newOrders, x.id), Register(x),
             status[x] = "open", x = Own(x.id), submit[x.id] \in {"tracked", "done"}
      PROVE  TrackTypeOK' /\ TrackInv' /\ Grows
  BY <1>2, RegisterTracks
<1>3. ASSUME ~ HasId(newOrders, o.id), Register(o),
             status[o] = "unprocessed", o.id \notin TrackedIds
      PROVE  TrackTypeOK' /\ TrackInv' /\ Grows
  <2>1. submit[o.id] \notin {"idle", "refused"}
    <3>1. o.id \in Ids /\ market[o.id] # "none"
      BY <1>3 DEF Obj
    <3> QED  BY <3>1 DEF IInv, TrackInv, SubmitInv
  <2>2. o # Own(o.id)
    BY <1>3 DEF Own
  <2> QED  BY <1>3, <2>1, <2>2, RegisterTracks
<1> QED  BY <1>1, <1>2, <1>3, ProcessNewCases

LEMMA UnknownRowPreserves ==
    ASSUME IInv, NEW i \in todo, UnknownRow(i), pc = "rows", todo' = todo \ {i},
           UNCHANGED <<market, dropped, submit, pc, raw, known, firstIteration,
                       failures>>
    PROVE  IInv'
<1>1. i \in Ids /\ i \in DOMAIN raw /\ market[i] # "none" /\ queue' = queue
  BY DEF IInv, TypeOK, PollInv, TodoInv, RawInv, UnknownRow
<1>2. Parsed(i) \in Obj /\ Parsed(i).id = i /\ Parsed(i).by = "poll"
  BY <1>1 DEF Parsed, Obj, Origins
<1>3. CASE UNCHANGED trackVars
  BY <1>1, <1>3, PollSkipPreserves
<1>4. CASE ProcessNewOrder(Parsed(i))
  <2>1. TrackTypeOK' /\ TrackInv' /\ Grows
    BY <1>1, <1>2, <1>4, ProcessNewTracks
  <2>2. TypeOK'
    BY <1>1, <2>1 DEF IInv, TypeOK
  <2>3. PollInv' /\ QueueInv'
    BY <1>1, <2>1, GrowsKeepsPoll
  <2> QED  BY <2>1, <2>2, <2>3 DEF IInv
<1> QED  BY <1>3, <1>4 DEF UnknownRow

-----------------------------------------------------------------------------
(* Submissions. *)

(* An order that was not submitted yet is nowhere to be seen.              *)
LEMMA IdleUnseen ==
    ASSUME IInv, NEW i \in Ids, submit[i] = "idle"
    PROVE  /\ market[i] = "none" /\ i \notin TrackedIds /\ i \notin DOMAIN raw
           /\ i \notin DOMAIN known
           /\ \A o \in Obj : o.id = i => status[o] = "unprocessed"
           /\ \A e \in ToSet(queue) : e.order.id # i
<1>1. market[i] = "none" /\ i \notin TrackedIds
  BY DEF IInv, TrackInv, SubmitInv
<1>2. i \notin DOMAIN raw /\ i \notin DOMAIN known
  BY <1>1 DEF IInv, PollInv, RawInv, KnownInv
<1>3. \A o \in Obj : o.id = i => status[o] = "unprocessed"
  BY <1>1 DEF IInv, TrackInv, StatusInv
<1>4. ASSUME NEW e \in ToSet(queue), e.order.id = i PROVE FALSE
  <2>1. e \in Event /\ e.order \in Obj /\ EventOK(e)
    BY QueuedEvent DEF IInv, QueueInv
  <2>2. IsVerdict(e) /\ VerdictHolds(e)
    BY <1>1, <1>4, <2>1 DEF EventOK
  <2>3. e.kind \in {"fill", "canceled", "error"}
    BY <2>1, <2>2 DEF Event, IsVerdict
  <2> QED  BY <1>1, <1>3, <1>4, <2>1, <2>2, <2>3 DEF VerdictHolds, IsRefusal
<1> QED  BY <1>1, <1>2, <1>3, <1>4

LEMMA WaitingObjects ==
    ASSUME TrackTypeOK
    PROVE  \A o \in ToSet(unprocessedOrders) : o \in Obj /\ o.id \in Ids
<1>1. unprocessedOrders \in Seq(Obj)
  BY ListTypes
<1>2. \A n \in DOMAIN unprocessedOrders : unprocessedOrders[n] \in Obj
  BY <1>1
<1> QED  BY <1>2 DEF ToSet, Obj

LEMMA OwnObject == \A i \in Ids : Own(i) \in Obj /\ Own(i).id = i /\ Own(i).by = "strategy"
BY DEF Own, Obj, Origins

LEMMA SubmitAcceptedPreserves == ASSUME IInv, NEW i \in Ids, SubmitAccepted(i) PROVE IInv'
<1>1. /\ UNCHANGED <<trackVars, dropped, queue, pc, raw, known, todo,
                     firstIteration, failures>>
      /\ submit[i] = "idle"
      /\ submit' = [submit EXCEPT ![i] = "accepted"]
      /\ market' = [market EXCEPT ![i] = "open"]
  BY DEF SubmitAccepted, SubmitGoto
<1>2. /\ Outstanding' = Outstanding /\ Settled' = Settled
      /\ TrackedIds' = TrackedIds /\ ListsDistinct' /\ TrackTypeOK'
      /\ status' = status /\ fills' = fills
      /\ unprocessedOrders' = unprocessedOrders
  BY <1>1, TrackSame DEF IInv, TypeOK, TrackInv, ListsInv, trackVars, trackers
<1>3. TypeOK'
  BY <1>1, <1>2 DEF IInv, TypeOK, MarketStatus, SubmitStatus
<1>4. /\ \A j \in Ids : submit'[j] = IF j = i THEN "accepted" ELSE submit[j]
      /\ \A j \in Ids : market'[j] = IF j = i THEN "open" ELSE market[j]
  BY <1>1 DEF IInv, TypeOK
<1>5. SubmitInv'
  BY <1>2, <1>4, IdleUnseen, OwnObject, <1>1 DEF IInv, TrackInv, SubmitInv
<1>6. ListsInv'
  <2>1. \A o \in ToSet(unprocessedOrders) : o.id \in Ids
    BY WaitingObjects DEF IInv, TypeOK
  <2> QED  BY <1>1, <1>2, <1>4, <2>1 DEF IInv, TrackInv, ListsInv
<1>7. StatusInv' /\ SettledInv'
  <2>1. \A o \in Obj : o.id \in Ids
    BY DEF Obj
  <2> QED
    BY <1>1, <1>2, <1>4, <2>1, IdleUnseen DEF IInv, TrackInv, StatusInv, SettledInv
<1>8. RawInv'
  <2>1. \A j \in DOMAIN raw : j \in Ids
    BY DEF IInv, TypeOK
  <2> QED  BY <1>1, <1>4, <2>1, IdleUnseen DEF IInv, PollInv, RawInv
<1>9. Grows
  BY <1>1, <1>2, <1>4, IdleUnseen DEF Grows, Finished
<1>10. KnownInv' /\ TodoInv'
  BY <1>1, <1>9, GrowsKeepsKnown DEF IInv, PollInv, TodoInv
<1>11. ASSUME NEW e \in ToSet(queue) PROVE EventOK(e)'
  <2>1. ASSUME IsVerdict(e) PROVE VerdictSpoken(e)'
    <3>1. e.order.id \in Ids /\ VerdictSpoken(e)
      BY <2>1, QueuedEvent DEF IInv, QueueInv, EventOK
    <3> QED  BY <1>1, <1>9, <3>1 DEF VerdictSpoken, IsRefusal, Grows
  <2> QED  BY <1>9, <2>1, GrowsKeepsEvent
<1>12. QueueInv'
  BY <1>1, <1>11, SameQueue DEF IInv
<1> QED  BY <1>3, <1>5, <1>6, <1>7, <1>8, <1>10, <1>12 DEF IInv, TrackInv, PollInv

LEMMA SubmitRefusedPreserves == ASSUME IInv, NEW i \in Ids, SubmitRefused(i) PROVE IInv'
<1>1. /\ UNCHANGED <<trackVars, market, dropped, pc, raw, known, todo,
                     firstIteration, failures>>
      /\ submit[i] = "idle"
      /\ submit' = [submit EXCEPT ![i] = "refused"]
      /\ Dispatch("error", Own(i))
  BY DEF SubmitRefused, SubmitGoto
<1>2. /\ Outstanding' = Outstanding /\ Settled' = Settled
      /\ TrackedIds' = TrackedIds /\ ListsDistinct' /\ TrackTypeOK'
      /\ status' = status /\ fills' = fills
      /\ unprocessedOrders' = unprocessedOrders
  BY <1>1, TrackSame DEF IInv, TypeOK, TrackInv, ListsInv, trackVars, trackers
<1>3. \A j \in Ids : submit'[j] = IF j = i THEN "refused" ELSE submit[j]
  BY <1>1 DEF IInv, TypeOK
<1>4. SubmitInv'
  BY <1>1, <1>2, <1>3, IdleUnseen, OwnObject DEF IInv, TrackInv, SubmitInv
<1>5. ListsInv'
  <2>1. \A o \in ToSet(unprocessedOrders) : o.id \in Ids
    BY WaitingObjects DEF IInv, TypeOK
  <2> QED  BY <1>1, <1>2, <1>3, <2>1 DEF IInv, TrackInv, ListsInv
<1>6. StatusInv' /\ SettledInv'
  BY <1>1, <1>2 DEF IInv, TrackInv, StatusInv, SettledInv
<1>7. Grows
  BY <1>1, <1>2, <1>3 DEF Grows
<1>8. PollInv'
  BY <1>1, <1>7, GrowsKeepsKnown DEF IInv, PollInv, RawInv, TodoInv
<1>9. ASSUME NEW d \in ToSet(queue) PROVE EventOK(d)'
  <2>1. ASSUME IsVerdict(d) PROVE VerdictSpoken(d)'
    <3>1. d.order.id \in Ids /\ VerdictSpoken(d)
      BY <2>1, QueuedEvent DEF IInv, QueueInv, EventOK
    <3> QED  BY <1>1, <1>7, <3>1 DEF VerdictSpoken, IsRefusal, Grows
  <2> QED  BY <1>7, <2>1, GrowsKeepsEvent
<1>10. PICK e \in Event : e.kind = "error" /\ e.order = Own(i)
  <2>1. [kind |-> "error", order |-> Own(i)] \in Event
    BY OwnObject DEF Event
  <2> QED  BY <2>1
<1>11. EventOK(e)'
  <2>1. IsRefusal(e)'
    BY <1>1, <1>2, <1>3, <1>10, IdleUnseen, OwnObject DEF IsRefusal
  <2>2. \A p \in Settled : p.id # i
    <3>1. TrackShape
      BY TrackedShape DEF IInv, TypeOK
    <3> QED  BY <1>1, <3>1, IdleUnseen DEF TrackShape
  <2>3. VerdictHolds(e)'
    BY <1>2, <1>10, <2>1, <2>2, OwnObject DEF VerdictHolds
  <2>4. VerdictSpoken(e)'
    BY <1>1, <1>10, <2>1, IdleUnseen, OwnObject
    DEF VerdictSpoken, IInv, PollInv, TodoInv
  <2> QED  BY <1>10, <2>3, <2>4 DEF EventOK, IsVerdict
<1>12. QueueInv' /\ queue' \in Seq(Event) /\ Len(queue') <= QueueSize
  BY <1>1, <1>9, <1>10, <1>11, IdleUnseen, OwnObject, DispatchEvent DEF IInv
<1>13. TypeOK'
  BY <1>1, <1>2, <1>12 DEF IInv, TypeOK, SubmitStatus
<1> QED  BY <1>4, <1>5, <1>6, <1>8, <1>12, <1>13 DEF IInv, TrackInv

LEMMA SubmitTrackPreserves == ASSUME IInv, NEW i \in Ids, SubmitTrack(i) PROVE IInv'
<1>1. /\ UNCHANGED <<market, dropped, queue, pc, raw, known, todo,
                     firstIteration, failures>>
      /\ submit[i] = "accepted"
      /\ submit' = [submit EXCEPT ![i] = "tracked"]
      /\ TrackSubmitted(Own(i))
  BY DEF SubmitTrack, SubmitGoto
<1>2. TrackTypeOK /\ ListsDistinct
  BY DEF IInv, TypeOK, TrackInv, ListsInv
<1>3. ~ HasId(unprocessedOrders, i)
  BY <1>1 DEF HasId, IInv, TrackInv, ListsInv, ToSet
<1>4. /\ TrackTypeOK' /\ ListsDistinct'
      /\ Outstanding' = Outstanding \cup {Own(i)}
      /\ ToSet(unprocessedOrders') = ToSet(unprocessedOrders) \cup {Own(i)}
      /\ Settled' = Settled
      /\ TrackedIds' = TrackedIds \cup {i}
  BY <1>1, <1>2, <1>3, OwnObject, SubmittedSets
<1>5. /\ \A o \in Obj : status'[o] = IF o = Own(i) THEN "open" ELSE status[o]
      /\ fills' = fills
      /\ \A j \in Ids : submit'[j] = IF j = i THEN "tracked" ELSE submit[j]
  BY <1>1, <1>2 DEF TrackSubmitted, TrackTypeOK, IInv, TypeOK
<1>6. status[Own(i)] = "unprocessed" /\ market[i] # "none"
  BY <1>1 DEF IInv, TrackInv, SubmitInv
<1>7. TypeOK'
  BY <1>1, <1>4 DEF IInv, TypeOK, SubmitStatus
<1>8. SubmitInv'
  BY <1>1, <1>4, <1>5, <1>6, OwnObject DEF IInv, TrackInv, SubmitInv
<1>9. ListsInv'
  <2>1. \A o \in ToSet(unprocessedOrders) : o.id \in Ids
    BY <1>2, WaitingObjects
  <2>2. Own(i) = Own(Own(i).id) /\ Own(i).id = i
    BY OwnObject
  <2> QED  BY <1>4, <1>5, <2>1, <2>2 DEF IInv, TrackInv, ListsInv
<1>10. StatusInv' /\ SettledInv'
  BY <1>1, <1>4, <1>5, <1>6, OwnObject DEF IInv, TrackInv, StatusInv, SettledInv
<1>11. Grows
  BY <1>1, <1>4, <1>5, <1>6 DEF Grows
<1>12. PollInv' /\ QueueInv'
  BY <1>1, <1>11, GrowsKeepsPoll
<1> QED  BY <1>7, <1>8, <1>9, <1>10, <1>12 DEF IInv, TrackInv

LEMMA SubmitDispatchPreserves == ASSUME IInv, NEW i \in Ids, SubmitDispatch(i) PROVE IInv'
<1>1. /\ UNCHANGED <<trackVars, market, dropped, pc, raw, known, todo,
                     firstIteration, failures>>
      /\ submit[i] = "tracked"
      /\ submit' = [submit EXCEPT ![i] = "done"]
      /\ Dispatch("new", Own(i))
  BY DEF SubmitDispatch, SubmitGoto
<1>2. /\ Outstanding' = Outstanding /\ Settled' = Settled
      /\ TrackedIds' = TrackedIds /\ ListsDistinct' /\ TrackTypeOK'
      /\ status' = status /\ fills' = fills
      /\ unprocessedOrders' = unprocessedOrders
  BY <1>1, TrackSame DEF IInv, TypeOK, TrackInv, ListsInv, trackVars, trackers
<1>3. \A j \in Ids : submit'[j] = IF j = i THEN "done" ELSE submit[j]
  BY <1>1 DEF IInv, TypeOK
<1>4. SubmitInv'
  BY <1>1, <1>2, <1>3 DEF IInv, TrackInv, SubmitInv
<1>5. ListsInv'
  <2>1. \A o \in ToSet(unprocessedOrders) : o.id \in Ids
    BY WaitingObjects DEF IInv, TypeOK
  <2> QED  BY <1>1, <1>2, <1>3, <2>1 DEF IInv, TrackInv, ListsInv
<1>6. StatusInv' /\ SettledInv'
  BY <1>1, <1>2 DEF IInv, TrackInv, StatusInv, SettledInv
<1>7. Grows
  BY <1>1, <1>2, <1>3 DEF Grows
<1>8. PollInv'
  BY <1>1, <1>7, GrowsKeepsKnown DEF IInv, PollInv, RawInv, TodoInv
<1>9. ASSUME NEW d \in ToSet(queue) PROVE EventOK(d)'
  <2>1. ASSUME IsVerdict(d) PROVE VerdictSpoken(d)'
    <3>1. d.order.id \in Ids /\ VerdictSpoken(d)
      BY <2>1, QueuedEvent DEF IInv, QueueInv, EventOK
    <3> QED  BY <1>1, <1>7, <3>1 DEF VerdictSpoken, IsRefusal, Grows
  <2> QED  BY <1>7, <2>1, GrowsKeepsEvent
<1>10. PICK e \in Event : e.kind = "new" /\ e.order = Own(i)
  <2>1. [kind |-> "new", order |-> Own(i)] \in Event
    BY OwnObject DEF Event
  <2> QED  BY <2>1
<1>11. EventOK(e)' /\ ~ IsVerdict(e)
  <2>1. i \in TrackedIds
    BY <1>1 DEF IInv, TrackInv, SubmitInv
  <2> QED  BY <1>2, <1>10, <2>1, OwnObject DEF EventOK, IsVerdict
<1>12. QueueInv' /\ queue' \in Seq(Event) /\ Len(queue') <= QueueSize
  BY <1>1, <1>9, <1>10, <1>11, DispatchEvent DEF IInv
<1>13. TypeOK'
  BY <1>1, <1>2, <1>12 DEF IInv, TypeOK, SubmitStatus
<1> QED  BY <1>4, <1>5, <1>6, <1>8, <1>12, <1>13 DEF IInv, TrackInv

LEMMA StrategyPreserves == ASSUME IInv, Strategy PROVE IInv'
<1>1. PICK i \in Ids : \/ SubmitAccepted(i) \/ SubmitRefused(i)
                       \/ SubmitTrack(i) \/ SubmitDispatch(i)
                       \/ CancelOrder(i)
  BY DEF Strategy
<1>2. CASE CancelOrder(i)
  BY <1>2, MarketStepPreserves DEF CancelOrder
<1> QED
  BY <1>1, <1>2, SubmitAcceptedPreserves, SubmitRefusedPreserves,
     SubmitTrackPreserves, SubmitDispatchPreserves

-----------------------------------------------------------------------------
(* Events. *)

(* Handling a verdict that holds.                                          *)
LEMMA EndTracks ==
    ASSUME IInv, NEW o \in Obj, Ends(o), UNCHANGED <<market, submit>>,
           NEW s \in {"fill", "canceled", "error"},
           status' = [status EXCEPT ![o] = s],
           fills' = IF s = "fill" THEN [fills EXCEPT ![o] = @ + 1] ELSE fills,
           status[o] # "fill",
           s = "fill" => market[o.id] = "fill",
           s = "error" => market[o.id] \in {"error", "none"},
           submit[o.id] # "idle",
           status[o] = "unprocessed" => submit[o.id] = "refused",
           \A p \in Settled : p.id = o.id => p = o
    PROVE  TrackTypeOK' /\ TrackInv'
<1>1. TrackTypeOK /\ ListsDistinct
  BY DEF IInv, TypeOK, TrackInv, ListsInv
<1>2. /\ TrackTypeOK' /\ ListsDistinct'
      /\ Outstanding' = {p \in Outstanding : p.id # o.id}
      /\ ToSet(unprocessedOrders') \subseteq ToSet(unprocessedOrders)
      /\ o \in Settled' /\ Settled' \subseteq Settled \cup {o}
      /\ \A p \in Settled : p.id # o.id => p \in Settled'
      /\ TrackedIds' = TrackedIds \cup {o.id}
  BY <1>1, EndSets
<1>3. /\ \A p \in Obj : status'[p] = IF p = o THEN s ELSE status[p]
      /\ \A p \in Obj : fills'[p] = IF p = o /\ s = "fill" THEN fills[p] + 1 ELSE fills[p]
  BY <1>1 DEF TrackTypeOK
<1>4. SubmitInv'
  BY <1>2, <1>3, OwnObject DEF IInv, TrackInv, SubmitInv
<1>5. ListsInv'
  BY <1>2 DEF IInv, TrackInv, ListsInv
<1>6. StatusInv'
  BY <1>2, <1>3 DEF IInv, TrackInv, StatusInv
<1>7. SettledInv'
  BY <1>2 DEF IInv, TrackInv, SettledInv
<1> QED  BY <1>2, <1>4, <1>5, <1>6, <1>7 DEF TrackInv

LEMMA SetErrorTracks ==
    ASSUME IInv, NEW o \in Obj, SetError(o), UNCHANGED <<market, submit>>,
           status[o] = "canceled", market[o.id] = "error"
    PROVE  TrackTypeOK' /\ TrackInv'
<1>1. TrackTypeOK /\ ListsDistinct
  BY DEF IInv, TypeOK, TrackInv, ListsInv
<1>2. UNCHANGED trackers /\ fills' = fills
  BY DEF SetError
<1>3. /\ Outstanding' = Outstanding /\ Settled' = Settled
      /\ unprocessedOrders' = unprocessedOrders
      /\ TrackedIds' = TrackedIds /\ ListsDistinct'
  BY <1>1, <1>2
  DEF trackers, Outstanding, Settled, TrackedIds, TrackedOrders, ListsDistinct, Distinct
<1>4. \A p \in Obj : status'[p] = IF p = o THEN "error" ELSE status[p]
  BY <1>1 DEF SetError, TrackTypeOK
<1>5. TrackTypeOK'
  BY <1>1, <1>2 DEF SetError, TrackTypeOK, trackers, OrderStatus
<1>6. SubmitInv'
  BY <1>3, <1>4, OwnObject DEF IInv, TrackInv, SubmitInv
<1>7. ListsInv'
  BY <1>3 DEF IInv, TrackInv, ListsInv
<1>8. StatusInv' /\ SettledInv'
  BY <1>2, <1>3, <1>4 DEF IInv, TrackInv, StatusInv, SettledInv
<1> QED  BY <1>5, <1>6, <1>7, <1>8 DEF TrackInv

(* The three ways a verdict is handled, with what makes each sound.        *)
LEMMA VerdictCases ==
    ASSUME IInv, NEW e \in ToSet(queue), IsVerdict(e), Handle(e)
    PROVE  LET o == e.order IN
           \/ /\ ProcessFilledOrder(o)
              /\ market[o.id] = "fill" /\ status[o] \in {"open", "canceled"}
           \/ /\ ProcessCanceledOrder(o)
              /\ status[o] = "open"
           \/ /\ ProcessErrorOrder(o)
              /\ \/ status[o] = "unprocessed" /\ IsRefusal(e)
                 \/ status[o] = "open" /\ market[o.id] = "error"
           \/ /\ SetError(o)
              /\ status[o] = "canceled" /\ market[o.id] = "error"
<1> DEFINE o == e.order
<1>1. /\ e \in Event /\ o \in Obj /\ VerdictHolds(e)
  BY QueuedEvent DEF IInv, QueueInv, EventOK
<1>2. e.kind \in {"fill", "canceled", "error"}
  BY <1>1 DEF Event, IsVerdict
<1>3. status[o] \in OrderStatus
  BY <1>1 DEF IInv, TypeOK, TrackTypeOK
<1>4. CASE e.kind = "fill"
  BY <1>1, <1>4 DEF Handle, VerdictHolds
<1>5. CASE e.kind = "canceled"
  BY <1>1, <1>5 DEF Handle, VerdictHolds
<1>6. CASE e.kind = "error"
  <2>1. IF IsActive(o) THEN ProcessErrorOrder(o) ELSE SetError(o)
    BY <1>6 DEF Handle
  <2>2. \/ IsRefusal(e)
        \/ market[o.id] = "error" /\ status[o] \in {"open", "canceled"}
    BY <1>1, <1>6 DEF VerdictHolds
  <2>3. IsRefusal(e) => status[o] = "unprocessed"
    BY <1>1 DEF IsRefusal, IInv, TrackInv, StatusInv
  <2>4. /\ status[o] \in {"unprocessed", "open"} => IsActive(o)
        /\ status[o] = "canceled" => ~ IsActive(o)
    BY DEF IsActive, IsFilled, IsCanceled
  <2> QED  BY <2>1, <2>2, <2>3, <2>4
<1> QED  BY <1>2, <1>4, <1>5, <1>6

LEMMA VerdictTracks ==
    ASSUME IInv, NEW e \in ToSet(queue), IsVerdict(e), Handle(e),
           UNCHANGED <<market, submit>>
    PROVE  /\ TrackTypeOK' /\ TrackInv'
           /\ TrackedIds \subseteq TrackedIds'
           /\ TrackedIds' \subseteq TrackedIds \cup {e.order.id}
           /\ Settled' \subseteq Settled \cup {e.order}
           /\ \A p \in Obj : p # e.order => status'[p] = status[p]
<1> DEFINE o == e.order
<1>1. /\ e \in Event /\ o \in Obj /\ o.id \in Ids
      /\ \A p \in Settled : p.id = o.id => p = o
  BY QueuedEvent DEF IInv, QueueInv, EventOK, VerdictHolds
<1>2. TrackTypeOK /\ ListsDistinct
  BY DEF IInv, TypeOK, TrackInv, ListsInv
<1>3. /\ status[o] = "open" => submit[o.id] # "idle"
      /\ market[o.id] \in {"fill", "error"} => submit[o.id] # "idle"
      /\ IsRefusal(e) => submit[o.id] = "refused" /\ market[o.id] = "none"
  BY <1>1 DEF IInv, TrackInv, StatusInv, SubmitInv, IsRefusal
<1>4. CASE Ends(o)
  <2>1. TrackedIds' = TrackedIds \cup {o.id} /\ Settled' \subseteq Settled \cup {o}
    BY <1>1, <1>2, <1>4, EndSets
  <2>2. CASE /\ ProcessFilledOrder(o)
             /\ market[o.id] = "fill" /\ status[o] \in {"open", "canceled"}
    <3>1. /\ status' = [status EXCEPT ![o] = "fill"]
          /\ fills' = [fills EXCEPT ![o] = @ + 1]
      BY <2>2 DEF ProcessFilledOrder
    <3> HIDE DEF o
    <3>2. TrackTypeOK' /\ TrackInv'
      BY <1>1, <1>3, <1>4, <2>2, <3>1, EndTracks
    <3> QED  BY <1>2, <2>1, <3>1, <3>2 DEF TrackTypeOK, o
  <2>3. CASE ProcessCanceledOrder(o) /\ status[o] = "open"
    <3>1. status' = [status EXCEPT ![o] = "canceled"] /\ fills' = fills
      BY <2>3 DEF ProcessCanceledOrder
    <3> HIDE DEF o
    <3>2. TrackTypeOK' /\ TrackInv'
      BY <1>1, <1>3, <1>4, <2>3, <3>1, EndTracks
    <3> QED  BY <1>2, <2>1, <3>1, <3>2 DEF TrackTypeOK, o
  <2>4. CASE /\ ProcessErrorOrder(o)
             /\ \/ status[o] = "unprocessed" /\ IsRefusal(e)
                \/ status[o] = "open" /\ market[o.id] = "error"
    <3>1. status' = [status EXCEPT ![o] = "error"] /\ fills' = fills
      BY <2>4 DEF ProcessErrorOrder
    <3> HIDE DEF o
    <3>2. TrackTypeOK' /\ TrackInv'
      BY <1>1, <1>3, <1>4, <2>4, <3>1, EndTracks
    <3> QED  BY <1>2, <2>1, <3>1, <3>2 DEF TrackTypeOK, o
  <2>5. CASE SetError(o) /\ status[o] = "canceled" /\ market[o.id] = "error"
    <3>1. TrackTypeOK' /\ TrackInv'
      BY <1>1, <2>5, SetErrorTracks
    <3> QED  BY <1>2, <2>1, <2>5, <3>1 DEF TrackTypeOK, SetError
  <2> QED  BY <2>2, <2>3, <2>4, <2>5, VerdictCases
<1>5. CASE SetError(o) /\ status[o] = "canceled" /\ market[o.id] = "error"
  <2>1. TrackTypeOK' /\ TrackInv'
    BY <1>1, <1>5, SetErrorTracks
  <2>2. Settled' = Settled /\ TrackedIds' = TrackedIds
    BY <1>5 DEF SetError, trackers, Settled, TrackedIds, TrackedOrders
  <2> QED  BY <1>2, <1>5, <2>1, <2>2 DEF TrackTypeOK, SetError
<1> QED  BY <1>4, <1>5, VerdictCases DEF Ends

LEMMA HandleEventPreserves == ASSUME IInv, HandleEvent PROVE IInv'
<1>1. /\ UNCHANGED <<market, dropped, submit, pc, raw, known, todo,
                     firstIteration, failures>>
      /\ pc = "get" /\ queue # <<>> /\ queue' = Tail(queue)
      /\ Handle(Head(queue))
  BY DEF HandleEvent
<1>2. PICK e \in ToSet(queue) : e = Head(queue)
  BY <1>1, TakenEvent DEF IInv
<1>3. /\ queue' \in Seq(Event) /\ Len(queue') <= QueueSize
      /\ ToSet(queue') \subseteq ToSet(queue)
      /\ OneVerdict'
      /\ IsVerdict(e) => \A d \in ToSet(queue') : IsVerdict(d) => d.order.id # e.order.id
  BY <1>1, <1>2, TakenEvent DEF IInv
<1>4. e \in Event /\ e.order \in Obj /\ EventOK(e) /\ Handle(e)
  BY <1>1, <1>2, QueuedEvent DEF IInv, QueueInv
<1>5. \A d : VerdictSpoken(d)'
  BY <1>1 DEF VerdictSpoken
<1>6. /\ TrackTypeOK' /\ TrackInv'
      /\ \A d \in ToSet(queue') : EventOK(d)'
  <2>1. CASE ~ IsVerdict(e)
    <3>1. ProcessNewOrder(e.order) /\ e.order.id \in TrackedIds
      BY <1>4, <2>1 DEF Handle, IsVerdict, EventOK
    <3>2. TrackTypeOK' /\ TrackInv' /\ Grows
      BY <1>1, <1>4, <3>1, ProcessNewTracks
    <3> QED  BY <1>3, <1>5, <3>2, GrowsKeepsEvent
  <2>2. CASE IsVerdict(e)
    <3>1. /\ TrackTypeOK' /\ TrackInv'
          /\ TrackedIds \subseteq TrackedIds'
          /\ TrackedIds' \subseteq TrackedIds \cup {e.order.id}
          /\ Settled' \subseteq Settled \cup {e.order}
          /\ \A p \in Obj : p # e.order => status'[p] = status[p]
      BY <1>1, <1>4, <2>2, VerdictTracks
    <3>2. ASSUME NEW d \in ToSet(queue') PROVE EventOK(d)'
      <4>1. /\ d \in ToSet(queue) /\ d \in Event /\ d.order \in Obj
            /\ EventOK(d)
        BY <1>3, QueuedEvent DEF IInv, QueueInv
      <4>2. CASE ~ IsVerdict(d)
        BY <3>1, <4>1, <4>2 DEF EventOK, IsVerdict
      <4>3. CASE IsVerdict(d)
        <5>1. d.order.id # e.order.id
          BY <1>3, <2>2, <4>3
        <5>2. IsRefusal(d) => IsRefusal(d)'
          BY <1>1, <3>1, <5>1 DEF IsRefusal
        <5>3. VerdictHolds(d)
          BY <4>1, <4>3 DEF EventOK
        <5>4. /\ status'[d.order] = status[d.order] /\ market' = market
              /\ \A p \in Settled' : p.id = d.order.id => p \in Settled
          BY <1>1, <3>1, <4>1, <5>1
        <5>5. VerdictHolds(d)'
          BY <5>2, <5>3, <5>4 DEF VerdictHolds
        <5> QED  BY <1>5, <4>3, <5>5 DEF EventOK, IsVerdict
      <4> QED  BY <4>2, <4>3
    <3> QED  BY <3>1, <3>2
  <2> QED  BY <2>1, <2>2
<1>7. TypeOK'
  BY <1>1, <1>3, <1>6 DEF IInv, TypeOK
<1>8. PollInv'
  BY <1>1 DEF IInv, PollInv, RawInv, KnownInv, TodoInv
<1> QED  BY <1>3, <1>6, <1>7, <1>8 DEF IInv, QueueInv

-----------------------------------------------------------------------------
(* The invariant, and what follows from it. *)

LEMMA StutterPreserves == ASSUME IInv, UNCHANGED vars PROVE IInv'
<1>1. Grows
  BY TrackSame DEF Grows, vars, pollVars, trackVars
<1>2. PollInv' /\ QueueInv'
  BY <1>1, GrowsKeepsPoll DEF vars, pollVars
<1>3. TrackInv'
  BY TrackInvSame DEF vars, pollVars
<1>4. TypeOK'
  BY TrackSame DEF vars, pollVars, IInv, TypeOK
<1> QED  BY <1>2, <1>3, <1>4 DEF IInv

LEMMA PollRowPreserves == ASSUME IInv, PollRow PROVE IInv'
<1>1. PICK i \in todo : (UnknownRow(i) \/ KnownRow(i)) /\ todo' = todo \ {i}
  BY DEF PollRow
<1> QED  BY <1>1, UnknownRowPreserves, KnownRowPreserves DEF PollRow

LEMMA NextPreserves == IInv /\ [Next]_vars => IInv'
<1> SUFFICES ASSUME IInv, [Next]_vars PROVE IInv'
  OBVIOUS
<1>1. CASE Brokerage
  BY <1>1, BrokeragePreserves
<1>2. CASE Strategy
  BY <1>2, StrategyPreserves
<1>3. CASE HandleEvent
  BY <1>3, HandleEventPreserves
<1>4. CASE Poll
  BY <1>4, FetchOrdersPreserves, StoreOrdersPreserves, PollRowPreserves,
     SnapshotTrackedPreserves, PollMissingPreserves, PollDonePreserves DEF Poll
<1>5. CASE UNCHANGED vars
  BY <1>5, StutterPreserves
<1> QED  BY <1>1, <1>2, <1>3, <1>4, <1>5 DEF Next, Stream

(* The queue, the trackers and the poll are always as IInv describes them. *)
THEOREM Inductive == Spec => []IInv
BY InitEstablishes, NextPreserves, PTL DEF Spec

(* The variables keep their types whatever the brokerage, the strategies   *)
(* and the poll do; in particular the queue never outgrows its capacity.   *)
THEOREM TypeCorrect == Spec => []TypeOK
<1>1. IInv => TypeOK
  BY DEF IInv
<1> QED  BY <1>1, Inductive, PTL

(* cancel_open_orders and wait_orders_clear never count an order that is   *)
(* over as outstanding.                                                    *)
THEOREM OutstandingActive == Spec => []OutstandingAreActive
<1>1. IInv => OutstandingAreActive
  <2> SUFFICES ASSUME IInv, NEW o \in Outstanding PROVE IsActive(o)
    BY DEF OutstandingAreActive, Outstanding
  <2>1. \A l \in {unprocessedOrders, newOrders} : ToSet(l) \subseteq Obj
    BY ListTypes DEF IInv, TypeOK, ToSet
  <2>2. status[o] = "open"
    BY <2>1 DEF IInv, TrackInv, StatusInv, Outstanding
  <2> QED  BY <2>2 DEF IsActive, IsFilled, IsCanceled
<1> QED  BY <1>1, Inductive, PTL

(* The new-orders tracker never holds two objects of one order.            *)
THEOREM NewOrdersAreDistinct == Spec => []NewOrdersDistinct
<1>1. IInv => NewOrdersDistinct
  BY DEF IInv, TrackInv, ListsInv, ListsDistinct, Distinct, NewOrdersDistinct
<1> QED  BY <1>1, Inductive, PTL

(* An order is recorded as filled at most once, by one object of it, and   *)
(* only when the brokerage executed it.                                    *)
THEOREM FillsOnce == Spec => []FilledOnce
<1>1. IInv => FilledOnce
  <2> SUFFICES ASSUME IInv, NEW i \in Ids
               PROVE  LET os == {o \in Obj : o.id = i /\ fills[o] > 0}
                      IN  /\ \A o \in os : fills[o] = 1 /\ market[i] = "fill"
                          /\ \A o, p \in os : o = p
    BY DEF FilledOnce
  <2>1. ASSUME NEW o \in Obj, o.id = i, fills[o] > 0
        PROVE  fills[o] = 1 /\ market[i] = "fill" /\ o \in Settled
    BY <2>1 DEF IInv, TrackInv, StatusInv
  <2> QED  BY <2>1 DEF IInv, TrackInv, SettledInv
<1> QED  BY <1>1, Inductive, PTL

-----------------------------------------------------------------------------
(* The abstract order book. *)

LEMMA BookInit == Init => Book!Init
BY DEF Init, TrackInit, Book!Init

LEMMA TrackSameStutters == UNCHANGED trackVars => UNCHANGED Book!bookVars
BY DEF trackVars, Book!bookVars

LEMMA RegisterOpens ==
    ASSUME IInv, NEW x \in Obj, Register(x), status[x] \in {"unprocessed", "open"}
    PROVE  [Book!Next]_(Book!bookVars)
<1>1. status' = [status EXCEPT ![x] = "open"] /\ fills' = fills
  BY DEF Register
<1>2. CASE status[x] = "unprocessed"
  BY <1>1, <1>2 DEF Book!Next, Book!Open, Book!Become
<1>3. CASE status[x] = "open"
  <2>1. status' = status
    BY <1>1, <1>3 DEF IInv, TypeOK, TrackTypeOK
  <2> QED  BY <1>1, <2>1 DEF Book!bookVars
<1> QED  BY <1>2, <1>3

LEMMA ProcessNewOpens ==
    ASSUME IInv, NEW o \in Obj, ProcessNewOrder(o)
    PROVE  [Book!Next]_(Book!bookVars)
BY ProcessNewCases, RegisterOpens, TrackSameStutters

LEMMA VerdictEnds ==
    ASSUME IInv, NEW e \in ToSet(queue), IsVerdict(e), Handle(e)
    PROVE  Book!Next
<1> DEFINE o == e.order
<1>1. o \in Obj
  BY QueuedEvent DEF IInv
<1>2. CASE ProcessFilledOrder(o) /\ status[o] \in {"open", "canceled"}
  <2>1. Book!Fill(o)
    BY <1>2 DEF ProcessFilledOrder, Book!Fill, Book!Become
  <2> QED  BY <1>1, <2>1 DEF Book!Next
<1>3. CASE ProcessCanceledOrder(o) /\ status[o] = "open"
  <2>1. Book!Cancel(o)
    BY <1>3 DEF ProcessCanceledOrder, Book!Cancel, Book!Become
  <2> QED  BY <1>1, <2>1 DEF Book!Next
<1>4. CASE ProcessErrorOrder(o) /\ status[o] \in {"unprocessed", "open"}
  <2>1. Book!Fail(o)
    BY <1>4 DEF ProcessErrorOrder, Book!Fail, Book!Become
  <2> QED  BY <1>1, <2>1 DEF Book!Next
<1>5. CASE SetError(o) /\ status[o] = "canceled"
  <2>1. Book!Fail(o)
    BY <1>5 DEF SetError, Book!Fail, Book!Become
  <2> QED  BY <1>1, <2>1 DEF Book!Next
<1> QED  BY <1>2, <1>3, <1>4, <1>5, VerdictCases

LEMMA NextImplementsBook == IInv /\ [Next]_vars => [Book!Next]_(Book!bookVars)
<1> SUFFICES ASSUME IInv, [Next]_vars PROVE [Book!Next]_(Book!bookVars)
  OBVIOUS
<1>1. CASE UNCHANGED trackVars
  BY <1>1, TrackSameStutters
<1>2. ASSUME NEW i \in Ids, SubmitTrack(i) PROVE [Book!Next]_(Book!bookVars)
  <2>1. Own(i) \in Obj /\ status[Own(i)] = "unprocessed"
    BY <1>2, OwnObject DEF SubmitTrack, SubmitGoto, IInv, TrackInv, SubmitInv
  <2>2. Book!Open(Own(i))
    BY <1>2, <2>1 DEF SubmitTrack, TrackSubmitted, Book!Open, Book!Become
  <2> QED  BY <2>1, <2>2 DEF Book!Next
<1>3. CASE PollRow
  <2>1. PICK i \in todo : UnknownRow(i) \/ KnownRow(i)
    BY <1>3 DEF PollRow
  <2>2. Parsed(i) \in Obj
    BY DEF IInv, TypeOK, Parsed, Obj, Origins
  <2>3. UNCHANGED trackVars \/ ProcessNewOrder(Parsed(i))
    BY <2>1 DEF UnknownRow, KnownRow
  <2> QED  BY <2>2, <2>3, TrackSameStutters, ProcessNewOpens
<1>4. CASE HandleEvent
  <2>1. queue # <<>> /\ queue' = Tail(queue) /\ Handle(Head(queue))
    BY <1>4 DEF HandleEvent
  <2>2. PICK e \in ToSet(queue) : e = Head(queue)
    BY <2>1, TakenEvent DEF IInv
  <2>3. e \in Event /\ e.order \in Obj /\ Handle(e)
    BY <2>1, <2>2, QueuedEvent DEF IInv
  <2>4. CASE IsVerdict(e)
    BY <2>3, <2>4, VerdictEnds
  <2>5. CASE ~ IsVerdict(e)
    <3>1. ProcessNewOrder(e.order)
      BY <2>3, <2>5 DEF Handle, IsVerdict
    <3> QED  BY <2>3, <3>1, ProcessNewOpens
  <2> QED  BY <2>4, <2>5
<1>5. \/ UNCHANGED trackVars
      \/ \E i \in Ids : SubmitTrack(i)
      \/ PollRow
      \/ HandleEvent
  BY DEF Next, Brokerage, Execute, EndOtherwise, MarketStep, Drop, Strategy,
         SubmitAccepted, SubmitRefused, SubmitDispatch, CancelOrder, Stream, Poll,
         FetchOrders, FetchFails, StoreOrders, SnapshotTracked, PollMissing,
         PollDone, vars
<1> QED  BY <1>1, <1>2, <1>3, <1>4, <1>5

(* Whatever the polls miss and the queue drops, every order object behaves *)
(* as the abstract order book promises the strategy.                       *)
THEOREM Refinement == Spec => ImplementsOrderBook
<1>1. Init => Book!Init
  BY BookInit
<1> QED
  BY <1>1, Inductive, NextImplementsBook, PTL DEF Spec, ImplementsOrderBook, Book!Spec

-----------------------------------------------------------------------------
(* SyncBroker.  Two threads run the handlers now, step by step; so its     *)
(* invariant says less of an event than IInv does, but of every event,     *)
(* handler, record and snapshot that either thread is at.                  *)

Real(i) == market[i] \in {"unpriced", "fill"}
EventReal(e) == e.kind = "fill" => Real(e.order.id)

Records == UNION {[S -> MarketStatus \ {"none"}] : S \in SUBSET Ids}
RecordsReal(r) == /\ r \in Records
                  /\ \A i \in DOMAIN r : r[i] \in {"unpriced", "fill"} => Real(i)

(* A handler that is to record a fill.                                     *)
JobReal(j) == (j.at \notin {"none", "rewrite"} /\ j.kind = "fill") => Real(j.order.id)
JobTyped(j) == j \in Job \cup {NoJob}

JobsInv == \A t \in Handlers : JobReal(job[t])
JobsOK == job \in [Handlers -> Job \cup {NoJob}] /\ JobsInv

SyncMarketInv ==
    /\ \A i \in Ids : submit[i] = "idle" => market[i] = "none"
    /\ FillsAreReal

(* What waits in the queue, in the list of held events or in the hand of   *)
(* the stream thread.                                                      *)
SyncEventsInv ==
    /\ \A e \in ToSet(queue) \cup ToSet(held) \cup {taken} : EventReal(e)
    /\ pc \in {"append", "handle"} => taken \in Event

(* The poll's copies of the brokerage's list and of the trackers.          *)
SyncPollInv ==
    /\ RecordsReal(raw)
    /\ known \in UNION {[S -> Obj] : S \in SUBSET Ids}
    /\ \A i \in DOMAIN known : known[i].id = i
    /\ pc = "rows" => todo \subseteq DOMAIN raw
    /\ pc = "missing" => todo \subseteq DOMAIN known

(* The executor's, and the record it is at.                                *)
SyncRowInv ==
    /\ RecordsReal(xraw)
    /\ xpc \in {"rows", "adopt", "settle"} => xtodo \subseteq DOMAIN xraw
    /\ xpc \in {"adopt", "settle"} => xrow \in DOMAIN xraw
    /\ xpc = "settle" => xraw[xrow] \notin {"open", "expired"}
    /\ xpc = "missing" => xtodo \subseteq Obj
    /\ xpc \in ExecutorPC \ {"rows", "adopt", "settle", "missing"} => xtodo = {}

SyncIInv == /\ SyncTypeOK /\ SyncMarketInv /\ SyncEventsInv
            /\ JobsInv /\ SyncPollInv /\ SyncRowInv

-----------------------------------------------------------------------------
(* What one thread does to the trackers, and to the handlers in progress.  *)
TrackStep == /\ TrackTypeOK' /\ JobsOK'
             /\ \A o \in Obj : fills'[o] > 0 => fills[o] > 0 \/ Real(o.id)

RealStays == \A i \in Ids : Real(i) => Real(i)'

LEMMA JobsStay ==
    ASSUME SyncTypeOK, JobsInv, RealStays, job' = job PROVE JobsOK'
<1>1. job \in [Handlers -> Job \cup {NoJob}]
  BY DEF SyncTypeOK
<1>2. \A t \in Handlers : JobReal(job[t])'
  <2>1. ASSUME NEW t \in Handlers PROVE JobReal(job[t])'
    <3>1. job[t].at # "none" => job[t].order.id \in Ids
      BY <1>1 DEF Job, NoJob, Obj
    <3> QED  BY <3>1 DEF JobsInv, JobReal, RealStays
  <2> QED  BY <2>1
<1> QED  BY <1>1, <1>2 DEF JobsOK, JobsInv

(* One thread's handler changes, the other's does not.                     *)
LEMMA JobTurns ==
    ASSUME SyncTypeOK, JobsInv, RealStays, NEW t \in Handlers,
           NEW j \in Job \cup {NoJob}, JobReal(j), job' = [job EXCEPT ![t] = j]
    PROVE  JobsOK'
<1>1. job \in [Handlers -> Job \cup {NoJob}]
  BY DEF SyncTypeOK
<1>2. ASSUME NEW u \in Handlers, NEW k \in Job \cup {NoJob}, JobReal(k), job'[u] = k
      PROVE  JobReal(job[u])'
  <2>1. k.at # "none" => k.order.id \in Ids
    BY DEF Job, NoJob, Obj
  <2> QED  BY <1>2, <2>1 DEF JobReal, RealStays
<1>3. \A u \in Handlers : job'[u] = (IF u = t THEN j ELSE job[u])
  BY <1>1
<1>4. \A u \in Handlers : JobReal(job[u])'
  BY <1>1, <1>2, <1>3 DEF JobsInv
<1> QED  BY <1>1, <1>4 DEF JobsOK, JobsInv

LEMMA NothingReal == UNCHANGED market => RealStays
BY DEF RealStays, Real

LEMMA SyncSame ==
    ASSUME SyncTypeOK, JobsInv, RealStays, UNCHANGED <<trackVars, job>>
    PROVE  TrackStep
<1>1. TrackTypeOK' /\ fills' = fills
  BY DEF SyncTypeOK, TrackTypeOK, trackVars, trackers
<1> QED  BY <1>1, JobsStay DEF TrackStep

(* A thread enters a handler, or the end of the poll's comparison.         *)
LEMMA SyncBeginsAt ==
    ASSUME SyncTypeOK, JobsInv, UNCHANGED <<trackVars, market>>, NEW t \in Handlers,
           NEW kind \in {"new", "fill", "canceled", "error"}, NEW o \in Obj,
           NEW place \in {"test", "leave", "rewrite"}, BeginAt(t, kind, o, place),
           kind = "fill" => Real(o.id) \/ place = "rewrite"
    PROVE  TrackStep
<1> DEFINE j == [kind |-> kind, order |-> o, at |-> place]
<1>1. j \in Job /\ JobReal(j) /\ job' = [job EXCEPT ![t] = j]
  BY DEF Job, JobReal, BeginAt
<1> HIDE DEF j
<1>2. JobsOK'
  BY <1>1, JobTurns, NothingReal
<1>3. TrackTypeOK' /\ fills' = fills
  BY DEF SyncTypeOK, TrackTypeOK, trackVars, trackers
<1> QED  BY <1>2, <1>3 DEF TrackStep

LEMMA SyncBegins ==
    ASSUME SyncTypeOK, JobsInv, UNCHANGED <<trackVars, market>>, NEW t \in Handlers,
           NEW kind \in {"new", "fill", "canceled", "error"}, NEW o \in Obj,
           Begin(t, kind, o), kind = "fill" => Real(o.id)
    PROVE  TrackStep
BY SyncBeginsAt DEF Begin

LEMMA SyncSetsError ==
    ASSUME SyncTypeOK, JobsInv, UNCHANGED market, NEW o \in Obj, SetError(o), job' = job
    PROVE  TrackStep
<1>1. TrackTypeOK' /\ fills' = fills
  BY DEF SetError, SyncTypeOK, TrackTypeOK, trackers, OrderStatus
<1> QED  BY <1>1, JobsStay, NothingReal DEF TrackStep

LEMMA WithoutTyped ==
    ASSUME NEW s \in Seq(Obj), NEW i PROVE Without(s, i) \in Seq(Obj)
BY WithoutElements

(* _clean_order_trackers only takes out.                                   *)
LEMMA SyncCleans ==
    ASSUME SyncTypeOK, JobsInv, UNCHANGED <<market, job>>, NEW i, CleanOrderTrackers(i)
    PROVE  TrackStep
<1>1. newOrders \in Seq(Obj) /\ unprocessedOrders \in Seq(Obj)
  BY DEF SyncTypeOK, TrackTypeOK
<1>2. /\ newOrders' \in {newOrders, Without(newOrders, i)}
      /\ unprocessedOrders' \in {unprocessedOrders, Without(unprocessedOrders, i)}
      /\ UNCHANGED <<filledOrders, errorOrders, canceledOrders, status,
                     registered, closed, fills>>
  BY DEF CleanOrderTrackers
<1>3. newOrders' \in Seq(Obj) /\ unprocessedOrders' \in Seq(Obj)
  BY <1>1, <1>2, WithoutTyped
<1>4. TrackTypeOK'
  BY <1>2, <1>3 DEF SyncTypeOK, TrackTypeOK
<1> QED  BY <1>2, <1>4, JobsStay, NothingReal DEF TrackStep

(* A list of events that grows by one, and one that loses its first.       *)
LEMMA EventsAppend ==
    ASSUME NEW s \in Seq(Event), NEW e \in Event
    PROVE  /\ Append(s, e) \in Seq(Event) /\ Len(Append(s, e)) = Len(s) + 1
           /\ ToSet(Append(s, e)) = ToSet(s) \cup {e}
<1>1. /\ Append(s, e) \in Seq(Event)
      /\ DOMAIN Append(s, e) = 1 .. Len(s) + 1
      /\ \A n \in 1 .. Len(s) : Append(s, e)[n] = s[n]
      /\ Append(s, e)[Len(s) + 1] = e
      /\ DOMAIN s = 1 .. Len(s) /\ Len(s) \in Nat
  OBVIOUS
<1> QED  BY <1>1 DEF ToSet

LEMMA EventsTail ==
    ASSUME NEW s \in Seq(Event), s # <<>>
    PROVE  /\ Head(s) \in Event /\ Head(s) \in ToSet(s)
           /\ Tail(s) \in Seq(Event) /\ Len(Tail(s)) = Len(s) - 1
           /\ ToSet(Tail(s)) \subseteq ToSet(s)
<1>1. /\ DOMAIN s = 1 .. Len(s) /\ Len(s) \in Nat \ {0}
      /\ 1 \in DOMAIN s /\ Head(s) = s[1] /\ s[1] \in Event
  OBVIOUS
<1>2. /\ Tail(s) \in Seq(Event) /\ Len(Tail(s)) = Len(s) - 1
      /\ DOMAIN Tail(s) = 1 .. Len(s) - 1
      /\ \A n \in 1 .. Len(s) - 1 : Tail(s)[n] = s[n + 1]
  OBVIOUS
<1>3. \A n \in DOMAIN Tail(s) : n + 1 \in DOMAIN s
  BY <1>1, <1>2
<1> QED  BY <1>1, <1>2, <1>3 DEF ToSet

LEMMA QueueAfter ==
    ASSUME queue \in Seq(Event), Len(queue) <= QueueSize,
           NEW kind \in {"new", "fill", "canceled", "error"}, NEW o \in Obj,
           Dispatch(kind, o)
    PROVE  /\ queue' \in Seq(Event) /\ Len(queue') <= QueueSize
           /\ ToSet(queue') \subseteq ToSet(queue) \cup {[kind |-> kind, order |-> o]}
<1> DEFINE e == [kind |-> kind, order |-> o]
<1>1. e \in Event
  BY DEF Event
<1>2. queue' = queue \/ (Len(queue) < QueueSize /\ queue' = Append(queue, e))
  BY DEF Dispatch
<1> HIDE DEF e
<1>3. CASE queue' = Append(queue, e) /\ Len(queue) < QueueSize
  <2>1. Len(queue) \in Nat
    OBVIOUS
  <2> QED  BY <1>1, <1>3, <2>1, EventsAppend, BoundsAssumption DEF e
<1> QED  BY <1>2, <1>3

-----------------------------------------------------------------------------
(* Steps that leave a part of the invariant as it is.                      *)

LEMMA RecordsStay ==
    ASSUME NEW r, RecordsReal(r), RealStays
    PROVE  r \in Records /\ \A i \in DOMAIN r : r[i] \in {"unpriced", "fill"} => Real(i)'
<1>1. DOMAIN r \subseteq Ids
  BY DEF RecordsReal, Records
<1> QED  BY <1>1 DEF RecordsReal, RealStays

LEMMA SyncRowsSame ==
    ASSUME SyncRowInv, RealStays, UNCHANGED <<xpc, xraw, xtodo, xrow>>
    PROVE  SyncRowInv'
<1>1. RecordsReal(xraw)'
  <2>1. xraw \in Records /\ \A i \in DOMAIN xraw : xraw[i] \in {"unpriced", "fill"} => Real(i)'
    BY RecordsStay DEF SyncRowInv
  <2> QED  BY <2>1 DEF RecordsReal
<1> QED  BY <1>1 DEF SyncRowInv

LEMMA SyncPollSame ==
    ASSUME SyncPollInv, RealStays, UNCHANGED <<raw, known>>,
           pc' = "rows" => pc = "rows" /\ todo' \subseteq todo,
           pc' = "missing" => pc = "missing" /\ todo' \subseteq todo
    PROVE  SyncPollInv'
<1>1. RecordsReal(raw)'
  <2>1. raw \in Records /\ \A i \in DOMAIN raw : raw[i] \in {"unpriced", "fill"} => Real(i)'
    BY RecordsStay DEF SyncPollInv
  <2> QED  BY <2>1 DEF RecordsReal
<1> QED  BY <1>1 DEF SyncPollInv

LEMMA EventsStay ==
    ASSUME NEW S \in SUBSET (Event \cup {NoEvent}), \A e \in S : EventReal(e), RealStays
    PROVE  \A e \in S : EventReal(e)'
<1>1. \A e \in S : e.kind = "fill" => e.order.id \in Ids
  BY DEF Event, NoEvent, Obj
<1> QED  BY <1>1 DEF EventReal, RealStays

LEMMA EventSet ==
    ASSUME SyncTypeOK
    PROVE  ToSet(queue) \cup ToSet(held) \cup {taken} \in SUBSET (Event \cup {NoEvent})
BY DEF SyncTypeOK, ToSet

LEMMA SyncEventsSame ==
    ASSUME SyncTypeOK, SyncEventsInv, RealStays,
           ToSet(queue') \cup ToSet(held') \cup {taken'}
               \subseteq ToSet(queue) \cup ToSet(held) \cup {taken} \cup {NoEvent},
           pc' \in {"append", "handle"} => taken' \in Event
    PROVE  SyncEventsInv'
<1> DEFINE S == ToSet(queue) \cup ToSet(held) \cup {taken} \cup {NoEvent}
<1>1. S \in SUBSET (Event \cup {NoEvent}) /\ \A e \in S : EventReal(e)
  BY EventSet DEF SyncEventsInv, EventReal, NoEvent
<1>2. \A e \in S : EventReal(e)'
  <2> HIDE DEF S
  <2> QED  BY <1>1, EventsStay
<1> QED  BY <1>2 DEF SyncEventsInv

LEMMA SyncFillsStep ==
    ASSUME SyncMarketInv, TrackStep, RealStays,
           \A i \in Ids : submit'[i] = "idle" => market'[i] = "none"
    PROVE  SyncMarketInv'
<1>1. \A o \in Obj : o.id \in Ids
  BY DEF Obj
<1> QED  BY <1>1 DEF SyncMarketInv, FillsAreReal, TrackStep, RealStays, Real

-----------------------------------------------------------------------------
(* The initial states of SyncBroker.                                       *)
LEMMA SyncInitial == SyncInit => SyncIInv
<1> SUFFICES ASSUME SyncInit PROVE SyncIInv
  OBVIOUS
<1>1. IInv /\ Init
  BY InitEstablishes DEF SyncInit
<1>4. SyncMarketInv
  <2>1. \A i \in Ids : submit[i] = "idle" => market[i] = "none"
    BY <1>1 DEF IInv, TrackInv, SubmitInv
  <2>2. \A o \in Obj : fills[o] = 0
    BY <1>1 DEF Init, TrackInit
  <2> QED  BY <2>1, <2>2 DEF SyncMarketInv, FillsAreReal
<1>5. \A r \in [{} -> MarketStatus \ {"none"}] : RecordsReal(r)
  BY DEF RecordsReal, Records
<1>6. SyncPollInv
  <2>1. /\ raw \in [{} -> MarketStatus \ {"none"}]
        /\ known \in UNION {[S -> Obj] : S \in SUBSET Ids}
        /\ DOMAIN known = {} /\ pc = "get"
    BY <1>1 DEF Init, IInv, TypeOK
  <2> QED  BY <1>5, <2>1 DEF SyncPollInv
<1>7. SyncRowInv
  <2>1. xraw \in [{} -> MarketStatus \ {"none"}] /\ xpc = "idle" /\ xtodo = {}
    BY DEF SyncInit
  <2> QED  BY <1>5, <2>1 DEF SyncRowInv
<1>8. SyncEventsInv
  BY <1>1 DEF SyncEventsInv, EventReal, NoEvent, SyncInit, Init, ToSet
<1>9. SyncTypeOK
  <2>1. /\ TrackTypeOK /\ market \in [Ids -> MarketStatus] /\ submit \in [Ids -> SubmitStatus]
        /\ queue \in Seq(Event) /\ Len(queue) <= QueueSize /\ pc \in StreamPC
    BY <1>1 DEF IInv, TypeOK
  <2>2. hold \in BOOLEAN
    BY Zenon DEF SyncInit
  <2>3. /\ held \in Seq(Event) /\ xlumi \in Seq(Obj)
        /\ taken = NoEvent /\ xpc \in ExecutorPC /\ xtodo = {}
    BY DEF SyncInit, ExecutorPC
  <2>4. job \in [Handlers -> Job \cup {NoJob}]
    BY DEF SyncInit
  <2> QED  BY <2>1, <2>2, <2>3, <2>4 DEF SyncTypeOK
<1>10. JobsInv
  BY DEF SyncInit, JobsInv, JobReal, NoJob
<1> QED  BY <1>4, <1>6, <1>7, <1>8, <1>9, <1>10 DEF SyncIInv

(* The brokerage and the strategy, beside their own variables.             *)
LEMMA SyncMarketMoves ==
    ASSUME SyncIInv, UNCHANGED <<trackVars, queue, pc, raw, known, todo, syncVars>>,
           market' \in [Ids -> MarketStatus], submit' \in [Ids -> SubmitStatus],
           \A i \in Ids :
               /\ Real(i) => Real(i)'
               /\ submit'[i] = "idle" => market'[i] = "none"
    PROVE  SyncIInv'
<1>1. RealStays
  BY DEF RealStays
<1>2. UNCHANGED <<hold, held, taken, job, xpc, xraw, xlumi, xtodo, xrow>>
  BY DEF syncVars
<1>3. TrackStep
  BY <1>1, <1>2, SyncSame DEF SyncIInv
<1>4. SyncTypeOK'
  BY <1>2, <1>3 DEF SyncIInv, SyncTypeOK, TrackStep, JobsOK
<1>5. SyncMarketInv'
  BY <1>1, <1>3, SyncFillsStep DEF SyncIInv
<1>6. SyncEventsInv'
  BY <1>1, <1>2, SyncEventsSame DEF SyncIInv, SyncEventsInv
<1>7. SyncPollInv'
  BY <1>1, SyncPollSame DEF SyncIInv
<1>8. SyncRowInv'
  BY <1>1, <1>2, SyncRowsSame DEF SyncIInv
<1> QED  BY <1>3, <1>4, <1>5, <1>6, <1>7, <1>8 DEF SyncIInv, TrackStep, JobsOK

LEMMA SyncMarketStep ==
    ASSUME SyncIInv, UNCHANGED syncVars, NEW i \in Ids,
           NEW from \in SUBSET {"open", "unpriced"},
           NEW to \in {"unpriced", "fill", "canceled", "error", "expired"},
           to \notin {"unpriced", "fill"} => from \subseteq {"open"},
           MarketStep(i, from, to)
    PROVE  SyncIInv'
<1>1. /\ market[i] \in from /\ market' = [market EXCEPT ![i] = to]
      /\ UNCHANGED <<trackVars, submit, queue, pc, raw, known, todo>>
  BY DEF MarketStep
<1>2. market' \in [Ids -> MarketStatus] /\ submit' \in [Ids -> SubmitStatus]
  BY <1>1 DEF SyncIInv, SyncTypeOK, MarketStatus, Finished
<1>3. \A j \in Ids : Real(j) => Real(j)'
  BY <1>1 DEF Real, SyncIInv, SyncTypeOK
<1>4. \A j \in Ids : submit[j] = "idle" => market'[j] = "none"
  BY <1>1 DEF SyncIInv, SyncTypeOK, SyncMarketInv
<1> QED  BY <1>1, <1>2, <1>3, <1>4, SyncMarketMoves

LEMMA SyncBrokerage == ASSUME SyncIInv, Brokerage, UNCHANGED syncVars PROVE SyncIInv'
<1>1. PICK i \in Ids : Execute(i) \/ EndOtherwise(i) \/ Drop(i)
  BY DEF Brokerage
<1>2. CASE Execute(i)
  BY <1>2, SyncMarketStep DEF Execute
<1>3. CASE EndOtherwise(i)
  BY <1>3, SyncMarketStep, BoundsAssumption DEF EndOtherwise
<1>4. CASE Drop(i)
  <2>1. UNCHANGED <<trackVars, market, submit, queue, pc, raw, known, todo>>
    BY <1>4 DEF Drop
  <2> QED  BY <2>1, SyncMarketMoves DEF SyncIInv, SyncTypeOK, SyncMarketInv, Real
<1> QED  BY <1>1, <1>2, <1>3, <1>4

(* An event put into the queue, or nothing, with what is left to do.       *)
LEMMA SyncQueueGrows ==
    ASSUME SyncIInv, UNCHANGED <<trackVars, market, pc, raw, known, syncVars>>,
           todo' \subseteq todo, submit' \in [Ids -> SubmitStatus],
           NEW kind \in {"new", "fill", "canceled", "error"}, NEW o \in Obj,
           queue' = queue \/ Dispatch(kind, o), kind = "fill" => Real(o.id),
           \A i \in Ids : submit'[i] = "idle" => submit[i] = "idle"
    PROVE  SyncIInv'
<1>1. RealStays
  BY DEF RealStays, Real
<1>2. UNCHANGED <<hold, held, taken, job, xpc, xraw, xlumi, xtodo, xrow>>
  BY DEF syncVars
<1>3. TrackStep
  BY <1>1, <1>2, SyncSame DEF SyncIInv
<1>4. /\ queue' \in Seq(Event) /\ Len(queue') <= QueueSize
      /\ ToSet(queue') \subseteq ToSet(queue) \cup {[kind |-> kind, order |-> o]}
  BY QueueAfter DEF SyncIInv, SyncTypeOK
<1>5. SyncTypeOK'
  BY <1>2, <1>3, <1>4 DEF SyncIInv, SyncTypeOK, TrackStep, JobsOK
<1>6. SyncMarketInv'
  BY <1>1, <1>3, SyncFillsStep DEF SyncIInv, SyncMarketInv
<1>7. SyncEventsInv'
  <2> DEFINE e == [kind |-> kind, order |-> o]
  <2>1. EventReal(e)
    BY DEF EventReal
  <2>2. \A d \in Event \cup {NoEvent} : EventReal(d)' <=> EventReal(d)
    BY DEF EventReal, Real
  <2>3. e \in Event
    BY DEF Event
  <2>4. ToSet(queue) \cup ToSet(held) \cup {taken} \in SUBSET (Event \cup {NoEvent})
    BY EventSet DEF SyncIInv
  <2> HIDE DEF e
  <2> QED  BY <1>2, <1>4, <2>1, <2>2, <2>3, <2>4 DEF SyncIInv, SyncEventsInv, e
<1>8. SyncPollInv'
  BY <1>1, SyncPollSame DEF SyncIInv
<1>9. SyncRowInv'
  BY <1>1, <1>2, SyncRowsSame DEF SyncIInv
<1> QED  BY <1>3, <1>5, <1>6, <1>7, <1>8, <1>9 DEF SyncIInv, TrackStep, JobsOK

LEMMA SyncStrategy == ASSUME SyncIInv, Strategy, UNCHANGED syncVars PROVE SyncIInv'
<1>1. PICK i \in Ids : \/ SubmitAccepted(i) \/ SubmitRefused(i) \/ SubmitTrack(i)
                       \/ SubmitDispatch(i) \/ CancelOrder(i)
  BY DEF Strategy
<1>2. submit \in [Ids -> SubmitStatus] /\ Own(i) \in Obj /\ Own(i).id = i
  BY OwnObject DEF SyncIInv, SyncTypeOK
<1>3. CASE SubmitAccepted(i)
  <2>1. /\ submit[i] = "idle" /\ submit' = [submit EXCEPT ![i] = "accepted"]
        /\ market' = [market EXCEPT ![i] = "open"]
        /\ UNCHANGED <<trackVars, queue, pc, raw, known, todo>>
    BY <1>3 DEF SubmitAccepted, SubmitGoto
  <2>2. market[i] = "none" /\ market \in [Ids -> MarketStatus]
    BY <2>1 DEF SyncIInv, SyncMarketInv, SyncTypeOK
  <2>3. market' \in [Ids -> MarketStatus] /\ submit' \in [Ids -> SubmitStatus]
    BY <1>2, <2>1, <2>2 DEF MarketStatus, SubmitStatus
  <2>4. \A j \in Ids :
            /\ Real(j) => Real(j)'
            /\ submit'[j] = "idle" => market'[j] = "none"
    BY <1>2, <2>1, <2>2 DEF SyncIInv, SyncMarketInv, Real
  <2> QED  BY <2>1, <2>3, <2>4, SyncMarketMoves
<1>4. CASE SubmitRefused(i)
  <2>1. /\ submit[i] = "idle" /\ submit' = [submit EXCEPT ![i] = "refused"]
        /\ Dispatch("error", Own(i))
        /\ UNCHANGED <<trackVars, market, pc, raw, known, todo>>
    BY <1>4 DEF SubmitRefused, SubmitGoto
  <2>2. submit' \in [Ids -> SubmitStatus]
    BY <1>2, <2>1 DEF SubmitStatus
  <2> QED  BY <1>2, <2>1, <2>2, SyncQueueGrows
<1>5. CASE SubmitDispatch(i)
  <2>1. /\ submit[i] = "tracked" /\ submit' = [submit EXCEPT ![i] = "done"]
        /\ Dispatch("new", Own(i))
        /\ UNCHANGED <<trackVars, market, pc, raw, known, todo>>
    BY <1>5 DEF SubmitDispatch, SubmitGoto
  <2>2. submit' \in [Ids -> SubmitStatus]
    BY <1>2, <2>1 DEF SubmitStatus
  <2> QED  BY <1>2, <2>1, <2>2, SyncQueueGrows
<1>6. CASE CancelOrder(i)
  BY <1>6, SyncMarketStep DEF CancelOrder
<1>7. CASE SubmitTrack(i)
  <2>1. /\ submit[i] = "accepted" /\ submit' = [submit EXCEPT ![i] = "tracked"]
        /\ TrackSubmitted(Own(i))
        /\ UNCHANGED <<market, queue, pc, raw, known, todo>>
    BY <1>7 DEF SubmitTrack, SubmitGoto
  <2>2. RealStays
    BY <2>1, NothingReal
  <2>3. submit' \in [Ids -> SubmitStatus]
    BY <1>2, <2>1 DEF SubmitStatus
  <2>4. UNCHANGED <<hold, held, taken, job, xpc, xraw, xlumi, xtodo, xrow>>
    BY DEF syncVars
  <2>5. TrackStep
    <3>1. Append(unprocessedOrders, Own(i)) \in Seq(Obj)
      BY <1>2 DEF SyncIInv, SyncTypeOK, TrackTypeOK
    <3>2. TrackTypeOK' /\ fills' = fills
      BY <1>2, <2>1, <3>1 DEF TrackSubmitted, SyncIInv, SyncTypeOK, TrackTypeOK, OrderStatus
    <3> QED  BY <2>2, <2>4, <3>2, JobsStay DEF SyncIInv, TrackStep
  <2>6. SyncMarketInv'
    <3>1. \A j \in Ids : submit'[j] = "idle" => market'[j] = "none"
      BY <1>2, <2>1 DEF SyncIInv, SyncMarketInv
    <3> QED  BY <2>2, <2>5, <3>1, SyncFillsStep DEF SyncIInv
  <2>7. SyncTypeOK'
    BY <2>1, <2>3, <2>4, <2>5 DEF SyncIInv, SyncTypeOK, TrackStep, JobsOK
  <2>8. SyncEventsInv'
    BY <2>1, <2>2, <2>4, SyncEventsSame DEF SyncIInv, SyncEventsInv
  <2>9. SyncPollInv' /\ SyncRowInv'
    BY <2>1, <2>2, <2>4, SyncPollSame, SyncRowsSame DEF SyncIInv
  <2> QED  BY <2>5, <2>6, <2>7, <2>8, <2>9 DEF SyncIInv, TrackStep, JobsOK
<1> QED  BY <1>1, <1>3, <1>4, <1>5, <1>6, <1>7

-----------------------------------------------------------------------------
(* The stream thread and its events.                                       *)
LEMMA SyncTakes == ASSUME SyncIInv, TakeEvent PROVE SyncIInv'
<1>1. /\ queue # <<>> /\ taken' = Head(queue) /\ queue' = Tail(queue)
      /\ pc' \in {"append", "handle"}
      /\ UNCHANGED <<trackVars, market, submit, raw, known, todo>>
      /\ UNCHANGED <<hold, held, job, xpc, xraw, xlumi, xtodo, xrow>>
  BY DEF TakeEvent
<1>2. queue \in Seq(Event) /\ Len(queue) <= QueueSize
  BY DEF SyncIInv, SyncTypeOK
<1>3. /\ taken' \in Event /\ taken' \in ToSet(queue) /\ queue' \in Seq(Event)
      /\ Len(queue') <= QueueSize /\ ToSet(queue') \subseteq ToSet(queue)
  <2>1. Len(queue) \in Nat
    BY <1>2
  <2> QED  BY <1>1, <1>2, <2>1, EventsTail, BoundsAssumption
<1>4. TrackStep /\ RealStays
  BY <1>1, SyncSame, NothingReal DEF SyncIInv
<1>5. SyncTypeOK'
  BY <1>1, <1>3, <1>4 DEF SyncIInv, SyncTypeOK, TrackStep, JobsOK
<1>6. SyncMarketInv'
  BY <1>1, <1>4, SyncFillsStep DEF SyncIInv, SyncMarketInv
<1>7. SyncEventsInv'
  BY <1>1, <1>3, <1>4, SyncEventsSame DEF SyncIInv
<1>8. SyncPollInv' /\ SyncRowInv'
  BY <1>1, <1>4, SyncPollSame, SyncRowsSame DEF SyncIInv
<1> QED  BY <1>4, <1>5, <1>6, <1>7, <1>8 DEF SyncIInv, TrackStep, JobsOK

LEMMA SyncHolds == ASSUME SyncIInv, HoldEvent PROVE SyncIInv'
<1>1. /\ pc = "append" /\ pc' = "get" /\ held' = Append(held, taken) /\ taken' = NoEvent
      /\ UNCHANGED <<market, submit, queue, raw, known, todo>>
      /\ UNCHANGED <<hold, job, xpc, xraw, xlumi, xtodo, xrow>>
      /\ SetError(taken.order) \/ UNCHANGED trackVars
  BY DEF HoldEvent
<1>2. taken \in Event /\ taken.order \in Obj /\ held \in Seq(Event)
  BY <1>1 DEF SyncIInv, SyncEventsInv, SyncTypeOK, Event
<1>3. held' \in Seq(Event) /\ ToSet(held') = ToSet(held) \cup {taken}
  BY <1>1, <1>2, EventsAppend
<1>4. TrackStep /\ RealStays
  BY <1>1, <1>2, SyncSame, SyncSetsError, NothingReal DEF SyncIInv
<1>5. SyncTypeOK'
  BY <1>1, <1>3, <1>4 DEF SyncIInv, SyncTypeOK, TrackStep, JobsOK, StreamPC
<1>6. SyncMarketInv'
  BY <1>1, <1>4, SyncFillsStep DEF SyncIInv, SyncMarketInv
<1>7. SyncEventsInv'
  BY <1>1, <1>3, <1>4, SyncEventsSame DEF SyncIInv
<1>8. SyncPollInv' /\ SyncRowInv'
  BY <1>1, <1>4, SyncPollSame, SyncRowsSame DEF SyncIInv
<1> QED  BY <1>4, <1>5, <1>6, <1>7, <1>8 DEF SyncIInv, TrackStep, JobsOK

LEMMA SyncHandlesTaken == ASSUME SyncIInv, HandleTaken PROVE SyncIInv'
<1>1. /\ pc = "handle" /\ pc' = "get" /\ taken' = NoEvent
      /\ BeginHandling("stream", taken)
      /\ UNCHANGED <<market, submit, queue, raw, known, todo>>
      /\ UNCHANGED <<hold, held, xpc, xraw, xlumi, xtodo, xrow>>
  BY DEF HandleTaken
<1>2. taken \in Event /\ EventReal(taken)
  BY <1>1 DEF SyncIInv, SyncEventsInv
<1>3. TrackStep /\ RealStays
  <2>1. /\ "stream" \in Handlers /\ taken.order \in Obj
        /\ taken.kind \in {"new", "fill", "canceled", "error"}
    BY <1>2 DEF Handlers, Event
  <2>2. CASE Begin("stream", taken.kind, taken.order) /\ UNCHANGED trackVars
    <3>1. taken.kind = "fill" => Real(taken.order.id)
      BY <1>2 DEF EventReal
    <3> QED  BY <1>1, <2>1, <2>2, <3>1, SyncBegins, NothingReal DEF SyncIInv
  <2>3. CASE SetError(taken.order) /\ UNCHANGED job
    BY <1>1, <2>1, <2>3, SyncSetsError, NothingReal DEF SyncIInv
  <2> QED  BY <1>1, <2>2, <2>3 DEF BeginHandling
<1>4. SyncTypeOK'
  BY <1>1, <1>3 DEF SyncIInv, SyncTypeOK, TrackStep, JobsOK, StreamPC
<1>5. SyncMarketInv'
  BY <1>1, <1>3, SyncFillsStep DEF SyncIInv, SyncMarketInv
<1>6. SyncEventsInv'
  BY <1>1, <1>3, SyncEventsSame DEF SyncIInv
<1>7. SyncPollInv' /\ SyncRowInv'
  BY <1>1, <1>3, SyncPollSame, SyncRowsSame DEF SyncIInv
<1> QED  BY <1>3, <1>4, <1>5, <1>6, <1>7 DEF SyncIInv, TrackStep, JobsOK

-----------------------------------------------------------------------------
(* The stream thread's poll.                                               *)
LEMMA SyncListing == ASSUME SyncTypeOK PROVE RecordsReal(Listing) /\ RecordsReal(<<>>)
<1> DEFINE S == {j \in Ids : market[j] # "none"} \ dropped
<1>1. \A j \in S : market[j] \in MarketStatus \ {"none"}
  BY DEF SyncTypeOK
<1>2. Listing = [i \in S |-> market[i]] /\ S \in SUBSET Ids
  BY DEF Listing
<1> HIDE DEF S
<1>3. Listing \in [S -> MarketStatus \ {"none"}]
  BY <1>1, <1>2
<1>4. Listing \in Records
  BY <1>2, <1>3 DEF Records
<1>5. \A i \in DOMAIN Listing : Listing[i] = market[i]
  BY <1>2
<1>6. <<>> \in [{} -> MarketStatus \ {"none"}] /\ DOMAIN <<>> = {}
  OBVIOUS
<1>7. <<>> \in Records
  BY <1>6 DEF Records
<1> QED  BY <1>4, <1>5, <1>6, <1>7 DEF RecordsReal, Real

LEMMA SyncSnapshots ==
    ASSUME TrackTypeOK, NEW f \in Snapshots
    PROVE  /\ f \in UNION {[S -> Obj] : S \in SUBSET Ids} /\ DOMAIN f = TrackedIds
           /\ \A i \in DOMAIN f : f[i].id = i
<1>1. /\ f \in [TrackedIds -> Obj]
      /\ \A i \in TrackedIds : IsLatest(f[i], i)
  BY DEF Snapshots
<1>2. Outstanding \subseteq Obj /\ Settled \subseteq Obj
  <2>1. \A l \in {unprocessedOrders, newOrders, filledOrders, errorOrders,
                  canceledOrders} : ToSet(l) \subseteq Obj
    BY ListTypes DEF ToSet
  <2> QED  BY <2>1 DEF Outstanding, Settled
<1>3. TrackedIds \subseteq Ids
  BY <1>2, TrackedShape DEF TrackShape, Obj
<1> QED  BY <1>1, <1>3 DEF IsLatest

(* A step of the poll that only reads.                                     *)
LEMMA SyncPollReads ==
    ASSUME SyncIInv, UNCHANGED <<trackVars, market, submit, queue, syncVars>>,
           pc' \in StreamPC, SyncPollInv'
    PROVE  SyncIInv'
<1>1. UNCHANGED <<hold, held, taken, job, xpc, xraw, xlumi, xtodo, xrow>>
  BY DEF syncVars
<1>2. TrackStep /\ RealStays
  BY <1>1, SyncSame, NothingReal DEF SyncIInv
<1>3. SyncTypeOK'
  BY <1>1, <1>2 DEF SyncIInv, SyncTypeOK, TrackStep, JobsOK
<1>4. SyncMarketInv'
  BY <1>2, SyncFillsStep DEF SyncIInv, SyncMarketInv
<1>5. SyncEventsInv'
  BY <1>1, <1>2, SyncEventsSame DEF SyncIInv, StreamPC
<1>6. SyncRowInv'
  BY <1>1, <1>2, SyncRowsSame DEF SyncIInv
<1> QED  BY <1>2, <1>3, <1>4, <1>5, <1>6 DEF SyncIInv, TrackStep, JobsOK

LEMMA SyncFetches ==
    ASSUME SyncIInv, FetchOrders \/ FetchFails, UNCHANGED syncVars PROVE SyncIInv'
<1>1. /\ pc' = "store" /\ raw' \in {Listing, <<>>}
      /\ UNCHANGED <<trackVars, market, submit, queue, known>>
  BY DEF FetchOrders, FetchFails, PollGoto
<1>2. RecordsReal(raw)'
  <2>1. RecordsReal(Listing) /\ RecordsReal(<<>>)
    BY SyncListing DEF SyncIInv
  <2> QED  BY <1>1, <2>1 DEF RecordsReal, Real
<1>3. SyncPollInv'
  BY <1>1, <1>2 DEF SyncIInv, SyncPollInv
<1> QED  BY <1>1, <1>3, SyncPollReads DEF StreamPC

LEMMA SyncReadsBack ==
    ASSUME SyncIInv, StoreOrders \/ SnapshotTracked \/ PollDone, UNCHANGED syncVars
    PROVE  SyncIInv'
<1>1. /\ pc' \in StreamPC /\ UNCHANGED <<trackVars, market, submit, queue>>
  BY DEF StoreOrders, SnapshotTracked, PollDone, PollGoto, StreamPC
<1>2. RecordsReal(raw) /\ RecordsReal(<<>>)
  BY SyncListing DEF SyncIInv, SyncPollInv
<1>3. RecordsReal(raw)'
  <2>1. raw' \in {raw, <<>>}
    BY DEF StoreOrders, SnapshotTracked, PollDone
  <2> QED  BY <1>1, <1>2, <2>1 DEF RecordsReal, Real
<1>4. CASE StoreOrders \/ SnapshotTracked
  <2>1. /\ known' \in Snapshots
        /\ pc' = "rows" => todo' = DOMAIN raw /\ raw' = raw
        /\ pc' = "missing" => todo' \subseteq TrackedIds
        /\ pc' \in {"rows", "missing"}
    BY <1>4 DEF StoreOrders, SnapshotTracked, PollGoto
  <2>2. /\ known' \in UNION {[S -> Obj] : S \in SUBSET Ids} /\ DOMAIN known' = TrackedIds
        /\ \A i \in DOMAIN known' : known'[i].id = i
    BY <2>1, SyncSnapshots DEF SyncIInv, SyncTypeOK
  <2>3. SyncPollInv'
    BY <1>3, <2>1, <2>2 DEF SyncPollInv
  <2> QED  BY <1>1, <2>3, SyncPollReads
<1>5. CASE PollDone
  <2>1. pc' = "get" /\ known' = <<>>
    BY <1>5 DEF PollDone, PollGoto
  <2>2. known' \in [{} -> Obj] /\ DOMAIN known' = {}
    BY <2>1
  <2>3. SyncPollInv'
    BY <1>3, <2>1, <2>2 DEF SyncPollInv
  <2> QED  BY <1>1, <2>3, SyncPollReads
<1> QED  BY <1>4, <1>5

(* A record is compared: an event, a status to be written, or a new order. *)
LEMMA SyncRowCompared == ASSUME SyncIInv, SyncPollRow PROVE SyncIInv'
<1>1. /\ pc = "rows" /\ UNCHANGED <<market, dropped, submit, pc, raw, known>>
      /\ UNCHANGED <<hold, held, taken, xpc, xraw, xlumi, xtodo, xrow>>
  BY DEF SyncPollRow
<1>2. PICK i \in todo : (AdoptRow(i) \/ CompareRow(i)) /\ todo' = todo \ {i}
  BY DEF SyncPollRow
<1>3. /\ i \in DOMAIN raw /\ i \in Ids /\ RecordsReal(raw)
      /\ raw[i] \in MarketStatus \ {"none"}
  BY <1>1 DEF SyncIInv, SyncPollInv, RecordsReal, Records
<1>4. CASE CompareRow(i) /\ KnownRow(i) /\ UNCHANGED job
  <2> DEFINE kind == IF raw[i] = "open" THEN "new" ELSE raw[i]
  <2>1. /\ i \in DOMAIN known /\ known[i] \in Obj /\ known[i].id = i
        /\ UNCHANGED trackVars /\ UNCHANGED syncVars
    BY <1>1, <1>4 DEF KnownRow, SyncIInv, SyncPollInv, syncVars
  <2>2. CASE raw[i] \in {status[known[i]], "expired", "unpriced"}
    <3>1. queue' = queue
      BY <1>4, <2>2 DEF KnownRow
    <3> QED  BY <1>1, <1>2, <2>1, <3>1, SyncQueueGrows DEF SyncIInv, SyncTypeOK
  <2>3. CASE raw[i] \notin {status[known[i]], "expired", "unpriced"}
    <3>1. Dispatch(kind, known[i])
      BY <1>4, <2>3 DEF KnownRow
    <3>2. kind \in {"new", "fill", "canceled", "error"}
      BY <1>3, <2>3 DEF MarketStatus, Finished
    <3>3. kind = "fill" => Real(known[i].id)
      BY <1>3, <2>1 DEF RecordsReal
    <3> HIDE DEF kind
    <3> QED  BY <1>1, <1>2, <2>1, <3>1, <3>2, <3>3, SyncQueueGrows DEF SyncIInv, SyncTypeOK
  <2> QED  BY <2>2, <2>3
<1>5. ASSUME queue' = queue, TrackStep PROVE SyncIInv'
  <2>1. RealStays
    BY <1>1, NothingReal
  <2>2. SyncTypeOK'
    BY <1>1, <1>5 DEF SyncIInv, SyncTypeOK, TrackStep, JobsOK
  <2>3. SyncMarketInv'
    BY <1>1, <1>5, <2>1, SyncFillsStep DEF SyncIInv, SyncMarketInv
  <2>4. SyncEventsInv'
    BY <1>1, <1>5, <2>1, SyncEventsSame DEF SyncIInv
  <2>5. SyncPollInv' /\ SyncRowInv'
    BY <1>1, <1>2, <2>1, SyncPollSame, SyncRowsSame DEF SyncIInv
  <2> QED  BY <1>5, <2>2, <2>3, <2>4, <2>5 DEF SyncIInv, TrackStep, JobsOK
<1>6. CASE /\ i \in DOMAIN known /\ StatusOf(Written(raw[i])) = status[known[i]]
           /\ BeginAt("stream", Written(raw[i]), known[i], "rewrite")
           /\ UNCHANGED <<trackVars, queue>>
  <2>1. known[i] \in Obj /\ "stream" \in Handlers
    BY <1>6 DEF SyncIInv, SyncPollInv, Handlers
  <2>2. Written(raw[i]) \in {"new", "fill", "canceled", "error"}
    <3>1. status[known[i]] # "expired"
      BY <2>1 DEF SyncIInv, SyncTypeOK, TrackTypeOK, OrderStatus
    <3> QED  BY <1>3, <1>6, <3>1 DEF Written, StatusOf, MarketStatus, Finished
  <2>3. TrackStep
    BY <1>1, <1>6, <2>1, <2>2, SyncBeginsAt DEF SyncIInv
  <2> QED  BY <1>5, <1>6, <2>3
<1>7. CASE AdoptRow(i)
  <2>1. /\ UNCHANGED <<trackVars, queue>>
        /\ UNCHANGED job \/ Begin("stream", "new", Parsed(i))
    BY <1>7 DEF AdoptRow
  <2>2. Parsed(i) \in Obj /\ "stream" \in Handlers
    BY <1>3 DEF Parsed, Obj, Origins, Handlers
  <2>3. CASE UNCHANGED job
    BY <1>1, <1>5, <2>1, <2>3, SyncSame, NothingReal DEF SyncIInv
  <2>4. CASE Begin("stream", "new", Parsed(i))
    BY <1>1, <1>5, <2>1, <2>2, <2>4, SyncBegins DEF SyncIInv
  <2> QED  BY <2>1, <2>3, <2>4
<1> QED  BY <1>2, <1>4, <1>6, <1>7 DEF CompareRow

LEMMA SyncPollMissing == ASSUME SyncIInv, PollMissing, UNCHANGED syncVars PROVE SyncIInv'
<1>1. /\ pc = "missing"
      /\ UNCHANGED <<trackVars, market, dropped, submit, pc, raw, known>>
  BY DEF PollMissing
<1>2. PICK i \in todo : /\ queue' = queue \/ Dispatch("canceled", known[i])
                        /\ todo' = todo \ {i}
  BY DEF PollMissing
<1>3. known[i] \in Obj
  BY <1>1 DEF SyncIInv, SyncPollInv
<1> QED  BY <1>1, <1>2, <1>3, SyncQueueGrows DEF SyncIInv, SyncTypeOK

(* A step of a handler, whichever thread runs it.                          *)
LEMMA HandlerTracks == ASSUME SyncIInv, NEW t \in Handlers, JobStep(t) PROVE TrackStep
<1>1. UNCHANGED market
  BY DEF JobStep, pollVars
<1> DEFINE j == job[t]
<1>2. /\ job \in [Handlers -> Job \cup {NoJob}] /\ j \in Job \cup {NoJob} /\ JobReal(j)
      /\ j.at # "none" => j \in Job
  BY DEF SyncIInv, SyncTypeOK, JobsInv, NoJob
<1>3. RealStays /\ TrackTypeOK /\ SyncTypeOK /\ JobsInv
  BY <1>1, NothingReal DEF SyncIInv, SyncTypeOK
<1>4. NoJob \in Job \cup {NoJob} /\ JobReal(NoJob)
  BY DEF JobReal, NoJob
<1>5. CASE TestNew(t)
  <2>1. j \in Job /\ UNCHANGED trackVars
    BY <1>2, <1>5 DEF TestNew
  <2> DEFINE o == IF HasId(unprocessedOrders, j.order.id)
                    THEN FirstWith(unprocessedOrders, j.order.id) ELSE j.order
             k == [j EXCEPT !.at = "leave", !.order = o]
  <2>2. o \in Obj /\ o.id = j.order.id
    <3>1. unprocessedOrders \in Seq(Obj) /\ j.order \in Obj
      BY <1>3, <2>1 DEF TrackTypeOK, Job
    <3>2. CASE HasId(unprocessedOrders, j.order.id)
      <4>1. /\ SelectInSeq(unprocessedOrders, LAMBDA p : p.id = j.order.id)
                    \in DOMAIN unprocessedOrders
            /\ FirstWith(unprocessedOrders, j.order.id).id = j.order.id
        BY <3>1, <3>2, FirstPosition DEF FirstWith
      <4> QED  BY <3>1, <3>2, <4>1 DEF FirstWith
    <3> QED  BY <3>1, <3>2
  <2>3. job' = [job EXCEPT ![t] = NoJob] \/ job' = [job EXCEPT ![t] = k]
    BY <1>2, <1>5 DEF TestNew
  <2>4. k \in Job /\ JobReal(k)
    <3>1. j.at = "test" /\ JobReal(j)
      BY <1>2, <1>5 DEF TestNew
    <3> HIDE DEF o
    <3> QED  BY <2>1, <2>2, <3>1 DEF Job, JobReal
  <2> HIDE DEF k
  <2>5. JobsOK'
    BY <1>3, <1>4, <2>3, <2>4, JobTurns
  <2>6. TrackTypeOK' /\ fills' = fills
    BY <1>3, <2>1 DEF TrackTypeOK, trackVars, trackers
  <2> QED  BY <2>5, <2>6 DEF TrackStep
<1>6. ASSUME NEW from \in {"leave", "mark"}, NEW to \in {"mark", "list"}, Turn(t, from, to)
      PROVE  JobsOK' /\ j \in Job /\ (j.kind = "fill" => Real(j.order.id))
  <2>1. j.at = from /\ j \in Job
    BY <1>2, <1>6 DEF Turn
  <2> DEFINE k == [j EXCEPT !.at = to]
  <2>2. k \in Job /\ JobReal(k) /\ job' = [job EXCEPT ![t] = k]
    BY <1>2, <1>6, <2>1 DEF Job, JobReal, Turn
  <2> HIDE DEF k
  <2> QED  BY <1>2, <1>3, <2>1, <2>2, JobTurns DEF JobReal
<1>7. ASSUME NEW from \in {"list", "rewrite"}, Finish(t, from)
      PROVE  JobsOK' /\ j \in Job
  BY <1>2, <1>3, <1>4, <1>7, JobTurns DEF Finish
<1>8. CASE Leave(t)
  <2>1. JobsOK' /\ j \in Job
    BY <1>6, <1>8 DEF Leave
  <2>2. /\ unprocessedOrders' = Without(unprocessedOrders, j.order.id)
        /\ newOrders' \in {newOrders, Without(newOrders, j.order.id)}
        /\ filledOrders' \in {filledOrders, Without(filledOrders, j.order.id)}
        /\ UNCHANGED <<errorOrders, canceledOrders, status, registered, closed, fills>>
    BY <1>8 DEF Leave, Removed
  <2>3. /\ unprocessedOrders' \in Seq(Obj) /\ newOrders' \in Seq(Obj)
        /\ filledOrders' \in Seq(Obj)
    BY <1>3, <2>2, WithoutTyped DEF TrackTypeOK
  <2>4. TrackTypeOK'
    BY <1>3, <2>2, <2>3 DEF TrackTypeOK
  <2> QED  BY <2>1, <2>2, <2>4 DEF TrackStep
<1>9. CASE Mark(t)
  <2>1. /\ JobsOK' /\ j \in Job /\ (j.kind = "fill" => Real(j.order.id))
        /\ UNCHANGED trackers
    BY <1>6, <1>9 DEF Mark
  <2>2. /\ status' = [status EXCEPT ![j.order] = StatusOf(j.kind)]
        /\ registered' \in {registered, registered \cup {j.order}}
        /\ closed' \in {closed, closed \cup {j.order}}
        /\ fills' = IF j.kind = "fill" THEN [fills EXCEPT ![j.order] = @ + 1] ELSE fills
    BY <1>9 DEF Mark
  <2>3. j.order \in Obj /\ StatusOf(j.kind) \in OrderStatus
    BY <2>1 DEF Job, StatusOf, OrderStatus
  <2> HIDE DEF j
  <2>4. TrackTypeOK' /\ \A o \in Obj : fills'[o] > 0 => fills[o] > 0 \/ Real(o.id)
    BY <1>3, <2>1, <2>2, <2>3 DEF TrackTypeOK, trackers
  <2> QED  BY <2>1, <2>4 DEF TrackStep
<1>10. CASE List(t)
  <2>1. JobsOK' /\ j \in Job
    BY <1>7, <1>10 DEF List
  <2>2. /\ newOrders' \in {newOrders, Append(newOrders, j.order)}
        /\ filledOrders' \in {filledOrders, Append(filledOrders, j.order)}
        /\ canceledOrders' \in {canceledOrders, Append(canceledOrders, j.order)}
        /\ errorOrders' \in {errorOrders, Append(errorOrders, j.order)}
        /\ UNCHANGED <<unprocessedOrders, status, registered, closed, fills>>
    BY <1>10 DEF List, Listed
  <2>3. j.order \in Obj
    BY <2>1 DEF Job
  <2> HIDE DEF j
  <2>4. \A l \in {newOrders, filledOrders, canceledOrders, errorOrders} :
            l \in Seq(Obj) /\ Append(l, j.order) \in Seq(Obj)
    BY <1>3, <2>3 DEF TrackTypeOK
  <2>5. TrackTypeOK'
    BY <1>3, <2>2, <2>4 DEF TrackTypeOK
  <2> QED  BY <2>1, <2>2, <2>5 DEF TrackStep
<1>11. CASE Rewrite(t)
  <2>1. JobsOK' /\ j \in Job
    BY <1>7, <1>11 DEF Rewrite
  <2>2. /\ status' = [status EXCEPT ![j.order] = StatusOf(j.kind)]
        /\ UNCHANGED <<trackers, registered, closed, fills>>
    BY <1>11 DEF Rewrite
  <2>3. j.order \in Obj /\ StatusOf(j.kind) \in OrderStatus
    BY <2>1 DEF Job, StatusOf, OrderStatus
  <2> HIDE DEF j
  <2>4. TrackTypeOK'
    BY <1>3, <2>2, <2>3 DEF TrackTypeOK, trackers
  <2> QED  BY <2>1, <2>2, <2>4 DEF TrackStep
<1> QED  BY <1>5, <1>8, <1>9, <1>10, <1>11 DEF JobStep

LEMMA SyncHandler == ASSUME SyncIInv, NEW t \in Handlers, JobStep(t) PROVE SyncIInv'
<1>1. /\ UNCHANGED <<market, submit, queue, pc, raw, known, todo>>
      /\ UNCHANGED <<hold, held, taken, xpc, xraw, xlumi, xtodo, xrow>>
  BY DEF JobStep, pollVars
<1>2. TrackStep /\ RealStays
  BY <1>1, HandlerTracks, NothingReal
<1>3. SyncTypeOK'
  BY <1>1, <1>2 DEF SyncIInv, SyncTypeOK, TrackStep, JobsOK
<1>4. SyncMarketInv'
  BY <1>1, <1>2, SyncFillsStep DEF SyncIInv, SyncMarketInv
<1>5. SyncEventsInv'
  BY <1>1, <1>2, SyncEventsSame DEF SyncIInv, SyncEventsInv
<1>6. SyncPollInv' /\ SyncRowInv'
  BY <1>1, <1>2, SyncPollSame, SyncRowsSame DEF SyncIInv
<1> QED  BY <1>2, <1>3, <1>4, <1>5, <1>6 DEF SyncIInv, TrackStep, JobsOK

LEMMA SyncStreams == ASSUME SyncIInv, SyncStream PROVE SyncIInv'
<1>1. CASE SyncPoll
  BY <1>1, SyncFetches, SyncReadsBack, SyncPollMissing DEF SyncPoll
<1>2. CASE JobStep("stream")
  BY <1>2, SyncHandler DEF Handlers
<1> QED  BY <1>1, <1>2, SyncTakes, SyncHolds, SyncHandlesTaken, SyncRowCompared DEF SyncStream

-----------------------------------------------------------------------------
(* The executor.  Every step of it leaves the brokerage, the queue and the *)
(* poll alone.                                                             *)
LEMMA ExecutorKeeps ==
    ASSUME SyncIInv, UNCHANGED <<market, submit, queue, pc, raw, known, todo, taken>>,
           TrackStep, hold' \in BOOLEAN, held' \in Seq(Event),
           \A e \in ToSet(held') : EventReal(e),
           xpc' \in ExecutorPC, xlumi' \in Seq(Obj), SyncRowInv'
    PROVE  SyncIInv'
<1>1. RealStays
  BY DEF RealStays, Real
<1>2. xtodo' \in (SUBSET Ids) \cup (SUBSET Obj)
  <2>1. DOMAIN xraw' \subseteq Ids
    <3>1. xraw' \in Records
      BY DEF SyncRowInv, RecordsReal
    <3> QED  BY <3>1 DEF Records
  <2>2. xtodo' \subseteq DOMAIN xraw' \/ xtodo' \subseteq Obj \/ xtodo' = {}
    BY DEF SyncRowInv
  <2> QED  BY <2>1, <2>2
<1>3. SyncTypeOK'
  BY <1>2 DEF SyncIInv, SyncTypeOK, TrackStep, JobsOK
<1>4. SyncMarketInv'
  BY <1>1, SyncFillsStep DEF SyncIInv, SyncMarketInv
<1>5. SyncEventsInv'
  <2>1. \A e : EventReal(e)' <=> EventReal(e)
    BY DEF EventReal, Real
  <2> QED  BY <2>1 DEF SyncIInv, SyncEventsInv
<1>6. SyncPollInv'
  BY <1>1, SyncPollSame DEF SyncIInv
<1> QED  BY <1>3, <1>4, <1>5, <1>6 DEF SyncIInv, TrackStep, JobsOK

(* Steps that touch no tracker.                                            *)
LEMMA ExecutorReads ==
    ASSUME SyncIInv, UNCHANGED <<vars, taken, job>>, hold' \in BOOLEAN, held' \in Seq(Event),
           \A e \in ToSet(held') : EventReal(e),
           xpc' \in ExecutorPC, xlumi' \in Seq(Obj), SyncRowInv'
    PROVE  SyncIInv'
<1>1. UNCHANGED <<trackVars, market, submit, queue, pc, raw, known, todo, taken>>
  BY DEF vars, pollVars
<1>2. TrackStep
  BY <1>1, SyncSame, NothingReal DEF SyncIInv
<1> QED  BY <1>1, <1>2, ExecutorKeeps

LEMMA RowsSame ==
    ASSUME SyncIInv, UNCHANGED <<market, xraw, xtodo>>,
           xpc' \in ExecutorPC \ {"rows", "adopt", "settle", "missing"},
           xpc \in ExecutorPC \ {"rows", "adopt", "settle", "missing"} \/ xtodo = {}
    PROVE  SyncRowInv'
<1>1. RecordsReal(xraw)' /\ xtodo' = {}
  BY DEF SyncIInv, SyncRowInv, RecordsReal, Real
<1> QED  BY <1>1 DEF SyncRowInv

LEMMA ExecutorBegins ==
    ASSUME SyncIInv, BeginSync \/ CheckHeld \/ HoldAgain \/ Release PROVE SyncIInv'
<1>1. /\ UNCHANGED <<vars, held, taken, job, xraw, xlumi, xtodo, xrow>>
      /\ xpc' \in ExecutorPC \ {"rows", "adopt", "settle", "missing"}
      /\ xpc \in ExecutorPC \ {"rows", "adopt", "settle", "missing"} \/ xtodo = {}
  BY DEF BeginSync, CheckHeld, HoldAgain, Release, SyncGoto, ExecutorPC
<1>2. hold' \in BOOLEAN
  BY Zenon DEF BeginSync, CheckHeld, HoldAgain, Release
<1>4. /\ held \in Seq(Event) /\ xlumi \in Seq(Obj)
      /\ \A e \in ToSet(held) : EventReal(e)
  BY DEF SyncIInv, SyncTypeOK, SyncEventsInv
<1>5. SyncRowInv'
  BY <1>1, RowsSame DEF vars, pollVars
<1> QED  BY <1>1, <1>2, <1>4, <1>5, ExecutorReads

LEMMA ExecutorPulls == ASSUME SyncIInv, PullOrders \/ GetAllOrders PROVE SyncIInv'
<1>1. /\ UNCHANGED <<vars, hold, held, taken, job, xrow>>
      /\ hold \in BOOLEAN /\ held \in Seq(Event) /\ xlumi \in Seq(Obj)
      /\ \A e \in ToSet(held) : EventReal(e)
     
  BY DEF SyncIInv, SyncTypeOK, SyncEventsInv, PullOrders, GetAllOrders
<1>2. UNCHANGED market
  BY <1>1 DEF vars, pollVars
<1>3. CASE PullOrders
  <2>1. /\ xraw' = Listing /\ xpc' \in {"missing", "lumi"}
        /\ xtodo' = xtodo /\ xtodo = {} /\ xlumi' = xlumi
    BY <1>3 DEF PullOrders, SyncGoto, SyncIInv, SyncRowInv, ExecutorPC
  <2>2. RecordsReal(xraw)'
    <3>1. RecordsReal(Listing)
      BY SyncListing DEF SyncIInv
    <3> QED  BY <1>2, <2>1, <3>1 DEF RecordsReal, Real
  <2>3. SyncRowInv' /\ xpc' \in ExecutorPC
    BY <2>1, <2>2 DEF SyncRowInv, ExecutorPC
  <2> QED  BY <1>1, <2>1, <2>3, ExecutorReads
<1>4. CASE GetAllOrders
  <2>1. /\ xpc' = "rows" /\ xraw' = xraw /\ xtodo' = DOMAIN xraw
        /\ xlumi' = TrackedOrders
    BY <1>4 DEF GetAllOrders, SyncGoto
  <2>2. xlumi' \in Seq(Obj)
    BY <2>1, ListTypes DEF TrackedOrders, SyncIInv, SyncTypeOK
  <2>3. SyncRowInv' /\ xpc' \in ExecutorPC
    BY <1>2, <2>1 DEF SyncIInv, SyncRowInv, RecordsReal, Real, ExecutorPC
  <2> QED  BY <1>1, <2>1, <2>2, <2>3, ExecutorReads
<1> QED  BY <1>3, <1>4

LEMMA ExecutorHandles == ASSUME SyncIInv, HandleHeld PROVE SyncIInv'
<1>1. /\ held # <<>> /\ xpc \in {"drain", "final"}
      /\ UNCHANGED <<vars, hold, taken, xpc, xraw, xlumi, xtodo, xrow>>
      /\ hold \in BOOLEAN /\ held \in Seq(Event) /\ xlumi \in Seq(Obj)
      /\ xpc \in ExecutorPC
  BY DEF HandleHeld, SyncIInv, SyncTypeOK
<1>2. UNCHANGED <<trackVars, market, submit, queue, pc, raw, known, todo, taken>>
  BY <1>1 DEF vars, pollVars
<1> DEFINE e == Head(held)
<1>3. /\ e \in Event /\ e \in ToSet(held) /\ EventReal(e)
      /\ Tail(held) \in Seq(Event) /\ ToSet(Tail(held)) \subseteq ToSet(held)
  BY <1>1, EventsTail DEF SyncIInv, SyncEventsInv
<1>4. \/ held' = Append(Tail(held), e) /\ UNCHANGED job
      \/ held' = Tail(held) /\ Begin("executor", e.kind, e.order)
  BY DEF HandleHeld
<1>5. TrackStep
  <2>1. /\ e.kind \in {"new", "fill", "canceled", "error"} /\ e.order \in Obj
        /\ e.kind = "fill" => Real(e.order.id)
        /\ "executor" \in Handlers
    BY <1>3 DEF Event, EventReal, Handlers
  <2> HIDE DEF e
  <2>2. CASE UNCHANGED job
    BY <1>2, <2>2, SyncSame, NothingReal DEF SyncIInv
  <2>3. CASE Begin("executor", e.kind, e.order)
    BY <1>2, <2>1, <2>3, SyncBegins DEF SyncIInv
  <2> QED  BY <1>4, <2>2, <2>3
<1> HIDE DEF e
<1>6. held' \in Seq(Event) /\ ToSet(held') \subseteq ToSet(held)
  BY <1>3, <1>4, EventsAppend
<1>7. \A d \in ToSet(held') : EventReal(d)
  BY <1>6 DEF SyncIInv, SyncEventsInv
<1>8. SyncRowInv'
  BY <1>1, <1>2, RowsSame DEF ExecutorPC
<1> QED  BY <1>1, <1>2, <1>5, <1>6, <1>7, <1>8, ExecutorKeeps

LEMMA ExecutorRows == ASSUME SyncIInv, SyncRow PROVE SyncIInv'
<1>1. /\ xpc = "rows" /\ xpc' \in {"rows", "adopt"}
      /\ UNCHANGED <<pollVars, hold, held, taken, job, xraw, xlumi>>
      /\ hold \in BOOLEAN /\ held \in Seq(Event) /\ xlumi \in Seq(Obj)
      /\ \A e \in ToSet(held) : EventReal(e)
     
  BY DEF SyncRow, SyncIInv, SyncTypeOK, SyncEventsInv
<1>2. UNCHANGED <<market, submit, queue, pc, raw, known, todo, taken>>
  BY <1>1 DEF pollVars
<1>3. PICK i \in xtodo :
          /\ xtodo' = xtodo \ {i}
          /\ xpc' = "adopt" => xrow' = i
          /\ UNCHANGED trackVars \/ CleanOrderTrackers(i)
  BY <1>1 DEF SyncRow
<1>4. TrackStep
  BY <1>1, <1>2, <1>3, SyncSame, SyncCleans, NothingReal DEF SyncIInv
<1>5. SyncRowInv' /\ xpc' \in ExecutorPC
  BY <1>1, <1>2, <1>3 DEF SyncIInv, SyncRowInv, RecordsReal, Real, ExecutorPC
<1> QED  BY <1>1, <1>2, <1>4, <1>5, ExecutorKeeps

LEMMA ExecutorAdopts == ASSUME SyncIInv, AdoptOrder \/ SettleOrder PROVE SyncIInv'
<1>1. /\ xpc \in {"adopt", "settle"}
      /\ UNCHANGED <<vars, hold, held, taken, xraw, xlumi, xtodo, xrow>>
      /\ hold \in BOOLEAN /\ held \in Seq(Event) /\ xlumi \in Seq(Obj)
      /\ \A e \in ToSet(held) : EventReal(e)
     
  BY DEF AdoptOrder, SettleOrder, SyncGoto, SyncIInv, SyncTypeOK, SyncEventsInv
<1>2. UNCHANGED <<trackVars, market, submit, queue, pc, raw, known, todo, taken>>
  BY <1>1 DEF vars, pollVars
<1>3. /\ xrow \in DOMAIN xraw /\ xraw \in Records /\ xrow \in Ids
      /\ xraw[xrow] \in MarketStatus \ {"none"}
      /\ xraw[xrow] \in {"unpriced", "fill"} => Real(xrow)
      /\ xtodo \subseteq DOMAIN xraw
  BY <1>1 DEF SyncIInv, SyncRowInv, RecordsReal, Records
<1>4. Synced(xrow) \in Obj /\ Synced(xrow).id = xrow
  BY <1>3 DEF Synced, Obj, Origins
<1>5. RecordsReal(xraw)'
  BY <1>1, <1>2 DEF SyncIInv, SyncRowInv, RecordsReal, Real
<1>6. CASE AdoptOrder
  <2>1. /\ UNCHANGED job \/ Begin("executor", "new", Synced(xrow))
        /\ xpc' \in {"settle", "rows"}
        /\ xpc' = "settle" => xraw[xrow] \notin {"open", "expired"}
    BY <1>6 DEF AdoptOrder, Replayed, SyncGoto
  <2>2. TrackStep
    <3>1. CASE UNCHANGED job
      BY <1>2, <3>1, SyncSame, NothingReal DEF SyncIInv
    <3>2. CASE Begin("executor", "new", Synced(xrow))
      <4>1. "executor" \in Handlers
        BY DEF Handlers
      <4> QED  BY <1>2, <1>4, <3>2, <4>1, SyncBegins DEF SyncIInv
    <3> QED  BY <2>1, <3>1, <3>2
  <2>3. SyncRowInv' /\ xpc' \in ExecutorPC
    BY <1>1, <1>3, <1>5, <2>1 DEF SyncRowInv, ExecutorPC
  <2> QED  BY <1>1, <1>2, <2>2, <2>3, ExecutorKeeps
<1>7. CASE SettleOrder
  <2>1. /\ xpc = "settle" /\ xpc' = "rows" /\ "executor" \in Handlers
        /\ Begin("executor", Written(xraw[xrow]), Synced(xrow))
    BY <1>7 DEF SettleOrder, SyncGoto, Handlers
  <2>2. xraw[xrow] \in {"fill", "unpriced", "canceled", "error"}
    BY <1>3, <2>1 DEF SyncIInv, SyncRowInv, MarketStatus, Finished
  <2>3. /\ Written(xraw[xrow]) \in {"fill", "canceled", "error"}
        /\ Written(xraw[xrow]) = "fill" => Real(xrow)
    BY <1>3, <2>2 DEF Written
  <2>4. TrackStep
    BY <1>2, <1>4, <2>1, <2>3, SyncBegins DEF SyncIInv
  <2>5. SyncRowInv' /\ xpc' \in ExecutorPC
    BY <1>1, <1>3, <1>5, <2>1 DEF SyncRowInv, ExecutorPC
  <2> QED  BY <1>1, <1>2, <2>4, <2>5, ExecutorKeeps
<1> QED  BY <1>6, <1>7

LEMMA ExecutorCancels == ASSUME SyncIInv, BeginMissing \/ CancelMissing PROVE SyncIInv'
<1>1. /\ UNCHANGED <<vars, hold, taken, job>> /\ xpc' = "missing"
      /\ hold \in BOOLEAN /\ held \in Seq(Event)
      /\ xlumi \in Seq(Obj) /\ xlumi' \in Seq(Obj)
      /\ \A e \in ToSet(held) : EventReal(e)
  <2>1. /\ UNCHANGED <<vars, hold, taken, job>> /\ xpc' = "missing"
        /\ xlumi' \in {xlumi, <<>>}
    BY DEF BeginMissing, CancelMissing, SyncGoto
  <2>2. /\ hold \in BOOLEAN /\ held \in Seq(Event) /\ xlumi \in Seq(Obj)
        /\ \A e \in ToSet(held) : EventReal(e)
    BY DEF SyncIInv, SyncTypeOK, SyncEventsInv
  <2>3. xlumi' \in Seq(Obj)
    <3>1. <<>> \in Seq(Obj)
      OBVIOUS
    <3>2. xlumi' = xlumi \/ xlumi' = <<>>
      BY <2>1
    <3> QED  BY <2>2, <3>1, <3>2
  <2> QED  BY <2>1, <2>2, <2>3
<1>2. UNCHANGED market
  BY <1>1 DEF vars, pollVars
<1>3. xtodo' \subseteq Obj
  <2>1. CASE BeginMissing
    BY <1>1, <2>1 DEF BeginMissing, ToSet
  <2>2. CASE CancelMissing
    BY <2>2 DEF CancelMissing, SyncIInv, SyncRowInv
  <2> QED  BY <2>1, <2>2
<1>4. held' \in Seq(Event) /\ \A e \in ToSet(held') : EventReal(e)
  <2>1. held' = held \/ \E o \in Obj : held' = Append(held, [kind |-> "canceled", order |-> o])
    BY DEF BeginMissing, CancelMissing, SyncIInv, SyncRowInv
  <2>2. CASE held' = held
    BY <1>1, <2>2
  <2>3. ASSUME NEW o \in Obj, held' = Append(held, [kind |-> "canceled", order |-> o])
        PROVE  held' \in Seq(Event) /\ \A e \in ToSet(held') : EventReal(e)
    <3>1. /\ [kind |-> "canceled", order |-> o] \in Event
          /\ EventReal([kind |-> "canceled", order |-> o])
      BY DEF Event, EventReal
    <3> QED  BY <1>1, <2>3, <3>1, EventsAppend
  <2> QED  BY <2>1, <2>2, <2>3
<1>5. SyncRowInv' /\ xpc' \in ExecutorPC
  <2>1. RecordsReal(xraw) /\ RecordsReal(<<>>)
    BY SyncListing DEF SyncIInv, SyncRowInv
  <2>2. xraw' \in {xraw, <<>>}
    BY DEF BeginMissing, CancelMissing
  <2>3. RecordsReal(xraw)'
    BY <1>2, <2>1, <2>2 DEF RecordsReal, Real
  <2> QED  BY <1>1, <1>3, <2>3 DEF SyncRowInv, ExecutorPC
<1> QED  BY <1>1, <1>4, <1>5, ExecutorReads

LEMMA ExecutorEnds == ASSUME SyncIInv, EndSync PROVE SyncIInv'
<1>1. /\ xpc = "final" /\ xpc' = "idle"
      /\ UNCHANGED <<trackVars, market, submit, queue, pc, raw, known, todo, taken>>
      /\ UNCHANGED <<hold, held, job, xraw, xlumi, xtodo>>
  BY DEF EndSync, SyncGoto
<1>2. /\ hold \in BOOLEAN /\ held \in Seq(Event) /\ xlumi' \in Seq(Obj)
      /\ \A e \in ToSet(held) : EventReal(e)
  BY <1>1 DEF SyncIInv, SyncTypeOK, SyncEventsInv
<1>3. TrackStep
  BY <1>1, SyncSame, NothingReal DEF SyncIInv
<1>4. SyncRowInv' /\ xpc' \in ExecutorPC
  BY <1>1, RowsSame DEF ExecutorPC
<1> QED  BY <1>1, <1>2, <1>3, <1>4, ExecutorKeeps

LEMMA SyncExecutes == ASSUME SyncIInv, Executor PROVE SyncIInv'
<1>1. CASE JobStep("executor")
  BY <1>1, SyncHandler DEF Handlers
<1> QED  BY <1>1, ExecutorBegins, ExecutorPulls, ExecutorHandles, ExecutorRows,
            ExecutorAdopts, ExecutorCancels, ExecutorEnds DEF Executor

-----------------------------------------------------------------------------
LEMMA SyncNextPreserves == SyncIInv /\ [SyncNext]_allVars => SyncIInv'
<1> SUFFICES ASSUME SyncIInv, [SyncNext]_allVars PROVE SyncIInv'
  OBVIOUS
<1>1. CASE Brokerage /\ UNCHANGED syncVars
  BY <1>1, SyncBrokerage
<1>2. CASE Strategy /\ UNCHANGED syncVars
  BY <1>2, SyncStrategy
<1>3. CASE SyncStream
  BY <1>3, SyncStreams
<1>4. CASE Executor
  BY <1>4, SyncExecutes
<1>5. CASE UNCHANGED allVars
  <2>1. UNCHANGED <<trackVars, market, submit, queue, pc, raw, known, todo, syncVars>>
    BY <1>5 DEF allVars, vars, pollVars
  <2> QED  BY <2>1, SyncMarketMoves DEF SyncIInv, SyncTypeOK, SyncMarketInv, Real
<1> QED  BY <1>1, <1>2, <1>3, <1>4, <1>5 DEF SyncNext

(* The two threads keep the trackers, events and records as SyncIInv says. *)
THEOREM SyncInductive == SyncSpec => []SyncIInv
BY SyncInitial, SyncNextPreserves, PTL DEF SyncSpec

(* The variables of both threads keep their types, however they interleave *)
(* (StrategyExecutor.sync_broker beside PollingStream).                    *)
THEOREM SyncTypeCorrect == SyncSpec => []SyncTypeOK
<1>1. SyncIInv => SyncTypeOK
  BY DEF SyncIInv
<1> QED  BY <1>1, SyncInductive, PTL

(* _process_filled_order runs only for orders the brokerage executed, be   *)
(* it for an event of a poll or for a record the executor replays.         *)
THEOREM FillsAreAlwaysReal == SyncSpec => []FillsAreReal
<1>1. SyncIInv => FillsAreReal
  BY DEF SyncIInv, SyncMarketInv
<1> QED  BY <1>1, SyncInductive, PTL

-----------------------------------------------------------------------------
(***************************************************************************)
(* The event on which a thread waits for an order to be closed (LazyEvent, *)
(* which shares no variable with the rest): its safety for any number of   *)
(* setting and waiting threads.                                            *)
(***************************************************************************)
(* Only the holder of the lock is between the second read of _event and    *)
(* its publication.                                                        *)
LockHeld == \A w \in Waiters :
                at[w] \in {"reread", "allocate", "recheck", "publish"} => lock = w

(* While an event is being allocated none is published.                    *)
AllocatedOnce == \A w \in Waiters :
    /\ at[w] \in {"allocate", "recheck", "publish"} => event = None
    /\ at[w] \in {"recheck", "publish"} => local[w] = w
    /\ at[w] = "block" => local[w] = event /\ event # None

FiresRealEvent == \A s \in Setters : at[s] = "fire" => local[s] # None /\ flag

LookAfterRaise == \A s \in Setters : at[s] = "look" => flag

SignalAfterFlag == \A w \in Waiters : isSet[w] => flag

EventInv == /\ EventTypeOK
            /\ LockHeld
            /\ AllocatedOnce
            /\ FiresRealEvent
            /\ LookAfterRaise
            /\ SignalAfterFlag
            /\ ReturnsOnlyAfterSet

USE ThreadsAssumption DEF Threads, SetterPC, WaiterPC

LEMMA EventInitOK == EventInit => EventInv
BY DEF EventInit, EventInv, EventTypeOK, LockHeld, AllocatedOnce, FiresRealEvent,
       LookAfterRaise, SignalAfterFlag, ReturnsOnlyAfterSet

(* A step of a setter.                                                     *)
LEMMA SetterStep == ASSUME EventInv, NEW s \in Setters, SetStep(s) PROVE EventInv'
<1> USE DEF EventInv, EventTypeOK, LockHeld, AllocatedOnce, FiresRealEvent,
            LookAfterRaise, SignalAfterFlag, ReturnsOnlyAfterSet, Goto
<1>1. CASE RaiseFlag(s) BY <1>1 DEF RaiseFlag
<1>2. CASE LookForEvent(s) BY <1>2 DEF LookForEvent
<1>3. CASE FireEvent(s) BY <1>3 DEF FireEvent
<1>4. QED BY <1>1, <1>2, <1>3 DEF SetStep

(* A step of a waiter.                                                     *)
LEMMA WaiterStep == ASSUME EventInv, NEW w \in Waiters, WaitStep(w) PROVE EventInv'
<1> USE DEF EventInv, EventTypeOK, LockHeld, AllocatedOnce, FiresRealEvent,
            LookAfterRaise, SignalAfterFlag, ReturnsOnlyAfterSet, Goto
<1>1. CASE CheckFlag(w) BY <1>1 DEF CheckFlag
<1>2. CASE ReadEvent(w) BY <1>2 DEF ReadEvent
<1>3. CASE Acquire(w) BY <1>3 DEF Acquire
<1>4. CASE Reread(w) BY <1>4 DEF Reread
<1>5. CASE Allocate(w) BY <1>5 DEF Allocate
<1>6. CASE Recheck(w) BY <1>6 DEF Recheck
<1>7. CASE Publish(w) BY <1>7 DEF Publish
<1>8. CASE Unblock(w) BY <1>8 DEF Unblock
<1>9. QED BY <1>1, <1>2, <1>3, <1>4, <1>5, <1>6, <1>7, <1>8 DEF WaitStep

LEMMA EventInvariance == EventSpec => []EventInv
<1>1. EventInv /\ [EventNext]_eventVars => EventInv'
  <2> SUFFICES ASSUME EventInv, [EventNext]_eventVars PROVE EventInv' OBVIOUS
  <2>1. CASE UNCHANGED eventVars
    BY <2>1 DEF eventVars, EventInv, EventTypeOK, LockHeld, AllocatedOnce, FiresRealEvent,
                LookAfterRaise, SignalAfterFlag, ReturnsOnlyAfterSet
  <2>2. CASE EventNext BY <2>2, SetterStep, WaiterStep DEF EventNext
  <2>3. QED BY <2>1, <2>2
<1>2. QED BY <1>1, EventInitOK, PTL DEF EventSpec

(* Every variable keeps its type.                                          *)
THEOREM EventTypeCorrect == EventSpec => []EventTypeOK
BY EventInvariance, PTL DEF EventInv

(* No waiter of an order's event returns before the event was set.         *)
THEOREM ReturnsAfterSet == EventSpec => []ReturnsOnlyAfterSet
BY EventInvariance, PTL DEF EventInv

(* All blocked waiters share the event that set() will find.               *)
THEOREM SharedEvent == EventSpec => []OneSharedEvent
<1>1. EventInv => OneSharedEvent BY DEF EventInv, AllocatedOnce, OneSharedEvent
<1>2. QED BY <1>1, EventInvariance, PTL
=============================================================================
