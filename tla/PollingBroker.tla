---------------------------- MODULE PollingBroker ----------------------------
(***************************************************************************)
(* A live broker that learns of its orders by polling, after the Tradier   *)
(* adapter (lumibot/brokers/tradier.py) and the stream it runs on          *)
(* (lumibot/trading_builtins/custom_stream.py, PollingStream).             *)
(*                                                                         *)
(* Threads: strategy threads submit and cancel orders; one stream thread   *)
(* handles the events of a bounded queue and, whenever it finds the queue  *)
(* empty for a polling interval, polls: it fetches the broker's list of    *)
(* orders, compares each record with what is tracked and dispatches the    *)
(* differences to its own queue.  The brokerage changes and lists orders   *)
(* as it pleases.                                                          *)
(*                                                                         *)
(* Each handler of a trade event is one step, for no other thread here     *)
(* runs one; a submission and a poll are several, cut where they call the  *)
(* brokerage or read or write what the other thread writes.                *)
(***************************************************************************)
EXTENDS OrderTracking

CONSTANTS QueueSize,    \* capacity of the stream's queue (100 in the code)
          MaxFailures,  \* bound: failed fetches of the order list
          Outcomes      \* bound: what else than a priced fill may become of
                        \* an open order at the brokerage, and whether a
                        \* finished one is dropped from its list

ASSUME BoundsAssumption ==
    /\ QueueSize \in Nat \ {0}
    /\ MaxFailures \in Nat
    /\ Outcomes \subseteq {"unpriced", "canceled", "error", "expired", "dropped"}

VARIABLES market,       \* market[i]: status of order i at the brokerage
          dropped,      \* finished orders the brokerage no longer lists
          submit,       \* submit[i]: how far the submission of order i is,
                        \* or that i was there before the program started
          queue,        \* PollingStream._queue
          pc,           \* what the stream thread does next
          raw,          \* raw_orders of the current poll: identifier -> status
          known,        \* stored_orders, then tracked_orders, of the poll
          todo,         \* identifiers the current loop has not come to yet
          firstIteration,
          failures      \* failed fetches so far

pollVars == <<market, dropped, submit, queue, pc, raw, known, todo,
              firstIteration, failures>>
vars == <<trackVars, pollVars>>

Finished == {"fill", "canceled", "error", "expired"}

MarketStatus == {"none", "open", "unpriced"} \cup Finished

(* idle -> accepted -> tracked -> done is a submission; the other values   *)
(* are final.                                                              *)
SubmitStatus == {"idle", "accepted", "tracked", "done", "refused",
                 "foreign", "historic"}

Event == [kind : {"new", "fill", "canceled", "error"}, order : Obj]

StreamPC == {"get", "store", "rows", "missing"}

Own(i) == [id |-> i, by |-> "strategy"]
Parsed(i) == [id |-> i, by |-> "poll"]

Init == /\ TrackInit
        /\ market \in [Ids -> {"none", "open", "fill"}]
        /\ dropped \in SUBSET {i \in Ids : market[i] = "fill"}
        /\ submit = [i \in Ids |-> CASE market[i] = "none" -> "idle"
                                     [] market[i] = "open" -> "foreign"
                                     [] OTHER -> "historic"]
        /\ queue = <<>>
        /\ pc = "get"
        /\ raw = <<>>
        /\ known = <<>>
        /\ todo = {}
        /\ firstIteration = TRUE
        /\ failures = 0

-----------------------------------------------------------------------------
(* The brokerage. *)

MarketStep(i, from, to) == /\ market[i] \in from
                           /\ market' = [market EXCEPT ![i] = to]
                           /\ UNCHANGED <<trackVars, dropped, submit, queue, pc,
                                          raw, known, todo, firstIteration, failures>>

(* An executed order may be listed as filled before its price is.          *)
Execute(i) == MarketStep(i, {"open", "unpriced"}, "fill")

EndOtherwise(i) == \E s \in Outcomes \ {"dropped"} : MarketStep(i, {"open"}, s)

Drop(i) == /\ "dropped" \in Outcomes
           /\ market[i] \in Finished
           /\ i \notin dropped
           /\ dropped' = dropped \cup {i}
           /\ UNCHANGED <<trackVars, market, submit, queue, pc, raw, known, todo,
                          firstIteration, failures>>

Listing == [i \in {j \in Ids : market[j] # "none"} \ dropped |-> market[i]]

-----------------------------------------------------------------------------
(* Strategy threads. *)

(* CustomStream.dispatch: an event for which there is no room is dropped.  *)
Dispatch(kind, o) ==
    queue' = IF Len(queue) < QueueSize
               THEN Append(queue, [kind |-> kind, order |-> o])
               ELSE queue

SubmitGoto(i, from, to) == submit[i] = from /\ submit' = [submit EXCEPT ![i] = to]

(* The brokerage accepts the order; the response is still on its way.      *)
SubmitAccepted(i) ==
    /\ SubmitGoto(i, "idle", "accepted")
    /\ market' = [market EXCEPT ![i] = "open"]
    /\ UNCHANGED <<trackVars, dropped, queue, pc, raw, known, todo,
                   firstIteration, failures>>

(* TradierApiError: the order object is reported as failed.                *)
SubmitRefused(i) ==
    /\ SubmitGoto(i, "idle", "refused")
    /\ Dispatch("error", Own(i))
    /\ UNCHANGED <<trackVars, market, dropped, pc, raw, known, todo,
                   firstIteration, failures>>

SubmitTrack(i) ==
    /\ SubmitGoto(i, "accepted", "tracked")
    /\ TrackSubmitted(Own(i))
    /\ UNCHANGED <<market, dropped, queue, pc, raw, known, todo,
                   firstIteration, failures>>

SubmitDispatch(i) ==
    /\ SubmitGoto(i, "tracked", "done")
    /\ Dispatch("new", Own(i))
    /\ UNCHANGED <<trackVars, market, dropped, pc, raw, known, todo,
                   firstIteration, failures>>

CancelOrder(i) == /\ submit[i] = "done"
                  /\ ~IsFilled(Own(i)) /\ ~IsCanceled(Own(i))
                  /\ MarketStep(i, {"open"}, "canceled")

-----------------------------------------------------------------------------
(* The stream thread: events. *)

Handle(e) ==
    CASE e.kind = "new" -> ProcessNewOrder(e.order)
      [] e.kind = "fill" -> ProcessFilledOrder(e.order)
      [] e.kind = "canceled" -> ProcessCanceledOrder(e.order)
      [] e.kind = "error" -> IF IsActive(e.order)
                               THEN ProcessErrorOrder(e.order)
                               ELSE SetError(e.order)

HandleEvent == /\ pc = "get"
               /\ queue # <<>>
               /\ Handle(Head(queue))
               /\ queue' = Tail(queue)
               /\ UNCHANGED <<market, dropped, submit, pc, raw, known, todo,
                              firstIteration, failures>>

-----------------------------------------------------------------------------
(* The stream thread: do_polling. *)

PollGoto(from, to) == pc = from /\ pc' = to

(* The poll begins when the queue has been empty for a polling interval.   *)
(* _pull_broker_all_orders answers an empty list when the request fails.   *)
FetchOrders == /\ PollGoto("get", "store")
               /\ queue = <<>>
               /\ raw' = Listing
               /\ UNCHANGED <<trackVars, market, dropped, submit, queue, known,
                              todo, firstIteration, failures>>

FetchFails == /\ PollGoto("get", "store")
              /\ queue = <<>>
              /\ failures < MaxFailures
              /\ failures' = failures + 1
              /\ raw' = <<>>
              /\ UNCHANGED <<trackVars, market, dropped, submit, queue, known,
                             todo, firstIteration>>

StoreOrders == /\ PollGoto("store", "rows")
               /\ known' \in Snapshots
               /\ todo' = DOMAIN raw
               /\ UNCHANGED <<trackVars, market, dropped, submit, queue, raw,
                              firstIteration, failures>>

(* A record nobody tracked when the poll began.  The first poll of the     *)
(* program takes in active orders only.                                    *)
UnknownRow(i) ==
    /\ i \notin DOMAIN known
    /\ IF firstIteration /\ raw[i] # "open"
         THEN UNCHANGED trackVars
         ELSE ProcessNewOrder(Parsed(i))
    /\ UNCHANGED queue

(* Mutant: an event for every record, without comparing statuses.          *)
KnownRowUncompared(i) ==
    /\ i \in DOMAIN known
    /\ IF raw[i] \in {"open", "expired", "unpriced"}
         THEN UNCHANGED queue
         ELSE Dispatch(raw[i], known[i])
    /\ UNCHANGED trackVars

(* Mutant: records of orders that are over for the program are skipped.    *)
KnownRowActiveOnly(i) ==
    /\ i \in DOMAIN known
    /\ IF raw[i] = status[known[i]] \/ ~IsActive(known[i])
                \/ raw[i] \in {"expired", "unpriced"}
         THEN UNCHANGED queue
         ELSE Dispatch(IF raw[i] = "open" THEN "new" ELSE raw[i], known[i])
    /\ UNCHANGED trackVars

(* Mutant: no case for canceled.                                           *)
KnownRowNoCancel(i) ==
    /\ i \in DOMAIN known
    /\ IF raw[i] \in {status[known[i]], "expired", "unpriced", "canceled"}
         THEN UNCHANGED queue
         ELSE Dispatch(IF raw[i] = "open" THEN "new" ELSE raw[i], known[i])
    /\ UNCHANGED trackVars

(* A record of a tracked order: an event when the status differs, except   *)
(* for the statuses that do_polling has no case for, and for a fill whose  *)
(* price is not there yet.  A status that does not differ is written over  *)
(* the object's, which changes nothing while this thread alone writes it   *)
(* (SyncBroker!Rewrite).                                                   *)
KnownRow(i) ==
    /\ i \in DOMAIN known
    /\ IF raw[i] \in {status[known[i]], "expired", "unpriced"}
         THEN UNCHANGED queue
         ELSE Dispatch(IF raw[i] = "open" THEN "new" ELSE raw[i], known[i])
    /\ UNCHANGED trackVars

PollRow == /\ pc = "rows"
           /\ \E i \in todo : /\ UnknownRow(i) \/ KnownRow(i)
                              /\ todo' = todo \ {i}
           /\ UNCHANGED <<market, dropped, submit, pc, raw, known,
                          firstIteration, failures>>

SnapshotTracked == /\ PollGoto("rows", "missing")
                   /\ todo = {}
                   /\ known' \in Snapshots
                   /\ todo' = TrackedIds \ DOMAIN raw
                   /\ UNCHANGED <<trackVars, market, dropped, submit, queue, raw,
                                  firstIteration, failures>>

(* Mutant: every tracked order that is not listed is taken for canceled.   *)
PollMissingAnyStatus ==
    /\ pc = "missing"
    /\ \E i \in todo : /\ Dispatch("canceled", known[i])
                       /\ todo' = todo \ {i}
    /\ UNCHANGED <<trackVars, market, dropped, submit, pc, raw, known,
                   firstIteration, failures>>

(* An active order that is not in the fetched list is taken for canceled.  *)
PollMissing == /\ pc = "missing"
               /\ \E i \in todo :
                      /\ IF IsActive(known[i])
                           THEN Dispatch("canceled", known[i])
                           ELSE UNCHANGED queue
                      /\ todo' = todo \ {i}
               /\ UNCHANGED <<trackVars, market, dropped, submit, pc, raw, known,
                              firstIteration, failures>>

PollDone == /\ PollGoto("missing", "get")
            /\ todo = {}
            /\ firstIteration' = FALSE
            /\ raw' = <<>>
            /\ known' = <<>>
            /\ UNCHANGED <<trackVars, market, dropped, submit, queue, todo, failures>>

-----------------------------------------------------------------------------

Brokerage == \E i \in Ids : Execute(i) \/ EndOtherwise(i) \/ Drop(i)

Strategy == \E i \in Ids : \/ SubmitAccepted(i) \/ SubmitRefused(i)
                           \/ SubmitTrack(i) \/ SubmitDispatch(i)
                           \/ CancelOrder(i)

Poll == \/ FetchOrders \/ FetchFails \/ StoreOrders \/ PollRow
        \/ SnapshotTracked \/ PollMissing \/ PollDone

Stream == HandleEvent \/ Poll

Next == Brokerage \/ Strategy \/ Stream

Spec == Init /\ [][Next]_vars

(* The stream thread runs for as long as the broker does, a thread that    *)
(* has called _submit_order returns from it, and a brokerage that lists an *)
(* order as filled comes to price it.                                      *)
FairSpec == /\ Spec
            /\ WF_vars(Stream)
            /\ \A i \in Ids : WF_vars(SubmitTrack(i) \/ SubmitDispatch(i))

-----------------------------------------------------------------------------
(* Every variable stays in its type.                                       *)
TypeOK == /\ TrackTypeOK
          /\ market \in [Ids -> MarketStatus]
          /\ dropped \subseteq Ids
          /\ submit \in [Ids -> SubmitStatus]
          /\ queue \in Seq(Event) /\ Len(queue) <= QueueSize
          /\ pc \in StreamPC
          /\ raw \in UNION {[S -> MarketStatus] : S \in SUBSET Ids}
          /\ known \in UNION {[S -> Obj] : S \in SUBSET Ids}
          /\ todo \subseteq Ids
          /\ firstIteration \in BOOLEAN
          /\ failures \in 0 .. MaxFailures

(* However polls, submissions and dropped events interleave, the fill of   *)
(* an order is recorded, and the strategy told, at most once, and never    *)
(* for an order that the brokerage did not execute.                        *)
FilledOnce ==
    \A i \in Ids : LET os == {o \in Obj : o.id = i /\ fills[o] > 0} IN
        /\ \A o \in os : fills[o] = 1 /\ market[i] = "fill"
        /\ \A o, p \in os : o = p

(* The trackers that cancel_open_orders and wait_orders_clear read as      *)
(* outstanding hold no order that is over.                                 *)
OutstandingAreActive ==
    \A o \in ToSet(unprocessedOrders) \cup ToSet(newOrders) : IsActive(o)

(* "Don't duplicate orders in the new orders tracker" (broker.py:1357):    *)
(* not even two objects of one order, however the submission and the poll  *)
(* that finds the order first interleave.                                  *)
NewOrdersDistinct ==
    \A m, n \in DOMAIN newOrders : newOrders[m].id = newOrders[n].id => m = n

(* An order that the brokerage executes and goes on listing is recorded as *)
(* filled, although its events may be dropped by a full queue, polls may   *)
(* fail, and it may have been taken for canceled before.                   *)
FillIsRecorded ==
    \A i \in Ids : market[i] = "fill" ~>
        (i \in dropped \/ \E o \in Obj : o.id = i /\ fills[o] > 0)

(* The end of a tracked order is never missed for good, not even when the  *)
(* brokerage stops listing the order, which is the only way to notice that *)
(* an order has expired: some object of it is closed.                      *)
EndIsRecorded ==
    \A i \in Ids :
        (/\ market[i] \in {"fill", "canceled", "error"} \/ i \in dropped
         /\ i \in TrackedIds) ~> \E o \in closed : o.id = i

(* Each order object lives as the abstract order book promises: a fill is  *)
(* final (no canceled event of a poll that missed the order arrives behind *)
(* it) and is told in the step that records it, and no object reopens.     *)
Book == INSTANCE OrderBook WITH Orders <- Obj, state <- status, told <- fills

ImplementsOrderBook == Book!Spec

-----------------------------------------------------------------------------
(* What the repository says of this code, and it does not do.              *)

(* An order object the strategy submitted is closed once the order is      *)
(* over: "Wait for the orders to execute/be canceled" (broker.py:2001).    *)
SubmittedObjectCloses ==
    \A i \in Ids : (submit[i] = "done" /\ market[i] = "fill")
                      ~> (i \in dropped \/ Own(i) \in closed)

(* "tracked (aka active) orders that are no longer in the broker's list"   *)
(* are canceled (tradier.py:1409): not one the broker has open.            *)
CanceledIsNotOpen ==
    \A o \in Obj : status[o] = "canceled" => market[o.id] # "open"
==============================================================================
