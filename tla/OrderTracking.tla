---------------------------- MODULE OrderTracking ----------------------------
(***************************************************************************)
(* What a broker object remembers of the orders of a strategy              *)
(* (lumibot/brokers/broker.py): the tracker lists, and of each Order       *)
(* object its status, its waiters' events and its fill transactions.       *)
(* The operators below are the _process_..._order handlers, each in one    *)
(* step: what PollingBroker needs, whose stream thread alone runs them.    *)
(* SyncBroker, where two threads do, takes the tests and the lists from    *)
(* here and runs the handlers in several steps.                            *)
(*                                                                         *)
(* Orders are compared by identifier (Order.__eq__), but status and events *)
(* belong to the Python object.  Several objects may carry one identifier: *)
(* the object the strategy submitted, and one that the polling thread or   *)
(* the executor's synchronisation parsed from a broker record.  An object  *)
(* is therefore named by its identifier and by where it was created.       *)
(*                                                                         *)
(* Left out: child orders (OCO, OTO, bracket), partial fills, which a      *)
(* polling broker never reports, and positions.                            *)
(***************************************************************************)
EXTENDS Naturals, SequencesExt

CONSTANT Ids            \* order identifiers, as the broker assigns them

Origins == {"strategy", "poll", "sync"}

Obj == [id : Ids, by : Origins]

VARIABLES unprocessedOrders, newOrders, filledOrders, errorOrders,
          canceledOrders,    \* the tracker lists, sequences of objects
          status,            \* status[o]: Order.status
          registered,        \* objects whose _new_event is set
          closed,            \* objects whose _closed_event is set
          fills              \* fills[o]: fill transactions of o; with each
                             \* one on_filled_order is called, except when
                             \* the executor replays an old fill

trackers == <<unprocessedOrders, newOrders, filledOrders, errorOrders,
              canceledOrders>>
trackVars == <<trackers, status, registered, closed, fills>>

(* submitted, open and new are one status: equivalent_status never tells   *)
(* them apart.                                                             *)
OrderStatus == {"unprocessed", "open", "fill", "canceled", "error"}

IsFilled(o) == status[o] = "fill"
IsCanceled(o) == status[o] \in {"canceled", "error"}
IsActive(o) == ~IsFilled(o) /\ ~IsCanceled(o)

-----------------------------------------------------------------------------
(* Lookups in, and removal from, a SafeList by identifier. *)

HasId(list, i) == \E n \in DOMAIN list : list[n].id = i
FirstWith(list, i) == list[SelectInSeq(list, LAMBDA o : o.id = i)]
Without(list, i) == RemoveFirstMatch(list, LAMBDA o : o.id = i)

(* Broker._tracked_orders, which get_all_orders returns.                   *)
TrackedOrders == unprocessedOrders \o newOrders \o filledOrders
                 \o errorOrders \o canceledOrders

TrackedIds == {TrackedOrders[n].id : n \in DOMAIN TrackedOrders}

(* o is the object that {x.identifier: x for x in get_all_orders()} keeps  *)
(* for identifier i: the last one.                                         *)
IsLatest(o, i) ==
    \E n \in DOMAIN TrackedOrders :
        /\ TrackedOrders[n] = o
        /\ o.id = i
        /\ \A m \in n+1 .. Len(TrackedOrders) : TrackedOrders[m].id # i

Snapshots == {f \in [TrackedIds -> Obj] : \A i \in TrackedIds : IsLatest(f[i], i)}

-----------------------------------------------------------------------------
(* The handlers. *)

TrackInit == /\ unprocessedOrders = <<>>
             /\ newOrders = <<>>
             /\ filledOrders = <<>>
             /\ errorOrders = <<>>
             /\ canceledOrders = <<>>
             /\ status = [o \in Obj |-> "unprocessed"]
             /\ registered = {}
             /\ closed = {}
             /\ fills = [o \in Obj |-> 0]

(* A submitted order whose identifier the broker has returned.             *)
TrackSubmitted(o) == /\ status' = [status EXCEPT ![o] = "open"]
                     /\ unprocessedOrders' = Append(unprocessedOrders, o)
                     /\ UNCHANGED <<newOrders, filledOrders, errorOrders,
                                    canceledOrders, registered, closed, fills>>

(* _process_new_order: an object with the identifier of o that waits in    *)
(* _unprocessed_orders is registered in place of o; one that is anywhere   *)
(* else is left alone.                                                     *)
(* Mutant: _new_orders is not searched for the identifier.                 *)
PastNewUnsearched(i) == i \in TrackedIds /\ ~HasId(unprocessedOrders, i)

AlreadyPastNew(i) == \/ HasId(newOrders, i)
                     \/ i \in TrackedIds /\ ~HasId(unprocessedOrders, i)

Register(x) ==
    /\ unprocessedOrders' = Without(unprocessedOrders, x.id)
    /\ status' = [status EXCEPT ![x] = "open"]
    /\ registered' = registered \cup {x}
    /\ newOrders' = Append(newOrders, x)
    /\ UNCHANGED <<filledOrders, errorOrders, canceledOrders, closed, fills>>

ProcessNewOrder(o) ==
    \/ /\ AlreadyPastNew(o.id)
       /\ UNCHANGED trackVars
    \/ /\ ~AlreadyPastNew(o.id)
       /\ Register(IF HasId(unprocessedOrders, o.id)
                     THEN FirstWith(unprocessedOrders, o.id)
                     ELSE o)

(* Mutant: _unprocessed_orders is forgotten.                               *)
LeaveNewOnly(o) == /\ newOrders' = Without(newOrders, o.id)
                   /\ closed' = closed \cup {o}
                   /\ UNCHANGED <<unprocessedOrders, registered>>

(* What _process_canceled_order, _process_filled_order and                 *)
(* _process_error_order have in common.                                    *)
LeaveActiveTrackers(o) ==
    /\ newOrders' = Without(newOrders, o.id)
    /\ unprocessedOrders' = Without(unprocessedOrders, o.id)
    /\ closed' = closed \cup {o}
    /\ UNCHANGED registered

ProcessCanceledOrder(o) ==
    /\ LeaveActiveTrackers(o)
    /\ status' = [status EXCEPT ![o] = "canceled"]
    /\ canceledOrders' = Append(canceledOrders, o)
    /\ UNCHANGED <<filledOrders, errorOrders, fills>>

ProcessFilledOrder(o) ==
    /\ LeaveActiveTrackers(o)
    /\ status' = [status EXCEPT ![o] = "fill"]
    /\ fills' = [fills EXCEPT ![o] = @ + 1]
    /\ filledOrders' = Append(filledOrders, o)
    /\ UNCHANGED <<errorOrders, canceledOrders>>

ProcessErrorOrder(o) ==
    /\ LeaveActiveTrackers(o)
    /\ status' = [status EXCEPT ![o] = "error"]
    /\ filledOrders' = Without(filledOrders, o.id)
    /\ errorOrders' = Append(errorOrders, o)
    /\ UNCHANGED <<canceledOrders, fills>>

(* Order.set_error on an object that is no longer active.                  *)
SetError(o) == /\ status' = [status EXCEPT ![o] = "error"]
               /\ closed' = closed \cup {o}
               /\ UNCHANGED <<trackers, registered, fills>>

-----------------------------------------------------------------------------
TrackTypeOK == /\ \A l \in {unprocessedOrders, newOrders, filledOrders,
                            errorOrders, canceledOrders} : l \in Seq(Obj)
               /\ status \in [Obj -> OrderStatus]
               /\ registered \subseteq Obj
               /\ closed \subseteq Obj
               /\ fills \in [Obj -> Nat]
==============================================================================
