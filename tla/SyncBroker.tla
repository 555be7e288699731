----------------------------- MODULE SyncBroker -----------------------------
(***************************************************************************)
(* The polling broker together with the synchronisation that the strategy  *)
(* executor runs before each trading iteration (StrategyExecutor.          *)
(* sync_broker, lumibot/strategies/strategy_executor.py).                  *)
(*                                                                         *)
(* While it compares the broker's orders with the tracked ones the         *)
(* executor raises broker._hold_trade_events; the stream thread then puts  *)
(* trade events into broker._held_trades instead of handling them, and the *)
(* executor handles them itself between two snapshots and at the end.      *)
(* Neither the flag nor the list is locked: the stream thread reads the    *)
(* flag in one step and acts on what it read in another.                   *)
(*                                                                         *)
(* So two threads run the _process_..._order handlers.  Each list locks    *)
(* its own operations, but nothing locks a handler: its tests, its         *)
(* removals, its write of the status and its append are steps here, and so *)
(* is the write of the status that ends the poll's comparison.  The tests  *)
(* are one step and the removals another: whatever comes between two of    *)
(* them ends as if it had come before or after them.                       *)
(*                                                                         *)
(* Objects that one thread parses of one order bear one name, also when a  *)
(* second is registered while the first is between two lists.              *)
(***************************************************************************)
EXTENDS PollingBroker

CONSTANT MaxHeld        \* bound: no poll begins with so many events held

ASSUME SyncBoundsAssumption == MaxHeld \in Nat \ {0}

VARIABLES hold,         \* broker._hold_trade_events
          held,         \* broker._held_trades
          taken,        \* event the stream thread has taken from its queue
          job,          \* job[t]: the handler that thread t is in, and where
          xpc,          \* what the executor does next
          xraw,         \* orders_broker: identifier -> status
          xlumi,        \* orders_lumi
          xtodo,        \* records, then objects, the executor has to look at
          xrow          \* the record it is looking at

syncVars == <<hold, held, taken, job, xpc, xraw, xlumi, xtodo, xrow>>
allVars == <<vars, syncVars>>

Handlers == {"stream", "executor"}

(* order is the handler's local variable: _process_new_order changes it    *)
(* for the object that is tracked already.                                 *)
Job == [kind : {"new", "fill", "canceled", "error"}, order : Obj,
        at : {"test", "leave", "mark", "list", "rewrite"}]

ExecutorPC == {"idle", "check", "drain", "pull", "lumi", "rows", "adopt",
               "settle", "missing", "final"}

Synced(i) == [id |-> i, by |-> "sync"]

NoEvent == [kind |-> "none"]
NoJob == [at |-> "none"]
NoRow == "no row"

SyncInit == /\ Init
            /\ hold = FALSE
            /\ held = <<>>
            /\ taken = NoEvent
            /\ job = [t \in Handlers |-> NoJob]
            /\ xpc = "idle"
            /\ xraw = <<>>
            /\ xlumi = <<>>
            /\ xtodo = {}
            /\ xrow = NoRow

-----------------------------------------------------------------------------
(* The handlers, in steps. *)

Free(t) == job[t] = NoJob

BeginAt(t, kind, o, place) ==
    job' = [job EXCEPT ![t] = [kind |-> kind, order |-> o, at |-> place]]

Begin(t, kind, o) ==
    BeginAt(t, kind, o, IF kind = "new" THEN "test" ELSE "leave")

(* An error of an object that is over is not passed on: only the object is *)
(* marked.                                                                 *)
BeginHandling(t, e) ==
    \/ /\ e.kind = "error" => IsActive(e.order)
       /\ Begin(t, e.kind, e.order)
       /\ UNCHANGED trackVars
    \/ /\ e.kind = "error" /\ ~IsActive(e.order)
       /\ SetError(e.order)
       /\ UNCHANGED job

Turn(t, from, to) == job[t].at = from /\ job' = [job EXCEPT ![t].at = to]
Finish(t, from) == job[t].at = from /\ job' = [job EXCEPT ![t] = NoJob]

(* _process_new_order looks the order up, and goes on with the object that *)
(* is still unprocessed, or with its own one if there is none.             *)
TestNew(t) ==
    /\ job[t].at = "test"
    /\ LET o == job[t].order IN
       job' = IF AlreadyPastNew(o.id)
                THEN [job EXCEPT ![t] = NoJob]
                ELSE [job EXCEPT ![t].at = "leave",
                                 ![t].order = IF HasId(unprocessedOrders, o.id)
                                                THEN FirstWith(unprocessedOrders, o.id)
                                                ELSE o]
    /\ UNCHANGED trackVars

Removed(list, t, kinds) ==
    IF job[t].kind \in kinds THEN Without(list, job[t].order.id) ELSE list

Leave(t) ==
    /\ Turn(t, "leave", "mark")
    /\ unprocessedOrders' = Without(unprocessedOrders, job[t].order.id)
    /\ newOrders' = Removed(newOrders, t, {"fill", "canceled", "error"})
    /\ filledOrders' = Removed(filledOrders, t, {"error"})
    /\ UNCHANGED <<errorOrders, canceledOrders, status, registered, closed, fills>>

StatusOf(kind) == IF kind = "new" THEN "open" ELSE kind

(* The fill transaction, the status and the event of the object.           *)
Mark(t) ==
    /\ Turn(t, "mark", "list")
    /\ LET o == job[t].order
           kind == job[t].kind
       IN /\ status' = [status EXCEPT ![o] = StatusOf(kind)]
          /\ registered' = IF kind = "new" THEN registered \cup {o} ELSE registered
          /\ closed' = IF kind = "new" THEN closed ELSE closed \cup {o}
          /\ fills' = IF kind = "fill" THEN [fills EXCEPT ![o] = @ + 1] ELSE fills
    /\ UNCHANGED trackers

Listed(list, t, kind) ==
    IF job[t].kind = kind THEN Append(list, job[t].order) ELSE list

List(t) == /\ Finish(t, "list")
           /\ newOrders' = Listed(newOrders, t, "new")
           /\ filledOrders' = Listed(filledOrders, t, "fill")
           /\ canceledOrders' = Listed(canceledOrders, t, "canceled")
           /\ errorOrders' = Listed(errorOrders, t, "error")
           /\ UNCHANGED <<unprocessedOrders, status, registered, closed, fills>>

(* The end of the poll's comparison: the record's status was equivalent to *)
(* the object's when they were compared.                                   *)
Rewrite(t) == /\ Finish(t, "rewrite")
              /\ status' = [status EXCEPT ![job[t].order] = StatusOf(job[t].kind)]
              /\ UNCHANGED <<trackers, registered, closed, fills>>

JobStep(t) == /\ TestNew(t) \/ Leave(t) \/ Mark(t) \/ List(t) \/ Rewrite(t)
              /\ UNCHANGED <<pollVars, hold, held, taken, xpc, xraw, xlumi, xtodo,
                             xrow>>

-----------------------------------------------------------------------------
(* The stream thread. *)

(* on_trade_event_error does not pass on an error of an inactive order.    *)
PassedOn(e) == e.kind = "error" => IsActive(e.order)

TakeEvent == /\ pc = "get" /\ Free("stream")
             /\ queue # <<>>
             /\ taken' = Head(queue)
             /\ queue' = Tail(queue)
             /\ pc' = IF hold /\ PassedOn(Head(queue)) THEN "append" ELSE "handle"
             /\ UNCHANGED <<trackVars, market, dropped, submit, raw, known, todo,
                            firstIteration, failures, hold, held, job, xpc, xraw,
                            xlumi, xtodo, xrow>>

(* An error marks the order object at once, held or not.                   *)
HoldEvent == /\ pc = "append"
             /\ pc' = "get"
             /\ held' = Append(held, taken)
             /\ taken' = NoEvent
             /\ IF taken.kind = "error" THEN SetError(taken.order)
                                        ELSE UNCHANGED trackVars
             /\ UNCHANGED <<market, dropped, submit, queue, raw, known, todo,
                            firstIteration, failures, hold, job, xpc, xraw, xlumi,
                            xtodo, xrow>>

HandleTaken == /\ pc = "handle"
               /\ pc' = "get"
               /\ BeginHandling("stream", taken)
               /\ taken' = NoEvent
               /\ UNCHANGED <<market, dropped, submit, queue, raw, known, todo,
                              firstIteration, failures, hold, held, xpc, xraw,
                              xlumi, xtodo, xrow>>

(* Mutant: records of orders that are over for the program are skipped.    *)
CompareActiveOnly(i) ==
    /\ i \in DOMAIN known
    /\ KnownRowActiveOnly(i)
    /\ UNCHANGED job

Written(r) == CASE r = "open" -> "new" [] r = "unpriced" -> "fill" [] OTHER -> r

(* Equivalent statuses: the record's is about to be written over the       *)
(* object's.                                                               *)
CompareRow(i) ==
    /\ i \in DOMAIN known
    /\ \/ /\ StatusOf(Written(raw[i])) = status[known[i]]
          /\ BeginAt("stream", Written(raw[i]), known[i], "rewrite")
          /\ UNCHANGED <<trackVars, queue>>
       \/ /\ StatusOf(Written(raw[i])) # status[known[i]]
          /\ KnownRow(i)
          /\ UNCHANGED job

AdoptRow(i) ==
    /\ i \notin DOMAIN known
    /\ IF firstIteration /\ raw[i] # "open"
         THEN UNCHANGED job
         ELSE Begin("stream", "new", Parsed(i))
    /\ UNCHANGED <<trackVars, queue>>

SyncPollRow == /\ pc = "rows" /\ Free("stream")
               /\ \E i \in todo : /\ AdoptRow(i) \/ CompareRow(i)
                                  /\ todo' = todo \ {i}
               /\ UNCHANGED <<market, dropped, submit, pc, raw, known,
                              firstIteration, failures, hold, held, taken, xpc,
                              xraw, xlumi, xtodo, xrow>>

(* The rest of a poll, which knows nothing of the flag.                    *)
SyncPoll == /\ Free("stream")
            /\ pc = "get" => Len(held) < MaxHeld
            /\ \/ FetchOrders \/ FetchFails \/ StoreOrders
               \/ SnapshotTracked \/ PollMissing \/ PollDone
            /\ UNCHANGED syncVars

-----------------------------------------------------------------------------
(* The executor. *)

SyncGoto(from, to) == Free("executor") /\ xpc = from /\ xpc' = to

BeginSync == /\ SyncGoto("idle", "check")
             /\ hold' = TRUE
             /\ UNCHANGED <<vars, held, taken, job, xraw, xlumi, xtodo, xrow>>

(* Mutant: the flag stays up while the held events are handled.            *)
CheckHeldHolding ==
    /\ SyncGoto("check", IF held = <<>> THEN "pull" ELSE "drain")
    /\ UNCHANGED <<vars, hold, held, taken, job, xraw, xlumi, xtodo, xrow>>

(* After the balances have come in: held events end the snapshot.          *)
CheckHeld == /\ SyncGoto("check", IF held = <<>> THEN "pull" ELSE "drain")
             /\ hold' = (held = <<>>)
             /\ UNCHANGED <<vars, held, taken, job, xraw, xlumi, xtodo, xrow>>

(* process_held_trades: each event goes to _process_trade_event again,     *)
(* which would hold it again if the flag were up, and does not ask whether *)
(* the object of an error is active.                                       *)
HandleHeld == /\ Free("executor")
              /\ xpc \in {"drain", "final"}
              /\ held # <<>>
              /\ LET e == Head(held) IN
                 \/ hold /\ held' = Append(Tail(held), e) /\ UNCHANGED job
                 \/ /\ ~hold
                    /\ held' = Tail(held)
                    /\ Begin("executor", e.kind, e.order)
              /\ UNCHANGED <<vars, hold, taken, xpc, xraw, xlumi, xtodo, xrow>>

HoldAgain == /\ SyncGoto("drain", "check")
             /\ held = <<>>
             /\ hold' = TRUE
             /\ UNCHANGED <<vars, held, taken, job, xraw, xlumi, xtodo, xrow>>

(* _pull_all_orders: the comparison is skipped when nothing is listed.     *)
PullOrders == /\ SyncGoto("pull", IF Listing = <<>> THEN "missing" ELSE "lumi")
              /\ xraw' = Listing
              /\ UNCHANGED <<vars, hold, held, taken, job, xlumi, xtodo, xrow>>

GetAllOrders == /\ SyncGoto("lumi", "rows")
                /\ xlumi' = TrackedOrders
                /\ xtodo' = DOMAIN xraw
                /\ UNCHANGED <<vars, hold, held, taken, job, xraw, xrow>>

Matches(i) == {n \in DOMAIN xlumi : xlumi[n].id = i}

(* Mutant: a record that is over is not cleaned away.                      *)
CleanOpenOnly(i) ==
    /\ unprocessedOrders' = IF HasId(newOrders, i) THEN Without(unprocessedOrders, i)
                                                  ELSE unprocessedOrders
    /\ UNCHANGED <<newOrders, filledOrders, errorOrders, canceledOrders, status,
                   registered, closed, fills>>

(* _clean_order_trackers, for a record with more than one tracked object.  *)
CleanOrderTrackers(i) ==
    /\ unprocessedOrders' = IF xraw[i] # "open" \/ HasId(newOrders, i)
                              THEN Without(unprocessedOrders, i)
                              ELSE unprocessedOrders
    /\ newOrders' = IF xraw[i] # "open" THEN Without(newOrders, i) ELSE newOrders
    /\ UNCHANGED <<filledOrders, errorOrders, canceledOrders, status,
                   registered, closed, fills>>

(* One tracked object: only prices and quantities are compared.  None, or  *)
(* several, which _clean_order_trackers answers with None: to be adopted.  *)
SyncRow == /\ Free("executor") /\ xpc = "rows"
           /\ \E i \in xtodo :
                 /\ xtodo' = xtodo \ {i}
                 /\ \/ /\ Cardinality(Matches(i)) = 1
                       /\ UNCHANGED <<trackVars, xpc, xrow>>
                    \/ /\ Cardinality(Matches(i)) # 1
                       /\ xpc' = "adopt"
                       /\ xrow' = i
                       /\ IF Matches(i) = {} THEN UNCHANGED trackVars
                                             ELSE CleanOrderTrackers(i)
           /\ UNCHANGED <<pollVars, hold, held, taken, job, xraw, xlumi>>

(* In the broker's first iteration orders that are over are replayed, and  *)
(* open ones, whose status is not literally "new", ignored.                *)
Replayed(i) == firstIteration /\ xraw[i] \notin {"open", "expired"}

AdoptOrder == /\ SyncGoto("adopt", IF Replayed(xrow) THEN "settle" ELSE "rows")
              /\ IF firstIteration /\ ~Replayed(xrow)
                   THEN UNCHANGED job
                   ELSE Begin("executor", "new", Synced(xrow))
              /\ UNCHANGED <<vars, hold, held, taken, xraw, xlumi, xtodo, xrow>>

(* Mutant: every order that is over is replayed as a fill.                 *)
SettleAsFilled == /\ SyncGoto("settle", "rows")
                  /\ Begin("executor", "fill", Synced(xrow))
                  /\ UNCHANGED <<vars, hold, held, taken, xraw, xlumi, xtodo, xrow>>

SettleOrder == /\ SyncGoto("settle", "rows")
               /\ Begin("executor", Written(xraw[xrow]), Synced(xrow))
               /\ UNCHANGED <<vars, hold, held, taken, xraw, xlumi, xtodo, xrow>>

BeginMissing == /\ SyncGoto("rows", "missing")
                /\ xtodo = {}
                /\ xtodo' = {o \in ToSet(xlumi) : o.id \notin DOMAIN xraw}
                /\ xraw' = <<>>
                /\ xlumi' = <<>>
                /\ xrow' = NoRow
                /\ UNCHANGED <<vars, hold, held, taken, job>>

(* An active order the broker does not list is canceled, unless it is      *)
(* young or a market order; the event is held, for the flag is up.         *)
CancelMissing == /\ Free("executor") /\ xpc = "missing"
                 /\ \E o \in xtodo :
                       /\ xtodo' = xtodo \ {o}
                       /\ \/ UNCHANGED held
                          \/ /\ IsActive(o)
                             /\ held' = Append(held, [kind |-> "canceled",
                                                      order |-> o])
                 /\ UNCHANGED <<vars, hold, taken, job, xpc, xraw, xlumi, xrow>>

(* Mutant: the flag is not lowered.                                        *)
ReleaseHolding == /\ SyncGoto("missing", "final")
                  /\ xtodo = {}
                  /\ UNCHANGED <<vars, hold, held, taken, job, xraw, xlumi, xtodo,
                                 xrow>>

Release == /\ SyncGoto("missing", "final")
           /\ xtodo = {}
           /\ hold' = FALSE
           /\ UNCHANGED <<vars, held, taken, job, xraw, xlumi, xtodo, xrow>>

(* The iteration that follows ends the broker's first iteration.           *)
EndSync == /\ SyncGoto("final", "idle")
           /\ held = <<>>
           /\ firstIteration' = FALSE
           /\ UNCHANGED <<trackVars, market, dropped, submit, queue, pc, raw,
                          known, todo, failures, hold, held, taken, job, xraw,
                          xlumi, xtodo, xrow>>

-----------------------------------------------------------------------------

SyncStream == \/ TakeEvent \/ HoldEvent \/ HandleTaken \/ SyncPollRow \/ SyncPoll
              \/ JobStep("stream")

Executor == \/ BeginSync \/ CheckHeld \/ HandleHeld \/ HoldAgain \/ PullOrders
            \/ GetAllOrders \/ SyncRow \/ AdoptOrder \/ SettleOrder
            \/ BeginMissing \/ CancelMissing \/ Release \/ EndSync
            \/ JobStep("executor")

SyncNext == \/ (Brokerage \/ Strategy) /\ UNCHANGED syncVars
            \/ SyncStream
            \/ Executor

SyncSpec == SyncInit /\ [][SyncNext]_allVars

(* Both threads run, and the executor synchronises before every iteration. *)
SyncFairness == /\ WF_allVars(SyncStream)
                /\ WF_allVars(Executor)
                /\ \A i \in Ids : WF_allVars(   (SubmitTrack(i) \/ SubmitDispatch(i))
                                             /\ UNCHANGED syncVars)

-----------------------------------------------------------------------------
(* Every variable stays in its type.                                       *)
SyncTypeOK == /\ TrackTypeOK
              /\ market \in [Ids -> MarketStatus]
              /\ submit \in [Ids -> SubmitStatus]
              /\ queue \in Seq(Event) /\ Len(queue) <= QueueSize
              /\ pc \in StreamPC \cup {"append", "handle"}
              /\ hold \in BOOLEAN
              /\ held \in Seq(Event)
              /\ taken \in Event \cup {NoEvent}
              /\ job \in [Handlers -> Job \cup {NoJob}]
              /\ xpc \in ExecutorPC
              /\ xlumi \in Seq(Obj)
              /\ xtodo \in (SUBSET Ids) \cup (SUBSET Obj)

(* A fill is told only of an order the brokerage has executed.             *)
FillsAreReal == \A o \in Obj : fills[o] > 0 => market[o.id] \in {"unpriced", "fill"}

(* An event that is held, even one that the stream thread put there after  *)
(* the executor had already drained the list, is handled by the next       *)
(* synchronisation: the list is emptied again and again.                   *)
HeldIsHandled == []<>(held = <<>>)

(* The executor and the stream thread together do not lose a fill: one     *)
(* that is left in the list of held events is found again by a poll.  (At  *)
(* the brokerage a fill is final, so it is recorded if infinitely often    *)
(* none is unrecorded.)                                                    *)
SyncFillIsRecorded ==
    []<>(\A i \in Ids : market[i] = "fill" =>
            (i \in dropped \/ \E o \in Obj : o.id = i /\ fills[o] > 0))

Ended(i) == market[i] \in {"fill", "canceled"} /\ i \notin dropped

(* Two threads that run the handlers at once can leave an order that is    *)
(* over among the outstanding ones (broker.py:1331: "the 'new' queue never *)
(* gets cleared").  It does not stay there: while the brokerage lists the  *)
(* order, the synchronisations sweep it out.                               *)
OverIsSwept ==
    <>[](\A i \in Ids : Ended(i) => ~HasId(unprocessedOrders \o newOrders, i))

(* A stale record of a poll, and a registration that comes late, can write *)
(* an old status over the end of an order.  It does not stay: the object   *)
(* the poll compares comes to have the status the brokerage lists.         *)
EndIsAgreed ==
    <>[](\A i \in TrackedIds : Ended(i) =>
            \A o \in ToSet(TrackedOrders) : IsLatest(o, i) => status[o] = market[i])

-----------------------------------------------------------------------------
(* What the repository says of this code, and it does not do.              *)

(* "Don't duplicate orders in the new orders tracker" (broker.py:1357):    *)
(* not when two threads register them.  An order that was filled or        *)
(* canceled is not among the outstanding ones.                             *)
OverIsNotOutstanding ==
    \A o \in ToSet(unprocessedOrders \o newOrders) :
        status[o] \notin {"fill", "canceled"}

(* No order object that was over is open again.                            *)
NotReopened == [][\A o \in Obj : status[o] \in {"fill", "canceled", "error"} =>
                                     status'[o] \notin {"unprocessed", "open"}]_allVars

(* on_filled_order "is called when an order has been successfully filled"  *)
(* (docsrc/lifecycle_methods.on_filled_order.rst:4): not twice for one     *)
(* that the strategy submitted.                                            *)
ToldOnce == \A i \in Ids : fills[Own(i)] <= 1

(* "Filled or canceled orders can be dropped by the broker as they no      *)
(* longer have any effect" (strategy_executor.py:461): a filled order is   *)
(* not turned into a canceled one because it is no longer listed.          *)
FilledStaysFilled ==
    [][\A o \in Obj : status[o] = "fill" => status'[o] = "fill"]_allVars
==============================================================================
