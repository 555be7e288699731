------------------------------ MODULE SmartLimit ------------------------------
(* One smart-limit order in live trading: check_queue's thread reprices it   *)
(* by its ladder and cancels it at the end (_process_smart_limit_orders,     *)
(* strategies/strategy_executor.py), the strategy may cancel it, and the     *)
(* stream's thread polls the brokerage and handles what the poll told        *)
(* (brokers/tradier.py, brokers/broker.py).  A cancel is only a request, and *)
(* what is told knows the Order object and not its identifier.  A submission *)
(* is one step here; PollingBroker has it in its parts.                      *)
EXTENDS Integers, Sequences

CONSTANTS Steps,      \* the ladder has steps 0 .. Steps-1; Steps: hold is over
          MaxFailures \* bound: calls that fail
ASSUME SmartLimitAssumption == Steps \in Nat \ {0} /\ MaxFailures \in Nat

VARIABLES
  order,    \* the Order object: [status, id, smart, step, fresh]; fresh: it is
            \* in _unprocessed_orders
  check,    \* check_queue's place
  clock,    \* the step of the ladder that the elapsed time calls for
  subs,     \* the order's submissions at the brokerage: their states
  stream,   \* the stream's thread: its place, the rows it fetched, and which
            \* of them it took for the Order object's
  news,     \* the stream's queue: what the Order object will be told
  misled,   \* history: the object was ended while its submission was working
  failures
program == <<order, check, clock>>
polling == <<stream, news, misled>>
smartVars == <<program, subs, polling, failures>>

Ends == {"filled", "canceled"}
NoRow == 0
CallFails == failures < MaxFailures /\ failures' = failures + 1
CallSucceeds == failures' = failures
Working == {n \in DOMAIN subs : subs[n] = "working"}
Live == {n \in DOMAIN subs : subs[n] \notin Ends}

SmartTypeOK ==
  /\ order.status \in {"active", "error"} \cup Ends
  /\ order.id \in DOMAIN subs /\ order.step \in 0..clock
  /\ stream.mine = NoRow \/ stream.mine \in DOMAIN stream.rows
  /\ Len(subs) <= order.step + 1

SmartInit ==
  /\ order = [status |-> "active", id |-> 1, smart |-> TRUE, step |-> 0, fresh |-> FALSE]
  /\ check = "turn" /\ clock = 0
  /\ subs = <<"working">>
  /\ stream = [pc |-> "idle", rows |-> <<>>, mine |-> NoRow]
  /\ news = <<>> /\ misled = FALSE /\ failures = 0
-----------------------------------------------------------------------------
(* The adapter.  Cancel and modify return at once for an order they know to *)
(* be over, and raise when the brokerage refuses, as it does for a          *)
(* submission that is over and may do for one being canceled, or does not   *)
(* answer.                                                                  *)
Active == order.status = "active"
Accepts == ~Active \/ order.id \in Live
Refuses == Active /\ order.id \notin Working

(* Mutant: the request is lost, and nobody notices.                         *)
NothingSent == UNCHANGED subs

RequestCancel ==
  IF Active THEN subs' = [subs EXCEPT ![order.id] = "canceling"] ELSE UNCHANGED subs

(* _process_smart_limit_orders, for the one order if it is active and still *)
(* of that type: a turn sees the end of the final hold, or a new step, or   *)
(* does nothing.                                                            *)
Repriced == check = "turn" /\ Active /\ order.smart

(* Mutant: an order whose cancel failed is given up.                        *)
GiveUp == order' = [order EXCEPT !.smart = FALSE]

(* The error is logged and the next turn tries again.                       *)
CancelFailed == UNCHANGED order

FinalCancel ==
  /\ Repriced /\ clock = Steps
  /\ \/ CallSucceeds /\ Accepts /\ RequestCancel /\ UNCHANGED order
     \/ CallSucceeds /\ Refuses /\ UNCHANGED subs /\ CancelFailed
     \/ CallFails /\ UNCHANGED subs /\ CancelFailed
  /\ UNCHANGED <<check, clock, polling>>

(* A new step; the quote may be missing or leave the price as it was.       *)
NewStep ==
  /\ Repriced /\ clock < Steps /\ order.step < clock
  /\ order' = [order EXCEPT !.step = clock]
  /\ check' \in {"turn", "modify"}
  /\ UNCHANGED <<clock, subs, polling, failures>>

(* Mutant: a failed modify is made good by a second order at the new price. *)
SubmitAtOnce == "resubmit"

AfterModifyFails == "cancel"

Modify ==
  /\ check = "modify"
  /\ \/ CallSucceeds /\ Accepts /\ check' = "turn"
     \/ CallSucceeds /\ Refuses /\ check' = AfterModifyFails
     \/ CallFails /\ check' = AfterModifyFails
  /\ UNCHANGED <<order, clock, subs, polling>>

CancelToReplace ==
  /\ check = "cancel"
  /\ \/ CallSucceeds /\ Accepts /\ RequestCancel /\ check' = "resubmit"
     \/ CallSucceeds /\ Refuses /\ UNCHANGED subs /\ check' = "turn"
     \/ CallFails /\ UNCHANGED subs /\ check' = "turn"
  /\ UNCHANGED <<order, clock, polling>>

(* The same Order object is submitted as a limit order, whatever has become *)
(* of the submission before, and made a smart one again; that is left out   *)
(* when submit_order raises.  A refusal by the brokerage goes to the stream.*)
Tell(what) == news' = Append(news, what)

Resubmit ==
  /\ check = "resubmit"
  /\ \/ /\ CallSucceeds /\ Tell("new")
        /\ subs' = Append(subs, "working")
        /\ order' = [order EXCEPT !.status = "active", !.id = Len(subs'), !.fresh = TRUE]
     \/ CallFails /\ Tell("error") /\ UNCHANGED <<subs, order>>
     \/ CallFails /\ order' = [order EXCEPT !.smart = FALSE] /\ UNCHANGED <<subs, news>>
  /\ check' = "turn"
  /\ UNCHANGED <<clock, stream, misled>>

(* check_queue stops for good: an event's handler raises, or it waits in    *)
(* get for an event that the iteration's thread has taken (Executor).       *)
Stop ==
  /\ check = "turn"
  /\ check' = "stopped"
  /\ UNCHANGED <<order, clock, subs, polling, failures>>

(* The strategy cancels its order in an iteration.                          *)
StrategyCancels ==
  /\ Active /\ Accepts /\ RequestCancel
  /\ UNCHANGED <<program, polling, failures>>
-----------------------------------------------------------------------------
(* The stream's thread.  When its queue is empty it polls: it fetches the   *)
(* rows of all submissions and then takes the one that has the object's     *)
(* identifier for the object's.  (Rows of no order get objects of their     *)
(* own, which no ladder reprices.)                                          *)
Fetch ==
  /\ stream.pc = "idle" /\ news = <<>>
  /\ stream' = [pc |-> "fetched", rows |-> subs, mine |-> NoRow]
  /\ UNCHANGED <<program, subs, news, misled, failures>>

Match ==
  /\ stream.pc = "fetched"
  /\ stream' = [stream EXCEPT !.pc = "matched",
       !.mine = IF order.id \in DOMAIN stream.rows THEN order.id ELSE NoRow]
  /\ UNCHANGED <<program, subs, news, misled, failures>>

(* A difference in status is told; without one the row's is written, which  *)
(* matters when it is an end.                                               *)
Status == IF stream.rows[stream.mine] \in Ends THEN stream.rows[stream.mine] ELSE "active"

Compare ==
  /\ stream.pc = "matched"
  /\ \/ /\ stream.mine = NoRow
        /\ stream' = [stream EXCEPT !.pc = "compared"] /\ UNCHANGED news
     \/ /\ stream.mine # NoRow /\ order.status # Status
        /\ stream' = [stream EXCEPT !.pc = "compared"]
        /\ Tell(IF Status = "active" THEN "new" ELSE Status)
     \/ /\ stream.mine # NoRow /\ order.status = Status
        /\ stream' = [stream EXCEPT !.pc = "write"] /\ UNCHANGED news
  /\ UNCHANGED <<program, subs, misled, failures>>

(* What the object is told or written when it is another submission by now. *)
Misleads(status) == misled' = (misled \/ (status # "active" /\ order.id \in Working))

WriteStatus ==
  /\ stream.pc = "write"
  /\ order' = [order EXCEPT !.status = Status] /\ Misleads(Status)
  /\ stream' = [stream EXCEPT !.pc = "compared"]
  /\ UNCHANGED <<check, clock, subs, news, failures>>

(* An active order whose identifier is in no row is taken to be canceled.   *)
Absent ==
  /\ stream.pc = "compared"
  /\ IF Active /\ order.id \notin DOMAIN stream.rows THEN Tell("canceled") ELSE UNCHANGED news
  /\ stream' = [pc |-> "idle", rows |-> <<>>, mine |-> NoRow]
  /\ UNCHANGED <<program, subs, misled, failures>>

(* The handlers look at the identifier no more: a new order becomes active  *)
(* while it is unprocessed, and an end ends the object whatever it is now   *)
(* (an error removes it from no list when it is over).                      *)
HandleNew ==
  /\ stream.pc = "idle" /\ news # <<>> /\ Head(news) = "new"
  /\ order' = IF order.fresh THEN [order EXCEPT !.status = "active", !.fresh = FALSE] ELSE order
  /\ news' = Tail(news)
  /\ UNCHANGED <<check, clock, subs, stream, misled, failures>>

HandleEnd ==
  /\ stream.pc = "idle" /\ news # <<>> /\ Head(news) # "new"
  /\ order' = [order EXCEPT !.status = Head(news),
                            !.fresh = order.fresh /\ Head(news) = "error" /\ ~Active]
  /\ Misleads(Head(news))
  /\ news' = Tail(news)
  /\ UNCHANGED <<check, clock, subs, stream, failures>>
-----------------------------------------------------------------------------
(* Time, and the brokerage: external.                                       *)
Tick ==
  /\ clock < Steps
  /\ clock' = clock + 1
  /\ UNCHANGED <<order, check, subs, polling, failures>>

ExecuteOrder(n) ==
  /\ n \in Live
  /\ subs' = [subs EXCEPT ![n] = "filled"]
  /\ UNCHANGED <<program, polling, failures>>

CancelTakesEffect(n) ==
  /\ subs[n] = "canceling"
  /\ subs' = [subs EXCEPT ![n] = "canceled"]
  /\ UNCHANGED <<program, polling, failures>>
-----------------------------------------------------------------------------
SmartNext ==
  \/ FinalCancel
  \/ NewStep
  \/ Modify
  \/ CancelToReplace
  \/ Resubmit
  \/ Stop
  \/ StrategyCancels
  \/ Fetch
  \/ Match
  \/ Compare
  \/ WriteStatus
  \/ Absent
  \/ HandleNew
  \/ HandleEnd
  \/ Tick
  \/ \E n \in DOMAIN subs : ExecuteOrder(n)
  \/ \E n \in DOMAIN subs : CancelTakesEffect(n)

SmartSpec == SmartInit /\ [][SmartNext]_smartVars

(* check_queue and the stream run, time passes, and a cancel that the       *)
(* brokerage has accepted takes effect unless the fill comes first.         *)
CheckRuns == FinalCancel \/ NewStep \/ Modify \/ CancelToReplace \/ Resubmit
StreamRuns == Fetch \/ Match \/ Compare \/ WriteStatus \/ Absent \/ HandleNew \/ HandleEnd
FairSmartSpec ==
  /\ SmartSpec
  /\ WF_smartVars(CheckRuns) /\ WF_smartVars(StreamRuns) /\ WF_smartVars(Tick)
  /\ WF_smartVars(\E n \in DOMAIN subs : CancelTakesEffect(n))
-----------------------------------------------------------------------------
(* The order has one submission at work that was not asked to cancel,       *)
(* however modify, cancel and resubmit cross with fills, refusals, the      *)
(* strategy's cancels and the poll: unless the stream has ended the object  *)
(* while its submission worked, for then the cancel before a replacement is *)
(* not sent.                                                                *)
OneWorking == ~misled => \A m, n \in Working : m = n

(* That takes a replacement: an order never replaced is not misjudged by    *)
(* rows that are old or by news that is late.                               *)
FirstIsNotMisled == misled => Len(subs) > 1

(* After the ladder the order is over and so are all its submissions,       *)
(* unless check_queue has stopped or the object was ended like that.        *)
SmartLimitEnds == <>misled \/ <>(check = "stopped") \/ <>[](Live = {} /\ ~Active)

(* As the design has it, that the same logical order is repriced            *)
(* (docs/investigations/2025-12-30_SMART_LIMIT_ORDER_DESIGN.md:93).         *)
ExecutedOnce == \A m, n \in DOMAIN subs : subs[m] = "filled" /\ subs[n] = "filled" => m = n
NeverMisled == ~misled
=============================================================================
