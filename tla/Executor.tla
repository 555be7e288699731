------------------------------- MODULE Executor -------------------------------
(* StrategyExecutor in live trading (strategies/strategy_executor.py): the   *)
(* queue of trade events and the two threads that drain it, check_queue and  *)
(* that of the trading iteration (the other lifecycle methods drain it in    *)
(* the same way, once a day), and the strategy's cash, written by the        *)
(* handlers of fills and by the synchronisation.  What check_queue does      *)
(* besides, the ladder of smart-limit orders, is SmartLimit's.               *)
EXTENDS Integers, Sequences

CONSTANTS MaxFills,    \* bound: fills
          MaxCancels,  \* bound: cancels
          MaxFaults    \* bound: calls that fail and handlers that raise
ASSUME ExecutorAssumption == MaxFills \in Nat /\ MaxCancels \in Nat /\ MaxFaults \in Nat

Threads == {"check", "iteration"}
Nobody == "nobody"

VARIABLES
  queue,    \* events put and not taken: n for the n-th fill, -n for the n-th cancel
  thr,      \* per thread: its place, where it goes from an empty queue, the
            \* event it holds and the cash it read
  lock,     \* executor.lock: the thread that holds it, or Nobody
  first,    \* strategy._first_iteration
  cash,     \* the strategy's cash, in fills, as the program has it
  account,  \* and as the brokerage has it
  fills,    \* fills that the stream has told so far
  cancels,  \* cancels that the stream has told so far
  faults
events == <<queue, thr, lock, first, cash>>
broker == <<account, fills, cancels>>
vars == <<events, broker, faults>>

At(t, place) == thr[t].pc = place
GoTo(t, place) == thr' = [thr EXCEPT ![t].pc = place]
Fault == faults < MaxFaults /\ faults' = faults + 1

TypeOK ==
  /\ \A t \in Threads : At(t, "write") => lock = t
  /\ lock \in Threads => At(lock, "write")
  /\ fills <= -account /\ -account <= MaxFills
  /\ \A i \in DOMAIN queue : queue[i] \in (-cancels..fills) \ {0}

Init ==
  /\ queue = <<>> /\ lock = Nobody /\ first = TRUE
  /\ thr = [t \in Threads |-> [pc |-> "idle", next |-> "idle", ev |-> 0, read |-> 0]]
  /\ cash = 0 /\ account = 0 /\ fills = 0 /\ cancels = 0 /\ faults = 0
-----------------------------------------------------------------------------
(* process_queue: empty() and get() are separate, and get() waits.          *)
Drain(t) ==
  /\ At(t, "drain")
  /\ GoTo(t, IF queue # <<>> THEN "get" ELSE thr[t].next)
  /\ UNCHANGED <<queue, lock, first, cash, broker, faults>>

Get(t) ==
  /\ At(t, "get") /\ queue # <<>>
  /\ thr' = [thr EXCEPT ![t].pc = "handle", ![t].ev = Head(queue)]
  /\ queue' = Tail(queue)
  /\ UNCHANGED <<lock, first, cash, broker, faults>>

(* process_event: before the end of the first iteration events are skipped; *)
(* a fill takes executor.lock around _update_cash, a cancel does not.       *)
IsFill(ev) == ev > 0

Handle(t) ==
  /\ At(t, "handle") /\ (first \/ ~IsFill(thr[t].ev))
  /\ thr' = [thr EXCEPT ![t].pc = "drain", ![t].ev = 0]
  /\ UNCHANGED <<queue, lock, first, cash, broker, faults>>

ReadCash(t) ==
  /\ At(t, "handle") /\ ~first /\ IsFill(thr[t].ev) /\ lock = Nobody
  /\ lock' = t
  /\ thr' = [thr EXCEPT ![t].pc = "write", ![t].read = cash]
  /\ UNCHANGED <<queue, first, cash, broker, faults>>

(* Mutant: the lock is not given back.                                      *)
Keep(t) == lock' = t

Unlock(t) == lock' = Nobody

WriteCash(t) ==
  /\ At(t, "write")
  /\ cash' = thr[t].read - 1
  /\ Unlock(t)
  /\ thr' = [thr EXCEPT ![t].pc = "drain", ![t].ev = 0, ![t].read = 0]
  /\ UNCHANGED <<queue, first, broker, faults>>

(* The strategy's on_filled_order raises: check_queue, which expects only   *)
(* Empty, ends with it.                                                     *)
HandlerRaises ==
  /\ At("check", "write") /\ Fault
  /\ cash' = thr["check"].read - 1
  /\ Unlock("check")
  /\ thr' = [thr EXCEPT !["check"].pc = "dead", !["check"].ev = 0, !["check"].read = 0]
  /\ UNCHANGED <<queue, first, broker>>

(* A turn of check_queue or of the iteration.                               *)
Begin(t) ==
  /\ At(t, "idle")
  /\ thr' = [thr EXCEPT ![t].pc = "drain", ![t].next =
               IF t = "check" THEN "idle" ELSE "balance"]
  /\ UNCHANGED <<queue, lock, first, cash, broker, faults>>

(* The iteration: drained before, it reads the balance at the brokerage,    *)
(* sets the cash without the lock, runs the strategy and drains again.      *)
ReadBalance ==
  /\ At("iteration", "balance")
  /\ thr' = [thr EXCEPT !["iteration"].pc = "sync", !["iteration"].read = account]
  /\ UNCHANGED <<queue, lock, first, cash, broker, faults>>

(* Mutant: the balance that was read is not taken over.                     *)
KeepCash(balance) == cash' = cash

SetCash(balance) == cash' = balance

SyncCash ==
  /\ At("iteration", "sync")
  /\ SetCash(thr["iteration"].read)
  /\ thr' = [thr EXCEPT !["iteration"].pc = "strategy", !["iteration"].read = 0]
  /\ UNCHANGED <<queue, lock, first, broker, faults>>

(* After the last retry the cash stays as it was.                           *)
SyncFails ==
  /\ At("iteration", "balance") /\ Fault
  /\ GoTo("iteration", "strategy")
  /\ UNCHANGED <<queue, lock, first, cash, broker>>

EndIteration ==
  /\ At("iteration", "strategy")
  /\ first' = FALSE
  /\ thr' = [thr EXCEPT !["iteration"].pc = "drain", !["iteration"].next = "idle"]
  /\ UNCHANGED <<queue, lock, cash, broker, faults>>
-----------------------------------------------------------------------------
(* The brokerage executes orders, and the stream tells it later.            *)
Execute ==
  /\ account > -MaxFills
  /\ account' = account - 1
  /\ UNCHANGED <<events, fills, cancels, faults>>

TellFill ==
  /\ fills < -account
  /\ fills' = fills + 1
  /\ queue' = Append(queue, fills')
  /\ UNCHANGED <<thr, lock, first, cash, account, cancels, faults>>

TellCancel ==
  /\ cancels < MaxCancels
  /\ cancels' = cancels + 1
  /\ queue' = Append(queue, -cancels')
  /\ UNCHANGED <<thr, lock, first, cash, account, fills, faults>>
-----------------------------------------------------------------------------
Next ==
  \/ \E t \in Threads : Drain(t)
  \/ \E t \in Threads : Get(t)
  \/ \E t \in Threads : Handle(t)
  \/ \E t \in Threads : ReadCash(t)
  \/ \E t \in Threads : WriteCash(t)
  \/ \E t \in Threads : Begin(t)
  \/ HandlerRaises
  \/ ReadBalance
  \/ SyncCash
  \/ SyncFails
  \/ EndIteration
  \/ Execute
  \/ TellFill
  \/ TellCancel

Spec == Init /\ [][Next]_vars

(* Threads run and are started again by their loop or by the scheduler, a   *)
(* thread that wants the lock gets it in the end, and the stream tells what *)
(* was executed.                                                            *)
Runs(t) == Drain(t) \/ Get(t) \/ Handle(t) \/ WriteCash(t) \/ Begin(t)
IterationRuns == ReadBalance \/ SyncCash \/ EndIteration
FairSpec == /\ Spec
            /\ \A t \in Threads : WF_vars(Runs(t)) /\ SF_vars(ReadCash(t))
            /\ WF_vars(IterationRuns) /\ WF_vars(TellFill)
-----------------------------------------------------------------------------
(* An event that is put is taken by some thread and handled or skipped,     *)
(* though threads wait in get, fight for the lock and may die.              *)
EventsHandled == \A e \in (-MaxCancels..MaxFills) \ {0} :
  (\E i \in DOMAIN queue : queue[i] = e) ~>
    /\ \A i \in DOMAIN queue : queue[i] # e
    /\ \A t \in Threads : thr[t].ev # e

(* Fills end, and then the cash agrees with the account again, although a   *)
(* fill may be in the balance and be subtracted once more, and although the *)
(* synchronisation and the handlers overwrite each other: unless the        *)
(* iteration waits in get for an event that another thread has taken.       *)
Waits(t) == At(t, "get") /\ queue = <<>>
CashIsCorrected == <>[]Waits("iteration") \/ <>[](cash = account)

(* As the documentation has it: the iteration runs again and again.         *)
IterationRepeats == []<>At("iteration", "strategy")
=============================================================================
