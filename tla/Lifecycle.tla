------------------------------ MODULE Lifecycle ------------------------------
(* The life of one strategy in live trading on a market with hours: the      *)
(* executor's thread (strategies/strategy_executor.py, run and               *)
(* _run_trading_session), which sleeps until the market opens, creates the   *)
(* scheduler and then calls the daily methods once a second by the clock;    *)
(* the scheduler's thread, which calls on_trading_iteration; the Trader's    *)
(* main thread (traders/trader.py), which stops it all; and what each of     *)
(* the three does after an exception of the strategy: on_bot_crash and       *)
(* gracefully_exit.  Market hours are those of Broker.market_hours; the      *)
(* scheduler (APScheduler) and the clock are external.                       *)
EXTENDS Naturals, FiniteSets

CONSTANTS Days,        \* bound: trading days
          Schedulers,  \* bound: schedulers ever created
          MaxCrashes   \* bound: exceptions of the strategy's methods

None == "none"
Exec == "executor"
Main == "main"
Actors == Schedulers \cup {Exec, Main}
ASSUME LifecycleAssumption ==
  /\ Days \in Nat \ {0} /\ MaxCrashes \in Nat
  /\ IsFiniteSet(Schedulers) /\ Cardinality(Schedulers) >= MaxCrashes + 3
  /\ Schedulers \cap {None, Exec, Main} = {}

(* From UTC midnight, when market_hours turns to the next session, to the   *)
(* next: before minutes_before_opening, before the opening, before          *)
(* minutes_before_closing, before the close, and after it.                  *)
Phases == <<"night", "preopen", "open", "last", "closed">>
Methods == {"before_market_opens", "before_starting_trading",
            "before_market_closes", "after_market_closes"}

VARIABLES
  day, phase,   \* the clock
  pc,           \* where each thread is
  call,         \* the daily method the executor's thread is in: [m, next, kept]
  lastDate,     \* lifecycle_last_date: per method, the day it is recorded for
  stopNow,      \* _run_trading_session's should_we_stop
  scheduler,    \* executor.scheduler
  sched,        \* per scheduler: is it running, has it the job OTIM
  joined,       \* per thread: the scheduler whose shutdown it waits for
  checker,      \* does the check_queue thread run
  stopped,      \* stop_event
  due,          \* schedulers that have not fired since the market opened
  done,         \* history: per method, completed calls today, up to 2
  traded,       \* history: the last day with a call of on_trading_iteration
  crashes,
  overlaps      \* history: exceptions raised while another was handled
clock == <<day, phase, due>>
history == <<done, traded, overlaps>>
session == <<call, lastDate, stopNow>>
jobs == <<scheduler, sched, joined>>
vars == <<clock, pc, session, jobs, checker, stopped, history, crashes>>

At(a, place) == pc[a] = place
GoTo(a, place) == pc' = [pc EXCEPT ![a] = place]
IsMarketOpen == phase \in {"open", "last"}
Live(s) == sched[s].running /\ sched[s].job
Handling == {"handler", "exit", "remove", "shutdown", "join", "forget", "close"}

TypeOK ==
  /\ At(Exec, "in") => call.m \in Methods
  /\ scheduler \in Schedulers => pc[scheduler] # "unborn"
  /\ \A s \in Schedulers : Live(s) => pc[s] # "unborn"
  /\ \A m \in Methods : lastDate[m] <= day /\ done[m] \in 0..2

Init ==
  /\ day = 1 /\ phase \in {Phases[i] : i \in DOMAIN Phases} /\ due = {}
  /\ pc = [a \in Actors |-> CASE a = Exec -> "session" [] a = Main -> "idle"
                              [] OTHER -> "unborn"]
  /\ call = [m |-> None, next |-> None, kept |-> FALSE]
  /\ lastDate = [m \in Methods |-> 0] /\ stopNow = FALSE
  /\ scheduler = None /\ joined = [a \in Actors |-> None]
  /\ sched = [s \in Schedulers |-> [running |-> FALSE, job |-> FALSE]]
  /\ checker = FALSE /\ stopped = FALSE
  /\ done = [m \in Methods |-> 0] /\ traded = 0 /\ crashes = 0 /\ overlaps = 0
-----------------------------------------------------------------------------
(* The executor's thread: the daily methods.  A call goes through the       *)
(* decorator lifecycle_method, which tests stop_event before it, and goes   *)
(* on at "next"; the day is then recorded where the code records it.        *)
Call(m, next, kept) ==
  /\ GoTo(Exec, "due")
  /\ call' = [m |-> m, next |-> next, kept |-> kept]

Recorded == IF call.kept THEN [lastDate EXCEPT ![call.m] = day] ELSE lastDate

Enter ==
  /\ At(Exec, "due")
  /\ GoTo(Exec, IF stopped THEN call.next ELSE "in")
  /\ lastDate' = IF stopped THEN Recorded ELSE lastDate
  /\ UNCHANGED <<clock, call, stopNow, jobs, checker, stopped, history, crashes>>

Return ==
  /\ At(Exec, "in")
  /\ GoTo(Exec, call.next)
  /\ lastDate' = Recorded
  /\ done' = [done EXCEPT ![call.m] = IF @ = 2 THEN 2 ELSE @ + 1]
  /\ UNCHANGED <<clock, call, stopNow, jobs, checker, stopped, traded, overlaps, crashes>>

(* run: one session after the other, until stop.                            *)
StartSession ==
  /\ At(Exec, "session")
  /\ GoTo(Exec, IF stopped THEN "ended" ELSE "await_preopen")
  /\ UNCHANGED <<clock, session, jobs, checker, stopped, history, crashes>>

(* _setup_market_session: sleep until minutes_before_opening, in an open    *)
(* market not at all; sleep until it opens; start trading.                  *)
WakeBeforeOpen ==
  /\ At(Exec, "await_preopen") /\ phase \in {"preopen", "open", "last"}
  /\ IF IsMarketOpen
     THEN GoTo(Exec, "await_open") /\ call' = call
     ELSE Call("before_market_opens", "await_open", TRUE)
  /\ UNCHANGED <<clock, lastDate, stopNow, jobs, checker, stopped, history, crashes>>

WakeAtOpen ==
  /\ At(Exec, "await_open") /\ IsMarketOpen
  /\ Call("before_starting_trading", "schedule", FALSE)
  /\ UNCHANGED <<clock, lastDate, stopNow, jobs, checker, stopped, history, crashes>>

(* _setup_live_trading_scheduler, then the thread goes on at "next".  A     *)
(* scheduler that another thread is shutting down gets the job but cannot   *)
(* fire any more.                                                           *)
NewScheduler == CHOOSE s \in Schedulers : At(s, "unborn")

SetUpScheduler(next) ==
  LET s == IF scheduler = None THEN NewScheduler ELSE scheduler IN
  /\ scheduler' = s
  /\ sched' = [sched EXCEPT ![s] = [running |-> scheduler = None \/ @.running, job |-> TRUE]]
  /\ pc' = [pc EXCEPT ![Exec] = next, ![s] = IF @ = "unborn" THEN "idle" ELSE @]
  /\ due' = due \cup {s}

(* should_we_stop is computed here and not again; get_time_to_close of a    *)
(* closed market is 0.                                                      *)
Schedule ==
  /\ At(Exec, "schedule")
  /\ SetUpScheduler("loop")
  /\ stopNow' = (phase # "open")
  /\ checker' = TRUE
  /\ UNCHANGED <<day, phase, call, lastDate, joined, stopped, history, crashes>>

(* The loop: the scheduler is created again if it is gone, before anything  *)
(* is tested.                                                               *)
Recreate ==
  /\ At(Exec, "loop") /\ scheduler = None
  /\ SetUpScheduler("jobs")
  /\ UNCHANGED <<day, phase, session, joined, checker, stopped, history, crashes>>

(* _should_continue_trading_loop and _handle_lifecycle_methods              *)
(* Mutant: stop_event is not looked at.                                     *)
KeepTradingOn == scheduler # None /\ sched[scheduler].job /\ ~stopNow

KeepTrading == scheduler # None /\ sched[scheduler].job /\ ~stopped /\ ~stopNow

MethodsNow ==
  CASE phase = "closed" /\ lastDate["after_market_closes"] # day -> {"after_market_closes"}
    [] phase \in {"last", "closed"} /\ lastDate["before_market_closes"] # day ->
         {"before_market_closes"}
    [] phase \in {"preopen", "open", "last", "closed"} /\ lastDate["before_market_opens"] # day ->
         {"before_market_opens"}
    [] OTHER -> {}

Look ==
  /\ At(Exec, "jobs") \/ (At(Exec, "loop") /\ scheduler # None)
  /\ CASE ~KeepTrading -> GoTo(Exec, "await_last") /\ call' = call
       [] KeepTrading /\ MethodsNow = {} -> GoTo(Exec, "loop") /\ call' = call
       [] OTHER -> \E m \in MethodsNow : Call(m, "loop", TRUE)
  /\ UNCHANGED <<clock, lastDate, stopNow, jobs, checker, stopped, history, crashes>>

(* After the loop: the two closing methods, neither of them recorded.       *)
WakeBeforeClose ==
  /\ At(Exec, "await_last") /\ phase # "open"
  /\ IF IsMarketOpen
     THEN Call("before_market_closes", "await_close", FALSE)
     ELSE GoTo(Exec, "await_close") /\ call' = call
  /\ UNCHANGED <<clock, lastDate, stopNow, jobs, checker, stopped, history, crashes>>

WakeAtClose ==
  /\ At(Exec, "await_close") /\ ~IsMarketOpen
  /\ Call("after_market_closes", "session", FALSE)
  /\ UNCHANGED <<clock, lastDate, stopNow, jobs, checker, stopped, history, crashes>>
-----------------------------------------------------------------------------
(* The scheduler's thread: _on_trading_iteration, one at a time of a job.   *)
Fire(s) ==
  /\ At(s, "idle") /\ Live(s)
  /\ GoTo(s, IF stopped THEN "idle" ELSE "sync")
  /\ due' = due \ {s}
  /\ UNCHANGED <<day, phase, session, jobs, checker, stopped, history, crashes>>

(* sync_broker; then on_trading_iteration is called if the market is open.  *)
Iterate(s) ==
  /\ At(s, "sync")
  /\ GoTo(s, IF IsMarketOpen THEN "user" ELSE "idle")
  /\ traded' = IF IsMarketOpen THEN day ELSE traded
  /\ UNCHANGED <<clock, session, jobs, checker, stopped, done, overlaps, crashes>>

IterationEnds(s) ==
  /\ At(s, "user")
  /\ GoTo(s, "idle")
  /\ UNCHANGED <<clock, session, jobs, checker, stopped, history, crashes>>
-----------------------------------------------------------------------------
(* A method of the strategy raises: on_bot_crash, unless it was stopped.    *)
(* Mutant: a crash ends the executor's thread.                              *)
AfterEnding(a) == CASE a = Exec -> "ended" [] a = Main -> "done" [] OTHER -> "idle"

After(a) == CASE a = Exec -> "session" [] a = Main -> "done" [] OTHER -> "idle"

Raise(a) ==
  /\ a # Main /\ pc[a] \in {"in", "user"}
  /\ crashes < MaxCrashes /\ crashes' = crashes + 1
  /\ overlaps' = IF \E b \in Actors \ {Main} : pc[b] \in Handling
                 THEN overlaps + 1 ELSE overlaps
  /\ GoTo(a, IF stopped THEN After(a) ELSE "handler")
  /\ UNCHANGED <<clock, session, jobs, checker, stopped, done, traded>>

(* Trader._stop_pool and StrategyExecutor.stop: once, on_abrupt_closing.    *)
Stop ==
  /\ At(Main, "idle")
  /\ stopped' = TRUE
  /\ GoTo(Main, "handler")
  /\ UNCHANGED <<clock, session, jobs, checker, history, crashes>>

(* on_bot_crash and on_abrupt_closing return, or raise in their turn.       *)
Handled(a) ==
  /\ At(a, "handler")
  /\ GoTo(a, "exit")
  /\ UNCHANGED <<clock, session, jobs, checker, stopped, history, crashes>>

HandlerRaises(a) ==
  /\ At(a, "handler")
  /\ crashes < MaxCrashes /\ crashes' = crashes + 1
  /\ GoTo(a, IF a = Main THEN "failed" ELSE After(a))
  /\ UNCHANGED <<clock, session, jobs, checker, stopped, history>>

(* gracefully_exit, which reads executor.scheduler anew in every step.  The *)
(* thread of a scheduler that shuts it down cannot wait for itself: that is *)
(* an error, which is caught like that of a scheduler gone in between.      *)
Exit(a) ==
  /\ At(a, "exit")
  /\ GoTo(a, CASE scheduler = None -> "close"
               [] scheduler # None /\ sched[scheduler].running -> "remove"
               [] OTHER -> "forget")
  /\ UNCHANGED <<clock, session, jobs, checker, stopped, history, crashes>>

RemoveJobs(a) ==
  /\ At(a, "remove")
  /\ IF scheduler = None
     THEN GoTo(a, "forget") /\ sched' = sched
     ELSE GoTo(a, "shutdown") /\ sched' = [sched EXCEPT ![scheduler].job = FALSE]
  /\ UNCHANGED <<clock, session, scheduler, joined, checker, stopped, history, crashes>>

(* Mutant: shutdown(wait=False).                                            *)
ShutdownAtOnce(a) ==
  /\ At(a, "shutdown")
  /\ GoTo(a, "forget")
  /\ sched' = IF scheduler = None THEN sched ELSE [sched EXCEPT ![scheduler].running = FALSE]
  /\ UNCHANGED <<clock, session, scheduler, joined, checker, stopped, history, crashes>>

Shutdown(a) ==
  /\ At(a, "shutdown")
  /\ IF scheduler = None \/ (scheduler # None /\ ~sched[scheduler].running)
     THEN GoTo(a, "forget") /\ UNCHANGED <<sched, joined>>
     ELSE /\ sched' = [sched EXCEPT ![scheduler].running = FALSE]
          /\ GoTo(a, IF a = scheduler THEN "forget" ELSE "join")
          /\ joined' = [joined EXCEPT ![a] = scheduler]
  /\ UNCHANGED <<clock, session, scheduler, checker, stopped, history, crashes>>

Join(a) ==
  /\ At(a, "join") /\ At(joined[a], "idle")
  /\ GoTo(a, "forget")
  /\ UNCHANGED <<clock, session, jobs, checker, stopped, history, crashes>>

Forget(a) ==
  /\ At(a, "forget")
  /\ scheduler' = None
  /\ GoTo(a, "close")
  /\ UNCHANGED <<clock, session, sched, joined, checker, stopped, history, crashes>>

Close(a) ==
  /\ At(a, "close")
  /\ checker' = FALSE
  /\ GoTo(a, After(a))
  /\ UNCHANGED <<clock, session, jobs, stopped, history, crashes>>
-----------------------------------------------------------------------------
(* Time goes by when every thread waits for it: no method but               *)
(* before_market_closes and on_trading_iteration runs over the end of a     *)
(* phase, and a strategy's job fires between the opening and the close.     *)
Joins(a) == At(a, "join") /\ ~At(joined[a], "idle")

Sleeps ==
  CASE At(Exec, "await_preopen") -> phase \in {"night", "closed"}
    [] At(Exec, "await_open") -> ~IsMarketOpen
    [] At(Exec, "await_last") -> phase = "open"
    [] At(Exec, "await_close") -> IsMarketOpen
    [] At(Exec, "loop") -> KeepTrading /\ MethodsNow = {}
    [] At(Exec, "in") -> call.m = "before_market_closes" /\ phase = "last"
    [] OTHER -> Joins(Exec) \/ At(Exec, "ended")

Tick ==
  /\ Sleeps /\ (Joins(Main) \/ pc[Main] \in {"idle", "done", "failed"})
  /\ \A s \in Schedulers :
       /\ pc[s] \in {"unborn", "idle"} \/ (At(s, "user") /\ IsMarketOpen)
       /\ phase = "open" /\ s \in due /\ At(s, "idle") => ~Live(s)
  /\ phase = "closed" => day < Days
  /\ LET i == CHOOSE n \in DOMAIN Phases : Phases[n] = phase IN
       phase' = Phases[(i % 5) + 1]
  /\ day' = IF phase = "closed" THEN day + 1 ELSE day
  /\ due' = IF phase = "preopen" THEN Schedulers ELSE {}
  /\ done' = IF phase = "closed" THEN [m \in Methods |-> 0] ELSE done
  /\ UNCHANGED <<pc, session, jobs, checker, stopped, traded, overlaps, crashes>>

ExecStep == \/ Enter \/ Return \/ StartSession \/ WakeBeforeOpen \/ WakeAtOpen
            \/ Schedule \/ Recreate \/ Look \/ WakeBeforeClose \/ WakeAtClose
ExitStep(a) == \/ Handled(a) \/ Exit(a) \/ RemoveJobs(a) \/ Shutdown(a)
               \/ Join(a) \/ Forget(a) \/ Close(a)
JobStep(s) == Fire(s) \/ Iterate(s) \/ IterationEnds(s)

Next ==
  \/ ExecStep
  \/ \E s \in Schedulers : JobStep(s)
  \/ \E a \in Actors : Raise(a) \/ HandlerRaises(a) \/ ExitStep(a)
  \/ Stop
  \/ Tick

(* Every thread goes on, the strategy's methods end, and time passes.       *)
Fairness ==
  /\ WF_vars(ExecStep) /\ WF_vars(Tick)
  /\ \A s \in Schedulers : WF_vars(JobStep(s))
  /\ \A a \in Actors : WF_vars(ExitStep(a))

Spec == Init /\ [][Next]_vars
FairSpec == Spec /\ Fairness
-----------------------------------------------------------------------------
InUser(s) == At(s, "user")
InMethod(m) == At(Exec, "in") /\ call.m = m

(* A trading iteration runs alone, after crashes of either thread and a     *)
(* stop as well (gracefully_exit waits for it): only where a method raised  *)
(* while another exception was handled one more may run, of a scheduler     *)
(* that gracefully_exit forgot without having shut it down.                 *)
Alone == Cardinality({s \in Schedulers : InUser(s)}) <= 1 + overlaps

(* A strategy that is not stopped trades on every day it saw from its       *)
(* start, whatever crashed on it or the day before: the loop makes the      *)
(* scheduler again, or the next session does.                               *)
TradesEachDay == phase = "closed" /\ day > 1 /\ ~stopped => traded = day

(* before_market_opens completes at most once a day, though both the        *)
(* session's set-up and the loop call it, each once again after a crash.    *)
OpensOnce == done["before_market_opens"] <= 1

(* When stop() has returned in order and the executor's thread has ended,   *)
(* the strategy's trading iteration does not run any more, but for what     *)
(* exceptions handled at once have left behind.                             *)
NothingAfterEnd ==
  At(Exec, "ended") /\ At(Main, "done") =>
    Cardinality({s \in Schedulers : InUser(s)}) <= overlaps

(* A strategy that is stopped ends, though its thread may sleep through the *)
(* next session first.                                                      *)
StopEnds == stopped /\ day < Days ~> At(Exec, "ended")

(* What is said of the code and what it does not do (no run checks these):  *)
(* the queue is checked as long as the strategy trades;                     *)
CheckerRuns == At(Exec, "loop") /\ scheduler # None /\ KeepTrading => checker
(* before_starting_trading resets what is daily, on each day of trading;    *)
StartsEachDay ==
  \A s \in Schedulers : InUser(s) => done["before_starting_trading"] > 0
(* before_market_opens is skipped on the day when the market was open;      *)
OpensBeforeOpen == InMethod("before_market_opens") => ~IsMarketOpen
(* after_market_closes comes after the last trading iteration;              *)
ClosedAfterLast == InMethod("after_market_closes") => \A s \in Schedulers : ~InUser(s)
(* and the closing methods are called once a day.                           *)
ClosesOnce == done["before_market_closes"] <= 1 /\ done["after_market_closes"] <= 1
=============================================================================
