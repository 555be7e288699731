------------------------------ MODULE LazyEvent ------------------------------
(***************************************************************************)
(* The event an order's waiters block on (lumibot/entities/order.py,       *)
(* class _LazyEvent).  A real threading.Event is allocated by the first    *)
(* waiter only; set() raises a plain flag and then looks for a real event. *)
(*                                                                         *)
(* set() is called without a lock by the thread that handles a trade event *)
(* (the stream thread, or the executor while it drains held events), and   *)
(* wait() by a strategy thread, so the grain here is one action per access *)
(* of a shared attribute: the interpreter may switch threads between any   *)
(* two of them.  clear() has no caller in the repository and is left out.  *)
(***************************************************************************)

CONSTANTS Setters,      \* threads that call set() once
          Waiters,      \* threads that call wait() once, without timeout
          None          \* Python's None

ASSUME ThreadsAssumption == /\ Setters \cap Waiters = {}
                            /\ None \notin Waiters

VARIABLES flag,         \* self._flag
          event,        \* self._event: None, or the waiter that allocated it
          isSet,        \* isSet[w]: the internal flag of the Event w allocated
          lock,         \* holder of _LAZY_EVENT_LOCK, or None
          local,        \* local[t]: the local variable `event' of thread t
          at            \* at[t]: the next statement of thread t

eventVars == <<flag, event, isSet, lock, local, at>>

Threads == Setters \cup Waiters

SetterPC == {"set", "look", "fire", "done"}
WaiterPC == {"check", "read", "acquire", "reread", "allocate", "recheck",
             "publish", "block", "done"}

EventInit == /\ flag = FALSE
             /\ event = None
             /\ isSet = [w \in Waiters |-> FALSE]
             /\ lock = None
             /\ local = [t \in Threads |-> None]
             /\ at = [t \in Threads |-> IF t \in Setters THEN "set" ELSE "check"]

Goto(t, from, to) == at[t] = from /\ at' = [at EXCEPT ![t] = to]

-----------------------------------------------------------------------------
(* set() *)

RaiseFlag(s) == /\ Goto(s, "set", "look")
                /\ flag' = TRUE
                /\ UNCHANGED <<event, isSet, lock, local>>

LookForEvent(s) == /\ Goto(s, "look", IF event = None THEN "done" ELSE "fire")
                   /\ local' = [local EXCEPT ![s] = event]
                   /\ UNCHANGED <<flag, event, isSet, lock>>

FireEvent(s) == /\ Goto(s, "fire", "done")
                /\ isSet' = [isSet EXCEPT ![local[s]] = TRUE]
                /\ UNCHANGED <<flag, event, lock, local>>

-----------------------------------------------------------------------------
(* wait() *)

(* Mutant: the fast path is taken on the wrong value of the flag.          *)
CheckFlagInverted(w) == /\ Goto(w, "check", IF flag THEN "read" ELSE "done")
                        /\ UNCHANGED <<flag, event, isSet, lock, local>>

CheckFlag(w) == /\ Goto(w, "check", IF flag THEN "done" ELSE "read")
                /\ UNCHANGED <<flag, event, isSet, lock, local>>

ReadEvent(w) == /\ Goto(w, "read", IF event = None THEN "acquire" ELSE "block")
                /\ local' = [local EXCEPT ![w] = event]
                /\ UNCHANGED <<flag, event, isSet, lock>>

Acquire(w) == /\ Goto(w, "acquire", "reread")
              /\ lock = None
              /\ lock' = w
              /\ UNCHANGED <<flag, event, isSet, local>>

(* Mutant: the second read of _event under the lock is left out.           *)
RereadSkipped(w) == /\ Goto(w, "reread", "allocate")
                    /\ UNCHANGED <<flag, event, isSet, lock, local>>

(* An event published meanwhile is used as it is, and the lock released.   *)
Reread(w) == /\ Goto(w, "reread", IF event = None THEN "allocate" ELSE "block")
             /\ local' = [local EXCEPT ![w] = event]
             /\ lock' = IF event = None THEN lock ELSE None
             /\ UNCHANGED <<flag, event, isSet>>

Allocate(w) == /\ Goto(w, "allocate", "recheck")
               /\ local' = [local EXCEPT ![w] = w]
               /\ UNCHANGED <<flag, event, isSet, lock>>

Recheck(w) == /\ Goto(w, "recheck", "publish")
              /\ isSet' = [isSet EXCEPT ![w] = flag]
              /\ UNCHANGED <<flag, event, lock, local>>

Publish(w) == /\ Goto(w, "publish", "block")
              /\ event' = local[w]
              /\ lock' = None
              /\ UNCHANGED <<flag, isSet, local>>

Unblock(w) == /\ Goto(w, "block", "done")
              /\ isSet[local[w]]
              /\ UNCHANGED <<flag, event, isSet, lock, local>>

-----------------------------------------------------------------------------

SetStep(s) == RaiseFlag(s) \/ LookForEvent(s) \/ FireEvent(s)

WaitStep(w) == \/ CheckFlag(w) \/ ReadEvent(w) \/ Acquire(w) \/ Reread(w)
               \/ Allocate(w) \/ Recheck(w) \/ Publish(w) \/ Unblock(w)

EventNext == (\E s \in Setters : SetStep(s)) \/ (\E w \in Waiters : WaitStep(w))

EventSpec == EventInit /\ [][EventNext]_eventVars

(* Threads that have begun are scheduled; nothing makes a setter begin,    *)
(* since an order may stay open for ever.  The lock is handed on fairly.   *)
FairEventSpec == /\ EventSpec
                 /\ \A s \in Setters : WF_eventVars(LookForEvent(s) \/ FireEvent(s))
                 /\ \A w \in Waiters : WF_eventVars(WaitStep(w)) /\ SF_eventVars(Acquire(w))

-----------------------------------------------------------------------------
(* Every variable stays in its type.                                       *)
EventTypeOK == /\ flag \in BOOLEAN
               /\ event \in Waiters \cup {None}
               /\ isSet \in [Waiters -> BOOLEAN]
               /\ lock \in Waiters \cup {None}
               /\ local \in [Threads -> Waiters \cup {None}]
               /\ at \in [Threads -> SetterPC \cup WaiterPC]

(* wait() returns only when set() was called, whichever of the three ways  *)
(* it takes (raised flag, another waiter's event, its own event): a caller *)
(* of Order.wait_to_be_closed never continues with an open order.          *)
ReturnsOnlyAfterSet == \A w \in Waiters : at[w] = "done" => flag

(* All waiters block on the one event that set() will find: the second     *)
(* read of _event under the lock keeps two first waiters from allocating   *)
(* one event each, the loser of which nobody would ever set.               *)
OneSharedEvent == \A w \in Waiters : at[w] = "block" => local[w] = event

(* Once set() has been called every waiter returns, as with the            *)
(* threading.Event it stands for ("Event-like helper", order.py:25; "Wait  *)
(* for the orders to execute/be canceled", broker.py:2001).                *)
SetWakesEveryWaiter ==
    \A w \in Waiters : flag ~> (at[w] = "done")
==============================================================================
