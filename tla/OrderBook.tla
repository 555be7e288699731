------------------------------ MODULE OrderBook ------------------------------
(***************************************************************************)
(* What a strategy may rely on for an Order object it holds: the object    *)
(* opens once, a fill is final and is told exactly when it happens, and a  *)
(* canceled order can only turn out to have been filled or rejected after  *)
(* all.  Nothing is said of when, and nothing of how a broker finds out.   *)
(* (Order.status and the on_..._order callbacks, lumibot/brokers/broker.py *)
(* and lumibot/entities/order.py.)                                         *)
(***************************************************************************)
EXTENDS Naturals

CONSTANT Orders

VARIABLES state,        \* state[o]: the status the strategy reads
          told          \* told[o]: calls of on_filled_order for o

bookVars == <<state, told>>

Init == /\ state = [o \in Orders |-> "unprocessed"]
        /\ told = [o \in Orders |-> 0]

Become(o, from, to) == /\ state[o] \in from
                       /\ state' = [state EXCEPT ![o] = to]

Open(o) == Become(o, {"unprocessed"}, "open") /\ UNCHANGED told

Cancel(o) == Become(o, {"open"}, "canceled") /\ UNCHANGED told

Fill(o) == /\ Become(o, {"open", "canceled"}, "fill")
           /\ told' = [told EXCEPT ![o] = @ + 1]

Fail(o) == Become(o, {"unprocessed", "open", "canceled"}, "error") /\ UNCHANGED told

Next == \E o \in Orders : Open(o) \/ Cancel(o) \/ Fill(o) \/ Fail(o)

Spec == Init /\ [][Next]_bookVars
==============================================================================
