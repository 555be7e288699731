-------------------------- MODULE ContingentOrders --------------------------
(***************************************************************************)
(* What a backtest promises about orders that depend on one another: the   *)
(* exits of a bracket or one-triggers-other order wait until its entry is  *)
(* filled, and of two exits linked to each other at most one is filled.    *)
(* Orders may be canceled at any time, by the strategy or along with a     *)
(* fill; an entry takes its waiting exits with it.                         *)
(*                                                                         *)
(* Only orders that trade appear here, not the parents that hold the legs  *)
(* of an OCO or multi-leg order together.                                  *)
(***************************************************************************)
CONSTANTS Orders,
          Entry,      \* Entry[o]: the order o waits for, or NoOrder
          Partner,    \* Partner[o]: the order linked to o, or NoOrder
          NoOrder

(* Linked orders are linked both ways and wait for the same entry.         *)
WellLinked ==
    /\ NoOrder \notin Orders
    /\ Entry \in [Orders -> Orders \cup {NoOrder}]
    /\ Partner \in [Orders -> Orders \cup {NoOrder}]
    /\ \A o \in Orders : Partner[o] # NoOrder => /\ Partner[Partner[o]] = o
                                                /\ Entry[Partner[o]] = Entry[o]

VARIABLES waiting, live, filled, canceled   \* sets of orders

vars == <<waiting, live, filled, canceled>>

Placed == waiting \cup live \cup filled \cup canceled
Exits(S) == {o \in Orders : Entry[o] \in S}

Init == waiting = {} /\ live = {} /\ filled = {} /\ canceled = {}

(* The orders in C are open; with an entry its waiting exits are canceled. *)
Droppable(C) == /\ C \subseteq waiting \cup live
                /\ Exits(C) \cap waiting \subseteq C

(* The strategy submits the orders in S; their exits wait.                 *)
Place(S) ==
    /\ S \subseteq Orders \ Placed
    /\ \A o \in S : /\ Entry[o] = NoOrder
                    /\ Partner[o] # NoOrder => Partner[o] \in S
    /\ live' = live \cup S
    /\ waiting' = waiting \cup Exits(S)
    /\ UNCHANGED <<filled, canceled>>

(* An order is filled, the orders in C are canceled along with it, and the *)
(* order's own exits start to work.                                        *)
Fill(o, C) ==
    /\ o \in live \ C
    /\ Droppable(C)
    /\ Partner[o] \in waiting \cup live => Partner[o] \in C
    /\ filled' = filled \cup {o}
    /\ canceled' = canceled \cup C
    /\ live' = (live \cup (Exits({o}) \cap waiting)) \ (C \cup {o})
    /\ waiting' = waiting \ (C \cup Exits({o}))

Cancel(C) ==
    /\ Droppable(C)
    /\ canceled' = canceled \cup C
    /\ live' = live \ C
    /\ waiting' = waiting \ C
    /\ UNCHANGED filled

(* The sets S and C are those the step shows.                              *)
Next == \/ Place(live' \ live)
        \/ Cancel(canceled' \ canceled)
        \/ \E o \in Orders : Fill(o, canceled' \ canceled)

Spec == Init /\ [][Next]_vars

TypeCorrect == Placed \subseteq Orders

(* An exit is neither live nor filled before its entry is filled           *)
(* (_execute_filled_order appends the children to _new_orders).            *)
ExitsFollowEntry ==
    \A o \in live \cup filled : Entry[o] # NoOrder => Entry[o] \in filled

(* Two linked orders are never both filled (dependent_order).              *)
AtMostOneExit == \A o \in filled : Partner[o] \notin filled
=============================================================================
