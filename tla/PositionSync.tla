---------------------------- MODULE PositionSync ----------------------------
(***************************************************************************)
(* The positions a live bot believes it holds (Broker._filled_positions,   *)
(* lumibot/brokers/broker.py) and the two threads that compare them with   *)
(* the brokerage: the executor before each iteration (sync_broker, which   *)
(* first writes the cash position) and, with a polling broker, the stream  *)
(* thread at the start of each poll.  The list is locked per call only, so *)
(* the two synchronisations interleave; fills never change a quantity.     *)
(*                                                                         *)
(* Positions are objects: removal is by identity, and the list is walked   *)
(* by index while elements are removed from it.                            *)
(***************************************************************************)
EXTENDS Naturals, FiniteSets, Sequences, SequencesExt

CONSTANTS Assets,       \* what the account may hold
          Cash,         \* the quote asset
          Sizes,        \* the quantities in which each may be held
          Threads,      \* threads that synchronise positions
          MaxTrades,    \* bound: changes of the account
          MaxFailures   \* bound: requests for positions that fail

ASSUME PositionsAssumption == /\ Cash \notin Assets
                              /\ \A a \in Assets : Sizes[a] \subseteq Nat \ {0}
                              /\ Threads \subseteq {"stream", "executor"}
                              /\ MaxTrades \in Nat
                              /\ MaxFailures \in Nat

VARIABLES account,      \* what the brokerage holds
          positions,    \* Broker._filled_positions
          pc,           \* what each thread does next
          report,       \* positions_broker: asset -> quantity
          todo,         \* assets of the report still to compare
          asset,        \* the asset a thread is comparing
          object,       \* the position object a thread has in hand
          index,        \* where a thread's walk of the list has come to
          size,         \* range(len(...)) of the executor's look for the cash
          trades, failures

vars == <<account, positions, pc, report, todo, asset, object, index, size,
          trades, failures>>

NoObject == 0
NoAsset == "no asset"

(* Names for objects: at most one per list entry, one in hand per thread.  *)
Objects == 1 .. 3 * Cardinality(Assets) + 4

Unused == Objects \ (ToSet([i \in DOMAIN positions |-> positions[i].object])
                       \cup {object[t] : t \in Threads})
NewObject == CHOOSE o \in Unused : \A u \in Unused : o <= u

(* The indices at which the list shows an asset, or an object.             *)
Places(a) == {i \in DOMAIN positions : positions[i].asset = a}
PlacesOf(o) == {i \in DOMAIN positions : positions[i].object = o}
First(S) == CHOOSE i \in S : \A j \in S : i <= j

Owner(t) == IF t = "executor" THEN "strategy" ELSE "Unknown"

Position(a, n, t) ==
    [object |-> NewObject, asset |-> a, quantity |-> n, owner |-> Owner(t)]

(* get_tracked_position of the bot's own strategy.                         *)
Own(a) == {i \in Places(a) : positions[i].owner = "strategy"}
TrackedQuantity(a) == IF Own(a) = {} THEN 0 ELSE positions[First(Own(a))].quantity

Init == /\ account = [a \in Assets |-> 0]
        /\ positions = <<>>
        /\ pc = [t \in Threads |-> "idle"]
        /\ report = [t \in Threads |-> <<>>]
        /\ todo = [t \in Threads |-> {}]
        /\ asset = [t \in Threads |-> NoAsset]
        /\ object = [t \in Threads |-> NoObject]
        /\ index = [t \in Threads |-> 1]
        /\ size = 0
        /\ trades = 0
        /\ failures = 0

-----------------------------------------------------------------------------
Goto(t, from, to) == pc[t] = from /\ pc' = [pc EXCEPT ![t] = to]

(* The synchronisation ends, after its last step or because one raised.    *)
Finish(t) == /\ pc' = [pc EXCEPT ![t] = "idle"]
             /\ report' = [report EXCEPT ![t] = <<>>]
             /\ todo' = [todo EXCEPT ![t] = {}]
             /\ object' = [object EXCEPT ![t] = NoObject]
             /\ index' = [index EXCEPT ![t] = 1]

Begin(t) == /\ Goto(t, "idle", IF t = "executor" THEN "cash" ELSE "pull")
            /\ size' = IF t = "executor" THEN Len(positions) ELSE size
            /\ UNCHANGED <<account, positions, report, todo, asset, object,
                           index, trades, failures>>

(* _set_cash_position: the next entry of the list, which may have become   *)
(* shorter than it was when its length was taken (IndexError).             *)
LookForCash(t) ==
    /\ pc[t] = "cash"
    /\ index[t] <= size
    /\ UNCHANGED <<account, positions, asset, trades, failures>>
    /\ \/ /\ index[t] > Len(positions)
          /\ Finish(t)
          /\ size' = 0
       \/ /\ index[t] \in Places(Cash)
          /\ pc' = [pc EXCEPT ![t] = "write"]
          /\ object' = [object EXCEPT ![t] = positions[index[t]].object]
          /\ UNCHANGED <<report, todo, index, size>>
       \/ /\ index[t] \in DOMAIN positions \ Places(Cash)
          /\ index' = [index EXCEPT ![t] = @ + 1]
          /\ UNCHANGED <<pc, report, todo, object, size>>

(* The cash position is put back at the index where it was found.          *)
WriteCash(t) ==
    /\ pc[t] = "write"
    /\ size' = 0
    /\ UNCHANGED <<account, asset, trades, failures>>
    /\ \/ /\ index[t] > Len(positions)
          /\ Finish(t)
          /\ UNCHANGED positions
       \/ /\ index[t] \in DOMAIN positions
          /\ positions' = [positions EXCEPT ![index[t]] =
                             positions[First(PlacesOf(object[t]))]]
          /\ pc' = [pc EXCEPT ![t] = "pull"]
          /\ object' = [object EXCEPT ![t] = NoObject]
          /\ index' = [index EXCEPT ![t] = 1]
          /\ UNCHANGED <<report, todo>>

AddCash(t) == /\ Goto(t, "cash", "pull")
              /\ index[t] > size
              /\ positions' = Append(positions, Position(Cash, 0, t))
              /\ index' = [index EXCEPT ![t] = 1]
              /\ size' = 0
              /\ UNCHANGED <<account, report, todo, asset, object, trades, failures>>

-----------------------------------------------------------------------------
(* sync_positions. *)

Held == {a \in Assets : account[a] # 0}

Pull(t) == /\ Goto(t, "pull", "match")
           /\ report' = [report EXCEPT ![t] = [a \in Held |-> account[a]]]
           /\ todo' = [todo EXCEPT ![t] = Held]
           /\ UNCHANGED <<account, positions, asset, object, index, size,
                          trades, failures>>

(* A request that fails raises, or is answered with an empty list.         *)
PullFails(t) == /\ pc[t] = "pull"
                /\ failures < MaxFailures
                /\ failures' = failures + 1
                /\ \/ Finish(t)
                   \/ /\ pc' = [pc EXCEPT ![t] = "match"]
                      /\ UNCHANGED <<report, todo, object, index>>
                /\ UNCHANGED <<account, positions, asset, size, trades>>

(* The tracked position of the next reported asset, if there is one.       *)
Match(t) == /\ pc[t] = "match"
            /\ \E a \in todo[t] :
                 /\ asset' = [asset EXCEPT ![t] = a]
                 /\ todo' = [todo EXCEPT ![t] = @ \ {a}]
                 /\ IF Places(a) = {}
                      THEN /\ pc' = [pc EXCEPT ![t] = "append"]
                           /\ UNCHANGED object
                      ELSE /\ pc' = [pc EXCEPT ![t] = "update"]
                           /\ object' = [object EXCEPT ![t] =
                                           positions[First(Places(a))].object]
            /\ UNCHANGED <<account, positions, report, index, size, trades,
                           failures>>

(* Mutant: the strategy is set together with a quantity that differs.      *)
UpdateTogether(t) ==
    /\ Goto(t, "update", "match")
    /\ positions' = [i \in DOMAIN positions |->
                       IF \/ positions[i].object # object[t]
                          \/ positions[i].quantity = report[t][asset[t]]
                         THEN positions[i]
                         ELSE [positions[i] EXCEPT
                                 !.quantity = report[t][asset[t]],
                                 !.owner = IF t = "executor" THEN Owner(t) ELSE @]]
    /\ object' = [object EXCEPT ![t] = NoObject]
    /\ asset' = [asset EXCEPT ![t] = NoAsset]
    /\ UNCHANGED <<account, report, todo, index, size, trades, failures>>

(* The object may have left the list since.  Only the executor's call      *)
(* names a strategy.                                                       *)
Update(t) ==
    /\ Goto(t, "update", "match")
    /\ positions' = [i \in DOMAIN positions |->
                       IF positions[i].object # object[t] THEN positions[i]
                       ELSE [positions[i] EXCEPT
                               !.quantity = report[t][asset[t]],
                               !.owner = IF t = "executor" THEN Owner(t) ELSE @]]
    /\ object' = [object EXCEPT ![t] = NoObject]
    /\ asset' = [asset EXCEPT ![t] = NoAsset]
    /\ UNCHANGED <<account, report, todo, index, size, trades, failures>>

AppendNew(t) ==
    /\ Goto(t, "append", "match")
    /\ positions' = Append(positions, Position(asset[t], report[t][asset[t]], t))
    /\ asset' = [asset EXCEPT ![t] = NoAsset]
    /\ UNCHANGED <<account, report, todo, object, index, size, trades, failures>>

BeginWalk(t) == /\ Goto(t, "match", "walk")
                /\ todo[t] = {}
                /\ UNCHANGED <<account, positions, report, todo, asset, object,
                               index, size, trades, failures>>

(* The next entry of the list: kept, or to be removed.                     *)
Keeps(t, p) == p.asset \in DOMAIN report[t] \cup {Cash}

Walk(t) ==
    /\ pc[t] = "walk"
    /\ index[t] \in DOMAIN positions
    /\ index' = [index EXCEPT ![t] = @ + 1]
    /\ IF Keeps(t, positions[index[t]])
         THEN UNCHANGED <<pc, object>>
         ELSE /\ pc' = [pc EXCEPT ![t] = "remove"]
              /\ object' = [object EXCEPT ![t] = positions[index[t]].object]
    /\ UNCHANGED <<account, positions, report, todo, asset, size, trades, failures>>

(* The index is not moved back, so the entry after a removed one is never  *)
(* looked at; the removal raises when the object is gone already.          *)
RemoveGone(t) ==
    /\ pc[t] = "remove"
    /\ UNCHANGED <<account, asset, size, trades, failures>>
    /\ \/ /\ PlacesOf(object[t]) = {}
          /\ Finish(t)
          /\ UNCHANGED positions
       \/ /\ PlacesOf(object[t]) # {}
          /\ positions' = RemoveAt(positions, First(PlacesOf(object[t])))
          /\ pc' = [pc EXCEPT ![t] = "walk"]
          /\ object' = [object EXCEPT ![t] = NoObject]
          /\ UNCHANGED <<report, todo, index>>

EndWalk(t) == /\ pc[t] = "walk"
              /\ index[t] > Len(positions)
              /\ Finish(t)
              /\ UNCHANGED <<account, positions, asset, size, trades, failures>>

(* Orders of the bot, or of anybody else, are executed.                    *)
Trade(a) == /\ trades < MaxTrades
            /\ trades' = trades + 1
            /\ account' \in {[account EXCEPT ![a] = n] : n \in (Sizes[a] \cup {0}) \ {account[a]}}
            /\ UNCHANGED <<positions, pc, report, todo, asset, object, index,
                           size, failures>>

CashSteps(t) == LookForCash(t) \/ WriteCash(t) \/ AddCash(t)
SyncSteps(t) == \/ Pull(t) \/ PullFails(t) \/ Match(t) \/ Update(t) \/ AppendNew(t)
                \/ BeginWalk(t) \/ Walk(t) \/ RemoveGone(t) \/ EndWalk(t)
ThreadStep(t) == Begin(t) \/ CashSteps(t) \/ SyncSteps(t)

Next == (\E t \in Threads : ThreadStep(t)) \/ (\E a \in Assets : Trade(a))

(* Both threads are driven by timers and go on after an exception.         *)
Spec == Init /\ [][Next]_vars /\ \A t \in Threads : WF_vars(ThreadStep(t))

-----------------------------------------------------------------------------
PositionType == [object : Objects, asset : Assets \cup {Cash},
                 quantity : Nat, owner : {"strategy", "Unknown"}]

TypeOK == /\ account \in [Assets -> Nat]
          /\ positions \in Seq(PositionType)
          /\ \A t \in Threads : /\ DOMAIN report[t] \subseteq Assets
                                /\ todo[t] \subseteq DOMAIN report[t]
                                /\ object[t] \in Objects \cup {NoObject}
                                /\ index[t] \in Nat \ {0}

(* However often two synchronisations run into each other, and although a  *)
(* walk skips the entry after each one it removes and a failed request     *)
(* looks like an empty account: once the account is quiet the bot comes to *)
(* see exactly what it holds (sync_positions and _set_cash_position, from  *)
(* two threads).                                                           *)
Converges == <>[](\A a \in Assets : /\ TrackedQuantity(a) = account[a]
                                    /\ account[a] = 0 => Places(a) = {})

(* No two entries for one asset (the comment of sync_positions: add to     *)
(* positions when the position does not exist in lumibot).                 *)
OnePositionPerAsset == \A a \in Assets : Cardinality(Places(a)) <= 1
=============================================================================
