---------------------------- MODULE MCSyncBroker ----------------------------
(* One order that the strategy submits, for the races between the threads  *)
(* that learn of it, and an old one that was filled before the program     *)
(* started.  Either the brokerage no longer lists the old one, and it      *)
(* stays out of everything; or it lists it all along, so that the list is  *)
(* never empty, the old order is replayed, and the strategy's one may be   *)
(* missing from the list.                                                  *)
EXTENDS SyncBroker
CONSTANTS own, old
OwnAndOld == {own, old}
OldInit == /\ market = [i \in Ids |-> IF i = own THEN "none" ELSE "fill"]
           /\ SyncInit
OldSpec == OldInit /\ [][SyncNext]_allVars /\ SyncFairness
(* With the old order on the list: up to the end of the iteration in which *)
(* the executor replays what it finds.                                     *)
OldListedFirst == old \in dropped \/ firstIteration
==============================================================================
