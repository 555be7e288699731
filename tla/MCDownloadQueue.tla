--------------------------- MODULE MCDownloadQueue ---------------------------
(* Two threads that ask for the same data, and a third that asks for other  *)
(* data once a slot is free.                                                *)
EXTENDS DownloadQueue
CONSTANTS t1, t2, t3, k1, k2
MCThreads == {t1, t2, t3}
MCKeys == {k1, k2}
MCAsks == [t \in MCThreads |-> IF t = t3 THEN k2 ELSE k1]
MCOutcomes == [k \in MCKeys |-> IF k = k1 THEN {"completed", "dead"}
                                ELSE {"failed", "unavailable"}]
MCWorkloads == {[active |-> {t1}, faults |-> 3], [active |-> {t3}, faults |-> 2],
                [active |-> {t1, t2}, faults |-> 1],
                [active |-> MCThreads, faults |-> 0]}
==============================================================================
