----------------------------- MODULE MCLazyEvent -----------------------------
(* Two threads that close an order and three that wait for it.             *)
EXTENDS LazyEvent
CONSTANTS s1, s2, w1, w2, w3
MCSetters == {s1, s2}
MCWaiters == {w1, w2, w3}
==============================================================================
