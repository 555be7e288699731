--------------------------- MODULE MCPollingBroker ---------------------------
(* One order, which may have been at the brokerage before.                  *)
EXTENDS PollingBroker
CONSTANT i1
OneId == {i1}
==============================================================================
