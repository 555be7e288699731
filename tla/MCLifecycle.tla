----------------------------- MODULE MCLifecycle -----------------------------
(* Instances of Lifecycle.  A strategy started in any phase of the first of *)
(* three days.                                                              *)
EXTENDS Lifecycle
=============================================================================
