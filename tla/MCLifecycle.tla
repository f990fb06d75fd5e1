---------------------------- MODULE MCLifecycle ----------------------------
(* Two sleeps in each bounded wait and one spot: enough for a wait that    *)
(* gives up, and for a spot between any two steps of the unload.           *)
EXTENDS Lifecycle
=============================================================================
