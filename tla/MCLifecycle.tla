---------------------------- MODULE MCLifecycle ----------------------------
(* Model-checking instance of Lifecycle: any of the four services.           *)
EXTENDS Lifecycle
=============================================================================
