----------------------------- MODULE MCCanary ------------------------------
(* Model-checking instance of Canary: one operator, who also sets weights.   *)
EXTENDS Canary
=============================================================================
