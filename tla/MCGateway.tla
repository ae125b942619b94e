----------------------------- MODULE MCGateway -----------------------------
(* Model-checking instances of Gateway.                                     *)
EXTENDS Gateway, TLC
=============================================================================
