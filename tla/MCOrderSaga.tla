---------------------------- MODULE MCOrderSaga ----------------------------
(* Model-checking instances of OrderSaga. Workers and event ids are          *)
(* interchangeable; symmetry is used in the runs without liveness.           *)
EXTENDS OrderSaga, TLC

Symmetry == Permutations(Workers) \cup Permutations(EventIds)
=============================================================================
