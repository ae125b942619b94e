---------------------------- MODULE MCEventBus -----------------------------
(* Model-checking instances of EventBus: replicas are interchangeable.      *)
EXTENDS EventBus, TLC

Symmetry == Permutations(Relays) \cup Permutations(Consumers) \cup Permutations(Partitions)
=============================================================================
