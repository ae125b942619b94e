----------------------------- MODULE MCPayment -----------------------------
(* Model-checking instances of Payment: two ready events ask for a payment   *)
(* of the same order, as when the relay publishes its outbox row again; one  *)
(* asks for nothing, one cannot be read.                                     *)
EXTENDS Payment, TLC

CONSTANTS o1, o2, e1, e2, e3, e4

AskedFor == [e \in EventIds |-> IF e = e3 THEN o2 ELSE o1]

Symmetry == Permutations(Servers) \cup Permutations(PaymentIds)
=============================================================================
