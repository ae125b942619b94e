-------------------------- MODULE PaymentContract --------------------------
(***************************************************************************)
(* What the payment service promises for every payment, with everything   *)
(* that implements it left out (no event streams, versions, snapshots or   *)
(* servers): money is taken at most once and before the payment is shown  *)
(* as paid, a payment is decided once and refunded at most once, and each  *)
(* of these is announced by the transaction that records it. A charge that *)
(* is never recorded is possible: the service may stop in between.         *)
(*                                                                         *)
(* Payment implements this module under the mapping at its end.            *)
(***************************************************************************)
EXTENDS Sequences

CONSTANT PaymentIds

VARIABLES
    charged,       \* payments for which the gateway took money
    status,        \* status[p]: the payment as it is shown, "none" before it is recorded
    announced      \* announced[p]: events enqueued for p, oldest first

contractVars == <<charged, status, announced>>

Init ==
    /\ charged = {}
    /\ status = [p \in PaymentIds |-> "none"]
    /\ announced = [p \in PaymentIds |-> <<>>]

Charge(p) ==
    /\ p \notin charged
    /\ status[p] = "none"
    /\ charged' = charged \cup {p}
    /\ UNCHANGED <<status, announced>>

RecordPaid(p) ==
    /\ p \in charged
    /\ status[p] = "none"
    /\ status' = [status EXCEPT ![p] = "completed"]
    /\ announced' = [announced EXCEPT ![p] = <<"payment.initiated", "payment.processed">>]
    /\ UNCHANGED charged

RecordFailed(p) ==
    /\ p \notin charged
    /\ status[p] = "none"
    /\ status' = [status EXCEPT ![p] = "failed"]
    /\ announced' = [announced EXCEPT ![p] = <<"payment.initiated", "payment.failed">>]
    /\ UNCHANGED charged

Refund(p) ==
    /\ status[p] = "completed"
    /\ status' = [status EXCEPT ![p] = "refunded"]
    /\ announced' = [announced EXCEPT ![p] = Append(@, "payment.refunded")]
    /\ UNCHANGED charged

Next ==
    \E p \in PaymentIds : Charge(p) \/ RecordPaid(p) \/ RecordFailed(p) \/ Refund(p)

Spec == Init /\ [][Next]_contractVars
=============================================================================
