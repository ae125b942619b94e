--------------------------- MODULE OrderContract ---------------------------
(***************************************************************************)
(* What the order saga promises for every order, with everything that     *)
(* implements it left out (no saga row, no transactions, no messages, no  *)
(* retries):                                                               *)
(*                                                                         *)
(*  - an order is decided once, and the decision is announced once, by    *)
(*    order.confirmed or by order.cancelled;                               *)
(*  - the stock reserved for it follows the decision: a reservation that  *)
(*    was given back can no longer be confirmed, an order is only called  *)
(*    failed once its reservation was given back, and only the stock of a *)
(*    confirmed order is taken out of the warehouse.                       *)
(*                                                                         *)
(* OrderSaga implements this module under the mapping at its end.          *)
(***************************************************************************)
EXTENDS Naturals

CONSTANT Orders        \* the orders customers place

VARIABLES
    status,            \* status[o]: the orders row, "absent" before it exists
    reservation,       \* reservation[o]: the stock held for o
    announced          \* announced[o]: outcome events enqueued for o

contractVars == <<status, reservation, announced>>

Outcomes == {"order.confirmed", "order.cancelled"}

Init ==
    /\ status = [o \in Orders |-> "absent"]
    /\ reservation = [o \in Orders |-> "none"]
    /\ announced = [o \in Orders |-> [t \in Outcomes |-> 0]]

\* Stock is set aside; nothing has been promised to the customer yet.
Hold(o) ==
    /\ reservation[o] = "none"
    /\ status[o] = "absent"
    /\ reservation' = [reservation EXCEPT ![o] = "reserved"]
    /\ UNCHANGED <<status, announced>>

Place(o) ==
    /\ status[o] = "absent"
    /\ reservation[o] = "reserved"
    /\ status' = [status EXCEPT ![o] = "pending"]
    /\ UNCHANGED <<reservation, announced>>

AskForPayment(o) ==
    /\ status[o] = "pending"
    /\ reservation[o] = "reserved"
    /\ status' = [status EXCEPT ![o] = "pending_payment"]
    /\ UNCHANGED <<reservation, announced>>

\* The stock is given back: allowed as long as the order is not confirmed.
GiveBack(o) ==
    /\ reservation[o] = "reserved"
    /\ status[o] # "confirmed"
    /\ reservation' = [reservation EXCEPT ![o] = "released"]
    /\ UNCHANGED <<status, announced>>

Confirm(o) ==
    /\ status[o] = "pending_payment"
    /\ reservation[o] = "reserved"
    /\ status' = [status EXCEPT ![o] = "confirmed"]
    /\ announced' = [announced EXCEPT ![o]["order.confirmed"] = @ + 1]
    /\ UNCHANGED reservation

Fail(o) ==
    /\ status[o] = "pending_payment"
    /\ reservation[o] = "released"
    /\ status' = [status EXCEPT ![o] = "payment_failed"]
    /\ announced' = [announced EXCEPT ![o]["order.cancelled"] = @ + 1]
    /\ UNCHANGED reservation

\* The warehouse ships: the reservation leaves quantity_reserved for good.
TakeOut(o) ==
    /\ status[o] = "confirmed"
    /\ reservation[o] = "reserved"
    /\ reservation' = [reservation EXCEPT ![o] = "committed"]
    /\ UNCHANGED <<status, announced>>

Next ==
    \E o \in Orders :
        \/ Hold(o) \/ Place(o) \/ AskForPayment(o) \/ GiveBack(o)
        \/ Confirm(o) \/ Fail(o) \/ TakeOut(o)

Spec == Init /\ [][Next]_contractVars
=============================================================================
