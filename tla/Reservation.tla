---------------------------- MODULE Reservation ----------------------------
(***************************************************************************)
(* What the inventory service keeps for an order, as its callers see it:  *)
(* stock that was set aside is given back or taken out of the warehouse,  *)
(* once, and is never set aside for the same order again.                 *)
(*                                                                         *)
(* Inventory implements this module with rows, counters and transactions; *)
(* OrderSaga builds on it: its stock[o] moves by these three steps only.  *)
(* Calls that repeat what was done, or that come too late, change nothing.*)
(***************************************************************************)

CONSTANT Orders

VARIABLE stock         \* stock[o]: what is kept for order o

StockStatus == {"none", "reserved", "released", "committed"}

Init == stock = [o \in Orders |-> "none"]

Hold(o) ==
    /\ stock[o] = "none"
    /\ stock' = [stock EXCEPT ![o] = "reserved"]

GiveBack(o) ==
    /\ stock[o] = "reserved"
    /\ stock' = [stock EXCEPT ![o] = "released"]

TakeOut(o) ==
    /\ stock[o] = "reserved"
    /\ stock' = [stock EXCEPT ![o] = "committed"]

Next == \E o \in Orders : Hold(o) \/ GiveBack(o) \/ TakeOut(o)

Spec == Init /\ [][Next]_stock
=============================================================================
