---------------------------- MODULE MCInventory ----------------------------
(* Model-checking instance of Inventory: orders that take the same products *)
(* in opposite order, and too little stock for both.                        *)
EXTENDS Inventory, TLC

CONSTANTS o1, o2, p1, p2

Item(p, q) == [product |-> p, quantity |-> q]

\* o1 and o2 want the same two products, in opposite order, and o1 names p1 twice.
CrossedLines == (o1 :> <<Item(p1, 1), Item(p2, 1), Item(p1, 2)>>)
             @@ (o2 :> <<Item(p2, 1), Item(p1, 2)>>)

\* Enough of p1 for o1 or o2 but not for both.
Tight == (p1 :> 2) @@ (p2 :> 2)

\* Every call for o1; for o2 only what takes its units from o1 and gives them back.
Calls == {c \in Call : c.order = o2 => c.op \in {"reserve", "release"}}

Symmetry == Permutations(Txs)
=============================================================================
