-------------------------- MODULE MCStockDocuments --------------------------
(***************************************************************************)
(* Small instances of StockDocuments: two rows of one product, transfers   *)
(* in both directions, an order for one row and a count of two.            *)
(***************************************************************************)
EXTENDS StockDocuments, TLC

CONSTANTS x1, x2

Move(x, y, n) == <<[row |-> x, qty |-> -n], [row |-> y, qty |-> n]>>

ThereAndBack == [kind |-> "transfer", lines |-> Move(x1, x2, 1) \o Move(x2, x1, 2)]
There        == [kind |-> "transfer", lines |-> Move(x1, x2, 2)]
Back         == [kind |-> "transfer", lines |-> Move(x2, x1, 1)]
Within       == [kind |-> "transfer", lines |-> Move(x1, x1, 1)]
Bought       == [kind |-> "order", lines |-> <<[row |-> x1, qty |-> 2]>>]
Count        == [kind |-> "count", lines |-> <<[row |-> x2, qty |-> -3],
                                               [row |-> x1, qty |-> 1]>>]

MCInitQty   == (x1 :> 2) @@ (x2 :> 1)
MCMoving    == {There, Back}
MCMoved     == {ThereAndBack, Count}
MCAll       == {ThereAndBack, Within, Bought, Count}

MCRoutes    == {"create", "approve", "status", "reject", "edit", "delete", "sell"}
MCApproving == {"approve", "sell"}
MCReceive   == {"RECEIVED"}
MCStatuses  == {"APPROVED", "RECEIVED"}

Symmetry == Permutations(Request)
=============================================================================
