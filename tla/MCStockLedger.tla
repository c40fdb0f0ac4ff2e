--------------------------- MODULE MCStockLedger ---------------------------
(***************************************************************************)
(* Small instances of StockLedger: two inventory rows, up to four requests *)
(* and carts that meet on a row, in both orders, or that exhaust it.       *)
(***************************************************************************)
EXTENDS StockLedger, TLC

CONSTANTS x1, x2

Only(x, n)        == <<[row |-> x, qty |-> n]>>
Two(x, n, y, m)   == <<[row |-> x, qty |-> n], [row |-> y, qty |-> m]>>

MCInitQty   == (x1 :> 2) @@ (x2 :> 1)
MCOneRowQty == (x1 :> 2)

\* Both lock orders, and enough of x1 for one cart but not for two.
MCCarts     == {Only(x1, 2), Two(x1, 1, x2, 1), Two(x2, 1, x1, 2)}
MCCrossing  == {Two(x1, 1, x2, 1), Two(x2, 1, x1, 2)}
MCOneCart   == {Only(x1, 1)}
MCAdjust    == {-2, 1}
MCNoAdjust  == {}
MCSelling   == {"sale", "transfer", "void", "refund", "payVoid", "payRefund"}
MCVoiding   == {"sale", "void"}

Symmetry == Permutations(Request)
=============================================================================
