--------------------------- MODULE MCSaleAccounts ---------------------------
(***************************************************************************)
(* Small instances of SaleAccounts: a coupon for one sale, points for one  *)
(* redemption, and payments of half of a credit sale or of all of it.      *)
(***************************************************************************)
EXTENDS SaleAccounts

MCRedeems == {0, 2}
MCInitials == {0, 1, 3}
MCAmounts == {1, 2}
MCAdjust  == {-3, 1}
=============================================================================
