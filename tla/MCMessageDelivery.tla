------------------------- MODULE MCMessageDelivery --------------------------
(***************************************************************************)
(* Small instances of MessageDelivery: one event, one or two API instances *)
(* and the faults each run names.                                          *)
(***************************************************************************)
EXTENDS MessageDelivery

MCAnything  == FaultKinds
MCCrash     == {"crash"}
=============================================================================
