----------------------------- MODULE MCBackend ------------------------------
(***************************************************************************)
(* What the API must not lose under way: units of stock that concurrent    *)
(* sales, transfers and adjustments take, and the events that it hands to  *)
(* its workers.  They share no state, so a run looks at one of them at a   *)
(* time and leaves the other where it begins.                              *)
(***************************************************************************)
EXTENDS MCStockLedger, MCMessageDelivery

VARIABLE cargo      \* the one that moves

MCInit == Init /\ DeliveryInit /\ cargo \in {"stock", "events"}

\* Requests are interchangeable: they come in the order of their numbers.
InOrder == \A r \in Request : ~At(r, "idle") => \A q \in Request : q < r => ~At(q, "idle")

MCNext ==
    /\ \/ cargo = "stock" /\ Next /\ InOrder' /\ UNCHANGED deliveryVars
       \/ cargo = "events" /\ DeliveryNext /\ UNCHANGED vars
    /\ UNCHANGED cargo

\* Where stock moves, no event was enqueued: the fairness of its delivery
\* asks for nothing.
MCSpec == MCInit /\ [][MCNext]_<<vars, deliveryVars, cargo>> /\ DeliveryFairness
=============================================================================
