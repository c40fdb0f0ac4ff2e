------------------------------- MODULE MCTill -------------------------------
(***************************************************************************)
(* The two protocols of the till's page that talk to a server they cannot  *)
(* rely on: the queue of offline sales and the payment by QR code.  They   *)
(* share no state, so a run looks at one of them at a time and leaves the  *)
(* other where it begins.                                                  *)
(***************************************************************************)
EXTENDS OfflineSales, QrPayments

VARIABLE protocol   \* the one that moves

MCInit ==
    /\ protocol \in {"queue", "qr"}
    /\ Init /\ QrInit
    /\ protocol = "qr" => online

MCNext ==
    /\ \/ protocol = "queue" /\ Next /\ UNCHANGED qrVars
       \/ protocol = "qr" /\ QrNext /\ UNCHANGED vars
    /\ UNCHANGED protocol

MCSpec == MCInit /\ [][MCNext]_<<vars, qrVars, protocol>> /\ Fairness
=============================================================================
