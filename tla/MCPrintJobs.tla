---------------------------- MODULE MCPrintJobs -----------------------------
(***************************************************************************)
(* Small instances of PrintJobs: one receipt with a client's key, one job  *)
(* left for a reprint, two workers.                                        *)
(***************************************************************************)
EXTENDS PrintJobs

MCPrint    == {"print"}
MCBoth     == {"print", "retry"}
MCPrinter  == {"printer"}
MCAnything == FaultKinds
=============================================================================
