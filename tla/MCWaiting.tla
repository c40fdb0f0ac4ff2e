----------------------------- MODULE MCWaiting ------------------------------
(***************************************************************************)
(* Two places where work waits for somebody to take it, and where who took *)
(* it may never give it back: print jobs and their workers, requests and   *)
(* the connections of the pool.  They share no state, so a run looks at    *)
(* one of them at a time and leaves the other where it begins.             *)
(***************************************************************************)
EXTENDS MCPrintJobs, ConnectionPool

VARIABLE side   \* the one that moves

MCInit == Init /\ PoolInit /\ side \in {"print", "pool"}

\* Requests are interchangeable: they come in the order of their numbers.
InOrder == \A h \in Http : http[h].pc # "idle" => \A g \in Http : g < h => http[g].pc # "idle"

MCNext ==
    /\ \/ side = "print" /\ Next /\ UNCHANGED poolVars
       \/ side = "pool" /\ PoolNext /\ InOrder' /\ UNCHANGED vars
    /\ UNCHANGED side

\* The actions of the other side are disabled where it begins: their
\* fairness asks for nothing.
MCSpec == MCInit /\ [][MCNext]_<<vars, poolVars, side>> /\ Fairness /\ PoolFairness
=============================================================================
