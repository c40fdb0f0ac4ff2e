--------------------------- MODULE ConnectionPool ---------------------------
(***************************************************************************)
(* The connections of a request                                            *)
(*   infrastructure/http/middleware/tenant-tx.middleware.ts: withTenantTx  *)
(*   sales/presentation/routes.ts: scopedTransaction                       *)
(*                                                                         *)
(* withTenantTx reserves a connection, puts the request's tenant context   *)
(* on it and hands it to the handler as req.tx; the answer releases it.  A *)
(* transaction inside the handler takes a second connection from the same  *)
(* pool.  A watchdog set for 30 s releases the first one whatever its      *)
(* handler is doing, which goes on to use req.tx.                          *)
(*                                                                         *)
(* The pool grants connections in the order they were asked for.  The      *)
(* watchdog may bite at any time after it was set.                         *)
(***************************************************************************)
EXTENDS Naturals, Sequences

CONSTANTS
    Conn,       \* connections of the pool
    Http,       \* requests
    NoConn,     \* a request without a connection
    NoHttp      \* no holder, no context

ASSUME ConnAssumption == NoConn \notin Conn /\ NoHttp \notin Http

VARIABLES
    http,       \* requests: where they are, their two connections
    conn,       \* connections: who holds them, whose context is set
    waiting,    \* who waits for a connection, in order
    bitten,     \* requests whose watchdog has bitten
    alien       \* requests that ran a statement under another's context

poolVars == <<http, conn, waiting, bitten, alien>>

PoolTypeOK ==
    /\ http \in [Http -> [pc : {"idle", "reserve", "context", "work", "begin", "tx", "rest",
                                "done", "unheard"},
                          first : Conn \cup {NoConn}, second : Conn \cup {NoConn}]]
    /\ conn \in [Conn -> [holder : Http \cup {NoHttp}, context : Http \cup {NoHttp}]]
    /\ waiting \in Seq(Http)
    /\ bitten \in SUBSET Http /\ alien \in SUBSET Http

PoolInit ==
    /\ http = [h \in Http |-> [pc |-> "idle", first |-> NoConn, second |-> NoConn]]
    /\ conn = [c \in Conn |-> [holder |-> NoHttp, context |-> NoHttp]]
    /\ waiting = <<>>
    /\ bitten = {} /\ alien = {}

-----------------------------------------------------------------------------
Unheld(c) == conn[c].holder = NoHttp

\* Request h asks for a connection and stops at pc until it has one.
Ask(h, pc) ==
    /\ http' = [http EXCEPT ![h].pc = pc]
    /\ waiting' = Append(waiting, h)

\* An idle connection goes to who has waited longest.
Grant(c) ==
    /\ waiting # <<>> /\ Unheld(c)
    /\ LET h == Head(waiting)
       IN  /\ conn' = [conn EXCEPT ![c].holder = h]
           /\ http' = IF http[h].pc = "reserve"
                      THEN [http EXCEPT ![h].pc = "context", ![h].first = c]
                      ELSE [http EXCEPT ![h].pc = "tx", ![h].second = c]
    /\ waiting' = Tail(waiting)
    /\ UNCHANGED <<bitten, alien>>

\* The context is reset and the connection idle again.
Released(c) == conn' = [conn EXCEPT ![c] = [holder |-> NoHttp, context |-> NoHttp]]

Reserve(h) ==
    /\ http[h].pc = "idle"
    /\ Ask(h, "reserve")
    /\ UNCHANGED <<conn, bitten, alien>>

SetContext(h) ==
    /\ http[h].pc = "context"
    /\ conn' = [conn EXCEPT ![http[h].first].context = h]
    /\ http' = [http EXCEPT ![h].pc = "work"]
    /\ UNCHANGED <<waiting, bitten, alien>>

\* The context cannot be set: the connection is given back.
ContextFails(h) ==
    /\ http[h].pc = "context"
    /\ http' = [http EXCEPT ![h].pc = "done"]
    /\ Released(http[h].first)
    /\ UNCHANGED <<waiting, bitten, alien>>

Running == {"work", "rest"}

\* A statement through req.tx, on the connection that it was made for.
Query(h) ==
    /\ http[h].pc \in Running
    /\ conn[http[h].first].context \notin {h, NoHttp}
    /\ alien' = alien \cup {h}
    /\ UNCHANGED <<http, conn, waiting, bitten>>

\* scopedTransaction: its context is local to it.
Begin(h) ==
    /\ http[h].pc = "work"
    /\ Ask(h, "begin")
    /\ UNCHANGED <<conn, bitten, alien>>

Commit(h) ==
    /\ http[h].pc = "tx"
    /\ Released(http[h].second)
    /\ http' = [http EXCEPT ![h].pc = "rest", ![h].second = NoConn]
    /\ UNCHANGED <<waiting, bitten, alien>>

\* Mutant: the answer releases the connection whether or not it was.
FinishAgain(h) ==
    /\ http[h].pc \in Running
    /\ http' = [http EXCEPT ![h].pc = "done"]
    /\ Released(http[h].first)
    /\ UNCHANGED <<waiting, bitten, alien>>

Finish(h) ==
    /\ http[h].pc \in Running
    /\ http' = [http EXCEPT ![h].pc = "done"]
    /\ IF h \in bitten THEN UNCHANGED conn ELSE Released(http[h].first)
    /\ UNCHANGED <<waiting, bitten, alien>>

\* The answer is given and neither event of the response comes.
FinishUnheard(h) ==
    /\ http[h].pc \in Running
    /\ http' = [http EXCEPT ![h].pc = "unheard"]
    /\ UNCHANGED <<conn, waiting, bitten, alien>>

\* Mutant: the watchdog waits for a handler that waits.
WatchdogPatient(h) ==
    /\ http[h].pc \in Running /\ h \notin bitten
    /\ bitten' = bitten \cup {h}
    /\ Released(http[h].first)
    /\ UNCHANGED <<http, waiting, alien>>

Watchdog(h) ==
    /\ http[h].pc \in Running \cup {"begin", "tx", "unheard"} /\ h \notin bitten
    /\ bitten' = bitten \cup {h}
    /\ Released(http[h].first)
    /\ UNCHANGED <<http, waiting, alien>>

PoolStep(h) ==
    Reserve(h) \/ SetContext(h) \/ ContextFails(h) \/ Query(h) \/ Begin(h) \/ Commit(h)
    \/ Finish(h) \/ FinishUnheard(h)

PoolNext ==
    \/ \E h \in Http : PoolStep(h) \/ Watchdog(h)
    \/ \E c \in Conn : Grant(c)

\* A handler that has what it waits for goes on, statements being cut off
\* after 30 s; the watchdog bites in time; the pool grants what it has.
PoolFairness ==
    /\ \A h \in Http : /\ WF_poolVars(SetContext(h)) /\ WF_poolVars(Commit(h))
                       /\ WF_poolVars(Finish(h) \/ FinishUnheard(h)) /\ WF_poolVars(Watchdog(h))
    /\ WF_poolVars(\E c \in Conn : Grant(c))

PoolSpec == PoolInit /\ [][PoolNext]_poolVars /\ PoolFairness
-----------------------------------------------------------------------------
(***************************************************************************)
(* Properties.                                                             *)
(***************************************************************************)
\* The statements of a request run under its own tenant's context or none,
\* unless its watchdog has taken the connection away: no release, however
\* late, hands out a connection that somebody else holds.
OwnContext == alien \subseteq bitten

\* Requests that hold one connection and want another do not wait on each
\* other for ever, though all connections be reserved (comment at
\* tenant-tx.middleware.ts:112-119): whoever asks for a connection has
\* an answer in the end.
AllServed == \A h \in Http : http[h].pc = "reserve" ~> http[h].pc \in {"done", "unheard"}
=============================================================================
