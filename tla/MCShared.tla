------------------------------ MODULE MCShared ------------------------------
(***************************************************************************)
(* What requests and processes share, and read before they write it: the   *)
(* lock of the scheduled jobs, the token pairs of the users and the cache  *)
(* of what a user may do, in Redis; a customer's points, coupon and credit *)
(* in PostgreSQL.  A run looks at one of them at a time and leaves the     *)
(* others where they begin.                                                *)
(***************************************************************************)
EXTENDS DistributedLock, Sessions, AuthCache, MCSaleAccounts

VARIABLE store      \* the one that moves

MCRedis == {"crash", "redis"}

\* Calls are interchangeable: they come in the order of their numbers.
InOrder(Calls, calls) ==
    \A c \in Calls : calls[c].pc # "idle" => \A d \in Calls : d < c => calls[d].pc # "idle"

\* Logins have nothing to do with each other: a bound of five calls on one
\* login, or of four on several.
FewLogins ==
    (\E c, d \in Ticket : c # d /\ ticket[c].kind = "login" /\ ticket[d].kind = "login")
        => \E c \in Ticket : ticket[c].pc = "idle"

MCInit ==
    /\ store \in {"lock", "sessions", "cache", "accounts"}
    /\ Init /\ SessionsInit /\ CacheInit /\ AccountsInit

MCNext ==
    /\ \/ store = "lock" /\ Next
          /\ UNCHANGED <<sessionVars, cacheVars, accountVars>>
       \/ store = "sessions" /\ SessionsNext /\ InOrder(Ticket, ticket)' /\ FewLogins'
          /\ UNCHANGED <<vars, cacheVars, accountVars>>
       \/ store = "cache" /\ CacheNext /\ InOrder(Lookup, lookup)' /\ InOrder(Change, change)'
          /\ UNCHANGED <<vars, sessionVars, accountVars>>
       \/ store = "accounts" /\ AccountsNext /\ InOrder(Request, req)'
          /\ UNCHANGED <<vars, sessionVars, cacheVars>>
    /\ UNCHANGED store

MCSpec == MCInit /\ [][MCNext]_<<vars, sessionVars, cacheVars, accountVars, store>>
=============================================================================
