------------------------------ MODULE AuthCache -----------------------------
(***************************************************************************)
(* A read-through cache in Redis in front of a row that others change.     *)
(*   infrastructure/http/middleware/auth.middleware.ts: loadCachedAuthUser *)
(*     and invalidateUserStoreCache, the rights of a user behind           *)
(*     authenticate; loadUserStoreAccess is the same over user_stores      *)
(*   infrastructure/services/permission.service.ts: getUserMask            *)
(*   infrastructure/http/middleware/cache.middleware.ts: queryCache,       *)
(*     answers of GET routes, dropped after a sale or a change of stock    *)
(*                                                                         *)
(* A lookup reads the key, on a miss the row, and then sets the key; a     *)
(* change writes the row and then deletes the key.  Nothing ties the steps *)
(* of one to those of the other.                                           *)
(*                                                                         *)
(* A row is the number of changes made to it.  Sales do not wait for the   *)
(* deletion that they start: for the query cache, a change counts as       *)
(* answered here when its deletion is done.  Left out: Redis falling back  *)
(* to the memory of one process.  lookup[c].after and change[w].after are  *)
(* no state of the program.                                                *)
(***************************************************************************)
EXTENDS Integers

CONSTANTS
    Lookup,     \* requests that authenticate, or that get a cached answer
    Change      \* requests that change the row

ASSUME CallAssumption == Lookup \cap Change = {}

VARIABLES
    row,        \* the row in PostgreSQL
    entry,      \* the key in Redis, Missing when there is none
    lookup,     \* handlers that look up
    change      \* handlers that change

cacheVars == <<row, entry, lookup, change>>

Missing == -1

NotYet == [pc |-> "idle", seen |-> Missing, filled |-> FALSE, after |-> {}]

CacheTypeOK ==
    /\ row \in Nat
    /\ entry \in Nat \cup {Missing}
    /\ lookup \in [Lookup -> [pc : {"idle", "load", "fill", "ok", "failed"},
                              seen : Nat \cup {Missing}, filled : BOOLEAN,
                              after : SUBSET Change]]
    /\ change \in [Change -> [pc : {"idle", "drop", "ok", "failed"}, wrote : Nat,
                              after : SUBSET Lookup]]

CacheInit ==
    /\ row = 0
    /\ entry = Missing
    /\ lookup = [c \in Lookup |-> NotYet]
    /\ change = [w \in Change |-> [pc |-> "idle", wrote |-> 0, after |-> {}]]

(***************************************************************************)
(* A lookup.                                                               *)
(***************************************************************************)
GetEntry(c) ==
    /\ lookup[c].pc = "idle"
    /\ lookup' = [lookup EXCEPT ![c] =
        [pc |-> IF entry = Missing THEN "load" ELSE "ok", seen |-> entry, filled |-> FALSE,
         after |-> {w \in Change : change[w].pc = "ok"}]]
    /\ UNCHANGED <<row, entry, change>>

LoadRow(c) ==
    /\ lookup[c].pc = "load"
    /\ lookup' = [lookup EXCEPT ![c].pc = "fill", ![c].seen = row]
    /\ UNCHANGED <<row, entry, change>>

FillEntry(c) ==
    /\ lookup[c].pc = "fill"
    /\ entry' = lookup[c].seen
    /\ lookup' = [lookup EXCEPT ![c].pc = "ok", ![c].filled = TRUE]
    /\ UNCHANGED <<row, change>>

(***************************************************************************)
(* A change.                                                               *)
(***************************************************************************)
ChangeRow(w) ==
    /\ change[w].pc = "idle"
    /\ row' = row + 1
    /\ change' = [change EXCEPT ![w] =
        [pc |-> "drop", wrote |-> row + 1,
         after |-> {c \in Lookup : lookup[c].pc \in {"ok", "failed"}}]]
    /\ UNCHANGED <<entry, lookup>>

\* Mutant: the change is answered and the key left to its expiration.
KeepEntry(w) ==
    /\ change[w].pc = "drop"
    /\ change' = [change EXCEPT ![w].pc = "ok"]
    /\ UNCHANGED <<row, entry, lookup>>

DropEntry(w) ==
    /\ change[w].pc = "drop"
    /\ entry' = Missing
    /\ change' = [change EXCEPT ![w].pc = "ok"]
    /\ UNCHANGED <<row, lookup>>

\* An error or the end of the process; the row and the key stay as they are.
FailLookup(c) ==
    /\ lookup[c].pc \in {"load", "fill"}
    /\ lookup' = [lookup EXCEPT ![c].pc = "failed"]
    /\ UNCHANGED <<row, entry, change>>

FailChange(w) ==
    /\ change[w].pc = "drop"
    /\ change' = [change EXCEPT ![w].pc = "failed"]
    /\ UNCHANGED <<row, entry, lookup>>

EntryExpires ==
    /\ entry # Missing
    /\ entry' = Missing
    /\ UNCHANGED <<row, lookup, change>>

CacheNext ==
    \/ \E c \in Lookup : GetEntry(c) \/ LoadRow(c) \/ FillEntry(c) \/ FailLookup(c)
    \/ \E w \in Change : ChangeRow(w) \/ DropEntry(w) \/ FailChange(w)
    \/ EntryExpires

CacheSpec == CacheInit /\ [][CacheNext]_cacheVars
-----------------------------------------------------------------------------
(***************************************************************************)
(* Properties.                                                             *)
(***************************************************************************)
\* A request that comes after the answer to a change of a user's rights has
\* the rights as changed, or later ones.  The exception is a lookup that
\* was under way during the change and filled in what it had read before:
\* what it put there is believed until it expires or the next change.
ChangeIsSeen ==
    \A c \in Lookup, w \in Change :
        /\ lookup[c].pc = "ok" /\ w \in lookup[c].after
        /\ lookup[c].seen < change[w].wrote
        => \E f \in Lookup :
            /\ lookup[f].filled /\ lookup[f].seen < change[w].wrote
            /\ w \notin lookup[f].after /\ f \notin change[w].after
=============================================================================
