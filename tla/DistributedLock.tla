-------------------------- MODULE DistributedLock ---------------------------
(***************************************************************************)
(* shared/distributed-lock.ts: a Redis key set with NX and an expiration,  *)
(* so that one of the API instances runs a scheduled job (backup, session  *)
(* cleanup, partition maintenance) and the others skip that tick.  The     *)
(* release reads the key and deletes it in two commands.                   *)
(*                                                                         *)
(* A random UUID is the pair of its instance and the number of that        *)
(* instance's tick; a crashed instance starts at its next tick.            *)
(***************************************************************************)
EXTENDS Integers

CONSTANTS
    Instance,  \* API processes
    Ticks,     \* bound on the ticks of an instance
    NoToken,   \* the key does not exist, an instance holds nothing
    Sentinel,  \* REDIS_ERROR_TOKEN: the job runs without the lock
    Faults     \* what may go wrong, of FaultKinds

FaultKinds == {"crash",    \* an instance dies
               "redis",    \* a command fails, whether or not it was carried out
               "late"}     \* the expiration passes before its owner is done

Token == Instance \X (1 .. Ticks)

ASSUME TokenAssumption == NoToken \notin Token /\ Sentinel \notin Token \cup {NoToken}
ASSUME TickAssumption  == Ticks \in Nat
ASSUME FaultAssumption == Faults \subseteq FaultKinds

VARIABLES
    key,    \* the value of the Redis key
    pc,     \* where each instance is
    token,  \* the token each instance holds
    tick    \* the ticks each instance has begun

vars == <<key, pc, token, tick>>

TypeOK ==
    /\ key \in Token \cup {NoToken}
    /\ pc \in [Instance -> {"idle", "job", "get", "del"}]
    /\ token \in [Instance -> Token \cup {NoToken, Sentinel}]
    /\ tick \in [Instance -> 0 .. Ticks]

Init ==
    /\ key = NoToken
    /\ pc = [i \in Instance |-> "idle"]
    /\ token = [i \in Instance |-> NoToken]
    /\ tick = [i \in Instance |-> 0]

-----------------------------------------------------------------------------
Hold(i, t, where) ==
    /\ token' = [token EXCEPT ![i] = t]
    /\ pc' = [pc EXCEPT ![i] = where]

\* Mutant: SET without NX.
SetAlways(t) == key' = t

\* SET key token NX PX.
SetIfAbsent(t) == key = NoToken /\ key' = t

\* An instance that does not get the key skips the tick.
acquireLock(i) ==
    LET t == <<i, tick[i] + 1>> IN
    /\ pc[i] = "idle" /\ tick[i] < Ticks
    /\ tick' = [tick EXCEPT ![i] = @ + 1]
    /\ \/ SetIfAbsent(t) /\ Hold(i, t, "job")
       \/ key # NoToken /\ UNCHANGED <<key, pc, token>>

\* A Redis error fails open.
acquireFails(i) ==
    LET t == <<i, tick[i] + 1>> IN
    /\ pc[i] = "idle" /\ tick[i] < Ticks
    /\ "redis" \in Faults
    /\ tick' = [tick EXCEPT ![i] = @ + 1]
    /\ SetIfAbsent(t) \/ UNCHANGED key
    /\ Hold(i, Sentinel, "job")

\* The job returns or throws; a sentinel is not released.
EndJob(i) ==
    /\ pc[i] = "job"
    /\ IF token[i] = Sentinel THEN Hold(i, NoToken, "idle") ELSE Hold(i, token[i], "get")
    /\ UNCHANGED <<key, tick>>

releaseLock(i) ==
    /\ pc[i] = "get"
    /\ IF key = token[i] THEN Hold(i, token[i], "del") ELSE Hold(i, NoToken, "idle")
    /\ UNCHANGED <<key, tick>>

Delete(i) ==
    /\ pc[i] = "del"
    /\ key' = NoToken
    /\ Hold(i, NoToken, "idle")
    /\ UNCHANGED tick

\* Errors of a release are ignored.
releaseFails(i) ==
    /\ pc[i] \in {"get", "del"}
    /\ "redis" \in Faults
    /\ \/ UNCHANGED key
       \/ pc[i] = "del" /\ key' = NoToken
    /\ Hold(i, NoToken, "idle")
    /\ UNCHANGED tick

Owned == \E i \in Instance : token[i] = key

Expire ==
    /\ key # NoToken
    /\ Owned => "late" \in Faults
    /\ key' = NoToken
    /\ UNCHANGED <<pc, token, tick>>

Crash(i) ==
    /\ "crash" \in Faults
    /\ pc[i] # "idle"
    /\ Hold(i, NoToken, "idle")
    /\ UNCHANGED <<key, tick>>

Step(i) ==
    \/ acquireLock(i) \/ acquireFails(i) \/ EndJob(i)
    \/ releaseLock(i) \/ Delete(i) \/ releaseFails(i) \/ Crash(i)

Next == Expire \/ \E i \in Instance : Step(i)

Spec == Init /\ [][Next]_vars
-----------------------------------------------------------------------------
(***************************************************************************)
(* Properties.                                                             *)
(***************************************************************************)

(***************************************************************************)
(* Two instances run the job at once only when one of them failed open     *)
(* after a Redis error: crashes, skipped ticks, failing releases and keys  *)
(* that nobody releases never give the lock to a second instance.          *)
(***************************************************************************)
MutualExclusion ==
    \A i, j \in Instance :
        pc[i] = "job" /\ pc[j] = "job" /\ Sentinel \notin {token[i], token[j]} => i = j

(***************************************************************************)
(* A release never deletes a lock that another instance has acquired.      *)
(***************************************************************************)
OwnLockOnly ==
    [][\A i \in Instance :
           pc[i] = "del" /\ pc'[i] = "idle" /\ key # NoToken /\ key' = NoToken
               => key = token[i]]_vars

(***************************************************************************)
(* Whatever fails but the clock, an instance that was given a token still  *)
(* has its key until it is done: nobody else was given one meanwhile.      *)
(***************************************************************************)
HeldIsKey ==
    \A i \in Instance :
        /\ pc[i] = "idle" => token[i] = NoToken
        /\ pc[i] # "idle" => token[i] # NoToken
        /\ pc[i] \in {"get", "del"} => token[i] # Sentinel
        /\ pc[i] # "idle" /\ token[i] # Sentinel => token[i] = key /\ key[1] = i
=============================================================================
