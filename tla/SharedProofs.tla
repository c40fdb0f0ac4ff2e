---------------------------- MODULE SharedProofs ----------------------------
(***************************************************************************)
(* Proofs about what requests and processes share: in Redis the lock of    *)
(* the scheduled jobs, the token pairs of the users, the cache of what a   *)
(* user may do; in PostgreSQL a customer's points, coupon and credit.  For *)
(* any number of instances, calls, lookups, changes and requests.          *)
(***************************************************************************)
EXTENDS DistributedLock, Sessions, AuthCache, SaleAccounts, DataLemmas

(***************************************************************************)
(* The lock.  The invariant is TypeOK and HeldIsKey: an instance between   *)
(* its acquisition and its release has its own token in the key, so two of *)
(* them are the same instance.  It needs the expiration not to pass early. *)
(***************************************************************************)

(***************************************************************************)
(* Type correctness of the lock, whatever goes wrong.                      *)
(***************************************************************************)
THEOREM LockTypes == Spec => []TypeOK
<1>1. Init => TypeOK
  BY TickAssumption DEF Init, TypeOK
<1>2. TypeOK /\ [Next]_vars => TypeOK'
  <2> SUFFICES ASSUME TypeOK, [Next]_vars PROVE TypeOK'
    OBVIOUS
  <2> USE TickAssumption DEF TypeOK, Hold
  <2>1. ASSUME NEW i \in Instance, acquireLock(i) PROVE TypeOK'
    <3>1. tick[i] + 1 \in 1 .. Ticks
      BY <2>1 DEF acquireLock
    <3> QED
      BY <2>1, <3>1 DEF acquireLock, SetIfAbsent, Token
  <2>2. ASSUME NEW i \in Instance, acquireFails(i) PROVE TypeOK'
    <3>1. tick[i] + 1 \in 1 .. Ticks
      BY <2>2 DEF acquireFails
    <3> QED
      BY <2>2, <3>1 DEF acquireFails, SetIfAbsent, Token
  <2>3. ASSUME NEW i \in Instance, EndJob(i) PROVE TypeOK'
    BY <2>3 DEF EndJob
  <2>4. ASSUME NEW i \in Instance, releaseLock(i) PROVE TypeOK'
    BY <2>4 DEF releaseLock
  <2>5. ASSUME NEW i \in Instance, Delete(i) PROVE TypeOK'
    BY <2>5 DEF Delete
  <2>6. ASSUME NEW i \in Instance, releaseFails(i) PROVE TypeOK'
    BY <2>6 DEF releaseFails
  <2>7. ASSUME NEW i \in Instance, Crash(i) PROVE TypeOK'
    BY <2>7 DEF Crash
  <2>8. CASE Expire
    BY <2>8 DEF Expire
  <2>9. CASE UNCHANGED vars
    BY <2>9 DEF vars
  <2> QED
    BY <2>1, <2>2, <2>3, <2>4, <2>5, <2>6, <2>7, <2>8, <2>9 DEF Next, Step
<1> QED
  BY <1>1, <1>2, PTL DEF Spec

(***************************************************************************)
(* A step keeps HeldIsKey when the expiration cannot pass under its owner. *)
(***************************************************************************)
LEMMA HeldStep ==
    ASSUME "late" \notin Faults, TypeOK, HeldIsKey, [Next]_vars
    PROVE  HeldIsKey'
<1> USE TokenAssumption DEF TypeOK, HeldIsKey, Hold
<1>1. ASSUME NEW i \in Instance, acquireLock(i) PROVE HeldIsKey'
  <2> DEFINE t == <<i, tick[i] + 1>>
  <2>1. t \in Token /\ t[1] = i
    BY <1>1, TickAssumption DEF acquireLock, Token
  <2>2. CASE SetIfAbsent(t) /\ Hold(i, t, "job")
    <3>1. \A j \in Instance : pc[j] # "idle" => token[j] = Sentinel
      BY <2>2 DEF SetIfAbsent
    <3> HIDE DEF t
    <3> QED
      BY <2>1, <2>2, <3>1 DEF SetIfAbsent
  <2>3. CASE UNCHANGED <<key, pc, token>>
    BY <2>3
  <2> QED
    BY <1>1, <2>2, <2>3 DEF acquireLock
<1>2. ASSUME NEW i \in Instance, acquireFails(i) PROVE HeldIsKey'
  <2> DEFINE t == <<i, tick[i] + 1>>
  <2>1. CASE SetIfAbsent(t)
    <3>1. \A j \in Instance : pc[j] # "idle" => token[j] = Sentinel
      BY <2>1 DEF SetIfAbsent
    <3> QED
      BY <1>2, <3>1 DEF acquireFails
  <2>2. CASE UNCHANGED key
    BY <1>2, <2>2 DEF acquireFails
  <2> QED
    BY <1>2, <2>1, <2>2 DEF acquireFails
<1>3. ASSUME NEW i \in Instance, EndJob(i) PROVE HeldIsKey'
  BY <1>3 DEF EndJob
<1>4. ASSUME NEW i \in Instance, releaseLock(i) PROVE HeldIsKey'
  BY <1>4 DEF releaseLock
<1>5. ASSUME NEW i \in Instance, pc[i] = "del", key' = NoToken, Hold(i, NoToken, "idle")
      PROVE  HeldIsKey'
  <2>1. \A j \in Instance \ {i} : pc[j] # "idle" => token[j] = Sentinel
    BY <1>5
  <2> QED
    BY <1>5, <2>1
<1>6. ASSUME NEW i \in Instance, UNCHANGED key, Hold(i, NoToken, "idle")
      PROVE  HeldIsKey'
  BY <1>6
<1>7. CASE Expire
  <2>1. \A j \in Instance : pc[j] # "idle" => token[j] = Sentinel
    BY <1>7 DEF Expire, Owned
  <2> QED
    BY <1>7, <2>1 DEF Expire
<1>8. CASE UNCHANGED vars
  BY <1>8 DEF vars
<1> QED
  BY <1>1, <1>2, <1>3, <1>4, <1>5, <1>6, <1>7, <1>8
     DEF Next, Step, Delete, releaseFails, Crash

(***************************************************************************)
(* Every instance with a token owns the key, whatever fails but the clock. *)
(***************************************************************************)
THEOREM TokenIsKey == ASSUME "late" \notin Faults PROVE Spec => []HeldIsKey
<1>1. ASSUME Init PROVE HeldIsKey
  <2>1. \A i \in Instance : pc[i] = "idle" /\ token[i] = NoToken
    BY <1>1 DEF Init
  <2> QED
    BY <2>1 DEF HeldIsKey
<1>2. TypeOK /\ HeldIsKey /\ [Next]_vars => HeldIsKey'
  BY HeldStep
<1> QED
  BY <1>1, <1>2, LockTypes, PTL DEF Spec

(***************************************************************************)
(* Without a Redis error no instance runs on the sentinel.                 *)
(***************************************************************************)
NoSentinel == \A i \in Instance : token[i] # Sentinel

LEMMA NeverOpen == ASSUME "redis" \notin Faults PROVE Spec => []NoSentinel
<1>1. Init => NoSentinel
  BY TokenAssumption DEF Init, NoSentinel
<1>2. TypeOK /\ NoSentinel /\ [Next]_vars => NoSentinel'
  <2> SUFFICES ASSUME TypeOK, NoSentinel, [Next]_vars PROVE NoSentinel'
    OBVIOUS
  <2> USE TokenAssumption DEF TypeOK, NoSentinel, Hold
  <2>1. ASSUME NEW i \in Instance, acquireLock(i) PROVE NoSentinel'
    <3>1. <<i, tick[i] + 1>> \in Token
      BY <2>1, TickAssumption DEF acquireLock, Token
    <3> QED
      BY <2>1, <3>1 DEF acquireLock
  <2>2. ASSUME NEW i \in Instance, Step(i), ~acquireLock(i) PROVE NoSentinel'
    BY <2>2 DEF Step, acquireFails, EndJob, releaseLock, Delete, releaseFails, Crash
  <2>3. CASE Expire \/ UNCHANGED vars
    BY <2>3 DEF Expire, vars
  <2> QED
    BY <2>1, <2>2, <2>3 DEF Next
<1> QED
  BY <1>1, <1>2, LockTypes, PTL DEF Spec

(***************************************************************************)
(* The scheduled job runs in one instance at a time, but for an instance   *)
(* that failed open, while no job outlives its lock.                       *)
(***************************************************************************)
THEOREM OneRuns == ASSUME "late" \notin Faults PROVE Spec => []MutualExclusion
<1>1. HeldIsKey => MutualExclusion
  BY DEF HeldIsKey, MutualExclusion
<1> QED
  BY <1>1, TokenIsKey, PTL

(***************************************************************************)
(* While Redis answers besides, no two instances run the job at once.      *)
(***************************************************************************)
THEOREM OneRunsAtAll ==
    ASSUME "late" \notin Faults, "redis" \notin Faults
    PROVE  Spec => [](\A i, j \in Instance : pc[i] = "job" /\ pc[j] = "job" => i = j)
<1>1. MutualExclusion /\ NoSentinel =>
        \A i, j \in Instance : pc[i] = "job" /\ pc[j] = "job" => i = j
  BY DEF NoSentinel, MutualExclusion
<1> QED
  BY <1>1, OneRuns, NeverOpen, PTL

(***************************************************************************)
(* A release deletes the lock of its own instance only, while no job       *)
(* outlives its lock.                                                      *)
(***************************************************************************)
THEOREM ReleasesOwnLock == ASSUME "late" \notin Faults PROVE Spec => OwnLockOnly
<1>1. HeldIsKey /\ [Next]_vars =>
        [\A i \in Instance :
            pc[i] = "del" /\ pc'[i] = "idle" /\ key # NoToken /\ key' = NoToken
                => key = token[i]]_vars
  BY DEF HeldIsKey
<1> QED
  BY <1>1, TokenIsKey, PTL DEF Spec, OwnLockOnly
-----------------------------------------------------------------------------
(***************************************************************************)
(* The cache.  ChangeIsSeen speaks of lookups that have their answer.  It  *)
(* is carried by what can be said of the key before that: an entry older   *)
(* than an answered change was put there by a lookup that overlapped it.   *)
(***************************************************************************)

\* Lookup f was under way during change w and filled in what it had before.
Stale(f, w) ==
    /\ lookup[f].filled /\ lookup[f].seen < change[w].wrote
    /\ w \notin lookup[f].after /\ f \notin change[w].after

Bounded == \A w \in Change : change[w].wrote <= row

AnswersAreFinal ==
    /\ \A w \in Change : \A c \in change[w].after : lookup[c].pc \in {"ok", "failed"}
    /\ \A c \in Lookup : \A w \in lookup[c].after : change[w].pc = "ok"

FilledIsOk == \A c \in Lookup : lookup[c].filled => lookup[c].pc = "ok"

LoadedIsCurrent ==
    \A c \in Lookup : lookup[c].pc = "fill" =>
        \A w \in lookup[c].after : lookup[c].seen >= change[w].wrote

EntryIsExcused ==
    \A w \in Change : change[w].pc = "ok" /\ entry # Missing /\ entry < change[w].wrote =>
        \E f \in Lookup : Stale(f, w)

\* ChangeIsSeen with the excuse named.
SeenIsExcused ==
    \A c \in Lookup, w \in Change :
        /\ lookup[c].pc = "ok" /\ w \in lookup[c].after
        /\ lookup[c].seen < change[w].wrote
        => \E f \in Lookup : Stale(f, w)

CacheInv ==
    /\ CacheTypeOK
    /\ Bounded
    /\ AnswersAreFinal
    /\ FilledIsOk
    /\ LoadedIsCurrent
    /\ EntryIsExcused
    /\ SeenIsExcused
-----------------------------------------------------------------------------
LEMMA CacheTypeStep == ASSUME CacheTypeOK, [CacheNext]_cacheVars PROVE CacheTypeOK'
<1> USE DEF CacheTypeOK, Missing
<1>1. ASSUME NEW c \in Lookup, GetEntry(c) PROVE CacheTypeOK'
  BY <1>1 DEF GetEntry
<1>2. ASSUME NEW c \in Lookup, LoadRow(c) PROVE CacheTypeOK'
  BY <1>2, ZenonT(30) DEF LoadRow
<1>3. ASSUME NEW c \in Lookup, FillEntry(c) PROVE CacheTypeOK'
  BY <1>3, ZenonT(30) DEF FillEntry
<1>4. ASSUME NEW c \in Lookup, FailLookup(c) PROVE CacheTypeOK'
  BY <1>4 DEF FailLookup
<1>5. ASSUME NEW w \in Change, ChangeRow(w) PROVE CacheTypeOK'
  BY <1>5 DEF ChangeRow
<1>6. ASSUME NEW w \in Change, DropEntry(w) PROVE CacheTypeOK'
  BY <1>6 DEF DropEntry
<1>7. ASSUME NEW w \in Change, FailChange(w) PROVE CacheTypeOK'
  BY <1>7 DEF FailChange
<1>8. CASE EntryExpires
  BY <1>8 DEF EntryExpires
<1>9. CASE UNCHANGED cacheVars
  BY <1>9 DEF cacheVars
<1> QED BY <1>1, <1>2, <1>3, <1>4, <1>5, <1>6, <1>7, <1>8, <1>9 DEF CacheNext

\* A call that has its answer keeps it, and an excuse is one for good.
LEMMA ExcuseStays ==
    ASSUME CacheTypeOK, FilledIsOk, [CacheNext]_cacheVars,
           NEW f \in Lookup, NEW w \in Change, Stale(f, w), change[w].pc # "idle"
    PROVE  Stale(f, w)'
<1> USE DEF CacheTypeOK, Missing, FilledIsOk, Stale
<1>1. ASSUME NEW c \in Lookup, GetEntry(c) PROVE Stale(f, w)'
  BY <1>1 DEF GetEntry
<1>2. ASSUME NEW c \in Lookup, LoadRow(c) PROVE Stale(f, w)'
  BY <1>2 DEF LoadRow
<1>3. ASSUME NEW c \in Lookup, FillEntry(c) PROVE Stale(f, w)'
  BY <1>3 DEF FillEntry
<1>4. ASSUME NEW c \in Lookup, FailLookup(c) PROVE Stale(f, w)'
  BY <1>4 DEF FailLookup
<1>5. ASSUME NEW v \in Change, ChangeRow(v) PROVE Stale(f, w)'
  BY <1>5 DEF ChangeRow
<1>6. ASSUME NEW v \in Change, DropEntry(v) PROVE Stale(f, w)'
  BY <1>6 DEF DropEntry
<1>7. ASSUME NEW v \in Change, FailChange(v) PROVE Stale(f, w)'
  BY <1>7 DEF FailChange
<1>8. CASE EntryExpires
  BY <1>8 DEF EntryExpires
<1>9. CASE UNCHANGED cacheVars
  BY <1>9 DEF cacheVars
<1> QED BY <1>1, <1>2, <1>3, <1>4, <1>5, <1>6, <1>7, <1>8, <1>9 DEF CacheNext

LEMMA CacheInvInit == CacheInit => CacheInv
BY DEF CacheInit, CacheInv, CacheTypeOK, Bounded, AnswersAreFinal, FilledIsOk,
       LoadedIsCurrent, EntryIsExcused, SeenIsExcused, NotYet, Missing

LEMMA GetStep ==
    ASSUME CacheInv, NEW c \in Lookup, GetEntry(c), FilledIsOk'
    PROVE  Bounded' /\ AnswersAreFinal' /\ LoadedIsCurrent' /\ EntryIsExcused' /\ SeenIsExcused'
<1> USE CallAssumption DEF CacheInv, CacheTypeOK, GetEntry, Missing
<1>1. Bounded'
  BY DEF Bounded
<1>2. AnswersAreFinal'
  BY DEF AnswersAreFinal
<1>3. LoadedIsCurrent'
  BY DEF LoadedIsCurrent
<1>4. \A f \in Lookup, w \in Change : change[w].pc = "ok" /\ Stale(f, w) => Stale(f, w)'
  BY ExcuseStays DEF CacheNext
<1>5. EntryIsExcused'
  BY <1>4 DEF EntryIsExcused
<1>6. SeenIsExcused'
  <2> SUFFICES ASSUME NEW d \in Lookup, NEW w \in Change,
                      lookup'[d].pc = "ok", w \in lookup'[d].after,
                      lookup'[d].seen < change'[w].wrote
               PROVE  \E f \in Lookup : Stale(f, w)'
    BY DEF SeenIsExcused
  <2>1. CASE d = c
    BY <1>4, <2>1 DEF EntryIsExcused
  <2>2. CASE d # c
    BY <1>4, <2>2 DEF SeenIsExcused, AnswersAreFinal
  <2> QED BY <2>1, <2>2
<1> QED BY <1>1, <1>2, <1>3, <1>5, <1>6

LEMMA LoadStep ==
    ASSUME CacheInv, NEW c \in Lookup, LoadRow(c)
    PROVE  Bounded' /\ AnswersAreFinal' /\ LoadedIsCurrent' /\ EntryIsExcused' /\ SeenIsExcused'
<1> USE CallAssumption DEF CacheInv, CacheTypeOK, LoadRow, Missing
<1>1. Bounded'
  BY DEF Bounded
<1>2. AnswersAreFinal'
  BY DEF AnswersAreFinal
<1>3. LoadedIsCurrent'
  BY DEF LoadedIsCurrent, Bounded
<1>4. \A f \in Lookup, w \in Change : change[w].pc = "ok" /\ Stale(f, w) => Stale(f, w)'
  BY ExcuseStays DEF CacheNext
<1>5. EntryIsExcused'
  BY <1>4 DEF EntryIsExcused
<1>6. SeenIsExcused'
  BY <1>4 DEF SeenIsExcused, AnswersAreFinal
<1> QED BY <1>1, <1>2, <1>3, <1>5, <1>6

\* What a lookup fills in is older than an answered change only if the
\* lookup overlapped it: it is its own excuse.
LEMMA FillStep ==
    ASSUME CacheInv, NEW c \in Lookup, FillEntry(c)
    PROVE  Bounded' /\ AnswersAreFinal' /\ LoadedIsCurrent' /\ EntryIsExcused' /\ SeenIsExcused'
<1> USE CallAssumption DEF CacheInv, CacheTypeOK, FillEntry, Missing
<1>1. Bounded'
  BY DEF Bounded
<1>2. AnswersAreFinal'
  BY DEF AnswersAreFinal
<1>3. LoadedIsCurrent'
  BY DEF LoadedIsCurrent
<1>4. \A f \in Lookup, w \in Change : change[w].pc = "ok" /\ Stale(f, w) => Stale(f, w)'
  BY ExcuseStays DEF CacheNext
<1>5. EntryIsExcused'
  <2> SUFFICES ASSUME NEW w \in Change, change[w].pc = "ok", lookup[c].seen < change[w].wrote
               PROVE  Stale(c, w)'
    BY DEF EntryIsExcused
  <2>1. w \notin lookup[c].after
    BY DEF LoadedIsCurrent
  <2>2. c \notin change[w].after
    BY DEF AnswersAreFinal
  <2> QED BY <2>1, <2>2 DEF Stale
<1>6. SeenIsExcused'
  BY <1>4 DEF SeenIsExcused, AnswersAreFinal, LoadedIsCurrent
<1> QED BY <1>1, <1>2, <1>3, <1>5, <1>6

LEMMA FailLookupStep ==
    ASSUME CacheInv, NEW c \in Lookup, FailLookup(c)
    PROVE  Bounded' /\ AnswersAreFinal' /\ LoadedIsCurrent' /\ EntryIsExcused' /\ SeenIsExcused'
<1> USE CallAssumption DEF CacheInv, CacheTypeOK, FailLookup, Missing
<1>1. Bounded'
  BY DEF Bounded
<1>2. AnswersAreFinal'
  BY DEF AnswersAreFinal
<1>3. LoadedIsCurrent'
  BY DEF LoadedIsCurrent
<1>4. \A f \in Lookup, w \in Change : change[w].pc = "ok" /\ Stale(f, w) => Stale(f, w)'
  BY ExcuseStays DEF CacheNext
<1>5. EntryIsExcused'
  BY <1>4 DEF EntryIsExcused
<1>6. SeenIsExcused'
  BY <1>4 DEF SeenIsExcused, AnswersAreFinal
<1> QED BY <1>1, <1>2, <1>3, <1>5, <1>6

LEMMA ChangeStep ==
    ASSUME CacheInv, NEW v \in Change, ChangeRow(v) \/ DropEntry(v) \/ FailChange(v)
    PROVE  Bounded' /\ AnswersAreFinal' /\ LoadedIsCurrent' /\ EntryIsExcused' /\ SeenIsExcused'
<1> USE CallAssumption DEF CacheInv, CacheTypeOK, ChangeRow, DropEntry, FailChange, Missing
<1>1. Bounded'
  BY DEF Bounded
<1>2. AnswersAreFinal'
  BY DEF AnswersAreFinal
<1>3. LoadedIsCurrent'
  BY DEF LoadedIsCurrent, AnswersAreFinal
<1>4. \A f \in Lookup, w \in Change : change[w].pc = "ok" /\ Stale(f, w) => Stale(f, w)'
  BY ExcuseStays DEF CacheNext
<1>5. EntryIsExcused'
  BY <1>4 DEF EntryIsExcused
<1>6. SeenIsExcused'
  BY <1>4 DEF SeenIsExcused, AnswersAreFinal
<1> QED BY <1>1, <1>2, <1>3, <1>5, <1>6

LEMMA ExpireStep ==
    ASSUME CacheInv, EntryExpires
    PROVE  Bounded' /\ AnswersAreFinal' /\ LoadedIsCurrent' /\ EntryIsExcused' /\ SeenIsExcused'
BY DEF CacheInv, EntryExpires, Bounded, AnswersAreFinal, LoadedIsCurrent, EntryIsExcused,
       SeenIsExcused, Stale

LEMMA CacheInvStep == CacheInv /\ [CacheNext]_cacheVars => CacheInv'
<1> SUFFICES ASSUME CacheInv, [CacheNext]_cacheVars PROVE CacheInv'
  OBVIOUS
<1>1. CacheTypeOK'
  BY CacheTypeStep DEF CacheInv
<1>2. FilledIsOk'
  <2> USE DEF CacheInv, CacheTypeOK, FilledIsOk
  <2>1. ASSUME NEW c \in Lookup, GetEntry(c) \/ LoadRow(c) PROVE FilledIsOk'
    BY <2>1 DEF GetEntry, LoadRow
  <2>2. ASSUME NEW c \in Lookup, FillEntry(c) \/ FailLookup(c) PROVE FilledIsOk'
    BY <2>2 DEF FillEntry, FailLookup
  <2>3. ASSUME NEW v \in Change, ChangeRow(v) \/ DropEntry(v) \/ FailChange(v)
        PROVE  FilledIsOk'
    BY <2>3 DEF ChangeRow, DropEntry, FailChange
  <2>4. CASE EntryExpires
    BY <2>4 DEF EntryExpires
  <2>5. CASE UNCHANGED cacheVars
    BY <2>5 DEF cacheVars
  <2> QED BY <2>1, <2>2, <2>3, <2>4, <2>5 DEF CacheNext
<1>3. Bounded' /\ AnswersAreFinal' /\ LoadedIsCurrent' /\ EntryIsExcused' /\ SeenIsExcused'
  <2>1. CASE UNCHANGED cacheVars
    BY <2>1 DEF cacheVars, CacheInv, Bounded, AnswersAreFinal, LoadedIsCurrent, EntryIsExcused,
                SeenIsExcused, Stale
  <2>2. ASSUME NEW c \in Lookup, GetEntry(c) \/ LoadRow(c) \/ FillEntry(c) \/ FailLookup(c)
        PROVE  Bounded' /\ AnswersAreFinal' /\ LoadedIsCurrent' /\ EntryIsExcused' /\ SeenIsExcused'
    BY <1>2, <2>2, GetStep, LoadStep, FillStep, FailLookupStep
  <2>3. ASSUME NEW v \in Change, ChangeRow(v) \/ DropEntry(v) \/ FailChange(v)
        PROVE  Bounded' /\ AnswersAreFinal' /\ LoadedIsCurrent' /\ EntryIsExcused' /\ SeenIsExcused'
    BY <2>3, ChangeStep
  <2>4. CASE EntryExpires
    BY <2>4, ExpireStep
  <2> QED BY <2>1, <2>2, <2>3, <2>4 DEF CacheNext
<1> QED BY <1>1, <1>2, <1>3 DEF CacheInv

LEMMA CacheInvHolds == CacheSpec => []CacheInv
BY CacheInvInit, CacheInvStep, PTL DEF CacheSpec

\* Every variable of the cache model keeps its type.
THEOREM CacheTypes == CacheSpec => []CacheTypeOK
<1>1. CacheInv => CacheTypeOK
  BY DEF CacheInv
<1> QED BY <1>1, CacheInvHolds, PTL

\* For any number of lookups and changes of a cached row: a lookup that
\* comes after the answer to a change sees it, or a later one, unless a
\* lookup that overlapped the change has filled in what it had read before.
THEOREM ChangesAreSeen == CacheSpec => []ChangeIsSeen
<1>1. CacheInv => ChangeIsSeen
  BY DEF CacheInv, SeenIsExcused, ChangeIsSeen, Stale
<1> QED BY <1>1, CacheInvHolds, PTL
-----------------------------------------------------------------------------
(***************************************************************************)
(* Sessions.  A pair is held by its key in Redis, by the refresh that is   *)
(* about to store it, and by a refresh that has found its key: while a     *)
(* login has not forked, whatever is held of it is one pair.               *)
(***************************************************************************)
NewTickets ==
    \A c \in Ticket : /\ ticket[c].pc = "idle" <=> ticket[c].kind = "none"
                      /\ ticket[c].pc = "idle" => ticket[c] = NoCallYet

KindsOfSteps ==
    \A c \in Ticket :
        /\ ticket[c].pc \in {"rotate", "store"} => ticket[c].kind = "refresh"
        /\ ticket[c].pc \in {"revoke", "forget"} => ticket[c].kind = "logout"

\* A call belongs to the login of its token, and that login has begun.
TokensAreIssued ==
    \A c \in Ticket : ticket[c].kind # "none" =>
        /\ ticket[c].kind # "login" => ticket[c].token \in Issued /\ SameLogin(c, ticket[c].token)
        /\ ticket[c].sst = ticket[c].login
        /\ ticket[c].login \in Ticket /\ ticket[ticket[c].login].kind = "login"

AnsweredBefore ==
    \A c \in Ticket : \A d \in ticket[c].after : ticket[d].pc \in {"ok", "failed"}

LiveIsIssued == live \subseteq Issued

\* No call gets beyond its check after the length of its session.
LateIsOver ==
    \A c \in Ticket : ticket[c].late => /\ ticket[c].login \in over
                                        /\ ticket[c].pc \in {"rotate", "failed"}

Holds(c, t) ==
    \/ c \in live /\ t = c
    \/ ticket[c].pc = "store" /\ t = c
    \/ ticket[c].pc = "rotate" /\ t = ticket[c].token

HasForked(c) == \E f \in Ticket : SameLogin(f, c) /\ Forked(f)

OneIsHeld ==
    \A c, d \in Ticket, s, t \in Ticket :
        Holds(c, s) /\ Holds(d, t) /\ SameLogin(c, d) => s = t \/ HasForked(c)

\* The pair of logout l was being replaced, or had been, when l came.
Replaced(l) ==
    \E d \in Ticket : /\ ticket[d].kind = "refresh" /\ l \notin ticket[d].after
                      /\ ticket[d].token = ticket[l].token

LoggedOut(l) == ticket[l].kind = "logout" /\ ticket[l].pc = "ok"

\* Why the key of a pair that was issued is gone.
KeysAreTaken ==
    \A t \in Issued : t \notin live =>
        \E d \in Ticket : ticket[d].token = t /\ (ticket[d].kind = "refresh" \/ LoggedOut(d))

Excused(l) == Replaced(l) \/ HasForked(l)

NothingHeld(l) == \A c, t \in Ticket : Holds(c, t) => ~SameLogin(c, l)

LogoutTakesAll == \A l \in Ticket : LoggedOut(l) => Excused(l) \/ NothingHeld(l)

LogoutTakesTokens ==
    \A l \in Ticket : ticket[l].kind = "logout" =>
        /\ ticket[l].pc \in {"forget", "ok"} => ticket[l].token \in revoked \cup expired
        /\ ticket[l].pc = "ok" => ticket[l].token \notin live

\* LoginEnds, for calls that are not answered too.
RefusedAfter ==
    \A l, c \in Ticket : LoggedOut(l) /\ l \in ticket[c].after /\ ticket[c].pc # "failed" =>
        /\ ticket[c].token # ticket[l].token
        /\ ticket[c].kind = "refresh" /\ SameLogin(c, l) => Excused(l)

SessionsInv ==
    /\ SessionsTypeOK
    /\ NewTickets
    /\ KindsOfSteps
    /\ TokensAreIssued
    /\ AnsweredBefore
    /\ LiveIsIssued
    /\ LateIsOver
    /\ OneIsHeld
    /\ KeysAreTaken
    /\ LogoutTakesAll
    /\ LogoutTakesTokens
    /\ RefusedAfter
-----------------------------------------------------------------------------
(***************************************************************************)
(* A call keeps what it brought, and its answer.                           *)
(***************************************************************************)
CallsStay ==
    \A c \in Ticket : ticket[c].kind # "none" =>
        /\ ticket'[c].kind = ticket[c].kind /\ ticket'[c].token = ticket[c].token
        /\ ticket'[c].sst = ticket[c].sst /\ ticket'[c].login = ticket[c].login
        /\ ticket'[c].after = ticket[c].after /\ ticket'[c].late = ticket[c].late
        /\ ticket[c].pc \in {"ok", "failed"} => ticket'[c].pc = ticket[c].pc

\* A fork is for good, and so is what a logout came after.
LEMMA ExcusesStay ==
    ASSUME TokensAreIssued, CallsStay, SessionsTypeOK
    PROVE  /\ \A c \in Ticket : ticket[c].kind # "none" /\ HasForked(c) => HasForked(c)'
           /\ \A l \in Ticket : ticket[l].kind # "none" /\ Excused(l) => Excused(l)'
           /\ \A l \in Ticket : LoggedOut(l) => LoggedOut(l)'
           /\ Issued \subseteq Issued'
<1>1. \A c \in Ticket : ticket[c].kind # "none" /\ HasForked(c) => HasForked(c)'
  <2> SUFFICES ASSUME NEW c \in Ticket, ticket[c].kind # "none",
                      NEW f \in Ticket, SameLogin(f, c), Forked(f)
               PROVE  SameLogin(f, c)' /\ Forked(f)'
    BY DEF HasForked
  <2>1. PICK a, b \in Ticket :
          /\ a # b /\ a \notin ticket[b].after /\ b \notin ticket[a].after
          /\ ticket[a].kind = "refresh" /\ ticket[a].token = f
          /\ ticket[b].kind = "refresh" /\ ticket[b].token = f
    BY DEF Forked
  <2>2. f \in Issued
    BY <2>1 DEF TokensAreIssued
  <2>3. ticket[f].kind # "none"
    BY <2>2 DEF Issued
  <2>4. SameLogin(f, c)'
    BY <2>3 DEF CallsStay, SameLogin
  <2> QED BY <2>1, <2>4 DEF CallsStay, Forked
<1>2. \A l \in Ticket : ticket[l].kind # "none" /\ Replaced(l) => Replaced(l)'
  BY DEF Replaced, CallsStay
<1>3. \A l \in Ticket : LoggedOut(l) => LoggedOut(l)'
  BY DEF LoggedOut, CallsStay
<1>4. Issued \subseteq Issued'
  BY DEF Issued, CallsStay
<1> QED BY <1>1, <1>2, <1>3, <1>4 DEF Excused

\* A step after which every pair that is held was held before, by a call of
\* the same login.
LEMMA LessIsHeld ==
    ASSUME SessionsInv, CallsStay,
           \A c, s \in Ticket : Holds(c, s)' =>
               \E d \in Ticket : Holds(d, s) /\ ticket'[c].login = ticket[d].login
    PROVE  /\ OneIsHeld'
           /\ \A l \in Ticket : LoggedOut(l) => Excused(l)' \/ NothingHeld(l)'
<1>1. /\ \A c \in Ticket : ticket[c].kind # "none" /\ HasForked(c) => HasForked(c)'
      /\ \A l \in Ticket : ticket[l].kind # "none" /\ Excused(l) => Excused(l)'
  BY ExcusesStay DEF SessionsInv
<1>2. \A c, t \in Ticket : Holds(c, t) => ticket[c].kind # "none"
  BY DEF SessionsInv, LiveIsIssued, Issued, NewTickets, Holds
<1>3. OneIsHeld'
  <2> SUFFICES ASSUME NEW c \in Ticket, NEW d \in Ticket, NEW s \in Ticket, NEW t \in Ticket,
                      Holds(c, s)', Holds(d, t)', SameLogin(c, d)', s # t
               PROVE  HasForked(c)'
    BY DEF OneIsHeld
  <2>1. PICK a \in Ticket : Holds(a, s) /\ ticket'[c].login = ticket[a].login
    OBVIOUS
  <2>2. PICK b \in Ticket : Holds(b, t) /\ ticket'[d].login = ticket[b].login
    OBVIOUS
  <2>3. HasForked(a)
    BY <2>1, <2>2 DEF SessionsInv, OneIsHeld, SameLogin
  <2>4. HasForked(a)' /\ ticket'[a].login = ticket'[c].login
    BY <1>1, <1>2, <2>1, <2>3 DEF CallsStay
  <2> QED BY <2>4 DEF HasForked, SameLogin
<1>4. ASSUME NEW l \in Ticket, LoggedOut(l), ~Excused(l) PROVE NothingHeld(l)'
  BY <1>4 DEF SessionsInv, LogoutTakesAll, NothingHeld, SameLogin, LoggedOut, CallsStay
<1> QED BY <1>1, <1>3, <1>4 DEF LoggedOut
LEMMA SessionsInvInit == SessionsInit => SessionsInv
<1> SUFFICES ASSUME SessionsInit PROVE SessionsInv
  OBVIOUS
<1> USE TicketAssumption DEF SessionsInit, NoCallYet, Busy
<1>1. SessionsTypeOK
  BY DEF SessionsTypeOK
<1>2. NewTickets
  BY DEF NewTickets
<1>3. KindsOfSteps
  BY DEF KindsOfSteps
<1>4. TokensAreIssued
  BY DEF TokensAreIssued, Issued, SameLogin
<1>5. AnsweredBefore
  BY DEF AnsweredBefore
<1>6. LiveIsIssued
  BY DEF LiveIsIssued, Issued
<1>7. LateIsOver
  BY DEF LateIsOver
<1>8. OneIsHeld
  BY DEF OneIsHeld, Holds, SameLogin
<1>9. KeysAreTaken
  BY DEF KeysAreTaken, Issued, LoggedOut
<1>10. LogoutTakesAll
  BY DEF LogoutTakesAll, Holds, SameLogin, LoggedOut
<1>11. LogoutTakesTokens
  BY DEF LogoutTakesTokens
<1>12. RefusedAfter
  BY DEF RefusedAfter, LoggedOut, SameLogin
<1> QED BY <1>1, <1>2, <1>3, <1>4, <1>5, <1>6, <1>7, <1>8, <1>9, <1>10, <1>11, <1>12 DEF SessionsInv

LEMMA LoginStep ==
    ASSUME SessionsInv, NEW c \in Ticket, Login(c)
    PROVE  SessionsInv'
<1> USE TicketAssumption DEF SessionsInv, SessionsTypeOK, Busy
<1>1. PICK x \in [pc : {"idle", "ok", "failed"} \cup Busy,
                  kind : {"none", "login", "refresh", "logout", "use"},
                  token : Ticket \cup {NoTicket}, sst : Ticket \cup {NoTicket},
                  login : Ticket \cup {NoTicket}, after : SUBSET Ticket, late : BOOLEAN] :
         /\ ticket' = [ticket EXCEPT ![c] = x]
         /\ x.pc = "ok" /\ x.kind = "login" /\ x.token = NoTicket /\ x.sst = c /\ x.login = c
         /\ x.after = {} /\ ~x.late
  BY DEF Login, NewTickets, NoCallYet
<1>2. /\ ticket[c].pc = "idle" /\ ticket[c].kind = "none" /\ live' = live \cup {c}
      /\ UNCHANGED <<revoked, expired, over>>
  BY DEF Login, NewTickets
<1>3. CallsStay
  BY <1>1, <1>2 DEF CallsStay
<1>4. /\ \A d \in Ticket : ticket[d].kind # "none" /\ HasForked(d) => HasForked(d)'
      /\ \A l \in Ticket : ticket[l].kind # "none" /\ Excused(l) => Excused(l)'
      /\ \A l \in Ticket : LoggedOut(l) => LoggedOut(l)'
      /\ Issued \subseteq Issued'
  BY <1>3, ExcusesStay
<1>5. SessionsTypeOK'
  BY <1>1, <1>2, <1>3, <1>4 DEF SessionsTypeOK
<1>6. NewTickets'
  BY <1>1, <1>2, <1>3, <1>4 DEF NewTickets
<1>7. KindsOfSteps'
  BY <1>1, <1>2, <1>3, <1>4 DEF KindsOfSteps
<1>8. TokensAreIssued'
  BY <1>1, <1>2, <1>3, <1>4 DEF TokensAreIssued, Issued, SameLogin
<1>9. AnsweredBefore'
  BY <1>1, <1>2, <1>3, <1>4 DEF AnsweredBefore
<1>10. LiveIsIssued'
  BY <1>1, <1>2, <1>3, <1>4 DEF LiveIsIssued, Issued
<1>11. LateIsOver'
  BY <1>1, <1>2, <1>3, <1>4 DEF LateIsOver
<1>12. OneIsHeld'
  <2>1. ASSUME NEW d \in Ticket, NEW t \in Ticket, Holds(d, t)'
        PROVE  \/ d = c /\ t = c /\ ticket'[d].login = c
               \/ /\ Holds(d, t) /\ ticket[d].kind # "none" /\ ticket'[d].login = ticket[d].login
                  /\ ticket[d].login # c
    <3>1. CASE d = c
      BY <1>1, <1>2, <2>1, <3>1 DEF Holds
    <3>2. CASE d # c
      <4>1. Holds(d, t)
        BY <1>1, <1>2, <2>1, <3>2 DEF Holds
      <4>2. ticket[d].kind # "none"
        BY <4>1 DEF Holds, LiveIsIssued, Issued, NewTickets
      <4> QED BY <1>2, <1>3, <4>1, <4>2 DEF TokensAreIssued, CallsStay
    <3> QED BY <3>1, <3>2
  <2> SUFFICES ASSUME NEW a \in Ticket, NEW b \in Ticket, NEW s \in Ticket, NEW t \in Ticket,
                      Holds(a, s)', Holds(b, t)', ticket'[a].login = ticket'[b].login, s # t
               PROVE  HasForked(a)'
    BY DEF OneIsHeld, SameLogin
  <2>2. /\ Holds(a, s) /\ ticket[a].kind # "none" /\ ticket'[a].login = ticket[a].login
        /\ Holds(b, t) /\ ticket'[b].login = ticket[b].login
    BY <2>1
  <2>3. HasForked(a)
    BY <2>2 DEF OneIsHeld, SameLogin
  <2> QED BY <1>4, <2>2, <2>3
<1>13. KeysAreTaken'
  BY <1>1, <1>2, <1>3, <1>4 DEF KeysAreTaken, Issued, LoggedOut
<1>14. LogoutTakesAll'
  <2> SUFFICES ASSUME NEW l \in Ticket, LoggedOut(l), NothingHeld(l),
                      NEW d \in Ticket, NEW t \in Ticket, Holds(d, t)'
               PROVE  ~SameLogin(d, l)'
    BY <1>1, <1>2, <1>4 DEF LogoutTakesAll, LoggedOut, NothingHeld
  <2>1. l # c /\ ticket[l].kind # "none" /\ ticket[l].login # c
    BY <1>2 DEF LoggedOut, TokensAreIssued
  <2>2. CASE d = c
    BY <1>1, <1>3, <2>1, <2>2 DEF SameLogin, CallsStay
  <2>3. CASE d # c
    <3>1. Holds(d, t)
      BY <1>1, <1>2, <2>3 DEF Holds
    <3> QED BY <1>1, <2>1, <2>3, <3>1 DEF NothingHeld, SameLogin
  <2> QED BY <2>2, <2>3
<1>15. LogoutTakesTokens'
  <2>1. \A l \in Ticket : ticket[l].kind = "logout" => ticket[l].token # c
    BY <1>2 DEF TokensAreIssued, Issued
  <2> QED BY <1>1, <1>2, <2>1 DEF LogoutTakesTokens
<1>16. RefusedAfter'
  BY <1>1, <1>2, <1>3, <1>4 DEF RefusedAfter, LoggedOut, SameLogin
<1> QED BY <1>5, <1>6, <1>7, <1>8, <1>9, <1>10, <1>11, <1>12, <1>13, <1>14, <1>15, <1>16

LEMMA ComeStep ==
    ASSUME SessionsInv, NEW c \in Ticket, NEW t \in Ticket, RefreshCheck(c, t) \/ Use(c, t) \/ Logout(c, t)
    PROVE  SessionsInv'
<1> USE TicketAssumption DEF SessionsInv, SessionsTypeOK, Busy
<1>1. PICK x \in [pc : {"idle", "ok", "failed"} \cup Busy,
                  kind : {"none", "login", "refresh", "logout", "use"},
                  token : Ticket \cup {NoTicket}, sst : Ticket \cup {NoTicket},
                  login : Ticket \cup {NoTicket}, after : SUBSET Ticket, late : BOOLEAN] :
         /\ ticket' = [ticket EXCEPT ![c] = x]
         /\ x.kind \in {"refresh", "use", "logout"} /\ x.token = t /\ x.sst = ticket[t].sst
         /\ x.login = ticket[t].login
         /\ x.late <=> ticket[t].login \in over
         /\ x.after = {d \in Ticket : ticket[d].pc \in {"ok", "failed"}}
         /\ \/ x.pc = "failed"
            \/ x.kind = "refresh" /\ x.pc = "rotate" /\ t \in live
            \/ x.kind = "use" /\ x.pc = "ok" /\ authenticated(t)
            \/ x.kind = "logout" /\ x.pc = "revoke" /\ authenticated(t)
  <2> DEFINE R == [pc : {"idle", "ok", "failed"} \cup Busy,
                   kind : {"none", "login", "refresh", "logout", "use"},
                   token : Ticket \cup {NoTicket}, sst : Ticket \cup {NoTicket},
                   login : Ticket \cup {NoTicket}, after : SUBSET Ticket, late : BOOLEAN]
             after == {d \in Ticket : ticket[d].pc \in {"ok", "failed"}}
             late == ticket[t].login \in over
  <2>1. ASSUME NEW kind \in {"refresh", "use", "logout"},
               NEW at \in {"rotate", "failed", "ok", "revoke"}, Come(c, kind, t, at)
        PROVE  \E x \in R :
                 /\ ticket' = [ticket EXCEPT ![c] = x]
                 /\ x.pc = at /\ x.kind = kind /\ x.token = t /\ x.sst = ticket[t].sst
                 /\ x.login = ticket[t].login /\ x.after = after /\ x.late = late
    <3> DEFINE x == [pc |-> at, kind |-> kind, token |-> t, sst |-> ticket[t].sst,
                     login |-> ticket[t].login, after |-> after, late |-> late]
    <3>1. ticket' = [ticket EXCEPT ![c] = x]
      BY <2>1, Zenon DEF Come
    <3>2. late \in BOOLEAN
      OBVIOUS
    <3>3. x \in R /\ x.pc = at /\ x.kind = kind /\ x.token = t /\ x.sst = ticket[t].sst
          /\ x.login = ticket[t].login /\ x.after = after /\ x.late = late
      <4> HIDE DEF late
      <4> QED BY <3>2
    <3> HIDE DEF x, R
    <3> QED BY <3>1, <3>3, Zenon
  <2> HIDE DEF R, late, after
  <2>2. CASE RefreshCheck(c, t)
    <3>1. (Come(c, "refresh", t, "rotate") /\ t \in live) \/ Come(c, "refresh", t, "failed")
      BY <2>2 DEF RefreshCheck
    <3> QED BY <2>1, <3>1 DEF R, late, after
  <2>3. CASE Use(c, t)
    <3>1. (Come(c, "use", t, "ok") /\ authenticated(t)) \/ Come(c, "use", t, "failed")
      BY <2>3 DEF Use
    <3> QED BY <2>1, <3>1 DEF R, late, after
  <2>4. CASE Logout(c, t)
    <3>1. (Come(c, "logout", t, "revoke") /\ authenticated(t)) \/ Come(c, "logout", t, "failed")
      BY <2>4 DEF Logout
    <3> QED BY <2>1, <3>1 DEF R, late, after
  <2> QED BY <2>2, <2>3, <2>4
<1>2. /\ ticket[c].pc = "idle" /\ ticket[c].kind = "none" /\ t \in Issued
      /\ UNCHANGED <<live, revoked, expired, over>>
  BY DEF RefreshCheck, Use, Logout, Come, NewTickets
<1>3. CallsStay
  BY <1>1, <1>2 DEF CallsStay
<1>4. /\ \A d \in Ticket : ticket[d].kind # "none" /\ HasForked(d) => HasForked(d)'
      /\ \A l \in Ticket : ticket[l].kind # "none" /\ Excused(l) => Excused(l)'
      /\ \A l \in Ticket : LoggedOut(l) => LoggedOut(l)'
      /\ Issued \subseteq Issued'
  BY <1>3, ExcusesStay
<1>20. /\ OneIsHeld'
      /\ \A l \in Ticket : LoggedOut(l) => Excused(l)' \/ NothingHeld(l)'
  <2>1. \A b, s \in Ticket : Holds(b, s)' =>
            \E d \in Ticket : Holds(d, s) /\ ticket'[b].login = ticket[d].login
    <3> SUFFICES ASSUME NEW b \in Ticket, NEW s \in Ticket, Holds(b, s)'
                 PROVE  \E d \in Ticket : Holds(d, s) /\ ticket'[b].login = ticket[d].login
      OBVIOUS
    <3>1. CASE b = c
      <4>1. c \notin live
        BY <1>2 DEF LiveIsIssued, Issued
      <4>2. x.pc = "rotate" /\ s = t /\ t \in live
        BY <1>1, <1>2, <3>1, <4>1 DEF Holds
      <4> QED BY <1>1, <3>1, <4>2 DEF Holds
    <3>2. CASE b # c
      <4>1. Holds(b, s) /\ ticket'[b] = ticket[b]
        BY <1>1, <1>2, <3>2 DEF Holds
      <4> QED BY <4>1
    <3> QED BY <3>1, <3>2
  <2> QED BY <2>1, <1>3, LessIsHeld
<1>5. SessionsTypeOK'
  BY <1>1, <1>2, <1>3, <1>4 DEF SessionsTypeOK
<1>6. NewTickets'
  BY <1>1, <1>2, <1>3, <1>4 DEF NewTickets
<1>7. KindsOfSteps'
  BY <1>1, <1>2, <1>3, <1>4 DEF KindsOfSteps
<1>8. TokensAreIssued'
  <2>1. ticket[t].kind # "none" /\ t # c
    BY <1>2 DEF Issued
  <2>2. /\ x.sst = x.login /\ x.login \in Ticket /\ ticket[x.login].kind = "login" /\ x.login # c
    BY <1>1, <1>2, <2>1 DEF TokensAreIssued
  <2>3. t \in Issued' /\ ticket'[t] = ticket[t]
    BY <1>1, <1>2, <1>4, <2>1
  <2> SUFFICES ASSUME NEW d \in Ticket, ticket'[d].kind # "none"
               PROVE  /\ ticket'[d].kind # "login" =>
                            ticket'[d].token \in Issued' /\ ticket'[d].login = ticket'[ticket'[d].token].login
                      /\ ticket'[d].sst = ticket'[d].login
                      /\ ticket'[d].login \in Ticket /\ ticket'[ticket'[d].login].kind = "login"
    BY DEF TokensAreIssued, SameLogin
  <2>4. CASE d = c
    BY <1>1, <2>2, <2>3, <2>4
  <2>5. CASE d # c
    <3>1. ticket'[d] = ticket[d]
      BY <1>1, <2>5
    <3>2. /\ ticket[d].login # c
          /\ ticket[d].kind # "login" => ticket[d].token # c
      BY <1>2, <3>1 DEF TokensAreIssued, Issued
    <3>3. \A e \in Ticket : e # c => ticket'[e] = ticket[e]
      BY <1>1
    <3>4. /\ ticket[d].sst = ticket[d].login /\ ticket[d].login \in Ticket
          /\ ticket[ticket[d].login].kind = "login"
      BY <2>5, <3>1 DEF TokensAreIssued
    <3>5. ASSUME ticket[d].kind # "login"
          PROVE  ticket[d].token \in Issued' /\ ticket[d].login = ticket'[ticket[d].token].login
      <4>1. ticket[d].token \in Issued /\ ticket[d].login = ticket[ticket[d].token].login
        BY <2>5, <3>1, <3>5 DEF TokensAreIssued, SameLogin
      <4>2. ticket[d].token \in Ticket
        BY <4>1 DEF Issued
      <4> QED BY <1>4, <3>2, <3>3, <3>5, <4>1, <4>2
    <3> QED BY <3>1, <3>2, <3>3, <3>4, <3>5
  <2> QED BY <2>4, <2>5
<1>9. AnsweredBefore'
  BY <1>1, <1>2, <1>3, <1>4 DEF AnsweredBefore
<1>10. LiveIsIssued'
  BY <1>1, <1>2, <1>3, <1>4 DEF LiveIsIssued, Issued
<1>11. LateIsOver'
  <2>1. ticket[t].sst = ticket[t].login
    BY <1>2 DEF TokensAreIssued, Issued
  <2>2. x.late => x.login \in over /\ x.pc \in {"rotate", "failed"}
    BY <1>1, <2>1 DEF authenticated, isSessionExpired
  <2>3. \A d \in Ticket : ticket'[d] = IF d = c THEN x ELSE ticket[d]
    BY <1>1
  <2> QED BY <1>2, <2>2, <2>3 DEF LateIsOver
<1>12. OneIsHeld'
  BY <1>20
<1>13. KeysAreTaken'
  BY <1>1, <1>2, <1>3, <1>4 DEF KeysAreTaken, Issued, LoggedOut
<1>14. LogoutTakesAll'
  <2>1. \A l \in Ticket : LoggedOut(l)' => LoggedOut(l)
    BY <1>1 DEF LoggedOut
  <2> QED BY <1>20, <2>1 DEF LogoutTakesAll
<1>15. LogoutTakesTokens'
  BY <1>1, <1>2, <1>3, <1>4 DEF LogoutTakesTokens
<1>16. RefusedAfter'
  <2> SUFFICES ASSUME NEW l \in Ticket, NEW d \in Ticket, LoggedOut(l)', l \in ticket'[d].after,
                      ticket'[d].pc # "failed"
               PROVE  /\ ticket'[d].token # ticket'[l].token
                      /\ ticket'[d].kind = "refresh" /\ ticket'[d].login = ticket'[l].login => Excused(l)'
    BY DEF RefusedAfter, SameLogin
  <2>1. LoggedOut(l) /\ l # c /\ ticket'[l] = ticket[l]
    BY <1>1 DEF LoggedOut
  <2>2. CASE d = c
    <3>1. x.pc # "failed"
      BY <1>1, <2>2
    <3>2. ticket[l].token \notin live /\ ~authenticated(ticket[l].token)
      BY <2>1 DEF LogoutTakesTokens, LoggedOut, authenticated
    <3>3. t # ticket[l].token
      BY <1>1, <3>1, <3>2
    <3>4. ASSUME x.kind = "refresh", x.login = ticket[l].login, ~Excused(l) PROVE FALSE
      <4>1. t \in live /\ NothingHeld(l)
        BY <1>1, <2>1, <3>1, <3>4 DEF LogoutTakesAll
      <4> QED BY <1>1, <3>4, <4>1 DEF NothingHeld, Holds, SameLogin
    <3> QED BY <1>1, <1>4, <2>1, <2>2, <3>3, <3>4 DEF LoggedOut
  <2>3. CASE d # c
    <3>1. ticket'[d] = ticket[d]
      BY <1>1, <2>3
    <3> QED BY <1>4, <2>1, <3>1 DEF RefusedAfter, LoggedOut, SameLogin
  <2> QED BY <2>2, <2>3
<1> QED BY <1>5, <1>6, <1>7, <1>8, <1>9, <1>10, <1>11, <1>12, <1>13, <1>14, <1>15, <1>16

LEMMA DropStep ==
    ASSUME SessionsInv, NEW c \in Ticket, RefreshDrop(c)
    PROVE  SessionsInv'
<1> USE TicketAssumption DEF SessionsInv, SessionsTypeOK, RefreshDrop, Move, Busy
<1>1. CallsStay
  BY DEF CallsStay, KindsOfSteps
<1>2. /\ \A d \in Ticket : ticket[d].kind # "none" /\ HasForked(d) => HasForked(d)'
      /\ \A l \in Ticket : ticket[l].kind # "none" /\ Excused(l) => Excused(l)'
      /\ \A l \in Ticket : LoggedOut(l) => LoggedOut(l)'
      /\ Issued \subseteq Issued'
  BY <1>1, ExcusesStay
<1>3. ticket[c].kind # "none"
  BY DEF NewTickets
<1>20. /\ ticket[c].kind = "refresh" /\ ticket[c].token \in Ticket
      /\ Holds(c, ticket[c].token) /\ SameLogin(c, ticket[c].token)
      /\ ticket[ticket[c].token].pc = "ok"
  BY DEF KindsOfSteps, TokensAreIssued, Holds, Issued
<1>21. ASSUME NEW a \in Ticket \ {c}, NEW s \in Ticket, Holds(a, s)', SameLogin(a, c)
       PROVE  Holds(a, s) /\ HasForked(c)
  <2>1. Holds(a, s)
    BY <1>21 DEF Holds
  <2>2. s = ticket[c].token \/ HasForked(c)
    BY <1>20, <1>21, <2>1 DEF OneIsHeld, SameLogin
  <2>3. ASSUME s = ticket[c].token PROVE Forked(s)
    <3>1. ticket[a].pc = "rotate" /\ ticket[a].token = s
      BY <1>20, <1>21, <2>3 DEF Holds
    <3>2. c \notin ticket[a].after /\ a \notin ticket[c].after
      BY <3>1 DEF AnsweredBefore
    <3> QED BY <1>20, <2>3, <3>1, <3>2 DEF Forked, KindsOfSteps
  <2> QED BY <1>20, <2>1, <2>2, <2>3 DEF HasForked, SameLogin
<1>22. \A a, s \in Ticket : Holds(a, s)' => (a = c /\ s = c) \/ (a # c /\ Holds(a, s))
  BY <1>20 DEF Holds, LiveIsIssued, Issued
<1>4. SessionsTypeOK'
  BY <1>1, <1>2, <1>3 DEF SessionsTypeOK
<1>5. NewTickets'
  BY <1>1, <1>2, <1>3 DEF NewTickets
<1>6. KindsOfSteps'
  BY <1>1, <1>2, <1>3 DEF KindsOfSteps
<1>7. TokensAreIssued'
  BY <1>1, <1>2, <1>3 DEF TokensAreIssued, Issued, SameLogin
<1>8. AnsweredBefore'
  BY <1>1, <1>2, <1>3 DEF AnsweredBefore
<1>9. LiveIsIssued'
  BY <1>1, <1>2, <1>3 DEF LiveIsIssued, Issued
<1>10. LateIsOver'
  <2>1. ticket[c].late => isSessionExpired(ticket[c].token)
    BY <1>3 DEF LateIsOver, TokensAreIssued, isSessionExpired, Issued, SameLogin, KindsOfSteps
  <2> QED BY <2>1 DEF LateIsOver
<1>11. OneIsHeld'
  <2> SUFFICES ASSUME NEW a \in Ticket, NEW b \in Ticket, NEW s \in Ticket, NEW t \in Ticket,
                      Holds(a, s)', Holds(b, t)', SameLogin(a, b)', s # t
               PROVE  HasForked(a)'
    BY DEF OneIsHeld
  <2>1. /\ ticket[a].kind # "none" /\ ticket[b].kind # "none"
        /\ SameLogin(a, b) /\ SameLogin(b, a)
    <3>1. \A d, u \in Ticket : Holds(d, u) => ticket[d].kind # "none"
      BY DEF Holds, LiveIsIssued, Issued, NewTickets
    <3>2. ticket[a].kind # "none" /\ ticket[b].kind # "none"
      BY <1>3, <1>22, <3>1
    <3> QED BY <1>1, <3>2 DEF SameLogin, CallsStay
  <2>2. HasForked(a)
    <3>1. CASE a = c
      BY <1>21, <1>22, <2>1, <3>1
    <3>2. CASE b = c
      <4>1. HasForked(c)
        BY <1>21, <1>22, <2>1, <3>2
      <4> QED BY <2>1, <3>2, <4>1 DEF HasForked, SameLogin
    <3>3. CASE a # c /\ b # c
      BY <1>22, <2>1, <3>3 DEF OneIsHeld
    <3> QED BY <3>1, <3>2, <3>3
  <2> QED BY <1>2, <2>1, <2>2
<1>12. KeysAreTaken'
  <2> SUFFICES ASSUME NEW t \in Issued, t \notin live'
               PROVE  \E d \in Ticket : ticket'[d].token = t /\ (ticket'[d].kind = "refresh" \/ LoggedOut(d)')
    BY DEF KeysAreTaken, Issued
  <2>1. CASE t = ticket[c].token
    BY <1>1, <1>20, <2>1 DEF CallsStay
  <2>2. CASE t # ticket[c].token
    <3>1. PICK d \in Ticket : ticket[d].token = t /\ (ticket[d].kind = "refresh" \/ LoggedOut(d))
      BY <2>2 DEF KeysAreTaken
    <3>2. ticket[d].kind # "none"
      BY <3>1 DEF LoggedOut
    <3> QED BY <1>1, <1>2, <3>1, <3>2 DEF CallsStay
  <2> QED BY <2>1, <2>2
<1>13. LogoutTakesAll'
  <2> SUFFICES ASSUME NEW l \in Ticket, LoggedOut(l)', ~Excused(l)'
               PROVE  NothingHeld(l)'
    BY DEF LogoutTakesAll
  <2>1. LoggedOut(l) /\ ticket[l].kind # "none" /\ NothingHeld(l)
    BY <1>2, <1>20 DEF LoggedOut, LogoutTakesAll
  <2>2. ~SameLogin(c, l)
    BY <1>20, <2>1 DEF NothingHeld
  <2> QED BY <1>22, <2>1, <2>2 DEF NothingHeld, SameLogin
<1>14. LogoutTakesTokens'
  BY <1>1, <1>2, <1>3 DEF LogoutTakesTokens
<1>15. RefusedAfter'
  BY <1>1, <1>2, <1>3 DEF RefusedAfter, LoggedOut, SameLogin
<1> QED BY <1>4, <1>5, <1>6, <1>7, <1>8, <1>9, <1>10, <1>11, <1>12, <1>13, <1>14, <1>15

LEMMA StoreStep ==
    ASSUME SessionsInv, NEW c \in Ticket, RefreshStore(c)
    PROVE  SessionsInv'
<1> USE TicketAssumption DEF SessionsInv, SessionsTypeOK, RefreshStore, Move, Busy
<1>1. CallsStay
  BY DEF CallsStay, KindsOfSteps
<1>2. /\ \A d \in Ticket : ticket[d].kind # "none" /\ HasForked(d) => HasForked(d)'
      /\ \A l \in Ticket : ticket[l].kind # "none" /\ Excused(l) => Excused(l)'
      /\ \A l \in Ticket : LoggedOut(l) => LoggedOut(l)'
      /\ Issued \subseteq Issued'
  BY <1>1, ExcusesStay
<1>3. ticket[c].kind # "none"
  BY DEF NewTickets
<1>20. /\ OneIsHeld'
      /\ \A l \in Ticket : LoggedOut(l) => Excused(l)' \/ NothingHeld(l)'
  <2>1. \A b, s \in Ticket : Holds(b, s)' =>
            \E d \in Ticket : Holds(d, s) /\ ticket'[b].login = ticket[d].login
    BY <1>1, <1>2, <1>3 DEF Holds
  <2> QED BY <2>1, <1>1, LessIsHeld
<1>4. SessionsTypeOK'
  BY <1>1, <1>2, <1>3 DEF SessionsTypeOK
<1>5. NewTickets'
  BY <1>1, <1>2, <1>3 DEF NewTickets
<1>6. KindsOfSteps'
  BY <1>1, <1>2, <1>3 DEF KindsOfSteps
<1>7. TokensAreIssued'
  BY <1>1, <1>2, <1>3 DEF TokensAreIssued, Issued, SameLogin
<1>8. AnsweredBefore'
  BY <1>1, <1>2, <1>3 DEF AnsweredBefore
<1>9. LiveIsIssued'
  <2>1. c \in Issued'
    BY DEF Issued, KindsOfSteps
  <2> QED BY <1>2, <2>1 DEF LiveIsIssued
<1>10. LateIsOver'
  BY <1>1, <1>2, <1>3 DEF LateIsOver
<1>11. OneIsHeld'
  BY <1>20
<1>12. KeysAreTaken'
  BY <1>1, <1>2, <1>3 DEF KeysAreTaken, Issued, LoggedOut
<1>13. LogoutTakesAll'
  <2>1. \A l \in Ticket : LoggedOut(l)' => LoggedOut(l)
    BY DEF LoggedOut, KindsOfSteps
  <2> QED BY <1>20, <2>1 DEF LogoutTakesAll
<1>14. LogoutTakesTokens'
  <2>1. \A l \in Ticket : ticket[l].kind = "logout" => ticket[l].token # c
    BY DEF TokensAreIssued, Issued
  <2> QED BY <2>1 DEF LogoutTakesTokens, KindsOfSteps
<1>15. RefusedAfter'
  <2> SUFFICES ASSUME NEW l \in Ticket, NEW d \in Ticket, LoggedOut(l)', l \in ticket'[d].after,
                      ticket'[d].pc # "failed"
               PROVE  /\ ticket'[d].token # ticket'[l].token
                      /\ ticket'[d].kind = "refresh" /\ ticket'[d].login = ticket'[l].login => Excused(l)'
    BY DEF RefusedAfter, SameLogin
  <2>1. LoggedOut(l) /\ l \in ticket[d].after /\ ticket[d].pc # "failed"
    BY DEF LoggedOut, KindsOfSteps, AnsweredBefore
  <2> QED BY <1>2, <2>1 DEF RefusedAfter, LoggedOut, SameLogin
<1> QED BY <1>4, <1>5, <1>6, <1>7, <1>8, <1>9, <1>10, <1>11, <1>12, <1>13, <1>14, <1>15

LEMMA RevokeStep ==
    ASSUME SessionsInv, NEW c \in Ticket, LogoutRevoke(c)
    PROVE  SessionsInv'
<1> USE TicketAssumption DEF SessionsInv, SessionsTypeOK, LogoutRevoke, Move, Busy
<1>1. CallsStay
  BY DEF CallsStay, KindsOfSteps
<1>2. /\ \A d \in Ticket : ticket[d].kind # "none" /\ HasForked(d) => HasForked(d)'
      /\ \A l \in Ticket : ticket[l].kind # "none" /\ Excused(l) => Excused(l)'
      /\ \A l \in Ticket : LoggedOut(l) => LoggedOut(l)'
      /\ Issued \subseteq Issued'
  BY <1>1, ExcusesStay
<1>3. ticket[c].kind # "none"
  BY DEF NewTickets
<1>20. /\ OneIsHeld'
      /\ \A l \in Ticket : LoggedOut(l) => Excused(l)' \/ NothingHeld(l)'
  <2>1. \A b, s \in Ticket : Holds(b, s)' =>
            \E d \in Ticket : Holds(d, s) /\ ticket'[b].login = ticket[d].login
    BY <1>1, <1>2, <1>3 DEF Holds
  <2> QED BY <2>1, <1>1, LessIsHeld
<1>4. SessionsTypeOK'
  <2>1. ticket[c].token \in Ticket
    BY DEF KindsOfSteps, TokensAreIssued, Issued
  <2> QED BY <2>1 DEF SessionsTypeOK
<1>5. NewTickets'
  BY <1>1, <1>2, <1>3 DEF NewTickets
<1>6. KindsOfSteps'
  BY <1>1, <1>2, <1>3 DEF KindsOfSteps
<1>7. TokensAreIssued'
  BY <1>1, <1>2, <1>3 DEF TokensAreIssued, Issued, SameLogin
<1>8. AnsweredBefore'
  BY <1>1, <1>2, <1>3 DEF AnsweredBefore
<1>9. LiveIsIssued'
  BY <1>1, <1>2, <1>3 DEF LiveIsIssued, Issued
<1>10. LateIsOver'
  BY <1>1, <1>2, <1>3 DEF LateIsOver
<1>11. OneIsHeld'
  BY <1>20
<1>12. KeysAreTaken'
  BY <1>1, <1>2, <1>3 DEF KeysAreTaken, Issued, LoggedOut
<1>13. LogoutTakesAll'
  BY <1>3, <1>20 DEF LogoutTakesAll, LoggedOut
<1>14. LogoutTakesTokens'
  BY <1>1, <1>2, <1>3 DEF LogoutTakesTokens
<1>15. RefusedAfter'
  BY <1>1, <1>2, <1>3 DEF RefusedAfter, LoggedOut, SameLogin
<1> QED BY <1>4, <1>5, <1>6, <1>7, <1>8, <1>9, <1>10, <1>11, <1>12, <1>13, <1>14, <1>15

LEMMA ForgetStep ==
    ASSUME SessionsInv, NEW c \in Ticket, LogoutForget(c)
    PROVE  SessionsInv'
<1> USE TicketAssumption DEF SessionsInv, SessionsTypeOK, LogoutForget, Move, Busy
<1>1. CallsStay
  BY DEF CallsStay, KindsOfSteps
<1>2. /\ \A d \in Ticket : ticket[d].kind # "none" /\ HasForked(d) => HasForked(d)'
      /\ \A l \in Ticket : ticket[l].kind # "none" /\ Excused(l) => Excused(l)'
      /\ \A l \in Ticket : LoggedOut(l) => LoggedOut(l)'
      /\ Issued \subseteq Issued'
  BY <1>1, ExcusesStay
<1>3. ticket[c].kind # "none"
  BY DEF NewTickets
<1>20. /\ OneIsHeld'
      /\ \A l \in Ticket : LoggedOut(l) => Excused(l)' \/ NothingHeld(l)'
  <2>1. \A b, s \in Ticket : Holds(b, s)' =>
            \E d \in Ticket : Holds(d, s) /\ ticket'[b].login = ticket[d].login
    BY <1>1, <1>3 DEF Holds
  <2> QED BY <2>1, <1>1, LessIsHeld
<1>21. /\ ticket[c].kind = "logout" /\ ticket[c].token \in Issued
       /\ SameLogin(c, ticket[c].token) /\ ~LoggedOut(c)
  BY DEF KindsOfSteps, TokensAreIssued, LoggedOut
<1>4. SessionsTypeOK'
  BY <1>1, <1>2, <1>3 DEF SessionsTypeOK
<1>5. NewTickets'
  BY <1>1, <1>2, <1>3 DEF NewTickets
<1>6. KindsOfSteps'
  BY <1>1, <1>2, <1>3 DEF KindsOfSteps
<1>7. TokensAreIssued'
  BY <1>1, <1>2, <1>3 DEF TokensAreIssued, Issued, SameLogin
<1>8. AnsweredBefore'
  BY <1>1, <1>2, <1>3 DEF AnsweredBefore
<1>9. LiveIsIssued'
  BY <1>1, <1>2, <1>3 DEF LiveIsIssued, Issued
<1>10. LateIsOver'
  BY <1>1, <1>2, <1>3 DEF LateIsOver
<1>11. OneIsHeld'
  BY <1>20
<1>12. KeysAreTaken'
  <2> SUFFICES ASSUME NEW t \in Issued, t \notin live'
               PROVE  \E d \in Ticket : ticket'[d].token = t /\ (ticket'[d].kind = "refresh" \/ LoggedOut(d)')
    BY <1>21 DEF KeysAreTaken, Issued
  <2>1. CASE t = ticket[c].token
    BY <1>1, <1>21, <2>1 DEF CallsStay, LoggedOut
  <2>2. CASE t # ticket[c].token
    <3>1. PICK d \in Ticket : ticket[d].token = t /\ (ticket[d].kind = "refresh" \/ LoggedOut(d))
      BY <2>2 DEF KeysAreTaken
    <3>2. ticket[d].kind # "none"
      BY <3>1 DEF LoggedOut
    <3> QED BY <1>1, <1>2, <3>1, <3>2 DEF CallsStay
  <2> QED BY <2>1, <2>2
<1>13. LogoutTakesAll'
  <2> DEFINE T == ticket[c].token
  <2>1. ASSUME ~Excused(c), NEW a \in Ticket, NEW s \in Ticket, Holds(a, s)', SameLogin(a, c)
        PROVE  FALSE
    <3>1. Holds(a, s) /\ a # c /\ ticket[a].kind # "none"
      BY <1>21, <2>1 DEF Holds, LiveIsIssued, Issued, NewTickets
    <3>2. \A d \in Ticket : ticket[d].kind = "refresh" => ticket[d].token # T
      BY <2>1 DEF Excused, Replaced, AnsweredBefore
    <3>3. CASE T \in live
      <4>1. s = T
        BY <1>21, <2>1, <3>1, <3>3 DEF OneIsHeld, Holds, SameLogin, Excused, HasForked, Issued
      <4> QED BY <1>21, <2>1, <3>2, <4>1 DEF Holds, Issued, KindsOfSteps
    <3>4. CASE T \notin live
      <4>1. PICK d \in Ticket : ticket[d].token = T /\ LoggedOut(d)
        BY <1>21, <3>2, <3>4 DEF KeysAreTaken
      <4>2. SameLogin(d, c)
        BY <1>21, <4>1 DEF LoggedOut, TokensAreIssued, SameLogin
      <4>3. ~Excused(d)
        BY <2>1, <3>2, <4>1, <4>2 DEF Excused, Replaced, HasForked, SameLogin
      <4> QED BY <2>1, <3>1, <4>1, <4>2, <4>3 DEF LogoutTakesAll, NothingHeld, SameLogin
    <3> QED BY <3>3, <3>4
  <2>2. CASE Excused(c)
    BY <1>2, <1>3, <1>20, <2>2 DEF LogoutTakesAll, LoggedOut
  <2>3. CASE ~Excused(c)
    <3>1. NothingHeld(c)'
      BY <2>1, <2>3 DEF NothingHeld, SameLogin
    <3> QED BY <1>20, <3>1 DEF LogoutTakesAll, LoggedOut
  <2> QED BY <2>2, <2>3
<1>14. LogoutTakesTokens'
  BY <1>1, <1>2, <1>3 DEF LogoutTakesTokens
<1>15. RefusedAfter'
  <2> SUFFICES ASSUME NEW l \in Ticket, NEW d \in Ticket, LoggedOut(l)', l \in ticket'[d].after,
                      ticket'[d].pc # "failed"
               PROVE  /\ ticket'[d].token # ticket'[l].token
                      /\ ticket'[d].kind = "refresh" /\ ticket'[d].login = ticket'[l].login => Excused(l)'
    BY DEF RefusedAfter, SameLogin
  <2>1. LoggedOut(l) /\ l \in ticket[d].after /\ ticket[d].pc # "failed"
    BY DEF LoggedOut, KindsOfSteps, AnsweredBefore
  <2> QED BY <1>2, <2>1 DEF RefusedAfter, LoggedOut, SameLogin
<1> QED BY <1>4, <1>5, <1>6, <1>7, <1>8, <1>9, <1>10, <1>11, <1>12, <1>13, <1>14, <1>15

LEMMA FailTicketStep ==
    ASSUME SessionsInv, NEW c \in Ticket, FailTicket(c)
    PROVE  SessionsInv'
<1> USE TicketAssumption DEF SessionsInv, SessionsTypeOK, FailTicket, Move, Busy
<1>1. CallsStay
  BY DEF CallsStay, KindsOfSteps
<1>2. /\ \A d \in Ticket : ticket[d].kind # "none" /\ HasForked(d) => HasForked(d)'
      /\ \A l \in Ticket : ticket[l].kind # "none" /\ Excused(l) => Excused(l)'
      /\ \A l \in Ticket : LoggedOut(l) => LoggedOut(l)'
      /\ Issued \subseteq Issued'
  BY <1>1, ExcusesStay
<1>3. ticket[c].kind # "none"
  BY DEF NewTickets
<1>20. /\ OneIsHeld'
      /\ \A l \in Ticket : LoggedOut(l) => Excused(l)' \/ NothingHeld(l)'
  <2>1. \A b, s \in Ticket : Holds(b, s)' =>
            \E d \in Ticket : Holds(d, s) /\ ticket'[b].login = ticket[d].login
    BY <1>1, <1>2, <1>3 DEF Holds
  <2> QED BY <2>1, <1>1, LessIsHeld
<1>4. SessionsTypeOK'
  BY <1>1, <1>2, <1>3 DEF SessionsTypeOK
<1>5. NewTickets'
  BY <1>1, <1>2, <1>3 DEF NewTickets
<1>6. KindsOfSteps'
  BY <1>1, <1>2, <1>3 DEF KindsOfSteps
<1>7. TokensAreIssued'
  BY <1>1, <1>2, <1>3 DEF TokensAreIssued, Issued, SameLogin
<1>8. AnsweredBefore'
  BY <1>1, <1>2, <1>3 DEF AnsweredBefore
<1>9. LiveIsIssued'
  BY <1>1, <1>2, <1>3 DEF LiveIsIssued, Issued
<1>10. LateIsOver'
  BY <1>1, <1>2, <1>3 DEF LateIsOver
<1>11. OneIsHeld'
  BY <1>20
<1>12. KeysAreTaken'
  BY <1>1, <1>2, <1>3 DEF KeysAreTaken, Issued, LoggedOut
<1>13. LogoutTakesAll'
  BY <1>3, <1>20 DEF LogoutTakesAll, LoggedOut
<1>14. LogoutTakesTokens'
  BY <1>1, <1>2, <1>3 DEF LogoutTakesTokens
<1>15. RefusedAfter'
  BY <1>1, <1>2, <1>3 DEF RefusedAfter, LoggedOut, SameLogin
<1> QED BY <1>4, <1>5, <1>6, <1>7, <1>8, <1>9, <1>10, <1>11, <1>12, <1>13, <1>14, <1>15

LEMMA ExpiryStep ==
    ASSUME SessionsInv, NEW c \in Ticket, AccessExpires(c) \/ SessionEnds(c)
    PROVE  SessionsInv'
<1> USE TicketAssumption DEF SessionsInv, SessionsTypeOK, AccessExpires, SessionEnds
<1>1. CallsStay
  BY DEF CallsStay
<1>2. /\ \A d \in Ticket : ticket[d].kind # "none" /\ HasForked(d) => HasForked(d)'
      /\ \A l \in Ticket : ticket[l].kind # "none" /\ Excused(l) => Excused(l)'
      /\ \A l \in Ticket : LoggedOut(l) => LoggedOut(l)'
      /\ Issued \subseteq Issued'
  BY <1>1, ExcusesStay
<1>3. UNCHANGED <<ticket, live>> /\ over \subseteq over' /\ revoked \cup expired \subseteq revoked' \cup expired'
  OBVIOUS
<1>20. /\ OneIsHeld'
      /\ \A l \in Ticket : LoggedOut(l) => Excused(l)' \/ NothingHeld(l)'
  <2>1. \A b, s \in Ticket : Holds(b, s)' =>
            \E d \in Ticket : Holds(d, s) /\ ticket'[b].login = ticket[d].login
    BY <1>1, <1>2, <1>3 DEF Holds
  <2> QED BY <2>1, <1>1, LessIsHeld
<1>4. SessionsTypeOK'
  BY <1>1, <1>2, <1>3 DEF SessionsTypeOK
<1>5. NewTickets'
  BY <1>1, <1>2, <1>3 DEF NewTickets
<1>6. KindsOfSteps'
  BY <1>1, <1>2, <1>3 DEF KindsOfSteps
<1>7. TokensAreIssued'
  BY <1>1, <1>2, <1>3 DEF TokensAreIssued, Issued, SameLogin
<1>8. AnsweredBefore'
  BY <1>1, <1>2, <1>3 DEF AnsweredBefore
<1>9. LiveIsIssued'
  BY <1>1, <1>2, <1>3 DEF LiveIsIssued, Issued
<1>10. LateIsOver'
  BY <1>1, <1>2, <1>3 DEF LateIsOver
<1>11. OneIsHeld'
  BY <1>20
<1>12. KeysAreTaken'
  BY <1>1, <1>2, <1>3 DEF KeysAreTaken, Issued, LoggedOut
<1>13. LogoutTakesAll'
  BY <1>3, <1>20 DEF LogoutTakesAll, LoggedOut
<1>14. LogoutTakesTokens'
  BY <1>1, <1>2, <1>3 DEF LogoutTakesTokens
<1>15. RefusedAfter'
  BY <1>1, <1>2, <1>3 DEF RefusedAfter, LoggedOut, SameLogin
<1> QED BY <1>4, <1>5, <1>6, <1>7, <1>8, <1>9, <1>10, <1>11, <1>12, <1>13, <1>14, <1>15

\* Whatever logs in, refreshes, uses its rights, logs out or fails, and
\* whenever Redis forgets a key.
THEOREM SessionsInvariantHolds == SessionsSpec => []SessionsInv
<1>1. SessionsInv /\ [SessionsNext]_sessionVars => SessionsInv'
  <2> SUFFICES ASSUME SessionsInv, [SessionsNext]_sessionVars PROVE SessionsInv'
    OBVIOUS
  <2>1. ASSUME NEW c \in Ticket, Login(c) PROVE SessionsInv'
    BY <2>1, LoginStep
  <2>2. ASSUME NEW c \in Ticket, NEW t \in Ticket, RefreshCheck(c, t) \/ Use(c, t) \/ Logout(c, t)
        PROVE  SessionsInv'
    BY <2>2, ComeStep
  <2>3. ASSUME NEW c \in Ticket, RefreshDrop(c) \/ RefreshStore(c) PROVE SessionsInv'
    BY <2>3, DropStep, StoreStep
  <2>4. ASSUME NEW c \in Ticket, LogoutRevoke(c) \/ LogoutForget(c) \/ FailTicket(c)
        PROVE  SessionsInv'
    BY <2>4, RevokeStep, ForgetStep, FailTicketStep
  <2>5. ASSUME NEW c \in Ticket, AccessExpires(c) \/ SessionEnds(c) PROVE SessionsInv'
    BY <2>5, ExpiryStep
  <2>6. CASE UNCHANGED sessionVars
    BY <2>6 DEF sessionVars, SessionsInv, SessionsTypeOK, NewTickets, KindsOfSteps, TokensAreIssued,
                AnsweredBefore, LiveIsIssued, LateIsOver, OneIsHeld, KeysAreTaken, LogoutTakesAll,
                LogoutTakesTokens, RefusedAfter, Issued, SameLogin, Holds, HasForked, Forked,
                Excused, Replaced, NothingHeld, LoggedOut
  <2> QED BY <2>1, <2>2, <2>3, <2>4, <2>5, <2>6 DEF SessionsNext
<1> QED BY <1>1, SessionsInvInit, PTL DEF SessionsSpec

\* Rotation leaves a login one refresh token that is good, for any number
\* of refreshes, logouts and crashes between their commands, unless two
\* refreshes of one token overlapped (refreshToken).
THEOREM OnePairIsGood == SessionsSpec => []OnePair
<1>1. SessionsInv => OnePair
  BY DEF SessionsInv, SessionsTypeOK, OneIsHeld, Holds, HasForked, OnePair
<1> QED BY <1>1, SessionsInvariantHolds, PTL

\* The absolute length of a session, and a logout, end what they should:
\* authenticate and refreshToken refuse what comes after (LoginEnds).
THEOREM LoginsEnd == SessionsSpec => []LoginEnds
<1>1. SessionsInv => LoginEnds
  BY DEF SessionsInv, LateIsOver, RefusedAfter, LoggedOut, Excused, Replaced, HasForked, LoginEnds
<1> QED BY <1>1, SessionsInvariantHolds, PTL

-----------------------------------------------------------------------------
(***************************************************************************)
(* Points, coupon and balance.  Whatever a transaction will write at its   *)
(* commit follows from what it has read of rows that it still owns, or of  *)
(* fields that nobody rewrites: what a record has earned and redeemed, and *)
(* its total.                                                              *)
(***************************************************************************)
IsSale(r)    == req[r].kind \in {"sale", "credit"}
Reverses(r)  == req[r].kind \in {"void", "refund"}
IsPayment(r) == req[r].kind = "pay"
OnRecord(r)  == txn[r].status # "none"

StepOfKind(r) ==
    /\ req[r].pc = "idle" => req[r].target = Nobody /\ req[r].kind = "none"
    /\ req[r].coupon => req[r].kind = "sale"
    /\ req[r].pc = "balance" => IsPayment(r)
    /\ req[r].pc = "claim" => Reverses(r)
    /\ req[r].pc = "coupon" => req[r].kind = "sale"
    /\ IsPayment(r) => req[r].pc # "points"

Targeted(r) ==
    /\ req[r].target # Nobody => OnRecord(req[r].target)
    /\ Reverses(r) \/ IsPayment(r) => req[r].target \in Request

\* The coupon's row is owned by the sale that is about to count its use.
CouponHeld(r) ==
    req[r].pc = "commit" /\ req[r].coupon => lock[Coupon] = r /\ used < UsageLimit

\* A payment owns the row of the balance it has read.
BalanceHeld(r) ==
    IsPayment(r) =>
        /\ txn[req[r].target].credit # "no" /\ req[r].amount > 0
        /\ req[r].pc = "commit" =>
              /\ lock[req[r].target] = r
              /\ req[r].seen = txn[req[r].target].paid
              /\ req[r].seen + req[r].amount <= Total

\* A reversal owns the record that it has claimed.
ClaimHeld(r) ==
    Reverses(r) /\ req[r].pc \in {"points", "commit"} =>
        lock[req[r].target] = r /\ txn[req[r].target].status = "COMPLETED"

\* What a request will pay and the points it will post.
SaleAsAsked(r) ==
    /\ IsSale(r) /\ req[r].loyal => req[r].delta = Earned - req[r].redeem
    /\ req[r].kind = "credit" => req[r].amount \in Nat

DeltaOfReversal(r) ==
    Reverses(r) /\ IsSale(req[r].target) /\ InFull(r) =>
        req[r].delta = txn[req[r].target].redeemed - txn[req[r].target].earned

\* A record is that of a request that is done.
RecordOf(r) ==
    /\ OnRecord(r) => At(r, "done")
    /\ ~OnRecord(r) => txn[r].credit = "no" /\ received[r] = 0
    /\ IsSale(r) /\ At(r, "done") =>
          /\ OnRecord(r) /\ txn[r].total = Total
          /\ req[r].loyal => /\ posted[r] = Earned - req[r].redeem
                             /\ txn[r].earned = Earned /\ txn[r].redeemed = req[r].redeem
    /\ Done(r, "credit") <=> txn[r].credit # "no"

BalanceOf(t) ==
    Done(t, "credit") =>
        /\ txn[t].paid = req[t].amount + received[t]
        /\ txn[t].paid <= Total \/ received[t] = 0
        /\ txn[t].credit = Credit(txn[t].paid)

Reversed(t) ==
    /\ txn[t].status = "COMPLETED" => ReversedBy(t) = {}
    /\ \A a, b \in ReversedBy(t) : a = b
    /\ \A a \in ReversedBy(t) : posted[a] = req[a].delta

WithCoupon == {r \in Request : Done(r, "sale") /\ req[r].coupon}

CouponCounted == IsFiniteSet(WithCoupon) /\ used = Cardinality(WithCoupon) /\ used <= UsageLimit

SoundRequest(r) ==
    /\ StepOfKind(r) /\ Targeted(r)
    /\ CouponHeld(r) /\ BalanceHeld(r) /\ ClaimHeld(r)
    /\ SaleAsAsked(r) /\ DeltaOfReversal(r)

SoundRecord(t) == RecordOf(t) /\ BalanceOf(t) /\ Reversed(t)

AccountsInv ==
    /\ AccountsTypeOK
    /\ \A r \in Request : SoundRequest(r) /\ SoundRecord(r)
    /\ CouponCounted

-----------------------------------------------------------------------------
ReqRecord == [kind : RouteKinds \cup {"none"}, pc : PCs,
              target : Request \cup {Nobody}, amount : Int,
              redeem : Nat, loyal : BOOLEAN, coupon : BOOLEAN,
              delta : Int, seen : Int,
              reference : References \cup {Nobody}]

SaleTxn == [status : {"none", "COMPLETED", "VOIDED", "REFUNDED"},
            credit : {"no", "PENDING", "PARTIAL", "PAID"},
            total : Int, paid : Nat,
            earned : Nat, redeemed : Nat, items : BOOLEAN]

LEMMA AccountTypes ==
    ASSUME AccountsTypeOK
    PROVE  /\ req \in [Request -> ReqRecord] /\ txn \in [Request -> SaleTxn]
           /\ \A r \in Request : req[r] \in ReqRecord /\ txn[r] \in SaleTxn
           /\ points \in Int /\ used \in Nat
           /\ posted \in [Request -> Int] /\ received \in [Request -> Nat]
           /\ lock \in [Row -> Request \cup {Nobody}]
BY DEF AccountsTypeOK, ReqRecord, SaleTxn

LEMMA AccountsInvInit == AccountsInit => AccountsInv
<1> SUFFICES ASSUME AccountsInit PROVE AccountsInv
  OBVIOUS
<1>1. /\ \A r \in Request : /\ req[r] = Fresh /\ txn[r] = NoTxn /\ received[r] = 0
                            /\ posted[r] = 0
      /\ used = 0 /\ points = InitPoints
  BY DEF AccountsInit
<1>2. Fresh.pc = "idle" /\ Fresh.kind = "none" /\ Fresh.target = Nobody /\ Fresh.coupon = FALSE
  BY DEF Fresh
<1>3. NoTxn.status = "none" /\ NoTxn.credit = "no"
  BY DEF NoTxn
<1>4. AccountsTypeOK
  <2>1. Fresh \in ReqRecord /\ NoTxn \in SaleTxn
    BY DEF Fresh, NoTxn, ReqRecord, SaleTxn, PCs
  <2>2. InitPoints \in Int
    BY SaleAssumption
  <2> QED
    BY <2>1, <2>2 DEF AccountsInit, AccountsTypeOK, ReqRecord, SaleTxn
<1>5. ASSUME NEW r \in Request PROVE SoundRequest(r)
  BY <1>1, <1>2
     DEF SoundRequest, StepOfKind, Targeted, CouponHeld, BalanceHeld, ClaimHeld, SaleAsAsked,
         DeltaOfReversal, IsSale, Reverses, IsPayment
<1>6. ASSUME NEW r \in Request PROVE SoundRecord(r)
  <2>1. RecordOf(r)
    BY <1>1, <1>2, <1>3 DEF RecordOf, OnRecord, IsSale, At, Done
  <2>2. BalanceOf(r)
    BY <1>1, <1>2 DEF BalanceOf, Done
  <2>3. ReversedBy(r) = {}
    BY <1>1, <1>2 DEF ReversedBy, Done
  <2> QED BY <2>1, <2>2, <2>3 DEF SoundRecord, Reversed
<1>7. CouponCounted
  <2>1. WithCoupon = {}
    BY <1>1, <1>2 DEF WithCoupon, Done
  <2> QED BY <1>1, <2>1, FS_EmptySet, SaleAssumption DEF CouponCounted
<1> QED BY <1>4, <1>5, <1>6, <1>7 DEF AccountsInv

(***************************************************************************)
(* One step of a request.                                                  *)
(***************************************************************************)
OwnedByOther(x, r) == lock[x] \in Request \ {r}

\* The fields of a record that nobody rewrites.
RecordKept(u) ==
    /\ txn'[u].total = txn[u].total /\ txn'[u].earned = txn[u].earned
    /\ txn'[u].redeemed = txn[u].redeemed
    /\ txn'[u].status = "none" <=> txn[u].status = "none"
    /\ txn'[u].credit = "no" <=> txn[u].credit = "no"

\* What a step of r leaves to the others.
OneAccountStep(r) ==
    /\ req[r].pc \notin {"done", "failed"}
    /\ \A u \in Request \ {r} : /\ req'[u] = req[u] /\ posted'[u] = posted[u]
                                /\ RecordKept(u)
                                /\ OwnedByOther(u, r) => txn'[u] = txn[u]
    /\ \A x \in Row : OwnedByOther(x, r) => lock'[x] = lock[x]
    /\ OwnedByOther(Coupon, r) => used' = used

LEMMA RowsOfAccounts ==
    /\ Customer \in Row /\ Coupon \in Row /\ Request \subseteq Row /\ Nobody \notin Request
    /\ Coupon \notin Request /\ Customer \notin Request /\ Nobody \notin Row
BY NobodyAssumption, RowAssumption DEF Row

LEMMA TargetOfOther ==
    ASSUME AccountsInv, NEW r \in Request, NEW q \in Request, q # r, OneAccountStep(r),
           req[q].target # Nobody
    PROVE  /\ req[q].target \in Request \ {r}
           /\ OnRecord(req[q].target) /\ OnRecord(req[q].target)'
<1>1. req[q] \in ReqRecord /\ SoundRequest(q) /\ SoundRecord(r)
  BY AccountTypes DEF AccountsInv
<1>2. PICK t \in Request : t = req[q].target
  BY <1>1 DEF ReqRecord
<1>3. OnRecord(t) /\ ~OnRecord(r)
  BY <1>1, <1>2 DEF SoundRequest, Targeted, SoundRecord, RecordOf, At, OneAccountStep
<1>4. t # r
  BY <1>3
<1>5. OnRecord(t)'
  BY <1>3, <1>4 DEF OneAccountStep, RecordKept, OnRecord
<1>6. req'[q].target = t
  BY <1>2 DEF OneAccountStep
<1> QED BY <1>2, <1>3, <1>4, <1>5, <1>6

LEMMA OthersSound ==
    ASSUME AccountsInv, NEW r \in Request, NEW q \in Request, q # r, OneAccountStep(r)
    PROVE  SoundRequest(q)'
<1>1. req'[q] = req[q] /\ SoundRequest(q) /\ req[q] \in ReqRecord
  BY AccountTypes DEF AccountsInv, OneAccountStep
<1>2. StepOfKind(q)'
  BY <1>1 DEF SoundRequest, StepOfKind, IsPayment, Reverses
<1>3. Targeted(q)'
  <2>1. CASE req[q].target = Nobody
    BY <1>1, <2>1 DEF SoundRequest, Targeted, Reverses, IsPayment
  <2>2. CASE req[q].target # Nobody
    <3>1. PICK t : t = req[q].target
      OBVIOUS
    <3>2. t \in Request /\ OnRecord(t)'
      <4>1. t = req[q].target /\ t = req'[q].target
        BY <1>1, <3>1
      <4>2. t \in Request /\ OnRecord(t)
        BY <2>2, <4>1, TargetOfOther
      <4>3. t # r
        BY <2>2, <4>1, TargetOfOther
      <4> QED BY <4>2, <4>3 DEF OneAccountStep, RecordKept, OnRecord
    <3> QED BY <1>1, <3>1, <3>2 DEF Targeted
  <2> QED BY <2>1, <2>2
<1>4. CouponHeld(q)'
  <2>1. CouponHeld(q)
    BY <1>1 DEF SoundRequest
  <2>2. lock[Coupon] = q => lock'[Coupon] = q /\ used' = used
    BY RowsOfAccounts DEF OneAccountStep, OwnedByOther
  <2> QED BY <1>1, <2>1, <2>2 DEF CouponHeld
<1>5. ASSUME NEW t, t = req[q].target, IsPayment(q) \/ Reverses(q)
      PROVE  /\ t \in Request \ {r} /\ req'[t] = req[t] /\ RecordKept(t)
             /\ lock[t] = q => lock'[t] = q /\ txn'[t] = txn[t]
  <2>1. t \in Request
    BY <1>1, <1>5 DEF SoundRequest, Targeted
  <2>2. t \in Request \ {r}
    BY <1>5, <2>1, TargetOfOther, RowsOfAccounts
  <2> QED BY <2>2, RowsOfAccounts DEF OneAccountStep, OwnedByOther
<1>6. BalanceHeld(q)'
  <2>1. PICK t : t = req[q].target
    OBVIOUS
  <2>2. BalanceHeld(q)
    BY <1>1 DEF SoundRequest
  <2>3. SUFFICES ASSUME IsPayment(q) PROVE BalanceHeld(q)'
    BY <1>1 DEF BalanceHeld, IsPayment
  <2>4. /\ RecordKept(t) /\ lock[t] = q => lock'[t] = q /\ txn'[t] = txn[t]
    BY <1>5, <2>1, <2>3
  <2>5. txn'[t].credit # "no"
    BY <2>1, <2>2, <2>3, <2>4, <1>5 DEF BalanceHeld, RecordKept
  <2>6. lock[t] = q => lock'[t] = q /\ txn'[t] = txn[t]
    BY <1>5, <2>1, <2>3
  <2> QED BY <1>1, <2>1, <2>2, <2>3, <2>5, <2>6 DEF BalanceHeld
<1>7. ClaimHeld(q)'
  <2>1. PICK t : t = req[q].target
    OBVIOUS
  <2>2. ClaimHeld(q)
    BY <1>1 DEF SoundRequest
  <2>3. Reverses(q) => (lock[t] = q => lock'[t] = q /\ txn'[t] = txn[t])
    BY <1>5, <2>1
  <2> QED BY <1>1, <2>1, <2>2, <2>3 DEF ClaimHeld, Reverses
<1>8. SaleAsAsked(q)'
  BY <1>1 DEF SoundRequest, SaleAsAsked, IsSale
<1>9. DeltaOfReversal(q)'
  <2>1. PICK t : t = req[q].target
    OBVIOUS
  <2>2. DeltaOfReversal(q)
    BY <1>1 DEF SoundRequest
  <2>3. Reverses(q) => req'[t] = req[t] /\ RecordKept(t)
    BY <1>5, <2>1
  <2> QED BY <1>1, <2>1, <2>2, <2>3 DEF DeltaOfReversal, Reverses, IsSale, InFull, RecordKept
<1> QED BY <1>2, <1>3, <1>4, <1>6, <1>7, <1>8, <1>9 DEF SoundRequest

\* The record of another, when the step neither pays nor reverses it.
LEMMA OtherRecord ==
    ASSUME AccountsInv, NEW r \in Request, NEW t \in Request, t # r, OneAccountStep(r),
           txn'[t].status = txn[t].status \/ txn'[t].status # "COMPLETED",
           txn'[t].paid = txn[t].paid, txn'[t].credit = txn[t].credit,
           received'[t] = received[t],
           r \notin ReversedBy(t)'
    PROVE  SoundRecord(t)'
<1>1. /\ req'[t] = req[t] /\ posted'[t] = posted[t] /\ RecordKept(t) /\ SoundRecord(t)
      /\ \A u \in Request \ {r} : req'[u] = req[u] /\ posted'[u] = posted[u]
      /\ req[r].pc # "done"
  BY DEF AccountsInv, OneAccountStep
<1>2. RecordOf(t)'
  BY <1>1 DEF SoundRecord, RecordOf, RecordKept, OnRecord, IsSale, At, Done
<1>3. BalanceOf(t)'
  BY <1>1 DEF SoundRecord, BalanceOf, Done, At
<1>4. ReversedBy(t)' = ReversedBy(t)
  BY <1>1 DEF ReversedBy, Done, At
<1>5. Reversed(t)'
  <2>1. r \notin ReversedBy(t) /\ ReversedBy(t) \subseteq Request
    BY <1>1 DEF ReversedBy, Done, At
  <2>2. \A a \in ReversedBy(t) : posted'[a] = posted[a] /\ req'[a] = req[a]
    BY <1>1, <2>1
  <2> QED BY <1>1, <1>4, <2>2 DEF SoundRecord, Reversed
<1> QED BY <1>2, <1>3, <1>5 DEF SoundRecord

\* Nobody reverses a request that has no record.
LEMMA NotYetReversed ==
    ASSUME AccountsInv, NEW r \in Request, OneAccountStep(r), req'[r].target # r
    PROVE  ReversedBy(r) = {} /\ ReversedBy(r)' = {}
<1>1. ~OnRecord(r) /\ \A q \in Request : req[q].target # Nobody => OnRecord(req[q].target)
  BY DEF AccountsInv, SoundRequest, SoundRecord, RecordOf, Targeted, OneAccountStep, At
<1>2. \A q \in Request : req[q].target # r
  BY <1>1, RowsOfAccounts
<1>3. \A q \in Request : req'[q].target # r
  BY <1>2 DEF OneAccountStep
<1> QED BY <1>2, <1>3 DEF ReversedBy

LEMMA CountStays ==
    ASSUME AccountsInv, NEW r \in Request, OneAccountStep(r), used' = used, r \notin WithCoupon'
    PROVE  CouponCounted'
<1>1. WithCoupon' = WithCoupon
  BY DEF WithCoupon, Done, At, OneAccountStep
<1> QED BY <1>1 DEF AccountsInv, CouponCounted

\* A step of r that leaves no record and commits nothing: an arrival, a
\* statement inside its transaction, or the end of it without success.
LEMMA InternalAccount ==
    ASSUME AccountsInv, NEW r \in Request, NEW rec \in ReqRecord,
           req' = [req EXCEPT ![r] = rec], req[r].pc \notin {"done", "failed"}, rec.pc # "done",
           lock' \in [Row -> Request \cup {Nobody}],
           \A x \in Row : OwnedByOther(x, r) => lock'[x] = lock[x],
           points' = points, posted' = posted, used' = used, txn' = txn, received' = received,
           SoundRequest(r)'
    PROVE  AccountsInv'
<1>1. /\ req'[r] = rec /\ \A u \in Request \ {r} : req'[u] = req[u]
      /\ req' \in [Request -> ReqRecord]
  BY AccountTypes DEF AccountsInv
<1>2. AccountsTypeOK'
  BY <1>1 DEF AccountsInv, AccountsTypeOK, ReqRecord
<1>3. OneAccountStep(r)
  BY <1>1 DEF OneAccountStep, RecordKept
<1>4. \A q \in Request : SoundRequest(q)'
  BY <1>3, OthersSound
<1>5. ASSUME NEW t \in Request, t # r PROVE SoundRecord(t)'
  <2>1. r \notin ReversedBy(t)'
    BY <1>1 DEF ReversedBy, Done, At
  <2> QED BY <1>3, <1>5, <2>1, OtherRecord
<1>6. SoundRecord(r)'
  <2>1. ~OnRecord(r) /\ SoundRecord(r) /\ ~OnRecord(r)'
    BY DEF AccountsInv, SoundRecord, RecordOf, At, OnRecord
  <2>2. RecordOf(r)'
    BY <1>1, <2>1 DEF SoundRecord, RecordOf, OnRecord, IsSale, At, Done
  <2>3. BalanceOf(r)'
    BY <1>1 DEF BalanceOf, Done, At
  <2>4. Reversed(r)'
    <3>1. ReversedBy(r)' = {}
      <4>1. \A q \in Request : req[q].target # r
        BY <2>1, RowsOfAccounts DEF AccountsInv, SoundRequest, Targeted
      <4> QED BY <1>1, <4>1 DEF ReversedBy, Done, At
    <3> QED BY <3>1 DEF Reversed
  <2> QED BY <2>2, <2>3, <2>4 DEF SoundRecord
<1>7. CouponCounted'
  <2>1. r \notin WithCoupon'
    BY <1>1 DEF WithCoupon, Done, At
  <2> QED BY <1>3, <2>1, CountStays
<1> QED BY <1>2, <1>4, <1>5, <1>6, <1>7 DEF AccountsInv

LEMMA FirstStepIs ==
    ASSUME NEW rec
    PROVE  /\ FirstStep(rec) \in {"points", "coupon", "commit"}
           /\ FirstStep(rec) = "coupon" => rec.coupon
           /\ FirstStep(rec) = "commit" => ~rec.coupon
BY DEF FirstStep

LEMMA FreshRecord == Fresh \in ReqRecord
BY DEF Fresh, ReqRecord, PCs

LEMMA SaleArriveAccount ==
    ASSUME AccountsInv, NEW r \in Request, SaleArrive(r) \/ CreditArrive(r)
    PROVE  AccountsInv'
<1>1. PICK rec \in ReqRecord :
         /\ req' = [req EXCEPT ![r] = rec] /\ At(r, "idle")
         /\ UNCHANGED <<points, posted, used, txn, received, lock>>
         /\ rec.kind \in {"sale", "credit"} /\ rec.target = Nobody
         /\ rec.pc \in {"points", "coupon", "commit"}
         /\ rec.coupon => rec.kind = "sale" /\ rec.pc # "commit"
         /\ rec.pc = "coupon" => rec.coupon
         /\ rec.loyal => rec.delta = Earned - rec.redeem
         /\ rec.kind = "credit" => rec.amount \in Nat
  <2>1. CASE SaleArrive(r)
    <3>1. PICK redeem \in Redeems, loyal \in Loyalty, coupon \in BOOLEAN :
             LET rec == [Fresh EXCEPT !.redeem = redeem, !.loyal = loyal, !.coupon = coupon,
                                      !.delta = IF loyal THEN Earned - redeem ELSE 0]
             IN  /\ loyal /\ redeem > 0 => points >= redeem
                 /\ coupon => used < UsageLimit
                 /\ Arrive(r, "sale", [rec EXCEPT !.pc = FirstStep(rec)])
                 /\ UNCHANGED <<points, posted, used, txn, received, lock>>
      BY <2>1 DEF SaleArrive
    <3>2. redeem \in Nat /\ loyal \in BOOLEAN /\ Earned \in Nat
      BY SaleAssumption, KindsAssumption
    <3>3. PICK delta \in Int : delta = IF loyal THEN Earned - redeem ELSE 0
      <4>1. CASE loyal
        BY <3>2, <4>1
      <4>2. CASE ~loyal
        BY <3>2, <4>2
      <4> QED BY <4>1, <4>2
    <3> DEFINE rec == [Fresh EXCEPT !.redeem = redeem, !.loyal = loyal, !.coupon = coupon,
                                    !.delta = delta]
               new == [[rec EXCEPT !.pc = FirstStep(rec)] EXCEPT !.kind = "sale"]
    <3>4. /\ rec \in ReqRecord /\ rec.coupon = coupon /\ rec.redeem = redeem /\ rec.loyal = loyal
          /\ rec.delta = delta /\ rec.target = Nobody
      <4>1. Fresh.target = Nobody
        BY DEF Fresh
      <4> QED BY <3>2, <4>1, FreshRecord DEF ReqRecord
    <3>5. At(r, "idle") /\ req' = [req EXCEPT ![r] = new]
      BY <3>1, <3>3 DEF Arrive
    <3> HIDE DEF rec
    <3>6. PICK first \in {"points", "coupon", "commit"} :
             first = FirstStep(rec) /\ (first = "coupon" => coupon) /\ (first = "commit" => ~coupon)
      BY <3>4, FirstStepIs
    <3>7. first \in PCs /\ "sale" \in RouteKinds
      BY DEF PCs, RouteKinds
    <3>8. /\ new \in ReqRecord /\ new.coupon = coupon /\ new.redeem = redeem /\ new.loyal = loyal
          /\ new.delta = delta /\ new.target = Nobody /\ new.pc = first /\ new.kind = "sale"
      BY <3>4, <3>6, <3>7 DEF ReqRecord
    <3> HIDE DEF new
    <3> QED BY <3>1, <3>3, <3>5, <3>6, <3>8
  <2>2. CASE CreditArrive(r)
    <3>1. PICK initial \in Initials, loyal \in Loyalty :
             LET rec == [Fresh EXCEPT !.amount = initial, !.loyal = loyal, !.delta = EarnedBy(loyal)]
             IN  /\ Arrive(r, "credit", [rec EXCEPT !.pc = FirstStep(rec)])
                 /\ UNCHANGED <<points, posted, used, txn, received, lock>>
      BY <2>2 DEF CreditArrive
    <3>2. initial \in Nat /\ initial \in Int /\ loyal \in BOOLEAN /\ Earned \in Nat
      BY SaleAssumption, KindsAssumption
    <3>3. PICK delta \in Int : delta = EarnedBy(loyal) /\ (loyal => delta = Earned - 0)
      BY <3>2 DEF EarnedBy
    <3> DEFINE rec == [Fresh EXCEPT !.amount = initial, !.loyal = loyal, !.delta = delta]
               new == [[rec EXCEPT !.pc = FirstStep(rec)] EXCEPT !.kind = "credit"]
    <3>4. /\ rec \in ReqRecord /\ rec.coupon = FALSE /\ rec.redeem = 0 /\ rec.loyal = loyal
          /\ rec.amount = initial
          /\ rec.delta = delta /\ rec.target = Nobody
      <4>1. Fresh.target = Nobody /\ Fresh.redeem = 0 /\ Fresh.coupon = FALSE
        BY DEF Fresh
      <4> QED BY <3>2, <4>1, FreshRecord DEF ReqRecord
    <3>5. At(r, "idle") /\ req' = [req EXCEPT ![r] = new]
      BY <3>1, <3>3 DEF Arrive
    <3> HIDE DEF rec
    <3>6. PICK first \in {"points", "coupon", "commit"} :
             first = FirstStep(rec) /\ first # "coupon"
      BY <3>4, FirstStepIs
    <3>7. first \in PCs /\ "credit" \in RouteKinds
      BY DEF PCs, RouteKinds
    <3>8. /\ new \in ReqRecord /\ new.amount = initial /\ new.coupon = FALSE /\ new.redeem = 0 /\ new.loyal = loyal
          /\ new.delta = delta /\ new.target = Nobody /\ new.pc = first /\ new.kind = "credit"
      BY <3>4, <3>6, <3>7 DEF ReqRecord
    <3> HIDE DEF new
    <3> QED BY <3>1, <3>2, <3>3, <3>5, <3>6, <3>8
  <2> QED BY <2>1, <2>2
<1>2. req'[r] = rec
  BY <1>1, AccountTypes DEF AccountsInv
<1>3. SoundRequest(r)'
  BY <1>1, <1>2
     DEF SoundRequest, StepOfKind, Targeted, CouponHeld, BalanceHeld, ClaimHeld, SaleAsAsked,
         DeltaOfReversal, IsSale, Reverses, IsPayment
<1>4. req[r].pc = "idle" /\ lock \in [Row -> Request \cup {Nobody}]
  BY <1>1, AccountTypes DEF At, AccountsInv
<1> QED BY <1>1, <1>3, <1>4, InternalAccount

LEMMA PayArriveAccount ==
    ASSUME AccountsInv, NEW r \in Request, PayArrive(r)
    PROVE  AccountsInv'
<1>1. PICK t \in Request, amount \in Amounts, reference \in References \cup {Nobody} :
         /\ txn[t].credit # "no"
         /\ Arrive(r, "pay", [Fresh EXCEPT !.target = t, !.amount = amount,
                                           !.reference = reference, !.pc = "balance"])
         /\ UNCHANGED <<points, posted, used, txn, received, lock>>
  BY DEF PayArrive
<1> DEFINE rec == [[Fresh EXCEPT !.target = t, !.amount = amount,
                                 !.reference = reference, !.pc = "balance"] EXCEPT !.kind = "pay"]
<1>2. amount \in Nat /\ amount \in Int /\ amount > 0
  BY AmountAssumption
<1>3. rec \in ReqRecord
  <2>1. "balance" \in PCs /\ "pay" \in RouteKinds
    BY DEF PCs, RouteKinds
  <2> QED BY <1>2, <2>1, FreshRecord DEF ReqRecord
<1>4. rec.kind = "pay" /\ rec.target = t /\ rec.amount = amount /\ rec.pc = "balance" /\ ~rec.coupon
  BY DEF Fresh
<1>5. At(r, "idle") /\ req' = [req EXCEPT ![r] = rec]
  BY <1>1 DEF Arrive
<1> HIDE DEF rec
<1>6. req'[r] = rec /\ req[r].pc = "idle" /\ lock \in [Row -> Request \cup {Nobody}]
  BY <1>5, AccountTypes DEF AccountsInv, At
<1>7. OnRecord(t)'
  <2>1. OnRecord(t)
    BY <1>1 DEF AccountsInv, SoundRecord, RecordOf
  <2> QED BY <1>1, <2>1 DEF OnRecord
<1>8. SoundRequest(r)'
  BY <1>1, <1>2, <1>4, <1>6, <1>7
     DEF SoundRequest, StepOfKind, Targeted, CouponHeld, BalanceHeld, ClaimHeld, SaleAsAsked,
         DeltaOfReversal, IsSale, Reverses, IsPayment
<1> QED BY <1>1, <1>3, <1>4, <1>5, <1>6, <1>8, InternalAccount

\* A reversal of the whole amount takes the whole share.
LEMMA ShareType ==
    ASSUME NEW n \in Nat, NEW amount \in Int, NEW total \in Int, total > 0 \/ amount >= total
    PROVE  Share(n, amount, total) \in Int /\ (amount >= total => Share(n, amount, total) = n)
<1>1. CASE amount >= total
  BY <1>1 DEF Share
<1>2. CASE ~(amount >= total)
  <2>1. PICK m \in Int : m = n * amount
    OBVIOUS
  <2>2. m \div total \in Int
    BY <1>2
  <2> QED BY <1>2, <2>1, <2>2 DEF Share
<1> QED BY <1>1, <1>2

LEMMA ReverseArriveAccount ==
    ASSUME AccountsInv, NEW r \in Request, VoidArrive(r) \/ RefundArrive(r)
    PROVE  AccountsInv'
<1>1. PICK t \in Request, kind \in {"void", "refund"}, amount \in Int :
         /\ txn[t].status # "none"
         /\ kind = "void" => amount = txn[t].total
         /\ txn[t].total > 0 \/ amount >= txn[t].total
         /\ Arrive(r, kind, Reversal(t, amount))
         /\ UNCHANGED <<points, posted, used, txn, received, lock>>
  <2>1. \A t \in Request : txn[t].total \in Int
    BY AccountTypes DEF AccountsInv, SaleTxn
  <2>2. CASE VoidArrive(r)
    <3>1. PICK t \in Request :
             /\ txn[t].status \notin {"none", "VOIDED"}
             /\ Arrive(r, "void", Reversal(t, txn[t].total))
             /\ UNCHANGED <<points, posted, used, txn, received, lock>>
      BY <2>2 DEF VoidArrive
    <3>2. txn[t].total \in Int /\ txn[t].total >= txn[t].total
      BY <2>1
    <3> QED BY <3>1, <3>2
  <2>3. CASE RefundArrive(r)
    <3>1. PICK t \in Request, a \in Amounts :
             /\ txn[t].status = "COMPLETED"
             /\ Arrive(r, "refund", Reversal(t, IF txn[t].total > 0 THEN a ELSE txn[t].total))
             /\ UNCHANGED <<points, posted, used, txn, received, lock>>
      BY <2>3 DEF RefundArrive
    <3>2. PICK amount \in Int : amount = IF txn[t].total > 0 THEN a ELSE txn[t].total
      BY <2>1, AmountAssumption
    <3>3. txn[t].total > 0 \/ amount >= txn[t].total
      BY <2>1, <3>2
    <3> QED BY <3>1, <3>2, <3>3
  <2> QED BY <2>2, <2>3
<1>2. PICK back \in Int, taken \in Int :
         /\ back = RedeemedBack(t, amount) /\ taken = EarnedBack(t, amount)
         /\ amount >= txn[t].total => back = txn[t].redeemed /\ taken = txn[t].earned
  <2>1. txn[t].redeemed \in Nat /\ txn[t].earned \in Nat /\ txn[t].total \in Int
    BY AccountTypes DEF AccountsInv, SaleTxn
  <2>2. RedeemedBack(t, amount) \in Int /\ (amount >= txn[t].total => RedeemedBack(t, amount) = txn[t].redeemed)
    BY <1>1, <2>1, ShareType DEF RedeemedBack
  <2>3. EarnedBack(t, amount) \in Int /\ (amount >= txn[t].total => EarnedBack(t, amount) = txn[t].earned)
    BY <1>1, <2>1, ShareType DEF EarnedBack
  <2> QED BY <2>2, <2>3
<1> DEFINE rec == [[Fresh EXCEPT !.target = t, !.pc = "claim", !.amount = amount,
                                 !.delta = back - taken] EXCEPT !.kind = kind]
<1>3. At(r, "idle") /\ req' = [req EXCEPT ![r] = rec]
  BY <1>1, <1>2 DEF Arrive, Reversal
<1>4. rec \in ReqRecord
  <2>1. "claim" \in PCs /\ kind \in RouteKinds /\ back - taken \in Int
    BY DEF PCs, RouteKinds
  <2> QED BY <2>1, FreshRecord DEF ReqRecord
<1>5. /\ rec.kind = kind /\ rec.target = t /\ rec.amount = amount /\ rec.pc = "claim" /\ ~rec.coupon
      /\ rec.delta = back - taken
  BY DEF Fresh
<1> HIDE DEF rec
<1>6. req'[r] = rec /\ req[r].pc = "idle" /\ lock \in [Row -> Request \cup {Nobody}]
  BY <1>3, AccountTypes DEF AccountsInv, At
<1>7. OnRecord(t) /\ OnRecord(t)' /\ t # r
  BY <1>1, <1>6 DEF OnRecord, AccountsInv, SoundRecord, RecordOf, At
<1>8. DeltaOfReversal(r)'
  <2> SUFFICES ASSUME IsSale(t), kind = "void" \/ amount >= Total
               PROVE  back - taken = txn[t].redeemed - txn[t].earned
    <3>1. req'[r].target = t /\ req'[t] = req[t] /\ txn' = txn
      BY <1>1, <1>3, <1>5, <1>6, <1>7, AccountTypes DEF AccountsInv
    <3>2. IsSale(t)' <=> IsSale(t)
      BY <3>1 DEF IsSale
    <3> QED BY <1>5, <1>6, <3>1, <3>2 DEF DeltaOfReversal, InFull
  <2>1. txn[t].total = Total /\ Total \in Nat
    BY <1>7, SaleAssumption DEF AccountsInv, SoundRecord, RecordOf
  <2>2. amount >= txn[t].total
    BY <1>1, <2>1
  <2> QED BY <1>2, <2>2
<1>9. SoundRequest(r)'
  BY <1>1, <1>5, <1>6, <1>7, <1>8
     DEF SoundRequest, StepOfKind, Targeted, CouponHeld, BalanceHeld, ClaimHeld, SaleAsAsked,
         IsSale, Reverses, IsPayment
<1> QED BY <1>1, <1>3, <1>4, <1>5, <1>6, <1>9, InternalAccount

(***************************************************************************)
(* The statements of a transaction, and its end without success.           *)
(***************************************************************************)
\* A statement, or the end, of a transaction asks for nothing new.
LEMMA StatementAccount ==
    ASSUME AccountsInv, NEW r \in Request, NEW rec \in ReqRecord, InFlight(r),
           req' = [req EXCEPT ![r] = rec], rec.pc # "done",
           rec.kind = req[r].kind, rec.target = req[r].target, rec.amount = req[r].amount,
           rec.loyal = req[r].loyal, rec.coupon = req[r].coupon, rec.delta = req[r].delta,
           rec.redeem = req[r].redeem,
           lock' \in [Row -> Request \cup {Nobody}],
           \A x \in Row : OwnedByOther(x, r) => lock'[x] = lock[x],
           points' = points, posted' = posted, used' = used, txn' = txn, received' = received,
           StepOfKind(r)', CouponHeld(r)', BalanceHeld(r)', ClaimHeld(r)'
    PROVE  AccountsInv'
<1>1. req[r] \in ReqRecord /\ SoundRequest(r) /\ req'[r] = rec
  BY AccountTypes DEF AccountsInv
<1>2. Targeted(r)'
  BY <1>1 DEF SoundRequest, Targeted, OnRecord, Reverses, IsPayment
<1>3. SaleAsAsked(r)'
  BY <1>1 DEF SoundRequest, SaleAsAsked, IsSale
<1>4. DeltaOfReversal(r)'
  <2>1. ~OnRecord(r)
    BY DEF AccountsInv, SoundRecord, RecordOf, At, InFlight
  <2>2. req[r].target = r => ~Reverses(r)
    BY <1>1, <2>1, RowsOfAccounts DEF SoundRequest, Targeted
  <2>3. Reverses(r) => req[r].target \in Request
    BY <1>1 DEF SoundRequest, Targeted
  <2> QED
    BY <1>1, <2>2, <2>3, AccountTypes
       DEF SoundRequest, DeltaOfReversal, InFull, IsSale, Reverses, AccountsInv
<1>5. SoundRequest(r)'
  BY <1>2, <1>3, <1>4 DEF SoundRequest
<1>6. req[r].pc \notin {"done", "failed"}
  BY DEF InFlight
<1> QED BY <1>5, <1>6, InternalAccount

LEMMA FailAccount ==
    ASSUME AccountsInv, NEW r \in Request, Fail(r), InFlight(r)
    PROVE  AccountsInv'
<1> DEFINE rec == [req[r] EXCEPT !.pc = "failed"]
<1>1. req[r] \in ReqRecord /\ SoundRequest(r)
  BY AccountTypes DEF AccountsInv
<1>2. /\ rec \in ReqRecord /\ rec.pc = "failed"
      /\ rec.kind = req[r].kind /\ rec.target = req[r].target /\ rec.amount = req[r].amount
      /\ rec.loyal = req[r].loyal /\ rec.coupon = req[r].coupon /\ rec.delta = req[r].delta
      /\ rec.redeem = req[r].redeem
  BY <1>1 DEF ReqRecord, PCs
<1>3. req' = [req EXCEPT ![r] = rec] /\ UNCHANGED <<points, posted, used, txn, received>>
  BY AccountTypes DEF Fail, Goto, AccountsInv
<1> HIDE DEF rec
<1>4. req'[r] = rec
  BY <1>3, AccountTypes DEF AccountsInv
<1>5. /\ lock' \in [Row -> Request \cup {Nobody}]
      /\ \A x \in Row : OwnedByOther(x, r) => lock'[x] = lock[x]
  BY AccountTypes DEF Fail, Unlocked, AccountsInv, OwnedByOther
<1>6. StepOfKind(r)' /\ CouponHeld(r)' /\ BalanceHeld(r)' /\ ClaimHeld(r)'
  BY <1>1, <1>2, <1>3, <1>4
     DEF SoundRequest, StepOfKind, CouponHeld, BalanceHeld, ClaimHeld, Reverses, IsPayment
<1> QED BY <1>2, <1>3, <1>5, <1>6, StatementAccount

\* A row that is taken was free or one's own.
LEMMA TakenRow ==
    ASSUME AccountsInv, NEW r \in Request, NEW x \in Row, Take(r, x)
    PROVE  /\ lock' \in [Row -> Request \cup {Nobody}] /\ lock'[x] = r
           /\ \A y \in Row : y # x => lock'[y] = lock[y]
           /\ \A y \in Row : OwnedByOther(y, r) => lock'[y] = lock[y]
<1>1. lock \in [Row -> Request \cup {Nobody}] /\ lock' = [lock EXCEPT ![x] = r] /\ lock[x] \in {Nobody, r}
  BY AccountTypes DEF AccountsInv, Take, Free
<1>2. ~OwnedByOther(x, r)
  BY <1>1, RowsOfAccounts DEF OwnedByOther
<1> QED BY <1>1, <1>2

LEMMA TakePointsAccount ==
    ASSUME AccountsInv, NEW r \in Request, TakePoints(r)
    PROVE  AccountsInv'
<1> DEFINE next == IF req[r].coupon THEN "coupon" ELSE "commit"
           rec == [req[r] EXCEPT !.pc = next]
<1>1. req[r] \in ReqRecord /\ SoundRequest(r) /\ req[r].pc = "points"
  BY AccountTypes DEF AccountsInv, TakePoints, At
<1>2. next \in PCs /\ next \in {"coupon", "commit"} /\ (next = "coupon" <=> req[r].coupon)
  BY <1>1 DEF PCs, ReqRecord
<1>3. req' = [req EXCEPT ![r] = rec] /\ UNCHANGED <<points, posted, used, txn, received>>
  BY AccountTypes DEF TakePoints, Goto, AccountsInv
<1> HIDE DEF next
<1>4. /\ rec \in ReqRecord /\ rec.pc = next
      /\ rec.kind = req[r].kind /\ rec.target = req[r].target /\ rec.amount = req[r].amount
      /\ rec.loyal = req[r].loyal /\ rec.coupon = req[r].coupon /\ rec.delta = req[r].delta
      /\ rec.redeem = req[r].redeem
  BY <1>1, <1>2 DEF ReqRecord
<1> HIDE DEF rec
<1>5. req'[r] = rec
  BY <1>3, AccountTypes DEF AccountsInv
<1>6. /\ lock' \in [Row -> Request \cup {Nobody}]
      /\ \A y \in Row : y # Customer => lock'[y] = lock[y]
      /\ \A y \in Row : OwnedByOther(y, r) => lock'[y] = lock[y]
  BY RowsOfAccounts, TakenRow DEF TakePoints
<1>7. StepOfKind(r)' /\ CouponHeld(r)' /\ BalanceHeld(r)'
  BY <1>1, <1>2, <1>3, <1>4, <1>5
     DEF SoundRequest, StepOfKind, CouponHeld, BalanceHeld, Reverses, IsPayment
<1>8. ClaimHeld(r)'
  <2>1. Reverses(r) => req[r].target \in Row /\ req[r].target # Customer
    BY <1>1, RowsOfAccounts DEF SoundRequest, Targeted
  <2> QED BY <1>1, <1>3, <1>4, <1>5, <1>6, <2>1 DEF SoundRequest, ClaimHeld, Reverses
<1>9. InFlight(r)
  BY <1>1 DEF InFlight
<1> QED BY <1>2, <1>3, <1>4, <1>6, <1>7, <1>8, <1>9, StatementAccount

LEMMA TakeCouponAccount ==
    ASSUME AccountsInv, NEW r \in Request, TakeCoupon(r)
    PROVE  AccountsInv'
<1>1. req[r] \in ReqRecord /\ SoundRequest(r) /\ req[r].pc = "coupon" /\ InFlight(r)
  BY AccountTypes DEF AccountsInv, TakeCoupon, At, InFlight
<1>2. CASE Fail(r)
  BY <1>1, <1>2, FailAccount
<1>3. CASE ~Fail(r)
  <2> DEFINE rec == [req[r] EXCEPT !.pc = "commit"]
  <2>1. /\ req' = [req EXCEPT ![r] = rec] /\ UNCHANGED <<points, posted, used, txn, received>>
        /\ used < UsageLimit /\ Take(r, Coupon)
    BY <1>3, AccountTypes DEF TakeCoupon, Goto, AccountsInv
  <2>2. /\ rec \in ReqRecord /\ rec.pc = "commit"
        /\ rec.kind = req[r].kind /\ rec.target = req[r].target /\ rec.amount = req[r].amount
        /\ rec.loyal = req[r].loyal /\ rec.coupon = req[r].coupon /\ rec.delta = req[r].delta
        /\ rec.redeem = req[r].redeem
    BY <1>1 DEF ReqRecord, PCs
  <2> HIDE DEF rec
  <2>3. req'[r] = rec
    BY <2>1, AccountTypes DEF AccountsInv
  <2>4. /\ lock' \in [Row -> Request \cup {Nobody}] /\ lock'[Coupon] = r
        /\ \A y \in Row : OwnedByOther(y, r) => lock'[y] = lock[y]
    BY <2>1, RowsOfAccounts, TakenRow
  <2>5. StepOfKind(r)' /\ CouponHeld(r)' /\ BalanceHeld(r)' /\ ClaimHeld(r)'
    BY <1>1, <2>1, <2>2, <2>3, <2>4
       DEF SoundRequest, StepOfKind, CouponHeld, BalanceHeld, ClaimHeld, Reverses, IsPayment
  <2> QED BY <1>1, <2>1, <2>2, <2>4, <2>5, StatementAccount
<1> QED BY <1>2, <1>3

LEMMA PayLockAccount ==
    ASSUME AccountsInv, NEW r \in Request, PayLock(r)
    PROVE  AccountsInv'
<1>1. req[r] \in ReqRecord /\ SoundRequest(r) /\ req[r].pc = "balance" /\ InFlight(r)
  BY AccountTypes DEF AccountsInv, PayLock, At, InFlight
<1>2. CASE Fail(r)
  BY <1>1, <1>2, FailAccount
<1>3. CASE ~Fail(r)
  <2>0. PICK t \in Request : t = req[r].target /\ IsPayment(r)
    BY <1>1 DEF SoundRequest, StepOfKind, Targeted
  <2>1. /\ txn[t].paid \in Int /\ txn[t].total = Total /\ Total \in Int /\ req[r].amount \in Int
        /\ txn[t].credit # "no"
    <3>1. txn[t].credit # "no"
      BY <1>1, <2>0 DEF SoundRequest, BalanceHeld
    <3>2. Done(t, "credit") /\ txn[t].total = Total
      BY <3>1 DEF AccountsInv, SoundRecord, RecordOf, IsSale, Done
    <3>3. txn[t] \in SaleTxn
      BY AccountTypes DEF AccountsInv
    <3> QED BY <1>1, <3>1, <3>2, <3>3, SaleAssumption DEF SaleTxn, ReqRecord
  <2> DEFINE rec == [req[r] EXCEPT !.seen = txn[t].paid, !.pc = "commit"]
  <2>2. /\ req' = [req EXCEPT ![r] = rec] /\ UNCHANGED <<points, posted, used, txn, received>>
        /\ req[r].amount <= txn[t].total - txn[t].paid /\ Take(r, t)
    BY <1>3, <2>0, AccountTypes DEF PayLock, AccountsInv
  <2>3. /\ rec \in ReqRecord /\ rec.pc = "commit" /\ rec.seen = txn[t].paid
        /\ rec.kind = req[r].kind /\ rec.target = req[r].target /\ rec.amount = req[r].amount
        /\ rec.loyal = req[r].loyal /\ rec.coupon = req[r].coupon /\ rec.delta = req[r].delta
        /\ rec.redeem = req[r].redeem
    BY <1>1, <2>1 DEF ReqRecord, PCs
  <2> HIDE DEF rec
  <2>4. req'[r] = rec
    BY <2>2, AccountTypes DEF AccountsInv
  <2>5. /\ lock' \in [Row -> Request \cup {Nobody}] /\ lock'[t] = r
        /\ \A y \in Row : OwnedByOther(y, r) => lock'[y] = lock[y]
    BY <2>2, RowsOfAccounts, TakenRow
  <2>6. txn[t].paid + req[r].amount <= Total
    BY <2>1, <2>2
  <2>7. BalanceHeld(r)'
    BY <1>1, <2>0, <2>1, <2>2, <2>3, <2>4, <2>5, <2>6 DEF SoundRequest, BalanceHeld
  <2>8. StepOfKind(r)' /\ CouponHeld(r)' /\ ClaimHeld(r)'
    BY <1>1, <2>0, <2>2, <2>3, <2>4
       DEF SoundRequest, StepOfKind, CouponHeld, ClaimHeld, Reverses, IsPayment
  <2> QED BY <1>1, <2>2, <2>3, <2>5, <2>7, <2>8, StatementAccount
<1> QED BY <1>2, <1>3

LEMMA ClaimAccount ==
    ASSUME AccountsInv, NEW r \in Request, Claim(r)
    PROVE  AccountsInv'
<1>1. req[r] \in ReqRecord /\ SoundRequest(r) /\ req[r].pc = "claim" /\ InFlight(r)
  BY AccountTypes DEF AccountsInv, Claim, At, InFlight
<1>2. CASE Fail(r)
  BY <1>1, <1>2, FailAccount
<1>3. CASE ~Fail(r)
  <2>0. PICK t \in Request : t = req[r].target /\ Reverses(r)
    BY <1>1 DEF SoundRequest, StepOfKind, Targeted
  <2>1. PICK next \in {"points", "commit"} : next = AfterClaim(r)
    BY DEF AfterClaim
  <2> DEFINE rec == [req[r] EXCEPT !.pc = next]
  <2>2. /\ req' = [req EXCEPT ![r] = rec] /\ UNCHANGED <<points, posted, used, txn, received>>
        /\ txn[t].status = "COMPLETED" /\ Take(r, t)
    BY <1>3, <2>0, <2>1, AccountTypes DEF Claim, Goto, AccountsInv
  <2>3. /\ rec \in ReqRecord /\ rec.pc = next
        /\ rec.kind = req[r].kind /\ rec.target = req[r].target /\ rec.amount = req[r].amount
        /\ rec.loyal = req[r].loyal /\ rec.coupon = req[r].coupon /\ rec.delta = req[r].delta
        /\ rec.redeem = req[r].redeem
    BY <1>1 DEF ReqRecord, PCs
  <2> HIDE DEF rec
  <2>4. req'[r] = rec
    BY <2>2, AccountTypes DEF AccountsInv
  <2>5. /\ lock' \in [Row -> Request \cup {Nobody}] /\ lock'[t] = r
        /\ \A y \in Row : OwnedByOther(y, r) => lock'[y] = lock[y]
    BY <2>2, RowsOfAccounts, TakenRow
  <2>6. ClaimHeld(r)'
    BY <2>0, <2>2, <2>3, <2>4, <2>5 DEF ClaimHeld
  <2>7. StepOfKind(r)' /\ CouponHeld(r)' /\ BalanceHeld(r)'
    BY <1>1, <2>0, <2>2, <2>3, <2>4
       DEF SoundRequest, StepOfKind, CouponHeld, BalanceHeld, Reverses, IsPayment
  <2> QED BY <1>1, <2>2, <2>3, <2>5, <2>6, <2>7, StatementAccount
<1> QED BY <1>2, <1>3

(***************************************************************************)
(* Commits.                                                                *)
(***************************************************************************)
LEMMA CommitOf ==
    ASSUME AccountsInv, NEW r \in Request, Commit(r), req[r].pc = "commit"
    PROVE  /\ req'[r].pc = "done" /\ req'[r].kind = req[r].kind /\ req'[r].target = req[r].target
           /\ req'[r].amount = req[r].amount /\ req'[r].loyal = req[r].loyal
           /\ req'[r].coupon = req[r].coupon /\ req'[r].delta = req[r].delta
           /\ req'[r].redeem = req[r].redeem
           /\ req' \in [Request -> ReqRecord]
           /\ \A u \in Request \ {r} : req'[u] = req[u] /\ posted'[u] = posted[u]
           /\ posted' \in [Request -> Int] /\ posted'[r] = req[r].delta
           /\ points' \in Int
           /\ lock' \in [Row -> Request \cup {Nobody}]
           /\ \A x \in Row : OwnedByOther(x, r) => lock'[x] = lock[x]
<1>1. /\ req[r] \in ReqRecord /\ req \in [Request -> ReqRecord] /\ posted \in [Request -> Int]
      /\ points \in Int /\ lock \in [Row -> Request \cup {Nobody}]
  BY AccountTypes DEF AccountsInv
<1> DEFINE rec == [req[r] EXCEPT !.pc = "done"]
<1>2. /\ rec \in ReqRecord /\ rec.pc = "done"
      /\ rec.kind = req[r].kind /\ rec.target = req[r].target /\ rec.amount = req[r].amount
      /\ rec.loyal = req[r].loyal /\ rec.coupon = req[r].coupon /\ rec.delta = req[r].delta
      /\ rec.redeem = req[r].redeem
  BY <1>1 DEF ReqRecord, PCs
<1>3. req' = [req EXCEPT ![r] = rec]
  BY <1>1 DEF Commit, Goto
<1> HIDE DEF rec
<1>4. req' \in [Request -> ReqRecord] /\ req'[r] = rec /\ \A u \in Request \ {r} : req'[u] = req[u]
  BY <1>1, <1>2, <1>3
<1>5. req[r].delta \in Int
  BY <1>1 DEF ReqRecord
<1>6. /\ posted' \in [Request -> Int] /\ posted'[r] = req[r].delta
      /\ \A u \in Request \ {r} : posted'[u] = posted[u]
      /\ points' \in Int
  BY <1>1, <1>5 DEF Commit
<1>7. /\ lock' \in [Row -> Request \cup {Nobody}]
      /\ \A x \in Row : OwnedByOther(x, r) => lock'[x] = lock[x]
  BY <1>1 DEF Commit, Unlocked, OwnedByOther
<1> QED BY <1>2, <1>4, <1>6, <1>7

LEMMA CommitAccount ==
    ASSUME AccountsInv, NEW r \in Request, Commit(r), req[r].pc = "commit", OneAccountStep(r),
           txn' \in [Request -> SaleTxn], received' \in [Request -> Nat], used' \in Nat,
           \A t \in Request : SoundRecord(t)',
           CouponCounted'
    PROVE  AccountsInv'
<1>1. AccountsTypeOK'
  BY CommitOf DEF AccountsTypeOK, ReqRecord, SaleTxn
<1>2. SoundRequest(r) /\ ~OnRecord(r) /\ req[r] \in ReqRecord
  BY AccountTypes DEF AccountsInv, SoundRecord, RecordOf, At
<1>3. ASSUME NEW t \in Request, t = req[r].target
      PROVE  t # r /\ OnRecord(t)' /\ req'[t] = req[t] /\ RecordKept(t)
  <2>1. OnRecord(t) /\ t # r
    BY <1>2, <1>3, RowsOfAccounts DEF SoundRequest, Targeted
  <2> QED BY <2>1 DEF OneAccountStep, RecordKept, OnRecord
<1>4. StepOfKind(r)' /\ CouponHeld(r)' /\ ClaimHeld(r)'
  BY <1>2, CommitOf DEF SoundRequest, StepOfKind, CouponHeld, ClaimHeld, Reverses, IsPayment
<1>5. Targeted(r)'
  <2>1. req'[r].target = req[r].target /\ req'[r].kind = req[r].kind
    BY CommitOf
  <2>2. Targeted(r) /\ req[r].target \in Request \cup {Nobody}
    BY <1>2 DEF SoundRequest, ReqRecord
  <2>3. req[r].target \in Request => (OnRecord(req[r].target))'
    <3>1. PICK t : t = req[r].target
      OBVIOUS
    <3>2. req'[r].target = t
      BY <2>1, <3>1
    <3> QED BY <1>3, <3>1, <3>2
  <2> QED BY <2>1, <2>2, <2>3 DEF Targeted, Reverses, IsPayment
<1>6. BalanceHeld(r)'
  <2>0. PICK t : t = req[r].target
    OBVIOUS
  <2> SUFFICES ASSUME IsPayment(r) PROVE txn'[t].credit # "no" /\ req[r].amount > 0
    BY <2>0, CommitOf DEF BalanceHeld, IsPayment
  <2>1. t \in Request /\ txn[t].credit # "no" /\ req[r].amount > 0
    BY <1>2, <2>0 DEF SoundRequest, Targeted, BalanceHeld
  <2> QED BY <1>3, <2>0, <2>1 DEF RecordKept
<1>7. SaleAsAsked(r)'
  BY <1>2, CommitOf DEF SoundRequest, SaleAsAsked, IsSale
<1>8. DeltaOfReversal(r)'
  <2>0. PICK t : t = req[r].target
    OBVIOUS
  <2>1. Reverses(r) => t \in Request
    BY <1>2, <2>0 DEF SoundRequest, Targeted
  <2>2. Reverses(r) => req'[t] = req[t] /\ RecordKept(t)
    BY <1>3, <2>0, <2>1
  <2> QED
    BY <1>2, <2>0, <2>2, CommitOf
       DEF SoundRequest, DeltaOfReversal, Reverses, IsSale, InFull, RecordKept
<1>9. \A q \in Request : SoundRequest(q)'
  <2>1. SoundRequest(r)'
    BY <1>4, <1>5, <1>6, <1>7, <1>8 DEF SoundRequest
  <2> QED BY <2>1, OthersSound
<1> QED BY <1>1, <1>9 DEF AccountsInv

\* The fields of a sale's record.
LEMMA SaleRecordIs ==
    ASSUME AccountsInv, NEW r \in Request, IsSale(r)
    PROVE  /\ SaleRecord(r) \in SaleTxn
           /\ SaleRecord(r).status = "COMPLETED" /\ SaleRecord(r).total = Total
           /\ req[r].loyal => SaleRecord(r).earned = Earned
           /\ SaleRecord(r).redeemed = req[r].redeem
           /\ SaleRecord(r).credit # "no" <=> req[r].kind = "credit"
           /\ req[r].kind = "credit" =>
                 SaleRecord(r).paid = req[r].amount /\ SaleRecord(r).credit = Credit(req[r].amount)
<1>1. /\ Earned \in Nat /\ Total \in Nat \ {0} /\ req[r].redeem \in Nat /\ req[r].loyal \in BOOLEAN
      /\ req[r].kind \in {"sale", "credit"}
  BY SaleAssumption, AccountTypes DEF IsSale, AccountsInv, ReqRecord
<1>2. Credit(req[r].amount) \in {"PENDING", "PARTIAL", "PAID"}
  BY DEF Credit
<1>3. EarnedBy(req[r].loyal) \in Nat /\ (req[r].loyal => EarnedBy(req[r].loyal) = Earned)
  BY <1>1 DEF EarnedBy
<1>4. req[r].kind = "credit" => req[r].amount \in Nat
  BY DEF AccountsInv, SoundRequest, SaleAsAsked
<1> DEFINE credit == IF req[r].kind = "credit" THEN Credit(req[r].amount) ELSE "no"
           paid == IF req[r].kind = "credit" THEN req[r].amount ELSE 0
<1>5. /\ credit \in {"no", "PENDING", "PARTIAL", "PAID"} /\ paid \in Nat
      /\ credit # "no" <=> req[r].kind = "credit"
      /\ req[r].kind = "credit" => paid = req[r].amount /\ credit = Credit(req[r].amount)
  BY <1>2, <1>4
<1>6. SaleRecord(r) = [status |-> "COMPLETED", total |-> Total, items |-> TRUE,
                       credit |-> credit, paid |-> paid,
                       earned |-> EarnedBy(req[r].loyal), redeemed |-> req[r].redeem]
  BY DEF SaleRecord
<1> HIDE DEF credit, paid
<1> QED BY <1>1, <1>3, <1>5, <1>6 DEF SaleTxn

LEMMA SaleCommitAccount ==
    ASSUME AccountsInv, NEW r \in Request, SaleCommit(r)
    PROVE  AccountsInv'
<1>1. /\ req[r].pc = "commit" /\ IsSale(r) /\ Commit(r) /\ received' = received
      /\ txn' = [txn EXCEPT ![r] = SaleRecord(r)]
      /\ used' = IF req[r].coupon THEN used + 1 ELSE used
  BY DEF SaleCommit, At, IsSale
<1>2. /\ req[r] \in ReqRecord /\ SoundRequest(r) /\ ~OnRecord(r) /\ txn \in [Request -> SaleTxn]
      /\ received \in [Request -> Nat] /\ used \in Nat /\ SoundRecord(r)
  BY <1>1, AccountTypes DEF AccountsInv, SoundRecord, RecordOf, At
<1>3. /\ txn' \in [Request -> SaleTxn] /\ txn'[r] = SaleRecord(r)
      /\ \A u \in Request \ {r} : txn'[u] = txn[u]
  BY <1>1, <1>2, SaleRecordIs
<1>4. OneAccountStep(r)
  <2>1. OwnedByOther(Coupon, r) => used' = used
    BY <1>1, <1>2 DEF SoundRequest, CouponHeld, OwnedByOther
  <2> QED BY <1>1, <1>3, <2>1, CommitOf DEF OneAccountStep, RecordKept
<1>5. ASSUME NEW t \in Request, t # r PROVE SoundRecord(t)'
  <2>1. r \notin ReversedBy(t)'
    BY <1>1, CommitOf DEF ReversedBy, Done, IsSale
  <2> QED BY <1>1, <1>3, <1>4, <1>5, <2>1, OtherRecord
<1>6. SoundRecord(r)'
  <2>1. RecordOf(r)'
    BY <1>1, <1>2, <1>3, SaleRecordIs, CommitOf
       DEF RecordOf, OnRecord, At, Done, IsSale, SoundRequest, SaleAsAsked
  <2>2. BalanceOf(r)'
    <3>1. received[r] = 0 /\ req[r].amount \in Int
      BY <1>2 DEF SoundRecord, RecordOf, ReqRecord
    <3> QED BY <1>1, <1>3, <3>1, SaleRecordIs, CommitOf DEF BalanceOf, Done
  <2>3. Reversed(r)'
    <3>1. req'[r].target # r
      BY <1>1, <1>2, RowsOfAccounts, CommitOf DEF SoundRequest, Targeted
    <3> QED BY <1>4, <3>1, NotYetReversed DEF Reversed
  <2> QED BY <2>1, <2>2, <2>3 DEF SoundRecord
<1>7. CouponCounted'
  <2>1. CASE ~req[r].coupon
    <3>1. r \notin WithCoupon'
      BY <2>1, CommitOf, <1>1 DEF WithCoupon
    <3> QED BY <1>1, <1>4, <2>1, <3>1, CountStays
  <2>2. CASE req[r].coupon
    <3>1. used < UsageLimit /\ req[r].kind = "sale"
      BY <1>1, <1>2, <2>2 DEF SoundRequest, CouponHeld, StepOfKind
    <3>2. WithCoupon' = WithCoupon \cup {r} /\ r \notin WithCoupon
      BY <1>1, <2>2, <3>1, CommitOf DEF WithCoupon, Done, At
    <3>3. IsFiniteSet(WithCoupon) /\ used = Cardinality(WithCoupon)
      BY DEF AccountsInv, CouponCounted
    <3>4. IsFiniteSet(WithCoupon') /\ Cardinality(WithCoupon') = Cardinality(WithCoupon) + 1
      BY <3>2, <3>3, FS_AddElement
    <3>5. used' = used + 1 /\ used + 1 <= UsageLimit
      BY <1>1, <1>2, <2>2, <3>1, SaleAssumption
    <3> QED BY <3>3, <3>4, <3>5 DEF CouponCounted
  <2> QED BY <2>1, <2>2
<1>8. used' \in Nat
  BY <1>1, <1>2
<1>9. \A t \in Request : SoundRecord(t)'
  BY <1>5, <1>6
<1> QED BY <1>1, <1>2, <1>3, <1>4, <1>7, <1>8, <1>9, CommitAccount

LEMMA PayCommitAccount ==
    ASSUME AccountsInv, NEW r \in Request, PayCommit(r)
    PROVE  AccountsInv'
<1>0. req[r].pc = "commit" /\ IsPayment(r)
  BY DEF PayCommit, At, IsPayment
<1>1. /\ req[r] \in ReqRecord /\ SoundRequest(r) /\ ~OnRecord(r) /\ txn \in [Request -> SaleTxn]
      /\ received \in [Request -> Nat] /\ used \in Nat /\ SoundRecord(r)
  BY <1>0, AccountTypes DEF AccountsInv, SoundRecord, RecordOf, At
<1>2. PICK t \in Request : t = req[r].target /\ t # r
  BY <1>0, <1>1, RowsOfAccounts DEF SoundRequest, Targeted
<1>3. PICK a \in Int, p \in Nat : a = req[r].amount /\ p = txn[t].paid
  BY <1>1 DEF ReqRecord, SaleTxn
<1>4. /\ lock[t] = r /\ req[r].seen = p /\ a > 0 /\ p + a <= Total /\ txn[t].credit # "no"
  BY <1>0, <1>1, <1>2, <1>3 DEF SoundRequest, BalanceHeld
<1>5. /\ SoundRecord(t) /\ Done(t, "credit") /\ txn[t].total = Total /\ Total \in Nat /\ OnRecord(t)
  BY <1>4, SaleAssumption DEF AccountsInv, SoundRecord, RecordOf, Done, IsSale
<1>6. PICK rec \in SaleTxn :
         /\ txn' = [txn EXCEPT ![t] = rec] /\ rec.paid = p + a
         /\ rec.credit = IF p + a >= Total THEN "PAID" ELSE "PARTIAL"
         /\ rec.status = txn[t].status /\ rec.total = txn[t].total
         /\ rec.earned = txn[t].earned /\ rec.redeemed = txn[t].redeemed
  <2>1. p + a \in Nat
    BY <1>3, <1>4
  <2>2. PICK credit \in {"PAID", "PARTIAL"} : credit = IF p + a >= Total THEN "PAID" ELSE "PARTIAL"
    OBVIOUS
  <2> DEFINE rec == [txn[t] EXCEPT !.paid = p + a, !.credit = credit]
  <2>3. txn' = [txn EXCEPT ![t] = rec]
    BY <1>1, <1>2, <1>3, <1>4, <1>5, <2>2 DEF PayCommit
  <2>4. txn[t] \in SaleTxn
    BY <1>1
  <2>5. /\ rec \in SaleTxn /\ rec.paid = p + a /\ rec.credit = credit
        /\ rec.status = txn[t].status /\ rec.total = txn[t].total
        /\ rec.earned = txn[t].earned /\ rec.redeemed = txn[t].redeemed
    BY <2>1, <2>4 DEF SaleTxn
  <2> HIDE DEF rec
  <2> QED BY <2>2, <2>3, <2>5
<1>7. /\ Commit(r) /\ used' = used /\ received' = [received EXCEPT ![t] = @ + a]
  BY <1>2, <1>3 DEF PayCommit
<1>8. /\ txn' \in [Request -> SaleTxn] /\ txn'[t] = rec
      /\ \A u \in Request \ {t} : txn'[u] = txn[u] /\ received'[u] = received[u]
      /\ received' \in [Request -> Nat] /\ received'[t] = received[t] + a
  BY <1>1, <1>3, <1>4, <1>6, <1>7
<1>9. OneAccountStep(r)
  <2>1. RecordKept(t)
    BY <1>4, <1>6, <1>8 DEF RecordKept
  <2>2. ~OwnedByOther(t, r)
    BY <1>4 DEF OwnedByOther
  <2> QED BY <1>0, <1>7, <1>8, <2>1, <2>2, CommitOf DEF OneAccountStep, RecordKept
<1>10. \A u \in Request : r \notin ReversedBy(u)'
  BY <1>0, <1>7, CommitOf DEF ReversedBy, Done, IsPayment
<1>11. ASSUME NEW u \in Request \ {r, t} PROVE SoundRecord(u)'
  BY <1>8, <1>9, <1>10, OtherRecord
<1>12. SoundRecord(t)'
  <2>1. /\ req'[t] = req[t] /\ posted'[t] = posted[t] /\ RecordKept(t)
        /\ \A u \in Request \ {r} : req'[u] = req[u] /\ posted'[u] = posted[u]
    BY <1>2, <1>9 DEF OneAccountStep
  <2>2. RecordOf(t)'
    BY <1>5, <2>1 DEF SoundRecord, RecordOf, RecordKept, OnRecord, IsSale, At, Done
  <2>3. BalanceOf(t)'
    <3>1. req[t].amount \in Int /\ received[t] \in Nat /\ p = req[t].amount + received[t]
      BY <1>1, <1>3, <1>5, AccountTypes DEF SoundRecord, BalanceOf, AccountsInv, ReqRecord
    <3>2. rec.credit = Credit(p + a)
      <4>1. PICK n \in Int : n = p + a /\ n > 0
        BY <1>3, <1>4
      <4>2. CASE n >= Total
        <5>1. Credit(n) = "PAID"
          BY <4>1, <4>2, SaleAssumption DEF Credit
        <5> QED BY <1>6, <4>1, <4>2, <5>1
      <4>3. CASE ~(n >= Total)
        <5>1. Credit(n) = "PARTIAL"
          BY <4>1, <4>3, SaleAssumption DEF Credit
        <5> QED BY <1>6, <4>1, <4>3, <5>1
      <4> QED BY <4>2, <4>3
    <3> QED BY <1>3, <1>4, <1>6, <1>8, <2>1, <3>1, <3>2 DEF BalanceOf
  <2>4. ReversedBy(t)' = ReversedBy(t) /\ r \notin ReversedBy(t)
    BY <1>0, <1>10, <2>1 DEF ReversedBy, Done, At
  <2>5. \A q \in ReversedBy(t) : posted'[q] = posted[q] /\ req'[q] = req[q]
    BY <2>1, <2>4 DEF ReversedBy
  <2>6. Reversed(t)'
    BY <1>5, <1>6, <1>8, <2>4, <2>5 DEF SoundRecord, Reversed
  <2> QED BY <2>2, <2>3, <2>6 DEF SoundRecord
<1>13. SoundRecord(r)'
  <2>1. req'[r].target # r /\ req'[r].kind = "pay" /\ txn'[r] = txn[r] /\ received'[r] = received[r]
    BY <1>0, <1>2, <1>7, <1>8, CommitOf DEF IsPayment
  <2>2. RecordOf(r)' /\ BalanceOf(r)'
    BY <1>0, <1>1, <2>1 DEF SoundRecord, RecordOf, BalanceOf, OnRecord, IsSale, At, Done, IsPayment
  <2>3. Reversed(r)'
    BY <1>9, <2>1, NotYetReversed DEF Reversed
  <2> QED BY <2>2, <2>3 DEF SoundRecord
<1>14. CouponCounted'
  <2>1. r \notin WithCoupon'
    BY <1>0, <1>7, CommitOf DEF WithCoupon, Done, IsPayment
  <2> QED BY <1>7, <1>9, <2>1, CountStays
<1>15. used' \in Nat
  BY <1>1, <1>7
<1>16. \A u \in Request : SoundRecord(u)'
  BY <1>11, <1>12, <1>13
<1> QED BY <1>0, <1>7, <1>8, <1>9, <1>14, <1>15, <1>16, CommitAccount

\* The status of a record, when it is reversed.
LEMMA ReversedStatus ==
    ASSUME NEW t, txn[t] \in SaleTxn, txn[t].status = "COMPLETED", NEW status \in {"VOIDED", "REFUNDED"}
    PROVE  LET rec == [txn[t] EXCEPT !.status = status]
           IN  /\ rec \in SaleTxn /\ rec.status = status /\ rec.total = txn[t].total
               /\ rec.credit = txn[t].credit /\ rec.paid = txn[t].paid
               /\ rec.earned = txn[t].earned /\ rec.redeemed = txn[t].redeemed
BY DEF SaleTxn

LEMMA RefundRecordIs ==
    ASSUME NEW amount \in Int, NEW items \in BOOLEAN
    PROVE  /\ RefundRecord(amount, items) \in SaleTxn
           /\ RefundRecord(amount, items).status = "COMPLETED"
           /\ RefundRecord(amount, items).credit = "no"
<1>1. NoTxn \in SaleTxn /\ NoTxn.credit = "no" /\ -amount \in Int
  BY DEF NoTxn, SaleTxn
<1> QED BY <1>1 DEF RefundRecord, SaleTxn

\* What a reversal writes of its target and, if it is a refund, of itself.
Writes(r, t, own) ==
    /\ txn' \in [Request -> SaleTxn]
    /\ \A u \in Request \ {r, t} : txn'[u] = txn[u]
    /\ txn'[t].status \in {"VOIDED", "REFUNDED"} /\ txn'[t].total = txn[t].total
    /\ txn'[t].credit = txn[t].credit /\ txn'[t].paid = txn[t].paid
    /\ txn'[t].earned = txn[t].earned /\ txn'[t].redeemed = txn[t].redeemed
    /\ IF own THEN txn'[r].status = "COMPLETED" /\ txn'[r].credit = "no" ELSE txn'[r] = txn[r]

LEMMA WritesHold ==
    ASSUME txn \in [Request -> SaleTxn], NEW r \in Request, NEW t \in Request, t # r,
           txn[t].status = "COMPLETED", NEW own \in BOOLEAN, NEW amount \in Int, NEW items \in BOOLEAN,
           txn' = IF own THEN [txn EXCEPT ![t].status = "REFUNDED", ![r] = RefundRecord(amount, items)]
                         ELSE [txn EXCEPT ![t].status = "VOIDED"]
    PROVE  Writes(r, t, own)
<1>1. txn[t] \in SaleTxn
  OBVIOUS
<1> DEFINE status == IF own THEN "REFUNDED" ELSE "VOIDED"
           rec == [txn[t] EXCEPT !.status = status]
           new == RefundRecord(amount, items)
<1>2. status \in {"VOIDED", "REFUNDED"}
  OBVIOUS
<1> HIDE DEF status
<1>3. /\ rec \in SaleTxn /\ rec.status = status /\ rec.total = txn[t].total
      /\ rec.credit = txn[t].credit /\ rec.paid = txn[t].paid
      /\ rec.earned = txn[t].earned /\ rec.redeemed = txn[t].redeemed
  BY <1>1, <1>2, ReversedStatus
<1>4. new \in SaleTxn /\ new.status = "COMPLETED" /\ new.credit = "no"
  BY RefundRecordIs
<1>5. CASE own
  <2>1. txn' = [[txn EXCEPT ![t] = rec] EXCEPT ![r] = new]
    BY <1>5 DEF status
  <2> HIDE DEF rec, new
  <2> QED BY <1>2, <1>3, <1>4, <1>5, <2>1 DEF Writes
<1>6. CASE ~own
  <2>1. txn' = [txn EXCEPT ![t] = rec]
    BY <1>6 DEF status
  <2> HIDE DEF rec, new
  <2> QED BY <1>2, <1>3, <1>6, <2>1 DEF Writes
<1> QED BY <1>5, <1>6

LEMMA ReverseCommitAccount ==
    ASSUME AccountsInv, NEW r \in Request, ReverseCommit(r)
    PROVE  AccountsInv'
<1>0. req[r].pc = "commit" /\ Reverses(r) /\ Commit(r) /\ used' = used /\ received' = received
  BY DEF ReverseCommit, At, Reverses
<1>1. /\ req[r] \in ReqRecord /\ SoundRequest(r) /\ ~OnRecord(r) /\ txn \in [Request -> SaleTxn]
      /\ received \in [Request -> Nat] /\ used \in Nat /\ SoundRecord(r)
  BY <1>0, AccountTypes DEF AccountsInv, SoundRecord, RecordOf, At
<1>2. PICK t \in Request : t = req[r].target /\ t # r
  BY <1>0, <1>1, RowsOfAccounts DEF SoundRequest, Targeted
<1>3. lock[t] = r /\ txn[t].status = "COMPLETED"
  BY <1>0, <1>1, <1>2 DEF SoundRequest, ClaimHeld
<1>4. Writes(r, t, req[r].kind = "refund")
  <2>1. req[r].amount \in Int
    BY <1>1 DEF ReqRecord
  <2>2. CASE req[r].kind = "refund"
    <3>1. txn' = IF TRUE THEN [txn EXCEPT ![t].status = "REFUNDED", ![r] = RefundRecord(req[r].amount, TRUE)]
                         ELSE [txn EXCEPT ![t].status = "VOIDED"]
      BY <1>2, <2>2 DEF ReverseCommit
    <3>2. Writes(r, t, TRUE)
      BY <1>1, <1>2, <1>3, <2>1, <3>1, WritesHold
    <3> QED BY <2>2, <3>2 DEF Writes
  <2>3. CASE req[r].kind = "void"
    <3>1. txn' = IF FALSE THEN [txn EXCEPT ![t].status = "REFUNDED", ![r] = RefundRecord(req[r].amount, TRUE)]
                          ELSE [txn EXCEPT ![t].status = "VOIDED"]
      BY <1>2, <2>3 DEF ReverseCommit
    <3>2. Writes(r, t, FALSE)
      BY <1>1, <1>2, <1>3, <2>1, <3>1, WritesHold
    <3> QED BY <2>3, <3>2 DEF Writes
  <2> QED BY <1>0, <2>2, <2>3 DEF Reverses
<1>5. OneAccountStep(r)
  <2>1. RecordKept(t)
    BY <1>3, <1>4 DEF RecordKept, Writes
  <2>2. ~OwnedByOther(t, r)
    BY <1>3 DEF OwnedByOther
  <2> QED BY <1>0, <1>4, <2>1, <2>2, CommitOf DEF OneAccountStep, RecordKept, Writes
<1>6. /\ req'[r].kind = req[r].kind /\ req'[r].target = t /\ posted'[r] = req'[r].delta
      /\ \A u \in Request \ {r} : req'[u] = req[u] /\ posted'[u] = posted[u]
  BY <1>0, <1>2, CommitOf
<1>7. ASSUME NEW u \in Request \ {r, t} PROVE SoundRecord(u)'
  <2>1. r \notin ReversedBy(u)'
    BY <1>6, <1>7 DEF ReversedBy
  <2> QED BY <1>0, <1>4, <1>5, <1>7, <2>1, OtherRecord DEF Writes
<1>8. SoundRecord(t)'
  <2>1. SoundRecord(t) /\ RecordKept(t) /\ ReversedBy(t) = {}
    BY <1>2, <1>3, <1>5 DEF AccountsInv, SoundRecord, Reversed, OneAccountStep
  <2>2. RecordOf(t)'
    BY <1>0, <1>2, <1>6, <2>1 DEF SoundRecord, RecordOf, RecordKept, OnRecord, IsSale, At, Done
  <2>3. BalanceOf(t)'
    BY <1>0, <1>2, <1>4, <1>6, <2>1 DEF SoundRecord, BalanceOf, Done, At, Writes
  <2>4. ReversedBy(t)' \subseteq {r}
    BY <1>6, <2>1 DEF ReversedBy, Done, At
  <2>5. Reversed(t)'
    BY <1>4, <1>6, <2>4 DEF Reversed, Writes
  <2> QED BY <2>2, <2>3, <2>5 DEF SoundRecord
<1>9. SoundRecord(r)'
  <2>1. ~IsSale(r)' /\ ~Done(r, "credit")' /\ At(r, "done")'
    BY <1>0, <1>6, CommitOf DEF IsSale, Done, Reverses, At
  <2>2. txn[r].credit = "no" /\ received[r] = 0
    BY <1>1 DEF SoundRecord, RecordOf
  <2>3. RecordOf(r)'
    BY <1>0, <1>4, <2>1, <2>2 DEF RecordOf, OnRecord, Writes
  <2>4. BalanceOf(r)'
    BY <2>1 DEF BalanceOf
  <2>5. Reversed(r)'
    BY <1>2, <1>5, <1>6, NotYetReversed DEF Reversed
  <2> QED BY <2>3, <2>4, <2>5 DEF SoundRecord
<1>10. CouponCounted'
  <2>1. r \notin WithCoupon'
    BY <1>0, <1>6 DEF WithCoupon, Done, Reverses
  <2> QED BY <1>0, <1>5, <2>1, CountStays
<1>11. \A u \in Request : SoundRecord(u)'
  BY <1>7, <1>8, <1>9
<1>12. txn' \in [Request -> SaleTxn] /\ received' \in [Request -> Nat] /\ used' \in Nat
  BY <1>0, <1>1, <1>4 DEF Writes
<1> QED BY <1>0, <1>5, <1>10, <1>11, <1>12, CommitAccount

(***************************************************************************)
(* The two that are one step from arrival to commit.                       *)
(***************************************************************************)
LEMMA PaymentReverseAccount ==
    ASSUME AccountsInv, NEW r \in Request, PaymentReverse(r)
    PROVE  AccountsInv'
<1>1. PICK t \in Request, kind \in {"payVoid", "payRefund"}, amount \in Amounts :
         /\ txn[t].status = "COMPLETED"
         /\ lock[t] = Nobody
         /\ Arrive(r, kind, [Fresh EXCEPT !.target = t, !.pc = "done"])
         /\ txn' = IF kind = "payVoid"
                   THEN [txn EXCEPT ![t].status = "VOIDED"]
                   ELSE [txn EXCEPT ![t].status = "REFUNDED",
                                    ![r] = RefundRecord(amount, FALSE)]
         /\ UNCHANGED <<points, posted, used, received, lock>>
  BY DEF PaymentReverse
<1> DEFINE rec == [[Fresh EXCEPT !.target = t, !.pc = "done"] EXCEPT !.kind = kind]
<1>2. /\ rec \in ReqRecord /\ rec.kind = kind /\ rec.target = t /\ rec.pc = "done" /\ ~rec.coupon
  <2>1. "done" \in PCs /\ kind \in RouteKinds
    BY DEF PCs, RouteKinds
  <2>2. Fresh.coupon = FALSE
    BY DEF Fresh
  <2> QED BY <2>1, <2>2, FreshRecord DEF ReqRecord
<1>3. req[r].pc = "idle" /\ req' = [req EXCEPT ![r] = rec]
  BY <1>1 DEF Arrive, At
<1> HIDE DEF rec
<1>4. /\ req' \in [Request -> ReqRecord] /\ req'[r] = rec
      /\ \A u \in Request \ {r} : req'[u] = req[u]
  BY <1>2, <1>3, AccountTypes DEF AccountsInv
<1>5. ~OnRecord(r) /\ SoundRecord(r) /\ txn \in [Request -> SaleTxn] /\ t # r
  <2>1. ~OnRecord(r) /\ OnRecord(t)
    BY <1>1, <1>3 DEF AccountsInv, SoundRecord, RecordOf, At, OnRecord
  <2> QED BY <2>1, AccountTypes DEF AccountsInv
<1>6. Writes(r, t, kind = "payRefund")
  <2>1. amount \in Int
    BY AmountAssumption
  <2>2. CASE kind = "payRefund"
    <3>1. txn' = IF TRUE THEN [txn EXCEPT ![t].status = "REFUNDED", ![r] = RefundRecord(amount, FALSE)]
                         ELSE [txn EXCEPT ![t].status = "VOIDED"]
      BY <1>1, <2>2
    <3>2. Writes(r, t, TRUE)
      BY <1>1, <1>5, <2>1, <3>1, WritesHold
    <3> QED BY <2>2, <3>2 DEF Writes
  <2>3. CASE kind = "payVoid"
    <3>1. txn' = IF FALSE THEN [txn EXCEPT ![t].status = "REFUNDED", ![r] = RefundRecord(amount, FALSE)]
                          ELSE [txn EXCEPT ![t].status = "VOIDED"]
      BY <1>1, <2>3
    <3>2. Writes(r, t, FALSE)
      BY <1>1, <1>5, <2>1, <3>1, WritesHold
    <3> QED BY <2>3, <3>2 DEF Writes
  <2> QED BY <2>2, <2>3
<1>7. OneAccountStep(r)
  <2>1. RecordKept(t)
    BY <1>1, <1>6 DEF RecordKept, Writes
  <2>2. ~OwnedByOther(t, r)
    BY <1>1, RowsOfAccounts DEF OwnedByOther
  <2>3. \A u \in Request \ {r} : RecordKept(u) /\ (OwnedByOther(u, r) => txn'[u] = txn[u])
    <3> SUFFICES ASSUME NEW u \in Request \ {r}
                 PROVE  RecordKept(u) /\ (OwnedByOther(u, r) => txn'[u] = txn[u])
      OBVIOUS
    <3>1. CASE u = t
      BY <2>1, <2>2, <3>1
    <3>2. CASE u # t
      BY <1>6, <3>2 DEF RecordKept, Writes
    <3> QED BY <3>1, <3>2
  <2> QED BY <1>1, <1>3, <1>4, <2>3 DEF OneAccountStep
<1>8. \A u \in Request : ReversedBy(u)' = ReversedBy(u) /\ r \notin ReversedBy(u)
  BY <1>2, <1>3, <1>4 DEF ReversedBy, Done, At
<1>9. AccountsTypeOK'
  BY <1>1, <1>4, <1>6 DEF AccountsInv, AccountsTypeOK, ReqRecord, SaleTxn, Writes
<1>10. SoundRequest(r)'
  <2>1. OnRecord(t)'
    BY <1>6 DEF OnRecord, Writes
  <2> QED
    BY <1>2, <1>4, <2>1
       DEF SoundRequest, StepOfKind, Targeted, CouponHeld, BalanceHeld, ClaimHeld, SaleAsAsked,
           DeltaOfReversal, IsSale, Reverses, IsPayment
<1>11. ASSUME NEW u \in Request, u # r PROVE SoundRecord(u)'
  <2>1. /\ txn'[u].status = txn[u].status \/ txn'[u].status # "COMPLETED"
        /\ txn'[u].paid = txn[u].paid /\ txn'[u].credit = txn[u].credit
    BY <1>6, <1>11 DEF Writes
  <2> QED BY <1>1, <1>7, <1>8, <1>11, <2>1, OtherRecord
<1>12. SoundRecord(r)'
  <2>1. ~IsSale(r)' /\ ~Done(r, "credit")' /\ At(r, "done")'
    BY <1>2, <1>4 DEF IsSale, Done, At
  <2>2. txn[r].credit = "no" /\ received[r] = 0
    BY <1>5 DEF SoundRecord, RecordOf
  <2>3. RecordOf(r)'
    BY <1>1, <1>6, <2>1, <2>2 DEF RecordOf, OnRecord, Writes
  <2>4. BalanceOf(r)'
    BY <2>1 DEF BalanceOf
  <2>5. Reversed(r)'
    <3>1. req'[r].target # r
      BY <1>2, <1>4, <1>5
    <3> QED BY <1>7, <3>1, NotYetReversed DEF Reversed
  <2> QED BY <2>3, <2>4, <2>5 DEF SoundRecord
<1>13. CouponCounted'
  <2>1. r \notin WithCoupon'
    BY <1>2, <1>4 DEF WithCoupon, Done
  <2> QED BY <1>1, <1>7, <2>1, CountStays
<1>14. \A q \in Request : SoundRequest(q)'
  BY <1>7, <1>10, OthersSound
<1> QED BY <1>9, <1>11, <1>12, <1>13, <1>14 DEF AccountsInv

LEMMA AdjustAccount ==
    ASSUME AccountsInv, NEW r \in Request, Adjust(r)
    PROVE  AccountsInv'
<1>1. PICK n \in Adjustments :
         /\ Arrive(r, "adjust", [Fresh EXCEPT !.amount = n, !.seen = points, !.pc = "done"])
         /\ points' = AtLeastZero(points + n)
         /\ posted' = [posted EXCEPT ![r] = n]
         /\ UNCHANGED <<used, txn, received, lock>>
  BY DEF Adjust
<1>2. n \in Int /\ points \in Int /\ posted \in [Request -> Int]
  BY AmountAssumption, AccountTypes DEF AccountsInv
<1> DEFINE rec == [[Fresh EXCEPT !.amount = n, !.seen = points, !.pc = "done"] EXCEPT !.kind = "adjust"]
<1>3. /\ rec \in ReqRecord /\ rec.kind = "adjust" /\ rec.target = Nobody /\ rec.pc = "done" /\ ~rec.coupon
  <2>1. "done" \in PCs /\ "adjust" \in RouteKinds
    BY DEF PCs, RouteKinds
  <2>2. Fresh.coupon = FALSE /\ Fresh.target = Nobody
    BY DEF Fresh
  <2> QED BY <1>2, <2>1, <2>2, FreshRecord DEF ReqRecord
<1>4. req[r].pc = "idle" /\ req' = [req EXCEPT ![r] = rec]
  BY <1>1 DEF Arrive, At
<1> HIDE DEF rec
<1>5. /\ req' \in [Request -> ReqRecord] /\ req'[r] = rec
      /\ \A u \in Request \ {r} : req'[u] = req[u] /\ posted'[u] = posted[u]
      /\ posted' \in [Request -> Int]
  BY <1>1, <1>2, <1>3, <1>4, AccountTypes DEF AccountsInv
<1>6. points' \in Int
  BY <1>1, <1>2 DEF AtLeastZero
<1>7. AccountsTypeOK'
  BY <1>1, <1>5, <1>6 DEF AccountsInv, AccountsTypeOK, ReqRecord
<1>8. OneAccountStep(r)
  BY <1>1, <1>4, <1>5 DEF OneAccountStep, RecordKept
<1>9. \A u \in Request : r \notin ReversedBy(u)'
  BY <1>3, <1>5 DEF ReversedBy, Done
<1>10. SoundRequest(r)'
  BY <1>3, <1>5
     DEF SoundRequest, StepOfKind, Targeted, CouponHeld, BalanceHeld, ClaimHeld, SaleAsAsked,
         DeltaOfReversal, IsSale, Reverses, IsPayment
<1>11. ASSUME NEW u \in Request, u # r PROVE SoundRecord(u)'
  BY <1>1, <1>8, <1>9, <1>11, OtherRecord
<1>12. SoundRecord(r)'
  <2>1. ~OnRecord(r) /\ SoundRecord(r)
    BY <1>4 DEF AccountsInv, SoundRecord, RecordOf, At
  <2>2. RecordOf(r)' /\ BalanceOf(r)'
    BY <1>1, <1>3, <1>5, <2>1 DEF SoundRecord, RecordOf, BalanceOf, OnRecord, IsSale, Done
  <2>3. Reversed(r)'
    <3>1. req'[r].target # r
      BY <1>3, <1>5, RowsOfAccounts
    <3> QED BY <1>8, <3>1, NotYetReversed DEF Reversed
  <2> QED BY <2>2, <2>3 DEF SoundRecord
<1>13. CouponCounted'
  <2>1. r \notin WithCoupon'
    BY <1>3, <1>5 DEF WithCoupon
  <2> QED BY <1>1, <1>8, <2>1, CountStays
<1>14. \A q \in Request : SoundRequest(q)'
  BY <1>8, <1>10, OthersSound
<1> QED BY <1>7, <1>11, <1>12, <1>13, <1>14 DEF AccountsInv
-----------------------------------------------------------------------------
LEMMA AccountsInvStutter == AccountsInv /\ UNCHANGED accountVars => AccountsInv'
<1> SUFFICES ASSUME AccountsInv, UNCHANGED accountVars PROVE AccountsInv'
  OBVIOUS
<1>1. UNCHANGED <<points, posted, used, txn, received, lock, req>>
  BY DEF accountVars
<1>2. AccountsTypeOK'
  BY <1>1 DEF AccountsInv, AccountsTypeOK
<1>3. \A r \in Request : SoundRequest(r)'
  BY <1>1
     DEF AccountsInv, SoundRequest, StepOfKind, Targeted, CouponHeld, BalanceHeld, ClaimHeld,
         SaleAsAsked, DeltaOfReversal, InFull, IsSale, Reverses, IsPayment, OnRecord
<1>4. \A r \in Request : SoundRecord(r)'
  BY <1>1
     DEF AccountsInv, SoundRecord, RecordOf, BalanceOf, Reversed, ReversedBy, Done, At, IsSale,
         OnRecord
<1>5. CouponCounted'
  BY <1>1 DEF AccountsInv, CouponCounted, WithCoupon, Done, At
<1> QED BY <1>2, <1>3, <1>4, <1>5 DEF AccountsInv

LEMMA AccountsInvNext == AccountsInv /\ [AccountsNext]_accountVars => AccountsInv'
<1> SUFFICES ASSUME AccountsInv, [AccountsNext]_accountVars PROVE AccountsInv'
  OBVIOUS
<1>1. CASE UNCHANGED accountVars
  BY <1>1, AccountsInvStutter
<1>2. ASSUME NEW r \in Request, Arrival(r) PROVE AccountsInv'
  BY <1>2, SaleArriveAccount, PayArriveAccount, ReverseArriveAccount, PaymentReverseAccount,
     AdjustAccount DEF Arrival
<1>3. ASSUME NEW r \in Request, AccountsStep(r) PROVE AccountsInv'
  BY <1>3, TakePointsAccount, TakeCouponAccount, SaleCommitAccount, PayLockAccount,
     PayCommitAccount, ClaimAccount, ReverseCommitAccount DEF AccountsStep
<1>4. ASSUME NEW r \in Request, AccountsCrash(r) PROVE AccountsInv'
  BY <1>4, FailAccount DEF AccountsCrash
<1> QED BY <1>1, <1>2, <1>3, <1>4 DEF AccountsNext

\* What a request has read and will build on stays so until it writes: it owns
\* the row, or nobody rewrites the field.
THEOREM AccountsInvariantHolds == AccountsSpec => []AccountsInv
BY AccountsInvInit, AccountsInvNext, PTL DEF AccountsSpec

\* The coupon counts the sales that were made with it, and never more of them
\* than its limit: the limit is checked by the UPDATE that holds the row.
THEOREM CouponsAreCounted == AccountsSpec => []CouponCounts
<1>1. AccountsInv => CouponCounts
  BY DEF AccountsInv, CouponCounted, WithCoupon, CouponCounts
<1> QED BY <1>1, AccountsInvariantHolds, PTL

\* What a credit sale says was paid is what its payments add up to, however
\* many of them arrive at once.
THEOREM BalancesAreKept == AccountsSpec => []BalanceIsPayments
<1>1. AccountsInv => BalanceIsPayments
  BY DEF AccountsInv, SoundRecord, BalanceOf, BalanceIsPayments
<1> QED BY <1>1, AccountsInvariantHolds, PTL

\* A sale made with the program enabled and reversed in full by a sales route
\* gives back exactly the points it took or gave; one that nobody reversed
\* keeps them.
THEOREM PointsComeBack == AccountsSpec => []PointsReturned
<1>1. AccountsInv => PointsReturned
  <2> SUFFICES ASSUME AccountsInv, NEW t \in Request, IsSale(t), At(t, "done"), req[t].loyal
               PROVE  /\ Cardinality(ReversedBy(t)) <= 1
                      /\ txn[t].status = "COMPLETED" => {posted[q] : q \in ReversedBy(t)} = {}
                      /\ \A q \in ReversedBy(t) : InFull(q) => posted[q] = -posted[t]
    BY DEF PointsReturned, Done, IsSale
  <2>1. SoundRecord(t)
    BY DEF AccountsInv
  <2>2. Cardinality(ReversedBy(t)) <= 1
    <3>1. \A a, b \in ReversedBy(t) : a = b
      BY <2>1 DEF SoundRecord, Reversed
    <3>2. ReversedBy(t) = {} \/ \E a : ReversedBy(t) = {a}
      BY <3>1
    <3>3. Cardinality(ReversedBy(t)) \in {0, 1}
      BY <3>2, FS_EmptySet, FS_Singleton
    <3> QED BY <3>3
  <2>3. txn[t].status = "COMPLETED" => {posted[q] : q \in ReversedBy(t)} = {}
    BY <2>1 DEF SoundRecord, Reversed
  <2>4. ASSUME NEW q \in ReversedBy(t), InFull(q) PROVE posted[q] = -posted[t]
    <3>1. q \in Request /\ req[q].target = t /\ Reverses(q) /\ SoundRequest(q)
      BY <2>4 DEF ReversedBy, Done, Reverses, AccountsInv
    <3>2. posted[q] = txn[t].redeemed - txn[t].earned
      BY <2>1, <2>4, <3>1 DEF SoundRecord, Reversed, SoundRequest, DeltaOfReversal
    <3>3. posted[t] = Earned - req[t].redeem /\ txn[t].earned = Earned /\ txn[t].redeemed = req[t].redeem
      BY <2>1 DEF SoundRecord, RecordOf
    <3>4. Earned \in Int /\ req[t].redeem \in Int
      BY SaleAssumption, AccountTypes DEF AccountsInv, ReqRecord
    <3> QED BY <3>2, <3>3, <3>4
  <2> QED BY <2>2, <2>3, <2>4
<1> QED BY <1>1, AccountsInvariantHolds, PTL

(***************************************************************************)
(* The points and their history.  A request that is not done has posted    *)
(* nothing; what one commits changes both by the same amount, except for   *)
(* an adjustment that was floored, which stays on record.                  *)
(***************************************************************************)
HistoryInv ==
    /\ AccountsInv
    /\ \A r \in Request : ~At(r, "done") => posted[r] = 0
    /\ Floored \/ points = InitPoints + SumOver(posted, Request)

\* What a request adds to both.
Posts(r, d) ==
    posted' = [posted EXCEPT ![r] = d] /\ points' = points + d /\ req'[r].pc = "done"

PostsStep(r) ==
    /\ ~At(r, "done")
    /\ \A u \in Request \ {r} : req'[u] = req[u]
    /\ \/ UNCHANGED <<points, posted>>
       \/ \E d \in Int : Posts(r, d)
       \/ /\ \A u \in Request \ {r} : posted'[u] = posted[u]
          /\ Done(r, "adjust")' /\ req'[r].seen + req'[r].amount < 0

LEMMA HistoryIsSum == ASSUME AccountsTypeOK PROVE FoldFunction(+, 0, posted) = SumOver(posted, Request)
<1>1. DOMAIN posted = Request
  BY DEF AccountsTypeOK
<1> QED BY <1>1, FoldIsSum

LEMMA CommitPosts ==
    ASSUME AccountsInv, NEW r \in Request, At(r, "commit"), Commit(r)
    PROVE  PostsStep(r)
<1>1. /\ req \in [Request -> ReqRecord] /\ req[r].delta \in Int
  BY AccountTypes DEF AccountsInv, ReqRecord
<1>2. Posts(r, req[r].delta) /\ \A u \in Request \ {r} : req'[u] = req[u]
  <2>1. req' = [req EXCEPT ![r].pc = "done"]
    BY DEF Commit, Goto
  <2>2. req'[r].pc = "done" /\ \A u \in Request \ {r} : req'[u] = req[u]
    BY <1>1, <2>1 DEF ReqRecord
  <2> QED BY <2>2 DEF Commit, Posts
<1> QED BY <1>1, <1>2 DEF PostsStep, At

LEMMA AdjustPosts ==
    ASSUME AccountsInv, NEW r \in Request, Adjust(r)
    PROVE  PostsStep(r)
<1>1. PICK n \in Adjustments :
         /\ Arrive(r, "adjust", [Fresh EXCEPT !.amount = n, !.seen = points, !.pc = "done"])
         /\ points' = AtLeastZero(points + n) /\ posted' = [posted EXCEPT ![r] = n]
  BY DEF Adjust
<1> DEFINE rec == [[Fresh EXCEPT !.amount = n, !.seen = points, !.pc = "done"] EXCEPT !.kind = "adjust"]
<1>2. req \in [Request -> ReqRecord] /\ points \in Int /\ n \in Int /\ posted \in [Request -> Int]
  BY AccountTypes, AmountAssumption DEF AccountsInv
<1>3. rec.amount = n /\ rec.seen = points /\ rec.pc = "done" /\ rec.kind = "adjust"
  BY FreshRecord DEF ReqRecord
<1>4. At(r, "idle") /\ req' = [req EXCEPT ![r] = rec]
  BY <1>1 DEF Arrive
<1> HIDE DEF rec
<1>5. req'[r] = rec /\ \A u \in Request \ {r} : req'[u] = req[u]
  BY <1>2, <1>4
<1>6. CASE points + n < 0
  <2>1. Done(r, "adjust")' /\ req'[r].seen + req'[r].amount < 0
    BY <1>3, <1>5, <1>6 DEF Done, At
  <2>2. \A u \in Request \ {r} : posted'[u] = posted[u]
    BY <1>1, <1>2
  <2> QED BY <1>4, <1>5, <2>1, <2>2 DEF PostsStep, At
<1>7. CASE ~(points + n < 0)
  <2>1. Posts(r, n)
    BY <1>1, <1>3, <1>5, <1>7 DEF Posts, AtLeastZero
  <2> QED BY <1>2, <1>4, <1>5, <2>1 DEF PostsStep, At
<1> QED BY <1>6, <1>7

LEMMA OthersPostNothing ==
    ASSUME AccountsInv, NEW r \in Request, NEW rec,
           ~At(r, "done"), req' = [req EXCEPT ![r] = rec], UNCHANGED <<points, posted>>
    PROVE  PostsStep(r)
<1>1. req \in [Request -> ReqRecord]
  BY AccountTypes DEF AccountsInv
<1> QED BY <1>1 DEF PostsStep

LEMMA EveryStepPosts ==
    ASSUME AccountsInv, NEW r \in Request, Arrival(r) \/ AccountsStep(r) \/ AccountsCrash(r)
    PROVE  PostsStep(r)
<1>1. CASE Arrival(r)
  <2>1. CASE Adjust(r)
    BY <2>1, AdjustPosts
  <2>2. CASE ~Adjust(r)
    <3>1. At(r, "idle") /\ (\E rec : req' = [req EXCEPT ![r] = rec]) /\ UNCHANGED <<points, posted>>
      BY <1>1, <2>2 DEF Arrival, SaleArrive, CreditArrive, PayArrive, VoidArrive, RefundArrive,
                        PaymentReverse, Arrive
    <3> QED BY <3>1, OthersPostNothing DEF At
  <2> QED BY <2>1, <2>2
<1>2. CASE AccountsStep(r)
  <2>1. CASE SaleCommit(r) \/ PayCommit(r) \/ ReverseCommit(r)
    BY <2>1, CommitPosts DEF SaleCommit, PayCommit, ReverseCommit
  <2>2. CASE TakePoints(r) \/ TakeCoupon(r) \/ PayLock(r) \/ Claim(r)
    <3>1. ~At(r, "done") /\ (\E rec : req' = [req EXCEPT ![r] = rec]) /\ UNCHANGED <<points, posted>>
      BY <2>2 DEF TakePoints, TakeCoupon, PayLock, Claim, Goto, Fail, At
    <3> QED BY <3>1, OthersPostNothing
  <2> QED BY <1>2, <2>1, <2>2 DEF AccountsStep
<1>3. CASE AccountsCrash(r)
  <2>1. ~At(r, "done") /\ (\E rec : req' = [req EXCEPT ![r] = rec]) /\ UNCHANGED <<points, posted>>
    BY <1>3 DEF AccountsCrash, InFlight, Goto, Fail, At
  <2> QED BY <2>1, OthersPostNothing
<1> QED BY <1>1, <1>2, <1>3

LEMMA HistoryStep ==
    ASSUME HistoryInv, AccountsInv', NEW r \in Request, PostsStep(r)
    PROVE  HistoryInv'
<1>1. posted \in [Request -> Int] /\ posted' \in [Request -> Int] /\ points \in Int /\ InitPoints \in Int
  BY AccountTypes, SaleAssumption DEF HistoryInv, AccountsInv, AccountsTypeOK
<1>2. \A u \in Request \ {r} : At(u, "done")' = At(u, "done") /\ Done(u, "adjust")' = Done(u, "adjust")
  BY DEF PostsStep, At, Done
<1>3. Floored => Floored'
  BY <1>2 DEF Floored, PostsStep, Done
<1>4. CASE UNCHANGED <<points, posted>>
  BY <1>2, <1>3, <1>4 DEF HistoryInv, PostsStep
<1>5. ASSUME NEW d \in Int, Posts(r, d) PROVE HistoryInv'
  <2>1. posted[r] = 0 /\ posted'[r] = d /\ \A u \in Request \ {r} : posted'[u] = posted[u]
    BY <1>1, <1>5 DEF HistoryInv, PostsStep, Posts
  <2>2. SumOver(posted', Request) = SumOver(posted, Request) - 0 + d
    BY <1>1, <2>1, RequestAssumption, SumChanges
  <2>3. SumOver(posted, Request) \in Int
    BY <1>1, RequestAssumption, SumTakesOne
  <2>4. \A u \in Request : ~At(u, "done")' => posted'[u] = 0
    BY <1>2, <1>5, <2>1 DEF HistoryInv, Posts, At
  <2>5. Floored' \/ points' = InitPoints + SumOver(posted', Request)
    BY <1>1, <1>3, <1>5, <2>2, <2>3 DEF HistoryInv, Posts
  <2> QED BY <2>4, <2>5 DEF HistoryInv
<1>6. ASSUME \A u \in Request \ {r} : posted'[u] = posted[u],
             Done(r, "adjust")', req'[r].seen + req'[r].amount < 0
      PROVE  HistoryInv'
  <2>1. Floored'
    BY <1>6 DEF Floored
  <2>2. \A u \in Request : ~At(u, "done")' => posted'[u] = 0
    BY <1>2, <1>6 DEF HistoryInv, Done
  <2> QED BY <2>1, <2>2 DEF HistoryInv
<1> QED BY <1>4, <1>5, <1>6 DEF PostsStep

\* The points of a customer are those he began with and what the history says
\* of every request, unless an adjustment was floored at zero.
THEOREM PointsAreTheirHistory == AccountsSpec => []PointsAreHistory
<1>1. AccountsInit => HistoryInv
  <2> SUFFICES ASSUME AccountsInit PROVE HistoryInv
    OBVIOUS
  <2>1. AccountsInv /\ posted = [r \in Request |-> 0] /\ points = InitPoints
    BY AccountsInvInit DEF AccountsInit
  <2>2. SumOver(posted, Request) = 0
    BY <2>1, RequestAssumption, SumOfZeros
  <2>3. InitPoints \in Int
    BY SaleAssumption
  <2> QED BY <2>1, <2>2, <2>3 DEF HistoryInv
<1>2. HistoryInv /\ [AccountsNext]_accountVars => HistoryInv'
  <2> SUFFICES ASSUME HistoryInv, [AccountsNext]_accountVars PROVE HistoryInv'
    OBVIOUS
  <2>1. AccountsInv /\ AccountsInv'
    BY AccountsInvNext DEF HistoryInv
  <2>2. CASE UNCHANGED accountVars
    BY <2>1, <2>2 DEF HistoryInv, accountVars, Floored, Done, At
  <2>3. ASSUME NEW r \in Request, Arrival(r) \/ AccountsStep(r) \/ AccountsCrash(r)
        PROVE  HistoryInv'
    BY <2>1, <2>3, EveryStepPosts, HistoryStep
  <2> QED BY <2>2, <2>3 DEF AccountsNext
<1>3. HistoryInv => PointsAreHistory
  BY HistoryIsSum DEF HistoryInv, AccountsInv, PointsAreHistory
<1> QED BY <1>1, <1>2, <1>3, PTL DEF AccountsSpec

=============================================================================
