----------------------------- MODULE PrintJobs ------------------------------
(***************************************************************************)
(* Print jobs: the routes that queue and retry them, and the worker that   *)
(* sends their bytes to a network printer.  A job is a row of print_jobs;  *)
(* the messages that announce it travel as MessageDelivery says.  Here a   *)
(* message is delivered to one worker, to a second one when its receipt    *)
(* has gone stale, comes back when the handler throws, at most Retries     *)
(* times, and is dropped when the worker dies with it: its receipt is      *)
(* found in processing on redelivery.                                      *)
(*                                                                         *)
(* The routes run statement by statement on a reserved connection, outside *)
(* any transaction; the worker's claim and its answer are transactions.    *)
(***************************************************************************)
EXTENDS Integers, FiniteSets, Bags, Functions

CONSTANTS
    Job,          \* print jobs that may be created
    Request,      \* requests to the print routes
    Worker,       \* message handlers
    NoJob,        \* the job of an idle worker or request
    Keys,         \* client idempotency keys, each naming its job
    Retries,      \* how often a message comes back
    MaxAttempts,  \* print_jobs.max_attempts
    Routes,       \* the routes offered: "print", "retry"
    Faults,       \* what may go wrong, of FaultKinds
    MaxFaults     \* bound on faults

FaultKinds == {"unsent",      \* the printer cannot be reached
               "unsure",      \* it printed, and the connection failed
               "worker",      \* the worker's process dies
               "enqueue",     \* the outbox insert fails, or its process dies
               "printer",     \* the printer is deactivated or activated
               "database",    \* the worker's answer cannot be written
               "duplicate"}   \* a message is delivered twice

ASSUME JobAssumption    == NoJob \notin Job /\ Keys \subseteq Job
ASSUME BoundAssumption  == /\ Retries \in Nat /\ MaxAttempts \in Nat \ {0}
                           /\ MaxFaults \in Nat
ASSUME FaultAssumption  == Faults \subseteq FaultKinds
ASSUME RouteAssumption  == Routes \subseteq {"print", "retry"}

Statuses == {"none", "QUEUED", "PROCESSING", "PRINTED", "FAILED"}

VARIABLES
    job,      \* print_jobs: status and attempts
    mail,     \* messages on their way: job and how often they came back
    buried,   \* jobs one of whose messages is in the dead letter queue
    worker,   \* the handlers
    req,      \* the requests
    active,   \* the configured printer is active
    paper,    \* how often each job has come out of the printer
    faults    \* per kind, the faults so far

vars == <<job, mail, buried, worker, req, active, paper, faults>>

Idle    == [pc |-> "idle", job |-> NoJob, try |-> 0]
Waiting == [pc |-> "idle", job |-> NoJob, seen |-> "none", attempts |-> 0]

TypeOK ==
    /\ job \in [Job -> [status : Statuses, attempts : Nat]]
    /\ IsABag(mail) /\ \A m \in BagToSet(mail) : m \in [job : Job, try : 0 .. Retries]
    /\ buried \subseteq Job
    /\ worker \in [Worker -> [pc : {"idle", "read", "claim", "send", "printed", "failed"},
                              job : Job \cup {NoJob}, try : 0 .. Retries]]
    /\ req \in [Request -> [pc : {"idle", "again", "enqueue", "done"},
                            job : Job \cup {NoJob}, seen : Statuses, attempts : Nat]]
    /\ active \in BOOLEAN
    /\ paper \in [Job -> Nat]
    /\ faults \in [FaultKinds -> 0 .. MaxFaults]

Init ==
    /\ job = [j \in Job |-> [status |-> "none", attempts |-> 0]]
    /\ mail = EmptyBag
    /\ buried = {}
    /\ worker = [w \in Worker |-> Idle]
    /\ req = [r \in Request |-> Waiting]
    /\ active = TRUE
    /\ paper = [j \in Job |-> 0]
    /\ faults = [kind \in FaultKinds |-> 0]

Fault(kind) ==
    /\ kind \in Faults
    /\ FoldFunction(+, 0, faults) < MaxFaults
    /\ faults' = [faults EXCEPT ![kind] = @ + 1]

SetStatus(j, status) == job' = [job EXCEPT ![j].status = status]

-----------------------------------------------------------------------------
(***************************************************************************)
(* POST /printers/:id/print-receipt and print-labels: the job is inserted  *)
(* unless its idempotency key exists, and the message in a statement of    *)
(* its own.                                                                *)
(***************************************************************************)
\* Mutant: the idempotency key is not unique.
QueueAgain(r, j) ==
    /\ job' = [job EXCEPT ![j] = [status |-> "QUEUED", attempts |-> 0]]
    /\ req' = [req EXCEPT ![r] = [@ EXCEPT !.pc = "enqueue", !.job = j]]

queueDirectPrintJob(r, j) ==
    IF job[j].status = "none"
    THEN /\ job' = [job EXCEPT ![j] = [status |-> "QUEUED", attempts |-> 0]]
         /\ req' = [req EXCEPT ![r] = [@ EXCEPT !.pc = "enqueue", !.job = j]]
    ELSE /\ req' = [req EXCEPT ![r] = [@ EXCEPT !.pc = "done", !.job = j]]
         /\ UNCHANGED job

PrintRequest(r) ==
    /\ req[r].pc = "idle" /\ "print" \in Routes
    /\ active
    /\ \E j \in Keys : queueDirectPrintJob(r, j)
    /\ UNCHANGED <<mail, buried, worker, active, paper, faults>>

\* A failed insert is answered 502 and leaves the job as it is.
Enqueue(r) ==
    /\ req[r].pc = "enqueue"
    /\ req' = [req EXCEPT ![r].pc = "done"]
    /\ \/ /\ mail' = mail (+) SetToBag({[job |-> req[r].job, try |-> 0]})
          /\ UNCHANGED faults
       \/ Fault("enqueue") /\ UNCHANGED mail
    /\ UNCHANGED <<job, buried, worker, active, paper>>

(***************************************************************************)
(* POST /print-jobs/:id/retry: the status is read, and written without     *)
(* being looked at again.                                                  *)
(***************************************************************************)
Retry(r) ==
    \E j \in Job :
        /\ req[r].pc = "idle" /\ "retry" \in Routes
        /\ job[j].status \notin {"none", "PROCESSING"}
        /\ req' = [req EXCEPT ![r] = [pc |-> "again", job |-> j,
                                      seen |-> job[j].status,
                                      attempts |-> job[j].attempts]]
        /\ UNCHANGED <<job, mail, buried, worker, active, paper, faults>>

Requeue(r) ==
    \/ /\ req[r].seen = "PRINTED"                 \* a reprint is a new job
       /\ \E j \in Job \ Keys :
             /\ job[j].status = "none"
             /\ job' = [job EXCEPT ![j] = [status |-> "QUEUED", attempts |-> 0]]
             /\ req' = [req EXCEPT ![r].pc = "enqueue", ![r].job = j]
    \/ /\ req[r].seen # "PRINTED"
       /\ job' = [job EXCEPT ![req[r].job] =
                     [status   |-> "QUEUED",
                      attempts |-> IF req[r].attempts >= MaxAttempts
                                   THEN 0 ELSE req[r].attempts]]
       /\ req' = [req EXCEPT ![r].pc = "enqueue"]

RetryWrite(r) ==
    /\ req[r].pc = "again"
    /\ Requeue(r)
    /\ UNCHANGED <<mail, buried, worker, active, paper, faults>>

-----------------------------------------------------------------------------
(***************************************************************************)
(* processPrintJob.                                                        *)
(***************************************************************************)
Goto(w, pc) == worker' = [worker EXCEPT ![w].pc = pc]
Return(w)   == worker' = [worker EXCEPT ![w] = Idle]

\* The handler throws: the message comes back or is buried.
Throw(w) ==
    /\ Return(w)
    /\ IF worker[w].try < Retries
       THEN /\ mail' = mail (+) SetToBag({[job |-> worker[w].job,
                                           try |-> worker[w].try + 1]})
            /\ UNCHANGED buried
       ELSE /\ buried' = buried \cup {worker[w].job}
            /\ UNCHANGED mail

Deliver(w) ==
    \E m \in BagToSet(mail) :
        /\ worker[w].pc = "idle"
        /\ \/ mail' = mail (-) SetToBag({m}) /\ UNCHANGED faults
           \/ Fault("duplicate") /\ UNCHANGED mail
        /\ worker' = [worker EXCEPT ![w] = [pc |-> "read", job |-> m.job,
                                            try |-> m.try]]
        /\ UNCHANGED <<job, buried, req, active, paper>>

\* Too many attempts and an unusable printer throw inside the transaction: the
\* FAILED that was written is rolled back.
ReadJob(w) ==
    LET row == job[worker[w].job] IN
    /\ worker[w].pc = "read"
    /\ \/ /\ row.status \in {"PRINTED", "PROCESSING"}
          /\ Return(w)
          /\ UNCHANGED <<mail, buried>>
       \/ /\ row.status \in {"QUEUED", "FAILED"}
          /\ row.attempts >= MaxAttempts \/ ~active
          /\ Throw(w)
       \/ /\ row.status \in {"QUEUED", "FAILED"}
          /\ row.attempts < MaxAttempts /\ active
          /\ Goto(w, "claim")
          /\ UNCHANGED <<mail, buried>>
    /\ UNCHANGED <<job, req, active, paper, faults>>

Claimable(j) == job[j].status \in {"QUEUED", "FAILED"}

ClaimJob(w) ==
    LET j == worker[w].job IN
    /\ worker[w].pc = "claim"
    /\ IF Claimable(j)
       THEN /\ job' = [job EXCEPT ![j] = [status |-> "PROCESSING", attempts |-> @.attempts + 1]]
            /\ Goto(w, "send")
       ELSE Return(w) /\ UNCHANGED job
    /\ UNCHANGED <<mail, buried, req, active, paper, faults>>

sendRawPrinterPayload(w) ==
    /\ worker[w].pc = "send"
    /\ \/ /\ paper' = [paper EXCEPT ![worker[w].job] = @ + 1]
          /\ \/ Goto(w, "printed") /\ UNCHANGED faults
             \/ Goto(w, "failed") /\ Fault("unsure")
       \/ /\ Fault("unsent")
          /\ Goto(w, "failed")
          /\ UNCHANGED paper
    /\ UNCHANGED <<job, mail, buried, req, active>>

MarkPrinted(w) ==
    /\ worker[w].pc = "printed"
    /\ \/ SetStatus(worker[w].job, "PRINTED") /\ Return(w) /\ UNCHANGED faults
       \/ Fault("database") /\ Goto(w, "failed") /\ UNCHANGED job
    /\ UNCHANGED <<mail, buried, req, active, paper>>

\* Mutant: the failure is recorded and the message is not sent back.
FailQuietly(w) ==
    /\ worker[w].pc = "failed"
    /\ SetStatus(worker[w].job, "QUEUED")
    /\ Return(w)
    /\ UNCHANGED <<mail, buried, req, active, paper, faults>>

MarkFailed(w) ==
    /\ worker[w].pc = "failed"
    /\ Throw(w)
    /\ \/ SetStatus(worker[w].job, "FAILED") /\ UNCHANGED faults
       \/ Fault("database") /\ UNCHANGED job
    /\ UNCHANGED <<req, active, paper>>

CrashWorker(w) ==
    /\ worker[w].pc # "idle"
    /\ Fault("worker")
    /\ Return(w)
    /\ UNCHANGED <<job, mail, buried, req, active, paper>>

TogglePrinter ==
    /\ Fault("printer")
    /\ active' = ~active
    /\ UNCHANGED <<job, mail, buried, worker, req, paper>>

Work(w) ==
    \/ Deliver(w) \/ ReadJob(w) \/ ClaimJob(w) \/ sendRawPrinterPayload(w)
    \/ MarkPrinted(w) \/ MarkFailed(w)

Next ==
    \/ \E r \in Request : PrintRequest(r) \/ Enqueue(r) \/ Retry(r) \/ RetryWrite(r)
    \/ \E w \in Worker : Work(w) \/ CrashWorker(w)
    \/ TogglePrinter

Spec == Init /\ [][Next]_vars

\* A request that has begun ends and workers keep working.
Fairness ==
    /\ \A r \in Request : WF_vars(Enqueue(r) \/ RetryWrite(r))
    /\ \A w \in Worker : WF_vars(Work(w))

FairSpec == Spec /\ Fairness
-----------------------------------------------------------------------------
Never(kinds) == \A kind \in kinds : faults[kind] = 0

\* A retry has put the job back in the queue.
Requeued(j) == \E r \in Request : req[r].job = j /\ req[r].seen \in {"QUEUED", "FAILED"}

(***************************************************************************)
(* A receipt asked for again - a refreshed page, a second click, a message *)
(* that came back - comes out of the printer once, unless a manager        *)
(* retries it or the printer or the database fails after the paper is out. *)
(***************************************************************************)
PrintedOnce ==
    \A j \in Job :
        ~Requeued(j) => paper[j] <= 1 + faults["unsure"] + faults["database"]

\* The job has a message on its way, in a worker's hands or being enqueued.
Carried(j) ==
    \/ \E m \in BagToSet(mail) : m.job = j
    \/ \E w \in Worker : worker[w].job = j
    \/ \E r \in Request : req[r].job = j /\ req[r].pc = "enqueue"

(***************************************************************************)
(* A job that is QUEUED is not forgotten: while enqueueing succeeds and no *)
(* worker dies, it has a message that will reach a worker, or its last     *)
(* message is in the dead letter queue.                                    *)
(***************************************************************************)
QueuedHasMessage ==
    Never({"enqueue", "worker"}) =>
        \A j \in Job : job[j].status = "QUEUED" => Carried(j) \/ j \in buried

(***************************************************************************)
(* When the last message of a job is buried, the history says FAILED.      *)
(***************************************************************************)
BuriedIsFailed ==
    \A j \in Job : job[j].status = "QUEUED" /\ j \in buried => Carried(j)

(***************************************************************************)
(* A job that a worker has begun ends as PRINTED or FAILED, while no       *)
(* worker dies and its answer can be written.                              *)
(***************************************************************************)
ProcessingEnds ==
    \A j \in Job :
        job[j].status = "PROCESSING" ~>
            \/ job[j].status \in {"PRINTED", "FAILED"}
            \/ ~Never({"worker", "database"})
=============================================================================
