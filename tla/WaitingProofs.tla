---------------------------- MODULE WaitingProofs -----------------------------
(***************************************************************************)
(* Proofs about what waits to be taken: print jobs and their workers, for  *)
(* any number of jobs, requests, workers and faults, and the connections   *)
(* of requests, for any number of either.                                  *)
(***************************************************************************)
EXTENDS PrintJobs, ConnectionPool, DataLemmas

(***************************************************************************)
(* Print jobs.  At most one worker is at the printer with a job that no    *)
(* retry put back, and the paper out is counted against the faults that    *)
(* leave it unsure.                                                        *)
(***************************************************************************)
Unsure == faults["unsure"] + faults["database"]

AtPrinter(w, j) == worker[w].job = j /\ worker[w].pc \in {"send", "printed", "failed"}

PrintedAsCounted(j) ==
    /\ paper[j] <= 1 + Unsure
    /\ job[j].status \notin {"PROCESSING", "PRINTED"} => paper[j] <= Unsure
    /\ \A w \in Worker : AtPrinter(w, j) =>
          /\ job[j].status = "PROCESSING"
          /\ worker[w].pc # "printed" => paper[j] <= Unsure
          /\ \A v \in Worker : AtPrinter(v, j) => v = w

\* Who is idle has no job, and who retries has seen a job that may be retried.
WorkersAreInStep == \A w \in Worker : worker[w].pc = "idle" <=> worker[w].job = NoJob

RequestsAreInStep ==
    \A r \in Request :
        /\ req[r].pc = "idle" => req[r].seen = "none"
        /\ req[r].pc = "again" => req[r].seen \in {"QUEUED", "FAILED", "PRINTED"}
        /\ req[r].pc \in {"again", "enqueue"} => req[r].job \in Job

JobRow    == [status : Statuses, attempts : Nat]
WorkerRow == [pc : {"idle", "read", "claim", "send", "printed", "failed"},
              job : Job \cup {NoJob}, try : 0 .. Retries]
AskRow    == [pc : {"idle", "again", "enqueue", "done"}, job : Job \cup {NoJob},
              seen : Statuses, attempts : Nat]
Message   == [job : Job, try : 0 .. Retries]

\* The types, but for the bound on the faults, which is a sum.
PrintTypes ==
    /\ job \in [Job -> JobRow]
    /\ IsABag(mail) /\ BagToSet(mail) \subseteq Message
    /\ buried \subseteq Job
    /\ worker \in [Worker -> WorkerRow]
    /\ req \in [Request -> AskRow]
    /\ active \in BOOLEAN
    /\ paper \in [Job -> Nat]
    /\ faults \in [FaultKinds -> Nat]

PrintInv ==
    /\ PrintTypes
    /\ WorkersAreInStep
    /\ RequestsAreInStep
    /\ \A j \in Job : Requeued(j) \/ PrintedAsCounted(j)
    /\ QueuedHasMessage
-----------------------------------------------------------------------------
(***************************************************************************)
(* What steps leave alone.                                                 *)
(***************************************************************************)
LEMMA FaultFacts ==
    ASSUME PrintTypes, NEW kind, Fault(kind)
    PROVE  /\ kind \in FaultKinds /\ faults' \in [FaultKinds -> Nat] /\ faults'[kind] = faults[kind] + 1
           /\ \A k \in FaultKinds \ {kind} : faults'[k] = faults[k]
<1>1. kind \in FaultKinds /\ faults' = [faults EXCEPT ![kind] = @ + 1]
  BY FaultAssumption DEF Fault
<1>2. faults \in [FaultKinds -> Nat]
  BY DEF PrintTypes
<1> QED BY <1>1, <1>2

LEMMA RequeuedStays ==
    ASSUME NEW j \in Job, Requeued(j),
           \A r \in Request : req[r].seen \in {"QUEUED", "FAILED"} =>
              req'[r].seen = req[r].seen /\ req'[r].job = req[r].job
    PROVE  Requeued(j)'
BY DEF Requeued

\* A step that neither touches the row and the paper of j nor sends a worker
\* to the printer with it.
LEMMA CountStays ==
    ASSUME NEW j \in Job, PrintTypes, PrintTypes', PrintedAsCounted(j), Unsure <= Unsure',
           job'[j] = job[j], paper'[j] = paper[j],
           \A w \in Worker : worker'[w] = worker[w] \/ ~AtPrinter(w, j)'
    PROVE  PrintedAsCounted(j)'
<1>1. Unsure \in Nat /\ Unsure' \in Nat /\ paper[j] \in Nat
  BY DEF PrintTypes, Unsure, FaultKinds
<1> DEFINE U == Unsure
           V == Unsure'
<1>2. U \in Nat /\ V \in Nat /\ U <= V
  BY <1>1
<1>3. \A w \in Worker : AtPrinter(w, j)' => AtPrinter(w, j) /\ worker'[w] = worker[w]
  BY DEF AtPrinter
<1>4. /\ paper[j] <= 1 + U
      /\ job[j].status \notin {"PROCESSING", "PRINTED"} => paper[j] <= U
      /\ \A w \in Worker : AtPrinter(w, j) =>
            /\ job[j].status = "PROCESSING"
            /\ worker[w].pc # "printed" => paper[j] <= U
            /\ \A v \in Worker : AtPrinter(v, j) => v = w
  BY DEF PrintedAsCounted
<1> SUFFICES /\ paper'[j] <= 1 + V
             /\ job'[j].status \notin {"PROCESSING", "PRINTED"} => paper'[j] <= V
             /\ \A w \in Worker : AtPrinter(w, j)' =>
                   /\ job'[j].status = "PROCESSING"
                   /\ worker'[w].pc # "printed" => paper'[j] <= V
                   /\ \A v \in Worker : AtPrinter(v, j)' => v = w
  BY DEF PrintedAsCounted
<1> HIDE DEF U, V
<1> QED BY <1>1, <1>2, <1>3, <1>4

\* What carries a job goes on doing so, or something else does.
LEMMA QueuedStays ==
    ASSUME QueuedHasMessage, Never({"enqueue", "worker"})' => Never({"enqueue", "worker"}),
           \A j \in Job : job'[j].status = "QUEUED" => job[j].status = "QUEUED" \/ Carried(j)',
           buried \subseteq buried',
           Never({"enqueue", "worker"})' =>
              \A j \in Job : job'[j].status = "QUEUED" /\ Carried(j) => Carried(j)' \/ j \in buried'
    PROVE  QueuedHasMessage'
<1> SUFFICES ASSUME Never({"enqueue", "worker"})', NEW j \in Job, job'[j].status = "QUEUED"
             PROVE  Carried(j)' \/ j \in buried'
  BY DEF QueuedHasMessage
<1> QED BY DEF QueuedHasMessage
-----------------------------------------------------------------------------
LEMMA PrintInvInit == Init => PrintInv
<1> SUFFICES ASSUME Init PROVE PrintInv
  OBVIOUS
<1>1. /\ Idle \in WorkerRow /\ Waiting \in AskRow
      /\ [status |-> "none", attempts |-> 0] \in JobRow
  BY BoundAssumption DEF Idle, Waiting, WorkerRow, AskRow, JobRow, Statuses
<1>2. IsABag(mail) /\ BagToSet(mail) = {}
  <2>1. mail = [e \in {} |-> 1]
    BY DEF Init, EmptyBag, SetToBag
  <2> QED BY <2>1 DEF IsABag, BagToSet
<1>3. PrintTypes
  BY <1>1, <1>2 DEF Init, PrintTypes
<1>4. WorkersAreInStep /\ RequestsAreInStep
  BY DEF Init, Idle, Waiting, WorkersAreInStep, RequestsAreInStep
<1>5. ASSUME NEW j \in Job PROVE PrintedAsCounted(j)
  BY JobAssumption DEF Init, Idle, PrintedAsCounted, AtPrinter, Unsure, FaultKinds
<1>6. QueuedHasMessage
  BY DEF Init, QueuedHasMessage
<1> QED BY <1>3, <1>4, <1>5, <1>6 DEF PrintInv

\* A step of a request that inserts or resets a row, or not, and of no worker.
Asks(r, row) ==
    /\ req' = [req EXCEPT ![r] = row]
    /\ row.pc # "idle" /\ (row.pc = "again" => row.seen \in {"QUEUED", "FAILED", "PRINTED"})
    /\ row.pc \in {"again", "enqueue"} => row.job \in Job
    /\ req[r].seen \in {"QUEUED", "FAILED"} => row.seen = req[r].seen /\ row.job = req[r].job
    /\ job' \in [Job -> JobRow]
    /\ \A j \in Job : \/ job'[j] = job[j]
                      \/ row.seen \in {"QUEUED", "FAILED"} /\ row.job = j
                      \/ job[j].status = "none" /\ job'[j].status = "QUEUED"
    /\ \A j \in Job : job'[j].status = "QUEUED" =>
          job[j].status = "QUEUED" \/ (row.pc = "enqueue" /\ row.job = j)
    /\ req[r].pc # "enqueue"
    /\ UNCHANGED <<mail, buried, worker, active, paper, faults>>

LEMMA AskStep ==
    ASSUME PrintInv, NEW r \in Request, NEW row \in AskRow, Asks(r, row)
    PROVE  PrintInv'
<1> USE DEF Asks
<1>1. /\ req \in [Request -> AskRow] /\ req' \in [Request -> AskRow] /\ req'[r] = row
      /\ \A q \in Request \ {r} : req'[q] = req[q]
  BY DEF PrintInv, PrintTypes
<1>2. PrintTypes'
  BY <1>1 DEF PrintInv, PrintTypes
<1>3. WorkersAreInStep' /\ RequestsAreInStep'
  BY <1>1 DEF PrintInv, WorkersAreInStep, RequestsAreInStep
<1>4. ASSUME NEW j \in Job PROVE Requeued(j)' \/ PrintedAsCounted(j)'
  <2>1. CASE Requeued(j)
    BY <1>1, <2>1, RequeuedStays
  <2>2. CASE row.seen \in {"QUEUED", "FAILED"} /\ row.job = j
    BY <1>1, <2>2 DEF Requeued
  <2>3. Unsure' = Unsure
    BY DEF Unsure
  <2>4. Unsure \in Nat
    BY DEF Unsure, FaultKinds, PrintInv, PrintTypes
  <2>5. CASE PrintedAsCounted(j) /\ job'[j] = job[j]
    BY <1>2, <2>3, <2>4, <2>5, CountStays DEF PrintInv
  <2>6. CASE PrintedAsCounted(j) /\ job[j].status = "none" /\ job'[j].status = "QUEUED"
    BY <2>3, <2>6 DEF PrintedAsCounted, AtPrinter
  <2> QED BY <2>1, <2>2, <2>5, <2>6 DEF PrintInv
<1>5. QueuedHasMessage'
  <2>1. \A j \in Job : Carried(j) => Carried(j)'
    BY <1>1 DEF Carried
  <2>2. \A j \in Job : job'[j].status = "QUEUED" => job[j].status = "QUEUED" \/ Carried(j)'
    BY <1>1 DEF Carried
  <2>3. Never({"enqueue", "worker"})' => Never({"enqueue", "worker"})
    BY DEF Never
  <2> QED BY <2>1, <2>2, <2>3, QueuedStays DEF PrintInv
<1> QED BY <1>2, <1>3, <1>4, <1>5 DEF PrintInv

LEMMA PrintRequestStep ==
    ASSUME PrintInv, NEW r \in Request, PrintRequest(r)
    PROVE  PrintInv'
<1>1. PICK j \in Keys : queueDirectPrintJob(r, j)
  BY DEF PrintRequest
<1>2. /\ req[r].pc = "idle" /\ req[r].seen = "none" /\ UNCHANGED <<mail, buried, worker, active, paper, faults>>
      /\ req[r] \in AskRow /\ job \in [Job -> JobRow] /\ j \in Job
  BY JobAssumption DEF PrintRequest, PrintInv, RequestsAreInStep, PrintTypes
<1>3. ASSUME NEW pc \in {"enqueue", "done"}
      PROVE  LET row == [req[r] EXCEPT !.pc = pc, !.job = j]
             IN  row \in AskRow /\ row.pc = pc /\ row.job = j /\ row.seen = "none"
  <2> DEFINE f == [req[r] EXCEPT !.pc = pc]
  <2>1. f \in AskRow /\ f.pc = pc /\ f.seen = "none"
    BY <1>2 DEF AskRow
  <2>2. [req[r] EXCEPT !.pc = pc, !.job = j] = [f EXCEPT !.job = j]
    OBVIOUS
  <2> HIDE DEF f
  <2>3. [f EXCEPT !.job = j] \in AskRow
    BY <1>2, <2>1 DEF AskRow
  <2>4. [f EXCEPT !.job = j].pc = pc /\ [f EXCEPT !.job = j].job = j /\ [f EXCEPT !.job = j].seen = "none"
    BY <1>2, <2>1 DEF AskRow
  <2> QED BY <2>2, <2>3, <2>4
<1>4. CASE job[j].status = "none"
  <2> DEFINE row == [req[r] EXCEPT !.pc = "enqueue", !.job = j]
  <2>1. row \in AskRow /\ row.pc = "enqueue" /\ row.job = j /\ row.seen = "none"
    BY <1>3
  <2>2. req' = [req EXCEPT ![r] = row] /\ job' = [job EXCEPT ![j] = [status |-> "QUEUED", attempts |-> 0]]
    BY <1>1, <1>4 DEF queueDirectPrintJob
  <2> HIDE DEF row
  <2>3. [status |-> "QUEUED", attempts |-> 0] \in JobRow
    BY DEF JobRow, Statuses
  <2>4. /\ job' \in [Job -> JobRow] /\ job'[j].status = "QUEUED" /\ \A k \in Job \ {j} : job'[k] = job[k]
    BY <1>2, <2>2, <2>3
  <2>5. Asks(r, row)
    BY <1>2, <1>4, <2>1, <2>2, <2>4 DEF Asks
  <2> QED BY <2>1, <2>5, AskStep
<1>5. CASE job[j].status # "none"
  <2> DEFINE row == [req[r] EXCEPT !.pc = "done", !.job = j]
  <2>1. row \in AskRow /\ row.pc = "done" /\ row.job = j /\ row.seen = "none"
    BY <1>3
  <2>2. req' = [req EXCEPT ![r] = row] /\ job' = job
    BY <1>1, <1>5 DEF queueDirectPrintJob
  <2> HIDE DEF row
  <2>3. Asks(r, row)
    BY <1>2, <2>1, <2>2 DEF Asks
  <2> QED BY <2>1, <2>3, AskStep
<1> QED BY <1>4, <1>5

LEMMA RetryStep ==
    ASSUME PrintInv, NEW r \in Request, Retry(r)
    PROVE  PrintInv'
<1>1. PICK j \in Job :
        /\ req[r].pc = "idle" /\ job[j].status \notin {"none", "PROCESSING"}
        /\ req' = [req EXCEPT ![r] = [pc |-> "again", job |-> j, seen |-> job[j].status,
                                      attempts |-> job[j].attempts]]
        /\ UNCHANGED <<job, mail, buried, worker, active, paper, faults>>
  BY DEF Retry
<1>2. req[r].seen = "none" /\ job \in [Job -> JobRow] /\ job[j] \in JobRow
  BY <1>1 DEF PrintInv, RequestsAreInStep, PrintTypes
<1> DEFINE row == [pc |-> "again", job |-> j, seen |-> job[j].status, attempts |-> job[j].attempts]
<1>3. /\ row \in AskRow /\ row.pc = "again" /\ row.job = j
      /\ row.seen \in {"QUEUED", "FAILED", "PRINTED"}
  BY <1>1, <1>2 DEF AskRow, JobRow, Statuses
<1>4. req' = [req EXCEPT ![r] = row]
  BY <1>1
<1> HIDE DEF row
<1>5. Asks(r, row)
  BY <1>1, <1>2, <1>3, <1>4 DEF Asks
<1> QED BY <1>3, <1>5, AskStep

LEMMA RetryWriteStep ==
    ASSUME PrintInv, NEW r \in Request, RetryWrite(r)
    PROVE  PrintInv'
<1>1. /\ req[r].pc = "again" /\ Requeue(r) /\ UNCHANGED <<mail, buried, worker, active, paper, faults>>
      /\ req[r].seen \in {"QUEUED", "FAILED", "PRINTED"} /\ req[r].job \in Job
      /\ req[r] \in AskRow /\ req \in [Request -> AskRow] /\ job \in [Job -> JobRow]
  BY DEF RetryWrite, PrintInv, RequestsAreInStep, PrintTypes
<1> DEFINE f == [req[r] EXCEPT !.pc = "enqueue"]
<1>2. f \in AskRow /\ f.pc = "enqueue" /\ f.job = req[r].job /\ f.seen = req[r].seen
  BY <1>1 DEF AskRow
<1>3. CASE req[r].seen = "PRINTED"
  <2>1. PICK j \in Job \ Keys :
          /\ job[j].status = "none"
          /\ job' = [job EXCEPT ![j] = [status |-> "QUEUED", attempts |-> 0]]
          /\ req' = [req EXCEPT ![r].pc = "enqueue", ![r].job = j]
    BY <1>1, <1>3 DEF Requeue
  <2> DEFINE row == [f EXCEPT !.job = j]
  <2>2. req' = [req EXCEPT ![r] = row]
    <3> DEFINE g == [req EXCEPT ![r].pc = "enqueue"]
    <3>1. req' = [g EXCEPT ![r].job = j]
      BY <2>1
    <3>2. g \in [Request -> AskRow] /\ g[r] = f /\ \A q \in Request \ {r} : g[q] = req[q]
      BY <1>1, <1>2
    <3> HIDE DEF g, f
    <3> QED BY <1>1, <3>1, <3>2
  <2> HIDE DEF f
  <2>3. row \in AskRow /\ row.pc = "enqueue" /\ row.job = j /\ row.seen = "PRINTED"
    BY <1>2, <1>3 DEF AskRow
  <2> HIDE DEF row
  <2>4. [status |-> "QUEUED", attempts |-> 0] \in JobRow
    BY DEF JobRow, Statuses
  <2>5. /\ job' \in [Job -> JobRow] /\ job'[j].status = "QUEUED" /\ \A k \in Job \ {j} : job'[k] = job[k]
    BY <1>1, <2>1, <2>4
  <2>6. Asks(r, row)
    BY <1>1, <1>3, <2>1, <2>2, <2>3, <2>5 DEF Asks
  <2> QED BY <2>3, <2>6, AskStep
<1>4. CASE req[r].seen # "PRINTED"
  <2>1. PICK j \in Job : j = req[r].job
    BY <1>1
  <2>2. PICK n \in Nat : n = IF req[r].attempts >= MaxAttempts THEN 0 ELSE req[r].attempts
    BY <1>1 DEF AskRow
  <2>3. /\ job' = [job EXCEPT ![j] = [status |-> "QUEUED", attempts |-> n]]
        /\ req' = [req EXCEPT ![r] = f]
    BY <1>1, <1>4, <2>1, <2>2 DEF Requeue
  <2>4. [status |-> "QUEUED", attempts |-> n] \in JobRow
    BY DEF JobRow, Statuses
  <2>5. /\ job' \in [Job -> JobRow] /\ \A k \in Job \ {j} : job'[k] = job[k]
    BY <1>1, <2>3, <2>4
  <2> HIDE DEF f
  <2>6. Asks(r, f)
    BY <1>1, <1>2, <1>4, <2>1, <2>3, <2>5 DEF Asks
  <2> QED BY <1>2, <2>6, AskStep
<1> QED BY <1>3, <1>4

LEMMA EnqueueStep ==
    ASSUME PrintInv, NEW r \in Request, Enqueue(r)
    PROVE  PrintInv'
<1>1. /\ req[r].pc = "enqueue" /\ req' = [req EXCEPT ![r].pc = "done"]
      /\ UNCHANGED <<job, buried, worker, active, paper>>
      /\ req \in [Request -> AskRow] /\ req[r].job \in Job
      /\ IsABag(mail) /\ BagToSet(mail) \subseteq Message
  BY DEF Enqueue, PrintInv, PrintTypes, RequestsAreInStep
<1>2. /\ req' \in [Request -> AskRow] /\ req'[r].pc = "done" /\ req'[r].job = req[r].job
      /\ req'[r].seen = req[r].seen /\ \A q \in Request \ {r} : req'[q] = req[q]
  BY <1>1 DEF AskRow
<1>3. /\ IsABag(mail') /\ BagToSet(mail) \subseteq BagToSet(mail') /\ BagToSet(mail') \subseteq Message
      /\ faults' \in [FaultKinds -> Nat] /\ \A k \in FaultKinds : faults[k] <= faults'[k]
      /\ Unsure' = Unsure
      /\ faults'["enqueue"] = 0 => \E m \in BagToSet(mail') : m.job = req[r].job
  <2>1. CASE mail' = mail (+) SetToBag({[job |-> req[r].job, try |-> 0]}) /\ UNCHANGED faults
    <3> DEFINE m == [job |-> req[r].job, try |-> 0]
    <3>1. m \in Message /\ m.job = req[r].job
      BY <1>1, BoundAssumption DEF Message
    <3>2. IsABag(mail') /\ BagToSet(mail') = BagToSet(mail) \cup {m}
      BY <1>1, <2>1, BagWithOne
    <3> HIDE DEF m
    <3>3. faults \in [FaultKinds -> Nat] /\ Unsure' = Unsure
      BY <2>1 DEF PrintInv, PrintTypes, Unsure
    <3> QED BY <1>1, <2>1, <3>1, <3>2, <3>3, SMTT(30)
  <2>2. CASE Fault("enqueue") /\ UNCHANGED mail
    <3>1. /\ faults' \in [FaultKinds -> Nat] /\ faults'["enqueue"] = faults["enqueue"] + 1
          /\ \A k \in FaultKinds \ {"enqueue"} : faults'[k] = faults[k]
      BY <2>2, FaultFacts DEF PrintInv
    <3> QED BY <1>1, <2>2, <3>1 DEF PrintInv, PrintTypes, Unsure, FaultKinds
  <2> QED BY <2>1, <2>2 DEF Enqueue
<1>4. PrintTypes'
  BY <1>1, <1>2, <1>3 DEF PrintInv, PrintTypes
<1>5. WorkersAreInStep' /\ RequestsAreInStep'
  BY <1>1, <1>2 DEF PrintInv, WorkersAreInStep, RequestsAreInStep
<1>6. ASSUME NEW j \in Job PROVE Requeued(j)' \/ PrintedAsCounted(j)'
  <2>1. CASE Requeued(j)
    BY <1>2, <2>1, RequeuedStays
  <2>2. CASE PrintedAsCounted(j)
    <3>1. Unsure \in Nat
      BY DEF Unsure, FaultKinds, PrintInv, PrintTypes
    <3> QED BY <1>1, <1>3, <1>4, <2>2, <3>1, CountStays DEF PrintInv
  <2> QED BY <2>1, <2>2 DEF PrintInv
<1>7. QueuedHasMessage'
  <2>1. Never({"enqueue", "worker"})' => Never({"enqueue", "worker"}) /\ faults'["enqueue"] = 0
    BY <1>3 DEF Never, FaultKinds, PrintInv, PrintTypes
  <2>2. ASSUME NEW j \in Job, Carried(j), faults'["enqueue"] = 0 PROVE Carried(j)'
    BY <1>1, <1>2, <1>3, <2>2 DEF Carried
  <2> QED BY <1>1, <2>1, <2>2, QueuedStays DEF PrintInv
<1> QED BY <1>4, <1>5, <1>6, <1>7 DEF PrintInv
-----------------------------------------------------------------------------
\* A step of a worker.
Works(w, row) ==
    /\ worker' = [worker EXCEPT ![w] = row]
    /\ row.pc = "idle" <=> row.job = NoJob
    /\ req' = req /\ PrintTypes' /\ \A k \in FaultKinds : faults[k] <= faults'[k]
    /\ \A j \in Job :
          \/ PrintedAsCounted(j) => PrintedAsCounted(j)'
          \/ /\ job'[j] = job[j] /\ paper'[j] = paper[j]
             /\ ~(row.job = j /\ row.pc \in {"send", "printed", "failed"})
    /\ buried \subseteq buried'
    /\ \A j \in Job : job'[j].status = "QUEUED" => job[j].status = "QUEUED"
    /\ \A m \in BagToSet(mail) : m \in BagToSet(mail') \/ m.job = row.job
    /\ worker[w].job \in Job =>
          \/ job'[worker[w].job].status # "QUEUED"
          \/ ~Never({"enqueue", "worker"})'
          \/ row.job = worker[w].job \/ worker[w].job \in buried'
          \/ \E m \in BagToSet(mail') : m.job = worker[w].job

LEMMA WorkerStep ==
    ASSUME PrintInv, NEW w \in Worker, NEW row \in WorkerRow, Works(w, row)
    PROVE  PrintInv'
<1> USE DEF Works
<1>1. worker \in [Worker -> WorkerRow] /\ worker'[w] = row /\ \A v \in Worker \ {w} : worker'[v] = worker[v]
  BY DEF PrintInv, PrintTypes
<1>2. WorkersAreInStep' /\ RequestsAreInStep'
  BY <1>1 DEF PrintInv, WorkersAreInStep, RequestsAreInStep
<1>3. ASSUME NEW j \in Job PROVE Requeued(j)' \/ PrintedAsCounted(j)'
  <2>1. Requeued(j) => Requeued(j)'
    BY DEF Requeued
  <2>2. Unsure <= Unsure'
    BY DEF Unsure, FaultKinds, PrintInv, PrintTypes
  <2>3. CASE /\ job'[j] = job[j] /\ paper'[j] = paper[j]
             /\ ~(row.job = j /\ row.pc \in {"send", "printed", "failed"})
    <3>1. \A v \in Worker : worker'[v] = worker[v] \/ ~AtPrinter(v, j)'
      BY <1>1, <2>3 DEF AtPrinter
    <3> QED BY <2>1, <2>2, <2>3, <3>1, CountStays DEF PrintInv
  <2> QED BY <2>1, <2>3 DEF PrintInv
<1>4. QueuedHasMessage'
  <2>1. Never({"enqueue", "worker"})' => Never({"enqueue", "worker"})
    BY DEF Never, FaultKinds, PrintInv, PrintTypes
  <2>2. ASSUME NEW j \in Job, Carried(j), job'[j].status = "QUEUED", Never({"enqueue", "worker"})'
        PROVE  Carried(j)' \/ j \in buried'
    <3>1. CASE \E m \in BagToSet(mail) : m.job = j
      BY <1>1, <3>1 DEF Carried
    <3>2. CASE worker[w].job = j
      BY <1>1, <2>2, <3>2 DEF Carried
    <3>3. CASE \E v \in Worker \ {w} : worker[v].job = j
      BY <1>1, <3>3 DEF Carried
    <3>4. CASE \E r \in Request : req[r].job = j /\ req[r].pc = "enqueue"
      BY <3>4 DEF Carried
    <3> QED BY <2>2, <3>1, <3>2, <3>3, <3>4 DEF Carried
  <2> QED BY <2>1, <2>2, QueuedStays DEF PrintInv
<1> QED BY <1>2, <1>3, <1>4 DEF PrintInv

\* Who throws has sent the message back or buried the job.
LEMMA ThrowFacts ==
    ASSUME PrintInv, NEW w \in Worker, worker[w].pc # "idle", Throw(w)
    PROVE  /\ worker' = [worker EXCEPT ![w] = Idle]
           /\ IsABag(mail') /\ BagToSet(mail) \subseteq BagToSet(mail') /\ BagToSet(mail') \subseteq Message
           /\ buried \subseteq buried' /\ buried' \subseteq Job
           /\ worker[w].job \in buried' \/ \E m \in BagToSet(mail') : m.job = worker[w].job
<1>1. /\ worker[w] \in WorkerRow /\ worker[w].job \in Job /\ worker[w].try \in 0 .. Retries
      /\ IsABag(mail) /\ BagToSet(mail) \subseteq Message /\ buried \subseteq Job
  BY DEF PrintInv, PrintTypes, WorkersAreInStep, WorkerRow
<1>2. worker' = [worker EXCEPT ![w] = Idle]
  BY DEF Throw, Return
<1>3. CASE worker[w].try < Retries
  <2> DEFINE m == [job |-> worker[w].job, try |-> worker[w].try + 1]
  <2>1. mail' = mail (+) SetToBag({m}) /\ buried' = buried
    BY <1>3 DEF Throw
  <2>2. m \in Message /\ m.job = worker[w].job
    BY <1>1, <1>3, BoundAssumption DEF Message
  <2> HIDE DEF m
  <2>3. IsABag(mail') /\ BagToSet(mail') = BagToSet(mail) \cup {m}
    BY <1>1, <2>1, BagWithOne
  <2> QED BY <1>1, <1>2, <2>1, <2>2, <2>3
<1>4. CASE ~(worker[w].try < Retries)
  BY <1>1, <1>2, <1>4 DEF Throw
<1> QED BY <1>3, <1>4

\* A worker at the printer with a job is alone with it.
LEMMA CountStep ==
    ASSUME NEW w \in Worker, NEW row, NEW j \in Job, worker \in [Worker -> WorkerRow],
           worker' = [worker EXCEPT ![w] = row],
           \A v \in Worker \ {w} : ~AtPrinter(v, j),
           paper'[j] <= 1 + Unsure',
           job'[j].status \notin {"PROCESSING", "PRINTED"} => paper'[j] <= Unsure',
           row.job = j /\ row.pc \in {"send", "printed", "failed"} =>
              job'[j].status = "PROCESSING" /\ (row.pc # "printed" => paper'[j] <= Unsure')
    PROVE  PrintedAsCounted(j)'
<1>1. worker'[w] = row /\ \A v \in Worker \ {w} : worker'[v] = worker[v]
  OBVIOUS
<1>2. \A v \in Worker : AtPrinter(v, j)' => v = w
  BY <1>1 DEF AtPrinter
<1>3. AtPrinter(w, j)' => row.job = j /\ row.pc \in {"send", "printed", "failed"}
  BY <1>1 DEF AtPrinter
<1> QED BY <1>1, <1>2, <1>3 DEF PrintedAsCounted

LEMMA DeliverStep ==
    ASSUME PrintInv, NEW w \in Worker, Deliver(w)
    PROVE  PrintInv'
<1>1. PICK m \in BagToSet(mail) :
        /\ worker[w].pc = "idle"
        /\ \/ mail' = mail (-) SetToBag({m}) /\ UNCHANGED faults
           \/ Fault("duplicate") /\ UNCHANGED mail
        /\ worker' = [worker EXCEPT ![w] = [pc |-> "read", job |-> m.job, try |-> m.try]]
        /\ UNCHANGED <<job, buried, req, active, paper>>
  BY DEF Deliver
<1> DEFINE row == [pc |-> "read", job |-> m.job, try |-> m.try]
<1>2. /\ m \in Message /\ worker[w].job = NoJob /\ IsABag(mail) /\ BagToSet(mail) \subseteq Message
      /\ worker \in [Worker -> WorkerRow] /\ faults \in [FaultKinds -> Nat]
  BY <1>1 DEF PrintInv, PrintTypes, WorkersAreInStep
<1>3. row \in WorkerRow /\ row.pc = "read" /\ row.job = m.job /\ m.job \in Job
  BY <1>2 DEF WorkerRow, Message
<1>4. worker' = [worker EXCEPT ![w] = row]
  BY <1>1
<1> HIDE DEF row
<1>5. /\ IsABag(mail') /\ BagToSet(mail') \subseteq Message
      /\ BagToSet(mail) \ {m} \subseteq BagToSet(mail')
      /\ faults' \in [FaultKinds -> Nat] /\ \A k \in FaultKinds : faults[k] <= faults'[k]
  <2>1. CASE mail' = mail (-) SetToBag({m}) /\ UNCHANGED faults
    BY <1>2, <2>1, BagWithoutOne
  <2>2. CASE Fault("duplicate") /\ UNCHANGED mail
    <3>1. /\ faults' \in [FaultKinds -> Nat] /\ faults'["duplicate"] = faults["duplicate"] + 1
          /\ "duplicate" \in FaultKinds /\ \A k \in FaultKinds \ {"duplicate"} : faults'[k] = faults[k]
      BY <2>2, FaultFacts DEF PrintInv
    <3> QED BY <1>2, <2>2, <3>1
  <2> QED BY <1>1, <2>1, <2>2
<1>6. PrintTypes'
  <2>1. worker' \in [Worker -> WorkerRow]
    BY <1>2, <1>3, <1>4
  <2> QED BY <1>1, <1>5, <2>1 DEF PrintInv, PrintTypes
<1>7. Works(w, row)
  BY <1>1, <1>2, <1>3, <1>4, <1>5, <1>6, JobAssumption DEF Works
<1> QED BY <1>3, <1>7, WorkerStep

\* A step of a worker that leaves the rows, the paper and the faults alone.
LEMMA HandlerStep ==
    ASSUME PrintInv, NEW w \in Worker, NEW row \in WorkerRow, worker' = [worker EXCEPT ![w] = row],
           row.pc = "idle" <=> row.job = NoJob, row.pc \notin {"send", "printed", "failed"},
           UNCHANGED <<job, req, active, paper, faults>>,
           IsABag(mail'), BagToSet(mail) \subseteq BagToSet(mail'), BagToSet(mail') \subseteq Message,
           buried \subseteq buried', buried' \subseteq Job,
           worker[w].job \in Job =>
              \/ job[worker[w].job].status # "QUEUED"
              \/ row.job = worker[w].job \/ worker[w].job \in buried'
              \/ \E m \in BagToSet(mail') : m.job = worker[w].job
    PROVE  PrintInv'
<1>1. worker' \in [Worker -> WorkerRow]
  BY DEF PrintInv, PrintTypes
<1>2. PrintTypes'
  BY <1>1 DEF PrintInv, PrintTypes
<1>3. \A k \in FaultKinds : faults[k] <= faults'[k]
  BY DEF PrintInv, PrintTypes
<1>4. Works(w, row)
  BY <1>2, <1>3 DEF Works
<1> QED BY <1>4, WorkerStep

LEMMA ReadJobStep ==
    ASSUME PrintInv, NEW w \in Worker, ReadJob(w)
    PROVE  PrintInv'
<1>1. /\ worker[w].pc = "read" /\ UNCHANGED <<job, req, active, paper, faults>>
      /\ worker[w] \in WorkerRow /\ worker[w].job \in Job /\ worker \in [Worker -> WorkerRow]
      /\ IsABag(mail) /\ BagToSet(mail) \subseteq Message /\ buried \subseteq Job
  BY DEF ReadJob, PrintInv, PrintTypes, WorkersAreInStep, WorkerRow
<1>2. Idle \in WorkerRow /\ Idle.pc = "idle" /\ Idle.job = NoJob
  BY BoundAssumption DEF Idle, WorkerRow
<1>3. CASE /\ job[worker[w].job].status \in {"PRINTED", "PROCESSING"}
           /\ Return(w) /\ UNCHANGED <<mail, buried>>
  <2>1. worker' = [worker EXCEPT ![w] = Idle]
    BY <1>3 DEF Return
  <2> QED BY <1>1, <1>2, <1>3, <2>1, HandlerStep
<1>4. CASE Throw(w)
  BY <1>1, <1>2, <1>4, ThrowFacts, HandlerStep
<1>5. CASE Goto(w, "claim") /\ UNCHANGED <<mail, buried>>
  <2> DEFINE row == [worker[w] EXCEPT !.pc = "claim"]
  <2>1. worker' = [worker EXCEPT ![w] = row]
    BY <1>5 DEF Goto
  <2>2. row \in WorkerRow /\ row.pc = "claim" /\ row.job = worker[w].job
    BY <1>1 DEF WorkerRow
  <2> HIDE DEF row
  <2> QED BY <1>1, <1>5, <2>1, <2>2, JobAssumption, HandlerStep
<1> QED BY <1>3, <1>4, <1>5 DEF ReadJob

LEMMA ClaimJobStep ==
    ASSUME PrintInv, NEW w \in Worker, ClaimJob(w)
    PROVE  PrintInv'
<1>1. PICK j \in Job : j = worker[w].job
  BY DEF ClaimJob, PrintInv, PrintTypes, WorkersAreInStep, WorkerRow
<1>2. /\ worker[w].pc = "claim" /\ UNCHANGED <<mail, buried, req, active, paper, faults>>
      /\ worker[w] \in WorkerRow /\ worker \in [Worker -> WorkerRow]
      /\ IsABag(mail) /\ BagToSet(mail) \subseteq Message /\ buried \subseteq Job
      /\ job \in [Job -> JobRow] /\ faults \in [FaultKinds -> Nat]
      /\ \A k \in FaultKinds : faults[k] <= faults'[k]
  BY DEF ClaimJob, PrintInv, PrintTypes
<1>3. CASE job[j].status \notin {"QUEUED", "FAILED"}
  <2>1. worker' = [worker EXCEPT ![w] = Idle] /\ job' = job
    BY <1>1, <1>3 DEF ClaimJob, Claimable, Return
  <2>2. Idle \in WorkerRow /\ Idle.pc = "idle" /\ Idle.job = NoJob
    BY BoundAssumption DEF Idle, WorkerRow
  <2> QED BY <1>1, <1>2, <1>3, <2>1, <2>2, HandlerStep
<1>4. CASE job[j].status \in {"QUEUED", "FAILED"}
  <2> DEFINE row == [worker[w] EXCEPT !.pc = "send"]
             new == [status |-> "PROCESSING", attempts |-> job[j].attempts + 1]
  <2>1. worker' = [worker EXCEPT ![w] = row] /\ job' = [job EXCEPT ![j] = new]
    BY <1>1, <1>4 DEF ClaimJob, Claimable, Goto
  <2>2. row \in WorkerRow /\ row.pc = "send" /\ row.job = j
    BY <1>1, <1>2 DEF WorkerRow
  <2>3. new \in JobRow /\ new.status = "PROCESSING"
    BY <1>2 DEF JobRow, Statuses
  <2> HIDE DEF row, new
  <2>4. /\ job' \in [Job -> JobRow] /\ job'[j].status = "PROCESSING"
        /\ \A k \in Job \ {j} : job'[k] = job[k]
    BY <1>2, <2>1, <2>3
  <2>5. worker' \in [Worker -> WorkerRow]
    BY <1>2, <2>1, <2>2
  <2>6. PrintTypes'
    BY <1>2, <2>4, <2>5 DEF PrintInv, PrintTypes
  <2>7. PrintedAsCounted(j) => PrintedAsCounted(j)'
    <3> SUFFICES ASSUME PrintedAsCounted(j) PROVE PrintedAsCounted(j)'
      OBVIOUS
    <3>1. Unsure' = Unsure /\ Unsure \in Nat /\ paper[j] \in Nat /\ paper'[j] = paper[j]
      BY <1>2 DEF Unsure, FaultKinds, PrintInv, PrintTypes
    <3>2. (\A v \in Worker \ {w} : ~AtPrinter(v, j)) /\ paper[j] <= Unsure
      BY <1>4 DEF PrintedAsCounted
    <3>3. paper'[j] <= Unsure' /\ paper'[j] <= 1 + Unsure'
      BY <3>1, <3>2
    <3> QED BY <1>2, <2>1, <2>4, <3>2, <3>3, CountStep
  <2>8. Works(w, row)
    BY <1>1, <1>2, <2>1, <2>2, <2>4, <2>6, <2>7, JobAssumption DEF Works
  <2> QED BY <2>2, <2>8, WorkerStep
<1> QED BY <1>3, <1>4

\* A step of the worker that has claimed j, when the count of j comes out.
LEMMA PrinterStep ==
    ASSUME PrintInv, NEW w \in Worker, NEW row \in WorkerRow, NEW j \in Job,
           worker[w].job = j, worker' = [worker EXCEPT ![w] = row],
           row.pc = "idle" <=> row.job = NoJob, row.job \in {j, NoJob},
           UNCHANGED <<req, active>>,
           job' \in [Job -> JobRow], paper' \in [Job -> Nat], faults' \in [FaultKinds -> Nat],
           \A k \in Job \ {j} : job'[k] = job[k] /\ paper'[k] = paper[k],
           \A k \in FaultKinds : faults[k] <= faults'[k],
           IsABag(mail'), BagToSet(mail) \subseteq BagToSet(mail'), BagToSet(mail') \subseteq Message,
           buried \subseteq buried', buried' \subseteq Job,
           job'[j].status # "QUEUED" \/ row.job = j \/ j \in buried' \/ \E m \in BagToSet(mail') : m.job = j,
           job'[j].status = "QUEUED" => job[j].status = "QUEUED",
           PrintedAsCounted(j) => PrintedAsCounted(j)'
    PROVE  PrintInv'
<1>1. worker' \in [Worker -> WorkerRow]
  BY DEF PrintInv, PrintTypes
<1>2. PrintTypes'
  BY <1>1 DEF PrintInv, PrintTypes
<1>3. ASSUME NEW k \in Job
      PROVE  \/ PrintedAsCounted(k) => PrintedAsCounted(k)'
             \/ /\ job'[k] = job[k] /\ paper'[k] = paper[k]
                /\ ~(row.job = k /\ row.pc \in {"send", "printed", "failed"})
  BY JobAssumption
<1>4. Works(w, row)
  BY <1>2, <1>3, JobAssumption DEF Works
<1> QED BY <1>4, WorkerStep

LEMMA AtPrinterFacts ==
    ASSUME PrintInv, NEW w \in Worker, worker[w].pc \in {"send", "printed", "failed"}
    PROVE  \E j \in Job :
             /\ j = worker[w].job /\ worker[w] \in WorkerRow
             /\ \A pc \in {"printed", "failed"} :
                  LET row == [worker[w] EXCEPT !.pc = pc]
                  IN  row \in WorkerRow /\ row.pc = pc /\ row.job = j
             /\ PrintedAsCounted(j) =>
                  /\ job[j].status = "PROCESSING" /\ \A v \in Worker \ {w} : ~AtPrinter(v, j)
                  /\ paper[j] <= 1 + Unsure /\ (worker[w].pc # "printed" => paper[j] <= Unsure)
<1>1. PICK j \in Job : j = worker[w].job
  BY DEF PrintInv, PrintTypes, WorkersAreInStep, WorkerRow
<1>2. worker[w] \in WorkerRow
  BY DEF PrintInv, PrintTypes
<1>3. ASSUME NEW pc \in {"printed", "failed"}
      PROVE  LET row == [worker[w] EXCEPT !.pc = pc]
             IN  row \in WorkerRow /\ row.pc = pc /\ row.job = j
  BY <1>1, <1>2 DEF WorkerRow
<1>4. AtPrinter(w, j)
  BY <1>1 DEF AtPrinter
<1>5. PrintedAsCounted(j) =>
         /\ job[j].status = "PROCESSING" /\ \A v \in Worker \ {w} : ~AtPrinter(v, j)
         /\ paper[j] <= 1 + Unsure /\ (worker[w].pc # "printed" => paper[j] <= Unsure)
  BY <1>4 DEF PrintedAsCounted
<1> QED BY <1>1, <1>2, <1>3, <1>5

\* The faults count what they leave unsure.
LEMMA UnsureFacts ==
    ASSUME PrintTypes, NEW kind, Fault(kind) \/ UNCHANGED faults
    PROVE  /\ faults' \in [FaultKinds -> Nat] /\ \A k \in FaultKinds : faults[k] <= faults'[k]
           /\ Unsure \in Nat /\ Unsure' \in Nat /\ Unsure <= Unsure'
           /\ Fault(kind) /\ kind \in {"unsure", "database"} => Unsure' = Unsure + 1
<1>1. CASE Fault(kind)
  <2>1. /\ kind \in FaultKinds /\ faults' \in [FaultKinds -> Nat] /\ faults'[kind] = faults[kind] + 1
        /\ \A k \in FaultKinds \ {kind} : faults'[k] = faults[k]
    BY <1>1, FaultFacts
  <2> QED BY <2>1 DEF PrintTypes, Unsure, FaultKinds
<1>2. CASE UNCHANGED faults /\ ~Fault(kind)
  BY <1>2 DEF PrintTypes, Unsure, FaultKinds
<1> QED BY <1>1, <1>2

LEMMA SendStep ==
    ASSUME PrintInv, NEW w \in Worker, sendRawPrinterPayload(w)
    PROVE  PrintInv'
<1>1. /\ worker[w].pc = "send" /\ UNCHANGED <<job, mail, buried, req, active>>
      /\ job \in [Job -> JobRow] /\ paper \in [Job -> Nat] /\ faults \in [FaultKinds -> Nat]
      /\ worker \in [Worker -> WorkerRow]
      /\ IsABag(mail) /\ BagToSet(mail) \subseteq Message /\ buried \subseteq Job
  BY DEF sendRawPrinterPayload, PrintInv, PrintTypes
<1>2. PICK j \in Job :
        /\ j = worker[w].job /\ worker[w] \in WorkerRow
        /\ \A pc \in {"printed", "failed"} :
             LET row == [worker[w] EXCEPT !.pc = pc]
             IN  row \in WorkerRow /\ row.pc = pc /\ row.job = j
        /\ PrintedAsCounted(j) =>
             /\ job[j].status = "PROCESSING" /\ \A v \in Worker \ {w} : ~AtPrinter(v, j)
             /\ paper[j] <= 1 + Unsure /\ (worker[w].pc # "printed" => paper[j] <= Unsure)
  BY <1>1, AtPrinterFacts
<1>3. PICK pc \in {"printed", "failed"}, kind \in FaultKinds :
        /\ Goto(w, pc) /\ (Fault(kind) \/ UNCHANGED faults)
        /\ \/ /\ paper' = [paper EXCEPT ![j] = @ + 1]
              /\ pc = "printed" \/ Fault("unsure")
           \/ paper' = paper
  <2>1. {"unsent", "unsure"} \subseteq FaultKinds
    BY DEF FaultKinds
  <2>2. CASE paper' = [paper EXCEPT ![j] = @ + 1] /\ Goto(w, "printed") /\ UNCHANGED faults
    BY <2>1, <2>2
  <2>3. CASE paper' = [paper EXCEPT ![j] = @ + 1] /\ Goto(w, "failed") /\ Fault("unsure")
    BY <2>1, <2>3
  <2>4. CASE Fault("unsent") /\ Goto(w, "failed") /\ UNCHANGED paper
    BY <2>1, <2>4
  <2> QED BY <1>2, <2>2, <2>3, <2>4 DEF sendRawPrinterPayload
<1> DEFINE row == [worker[w] EXCEPT !.pc = pc]
<1>4. worker' = [worker EXCEPT ![w] = row] /\ row \in WorkerRow /\ row.pc = pc /\ row.job = j
  BY <1>2, <1>3 DEF Goto
<1> HIDE DEF row
<1>5. /\ faults' \in [FaultKinds -> Nat] /\ \A k \in FaultKinds : faults[k] <= faults'[k]
      /\ Unsure \in Nat /\ Unsure' \in Nat /\ Unsure <= Unsure'
      /\ Fault("unsure") => Unsure' = Unsure + 1
  BY <1>3, UnsureFacts DEF PrintInv
<1>6. /\ paper' \in [Job -> Nat] /\ \A k \in Job \ {j} : paper'[k] = paper[k]
      /\ \/ paper'[j] = paper[j] + 1 /\ (pc = "printed" \/ Fault("unsure"))
         \/ paper'[j] = paper[j]
  BY <1>1, <1>3
<1>7. PrintedAsCounted(j) => PrintedAsCounted(j)'
  <2> SUFFICES ASSUME PrintedAsCounted(j) PROVE PrintedAsCounted(j)'
    OBVIOUS
  <2>1. /\ job'[j].status = "PROCESSING" /\ \A v \in Worker \ {w} : ~AtPrinter(v, j)
        /\ paper[j] <= Unsure
    BY <1>1, <1>2
  <2> DEFINE U == Unsure
             V == Unsure'
  <2>2. /\ U \in Nat /\ V \in Nat /\ U <= V /\ paper[j] \in Nat /\ paper[j] <= U
        /\ \/ paper'[j] = paper[j] + 1 /\ (pc = "printed" \/ V = U + 1)
           \/ paper'[j] = paper[j]
    BY <1>1, <1>5, <1>6, <2>1
  <2>3. /\ paper'[j] <= 1 + Unsure'
        /\ row.pc # "printed" => paper'[j] <= Unsure'
    <3> SUFFICES paper'[j] <= 1 + V /\ (pc # "printed" => paper'[j] <= V)
      BY <1>4
    <3> HIDE DEF U, V
    <3> QED BY <2>2
  <2> QED BY <1>1, <1>4, <2>1, <2>3, CountStep
<1> QED BY <1>1, <1>2, <1>4, <1>5, <1>6, <1>7, JobAssumption, PrinterStep

\* A step of the worker that ends with j, or that cannot write its answer.
LEMMA AnswerStep ==
    ASSUME PrintInv, NEW w \in Worker, NEW row \in WorkerRow, NEW status \in {"PRINTED", "FAILED"},
           worker[w].pc = (IF status = "PRINTED" THEN "printed" ELSE "failed"),
           worker' = [worker EXCEPT ![w] = row],
           (row.pc = "idle" /\ row.job = NoJob) \/ (row.pc = "failed" /\ row.job = worker[w].job),
           \/ SetStatus(worker[w].job, status) /\ UNCHANGED faults /\ row.pc = "idle"
           \/ Fault("database") /\ UNCHANGED job /\ (status = "PRINTED" => row.pc = "failed"),
           UNCHANGED <<req, active, paper>>,
           IsABag(mail'), BagToSet(mail) \subseteq BagToSet(mail'), BagToSet(mail') \subseteq Message,
           buried \subseteq buried', buried' \subseteq Job,
           row.pc = "failed" \/ status = "PRINTED" \/ worker[w].job \in buried'
              \/ \E m \in BagToSet(mail') : m.job = worker[w].job
    PROVE  PrintInv'
<1>1. /\ job \in [Job -> JobRow] /\ paper \in [Job -> Nat] /\ faults \in [FaultKinds -> Nat]
      /\ worker \in [Worker -> WorkerRow] /\ worker[w].pc \in {"send", "printed", "failed"}
  BY DEF PrintInv, PrintTypes
<1>2. PICK j \in Job :
        /\ j = worker[w].job /\ worker[w] \in WorkerRow
        /\ PrintedAsCounted(j) =>
             /\ job[j].status = "PROCESSING" /\ \A v \in Worker \ {w} : ~AtPrinter(v, j)
             /\ paper[j] <= 1 + Unsure /\ (worker[w].pc # "printed" => paper[j] <= Unsure)
  BY <1>1, AtPrinterFacts
<1>3. /\ faults' \in [FaultKinds -> Nat] /\ \A k \in FaultKinds : faults[k] <= faults'[k]
      /\ Unsure \in Nat /\ Unsure' \in Nat /\ Unsure <= Unsure'
      /\ Fault("database") => Unsure' = Unsure + 1
  BY UnsureFacts DEF PrintInv
<1>4. /\ job' \in [Job -> JobRow] /\ \A k \in Job \ {j} : job'[k] = job[k]
      /\ \/ job'[j].status = status /\ row.pc = "idle"
         \/ /\ job'[j].status = job[j].status /\ Fault("database")
            /\ status = "PRINTED" => row.pc = "failed"
  <2>1. CASE SetStatus(j, status) /\ row.pc = "idle"
    BY <1>1, <2>1 DEF SetStatus, JobRow, Statuses
  <2>2. CASE Fault("database") /\ UNCHANGED job /\ (status = "PRINTED" => row.pc = "failed")
    BY <1>1, <2>2
  <2> QED BY <1>2, <2>1, <2>2
<1>5. PrintedAsCounted(j) => PrintedAsCounted(j)'
  <2> SUFFICES ASSUME PrintedAsCounted(j) PROVE PrintedAsCounted(j)'
    OBVIOUS
  <2>1. /\ job[j].status = "PROCESSING" /\ \A v \in Worker \ {w} : ~AtPrinter(v, j)
        /\ paper[j] <= 1 + Unsure /\ (status = "FAILED" => paper[j] <= Unsure)
        /\ paper[j] \in Nat /\ paper'[j] = paper[j]
    BY <1>1, <1>2
  <2> DEFINE U == Unsure
             V == Unsure'
  <2>2. /\ U \in Nat /\ V \in Nat /\ U <= V
        /\ paper[j] <= 1 + U /\ (status = "FAILED" => paper[j] <= U)
        /\ \/ job'[j].status = status /\ row.pc = "idle"
           \/ job'[j].status = "PROCESSING" /\ V = U + 1
    BY <1>3, <1>4, <2>1
  <2>3. /\ paper'[j] <= 1 + Unsure'
        /\ job'[j].status \notin {"PROCESSING", "PRINTED"} => paper'[j] <= Unsure'
        /\ row.pc = "failed" => job'[j].status = "PROCESSING" /\ paper'[j] <= Unsure'
    <3> SUFFICES /\ paper'[j] <= 1 + V
                 /\ job'[j].status \notin {"PROCESSING", "PRINTED"} => paper'[j] <= V
                 /\ row.pc = "failed" => job'[j].status = "PROCESSING" /\ paper'[j] <= V
      OBVIOUS
    <3> HIDE DEF U, V
    <3> QED BY <2>1, <2>2
  <2>4. row.pc \in {"idle", "failed"}
    OBVIOUS
  <2> QED BY <1>1, <2>1, <2>3, <2>4, CountStep
<1>6. job'[j].status # "QUEUED" \/ row.job = j \/ j \in buried' \/ \E m \in BagToSet(mail') : m.job = j
  <2>1. CASE job'[j].status = status /\ row.pc = "idle"
    BY <1>2, <2>1
  <2>2. CASE Fault("database") /\ (status = "PRINTED" => row.pc = "failed")
    BY <1>2, <2>2
  <2> QED BY <1>4, <2>1, <2>2
<1>7. job'[j].status = "QUEUED" => job[j].status = "QUEUED"
  BY <1>4
<1>8. (row.pc = "idle" <=> row.job = NoJob) /\ row.job \in {j, NoJob}
  BY <1>2, JobAssumption
<1> QED BY <1>1, <1>2, <1>3, <1>4, <1>5, <1>6, <1>7, <1>8, PrinterStep

LEMMA MarkPrintedStep ==
    ASSUME PrintInv, NEW w \in Worker, MarkPrinted(w)
    PROVE  PrintInv'
<1>1. /\ worker[w].pc = "printed" /\ UNCHANGED <<mail, buried, req, active, paper>>
      /\ worker[w] \in WorkerRow
      /\ IsABag(mail) /\ BagToSet(mail) \subseteq Message /\ buried \subseteq Job
  BY DEF MarkPrinted, PrintInv, PrintTypes
<1>2. CASE SetStatus(worker[w].job, "PRINTED") /\ Return(w) /\ UNCHANGED faults
  <2>1. worker' = [worker EXCEPT ![w] = Idle]
    BY <1>2 DEF Return
  <2>2. Idle \in WorkerRow /\ Idle.pc = "idle" /\ Idle.job = NoJob
    BY BoundAssumption DEF Idle, WorkerRow
  <2> QED BY <1>1, <1>2, <2>1, <2>2, AnswerStep
<1>3. CASE Fault("database") /\ Goto(w, "failed") /\ UNCHANGED job
  <2> DEFINE row == [worker[w] EXCEPT !.pc = "failed"]
  <2>1. worker' = [worker EXCEPT ![w] = row]
    BY <1>3 DEF Goto
  <2>2. row \in WorkerRow /\ row.pc = "failed" /\ row.job = worker[w].job
    BY <1>1 DEF WorkerRow
  <2> HIDE DEF row
  <2> QED BY <1>1, <1>3, <2>1, <2>2, AnswerStep
<1> QED BY <1>2, <1>3 DEF MarkPrinted

LEMMA MarkFailedStep ==
    ASSUME PrintInv, NEW w \in Worker, MarkFailed(w)
    PROVE  PrintInv'
<1>1. /\ worker[w].pc = "failed" /\ UNCHANGED <<req, active, paper>> /\ Throw(w)
      /\ \/ SetStatus(worker[w].job, "FAILED") /\ UNCHANGED faults
         \/ Fault("database") /\ UNCHANGED job
  BY DEF MarkFailed
<1>2. Idle \in WorkerRow /\ Idle.pc = "idle" /\ Idle.job = NoJob
  BY BoundAssumption DEF Idle, WorkerRow
<1> QED BY <1>1, <1>2, ThrowFacts, AnswerStep

LEMMA CrashWorkerStep ==
    ASSUME PrintInv, NEW w \in Worker, CrashWorker(w)
    PROVE  PrintInv'
<1>1. /\ Fault("worker") /\ worker' = [worker EXCEPT ![w] = Idle]
      /\ UNCHANGED <<job, mail, buried, req, active, paper>>
      /\ worker \in [Worker -> WorkerRow] /\ faults \in [FaultKinds -> Nat]
  BY DEF CrashWorker, Return, PrintInv, PrintTypes
<1>2. Idle \in WorkerRow /\ Idle.pc = "idle" /\ Idle.job = NoJob
  BY BoundAssumption DEF Idle, WorkerRow
<1>3. /\ faults' \in [FaultKinds -> Nat] /\ \A k \in FaultKinds : faults[k] <= faults'[k]
      /\ ~Never({"enqueue", "worker"})'
  <2>1. /\ faults' \in [FaultKinds -> Nat] /\ faults'["worker"] = faults["worker"] + 1
        /\ "worker" \in FaultKinds /\ \A k \in FaultKinds \ {"worker"} : faults'[k] = faults[k]
    BY <1>1, FaultFacts DEF PrintInv
  <2> QED BY <1>1, <2>1 DEF Never
<1>4. PrintTypes'
  BY <1>1, <1>2, <1>3 DEF PrintInv, PrintTypes
<1>5. Works(w, Idle)
  BY <1>1, <1>2, <1>3, <1>4 DEF Works
<1> QED BY <1>2, <1>5, WorkerStep

LEMMA TogglePrinterStep ==
    ASSUME PrintInv, TogglePrinter
    PROVE  PrintInv'
<1>1. /\ Fault("printer") /\ active' \in BOOLEAN
      /\ UNCHANGED <<job, mail, buried, worker, req, paper>>
  BY DEF TogglePrinter, PrintInv, PrintTypes
<1>2. /\ faults' \in [FaultKinds -> Nat] /\ \A k \in FaultKinds \ {"printer"} : faults'[k] = faults[k]
  BY <1>1, FaultFacts DEF PrintInv
<1>3. PrintTypes'
  BY <1>1, <1>2 DEF PrintInv, PrintTypes
<1>4. WorkersAreInStep' /\ RequestsAreInStep'
  BY <1>1 DEF PrintInv, WorkersAreInStep, RequestsAreInStep
<1>5. ASSUME NEW j \in Job PROVE Requeued(j)' \/ PrintedAsCounted(j)'
  BY <1>1, <1>2 DEF PrintInv, Requeued, PrintedAsCounted, AtPrinter, Unsure, FaultKinds
<1>6. QueuedHasMessage'
  BY <1>1, <1>2 DEF PrintInv, QueuedHasMessage, Never, Carried, FaultKinds
<1> QED BY <1>3, <1>4, <1>5, <1>6 DEF PrintInv
-----------------------------------------------------------------------------
LEMMA PrintInvStep == PrintInv /\ [Next]_vars => PrintInv'
<1> SUFFICES ASSUME PrintInv, [Next]_vars PROVE PrintInv'
  OBVIOUS
<1>1. ASSUME NEW r \in Request, PrintRequest(r) \/ Enqueue(r) \/ Retry(r) \/ RetryWrite(r)
      PROVE  PrintInv'
  BY <1>1, PrintRequestStep, EnqueueStep, RetryStep, RetryWriteStep
<1>2. ASSUME NEW w \in Worker, Work(w) \/ CrashWorker(w)
      PROVE  PrintInv'
  BY <1>2, DeliverStep, ReadJobStep, ClaimJobStep, SendStep, MarkPrintedStep, MarkFailedStep,
     CrashWorkerStep DEF Work
<1>3. CASE TogglePrinter
  BY <1>3, TogglePrinterStep
<1>4. CASE UNCHANGED vars
  BY <1>4 DEF vars, PrintInv, PrintTypes, WorkersAreInStep, RequestsAreInStep, Requeued,
              PrintedAsCounted, AtPrinter, Unsure, QueuedHasMessage, Never, Carried
<1> QED BY <1>1, <1>2, <1>3, <1>4 DEF Next

(***************************************************************************)
(* The types of the print jobs, and how many workers stand at the printer  *)
(* with a job and how much paper has come out by then.                     *)
(***************************************************************************)
THEOREM PrintInvariantHolds == Spec => []PrintInv
<1> QED BY PrintInvInit, PrintInvStep, PTL DEF Spec

\* Faults change one at a time, and only while their sum allows it.
FaultsBounded == faults \in [FaultKinds -> 0 .. MaxFaults]

LEMMA FaultKeepsBound ==
    ASSUME FaultsBounded, NEW kind, Fault(kind)
    PROVE  FaultsBounded'
<1>1. /\ kind \in FaultKinds /\ faults' = [faults EXCEPT ![kind] = @ + 1]
      /\ FoldFunction(+, 0, faults) < MaxFaults
  BY FaultAssumption, Zenon DEF Fault
<1>2. FoldFunction(+, 0, faults) = SumOver(faults, FaultKinds)
  <2>1. DOMAIN faults = FaultKinds
    BY DEF FaultsBounded
  <2> QED BY <2>1, FoldIsSum
<1>3. PICK total : total = FoldFunction(+, 0, faults)
  OBVIOUS
<1>4. total = SumOver(faults, FaultKinds) /\ total < MaxFaults
  BY <1>1, <1>2, <1>3, Zenon
<1>5. SumOver(faults, FaultKinds) < MaxFaults
  BY ONLY <1>4
<1>6. IsFiniteSet(FaultKinds)
  <2> DEFINE lost  == ({"unsent"} \cup {"unsure"}) \cup {"worker"}
             other == (({"enqueue"} \cup {"printer"}) \cup {"database"}) \cup {"duplicate"}
  <2>1. /\ IsFiniteSet({"unsent"}) /\ IsFiniteSet({"enqueue"})
    BY FS_Singleton
  <2>2. IsFiniteSet(lost)
    BY <2>1, FS_AddElement
  <2>3. IsFiniteSet(other)
    BY <2>1, FS_AddElement
  <2>4. FaultKinds = lost \cup other
    BY DEF FaultKinds
  <2> HIDE DEF lost, other
  <2> QED BY <2>2, <2>3, <2>4, FS_Union
<1>7. PICK S : S = FaultKinds
  OBVIOUS
<1>8. MaxFaults \in Nat /\ faults \in [S -> 0 .. MaxFaults] /\ kind \in S /\ IsFiniteSet(S)
      /\ SumOver(faults, S) < MaxFaults
  BY <1>1, <1>5, <1>6, <1>7, BoundAssumption, Zenon DEF FaultsBounded
<1>9. [faults EXCEPT ![kind] = @ + 1] \in [S -> 0 .. MaxFaults]
  BY ONLY <1>8, CountGoesUp
<1> QED BY <1>1, <1>7, <1>9, Zenon DEF FaultsBounded

LEMMA FaultsStayBounded == FaultsBounded /\ [Next]_vars => FaultsBounded'
<1> SUFFICES ASSUME FaultsBounded, [Next]_vars PROVE FaultsBounded'
  OBVIOUS
<1>1. ASSUME UNCHANGED faults PROVE FaultsBounded'
  BY <1>1 DEF FaultsBounded
<1>2. ASSUME NEW r \in Request, PrintRequest(r) \/ Enqueue(r) \/ Retry(r) \/ RetryWrite(r)
      PROVE  UNCHANGED faults \/ Fault("enqueue")
  BY <1>2 DEF PrintRequest, Enqueue, Retry, RetryWrite
<1>3. ASSUME NEW w \in Worker, Work(w) \/ CrashWorker(w)
      PROVE  UNCHANGED faults \/ \E kind \in FaultKinds : Fault(kind)
  BY <1>3 DEF Work, Deliver, ReadJob, ClaimJob, sendRawPrinterPayload, MarkPrinted, MarkFailed,
              CrashWorker, FaultKinds
<1>4. CASE TogglePrinter
  BY <1>4, FaultKeepsBound DEF TogglePrinter
<1>5. CASE UNCHANGED vars
  BY <1>1, <1>5 DEF vars
<1> QED BY <1>1, <1>2, <1>3, <1>4, <1>5, FaultKeepsBound DEF Next

(***************************************************************************)
(* Type correctness of the print jobs: every row, message, worker, request *)
(* and sheet of paper has its type, and no more faults strike than the     *)
(* model allows.                                                           *)
(***************************************************************************)
THEOREM PrintIsTyped == Spec => []TypeOK
<1>1. Init => FaultsBounded
  BY BoundAssumption DEF Init, FaultsBounded
<1>2. PrintInv /\ FaultsBounded => TypeOK
  BY DEF PrintInv, PrintTypes, FaultsBounded, TypeOK, JobRow, WorkerRow, AskRow, Message
<1> QED BY <1>1, <1>2, FaultsStayBounded, PrintInvariantHolds, PTL DEF Spec

(***************************************************************************)
(* A receipt comes out once, however often its key is sent, its message    *)
(* delivered or its worker retried, but for a manager's retry and faults   *)
(* after the paper is out.                                                 *)
(***************************************************************************)
THEOREM PrintsOnce == Spec => []PrintedOnce
<1>1. PrintInv => PrintedOnce
  <2> SUFFICES ASSUME PrintInv, NEW j \in Job, ~Requeued(j)
               PROVE  paper[j] <= 1 + faults["unsure"] + faults["database"]
    BY DEF PrintedOnce
  <2>1. paper[j] <= 1 + (faults["unsure"] + faults["database"])
    BY DEF PrintInv, PrintedAsCounted, Unsure
  <2> QED BY <2>1 DEF PrintInv, PrintTypes, FaultKinds
<1> QED BY <1>1, PrintInvariantHolds, PTL

(***************************************************************************)
(* A queued job has a message, a worker or a request that will send one,   *)
(* or is in the dead letter queue, while enqueueing works and no worker    *)
(* dies.                                                                   *)
(***************************************************************************)
THEOREM QueuedJobsHaveMessages == Spec => []QueuedHasMessage
<1>1. PrintInv => QueuedHasMessage
  BY DEF PrintInv
<1> QED BY <1>1, PrintInvariantHolds, PTL

-----------------------------------------------------------------------------
(***************************************************************************)
(* Connections.  A connection that a request reserved and its watchdog has *)
(* not taken is held by that request under its context (FirstIsHeld), the  *)
(* one of its transaction is another (SecondIsHeld), and who waits stands  *)
(* in the queue once (WaitersWait): nothing else is handed out or          *)
(* released.                                                               *)
(***************************************************************************)
Unserved == {"idle", "reserve"}

WithContext == {"work", "begin", "tx", "rest", "unheard"}

FirstIsHeld ==
    \A h \in Http :
        /\ http[h].pc \notin Unserved => http[h].first \in Conn
        /\ http[h].pc \in Unserved \cup {"context"} => h \notin bitten
        /\ http[h].pc \in WithContext \cup {"context"} /\ h \notin bitten
            => conn[http[h].first].holder = h
        /\ http[h].pc \in WithContext /\ h \notin bitten => conn[http[h].first].context = h

SecondIsHeld ==
    \A h \in Http : http[h].pc = "tx" =>
        /\ http[h].second \in Conn /\ conn[http[h].second].holder = h
        /\ h \notin bitten => http[h].first # http[h].second

WaitersWait ==
    /\ \A i \in 1..Len(waiting) : http[waiting[i]].pc \in {"reserve", "begin"}
    /\ \A i, j \in 1..Len(waiting) : waiting[i] = waiting[j] => i = j
    /\ \A h \in Http : http[h].pc \notin {"reserve", "begin"} =>
            \A i \in 1..Len(waiting) : waiting[i] # h

PoolInv == PoolTypeOK /\ FirstIsHeld /\ SecondIsHeld /\ WaitersWait /\ OwnContext
-----------------------------------------------------------------------------
LEMMA PoolInvInit == PoolInit => PoolInv
BY ConnAssumption
   DEF PoolInit, PoolInv, PoolTypeOK, FirstIsHeld, SecondIsHeld, WaitersWait, OwnContext,
       Unserved, WithContext

HttpRows == [Http -> [pc : {"idle", "reserve", "context", "work", "begin", "tx", "rest",
                            "done", "unheard"},
                      first : Conn \cup {NoConn}, second : Conn \cup {NoConn}]]

ConnRows == [Conn -> [holder : Http \cup {NoHttp}, context : Http \cup {NoHttp}]]

\* What a grant writes keeps the type.
LEMMA GrantTypes ==
    ASSUME PoolTypeOK, NEW h \in Http, NEW c \in Conn
    PROVE  /\ [http EXCEPT ![h].pc = "context", ![h].first = c] \in HttpRows
           /\ [http EXCEPT ![h].pc = "tx", ![h].second = c] \in HttpRows
           /\ [conn EXCEPT ![c].holder = h] \in ConnRows
<1> DEFINE first == [http EXCEPT ![h].pc = "context"]
           second == [http EXCEPT ![h].pc = "tx"]
<1>1. first \in HttpRows /\ second \in HttpRows /\ [conn EXCEPT ![c].holder = h] \in ConnRows
  BY DEF PoolTypeOK, HttpRows, ConnRows
<1>2. [first EXCEPT ![h].first = c] \in HttpRows /\ [second EXCEPT ![h].second = c] \in HttpRows
  <2> HIDE DEF first, second
  <2> QED BY <1>1 DEF HttpRows
<1> QED BY <1>1, <1>2

LEMMA ReserveStep ==
    ASSUME PoolInv, NEW h \in Http, Reserve(h)
    PROVE  PoolInv'
<1> USE ConnAssumption DEF PoolInv, PoolTypeOK, Reserve, Ask
<1>1. PoolTypeOK'
  <2>1. http' \in [Http -> [pc : {"idle", "reserve", "context", "work", "begin", "tx", "rest",
                                "done", "unheard"},
                          first : Conn \cup {NoConn}, second : Conn \cup {NoConn}]]
    BY ZenonT(30)
  <2>2. conn' \in [Conn -> [holder : Http \cup {NoHttp}, context : Http \cup {NoHttp}]]
    BY DEF FirstIsHeld, Unserved
  <2>3. waiting' \in Seq(Http) /\ bitten' \in SUBSET Http /\ alien' \in SUBSET Http
    OBVIOUS
  <2> QED BY <2>1, <2>2, <2>3
<1>2. FirstIsHeld'
  BY DEF FirstIsHeld, SecondIsHeld, Unserved, WithContext
<1>3. SecondIsHeld'
  BY DEF SecondIsHeld, FirstIsHeld, Unserved, WithContext
<1>4. WaitersWait'
  BY DEF WaitersWait
<1>5. OwnContext'
  BY DEF OwnContext, FirstIsHeld, WithContext, Unserved
<1> QED BY <1>1, <1>2, <1>3, <1>4, <1>5

LEMMA SetContextStep ==
    ASSUME PoolInv, NEW h \in Http, SetContext(h)
    PROVE  PoolInv'
<1> USE ConnAssumption DEF PoolInv, PoolTypeOK, SetContext
<1>1. PoolTypeOK'
  BY SMTT(30) DEF FirstIsHeld, Unserved
<1>2. FirstIsHeld'
  BY DEF FirstIsHeld, SecondIsHeld, Unserved, WithContext
<1>3. SecondIsHeld'
  BY DEF SecondIsHeld, FirstIsHeld, Unserved, WithContext
<1>4. WaitersWait'
  BY DEF WaitersWait
<1>5. OwnContext'
  BY DEF OwnContext, FirstIsHeld, WithContext, Unserved
<1> QED BY <1>1, <1>2, <1>3, <1>4, <1>5

LEMMA ContextFailsStep ==
    ASSUME PoolInv, NEW h \in Http, ContextFails(h)
    PROVE  PoolInv'
<1> USE ConnAssumption DEF PoolInv, PoolTypeOK, ContextFails, Released
<1>1. PoolTypeOK'
  BY SMTT(30) DEF FirstIsHeld, Unserved
<1>2. FirstIsHeld'
  BY DEF FirstIsHeld, SecondIsHeld, Unserved, WithContext
<1>3. SecondIsHeld'
  BY DEF SecondIsHeld, FirstIsHeld, Unserved, WithContext
<1>4. WaitersWait'
  BY DEF WaitersWait
<1>5. OwnContext'
  BY DEF OwnContext, FirstIsHeld, WithContext, Unserved
<1> QED BY <1>1, <1>2, <1>3, <1>4, <1>5

LEMMA QueryStep ==
    ASSUME PoolInv, NEW h \in Http, Query(h)
    PROVE  PoolInv'
<1> USE ConnAssumption DEF PoolInv, PoolTypeOK, Query, Running
<1>1. PoolTypeOK'
  BY DEF FirstIsHeld, Unserved
<1>2. FirstIsHeld'
  BY DEF FirstIsHeld, SecondIsHeld, Unserved, WithContext
<1>3. SecondIsHeld'
  BY DEF SecondIsHeld, FirstIsHeld, Unserved, WithContext
<1>4. WaitersWait'
  BY DEF WaitersWait
<1>5. OwnContext'
  BY DEF OwnContext, FirstIsHeld, WithContext, Unserved
<1> QED BY <1>1, <1>2, <1>3, <1>4, <1>5

LEMMA BeginStep ==
    ASSUME PoolInv, NEW h \in Http, Begin(h)
    PROVE  PoolInv'
<1> USE ConnAssumption DEF PoolInv, PoolTypeOK, Begin, Ask
<1>1. PoolTypeOK'
  BY SMTT(30) DEF FirstIsHeld, Unserved
<1>2. FirstIsHeld'
  BY DEF FirstIsHeld, SecondIsHeld, Unserved, WithContext
<1>3. SecondIsHeld'
  BY DEF SecondIsHeld, FirstIsHeld, Unserved, WithContext
<1>4. WaitersWait'
  BY DEF WaitersWait
<1>5. OwnContext'
  BY DEF OwnContext, FirstIsHeld, WithContext, Unserved
<1> QED BY <1>1, <1>2, <1>3, <1>4, <1>5

LEMMA CommitStep ==
    ASSUME PoolInv, NEW h \in Http, Commit(h)
    PROVE  PoolInv'
<1> USE ConnAssumption DEF PoolInv, PoolTypeOK, Commit, Released
<1>1. PoolTypeOK'
  <2>1. http' \in [Http -> [pc : {"idle", "reserve", "context", "work", "begin", "tx", "rest",
                                "done", "unheard"},
                          first : Conn \cup {NoConn}, second : Conn \cup {NoConn}]]
    BY ZenonT(30)
  <2>2. conn' \in [Conn -> [holder : Http \cup {NoHttp}, context : Http \cup {NoHttp}]]
    BY DEF SecondIsHeld
  <2>3. waiting' \in Seq(Http) /\ bitten' \in SUBSET Http /\ alien' \in SUBSET Http
    OBVIOUS
  <2> QED BY <2>1, <2>2, <2>3
<1>2. FirstIsHeld'
  BY DEF FirstIsHeld, SecondIsHeld, Unserved, WithContext
<1>3. SecondIsHeld'
  BY DEF SecondIsHeld, FirstIsHeld, Unserved, WithContext
<1>4. WaitersWait'
  BY DEF WaitersWait
<1>5. OwnContext'
  BY DEF OwnContext, FirstIsHeld, WithContext, Unserved
<1> QED BY <1>1, <1>2, <1>3, <1>4, <1>5

LEMMA FinishStep ==
    ASSUME PoolInv, NEW h \in Http, Finish(h)
    PROVE  PoolInv'
<1> USE ConnAssumption DEF PoolInv, PoolTypeOK, Finish, Released, Running
<1>1. PoolTypeOK'
  <2>1. http' \in [Http -> [pc : {"idle", "reserve", "context", "work", "begin", "tx", "rest",
                                "done", "unheard"},
                          first : Conn \cup {NoConn}, second : Conn \cup {NoConn}]]
    OBVIOUS
  <2>2. conn' \in [Conn -> [holder : Http \cup {NoHttp}, context : Http \cup {NoHttp}]]
    BY DEF FirstIsHeld, Unserved
  <2>3. waiting' \in Seq(Http) /\ bitten' \in SUBSET Http /\ alien' \in SUBSET Http
    OBVIOUS
  <2> QED BY <2>1, <2>2, <2>3
<1>2. FirstIsHeld'
  BY DEF FirstIsHeld, SecondIsHeld, Unserved, WithContext
<1>3. SecondIsHeld'
  BY DEF SecondIsHeld, FirstIsHeld, Unserved, WithContext
<1>4. WaitersWait'
  BY DEF WaitersWait
<1>5. OwnContext'
  BY DEF OwnContext, FirstIsHeld, WithContext, Unserved
<1> QED BY <1>1, <1>2, <1>3, <1>4, <1>5

LEMMA FinishUnheardStep ==
    ASSUME PoolInv, NEW h \in Http, FinishUnheard(h)
    PROVE  PoolInv'
<1> USE ConnAssumption DEF PoolInv, PoolTypeOK, FinishUnheard, Running
<1>1. PoolTypeOK'
  BY DEF FirstIsHeld, Unserved
<1>2. FirstIsHeld'
  BY DEF FirstIsHeld, SecondIsHeld, Unserved, WithContext
<1>3. SecondIsHeld'
  BY DEF SecondIsHeld, FirstIsHeld, Unserved, WithContext
<1>4. WaitersWait'
  BY DEF WaitersWait
<1>5. OwnContext'
  BY DEF OwnContext, FirstIsHeld, WithContext, Unserved
<1> QED BY <1>1, <1>2, <1>3, <1>4, <1>5

LEMMA WatchdogStep ==
    ASSUME PoolInv, NEW h \in Http, Watchdog(h)
    PROVE  PoolInv'
<1> USE ConnAssumption DEF PoolInv, PoolTypeOK, Watchdog, Released, Running
<1>1. PoolTypeOK'
  BY DEF FirstIsHeld, Unserved
<1>2. FirstIsHeld'
  BY DEF FirstIsHeld, SecondIsHeld, Unserved, WithContext
<1>3. SecondIsHeld'
  BY DEF SecondIsHeld, FirstIsHeld, Unserved, WithContext
<1>4. WaitersWait'
  BY DEF WaitersWait
<1>5. OwnContext'
  BY DEF OwnContext, FirstIsHeld, WithContext, Unserved
<1> QED BY <1>1, <1>2, <1>3, <1>4, <1>5

LEMMA GrantStep ==
    ASSUME PoolInv, NEW c \in Conn, Grant(c)
    PROVE  PoolInv'
<1> USE ConnAssumption DEF PoolInv, PoolTypeOK, Grant, Unheld
<1>a. /\ Head(waiting) \in Http /\ Len(waiting) \in Nat \ {0} /\ waiting[1] = Head(waiting)
      /\ Tail(waiting) \in Seq(Http) /\ Len(Tail(waiting)) = Len(waiting) - 1
      /\ \A i \in 1..Len(Tail(waiting)) : Tail(waiting)[i] = waiting[i + 1]
  OBVIOUS
<1>b. http[Head(waiting)].pc \in {"reserve", "begin"}
  <2>1. 1 \in 1..Len(waiting) /\ waiting[1] = Head(waiting)
    BY <1>a
  <2>2. http[waiting[1]].pc \in {"reserve", "begin"}
    BY <2>1 DEF WaitersWait
  <2> QED BY <2>1, <2>2
<1>c. /\ http[Head(waiting)].pc = "reserve" =>
            http' = [http EXCEPT ![Head(waiting)].pc = "context", ![Head(waiting)].first = c]
      /\ http[Head(waiting)].pc = "begin" =>
            http' = [http EXCEPT ![Head(waiting)].pc = "tx", ![Head(waiting)].second = c]
      /\ conn' = [conn EXCEPT ![c].holder = Head(waiting)]
  BY <1>a
<1>1. PoolTypeOK'
  <2> DEFINE w == Head(waiting)
  <2>a. w \in Http
    BY <1>a
  <2>b. /\ [http EXCEPT ![w].pc = "context", ![w].first = c] \in HttpRows
        /\ [http EXCEPT ![w].pc = "tx", ![w].second = c] \in HttpRows
        /\ [conn EXCEPT ![c].holder = w] \in ConnRows
    <3> HIDE DEF w
    <3> QED BY <2>a, GrantTypes
  <2>1. http' \in HttpRows /\ conn' \in ConnRows
    BY <2>b, <1>b, <1>c
  <2>2. waiting' \in Seq(Http) /\ bitten' \in SUBSET Http /\ alien' \in SUBSET Http
    BY <1>a
  <2> QED BY <2>1, <2>2 DEF HttpRows, ConnRows
<1>2. FirstIsHeld'
  BY <1>a, <1>b, <1>c, SMTT(60) DEF FirstIsHeld, SecondIsHeld, Unserved, WithContext
<1>3. SecondIsHeld'
  BY <1>a, <1>b, <1>c DEF SecondIsHeld, FirstIsHeld, Unserved, WithContext
<1>4. WaitersWait'
  <2>1. Head(waiting) \in Http /\ waiting' = Tail(waiting)
    BY <1>a
  <2>2. /\ http'[Head(waiting)].pc \notin {"reserve", "begin"}
        /\ \A h \in Http : h # Head(waiting) => http'[h].pc = http[h].pc
    BY <1>a, <1>b, <1>c
  <2>3. \A i \in 1..Len(waiting') : i + 1 \in 1..Len(waiting) /\ waiting'[i] = waiting[i + 1]
    BY <1>a, <2>1
  <2>4. \A i \in 1..Len(waiting') : waiting'[i] \in Http /\ waiting'[i] # Head(waiting)
    <3>1. 1 \in 1..Len(waiting) /\ waiting[1] = Head(waiting)
      BY <1>a
    <3>2. \A i \in 1..Len(waiting') : i + 1 # 1
      BY <1>a, <2>1
    <3>3. \A i \in 1..Len(waiting') : waiting[i + 1] # waiting[1]
      BY <2>3, <3>1, <3>2 DEF WaitersWait
    <3> QED BY <2>3, <3>1, <3>3
  <2>5. \A i \in 1..Len(waiting') : http'[waiting'[i]].pc \in {"reserve", "begin"}
    BY <2>2, <2>3, <2>4 DEF WaitersWait
  <2>6. \A i, j \in 1..Len(waiting') : waiting'[i] = waiting'[j] => i = j
    BY <2>3 DEF WaitersWait
  <2>7. \A h \in Http : http'[h].pc \notin {"reserve", "begin"} =>
            \A i \in 1..Len(waiting') : waiting'[i] # h
    BY <2>2, <2>3, <2>4 DEF WaitersWait
  <2> QED BY <2>5, <2>6, <2>7 DEF WaitersWait
<1>5. OwnContext'
  BY DEF OwnContext, FirstIsHeld, WithContext, Unserved
<1> QED BY <1>1, <1>2, <1>3, <1>4, <1>5

LEMMA PoolInvStep == PoolInv /\ [PoolNext]_poolVars => PoolInv'
<1> SUFFICES ASSUME PoolInv, [PoolNext]_poolVars PROVE PoolInv'
  OBVIOUS
<1>1. ASSUME NEW h \in Http, PoolStep(h) PROVE PoolInv'
  BY <1>1, ReserveStep, SetContextStep, ContextFailsStep, QueryStep, BeginStep, CommitStep,
     FinishStep, FinishUnheardStep DEF PoolStep
<1>2. ASSUME NEW h \in Http, Watchdog(h) PROVE PoolInv'
  BY <1>2, WatchdogStep
<1>3. ASSUME NEW c \in Conn, Grant(c) PROVE PoolInv'
  BY <1>3, GrantStep
<1>4. CASE UNCHANGED poolVars
  BY <1>4 DEF poolVars, PoolInv, PoolTypeOK, FirstIsHeld, SecondIsHeld, WaitersWait, OwnContext
<1> QED BY <1>1, <1>2, <1>3, <1>4 DEF PoolNext

LEMMA PoolInvariantHolds == PoolSpec => []PoolInv
BY PoolInvInit, PoolInvStep, PTL DEF PoolSpec

\* Every variable of the pool keeps its type.
THEOREM PoolTypes == PoolSpec => []PoolTypeOK
<1>1. PoolInv => PoolTypeOK
  BY DEF PoolInv
<1> QED BY <1>1, PoolInvariantHolds, PTL

\* No request whose watchdog has not bitten runs a statement under the
\* context of another.
THEOREM ContextsAreOwn == PoolSpec => []OwnContext
<1>1. PoolInv => OwnContext
  BY DEF PoolInv
<1> QED BY <1>1, PoolInvariantHolds, PTL
=============================================================================
