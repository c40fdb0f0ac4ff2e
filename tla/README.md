# Verification of KPOS

TLA+ models of the parts of KPOS in which requests, workers, devices and
failures meet: stock and the documents that move it, a customer's points and
balances, payroll, attendance, expenses and cash drawers, the outbox and its
consumers, the printer queue, connections, sessions and caches, restaurant
orders, requests for a store, and what the till does while its network or a
gateway is away. TLC checks each of them on small instances; TLAPS proves every
safety property of the passing runs, and more, for every value of the constants
that satisfies the assumptions named below. Paths are relative to
`src/APIS/src/` unless they begin with `kpos/`, which stands for `src/kpos/`.

Contents: [the system](#the-system) ·
[the modules](#the-modules) · [the runs](#the-runs) ·
[fairness](#fairness) · [what is proved](#what-is-proved) ·
[where code and documentation disagree](#where-code-and-documentation-disagree) ·
[what is not modelled](#what-is-not-modelled) · [plan](#plan)

## The system

KPOS is a multi-tenant point of sale. A SvelteKit client (`kpos/`) talks to an
Express API (`modules/*/presentation/routes.ts`) that may run in several
processes. State is in PostgreSQL, at its default isolation READ COMMITTED;
RabbitMQ carries background jobs, Redis holds refresh tokens, cached answers
and the lock of scheduled jobs.

| Component | State it keeps | Operations | Talks to | Module |
|---|---|---|---|---|
| Sales (`modules/sales`) | `transactions`, their items and payments | sale, credit sale, credit payment, void, refund | inventory rows, customers, coupons, print queue | StockLedger, SaleAccounts |
| Payments (`modules/payments`) | the same `transactions`; `settlements` | refund and void without stock, settlement of a day | sales' records | StockLedger, SaleAccounts, CashShifts |
| Drawers (`modules/sales`) | `shifts`, `cash_movements` | open, sell into, move cash, close | sales, settlements | CashShifts |
| Inventory (`modules/inventory`) | `inventory`, `stock_movements`, orders, transfers, counts | adjust, transfer, stock in/out, document create/approve/reject/receive/edit/delete | sales through the rows they share | StockLedger, StockDocuments |
| Customers (`modules/customers`) | `customers.points`, `points_history` | manual adjustment | sales | SaleAccounts |
| Outbox and receipts (`infrastructure/messaging`, `config/rabbitmq.config.ts`, `infrastructure/workers`) | `outbox_messages`, `message_receipts`, the broker's queues | enqueue, claim a batch, publish, consume, retry, dead-letter | every producer and handler of a job | MessageDelivery |
| Printing (`modules/settings`) | `print_jobs` | print, claim, send, retry, reprint | outbox, printers | PrintJobs |
| Scheduled jobs (`shared/distributed-lock.ts`, `workers/backup.worker.ts`) | a Redis key per job | acquire, release | Redis | DistributedLock |
| Request plumbing (`http/middleware/tenant-tx.middleware.ts`) | connections of one pool, the context set on each | reserve, begin, release, watchdog | every route | ConnectionPool |
| Caches (`auth.middleware.ts`, `permission.service.ts`, `cache.middleware.ts`) | keys in Redis | look up, fill, drop | every route | AuthCache |
| Sessions (`modules/auth`) | refresh ids and revocations in Redis | login, refresh, logout, authenticate | every route | Sessions |
| Attendance (`modules/staff`) | `attendance_records` | clock in and out, enter by hand, correct, void | payroll, schedules | Attendance, WorkCalculator |
| Payroll (`modules/finance`) | periods, items, adjustments, compensation, payments | calculate, submit, approve, pay, close, reverse | attendance | PayrollPeriods, PayrollCalculator, SalaryLedger |
| Expenses (`modules/finance`) | `expenses` | create, submit, approve, reject, pay | | Expenses |
| Restaurant (`modules/restaurant`) | orders, items, tables, reservations | order, add items, kitchen status, reserve, seat | e-menu | KitchenOrders |
| Store requests (`modules/admin`, `modules/stores`) | `store_requests`, tenants, stores, branches, owners | register, apply, approve, reject, cancel | users | StoreRequests |
| QR payments (`modules/payment-gateways`) | `qr_payment_requests` | create, poll, notify, expire, check out | two gateways, the till | QrPayments |
| Till (`kpos/src/lib/offlineQueue.ts`, `kpos/src/routes/(app)/pos`) | sales waiting in IndexedDB | store, replay | `POST /sales` | OfflineSales |

Catalogue, users and roles, reports, settings and the rest of the platform
administration are row updates and queries without behaviour over time;
`PROJECT.json` lists them with the reason for leaving each out.

### How a request meets another one

A handler's ordinary statements run one by one on the connection that
`withTenantTx` has reserved for the request, each in a transaction of its own.
`scopedTransaction` (`sales/presentation/routes.ts:23-36` and its copies) takes
*another* connection and runs its callback as one transaction. So almost every
handler is: reads and checks that other requests can invalidate; then a
transaction whose statements each see what is committed when they start; then
an answer. What holds a transaction together is what it locks: a row read by
the query builder's `.for('update')`, a row it has updated, or a conditional
UPDATE that claims a status. A callback that throws rolls back; a callback that
*returns* an error commits.

### What is hard here

1. **Interleavings of handlers** between those statements: the same inventory
   row from four routes with locks and from several without, one sale reversed
   by four routes, one document approved and rejected at once.
2. **Lock order**: sales lock in cart order, transfers source first.
3. **Partial failure**: the third item of a cart, a second short line of a
   transfer, a receipt that cannot be released.
4. **Crashes and redelivery**: a relay between publish and mark, a consumer
   between claim and acknowledgement, a printer worker between paper and row.
5. **Timeouts**: rows locked for five minutes, receipts for ten, Redis keys.
6. **Something must end**: every message handled or dead-lettered, every job
   printed or failed, every request answered and given its connections, the
   till's queue emptied.
7. **Check, then write by id**: expenses, shifts, settlements, order totals,
   store requests and QR polls read a row and update it later by its id alone.
8. **Caches and tokens**: what a request read before a change is put into Redis
   after it; two refreshes find the same key.

The hazards are listed with their lines in `PROJECT.json`, each with the
properties that would catch it or the reason why none does yet.

### What makes each component correct

* Stock: a row's quantity is what its movements say; nothing is sold that was
  not there; a sale is reversed once and for no more than it sold.
* Documents: a document moves its stock once, as a whole, and only when
  approved; a transfer creates and destroys nothing.
* Accounts: points are what their history says, a reversal gives back what the
  sale booked, a coupon is not used beyond its limit, a balance is the sum of
  its payments.
* Delivery: an event is handled at least once, and more than once only for
  faults that have a name; nothing waits for ever.
* Printing: one job, one paper; the history tells the truth.
* Lock: one instance runs the job; nobody removes another's lock.
* Connections: a request's statements run under its own tenant; requests that
  hold one connection and want a second do not block each other for ever.
* Payroll: a salary is paid once for its dates; items, payments and the status
  of the period tell one story; nothing approved in time is left out.
* Attendance: an hour is paid once; list and payroll agree on who was late.
* Expenses: a paid expense stays paid; its maker does not approve it.
* Drawers: a closed shift's expected balance has everything it had to have; a
  day is settled once.
* Kitchen: an item to be cooked is on the list; a total is the sum of its items.
* Store requests: an approved owner has all that an approval gives.
* Sessions and caches: a login has one good refresh token and ends; a change of
  rights is seen by whoever comes after it.
* Till: no sale is lost, none is booked twice without a cause that has a name;
  a QR sale rests on a paid request.

## The modules

Every module is a state machine with one action per statement, or per group of
statements that no other process can come between. `req[r]` is a handler with
its program counter and its local variables; a crash is possible at every
point where the handler is under way. A database connection is not a variable:
what it owns is (`lock`), and a transaction that ends gives back all it owns.

**StockLedger** — `inventory`, `stock_movements`, `transactions`.
`qty` is the committed quantity, `work` what the owner of the row lock sees,
`ledger` the sum of `newQty - previousQty` over committed movements, `txn` the
sales and refunds. `SaleArrive`, `SaleLock`, `ReadRow`, `WriteRow`, `SaleCommit`
are the statements of `POST /sales` and `/sales/credit`; `TransferArrive`,
`TransferLock`, `TransferCommit` those of `/inventory/transfer`; `Adjust` is
`/inventory/adjust`; `VoidArrive`, `RefundArrive`, `Claim`, `ReadRow`,
`WriteRow`, `ReverseCommit` are void and refund; `PaymentReverse` the two
routes of the payments module, which change the record and no stock.
`DeadlockVictim` is PostgreSQL's detector: it acts only on a request in a ring
of waits. A record is named by the request that created it, so refunds of
refunds, which the routes do not exclude, are in the model.

**StockDocuments** — transfers, purchase orders and counts with their lines
(signed quantities on rows). `Create`/`CreateItems`, `ApproveArrive`,
`StatusArrive`, `Claim`, `TakeRow`, `Commit`, `RejectArrive`/`RejectWrite`,
`EditOrder`, `DeleteArrive`/`DeleteOrder`. Two pairs of routes exist for
transfers (`/stock-transfers` and `/transfers`) and both are mapped to the same
actions: they have the same statements. Stock that a transaction in flight has
moved is kept with the request (its rows are locked, nobody can see the
difference) and added when it commits. `Sell` is a one-line sale of the same row.

**SaleAccounts** — `customers.points` with `points_history`, one coupon with
`usageCount`, and `transactions.paidAmount`/`creditStatus` with
`transaction_payments`. The sale's checks before its transaction
(`SaleArrive`) and the updates inside it (`TakePoints`, `TakeCoupon`,
`SaleCommit`) are separate; `PayArrive`, `PayLock`, `PayCommit` are the credit
payment; reversals claim the sale and then book the points. The earned and
redeemed amounts of a sale are inputs: their arithmetic is in
`sales/domain/loyalty-points.ts` and has unit tests.

**MessageDelivery** — one event from `enqueueOutboxMessage` to its receipt.
`claimOutboxBatch`, `publishEnvelope`, `markOutboxPublished`,
`markOutboxFailed` are the relay, whose batch is a set of rows, published in
the order of their age; `BrokerTakes`, `Deliver`, `RetryDue` the
broker; `claimMessage`, `Reclaim`, `Handler`, `markMessageProcessed`,
`releaseMessage`, `retryOrDeadLetter` the consumer. Each statement on the receipts
may fail: `ClaimThrows` is a claim that does, after which the catch of `consume`
releases the receipt by its event id, another consumer's too. A channel is a sequence
(`wire`) because nothing is confirmed: what was written can still be lost.

**PrintJobs** — `print_jobs`, its routes and its worker, over messages that
come once, twice, or again after a failure, as MessageDelivery says they do.
`paper[j]` counts what came out of the printer, which no row of the database
knows.

**DistributedLock** — `acquireLock` and `releaseLock`, one Redis command per
step. `acquireFails` and `releaseFails` are commands whose answer is lost,
carried out or not.

**CashShifts** — `shifts`, `transactions` as far as a shift counts them,
`cash_movements`, `settlements`. Each route is a read (`SaleArrive`,
`OpenArrive`, `CloseArrive`, `SettleArrive`) and a later write (`SaleCommit`,
`OpenInsert`, `CloseWrite`, `SettleInsert`), because the code has no
transaction around the two; the two unique indexes that back up the reads are
`OnlyOpen` and `Unsettled`. A sum of money is the set of rows it was taken over.

**PayrollPeriods** — periods of one branch over the same dates, with items,
adjustments and compensation versions. A handler that locks the row of its
period first is one step; the two that do not (`AdjustCheck`/`AdjustInsert`,
`CompensationCheck`/`CompensationCommit`) are two. **PayrollCalculator** is the
arithmetic of one payslip, which the run puts in for `NetPay`; its rates are
whole numbers of which `Whole` is one (100: percent), and `ValidProfile` is what
`POST /payroll/tax-profiles` accepts.
**SalaryLedger** is what payroll promises: a salary is paid to who does not
have it, and taken back only from everybody paid. `Salary` in PayrollPeriods
is the refinement mapping.

**Attendance** — `attendance_records` of one employee, in hours. `ClockIn`,
`ClockOutRead`/`ClockOutWrite`, `Manual`, `CorrectRead`/`CorrectWrite` and
`Void` are the routes; a clock-in is one step because the unique index refuses
the second OPEN record. `mixed` is no column: it marks a record whose hours a
clock-out worked out from times that a correction has since replaced.
**WorkCalculator** is the arithmetic on both sides: what a record says of itself
(`LateBy`, `EarlyBy`) and what a payroll period makes of all of them
(`CalculatePayrollWork`: `Cut` to the period, one `Entry` per date, thresholds,
lateness and early leave). `AttendanceRows` and `MayCalculate` are what the
calculation of a period reads.

**Expenses** — `expenses` and calls that read (`SubmitExpense`,
`ApproveExpense`, `RejectExpense`, `PayExpense`) and later write by id
(`UpdateExpense`).

**StoreRequests** — `store_requests`, owners and what an approval builds, one
action per statement (`Statements` is their order), each of which may be the
last (`FailReview`); rejections and cancellations overlap.

**KitchenOrders** — `orders` and `order_items`. `addItemsRead`/`addItemsCommit`
and `updateItemStatusRead`/`updateItemStatusCommit` are the two service methods
that write the order from what they read of its items. `update` writes whatever
status and total the body names (`PUT /orders/:id` passes all of it on); columns
that no property here speaks of, and the ids that such a body could name, are left
out. `left` and `priced` are history: what the last addition to commit had not
seen, and whether a body has named a total since.

**ConnectionPool** — who holds and who waits for a connection, and whose
context is set on it: `Reserve`, `SetContext`, `Query`, `Begin`, `Commit`,
`Finish`, and `Watchdog`, which takes the first connection away from a handler
that goes on with it. `alien` records a statement under another's context.

**AuthCache** — one cached row: `GetEntry`, `LoadRow`, `FillEntry` against
`ChangeRow`, `DropEntry`. The cached user, the permission mask and the query
cache take the same steps.

**Sessions** — pairs of tokens, by the Redis keys that make them good.
`RefreshCheck`, `RefreshDrop`, `RefreshStore` and `LogoutRevoke`,
`LogoutForget` are one command each.

**OfflineSales** — the page, its queue and its replays over a server that books
or refuses; requests outlive the page's patience. **QrPayments** — the page's
timer and overlapping polls, the server's two-statement poll, notifications,
and the checkout.

A handler that reads and later writes remembers, in a field `after`, which
calls had been answered when it came. That is no state of the program: it lets
a property say "unless the two overlapped" instead of excepting more.

`MCBackend`, `MCWaiting`, `MCFinance`, `MCTill`, `MCShared` and `MCApprovals` put
modules side by side that share no state. A variable of the MC module (`cargo`,
`side`, `books`, `protocol`, `store`, `desk`) is chosen at the beginning and only the module it
names moves; the others stay where they begin, so the run has the sum of their
state spaces, not the product, and each property is checked on every behaviour
of its module. Nothing is lost by it: no action of one reads a variable of
another.

`MC*.tla` hold the instances. Definitions marked `Mutant:` stand beside the
definition they change: each is a plausible slip in that piece of code, and
the property named for it in `PROJECT.json` is violated when it is put in.

## The runs

| Run | Question | Bounds |
|---|---|---|
| `backend` | Do the row-locked routes keep quantity and movements equal, never oversell, and sell what they say? Is an event handled at least once, and again only for named faults; does it settle? | stock: 3 requests, 2 rows, carts that meet in both orders and exhaust a row; delivery: 1 event, 2 instances, 1 retry, one counted fault in all, beside any number of handler throws and slow relays |
| `stock_reversal` | Is a sale reversed once, for no more than it sold, and does everybody get an answer? | 3 requests: a sale and any two of four reversals, transfers or further sales; refunds of up to two lines |
| `stock_void_race` | *violated*: is an unlocked restore safe? | 4 requests, 1 row |
| `docs_short` | *violated*: has a transfer that an approval completed moved all the lines it was approved with? | 2 pending transfers with their lines in the table, 3 requests: approvals and sales of a unit |
| `approvals` | Does a document move its stock once and completely? Does a paid expense stay paid? Has an approved owner all that an approval gives? Does the kitchen see what is to be cooked, and does a bill add up? | documents: 2, with 3 requests on 2 rows of 2 and 1 units, all kinds; expenses: 1, 4 calls of two checkers; store requests: 2 of one owner, 3 reviews; kitchen: 1 order, 3 items, 2 handlers, bodies that name PENDING or READY and a total of nothing |
| `finance` | Is a salary paid once, do the books agree, does a payslip count what was approved, does all that implement the salary ledger? Does a closed shift count what it had to, is a day settled once? Is every hour of attendance paid once, and the same lateness seen by list and payroll? | payroll: 2 periods, 2 employees, a bonus and a deduction; drawers: 5 requests of a cashier and a manager; attendance: 2 records, 2 periods, 4 hours of the clock |
| `attend_morning` | *violated*: is only true lateness and early leave deducted? | 1 record, a shift from 6 to 14 |
| `deliver_crash` | *violated*: does an event survive the death of its consumer? | 1 event, one crash |
| `waiting` | Does a job print once, and is neither QUEUED nor PROCESSING a dead end? Does a request work under its own tenant, and do all get their connections? | print: 2 jobs, 2 requests, 2 workers, 2 retries, up to 3 faults; pool: 3 requests, 2 connections |
| `print_no_printer` | *violated*: is a job FAILED when its last message is buried? | a printer that is switched off |
| `till` | Is every offline sale booked, once and in order, and does the queue empty? Does a QR sale rest on a paid request? | queue: 2 carts, 2 requests under way, 2 replays, 3 faults; QR: 2 carts, 2 requests (one gateway that notifies, one that is asked), 2 polls under way |
| `shared` | Does one instance run a job? Has a login one good token, and an end? Is a change of rights seen? Do points, coupon and balance agree with their histories? | lock: 3 instances, 2 jobs each, crashes and failing Redis commands; sessions: 5 calls on one login or 4 on several; cache: 3 lookups, 2 changes; accounts: 3 requests over all eight routes, one coupon use, points for one redemption |

Why small is enough. A lost update needs two writers and a third request to
make the difference seen; a deadlock needs two rows in two orders; a race for a
status two claimants and one who created the record. Three requests and two
rows have all of these at once. An event's history depends on no other event
(rows, receipts and messages are per event; the channel's order is not used
across events), so one event with two instances covers takeover and double
delivery; one retry covers "retried, then buried". `MaxFaults` counts all the
faults of a behaviour together: with one, every kind of failure is met at every
point, but no two together; `waiting` and `till` allow three so that a retry can
meet a second failure. In `shared` the key of the lock outlives the
jobs; an expiration before the end of a job is in the module as the fault
`late`, and with it mutual exclusion is lost by design.

Five requests at a drawer are an opening, a sale, a reversal or movement, a
close and something that comes in between or after; the same number of calls
is a login, two refreshes that overlap, a logout and a use. Two connections and
three requests are the least with which every connection is held by somebody
who wants another while one more waits. Two employees make a period
PARTIALLY_PAID; two periods are what the check for overlapping dates is about.
The four hours of `MCClock` make a night that is left too early, a shift across
the boundary of two periods, a late one across midnight into the weekend, and
ones longer than the policy allows; two records are two on one date or a night
and the day after.

Every bound is a constant of the `.cfg`: `MaxPicks` bounds the lines of a
partial refund, `MaxFaults` the faults, `Retries` the length of
`RETRY_DELAYS_MS` (four in the code), `Ticks` the jobs an instance starts,
`Batch` the rows a relay claims. `OrderWords` and `ItemWords` are the statuses
that bodies name for orders and items, free text in the code: for items, SERVED and
CANCELLED are left out of the run because the kitchen treats them as READY and
as an unknown word; for orders, these two and COMPLETED because, like READY, none
is on the kitchen's list. `OrderTotals` are the totals that bodies name: one that
is no sum of the items is enough to be wrong. Where requests have numbers, `InOrder` in
the MC module makes them come in the order of their numbers: they are
interchangeable, so this leaves out only renamings. `Symmetry` and `MCSymmetry`
permute requests, items, or periods and records, in runs without liveness. `CHECK_DEADLOCK FALSE`
stands in all runs because a system whose clients have sent all their requests
stops.

Some properties carry exceptions that the code forces on them.
`MovedOnce` excepts an order that was set back: `PATCH
/purchase-orders/:id/status` accepts any status after any other, so RECEIVED,
DRAFT, RECEIVED receives twice. `TransferBalanced` excepts a transfer from a
branch to itself, which `/transfers` accepts (1788) and `/stock-transfers`
refuses (1078). `PrintedOnce` excepts jobs that were retried by
hand, since the retry route overwrites whatever the worker has done since it
looked. `HoursPaidOnce` and `SameVerdict` except records whose clock-out a
correction overtook and shifts longer than the policy allows, `SameVerdict`
also those that are cut or share the date of their clock-in. `PaidForGood`, `CloseCounts`, `OnePair`, `LoginEnds` and `ChangeIsSeen`
except calls that overlapped, in the words their comments give; `KitchenSees`
orders whose last change was overtaken, and those whose status
was set by hand; `TotalIsItems` orders whose total a body has named since the last
addition, and of an addition that was overtaken it says which items it misses;
`HandledOnce` allows one more success for each statement on the receipts that
failed and each receipt met overdue; `BookedOnce` sales whose answer was given up or that two
replays had in hand; `OwnContext` requests whose watchdog has bitten. What lies
beyond each exception is what a client that waits for its answers can rely on.

The type invariants of the modules (`TypeOK`, `ShiftsTypeOK`, ...) are proved for
every state machine, most of them as a part of the inductive invariant of their
component, so no run repeats them.

## Fairness

`stock_reversal`: `FairSpec` states weak fairness of the steps of a handler that has begun
(`Step(r)`): a process that runs continues, PostgreSQL grants a lock that is
free, and its detector aborts one request of a ring. No request has to arrive
and no fault has to happen. Weak fairness suffices because a step that waits
for a lock becomes enabled when the owner ends, and nobody takes the same row
twice for ever: each request asks for it once.

`backend`, delivery: fairness of the relay's timer (`workers/index.ts`
starts it every few seconds), of the consumer, of the broker, of the two
timers of a row and of a message in the retry queue, and of the reconnect
(`rabbitmq.config.ts:71`). The last one says that the broker is back within
five seconds: a reconnect that fails is not tried again. `Settled` excludes
crashes, lost connections and failing receipt statements, because under each of
these the code does lose events.

`waiting`, print jobs: workers keep working and a request that has begun
ends; `ProcessingEnds` excludes the death of a worker, after which the job
stays PROCESSING. `waiting`, pool: the context is set, a transaction ends
(`statement_timeout` cuts it off after 30 s), a handler that waits for nothing
answers, the pool grants what it has, in the order of asking, and the watchdog,
a timer in the same process, bites in time. `AllServed` rests on the last of
these: without it two requests that each hold one of two connections wait for a
second for ever, which is what the mutant of the run does.

`till`: a replay that waits for nothing goes on, and a request comes to its end
within the client's 30 seconds, by an answer or by being given up. The network
need not come back; `Drained` speaks of the time after it has, and excludes a
replay that ended early, since nothing starts another one until the next
`online` event.

## What is proved

Eight modules hold proofs: `StockLedgerProofs` (StockLedger), `ApprovalsProofs`
(StockDocuments, Expenses, StoreRequests, KitchenOrders), `FinanceProofs`
(PayrollPeriods, CashShifts, Attendance with WorkCalculator, PayrollCalculator),
`SharedProofs` (DistributedLock, AuthCache, Sessions, SaleAccounts),
`WaitingProofs` (PrintJobs, ConnectionPool), `TillProofs` (QrPayments,
OfflineSales), `DeliveryProofs` (MessageDelivery), and `DataLemmas`, which they
share. They hold for every set of rows, requests, carts, instances, connections,
periods, users and so on, and every number of ticks and faults.

They assume the named assumptions of the modules, which TLC evaluates in every
run, and what a theorem names in its own ASSUME. Most say that carts are
non-empty sequences of positive quantities, that opening stock is a natural
number, and that a null is not a member of the set it stands outside of. What
sums are taken over is finite (`RowAssumption`, `RecordAssumption`: tables have
finitely many rows). `PolicyAssumption` and `RosterAssumption` are what
`validateWorkPolicy` and the editor of schedules let through,
`BoundsAssumption` that consecutive periods have increasing ends,
`WholeAssumption` that the unit of rates is positive.

Every inductive invariant was checked by TLC on the instance of its run before
it was proved (DocumentsInv and BalanceInv on 34 192 states, FormsInv on
4 174 288, KitchenInv on 304 622, PrintInv on 36 976, CountInv on 1 666 681,
SessionsInv on 900 683, QrInv and OfflineInv together on 940 170; AccountsInv on
204 019; RestoreInv, with the sums computed, on 169 140, and on 135 705 where
carts name a product twice; OnceInv and KeptInv on 322 031 for one event, and on
3 388 925 to depth 15 for two events, two faults and three instances; AttendanceInv on
214 604).

`DataLemmas`. The library states induction for an operator, which the provers
cannot instantiate; here it is stated for a *set* of what is known already
(`NumberInduction`: a set of naturals with 0 and with every successor has all;
`SetInduction` for finite sets). From these, that folding a finite set adds its
elements in any order (`SumIsAdded`), and what sums do when one term changes
(`SumChanges`), over parts and unions, when renamed (`SumRenamed`), exchanged
(`SumSwap`), telescoped (`SumOfSteps`) or bounded (`SumMonotone`, `CountGoesUp`).

Most of them say the same kind of thing: a handler has read something and will
write later what followed from it; here is what of its read is still so by then,
and why - because it holds a row, because nothing rewrites the row, because
what it read only grows, or because whoever came between is on record.

* `TypeCorrect` (StockLedger). `TypeOK` is not inductive: a request at line
  `i` reads `lines[i]`. `TypeInv` adds `Indexed`, that a request in a loop has a
  line to look at. One lemma per statement.
* `LocksAreReleased`. Inductive together with `TypeInv`: every action that ends
  a request goes through `FreeLocks`, and a request that has not arrived owns
  nothing.
* `ReversedOnce`. `OneReversal` speaks of committed records; the argument needs
  to know who holds the claim. `ClaimInv` says that a transaction record is
  owned exactly by the request that is reversing it and that it is still
  COMPLETED while owned; so a second claimant waits, and meets another status.
  The proof goes through every commit, failure and crash.
* `RestoredAreSold`. `RestoreInv`: what a sale has written is the running sums of
  its lines, one per row (`SoldAsBooked`), and a reversal of all its items goes
  through the same sums from the front (`InPartsOf`); a list that names each
  product once has booked for a row nothing or one entry (`BookedByEntry`), which
  a line of the sale covers (`CoveredBy`, the cap of the route, entry by entry).
  A reversal arrives only when its sale is done (`ClaimInv`), so nothing it
  compares with moves any more. The sums are a function that the invariant says
  exists and that one line extends (`SumsGoOn`), so no induction over the lines
  is needed.
* `NothingLost`. Assumes `LockedOnly`: the void and refund
  of the sales module are not offered. The assumption is needed, since their
  unlocked restore does lose updates (`stock_void_race`). `LedgerInv` is
  inductive: a changed row is owned by who changed it, and differs from the
  committed quantity by his movements (`Pending`); while he loops, the rows of
  his locked lines are his, and the quantity he is about to write from is the
  row's (`SeenIsCurrent`). A step of one request changes only rows that are free
  or its own (`OwnRowsOnly`), so `OneStep` reduces each action to what it does to
  the request that takes it.
* `NeverOversold`, `SaleTakesItsUnits`. Besides, `CartsDistinct`: no cart names a
  product twice. `StockInv` adds that what was locked covers what is still to be
  deducted (`Covered`); a second line for the same row would break it, and does
  in the code (see below).
* `TokenIsKey`, `OneRuns`, `ReleasesOwnLock`, `OneRunsAtAll` (SharedProofs).
  While no key expires under its owner, an instance that has a real token has
  its key (`HeldIsKey`, inductive); so two that run are one, unless one of them
  failed open, and none did if Redis answers.
* `SalaryPaidOnce`, `PaymentsMatchItems`, `ItemsKeepUp` (FinanceProofs), for any
  periods, employees, adjustments and pay. `LedgerInvariant` is inductive with
  `TypeOK`: one period at a time holds the dates (`OneHolding`; the overlap check
  runs under an advisory lock), and the items, payments, reversals and status of
  each period go together (`Fits`). A PAID item belongs to a period that holds
  the dates, so its payment is the only one that stands.
* `ImplementsSalary`: `Spec => SalaryPaid`, that is, PayrollPeriods implements
  SalaryLedger under the mapping `settled[e]` = some period has paid `e` and not
  taken it back. Paying maps to `Pay`, reversal to `TakeBack`, everything else to
  a stutter; `LedgerInvariant` says why nobody paid is paid again.
* `ChangesAreSeen` (SharedProofs). `CacheInv`: what a lookup has loaded is as
  new as every change answered before it came (`LoadedIsCurrent`), and an entry
  older than an answered change was put there by a lookup that overlapped it
  (`EntryIsExcused`).
* `PaymentsStand`, `FourEyesHold` (ApprovalsProofs). `ExpensesInv`: a call that
  is about to write has passed its checks, which later writes cannot unmake
  (`CallsAreChecked`: the maker never changes); a payment that nothing
  overlapped leaves no call that had read the expense before (`PaidIsClosed`).
* `ClosesCount`, `DaysAreSettledOnce`, `OneShiftIsOpen` (FinanceProofs).
  `ShiftsInv`: a sum has every row answered before its request came
  (`SumsAreComplete`) and none taken back by then (`SumsAreClean`); an answered
  close leaves the shift CLOSED (`ClosedForGood`), so no later sale or close
  finds it (`NothingAfterClose`); what a closed shift counts is what one of its
  closes saw (`ClosedHasClose`). `OneSettlement` and `OneOpenShift` come from the
  two unique indexes.
* `ContextsAreOwn` (WaitingProofs). `PoolInv`: while its watchdog has not
  bitten, a request holds its first connection and its context is set there
  (`FirstIsHeld`); inside a transaction it holds the second, another one
  (`SecondIsHeld`); a queue entry is a request that waits, once
  (`WaitersWait`), so a grant never replaces a connection in use.

* `AdjustmentsAreCounted` (FinanceProofs). `CountInv`: what an item was
  calculated from is approved and stays so (`FromIsApproved`); from the
  calculation on, what was approved in time is among it (`CountedIn`), because a
  review sends a calculated period back to OPEN, and an insertion that found the
  period submitted is marked late.
* `DocumentsMoveOnce` (ApprovalsProofs). `DocumentsInv`: a request that has
  claimed a document owns its row, so the document is still in a state that may
  be claimed (`InStep`); and a document that has moved its stock is in a state
  from which no request claims it again, unless it was set back
  (`MovedIsClosed`). Rejections write by id and are not excluded by the row:
  what they write is closed too.
* `ApprovalsProvision` (ApprovalsProofs). `FormsInv`: an approval at a statement
  has inserted all that stands before it (`Due`), and once it has moved the owner
  nothing takes away what makes the owner complete: a second approval moves him
  to another tenant only after that one is complete (`OwnersKept`).
* `TotalsAreItems`, `KitchenSeesOrders` (ApprovalsProofs). `KitchenInv`: what an
  addition has summed is the order's items and its own, but for those that have
  overtaken it (`SumIsCurrent`), so its commit leaves the total short of exactly
  these; until another call on the order overtakes it, the verdict of a change of
  status is the one its items give (`VerdictIsCurrent`); a new item belongs to one
  addition.
* `OnePairIsGood`, `LoginsEnd` (SharedProofs). `SessionsInv`: a pair is held by
  its key, by the refresh that is about to store it, or by one that has found
  its key; while a login has not forked, whatever is held of it is one pair
  (`OneIsHeld`). A key that is gone was taken by a refresh or a logout
  (`KeysAreTaken`), so after a logout nothing of the login is held unless the
  pair was being replaced (`LogoutTakesAll`).
* `PrintsOnce`, `QueuedJobsHaveMessages` (WaitingProofs). `PrintInv`: unless a
  retry put the job back, one worker at most is at the printer with it, the job
  is then PROCESSING, and the paper that is out is counted against the faults
  that leave it unsure (`PrintedAsCounted`).
* `SalesAreBookedOnce`, `SalesKeepTheirOrder` (TillProofs). `OfflineInv`: while a
  cart is not in `risky`, one sender at most has it in hand (`PostsHaveSenders`,
  `OnePostEach`, `OneRunEach`) and what nobody has sent is not booked
  (`UnsentIsUnbooked`); a run takes the queue from its front, and what stands
  before a sale of a run in the queue is booked or before it in the run
  (`LeftIsInOrder`).
* `QrSalesArePaid` (TillProofs). `QrInv`: there is money behind every PAID,
  wherever it stands - in the row, in a poll under way, on the page
  (`PaidHasMoney`); what the page has taken from an answer is of its own cart, or
  the cart is among those that got a stale answer (`PageIsOwn`).
* `CouponsAreCounted`, `BalancesAreKept`, `PointsComeBack` (SharedProofs).
  `AccountsInv`: a sale that is about to count a coupon owns its row and has
  seen it under its limit (`CouponHeld`); a payment owns the row of the balance it
  has read (`BalanceHeld`); a reversal owns the record it has claimed, still
  COMPLETED (`ClaimHeld`), and what it works out its points from is written once,
  at the commit of the sale (`DeltaOfReversal`, `RecordOf`). Every action is
  a step that leaves the rows of the others alone (`OneAccountStep`), from which
  `OthersSound` gives the rest.
* `PointsAreTheirHistory` (SharedProofs). `HistoryInv`: a request that has not
  come to its end has posted nothing, and one that commits adds the same amount
  to the points and to its history (`Posts`); so the points are the opening ones
  plus the sum over all requests (`SumChanges`). An adjustment floored at zero,
  whose history row has the amount before flooring, stays on record for good.
* `TransfersBalance` (ApprovalsProofs). `BalanceInv`: the lines of a transfer come
  in pairs, a source and a destination of the same quantity (`Paired`), from its
  insertion on; what a request has moved so far adds up to zero over the rows
  (`Transferring`), because a line is taken with its partner, and is posted as a
  whole. Who inserts the items of a document is alone with it (`Inserting`).
* `HandledAtMostOnce` (DeliveryProofs). `OnceInv` is an account: the ends of the
  handler so far, plus the consumers at it, plus one chance while the receipt is
  free or overdue, are at most one plus the faults that open a chance
  (`WithinRoom`). Publishing twice, redelivery and retries move nothing in it; a
  claim moves the chance into a hand, an answer the hand into the handled. A claim
  that throws ends in a release, which opens a chance and is counted among the
  faults (`OnceThrown`).
* `NoEventIsLost` (DeliveryProofs). `KeptInv`, while no process dies, no connection
  breaks and receipts can be written: what the outbox says is published waits
  where nothing drops it (`Waits`: a queue, a wire, a consumer that will not
  acknowledge before it is done), and a receipt that makes a consumer drop its
  copy is held by another that is still to handle or to give back (`Held`).
  `Wired` is what the broker owes for that: it keeps a message until its
  acknowledgement comes, and a consumer sends one.
* `EveryHourIsPaidOnce` (FinanceProofs). `AttendanceInv`: a record says of its
  times what its own formulas say (`Honest`), unless it is marked `mixed`. Then
  arithmetic: a period cuts a shift to a difference of two steps
  (`OverlapIsStep`), consecutive periods to differences that telescope
  (`PeriodsShareShift`), dates likewise (`DatesShareShift`); the sums over
  periods, dates and records are exchanged, and what is left is the length of
  each shift.
* `PayrollAgreesWithTheList` (FinanceProofs). From `Honest`: for a record alone on
  its dates, the entry of its first date has exactly its times, so the lateness
  and early leave of `calculatePayrollWork` are those of the attendance module
  (`VerdictsAgree`); the sum over dates is renamed to one over records
  (`SumByFirstDate`).
* `RaisesPayOff`, `DutiesFitThePay` (FinanceProofs), for every accepted tax profile
  and every input. An amount times a rate of at most one, rounded to whole
  cents, grows with the amount and by no more than it (`ChargeMonotone`: half a
  cent never tips two cents); the slices of the brackets add up to the income
  (`SlicesShareIncome`) and each grows with it, so the tax, rounded bracket by
  bracket, grows by no more than the income (`TaxMonotone`); and contribution
  and tax one after the other by no more than the raise (`PayMonotone`). No run
  states them, as they are about one function; they were tried on all small
  profiles and pays before they were proved.
* Types: `TypeCorrect` (twice), `LockTypes`, `CacheTypes`, `PoolTypes`,
  `PrintIsTyped`, `DeliveryIsTyped`, `AttendanceIsTyped` and the invariants
  above. The bounds on faults are sums: a fault strikes only while their sum is
  below `MaxFaults`, so none of them passes it (`CountGoesUp`).

Model-checked only: liveness (`Answered`, `Settled`, `ProcessingEnds`,
`AllServed`, `Drained`), since ENABLED and fairness are outside the prover. The
properties of the runs that expect a violation are false, and the runs show it.
No module has a RECURSIVE operator.

## Where code and documentation disagree

Shown by a run of their own (`PROJECT.json`, findings):

1. A void or refund restores stock from an unlocked read and loses a sale
   committed meanwhile (`stock_void_race`; `sales/.../routes.ts:1758`, 1930).
2. A short transfer is COMPLETED without having moved: a unit is sold after the
   transfer was requested, the approval claims it, finds the source short and
   returns, which commits the claim (`docs_short`; `inventory/.../routes.ts:1181`,
   also 1880).
3. An event whose consumer dies is acknowledged as its own duplicate
   (`deliver_crash`; `rabbitmq.config.ts:171`).
4. FAILED is rolled back by the throw behind it (`print_no_printer`;
   `print-job.service.ts:90`).
5. A shift that reaches past the end of a payroll period is charged with early
   leave from there on; as periods end at midnight UTC, a morning shift that
   begins before seven in Vientiane is enough (`attend_morning`;
   `payroll-work-calculator.ts:188`).

Met while reading; the models contain them where their component is modelled,
but no run singles them out:

* a sale checks and deducts its lines one by one (`sales:395`), so a cart that
  names a product twice can pass with less stock than it needs and the clamp at
  zero hides it; the till merges lines (`kpos/src/lib/stores/cart.svelte.ts:80-95`),
  the route does not ask for it, and the carts of the runs name a product once;
* a refund that names a product on two lines passes the cap of each
  (`sales:1884`; the comment at 1872 says the quantity is capped);
* rejecting a transfer updates by id alone and overwrites an approval
  (`inventory:1262`); deleting an order is two statements after an unlocked
  check (1009-1014);
* nights in a row share the date between them: one night's lateness is then
  charged twice and the next one's early leave is not seen
  (`payroll-work-calculator.ts:203-213`, 282-294); a correction that has read a
  record before it is voided brings it back (`staff/.../routes.ts:836-841`); a
  clock-out stores hours worked out from times that a correction has replaced
  (667-679);
* a transfer is inserted before its items, in two statements (1119-1134): an
  approval in between completes it with no lines, and nothing moves;
* an order may be set back and received again (946);
* `pointsRedeemed` is recorded although the programme is disabled, so a void
  gives back points never taken (`sales:412`, 1785); an adjustment's history
  row has the amount before flooring (`customers:623-633`); a void does not
  reverse `totalSpent` and `visitCount`;
* voids and refunds of the payments module give back neither stock nor points
  (`payments:385-408`, 450);
* a voided credit sale accepts payments (`sales:1542-1606`), and its duplicate
  check is outside the transaction (1557);
* a claim of an event that throws deletes whatever receipt the event has
  (`rabbitmq.config.ts:171`, 180; `message-receipt.service.ts:47-51`): a handler that
  is at work, or has ended, is followed by a second one;
* messages are published without confirms (`rabbitmq.config.ts:104`), and a
  reconnect registers no consumers (71);
* a job that dies in PROCESSING can be neither retried nor finished
  (`settings:1620`), and a retry overwrites a worker that has started (1642);
* two sales spend the same points, which are checked before the transaction
  that takes them (`sales:352`, 468), and the account goes below zero;
* the stock-in and stock-out routes read and write a row without a transaction
  (`inventory:1470`);
* two overlapping calls on an expense overwrite each other: an approval after a
  rejection, a rejection after a payment, two payments (`ledger-routes.ts:268`,
  281, 293);
* a closed shift misses what was in flight when it was summed (`sales:907-919`),
  takes cash movements after it is closed (943-959), and counts every COMPLETED
  sale as cash, whatever it was paid with (908); the record of a refund is COMPLETED
  and of no shift, and the settlement of the day adds it up with the sales
  (`payments:530-536`);
* an approval of a store request that fails half-way leaves a tenant behind and
  the request pending, so that a second approval makes another
  (`admin:477-576`); a request for a store by somebody who has one moves that
  user to the new tenant (561); a request that names a branch skips the new
  store's own (523);
* two additions to one order leave a total that misses items
  (`OrderService.ts:226`) until the next one; `PUT /orders/:id` hands its body to
  the update as it is (`restaurant/.../routes.ts:415`, `OrderService.ts:184`, 191), so
  a body with a total overwrites the sum until the next addition; the kitchen's page sends words that
  the service does not know
  (`kpos/src/routes/(app)/restaurant/kitchen/+page.svelte:377`); a cancelled item
  keeps its order from becoming READY (`OrderService.ts:257`);
* two refreshes that overlap fork a login (`auth.service.ts:331`); older access
  tokens of a login outlive its logout until they expire; nothing reads the rows
  of `sessions`;
* a lookup that overlaps a change of rights caches what they were until the
  entry expires;
* once the watchdog has bitten, the statements of its request may run under
  another request's context (`tenant-tx.middleware.ts:112-125`);
* a lock whose key expires between the read and the delete of its release
  removes the next owner's key (`distributed-lock.ts:40-41`; the comment at 5-7
  says the check prevents it).

## What is not modelled

* Within modelled components: the stock-in and stock-out routes and the
  STOCK_MOVEMENT worker (unlocked read and write, no transaction), members'
  points (same statements as customers'), discounts and tax, document numbers,
  the maker-checker policy of the stock documents, tenant scoping, and the
  `available` and `reserved` columns, which no guard of a modelled route reads;
  overtime requests and the editing of expenses; bands of the day, absences and
  changes of roster in WorkCalculator; tables, reservations and the
  guest's menu; SSO, two-factor login and the reset of passwords.
* Redis that is away: the code falls back to the memory of one process
  (`config/redis.config.ts:16-28`), in which every promise about sessions, locks
  and caches becomes one about that process alone.
* The answers of a client that does not come back: a handler runs to its end
  whether or not its client waits (OfflineSales excepted).
* Components marked `not_modelled` in `PROJECT.json`. By lines they are most of
  the repository: translations (`kpos/src/lib/i18n`), Svelte pages, and routes
  that read, write or list single rows. A transition system of them would say
  that a row has the value it was given; nothing in it could go wrong in an
  order that a test would not reach.

## Plan

In order of importance:

1. Abstract specifications: `StockBook` (a row changes by atomic entries),
   implemented by StockLedger's locked routes; `AtLeastOnce`, implemented by
   MessageDelivery under the faults it excludes, and used by PrintJobs.
2. The maker-checker policy in StockDocuments, with its relaxation for a tenant
   with one eligible user.
3. Tables and reservations beside KitchenOrders; guests who order from the
   menu.
4. Attendance composed with PayrollPeriods, so that what a payslip is based on
   changes between its calculation and its approval; overtime requests, bands and
   absences.
5. The fallback of Redis to memory in Sessions, AuthCache and DistributedLock.
6. Arithmetic: split payments and refund shares against a reference definition.
