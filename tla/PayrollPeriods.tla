--------------------------- MODULE PayrollPeriods ---------------------------
(***************************************************************************)
(* Payroll of one branch (finance/presentation/ledger-routes.ts): periods  *)
(* that cover the same dates, the adjustments of their employees, a change *)
(* of compensation inside the dates, the payments and their reversal.      *)
(*                                                                         *)
(* A handler that opens scopedPayrollTransaction takes the row of its      *)
(* period FOR UPDATE first and holds it to the end, so the whole           *)
(* transaction is one step here.  Two handlers do not, and take two steps: *)
(* POST adjustments reads the period outside any transaction before it     *)
(* inserts, and POST compensation looks for a submitted period, which      *)
(* locks none when there is none, before it inserts.                       *)
(*                                                                         *)
(* Grants, reasons and payment methods are left out; attendance, policies  *)
(* and sales reach a payslip only as the base of NetPay.                   *)
(***************************************************************************)
EXTENDS Integers

CONSTANTS
    Period,         \* payroll_periods rows; their dates overlap
    Employee,       \* employees with compensation in the branch
    Adjustment,     \* payroll_adjustments rows
    For,            \* the employee of each adjustment
    User,           \* makers and checkers
    SuperAdmin,     \* users that may check their own work
    Nobody,         \* null
    NetPay(_, _)    \* net pay of an employee with a set of adjustments

ASSUME NobodyAssumption == Nobody \notin User \cup Period
ASSUME ForAssumption    == For \in [Adjustment -> Employee]
ASSUME NetPayAssumption ==
    \A e \in Employee : \A A \in SUBSET Adjustment : NetPay(e, A) \in Nat

VARIABLES
    period,     \* payroll_periods
    item,       \* payroll_items of each period and employee
    adjustment, \* payroll_adjustments
    adding,     \* POST adjustments between its check and its insert: the period
    changed,    \* employees with a compensation version inside the dates
    changing,   \* POST compensation between its check and its commit
    paid,       \* positive payroll_payments of each period and employee
    returned    \* negative payroll_payments of each period and employee

vars == <<period, item, adjustment, adding, changed, changing, paid, returned>>

Open      == {"OPEN", "CALCULATING"}
Submitted == {"PENDING_APPROVAL", "APPROVED", "PARTIALLY_PAID", "PAID", "CLOSED"}

NoPeriod == [status |-> "none", createdBy |-> Nobody, submittedBy |-> Nobody]
NoItem   == [status |-> "none", from |-> {}, net |-> 0]
NoAdjustment == [status |-> "none", period |-> Nobody, createdBy |-> Nobody, late |-> FALSE]

PeriodStatus == {"none", "REVERSED"} \cup Open \cup Submitted
ItemStatus   == {"none", "DRAFT", "PENDING_APPROVAL", "APPROVED", "PAID", "REVERSED"}

PeriodRow == [status : PeriodStatus,
              createdBy : User \cup {Nobody}, submittedBy : User \cup {Nobody}]
ItemRow == [status : ItemStatus, from : SUBSET Adjustment, net : Nat]
AdjustmentRow ==
    [status : {"none", "PENDING_APPROVAL", "APPROVED", "REJECTED", "CANCELLED"},
     period : Period \cup {Nobody}, createdBy : User \cup {Nobody}, late : BOOLEAN]

TypeOK ==
    /\ period \in [Period -> PeriodRow]
    /\ item \in [Period -> [Employee -> ItemRow]]
    /\ adjustment \in [Adjustment -> AdjustmentRow]
    /\ adding \in [Adjustment -> Period \cup {Nobody}]
    /\ changed \in SUBSET Employee
    /\ changing \in SUBSET Employee
    /\ paid \in [Period -> [Employee -> Nat]]
    /\ returned \in [Period -> [Employee -> Nat]]

Init ==
    /\ period = [p \in Period |-> NoPeriod]
    /\ item = [p \in Period |-> [e \in Employee |-> NoItem]]
    /\ adjustment = [a \in Adjustment |-> NoAdjustment]
    /\ adding = [a \in Adjustment |-> Nobody]
    /\ changed = {}
    /\ changing = {}
    /\ paid = [p \in Period |-> [e \in Employee |-> 0]]
    /\ returned = [p \in Period |-> [e \in Employee |-> 0]]

-----------------------------------------------------------------------------
Status(p) == period[p].status

Own(u, maker) == u = maker /\ u \notin SuperAdmin

WithStatus(p, from) == {e \in Employee : item[p][e].status \in from}

\* UPDATE payroll_items SET status = to WHERE status = from.
ItemsTo(p, from, to) ==
    item' = [item EXCEPT ![p] = [e \in Employee |->
        IF item[p][e].status = from THEN [item[p][e] EXCEPT !.status = to] ELSE item[p][e]]]

\* A period whose dates are taken.
Holding == {p \in Period : Status(p) \notin {"none", "REVERSED"}}

\* Mutant: a period that was paid no longer counts as an overlap.
CreateOverClosed(p, u) ==
    /\ Status(p) = "none"
    /\ \A q \in Holding : Status(q) = "CLOSED"
    /\ period' = [period EXCEPT ![p] = [status |-> "OPEN", createdBy |-> u,
                                        submittedBy |-> Nobody]]
    /\ UNCHANGED <<item, adjustment, adding, changed, changing, paid, returned>>

\* POST /payroll/periods: one at a time for a branch (advisory lock).
Create(p, u) ==
    /\ Status(p) = "none"
    /\ Holding = {}
    /\ period' = [period EXCEPT ![p] = [status |-> "OPEN", createdBy |-> u,
                                        submittedBy |-> Nobody]]
    /\ UNCHANGED <<item, adjustment, adding, changed, changing, paid, returned>>

-----------------------------------------------------------------------------
(***************************************************************************)
(* Adjustments and compensation.                                           *)
(***************************************************************************)
\* POST /payroll/periods/:id/adjustments, up to the insert.
AdjustCheck(a, p) ==
    /\ adjustment[a].status = "none" /\ adding[a] = Nobody
    /\ Status(p) \in Open
    /\ adding' = [adding EXCEPT ![a] = p]
    /\ UNCHANGED <<period, item, adjustment, changed, changing, paid, returned>>

\* The insert does not look at the period again.
AdjustInsert(a, u) ==
    /\ adding[a] # Nobody
    /\ adjustment' = [adjustment EXCEPT ![a] =
            [status |-> "PENDING_APPROVAL", period |-> adding[a], createdBy |-> u,
             late |-> Status(adding[a]) \notin Open]]
    /\ adding' = [adding EXCEPT ![a] = Nobody]
    /\ UNCHANGED <<period, item, changed, changing, paid, returned>>

\* Mutant: a review leaves the calculation alone.
KeepItems(p) == UNCHANGED <<period, item>>

\* A reviewed adjustment sends a calculated period back to OPEN, without items.
Uncalculate(p) ==
    IF Status(p) = "CALCULATING"
    THEN /\ period' = [period EXCEPT ![p].status = "OPEN"]
         /\ item' = [item EXCEPT ![p] = [e \in Employee |-> NoItem]]
    ELSE UNCHANGED <<period, item>>

Pending(a) == adjustment[a].status = "PENDING_APPROVAL"

Review(a, status) ==
    /\ Pending(a)
    /\ adjustment' = [adjustment EXCEPT ![a].status = status]
    /\ Uncalculate(adjustment[a].period)
    /\ UNCHANGED <<adding, changed, changing, paid, returned>>

\* Neither approval nor rejection looks at the status of the period.
AdjustApprove(a, u) == ~Own(u, adjustment[a].createdBy) /\ Review(a, "APPROVED")
AdjustReject(a, u)  == ~Own(u, adjustment[a].createdBy) /\ Review(a, "REJECTED")

AdjustCancel(a, u) ==
    /\ Pending(a)
    /\ u = adjustment[a].createdBy \/ u \in SuperAdmin
    /\ Status(adjustment[a].period) \in Open
    /\ Review(a, "CANCELLED")

\* POST /payroll/compensation, effective inside the dates, up to the insert.
CompensationCheck(e) ==
    /\ e \notin changed \cup changing
    /\ \A p \in Period : Status(p) \notin Submitted
    /\ changing' = changing \cup {e}
    /\ UNCHANGED <<period, item, adjustment, adding, changed, paid, returned>>

CompensationCommit(e) ==
    /\ e \in changing
    /\ changing' = changing \ {e}
    /\ changed' = changed \cup {e}
    /\ UNCHANGED <<period, item, adjustment, adding, paid, returned>>

-----------------------------------------------------------------------------
(***************************************************************************)
(* The life of a period.                                                   *)
(***************************************************************************)
Approved(p, e) == {a \in Adjustment : /\ adjustment[a].period = p /\ For[a] = e
                                      /\ adjustment[a].status = "APPROVED"}

\* POST /payroll/periods/:id/calculate: one compensation version per employee.
Calculate(p) ==
    /\ Status(p) \in Open
    /\ changed = {}
    /\ item' = [item EXCEPT ![p] = [e \in Employee |->
            [status |-> "DRAFT", from |-> Approved(p, e), net |-> NetPay(e, Approved(p, e))]]]
    /\ period' = [period EXCEPT ![p].status = "CALCULATING"]
    /\ UNCHANGED <<adjustment, adding, changed, changing, paid, returned>>

Submit(p, u) ==
    /\ Status(p) = "CALCULATING"
    /\ \A a \in Adjustment : adjustment[a].period = p => ~Pending(a)
    /\ period' = [period EXCEPT ![p].status = "PENDING_APPROVAL", ![p].submittedBy = u]
    /\ ItemsTo(p, "DRAFT", "PENDING_APPROVAL")
    /\ UNCHANGED <<adjustment, adding, changed, changing, paid, returned>>

Checks(p, u) == ~Own(u, period[p].createdBy) /\ ~Own(u, period[p].submittedBy)

Approve(p, u) ==
    /\ Checks(p, u)
    /\ Status(p) = "PENDING_APPROVAL"
    /\ period' = [period EXCEPT ![p].status = "APPROVED"]
    /\ ItemsTo(p, "PENDING_APPROVAL", "APPROVED")
    /\ UNCHANGED <<adjustment, adding, changed, changing, paid, returned>>

Reject(p, u) ==
    /\ Checks(p, u)
    /\ Status(p) = "PENDING_APPROVAL"
    /\ period' = [period EXCEPT ![p].status = "CALCULATING", ![p].submittedBy = Nobody]
    /\ ItemsTo(p, "PENDING_APPROVAL", "DRAFT")
    /\ UNCHANGED <<adjustment, adding, changed, changing, paid, returned>>

-----------------------------------------------------------------------------
(***************************************************************************)
(* Payment.  A payment row has the key of its item, and its amount may not *)
(* be zero: an employee with nothing to pay makes the transaction fail.    *)
(***************************************************************************)
Payable(p) == WithStatus(p, {"APPROVED"})

\* Mutant: the item stays APPROVED, as if only its payment were written.
MarkNone(p, E) == UNCHANGED item

MarkPaid(p, E) ==
    item' = [item EXCEPT ![p] = [e \in Employee |->
        IF e \in E THEN [item[p][e] EXCEPT !.status = "PAID"] ELSE item[p][e]]]

\* payPayrollItems for the items of E.
PayItems(p, E) ==
    /\ Status(p) \in {"APPROVED", "PARTIALLY_PAID"}
    /\ E # {}
    /\ \A e \in E : item[p][e].net # 0
    /\ LET new == {e \in E : paid[p][e] = 0}
       IN  /\ paid' = [paid EXCEPT ![p] = [e \in Employee |->
                    IF e \in new THEN item[p][e].net ELSE paid[p][e]]]
           /\ MarkPaid(p, new)
           /\ period' = [period EXCEPT ![p].status =
                    IF WithStatus(p, {"APPROVED"}) \ new = {} THEN "PAID" ELSE "PARTIALLY_PAID"]
    /\ UNCHANGED <<adjustment, adding, changed, changing, returned>>

PayAll(p)    == PayItems(p, Payable(p))
PayOne(p, e) == PayItems(p, Payable(p) \cap {e})

Close(p) ==
    /\ Status(p) = "PAID"
    /\ period' = [period EXCEPT ![p].status = "CLOSED"]
    /\ UNCHANGED <<item, adjustment, adding, changed, changing, paid, returned>>

Reversible(p) == Status(p) \in {"PAID", "CLOSED"}

\* Mutant: the payment of one employee is taken back and not the others'.
RefundOne(p) ==
    LET one == CHOOSE e \in Employee : paid[p][e] > 0
    IN  [e \in Employee |-> IF e = one THEN paid[p][e] ELSE 0]

Refund(p) == paid[p]

Reverse(p) ==
    /\ Reversible(p)
    /\ \E e \in Employee : paid[p][e] > 0
    /\ \A e \in Employee : paid[p][e] > 0 => returned[p][e] = 0
    /\ returned' = [returned EXCEPT ![p] = Refund(p)]
    /\ ItemsTo(p, "PAID", "REVERSED")
    /\ period' = [period EXCEPT ![p].status = "REVERSED"]
    /\ UNCHANGED <<adjustment, adding, changed, changing, paid>>

-----------------------------------------------------------------------------
PeriodStep(p) ==
    \/ \E u \in User : Create(p, u) \/ Submit(p, u) \/ Approve(p, u) \/ Reject(p, u)
    \/ Calculate(p)
    \/ PayAll(p)
    \/ \E e \in Employee : PayOne(p, e)
    \/ Close(p)
    \/ Reverse(p)

AdjustmentStep(a) ==
    \/ \E p \in Period : AdjustCheck(a, p)
    \/ \E u \in User : \/ AdjustInsert(a, u) \/ AdjustApprove(a, u)
                       \/ AdjustReject(a, u) \/ AdjustCancel(a, u)

CompensationStep(e) == CompensationCheck(e) \/ CompensationCommit(e)

Next ==
    \/ \E p \in Period : PeriodStep(p)
    \/ \E a \in Adjustment : AdjustmentStep(a)
    \/ \E e \in Employee : CompensationStep(e)

Spec == Init /\ [][Next]_vars

-----------------------------------------------------------------------------
(***************************************************************************)
(* Properties.                                                             *)
(***************************************************************************)
\* Of all the periods that cover the same dates, at most one has paid an
\* employee without having taken the payment back.
PaidOnce ==
    \A e \in Employee : \A p, q \in Period :
        /\ paid[p][e] > returned[p][e]
        /\ paid[q][e] > returned[q][e]
        => p = q

\* The payments of an item amount to its net pay while it is PAID and to
\* nothing before it is and after its period was reversed: no payment
\* without its item, no item paid without its payment.
BooksAgree ==
    \A p \in Period : \A e \in Employee :
        paid[p][e] - returned[p][e] =
            IF item[p][e].status = "PAID" THEN item[p][e].net ELSE 0

\* The status of a period says how far its items are: a PAID period has no
\* item left to pay, and a period that can be calculated again no item that
\* was approved.
ItemsFollowPeriod ==
    \A p \in Period :
        /\ \A e \in Employee :
            LET all(statuses) == item[p][e].status \in statuses
            IN  /\ Status(p) \in {"none", "OPEN"} => all({"none"})
                /\ Status(p) = "CALCULATING" => all({"DRAFT"})
                /\ Status(p) \in {"PENDING_APPROVAL", "APPROVED", "REVERSED"} => all({Status(p)})
                /\ Status(p) = "PARTIALLY_PAID" => all({"APPROVED", "PAID"})
                /\ Status(p) \in {"PAID", "CLOSED"} => all({"PAID"})
        /\ Status(p) = "PARTIALLY_PAID" =>
            WithStatus(p, {"APPROVED"}) # {} /\ WithStatus(p, {"PAID"}) # {}

\* What a submitted period pays includes every adjustment approved for it
\* and no other, and none is still waiting, except for an adjustment
\* inserted after the submission.
AdjustmentsCounted ==
    \A p \in Period : Status(p) \in Submitted =>
        \A a \in Adjustment : adjustment[a].period = p /\ ~adjustment[a].late =>
            /\ ~Pending(a)
            /\ a \in item[p][For[a]].from <=> adjustment[a].status = "APPROVED"

\* The salary of the dates, as an employee sees it.
Salary == INSTANCE SalaryLedger WITH
    settled <- [e \in Employee |-> \E p \in Period : paid[p][e] > returned[p][e]]

\* Paying a period and reversing it implements the salary ledger.
SalaryPaid == Salary!Spec
=============================================================================
