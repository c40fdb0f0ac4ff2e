------------------------------ MODULE Expenses ------------------------------
(***************************************************************************)
(* Expenses: made, submitted, approved or rejected by a checker, paid      *)
(* (finance/presentation/ledger-routes.ts, /expenses).                     *)
(*                                                                         *)
(* Each route reads the expense, checks its status and updates it by id    *)
(* alone: two steps without a transaction, and nothing in the update asks  *)
(* whether the status is still the one that was read.                      *)
(*                                                                         *)
(* call[c].after, the calls that had been answered when c came, is no      *)
(* state of the program: it is what a caller can know of the order of      *)
(* things.                                                                 *)
(***************************************************************************)
CONSTANTS
    Call,       \* requests
    Expense,
    Person,
    Checker,    \* those whom canCheck lets review
    Super,      \* super admins
    Nil

ASSUME PersonAssumption == Checker \subseteq Person /\ Super \subseteq Person
ASSUME NilAssumption == Nil \notin Expense \cup Person

VARIABLES
    call,       \* handlers between their read and their update
    expense     \* expenses

expenseVars == <<call, expense>>

\* The status that each route writes.
Outcome == [submit |-> "PENDING_APPROVAL", approve |-> "APPROVED",
            reject |-> "REJECTED", pay |-> "PAID"]

Routes == DOMAIN Outcome

Status == {"none", "DRAFT", "PENDING_APPROVAL", "APPROVED", "REJECTED", "PAID"}

NoCall == [pc |-> "idle", route |-> "none", expense |-> Nil, user |-> Nil, after |-> {}]

NoExpense == [status |-> "none", createdBy |-> Nil, approvedBy |-> Nil]

ExpensesTypeOK ==
    /\ call \in [Call -> [pc : {"idle", "write", "ok", "failed"}, route : Routes \cup {"none"},
                          expense : Expense \cup {Nil}, user : Person \cup {Nil},
                          after : SUBSET Call]]
    /\ expense \in [Expense -> [status : Status, createdBy : Person \cup {Nil},
                                approvedBy : Person \cup {Nil}]]

\* Submitted on an earlier day.
Waiting(u) == [status |-> "PENDING_APPROVAL", createdBy |-> u, approvedBy |-> Nil]

ExpensesInit ==
    /\ call = [c \in Call |-> NoCall]
    /\ expense \in [Expense -> {NoExpense} \cup {Waiting(u) : u \in Person}]

CreateExpense(e, u) ==
    /\ expense[e].status = "none"
    /\ expense' = [expense EXCEPT ![e].status = "DRAFT", ![e].createdBy = u]
    /\ UNCHANGED call

(***************************************************************************)
(* Up to the update.                                                       *)
(***************************************************************************)
Replied == {c \in Call : call[c].pc \in {"ok", "failed"}}

Read(c, route, e, u) ==
    /\ call[c].pc = "idle"
    /\ call' = [call EXCEPT ![c] = [pc |-> "write", route |-> route, expense |-> e,
                                    user |-> u, after |-> Replied]]
    /\ UNCHANGED expense

SubmitExpense(c, e, u) ==
    expense[e].status \in {"DRAFT", "REJECTED"} /\ Read(c, "submit", e, u)

ApproveExpense(c, e, u) ==
    /\ u \in Checker /\ (expense[e].createdBy = u => u \in Super)
    /\ expense[e].status = "PENDING_APPROVAL"
    /\ Read(c, "approve", e, u)

RejectExpense(c, e, u) ==
    u \in Checker /\ expense[e].status = "PENDING_APPROVAL" /\ Read(c, "reject", e, u)

\* Mutant: what is paid may be paid.
UnpaidOrPaid(e) == expense[e].status \in {"APPROVED", "PAID"}

Payable(e) == expense[e].status = "APPROVED"

PayExpense(c, e, u) == Payable(e) /\ Read(c, "pay", e, u)

(***************************************************************************)
(* The update by id, and the answer.                                       *)
(***************************************************************************)
UpdateExpense(c) ==
    LET e == call[c].expense
    IN  /\ call[c].pc = "write"
        /\ expense' = [expense EXCEPT
            ![e].status = Outcome[call[c].route],
            ![e].approvedBy = IF call[c].route = "approve" THEN call[c].user ELSE @]
        /\ call' = [call EXCEPT ![c].pc = "ok"]

FailCall(c) ==
    /\ call[c].pc = "write"
    /\ call' = [call EXCEPT ![c].pc = "failed"]
    /\ UNCHANGED expense

ExpensesNext ==
    \/ \E e \in Expense, u \in Person :
        \/ CreateExpense(e, u)
        \/ \E c \in Call : SubmitExpense(c, e, u) \/ ApproveExpense(c, e, u)
                           \/ RejectExpense(c, e, u) \/ PayExpense(c, e, u)
    \/ \E c \in Call : UpdateExpense(c) \/ FailCall(c)

ExpensesSpec == ExpensesInit /\ [][ExpensesNext]_expenseVars
-----------------------------------------------------------------------------
(***************************************************************************)
(* Properties.                                                             *)
(***************************************************************************)
Served(c, e) == call[c].pc = "ok" /\ call[c].expense = e

Paid(c, e) == Served(c, e) /\ call[c].route = "pay"

\* Neither of two calls had its answer when the other came.
Overlap(b, c) == b # c /\ b \notin call[c].after /\ c \notin call[b].after

\* An expense whose payment was answered stays PAID, and is not paid again
\* later, unless another call on it, under way or answered, overlapped that
\* payment: only what read the expense before it was paid can undo it.
PaidForGood ==
    \A e \in Expense, p \in Call : Paid(p, e) =>
        \/ expense[e].status = "PAID" /\ \A q \in Call : Paid(q, e) => p \notin call[q].after
        \/ \E c \in Call : call[c].expense = e /\ call[c].pc # "failed" /\ Overlap(c, p)

\* An approved or paid expense was approved by a checker, and not by who
\* made it unless that is a super admin, whatever overlapped.
FourEyes ==
    \A e \in Expense : expense[e].status \in {"APPROVED", "PAID"} =>
        /\ expense[e].approvedBy \in Checker
        /\ expense[e].approvedBy = expense[e].createdBy => expense[e].createdBy \in Super
=============================================================================
