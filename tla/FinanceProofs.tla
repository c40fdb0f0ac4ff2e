--------------------------- MODULE FinanceProofs ----------------------------
(***************************************************************************)
(* Proofs about PayrollPeriods, CashShifts, Attendance and                 *)
(* PayrollCalculator, for any periods, employees, adjustments, users,      *)
(* requests, records, tax profiles and amounts.                            *)
(***************************************************************************)
EXTENDS PayrollPeriods, CashShifts, Attendance, PayrollCalculator, DataLemmas

(***************************************************************************)
(* Proofs about PayrollPeriods, for any periods, employees, adjustments,   *)
(* users and any pay: type correctness, the agreement of items, payments   *)
(* and period status, and the salary paid once.                            *)
(*                                                                         *)
(* The inductive invariant adds to those that only one period at a time    *)
(* holds the dates, and that a payment is taken back exactly when its      *)
(* period is REVERSED.  A PAID item belongs to a period that holds the     *)
(* dates, and its payment is the only one that stands.                     *)
(***************************************************************************)
OneHolding == \A p, q \in Holding : p = q

\* Payments, items and status of period p fit together.
Fits(p) ==
    /\ \A e \in Employee :
        LET s == item[p][e].status
        IN  /\ returned[p][e] = IF Status(p) = "REVERSED" THEN paid[p][e] ELSE 0
            /\ paid[p][e] - returned[p][e] = IF s = "PAID" THEN item[p][e].net ELSE 0
            /\ Status(p) \in {"none", "OPEN"} => s = "none"
            /\ Status(p) = "CALCULATING" => s = "DRAFT"
            /\ Status(p) \in {"PENDING_APPROVAL", "APPROVED", "REVERSED"} => s = Status(p)
            /\ Status(p) = "PARTIALLY_PAID" => s \in {"APPROVED", "PAID"}
            /\ Status(p) \in {"PAID", "CLOSED"} => s = "PAID"
    /\ Status(p) = "PARTIALLY_PAID" =>
        /\ \E e \in Employee : item[p][e].status = "APPROVED"
        /\ \E e \in Employee : item[p][e].status = "PAID"

LedgerInvariant == OneHolding /\ \A p \in Period : Fits(p)

(***************************************************************************)
(* Rows keep their shape when a status is set.                             *)
(***************************************************************************)
LEMMA PeriodRows ==
    ASSUME NEW r \in PeriodRow, NEW s \in PeriodStatus, NEW u \in User \cup {Nobody}
    PROVE  /\ [r EXCEPT !.status = s] \in PeriodRow
           /\ [r EXCEPT !.status = s, !.submittedBy = u] \in PeriodRow
           /\ [status |-> s, createdBy |-> u, submittedBy |-> Nobody] \in PeriodRow
  BY DEF PeriodRow

LEMMA ItemRows ==
    ASSUME NEW r \in ItemRow, NEW s \in ItemStatus
    PROVE  /\ [r EXCEPT !.status = s] \in ItemRow
           /\ [r EXCEPT !.status = s].net = r.net
           /\ [r EXCEPT !.status = s].status = s
  BY DEF ItemRow

(***************************************************************************)
(* ItemsTo changes statuses of one period and nothing else.                *)
(***************************************************************************)
LEMMA ItemsToType ==
    ASSUME item \in [Period -> [Employee -> ItemRow]], NEW p \in Period, NEW from,
           NEW to \in ItemStatus, ItemsTo(p, from, to)
    PROVE  /\ item' \in [Period -> [Employee -> ItemRow]]
           /\ \A q \in Period : q # p => item'[q] = item[q]
           /\ \A e \in Employee :
                /\ item'[p][e].net = item[p][e].net
                /\ item'[p][e].status = IF item[p][e].status = from THEN to
                                        ELSE item[p][e].status
<1> DEFINE Set(e) == IF item[p][e].status = from
                     THEN [item[p][e] EXCEPT !.status = to] ELSE item[p][e]
           row == [e \in Employee |-> Set(e)]
<1>1. item' = [item EXCEPT ![p] = row]
  BY DEF ItemsTo
<1>2. \A e \in Employee :
        /\ Set(e) \in ItemRow
        /\ Set(e).net = item[p][e].net
        /\ Set(e).status = IF item[p][e].status = from THEN to ELSE item[p][e].status
  BY ItemRows
<1>3. row \in [Employee -> ItemRow]
  BY <1>2
<1>4. item' \in [Period -> [Employee -> ItemRow]] /\ item'[p] = row
  <2> HIDE DEF row
  <2> QED  BY <1>1, <1>3
<1>5. \A q \in Period : q # p => item'[q] = item[q]
  BY <1>1
<1> QED
  BY <1>2, <1>4, <1>5

(***************************************************************************)
(* The types of the state are kept by every step.                          *)
(***************************************************************************)
LEMMA TypeStep == TypeOK /\ [Next]_vars => TypeOK'
<1> SUFFICES ASSUME TypeOK, [Next]_vars PROVE TypeOK'
  OBVIOUS
<1> USE DEF TypeOK
<1>s. {"OPEN", "CALCULATING", "PENDING_APPROVAL", "APPROVED", "PARTIALLY_PAID", "PAID",
        "CLOSED", "REVERSED"} \subseteq PeriodStatus
      /\ {"DRAFT", "PENDING_APPROVAL", "APPROVED", "PAID", "REVERSED"} \subseteq ItemStatus
  BY DEF PeriodStatus, ItemStatus, Open, Submitted
<1>1. ASSUME NEW p \in Period, NEW u \in User, Create(p, u) PROVE TypeOK'
  BY <1>1, <1>s, PeriodRows DEF Create
<1>2. ASSUME NEW p \in Period, NEW u \in User, Submit(p, u) PROVE TypeOK'
  BY <1>2, <1>s, PeriodRows, ItemsToType DEF Submit
<1>3. ASSUME NEW p \in Period, NEW u \in User, Approve(p, u) PROVE TypeOK'
  BY <1>3, <1>s, PeriodRows, ItemsToType DEF Approve
<1>4. ASSUME NEW p \in Period, NEW u \in User, Reject(p, u) PROVE TypeOK'
  BY <1>4, <1>s, PeriodRows, ItemsToType DEF Reject
<1>5. ASSUME NEW p \in Period, Calculate(p) PROVE TypeOK'
  <2> DEFINE row == [e \in Employee |-> [status |-> "DRAFT", from |-> Approved(p, e),
                                         net |-> NetPay(e, Approved(p, e))]]
  <2>1. \A e \in Employee : Approved(p, e) \in SUBSET Adjustment /\ NetPay(e, Approved(p, e)) \in Nat
    BY NetPayAssumption DEF Approved
  <2>2. row \in [Employee -> ItemRow]
    BY <2>1, <1>s DEF ItemRow
  <2>3. item' = [item EXCEPT ![p] = row]
    BY <1>5 DEF Calculate
  <2>4. item' \in [Period -> [Employee -> ItemRow]]
    <3> HIDE DEF row
    <3> QED  BY <2>2, <2>3
  <2> QED
    BY <1>5, <2>4, <1>s, PeriodRows DEF Calculate
<1>6. ASSUME NEW p \in Period, NEW E \in SUBSET Employee, PayItems(p, E) PROVE TypeOK'
  <2> DEFINE new == {e \in E : paid[p][e] = 0}
             pays == [e \in Employee |-> IF e \in new THEN item[p][e].net ELSE paid[p][e]]
             row == [e \in Employee |->
                IF e \in new THEN [item[p][e] EXCEPT !.status = "PAID"] ELSE item[p][e]]
             next == IF WithStatus(p, {"APPROVED"}) \ new = {} THEN "PAID" ELSE "PARTIALLY_PAID"
  <2>1. \A e \in Employee : item[p][e] \in ItemRow /\ item[p][e].net \in Nat
    BY DEF ItemRow
  <2>2. row \in [Employee -> ItemRow] /\ pays \in [Employee -> Nat]
    BY <2>1, <1>s, ItemRows
  <2>3. /\ item' = [item EXCEPT ![p] = row] /\ paid' = [paid EXCEPT ![p] = pays]
        /\ period' = [period EXCEPT ![p].status = next]
    BY <1>6 DEF PayItems, MarkPaid
  <2>4. next \in PeriodStatus
    BY <1>s
  <2>5. UNCHANGED <<adjustment, adding, changed, changing, returned>>
    BY <1>6 DEF PayItems, MarkPaid
  <2> HIDE DEF row, pays, next
  <2> QED
    BY <2>2, <2>3, <2>4, <2>5, PeriodRows
<1>7. ASSUME NEW p \in Period, Close(p) PROVE TypeOK'
  BY <1>7, <1>s, PeriodRows DEF Close
<1>8. ASSUME NEW p \in Period, Reverse(p) PROVE TypeOK'
  BY <1>8, <1>s, PeriodRows, ItemsToType DEF Reverse, Refund
<1>9. ASSUME NEW a \in Adjustment, AdjustmentStep(a) PROVE TypeOK'
  <2>1. ASSUME NEW p \in Period, AdjustCheck(a, p) PROVE TypeOK'
    BY <2>1 DEF AdjustCheck
  <2>2. ASSUME NEW u \in User, AdjustInsert(a, u) PROVE TypeOK'
    <3>1. [status |-> "PENDING_APPROVAL", period |-> adding[a], createdBy |-> u,
           late |-> Status(adding[a]) \notin Open] \in AdjustmentRow
      BY DEF AdjustmentRow
    <3> QED
      BY <2>2, <3>1 DEF AdjustInsert
  <2>3. ASSUME NEW s \in {"APPROVED", "REJECTED", "CANCELLED"}, Review(a, s) PROVE TypeOK'
    <3>1. [adjustment[a] EXCEPT !.status = s] \in AdjustmentRow
      BY DEF AdjustmentRow
    <3>2. adjustment' \in [Adjustment -> AdjustmentRow]
      BY <2>3, <3>1 DEF Review
    <3>3. adjustment[a].period \in Period \cup {Nobody}
      BY DEF AdjustmentRow
    <3>4. [e \in Employee |-> NoItem] \in [Employee -> ItemRow]
      BY DEF NoItem, ItemRow, ItemStatus
    <3>5. period' \in [Period -> PeriodRow] /\ item' \in [Period -> [Employee -> ItemRow]]
      <4> DEFINE q == adjustment[a].period
                 none == [e \in Employee |-> NoItem]
      <4>1. CASE Status(q) = "CALCULATING"
        <5>1. period' = [period EXCEPT ![q].status = "OPEN"] /\ item' = [item EXCEPT ![q] = none]
          BY <2>3, <4>1 DEF Review, Uncalculate
        <5>2. q \in Period => [period[q] EXCEPT !.status = "OPEN"] \in PeriodRow
          BY <1>s, PeriodRows
        <5> HIDE DEF none, q
        <5> QED
          BY <3>4, <5>1, <5>2 DEF none
      <4>2. CASE Status(q) # "CALCULATING"
        BY <2>3, <4>2 DEF Review, Uncalculate
      <4> QED
        BY <4>1, <4>2
    <3> QED
      BY <2>3, <3>2, <3>5 DEF Review
  <2> QED
    BY <1>9, <2>1, <2>2, <2>3
    DEF AdjustmentStep, AdjustApprove, AdjustReject, AdjustCancel
<1>10. ASSUME NEW e \in Employee, CompensationStep(e) PROVE TypeOK'
  BY <1>10 DEF CompensationStep, CompensationCheck, CompensationCommit
<1>11. CASE UNCHANGED vars
  BY <1>11 DEF vars
<1> QED
  <2>1. ASSUME NEW p \in Period, PeriodStep(p) PROVE TypeOK'
    <3>1. Payable(p) \in SUBSET Employee
      BY DEF Payable, WithStatus
    <3> QED
      BY <2>1, <3>1, <1>1, <1>2, <1>3, <1>4, <1>5, <1>6, <1>7, <1>8
      DEF PeriodStep, PayAll, PayOne
  <2> QED
    BY <2>1, <1>9, <1>10, <1>11 DEF Next

THEOREM TypeCorrect == Spec => []TypeOK
<1>1. Init => TypeOK
  BY DEF Init, TypeOK, NoPeriod, NoItem, NoAdjustment, PeriodRow, PeriodStatus,
         ItemRow, ItemStatus, AdjustmentRow
<1> QED
  BY <1>1, TypeStep, PTL DEF Spec

(***************************************************************************)
(* A step that leaves a period alone keeps what is said of it, and one     *)
(* that works on the period holding the dates keeps it the only one.       *)
(***************************************************************************)
LEMMA OtherPeriods ==
    ASSUME NEW q \in Period, Fits(q), period'[q] = period[q], item'[q] = item[q],
           paid'[q] = paid[q], returned'[q] = returned[q]
    PROVE  Fits(q)'
  BY DEF Fits, Status

LEMMA StillOneHolding ==
    ASSUME OneHolding, NEW p \in Holding, \A q \in Period : q # p => period'[q] = period[q]
    PROVE  OneHolding'
  BY DEF OneHolding, Holding, Status

(***************************************************************************)
(* Every step keeps the ledger invariant.                                  *)
(***************************************************************************)
LEMMA LedgerStep == TypeOK /\ LedgerInvariant /\ [Next]_vars => LedgerInvariant'
<1> SUFFICES ASSUME TypeOK, LedgerInvariant, [Next]_vars PROVE LedgerInvariant'
  OBVIOUS
<1>t. /\ period \in [Period -> PeriodRow] /\ item \in [Period -> [Employee -> ItemRow]]
      /\ paid \in [Period -> [Employee -> Nat]] /\ returned \in [Period -> [Employee -> Nat]]
      /\ \A q \in Period : Status(q) \in PeriodStatus
      /\ \A q \in Period : \A e \in Employee : item[q][e].net \in Nat
      /\ \A q \in Period : \A e \in Employee : paid[q][e] \in Nat /\ returned[q][e] \in Nat
  BY DEF TypeOK, PeriodRow, ItemRow, Status
<1>s. {"DRAFT", "PENDING_APPROVAL", "APPROVED", "PAID", "REVERSED"} \subseteq ItemStatus
  BY DEF ItemStatus
\* A step on one period: what is left to show of it.
<1>p. ASSUME NEW p \in Period, Fits(p)', p \in Holding \/ Holding = {},
             \A q \in Period \ {p} :
                /\ period'[q] = period[q] /\ item'[q] = item[q]
                /\ paid'[q] = paid[q] /\ returned'[q] = returned[q]
      PROVE  LedgerInvariant'
  <2>1. \A q \in Period : Fits(q)'
    BY <1>p, OtherPeriods DEF LedgerInvariant
  <2>2. OneHolding'
    <3>1. CASE p \in Holding
      BY <3>1, <1>p, StillOneHolding DEF LedgerInvariant
    <3>2. CASE Holding = {}
      BY <3>2, <1>p DEF OneHolding, Holding, Status
    <3> QED
      BY <1>p, <3>1, <3>2
  <2> QED
    BY <2>1, <2>2 DEF LedgerInvariant
<1>1. ASSUME NEW p \in Period, NEW u \in User, Create(p, u) PROVE LedgerInvariant'
  <2>1. period' = [period EXCEPT ![p] = [status |-> "OPEN", createdBy |-> u, submittedBy |-> Nobody]]
        /\ item' = item /\ paid' = paid /\ returned' = returned /\ Holding = {}
        /\ Status(p) = "none" /\ Fits(p)
    BY <1>1 DEF Create, LedgerInvariant
  <2>2. Status(p)' = "OPEN"
    BY <1>t, <2>1 DEF Status
  <2>3. Fits(p)'
    BY <2>1, <2>2 DEF Fits
  <2> QED
    BY <1>t, <2>1, <2>3, <1>p
<1>2. ASSUME NEW p \in Period, NEW from \in ItemStatus, NEW to \in ItemStatus,
             ItemsTo(p, from, to), Status(p) = from \/ (Status(p) = "CALCULATING" /\ from = "DRAFT"),
             Status(p)' = to \/ (Status(p)' = "CALCULATING" /\ to = "DRAFT"),
             from \in {"DRAFT", "PENDING_APPROVAL"},
             to \in {"DRAFT", "PENDING_APPROVAL", "APPROVED"},
             \A q \in Period : q # p => period'[q] = period[q],
             paid' = paid, returned' = returned
      PROVE  LedgerInvariant'
  <2>1. Fits(p)
    BY DEF LedgerInvariant
  <2>2. /\ \A q \in Period : q # p => item'[q] = item[q]
        /\ \A e \in Employee :
            /\ item'[p][e].net = item[p][e].net
            /\ item'[p][e].status = IF item[p][e].status = from THEN to ELSE item[p][e].status
    BY <1>2, <1>t, ItemsToType
  <2>3. \A e \in Employee : item[p][e].status = from /\ paid[p][e] = 0 /\ returned[p][e] = 0
    <3>1. Status(p) # "DRAFT"
      BY <1>t DEF PeriodStatus, Open, Submitted
    <3> QED
      BY <1>2, <1>t, <2>1, <3>1 DEF Fits
  <2>4. \A e \in Employee : item'[p][e].status = to
    BY <2>2, <2>3
  <2>5. Fits(p)'
    BY <1>2, <2>3, <2>4 DEF Fits
  <2>6. p \in Holding
    BY <1>2 DEF Holding
  <2> QED
    BY <1>2, <2>2, <2>5, <2>6, <1>p
<1>3. ASSUME NEW p \in Period, NEW u \in User, Submit(p, u) PROVE LedgerInvariant'
  <2>1. Status(p) = "CALCULATING" /\ Status(p)' = "PENDING_APPROVAL"
    BY <1>3, <1>t DEF Submit, Status
  <2> QED
    BY <1>3, <1>t, <1>s, <2>1, <1>2 DEF Submit
<1>4. ASSUME NEW p \in Period, NEW u \in User, Approve(p, u) PROVE LedgerInvariant'
  <2>1. Status(p) = "PENDING_APPROVAL" /\ Status(p)' = "APPROVED"
    BY <1>4, <1>t DEF Approve, Status
  <2> QED
    BY <1>4, <1>t, <1>s, <2>1, <1>2 DEF Approve
<1>5. ASSUME NEW p \in Period, NEW u \in User, Reject(p, u) PROVE LedgerInvariant'
  <2>1. Status(p) = "PENDING_APPROVAL" /\ Status(p)' = "CALCULATING"
    BY <1>5, <1>t DEF Reject, Status
  <2> QED
    BY <1>5, <1>t, <1>s, <2>1, <1>2 DEF Reject
<1>6. ASSUME NEW p \in Period, Calculate(p) PROVE LedgerInvariant'
  <2>1. Fits(p) /\ Status(p) \in {"OPEN", "CALCULATING"}
    BY <1>6 DEF LedgerInvariant, Calculate, Open
  <2>2. \A e \in Employee : item'[p][e].status = "DRAFT"
    BY <1>6, <1>t DEF Calculate
  <2>3. Status(p)' = "CALCULATING" /\ paid' = paid /\ returned' = returned
    BY <1>6, <1>t DEF Calculate, Status
  <2>4. \A e \in Employee : paid[p][e] = 0 /\ returned[p][e] = 0
    BY <2>1, <1>t, SMTT(30) DEF Fits
  <2>5. Fits(p)'
    BY <2>2, <2>3, <2>4 DEF Fits
  <2>6. \A q \in Period \ {p} : period'[q] = period[q] /\ item'[q] = item[q]
    BY <1>6, <1>t DEF Calculate
  <2>7. p \in Holding
    BY <2>1 DEF Holding
  <2> QED
    BY <2>3, <2>5, <2>6, <2>7, <1>p
<1>7. ASSUME NEW p \in Period, NEW E \in SUBSET Payable(p), PayItems(p, E) PROVE LedgerInvariant'
  <2>1. /\ Fits(p) /\ Status(p) \in {"APPROVED", "PARTIALLY_PAID"} /\ E # {}
        /\ returned' = returned
    BY <1>7 DEF LedgerInvariant, PayItems
  <2>2. \A e \in E : e \in Employee /\ item[p][e].status = "APPROVED" /\ paid[p][e] = 0
    BY <2>1, <1>t DEF Payable, WithStatus, Fits
  <2>3. {e \in E : paid[p][e] = 0} = E
    BY <2>2
  <2> DEFINE row == [e \in Employee |->
                IF e \in E THEN [item[p][e] EXCEPT !.status = "PAID"] ELSE item[p][e]]
             pays == [e \in Employee |-> IF e \in E THEN item[p][e].net ELSE paid[p][e]]
             next == IF WithStatus(p, {"APPROVED"}) \ E = {} THEN "PAID" ELSE "PARTIALLY_PAID"
  <2>4. /\ item' = [item EXCEPT ![p] = row] /\ paid' = [paid EXCEPT ![p] = pays]
        /\ period' = [period EXCEPT ![p].status = next]
    BY <1>7, <2>3 DEF PayItems, MarkPaid
  <2>5. item'[p] = row /\ paid'[p] = pays /\ Status(p)' = next
    <3> HIDE DEF row, pays, next
    <3> QED  BY <2>4, <1>t DEF Status
  <2>6. \A q \in Period \ {p} : period'[q] = period[q] /\ item'[q] = item[q] /\ paid'[q] = paid[q]
    <3> HIDE DEF row, pays, next
    <3> QED  BY <2>4, <1>t
  <2>7. \A e \in Employee :
            /\ e \in E => item'[p][e].status = "PAID" /\ item'[p][e].net = item[p][e].net
                          /\ paid'[p][e] = item[p][e].net
            /\ e \notin E => item'[p][e] = item[p][e] /\ paid'[p][e] = paid[p][e]
    BY <1>t, <1>s, <2>5, ItemRows
  <2>8. \A e \in Employee : returned[p][e] = 0 /\ item[p][e].status \in {"APPROVED", "PAID"}
    BY <2>1, <1>t DEF Fits
  <2>9. CASE next = "PAID"
    <3>1. \A e \in Employee : item'[p][e].status = "PAID"
      BY <2>7, <2>8, <2>9 DEF WithStatus
    <3> HIDE DEF row, pays, next
    <3> QED
      <4>1. Fits(p)'
        BY <2>1, <2>5, <2>7, <2>8, <2>9, <3>1, <1>t DEF Fits
      <4> QED
        BY <2>1, <2>6, <4>1, <1>p DEF Holding
  <2>10. CASE next = "PARTIALLY_PAID"
    <3>1. PICK e \in WithStatus(p, {"APPROVED"}) : e \notin E
      BY <2>10
    <3>2. e \in Employee /\ item'[p][e].status = "APPROVED"
      BY <3>1, <2>7 DEF WithStatus
    <3>3. PICK f \in E : f \in Employee /\ item'[p][f].status = "PAID"
      BY <2>1, <2>2, <2>7
    <3> HIDE DEF row, pays, next
    <3> QED
      <4>1. Fits(p)'
        BY <2>1, <2>2, <2>5, <2>7, <2>8, <2>10, <3>2, <3>3, <1>t, SMTT(30) DEF Fits
      <4> QED
        BY <2>1, <2>6, <4>1, <1>p DEF Holding
  <2> QED
    BY <2>9, <2>10
<1>8. ASSUME NEW p \in Period, Close(p) PROVE LedgerInvariant'
  <2>1. Fits(p) /\ Status(p) = "PAID" /\ Status(p)' = "CLOSED"
    BY <1>8, <1>t DEF LedgerInvariant, Close, Status
  <2>2. Fits(p)' /\ p \in Holding
    BY <1>8, <2>1 DEF Fits, Close, Holding
  <2> QED
    BY <1>8, <1>t, <2>2, <1>p DEF Close
<1>9. ASSUME NEW p \in Period, Reverse(p) PROVE LedgerInvariant'
  <2>1. Fits(p) /\ Status(p) \in {"PAID", "CLOSED"} /\ Status(p)' = "REVERSED"
    BY <1>9, <1>t DEF LedgerInvariant, Reverse, Refund, Reversible, Status
  <2>2. /\ \A q \in Period : q # p => item'[q] = item[q]
        /\ \A e \in Employee : item'[p][e].status = "REVERSED"
    BY <1>9, <1>t, <1>s, <2>1, ItemsToType DEF Reverse, Refund, Fits
  <2>3. returned'[p] = paid[p] /\ paid' = paid
    BY <1>9, <1>t DEF Reverse, Refund
  <2>4. Fits(p)' /\ p \in Holding
    BY <2>1, <2>2, <2>3, <1>t DEF Fits, Holding
  <2> QED
    BY <1>9, <1>t, <2>2, <2>4, <1>p DEF Reverse, Refund
<1>10. ASSUME NEW a \in Adjustment, NEW s, Review(a, s) PROVE LedgerInvariant'
  <2> PICK q : q = adjustment[a].period
    OBVIOUS
  <2>1. CASE Status(q) = "CALCULATING" /\ q \in Period
    <3>1. /\ period' = [period EXCEPT ![q].status = "OPEN"]
          /\ item' = [item EXCEPT ![q] = [e \in Employee |-> NoItem]]
          /\ paid' = paid /\ returned' = returned /\ Fits(q)
      BY <1>10, <2>1 DEF Review, Uncalculate, LedgerInvariant
    <3>2. Status(q)' = "OPEN" /\ \A e \in Employee : item'[q][e].status = "none"
      BY <1>t, <2>1, <3>1 DEF Status, NoItem
    <3>3. Fits(q)' /\ q \in Holding
      BY <2>1, <3>1, <3>2, <1>t DEF Fits, Holding
    <3>4. \A r \in Period \ {q} : period'[r] = period[r] /\ item'[r] = item[r]
      BY <3>1, <1>t
    <3> QED
      BY <2>1, <3>1, <3>3, <3>4, <1>p
  <2>2. CASE ~(Status(q) = "CALCULATING" /\ q \in Period)
    <3>1. period' = period /\ item' = item /\ paid' = paid /\ returned' = returned
      BY <1>10, <2>2, <1>t DEF Review, Uncalculate
    <3> QED
      BY <3>1, OtherPeriods DEF LedgerInvariant, OneHolding, Holding, Status
  <2> QED
    BY <2>1, <2>2
<1>11. CASE period' = period /\ item' = item /\ paid' = paid /\ returned' = returned
  BY <1>11, OtherPeriods DEF LedgerInvariant, OneHolding, Holding, Status
<1> QED
  <2>1. ASSUME NEW p \in Period, PeriodStep(p) PROVE LedgerInvariant'
    <3>1. \A e : Payable(p) \cap {e} \in SUBSET Payable(p)
      OBVIOUS
    <3> QED
      BY <2>1, <3>1, <1>1, <1>3, <1>4, <1>5, <1>6, <1>7, <1>8, <1>9
      DEF PeriodStep, PayAll, PayOne
  <2>2. ASSUME NEW a \in Adjustment, AdjustmentStep(a) PROVE LedgerInvariant'
    BY <2>2, <1>10, <1>11
    DEF AdjustmentStep, AdjustCheck, AdjustInsert, AdjustApprove, AdjustReject, AdjustCancel
  <2>3. ASSUME NEW e \in Employee, CompensationStep(e) PROVE LedgerInvariant'
    BY <2>3, <1>11 DEF CompensationStep, CompensationCheck, CompensationCommit
  <2>4. CASE UNCHANGED vars
    BY <2>4, <1>11 DEF vars
  <2> QED
    BY <2>1, <2>2, <2>3, <2>4 DEF Next

THEOREM LedgerInvariantHolds == Spec => [](TypeOK /\ LedgerInvariant)
<1>1. Init => TypeOK
  BY DEF Init, TypeOK, NoPeriod, NoItem, NoAdjustment, PeriodRow, PeriodStatus,
         ItemRow, ItemStatus, AdjustmentRow
<1>2. Init => LedgerInvariant
  BY DEF Init, LedgerInvariant, OneHolding, Holding, Fits, Status, NoPeriod, NoItem
<1> QED
  BY <1>1, <1>2, TypeStep, LedgerStep, PTL DEF Spec

(***************************************************************************)
(* A payment that stands belongs to a period that holds the dates.         *)
(***************************************************************************)
LEMMA StandsHolds ==
    ASSUME TypeOK, LedgerInvariant, NEW p \in Period, NEW e \in Employee,
           paid[p][e] > returned[p][e]
    PROVE  p \in Holding
<1>1. Fits(p) /\ paid[p][e] \in Nat /\ returned[p][e] \in Nat
  BY DEF LedgerInvariant, TypeOK
<1>2. item[p][e].status = "PAID"
  BY <1>1 DEF Fits
<1>3. Status(p) \notin {"none", "REVERSED"}
  BY <1>1, <1>2 DEF Fits
<1> QED
  BY <1>3 DEF Holding

(***************************************************************************)
(* PaidOnce: over all periods of the same dates, an employee has at most   *)
(* one payment that was not taken back (payPayrollItems and reverse).      *)
(***************************************************************************)
THEOREM SalaryPaidOnce == Spec => []PaidOnce
<1>1. TypeOK /\ LedgerInvariant => PaidOnce
  BY StandsHolds DEF PaidOnce, LedgerInvariant, OneHolding
<1> QED
  BY <1>1, LedgerInvariantHolds, PTL

(***************************************************************************)
(* BooksAgree: payments, reversals and items tell the same story.          *)
(***************************************************************************)
THEOREM PaymentsMatchItems == Spec => []BooksAgree
<1>1. LedgerInvariant => BooksAgree
  BY DEF LedgerInvariant, Fits, BooksAgree
<1> QED
  BY <1>1, LedgerInvariantHolds, PTL

(***************************************************************************)
(* ItemsFollowPeriod: the items keep up with the status of their period.   *)
(***************************************************************************)
THEOREM ItemsKeepUp == Spec => []ItemsFollowPeriod
<1>1. LedgerInvariant => ItemsFollowPeriod
  BY DEF LedgerInvariant, Fits, ItemsFollowPeriod, WithStatus
<1> QED
  BY <1>1, LedgerInvariantHolds, PTL

-----------------------------------------------------------------------------
(***************************************************************************)
(* Refinement: paying a period is Salary!Pay of its employees, reversing   *)
(* it is Salary!TakeBack, and every other step leaves the salary as it is. *)
(***************************************************************************)
\* Whose salary stands.
Settled == [e \in Employee |-> \E p \in Period : paid[p][e] > returned[p][e]]

LEMMA SalaryStep ==
    TypeOK /\ LedgerInvariant /\ [Next]_vars
        => [Salary!Next]_Settled
<1> SUFFICES ASSUME TypeOK, LedgerInvariant, [Next]_vars
             PROVE  [Salary!Next]_Settled
  OBVIOUS
<1>t. /\ paid \in [Period -> [Employee -> Nat]] /\ returned \in [Period -> [Employee -> Nat]]
      /\ item \in [Period -> [Employee -> ItemRow]]
      /\ \A q \in Period : \A e \in Employee : paid[q][e] \in Nat /\ returned[q][e] \in Nat
      /\ \A q \in Period : \A e \in Employee : item[q][e].net \in Nat
  BY DEF TypeOK, ItemRow
<1>1. CASE UNCHANGED <<paid, returned>>
  BY <1>1 DEF Settled
<1>2. ASSUME NEW p \in Period, NEW E \in SUBSET Payable(p), PayItems(p, E)
      PROVE  Salary!Next
  <2>1. /\ Fits(p) /\ p \in Holding /\ E # {} /\ returned' = returned
        /\ \A e \in E : item[p][e].net # 0
    BY <1>2 DEF LedgerInvariant, PayItems, Holding
  <2>2. \A e \in E : e \in Employee /\ paid[p][e] = 0 /\ returned[p][e] = 0 /\ item[p][e].net > 0
    BY <1>t, <2>1, SMTT(30) DEF Payable, WithStatus, Fits
  <2>3. {e \in E : paid[p][e] = 0} = E
    BY <2>2
  <2> DEFINE pays == [e \in Employee |-> IF e \in E THEN item[p][e].net ELSE paid[p][e]]
  <2>4. paid' = [paid EXCEPT ![p] = pays]
    BY <1>2, <2>3 DEF PayItems, MarkPaid
  <2>5. /\ \A e \in E : paid'[p][e] > 0 /\ returned'[p][e] = 0
        /\ \A q \in Period : \A e \in Employee :
            ~(q = p /\ e \in E) => paid'[q][e] = paid[q][e]
    <3>1. paid'[p] = pays /\ \A q \in Period : q # p => paid'[q] = paid[q]
      <4> HIDE DEF pays
      <4> QED  BY <1>t, <2>4
    <3> QED
      BY <1>t, <2>1, <2>2, <3>1
  <2>6. \A e \in Employee : Settled'[e] <=> e \in E \/ Settled[e]
    BY <2>1, <2>2, <2>5, <1>t DEF Settled
  <2>7. \A e \in E : ~Settled[e]
    <3> SUFFICES ASSUME NEW e \in E, NEW q \in Period, paid[q][e] > returned[q][e] PROVE FALSE
      BY <2>2 DEF Settled
    <3>1. q \in Holding /\ e \in Employee
      BY <2>2, StandsHolds
    <3>2. q = p
      BY <2>1, <3>1 DEF LedgerInvariant, OneHolding
    <3> QED
      BY <2>2, <3>2
  <2>8. E \in SUBSET Employee
    BY <2>2
  <2>9. Settled' = [e \in Employee |-> e \in E \/ Settled[e]]
    <3>1. Settled' = [e \in Employee |-> Settled'[e]]
      BY DEF Settled
    <3>2. \A e \in Employee : Settled'[e] \in BOOLEAN
      BY DEF Settled
    <3>3. \A e \in Employee : Settled'[e] = (e \in E \/ Settled[e])
      BY <2>6, <3>2
    <3> QED  BY <3>1, <3>3
  <2> QED
    BY <2>1, <2>7, <2>8, <2>9 DEF Salary!Next, Salary!Pay, Settled
<1>3. ASSUME NEW p \in Period, Reverse(p) PROVE Salary!Next
  <2>1. /\ Fits(p) /\ Status(p) \in {"PAID", "CLOSED"} /\ p \in Holding
        /\ paid' = paid /\ returned' = [returned EXCEPT ![p] = paid[p]]
    BY <1>3 DEF LedgerInvariant, Reverse, Refund, Reversible, Holding
  <2>2. PICK e \in Employee : paid[p][e] > 0
    BY <1>3 DEF Reverse, Refund
  <2>3. Settled[e]
    BY <1>t, <2>1, <2>2 DEF Fits, Settled
  <2>4. \A f \in Employee : ~Settled'[f]
    <3> SUFFICES ASSUME NEW f \in Employee, NEW q \in Period, paid'[q][f] > returned'[q][f]
                 PROVE  FALSE
      BY DEF Settled
    <3>1. q # p
      BY <1>t, <2>1
    <3>2. paid[q][f] > returned[q][f]
      BY <1>t, <2>1, <3>1
    <3>3. q \in Holding
      BY <3>2, StandsHolds
    <3> QED
      BY <2>1, <3>1, <3>3 DEF LedgerInvariant, OneHolding
  <2>5. Settled' = [f \in Employee |-> FALSE]
    <3>1. Settled' = [f \in Employee |-> Settled'[f]]
      BY DEF Settled
    <3> QED  BY <2>4, <3>1
  <2> QED
    BY <2>3, <2>5 DEF Salary!Next, Salary!TakeBack, Settled
<1> QED
  <2>1. ASSUME NEW p \in Period, PeriodStep(p)
        PROVE  Salary!Next \/ UNCHANGED <<paid, returned>>
    <3>1. \A e : Payable(p) \cap {e} \in SUBSET Payable(p)
      OBVIOUS
    <3> QED
      BY <2>1, <3>1, <1>2, <1>3
      DEF PeriodStep, PayAll, PayOne, Create, Submit, Approve, Reject, Calculate, Close
  <2>2. ASSUME NEW a \in Adjustment, AdjustmentStep(a) PROVE UNCHANGED <<paid, returned>>
    BY <2>2 DEF AdjustmentStep, AdjustCheck, AdjustInsert, AdjustApprove, AdjustReject,
                AdjustCancel, Review
  <2>3. ASSUME NEW e \in Employee, CompensationStep(e) PROVE UNCHANGED <<paid, returned>>
    BY <2>3 DEF CompensationStep, CompensationCheck, CompensationCommit
  <2>4. CASE UNCHANGED vars
    BY <2>4, <1>1 DEF vars
  <2> QED
    BY <2>1, <2>2, <2>3, <2>4, <1>1 DEF Next

(***************************************************************************)
(* SalaryPaid: the periods of a branch implement the salary ledger.        *)
(***************************************************************************)
THEOREM ImplementsSalary == Spec => SalaryPaid
<1>1. Init => Salary!Init
  BY DEF Init, Salary!Init
<1>2. TypeOK /\ LedgerInvariant /\ [Next]_vars
        => [Salary!Next]_([e \in Employee |-> \E p \in Period : paid[p][e] > returned[p][e]])
  BY SalaryStep DEF Settled
<1> QED
  BY <1>1, <1>2, LedgerInvariantHolds, PTL DEF Spec, SalaryPaid, Salary!Spec

-----------------------------------------------------------------------------
(***************************************************************************)
(* AdjustmentsCounted.  What an item was calculated from is approved, and  *)
(* stays so (FromIsApproved); from the calculation on, an approved         *)
(* adjustment of the period that was inserted in time is among it, since   *)
(* a review sends a calculated period back to OPEN (CountedIn).            *)
(***************************************************************************)
Calculated == {"CALCULATING"} \cup Submitted

AddingIsNew == \A a \in Adjustment : adding[a] # Nobody => adjustment[a].status = "none"

FromIsApproved ==
    \A p \in Period : \A e \in Employee : \A a \in item[p][e].from :
        adjustment[a].status = "APPROVED" /\ adjustment[a].period = p /\ For[a] = e

CountedIn(p) ==
    \A a \in Adjustment : adjustment[a].period = p /\ ~adjustment[a].late =>
        /\ Status(p) \in Submitted => ~Pending(a)
        /\ Status(p) \in Calculated /\ adjustment[a].status = "APPROVED" => a \in item[p][For[a]].from

CountInv == AddingIsNew /\ FromIsApproved /\ \A p \in Period : CountedIn(p)

\* Statuses of items change, what they were calculated from does not.
LEMMA FromStays ==
    ASSUME TypeOK, NEW p \in Period, NEW S, NEW to,
           item' = [item EXCEPT ![p] = [e \in Employee |->
              IF e \in S THEN [item[p][e] EXCEPT !.status = to] ELSE item[p][e]]]
    PROVE  \A q \in Period : \A e \in Employee : item'[q][e].from = item[q][e].from
<1> DEFINE row == [e \in Employee |->
              IF e \in S THEN [item[p][e] EXCEPT !.status = to] ELSE item[p][e]]
<1>1. item \in [Period -> [Employee -> ItemRow]]
  BY DEF TypeOK
<1>2. \A e \in Employee : row[e].from = item[p][e].from
  BY <1>1 DEF ItemRow
<1>3. item'[p] = row /\ \A q \in Period \ {p} : item'[q] = item[q]
  <2> HIDE DEF row
  <2> QED BY <1>1 DEF row
<1> QED BY <1>2, <1>3

LEMMA ItemsToKeepFrom ==
    ASSUME TypeOK, NEW p \in Period, NEW from, NEW to, ItemsTo(p, from, to)
    PROVE  \A q \in Period : \A e \in Employee : item'[q][e].from = item[q][e].from
<1>1. PICK S : S = {e \in Employee : item[p][e].status = from}
  OBVIOUS
<1>2. item' = [item EXCEPT ![p] = [e \in Employee |->
              IF e \in S THEN [item[p][e] EXCEPT !.status = to] ELSE item[p][e]]]
  BY <1>1 DEF ItemsTo
<1> QED BY <1>2, FromStays

\* A step of the life of a period that calculates nothing.
LEMMA LifeStep ==
    ASSUME TypeOK, CountInv, NEW p \in Period,
           \A q \in Period \ {p} : Status(q)' = Status(q),
           UNCHANGED <<adjustment, adding>>,
           \A q \in Period : \A e \in Employee : item'[q][e].from = item[q][e].from,
           Status(p)' \in Submitted =>
              \/ Status(p) \in Submitted
              \/ \A a \in Adjustment : adjustment[a].period = p => ~Pending(a),
           Status(p)' \in Calculated => Status(p) \in Calculated
    PROVE  CountInv'
<1>1. AddingIsNew' /\ FromIsApproved'
  BY DEF CountInv, AddingIsNew, FromIsApproved
<1>2. ASSUME NEW q \in Period PROVE CountedIn(q)'
  <2>1. /\ Status(q)' \in Calculated => Status(q) \in Calculated
        /\ Status(q)' \in Submitted => \/ Status(q) \in Submitted
                                       \/ \A a \in Adjustment : adjustment[a].period = q => ~Pending(a)
    OBVIOUS
  <2>2. \A a \in Adjustment : Pending(a)' = Pending(a)
    BY DEF Pending
  <2>3. CountedIn(q)
    BY DEF CountInv
  <2>4. ASSUME NEW a \in Adjustment, adjustment'[a].period = q, ~adjustment'[a].late
        PROVE  /\ Status(q)' \in Submitted => ~Pending(a)'
               /\ Status(q)' \in Calculated /\ adjustment'[a].status = "APPROVED"
                     => a \in item'[q][For[a]].from
    <3>1. For[a] \in Employee
      BY ForAssumption
    <3> QED BY <2>1, <2>2, <2>3, <2>4, <3>1 DEF CountedIn
  <2> QED BY <2>4 DEF CountedIn
<1> QED BY <1>1, <1>2 DEF CountInv

LEMMA CalculateCounts ==
    ASSUME TypeOK, CountInv, NEW p \in Period, Calculate(p)
    PROVE  CountInv'
<1>1. /\ Status(p) \in Open /\ UNCHANGED <<adjustment, adding>>
      /\ period \in [Period -> PeriodRow] /\ item \in [Period -> [Employee -> ItemRow]]
      /\ period' = [period EXCEPT ![p].status = "CALCULATING"]
  BY DEF Calculate, TypeOK
<1>2. /\ \A e \in Employee : item'[p][e].from = Approved(p, e)
      /\ \A q \in Period \ {p} : item'[q] = item[q]
  BY <1>1 DEF Calculate
<1>3. Status(p)' = "CALCULATING" /\ \A q \in Period \ {p} : Status(q)' = Status(q)
  BY <1>1 DEF Status, PeriodRow
<1>4. AddingIsNew'
  BY <1>1 DEF CountInv, AddingIsNew
<1>5. FromIsApproved'
  BY <1>1, <1>2 DEF CountInv, FromIsApproved, Approved
<1>6. ASSUME NEW q \in Period PROVE CountedIn(q)'
  <2>1. CASE q = p
    BY <1>1, <1>2, <1>3, <2>1, ForAssumption DEF CountedIn, Approved, Submitted
  <2>2. CASE q # p
    BY <1>1, <1>2, <1>3, <2>2 DEF CountInv, CountedIn, Pending
  <2> QED BY <2>1, <2>2
<1> QED BY <1>4, <1>5, <1>6 DEF CountInv

LEMMA PayKeepsFrom ==
    ASSUME TypeOK, NEW p \in Period, NEW E \in SUBSET Employee, PayItems(p, E)
    PROVE  /\ \A q \in Period : \A e \in Employee : item'[q][e].from = item[q][e].from
           /\ Status(p) \in Submitted /\ Status(p)' \in {"PAID", "PARTIALLY_PAID"}
           /\ \A q \in Period \ {p} : Status(q)' = Status(q)
           /\ UNCHANGED <<adjustment, adding>>
<1>1. PICK new : new = {e \in E : paid[p][e] = 0}
  OBVIOUS
<1>2. PICK next \in {"PAID", "PARTIALLY_PAID"} :
        next = IF WithStatus(p, {"APPROVED"}) \ new = {} THEN "PAID" ELSE "PARTIALLY_PAID"
  OBVIOUS
<1>3. /\ period' = [period EXCEPT ![p].status = next]
      /\ item' = [item EXCEPT ![p] = [e \in Employee |->
              IF e \in new THEN [item[p][e] EXCEPT !.status = "PAID"] ELSE item[p][e]]]
      /\ UNCHANGED <<adjustment, adding>> /\ Status(p) \in {"APPROVED", "PARTIALLY_PAID"}
  BY <1>1, <1>2 DEF PayItems, MarkPaid
<1>4. \A q \in Period : \A e \in Employee : item'[q][e].from = item[q][e].from
  BY <1>3, FromStays
<1>5. Status(p)' = next /\ \A q \in Period \ {p} : Status(q)' = Status(q)
  BY <1>3 DEF TypeOK, PeriodRow, Status
<1> QED BY <1>3, <1>4, <1>5 DEF Submitted

LEMMA PeriodCounts ==
    ASSUME TypeOK, CountInv, NEW p \in Period, PeriodStep(p)
    PROVE  CountInv'
<1>t. period \in [Period -> PeriodRow]
  BY DEF TypeOK
<1>1. ASSUME NEW u \in User, Create(p, u) PROVE CountInv'
  <2>1. /\ Status(p)' = "OPEN" /\ \A q \in Period \ {p} : Status(q)' = Status(q)
        /\ UNCHANGED <<item, adjustment, adding>>
    BY <1>1, <1>t DEF Create, Status
  <2> QED BY <2>1, LifeStep DEF Calculated, Submitted
<1>2. ASSUME NEW u \in User, Submit(p, u) PROVE CountInv'
  <2>1. /\ Status(p) = "CALCULATING" /\ Status(p)' = "PENDING_APPROVAL"
        /\ UNCHANGED <<adjustment, adding>> /\ \A q \in Period \ {p} : Status(q)' = Status(q)
        /\ \A a \in Adjustment : adjustment[a].period = p => ~Pending(a)
    BY <1>2, <1>t DEF Submit, Status
  <2>2. \A q \in Period : \A e \in Employee : item'[q][e].from = item[q][e].from
    BY <1>2, ItemsToKeepFrom DEF Submit
  <2> QED BY <2>1, <2>2, LifeStep DEF Calculated, Submitted
<1>3. ASSUME NEW u \in User, Approve(p, u) PROVE CountInv'
  <2>1. /\ Status(p) = "PENDING_APPROVAL" /\ Status(p)' = "APPROVED"
        /\ UNCHANGED <<adjustment, adding>> /\ \A q \in Period \ {p} : Status(q)' = Status(q)
    BY <1>3, <1>t DEF Approve, Status
  <2>2. \A q \in Period : \A e \in Employee : item'[q][e].from = item[q][e].from
    BY <1>3, ItemsToKeepFrom DEF Approve
  <2> QED BY <2>1, <2>2, LifeStep DEF Calculated, Submitted
<1>4. ASSUME NEW u \in User, Reject(p, u) PROVE CountInv'
  <2>1. /\ Status(p) = "PENDING_APPROVAL" /\ Status(p)' = "CALCULATING"
        /\ UNCHANGED <<adjustment, adding>> /\ \A q \in Period \ {p} : Status(q)' = Status(q)
    BY <1>4, <1>t DEF Reject, Status
  <2>2. \A q \in Period : \A e \in Employee : item'[q][e].from = item[q][e].from
    BY <1>4, ItemsToKeepFrom DEF Reject
  <2> QED BY <2>1, <2>2, LifeStep DEF Calculated, Submitted
<1>5. ASSUME NEW E \in SUBSET Employee, PayItems(p, E) PROVE CountInv'
  BY <1>5, PayKeepsFrom, LifeStep DEF Calculated
<1>6. CASE Close(p)
  <2>1. /\ Status(p) = "PAID" /\ Status(p)' = "CLOSED"
        /\ UNCHANGED <<item, adjustment, adding>> /\ \A q \in Period \ {p} : Status(q)' = Status(q)
    BY <1>6, <1>t DEF Close, Status
  <2> QED BY <2>1, LifeStep DEF Calculated, Submitted
<1>7. CASE Reverse(p)
  <2>1. /\ Status(p)' = "REVERSED"
        /\ UNCHANGED <<adjustment, adding>> /\ \A q \in Period \ {p} : Status(q)' = Status(q)
    BY <1>7, <1>t DEF Reverse, Status
  <2>2. \A q \in Period : \A e \in Employee : item'[q][e].from = item[q][e].from
    BY <1>7, ItemsToKeepFrom DEF Reverse
  <2> QED BY <2>1, <2>2, LifeStep DEF Calculated, Submitted
<1>8. \A e \in Employee : Payable(p) \in SUBSET Employee /\ Payable(p) \cap {e} \in SUBSET Employee
  BY DEF Payable, WithStatus
<1>9. Payable(p) \in SUBSET Employee
  BY DEF Payable, WithStatus
<1> QED BY <1>1, <1>2, <1>3, <1>4, <1>5, <1>6, <1>7, <1>8, <1>9, CalculateCounts
        DEF PeriodStep, PayAll, PayOne

LEMMA InsertCounts ==
    ASSUME TypeOK, CountInv, NEW a \in Adjustment, NEW u \in User, AdjustInsert(a, u)
    PROVE  CountInv'
<1> DEFINE row == [status |-> "PENDING_APPROVAL", period |-> adding[a], createdBy |-> u,
                   late |-> Status(adding[a]) \notin Open]
<1>1. /\ adding[a] \in Period /\ adjustment' = [adjustment EXCEPT ![a] = row]
      /\ adding' = [adding EXCEPT ![a] = Nobody] /\ UNCHANGED <<period, item>>
      /\ adding \in [Adjustment -> Period \cup {Nobody}]
      /\ adjustment \in [Adjustment -> AdjustmentRow]
  BY DEF AdjustInsert, TypeOK
<1>2. row.status = "PENDING_APPROVAL" /\ row.period = adding[a] /\ row.late = (Status(adding[a]) \notin Open)
  OBVIOUS
<1> HIDE DEF row
<1>3. adjustment'[a] = row /\ \A b \in Adjustment \ {a} : adjustment'[b] = adjustment[b]
  BY <1>1
<1>4. adjustment[a].status = "none"
  BY <1>1, NobodyAssumption DEF CountInv, AddingIsNew
<1>5. AddingIsNew'
  BY <1>1, <1>3 DEF CountInv, AddingIsNew
<1>6. FromIsApproved'
  BY <1>1, <1>3, <1>4 DEF CountInv, FromIsApproved, TypeOK, ItemRow
<1>7. ASSUME NEW p \in Period PROVE CountedIn(p)'
  <2>1. ASSUME NEW b \in Adjustment, adjustment'[b].period = p, ~adjustment'[b].late
        PROVE  /\ Status(p)' \in Submitted => ~Pending(b)'
               /\ Status(p)' \in Calculated /\ adjustment'[b].status = "APPROVED"
                     => b \in item'[p][For[b]].from
    <3>1. Status(p)' = Status(p)
      BY <1>1 DEF Status
    <3>2. CASE b = a
      <4>1. Status(p) \in Open
        BY <1>2, <1>3, <2>1, <3>2
      <4>2. Status(p) \notin Submitted
        BY <4>1 DEF Open, Submitted
      <4> QED BY <1>2, <1>3, <3>1, <3>2, <4>2
    <3>3. CASE b # a
      BY <1>1, <1>3, <2>1, <3>1, <3>3 DEF CountInv, CountedIn, Pending
    <3> QED BY <3>2, <3>3
  <2> QED BY <2>1 DEF CountedIn
<1> QED BY <1>5, <1>6, <1>7 DEF CountInv

LEMMA ReviewCounts ==
    ASSUME TypeOK, CountInv, NEW a \in Adjustment,
           NEW s \in {"APPROVED", "REJECTED", "CANCELLED"}, Review(a, s)
    PROVE  CountInv'
<1>1. /\ Pending(a) /\ adjustment' = [adjustment EXCEPT ![a].status = s]
      /\ UNCHANGED adding /\ Uncalculate(adjustment[a].period)
      /\ period \in [Period -> PeriodRow] /\ item \in [Period -> [Employee -> ItemRow]]
      /\ adjustment \in [Adjustment -> AdjustmentRow]
  BY DEF Review, TypeOK
<1>2. /\ adjustment'[a].status = s /\ adjustment'[a].period = adjustment[a].period
      /\ adjustment'[a].late = adjustment[a].late
      /\ \A b \in Adjustment \ {a} : adjustment'[b] = adjustment[b]
  BY <1>1 DEF AdjustmentRow
<1>3. PICK q : q = adjustment[a].period
  OBVIOUS
<1>4. /\ \A p \in Period \ {q} : item'[p] = item[p] /\ Status(p)' = Status(p)
      /\ q \in Period =>
            \/ Status(q)' = "OPEN" /\ \A e \in Employee : item'[q][e].from = {}
            \/ Status(q) # "CALCULATING" /\ Status(q)' = Status(q) /\ item'[q] = item[q]
  <2>1. CASE Status(q) = "CALCULATING"
    <3>1. /\ period' = [period EXCEPT ![q].status = "OPEN"]
          /\ item' = [item EXCEPT ![q] = [e \in Employee |-> NoItem]]
      BY <1>1, <1>3, <2>1 DEF Uncalculate
    <3>2. NoItem.from = {}
      BY DEF NoItem
    <3> QED BY <1>1, <3>1, <3>2 DEF Status, PeriodRow
  <2>2. CASE Status(q) # "CALCULATING"
    <3>1. UNCHANGED <<period, item>>
      BY <1>1, <1>3, <2>2 DEF Uncalculate
    <3> QED BY <2>2, <3>1 DEF Status
  <2> QED BY <2>1, <2>2
<1>5. AddingIsNew'
  BY <1>1, <1>2 DEF CountInv, AddingIsNew, Pending
<1>6. FromIsApproved'
  <2>1. ASSUME NEW p \in Period, NEW e \in Employee, NEW b \in item'[p][e].from
        PROVE  adjustment'[b].status = "APPROVED" /\ adjustment'[b].period = p /\ For[b] = e
    <3>1. b \in item[p][e].from
      BY <1>4, <2>1
    <3>2. adjustment[b].status = "APPROVED" /\ adjustment[b].period = p /\ For[b] = e
      BY <3>1 DEF CountInv, FromIsApproved
    <3>3. b \in Adjustment \ {a}
      BY <1>1, <3>1, <3>2 DEF Pending, ItemRow
    <3> QED BY <1>2, <3>2, <3>3
  <2> QED BY <2>1 DEF FromIsApproved
<1>7. ASSUME NEW p \in Period PROVE CountedIn(p)'
  <2>1. ASSUME NEW b \in Adjustment, adjustment'[b].period = p, ~adjustment'[b].late
        PROVE  /\ Status(p)' \in Submitted => ~Pending(b)'
               /\ Status(p)' \in Calculated /\ adjustment'[b].status = "APPROVED"
                     => b \in item'[p][For[b]].from
    <3>1. CASE Status(p)' = "OPEN"
      BY <3>1 DEF Calculated, Submitted
    <3>2. CASE Status(p)' = Status(p) /\ item'[p] = item[p] /\ (p = q => Status(q) # "CALCULATING")
      <4>1. CASE b = a
        <5>1. p = q /\ ~adjustment[a].late /\ Pending(a)
          BY <1>1, <1>2, <1>3, <2>1, <4>1
        <5>2. Status(p) \notin Submitted
          BY <1>3, <2>1, <5>1 DEF CountInv, CountedIn
        <5> QED BY <3>2, <5>1, <5>2 DEF Calculated
      <4>2. CASE b # a
        BY <1>2, <2>1, <3>2, <4>2 DEF CountInv, CountedIn, Pending
      <4> QED BY <4>1, <4>2
    <3> QED BY <1>4, <3>1, <3>2
  <2> QED BY <2>1 DEF CountedIn
<1> QED BY <1>5, <1>6, <1>7 DEF CountInv

LEMMA CountStep == TypeOK /\ CountInv /\ [Next]_vars => CountInv'
<1> SUFFICES ASSUME TypeOK, CountInv, [Next]_vars PROVE CountInv'
  OBVIOUS
<1>1. CASE UNCHANGED <<period, item, adjustment>> /\ \A a \in Adjustment :
             adding'[a] = adding[a] \/ adjustment[a].status = "none"
  BY <1>1 DEF CountInv, AddingIsNew, FromIsApproved, CountedIn, Status, Pending
<1>2. ASSUME NEW a \in Adjustment, NEW p \in Period, AdjustCheck(a, p) PROVE CountInv'
  BY <1>1, <1>2 DEF AdjustCheck, TypeOK
<1>3. ASSUME NEW e \in Employee, CompensationStep(e) PROVE CountInv'
  BY <1>1, <1>3 DEF CompensationStep, CompensationCheck, CompensationCommit
<1>4. CASE UNCHANGED vars
  BY <1>1, <1>4 DEF vars
<1>5. ASSUME NEW a \in Adjustment, AdjustmentStep(a) PROVE CountInv'
  BY <1>2, <1>5, InsertCounts, ReviewCounts
     DEF AdjustmentStep, AdjustApprove, AdjustReject, AdjustCancel
<1> QED BY <1>3, <1>4, <1>5, PeriodCounts DEF Next

(***************************************************************************)
(* What payslips are calculated from, whatever is added, reviewed and      *)
(* calculated in which order.                                              *)
(***************************************************************************)
THEOREM CountInvariantHolds == Spec => []CountInv
<1>1. Init => CountInv
  BY NobodyAssumption
     DEF Init, CountInv, AddingIsNew, FromIsApproved, CountedIn, NoItem, NoAdjustment, Status,
         NoPeriod, Pending, Calculated, Submitted
<1> QED
  BY <1>1, CountStep, TypeCorrect, PTL DEF Spec

(***************************************************************************)
(* AdjustmentsCounted: a submitted period pays every adjustment that was   *)
(* inserted in time and approved, and no other, and none is still waiting. *)
(***************************************************************************)
THEOREM AdjustmentsAreCounted == Spec => []AdjustmentsCounted
<1>1. CountInv => AdjustmentsCounted
  <2> SUFFICES ASSUME CountInv, NEW p \in Period, Status(p) \in Submitted, NEW a \in Adjustment,
                      adjustment[a].period = p, ~adjustment[a].late
               PROVE  /\ ~Pending(a)
                      /\ a \in item[p][For[a]].from <=> adjustment[a].status = "APPROVED"
    BY DEF AdjustmentsCounted
  <2>1. For[a] \in Employee
    BY ForAssumption
  <2> QED BY <2>1 DEF CountInv, CountedIn, FromIsApproved, Calculated
<1> QED
  BY <1>1, CountInvariantHolds, PTL

-----------------------------------------------------------------------------
(***************************************************************************)
(* Proofs about CashShifts, for any number of requests and of users.       *)
(*                                                                         *)
(* CloseCounts and SettledOnce compare a sum that was written with what    *)
(* had been answered when its request was sent.  What carries them from    *)
(* the sum to the write is that a transaction answered before cannot come  *)
(* to stand later: it stood when the sum was taken, or it never stands     *)
(* again (SumsAreComplete).  That nothing is sold into or closes a shift   *)
(* whose close was answered follows from the shift staying CLOSED          *)
(* (ClosedForGood, NothingAfterClose).                                     *)
(***************************************************************************)
\* A row was written by the request that it is named by, answered since.
RowsAreAnswered ==
    \A r \in Request :
        /\ txn[r].status # "none" => req[r].pc = "ok"
        /\ shift[r].status # "none" => Done(r, "open")
        /\ cash[r] # None => Done(r, "move")
        /\ day[r].settled => Done(r, "settle") /\ day[r].counted = req[r].seen
        /\ txn[r].shift # None =>
              txn[r].status # "none" /\ req[r].kind = "sale" /\ req[r].shift = txn[r].shift

RequestsAreAsSent ==
    \A r \in Request :
        /\ req[r].pc \in Waiting => req[r].kind = req[r].pc
        /\ req[r].pc \in {"idle", "failed"} => req[r].kind = "none" /\ req[r].after = {}
        /\ req[r].kind = "close" =>
              req[r].shift \in Request /\ shift[req[r].shift].status # "none"
        /\ \A q \in req[r].after : req[q].pc \in {"ok", "failed"}

ReversalOf(v, t) == (Done(v, "void") \/ Done(v, "refund")) /\ t \in req[v].seen

ReversedIsGone ==
    \A v, t \in Request : ReversalOf(v, t) => txn[t].status \in {"VOIDED", "REFUNDED"}

\* The transactions that the sum of request r is over.
Summed(r, t) == req[r].kind = "settle" \/ (req[r].kind = "close" /\ txn[t].shift = req[r].shift)

SumsAreComplete ==
    \A r, t \in Request :
        /\ Summed(r, t) /\ t \in req[r].after /\ txn[t].status = "COMPLETED" => t \in req[r].seen
        /\ req[r].kind = "close" /\ cash[t] = req[r].shift /\ t \in req[r].after
            => t \in req[r].seen

SumsAreClean ==
    \A r, t \in Request : \A v \in req[r].after :
        Summed(r, t) /\ ReversalOf(v, t) => t \notin req[r].seen

ClosedForGood ==
    \A c \in Request : Done(c, "close") => shift[req[c].shift].status = "CLOSED"

NothingAfterClose ==
    \A c, q \in Request :
        Done(c, "close") /\ c \in req[q].after /\ req[q].kind \in {"sale", "close"}
            => req[q].shift # req[c].shift

ClosedHasClose ==
    \A s \in Request : shift[s].status = "CLOSED" =>
        \E c \in Request : Done(c, "close") /\ req[c].shift = s /\ shift[s].counted = req[c].seen

OneSettlement == \A d, e \in Request : day[d].settled /\ day[e].settled => d = e

ShiftsInv ==
    /\ ShiftsTypeOK
    /\ RowsAreAnswered
    /\ RequestsAreAsSent
    /\ ReversedIsGone
    /\ SumsAreComplete
    /\ SumsAreClean
    /\ ClosedForGood
    /\ NothingAfterClose
    /\ ClosedHasClose
    /\ OneSettlement
    /\ OneOpenShift
-----------------------------------------------------------------------------
LEMMA InvInit == ShiftsInit => ShiftsInv
<1> SUFFICES ASSUME ShiftsInit PROVE ShiftsInv
  OBVIOUS
<1> USE DEF ShiftsInit, Idle, NoShift, NoTxn, Done
<1>1. ShiftsTypeOK
  BY NoneAssumption DEF ShiftsTypeOK, ReqState, Waiting
<1>2. RowsAreAnswered /\ RequestsAreAsSent
  BY DEF RowsAreAnswered, RequestsAreAsSent, Waiting
<1>3. ReversedIsGone /\ SumsAreComplete /\ SumsAreClean
  BY DEF ReversedIsGone, ReversalOf, SumsAreComplete, SumsAreClean, Summed
<1>4. ClosedForGood /\ NothingAfterClose /\ ClosedHasClose /\ OneSettlement /\ OneOpenShift
  BY DEF ClosedForGood, NothingAfterClose, ClosedHasClose, OneSettlement, OneOpenShift, OpenShifts
<1> QED BY <1>1, <1>2, <1>3, <1>4 DEF ShiftsInv

\* A request that answers, and one that is refused, keep the type.
LEMMA AnswerTypes ==
    ASSUME ShiftsTypeOK, NEW r \in Request, Answer(r, "ok")
    PROVE  req' \in [Request -> ReqState]
<1>1. req \in [Request -> ReqState] /\ req[r] \in ReqState
  BY DEF ShiftsTypeOK
<1>2. [req[r] EXCEPT !.pc = "ok"] \in ReqState
  BY <1>1 DEF ReqState
<1>3. req' = [req EXCEPT ![r] = [req[r] EXCEPT !.pc = "ok"]]
  BY DEF Answer
<1> QED BY <1>1, <1>2, <1>3

LEMMA RefusedTypes ==
    ASSUME ShiftsTypeOK, NEW r \in Request, Refused(r)
    PROVE  req' \in [Request -> ReqState]
BY NoneAssumption DEF ShiftsTypeOK, ReqState, Refused, Idle

\* A request that does not answer to a reversal leaves the reversals as they
\* are, and one that does not answer to a close leaves the closes.
LEMMA AnswerKeeps ==
    ASSUME ShiftsTypeOK, NEW r \in Request, Answer(r, "ok"), req[r].pc # "ok",
           req[r].kind \notin {"void", "refund"}
    PROVE  /\ \A v, t \in Request : ReversalOf(v, t)' <=> ReversalOf(v, t)
           /\ \A c \in Request : Done(c, "close") => /\ Done(c, "close")'
                                                     /\ req'[c].shift = req[c].shift
                                                     /\ req'[c].seen = req[c].seen
BY DEF ShiftsTypeOK, Answer, ReversalOf, Done

LEMMA OthersKeep ==
    ASSUME NEW r \in Request, req[r].pc # "ok", \A q \in Request : q # r => req'[q] = req[q]
    PROVE  /\ req'[r].kind \notin {"void", "refund"} =>
                \A v, t \in Request : ReversalOf(v, t)' <=> ReversalOf(v, t)
           /\ \A c \in Request : Done(c, "close") => /\ Done(c, "close")'
                                                     /\ req'[c].shift = req[c].shift
                                                     /\ req'[c].seen = req[c].seen
BY DEF ReversalOf, Done

LEMMA ArriveKeeps ==
    ASSUME ShiftsTypeOK, NEW r \in Request, NEW kind, NEW pc, NEW s, NEW seen,
           Arrive(r, kind, pc, s, seen)
    PROVE  /\ req[r].pc # "ok" /\ req'[r].kind = kind
           /\ \A q \in Request : q # r => req'[q] = req[q]
BY DEF ShiftsTypeOK, Arrive

\* A request without its answer has written no row.
LEMMA UnansweredHasNoRow ==
    ASSUME ShiftsInv, NEW r \in Request, req[r].pc # "ok"
    PROVE  /\ txn[r].status = "none" /\ txn[r].shift = None /\ shift[r].status = "none"
           /\ cash[r] = None /\ ~day[r].settled
BY DEF ShiftsInv, RowsAreAnswered, Done

LEMMA ClosesStay ==
    ASSUME ClosedHasClose,
           \A c \in Request : Done(c, "close") => /\ Done(c, "close")'
                                                 /\ req'[c].shift = req[c].shift
                                                 /\ req'[c].seen = req[c].seen,
           \A s \in Request : shift'[s].status = "CLOSED" =>
               shift[s].status = "CLOSED" /\ shift'[s].counted = shift[s].counted
    PROVE  ClosedHasClose'
BY DEF ClosedHasClose

LEMMA RefundIsOfAnother ==
    ASSUME ShiftsInv, NEW r \in Request, NEW t \in Request, RefundSale(r, t)
    PROVE  t # r
BY UnansweredHasNoRow DEF RefundSale, Arrive

ShiftRows == [Request -> [status : {"none", "OPEN", "CLOSED"},
                          user : Cashier \cup {None}, counted : SUBSET Request]]

LEMMA ShiftRowTypes ==
    ASSUME ShiftsTypeOK, NEW r \in Request
    PROVE  /\ [shift EXCEPT ![r].status = "OPEN"] \in ShiftRows
           /\ [shift EXCEPT ![r].user = None] \in ShiftRows
           /\ \A counted \in SUBSET Request :
                [shift EXCEPT ![r].status = "CLOSED", ![r].counted = counted] \in ShiftRows
<1>1. shift \in ShiftRows
  BY DEF ShiftsTypeOK, ShiftRows
<1>2. [shift EXCEPT ![r].status = "OPEN"] \in ShiftRows /\ [shift EXCEPT ![r].user = None] \in ShiftRows
  BY <1>1 DEF ShiftRows
<1>3. ASSUME NEW counted \in SUBSET Request
      PROVE  [shift EXCEPT ![r].status = "CLOSED", ![r].counted = counted] \in ShiftRows
  <2> DEFINE closed == [shift EXCEPT ![r].status = "CLOSED"]
  <2>1. closed \in ShiftRows
    BY <1>1 DEF ShiftRows
  <2>2. [closed EXCEPT ![r].counted = counted] \in ShiftRows
    <3> HIDE DEF closed
    <3> QED BY <2>1 DEF ShiftRows
  <2> QED BY <2>2
<1> QED BY <1>2, <1>3

LEMMA RefuseStep ==
    ASSUME ShiftsInv, NEW r \in Request, Refuse(r), UNCHANGED <<shift, txn, cash, day>>
    PROVE  ShiftsInv'
<1> USE NoneAssumption
<1>1. ShiftsTypeOK'
  BY DEF ShiftsInv, ShiftsTypeOK, Refuse, Refused, Idle, ReqState, Waiting
<1>2. RowsAreAnswered'
  BY DEF ShiftsInv, ShiftsTypeOK, Refuse, Refused, Idle, RowsAreAnswered, RequestsAreAsSent, Done,
         Waiting
<1>3. RequestsAreAsSent'
  BY DEF ShiftsInv, ShiftsTypeOK, Refuse, Refused, Idle, RequestsAreAsSent, RowsAreAnswered, Done,
         Waiting
<1>4. ReversedIsGone'
  BY DEF ShiftsInv, ShiftsTypeOK, Refuse, Refused, Idle, ReversedIsGone, ReversalOf,
         RowsAreAnswered, Done
<1>5. SumsAreComplete'
  BY DEF ShiftsInv, ShiftsTypeOK, Refuse, Refused, Idle, SumsAreComplete, Summed,
         RequestsAreAsSent, RowsAreAnswered
<1>6. SumsAreClean'
  BY DEF ShiftsInv, ShiftsTypeOK, Refuse, Refused, Idle, SumsAreClean, Summed, ReversedIsGone,
         ReversalOf, RequestsAreAsSent, RowsAreAnswered, Done
<1>7. ClosedForGood'
  BY DEF ShiftsInv, ShiftsTypeOK, Refuse, Refused, Idle, ClosedForGood, RequestsAreAsSent,
         RowsAreAnswered, Done
<1>8. NothingAfterClose'
  BY DEF ShiftsInv, ShiftsTypeOK, Refuse, Refused, Idle, NothingAfterClose, ClosedForGood,
         RequestsAreAsSent, RowsAreAnswered, Done
<1>9. ClosedHasClose'
  <2>1. \A c \in Request : Done(c, "close") =>
            Done(c, "close")' /\ req'[c].shift = req[c].shift /\ req'[c].seen = req[c].seen
    BY DEF ShiftsInv, ShiftsTypeOK, Refuse, Refused, Idle, Done, RequestsAreAsSent, Waiting
  <2>2. \A s \in Request : shift'[s].status = "CLOSED" =>
            shift[s].status = "CLOSED" /\ shift'[s].counted = shift[s].counted
    BY DEF ShiftsInv, ShiftsTypeOK, Refuse, Refused, Idle, Done
  <2> QED BY <2>1, <2>2, ClosesStay DEF ShiftsInv
<1>10. OneSettlement'
  BY DEF ShiftsInv, ShiftsTypeOK, Refuse, Refused, Idle, OneSettlement
<1>11. OneOpenShift'
  BY DEF ShiftsInv, ShiftsTypeOK, Refuse, Refused, Idle, OneOpenShift, OpenShifts,
         RowsAreAnswered, RequestsAreAsSent, Done
<1> QED BY <1>1, <1>2, <1>3, <1>4, <1>5, <1>6, <1>7, <1>8, <1>9, <1>10, <1>11 DEF ShiftsInv

LEMMA SaleArrivesStep ==
    ASSUME ShiftsInv, NEW r \in Request, NEW s \in Request \cup {None},
           s # None => shift[s].status = "OPEN",
           Arrive(r, "sale", "sale", s, {}), UNCHANGED <<shift, txn, cash, day>>
    PROVE  ShiftsInv'
<1> USE NoneAssumption
<1>1. ShiftsTypeOK'
  BY DEF ShiftsInv, ShiftsTypeOK, Arrive, Answered, ReqState, Waiting
<1>2. RowsAreAnswered'
  BY DEF ShiftsInv, ShiftsTypeOK, Arrive, Answered, RowsAreAnswered, RequestsAreAsSent, Done,
         Waiting
<1>3. RequestsAreAsSent'
  BY DEF ShiftsInv, ShiftsTypeOK, Arrive, Answered, RequestsAreAsSent, RowsAreAnswered, Done,
         Waiting
<1>4. ReversedIsGone'
  BY DEF ShiftsInv, ShiftsTypeOK, Arrive, Answered, ReversedIsGone, ReversalOf, RowsAreAnswered,
         Done
<1>5. SumsAreComplete'
  BY DEF ShiftsInv, ShiftsTypeOK, Arrive, Answered, SumsAreComplete, Summed, RequestsAreAsSent,
         RowsAreAnswered
<1>6. SumsAreClean'
  BY DEF ShiftsInv, ShiftsTypeOK, Arrive, Answered, SumsAreClean, Summed, ReversedIsGone,
         ReversalOf, RequestsAreAsSent, RowsAreAnswered, Done
<1>7. ClosedForGood'
  BY DEF ShiftsInv, ShiftsTypeOK, Arrive, Answered, ClosedForGood, RequestsAreAsSent,
         RowsAreAnswered, Done
<1>8. NothingAfterClose'
  BY DEF ShiftsInv, ShiftsTypeOK, Arrive, Answered, NothingAfterClose, ClosedForGood,
         RequestsAreAsSent, RowsAreAnswered, Done
<1>9. ClosedHasClose'
  BY DEF ShiftsInv, ShiftsTypeOK, Arrive, Answered, ClosedHasClose, RequestsAreAsSent,
         RowsAreAnswered, Done
<1>10. OneSettlement'
  BY DEF ShiftsInv, ShiftsTypeOK, Arrive, Answered, OneSettlement
<1>11. OneOpenShift'
  BY DEF ShiftsInv, ShiftsTypeOK, Arrive, Answered, OneOpenShift, OpenShifts, RowsAreAnswered,
         RequestsAreAsSent, Done
<1> QED BY <1>1, <1>2, <1>3, <1>4, <1>5, <1>6, <1>7, <1>8, <1>9, <1>10, <1>11 DEF ShiftsInv

LEMMA SaleCommitsStep ==
    ASSUME ShiftsInv, NEW r \in Request, SaleCommit(r)
    PROVE  ShiftsInv'
<1> USE NoneAssumption
<1>1. ShiftsTypeOK'
  <2>1. req' \in [Request -> ReqState]
    BY AnswerTypes DEF ShiftsInv, SaleCommit, At
  <2>2. req[r] \in ReqState
    BY DEF ShiftsInv, ShiftsTypeOK, SaleCommit, At, Answer
  <2>3. txn' \in [Request -> [status : {"none", "COMPLETED", "VOIDED", "REFUNDED"},
                             shift : Request \cup {None}]]
    BY <2>2 DEF ShiftsInv, ShiftsTypeOK, SaleCommit, At, Answer, ReqState
  <2> QED BY <2>1, <2>3 DEF ShiftsInv, ShiftsTypeOK, SaleCommit, At, Answer
<1>2. RowsAreAnswered'
  BY DEF ShiftsInv, ShiftsTypeOK, SaleCommit, At, Answer, RowsAreAnswered, RequestsAreAsSent,
         Done, Waiting
<1>3. RequestsAreAsSent'
  BY DEF ShiftsInv, ShiftsTypeOK, SaleCommit, At, Answer, RequestsAreAsSent, RowsAreAnswered,
         Done, Waiting
<1>4. ReversedIsGone'
  <2>1. \A v, t \in Request : ReversalOf(v, t)' <=> ReversalOf(v, t)
    BY AnswerKeeps DEF ShiftsInv, SaleCommit, At, RequestsAreAsSent, Waiting
  <2> QED BY <2>1 DEF ShiftsInv, ShiftsTypeOK, SaleCommit, At, Answer, ReversedIsGone,
                      RowsAreAnswered
<1>5. SumsAreComplete'
  BY DEF ShiftsInv, ShiftsTypeOK, SaleCommit, At, Answer, SumsAreComplete, Summed,
         RequestsAreAsSent, RowsAreAnswered
<1>6. SumsAreClean'
  <2>1. \A v, t \in Request : ReversalOf(v, t)' <=> ReversalOf(v, t)
    BY AnswerKeeps DEF ShiftsInv, SaleCommit, At, RequestsAreAsSent, Waiting
  <2>2. txn[r].status = "none"
    BY UnansweredHasNoRow DEF RequestsAreAsSent, ShiftsInv, SaleCommit, At
  <2>3. \A v \in Request : ~ReversalOf(v, r)
    BY <2>2 DEF ShiftsInv, ShiftsTypeOK, SaleCommit, At, Answer, ReversedIsGone
  <2>4. \A q \in Request : /\ req'[q].kind = req[q].kind /\ req'[q].shift = req[q].shift
                          /\ req'[q].seen = req[q].seen /\ req'[q].after = req[q].after
                          /\ req[q].after \subseteq Request
    BY DEF ShiftsInv, ShiftsTypeOK, SaleCommit, At, Answer, ReqState
  <2>5. \A q, t \in Request : t # r => (Summed(q, t)' <=> Summed(q, t))
    BY <2>4 DEF ShiftsInv, ShiftsTypeOK, SaleCommit, At, Answer, Summed
  <2> QED BY <2>1, <2>3, <2>4, <2>5 DEF ShiftsInv, SumsAreClean
<1>7. ClosedForGood'
  <2>1. \A c \in Request : Done(c, "close")' <=> Done(c, "close")
    BY DEF ShiftsInv, ShiftsTypeOK, SaleCommit, At, Answer, Done, RequestsAreAsSent, Waiting
  <2> QED BY <2>1 DEF ShiftsInv, ShiftsTypeOK, SaleCommit, At, Answer, ClosedForGood,
                      RequestsAreAsSent, RowsAreAnswered
<1>8. NothingAfterClose'
  BY DEF ShiftsInv, ShiftsTypeOK, SaleCommit, At, Answer, NothingAfterClose, ClosedForGood,
         RequestsAreAsSent, RowsAreAnswered, Done
<1>9. ClosedHasClose'
  BY DEF ShiftsInv, ShiftsTypeOK, SaleCommit, At, Answer, ClosedHasClose, RequestsAreAsSent,
         RowsAreAnswered, Done
<1>10. OneSettlement'
  BY DEF ShiftsInv, ShiftsTypeOK, SaleCommit, At, Answer, OneSettlement
<1>11. OneOpenShift'
  BY DEF ShiftsInv, ShiftsTypeOK, SaleCommit, At, Answer, OneOpenShift, OpenShifts,
         RowsAreAnswered, RequestsAreAsSent, Done
<1> QED BY <1>1, <1>2, <1>3, <1>4, <1>5, <1>6, <1>7, <1>8, <1>9, <1>10, <1>11 DEF ShiftsInv

LEMMA VoidStep ==
    ASSUME ShiftsInv, NEW r \in Request, NEW t \in Request, VoidSale(r, t)
    PROVE  ShiftsInv'
<1> USE NoneAssumption
<1>1. ShiftsTypeOK'
  BY DEF ShiftsInv, ShiftsTypeOK, VoidSale, Claim, Arrive, Answered, ReqState, Waiting
<1>2. RowsAreAnswered'
  BY DEF ShiftsInv, ShiftsTypeOK, VoidSale, Claim, Arrive, Answered, RowsAreAnswered,
         RequestsAreAsSent, Done, Waiting
<1>3. RequestsAreAsSent'
  BY DEF ShiftsInv, ShiftsTypeOK, VoidSale, Claim, Arrive, Answered, RequestsAreAsSent,
         RowsAreAnswered, Done, Waiting
<1>4. ReversedIsGone'
  BY DEF ShiftsInv, ShiftsTypeOK, VoidSale, Claim, Arrive, Answered, ReversedIsGone, ReversalOf,
         RowsAreAnswered, Done
<1>5. SumsAreComplete'
  BY DEF ShiftsInv, ShiftsTypeOK, VoidSale, Claim, Arrive, Answered, SumsAreComplete, Summed,
         RequestsAreAsSent, RowsAreAnswered
<1>6. SumsAreClean'
  BY DEF ShiftsInv, ShiftsTypeOK, VoidSale, Claim, Arrive, Answered, SumsAreClean, Summed,
         ReversedIsGone, ReversalOf, RequestsAreAsSent, RowsAreAnswered, Done
<1>7. ClosedForGood'
  BY DEF ShiftsInv, ShiftsTypeOK, VoidSale, Claim, Arrive, Answered, ClosedForGood,
         RequestsAreAsSent, RowsAreAnswered, Done
<1>8. NothingAfterClose'
  BY DEF ShiftsInv, ShiftsTypeOK, VoidSale, Claim, Arrive, Answered, NothingAfterClose,
         ClosedForGood, RequestsAreAsSent, RowsAreAnswered, Done
<1>9. ClosedHasClose'
  <2>1. \A c \in Request : Done(c, "close") =>
            Done(c, "close")' /\ req'[c].shift = req[c].shift /\ req'[c].seen = req[c].seen
    BY OthersKeep, ArriveKeeps DEF ShiftsInv, VoidSale
  <2>2. \A s \in Request : shift'[s].status = "CLOSED" =>
            shift[s].status = "CLOSED" /\ shift'[s].counted = shift[s].counted
    BY DEF ShiftsInv, ShiftsTypeOK, VoidSale, Claim, Arrive, Answered, Done
  <2> QED BY <2>1, <2>2, ClosesStay DEF ShiftsInv
<1>10. OneSettlement'
  BY DEF ShiftsInv, ShiftsTypeOK, VoidSale, Claim, Arrive, Answered, OneSettlement
<1>11. OneOpenShift'
  BY DEF ShiftsInv, ShiftsTypeOK, VoidSale, Claim, Arrive, Answered, OneOpenShift, OpenShifts,
         RowsAreAnswered, RequestsAreAsSent, Done
<1> QED BY <1>1, <1>2, <1>3, <1>4, <1>5, <1>6, <1>7, <1>8, <1>9, <1>10, <1>11 DEF ShiftsInv

LEMMA RefundStep ==
    ASSUME ShiftsInv, NEW r \in Request, NEW t \in Request, RefundSale(r, t)
    PROVE  ShiftsInv'
<1> USE NoneAssumption
<1>1. ShiftsTypeOK'
  BY ZenonT(60) DEF ShiftsInv, ShiftsTypeOK, RefundSale, Arrive, Answered, ReqState, Waiting
<1>2. RowsAreAnswered'
  <2>1. t # r
    BY RefundIsOfAnother
  <2>2. txn[r].shift = None /\ shift[r].status = "none" /\ cash[r] = None /\ ~day[r].settled
    BY UnansweredHasNoRow DEF RequestsAreAsSent, ShiftsInv, RefundSale, Arrive
  <2>3. txn'[r].shift = None /\ txn'[t].shift = txn[t].shift /\ txn'[t].status = "REFUNDED"
      /\ txn[t].status = "COMPLETED"
    BY <2>1 DEF ShiftsInv, ShiftsTypeOK, RefundSale, Arrive, Answered, Done
  <2>4. \A x \in Request : x # r /\ x # t => txn'[x] = txn[x]
    BY <2>1 DEF ShiftsInv, ShiftsTypeOK, RefundSale, Arrive, Answered, Done
  <2>5. req'[r].pc = "ok" /\ \A x \in Request : x # r => req'[x] = req[x]
    BY DEF ShiftsInv, ShiftsTypeOK, RefundSale, Arrive, Answered, Done
  <2>6. shift' = shift /\ cash' = cash /\ day' = day
    BY DEF ShiftsInv, ShiftsTypeOK, RefundSale, Arrive, Answered, Done
  <2> QED BY <2>1, <2>2, <2>3, <2>4, <2>5, <2>6 DEF ShiftsInv, RowsAreAnswered, Done
<1>3. RequestsAreAsSent'
  BY DEF ShiftsInv, ShiftsTypeOK, RefundSale, Arrive, Answered, RequestsAreAsSent,
         RowsAreAnswered, Done, Waiting
<1>4. ReversedIsGone'
  BY DEF ShiftsInv, ShiftsTypeOK, RefundSale, Arrive, Answered, ReversedIsGone, ReversalOf,
         RowsAreAnswered, Done
<1>5. SumsAreComplete'
  BY DEF ShiftsInv, ShiftsTypeOK, RefundSale, Arrive, Answered, SumsAreComplete, Summed,
         RequestsAreAsSent, RowsAreAnswered
<1>6. SumsAreClean'
  BY DEF ShiftsInv, ShiftsTypeOK, RefundSale, Arrive, Answered, SumsAreClean, Summed,
         ReversedIsGone, ReversalOf, RequestsAreAsSent, RowsAreAnswered, Done
<1>7. ClosedForGood'
  BY DEF ShiftsInv, ShiftsTypeOK, RefundSale, Arrive, Answered, ClosedForGood, RequestsAreAsSent,
         RowsAreAnswered, Done
<1>8. NothingAfterClose'
  BY DEF ShiftsInv, ShiftsTypeOK, RefundSale, Arrive, Answered, NothingAfterClose, ClosedForGood,
         RequestsAreAsSent, RowsAreAnswered, Done
<1>9. ClosedHasClose'
  <2>1. \A c \in Request : Done(c, "close") =>
            Done(c, "close")' /\ req'[c].shift = req[c].shift /\ req'[c].seen = req[c].seen
    BY OthersKeep, ArriveKeeps DEF ShiftsInv, RefundSale
  <2>2. \A s \in Request : shift'[s].status = "CLOSED" =>
            shift[s].status = "CLOSED" /\ shift'[s].counted = shift[s].counted
    BY DEF ShiftsInv, ShiftsTypeOK, RefundSale, Arrive, Answered, Done
  <2> QED BY <2>1, <2>2, ClosesStay DEF ShiftsInv
<1>10. OneSettlement'
  BY DEF ShiftsInv, ShiftsTypeOK, RefundSale, Arrive, Answered, OneSettlement
<1>11. OneOpenShift'
  BY DEF ShiftsInv, ShiftsTypeOK, RefundSale, Arrive, Answered, OneOpenShift, OpenShifts,
         RowsAreAnswered, RequestsAreAsSent, Done
<1> QED BY <1>1, <1>2, <1>3, <1>4, <1>5, <1>6, <1>7, <1>8, <1>9, <1>10, <1>11 DEF ShiftsInv

LEMMA OpenArrivesStep ==
    ASSUME ShiftsInv, NEW r \in Request, NEW u \in Cashier, Arrive(r, "open", "open", None, {}),
           shift' = [shift EXCEPT ![r].user = u], UNCHANGED <<txn, cash, day>>
    PROVE  ShiftsInv'
<1> USE NoneAssumption
<1>1. ShiftsTypeOK'
  <2>1. req' \in [Request -> ReqState]
    BY DEF ShiftsInv, ShiftsTypeOK, Arrive, Answered, ReqState, Waiting
  <2>2. shift' \in [Request -> [status : {"none", "OPEN", "CLOSED"},
                               user : Cashier \cup {None}, counted : SUBSET Request]]
    BY SMTT(30) DEF ShiftsInv, ShiftsTypeOK, Arrive, Answered
  <2> QED BY <2>1, <2>2 DEF ShiftsInv, ShiftsTypeOK, Arrive, Answered
<1>2. RowsAreAnswered'
  BY DEF ShiftsInv, ShiftsTypeOK, Arrive, Answered, RowsAreAnswered, RequestsAreAsSent, Done,
         Waiting
<1>3. RequestsAreAsSent'
  BY DEF ShiftsInv, ShiftsTypeOK, Arrive, Answered, RequestsAreAsSent, RowsAreAnswered, Done,
         Waiting
<1>4. ReversedIsGone'
  BY DEF ShiftsInv, ShiftsTypeOK, Arrive, Answered, ReversedIsGone, ReversalOf, RowsAreAnswered,
         Done
<1>5. SumsAreComplete'
  BY DEF ShiftsInv, ShiftsTypeOK, Arrive, Answered, SumsAreComplete, Summed, RequestsAreAsSent,
         RowsAreAnswered
<1>6. SumsAreClean'
  BY DEF ShiftsInv, ShiftsTypeOK, Arrive, Answered, SumsAreClean, Summed, ReversedIsGone,
         ReversalOf, RequestsAreAsSent, RowsAreAnswered, Done
<1>7. ClosedForGood'
  BY DEF ShiftsInv, ShiftsTypeOK, Arrive, Answered, ClosedForGood, RequestsAreAsSent,
         RowsAreAnswered, Done
<1>8. NothingAfterClose'
  BY DEF ShiftsInv, ShiftsTypeOK, Arrive, Answered, NothingAfterClose, ClosedForGood,
         RequestsAreAsSent, RowsAreAnswered, Done
<1>9. ClosedHasClose'
  <2>1. \A c \in Request : Done(c, "close") =>
            Done(c, "close")' /\ req'[c].shift = req[c].shift /\ req'[c].seen = req[c].seen
    BY OthersKeep, ArriveKeeps DEF ShiftsInv
  <2>2. \A s \in Request : shift'[s].status = "CLOSED" =>
            shift[s].status = "CLOSED" /\ shift'[s].counted = shift[s].counted
    BY DEF ShiftsInv, ShiftsTypeOK
  <2> QED BY <2>1, <2>2, ClosesStay DEF ShiftsInv
<1>10. OneSettlement'
  BY DEF ShiftsInv, ShiftsTypeOK, Arrive, Answered, OneSettlement
<1>11. OneOpenShift'
  BY DEF ShiftsInv, ShiftsTypeOK, Arrive, Answered, OneOpenShift, OpenShifts, RowsAreAnswered,
         RequestsAreAsSent, Done
<1> QED BY <1>1, <1>2, <1>3, <1>4, <1>5, <1>6, <1>7, <1>8, <1>9, <1>10, <1>11 DEF ShiftsInv

LEMMA OpenInsertsStep ==
    ASSUME ShiftsInv, NEW r \in Request, OpenInsert(r)
    PROVE  ShiftsInv'
<1> USE NoneAssumption
<1>1. ShiftsTypeOK'
  <2>1. req' \in [Request -> ReqState]
    BY AnswerTypes DEF ShiftsInv, OpenInsert, At
  <2>2. req[r] \in ReqState
    BY DEF ShiftsInv, ShiftsTypeOK, OpenInsert, OnlyOpen, At, Answer
  <2>3. shift' \in ShiftRows
    BY <2>2, ShiftRowTypes DEF ShiftsInv, OpenInsert, At, ReqState, RequestsAreAsSent, Waiting
  <2> QED BY <2>1, <2>3 DEF ShiftsInv, ShiftsTypeOK, OpenInsert, OnlyOpen, At, Answer, ShiftRows
<1>2. RowsAreAnswered'
  BY DEF ShiftsInv, ShiftsTypeOK, OpenInsert, OnlyOpen, At, Answer, RowsAreAnswered,
         RequestsAreAsSent, Done, Waiting
<1>3. RequestsAreAsSent'
  BY DEF ShiftsInv, ShiftsTypeOK, OpenInsert, OnlyOpen, At, Answer, RequestsAreAsSent,
         RowsAreAnswered, Done, Waiting
<1>4. ReversedIsGone'
  <2>1. \A v, t \in Request : ReversalOf(v, t)' <=> ReversalOf(v, t)
    BY AnswerKeeps DEF ShiftsInv, OpenInsert, At, RequestsAreAsSent, Waiting
  <2> QED BY <2>1 DEF ShiftsInv, ShiftsTypeOK, OpenInsert, OnlyOpen, At, Answer, ReversedIsGone,
                      RowsAreAnswered
<1>5. SumsAreComplete'
  BY DEF ShiftsInv, ShiftsTypeOK, OpenInsert, OnlyOpen, At, Answer, SumsAreComplete, Summed,
         RequestsAreAsSent, RowsAreAnswered
<1>6. SumsAreClean'
  BY DEF ShiftsInv, ShiftsTypeOK, OpenInsert, OnlyOpen, At, Answer, SumsAreClean, Summed,
         ReversedIsGone, ReversalOf, RequestsAreAsSent, RowsAreAnswered, Done
<1>7. ClosedForGood'
  <2>1. \A c \in Request : Done(c, "close")' => Done(c, "close") /\ req'[c].shift = req[c].shift
    BY DEF ShiftsInv, ShiftsTypeOK, OpenInsert, OnlyOpen, At, Answer, Done, RequestsAreAsSent,
           Waiting
  <2>2. shift[r].status = "none"
    BY UnansweredHasNoRow DEF RequestsAreAsSent, ShiftsInv, OpenInsert, At
  <2>3. \A s \in Request : s # r => shift'[s] = shift[s]
    BY DEF ShiftsInv, ShiftsTypeOK, OpenInsert, OnlyOpen, At, Answer, Done
  <2> QED BY <2>1, <2>2, <2>3 DEF ShiftsInv, ShiftsTypeOK, OpenInsert, OnlyOpen, At, Answer,
                                  ClosedForGood, RequestsAreAsSent, Done
<1>8. NothingAfterClose'
  BY DEF ShiftsInv, ShiftsTypeOK, OpenInsert, OnlyOpen, At, Answer, NothingAfterClose,
         ClosedForGood, RequestsAreAsSent, RowsAreAnswered, Done
<1>9. ClosedHasClose'
  <2>1. \A c \in Request : Done(c, "close") =>
            Done(c, "close")' /\ req'[c].shift = req[c].shift /\ req'[c].seen = req[c].seen
    BY AnswerKeeps DEF ShiftsInv, OpenInsert, At, RequestsAreAsSent, Waiting
  <2>2. \A s \in Request : shift'[s].status = "CLOSED" =>
            shift[s].status = "CLOSED" /\ shift'[s].counted = shift[s].counted
    BY DEF ShiftsInv, ShiftsTypeOK, OpenInsert, OnlyOpen, At, Answer, Done
  <2> QED BY <2>1, <2>2, ClosesStay DEF ShiftsInv
<1>10. OneSettlement'
  BY DEF ShiftsInv, ShiftsTypeOK, OpenInsert, OnlyOpen, At, Answer, OneSettlement
<1>11. OneOpenShift'
  BY DEF ShiftsInv, ShiftsTypeOK, OpenInsert, OnlyOpen, At, Answer, OneOpenShift, OpenShifts,
         RowsAreAnswered, RequestsAreAsSent, Done
<1> QED BY <1>1, <1>2, <1>3, <1>4, <1>5, <1>6, <1>7, <1>8, <1>9, <1>10, <1>11 DEF ShiftsInv

LEMMA MoveStep ==
    ASSUME ShiftsInv, NEW r \in Request, NEW s \in Request, CashMovement(r, s)
    PROVE  ShiftsInv'
<1> USE NoneAssumption
<1>1. ShiftsTypeOK'
  BY DEF ShiftsInv, ShiftsTypeOK, CashMovement, Arrive, Answered, ReqState, Waiting
<1>2. RowsAreAnswered'
  BY DEF ShiftsInv, ShiftsTypeOK, CashMovement, Arrive, Answered, RowsAreAnswered,
         RequestsAreAsSent, Done, Waiting
<1>3. RequestsAreAsSent'
  BY DEF ShiftsInv, ShiftsTypeOK, CashMovement, Arrive, Answered, RequestsAreAsSent,
         RowsAreAnswered, Done, Waiting
<1>4. ReversedIsGone'
  BY DEF ShiftsInv, ShiftsTypeOK, CashMovement, Arrive, Answered, ReversedIsGone, ReversalOf,
         RowsAreAnswered, Done
<1>5. SumsAreComplete'
  <2>1. \A q \in Request : r \notin req'[q].after
    BY DEF ShiftsInv, ShiftsTypeOK, CashMovement, Arrive, Answered, RequestsAreAsSent
  <2> QED BY <2>1 DEF ShiftsInv, ShiftsTypeOK, CashMovement, Arrive, Answered, SumsAreComplete,
                      Summed, RequestsAreAsSent, RowsAreAnswered
<1>6. SumsAreClean'
  BY DEF ShiftsInv, ShiftsTypeOK, CashMovement, Arrive, Answered, SumsAreClean, Summed,
         ReversedIsGone, ReversalOf, RequestsAreAsSent, RowsAreAnswered, Done
<1>7. ClosedForGood'
  BY DEF ShiftsInv, ShiftsTypeOK, CashMovement, Arrive, Answered, ClosedForGood,
         RequestsAreAsSent, RowsAreAnswered, Done
<1>8. NothingAfterClose'
  BY DEF ShiftsInv, ShiftsTypeOK, CashMovement, Arrive, Answered, NothingAfterClose,
         ClosedForGood, RequestsAreAsSent, RowsAreAnswered, Done
<1>9. ClosedHasClose'
  BY SMTT(30) DEF ShiftsInv, ShiftsTypeOK, CashMovement, Arrive, Answered, ClosedHasClose,
         RequestsAreAsSent, RowsAreAnswered, Done
<1>10. OneSettlement'
  BY DEF ShiftsInv, ShiftsTypeOK, CashMovement, Arrive, Answered, OneSettlement
<1>11. OneOpenShift'
  BY DEF ShiftsInv, ShiftsTypeOK, CashMovement, Arrive, Answered, OneOpenShift, OpenShifts,
         RowsAreAnswered, RequestsAreAsSent, Done
<1> QED BY <1>1, <1>2, <1>3, <1>4, <1>5, <1>6, <1>7, <1>8, <1>9, <1>10, <1>11 DEF ShiftsInv

LEMMA CloseArrivesStep ==
    ASSUME ShiftsInv, NEW r \in Request, NEW s \in Request, shift[s].status = "OPEN",
           Arrive(r, "close", "close", s, Expected(s)), UNCHANGED <<shift, txn, cash, day>>
    PROVE  ShiftsInv'
<1> USE NoneAssumption
<1>1. ShiftsTypeOK'
  BY DEF ShiftsInv, ShiftsTypeOK, Arrive, Answered, Expected, ReqState, Waiting
<1>2. RowsAreAnswered'
  BY DEF ShiftsInv, ShiftsTypeOK, Arrive, Answered, Expected, RowsAreAnswered, RequestsAreAsSent,
         Done, Waiting
<1>3. RequestsAreAsSent'
  BY DEF ShiftsInv, ShiftsTypeOK, Arrive, Answered, Expected, RequestsAreAsSent, RowsAreAnswered,
         Done, Waiting
<1>4. ReversedIsGone'
  BY DEF ShiftsInv, ShiftsTypeOK, Arrive, Answered, Expected, ReversedIsGone, ReversalOf,
         RowsAreAnswered, Done
<1>5. SumsAreComplete'
  BY DEF ShiftsInv, ShiftsTypeOK, Arrive, Answered, Expected, SumsAreComplete, Summed,
         RequestsAreAsSent, RowsAreAnswered
<1>6. SumsAreClean'
  <2>1. \A v, t \in Request : ReversalOf(v, t)' <=> ReversalOf(v, t)
    BY OthersKeep, ArriveKeeps DEF ShiftsInv
  <2>2. \A t \in Request : Summed(r, t)' /\ t \in req'[r].seen => txn[t].status = "COMPLETED"
    BY DEF ShiftsInv, ShiftsTypeOK, Arrive, Answered, Expected, Summed, RowsAreAnswered, Done
  <2>3. \A q \in Request : q # r => req'[q] = req[q]
    BY DEF ShiftsInv, ShiftsTypeOK, Arrive, Answered, Expected, Done
  <2>4. \A q, t \in Request : q # r => (Summed(q, t)' <=> Summed(q, t))
    BY <2>3 DEF ShiftsInv, ShiftsTypeOK, Arrive, Answered, Expected, Summed
  <2>5. \A q \in Request : req'[q].after \subseteq Request
    BY DEF ShiftsInv, ShiftsTypeOK, Arrive, Answered, Expected, ReqState
  <2> QED BY <2>1, <2>2, <2>3, <2>4, <2>5 DEF ShiftsInv, SumsAreClean, ReversedIsGone
<1>7. ClosedForGood'
  BY DEF ShiftsInv, ShiftsTypeOK, Arrive, Answered, Expected, ClosedForGood, RequestsAreAsSent,
         RowsAreAnswered, Done
<1>8. NothingAfterClose'
  BY DEF ShiftsInv, ShiftsTypeOK, Arrive, Answered, Expected, NothingAfterClose, ClosedForGood,
         RequestsAreAsSent, RowsAreAnswered, Done
<1>9. ClosedHasClose'
  <2>1. \A c \in Request : Done(c, "close") =>
            Done(c, "close")' /\ req'[c].shift = req[c].shift /\ req'[c].seen = req[c].seen
    BY OthersKeep, ArriveKeeps DEF ShiftsInv
  <2>2. \A z \in Request : shift'[z].status = "CLOSED" =>
            shift[z].status = "CLOSED" /\ shift'[z].counted = shift[z].counted
    BY DEF ShiftsInv, ShiftsTypeOK, Arrive, Answered, Expected, Done
  <2> QED BY <2>1, <2>2, ClosesStay DEF ShiftsInv
<1>10. OneSettlement'
  BY DEF ShiftsInv, ShiftsTypeOK, Arrive, Answered, Expected, OneSettlement
<1>11. OneOpenShift'
  BY DEF ShiftsInv, ShiftsTypeOK, Arrive, Answered, Expected, OneOpenShift, OpenShifts,
         RowsAreAnswered, RequestsAreAsSent, Done
<1> QED BY <1>1, <1>2, <1>3, <1>4, <1>5, <1>6, <1>7, <1>8, <1>9, <1>10, <1>11 DEF ShiftsInv

LEMMA CloseWritesStep ==
    ASSUME ShiftsInv, NEW r \in Request, CloseWrite(r)
    PROVE  ShiftsInv'
<1> USE NoneAssumption
<1>1. ShiftsTypeOK'
  <2>1. req' \in [Request -> ReqState]
    BY AnswerTypes DEF ShiftsInv, CloseWrite, At
  <2>2. req[r] \in ReqState
    BY DEF ShiftsInv, ShiftsTypeOK, CloseWrite, At, Answer
  <2>3. shift' \in ShiftRows
    BY <2>2, ShiftRowTypes DEF ShiftsInv, CloseWrite, At, ReqState, RequestsAreAsSent, Waiting
  <2> QED BY <2>1, <2>3 DEF ShiftsInv, ShiftsTypeOK, CloseWrite, At, Answer, ShiftRows
<1>2. RowsAreAnswered'
  BY DEF ShiftsInv, ShiftsTypeOK, CloseWrite, At, Answer, RowsAreAnswered, RequestsAreAsSent,
         Done, Waiting
<1>3. RequestsAreAsSent'
  BY DEF ShiftsInv, ShiftsTypeOK, CloseWrite, At, Answer, RequestsAreAsSent, RowsAreAnswered,
         Done, Waiting
<1>4. ReversedIsGone'
  <2>1. \A v, t \in Request : ReversalOf(v, t)' <=> ReversalOf(v, t)
    BY AnswerKeeps DEF ShiftsInv, CloseWrite, At, RequestsAreAsSent, Waiting
  <2> QED BY <2>1 DEF ShiftsInv, ShiftsTypeOK, CloseWrite, At, Answer, ReversedIsGone,
                      RowsAreAnswered
<1>5. SumsAreComplete'
  BY DEF ShiftsInv, ShiftsTypeOK, CloseWrite, At, Answer, SumsAreComplete, Summed,
         RequestsAreAsSent, RowsAreAnswered
<1>6. SumsAreClean'
  BY DEF ShiftsInv, ShiftsTypeOK, CloseWrite, At, Answer, SumsAreClean, Summed, ReversedIsGone,
         ReversalOf, RequestsAreAsSent, RowsAreAnswered, Done
<1>7. ClosedForGood'
  BY DEF ShiftsInv, ShiftsTypeOK, CloseWrite, At, Answer, ClosedForGood, RequestsAreAsSent,
         RowsAreAnswered, Done
<1>8. NothingAfterClose'
  BY DEF ShiftsInv, ShiftsTypeOK, CloseWrite, At, Answer, NothingAfterClose, ClosedForGood,
         RequestsAreAsSent, RowsAreAnswered, Done
<1>9. ClosedHasClose'
  <2>1. \A c \in Request : Done(c, "close") =>
            Done(c, "close")' /\ req'[c].shift = req[c].shift /\ req'[c].seen = req[c].seen
    BY AnswerKeeps DEF ShiftsInv, CloseWrite, At, RequestsAreAsSent, Waiting
  <2>2. Done(r, "close")' /\ req'[r].shift = req[r].shift /\ req'[r].seen = req[r].seen
    BY DEF ShiftsInv, ShiftsTypeOK, CloseWrite, At, Answer, Done, RequestsAreAsSent, Waiting
  <2>3. ASSUME NEW s \in Request, shift'[s].status = "CLOSED", s # req[r].shift
        PROVE  shift[s].status = "CLOSED" /\ shift'[s].counted = shift[s].counted
    BY <2>3 DEF ShiftsInv, ShiftsTypeOK, CloseWrite, At, Answer
  <2>4. req[r].shift \in Request /\ shift'[req[r].shift].counted = req[r].seen
    BY DEF ShiftsInv, ShiftsTypeOK, CloseWrite, At, Answer, RequestsAreAsSent, Waiting
  <2> QED BY <2>1, <2>2, <2>3, <2>4 DEF ShiftsInv, ShiftsTypeOK, CloseWrite, At, Answer,
                                        ClosedHasClose
<1>10. OneSettlement'
  BY DEF ShiftsInv, ShiftsTypeOK, CloseWrite, At, Answer, OneSettlement
<1>11. OneOpenShift'
  BY DEF ShiftsInv, ShiftsTypeOK, CloseWrite, At, Answer, OneOpenShift, OpenShifts,
         RowsAreAnswered, RequestsAreAsSent, Done
<1> QED BY <1>1, <1>2, <1>3, <1>4, <1>5, <1>6, <1>7, <1>8, <1>9, <1>10, <1>11 DEF ShiftsInv

LEMMA SettleArrivesStep ==
    ASSUME ShiftsInv, NEW r \in Request, SettleArrive(r)
    PROVE  ShiftsInv'
<1> USE NoneAssumption
<1>1. ShiftsTypeOK'
  BY DEF ShiftsInv, ShiftsTypeOK, SettleArrive, Arrive, Answered, ReqState, Waiting
<1>2. RowsAreAnswered'
  BY DEF ShiftsInv, ShiftsTypeOK, SettleArrive, Arrive, Answered, RowsAreAnswered,
         RequestsAreAsSent, Done, Waiting
<1>3. RequestsAreAsSent'
  BY DEF ShiftsInv, ShiftsTypeOK, SettleArrive, Arrive, Answered, RequestsAreAsSent,
         RowsAreAnswered, Done, Waiting
<1>4. ReversedIsGone'
  BY DEF ShiftsInv, ShiftsTypeOK, SettleArrive, Arrive, Answered, ReversedIsGone, ReversalOf,
         RowsAreAnswered, Done
<1>5. SumsAreComplete'
  BY DEF ShiftsInv, ShiftsTypeOK, SettleArrive, Arrive, Answered, SumsAreComplete, Summed,
         RequestsAreAsSent, RowsAreAnswered
<1>6. SumsAreClean'
  <2>1. \A v, t \in Request : ReversalOf(v, t)' <=> ReversalOf(v, t)
    BY OthersKeep, ArriveKeeps DEF ShiftsInv, SettleArrive
  <2>2. \A t \in Request : Summed(r, t)' /\ t \in req'[r].seen => txn[t].status = "COMPLETED"
    BY DEF ShiftsInv, ShiftsTypeOK, SettleArrive, Arrive, Answered, Summed, RowsAreAnswered, Done
  <2>3. \A q \in Request : q # r => req'[q] = req[q]
    BY DEF ShiftsInv, ShiftsTypeOK, SettleArrive, Arrive, Answered, Done
  <2>4. \A q, t \in Request : q # r => (Summed(q, t)' <=> Summed(q, t))
    BY <2>3 DEF ShiftsInv, ShiftsTypeOK, SettleArrive, Arrive, Answered, Summed
  <2>5. \A q \in Request : req'[q].after \subseteq Request
    BY DEF ShiftsInv, ShiftsTypeOK, SettleArrive, Arrive, Answered, ReqState
  <2> QED BY <2>1, <2>2, <2>3, <2>4, <2>5 DEF ShiftsInv, SumsAreClean, ReversedIsGone
<1>7. ClosedForGood'
  BY DEF ShiftsInv, ShiftsTypeOK, SettleArrive, Arrive, Answered, ClosedForGood,
         RequestsAreAsSent, RowsAreAnswered, Done
<1>8. NothingAfterClose'
  BY DEF ShiftsInv, ShiftsTypeOK, SettleArrive, Arrive, Answered, NothingAfterClose,
         ClosedForGood, RequestsAreAsSent, RowsAreAnswered, Done
<1>9. ClosedHasClose'
  <2>1. \A c \in Request : Done(c, "close") =>
            Done(c, "close")' /\ req'[c].shift = req[c].shift /\ req'[c].seen = req[c].seen
    BY OthersKeep, ArriveKeeps DEF ShiftsInv, SettleArrive
  <2>2. \A s \in Request : shift'[s].status = "CLOSED" =>
            shift[s].status = "CLOSED" /\ shift'[s].counted = shift[s].counted
    BY DEF ShiftsInv, ShiftsTypeOK, SettleArrive, Arrive, Answered, Done
  <2> QED BY <2>1, <2>2, ClosesStay DEF ShiftsInv
<1>10. OneSettlement'
  BY DEF ShiftsInv, ShiftsTypeOK, SettleArrive, Arrive, Answered, OneSettlement
<1>11. OneOpenShift'
  BY DEF ShiftsInv, ShiftsTypeOK, SettleArrive, Arrive, Answered, OneOpenShift, OpenShifts,
         RowsAreAnswered, RequestsAreAsSent, Done
<1> QED BY <1>1, <1>2, <1>3, <1>4, <1>5, <1>6, <1>7, <1>8, <1>9, <1>10, <1>11 DEF ShiftsInv

LEMMA SettleInsertsStep ==
    ASSUME ShiftsInv, NEW r \in Request, SettleInsert(r)
    PROVE  ShiftsInv'
<1> USE NoneAssumption
<1>1. ShiftsTypeOK'
  <2>1. req' \in [Request -> ReqState]
    BY AnswerTypes DEF ShiftsInv, SettleInsert, At
  <2>2. req[r] \in ReqState
    BY DEF ShiftsInv, ShiftsTypeOK, SettleInsert, Unsettled, At, Answer
  <2>3. day' \in [Request -> [settled : BOOLEAN, counted : SUBSET Request]]
    BY <2>2 DEF ShiftsInv, ShiftsTypeOK, SettleInsert, Unsettled, At, Answer, ReqState
  <2> QED BY <2>1, <2>3 DEF ShiftsInv, ShiftsTypeOK, SettleInsert, Unsettled, At, Answer
<1>2. RowsAreAnswered'
  BY DEF ShiftsInv, ShiftsTypeOK, SettleInsert, Unsettled, At, Answer, RowsAreAnswered,
         RequestsAreAsSent, Done, Waiting
<1>3. RequestsAreAsSent'
  BY DEF ShiftsInv, ShiftsTypeOK, SettleInsert, Unsettled, At, Answer, RequestsAreAsSent,
         RowsAreAnswered, Done, Waiting
<1>4. ReversedIsGone'
  <2>1. \A v, t \in Request : ReversalOf(v, t)' <=> ReversalOf(v, t)
    BY AnswerKeeps DEF ShiftsInv, SettleInsert, At, RequestsAreAsSent, Waiting
  <2> QED BY <2>1 DEF ShiftsInv, ShiftsTypeOK, SettleInsert, Unsettled, At, Answer,
                      ReversedIsGone, RowsAreAnswered
<1>5. SumsAreComplete'
  BY DEF ShiftsInv, ShiftsTypeOK, SettleInsert, Unsettled, At, Answer, SumsAreComplete, Summed,
         RequestsAreAsSent, RowsAreAnswered
<1>6. SumsAreClean'
  BY DEF ShiftsInv, ShiftsTypeOK, SettleInsert, Unsettled, At, Answer, SumsAreClean, Summed,
         ReversedIsGone, ReversalOf, RequestsAreAsSent, RowsAreAnswered, Done
<1>7. ClosedForGood'
  <2>1. \A c \in Request : Done(c, "close")' <=> Done(c, "close")
    BY DEF ShiftsInv, ShiftsTypeOK, SettleInsert, Unsettled, At, Answer, Done, RequestsAreAsSent,
           Waiting
  <2> QED BY <2>1 DEF ShiftsInv, ShiftsTypeOK, SettleInsert, Unsettled, At, Answer, ClosedForGood,
                      RequestsAreAsSent, RowsAreAnswered
<1>8. NothingAfterClose'
  BY DEF ShiftsInv, ShiftsTypeOK, SettleInsert, Unsettled, At, Answer, NothingAfterClose,
         ClosedForGood, RequestsAreAsSent, RowsAreAnswered, Done
<1>9. ClosedHasClose'
  <2>1. \A c \in Request : Done(c, "close") =>
            Done(c, "close")' /\ req'[c].shift = req[c].shift /\ req'[c].seen = req[c].seen
    BY AnswerKeeps DEF ShiftsInv, SettleInsert, At, RequestsAreAsSent, Waiting
  <2>2. \A s \in Request : shift'[s].status = "CLOSED" =>
            shift[s].status = "CLOSED" /\ shift'[s].counted = shift[s].counted
    BY DEF ShiftsInv, ShiftsTypeOK, SettleInsert, Unsettled, At, Answer, Done
  <2> QED BY <2>1, <2>2, ClosesStay DEF ShiftsInv
<1>10. OneSettlement'
  BY DEF ShiftsInv, ShiftsTypeOK, SettleInsert, Unsettled, At, Answer, OneSettlement
<1>11. OneOpenShift'
  BY DEF ShiftsInv, ShiftsTypeOK, SettleInsert, Unsettled, At, Answer, OneOpenShift, OpenShifts,
         RowsAreAnswered, RequestsAreAsSent, Done
<1> QED BY <1>1, <1>2, <1>3, <1>4, <1>5, <1>6, <1>7, <1>8, <1>9, <1>10, <1>11 DEF ShiftsInv

LEMMA FailureStep ==
    ASSUME ShiftsInv, NEW r \in Request, Fail(r)
    PROVE  ShiftsInv'
<1> USE NoneAssumption
<1>1. ShiftsTypeOK'
  <2>1. req' \in [Request -> ReqState]
    BY RefusedTypes DEF ShiftsInv, Fail
  <2>2. shift' \in ShiftRows
    BY ShiftRowTypes DEF ShiftsInv, Fail
  <2> QED BY <2>1, <2>2 DEF ShiftsInv, ShiftsTypeOK, Fail, Refused, Idle, Waiting, ShiftRows
<1>2. RowsAreAnswered'
  <2>1. txn[r].status = "none" /\ txn[r].shift = None /\ shift[r].status = "none"
    BY UnansweredHasNoRow DEF Waiting, ShiftsInv, Fail
  <2>2. cash[r] = None /\ ~day[r].settled
    BY UnansweredHasNoRow DEF Waiting, ShiftsInv, Fail
  <2> QED BY <2>1, <2>2 DEF ShiftsInv, ShiftsTypeOK, Fail, Refused, Idle, Waiting,
                            RowsAreAnswered, Done
<1>3. RequestsAreAsSent'
  BY DEF ShiftsInv, ShiftsTypeOK, Fail, Refused, Idle, Waiting, RequestsAreAsSent,
         RowsAreAnswered, Done
<1>4. ReversedIsGone'
  BY DEF ShiftsInv, ShiftsTypeOK, Fail, Refused, Idle, Waiting, ReversedIsGone, ReversalOf,
         RowsAreAnswered, Done
<1>5. SumsAreComplete'
  BY DEF ShiftsInv, ShiftsTypeOK, Fail, Refused, Idle, Waiting, SumsAreComplete, Summed,
         RequestsAreAsSent, RowsAreAnswered
<1>6. SumsAreClean'
  BY DEF ShiftsInv, ShiftsTypeOK, Fail, Refused, Idle, Waiting, SumsAreClean, Summed,
         ReversedIsGone, ReversalOf, RequestsAreAsSent, RowsAreAnswered, Done
<1>7. ClosedForGood'
  BY DEF ShiftsInv, ShiftsTypeOK, Fail, Refused, Idle, Waiting, ClosedForGood, RequestsAreAsSent,
         RowsAreAnswered, Done
<1>8. NothingAfterClose'
  BY DEF ShiftsInv, ShiftsTypeOK, Fail, Refused, Idle, Waiting, NothingAfterClose, ClosedForGood,
         RequestsAreAsSent, RowsAreAnswered, Done
<1>9. ClosedHasClose'
  <2>1. \A c \in Request : Done(c, "close") =>
            Done(c, "close")' /\ req'[c].shift = req[c].shift /\ req'[c].seen = req[c].seen
    BY DEF ShiftsInv, ShiftsTypeOK, Fail, Refused, Idle, Waiting, Done, RequestsAreAsSent
  <2>2. \A s \in Request : shift'[s].status = "CLOSED" =>
            shift[s].status = "CLOSED" /\ shift'[s].counted = shift[s].counted
    BY DEF ShiftsInv, ShiftsTypeOK, Fail, Refused, Idle, Waiting, Done
  <2> QED BY <2>1, <2>2, ClosesStay DEF ShiftsInv
<1>10. OneSettlement'
  BY DEF ShiftsInv, ShiftsTypeOK, Fail, Refused, Idle, Waiting, OneSettlement
<1>11. OneOpenShift'
  BY DEF ShiftsInv, ShiftsTypeOK, Fail, Refused, Idle, Waiting, OneOpenShift, OpenShifts,
         RowsAreAnswered, RequestsAreAsSent, Done
<1> QED BY <1>1, <1>2, <1>3, <1>4, <1>5, <1>6, <1>7, <1>8, <1>9, <1>10, <1>11 DEF ShiftsInv

LEMMA InvStep == ShiftsInv /\ [ShiftsNext]_shiftVars => ShiftsInv'
<1> SUFFICES ASSUME ShiftsInv, [ShiftsNext]_shiftVars PROVE ShiftsInv'
  OBVIOUS
<1>1. ASSUME NEW r \in Request, NEW u \in Cashier, SaleArrive(r, u) PROVE ShiftsInv'
  <2>1. PICK s \in openShift(u) :
            IF s = None /\ u \notin Unbound THEN Refuse(r) ELSE Arrive(r, "sale", "sale", s, {})
    BY <1>1 DEF SaleArrive
  <2>2. s \in Request \cup {None} /\ (s # None => shift[s].status = "OPEN")
    BY DEF openShift, OpenShifts
  <2>3. UNCHANGED <<shift, txn, cash, day>>
    BY <1>1 DEF SaleArrive
  <2> QED BY <2>1, <2>2, <2>3, RefuseStep, SaleArrivesStep
<1>2. ASSUME NEW r \in Request, NEW u \in Cashier, OpenArrive(r, u) PROVE ShiftsInv'
  <2>1. CASE OpenShifts(u) = {}
    BY <1>2, <2>1, OpenArrivesStep DEF OpenArrive
  <2>2. CASE OpenShifts(u) # {}
    BY <1>2, <2>2, RefuseStep DEF OpenArrive
  <2> QED BY <2>1, <2>2
<1>3. ASSUME NEW r \in Request, NEW t \in Request, VoidSale(r, t) \/ RefundSale(r, t)
      PROVE  ShiftsInv'
  BY <1>3, VoidStep, RefundStep
<1>4. ASSUME NEW r \in Request, NEW s \in Request, CashMovement(r, s) PROVE ShiftsInv'
  BY <1>4, MoveStep
<1>5. ASSUME NEW r \in Request, NEW s \in Request, NEW u \in Cashier, CloseArrive(r, s, u)
      PROVE  ShiftsInv'
  <2>1. CASE shift[s].status = "OPEN" /\ MayClose(s, u)
    BY <1>5, <2>1, CloseArrivesStep DEF CloseArrive
  <2>2. CASE ~(shift[s].status = "OPEN" /\ MayClose(s, u))
    BY <1>5, <2>2, RefuseStep DEF CloseArrive
  <2> QED BY <2>1, <2>2
<1>6. ASSUME NEW r \in Request, SettleArrive(r) \/ SettleInsert(r) PROVE ShiftsInv'
  BY <1>6, SettleArrivesStep, SettleInsertsStep
<1>7. ASSUME NEW r \in Request, SaleCommit(r) \/ OpenInsert(r) PROVE ShiftsInv'
  BY <1>7, SaleCommitsStep, OpenInsertsStep
<1>8. ASSUME NEW r \in Request, CloseWrite(r) \/ Fail(r) PROVE ShiftsInv'
  BY <1>8, CloseWritesStep, FailureStep
<1>9. CASE UNCHANGED shiftVars
  <2> USE <1>9 DEF shiftVars, ShiftsInv
  <2>1. ShiftsTypeOK' /\ RowsAreAnswered' /\ RequestsAreAsSent' /\ ReversedIsGone'
    BY DEF ShiftsTypeOK, RowsAreAnswered, RequestsAreAsSent, ReversedIsGone, ReversalOf, Done
  <2>2. SumsAreComplete' /\ SumsAreClean'
    BY DEF SumsAreComplete, SumsAreClean, Summed, ReversalOf, Done
  <2>3. ClosedForGood' /\ NothingAfterClose' /\ ClosedHasClose' /\ OneSettlement' /\ OneOpenShift'
    BY DEF ClosedForGood, NothingAfterClose, ClosedHasClose, OneSettlement, OneOpenShift,
           OpenShifts, Done
  <2> QED BY <2>1, <2>2, <2>3
<1> QED BY <1>1, <1>2, <1>3, <1>4, <1>5, <1>6, <1>7, <1>8, <1>9 DEF ShiftsNext

LEMMA InvHolds == ShiftsSpec => []ShiftsInv
BY InvInit, InvStep, PTL DEF ShiftsSpec

\* Every variable of the shifts keeps its type.
THEOREM ShiftTypes == ShiftsSpec => []ShiftsTypeOK
<1>1. ShiftsInv => ShiftsTypeOK
  BY DEF ShiftsInv
<1> QED BY <1>1, InvHolds, PTL

\* A cashier has one open shift at most.
THEOREM OneShiftIsOpen == ShiftsSpec => []OneOpenShift
<1>1. ShiftsInv => OneOpenShift
  BY DEF ShiftsInv
<1> QED BY <1>1, InvHolds, PTL

\* The balance of a closed shift is what an answered close counted: all that
\* was answered before it and stands, and nothing that was taken back.
THEOREM ClosesCount == ShiftsSpec => []CloseCounts
<1>1. ASSUME ShiftsInv PROVE CloseCounts
  <2> SUFFICES ASSUME NEW s \in Request, shift[s].status = "CLOSED"
               PROVE  \E c \in Request :
                        /\ Done(c, "close") /\ req[c].shift = s
                        /\ \A t \in Request : txn[t].shift = s =>
                            /\ Before(t, c) /\ txn[t].status = "COMPLETED" => t \in shift[s].counted
                            /\ Reversed(t, c) => t \notin shift[s].counted
                            /\ ~Before(c, t)
                        /\ \A m \in Request : cash[m] = s /\ Before(m, c) => m \in shift[s].counted
                        /\ \A d \in Request : Done(d, "close") /\ req[d].shift = s
                            => ~Before(c, d) /\ ~Before(d, c)
    BY DEF CloseCounts
  <2> USE <1>1 DEF ShiftsInv, Before
  <2>1. PICK c \in Request : Done(c, "close") /\ req[c].shift = s /\ shift[s].counted = req[c].seen
    BY DEF ClosedHasClose
  <2>2. \A t \in Request : txn[t].shift = s =>
            /\ Before(t, c) /\ txn[t].status = "COMPLETED" => t \in shift[s].counted
            /\ Reversed(t, c) => t \notin shift[s].counted
    BY <2>1 DEF SumsAreComplete, SumsAreClean, Summed, Reversed, ReversalOf, Done
  <2>3. \A t \in Request : txn[t].shift = s => ~Before(c, t)
    BY <2>1, NoneAssumption DEF NothingAfterClose, RowsAreAnswered
  <2>4. \A m \in Request : cash[m] = s /\ Before(m, c) => m \in shift[s].counted
    BY <2>1 DEF SumsAreComplete, Done
  <2>5. \A d \in Request : Done(d, "close") /\ req[d].shift = s => ~Before(c, d) /\ ~Before(d, c)
    BY <2>1 DEF NothingAfterClose, Done
  <2> QED BY <2>1, <2>2, <2>3, <2>4, <2>5
<1> QED BY <1>1, InvHolds, PTL

\* A day is settled once, over what was answered before and stands.
THEOREM DaysAreSettledOnce == ShiftsSpec => []SettledOnce
<1>1. ASSUME ShiftsInv PROVE SettledOnce
  BY <1>1
     DEF ShiftsInv, SettledOnce, OneSettlement, RowsAreAnswered, SumsAreComplete, SumsAreClean,
         Summed, Reversed, ReversalOf, Before, Done
<1> QED BY <1>1, InvHolds, PTL

(***************************************************************************)
(* Attendance, for any records, clock, roster, policy and periods: types,  *)
(* the hours that consecutive periods pay, and the lateness and the early  *)
(* leave that they charge.                                                 *)
(*                                                                         *)
(* The inductive invariant says of every closed record, which the types    *)
(* do not, that its times are in order and, unless a correction came       *)
(* between the read and the write of a clock-out, that what is stored of   *)
(* it was worked out from the times that are stored.  The rest is about    *)
(* the calculator: the dates of a shift share it out (a telescoping sum),  *)
(* so do the periods, and the order of summation does not matter.          *)
(***************************************************************************)
LEMMA DateFacts ==
    ASSUME NEW t \in Nat
    PROVE  /\ DateOf(t) \in Nat /\ HourOf(t) \in 0 .. 23 /\ t = 24 * DateOf(t) + HourOf(t)
           /\ DateOf(t) % 7 \in 0 .. 6
<1>1. DateOf(t) \in Nat /\ HourOf(t) \in 0 .. 23 /\ t = 24 * DateOf(t) + HourOf(t)
  BY DEF DateOf, HourOf, DayLength
<1>2. DateOf(t) % 7 \in 0 .. 6
  BY <1>1
<1> QED BY <1>1, <1>2

LEMMA BeyondFacts ==
    ASSUME NEW n \in Int, NEW m \in Int
    PROVE  Beyond(n, m) \in Nat /\ (n >= m => Beyond(n, m) = n - m) /\ (n <= m => Beyond(n, m) = 0)
BY DEF Beyond

\* A date with a roster has one that ends, on the same date or the next, later
\* than it begins.
LEMMA RosterFacts ==
    ASSUME NEW d \in Nat, Rostered(d)
    PROVE  /\ RosterOf(d).start \in 0 .. 23 /\ RosterOf(d).grace \in Nat
           /\ RosterEnd(d) \in Nat /\ RosterEnd(d) > RosterOf(d).start
<1>1. d % 7 \in 0 .. 6
  OBVIOUS
<1>2. RosterOf(d).start \in 0 .. 23 /\ RosterOf(d).end \in 0 .. 23 /\ RosterOf(d).grace \in Nat
  BY <1>1, RosterAssumption DEF Rostered, RosterOf
<1> QED BY <1>2 DEF RosterEnd, DayLength

LEMMA VerdictTypes ==
    ASSUME NEW in \in Nat
    PROVE  LateBy(in) \in Nat /\ \A out \in Nat : EarlyBy(in, out) \in Nat
<1>1. DateOf(in) \in Nat
  BY DateFacts
<1>2. CASE Rostered(DateOf(in))
  <2>1. /\ Midnight(DateOf(in)) + RosterOf(DateOf(in)).start \in Int
        /\ Midnight(DateOf(in)) + RosterEnd(DateOf(in)) \in Int
    BY <1>1, <1>2, RosterFacts DEF Midnight, DayLength
  <2>2. PICK begins \in Int : begins = Midnight(DateOf(in)) + RosterOf(DateOf(in)).start
    BY <2>1
  <2>3. PICK ends \in Int : ends = Midnight(DateOf(in)) + RosterEnd(DateOf(in))
    BY <2>1
  <2>4. LateBy(in) = Beyond(in, begins)
    BY <1>2, <2>2 DEF LateBy
  <2>5. \A out : EarlyBy(in, out) = Beyond(ends, out)
    BY <1>2, <2>3 DEF EarlyBy
  <2>6. Beyond(in, begins) \in Nat /\ \A out \in Nat : Beyond(ends, out) \in Nat
    BY BeyondFacts
  <2> QED BY <2>4, <2>5, <2>6
<1>3. CASE ~Rostered(DateOf(in))
  BY <1>3 DEF LateBy, EarlyBy
<1> QED BY <1>2, <1>3

LEMMA LeastTime ==
    ASSUME NEW T, T \subseteq Clock, T # {}
    PROVE  Min(T) \in T
<1>1. T \subseteq Nat
  BY ClockAssumption
<1>2. \E n \in T : \A m \in T : n <= m
  BY <1>1, LeastNumber
<1>3. Min(T) = CHOOSE x \in T : \A y \in T : x <= y
  BY Zenon DEF Min
<1> QED BY <1>2, <1>3, Zenon

Times     == Clock \cup {NoTime}
RecordRow == [status : Statuses, in : Times, out : Times, late : Nat, early : Nat,
              worked : Nat, mixed : BOOLEAN]

\* What the record of an employee at work, or of one who was, says of its times.
Honest(x) ==
    /\ x.status \in {"OPEN", "CLOSED", "ADJUSTED"} => x.in \in Clock /\ x.late = LateBy(x.in)
    /\ x.status \in {"CLOSED", "ADJUSTED"} =>
           /\ x.out \in Clock /\ x.out > x.in
           /\ ~x.mixed => x.worked = x.out - x.in /\ x.early = EarlyBy(x.in, x.out)

AttendanceInv ==
    /\ now \in Clock
    /\ record \in [Record -> RecordRow] /\ leaving \in [Record -> Times] /\ correcting \in SUBSET Record
    /\ \A r \in Record : Honest(record[r])

LEMMA TimesFacts == Clock \subseteq Nat /\ NoTime \notin Clock /\ NoTime = -1
BY ClockAssumption DEF NoTime

LEMMA AttendanceInvInit == AttendanceInit => AttendanceInv
<1> SUFFICES ASSUME AttendanceInit PROVE AttendanceInv
  OBVIOUS
<1>1. now \in Clock
  BY LeastTime, ClockAssumption DEF AttendanceInit
<1>2. NoRecord \in RecordRow /\ Honest(NoRecord)
  BY DEF NoRecord, RecordRow, Statuses, Times, Honest
<1> QED BY <1>1, <1>2 DEF AttendanceInit, AttendanceInv, Times

LEMMA WrittenFacts ==
    ASSUME NEW r, NEW in \in Clock, NEW out \in Times, NEW status \in {"OPEN", "ADJUSTED"},
           status = "OPEN" <=> out = NoTime, out # NoTime => out > in
    PROVE  Written(r, status, in, out) \in RecordRow /\ Honest(Written(r, status, in, out))
<1>1. PICK late \in Nat : late = LateBy(in)
  BY VerdictTypes, TimesFacts
<1>2. PICK early \in Nat : early = IF out = NoTime THEN 0 ELSE EarlyBy(in, out)
  BY VerdictTypes, TimesFacts DEF Times
<1>3. PICK worked \in Nat : worked = IF out = NoTime THEN 0 ELSE out - in
  BY TimesFacts DEF Times
<1>4. PICK x : x = [status |-> status, in |-> in, out |-> out, late |-> late, early |-> early,
                    worked |-> worked, mixed |-> FALSE]
  OBVIOUS
<1>5. Written(r, status, in, out) = x
  BY <1>1, <1>2, <1>3, <1>4 DEF Written
<1>6. x \in RecordRow
  BY <1>4 DEF RecordRow, Times, Statuses
<1>7. Honest(x)
  BY <1>1, <1>2, <1>3, <1>4 DEF Honest, Times
<1> QED BY <1>5, <1>6, <1>7

\* One record is written.
LEMMA RecordWritten ==
    ASSUME AttendanceInv, NEW r \in Record, NEW x \in RecordRow, Honest(x), record' = [record EXCEPT ![r] = x],
           now' = now, leaving' \in [Record -> Times], correcting' \in SUBSET Record
    PROVE  AttendanceInv'
<1>1. record' \in [Record -> RecordRow] /\ \A q \in Record : Honest(record'[q])
  BY DEF AttendanceInv
<1>2. (\A q \in Record : Honest(record[q]))'
  BY <1>1 DEF Honest
<1> QED BY <1>1, <1>2 DEF AttendanceInv

LEMMA RewriteFacts ==
    ASSUME AttendanceInv, NEW r \in Record, NEW in \in Clock, NEW out \in Times, Rewrite(r, in, out)
    PROVE  \E x \in RecordRow : Honest(x) /\ record' = [record EXCEPT ![r] = x]
<1>1. PICK status \in {"OPEN", "ADJUSTED"} : status = IF out = NoTime THEN "OPEN" ELSE "ADJUSTED"
  OBVIOUS
<1>2. /\ record' = [record EXCEPT ![r] = Written(r, status, in, out)]
      /\ out # NoTime => out > in
  BY <1>1 DEF Rewrite, Written
<1> QED BY <1>1, <1>2, WrittenFacts

LEMMA ClockOutFacts ==
    ASSUME AttendanceInv, NEW r \in Record, ClockOutWrite(r)
    PROVE  \E x \in RecordRow : Honest(x) /\ record' = [record EXCEPT ![r] = x]
<1>1. PICK o \in RecordRow : o = record[r] /\ Honest(o) /\ o.status = "OPEN" /\ now > o.in
  BY DEF AttendanceInv, ClockOutWrite, Has
<1>2. PICK seen \in Clock : seen = leaving[r]
  BY DEF AttendanceInv, ClockOutWrite, Times
<1>3. PICK worked \in Nat : worked = Beyond(now, seen)
  BY <1>2, BeyondFacts, TimesFacts DEF AttendanceInv
<1>4. PICK early \in Nat : early = EarlyBy(seen, now)
  BY <1>2, VerdictTypes, TimesFacts DEF AttendanceInv
<1>5. PICK mixed \in BOOLEAN : mixed = (seen # o.in)
  OBVIOUS
<1>6. PICK x : x = [o EXCEPT !.status = "CLOSED", !.out = now, !.worked = worked, !.early = early, !.mixed = mixed]
  OBVIOUS
<1>7. now \in Clock /\ o.in \in Clock /\ o.late = LateBy(o.in)
  BY <1>1 DEF AttendanceInv, Honest
<1>8. x \in RecordRow
  BY <1>6, <1>7 DEF RecordRow, Statuses, Times
<1>9. /\ x.status = "CLOSED" /\ x.in = o.in /\ x.out = now /\ x.late = o.late /\ x.early = early
      /\ x.worked = worked /\ x.mixed = mixed
  BY <1>6 DEF RecordRow
<1>10. ~mixed => worked = now - o.in /\ early = EarlyBy(o.in, now)
  <2> SUFFICES ASSUME ~mixed PROVE worked = now - o.in /\ early = EarlyBy(o.in, now)
    OBVIOUS
  <2>1. seen = o.in
    BY <1>5
  <2>2. now \in Nat /\ seen \in Nat /\ now >= seen
    BY <1>1, <1>2, <1>7, <2>1, TimesFacts
  <2>3. Beyond(now, seen) = now - seen
    BY <2>2, BeyondFacts
  <2> QED BY <1>3, <1>4, <2>1, <2>3
<1>11. Honest(x)
  BY <1>1, <1>7, <1>9, <1>10 DEF Honest
<1>12. record' = [record EXCEPT ![r] = x]
  <2>1. record' = [record EXCEPT ![r].status = "CLOSED", ![r].out = now,
                                 ![r].worked = worked, ![r].early = early, ![r].mixed = mixed]
    BY <1>1, <1>2, <1>3, <1>4, <1>5 DEF ClockOutWrite
  <2> QED BY <1>1, <1>6, <2>1 DEF AttendanceInv, RecordRow
<1> QED BY <1>8, <1>11, <1>12

LEMMA AttendanceInvStep == AttendanceInv /\ [AttendanceNext]_attendanceVars => AttendanceInv'
<1> SUFFICES ASSUME AttendanceInv, [AttendanceNext]_attendanceVars PROVE AttendanceInv'
  OBVIOUS
<1>1. ASSUME UNCHANGED record, now' \in Clock, leaving' \in [Record -> Times], correcting' \in SUBSET Record
      PROVE  AttendanceInv'
  BY <1>1 DEF AttendanceInv, Honest
<1>2. CASE Tick
  <2>1. now' \in Clock
    BY <1>2, LeastTime DEF Tick
  <2> QED BY <1>1, <1>2, <2>1 DEF Tick, AttendanceInv
<1>3. ASSUME NEW r \in Record, ClockIn(r) PROVE AttendanceInv'
  <2>1. record' = [record EXCEPT ![r] = Written(r, "OPEN", now, NoTime)]
    BY <1>3 DEF ClockIn, Written
  <2>2. Written(r, "OPEN", now, NoTime) \in RecordRow /\ Honest(Written(r, "OPEN", now, NoTime))
    BY WrittenFacts DEF AttendanceInv, Times
  <2> QED BY <1>3, <2>1, <2>2, RecordWritten DEF ClockIn, AttendanceInv
<1>4. ASSUME NEW r \in Record, ClockOutRead(r) \/ ClockOutFails(r) \/ CorrectRead(r) \/ CorrectFails(r)
      PROVE  AttendanceInv'
  <2>1. UNCHANGED <<now, record>>
    BY <1>4 DEF ClockOutRead, ClockOutFails, CorrectRead, CorrectFails
  <2>2. record[r].in \in Times
    BY DEF AttendanceInv, RecordRow
  <2>3. leaving' \in [Record -> Times] /\ correcting' \in SUBSET Record
    BY <1>4, <2>2 DEF ClockOutRead, ClockOutFails, CorrectRead, CorrectFails, AttendanceInv, Times
  <2> QED BY <1>1, <2>1, <2>3 DEF AttendanceInv
<1>5. ASSUME NEW r \in Record, ClockOutWrite(r) PROVE AttendanceInv'
  <2>1. now' = now /\ leaving' \in [Record -> Times] /\ correcting' \in SUBSET Record
    BY <1>5 DEF ClockOutWrite, AttendanceInv, Times
  <2> QED BY <1>5, <2>1, ClockOutFacts, RecordWritten
<1>6. ASSUME NEW r \in Record, NEW in \in Clock, NEW out \in Times, Manual(r, in, out) \/ CorrectWrite(r, in, out)
      PROVE  AttendanceInv'
  <2>1. Rewrite(r, in, out) /\ now' = now /\ leaving' \in [Record -> Times] /\ correcting' \in SUBSET Record
    BY <1>6 DEF Manual, CorrectWrite, AttendanceInv
  <2> QED BY <2>1, RewriteFacts, RecordWritten
<1>7. ASSUME NEW r \in Record, Void(r) PROVE AttendanceInv'
  <2>1. PICK x : x = [record[r] EXCEPT !.status = "VOID"]
    OBVIOUS
  <2>2. record[r] \in RecordRow /\ record' = [record EXCEPT ![r].status = "VOID"]
    BY <1>7 DEF Void, AttendanceInv
  <2>3. x \in RecordRow /\ Honest(x) /\ record' = [record EXCEPT ![r] = x]
    BY <2>1, <2>2 DEF RecordRow, Statuses, Honest, AttendanceInv
  <2> QED BY <1>7, <2>3, RecordWritten DEF Void, AttendanceInv
<1>8. CASE UNCHANGED attendanceVars
  BY <1>1, <1>8 DEF attendanceVars, AttendanceInv
<1> QED BY <1>2, <1>3, <1>4, <1>5, <1>6, <1>7, <1>8 DEF AttendanceNext, Times

(***************************************************************************)
(* Attendance records, clock-outs under way and corrections are always of  *)
(* their types, for any records, clock, roster and policy.                 *)
(***************************************************************************)
THEOREM AttendanceIsTyped == AttendanceSpec => []AttendanceTypeOK
<1>1. AttendanceInv => AttendanceTypeOK
  BY DEF AttendanceInv, AttendanceTypeOK, RecordRow, Times
<1> QED BY <1>1, AttendanceInvInit, AttendanceInvStep, PTL DEF AttendanceSpec
(***************************************************************************)
(* The hours of a shift, cut into periods and dates.                       *)
(***************************************************************************)
LEMMA LeastOf ==
    ASSUME NEW S \in SUBSET Int, NEW m \in S, \A x \in S : m <= x
    PROVE  Min(S) = m
<1>1. Min(S) = CHOOSE x \in S : \A y \in S : x <= y
  BY Zenon DEF Min
<1>2. \E x \in S : \A y \in S : x <= y
  OBVIOUS
<1>3. PICK x \in S : x = Min(S) /\ \A y \in S : x <= y
  BY <1>1, <1>2, Zenon
<1>4. x \in Int /\ m \in Int /\ x <= m /\ m <= x
  BY <1>3
<1>5. x = m
  BY <1>4
<1> QED BY <1>3, <1>5, Zenon

LEMMA GreatestOf ==
    ASSUME NEW S \in SUBSET Int, NEW m \in S, \A x \in S : x <= m
    PROVE  Max(S) = m
<1>1. Max(S) = CHOOSE x \in S : \A y \in S : x >= y
  BY Zenon DEF Max
<1>2. \E x \in S : \A y \in S : x >= y
  OBVIOUS
<1>3. PICK x \in S : x = Max(S) /\ \A y \in S : x >= y
  BY <1>1, <1>2, Zenon
<1>4. x \in Int /\ m \in Int /\ x <= m /\ m <= x
  BY <1>3
<1>5. x = m
  BY <1>4
<1> QED BY <1>3, <1>5, Zenon

LEMMA LeastOfTwo ==
    ASSUME NEW a \in Int, NEW b \in Int
    PROVE  Min({a, b}) = IF a <= b THEN a ELSE b
<1>1. CASE a <= b
  BY <1>1, LeastOf
<1>2. CASE ~(a <= b)
  BY <1>2, LeastOf
<1> QED BY <1>1, <1>2

LEMMA GreatestOfTwo ==
    ASSUME NEW a \in Int, NEW b \in Int
    PROVE  Max({a, b}) = IF a <= b THEN b ELSE a
<1>1. CASE a <= b
  BY <1>1, GreatestOf
<1>2. CASE ~(a <= b)
  BY <1>2, GreatestOf
<1> QED BY <1>1, <1>2

\* A shift, and the time of it that is nearest to t.
IsShift(s)   == s.in \in Nat /\ s.out \in Nat /\ s.in < s.out
Within(s, t) == IF t < s.in THEN s.in ELSE IF t > s.out THEN s.out ELSE t

LEMMA WithinFacts ==
    ASSUME NEW s, IsShift(s), NEW t \in Nat
    PROVE  /\ Within(s, t) \in Nat
           /\ (t <= s.in => Within(s, t) = s.in) /\ (t >= s.out => Within(s, t) = s.out)
BY DEF IsShift, Within

LEMMA OverlapIsStep ==
    ASSUME NEW s, IsShift(s), NEW from \in Nat, NEW to \in Nat, from <= to
    PROVE  Overlap(s, from, to) = Within(s, to) - Within(s, from)
<1>1. PICK in \in Nat, out \in Nat : in = s.in /\ out = s.out /\ in < out
  BY DEF IsShift
<1>2. PICK high \in Nat : high = Min({s.out, to}) /\ high = IF out <= to THEN out ELSE to
  BY <1>1, LeastOfTwo
<1>3. PICK low \in Nat : low = Max({s.in, from}) /\ low = IF in <= from THEN from ELSE in
  BY <1>1, GreatestOfTwo
<1>4. Overlap(s, from, to) = Beyond(high, low)
  BY <1>2, <1>3 DEF Overlap
<1>5. Beyond(high, low) = IF high > low THEN high - low ELSE 0
  BY DEF Beyond
<1>6. Within(s, to) = IF to < in THEN in ELSE IF to > out THEN out ELSE to
  BY <1>1 DEF Within
<1>7. Within(s, from) = IF from < in THEN in ELSE IF from > out THEN out ELSE from
  BY <1>1 DEF Within
<1>8. PICK before \in Nat, after \in Nat :
         /\ before = Within(s, from) /\ after = Within(s, to)
         /\ before = (IF from < in THEN in ELSE IF from > out THEN out ELSE from)
         /\ after = (IF to < in THEN in ELSE IF to > out THEN out ELSE to)
  BY <1>6, <1>7
<1>9. CASE to <= in
  <2>1. before = in /\ after = in /\ high <= low
    BY <1>1, <1>2, <1>3, <1>8, <1>9
  <2> QED BY <1>4, <1>5, <1>8, <2>1
<1>10. CASE from >= out
  <2>1. before = out /\ after = out /\ high <= low
    BY <1>1, <1>2, <1>3, <1>8, <1>10
  <2> QED BY <1>4, <1>5, <1>8, <2>1
<1>11. CASE to > in /\ from < out
  <2>1. before = low /\ after = high /\ low <= high
    BY <1>1, <1>2, <1>3, <1>8, <1>11
  <2> QED BY <1>4, <1>5, <1>8, <2>1
<1> QED BY <1>1, <1>9, <1>10, <1>11

\* A shift on a period that it touches, when it is not longer than allowed.
LEMMA CutIsWithin ==
    ASSUME NEW s, IsShift(s), s.out - s.in <= Policy.maxShift,
           NEW p, p.start \in Nat, p.end \in Nat, p.start < p.end, s.in < p.end, s.out > p.start
    PROVE  /\ Cut(s, p) = [in |-> Within(s, p.start), out |-> Within(s, p.end)]
           /\ Within(s, p.start) < Within(s, p.end)
<1>1. PICK in \in Nat, out \in Nat : in = s.in /\ out = s.out /\ in < out
  BY DEF IsShift
<1>2. PICK start \in Nat, end \in Nat : start = p.start /\ end = p.end /\ start < end
  OBVIOUS
<1>3. PICK longest \in Nat : longest = Policy.maxShift
  BY PolicyAssumption
<1>4. PICK from \in Nat : from = Max({s.in, p.start}) /\ from = IF in <= start THEN start ELSE in
  BY <1>1, <1>2, GreatestOfTwo
<1>5. PICK to \in Nat : to = IF out <= end THEN out ELSE end
  BY <1>1, <1>2
<1>6. out - in <= longest /\ in < end /\ out > start
  BY <1>1, <1>2, <1>3
<1>7. from + longest \in Int /\ to <= from + longest /\ to <= out /\ to <= end
  <2>1. in <= from
    BY <1>4
  <2>2. to <= out /\ to <= end
    BY <1>5
  <2>3. out <= in + longest
    BY <1>6
  <2> QED BY <2>1, <2>2, <2>3
<1>8. Min({out, end, from + longest}) = to
  <2>1. {out, end, from + longest} \in SUBSET Int /\ to \in {out, end, from + longest}
        /\ \A x \in {out, end, from + longest} : to <= x
    BY <1>5, <1>7
  <2> QED BY <2>1, LeastOf
<1>9. Cut(s, p) = [in |-> from, out |-> to]
  BY <1>1, <1>2, <1>3, <1>4, <1>8 DEF Cut
<1>10. Within(s, p.start) = from /\ Within(s, p.end) = to /\ from < to
  <2>1. Within(s, p.start) = IF start < in THEN in ELSE IF start > out THEN out ELSE start
    BY <1>1, <1>2 DEF Within
  <2>2. Within(s, p.end) = IF end < in THEN in ELSE IF end > out THEN out ELSE end
    BY <1>1, <1>2 DEF Within
  <2>3. Within(s, p.start) = from
    BY <1>4, <1>6, <2>1
  <2>4. Within(s, p.end) = to
    BY <1>5, <1>6, <2>2
  <2>5. from < to
    <3>1. in < to /\ start < to
      BY <1>1, <1>2, <1>5, <1>6
    <3> QED BY <1>4, <3>1
  <2> QED BY <2>3, <2>4, <2>5
<1> QED BY <1>9, <1>10

LEMMA DateBegins ==
    ASSUME NEW t \in Nat
    PROVE  DateOf(t) \in Nat /\ 24 * DateOf(t) <= t /\ t < 24 * (DateOf(t) + 1)
<1>1. PICK d \in Nat, h \in 0 .. 23 : d = DateOf(t) /\ t = 24 * d + h
  BY DateFacts
<1> QED BY <1>1

\* The dates of a shift share it out between them.
LEMMA DatesShareShift ==
    ASSUME NEW s, IsShift(s),
           NEW f, \A d \in DatesOf(s) : f[d] = Overlap(s, Midnight(d), Midnight(d + 1))
    PROVE  /\ SumOver(f, DatesOf(s)) = s.out - s.in
           /\ DatesOf(s) \subseteq Nat /\ IsFiniteSet(DatesOf(s))
           /\ DateOf(s.in) \in DatesOf(s)
<1>1. PICK in \in Nat, out \in Nat : in = s.in /\ out = s.out /\ in < out
  BY DEF IsShift
<1>2. out - 1 \in Nat
  BY <1>1
<1>3. PICK first \in Nat : first = DateOf(in) /\ 24 * first <= in /\ in < 24 * (first + 1)
  BY DateBegins
<1>4. PICK last \in Nat : last = DateOf(out - 1) /\ 24 * last <= out - 1 /\ out <= 24 * (last + 1)
  <2>1. /\ DateOf(out - 1) \in Nat
        /\ 24 * DateOf(out - 1) <= out - 1 /\ out - 1 < 24 * (DateOf(out - 1) + 1)
    BY <1>2, DateBegins
  <2> QED BY <1>2, <2>1
<1>5. first <= last
  BY <1>1, <1>3, <1>4
<1>6. DatesOf(s) = first .. last
  BY <1>1, <1>3, <1>4 DEF DatesOf
<1> DEFINE h == [d \in first .. last + 1 |-> Within(s, Midnight(d))]
<1>7. \A d \in first .. last + 1 : Midnight(d) \in Nat /\ h[d] \in Int
  BY WithinFacts DEF Midnight, DayLength
<1>8. ASSUME NEW d \in first .. last PROVE f[d] = h[d + 1] - h[d]
  <2>1. d \in first .. last + 1 /\ d + 1 \in first .. last + 1 /\ Midnight(d) <= Midnight(d + 1)
    BY DEF Midnight, DayLength
  <2>2. f[d] = Overlap(s, Midnight(d), Midnight(d + 1))
    BY <1>6
  <2>3. Overlap(s, Midnight(d), Midnight(d + 1)) = Within(s, Midnight(d + 1)) - Within(s, Midnight(d))
    BY <2>1, <1>7, OverlapIsStep
  <2> QED BY <2>1, <2>2, <2>3
<1>9. h[first] = in /\ h[last + 1] = out
  <2>1. Midnight(first) <= in /\ Midnight(last + 1) >= out /\ Midnight(first) \in Nat /\ Midnight(last + 1) \in Nat
    BY <1>3, <1>4 DEF Midnight, DayLength
  <2>2. Within(s, Midnight(first)) = in /\ Within(s, Midnight(last + 1)) = out
    BY <1>1, <2>1, WithinFacts
  <2>3. first \in first .. last + 1 /\ last + 1 \in first .. last + 1
    BY <1>5
  <2> QED BY <2>2, <2>3
<1>10. SumOver(f, first .. last) = h[last + 1] - h[first]
  <2>1. /\ first \in Nat /\ last \in Nat /\ first <= last
        /\ \A d \in first .. last + 1 : h[d] \in Int
        /\ \A d \in first .. last : f[d] = h[d + 1] - h[d]
    BY <1>5, <1>7, <1>8
  <2> HIDE DEF h
  <2> QED BY ONLY <2>1, SumOfSteps
<1>11. IsFiniteSet(first .. last)
  BY FS_Interval
<1>12. SumOver(f, DatesOf(s)) = s.out - s.in
  <2> HIDE DEF h
  <2> QED BY <1>1, <1>6, <1>9, <1>10
<1> QED BY <1>1, <1>3, <1>5, <1>6, <1>11, <1>12
\* The hours of the shift r on the date d.
HoursOn(s, r, d) ==
    IF d \in DatesOf(s[r]) THEN Overlap(s[r], Midnight(d), Midnight(d + 1)) ELSE 0

LEMMA HoursOnFacts ==
    ASSUME NEW s, NEW r \in DOMAIN s, IsShift(s[r]), NEW d \in Nat
    PROVE  HoursOn(s, r, d) \in Int
<1>1. Midnight(d) \in Nat /\ Midnight(d + 1) \in Nat /\ Midnight(d) <= Midnight(d + 1)
  BY DEF Midnight, DayLength
<1>2. Within(s[r], Midnight(d + 1)) \in Int /\ Within(s[r], Midnight(d)) \in Int
  BY <1>1, WithinFacts
<1>3. Overlap(s[r], Midnight(d), Midnight(d + 1)) = Within(s[r], Midnight(d + 1)) - Within(s[r], Midnight(d))
  BY <1>1, OverlapIsStep
<1>4. Overlap(s[r], Midnight(d), Midnight(d + 1)) \in Int
  BY <1>2, <1>3
<1> QED BY <1>4 DEF HoursOn

LEMMA DatesFacts ==
    ASSUME NEW s, IsFiniteSet(DOMAIN s), \A r \in DOMAIN s : IsShift(s[r])
    PROVE  /\ Dates(s) \subseteq Nat /\ IsFiniteSet(Dates(s))
           /\ \A r \in DOMAIN s : DatesOf(s[r]) \subseteq Dates(s)
<1>1. \A r \in DOMAIN s : DatesOf(s[r]) \subseteq Nat /\ IsFiniteSet(DatesOf(s[r]))
  <2> TAKE r \in DOMAIN s
  <2>1. PICK f : \A d \in DatesOf(s[r]) : f[d] = Overlap(s[r], Midnight(d), Midnight(d + 1))
    <3>1. \A d \in DatesOf(s[r]) :
             [e \in DatesOf(s[r]) |-> Overlap(s[r], Midnight(e), Midnight(e + 1))][d]
                 = Overlap(s[r], Midnight(d), Midnight(d + 1))
      OBVIOUS
    <3> QED BY <3>1, Zenon
  <2> QED BY <2>1, DatesShareShift
<1> DEFINE all == {DatesOf(s[r]) : r \in DOMAIN s}
<1>2. IsFiniteSet(all)
  <2> DEFINE f == [r \in DOMAIN s |-> DatesOf(s[r])]
  <2>1. all = {f[r] : r \in DOMAIN s}
    OBVIOUS
  <2> HIDE DEF f, all
  <2> QED BY <2>1, FiniteValues
<1>3. \A T \in all : IsFiniteSet(T)
  BY <1>1
<1>4. IsFiniteSet(UNION all)
  BY <1>2, <1>3, FS_UNION
<1> QED BY <1>1, <1>4 DEF Dates

\* What an entry of `daily` says: the hours of every shift on its date.
LEMMA EntryHours ==
    ASSUME NEW s, IsFiniteSet(DOMAIN s), \A r \in DOMAIN s : IsShift(s[r]), NEW d \in Nat
    PROVE  /\ Entry(s, d).hours = SumOver([r \in DOMAIN s |-> HoursOn(s, r, d)], DOMAIN s)
           /\ Entry(s, d).hours \in Int
           /\ Entry(s, d).scheduled => Rostered(d)
<1> DEFINE on == {r \in DOMAIN s : d \in DatesOf(s[r])}
           overlap == [r \in on |-> Overlap(s[r], Midnight(d), Midnight(d + 1))]
           every == [r \in DOMAIN s |-> HoursOn(s, r, d)]
<1>1. Entry(s, d).hours = Total(overlap) /\ (Entry(s, d).scheduled => Rostered(d))
  BY DEF Entry
<1>2. Total(overlap) = SumOver(overlap, on)
  <2>1. DOMAIN overlap = on
    OBVIOUS
  <2> HIDE DEF overlap
  <2> QED BY <2>1, FoldIsSum, Zenon DEF Total
<1>3. IsFiniteSet(on) /\ on \subseteq DOMAIN s
  BY FS_Subset
<1>4. \A r \in DOMAIN s : every[r] \in Int
  BY HoursOnFacts
<1>5. \A r \in on : every[r] \in Int /\ overlap[r] = every[r]
  BY <1>4 DEF HoursOn
<1>6. \A r \in DOMAIN s \ on : every[r] = 0
  BY DEF HoursOn
<1> HIDE DEF on, overlap, every
<1>7. SumOver(overlap, on) = SumOver(every, on)
  BY <1>3, <1>5, SumAgree
<1>8. SumOver(every, DOMAIN s) = SumOver(every, on) /\ SumOver(every, DOMAIN s) \in Int
  BY <1>3, <1>4, <1>6, SumOnPart, SumTakesOne
<1> USE DEF every
<1> QED BY <1>1, <1>2, <1>7, <1>8

\* The hours of all dates are those of all shifts.
LEMMA HoursOfDates ==
    ASSUME NEW s, IsFiniteSet(DOMAIN s), \A r \in DOMAIN s : IsShift(s[r])
    PROVE  SumOver([d \in Dates(s) |-> Entry(s, d).hours], Dates(s))
             = SumOver([r \in DOMAIN s |-> s[r].out - s[r].in], DOMAIN s)
<1> DEFINE R == DOMAIN s
           D == Dates(s)
           hours == [r \in R |-> [d \in D |-> HoursOn(s, r, d)]]
           byShift == [r \in R |-> SumOver(hours[r], D)]
           byDate  == [d \in D |-> SumOver([r \in R |-> hours[r][d]], R)]
           lengths == [r \in R |-> s[r].out - s[r].in]
           entries == [d \in D |-> Entry(s, d).hours]
<1>1. D \subseteq Nat /\ IsFiniteSet(D) /\ IsFiniteSet(R) /\ \A r \in R : DatesOf(s[r]) \subseteq D
  BY DatesFacts
<1>2. \A r \in R, d \in D : hours[r][d] = HoursOn(s, r, d) /\ hours[r][d] \in Int
  BY <1>1, HoursOnFacts
<1>3. \A r \in R : lengths[r] \in Int /\ byShift[r] = lengths[r]
  <2> SUFFICES ASSUME NEW r \in R PROVE lengths[r] \in Int /\ SumOver(hours[r], D) = lengths[r]
    OBVIOUS
  <2>1. \A d \in DatesOf(s[r]) : hours[r][d] = Overlap(s[r], Midnight(d), Midnight(d + 1))
    BY <1>1 DEF HoursOn
  <2>2. SumOver(hours[r], DatesOf(s[r])) = s[r].out - s[r].in
    <3> HIDE DEF hours
    <3> QED BY <2>1, DatesShareShift
  <2>3. \A d \in D \ DatesOf(s[r]) : hours[r][d] = 0
    BY DEF HoursOn
  <2>4. SumOver(hours[r], D) = SumOver(hours[r], DatesOf(s[r]))
    <3> HIDE DEF hours
    <3> QED BY <1>1, <1>2, <2>3, SumOnPart
  <2>5. lengths[r] = s[r].out - s[r].in /\ lengths[r] \in Int
    BY DEF IsShift
  <2> HIDE DEF hours, lengths
  <2> QED BY <2>2, <2>4, <2>5
<1>4. \A d \in D : entries[d] \in Int /\ byDate[d] = entries[d]
  <2> SUFFICES ASSUME NEW d \in D PROVE entries[d] \in Int /\ byDate[d] = entries[d]
    OBVIOUS
  <2>1. [r \in R |-> hours[r][d]] = [r \in R |-> HoursOn(s, r, d)]
    OBVIOUS
  <2>2. byDate[d] = SumOver([r \in R |-> HoursOn(s, r, d)], R)
    <3> HIDE DEF hours
    <3> QED BY <2>1
  <2>3. /\ Entry(s, d).hours = SumOver([r \in R |-> HoursOn(s, r, d)], R)
        /\ Entry(s, d).hours \in Int
    BY <1>1, EntryHours
  <2>4. entries[d] = Entry(s, d).hours
    OBVIOUS
  <2> HIDE DEF byDate, entries
  <2> QED BY <2>2, <2>3, <2>4
<1>5. SumOver(byShift, R) = SumOver(byDate, D)
  <2> HIDE DEF hours, R, D
  <2> QED BY <1>1, <1>2, SumSwap
<1>6. SumOver(byShift, R) = SumOver(lengths, R)
  <2> HIDE DEF byShift, lengths, R, D
  <2> QED BY <1>1, <1>3, SumAgree
<1>7. SumOver(byDate, D) = SumOver(entries, D)
  <2> HIDE DEF byDate, entries, R, D
  <2> QED BY <1>1, <1>4, SumAgree
<1> QED BY <1>5, <1>6, <1>7, Zenon
TotalHours(work) == work.regular + work.overtime + work.weekend + work.holiday

LEMMA TotalIsSum ==
    ASSUME NEW f, NEW S, DOMAIN f = S
    PROVE  Total(f) = SumOver(f, S)
BY FoldIsSum, Zenon DEF Total

\* Every date counts once: of an ordinary day, a weekend or a holiday.
LEMMA EveryDateCounts ==
    ASSUME NEW shifts, NEW p, NEW s, s = Counted(shifts, p),
           IsFiniteSet(DOMAIN s), \A r \in DOMAIN s : IsShift(s[r])
    PROVE  TotalHours(CalculatePayrollWork(shifts, p))
             = SumOver([r \in DOMAIN s |-> s[r].out - s[r].in], DOMAIN s)
<1> DEFINE D == Dates(s)
           entry == [d \in D |-> Entry(s, d)]
           of(kind) == {d \in D : Kind(d) = kind}
           hours(T) == Total([d \in T |-> entry[d].hours])
           beyond == [d \in of("working") |-> Beyond(entry[d].hours, Threshold(entry[d], d))]
           overtime == Total(beyond)
           entries == [d \in D |-> Entry(s, d).hours]
<1>1. D \subseteq Nat /\ IsFiniteSet(D)
  BY DatesFacts
<1>2. /\ CalculatePayrollWork(shifts, p).regular = hours(of("working")) - overtime
      /\ CalculatePayrollWork(shifts, p).overtime = overtime
      /\ CalculatePayrollWork(shifts, p).weekend = hours(of("weekend"))
      /\ CalculatePayrollWork(shifts, p).holiday = hours(of("holiday"))
  BY DEF CalculatePayrollWork
<1>3. \A d \in D : entries[d] \in Int /\ entries[d] = entry[d].hours /\ (entry[d].scheduled => Rostered(d))
  BY <1>1, EntryHours
<1>4. \A T \in SUBSET D : hours(T) = SumOver(entries, T) /\ SumOver(entries, T) \in Int
  <2> TAKE T \in SUBSET D
  <2> DEFINE f == [d \in T |-> entry[d].hours]
  <2>1. DOMAIN f = T /\ \A d \in T : entries[d] \in Int /\ f[d] = entries[d]
    BY <1>3
  <2>2. IsFiniteSet(T)
    BY <1>1, FS_Subset
  <2> HIDE DEF f, entries
  <2>3. Total(f) = SumOver(f, T)
    BY <2>1, TotalIsSum
  <2>4. SumOver(f, T) = SumOver(entries, T) /\ SumOver(entries, T) \in Int
    BY <2>1, <2>2, SumAgree, SumTakesOne
  <2> QED BY <2>3, <2>4 DEF f
<1>5. overtime \in Int
  <2>1. \A d \in of("working") : beyond[d] \in Int
    <3> SUFFICES ASSUME NEW d \in of("working") PROVE beyond[d] \in Int
      OBVIOUS
    <3>1. d \in Nat /\ d \in D
      BY <1>1
    <3>2. PICK e : e = entry[d] /\ e.hours \in Int /\ (e.scheduled => Rostered(d))
      BY <1>3, <3>1
    <3>3. CASE e.scheduled
      <4>1. /\ RosterOf(d).start \in 0 .. 23 /\ RosterEnd(d) \in Nat
        BY <3>1, <3>2, <3>3, RosterFacts
      <4>2. PICK threshold \in Int : threshold = Threshold(e, d)
        BY <3>3, <4>1 DEF Threshold
      <4>3. Beyond(e.hours, threshold) \in Nat
        BY <3>2, BeyondFacts
      <4> QED BY <3>1, <3>2, <4>2, <4>3
    <3>4. CASE ~e.scheduled
      <4>1. PICK threshold \in Int : threshold = Threshold(e, d)
        BY <3>4, PolicyAssumption DEF Threshold
      <4>2. Beyond(e.hours, threshold) \in Nat
        BY <3>2, BeyondFacts
      <4> QED BY <3>1, <3>2, <4>1, <4>2
    <3> QED BY <3>3, <3>4
  <2>2. DOMAIN beyond = of("working") /\ IsFiniteSet(of("working"))
    BY <1>1, FS_Subset
  <2> HIDE DEF beyond, of
  <2> QED BY <2>1, <2>2, TotalIsSum, SumTakesOne
<1>6. /\ of("working") \in SUBSET D /\ of("weekend") \in SUBSET D /\ of("holiday") \in SUBSET D
      /\ D = (of("working") \cup of("weekend")) \cup of("holiday")
      /\ of("working") \cap of("weekend") = {}
      /\ (of("working") \cup of("weekend")) \cap of("holiday") = {}
  BY DEF Kind
<1>7. /\ IsFiniteSet(of("working")) /\ IsFiniteSet(of("weekend")) /\ IsFiniteSet(of("holiday"))
      /\ IsFiniteSet(of("working") \cup of("weekend"))
  BY <1>1, <1>6, FS_Subset, FS_Union
<1> HIDE DEF of, entries
<1>8. SumOver(entries, of("working") \cup of("weekend"))
        = SumOver(entries, of("working")) + SumOver(entries, of("weekend"))
  BY <1>3, <1>6, <1>7, SumOfUnion
<1>9. SumOver(entries, (of("working") \cup of("weekend")) \cup of("holiday"))
        = SumOver(entries, of("working") \cup of("weekend")) + SumOver(entries, of("holiday"))
  BY <1>3, <1>6, <1>7, SumOfUnion
<1>10. SumOver(entries, D)
        = SumOver(entries, of("working")) + SumOver(entries, of("weekend")) + SumOver(entries, of("holiday"))
  BY <1>6, <1>8, <1>9, Zenon
<1>11. SumOver(entries, D) = SumOver([r \in DOMAIN s |-> s[r].out - s[r].in], DOMAIN s)
  BY HoursOfDates DEF entries
<1>12. PICK working \in Int, weekend \in Int, holiday \in Int :
          /\ working = SumOver(entries, of("working")) /\ working = hours(of("working"))
          /\ weekend = SumOver(entries, of("weekend")) /\ weekend = hours(of("weekend"))
          /\ holiday = SumOver(entries, of("holiday")) /\ holiday = hours(of("holiday"))
  BY <1>4, <1>6
<1> HIDE DEF hours, overtime
<1>13. TotalHours(CalculatePayrollWork(shifts, p)) = working + weekend + holiday
  BY <1>2, <1>5, <1>12 DEF TotalHours
<1> QED BY <1>10, <1>11, <1>12, <1>13

\* The rows of a period, none longer than allowed, count for the part of them
\* that lies in it.
RowsOf(p) == [r \in AttendanceRows(p) |-> [in |-> record[r].in, out |-> record[r].out]]

LEMMA RowFacts ==
    ASSUME AttendanceInv, NEW p, NEW r \in AttendanceRows(p)
    PROVE  /\ IsShift(record[r]) /\ r \in Record
           /\ ~record[r].mixed => record[r].worked = record[r].out - record[r].in
BY TimesFacts DEF AttendanceInv, AttendanceRows, Has, Honest, IsShift

LEMMA PeriodPays ==
    ASSUME AttendanceInv, NEW p, p.start \in Nat, p.end \in Nat, p.start < p.end,
           \A r \in AttendanceRows(p) : record[r].out - record[r].in <= Policy.maxShift
    PROVE  /\ IsFiniteSet(AttendanceRows(p))
           /\ HoursWorked(p)
                = SumOver([r \in AttendanceRows(p) |-> Within(record[r], p.end) - Within(record[r], p.start)],
                          AttendanceRows(p))
<1> DEFINE R == AttendanceRows(p)
           shifts == RowsOf(p)
           s == Counted(shifts, p)
           parts == [r \in R |-> Within(record[r], p.end) - Within(record[r], p.start)]
<1>1. IsFiniteSet(R)
  BY RecordAssumption, FS_Subset DEF AttendanceRows
<1>2. ASSUME NEW r \in R
      PROVE  /\ Cut(shifts[r], p) = [in |-> Within(record[r], p.start), out |-> Within(record[r], p.end)]
             /\ Within(record[r], p.start) < Within(record[r], p.end)
             /\ Within(record[r], p.start) \in Nat /\ Within(record[r], p.end) \in Nat
  <2>1. IsShift(record[r]) /\ record[r].in < p.end /\ record[r].out > p.start
    BY RowFacts DEF AttendanceRows
  <2>2. shifts[r] = [in |-> record[r].in, out |-> record[r].out]
    BY DEF RowsOf
  <2>3. PICK x : x = shifts[r] /\ x.in = record[r].in /\ x.out = record[r].out
    BY <2>2
  <2>4. IsShift(x) /\ x.out - x.in <= Policy.maxShift
    BY <2>1, <2>3 DEF IsShift
  <2>5. /\ Cut(x, p) = [in |-> Within(x, p.start), out |-> Within(x, p.end)]
        /\ Within(x, p.start) < Within(x, p.end)
    BY <2>1, <2>3, <2>4, CutIsWithin
  <2>6. Within(x, p.start) \in Nat /\ Within(x, p.end) \in Nat
    BY <2>4, WithinFacts
  <2>7. Within(x, p.start) = Within(record[r], p.start) /\ Within(x, p.end) = Within(record[r], p.end)
    BY <2>3 DEF Within
  <2> QED BY <2>3, <2>5, <2>6, <2>7
<1>3. DOMAIN shifts = R
  BY DEF RowsOf
<1>4. DOMAIN s = R /\ \A r \in R : s[r] = Cut(shifts[r], p)
  <2>1. ASSUME NEW r \in R PROVE Cut(shifts[r], p).out > Cut(shifts[r], p).in
    <3>1. PICK from \in Nat, to \in Nat : from = Within(record[r], p.start) /\ to = Within(record[r], p.end) /\ from < to
      BY <1>2
    <3>2. Cut(shifts[r], p) = [in |-> from, out |-> to]
      BY <1>2, <3>1
    <3> QED BY <3>1, <3>2
  <2> HIDE DEF R, shifts
  <2> QED BY <1>3, <2>1 DEF Counted
<1>5. \A r \in R : IsShift(s[r]) /\ s[r].out - s[r].in = Within(record[r], p.end) - Within(record[r], p.start)
  <2> TAKE r \in R
  <2>1. PICK from \in Nat, to \in Nat : from = Within(record[r], p.start) /\ to = Within(record[r], p.end) /\ from < to
    BY <1>2
  <2>2. s[r] = [in |-> from, out |-> to]
    BY <1>2, <1>4, <2>1
  <2> HIDE DEF s, R
  <2> QED BY <2>1, <2>2 DEF IsShift
<1>6. [r \in DOMAIN s |-> s[r].out - s[r].in] = parts
  BY <1>4, <1>5
<1>7. TotalHours(CalculatePayrollWork(shifts, p)) = SumOver([r \in DOMAIN s |-> s[r].out - s[r].in], DOMAIN s)
  <2>1. PICK t : t = s
    OBVIOUS
  <2>2. t = Counted(shifts, p) /\ IsFiniteSet(DOMAIN t) /\ \A r \in DOMAIN t : IsShift(t[r])
    BY <1>1, <1>4, <1>5, <2>1
  <2> HIDE DEF s, shifts
  <2> QED BY <2>1, <2>2, EveryDateCounts
<1>8. HoursWorked(p) = TotalHours(CalculatePayrollWork(shifts, p))
  BY DEF HoursWorked, Work, TotalHours, RowsOf
<1> HIDE DEF R, s, parts
<1>9. HoursWorked(p) = SumOver(parts, R)
  BY <1>4, <1>6, <1>7, <1>8, Zenon
<1> QED BY <1>1, <1>9 DEF parts, R
LEMMA BoundsInOrder ==
    /\ Len(Bounds) \in Nat /\ \A i \in 1 .. Len(Bounds) : Bounds[i] \in Nat
    /\ \A i, j \in 1 .. Len(Bounds) : i < j => Bounds[i] < Bounds[j]
<1>1. PICK n \in Nat : n = Len(Bounds)
  BY BoundsAssumption
<1>2. \A i \in 1 .. n : Bounds[i] \in Nat
  BY <1>1, BoundsAssumption
<1>3. \A i \in 2 .. n : Bounds[i - 1] < Bounds[i]
  BY <1>1, BoundsAssumption
<1> DEFINE Good == {k \in Nat : \A i \in 1 .. n : i + k + 1 \in 1 .. n => Bounds[i] < Bounds[i + k + 1]}
<1>4. 0 \in Good
  <2> SUFFICES ASSUME NEW i \in 1 .. n, i + 0 + 1 \in 1 .. n PROVE Bounds[i] < Bounds[i + 0 + 1]
    OBVIOUS
  <2>1. i + 1 \in 2 .. n /\ (i + 1) - 1 = i /\ i + 0 + 1 = i + 1
    OBVIOUS
  <2>2. Bounds[(i + 1) - 1] < Bounds[i + 1]
    BY <1>3, <2>1
  <2> QED BY <2>1, <2>2
<1>5. ASSUME NEW k \in Nat, k \in Good PROVE k + 1 \in Good
  <2> SUFFICES ASSUME NEW i \in 1 .. n, i + (k + 1) + 1 \in 1 .. n PROVE Bounds[i] < Bounds[i + (k + 1) + 1]
    OBVIOUS
  <2>1. PICK j \in 2 .. n : j = i + (k + 1) + 1
    OBVIOUS
  <2>2. j - 1 = i + k + 1 /\ j - 1 \in 1 .. n
    BY <2>1
  <2>3. Bounds[i] < Bounds[j - 1]
    BY <1>5, <2>2
  <2>4. Bounds[j - 1] < Bounds[j] /\ Bounds[i] \in Nat /\ Bounds[j] \in Nat /\ Bounds[j - 1] \in Nat
    BY <1>2, <1>3, <2>2
  <2> QED BY <2>1, <2>3, <2>4
<1>6. Nat \subseteq Good
  <2> HIDE DEF Good
  <2> QED BY <1>4, <1>5, NumberInduction
<1>7. \A i, j \in 1 .. n : i < j => Bounds[i] < Bounds[j]
  <2> SUFFICES ASSUME NEW i \in 1 .. n, NEW j \in 1 .. n, i < j PROVE Bounds[i] < Bounds[j]
    OBVIOUS
  <2>1. PICK k \in Nat : k = j - i - 1
    OBVIOUS
  <2>2. k \in Good
    <3> HIDE DEF Good
    <3> QED BY <1>6
  <2>3. i + k + 1 = j
    BY <2>1
  <2> QED BY <2>2, <2>3
<1> QED BY <1>1, <1>2, <1>7

PeriodOf(i) == [start |-> Bounds[i], end |-> Bounds[i + 1]]
Indices     == 1 .. Len(Bounds) - 1

LEMMA PeriodsFacts ==
    /\ PayPeriods = {PeriodOf(i) : i \in Indices}
    /\ \A i, j \in Indices : PeriodOf(i) = PeriodOf(j) => i = j
    /\ \A p \in PayPeriods : p.start \in Nat /\ p.end \in Nat /\ p.start < p.end
    /\ IsFiniteSet(Indices) /\ IsFiniteSet(PayPeriods)
<1>1. PICK n \in Nat : n = Len(Bounds)
  BY BoundsInOrder
<1>2. PayPeriods = {PeriodOf(i) : i \in Indices}
  <2>1. ASSUME NEW p \in PayPeriods PROVE p \in {PeriodOf(i) : i \in Indices}
    <3>1. PICK i \in 2 .. n : p = [start |-> Bounds[i - 1], end |-> Bounds[i]]
      BY <1>1 DEF PayPeriods
    <3>2. PICK j \in Indices : j = i - 1 /\ i = j + 1
      BY <1>1 DEF Indices
    <3>3. p = PeriodOf(j)
      BY <3>1, <3>2 DEF PeriodOf
    <3> QED BY <3>3
  <2>2. ASSUME NEW i \in Indices PROVE PeriodOf(i) \in PayPeriods
    <3>1. PICK j \in 2 .. Len(Bounds) : j = i + 1 /\ j - 1 = i
      BY <1>1 DEF Indices
    <3>2. PeriodOf(i) = [start |-> Bounds[j - 1], end |-> Bounds[j]]
      BY <3>1 DEF PeriodOf
    <3> QED BY <3>2 DEF PayPeriods
  <2> QED BY <2>1, <2>2
<1>3. \A i \in Indices : /\ i \in 1 .. n /\ i + 1 \in 1 .. n /\ i < i + 1
                         /\ Bounds[i] \in Nat /\ Bounds[i + 1] \in Nat /\ Bounds[i] < Bounds[i + 1]
  BY <1>1, BoundsInOrder DEF Indices
<1>4. ASSUME NEW i \in Indices, NEW j \in Indices, PeriodOf(i) = PeriodOf(j) PROVE i = j
  <2>1. Bounds[i] = Bounds[j] /\ Bounds[i] \in Nat
    BY <1>3, <1>4 DEF PeriodOf
  <2>2. i \in 1 .. Len(Bounds) /\ j \in 1 .. Len(Bounds)
    BY <1>1, <1>3
  <2>3. ~(i < j) /\ ~(j < i)
    BY <2>1, <2>2, BoundsInOrder
  <2> QED BY <2>2, <2>3
<1>5. ASSUME NEW p \in PayPeriods PROVE p.start \in Nat /\ p.end \in Nat /\ p.start < p.end
  <2>1. PICK i \in Indices : p = PeriodOf(i)
    BY <1>2
  <2> QED BY <1>3, <2>1 DEF PeriodOf
<1>6. IsFiniteSet(Indices)
  BY <1>1, FS_Interval DEF Indices
<1>7. IsFiniteSet(PayPeriods)
  <2> DEFINE f == [i \in Indices |-> PeriodOf(i)]
  <2>1. PayPeriods = {f[i] : i \in Indices}
    BY <1>2
  <2> HIDE DEF f
  <2> QED BY <1>6, <2>1, FiniteValues
<1> QED BY <1>2, <1>4, <1>5, <1>6, <1>7

\* The periods share out a shift that lies within them.
LEMMA PeriodsShareShift ==
    ASSUME NEW x, IsShift(x), PayPeriods # {},
           x.in >= Bounds[1], x.out <= Bounds[Len(Bounds)],
           NEW f, \A p \in PayPeriods : f[p] = Within(x, p.end) - Within(x, p.start)
    PROVE  SumOver(f, PayPeriods) = x.out - x.in
<1>1. PICK n \in Nat : n = Len(Bounds) - 1 /\ n >= 1 /\ Len(Bounds) = n + 1
  <2>1. Indices # {} /\ Len(Bounds) \in Nat
    BY PeriodsFacts, BoundsInOrder
  <2> QED BY <2>1 DEF Indices
<1> DEFINE h == [i \in 1 .. n + 1 |-> Within(x, Bounds[i])]
           steps == [i \in 1 .. n |-> h[i + 1] - h[i]]
           names == [i \in 1 .. n |-> PeriodOf(i)]
<1>2. \A i \in 1 .. n + 1 : Bounds[i] \in Nat /\ h[i] \in Int /\ h[i] = Within(x, Bounds[i])
  <2> SUFFICES ASSUME NEW i \in 1 .. n + 1 PROVE Bounds[i] \in Nat /\ Within(x, Bounds[i]) \in Int
    OBVIOUS
  <2>1. PICK t \in Nat : t = Bounds[i]
    BY <1>1, BoundsInOrder
  <2>2. Within(x, t) \in Nat
    BY WithinFacts
  <2> QED BY <2>1, <2>2
<1>3. \A i \in 1 .. n : h[i] \in Int /\ h[i + 1] \in Int /\ steps[i] = h[i + 1] - h[i] /\ steps[i] \in Int
  BY <1>2
<1>4. Indices = 1 .. n /\ IsFiniteSet(1 .. n)
  BY <1>1, PeriodsFacts DEF Indices
<1>5. \A i \in 1 .. n : f[names[i]] = steps[i]
  <2> SUFFICES ASSUME NEW i \in 1 .. n PROVE f[names[i]] = h[i + 1] - h[i]
    BY <1>3
  <2>1. names[i] = PeriodOf(i) /\ names[i] \in PayPeriods
    BY <1>4, PeriodsFacts
  <2>2. names[i].start = Bounds[i] /\ names[i].end = Bounds[i + 1]
    BY <2>1 DEF PeriodOf
  <2>3. i \in 1 .. n + 1 /\ i + 1 \in 1 .. n + 1
    OBVIOUS
  <2>4. f[names[i]] = Within(x, Bounds[i + 1]) - Within(x, Bounds[i])
    BY <2>1, <2>2
  <2> QED BY <1>2, <2>3, <2>4
<1>6. PayPeriods = {names[i] : i \in 1 .. n} /\ \A i, j \in 1 .. n : names[i] = names[j] => i = j
  BY <1>4, PeriodsFacts
<1>7. SumOver(steps, 1 .. n) = h[n + 1] - h[1]
  <2>1. 1 \in Nat /\ 1 <= n /\ n \in Nat
    BY <1>1
  <2>2. \A i \in 1 .. n + 1 : h[i] \in Int
    BY <1>2
  <2>3. \A i \in 1 .. n : steps[i] = h[i + 1] - h[i]
    BY <1>3
  <2> HIDE DEF h, steps
  <2>4. PICK a \in Nat : a = 1
    OBVIOUS
  <2>5. /\ a <= n /\ \A i \in a .. n + 1 : h[i] \in Int
        /\ \A i \in a .. n : steps[i] = h[i + 1] - h[i]
    BY <2>1, <2>2, <2>3, <2>4
  <2>6. SumOver(steps, a .. n) = h[n + 1] - h[a]
    BY <2>5, SumOfSteps
  <2> QED BY <2>4, <2>6
<1>8. SumOver(f, {names[i] : i \in 1 .. n}) = SumOver(steps, 1 .. n)
  <2>1. \A i \in 1 .. n : steps[i] \in Int /\ f[names[i]] = steps[i]
    BY <1>3, <1>5
  <2>2. PICK S : S = 1 .. n
    OBVIOUS
  <2>3. /\ IsFiniteSet(S) /\ \A i, j \in S : names[i] = names[j] => i = j
        /\ \A i \in S : steps[i] \in Int /\ f[names[i]] = steps[i]
    BY <1>4, <1>6, <2>1, <2>2
  <2> HIDE DEF h, steps, names
  <2>4. SumOver(f, {names[i] : i \in S}) = SumOver(steps, S)
    BY <2>3, SumRenamed
  <2> QED BY <2>2, <2>4
<1>9. h[n + 1] = x.out /\ h[1] = x.in
  <2>1. 1 \in 1 .. n + 1 /\ n + 1 \in 1 .. n + 1
    BY <1>1
  <2>2. /\ Bounds[1] \in Nat /\ Bounds[n + 1] \in Nat /\ Bounds[1] <= x.in /\ x.out <= Bounds[n + 1]
        /\ h[1] = Within(x, Bounds[1]) /\ h[n + 1] = Within(x, Bounds[n + 1])
    BY <1>1, <1>2, <2>1 DEF IsShift
  <2> HIDE DEF h
  <2> QED BY <2>2, WithinFacts DEF IsShift
<1> HIDE DEF h, steps, names
<1> QED BY <1>6, <1>7, <1>8, <1>9, Zenon

\* A period has nothing of a shift that is not among its rows.
LEMMA OutsidePeriod ==
    ASSUME AttendanceInv, NEW p \in PayPeriods, NEW q, NEW r \in AttendanceRows(q), r \notin AttendanceRows(p)
    PROVE  Within(record[r], p.end) - Within(record[r], p.start) = 0
<1>1. IsShift(record[r]) /\ r \in Record /\ Has(r, {"CLOSED", "ADJUSTED"})
  BY RowFacts DEF AttendanceRows
<1>2. ~(record[r].in < p.end) \/ ~(record[r].out > p.start)
  BY <1>1 DEF AttendanceRows
<1>3. PICK from \in Nat, to \in Nat : from = p.start /\ to = p.end /\ from < to
  BY PeriodsFacts
<1>4. PICK in \in Nat, out \in Nat : in = record[r].in /\ out = record[r].out /\ in < out
  BY <1>1 DEF IsShift
<1>5. CASE in >= to
  <2>1. Within(record[r], to) = in /\ Within(record[r], from) = in
    BY <1>1, <1>3, <1>4, <1>5, WithinFacts
  <2> QED BY <1>3, <2>1
<1>6. CASE out <= from
  <2>1. Within(record[r], to) = out /\ Within(record[r], from) = out
    BY <1>1, <1>3, <1>4, <1>6, WithinFacts
  <2> QED BY <1>3, <2>1
<1> QED BY <1>2, <1>3, <1>4, <1>5, <1>6

LEMMA HoursArePaid == AttendanceInv => HoursPaidOnce
<1> DEFINE P == FromAttendance
           closed == UNION {AttendanceRows(p) : p \in P}
           pays == [p \in P |-> HoursWorked(p)]
           worked == [r \in closed |-> record[r].worked]
           part(p, r) == Within(record[r], p.end) - Within(record[r], p.start)
           table == [p \in P |-> [r \in closed |-> part(p, r)]]
<1> SUFFICES ASSUME AttendanceInv,
                    \A r \in closed : /\ ~record[r].mixed
                                      /\ record[r].worked <= Policy.maxShift
                                      /\ record[r].in >= Bounds[1] /\ record[r].out <= Bounds[Len(Bounds)]
             PROVE  Total(pays) = Total(worked)
  BY Zenon DEF HoursPaidOnce
<1>1. P \subseteq PayPeriods /\ IsFiniteSet(P) /\ \A p \in P : p.start \in Nat /\ p.end \in Nat /\ p.start < p.end
  BY PeriodsFacts, FS_Subset DEF FromAttendance
<1>2. closed \subseteq Record /\ IsFiniteSet(closed)
  BY RecordAssumption, FS_Subset DEF AttendanceRows
<1>3. \A r \in closed : /\ IsShift(record[r]) /\ record[r].worked = record[r].out - record[r].in
                        /\ \E q : r \in AttendanceRows(q)
  BY RowFacts
<1>4. \A p \in PayPeriods, r \in closed : part(p, r) \in Int
  <2> TAKE p \in PayPeriods, r \in closed
  <2>1. Within(record[r], p.end) \in Nat /\ Within(record[r], p.start) \in Nat
    BY <1>3, PeriodsFacts, WithinFacts
  <2> QED BY <2>1
<1>5. \A p \in P : SumOver(table[p], closed) = pays[p] /\ pays[p] \in Int
  <2> SUFFICES ASSUME NEW p \in P
               PROVE  SumOver(table[p], closed) = HoursWorked(p) /\ HoursWorked(p) \in Int
    OBVIOUS
  <2> DEFINE rows == AttendanceRows(p)
             parts == [r \in rows |-> part(p, r)]
  <2>1. rows \subseteq closed
    OBVIOUS
  <2>2. \A r \in rows : record[r].out - record[r].in <= Policy.maxShift
    BY <1>3, <2>1
  <2>3. IsFiniteSet(rows) /\ HoursWorked(p) = SumOver(parts, rows)
    <3> HIDE DEF closed, P, table
    <3> QED BY <1>1, <2>2, PeriodPays
  <2>4. \A r \in closed : table[p][r] \in Int /\ table[p][r] = part(p, r)
    BY <1>1, <1>4
  <2>5. \A r \in rows : table[p][r] \in Int /\ parts[r] = table[p][r]
    BY <2>1, <2>4
  <2>6. \A r \in closed \ rows : table[p][r] = 0
    <3> SUFFICES ASSUME NEW r \in closed, r \notin AttendanceRows(p) PROVE table[p][r] = 0
      OBVIOUS
    <3>1. PICK q : r \in AttendanceRows(q)
      BY <1>3
    <3>2. part(p, r) = 0
      BY <1>1, <3>1, OutsidePeriod
    <3> HIDE DEF table, part
    <3> QED BY <2>4, <3>2
  <2> HIDE DEF table, parts, rows, closed
  <2>7. SumOver(parts, rows) = SumOver(table[p], rows) /\ SumOver(parts, rows) \in Int
    BY <2>3, <2>5, SumAgree, SumTakesOne
  <2>8. SumOver(table[p], closed) = SumOver(table[p], rows)
    BY <1>2, <2>1, <2>4, <2>6, SumOnPart
  <2> QED BY <2>3, <2>7, <2>8
<1>6. \A r \in closed : SumOver([p \in P |-> table[p][r]], P) = worked[r] /\ worked[r] \in Int
  <2> SUFFICES ASSUME NEW r \in closed
               PROVE  SumOver([p \in P |-> table[p][r]], P) = worked[r] /\ worked[r] \in Int
    OBVIOUS
  <2> DEFINE column == [p \in P |-> table[p][r]]
             steps == [p \in PayPeriods |-> part(p, r)]
  <2>1. PayPeriods # {}
    BY <1>1
  <2>2. \A p \in PayPeriods : steps[p] = Within(record[r], p.end) - Within(record[r], p.start) /\ steps[p] \in Int
    BY <1>4
  <2>3. SumOver(steps, PayPeriods) = record[r].out - record[r].in
    <3> HIDE DEF steps
    <3>1. record[r].in >= Bounds[1] /\ record[r].out <= Bounds[Len(Bounds)]
      OBVIOUS
    <3>2. IsShift(record[r])
      BY <1>3
    <3> QED BY <2>1, <2>2, <3>1, <3>2, PeriodsShareShift
  <2>4. \A p \in P : steps[p] \in Int /\ column[p] = steps[p]
    BY <1>1, <2>2
  <2>5. \A p \in PayPeriods \ P : steps[p] = 0
    <3> SUFFICES ASSUME NEW p \in PayPeriods, p \notin P PROVE part(p, r) = 0
      OBVIOUS
    <3>1. AttendanceRows(p) = {}
      BY DEF FromAttendance
    <3>2. PICK q : r \in AttendanceRows(q)
      BY <1>3
    <3> HIDE DEF closed
    <3> QED BY <3>1, <3>2, OutsidePeriod
  <2>6. worked[r] = record[r].out - record[r].in /\ worked[r] \in Int
    BY <1>3 DEF IsShift
  <2> HIDE DEF column, steps, P, closed, worked
  <2>7. SumOver(column, P) = SumOver(steps, P)
    BY <1>1, <2>4, SumAgree
  <2>8. SumOver(steps, PayPeriods) = SumOver(steps, P)
    BY <1>1, <2>2, <2>5, PeriodsFacts, SumOnPart
  <2> QED BY <2>3, <2>6, <2>7, <2>8 DEF column
<1>7. SumOver([p \in P |-> SumOver(table[p], closed)], P)
        = SumOver([r \in closed |-> SumOver([p \in P |-> table[p][r]], P)], closed)
  <2>1. \A p \in P, r \in closed : table[p][r] \in Int
    BY <1>1, <1>4
  <2> HIDE DEF table, P, closed
  <2> QED BY <1>1, <1>2, <2>1, SumSwap
<1>8. [p \in P |-> SumOver(table[p], closed)] = pays
  <2>1. \A p \in P : SumOver(table[p], closed) = pays[p]
    BY <1>5
  <2>2. pays = [p \in P |-> pays[p]]
    OBVIOUS
  <2> HIDE DEF table, P, closed, pays
  <2> QED BY <2>1, <2>2
<1>9. [r \in closed |-> SumOver([p \in P |-> table[p][r]], P)] = worked
  <2>1. \A r \in closed : SumOver([p \in P |-> table[p][r]], P) = worked[r]
    BY <1>6
  <2>2. worked = [r \in closed |-> worked[r]]
    OBVIOUS
  <2> HIDE DEF table, P, closed, worked
  <2> QED BY <2>1, <2>2
<1>10. Total(pays) = SumOver(pays, P) /\ Total(worked) = SumOver(worked, closed)
  <2>1. DOMAIN pays = P /\ DOMAIN worked = closed
    OBVIOUS
  <2> HIDE DEF pays, worked, P, closed
  <2> QED BY <2>1, TotalIsSum
<1> HIDE DEF table, pays, worked, P, closed
<1> QED BY <1>7, <1>8, <1>9, <1>10, Zenon

(***************************************************************************)
(* Consecutive payroll periods pay the hours that the attendance list      *)
(* shows and no hour twice, whatever was corrected, for any roster,        *)
(* policy, number of records and of periods: calculatePayrollWork over     *)
(* POST /payroll/periods/:id/calculate.                                    *)
(***************************************************************************)
THEOREM EveryHourIsPaidOnce == AttendanceSpec => []HoursPaidOnce
BY HoursArePaid, AttendanceInvInit, AttendanceInvStep, PTL DEF AttendanceSpec
(***************************************************************************)
(* Lateness and early leave of shifts that share no date.                  *)
(***************************************************************************)
AloneAll(s) == \A r, q \in DOMAIN s : r # q => DateOf(s[r].in) \notin DatesOf(s[q])

LEMMA FirstDate ==
    ASSUME NEW x, IsShift(x)
    PROVE  DateOf(x.in) \in DatesOf(x) /\ DateOf(x.in) \in Nat
<1>1. PICK in \in Nat, out \in Nat : in = x.in /\ out = x.out /\ in < out
  BY DEF IsShift
<1>2. PICK first \in Nat : first = DateOf(in) /\ 24 * first <= in /\ in < 24 * (first + 1)
  BY DateBegins
<1>3. out - 1 \in Nat
  BY <1>1
<1>4. PICK last \in Nat : last = DateOf(out - 1) /\ 24 * last <= out - 1 /\ out - 1 < 24 * (last + 1)
  BY <1>3, DateBegins
<1>5. first <= last
  BY <1>1, <1>2, <1>4
<1> QED BY <1>1, <1>2, <1>4, <1>5 DEF DatesOf

\* The entry of the date on which a shift begins, if it is alone there.
LEMMA EntryOfOne ==
    ASSUME NEW s, \A r \in DOMAIN s : IsShift(s[r]), AloneAll(s), NEW r \in DOMAIN s,
           NEW d, d = DateOf(s[r].in)
    PROVE  /\ Entry(s, d).first = s[r].in /\ Entry(s, d).last = s[r].out
           /\ Entry(s, d).scheduled = Rostered(d)
<1> DEFINE on == {q \in DOMAIN s : d \in DatesOf(s[q])}
<1>1. on = {r}
  BY FirstDate DEF AloneAll
<1>2. PICK in \in Nat, out \in Nat : in = s[r].in /\ out = s[r].out
  BY DEF IsShift
<1>3. {s[q].in : q \in on} = {in} /\ {s[q].out : q \in on} = {out}
  BY <1>1, <1>2
<1>4. Min({in}) = in /\ Max({out}) = out
  BY LeastOf, GreatestOf
<1>5. /\ Entry(s, d).first = Min({s[q].in : q \in on}) /\ Entry(s, d).last = Max({s[q].out : q \in on})
      /\ Entry(s, d).scheduled = (Rostered(d) /\ \E q \in on : DateOf(s[q].in) = d)
  BY DEF Entry
<1>6. \E q \in on : DateOf(s[q].in) = d
  BY <1>1
<1>7. Entry(s, d).scheduled = Rostered(d)
  <2>1. (Rostered(d) /\ \E q \in on : DateOf(s[q].in) = d) = Rostered(d)
    BY <1>6 DEF Rostered
  <2> QED BY <1>5, <2>1, Zenon
<1> HIDE DEF on
<1>8. Entry(s, d).first = in /\ Entry(s, d).last = out
  BY <1>3, <1>4, <1>5, Zenon
<1> QED BY <1>2, <1>7, <1>8

\* Payroll's verdict on a shift is that of the list, less the grace.
LEMMA VerdictsAgree ==
    ASSUME NEW in \in Nat, NEW out \in Nat, NEW d, d = DateOf(in),
           NEW e, e.first = in, e.last = out, e.scheduled = Rostered(d)
    PROVE  /\ LateOn(e, d) = Beyond(LateBy(in), Policy.lateGrace)
           /\ EarlyOn(e, d) = Beyond(EarlyBy(in, out), IF Rostered(d) THEN RosterOf(d).grace ELSE 0)
           /\ LateOn(e, d) \in Int /\ EarlyOn(e, d) \in Int
<1>1. /\ d \in Nat /\ HourOf(in) \in 0 .. 23 /\ in = 24 * d + HourOf(in)
      /\ DateOf(out) \in Nat /\ HourOf(out) \in 0 .. 23 /\ out = 24 * DateOf(out) + HourOf(out)
  BY DateFacts
<1>2. PICK free \in Nat : free = Policy.lateGrace
  BY PolicyAssumption
<1>3. CASE Rostered(d)
  <2>1. PICK start \in Nat, end \in Nat, grace \in Nat :
           start = RosterOf(d).start /\ end = RosterEnd(d) /\ grace = RosterOf(d).grace
    BY <1>1, <1>3, RosterFacts
  <2>2. PICK hour \in Nat, there \in Nat, left \in Nat :
           hour = HourOf(in) /\ there = DateOf(out) /\ left = HourOf(out)
    <3>1. HourOf(in) \in Nat /\ DateOf(out) \in Nat /\ HourOf(out) \in Nat
      BY ONLY <1>1
    <3> QED BY ONLY <3>1
  <2>3. in = 24 * d + hour /\ out = 24 * there + left
    BY <1>1, <2>2
  <2>4. LateOn(e, d) = Beyond(hour, start + free)
    BY <1>2, <1>3, <2>1, <2>2 DEF LateOn
  <2>5. LateBy(in) = Beyond(in, 24 * d + start)
    BY <1>3, <2>1 DEF LateBy, Midnight, DayLength
  <2>6. EarlyOn(e, d) = Beyond(end, 24 * (there - d) + left + grace)
    BY <1>3, <2>1, <2>2 DEF EarlyOn, Midnight, DayLength
  <2>7. EarlyBy(in, out) = Beyond(24 * d + end, out)
    BY <1>3, <2>1 DEF EarlyBy, Midnight, DayLength
  <2>8. Beyond(hour, start + free) = Beyond(Beyond(in, 24 * d + start), free)
        /\ Beyond(hour, start + free) \in Int
    <3>1. PICK late \in Nat : late = Beyond(in, 24 * d + start) /\ late = IF hour > start THEN hour - start ELSE 0
      BY <1>1, <2>3 DEF Beyond
    <3>2. Beyond(hour, start + free) = IF hour > start + free THEN hour - (start + free) ELSE 0
      BY DEF Beyond
    <3>3. Beyond(late, free) = IF late > free THEN late - free ELSE 0
      BY DEF Beyond
    <3>4. CASE hour > start
      BY <3>1, <3>2, <3>3, <3>4
    <3>5. CASE ~(hour > start)
      <4>1. late = 0 /\ ~(hour > start + free) /\ ~(late > free)
        BY <3>1, <3>5
      <4> QED BY <3>1, <3>2, <3>3, <4>1
    <3> QED BY <3>4, <3>5
  <2>9. Beyond(end, 24 * (there - d) + left + grace) = Beyond(Beyond(24 * d + end, out), grace)
        /\ Beyond(end, 24 * (there - d) + left + grace) \in Int
    <3>1. PICK gone \in Int : gone = 24 * (there - d) + left /\ out = 24 * d + gone
      BY <1>1, <2>3
    <3>2. PICK early \in Nat : early = Beyond(24 * d + end, out) /\ early = IF end > gone THEN end - gone ELSE 0
      BY <1>1, <3>1 DEF Beyond
    <3>3. Beyond(end, gone + grace) = IF end > gone + grace THEN end - (gone + grace) ELSE 0
      BY DEF Beyond
    <3>4. Beyond(early, grace) = IF early > grace THEN early - grace ELSE 0
      BY DEF Beyond
    <3>5. CASE end > gone
      BY <3>1, <3>2, <3>3, <3>4, <3>5
    <3>6. CASE ~(end > gone)
      <4>1. early = 0 /\ ~(end > gone + grace) /\ ~(early > grace)
        BY <3>2, <3>6
      <4> QED BY <3>1, <3>2, <3>3, <3>4, <4>1
    <3> QED BY <3>5, <3>6
  <2> QED BY <1>2, <1>3, <2>1, <2>4, <2>5, <2>6, <2>7, <2>8, <2>9
<1>4. CASE ~Rostered(d)
  <2>1. LateOn(e, d) = 0 /\ EarlyOn(e, d) = 0 /\ LateBy(in) = 0 /\ EarlyBy(in, out) = 0
    BY <1>4 DEF LateOn, EarlyOn, LateBy, EarlyBy
  <2>2. Beyond(0, free) = 0 /\ Beyond(0, 0) = 0
    BY DEF Beyond
  <2> QED BY <1>2, <1>4, <2>1, <2>2
<1> QED BY <1>3, <1>4

\* What is charged for dates on which a shift begins is charged for the shifts.
LEMMA SumByFirstDate ==
    ASSUME NEW s, IsFiniteSet(DOMAIN s), \A r \in DOMAIN s : IsShift(s[r]), AloneAll(s),
           NEW verdict, NEW charge,
           \A r \in DOMAIN s : charge[r] \in Int /\ verdict[DateOf(s[r].in)] = charge[r],
           \A d \in Dates(s) : (\A r \in DOMAIN s : DateOf(s[r].in) # d) => verdict[d] = 0
    PROVE  SumOver(verdict, Dates(s)) = SumOver(charge, DOMAIN s)
<1> DEFINE R == DOMAIN s
           begins == [r \in R |-> DateOf(s[r].in)]
           T == {begins[r] : r \in R}
<1>1. IsFiniteSet(Dates(s)) /\ \A r \in R : DatesOf(s[r]) \subseteq Dates(s)
  BY DatesFacts
<1>2. \A r \in R : begins[r] \in DatesOf(s[r]) /\ begins[r] = DateOf(s[r].in)
  BY FirstDate
<1>3. T \subseteq Dates(s)
  BY <1>1, <1>2
<1>4. \A r, q \in R : begins[r] = begins[q] => r = q
  BY <1>2 DEF AloneAll
<1>5. \A d \in Dates(s) \ T : verdict[d] = 0
  BY <1>2
<1>6. \A d \in Dates(s) : verdict[d] \in Int
  <2> SUFFICES ASSUME NEW d \in Dates(s) PROVE verdict[d] \in Int
    OBVIOUS
  <2>1. CASE d \in T
    BY <1>2, <2>1
  <2>2. CASE d \notin T
    BY <1>5, <2>2
  <2> QED BY <2>1, <2>2
<1>7. \A r \in R : charge[r] \in Int /\ verdict[begins[r]] = charge[r]
  BY <1>2
<1> HIDE DEF begins
<1>8. SumOver(verdict, {begins[r] : r \in R}) = SumOver(charge, R)
  <2>1. PICK S : S = R
    OBVIOUS
  <2>2. /\ IsFiniteSet(S) /\ \A r, q \in S : begins[r] = begins[q] => r = q
        /\ \A r \in S : charge[r] \in Int /\ verdict[begins[r]] = charge[r]
    BY <1>4, <1>7, <2>1
  <2> HIDE DEF R, T
  <2>3. /\ IsFiniteSet({begins[r] : r \in S})
        /\ SumOver(verdict, {begins[r] : r \in S}) = SumOver(charge, S)
    BY ONLY <2>2, SumRenamed
  <2> QED BY <2>1, <2>3
<1> HIDE DEF R
<1>9. SumOver(verdict, Dates(s)) = SumOver(verdict, T)
  <2> HIDE DEF T
  <2> QED BY <1>1, <1>3, <1>5, <1>6, SumOnPart
<1> QED BY <1>8, <1>9, Zenon DEF R
\* What payroll charges for rows that are alone.
LEMMA ChargesAgree ==
    ASSUME AttendanceInv, NEW p \in PayPeriods,
           \A r \in AttendanceRows(p) : ~record[r].mixed /\ Alone(r, p),
           NEW late, late = [r \in AttendanceRows(p) |-> Beyond(record[r].late, Policy.lateGrace)],
           NEW early,
           early = [r \in AttendanceRows(p) |->
                       Beyond(record[r].early, IF Rostered(DateOf(record[r].in))
                                               THEN RosterOf(DateOf(record[r].in)).grace ELSE 0)]
    PROVE  Work(p).late = Total(late) /\ Work(p).early = Total(early)
<1> DEFINE R == AttendanceRows(p)
           shifts == RowsOf(p)
<1>1. IsFiniteSet(R) /\ DOMAIN shifts = R /\ p.start \in Nat /\ p.end \in Nat /\ p.start < p.end
  BY RecordAssumption, PeriodsFacts, FS_Subset DEF AttendanceRows, RowsOf
<1>2. PICK s : s = Counted(shifts, p)
  OBVIOUS
<1>3. ASSUME NEW r \in R
      PROVE  /\ Cut(shifts[r], p).out > Cut(shifts[r], p).in
             /\ Cut(shifts[r], p).in = record[r].in /\ Cut(shifts[r], p).out = record[r].out
  <2>1. /\ IsShift(record[r]) /\ record[r].in < p.end /\ record[r].out > p.start
        /\ p.start <= record[r].in /\ record[r].out <= p.end
        /\ record[r].out - record[r].in <= Policy.maxShift
    BY RowFacts DEF AttendanceRows, Alone
  <2>2. PICK x : x = shifts[r] /\ x.in = record[r].in /\ x.out = record[r].out
    <3>1. shifts[r] = [in |-> record[r].in, out |-> record[r].out]
      BY DEF RowsOf
    <3> QED BY <3>1
  <2>3. IsShift(x) /\ x.out - x.in <= Policy.maxShift
    BY <2>1, <2>2 DEF IsShift
  <2>4. Cut(x, p) = [in |-> Within(x, p.start), out |-> Within(x, p.end)]
    BY <1>1, <2>1, <2>2, <2>3, CutIsWithin
  <2>5. Within(x, p.start) = x.in /\ Within(x, p.end) = x.out
    BY <1>1, <2>1, <2>2, <2>3, WithinFacts
  <2>6. x.out > x.in
    BY <2>3 DEF IsShift
  <2> QED BY <2>2, <2>4, <2>5, <2>6
<1>4. DOMAIN s = R /\ \A r \in R : s[r] = Cut(shifts[r], p)
  <2>1. \A r \in R : Cut(shifts[r], p).out > Cut(shifts[r], p).in
    BY <1>3
  <2> HIDE DEF R, shifts
  <2> QED BY <1>1, <1>2, <2>1 DEF Counted
<1>5. \A r \in R : s[r].in = record[r].in /\ s[r].out = record[r].out /\ IsShift(s[r])
  <2> TAKE r \in R
  <2>1. s[r].in = record[r].in /\ s[r].out = record[r].out
    BY <1>3, <1>4
  <2>2. IsShift(record[r])
    BY RowFacts
  <2> QED BY <2>1, <2>2 DEF IsShift
<1>6. AloneAll(s)
  <2> SUFFICES ASSUME NEW r \in R, NEW q \in R, r # q PROVE DateOf(s[r].in) \notin DatesOf(s[q])
    BY <1>4 DEF AloneAll
  <2>1. DateOf(record[r].in) \notin DatesOf(record[q])
    BY DEF Alone
  <2>2. DatesOf(s[q]) = DatesOf(record[q]) /\ s[r].in = record[r].in
    BY <1>5 DEF DatesOf
  <2> QED BY <2>1, <2>2
<1> DEFINE D == Dates(s)
           entry == [d \in D |-> Entry(s, d)]
           lateOn == [d \in D |-> LateOn(entry[d], d)]
           earlyOn == [d \in D |-> EarlyOn(entry[d], d)]
<1>7. CalculatePayrollWork(shifts, p).late = Total(lateOn) /\ CalculatePayrollWork(shifts, p).early = Total(earlyOn)
  BY <1>2 DEF CalculatePayrollWork
<1>8. ASSUME NEW r \in R
      PROVE  /\ late[r] \in Int /\ lateOn[DateOf(s[r].in)] = late[r]
             /\ early[r] \in Int /\ earlyOn[DateOf(s[r].in)] = early[r]
  <2>1. PICK in \in Nat, out \in Nat : in = record[r].in /\ out = record[r].out
    BY RowFacts DEF IsShift
  <2>2. record[r].late = LateBy(in) /\ record[r].early = EarlyBy(in, out)
    <3>1. r \in Record /\ record[r].status \in {"CLOSED", "ADJUSTED"} /\ ~record[r].mixed
      BY DEF AttendanceRows, Has
    <3>2. Honest(record[r])
      BY <3>1 DEF AttendanceInv
    <3> QED BY <2>1, <3>1, <3>2 DEF Honest
  <2>3. PICK d : d = DateOf(in)
    OBVIOUS
  <2>4. d \in D /\ d = DateOf(s[r].in)
    <3>1. d = DateOf(s[r].in) /\ IsShift(s[r])
      BY <1>5, <2>1, <2>3
    <3>2. d \in DatesOf(s[r])
      BY <3>1, FirstDate
    <3> QED BY <1>4, <3>1, <3>2 DEF Dates
  <2>5. PICK e : e = Entry(s, d)
    OBVIOUS
  <2>6. e.first = in /\ e.last = out /\ e.scheduled = Rostered(d)
    BY <1>4, <1>5, <1>6, <2>1, <2>4, <2>5, EntryOfOne
  <2>7. /\ LateOn(e, d) = Beyond(LateBy(in), Policy.lateGrace)
        /\ EarlyOn(e, d) = Beyond(EarlyBy(in, out), IF Rostered(d) THEN RosterOf(d).grace ELSE 0)
        /\ LateOn(e, d) \in Int /\ EarlyOn(e, d) \in Int
    BY <2>3, <2>6, VerdictsAgree
  <2>8. late[r] = Beyond(LateBy(in), Policy.lateGrace)
    BY <2>2
  <2>9. early[r] = Beyond(EarlyBy(in, out), IF Rostered(d) THEN RosterOf(d).grace ELSE 0)
    BY <2>1, <2>2, <2>3
  <2>10. lateOn[d] = LateOn(e, d) /\ earlyOn[d] = EarlyOn(e, d)
    BY <2>4, <2>5
  <2> HIDE DEF lateOn, earlyOn
  <2> QED BY <2>4, <2>7, <2>8, <2>9, <2>10
<1>9. ASSUME NEW d \in D, \A r \in R : DateOf(s[r].in) # d PROVE lateOn[d] = 0 /\ earlyOn[d] = 0
  <2>1. ~Entry(s, d).scheduled
    BY <1>4, <1>9 DEF Entry
  <2>2. PICK e : e = Entry(s, d) /\ ~e.scheduled
    BY <2>1
  <2>3. LateOn(e, d) = 0 /\ EarlyOn(e, d) = 0
    BY <2>2 DEF LateOn, EarlyOn
  <2> QED BY <2>2, <2>3
<1>10. DOMAIN lateOn = D /\ DOMAIN earlyOn = D /\ DOMAIN late = R /\ DOMAIN early = R
  OBVIOUS
<1> HIDE DEF lateOn, earlyOn, D, R
<1>11. SumOver(lateOn, D) = SumOver(late, R)
  <2>1. \A r \in DOMAIN s : late[r] \in Int /\ lateOn[DateOf(s[r].in)] = late[r]
    BY <1>4, <1>8
  <2>2. \A d \in Dates(s) : (\A r \in DOMAIN s : DateOf(s[r].in) # d) => lateOn[d] = 0
    BY <1>4, <1>9 DEF D
  <2>3. IsFiniteSet(DOMAIN s) /\ \A r \in DOMAIN s : IsShift(s[r])
    BY <1>1, <1>4, <1>5
  <2>4. SumOver(lateOn, Dates(s)) = SumOver(late, DOMAIN s)
    BY <1>6, <2>1, <2>2, <2>3, SumByFirstDate
  <2> QED BY <1>4, <2>4 DEF D
<1>12. SumOver(earlyOn, D) = SumOver(early, R)
  <2>1. \A r \in DOMAIN s : early[r] \in Int /\ earlyOn[DateOf(s[r].in)] = early[r]
    BY <1>4, <1>8
  <2>2. \A d \in Dates(s) : (\A r \in DOMAIN s : DateOf(s[r].in) # d) => earlyOn[d] = 0
    BY <1>4, <1>9 DEF D
  <2>3. IsFiniteSet(DOMAIN s) /\ \A r \in DOMAIN s : IsShift(s[r])
    BY <1>1, <1>4, <1>5
  <2>4. SumOver(earlyOn, Dates(s)) = SumOver(early, DOMAIN s)
    BY <1>6, <2>1, <2>2, <2>3, SumByFirstDate
  <2> QED BY <1>4, <2>4 DEF D
<1>13. /\ Total(lateOn) = SumOver(lateOn, D) /\ Total(earlyOn) = SumOver(earlyOn, D)
       /\ Total(late) = SumOver(late, R) /\ Total(early) = SumOver(early, R)
  BY <1>10, TotalIsSum
<1>14. Work(p) = CalculatePayrollWork(shifts, p)
  BY DEF Work, RowsOf
<1> QED BY <1>7, <1>11, <1>12, <1>13, <1>14, Zenon

LEMMA OneVerdict == AttendanceInv => SameVerdict
<1> SUFFICES ASSUME AttendanceInv, NEW p \in FromAttendance,
                    \A r \in AttendanceRows(p) : ~record[r].mixed /\ Alone(r, p)
             PROVE  /\ Work(p).late = Total([r \in AttendanceRows(p) |-> Beyond(record[r].late, Policy.lateGrace)])
                    /\ Work(p).early = Total([r \in AttendanceRows(p) |->
                         Beyond(record[r].early, IF Rostered(DateOf(record[r].in))
                                                 THEN RosterOf(DateOf(record[r].in)).grace ELSE 0)])
  BY Zenon DEF SameVerdict
<1>1. p \in PayPeriods
  BY DEF FromAttendance
<1> QED BY <1>1, ChargesAgree

(***************************************************************************)
(* Payroll charges, for uncut records alone on their dates, the lateness   *)
(* and the early leave that the attendance list shows of them, beyond the  *)
(* grace allowed: two functions of two packages that compute the same.     *)
(***************************************************************************)
THEOREM PayrollAgreesWithTheList == AttendanceSpec => []SameVerdict
BY OneVerdict, AttendanceInvInit, AttendanceInvStep, PTL DEF AttendanceSpec

-----------------------------------------------------------------------------
(***************************************************************************)
(* Proofs about PayrollCalculator, for every tax profile that the route    *)
(* accepts and every input: the duties fit into the pay, and a raise is    *)
(* never lost to them.                                                     *)
(*                                                                         *)
(* Both rest on the same growth: an amount times a rate of at most one,    *)
(* rounded to whole cents, grows with the amount and by no more than it.   *)
(* The brackets share an income out among them without rest, each slice    *)
(* grows with the income, so the sum of the rounded taxes does too.        *)
(***************************************************************************)
LEMMA TimesMonotone ==
    ASSUME NEW a \in Int, NEW b \in Int, a <= b, NEW c \in Nat
    PROVE  c * a <= c * b
<1>1. PICK k \in Nat : b = a + k
  <2>1. b - a \in Nat /\ b = a + (b - a)
    OBVIOUS
  <2> QED BY <2>1
<1>2. c * k \in Nat
  OBVIOUS
<1>3. c * (a + k) = c * a + c * k
  OBVIOUS
<1> QED BY <1>1, <1>2, <1>3

\* A rounded amount is the cents nearest to it.
LEMMA RoundFacts ==
    ASSUME NEW n \in Nat
    PROVE  /\ RoundMoney(n) \in Nat
           /\ 2 * (Whole * RoundMoney(n)) <= 2 * n + Whole
           /\ 2 * n + Whole < 2 * (Whole * RoundMoney(n)) + 2 * Whole
<1>1. PICK d \in Nat : d = 2 * Whole /\ d > 0
  BY WholeAssumption
<1>2. PICK a \in Nat : a = 2 * n + Whole
  BY WholeAssumption
<1>3. PICK q \in Int : q = a \div d
  BY <1>1
<1>4. d * q <= a /\ a < d * q + d /\ q >= 0
  BY <1>1, <1>3
<1>5. RoundMoney(n) = q
  BY <1>1, <1>2, <1>3 DEF RoundMoney
<1>6. d * q = 2 * (Whole * q)
  BY <1>1, WholeAssumption
<1> QED BY <1>1, <1>2, <1>3, <1>4, <1>5, <1>6

\* Rounding keeps order and moves no further than whole cents.
LEMMA RoundMonotone ==
    ASSUME NEW m \in Nat, NEW n \in Nat, m <= n, NEW k \in Nat, n <= m + Whole * k
    PROVE  RoundMoney(m) <= RoundMoney(n) /\ RoundMoney(n) <= RoundMoney(m) + k
<1>1. PICK q \in Nat : q = RoundMoney(m) /\ 2 * (Whole * q) <= 2 * m + Whole
                          /\ 2 * m + Whole < 2 * (Whole * q) + 2 * Whole
  BY RoundFacts
<1>2. PICK r \in Nat : r = RoundMoney(n) /\ 2 * (Whole * r) <= 2 * n + Whole
                          /\ 2 * n + Whole < 2 * (Whole * r) + 2 * Whole
  BY RoundFacts
<1>3. Whole \in Nat /\ Whole > 0 /\ Whole * q \in Nat /\ Whole * r \in Nat /\ Whole * k \in Nat
  BY WholeAssumption
<1>4. ASSUME r < q PROVE FALSE
  <2>1. Whole * (r + 1) <= Whole * q
    BY <1>3, <1>4, TimesMonotone
  <2>2. Whole * (r + 1) = Whole * r + Whole
    BY <1>3
  <2> QED BY <1>1, <1>2, <1>3, <2>1, <2>2
<1>5. ASSUME r > q + k PROVE FALSE
  <2>1. Whole * (q + k + 1) <= Whole * r
    BY <1>3, <1>5, TimesMonotone
  <2>2. Whole * (q + k + 1) = Whole * q + Whole * k + Whole
    BY <1>3
  <2> QED BY <1>1, <1>2, <1>3, <2>1, <2>2
<1> QED BY <1>1, <1>2, <1>4, <1>5

\* What is charged on an amount, at a rate that is at most one.
LEMMA ChargeMonotone ==
    ASSUME NEW s \in Nat, NEW t \in Nat, s <= t, NEW rate \in 0 .. Whole
    PROVE  /\ RoundMoney(s * rate) \in Nat /\ RoundMoney(t * rate) \in Nat
           /\ RoundMoney(s * rate) <= RoundMoney(t * rate)
           /\ RoundMoney(t * rate) <= RoundMoney(s * rate) + (t - s)
<1>1. Whole \in Nat /\ rate \in Nat /\ rate <= Whole
  BY WholeAssumption
<1>2. PICK k \in Nat : k = t - s /\ t = s + k
  OBVIOUS
<1>3. PICK m \in Nat : m = s * rate
  BY <1>1
<1>4. PICK n \in Nat : n = t * rate
  BY <1>1
<1>5. n = m + k * rate
  BY <1>1, <1>2, <1>3, <1>4
<1>6. k * rate <= k * Whole /\ k * rate >= 0
  <2>1. k * rate \in Nat
    BY <1>1
  <2> QED BY <1>1, <2>1, TimesMonotone
<1>7. k * Whole = Whole * k
  BY <1>1
<1>8. m <= n /\ n <= m + Whole * k
  BY <1>1, <1>5, <1>6, <1>7
<1> QED BY <1>2, <1>3, <1>4, <1>8, RoundMonotone, RoundFacts

LEMMA NothingRounded == RoundMoney(0) = 0
<1>1. PICK q \in Nat : q = RoundMoney(0) /\ 2 * (Whole * q) <= Whole
  <2>1. 0 \in Nat
    OBVIOUS
  <2>2. RoundMoney(0) \in Nat /\ 2 * (Whole * RoundMoney(0)) <= 2 * 0 + Whole
    BY <2>1, RoundFacts
  <2> QED BY <2>2, WholeAssumption
<1>2. Whole \in Nat /\ Whole > 0
  BY WholeAssumption
<1>3. ASSUME q >= 1 PROVE FALSE
  <2>1. Whole * 1 <= Whole * q
    BY <1>2, <1>3, TimesMonotone
  <2> QED BY <1>1, <1>2, <2>1
<1> QED BY <1>1, <1>3

\* What an income has in the brackets up to the i-th.
UpTo(income, brackets, i) ==
    IF i = 1 THEN 0
    ELSE IF IsOpen(brackets[i - 1]) \/ income < brackets[i - 1].upTo THEN income
    ELSE brackets[i - 1].upTo

Brackets == {b \in Seq([upTo : Nat \cup {NoLimit}, rate : Nat]) : ValidBrackets(b)}

LEMMA BracketFacts ==
    ASSUME NEW b \in Brackets
    PROVE  /\ Len(b) \in Nat /\ Len(b) >= 1 /\ DOMAIN b = 1 .. Len(b)
           /\ \A i \in 1 .. Len(b) : b[i].rate \in 0 .. Whole
           /\ IsOpen(b[Len(b)])
           /\ \A i \in 1 .. Len(b) - 1 :
                  /\ ~IsOpen(b[i]) /\ b[i].upTo \in Nat
                  /\ b[i].upTo > (IF i = 1 THEN 0 ELSE b[i - 1].upTo)
<1>1. /\ b \in Seq([upTo : Nat \cup {NoLimit}, rate : Nat]) /\ b # <<>>
      /\ \A i \in DOMAIN b : /\ b[i].rate \in 0 .. Whole
                             /\ IsOpen(b[i]) <=> i = Len(b)
                             /\ ~IsOpen(b[i]) => b[i].upTo > (IF i = 1 THEN 0 ELSE b[i - 1].upTo)
  BY DEF Brackets, ValidBrackets
<1>2. PICK n \in Nat : n = Len(b) /\ DOMAIN b = 1 .. n
  BY <1>1
<1>3. n >= 1
  BY <1>1, <1>2
<1>4. \A i \in 1 .. n : b[i] \in [upTo : Nat \cup {NoLimit}, rate : Nat]
  <2>1. PICK T : T = [upTo : Nat \cup {NoLimit}, rate : Nat]
    OBVIOUS
  <2>2. b \in Seq(T)
    BY <1>1, <2>1
  <2>3. \A i \in 1 .. n : b[i] \in T
    BY ONLY <1>2, <2>2
  <2> QED BY <2>1, <2>3
<1>5. ASSUME NEW i \in 1 .. n - 1
      PROVE  ~IsOpen(b[i]) /\ b[i].upTo \in Nat /\ b[i].upTo > (IF i = 1 THEN 0 ELSE b[i - 1].upTo)
  <2>1. i \in 1 .. n /\ i # n
    BY <1>2
  <2>2. ~IsOpen(b[i])
    BY <1>1, <1>2, <2>1
  <2>3. b[i].upTo \in Nat
    BY <1>4, <2>1, <2>2 DEF IsOpen
  <2> QED BY <1>1, <1>2, <2>1, <2>2, <2>3
<1>6. /\ \A i \in 1 .. n : b[i].rate \in 0 .. Whole
      /\ IsOpen(b[n])
  BY <1>1, <1>2, <1>3
<1> QED BY ONLY <1>2, <1>3, <1>5, <1>6

LEMMA SliceIsStep ==
    ASSUME NEW b \in Brackets, NEW income \in Nat, NEW i \in 1 .. Len(b)
    PROVE  /\ UpTo(income, b, i) \in Nat /\ UpTo(income, b, i + 1) \in Nat
           /\ Slice(income, b, i) = UpTo(income, b, i + 1) - UpTo(income, b, i)
           /\ Slice(income, b, i) \in Nat
<1>1. PICK n \in Nat : n = Len(b) /\ i \in 1 .. n
  BY BracketFacts
<1>2. PICK lower \in Nat : /\ lower = (IF i = 1 THEN 0 ELSE b[i - 1].upTo)
                           /\ i # 1 => ~IsOpen(b[i - 1])
                           /\ i # n => b[i].upTo > lower
  <2>1. CASE i = 1
    <3>1. i # n => b[i].upTo > 0
      BY <1>1, <2>1, BracketFacts
    <3> QED BY <2>1, <3>1
  <2>2. CASE i # 1
    <3>1. i - 1 \in 1 .. Len(b) - 1
      BY <1>1, <2>2
    <3>2. b[i - 1].upTo \in Nat /\ ~IsOpen(b[i - 1])
      BY <3>1, BracketFacts
    <3>3. i # n => b[i].upTo > b[i - 1].upTo
      <4> SUFFICES ASSUME i # n PROVE b[i].upTo > b[i - 1].upTo
        OBVIOUS
      <4>1. i \in 1 .. Len(b) - 1
        BY <1>1
      <4> QED BY <2>2, <4>1, BracketFacts
    <3> QED BY <2>2, <3>2, <3>3
  <2> QED BY <2>1, <2>2
<1>3. PICK from \in Nat : from = UpTo(income, b, i) /\ from = IF income < lower THEN income ELSE lower
  <2>1. CASE i = 1
    BY <1>2, <2>1 DEF UpTo
  <2>2. CASE i # 1
    BY <1>2, <2>2 DEF UpTo
  <2> QED BY <2>1, <2>2
<1>4. (i + 1) - 1 = i /\ i + 1 # 1
  BY <1>1
<1>5. CASE i = n
  <2>1. IsOpen(b[i])
    BY <1>1, <1>5, BracketFacts
  <2>2. UpTo(income, b, i + 1) = income
    BY <1>4, <2>1 DEF UpTo
  <2>3. Slice(income, b, i) = Positive(income - lower)
    BY <1>2, <2>1 DEF Slice
  <2>4. Positive(income - lower) = income - from /\ income - from \in Nat
    BY <1>3 DEF Positive
  <2> QED BY <1>3, <2>2, <2>3, <2>4
<1>6. CASE i # n
  <2>1. PICK upper \in Nat : upper = b[i].upTo /\ upper > lower /\ ~IsOpen(b[i])
    <3>1. i \in 1 .. Len(b) - 1
      BY <1>1, <1>6
    <3> QED BY <1>2, <1>6, <3>1, BracketFacts
  <2>2. PICK to \in Nat : to = UpTo(income, b, i + 1) /\ to = IF income < upper THEN income ELSE upper
    BY <1>4, <2>1 DEF UpTo
  <2>3. Slice(income, b, i) = Positive(to - lower)
    BY <1>2, <2>1, <2>2 DEF Slice
  <2>4. Positive(to - lower) = to - from /\ to - from \in Nat
    BY <1>3, <2>1, <2>2 DEF Positive
  <2> QED BY <1>3, <2>2, <2>3, <2>4
<1> QED BY <1>5, <1>6

\* Of a higher income there is more in every bracket, or as much.
LEMMA SliceGrows ==
    ASSUME NEW b \in Brackets, NEW low \in Nat, NEW high \in Nat, low <= high, NEW i \in 1 .. Len(b)
    PROVE  Slice(low, b, i) <= Slice(high, b, i)
<1>1. PICK lower \in Int : lower = (IF i = 1 THEN 0 ELSE b[i - 1].upTo)
  <2>1. CASE i = 1
    BY <2>1
  <2>2. CASE i # 1
    <3>1. i - 1 \in 1 .. Len(b) - 1
      BY <2>2, BracketFacts
    <3> QED BY <2>2, <3>1, BracketFacts
  <2> QED BY <2>1, <2>2
<1>2. CASE IsOpen(b[i])
  <2>1. Slice(low, b, i) = Positive(low - lower) /\ Slice(high, b, i) = Positive(high - lower)
    BY <1>1, <1>2 DEF Slice
  <2>2. Positive(low - lower) <= Positive(high - lower)
    BY DEF Positive
  <2> QED BY <2>1, <2>2
<1>3. CASE ~IsOpen(b[i])
  <2>1. PICK upper \in Nat : upper = b[i].upTo
    <3>1. i \in 1 .. Len(b) - 1
      BY <1>3, BracketFacts
    <3> QED BY <3>1, BracketFacts
  <2>2. PICK s \in Nat : s = IF low < upper THEN low ELSE upper
    OBVIOUS
  <2>3. PICK t \in Nat : t = IF high < upper THEN high ELSE upper
    OBVIOUS
  <2>4. Slice(low, b, i) = Positive(s - lower) /\ Slice(high, b, i) = Positive(t - lower)
    BY <1>1, <1>3, <2>1, <2>2, <2>3 DEF Slice
  <2>5. Positive(s - lower) <= Positive(t - lower)
    BY <2>2, <2>3 DEF Positive
  <2> QED BY <2>4, <2>5
<1> QED BY <1>2, <1>3

\* The brackets share out an income.
LEMMA SlicesShareIncome ==
    ASSUME NEW b \in Brackets, NEW income \in Nat
    PROVE  SumOver([i \in DOMAIN b |-> Slice(income, b, i)], DOMAIN b) = income
<1>1. PICK n \in Nat : n = Len(b) /\ n >= 1 /\ DOMAIN b = 1 .. n
  BY BracketFacts
<1> DEFINE h == [i \in 1 .. n + 1 |-> UpTo(income, b, i)]
           slices == [i \in 1 .. n |-> Slice(income, b, i)]
<1>2. \A i \in 1 .. n : h[i] \in Int /\ h[i + 1] \in Int /\ slices[i] = h[i + 1] - h[i]
  <2> SUFFICES ASSUME NEW i \in 1 .. n PROVE h[i] \in Int /\ h[i + 1] \in Int /\ slices[i] = h[i + 1] - h[i]
    OBVIOUS
  <2>1. h[i] = UpTo(income, b, i) /\ h[i + 1] = UpTo(income, b, i + 1) /\ slices[i] = Slice(income, b, i)
    OBVIOUS
  <2>2. /\ UpTo(income, b, i) \in Nat /\ UpTo(income, b, i + 1) \in Nat
        /\ Slice(income, b, i) = UpTo(income, b, i + 1) - UpTo(income, b, i)
    BY <1>1, SliceIsStep
  <2> HIDE DEF h, slices
  <2> QED BY <2>1, <2>2
<1>3. h[1] = 0 /\ h[n + 1] = income
  <2>1. h[1] = 0
    BY <1>1 DEF UpTo
  <2>2. h[n + 1] = UpTo(income, b, n + 1)
    BY <1>1
  <2>3. (n + 1) - 1 = n /\ n + 1 # 1 /\ IsOpen(b[n])
    BY <1>1, BracketFacts
  <2>4. UpTo(income, b, n + 1) = income
    BY <2>3 DEF UpTo
  <2> QED BY <2>1, <2>2, <2>4
<1> HIDE DEF h, slices
<1>4. \A i \in 1 .. n + 1 : h[i] \in Int
  <2> SUFFICES ASSUME NEW i \in 1 .. n + 1 PROVE h[i] \in Int
    OBVIOUS
  <2>1. CASE i \in 1 .. n
    BY <1>2, <2>1
  <2>2. CASE i = n + 1
    BY <1>3, <2>2
  <2> QED BY <2>1, <2>2
<1>5. PICK a \in Nat : a = 1
  OBVIOUS
<1>6. a <= n /\ \A i \in a .. n + 1 : h[i] \in Int
  BY <1>1, <1>4, <1>5
<1>7. \A i \in a .. n : slices[i] = h[i + 1] - h[i]
  BY <1>2, <1>5
<1>8. SumOver(slices, a .. n) = h[n + 1] - h[a]
  BY <1>6, <1>7, SumOfSteps
<1>9. SumOver(slices, 1 .. n) = income
  BY <1>3, <1>5, <1>8
<1> QED BY <1>1, <1>9 DEF slices

(***************************************************************************)
(* The tax grows with the income and never by more than the income does.   *)
(***************************************************************************)
LEMMA TaxMonotone ==
    ASSUME NEW b \in Brackets, NEW low \in Nat, NEW high \in Nat, low <= high
    PROVE  /\ ProgressiveTax(low, b) \in Nat /\ ProgressiveTax(high, b) \in Nat
           /\ ProgressiveTax(low, b) <= ProgressiveTax(high, b)
           /\ ProgressiveTax(high, b) - ProgressiveTax(low, b) <= high - low
<1> DEFINE S == DOMAIN b
           slice(income) == [i \in S |-> Slice(income, b, i)]
           tax(income) == [i \in S |-> RoundMoney(Slice(income, b, i) * b[i].rate)]
           above == [i \in S |-> tax(high)[i] + slice(low)[i]]
           below == [i \in S |-> tax(low)[i] + slice(high)[i]]
<1>1. IsFiniteSet(S)
  <2>1. PICK n \in Nat : S = 1 .. n
    BY BracketFacts
  <2>2. IsFiniteSet(1 .. n)
    BY ONLY <2>1, FS_Interval
  <2> QED BY ONLY <2>1, <2>2
<1>2. ASSUME NEW income \in Nat
      PROVE  /\ ProgressiveTax(income, b) = SumOver(tax(income), S)
             /\ SumOver(slice(income), S) = income
  <2>1. DOMAIN tax(income) = S
    OBVIOUS
  <2>2. FoldFunction(+, 0, tax(income)) = SumOver(tax(income), S)
    <3> HIDE DEF tax
    <3> QED BY <2>1, FoldIsSum
  <2>3. ProgressiveTax(income, b) = FoldFunction(+, 0, tax(income))
    BY Zenon DEF ProgressiveTax
  <2>4. SumOver(slice(income), S) = income
    BY SlicesShareIncome
  <2> HIDE DEF tax, slice
  <2> QED BY <2>2, <2>3, <2>4, Zenon
<1>3. ASSUME NEW i \in S
      PROVE  /\ tax(low)[i] \in Nat /\ tax(high)[i] \in Nat /\ slice(low)[i] \in Nat /\ slice(high)[i] \in Nat
             /\ tax(low)[i] <= tax(high)[i] /\ above[i] <= below[i]
             /\ above[i] = tax(high)[i] + slice(low)[i] /\ below[i] = tax(low)[i] + slice(high)[i]
  <2>1. i \in 1 .. Len(b) /\ b[i].rate \in 0 .. Whole
    BY BracketFacts
  <2>2. PICK s \in Nat : s = Slice(low, b, i)
    BY <2>1, SliceIsStep
  <2>3. PICK t \in Nat : t = Slice(high, b, i)
    BY <2>1, SliceIsStep
  <2>4. s <= t
    BY <2>1, <2>2, <2>3, SliceGrows
  <2>5. /\ RoundMoney(s * b[i].rate) \in Nat /\ RoundMoney(t * b[i].rate) \in Nat
        /\ RoundMoney(s * b[i].rate) <= RoundMoney(t * b[i].rate)
        /\ RoundMoney(t * b[i].rate) <= RoundMoney(s * b[i].rate) + (t - s)
    BY <2>1, <2>4, ChargeMonotone
  <2>6. tax(low)[i] = RoundMoney(s * b[i].rate) /\ tax(high)[i] = RoundMoney(t * b[i].rate)
        /\ slice(low)[i] = s /\ slice(high)[i] = t
    BY <2>2, <2>3
  <2>7. above[i] = tax(high)[i] + slice(low)[i] /\ below[i] = tax(low)[i] + slice(high)[i]
    OBVIOUS
  <2> HIDE DEF tax, slice, above, below
  <2> QED BY <2>5, <2>6, <2>7
<1> HIDE DEF S, tax, slice, above, below
<1>4. SumOver(tax(low), S) <= SumOver(tax(high), S)
  BY <1>1, <1>3, SumMonotone
<1>5. SumOver(above, S) <= SumOver(below, S)
  BY <1>1, <1>3, SumMonotone
<1>6. SumOver(above, S) = SumOver(tax(high), S) + SumOver(slice(low), S)
  BY <1>1, <1>3, SumOfTwo
<1>7. SumOver(below, S) = SumOver(tax(low), S) + SumOver(slice(high), S)
  BY <1>1, <1>3, SumOfTwo
<1>8. SumOver(tax(low), S) \in Nat /\ SumOver(tax(high), S) \in Nat
  BY <1>1, <1>3, SumBounds
<1>9. PICK t \in Nat, u \in Nat : t = ProgressiveTax(low, b) /\ u = ProgressiveTax(high, b)
                               /\ t <= u /\ u + low <= t + high
  BY <1>2, <1>4, <1>5, <1>6, <1>7, <1>8
<1> QED BY <1>9

Input == [base : Int, reimbursement : Int, exempt : Int, other : Int, insured : BOOLEAN]

\* The contribution of an employee, and what is left to be taxed.
Contribution(taxable, input, profile) ==
    IF input.insured
    THEN RoundMoney((IF profile.cap > 0 /\ profile.cap < taxable THEN profile.cap ELSE taxable)
                        * profile.employee)
    ELSE 0

Income(taxable, input, profile) ==
    Positive(taxable - Contribution(taxable, input, profile) - Positive(profile.deduction)
                     - Positive(input.exempt))

LEMMA PositiveFacts ==
    ASSUME NEW m \in Int, NEW n \in Int, m <= n
    PROVE  /\ Positive(m) \in Nat /\ Positive(n) \in Nat
           /\ Positive(m) <= Positive(n) /\ Positive(n) - Positive(m) <= n - m
           /\ m >= 0 => Positive(m) = m
           /\ m <= Positive(m)
BY DEF Positive

LEMMA PositiveIsNat ==
    ASSUME NEW n \in Int
    PROVE  Positive(n) \in Nat /\ n <= Positive(n) /\ (n >= 0 => Positive(n) = n)
BY DEF Positive

LEMMA ContributionMonotone ==
    ASSUME NEW profile, ValidProfile(profile), NEW input \in Input,
           NEW s \in Nat, NEW t \in Nat, s <= t
    PROVE  /\ Contribution(s, input, profile) \in Nat /\ Contribution(t, input, profile) \in Nat
           /\ Contribution(s, input, profile) <= Contribution(t, input, profile)
           /\ Contribution(t, input, profile) <= Contribution(s, input, profile) + (t - s)
<1>1. profile.employee \in 0 .. Whole /\ profile.cap \in Int
  BY DEF ValidProfile
<1>2. PICK c \in Nat : c = IF profile.cap > 0 /\ profile.cap < s THEN profile.cap ELSE s
  BY <1>1
<1>3. PICK d \in Nat : d = IF profile.cap > 0 /\ profile.cap < t THEN profile.cap ELSE t
  BY <1>1
<1>4. c <= d /\ d <= c + (t - s)
  BY <1>1, <1>2, <1>3
<1>5. /\ RoundMoney(c * profile.employee) \in Nat /\ RoundMoney(d * profile.employee) \in Nat
      /\ RoundMoney(c * profile.employee) <= RoundMoney(d * profile.employee)
      /\ RoundMoney(d * profile.employee) <= RoundMoney(c * profile.employee) + (d - c)
  BY <1>1, <1>4, ChargeMonotone
<1>6. CASE input.insured
  <2>1. /\ Contribution(s, input, profile) = RoundMoney(c * profile.employee)
        /\ Contribution(t, input, profile) = RoundMoney(d * profile.employee)
    BY <1>2, <1>3, <1>6 DEF Contribution
  <2> QED BY <1>4, <1>5, <2>1
<1>7. CASE ~input.insured
  <2>1. Contribution(s, input, profile) = 0 /\ Contribution(t, input, profile) = 0
    BY <1>7 DEF Contribution
  <2> QED BY <2>1
<1> QED BY <1>6, <1>7

LEMMA NothingContributed ==
    ASSUME NEW profile, ValidProfile(profile), NEW input \in Input
    PROVE  Contribution(0, input, profile) = 0
<1>1. profile.employee \in Nat /\ profile.cap \in Int
  BY WholeAssumption DEF ValidProfile
<1>2. (IF profile.cap > 0 /\ profile.cap < 0 THEN profile.cap ELSE 0) * profile.employee = 0
  BY <1>1
<1> QED BY <1>2, NothingRounded DEF Contribution

\* What is paid on more is more, for the contribution, the tax and the rest.
LEMMA PayMonotone ==
    ASSUME NEW profile, ValidProfile(profile), NEW input \in Input, NEW s \in Nat, NEW t \in Nat, s <= t
    PROVE  LET social(x) == Contribution(x, input, profile)
               tax(x)    == ProgressiveTax(Income(x, input, profile), profile.brackets)
           IN  /\ social(s) \in Nat /\ social(t) \in Nat /\ tax(s) \in Nat /\ tax(t) \in Nat
               /\ social(s) + tax(s) <= social(t) + tax(t)
               /\ (social(t) + tax(t)) - (social(s) + tax(s)) <= t - s
<1>1. PICK c \in Nat : c = Contribution(s, input, profile)
  BY ContributionMonotone
<1>2. PICK d \in Nat : d = Contribution(t, input, profile) /\ c <= d /\ d <= c + (t - s)
  BY <1>1, ContributionMonotone
<1>3. PICK free \in Int : free = Positive(profile.deduction) + Positive(input.exempt)
  <2>1. profile.deduction \in Int /\ input.exempt \in Int
    BY DEF ValidProfile, Input
  <2>2. Positive(profile.deduction) \in Nat /\ Positive(input.exempt) \in Nat
    BY <2>1, PositiveIsNat
  <2> QED BY <2>2
<1>4. PICK low \in Int, high \in Int : low = s - c - free /\ high = t - d - free
  OBVIOUS
<1>5. low <= high /\ high - low = (t - s) - (d - c)
  BY <1>2, <1>4
<1>6. Income(s, input, profile) = Positive(low) /\ Income(t, input, profile) = Positive(high)
  <2>1. profile.deduction \in Int /\ input.exempt \in Int
    BY DEF ValidProfile, Input
  <2>2. Positive(profile.deduction) \in Nat /\ Positive(input.exempt) \in Nat
    BY <2>1, PositiveIsNat
  <2>3. /\ s - c - Positive(profile.deduction) - Positive(input.exempt) = low
        /\ t - d - Positive(profile.deduction) - Positive(input.exempt) = high
    BY <1>3, <1>4, <2>2
  <2> QED BY <1>1, <1>2, <2>3 DEF Income
<1>7. PICK i \in Nat, j \in Nat : /\ i = Positive(low) /\ j = Positive(high)
                                  /\ i <= j /\ j - i <= high - low
  BY <1>5, PositiveFacts
<1>8. profile.brackets \in Brackets
  BY DEF ValidProfile, Brackets
<1>9. PICK tax \in Nat, tix \in Nat :
         /\ tax = ProgressiveTax(i, profile.brackets) /\ tix = ProgressiveTax(j, profile.brackets)
         /\ tax <= tix /\ tix - tax <= j - i
  BY <1>7, <1>8, TaxMonotone
<1> QED BY <1>1, <1>2, <1>5, <1>6, <1>7, <1>9

LEMMA NothingTaxed ==
    ASSUME NEW profile, ValidProfile(profile), NEW input \in Input
    PROVE  ProgressiveTax(Income(0, input, profile), profile.brackets) = 0
<1>1. profile.brackets \in Brackets /\ profile.deduction \in Int /\ input.exempt \in Int
  BY DEF ValidProfile, Brackets, Input
<1>2. Positive(profile.deduction) \in Nat /\ Positive(input.exempt) \in Nat
  BY <1>1, PositiveIsNat
<1>3. Income(0, input, profile) = 0
  BY <1>2, NothingContributed DEF Income, Positive
<1> DEFINE b == profile.brackets
           f == [i \in DOMAIN b |-> RoundMoney(Slice(0, b, i) * b[i].rate)]
<1>4. \A i \in DOMAIN b : f[i] = 0
  <2> SUFFICES ASSUME NEW i \in DOMAIN b PROVE RoundMoney(Slice(0, b, i) * b[i].rate) = 0
    OBVIOUS
  <2>1. i \in 1 .. Len(b) /\ b[i].rate \in Nat
    BY <1>1, BracketFacts, WholeAssumption
  <2>2. Slice(0, b, i) \in Nat /\ Slice(0, b, i) <= 0
    <3>1. UpTo(0, b, i) \in Nat /\ UpTo(0, b, i + 1) \in Nat
          /\ Slice(0, b, i) = UpTo(0, b, i + 1) - UpTo(0, b, i) /\ Slice(0, b, i) \in Nat
      BY <1>1, <2>1, SliceIsStep
    <3>2. UpTo(0, b, i + 1) <= 0
      <4>1. (i + 1) - 1 = i /\ i + 1 # 1
        BY <2>1
      <4>2. CASE IsOpen(b[i])
        BY <4>1, <4>2 DEF UpTo
      <4>3. CASE ~IsOpen(b[i])
        <5>1. i \in 1 .. Len(b) - 1
          BY <1>1, <2>1, <4>3, BracketFacts
        <5>2. PICK upper \in Nat : upper = b[i].upTo /\ 0 < upper
          <6>1. CASE i = 1
            BY <1>1, <5>1, <6>1, BracketFacts
          <6>2. CASE i # 1
            <7>1. i - 1 \in 1 .. Len(b) - 1
              BY <5>1, <6>2
            <7>2. b[i - 1].upTo \in Nat /\ b[i].upTo \in Nat /\ b[i].upTo > b[i - 1].upTo
              BY <1>1, <5>1, <6>2, <7>1, BracketFacts
            <7> QED BY <7>2
          <6> QED BY <6>1, <6>2
        <5> QED BY <4>1, <4>3, <5>2 DEF UpTo
      <4> QED BY <4>2, <4>3
    <3> QED BY <3>1, <3>2
  <2>3. Slice(0, b, i) * b[i].rate = 0
    <3>1. Slice(0, b, i) = 0
      BY <2>2
    <3> QED BY <2>1, <3>1
  <2> QED BY <2>3, NothingRounded
<1>5. DOMAIN f = DOMAIN b /\ IsFiniteSet(DOMAIN b)
  BY <1>1, BracketFacts, FS_Interval
<1>6. FoldFunction(+, 0, f) = 0
  <2> HIDE DEF f, b
  <2>1. SumOver(f, DOMAIN b) = 0
    BY <1>4, <1>5, SumOfZeros
  <2>2. FoldFunction(+, 0, f) = SumOver(f, DOMAIN b)
    BY <1>5, FoldIsSum
  <2> QED BY <2>1, <2>2
<1>7. ProgressiveTax(0, b) = FoldFunction(+, 0, f)
  BY Zenon DEF ProgressiveTax
<1> QED BY <1>3, <1>6, <1>7, Zenon

LEMMA PaySlip ==
    ASSUME NEW profile, NEW input \in Input
    PROVE  LET slip    == CalculatePayroll(input, profile)
               taxable == Positive(input.base)
           IN  /\ slip.social = Contribution(taxable, input, profile)
               /\ slip.tax = ProgressiveTax(Income(taxable, input, profile), profile.brackets)
               /\ slip.gross = taxable + Positive(input.reimbursement)
               /\ slip.deductions = Positive(input.other) + slip.social + slip.tax
               /\ slip.net = Positive(slip.gross - slip.deductions)
BY DEF CalculatePayroll, Contribution, Income

(***************************************************************************)
(* For any tax profile that POST /payroll/tax-profiles accepts and any     *)
(* input, contribution and tax together never exceed the taxable pay,      *)
(* though each bracket and the contribution are rounded on their own: the  *)
(* clamp of calculatePayroll's netPay hides nothing but otherDeductions.   *)
(***************************************************************************)
THEOREM DutiesFitThePay ==
    ASSUME NEW profile, ValidProfile(profile), NEW input \in Input
    PROVE  LET slip == CalculatePayroll(input, profile)
           IN  /\ slip.social \in Nat /\ slip.tax \in Nat /\ slip.net \in Nat
               /\ slip.social + slip.tax <= Positive(input.base)
               /\ slip.net <= slip.gross - slip.deductions + Positive(input.other)
<1>1. input.base \in Int /\ input.reimbursement \in Int /\ input.other \in Int
  BY DEF Input
<1>2. PICK taxable \in Nat, repaid \in Nat, other \in Nat :
         /\ taxable = Positive(input.base) /\ repaid = Positive(input.reimbursement)
         /\ other = Positive(input.other)
  BY <1>1, PositiveIsNat
<1>3. PICK social \in Nat, tax \in Nat :
         /\ social = Contribution(taxable, input, profile)
         /\ tax = ProgressiveTax(Income(taxable, input, profile), profile.brackets)
         /\ social + tax <= taxable
  <2>1. 0 \in Nat /\ 0 <= taxable
    OBVIOUS
  <2>2. /\ Contribution(taxable, input, profile) \in Nat
        /\ ProgressiveTax(Income(taxable, input, profile), profile.brackets) \in Nat
        /\ (Contribution(taxable, input, profile)
              + ProgressiveTax(Income(taxable, input, profile), profile.brackets)) - (0 + 0) <= taxable - 0
    BY <2>1, PayMonotone, NothingContributed, NothingTaxed
  <2> QED BY <2>2
<1>4. PICK slip : slip = CalculatePayroll(input, profile)
  OBVIOUS
<1>5. /\ slip.social = social /\ slip.tax = tax /\ slip.gross = taxable + repaid
      /\ slip.deductions = other + social + tax
      /\ slip.net = Positive(slip.gross - slip.deductions)
  BY <1>2, <1>3, <1>4, PaySlip
<1>6. PICK left \in Int : left = slip.gross - slip.deductions /\ left + other >= 0
  BY <1>3, <1>5
<1>7. Positive(left) \in Nat /\ Positive(left) <= left + other
  BY <1>6 DEF Positive
<1> QED BY <1>2, <1>3, <1>4, <1>5, <1>6, <1>7

(***************************************************************************)
(* A raise never lowers the net pay of calculatePayroll, and never raises  *)
(* it by more than itself, across brackets, the cap of the contribution    *)
(* and the rounding of every part, for any accepted tax profile.           *)
(***************************************************************************)
THEOREM RaisesPayOff ==
    ASSUME NEW profile, ValidProfile(profile), NEW input \in Input, NEW raise \in Nat
    PROVE  LET before == CalculatePayroll(input, profile)
               after  == CalculatePayroll([input EXCEPT !.base = @ + raise], profile)
           IN  before.net <= after.net /\ after.net <= before.net + raise
<1>1. input.base \in Int /\ input.reimbursement \in Int /\ input.other \in Int
  BY DEF Input
<1>2. PICK raised : raised = [input EXCEPT !.base = @ + raise]
  OBVIOUS
<1>3. /\ raised \in Input /\ raised.base = input.base + raise /\ raised.reimbursement = input.reimbursement
      /\ raised.other = input.other /\ raised.exempt = input.exempt /\ raised.insured = input.insured
  BY <1>1, <1>2 DEF Input
<1>4. PICK s \in Nat, t \in Nat, repaid \in Nat, other \in Nat :
         /\ s = Positive(input.base) /\ t = Positive(raised.base) /\ s <= t /\ t - s <= raise
         /\ repaid = Positive(input.reimbursement) /\ other = Positive(input.other)
  <2>1. PICK low \in Int, high \in Int : low = input.base /\ high = raised.base /\ high = low + raise
    BY <1>1, <1>3
  <2>2. low <= high
    BY <2>1
  <2>3. /\ Positive(low) \in Nat /\ Positive(high) \in Nat
        /\ Positive(low) <= Positive(high) /\ Positive(high) - Positive(low) <= high - low
    BY <2>2, PositiveFacts
  <2>4. PICK s \in Nat, t \in Nat : s = Positive(low) /\ t = Positive(high)
    BY <2>3
  <2>5. PICK repaid \in Nat, other \in Nat :
           repaid = Positive(input.reimbursement) /\ other = Positive(input.other)
    BY <1>1, PositiveIsNat
  <2>6. s <= t /\ t - s <= raise
    BY <2>1, <2>3, <2>4
  <2> QED BY <2>1, <2>4, <2>5, <2>6
<1>5. PICK due \in Nat, owed \in Nat :
         /\ due = Contribution(s, input, profile)
                    + ProgressiveTax(Income(s, input, profile), profile.brackets)
         /\ owed = Contribution(t, input, profile)
                     + ProgressiveTax(Income(t, input, profile), profile.brackets)
         /\ Contribution(s, input, profile) \in Nat /\ Contribution(t, input, profile) \in Nat
         /\ ProgressiveTax(Income(s, input, profile), profile.brackets) \in Nat
         /\ ProgressiveTax(Income(t, input, profile), profile.brackets) \in Nat
         /\ due <= owed /\ owed - due <= t - s
  BY <1>4, PayMonotone
<1>6. /\ Contribution(t, raised, profile) = Contribution(t, input, profile)
      /\ Income(t, raised, profile) = Income(t, input, profile)
  BY <1>3 DEF Contribution, Income
<1>7. PICK before : before = CalculatePayroll(input, profile)
  OBVIOUS
<1>8. PICK after : after = CalculatePayroll(raised, profile)
  OBVIOUS
<1>9. before.net = Positive((s + repaid) - (other + due))
  <2>1. /\ before.social = Contribution(s, input, profile)
        /\ before.tax = ProgressiveTax(Income(s, input, profile), profile.brackets)
        /\ before.gross = s + repaid
        /\ before.deductions = other + before.social + before.tax
        /\ before.net = Positive(before.gross - before.deductions)
    BY <1>4, <1>7, PaySlip
  <2>2. before.deductions = other + due
    BY <1>5, <2>1
  <2> QED BY <2>1, <2>2
<1>10. after.net = Positive((t + repaid) - (other + owed))
  <2>1. /\ after.social = Contribution(t, raised, profile)
        /\ after.tax = ProgressiveTax(Income(t, raised, profile), profile.brackets)
        /\ after.gross = t + repaid
        /\ after.deductions = other + after.social + after.tax
        /\ after.net = Positive(after.gross - after.deductions)
    BY <1>3, <1>4, <1>8, PaySlip
  <2>2. after.deductions = other + owed
    BY <1>5, <1>6, <2>1
  <2> QED BY <2>1, <2>2
<1>11. PICK m \in Int, n \in Int : m = (s + repaid) - (other + due) /\ n = (t + repaid) - (other + owed)
                                /\ m <= n /\ n - m <= raise
  BY <1>4, <1>5
<1>12. Positive(m) \in Nat /\ Positive(n) \in Nat /\ Positive(m) <= Positive(n) /\ Positive(n) - Positive(m) <= n - m
  BY <1>11, PositiveFacts
<1>13. before.net <= after.net /\ after.net <= before.net + raise
  BY <1>9, <1>10, <1>11, <1>12
<1> QED BY <1>2, <1>7, <1>8, <1>13
=============================================================================
