---------------------------- MODULE SalaryLedger ----------------------------
(***************************************************************************)
(* What payroll promises to the employees of a branch for one stretch of   *)
(* dates: a salary is paid to employees who do not have it, and taken back *)
(* only from all the employees that were paid, together.                   *)
(***************************************************************************)
EXTENDS Integers

CONSTANT Employee

VARIABLE settled        \* whether an employee has the salary of the dates

TypeOK == settled \in [Employee -> BOOLEAN]

Init == settled = [e \in Employee |-> FALSE]

Pay(E) ==
    /\ E # {}
    /\ \A e \in E : ~settled[e]
    /\ settled' = [e \in Employee |-> e \in E \/ settled[e]]

TakeBack ==
    /\ \E e \in Employee : settled[e]
    /\ settled' = [e \in Employee |-> FALSE]

Next == TakeBack \/ \E E \in SUBSET Employee : Pay(E)

Spec == Init /\ [][Next]_settled
=============================================================================
