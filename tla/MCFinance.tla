----------------------------- MODULE MCFinance ------------------------------
(***************************************************************************)
(* Money that leaves the books by hand: payroll, the attendance that it    *)
(* pays for, and the cash drawers of a branch.  They share no state, so a  *)
(* run looks at one of them at a time and leaves the others where they     *)
(* begin.                                                                  *)
(*                                                                         *)
(* Payroll: two periods over the same dates, two employees and two         *)
(* adjustments, a bonus and a deduction, net pay worked out by             *)
(* PayrollCalculator.  Drawers: a cashier, a manager and five requests.    *)
(* Attendance: one employee, see MCAttendance.                             *)
(***************************************************************************)
EXTENDS PayrollPeriods, PayrollCalculator, CashShifts, MCAttendance

CONSTANTS e1, e2, a1, a2

VARIABLE books      \* the part that moves

MCFor == a1 :> e1 @@ a2 :> e1
MCBonus == {a1}

\* Cents: 3 % social security up to 200, 10 % over 100 and 20 % over 300.
MCProfile == [employee |-> 3, employer |-> 5, cap |-> 200, deduction |-> 0,
              brackets |-> << [upTo |-> 100, rate |-> 0], [upTo |-> 300, rate |-> 10],
                              [upTo |-> NoLimit, rate |-> 20] >>]

ASSUME ProfileAssumption == ValidProfile(MCProfile)

MCInput(e, A) ==
    [base |-> (IF e = e1 THEN 150 ELSE 310) + (IF MCBonus \cap A = {} THEN 0 ELSE 50),
     reimbursement |-> 0, exempt |-> 0, insured |-> TRUE,
     other |-> IF A \ MCBonus = {} THEN 0 ELSE 20]

MCNetPay(e, A) == CalculatePayroll(MCInput(e, A), MCProfile).net

\* Requests are interchangeable: they come in the order of their numbers.
InOrder == \A r \in Request : req[r].pc # "idle" => \A q \in Request : q < r => req[q].pc # "idle"

\* So are the periods, and the records of attendance.
Symmetry == Permutations(Period) \cup Permutations(Record)

MCInit ==
    /\ books \in {"payroll", "drawer", "attendance"}
    /\ Init /\ ShiftsInit /\ AttendanceInit

MCNext ==
    /\ \/ books = "payroll" /\ Next /\ UNCHANGED <<shiftVars, attendanceVars>>
       \/ books = "drawer" /\ ShiftsNext /\ InOrder' /\ UNCHANGED <<vars, attendanceVars>>
       \/ books = "attendance" /\ AttendanceNext /\ UNCHANGED <<vars, shiftVars>>
    /\ UNCHANGED books

MCSpec == MCInit /\ [][MCNext]_<<vars, shiftVars, attendanceVars, books>>
=============================================================================
