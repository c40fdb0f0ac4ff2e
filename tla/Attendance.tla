----------------------------- MODULE Attendance ------------------------------
(***************************************************************************)
(* The attendance of one employee (staff/presentation/routes.ts) and the   *)
(* hours that consecutive payroll periods pay for it.                      *)
(*                                                                         *)
(* A clock-out and a correction read the record before they write it, in   *)
(* two statements that others come between.  The clock-out writes only an  *)
(* OPEN record; the correction writes by id alone.  A unique index allows  *)
(* an employee one OPEN record, so a clock-in is one step, and so is a     *)
(* void: its write asks nothing of the record that its read has seen.      *)
(***************************************************************************)
EXTENDS WorkCalculator, Sequences

CONSTANTS
    Record,     \* attendance_records of the employee
    Clock,      \* the hours at which anybody does anything
    Bounds      \* where payroll periods begin and end, in order

ASSUME RecordAssumption == IsFiniteSet(Record)
ASSUME ClockAssumption == Clock \subseteq Nat /\ Clock # {}
ASSUME BoundsAssumption ==
    /\ Bounds \in Seq(Nat)
    /\ \A i \in 2 .. Len(Bounds) : Bounds[i - 1] < Bounds[i]

VARIABLES
    now,
    record,     \* attendance_records
    leaving,    \* clock-outs between read and write: the clock-in they have seen
    correcting  \* records that a correction has read and not written yet

attendanceVars == <<now, record, leaving, correcting>>

NoTime == -1            \* null

\* mixed: times of the record and what was worked out from others.
NoRecord == [status |-> "none", in |-> NoTime, out |-> NoTime,
             late |-> 0, early |-> 0, worked |-> 0, mixed |-> FALSE]

Statuses == {"none", "OPEN", "CLOSED", "ADJUSTED", "VOID"}

AttendanceTypeOK ==
    /\ now \in Clock
    /\ record \in [Record -> [status : Statuses, in : Clock \cup {NoTime},
                              out : Clock \cup {NoTime}, late : Nat, early : Nat,
                              worked : Nat, mixed : BOOLEAN]]
    /\ leaving \in [Record -> Clock \cup {NoTime}]
    /\ correcting \in SUBSET Record

AttendanceInit ==
    /\ now = Min(Clock)
    /\ record = [r \in Record |-> NoRecord]
    /\ leaving = [r \in Record |-> NoTime]
    /\ correcting = {}

-----------------------------------------------------------------------------
Has(r, statuses) == record[r].status \in statuses

\* attendance_records_one_open_per_user_idx.
MayOpen(r) == \A q \in Record : Has(q, {"OPEN"}) => q = r

\* The clock goes to the next hour at which somebody does something.
Tick ==
    /\ \E t \in Clock : t > now
    /\ now' = Min({t \in Clock : t > now})
    /\ UNCHANGED <<record, leaving, correcting>>

\* A record with attendanceValues of its times.
Written(r, status, in, out) ==
    [status |-> status, in |-> in, out |-> out, late |-> LateBy(in),
     early  |-> IF out = NoTime THEN 0 ELSE EarlyBy(in, out),
     worked |-> IF out = NoTime THEN 0 ELSE out - in,
     mixed  |-> FALSE]

\* POST /attendance/clock-in.
ClockIn(r) ==
    /\ Has(r, {"none"}) /\ MayOpen(r)
    /\ record' = [record EXCEPT ![r] = Written(r, "OPEN", now, NoTime)]
    /\ UNCHANGED <<now, leaving, correcting>>

\* POST /attendance/clock-out.
ClockOutRead(r) ==
    /\ Has(r, {"OPEN"}) /\ leaving[r] = NoTime
    /\ leaving' = [leaving EXCEPT ![r] = record[r].in]
    /\ UNCHANGED <<now, record, correcting>>

\* attendance_records_time_order_check: not before the clock-in.
ClockOutWrite(r) ==
    LET seen == leaving[r] IN
    /\ seen # NoTime
    /\ Has(r, {"OPEN"}) /\ now > record[r].in
    /\ record' = [record EXCEPT ![r].status = "CLOSED", ![r].out = now,
                                ![r].worked = Beyond(now, seen),
                                ![r].early = EarlyBy(seen, now),
                                ![r].mixed = seen # record[r].in]
    /\ leaving' = [leaving EXCEPT ![r] = NoTime]
    /\ UNCHANGED <<now, correcting>>

\* The record is not OPEN any more, the database refuses, the process ends.
ClockOutFails(r) ==
    /\ leaving[r] # NoTime
    /\ leaving' = [leaving EXCEPT ![r] = NoTime]
    /\ UNCHANGED <<now, record, correcting>>

\* What a manager may write: hours in order, or a record that is open again.
Rewrite(r, in, out) ==
    /\ out = NoTime => MayOpen(r)
    /\ out # NoTime => out > in
    /\ record' = [record EXCEPT ![r] =
            Written(r, IF out = NoTime THEN "OPEN" ELSE "ADJUSTED", in, out)]

\* POST /attendance/manual.
Manual(r, in, out) ==
    /\ Has(r, {"none"})
    /\ Rewrite(r, in, out)
    /\ UNCHANGED <<now, leaving, correcting>>

\* PUT /attendance/:attendanceId.
CorrectRead(r) ==
    /\ ~Has(r, {"none", "VOID"})
    /\ r \notin correcting
    /\ correcting' = correcting \cup {r}
    /\ UNCHANGED <<now, record, leaving>>

CorrectWrite(r, in, out) ==
    /\ r \in correcting
    /\ Rewrite(r, in, out)
    /\ correcting' = correcting \ {r}
    /\ UNCHANGED <<now, leaving>>

CorrectFails(r) ==
    /\ r \in correcting
    /\ correcting' = correcting \ {r}
    /\ UNCHANGED <<now, record, leaving>>

\* POST /attendance/:attendanceId/void.
Void(r) ==
    /\ ~Has(r, {"none", "VOID"})
    /\ record' = [record EXCEPT ![r].status = "VOID"]
    /\ UNCHANGED <<now, leaving, correcting>>

AttendanceNext ==
    \/ Tick
    \/ \E r \in Record :
        \/ ClockIn(r)
        \/ ClockOutRead(r) \/ ClockOutWrite(r) \/ ClockOutFails(r)
        \/ CorrectRead(r) \/ CorrectFails(r)
        \/ Void(r)
        \/ \E in \in Clock, out \in Clock \cup {NoTime} :
            Manual(r, in, out) \/ CorrectWrite(r, in, out)

AttendanceSpec == AttendanceInit /\ [][AttendanceNext]_attendanceVars

-----------------------------------------------------------------------------
(***************************************************************************)
(* What POST /payroll/periods/:id/calculate reads and works out.           *)
(***************************************************************************)
PayPeriods == {[start |-> Bounds[i - 1], end |-> Bounds[i]] : i \in 2 .. Len(Bounds)}

\* OPEN_ATTENDANCE_EXISTS.
MayCalculate(p) == \A r \in Record : Has(r, {"OPEN"}) => record[r].in >= p.end

AttendanceRows(p) ==
    {r \in Record : /\ Has(r, {"CLOSED", "ADJUSTED"})
                    /\ record[r].in < p.end /\ record[r].out > p.start}

\* The periods that attendance is paid in: where there is none, the hours are
\* those of closed cash shifts.
FromAttendance == {p \in PayPeriods : AttendanceRows(p) # {}}

Work(p) ==
    CalculatePayrollWork([r \in AttendanceRows(p) |-> [in |-> record[r].in, out |-> record[r].out]], p)

HoursWorked(p) == LET w == Work(p) IN w.regular + w.overtime + w.weekend + w.holiday

-----------------------------------------------------------------------------
(***************************************************************************)
(* Properties.                                                             *)
(***************************************************************************)
\* Consecutive periods pay, between them, the hours that the attendance list
\* shows and no hour twice, however the records were corrected: provided they
\* lie within the periods, no shift is longer than the policy allows and no
\* correction came between the read and the write of a clock-out.
HoursPaidOnce ==
    LET closed == UNION {AttendanceRows(p) : p \in FromAttendance} IN
    (/\ \A p \in PayPeriods : MayCalculate(p)
     /\ \A r \in closed : /\ ~record[r].mixed
                          /\ record[r].worked <= Policy.maxShift
                          /\ record[r].in >= Bounds[1] /\ record[r].out <= Bounds[Len(Bounds)])
    => Total([p \in FromAttendance |-> HoursWorked(p)]) = Total([r \in closed |-> record[r].worked])

\* A record that is not cut, and no other is on the date of its clock-in.
Alone(r, p) ==
    /\ p.start <= record[r].in /\ record[r].out <= p.end
    /\ record[r].out - record[r].in <= Policy.maxShift
    /\ \A q \in AttendanceRows(p) \ {r} : DateOf(record[r].in) \notin DatesOf(record[q])

\* Payroll charges, for such records, the lateness and the early leave that
\* the list shows of them, beyond the grace allowed, whatever corrections and
\* clock-outs came before.
SameVerdict ==
    \A p \in FromAttendance :
        LET rows == AttendanceRows(p) IN
        (\A r \in rows : ~record[r].mixed /\ Alone(r, p)) =>
            LET work     == Work(p)
                grace(r) == LET d == DateOf(record[r].in)
                            IN  IF Rostered(d) THEN RosterOf(d).grace ELSE 0
            IN  /\ work.late = Total([r \in rows |-> Beyond(record[r].late, Policy.lateGrace)])
                /\ work.early = Total([r \in rows |-> Beyond(record[r].early, grace(r))])

\* Payroll "deducts only late and early-leave minutes beyond configured
\* grace" (payroll-work-calculator.test.ts:112): an employee whose records
\* show neither is charged for neither.
DeductsOnlyTrue ==
    \A p \in FromAttendance :
        /\ MayCalculate(p)
        /\ \A r \in AttendanceRows(p) : record[r].late = 0 /\ record[r].early = 0
        => Work(p).late = 0 /\ Work(p).early = 0
=============================================================================
