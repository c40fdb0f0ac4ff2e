--------------------------- MODULE WorkCalculator ----------------------------
(***************************************************************************)
(* Attendance in hours: what a record of attendance says of itself         *)
(* (staff/domain/attendance-calculator.ts) and what a payroll period makes *)
(* of all of them (finance/domain/payroll-work-calculator.ts).             *)
(*                                                                         *)
(* Times are hours of the one time zone of policy and roster, counted from *)
(* a midnight.  Clock times are multiples of roundingMinutes, so rounding  *)
(* moves nothing; the roster has one version.  Rates, the bands of the day *)
(* and of the night, absences and the warnings are left out.               *)
(***************************************************************************)
EXTENDS Integers, FiniteSetsExt, Functions

CONSTANTS
    Policy,     \* standard hours, maxShift, weekend days, holidays, lateGrace
    Roster,     \* start, end and grace of each day of the week
    DayOff      \* a day of the week without a roster

\* What validateWorkPolicy and the schedule editor accept.
ASSUME PolicyAssumption ==
    Policy.standard \in Nat /\ Policy.maxShift \in Nat /\ Policy.lateGrace \in Nat
ASSUME RosterAssumption ==
    \A w \in 0 .. 6 :
        Roster[w] # DayOff =>
            Roster[w].start \in 0 .. 23 /\ Roster[w].end \in 0 .. 23 /\ Roster[w].grace \in Nat

DayLength == 24
Midnight(d) == DayLength * d
DateOf(t)   == t \div DayLength
HourOf(t)   == t % DayLength

\* How much of n is beyond a limit: Math.max(0, n - limit).
Beyond(n, limit) == IF n > limit THEN n - limit ELSE 0

\* The sum of the values of a function.
Total(f) == FoldFunction(+, 0, f)

RosterOf(d) == Roster[d % 7]
Rostered(d) == RosterOf(d) # DayOff

\* Hours from midnight: a roster may end on the next date.
RosterEnd(d) ==
    RosterOf(d).end + IF RosterOf(d).end > RosterOf(d).start THEN 0 ELSE DayLength

-----------------------------------------------------------------------------
(***************************************************************************)
(* One record: its roster is that of the date of its clock-in.             *)
(***************************************************************************)
LateBy(in) ==
    LET d == DateOf(in)
    IN  IF Rostered(d) THEN Beyond(in, Midnight(d) + RosterOf(d).start) ELSE 0

EarlyBy(in, out) ==
    LET d == DateOf(in)
    IN  IF Rostered(d) THEN Beyond(Midnight(d) + RosterEnd(d), out) ELSE 0

-----------------------------------------------------------------------------
(***************************************************************************)
(* A payroll period, from p.start up to p.end.                             *)
(***************************************************************************)
\* Mutant: a shift is cut where the period begins and not where it ends.
CutAtStart(s, p) ==
    LET in == Max({s.in, p.start})
    IN  [in |-> in, out |-> Min({s.out, in + Policy.maxShift})]

\* The part of a shift that counts.
Cut(s, p) ==
    LET in == Max({s.in, p.start})
    IN  [in |-> in, out |-> Min({s.out, p.end, in + Policy.maxShift})]

\* Shifts of which something counts, cut.
Counted(shifts, p) ==
    [r \in {r \in DOMAIN shifts : Cut(shifts[r], p).out > Cut(shifts[r], p).in} |->
        Cut(shifts[r], p)]

DatesOf(s) == DateOf(s.in) .. DateOf(s.out - 1)

Overlap(s, from, to) == Beyond(Min({s.out, to}), Max({s.in, from}))

\* `daily` of the shifts s, which have been cut: its dates and one entry.
Dates(s) == UNION {DatesOf(s[r]) : r \in DOMAIN s}

Entry(s, d) ==
    LET on == {r \in DOMAIN s : d \in DatesOf(s[r])} IN
    [hours |-> Total([r \in on |-> Overlap(s[r], Midnight(d), Midnight(d + 1))]),
     first |-> Min({s[r].in : r \in on}),
     last  |-> Max({s[r].out : r \in on}),
     scheduled |-> Rostered(d) /\ \E r \in on : DateOf(s[r].in) = d]

Kind(d) == IF d \in Policy.holidays THEN "holiday"
           ELSE IF d % 7 \in Policy.weekend THEN "weekend" ELSE "working"

Threshold(entry, d) ==
    IF entry.scheduled THEN RosterEnd(d) - RosterOf(d).start ELSE Policy.standard

LateOn(entry, d) ==
    IF entry.scheduled
    THEN Beyond(HourOf(entry.first), RosterOf(d).start + Policy.lateGrace) ELSE 0

\* Mutant: the clock-out is taken for one of the same date.
EarlyOnDate(entry, d) ==
    IF entry.scheduled
    THEN Beyond(RosterEnd(d), HourOf(entry.last) + RosterOf(d).grace) ELSE 0

EarlyOn(entry, d) ==
    LET actualEnd == Midnight(DateOf(entry.last) - DateOf(entry.first)) + HourOf(entry.last)
    IN  IF entry.scheduled THEN Beyond(RosterEnd(d), actualEnd + RosterOf(d).grace) ELSE 0

CalculatePayrollWork(shifts, p) ==
    LET s         == Counted(shifts, p)
        entry     == [d \in Dates(s) |-> Entry(s, d)]
        of(kind)  == {d \in Dates(s) : Kind(d) = kind}
        hours(D)  == Total([d \in D |-> entry[d].hours])
        overtime  == Total([d \in of("working") |-> Beyond(entry[d].hours, Threshold(entry[d], d))])
    IN  [regular  |-> hours(of("working")) - overtime,
         overtime |-> overtime,
         weekend  |-> hours(of("weekend")),
         holiday  |-> hours(of("holiday")),
         late     |-> Total([d \in Dates(s) |-> LateOn(entry[d], d)]),
         early    |-> Total([d \in Dates(s) |-> EarlyOn(entry[d], d)])]
=============================================================================
