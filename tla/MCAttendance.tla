---------------------------- MODULE MCAttendance -----------------------------
(***************************************************************************)
(* Small instances of Attendance: three dates, of which the first has a    *)
(* night roster, the second a day roster and the third, a weekend day,     *)
(* none.                                                                   *)
(***************************************************************************)
EXTENDS Attendance, TLC

MCPolicy == [standard |-> 8, maxShift |-> 16, weekend |-> {2}, holidays |-> {},
             lateGrace |-> 1]

MCRoster ==
    0 :> [start |-> 22, end |-> 6, grace |-> 1] @@ 1 :> [start |-> 9, end |-> 17, grace |-> 0]
    @@ [w \in 2 .. 6 |-> DayOff]

\* Periods begin at midnight UTC, which is seven in Vientiane.
MCBounds == <<7, 31, 55>>

\* Between them: a night that is left too early, a shift across the boundary
\* of the periods, a late one that crosses midnight into the weekend, and
\* some that are longer than the policy allows.
MCClock == {22, 28, 35, 50}

\* A roster that begins before seven, and is worked in full.
MCMorningRoster == 1 :> [start |-> 6, end |-> 14, grace |-> 0] @@ [w \in 0 .. 6 |-> DayOff]
MCMorning       == {30, 38}
=============================================================================
