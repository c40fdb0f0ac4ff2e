SPECIFICATION AttendanceSpec
CONSTANTS
    DayOff = DayOff
    Policy <- MCPolicy
    Roster <- MCMorningRoster
    Record = {t1}
    Clock <- MCMorning
    Bounds <- MCBounds
INVARIANTS
    DeductsOnlyTrue
CHECK_DEADLOCK FALSE
