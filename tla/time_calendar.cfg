SPECIFICATION CalendarSpec
CONSTANTS
    Word = 2147483647
    LastYear = 2401
CHECK_DEADLOCK FALSE
INVARIANTS
    SecondsAreElapsed
