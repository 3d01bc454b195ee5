SPECIFICATION FairSpec
CONSTANTS
    Boards = {"SAM0", "SAM"}
    Minute = 3
    Day = 9
    MaxDelay = 2
    MaxRequests = 2
    Horizon = 20
INVARIANT
    ClockTrails
PROPERTIES
    ClockRunsOn
    TokenIsTimely
    TimeObtained
