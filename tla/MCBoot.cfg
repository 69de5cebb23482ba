\* Boards on which any two calls may fail, and power that is cut at any moment.
CONSTANTS
    Faults <- TwoFaults
    TOUCH_ATTEMPTS = 2
    MaxCuts = 1
SPECIFICATION BootSpec
INVARIANTS
    UsersFindTheirParts
    StatusIsTrue
PROPERTIES
    StartupEnds
    HealthyBoardSniffs
CHECK_DEADLOCK FALSE
