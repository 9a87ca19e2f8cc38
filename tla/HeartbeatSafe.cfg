\* Composite numbers from 22 to 45; one tick is a second.
SPECIFICATION Spec
CONSTANTS
    Port = 3
    Low = 22
    High = 45
    MaxAge = 10
    MaxPing = 2
    MaxAttempts = 2
    Skews <- MCSkews
    MaxDelay = 2
    MaxOutages = 1
INVARIANTS TypeOK ConditionIsLeastDivisor HonestHeartbeatsPass
PROPERTIES OneLossTolerated
\* A relay that died leaves a directory with nothing to do.
CHECK_DEADLOCK FALSE
