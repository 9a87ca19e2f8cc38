\* The relay's process ends when the directory is away.
SPECIFICATION Spec
CONSTANTS
    Port = 3
    Low = 22
    High = 45
    MaxAge = 10
    MaxPing = 2
    MaxAttempts = 2
    Skews <- MCSkews
    MaxDelay = 2
    MaxOutages = 1
INVARIANTS SendAliveGoesOn
\* A relay that died leaves a directory with nothing to do.
CHECK_DEADLOCK FALSE
