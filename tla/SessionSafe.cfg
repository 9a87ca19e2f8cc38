\* Two sessions; two designs, pushed messages or overlaps of sessions.  One tick
\* is within PATH_TIMEOUT and two are not; one is more than ELECTRON_TIMEOUT.
SPECIFICATION FairSpec
CONSTANTS
    MaxSessions = 2
    MaxEvents = 2
    PathTimeout = 1
    ElectronTimeout = 0
    None = None
    Dead = Dead
INVARIANTS TypeOK QuietSessionWorks 
PROPERTIES StopOnlyByOverlap LayersFitConnection ExpiryIsLate IdleClientRests
CHECK_DEADLOCK FALSE
