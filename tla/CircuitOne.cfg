\* One client, three hops over two relays, one relay may stop.
SPECIFICATION FairSpec
CONSTANTS
    Clients = {c1}
    Relays = {r1, r2}
    Ids = {i1, i2}
    MinPath = 3
    MaxPath = 3
    Requests = {2, 3, 4}
    MaxMsgs = 2
    MaxCrashes = 1
    NoRelay = NoRelay
    NoId = NoId
    NoKey = NoKey
    NoLink = NoLink
INVARIANTS HopsAgree UndisturbedCircuitWorks 
PROPERTIES Tunneled EveryMessageAnswered
\* A session that ended, or was wedged, has no next step.
CHECK_DEADLOCK FALSE
