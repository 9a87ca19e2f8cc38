\* A relay's report that its next node is unreachable cannot be opened.
SPECIFICATION Spec
CONSTANTS
    Clients = {c1}
    Relays = {r1, r2}
    Ids = {i1, i2}
    MinPath = 3
    MaxPath = 3
    Requests = {2, 3, 4}
    MaxMsgs = 2
    MaxCrashes = 1
    NoRelay = NoRelay
    NoId = NoId
    NoKey = NoKey
    NoLink = NoLink
SYMMETRY Symmetry
INVARIANTS ReportReadable
CHECK_DEADLOCK FALSE
