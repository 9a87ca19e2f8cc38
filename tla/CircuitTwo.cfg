\* Two clients, two hops each over the same two relays, colliding identifiers.
SPECIFICATION Spec
CONSTANTS
    Clients = {c1, c2}
    Relays = {r1, r2}
    Ids = {i1, i2}
    MinPath = 2
    MaxPath = 2
    Requests = {2}
    MaxMsgs = 1
    MaxCrashes = 0
    NoRelay = NoRelay
    NoId = NoId
    NoKey = NoKey
    NoLink = NoLink
SYMMETRY Symmetry
INVARIANTS TypeOK  OnionsInPlace AnswersStayHome
\* When everything typed was answered nothing is left to do.
CHECK_DEADLOCK FALSE
