\* Two nodes and two connections at a time; no handler fails.
SPECIFICATION Spec
CONSTANTS
    Nodes = {n1, n2}
    Handlers = {h1, h2}
    Objs = {o1, o2}
    Sweeper = Sweeper
    NoThread = NoThread
    Gone = Gone
    NoObj = NoObj
    MaxAge = 0
    MaxLag = 1
    MaxAborts = 0
SYMMETRY Symmetry
INVARIANTS TypeOK  VectorMatchesHeap ListedOnce
PROPERTIES RemovedOnlyIfStale PunctualHeartbeatCounts
