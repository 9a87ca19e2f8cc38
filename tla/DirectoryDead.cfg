\* A node that has just sent its heartbeat is removed as dead.
SPECIFICATION Spec
CONSTANTS
    Nodes = {n1}
    Handlers = {h1}
    Objs = {o1, o2}
    Sweeper = Sweeper
    NoThread = NoThread
    Gone = Gone
    NoObj = NoObj
    MaxAge = 1
    MaxLag = 1
    MaxAborts = 0
SYMMETRY Symmetry
PROPERTIES RemovedIsDead
