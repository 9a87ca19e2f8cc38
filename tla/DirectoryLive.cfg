\* One node and two connections at a time; one handler may fail.
SPECIFICATION FairSpec
CONSTANTS
    Nodes = {n1}
    Handlers = {h1, h2}
    Objs = {o1, o2}
    Sweeper = Sweeper
    NoThread = NoThread
    Gone = Gone
    NoObj = NoObj
    MaxAge = 0
    MaxLag = 0
    MaxAborts = 1
 
PROPERTIES StoppedNodesLeave ConnectionsEnd
\* The mutex of a thread that ended is never released.
CHECK_DEADLOCK FALSE
