\* A server and another client's application as hosts, two messages and one
\* answer.
SPECIFICATION FairSpec
CONSTANTS
    Hosts = {h1, e1}
    Electrons = {e1}
    MaxMessages = 2
    MaxAnswers = 1
    None = None
INVARIANTS TypeOK  DuplicateOnlyAfterCut
PROPERTIES OldLeavesOrWaits
CHECK_DEADLOCK FALSE
