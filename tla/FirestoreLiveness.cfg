SPECIFICATION FairSpec
CONSTANTS
    Users = {u1}
    NoUser = NoUser
    Writes = {w1, w2}
    Refused = {w2}
    Hello = Hello
    MaxPending = 1
    MaxChanges = 1
    MaxFaults = 2
INVARIANTS PipelineIsFull NothingStalls
PROPERTIES WritesSettle
CHECK_DEADLOCK FALSE
