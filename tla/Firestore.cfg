SPECIFICATION Spec
CONSTANTS
    Users = {u1, u2}
    NoUser = NoUser
    Writes = {w1, w2, w3}
    Refused = {w2}
    Hello = Hello
    MaxPending = 2
    MaxChanges = 2
    MaxFaults = 1
SYMMETRY Symmetry
INVARIANTS TypeOK SentAsOwner AbortsAreStale FiledUnderAuthor ServesCurrentUser
    PipelineLeads ResultsMatch CallbacksMatch AssertsHold OkMeansApplied
    AppliedInOrder ErrorsAreFinal
PROPERTIES ImplementsQueue ServesQueues
CHECK_DEADLOCK FALSE
