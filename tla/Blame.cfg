SPECIFICATION Spec
CONSTANTS
    Users = {u1}
    NoUser = NoUser
    Writes = {w1, w2, w3, w4}
    Refused = {w3}
    Hello = Hello
    MaxPending = 4
    MaxChanges = 0
    MaxFaults = 0
INVARIANTS BlameIsRight
CHECK_DEADLOCK FALSE
