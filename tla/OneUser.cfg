SPECIFICATION FairSpec
CONSTANTS
    Devices = {d1}
    Users = {u1}
    NoUser = NoUser
    Slots = {s1, s2}
    Visited = {"Register"}
    Revoked = {u1}
    Photos = TRUE
    MaxQueued = 1
INVARIANTS TypeOK ProfileHasPhoto
PROPERTIES TopDecides ServesQueues CallsEnd NameSettles
