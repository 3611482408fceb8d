SPECIFICATION Spec
CONSTANTS
    Devices = {d1}
    Users = {u1, u2}
    NoUser = NoUser
    Slots = {s1, s2}
    Visited = {"Login", "Register"}
    Revoked = {u1, u2}
    Photos = FALSE
    MaxQueued = 1
SYMMETRY Symmetry
INVARIANTS NameHasAccount ClientFollowsAuth OneCompletionEach
    NamesUnderOwner
PROPERTY WritesSurvive
