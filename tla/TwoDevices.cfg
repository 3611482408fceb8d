SPECIFICATION Spec
CONSTANTS
    Devices = {d1, d2}
    Users = {u1}
    NoUser = NoUser
    Slots = {s1}
    Visited = {"Login", "Register"}
    Revoked = {}
    Photos = FALSE
    MaxQueued = 1
SYMMETRY Symmetry
INVARIANT NamedOnce
PROPERTY StorePromises
