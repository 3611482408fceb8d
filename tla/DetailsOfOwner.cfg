SPECIFICATION Spec
CONSTANTS
    Devices = {d1}
    Users = {u1, u2}
    NoUser = NoUser
    Slots = {s1}
    Visited = {"Login", "Register", "MyProfile", "MyProfile2"}
    Revoked = {u1, u2}
    Photos = FALSE
    MaxQueued = 1
INVARIANT DetailsOfOwner
