SPECIFICATION Spec
CONSTANTS
    Devices = {d1}
    Users = {u1, u2}
    NoUser = NoUser
    Slots = {s1, s2}
    Visited = {"Login", "Register", "MyProfile", "MyProfile2"}
    Revoked = {u1, u2}
    Photos = TRUE
    MaxQueued = 1
PROPERTY UsedMeansTaken
