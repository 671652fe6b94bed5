SPECIFICATION Spec
CONSTANTS
    identity = identity
    name = name
    NoLogin = NoLogin
    NoRoom = NoRoom
    Schools = {north, again}
    Teachers = {ann, ben}
    Rooms = {r1}
    Pupils = {p1, p2}
    Usernames = {"teacher"}
    IdentityOf <- MCIdentityOf
    UsernameOf <- MCUsernameOf
    NameOf <- MCNameOf
    MaxEvents = 2
    MaxRequests = 2
INVARIANT
    ApprovedHaveAccess
CHECK_DEADLOCK FALSE
