SPECIFICATION Spec
CONSTANTS
    identity = identity
    name = name
    NoLogin = NoLogin
    NoRoom = NoRoom
    Schools = {north, again}
    Teachers = {ann, ben}
    Rooms = {r1, r2}
    Pupils = {p1}
    Usernames = {"teacher"}
    IdentityOf <- MCIdentityOf
    UsernameOf <- MCUsernameOf
    NameOf <- MCNameOf
    MaxEvents = 2
    MaxRequests = 2
SYMMETRY Symmetry
INVARIANTS
    TypeOK
    RejectedIsLockedOut
    OneTeacherPerAccount
    OneActiveSchoolPerIdentity
PROPERTIES
    CascadeReachesItsTeachers
    OwnPupilsOnly
CHECK_DEADLOCK FALSE
