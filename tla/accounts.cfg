CONSTANTS
    Teams = {north, south}
    Users = {ann, bob}
    RoleNames = {"editor"}
    Permissions = {"member:add"}
    NoRole = NoRole
    MaxRoles = 1
    MaxInvites = 2
    Requests = {q1, q2}
    Idle = Idle
    MaxThings = 4
SPECIFICATION Spec
CONSTRAINT Explored
SYMMETRY Interchangeable
INVARIANTS RolesKept
PROPERTIES JoinsTakeUpAnOffer
CHECK_DEADLOCK FALSE
