SPECIFICATION Spec
CONSTANTS
    a1 = a1
    Staff = Staff
    Admins = Admins
    User = {u1, u2}
    Group = {Admins, Staff}
    Application = {a1}
    Proc = {p1, p2}
    SeedAdmin = u1
    GroupOf <- SeedGroups
    MaxUris = 2
    MaxRaced = 1
    None = None
SYMMETRY Symmetry
CHECK_DEADLOCK FALSE
INVARIANTS TypeOK AnAdministratorRemains AccessNeedsAPath 
