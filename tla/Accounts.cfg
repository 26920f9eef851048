SPECIFICATION Spec
CONSTANTS
    User = {1, 2, 3}
    Name = {"n1", "n2", "n3"}
    Password = {"x"}
    Project = {"p1", "p2"}
    Token = {"t1"}
    Session = {1, 2, 3}
    Req = {r1, r2, r3}
    NoRow = NoRow
    NonAdminCanCreateProject = TRUE
    LdapEnable = TRUE
    Seed <- MCSeed
SYMMETRY MCSymmetry
INVARIANTS
    TypeOK
    TokenIndexed
    MembersGone
PROPERTIES
    AdminGranted
CHECK_DEADLOCK FALSE
