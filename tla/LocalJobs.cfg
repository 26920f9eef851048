SPECIFICATION Spec
CONSTANTS
    Job = {j1, j2}
    Update = {r1, r2}
    Url = {u1, u2}
    Commit = {1, 2}
    Kind = {"collections", "roles"}
    Version = {"v1", "v2"}
    None = None
    MaxPushes = 1
    MaxInstalls = 1
    Foreign = {"v1"}
    FirstCommit = 2
    Ancestor <- MCAncestor
    Requires <- MCRequires
    KeyTypes <- MCKeyTypes
SYMMETRY MCSymmetry
INVARIANTS
    TypeOK
    KeysInOrder
    OldCopies

    
    
CHECK_DEADLOCK FALSE
