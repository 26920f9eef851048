SPECIFICATION Spec
CONSTANTS
    Obj = {"k1", "k2", "k3", "r1", "r2", "i1", "e1", "t1", "t2", "s1", "s2", "v1", "x1"}
    KindOf <- MCKindOf
    NoObj = "none"
    InitRow <- MCInitRow
    Value = {0}
    Req = {"a", "b"}
    NoReq = "nobody"
    MaxReq = 3
    MaxRefs = 1
INVARIANTS
    TypeOK
    ProtectedRefs
PROPERTIES
    NoResurrection
    CascadeComplete
CHECK_DEADLOCK FALSE
