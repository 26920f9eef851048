SPECIFICATION Spec
CONSTANTS
    Schedule = {"s1", "s2"}
    WithRepo = {"s1"}
    Cron = {"c1"}
    Hash = {h1, h2}
    NoHash = NoHash
    NoRow = NoRow
    Req = {r1, r2}
    Firing = {f1, f2}
    Permanent = {TRUE, FALSE}
    StoreErr = {TRUE, FALSE}
SYMMETRY MCSymmetry
INVARIANTS
    TypeOK
    SessionsOpen
    OneList
    CommitsBuilt
CHECK_DEADLOCK FALSE
