SPECIFICATION FairSpec
CONSTANTS
    Task = {1}
    NoTask = NoTask
    Capacity = 1
    OneOff = FALSE
    Stoppable = {1}
    MayLose = TRUE
    MaxExecs = 2
INVARIANTS
    TypeOK
    SuccessIsReal
    KillOnlyOnStop
    EndedForReason
PROPERTIES
    StopKills
