SPECIFICATION Spec
CONSTANTS
    Task = {1, 3}
    NoTask = NoTask
    Template = {"A", "B"}
    Project = {"p"}
    TemplateOf <- MCTemplateOf
    ProjectOf <- MCProjectOf
    AutorunOf <- MCAutorunOf
    MaxParallelTasks = 1
    ProjectLimits = {0, 1}
    StoreErr = {TRUE, FALSE}
    StrictUpdate = TRUE
    Addable = {1, 3}
    Stopper = {s}
    Stoppable = {1, 3}
    Removable = {1, 3}
    MayCrash = TRUE
INVARIANTS
    TypeOK
    WithinLimit
    HeldWhileRunning
    NoOrphanLock
    RowFollowsRunner
    EndedStatus
PROPERTIES
    StartedOnce
    RemovedStaysRemoved
