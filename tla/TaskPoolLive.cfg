SPECIFICATION FairSpec
CONSTANTS
    Task = {1, 2, 3}
    NoTask = NoTask
    Template = {"A", "B"}
    Project = {"p"}
    TemplateOf <- MCTemplateOf
    ProjectOf <- MCProjectOf
    AutorunOf <- MCAutorunOf
    MaxParallelTasks = 0
    ProjectLimits = {2}
    StoreErr = {FALSE}
    StrictUpdate = TRUE
    Addable = {1, 2, 3}
    Stopper = {}
    Stoppable = {}
    Removable = {}
    MayCrash = FALSE
INVARIANTS
    LockExclusion
    
PROPERTIES
    LocksRefined
    LocksReleased
    QueueDrains
