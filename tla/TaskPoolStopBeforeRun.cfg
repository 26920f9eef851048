SPECIFICATION Spec
CONSTANTS
    Task = {1, 2, 3}
    NoTask = NoTask
    Template = {"A", "B"}
    Project = {"p"}
    TemplateOf <- MCTemplateOf
    ProjectOf <- MCProjectOf
    AutorunOf <- MCAutorunOf
    MaxParallelTasks = 1
    ProjectLimits = {0}
    StoreErr = {FALSE}
    StrictUpdate = TRUE
    Addable = {1, 2}
    Stopper = {s}
    Stoppable = {1}
    Removable = {}
    MayCrash = FALSE
PROPERTIES
    StoppedBeforeRun
