SPECIFICATION LiveSpec
CONSTANTS
    Task = {1}
    NoTask = NoTask
    Capacity = 1
    OneOff = TRUE
    Stoppable = {}
    MayLose = FALSE
    MaxExecs = 1
PROPERTIES
    OneOffExits
CHECK_DEADLOCK FALSE
