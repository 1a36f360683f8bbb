SPECIFICATION Spec
CONSTANTS
    h1 = h1
    h2 = h2
    h3 = h3
    Watcher = Watcher
    NoTask = NoTask
    Hook <- MCHook
    Counter <- MCCounter
    Mandatory <- MCMandatory
    Script <- MCScript
    Work <- MCWork
    MaxLine = 3
    MaxRewrite = 1
    Unnoticed = TRUE
INVARIANT
    EpochKeepsToFile
CHECK_DEADLOCK FALSE
