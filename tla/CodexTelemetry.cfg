SPECIFICATION FairSpec
CONSTANTS
    h1 = h1
    h2 = h2
    h3 = h3
    Watcher = Watcher
    NoTask = NoTask
    Hook <- MCHook
    Counter <- MCCounter
    Mandatory <- MCMandatory
    Script <- MCScript
    Work <- MCWork
    MaxLine = 3
    MaxRewrite = 1
    Unnoticed = FALSE
INVARIANTS
    TypeOK
    ShownIsParsed
    NothingReplayed
    DeltasAddUp
    ReportsInOrder
    EpochKeepsToFile
PROPERTY
    CatchesUp
CHECK_DEADLOCK FALSE
