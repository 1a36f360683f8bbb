CONSTANTS
    h1 = h1
    h2 = h2
    h3 = h3
    win = win
    name = name
    lead = lead
    facts = facts
    spent = spent
    tool = tool
    Nil = Nil
    Hook = {h1, h2, h3}
    Traffic <- OneOfEach
    MaxPending = 2
    MaxObject = 2
SPECIFICATION FairSpec
INVARIANTS TypeOK ViewIsCurrentOrDue
PROPERTIES AnnouncedIsListed ClientCatchesUp
CHECK_DEADLOCK FALSE
