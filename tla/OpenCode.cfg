CONSTANTS
    p1 = p1
    p2 = p2
    s1 = s1
    s2 = s2
    s3 = s3
    s4 = s4
    Key = {s1, s2, s3, s4}
    MaxEntries = 2
    Ttl = 2
    MaxNow = 3
    MaxOrder = 5
    Followed = s1
    Plugin = {p1, p2}
    First <- SecondComesLater
    MaxStep = 2
    Taken <- OneTokenEach
    MaxCount = 8
    Baselines <- SeededOrNot
    MaxSeen = 1
    MaxRestart = 1
SYMMETRY Symmetry
SPECIFICATION MCSpec
INVARIANTS TypeOK MarksAreQueued CountedOnce TotalsFollowSteps
PROPERTIES UsageBeforeEnd MarksGoForCause
CHECK_DEADLOCK FALSE
