CONSTANTS
    s1 = s1
    s2 = s2
    s3 = s3
    p1 = p1
    p2 = p2
    p3 = p3
    t1 = t1
    t2 = t2
    None = None
    MaxLine = 3
    MaxTruncation = 1
    Caller = {t1, t2}
    MaxTitle = 3
    Session = {s1, s2, s3}
    Path = {p1, p2, p3}
    OwnerOf <- Names
    SpawnedBy <- Chain
    Task = {t1, t2}
    CacheMax = 1
    Request <- Requests
    FreeText <- Words
    Reviewer = "auto"
SPECIFICATION Spec
INVARIANTS TypeOK EachLineIsApplied RolloutWasThere LineageIsTrue GrantIsAsDescribed
PROPERTIES TitleCatchesUp
CHECK_DEADLOCK FALSE
