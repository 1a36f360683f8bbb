CONSTANTS
    h1 = h1
    h2 = h2
    h3 = h3
    h4 = h4
    s1 = s1
    s2 = s2
    t1 = t1
    t2 = t2
    r1 = r1
    Hook = {h1, h2, h3, h4}
    Session = {s1, s2}
    Tool = {t1, t2}
    NoTool = NoTool
    Reason = {r1}
    NoReason = NoReason
    Answer = {yes}
    NoAnswer = NoAnswer
    MaxPending = 2
    MaxObject = 4
    Traffic <- RaceTraffic
SPECIFICATION Spec
INVARIANTS TypeOK BlockedHookIsListed ListedRequestIsLive NoResidue QueueBounded AnswerReachesItsHook AttentionIsWarranted
PROPERTIES CancelHasCause KeepsPromise
CHECK_DEADLOCK FALSE
