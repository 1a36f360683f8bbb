CONSTANTS
    h1 = h1
    h2 = h2
    h3 = h3
    s1 = s1
    w1 = w1
    p1 = p1
    p2 = p2
    Hook = {h1, h2, h3}
    Watcher = Watcher
    Session = {s1}
    Window = {w1}
    NoWindow = NoWindow
    Pid = {p1, p2}
    NoPid = NoPid
    NoSession = NoSession
    MaxObject = 4
    Traffic <- PhantomTraffic
SPECIFICATION Spec
INVARIANT RemovalIsFinal
CHECK_DEADLOCK FALSE
