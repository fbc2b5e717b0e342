CONSTANTS
    a = a
    b = b
    buf = buf
    q1 = q1
    defer = defer
    force = force
    direct = direct
    Callers = {a, b}
    PoolSize = 5
    MaxQueued = 2
    MaxSend = 6
    Few = 3
    Many = 6
    Requests = {buf, q1, defer, force, direct}
    ReqId <- MCReqId
    NoCfm = {direct}
    WithBuf = {buf}
    AlwaysDeferred = {defer}
    ForceDefer = {force}
    Killable = {a, b}
SPECIFICATION MCSpec
INVARIANTS CommandsSound   PoolSuffices
SYMMETRY CallerSymmetry
CHECK_DEADLOCK FALSE
