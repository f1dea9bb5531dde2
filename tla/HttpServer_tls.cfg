\* With TLS.
CONSTANTS
    s1 = s1
    s2 = s2
    k1 = k1
    k2 = k2
    Sock = {s1, s2}
    StopId = {k1, k2}
    MaxGen = 2
    MaxPending = 1
    Null = Null
    Tls = TRUE
SPECIFICATION HttpServerSpec
PROPERTIES ServedBeforeEnded
CHECK_DEADLOCK FALSE
