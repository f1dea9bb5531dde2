\* One use of each kind.  Relays: three attempts per CONNECT and two servers,
\* two chunks after an upgrade.  HTTP server: any use, stop() may be called
\* while another stop() runs.  Ensemble: an app with ports between two without,
\* signals of one kind.
CONSTANTS
    Retries = 2
    MaxStarts = 2
    Restarts = FALSE
    MaxFrames = 2
    EarlyEnd = FALSE
    s1 = s1
    s2 = s2
    k1 = k1
    k2 = k2
    Sock = {s1, s2}
    StopId = {k1, k2}
    MaxGen = 2
    MaxPending = 2
    Null = Null
    Tls = FALSE
    N = 3
    WithPorts = {2}
    Signal = {"SIGTERM"}
SPECIFICATION LifecyclesSpec
INVARIANTS OthersDestroyed WinnerUntouched RejectedAfterAll RepliedOnce RunningServerKnown HonestResponse StreamIntact CountsPending IdleSocketsEnded LiveServerKnown ReadyBeforeNext ReverseOrder WhoIsTold
PROPERTIES TunnelIsRelay ForwardReleased WsIsRelay ShutdownConfined StopSettles BothEnd
CHECK_DEADLOCK FALSE
