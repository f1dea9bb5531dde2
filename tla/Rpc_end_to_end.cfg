\* Client and server, connect() and disconnect() not called in mid-attempt.
CONSTANTS
    c1 = c1
    c2 = c2
    None = None
    Conn = {c1, c2}
    Socket = {1, 2}
    Req <- TwoCalls
    MaxCalls = 2
    MaxEvents = 0
    ReconnectAnswers <- Yes
    RetryAnswers <- Yes
    Overlap = FALSE
    ListenerCalls = FALSE
SPECIFICATION RpcFairSpec
INVARIANTS AnswersAreGenuine ExecutedAtMostOnce
PROPERTIES CallSettles
