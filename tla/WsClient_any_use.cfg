\* Any use of the client: overlapping attempts, both answers of every hook,
\* calls from `connected` listeners.
CONSTANTS
    c1 = c1
    c2 = c2
    None = None
    Conn = {c1, c2}
    MaxCalls = 3
    ReconnectAnswers <- Both
    RetryAnswers <- Both
    Overlap = TRUE
    ListenerCalls = TRUE
SPECIFICATION Spec
SYMMETRY Symmetry
INVARIANTS CallsAccountedFor
PROPERTIES QueuedSurvives CallsImplemented
