\* An application that reconnects while an attempt is under way.
CONSTANTS
    c1 = c1
    c2 = c2
    None = None
    Conn = {c1, c2}
    MaxCalls = 1
    ReconnectAnswers <- Yes
    RetryAnswers <- Yes
    Overlap = TRUE
    ListenerCalls = FALSE
SPECIFICATION Spec
INVARIANTS NoCallStranded
