\* connect() and disconnect() are not called in the middle of an attempt,
\* retries never give up (the default of shouldRetry), and `connected`
\* listeners make no calls.
CONSTANTS
    c1 = c1
    c2 = c2
    None = None
    Conn = {c1, c2}
    MaxCalls = 3
    ReconnectAnswers <- Both
    RetryAnswers <- Yes
    Overlap = FALSE
    ListenerCalls = FALSE
SPECIFICATION FairSpec
INVARIANTS SentInCallOrder NoCallStranded
PROPERTIES QueuedLeaves LossHandled
