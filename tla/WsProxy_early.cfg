\* The client may end its side while processConnection is pending.
CONSTANTS
    MaxFrames = 1
    EarlyEnd = TRUE
SPECIFICATION WsSpec
INVARIANTS OutboundFollowsClient
CHECK_DEADLOCK FALSE
