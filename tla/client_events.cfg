SPECIFICATION FairSpec
CONSTANTS
    Names = {n1}
    Patterns = {p1}
    MaxIds = 1
    MaxEmits = 2
    MaxDepth = 1
    MaxQueries = 0
    Replies = {"CA"}
    Verdicts = {"AA"}
    MaxInFlight = 3
    Callbacks = {"fn"}
    Throwing = {"event_cb"}
    Secure = FALSE
    MaxUnasked = 1
INVARIANTS ReceivedInOrder ServerWillKnow
PROPERTIES ServerCatchesUp ImplementsConnection ImplementsEvent
CHECK_DEADLOCK FALSE
