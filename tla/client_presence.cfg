SPECIFICATION Spec
CONSTANTS
    Names = {n1}
    Patterns = {}
    MaxIds = 2
    MaxEmits = 0
    MaxDepth = 1
    MaxQueries = 1
    Replies = {"CA"}
    Verdicts = {"AA"}
    MaxInFlight = 3
    Callbacks = {"fn"}
    Throwing = {"event_cb", "login_cb"}
    Secure = FALSE
    MaxUnasked = 1
INVARIANTS TypeOK IdsAreUnique
PROPERTIES ImplementsPresence
CHECK_DEADLOCK FALSE
