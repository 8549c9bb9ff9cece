SPECIFICATION Spec
CONSTANTS
    Replies = {"CA", "RED", "REJ"}
    Verdicts = {"AA", "TMAA", "IAD", "IAM"}
    MaxInFlight = 2
    Callbacks = {"fn", "empty"}
    Throwing = {"event_cb", "login_cb"}
    Secure = TRUE
INVARIANTS TypeOK Lockstep OpenMeansAuthenticated GivesUpOnlyAfterRetries StateMatchesSocket
PROPERTIES CloseIsFinal
