SPECIFICATION FairSpec
CONSTANTS
    Replies = {"CA"}
    Verdicts = {"AA"}
    MaxInFlight = 2
    Callbacks = {"fn"}
    Throwing = {"event_cb"}
    Secure = FALSE
PROPERTIES LoginSucceeds CallsReturn
