SPECIFICATION Spec
CONSTANTS
    Replies = {"CA"}
    Verdicts = {"AA"}
    MaxInFlight = 2
    Callbacks = {"fn"}
    Throwing = {}
    Secure = FALSE
INVARIANT SendIsLegal
