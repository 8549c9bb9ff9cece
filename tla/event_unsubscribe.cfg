SPECIFICATION Spec
CONSTANTS
    Names = {n1, n2}
    Patterns = {p1}
    MaxIds = 3
    MaxEmits = 2
    MaxDepth = 2
INVARIANT ServerForgetsUnsubscribed
CHECK_DEADLOCK FALSE
