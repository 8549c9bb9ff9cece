SPECIFICATION FairSpec
CONSTANTS
    Names = {n1, n2}
    Patterns = {p1}
    MaxIds = 3
    MaxEmits = 3
    MaxDepth = 2
INVARIANTS TypeOK EmitsInOrder ServerKnowsSubscriptions ListsMatchCallbacks NotifiesInOrder
CHECK_DEADLOCK FALSE
PROPERTIES ImplementsOutbox EmitsReachServer
