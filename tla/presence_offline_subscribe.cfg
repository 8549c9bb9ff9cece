SPECIFICATION Spec
CONSTANTS
    MaxIds = 3
    MaxQueries = 3
INVARIANT ServerKnowsSubscriber
CHECK_DEADLOCK FALSE
