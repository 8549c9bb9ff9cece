SPECIFICATION FairSpec
CONSTANTS
    MaxIds = 3
    MaxQueries = 3
INVARIANTS ListMatchesCallbacks AnsweredOnce NoOrphanSubscription
PROPERTY QueriesEnd
CHECK_DEADLOCK FALSE
