SPECIFICATION FairSpec
CONSTANTS
    Caller = Caller
    Home = Home
    Programs <- WithFallback
    MaxSessions = 3
INVARIANTS
    TransportInv
    FailureIsClean
PROPERTIES
    ImplementsRemoteCall
    HomeListensAgain
CHECK_DEADLOCK FALSE
