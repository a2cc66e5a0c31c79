SPECIFICATION FairSpec
CONSTANTS
    t1 = t1
    t2 = t2
    sendQueue = sendQueue
    receiveQueue = receiveQueue
    Thread = {t1, t2}
    Queue = {sendQueue, receiveQueue}
    Size = 2
    Arrivals = 4
INVARIANTS
    EventsRemembered
    OneEventPerQueue
    NothingUnannounced
PROPERTIES
    DestructorReturns
    EveryCompletionIsPolled
CHECK_DEADLOCK FALSE
