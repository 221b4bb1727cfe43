\* Three members, two connections.
CONSTANTS
    c1 = c1
    c2 = c2
    Member <- Members
    Client <- Clients
    User <- Users
    Past <- SaidBefore
    MaxMessages = 3
    MaxRequests = 2
    After = {1}
    Wide = 4
    Limit = 2
    Null = Null
SPECIFICATION Spec
INVARIANTS NothingMissed OpenIsListening ResponsesInOrder HistoryMeetsLive
PROPERTIES AbsentAreNotified RequestsAnswered
CHECK_DEADLOCK FALSE
