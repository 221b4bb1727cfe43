\* Two streams of one user; events for that user alone or for both.
CONSTANTS
    l1 = l1
    l2 = l2
    User <- Users
    Listener <- Listeners
    Owner <- Owners
    Targets <- BothOrFirst
    Capacity = 2
    MaxEvents = 2
    MaxFailures = 1
    MaxRestarts = 1
    Null = Null
SPECIFICATION Spec
INVARIANTS StreamHasNoGaps MailedAgainOnlyAfterFailure
PROPERTIES UnreadIsMailed
