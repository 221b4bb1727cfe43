CONSTANTS
    Texts <- MCTexts
    Uploads <- MCUploads
    Broken = Broken
    None = None
    ProcessStale = ProcessStale
    Tasks = {q1, q2}
    Capacity = 1
    MaxErrors = 1
    MaxDocuments = 3
    MaxThings = 6
SPECIFICATION XrefsSpec
CONSTRAINT Explored
INVARIANTS TargetsFollowIndex DraftsUnprocessed
PROPERTIES StaleAreProcessed SentAreProcessed
CHECK_DEADLOCK FALSE
