CONSTANTS
    FirstAsked <- First
    LaterAsked <- Later
    MaxVersions = 2
    Roles = {"author", "editor"}
    RoleLists = {{"editor"}, {"gone"}}
    NewNames = {"", "End"}
    MaxLoaded = 1
SPECIFICATION Spec
CONSTRAINT Explored
INVARIANTS ValidationSound NoInconsistency ReadsBack
PROPERTIES NewVersionNamesProcess
CHECK_DEADLOCK FALSE
