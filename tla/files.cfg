CONSTANTS
    Contents = {"a", "b"}
    Templates = {"a"}
    Names = {"pic"}
    Archives <- MCArchives
    Collections <- MCCollections
    Empty = Empty
    ResourceNames = {"x", "y"}
    Root = Root
    AnyTag = AnyTag
    NoFile = NoFile
    Requests = {r1, r2}
    MaxDocuments = 2
    MaxResources = 3
    MaxThings = 4
SPECIFICATION Spec
CONSTRAINT Explored
SYMMETRY Symmetric
INVARIANTS FilesReadable ResourceTreeSound
PROPERTIES LostOnlyByOverlap ImportKeepsArchive
CHECK_DEADLOCK FALSE
