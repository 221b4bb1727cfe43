\* One handler at a time on one module, a role, two versions of the process.
CONSTANTS
    Module = {m1}
    User = {u1, u2}
    Role = {r1}
    Content = {c1, c2}
    Handler = {h1}
    MaxDocument = 3
    Null = Null
    Version <- TwoVersions
    Step <- StepsOfTwo
    Slot <- SlotNamesOfTwo
    Start <- TwoStarts
    SlotVersion <- SlotsOfTwo
    Link <- LinksOfTwo
    Grant <- GrantsOfTwo
    Autofill = {"reviewer"}
SPECIFICATION Spec
INVARIANTS NoOrphanDocuments
PROPERTIES AdvanceFollowsLink DraftKeepsBase DisplacedIsTold
