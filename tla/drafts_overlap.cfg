\* Two handlers at once on two modules.
CONSTANTS
    Module = {m1, m2}
    User = {u1}
    Role = {}
    Content = {c1, c2}
    Handler = {h1, h2}
    MaxDocument = 4
    Null = Null
    Version <- OneVersion
    Step <- SoloSteps
    Slot <- SoloSlots
    Start <- OneStart
    SlotVersion <- SlotsOfSolo
    Link <- SoloLinks
    Grant <- SoloGrants
    Autofill = {}
SPECIFICATION Spec
SYMMETRY ModuleAndHandlerSymmetry
INVARIANTS DocumentsUnshared HistorySound NeverAtFinalStep DraftsInvariant
PROPERTIES PublishedSettles ImplementsLifecycle
