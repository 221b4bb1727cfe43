\* An automatic slot is empty when its step is entered.
CONSTANTS
    Module = {m1}
    User = {u1, u2}
    Role = {r1}
    Content = {c1, c2}
    Handler = {h1}
    MaxDocument = 3
    Null = Null
    Version <- OneVersion
    Step <- Steps
    Slot <- Slots
    Start <- OneStart
    SlotVersion <- SlotsOfOne
    Link <- Links
    Grant <- Grants
    Autofill = {"reviewer"}
SPECIFICATION Spec
PROPERTY AutofillOnEntry
