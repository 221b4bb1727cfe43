\* Two requests to advance one draft overlap.
CONSTANTS
    Module = {m1}
    User = {u1, u2}
    Role = {}
    Content = {c1, c2}
    Handler = {h1, h2}
    MaxDocument = 3
    Null = Null
    Version <- OneVersion
    Step <- Steps
    Slot <- Slots
    Start <- OneStart
    SlotVersion <- SlotsOfOne
    Link <- ForkLinks
    Grant <- ForkGrants
    Autofill = {}
SPECIFICATION Spec
PROPERTY AdvanceFollowsLink
