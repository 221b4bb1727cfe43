\* Two groups and two modules, two handlers moving parts.
CONSTANTS
    Node = {p0, p1, p2, p3}
    Root = p0
    ModulePart = {p2, p3}
    Handler = {h1, h2}
    MaxIndex = 2
    MaxNew = 2
    Null = Null
SPECIFICATION Spec
SYMMETRY Symmetry
INVARIANTS PartsSound MovesWhereAsked
PROPERTIES OnlyMovingBelowItselfCutsOff ImplementsOutline
