\* Three coroutines on one or two shared stacks or on stacks of their own.
CONSTANTS
    c1 = c1
    c2 = c2
    c3 = c3
    Co = {c1, c2, c3}
    Main = Main
    NoCo = NoCo
    a = a
    e = e
    Word = {e, a}
    Entry = e
    Count = 1
    AllocMod = 2
    StackSize = 2
SPECIFICATION Spec
INVARIANTS
    TypeOK
    CallStackSound
    OccupantSound
    SavedCopySound
PROPERTY ImplementsPrivateStacks
SYMMETRY Symmetry
