\* A caller that deletes an entity while it is the occupant of a shared stack.
CONSTANTS
    c1 = c1
    c2 = c2
    Co = {c1, c2}
    Main = Main
    NoCo = NoCo
    a = a
    e = e
    Word = {e, a}
    Entry = e
    Count = 1
    AllocMod = 2
    StackSize = 2
SPECIFICATION AnyFreeSpec
PROPERTY EvictsLiveEntity
