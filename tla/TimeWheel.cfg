\* A wheel of three slots; the clock runs over several turns and goes back once.
\* A collection more than IntMod - 1 after the last one is excluded.
CONSTANTS
    i1 = i1
    i2 = i2
    Item = {i1, i2}
    DefaultSize = 3
    IntMod = 6
    MaxClock = 7
    MaxBack = 1
    Timeouts <- MCTimeouts
SPECIFICATION TimelySpec
INVARIANTS
    TypeOK
    SlotSound
PROPERTY ImplementsTimers
SYMMETRY Symmetry
