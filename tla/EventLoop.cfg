\* Two coroutines that poll and wait on one condition variable.
CONSTANTS
    c1 = c1
    c2 = c2
    f = f
    g = g
    b = b
    v = v
    Co = {c1, c2}
    Main = Main
    NoItem = NoItem
    Fd = {f, g, b}
    BadFd = {b}
    Polls <- SomePolls
    PollTimeouts = {1, 2}
    Forever = 2
    ShortItemOptimization = 1
    CV = {v}
    CVTimeouts = {0, 1}
    DefaultSize = 2
    IntMod = 4
    MaxClock = 3
    MaxBack = 1
SPECIFICATION Spec
INVARIANTS
    TypeOK
    WokenOnce
    WaitersCanBeResumed
    RegistrationsSound
    TimeoutOrEvent
    RoundComplete
SYMMETRY Symmetry
