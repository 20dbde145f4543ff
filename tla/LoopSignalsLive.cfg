\* Three coroutines that only wait on a condition variable and signal it.
CONSTANTS
    c1 = c1
    c2 = c2
    c3 = c3
    f = f
    g = g
    b = b
    v = v
    Co = {c1, c2, c3}
    Main = Main
    NoItem = NoItem
    Fd = {f, g, b}
    BadFd = {b}
    Polls <- NoPolls
    PollTimeouts = {1, 2}
    Forever = 2
    ShortItemOptimization = 1
    CV = {v}
    CVTimeouts = {0, 1}
    DefaultSize = 2
    IntMod = 4
    MaxClock = 2
    MaxBack = 0
SPECIFICATION LiveSpec
INVARIANT WokenOnce
PROPERTY ActiveAreResumed
