\* Polls come back; no condition variables.
CONSTANTS
    c1 = c1
    c2 = c2
    f = f
    g = g
    b = b
    v = v
    Co = {c1, c2}
    Main = Main
    NoItem = NoItem
    Fd = {f, g, b}
    BadFd = {b}
    Polls <- TwoPolls
    PollTimeouts = {1}
    Forever = 2
    ShortItemOptimization = 1
    CV = {}
    CVTimeouts = {0, 1}
    DefaultSize = 2
    IntMod = 4
    MaxClock = 3
    MaxBack = 0
SPECIFICATION LiveSpec
PROPERTY PollsReturn
