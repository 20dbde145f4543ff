\* Three coroutines and one fd number, used again and again.
CONSTANTS
    Co = {c1, c2, c3}
    Fd = {f}
    RetransmissionTries = 2
    MaxSent = 3
SPECIFICATION Spec
INVARIANTS
    TypeOK
    NeverStuck
    NonBlockOnlyIfAsked
    SentIsReported
PROPERTY RefusalIsReported
SYMMETRY Symmetry
