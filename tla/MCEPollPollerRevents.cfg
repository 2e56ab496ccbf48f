CONSTANTS
    Channels = {c1, c2}
    Fds = {f1, f2}
    kInitEventListSize = 1
SPECIFICATION Spec
INVARIANT
    ReventsAreReported
