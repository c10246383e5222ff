SPECIFICATION Spec
CONSTANTS
    Buffers = {s1, d1}
    Shm = {s1}
    NoBuffer = none
    Heights = {1}
    Default = 5
    Strip = 2
INVARIANT Decorated
CHECK_DEADLOCK FALSE
