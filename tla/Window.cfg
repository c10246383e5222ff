SPECIFICATION FairSpec
CONSTANTS
    Buffers = {s1, d1}
    Shm = {s1}
    NoBuffer = none
    Heights = {1}
    Default = 5
    Strip = 2
INVARIANTS NoFault PageFits RedrawNotLost
PROPERTIES StripCatchesUp PageDrawsAgain BuffersComeBack
CHECK_DEADLOCK FALSE
