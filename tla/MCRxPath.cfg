\* Three slots, a consumer queue of two, four frames; queue_current wraps.
CONSTANTS
    s1 = s1
    s2 = s2
    s3 = s3
    null = null
    Slot <- MCSlot
    NoSlot = null
    QUEUE_SIZE = 2
    MAX_LEN = 6
    Frame <- MCFrame
    CounterMod = 5
    MaxFrames = 4
SPECIFICATION Spec
INVARIANTS
    SlotsConserved
    OccupancyExact
    FramesAccounted
PROPERTIES
    SlotsReturn
