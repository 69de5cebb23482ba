\* Every frame of up to three of eleven elements, cut at every byte, and one
\* frame header after the other from every kind of traffic.
CONSTANTS
    Element <- MCElement
    MAX_ELEMENTS = 3
    SSID_MAX = 2
    HW_MAX = 14
    c1 = c1
    p1 = p1
    p2 = p2
    bc = bc
    Client <- MCClient
    Ap <- MCAp
    Group <- MCGroup
    Lens <- MCLens
    MAX_COUNT = 1
SPECIFICATION HalvesSpec
CHECK_DEADLOCK FALSE
INVARIANTS
    CutLearnsLess
    CompleteMeansWellFormed
    RolesKept
    CutOnlyLoses
PROPERTY
    PlainFramesTeach
