\* What the header says of repeated elements does not hold of probe requests.
CONSTANTS
    Element <- MCElement
    MAX_ELEMENTS = 3
    SSID_MAX = 2
    HW_MAX = 14
    c1 = c1
    p1 = p1
    p2 = p2
    bc = bc
    Client <- MCClient
    Ap <- MCAp
    Group <- MCGroup
    Lens <- MCLens
    MAX_COUNT = 1
SPECIFICATION HalvesSpec
CHECK_DEADLOCK FALSE
INVARIANT
    RepeatedIsNotComplete
