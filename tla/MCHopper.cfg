\* Three channels, failure counts that wrap past the threshold.
CONSTANTS
    none = none
    HW_MAX = 3
    FALLBACK_LAST = 2
    Country <- MCCountry
    NoCountry = none
    Regulatory <- MCRegulatory
    THRESHOLD = 2
    ByteMod = 4
    CounterMod = 2
SPECIFICATION Spec
INVARIANTS
    LegalChannelsKept
PROPERTIES
    PassIsComplete
    EveryChannelTried
    StopEnds
