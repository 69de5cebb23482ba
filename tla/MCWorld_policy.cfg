\* Two AP slots, one station slot, three addresses, and a caller whose clock
\* may run backwards.
CONSTANTS
    m1 = m1
    m2 = m2
    m3 = m3
    Mac <- MCMac3
    NonUnicast = nonUnicast
    nonUnicast = nonUnicast
    AP_MAX = 2
    STA_MAX = 1
    AP_TTL = 1
    STA_TTL = 1
    REL_TTL = 0
    Ssid = {"net"}
    Suite = {"psk"}
    Channel = {}
    Obs <- PlainObs
    Tracked = {}
    CounterMod = 1
    SatMax = 0
    MaxTime = 2
    ClockMayRegress = TRUE
SYMMETRY MacSymmetry3
SPECIFICATION Spec
INVARIANTS
    WorldConsistent
    SignalOwnership
PROPERTIES
    LiveBindingNotStolen
    TimesNeverRegress
    ImplementsMap
