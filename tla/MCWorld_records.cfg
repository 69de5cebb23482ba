\* One AP described by every kind of frame the parser delivers; the
\* statistics of the AP table, which wrap.
CONSTANTS
    m1 = m1
    m2 = m2
    m3 = m3
    Mac <- MCMac2
    NonUnicast = nonUnicast
    nonUnicast = nonUnicast
    AP_MAX = 1
    STA_MAX = 1
    AP_TTL = 0
    STA_TTL = 0
    REL_TTL = 0
    Ssid = {"net"}
    Suite = {"psk"}
    Channel = {}
    Obs <- AllObs
    Tracked = {"ap_created", "ap_expired", "ap_evicted"}
    CounterMod = 2
    SatMax = 1
    MaxTime = 1
    ClockMayRegress = FALSE
SYMMETRY MacSymmetry2
SPECIFICATION Spec
INVARIANTS
    SecurityAgrees
    ProvisionalMeansUnheard
    CutFramesOnlyAdd
    CreationsAccounted
