\* Three addresses for two entries, in either cache; the cursors, the counters
\* and the ticks wrap.
CONSTANTS
    m1 = m1
    m2 = m2
    m3 = m3
    noMac = noMac
    s1 = s1
    s2 = s2
    s3 = s3
    n1 = n1
    n2 = n2
    Mac <- MCMac
    NoMac = noMac
    Ssid = {"net"}
    Channel = {1}
    Sec = {"open", "rsn"}
    CACHE_SIZE = 2
    Source <- MCSource
    NoSource = "unused"
    ProbedSsid <- MCProbedSsid
    PROBE_CACHE_SIZE = 2
    CursorMod = 4
    CounterMod = 4
    INTERVAL = 2
    TickMod = 3
SYMMETRY MCSymmetry
CONSTRAINT OneCacheInUse
SPECIFICATION Spec
INVARIANTS
    CacheAccounted
    OldestGoesFirst
PROPERTIES
    KnowledgeKept
    LinesSpaced
