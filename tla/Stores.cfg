SPECIFICATION PartsSpec
CONSTANTS
    l1 = l1
    o1 = o1
    o2 = o2
    t1 = t1
    g1 = g1
    g2 = g2
    c1 = c1
    e1 = e1
    e2 = e2
    d1 = d1
    d2 = d2
    m1 = m1
    m2 = m2
    none = none
    Names <- NamesMC
    Owners <- OwnersMC
    Lease <- LeaseMC
    Overlap = FALSE
    MaxTime = 4
    MaxToken = 3
    MaxInFlight = 2
INVARIANTS MutualExclusion StaleHolderIsFenced NoTraffic SeriesTrue ContentsKept RecoveryFits
PROPERTIES TokensIncrease TreeKept
CHECK_DEADLOCK FALSE
