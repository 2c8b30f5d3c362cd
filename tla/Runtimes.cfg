SPECIFICATION PartsFairSpec
CONSTANTS
    s1 = s1
    s2 = s2
    c1 = c1
    i1 = i1
    i2 = i2
    none = none
    Revisions <- RevisionsMC
    Ids <- IdsMC
    MaxFaults = 3
    Nobody = none
INVARIANTS RightContainer StateKept ImagesRight
PROPERTIES TrafficKept RuntimesSettle
CHECK_DEADLOCK FALSE
