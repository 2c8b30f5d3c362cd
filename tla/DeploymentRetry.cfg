CONSTANTS
 s1 = s1
 n1 = n1
 Instances <- Faulty
 HistoryLimit = 1
 Nothing = none
SPECIFICATION FairSpec
PROPERTY RetryRepairs
CHECK_DEADLOCK FALSE
