\* One cluster, one chute in two versions, any two failures.
CONSTANTS
    Cluster = {c1}
    Chute = {h1}
    MaxVersion = 2
    MaxQueue = 2
    MaxChanges = 3
    MaxFaults = 2
SPECIFICATION FairSpec
INVARIANT TypeOK
 
CHECK_DEADLOCK FALSE
