\* One object in two versions; the agent crashes, calls fail, heartbeats are late, the
\* miner marks the cluster, and the server is removed.
CONSTANTS
    Res = {j1}
    MaxVersion = 2
    Marks = TRUE
    Removable = TRUE
    MaxFaults = 3
SPECIFICATION FairSpec
INVARIANT TypeOK
PROPERTIES  DeadAgentNoticed ClusterRestored 
CHECK_DEADLOCK FALSE
