\* Two adds of one node one after the other, a deletion, and any one failure in between.
CONSTANTS
    Add = {r1, r2}
    Del = {w1}
    Rec = {w2}
    MaxTries = 2
    Overlap = FALSE
    MaxFaults = 1
SPECIFICATION FairSpec
INVARIANTS TypeOK VerifiedIsRegistered
PROPERTIES AddEnds UnreportedServerSettles
CHECK_DEADLOCK FALSE
