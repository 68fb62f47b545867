\* Two /start requests, /stop, recovery, pod restarts; with and without failing
\* heartbeats and watches.
CONSTANTS
    Slot = {w1, w2, w3, w4, w5, w6, w7, w8}
    NoSlot = NoSlot
    Starters = {r1, r2}
    MaxAttempts = 2
    MaxFaults = 3
SPECIFICATION FairSpec
INVARIANTS TypeOK OneTaskSetWhileCalm StopIsFinal RunningIsAlive
PROPERTIES SelfHeals
