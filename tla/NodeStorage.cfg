\* Two chutes on one node that has room for the disk of either, but not of both.
CONSTANTS
    d1 = d1
    d2 = d2
    c1 = c1
    c2 = c2
    r1 = r1
    r2 = r2
    Dep = {d1, d2}
    Chute = {c1, c2}
    Repo = {r1, r2}
    ChuteOf <- OneOfEach
    Need <- TwoEach
    Capacity = 4
    Reserved = 1
    Mentions <- Unrelated
    Limit = 1
    MaxDownloads = 3
    MaxFaults = 1
SPECIFICATION FairSpec
INVARIANTS TypeOK 
PROPERTIES  CacheShrinks
