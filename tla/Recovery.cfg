\* One deployment, everything that can go wrong around it, one fault.
CONSTANTS
    s1 = s1
    c1 = c1
    c2 = c2
    NoDep = NoDep
    NoSpec = NoSpec
    Dep = {d1}
    Gpu = {g1}
    Server = {s1}
    Chute = {c1}
    ServerOf <- OneServer
    GpuCount <- AllOne
    JobChutes = {}
    Task = {t1}
    ApiTask = {}
    Stimuli = {"instance", "ends", "reconcile"}
    MaxFaults = 1
SPECIFICATION FairSpec
PROPERTIES DeadRowFreed OrphanJobRemoved OrphanInstancePurged StuckLaunchFreed
CHECK_DEADLOCK FALSE
