\* One deployment, of a chute or of a job, judged by reconcile while it is launched,
\* activated, purged by the API process, and while one thing fails.
CONSTANTS
    s1 = s1
    c1 = c1
    c2 = c2
    NoDep = NoDep
    NoSpec = NoSpec
    Dep = {d1}
    Gpu = {g1}
    Server = {s1}
    Chute = {c1, c2}
    ServerOf <- OneServer
    GpuCount <- AllOne
    JobChutes = {c2}
    Task = {t1, a1}
    ApiTask = {a1}
    Stimuli = {"undeploy", "instance", "reconcile"}
    MaxFaults = 1
SPECIFICATION HistorySpec
INVARIANTS TypeOK 
CHECK_DEADLOCK FALSE
