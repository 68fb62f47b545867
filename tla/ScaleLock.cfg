\* Scaling and rolling updates without jobs.
CONSTANTS
    d1 = d1
    s1 = s1
    c1 = c1
    c2 = c2
    NoJob = NoJob
    NoTask = NoTask
    Dep = {d1, d2}
    Chute = {c1, c2}
    Server = {s1}
    Job = {}
    JobChute <- JobsOfSecond
    Task = {t1, t2}
    Initial <- NoneRunning
    Home <- NoHome
    Size <- OneAndTwo
    Gpus <- TwoGpus
    Runs <- Everywhere
    Worth <- SecondIsBetter
    Elsewhere <- OneOther
    Private = {}
    MaxFaults = 1
SPECIFICATION FairSpec
PROPERTIES LockReleased
CHECK_DEADLOCK FALSE
