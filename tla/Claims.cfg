\* Two launches race for the two GPUs of one server while gepetto and the API process
\* undeploy rows, chutes, GPUs and the server go, and the API process dies.
CONSTANTS
    s1 = s1
    c1 = c1
    c2 = c2
    NoDep = NoDep
    NoSpec = NoSpec
    Dep = {d1, d2}
    Gpu = {g1, g2}
    Server = {s1}
    Chute = {c1}
    ServerOf <- OneServer
    GpuCount <- AllTwo
    JobChutes = {}
    Task = {t1, t2, a1}
    ApiTask = {a1}
    Stimuli = {"undeploy", "chute", "gpu", "server"}
    MaxFaults = 0
SPECIFICATION Spec
SYMMETRY Symmetry
INVARIANT ClaimsExact
PROPERTY GpusHandedOutWhole
CHECK_DEADLOCK FALSE
