SPECIFICATION Spec
CONSTANTS
    Users = {u1}
    Threads = {t1, t2}
    Pods = {p1, p2}
    ExtPods = {x1}
    Pvcs = {v1, v2}
    Gpus = {g1}
    WholeGpus = {}
    Faults <- GpuLoss
    MaxEnvEvents = 2
    ReqName = ReqName
    NoRow = NoRow
    NoPod = NoPod
    NoPvc = NoPvc
    NoUser = NoUser
SYMMETRY Symm
INVARIANT TypeOK
INVARIANT PodHasRow
