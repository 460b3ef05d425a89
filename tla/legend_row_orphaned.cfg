SPECIFICATION Spec
CONSTANTS
    Users = {u1}
    Threads = {t1}
    Pods = {p1}
    ExtPods = {}
    Pvcs = {v1}
    Gpus = {g1}
    WholeGpus = {}
    Faults <- NoFaults
    MaxEnvEvents = 0
    ReqName = ReqName
    NoRow = NoRow
    NoPod = NoPod
    NoPvc = NoPvc
    NoUser = NoUser
INVARIANT LegendRowHasPod
