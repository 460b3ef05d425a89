SPECIFICATION Spec
CONSTANTS
    Users = {u1}
    Threads = {t1}
    Pods = {p1}
    ExtPods = {x1}
    Pvcs = {v1}
    Gpus = {g1}
    WholeGpus = {}
    Faults <- GpuLoss
    MaxEnvEvents = 2
    ReqName = ReqName
    NoRow = NoRow
    NoPod = NoPod
    NoPvc = NoPvc
    NoUser = NoUser
PROPERTY FlavorsConverge
