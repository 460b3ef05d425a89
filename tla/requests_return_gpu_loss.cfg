SPECIFICATION Spec
CONSTANTS
    Users = {u1}
    Threads = {t1, t2}
    Pods = {p1}
    ExtPods = {x1}
    Pvcs = {v1}
    Gpus = {g1}
    WholeGpus = {}
    Faults <- AllFaults
    MaxEnvEvents = 1
    ReqName = ReqName
    NoRow = NoRow
    NoPod = NoPod
    NoPvc = NoPvc
    NoUser = NoUser
 
PROPERTY HandlersReturn
