-------------------------- MODULE MCServerLifecycle --------------------------
(***************************************************************************)
(* Users, pool threads, the pod and claim names create_pod may generate,   *)
(* pods started outside the dashboard and MIG instances are model values   *)
(* given in each cfg.                                                      *)
(***************************************************************************)
EXTENDS ServerLifecycle

NoFaults == {}
K8sFaults == {"k8s_error"}
GpuLoss == {"gpu_loss"}
AllFaults == K8sFaults \cup GpuLoss

\* Users, threads, pod names and claim names are interchangeable.
Symm == Permutations(Users) \cup Permutations(Threads)
        \cup Permutations(Pods) \cup Permutations(Pvcs)
\* So are the GPUs when all of them are MIG instances.
SymmGpus == Symm \cup Permutations(Gpus)
====
