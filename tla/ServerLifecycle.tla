---------------------------- MODULE ServerLifecycle ----------------------------
(***************************************************************************)
(* kcloud-manage's Jupyter servers (AI_SW_IDE/backend): the create-pod,    *)
(* delete-server and delete-pvc handlers, running in FastAPI's thread      *)
(* pool, and the APScheduler job that rewrites gpu_flavor, servers and     *)
(* server_gpu_mapping from Prometheus every GPU_FETCH seconds.             *)
(*                                                                         *)
(* Kubernetes holds pods and PVCs; PostgreSQL holds the committed rows.    *)
(* A handler step ends at each Kubernetes call or database commit, the     *)
(* points where the other threads and the job can interleave.  A           *)
(* transaction's changes become visible at its commit; a DELETE holds its  *)
(* row locks until then, and a statement touching a locked row waits.      *)
(* Rows are keyed by pod name (pod_name is unique: it carries a uuid), GPU *)
(* mappings are (pod, GPU) pairs and gpu_flavor rows are keyed by GPU.     *)
(***************************************************************************)
EXTENDS Integers, FiniteSets, TLC

CONSTANTS
    Users,        \* dashboard users
    Threads,      \* request-handling threads of the pool
    Pods,         \* pod names create_pod may generate ("ailabserver-...")
    ExtPods,      \* GPU pods started outside the dashboard ("jupyter-...")
    Pvcs,         \* PVC names create_pod may generate
    Gpus,         \* DCGM GPU keys (Hostname, gpu, GPU_I_ID, profile)
    WholeGpus,    \* GPUs without MIG: DCGM reports no GPU_I_ID, mig_id None
    ReqName,      \* request.name of a create request (servers.server_name)
    Faults,       \* Kubernetes API failures that may occur
    MaxEnvEvents, \* bound on external pod starts/stops and GPU losses
    NoRow, NoPod, NoPvc, NoUser

ASSUME Faults \subseteq {"k8s_error", "gpu_loss"}
ASSUME MaxEnvEvents \in Nat
ASSUME WholeGpus \subseteq Gpus

AllPods == Pods \cup ExtPods

VARIABLES
    k8sPod,     \* [AllPods -> {"none", "pending", "running"}]
    podGpu,     \* GPU a running pod holds (DCGM exported_pod)
    podPvc,     \* claimName of a dashboard pod's storage volume
    k8sPvc,     \* [Pvcs -> {"none", "pending", "bound"}]
    gpuUp,      \* GPUs DCGM reports
    servers,    \* servers table: [AllPods -> row or NoRow]
    pvcRows,    \* pvcs table: [Pvcs -> owner or NoRow]
    flavors,    \* gpu_flavor table: [Gpus -> available or NoRow]
    mappings,   \* server_gpu_mapping table: set of <<pod, gpu>>
    h,          \* [Threads -> the request each thread is executing]
    sp,         \* where the sync job is
    snap,       \* the Prometheus answer the sync job is working from
    used,       \* pod and PVC names already generated
    podOwner,   \* ghost: the user whose create_pod made the pod
    env         \* external events so far

vars == <<k8sPod, podGpu, podPvc, k8sPvc, gpuUp, servers, pvcRows, flavors,
          mappings, h, sp, snap, used, podOwner, env>>

Idle == [op |-> "idle", pc |-> "idle", user |-> NoUser, pod |-> NoPod,
         pvc |-> NoPvc, newPvc |-> FALSE, pv |-> FALSE, failed |-> FALSE,
         gpus |-> {}]

\* A mutable table row of servers; sync-created rows carry server_name = pod.
Row(u, name, status, tags) == [user |-> u, name |-> name, status |-> status,
                               tags |-> tags, pvcs |-> {}]

\* The job holds no Prometheus answer between runs.
NoAnswer == [g \in {} |-> NoPod]

Init ==
    /\ k8sPod = [p \in AllPods |-> "none"]
    /\ podGpu = [p \in AllPods |-> NoRow]
    /\ podPvc = [p \in Pods |-> NoPvc]
    /\ k8sPvc = [v \in Pvcs |-> "none"]
    /\ gpuUp = Gpus
    /\ servers = [p \in AllPods |-> NoRow]
    /\ pvcRows = [v \in Pvcs |-> NoRow]
    /\ flavors = [g \in Gpus |-> 0]      \* init_flavors_from_csv
    /\ mappings = {}
    /\ h = [t \in Threads |-> Idle]
    /\ sp = "idle"
    /\ snap = NoAnswer
    /\ used = {}
    /\ podOwner = [p \in Pods |-> NoUser]
    /\ env = 0

Set(t, r) == h' = [h EXCEPT ![t] = r]
Goto(t, pc) == h' = [h EXCEPT ![t].pc = pc]
Done(t) == h' = [h EXCEPT ![t] = Idle]

HeldBy(g) == {p \in AllPods : k8sPod[p] = "running" /\ podGpu[p] = g}

\* Row locks a delete_server transaction holds from its flush to its commit:
\* the servers row, its mappings and the gpu_flavor rows it updated.
Deleting(t) == h[t].op = "delete" /\ h[t].pc \in {"d_k8s", "d_commit"}
Locked(p) == \E t \in Threads : Deleting(t) /\ h[t].pod = p
LockedGpu(g) == \E t \in Threads : Deleting(t) /\ g \in h[t].gpus

-----------------------------------------------------------------------------
(* POST /create-pod (server.py create_pod).                                *)

\* A create request: the pod name is new (uuid suffix); request.pvc asks for
\* a new PVC under a new name, otherwise request.pvc_id names an existing one.
CreateRequest(t, u) ==
    /\ h[t].op = "idle"
    /\ \E p \in Pods \ used, newPvc \in BOOLEAN :
       \E v \in (IF newPvc THEN Pvcs \ used ELSE Pvcs) :
          /\ Set(t, [Idle EXCEPT !.op = "create", !.pc = "c_pvc", !.user = u,
                                 !.pod = p, !.pvc = v, !.newPvc = newPvc])
          /\ used' = used \cup {p, v}
    /\ UNCHANGED <<k8sPod, podGpu, podPvc, k8sPvc, gpuUp, servers, pvcRows,
                   flavors, mappings, sp, snap, podOwner, env>>

\* create_namespaced_persistent_volume_claim for the new PVC.
CreatePvc(t) ==
    /\ h[t].pc = "c_pvc" /\ h[t].newPvc
    /\ k8sPvc' = [k8sPvc EXCEPT ![h[t].pvc] = "pending"]
    /\ Goto(t, "c_bind")
    /\ UNCHANGED <<k8sPod, podGpu, podPvc, gpuUp, servers, pvcRows, flavors,
                   mappings, sp, snap, used, podOwner, env>>

\* The API refuses: HTTPException, nothing created.
CreatePvcFailed(t) ==
    /\ h[t].pc = "c_pvc" /\ h[t].newPvc
    /\ "k8s_error" \in Faults
    /\ Done(t)
    /\ UNCHANGED <<k8sPod, podGpu, podPvc, k8sPvc, gpuUp, servers, pvcRows,
                   flavors, mappings, sp, snap, used, podOwner, env>>

\* get_bound_pv_name polls the claim; its PVC row is committed with the PV
\* name, or with None when the claim is still unbound after 30 polls.
CreatePvcRecord(t) ==
    /\ h[t].pc = "c_bind"
    /\ pvcRows' = [pvcRows EXCEPT ![h[t].pvc] = h[t].user]
    /\ Goto(t, "c_pod")
    /\ UNCHANGED <<k8sPod, podGpu, podPvc, k8sPvc, gpuUp, servers, flavors,
                   mappings, sp, snap, used, podOwner, env>>

\* Reading the claim fails: the except clause deletes the claim from
\* Kubernetes (delete_pvc without a session, its own failure only logged)
\* and answers 500.
CreatePvcRecordFailed(t) ==
    /\ h[t].pc = "c_bind"
    /\ "k8s_error" \in Faults
    /\ k8sPvc' \in {k8sPvc, [k8sPvc EXCEPT ![h[t].pvc] = "none"]}
    /\ Done(t)
    /\ UNCHANGED <<k8sPod, podGpu, podPvc, gpuUp, servers, pvcRows, flavors,
                   mappings, sp, snap, used, podOwner, env>>

\* Existing PVC: the row with id request.pvc_id is looked up by id alone.
CreateExistingPvc(t) ==
    /\ h[t].pc = "c_pvc" /\ ~h[t].newPvc
    /\ pvcRows[h[t].pvc] # NoRow
    /\ Goto(t, "c_pod")
    /\ UNCHANGED <<k8sPod, podGpu, podPvc, k8sPvc, gpuUp, servers, pvcRows,
                   flavors, mappings, sp, snap, used, podOwner, env>>

\* No such row: pvc_obj is None and .pvc_name raises, answering 500.
CreateExistingPvcMissing(t) ==
    /\ h[t].pc = "c_pvc" /\ ~h[t].newPvc
    /\ pvcRows[h[t].pvc] = NoRow
    /\ Done(t)
    /\ UNCHANGED <<k8sPod, podGpu, podPvc, k8sPvc, gpuUp, servers, pvcRows,
                   flavors, mappings, sp, snap, used, podOwner, env>>

\* create_namespaced_pod with the claim as its storage volume.
CreatePod(t) ==
    /\ h[t].pc = "c_pod"
    /\ k8sPod' = [k8sPod EXCEPT ![h[t].pod] = "pending"]
    /\ podPvc' = [podPvc EXCEPT ![h[t].pod] = h[t].pvc]
    /\ podOwner' = [podOwner EXCEPT ![h[t].pod] = h[t].user]
    /\ Goto(t, "c_record")
    /\ UNCHANGED <<podGpu, k8sPvc, gpuUp, servers, pvcRows, flavors, mappings,
                   sp, snap, used, env>>

\* ApiException from create_namespaced_pod: answered at once, the new PVC
\* and its row are left as they are.
CreatePodFailed(t) ==
    /\ h[t].pc = "c_pod"
    /\ "k8s_error" \in Faults
    /\ Done(t)
    /\ UNCHANGED <<k8sPod, podGpu, podPvc, k8sPvc, gpuUp, servers, pvcRows,
                   flavors, mappings, sp, snap, used, podOwner, env>>

\* The servers row is committed: server_name = request.name, status
\* Creating, tags LEGEND.
CreateRecord(t) ==
    /\ h[t].pc = "c_record"
    /\ servers' = [servers EXCEPT ![h[t].pod] =
                      Row(h[t].user, ReqName, "Creating", "LEGEND")]
    /\ Goto(t, "c_wait")
    /\ UNCHANGED <<k8sPod, podGpu, podPvc, k8sPvc, gpuUp, pvcRows, flavors,
                   mappings, sp, snap, used, podOwner, env>>

\* read_namespaced_pod shows an IP: the row becomes Running with the claim
\* appended to its pvcs, committed.
CreatePodRunning(t) ==
    /\ h[t].pc = "c_wait"
    /\ k8sPod[h[t].pod] = "running"
    /\ ~Locked(h[t].pod)
    /\ servers[h[t].pod] # NoRow /\ pvcRows[h[t].pvc] # NoRow
    /\ servers' = [servers EXCEPT ![h[t].pod].status = "Running",
                                  ![h[t].pod].pvcs = @ \cup {h[t].pvc}]
    /\ Done(t)
    /\ UNCHANGED <<k8sPod, podGpu, podPvc, k8sPvc, gpuUp, pvcRows, flavors,
                   mappings, sp, snap, used, podOwner, env>>

\* The commit fails because the row or the PVC row was deleted meanwhile
\* (StaleDataError, foreign key): the generic except rolls back, in a
\* session that now refuses every statement until it is rolled back.
CreateRecordLost(t) ==
    /\ h[t].pc = "c_wait"
    /\ k8sPod[h[t].pod] = "running"
    /\ ~Locked(h[t].pod)
    /\ servers[h[t].pod] = NoRow \/ pvcRows[h[t].pvc] = NoRow
    /\ h' = [h EXCEPT ![t].pc = "c_rb_pod", ![t].failed = TRUE]
    /\ UNCHANGED <<k8sPod, podGpu, podPvc, k8sPvc, gpuUp, servers, pvcRows,
                   flavors, mappings, sp, snap, used, podOwner, env>>

\* Mutant: the IP wait without its 180 s bound, leaving only on an IP.
CreateIpTimeoutUnbounded(t) ==
    /\ h[t].pc = "c_wait"
    /\ FALSE
    /\ Goto(t, "c_rb_pod")
    /\ UNCHANGED <<k8sPod, podGpu, podPvc, k8sPvc, gpuUp, servers, pvcRows,
                   flavors, mappings, sp, snap, used, podOwner, env>>

\* 180 s without an IP: HTTPException, caught by the generic except, which
\* rolls back.
CreateIpTimeout(t) ==
    /\ h[t].pc = "c_wait"
    /\ k8sPod[h[t].pod] = "pending"
    /\ Goto(t, "c_rb_pod")
    /\ UNCHANGED <<k8sPod, podGpu, podPvc, k8sPvc, gpuUp, servers, pvcRows,
                   flavors, mappings, sp, snap, used, podOwner, env>>

\* read_namespaced_pod raises ApiException (the pod was deleted, or the API
\* failed): answered by the ApiException clause, nothing is rolled back.
CreateReadFailed(t) ==
    /\ h[t].pc = "c_wait"
    /\ k8sPod[h[t].pod] = "none" \/ "k8s_error" \in Faults
    /\ Done(t)
    /\ UNCHANGED <<k8sPod, podGpu, podPvc, k8sPvc, gpuUp, servers, pvcRows,
                   flavors, mappings, sp, snap, used, podOwner, env>>

\* Rollback, first half: delete_pod(pod_name, delete_db=True).  The pod is
\* deleted from Kubernetes (an ApiException is only logged); then the row
\* whose server_name equals the pod name is deleted.  A session whose commit
\* failed raises on that query, which delete_pod also only logs.
DeleteRowsNamed(name) ==
    [q \in AllPods |-> IF servers[q] # NoRow /\ servers[q].name = name
                       THEN NoRow ELSE servers[q]]

CreateRollbackPod(t) ==
    /\ h[t].pc = "c_rb_pod"
    /\ k8sPod' \in {[k8sPod EXCEPT ![h[t].pod] = "none"]}
                   \cup (IF "k8s_error" \in Faults THEN {k8sPod} ELSE {})
    /\ servers' = IF h[t].failed THEN servers ELSE DeleteRowsNamed(h[t].pod)
    /\ IF h[t].newPvc THEN Goto(t, "c_rb_pvc") ELSE Done(t)
    /\ UNCHANGED <<podGpu, podPvc, k8sPvc, gpuUp, pvcRows, flavors, mappings,
                   sp, snap, used, podOwner, env>>

\* Rollback, second half: delete_pvc(pvc_name, delete_db=True) with its
\* default delete_pv=True.  get_bound_pv_name raising (the claim is gone,
\* or the API failed) leaves bound_pv_name unassigned: the claim delete
\* still runs, then line 39 raises UnboundLocalError before the row is
\* deleted.  A claim still Pending after 30 polls gives None, no error.
ReadRaises(v) ==
    IF k8sPvc[v] = "none" THEN {TRUE}
    ELSE IF "k8s_error" \in Faults THEN BOOLEAN ELSE {FALSE}

DeletePvcSteps(t, v, withPv) ==
    \E readFails \in ReadRaises(v) :
    LET unbound == withPv /\ readFails
        dbGone  == ~unbound /\ ~h[t].failed
    IN  /\ k8sPvc' \in {[k8sPvc EXCEPT ![v] = "none"]}
                       \cup (IF "k8s_error" \in Faults THEN {k8sPvc} ELSE {})
        /\ pvcRows' = IF dbGone THEN [pvcRows EXCEPT ![v] = NoRow] ELSE pvcRows
        /\ servers' = IF dbGone
                      THEN [q \in AllPods |->
                              IF servers[q] = NoRow THEN NoRow
                              ELSE [servers[q] EXCEPT !.pvcs = @ \ {v}]]
                      ELSE servers

CreateRollbackPvc(t) ==
    /\ h[t].pc = "c_rb_pvc"
    /\ DeletePvcSteps(t, h[t].pvc, TRUE)
    /\ Done(t)
    /\ UNCHANGED <<k8sPod, podGpu, podPvc, gpuUp, flavors, mappings, sp, snap,
                   used, podOwner, env>>

-----------------------------------------------------------------------------
(* DELETE /delete-server (server.py delete_server).                        *)

\* The row is looked up by pod_name and the caller's user id; 404 otherwise.
DeleteServerRequest(t, u) ==
    /\ h[t].op = "idle"
    /\ \E p \in Pods :
          /\ servers[p] # NoRow /\ servers[p].user = u
          /\ Set(t, [Idle EXCEPT !.op = "delete", !.pc = "d_db", !.user = u,
                                 !.pod = p])
    /\ UNCHANGED <<k8sPod, podGpu, podPvc, k8sPvc, gpuUp, servers, pvcRows,
                   flavors, mappings, sp, snap, used, podOwner, env>>

\* Mutant: the flavor looked up by the mapping row instead of its gpu_id.
DeleteServerFlushByMappingRow(t) ==
    /\ h[t].pc = "d_db"
    /\ ~Locked(h[t].pod)
    /\ h' = [h EXCEPT ![t].pc = "d_k8s",
                      ![t].gpus = {mm \in mappings : mm[1] = h[t].pod}]
    /\ UNCHANGED <<k8sPod, podGpu, podPvc, k8sPvc, gpuUp, servers, pvcRows,
                   flavors, mappings, sp, snap, used, podOwner, env>>

\* available = 0 for the mapped flavors, the mappings, pvcs.clear() and the
\* row are flushed, taking their row locks (waiting for another delete of
\* the same row).  A row another request deleted since the lookup has no
\* mappings and no pvcs left, and its DELETE matches no row, which
\* SQLAlchemy only warns about: the handler carries on.
DeleteServerFlush(t) ==
    /\ h[t].pc = "d_db"
    /\ ~Locked(h[t].pod)
    /\ h' = [h EXCEPT ![t].pc = "d_k8s",
                      ![t].gpus = {m[2] : m \in {mm \in mappings :
                                                  mm[1] = h[t].pod}}]
    /\ UNCHANGED <<k8sPod, podGpu, podPvc, k8sPvc, gpuUp, servers, pvcRows,
                   flavors, mappings, sp, snap, used, podOwner, env>>

\* Mutant: delete_pod given the row's server_name, as the rollback's row
\* filter is, instead of its pod_name.
DeleteServerK8sByServerName(t) ==
    /\ h[t].pc = "d_k8s"
    /\ k8sPod' \in {[q \in AllPods |->
                      IF servers[h[t].pod] # NoRow /\ q = servers[h[t].pod].name
                      THEN "none" ELSE k8sPod[q]]}
                   \cup (IF "k8s_error" \in Faults THEN {k8sPod} ELSE {})
    /\ Goto(t, "d_commit")
    /\ UNCHANGED <<podGpu, podPvc, k8sPvc, gpuUp, servers, pvcRows, flavors,
                   mappings, sp, snap, used, podOwner, env>>

\* delete_pod(pod_name, delete_db=False): an ApiException is only logged.
DeleteServerK8s(t) ==
    /\ h[t].pc = "d_k8s"
    /\ k8sPod' \in {[k8sPod EXCEPT ![h[t].pod] = "none"]}
                   \cup (IF "k8s_error" \in Faults THEN {k8sPod} ELSE {})
    /\ Goto(t, "d_commit")
    /\ UNCHANGED <<podGpu, podPvc, k8sPvc, gpuUp, servers, pvcRows, flavors,
                   mappings, sp, snap, used, podOwner, env>>

\* Any other error of the call (the API server unreachable): the except
\* clause re-raises, the request ends with a 500 and get_db closes the
\* session, rolling the flushed changes back.
DeleteServerK8sRaised(t) ==
    /\ h[t].pc = "d_k8s"
    /\ "k8s_error" \in Faults
    /\ Done(t)
    /\ UNCHANGED <<k8sPod, podGpu, podPvc, k8sPvc, gpuUp, servers, pvcRows,
                   flavors, mappings, sp, snap, used, podOwner, env>>

\* db.commit(): the flushed changes become visible and the locks are freed.
DeleteServerCommit(t) ==
    /\ h[t].pc = "d_commit"
    /\ flavors' = [g \in Gpus |-> IF g \in h[t].gpus /\ flavors[g] # NoRow
                                  THEN 0 ELSE flavors[g]]
    /\ mappings' = {m \in mappings : m[1] # h[t].pod}
    /\ servers' = [servers EXCEPT ![h[t].pod] = NoRow]
    /\ Done(t)
    /\ UNCHANGED <<k8sPod, podGpu, podPvc, k8sPvc, gpuUp, pvcRows, sp, snap,
                   used, podOwner, env>>

-----------------------------------------------------------------------------
(* DELETE /delete-pvc (server.py delete_pvc_endpoint, utils/k8s.py).       *)

\* The row is looked up by pvc_name and the caller's user id; request.pv
\* is passed as delete_pv.
DeletePvcRequest(t, u) ==
    /\ h[t].op = "idle"
    /\ \E v \in Pvcs, withPv \in BOOLEAN :
          /\ pvcRows[v] = u
          /\ Set(t, [Idle EXCEPT !.op = "delpvc", !.pc = "v_del", !.user = u,
                                 !.pvc = v, !.pv = withPv])
    /\ UNCHANGED <<k8sPod, podGpu, podPvc, k8sPvc, gpuUp, servers, pvcRows,
                   flavors, mappings, sp, snap, used, podOwner, env>>

\* delete_pvc(..., delete_db=True, delete_pv=request.pv) in one step: the
\* claim, then the row with its association rows.
DeletePvc(t) ==
    /\ h[t].pc = "v_del"
    /\ DeletePvcSteps(t, h[t].pvc, h[t].pv)
    /\ Done(t)
    /\ UNCHANGED <<k8sPod, podGpu, podPvc, gpuUp, flavors, mappings, sp, snap,
                   used, podOwner, env>>

-----------------------------------------------------------------------------
(* The cluster: the scheduler binding claims and starting pods on a free    *)
(* GPU, pods outside the dashboard, and GPUs disappearing from DCGM.        *)

PvcBind(v) ==
    /\ k8sPvc[v] = "pending"
    /\ k8sPvc' = [k8sPvc EXCEPT ![v] = "bound"]
    /\ UNCHANGED <<k8sPod, podGpu, podPvc, gpuUp, servers, pvcRows, flavors,
                   mappings, h, sp, snap, used, podOwner, env>>

\* A dashboard pod waits for its claim to be bound and for a free GPU.
PodStart(p) ==
    /\ k8sPod[p] = "pending"
    /\ k8sPvc[podPvc[p]] = "bound"
    /\ \E g \in gpuUp :
          /\ HeldBy(g) = {}
          /\ k8sPod' = [k8sPod EXCEPT ![p] = "running"]
          /\ podGpu' = [podGpu EXCEPT ![p] = g]
    /\ UNCHANGED <<podPvc, k8sPvc, gpuUp, servers, pvcRows, flavors, mappings,
                   h, sp, snap, used, podOwner, env>>

ExtPodStart(q) ==
    /\ env < MaxEnvEvents
    /\ k8sPod[q] = "none"
    /\ \E g \in gpuUp :
          /\ HeldBy(g) = {}
          /\ k8sPod' = [k8sPod EXCEPT ![q] = "running"]
          /\ podGpu' = [podGpu EXCEPT ![q] = g]
    /\ env' = env + 1
    /\ UNCHANGED <<podPvc, k8sPvc, gpuUp, servers, pvcRows, flavors, mappings,
                   h, sp, snap, used, podOwner>>

\* Stops are bounded by the starts before them.
ExtPodStop(q) ==
    /\ k8sPod[q] = "running"
    /\ k8sPod' = [k8sPod EXCEPT ![q] = "none"]
    /\ UNCHANGED <<podGpu, podPvc, k8sPvc, gpuUp, servers, pvcRows, flavors,
                   mappings, h, sp, snap, used, podOwner, env>>

\* A GPU leaves DCGM (node drained, MIG layout changed); its pod fails.
GpuLost(g) ==
    /\ "gpu_loss" \in Faults
    /\ env < MaxEnvEvents
    /\ g \in gpuUp
    /\ gpuUp' = gpuUp \ {g}
    /\ k8sPod' = [q \in AllPods |-> IF q \in HeldBy(g) THEN "none" ELSE k8sPod[q]]
    /\ env' = env + 1
    /\ UNCHANGED <<podGpu, podPvc, k8sPvc, servers, pvcRows, flavors, mappings,
                   h, sp, snap, used, podOwner>>

-----------------------------------------------------------------------------
(* The APScheduler job scheduled_sync_gpu_flavors (main.py), one instance  *)
(* at a time.  Each half awaits the Prometheus query, then does its whole  *)
(* database work without yielding, in one transaction.                     *)

\* DCGM_FI_DEV_MIG_MODE: one series per GPU, labelled with the pod using it.
Observed == [g \in gpuUp |-> IF HeldBy(g) = {} THEN NoPod
                             ELSE CHOOSE q \in HeldBy(g) : TRUE]

SyncFetchFlavors ==
    /\ sp = "idle"
    /\ snap' = Observed /\ sp' = "flavors"
    /\ UNCHANGED <<k8sPod, podGpu, podPvc, k8sPvc, gpuUp, servers, pvcRows,
                   flavors, mappings, h, used, podOwner, env>>

\* sync_flavors_to_db.  A GPU without MIG has key mig_id None, which never
\* matches the seeded row (mig_id 0) and is inserted into the NOT NULL
\* column; a flavor gone from Prometheus is deleted while mappings still
\* reference it.  Either raises, and scheduled_sync_gpu_flavors skips the
\* status sync.
FlavorsSyncFails ==
    \/ DOMAIN snap \cap WholeGpus # {}
    \/ \E m \in mappings : m[2] \notin DOMAIN snap

\* The available value the upsert writes for a reported GPU.
SyncedAvailable(g) == IF snap[g] = NoPod THEN 0 ELSE 1

\* The flavor rows the job writes: an UPDATE is emitted only when the value
\* differs from the one loaded, and unreported rows are DELETEd.  Those
\* statements wait for a row a delete_server transaction holds.
FlavorWrites ==
    {g \in Gpus : IF g \in DOMAIN snap THEN flavors[g] \notin {NoRow, SyncedAvailable(g)}
                                      ELSE flavors[g] # NoRow}

SyncFlavors ==
    /\ sp = "flavors"
    /\ \A g \in FlavorWrites : ~LockedGpu(g)
    /\ IF FlavorsSyncFails
       THEN sp' = "idle" /\ snap' = NoAnswer /\ UNCHANGED flavors
       ELSE /\ flavors' = [g \in Gpus |-> IF g \in DOMAIN snap
                                          THEN SyncedAvailable(g)
                                          ELSE NoRow]
            /\ sp' = "fetch_status" /\ UNCHANGED snap
    /\ UNCHANGED <<k8sPod, podGpu, podPvc, k8sPvc, gpuUp, servers, pvcRows,
                   mappings, h, used, podOwner, env>>

SyncFetchStatus ==
    /\ sp = "fetch_status"
    /\ snap' = Observed /\ sp' = "status"
    /\ UNCHANGED <<k8sPod, podGpu, podPvc, k8sPvc, gpuUp, servers, pvcRows,
                   flavors, mappings, h, used, podOwner, env>>

\* sync_gpu_pod_status_from_prometheus, on the answer in snap.
PromPods == {snap[g] : g \in DOMAIN snap} \ {NoPod}
Gone == {q \in AllPods : servers[q] # NoRow /\ q \notin PromPods
                         /\ servers[q].tags # "LEGEND"}
\* Rows after steps 4 and 5: vanished non-LEGEND rows deleted, the rows of
\* other GPU pods upserted as Running/DEV unless a LEGEND row exists.
SyncedServers ==
    [q \in AllPods |->
        CASE q \in Gone -> NoRow
          [] q \in PromPods \cap ExtPods /\ servers[q] = NoRow ->
                Row(NoUser, q, "Running", "DEV")
          [] q \in PromPods \cap ExtPods /\ servers[q].tags # "LEGEND" ->
                [servers[q] EXCEPT !.status = "Running", !.tags = "DEV"]
          [] OTHER -> servers[q]]
\* Pods whose mappings are rebuilt: ailabserver pods with a row, and the
\* other pods unless they were skipped for a LEGEND row.
Remapped == {q \in PromPods \cap Pods : servers[q] # NoRow}
            \cup {q \in PromPods \cap ExtPods :
                    servers[q] = NoRow \/ servers[q].tags # "LEGEND"}
\* The flavor lookup filters mig_id IS NULL for a GPU without MIG, and no
\* such row exists.
SyncedMappings ==
    {m \in mappings : m[1] \notin Gone \cup Remapped}
    \cup {<<snap[g], g>> : g \in {gg \in DOMAIN snap :
              snap[gg] \in Remapped /\ flavors[gg] # NoRow
              /\ gg \notin WholeGpus}}

\* A delete_server holding a row the job writes makes the job wait; after
\* that commit the job's mapping INSERT names a deleted server and the
\* foreign key fails: the job rolls back and raises.
SyncStatus ==
    /\ sp = "status"
    /\ IF \E q \in Gone \cup Remapped : Locked(q)
       THEN UNCHANGED <<servers, mappings>>
       ELSE servers' = SyncedServers /\ mappings' = SyncedMappings
    /\ sp' = "idle" /\ snap' = NoAnswer
    /\ UNCHANGED <<k8sPod, podGpu, podPvc, k8sPvc, gpuUp, pvcRows, flavors,
                   h, used, podOwner, env>>

-----------------------------------------------------------------------------

Request(t) ==
    \E u \in Users : CreateRequest(t, u) \/ DeleteServerRequest(t, u)
                     \/ DeletePvcRequest(t, u)

\* The steps of a handler that need no Kubernetes API failure.
ProgressStep(t) ==
    \/ CreatePvc(t) \/ CreatePvcRecord(t) \/ CreateExistingPvc(t)
    \/ CreateExistingPvcMissing(t) \/ CreatePod(t) \/ CreateRecord(t)
    \/ CreatePodRunning(t) \/ CreateRecordLost(t) \/ CreateIpTimeout(t)
    \/ CreateReadFailed(t) /\ k8sPod[h[t].pod] = "none"
    \/ CreateRollbackPod(t) \/ CreateRollbackPvc(t)
    \/ DeleteServerFlush(t) \/ DeleteServerK8s(t) \/ DeleteServerCommit(t)
    \/ DeletePvc(t)

\* The steps that end a handler on an API failure.
FaultStep(t) ==
    \/ CreatePvcFailed(t) \/ CreatePvcRecordFailed(t) \/ CreatePodFailed(t)
    \/ CreateReadFailed(t) \/ DeleteServerK8sRaised(t)

HandlerStep(t) == ProgressStep(t) \/ FaultStep(t)

SyncStep == SyncFetchFlavors \/ SyncFlavors \/ SyncFetchStatus \/ SyncStatus

Cluster ==
    \/ \E v \in Pvcs : PvcBind(v)
    \/ \E p \in Pods : PodStart(p)
    \/ \E q \in ExtPods : ExtPodStart(q) \/ ExtPodStop(q)
    \/ \E g \in Gpus : GpuLost(g)

Next == (\E t \in Threads : Request(t) \/ HandlerStep(t)) \/ SyncStep \/ Cluster

\* A request, once a thread is running it, is carried to its end (API
\* failures may happen, but need not): strongly, since a statement waiting for a row lock is granted it when the holder
\* ends, before a later request of the same row (Postgres queues lock
\* waiters).  The job is re-run every GPU_FETCH seconds for as long as the
\* app is up.  Users and the cluster owe nothing.
Spec == Init /\ [][Next]_vars
             /\ \A t \in Threads : SF_vars(ProgressStep(t))
             /\ WF_vars(SyncStep)

-----------------------------------------------------------------------------
(* Properties.                                                             *)

RowType == [user : Users \cup {NoUser}, name : AllPods \cup {ReqName},
            status : {"Creating", "Running"}, tags : {"LEGEND", "DEV"},
            pvcs : SUBSET Pvcs]

TypeOK ==
    /\ k8sPod \in [AllPods -> {"none", "pending", "running"}]
    /\ podGpu \in [AllPods -> Gpus \cup {NoRow}]
    /\ podPvc \in [Pods -> Pvcs \cup {NoPvc}]
    /\ k8sPvc \in [Pvcs -> {"none", "pending", "bound"}]
    /\ gpuUp \subseteq Gpus
    /\ servers \in [AllPods -> RowType \cup {NoRow}]
    /\ pvcRows \in [Pvcs -> Users \cup {NoRow}]
    /\ flavors \in [Gpus -> {0, 1, NoRow}]
    /\ mappings \subseteq AllPods \X Gpus
    /\ \A t \in Threads : h[t].gpus \subseteq Gpus
    /\ sp \in {"idle", "flavors", "fetch_status", "status"}
    /\ env \in 0..MaxEnvEvents

\* A request some thread is still executing on pod p.
Busy(p) == \E t \in Threads : h[t].op # "idle" /\ h[t].pod = p

\* delete_server deletes the pod "in a single transaction" with its row,
\* and create_pod's rollback removes what it made: a dashboard pod no
\* request is working on has its servers row, without which no user can
\* see or delete it.
PodHasRow ==
    \A p \in Pods : k8sPod[p] # "none" /\ ~Busy(p) => servers[p] # NoRow

\* create_pod's rollback (delete_pod with delete_db=True) is meant to remove
\* the row it recorded: once no request works on it, a dashboard row has
\* its pod.
LegendRowHasPod ==
    \A p \in Pods : servers[p] # NoRow /\ ~Busy(p) => k8sPod[p] # "none"

\* The routes look PVCs up with PVC.user_id == current_user.id: a pod
\* create_pod starts mounts a claim of the user who asked for it.
PodMountsOwnPvc ==
    \A p \in Pods : k8sPod[p] # "none"
                    => pvcRows[podPvc[p]] \in {podOwner[p], NoRow}

\* Every request returns: the IP wait is bounded by its 180 s timeout and
\* no lock is held across requests.
HandlersReturn ==
    \A t \in Threads : h[t].op # "idle" ~> h[t].op = "idle"

\* What gpu_flavor should say: available is 1 for a GPU in use, 0 for a
\* free one, and the row of a GPU DCGM no longer reports is gone.
FlavorsSettled ==
    flavors = [g \in Gpus |-> IF g \notin gpuUp THEN NoRow
                              ELSE IF HeldBy(g) = {} THEN 0 ELSE 1]

\* The periodic job brings gpu_flavor in line with DCGM once the cluster
\* and the users are quiet (sync_flavors_to_db, every GPU_FETCH seconds).
FlavorsConverge == <>[]FlavorsSettled

=============================================================================
