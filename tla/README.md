# TLA+ models of openkcloud

This directory holds TLA+ models of the openkcloud repository and the TLC
configurations that check them. Each module is written from the Python under
`src/`. `PROJECT.json` maps every definition that models code to the lines it
translates, and lists the runs, the mutants, the findings and the hazards.

## 1. The system and its parts

openkcloud has five subprojects. They meet at two points:
- Placement, where cyborg reports devices and nova's weigher reads them;
- a Kubernetes cluster with DCGM/Prometheus, which kcloud-manage drives and observes.

| Part | Source | State it keeps | Operations | Interacts with |
|---|---|---|---|---|
| AcceleratorWeigher | `kcloud-nova/nova/scheduler/weights/accelerator.py` | None of its own. Per call it holds the root RP, the accelerator groups, the provider tree and `usages_dict`, all read from Placement. | `_weigh_object` per host: root lookup (GET), `_extract_accel_groups`, `get_provider_tree_and_ensure_root`, one usage GET per non-root RP, `_group_slack` / `_group_product`, policy aggregate | Placement, which other schedulers and the cyborg agent change at any time. nova's weigher loop calls it once per host. |
| Cyborg Furiosa driver | `kcloud-cyborg/.../aichip/{base,furiosa/driver,furiosa/sysinfo}.py` | None | `discover()`: device list → deployables with RC `CUSTOM_AICHIP`, one unit each, and traits `OWNER_CYBORG` and `CUSTOM_FURIOSA_<pid>` | Feeds Placement's provider trees, which are the input of the weigher. |
| Server lifecycle (kcloud-manage) | `backend/app/api/routes/server.py`, `utils/k8s.py`, `models/*.py` | PostgreSQL tables `servers`, `pvcs`, `pvc_server_association`, `server_gpu_mapping` and `gpu_flavor`; Kubernetes pods, PVCs and PVs | `create_pod` (PVC create, bind wait, pod create, record, IP wait, rollback), `delete_server`, `delete_pvc_endpoint`, `delete_pod`, `delete_pvc` | Handlers run in FastAPI's thread pool, concurrently with each other and with the sync job. |
| GPU/server sync job | `backend/app/db/featch_gpu.py`, `main.py` | The same tables | `sync_flavors_to_db` and `sync_gpu_pod_status_from_prometheus`, every `GPU_FETCH` seconds on the event loop | Rewrites rows the handlers are using. |
| Storage routes | `backend/app/api/routes/storage.py` | `pvcs` and Kubernetes PVCs | PVC and NFS volume creation | The same tables |
| Auth, metrics, proxy, data_observer | `routes/auth.py`, `routes/metrics.py`, `routes/proxy.py`, `data_observer/main.py` | None (JWT and forwarding) | Request/response translation | Clients and Prometheus |
| infra-optimization monitoring | `monitoring/database_integrated_monitor.py`, `enhanced_alert_system.py`, `alert_system.py`, `integrated_monitor.py`, `database/{connection,redis_keys}.py` | Redis cooldown keys with a TTL, the sorted set `alerts_active` and per-cluster sets (database mode); `last_alert_time` and `active_alerts` in memory (fallback mode) | The monitoring loop: per cluster, rule evaluation with a per-(rule, cluster) cooldown, the notification handlers; acknowledge, resolve, 24 h cleanup | Redis and PostgreSQL; the loop runs on asyncio. |
| infra-optimization cluster groups | `cluster_group_orchestrator.py`, `openstack_cluster_crud.py` | `ClusterGroupOrchestrator.groups` (status, cluster list, `active_clusters`) in memory; the clusters in Magnum | `create_group`, `delete_group`, `add_cluster_to_group`, `remove_cluster_from_group`, `scale_group`, each over blocking CRUD calls that poll Magnum with a timeout | OpenStack Magnum, which builds and deletes clusters on its own time. |
| infra-optimization cluster API and virtual groups | `cluster_api.py`, `openstack_cluster_crud.py`, `virtual_cluster_group_manager.py` | The clusters in Magnum; `VirtualClusterGroupManager.virtual_groups` (per group a list of cluster_info with node_count, hourly_cost, cached status) in memory | REST create, batch create, update/resize, delete, stuck-cluster cleanup; group create-with-clusters, status refresh, horizontal scale, delete | The same Magnum. The API server and the group manager are separate processes that never talk to each other. |
| kcloud-mlperf | `run.py`, `report.py`, `mmlu.py` | Files under `--results-dir`: one timestamp-named directory per run, `meta.json`, `index.md`, the `latest` symlink | `main`: validate arguments, name and purge, accuracy gate, Offline / Server / SingleStream performance, report, `update_results_index`; `mmlu.py`'s `main` writing `results/mmlu` | Earlier and later invocations on the same results directory, through `meta.json` and the run directories. vLLM does the work. |

### What makes each part hard

**AcceleratorWeigher** (section 4 of `spec.md` describes the algorithm):
- The score is meant to be a pure function of a snapshot. The code instead builds its input from several Placement round trips, each of which may fail or interleave with allocations.
- Numerically, the free units are clamped and the product-fit factors are `slack + EPS`. A negative slack short-circuits the product to 0. UNMET is `-inf`.
- The properties that make it correct are:
  - each score equals the specification's definition on the data read;
  - weights are never negative;
  - more free capacity never lowers a weight;
  - under product-fit, an unsatisfiable host ranks last;
  - a group weighed as satisfiable was satisfiable;
  - one host never aborts the ranking.

**Server lifecycle and sync** (`ServerLifecycle`):
- `create_pod` touches Kubernetes and the database in six steps, with a hand-written rollback.
- `delete_server` flushes its deletes, then asks Kubernetes, then commits.
- The sync job awaits Prometheus and then rebuilds `gpu_flavor`, `servers` and `server_gpu_mapping`, concurrently with both handlers.
- The properties that make it correct are:
  - once no request works on a dashboard pod, it has its `servers` row, and a row has its pod;
  - a pod mounts only its owner's PVC;
  - a GPU is mapped to at most one server;
  - every request returns;
  - `gpu_flavor` converges to what DCGM reports.

**Alerting** (`AlertMonitoring`, `AlertCooldown`):
- The cooldown lives in a Redis key whose TTL is computed in another file, and every Redis call swallows its own errors.
- The fallback path keeps the same promise with an in-memory timestamp. In database mode, a run of failing cycles hands evaluation to that fallback path, whose timestamps know nothing of the Redis keys.
- The property that makes it correct: no (rule, cluster) pair alerts twice within `cooldown_minutes`, whichever store holds the cooldown.

**Cluster groups** (`ClusterGroups`):
- Each orchestrator call runs several Magnum operations in sequence, each one polled until it completes, fails or times out.
- Every failure is caught at a different level (`delete_cluster`, `add_cluster_to_group`, `delete_group`), and each level leaves different state behind.
- The properties that make it correct are:
  - a live group's `active_clusters` counts its list;
  - every call returns;
  - no Magnum cluster is lost track of.

**Cluster API and virtual groups** (`ClusterOperations`):
- The REST endpoints block the event loop in each Magnum wait, so requests queue behind a 30-minute update or a cleanup that deletes clusters one by one, while the group manager changes the same clusters from another process.
- `cleanup_stuck_clusters` decides from one listing and `created_at` which clusters are "stuck", then force-deletes them. Its age test compares an aware datetime with a naive one.
- The group manager never waits for Magnum: it records node counts and statuses in memory and swallows every Magnum error.
- The properties that make it correct are:
  - every request returns;
  - scale-out splits the added nodes evenly over the clusters that are up, and scale-in takes nodes from the costliest clusters first, keeping one node each;
  - the cleanup eventually removes the clusters that really are stuck.

**MLPerf runner** (`MlperfRunner`):
- Invocations run one after another, but they share state through the results directory. Offline records its throughput in `meta.json`, and a later Server run with `--server-target-qps auto` paces itself by it. Every run purges the earlier runs' directories, and the index is refreshed only at a normal end.
- Any invocation may die mid-way: nothing catches an exception from vLLM or the dataset loader, and an OOM kill or an interrupt is the normal way a long benchmark ends early. `write_json_file` truncates before it writes.
- The Server loop's pacing `next_issue_time = max(next + interval, end)` and `percentile`'s interpolation have edge cases a test seldom reaches: a slow request followed by fast ones, and an integral rank.
- The properties that make it correct are:
  - the target rate is positive and is the one the docstring derives from the last Offline run;
  - prompts are never issued faster than the target rate;
  - the reported percentiles are the interpolated ones;
  - `index.md` links only to runs that exist.

## 2. Modules

### AcceleratorWeigher (+ MCAcceleratorWeigher)

There is one weigher process. It weighs the hosts of `HostOrder` in turn, with `pc` recording where the current `_weigh_object` call is:

| pc / action | Code |
|---|---|
| `lookup`: `LookupRoot`, `LookupRootNoGroups`, `LookupRootFailed`, `LookupRootConnectError` | `_lookup_root_rp_uuid` (lines 85-113) and `_extract_accel_groups` with its early return (lines 386-396) |
| `tree`: `GetProviderTree`, `GetProviderTreeFailed` | `get_provider_tree_and_ensure_root` and its caught exception (lines 116-147, 398-403) |
| `usage`: `FetchUsage`, `FetchUsageNon200`, `UsageConnectError` | One usage GET per non-root RP (lines 149-167). A non-200 answer leaves the RP out. An exception is not caught. |
| `ComputeScore` (`CallResult`) | The scoring after the last round trip (lines 405-470) |
| `done` / `aborted` | The weigher loop has ended, or an exception left it |

Each return of `_weigh_object` goes through `Returned`, which records the result and moves on to the next host. Each result records what the call read.

The pure functions are operators:
- `ExtractAccelGroups`
- `GetFreeForRcFromTree`
- `SumFreeForRcWithTraits` (the loop over `get_provider_uuids_in_tree`, as a `FoldLeft` with the code's `continue`s as `CASE` arms)
- `GroupSlack`
- `GroupProduct` (a fold that stops at the first negative slack)
- `WeighScore`

**Numbers.** Totals, reserved, usages and amounts are small integers, exact in a float. A product-fit value is a product of `(slack + EPS)` factors. It is kept exactly, as a polynomial in EPS with one coefficient per power (`Num`, `SlackPlusEps`, `PMul`). Polynomials are compared lexicographically (`PLess`). That is the order of the reals for `EPS = 1e-6` and slacks of this size.

UNMET is a record flag that ranks below every number.

The policy test `policy in ("sum-fit")` is a substring test on a string. For the two values oslo.config admits, it is an equality (`PolicyIsSumFit`).

**Environment.** `PlacementAllocate` and `PlacementRelease` are other schedulers claiming and freeing one unit on an RP of the host being read. They are enabled only when `Concurrent` is set, and only while the call is in its usage loop (`pc = "usage"`). A change during the root lookup or the tree fetch, or to a host outside its own call, is indistinguishable, for the weigher, from the usage the host starts its loop with (`InitialUsage`). `weigher` starts from idle hosts, so every usage the weigher reads was produced by these steps.

Usages may start above `total - reserved`, because reserved can be raised after allocation. That exercises the clamp.

**Reference.** `RefFreeUnits`, `RefTotalFree`, `RefGroupSlack`, `RefGroupProduct` and `RefSumFit` restate sections 4.1-4.5 of the spec directly, with sets and sums instead of loops. They are used only by properties.

The ghost `satSeen` collects the groups that were satisfiable in Placement at some instant between the root lookup and the last usage GET.

**Model.** `MCAcceleratorWeigher` has two hosts with the tree the Furiosa driver produces: two `CUSTOM_AICHIP` RPs of one unit, with traits `CUSTOM_FURIOSA_0000` and `CUSTOM_FURIOSA_0001`, and one `VGPU` RP with total 2 and reserved 1.

The requests are:
- two chips;
- one chip plus one chip-and-VGPU group;
- one chip on NPU 0 plus two chips;
- a non-accelerator group with an amount `int()` rejects.

These bounds reach every case the code distinguishes:
- every `continue` of the RP scan;
- slack below, at and above zero;
- one and two RCs per group (two factors of EPS);
- usage above `total - reserved`;
- groups dropped by extraction;
- two hosts that differ in free units, which monotonicity needs.

### ServerLifecycle (+ MCServerLifecycle)

The handlers run as threads of FastAPI's pool (`h[t]` is the request a thread executes; `pc` is where it is). A step ends at each Kubernetes call or commit, which is where other threads and the job can interleave.

| Variable | Code |
|---|---|
| `k8sPod`, `podGpu`, `podPvc`, `k8sPvc`, `gpuUp` | The cluster: pods (none/pending/running), the GPU a running pod holds (DCGM's `exported_pod`), its claim, PVC phases, the GPUs DCGM reports |
| `servers`, `pvcRows`, `flavors`, `mappings` | The committed rows of `servers` (with its `pvc_server_association` as `pvcs`), `pvcs` (owner), `gpu_flavor` (`available`) and `server_gpu_mapping` |
| `sp`, `snap` | The sync job's position and the Prometheus answer it is applying |
| `used`, `podOwner`, `env` | Names already generated (uuid suffixes never repeat), a ghost owner, the count of external events |

| Actions | Code |
|---|---|
| `CreateRequest`, `CreatePvc`/`CreatePvcFailed`, `CreatePvcRecord`/`CreatePvcRecordFailed`, `CreateExistingPvc`/`CreateExistingPvcMissing` | `create_pod` lines 200-270 |
| `CreatePod`/`CreatePodFailed`, `CreateRecord` | lines 271-345 and the `ApiException` clause |
| `CreatePodRunning`, `CreateRecordLost`, `CreateIpTimeout`, `CreateReadFailed` | The IP wait and final commit (346-368). A commit that fails leaves the session refusing statements (`failed`). |
| `CreateRollbackPod`, `CreateRollbackPvc` | The generic `except` (369-374) calling `delete_pod` and `delete_pvc` (`utils/k8s.py`) |
| `DeleteServerRequest`, `DeleteServerFlush`, `DeleteServerK8s`, `DeleteServerK8sRaised`, `DeleteServerCommit` | `delete_server` (`server.py` 159-197). From flush to commit it holds row locks (`Locked`, `LockedGpu`), which the job and a second delete wait on. `delete_pod` catches only `ApiException` and logs it (`k8s.py` 58-64), so `DeleteServerK8s` removes the pod or leaves it and the commit follows either way. Any other exception (`DeleteServerK8sRaised`, fault `k8s_error`) reaches the `except` at 193-195: the session rolls back and the request fails with 500. A flushed DELETE that matches no row only warns in SQLAlchemy, so the flush always reaches the Kubernetes call. |
| `DeletePvcRequest`, `DeletePvc` | `delete_pvc_endpoint` and `delete_pvc` (`DeletePvcSteps`, shared with the rollback). `ReadRaises` is whether `get_bound_pv_name`'s read raises: always when the claim is gone, and possibly only with fault `k8s_error`. When it raises on a claim that had a PV, `bound_pv_name` is unassigned and line 39 raises `UnboundLocalError` after the claim is deleted. |
| `SyncFetchFlavors`, `SyncFlavors`, `SyncFetchStatus`, `SyncStatus` | `scheduled_sync_gpu_flavors`: each half awaits Prometheus, then does its database work without yielding, in one transaction. `FlavorWrites` are the `gpu_flavor` rows the upsert and the delete change (an update setting `available` to its present value emits no UPDATE); the job waits while a `delete_server` holds one of them. `FlavorsSyncFails` covers the foreign-key and NOT NULL failures, after which the status half is skipped. |
| `PvcBind`, `PodStart`, `ExtPodStart`, `ExtPodStop`, `GpuLost` | The cluster: the scheduler binds claims and starts a pod on a free GPU once its claim is bound; pods outside the dashboard; GPUs leaving DCGM (only with fault `gpu_loss`) |

When the job's status half needs a row that a `delete_server` holds, the code waits for that commit and then fails on the foreign key. The model lets the job fail at once with no change. That reaches the same states.

`SyncStatus` applies the status half of the job (`featch_gpu.py` 145-340) as one step. That is sound for the properties checked:
- its writes become visible to the handlers only at its one commit, and Postgres's row locks serialise it with a `delete_server` in flight;
- the awaits inside the loop (`get_cpu_memory_from_k8s`, `get_pod_internal_ip`) happen only for pods that are not dashboard pods, whose rows no handler writes;
- the dashboard rows it reads are re-read per pod, and the job never deletes them;
- the wait on a concurrent delete's locks is modelled (`Locked`, then the abort above).

A row's data (CPU, memory, image, IP, description) and the job's user lookup by pod-name prefix are left out. Sync-created rows carry no user.

**Fault sets.** `Faults` decides which failures the environment may inject: `k8s_error` (any Kubernetes call may fail) and `gpu_loss` (a GPU may leave DCGM). A fault may happen, but nothing forces it.

**Model.** The cfgs give users, threads, pod names, claim names, pods outside the dashboard and GPUs as model values:
- `server_requests` has two threads, two pod names and two claims, with GPU loss and symmetry, and reaches 2.1M states in about 100 s. Two pod names and two claims are what it takes for an existing PVC to be mounted by a second pod.
- `requests_return_gpu_loss` has two threads, one pod name and one claim, every fault and `MaxEnvEvents` = 1 (140k states).
- Each violation run uses the smallest model that shows its bug.

### AlertCooldown, AlertMonitoring (+ MCAlertMonitoring)

`AlertCooldown` is the abstract specification. `lastFired[k]` is the time pair `k = <<rule, cluster>>` last alerted. `Fire(S)` lets a set of pairs alert together, but only pairs whose `cooldown_minutes` have elapsed.

`AlertMonitoring` models one monitor process. `initialize()` picks `mode` once. Time counts loop periods of `TickSeconds` (the `update_interval`, 30 s).

| Definition | Code |
|---|---|
| `Init` (mode) | `DatabaseIntegratedMonitor.initialize`: database mode if `init_database()` succeeds, else fallback |
| `StartCycle`, `EndCycle`, `Tick` | `monitor_clusters_enhanced` over `cluster_names`, `_update_dashboard_cache`, the `asyncio.sleep` of `run_continuous_monitoring` |
| `CycleFails` | In database mode, the cycle's summary raising (fault `cycle_error`): `error_count += 1`, and from `max_errors` on the same cycle runs `_monitor_clusters_fallback` (`via = "fallback"`). A cycle that succeeds resets the count. |
| `EvaluateEnhanced(Met, redisUp)` | `process_metrics_alerts` for the next cluster. It uses `EnhancedFired` (`_evaluate_alert_conditions`: skip a rule whose cooldown key exists), `CooldownKeysSet` (SET the key with `alert_cooldown_ttl`) and `RedisIndexed` (`_redis_handler`). |
| `KeyLive`, `AlertCooldownTtl`, `InCooldown`, `RedisOutcomes` | The key and its TTL `cooldown_minutes * 60 + 10` s. `redis_get`/`redis_set` turn a Redis error into None/False. |
| `EvaluateFallback(Met)` | `AlertSystem.process_metrics`: `BaseFired` (`evaluate_conditions` with `last_alert_time`), then `CleanupResolved` |
| `Stamped` | `last_alert_time[key] = datetime.now()` for each alert raised (`alert_system.py` 186), and the same stamp on the ghosts |
| `AcknowledgeEnhanced`, `ResolveBase` | `EnhancedAlertSystem.acknowledge_alert` (ZREM from `alerts_active` only) and `AlertSystem.resolve_alert` |

Metrics are abstracted to `Met`, the set of enabled rules whose condition they meet, chosen freely each evaluation. `redisUp` is the outcome of the Redis commands of one evaluation. It can be FALSE only with the fault `redis_error`. Two ghost variables record the time each pair last alerted: `notified` over every alert the monitor raises, whichever alert system raised it, and `notifiedEnh` over the EnhancedAlertSystem's only.

**Refinement.** `RedisCooldowns == INSTANCE AlertCooldown WITH lastFired <- notifiedEnh` and `Cooldowns == INSTANCE AlertCooldown WITH lastFired <- notified`. `RedisCooldownRespected == RedisCooldowns!Spec` is checked by `alert_monitoring`; `CooldownRespected == Cooldowns!Spec`, the promise to the user whatever path raised the alert, is the violation run `alert_fallback_realerts`.

**Model.**
- Two rules: `high_cpu` and `creation_failed` (no cooldown). One cluster.
- `alert_monitoring`: `high_cpu` has a 1-minute cooldown, `MaxTime` = 3 periods of 30 s and `max_errors` = 2, with failing cycles on (1.1M states, 40 s). That reaches an alert at 0 s, re-checks at 30 s (inside the cooldown, but after the TTL in the mutant's units) and 60 s (just over), and runs of failing cycles that switch evaluation to the fallback system and back.
- `alert_fallback_realerts`: the default 15-minute cooldown and the code's `max_errors` = 5, over `MaxTime` = 4.
- A second cluster only multiplies identical per-pair behaviour: cooldown keys are per pair, and nothing couples clusters.

### ClusterGroups (+ MCClusterGroups)

Only one call runs at a time (`op`). The orchestrator's coroutines never suspend: every CRUD call blocks the event loop in `_wait_for_cluster_status`. Magnum moves each cluster on its own (`MagnumCreateComplete`, `MagnumDeleteComplete`, `MagnumFails`).

| Definition | Code |
|---|---|
| `CreateGroup`, `AddCluster`, `RemoveCluster`, `ScaleGroup`, `DeleteGroup` | The calls, with their "not found" early returns as guards. `op.adds` holds the creates to do, `op.todo` the clusters to delete. |
| `CreateClusterStart`, `CreateClusterRejected` | `create_cluster`'s Magnum call, accepted or raising. `add_cluster_to_group` then returns False. |
| `ClusterCreated`, `ClusterCreateFailed` | The wait seeing `CREATE_COMPLETE` (append, `active_clusters + 1`), or `CREATE_FAILED` / the timeout while still in progress |
| `AddsDone` | `_ensure_min_clusters` and the scale loop end. `create_group` sets the group active. |
| `DeleteClusterStart`, `DeleteClusterRejected`, `ClusterDeleted`, `ClusterDeleteFailed` | `delete_cluster`. ResourceNotFound returns `force`. A failure returns True under force, else re-raises. |
| `DeleteOutcome`, `Unlist` | How `delete_group` (True drops the cluster, the counters are untouched, a raise sets status error) and `remove_cluster_from_group` (True unlists and decrements, anything else returns False) use the result |
| `DeletesDone` | `del self.groups[group_id]`, or the remove returns |

Names, templates, node counts and `total_nodes` are left out. `total_nodes` changes exactly where `active_clusters` does.

**Model.**
- `cluster_groups` has two groups and three cluster ids, `min_clusters` up to 1 and scale targets up to 2, with Magnum failures on. That gives 406k states.
- A create needs a fresh cluster id (`Fresh`), so the ids bound how many clusters are ever created.
- `orphan_cluster` uses one group and two ids.

### ClusterOperations (+ MCClusterOperations)

One REST request runs at a time (`api`). The group manager's methods make no waits, so each is one atomic step, with a nondeterministic set of its Magnum calls failing (`Failures`). Magnum moves clusters on its own (`MagnumProgress`, `MagnumFails`). `HoursPass` advances time by the cleanup's `hours`: each cluster's `aged` means its `created_at` is older than the cutoff, and `held` means its current status is older than the cutoff. A status change clears `held`.

| Definition | Code |
|---|---|
| `ApiCreate`, `CreateStart`, `CreateRejected`, `Created`, `CreateFailed` | `POST /clusters` and `POST /batch/clusters`: `create_cluster` per request, errors collected, each wait ending at `CREATE_COMPLETE`, a failure, not-found or the timeout |
| `ApiUpdate`, `UpdateDone`, `UpdateFailed` | `PATCH /clusters/{id}` and `/resize`: `update_cluster`'s patch, then its wait for `UPDATE_COMPLETE`/`CREATE_COMPLETE` |
| `ApiDelete`, `ApiCleanup`, `StuckStatusListed`, `CleanupAgeTestRaises` | `DELETE /clusters/{id}` and `POST /maintenance/cleanup`. The cleanup lists the clusters in a stuck status (424-430). For the first of them, `created_at` (always set by Magnum) parses to an aware datetime and is compared with the naive cutoff: Python raises TypeError, the `except` at 442-444 re-raises it, and the request fails before any delete. |
| `DeleteStart`, `DeleteRejected`, `ClusterDeleted`, `ClusterDeleteFailed`, `DeleteReturns`, `RequestDone` | `delete_cluster(id, force)` for a single delete or each cluster of the snapshot (the cleanup always passes force) |
| `VCreateGroup` | `create_group_with_clusters`: `None` for a taken name; each spec's `clusters.create` sent without waiting; a raising create skipped |
| `VRefresh` | `get_group_status`: each cached status re-read; a raising `get` keeps the old one. `node_count` is not re-read. |
| `ScaleResult`, `ScaleOutNodes`, `ScaleOutShare`, `Eligible`, `Rank` | `scale_group`'s horizontal branch and `_scale_out_group`: `add // k` each, one more for the first `add % k` clusters cached as `CREATE_COMPLETE` |
| `ScaleInOrder`, `ScaleInLoop`, `ScaleInStep` | `_scale_in_group`: a stable sort by `hourly_cost / node_count`, descending, then `min(remaining, n - 1)` from each cluster in turn (RECURSIVE) |
| `VScale` | The above, plus `_scale_magnum_cluster` for each changed cluster. Magnum takes the update only in a COMPLETE state; the new count is recorded either way. |
| `VDelete` | `delete_virtual_group`: get and delete each cluster, errors swallowed, group dropped |

Several of these source files, as committed, have docstrings that swallow code and an `else:` with no body (`virtual_cluster_group_manager.py:136`, `:174`, `:277`; `cluster_api.py:166`, `:251`). Python would not import them. The model follows the evident body of each method: the guards and statements the docstrings cover are modelled as code.

**Abstractions.**
- A cluster_info's `status` is read only by the test `== 'CREATE_COMPLETE'`, so the model keeps only that test (`complete`).
- `hourly_cost` is `base_cost * node_count` at creation and never updated. With one template the base cost is a common factor, so `cost` holds the creation node count.
- Magnum's own node count is written by updates and read by nothing in the code, so Magnum's record has no node count.
- Magnum accepts an update only in a COMPLETE state and a delete in any state. This is an assumption about Magnum, not code of this repository.

**Model.**
- `cluster_operations` has two cluster ids, one virtual group, group configurations of up to two one-node clusters, scale targets 0..3, batches of one, and Magnum failures on. That gives 203k states in under 2 minutes. Targets up to 3 over two clusters reach scale-outs with a remainder and scale-ins where the cost order and the one-node floor both matter.
- Time passing multiplies the state space by about eight, and Magnum node counts by four, which is why the bounds are this small.
- `cleanup_never_deletes` has one cluster id and no faults.

### MlperfRunner (+ MCMlperfRunner)

`inv` is the invocation in progress, or `idle`. `nextId` is the next run's timestamp: run ids increase, as `timestamp()` does across invocations that take minutes. `dirs`, `reported`, `index` and `meta` are the results directory. `srv` holds the Server loop's locals. `perfLog` is the current run's summary log. `lastOffline` is a history variable: the Offline measurement that `meta.json` last received.

| Definition | Code |
|---|---|
| `Start`, `ValidScenario`, `Inv` | `main` up to `config.json`: argparse, the category/scenario check (exit 2, modelled as no invocation), `format_run_dir_name`, `ensure_dir`, `purge_old_runs(keep_name=run_id)` |
| `AccuracyMode`, `GateOutcomes` | `--mode accuracy`: `run_accuracy`'s ROUGE-Lsum gate (skipped by `--disable-accuracy-gate`), the report, then `sys.exit(1)` or `update_results_index` |
| `AccuracyThenPerformance` | `--mode both`: accuracy ungated, then the scenario |
| `OfflineGenerate`, `WriteOfflineMeta`, `OfflineMeta` | `run_performance_offline`: one generation of `tokens` in `dur` seconds, the logs, then the read-modify-write of `meta.json` |
| `ServerStart`, `TargetQps`, `AutoServerQps`, `EmptyMeta` | `run_performance_server`'s target: `auto_server_qps(read_meta(...))`, `max(0.1, float(arg))`, or 0.5 |
| `ServerRequest`, `NextIssueTime`, `ServerDone` | The rate-limited loop: sleep to `next_issue_time`, generate (single-pass or the two passes of `--extra-metrics`), re-pace; then `write_performance_logs` |
| `SingleStream` | `run_performance_singlestream`: the prompts back to back |
| `Percentile`, `Sorted`, `InsertSorted` | `percentile` over `sorted(values)` (RECURSIVE insertion sort) |
| `PurgeOldRuns`, `TimestampNamed` | `purge_old_runs`: unless `--keep-all`, delete every directory but the new run's whose name matches the timestamp pattern |
| `Report`, `ResultsIndexEntries` | `build_and_write_report` and `update_results_index`, which links every directory but `latest` |
| `MmluRun`, `MmluDir` | `mmlu.py`'s `main` with its default `--results-dir ./results/mmlu`: it makes the `mmlu` directory inside run.py's results directory, then writes its results or dies first |
| `Crash` | The process dying at any step. In `WriteOfflineMeta` it may die after `open(..., "w")` and before `json.dump`. |

**Abstractions.**
- Rates are exact rationals `<<num, den>>`. In a Server loop at target a/b QPS, time is counted in ticks of 1/a s, so the interval is exactly b ticks and a latency of d s is a·d ticks.
- A missing `meta.json`, a malformed one, and a missing key all read as a zero rate. That is exactly how `auto_server_qps`'s `> 0` tests treat them.
- The number of samples is 1..`MaxPrompts` and stands for `choose_total_count`'s result, which is always at least 1.
- Accuracy is its gate outcome. ROUGE, prompts and predictions are left out.
- Arguments the chosen mode or scenario never reads are fixed to one value, for example `--server-target-qps` for Offline.
- `update_latest_symlink` and `config.json` are left out: nothing in the repository reads them.
- Directory names are run ids (integers) plus `MmluDir` (0), the one name that is not a timestamp. `TimestampNamed` is the regex test of `purge_old_runs`.
- An MMLU run is one step: its loading, scoring and plots are left out. What it changes in the model is the `mmlu` directory and whether its results were written.

**Model.** `mlperf_runs` runs three invocations with up to three prompts. It enumerates:
- every mode and valid category/scenario;
- `--keep-all` on and off, gates on and off, `--no-exit-on-accuracy-fail` on and off;
- target QPS `auto`, `0`, `2` and unparsable;
- latencies of 1 s and 3 s;
- Offline generations of 0 or 6 tokens in 0, 1 or 20 s.

An invocation is either run.py or mmlu.py. That is 535k states in 14 s. Together these bounds reach:
- a zero-duration and a zero-token Offline run;
- a derived rate below the 0.05 floor (1 sample in 20 s);
- a rate-limited loop whose requests are both faster and slower than the interval (1 s and 3 s against 0.5 QPS);
- percentiles of one, two and three samples, with integral and fractional ranks;
- a Server run following an Offline run that died while writing `meta.json`;
- purges before and after an MMLU run, with and without `--keep-all`.

## 3. Runs

| Run | Expect | What it shows |
|---|---|---|
| `weigher` | pass | Both hosts start idle. Placement allocates and frees units while each host's usages are read. TLC explores the three requests, both policies and every Placement failure (561k states, about 3 minutes). The properties are `TypeOK` (including that a weight is never negative), `ResultMatchesReference` (each slack, product and sum-fit score equals the specification's definition on what the call read) and `MonotoneAcrossHosts` (a host whose reads dominate another's in free units never weighs less). |
| `server_requests` | pass | Two threads run all three handlers on two pod names and two claims, with the sync job, an outside pod and GPU losses. `PodHasRow`: a dashboard pod that no request is working on has its `servers` row. |
| `requests_return_gpu_loss` | pass | `HandlersReturn`: every request returns, even with Kubernetes calls failing and GPUs vanishing under pods being created. Fairness is on the handlers' progress steps only, so no run is forced to fail. |
| `legend_row_orphaned` | violation | The rollback's `delete_pod` filters on `server_name`, which holds the request name, so a timed-out create leaves its row (finding). |
| `flavors_stuck_gpu_loss` | violation | `FlavorsConverge`: after a mapped GPU leaves DCGM, `sync_flavors_to_db` fails on every later run and `gpu_flavor` never again follows DCGM (finding). |
| `alert_monitoring` | pass | Both modes, every set of met rules at every evaluation, acknowledge and resolve at any time, and failing database cycles handing over to the fallback monitor. `RedisCooldownRespected`: the EnhancedAlertSystem's alerts refine `AlertCooldown`. |
| `alert_fallback_realerts` | violation | `CooldownRespected`: after `max_errors` failing cycles, the fallback monitor re-raises an alert the Redis cooldown still holds back (finding). |
| `cluster_groups` | pass | `CountsMatchList`: a creating or active group's `active_clusters` equals its list's length. `CallsReturn`: every call returns under weak fairness of the orchestrator alone, even if Magnum never finishes. |
| `orphan_cluster` | violation | `create_group` → Magnum still building when the 3600 s wait times out: the cluster is in Magnum and in no group (finding). |
| `cluster_operations` | pass | `ApiCallsReturn`: every REST request returns under weak fairness of the API alone, whatever Magnum and the group manager do. `ScaleMatchesReference`: for every group the manager reaches and every target, `scale_group`'s result matches a declarative reference: even shares summing to the request, larger shares first, only `CREATE_COMPLETE` clusters grown; no cluster below one node, as many nodes removed as asked or possible, and a cluster reduced only once every costlier one is at one node. |
| `cleanup_never_deletes` | violation | `StuckClustersCleaned`: a cleanup request that ends has removed every listed cluster that was stuck. `cleanup_stuck_clusters` raises TypeError instead (finding). |
| `mlperf_runs` | pass | Three invocations in every mode, with any of them dying at any step (535k states, 17 s). `TypeOK`: among other things, the Server target rate is positive, so `1.0 / target_qps` is defined. `AutoQpsFromLastOffline`: an auto Server run uses the rate the docstring derives from the last Offline run whose numbers reached `meta.json` (0.8 · samples / duration, at least 0.05, else 0.5). This holds across purges, crashes and runs of other modes. `IssueSpacing`: two prompts are never issued closer than the interval. `PercentileMatchesReference`: the logged p50/p90/p95/p99 equal a declarative closest-ranks interpolation. |

**Findings of the violation runs.**
- `legend_row_orphaned` (`utils/k8s.py:70`): the rollback deletes the row by `server_name`, which holds the request name, not the pod name.
- `flavors_stuck_gpu_loss` (`featch_gpu.py:131`): the foreign key of `server_gpu_mapping` has no cascade (`models/gpu.py:35`), so deleting the flavor of a vanished GPU fails the commit. `main.py:23-27` then skips the status sync, the only code that would drop the mapping, so every later run fails the same way.
- `alert_fallback_realerts` (`database_integrated_monitor.py:123`): the fallback `AlertSystem` has its own, empty `last_alert_time`. TLC's trace: `high_cpu` alerts in the first cycle, four cycles fail 30 s apart, and the fifth hands over to the fallback, which alerts again two minutes after the first alert, inside its 15-minute cooldown.
- `orphan_cluster` (`cluster_group_orchestrator.py`): a create that times out is neither added to the group nor deleted.
- `cleanup_never_deletes` (`openstack_cluster_crud.py:433`): `cutoff_time` is naive (line 425), `created_at` is aware (line 432), and comparing them raises TypeError. The `except` re-raises it, so the endpoint fails on its first in-progress cluster and never deletes one.

**Findings kept as properties.** Each of these properties is in its module, and TLC finds it violated with the smallest model. No cfg checks them, because of the 12-run budget, so their hazards in `PROJECT.json` carry a note:
- `ServerLifecycle.PodHasRow` with `Faults <- K8sFaults` and one thread: an orphan pod. It is violated in 11 states. The steps are `CreateRequest`, `CreatePvc`, `CreatePvcRecord`, `CreatePod`, `CreateRecord`, then `CreateReadFailed` (the create fails after the pod is committed and its rollback leaves the row). Then `DeleteServerRequest`, `DeleteServerFlush`, `DeleteServerK8s` where `delete_namespaced_pod` raises an `ApiException` that `delete_pod` only logs, and `DeleteServerCommit`. The row is gone and the pod keeps running (`server.py:190-191`, `k8s.py:63-64`). To reproduce it, copy `server_requests.cfg` with `Threads = {t1}`, `Pods = {p1}`, `Pvcs = {v1}` and `Faults <- K8sFaults`.
- `AlertMonitoring.ClusterViewShowsActiveOnly`: `acknowledge_alert` removes an alert from `alerts_active` only, so `get_active_alerts(cluster)` (`enhanced_alert_system.py:311`) and the summary's per-cluster counts (`:369-374`) keep listing it. TLC finds it violated in 4 states under `alert_monitoring.cfg`: one alert, then an acknowledge.
- `AlertMonitoring.RedisCooldownRespected` with `Faults <- RedisFaults`: a failed cooldown lookup makes `redis_get` return None, so `high_cpu` alerts at 0 s and again at 30 s (`connection.py:177`).
- `AcceleratorWeigher.ProductFitUnsatisfiableRanksLast`: under product-fit, a host with an unsatisfiable group (factor 0.0 in a sum) outranks a feasible one, where spec section 4.5 says it scores UNMET.
- `AcceleratorWeigher.RankingNeverAborted`: a connection error on `client.get` (`accelerator.py:97`, `:158`) is not caught, and it ends the ranking of every host.
- `AcceleratorWeigher.WeighedSatisfiableWasSatisfiable`: with `Concurrent = TRUE`, usage GETs interleaved with allocations add up to capacity that never existed at any instant, so a group weighs as satisfiable that never was (a gap in `spec.md`, which assumes a snapshot).
- `ServerLifecycle.PodMountsOwnPvc`: `create_pod` takes an existing PVC by `pvc_id` with no owner check (`server.py:264`).
- `ServerLifecycle.FlavorsConverge` with `WholeGpus = {g1}` and no fault: a GPU without MIG makes `sync_flavors_to_db` insert `mig_id` None into a NOT NULL column every run (`featch_gpu.py:119`). TLC finds it violated in 5 states.
- `MlperfRunner.IndexLinksResolve`: between invocations, every run `index.md` links to has its `report.md`. TLC finds a 4-state violation under `mlperf_runs.cfg` on the default paths: an `mmlu.py` run makes `results/mmlu`, and the next `run.py` invocation that completes writes an `index.md` linking `./mmlu/report.md`, which does not exist (`report.py:199` lists every directory but `latest`). A second, 5-state trace needs no MMLU run:
  1. a run completes and is indexed;
  2. the next invocation purges it;
  3. that invocation fails its accuracy gate and exits 1 (`run.py:904`), or dies, before `update_results_index`.
  The index then links to a deleted directory, and it omits the failed run whose report was written.

**Found while modelling, not kept as runs.** These are listed as hazards in `PROJECT.json`:
- a non-200 usage GET counts allocated units as free;
- `int(amount)` keeps zero amounts;
- `delete_pvc`'s `UnboundLocalError` deletes the claim but not the row;
- `_scale_magnum_cluster` swallows Magnum refusing an update, for example for a cluster still `CREATE_IN_PROGRESS`, yet `_scale_in_group` records the new `node_count`, so the group's totals drift from Magnum's;
- `_scale_out_group` only grows clusters cached as `CREATE_COMPLETE`. After one scale and a refresh, each cluster reads `UPDATE_COMPLETE`, so every later scale-out does nothing and `scale_group` still returns True;
- `delete_virtual_group` drops the group even when a cluster's delete failed.

**Fairness.**
- The weigher has no fairness: only safety is checked of it. Its loop runs over a finite host list, and every step is a bounded HTTP round trip.
- In ServerLifecycle each handler thread has `SF_vars(ProgressStep(t))`. `ProgressStep` is every step of a request except the injected failures. A thread of the pool runs its request to the end, and the IP wait is bounded by its 180 s timeout. Strong fairness is needed because a step waiting on a row lock is enabled and disabled as other requests take and release the lock, and Postgres queues lock waiters, so a waiting request is not passed over forever. Failures get no fairness: they may happen, but need not.
- The sync job has `WF_vars(SyncStep)`, because APScheduler re-runs it every `GPU_FETCH` seconds while the app is up.
- Users and the cluster (pod starts, claim binding) have no fairness. That is why a pod may stay pending and the create may time out.
- In ClusterGroups the orchestrator has `WF_vars(OrchestratorStep)`. ClusterOperations gives the same to the API server (`WF_vars(ApiStep)`), for the same reason: a call blocks the event loop until it returns, and every wait ends at its timeout, whatever Magnum does. Callers, the group manager (run by hand) and Magnum have no fairness.
- AlertMonitoring checks only safety. Its loop is an `asyncio.sleep` cycle with nothing it must eventually reach beyond the next period.
- MlperfRunner has no fairness, and `mlperf_runs` sets `CHECK_DEADLOCK FALSE`. Invocations are started by hand. Any step may be the process's last, and after its last invocation the system really stops.
- `Finished` is the stuttering step of a weigher loop that has ended. The process really stops, and the model says so without turning deadlock checking off. `TimeBoundReached` plays the same part for the monitor at `MaxTime`.

**Mutants.** Each property of a passing run is broken by a plausible bug in the code it is about:

| Mutant | Breaks |
|---|---|
| Sum-fit summing negative slacks | `TypeOK` (weigher) |
| The RP scan without its trait check | `ResultMatchesReference` |
| `_group_product` without its early return | `MonotoneAcrossHosts` |
| `delete_server` looking the flavor up by the mapping row instead of its `gpu_id` | `TypeOK` (`server_requests`, `requests_return_gpu_loss`) |
| `delete_server` deleting the pod named by the row's `server_name` instead of its `pod_name` | `PodHasRow` |
| The IP wait without its timeout | `HandlersReturn` |
| `alert_cooldown_ttl` in minutes instead of seconds | `RedisCooldownRespected` |
| The cooldown key storing its expiry time instead of the time set | `TypeOK` (alerts) |
| `remove_cluster_from_group` not decrementing `active_clusters` | `CountsMatchList` |
| `remove_cluster_from_group` without its "not found in group" check | `TypeOK` |
| `_wait_for_cluster_status` without its timeout | `CallsReturn` |
| `update_cluster`'s wait without its timeout | `ApiCallsReturn` |
| `_scale_out_group` giving the extra node to `i <= remaining` | `ScaleMatchesReference` |
| `_scale_in_group` without the "keep at least 1 node" floor | `TypeOK` |
| A numeric `--server-target-qps` without the 0.1 floor | `TypeOK` (MlperfRunner) |
| The Offline average stored under a key `auto_server_qps` does not read | `AutoQpsFromLastOffline` |
| `next_issue_time = next_issue_time + interval_s`, without `max(..., end_time)` | `IssueSpacing` |
| `percentile` without its `f == c` branch | `PercentileMatchesReference` |

## 4. Plan

Modules in order of importance, each with its MC module and runs:

1. **AcceleratorWeigher**: done.
2. **ServerLifecycle**: done for `create_pod`, `delete_server`, `delete_pvc_endpoint` and the sync job. Still to do:
   - the storage routes (`create_nfs_storage`, `delete_storage_by_name`);
   - an abstract specification of one server's lifecycle (absent → creating → running → absent), refined by this module.
3. **AlertMonitoring**: done, with the refinement to `AlertCooldown`. Still to do: the partial Redis write in `_redis_handler`, and the periodic rule reload from the `alert_rules` table.
4. **ClusterGroups**: done for the orchestrator's calls. **ClusterOperations**: done for the REST API, the CRUD update, delete and cleanup, and the `VirtualClusterGroupManager`. Still to do:
   - an abstract group specification that the orchestrator refines;
   - a run stating that a scale-out reaches its target, which fails on the `CREATE_COMPLETE` filter (needs a run slot).
5. **MlperfRunner**: done for `run.py`'s `main` and the performance scenarios. `mmlu.py` is modelled as one step on its default results directory. Still to do: a run for `IndexLinksResolve` (needs a run slot).
6. **Cyborg discovery** as a pure operator, composed with the weigher's provider tree.

## 5. Not modelled

- Logging, the tracing `stats` dict and `weight_multiplier` (a configuration read).
- nova's weight normalisation, which is not in this repository.
- Authentication, proxies, dashboards and the data_observer file browser. These are request translation or display, with no interleaving or persistent state for a model checker to explore.
- In kcloud-mlperf:
  - `update_latest_symlink` and its fallbacks (nothing reads `latest` or `LATEST_RUN.txt`);
  - `mmlu.py`'s internals (dataset loading, scoring, plots): it is modelled as one step that makes its directory and writes its results;
  - `report.py`'s plots and Markdown, and `util_logs.py`'s parsers, which are formatting;
  - ROUGE scoring, whose only effect is the gate outcome.
- In ServerLifecycle:
  - the read-only routes (`get_servers`, `get_my_servers`, `get_my_pvcs`, `browse_files`);
  - the PV itself, which `delete_pvc` deletes when it has a name: no property depends on it;
  - the module-name mismatch at `main.py:18` (`app.db.fetch_gpu` against the file `featch_gpu.py`), which stops the app at import and is not a behaviour to explore.
- In AlertMonitoring:
  - metric collection, whose values are abstracted to the set of met rules;
  - the Postgres `alerts` table, which the database handler inserts into and acknowledge updates, but no alerting decision reads back;
  - the per-severity set and the alert detail key (like the per-cluster set);
  - the 5-minute rule reload (the rules are fixed);
  - `virtual_cluster_monitoring.py`.
- `kcloud-infra-optimization/src/main.py`: it imports `.magnum_client`, `.cluster_manager`, `.heat_templates`, `.config.settings` and `.models`, none of which is in the repository.
- In ClusterOperations:
  - the read-only endpoints (list, get, templates, kubeconfig, health), `list_virtual_groups` (a refresh per group plus printing) and `save_groups_config` (a JSON dump);
  - `create_test_cluster.py`, a one-shot script making the same `create_cluster` call;
  - the vertical `scaling_type`, which the code accepts and ignores;
  - Magnum's node count (see Abstractions).
- In ClusterGroups:
  - the consolidate, migrate and placement commands, which are stubs;
  - `_migrate_workloads_from_cluster`, which does nothing.
