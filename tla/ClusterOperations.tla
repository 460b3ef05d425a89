------------------------- MODULE ClusterOperations -------------------------
(***************************************************************************)
(* Two clients of one OpenStack Magnum, in kcloud-infra-optimization:      *)
(*  - the cluster REST API (cluster_api.py), whose endpoints call the      *)
(*    blocking OpenStackClusterCRUD (openstack_cluster_crud.py): create,   *)
(*    batch create, update/resize, delete and the stuck-cluster cleanup;   *)
(*  - the VirtualClusterGroupManager (virtual_cluster_group_manager.py),   *)
(*    a separate process that creates, scales, refreshes and deletes       *)
(*    groups of Magnum clusters without waiting for Magnum.                *)
(*                                                                         *)
(* The API's endpoints are async def but block the event loop in          *)
(* _wait_for_cluster_status, so one request runs at a time (api).  The    *)
(* manager's methods make no waits; each is one step.  Magnum moves its   *)
(* clusters on its own.  Time passes in steps of the cleanup's `hours`:   *)
(* held means the cluster has been in its current status for longer than  *)
(* `hours`.  created_at is not kept: Magnum returns it with an offset      *)
(* (+00:00), and the only code that reads it fails on it.  Names,          *)
(* templates, labels and health are left out; a cluster's hourly_cost is  *)
(* kept as the node count it was created with (one template, so the       *)
(* per-node base cost is a common factor).  Magnum's own node_count is    *)
(* written by updates but read by nothing modelled (get_group_status      *)
(* re-reads only the status), so it is left out of Magnum's record.       *)
(***************************************************************************)
EXTENDS Integers, Sequences, SequencesExt, Functions, FiniteSets

CONSTANTS
    ClusterIds,    \* cluster ids Magnum may assign
    VGroups,       \* virtual group names
    MaxNodes,      \* largest node_count of a create or update request
    MaxBatch,      \* largest number of clusters in a batch create
    MaxSpecs,      \* largest number of cluster specs of a group_config
    MaxTotal,      \* largest target_total_nodes of a scale_group policy
    Faults,        \* subset of {"magnum_error"}
    NoCluster

VARIABLES
    magnum,        \* Magnum's record of each cluster id
    api,           \* the REST request in progress
    vg             \* VirtualClusterGroupManager.virtual_groups

vars == <<magnum, api, vg>>

Status == {"none", "CREATE_IN_PROGRESS", "CREATE_COMPLETE", "CREATE_FAILED",
           "UPDATE_IN_PROGRESS", "UPDATE_COMPLETE", "UPDATE_FAILED",
           "DELETE_IN_PROGRESS", "DELETE_FAILED", "gone"}

\* cleanup_stuck_clusters' stuck_statuses.
InProgress == {"CREATE_IN_PROGRESS", "DELETE_IN_PROGRESS", "UPDATE_IN_PROGRESS"}

\* Magnum accepts a node_count update only for a cluster in a COMPLETE state.
Updatable == {"CREATE_COMPLETE", "UPDATE_COMPLETE"}

Nodes == 1..MaxTotal

\* A group's cluster_info.  Its 'status' is read only as == 'CREATE_COMPLETE'
\* (_scale_out_group, list_virtual_groups), so it is kept as that test.
ClusterInfo == [id : ClusterIds, nodes : Nodes, cost : Nodes, complete : BOOLEAN]

Idle == [kind |-> "none", adds |-> 0, todo |-> {}, force |-> FALSE,
         wait |-> "none", cur |-> NoCluster]

NoVGroup == [exists |-> FALSE, clusters |-> <<>>]

Fresh == {c \in ClusterIds : magnum[c].st = "none"}

\* get_cluster / clusters.get finds the cluster (no ResourceNotFound).
Found(c) == magnum[c].st \notin {"none", "gone"}

\* Magnum moves cluster c to status s; the status is new, so not yet held.
SetStatus(m, c, s) == [m EXCEPT ![c].st = s, ![c].held = FALSE]

\* The clusters of S whose Magnum call raises, in a step that calls Magnum
\* once for each.
Failures(S) == IF "magnum_error" \in Faults THEN SUBSET S ELSE {{}}

-----------------------------------------------------------------------------
Init ==
    /\ magnum = [c \in ClusterIds |-> [st |-> "none", held |-> FALSE]]
    /\ api = Idle
    /\ vg = [g \in VGroups |-> NoVGroup]

(* REST requests.  Each starts only when no other request is running.      *)

\* POST /api/v1/clusters (n = 1) and POST /api/v1/batch/clusters: one
\* crud.create_cluster per request, errors collected.
ApiCreate(n) ==
    /\ api.kind = "none"
    /\ api' = [Idle EXCEPT !.kind = "create", !.adds = n]
    /\ UNCHANGED <<magnum, vg>>

\* PATCH /api/v1/clusters/{id} and POST .../resize -> update_cluster: the
\* patch is sent and Magnum starts updating.  (A cluster that is not found,
\* or that Magnum refuses to update, fails the request with no change.)
ApiUpdate(c) ==
    /\ api.kind = "none"
    /\ Found(c)
    /\ magnum[c].st \in Updatable
    /\ magnum' = SetStatus(magnum, c, "UPDATE_IN_PROGRESS")
    /\ api' = [Idle EXCEPT !.kind = "update", !.wait = "update", !.cur = c]
    /\ UNCHANGED vg

\* DELETE /api/v1/clusters/{id}?force=...
ApiDelete(c, force) ==
    /\ api.kind = "none"
    /\ api' = [Idle EXCEPT !.kind = "delete", !.todo = {c}, !.force = force]
    /\ UNCHANGED <<magnum, vg>>

\* The clusters of cleanup_stuck_clusters' single list_clusters snapshot
\* that pass its status test (the others are skipped with continue).
StuckStatusListed ==
    {c \in ClusterIds : Found(c) /\ magnum[c].st \in InProgress}

\* POST /api/v1/maintenance/cleanup -> cleanup_stuck_clusters(hours): the
\* cutoff datetime.now() - timedelta(hours) is taken and the clusters are
\* listed.
ApiCleanup ==
    /\ api.kind = "none"
    /\ api' = [Idle EXCEPT !.kind = "cleanup", !.todo = StuckStatusListed]
    /\ UNCHANGED <<magnum, vg>>

\* The age test of the first listed cluster in a stuck status: created_at
\* (set by Magnum, never 'None') parses with fromisoformat to an aware
\* datetime, and comparing it with the naive cutoff raises TypeError.  The
\* except clause re-raises it and the request fails before any delete.
CleanupAgeTestRaises ==
    /\ api.kind = "cleanup"
    /\ api.todo # {}
    /\ api' = Idle
    /\ UNCHANGED <<magnum, vg>>

-----------------------------------------------------------------------------
(* create_cluster                                                          *)

\* conn.container_infra.create_cluster: Magnum accepts the cluster, and
\* _wait_for_cluster_status polls it for CREATE_COMPLETE.
CreateStart ==
    /\ api.kind = "create"
    /\ api.wait = "none"
    /\ api.adds > 0
    /\ \E c \in Fresh :
          /\ magnum' = [magnum EXCEPT ![c] = [st |-> "CREATE_IN_PROGRESS",
                                              held |-> FALSE]]
          /\ api' = [api EXCEPT !.wait = "create", !.cur = c]
    /\ UNCHANGED vg

\* The Magnum create call raises: the error is collected, the loop goes on.
CreateRejected ==
    /\ "magnum_error" \in Faults
    /\ api.kind = "create"
    /\ api.wait = "none"
    /\ api.adds > 0
    /\ api' = [api EXCEPT !.adds = @ - 1]
    /\ UNCHANGED <<magnum, vg>>

\* The wait sees CREATE_COMPLETE.
Created ==
    /\ api.wait = "create"
    /\ magnum[api.cur].st = "CREATE_COMPLETE"
    /\ api' = [api EXCEPT !.adds = @ - 1, !.wait = "none", !.cur = NoCluster]
    /\ UNCHANGED <<magnum, vg>>

\* The wait raises: a FAILED status, ResourceNotFound, or the 3600 s
\* timeout while the cluster is in any other status.  The Magnum cluster is
\* left as it is.
CreateFailed ==
    /\ api.wait = "create"
    /\ magnum[api.cur].st # "CREATE_COMPLETE"
    /\ api' = [api EXCEPT !.adds = @ - 1, !.wait = "none", !.cur = NoCluster]
    /\ UNCHANGED <<magnum, vg>>

-----------------------------------------------------------------------------
(* update_cluster's wait for ["UPDATE_COMPLETE", "CREATE_COMPLETE"]        *)

UpdateDone ==
    /\ api.wait = "update"
    /\ magnum[api.cur].st \in {"UPDATE_COMPLETE", "CREATE_COMPLETE"}
    /\ api' = Idle
    /\ UNCHANGED <<magnum, vg>>

\* Mutant: _wait_for_cluster_status without its timeout.
UpdateFailedNoTimeout ==
    /\ api.wait = "update"
    /\ magnum[api.cur].st \in {"UPDATE_FAILED", "gone"}
    /\ api' = Idle
    /\ UNCHANGED <<magnum, vg>>

\* The wait raises: UPDATE_FAILED, ResourceNotFound, or the 1800 s timeout.
UpdateFailed ==
    /\ api.wait = "update"
    /\ magnum[api.cur].st \notin {"UPDATE_COMPLETE", "CREATE_COMPLETE"}
    /\ api' = Idle
    /\ UNCHANGED <<magnum, vg>>

-----------------------------------------------------------------------------
(* delete_cluster(cluster_id, force) of DELETE /api/v1/clusters/{id}       *)

\* delete_cluster returned (True or False): the request has nothing left.
\* It raised (only without force): the request fails.
DeleteReturns(c, raised) ==
    api' = IF raised THEN Idle
           ELSE [api EXCEPT !.todo = @ \ {c}, !.wait = "none", !.cur = NoCluster]

\* get_cluster then conn.container_infra.delete_cluster: Magnum starts
\* deleting.  Or get_cluster raises ResourceNotFound and delete_cluster
\* returns force.
DeleteStart ==
    /\ api.kind = "delete"
    /\ api.wait = "none"
    /\ \E c \in api.todo :
          IF Found(c)
          THEN /\ magnum' = SetStatus(magnum, c, "DELETE_IN_PROGRESS")
               /\ api' = [api EXCEPT !.wait = "delete", !.cur = c]
          ELSE /\ DeleteReturns(c, FALSE)
               /\ UNCHANGED magnum
    /\ UNCHANGED vg

\* The Magnum delete call raises: True under force, else re-raised.
DeleteRejected ==
    /\ "magnum_error" \in Faults
    /\ api.kind = "delete"
    /\ api.wait = "none"
    /\ \E c \in api.todo :
          /\ Found(c)
          /\ DeleteReturns(c, ~api.force)
    /\ UNCHANGED <<magnum, vg>>

\* The wait gets ResourceNotFound: "DELETED" is a target status, True.
ClusterDeleted ==
    /\ api.wait = "delete"
    /\ magnum[api.cur].st = "gone"
    /\ DeleteReturns(api.cur, FALSE)
    /\ UNCHANGED <<magnum, vg>>

\* The wait raises: DELETE_FAILED, or the 1800 s timeout while Magnum is in
\* any other status.  Under force delete_cluster "marks it as deleted" and
\* returns True; otherwise it re-raises.
ClusterDeleteFailed ==
    /\ api.wait = "delete"
    /\ magnum[api.cur].st # "gone"
    /\ DeleteReturns(api.cur, ~api.force)
    /\ UNCHANGED <<magnum, vg>>

\* Every create of a (batch) create, or the cluster of a delete, was
\* handled, or a cleanup listed no cluster in a stuck status (it returns
\* []): the request returns.
RequestDone ==
    /\ api.kind \in {"create", "delete", "cleanup"}
    /\ api.wait = "none"
    /\ api.adds = 0
    /\ api.todo = {}
    /\ api' = Idle
    /\ UNCHANGED <<magnum, vg>>

-----------------------------------------------------------------------------
(* Magnum, on its own, and the clock                                       *)

\* An operation in progress completes; a deleted cluster is gone.
MagnumProgress(c) ==
    LET next == [CREATE_IN_PROGRESS |-> "CREATE_COMPLETE",
                 UPDATE_IN_PROGRESS |-> "UPDATE_COMPLETE",
                 DELETE_IN_PROGRESS |-> "gone"]
    IN /\ magnum[c].st \in InProgress
       /\ magnum' = SetStatus(magnum, c, next[magnum[c].st])
       /\ UNCHANGED <<api, vg>>

\* An operation in progress fails.
MagnumFails(c) ==
    LET next == [CREATE_IN_PROGRESS |-> "CREATE_FAILED",
                 UPDATE_IN_PROGRESS |-> "UPDATE_FAILED",
                 DELETE_IN_PROGRESS |-> "DELETE_FAILED"]
    IN /\ "magnum_error" \in Faults
       /\ magnum[c].st \in InProgress
       /\ magnum' = SetStatus(magnum, c, next[magnum[c].st])
       /\ UNCHANGED <<api, vg>>

\* `hours` pass: the time since every existing cluster's last status
\* change falls behind the cleanup's cutoff.
HoursPass ==
    /\ api.kind # "cleanup"   \* listing and age test run back to back
    /\ \E c \in ClusterIds : Found(c) /\ ~magnum[c].held
    /\ magnum' = [c \in ClusterIds |->
                    IF Found(c) THEN [magnum[c] EXCEPT !.held = TRUE]
                    ELSE magnum[c]]
    /\ UNCHANGED <<api, vg>>

-----------------------------------------------------------------------------
(* VirtualClusterGroupManager                                              *)

\* The group configurations create_group_with_clusters may be given: the
\* node_count of each cluster spec.
Specs == UNION {[1..k -> 1..MaxNodes] : k \in 0..MaxSpecs}

\* create_group_with_clusters(group_name, group_config): nothing if the
\* name exists; otherwise the group is registered and each spec's
\* magnum.clusters.create is sent without waiting.  A create that raises
\* is skipped; an accepted one is added to the group, its status CREATE_IN_PROGRESS,
\* with the spec's node_count and its hourly_cost.
VCreateGroup(g, specs) ==
    /\ ~vg[g].exists
    /\ \E ids \in Injection(DOMAIN specs, Fresh) : \E failed \in Failures(Range(ids)) :
          LET Info(i) == [id |-> ids[i], nodes |-> specs[i], cost |-> specs[i],
                          complete |-> FALSE]
              Sent == {i \in DOMAIN specs : ids[i] \notin failed}
          IN /\ magnum' = [c \in ClusterIds |->
                             IF \E i \in Sent : ids[i] = c
                             THEN [st |-> "CREATE_IN_PROGRESS", held |-> FALSE]
                             ELSE magnum[c]]
             /\ vg' = [vg EXCEPT ![g] =
                         [exists |-> TRUE,
                          clusters |-> SelectSeq([i \in DOMAIN specs |-> Info(i)],
                                                 LAMBDA r : r.id \notin failed)]]
    /\ UNCHANGED api

\* get_group_status(group_name): each cluster's status is re-read with
\* magnum.clusters.get; when that raises (not found, or an error) the old
\* status is kept.  node_count is not re-read.
VRefresh(g) ==
    LET cl == vg[g].clusters IN
    /\ vg[g].exists
    /\ \E failed \in Failures({cl[i].id : i \in DOMAIN cl}) :
          vg' = [vg EXCEPT ![g].clusters =
                   [i \in DOMAIN cl |->
                      IF Found(cl[i].id) /\ cl[i].id \notin failed
                      THEN [cl[i] EXCEPT !.complete = (magnum[cl[i].id].st = "CREATE_COMPLETE")]
                      ELSE cl[i]]]
    /\ UNCHANGED <<magnum, api>>

Total(cl) == SumFunction([i \in DOMAIN cl |-> cl[i].nodes])

\* _scale_out_group considers only the clusters recorded as CREATE_COMPLETE.
Eligible(cl) == {i \in DOMAIN cl : cl[i].complete}

\* Position of eligible cluster i in enumerate(clusters).
Rank(E, i) == Cardinality({e \in E : e < i})

\* Mutant: the remainder goes to one cluster too many.
ScaleOutShareLe(add, k, r) == add \div k + (IF r <= add % k THEN 1 ELSE 0)

\* The nodes the r-th of k eligible clusters gets: add // k, plus one for
\* the first add % k of them.
ScaleOutShare(add, k, r) == add \div k + (IF r < add % k THEN 1 ELSE 0)

\* _scale_out_group(group, add): every eligible cluster's node_count grows by
\* its share; none eligible, nothing changes.
ScaleOutNodes(cl, add) ==
    LET E == Eligible(cl) IN
    [i \in DOMAIN cl |->
       IF i \in E
       THEN [cl[i] EXCEPT !.nodes = @ + ScaleOutShare(add, Cardinality(E), Rank(E, i))]
       ELSE cl[i]]

\* sorted(group.clusters, key=hourly_cost / max(node_count, 1), reverse=True):
\* Python's sort is stable, so equal keys keep list order.
ScaleInOrder(cl) ==
    LET Before(i, j) ==
            \/ cl[i].cost * cl[j].nodes > cl[j].cost * cl[i].nodes
            \/ cl[i].cost * cl[j].nodes = cl[j].cost * cl[i].nodes /\ i < j
    IN SetToSortSeq(DOMAIN cl, Before)

\* Mutant: the "keep at least 1 node" floor is dropped.
ScaleInStepNoFloor(n, remaining) == IF n > 0 THEN Min({remaining, n}) ELSE 0

\* How many nodes _scale_in_group takes from a cluster of n nodes.
ScaleInStep(n, remaining) == IF n > 1 THEN Min({remaining, n - 1}) ELSE 0

\* _scale_in_group's loop over the sorted clusters.
RECURSIVE ScaleInLoop(_, _, _)
ScaleInLoop(cl, ord, remaining) ==
    IF ord = <<>> \/ remaining <= 0 THEN cl
    ELSE LET i == Head(ord)
             r == ScaleInStep(cl[i].nodes, remaining)
         IN ScaleInLoop([cl EXCEPT ![i].nodes = @ - r], Tail(ord), remaining - r)

\* scale_group's horizontal branch: the recorded clusters after scaling
\* towards target_total_nodes t.
ScaleResult(cl, t) ==
    LET cur == Total(cl) IN
    CASE t > cur /\ Eligible(cl) # {} -> ScaleOutNodes(cl, t - cur)
      [] t < cur                      -> ScaleInLoop(cl, ScaleInOrder(cl), cur - t)
      [] OTHER                        -> cl

\* scale_group(group_name, {'type': 'horizontal', 'target_total_nodes': t}):
\* every cluster whose count changes gets _scale_magnum_cluster, whose get
\* and update errors are printed and swallowed; Magnum takes the update only
\* for a cluster in a COMPLETE state.  The new count is recorded either way.
VScale(g, t) ==
    LET cl == vg[g].clusters
        new == ScaleResult(cl, t)
        Called == {i \in DOMAIN cl : new[i].nodes # cl[i].nodes}
    IN /\ vg[g].exists
       /\ \E failed \in Failures({cl[i].id : i \in Called}) :
            LET Taken == {i \in Called : cl[i].id \notin failed
                                         /\ magnum[cl[i].id].st \in Updatable}
            IN magnum' = [c \in ClusterIds |->
                            IF \E i \in Taken : cl[i].id = c
                            THEN SetStatus(magnum, c, "UPDATE_IN_PROGRESS")[c]
                            ELSE magnum[c]]
       /\ vg' = [vg EXCEPT ![g].clusters = new]
       /\ UNCHANGED api

\* delete_virtual_group(group_name, delete_clusters): each cluster's get and
\* delete are tried, errors swallowed; the group is dropped in any case.
VDelete(g, deleteClusters) ==
    LET Ids == {vg[g].clusters[i].id : i \in DOMAIN vg[g].clusters} IN
    /\ vg[g].exists
    /\ \E failed \in Failures(IF deleteClusters THEN Ids ELSE {}) :
          magnum' = [c \in ClusterIds |->
                       IF deleteClusters /\ c \in Ids \ failed /\ Found(c)
                       THEN SetStatus(magnum, c, "DELETE_IN_PROGRESS")[c]
                       ELSE magnum[c]]
    /\ vg' = [vg EXCEPT ![g] = NoVGroup]
    /\ UNCHANGED api

-----------------------------------------------------------------------------
Request ==
    \/ \E n \in 1..MaxBatch : ApiCreate(n)
    \/ \E c \in ClusterIds : ApiUpdate(c)
    \/ \E c \in ClusterIds, force \in BOOLEAN : ApiDelete(c, force)
    \/ ApiCleanup

ApiStep ==
    \/ CreateStart \/ CreateRejected \/ Created \/ CreateFailed
    \/ UpdateDone \/ UpdateFailed \/ CleanupAgeTestRaises
    \/ DeleteStart \/ DeleteRejected \/ ClusterDeleted \/ ClusterDeleteFailed
    \/ RequestDone

Manager ==
    \E g \in VGroups :
        \/ \E specs \in Specs : VCreateGroup(g, specs)
        \/ VRefresh(g)
        \/ \E t \in 0..MaxTotal : VScale(g, t)
        \/ \E d \in BOOLEAN : VDelete(g, d)

Magnum ==
    \/ \E c \in ClusterIds : MagnumProgress(c) \/ MagnumFails(c)
    \/ HoursPass

Next == Request \/ ApiStep \/ Manager \/ Magnum

\* The API server keeps serving the request it has started; clients, the
\* group manager's caller and Magnum are not assumed to make progress.
Spec == Init /\ [][Next]_vars /\ WF_vars(ApiStep)

-----------------------------------------------------------------------------
(* Properties                                                              *)

TypeOK ==
    /\ magnum \in [ClusterIds -> [st : Status, held : BOOLEAN]]
    /\ api.kind \in {"none", "create", "update", "delete", "cleanup"}
    /\ api.adds \in 0..MaxBatch
    /\ api.todo \subseteq ClusterIds
    /\ api.wait \in {"none", "create", "update", "delete"}
    /\ api.cur \in ClusterIds \cup {NoCluster}
    /\ \A g \in VGroups : vg[g].clusters \in Seq(ClusterInfo)

\* Every REST request returns, whatever Magnum does: a create, update or
\* delete that Magnum never finishes ends at _wait_for_cluster_status's
\* timeout, and a batch create or a cleanup loops over finitely many
\* clusters.
ApiCallsReturn == api.kind # "none" ~> api.kind = "none"

\* The reference for scale-out: only clusters recorded CREATE_COMPLETE
\* grow, their increments add up to the requested nodes, and the shares
\* are as even as possible, larger ones first.
RefScaleOut(cl, new, add) ==
    LET E == Eligible(cl)
        d == [i \in DOMAIN cl |-> new[i].nodes - cl[i].nodes]
    IN /\ \A i \in DOMAIN cl \ E : d[i] = 0
       /\ SumFunctionOnSet(d, E) = add
       /\ \A i, j \in E : i < j => d[i] - d[j] \in {0, 1}

\* The reference for scale-in: no cluster goes below one node, as many
\* nodes as asked (or as can be) are removed, and a cluster loses nodes only
\* if every cluster with a higher hourly cost per node (or an equal one,
\* earlier in the list) is already down to one node.
RefScaleIn(cl, new, reduce) ==
    LET d == [i \in DOMAIN cl |-> cl[i].nodes - new[i].nodes]
        Costlier(i, j) ==
            \/ cl[i].cost * cl[j].nodes > cl[j].cost * cl[i].nodes
            \/ cl[i].cost * cl[j].nodes = cl[j].cost * cl[i].nodes /\ i < j
    IN /\ \A i \in DOMAIN cl : d[i] >= 0 /\ new[i].nodes >= 1
       /\ SumFunction(d) = Min({reduce, Total(cl) - Len(cl)})
       /\ \A i, j \in DOMAIN cl : Costlier(i, j) /\ d[j] > 0 => new[i].nodes = 1

\* For every group the manager holds and every target a scale_group call may
\* ask for, the even split of _scale_out_group and the cost-ordered greedy
\* of _scale_in_group produce what the references describe, and change
\* nothing but node counts.
ScaleMatchesReference ==
    \A g \in VGroups, t \in 0..MaxTotal :
        LET cl == vg[g].clusters
            new == ScaleResult(cl, t)
        IN vg[g].exists =>
             /\ DOMAIN new = DOMAIN cl
             /\ \A i \in DOMAIN cl : new[i] = [cl[i] EXCEPT !.nodes = new[i].nodes]
             /\ CASE t > Total(cl) /\ Eligible(cl) # {} -> RefScaleOut(cl, new, t - Total(cl))
                  [] t < Total(cl) -> RefScaleIn(cl, new, Total(cl) - t)
                  [] OTHER -> new = cl

\* cleanup_stuck_clusters is there to force-delete the clusters stuck in
\* CREATE/UPDATE/DELETE_IN_PROGRESS for longer than `hours` (it logs
\* "Cleaning up stuck cluster" and returns the deleted ids): a cleanup
\* request never returns leaving a cluster of its listing that is still
\* stuck that long and was never handed to delete_cluster.
StuckClustersCleaned ==
    [][api.kind = "cleanup" /\ api'.kind = "none"
         => \A c \in api.todo : ~(magnum[c].st \in InProgress /\ magnum[c].held)]_vars

====
