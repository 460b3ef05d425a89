--------------------------- MODULE ClusterGroups ---------------------------
(***************************************************************************)
(* kcloud-infra-optimization's ClusterGroupOrchestrator                   *)
(* (cluster_group_orchestrator.py) on top of OpenStackClusterCRUD         *)
(* (openstack_cluster_crud.py) and OpenStack Magnum.                      *)
(*                                                                         *)
(* The orchestrator's coroutines contain no await that suspends: every    *)
(* CRUD call blocks the event loop in _wait_for_cluster_status.  So one   *)
(* orchestrator call runs at a time (op), while Magnum moves its clusters *)
(* on its own; the waits are steps that observe Magnum.  Group ids and    *)
(* cluster ids are model values; names, labels, templates and node counts *)
(* are left out (total_nodes is updated exactly where active_clusters is). *)
(***************************************************************************)
EXTENDS Integers, Sequences, SequencesExt

CONSTANTS
    Groups,        \* group ids create_group may generate
    ClusterIds,    \* cluster ids Magnum may assign
    MinClusters,   \* largest ClusterGroupConfig.min_clusters requested
    MaxTarget,     \* largest target_clusters of a scale_group command
    Faults,        \* subset of {"magnum_error"}
    NoCluster

VARIABLES
    magnum,        \* Magnum's status of each cluster id
    groups,        \* ClusterGroupOrchestrator.groups
    op             \* the orchestrator call in progress

vars == <<magnum, groups, op>>

MagnumStatus == {"none", "CREATE_IN_PROGRESS", "CREATE_COMPLETE", "CREATE_FAILED",
                 "DELETE_IN_PROGRESS", "DELETE_FAILED", "gone"}

GroupStatus == {"absent", "creating", "active", "deleting", "error"}

GroupInfo == [status : GroupStatus, clusters : Seq(ClusterIds), active : Int]

OpKinds == {"none", "create", "add", "remove", "delete", "scale"}

NoGroup == [status |-> "absent", clusters |-> <<>>, active |-> 0]

Idle == [kind |-> "none", g |-> CHOOSE g \in Groups : TRUE, adds |-> 0,
         todo |-> <<>>, force |-> FALSE, wait |-> "none", cur |-> NoCluster]

Fresh == {c \in ClusterIds : magnum[c] = "none"}

Exists(g) == groups[g].status # "absent"

Listed(g) == ToSet(groups[g].clusters)

-----------------------------------------------------------------------------
Init ==
    /\ magnum = [c \in ClusterIds |-> "none"]
    /\ groups = [g \in Groups |-> NoGroup]
    /\ op = Idle

(* Calls.  Each starts only when no other call is running.                 *)

\* create_group: register the group as creating; _ensure_min_clusters then
\* calls add_cluster_to_group min_clusters times.
CreateGroup(g, min) ==
    /\ op.kind = "none"
    /\ ~Exists(g)
    /\ Cardinality(Fresh) >= min
    /\ groups' = [groups EXCEPT ![g] = [NoGroup EXCEPT !.status = "creating"]]
    /\ op' = [Idle EXCEPT !.kind = "create", !.g = g, !.adds = min]
    /\ UNCHANGED magnum

\* delete_group(group_id, force): mark deleting, then delete every listed
\* cluster in turn.
DeleteGroup(g, force) ==
    /\ op.kind = "none"
    /\ Exists(g)
    /\ groups' = [groups EXCEPT ![g].status = "deleting"]
    /\ op' = [Idle EXCEPT !.kind = "delete", !.g = g, !.todo = groups[g].clusters,
                          !.force = force]
    /\ UNCHANGED magnum

\* add_cluster_to_group(group_id, cluster_config).
AddCluster(g) ==
    /\ op.kind = "none"
    /\ Exists(g)
    /\ Fresh # {}
    /\ op' = [Idle EXCEPT !.kind = "add", !.g = g, !.adds = 1]
    /\ UNCHANGED <<magnum, groups>>

\* Mutant: the "cluster not found in group" check is dropped.
RemoveClusterUnchecked(g, c) ==
    /\ op.kind = "none"
    /\ Exists(g)
    /\ op' = [Idle EXCEPT !.kind = "remove", !.g = g, !.todo = <<c>>]
    /\ UNCHANGED <<magnum, groups>>

\* remove_cluster_from_group(group_id, cluster_id) for a listed cluster.
RemoveCluster(g, c) ==
    /\ op.kind = "none"
    /\ Exists(g)
    /\ c \in Listed(g)
    /\ op' = [Idle EXCEPT !.kind = "remove", !.g = g, !.todo = <<c>>]
    /\ UNCHANGED <<magnum, groups>>

\* execute_optimization_command({'type': 'scale_group', ...}):
\* _handle_scale_group_command adds target - current clusters, or removes
\* clusters[target:] one by one with remove_cluster_from_group.
ScaleGroup(g, target) ==
    LET n == Len(groups[g].clusters) IN
    /\ op.kind = "none"
    /\ Exists(g)
    /\ target # n
    /\ target > n => Cardinality(Fresh) >= target - n
    /\ op' = IF target > n
             THEN [Idle EXCEPT !.kind = "scale", !.g = g, !.adds = target - n]
             ELSE [Idle EXCEPT !.kind = "scale", !.g = g,
                                !.todo = SubSeq(groups[g].clusters, target + 1, n)]
    /\ UNCHANGED <<magnum, groups>>

-----------------------------------------------------------------------------
(* add_cluster_to_group -> OpenStackClusterCRUD.create_cluster             *)

\* conn.container_infra.create_cluster: Magnum accepts the cluster, and
\* _wait_for_cluster_status starts polling it.
CreateClusterStart ==
    /\ op.kind \in {"create", "add", "scale"}
    /\ op.wait = "none"
    /\ op.adds > 0
    /\ \E c \in Fresh :
          /\ magnum' = [magnum EXCEPT ![c] = "CREATE_IN_PROGRESS"]
          /\ op' = [op EXCEPT !.wait = "create", !.cur = c]
    /\ UNCHANGED groups

\* The Magnum create call raises (quota, bad template): add_cluster_to_group
\* logs it and returns False.
CreateClusterRejected ==
    /\ "magnum_error" \in Faults
    /\ op.kind \in {"create", "add", "scale"}
    /\ op.wait = "none"
    /\ op.adds > 0
    /\ op' = [op EXCEPT !.adds = @ - 1]
    /\ UNCHANGED <<magnum, groups>>

\* The wait sees CREATE_COMPLETE: the cluster is appended to the group and
\* active_clusters / total_nodes grow.
ClusterCreated ==
    /\ op.wait = "create"
    /\ magnum[op.cur] = "CREATE_COMPLETE"
    /\ groups' = [groups EXCEPT ![op.g].clusters = Append(@, op.cur),
                                ![op.g].active = @ + 1]
    /\ op' = [op EXCEPT !.adds = @ - 1, !.wait = "none", !.cur = NoCluster]
    /\ UNCHANGED magnum

\* Mutant: _wait_for_cluster_status without its timeout.
ClusterCreateFailedNoTimeout ==
    /\ op.wait = "create"
    /\ magnum[op.cur] = "CREATE_FAILED"
    /\ op' = [op EXCEPT !.adds = @ - 1, !.wait = "none", !.cur = NoCluster]
    /\ UNCHANGED <<magnum, groups>>

\* The wait raises: the status contains FAILED, or the 3600 s timeout
\* passes while Magnum is still creating.  create_cluster re-raises and
\* add_cluster_to_group returns False; the Magnum cluster is left as it is.
ClusterCreateFailed ==
    /\ op.wait = "create"
    /\ magnum[op.cur] \in {"CREATE_FAILED", "CREATE_IN_PROGRESS"}
    /\ op' = [op EXCEPT !.adds = @ - 1, !.wait = "none", !.cur = NoCluster]
    /\ UNCHANGED <<magnum, groups>>

\* All adds (and a scale-in's removals) are done: create_group sets the
\* group active; the other calls return.
AddsDone ==
    /\ op.kind \in {"create", "add", "scale"}
    /\ op.wait = "none"
    /\ op.adds = 0
    /\ op.todo = <<>>
    /\ groups' = IF op.kind = "create"
                 THEN [groups EXCEPT ![op.g].status = "active"]
                 ELSE groups
    /\ op' = Idle
    /\ UNCHANGED magnum

-----------------------------------------------------------------------------
(* delete_group / remove_cluster_from_group -> OpenStackClusterCRUD.       *)
(* delete_cluster(cluster_id, force)                                       *)

\* Mutant: the counters are not decremented.
UnlistKeepCount(g, c) == [groups EXCEPT ![g].clusters = RemoveFirst(@, c)]

\* remove_cluster_from_group after delete_cluster returned True: the
\* cluster leaves group.clusters, active_clusters and total_nodes shrink.
Unlist(g, c) == [groups EXCEPT ![g].clusters = RemoveFirst(@, c), ![g].active = @ - 1]

\* The call's handling of delete_cluster's result for the head of todo:
\* "true", "false", or "raise" (delete_cluster re-raised).
\*  - delete_group: True drops the cluster from the list (the counters are
\*    not touched); False keeps it; a raise ends the loop and the group is
\*    left in status error.
\*  - remove_cluster_from_group (also scale-in): True drops the cluster and
\*    decrements active_clusters / total_nodes; False and a raise (caught
\*    there) return False.
DeleteOutcome(res) ==
    LET c == Head(op.todo)
        g == op.g
    IN
    IF op.kind = "delete"
    THEN CASE res = "true"  -> /\ groups' = [groups EXCEPT ![g].clusters = RemoveFirst(@, c)]
                               /\ op' = [op EXCEPT !.todo = Tail(@), !.wait = "none",
                                                   !.cur = NoCluster]
           [] res = "false" -> /\ groups' = groups
                               /\ op' = [op EXCEPT !.todo = Tail(@), !.wait = "none",
                                                   !.cur = NoCluster]
           [] res = "raise" -> /\ groups' = [groups EXCEPT ![g].status = "error"]
                               /\ op' = Idle
    ELSE /\ groups' = IF res = "true" THEN Unlist(g, c) ELSE groups
         /\ op' = [op EXCEPT !.todo = Tail(@), !.wait = "none", !.cur = NoCluster]

\* get_cluster and conn.container_infra.delete_cluster: Magnum starts
\* deleting; or get_cluster raises ResourceNotFound and delete_cluster
\* returns force.
DeleteClusterStart ==
    LET c == Head(op.todo) IN
    /\ op.kind \in {"remove", "delete", "scale"}
    /\ op.wait = "none"
    /\ op.adds = 0
    /\ op.todo # <<>>
    /\ IF magnum[c] = "gone"
       THEN /\ DeleteOutcome(IF op.force THEN "true" ELSE "false")
            /\ UNCHANGED magnum
       ELSE /\ magnum' = [magnum EXCEPT ![c] = "DELETE_IN_PROGRESS"]
            /\ op' = [op EXCEPT !.wait = "delete", !.cur = c]
            /\ UNCHANGED groups

\* The Magnum delete call raises: delete_cluster returns True under force,
\* else re-raises.
DeleteClusterRejected ==
    /\ "magnum_error" \in Faults
    /\ op.kind \in {"remove", "delete", "scale"}
    /\ op.wait = "none"
    /\ op.adds = 0
    /\ op.todo # <<>>
    /\ magnum[Head(op.todo)] # "gone"
    /\ DeleteOutcome(IF op.force THEN "true" ELSE "raise")
    /\ UNCHANGED magnum

\* The wait gets ResourceNotFound: the cluster is deleted, True.
ClusterDeleted ==
    /\ op.wait = "delete"
    /\ magnum[op.cur] = "gone"
    /\ DeleteOutcome("true")
    /\ UNCHANGED magnum

\* The wait raises: DELETE_FAILED, or the 1800 s timeout while Magnum is
\* still deleting.  Under force delete_cluster "marks it as deleted" and
\* returns True; otherwise it re-raises.
ClusterDeleteFailed ==
    /\ op.wait = "delete"
    /\ magnum[op.cur] \in {"DELETE_FAILED", "DELETE_IN_PROGRESS"}
    /\ DeleteOutcome(IF op.force THEN "true" ELSE "raise")
    /\ UNCHANGED magnum

\* Every cluster was handled: delete_group removes the group from
\* self.groups; remove_cluster_from_group returns.  (Scale-in ends in
\* AddsDone, with no adds left.)
DeletesDone ==
    /\ op.kind \in {"remove", "delete"}
    /\ op.wait = "none"
    /\ op.todo = <<>>
    /\ groups' = IF op.kind = "delete" THEN [groups EXCEPT ![op.g] = NoGroup]
                 ELSE groups
    /\ op' = Idle
    /\ UNCHANGED magnum

-----------------------------------------------------------------------------
(* Magnum, on its own                                                      *)

MagnumCreateComplete(c) ==
    /\ magnum[c] = "CREATE_IN_PROGRESS"
    /\ magnum' = [magnum EXCEPT ![c] = "CREATE_COMPLETE"]
    /\ UNCHANGED <<groups, op>>

MagnumDeleteComplete(c) ==
    /\ magnum[c] = "DELETE_IN_PROGRESS"
    /\ magnum' = [magnum EXCEPT ![c] = "gone"]
    /\ UNCHANGED <<groups, op>>

MagnumFails(c) ==
    /\ "magnum_error" \in Faults
    /\ magnum[c] \in {"CREATE_IN_PROGRESS", "DELETE_IN_PROGRESS"}
    /\ magnum' = [magnum EXCEPT ![c] = IF @ = "CREATE_IN_PROGRESS"
                                       THEN "CREATE_FAILED" ELSE "DELETE_FAILED"]
    /\ UNCHANGED <<groups, op>>

-----------------------------------------------------------------------------
Call ==
    \/ \E g \in Groups, min \in 0..MinClusters : CreateGroup(g, min)
    \/ \E g \in Groups, force \in BOOLEAN : DeleteGroup(g, force)
    \/ \E g \in Groups : AddCluster(g)
    \/ \E g \in Groups, c \in ClusterIds : RemoveCluster(g, c)
    \/ \E g \in Groups, t \in 0..MaxTarget : ScaleGroup(g, t)

OrchestratorStep ==
    \/ CreateClusterStart \/ CreateClusterRejected
    \/ ClusterCreated \/ ClusterCreateFailed \/ AddsDone
    \/ DeleteClusterStart \/ DeleteClusterRejected
    \/ ClusterDeleted \/ ClusterDeleteFailed \/ DeletesDone

Magnum ==
    \E c \in ClusterIds :
        MagnumCreateComplete(c) \/ MagnumDeleteComplete(c) \/ MagnumFails(c)

Next == Call \/ OrchestratorStep \/ Magnum

\* The orchestrator keeps running its call; neither callers nor Magnum are
\* assumed to make progress.
Spec == Init /\ [][Next]_vars /\ WF_vars(OrchestratorStep)

-----------------------------------------------------------------------------
(* Properties                                                              *)

TypeOK ==
    /\ magnum \in [ClusterIds -> MagnumStatus]
    /\ \A g \in Groups :
          /\ groups[g].status \in GroupStatus
          /\ groups[g].clusters \in Seq(ClusterIds)
          /\ groups[g].active \in Nat
    /\ op.kind \in OpKinds
    /\ op.wait \in {"none", "create", "delete"}
    /\ op.cur \in ClusterIds \cup {NoCluster}

\* A creating or active group's active_clusters counts exactly the clusters
\* in its list, across any sequence of add, remove and scale calls whose
\* Magnum operations complete, fail or time out.  (delete_group does not
\* touch the counters while it deletes, and a failed delete_group leaves the
\* group in status error with counters that no longer match.)
CountsMatchList ==
    \A g \in Groups :
        groups[g].status \in {"creating", "active"}
            => groups[g].active = Len(groups[g].clusters)

\* Every orchestrator call returns, even when Magnum never finishes a
\* create or delete: _wait_for_cluster_status gives up after its timeout.
CallsReturn == op.kind # "none" ~> op.kind = "none"

\* Every cluster Magnum holds (in any state but deleted) is in the list of
\* some group, or is the one the running call is waiting on: the
\* orchestrator never loses track of a cluster it created.
NoOrphanCluster ==
    \A c \in ClusterIds :
        magnum[c] \notin {"none", "gone"}
            => \/ \E g \in Groups : c \in Listed(g)
               \/ c = op.cur

====
