-------------------------- MODULE AlertMonitoring --------------------------
(***************************************************************************)
(* The alerting path of kcloud-infra-optimization's monitor               *)
(* (monitoring/database_integrated_monitor.py): a loop that, every        *)
(* update_interval, evaluates every alert rule against the metrics of     *)
(* every watched cluster.                                                  *)
(*                                                                         *)
(*  - "database" mode (initialize() reached Postgres and Redis): the      *)
(*    EnhancedAlertSystem keeps the cooldown of a (rule, cluster) pair as *)
(*    a Redis key with a TTL, and its handlers index each alert in Redis. *)
(*  - "fallback" mode (database initialisation raised): the               *)
(*    IntegratedMonitor's in-memory AlertSystem keeps last_alert_time.    *)
(*  - in database mode, a cycle whose summary raises counts an error; the *)
(*    cycle that makes error_count reach max_errors, and every failing    *)
(*    cycle after it until one succeeds, run the fallback monitor too.    *)
(*                                                                         *)
(* Metrics are abstracted to the set of rules whose condition they meet;  *)
(* messages, severities and formatting are left out.  Time counts loop    *)
(* periods of TickSeconds.                                                 *)
(***************************************************************************)
EXTENDS Integers, Sequences, FiniteSets

CONSTANTS
    Rules,          \* alert rule names (the default rules or the alert_rules table)
    Clusters,       \* cluster names passed to the monitor
    ClusterOrder,   \* the cluster_names list, in order
    Cooldown,       \* [Rules -> Nat]: cooldown_minutes of each rule
    TickSeconds,    \* update_interval of the loop, in seconds
    MaxTime,        \* bound on now
    MaxErrors,      \* DatabaseIntegratedMonitor.max_errors
    Faults,         \* subset of {"redis_error", "cycle_error"}
    NoTime          \* datetime.min: "no alert yet" / "no cooldown key"

ASSUME ClusterOrder \in Seq(Clusters)

VARIABLES
    now,            \* loop periods since start
    mode,           \* "database" or "fallback", fixed by initialize()
    errorCount,     \* error_count, saturated at MaxErrors (only >= is read)
    via,            \* the alert system the current cycle uses
    pc,             \* "ready" | "cycle" | "sleep": where run_continuous_monitoring is
    pending,        \* clusters of this cycle not yet evaluated
    cdKey,          \* Redis kcloud:alerts:cooldown:<rule>:<cluster>: time SET, or NoTime
    activeZ,        \* Redis sorted set alerts_active (alert ids)
    byCluster,      \* Redis sets alerts_by_cluster(<cluster>)
    lastAlertTime,  \* AlertSystem.last_alert_time (fallback mode)
    baseActive,     \* AlertSystem.active_alerts (fallback mode)
    notified,       \* time of the last alert of each pair handed to the handlers
    notifiedEnh     \* the same, counting only alerts of the EnhancedAlertSystem

vars == <<now, mode, errorCount, via, pc, pending, cdKey, activeZ, byCluster,
          lastAlertTime, baseActive, notified, notifiedEnh>>

Keys == Rules \X Clusters

\* An alert is identified by its rule, cluster and trigger time.
AlertIds == Rules \X Clusters \X (0..MaxTime)

BaseAlert == [id : AlertIds, resolved : BOOLEAN]

-----------------------------------------------------------------------------
(* Redis cooldown keys                                                     *)

\* Mutant: the TTL given in minutes where Redis expects seconds.
AlertCooldownTtlMinutes(r) == Cooldown[r] + 10

\* RedisExpirePolicy.alert_cooldown_ttl: cooldown_minutes * 60 + 10 seconds.
AlertCooldownTtl(r) == Cooldown[r] * 60 + 10

\* The cooldown key of k exists: it was SET and its TTL has not run out.
KeyLive(k) ==
    /\ cdKey[k] # NoTime
    /\ (now - cdKey[k]) * TickSeconds < AlertCooldownTtl(k[1])

\* Whether a Redis command succeeds: always, unless fault "redis_error" is
\* modelled, when a command may raise (connection lost, timeout).
RedisOutcomes == IF "redis_error" \in Faults THEN BOOLEAN ELSE {TRUE}

\* db_manager.redis_get(cooldown_key) is not None.  redis_get returns its
\* default (None) when the Redis call raises.
InCooldown(k, redisUp) == redisUp /\ KeyLive(k)

\* AlertSystem.evaluate_conditions: the cooldown has passed since
\* last_alert_time (datetime.min when the pair never fired).
BaseCooldownOver(k) ==
    \/ lastAlertTime[k] = NoTime
    \/ (now - lastAlertTime[k]) * TickSeconds >= Cooldown[k[1]] * 60

-----------------------------------------------------------------------------
Init ==
    /\ now = 0
    /\ mode \in {"database", "fallback"}
    /\ errorCount = 0
    /\ via = mode
    /\ pc = "ready"
    /\ pending = <<>>
    /\ cdKey = [k \in Keys |-> NoTime]
    /\ activeZ = {}
    /\ byCluster = [c \in Clusters |-> {}]
    /\ lastAlertTime = [k \in Keys |-> NoTime]
    /\ baseActive = {}
    /\ notified = [k \in Keys |-> NoTime]
    /\ notifiedEnh = [k \in Keys |-> NoTime]

\* run_continuous_monitoring: one pass of monitor_clusters_enhanced over
\* cluster_names (database mode collects all metrics first with
\* asyncio.gather, fallback mode collects each cluster before evaluating it).
\* Without a db_manager the pass goes to _monitor_clusters_fallback.
StartCycle ==
    /\ pc = "ready"
    /\ pc' = "cycle"
    /\ via' = mode
    /\ pending' = ClusterOrder
    /\ UNCHANGED <<now, mode, errorCount, cdKey, activeZ, byCluster,
                   lastAlertTime, baseActive, notified, notifiedEnh>>

\* EnhancedAlertSystem._evaluate_alert_conditions for cluster c: the rules
\* of Met (the enabled rules whose condition the metrics meet) whose
\* cooldown key is not found.
\* f with the pairs of cluster c and the rules in Fired stamped now.
Stamped(f, c, Fired) ==
    [k \in Keys |-> IF k[2] = c /\ k[1] \in Fired THEN now ELSE f[k]]

EnhancedFired(c, Met, redisUp) == {r \in Met : ~InCooldown(<<r, c>>, redisUp)}

\* Mutant: the cooldown key stores the time it expires instead of the
\* time it was set.
CooldownKeysSetExpiry(c, Fired, redisUp) ==
    [k \in Keys |->
       IF k[2] = c /\ k[1] \in Fired /\ Cooldown[k[1]] > 0 /\ redisUp
       THEN now + AlertCooldownTtl(k[1]) \div TickSeconds ELSE cdKey[k]]

\* The cooldown keys after _evaluate_alert_conditions: a fired rule with
\* cooldown_minutes > 0 SETs its key to the current time (redis_set
\* returns False, and sets nothing, when Redis fails).
CooldownKeysSet(c, Fired, redisUp) ==
    [k \in Keys |->
       IF k[2] = c /\ k[1] \in Fired /\ Cooldown[k[1]] > 0 /\ redisUp
       THEN now ELSE cdKey[k]]

\* EnhancedAlertSystem._redis_handler: ZADD each alert to alerts_active and
\* SADD it to its cluster's set; the exception is swallowed when Redis fails.
RedisIndexed(c, Ids, redisUp) ==
    /\ activeZ' = IF redisUp THEN activeZ \cup Ids ELSE activeZ
    /\ byCluster' = IF redisUp THEN [byCluster EXCEPT ![c] = @ \cup Ids]
                               ELSE byCluster

\* monitor_clusters_enhanced: process_metrics_alerts for the next cluster,
\* whose metrics meet the conditions of the rules in Met.  The fired alerts
\* go through the console, Redis and database handlers in turn.  redisUp:
\* whether the Redis commands of this call succeed.
EvaluateEnhanced(Met, redisUp) ==
    LET c     == Head(pending)
        Fired == EnhancedFired(c, Met, redisUp)
        Ids   == {<<r, c, now>> : r \in Fired}
    IN
    /\ pc = "cycle"
    /\ pending # <<>>
    /\ via = "database"
    /\ pending' = Tail(pending)
    /\ cdKey' = CooldownKeysSet(c, Fired, redisUp)
    /\ RedisIndexed(c, Ids, redisUp)
    /\ notified' = Stamped(notified, c, Fired)
    /\ notifiedEnh' = Stamped(notifiedEnh, c, Fired)
    /\ UNCHANGED <<now, mode, errorCount, via, pc, lastAlertTime, baseActive>>

\* AlertSystem.evaluate_conditions for cluster c: the rules of Met whose
\* cooldown has passed since last_alert_time.
BaseFired(c, Met) == {r \in Met : BaseCooldownOver(<<r, c>>)}

\* AlertSystem.cleanup_resolved_alerts: alerts older than 24 hours are
\* marked resolved, then every resolved alert is dropped.
CleanupResolved(S) ==
    LET Aged(a) == (now - a.id[3]) * TickSeconds > 24 * 3600
    IN {a \in S : ~a.resolved /\ ~Aged(a)}

\* IntegratedMonitor.monitor_clusters -> AlertSystem.process_metrics for the
\* next cluster: evaluate_conditions fires and stamps last_alert_time, the
\* alerts join active_alerts and go to the handlers, and
\* cleanup_resolved_alerts runs.
EvaluateFallback(Met) ==
    LET c     == Head(pending)
        Fired == BaseFired(c, Met)
        New   == {[id |-> <<r, c, now>>, resolved |-> FALSE] : r \in Fired}
    IN
    /\ pc = "cycle"
    /\ pending # <<>>
    /\ via = "fallback"
    /\ pending' = Tail(pending)
    /\ lastAlertTime' = Stamped(lastAlertTime, c, Fired)
    /\ baseActive' = CleanupResolved(baseActive \cup New)
    /\ notified' = Stamped(notified, c, Fired)
    /\ UNCHANGED <<now, mode, errorCount, via, pc, cdKey, activeZ, byCluster, notifiedEnh>>

\* The cycle's summary and dashboard cache are written and the loop sleeps
\* update_interval seconds; a database pass resets error_count.
EndCycle ==
    /\ pc = "cycle"
    /\ pending = <<>>
    /\ pc' = "sleep"
    /\ errorCount' = IF via = "database" THEN 0 ELSE errorCount
    /\ UNCHANGED <<now, mode, via, pending, cdKey, activeZ, byCluster,
                   lastAlertTime, baseActive, notified, notifiedEnh>>

\* Every statement of a database pass before the summary catches its own
\* exceptions, so a pass can only fail after its alerts were processed:
\* in _generate_enhanced_summary or _generate_smart_recommendations.  The
\* except clause counts the error; below max_errors it answers an error
\* summary, from there on the same cycle runs _monitor_clusters_fallback
\* over cluster_names, with the fallback monitor's own AlertSystem.
CycleFails ==
    /\ "cycle_error" \in Faults
    /\ pc = "cycle"
    /\ pending = <<>>
    /\ via = "database"
    /\ errorCount' = IF errorCount < MaxErrors THEN errorCount + 1 ELSE MaxErrors
    /\ IF errorCount' >= MaxErrors
       THEN via' = "fallback" /\ pending' = ClusterOrder /\ UNCHANGED pc
       ELSE pc' = "sleep" /\ UNCHANGED <<via, pending>>
    /\ UNCHANGED <<now, mode, cdKey, activeZ, byCluster,
                   lastAlertTime, baseActive, notified, notifiedEnh>>

\* asyncio.sleep(update_interval) elapses.
Tick ==
    /\ pc = "sleep"
    /\ now < MaxTime
    /\ now' = now + 1
    /\ pc' = "ready"
    /\ UNCHANGED <<mode, errorCount, via, pending, cdKey, activeZ, byCluster,
                   lastAlertTime, baseActive, notified, notifiedEnh>>

-----------------------------------------------------------------------------
(* Operator calls                                                          *)

\* EnhancedAlertSystem.acknowledge_alert: ZREM the id from alerts_active
\* (returns False when Redis raises); the per-cluster set keeps it.
AcknowledgeEnhanced(id) ==
    /\ mode = "database"
    /\ id \in activeZ
    /\ activeZ' = activeZ \ {id}
    /\ UNCHANGED <<now, mode, errorCount, via, pc, pending, cdKey, byCluster,
                   lastAlertTime, baseActive, notified, notifiedEnh>>

\* AlertSystem.resolve_alert: flag the first active alert with that id;
\* cleanup_resolved_alerts drops it at the next process_metrics.
\* (acknowledge_alert only sets a flag nothing reads back, so it is not
\* an action of the model.)
ResolveBase(a) ==
    /\ a \in baseActive
    /\ ~a.resolved
    /\ baseActive' = (baseActive \ {a}) \cup {[a EXCEPT !.resolved = TRUE]}
    /\ UNCHANGED <<now, mode, errorCount, via, pc, pending, cdKey, activeZ, byCluster,
                   lastAlertTime, notified, notifiedEnh>>

\* The run has reached the time bound: nothing more is explored.
TimeBoundReached ==
    /\ pc = "sleep"
    /\ now = MaxTime
    /\ UNCHANGED vars

Next ==
    \/ StartCycle
    \/ \E Met \in SUBSET Rules :
          \/ \E up \in RedisOutcomes : EvaluateEnhanced(Met, up)
          \/ EvaluateFallback(Met)
    \/ EndCycle
    \/ CycleFails
    \/ Tick
    \/ \E id \in activeZ : AcknowledgeEnhanced(id)
    \/ \E a \in baseActive : ResolveBase(a)
    \/ TimeBoundReached

Spec == Init /\ [][Next]_vars

-----------------------------------------------------------------------------
(* Properties                                                              *)

TypeOK ==
    /\ now \in 0..MaxTime
    /\ mode \in {"database", "fallback"}
    /\ errorCount \in 0..MaxErrors
    /\ via \in {"database", "fallback"}
    /\ pc \in {"ready", "cycle", "sleep"}
    /\ pending \in Seq(Clusters)
    /\ cdKey \in [Keys -> (0..MaxTime) \cup {NoTime}]
    /\ activeZ \subseteq AlertIds
    /\ byCluster \in [Clusters -> SUBSET AlertIds]
    /\ lastAlertTime \in [Keys -> (0..MaxTime) \cup {NoTime}]
    /\ baseActive \subseteq BaseAlert
    /\ notified \in [Keys -> (0..MaxTime) \cup {NoTime}]
    /\ notifiedEnh \in [Keys -> (0..MaxTime) \cup {NoTime}]

Cooldowns == INSTANCE AlertCooldown WITH lastFired <- notified

RedisCooldowns == INSTANCE AlertCooldown WITH lastFired <- notifiedEnh

\* get_active_alerts(cluster_name) and get_alert_summary's by_cluster
\* counts read alerts_by_cluster: what they list for a cluster is meant to
\* be its active alerts, so an acknowledged alert leaves that set too.
ClusterViewShowsActiveOnly == \A c \in Clusters : byCluster[c] \subseteq activeZ

\* The EnhancedAlertSystem implements AlertCooldown with its Redis keys: a
\* key SET at the alert with alert_cooldown_ttl seconds keeps the (rule,
\* cluster) pair quiet for cooldown_minutes, across cycles, error cycles
\* and cycles handed to the fallback monitor, as long as Redis answers.
RedisCooldownRespected == RedisCooldowns!Spec

\* The monitor as a whole implements AlertCooldown: whichever alert system
\* a cycle uses (Redis keys, or the fallback monitor's last_alert_time), no
\* (rule, cluster) pair is alerted again before cooldown_minutes have
\* passed since its previous alert.
CooldownRespected == Cooldowns!Spec

=============================================================================
