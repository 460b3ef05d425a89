------------------------ MODULE MCAlertMonitoring ------------------------
(* Model-checking instance of AlertMonitoring: two rules, one with the     *)
(* one-minute cooldown of a warning rule and one with cooldown 0 like      *)
(* cluster_creation_failed, two clusters, the 30 s update_interval.        *)
EXTENDS AlertMonitoring

MCRules == {"high_cpu", "creation_failed"}

MCClusters == {"c1"}

MCClusterOrder == <<"c1">>

MCCooldown == [r \in MCRules |-> IF r = "high_cpu" THEN 1 ELSE 0]

NoFaults == {}

RedisFaults == {"redis_error"}

\* cooldown_minutes of the default high_cpu rule (15) and of
\* cluster_creation_failed (0).
MCCooldownDefault == [r \in MCRules |-> IF r = "high_cpu" THEN 15 ELSE 0]

CycleFaults == {"cycle_error"}

MCNoTime == -1

=============================================================================
