--------------------------- MODULE AlertCooldown ---------------------------
(***************************************************************************)
(* What an alert rule of kcloud-infra-optimization promises, independent  *)
(* of how it is stored: an AlertRule has a cooldown_minutes, and an alert *)
(* for a (rule, cluster) pair is raised only when at least that many      *)
(* minutes have passed since the previous alert of the same pair.         *)
(*                                                                         *)
(* Time advances in steps of TickSeconds.  Several pairs may fire in the  *)
(* same step (one evaluation of a cluster checks every rule).             *)
(***************************************************************************)
EXTENDS Integers

CONSTANTS
    Rules,        \* alert rule names
    Clusters,     \* cluster names the monitor watches
    Cooldown,     \* [Rules -> Nat]: cooldown_minutes of each rule
    TickSeconds,  \* seconds per step of now
    MaxTime,      \* bound on now
    NoTime        \* "never fired"

VARIABLES now, lastFired

Keys == Rules \X Clusters

\* The cooldown of rule r has passed for cluster c.
Elapsed(k) ==
    \/ lastFired[k] = NoTime
    \/ (now - lastFired[k]) * TickSeconds >= Cooldown[k[1]] * 60

Init ==
    /\ now = 0
    /\ lastFired = [k \in Keys |-> NoTime]

\* The pairs in S raise an alert now.
Fire(S) ==
    /\ S # {}
    /\ \A k \in S : Elapsed(k)
    /\ lastFired' = [k \in Keys |-> IF k \in S THEN now ELSE lastFired[k]]
    /\ UNCHANGED now

Tick ==
    /\ now < MaxTime
    /\ now' = now + 1
    /\ UNCHANGED lastFired

Next == Tick \/ \E S \in SUBSET Keys : Fire(S)

Spec == Init /\ [][Next]_<<now, lastFired>>

=============================================================================
