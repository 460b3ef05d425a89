-------------------------- MODULE AcceleratorWeigher --------------------------
(***************************************************************************)
(* The nova AcceleratorWeigher (kcloud-nova/nova/scheduler/weights/        *)
(* accelerator.py) weighing the hosts of one scheduling request, while     *)
(* Placement keeps taking and returning allocations on those hosts.        *)
(*                                                                         *)
(* One weigher process calls _weigh_object for each host of HostOrder in   *)
(* turn.  A call is split at its Placement round trips, the points where   *)
(* the environment can interleave: the root lookup (GET                    *)
(* /resource_providers?name=), the provider-tree fetch and one GET         *)
(* /resource_providers/<rp>/usages per non-root provider.  The scoring     *)
(* arithmetic that follows the last round trip is one step, a pure         *)
(* function of what the call has read.                                     *)
(*                                                                         *)
(* Numbers: totals, usages and amounts are small integers, exact in a      *)
(* Python float.  The product-fit value multiplies (slack + EPS) factors;  *)
(* it is kept exactly as a polynomial in EPS (coefficient i of EPS^i), so  *)
(* comparisons are the lexicographic comparison of coefficients, which is  *)
(* the order of the reals for EPS = 1e-6 and slacks of this size.          *)
(***************************************************************************)
EXTENDS Integers, Sequences, FiniteSets, SequencesExt, TLC

CONSTANTS
    Hosts,            \* host names handed to the weigher
    HostOrder,        \* the order of the weighed-host list, a sequence of Hosts
    Root,             \* [Hosts -> root RP uuid] (the compute node RP)
    Children,         \* [Hosts -> Seq(RP)]: non-root RPs in tree order
    Inventory,        \* [Hosts -> [RP -> [RC -> [total, reserved]]]]
    ProviderTraits,   \* [Hosts -> [RP -> SUBSET Trait]]
    RcPatternMatches, \* the resource-class names the rc_pattern regex matches
    RawRequests,      \* possible RequestSpec.requested_resources lists
    Policies,         \* the [accelerator_weigher] policy values configured
    Faults,           \* the Placement failures that may occur
    Concurrent,       \* whether allocations change while a host is weighed
    InitialUsage,     \* the Placement usages the weighing may start from
    Unmet,            \* UNMET_FLOOR, float("-inf")
    BadAmount         \* a requested amount int() rejects

ASSUME Faults \subseteq {"connect_error", "root_non200", "root_empty",
                         "tree_exception", "usage_non200"}
ASSUME Policies \subseteq {"sum-fit", "product-fit"} /\ Policies # {}
ASSUME Concurrent \in BOOLEAN

VARIABLES
    usage,     \* Placement: [Hosts -> [RP -> [RC -> used units]]]
    policy,    \* CONF.accelerator_weigher.policy
    request,   \* weight_properties.requested_resources
    pc,        \* where the weigher is in the current _weigh_object call
    hi,        \* index in HostOrder of the host being weighed
    groups,    \* result of _extract_accel_groups
    ud,        \* usages_dict assembled by _get_provider_tree_and_usages
    ui,        \* index in Children of the next usage GET
    satSeen,   \* ghost: groups satisfiable at some instant of the current call
    result     \* [Hosts -> what _weigh_object returned and what it read]

vars == <<usage, policy, request, pc, hi, groups, ud, ui, satSeen, result>>

CurHost == HostOrder[hi]
ChildSet(h) == Range(Children[h])
TreeUuids(h) == <<Root[h]>> \o Children[h]   \* get_provider_uuids_in_tree
Deg == Cardinality(RcPatternMatches)   \* at most this many factors per group

-----------------------------------------------------------------------------
(* Reals of the form c0 + c1*EPS + c2*EPS^2 + ...                          *)

Num(n) == [i \in 0..Deg |-> IF i = 0 THEN n ELSE 0]
SlackPlusEps(s) == [i \in 0..Deg |-> CASE i = 0 -> s [] i = 1 -> 1 [] OTHER -> 0]
PAdd(p, q) == [i \in 0..Deg |-> p[i] + q[i]]
PMul(p, q) == [i \in 0..Deg |-> SumFunction([j \in 0..i |-> p[j] * q[i - j]])]
PLess(p, q) == \E i \in 0..Deg : p[i] < q[i] /\ \A j \in 0..(i - 1) : p[j] = q[j]
PLeq(p, q) == p = q \/ PLess(p, q)

Neutral == [unmet |-> FALSE, val |-> Num(0)]   \* return 0.0
UnmetScore == [unmet |-> TRUE, val |-> Num(0)]  \* return UNMET_FLOOR

-----------------------------------------------------------------------------
(* Request parsing: _extract_accel_groups.  An amount is an integer or     *)
(* BadAmount; int() keeps an integer as it is and raises on BadAmount.     *)

IsAccelRc(rc) == rc \in RcPatternMatches          \* rc_regex.match(rc)

ExtractAccelGroups(req) ==
    LET accel(g) == [rc \in {r \in DOMAIN g.resources :
                               IsAccelRc(r) /\ g.resources[r] # BadAmount}
                        |-> g.resources[rc]]
        parsed == [i \in 1..Len(req) |->
                      [resources |-> accel(req[i]),
                       required_traits |-> req[i].required_traits]]
    IN SelectSeq(parsed, LAMBDA g : DOMAIN g.resources # {})

-----------------------------------------------------------------------------
(* RC+traits computations over the tree read by the call and the usages   *)
(* dictionary ud it assembled (an RP whose usage GET failed is absent).    *)

\* max(total - reserved - used, 0), used = usages_dict.get(rp, {}).get(rc, 0)
GetFreeForRcFromTree(h, rp, rc, d) ==
    IF rc \notin DOMAIN Inventory[h][rp] THEN 0
    ELSE LET inv == Inventory[h][rp][rc]
             used == IF rp \in DOMAIN d THEN d[rp][rc] ELSE 0
             free == inv.total - inv.reserved - used
         IN IF free > 0 THEN free ELSE 0

\* A plausible bug: the required-traits filter left out of the scan.
SumFreeForRcNoTraitCheck(h, rc, req, d) ==
    LET step(total, rp) ==
          CASE rp = Root[h] -> total
            [] rc \notin DOMAIN Inventory[h][rp] -> total
            [] OTHER -> total + GetFreeForRcFromTree(h, rp, rc, d)
    IN FoldLeft(step, 0, TreeUuids(h))

\* Scan of every RP of the tree, skipping the root, RPs without the RC and
\* RPs missing a required trait, accumulating positive free units.
SumFreeForRcWithTraits(h, rc, req, d) ==
    LET step(total, rp) ==
          CASE rp = Root[h] -> total
            [] rc \notin DOMAIN Inventory[h][rp] -> total
            [] req # {} /\ ~(req \subseteq ProviderTraits[h][rp]) -> total
            [] OTHER -> LET free == GetFreeForRcFromTree(h, rp, rc, d)
                        IN IF free > 0 THEN total + free ELSE total
    IN FoldLeft(step, 0, TreeUuids(h))

\* Sum over the group's RCs of (free_total - amount); UNMET_FLOOR if none.
GroupSlack(h, res, req, d) ==
    IF DOMAIN res = {} THEN Unmet
    ELSE SumFunction([rc \in DOMAIN res |->
                        SumFreeForRcWithTraits(h, rc, req, d) - res[rc]])

\* A plausible bug: the loop without its early return on a negative slack.
GroupProductNoShortCircuit(h, res, req, d) ==
    LET step(prod, rc) ==
          PMul(prod, SlackPlusEps(SumFreeForRcWithTraits(h, rc, req, d) - res[rc]))
    IN FoldLeft(step, Num(1), SetToSeq(DOMAIN res))

\* Product of (slack + EPS) over the group's RCs in dict order, returning
\* 0.0 at the first RC whose slack is negative.
GroupProduct(h, res, req, d) ==
    LET step(acc, rc) ==
          LET slack == SumFreeForRcWithTraits(h, rc, req, d) - res[rc]
          IN CASE acc.returned -> acc
               [] slack < 0 -> [returned |-> TRUE, prod |-> Num(0)]
               [] OTHER -> [returned |-> FALSE,
                            prod |-> PMul(acc.prod, SlackPlusEps(slack))]
    IN FoldLeft(step, [returned |-> FALSE, prod |-> Num(1)],
                SetToSeq(DOMAIN res)).prod

\* `policy in ("sum-fit")` is a substring test on a str; of the two values
\* oslo.config admits only "sum-fit" itself passes it.
PolicyIsSumFit(p) == p = "sum-fit"

\* A plausible bug: summing every group slack, negative ones included.
WeighScoreNoPositiveFilter(slacks, prods, p) ==
    IF \E i \in DOMAIN slacks : slacks[i] = Unmet THEN UnmetScore
    ELSE IF PolicyIsSumFit(p)
         THEN [unmet |-> FALSE, val |-> Num(FoldLeft(+, 0, slacks))]
         ELSE [unmet |-> FALSE, val |-> FoldLeft(PAdd, Num(0), prods)]

\* Host score from the per-group slacks and products of _weigh_object.
WeighScore(slacks, prods, p) ==
    IF \E i \in DOMAIN slacks : slacks[i] = Unmet THEN UnmetScore
    ELSE IF PolicyIsSumFit(p)
         THEN [unmet |-> FALSE,
               val |-> Num(FoldLeft(LAMBDA t, s : IF s > 0 THEN t + s ELSE t,
                                    0, slacks))]
         ELSE [unmet |-> FALSE, val |-> FoldLeft(PAdd, Num(0), prods)]

-----------------------------------------------------------------------------
(* Reference definitions, written from the specification (sections 4.1 to *)
(* 4.4), used only by the properties.                                      *)

RefUsed(rp, rc, d) ==
    IF rp \in DOMAIN d /\ rc \in DOMAIN d[rp] THEN d[rp][rc] ELSE 0

RefFreeUnits(h, rp, rc, d) ==
    Max({Inventory[h][rp][rc].total - Inventory[h][rp][rc].reserved
           - RefUsed(rp, rc, d), 0})

RefTotalFree(h, rc, req, d) ==
    MapThenSumSet(LAMBDA rp : RefFreeUnits(h, rp, rc, d),
                  {rp \in ChildSet(h) : rc \in DOMAIN Inventory[h][rp]
                                        /\ req \subseteq ProviderTraits[h][rp]})

RefSlack(h, g, rc, d) == RefTotalFree(h, rc, g.required_traits, d) - g.resources[rc]

RefGroupSlack(h, g, d) ==
    MapThenSumSet(LAMBDA rc : RefSlack(h, g, rc, d), DOMAIN g.resources)

RefGroupProduct(h, g, d) ==
    IF \E rc \in DOMAIN g.resources : RefSlack(h, g, rc, d) < 0 THEN Num(0)
    ELSE FoldFunction(PMul, Num(1), [rc \in DOMAIN g.resources |->
                                        SlackPlusEps(RefSlack(h, g, rc, d))])

\* sum-fit host score: the positive group slacks summed (section 4.5 step 4)
RefSumFit(h, gs, d) ==
    MapThenSumSet(LAMBDA i : RefGroupSlack(h, gs[i], d),
                  {i \in 1..Len(gs) : RefGroupSlack(h, gs[i], d) > 0})

\* every RC of the group has non-negative slack
Satisfiable(h, g, d) == \A rc \in DOMAIN g.resources : RefSlack(h, g, rc, d) >= 0

SatIn(h, gs, d) == {i \in 1..Len(gs) : Satisfiable(h, gs[i], d)}

-----------------------------------------------------------------------------
(* The weigher process.                                                    *)

NoResult == [kind |-> "none", score |-> Neutral, groups |-> <<>>,
             slacks |-> <<>>, prods |-> <<>>, ud |-> <<>>, sat |-> {}]
NeutralResult == [NoResult EXCEPT !.kind = "neutral"]

RpTotals(h, rp) == {Inventory[h][rp][rc].total : rc \in DOMAIN Inventory[h][rp]}
MaxTotal == Max({0} \cup UNION {UNION {RpTotals(h, rp) : rp \in ChildSet(h)} : h \in Hosts})

\* Placement usages of one RP: any value up to the total, above
\* total - reserved included (reserved raised after the allocations).
RpUsages(h, rp) == {f \in [DOMAIN Inventory[h][rp] -> 0..MaxTotal] :
                      \A rc \in DOMAIN f : f[rc] <= Inventory[h][rp][rc].total}
HostUsages(h) == {f \in [ChildSet(h) -> UNION {RpUsages(h, rp) : rp \in ChildSet(h)}] :
                    \A rp \in ChildSet(h) : f[rp] \in RpUsages(h, rp)}
UsageStates == {u \in [Hosts -> UNION {HostUsages(h) : h \in Hosts}] :
                  \A h \in Hosts : u[h] \in HostUsages(h)}

ASSUME InitialUsage \subseteq UsageStates

Init ==
    /\ usage \in InitialUsage
    /\ policy \in Policies
    /\ request \in RawRequests
    /\ pc = "lookup"
    /\ hi = 1
    /\ groups = <<>>
    /\ ud = <<>>
    /\ ui = 1
    /\ satSeen = {}
    /\ result = [h \in Hosts |-> NoResult]

\* _weigh_object returns r; the weigher loop moves on to the next host.
Returned(r) ==
    /\ result' = [result EXCEPT ![CurHost] = r]
    /\ hi' = hi + 1
    /\ pc' = IF hi = Len(HostOrder) THEN "done" ELSE "lookup"
    /\ ud' = <<>>
    /\ ui' = 1
    /\ satSeen' = {}
    /\ groups' = <<>>

\* The call is between the root lookup and its last usage GET.
InCall(h) == pc \in {"tree", "usage"} /\ CurHost = h

\* client.get on the root lookup raises (connection refused, timeout): the
\* exception is not caught and leaves the weigher loop.
LookupRootConnectError ==
    /\ pc = "lookup"
    /\ "connect_error" \in Faults
    /\ pc' = "aborted"
    /\ UNCHANGED <<usage, policy, request, hi, groups, ud, ui, satSeen, result>>

\* Non-200 answer or an empty resource_providers list: no root, return 0.0.
LookupRootFailed ==
    /\ pc = "lookup"
    /\ Faults \cap {"root_non200", "root_empty"} # {}
    /\ Returned(NeutralResult)
    /\ UNCHANGED <<usage, policy, request>>

\* Root found; the request groups are extracted, and with none the call
\* returns 0.0 before touching the tree.
LookupRootNoGroups ==
    /\ pc = "lookup"
    /\ ExtractAccelGroups(request) = <<>>
    /\ Returned(NeutralResult)
    /\ UNCHANGED <<usage, policy, request>>

LookupRoot ==
    /\ pc = "lookup"
    /\ ExtractAccelGroups(request) # <<>>
    /\ groups' = ExtractAccelGroups(request)
    /\ pc' = "tree"
    /\ satSeen' = SatIn(CurHost, groups', usage[CurHost])
    /\ UNCHANGED <<usage, policy, request, hi, ud, ui, result>>

\* get_provider_tree_and_ensure_root raises: caught, (None, {}), return 0.0.
GetProviderTreeFailed ==
    /\ pc = "tree"
    /\ "tree_exception" \in Faults
    /\ Returned(NeutralResult)
    /\ UNCHANGED <<usage, policy, request>>

GetProviderTree ==
    /\ pc = "tree"
    /\ pc' = "usage"
    /\ UNCHANGED <<usage, policy, request, hi, groups, ud, ui, satSeen, result>>

\* GET /resource_providers/<rp>/usages for the next non-root RP: a 200
\* answer enters usages_dict, any other status leaves the RP out.
FetchUsage ==
    /\ pc = "usage"
    /\ ui <= Len(Children[CurHost])
    /\ LET rp == Children[CurHost][ui]
       IN ud' = (rp :> usage[CurHost][rp]) @@ ud
    /\ ui' = ui + 1
    /\ UNCHANGED <<usage, policy, request, pc, hi, groups, satSeen, result>>

FetchUsageNon200 ==
    /\ pc = "usage"
    /\ ui <= Len(Children[CurHost])
    /\ "usage_non200" \in Faults
    /\ ui' = ui + 1
    /\ UNCHANGED <<usage, policy, request, pc, hi, groups, ud, satSeen, result>>

\* client.get on a usage GET raises: not caught, the weigher loop ends.
UsageConnectError ==
    /\ pc = "usage"
    /\ ui <= Len(Children[CurHost])
    /\ "connect_error" \in Faults
    /\ pc' = "aborted"
    /\ UNCHANGED <<usage, policy, request, hi, groups, ud, ui, satSeen, result>>

\* What _weigh_object returns once every usage GET is done: per-group slack
\* and product over the tree and usages_dict, the unmet check and the
\* policy aggregate, with what the call read.
CallResult(h) ==
    LET slacks == [i \in 1..Len(groups) |->
                     GroupSlack(h, groups[i].resources, groups[i].required_traits, ud)]
        prods == [i \in 1..Len(groups) |->
                     GroupProduct(h, groups[i].resources, groups[i].required_traits, ud)]
    IN [kind |-> "computed", score |-> WeighScore(slacks, prods, policy),
        groups |-> groups, slacks |-> slacks, prods |-> prods, ud |-> ud,
        sat |-> satSeen]

\* The loop over the tree's RPs is done: score and return.
ComputeScore ==
    /\ pc = "usage"
    /\ ui > Len(Children[CurHost])
    /\ Returned(CallResult(CurHost))
    /\ UNCHANGED <<usage, policy, request>>

WeigherStep ==
    \/ LookupRootConnectError \/ LookupRootFailed \/ LookupRootNoGroups
    \/ LookupRoot \/ GetProviderTreeFailed \/ GetProviderTree
    \/ FetchUsage \/ FetchUsageNon200 \/ UsageConnectError \/ ComputeScore

-----------------------------------------------------------------------------
(* Placement, outside the weigher: other schedulers claim and free units.  *)

(* Only the host being read is changed, while its usage loop runs: a      *)
(* change to a host weighed before or after the current call, or during    *)
(* its tree fetch, is indistinguishable, for the weigher, from the usage   *)
(* that host starts its loop with.                                         *)

\* The ghost records which groups of the call in progress are satisfiable
\* against Placement's state right after the change.
Observe(h, u) == satSeen' = satSeen \cup SatIn(h, groups, u[h])

PlacementAllocate ==
    /\ Concurrent
    /\ \E h \in Hosts : InCall(h) /\ pc = "usage" /\ \E rp \in ChildSet(h) : \E rc \in DOMAIN Inventory[h][rp] :
          /\ usage[h][rp][rc] < Inventory[h][rp][rc].total - Inventory[h][rp][rc].reserved
          /\ usage' = [usage EXCEPT ![h][rp][rc] = @ + 1]
          /\ Observe(h, usage')
    /\ UNCHANGED <<policy, request, pc, hi, groups, ud, ui, result>>

PlacementRelease ==
    /\ Concurrent
    /\ \E h \in Hosts : InCall(h) /\ pc = "usage" /\ \E rp \in ChildSet(h) : \E rc \in DOMAIN Inventory[h][rp] :
          /\ usage[h][rp][rc] > 0
          /\ usage' = [usage EXCEPT ![h][rp][rc] = @ - 1]
          /\ Observe(h, usage')
    /\ UNCHANGED <<policy, request, pc, hi, groups, ud, ui, result>>

\* The weigher loop has returned or raised; nothing more happens to it.
Finished ==
    /\ pc \in {"done", "aborted"}
    /\ UNCHANGED vars

Next == WeigherStep \/ PlacementAllocate \/ PlacementRelease \/ Finished

\* Only safety is checked of the weigher: a loop over a finite host list
\* whose every step is a bounded HTTP round trip.
Spec == Init /\ [][Next]_vars

-----------------------------------------------------------------------------
(* Properties.                                                             *)

Poly == [0..Deg -> Int]
NonNegPoly == {p \in Poly : PLeq(Num(0), p)}
Computed(h) == result[h].kind = "computed"

\* Scores as the scheduler orders them: UNMET_FLOOR below every number.
ScoreLeq(a, b) == a.unmet \/ (~b.unmet /\ PLeq(a.val, b.val))
ScoreLess(a, b) == ScoreLeq(a, b) /\ a # b

\* Types, and the weight itself: _weigh_object returns UNMET_FLOOR or a
\* number that is never below 0.0 (sum-fit keeps only positive slacks,
\* products are 0.0 or products of positive factors).
TypeOK ==
    /\ pc \in {"lookup", "tree", "usage", "done", "aborted"}
    /\ hi \in 1..(Len(HostOrder) + 1)
    /\ policy \in Policies
    /\ ui \in 1..(Max({Len(Children[h]) : h \in Hosts}) + 1)
    /\ satSeen \subseteq 1..Len(groups)
    /\ \A h \in Hosts :
         /\ result[h].kind \in {"none", "neutral", "computed"}
         /\ result[h].score.unmet \in BOOLEAN
         /\ result[h].score.val \in NonNegPoly

\* Each computed result is what sections 4.1 to 4.5 define for the data the
\* call read: the group slacks and products of _group_slack/_group_product
\* over usages_dict, and under sum-fit the host score of _weigh_object.
ResultMatchesReference ==
    \A h \in Hosts : Computed(h) =>
        LET r == result[h] IN
        /\ \A i \in DOMAIN r.groups :
              /\ r.slacks[i] = RefGroupSlack(h, r.groups[i], r.ud)
              /\ r.prods[i] = RefGroupProduct(h, r.groups[i], r.ud)
        /\ PolicyIsSumFit(policy) =>
              r.score = [unmet |-> FALSE, val |-> Num(RefSumFit(h, r.groups, r.ud))]

\* h2's tree offers at least the free units of h1's, RP by RP and RC by RC,
\* as each call read them.
Dominates(h1, d1, h2, d2) ==
    /\ Children[h1] = Children[h2]
    /\ \A rp \in ChildSet(h1) :
         /\ ProviderTraits[h1][rp] = ProviderTraits[h2][rp]
         /\ DOMAIN Inventory[h1][rp] = DOMAIN Inventory[h2][rp]
         /\ \A rc \in DOMAIN Inventory[h1][rp] :
              RefFreeUnits(h1, rp, rc, d1) <= RefFreeUnits(h2, rp, rc, d2)

\* Section 8 monotonicity at the host level: of two hosts weighed for the
\* same request, the one whose reads show more free units everywhere never
\* gets the lower weight, under either policy.
MonotoneAcrossHosts ==
    \A h1, h2 \in Hosts :
        (Computed(h1) /\ Computed(h2)
         /\ Dominates(h1, result[h1].ud, h2, result[h2].ud))
        => ScoreLeq(result[h1].score, result[h2].score)

\* Section 4.5 step 3 and section 6: under product-fit a host with an
\* unsatisfiable group (group_product 0) scores UNMET, so it ranks below
\* every host whose groups are all satisfiable.
ProductFitUnsatisfiableRanksLast ==
    \A h1, h2 \in Hosts :
        (/\ Computed(h1) /\ Computed(h2) /\ ~PolicyIsSumFit(policy)
         /\ \E i \in DOMAIN result[h1].prods : result[h1].prods[i] = Num(0)
         /\ \A i \in DOMAIN result[h2].prods : result[h2].prods[i] # Num(0))
        => ScoreLess(result[h1].score, result[h2].score)

\* Section 3/6: the score is computed from a snapshot of the host.  A group
\* the call weighs as satisfiable (non-zero group_product) was satisfiable
\* in Placement at some instant of the call.
WeighedSatisfiableWasSatisfiable ==
    \A h \in Hosts : Computed(h) =>
        \A i \in DOMAIN result[h].prods :
            result[h].prods[i] # Num(0) => i \in result[h].sat

\* Section 7: weighing one host never aborts the ranking of the others.
RankingNeverAborted == pc # "aborted"

=============================================================================
