---------------------------- MODULE Entitlements ----------------------------
(***************************************************************************)
(* internal/entitlements/entitlements.go: what each plan includes.  Pure   *)
(* tables and lookups; an unknown plan reads as the free one (ParsePlan).  *)
(* Catalog is what the plan-catalog endpoint lists.                        *)
(***************************************************************************)
EXTENDS Integers, Sequences

Regions       == {"eu-central", "us-east", "us-west", "sa-east"}
DefaultRegion == "eu-central"

Plans        == {"tier1", "tier2", "tier3", "tierCustom"}
catalogOrder == <<"tier1", "tier2", "tier3", "tierCustom">>

ParsePlan(s)   == IF s \in Plans THEN s ELSE "tier1"
IsKnownPlan(s) == s \in Plans

\* A value per plan, in catalog order.
PerPlan(v) == [p \in Plans |-> v[CHOOSE i \in 1..4 : catalogOrder[i] = p]]

seatCaps            == PerPlan(<<1, 3, 10, 1000000>>)
statusPageCaps      == PerPlan(<<1, 3, 10, 1000>>)
retentionDays       == PerPlan(<<7, 30, 90, 180>>)
customDomainAllowed == PerPlan(<<FALSE, FALSE, TRUE, TRUE>>)
apiAccessAllowed    == PerPlan(<<FALSE, TRUE, TRUE, TRUE>>)
apiWriteAllowed     == PerPlan(<<FALSE, FALSE, TRUE, TRUE>>)
apiRatePerMin       == PerPlan(<<30, 120, 300, 600>>)

HardIntervalFloorSeconds == 30

Limits(cap, min, regions, perMonitor) ==
  [cap |-> cap, min |-> min, regions |-> regions, perMonitor |-> perMonitor]

monitorLimits ==
  PerPlan(<<Limits(10, 900, {DefaultRegion}, 1), Limits(25, 300, {DefaultRegion}, 1),
            Limits(50, 60, Regions, 4), Limits(1000, 30, Regions, 4)>>)

EffectiveIntervalFloor(l) ==
  IF l.min > HardIntervalFloorSeconds THEN l.min ELSE HardIntervalFloorSeconds

AllowsRegion(l, region) == region \in l.regions

freeChannels == {"discord", "smtp", "telegram"}
soloChannels == freeChannels \cup {"slack", "email"}
teamChannels == soloChannels \cup {"webhook", "pagerduty", "opsgenie", "teams"}

channelTypesAllowed ==
  PerPlan(<<freeChannels, soloChannels, teamChannels, teamChannels \cup {"twilio"}>>)

CheckNowLimits(cooldown, max, window) ==
  [cooldown |-> cooldown, max |-> max, window |-> window]

checkNowLimits ==
  PerPlan(<<CheckNowLimits(60, 10, 1800), CheckNowLimits(30, 30, 1800),
            CheckNowLimits(20, 60, 1800), CheckNowLimits(10, 200, 1800)>>)

\* The lookups fall back to the free plan.
SeatCap(plan)             == seatCaps[ParsePlan(plan)]
StatusPageCap(plan)       == statusPageCaps[ParsePlan(plan)]
Retention(plan)           == retentionDays[ParsePlan(plan)]
APIRatePerMin(plan)       == apiRatePerMin[ParsePlan(plan)]
DefaultMonitors(plan)     == monitorLimits[ParsePlan(plan)]
ChannelTypesAllowed(plan) == channelTypesAllowed[ParsePlan(plan)]
CheckNowLimitsFor(plan)   == checkNowLimits[ParsePlan(plan)]
CustomDomainAllowed(plan) == plan \in Plans /\ customDomainAllowed[plan]
APIAccessAllowed(plan)    == plan \in Plans /\ apiAccessAllowed[plan]
APIWriteAllowed(plan)     == plan \in Plans /\ apiWriteAllowed[plan]

\* Mutant: the last seat counts as free when it is taken.
lastSeatFree(used, cap) == used <= cap
HasFreeSeat(used, cap) == used < cap

PlanEntry(p) ==
  [plan |-> p, monitors |-> monitorLimits[p].cap,
   interval |-> EffectiveIntervalFloor(monitorLimits[p]),
   seats |-> seatCaps[p], pages |-> statusPageCaps[p], retention |-> retentionDays[p],
   regions |-> monitorLimits[p].regions, perMonitor |-> monitorLimits[p].perMonitor,
   domain |-> customDomainAllowed[p], api |-> apiAccessAllowed[p],
   write |-> apiWriteAllowed[p], rate |-> apiRatePerMin[p],
   channels |-> channelTypesAllowed[p]]

Catalog == [i \in 1..4 |-> PlanEntry(catalogOrder[i])]
=============================================================================
