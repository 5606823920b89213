------------------------------ MODULE Placement ------------------------------
(***************************************************************************)
(* The static side of citrun's scheduler: the jobs of a run with the       *)
(* resources each one needs, the regional CPU budgets of citrun.yaml, and  *)
(* the pure questions the code asks about them (cmd/citrun/placement.go    *)
(* and the budget helpers of cmd/citrun/scheduler.go).                     *)
(*                                                                         *)
(* A region is a natural number: the position of its name in string order, *)
(* which is all that sort.Strings in pickZone and eligibleRegions uses.    *)
(***************************************************************************)
EXTENDS Integers, Sequences, FiniteSets

CONSTANTS
  Jobs,           \* job IDs
  Order,          \* RunState.Order: the sequence of job IDs admit scans
  Quarantined,    \* jobs with a non-empty Quarantined reason
  Zones,          \* zone names
  Regions,        \* regions, numbered in string order
  zoneRegion,     \* zone -> region
  Keys,           \* budget keys ("CPUS" and the family keys)
  CPUS,           \* the key every job is charged to
  Defined,        \* region -> keys its budget row defines
  Limit,          \* region -> key -> configured limit (0 when not defined)
  SafetyNum,      \* SafetyFactor is SafetyNum / SafetyDen
  SafetyDen,
  JobZones,       \* job -> its zone list, in configuration order
  CPUCost,        \* job -> CPUs it occupies
  BudgetKey,      \* job -> its family key
  Networks,       \* job -> networks it creates
  Subnets,        \* job -> subnetworks it creates
  Shape,          \* job -> machine shape
  MaxParallel,    \* job -> cap on running jobs of its shape (0: none)
  ContainerCap,   \* jobs that may run at once
  NetworksBudget, \* cfg.Budgets.Networks
  SubnetsBudget   \* cfg.Budgets.Subnetworks

ASSUME JobsAssumption ==
  /\ IsFiniteSet(Jobs)
  /\ Order \in Seq(Jobs)
  /\ Quarantined \subseteq Jobs
  /\ CPUCost \in [Jobs -> Nat]
  /\ Networks \in [Jobs -> Nat]
  /\ Subnets \in [Jobs -> Nat]
  /\ BudgetKey \in [Jobs -> Keys]
  /\ MaxParallel \in [Jobs -> Nat]

\* add in ExpandJobs rejects a duplicate job ID, and NewRunState appends every ID once
ASSUME OrderAssumption ==
  /\ \A j \in Jobs : \E i \in DOMAIN Order : Order[i] = j
  /\ \A i, k \in DOMAIN Order : Order[i] = Order[k] => i = k

\* Config.Validate: every zone of a zone set lies in a region that has a budget
ASSUME BudgetAssumption ==
  /\ Regions \subseteq Nat
  /\ zoneRegion \in [Zones -> Regions]
  /\ JobZones \in [Jobs -> Seq(Zones)]
  /\ CPUS \in Keys
  /\ Defined \in [Regions -> SUBSET Keys]
  /\ Limit \in [Regions -> [Keys -> Nat]]
  /\ ContainerCap \in Nat
  /\ NetworksBudget \in Nat
  /\ SubnetsBudget \in Nat

\* Config.Validate: safety_factor must be in (0,1]
ASSUME SafetyAssumption ==
  /\ SafetyDen \in Nat \ {0}
  /\ SafetyNum \in 1..SafetyDen

-----------------------------------------------------------------------------

Shapes == {Shape[j] : j \in Jobs}

NoZone == "no zone"

ZonesOf(j) == {JobZones[j][i] : i \in DOMAIN JobZones[j]}

\* eligibleRegions: the regions reachable from job.Zones
eligibleRegions(j) == {zoneRegion[z] : z \in ZonesOf(j)}

\* budgetKeys, budgetKeysFor: CPUS always, BudgetKey where the region defines it
budgetKeys(j, r) == {CPUS} \cup ({BudgetKey[j]} \cap Defined[r])

\* int(float64(limit) * SafetyFactor)
usable(r, k) == (Limit[r][k] * SafetyNum) \div SafetyDen

\* fitsConfiguredBudget: what the region could hold if nothing else ran in it
fitsConfiguredBudget(j, r) == \A k \in budgetKeys(j, r) : CPUCost[j] <= usable(r, k)

\* The zones of one placement sweep (recordStockout)
SweepZones(j) == {z \in ZonesOf(j) : fitsConfiguredBudget(j, zoneRegion[z])}

\* The units that the jobs of S take of a resource, each one named by its job; their
\* number is the sum of amount over S
Units(amount, S) == UNION {{j} \X (1..amount[j]) : j \in S}

Total(amount, S) == Cardinality(Units(amount, S))

\* validatePlaceable: cmdRun refuses to start a run with a job it rejects
Placeable(j) == \E r \in eligibleRegions(j) : fitsConfiguredBudget(j, r)

ASSUME NoZoneAssumption == NoZone \notin Zones

ASSUME PlaceableAssumption == \A j \in Jobs \ Quarantined : Placeable(j)
=============================================================================
