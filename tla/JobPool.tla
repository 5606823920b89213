------------------------------- MODULE JobPool -------------------------------
(***************************************************************************)
(* What the scheduler promises, without its queue, counters, cooldowns and *)
(* retries: jobs that are waiting are started, one at a time, in a zone    *)
(* that can hold them, such that the jobs placed at any moment fit the     *)
(* budgets; a placed job comes back waiting or with a verdict, and a       *)
(* verdict is final.                                                       *)
(***************************************************************************)
EXTENDS Placement

VARIABLES
  status,   \* job -> JobStatus
  placed    \* job -> the zone it runs in, NoZone when it does not run

PlacedJobs(p) == {j \in Jobs : p[j] # NoZone}

ChargedTo(p, r, k) ==
  {j \in PlacedJobs(p) : zoneRegion[p[j]] = r /\ k \in budgetKeys(j, r)}

\* A placement p fits: summed over the jobs themselves, nothing is exceeded
Fits(p) ==
  /\ Cardinality(PlacedJobs(p)) <= ContainerCap
  /\ Total(Networks, PlacedJobs(p)) <= NetworksBudget
  /\ Total(Subnets, PlacedJobs(p)) <= SubnetsBudget
  /\ \A r \in Regions, k \in Keys :
       Total(CPUCost, ChargedTo(p, r, k)) <= usable(r, k)

\* The cap of the job's own shape leaves room for it
ShapeHasRoom(j) ==
  MaxParallel[j] > 0 =>
    Cardinality({i \in PlacedJobs(placed) : Shape[i] = Shape[j]}) < MaxParallel[j]

Init ==
  /\ status = [j \in Jobs |-> IF j \in Quarantined THEN "skipped_quarantine" ELSE "queued"]
  /\ placed = [j \in Jobs |-> NoZone]

Start(j, z) ==
  /\ status[j] = "queued"
  /\ z \in SweepZones(j)
  /\ ShapeHasRoom(j)
  /\ status' = [status EXCEPT ![j] = "running"]
  /\ placed' = [placed EXCEPT ![j] = z]
  /\ Fits(placed')

Finish(j, s) ==
  /\ status[j] = "running"
  /\ status' = [status EXCEPT ![j] = s]
  /\ placed' = [placed EXCEPT ![j] = NoZone]

Next ==
  \E j \in Jobs :
    \/ \E z \in ZonesOf(j) : Start(j, z)
    \/ \E s \in {"queued", "passed", "failed_real", "failed_infra"} : Finish(j, s)

Spec == Init /\ [][Next]_<<status, placed>>
=============================================================================
