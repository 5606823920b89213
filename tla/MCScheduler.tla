----------------------------- MODULE MCScheduler -----------------------------
(***************************************************************************)
(* Instances of Scheduler for TLC.  Two regions, the second with two       *)
(* zones; the first does not define the family key "M3".                   *)
(***************************************************************************)
EXTENDS Scheduler

TwoRegions == {1, 2}
ThreeZones == {"r1-a", "r2-a", "r2-b"}
RegionOf == [z \in ThreeZones |-> IF z = "r1-a" THEN 1 ELSE 2]
TwoKeys == {"CPUS", "M3"}
MostlyDefined == [r \in TwoRegions |-> IF r = 1 THEN {"CPUS"} ELSE TwoKeys]
None == {}

\* Two jobs: "a" sweeps all zones, "b" does not fit the budget of region 1.  With these
\* limits (usable 3 and 7) each region holds "a", and region 2 both, exactly; halved by a
\* quota penalty it still holds "a" but not "b".
PairJobs == {"a", "b"}
PairOrder == <<"a", "b">>
PairZones == [a |-> <<"r1-a", "r2-a", "r2-b">>, b |-> <<"r1-a", "r2-b">>]
PairCost == [a |-> 3, b |-> 4]
PairKey == [a |-> "M3", b |-> "M3"]
PairNets == [a |-> 1, b |-> 1]
PairSubnets == [a |-> 0, b |-> 1]
PairShape == [a |-> "s", b |-> "t"]
PairMaxParallel == [a |-> 0, b |-> 1]
PairLimits == [r \in TwoRegions |-> [k \in TwoKeys |->
                 IF r = 1 THEN (IF k = "CPUS" THEN 4 ELSE 0) ELSE 9]]

OneEach == [c \in {"quota", "timeout", "infra", "error"} |-> 1]
\* "timeout" and "error" are handled like "infra"
RetryOutcomes == {"pass", "fail", "stockout", "quota", "infra"}
EndOutcomes == {"pass", "stockout", "quota", "fail"}
QuotaTwice == [OneEach EXCEPT !["quota"] = 2]

\* The jobs share one zone; the other zone of "b" never fits
NarrowZones == [a |-> <<"r2-a">>, b |-> <<"r1-a", "r2-a">>]

\* Four jobs, one of them quarantined.  "b" waits while "a" of the same shape runs, "a"
\* has no such cap; "a" and "c" need more networks than there are; region 1 has CPUs for
\* one job, region 2 CPUs for two but only one of family M3, which "b" and "c" both are
CrowdOrder == <<"a", "q", "b", "c">>
CrowdJobs == {"a", "q", "b", "c"}
CrowdZones == [j \in CrowdJobs |->
                 IF j = "c" THEN <<"r2-a", "r2-b">> ELSE <<"r1-a", "r2-a">>]
CrowdCost == [a |-> 3, q |-> 99, b |-> 3, c |-> 4]
CrowdKey == [a |-> "CPUS", q |-> "M3", b |-> "M3", c |-> "M3"]
CrowdNets == [a |-> 1, q |-> 9, b |-> 0, c |-> 2]
CrowdSubnets == [a |-> 1, q |-> 0, b |-> 1, c |-> 1]
CrowdShape == [a |-> "s", q |-> "s", b |-> "s", c |-> "t"]
CrowdMaxParallel == [a |-> 0, q |-> 1, b |-> 1, c |-> 0]
CrowdLimits == [r \in TwoRegions |-> [k \in TwoKeys |->
                  IF k = "M3" THEN (IF r = 1 THEN 0 ELSE 6) ELSE (IF r = 1 THEN 4 ELSE 9)]]
QuarantinedQ == {"q"}
=============================================================================
