------------------------------ MODULE MCResume -------------------------------
(* Instances of Resume for TLC: two jobs that compete for one region *)
EXTENDS Resume

OneRegion == {1}
TwoZones == {"r1-a", "r1-b"}
RegionOf == [z \in TwoZones |-> 1]
OneKey == {"CPUS"}
AllDefined == [r \in OneRegion |-> OneKey]
Limits == [r \in OneRegion |-> [k \in OneKey |-> 5]]
None == {}
MainOutcomes == {"pass", "fail", "stockout", "infra"}

PairJobs == {"a", "b"}
PairOrder == <<"a", "b">>
PairZones == [a |-> <<"r1-a", "r1-b">>, b |-> <<"r1-a">>]
PairCost == [a |-> 3, b |-> 3]
PairKey == [j \in PairJobs |-> "CPUS"]
Nothing == [j \in PairJobs |-> 0]
PairShape == [j \in PairJobs |-> "s"]
OneEach == [c \in {"quota", "timeout", "infra", "error"} |-> 1]

\* A single job with a single zone
SoloJobs == {"a"}
SoloOrder == <<"a">>
SoloZones == [j \in SoloJobs |-> <<"r1-a">>]
SoloCost == [j \in SoloJobs |-> 3]
SoloKey == [j \in SoloJobs |-> "CPUS"]
SoloNothing == [j \in SoloJobs |-> 0]
SoloShape == [j \in SoloJobs |-> "s"]
=============================================================================
