--------------------------- MODULE SchedulerProofs ---------------------------
(***************************************************************************)
(* What holds of the scheduler for every set of jobs, every budget and     *)
(* every retry configuration: admission, the books, the abstract pool, and *)
(* what the run state says of a job's past (its verdict, its retries, its  *)
(* placement sweeps, what state.json holds of them and what is left when   *)
(* the process ends).                                                      *)
(***************************************************************************)
EXTENDS Scheduler, FiniteSetTheorems, TLAPS

-----------------------------------------------------------------------------
(* The helpers that admission relies on *)

\* int(limit * safety factor) is a number of CPUs
LEMMA UsableType ==
  ASSUME NEW r \in Regions, NEW k \in Keys
  PROVE  usable(r, k) \in Nat
<1>1. Limit[r][k] \in Nat
  BY BudgetAssumption
<1>2. Limit[r][k] * SafetyNum \in Nat
  BY <1>1, SafetyAssumption
<1> QED
  BY <1>2, SafetyAssumption DEF usable

\* A quota penalty only takes away from what a region may hold
LEMMA AllowedBound ==
  ASSUME TypeOK, NEW r \in Regions, NEW k \in Keys
  PROVE  allowed(r, k) \in Nat /\ allowed(r, k) <= usable(r, k)
<1>1. usable(r, k) \in Nat
  BY UsableType
<1>2. usable(r, k) \div 2 \in Nat /\ usable(r, k) \div 2 <= usable(r, k)
  BY <1>1
<1> QED
  BY <1>1, <1>2 DEF allowed

\* A job is charged to CPUS and at most one more key, and all of them are keys
LEMMA BudgetKeysType ==
  ASSUME NEW j \in Jobs, NEW r \in Regions
  PROVE  /\ budgetKeys(j, r) \subseteq Keys
         /\ CPUS \in budgetKeys(j, r)
         /\ budgetKeys(j, r) = {CPUS} \/ budgetKeys(j, r) = {CPUS, BudgetKey[j]}
BY JobsAssumption, BudgetAssumption DEF budgetKeys

\* The smaller of two integers is one of them and exceeds neither
LEMMA MinOfTwo ==
  ASSUME NEW a \in Int, NEW b \in Int
  PROVE  Min({a, b}) <= a /\ Min({a, b}) <= b
BY DEF Min

\* Headroom for the job is room under every key it will be charged to
LEMMA HeadroomIsRoom ==
  ASSUME TypeOK, NEW j \in Jobs, NEW r \in Regions,
         headroom(j, r) >= CPUCost[j],
         NEW k \in budgetKeys(j, r)
  PROVE  usedCPU[r][k] + CPUCost[j] <= usable(r, k)
<1> DEFINE free(q) == allowed(r, q) - usedCPU[r][q]
<1>1. k \in Keys /\ CPUS \in Keys /\ BudgetKey[j] \in Keys
  BY BudgetKeysType, JobsAssumption, BudgetAssumption
<1>2. \A q \in Keys : /\ usedCPU[r][q] \in Int
                      /\ allowed(r, q) \in Nat
                      /\ allowed(r, q) <= usable(r, q)
                      /\ free(q) \in Int
  <2> TAKE q \in Keys
  <2>1. usedCPU[r][q] \in Int
    BY DEF TypeOK, DataOK
  <2>2. allowed(r, q) \in Nat /\ allowed(r, q) <= usable(r, q)
    BY AllowedBound
  <2> QED
    BY <2>1, <2>2
<1>3. headroom(j, r) = Min({free(q) : q \in budgetKeys(j, r)})
  BY DEF headroom
<1>4. headroom(j, r) <= free(k)
  <2>1. CASE budgetKeys(j, r) = {CPUS}
    <3>1. k = CPUS /\ {free(q) : q \in budgetKeys(j, r)} = {free(CPUS), free(CPUS)}
      BY <2>1
    <3>2. free(CPUS) \in Int
      BY <1>1, <1>2
    <3> HIDE DEF free
    <3> QED
      BY <3>1, <3>2, <1>3, MinOfTwo
  <2>2. CASE budgetKeys(j, r) = {CPUS, BudgetKey[j]}
    <3>1. {free(q) : q \in budgetKeys(j, r)} = {free(CPUS), free(BudgetKey[j])}
      BY <2>2
    <3>2. free(CPUS) \in Int /\ free(BudgetKey[j]) \in Int
      BY <1>1, <1>2
    <3>3. k = CPUS \/ k = BudgetKey[j]
      BY <2>2
    <3> HIDE DEF free
    <3> QED
      BY <3>1, <3>2, <3>3, <1>3, MinOfTwo
  <2> QED
    BY <2>1, <2>2, BudgetKeysType
<1>5. CPUCost[j] \in Nat
  BY JobsAssumption
<1>6. headroom(j, r) \in Int
  <2>1. CASE budgetKeys(j, r) = {CPUS}
    <3>1. {free(q) : q \in budgetKeys(j, r)} = {free(CPUS)}
      BY <2>1
    <3>2. free(CPUS) \in Int
      BY <1>1, <1>2
    <3> HIDE DEF free
    <3> QED
      BY <3>1, <3>2, <1>3 DEF Min
  <2>2. CASE budgetKeys(j, r) = {CPUS, BudgetKey[j]}
    <3>1. {free(q) : q \in budgetKeys(j, r)} = {free(CPUS), free(BudgetKey[j])}
      BY <2>2
    <3>2. free(CPUS) \in Int /\ free(BudgetKey[j]) \in Int
      BY <1>1, <1>2
    <3> HIDE DEF free
    <3> QED
      BY <3>1, <3>2, <1>3 DEF Min
  <2> QED
    BY <2>1, <2>2, BudgetKeysType
<1>7. usable(r, k) \in Nat
  BY <1>1, UsableType
<1> QED
  BY <1>1, <1>2, <1>4, <1>5, <1>6, <1>7

\* One pass of pickZone returns zones of the job that the sweep has left, in regions with
\* room for it
LEMMA PickPassFits ==
  ASSUME NEW j \in Jobs, NEW avoid, NEW out, NEW z \in PickPass(j, avoid, out)
  PROVE  /\ z \in Zones /\ z \in ZonesOf(j) \ out
         /\ headroom(j, zoneRegion[z]) >= CPUCost[j]
<1> DEFINE open == OpenPositions(j, avoid, out)
           At(r) == {i \in open : zoneRegion[JobZones[j][i]] = r}
<1>1. PICK r \in BestRegions(j, open) : \E i \in At(r) : z = JobZones[j][i]
  BY DEF PickPass
<1>6. PICK i \in At(r) : z = JobZones[j][i]
  BY <1>1
<1>2. i \in DOMAIN JobZones[j] /\ zoneRegion[z] = r
  BY <1>6 DEF OpenPositions
<1>3. JobZones[j] \in Seq(Zones)
  BY BudgetAssumption
<1>4. z \in Zones
  BY <1>6, <1>2, <1>3
<1>5. headroom(j, r) >= CPUCost[j]
  BY <1>1 DEF BestRegions
<1>7. z \in ZonesOf(j) \ out
  BY <1>6, <1>2 DEF OpenPositions, ZonesOf
<1> QED
  BY <1>2, <1>4, <1>5, <1>7

\* The same of pickZone
LEMMA PickedZonesFit ==
  ASSUME NEW j \in Jobs, NEW out, NEW z \in PickedZones(j, out)
  PROVE  /\ z \in Zones /\ z \in ZonesOf(j) \ out
         /\ headroom(j, zoneRegion[z]) >= CPUCost[j]
<1>1. \E avoid : z \in PickPass(j, avoid, out)
  BY DEF PickedZones
<1> QED
  BY <1>1, PickPassFits

-----------------------------------------------------------------------------
(* Types *)

\* charge keeps the counters integers, whatever the sign
LEMMA ChargeType ==
  ASSUME TypeOK, NEW j \in Jobs, NEW r \in Regions, NEW sign \in {1, -1},
         charge(j, r, sign)
  PROVE  /\ running' \in Int
         /\ runningPerShape' \in [Shapes -> Int]
         /\ usedCPU' \in [Regions -> [Keys -> Int]]
         /\ usedNets' \in Int
         /\ usedSubnets' \in Int
<1>1. sign \in Int /\ sign * CPUCost[j] \in Int
      /\ sign * Networks[j] \in Int /\ sign * Subnets[j] \in Int
  BY JobsAssumption
<1>2. running' \in Int /\ usedNets' \in Int /\ usedSubnets' \in Int
  <2>1. /\ running' = running + sign
        /\ usedNets' = usedNets + sign * Networks[j]
        /\ usedSubnets' = usedSubnets + sign * Subnets[j]
    BY DEF charge
  <2>2. running \in Int /\ usedNets \in Int /\ usedSubnets \in Int
    BY DEF TypeOK, DataOK
  <2> QED
    BY <1>1, <2>1, <2>2
<1>3. runningPerShape' \in [Shapes -> Int]
  <2>1. runningPerShape' = [runningPerShape EXCEPT ![Shape[j]] = @ + sign]
    BY DEF charge
  <2>2. runningPerShape \in [Shapes -> Int]
    BY DEF TypeOK, DataOK
  <2>3. Shape[j] \in Shapes
    BY DEF Shapes
  <2> QED
    BY <1>1, <2>1, <2>2, <2>3
<1>4. usedCPU' \in [Regions -> [Keys -> Int]]
  <2> DEFINE row == [k \in Keys |->
                       usedCPU[r][k] + (IF k \in budgetKeys(j, r) THEN sign * CPUCost[j] ELSE 0)]
  <2>1. usedCPU \in [Regions -> [Keys -> Int]]
    BY DEF TypeOK, DataOK
  <2>2. row \in [Keys -> Int]
    BY <1>1, <2>1
  <2>3. usedCPU' = [usedCPU EXCEPT ![r] = row]
    BY DEF charge
  <2> HIDE DEF row
  <2> QED
    BY <2>1, <2>2, <2>3
<1> QED
  BY <1>2, <1>3, <1>4

\* The sweep bookkeeping that admission does for a candidate is typed
LEMMA BeginSweepType ==
  ASSUME TypeOK, NEW j \in Jobs, Picking(j), BeginSweep(j)
  PROVE  /\ stockoutCd' \in [Jobs -> Nat \cup {NoTimer}]
         /\ stockoutZones' \in [Jobs -> SUBSET Zones]
         /\ cursor' \in 1..(Len(Order) + 1)
<1>1. CurrentSweep(j) \in SUBSET Zones
  BY DEF TypeOK, DataOK, CurrentSweep
<1>2. Len(Order) \in Nat
  BY JobsAssumption
<1>3. cursor' \in 1..(Len(Order) + 1)
  BY <1>2 DEF TypeOK, DataOK, BeginSweep, Picking, Passing
<1>4. stockoutZones' \in [Jobs -> SUBSET Zones]
  BY <1>1 DEF TypeOK, DataOK, BeginSweep
<1>5. stockoutCd' \in [Jobs -> Nat \cup {NoTimer}]
  BY DEF TypeOK, DataOK, BeginSweep
<1> QED
  BY <1>3, <1>4, <1>5

\* Closing an attempt is typed.  The zone it gives back to is that of the attempt, which
\* a job in flight has
LEMMA ReceiveType ==
  ASSUME TypeOK, NEW j \in Jobs, NEW c \in Results \ {"running"},
         last[j].zone \in Zones, Receive(j, c)
  PROVE  /\ last' \in [Jobs -> [zone : Zones \cup {NoZone}, result : Results]]
         /\ hits' \in [Jobs -> [Classes -> Nat]]
         /\ running' \in Int
         /\ runningPerShape' \in [Shapes -> Int]
         /\ usedCPU' \in [Regions -> [Keys -> Int]]
         /\ usedNets' \in Int
         /\ usedSubnets' \in Int
         /\ inflight' \subseteq Jobs
         /\ pc' = "top"
         /\ UNCHANGED <<zoneRR, cursor, drained, exitCode, envVars>>
<1>1. zoneRegion[last[j].zone] \in Regions
  BY BudgetAssumption
<1>2. charge(j, zoneRegion[last[j].zone], -1)
  BY DEF Receive
<1>3. last' \in [Jobs -> [zone : Zones \cup {NoZone}, result : Results]]
  BY DEF TypeOK, DataOK, Receive
<1>4. hits' \in [Jobs -> [Classes -> Nat]]
  BY DEF TypeOK, DataOK, Receive
<1>5. inflight' \subseteq Jobs /\ pc' = "top"
      /\ UNCHANGED <<zoneRR, cursor, drained, exitCode, envVars>>
  BY DEF TypeOK, DataOK, Receive
<1> QED
  BY <1>1, <1>2, <1>3, <1>4, <1>5, ChargeType

\* StatusAfter is a status
LEMMA StatusAfterType ==
  ASSUME NEW j, NEW c \in CappedClasses \cup {"pass", "fail"}
  PROVE  StatusAfter(j, c) \in Statuses \ {"running", "skipped_quarantine"}
<1>1. CASE c = "pass"
  BY <1>1 DEF StatusAfter, Statuses, CappedClasses
<1>2. CASE c = "fail"
  BY <1>2 DEF StatusAfter, Statuses, CappedClasses
<1>3. CASE c \in CappedClasses
  BY <1>3 DEF StatusAfter, Statuses, CappedClasses
<1> QED
  BY <1>1, <1>2, <1>3

\* recordStockout is typed
LEMMA RecordStockoutType ==
  ASSUME DataOK, NEW j \in Jobs, NEW z \in Zones, recordStockout(j, z)
  PROVE  /\ status' \in [Jobs -> Statuses]
         /\ stockoutZones' \in [Jobs -> SUBSET Zones]
         /\ stockoutRounds' \in [Jobs -> Nat]
         /\ stockoutCd' \in [Jobs -> Nat \cup {NoTimer}]
<1> DEFINE done == SweepDone(j, z)
           rounds == stockoutRounds[j] + (IF done THEN 1 ELSE 0)
           exhausted == done /\ rounds >= RetriesStockout
           delay == CooldownBase * 2^(rounds - 1)
<1>1. stockoutRounds[j] \in Nat
  BY DEF DataOK
<1>2. rounds \in Nat
  BY <1>1
<1>3. done /\ ~exhausted => delay \in Nat
  <2> SUFFICES ASSUME done, ~exhausted PROVE delay \in Nat
    OBVIOUS
  <2>1. rounds - 1 \in 0..RetriesStockout
    BY <1>1, SchedulerAssumption
  <2>2. 2^(rounds - 1) \in Nat
    BY <2>1, BackoffAssumption
  <2> HIDE DEF rounds
  <2> QED
    BY <2>2, SchedulerAssumption
<1>4. /\ stockoutZones' = [stockoutZones EXCEPT ![j] = @ \cup {z}]
      /\ stockoutRounds' = [stockoutRounds EXCEPT ![j] = rounds]
      /\ status' = [status EXCEPT ![j] = IF exhausted THEN "failed_infra" ELSE "queued"]
      /\ stockoutCd' = [stockoutCd EXCEPT ![j] = IF done /\ ~exhausted THEN delay ELSE @]
  BY DEF recordStockout
<1> HIDE DEF done, rounds, exhausted, delay
<1>5. status' \in [Jobs -> Statuses]
  BY <1>4 DEF DataOK, Statuses
<1>6. stockoutZones' \in [Jobs -> SUBSET Zones]
  BY <1>4 DEF DataOK
<1>7. stockoutRounds' \in [Jobs -> Nat]
  BY <1>2, <1>4 DEF DataOK
<1>8. stockoutCd' \in [Jobs -> Nat \cup {NoTimer}]
  BY <1>3, <1>4 DEF DataOK
<1> QED
  BY <1>5, <1>6, <1>7, <1>8

\* The delays of a quota cooldown are those of at most six doublings
LEMMA QuotaDelayType ==
  ASSUME NEW n \in Nat \ {0}
  PROVE  QuotaDelay(n) \in Nat
<1> DEFINE m == (IF n > 6 THEN 6 ELSE n) - 1
<1>1. m \in 0..5
  OBVIOUS
<1>2. 2^0 = 1 /\ 2^1 = 2 /\ 2^2 = 4 /\ 2^3 = 8 /\ 2^4 = 16 /\ 2^5 = 32
  OBVIOUS
<1>3. QuotaDelay(n) = CooldownBase * 2^m
  BY DEF QuotaDelay
<1> HIDE DEF m
<1>4. m = 0 \/ m = 1 \/ m = 2 \/ m = 3 \/ m = 4 \/ m = 5
  BY <1>1
<1>5. 2^m \in Nat
  <2>1. CASE m = 0
    BY <2>1, <1>2
  <2>2. CASE m = 1
    BY <2>2, <1>2
  <2>3. CASE m = 2
    BY <2>3, <1>2
  <2>4. CASE m = 3
    BY <2>4, <1>2
  <2>5. CASE m = 4
    BY <2>5, <1>2
  <2>6. CASE m = 5
    BY <2>6, <1>2
  <2> QED
    BY <1>4, <2>1, <2>2, <2>3, <2>4, <2>5, <2>6
<1> QED
  BY <1>3, <1>5, SchedulerAssumption

\* bumpCooldown is typed
LEMMA BumpCooldownType ==
  ASSUME TypeOK, NEW r \in Regions, NEW k \in Keys, bumpCooldown(r, k)
  PROVE  /\ quotaCd' \in [Regions -> [Keys -> Nat]]
         /\ cooldownHits' \in [Regions -> [Keys -> Nat]]
<1>1. cooldownHits[r][k] + 1 \in Nat \ {0}
  BY DEF TypeOK, DataOK
<1>2. QuotaDelay(cooldownHits[r][k] + 1) \in Nat
  BY <1>1, QuotaDelayType
<1>3. CASE quotaCd[r][k] > 0
  BY <1>3 DEF TypeOK, DataOK, bumpCooldown
<1>4. CASE ~(quotaCd[r][k] > 0)
  <2> DEFINE n == cooldownHits[r][k] + 1
             hit == [cooldownHits[r] EXCEPT ![k] = n]
             cd == [quotaCd[r] EXCEPT ![k] = QuotaDelay(n)]
  <2>1. /\ cooldownHits' = [cooldownHits EXCEPT ![r] = hit]
        /\ quotaCd' = [quotaCd EXCEPT ![r] = cd]
    BY <1>4 DEF bumpCooldown
  <2>2. hit \in [Keys -> Nat] /\ cd \in [Keys -> Nat]
    BY <1>1, <1>2 DEF TypeOK, DataOK
  <2> HIDE DEF hit, cd
  <2> QED
    BY <2>1, <2>2 DEF TypeOK, DataOK
<1> QED
  BY <1>3, <1>4

\* A tick leaves deadlines deadlines
LEMMA ElapseType ==
  ASSUME NEW t \in Nat \cup {NoTimer}
  PROVE  /\ Elapse(t) \in Nat \cup {NoTimer}
         /\ t \in Nat => Elapse(t) \in Nat /\ Elapse(t) <= t
BY DEF Elapse, NoTimer

\* The same of the cooldowns and penalties of all regions
LEMMA ElapseKeysType ==
  ASSUME NEW f \in [Regions -> [Keys -> Nat]]
  PROVE  ElapseKeys(f) \in [Regions -> [Keys -> Nat]]
<1>1. \A r \in Regions, k \in Keys : Elapse(f[r][k]) \in Nat
  BY ElapseType
<1>2. \A r \in Regions : [k \in Keys |-> Elapse(f[r][k])] \in [Keys -> Nat]
  BY <1>1
<1> QED
  BY <1>2 DEF ElapseKeys

\* Time may pass wherever Run is
LEMMA TickData ==
  ASSUME DataOK, Tick
  PROVE  DataOK'
<1>1. stockoutCd' \in [Jobs -> Nat \cup {NoTimer}]
  BY ElapseType DEF Tick, ElapseJobs, DataOK
<1>2. quotaCd' \in [Regions -> [Keys -> Nat]] /\ quotaPenalty' \in [Regions -> [Keys -> Nat]]
  BY ElapseKeysType DEF Tick, DataOK
<1> QED
  BY <1>1, <1>2 DEF Tick, DataOK, usageVars, ctlVars, envVars

-----------------------------------------------------------------------------
(* Type correctness is inductive once the jobs in flight are known to be placed *)

\* The initial state has the types
LEMMA TypeInit == Init => TypeOK
<1> SUFFICES ASSUME Init PROVE TypeOK
  OBVIOUS
<1>1. 1 \in 1..(Len(Order) + 1)
  BY JobsAssumption
<1>2. 0 \in 0..(RRPeriod - 1) /\ 0 \in 0..MaxPauses
  BY SchedulerAssumption
<1>3. status \in [Jobs -> Statuses] /\ last \in [Jobs -> [zone : Zones \cup {NoZone}, result : Results]]
  BY DEF Init, Statuses, Results
<1>4. /\ hits \in [Jobs -> [Classes -> Nat]]
      /\ stockoutZones \in [Jobs -> SUBSET Zones]
      /\ stockoutRounds \in [Jobs -> Nat]
      /\ stockoutCd \in [Jobs -> Nat \cup {NoTimer}]
  BY DEF Init
<1>5. /\ quotaCd \in [Regions -> [Keys -> Nat]]
      /\ cooldownHits \in [Regions -> [Keys -> Nat]]
      /\ quotaPenalty \in [Regions -> [Keys -> Nat]]
      /\ usedCPU \in [Regions -> [Keys -> Int]]
  BY DEF Init
<1>6. /\ running \in Int /\ usedNets \in Int /\ usedSubnets \in Int
      /\ runningPerShape \in [Shapes -> Int]
      /\ zoneRR \in [Regions -> 0..(RRPeriod - 1)]
      /\ inflight \subseteq Jobs
  BY <1>2 DEF Init
<1>7. /\ pc \in {"top", "admit", "check", "select", "done"}
      /\ cursor \in 1..(Len(Order) + 1)
      /\ admitCancelled \in BOOLEAN /\ jobCancelled \in BOOLEAN /\ drained \in BOOLEAN
      /\ pauses \in 0..MaxPauses /\ paused \in BOOLEAN /\ exitCode \in {-1, 0, 1, 2}
  BY <1>1, <1>2 DEF Init
<1> QED
  BY <1>3, <1>4, <1>5, <1>6, <1>7 DEF TypeOK, DataOK

\* Every step keeps the types
LEMMA TypeStep ==
  ASSUME TypeOK, RunningIsInflight, [Next]_vars
  PROVE  TypeOK'
<1>1. Len(Order) \in Nat
  BY JobsAssumption
<1>2. ASSUME AdmitBegin PROVE TypeOK'
  BY <1>1, <1>2 DEF AdmitBegin, TypeOK, DataOK, runVars, sweepVars, quotaVars, usageVars, envVars
<1>3. ASSUME AdmitEnd PROVE TypeOK'
  BY <1>3 DEF AdmitEnd, TypeOK, DataOK, runVars, sweepVars, quotaVars, usageVars, envVars
<1>4. ASSUME AdmitSkip PROVE TypeOK'
  BY <1>1, <1>4 DEF AdmitSkip, Passing, TypeOK, DataOK, runVars, sweepVars, quotaVars, usageVars, envVars
<1>5. ASSUME NEW j \in Jobs, AdmitNoZone(j) PROVE TypeOK'
  <2>1. Picking(j) /\ BeginSweep(j)
    BY <1>5 DEF AdmitNoZone
  <2>2. UNCHANGED <<hits, stockoutRounds, quotaVars, pc, drained, exitCode, envVars>>
    BY <2>1 DEF BeginSweep
  <2>3. UNCHANGED <<status, last, disk, usageVars, zoneRR, inflight>>
    BY <1>5 DEF AdmitNoZone
  <2> QED
    BY <2>1, <2>2, <2>3, BeginSweepType DEF TypeOK, DataOK, quotaVars, usageVars, envVars
<1>6. ASSUME NEW j \in Jobs, NEW z \in Zones, Launch(j, z) PROVE TypeOK'
  <2>1. Picking(j) /\ BeginSweep(j) /\ charge(j, zoneRegion[z], 1)
    BY <1>6 DEF Launch
  <2>2. zoneRegion[z] \in Regions
    BY BudgetAssumption
  <2>3. UNCHANGED <<hits, stockoutRounds, quotaVars, pc, drained, exitCode, envVars>>
    BY <2>1 DEF BeginSweep
  <2>4. /\ status' \in [Jobs -> Statuses]
        /\ last' \in [Jobs -> [zone : Zones \cup {NoZone}, result : Results]]
        /\ inflight' \subseteq Jobs
    BY <1>6 DEF Launch, TypeOK, DataOK, Statuses, Results
  <2>5. zoneRR' \in [Regions -> 0..(RRPeriod - 1)]
    <3>1. (zoneRR[zoneRegion[z]] + 1) % RRPeriod \in 0..(RRPeriod - 1)
      BY <2>2, SchedulerAssumption DEF TypeOK, DataOK
    <3>2. zoneRR' = [zoneRR EXCEPT ![zoneRegion[z]] = (@ + 1) % RRPeriod]
      BY <1>6 DEF Launch
    <3> QED
      BY <2>2, <3>1, <3>2 DEF TypeOK, DataOK
  <2>6. /\ running' \in Int
        /\ runningPerShape' \in [Shapes -> Int]
        /\ usedCPU' \in [Regions -> [Keys -> Int]]
        /\ usedNets' \in Int
        /\ usedSubnets' \in Int
    BY <2>1, <2>2, ChargeType
  <2>7. /\ stockoutCd' \in [Jobs -> Nat \cup {NoTimer}]
        /\ stockoutZones' \in [Jobs -> SUBSET Zones]
        /\ cursor' \in 1..(Len(Order) + 1)
    BY <2>1, BeginSweepType
  <2> QED
    BY <2>3, <2>4, <2>5, <2>6, <2>7 DEF TypeOK, DataOK, quotaVars, envVars
<1>7. ASSUME LoopStep PROVE TypeOK'
  <2>1. CASE Wait
    BY <2>1 DEF Wait, TypeOK, DataOK, runVars, sweepVars, quotaVars, usageVars, envVars
  <2>2. CASE Return
    BY <2>2 DEF Return, TypeOK, DataOK, sweepVars, quotaVars, usageVars, envVars
  <2>3. CASE IdleTick
    BY <2>3 DEF IdleTick, TypeOK, DataOK, runVars, sweepVars, quotaVars, usageVars, envVars
  <2>4. CASE AdmitDone
    BY <2>4 DEF AdmitDone, TypeOK, DataOK, runVars, sweepVars, quotaVars, usageVars, envVars
  <2> QED
    BY <1>7, <2>1, <2>2, <2>3, <2>4 DEF LoopStep
<1>8. ASSUME NEW j \in Jobs, NEW c \in Results \ {"running"}, Receive(j, c)
      PROVE  /\ last[j].zone \in Zones
             /\ last' \in [Jobs -> [zone : Zones \cup {NoZone}, result : Results]]
             /\ hits' \in [Jobs -> [Classes -> Nat]]
             /\ running' \in Int
             /\ runningPerShape' \in [Shapes -> Int]
             /\ usedCPU' \in [Regions -> [Keys -> Int]]
             /\ usedNets' \in Int
             /\ usedSubnets' \in Int
             /\ inflight' \subseteq Jobs
             /\ pc' = "top"
             /\ UNCHANGED <<zoneRR, cursor, drained, exitCode, envVars>>
  <2>1. j \in inflight
    BY <1>8 DEF Receive
  <2>2. last[j].zone \in Zones
    BY <2>1 DEF RunningIsInflight
  <2> QED
    BY <1>8, <2>2, ReceiveType
<1>9. ASSUME NEW j \in Jobs, handleCompletion(j) PROVE TypeOK'
  <2>1. ASSUME NEW c \in {"pass", "fail", "timeout", "infra", "error"}, Complete(j, c)
        PROVE  TypeOK'
    <3>1. Receive(j, c) /\ UNCHANGED <<sweepVars, quotaVars>>
          /\ status' = [status EXCEPT ![j] = StatusAfter(j, c)]
      BY <2>1 DEF Complete
    <3>2. c \in Results \ {"running"} /\ c \in CappedClasses \cup {"pass", "fail"}
      BY DEF Results, Classes, CappedClasses
    <3>3. status' \in [Jobs -> Statuses]
      BY <3>1, <3>2, StatusAfterType DEF TypeOK, DataOK
    <3> QED
      BY <3>1, <3>2, <3>3, <1>8 DEF TypeOK, DataOK, sweepVars, quotaVars, envVars
  <2>2. CASE CompleteStockout(j)
    <3>1. Receive(j, "stockout") /\ recordStockout(j, last[j].zone) /\ UNCHANGED quotaVars
      BY <2>2 DEF CompleteStockout
    <3>2. "stockout" \in Results \ {"running"}
      BY DEF Results, Classes
    <3>3. last[j].zone \in Zones
      BY <3>1, <3>2, <1>8
    <3>4. /\ status' \in [Jobs -> Statuses]
          /\ stockoutZones' \in [Jobs -> SUBSET Zones]
          /\ stockoutRounds' \in [Jobs -> Nat]
          /\ stockoutCd' \in [Jobs -> Nat \cup {NoTimer}]
      BY <3>1, <3>3, RecordStockoutType DEF TypeOK
    <3> QED
      BY <3>1, <3>2, <3>4, <1>8 DEF TypeOK, DataOK, quotaVars, envVars
  <2>3. CASE CompleteQuota(j)
    <3> DEFINE r == zoneRegion[last[j].zone]
    <3>1. /\ Receive(j, "quota")
          /\ bumpCooldown(r, BudgetKey[j])
          /\ quotaPenalty' = [quotaPenalty EXCEPT ![r][BudgetKey[j]] = QuotaPenaltyDur]
          /\ status' = [status EXCEPT ![j] = StatusAfter(j, "quota")]
          /\ UNCHANGED sweepVars
      BY <2>3 DEF CompleteQuota
    <3>2. "quota" \in Results \ {"running"} /\ "quota" \in CappedClasses
      BY DEF Results, Classes, CappedClasses
    <3>3. r \in Regions /\ BudgetKey[j] \in Keys
      BY <3>1, <3>2, <1>8, BudgetAssumption, JobsAssumption
    <3> HIDE DEF r
    <3>4. status' \in [Jobs -> Statuses]
      BY <3>1, <3>2, StatusAfterType DEF TypeOK, DataOK
    <3>5. quotaCd' \in [Regions -> [Keys -> Nat]] /\ cooldownHits' \in [Regions -> [Keys -> Nat]]
      BY <3>1, <3>3, BumpCooldownType
    <3>6. quotaPenalty' \in [Regions -> [Keys -> Nat]]
      <4> DEFINE row == [quotaPenalty[r] EXCEPT ![BudgetKey[j]] = QuotaPenaltyDur]
      <4>1. quotaPenalty' = [quotaPenalty EXCEPT ![r] = row]
        BY <3>1
      <4>2. row \in [Keys -> Nat]
        BY <3>3, SchedulerAssumption DEF TypeOK, DataOK
      <4> HIDE DEF row
      <4> QED
        BY <3>3, <4>1, <4>2 DEF TypeOK, DataOK
    <3> QED
      BY <3>1, <3>2, <3>4, <3>5, <3>6, <1>8 DEF TypeOK, DataOK, sweepVars, envVars
  <2>4. CASE CompleteAborted(j)
    <3>1. Receive(j, "aborted") /\ UNCHANGED <<sweepVars, quotaVars>>
          /\ status' = [status EXCEPT ![j] = "queued"]
      BY <2>4 DEF CompleteAborted
    <3>2. "aborted" \in Results \ {"running"}
      BY DEF Results
    <3>3. status' \in [Jobs -> Statuses]
      BY <3>1 DEF TypeOK, DataOK, Statuses
    <3> QED
      BY <3>1, <3>2, <3>3, <1>8 DEF TypeOK, DataOK, sweepVars, quotaVars, envVars
  <2> QED
    BY <1>9, <2>1, <2>2, <2>3, <2>4 DEF handleCompletion
<1>10. ASSUME Interrupt PROVE TypeOK'
  BY <1>10 DEF Interrupt, TypeOK, DataOK, runVars, sweepVars, quotaVars, usageVars, ctlVars
<1>11. ASSUME TogglePause PROVE TypeOK'
  <2>1. pauses' \in 0..MaxPauses /\ paused' \in BOOLEAN
    BY <1>11, SchedulerAssumption DEF TogglePause, TypeOK, DataOK
  <2> QED
    BY <1>11, <2>1 DEF TogglePause, TypeOK, DataOK, runVars, sweepVars, quotaVars, usageVars, ctlVars
<1>12. ASSUME Tick PROVE TypeOK'
  BY <1>12, TickData DEF Tick, TypeOK, ctlVars
<1>13. CASE UNCHANGED vars
  BY <1>13 DEF vars, TypeOK, DataOK, runVars, sweepVars, quotaVars, usageVars, ctlVars, envVars
<1> QED
  BY <1>2, <1>3, <1>4, <1>5, <1>6, <1>7, <1>9, <1>10, <1>11, <1>12, <1>13
     DEF Next, AdmitStep, Terminated

-----------------------------------------------------------------------------
(* The books *)

\* Seen from the books there are three kinds of steps: a launch, a completion that takes
\* the job out of "running", and everything else
LEMMA StepKinds ==
  ASSUME [Next]_vars
  PROVE  \/ UNCHANGED <<status, last, usageVars, inflight>>
         \/ \E j \in Jobs, z \in Zones : Launch(j, z)
         \/ \E j \in Jobs, c \in Results \ {"running"},
               s \in Statuses \ {"running", "skipped_quarantine"} :
              Receive(j, c) /\ status' = [status EXCEPT ![j] = s]
<1> DEFINE Quiet == UNCHANGED <<status, last, usageVars, inflight>>
           Completed == \E j \in Jobs, c \in Results \ {"running"},
                           s \in Statuses \ {"running", "skipped_quarantine"} :
                          Receive(j, c) /\ status' = [status EXCEPT ![j] = s]
<1>1. AdmitBegin \/ AdmitEnd \/ AdmitSkip => Quiet
  BY DEF AdmitBegin, AdmitEnd, AdmitSkip, runVars
<1>2. ASSUME NEW j \in Jobs, AdmitNoZone(j) PROVE Quiet
  BY <1>2 DEF AdmitNoZone
<1>3. LoopStep => Quiet
  BY DEF LoopStep, Wait, Return, IdleTick, AdmitDone, runVars
<1>4. Interrupt \/ TogglePause => Quiet
  BY DEF Interrupt, TogglePause, runVars
<1>5. Tick => Quiet
  BY DEF Tick
<1>6. UNCHANGED vars => Quiet
  BY DEF vars, runVars
<1>7. ASSUME NEW j \in Jobs, handleCompletion(j) PROVE Completed
  <2>1. ASSUME NEW c \in {"pass", "fail", "timeout", "infra", "error"}, Complete(j, c)
        PROVE  Completed
    <3>1. c \in Results \ {"running"} /\ c \in CappedClasses \cup {"pass", "fail"}
      BY DEF Results, Classes, CappedClasses
    <3>2. StatusAfter(j, c) \in Statuses \ {"running", "skipped_quarantine"}
      BY <3>1, StatusAfterType
    <3>3. Receive(j, c) /\ status' = [status EXCEPT ![j] = StatusAfter(j, c)]
      BY <2>1 DEF Complete
    <3> QED
      BY <3>1, <3>2, <3>3
  <2>2. CASE CompleteStockout(j)
    <3>1. Receive(j, "stockout") /\ recordStockout(j, last[j].zone)
      BY <2>2 DEF CompleteStockout
    <3>2. \E s \in {"failed_infra", "queued"} : status' = [status EXCEPT ![j] = s]
      BY <3>1 DEF recordStockout
    <3>3. "stockout" \in Results \ {"running"}
          /\ {"failed_infra", "queued"} \subseteq Statuses \ {"running", "skipped_quarantine"}
      BY DEF Results, Classes, Statuses
    <3> QED
      BY <3>1, <3>2, <3>3
  <2>3. CASE CompleteQuota(j)
    <3>1. Receive(j, "quota") /\ status' = [status EXCEPT ![j] = StatusAfter(j, "quota")]
      BY <2>3 DEF CompleteQuota
    <3>2. "quota" \in Results \ {"running"} /\ "quota" \in CappedClasses
      BY DEF Results, Classes, CappedClasses
    <3>3. StatusAfter(j, "quota") \in Statuses \ {"running", "skipped_quarantine"}
      BY <3>2, StatusAfterType
    <3> QED
      BY <3>1, <3>2, <3>3
  <2>4. CASE CompleteAborted(j)
    <3>1. Receive(j, "aborted") /\ status' = [status EXCEPT ![j] = "queued"]
      BY <2>4 DEF CompleteAborted
    <3>2. "aborted" \in Results \ {"running"}
          /\ "queued" \in Statuses \ {"running", "skipped_quarantine"}
      BY DEF Results, Statuses
    <3> QED
      BY <3>1, <3>2
  <2> HIDE DEF Completed
  <2> QED
    BY <1>7, <2>1, <2>2, <2>3, <2>4 DEF handleCompletion
<1> HIDE DEF Quiet, Completed
<1>8. Quiet \/ (\E j \in Jobs, z \in Zones : Launch(j, z)) \/ Completed
  BY <1>1, <1>2, <1>3, <1>4, <1>5, <1>6, <1>7 DEF Next, AdmitStep, Terminated
<1> QED
  BY <1>8 DEF Quiet, Completed

\* At the start nothing runs
LEMMA RunningInit == Init => RunningIsInflight
<1> SUFFICES ASSUME Init PROVE RunningIsInflight
  OBVIOUS
<1>1. running = Cardinality(inflight)
  BY FS_EmptySet DEF Init
<1>2. \A j \in Jobs : status[j] # "running" /\ last[j].result # "running" /\ j \notin inflight
  BY DEF Init
<1> QED
  BY <1>1, <1>2 DEF RunningIsInflight

\* A launch adds the job to both sides, because a queued job is not in flight; a
\* completion removes it from both
LEMMA RunningStep ==
  ASSUME TypeOK, RunningIsInflight, [Next]_vars
  PROVE  RunningIsInflight'
<1>1. IsFiniteSet(inflight)
  BY JobsAssumption, FS_Subset DEF TypeOK, DataOK
<1>2. CASE UNCHANGED <<status, last, usageVars, inflight>>
  BY <1>2 DEF RunningIsInflight, usageVars
<1>3. ASSUME NEW j \in Jobs, NEW z \in Zones, Launch(j, z) PROVE RunningIsInflight'
  <2>1. status[j] = "queued"
    BY <1>3 DEF Launch, Picking
  <2>2. j \notin inflight
    BY <2>1 DEF RunningIsInflight
  <2>3. inflight' = inflight \cup {j} /\ running' = running + 1
    BY <1>3 DEF Launch, charge
  <2>4. running' = Cardinality(inflight')
    BY <1>1, <2>2, <2>3, FS_AddElement DEF RunningIsInflight
  <2>5. /\ status' = [status EXCEPT ![j] = "running"]
        /\ last' = [last EXCEPT ![j] = [zone |-> z, result |-> "running"]]
    BY <1>3 DEF Launch
  <2>6. ASSUME NEW i \in Jobs
        PROVE  /\ status'[i] = "running" <=> i \in inflight'
               /\ last'[i].result = "running" <=> i \in inflight'
               /\ i \in inflight' => last'[i].zone \in Zones
    BY <2>3, <2>5 DEF RunningIsInflight, TypeOK, DataOK
  <2> QED
    BY <2>4, <2>6 DEF RunningIsInflight
<1>4. ASSUME NEW j \in Jobs, NEW c \in Results \ {"running"},
             NEW s \in Statuses \ {"running", "skipped_quarantine"},
             Receive(j, c), status' = [status EXCEPT ![j] = s]
      PROVE  RunningIsInflight'
  <2>1. /\ j \in inflight
        /\ inflight' = inflight \ {j}
        /\ running' = running + (-1)
        /\ last' = [last EXCEPT ![j] = [zone |-> last[j].zone, result |-> c]]
    BY <1>4 DEF Receive, charge
  <2>2. Cardinality(inflight) \in Nat
    BY <1>1, FS_CardinalityType
  <2>3. Cardinality(inflight \ {j}) = Cardinality(inflight) - 1
    BY <1>1, <2>1, FS_RemoveElement
  <2>4. running' = Cardinality(inflight')
    BY <2>1, <2>2, <2>3 DEF RunningIsInflight
  <2>5. ASSUME NEW i \in Jobs
        PROVE  /\ status'[i] = "running" <=> i \in inflight'
               /\ last'[i].result = "running" <=> i \in inflight'
               /\ i \in inflight' => last'[i].zone \in Zones
    BY <1>4, <2>1 DEF RunningIsInflight, TypeOK, DataOK
  <2> QED
    BY <2>4, <2>5 DEF RunningIsInflight
<1> QED
  BY <1>2, <1>3, <1>4, StepKinds

\* At the start nothing is charged
LEMMA BudgetInit == Init => WithinBudgets
<1> SUFFICES ASSUME Init PROVE WithinBudgets
  OBVIOUS
<1>1. \A r \in Regions, k \in Keys : usable(r, k) \in Nat
  BY UsableType
<1> QED
  BY <1>1, BudgetAssumption DEF Init, WithinBudgets

\* A launch goes where pickZone found room under every key; a completion only gives back
LEMMA BudgetStep ==
  ASSUME TypeOK, RunningIsInflight, WithinBudgets, [Next]_vars
  PROVE  WithinBudgets'
<1>1. /\ running \in Int /\ usedNets \in Int /\ usedSubnets \in Int
      /\ \A r \in Regions, k \in Keys : usedCPU[r][k] \in Int
  BY DEF TypeOK, DataOK
<1>2. \A j \in Jobs : CPUCost[j] \in Nat /\ Networks[j] \in Nat /\ Subnets[j] \in Nat
  BY JobsAssumption
<1>3. \A r \in Regions, k \in Keys : usable(r, k) \in Nat
  BY UsableType
<1>4. ContainerCap \in Nat /\ NetworksBudget \in Nat /\ SubnetsBudget \in Nat
  BY BudgetAssumption
<1>5. CASE UNCHANGED <<status, last, usageVars, inflight>>
  BY <1>5 DEF WithinBudgets, usageVars, usable
<1>6. ASSUME NEW j \in Jobs, NEW z \in Zones, Launch(j, z) PROVE WithinBudgets'
  <2> DEFINE q == zoneRegion[z]
  <2>1. q \in Regions
    BY BudgetAssumption
  <2>2. Picking(j) /\ charge(j, q, 1) /\ z \in PickedZones(j, CurrentSweep(j))
    BY <1>6 DEF Launch
  <2>3. headroom(j, q) >= CPUCost[j]
    BY <2>2, PickedZonesFit
  <2> HIDE DEF q
  <2>4. running' <= ContainerCap
    BY <1>1, <1>4, <2>2 DEF Picking, charge
  <2>5. usedNets' <= NetworksBudget /\ usedSubnets' <= SubnetsBudget
    <3>1. usedNets + Networks[j] <= NetworksBudget /\ usedSubnets + Subnets[j] <= SubnetsBudget
      BY <1>1, <1>2, <1>4, <2>2 DEF Picking, netsFull
    <3>2. usedNets' = usedNets + Networks[j] /\ usedSubnets' = usedSubnets + Subnets[j]
      BY <1>1, <1>2, <2>2 DEF charge
    <3> QED
      BY <3>1, <3>2
  <2>6. ASSUME NEW r \in Regions, NEW k \in Keys PROVE usedCPU'[r][k] <= usable(r, k)
    <3>1. CASE r = q /\ k \in budgetKeys(j, q)
      <4>1. usedCPU'[r][k] = usedCPU[r][k] + CPUCost[j]
        BY <1>1, <1>2, <2>1, <2>2, <3>1 DEF charge, TypeOK, DataOK
      <4> QED
        BY <2>1, <2>3, <3>1, <4>1, HeadroomIsRoom
    <3>2. CASE ~(r = q /\ k \in budgetKeys(j, q))
      <4>1. usedCPU'[r][k] = usedCPU[r][k]
        BY <1>1, <2>1, <2>2, <3>2 DEF charge, TypeOK, DataOK
      <4> QED
        BY <4>1 DEF WithinBudgets
    <3> QED
      BY <3>1, <3>2
  <2> QED
    BY <2>4, <2>5, <2>6 DEF WithinBudgets, usable
<1>7. ASSUME NEW j \in Jobs, NEW c \in Results \ {"running"}, Receive(j, c)
      PROVE  WithinBudgets'
  <2> DEFINE q == zoneRegion[last[j].zone]
  <2>1. j \in inflight /\ charge(j, q, -1)
    BY <1>7 DEF Receive
  <2>2. q \in Regions
    BY <2>1, BudgetAssumption DEF RunningIsInflight
  <2> HIDE DEF q
  <2>3. running' <= ContainerCap
    BY <1>1, <1>4, <2>1 DEF charge, WithinBudgets
  <2>4. usedNets' <= NetworksBudget /\ usedSubnets' <= SubnetsBudget
    <3>1. usedNets' = usedNets - Networks[j] /\ usedSubnets' = usedSubnets - Subnets[j]
      BY <1>1, <1>2, <2>1 DEF charge
    <3> QED
      BY <1>1, <1>2, <1>4, <3>1 DEF WithinBudgets
  <2>5. ASSUME NEW r \in Regions, NEW k \in Keys PROVE usedCPU'[r][k] <= usable(r, k)
    <3>1. usedCPU'[r][k] = usedCPU[r][k] \/ usedCPU'[r][k] = usedCPU[r][k] - CPUCost[j]
      <4>1. CASE r = q /\ k \in budgetKeys(j, q)
        <5>1. usedCPU'[r][k] = usedCPU[r][k] + (-1) * CPUCost[j]
          BY <2>1, <2>2, <4>1 DEF charge, TypeOK, DataOK
        <5> QED
          BY <1>1, <1>2, <5>1
      <4>2. CASE ~(r = q /\ k \in budgetKeys(j, q))
        BY <1>1, <2>1, <2>2, <4>2 DEF charge, TypeOK, DataOK
      <4> QED
        BY <4>1, <4>2
    <3> QED
      BY <1>1, <1>2, <1>3, <3>1 DEF WithinBudgets
  <2> QED
    BY <2>3, <2>4, <2>5 DEF WithinBudgets, usable
<1> QED
  BY <1>5, <1>6, <1>7, StepKinds

-----------------------------------------------------------------------------
(* Invariants of the specification *)

\* The inductive invariant: no part of it is preserved without the types, and the types
\* and the budgets need to know that a job in flight has a zone
AdmissionInv == TypeOK /\ RunningIsInflight /\ WithinBudgets

\* The admission invariant holds in every reachable state
THEOREM AdmissionInvariant == Spec => []AdmissionInv
<1>1. Init => AdmissionInv
  BY TypeInit, RunningInit, BudgetInit DEF AdmissionInv
<1>2. AdmissionInv /\ [Next]_vars => AdmissionInv'
  BY TypeStep, RunningStep, BudgetStep DEF AdmissionInv
<1> QED
  BY <1>1, <1>2, PTL DEF Spec

\* The scheduler's state is well typed at every moment of every run
THEOREM TypeCorrect == Spec => []TypeOK
<1>1. AdmissionInv => TypeOK
  BY DEF AdmissionInv
<1> QED
  BY <1>1, AdmissionInvariant, PTL

\* No region's CPU budget, under any key, nor the container, network or subnetwork budget
\* is ever exceeded, for any jobs, zones and limits (admit, pickZone, charge)
THEOREM BudgetsHold == Spec => []WithinBudgets
<1>1. AdmissionInv => WithinBudgets
  BY DEF AdmissionInv
<1> QED
  BY <1>1, AdmissionInvariant, PTL

\* Statuses, open attempts, goroutines and s.running never disagree (launch,
\* handleCompletion)
THEOREM RunningAgrees == Spec => []RunningIsInflight
<1>1. AdmissionInv => RunningIsInflight
  BY DEF AdmissionInv
<1> QED
  BY <1>1, AdmissionInvariant, PTL

-----------------------------------------------------------------------------
(* What a step may never do *)

\* Once Run has seen admitDone the loop never enters an admission pass again
DrainInv == drained => admitCancelled /\ pc # "admit"

\* No step leaves the drained state
LEMMA DrainStep ==
  ASSUME DrainInv, [Next]_vars
  PROVE  DrainInv'
<1>1. CASE AdmitBegin
  BY <1>1 DEF AdmitBegin, DrainInv, envVars
<1>2. CASE AdmitEnd
  BY <1>2 DEF AdmitEnd, DrainInv, envVars
<1>3. CASE AdmitSkip
  BY <1>3 DEF AdmitSkip, DrainInv, envVars
<1>4. ASSUME NEW j \in Jobs, BeginSweep(j) PROVE DrainInv'
  BY <1>4 DEF BeginSweep, DrainInv, envVars
<1>5. CASE LoopStep
  BY <1>5 DEF LoopStep, Wait, Return, IdleTick, AdmitDone, DrainInv, envVars
<1>6. ASSUME NEW j \in Jobs, NEW c, Receive(j, c) PROVE DrainInv'
  BY <1>6 DEF Receive, DrainInv, envVars
<1>7. ASSUME NEW j \in Jobs, handleCompletion(j) PROVE DrainInv'
  BY <1>6, <1>7 DEF handleCompletion, Complete, CompleteStockout, CompleteQuota, CompleteAborted
<1>8. CASE Interrupt
  BY <1>8 DEF Interrupt, DrainInv, ctlVars
<1>9. CASE TogglePause
  BY <1>9 DEF TogglePause, DrainInv, ctlVars
<1>10. CASE Tick
  BY <1>10 DEF Tick, DrainInv, ctlVars, envVars
<1>11. CASE UNCHANGED vars
  BY <1>11 DEF DrainInv, vars, ctlVars, envVars
<1>12. ASSUME NEW j \in Jobs, AdmitNoZone(j) PROVE DrainInv'
  BY <1>4, <1>12 DEF AdmitNoZone
<1>13. ASSUME NEW j \in Jobs, NEW z \in Zones, Launch(j, z) PROVE DrainInv'
  BY <1>4, <1>13 DEF Launch
<1> QED
  BY <1>1, <1>2, <1>3, <1>5, <1>7, <1>8, <1>9, <1>10, <1>11, <1>12, <1>13
     DEF Next, AdmitStep, Terminated

\* After Run has seen the first interrupt no step adds a job in flight (admit, Run)
THEOREM DrainIsFinal == Spec => DrainedLaunchesNothing
<1>1. Init => DrainInv
  BY DEF Init, DrainInv
<1>2. DrainInv /\ [Next]_vars => DrainInv'
  BY DrainStep
<1>3. DrainInv /\ [Next]_vars => [drained => inflight' \subseteq inflight]_vars
  <2> SUFFICES ASSUME DrainInv, [Next]_vars, drained PROVE inflight' \subseteq inflight
    OBVIOUS
  <2>1. ASSUME NEW j \in Jobs, NEW z \in Zones, Launch(j, z) PROVE FALSE
    BY <2>1 DEF Launch, Picking, Passing, DrainInv
  <2>2. ASSUME NEW j \in Jobs, NEW c \in Results \ {"running"}, Receive(j, c)
        PROVE  inflight' \subseteq inflight
    BY <2>2 DEF Receive
  <2> QED
    BY <2>1, <2>2, StepKinds
<1> QED
  BY <1>1, <1>2, <1>3, PTL DEF Spec, DrainedLaunchesNothing

\* No step extends an active quota cooldown or raises its backoff (bumpCooldown)
LEMMA QuotaStep ==
  ASSUME TypeOK, RunningIsInflight, [Next]_vars, NEW r \in Regions, NEW k \in Keys,
         quotaCd[r][k] > 0
  PROVE  quotaCd'[r][k] <= quotaCd[r][k] /\ cooldownHits'[r][k] = cooldownHits[r][k]
<1> DEFINE Kept == UNCHANGED <<quotaCd, cooldownHits>>
<1>1. quotaCd[r][k] \in Nat /\ cooldownHits[r][k] \in Nat
  BY DEF TypeOK, DataOK
<1>2. AdmitBegin \/ AdmitEnd \/ AdmitSkip => Kept
  BY DEF AdmitBegin, AdmitEnd, AdmitSkip, runVars, quotaVars
<1>3. ASSUME NEW j \in Jobs, AdmitNoZone(j) PROVE Kept
  BY <1>3 DEF AdmitNoZone, BeginSweep, quotaVars
<1>4. ASSUME NEW j \in Jobs, NEW z \in Zones, Launch(j, z) PROVE Kept
  BY <1>4 DEF Launch, BeginSweep, quotaVars
<1>5. LoopStep => Kept
  BY DEF LoopStep, Wait, Return, IdleTick, AdmitDone, runVars, quotaVars
<1>6. Interrupt \/ TogglePause => Kept
  BY DEF Interrupt, TogglePause, runVars, quotaVars
<1>7. UNCHANGED vars => Kept
  BY DEF vars, runVars, quotaVars
<1>8. CASE Tick
  <2>1. quotaCd'[r][k] = Elapse(quotaCd[r][k]) /\ cooldownHits' = cooldownHits
    BY <1>8 DEF Tick, ElapseKeys
  <2> QED
    BY <1>1, <2>1, ElapseType
<1>9. ASSUME NEW j \in Jobs, handleCompletion(j)
      PROVE  quotaCd'[r][k] <= quotaCd[r][k] /\ cooldownHits'[r][k] = cooldownHits[r][k]
  <2>1. CASE CompleteQuota(j)
    <3> DEFINE q == zoneRegion[last[j].zone]
    <3>1. j \in inflight /\ bumpCooldown(q, BudgetKey[j])
      BY <2>1 DEF CompleteQuota, Receive
    <3>2. q \in Regions /\ BudgetKey[j] \in Keys
      BY <3>1, BudgetAssumption, JobsAssumption DEF RunningIsInflight
    <3> HIDE DEF q
    <3>3. CASE quotaCd[q][BudgetKey[j]] > 0
      BY <1>1, <3>1, <3>3 DEF bumpCooldown
    <3>4. CASE ~(quotaCd[q][BudgetKey[j]] > 0)
      <4>1. r # q \/ k # BudgetKey[j]
        BY <3>4
      <4>2. quotaCd'[r][k] = quotaCd[r][k] /\ cooldownHits'[r][k] = cooldownHits[r][k]
        <5> DEFINE b == BudgetKey[j]
                   n == cooldownHits[q][b] + 1
                   hit == [cooldownHits[q] EXCEPT ![b] = n]
                   cd == [quotaCd[q] EXCEPT ![b] = QuotaDelay(n)]
        <5>1. /\ cooldownHits' = [cooldownHits EXCEPT ![q] = hit]
              /\ quotaCd' = [quotaCd EXCEPT ![q] = cd]
          BY <3>1, <3>4 DEF bumpCooldown
        <5>2. k # b => hit[k] = cooldownHits[q][k] /\ cd[k] = quotaCd[q][k]
          BY <3>2 DEF TypeOK, DataOK
        <5> HIDE DEF hit, cd
        <5> QED
          BY <3>2, <4>1, <5>1, <5>2 DEF TypeOK, DataOK
      <4> QED
        BY <1>1, <4>2
    <3> QED
      BY <3>3, <3>4
  <2>2. CASE ~CompleteQuota(j)
    <3>1. Kept
      BY <1>9, <2>2 DEF handleCompletion, Complete, CompleteStockout, CompleteAborted, quotaVars
    <3> QED
      BY <1>1, <3>1
  <2> QED
    BY <2>1, <2>2
<1>10. Kept => quotaCd'[r][k] <= quotaCd[r][k] /\ cooldownHits'[r][k] = cooldownHits[r][k]
  BY <1>1
<1> HIDE DEF Kept
<1> QED
  BY <1>2, <1>3, <1>4, <1>5, <1>6, <1>7, <1>8, <1>9, <1>10 DEF Next, AdmitStep, Terminated

\* Simultaneous quota failures count once: what arrives while a region cools down neither
\* extends the cooldown nor doubles the next one (bumpCooldown)
THEOREM QuotaCountsOnce == Spec => QuotaCooldownNotExtended
<1>1. AdmissionInv /\ [Next]_vars =>
        [\A r \in Regions, k \in Keys :
           quotaCd[r][k] > 0 =>
             quotaCd'[r][k] <= quotaCd[r][k] /\ cooldownHits'[r][k] = cooldownHits[r][k]]_vars
  BY QuotaStep DEF AdmissionInv
<1> QED
  BY <1>1, AdmissionInvariant, PTL DEF Spec, QuotaCooldownNotExtended

-----------------------------------------------------------------------------
(* The books balance, and the scheduler is a pool of jobs that never uses  *)
(* more than it has                                                        *)

-----------------------------------------------------------------------------
(* Sums over sets of jobs, as numbers of units *)

\* The units of finitely many jobs are finitely many
LEMMA UnitsFinite ==
  ASSUME NEW amount \in [Jobs -> Nat], NEW S \in SUBSET Jobs
  PROVE  IsFiniteSet(Units(amount, S))
<1> DEFINE f == [j \in S |-> {j} \X (1..amount[j])]
           T == {{j} \X (1..amount[j]) : j \in S}
<1>1. IsFiniteSet(S)
  BY JobsAssumption, FS_Subset
<1>2. f \in Surjection(S, T)
  BY DEF Surjection
<1>3. IsFiniteSet(T)
  BY <1>1, <1>2, FS_Surjection
<1>4. ASSUME NEW j \in S PROVE IsFiniteSet({j} \X (1..amount[j]))
  <2>1. IsFiniteSet({j})
    BY FS_Singleton
  <2>2. amount[j] \in Nat
    OBVIOUS
  <2>3. IsFiniteSet(1..amount[j])
    BY <2>2, FS_Interval
  <2> QED
    BY <2>1, <2>3, FS_Product
<1>5. \A U \in T : IsFiniteSet(U)
  BY <1>4
<1>6. IsFiniteSet(UNION T)
  BY <1>3, <1>5, FS_UNION
<1> QED
  BY <1>6 DEF Units

\* One more job adds what it takes
LEMMA TotalAdd ==
  ASSUME NEW amount \in [Jobs -> Nat], NEW S \in SUBSET Jobs, NEW j \in Jobs, j \notin S
  PROVE  Total(amount, S \cup {j}) = Total(amount, S) + amount[j]
<1> DEFINE new == {j} \X (1..amount[j])
<1>1. amount[j] \in Nat
  OBVIOUS
<1>2. Units(amount, S \cup {j}) = Units(amount, S) \cup new
  BY DEF Units
<1>3. Units(amount, S) \cap new = {}
  BY DEF Units
<1>4. IsFiniteSet(new) /\ Cardinality(new) = amount[j]
  <2>1. IsFiniteSet({j}) /\ Cardinality({j}) = 1
    BY FS_Singleton
  <2>2. IsFiniteSet(1..amount[j]) /\ Cardinality(1..amount[j]) = amount[j]
    BY <1>1, FS_Interval
  <2>3. IsFiniteSet(new) /\ Cardinality(new) = Cardinality({j}) * Cardinality(1..amount[j])
    BY <2>1, <2>2, FS_Product
  <2> QED
    BY <1>1, <2>1, <2>2, <2>3
<1>5. IsFiniteSet(Units(amount, S))
  BY UnitsFinite
<1>6. Cardinality(Units(amount, S)) \in Nat
  BY <1>5, FS_CardinalityType
<1> HIDE DEF new
<1>7. Cardinality(Units(amount, S) \cup new)
        = Cardinality(Units(amount, S)) + Cardinality(new) - Cardinality({})
  BY <1>3, <1>4, <1>5, FS_Union
<1>8. Cardinality({}) = 0
  BY FS_EmptySet
<1>9. Cardinality(Units(amount, S) \cup new) = Cardinality(Units(amount, S)) + amount[j]
  BY <1>1, <1>4, <1>6, <1>7, <1>8
<1> QED
  BY <1>2, <1>9 DEF Total

\* One job less gives back what it took
LEMMA TotalRemove ==
  ASSUME NEW amount \in [Jobs -> Nat], NEW S \in SUBSET Jobs, NEW j \in S
  PROVE  Total(amount, S \ {j}) = Total(amount, S) - amount[j]
<1>1. S = (S \ {j}) \cup {j} /\ j \notin S \ {j} /\ j \in Jobs /\ S \ {j} \in SUBSET Jobs
  OBVIOUS
<1>2. Total(amount, S) = Total(amount, S \ {j}) + amount[j]
  BY <1>1, TotalAdd
<1>3. Total(amount, S \ {j}) \in Nat
  BY <1>1, UnitsFinite, FS_CardinalityType DEF Total
<1>4. amount[j] \in Nat
  BY <1>1
<1> QED
  BY <1>2, <1>3, <1>4

\* Nothing is taken by nobody, and a sum is a natural number
LEMMA TotalType ==
  ASSUME NEW amount \in [Jobs -> Nat]
  PROVE  /\ Total(amount, {}) = 0
         /\ \A S \in SUBSET Jobs : Total(amount, S) \in Nat
<1>1. Units(amount, {}) = {}
  BY DEF Units
<1>2. \A S \in SUBSET Jobs : Total(amount, S) \in Nat
  BY UnitsFinite, FS_CardinalityType DEF Total
<1> QED
  BY <1>1, <1>2, FS_EmptySet DEF Total

-----------------------------------------------------------------------------
(* The books, job by job *)

\* The jobs of fl that are charged to key k of region r, by the zones of their attempts
Charged(fl, la, r, k) ==
  {j \in fl : zoneRegion[la[j].zone] = r /\ k \in budgetKeys(j, r)}

OfShape(fl, s) == {j \in fl : Shape[j] = s}

\* BooksBalance in terms of the jobs in flight instead of the pool's placement
Books ==
  /\ \A r \in Regions, k \in Keys :
       usedCPU[r][k] = Total(CPUCost, Charged(inflight, last, r, k))
  /\ usedNets = Total(Networks, inflight)
  /\ usedSubnets = Total(Subnets, inflight)
  /\ \A s \in Shapes : runningPerShape[s] = Cardinality(OfShape(inflight, s))

\* An empty schedule has empty books
LEMMA BooksInit == Init => Books
<1> SUFFICES ASSUME Init PROVE Books
  OBVIOUS
<1>1. /\ \A r \in Regions, k \in Keys : usedCPU[r][k] = 0 /\ Charged(inflight, last, r, k) = {}
      /\ usedNets = 0 /\ usedSubnets = 0 /\ inflight = {}
      /\ \A s \in Shapes : runningPerShape[s] = 0 /\ OfShape(inflight, s) = {}
  BY DEF Init, Charged, OfShape
<1>2. Total(CPUCost, {}) = 0 /\ Total(Networks, {}) = 0 /\ Total(Subnets, {}) = 0
  BY TotalType, JobsAssumption
<1>3. Cardinality({}) = 0
  BY FS_EmptySet
<1> QED
  BY <1>1, <1>2, <1>3 DEF Books

\* A launch charges exactly the keys of its own region; for every other key the charged
\* jobs stay the same
LEMMA BooksLaunch ==
  ASSUME TypeOK, RunningIsInflight, Books, NEW j \in Jobs, NEW z \in Zones, Launch(j, z)
  PROVE  Books'
<1> DEFINE q == zoneRegion[z]
<1>1. j \notin inflight
  BY DEF Launch, Picking, RunningIsInflight
<1>2. /\ inflight' = inflight \cup {j}
      /\ last' = [last EXCEPT ![j] = [zone |-> z, result |-> "running"]]
      /\ charge(j, q, 1)
  BY DEF Launch
<1>3. q \in Regions /\ CPUCost[j] \in Nat /\ Networks[j] \in Nat /\ Subnets[j] \in Nat
  BY BudgetAssumption, JobsAssumption
<1>4. CPUCost \in [Jobs -> Nat] /\ Networks \in [Jobs -> Nat] /\ Subnets \in [Jobs -> Nat]
  BY JobsAssumption
<1>5. inflight \in SUBSET Jobs /\ last \in [Jobs -> [zone : Zones \cup {NoZone}, result : Results]]
  BY DEF TypeOK, DataOK
<1> HIDE DEF q
<1>6. ASSUME NEW r \in Regions, NEW k \in Keys
      PROVE  usedCPU'[r][k] = Total(CPUCost, Charged(inflight', last', r, k))
  <2> DEFINE C == Charged(inflight, last, r, k)
  <2>1. usedCPU[r][k] = Total(CPUCost, C) /\ C \in SUBSET Jobs /\ j \notin C
    BY <1>1, <1>5 DEF Books, Charged
  <2>2. usedCPU[r][k] \in Int
    BY DEF TypeOK, DataOK
  <2>3. CASE r = q /\ k \in budgetKeys(j, q)
    <3>1. Charged(inflight', last', r, k) = C \cup {j}
      BY <1>1, <1>2, <1>5, <2>3 DEF Charged, q
    <3>2. usedCPU'[r][k] = usedCPU[r][k] + 1 * CPUCost[j]
      BY <1>2, <1>3, <2>3 DEF charge, TypeOK, DataOK
    <3>3. usedCPU'[r][k] = usedCPU[r][k] + CPUCost[j]
      BY <1>3, <3>2
    <3> HIDE DEF C
    <3> QED
      BY <1>4, <2>1, <3>1, <3>3, TotalAdd
  <2>4. CASE ~(r = q /\ k \in budgetKeys(j, q))
    <3>1. Charged(inflight', last', r, k) = C
      BY <1>1, <1>2, <1>5, <2>4 DEF Charged, q
    <3>2. usedCPU'[r][k] = usedCPU[r][k]
      BY <1>2, <1>3, <2>2, <2>4 DEF charge, TypeOK, DataOK
    <3> QED
      BY <2>1, <3>1, <3>2
  <2> QED
    BY <2>3, <2>4
<1>7. usedNets' = Total(Networks, inflight') /\ usedSubnets' = Total(Subnets, inflight')
  <2>1. usedNets' = usedNets + Networks[j] /\ usedSubnets' = usedSubnets + Subnets[j]
    BY <1>2, <1>3 DEF charge, TypeOK, DataOK
  <2>2. usedNets = Total(Networks, inflight) /\ usedSubnets = Total(Subnets, inflight)
    BY DEF Books
  <2> QED
    BY <1>1, <1>2, <1>4, <1>5, <2>1, <2>2, TotalAdd
<1>8. ASSUME NEW s \in Shapes
      PROVE  runningPerShape'[s] = Cardinality(OfShape(inflight', s))
  <2>1. IsFiniteSet(OfShape(inflight, s))
    BY <1>5, JobsAssumption, FS_Subset DEF OfShape
  <2>2. runningPerShape[s] = Cardinality(OfShape(inflight, s)) /\ runningPerShape[s] \in Int
    BY DEF Books, TypeOK, DataOK
  <2>3. runningPerShape' = [runningPerShape EXCEPT ![Shape[j]] = @ + 1]
    BY <1>2 DEF charge
  <2>4. CASE s = Shape[j]
    <3>1. OfShape(inflight', s) = OfShape(inflight, s) \cup {j} /\ j \notin OfShape(inflight, s)
      BY <1>1, <1>2, <2>4 DEF OfShape
    <3>2. runningPerShape'[s] = runningPerShape[s] + 1
      BY <2>3, <2>4 DEF TypeOK, DataOK
    <3> QED
      BY <2>1, <2>2, <3>1, <3>2, FS_AddElement
  <2>5. CASE s # Shape[j]
    <3>1. OfShape(inflight', s) = OfShape(inflight, s)
      BY <1>2, <2>5 DEF OfShape
    <3>2. runningPerShape'[s] = runningPerShape[s]
      BY <2>3, <2>5 DEF TypeOK, DataOK
    <3> QED
      BY <2>2, <3>1, <3>2
  <2> QED
    BY <2>4, <2>5
<1> QED
  BY <1>6, <1>7, <1>8 DEF Books

\* A completion gives back to the region its attempt ran in what the launch took there
LEMMA BooksReceive ==
  ASSUME TypeOK, RunningIsInflight, Books, NEW j \in Jobs, NEW c, Receive(j, c)
  PROVE  Books'
<1> DEFINE q == zoneRegion[last[j].zone]
<1>1. /\ j \in inflight
      /\ inflight' = inflight \ {j}
      /\ charge(j, q, -1)
      /\ last' = [last EXCEPT ![j] = [zone |-> last[j].zone, result |-> c]]
  BY DEF Receive
<1>2. q \in Regions
  BY <1>1, BudgetAssumption DEF RunningIsInflight
<1>3. CPUCost[j] \in Nat /\ Networks[j] \in Nat /\ Subnets[j] \in Nat
  BY JobsAssumption
<1>4. CPUCost \in [Jobs -> Nat] /\ Networks \in [Jobs -> Nat] /\ Subnets \in [Jobs -> Nat]
  BY JobsAssumption
<1>5. inflight \in SUBSET Jobs /\ last \in [Jobs -> [zone : Zones \cup {NoZone}, result : Results]]
  BY DEF TypeOK, DataOK
<1> HIDE DEF q
<1>6. ASSUME NEW r \in Regions, NEW k \in Keys
      PROVE  usedCPU'[r][k] = Total(CPUCost, Charged(inflight', last', r, k))
  <2> DEFINE C == Charged(inflight, last, r, k)
  <2>1. usedCPU[r][k] = Total(CPUCost, C) /\ C \in SUBSET Jobs
    BY <1>5 DEF Books, Charged
  <2>2. usedCPU[r][k] \in Int
    BY DEF TypeOK, DataOK
  <2>3. Charged(inflight', last', r, k) = C \ {j}
    BY <1>1, <1>5 DEF Charged
  <2>4. CASE r = q /\ k \in budgetKeys(j, q)
    <3>1. j \in C
      BY <1>1, <2>4 DEF Charged, q
    <3>2. usedCPU'[r][k] = usedCPU[r][k] + (-1) * CPUCost[j]
      BY <1>1, <1>2, <2>4 DEF charge, TypeOK, DataOK
    <3>3. usedCPU'[r][k] = usedCPU[r][k] - CPUCost[j]
      BY <1>3, <2>2, <3>2
    <3> HIDE DEF C
    <3> QED
      BY <1>4, <2>1, <2>3, <3>1, <3>3, TotalRemove
  <2>5. CASE ~(r = q /\ k \in budgetKeys(j, q))
    <3>1. C \ {j} = C
      BY <2>5 DEF Charged, q
    <3>2. usedCPU'[r][k] = usedCPU[r][k]
      BY <1>1, <1>2, <2>2, <2>5 DEF charge, TypeOK, DataOK
    <3> QED
      BY <2>1, <2>3, <3>1, <3>2
  <2> QED
    BY <2>4, <2>5
<1>7. usedNets' = Total(Networks, inflight') /\ usedSubnets' = Total(Subnets, inflight')
  <2>1. usedNets' = usedNets - Networks[j] /\ usedSubnets' = usedSubnets - Subnets[j]
    <3>1. usedNets \in Int /\ usedSubnets \in Int
      BY DEF TypeOK, DataOK
    <3> QED
      BY <1>1, <1>3, <3>1 DEF charge
  <2>2. usedNets = Total(Networks, inflight) /\ usedSubnets = Total(Subnets, inflight)
    BY DEF Books
  <2> QED
    BY <1>1, <1>4, <1>5, <2>1, <2>2, TotalRemove
<1>8. ASSUME NEW s \in Shapes
      PROVE  runningPerShape'[s] = Cardinality(OfShape(inflight', s))
  <2>1. IsFiniteSet(OfShape(inflight, s))
    BY <1>5, JobsAssumption, FS_Subset DEF OfShape
  <2>2. runningPerShape[s] = Cardinality(OfShape(inflight, s)) /\ runningPerShape[s] \in Int
    BY DEF Books, TypeOK, DataOK
  <2>3. runningPerShape' = [runningPerShape EXCEPT ![Shape[j]] = @ + (-1)]
    BY <1>1 DEF charge
  <2>4. OfShape(inflight', s) = OfShape(inflight, s) \ {j}
    BY <1>1 DEF OfShape
  <2>5. CASE s = Shape[j]
    <3>1. j \in OfShape(inflight, s)
      BY <1>1, <2>5 DEF OfShape
    <3>2. runningPerShape'[s] = runningPerShape[s] - 1
      BY <2>2, <2>3, <2>5 DEF TypeOK, DataOK
    <3> QED
      BY <2>1, <2>2, <2>4, <3>1, <3>2, FS_RemoveElement
  <2>6. CASE s # Shape[j]
    <3>1. OfShape(inflight, s) \ {j} = OfShape(inflight, s)
      BY <2>6 DEF OfShape
    <3>2. runningPerShape'[s] = runningPerShape[s]
      BY <2>3, <2>6 DEF TypeOK, DataOK
    <3> QED
      BY <2>2, <2>4, <3>1, <3>2
  <2> QED
    BY <2>5, <2>6
<1> QED
  BY <1>6, <1>7, <1>8 DEF Books

\* The steps that neither launch nor complete leave the books alone
LEMMA BooksStep ==
  ASSUME TypeOK, RunningIsInflight, Books, [Next]_vars
  PROVE  Books'
<1>1. CASE UNCHANGED <<status, last, usageVars, inflight>>
  BY <1>1 DEF Books, Charged, OfShape, usageVars
<1> QED
  BY <1>1, BooksLaunch, BooksReceive, StepKinds

-----------------------------------------------------------------------------
(* The refinement mapping *)

\* The jobs the mapped pool has placed are the jobs in flight, and what it charges to a
\* key is what the scheduler does
LEMMA PlacementIsFlight ==
  ASSUME NEW fl \in SUBSET Jobs, NEW la, \A j \in fl : la[j].zone \in Zones,
         NEW p, p = [j \in Jobs |-> IF j \in fl THEN la[j].zone ELSE NoZone]
  PROVE  /\ Pool!PlacedJobs(p) = fl
         /\ \A r \in Regions, k \in Keys : Pool!ChargedTo(p, r, k) = Charged(fl, la, r, k)
<1>1. Pool!NoZone = NoZone /\ NoZone \notin Zones
  BY NoZoneAssumption DEF Pool!NoZone, NoZone
<1>2. Pool!PlacedJobs(p) = fl
  BY <1>1 DEF Pool!PlacedJobs
<1>3. \A j, r : Pool!budgetKeys(j, r) = budgetKeys(j, r)
  BY DEF Pool!budgetKeys, budgetKeys
<1> QED
  BY <1>2, <1>3 DEF Pool!ChargedTo, Charged

\* The static questions mean the same in both modules
LEMMA PoolPlacement ==
  /\ \A S : Pool!Cardinality(S) = Cardinality(S)
  /\ \A a, S : Pool!Total(a, S) = Total(a, S)
  /\ \A r, k : Pool!usable(r, k) = usable(r, k)
  /\ \A j : Pool!ZonesOf(j) = ZonesOf(j) /\ Pool!SweepZones(j) = SweepZones(j)
<1>0. \A S : Pool!Cardinality(S) = Cardinality(S)
  BY DEF Pool!Cardinality, Cardinality
<1>1. ASSUME NEW a, NEW S PROVE Pool!Total(a, S) = Total(a, S)
  <2>1. Pool!Units(a, S) = Units(a, S)
    BY DEF Pool!Units, Units
  <2> QED
    BY <1>0, <2>1 DEF Pool!Total, Total
<1>2. \A r, k : Pool!usable(r, k) = usable(r, k)
  BY DEF Pool!usable, usable
<1>3. \A j : Pool!ZonesOf(j) = ZonesOf(j)
  BY DEF Pool!ZonesOf, ZonesOf
<1>4. \A j, r : Pool!budgetKeys(j, r) = budgetKeys(j, r)
  BY DEF Pool!budgetKeys, budgetKeys
<1>5. \A j, r : Pool!fitsConfiguredBudget(j, r) = fitsConfiguredBudget(j, r)
  BY <1>2, <1>4 DEF Pool!fitsConfiguredBudget, fitsConfiguredBudget
<1>6. \A j : Pool!SweepZones(j) = SweepZones(j)
  BY <1>3, <1>5 DEF Pool!SweepZones, SweepZones
<1> QED
  BY <1>0, <1>1, <1>2, <1>3, <1>6

\* pickZone only offers zones of the job's sweep: with nothing charged below zero, room
\* now is room in an empty region
LEMMA PickedZoneInSweep ==
  ASSUME TypeOK, Books, NEW j \in Jobs, NEW out, NEW z \in PickedZones(j, out)
  PROVE  z \in SweepZones(j) \ out
<1> DEFINE q == zoneRegion[z]
<1>1. z \in Zones /\ z \in ZonesOf(j) \ out /\ headroom(j, q) >= CPUCost[j]
  BY PickedZonesFit
<1>2. q \in Regions
  BY <1>1, BudgetAssumption
<1> HIDE DEF q
<1>3. ASSUME NEW k \in budgetKeys(j, q) PROVE CPUCost[j] <= usable(q, k)
  <2>1. k \in Keys
    BY <1>2, BudgetKeysType
  <2>2. usedCPU[q][k] + CPUCost[j] <= usable(q, k)
    BY <1>1, <1>2, HeadroomIsRoom
  <2>3. usedCPU[q][k] = Total(CPUCost, Charged(inflight, last, q, k))
    BY <1>2, <2>1 DEF Books
  <2>4. Charged(inflight, last, q, k) \in SUBSET Jobs
    BY DEF Charged, TypeOK, DataOK
  <2>5. usedCPU[q][k] \in Nat
    BY <2>3, <2>4, TotalType, JobsAssumption
  <2> QED
    BY <1>2, <2>1, <2>2, <2>5, UsableType, JobsAssumption
<1>4. fitsConfiguredBudget(j, q)
  BY <1>3 DEF fitsConfiguredBudget
<1> QED
  BY <1>1, <1>4 DEF SweepZones, q

-----------------------------------------------------------------------------
(* Theorems *)

BooksInv == AdmissionInv /\ Books

\* The books are those of the running jobs in every reachable state
THEOREM BooksInvariant == Spec => []BooksInv
<1>1. Init => BooksInv
  BY TypeInit, RunningInit, BudgetInit, BooksInit DEF BooksInv, AdmissionInv
<1>2. BooksInv /\ [Next]_vars => BooksInv'
  BY TypeStep, RunningStep, BudgetStep, BooksStep DEF BooksInv, AdmissionInv
<1> QED
  BY <1>1, <1>2, PTL DEF Spec

\* No counter is ever negative, for any jobs, keys and costs: each is a sum over the jobs in
\* flight (charge)
THEOREM CountersNotNegative == Spec => []NothingBelowZero
<1>1. BooksInv => NothingBelowZero
  <2> SUFFICES ASSUME BooksInv PROVE NothingBelowZero
    OBVIOUS
  <2>1. TypeOK /\ inflight \in SUBSET Jobs /\ IsFiniteSet(inflight)
    BY JobsAssumption, FS_Subset DEF BooksInv, AdmissionInv, TypeOK, DataOK
  <2>2. running \in Nat
    BY <2>1, FS_CardinalityType DEF BooksInv, AdmissionInv, RunningIsInflight
  <2>3. runningPerShape \in [Shapes -> Nat]
    <3>1. \A s : OfShape(inflight, s) \subseteq inflight
      BY DEF OfShape
    <3>2. \A s : Cardinality(OfShape(inflight, s)) \in Nat
      BY <2>1, <3>1, FS_Subset, FS_CardinalityType
    <3>3. \A s \in Shapes : runningPerShape[s] = Cardinality(OfShape(inflight, s))
      BY DEF BooksInv, Books
    <3> QED
      BY <2>1, <3>2, <3>3 DEF TypeOK, DataOK
  <2>4. usedCPU \in [Regions -> [Keys -> Nat]]
    <3>1. \A r, k : Charged(inflight, last, r, k) \in SUBSET Jobs
      BY <2>1 DEF Charged
    <3>2. \A r \in Regions, k \in Keys : usedCPU[r][k] \in Nat
      BY <3>1, TotalType, JobsAssumption DEF BooksInv, Books
    <3>3. \A r \in Regions : usedCPU[r] \in [Keys -> Nat]
      BY <2>1, <3>2 DEF TypeOK, DataOK
    <3> QED
      BY <2>1, <3>3 DEF TypeOK, DataOK
  <2>5. usedNets \in Nat /\ usedSubnets \in Nat
    BY <2>1, TotalType, JobsAssumption DEF BooksInv, Books
  <2> QED
    BY <2>1, <2>2, <2>3, <2>4, <2>5 DEF NothingBelowZero
<1> QED
  BY <1>1, BooksInvariant, PTL

\* Nothing leaks from the books, for any number of jobs and any order of launches and
\* completions: each counter that admission relies on is the sum of what the jobs in
\* flight take (charge)
THEOREM BooksAlwaysBalance == Spec => []BooksBalance
<1>1. BooksInv => BooksBalance
  <2> SUFFICES ASSUME BooksInv PROVE BooksBalance
    OBVIOUS
  <2>1. inflight \in SUBSET Jobs /\ \A j \in inflight : last[j].zone \in Zones
    BY DEF BooksInv, AdmissionInv, TypeOK, DataOK, RunningIsInflight
  <2>2. \A r \in Regions, k \in Keys :
          Pool!ChargedTo(Placed, r, k) = Charged(inflight, last, r, k)
    BY <2>1, PlacementIsFlight DEF Placed
  <2>3. \A s : OfShape(inflight, s) = {j \in inflight : Shape[j] = s}
    BY DEF OfShape
  <2> QED
    BY <2>2, <2>3 DEF BooksInv, Books, BooksBalance
<1> QED
  BY <1>1, BooksInvariant, PTL

\* What fits the counters after a step fits the pool: the sums of the jobs placed are the
\* counters, which stay within the budgets
LEMMA PlacementFits ==
  ASSUME BooksInv'
  PROVE  Pool!Fits(Placed')
<1>1. inflight' \in SUBSET Jobs /\ \A j \in inflight' : last'[j].zone \in Zones
  BY DEF BooksInv, AdmissionInv, TypeOK, DataOK, RunningIsInflight
<1>2. /\ Pool!PlacedJobs(Placed') = inflight'
      /\ \A r \in Regions, k \in Keys :
           Pool!ChargedTo(Placed', r, k) = Charged(inflight', last', r, k)
  BY <1>1, PlacementIsFlight DEF Placed
<1>3. /\ Cardinality(inflight') <= ContainerCap
      /\ Total(Networks, inflight') <= NetworksBudget
      /\ Total(Subnets, inflight') <= SubnetsBudget
  BY DEF BooksInv, AdmissionInv, RunningIsInflight, WithinBudgets, Books
<1>4. \A r \in Regions, k \in Keys :
        Total(CPUCost, Charged(inflight', last', r, k)) <= usable(r, k)
  BY DEF BooksInv, AdmissionInv, WithinBudgets, Books, usable
<1> QED
  BY <1>2, <1>3, <1>4, PoolPlacement DEF Pool!Fits

\* A launch starts a waiting job in a zone of its sweep, under the cap of its shape
LEMMA LaunchIsStart ==
  ASSUME BooksInv, BooksInv', NEW j \in Jobs, NEW z \in Zones, Launch(j, z)
  PROVE  Pool!Start(j, z) /\ z \in Pool!ZonesOf(j)
<1>1. TypeOK /\ RunningIsInflight /\ Books
  BY DEF BooksInv, AdmissionInv
<1>2. /\ Picking(j)
      /\ z \in PickedZones(j, CurrentSweep(j))
      /\ status' = [status EXCEPT ![j] = "running"]
      /\ inflight' = inflight \cup {j}
      /\ last' = [last EXCEPT ![j] = [zone |-> z, result |-> "running"]]
  BY DEF Launch
<1>3. z \in SweepZones(j)
  BY <1>1, <1>2, PickedZoneInSweep
<1>4. z \in Pool!SweepZones(j) /\ z \in Pool!ZonesOf(j)
  BY <1>3, PoolPlacement DEF SweepZones
<1>5. Placed' = [Placed EXCEPT ![j] = z]
  BY <1>1, <1>2 DEF Placed, TypeOK, DataOK
<1>6. Pool!ShapeHasRoom(j)
  <2>1. inflight \in SUBSET Jobs /\ \A i \in inflight : last[i].zone \in Zones
    BY <1>1 DEF TypeOK, DataOK, RunningIsInflight
  <2>2. Pool!PlacedJobs(Placed) = inflight
    BY <2>1, PlacementIsFlight DEF Placed
  <2>3. Shape[j] \in Shapes
    BY DEF Shapes
  <2>4. runningPerShape[Shape[j]] = Cardinality({i \in inflight : Shape[i] = Shape[j]})
    BY <1>1, <2>3 DEF Books, OfShape
  <2>5. runningPerShape[Shape[j]] \in Int /\ MaxParallel[j] \in Nat
    BY <1>1, <2>3, JobsAssumption DEF TypeOK, DataOK
  <2>6. MaxParallel[j] > 0 => runningPerShape[Shape[j]] < MaxParallel[j]
    BY <1>2, <2>5 DEF Picking, shapeFull
  <2> QED
    BY <2>2, <2>4, <2>6, PoolPlacement DEF Pool!ShapeHasRoom
<1>7. status[j] = "queued"
  BY <1>2 DEF Picking
<1> QED
  BY <1>2, <1>4, <1>5, <1>6, <1>7, PlacementFits DEF Pool!Start

\* Every step of the scheduler starts one job of the pool, finishes one, or does not show
LEMMA PoolStep ==
  ASSUME BooksInv, BooksInv', [Next]_vars
  PROVE  [Pool!Next]_<<status, Placed>>
<1>1. CASE UNCHANGED <<status, last, usageVars, inflight>>
  BY <1>1 DEF Placed
<1>2. ASSUME NEW j \in Jobs, NEW z \in Zones, Launch(j, z) PROVE Pool!Next
  BY <1>2, LaunchIsStart DEF Pool!Next
<1>3. ASSUME NEW j \in Jobs, NEW c \in Results \ {"running"},
             NEW s \in Statuses \ {"running", "skipped_quarantine"},
             Receive(j, c), status' = [status EXCEPT ![j] = s]
      PROVE  Pool!Next
  <2>1. TypeOK /\ RunningIsInflight
    BY DEF BooksInv, AdmissionInv
  <2>2. /\ j \in inflight
        /\ inflight' = inflight \ {j}
        /\ last' = [last EXCEPT ![j] = [zone |-> last[j].zone, result |-> c]]
    BY <1>3 DEF Receive
  <2>3. Placed' = [Placed EXCEPT ![j] = NoZone]
    BY <2>1, <2>2 DEF Placed, TypeOK, DataOK
  <2>4. status[j] = "running"
    BY <2>1, <2>2 DEF RunningIsInflight
  <2>5. Pool!Finish(j, s)
    BY <1>3, <2>3, <2>4 DEF Pool!Finish, Pool!NoZone, NoZone
  <2>6. s \in {"queued", "passed", "failed_real", "failed_infra"}
    BY DEF Statuses
  <2> QED
    BY <2>5, <2>6 DEF Pool!Next
<1> QED
  BY <1>1, <1>2, <1>3, StepKinds

\* Whatever the retries, cooldowns, penalties, pauses and interrupts, what the scheduler
\* does is a behaviour of the pool: it starts waiting jobs where they fit and within every
\* budget, and a verdict is final (Scheduler.Run)
THEOREM SchedulerIsAPool == Spec => ImplementsPool
<1>1. Init => Pool!Init
  BY DEF Init, Pool!Init, Placed, Pool!NoZone, NoZone
<1>2. BooksInv /\ BooksInv' /\ [Next]_vars => [Pool!Next]_<<status, Placed>>
  BY PoolStep
<1> QED
  BY <1>1, <1>2, BooksInvariant, PTL DEF Spec, ImplementsPool, Pool!Spec

-----------------------------------------------------------------------------
(* Verdicts and retries *)

\* RetryCaps of one job, with status s, history h and n completed sweeps
Caps(s, h, n) ==
  /\ s = "failed_infra" <=> n >= RetriesStockout \/ \E c \in CappedClasses : h[c] >= Retries[c]
  /\ s = "failed_real" <=> h["fail"] > RetriesFailure
  /\ s = "passed" <=> h["pass"] > 0
  /\ n <= RetriesStockout
  /\ h["fail"] <= RetriesFailure + 1
  /\ \A c \in CappedClasses : h[c] <= Retries[c]

\* A history with one more attempt of class c
OneMore(h, c) == [d \in Classes |-> IF d = c THEN h[d] + 1 ELSE h[d]]

\* RetryCaps, job by job
LEMMA CapsMeaning == RetryCaps <=> \A j \in Jobs : Caps(status[j], hits[j], stockoutRounds[j])
BY DEF RetryCaps, Caps, Exhausted

\* What the switch of handleCompletion makes of a running job within its caps
LEMMA CapsComplete ==
  ASSUME NEW h \in [Classes -> Nat], NEW n \in Nat, Caps("running", h, n),
         NEW c \in CappedClasses \cup {"pass", "fail"},
         NEW s,
         s = CASE c = "pass" -> "passed"
               [] c = "fail" -> IF h[c] + 1 < RetriesFailure + 1 THEN "queued" ELSE "failed_real"
               [] c \in CappedClasses -> IF h[c] + 1 >= Retries[c] THEN "failed_infra" ELSE "queued"
  PROVE  Caps(s, OneMore(h, c), n)
<1>1. /\ RetriesFailure \in Nat /\ RetriesStockout \in Nat
      /\ \A d \in CappedClasses : Retries[d] \in Nat \ {0}
  BY SchedulerAssumption
<1>2. /\ n < RetriesStockout
      /\ \A d \in CappedClasses : h[d] < Retries[d]
      /\ h["fail"] <= RetriesFailure
      /\ h["pass"] = 0
  BY <1>1 DEF Caps, Classes
<1>3. \A d \in Classes : OneMore(h, c)[d] = IF d = c THEN h[d] + 1 ELSE h[d]
  BY DEF OneMore
<1>4. CappedClasses \subseteq Classes /\ "pass" \in Classes /\ "fail" \in Classes
      /\ "pass" \notin CappedClasses /\ "fail" \notin CappedClasses
  BY DEF Classes, CappedClasses
<1>5. \A d \in Classes : h[d] \in Nat
  OBVIOUS
<1> DEFINE g == OneMore(h, c)
<1> HIDE DEF g
<1>6. CASE c = "pass"
  <2>1. s = "passed"
    BY <1>4, <1>6
  <2>2. g["pass"] = 1 /\ g["fail"] = h["fail"] /\ \A d \in CappedClasses : g[d] = h[d]
    BY <1>2, <1>3, <1>4, <1>6 DEF g
  <2> QED
    BY <1>1, <1>2, <1>4, <1>5, <2>1, <2>2 DEF Caps, g
<1>7. CASE c = "fail"
  <2>1. s = IF h["fail"] + 1 < RetriesFailure + 1 THEN "queued" ELSE "failed_real"
    BY <1>4, <1>7
  <2>2. g["fail"] = h["fail"] + 1 /\ g["pass"] = 0 /\ \A d \in CappedClasses : g[d] = h[d]
    BY <1>2, <1>3, <1>4, <1>7 DEF g
  <2> QED
    BY <1>1, <1>2, <1>4, <1>5, <2>1, <2>2 DEF Caps, g
<1>8. CASE c \in CappedClasses
  <2>1. s = IF h[c] + 1 >= Retries[c] THEN "failed_infra" ELSE "queued"
    BY <1>4, <1>8
  <2>2. g[c] = h[c] + 1 /\ g["pass"] = 0 /\ g["fail"] = h["fail"]
        /\ \A d \in CappedClasses \ {c} : g[d] = h[d]
    BY <1>2, <1>3, <1>4, <1>8 DEF g
  <2> QED
    BY <1>1, <1>2, <1>4, <1>5, <1>8, <2>1, <2>2 DEF Caps, g
<1> QED
  BY <1>6, <1>7, <1>8

\* A job that is in flight, seen by RetryCaps, and what a completion closes
LEMMA ReceiveHits ==
  ASSUME TypeOK, RunningIsInflight, NEW j \in Jobs, NEW c, Receive(j, c)
  PROVE  /\ status[j] = "running"
         /\ hits' = [hits EXCEPT ![j] = OneMore(hits[j], c)]
BY DEF Receive, RunningIsInflight, OneMore

\* A new job has used nothing of its retries
LEMMA RetryInit == Init => RetryCaps
<1> SUFFICES ASSUME Init PROVE RetryCaps
  OBVIOUS
<1>1. /\ RetriesFailure \in Nat /\ RetriesStockout \in Nat \ {0}
      /\ \A d \in CappedClasses : Retries[d] \in Nat \ {0}
  BY SchedulerAssumption
<1>2. CappedClasses \subseteq Classes /\ "pass" \in Classes /\ "fail" \in Classes
  BY DEF Classes, CappedClasses
<1>3. ASSUME NEW j \in Jobs PROVE Caps(status[j], hits[j], stockoutRounds[j])
  <2>1. status[j] = "skipped_quarantine" \/ status[j] = "queued"
    BY DEF Init
  <2>2. stockoutRounds[j] = 0 /\ \A c \in Classes : hits[j][c] = 0
    BY DEF Init
  <2> QED
    BY <1>1, <1>2, <2>1, <2>2 DEF Caps
<1> QED
  BY <1>3, CapsMeaning

\* The end of a sweep is the only thing that ends a job by stockouts
LEMMA RetryStockout ==
  ASSUME TypeOK, NEW j \in Jobs, NEW z,
         Caps("running", hits[j], stockoutRounds[j]),
         recordStockout(j, z)
  PROVE  \E s \in {"queued", "failed_infra"}, n \in Nat :
           /\ status' = [status EXCEPT ![j] = s]
           /\ stockoutRounds' = [stockoutRounds EXCEPT ![j] = n]
           /\ Caps(s, OneMore(hits[j], "stockout"), n)
<1> DEFINE done == SweepDone(j, z)
           rounds == stockoutRounds[j] + (IF done THEN 1 ELSE 0)
           exhausted == done /\ rounds >= RetriesStockout
           s == IF exhausted THEN "failed_infra" ELSE "queued"
           h == hits[j]
           g == OneMore(h, "stockout")
<1>1. /\ status' = [status EXCEPT ![j] = s]
      /\ stockoutRounds' = [stockoutRounds EXCEPT ![j] = rounds]
  BY DEF recordStockout
<1>2. stockoutRounds[j] \in Nat /\ h \in [Classes -> Nat]
  BY DEF TypeOK, DataOK
<1>3. /\ RetriesFailure \in Nat /\ RetriesStockout \in Nat
      /\ \A d \in CappedClasses : Retries[d] \in Nat \ {0}
  BY SchedulerAssumption
<1>4. CappedClasses \subseteq Classes \ {"stockout"} /\ {"pass", "fail"} \subseteq Classes \ {"stockout"}
  BY DEF Classes, CappedClasses
<1>5. \A d \in Classes \ {"stockout"} : g[d] = h[d] /\ h[d] \in Nat
  BY <1>2 DEF OneMore
<1> HIDE DEF h, g
<1>6. /\ stockoutRounds[j] < RetriesStockout
      /\ \A d \in CappedClasses : g[d] < Retries[d]
      /\ g["fail"] <= RetriesFailure
      /\ g["pass"] = 0
  BY <1>2, <1>3, <1>4, <1>5 DEF Caps, h
<1>7. rounds \in Nat /\ rounds <= RetriesStockout /\ (rounds >= RetriesStockout <=> exhausted)
  BY <1>2, <1>3, <1>6
<1> HIDE DEF done, rounds, exhausted
<1>8. Caps(s, g, rounds)
  <2>1. s = "failed_infra" <=> rounds >= RetriesStockout
    BY <1>7
  <2>2. s # "failed_real" /\ s # "passed"
    OBVIOUS
  <2>3. g["fail"] \in Nat /\ \A d \in CappedClasses : g[d] \in Nat
    BY <1>4, <1>5
  <2> HIDE DEF s
  <2> QED
    BY <1>3, <1>6, <1>7, <2>1, <2>2, <2>3 DEF Caps
<1> QED
  BY <1>1, <1>7, <1>8 DEF g, h

\* Only completions touch the history, and each one keeps the caps of its job
LEMMA RetryStep ==
  ASSUME TypeOK, RunningIsInflight, RetryCaps, [Next]_vars
  PROVE  RetryCaps'
<1> DEFINE Quiet == UNCHANGED <<status, hits, stockoutRounds>>
           Kept == \A j \in Jobs : Caps(status'[j], hits'[j], stockoutRounds'[j])
<1>1. \A j \in Jobs : Caps(status[j], hits[j], stockoutRounds[j])
  BY CapsMeaning
<1>2. ASSUME NEW j \in Jobs, NEW s, NEW g, NEW n,
             status' = [status EXCEPT ![j] = s],
             hits' = [hits EXCEPT ![j] = g],
             stockoutRounds' = [stockoutRounds EXCEPT ![j] = n],
             Caps(s, g, n)
      PROVE  Kept
  BY <1>1, <1>2 DEF TypeOK, DataOK
<1>3. Quiet => Kept
  BY <1>1
<1>4. AdmitBegin \/ AdmitEnd \/ AdmitSkip \/ LoopStep \/ Interrupt \/ TogglePause \/ Tick
        \/ UNCHANGED vars => Quiet
  BY DEF AdmitBegin, AdmitEnd, AdmitSkip, LoopStep, Wait, Return, IdleTick, AdmitDone,
         Interrupt, TogglePause, Tick, vars, runVars, sweepVars
<1>5. ASSUME NEW j \in Jobs, AdmitNoZone(j) PROVE Quiet
  BY <1>5 DEF AdmitNoZone, BeginSweep
<1>6. ASSUME NEW j \in Jobs, NEW z \in Zones, Launch(j, z) PROVE Kept
  <2>1. /\ status[j] = "queued"
        /\ status' = [status EXCEPT ![j] = "running"]
        /\ hits' = hits /\ stockoutRounds' = stockoutRounds
    BY <1>6 DEF Launch, Picking, BeginSweep
  <2>2. Caps("running", hits[j], stockoutRounds[j])
    BY <1>1, <2>1 DEF Caps
  <2> QED
    BY <1>1, <2>1, <2>2 DEF TypeOK, DataOK
<1>7. ASSUME NEW j \in Jobs, NEW c, Receive(j, c)
      PROVE  /\ Caps("running", hits[j], stockoutRounds[j])
             /\ hits' = [hits EXCEPT ![j] = OneMore(hits[j], c)]
  <2>1. status[j] = "running" /\ hits' = [hits EXCEPT ![j] = OneMore(hits[j], c)]
    BY <1>7, ReceiveHits
  <2> QED
    BY <1>1, <2>1
<1>8. ASSUME NEW j \in Jobs, NEW c \in CappedClasses \cup {"pass", "fail"},
             Receive(j, c), status' = [status EXCEPT ![j] = StatusAfter(j, c)],
             UNCHANGED stockoutRounds
      PROVE  Kept
  <2>1. hits[j] \in [Classes -> Nat] /\ stockoutRounds[j] \in Nat
    BY DEF TypeOK, DataOK
  <2>2. Caps("running", hits[j], stockoutRounds[j])
    BY <1>7, <1>8
  <2>3. Caps(StatusAfter(j, c), OneMore(hits[j], c), stockoutRounds[j])
    BY <2>1, <2>2, CapsComplete DEF StatusAfter, countClass
  <2>4. hits' = [hits EXCEPT ![j] = OneMore(hits[j], c)]
    BY <1>7, <1>8
  <2>5. stockoutRounds' = [stockoutRounds EXCEPT ![j] = stockoutRounds[j]]
    BY <1>8 DEF TypeOK, DataOK
  <2> QED
    BY <1>2, <1>8, <2>3, <2>4, <2>5
<1> HIDE DEF Kept
<1>9. ASSUME NEW j \in Jobs, handleCompletion(j) PROVE Kept
  <2>1. ASSUME NEW c \in {"pass", "fail", "timeout", "infra", "error"}, Complete(j, c)
        PROVE  Kept
    <3>1. c \in CappedClasses \cup {"pass", "fail"}
      BY DEF CappedClasses
    <3> QED
      BY <1>8, <2>1, <3>1 DEF Complete, sweepVars
  <2>2. CASE CompleteStockout(j)
    <3>1. Receive(j, "stockout") /\ recordStockout(j, last[j].zone)
      BY <2>2 DEF CompleteStockout
    <3>2. Caps("running", hits[j], stockoutRounds[j])
          /\ hits' = [hits EXCEPT ![j] = OneMore(hits[j], "stockout")]
      BY <1>7, <3>1
    <3> QED
      BY <1>2, <3>1, <3>2, RetryStockout
  <2>3. CASE CompleteQuota(j)
    <3>1. "quota" \in CappedClasses \cup {"pass", "fail"}
      BY DEF CappedClasses
    <3> QED
      BY <1>8, <2>3, <3>1 DEF CompleteQuota, sweepVars
  <2>4. CASE CompleteAborted(j)
    <3>1. /\ Receive(j, "aborted")
          /\ status' = [status EXCEPT ![j] = "queued"]
          /\ stockoutRounds' = stockoutRounds
      BY <2>4 DEF CompleteAborted, sweepVars
    <3>2. Caps("running", hits[j], stockoutRounds[j])
          /\ hits' = [hits EXCEPT ![j] = OneMore(hits[j], "aborted")]
      BY <1>7, <3>1
    <3>3. OneMore(hits[j], "aborted") = hits[j]
      BY DEF OneMore, TypeOK, DataOK, Classes, CappedClasses
    <3>4. Caps("queued", hits[j], stockoutRounds[j])
      BY <3>2 DEF Caps
    <3>5. stockoutRounds' = [stockoutRounds EXCEPT ![j] = stockoutRounds[j]]
      BY <3>1 DEF TypeOK, DataOK
    <3> QED
      BY <1>2, <3>1, <3>2, <3>3, <3>4, <3>5
  <2> QED
    BY <1>9, <2>1, <2>2, <2>3, <2>4 DEF handleCompletion
<1>10. Kept
  BY <1>3, <1>4, <1>5, <1>6, <1>9 DEF Next, AdmitStep, Terminated
<1> QED
  BY <1>10 DEF Kept, RetryCaps, Caps, Exhausted

-----------------------------------------------------------------------------
(* state.json *)

\* What SaveState writes and LoadState would read
DiskType ==
  disk \in [status : [Jobs -> Statuses],
            last : [Jobs -> [zone : Zones \cup {NoZone}, result : Results]],
            hits : [Jobs -> [Classes -> Nat]],
            stockoutZones : [Jobs -> SUBSET Zones],
            stockoutRounds : [Jobs -> Nat],
            stockoutCd : [Jobs -> Nat \cup {NoTimer}],
            quotaCd : [Regions -> [Keys -> Nat]]]

\* The steps that write state.json write the whole RunState, and those that do not leave
\* what it holds alone, except for a new sweep and the clock
LEMMA DiskKinds ==
  ASSUME [Next]_vars
  PROVE  \/ UNCHANGED <<status, last, hits, sweepVars, quotaCd, disk>>
         \/ Return
         \/ persist
         \/ \E j \in Jobs : AdmitNoZone(j)
         \/ Tick
<1>1. AdmitBegin \/ AdmitEnd \/ AdmitSkip \/ Wait \/ IdleTick \/ AdmitDone \/ Interrupt
        \/ TogglePause \/ UNCHANGED vars
        => UNCHANGED <<status, last, hits, sweepVars, quotaCd, disk>>
  BY DEF AdmitBegin, AdmitEnd, AdmitSkip, Wait, IdleTick, AdmitDone, Interrupt, TogglePause,
         vars, runVars, sweepVars, quotaVars
<1>2. ASSUME NEW j \in Jobs, NEW z \in Zones, Launch(j, z) PROVE persist
  BY <1>2 DEF Launch
<1>3. ASSUME NEW j \in Jobs, handleCompletion(j) PROVE persist
  BY <1>3 DEF handleCompletion, Complete, CompleteStockout, CompleteQuota, CompleteAborted
<1> QED
  BY <1>1, <1>2, <1>3 DEF Next, AdmitStep, LoopStep, Terminated

\* Time takes a deadline to a deadline
LEMMA ElapseJobsType ==
  ASSUME NEW f \in [Jobs -> Nat \cup {NoTimer}]
  PROVE  ElapseJobs(f) \in [Jobs -> Nat \cup {NoTimer}]
BY ElapseType DEF ElapseJobs

\* Saved cooldowns are deadlines too
LEMMA DiskTick ==
  ASSUME DiskType, Tick
  PROVE  DiskType'
<1>1. disk' = [disk EXCEPT !.stockoutCd = ElapseJobs(@), !.quotaCd = ElapseKeys(@)]
  BY DEF Tick
<1>2. ElapseJobs(disk.stockoutCd) \in [Jobs -> Nat \cup {NoTimer}]
  BY ElapseJobsType DEF DiskType
<1>3. ElapseKeys(disk.quotaCd) \in [Regions -> [Keys -> Nat]]
  BY ElapseKeysType DEF DiskType
<1> QED
  BY <1>1, <1>2, <1>3 DEF DiskType

\* Every save writes a run state of the right types
LEMMA DiskTypeStep ==
  ASSUME TypeOK, TypeOK', DiskType, [Next]_vars
  PROVE  DiskType'
<1>1. ASSUME disk' = RunState' PROVE DiskType'
  BY <1>1 DEF DiskType, RunState, TypeOK, DataOK
<1>2. ASSUME disk' = disk PROVE DiskType'
  BY <1>2 DEF DiskType
<1>3. CASE Tick
  BY <1>3, DiskTick
<1>4. ASSUME NEW j \in Jobs, AdmitNoZone(j) PROVE disk' = disk
  BY <1>4 DEF AdmitNoZone
<1>5. Return => disk' = RunState \/ disk' = disk
  BY DEF Return
<1>6. Return => RunState' = RunState
  BY DEF Return, RunState, sweepVars, quotaVars
<1> QED
  BY <1>1, <1>2, <1>3, <1>4, <1>5, <1>6, DiskKinds DEF persist

\* While saves succeed, only a sweep that pickZone has begun may be missing on disk, and the
\* clock moves both sides alike
LEMMA DiskStep ==
  ASSUME TypeOK, DiskType, DiskCurrent, [Next]_vars
  PROVE  DiskCurrent'
<1> SUFFICES ASSUME ~SaveMayFail PROVE DiskCurrent'
  BY DEF DiskCurrent
<1>1. ASSUME disk' = RunState' PROVE DiskCurrent'
  BY <1>1 DEF DiskCurrent, RunState
<1>2. /\ disk.status = status /\ disk.last = last /\ disk.hits = hits
      /\ disk.stockoutRounds = stockoutRounds /\ disk.quotaCd = quotaCd
      /\ \A j \in Jobs :
           \/ disk.stockoutCd[j] = stockoutCd[j] /\ disk.stockoutZones[j] = stockoutZones[j]
           \/ /\ disk.stockoutCd[j] = 0
              /\ stockoutCd[j] = NoTimer
              /\ stockoutZones[j] = {}
  BY DEF DiskCurrent
<1>3. CASE UNCHANGED <<status, last, hits, sweepVars, quotaCd, disk>>
  BY <1>2, <1>3 DEF DiskCurrent, sweepVars
<1>4. CASE Return
  <2>1. disk' = RunState /\ RunState' = RunState
    BY <1>4 DEF Return, RunState, sweepVars, quotaVars
  <2> QED
    BY <1>1, <2>1
<1>5. CASE persist
  BY <1>1, <1>5 DEF persist
<1>6. ASSUME NEW j \in Jobs, AdmitNoZone(j) PROVE DiskCurrent'
  <2>1. /\ stockoutCd' = [stockoutCd EXCEPT ![j] = NoTimer]
        /\ stockoutZones' = [stockoutZones EXCEPT ![j] = CurrentSweep(j)]
        /\ stockoutCd[j] <= 0
        /\ UNCHANGED <<status, last, hits, stockoutRounds, quotaCd, disk>>
    BY <1>6 DEF AdmitNoZone, Picking, BeginSweep, quotaVars
  <2>2. stockoutCd[j] = 0 \/ stockoutCd[j] = NoTimer
    BY <2>1 DEF TypeOK, DataOK, NoTimer
  <2>3. ASSUME NEW i \in Jobs
        PROVE  \/ disk.stockoutCd[i] = stockoutCd'[i] /\ disk.stockoutZones[i] = stockoutZones'[i]
               \/ /\ disk.stockoutCd[i] = 0
                  /\ stockoutCd'[i] = NoTimer
                  /\ stockoutZones'[i] = {}
    <3>1. CASE i # j
      BY <1>2, <2>1, <3>1 DEF TypeOK, DataOK
    <3>2. CASE i = j /\ stockoutCd[j] = 0
      <4>1. stockoutCd'[i] = NoTimer /\ stockoutZones'[i] = {}
        BY <2>1, <3>2 DEF TypeOK, DataOK, CurrentSweep
      <4>2. disk.stockoutCd[i] = 0
        BY <1>2, <3>2 DEF NoTimer
      <4> QED
        BY <4>1, <4>2
    <3>3. CASE i = j /\ stockoutCd[j] = NoTimer
      <4>1. stockoutCd'[i] = stockoutCd[i] /\ stockoutZones'[i] = stockoutZones[i]
        BY <2>1, <3>3 DEF TypeOK, DataOK, CurrentSweep, NoTimer
      <4> QED
        BY <1>2, <4>1
    <3> QED
      BY <2>2, <3>1, <3>2, <3>3
  <2> QED
    BY <1>2, <2>1, <2>3 DEF DiskCurrent
<1>7. CASE Tick
  <2>1. /\ disk' = [disk EXCEPT !.stockoutCd = ElapseJobs(@), !.quotaCd = ElapseKeys(@)]
        /\ stockoutCd' = ElapseJobs(stockoutCd)
        /\ quotaCd' = ElapseKeys(quotaCd)
        /\ UNCHANGED <<status, last, hits, stockoutZones, stockoutRounds>>
    BY <1>7 DEF Tick
  <2>2. /\ disk'.stockoutCd = ElapseJobs(disk.stockoutCd)
        /\ disk'.quotaCd = ElapseKeys(disk.quotaCd)
        /\ disk'.status = disk.status /\ disk'.last = disk.last /\ disk'.hits = disk.hits
        /\ disk'.stockoutZones = disk.stockoutZones
        /\ disk'.stockoutRounds = disk.stockoutRounds
    BY <2>1 DEF DiskType
  <2>3. ASSUME NEW i \in Jobs
        PROVE  \/ /\ disk'.stockoutCd[i] = stockoutCd'[i]
                  /\ disk'.stockoutZones[i] = stockoutZones'[i]
               \/ /\ disk'.stockoutCd[i] = 0
                  /\ stockoutCd'[i] = NoTimer
                  /\ stockoutZones'[i] = {}
    <3>1. /\ disk'.stockoutCd[i] = Elapse(disk.stockoutCd[i])
          /\ stockoutCd'[i] = Elapse(stockoutCd[i])
      BY <2>1, <2>2 DEF ElapseJobs
    <3>2. Elapse(0) = 0 /\ Elapse(NoTimer) = NoTimer
      BY DEF Elapse, NoTimer
    <3> QED
      BY <1>2, <2>1, <2>2, <3>1, <3>2
  <2> QED
    BY <1>2, <2>1, <2>2, <2>3 DEF DiskCurrent
<1> QED
  BY <1>3, <1>4, <1>5, <1>6, <1>7, DiskKinds

-----------------------------------------------------------------------------
(* The end of the process *)

\* The signal handler cancels jobCtx only after admitCtx
CancelInv == jobCancelled => admitCancelled

\* Every step keeps the order of the two cancellations
LEMMA CancelStep ==
  ASSUME CancelInv, [Next]_vars
  PROVE  CancelInv'
<1>1. CASE Interrupt
  <2>1. admitCancelled' = TRUE \/ (admitCancelled /\ admitCancelled' = admitCancelled)
    BY <1>1 DEF Interrupt
  <2> QED
    BY <2>1 DEF CancelInv
<1>2. CASE TogglePause
  BY <1>2 DEF TogglePause, CancelInv
<1>3. CASE UNCHANGED envVars
  BY <1>3 DEF envVars, CancelInv
<1>4. AdmitBegin \/ AdmitEnd \/ AdmitSkip \/ LoopStep \/ Tick \/ UNCHANGED vars => UNCHANGED envVars
  BY DEF AdmitBegin, AdmitEnd, AdmitSkip, LoopStep, Wait, Return, IdleTick, AdmitDone, Tick, vars
<1>5. ASSUME NEW j \in Jobs, BeginSweep(j) PROVE UNCHANGED envVars
  BY <1>5 DEF BeginSweep
<1>6. ASSUME NEW j \in Jobs, handleCompletion(j) PROVE UNCHANGED envVars
  BY <1>6 DEF handleCompletion, Complete, CompleteStockout, CompleteQuota, CompleteAborted, Receive
<1>7. ASSUME NEW j \in Jobs, AdmitNoZone(j) PROVE UNCHANGED envVars
  BY <1>5, <1>7 DEF AdmitNoZone
<1>8. ASSUME NEW j \in Jobs, NEW z \in Zones, Launch(j, z) PROVE UNCHANGED envVars
  BY <1>5, <1>8 DEF Launch
<1> QED
  BY <1>1, <1>2, <1>3, <1>4, <1>6, <1>7, <1>8 DEF Next, AdmitStep, Terminated

\* Only Return ends the process, and from then on nothing but the clock and the pause file
\* moves
LEMMA DoneKinds ==
  ASSUME [Next]_vars, pc' = "done"
  PROVE  \/ Return
         \/ pc = "done" /\ Tick
         \/ /\ pc = "done"
            /\ UNCHANGED <<status, last, hits, sweepVars, quotaCd, disk, inflight, exitCode,
                           admitCancelled>>
<1>1. AdmitBegin \/ AdmitEnd \/ AdmitSkip \/ Wait \/ IdleTick \/ AdmitDone \/ Interrupt => FALSE
  BY DEF AdmitBegin, AdmitEnd, AdmitSkip, Passing, Wait, IdleTick, AdmitDone, Interrupt, ctlVars
<1>2. ASSUME NEW j \in Jobs, NEW c, Receive(j, c) PROVE FALSE
  BY <1>2 DEF Receive
<1>3. ASSUME NEW j \in Jobs, handleCompletion(j) PROVE FALSE
  BY <1>2, <1>3 DEF handleCompletion, Complete, CompleteStockout, CompleteQuota, CompleteAborted
<1>4. ASSUME NEW j \in Jobs, Picking(j), BeginSweep(j) PROVE FALSE
  BY <1>4 DEF Picking, Passing, BeginSweep
<1>5. ASSUME NEW j \in Jobs, AdmitNoZone(j) PROVE FALSE
  BY <1>4, <1>5 DEF AdmitNoZone
<1>6. ASSUME NEW j \in Jobs, NEW z \in Zones, Launch(j, z) PROVE FALSE
  BY <1>4, <1>6 DEF Launch
<1>7. Tick => pc = "done"
  BY DEF Tick, ctlVars
<1>8. TogglePause \/ UNCHANGED vars
        => pc = "done" /\ UNCHANGED <<status, last, hits, sweepVars, quotaCd, disk, inflight,
                                      exitCode, admitCancelled>>
  BY DEF TogglePause, vars, runVars, sweepVars, quotaVars, ctlVars, envVars
<1> QED
  BY <1>1, <1>3, <1>5, <1>6, <1>7, <1>8 DEF Next, AdmitStep, LoopStep, Terminated

\* A step that ends the process does so with nothing under way
LEMMA ExitStep ==
  ASSUME TypeOK, RunningIsInflight, DiskType, CancelInv, CleanExit, [Next]_vars
  PROVE  CleanExit'
<1> SUFFICES ASSUME pc' = "done" PROVE CleanExit'
  BY DEF CleanExit
<1>1. CASE Return
  <2>1. /\ mayReturn
        /\ disk' = RunState \/ exitCode' = 2
        /\ UNCHANGED <<status, last, hits, sweepVars, quotaCd, inflight, admitCancelled>>
    BY <1>1 DEF Return, quotaVars, envVars
  <2>2. RunState' = RunState
    BY <2>1 DEF RunState, sweepVars
  <2>3. IsFiniteSet(inflight) /\ IsFiniteSet({j \in Jobs : status[j] = "queued"})
    BY JobsAssumption, FS_Subset DEF TypeOK, DataOK
  <2>4. inflight = {}
    BY <2>1, <2>3, FS_EmptySet DEF mayReturn, RunningIsInflight
  <2>5. \A j \in Jobs : status[j] # "running"
    BY <2>4 DEF RunningIsInflight
  <2>6. queuedRemaining = 0 => \A j \in Jobs : status[j] # "queued"
    <3>1. queuedRemaining = 0 => {j \in Jobs : status[j] = "queued"} = {}
      BY <2>3, FS_EmptySet DEF queuedRemaining
    <3> QED
      BY <3>1
  <2>7. admitCancelled \/ \A j \in Jobs : status[j] # "queued"
    BY <2>1, <2>6 DEF mayReturn, CancelInv
  <2> QED
    BY <2>1, <2>2, <2>4, <2>5, <2>7 DEF CleanExit
<1>2. CASE pc = "done" /\ Tick
  <2>1. /\ disk' = [disk EXCEPT !.stockoutCd = ElapseJobs(@), !.quotaCd = ElapseKeys(@)]
        /\ stockoutCd' = ElapseJobs(stockoutCd)
        /\ quotaCd' = ElapseKeys(quotaCd)
        /\ UNCHANGED <<status, last, hits, stockoutZones, stockoutRounds, inflight, exitCode,
                       admitCancelled>>
    BY <1>2 DEF Tick, ctlVars, envVars
  <2>2. ASSUME disk = RunState PROVE disk' = RunState'
    <3>1. disk' = [RunState EXCEPT !.stockoutCd = ElapseJobs(stockoutCd),
                                   !.quotaCd = ElapseKeys(quotaCd)]
      BY <2>1, <2>2 DEF RunState
    <3>2. disk' = [RunState EXCEPT !.stockoutCd = stockoutCd', !.quotaCd = quotaCd']
      BY <2>1, <3>1
    <3> QED
      BY <2>1, <3>2 DEF RunState
  <2> QED
    BY <1>2, <2>1, <2>2 DEF CleanExit
<1>3. CASE /\ pc = "done"
           /\ UNCHANGED <<status, last, hits, sweepVars, quotaCd, disk, inflight, exitCode,
                          admitCancelled>>
  <2>1. RunState' = RunState
    BY <1>3 DEF RunState, sweepVars
  <2> QED
    BY <1>3, <2>1 DEF CleanExit
<1> QED
  BY <1>1, <1>2, <1>3, DoneKinds

-----------------------------------------------------------------------------
(* Placement sweeps *)

\* SweepAccounting of one job: zs marked, n sweeps completed, cooldown cd, h stockouts
Swept(j, zs, n) == SweepZones(j) \subseteq zs /\ n > 0

Sweep(j, zs, n, cd, h) ==
  /\ zs \subseteq SweepZones(j)
  /\ h = n * Cardinality(SweepZones(j)) + (IF Swept(j, zs, n) THEN 0 ELSE Cardinality(zs))
  /\ cd # NoTimer => Swept(j, zs, n)

\* SweepAccounting, job by job
LEMMA SweepMeaning ==
  SweepAccounting <=>
    \A j \in Jobs :
      Sweep(j, stockoutZones[j], stockoutRounds[j], stockoutCd[j], hits[j]["stockout"])
BY DEF SweepAccounting, Sweep, Swept

\* A job has finitely many zones
LEMMA SweepZonesFinite ==
  ASSUME NEW j \in Jobs
  PROVE  IsFiniteSet(SweepZones(j)) /\ Cardinality(SweepZones(j)) \in Nat
<1> DEFINE n == Len(JobZones[j])
           f == [i \in 1..n |-> JobZones[j][i]]
<1>1. JobZones[j] \in Seq(Zones)
  BY BudgetAssumption
<1>2. n \in Nat /\ DOMAIN JobZones[j] = 1..n
  BY <1>1
<1>3. IsFiniteSet(1..n)
  BY <1>2, FS_Interval
<1>4. f \in Surjection(1..n, ZonesOf(j))
  BY <1>2 DEF Surjection, ZonesOf
<1>5. IsFiniteSet(ZonesOf(j))
  BY <1>3, <1>4, FS_Surjection
<1>6. SweepZones(j) \in SUBSET ZonesOf(j)
  BY DEF SweepZones
<1>7. IsFiniteSet(SweepZones(j))
  BY <1>5, <1>6, FS_Subset
<1> QED
  BY <1>7, FS_CardinalityType

\* pickZone starts a new sweep once the cooldown of the last one has expired
LEMMA SweepBegins ==
  ASSUME NEW j \in Jobs, NEW zs, NEW n \in Nat, NEW cd, NEW h,
         Sweep(j, zs, n, cd, h), cd # NoTimer
  PROVE  Sweep(j, {}, n, NoTimer, h)
<1>1. Cardinality({}) = 0
  BY FS_EmptySet
<1>2. Cardinality(SweepZones(j)) \in Nat
  BY SweepZonesFinite
<1>3. h = n * Cardinality(SweepZones(j)) + 0
  BY DEF Sweep
<1> QED
  BY <1>1, <1>3 DEF Sweep

\* A stockout in a zone that the sweep had left marks the zone, or ends the sweep
LEMMA SweepMarks ==
  ASSUME NEW j \in Jobs, NEW zs, NEW n \in Nat, NEW h \in Nat,
         Sweep(j, zs, n, NoTimer, h), NEW z \in SweepZones(j) \ zs
  PROVE  /\ SweepZones(j) \subseteq zs \cup {z} =>
              \A cd : Sweep(j, zs \cup {z}, n + 1, cd, h + 1)
         /\ ~(SweepZones(j) \subseteq zs \cup {z}) => Sweep(j, zs \cup {z}, n, NoTimer, h + 1)
<1> DEFINE N == Cardinality(SweepZones(j))
           ws == zs \cup {z}
<1>1. IsFiniteSet(SweepZones(j)) /\ N \in Nat
  BY SweepZonesFinite
<1>2. zs \subseteq SweepZones(j) /\ ws \subseteq SweepZones(j)
  BY DEF Sweep
<1>3. IsFiniteSet(zs) /\ Cardinality(zs) \in Nat
  BY <1>1, <1>2, FS_Subset, FS_CardinalityType
<1>4. Cardinality(ws) = Cardinality(zs) + 1
  BY <1>3, FS_AddElement
<1>5. h = n * N + Cardinality(zs)
  BY DEF Sweep, Swept
<1> HIDE DEF N
<1>6. n * N \in Nat /\ (n + 1) * N = n * N + N
  BY <1>1
<1>7. CASE SweepZones(j) \subseteq ws
  <2>1. ws = SweepZones(j)
    BY <1>2, <1>7
  <2>2. N = Cardinality(zs) + 1
    BY <1>4, <2>1 DEF N
  <2>3. h + 1 = (n + 1) * N + 0
    BY <1>1, <1>3, <1>5, <1>6, <2>2
  <2>4. Swept(j, ws, n + 1)
    BY <1>7 DEF Swept
  <2> HIDE DEF ws
  <2>5. \A cd : Sweep(j, ws, n + 1, cd, h + 1)
    BY <1>2, <2>3, <2>4 DEF Sweep, N
  <2> QED
    BY <1>7, <2>5 DEF ws
<1>8. CASE ~(SweepZones(j) \subseteq ws)
  <2>1. h + 1 = n * N + Cardinality(ws)
    BY <1>3, <1>4, <1>5, <1>6
  <2>2. ~Swept(j, ws, n)
    BY <1>8 DEF Swept
  <2> HIDE DEF ws
  <2>3. Sweep(j, ws, n, NoTimer, h + 1)
    BY <1>2, <2>1, <2>2 DEF Sweep, N
  <2> QED
    BY <1>8, <2>3 DEF ws
<1> QED
  BY <1>7, <1>8

\* The strengthening: the zone that a job runs in is one its sweep still has to try, and
\* no cooldown is set
SweepInv ==
  /\ SweepAccounting
  /\ \A j \in inflight : /\ last[j].zone \in SweepZones(j) \ stockoutZones[j]
                         /\ stockoutCd[j] = NoTimer

\* A new job has marked no zone
LEMMA SweepInit == Init => SweepInv
<1> SUFFICES ASSUME Init PROVE SweepInv
  OBVIOUS
<1>1. ASSUME NEW j \in Jobs
      PROVE  Sweep(j, stockoutZones[j], stockoutRounds[j], stockoutCd[j], hits[j]["stockout"])
  <2>1. /\ stockoutZones[j] = {} /\ stockoutRounds[j] = 0 /\ stockoutCd[j] = NoTimer
        /\ hits[j]["stockout"] = 0
    BY DEF Init, Classes
  <2>2. Cardinality({}) = 0 /\ Cardinality(SweepZones(j)) \in Nat
    BY FS_EmptySet, SweepZonesFinite
  <2>3. 0 = 0 * Cardinality(SweepZones(j)) + 0
    BY <2>2
  <2>4. ~Swept(j, {}, 0)
    BY DEF Swept
  <2> QED
    BY <2>1, <2>2, <2>3, <2>4 DEF Sweep
<1>2. inflight = {}
  BY DEF Init
<1> QED
  BY <1>1, <1>2, SweepMeaning DEF SweepInv

\* What pickZone does to the sweep of its candidate
LEMMA SweepCandidate ==
  ASSUME TypeOK, RunningIsInflight, SweepInv, NEW j \in Jobs, Picking(j), BeginSweep(j)
  PROVE  /\ j \notin inflight
         /\ Sweep(j, CurrentSweep(j), stockoutRounds[j], NoTimer, hits[j]["stockout"])
         /\ stockoutCd' = [stockoutCd EXCEPT ![j] = NoTimer]
         /\ stockoutZones' = [stockoutZones EXCEPT ![j] = CurrentSweep(j)]
         /\ UNCHANGED <<hits, stockoutRounds>>
<1>1. Sweep(j, stockoutZones[j], stockoutRounds[j], stockoutCd[j], hits[j]["stockout"])
  BY SweepMeaning DEF SweepInv
<1>2. status[j] = "queued" /\ stockoutCd[j] <= 0
  BY DEF Picking
<1>3. stockoutRounds[j] \in Nat /\ (stockoutCd[j] = 0 \/ stockoutCd[j] = NoTimer)
  BY <1>2 DEF TypeOK, DataOK, NoTimer
<1>4. Sweep(j, CurrentSweep(j), stockoutRounds[j], NoTimer, hits[j]["stockout"])
  <2>1. CASE stockoutCd[j] = 0
    BY <1>1, <1>3, <2>1, SweepBegins DEF CurrentSweep, NoTimer
  <2>2. CASE stockoutCd[j] = NoTimer
    BY <1>1, <2>2 DEF CurrentSweep, NoTimer
  <2> QED
    BY <1>3, <2>1, <2>2
<1>5. j \notin inflight
  BY <1>2 DEF RunningIsInflight
<1> QED
  BY <1>4, <1>5 DEF BeginSweep

\* Every step keeps the count of stockouts that of the marked zones and sweeps
LEMMA SweepStep ==
  ASSUME BooksInv, SweepInv, [Next]_vars
  PROVE  SweepInv'
<1>1. TypeOK /\ RunningIsInflight /\ Books
  BY DEF BooksInv, AdmissionInv
<1>2. \A i \in Jobs :
        Sweep(i, stockoutZones[i], stockoutRounds[i], stockoutCd[i], hits[i]["stockout"])
  BY SweepMeaning DEF SweepInv
<1> DEFINE Quiet == UNCHANGED <<last, hits, sweepVars, inflight>>
           Kept == \A i \in Jobs :
             Sweep(i, stockoutZones'[i], stockoutRounds'[i], stockoutCd'[i], hits'[i]["stockout"])
           Flying == \A i \in inflight' : /\ last'[i].zone \in SweepZones(i) \ stockoutZones'[i]
                                          /\ stockoutCd'[i] = NoTimer
<1>3. Quiet => Kept /\ Flying
  BY <1>2 DEF SweepInv, sweepVars
<1>4. AdmitBegin \/ AdmitEnd \/ AdmitSkip \/ LoopStep \/ Interrupt \/ TogglePause \/ UNCHANGED vars
        => Quiet
  BY DEF AdmitBegin, AdmitEnd, AdmitSkip, LoopStep, Wait, Return, IdleTick, AdmitDone,
         Interrupt, TogglePause, vars, runVars
<1>5. ASSUME NEW j \in Jobs, AdmitNoZone(j) PROVE Kept /\ Flying
  <2>1. Picking(j) /\ BeginSweep(j) /\ UNCHANGED <<last, inflight>>
    BY <1>5 DEF AdmitNoZone
  <2>2. /\ j \notin inflight
        /\ Sweep(j, CurrentSweep(j), stockoutRounds[j], NoTimer, hits[j]["stockout"])
        /\ stockoutCd' = [stockoutCd EXCEPT ![j] = NoTimer]
        /\ stockoutZones' = [stockoutZones EXCEPT ![j] = CurrentSweep(j)]
        /\ UNCHANGED <<hits, stockoutRounds>>
    BY <1>1, <2>1, SweepCandidate
  <2>3. Kept
    BY <1>1, <1>2, <2>2 DEF TypeOK, DataOK
  <2>4. Flying
    BY <1>1, <2>1, <2>2 DEF TypeOK, DataOK, SweepInv
  <2> QED
    BY <2>3, <2>4
<1>6. ASSUME NEW j \in Jobs, NEW z \in Zones, Launch(j, z) PROVE Kept /\ Flying
  <2>1. /\ Picking(j) /\ BeginSweep(j)
        /\ z \in PickedZones(j, CurrentSweep(j))
        /\ inflight' = inflight \cup {j}
        /\ last' = [last EXCEPT ![j] = [zone |-> z, result |-> "running"]]
    BY <1>6 DEF Launch
  <2>2. /\ j \notin inflight
        /\ Sweep(j, CurrentSweep(j), stockoutRounds[j], NoTimer, hits[j]["stockout"])
        /\ stockoutCd' = [stockoutCd EXCEPT ![j] = NoTimer]
        /\ stockoutZones' = [stockoutZones EXCEPT ![j] = CurrentSweep(j)]
        /\ UNCHANGED <<hits, stockoutRounds>>
    BY <1>1, <2>1, SweepCandidate
  <2>3. z \in SweepZones(j) \ CurrentSweep(j)
    BY <1>1, <2>1, PickedZoneInSweep
  <2>4. Kept
    BY <1>1, <1>2, <2>2 DEF TypeOK, DataOK
  <2>5. Flying
    BY <1>1, <2>1, <2>2, <2>3 DEF TypeOK, DataOK, SweepInv
  <2> QED
    BY <2>4, <2>5
<1>7. ASSUME NEW j \in Jobs, NEW c, Receive(j, c)
      PROVE  /\ j \in inflight
             /\ inflight' = inflight \ {j}
             /\ \A i \in inflight' : last'[i] = last[i]
             /\ hits' = [hits EXCEPT ![j] = OneMore(hits[j], c)]
  <2>1. /\ j \in inflight
        /\ inflight' = inflight \ {j}
        /\ last' = [last EXCEPT ![j] = [zone |-> last[j].zone, result |-> c]]
    BY <1>7 DEF Receive
  <2>2. hits' = [hits EXCEPT ![j] = OneMore(hits[j], c)]
    BY <1>1, <1>7, ReceiveHits
  <2> QED
    BY <1>1, <2>1, <2>2 DEF TypeOK, DataOK
<1>8. ASSUME NEW j \in Jobs, NEW c, c # "stockout", Receive(j, c), UNCHANGED sweepVars
      PROVE  Kept /\ Flying
  <2>1. /\ inflight' = inflight \ {j}
        /\ \A i \in inflight' : last'[i] = last[i]
        /\ hits' = [hits EXCEPT ![j] = OneMore(hits[j], c)]
    BY <1>7, <1>8
  <2>2. OneMore(hits[j], c)["stockout"] = hits[j]["stockout"]
    BY <1>8 DEF OneMore, Classes
  <2>3. \A i \in Jobs : hits'[i]["stockout"] = hits[i]["stockout"]
    BY <1>1, <2>1, <2>2 DEF TypeOK, DataOK
  <2>4. Kept
    BY <1>2, <1>8, <2>3 DEF sweepVars
  <2>5. Flying
    BY <1>8, <2>1 DEF SweepInv, sweepVars
  <2> QED
    BY <2>4, <2>5
<1>9. ASSUME NEW j \in Jobs, CompleteStockout(j) PROVE Kept /\ Flying
  <2> DEFINE z == last[j].zone
             h == hits[j]["stockout"]
             ws == stockoutZones[j] \cup {z}
  <2>1. Receive(j, "stockout") /\ recordStockout(j, z)
    BY <1>9 DEF CompleteStockout
  <2>2. /\ j \in inflight
        /\ inflight' = inflight \ {j}
        /\ \A i \in inflight' : last'[i] = last[i]
        /\ hits' = [hits EXCEPT ![j] = OneMore(hits[j], "stockout")]
    BY <1>7, <2>1
  <2>3. z \in SweepZones(j) \ stockoutZones[j] /\ stockoutCd[j] = NoTimer
    BY <2>2 DEF SweepInv
  <2>4. h \in Nat /\ stockoutRounds[j] \in Nat
    BY <1>1 DEF TypeOK, DataOK, Classes
  <2>5. Sweep(j, stockoutZones[j], stockoutRounds[j], NoTimer, h)
    BY <1>2, <2>3
  <2>6. /\ SweepZones(j) \subseteq ws =>
             \A cd : Sweep(j, ws, stockoutRounds[j] + 1, cd, h + 1)
        /\ ~(SweepZones(j) \subseteq ws) => Sweep(j, ws, stockoutRounds[j], NoTimer, h + 1)
    <3> HIDE DEF z, h
    <3> QED
      BY <2>3, <2>4, <2>5, SweepMarks
  <2>7. \E n, cd : /\ stockoutZones' = [stockoutZones EXCEPT ![j] = ws]
                   /\ stockoutRounds' = [stockoutRounds EXCEPT ![j] = n]
                   /\ stockoutCd' = [stockoutCd EXCEPT ![j] = cd]
                   /\ Sweep(j, ws, n, cd, h + 1)
    <3>1. stockoutZones' = [stockoutZones EXCEPT ![j] = ws]
      BY <2>1 DEF recordStockout
    <3>2. CASE SweepZones(j) \subseteq ws
      <4>1. /\ stockoutRounds' = [stockoutRounds EXCEPT ![j] = stockoutRounds[j] + 1]
            /\ \E cd : stockoutCd' = [stockoutCd EXCEPT ![j] = cd]
        BY <2>1, <3>2 DEF recordStockout, SweepDone
      <4> HIDE DEF ws, h
      <4> QED
        BY <2>6, <3>1, <3>2, <4>1
    <3>3. CASE ~(SweepZones(j) \subseteq ws)
      <4>1. /\ stockoutRounds' = [stockoutRounds EXCEPT ![j] = stockoutRounds[j]]
            /\ stockoutCd' = [stockoutCd EXCEPT ![j] = NoTimer]
        <5>1. stockoutRounds' = [stockoutRounds EXCEPT ![j] = stockoutRounds[j] + 0]
          BY <2>1, <3>3 DEF recordStockout, SweepDone
        <5>2. stockoutCd' = [stockoutCd EXCEPT ![j] = stockoutCd[j]]
          BY <2>1, <3>3 DEF recordStockout, SweepDone
        <5>3. stockoutRounds[j] + 0 = stockoutRounds[j]
          BY <2>4
        <5> HIDE DEF ws, h, z
        <5> QED
          BY <2>3, <5>1, <5>2, <5>3
      <4> HIDE DEF ws, h
      <4> QED
        BY <2>6, <3>1, <3>3, <4>1
    <3> QED
      BY <3>2, <3>3
  <2>8. OneMore(hits[j], "stockout")["stockout"] = h + 1
    BY DEF OneMore, Classes
  <2>9. hits'[j]["stockout"] = h + 1 /\ \A i \in Jobs \ {j} : hits'[i] = hits[i]
    BY <1>1, <2>2, <2>8 DEF TypeOK, DataOK
  <2> HIDE DEF h, ws
  <2>10. Kept
    BY <1>1, <1>2, <2>7, <2>9 DEF TypeOK, DataOK
  <2>11. Flying
    BY <1>1, <2>2, <2>7 DEF TypeOK, DataOK, SweepInv
  <2> QED
    BY <2>10, <2>11
<1>10. ASSUME NEW j \in Jobs, handleCompletion(j) PROVE Kept /\ Flying
  <2> HIDE DEF Kept, Flying
  <2>1. ASSUME NEW c \in {"pass", "fail", "timeout", "infra", "error"}, Complete(j, c)
        PROVE  Kept /\ Flying
    BY <1>8, <2>1 DEF Complete
  <2>2. CASE CompleteQuota(j)
    BY <1>8, <2>2 DEF CompleteQuota
  <2>3. CASE CompleteAborted(j)
    BY <1>8, <2>3 DEF CompleteAborted
  <2> QED
    BY <1>9, <1>10, <2>1, <2>2, <2>3 DEF handleCompletion
<1>11. ASSUME Tick PROVE Kept /\ Flying
  <2>1. /\ stockoutCd' = ElapseJobs(stockoutCd)
        /\ UNCHANGED <<last, hits, stockoutZones, stockoutRounds, inflight>>
    BY <1>11 DEF Tick
  <2>2. \A i \in Jobs : stockoutCd'[i] = NoTimer <=> stockoutCd[i] = NoTimer
    BY <1>1, <2>1 DEF ElapseJobs, Elapse, TypeOK, DataOK, NoTimer
  <2>3. Kept
    BY <1>2, <2>1, <2>2 DEF Sweep
  <2>4. Flying
    BY <1>1, <2>1, <2>2 DEF SweepInv, TypeOK, DataOK
  <2> QED
    BY <2>3, <2>4
<1> HIDE DEF Kept, Flying, Quiet
<1>12. Kept /\ Flying
  BY <1>3, <1>4, <1>5, <1>6, <1>10, <1>11 DEF Next, AdmitStep, Terminated
<1>13. SweepAccounting'
  BY <1>12 DEF Kept, SweepAccounting, Sweep, Swept, SweepZones, ZonesOf, fitsConfiguredBudget,
               budgetKeys, usable
<1> QED
  BY <1>12, <1>13 DEF Flying, SweepInv

-----------------------------------------------------------------------------
(* Theorems *)

\* The inductive invariant of the run state: the books are needed for the zones of a
\* sweep, the types of state.json for the clock, and the order of the two cancellations
\* for the exit check
RunStateInv ==
  /\ BooksInv
  /\ RetryCaps
  /\ SweepInv
  /\ DiskType
  /\ DiskCurrent
  /\ CancelInv
  /\ CleanExit

\* A new run state is consistent
LEMMA RunStateInit == Init => RunStateInv
<1> SUFFICES ASSUME Init PROVE RunStateInv
  OBVIOUS
<1>1. BooksInv
  BY TypeInit, RunningInit, BudgetInit, BooksInit DEF BooksInv, AdmissionInv
<1>2. disk = RunState
  BY DEF Init
<1>3. DiskType
  BY <1>1, <1>2 DEF DiskType, RunState, BooksInv, AdmissionInv, TypeOK, DataOK
<1>4. DiskCurrent
  BY <1>2 DEF DiskCurrent, RunState
<1>5. CancelInv /\ CleanExit
  BY DEF Init, CancelInv, CleanExit
<1> QED
  BY <1>1, <1>3, <1>4, <1>5, RetryInit, SweepInit DEF RunStateInv

\* Every step keeps the run state consistent
LEMMA RunStateStep == RunStateInv /\ [Next]_vars => RunStateInv'
<1> SUFFICES ASSUME RunStateInv, [Next]_vars PROVE RunStateInv'
  OBVIOUS
<1>1. /\ BooksInv /\ TypeOK /\ RunningIsInflight /\ WithinBudgets /\ Books
      /\ RetryCaps /\ SweepInv /\ DiskType /\ DiskCurrent /\ CancelInv /\ CleanExit
  BY DEF RunStateInv, BooksInv, AdmissionInv
<1>2. BooksInv'
  BY <1>1, TypeStep, RunningStep, BudgetStep, BooksStep DEF BooksInv, AdmissionInv
<1>3. TypeOK'
  BY <1>2 DEF BooksInv, AdmissionInv
<1>4. RetryCaps'
  BY <1>1, RetryStep
<1>5. SweepInv'
  BY <1>1, SweepStep
<1>6. DiskType' /\ DiskCurrent'
  BY <1>1, <1>3, DiskTypeStep, DiskStep
<1>7. CancelInv' /\ CleanExit'
  BY <1>1, CancelStep, ExitStep
<1> QED
  BY <1>2, <1>4, <1>5, <1>6, <1>7 DEF RunStateInv

\* The run state is consistent in every reachable state
THEOREM RunStateInvariant == Spec => []RunStateInv
BY RunStateInit, RunStateStep, PTL DEF Spec

\* No job gives up early and none is retried past a cap, for any caps: a job ends
\* failed_infra or failed_real exactly when one of its budgets is used up
\* (handleCompletion, requeueOr, recordStockout)
THEOREM RetriesAreExact == Spec => []RetryCaps
<1>1. RunStateInv => RetryCaps
  BY DEF RunStateInv
<1> QED
  BY <1>1, RunStateInvariant, PTL

\* The stockouts of a job are its completed sweeps times the zones of a sweep, plus those
\* of the sweep under way: no zone is tried twice in a sweep and no sweep ends early
\* (pickZone, recordStockout)
THEOREM SweepsAreExact == Spec => []SweepAccounting
<1>1. RunStateInv => SweepAccounting
  BY DEF RunStateInv, SweepInv
<1> QED
  BY <1>1, RunStateInvariant, PTL

\* As long as saves succeed state.json never lags behind a verdict, a history or a sweep
\* (persist)
THEOREM DiskIsCurrent == Spec => []DiskCurrent
<1>1. RunStateInv => DiskCurrent
  BY DEF RunStateInv
<1> QED
  BY <1>1, RunStateInvariant, PTL

\* When the process ends nothing is left running, what it saved is its final state, and a
\* job is left queued only after an interrupt (Run, executeRun)
THEOREM ExitIsClean == Spec => []CleanExit
<1>1. RunStateInv => CleanExit
  BY DEF RunStateInv
<1> QED
  BY <1>1, RunStateInvariant, PTL
=============================================================================
