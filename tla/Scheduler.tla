------------------------------ MODULE Scheduler ------------------------------
(***************************************************************************)
(* The admission loop of cmd/citrun/scheduler.go: Scheduler.Run and every  *)
(* method it calls, from a fresh RunState to the process's exit code.      *)
(*                                                                         *)
(* Run is one goroutine.  It scans the queue (admit), checks whether it    *)
(* may return, and then waits in a select for a completion, the idle tick  *)
(* or the cancellation of admitCtx.  Every launched job is a goroutine     *)
(* blocked in exec.Run until it sends its completion; the two-stage signal *)
(* handler, the operator's pause file and the clock act at any moment,     *)
(* also between two jobs of one admission pass.                            *)
(*                                                                         *)
(* Time.  A deadline is the number of ticks that remain until it; Tick     *)
(* lets one tick pass for all of them.  Attempts.  Of rec.Attempts the     *)
(* code reads the last entry and the number of entries per class           *)
(* (countClass), and so the history is kept as those two.                  *)
(***************************************************************************)
EXTENDS Placement, FiniteSetsExt

CONSTANTS
  RetriesStockout,  \* completed sweeps before failed_infra
  RetriesFailure,   \* retries after a real failure
  Retries,          \* "quota", "timeout", "infra", "error" -> cap
  CooldownBase,     \* ticks of the first cooldown
  QuotaPenaltyDur,  \* ticks a region's budget stays halved after a quota hit
  RRPeriod,         \* zoneRR is kept modulo this common multiple of list lengths
  Outcomes,         \* bound: the classifications the executor returns in this instance
  SaveMayFail,      \* whether a SaveState may fail (persist only logs it)
  MaxInterrupts,    \* bound: signals delivered to the process
  MaxPauses         \* bound: times the operator creates the pause file

\* infra results whose number is capped by countClass
CappedClasses == {"quota", "timeout", "infra", "error"}

\* classifications of Result.Classification (executor.go)
Classes == CappedClasses \cup {"pass", "fail", "stockout"}

Statuses == {"queued", "running", "passed", "failed_real", "failed_infra",
             "skipped_quarantine"}

Results == Classes \cup {"none", "running", "aborted", "orphaned"}

NoTimer == -1

ASSUME SchedulerAssumption ==
  /\ RetriesStockout \in Nat \ {0}
  /\ RetriesFailure \in Nat
  /\ Retries \in [CappedClasses -> Nat \ {0}]
  /\ CooldownBase \in Nat \ {0}
  /\ QuotaPenaltyDur \in Nat
  /\ RRPeriod \in Nat \ {0}
  /\ Outcomes \subseteq Classes
  /\ SaveMayFail \in BOOLEAN
  /\ MaxInterrupts \in 0..2
  /\ MaxPauses \in Nat

\* 1<<(rounds-1) stays in range: the backoff of every sweep is a positive delay
ASSUME BackoffAssumption == \A n \in 0..RetriesStockout : 2^n \in Nat \ {0}

\* zoneRR modulo RRPeriod is exact: it only indexes lists of zones of one region
ASSUME RRPeriodAssumption ==
  \A j \in Jobs, r \in Regions :
    \A n \in 1..Cardinality({i \in DOMAIN JobZones[j] : zoneRegion[JobZones[j][i]] = r}) :
      RRPeriod % n = 0

VARIABLES
  \* st, the RunState that SaveState writes
  status,           \* job -> JobStatus
  last,             \* job -> zone and result of its last attempt
  hits,             \* job -> class -> closed attempts of that class
  stockoutZones,    \* job -> zones that stocked out in the current sweep
  stockoutRounds,   \* job -> completed sweeps
  stockoutCd,       \* job -> ticks left of Cooldowns["stockout|job"], 0 when it has
                    \* expired, NoTimer when there is no such entry
  quotaCd,          \* region, key -> ticks left of Cooldowns["quota|key|region"]
  disk,             \* state.json
  \* the Scheduler struct, lost with the process
  running,          \* launched jobs whose completion has not been handled
  runningPerShape,
  usedCPU,          \* region -> key -> CPUs charged
  usedNets,
  usedSubnets,
  cooldownHits,     \* region, key -> quota cooldowns started
  quotaPenalty,     \* region, key -> ticks left of the halved budget
  zoneRR,           \* region -> round-robin counter, modulo RRPeriod
  inflight,         \* jobs whose goroutine has not delivered its completion
  \* control
  pc,               \* where Run is
  cursor,           \* position in Order of the admission pass
  admitCancelled,   \* admitCtx.Err() != nil
  jobCancelled,     \* jobCtx.Err() != nil
  drained,          \* Run has seen admitDone and set it to nil
  pauses,           \* pause files created so far
  paused,           \* the pause file exists
  exitCode          \* what executeRun returned, -1 before

sweepVars == <<stockoutZones, stockoutRounds, stockoutCd>>
quotaVars == <<quotaCd, cooldownHits, quotaPenalty>>
usageVars == <<running, runningPerShape, usedCPU, usedNets, usedSubnets>>
runVars == <<status, last, hits, sweepVars, quotaVars, disk, usageVars, zoneRR, inflight>>
ctlVars == <<pc, cursor, drained, exitCode>>
envVars == <<admitCancelled, jobCancelled, pauses, paused>>
vars == <<runVars, ctlVars, envVars>>

RunState == [status |-> status, last |-> last, hits |-> hits,
             stockoutZones |-> stockoutZones, stockoutRounds |-> stockoutRounds,
             stockoutCd |-> stockoutCd, quotaCd |-> quotaCd]

-----------------------------------------------------------------------------
(* Helpers of the Scheduler struct *)

queuedRemaining == Cardinality({j \in Jobs : status[j] = "queued"})

allowed(r, k) ==
  IF quotaPenalty[r][k] > 0 THEN usable(r, k) \div 2 ELSE usable(r, k)

\* fault: room under any one key is taken for room under all of them
headroom_AnyKey(j, r) == Max({allowed(r, k) - usedCPU[r][k] : k \in budgetKeys(j, r)})

headroom(j, r) == Min({allowed(r, k) - usedCPU[r][k] : k \in budgetKeys(j, r)})

avoidZone(j) ==
  IF last[j].result \in {"stockout", "quota"} THEN last[j].zone ELSE NoZone

\* Positions of job.Zones that one pass of pickZone leaves: neither the zone to
\* avoid, nor one that stocked out in this sweep, nor one in a cooling region
OpenPositions(j, avoid, out) ==
  {i \in DOMAIN JobZones[j] :
     LET z == JobZones[j][i]
     IN  /\ z # avoid
         /\ z \notin out
         /\ quotaCd[zoneRegion[z]][BudgetKey[j]] = 0}

\* The region with the most headroom, the first in string order among equals
BestRegions(j, open) ==
  LET order == {zoneRegion[JobZones[j][i]] : i \in open}
  IN  {r \in order :
         /\ headroom(j, r) >= CPUCost[j]
         /\ \A q \in order :
              \/ headroom(j, q) < headroom(j, r)
              \/ headroom(j, q) = headroom(j, r) /\ r <= q}

\* One pass: the zone at position zoneRR of the best region's list, if there is one
PickPass(j, avoid, out) ==
  LET open == OpenPositions(j, avoid, out)
      At(r) == {i \in open : zoneRegion[JobZones[j][i]] = r}
  IN  UNION {{JobZones[j][i] : i \in
                {n \in At(r) : Cardinality({m \in At(r) : m < n})
                                 = zoneRR[r] % Cardinality(At(r))}}
              : r \in BestRegions(j, open)}

\* The loop over skipLast: the last zone is only a fallback.  At most one zone.
PickedZones(j, out) ==
  LET first == PickPass(j, avoidZone(j), out)
  IN  IF first # {} THEN first ELSE PickPass(j, NoZone, out)

-----------------------------------------------------------------------------
Init ==
  /\ status = [j \in Jobs |-> IF j \in Quarantined THEN "skipped_quarantine" ELSE "queued"]
  /\ last = [j \in Jobs |-> [zone |-> NoZone, result |-> "none"]]
  /\ hits = [j \in Jobs |-> [c \in Classes |-> 0]]
  /\ stockoutZones = [j \in Jobs |-> {}]
  /\ stockoutRounds = [j \in Jobs |-> 0]
  /\ stockoutCd = [j \in Jobs |-> NoTimer]
  /\ quotaCd = [r \in Regions |-> [k \in Keys |-> 0]]
  /\ disk = RunState
  /\ running = 0
  /\ runningPerShape = [s \in Shapes |-> 0]
  /\ usedCPU = [r \in Regions |-> [k \in Keys |-> 0]]
  /\ usedNets = 0
  /\ usedSubnets = 0
  /\ cooldownHits = [r \in Regions |-> [k \in Keys |-> 0]]
  /\ quotaPenalty = [r \in Regions |-> [k \in Keys |-> 0]]
  /\ zoneRR = [r \in Regions |-> 0]
  /\ inflight = {}
  /\ pc = "top"
  /\ cursor = 1
  /\ admitCancelled = FALSE
  /\ jobCancelled = FALSE
  /\ drained = FALSE
  /\ pauses = 0
  /\ paused = FALSE
  /\ exitCode = -1

\* fault: the new state is not written
persist_Skipped == disk' = disk

\* persist: a failed SaveState is logged and forgotten
persist == \/ disk' = RunState'
           \/ SaveMayFail /\ disk' = disk

\* fault: a completion does not give its slot and its shape back
charge_Leaky(j, r, sign) ==
  /\ usedCPU' = [usedCPU EXCEPT ![r] =
       [k \in Keys |-> @[k] + (IF k \in budgetKeys(j, r) THEN sign * CPUCost[j] ELSE 0)]]
  /\ usedNets' = usedNets + sign * Networks[j]
  /\ usedSubnets' = usedSubnets + sign * Subnets[j]
  /\ running' = IF sign > 0 THEN running + 1 ELSE running
  /\ runningPerShape' = [runningPerShape EXCEPT ![Shape[j]] = IF sign > 0 THEN @ + 1 ELSE @]

\* fault: what is given back is not limited to the keys that were charged
charge_AllKeysBack(j, r, sign) ==
  /\ usedCPU' = [usedCPU EXCEPT ![r] =
       [k \in Keys |-> @[k] + (IF sign < 0 \/ k \in budgetKeys(j, r)
                              THEN sign * CPUCost[j] ELSE 0)]]
  /\ usedNets' = usedNets + sign * Networks[j]
  /\ usedSubnets' = usedSubnets + sign * Subnets[j]
  /\ running' = running + sign
  /\ runningPerShape' = [runningPerShape EXCEPT ![Shape[j]] = @ + sign]

charge(j, r, sign) ==
  /\ usedCPU' = [usedCPU EXCEPT ![r] =
       [k \in Keys |-> @[k] + (IF k \in budgetKeys(j, r) THEN sign * CPUCost[j] ELSE 0)]]
  /\ usedNets' = usedNets + sign * Networks[j]
  /\ usedSubnets' = usedSubnets + sign * Subnets[j]
  /\ running' = running + sign
  /\ runningPerShape' = [runningPerShape EXCEPT ![Shape[j]] = @ + sign]

-----------------------------------------------------------------------------
(* admit *)

\* The early return: cancelled contexts and the pause file are looked at once per pass
AdmitBegin ==
  /\ pc = "top"
  /\ IF admitCancelled \/ jobCancelled \/ paused
     THEN pc' = "check" /\ UNCHANGED cursor
     ELSE pc' = "admit" /\ cursor' = 1
  /\ UNCHANGED <<runVars, drained, exitCode, envVars>>

candidate == Order[cursor]

shapeFull(j) == MaxParallel[j] > 0 /\ runningPerShape[Shape[j]] >= MaxParallel[j]

\* fault: the job's own networks are not counted
netsFull_Late(j) == usedNets > NetworksBudget \/ usedSubnets > SubnetsBudget

netsFull(j) == \/ usedNets + Networks[j] > NetworksBudget
               \/ usedSubnets + Subnets[j] > SubnetsBudget

Passing == pc = "admit" /\ cursor <= Len(Order)

\* The loop ends, or returns early at the first queued job once the cap is reached
AdmitEnd ==
  /\ pc = "admit"
  /\ cursor <= Len(Order) => status[candidate] = "queued" /\ running >= ContainerCap
  /\ pc' = "check"
  /\ UNCHANGED <<runVars, cursor, drained, exitCode, envVars>>

\* continue: not queued, no room for the shape or the networks, or the job is
\* waiting for its next sweep
AdmitSkip ==
  /\ Passing
  /\ \/ status[candidate] # "queued"
     \/ /\ running < ContainerCap
        /\ shapeFull(candidate) \/ netsFull(candidate) \/ stockoutCd[candidate] > 0
  /\ cursor' = cursor + 1
  /\ UNCHANGED <<runVars, pc, drained, exitCode, envVars>>

\* The candidate reaches pickZone and is not cooling down
Picking(j) ==
  /\ Passing
  /\ j = candidate
  /\ status[j] = "queued"
  /\ running < ContainerCap
  /\ ~shapeFull(j)
  /\ ~netsFull(j)
  /\ stockoutCd[j] <= 0

\* fault: the zones of a finished sweep stay marked
CurrentSweep_Kept(j) == stockoutZones[j]

\* pickZone drops an expired cooldown and with it the zones of the last sweep
CurrentSweep(j) == IF stockoutCd[j] = 0 THEN {} ELSE stockoutZones[j]

BeginSweep(j) ==
  /\ stockoutCd' = [stockoutCd EXCEPT ![j] = NoTimer]
  /\ stockoutZones' = [stockoutZones EXCEPT ![j] = CurrentSweep(j)]
  /\ cursor' = cursor + 1
  /\ UNCHANGED <<hits, stockoutRounds, quotaVars, pc, drained, exitCode, envVars>>

\* continue: pickZone found no zone
AdmitNoZone(j) ==
  /\ Picking(j)
  /\ PickedZones(j, CurrentSweep(j)) = {}
  /\ BeginSweep(j)
  /\ UNCHANGED <<status, last, disk, usageVars, zoneRR, inflight>>

Launch(j, z) ==
  /\ Picking(j)
  /\ z \in PickedZones(j, CurrentSweep(j))
  /\ BeginSweep(j)
  /\ zoneRR' = [zoneRR EXCEPT ![zoneRegion[z]] = (@ + 1) % RRPeriod]
  /\ charge(j, zoneRegion[z], 1)
  /\ status' = [status EXCEPT ![j] = "running"]
  /\ last' = [last EXCEPT ![j] = [zone |-> z, result |-> "running"]]
  /\ inflight' = inflight \cup {j}
  /\ persist

-----------------------------------------------------------------------------
(* Run's exit check and its select *)

\* fault: jobs in flight are not waited for
mayReturn_NoWait == queuedRemaining = 0 \/ admitCancelled \/ jobCancelled

\* fault: an interrupt does not end the loop
mayReturn_QueueOnly == running = 0 /\ queuedRemaining = 0

mayReturn == running = 0 /\ (queuedRemaining = 0 \/ admitCancelled \/ jobCancelled)

Wait ==
  /\ pc = "check"
  /\ ~mayReturn
  /\ pc' = "select"
  /\ UNCHANGED <<runVars, cursor, drained, exitCode, envVars>>

\* Run returns SaveState's error; executeRun turns the saved statuses into the exit code
Return ==
  /\ pc = "check"
  /\ mayReturn
  /\ pc' = "done"
  /\ \/ /\ disk' = RunState
        /\ exitCode' = IF \E j \in Jobs : status[j] \in {"failed_real", "failed_infra"}
                       THEN 1 ELSE 0
     \/ /\ SaveMayFail
        /\ disk' = disk
        /\ exitCode' = 2
  /\ UNCHANGED <<status, last, hits, sweepVars, quotaVars, usageVars, zoneRR, inflight,
                 cursor, drained, envVars>>

IdleTick ==
  /\ pc = "select"
  /\ pc' = "top"
  /\ UNCHANGED <<runVars, cursor, drained, exitCode, envVars>>

AdmitDone ==
  /\ pc = "select"
  /\ admitCancelled
  /\ ~drained
  /\ drained' = TRUE
  /\ pc' = "top"
  /\ UNCHANGED <<runVars, cursor, exitCode, envVars>>

-----------------------------------------------------------------------------
(* handleCompletion *)

\* What every completion does first: the charges are given back and the attempt closed
Receive(j, result) ==
  /\ pc = "select"
  /\ j \in inflight
  /\ result \in (IF jobCancelled THEN {"aborted"} ELSE Outcomes)
  /\ inflight' = inflight \ {j}
  /\ charge(j, zoneRegion[last[j].zone], -1)
  /\ last' = [last EXCEPT ![j] = [zone |-> @.zone, result |-> result]]
  /\ hits' = [hits EXCEPT ![j] = [c \in Classes |-> IF c = result THEN @[c] + 1 ELSE @[c]]]
  /\ pc' = "top"
  /\ UNCHANGED <<zoneRR, cursor, drained, exitCode, envVars>>

\* fault: the attempt under way is not counted
countClass_Before(j, c) == hits[j][c]

\* countClass once the attempt under way is closed with class c
countClass(j, c) == hits[j][c] + 1

\* requeueOr and the cases of the switch that touch nothing but the status
StatusAfter(j, c) ==
  CASE c = "pass" -> "passed"
    [] c = "fail" -> IF countClass(j, c) < RetriesFailure + 1 THEN "queued" ELSE "failed_real"
    [] c \in CappedClasses -> IF countClass(j, c) >= Retries[c] THEN "failed_infra" ELSE "queued"

Complete(j, c) ==
  /\ Receive(j, c)
  /\ status' = [status EXCEPT ![j] = StatusAfter(j, c)]
  /\ UNCHANGED <<sweepVars, quotaVars>>
  /\ persist

\* fault: every stockout counts as a sweep
SweepDone_Always(j, z) == TRUE

\* recordStockout: the failed zone leaves the sweep; the last one of a sweep ends the
\* round, and the last round the job
SweepDone(j, z) == SweepZones(j) \subseteq stockoutZones[j] \cup {z}

recordStockout(j, z) ==
  LET done == SweepDone(j, z)
      rounds == stockoutRounds[j] + (IF done THEN 1 ELSE 0)
      exhausted == done /\ rounds >= RetriesStockout
  IN  /\ stockoutZones' = [stockoutZones EXCEPT ![j] = @ \cup {z}]
      /\ stockoutRounds' = [stockoutRounds EXCEPT ![j] = rounds]
      /\ status' = [status EXCEPT ![j] = IF exhausted THEN "failed_infra" ELSE "queued"]
      /\ stockoutCd' = [stockoutCd EXCEPT ![j] =
           IF done /\ ~exhausted THEN CooldownBase * 2^(rounds - 1) ELSE @]

CompleteStockout(j) ==
  /\ Receive(j, "stockout")
  /\ recordStockout(j, last[j].zone)
  /\ UNCHANGED quotaVars
  /\ persist

\* bumpCooldown: no effect while the cooldown is active; the delay stops doubling at 2^5
QuotaDelay(n) == CooldownBase * 2^((IF n > 6 THEN 6 ELSE n) - 1)

\* fault: an active cooldown is started anew
bumpCooldown_Always(r, k) ==
  /\ cooldownHits' = [cooldownHits EXCEPT ![r][k] = @ + 1]
  /\ quotaCd' = [quotaCd EXCEPT ![r][k] = QuotaDelay(cooldownHits[r][k] + 1)]

bumpCooldown(r, k) ==
  IF quotaCd[r][k] > 0
  THEN UNCHANGED <<quotaCd, cooldownHits>>
  ELSE /\ cooldownHits' = [cooldownHits EXCEPT ![r][k] = @ + 1]
       /\ quotaCd' = [quotaCd EXCEPT ![r][k] = QuotaDelay(cooldownHits[r][k] + 1)]

CompleteQuota(j) ==
  /\ Receive(j, "quota")
  /\ LET r == zoneRegion[last[j].zone]
     IN  /\ bumpCooldown(r, BudgetKey[j])
         /\ quotaPenalty' = [quotaPenalty EXCEPT ![r][BudgetKey[j]] = QuotaPenaltyDur]
  /\ status' = [status EXCEPT ![j] = StatusAfter(j, "quota")]
  /\ UNCHANGED sweepVars
  /\ persist

\* The second interrupt cancelled jobCtx: whatever the result, the attempt is aborted
CompleteAborted(j) ==
  /\ Receive(j, "aborted")
  /\ status' = [status EXCEPT ![j] = "queued"]
  /\ UNCHANGED <<sweepVars, quotaVars>>
  /\ persist

handleCompletion(j) ==
  \/ \E c \in {"pass", "fail", "timeout", "infra", "error"} : Complete(j, c)
  \/ CompleteStockout(j)
  \/ CompleteQuota(j)
  \/ CompleteAborted(j)

-----------------------------------------------------------------------------
(* The environment *)

\* executeRun's signal goroutine: the first signal drains, the second kills
Interrupt ==
  /\ pc \in {"top", "admit", "check", "select"}
  /\ \/ /\ ~admitCancelled
        /\ MaxInterrupts > 0
        /\ admitCancelled' = TRUE
        /\ UNCHANGED jobCancelled
     \/ /\ admitCancelled
        /\ ~jobCancelled
        /\ MaxInterrupts > 1
        /\ jobCancelled' = TRUE
        /\ UNCHANGED admitCancelled
  /\ UNCHANGED <<runVars, ctlVars, pauses, paused>>

\* touch <run-dir>/pause, rm <run-dir>/pause
TogglePause ==
  /\ \/ ~paused /\ pauses < MaxPauses /\ pauses' = pauses + 1
     \/ paused /\ UNCHANGED pauses
  /\ paused' = ~paused
  /\ UNCHANGED <<runVars, ctlVars, admitCancelled, jobCancelled>>

Elapse(t) == IF t > 0 THEN t - 1 ELSE t

ElapseJobs(f) == [j \in Jobs |-> Elapse(f[j])]

ElapseKeys(f) == [r \in Regions |-> [k \in Keys |-> Elapse(f[r][k])]]

TimersActive ==
  \/ \E j \in Jobs : stockoutCd[j] > 0 \/ disk.stockoutCd[j] > 0
  \/ \E r \in Regions, k \in Keys :
       quotaCd[r][k] > 0 \/ quotaPenalty[r][k] > 0 \/ disk.quotaCd[r][k] > 0

\* One tick passes; saved cooldowns are deadlines too
Tick ==
  /\ TimersActive
  /\ stockoutCd' = ElapseJobs(stockoutCd)
  /\ quotaCd' = ElapseKeys(quotaCd)
  /\ quotaPenalty' = ElapseKeys(quotaPenalty)
  /\ disk' = [disk EXCEPT !.stockoutCd = ElapseJobs(@), !.quotaCd = ElapseKeys(@)]
  /\ UNCHANGED <<status, last, hits, stockoutZones, stockoutRounds, cooldownHits,
                 usageVars, zoneRR, inflight, ctlVars, envVars>>

Terminated == pc = "done" /\ ~TimersActive /\ UNCHANGED vars

AdmitStep ==
  \/ AdmitBegin
  \/ AdmitEnd
  \/ AdmitSkip
  \/ \E j \in Jobs : AdmitNoZone(j)
  \/ \E j \in Jobs, z \in Zones : Launch(j, z)

LoopStep == Wait \/ Return \/ IdleTick \/ AdmitDone

Next ==
  \/ AdmitStep
  \/ LoopStep
  \/ \E j \in Jobs : handleCompletion(j)
  \/ Interrupt
  \/ TogglePause
  \/ Tick
  \/ Terminated

Spec == Init /\ [][Next]_vars

(***************************************************************************)
(* Run never blocks for ever: its steps, the idle tick included, are       *)
(* weakly fair, and so is the clock.  A completion is only received in the *)
(* select, which Run leaves and enters again; a sender that is blocked on  *)
(* done is served when the select starts, before the idle timer can fire,  *)
(* and exec.Run ends by its hard timeout, hence strong fairness per job.   *)
(***************************************************************************)
Fairness ==
  /\ WF_vars(AdmitStep)
  /\ WF_vars(LoopStep)
  /\ WF_vars(Tick)
  /\ \A j \in Jobs : SF_vars(handleCompletion(j))

FairSpec == Spec /\ Fairness

-----------------------------------------------------------------------------
(* Properties *)

\* Types of the data, wherever Run is
DataOK ==
  /\ status \in [Jobs -> Statuses]
  /\ last \in [Jobs -> [zone : Zones \cup {NoZone}, result : Results]]
  /\ hits \in [Jobs -> [Classes -> Nat]]
  /\ stockoutZones \in [Jobs -> SUBSET Zones]
  /\ stockoutRounds \in [Jobs -> Nat]
  /\ stockoutCd \in [Jobs -> Nat \cup {NoTimer}]
  /\ quotaCd \in [Regions -> [Keys -> Nat]]
  /\ running \in Int
  /\ runningPerShape \in [Shapes -> Int]
  /\ usedCPU \in [Regions -> [Keys -> Int]]
  /\ usedNets \in Int
  /\ usedSubnets \in Int
  /\ cooldownHits \in [Regions -> [Keys -> Nat]]
  /\ quotaPenalty \in [Regions -> [Keys -> Nat]]
  /\ zoneRR \in [Regions -> 0..(RRPeriod - 1)]
  /\ inflight \subseteq Jobs
  /\ cursor \in 1..(Len(Order) + 1)
  /\ admitCancelled \in BOOLEAN
  /\ jobCancelled \in BOOLEAN
  /\ drained \in BOOLEAN
  /\ pauses \in 0..MaxPauses
  /\ paused \in BOOLEAN
  /\ exitCode \in {-1, 0, 1, 2}

\* Types of the whole state
TypeOK ==
  /\ DataOK
  /\ pc \in {"top", "admit", "check", "select", "done"}

\* A job that ends gives back no more than its launch charged, and under no other keys,
\* although the keys are worked out again for its completion: no counter of a well-typed
\* state falls below zero, which later launches would take for room (charge)
NothingBelowZero ==
  /\ TypeOK
  /\ running \in Nat
  /\ runningPerShape \in [Shapes -> Nat]
  /\ usedCPU \in [Regions -> [Keys -> Nat]]
  /\ usedNets \in Nat
  /\ usedSubnets \in Nat

\* The budgets of citrun.yaml hold at every moment, for the counters that admission
\* relies on: no region's charged CPUs exceed limit * safety under any key (a quota
\* penalty only halves what later launches may use), and the container, network and
\* subnetwork budgets hold too (admit, pickZone, charge)
WithinBudgets ==
  /\ \A r \in Regions, k \in Keys : usedCPU[r][k] <= usable(r, k)
  /\ running <= ContainerCap
  /\ usedNets <= NetworksBudget
  /\ usedSubnets <= SubnetsBudget

\* Status, attempt history and goroutines agree about which jobs run: a job is
\* "running" exactly while its goroutine is in flight, its last attempt is open
\* exactly then and has a zone, whose charges its completion gives back, and s.running
\* counts those goroutines (launch, handleCompletion)
RunningIsInflight ==
  /\ running = Cardinality(inflight)
  /\ \A j \in Jobs :
       /\ status[j] = "running" <=> j \in inflight
       /\ last[j].result = "running" <=> j \in inflight
       /\ j \in inflight => last[j].zone \in Zones

Placed == [j \in Jobs |-> IF j \in inflight THEN last[j].zone ELSE NoZone]

\* The pool that the scheduler implements: its zones are those of the jobs in flight
Pool == INSTANCE JobPool WITH placed <- Placed

\* Nothing leaks from the books: every counter equals the sum over the jobs in
\* flight, so that what charge(-1) gives back is what charge(+1) took
BooksBalance ==
  /\ \A r \in Regions, k \in Keys :
       usedCPU[r][k] = Total(CPUCost, Pool!ChargedTo(Placed, r, k))
  /\ usedNets = Total(Networks, inflight)
  /\ usedSubnets = Total(Subnets, inflight)
  /\ \A s \in Shapes : runningPerShape[s] = Cardinality({j \in inflight : Shape[j] = s})

\* A sweep tries every budget-feasible zone once: the stockouts a job has collected
\* are its completed sweeps times the zones of a sweep, plus the zones marked in the
\* sweep under way, and a finished sweep that the job still waits on or died of is
\* not counted twice (recordStockout, pickZone)
SweepAccounting ==
  \A j \in Jobs :
    LET swept == SweepZones(j) \subseteq stockoutZones[j] /\ stockoutRounds[j] > 0
    IN  /\ stockoutZones[j] \subseteq SweepZones(j)
        /\ hits[j]["stockout"] =
             stockoutRounds[j] * Cardinality(SweepZones(j))
               + (IF swept THEN 0 ELSE Cardinality(stockoutZones[j]))
        /\ stockoutCd[j] # NoTimer => swept

\* A job that waits or runs has every retry budget left, and a job ends
\* failed_infra or failed_real exactly when one is used up: nobody gives up early,
\* and no class is retried past its cap (handleCompletion, recordStockout)
Exhausted(j) == \/ stockoutRounds[j] >= RetriesStockout
                \/ \E c \in CappedClasses : hits[j][c] >= Retries[c]

RetryCaps ==
  \A j \in Jobs :
    /\ status[j] = "failed_infra" <=> Exhausted(j)
    /\ status[j] = "failed_real" <=> hits[j]["fail"] > RetriesFailure
    /\ status[j] = "passed" <=> hits[j]["pass"] > 0
    /\ stockoutRounds[j] <= RetriesStockout
    /\ hits[j]["fail"] <= RetriesFailure + 1
    /\ \A c \in CappedClasses : hits[j][c] <= Retries[c]

\* As long as saves succeed, a crash at any moment loses no verdict: state.json holds
\* the status, the history and the sweep of every job; only the start of a new sweep
\* may be missing, which pickZone repeats (persist)
DiskCurrent ==
  SaveMayFail \/
    /\ disk.status = status
    /\ disk.last = last
    /\ disk.hits = hits
    /\ disk.stockoutRounds = stockoutRounds
    /\ disk.quotaCd = quotaCd
    /\ \A j \in Jobs :
         \/ /\ disk.stockoutCd[j] = stockoutCd[j]
            /\ disk.stockoutZones[j] = stockoutZones[j]
         \/ /\ disk.stockoutCd[j] = 0
            /\ stockoutCd[j] = NoTimer
            /\ stockoutZones[j] = {}

\* When the process ends without a setup error, no job is left running, the saved
\* state is the final one also after earlier saves failed, and unless a signal
\* stopped the run no job is left queued (Run, executeRun)
CleanExit ==
  pc = "done" =>
    /\ inflight = {}
    /\ \A j \in Jobs : status[j] # "running"
    /\ exitCode # 2 => disk = RunState
    /\ admitCancelled \/ \A j \in Jobs : status[j] # "queued"

\* Whatever the order of launches, completions, penalties and cooldowns, the scheduler
\* behaves as a pool of jobs that never uses more than it has (JobPool)
ImplementsPool == Pool!Spec

\* Once Run has seen the first interrupt nothing is launched any more (admit, Run)
DrainedLaunchesNothing == [][drained => inflight' \subseteq inflight]_vars

\* Failures that arrive while a quota cooldown is active neither extend it nor raise
\* the backoff of the next one (bumpCooldown, docs/citrun.md "Stockout and quota retries")
QuotaCooldownNotExtended ==
  [][\A r \in Regions, k \in Keys :
       quotaCd[r][k] > 0 =>
         quotaCd'[r][k] <= quotaCd[r][k] /\ cooldownHits'[r][k] = cooldownHits[r][k]]_vars

\* If the operator does not leave the run paused, Run returns: no mix of cooldowns,
\* penalties, exhausted sweeps and full budgets blocks the queue for ever.  And an
\* interrupt ends the run, paused or not: the drain waits only for jobs in flight
RunTerminates ==
  /\ <>[](~paused) => <>(pc = "done")
  /\ admitCancelled ~> pc = "done"

=============================================================================
