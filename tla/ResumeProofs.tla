----------------------------- MODULE ResumeProofs -----------------------------
(***************************************************************************)
(* What survives the loss of a process, for any number of jobs, crashes    *)
(* and resumes.                                                            *)
(***************************************************************************)
EXTENDS Resume, SchedulerProofs

-----------------------------------------------------------------------------
(* The inductive invariants *)

\* A Scheduler is running, or has just returned; otherwise the process is gone or still in
\* prepareResume
Up == pc \in {"top", "admit", "check", "select", "done"}

\* The Scheduler struct of a process that has launched nothing
NothingCharged ==
  /\ running = 0
  /\ runningPerShape = [s \in Shapes |-> 0]
  /\ usedCPU = [r \in Regions |-> [k \in Keys |-> 0]]
  /\ usedNets = 0
  /\ usedSubnets = 0
  /\ inflight = {}

\* Statuses and attempts agree about what runs, in memory or on disk
Agree(s, l) ==
  \A j \in Jobs : /\ s[j] = "running" <=> l[j].result = "running"
                  /\ s[j] = "running" => l[j].zone \in Zones

RTypeOK ==
  /\ DataOK
  /\ DiskType
  /\ ResumeTypeOK
  /\ plan \in [requeue : SUBSET Jobs, attach : SUBSET Jobs]
  /\ onlyFailed \in BOOLEAN

\* Where prepareResume is: what it has passed no longer runs, what it has not come to is as
\* it was loaded, and it blocks in Attach for a job that does run
CursorInv ==
  /\ \A i \in 1..Len(Order) :
       /\ i < rcursor => status[Order[i]] # "running"
       /\ i >= rcursor => /\ status[Order[i]] = disk.status[Order[i]]
                          /\ stockoutRounds[Order[i]] = disk.stockoutRounds[Order[i]]
  /\ pc = "attach" => rcursor <= Len(Order) /\ status[resumed] = "running"

\* Whichever process is alive: the books of a running scheduler balance, and a process
\* that has not begun to schedule has charged nothing
ProcessInv ==
  /\ RTypeOK
  /\ Agree(disk.status, disk.last)
  /\ Up => BooksInv
  /\ ~Up => NothingCharged /\ Agree(status, last) /\ CursorInv
  /\ pc = "down" => /\ status = disk.status
                    /\ last = disk.last
                    /\ stockoutRounds = disk.stockoutRounds
                    /\ rcursor = 1
                    /\ requeued = {}

\* What is in memory never falls behind state.json: a saved verdict stays, and a saved
\* round is lost only to a resume that starts an exhausted job over
MemoryInv ==
  \A j \in Jobs :
    /\ disk.status[j] = "passed" => status[j] = "passed"
    /\ disk.status[j] = "failed_real" => status[j] = "failed_real" \/ onlyFailed
    /\ \/ stockoutRounds[j] >= disk.stockoutRounds[j]
       \/ ~Up /\ disk.status[j] = "failed_infra" /\ status[j] = "queued"

\* Without faults of docker ps, of saves and of slow docker runs: the containers of a lost
\* process are those of jobs that still run, and nobody else's
CloudInv ==
  /\ Up => DiskCurrent
  /\ pc # "down" => stray = {}
  /\ Up => containers \subseteq owned
  /\ \A j \in containers \cup stray : disk.status[j] = "running"
  /\ pc \in {"resume", "attach"} => \A j \in containers : status[j] = "running"

\* ... and they fit the budgets
ChargedCloud(r, k) == Charged(containers \cup stray \cup starting, disk.last, r, k)

CloudFits ==
  /\ Cardinality(containers \cup stray \cup starting) <= ContainerCap
  /\ \A r \in Regions, k \in Keys : Total(CPUCost, ChargedCloud(r, k)) <= usable(r, k)

\* The rules of prepareResume for a job it has not come to yet
WillRequeue(j) ==
  \/ status[j] \in {"queued", "running", "failed_infra"}
  \/ status[j] = "failed_real" /\ onlyFailed

\* The plan against what prepareResume has done so far: what it has passed was requeued, or
\* judged, or is as it was; what it has not come to is listed when its rules requeue it
Listed == plan.requeue \cup plan.attach

Verdicts == {"passed", "failed_real", "failed_infra"}

Judged(j) ==
  /\ j \in plan.requeue => PsMayFail \/ SlowStart
  /\ disk.status[j] = "running"
  /\ status[j] \in Verdicts

PlanInv ==
  pc \in {"resume", "attach"} =>
    /\ requeued \subseteq Listed
    /\ ~SlowStart => stray = {}
    /\ pc = "attach" /\ resumed \in plan.requeue => PsMayFail \/ SlowStart
    /\ \A i \in 1..Len(Order) :
         LET j == Order[i]
         IN  /\ i < rcursor => IF j \in Listed THEN j \in requeued \/ Judged(j)
                               ELSE status[j] = disk.status[j]
             /\ i >= rcursor => /\ WillRequeue(j) <=> j \in Listed
                                /\ j \in plan.requeue /\ status[j] = "running" /\ j \in containers =>
                                     PsMayFail \/ SlowStart

-----------------------------------------------------------------------------
(* What the steps of a resume do *)

\* Every job has one place in Order
LEMMA OrderFacts ==
  /\ Len(Order) \in Nat
  /\ \A i \in 1..Len(Order) : Order[i] \in Jobs
  /\ \A i, k \in 1..Len(Order) : Order[i] = Order[k] => i = k
  /\ \A j \in Jobs : \E i \in 1..Len(Order) : Order[i] = j
<1>1. Order \in Seq(Jobs) /\ DOMAIN Order = 1..Len(Order)
  BY JobsAssumption
<1> QED
  BY <1>1, OrderAssumption

\* prepareResume goes past job j: what all its cases have in common
PassOver(j) ==
  /\ j = resumed
  /\ pc \in {"resume", "attach"}
  /\ rcursor <= Len(Order)
  /\ pc' = "resume"
  /\ rcursor' = rcursor + 1
  /\ UNCHANGED <<quotaVars, disk, usageVars, zoneRR, inflight, cursor, drained, exitCode,
                 envVars, dockerVars, onlyFailed, plan>>
  \* only its own entries change, and it does not run any more
  /\ \A i \in Jobs \ {j} : /\ status'[i] = status[i]
                            /\ last'[i] = last[i]
                            /\ stockoutRounds'[i] = stockoutRounds[i]
  /\ status'[j] # "running" /\ last'[j].result # "running"
  \* a verdict is kept, and a round is lost only when an exhausted job starts over
  /\ status[j] = "passed" => status'[j] = "passed"
  /\ status[j] = "failed_real" => status'[j] = "failed_real" \/ onlyFailed
  /\ \/ stockoutRounds'[j] >= stockoutRounds[j]
     \/ status[j] = "failed_infra" /\ status'[j] = "queued"
  \* its container is gone
  /\ status[j] = "running" /\ ~PsMayFail => j \notin containers
  \* what is counted
  /\ requeued' = requeued \/ (requeued' = requeued \cup {j} /\ WillRequeue(j))
  /\ pc = "resume" /\ WillRequeue(j) => requeued' = requeued \cup {j}
  /\ ~WillRequeue(j) => status'[j] = status[j]
  /\ pc = "attach" => requeued' = requeued \cup {j} \/ status'[j] \in Verdicts

\* The sweep of job j goes on: nothing happens to it, its zones are used up by an attempt that
\* ran, or a new sweep begins after an expired cooldown
Advances(j) ==
  \/ /\ stockoutZones[j] \subseteq stockoutZones'[j]
     /\ stockoutRounds'[j] = stockoutRounds[j]
     /\ stockoutCd'[j] = stockoutCd[j]
  \/ /\ status[j] = "running"
     /\ stockoutRounds'[j] > stockoutRounds[j]
  \/ /\ stockoutCd[j] = 0
     /\ stockoutRounds'[j] = stockoutRounds[j]
     /\ stockoutCd'[j] = NoTimer

\* What prepareResume does to sweeps when it goes past job j
PassSweeps(j) ==
  /\ \A i \in Jobs \ {j} : /\ stockoutZones'[i] = stockoutZones[i]
                            /\ stockoutRounds'[i] = stockoutRounds[i]
                            /\ stockoutCd'[i] = stockoutCd[i]
                            /\ hits'[i] = hits[i]
  /\ IF status[j] = "failed_infra"
     THEN /\ status'[j] = "queued"
          /\ stockoutZones'[j] = {}
          /\ stockoutRounds'[j] = 0
          /\ stockoutCd'[j] = NoTimer
          /\ hits'[j] = hits[j]
     ELSE Advances(j)

\* A recorded stockout advances the sweep of a job whose attempt has ended
LEMMA RecordAdvances ==
  ASSUME DataOK, NEW i \in Jobs, NEW z, recordStockout(i, z), status[i] = "running",
         NEW j \in Jobs
  PROVE  /\ Advances(j)
         /\ j # i => /\ stockoutZones'[j] = stockoutZones[j]
                     /\ stockoutRounds'[j] = stockoutRounds[j]
                     /\ stockoutCd'[j] = stockoutCd[j]
<1>1. stockoutRounds \in [Jobs -> Nat]
      /\ stockoutZones \in [Jobs -> SUBSET Zones] /\ stockoutCd \in [Jobs -> Nat \cup {NoTimer}]
  BY DEF DataOK
<1>2. CASE j # i
  BY <1>1, <1>2 DEF recordStockout, Advances
<1>3. CASE j = i /\ SweepDone(i, z)
  <2>1. stockoutRounds'[i] = stockoutRounds[i] + 1
    BY <1>1, <1>3 DEF recordStockout
  <2> QED
    BY <1>1, <1>3, <2>1 DEF Advances
<1>4. CASE j = i /\ ~SweepDone(i, z)
  <2>1. stockoutRounds'[i] = stockoutRounds[i] + 0 /\ stockoutCd'[i] = stockoutCd[i]
        /\ stockoutZones'[i] = stockoutZones[i] \cup {z}
    BY <1>1, <1>4 DEF recordStockout
  <2> QED
    BY <1>1, <1>4, <2>1 DEF Advances
<1> QED
  BY <1>2, <1>3, <1>4

PassType ==
  /\ status' \in [Jobs -> Statuses]
  /\ last' \in [Jobs -> [zone : Zones \cup {NoZone}, result : Results]]
  /\ hits' \in [Jobs -> [Classes -> Nat]]
  /\ stockoutZones' \in [Jobs -> SUBSET Zones]
  /\ stockoutRounds' \in [Jobs -> Nat]
  /\ stockoutCd' \in [Jobs -> Nat \cup {NoTimer}]

\* The cases of the switch of prepareResume that do not attach
LEMMA SwitchPasses ==
  ASSUME ProcessInv, ResumeKeep \/ ResumeFailedReal \/ ResumeFailedInfra \/ ResumeOrphan
  PROVE  \E j \in Jobs : PassOver(j) /\ PassType /\ PassSweeps(j)
<1> DEFINE j == resumed
<1>1. pc = "resume" /\ rcursor <= Len(Order) /\ rcursor' = rcursor + 1 /\ pc' = "resume"
  BY DEF ResumeKeep, ResumeFailedReal, ResumeFailedInfra, ResumeOrphan, Resuming
<1>2. UNCHANGED <<quotaVars, disk, usageVars, zoneRR, inflight, cursor, drained, exitCode,
                  envVars, dockerVars, onlyFailed, plan>>
  BY DEF ResumeKeep, ResumeFailedReal, ResumeFailedInfra, ResumeOrphan, Resuming
<1>3. j \in Jobs
  <2>1. rcursor \in 1..(Len(Order) + 1)
    BY DEF ProcessInv, RTypeOK, ResumeTypeOK
  <2> QED
    BY <1>1, <2>1, OrderFacts DEF resumed
<1>4. Agree(status, last) /\ DataOK
  BY <1>1 DEF ProcessInv, Up, RTypeOK
<1>5. /\ status \in [Jobs -> Statuses]
      /\ last \in [Jobs -> [zone : Zones \cup {NoZone}, result : Results]]
      /\ hits \in [Jobs -> [Classes -> Nat]]
      /\ stockoutZones \in [Jobs -> SUBSET Zones]
      /\ stockoutRounds \in [Jobs -> Nat]
      /\ stockoutCd \in [Jobs -> Nat \cup {NoTimer}]
  BY <1>4 DEF DataOK
<1> HIDE DEF j
<1>6. "queued" \in Statuses /\ "orphaned" \in Results
  BY DEF Statuses, Results
<1>7. CASE ResumeKeep
  <2>1. UNCHANGED <<status, last, hits, sweepVars>>
    BY <1>7 DEF ResumeKeep
  <2>2. /\ \/ status[j] = "queued" /\ requeued' = requeued \cup {j}
           \/ /\ status[j] \in {"passed", "skipped_quarantine"} \/ (status[j] = "failed_real" /\ ~onlyFailed)
              /\ requeued' = requeued
    BY <1>7 DEF ResumeKeep, Resuming, j
  <2>3. status[j] # "running" /\ last[j].result # "running"
    BY <1>3, <1>4, <2>2 DEF Agree
  <2>4. stockoutRounds'[j] >= stockoutRounds[j]
    BY <1>3, <1>5, <2>1 DEF sweepVars
  <2>5. PassOver(j)
    BY <1>1, <1>2, <1>3, <2>1, <2>2, <2>3, <2>4 DEF PassOver, WillRequeue, sweepVars, j
  <2>6. PassType
    BY <1>5, <2>1 DEF PassType, sweepVars
  <2>7. PassSweeps(j)
    BY <2>1, <2>2 DEF PassSweeps, Advances, sweepVars
  <2> QED
    BY <1>3, <2>5, <2>6, <2>7
<1>8. CASE ResumeFailedReal
  <2>1. /\ status[j] = "failed_real" /\ onlyFailed
        /\ status' = [status EXCEPT ![j] = "queued"] /\ requeued' = requeued \cup {j}
        /\ UNCHANGED <<last, hits, sweepVars>>
    BY <1>8 DEF ResumeFailedReal, Resuming, Requeue, j
  <2>2. last[j].result # "running"
    BY <1>3, <1>4, <2>1 DEF Agree
  <2>3. stockoutRounds'[j] >= stockoutRounds[j]
    BY <1>3, <1>5, <2>1 DEF sweepVars
  <2>4. PassOver(j)
    BY <1>1, <1>2, <1>3, <1>5, <2>1, <2>2, <2>3 DEF PassOver, WillRequeue, sweepVars, j
  <2>5. PassType
    BY <1>3, <1>5, <1>6, <2>1 DEF PassType, sweepVars
  <2>6. PassSweeps(j)
    BY <2>1 DEF PassSweeps, Advances, sweepVars
  <2> QED
    BY <1>3, <2>4, <2>5, <2>6
<1>9. CASE ResumeFailedInfra
  <2>1. /\ status[j] = "failed_infra"
        /\ status' = [status EXCEPT ![j] = "queued"] /\ requeued' = requeued \cup {j}
        /\ stockoutZones' = [stockoutZones EXCEPT ![j] = {}]
        /\ stockoutRounds' = [stockoutRounds EXCEPT ![j] = 0]
        /\ stockoutCd' = [stockoutCd EXCEPT ![j] = NoTimer]
        /\ UNCHANGED <<last, hits>>
    BY <1>9 DEF ResumeFailedInfra, Resuming, Requeue, j
  <2>2. last[j].result # "running"
    BY <1>3, <1>4, <2>1 DEF Agree
  <2>3. PassOver(j)
    BY <1>1, <1>2, <1>3, <1>5, <2>1, <2>2 DEF PassOver, WillRequeue, j
  <2>4. PassType
    BY <1>3, <1>5, <1>6, <2>1 DEF PassType
  <2>5. PassSweeps(j)
    BY <1>3, <1>5, <2>1 DEF PassSweeps, Advances
  <2> QED
    BY <1>3, <2>3, <2>4, <2>5
<1>10. CASE ResumeOrphan
  <2>1. /\ status[j] = "running"
        /\ j \notin containers \/ PsMayFail
        /\ last' = [last EXCEPT ![j].result = "orphaned"]
        /\ status' = [status EXCEPT ![j] = "queued"] /\ requeued' = requeued \cup {j}
        /\ UNCHANGED <<hits, sweepVars>>
    BY <1>10 DEF ResumeOrphan, Resuming, Requeue, j
  <2>2. stockoutRounds'[j] >= stockoutRounds[j]
    BY <1>3, <1>5, <2>1 DEF sweepVars
  <2>3. PassOver(j)
    BY <1>1, <1>2, <1>3, <1>5, <2>1, <2>2 DEF PassOver, WillRequeue, sweepVars, j
  <2>4. PassType
    BY <1>3, <1>5, <1>6, <2>1 DEF PassType, sweepVars
  <2>5. PassSweeps(j)
    BY <2>1 DEF PassSweeps, Advances, sweepVars
  <2> QED
    BY <1>3, <2>3, <2>4, <2>5
<1> QED
  BY <1>7, <1>8, <1>9, <1>10

\* An attached job that ends: the container it waited for is gone, and the job has a
\* verdict or waits again
LEMMA AttachPasses ==
  ASSUME ProcessInv, AttachVerdict \/ AttachStockout \/ AttachOther
  PROVE  \E j \in Jobs : PassOver(j) /\ PassType /\ PassSweeps(j)
<1> DEFINE j == resumed
<1>1. PICK c \in Outcomes : AttachReturns(c)
  BY DEF AttachVerdict, AttachStockout, AttachOther, AttachReturns
<1>2. /\ pc = "attach" /\ pc' = "resume" /\ rcursor' = rcursor + 1
      /\ j \notin containers
      /\ last' = [last EXCEPT ![j].result = c]
      /\ hits' = [hits EXCEPT ![j][c] = @ + 1]
      /\ UNCHANGED <<quotaVars, disk, usageVars, zoneRR, inflight, cursor, drained, exitCode,
                     envVars, dockerVars, onlyFailed, plan>>
  BY <1>1 DEF AttachReturns
<1>3. /\ rcursor <= Len(Order) /\ status[j] = "running"
      /\ Agree(status, last) /\ DataOK /\ rcursor \in 1..(Len(Order) + 1)
  BY <1>2 DEF ProcessInv, Up, CursorInv, RTypeOK, ResumeTypeOK
<1>4. j \in Jobs
  BY <1>3, OrderFacts DEF resumed
<1>5. c \in Classes /\ c \in Results \ {"running"}
  BY SchedulerAssumption DEF Classes, CappedClasses, Results
<1>6. /\ status \in [Jobs -> Statuses]
      /\ last \in [Jobs -> [zone : Zones \cup {NoZone}, result : Results]]
      /\ hits \in [Jobs -> [Classes -> Nat]]
      /\ stockoutZones \in [Jobs -> SUBSET Zones]
      /\ stockoutRounds \in [Jobs -> Nat]
      /\ stockoutCd \in [Jobs -> Nat \cup {NoTimer}]
  BY <1>3 DEF DataOK
<1> HIDE DEF j
<1>7. last' \in [Jobs -> [zone : Zones \cup {NoZone}, result : Results]]
  BY <1>2, <1>4, <1>5, <1>6
<1>8. hits' \in [Jobs -> [Classes -> Nat]]
  <2> DEFINE row == [hits[j] EXCEPT ![c] = @ + 1]
  <2>1. row \in [Classes -> Nat]
    BY <1>4, <1>5, <1>6
  <2>2. hits' = [hits EXCEPT ![j] = row]
    BY <1>2
  <2> HIDE DEF row
  <2> QED
    BY <1>4, <1>6, <2>1, <2>2
<1>9. last'[j].result # "running" /\ \A i \in Jobs \ {j} : last'[i] = last[i]
  BY <1>2, <1>4, <1>5, <1>6
<1>10. WillRequeue(j)
  BY <1>3 DEF WillRequeue
<1>11. ASSUME NEW s \in Statuses \ {"running"}, NEW n \in Nat, n >= stockoutRounds[j],
              status' = [status EXCEPT ![j] = s],
              stockoutRounds' = [stockoutRounds EXCEPT ![j] = n],
              requeued' = requeued \cup {j} \/ (requeued' = requeued /\ s \in Verdicts)
       PROVE  PassOver(j)
  BY <1>2, <1>3, <1>4, <1>6, <1>9, <1>10, <1>11 DEF PassOver, j
<1>12. Verdicts \cup {"queued"} \subseteq Statuses \ {"running"} /\ "passed" \in Verdicts
       /\ "failed_real" \in Verdicts /\ "failed_infra" \in Verdicts
  BY DEF Statuses, Verdicts
<1>13. stockoutRounds[j] \in Nat /\ stockoutRounds[j] >= stockoutRounds[j]
  BY <1>4, <1>6
<1>14. \A i \in Jobs \ {j} : hits'[i] = hits[i]
  BY <1>2, <1>4, <1>6
<1>15. CASE AttachVerdict \/ AttachOther
  <2>1. UNCHANGED sweepVars
    BY <1>15 DEF AttachVerdict, AttachOther
  <2>2. \E s \in {"passed", "failed_real", "queued"} :
          /\ status' = [status EXCEPT ![j] = s]
          /\ requeued' = requeued \cup {j} \/ (requeued' = requeued /\ s \in Verdicts)
    BY <1>15 DEF AttachVerdict, AttachOther, Requeue, Verdicts, j
  <2>3. stockoutRounds' = [stockoutRounds EXCEPT ![j] = stockoutRounds[j]]
    BY <1>6, <2>1 DEF sweepVars
  <2>4. PassOver(j)
    BY <1>11, <1>12, <1>13, <2>2, <2>3
  <2>5. PassType
    BY <1>4, <1>6, <1>7, <1>8, <1>12, <2>1, <2>2 DEF PassType, sweepVars
  <2>6. PassSweeps(j)
    BY <1>3, <1>14, <2>1 DEF PassSweeps, Advances, sweepVars
  <2> QED
    BY <1>4, <2>4, <2>5, <2>6
<1>16. CASE AttachStockout
  <2>1. /\ recordStockout(j, last[j].zone)
        /\ requeued' = requeued \cup {j} \/ (requeued' = requeued /\ status'[j] # "queued")
    BY <1>16 DEF AttachStockout, j
  <2>2. last[j].zone \in Zones
    BY <1>3, <1>4 DEF Agree
  <2>3. /\ status' \in [Jobs -> Statuses]
        /\ stockoutZones' \in [Jobs -> SUBSET Zones]
        /\ stockoutRounds' \in [Jobs -> Nat]
        /\ stockoutCd' \in [Jobs -> Nat \cup {NoTimer}]
    BY <1>3, <1>4, <2>1, <2>2, RecordStockoutType
  <2>4. \E s \in {"failed_infra", "queued"} :
          /\ status' = [status EXCEPT ![j] = s]
          /\ requeued' = requeued \cup {j} \/ (requeued' = requeued /\ s \in Verdicts)
    BY <1>4, <1>6, <2>1 DEF recordStockout, Verdicts
  <2>5. \E n \in {stockoutRounds[j] + 0, stockoutRounds[j] + 1} :
          stockoutRounds' = [stockoutRounds EXCEPT ![j] = n]
    BY <2>1 DEF recordStockout
  <2>6. \A n \in {stockoutRounds[j] + 0, stockoutRounds[j] + 1} : n \in Nat /\ n >= stockoutRounds[j]
    BY <1>13
  <2>7. PassOver(j)
    BY <1>11, <1>12, <2>1, <2>4, <2>5, <2>6
  <2>8. PassType
    BY <1>7, <1>8, <2>3 DEF PassType
  <2>9. PassSweeps(j)
    BY <1>3, <1>4, <1>14, <2>1, RecordAdvances DEF PassSweeps
  <2> QED
    BY <1>4, <2>7, <2>8, <2>9
<1> QED
  BY <1>15, <1>16

-----------------------------------------------------------------------------
(* What the steps of a scheduler do *)

\* A step of a scheduler that is not the clock's leaves state.json alone, or saves everything
LEMMA SavedWhole ==
  ASSUME [Next]_vars
  PROVE  disk' = disk \/ disk' = RunState' \/ Tick
<1>1. Return => (disk' = disk \/ disk' = RunState')
  BY DEF Return, RunState, sweepVars, quotaVars
<1>2. ASSUME NEW j \in Jobs, AdmitNoZone(j) PROVE disk' = disk
  BY <1>2 DEF AdmitNoZone
<1>3. UNCHANGED <<status, last, hits, sweepVars, quotaCd, disk>> => disk' = disk
  OBVIOUS
<1> QED
  BY <1>1, <1>2, <1>3, DiskKinds DEF persist

\* A step of a scheduler leaves what state.json says of the jobs alone, or saves it all
LEMMA SavedOrNot ==
  ASSUME DiskType, [Next]_vars
  PROVE  \/ /\ disk'.status = disk.status
            /\ disk'.last = disk.last
            /\ disk'.stockoutRounds = disk.stockoutRounds
         \/ /\ disk'.status = status'
            /\ disk'.last = last'
            /\ disk'.stockoutRounds = stockoutRounds'
<1>1. disk' = disk \/ disk' = RunState' \/ Tick
  BY SavedWhole
<1>2. CASE Tick
  BY <1>2 DEF Tick, DiskType
<1>3. CASE disk' = RunState'
  BY <1>3 DEF RunState
<1> QED
  BY <1>1, <1>2, <1>3

\* Every step of a running scheduler keeps its books and the types of state.json, and
\* what it saves agrees about what runs
LEMMA UpStep ==
  ASSUME ProcessInv, Up, [Next]_vars
  PROVE  /\ Up'
         /\ BooksInv'
         /\ DataOK'
         /\ DiskType'
         /\ Agree(disk'.status, disk'.last)
<1>1. /\ BooksInv /\ TypeOK /\ RunningIsInflight /\ WithinBudgets /\ Books
      /\ DiskType /\ Agree(disk.status, disk.last)
  BY DEF ProcessInv, BooksInv, AdmissionInv, RTypeOK
<1>2. BooksInv'
  BY <1>1, TypeStep, RunningStep, BudgetStep, BooksStep DEF BooksInv, AdmissionInv
<1>3. TypeOK' /\ RunningIsInflight'
  BY <1>2 DEF BooksInv, AdmissionInv
<1>4. DiskType'
  BY <1>1, <1>3, DiskTypeStep
<1>5. Agree(status', last')
  BY <1>3 DEF Agree, RunningIsInflight
<1>6. \/ disk'.status = disk.status /\ disk'.last = disk.last
      \/ disk'.status = status' /\ disk'.last = last'
  BY <1>1, SavedOrNot
<1>7. Agree(disk'.status, disk'.last)
  BY <1>1, <1>5, <1>6 DEF Agree
<1>8. Up' /\ DataOK'
  BY <1>3 DEF TypeOK, Up
<1> QED
  BY <1>2, <1>4, <1>7, <1>8

-----------------------------------------------------------------------------
(* The kinds of steps *)

\* A scheduler at work: a launch starts a docker run, and a completion comes from a
\* goroutine whose docker run has ended
Schedules ==
  /\ Up
  /\ [Next]_vars
  /\ UNCHANGED <<containers, owned, stray, resumeVars>>
  /\ \/ UNCHANGED <<starting, inflight>>
     \/ \E j \in Jobs : starting' = starting \cup {j} /\ inflight' = inflight \cup {j}
     \/ \E j \in Jobs : /\ j \notin owned \cup starting
                        /\ inflight' = inflight \ {j}
                        /\ UNCHANGED starting

\* Containers start and end, and citrun does not notice
DockerActs ==
  /\ UNCHANGED <<vars, resumeVars>>
  /\ containers' \cup stray' \cup starting' \subseteq containers \cup stray \cup starting
  /\ containers' \subseteq Jobs
  /\ owned' \subseteq inflight \cap containers'
  /\ starting' \subseteq starting
  /\ stray' \subseteq stray
  /\ stray = {} /\ containers \subseteq owned => containers' \subseteq owned'

\* Time passes without a scheduler
Waits == ~Up /\ Tick /\ UNCHANGED <<dockerVars, resumeVars>>

Loses == Gone /\ exitCode' \in {-1, 0, 1, 2}

Passes == \E j \in Jobs : PassOver(j) /\ PassType /\ PassSweeps(j)

\* cmdResume has saved, and starts a scheduler
Saves ==
  /\ pc = "resume" /\ pc' = "top"
  /\ rcursor > Len(Order)
  /\ disk' = RunState
  /\ rcursor' = 1 /\ requeued' = {} /\ plan' = [requeue |-> {}, attach |-> {}]
  /\ UNCHANGED <<status, last, hits, sweepVars, quotaVars, usageVars, zoneRR, inflight,
                 cursor, drained, exitCode, envVars, dockerVars, onlyFailed>>

\* Every step of a run with crashes and resumes is of one of a few kinds
LEMMA ResumeKinds ==
  ASSUME ProcessInv, [RNext]_allVars
  PROVE  \/ Schedules
         \/ DockerActs
         \/ Waits
         \/ Loses
         \/ StartResume
         \/ Passes
         \/ ResumeAttach
         \/ Saves
<1>1. /\ owned \subseteq inflight \cap containers /\ starting \subseteq inflight
      /\ containers \subseteq Jobs /\ stray \subseteq Jobs /\ inflight \subseteq Jobs
      /\ exitCode \in {-1, 0, 1, 2}
  BY DEF ProcessInv, RTypeOK, ResumeTypeOK, DataOK
<1>2. CASE UNCHANGED allVars \/ Stopped
  <2>1. UNCHANGED <<vars, dockerVars, resumeVars>>
    BY <1>2 DEF Stopped, allVars
  <2> QED
    BY <1>1, <2>1 DEF DockerActs, dockerVars
<1>3. CASE RAdmitStep
  <2>1. Next /\ Up /\ UNCHANGED <<dockerVars, resumeVars, inflight>>
    <3>1. UNCHANGED inflight
      BY <1>3 DEF RAdmitStep, AdmitBegin, AdmitEnd, AdmitSkip, AdmitNoZone, runVars
    <3>2. pc \in {"top", "admit"}
      BY <1>3 DEF RAdmitStep, AdmitBegin, AdmitEnd, AdmitSkip, AdmitNoZone, Picking, Passing
    <3> QED
      BY <1>3, <3>1, <3>2 DEF RAdmitStep, Next, AdmitStep, Up
  <2> QED
    BY <2>1 DEF Schedules, dockerVars
<1>4. ASSUME NEW j \in Jobs, NEW z \in Zones, RLaunch(j, z) PROVE Schedules
  <2>1. Next
    BY <1>4 DEF RLaunch, Next, AdmitStep
  <2>2. pc = "admit" /\ inflight' = inflight \cup {j}
    BY <1>4 DEF RLaunch, Launch, Picking, Passing
  <2> QED
    BY <1>4, <2>1, <2>2 DEF Schedules, Up, RLaunch
<1>5. CASE RLoopStep
  <2>1. pc \in {"check", "select"} /\ UNCHANGED inflight
    BY <1>5 DEF RLoopStep, LoopStep, Wait, Return, IdleTick, AdmitDone, runVars
  <2> QED
    BY <1>5, <2>1 DEF Schedules, Up, RLoopStep, Next, dockerVars
<1>6. ASSUME NEW j \in Jobs, RComplete(j) PROVE Schedules
  <2>1. Next /\ j \notin owned \cup starting /\ UNCHANGED <<dockerVars, resumeVars>>
    BY <1>6 DEF RComplete, Next
  <2>2. pc = "select" /\ inflight' = inflight \ {j}
    BY <1>6 DEF RComplete, handleCompletion, Complete, CompleteStockout, CompleteQuota,
                CompleteAborted, Receive
  <2> QED
    BY <2>1, <2>2 DEF Schedules, Up, dockerVars
<1>7. ASSUME NEW j \in Jobs, DockerRun(j) \/ StrayRun(j) \/ ContainerExit(j)
      PROVE  DockerActs
  BY <1>1, <1>7 DEF DockerRun, StrayRun, ContainerExit, DockerActs
<1>8. CASE RTick
  <2>1. UNCHANGED inflight
    BY <1>8 DEF RTick, Tick
  <2> QED
    BY <1>8, <2>1 DEF RTick, Next, Waits, Schedules, dockerVars
<1>9. CASE RInterrupt
  <2>1. Up /\ UNCHANGED inflight
    BY <1>9 DEF RInterrupt, Interrupt, Up, runVars
  <2> QED
    BY <1>9, <2>1 DEF RInterrupt, Next, Schedules, dockerVars
<1>10. CASE Crash \/ Leave
  BY <1>1, <1>10 DEF Crash, Leave, Loses
<1>11. CASE ResumeStep
  <2>1. CASE ResumeKeep \/ ResumeFailedReal \/ ResumeFailedInfra \/ ResumeOrphan
    BY <2>1, SwitchPasses DEF Passes
  <2>2. CASE AttachVerdict \/ AttachStockout \/ AttachOther
    BY <2>2, AttachPasses DEF Passes
  <2>3. CASE ResumeSave
    BY <2>3 DEF ResumeSave, Saves, Loses
  <2> QED
    BY <1>11, <2>1, <2>2, <2>3 DEF ResumeStep
<1> QED
  BY <1>2, <1>3, <1>4, <1>5, <1>6, <1>7, <1>8, <1>9, <1>10, <1>11 DEF RNext

-----------------------------------------------------------------------------
(* The process invariant *)

\* A scheduler that has launched nothing, with no job left running, starts with balanced books
LEMMA FreshBooks ==
  ASSUME DataOK', pc' = "top", NothingCharged', Agree(status', last'),
         \A j \in Jobs : status'[j] # "running"
  PROVE  BooksInv'
<1>1. TypeOK'
  BY DEF TypeOK
<1>2. RunningIsInflight'
  BY FS_EmptySet DEF RunningIsInflight, NothingCharged, Agree
<1>3. WithinBudgets'
  BY UsableType, BudgetAssumption DEF WithinBudgets, NothingCharged
<1>4. Books'
  <2>1. /\ \A r \in Regions, k \in Keys : usedCPU'[r][k] = 0 /\ Charged(inflight', last', r, k) = {}
        /\ usedNets' = 0 /\ usedSubnets' = 0 /\ inflight' = {}
        /\ \A s \in Shapes : runningPerShape'[s] = 0 /\ OfShape(inflight', s) = {}
    BY DEF NothingCharged, Charged, OfShape
  <2>2. Total(CPUCost, {}) = 0 /\ Total(Networks, {}) = 0 /\ Total(Subnets, {}) = 0
    BY TotalType, JobsAssumption
  <2>3. Cardinality({}) = 0
    BY FS_EmptySet
  <2> QED
    BY <2>1, <2>2, <2>3 DEF Books
<1> QED
  BY <1>1, <1>2, <1>3, <1>4 DEF BooksInv, AdmissionInv

\* The first process starts like any other
LEMMA ProcessInit == RInit => ProcessInv
<1> SUFFICES ASSUME RInit PROVE ProcessInv
  OBVIOUS
<1>1. Init /\ BooksInv
  BY TypeInit, RunningInit, BudgetInit, BooksInit DEF RInit, BooksInv, AdmissionInv
<1>2. DataOK /\ Up /\ RunningIsInflight
  BY <1>1 DEF BooksInv, AdmissionInv, TypeOK, Up, Init
<1>3. disk = RunState
  BY <1>1 DEF Init
<1>4. DiskType
  BY <1>2, <1>3 DEF DiskType, RunState, DataOK
<1>5. Agree(disk.status, disk.last)
  BY <1>2, <1>3 DEF Agree, RunState, RunningIsInflight
<1>6. RTypeOK
  <2>1. ResumeTypeOK
    BY <1>1, <1>4, OrderFacts DEF ResumeTypeOK, RInit, Init, DiskType
  <2> QED
    BY <1>2, <1>4, <2>1 DEF RTypeOK, RInit
<1> QED
  BY <1>1, <1>2, <1>5, <1>6 DEF ProcessInv, Up

\* The step of a scheduler
LEMMA ProcessSchedules ==
  ASSUME ProcessInv, Schedules
  PROVE  ProcessInv'
<1>1. Up' /\ BooksInv' /\ DataOK' /\ DiskType' /\ Agree(disk'.status, disk'.last)
  BY UpStep DEF Schedules
<1>2. ResumeTypeOK'
  <2>1. pc' \in {"top", "admit", "check", "select", "done"}
    BY <1>1 DEF Up
  <2>2. owned' \subseteq inflight' \cap containers' /\ starting' \subseteq inflight'
    BY DEF ProcessInv, RTypeOK, ResumeTypeOK, Schedules
  <2> QED
    BY <1>1, <2>1, <2>2 DEF ProcessInv, RTypeOK, ResumeTypeOK, Schedules, resumeVars, DiskType
<1>3. RTypeOK'
  BY <1>1, <1>2 DEF ProcessInv, RTypeOK, Schedules, resumeVars
<1> QED
  BY <1>1, <1>3 DEF ProcessInv, Up

\* prepareResume goes past a job
LEMMA ProcessPasses ==
  ASSUME ProcessInv, NEW j \in Jobs, PassOver(j), PassType
  PROVE  ProcessInv'
<1>1. ~Up /\ ~Up' /\ pc' = "resume"
  BY DEF PassOver, Up
<1>2. RTypeOK /\ NothingCharged /\ Agree(status, last) /\ CursorInv
  BY <1>1 DEF ProcessInv
<1>3. RTypeOK'
  <2>1. DataOK'
    BY <1>2 DEF RTypeOK, DataOK, PassOver, PassType, quotaVars, usageVars, envVars
  <2>2. DiskType'
    BY <1>2 DEF RTypeOK, DiskType, PassOver
  <2>3. WillRequeue(j) => requeued' \subseteq Jobs
    BY <1>2 DEF RTypeOK, ResumeTypeOK, PassOver
  <2>4. requeued' \subseteq Jobs
    BY <1>2, <2>3 DEF RTypeOK, ResumeTypeOK, PassOver
  <2>5. rcursor' \in 1..(Len(Order) + 1)
    BY <1>2, OrderFacts DEF RTypeOK, ResumeTypeOK, PassOver
  <2>6. ResumeTypeOK'
    BY <1>1, <1>2, <2>4, <2>5 DEF RTypeOK, ResumeTypeOK, PassOver, dockerVars
  <2> QED
    BY <1>2, <2>1, <2>2, <2>6 DEF RTypeOK, PassOver
<1>4. Agree(disk'.status, disk'.last)
  BY DEF ProcessInv, PassOver
<1>5. NothingCharged'
  BY <1>2 DEF NothingCharged, PassOver, usageVars
<1>6. Agree(status', last')
  BY <1>2 DEF Agree, PassOver
<1>7. CursorInv'
  <2>1. rcursor \in Nat /\ rcursor' = rcursor + 1 /\ j = Order[rcursor] /\ rcursor \in 1..Len(Order)
    BY <1>2, OrderFacts DEF RTypeOK, ResumeTypeOK, PassOver, resumed
  <2>2. ASSUME NEW i \in 1..Len(Order), i < rcursor'
        PROVE  status'[Order[i]] # "running"
    <3>1. CASE i = rcursor
      BY <2>1, <3>1 DEF PassOver
    <3>2. CASE i < rcursor
      <4>1. Order[i] # j /\ Order[i] \in Jobs
        BY <2>1, <3>2, OrderFacts
      <4> QED
        BY <1>2, <3>2, <4>1 DEF CursorInv, PassOver
    <3> QED
      BY <2>1, <2>2, <3>1, <3>2
  <2>3. ASSUME NEW i \in 1..Len(Order), i >= rcursor'
        PROVE  /\ status'[Order[i]] = disk'.status[Order[i]]
               /\ stockoutRounds'[Order[i]] = disk'.stockoutRounds[Order[i]]
    <3>1. i > rcursor
      BY <2>1, <2>3
    <3>2. Order[i] # j /\ Order[i] \in Jobs
      BY <2>1, <3>1, OrderFacts
    <3>3. i >= rcursor
      BY <2>1, <3>1
    <3> QED
      BY <1>2, <3>2, <3>3 DEF CursorInv, PassOver
  <2> QED
    BY <1>1, <2>2, <2>3 DEF CursorInv
<1> QED
  BY <1>1, <1>3, <1>4, <1>5, <1>6, <1>7 DEF ProcessInv

\* A process is lost: the next one finds the state that was saved, and nothing else
LEMMA ProcessLoses ==
  ASSUME ProcessInv, Loses
  PROVE  ProcessInv'
<1>1. RTypeOK /\ Agree(disk.status, disk.last) /\ Gone /\ exitCode' \in {-1, 0, 1, 2}
  BY DEF ProcessInv, Loses
<1>2. /\ pc' = "down" /\ rcursor' = 1 /\ requeued' = {} /\ NothingCharged'
      /\ status' = disk'.status /\ last' = disk'.last
      /\ stockoutRounds' = disk'.stockoutRounds /\ disk' = disk
  BY <1>1 DEF Gone, NewScheduler, LoadState, NothingCharged
<1>3. DiskType'
  BY <1>1, <1>2 DEF RTypeOK, DiskType
<1>4. DataOK'
  <2>1. /\ status' \in [Jobs -> Statuses]
        /\ last' \in [Jobs -> [zone : Zones \cup {NoZone}, result : Results]]
        /\ hits' \in [Jobs -> [Classes -> Nat]]
        /\ stockoutZones' \in [Jobs -> SUBSET Zones]
        /\ stockoutRounds' \in [Jobs -> Nat]
        /\ stockoutCd' \in [Jobs -> Nat \cup {NoTimer}]
        /\ quotaCd' \in [Regions -> [Keys -> Nat]]
    BY <1>1 DEF Gone, LoadState, RTypeOK, DiskType
  <2>2. /\ running' \in Int
        /\ runningPerShape' \in [Shapes -> Int]
        /\ usedCPU' \in [Regions -> [Keys -> Int]]
        /\ usedNets' \in Int
        /\ usedSubnets' \in Int
        /\ cooldownHits' \in [Regions -> [Keys -> Nat]]
        /\ quotaPenalty' \in [Regions -> [Keys -> Nat]]
        /\ inflight' \subseteq Jobs
    BY <1>1 DEF Gone, NewScheduler
  <2>3. zoneRR' \in [Regions -> 0..(RRPeriod - 1)]
    BY <1>1, SchedulerAssumption DEF Gone, NewScheduler
  <2>4. cursor' \in 1..(Len(Order) + 1)
    BY <1>1, OrderFacts DEF Gone, NewScheduler
  <2>5. /\ admitCancelled' \in BOOLEAN /\ jobCancelled' \in BOOLEAN /\ drained' \in BOOLEAN
        /\ pauses' \in 0..MaxPauses /\ paused' \in BOOLEAN
    BY <1>1 DEF Gone, NewScheduler, RTypeOK, DataOK
  <2> QED
    BY <1>1, <2>1, <2>2, <2>3, <2>4, <2>5 DEF DataOK
<1>5. ResumeTypeOK'
  <2>1. containers' \subseteq Jobs /\ stray' \subseteq Jobs
    BY <1>1 DEF Gone, NewScheduler, RTypeOK, ResumeTypeOK, DataOK
  <2>2. owned' = {} /\ starting' = {}
    BY <1>1 DEF Gone, NewScheduler
  <2>3. rcursor' \in 1..(Len(Order) + 1)
    BY <1>2, OrderFacts
  <2> QED
    BY <1>2, <1>3, <2>1, <2>2, <2>3 DEF ResumeTypeOK, DiskType
<1>6. RTypeOK'
  BY <1>1, <1>3, <1>4, <1>5 DEF RTypeOK, Gone
<1>7. CursorInv'
  BY <1>2 DEF CursorInv
<1>8. ~Up'
  BY <1>2 DEF Up
<1> QED
  BY <1>1, <1>2, <1>6, <1>7, <1>8 DEF ProcessInv

\* The remaining steps
LEMMA ProcessStep ==
  ASSUME ProcessInv, [RNext]_allVars
  PROVE  ProcessInv'
<1>1. CASE DockerActs
  <2>1. UNCHANGED <<vars, resumeVars>>
    BY <1>1 DEF DockerActs
  <2>2. RTypeOK'
    <3>1. DataOK'
      BY <2>1 DEF ProcessInv, RTypeOK, DataOK, vars, runVars, ctlVars, envVars, sweepVars,
                  quotaVars, usageVars
    <3>2. DiskType'
      BY <2>1 DEF ProcessInv, RTypeOK, DiskType, vars, runVars
    <3>3. ResumeTypeOK'
      BY <1>1, <2>1 DEF ProcessInv, RTypeOK, ResumeTypeOK, DockerActs, vars, runVars, ctlVars,
                        resumeVars
    <3> QED
      BY <2>1, <3>1, <3>2, <3>3 DEF ProcessInv, RTypeOK, resumeVars
  <2>3. BooksInv => BooksInv'
    BY <2>1 DEF BooksInv, AdmissionInv, TypeOK, DataOK, RunningIsInflight, WithinBudgets, Books,
                vars, runVars, ctlVars, envVars, sweepVars, quotaVars, usageVars
  <2>4. /\ Up' = Up /\ pc' = pc
        /\ NothingCharged => NothingCharged'
        /\ CursorInv => CursorInv'
        /\ UNCHANGED <<status, last, disk, stockoutRounds, rcursor, requeued>>
    BY <2>1 DEF Up, NothingCharged, CursorInv, resumed, vars, runVars, ctlVars, sweepVars,
                usageVars, resumeVars
  <2> QED
    BY <2>2, <2>3, <2>4 DEF ProcessInv
<1>2. CASE Waits
  <2>1. DataOK' /\ DiskType'
    BY <1>2, TickData, DiskTick DEF Waits, ProcessInv, RTypeOK
  <2>2. /\ disk'.status = disk.status /\ disk'.last = disk.last
        /\ disk'.stockoutRounds = disk.stockoutRounds
        /\ UNCHANGED <<status, last, stockoutRounds, usageVars, inflight, pc>>
    BY <1>2 DEF Waits, Tick, ProcessInv, RTypeOK, DiskType, ctlVars
  <2>3. ResumeTypeOK' /\ RTypeOK'
    BY <1>2, <2>1, <2>2 DEF Waits, ProcessInv, RTypeOK, ResumeTypeOK, DiskType, dockerVars,
                            resumeVars
  <2>4. ~Up /\ ~Up'
    BY <1>2, <2>2 DEF Waits, Up
  <2>5. NothingCharged' /\ CursorInv'
    BY <1>2, <2>2, <2>4 DEF Waits, ProcessInv, NothingCharged, CursorInv, resumed, usageVars,
                            resumeVars
  <2>6. UNCHANGED <<rcursor, requeued>>
    BY <1>2 DEF Waits, resumeVars
  <2> QED
    BY <2>2, <2>3, <2>4, <2>5, <2>6 DEF ProcessInv
<1>3. CASE StartResume
  <2>1. /\ pc = "down" /\ pc' = "resume" /\ ~Up /\ ~Up'
        /\ UNCHANGED <<status, last, stockoutRounds, disk, usageVars, inflight, rcursor, requeued>>
    BY <1>3 DEF StartResume, Up, runVars, sweepVars
  <2>2. RTypeOK'
    <3>1. DataOK'
      BY <1>3 DEF StartResume, ProcessInv, RTypeOK, DataOK, runVars, envVars, sweepVars,
                  quotaVars, usageVars
    <3>2. DiskType'
      BY <2>1 DEF ProcessInv, RTypeOK, DiskType
    <3>3. ResumeTypeOK'
      BY <1>3, <2>1 DEF StartResume, ProcessInv, RTypeOK, ResumeTypeOK, dockerVars
    <3>4. \A answered \in SUBSET Jobs :
            /\ PlannedRequeue(answered, onlyFailed') \subseteq Jobs
            /\ PlannedAttach(answered) \subseteq Jobs
      BY DEF PlannedRequeue, PlannedAttach
    <3>5. plan' \in [requeue : SUBSET Jobs, attach : SUBSET Jobs] /\ onlyFailed' \in BOOLEAN
      BY <1>3, <3>4 DEF StartResume
    <3> QED
      BY <3>1, <3>2, <3>3, <3>5 DEF RTypeOK
  <2>3. NothingCharged'
    BY <2>1 DEF ProcessInv, NothingCharged, usageVars
  <2>4. CursorInv'
    BY <2>1 DEF ProcessInv, CursorInv
  <2> QED
    BY <2>1, <2>2, <2>3, <2>4 DEF ProcessInv
<1>4. CASE ResumeAttach
  <2>1. /\ pc = "resume" /\ pc' = "attach" /\ ~Up /\ ~Up'
        /\ UNCHANGED <<status, last, stockoutRounds, disk, usageVars, inflight, resumeVars,
                       dockerVars>>
        /\ rcursor <= Len(Order) /\ status[resumed] = "running"
    BY <1>4 DEF ResumeAttach, Up, runVars, sweepVars
  <2>2. RTypeOK'
    <3>1. DataOK'
      BY <1>4 DEF ResumeAttach, ProcessInv, RTypeOK, DataOK, runVars, envVars, sweepVars,
                  quotaVars, usageVars
    <3>2. DiskType'
      BY <2>1 DEF ProcessInv, RTypeOK, DiskType
    <3>3. ResumeTypeOK'
      BY <2>1 DEF ProcessInv, RTypeOK, ResumeTypeOK, dockerVars, resumeVars
    <3> QED
      BY <2>1, <3>1, <3>2, <3>3 DEF ProcessInv, RTypeOK, resumeVars
  <2>3. NothingCharged'
    BY <2>1 DEF ProcessInv, NothingCharged, usageVars
  <2>4. CursorInv'
    BY <2>1 DEF ProcessInv, CursorInv, resumed, resumeVars
  <2> QED
    BY <2>1, <2>2, <2>3, <2>4 DEF ProcessInv
<1>5. CASE Saves
  <2>1. /\ pc = "resume" /\ pc' = "top" /\ ~Up /\ Up'
        /\ disk' = RunState /\ rcursor > Len(Order) /\ rcursor' = 1
        /\ UNCHANGED <<status, last, usageVars, inflight, dockerVars>>
    BY <1>5 DEF Saves, Up
  <2>2. DataOK'
    BY <1>5 DEF Saves, ProcessInv, RTypeOK, DataOK, envVars, sweepVars, quotaVars, usageVars
  <2>3. DiskType'
    BY <2>1 DEF ProcessInv, RTypeOK, DiskType, RunState, DataOK
  <2>4. ASSUME NEW j \in Jobs PROVE status[j] # "running"
    <3>1. PICK i \in 1..Len(Order) : Order[i] = j
      BY OrderFacts
    <3>2. i < rcursor
      BY <2>1, <3>1, OrderFacts DEF ProcessInv, RTypeOK, ResumeTypeOK
    <3> QED
      BY <2>1, <3>1, <3>2 DEF ProcessInv, CursorInv
  <2>5. Agree(status', last') /\ Agree(disk'.status, disk'.last)
    BY <2>1 DEF ProcessInv, Agree, RunState
  <2>6. BooksInv'
    <3>1. NothingCharged'
      BY <2>1 DEF ProcessInv, NothingCharged, usageVars
    <3>2. \A j \in Jobs : status'[j] # "running"
      BY <2>1, <2>4
    <3> QED
      BY <2>1, <2>2, <2>5, <3>1, <3>2, FreshBooks
  <2>7. RTypeOK'
    <3>1. ResumeTypeOK'
      BY <1>5, <2>1, <2>3, OrderFacts DEF Saves, ProcessInv, RTypeOK, ResumeTypeOK, dockerVars,
                                          DiskType
    <3> QED
      BY <1>5, <2>2, <2>3, <3>1 DEF Saves, ProcessInv, RTypeOK
  <2> QED
    BY <2>1, <2>5, <2>6, <2>7 DEF ProcessInv
<1> QED
  BY <1>1, <1>2, <1>3, <1>4, <1>5, ResumeKinds, ProcessSchedules, ProcessPasses, ProcessLoses
     DEF Passes

\* Whatever is lost and resumed in which order, the process that schedules has balanced
\* books and keeps its budgets, and one that only resumes has charged nothing: what the
\* Scheduler theorems say of one process holds for all of them (launch, prepareResume)
THEOREM ProcessInvariant == RSpec => []ProcessInv
<1> QED
  BY ProcessInit, ProcessStep, PTL DEF RSpec

-----------------------------------------------------------------------------
(* Saved verdicts and sweeps *)

\* A scheduler takes no verdict back, and no completed sweep
LEMMA VerdictsStay ==
  ASSUME TypeOK, RunningIsInflight, [Next]_vars, NEW j \in Jobs
  PROVE  /\ status[j] \in {"passed", "failed_real"} => status'[j] = status[j]
         /\ stockoutRounds'[j] >= stockoutRounds[j]
<1>1. status[j] \in {"passed", "failed_real"} => status'[j] = status[j]
  <2>1. ASSUME NEW i \in Jobs, NEW z \in Zones, Launch(i, z)
        PROVE  status[i] = "queued" /\ status' = [status EXCEPT ![i] = "running"]
    BY <2>1 DEF Launch, Picking
  <2>2. ASSUME NEW i \in Jobs, NEW c, NEW s, Receive(i, c), status' = [status EXCEPT ![i] = s]
        PROVE  status[i] = "running"
    BY <2>2 DEF Receive, RunningIsInflight
  <2> QED
    BY <2>1, <2>2, StepKinds DEF TypeOK, DataOK
<1>2. stockoutRounds[j] \in Nat
  BY DEF TypeOK, DataOK
<1>3. ASSUME NEW i \in Jobs, CompleteStockout(i)
      PROVE  stockoutRounds'[j] >= stockoutRounds[j]
  <2>1. \E n \in {stockoutRounds[i] + 0, stockoutRounds[i] + 1} :
          stockoutRounds' = [stockoutRounds EXCEPT ![i] = n]
    BY <1>3 DEF CompleteStockout, recordStockout
  <2> QED
    BY <1>2, <2>1 DEF TypeOK, DataOK
<1>4. UNCHANGED stockoutRounds \/ \E i \in Jobs : CompleteStockout(i)
  <2>1. ASSUME NEW i \in Jobs, handleCompletion(i)
        PROVE  UNCHANGED stockoutRounds \/ CompleteStockout(i)
    BY <2>1 DEF handleCompletion, Complete, CompleteQuota, CompleteAborted, sweepVars
  <2>2. AdmitStep => UNCHANGED stockoutRounds
    BY DEF AdmitStep, AdmitBegin, AdmitEnd, AdmitSkip, AdmitNoZone, Launch, BeginSweep, runVars,
           sweepVars
  <2>3. LoopStep \/ Interrupt \/ TogglePause \/ Tick \/ Terminated \/ UNCHANGED vars
          => UNCHANGED stockoutRounds
    BY DEF LoopStep, Wait, Return, IdleTick, AdmitDone, Interrupt, TogglePause, Tick, Terminated,
           vars, runVars, sweepVars
  <2> QED
    BY <2>1, <2>2, <2>3 DEF Next
<1> QED
  BY <1>1, <1>2, <1>3, <1>4

\* A new run has no verdict to lose
LEMMA MemoryInit == RInit => MemoryInv
BY DEF RInit, Init, RunState, MemoryInv

\* No step forgets a verdict or a sweep that was saved
LEMMA MemoryStep ==
  ASSUME ProcessInv, MemoryInv, [RNext]_allVars
  PROVE  MemoryInv'
<1> SUFFICES ASSUME NEW j \in Jobs
             PROVE  /\ disk'.status[j] = "passed" => status'[j] = "passed"
                    /\ disk'.status[j] = "failed_real" => status'[j] = "failed_real" \/ onlyFailed'
                    /\ \/ stockoutRounds'[j] >= disk'.stockoutRounds[j]
                       \/ ~Up' /\ disk'.status[j] = "failed_infra" /\ status'[j] = "queued"
  BY DEF MemoryInv
<1>1. /\ disk.status[j] = "passed" => status[j] = "passed"
      /\ disk.status[j] = "failed_real" => status[j] = "failed_real" \/ onlyFailed
      /\ \/ stockoutRounds[j] >= disk.stockoutRounds[j]
         \/ ~Up /\ disk.status[j] = "failed_infra" /\ status[j] = "queued"
  BY DEF MemoryInv
<1>2. stockoutRounds[j] \in Nat /\ disk.stockoutRounds[j] \in Nat /\ stockoutRounds'[j] \in Nat
  BY ProcessStep DEF ProcessInv, RTypeOK, DataOK, DiskType
<1>3. stockoutRounds[j] >= stockoutRounds[j] /\ stockoutRounds'[j] >= stockoutRounds'[j]
  BY <1>2
<1>4. CASE Schedules
  <2>1. Up /\ UNCHANGED onlyFailed
    BY <1>4 DEF Schedules, resumeVars
  <2>2. /\ status[j] \in {"passed", "failed_real"} => status'[j] = status[j]
        /\ stockoutRounds'[j] >= stockoutRounds[j]
    BY <1>4, <2>1, VerdictsStay DEF Schedules, ProcessInv, BooksInv, AdmissionInv
  <2>3. stockoutRounds'[j] >= disk.stockoutRounds[j]
    BY <1>1, <1>2, <2>1, <2>2
  <2>4. CASE disk'.status = disk.status /\ disk'.stockoutRounds = disk.stockoutRounds
    BY <1>1, <2>1, <2>2, <2>3, <2>4
  <2>5. CASE disk'.status = status' /\ disk'.stockoutRounds = stockoutRounds'
    BY <1>3, <2>5
  <2>6. DiskType /\ [Next]_vars
    BY <1>4 DEF Schedules, ProcessInv, RTypeOK
  <2> QED
    BY <2>4, <2>5, <2>6, SavedOrNot
<1>5. CASE DockerActs
  BY <1>1, <1>5 DEF DockerActs, vars, runVars, ctlVars, sweepVars, resumeVars, Up
<1>6. CASE Waits
  <2>1. /\ disk'.status = disk.status /\ disk'.stockoutRounds = disk.stockoutRounds
        /\ UNCHANGED <<status, stockoutRounds, pc, onlyFailed>>
    BY <1>6 DEF Waits, Tick, ProcessInv, RTypeOK, DiskType, ctlVars, resumeVars
  <2> QED
    BY <1>1, <2>1 DEF Up
<1>7. CASE Loses
  BY <1>3, <1>7 DEF Loses, Gone, LoadState
<1>8. CASE StartResume
  <2>1. status' = disk'.status /\ stockoutRounds' = disk'.stockoutRounds
    BY <1>8 DEF StartResume, runVars, sweepVars, ProcessInv
  <2> QED
    BY <1>3, <2>1
<1>9. ASSUME NEW i \in Jobs, PassOver(i)
      PROVE  /\ disk'.status[j] = "passed" => status'[j] = "passed"
             /\ disk'.status[j] = "failed_real" => status'[j] = "failed_real" \/ onlyFailed'
             /\ \/ stockoutRounds'[j] >= disk'.stockoutRounds[j]
                \/ ~Up' /\ disk'.status[j] = "failed_infra" /\ status'[j] = "queued"
  <2>1. UNCHANGED <<disk, onlyFailed>> /\ ~Up /\ ~Up'
    BY <1>9 DEF PassOver, Up
  <2>2. CASE i # j
    <3>1. status'[j] = status[j] /\ stockoutRounds'[j] = stockoutRounds[j]
      BY <1>9, <2>2 DEF PassOver
    <3> QED
      BY <1>1, <2>1, <3>1
  <2>3. CASE i = j
    <3>1. status[j] = disk.status[j] /\ stockoutRounds[j] = disk.stockoutRounds[j]
      <4>1. rcursor \in 1..Len(Order) /\ Order[rcursor] = j
        BY <1>9, <2>3, OrderFacts DEF PassOver, resumed, ProcessInv, RTypeOK, ResumeTypeOK
      <4>2. rcursor >= rcursor
        BY <4>1
      <4> QED
        BY <2>1, <4>1, <4>2 DEF ProcessInv, CursorInv
    <3> QED
      BY <1>9, <2>1, <2>3, <3>1 DEF PassOver
  <2> QED
    BY <2>2, <2>3
<1>10. CASE ResumeAttach
  <2>1. UNCHANGED <<disk, status, stockoutRounds, onlyFailed>> /\ ~Up /\ ~Up'
    BY <1>10 DEF ResumeAttach, runVars, sweepVars, resumeVars, Up
  <2> QED
    BY <1>1, <2>1
<1>11. CASE Saves
  <2>1. disk'.status = status' /\ disk'.stockoutRounds = stockoutRounds'
    BY <1>11 DEF Saves, RunState, sweepVars
  <2> QED
    BY <1>3, <2>1
<1> QED
  BY <1>4, <1>5, <1>6, <1>7, <1>8, <1>9, <1>10, <1>11, ResumeKinds DEF Passes

\* Only a scheduler and the save of a resume write state.json, and both write what they know
LEMMA SavedKept ==
  ASSUME ProcessInv, MemoryInv, [RNext]_allVars, NEW j \in Jobs
  PROVE  /\ disk.status[j] = "passed" => disk'.status[j] = "passed"
         /\ disk.status[j] = "failed_real" => disk'.status[j] = "failed_real" \/ onlyFailed
         /\ disk'.stockoutRounds[j] < disk.stockoutRounds[j] =>
              disk.status[j] = "failed_infra" /\ disk'.status[j] = "queued"
<1>1. /\ disk.status[j] = "passed" => status[j] = "passed"
      /\ disk.status[j] = "failed_real" => status[j] = "failed_real" \/ onlyFailed
      /\ \/ stockoutRounds[j] >= disk.stockoutRounds[j]
         \/ ~Up /\ disk.status[j] = "failed_infra" /\ status[j] = "queued"
  BY DEF MemoryInv
<1>2. stockoutRounds[j] \in Nat /\ disk.stockoutRounds[j] \in Nat /\ stockoutRounds'[j] \in Nat
  BY ProcessStep DEF ProcessInv, RTypeOK, DataOK, DiskType
<1>3. CASE disk'.status = disk.status /\ disk'.stockoutRounds = disk.stockoutRounds
  BY <1>2, <1>3
<1>4. CASE Schedules
  <2>1. CASE disk'.status = status' /\ disk'.stockoutRounds = stockoutRounds'
    <3>1. /\ status[j] \in {"passed", "failed_real"} => status'[j] = status[j]
          /\ stockoutRounds'[j] >= stockoutRounds[j]
      BY <1>4, VerdictsStay DEF Schedules, ProcessInv, BooksInv, AdmissionInv
    <3>2. stockoutRounds[j] >= disk.stockoutRounds[j]
      BY <1>1, <1>4 DEF Schedules
    <3> QED
      BY <1>1, <1>2, <2>1, <3>1, <3>2
  <2>2. DiskType /\ [Next]_vars
    BY <1>4 DEF Schedules, ProcessInv, RTypeOK
  <2> QED
    BY <1>3, <2>1, <2>2, SavedOrNot
<1>5. CASE Saves
  <2>1. disk'.status = status /\ disk'.stockoutRounds = stockoutRounds
    BY <1>5 DEF Saves, RunState
  <2> QED
    BY <1>1, <1>2, <2>1
<1>6. CASE Waits
  BY <1>3, <1>6 DEF Waits, Tick, ProcessInv, RTypeOK, DiskType
<1>7. CASE DockerActs \/ Loses \/ StartResume \/ Passes \/ ResumeAttach
  <2>1. disk' = disk
    BY <1>7 DEF DockerActs, Loses, Gone, StartResume, Passes, PassOver, ResumeAttach, vars, runVars
  <2> QED
    BY <1>3, <2>1
<1> QED
  BY <1>4, <1>5, <1>6, <1>7, ResumeKinds

\* A verdict in state.json outlives every crash and resume: passed for ever, failed_real
\* until a rerun-failed, for any number of jobs, crashes and resumes, and whether or not
\* saves and docker ps fail (SaveState, prepareResume)
THEOREM SavedVerdictsSurvive == RSpec => VerdictsSurvive
<1>1. ASSUME ProcessInv, MemoryInv, [RNext]_allVars
      PROVE  [\A j \in Jobs :
                /\ disk.status[j] = "passed" => disk'.status[j] = "passed"
                /\ disk.status[j] = "failed_real" =>
                     disk'.status[j] = "failed_real" \/ onlyFailed]_allVars
  BY <1>1, SavedKept
<1> QED
  BY <1>1, ProcessInit, ProcessStep, MemoryInit, MemoryStep, PTL DEF RSpec, VerdictsSurvive

-----------------------------------------------------------------------------
(* Saved sweeps *)

\* The sweep of job j in memory goes on from the one in state.json
Kept(j) ==
  /\ stockoutRounds[j] >= disk.stockoutRounds[j]
  /\ \/ disk.stockoutZones[j] \subseteq stockoutZones[j]
     \/ disk.stockoutCd[j] = 0
     \/ stockoutRounds[j] > disk.stockoutRounds[j]
  /\ disk.stockoutCd[j] > 0 => stockoutCd[j] = disk.stockoutCd[j]
  /\ stockoutRounds[j] = disk.stockoutRounds[j] /\ stockoutCd[j] # NoTimer =>
       disk.stockoutCd[j] = stockoutCd[j]

\* A resume has started job j over, and not yet saved it
Fresh(j) ==
  /\ ~Up
  /\ stockoutZones[j] = {}
  /\ stockoutRounds[j] = 0
  /\ stockoutCd[j] = NoTimer
  /\ hits[j] = disk.hits[j]

\* Memory and state.json agree about sweeps: an exhausted job stays so until a resume starts
\* it over, a job that runs waits for no sweep, and a resume changes no history of an
\* exhausted job
SweepMemory ==
  \A j \in Jobs :
    /\ disk.status[j] = "failed_infra" => status[j] \in {"failed_infra", "queued"}
    /\ IF disk.status[j] = "failed_infra" /\ status[j] = "queued" THEN Fresh(j) ELSE Kept(j)
    /\ ~Up /\ disk.status[j] = "failed_infra" => hits[j] = disk.hits[j]
    /\ status[j] = "running" => stockoutCd[j] = NoTimer
    /\ disk.status[j] = "running" => disk.stockoutCd[j] = NoTimer

\* A step of a scheduler advances the sweep of every job, or is the clock's; a job that has
\* exhausted its sweeps stays as it is
LEMMA SchedulerAdvances ==
  ASSUME TypeOK, RunningIsInflight, [Next]_vars, NEW j \in Jobs
  PROVE  /\ Tick \/ Advances(j)
         /\ status[j] = "failed_infra" => status'[j] = "failed_infra"
         /\ (status[j] = "running" => stockoutCd[j] = NoTimer) =>
              (status'[j] = "running" => stockoutCd'[j] = NoTimer)
<1>1. /\ stockoutRounds \in [Jobs -> Nat] /\ stockoutZones \in [Jobs -> SUBSET Zones]
      /\ stockoutCd \in [Jobs -> Nat \cup {NoTimer}] /\ status \in [Jobs -> Statuses]
      /\ DataOK
  BY DEF TypeOK, DataOK
<1> DEFINE Goal == /\ Tick \/ Advances(j)
                   /\ status[j] = "failed_infra" => status'[j] = "failed_infra"
                   /\ (status[j] = "running" => stockoutCd[j] = NoTimer) =>
                        (status'[j] = "running" => stockoutCd'[j] = NoTimer)
<1>2. ASSUME UNCHANGED <<status, sweepVars>> PROVE Goal
  BY <1>2 DEF Advances, sweepVars
<1>3. AdmitBegin \/ AdmitEnd \/ AdmitSkip \/ LoopStep \/ Interrupt \/ TogglePause
        \/ Terminated \/ UNCHANGED vars => UNCHANGED <<status, sweepVars>>
  BY DEF AdmitBegin, AdmitEnd, AdmitSkip, LoopStep, Wait, Return, IdleTick, AdmitDone, Interrupt,
         TogglePause, Terminated, vars, runVars
<1>4. ASSUME NEW i \in Jobs, BeginSweep(i), status[i] = "queued", stockoutCd[i] <= 0,
             NEW s \in {"queued", "running"}, status' = [status EXCEPT ![i] = s]
      PROVE  Goal
  <2>1. /\ stockoutCd' = [stockoutCd EXCEPT ![i] = NoTimer]
        /\ stockoutZones' = [stockoutZones EXCEPT ![i] = CurrentSweep(i)]
        /\ UNCHANGED stockoutRounds
    BY <1>4 DEF BeginSweep
  <2>2. CASE j # i
    BY <1>1, <1>4, <2>1, <2>2 DEF Advances
  <2>3. CASE j = i /\ stockoutCd[i] = 0
    BY <1>1, <1>4, <2>1, <2>3 DEF Advances
  <2>4. CASE j = i /\ stockoutCd[i] # 0
    <3>1. stockoutCd[i] = NoTimer /\ CurrentSweep(i) = stockoutZones[i]
      BY <1>1, <1>4, <2>4 DEF NoTimer, CurrentSweep
    <3> QED
      BY <1>1, <1>4, <2>1, <2>4, <3>1 DEF Advances
  <2> QED
    BY <2>2, <2>3, <2>4
<1>5. ASSUME NEW i \in Jobs, AdmitNoZone(i) PROVE Goal
  <2>1. status' = [status EXCEPT ![i] = status[i]] /\ status[i] = "queued"
    BY <1>1, <1>5 DEF AdmitNoZone, Picking
  <2> QED
    BY <1>4, <1>5, <2>1 DEF AdmitNoZone, Picking
<1>6. ASSUME NEW i \in Jobs, NEW z \in Zones, Launch(i, z) PROVE Goal
  BY <1>4, <1>6 DEF Launch, Picking
<1>7. ASSUME NEW i \in Jobs, handleCompletion(i) PROVE Goal
  <2>1. PICK s \in Statuses \ {"running"} : status' = [status EXCEPT ![i] = s]
    <3>1. /\ pc = "select" /\ i \in inflight /\ inflight' = inflight \ {i}
      BY <1>7 DEF handleCompletion, Complete, CompleteStockout, CompleteQuota, CompleteAborted,
                  Receive
    <3>2. ~\E k \in Jobs, z \in Zones : Launch(k, z)
      BY <3>1 DEF Launch, Picking, Passing
    <3>3. PICK k \in Jobs, c \in Results \ {"running"},
               s \in Statuses \ {"running", "skipped_quarantine"} :
            Receive(k, c) /\ status' = [status EXCEPT ![k] = s]
      BY <3>1, <3>2, StepKinds
    <3>4. k = i
      BY <3>1, <3>3 DEF Receive
    <3> QED
      BY <3>3, <3>4
  <2>2. status[i] = "running" /\ i \in inflight
    BY <1>7 DEF handleCompletion, Complete, CompleteStockout, CompleteQuota, CompleteAborted,
                Receive, RunningIsInflight
  <2>3. Advances(j)
    <3>1. CASE CompleteStockout(i)
      BY <1>1, <2>2, <3>1, RecordAdvances DEF CompleteStockout
    <3>2. CASE ~CompleteStockout(i)
      <4>1. UNCHANGED sweepVars
        BY <1>7, <3>2 DEF handleCompletion, Complete, CompleteQuota, CompleteAborted
      <4> QED
        BY <4>1 DEF Advances, sweepVars
    <3> QED
      BY <3>1, <3>2
  <2>4. j # i => stockoutCd'[j] = stockoutCd[j]
    <3>1. CASE CompleteStockout(i)
      BY <1>1, <3>1 DEF CompleteStockout, recordStockout
    <3>2. CASE ~CompleteStockout(i)
      BY <1>7, <3>2 DEF handleCompletion, Complete, CompleteQuota, CompleteAborted, sweepVars
    <3> QED
      BY <3>1, <3>2
  <2> QED
    BY <1>1, <2>1, <2>2, <2>3, <2>4
<1>8. CASE Tick
  <2>1. stockoutCd' = ElapseJobs(stockoutCd) /\ UNCHANGED status
    BY <1>8 DEF Tick
  <2>2. stockoutCd[j] = NoTimer => stockoutCd'[j] = NoTimer
    BY <2>1 DEF ElapseJobs, Elapse, NoTimer
  <2> QED
    BY <1>8, <2>1, <2>2
<1> QED
  BY <1>2, <1>3, <1>5, <1>6, <1>7, <1>8 DEF Next, AdmitStep

\* The older side of Kept stays, and memory advances
LEMMA KeptAdvances ==
  ASSUME DataOK, DataOK', DiskType, NEW j \in Jobs, Kept(j), Advances(j),
         status[j] = "running" => stockoutCd[j] = NoTimer
  PROVE  /\ stockoutRounds'[j] >= disk.stockoutRounds[j]
         /\ \/ disk.stockoutZones[j] \subseteq stockoutZones'[j]
            \/ disk.stockoutCd[j] = 0
            \/ stockoutRounds'[j] > disk.stockoutRounds[j]
         /\ disk.stockoutCd[j] > 0 => stockoutCd'[j] = disk.stockoutCd[j]
         /\ stockoutRounds'[j] = disk.stockoutRounds[j] /\ stockoutCd'[j] # NoTimer =>
              disk.stockoutCd[j] = stockoutCd'[j]
<1>1. /\ stockoutRounds[j] \in Nat /\ stockoutRounds'[j] \in Nat /\ disk.stockoutRounds[j] \in Nat
      /\ stockoutCd[j] \in Nat \cup {NoTimer} /\ stockoutCd'[j] \in Nat \cup {NoTimer}
      /\ disk.stockoutCd[j] \in Nat \cup {NoTimer}
  BY DEF DataOK, DiskType
<1>2. CASE /\ stockoutZones[j] \subseteq stockoutZones'[j]
           /\ stockoutRounds'[j] = stockoutRounds[j]
           /\ stockoutCd'[j] = stockoutCd[j]
  BY <1>1, <1>2 DEF Kept
<1>3. CASE status[j] = "running" /\ stockoutRounds'[j] > stockoutRounds[j]
  BY <1>1, <1>3 DEF Kept, NoTimer
<1>4. CASE /\ stockoutCd[j] = 0
           /\ stockoutRounds'[j] = stockoutRounds[j]
           /\ stockoutCd'[j] = NoTimer
  BY <1>1, <1>4 DEF Kept, NoTimer
<1> QED
  BY <1>2, <1>3, <1>4 DEF Advances

\* The clock moves memory and state.json alike
LEMMA TickKeeps ==
  ASSUME DataOK, DiskType, Tick, NEW j \in Jobs
  PROVE  /\ Kept(j) => Kept(j)'
         /\ stockoutCd[j] = NoTimer => stockoutCd'[j] = NoTimer
         /\ disk.stockoutCd[j] = NoTimer => disk'.stockoutCd[j] = NoTimer
         /\ disk.stockoutCd[j] > 0 => disk'.stockoutCd[j] = disk.stockoutCd[j] - 1
         /\ disk.stockoutCd[j] = 0 => disk'.stockoutCd[j] = 0
         /\ UNCHANGED <<status, stockoutZones, stockoutRounds, hits>>
         /\ disk'.status = disk.status /\ disk'.hits = disk.hits
         /\ disk'.stockoutZones = disk.stockoutZones
         /\ disk'.stockoutRounds = disk.stockoutRounds
<1>1. /\ disk' = [disk EXCEPT !.stockoutCd = ElapseJobs(@), !.quotaCd = ElapseKeys(@)]
      /\ stockoutCd' = ElapseJobs(stockoutCd)
      /\ UNCHANGED <<status, stockoutZones, stockoutRounds, hits>>
  BY DEF Tick
<1>2. /\ disk'.stockoutCd = ElapseJobs(disk.stockoutCd)
      /\ disk'.status = disk.status /\ disk'.hits = disk.hits
      /\ disk'.stockoutZones = disk.stockoutZones
      /\ disk'.stockoutRounds = disk.stockoutRounds
  BY <1>1 DEF DiskType
<1>3. stockoutCd[j] \in Nat \cup {NoTimer} /\ disk.stockoutCd[j] \in Nat \cup {NoTimer}
  BY DEF DataOK, DiskType
<1>4. stockoutCd'[j] = Elapse(stockoutCd[j]) /\ disk'.stockoutCd[j] = Elapse(disk.stockoutCd[j])
  BY <1>1, <1>2 DEF ElapseJobs
<1>5. \A t \in Nat \cup {NoTimer} :
        /\ t = NoTimer <=> Elapse(t) = NoTimer
        /\ t > 0 => Elapse(t) = t - 1
        /\ t = 0 => Elapse(t) = 0
        /\ Elapse(t) > 0 => t > 0
  BY DEF Elapse, NoTimer
<1>6. Kept(j) => Kept(j)'
  <2>1. SUFFICES ASSUME Kept(j) PROVE Kept(j)'
    OBVIOUS
  <2>2. /\ stockoutRounds[j] >= disk.stockoutRounds[j]
        /\ \/ disk.stockoutZones[j] \subseteq stockoutZones[j]
           \/ disk.stockoutCd[j] = 0
           \/ stockoutRounds[j] > disk.stockoutRounds[j]
        /\ disk.stockoutCd[j] > 0 => stockoutCd[j] = disk.stockoutCd[j]
        /\ stockoutRounds[j] = disk.stockoutRounds[j] /\ stockoutCd[j] # NoTimer =>
             disk.stockoutCd[j] = stockoutCd[j]
    BY <2>1 DEF Kept
  <2> QED
    BY <1>1, <1>2, <1>3, <1>4, <1>5, <2>2 DEF Kept
<1> QED
  BY <1>1, <1>2, <1>3, <1>4, <1>5, <1>6


\* A new run has no sweep to lose
LEMMA SweepMemoryInit == RInit => SweepMemory
<1> SUFFICES ASSUME RInit, NEW j \in Jobs
             PROVE  /\ Kept(j)
                    /\ status[j] \in {"queued", "skipped_quarantine"}
                    /\ disk.status[j] = status[j]
  BY DEF SweepMemory, RInit, Init, Up
<1> QED
  BY DEF RInit, Init, RunState, Kept

\* What a step does to the sweep of job j: memory goes on from what state.json held before
\* the step, or prepareResume has started the job over
LEMMA SweepGoesOn ==
  ASSUME ProcessInv, SweepMemory, Schedules, ~Tick, NEW j \in Jobs
  PROVE  /\ stockoutRounds'[j] >= disk.stockoutRounds[j]
         /\ \/ disk.stockoutZones[j] \subseteq stockoutZones'[j]
            \/ disk.stockoutCd[j] = 0
            \/ stockoutRounds'[j] > disk.stockoutRounds[j]
         /\ disk.stockoutCd[j] > 0 => stockoutCd'[j] = disk.stockoutCd[j]
         /\ stockoutRounds'[j] = disk.stockoutRounds[j] /\ stockoutCd'[j] # NoTimer =>
              disk.stockoutCd[j] = stockoutCd'[j]
         /\ disk.status[j] = "failed_infra" => status'[j] = "failed_infra"
         /\ status'[j] = "running" => stockoutCd'[j] = NoTimer
<1>1. /\ TypeOK /\ RunningIsInflight /\ DataOK /\ DiskType /\ Up /\ [Next]_vars
  BY DEF ProcessInv, Schedules, BooksInv, AdmissionInv, RTypeOK
<1>2. DataOK'
  BY <1>1, UpStep
<1>3. Kept(j) /\ (disk.status[j] = "failed_infra" => status[j] = "failed_infra")
      /\ (status[j] = "running" => stockoutCd[j] = NoTimer)
  BY <1>1 DEF SweepMemory, Fresh
<1>4. /\ Advances(j)
      /\ status[j] = "failed_infra" => status'[j] = "failed_infra"
      /\ status'[j] = "running" => stockoutCd'[j] = NoTimer
  BY <1>1, <1>3, SchedulerAdvances
<1> QED
  BY <1>1, <1>2, <1>3, <1>4, KeptAdvances

\* No step forgets what state.json says of sweeps
LEMMA SweepMemoryStep ==
  ASSUME ProcessInv, SweepMemory, [RNext]_allVars
  PROVE  SweepMemory'
<1> SUFFICES ASSUME NEW j \in Jobs
             PROVE  /\ disk'.status[j] = "failed_infra" => status'[j] \in {"failed_infra", "queued"}
                    /\ IF disk'.status[j] = "failed_infra" /\ status'[j] = "queued"
                       THEN Fresh(j)' ELSE Kept(j)'
                    /\ ~Up' /\ disk'.status[j] = "failed_infra" => hits'[j] = disk'.hits[j]
                    /\ status'[j] = "running" => stockoutCd'[j] = NoTimer
                    /\ disk'.status[j] = "running" => disk'.stockoutCd[j] = NoTimer
  BY DEF SweepMemory
<1>1. /\ disk.status[j] = "failed_infra" => status[j] \in {"failed_infra", "queued"}
      /\ IF disk.status[j] = "failed_infra" /\ status[j] = "queued" THEN Fresh(j) ELSE Kept(j)
      /\ ~Up /\ disk.status[j] = "failed_infra" => hits[j] = disk.hits[j]
      /\ status[j] = "running" => stockoutCd[j] = NoTimer
      /\ disk.status[j] = "running" => disk.stockoutCd[j] = NoTimer
  BY DEF SweepMemory
<1>2. DataOK /\ DataOK' /\ DiskType
  BY ProcessStep DEF ProcessInv, RTypeOK
<1>3. ASSUME UNCHANGED <<status, hits, sweepVars, disk>>, Up' <=> Up
      PROVE  SweepMemory'
  BY <1>3 DEF SweepMemory, Kept, Fresh, sweepVars, Up
<1>4. ASSUME status' = disk'.status, sweepVars' = <<disk'.stockoutZones, disk'.stockoutRounds, disk'.stockoutCd>>,
             hits' = disk'.hits, status'[j] = "running" => stockoutCd'[j] = NoTimer
      PROVE  /\ disk'.status[j] = "failed_infra" => status'[j] \in {"failed_infra", "queued"}
             /\ ~(disk'.status[j] = "failed_infra" /\ status'[j] = "queued")
             /\ Kept(j)'
             /\ hits'[j] = disk'.hits[j]
             /\ disk'.status[j] = "running" => disk'.stockoutCd[j] = NoTimer
  <2>1. stockoutRounds'[j] \in Nat
    BY <1>2 DEF DataOK
  <2> QED
    BY <1>4, <2>1 DEF Kept, sweepVars
<1>5. CASE Tick /\ (Schedules \/ Waits)
  <2>1. Up' <=> Up
    BY <1>5 DEF Tick, ctlVars, Up
  <2>2. /\ Kept(j) => Kept(j)'
        /\ stockoutCd[j] = NoTimer => stockoutCd'[j] = NoTimer
        /\ disk.stockoutCd[j] = NoTimer => disk'.stockoutCd[j] = NoTimer
        /\ UNCHANGED <<status, stockoutZones, stockoutRounds, hits>>
        /\ disk'.status = disk.status /\ disk'.hits = disk.hits
    BY <1>2, <1>5, TickKeeps
  <2>3. Fresh(j) => Fresh(j)'
    BY <2>1, <2>2 DEF Fresh, Up
  <2> QED
    BY <1>1, <2>1, <2>2, <2>3
<1>6. CASE Schedules /\ ~Tick
  <2>1. /\ stockoutRounds'[j] >= disk.stockoutRounds[j]
        /\ \/ disk.stockoutZones[j] \subseteq stockoutZones'[j]
           \/ disk.stockoutCd[j] = 0
           \/ stockoutRounds'[j] > disk.stockoutRounds[j]
        /\ disk.stockoutCd[j] > 0 => stockoutCd'[j] = disk.stockoutCd[j]
        /\ stockoutRounds'[j] = disk.stockoutRounds[j] /\ stockoutCd'[j] # NoTimer =>
             disk.stockoutCd[j] = stockoutCd'[j]
        /\ disk.status[j] = "failed_infra" => status'[j] = "failed_infra"
        /\ status'[j] = "running" => stockoutCd'[j] = NoTimer
    BY <1>6, SweepGoesOn
  <2>2. Up'
    BY <1>6, UpStep DEF Schedules
  <2>3. CASE disk' = disk
    BY <1>1, <2>1, <2>2, <2>3 DEF Kept
  <2>4. CASE disk' = RunState'
    <3>1. /\ status' = disk'.status /\ hits' = disk'.hits
          /\ sweepVars' = <<disk'.stockoutZones, disk'.stockoutRounds, disk'.stockoutCd>>
      BY <2>4 DEF RunState, sweepVars
    <3> QED
      BY <1>4, <2>1, <3>1
  <2> QED
    BY <1>2, <1>6, <2>3, <2>4, SavedWhole DEF Schedules
<1>7. CASE DockerActs
  <2>1. UNCHANGED <<status, hits, sweepVars, disk, pc>>
    BY <1>7 DEF DockerActs, vars, runVars, ctlVars
  <2> QED
    BY <1>3, <2>1 DEF Up, SweepMemory
<1>8. CASE Loses
  <2>1. /\ disk' = disk /\ status' = disk.status /\ hits' = disk.hits
        /\ sweepVars' = <<disk.stockoutZones, disk.stockoutRounds, disk.stockoutCd>>
    BY <1>8 DEF Loses, Gone, LoadState, sweepVars
  <2>2. status'[j] = "running" => stockoutCd'[j] = NoTimer
    BY <1>1, <2>1 DEF sweepVars
  <2> QED
    BY <1>4, <2>1, <2>2
<1>9. CASE StartResume \/ ResumeAttach
  <2>1. UNCHANGED <<status, hits, sweepVars, disk>> /\ ~Up /\ ~Up'
    BY <1>9 DEF StartResume, ResumeAttach, runVars, Up
  <2> QED
    BY <1>3, <2>1 DEF SweepMemory
<1>10. ASSUME NEW i \in Jobs, PassOver(i), PassSweeps(i)
       PROVE  /\ disk'.status[j] = "failed_infra" => status'[j] \in {"failed_infra", "queued"}
              /\ IF disk'.status[j] = "failed_infra" /\ status'[j] = "queued"
                 THEN Fresh(j)' ELSE Kept(j)'
              /\ ~Up' /\ disk'.status[j] = "failed_infra" => hits'[j] = disk'.hits[j]
              /\ status'[j] = "running" => stockoutCd'[j] = NoTimer
              /\ disk'.status[j] = "running" => disk'.stockoutCd[j] = NoTimer
  <2>1. disk' = disk /\ ~Up /\ ~Up'
    BY <1>10 DEF PassOver, Up
  <2>2. Kept(j) /\ Advances(j) => Kept(j)'
    <3>1. SUFFICES ASSUME Kept(j), Advances(j) PROVE Kept(j)'
      OBVIOUS
    <3>2. /\ stockoutRounds'[j] >= disk.stockoutRounds[j]
          /\ \/ disk.stockoutZones[j] \subseteq stockoutZones'[j]
             \/ disk.stockoutCd[j] = 0
             \/ stockoutRounds'[j] > disk.stockoutRounds[j]
          /\ disk.stockoutCd[j] > 0 => stockoutCd'[j] = disk.stockoutCd[j]
          /\ stockoutRounds'[j] = disk.stockoutRounds[j] /\ stockoutCd'[j] # NoTimer =>
               disk.stockoutCd[j] = stockoutCd'[j]
      BY <1>1, <1>2, <3>1, KeptAdvances
    <3> QED
      BY <2>1, <3>2 DEF Kept
  <2>3. CASE i # j
    <3>1. /\ status'[j] = status[j] /\ hits'[j] = hits[j]
          /\ stockoutZones'[j] = stockoutZones[j]
          /\ stockoutRounds'[j] = stockoutRounds[j]
          /\ stockoutCd'[j] = stockoutCd[j]
      BY <1>10, <2>3 DEF PassOver, PassSweeps
    <3>2. (Fresh(j) => Fresh(j)') /\ (Kept(j) => Kept(j)')
      BY <2>1, <3>1 DEF Fresh, Kept
    <3> QED
      BY <1>1, <2>1, <3>1, <3>2
  <2>4. CASE i = j
    <3>1. status[j] = disk.status[j] /\ status'[j] # "running"
      <4>1. rcursor \in 1..Len(Order) /\ Order[rcursor] = j
        BY <1>10, <2>4, OrderFacts DEF PassOver, resumed, ProcessInv, RTypeOK, ResumeTypeOK
      <4>2. rcursor >= rcursor
        BY <4>1
      <4> QED
        BY <1>10, <2>1, <2>4, <4>1, <4>2 DEF ProcessInv, CursorInv, PassOver
    <3>2. CASE status[j] = "failed_infra"
      <4>1. /\ status'[j] = "queued" /\ stockoutZones'[j] = {} /\ stockoutRounds'[j] = 0
            /\ stockoutCd'[j] = NoTimer /\ hits'[j] = hits[j]
        BY <1>10, <2>4, <3>2 DEF PassSweeps
      <4>2. Fresh(j)' /\ hits'[j] = disk'.hits[j]
        BY <1>1, <2>1, <3>1, <3>2, <4>1 DEF Fresh, Up
      <4> QED
        BY <2>1, <3>1, <3>2, <4>1, <4>2
    <3>3. CASE status[j] # "failed_infra"
      <4>1. Advances(j)
        BY <1>10, <2>4, <3>3 DEF PassSweeps
      <4> QED
        BY <1>1, <2>1, <2>2, <3>1, <3>3, <4>1
    <3> QED
      BY <3>2, <3>3
  <2> QED
    BY <2>3, <2>4
<1>11. CASE Saves
  <2>1. /\ disk' = RunState /\ UNCHANGED <<status, hits, sweepVars>>
    BY <1>11 DEF Saves
  <2>2. /\ disk'.status = status' /\ disk'.hits = hits'
        /\ sweepVars' = <<disk'.stockoutZones, disk'.stockoutRounds, disk'.stockoutCd>>
    BY <2>1 DEF RunState, sweepVars
  <2>3. status'[j] = "running" => stockoutCd'[j] = NoTimer
    BY <1>1, <2>1 DEF sweepVars
  <2> QED
    BY <1>4, <2>2, <2>3
<1>12. Waits => Tick
  BY DEF Waits
<1> QED
  BY <1>5, <1>6, <1>7, <1>8, <1>9, <1>10, <1>11, <1>12, ResumeKinds DEF Passes

\* Over any number of crashes and resumes, and whether or not saves and docker ps fail,
\* state.json drops a failed zone only when its sweep is over, a sweep never, and a cooldown
\* not before its time; only a resume of an exhausted job starts over, with its attempt
\* history (recordStockout, LoadState, prepareResume)
THEOREM SavedSweepsSurvive == RSpec => SweepsSurvive
<1> DEFINE Survives(j) ==
             IF disk.status[j] = "failed_infra" /\ disk'.status[j] = "queued"
             THEN /\ disk'.stockoutZones[j] = {}
                  /\ disk'.stockoutRounds[j] = 0
                  /\ disk'.stockoutCd[j] = NoTimer
                  /\ disk'.hits[j] = disk.hits[j]
             ELSE /\ disk'.stockoutRounds[j] >= disk.stockoutRounds[j]
                  /\ \/ disk.stockoutZones[j] \subseteq disk'.stockoutZones[j]
                     \/ disk.stockoutCd[j] = 0
                     \/ disk'.stockoutRounds[j] > disk.stockoutRounds[j]
                  /\ disk.stockoutCd[j] > 0 =>
                       disk'.stockoutCd[j] \in {disk.stockoutCd[j], disk.stockoutCd[j] - 1}
<1>1. ASSUME ProcessInv, SweepMemory, [RNext]_allVars, NEW j \in Jobs
      PROVE  Survives(j)
  <2>1. DataOK /\ DataOK' /\ DiskType
    BY <1>1, ProcessStep DEF ProcessInv, RTypeOK
  <2>2. disk.stockoutRounds[j] \in Nat
    BY <2>1 DEF DiskType
  <2>3. CASE disk' = disk
    BY <2>2, <2>3
  <2>4. CASE Tick
    <3>1. /\ disk.stockoutCd[j] > 0 => disk'.stockoutCd[j] = disk.stockoutCd[j] - 1
          /\ disk'.status = disk.status
          /\ disk'.stockoutZones = disk.stockoutZones
          /\ disk'.stockoutRounds = disk.stockoutRounds
      BY <2>1, <2>4, TickKeeps
    <3> QED
      BY <2>2, <3>1
  <2>5. CASE Schedules /\ ~Tick /\ disk' = RunState'
    <3>1. /\ stockoutRounds'[j] >= disk.stockoutRounds[j]
          /\ \/ disk.stockoutZones[j] \subseteq stockoutZones'[j]
             \/ disk.stockoutCd[j] = 0
             \/ stockoutRounds'[j] > disk.stockoutRounds[j]
          /\ disk.stockoutCd[j] > 0 => stockoutCd'[j] = disk.stockoutCd[j]
          /\ disk.status[j] = "failed_infra" => status'[j] = "failed_infra"
      BY <1>1, <2>5, SweepGoesOn
    <3> QED
      BY <2>5, <3>1 DEF RunState
  <2>6. CASE Saves
    <3>1. IF disk.status[j] = "failed_infra" /\ status[j] = "queued" THEN Fresh(j) ELSE Kept(j)
      BY <1>1 DEF SweepMemory
    <3>2. disk' = RunState
      BY <2>6 DEF Saves
    <3> QED
      BY <3>1, <3>2 DEF RunState, Fresh, Kept
  <2>7. Schedules => disk' = disk \/ disk' = RunState' \/ Tick
    BY SavedWhole DEF Schedules
  <2>8. Waits => Tick
    BY DEF Waits
  <2>9. DockerActs \/ Loses \/ StartResume \/ Passes \/ ResumeAttach => disk' = disk
    BY DEF DockerActs, Loses, Gone, StartResume, Passes, PassOver, ResumeAttach, vars, runVars
  <2> HIDE DEF Survives
  <2> QED
    BY <1>1, <2>3, <2>4, <2>5, <2>6, <2>7, <2>8, <2>9, ResumeKinds
<1>2. ASSUME ProcessInv, SweepMemory, [RNext]_allVars
      PROVE  [\A j \in Jobs : Survives(j)]_allVars
  BY <1>1, <1>2
<1> QED
  BY <1>2, ProcessInit, ProcessStep, SweepMemoryInit, SweepMemoryStep, PTL DEF RSpec, SweepsSurvive

-----------------------------------------------------------------------------
(* Containers that outlive their process *)

\* Fewer jobs take less
LEMMA TotalMono ==
  ASSUME NEW amount \in [Jobs -> Nat], NEW T \in SUBSET Jobs, NEW S \in SUBSET T
  PROVE  Total(amount, S) <= Total(amount, T)
<1>1. IsFiniteSet(Units(amount, T))
  BY UnitsFinite
<1>2. Units(amount, S) \subseteq Units(amount, T)
  BY DEF Units
<1> QED
  BY <1>1, <1>2, FS_Subset DEF Total

\* Saves, docker ps and docker run work as they should
NoFaults == ~SaveMayFail /\ ~PsMayFail /\ ~SlowStart

\* A new run has no containers
LEMMA CloudInit == RInit => CloudInv
BY DEF RInit, Init, RunState, CloudInv, DiskCurrent, Up

\* No step loses sight of a container, when saves and docker work
LEMMA CloudStep ==
  ASSUME NoFaults, ProcessInv, CloudInv, [RNext]_allVars
  PROVE  CloudInv'
<1>1. /\ ResumeTypeOK /\ DataOK /\ DiskType
      /\ Up => TypeOK /\ RunningIsInflight
      /\ ~Up => inflight = {}
  BY DEF ProcessInv, RTypeOK, BooksInv, AdmissionInv, NothingCharged
<1>2. /\ Up => disk.status = status
      /\ ~Up => starting = {}
      /\ \A j \in starting : disk.status[j] = "running"
  <2>1. Up => disk.status = status
    BY DEF CloudInv, DiskCurrent, NoFaults
  <2>2. ~Up => starting = {}
    BY <1>1 DEF ResumeTypeOK
  <2> QED
    BY <1>1, <2>1, <2>2 DEF ResumeTypeOK, RunningIsInflight, DataOK
<1>3. CASE Schedules
  <2>1. Up' /\ ProcessInv' /\ RunningIsInflight' /\ ResumeTypeOK'
    BY <1>3, ProcessSchedules, UpStep DEF Schedules, ProcessInv, RTypeOK, BooksInv, AdmissionInv
  <2>2. DiskCurrent'
    BY <1>1, <1>3, DiskStep DEF Schedules, CloudInv
  <2>3. stray' = {} /\ containers' \subseteq owned'
    BY <1>3 DEF Schedules, CloudInv, Up
  <2>4. \A j \in containers' : disk'.status[j] = "running"
    BY <2>1, <2>2, <2>3 DEF DiskCurrent, NoFaults, RunningIsInflight, ResumeTypeOK
  <2> QED
    BY <2>1, <2>2, <2>3, <2>4 DEF CloudInv, Up
<1>4. CASE DockerActs
  <2>1. UNCHANGED <<pc, disk, status>> /\ (DiskCurrent => DiskCurrent')
    BY <1>4 DEF DockerActs, vars, runVars, ctlVars, sweepVars, quotaVars, DiskCurrent
  <2>2. pc' # "down" => stray' = {}
    BY <1>4, <2>1 DEF DockerActs, CloudInv
  <2>3. Up' => containers' \subseteq owned'
    BY <1>4, <2>1 DEF DockerActs, CloudInv, Up
  <2>4. \A j \in containers' \cup stray' : disk'.status[j] = "running"
    BY <1>2, <1>4, <2>1 DEF DockerActs, CloudInv
  <2>5. pc' \in {"resume", "attach"} => containers' \subseteq containers
    BY <1>2, <1>4, <2>1 DEF DockerActs, CloudInv, Up
  <2> QED
    BY <2>1, <2>2, <2>3, <2>4, <2>5 DEF CloudInv, Up
<1>5. CASE Waits
  <2>1. UNCHANGED <<pc, status, dockerVars>> /\ disk'.status = disk.status /\ ~Up'
    BY <1>1, <1>5 DEF Waits, Tick, DiskType, ctlVars, Up
  <2> QED
    BY <2>1 DEF CloudInv, dockerVars
<1>6. CASE Loses
  <2>1. pc' = "down" /\ disk' = disk /\ containers' = containers /\ stray' = stray \cup starting
    BY <1>6 DEF Loses, Gone, NewScheduler
  <2> QED
    BY <1>2, <2>1 DEF CloudInv, Up
<1>7. CASE StartResume
  <2>1. /\ pc' = "resume" /\ stray = {} /\ status = disk.status
        /\ UNCHANGED <<disk, status, containers, stray>>
    BY <1>7 DEF StartResume, NoFaults, ProcessInv, runVars, dockerVars
  <2> QED
    BY <2>1 DEF CloudInv, Up
<1>8. ASSUME NEW j \in Jobs, PassOver(j) PROVE CloudInv'
  <2>1. /\ pc \in {"resume", "attach"} /\ pc' = "resume"
        /\ UNCHANGED <<disk, containers, stray>>
    BY <1>8 DEF PassOver, dockerVars
  <2>2. j \notin containers
    BY <1>8, <2>1 DEF PassOver, CloudInv, NoFaults
  <2>3. \A i \in containers : status'[i] = status[i]
    BY <1>1, <1>8, <2>2 DEF PassOver, ResumeTypeOK
  <2> QED
    BY <2>1, <2>3 DEF CloudInv, Up
<1>9. CASE ResumeAttach
  <2>1. /\ pc = "resume" /\ pc' = "attach"
        /\ UNCHANGED <<disk, status, containers, stray>>
    BY <1>9 DEF ResumeAttach, runVars, dockerVars
  <2> QED
    BY <2>1 DEF CloudInv, Up
<1>10. CASE Saves
  <2>1. ProcessInv' /\ Up' /\ inflight' = {} /\ pc' = "top"
    BY <1>1, <1>10, ProcessStep DEF Saves, Up
  <2>2. \A j \in Jobs : status[j] # "running"
    BY <1>10, <2>1, FS_EmptySet DEF Saves, ProcessInv, BooksInv, AdmissionInv, RunningIsInflight
  <2>3. containers = {} /\ containers' = {} /\ stray' = {}
    BY <1>1, <1>10, <2>2 DEF Saves, CloudInv, ResumeTypeOK, dockerVars
  <2>4. DiskCurrent'
    BY <1>10 DEF Saves, DiskCurrent, RunState, sweepVars, quotaVars
  <2> QED
    BY <2>1, <2>3, <2>4 DEF CloudInv, Up
<1> QED
  BY <1>3, <1>4, <1>5, <1>6, <1>7, <1>8, <1>9, <1>10, ResumeKinds DEF Passes

\* Of the jobs a scheduler has in flight, any part fits the budgets
LEMMA UpFits ==
  ASSUME NoFaults, ProcessInv', CloudInv', Up'
  PROVE  CloudFits'
<1>1. /\ BooksInv' /\ TypeOK' /\ RunningIsInflight' /\ WithinBudgets' /\ Books' /\ ResumeTypeOK'
      /\ DiskCurrent' /\ stray' = {} /\ containers' \subseteq owned'
  BY DEF ProcessInv, RTypeOK, BooksInv, AdmissionInv, CloudInv, Up
<1>2. inflight' \subseteq Jobs /\ disk'.last = last'
  BY <1>1 DEF TypeOK, DataOK, DiskCurrent, NoFaults
<1> DEFINE cloud == containers' \cup stray' \cup starting'
<1>3. cloud \subseteq inflight'
  BY <1>1 DEF ResumeTypeOK
<1>4. Cardinality(cloud) <= ContainerCap
  <2>1. IsFiniteSet(inflight')
    BY <1>2, JobsAssumption, FS_Subset
  <2>2. IsFiniteSet(cloud) /\ Cardinality(cloud) <= Cardinality(inflight')
    BY <1>3, <2>1, FS_Subset
  <2>3. Cardinality(cloud) \in Nat /\ Cardinality(inflight') \in Nat
    BY <2>1, <2>2, FS_CardinalityType
  <2>4. Cardinality(inflight') <= ContainerCap
    BY <1>1 DEF RunningIsInflight, WithinBudgets
  <2> QED
    BY <2>2, <2>3, <2>4, BudgetAssumption
<1>5. ASSUME NEW r \in Regions, NEW k \in Keys
      PROVE  Total(CPUCost, Charged(cloud, last', r, k)) <= usable(r, k)
  <2> DEFINE S == Charged(cloud, last', r, k)
             T == Charged(inflight', last', r, k)
  <2>1. S \subseteq T /\ T \subseteq Jobs
    BY <1>2, <1>3 DEF Charged
  <2>2. usedCPU'[r][k] = Total(CPUCost, T) /\ usedCPU'[r][k] <= usable(r, k)
    BY <1>1, <1>5 DEF Books, WithinBudgets
  <2> HIDE DEF S, T
  <2>3. Total(CPUCost, S) <= Total(CPUCost, T) /\ S \subseteq Jobs
    BY <2>1, TotalMono, JobsAssumption
  <2>4. Total(CPUCost, S) \in Nat /\ Total(CPUCost, T) \in Nat /\ usable(r, k) \in Nat
    BY <1>5, <2>1, <2>3, TotalType, UsableType, JobsAssumption
  <2>5. Total(CPUCost, S) <= usable(r, k)
    BY <2>2, <2>3, <2>4
  <2> QED
    BY <2>5 DEF S
<1> QED
  BY <1>2, <1>4, <1>5 DEF CloudFits, ChargedCloud

\* Without a scheduler nothing is added to what is in the cloud
LEMMA DownFits ==
  ASSUME ProcessInv, CloudFits, [RNext]_allVars, ~Up'
  PROVE  CloudFits'
<1> DEFINE cloud == containers \cup stray \cup starting
<1>1. cloud' \subseteq cloud /\ disk'.last = disk.last
  <2>1. CASE Schedules
    BY <2>1, UpStep DEF Schedules
  <2>2. CASE DockerActs
    BY <2>2 DEF DockerActs, vars, runVars
  <2>3. CASE Waits
    BY <2>3 DEF Waits, Tick, ProcessInv, RTypeOK, DiskType, dockerVars
  <2>4. CASE Loses
    BY <2>4 DEF Loses, Gone, NewScheduler
  <2>5. CASE StartResume \/ Passes \/ ResumeAttach
    BY <2>5 DEF StartResume, Passes, PassOver, ResumeAttach, runVars, dockerVars
  <2>6. CASE Saves
    BY <2>6 DEF Saves, Up
  <2> QED
    BY <2>1, <2>2, <2>3, <2>4, <2>5, <2>6, ResumeKinds
<1>2. cloud \subseteq Jobs
  BY DEF ProcessInv, RTypeOK, ResumeTypeOK, DataOK
<1>3. Cardinality(cloud') <= ContainerCap
  <2>1. IsFiniteSet(cloud) /\ IsFiniteSet(cloud') /\ Cardinality(cloud') <= Cardinality(cloud)
    BY <1>1, <1>2, JobsAssumption, FS_Subset
  <2>2. Cardinality(cloud) \in Nat /\ Cardinality(cloud') \in Nat
    BY <2>1, FS_CardinalityType
  <2>3. Cardinality(cloud) <= ContainerCap
    BY DEF CloudFits
  <2> QED
    BY <2>1, <2>2, <2>3, BudgetAssumption
<1>4. ASSUME NEW r \in Regions, NEW k \in Keys
      PROVE  Total(CPUCost, Charged(cloud', disk'.last, r, k)) <= usable(r, k)
  <2> DEFINE S == Charged(cloud', disk'.last, r, k)
             T == Charged(cloud, disk.last, r, k)
  <2>1. S \subseteq T /\ T \subseteq Jobs
    BY <1>1, <1>2 DEF Charged
  <2>2. Total(CPUCost, T) <= usable(r, k)
    BY <1>4 DEF CloudFits, ChargedCloud
  <2> HIDE DEF S, T
  <2>3. Total(CPUCost, S) <= Total(CPUCost, T) /\ S \subseteq Jobs
    BY <2>1, TotalMono, JobsAssumption
  <2>4. Total(CPUCost, S) \in Nat /\ Total(CPUCost, T) \in Nat /\ usable(r, k) \in Nat
    BY <1>4, <2>1, <2>3, TotalType, UsableType, JobsAssumption
  <2>5. Total(CPUCost, S) <= usable(r, k)
    BY <2>2, <2>3, <2>4
  <2> QED
    BY <2>5 DEF S
<1> QED
  BY <1>3, <1>4 DEF CloudFits, ChargedCloud

\* A new run takes nothing from the quota
LEMMA FitsInit == RInit => CloudFits
<1> SUFFICES ASSUME RInit PROVE CloudFits
  OBVIOUS
<1>1. containers \cup stray \cup starting = {}
  BY DEF RInit
<1>2. \A r \in Regions, k \in Keys : ChargedCloud(r, k) = {}
  BY <1>1 DEF ChargedCloud, Charged
<1>3. Cardinality({}) = 0 /\ Total(CPUCost, {}) = 0
  BY FS_EmptySet, TotalType, JobsAssumption
<1>4. Cardinality(containers \cup stray \cup starting) <= ContainerCap
  <2>1. Cardinality(containers \cup stray \cup starting) = 0
    BY <1>1, <1>3, Zenon
  <2> QED
    BY <2>1, BudgetAssumption
<1>5. ASSUME NEW r \in Regions, NEW k \in Keys
      PROVE  Total(CPUCost, ChargedCloud(r, k)) <= usable(r, k)
  <2>1. Total(CPUCost, ChargedCloud(r, k)) = 0
    BY <1>2, <1>3, <1>5
  <2>2. usable(r, k) \in Nat
    BY <1>5, UsableType
  <2> QED
    BY <2>1, <2>2
<1> QED
  BY <1>4, <1>5 DEF CloudFits

\* The inductive invariant of a run whose saves, docker ps and docker run work
SurvivorInv == ProcessInv /\ CloudInv /\ CloudFits

\* When saves and docker work, what is in the cloud is on disk and within the budgets
\* in every reachable state, crashes and resumes included
THEOREM SurvivorInvariant ==
  ASSUME NoFaults
  PROVE  RSpec => []SurvivorInv
<1>1. RInit => SurvivorInv
  BY ProcessInit, CloudInit, FitsInit DEF SurvivorInv
<1>2. ASSUME SurvivorInv, [RNext]_allVars PROVE SurvivorInv'
  BY <1>2, ProcessStep, CloudStep, UpFits, DownFits DEF SurvivorInv
<1> QED
  BY <1>1, <1>2, PTL DEF RSpec

\* While saves and docker ps work and nobody resumes during a docker run, no container is
\* forgotten over any number of crashes and resumes: whenever a process is lost, state.json
\* calls every job "running" whose container lives, and a scheduler owns all that live
THEOREM NoContainerForgotten ==
  ASSUME NoFaults
  PROVE  RSpec => []NoForgottenContainer
<1>1. SurvivorInv => NoForgottenContainer
  <2> SUFFICES ASSUME SurvivorInv PROVE NoForgottenContainer
    OBVIOUS
  <2>1. ResumeTypeOK
    BY DEF SurvivorInv, ProcessInv, RTypeOK
  <2> QED
    BY <2>1 DEF SurvivorInv, CloudInv, NoForgottenContainer, ResumeTypeOK, Up
<1> QED
  BY <1>1, SurvivorInvariant, PTL

\* ... and what is really in the cloud, survivors included, stays within the container cap
\* and the CPU budgets of every region (pickZone, prepareResume)
THEOREM SurvivorsFit ==
  ASSUME NoFaults
  PROVE  RSpec => []NoOvercommit
<1>1. SurvivorInv => NoOvercommit
  <2> SUFFICES ASSUME SurvivorInv PROVE NoOvercommit
    OBVIOUS
  <2> DEFINE cloud == containers \cup stray \cup starting
             Here(r, k) == {j \in containers : zoneRegion[disk.last[j].zone] = r
                                                 /\ k \in budgetKeys(j, r)}
  <2>1. cloud \subseteq Jobs
    BY DEF SurvivorInv, ProcessInv, RTypeOK, ResumeTypeOK, DataOK
  <2>2. Cardinality(containers) <= ContainerCap
    <3>1. IsFiniteSet(cloud)
      BY <2>1, JobsAssumption, FS_Subset
    <3>2. IsFiniteSet(containers) /\ Cardinality(containers) <= Cardinality(cloud)
      BY <3>1, FS_Subset
    <3>3. Cardinality(cloud) \in Nat /\ Cardinality(containers) \in Nat
      BY <3>1, <3>2, FS_CardinalityType
    <3>4. Cardinality(cloud) <= ContainerCap
      BY DEF SurvivorInv, CloudFits
    <3> QED
      BY <3>2, <3>3, <3>4, BudgetAssumption
  <2>3. ASSUME NEW r \in Regions, NEW k \in Keys
        PROVE  Total(CPUCost, Here(r, k)) <= usable(r, k)
    <3>1. Here(r, k) \subseteq ChargedCloud(r, k) /\ ChargedCloud(r, k) \subseteq Jobs
      BY <2>1 DEF ChargedCloud, Charged
    <3>2. Total(CPUCost, ChargedCloud(r, k)) <= usable(r, k)
      BY <2>3 DEF SurvivorInv, CloudFits
    <3> HIDE DEF Here
    <3>3. Total(CPUCost, Here(r, k)) <= Total(CPUCost, ChargedCloud(r, k))
      BY <3>1, TotalMono, JobsAssumption
    <3>4. /\ Total(CPUCost, Here(r, k)) \in Nat /\ Total(CPUCost, ChargedCloud(r, k)) \in Nat
          /\ usable(r, k) \in Nat
      BY <2>3, <3>1, TotalType, UsableType, JobsAssumption
    <3> QED
      BY <3>2, <3>3, <3>4
  <2> QED
    BY <2>2, <2>3 DEF NoOvercommit
<1> QED
  BY <1>1, SurvivorInvariant, PTL

-----------------------------------------------------------------------------
(* The dry run *)

\* What a dry run has printed stays what the resume will do
LEMMA PlanStep ==
  ASSUME ProcessInv, PlanInv, [RNext]_allVars
  PROVE  PlanInv'
<1>1. CASE Schedules \/ Loses \/ Saves
  <2>1. pc' \notin {"resume", "attach"}
    BY <1>1, UpStep DEF Schedules, Loses, Gone, Saves, Up
  <2> QED
    BY <2>1 DEF PlanInv
<1>2. ASSUME pc' = pc, ~SlowStart /\ stray = {} => stray' = {},
             pc \in {"resume", "attach"} /\ ~SlowStart /\ stray = {} => containers' \subseteq containers,
             disk'.status = disk.status, UNCHANGED <<status, rcursor, requeued, plan, onlyFailed>>
      PROVE  PlanInv'
  BY <1>2 DEF PlanInv, WillRequeue, Listed, Judged, resumed
<1>3. CASE DockerActs
  <2>1. pc' = pc /\ disk' = disk /\ UNCHANGED <<status, rcursor, requeued, plan, onlyFailed>>
    BY <1>3 DEF DockerActs, vars, runVars, ctlVars, resumeVars
  <2>2. ~SlowStart /\ stray = {} => stray' = {}
    BY <1>3 DEF DockerActs
  <2>3. pc \in {"resume", "attach"} => starting = {}
    BY DEF ProcessInv, RTypeOK, ResumeTypeOK, NothingCharged, Up
  <2>4. pc \in {"resume", "attach"} /\ ~SlowStart /\ stray = {} => containers' \subseteq containers
    BY <1>3, <2>3 DEF DockerActs
  <2> QED
    BY <1>2, <2>1, <2>2, <2>4
<1>4. CASE Waits
  <2>1. disk'.status = disk.status /\ pc' = pc
    BY <1>4 DEF Waits, Tick, ctlVars, ProcessInv, RTypeOK, DiskType
  <2>2. UNCHANGED <<status, rcursor, requeued, plan, onlyFailed, containers, stray>>
    BY <1>4 DEF Waits, Tick, dockerVars, resumeVars
  <2> QED
    BY <1>2, <2>1, <2>2
<1>5. CASE StartResume
  <2>1. /\ pc' = "resume" /\ rcursor' = 1 /\ requeued' = {}
        /\ ~SlowStart => stray' = {}
        /\ status' = status /\ containers' = containers
    BY <1>5 DEF StartResume, ProcessInv, runVars, dockerVars
  <2>2. PICK answered \in SUBSET Jobs :
          /\ PsMayFail \/ answered = Jobs
          /\ plan' = [requeue |-> PlannedRequeue(answered, onlyFailed'),
                      attach |-> PlannedAttach(answered)]
    BY <1>5 DEF StartResume
  <2>3. ASSUME NEW j \in Jobs
        PROVE  /\ WillRequeue(j)' <=> j \in Listed'
               /\ j \in plan'.requeue /\ status'[j] = "running" /\ j \in containers' => PsMayFail
    BY <2>1, <2>2 DEF PlannedRequeue, PlannedAttach, WillRequeue, Listed
  <2> QED
    BY <2>1, <2>3, OrderFacts DEF PlanInv
<1>6. CASE ResumeAttach
  <2>1. /\ pc = "resume" /\ pc' = "attach" /\ rcursor <= Len(Order)
        /\ status[resumed] = "running" /\ resumed \in containers
        /\ UNCHANGED <<disk, status, rcursor, requeued, plan, onlyFailed, containers, stray>>
    BY <1>6 DEF ResumeAttach, runVars, dockerVars, resumeVars
  <2>2. rcursor \in 1..Len(Order) /\ rcursor >= rcursor
    BY <2>1, OrderFacts DEF ProcessInv, RTypeOK, ResumeTypeOK
  <2>3. resumed' = resumed /\ (resumed \in plan.requeue => PsMayFail \/ SlowStart)
    BY <2>1, <2>2 DEF PlanInv, resumed
  <2> QED
    BY <2>1, <2>3 DEF PlanInv, WillRequeue, Listed, Judged
<1>7. ASSUME NEW j \in Jobs, PassOver(j) PROVE PlanInv'
  <2>1. /\ pc \in {"resume", "attach"} /\ pc' = "resume" /\ rcursor' = rcursor + 1
        /\ j = resumed
        /\ UNCHANGED <<disk, plan, onlyFailed, containers, stray>>
        /\ \A i \in Jobs \ {j} : status'[i] = status[i]
        /\ requeued' = requeued \/ (requeued' = requeued \cup {j} /\ WillRequeue(j))
        /\ pc = "resume" /\ WillRequeue(j) => requeued' = requeued \cup {j}
        /\ ~WillRequeue(j) => status'[j] = status[j]
        /\ pc = "attach" => requeued' = requeued \cup {j} \/ status'[j] \in Verdicts
    BY <1>7 DEF PassOver, dockerVars
  <2>2. rcursor \in 1..Len(Order) /\ rcursor >= rcursor /\ j = Order[rcursor]
    BY <1>7, OrderFacts DEF PassOver, resumed, ProcessInv, RTypeOK, ResumeTypeOK
  <2>3. /\ WillRequeue(j) <=> j \in Listed
        /\ pc = "attach" /\ j \in plan.requeue => PsMayFail \/ SlowStart
        /\ requeued \subseteq Listed
        /\ ~SlowStart => stray = {}
    BY <2>1, <2>2 DEF PlanInv
  <2>4. requeued' \subseteq Listed /\ Listed' = Listed /\ requeued \subseteq requeued'
    BY <2>1, <2>3 DEF Listed
  <2>5. status[j] = disk.status[j] /\ (pc = "attach" => disk.status[j] = "running")
    BY <2>1, <2>2 DEF ProcessInv, CursorInv, Up
  <2>6. IF j \in Listed THEN j \in requeued' \/ Judged(j)' ELSE status'[j] = disk'.status[j]
    BY <2>1, <2>3, <2>5 DEF Judged
  <2>7. ASSUME NEW i \in 1..Len(Order), i < rcursor'
        PROVE  IF Order[i] \in Listed THEN Order[i] \in requeued' \/ Judged(Order[i])'
               ELSE status'[Order[i]] = disk'.status[Order[i]]
    <3>1. CASE i = rcursor
      BY <2>2, <2>6, <3>1
    <3>2. CASE i < rcursor
      <4>1. IF Order[i] \in Listed THEN Order[i] \in requeued \/ Judged(Order[i])
            ELSE status[Order[i]] = disk.status[Order[i]]
        BY <2>1, <3>2 DEF PlanInv
      <4>2. Order[i] \in Jobs \ {j}
        BY <2>2, <3>2, OrderFacts
      <4> QED
        BY <2>1, <2>4, <4>1, <4>2 DEF Judged
    <3> QED
      BY <2>1, <2>2, <2>7, <3>1, <3>2
  <2>8. ASSUME NEW i \in 1..Len(Order), i >= rcursor'
        PROVE  /\ WillRequeue(Order[i])' <=> Order[i] \in Listed
               /\ Order[i] \in plan.requeue /\ status'[Order[i]] = "running"
                    /\ Order[i] \in containers => PsMayFail \/ SlowStart
    <3>1. i > rcursor /\ i >= rcursor
      BY <2>1, <2>2, <2>8
    <3>2. Order[i] # j /\ Order[i] \in Jobs
      BY <2>2, <3>1, OrderFacts
    <3>3. status'[Order[i]] = status[Order[i]] /\ onlyFailed' = onlyFailed
      BY <2>1, <3>2
    <3>4. WillRequeue(Order[i])' <=> WillRequeue(Order[i])
      BY <3>3 DEF WillRequeue
    <3> QED
      BY <2>1, <3>1, <3>3, <3>4 DEF PlanInv
  <2> QED
    BY <2>1, <2>3, <2>4, <2>7, <2>8 DEF PlanInv
<1> QED
  BY <1>1, <1>3, <1>4, <1>5, <1>6, <1>7, ResumeKinds DEF Passes

\* A resume does what its dry run announced, also when docker ps or saves fail and when
\* docker creates containers after their process is gone: a job on neither list keeps its
\* status, one on a list is requeued or gets the verdict of a container, and the latter
\* surprises only where a query of the dry run failed or the container came after it
\* (dryRunResumePlan, prepareResume)
THEOREM DryRunTellsTheTruth == RSpec => []PlanMatches
<1>1. RInit => PlanInv
  BY DEF RInit, Init, PlanInv
<1>2. ProcessInv /\ PlanInv => PlanMatches
  <2> SUFFICES ASSUME ProcessInv, PlanInv, pc = "resume", rcursor > Len(Order), NEW j \in Jobs
               PROVE  IF j \in plan.requeue \cup plan.attach
                      THEN j \in requeued \/ Judged(j)
                      ELSE j \notin requeued /\ status[j] = disk.status[j]
    BY DEF PlanMatches, Judged, Verdicts
  <2>1. requeued \subseteq plan.requeue \cup plan.attach
    BY DEF PlanInv, Listed
  <2>2. PICK i \in 1..Len(Order) : Order[i] = j
    BY OrderFacts
  <2>3. i < rcursor
    BY <2>2, OrderFacts DEF ProcessInv, RTypeOK, ResumeTypeOK
  <2> QED
    BY <2>1, <2>2, <2>3 DEF PlanInv, Listed
<1> QED
  BY <1>1, <1>2, ProcessInit, ProcessStep, PlanStep, PTL DEF RSpec
=============================================================================
