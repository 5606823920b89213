------------------------------- MODULE Resume --------------------------------
(***************************************************************************)
(* A run over several processes: citrun crashes or ends, its containers    *)
(* live on, and `citrun resume` or `citrun rerun-failed` picks the run up  *)
(* from state.json (cmd/citrun/resume.go, state.go).  The module adds to   *)
(* Scheduler the containers, the loss of a process, and prepareResume.     *)
(***************************************************************************)
EXTENDS Scheduler

CONSTANTS
  PsMayFail,    \* whether `docker ps` may fail (ContainerExists then says no)
  SlowStart,    \* whether a resume may come while docker still starts a container for
                \* the lost process
  MaxCrashes,   \* bound: processes lost
  MaxResumes    \* bound: resume and rerun-failed commands

ASSUME ResumeAssumption ==
  /\ PsMayFail \in BOOLEAN
  /\ SlowStart \in BOOLEAN
  /\ MaxCrashes \in Nat
  /\ MaxResumes \in Nat

VARIABLES
  containers,   \* jobs whose container is alive, whoever started it
  owned,        \* those a goroutine of the live process waits for
  starting,     \* jobs whose goroutine waits for docker run to create the container
  stray,        \* jobs whose docker run outlived its process before it did so
  rcursor,      \* position in Order of prepareResume
  onlyFailed,   \* the command is rerun-failed
  requeued,     \* jobs prepareResume has counted
  plan,         \* what resume -dry-run printed when the command was given
  crashes, resumes

dockerVars == <<containers, owned, starting, stray>>
resumeVars == <<rcursor, onlyFailed, requeued, plan>>
boundVars == <<crashes, resumes>>
allVars == <<vars, dockerVars, resumeVars, boundVars>>

RInit ==
  /\ Init
  /\ containers = {}
  /\ owned = {}
  /\ starting = {}
  /\ stray = {}
  /\ rcursor = 1
  /\ onlyFailed = FALSE
  /\ requeued = {}
  /\ plan = [requeue |-> {}, attach |-> {}]
  /\ crashes = 0
  /\ resumes = 0

-----------------------------------------------------------------------------
(* Scheduling, with containers *)

RLaunch(j, z) ==
  /\ Launch(j, z)
  /\ starting' = starting \cup {j}
  /\ UNCHANGED <<containers, owned, stray, resumeVars, boundVars>>

\* docker run --name: fails when docker does, or when a container of that name is alive
DockerRun(j) ==
  /\ j \in starting
  /\ starting' = starting \ {j}
  /\ \/ /\ j \notin containers
        /\ containers' = containers \cup {j}
        /\ owned' = owned \cup {j}
     \/ UNCHANGED <<containers, owned>>
  /\ UNCHANGED <<vars, stray, resumeVars, boundVars>>

\* The same for a docker run whose citrun is gone
StrayRun(j) ==
  /\ j \in stray
  /\ stray' = stray \ {j}
  /\ \/ j \notin containers /\ containers' = containers \cup {j}
     \/ UNCHANGED containers
  /\ UNCHANGED <<vars, owned, starting, resumeVars, boundVars>>

\* exec.Run returns once the docker run it started has ended
RComplete(j) ==
  /\ j \notin owned \cup starting
  /\ handleCompletion(j)
  /\ UNCHANGED <<dockerVars, resumeVars, boundVars>>

\* The test manager ends, whether or not citrun is there to see it
ContainerExit(j) ==
  /\ j \in containers
  /\ containers' = containers \ {j}
  /\ owned' = owned \ {j}
  /\ UNCHANGED <<vars, starting, stray, resumeVars, boundVars>>

RAdmitStep ==
  /\ \/ AdmitBegin
     \/ AdmitEnd
     \/ AdmitSkip
     \/ \E j \in Jobs : AdmitNoZone(j)
  /\ UNCHANGED <<dockerVars, resumeVars, boundVars>>

RLoopStep ==
  /\ LoopStep
  /\ UNCHANGED <<dockerVars, resumeVars, boundVars>>

RTick ==
  /\ Tick
  /\ UNCHANGED <<dockerVars, resumeVars, boundVars>>

RInterrupt ==
  /\ Interrupt
  /\ UNCHANGED <<dockerVars, resumeVars, boundVars>>

-----------------------------------------------------------------------------
(* Losing a process *)

\* The Scheduler struct of a new process
NewScheduler ==
  /\ running' = 0
  /\ runningPerShape' = [s \in Shapes |-> 0]
  /\ usedCPU' = [r \in Regions |-> [k \in Keys |-> 0]]
  /\ usedNets' = 0
  /\ usedSubnets' = 0
  /\ cooldownHits' = [r \in Regions |-> [k \in Keys |-> 0]]
  /\ quotaPenalty' = [r \in Regions |-> [k \in Keys |-> 0]]
  /\ zoneRR' = [r \in Regions |-> 0]
  /\ inflight' = {}
  /\ owned' = {}
  /\ starting' = {}
  /\ stray' = stray \cup starting
  /\ admitCancelled' = FALSE
  /\ jobCancelled' = FALSE
  /\ drained' = FALSE
  /\ cursor' = 1

\* fault: the failed zones are not restored
LoadState_NoZones ==
  /\ status' = disk.status
  /\ last' = disk.last
  /\ hits' = disk.hits
  /\ stockoutZones' = [j \in Jobs |-> {}]
  /\ stockoutRounds' = disk.stockoutRounds
  /\ stockoutCd' = disk.stockoutCd
  /\ quotaCd' = disk.quotaCd

\* fault: cooldowns are not restored
LoadState_NoCooldowns ==
  /\ status' = disk.status
  /\ last' = disk.last
  /\ hits' = disk.hits
  /\ stockoutZones' = disk.stockoutZones
  /\ stockoutRounds' = disk.stockoutRounds
  /\ stockoutCd' = [j \in Jobs |-> NoTimer]
  /\ quotaCd' = [r \in Regions |-> [k \in Keys |-> 0]]

LoadState ==
  /\ status' = disk.status
  /\ last' = disk.last
  /\ hits' = disk.hits
  /\ stockoutZones' = disk.stockoutZones
  /\ stockoutRounds' = disk.stockoutRounds
  /\ stockoutCd' = disk.stockoutCd
  /\ quotaCd' = disk.quotaCd

\* The process is gone; what it knew is what the next one will load
Gone ==
  /\ NewScheduler
  /\ LoadState
  /\ pc' = "down"
  /\ rcursor' = 1
  /\ requeued' = {}
  /\ plan' = [requeue |-> {}, attach |-> {}]
  /\ onlyFailed' = FALSE
  /\ UNCHANGED <<disk, pauses, paused, containers, resumes>>

\* Killed, or the machine restarts citrun: at any point of a run or of a resume
Crash ==
  /\ pc \notin {"down", "done"}
  /\ crashes < MaxCrashes
  /\ crashes' = crashes + 1
  /\ exitCode' = -1
  /\ Gone

\* The process has returned its exit code
Leave ==
  /\ pc = "done"
  /\ UNCHANGED <<crashes, exitCode>>
  /\ Gone

-----------------------------------------------------------------------------
(* cmdResume and prepareResume *)

\* dryRunResumePlan asks docker about each running job; answered are the jobs whose
\* docker ps did not fail.  Its attach list and its requeue list
PlannedAttach(answered) == {j \in answered : status[j] = "running" /\ j \in containers}

\* fault: exhausted jobs are missing from the plan
PlannedRequeue_NoInfra(answered, rerun) ==
  {j \in Jobs \ PlannedAttach(answered) :
     \/ status[j] \in {"queued", "running"}
     \/ status[j] = "failed_real" /\ rerun}

PlannedRequeue(answered, rerun) ==
  {j \in Jobs \ PlannedAttach(answered) :
     \/ status[j] \in {"queued", "running", "failed_infra"}
     \/ status[j] = "failed_real" /\ rerun}

\* The operator gives the command, with the plan of a dry run in hand
StartResume ==
  /\ pc = "down"
  /\ SlowStart \/ stray = {}
  /\ resumes < MaxResumes
  /\ resumes' = resumes + 1
  /\ pc' = "resume"
  /\ onlyFailed' \in BOOLEAN
  /\ \E answered \in SUBSET Jobs :
       /\ PsMayFail \/ answered = Jobs
       /\ plan' = [requeue |-> PlannedRequeue(answered, onlyFailed'),
                   attach |-> PlannedAttach(answered)]
  /\ exitCode' = -1
  /\ UNCHANGED <<runVars, cursor, drained, envVars, dockerVars, rcursor, requeued, crashes>>

resumed == Order[rcursor]

Resuming(s) ==
  /\ pc = "resume"
  /\ rcursor <= Len(Order)
  /\ status[resumed] = s
  /\ rcursor' = rcursor + 1
  /\ UNCHANGED <<quotaVars, disk, usageVars, zoneRR, inflight, cursor, drained, exitCode,
                 envVars, dockerVars, onlyFailed, plan, boundVars>>

\* Statuses that leave the job alone: queued is counted, a verdict is kept
ResumeKeep ==
  /\ \/ Resuming("queued") /\ requeued' = requeued \cup {resumed}
     \/ /\ \/ Resuming("passed")
           \/ Resuming("skipped_quarantine")
           \/ Resuming("failed_real") /\ ~onlyFailed
        /\ UNCHANGED requeued
  /\ UNCHANGED <<status, last, hits, sweepVars, pc>>

\* fault: the attempt's result is written to the status
Requeue_Orphaned(j) ==
  /\ status' = [status EXCEPT ![j] = "orphaned"]
  /\ requeued' = requeued \cup {j}

Requeue(j) ==
  /\ status' = [status EXCEPT ![j] = "queued"]
  /\ requeued' = requeued \cup {j}

\* fault: resume requeues real failures too
ResumeFailedReal_Always ==
  /\ Resuming("failed_real")
  /\ Requeue(resumed)
  /\ UNCHANGED <<last, hits, sweepVars, pc>>

\* rerun-failed
ResumeFailedReal ==
  /\ Resuming("failed_real")
  /\ onlyFailed
  /\ Requeue(resumed)
  /\ UNCHANGED <<last, hits, sweepVars, pc>>

\* fault: the marks of the last sweep are kept
ResumeFailedInfra_KeepMarks ==
  /\ Resuming("failed_infra")
  /\ Requeue(resumed)
  /\ stockoutRounds' = [stockoutRounds EXCEPT ![resumed] = 0]
  /\ stockoutCd' = [stockoutCd EXCEPT ![resumed] = NoTimer]
  /\ UNCHANGED <<last, hits, stockoutZones, pc>>

\* An exhausted job starts fresh sweeps; its attempt history stays
ResumeFailedInfra ==
  /\ Resuming("failed_infra")
  /\ Requeue(resumed)
  /\ stockoutZones' = [stockoutZones EXCEPT ![resumed] = {}]
  /\ stockoutRounds' = [stockoutRounds EXCEPT ![resumed] = 0]
  /\ stockoutCd' = [stockoutCd EXCEPT ![resumed] = NoTimer]
  /\ UNCHANGED <<last, hits, pc>>

\* fault: running jobs are requeued without asking docker
ResumeOrphan_Unchecked ==
  /\ Resuming("running")
  /\ last' = [last EXCEPT ![resumed].result = "orphaned"]
  /\ Requeue(resumed)
  /\ UNCHANGED <<hits, sweepVars, pc>>

\* ContainerExists is false: the container is gone, or docker ps failed
ResumeOrphan ==
  /\ Resuming("running")
  /\ resumed \notin containers \/ PsMayFail
  /\ last' = [last EXCEPT ![resumed].result = "orphaned"]
  /\ Requeue(resumed)
  /\ UNCHANGED <<hits, sweepVars, pc>>

\* ContainerExists is true: Attach blocks in docker wait
ResumeAttach ==
  /\ pc = "resume"
  /\ rcursor <= Len(Order)
  /\ status[resumed] = "running"
  /\ resumed \in containers
  /\ pc' = "attach"
  /\ UNCHANGED <<runVars, cursor, drained, exitCode, envVars, dockerVars, resumeVars, boundVars>>

\* docker wait returns when the container has ended
AttachReturns(c) ==
  /\ pc = "attach"
  /\ c \in Outcomes
  /\ resumed \notin containers
  /\ last' = [last EXCEPT ![resumed].result = c]
  /\ hits' = [hits EXCEPT ![resumed][c] = @ + 1]
  /\ pc' = "resume"
  /\ rcursor' = rcursor + 1
  /\ UNCHANGED <<quotaVars, disk, usageVars, zoneRR, inflight, cursor, drained, exitCode,
                 envVars, dockerVars, onlyFailed, plan, boundVars>>

AttachVerdict ==
  /\ \/ AttachReturns("pass") /\ status' = [status EXCEPT ![resumed] = "passed"]
     \/ AttachReturns("fail") /\ status' = [status EXCEPT ![resumed] = "failed_real"]
  /\ UNCHANGED <<sweepVars, requeued>>

AttachStockout ==
  /\ AttachReturns("stockout")
  /\ recordStockout(resumed, last[resumed].zone)
  /\ requeued' = IF status'[resumed] = "queued" THEN requeued \cup {resumed} ELSE requeued

AttachOther ==
  /\ \E c \in CappedClasses : AttachReturns(c)
  /\ Requeue(resumed)
  /\ UNCHANGED sweepVars

\* cmdResume saves before it schedules; a failed save ends the command
ResumeSave ==
  /\ pc = "resume"
  /\ rcursor > Len(Order)
  /\ \/ /\ disk' = RunState
        /\ pc' = "top"
        /\ rcursor' = 1
        /\ requeued' = {}
        /\ plan' = [requeue |-> {}, attach |-> {}]
        /\ UNCHANGED <<status, last, hits, sweepVars, quotaVars, usageVars, zoneRR, inflight,
                       cursor, drained, exitCode, envVars, dockerVars, onlyFailed, boundVars>>
     \/ /\ SaveMayFail
        /\ exitCode' = 2
        /\ UNCHANGED crashes
        /\ Gone

ResumeStep ==
  \/ ResumeKeep
  \/ ResumeFailedReal
  \/ ResumeFailedInfra
  \/ ResumeOrphan
  \/ ResumeAttach
  \/ AttachVerdict
  \/ AttachStockout
  \/ AttachOther
  \/ ResumeSave

Stopped == pc = "down" /\ UNCHANGED allVars

RNext ==
  \/ RAdmitStep
  \/ \E j \in Jobs, z \in Zones : RLaunch(j, z)
  \/ RLoopStep
  \/ \E j \in Jobs : RComplete(j)
  \/ \E j \in Jobs : DockerRun(j) \/ StrayRun(j) \/ ContainerExit(j)
  \/ RTick
  \/ RInterrupt
  \/ Crash
  \/ Leave
  \/ StartResume
  \/ ResumeStep
  \/ Stopped

RSpec == RInit /\ [][RNext]_allVars

\* As in Scheduler; docker run answers, and the test manager ends by its own -timeout
RFairness ==
  /\ WF_allVars(RAdmitStep \/ \E j \in Jobs, z \in Zones : RLaunch(j, z))
  /\ WF_allVars(RLoopStep)
  /\ WF_allVars(RTick)
  /\ WF_allVars(ResumeStep)
  /\ \A j \in Jobs :
       /\ SF_allVars(RComplete(j))
       /\ WF_allVars(DockerRun(j))
       /\ WF_allVars(ContainerExit(j))

RFairSpec == RSpec /\ RFairness

-----------------------------------------------------------------------------
(* Properties *)

\* Types of what this module adds; disk is the saved RunState
ResumeTypeOK ==
  /\ containers \subseteq Jobs
  /\ owned \subseteq inflight \cap containers
  /\ rcursor \in 1..(Len(Order) + 1)
  /\ requeued \subseteq Jobs
  /\ starting \subseteq inflight
  /\ stray \subseteq Jobs
  /\ pc \in {"top", "admit", "check", "select", "done", "down", "resume", "attach"}
  /\ disk.status \in [Jobs -> Statuses]
  /\ disk.stockoutZones \in [Jobs -> SUBSET Zones]

\* While saves and docker ps work, state.json calls every job "running" whose container
\* is alive, whenever the process is lost: no container is ever forgotten, and no job
\* is started twice (launch saves before the goroutine starts; prepareResume)
NoForgottenContainer ==
  /\ ResumeTypeOK
  /\ \A j \in containers : disk.status[j] = "running"
  /\ pc \in {"top", "admit", "check", "select", "done"} => containers \subseteq inflight

\* What is really in the cloud stays within the configured budgets across crashes: the
\* CPUs of all live containers, survivors of a lost process included
NoOvercommit ==
  /\ Cardinality(containers) <= ContainerCap
  /\ \A r \in Regions, k \in Keys :
       LET here == {j \in containers : zoneRegion[disk.last[j].zone] = r
                                         /\ k \in budgetKeys(j, r)}
       IN  Total(CPUCost, here) <= usable(r, k)

\* A saved verdict outlives every crash and resume: passed for ever, failed_real until
\* the operator asks for rerun-failed (docs/citrun.md "resume never requeues failed_real")
VerdictsSurvive ==
  [][\A j \in Jobs :
       /\ disk.status[j] = "passed" => disk'.status[j] = "passed"
       /\ disk.status[j] = "failed_real" =>
            disk'.status[j] = "failed_real" \/ onlyFailed]_allVars

\* "The failed zones, completed sweep count, and cooldown survive interruption.
\* Explicitly resuming a failed_infra job starts fresh sweeps and preserves its attempt
\* history" (docs/citrun.md:216): state.json drops a zone only when a sweep has ended and
\* its cooldown is over, never a sweep, and lets a cooldown run out but not fall away, over
\* any number of crashes and resumes (prepareResume, LoadState, recordStockout)
SweepsSurvive ==
  [][\A j \in Jobs :
       IF disk.status[j] = "failed_infra" /\ disk'.status[j] = "queued"
       THEN /\ disk'.stockoutZones[j] = {}
            /\ disk'.stockoutRounds[j] = 0
            /\ disk'.stockoutCd[j] = NoTimer
            /\ disk'.hits[j] = disk.hits[j]
       ELSE /\ disk'.stockoutRounds[j] >= disk.stockoutRounds[j]
            /\ \/ disk.stockoutZones[j] \subseteq disk'.stockoutZones[j]
               \/ disk.stockoutCd[j] = 0
               \/ disk'.stockoutRounds[j] > disk.stockoutRounds[j]
            /\ disk.stockoutCd[j] > 0 =>
                 disk'.stockoutCd[j] \in {disk.stockoutCd[j], disk.stockoutCd[j] - 1}]_allVars

\* prepareResume does what a dry run announced (dryRunResumePlan "mirrors prepareResume's
\* requeue rules"): a job on neither list keeps its status, and one on a list is requeued,
\* unless its container was found and gave a verdict; on the requeue list that takes a
\* docker ps that failed for the dry run, or a container docker created after it
PlanMatches ==
  pc = "resume" /\ rcursor > Len(Order) =>
    \A j \in Jobs :
      IF j \in plan.requeue \cup plan.attach
      THEN \/ j \in requeued
           \/ /\ j \in plan.requeue => PsMayFail \/ SlowStart
              /\ disk.status[j] = "running"
              /\ status[j] \in {"passed", "failed_real", "failed_infra"}
      ELSE j \notin requeued /\ status[j] = disk.status[j]

\* A resume does not hang: with containers that end, it comes to a running scheduler
\* that returns, or to a process that is gone
ResumeEnds == pc = "resume" ~> pc \in {"done", "down"}

=============================================================================
