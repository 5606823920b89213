---------------------------- MODULE ManagerProofs ----------------------------
(***************************************************************************)
(* The project locks and the cleanup of RunTests, for every list of        *)
(* workflows, every number of workers, zones and projects; and the test    *)
(* manager, which runs RunTests as it is: every behaviour of main is one   *)
(* of the runner, so that what is shown of the runner holds in it.  The    *)
(* workflows it makes are the ones asked for, spread over the zones, and   *)
(* its exit status tells what happened, for every set of command lines.    *)
(***************************************************************************)
EXTENDS Manager, SequenceFacts

\* A worker with a test that has a project
Holding(w) == wpc[w] \in {"start", "run", "failed", "retry", "results", "end", "clean", "send",
                          "unlock"}

Busy(w) == wpc[w] = "project" \/ Holding(w)

\* The shape of the state, as far as the argument needs it
Shaped ==
  /\ taken \in 0..Len(testWorkflows)
  /\ exclusive \in Seq(testProjects)
  /\ wpc = [w \in Workers |-> wpc[w]]
  /\ work \in [Workers -> Tests \cup {NoTest}]
  /\ project = [t \in Tests |-> project[t]]
  /\ zoneIdx \in [Tests -> Nat]
  /\ vms \cup other \subseteq Tests \X Nat

\* A workflow is received once, and so no two workers have the same one
OneWorker ==
  /\ \A w \in Workers : Busy(w) => \E i \in 1..taken : work[w] = testWorkflows[i]
  /\ \A w, v \in Workers : Busy(w) /\ Busy(v) /\ work[w] = work[v] => w = v

\* A project is in exclusiveProjects at most once ...
FreeOnce ==
  \A i, k \in 1..Len(exclusive) : exclusive[i] = exclusive[k] => i = k

\* ... and in the channel or with one of the locked tests
HeldOnce ==
  \A w \in Workers :
    Holding(w) /\ work[w] \in Locked =>
      /\ project[work[w]] \in testProjects
      /\ \A i \in 1..Len(exclusive) : exclusive[i] # project[work[w]]
      /\ \A v \in Workers :
           Holding(v) /\ work[v] \in Locked /\ v # w => project[work[v]] # project[work[w]]

\* Only a worker whose test locks gives a project back
UnlockLocked == \A w \in Workers : wpc[w] = "unlock" => work[w] \in Locked

LockInv == Shaped /\ OneWorker /\ FreeOnce /\ HeldOnce /\ UnlockLocked

RunnerInv == LockInv /\ NothingLeft

-----------------------------------------------------------------------------

\* The random order of the projects is a permutation: none is in the channel twice
LEMMA InitInv == Init => RunnerInv
<1> SUFFICES ASSUME Init PROVE RunnerInv
  OBVIOUS
<1> DEFINE n == Cardinality(testProjects)
<1>1. n \in Nat
  BY FS_CardinalityType, RunnerAssumption
<1>2. /\ exclusive \in [1..n -> testProjects]
      /\ \A i, k \in 1..n : i # k /\ (i - 1) \div n = (k - 1) \div n => exclusive[i] # exclusive[k]
  BY DEF Init, BlocksOfProjects
<1>3. \A i \in 1..n : (i - 1) \div n = 0
  BY <1>1
<1>4. Len(exclusive) = n /\ exclusive \in Seq(testProjects)
  BY <1>1, <1>2
<1>5. FreeOnce
  BY <1>1, <1>2, <1>3, <1>4 DEF FreeOnce
<1>6. Shaped
  BY <1>4, RunnerAssumption DEF Init, Shaped
<1>7. \A w \in Workers : ~Busy(w) /\ ~Holding(w)
  BY DEF Init, Busy, Holding
<1> QED
  BY <1>5, <1>6, <1>7 DEF RunnerInv, LockInv, OneWorker, HeldOnce, UnlockLocked, NothingLeft, Init

-----------------------------------------------------------------------------
(* The lock *)

\* The test of a busy worker is one of the workflows
LEMMA BusyTest ==
  ASSUME LockInv, NEW w \in Workers, Busy(w)
  PROVE  work[w] \in Tests
BY DEF LockInv, OneWorker, Shaped, Tests

\* A step within runTestWorkflow does not touch channels and projects
LEMMA MoveKeepsLock ==
  ASSUME LockInv, NEW w \in Workers, Holding(w), NEW pc, Goto(w, pc),
         \/ pc \in {"start", "run", "failed", "retry", "results", "end", "clean", "send",
                    "unlock"}
         \/ pc = "recv",
         pc = "unlock" => work[w] \in Locked,
         UNCHANGED <<taken, exclusive, work, project>>,
         zoneIdx' \in [Tests -> Nat],
         (vms \cup other)' \subseteq Tests \X Nat
  PROVE  LockInv'
<1>1. Shaped'
  BY DEF LockInv, Shaped, Goto
<1>2. \A v \in Workers : (Busy(v)' => Busy(v)) /\ (Holding(v)' => Holding(v))
  BY DEF LockInv, Shaped, Goto, Busy, Holding
<1>3. OneWorker'
  BY <1>2 DEF LockInv, OneWorker
<1>4. FreeOnce'
  BY DEF LockInv, FreeOnce
<1>5. HeldOnce'
  BY <1>2 DEF LockInv, HeldOnce
<1>6. UnlockLocked'
  BY DEF LockInv, Shaped, UnlockLocked, Goto
<1> QED
  BY <1>1, <1>3, <1>4, <1>5, <1>6 DEF LockInv

\* testchan gives out every workflow once
LEMMA ReceiveKeepsLock ==
  ASSUME LockInv, NEW w \in Workers, Receive(w)
  PROVE  LockInv'
<1>1. CASE taken < Len(testWorkflows)
  <2>1. /\ taken' = taken + 1
        /\ work' = [work EXCEPT ![w] = testWorkflows[taken + 1]]
        /\ wpc' = [wpc EXCEPT ![w] = "project"]
        /\ UNCHANGED <<exclusive, project, zoneIdx, vms, other>>
    BY <1>1 DEF Receive, Goto, cloudVars
  <2>2. taken + 1 \in 1..Len(testWorkflows) /\ testWorkflows[taken + 1] \in Tests
    BY <1>1, RunnerAssumption DEF LockInv, Shaped, Tests
  <2>3. Shaped'
    <3>1. taken' \in 0..Len(testWorkflows)
      BY <2>1, <2>2 DEF LockInv, Shaped
    <3>2. work' \in [Workers -> Tests \cup {NoTest}]
      BY <2>1, <2>2 DEF LockInv, Shaped
    <3>3. wpc' = [v \in Workers |-> wpc'[v]]
      BY <2>1 DEF LockInv, Shaped
    <3> QED
      BY <2>1, <3>1, <3>2, <3>3 DEF LockInv, Shaped
  <2>4. \A v \in Workers : v # w => /\ work'[v] = work[v]
                                    /\ Busy(v)' <=> Busy(v)
                                    /\ Holding(v)' <=> Holding(v)
    BY <2>1 DEF LockInv, Shaped, Busy, Holding
  <2>5. work'[w] = testWorkflows[taken + 1] /\ ~Holding(w)'
    BY <2>1 DEF LockInv, Shaped, Holding
  <2>6. \A v \in Workers : v # w /\ Busy(v) => work[v] # testWorkflows[taken + 1]
    <3> SUFFICES ASSUME NEW v \in Workers, Busy(v), work[v] = testWorkflows[taken + 1]
                 PROVE  FALSE
      OBVIOUS
    <3>1. PICK i \in 1..taken : work[v] = testWorkflows[i]
      BY DEF LockInv, OneWorker
    <3>2. taken \in Nat /\ i \in 1..Len(testWorkflows) /\ i # taken + 1
      BY <2>2 DEF LockInv, Shaped
    <3>3. testWorkflows[i] = testWorkflows[taken + 1]
      BY <3>1
    <3> QED
      BY <2>2, <3>2, <3>3, RunnerAssumption
  <2>7. OneWorker'
    <3>1. \A v \in Workers : Busy(v)' => \E i \in 1..taken' : work'[v] = testWorkflows[i]
      <4> TAKE v \in Workers
      <4>1. CASE v = w
        BY <2>1, <2>2, <2>5, <4>1
      <4>2. CASE v # w
        BY <2>1, <2>4, <4>2 DEF LockInv, OneWorker, Shaped
      <4> QED
        BY <4>1, <4>2
    <3>2. \A u, v \in Workers : Busy(u)' /\ Busy(v)' /\ work'[u] = work'[v] => u = v
      BY <2>4, <2>5, <2>6 DEF LockInv, OneWorker
    <3> QED
      BY <3>1, <3>2 DEF OneWorker
  <2>8. FreeOnce'
    BY <2>1 DEF LockInv, FreeOnce
  <2>9. HeldOnce'
    BY <2>1, <2>4, <2>5 DEF LockInv, HeldOnce
  <2>10. UnlockLocked'
    BY <2>1, <2>4 DEF LockInv, Shaped, UnlockLocked
  <2> QED
    BY <2>3, <2>7, <2>8, <2>9, <2>10 DEF LockInv
<1>2. CASE ~(taken < Len(testWorkflows))
  <2>1. /\ wpc' = [wpc EXCEPT ![w] = "exited"]
        /\ UNCHANGED <<taken, work, exclusive, project, zoneIdx, vms, other>>
    BY <1>2 DEF Receive, Goto, cloudVars
  <2>2. Shaped'
    BY <2>1 DEF LockInv, Shaped
  <2>3. \A v \in Workers : (Busy(v)' => Busy(v)) /\ (Holding(v)' => Holding(v))
    BY <2>1 DEF LockInv, Shaped, Busy, Holding
  <2>4. UnlockLocked'
    BY <2>1 DEF LockInv, Shaped, UnlockLocked
  <2> QED
    BY <2>1, <2>2, <2>3, <2>4 DEF LockInv, OneWorker, FreeOnce, HeldOnce
<1> QED
  BY <1>1, <1>2

\* A project that a worker receives is no longer in the channel, and nobody else has it
LEMMA GetProjectKeepsLock ==
  ASSUME LockInv, NEW w \in Workers, GetProject(w)
  PROVE  LockInv'
<1>1. /\ wpc' = [wpc EXCEPT ![w] = "start"]
      /\ wpc[w] = "project"
      /\ UNCHANGED <<taken, work, zoneIdx, vms, other>>
  BY DEF GetProject, Goto, cloudVars
<1>2. work[w] \in Tests
  BY <1>1, BusyTest DEF Busy
<1>3. \A v \in Workers : /\ Busy(v)' <=> Busy(v)
                         /\ v # w => (Holding(v)' <=> Holding(v))
  BY <1>1 DEF LockInv, Shaped, Busy, Holding
<1>4. OneWorker'
  BY <1>1, <1>3 DEF LockInv, OneWorker
<1>0. UnlockLocked'
  BY <1>1 DEF LockInv, Shaped, UnlockLocked
<1>5. \A v \in Workers : v # w /\ Holding(v) => work[v] # work[w]
  BY <1>1 DEF LockInv, OneWorker, Busy
<1>6. CASE work[w] \in Locked
  <2>1. /\ exclusive # <<>>
        /\ project' = [project EXCEPT ![work[w]] = Head(exclusive)]
        /\ exclusive' = Tail(exclusive)
    BY <1>6 DEF GetProject
  <2>2. /\ exclusive \in Seq(testProjects)
        /\ exclusive' \in Seq(testProjects)
        /\ Len(exclusive) \in Nat /\ 1 \in 1..Len(exclusive)
        /\ Len(exclusive') = Len(exclusive) - 1
        /\ \A i \in 1..Len(exclusive') : exclusive'[i] = exclusive[i + 1]
                                         /\ i + 1 \in 1..Len(exclusive)
        /\ Head(exclusive) = exclusive[1]
        /\ exclusive[1] \in testProjects
    BY <2>1 DEF LockInv, Shaped
  <2>3. Shaped'
    BY <1>1, <2>1, <2>2 DEF LockInv, Shaped
  <2>4. FreeOnce'
    <3> SUFFICES ASSUME NEW i \in 1..Len(exclusive'), NEW k \in 1..Len(exclusive'),
                        exclusive'[i] = exclusive'[k]
                 PROVE  i = k
      BY DEF FreeOnce
    <3>1. i + 1 = k + 1
      BY <2>2 DEF LockInv, FreeOnce
    <3> QED
      BY <2>2, <3>1
  <2>5. /\ project'[work[w]] = exclusive[1]
        /\ \A v \in Workers : v # w /\ Holding(v) => project'[work[v]] = project[work[v]]
    BY <1>2, <1>5, <2>1, <2>2, BusyTest DEF LockInv, Shaped, Busy
  <2>6. \A i \in 1..Len(exclusive') : exclusive'[i] # exclusive[1]
    <3> TAKE i \in 1..Len(exclusive')
    <3>1. i + 1 # 1
      BY <2>2
    <3> QED
      BY <2>2, <3>1 DEF LockInv, FreeOnce
  <2>7. HeldOnce'
    <3> SUFFICES ASSUME NEW v \in Workers, Holding(v)', work'[v] \in Locked
                 PROVE  /\ project'[work'[v]] \in testProjects
                        /\ \A i \in 1..Len(exclusive') : exclusive'[i] # project'[work'[v]]
                        /\ \A u \in Workers :
                             Holding(u)' /\ work'[u] \in Locked /\ u # v =>
                               project'[work'[u]] # project'[work'[v]]
      BY DEF HeldOnce
    <3>1. CASE v = w
      <4>1. \A u \in Workers : Holding(u)' /\ work[u] \in Locked /\ u # w =>
                                project'[work[u]] # exclusive[1]
        BY <1>3, <2>2, <2>5 DEF LockInv, HeldOnce
      <4> QED
        BY <1>1, <2>2, <2>5, <2>6, <3>1, <4>1
    <3>2. CASE v # w
      <4>1. /\ Holding(v) /\ work[v] \in Locked
            /\ project'[work[v]] = project[work[v]]
        BY <1>1, <1>3, <2>5, <3>2
      <4>2. /\ project[work[v]] \in testProjects
            /\ \A i \in 1..Len(exclusive) : exclusive[i] # project[work[v]]
            /\ \A u \in Workers : Holding(u) /\ work[u] \in Locked /\ u # v =>
                                     project[work[u]] # project[work[v]]
        BY <4>1 DEF LockInv, HeldOnce
      <4>3. \A i \in 1..Len(exclusive') : exclusive'[i] # project[work[v]]
        BY <2>2, <4>2
      <4>4. \A u \in Workers : Holding(u)' /\ work[u] \in Locked /\ u # v =>
                               project'[work[u]] # project[work[v]]
        <5> TAKE u \in Workers
        <5>1. CASE u = w
          BY <2>2, <2>5, <4>2, <5>1
        <5>2. CASE u # w
          BY <1>3, <2>5, <4>2, <5>2
        <5> QED
          BY <5>1, <5>2
      <4> QED
        BY <1>1, <4>1, <4>2, <4>3, <4>4
    <3> QED
      BY <3>1, <3>2
  <2> QED
    BY <1>0, <1>4, <2>3, <2>4, <2>7 DEF LockInv
<1>7. CASE work[w] \notin Locked
  <2>1. /\ project' = [project EXCEPT ![work[w]] = Head(shared)]
        /\ exclusive' = exclusive
    BY <1>7 DEF GetProject
  <2>2. Shaped'
    BY <1>1, <2>1 DEF LockInv, Shaped
  <2>3. FreeOnce'
    BY <2>1 DEF LockInv, FreeOnce
  <2>4. \A v \in Workers : v # w /\ Holding(v) => project'[work[v]] = project[work[v]]
    BY <1>5, <2>1, BusyTest DEF LockInv, Shaped, Busy
  <2>5. HeldOnce'
    BY <1>1, <1>3, <1>7, <2>1, <2>4 DEF LockInv, HeldOnce
  <2> QED
    BY <1>0, <1>4, <2>2, <2>3, <2>5 DEF LockInv
<1> QED
  BY <1>6, <1>7

\* A project that is given back was with this worker, and now is with nobody
LEMMA UnlockKeepsLock ==
  ASSUME LockInv, NEW w \in Workers, Unlock(w)
  PROVE  LockInv'
<1> DEFINE p == project[work[w]]
<1>1. /\ wpc[w] = "unlock" /\ wpc' = [wpc EXCEPT ![w] = "recv"]
      /\ exclusive' = Append(exclusive, p)
      /\ UNCHANGED <<taken, work, project, zoneIdx, vms, other>>
  BY DEF Unlock, Goto, cloudVars
<1>2. Holding(w) /\ work[w] \in Locked
  BY <1>1 DEF Holding, LockInv, UnlockLocked
<1>3. /\ p \in testProjects
      /\ \A i \in 1..Len(exclusive) : exclusive[i] # p
      /\ \A v \in Workers : Holding(v) /\ work[v] \in Locked /\ v # w => project[work[v]] # p
  BY <1>2 DEF LockInv, HeldOnce
<1>4. \A v \in Workers : /\ Busy(v)' => Busy(v)
                         /\ Holding(v)' => Holding(v) /\ v # w
  BY <1>1 DEF LockInv, Shaped, Busy, Holding
<1> HIDE DEF p
<1>5. /\ exclusive \in Seq(testProjects) /\ Len(exclusive) \in Nat
      /\ exclusive' \in Seq(testProjects)
      /\ Len(exclusive') = Len(exclusive) + 1
      /\ \A i \in 1..Len(exclusive) : exclusive'[i] = exclusive[i]
      /\ exclusive'[Len(exclusive) + 1] = p
  BY <1>1, <1>3 DEF LockInv, Shaped
<1>6. \A i \in 1..Len(exclusive') : i \in 1..Len(exclusive) \/ i = Len(exclusive) + 1
  BY <1>5
<1>7. Shaped'
  BY <1>1, <1>5 DEF LockInv, Shaped
<1>8. OneWorker'
  BY <1>1, <1>4 DEF LockInv, OneWorker
<1>9. FreeOnce'
  <2> SUFFICES ASSUME NEW i \in 1..Len(exclusive'), NEW k \in 1..Len(exclusive'),
                      exclusive'[i] = exclusive'[k]
               PROVE  i = k
    BY DEF FreeOnce
  <2> QED
    BY <1>3, <1>5, <1>6 DEF LockInv, FreeOnce
<1>10. HeldOnce'
  <2> SUFFICES ASSUME NEW v \in Workers, Holding(v)', work[v] \in Locked
               PROVE  /\ project[work[v]] \in testProjects
                      /\ \A i \in 1..Len(exclusive') : exclusive'[i] # project[work[v]]
                      /\ \A u \in Workers : Holding(u)' /\ work[u] \in Locked /\ u # v =>
                                               project[work[u]] # project[work[v]]
    BY <1>1 DEF HeldOnce
  <2>1. Holding(v) /\ v # w
    BY <1>4
  <2>2. /\ project[work[v]] \in testProjects
        /\ \A i \in 1..Len(exclusive) : exclusive[i] # project[work[v]]
        /\ \A u \in Workers : Holding(u) /\ work[u] \in Locked /\ u # v =>
                                 project[work[u]] # project[work[v]]
    BY <2>1 DEF LockInv, HeldOnce
  <2>3. \A i \in 1..Len(exclusive') : exclusive'[i] # project[work[v]]
    BY <1>3, <1>5, <1>6, <2>1, <2>2
  <2> QED
    BY <1>4, <2>2, <2>3
<1>11. UnlockLocked'
  BY <1>1 DEF LockInv, Shaped, UnlockLocked
<1> QED
  BY <1>7, <1>8, <1>9, <1>10, <1>11 DEF LockInv

-----------------------------------------------------------------------------
(* The cleanup *)

\* Where a worker is while its test's current run may have resources
InRun(w) == wpc[w] \in {"failed", "retry", "results", "end", "clean"}

\* Another worker's runs stay as they are
LEMMA OthersKept ==
  ASSUME RunnerInv, NEW w \in Workers, ~InRun(w) \/ Busy(w), NEW pc, Goto(w, pc),
         \A v \in Workers : v # w => work'[v] = work[v],
         \A t \in Tests : (Busy(w) /\ t = work[w]) \/ zoneIdx'[t] = zoneIdx[t],
         NEW r \in vms \cup other,
         ~Busy(w) \/ r[1] # work[w]
  PROVE  /\ r[2] = zoneIdx'[r[1]]
         /\ \E v \in Workers : work'[v] = r[1] /\ InRun(v)'
<1>1. r[2] = zoneIdx[r[1]] /\ r[1] \in Tests
  BY DEF RunnerInv, NothingLeft, LockInv, Shaped
<1>2. PICK v \in Workers : work[v] = r[1] /\ InRun(v)
  BY DEF RunnerInv, NothingLeft, InRun
<1>3. v # w
  BY <1>2
<1>4. wpc'[v] = wpc[v]
  BY <1>3 DEF Goto, RunnerInv, LockInv, Shaped
<1> QED
  BY <1>1, <1>2, <1>3, <1>4 DEF InRun

\* The runs of the worker's own test: there is at most the current one
LEMMA OwnRun ==
  ASSUME RunnerInv, NEW w \in Workers, Busy(w), NEW r \in vms \cup other, r[1] = work[w]
  PROVE  r = Run(w) /\ InRun(w)
<1>1. PICK v \in Workers : work[v] = r[1] /\ InRun(v)
  BY DEF RunnerInv, NothingLeft, InRun
<1>2. Busy(v)
  BY <1>1 DEF InRun, Busy, Holding
<1>3. v = w
  BY <1>1, <1>2 DEF RunnerInv, LockInv, OneWorker
<1>4. r[2] = zoneIdx[r[1]]
  BY DEF RunnerInv, NothingLeft
<1>5. r = <<r[1], r[2]>>
  BY DEF RunnerInv, LockInv, Shaped
<1> QED
  BY <1>1, <1>3, <1>4, <1>5 DEF Run

\* A step of a busy worker leaves nothing behind if what its own test has afterwards
\* belongs to the current run
LEMMA StepLeavesNothing ==
  ASSUME RunnerInv, NEW w \in Workers, Busy(w), NEW pc, Goto(w, pc), work' = work,
         \A t \in Tests : t = work[w] \/ zoneIdx'[t] = zoneIdx[t],
         \A r \in (vms \cup other)' : r \in vms \cup other \/ r = Run(w),
         \A r \in (vms \cup other)' :
           r[1] = work[w] => /\ r[2] = zoneIdx'[work[w]]
                             /\ pc \in {"failed", "retry", "results", "end", "clean"}
  PROVE  NothingLeft'
<1> SUFFICES ASSUME NEW r \in (vms \cup other)'
             PROVE  /\ r[2] = zoneIdx'[r[1]]
                    /\ \E v \in Workers : work'[v] = r[1] /\ InRun(v)'
  BY DEF NothingLeft, InRun
<1>1. CASE r[1] = work[w]
  <2>1. wpc'[w] = pc
    BY DEF Goto, RunnerInv, LockInv, Shaped
  <2> QED
    BY <1>1, <2>1 DEF InRun
<1>2. CASE r[1] # work[w]
  <2>1. r \in vms \cup other
    BY <1>2 DEF Run
  <2> QED
    BY <1>2, <2>1, OthersKept
<1> QED
  BY <1>1, <1>2

\* Steps of runTestWorkflow, one by one
LEMMA WorkerStepInv ==
  ASSUME RunnerInv, NEW w \in Workers, WorkerStep(w)
  PROVE  RunnerInv'
<1> USE DEF mainVars, cloudVars
<1>0. LockInv /\ zoneIdx \in [Tests -> Nat] /\ vms \cup other \subseteq Tests \X Nat
  BY DEF RunnerInv, LockInv, Shaped
<1>1. CASE Receive(w)
  <2>1. LockInv'
    BY <1>0, <1>1, ReceiveKeepsLock
  <2>2. ~Busy(w) /\ ~InRun(w)
    BY <1>1 DEF Receive, Busy, Holding, InRun
  <2>3. /\ UNCHANGED <<vms, other, zoneIdx>>
        /\ Goto(w, "project") \/ Goto(w, "exited")
    BY <1>1 DEF Receive
  <2>4. \A v \in Workers : v # w => work'[v] = work[v]
    BY <1>1 DEF Receive, RunnerInv, LockInv, Shaped
  <2>5. NothingLeft'
    <3> SUFFICES ASSUME NEW r \in vms \cup other
                 PROVE  /\ r[2] = zoneIdx'[r[1]]
                        /\ \E v \in Workers : work'[v] = r[1] /\ InRun(v)'
      BY <2>3 DEF NothingLeft, InRun
    <3> QED
      BY <2>2, <2>3, <2>4, OthersKept
  <2> QED
    BY <2>1, <2>5 DEF RunnerInv
<1>2. CASE GetProject(w)
  <2>1. LockInv'
    BY <1>0, <1>2, GetProjectKeepsLock
  <2>2. /\ Busy(w) /\ ~InRun(w)
        /\ Goto(w, "start") /\ UNCHANGED <<work, zoneIdx, vms, other>>
    BY <1>2 DEF GetProject, Busy, Holding, InRun
  <2>3. NothingLeft'
    BY <2>2, StepLeavesNothing, OwnRun
  <2> QED
    BY <2>1, <2>3 DEF RunnerInv
<1>3. CASE Start(w)
  <2>1. /\ Busy(w) /\ Holding(w) /\ ~InRun(w)
        /\ Goto(w, "send") \/ Goto(w, "run")
        /\ UNCHANGED <<taken, exclusive, project, work, zoneIdx, vms, other>>
    BY <1>3 DEF Start, Busy, Holding, InRun
  <2>2. LockInv'
    BY <1>0, <2>1, MoveKeepsLock
  <2>3. NothingLeft'
    BY <2>1, StepLeavesNothing, OwnRun
  <2> QED
    BY <2>2, <2>3 DEF RunnerInv
<1>4. CASE RunWorkflow(w)
  <2>1. /\ Busy(w) /\ Holding(w) /\ ~InRun(w)
        /\ Goto(w, "results") \/ Goto(w, "failed")
        /\ UNCHANGED <<taken, exclusive, project, work, zoneIdx>>
        /\ \A r \in (vms \cup other)' : r \in vms \cup other \/ r = Run(w)
    BY <1>4 DEF RunWorkflow, Busy, Holding, InRun
  <2>2. work[w] \in Tests
    BY <1>0, <2>1, BusyTest
  <2>3. (vms \cup other)' \subseteq Tests \X Nat
    BY <1>0, <2>1, <2>2 DEF Run
  <2>4. LockInv'
    BY <1>0, <2>1, <2>3, MoveKeepsLock
  <2>5. \A r \in (vms \cup other)' : r[1] = work[w] => r[2] = zoneIdx'[work[w]]
    BY <2>1, OwnRun DEF Run
  <2>6. NothingLeft'
    BY <2>1, <2>5, StepLeavesNothing
  <2> QED
    BY <2>4, <2>6 DEF RunnerInv
<1>5. CASE DumpFailed(w) \/ Results(w) \/ DumpLast(w)
  <2>1. /\ Busy(w) /\ Holding(w)
        /\ Goto(w, "retry") \/ Goto(w, "end") \/ Goto(w, "clean")
        /\ UNCHANGED <<taken, exclusive, project, work, zoneIdx>>
        /\ (vms \cup other)' \subseteq vms \cup other
    BY <1>5 DEF DumpFailed, Results, DumpLast, dumpSerialLogs, Busy, Holding
  <2>2. LockInv'
    BY <1>0, <2>1, MoveKeepsLock
  <2>3. \A r \in (vms \cup other)' : r[1] = work[w] => r[2] = zoneIdx'[work[w]]
    BY <2>1, OwnRun DEF Run
  <2>4. NothingLeft'
    BY <2>1, <2>3, StepLeavesNothing
  <2> QED
    BY <2>2, <2>4 DEF RunnerInv
<1>6. CASE Retry(w) \/ Cleanup(w)
  <2>1. /\ Busy(w) /\ Holding(w)
        /\ Goto(w, "run") \/ Goto(w, "end") \/ Goto(w, "send")
        /\ UNCHANGED <<taken, exclusive, project, work>>
        /\ \/ zoneIdx' = zoneIdx
           \/ zoneIdx' = [zoneIdx EXCEPT ![work[w]] = zoneIdx[work[w]] + 1]
        /\ (vms \cup other)' \subseteq (vms \cup other) \ {Run(w)}
    BY <1>6 DEF Retry, Cleanup, cleanTestWorkflow, Busy, Holding
  <2>2. zoneIdx' \in [Tests -> Nat] /\ \A t \in Tests : t = work[w] \/ zoneIdx'[t] = zoneIdx[t]
    BY <1>0, <2>1
  <2>3. LockInv'
    BY <1>0, <2>1, <2>2, MoveKeepsLock
  <2>4. \A r \in (vms \cup other)' : r[1] # work[w]
    BY <2>1, OwnRun
  <2>5. NothingLeft'
    BY <2>1, <2>2, <2>4, StepLeavesNothing
  <2> QED
    BY <2>3, <2>5 DEF RunnerInv
<1>7. CASE Send(w)
  <2>1. /\ Busy(w) /\ Holding(w) /\ ~InRun(w)
        /\ \/ Goto(w, "unlock") /\ work[w] \in Locked
           \/ Goto(w, "recv")
        /\ UNCHANGED <<taken, exclusive, project, work, zoneIdx, vms, other>>
    BY <1>7 DEF Send, Busy, Holding, InRun
  <2>2. LockInv'
    BY <1>0, <2>1, MoveKeepsLock
  <2>3. NothingLeft'
    BY <2>1, StepLeavesNothing, OwnRun
  <2> QED
    BY <2>2, <2>3 DEF RunnerInv
<1>8. CASE Unlock(w)
  <2>1. LockInv'
    BY <1>0, <1>8, UnlockKeepsLock
  <2>2. /\ Busy(w) /\ ~InRun(w)
        /\ Goto(w, "recv") /\ UNCHANGED <<work, zoneIdx, vms, other>>
    BY <1>8 DEF Unlock, Busy, Holding, InRun
  <2>3. NothingLeft'
    BY <2>2, StepLeavesNothing, OwnRun
  <2> QED
    BY <2>1, <2>3 DEF RunnerInv
<1> QED
  BY <1>1, <1>2, <1>3, <1>4, <1>5, <1>6, <1>7, <1>8 DEF WorkerStep

\* RunnerInv speaks of nothing that RunTests' own steps change
LEMMA StutterInv ==
  ASSUME RunnerInv,
         UNCHANGED <<taken, exclusive, wpc, work, project, zoneIdx, vms, other>>
  PROVE  RunnerInv'
<1>1. \A w \in Workers : (Busy(w)' <=> Busy(w)) /\ (Holding(w)' <=> Holding(w))
  BY DEF Busy, Holding
<1>2. Shaped' /\ FreeOnce' /\ UnlockLocked'
  BY DEF RunnerInv, LockInv, Shaped, FreeOnce, UnlockLocked
<1>3. OneWorker'
  BY <1>1 DEF RunnerInv, LockInv, OneWorker
<1>4. HeldOnce'
  BY <1>1 DEF RunnerInv, LockInv, HeldOnce
<1>5. NothingLeft'
  BY DEF RunnerInv, NothingLeft
<1> QED
  BY <1>2, <1>3, <1>4, <1>5 DEF RunnerInv, LockInv

\* The inductive invariant of the runner: locks, workers and resources fit together
THEOREM RunnerInvariant == Spec => []RunnerInv
<1>1. RunnerInv /\ [Next]_vars => RunnerInv'
  <2> SUFFICES ASSUME RunnerInv, [Next]_vars PROVE RunnerInv'
    OBVIOUS
  <2>1. CASE Feed \/ Collect \/ Returned \/ UNCHANGED vars
    BY <2>1, StutterInv DEF Feed, Collect, Returned, vars, cloudVars
  <2>2. CASE \E w \in Workers : WorkerStep(w)
    BY <2>2, WorkerStepInv
  <2> QED
    BY <2>1, <2>2 DEF Next
<1> QED
  BY <1>1, InitInv, PTL DEF Spec

\* Locked tests never meet in a project, with any number of workers and projects
THEOREM LocksHold == Spec => []LockedApart
<1>1. RunnerInv => LockedApart
  <2> SUFFICES ASSUME RunnerInv, NEW r \in vms \cup other, NEW s \in vms \cup other,
                      r[1] # s[1], r[1] \in Locked, s[1] \in Locked
               PROVE  project[r[1]] # project[s[1]]
    BY DEF LockedApart
  <2>1. PICK v \in Workers : work[v] = r[1] /\ InRun(v)
    BY DEF RunnerInv, NothingLeft, InRun
  <2>2. PICK u \in Workers : work[u] = s[1] /\ InRun(u)
    BY DEF RunnerInv, NothingLeft, InRun
  <2>3. Holding(v) /\ Holding(u)
    BY <2>1, <2>2 DEF InRun, Holding
  <2> QED
    BY <2>1, <2>2, <2>3 DEF RunnerInv, LockInv, HeldOnce
<1> QED
  BY <1>1, RunnerInvariant, PTL

\* Whatever fails, a test's result is sent only after a cleanup has looked for all that
\* its runs created, in every zone
THEOREM CleanupIsComplete == Spec => []NothingLeft
<1>1. RunnerInv => NothingLeft
  BY DEF RunnerInv
<1> QED
  BY <1>1, RunnerInvariant, PTL

-----------------------------------------------------------------------------
(* Serial output before deletion *)

\* Where a cleanup may come, the serial output of the current run was asked for
Captured == \A w \in Workers :
              wpc[w] \in {"retry", "clean"} => work[w] \in Beta \/ Run(w) \in serial

\* Another worker's run is not this worker's
LEMMA OtherRun ==
  ASSUME LockInv, NEW w \in Workers, NEW v \in Workers, Busy(w), Busy(v), v # w
  PROVE  Run(v) # Run(w) /\ work[v] # work[w]
BY DEF LockInv, OneWorker, Run

\* A capture is dropped only with the run it belongs to
LEMMA CapturedStep ==
  ASSUME RunnerInv, Captured, [Next]_vars
  PROVE  Captured'
<1> USE DEF mainVars, cloudVars
<1>1. CASE Feed \/ Collect \/ Returned \/ UNCHANGED vars
  BY <1>1 DEF Feed, Collect, Returned, vars, Captured, Run
<1>2. ASSUME NEW w \in Workers, WorkerStep(w) PROVE Captured'
  <2> SUFFICES ASSUME NEW v \in Workers, wpc'[v] \in {"retry", "clean"}
               PROVE  work'[v] \in Beta \/ Run(v)' \in serial'
    BY DEF Captured
  <2>1. LockInv /\ wpc = [u \in Workers |-> wpc[u]]
    BY DEF RunnerInv, LockInv, Shaped
  <2>2. PICK pc : Goto(w, pc)
    BY <1>2 DEF WorkerStep, Receive, GetProject, Start, RunWorkflow, DumpFailed, Retry, Results,
                DumpLast, Cleanup, Send, Unlock
  <2>3. CASE v = w
    <3>1. DumpFailed(w) \/ DumpLast(w)
      BY <1>2, <2>1, <2>3 DEF WorkerStep, Receive, GetProject, Start, RunWorkflow, Retry, Results,
                Cleanup, Send, Unlock, Goto
    <3>2. dumpSerialLogs(w) /\ UNCHANGED <<work, zoneIdx>>
      BY <3>1 DEF DumpFailed, DumpLast
    <3> QED
      BY <2>3, <3>2 DEF dumpSerialLogs, Run
  <2>4. CASE v # w
    <3>1. wpc'[v] = wpc[v] /\ Busy(v)
      BY <2>1, <2>2, <2>4 DEF Goto, Busy, Holding
    <3>2. work[v] \in Beta \/ Run(v) \in serial
      BY <3>1 DEF Captured
    <3>3. work[v] \in Tests
      BY <2>1, <3>1, BusyTest
    <3>4. CASE Receive(w)
      BY <2>1, <2>4, <3>2, <3>4 DEF Receive, Run, LockInv, Shaped
    <3>5. CASE ~Receive(w)
      <4>1. Busy(w) /\ work' = work
        BY <1>2, <3>5 DEF WorkerStep, GetProject, Start, RunWorkflow, DumpFailed, Retry, Results,
                          DumpLast, Cleanup, Send, Unlock, Busy, Holding
      <4>2. Run(v) # Run(w) /\ work[v] # work[w]
        BY <2>1, <2>4, <3>1, <4>1, OtherRun
      <4>3. serial \ {Run(w)} \subseteq serial'
        BY <1>2, <3>5 DEF WorkerStep, GetProject, Start, RunWorkflow, DumpFailed, Retry, Results,
                          DumpLast, Cleanup, Send, Unlock, dumpSerialLogs, cleanTestWorkflow
      <4>4. zoneIdx'[work[v]] = zoneIdx[work[v]]
        <5>1. \/ zoneIdx' = zoneIdx
              \/ zoneIdx' = [zoneIdx EXCEPT ![work[w]] = zoneIdx[work[w]] + 1]
          BY <1>2, <3>5 DEF WorkerStep, GetProject, Start, RunWorkflow, DumpFailed, Retry, Results,
                            DumpLast, Cleanup, Send, Unlock
        <5> QED
          BY <3>3, <4>2, <5>1 DEF RunnerInv, LockInv, Shaped
      <4> QED
        BY <3>2, <4>1, <4>2, <4>3, <4>4 DEF Run
    <3> QED
      BY <3>4, <3>5
  <2> QED
    BY <2>3, <2>4
<1> QED
  BY <1>1, <1>2 DEF Next

\* No VM of the v1 API is deleted by the runner, in whatever order tests fail, are retried
\* and are cleaned up, before its serial output was asked for (dumpSerialLogs,
\* cleanTestWorkflow)
THEOREM SerialComesFirst == Spec => SerialBeforeDelete
<1>1. Init => Captured
  BY DEF Init, Captured
<1>2. ASSUME Captured, [Next]_vars
      PROVE  [\A r \in vms \ vms' : r[1] \in Beta \/ r \in serial \cup serial']_vars
  <2> SUFFICES ASSUME NEW r \in vms \ vms'
               PROVE  r[1] \in Beta \/ r \in serial \cup serial'
    OBVIOUS
  <2>1. PICK w \in Workers : DumpFailed(w) \/ DumpLast(w) \/ Retry(w) \/ Cleanup(w)
    BY <1>2 DEF Next, Feed, Collect, Returned, vars, WorkerStep, Receive, GetProject, Start,
                RunWorkflow, Results, Send, Unlock, cloudVars
  <2>2. CASE DumpFailed(w) \/ DumpLast(w)
    BY <2>2 DEF DumpFailed, DumpLast, dumpSerialLogs
  <2>3. CASE Retry(w) \/ Cleanup(w)
    <3>1. r = Run(w) /\ wpc[w] \in {"retry", "clean"}
      BY <2>3 DEF Retry, Cleanup, cleanTestWorkflow
    <3>2. work[w] \in Beta \/ r \in serial
      BY <1>2, <3>1 DEF Captured
    <3> QED
      BY <3>1, <3>2 DEF Run
  <2> QED
    BY <2>1, <2>2, <2>3
<1> QED
  BY <1>1, <1>2, RunnerInvariant, CapturedStep, PTL DEF Spec, SerialBeforeDelete

-----------------------------------------------------------------------------
(* Reporting *)

\* Workflow i is with a worker at one of the places S
Pos(S, i) == \E w \in Workers : wpc[w] \in S /\ work[w] = testWorkflows[i]

InRunTest == {"run", "failed", "retry", "results", "end", "clean"}
BeforeSent == {"project", "start", "send"} \cup InRunTest

\* Of the workflows received: those with a project from the shared channel, those whose
\* start was counted and their end was not, those whose end was counted, those reported
Served == {i \in 1..taken : testWorkflows[i] \notin Locked /\ ~Pos({"project"}, i)}
Started == {i \in 1..taken : ~Pos({"project", "start"}, i)}
Counted == {i \in Started : testWorkflows[i] \in Skipped \/ Pos(InRunTest, i)}
Finished == Started \ Counted
Sent == {i \in 1..taken : ~Pos(BeforeSent, i)}

\* The channels and the metrics say how far each workflow is
Counts ==
  /\ Len(shared) + Cardinality(Served) = Len(testWorkflows)
  /\ metrics.running = Cardinality(Counted)
  /\ metrics.finished = Cardinality(Finished)

Delivered ==
  mpc # "done" =>
    /\ Len(testResults) = Cardinality(Sent)
    /\ {testResults[i] : i \in 1..Len(testResults)} = {testWorkflows[i] : i \in Sent}

\* A test that has ended has a result, and a stockout was one of its last zone
Ended(t) == res[t] # "none" /\ (res[t] = "stockout" => zoneIdx[t] = Zones)

Outcome ==
  /\ \A w \in Workers :
       /\ wpc[w] \in InRunTest => work[w] \notin Skipped
       /\ wpc[w] \in {"failed", "retry"} => res[work[w]] # "none"
       /\ wpc[w] = "retry" => zoneIdx[work[w]] < Zones
       /\ wpc[w] \in {"end", "clean", "send"} => Ended(work[w])
       /\ wpc[w] = "exited" => taken = Len(testWorkflows)
  /\ \A i \in Sent : Ended(testWorkflows[i])

\* RunTests returns when every worker has
Returns ==
  mpc = "done" =>
    /\ \A w \in Workers : wpc[w] = "exited"
    /\ {suites[i].test : i \in 1..Len(suites)} = Tests
    /\ Len(suites) = Len(testWorkflows)
    /\ testResults = <<>>
    /\ \A i \in 1..Len(suites) :
         /\ suites[i].result # "none"
         /\ suites[i].result = "stockout" => zoneIdx[suites[i].test] = Zones

ReportInv == TypeOK /\ Counts /\ Delivered /\ Outcome /\ Returns

-----------------------------------------------------------------------------
(* How far each workflow is *)

BusyPlaces == BeforeSent \cup {"unlock"}

\* A step of a busy worker moves its own workflow and no other
LEMMA Moves ==
  ASSUME LockInv, NEW w \in Workers, Busy(w), NEW pc, Goto(w, pc), UNCHANGED <<taken, work>>
  PROVE  \E k \in 1..taken :
           /\ testWorkflows[k] = work[w]
           /\ \A S \in SUBSET BusyPlaces :
                /\ Pos(S, k) <=> wpc[w] \in S
                /\ Pos(S, k)' <=> pc \in S
                /\ \A i \in (1..taken) \ {k} : Pos(S, i)' <=> Pos(S, i)
<1>1. PICK k \in 1..taken : testWorkflows[k] = work[w]
  BY DEF LockInv, OneWorker
<1>2. /\ wpc'[w] = pc /\ \A v \in Workers \ {w} : wpc'[v] = wpc[v]
  BY DEF Goto, LockInv, Shaped
<1>3. \A i \in (1..taken) \ {k} : testWorkflows[i] # work[w]
  <2>1. \A i \in 1..taken : i \in 1..Len(testWorkflows)
    BY DEF LockInv, Shaped
  <2> QED
    BY <1>1, <2>1, RunnerAssumption
<1>4. ASSUME NEW v \in Workers, wpc[v] \in BusyPlaces PROVE Busy(v)
  BY <1>4 DEF Busy, Holding, BusyPlaces, BeforeSent, InRunTest
<1>5. \A v \in Workers \ {w} : wpc[v] \in BusyPlaces => work[v] # work[w]
  BY <1>4 DEF LockInv, OneWorker
<1>6. ASSUME NEW S \in SUBSET BusyPlaces
      PROVE  /\ Pos(S, k) <=> wpc[w] \in S
             /\ Pos(S, k)' <=> pc \in S
             /\ \A i \in (1..taken) \ {k} : Pos(S, i)' <=> Pos(S, i)
  <2>1. Pos(S, k) <=> wpc[w] \in S
    BY <1>1, <1>5, <1>6 DEF Pos
  <2>2. Pos(S, k)' <=> pc \in S
    BY <1>1, <1>2, <1>5, <1>6 DEF Pos
  <2>3. \A i \in (1..taken) \ {k} : Pos(S, i)' <=> Pos(S, i)
    BY <1>2, <1>3 DEF Pos
  <2> QED
    BY <2>1, <2>2, <2>3
<1> QED
  BY <1>1, <1>6

\* The places of a worker's next step
LEMMA Places ==
  ASSUME LockInv, Outcome, NEW w \in Workers, WorkerStep(w), ~Receive(w)
  PROVE  /\ Busy(w) /\ UNCHANGED <<taken, work>>
         /\ \E pc : /\ Goto(w, pc)
                    /\ \/ wpc[w] = "project" /\ pc = "start"
                       \/ wpc[w] = "start" /\ (IF work[w] \in Skipped THEN pc = "send" ELSE pc = "run")
                       \/ wpc[w] \in InRunTest /\ pc \in InRunTest
                       \/ wpc[w] = "clean" /\ pc = "send"
                       \/ wpc[w] = "send" /\ pc \in {"recv", "unlock"}
                       \/ wpc[w] = "unlock" /\ pc = "recv"
<1>1. Busy(w) /\ UNCHANGED <<taken, work>>
  BY DEF WorkerStep, GetProject, Start, RunWorkflow, DumpFailed, Retry, Results, DumpLast,
         Cleanup, Send, Unlock, Busy, Holding
<1>2. CASE GetProject(w)
  BY <1>1, <1>2 DEF GetProject
<1>3. CASE Start(w)
  BY <1>1, <1>3 DEF Start
<1>4. CASE RunWorkflow(w) \/ DumpFailed(w) \/ Retry(w) \/ Results(w) \/ DumpLast(w)
  BY <1>1, <1>4 DEF RunWorkflow, DumpFailed, Retry, Results, DumpLast, InRunTest
<1>5. CASE Cleanup(w)
  BY <1>1, <1>5 DEF Cleanup
<1>6. CASE Send(w)
  BY <1>1, <1>6 DEF Send
<1>7. CASE Unlock(w)
  BY <1>1, <1>7 DEF Unlock
<1> QED
  BY <1>2, <1>3, <1>4, <1>5, <1>6, <1>7 DEF WorkerStep

\* What the steps of a worker that has a workflow add to the sets
LEMMA Flow ==
  ASSUME LockInv, Outcome, NEW w \in Workers, WorkerStep(w), ~Receive(w)
  PROVE  \E k \in 1..taken :
           /\ testWorkflows[k] = work[w]
           /\ taken' = taken /\ work' = work
           /\ IF wpc[w] = "project" /\ work[w] \notin Locked
              THEN k \notin Served /\ Served' = Served \cup {k}
              ELSE Served' = Served
           /\ IF wpc[w] = "start"
              THEN k \notin Counted /\ Counted' = Counted \cup {k} /\ Finished' = Finished
              ELSE IF Cleanup(w)
                   THEN /\ k \in Counted \ Finished
                        /\ Counted' = Counted \ {k}
                        /\ Finished' = Finished \cup {k}
                   ELSE Counted' = Counted /\ Finished' = Finished
           /\ IF wpc[w] = "send"
              THEN k \notin Sent /\ Sent' = Sent \cup {k}
              ELSE Sent' = Sent
<1>1. /\ Busy(w) /\ UNCHANGED <<taken, work>>
      /\ wpc[w] \in InRunTest => work[w] \notin Skipped
  BY Places DEF Outcome
<1>2. PICK pc : /\ Goto(w, pc)
                /\ \/ wpc[w] = "project" /\ pc = "start"
                   \/ wpc[w] = "start" /\ (IF work[w] \in Skipped THEN pc = "send" ELSE pc = "run")
                   \/ wpc[w] \in InRunTest /\ pc \in InRunTest
                   \/ wpc[w] = "clean" /\ pc = "send"
                   \/ wpc[w] = "send" /\ pc \in {"recv", "unlock"}
                   \/ wpc[w] = "unlock" /\ pc = "recv"
  BY Places
<1>3. PICK k \in 1..taken :
           /\ testWorkflows[k] = work[w]
           /\ \A S \in SUBSET BusyPlaces :
                /\ Pos(S, k) <=> wpc[w] \in S
                /\ Pos(S, k)' <=> pc \in S
                /\ \A i \in (1..taken) \ {k} : Pos(S, i)' <=> Pos(S, i)
  BY <1>1, <1>2, Moves
<1>4. /\ {"project"} \in SUBSET BusyPlaces /\ {"project", "start"} \in SUBSET BusyPlaces
      /\ InRunTest \in SUBSET BusyPlaces /\ BeforeSent \in SUBSET BusyPlaces
  BY DEF BusyPlaces, BeforeSent, InRunTest
<1>5. ASSUME NEW S \in {{"project"}, {"project", "start"}, InRunTest, BeforeSent}
      PROVE  /\ Pos(S, k) <=> wpc[w] \in S
             /\ Pos(S, k)' <=> pc \in S
             /\ \A i \in (1..taken) \ {k} : Pos(S, i)' <=> Pos(S, i)
  BY <1>3, <1>4
<1>6. IF wpc[w] = "project" /\ work[w] \notin Locked
      THEN k \notin Served /\ Served' = Served \cup {k}
      ELSE Served' = Served
  <2>1. ASSUME NEW i \in (1..taken) \ {k} PROVE i \in Served' <=> i \in Served
    BY <1>1, <1>5 DEF Served
  <2>2. k \in Served <=> work[w] \notin Locked /\ wpc[w] # "project"
    BY <1>3, <1>5 DEF Served
  <2>3. k \in Served' <=> work[w] \notin Locked /\ pc # "project"
    BY <1>1, <1>3, <1>5 DEF Served
  <2>4. pc # "project"
    BY <1>2 DEF InRunTest
  <2>5. Served \in SUBSET (1..taken) /\ Served' \in SUBSET (1..taken)
    BY <1>1 DEF Served
  <2>6. /\ (k \in Served' <=> k \in Served) => Served' = Served
        /\ k \in Served' /\ k \notin Served => Served' = Served \cup {k}
    <3> DEFINE S == Served
               T == Served'
               A == 1..taken
    <3>1. S \in SUBSET A /\ T \in SUBSET A /\ \A i \in A \ {k} : i \in T <=> i \in S
      BY <2>1, <2>5
    <3> HIDE DEF S, T, A
    <3>2. /\ (k \in T <=> k \in S) => T = S
          /\ k \in T /\ k \notin S => T = S \cup {k}
      BY <3>1
    <3> QED
      BY <3>2 DEF S, T
  <2> QED
    BY <2>2, <2>3, <2>4, <2>6
<1>7. /\ \A i \in (1..taken) \ {k} : i \in Started' <=> i \in Started
      /\ k \in Started <=> wpc[w] \notin {"project", "start"}
      /\ k \in Started' <=> pc \notin {"project", "start"}
      /\ Started \subseteq 1..taken /\ Started' \subseteq 1..taken
  BY <1>1, <1>5 DEF Started
<1>8. /\ \A i \in (1..taken) \ {k} : i \in Counted' <=> i \in Counted
      /\ k \in Counted <=> k \in Started /\ (work[w] \in Skipped \/ wpc[w] \in InRunTest)
      /\ k \in Counted' <=> k \in Started' /\ (work[w] \in Skipped \/ pc \in InRunTest)
  BY <1>1, <1>3, <1>5, <1>7 DEF Counted
<1>9. Counted \subseteq Started /\ Counted' \subseteq Started'
  BY DEF Counted
<1>10. /\ \A i \in (1..taken) \ {k} : i \in Finished' <=> i \in Finished
       /\ k \in Finished <=> k \in Started /\ k \notin Counted
       /\ k \in Finished' <=> k \in Started' /\ k \notin Counted'
       /\ Finished \subseteq Started /\ Finished' \subseteq Started'
  BY <1>7, <1>8 DEF Finished
<1>11. Cleanup(w) <=> wpc[w] = "clean" /\ pc = "send"
  <2>1. Cleanup(w) => wpc[w] = "clean" /\ wpc'[w] = "send"
    BY DEF Cleanup, Goto, LockInv, Shaped
  <2>2. wpc'[w] = pc
    BY <1>2 DEF Goto, LockInv, Shaped
  <2>3. wpc[w] = "clean" => Cleanup(w)
    BY DEF WorkerStep, Receive, GetProject, Start, RunWorkflow, DumpFailed, Retry, Results,
           DumpLast, Send, Unlock
  <2> QED
    BY <2>1, <2>2, <2>3
<1>12. /\ (k \in Counted' <=> k \in Counted) => Counted' = Counted
       /\ k \in Counted' /\ k \notin Counted => Counted' = Counted \cup {k}
       /\ k \notin Counted' /\ k \in Counted => Counted' = Counted \ {k}
  <2> DEFINE S == Counted
             T == Counted'
             A == 1..taken
  <2>1. S \in SUBSET A /\ T \in SUBSET A /\ \A i \in A \ {k} : i \in T <=> i \in S
    BY <1>7, <1>8, <1>9
  <2> HIDE DEF S, T, A
  <2>2. /\ (k \in T <=> k \in S) => T = S
        /\ k \in T /\ k \notin S => T = S \cup {k}
        /\ k \notin T /\ k \in S => T = S \ {k}
    BY <2>1
  <2> QED
    BY <2>2 DEF S, T
<1>13. /\ (k \in Finished' <=> k \in Finished) => Finished' = Finished
       /\ k \in Finished' /\ k \notin Finished => Finished' = Finished \cup {k}
  <2> DEFINE S == Finished
             T == Finished'
             A == 1..taken
  <2>1. S \in SUBSET A /\ T \in SUBSET A /\ \A i \in A \ {k} : i \in T <=> i \in S
    BY <1>7, <1>10
  <2> HIDE DEF S, T, A
  <2>2. /\ (k \in T <=> k \in S) => T = S
        /\ k \in T /\ k \notin S => T = S \cup {k}
    BY <2>1
  <2> QED
    BY <2>2 DEF S, T
<1>14. IF wpc[w] = "start"
       THEN k \notin Counted /\ Counted' = Counted \cup {k} /\ Finished' = Finished
       ELSE IF Cleanup(w)
            THEN /\ k \in Counted \ Finished
                 /\ Counted' = Counted \ {k}
                 /\ Finished' = Finished \cup {k}
            ELSE Counted' = Counted /\ Finished' = Finished
  <2>1. CASE wpc[w] = "start"
    <3>1. k \notin Started /\ k \in Started' /\ k \in Counted'
      BY <1>2, <1>7, <1>8, <2>1 DEF InRunTest
    <3> QED
      BY <1>8, <1>10, <1>12, <1>13, <2>1, <3>1
  <2>2. CASE wpc[w] = "clean" /\ pc = "send"
    <3>1. k \in Started /\ k \in Started' /\ k \in Counted /\ k \notin Counted'
      BY <1>1, <1>7, <1>8, <2>2 DEF InRunTest
    <3> QED
      BY <1>10, <1>11, <1>12, <1>13, <2>2, <3>1
  <2>3. CASE wpc[w] # "start" /\ ~(wpc[w] = "clean" /\ pc = "send")
    <3>1. /\ k \in Started <=> k \in Started'
          /\ k \in Counted <=> k \in Counted'
      BY <1>2, <1>7, <1>8, <2>3 DEF InRunTest
    <3> QED
      BY <1>10, <1>11, <1>12, <1>13, <2>3, <3>1
  <2> QED
    BY <2>1, <2>2, <2>3
<1>15. IF wpc[w] = "send"
       THEN k \notin Sent /\ Sent' = Sent \cup {k}
       ELSE Sent' = Sent
  <2>1. ASSUME NEW i \in (1..taken) \ {k} PROVE i \in Sent' <=> i \in Sent
    BY <1>1, <1>5 DEF Sent
  <2>2. /\ k \in Sent <=> wpc[w] \notin BeforeSent
        /\ k \in Sent' <=> pc \notin BeforeSent
    BY <1>1, <1>5 DEF Sent
  <2>3. Sent \subseteq 1..taken /\ Sent' \subseteq 1..taken
    BY <1>1 DEF Sent
  <2>4. IF wpc[w] = "send" THEN k \notin Sent /\ k \in Sent' ELSE k \in Sent <=> k \in Sent'
    BY <1>2, <2>2 DEF BeforeSent, InRunTest
  <2>5. /\ (k \in Sent' <=> k \in Sent) => Sent' = Sent
        /\ k \in Sent' /\ k \notin Sent => Sent' = Sent \cup {k}
    <3> DEFINE S == Sent
               T == Sent'
               A == 1..taken
    <3>1. S \in SUBSET A /\ T \in SUBSET A /\ \A i \in A \ {k} : i \in T <=> i \in S
      BY <2>1, <2>3
    <3> HIDE DEF S, T, A
    <3>2. /\ (k \in T <=> k \in S) => T = S
          /\ k \in T /\ k \notin S => T = S \cup {k}
      BY <3>1
    <3> QED
      BY <3>2 DEF S, T
  <2> QED
    BY <2>4, <2>5
<1> QED
  BY <1>1, <1>3, <1>6, <1>14, <1>15

\* A workflow that is received is not with anybody else
LEMMA FlowReceive ==
  ASSUME LockInv, NEW w \in Workers, Receive(w)
  PROVE  Served' = Served /\ Counted' = Counted /\ Finished' = Finished /\ Sent' = Sent
<1>1. wpc[w] = "recv" /\ \A v \in Workers \ {w} : wpc'[v] = wpc[v] /\ work'[v] = work[v]
  BY DEF Receive, Goto, LockInv, Shaped
<1>2. taken \in Nat /\ \A i \in 1..taken : i \in 1..Len(testWorkflows)
  BY DEF LockInv, Shaped
<1>3. ASSUME NEW S \in SUBSET BusyPlaces, NEW i \in 1..taken PROVE Pos(S, i)' <=> Pos(S, i)
  <2>1. wpc[w] \notin S
    BY <1>1 DEF BusyPlaces, BeforeSent, InRunTest
  <2>2. wpc'[w] \notin S \/ work'[w] # testWorkflows[i]
    <3>1. CASE taken < Len(testWorkflows)
      <4>1. work'[w] = testWorkflows[taken + 1]
        BY <3>1 DEF Receive, LockInv, Shaped
      <4>2. taken + 1 \in 1..Len(testWorkflows) /\ i \in 1..Len(testWorkflows) /\ i # taken + 1
        BY <1>2, <3>1 DEF LockInv, Shaped
      <4> QED
        BY <4>1, <4>2, RunnerAssumption
    <3>2. CASE ~(taken < Len(testWorkflows))
      <4>1. wpc'[w] = "exited"
        BY <3>2 DEF Receive, Goto, LockInv, Shaped
      <4> QED
        BY <4>1 DEF BusyPlaces, BeforeSent, InRunTest
    <3> QED
      BY <3>1, <3>2
  <2> QED
    BY <1>1, <2>1, <2>2 DEF Pos
<1>4. /\ {"project"} \in SUBSET BusyPlaces /\ {"project", "start"} \in SUBSET BusyPlaces
      /\ InRunTest \in SUBSET BusyPlaces /\ BeforeSent \in SUBSET BusyPlaces
  BY DEF BusyPlaces, BeforeSent, InRunTest
<1>5. ASSUME NEW S \in {{"project"}, {"project", "start"}, InRunTest, BeforeSent},
             NEW i \in 1..taken
      PROVE  Pos(S, i)' <=> Pos(S, i)
  BY <1>3, <1>4
<1>6. CASE taken' = taken
  <2>1. Served' = Served /\ Started' = Started /\ Sent' = Sent
    BY <1>5, <1>6 DEF Served, Started, Sent
  <2>2. Counted' = Counted
    BY <1>5, <2>1 DEF Counted, Started
  <2> QED
    BY <2>1, <2>2 DEF Finished
<1>7. CASE taken' = taken + 1
  <2>1. /\ wpc'[w] = "project" /\ work'[w] = testWorkflows[taken + 1]
    BY <1>2, <1>7 DEF Receive, Goto, LockInv, Shaped
  <2>0. PICK n : n = taken + 1
    OBVIOUS
  <2>2. /\ Pos({"project"}, n)'
        /\ Pos({"project", "start"}, n)'
        /\ Pos(BeforeSent, n)'
    BY <2>0, <2>1 DEF Pos, BeforeSent
  <2>3. 1..taken' = 1..taken \cup {n}
    BY <1>2, <1>7, <2>0
  <2>4. Served' = Served /\ Started' = Started /\ Sent' = Sent
    BY <1>5, <2>2, <2>3 DEF Served, Started, Sent
  <2>5. Counted' = Counted
    BY <1>5, <2>4 DEF Counted, Started
  <2> QED
    BY <2>4, <2>5 DEF Finished
<1> QED
  BY <1>6, <1>7 DEF Receive

\* Parts of the workflows received are finite, and at most so many
LEMMA PartBounded ==
  ASSUME NEW n \in Nat, NEW Q \in SUBSET (1..n)
  PROVE  IsFiniteSet(Q) /\ Cardinality(Q) \in 0..n
<1>1. IsFiniteSet(1..n) /\ Cardinality(1..n) = n
  BY FS_Interval
<1>2. IsFiniteSet(Q) /\ Cardinality(Q) <= n
  BY <1>1, FS_Subset
<1>3. Cardinality(Q) \in Nat
  BY <1>2, FS_CardinalityType
<1> QED
  BY <1>2, <1>3

\* A step of a worker keeps the shared channel and the metrics in line with the workflows
LEMMA CountsStep ==
  ASSUME LockInv, TypeOK, Counts, Outcome, NEW w \in Workers, WorkerStep(w)
  PROVE  /\ Counts'
         /\ shared' \in Seq(testProjects)
         /\ metrics' \in [running : 0..Len(testWorkflows), finished : 0..Len(testWorkflows)]
         /\ GetProject(w) /\ work[w] \notin Locked => Head(shared) \in testProjects
<1>1. /\ taken \in Nat /\ taken <= Len(testWorkflows) /\ Len(testWorkflows) \in Nat
      /\ shared \in Seq(testProjects) /\ Len(shared) \in Nat
      /\ metrics \in [running : 0..Len(testWorkflows), finished : 0..Len(testWorkflows)]
      /\ Len(shared) + Cardinality(Served) = Len(testWorkflows)
      /\ metrics.running = Cardinality(Counted) /\ metrics.finished = Cardinality(Finished)
  BY RunnerAssumption DEF LockInv, Shaped, TypeOK, Counts
<1>2. /\ Served \subseteq 1..taken /\ Counted \subseteq 1..taken /\ Finished \subseteq 1..taken
  BY DEF Served, Counted, Finished, Started
<1>3. /\ IsFiniteSet(Served) /\ Cardinality(Served) \in 0..taken
      /\ IsFiniteSet(Counted) /\ Cardinality(Counted) \in 0..taken
      /\ IsFiniteSet(Finished) /\ Cardinality(Finished) \in 0..taken
  BY <1>1, <1>2, PartBounded
<1>4. CASE Receive(w)
  <2>1. UNCHANGED <<shared, metrics>>
    BY <1>4 DEF Receive
  <2> QED
    BY <1>1, <1>4, <2>1, FlowReceive DEF Counts, Receive, GetProject
<1>5. CASE ~Receive(w)
  <2>1. PICK k \in 1..taken :
           /\ testWorkflows[k] = work[w]
           /\ taken' = taken /\ work' = work
           /\ IF wpc[w] = "project" /\ work[w] \notin Locked
              THEN k \notin Served /\ Served' = Served \cup {k}
              ELSE Served' = Served
           /\ IF wpc[w] = "start"
              THEN k \notin Counted /\ Counted' = Counted \cup {k} /\ Finished' = Finished
              ELSE IF Cleanup(w)
                   THEN /\ k \in Counted \ Finished
                        /\ Counted' = Counted \ {k}
                        /\ Finished' = Finished \cup {k}
                   ELSE Counted' = Counted /\ Finished' = Finished
    BY <1>5, Flow
  <2>2. /\ k \notin Served => Cardinality(Served \cup {k}) = Cardinality(Served) + 1
        /\ k \notin Counted => Cardinality(Counted \cup {k}) = Cardinality(Counted) + 1
        /\ k \in Counted => Cardinality(Counted \ {k}) = Cardinality(Counted) - 1
        /\ k \notin Finished => Cardinality(Finished \cup {k}) = Cardinality(Finished) + 1
    BY <1>3, FS_AddElement, FS_RemoveElement
  <2>3. /\ Cardinality(Served \cup {k}) \in 0..taken
        /\ Cardinality(Counted \cup {k}) \in 0..taken
        /\ Cardinality(Finished \cup {k}) \in 0..taken
    <3>1. Served \cup {k} \in SUBSET (1..taken) /\ Counted \cup {k} \in SUBSET (1..taken)
          /\ Finished \cup {k} \in SUBSET (1..taken)
      BY <1>2
    <3> QED
      BY <1>1, <3>1, PartBounded
  <2>4. CASE GetProject(w)
    <3>1. wpc[w] = "project" /\ UNCHANGED metrics /\ Counted' = Counted /\ Finished' = Finished
      BY <2>1, <2>4 DEF GetProject, Cleanup
    <3>2. CASE work[w] \in Locked
      <4>1. shared' = shared /\ Served' = Served
        BY <2>1, <2>4, <3>2 DEF GetProject
      <4> QED
        BY <1>1, <3>1, <3>2, <4>1 DEF Counts
    <3>3. CASE work[w] \notin Locked
      <4>1. shared' = Tail(shared) /\ Served' = Served \cup {k} /\ k \notin Served
        BY <2>1, <2>4, <3>1, <3>3 DEF GetProject
      <4>2. Len(shared) >= 1
        BY <1>1, <1>3, <2>2, <2>3, <4>1
      <4>3. /\ shared # <<>> /\ Tail(shared) \in Seq(testProjects)
            /\ Len(Tail(shared)) = Len(shared) - 1 /\ Head(shared) \in testProjects
        BY <1>1, <4>2
      <4>4. Len(shared') + Cardinality(Served') = Len(testWorkflows)
        BY <1>1, <1>3, <2>2, <4>1, <4>3
      <4> QED
        BY <1>1, <3>1, <4>1, <4>3, <4>4 DEF Counts
    <3> QED
      BY <3>2, <3>3
  <2>5. CASE Start(w)
    <3>1. /\ wpc[w] = "start" /\ shared' = shared
          /\ metrics' = [metrics EXCEPT !.running = @ + 1]
      BY <2>5 DEF Start
    <3>2. /\ Served' = Served /\ Finished' = Finished /\ Counted' = Counted \cup {k}
          /\ k \notin Counted /\ ~GetProject(w)
      BY <2>1, <3>1 DEF GetProject
    <3>3. metrics'.running = Cardinality(Counted') /\ metrics'.finished = Cardinality(Finished')
      BY <1>1, <2>2, <3>1, <3>2
    <3>4. metrics' \in [running : 0..Len(testWorkflows), finished : 0..Len(testWorkflows)]
      BY <1>1, <1>3, <2>2, <2>3, <3>1, <3>2
    <3> QED
      BY <1>1, <3>1, <3>2, <3>3, <3>4 DEF Counts
  <2>6. CASE Cleanup(w)
    <3>1. /\ wpc[w] = "clean" /\ shared' = shared
          /\ metrics' = [running |-> metrics.running - 1, finished |-> metrics.finished + 1]
      BY <2>6 DEF Cleanup
    <3>2. /\ Served' = Served /\ Counted' = Counted \ {k} /\ Finished' = Finished \cup {k}
          /\ k \in Counted /\ k \notin Finished /\ ~GetProject(w)
      BY <2>1, <2>6, <3>1 DEF GetProject
    <3>3. metrics'.running = Cardinality(Counted') /\ metrics'.finished = Cardinality(Finished')
      BY <1>1, <2>2, <3>1, <3>2
    <3>4. Cardinality(Counted \ {k}) \in 0..taken
      <4>1. Counted \ {k} \in SUBSET (1..taken)
        BY <1>2
      <4> QED
        BY <1>1, <4>1, PartBounded
    <3>5. metrics' \in [running : 0..Len(testWorkflows), finished : 0..Len(testWorkflows)]
      BY <1>1, <1>3, <2>2, <2>3, <3>1, <3>2, <3>4
    <3> QED
      BY <1>1, <3>1, <3>2, <3>3, <3>5 DEF Counts
  <2>7. CASE ~GetProject(w) /\ ~Start(w) /\ ~Cleanup(w)
    <3>1. UNCHANGED <<shared, metrics>> /\ wpc[w] # "project" /\ wpc[w] # "start"
      BY <1>5, <2>7 DEF WorkerStep, RunWorkflow, DumpFailed, Retry, Results, DumpLast, Send, Unlock
    <3> QED
      BY <1>1, <2>1, <2>7, <3>1 DEF Counts
  <2> QED
    BY <2>4, <2>5, <2>6, <2>7
<1> QED
  BY <1>4, <1>5

\* What is in the channel of results is what has been sent
LEMMA DeliveredStep ==
  ASSUME LockInv, TypeOK, Delivered, Outcome, NEW w \in Workers, WorkerStep(w)
  PROVE  Delivered'
<1> SUFFICES ASSUME mpc' # "done"
             PROVE  /\ Len(testResults') = Cardinality(Sent')
                    /\ {testResults'[i] : i \in 1..Len(testResults')} = {testWorkflows[i] : i \in Sent'}
  BY DEF Delivered
<1>1. mpc' = mpc
  BY DEF WorkerStep, Receive, GetProject, Start, RunWorkflow, DumpFailed, Retry, Results, DumpLast,
         Cleanup, Send, Unlock, mainVars
<1>2. /\ Len(testResults) = Cardinality(Sent)
      /\ {testResults[i] : i \in 1..Len(testResults)} = {testWorkflows[i] : i \in Sent}
  BY <1>1 DEF Delivered
<1>3. CASE ~Send(w)
  <2>1. UNCHANGED testResults
    BY <1>3 DEF WorkerStep, Receive, GetProject, Start, RunWorkflow, DumpFailed, Retry, Results,
                DumpLast, Cleanup, Unlock
  <2>2. Sent' = Sent
    <3>1. CASE Receive(w)
      BY <3>1, FlowReceive
    <3>2. CASE ~Receive(w)
      <4>1. wpc[w] # "send"
        BY <1>3, <3>2 DEF WorkerStep, GetProject, Start, RunWorkflow, DumpFailed, Retry, Results,
                          DumpLast, Cleanup, Unlock
      <4> QED
        BY <3>2, <4>1, Flow
    <3> QED
      BY <3>1, <3>2
  <2> QED
    BY <1>2, <2>1, <2>2
<1>4. CASE Send(w)
  <2>1. testResults' = Append(testResults, work[w]) /\ wpc[w] = "send" /\ ~Receive(w)
    BY <1>4 DEF Send, Receive
  <2>2. PICK k \in 1..taken : /\ testWorkflows[k] = work[w]
                              /\ k \notin Sent /\ Sent' = Sent \cup {k}
    BY <2>1, Flow
  <2>3. taken \in Nat /\ Sent \in SUBSET (1..taken)
    BY DEF LockInv, Shaped, Sent
  <2>4. Cardinality(Sent') = Cardinality(Sent) + 1
    BY <2>2, <2>3, PartBounded, FS_AddElement
  <2>5. work[w] \in Tests
    BY <2>1, BusyTest DEF Busy, Holding
  <2>6. /\ testResults \in Seq(Tests) /\ Len(testResults) \in Nat
        /\ Len(testResults') = Len(testResults) + 1
        /\ testResults'[Len(testResults) + 1] = work[w]
        /\ \A i \in 1..Len(testResults) : testResults'[i] = testResults[i]
    BY <2>1, <2>5 DEF TypeOK
  <2>7. {testResults'[i] : i \in 1..Len(testResults')}
          = {testResults[i] : i \in 1..Len(testResults)} \cup {work[w]}
    <3>1. 1..Len(testResults') = 1..Len(testResults) \cup {Len(testResults) + 1}
      BY <2>6
    <3> QED
      BY <2>6, <3>1
  <2>8. {testWorkflows[i] : i \in Sent'} = {testWorkflows[i] : i \in Sent} \cup {work[w]}
    BY <2>2
  <2> QED
    BY <1>2, <2>4, <2>6, <2>7, <2>8
<1> QED
  BY <1>3, <1>4

\* A worker changes the result and the zone of its own test only, and only before it sends it
LEMMA OwnResult ==
  ASSUME TypeOK, NEW w \in Workers, WorkerStep(w), NEW t \in Tests,
         t # work[w] \/ wpc[w] \notin {"start"} \cup InRunTest
  PROVE  res'[t] = res[t] /\ zoneIdx'[t] = zoneIdx[t]
<1>1. CASE wpc[w] \notin {"start"} \cup InRunTest
  BY <1>1 DEF WorkerStep, Receive, GetProject, Start, RunWorkflow, DumpFailed, Retry, Results,
              DumpLast, Cleanup, Send, Unlock, InRunTest
<1>2. CASE t # work[w]
  <2>1. res' = res \/ \E r : res' = [res EXCEPT ![work[w]] = r]
    BY DEF WorkerStep, Receive, GetProject, Start, RunWorkflow, DumpFailed, Retry, Results,
              DumpLast, Cleanup, Send, Unlock
  <2>2. zoneIdx' = zoneIdx \/ \E r : zoneIdx' = [zoneIdx EXCEPT ![work[w]] = r]
    BY DEF WorkerStep, Receive, GetProject, Start, RunWorkflow, DumpFailed, Retry, Results,
              DumpLast, Cleanup, Send, Unlock
  <2> QED
    BY <1>2, <2>1, <2>2 DEF TypeOK
<1> QED
  BY <1>1, <1>2

\* The worker's own test, step by step
LEMMA OwnOutcome ==
  ASSUME LockInv, TypeOK, Outcome, NEW w \in Workers, WorkerStep(w)
  PROVE  /\ wpc'[w] \in InRunTest => work'[w] \notin Skipped
         /\ wpc'[w] \in {"failed", "retry"} => res'[work'[w]] # "none"
         /\ wpc'[w] = "retry" => zoneIdx'[work'[w]] < Zones
         /\ wpc'[w] \in {"end", "clean", "send"} => Ended(work[w])' /\ work'[w] = work[w]
         /\ wpc'[w] = "exited" => taken' = Len(testWorkflows)
         /\ zoneIdx' \in [Tests -> 1..Zones]
<1>1. \A pc : Goto(w, pc) => wpc'[w] = pc
  BY DEF Goto, LockInv, Shaped
<1>2. /\ res \in [Tests -> Errors \cup {"none", "skipped", "success"}]
      /\ zoneIdx \in [Tests -> 1..Zones] /\ Zones \in Nat
      /\ Busy(w) => work[w] \in Tests
  BY RunnerAssumption, BusyTest DEF TypeOK
<1>3. /\ wpc[w] \in InRunTest => work[w] \notin Skipped
      /\ wpc[w] \in {"failed", "retry"} => res[work[w]] # "none"
      /\ wpc[w] = "retry" => zoneIdx[work[w]] < Zones
      /\ wpc[w] \in {"end", "clean", "send"} => Ended(work[w])
  BY DEF Outcome
<1>4. CASE Receive(w)
  <2>1. /\ wpc'[w] = "project" \/ (wpc'[w] = "exited" /\ taken' = Len(testWorkflows))
        /\ zoneIdx' = zoneIdx
    BY <1>1, <1>4 DEF Receive
  <2> QED
    BY <1>2, <2>1 DEF InRunTest
<1>5. CASE GetProject(w)
  <2>1. wpc'[w] = "start" /\ zoneIdx' = zoneIdx
    BY <1>1, <1>5 DEF GetProject
  <2> QED
    BY <1>2, <2>1 DEF InRunTest
<1>6. CASE Start(w)
  <2>1. /\ Busy(w) /\ UNCHANGED <<work, zoneIdx>>
        /\ \/ wpc'[w] = "send" /\ res' = [res EXCEPT ![work[w]] = "skipped"]
           \/ wpc'[w] = "run" /\ work[w] \notin Skipped
    BY <1>1, <1>6 DEF Start, Busy, Holding
  <2> QED
    BY <1>2, <2>1 DEF InRunTest, Ended
<1>7. CASE RunWorkflow(w)
  <2>1. /\ Busy(w) /\ UNCHANGED <<work, zoneIdx>> /\ wpc[w] = "run"
        /\ \/ wpc'[w] = "results"
           \/ wpc'[w] = "failed" /\ \E e \in Errors : res' = [res EXCEPT ![work[w]] = e]
    BY <1>1, <1>7 DEF RunWorkflow, Busy, Holding
  <2> QED
    BY <1>2, <1>3, <2>1 DEF InRunTest, Errors
<1>8. CASE DumpFailed(w)
  <2>1. /\ Busy(w) /\ UNCHANGED <<work, zoneIdx, res>> /\ wpc[w] = "failed"
        /\ wpc'[w] = IF res[work[w]] = "stockout" /\ zoneIdx[work[w]] < Zones THEN "retry" ELSE "end"
    BY <1>1, <1>8 DEF DumpFailed, Busy, Holding
  <2> QED
    BY <1>2, <1>3, <2>1 DEF InRunTest, Ended
<1>9. CASE Retry(w)
  <2>1. /\ Busy(w) /\ UNCHANGED work /\ wpc[w] = "retry"
        /\ zoneIdx' \in {zoneIdx, [zoneIdx EXCEPT ![work[w]] = zoneIdx[work[w]] + 1]}
        /\ \/ wpc'[w] = "run"
           \/ wpc'[w] = "end" /\ res' = [res EXCEPT ![work[w]] = "error"]
    BY <1>1, <1>9 DEF Retry, Busy, Holding
  <2>2. zoneIdx[work[w]] + 1 \in 1..Zones
    BY <1>2, <1>3, <2>1
  <2>3. zoneIdx' \in [Tests -> 1..Zones]
    BY <1>2, <2>1, <2>2
  <2> QED
    BY <1>2, <1>3, <2>1, <2>3 DEF InRunTest, Ended
<1>10. CASE Results(w)
  <2>1. /\ Busy(w) /\ UNCHANGED <<work, zoneIdx>> /\ wpc[w] = "results"
        /\ wpc'[w] = "end" /\ \E r \in {"success", "error"} : res' = [res EXCEPT ![work[w]] = r]
    BY <1>1, <1>10 DEF Results, Busy, Holding
  <2> QED
    BY <1>2, <1>3, <2>1 DEF InRunTest, Ended
<1>11. CASE DumpLast(w) \/ Cleanup(w)
  <2>1. /\ UNCHANGED <<work, zoneIdx, res>> /\ wpc[w] \in {"end", "clean"}
        /\ wpc'[w] \in {"clean", "send"}
    BY <1>1, <1>11 DEF DumpLast, Cleanup
  <2> QED
    BY <1>2, <1>3, <2>1 DEF InRunTest, Ended
<1>12. CASE Send(w) \/ Unlock(w)
  <2>1. wpc'[w] \in {"recv", "unlock"} /\ zoneIdx' = zoneIdx
    BY <1>1, <1>12 DEF Send, Unlock
  <2> QED
    BY <1>2, <2>1 DEF InRunTest
<1> QED
  BY <1>4, <1>5, <1>6, <1>7, <1>8, <1>9, <1>10, <1>11, <1>12 DEF WorkerStep

\* A test keeps its outcome once it has been sent
LEMMA OutcomeStep ==
  ASSUME LockInv, TypeOK, Outcome, NEW w \in Workers, WorkerStep(w)
  PROVE  Outcome'
<1>1. \A v \in Workers \ {w} : wpc'[v] = wpc[v] /\ work'[v] = work[v]
  BY DEF WorkerStep, Receive, GetProject, Start, RunWorkflow, DumpFailed, Retry, Results,
         DumpLast, Cleanup, Send, Unlock, Goto, LockInv, Shaped
<1>2. ASSUME NEW v \in Workers
      PROVE  /\ wpc'[v] \in InRunTest => work'[v] \notin Skipped
             /\ wpc'[v] \in {"failed", "retry"} => res'[work'[v]] # "none"
             /\ wpc'[v] = "retry" => zoneIdx'[work'[v]] < Zones
             /\ wpc'[v] \in {"end", "clean", "send"} => Ended(work[v])' 
             /\ wpc'[v] = "exited" => taken' = Len(testWorkflows)
  <2>1. CASE v = w
    BY <2>1, OwnOutcome
  <2>2. CASE v # w
    <3>1. wpc'[v] = wpc[v] /\ work'[v] = work[v]
      BY <1>1, <2>2
    <3>2. wpc[v] = "exited" => taken' = Len(testWorkflows)
      <4>1. taken' = taken \/ (taken < Len(testWorkflows) /\ taken' = taken + 1)
        BY DEF WorkerStep, Receive, GetProject, Start, RunWorkflow, DumpFailed, Retry, Results,
               DumpLast, Cleanup, Send, Unlock
      <4> QED
        BY <4>1, RunnerAssumption DEF Outcome
    <3>3. CASE wpc[v] \in InRunTest \cup {"send"}
      <4>1. Busy(v) /\ work[v] \in Tests
        BY <3>3, BusyTest DEF InRunTest, Busy, Holding
      <4>2. work[v] # work[w] \/ wpc[w] \notin {"start"} \cup InRunTest
        BY <2>2, <4>1, OtherRun DEF InRunTest, Busy, Holding
      <4>3. res'[work[v]] = res[work[v]] /\ zoneIdx'[work[v]] = zoneIdx[work[v]]
        BY <4>1, <4>2, OwnResult
      <4> QED
        BY <3>1, <3>2, <4>3 DEF Outcome, Ended
    <3>4. CASE wpc[v] \notin InRunTest \cup {"send"}
      BY <3>1, <3>2, <3>4 DEF InRunTest
    <3> QED
      BY <3>3, <3>4
  <2> QED
    BY <2>1, <2>2
<1>3. ASSUME NEW i \in Sent' PROVE Ended(testWorkflows[i])'
  <2>1. CASE i \in Sent
    <3>1. i \in 1..taken /\ testWorkflows[i] \in Tests
      BY <2>1 DEF Sent, Tests, LockInv, Shaped
    <3>2. testWorkflows[i] # work[w] \/ wpc[w] \notin {"start"} \cup InRunTest
      BY <2>1 DEF Sent, Pos, BeforeSent
    <3>3. Ended(testWorkflows[i])
      BY <2>1 DEF Outcome
    <3> QED
      BY <3>1, <3>2, <3>3, OwnResult DEF Ended
  <2>2. CASE i \notin Sent
    <3>1. ~Receive(w)
      BY <1>3, <2>2, FlowReceive
    <3>2. wpc[w] = "send" /\ testWorkflows[i] = work[w] /\ work' = work
      BY <1>3, <2>2, <3>1, Flow
    <3>3. Ended(work[w]) /\ work[w] \in Tests
      BY <3>2, BusyTest DEF Outcome, Busy, Holding
    <3>4. res'[work[w]] = res[work[w]] /\ zoneIdx'[work[w]] = zoneIdx[work[w]]
      BY <3>2, <3>3, OwnResult DEF InRunTest
    <3> QED
      BY <3>2, <3>3, <3>4 DEF Ended
  <2> QED
    BY <2>1, <2>2
<1> QED
  BY <1>1, <1>2, <1>3 DEF Outcome, Ended

\* A step of a worker keeps the types
LEMMA TypeWorker ==
  ASSUME LockInv, LockInv', TypeOK, Counts, Outcome, NEW w \in Workers, WorkerStep(w)
  PROVE  TypeOK'
<1>1. /\ shared' \in Seq(testProjects)
      /\ metrics' \in [running : 0..Len(testWorkflows), finished : 0..Len(testWorkflows)]
      /\ zoneIdx' \in [Tests -> 1..Zones]
      /\ taken' \in 0..Len(testWorkflows) /\ exclusive' \in Seq(testProjects)
      /\ work' \in [Workers -> Tests \cup {NoTest}]
  BY CountsStep, OwnOutcome DEF LockInv, Shaped
<1>2. mpc' = mpc
  BY DEF WorkerStep, Receive, GetProject, Start, RunWorkflow, DumpFailed, Retry, Results, DumpLast,
         Cleanup, Send, Unlock, mainVars
<1>3. \E pc \in {"recv", "project", "start", "run", "failed", "retry", "results", "end", "clean",
                "send", "unlock", "exited"} : Goto(w, pc)
  BY DEF WorkerStep, Receive, GetProject, Start, RunWorkflow, DumpFailed, Retry, Results, DumpLast,
         Cleanup, Send, Unlock
<1>4. wpc' \in [Workers -> {"recv", "project", "start", "run", "failed", "retry", "results", "end",
                            "clean", "send", "unlock", "exited"}]
  BY <1>3 DEF TypeOK, Goto
<1>5. Receive(w) \/ (Busy(w) /\ work[w] \in Tests)
  <2>1. Receive(w) \/ Busy(w)
    BY DEF WorkerStep, GetProject, Start, RunWorkflow, DumpFailed, Retry, Results, DumpLast,
           Cleanup, Send, Unlock, Busy, Holding
  <2> QED
    BY <2>1, BusyTest
<1>6. res' \in [Tests -> Errors \cup {"none", "skipped", "success"}]
  <2>1. \/ res' = res
        \/ \E r \in Errors \cup {"skipped", "success", "error"} : res' = [res EXCEPT ![work[w]] = r]
    BY DEF WorkerStep, Receive, GetProject, Start, RunWorkflow, DumpFailed, Retry, Results,
           DumpLast, Cleanup, Send, Unlock
  <2>2. "error" \in Errors /\ res \in [Tests -> Errors \cup {"none", "skipped", "success"}]
    BY DEF Errors, TypeOK
  <2> QED
    BY <2>1, <2>2
<1>7. project' \in [Tests -> testProjects \cup {NoProject}]
  <2>1. CASE GetProject(w)
    <3>1. CASE work[w] \in Locked
      <4>1. exclusive # <<>> /\ project' = [project EXCEPT ![work[w]] = Head(exclusive)]
        BY <2>1, <3>1 DEF GetProject
      <4>2. Head(exclusive) \in testProjects
        BY <4>1 DEF TypeOK
      <4> QED
        BY <4>1, <4>2 DEF TypeOK
    <3>2. CASE work[w] \notin Locked
      <4>1. project' = [project EXCEPT ![work[w]] = Head(shared)] /\ Head(shared) \in testProjects
        BY <2>1, <3>2, CountsStep DEF GetProject
      <4> QED
        BY <4>1 DEF TypeOK
    <3> QED
      BY <3>1, <3>2
  <2>2. CASE ~GetProject(w)
    <3>1. project' = project
      BY <2>2 DEF WorkerStep, Receive, Start, RunWorkflow, DumpFailed, Retry, Results, DumpLast,
                  Cleanup, Send, Unlock
    <3> QED
      BY <3>1 DEF TypeOK
  <2> QED
    BY <2>1, <2>2
<1>8. testResults' \in Seq(Tests)
  <2>1. testResults' = testResults \/ (testResults' = Append(testResults, work[w]) /\ work[w] \in Tests)
    BY <1>5 DEF WorkerStep, Receive, GetProject, Start, RunWorkflow, DumpFailed, Retry, Results,
                DumpLast, Cleanup, Send, Unlock
  <2>2. testResults \in Seq(Tests)
    BY DEF TypeOK
  <2> QED
    BY <2>1, <2>2
<1>9. vms' \cup other' \cup serial' \subseteq Tests \X (1..Zones)
  <2>1. CASE Receive(w)
    BY <2>1 DEF Receive, cloudVars, TypeOK
  <2>2. CASE Busy(w) /\ work[w] \in Tests
    <3>1. Run(w) \in Tests \X (1..Zones)
      BY <2>2 DEF TypeOK, Run
    <3>2. vms' \cup other' \cup serial' \subseteq vms \cup other \cup serial \cup {Run(w)}
      BY DEF WorkerStep, Receive, GetProject, Start, RunWorkflow, DumpFailed, Retry, Results,
             DumpLast, Cleanup, Send, Unlock, cloudVars, dumpSerialLogs, cleanTestWorkflow
    <3> QED
      BY <3>1, <3>2 DEF TypeOK
  <2> QED
    BY <1>5, <2>1, <2>2
<1> QED
  BY <1>1, <1>2, <1>4, <1>6, <1>7, <1>8, <1>9 DEF TypeOK

\* The channels have room for every workflow
LEMMA ReportInit == Init => ReportInv
<1> SUFFICES ASSUME Init PROVE ReportInv
  OBVIOUS
<1>1. LockInv
  BY InitInv DEF RunnerInv
<1>2. Served = {} /\ Counted = {} /\ Finished = {} /\ Sent = {}
  BY DEF Init, Served, Counted, Finished, Started, Sent
<1>3. Cardinality({}) = 0
  BY FS_EmptySet
<1>4. shared \in Seq(testProjects) /\ Len(shared) = Len(testWorkflows)
  <2>1. shared \in [1..Len(testWorkflows) -> testProjects] /\ Len(testWorkflows) \in Nat
    BY RunnerAssumption DEF Init, BlocksOfProjects
  <2> QED
    BY <2>1
<1>5. TypeOK
  BY <1>1, <1>4, RunnerAssumption DEF Init, TypeOK, LockInv, Shaped
<1>6. Counts
  <2>1. Cardinality(Served) = 0 /\ Cardinality(Counted) = 0 /\ Cardinality(Finished) = 0
    BY <1>2, <1>3
  <2> QED
    BY <1>4, <2>1, RunnerAssumption DEF Counts, Init
<1>7. Delivered
  <2>1. Len(testResults) = 0 /\ Cardinality(Sent) = 0
    BY <1>2, <1>3 DEF Init
  <2> QED
    BY <1>2, <2>1 DEF Delivered
<1>8. Outcome /\ Returns
  BY <1>2 DEF Outcome, Returns, Init, InRunTest
<1> QED
  BY <1>5, <1>6, <1>7, <1>8 DEF ReportInv

\* wg.Wait comes back when testchan is empty: every workflow has been received, and as no
\* worker has one any more, sent
LEMMA CollectStep ==
  ASSUME RunnerInv, ReportInv, Collect
  PROVE  Returns' /\ testResults' \in Seq(Tests)
<1>1. /\ \A w \in Workers : wpc[w] = "exited"
      /\ mpc = "wait"
      /\ suites' = [i \in 1..Len(testWorkflows) |->
                      [test |-> testResults[i], result |-> res[testResults[i]]]]
      /\ testResults' = SubSeq(testResults, Len(testWorkflows) + 1, Len(testResults))
      /\ UNCHANGED <<wpc, zoneIdx, res>>
  BY DEF Collect
<1>2. taken = Len(testWorkflows) /\ taken \in Nat
  <2>1. 1 \in Workers
    BY RunnerAssumption DEF Workers
  <2> QED
    BY <1>1, <2>1, RunnerAssumption DEF ReportInv, Outcome
<1>3. Sent = 1..taken
  BY <1>1 DEF Sent, Pos, BeforeSent, InRunTest
<1>4. Cardinality(1..taken) = taken
  <2>1. \A n \in Nat : Cardinality(1..n) = n
    BY FS_Interval
  <2> QED
    BY <1>2, <2>1
<1>5. /\ Len(testResults) = taken /\ testResults \in Seq(Tests)
      /\ {testResults[i] : i \in 1..Len(testResults)} = {testWorkflows[i] : i \in Sent}
  BY <1>1, <1>3, <1>4 DEF ReportInv, Delivered, TypeOK
<1>6. {testResults[i] : i \in 1..taken} = Tests
  BY <1>2, <1>3, <1>5 DEF Tests
<1>7. testResults' = <<>>
  <2>1. testResults' = SubSeq(testResults, taken + 1, taken)
    BY <1>1, <1>2, <1>5
  <2> QED
    BY <1>2, <1>5, <2>1
<1>8. suites' = [i \in 1..taken |-> [test |-> testResults[i], result |-> res[testResults[i]]]]
  BY <1>1, <1>2
<1>9. Len(suites') = taken
  BY <1>2, <1>8
<1>10. \A i \in 1..taken : suites'[i].test = testResults[i] /\ suites'[i].result = res[testResults[i]]
  BY <1>8
<1>11. {suites'[i].test : i \in 1..Len(suites')} = Tests
  BY <1>6, <1>9, <1>10
<1>12. ASSUME NEW i \in 1..taken
       PROVE  /\ suites'[i].result # "none"
              /\ suites'[i].result = "stockout" => zoneIdx'[suites'[i].test] = Zones
  <2>1. PICK k \in Sent : testResults[i] = testWorkflows[k]
    BY <1>5, <1>12
  <2>2. Ended(testWorkflows[k])
    BY <2>1 DEF ReportInv, Outcome
  <2> QED
    BY <1>1, <1>10, <1>12, <2>1, <2>2 DEF Ended
<1>13. \A i \in 1..Len(suites') :
         /\ suites'[i].result # "none"
         /\ suites'[i].result = "stockout" => zoneIdx'[suites'[i].test] = Zones
  BY <1>9, <1>12
<1>14. (\A w \in Workers : wpc'[w] = "exited") /\ Len(suites') = Len(testWorkflows)
  BY <1>1, <1>2, <1>9
<1>15. testResults' \in Seq(Tests)
  BY <1>7
<1>16. Returns'
  BY <1>7, <1>11, <1>13, <1>14, Zenon DEF Returns
<1> QED
  BY <1>15, <1>16

\* Every step keeps what the report will hold
LEMMA ReportStep ==
  ASSUME RunnerInv, RunnerInv', ReportInv, [Next]_vars
  PROVE  ReportInv'
<1>1. ASSUME NEW w \in Workers, WorkerStep(w) PROVE ReportInv'
  <2>1. TypeOK' /\ Counts' /\ Delivered' /\ Outcome'
    BY <1>1, TypeWorker, CountsStep, DeliveredStep, OutcomeStep DEF ReportInv, RunnerInv
  <2>2. wpc[w] # "exited" /\ mpc' = mpc
    BY <1>1 DEF WorkerStep, Receive, GetProject, Start, RunWorkflow, DumpFailed, Retry, Results,
                DumpLast, Cleanup, Send, Unlock, mainVars
  <2>3. Returns'
    BY <2>2 DEF ReportInv, Returns
  <2> QED
    BY <2>1, <2>3 DEF ReportInv
<1>2. ASSUME UNCHANGED <<taken, shared, wpc, work, zoneIdx, res, metrics>>
      PROVE  Counts' /\ Outcome' /\ Sent' = Sent
  <2>1. \A S, i : Pos(S, i)' <=> Pos(S, i)
    BY <1>2 DEF Pos
  <2>2. Served' = Served /\ Started' = Started /\ Sent' = Sent
    BY <1>2, <2>1 DEF Served, Started, Sent
  <2>3. Counted' = Counted /\ Finished' = Finished
    BY <2>1, <2>2 DEF Counted, Finished
  <2>4. Counts'
    BY <1>2, <2>2, <2>3 DEF ReportInv, Counts
  <2>5. Outcome'
    BY <1>2, <2>2 DEF ReportInv, Outcome, Ended
  <2> QED
    BY <2>2, <2>4, <2>5
<1>3. CASE UNCHANGED vars \/ Returned
  <2>1. UNCHANGED vars
    BY <1>3 DEF Returned
  <2>2. Counts' /\ Outcome' /\ Sent' = Sent
    BY <1>2, <2>1 DEF vars
  <2>3. TypeOK'
    BY <2>1 DEF ReportInv, TypeOK, vars
  <2>4. Returns' /\ Delivered'
    BY <2>1, <2>2 DEF ReportInv, Returns, Delivered, vars
  <2> QED
    BY <2>2, <2>3, <2>4 DEF ReportInv
<1>4. CASE Feed
  <2>1. /\ mpc = "send" /\ mpc' = "wait"
        /\ UNCHANGED <<taken, exclusive, shared, wpc, work, project, zoneIdx, res, metrics,
                       testResults, suites, vms, other, serial>>
    BY <1>4 DEF Feed, cloudVars
  <2>2. Counts' /\ Outcome' /\ Sent' = Sent
    BY <1>2, <2>1
  <2>3. TypeOK'
    BY <2>1 DEF ReportInv, TypeOK
  <2>4. Returns'
    BY <2>1 DEF Returns
  <2>5. Delivered'
    BY <2>1, <2>2 DEF ReportInv, Delivered
  <2> QED
    BY <2>2, <2>3, <2>4, <2>5 DEF ReportInv
<1>5. CASE Collect
  <2>1. /\ mpc' = "done"
        /\ UNCHANGED <<taken, exclusive, shared, wpc, work, project, zoneIdx, res, metrics,
                       vms, other, serial>>
    BY <1>5 DEF Collect, cloudVars
  <2>2. Counts' /\ Outcome'
    BY <1>2, <2>1
  <2>3. Returns' /\ testResults' \in Seq(Tests)
    BY <1>5, CollectStep
  <2>4. TypeOK'
    BY <2>1, <2>3 DEF ReportInv, TypeOK
  <2>5. Delivered'
    BY <2>1 DEF Delivered
  <2> QED
    BY <2>2, <2>3, <2>4, <2>5 DEF ReportInv
<1> QED
  BY <1>1, <1>3, <1>4, <1>5 DEF Next

\* RunTests returns one suite per workflow, whatever workers, projects, locks and failures
\* there were, each with a result, and a test that ended with a stockout was tried in every
\* zone; the channels never run dry and the metrics stay within the number of workflows
THEOREM ReportIsComplete == Spec => []EveryTestReported
<1>1. ReportInv => EveryTestReported
  BY DEF ReportInv, Returns, EveryTestReported
<1> QED
  BY <1>1, ReportInit, ReportStep, RunnerInvariant, PTL DEF Spec

-----------------------------------------------------------------------------
(* The manager around the runner *)

\* The results RunTests returns are the ones the tests have
SuitesKept ==
  mpc = "done" =>
    suites = [i \in 1..Len(testWorkflows) |->
                [test |-> suites[i].test, result |-> res[suites[i].test]]]

\* RunTests is called late and only once
NotYet ==
  stage \in {"flags", "setup", "built"} =>
    /\ mpc = "send"
    /\ vms \cup other = {}
    /\ \A w \in Workers : wpc[w] = "recv"

\* The report is written by the step that exits, and by no other
Stages ==
  /\ stage \in {"flags", "setup", "built", "run", "report", "exited"}
  /\ exit \in {Running, 0, 1}
  /\ (exit = Running) = (stage # "exited")
  /\ stage # "exited" => junit = NoReport
  /\ stage = "report" => mpc = "done"

ExitInv == NotYet /\ Stages /\ SuitesKept /\ ExitTellsTheTruth

-----------------------------------------------------------------------------

\* A step of main is a step of RunTests or leaves all of it alone
LEMMA MainStep ==
  ASSUME [ManagerNext]_allVars
  PROVE  [Next]_vars
BY DEF ManagerNext, ManagerStep, allVars, ParseFlags, NewTestWorkflow, SetupDone, PrintTests,
       ValidateTests, BeginRun, RunTests, Download, Report, Exited, Fatal

\* main drives RunTests without a step that RunTests itself could not take: the test
\* manager implements the specification of the runner
THEOREM ManagerRunsTests == ManagerSpec => Spec
<1>1. ManagerInit => Init
  BY DEF ManagerInit
<1>2. [ManagerNext]_allVars => [Next]_vars
  BY MainStep
<1> QED
  BY <1>1, <1>2, PTL DEF ManagerSpec, Spec

\* In the test manager, locked tests never meet in a project
THEOREM ManagerLocksHold == ManagerSpec => []LockedApart
BY ManagerRunsTests, LocksHold, PTL

\* In the test manager, a cleanup has looked for all that a test created
THEOREM ManagerCleansUp == ManagerSpec => []NothingLeft
BY ManagerRunsTests, CleanupIsComplete, PTL

-----------------------------------------------------------------------------
(* The exit status *)

\* With no worker in a test, nothing is left
LEMMA IdleIsClean ==
  ASSUME RunnerInv, \A w \in Workers : wpc[w] \in {"recv", "exited"}
  PROVE  vms \cup other = {}
BY DEF RunnerInv, NothingLeft

\* log.Fatal is called where no worker is at work
LEMMA FatalStep ==
  ASSUME ExitInv, Fatal, stage # "exited",
         vms \cup other = {}, \A w \in Workers : wpc[w] \in {"recv", "exited"}
  PROVE  ExitInv'
<1>1. /\ stage' = "exited" /\ exit' = 1 /\ junit' = NoReport
      /\ UNCHANGED <<mpc, suites, res, vms, other, wpc>>
  BY DEF Fatal, Leave, vars, ExitInv, Stages
<1>2. NotYet' /\ Stages' /\ SuitesKept'
  BY <1>1 DEF ExitInv, NotYet, Stages, SuitesKept, Running
<1>3. ExitTellsTheTruth'
  BY <1>1 DEF ExitTellsTheTruth, ExitsClean, NoReport
<1> QED
  BY <1>2, <1>3 DEF ExitInv

\* What RunTests returns is what the report says
LEMMA ReportSays ==
  ASSUME ExitInv, RunnerInv, ReportInv, stage = "report"
  PROVE  /\ {suites[i].test : i \in DOMAIN suites} = Tests
         /\ DOMAIN suites = 1..Len(suites)
         /\ Tests # {}
         /\ \A w \in Workers : wpc[w] = "exited"
         /\ \A tests : FailedSuites(tests) = {} =>
              \A t \in Tests : res[t] \in {"success", "skipped"}
<1>1. mpc = "done"
  BY DEF ExitInv, Stages
<1>2. /\ {suites[i].test : i \in 1..Len(suites)} = Tests
      /\ Len(suites) = Len(testWorkflows)
      /\ \A w \in Workers : wpc[w] = "exited"
      /\ \A i \in 1..Len(suites) : suites[i].result # "none"
  BY <1>1 DEF ReportInv, Returns
<1>3. /\ DOMAIN suites = 1..Len(testWorkflows)
      /\ \A i \in 1..Len(testWorkflows) : suites[i].result = res[suites[i].test]
  <2>1. suites = [i \in 1..Len(testWorkflows) |->
                    [test |-> suites[i].test, result |-> res[suites[i].test]]]
    BY <1>1 DEF ExitInv, SuitesKept
  <2> QED
    BY <2>1
<1>4. Tests # {}
  <2>1. testWorkflows[1] \in Tests
    BY RunnerAssumption DEF Tests
  <2> QED
    BY <2>1
<1>5. ASSUME NEW tests, FailedSuites(tests) = {}
      PROVE  \A t \in Tests : res[t] \in {"success", "skipped"}
  <2> SUFFICES ASSUME NEW t \in Tests PROVE res[t] \in {"success", "skipped"}
    OBVIOUS
  <2>1. PICK i \in 1..Len(testWorkflows) : t = suites[i].test
    BY <1>2
  <2>2. suites[i].result \notin Errors
    BY <1>3, <1>5 DEF FailedSuites
  <2>3. res[t] = suites[i].result /\ res[t] # "none"
    BY <1>2, <1>3, <2>1
  <2>4. res[t] \in Errors \cup {"none", "skipped", "success"}
    BY DEF ReportInv, TypeOK
  <2> QED
    BY <2>2, <2>3, <2>4
<1> QED
  BY <1>2, <1>3, <1>4, <1>5

\* A step of main, or of RunTests under it, keeps the truth of the exit status
LEMMA ExitStep ==
  ASSUME ExitInv, RunnerInv, ReportInv, RunnerInv', ReportInv', [ManagerNext]_allVars
  PROVE  ExitInv'
<1>1. CASE UNCHANGED allVars \/ Exited
  BY <1>1 DEF Exited, allVars, managerVars, vars, ExitInv, NotYet, Stages, SuitesKept,
              ExitTellsTheTruth, ExitsClean
<1>2. ASSUME stage # "exited", stage' # "exited", exit' = exit, junit' = junit, NotYet', Stages',
             SuitesKept'
      PROVE  ExitInv'
  <2>1. exit' = Running
    BY <1>2 DEF ExitInv, Stages
  <2>2. ExitTellsTheTruth'
    BY <2>1 DEF ExitTellsTheTruth, ExitsClean, Running
  <2> QED
    BY <1>2, <2>2 DEF ExitInv
<1>3. ASSUME UNCHANGED <<vars, exit, junit>>, stage # "exited",
             \/ stage \in {"flags", "setup", "built"} /\ stage' \in {"setup", "built", "run"}
             \/ stage' = "report" /\ mpc = "done"
      PROVE  ExitInv'
  <2>1. NotYet' /\ Stages' /\ SuitesKept'
    BY <1>3 DEF vars, ExitInv, NotYet, Stages, SuitesKept
  <2> QED
    BY <1>2, <1>3, <2>1
<1>4. CASE stage \in {"flags", "setup", "built"} /\ Fatal
  BY <1>4, FatalStep DEF ExitInv, NotYet
<1>5. CASE ParseFlags \/ NewTestWorkflow \/ SetupDone \/ BeginRun
  <2>1. CASE Fatal
    BY <1>4, <1>5, <2>1 DEF ParseFlags, NewTestWorkflow, SetupDone, BeginRun
  <2>2. CASE ~Fatal
    <3>1. /\ stage \in {"flags", "setup", "built"} /\ stage' \in {"setup", "built", "run"}
          /\ UNCHANGED <<vars, exit, junit>>
      BY <1>5, <2>2 DEF ParseFlags, NewTestWorkflow, SetupDone, BeginRun
    <3> QED
      BY <1>3, <3>1
  <2> QED
    BY <2>1, <2>2
<1>6. CASE PrintTests \/ ValidateTests
  <2>1. /\ stage = "built" /\ stage' = "exited" /\ exit' = 0 /\ flags.mode # "run"
        /\ UNCHANGED <<vars, flags, junit>>
    BY <1>6 DEF PrintTests, ValidateTests, Leave, setupVars
  <2>2. NotYet' /\ Stages' /\ SuitesKept'
    BY <2>1 DEF vars, ExitInv, NotYet, Stages, SuitesKept, Running
  <2>3. ExitTellsTheTruth'
    BY <2>1 DEF vars, ExitInv, NotYet, Stages, ExitTellsTheTruth, ExitsClean, NoReport
  <2> QED
    BY <2>2, <2>3 DEF ExitInv
<1>7. CASE RunTests
  <2>1. CASE Next /\ UNCHANGED managerVars
    <3>1. stage = "run" /\ UNCHANGED <<stage, exit, junit>>
      BY <1>7, <2>1 DEF RunTests, managerVars
    <3>2. NotYet' /\ Stages'
      BY <3>1 DEF ExitInv, NotYet, Stages
    <3>3. SuitesKept'
      <4>1. CASE Collect
        <5>1. suites' = [i \in 1..Len(testWorkflows) |->
                           [test |-> testResults[i], result |-> res[testResults[i]]]]
              /\ res' = res
          BY <4>1 DEF Collect
        <5>2. \A i \in 1..Len(testWorkflows) : suites'[i].test = testResults[i]
          BY <5>1
        <5>3. suites' = [i \in 1..Len(testWorkflows) |->
                           [test |-> suites'[i].test, result |-> res'[suites'[i].test]]]
          BY <5>1, <5>2
        <5> QED
          BY <5>3 DEF SuitesKept
      <4>2. CASE Feed
        BY <4>2 DEF Feed, SuitesKept
      <4>3. CASE Returned
        BY <4>3 DEF Returned, vars, ExitInv, SuitesKept
      <4>4. ASSUME NEW w \in Workers, WorkerStep(w) PROVE SuitesKept'
        <5>1. wpc[w] # "exited" /\ mpc' = mpc
          BY <4>4 DEF WorkerStep, Receive, GetProject, Start, RunWorkflow, DumpFailed, Retry,
                      Results, DumpLast, Cleanup, Send, Unlock, mainVars
        <5> QED
          BY <5>1 DEF ReportInv, Returns, SuitesKept
      <4> QED
        BY <2>1, <4>1, <4>2, <4>3, <4>4 DEF Next
    <3> QED
      BY <1>2, <3>1, <3>2, <3>3
  <2>2. CASE (\A w \in Workers : wpc[w] = "exited") /\ Fatal
    BY <1>7, <2>2, FatalStep, IdleIsClean DEF RunTests
  <2> QED
    BY <1>7, <2>1, <2>2 DEF RunTests
<1>8. CASE Download
  BY <1>3, <1>8 DEF Download
<1>9. CASE Report
  <2>0. stage = "report" /\ (\A w \in Workers : wpc[w] = "exited") /\ vms \cup other = {}
    BY <1>9, ReportSays, IdleIsClean DEF Report
  <2>1. CASE Fatal
    BY <2>0, <2>1, FatalStep
  <2>2. ASSUME NEW tests \in SUBSET {suites[i].test :
                                       i \in {k \in DOMAIN suites : suites[k].result = "success"}},
               NEW n \in 0..Len(suites), junit' \in Written(n, tests),
               Leave(IF flags.setExitStatus /\ FailedSuites(tests) # {} THEN 1 ELSE 0),
               UNCHANGED <<vars, setupVars>>
        PROVE  ExitInv'
    <3>1. /\ stage' = "exited" /\ exit' \in {0, 1}
          /\ exit' = 1 <=> flags.setExitStatus /\ FailedSuites(tests) # {}
          /\ UNCHANGED <<flags, mpc, suites, res, vms, other, wpc>>
      BY <2>2 DEF Leave, vars, setupVars
    <3>2. /\ junit'.failed \subseteq FailedSuites(tests)
          /\ junit'.whole => junit'.suites = Tests /\ junit'.failed = FailedSuites(tests)
      <4>1. {suites[i].test : i \in 1..Len(suites)} = Tests
        BY <2>0, ReportSays
      <4>2. FailedSuites(tests) \subseteq Tests
        <5>1. tests \subseteq Tests
          BY <2>0, <2>2, ReportSays
        <5> QED
          BY <2>0, <5>1, ReportSays DEF FailedSuites
      <4> DEFINE part == {suites[i].test : i \in 1..n}
      <4>3. PICK all \in {FALSE, n = Len(suites)} :
              junit' = [suites |-> part, failed |-> FailedSuites(tests) \cap part, whole |-> all]
        BY <2>2 DEF Written
      <4>4. junit'.suites = part /\ junit'.failed = FailedSuites(tests) \cap part /\ junit'.whole = all
        BY <4>3
      <4>5. ASSUME junit'.whole PROVE n = Len(suites)
        BY <4>3, <4>4, <4>5
      <4>6. n = Len(suites) => part = Tests
        BY <4>1
      <4> QED
        BY <4>2, <4>4, <4>5, <4>6
    <3>3. NotYet' /\ Stages' /\ SuitesKept'
      BY <3>1 DEF ExitInv, NotYet, Stages, SuitesKept, Running
    <3>4. ExitsClean'
      BY <2>0, <3>1 DEF ExitsClean
    <3>5. FailedSuites(tests) = {} => \A t \in Tests : res'[t] \in {"success", "skipped"}
      BY <2>0, <3>1, ReportSays
    <3>6. ExitTellsTheTruth'
      BY <3>1, <3>2, <3>4, <3>5 DEF ExitTellsTheTruth
    <3> QED
      BY <3>3, <3>6 DEF ExitInv
  <2> QED
    BY <1>9, <2>1, <2>2 DEF Report
<1> QED
  BY <1>1, <1>5, <1>6, <1>7, <1>8, <1>9 DEF ManagerNext, ManagerStep

\* The exit status of the test manager can be relied on, for every command line and
\* however its tests fail: status 0 of a run means that none of its workflows failed when
\* the status is asked for, and that the report has every workflow unless a write of it
\* failed, and no exit leaves a resource or a worker
THEOREM ExitIsTrue == ManagerSpec => []ExitTellsTheTruth
<1>1. ManagerInit => ExitInv
  BY DEF ManagerInit, Init, ExitInv, NotYet, Stages, SuitesKept, ExitTellsTheTruth, ExitsClean,
         Running
<1>2. ManagerSpec => []RunnerInv
  BY ManagerRunsTests, RunnerInvariant, PTL
<1>3. ManagerSpec => []ReportInv
  BY ManagerRunsTests, RunnerInvariant, ReportInit, ReportStep, PTL DEF Spec
<1>4. ExitInv => ExitTellsTheTruth
  BY DEF ExitInv
<1> QED
  BY <1>1, <1>2, <1>3, <1>4, ExitStep, PTL DEF ManagerSpec

-----------------------------------------------------------------------------
(* Which workflows are made, and in which zones *)

\* No two positions of a list have the same name
NamedOnce(list) ==
  \A i, k \in DOMAIN list : list[i].name = list[k].name /\ list[i].name # None => i = k

\* Neither a zone nor an image is named twice on a command line
NoRepeats ==
  \A f \in Flags : NoneTwice(f.zones) /\ NamedOnce(f.images)

\* What a loop keeps of a list: elements at positions of K, no position twice
LEMMA KeptPicks ==
  ASSUME NEW list, list \in Seq(ToSet(list)), NEW K
  PROVE  /\ Kept(list, K) \in Seq(ToSet(Kept(list, K)))
         /\ ToSet(Kept(list, K)) = {list[i] : i \in K \cap DOMAIN list}
         /\ \E p \in [1..Len(Kept(list, K)) -> K \cap DOMAIN list] :
              /\ \A i \in 1..Len(Kept(list, K)) : Kept(list, K)[i] = list[p[i]]
              /\ \A i, k \in 1..Len(Kept(list, K)) : p[i] = p[k] => i = k
<1> DEFINE seqs == [i \in DOMAIN list |-> IF i \in K THEN <<list[i]>> ELSE <<>>]
           kept == Kept(list, K)
<1>1. kept = FlattenSeq(seqs) /\ DOMAIN list = 1..Len(list)
  BY DEF Kept
<1>2. Picks(kept, list, K, Len(list)) /\ ToSet(kept) = {list[i] : i \in K \cap DOMAIN list}
  BY <1>1, FlattenFilter, Zenon
<1> HIDE DEF kept
<1>3. kept \in Seq(ToSet(list))
  BY <1>2 DEF Picks
<1>4. kept \in Seq(ToSet(kept))
  <2>1. Len(kept) \in Nat /\ kept = [i \in 1..Len(kept) |-> kept[i]]
    BY <1>3
  <2> QED
    BY <2>1, ListForm
<1> QED
  BY <1>1, <1>2, <1>4 DEF Picks, kept

\* A loop that keeps some elements of a list brings none in twice
LEMMA KeptOnce ==
  ASSUME NEW list, list \in Seq(ToSet(list)), NEW K
  PROVE  /\ NamedOnce(list) => NamedOnce(Kept(list, K))
         /\ NoneTwice(list) => NoneTwice(Kept(list, K))
<1> DEFINE kept == Kept(list, K)
<1>1. PICK p \in [1..Len(kept) -> K \cap DOMAIN list] :
        /\ \A i \in 1..Len(kept) : kept[i] = list[p[i]]
        /\ \A i, k \in 1..Len(kept) : p[i] = p[k] => i = k
  BY KeptPicks
<1>2. DOMAIN kept = 1..Len(kept) /\ DOMAIN list = 1..Len(list)
  BY KeptPicks
<1> HIDE DEF kept
<1>3. \A i \in 1..Len(kept) : p[i] \in 1..Len(list)
  BY <1>1, <1>2
<1> QED
  BY <1>1, <1>2, <1>3 DEF NamedOnce, NoneTwice, kept

\* -all_image_families lists no family twice, whatever images the project has
LEMMA FamiliesOnce ==
  ASSUME NEW list, list \in Seq(ToSet(list))
  PROVE  /\ FamilyImages(list) \in Seq(ToSet(FamilyImages(list)))
         /\ NamedOnce(FamilyImages(list))
<1> DEFINE live == {i \in DOMAIN list : list[i].family # None /\ ~list[i].deprecated}
           K == {i \in live : \A k \in live : k < i => list[k].family # list[i].family}
           once == Kept(list, K)
<1> HIDE DEF K
<1>1. PICK p \in [1..Len(once) -> K \cap DOMAIN list] :
        /\ \A i \in 1..Len(once) : once[i] = list[p[i]]
        /\ \A i, k \in 1..Len(once) : p[i] = p[k] => i = k
  BY KeptPicks
<1>2. Len(once) \in Nat /\ DOMAIN once = 1..Len(once) /\ DOMAIN list \subseteq Nat
  <2>1. once \in Seq(ToSet(once))
    BY KeptPicks
  <2> HIDE DEF once
  <2> QED
    BY <2>1
<1>3. FamilyImages(list) = [i \in 1..Len(once) |-> [name |-> once[i].family, path |-> TRUE, keys |-> {}]]
  BY <1>2 DEF FamilyImages, K
<1>4. \A i, k \in K : list[i].family = list[k].family => i = k
  <2>1. ASSUME NEW i \in K, NEW k \in K, list[i].family = list[k].family PROVE i = k
    <3>1. ~(k < i) /\ ~(i < k)
      BY <2>1 DEF K
    <3>2. i \in Nat /\ k \in Nat
      BY <1>2 DEF K
    <3> QED
      BY <3>1, <3>2
  <2> QED
    BY <2>1
<1> HIDE DEF once
<1>5. FamilyImages(list) \in Seq(ToSet(FamilyImages(list))) /\ DOMAIN FamilyImages(list) = 1..Len(once)
  <2>1. FamilyImages(list) = [i \in 1..Len(once) |-> FamilyImages(list)[i]]
    BY <1>3
  <2> QED
    BY <1>2, <2>1, ListForm
<1>6. ASSUME NEW i \in 1..Len(once), NEW k \in 1..Len(once),
             FamilyImages(list)[i].name = FamilyImages(list)[k].name
      PROVE  i = k
  <2>1. once[i].family = once[k].family
    BY <1>3, <1>6
  <2>2. p[i] \in K /\ p[k] \in K /\ list[p[i]].family = list[p[k]].family
    BY <1>1, <2>1
  <2> QED
    BY <1>1, <1>4, <2>2
<1> QED
  BY <1>5, <1>6 DEF NamedOnce

\* The images that tests are made for: each is named, of the architecture asked for, and
\* there once
LEMMA ImagesOnce ==
  ASSUME NEW f \in Flags, NamedOnce(f.images)
  PROVE  /\ UsedImages(f) \in Seq(ToSet(UsedImages(f)))
         /\ \A i \in 1..Len(UsedImages(f)) : f.arch \in {None, Arch[UsedImages(f)[i].name]}
         /\ \A i, k \in 1..Len(UsedImages(f)) :
              UsedImages(f)[i].name = UsedImages(f)[k].name => i = k
<1> DEFINE listed == Listed(f)
           chosen == ImagesOf(f)
           used == UsedImages(f)
<1>1. listed \in Seq(ToSet(listed)) /\ NamedOnce(listed)
  BY FamiliesOnce, ManagerAssumption DEF Listed
<1>2. /\ chosen \in Seq(ToSet(chosen)) /\ NamedOnce(chosen)
      /\ \A i \in 1..Len(chosen) : f.arch \in {None, Arch[chosen[i].name]}
  <2>1. CASE f.arch = None
    <3>1. chosen = listed
      BY <2>1 DEF ImagesOf
    <3> HIDE DEF chosen, listed
    <3> QED
      BY <1>1, <2>1, <3>1
  <2>2. CASE f.arch # None
    <3> DEFINE K == {i \in DOMAIN listed : listed[i].name # None /\ Arch[listed[i].name] = f.arch}
    <3>1. chosen = Kept(listed, K)
      BY <2>2 DEF ImagesOf, filterByArchitecture
    <3> HIDE DEF chosen, listed
    <3>2. chosen \in Seq(ToSet(chosen)) /\ ToSet(chosen) = {listed[i] : i \in K \cap DOMAIN listed}
      BY <1>1, <3>1, KeptPicks
    <3>3. NamedOnce(chosen)
      BY <1>1, <3>1, KeptOnce
    <3>4. ASSUME NEW i \in 1..Len(chosen) PROVE f.arch = Arch[chosen[i].name]
      <4>1. chosen[i] \in ToSet(chosen)
        BY <3>2 DEF ToSet
      <4>2. PICK k \in K : chosen[i] = listed[k]
        BY <3>2, <4>1
      <4> QED
        BY <4>2
    <3> QED
      BY <3>2, <3>3, <3>4
  <2> QED
    BY <2>1, <2>2
<1> DEFINE K == {i \in DOMAIN chosen : chosen[i].name # None}
<1>3. used = Kept(chosen, K)
  BY DEF UsedImages
<1> HIDE DEF chosen, used
<1>4. /\ used \in Seq(ToSet(used)) /\ NamedOnce(used)
      /\ ToSet(used) = {chosen[i] : i \in K \cap DOMAIN chosen}
  BY <1>2, <1>3, KeptPicks, KeptOnce
<1>5. ASSUME NEW i \in 1..Len(used)
      PROVE  used[i].name # None /\ f.arch \in {None, Arch[used[i].name]}
  <2>1. used[i] \in ToSet(used)
    BY <1>4 DEF ToSet
  <2>2. PICK k \in K \cap DOMAIN chosen : used[i] = chosen[k]
    BY <1>4, <2>1
  <2>3. k \in 1..Len(chosen)
    BY <1>2
  <2> QED
    BY <1>2, <2>2, <2>3
<1>6. DOMAIN used = 1..Len(used)
  BY <1>4
<1> QED
  BY <1>4, <1>5, <1>6 DEF NamedOnce, used

\* The packages that tests are made for, each once
LEMMA PackagesOnce ==
  ASSUME NEW f
  PROVE  /\ SelectedPackages(f) \in Seq(ToSet(SelectedPackages(f)))
         /\ NoneTwice(SelectedPackages(f))
         /\ \A i \in 1..Len(SelectedPackages(f)) : Selected(f, SelectedPackages(f)[i])
<1> DEFINE K == {p \in DOMAIN testPackages : Selected(f, testPackages[p])}
           packages == SelectedPackages(f)
<1>1. packages = Kept(testPackages, K)
  BY DEF SelectedPackages
<1>2. NoneTwice(testPackages)
  BY ManagerAssumption DEF NoneTwice
<1> HIDE DEF packages
<1>3. /\ packages \in Seq(ToSet(packages)) /\ NoneTwice(packages)
      /\ ToSet(packages) = {testPackages[p] : p \in K \cap DOMAIN testPackages}
  BY <1>1, <1>2, KeptPicks, KeptOnce, ManagerAssumption
<1>4. ASSUME NEW i \in 1..Len(packages) PROVE Selected(f, packages[i])
  <2>1. packages[i] \in ToSet(packages)
    BY <1>3 DEF ToSet
  <2>2. PICK p \in K : packages[i] = testPackages[p]
    BY <1>3, <2>1
  <2> QED
    BY <2>2
<1> QED
  BY <1>3, <1>4 DEF packages

\* The two loops of main meet every selected package with every image, and no pair twice
LEMMA PairsOnce ==
  ASSUME NEW f
  PROVE  LET A == ToSet(SelectedPackages(f))
             B == ToSet(UsedImages(f))
         IN  (UsedImages(f) \in Seq(B) /\ NoneTwice(UsedImages(f))) =>
               /\ PairsOf(f) \in Seq(A \X B)
               /\ ToSet(PairsOf(f)) = A \X B
               /\ NoneTwice(PairsOf(f))
<1> DEFINE packages == SelectedPackages(f)
           images == UsedImages(f)
           A == ToSet(packages)
           B == ToSet(images)
           Row(p) == [i \in DOMAIN images |-> <<packages[p], images[i]>>]
           rows == [p \in DOMAIN packages |-> Row(p)]
<1> SUFFICES ASSUME images \in Seq(B) /\ NoneTwice(images)
             PROVE  PairsOf(f) \in Seq(A \X B) /\ ToSet(PairsOf(f)) = A \X B /\ NoneTwice(PairsOf(f))
  OBVIOUS
<1>1. PairsOf(f) = FlattenSeq(rows)
  BY DEF PairsOf
<1>2. packages \in Seq(A) /\ NoneTwice(packages)
  BY PackagesOnce
<1> HIDE DEF packages, images
<1>3. /\ DOMAIN packages = 1..Len(packages) /\ Len(packages) \in Nat
      /\ DOMAIN images = 1..Len(images) /\ Len(images) \in Nat
      /\ A = {packages[p] : p \in 1..Len(packages)}
      /\ B = {images[i] : i \in 1..Len(images)}
  <2>1. DOMAIN packages = 1..Len(packages) /\ DOMAIN images = 1..Len(images)
    BY <1>2
  <2> QED
    BY <1>2, <2>1 DEF ToSet
<1> HIDE DEF A, B
<1>4. ASSUME NEW p \in 1..Len(packages)
      PROVE  /\ Row(p) \in Seq(A \X B) /\ Len(Row(p)) = Len(images)
             /\ ToSet(Row(p)) = {<<packages[p], b>> : b \in B}
             /\ NoneTwice(Row(p))
  <2>1. \A i \in 1..Len(images) : <<packages[p], images[i]>> \in A \X B
    BY <1>3
  <2>2. Row(p) = [i \in 1..Len(images) |-> <<packages[p], images[i]>>]
    BY <1>3
  <2>3. Row(p) \in Seq(A \X B) /\ Len(Row(p)) = Len(images) /\ DOMAIN Row(p) = 1..Len(images)
    BY <1>3, <2>1, <2>2
  <2>4. \A i \in 1..Len(images) : Row(p)[i] = <<packages[p], images[i]>>
    BY <2>2
  <2> HIDE DEF Row
  <2>5. ToSet(Row(p)) = {<<packages[p], b>> : b \in B}
    BY <1>3, <2>3, <2>4 DEF ToSet
  <2>6. NoneTwice(Row(p))
    BY <2>3, <2>4 DEF NoneTwice
  <2> QED
    BY <2>3, <2>5, <2>6
<1>5. /\ rows \in Seq(Seq(A \X B)) /\ Len(rows) = Len(packages)
      /\ \A p \in 1..Len(packages) : rows[p] = Row(p)
  <2> HIDE DEF Row
  <2>1. rows = [p \in 1..Len(packages) |-> Row(p)]
    BY <1>3
  <2>2. \A p \in 1..Len(packages) : Row(p) \in Seq(A \X B)
    BY <1>4
  <2> DEFINE S == Seq(A \X B)
  <2>3. rows \in [1..Len(packages) -> S]
    BY <2>1, <2>2
  <2> HIDE DEF S
  <2>4. rows \in Seq(S) /\ Len(rows) = Len(packages)
    <3> HIDE DEF rows
    <3> QED
      BY <1>3, <2>3
  <2> QED
    BY <2>1, <2>4 DEF S
<1> HIDE DEF rows, Row
<1>6. \A p, q \in 1..Len(rows) : p # q => ToSet(rows[p]) \cap ToSet(rows[q]) = {}
  <2>1. ASSUME NEW p \in 1..Len(rows), NEW q \in 1..Len(rows), p # q
        PROVE  ToSet(rows[p]) \cap ToSet(rows[q]) = {}
    <3>1. packages[p] # packages[q]
      BY <1>2, <1>5, <2>1 DEF NoneTwice
    <3>2. /\ ToSet(rows[p]) = {<<packages[p], b>> : b \in B}
          /\ ToSet(rows[q]) = {<<packages[q], b>> : b \in B}
      BY <1>4, <1>5
    <3> QED
      BY <3>1, <3>2
  <2> QED
    BY <2>1
<1>7. NoneTwice(FlattenSeq(rows))
  BY <1>4, <1>5, <1>6, FlattenNoneTwice
<1>8. ToSet(FlattenSeq(rows)) = A \X B /\ FlattenSeq(rows) \in Seq(A \X B)
  <2>1. /\ FlattenSeq(rows) \in Seq(A \X B)
        /\ ToSet(FlattenSeq(rows)) = UNION {ToSet(rows[p]) : p \in 1..Len(rows)}
    BY <1>5, FlattenAll
  <2>2. \A p \in 1..Len(rows) : ToSet(rows[p]) = {<<packages[p], b>> : b \in B}
    BY <1>4, <1>5
  <2>3. \A p \in 1..Len(rows) : ToSet(rows[p]) \subseteq A \X B
    BY <1>3, <1>5, <2>2
  <2>4. ASSUME NEW a \in A, NEW b \in B
        PROVE  \E p \in 1..Len(rows) : <<a, b>> \in ToSet(rows[p])
    <3>1. PICK p \in 1..Len(rows) : a = packages[p]
      BY <1>3, <1>5
    <3> QED
      BY <2>2, <3>1
  <2>5. A \X B \subseteq UNION {ToSet(rows[p]) : p \in 1..Len(rows)}
    BY <2>4
  <2>6. UNION {ToSet(rows[p]) : p \in 1..Len(rows)} \subseteq A \X B
    BY <2>3
  <2> QED
    BY <2>1, <2>5, <2>6
<1> QED
  BY <1>1, <1>7, <1>8 DEF A, B, packages, images

\* Counting around
LEMMA Around ==
  ASSUME NEW L \in Nat \ {0}, NEW a \in Nat
  PROVE  /\ a % L \in 0..(L - 1)
         /\ a < L => a % L = a /\ (a + L) % L = a
OBVIOUS

\* What there is to do for a command line: what Chosen says of the workflows holds of the
\* pairs they are made from
LEMMA PairsFacts ==
  ASSUME NoRepeats, NEW f \in Flags
  PROVE  LET A == ToSet(SelectedPackages(f))
             B == ToSet(UsedImages(f))
         IN  /\ PairsOf(f) \in Seq(A \X B) /\ Len(PairsOf(f)) \in Nat
             /\ ToSet(PairsOf(f)) = A \X B
             /\ NoneTwice(PairsOf(f))
             /\ \A a \in A : a \in f.filter /\ a \notin f.exclude
             /\ \A b \in B : f.arch \in {None, Arch[b.name]}
             /\ \A b, c \in B : b.name = c.name => b = c
<1> DEFINE packages == SelectedPackages(f)
           images == UsedImages(f)
           A == ToSet(packages)
           B == ToSet(images)
<1>1. /\ images \in Seq(B)
      /\ \A i \in 1..Len(images) : f.arch \in {None, Arch[images[i].name]}
      /\ \A i, k \in 1..Len(images) : images[i].name = images[k].name => i = k
  BY ImagesOnce DEF NoRepeats
<1>2. packages \in Seq(A) /\ \A p \in 1..Len(packages) : Selected(f, packages[p])
  BY PackagesOnce
<1>3. NoneTwice(images)
  <2> HIDE DEF images
  <2> QED
    BY <1>1 DEF NoneTwice
<1>4. PairsOf(f) \in Seq(A \X B) /\ ToSet(PairsOf(f)) = A \X B /\ NoneTwice(PairsOf(f))
  BY <1>1, <1>3, PairsOnce
<1> HIDE DEF images, packages
<1>5. A = {packages[p] : p \in 1..Len(packages)} /\ B = {images[i] : i \in 1..Len(images)}
  <2>1. DOMAIN packages = 1..Len(packages) /\ DOMAIN images = 1..Len(images)
    BY <1>1, <1>2
  <2> QED
    BY <2>1 DEF ToSet
<1> HIDE DEF A, B
<1>6. \A a \in A : a \in f.filter /\ a \notin f.exclude
  BY <1>2, <1>5 DEF Selected
<1>7. \A b \in B : f.arch \in {None, Arch[b.name]}
  BY <1>1, <1>5
<1>8. ASSUME NEW b \in B, NEW c \in B, b.name = c.name PROVE b = c
  <2>1. PICK i \in 1..Len(images) : b = images[i]
    BY <1>5
  <2>2. PICK k \in 1..Len(images) : c = images[k]
    BY <1>5
  <2> QED
    BY <1>1, <1>8, <2>1, <2>2
<1>9. Len(PairsOf(f)) \in Nat
  BY <1>4
<1> QED
  BY <1>4, <1>6, <1>7, <1>8, <1>9 DEF A, B, images, packages

\* A list of zones from an index on and around begins at that index and has all of them
LEMMA Rotated ==
  ASSUME NEW f \in Flags, f.zones # <<>>, NEW idx \in 0..(Len(f.zones) - 1)
  PROVE  /\ rotatedZones(f, idx)[1] = f.zones[idx + 1]
         /\ {rotatedZones(f, idx)[k] : k \in DOMAIN rotatedZones(f, idx)}
              = {f.zones[k] : k \in DOMAIN f.zones}
<1> DEFINE L == Len(f.zones)
           rotated == rotatedZones(f, idx)
<1>1. f.zones \in Seq(ToSet(f.zones)) /\ L \in Nat \ {0} /\ DOMAIN f.zones = 1..L
  BY ManagerAssumption
<1>2. rotated = [i \in 1..L |-> f.zones[((idx + i - 1) % L) + 1]]
  BY <1>1 DEF rotatedZones
<1> HIDE DEF rotated, L
<1>3. idx \in Nat /\ idx < L
  BY <1>1 DEF L
<1>4. \A k \in 1..L : idx + k - 1 \in Nat /\ ((idx + k - 1) % L) + 1 \in 1..L
  <2> TAKE k \in 1..L
  <2>1. idx + k - 1 \in Nat
    BY <1>1, <1>3
  <2>2. (idx + k - 1) % L \in 0..(L - 1)
    BY <1>1, <2>1, Around
  <2> QED
    BY <1>1, <2>1, <2>2
<1>5. rotated[1] = f.zones[idx + 1]
  <2>1. idx + 1 - 1 = idx /\ 1 \in 1..L
    BY <1>1, <1>3
  <2>2. idx % L = idx
    BY <1>1, <1>3, Around
  <2> QED
    BY <1>2, <2>1, <2>2
<1>6. ASSUME NEW k \in 1..L PROVE \E i \in 1..L : rotated[i] = f.zones[k]
  <2>1. k - 1 \in Nat /\ k - 1 < L
    BY <1>1
  <2>2. (k - 1) % L = k - 1 /\ (k - 1 + L) % L = k - 1
    BY <1>1, <2>1, Around
  <2>3. CASE idx < k
    <3>1. k - idx \in 1..L /\ idx + (k - idx) - 1 = k - 1 /\ (k - 1) + 1 = k
      BY <1>1, <1>3, <2>3
    <3> QED
      BY <1>2, <2>2, <3>1
  <2>4. CASE ~(idx < k)
    <3>1. k - idx + L \in 1..L /\ idx + (k - idx + L) - 1 = k - 1 + L /\ (k - 1) + 1 = k
      BY <1>1, <1>3, <2>4
    <3> QED
      BY <1>2, <2>2, <3>1
  <2> QED
    BY <2>3, <2>4
<1>7. \A i \in 1..L : \E k \in 1..L : rotated[i] = f.zones[k]
  BY <1>2, <1>4
<1>8. DOMAIN rotated = 1..L
  BY <1>2
<1>9. {rotated[k] : k \in DOMAIN rotated} = {f.zones[k] : k \in DOMAIN f.zones}
  <2>1. {rotated[k] : k \in 1..L} \subseteq {f.zones[k] : k \in 1..L}
    BY <1>7
  <2>2. {f.zones[k] : k \in 1..L} \subseteq {rotated[k] : k \in 1..L}
    BY <1>6
  <2> QED
    BY <1>1, <1>8, <2>1, <2>2
<1> QED
  BY <1>5, <1>9 DEF rotated

\* The workflows of a list that begin in a zone
Firsts(list, z) == {i \in 1..Len(list) : list[i].zones[1] = z}

\* One workflow more is one more that begins in its first zone
LEMMA OneMoreFirst ==
  ASSUME NEW list, Len(list) \in Nat, list = [i \in 1..Len(list) |-> list[i]], NEW w
  PROVE  LET more == Append(list, w)
         IN  /\ Len(more) = Len(list) + 1 /\ more = [i \in 1..Len(more) |-> more[i]]
             /\ more[Len(more)] = w
             /\ \A i \in 1..Len(list) : more[i] = list[i]
             /\ \A z : /\ Cardinality(Firsts(list, z)) \in Nat
                       /\ Cardinality(Firsts(more, z)) =
                            IF z = w.zones[1] THEN Cardinality(Firsts(list, z)) + 1
                                              ELSE Cardinality(Firsts(list, z))
<1> DEFINE more == Append(list, w)
           n == Len(list)
<1>1. /\ Len(more) = n + 1 /\ more = [i \in 1..(n + 1) |-> more[i]]
      /\ more[n + 1] = w /\ \A i \in 1..n : more[i] = list[i]
  <2> DEFINE T == ToSet(list) \cup {w}
  <2>1. list \in Seq(ToSet(list))
    BY ListForm
  <2>2. list \in Seq(T) /\ w \in T
    <3>1. ToSet(list) \subseteq T
      OBVIOUS
    <3> HIDE DEF T
    <3>2. \A i \in 1..n : list[i] \in T
      BY <2>1, <3>1
    <3> QED
      BY <3>2 DEF T
  <2> HIDE DEF T
  <2>3. more \in Seq(T) /\ Len(more) = n + 1 /\ more[n + 1] = w
    BY <2>2
  <2>4. \A i \in 1..n : more[i] = list[i]
    BY <2>2
  <2> HIDE DEF more
  <2>5. more = [i \in 1..(n + 1) |-> more[i]]
    BY <2>3
  <2> QED
    BY <2>3, <2>4, <2>5
<1> HIDE DEF more
<1>2. ASSUME NEW z
      PROVE  /\ Cardinality(Firsts(list, z)) \in Nat
             /\ Cardinality(Firsts(more, z)) =
                  IF z = w.zones[1] THEN Cardinality(Firsts(list, z)) + 1
                                    ELSE Cardinality(Firsts(list, z))
  <2> DEFINE F == Firsts(list, z)
  <2>1. IsFiniteSet(F) /\ n + 1 \notin F
    <3>1. IsFiniteSet(1..n)
      <4>1. n \in Int /\ 1 \in Int
        OBVIOUS
      <4> QED
        BY <4>1, FS_Interval
    <3>2. F \in SUBSET (1..n)
      BY DEF Firsts
    <3>3. n + 1 \notin 1..n
      OBVIOUS
    <3> QED
      BY <3>1, <3>2, <3>3, FS_Subset
  <2>2. Firsts(more, z) = IF z = w.zones[1] THEN F \cup {n + 1} ELSE F
    <3>1. 1..(n + 1) = (1..n) \cup {n + 1} /\ n + 1 \notin 1..n
      OBVIOUS
    <3> QED
      BY <1>1, <3>1 DEF Firsts
  <2> HIDE DEF F
  <2>3. Cardinality(F) \in Nat /\ Cardinality(F \cup {n + 1}) = Cardinality(F) + 1
    BY <2>1, FS_CardinalityType, FS_AddElement
  <2> QED
    BY <2>2, <2>3 DEF F
<1> QED
  BY <1>1, <1>2 DEF more

\* The workflows made so far are those of the first pairs, in order, and the rest is to do
Matched ==
  /\ Len(built) \in Nat /\ built = [i \in 1..Len(built) |-> built[i]]
  /\ Len(built) <= Len(PairsOf(flags))
  /\ \A i \in 1..Len(built) :
       /\ built[i].name = PairsOf(flags)[i][1]
       /\ built[i].image = PairsOf(flags)[i][2].name
  /\ stage = "flags" => built = <<>>
  /\ stage = "setup" =>
       /\ todo \in Seq(ToSet(todo))
       /\ Len(built) + Len(todo) = Len(PairsOf(flags))
       /\ \A k \in 1..Len(todo) : todo[k] = PairsOf(flags)[Len(built) + k]
  /\ stage = "built" => Len(built) = Len(PairsOf(flags))

\* Up to the index, each zone is the first of one workflow more than those behind it
SpreadTo(list, zones, idx, q) ==
  \A k \in 1..Len(zones) :
    Cardinality(Firsts(list, zones[k])) = IF k - 1 <= idx THEN q + 1 ELSE q

EvenlyAt(f, idx, list) ==
  f.zones # <<>> =>
    /\ idx \in -1..(Len(f.zones) - 1)
    /\ \E q \in Nat : SpreadTo(list, f.zones, idx, q)
    /\ \A i \in 1..Len(list) :
         {list[i].zones[k] : k \in DOMAIN list[i].zones} = {f.zones[k] : k \in DOMAIN f.zones}

Evenly == EvenlyAt(flags, zonesRoundRobinIdx, built)

ChosenInv == flags \in Flags /\ Matched /\ Evenly

LEMMA ChosenInit ==
  ASSUME NoRepeats, ManagerInit
  PROVE  ChosenInv
<1>1. /\ flags \in Flags /\ todo = <<>> /\ built = <<>> /\ stage = "flags"
      /\ zonesRoundRobinIdx = -1
  BY DEF ManagerInit
<1>2. Len(PairsOf(flags)) \in Nat
  BY <1>1, PairsFacts
<1>3. Matched
  BY <1>1, <1>2 DEF Matched
<1>4. Evenly
  <2>1. \A z : Firsts(built, z) = {}
    <3>1. 1..Len(<<>>) = {}
      OBVIOUS
    <3> QED
      BY <1>1, <3>1 DEF Firsts
  <2>2. \A z : Cardinality(Firsts(built, z)) = 0
    BY <2>1, FS_EmptySet
  <2> SUFFICES ASSUME flags.zones # <<>>
               PROVE  Evenly
    BY DEF Evenly, EvenlyAt
  <2>3. flags.zones \in Seq(ToSet(flags.zones)) /\ Len(flags.zones) \in Nat \ {0}
    BY <1>1, ManagerAssumption
  <2>4. \A k \in 1..Len(flags.zones) : ~(k - 1 <= -1)
    BY <2>3
  <2>5. -1 \in -1..(Len(flags.zones) - 1)
    BY <2>3
  <2>6. 1..Len(built) = {}
    BY <1>1
  <2> QED
    BY <1>1, <2>2, <2>4, <2>5, <2>6 DEF Evenly, EvenlyAt, SpreadTo
<1> QED
  BY <1>1, <1>3, <1>4 DEF ChosenInv

\* The next index is the next zone, or the first one after the last
LEMMA EvenlyStep ==
  ASSUME NEW f \in Flags, f.zones # <<>>, NoneTwice(f.zones),
         NEW idx \in -1..(Len(f.zones) - 1),
         NEW next, next = IF idx + 1 >= Len(f.zones) THEN 0 ELSE idx + 1,
         NEW list, Len(list) \in Nat, list = [i \in 1..Len(list) |-> list[i]],
         NEW w, w.zones = rotatedZones(f, next),
         NEW q \in Nat,
         SpreadTo(list, f.zones, idx, q)
  PROVE  /\ next \in 0..(Len(f.zones) - 1)
         /\ \E p \in Nat : SpreadTo(Append(list, w), f.zones, next, p)
<1> DEFINE L == Len(f.zones)
           more == Append(list, w)
<1>1. L \in Nat \ {0}
  BY ManagerAssumption
<1>2. w.zones[1] = f.zones[next + 1] /\ next \in 0..(L - 1) /\ next + 1 \in 1..L
  <2>1. next \in 0..(L - 1) /\ next + 1 \in 1..L
    BY <1>1
  <2>2. rotatedZones(f, next)[1] = f.zones[next + 1]
    BY <2>1, Rotated
  <2> QED
    BY <2>1, <2>2
<1>3. \A k \in 1..L :
        Cardinality(Firsts(more, f.zones[k])) =
          IF k = next + 1 THEN Cardinality(Firsts(list, f.zones[k])) + 1
                          ELSE Cardinality(Firsts(list, f.zones[k]))
  <2>1. \A k \in 1..L : f.zones[k] = w.zones[1] <=> k = next + 1
    BY <1>2 DEF NoneTwice
  <2>2. \A z : Cardinality(Firsts(more, z)) =
                 IF z = w.zones[1] THEN Cardinality(Firsts(list, z)) + 1
                                   ELSE Cardinality(Firsts(list, z))
    BY OneMoreFirst
  <2> QED
    BY <2>1, <2>2
<1> HIDE DEF more
<1>4. CASE idx + 1 >= L
  <2>1. next = 0 /\ idx = L - 1
    BY <1>1, <1>4
  <2>2. \A k \in 1..L : Cardinality(Firsts(list, f.zones[k])) = q + 1
    BY <1>1, <2>1 DEF SpreadTo
  <2>3. \A k \in 1..L : Cardinality(Firsts(more, f.zones[k])) = IF k - 1 <= next THEN q + 1 + 1 ELSE q + 1
    BY <1>1, <1>3, <2>1, <2>2
  <2>4. q + 1 \in Nat
    OBVIOUS
  <2> DEFINE p == q + 1
  <2>5. \A k \in 1..L : Cardinality(Firsts(more, f.zones[k])) = IF k - 1 <= next THEN p + 1 ELSE p
    BY <2>3
  <2>6. p \in Nat
    BY <2>4
  <2> HIDE DEF p
  <2> QED
    BY <1>2, <2>5, <2>6 DEF more, SpreadTo
<1>5. CASE ~(idx + 1 >= L)
  <2>1. next = idx + 1
    BY <1>5
  <2>2. \A k \in 1..L : Cardinality(Firsts(more, f.zones[k])) = IF k - 1 <= next THEN q + 1 ELSE q
    BY <1>1, <1>3, <2>1 DEF SpreadTo
  <2> QED
    BY <1>2, <2>2 DEF more, SpreadTo
<1> QED
  BY <1>4, <1>5

\* A workflow that is made is the one of the next pair
LEMMA MadeStep ==
  ASSUME NoRepeats, ChosenInv, NewTestWorkflow, ~Fatal
  PROVE  ChosenInv'
<1> DEFINE pairs == PairsOf(flags)
           new == [name |-> Head(todo)[1], image |-> Head(todo)[2].name,
                   zones |-> rotatedZones(flags, zonesRoundRobinIdx')]
           n == Len(built)
<1>1. /\ flags \in Flags /\ flags' = flags /\ stage = "setup" /\ stage' = stage
      /\ built' = Append(built, new)
      /\ todo # <<>> /\ todo' = Tail(todo)
      /\ zonesRoundRobinIdx' = IF flags.zones = <<>> THEN zonesRoundRobinIdx ELSE NextIdx(flags)
  BY DEF ChosenInv, NewTestWorkflow
<1>2. /\ n \in Nat /\ built = [i \in 1..n |-> built[i]]
      /\ \A i \in 1..n : built[i].name = pairs[i][1] /\ built[i].image = pairs[i][2].name
      /\ todo \in Seq(ToSet(todo)) /\ n + Len(todo) = Len(pairs)
      /\ \A k \in 1..Len(todo) : todo[k] = pairs[n + k]
  BY <1>1 DEF ChosenInv, Matched
<1>3. Len(pairs) \in Nat /\ PairsOf(flags') = pairs
  BY <1>1, PairsFacts
<1> HIDE DEF pairs, new
<1>4. /\ Len(built') = n + 1 /\ built' = [i \in 1..Len(built') |-> built'[i]]
      /\ built'[n + 1] = new /\ \A i \in 1..n : built'[i] = built[i]
  BY <1>1, <1>2, OneMoreFirst
<1>5. /\ Len(todo) \in Nat \ {0} /\ Head(todo) = todo[1]
      /\ Tail(todo) \in Seq(ToSet(todo)) /\ Len(Tail(todo)) = Len(todo) - 1
      /\ \A k \in 1..Len(Tail(todo)) : Tail(todo)[k] = todo[k + 1] /\ k + 1 \in 1..Len(todo)
  BY <1>1, <1>2
<1>6. new.name = pairs[n + 1][1] /\ new.image = pairs[n + 1][2].name
  <2>1. Head(todo) = pairs[n + 1]
    BY <1>2, <1>5
  <2> QED
    BY <2>1 DEF new
<1>7. \A i \in 1..Len(built') : i \in 1..n \/ i = n + 1
  BY <1>2, <1>4
<1>8. Matched'
  <2>1. Tail(todo) \in Seq(ToSet(Tail(todo)))
    <3>1. Tail(todo) = [k \in 1..(Len(todo) - 1) |-> Tail(todo)[k]] /\ Len(todo) - 1 \in Nat
      <4> HIDE DEF new
      <4> DEFINE T == ToSet(todo)
      <4>1. Tail(todo) \in Seq(T) /\ Len(Tail(todo)) = Len(todo) - 1
        BY <1>5
      <4> HIDE DEF T
      <4> DEFINE tail == Tail(todo)
      <4>2. tail \in Seq(T) /\ Len(tail) = Len(todo) - 1
        BY <4>1
      <4> HIDE DEF tail
      <4>3. tail = [k \in 1..Len(tail) |-> tail[k]] /\ Len(tail) \in Nat
        BY <4>2
      <4> QED
        BY <4>2, <4>3 DEF tail
    <3> QED
      BY <3>1, ListForm
  <2>2. \A k \in 1..Len(todo') : todo'[k] = pairs[Len(built') + k]
    <3> TAKE k \in 1..Len(todo')
    <3>1. todo'[k] = todo[k + 1] /\ k + 1 \in 1..Len(todo) /\ k \in Nat
      BY <1>1, <1>5
    <3>2. todo[k + 1] = pairs[n + (k + 1)] /\ n + (k + 1) = Len(built') + k
      BY <1>2, <1>4, <3>1
    <3> QED
      BY <3>1, <3>2
  <2>3. Len(built') + Len(todo') = Len(pairs) /\ Len(built') \in Nat /\ Len(built') <= Len(pairs)
    BY <1>1, <1>2, <1>3, <1>4, <1>5
  <2>4. \A i \in 1..Len(built') :
          built'[i].name = pairs[i][1] /\ built'[i].image = pairs[i][2].name
    BY <1>2, <1>4, <1>6, <1>7
  <2> QED
    BY <1>1, <1>3, <1>4, <2>1, <2>2, <2>3, <2>4 DEF Matched
<1>9. Evenly'
  <2> SUFFICES ASSUME flags.zones # <<>>
               PROVE  Evenly'
    BY <1>1 DEF Evenly, EvenlyAt
  <2>1. /\ zonesRoundRobinIdx \in -1..(Len(flags.zones) - 1)
        /\ \A i \in 1..n :
             {built[i].zones[k] : k \in DOMAIN built[i].zones} = {flags.zones[k] : k \in DOMAIN flags.zones}
    BY DEF ChosenInv, Evenly, EvenlyAt
  <2>2. PICK q \in Nat : SpreadTo(built, flags.zones, zonesRoundRobinIdx, q)
    BY DEF ChosenInv, Evenly, EvenlyAt
  <2> DEFINE next == zonesRoundRobinIdx'
  <2>3. next = IF zonesRoundRobinIdx + 1 >= Len(flags.zones) THEN 0 ELSE zonesRoundRobinIdx + 1
    BY <1>1 DEF NextIdx
  <2>4. NoneTwice(flags.zones) /\ new.zones = rotatedZones(flags, next)
    BY <1>1 DEF NoRepeats, new
  <2>5. /\ next \in 0..(Len(flags.zones) - 1)
        /\ \E p \in Nat : SpreadTo(Append(built, new), flags.zones, next, p)
    <3> HIDE DEF next
    <3>1. n \in Nat /\ built = [i \in 1..Len(built) |-> built[i]] /\ Len(built) \in Nat
      BY <1>2
    <3>2. flags \in Flags
      BY <1>1
    <3> QED
      BY <3>1, <3>2, <2>1, <2>2, <2>3, <2>4, EvenlyStep
  <2>6. {new.zones[k] : k \in DOMAIN new.zones} = {flags.zones[k] : k \in DOMAIN flags.zones}
    <3> HIDE DEF next
    <3>1. {rotatedZones(flags, next)[k] : k \in DOMAIN rotatedZones(flags, next)}
            = {flags.zones[k] : k \in DOMAIN flags.zones}
      BY <1>1, <2>5, Rotated
    <3> QED
      BY <2>4, <3>1
  <2>7. \A i \in 1..Len(built') :
          {built'[i].zones[k] : k \in DOMAIN built'[i].zones} = {flags.zones[k] : k \in DOMAIN flags.zones}
    <3> TAKE i \in 1..Len(built')
    <3>1. CASE i \in 1..n
      <4>1. built'[i] = built[i]
        BY <1>4, <3>1
      <4> QED
        BY <2>1, <3>1, <4>1
    <3>2. CASE i = n + 1
      <4>1. built'[i] = new
        BY <1>4, <3>2
      <4> QED
        BY <2>6, <4>1
    <3> QED
      BY <1>7, <3>1, <3>2
  <2>8. next \in -1..(Len(flags.zones) - 1)
    BY <2>5
  <2> QED
    BY <1>1, <2>5, <2>7, <2>8 DEF Evenly, EvenlyAt
<1> QED
  BY <1>1, <1>8, <1>9 DEF ChosenInv

\* The other steps of main make no workflow
LEMMA ChosenStep ==
  ASSUME NoRepeats, ChosenInv, [ManagerNext]_allVars
  PROVE  ChosenInv'
<1>1. ASSUME UNCHANGED <<flags, zonesRoundRobinIdx, built>>,
             stage' \in {stage, "built", "run", "report", "exited"},
             stage' = "setup" => todo' = todo,
             stage' # stage /\ stage' = "built" => stage = "setup" /\ todo = <<>>
      PROVE  ChosenInv'
  <2>1. Evenly'
    BY <1>1 DEF ChosenInv, Evenly
  <2>2. stage' = "built" => Len(built) = Len(PairsOf(flags))
    <3>1. CASE stage' # "built" \/ stage = "built"
      BY <3>1 DEF ChosenInv, Matched
    <3>2. CASE stage' = "built" /\ stage # "built"
      <4>1. /\ stage = "setup" /\ todo = <<>> /\ Len(built) \in Nat
            /\ Len(built) + Len(todo) = Len(PairsOf(flags))
        BY <1>1, <3>2 DEF ChosenInv, Matched
      <4> QED
        BY <4>1
    <3> QED
      BY <3>1, <3>2
  <2>3. Matched'
    BY <1>1, <2>2 DEF ChosenInv, Matched
  <2> QED
    BY <1>1, <2>1, <2>3 DEF ChosenInv
<1>2. CASE Fatal /\ stage # "exited"
  BY <1>1, <1>2 DEF Fatal, Leave, setupVars
<1>3. CASE UNCHANGED managerVars
  BY <1>1, <1>3 DEF managerVars
<1>4. CASE ParseFlags /\ ~Fatal
  <2>1. /\ stage = "flags" /\ stage' = "setup" /\ todo' = PairsOf(flags)
        /\ UNCHANGED <<flags, zonesRoundRobinIdx, built>>
    BY <1>4 DEF ParseFlags
  <2>2. flags \in Flags /\ built = <<>> /\ Len(built) = 0
    BY <2>1 DEF ChosenInv, Matched
  <2>3. PairsOf(flags) \in Seq(ToSet(PairsOf(flags))) /\ Len(PairsOf(flags)) \in Nat
    BY <2>2, PairsFacts
  <2>4. Matched'
    BY <2>1, <2>2, <2>3 DEF ChosenInv, Matched
  <2>5. Evenly'
    BY <2>1 DEF ChosenInv, Evenly
  <2> QED
    BY <2>1, <2>2, <2>4, <2>5 DEF ChosenInv
<1>5. CASE NewTestWorkflow /\ ~Fatal
  BY <1>5, MadeStep
<1>6. CASE SetupDone /\ ~Fatal
  BY <1>1, <1>6 DEF SetupDone, setupVars
<1>7. CASE (PrintTests \/ ValidateTests) /\ ~Fatal
  BY <1>1, <1>7 DEF PrintTests, ValidateTests, Leave, setupVars
<1>8. CASE BeginRun /\ ~Fatal
  BY <1>1, <1>8 DEF BeginRun, setupVars
<1>9. CASE (RunTests \/ Exited) /\ ~Fatal
  BY <1>3, <1>9 DEF RunTests, Exited, allVars
<1>10. CASE (Download \/ Report) /\ ~Fatal
  BY <1>1, <1>10 DEF Download, Report, Leave, setupVars
<1>11. CASE Fatal /\ stage = "exited"
  BY <1>1, <1>11 DEF Fatal, Leave, setupVars
<1> QED
  BY <1>2, <1>3, <1>4, <1>5, <1>6, <1>7, <1>8, <1>9, <1>10, <1>11
     DEF ManagerNext, ManagerStep, allVars

\* Each zone is named once, so its count is that of its position
LEMMA EvenlySpreads ==
  ASSUME ChosenInv
  PROVE  ZonesSpread
<1> SUFFICES ASSUME flags.zones # <<>>
             PROVE  ZonesSpread
  BY DEF ZonesSpread
<1>1. DOMAIN built = 1..Len(built)
  BY DEF ChosenInv, Matched
<1>2. DOMAIN flags.zones = 1..Len(flags.zones)
  BY ManagerAssumption DEF ChosenInv
<1>3. PICK q \in Nat : SpreadTo(built, flags.zones, zonesRoundRobinIdx, q)
  BY DEF ChosenInv, Evenly, EvenlyAt
<1> DEFINE zs == {flags.zones[i] : i \in DOMAIN flags.zones}
           firsts(z) == Cardinality({i \in DOMAIN built : built[i].zones[1] = z})
<1>4. \A z \in zs : firsts(z) \in {q, q + 1}
  <2> TAKE z \in zs
  <2>1. PICK k \in 1..Len(flags.zones) : z = flags.zones[k]
    BY <1>2
  <2>2. firsts(z) = Cardinality(Firsts(built, z))
    BY <1>1 DEF Firsts
  <2> QED
    BY <1>3, <2>1, <2>2 DEF SpreadTo
<1>5. \A z, y \in zs : firsts(z) <= firsts(y) + 1
  <2> HIDE DEF zs, firsts
  <2> QED
    BY <1>4
<1>6. \A i \in DOMAIN built : {built[i].zones[k] : k \in DOMAIN built[i].zones} = zs
  BY <1>1 DEF ChosenInv, Evenly, EvenlyAt
<1> QED
  BY <1>5, <1>6 DEF ZonesSpread

\* When no pair is left, the workflows are all pairs of the packages and the images they have
LEMMA AllPairsMade ==
  ASSUME NoRepeats, ChosenInv, stage = "built"
  PROVE  Len(built) = Cardinality({built[i].name : i \in DOMAIN built})
                        * Cardinality({built[i].image : i \in DOMAIN built})
<1> DEFINE pairs == PairsOf(flags)
           n == Len(built)
           A == ToSet(SelectedPackages(flags))
           B == ToSet(UsedImages(flags))
           names == {built[i].name : i \in 1..n}
           images == {built[i].image : i \in 1..n}
           f == [i \in 1..n |-> <<built[i].name, built[i].image>>]
<1>1. /\ n \in Nat /\ DOMAIN built = 1..n /\ n = Len(pairs) /\ flags \in Flags
      /\ \A i \in 1..n : built[i].name = pairs[i][1] /\ built[i].image = pairs[i][2].name
  BY DEF ChosenInv, Matched
<1>2. /\ pairs \in Seq(A \X B) /\ ToSet(pairs) = A \X B /\ NoneTwice(pairs)
      /\ \A b, c \in B : b.name = c.name => b = c
  BY <1>1, PairsFacts
<1> HIDE DEF A, B, pairs, n
<1>3. /\ \A i \in 1..n : pairs[i] = <<pairs[i][1], pairs[i][2]>> /\ pairs[i][1] \in A /\ pairs[i][2] \in B
      /\ \A a \in A, b \in B : \E i \in 1..n : pairs[i] = <<a, b>>
  <2>1. \A i \in 1..n : pairs[i] \in A \X B
    BY <1>1, <1>2
  <2>2. ToSet(pairs) = {pairs[i] : i \in 1..n}
    <3>1. DOMAIN pairs = 1..n
      BY <1>1, <1>2
    <3> QED
      BY <3>1 DEF ToSet
  <2>3. \A a \in A, b \in B : <<a, b>> \in ToSet(pairs)
    BY <1>2
  <2> QED
    BY <2>1, <2>2, <2>3
<1>4. IsFiniteSet(1..n) /\ Cardinality(1..n) = n
  <2>1. n \in Int /\ 1 \in Int /\ (IF 1 > n THEN 0 ELSE n - 1 + 1) = n
    BY <1>1
  <2> QED
    BY <2>1, FS_Interval
<1>5. f \in Bijection(1..n, names \X images)
  <2>1. f \in [1..n -> names \X images]
    OBVIOUS
  <2>2. ASSUME NEW i \in 1..n, NEW k \in 1..n, f[i] = f[k] PROVE i = k
    <3>1. built[i].name = built[k].name /\ built[i].image = built[k].image
      BY <2>2
    <3>2. pairs[i][1] = pairs[k][1] /\ pairs[i][2] = pairs[k][2]
      <4>1. pairs[i][1] = pairs[k][1] /\ pairs[i][2].name = pairs[k][2].name
        BY <1>1, <3>1
      <4>2. pairs[i][2] \in B /\ pairs[k][2] \in B
        BY <1>3
      <4> QED
        BY <1>2, <4>1, <4>2
    <3>3. pairs[i] = pairs[k]
      BY <1>3, <3>2
    <3> QED
      BY <1>1, <1>2, <3>3 DEF NoneTwice
  <2>3. ASSUME NEW x \in names, NEW y \in images PROVE \E i \in 1..n : f[i] = <<x, y>>
    <3>1. PICK i \in 1..n : x = built[i].name
      OBVIOUS
    <3>2. PICK k \in 1..n : y = built[k].image
      OBVIOUS
    <3>3. PICK l \in 1..n : pairs[l] = <<pairs[i][1], pairs[k][2]>>
      BY <1>3
    <3>4. built[l].name = x /\ built[l].image = y
      BY <1>1, <3>1, <3>2, <3>3
    <3> QED
      BY <3>4
  <2> HIDE DEF f, names, images
  <2>4. \A t \in names \X images : \E i \in 1..n : f[i] = t
    BY <2>3
  <2> QED
    BY <2>1, <2>2, <2>4 DEF Bijection, Injection, Surjection, IsInjective
<1>6. n = Cardinality(names \X images) /\ IsFiniteSet(names \X images)
  <2>1. ExistsBijection(1..n, names \X images)
    BY <1>5 DEF ExistsBijection
  <2> HIDE DEF names, images
  <2> QED
    BY <1>4, <2>1, FS_Bijection
<1>7. IsFiniteSet(names) /\ IsFiniteSet(images)
  <2> DEFINE g == [i \in 1..n |-> built[i].name]
             h == [i \in 1..n |-> built[i].image]
  <2>1. g \in Surjection(1..n, names) /\ h \in Surjection(1..n, images)
    BY DEF Surjection
  <2> HIDE DEF g, h, names, images
  <2> QED
    BY <1>4, <2>1, FS_Surjection
<1>8. Cardinality(names \X images) = Cardinality(names) * Cardinality(images)
  <2> HIDE DEF names, images
  <2> QED
    BY <1>7, FS_Product
<1> QED
  BY <1>1, <1>6, <1>8 DEF n

\* main makes workflows of none but the packages that -filter names and -exclude does not,
\* on images of the architecture asked for, and in the end of each such package on each
\* image; and it spreads them over the zones evenly, whatever the numbers of packages,
\* images and zones, as long as the command line repeats neither a zone nor an image
THEOREM WorkflowsAreChosen == NoRepeats => (ManagerSpec => []Chosen)
<1> SUFFICES ASSUME NoRepeats
             PROVE  ManagerSpec => []Chosen
  OBVIOUS
<1>1. ManagerInit => ChosenInv
  BY ChosenInit
<1>2. ChosenInv /\ [ManagerNext]_allVars => ChosenInv'
  BY ChosenStep
<1>3. ChosenInv => Chosen
  <2> SUFFICES ASSUME ChosenInv
               PROVE  Chosen
    OBVIOUS
  <2>1. ASSUME NEW i \in DOMAIN built
        PROVE  /\ built[i].name \in flags.filter /\ built[i].name \notin flags.exclude
               /\ flags.arch \in {None, Arch[built[i].image]}
    <3> DEFINE pairs == PairsOf(flags)
               A == ToSet(SelectedPackages(flags))
               B == ToSet(UsedImages(flags))
    <3>1. /\ flags \in Flags /\ i \in 1..Len(pairs)
          /\ built[i].name = pairs[i][1] /\ built[i].image = pairs[i][2].name
      <4>1. i \in 1..Len(built) /\ Len(built) <= Len(pairs) /\ flags \in Flags /\ Len(built) \in Nat
        BY DEF ChosenInv, Matched
      <4>2. Len(pairs) \in Nat
        BY <4>1, PairsFacts
      <4> QED
        BY <4>1, <4>2 DEF ChosenInv, Matched
    <3>2. /\ pairs \in Seq(A \X B)
          /\ \A a \in A : a \in flags.filter /\ a \notin flags.exclude
          /\ \A b \in B : flags.arch \in {None, Arch[b.name]}
      BY <3>1, PairsFacts
    <3> HIDE DEF pairs, A, B
    <3>3. pairs[i][1] \in A /\ pairs[i][2] \in B
      BY <3>1, <3>2
    <3> QED
      BY <3>1, <3>2, <3>3
  <2> QED
    BY <2>1, EvenlySpreads, AllPairsMade DEF Chosen
<1> QED
  BY <1>1, <1>2, <1>3, PTL DEF ManagerSpec
=============================================================================
