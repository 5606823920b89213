----------------------------- MODULE TestRunner ------------------------------
(***************************************************************************)
(* RunTests of the test manager (testworkflow.go): a pool of workers takes *)
(* workflows from a channel, gives each a project, exclusively to those    *)
(* that lock it, runs it with a retry in every further zone after a        *)
(* stockout, captures serial logs, cleans up and reports.                  *)
(*                                                                         *)
(* A run of a workflow in one zone is <<test, zoneIdx>>; each has its own  *)
(* daisy workflow ID, by which cleanTestWorkflow finds what it created.    *)
(***************************************************************************)
EXTENDS Integers, Sequences, FiniteSets

CONSTANTS
  testWorkflows,  \* sequence of the workflows, distinct
  Locked,         \* those that called LockProject
  Skipped,        \* those that called Skip
  Beta,           \* those whose VMs are created with the beta API
  Zones,          \* length of opts.Zones, the same for every workflow
  testProjects,   \* set of the projects
  parallelCount   \* number of workers

Tests == {testWorkflows[i] : i \in 1..Len(testWorkflows)}
Workers == 1..parallelCount

\* main gives RunTests at least one workflow, zone and project
ASSUME RunnerAssumption ==
  /\ testWorkflows \in Seq(Tests)
  /\ Len(testWorkflows) > 0
  /\ \A i, k \in 1..Len(testWorkflows) : testWorkflows[i] = testWorkflows[k] => i = k
  /\ Locked \subseteq Tests
  /\ Skipped \subseteq Tests
  /\ Beta \subseteq Tests
  /\ Zones \in Nat \ {0}
  /\ IsFiniteSet(testProjects) /\ testProjects # {}
  /\ parallelCount \in Nat \ {0}

NoTest == "no test"
NoProject == "no project"

Errors == {"stockout", "error"}

VARIABLES
  mpc,        \* RunTests itself: "send", "wait", "done"
  taken,      \* workflows received from testchan
  exclusive,  \* channel exclusiveProjects
  shared,     \* channel projects
  wpc,        \* where each worker is
  work,       \* the workflow it has
  project,    \* wf.Project of each workflow
  zoneIdx,    \* its zone in runTestWorkflowWithRetries, from 1
  res,        \* its testResult: "none", "skipped", "success" or an error
  metrics,    \* testMetrics
  testResults,\* channel testResults
  suites,     \* the suites RunTests returns, by workflow and result
  vms,        \* runs that have VMs which no cleanup has looked for yet
  other,      \* the same for disks, networks and load balancer resources
  serial      \* runs under way whose serial output has been asked for

mainVars == <<mpc, suites>>
cloudVars == <<vms, other, serial>>
vars == <<mpc, taken, exclusive, shared, wpc, work, project, zoneIdx, res, metrics,
          testResults, suites, vms, other, serial>>

\* Every block of Cardinality(testProjects) entries is a permutation of the projects
BlocksOfProjects(n) ==
  LET p == Cardinality(testProjects)
  IN  {s \in [1..n -> testProjects] :
         \A i, k \in 1..n : i # k /\ (i - 1) \div p = (k - 1) \div p => s[i] # s[k]}

Init ==
  /\ mpc = "send"
  /\ taken = 0
  /\ exclusive \in BlocksOfProjects(Cardinality(testProjects))
  /\ shared \in BlocksOfProjects(Len(testWorkflows))
  /\ wpc = [w \in Workers |-> "recv"]
  /\ work = [w \in Workers |-> NoTest]
  /\ project = [t \in Tests |-> NoProject]
  /\ zoneIdx = [t \in Tests |-> 1]
  /\ res = [t \in Tests |-> "none"]
  /\ metrics = [running |-> 0, finished |-> 0]
  /\ testResults = <<>>
  /\ suites = <<>>
  /\ vms = {}
  /\ other = {}
  /\ serial = {}

-----------------------------------------------------------------------------
(* The goroutine of RunTests *)

Goto(w, pc) == wpc' = [wpc EXCEPT ![w] = pc]

\* for test := range testchan
Receive(w) ==
  /\ wpc[w] = "recv"
  /\ mpc = "wait"
  /\ \/ /\ taken < Len(testWorkflows)
        /\ taken' = taken + 1
        /\ work' = [work EXCEPT ![w] = testWorkflows[taken + 1]]
        /\ Goto(w, "project")
     \/ /\ taken = Len(testWorkflows)
        /\ Goto(w, "exited")
        /\ UNCHANGED <<taken, work>>
  /\ UNCHANGED <<mainVars, cloudVars, exclusive, shared, project, zoneIdx, res, metrics,
                 testResults>>

\* fault: the lock is not looked at
GetProject_NoLock(w) ==
  /\ wpc[w] = "project"
  /\ project' = [project EXCEPT ![work[w]] = Head(shared)]
  /\ shared' = Tail(shared)
  /\ Goto(w, "start")
  /\ UNCHANGED <<mainVars, cloudVars, taken, exclusive, work, zoneIdx, res, metrics, testResults>>

\* The project comes from one of two channels: a worker with a test that locks waits
\* until an exclusive one is given back
GetProject(w) ==
  /\ wpc[w] = "project"
  /\ \/ /\ work[w] \in Locked
        /\ exclusive # <<>>
        /\ project' = [project EXCEPT ![work[w]] = Head(exclusive)]
        /\ exclusive' = Tail(exclusive)
        /\ UNCHANGED shared
     \/ /\ work[w] \notin Locked
        /\ project' = [project EXCEPT ![work[w]] = Head(shared)]
        /\ shared' = Tail(shared)
        /\ UNCHANGED exclusive
  /\ Goto(w, "start")
  /\ UNCHANGED <<mainVars, cloudVars, taken, work, zoneIdx, res, metrics, testResults>>

\* The result is sent, and a locked project given back after it
Send(w) ==
  /\ wpc[w] = "send"
  /\ testResults' = Append(testResults, work[w])
  /\ Goto(w, IF work[w] \in Locked THEN "unlock" ELSE "recv")
  /\ UNCHANGED <<mainVars, cloudVars, taken, exclusive, shared, work, project, zoneIdx, res,
                 metrics>>

Unlock(w) ==
  /\ wpc[w] = "unlock"
  /\ exclusive' = Append(exclusive, project[work[w]])
  /\ Goto(w, "recv")
  /\ UNCHANGED <<mainVars, cloudVars, taken, shared, work, project, zoneIdx, res, metrics,
                 testResults>>

-----------------------------------------------------------------------------
(* runTestWorkflow and runTestWorkflowWithRetries *)

Run(w) == <<work[w], zoneIdx[work[w]]>>

\* fault: the start of a test is not counted
Start_NotCounted(w) ==
  /\ wpc[w] = "start"
  /\ Goto(w, IF work[w] \in Skipped THEN "send" ELSE "run")
  /\ res' = [res EXCEPT ![work[w]] = IF work[w] \in Skipped THEN "skipped" ELSE @]
  /\ UNCHANGED <<mainVars, cloudVars, taken, exclusive, shared, work, project, zoneIdx, metrics,
                 testResults>>

\* metrics.started, and the early return of a skipped test
Start(w) ==
  /\ wpc[w] = "start"
  /\ metrics' = [metrics EXCEPT !.running = @ + 1]
  /\ \/ /\ work[w] \in Skipped
        /\ res' = [res EXCEPT ![work[w]] = "skipped"]
        /\ Goto(w, "send")
     \/ /\ work[w] \notin Skipped
        /\ Goto(w, "run")
        /\ UNCHANGED res
  /\ UNCHANGED <<mainVars, cloudVars, taken, exclusive, shared, work, project, zoneIdx,
                 testResults>>

\* test.wf.Run: daisy creates the resources, or part of them, and leaves the VMs alive
\* and what they use in place
RunWorkflow(w) ==
  /\ wpc[w] = "run"
  /\ \/ UNCHANGED <<vms, other>>
     \/ UNCHANGED vms /\ other' = other \cup {Run(w)}
     \/ vms' = vms \cup {Run(w)} /\ other' = other \cup {Run(w)}
  /\ \/ Goto(w, "results") /\ UNCHANGED res
     \/ Goto(w, "failed") /\ \E e \in Errors : res' = [res EXCEPT ![work[w]] = e]
  /\ UNCHANGED <<mainVars, serial, taken, exclusive, shared, work, project, zoneIdx,
                 metrics, testResults>>

\* dumpSerialLogs: the serial output of every VM that workflowInstances returns is
\* fetched once, then the VM is deleted; an error of either is only logged
dumpSerialLogs(w) ==
  /\ \/ /\ work[w] \notin Beta
        /\ serial' = serial \cup {Run(w)}
        /\ vms' \in {vms, vms \ {Run(w)}}
     \/ /\ work[w] \in Beta
        /\ UNCHANGED <<serial, vms>>
  /\ UNCHANGED other

\* fault: the last zone is not tried
DumpFailed_LastZone(w) ==
  /\ wpc[w] = "failed"
  /\ dumpSerialLogs(w)
  /\ Goto(w, IF res[work[w]] = "stockout" /\ zoneIdx[work[w]] + 1 < Zones THEN "retry" ELSE "end")
  /\ UNCHANGED <<mainVars, taken, exclusive, shared, work, project, zoneIdx, res, metrics,
                 testResults>>

\* fault: serial logs are left to the end of the test
DumpFailed_NoDump(w) ==
  /\ wpc[w] = "failed"
  /\ Goto(w, IF res[work[w]] = "stockout" /\ zoneIdx[work[w]] < Zones THEN "retry" ELSE "end")
  /\ UNCHANGED <<mainVars, cloudVars, taken, exclusive, shared, work, project, zoneIdx, res,
                 metrics, testResults>>

\* wf.Run has failed: only a stockout goes on to the next zone
DumpFailed(w) ==
  /\ wpc[w] = "failed"
  /\ dumpSerialLogs(w)
  /\ Goto(w, IF res[work[w]] = "stockout" /\ zoneIdx[work[w]] < Zones THEN "retry" ELSE "end")
  /\ UNCHANGED <<mainVars, taken, exclusive, shared, work, project, zoneIdx, res, metrics,
                 testResults>>

\* cleanTestWorkflow looks for what the workflow with the test's current ID left behind;
\* what it cannot delete is only logged, and nothing follows it any further
cleanTestWorkflow(w) ==
  /\ vms' = vms \ {Run(w)}
  /\ other' = other \ {Run(w)}
  /\ serial' = serial \ {Run(w)}

\* fault: the retry leaves the cleanup to the end of the test
Retry_NoClean(w) ==
  /\ wpc[w] = "retry"
  /\ zoneIdx' = [zoneIdx EXCEPT ![work[w]] = @ + 1]
  /\ Goto(w, "run")
  /\ UNCHANGED <<mainVars, cloudVars, taken, exclusive, shared, work, project, res, metrics,
                 testResults>>

\* fault: the retry stays in the zone that is out of stock
Retry_SameZone(w) ==
  /\ wpc[w] = "retry"
  /\ cleanTestWorkflow(w)
  /\ Goto(w, "run")
  /\ UNCHANGED <<mainVars, taken, exclusive, shared, work, project, zoneIdx, res, metrics,
                 testResults>>

\* The next zone: cleanTestWorkflow, recreateTestWorkflow, which keeps the project, and
\* finalizeWorkflows; when one of the last two fails, so does the test, which is still
\* the old workflow in the first case
Retry(w) ==
  /\ wpc[w] = "retry"
  /\ cleanTestWorkflow(w)
  /\ \/ /\ zoneIdx' = [zoneIdx EXCEPT ![work[w]] = @ + 1]
        /\ Goto(w, "run")
        /\ UNCHANGED res
     \/ /\ res' = [res EXCEPT ![work[w]] = "error"]
        /\ zoneIdx' \in {zoneIdx, [zoneIdx EXCEPT ![work[w]] = @ + 1]}
        /\ Goto(w, "end")
  /\ UNCHANGED <<mainVars, taken, exclusive, shared, work, project, metrics, testResults>>

\* getTestResults downloads the result of every VM
Results(w) ==
  /\ wpc[w] = "results"
  /\ \E r \in {"success", "error"} : res' = [res EXCEPT ![work[w]] = r]
  /\ Goto(w, "end")
  /\ UNCHANGED <<mainVars, cloudVars, taken, exclusive, shared, work, project, zoneIdx, metrics,
                 testResults>>

\* Every path of runTestWorkflow captures the serial logs before it returns ...
DumpLast(w) ==
  /\ wpc[w] = "end"
  /\ dumpSerialLogs(w)
  /\ Goto(w, "clean")
  /\ UNCHANGED <<mainVars, taken, exclusive, shared, work, project, zoneIdx, res, metrics,
                 testResults>>

\* ... and its deferred cleanupTestWorkflowProgress runs
Cleanup(w) ==
  /\ wpc[w] = "clean"
  /\ metrics' = [running |-> metrics.running - 1, finished |-> metrics.finished + 1]
  /\ cleanTestWorkflow(w)
  /\ Goto(w, "send")
  /\ UNCHANGED <<mainVars, taken, exclusive, shared, work, project, zoneIdx, res, testResults>>

-----------------------------------------------------------------------------
(* RunTests *)

\* testchan has room for every workflow: all are sent, and it is closed
Feed ==
  /\ mpc = "send"
  /\ mpc' = "wait"
  /\ UNCHANGED <<taken, exclusive, shared, wpc, work, project, zoneIdx, res, metrics,
                 testResults, suites, cloudVars>>

\* wg.Wait, then one parseResult per workflow
Collect ==
  /\ mpc = "wait"
  /\ \A w \in Workers : wpc[w] = "exited"
  /\ Len(testResults) >= Len(testWorkflows)
  /\ suites' = [i \in 1..Len(testWorkflows) |->
                  [test |-> testResults[i], result |-> res[testResults[i]]]]
  /\ testResults' = SubSeq(testResults, Len(testWorkflows) + 1, Len(testResults))
  /\ mpc' = "done"
  /\ UNCHANGED <<taken, exclusive, shared, wpc, work, project, zoneIdx, res, metrics,
                 cloudVars>>

Returned == mpc = "done" /\ UNCHANGED vars

WorkerStep(w) ==
  \/ Receive(w)
  \/ GetProject(w)
  \/ Start(w)
  \/ RunWorkflow(w)
  \/ DumpFailed(w)
  \/ Retry(w)
  \/ Results(w)
  \/ DumpLast(w)
  \/ Cleanup(w)
  \/ Send(w)
  \/ Unlock(w)

Next == Feed \/ Collect \/ Returned \/ \E w \in Workers : WorkerStep(w)

Spec == Init /\ [][Next]_vars

-----------------------------------------------------------------------------
(* Properties *)

\* Types of the state
TypeOK ==
  /\ mpc \in {"send", "wait", "done"}
  /\ taken \in 0..Len(testWorkflows)
  /\ exclusive \in Seq(testProjects)
  /\ shared \in Seq(testProjects)
  /\ wpc \in [Workers -> {"recv", "project", "start", "run", "failed", "retry", "results",
                          "end", "clean", "send", "unlock", "exited"}]
  /\ work \in [Workers -> Tests \cup {NoTest}]
  /\ project \in [Tests -> testProjects \cup {NoProject}]
  /\ zoneIdx \in [Tests -> 1..Zones]
  /\ res \in [Tests -> Errors \cup {"none", "skipped", "success"}]
  /\ metrics \in [running : 0..Len(testWorkflows), finished : 0..Len(testWorkflows)]
  /\ testResults \in Seq(Tests)
  /\ vms \cup other \cup serial \subseteq Tests \X (1..Zones)

\* Tests that modify project-level data never meet in a project: two locked tests with
\* resources, of any of their zones, are in different projects (the exclusiveProjects
\* channel; a retry keeps the project, and the cleanup comes before the unlock)
LockedApart ==
  \A r, s \in vms \cup other :
    r[1] # s[1] /\ {r[1], s[1]} \subseteq Locked => project[r[1]] # project[s[1]]

\* No test leaves anything behind: whatever failed, a cleanup has looked for all that
\* its runs created, in every zone, before its result is sent (cleanTestWorkflow before
\* each retry and on every return; dumpSerialLogs' "cleanerupper will retry")
NothingLeft ==
  \A r \in vms \cup other :
    /\ r[2] = zoneIdx[r[1]]
    /\ \E w \in Workers : work[w] = r[1] /\ wpc[w] \in {"failed", "retry", "results", "end",
                                                      "clean"}

\* RunTests reports every workflow exactly once, whatever workers and projects it was
\* given, and a test that ended with a stockout was tried in every zone
EveryTestReported ==
  /\ TypeOK
  /\ mpc = "done" =>
       /\ {suites[i].test : i \in 1..Len(suites)} = Tests
       /\ Len(suites) = Len(testWorkflows)
       /\ testResults = <<>>
       /\ \A i \in 1..Len(suites) :
            /\ suites[i].result # "none"
            /\ suites[i].result = "stockout" => zoneIdx[suites[i].test] = Zones

\* A VM is deleted only after its serial output was asked for, also when a retry or the
\* leftover scan deletes it, if it was created with the v1 API (dumpSerialLogs, "before
\* the VMs are deleted")
SerialBeforeDelete ==
  [][\A r \in vms \ vms' : r[1] \in Beta \/ r \in serial \cup serial']_vars
=============================================================================
