# TLA+ specifications of cloud-image-tests

This directory holds the TLA+ modules that model the orchestration code of this
repository, the TLC configurations that check them on small instances, and TLAPS
proofs of their safety properties for every instance. The last section says what is left
to do.

Paths are relative to the repository root (`src/` in `PROJECT.json`). `PROJECT.json`
maps every definition to the lines it models.

## 1. The system

Two programs are stacked on each other.

- **citrun** (`cmd/citrun`) runs a whole matrix of images, machine shapes and test
  suites against a cloud project with limited quota. Each job of the matrix is one
  docker container with a test manager in it. citrun places jobs in zones under
  budgets, retries infrastructure errors, survives interrupts and crashes through
  `state.json`, and resumes.
- **the test manager** (`cmd/manager`, `testworkflow.go`, `fixtures.go`) builds one
  daisy workflow per test suite and image, runs them with a pool of workers, cleans up
  the cloud resources and writes a junit report. On every test VM the **wrapper**
  (`cmd/wrapper`) runs the compiled test binary and uploads its output. The
  **cleaner-upper** (`cleanerupper`, `cmd/cleanup`) deletes what is left over.

### Inventory

| component | state | operations | talks to | what is hard | what makes it correct |
|---|---|---|---|---|---|
| scheduler (`scheduler.go`) | `RunState` (statuses, attempts, sweeps, cooldowns), counters of CPUs, networks, shapes and slots, penalties, round robin | `Run`, `admit`, `pickZone`, `launch`, `handleCompletion`, `recordStockout`, `bumpCooldown`, `charge`, `persist` | executor goroutines over the unbuffered channel `done`; `state.json`; two contexts; the pause file | completions in any order between launches; budgets halved while in use; sweeps over zones that partly never fit; interrupts in the middle of a pass; failing saves | budgets never exceeded, nothing leaked, retry caps exact, the saved state is current, `Run` always returns |
| placement (`placement.go`) | none | `eligibleRegions`, `budgetKeysFor`, `regionUsable`, `validatePlaceable` | used by the scheduler and by `cmdRun` | rounding, keys a region does not define | a job that is accepted can be placed |
| run state (`state.go`) | `state.json`, `events.jsonl` | `NewRunState`, `SaveState`, `LoadState`, `AppendEvent` | everybody | a crash between a change and its save | the file is a state a resume can use |
| run command (`run.go`) | the contexts, the exit code | `cmdRun`, `executeRun` and its signal goroutine | scheduler | the second signal at any moment | the exit code says what happened |
| resume (`resume.go`) | as run state | `cmdResume`, `prepareResume`, dry run | docker (`ps`, `wait`), scheduler | containers outlive the process; docker creates one late; resumes crash too | verdicts and sweeps survive, no container is forgotten, no job started twice, the dry run tells the truth |
| executor (`executor.go`) | container, `job.log`, `junit.xml` of the job directory | `Run`, `Attach`, `classifyResult`, `markInfraSkipped` | docker, the manager's report | kill races creation; artifacts shared between attempts; several kinds of failure in one report | an attempt ends, its container is gone, its verdict is its own |
| refresh (`refresh.go`) | zones, costs and keys of saved jobs, a backup | `-refresh-config` within `cmdResume` | run state, configuration | replaces what sweeps and attempts refer to, between two saves | history stays, what is left to do can run, the old state can be had back |
| configuration, matrix (`config.go`, `matrix.go`) | none | `applyDefaults`, `Validate`, `ExpandJobs` | `cmdRun`, refresh | rules, tiers, families, quarantine and each_zone act on one job one after the other | every job is complete, unique and placeable; a tier is a slice of the matrix |
| status, report (`status.go`, `report.go`) | none | `RenderStatus`, `RenderTicker`, `BuildReport` | `state.json`, `citrun.yaml` | what they read was left by any sequence of processes | they agree with what happened |
| manager (`cmd/manager/main.go`) | flags, zone index | selects packages and images, builds `[]*TestWorkflow`, prints, validates or runs, reports | engine | filters in sequence, zone rotation, many ways to leave `main` | every selected suite once per image, zones spread, a truthful exit code |
| engine (`testworkflow.go`) | channels of workflows, projects and results; workflows; the cloud | `RunTests`, `runTestWorkflow` with retries, `dumpSerialLogs`, `cleanTestWorkflow`, `finalizeWorkflows`, `getTestResults`, `parseResult` | daisy, the compute API, the cleaner-upper | workers, exclusive projects, a retry under a new workflow ID, early returns | locks hold, nothing is left behind, every test is reported once, serial logs come before deletion |
| fixtures (`fixtures.go`) | the step graph of a daisy workflow | `CreateTestVM` and its variants, `CreateNetwork`, `Reboot`, `Resume`, `CreateDerivativeVM`, ... | engine | called in any order; chains that hang on "the last step" of a VM | resources come first, no VM is stopped in its tests, results are complete when copied |
| cleaner-upper (`cleanerupper`, `cmd/cleanup`) | lists it keeps per region | policies, one `Clean...` function per kind of resource | compute API | goroutines of several levels in one WaitGroup; failing lists and deletions; others delete too | it spares what it must, in an order the cloud accepts, and reports the truth |
| wrapper (`cmd/wrapper`) | files on the VM, guest attributes | runs tests, uploads, signals | GCS, metadata | reboots, suspends, `log.Fatalf` before deferred calls, a retried upload | what the tests printed reaches the report |
| junit conversion (`junit.go`) | none | `convertToTestSuite` | `parseResult` | output without tests | no failure is dropped |
| guest utilities, test suites | none that lasts | straight-line code | the guest | - | - |

The hazards of this code, each with its line and with the properties that would catch
it, are in `PROJECT.json`.

## 2. Modules

| module | models | extends |
|---|---|---|
| `Placement` | jobs, zones, regions, budgets, and the pure questions of `placement.go` | |
| `JobPool` | the abstract specification of the scheduler: jobs are placed while the placed ones fit, and a verdict is final | `Placement` |
| `Scheduler` | `Scheduler.Run` with everything it calls, `persist`, the signal handler, the pause file, the clock | `Placement`; instantiates `JobPool` |
| `Resume` | several processes on one run directory: crash, exit, `resume`, `rerun-failed`, with containers that live on | `Scheduler` |
| `Executor` | one job's attempts: docker, the artifacts, the classification, kill and deadline, crash and `Attach` | |
| `TestRunner` | `RunTests` and its workers | |
| `Manager` | `cmd/manager`, from its flags to its exit code, around `RunTests` | `TestRunner` |
| `Workflow` | one workflow from its set-up to its report: fixtures, `finalizeWorkflows`, daisy, the VMs with the wrapper, `parseResult` | |
| `Cleanup` | the cleaner-upper, `cmd/cleanup` and the clean-up after a workflow | |
| `Matrix` | `config.go`, `matrix.go` and `placement.go` as operators on a configuration | |
| `Refresh` | a run directory over `run`, edits of `citrun.yaml`, `resume` and `-refresh-config`; `status` and `report` | `Matrix` |
| `MCScheduler`, `MCResume`, `MCManager`, `MCWorkflow`, `MCCleanup`, `MCRefresh` | instances for TLC | the module they are named after |
| `SequenceFacts` | facts about numbers and sequences that several proofs need | |
| `SchedulerProofs` | theorems on admission, the books, the refinement of `JobPool` and the run state | `Scheduler` |
| `ResumeProofs` | what outlives crashes and resumes | `Resume`, `SchedulerProofs` |
| `ExecutorProofs` | theorems on the attempts of a job | `Executor` |
| `ManagerProofs` | theorems on the runner, that `main` implements it, and on what `main` makes of its flags and results | `Manager`, `SequenceFacts` |
| `WorkflowProofs`, `CleanupProofs`, `RefreshProofs` | theorems | the module they are named after, `SequenceFacts` |

Definitions named `X_Something` with a comment that starts with "fault:" are broken
variants of `X`. No specification uses them. They are there to show that a property
notices the fault: with `X` replaced by the variant the property is violated.

### Placement, JobPool, Scheduler

`Run` is one goroutine. Its program counter `pc` is `top` (about to admit), `admit`
(inside the loop over `Order`, at position `cursor`), `check` (the exit test), `select`
and `done`. One iteration of the admission loop is one step, because signals, the pause
file and the clock act between iterations. Completions are received in the select only.
`AdmitBegin` has admit's early return, `AdmitEnd` the end of the loop and the return at
the container cap, `AdmitSkip` the `continue`s before `pickZone`, `AdmitNoZone` the one
after it, and `Launch` is `pickZone` and `launch` with charge and save.

`pickZone` is not a choice: `PickedZones` has at most one element, the zone that the
region with the most headroom, the string order among equals, the round-robin counter
and the last-zone fallback determine. Regions are numbers for the sake of the string
order.

`handleCompletion` is `Complete`, `CompleteStockout` (`recordStockout`), `CompleteQuota`
(`bumpCooldown` and the penalty) and `CompleteAborted`. All begin with `Receive` (charges
returned, attempt closed) and end with `persist`.

Abstractions:

- A deadline is the number of ticks left; `Tick` lets time pass for all, also for those
  in `disk`. 0 is an entry that has expired, `NoTimer` no entry: `pickZone` treats the two
  differently.
- Of `rec.Attempts` the code reads the last entry and counts per class, so `last` and
  `hits` are what is kept.
- `SafetyFactor` is a fraction, and the conversion to `int` a rounding down.
- The round-robin counter is kept modulo a common multiple of the list lengths
  (`RRPeriodAssumption` makes that exact).
- `cooldownHits` has no bound of its own; the retry caps bound it.
- Left out: log lines, `AppendEvent` (nothing reads events back), the migration of
  cooldown keys that older versions wrote (`scheduler.go` 66-86), and a `LoadState` in
  `executeRun` that fails after `Run` has returned.

### Resume

Adds `containers` (alive, whoever started them), `owned` (a goroutine of the live process
waits), `starting` (`docker run` has not created the container yet) and `stray` (the same,
but the process is gone). `Crash` is possible at every step of a run and of a resume.
`Gone` models the loss of everything but `disk`. `StartResume` is the command together
with the plan of a dry run given at that moment, whose `docker ps` may fail job by job; then `prepareResume` goes through `Order`
one job per step, since containers end meanwhile. `Attach` blocks that loop.

### Executor

Has the control of `DockerExecutor.Run`: `select` between the end of `docker run` and the
end of the context, then `reap` (waiting for `docker run` after the kill) and `classify`.
A `junit.xml` is the set of kinds of failure in it (quota, stockout, API error, assertion
failure), which is what the three patterns tell apart; `{}` is a report without failures.
`container` is the number of the attempt whose container has the job's name, since kill,
wait and `ps` go by that name and the attempts share it. `author` is a ghost, the attempt
whose manager wrote the file, and so is `blind`, the attempts whose container was alive, or
could still come, when a resume gave them up. `docker` and the manager are external and may
fail, hang, and end before or after the report.

The deadline counts from before `docker run`, as in the code, and may come before docker
has answered: then the kill finds no container, and `Run` waits for its natural end
(section 4). A resume orphans an attempt whenever `docker ps` shows nothing, which is also
so when `docker run` is still at it (`strays`) or the query fails; both can be switched off
(`Faults`), and `NoContainerLeft` says what holds with and without them.

### TestRunner

Each of `parallelCount` workers has a program counter. `project` is the choice of the
channel: a locked test takes from `exclusive` and blocks while that is empty, others take
from `shared`. A run of a workflow is `<<test, zoneIdx>>`, because
`recreateTestWorkflow` gives a retry a new ID, and `cleanTestWorkflow` finds resources by
ID. `vms` and `other` are the runs with resources that no cleanup has looked for yet. What
a cleanup fails to delete is only logged by the code and is not followed any further.
`serial` are the runs whose serial output has been asked for. Both channels of projects
start in an arbitrary order (`rand.Perm`).

Abstractions: `testchan` has room for every workflow, so feeding it is one step;
projects are distinct; the serial-once flag has its default; `Beta` are the workflows
whose VMs are created with the beta API; what `parseResult` makes of a result is its
kind only.

### Manager

Adds the stages of `main` to `TestRunner`: `ParseFlags`, `NewTestWorkflow` once for each
package and image, `SetupDone`, then `PrintTests`, `ValidateTests` or `BeginRun`, the
steps of `RunTests`, `Download` and `Report`. `Fatal` is `log.Fatal`, which is possible
wherever a client, a listing or a set-up may fail, and in `parseResult`. A regular
expression is the set of packages it matches; which tests of a workflow that succeeded
have failed is up to their results. Only the command lines that build the workflows of
the instance run; the others print or validate.

### Workflow

`steps` and `deps` are the graph that daisy is given. The set-up phase calls fixtures
until `Finalize`; `Suites` says which ones a suite uses, in every order. The steps shared
by a workflow (`create-disks`, `create-vms`, ...) are made once and get items; those of a
VM carry its name and the counter that the code gives them. `getLastStepForVM` walks along
dependents as the code does. Then daisy runs whatever is ready, while each VM is off, on
or suspended, has booted so and so often, and its wrapper tests, uploads and signals. A
wait step ends with a guest attribute, which outlives a boot, or with the serial line of
this boot. `out` is the reader that an upload consumes. All tests of one VM stand for one.

Left out: the content of VM resources but for zone, networks and interfaces, the names of
objects but for the results URL (a derivative VM shares that of its source), and image
creation.

### Cleanup

A Clean function is a sequence of instructions: start a goroutine that deletes r, wait for
all, or list something and replace the instruction by what the code does with the list.
This keeps the control (where the code waits, what it skips when a list fails, which lists
it keeps per region and for how long) without a program counter per function. `Each` is a
loop over a list, in some fixed order; the goroutines it starts end in any. A resource
is a record of what the policies and the membership tests look at. The cloud refuses to
delete what is in use; a deletion may fail for other reasons `MaxFaults` times; `Foreign`
resources may vanish.

### Matrix and Refresh

A configuration is a record. `WithDefaults` and `Validate` are `LoadConfig`; `ExpandJobs`
goes through rows, shapes, images and suites in the order of the code, with rules, tiers,
each_zone and quarantine, and then the families. `Refresh` has the run directory as state:
`disk` (`state.json`), `yaml`, the newest complete `backup`. The scheduler is reduced to
what it does to the record of a job (launch, stockout sweep, verdict), since it has a
module of its own, and a killed runner simply stops. `current` is a ghost: the jobs on
disk were planned or refreshed with the `citrun.yaml` that is there. Status and report are
operators on that state.

## 3. Runs

| run | instance | checks |
|---|---|---|
| `sched_budget` | four jobs (one quarantined), two regions, two keys, a shape cap, network and slot limits that bind | `NothingBelowZero`, `WithinBudgets`, `RunningIsInflight`, `BooksBalance`, `ImplementsPool` |
| `sched_retry` | two jobs, three zones, one never fits job b; two sweeps, two quota attempts, one retry of a real failure | `SweepAccounting`, `RetryCaps`, `DiskCurrent`, `QuotaCooldownNotExtended` |
| `sched_ends` | two jobs that share a zone, plus one zone that never fits; two signals, a pause, failing saves | `CleanExit`, `RunTerminates` |
| `resume_crash` | two jobs in one region, one crash, one resume | `NoForgottenContainer`, `NoOvercommit` |
| `resume_faults` | one job, two crashes, two resumes, two sweeps, two signals, failing saves and `docker ps`, late containers | `PlanMatches`, `SweepsSurvive`, `VerdictsSurvive`, `ResumeEnds` |
| `exec_attempts` | three attempts with kill, deadline, crash, attach, failing docker commands, slow `docker run`s | `NoContainerLeft`, `OnlyRealFailuresReported`, `HardTimeoutEndsRun` |
| `runner` | nine command lines; one of them runs two packages on two images (two workflows lock, one is skipped, one has beta VMs), two workers, one project, two zones | `LockedApart`, `NothingLeft`, `EveryTestReported`, `Chosen` (with `ZonesSpread`), `ExitTellsTheTruth` (with `ExitsClean`), `SerialBeforeDelete`, `ManagerEnds` |
| `workflow` | four kinds of set-up of three to five calls each: networks and quotas; two VMs that reboot; suspend, resize and derivative VMs; zones and interfaces | `ResourcesFirst`, `FlagsReachVMs` (with `ZonesAgree`), `VerdictKept` (with `CopiedComplete`, `FailsForCause`), `NeverCut`, `Completes` |
| `cleanup` | nine calls on four scenes (a load balancer, networks and VMs, the other kinds, a network with a labelled forwarding rule), one fault, resources that vanish | `Spared`, `ReportTrue` (with `NoSilentLeftover`), `InOrder` (with `NetworkLast`), `Ends` |
| `refresh` | 23 configurations, three filters, three scheduler steps, one edit to one of four configurations, two resumes | `NeverStuck` (with `Admissible`), `TierIsASlice`, `StatusAgrees`, `HistoryKept` (with `BackupFirst`) |
| `doc_labelled_kept`, `doc_empty_upload` | as `cleanup` (the fourth scene, the calls of the command by age, no fault), `workflow` | `AlwaysKept`, `ExecutedNotDisabled`: expected violations, section 4 |

The properties are explained where they are defined. Related ones are checked as one
conjunction of named parts, and the type invariant of a module is a part of one of its safety
properties (`NothingBelowZero`, `NoForgottenContainer`, `NoContainerLeft`,
`EveryTestReported`, `ResourcesFirst`, `InOrder`, `StatusAgrees`). Each part that is more
than a consequence of the others has a mutant of its own.

**Bounds.** Every limit of the scheduler instances is reached: with usable CPUs 3 and 7,
jobs of 3 and 4 CPUs fill both regions exactly, and a halved region still holds one of
them but not the other. In `sched_budget` each limit (family key, CPUs, networks,
subnetworks, shape, slots) keeps out some job that the others would let in. Two sweeps and
two zones are the least with which a mark can be left over from an earlier sweep; two
quota attempts the least with which a cooldown can be extended. `sched_ends` has fewer
zones than `sched_retry`, because liveness multiplies the cost and the ways to hang
(cooldown, penalty, a zone that never fits, a full budget) are all in it. Two crashes and
two resumes are enough for a resume that is lost itself and is repeated, with a sweep that
is under way, or cools down, each time. The executor needs two attempts for the shared
directory and the shared name, and has a third for one that meets a container, or a
`docker run`, of two attempts before it. Which faults of docker may happen is chosen at the
start, so that the states without them are there too. The runner has one project, so that lockers really block, and two
zones, so that a test has a first and a last one; more projects and workers are left to
the proof. A workflow needs two VMs for the shared steps and one fault for each place where
something can fail; four calls are enough for two VMs, a reboot and a derivative VM. The
scenes of `cleanup` have each kind of resource, a second region and, for each reason to
spare something, one resource that only this reason spares; two URL maps share a proxy's
region, so that deletions are asked for again while an earlier one is under way. Three steps of the scheduler
leave a job swept, passed, failed or running when the file is edited; the jobs do not
interact there. No symmetry is declared: jobs, zones and tests all play different roles.

**Deadlock** is checked in the runs on citrun and the manager. A run that has ended
stutters explicitly (`Terminated`, `Stopped`, `Finished`, `Exited`). `workflow`, `cleanup`
and `refresh` switch it off, as these programs really end or reach a bound; the first two
have a liveness property instead.

**Fairness.** `Run`'s own steps and the clock are weakly fair: the goroutine is runnable,
and the idle tick always ends the select. A completion is strongly fair per job: it is
enabled only in the select, a goroutine that is blocked on `done` is served as soon as the
select starts, and `exec.Run` ends by its hard timeout. Interrupts, pauses, crashes and
commands are not fair. In `Resume` docker answers and containers end (the manager has a
`-timeout`). In `Executor` the manager may hang for ever; only `Run`, docker's answer and
the clock are fair, and `HardTimeoutEndsRun` rests on the timeout alone. In `TestRunner`
and `Manager` every worker is weakly fair: daisy and the API answer, and there are
finitely many workflows and zones. In `Workflow` daisy runs what is ready and gives up on
a wait whose VM is dead (every wait step has a timeout), and VMs run their tests to an
end; faults are not fair. In `Cleanup` goroutines run and API calls return. `Refresh` has
safety properties only.

`RunTerminates` assumes that the operator does not leave the run paused, and the constants
assume what `validatePlaceable` checks. A job that needs more networks than are
configured is not rejected by it and waits for ever (see the hazards).

## 4. Where the code and its documentation disagree

Two of these have a run in which TLC finds the quoted sentence violated.

- `doc_labelled_kept`: "resources labeled do-not-delete are always kept"
  (`cmd/cleanup/main.go:8`), but `CleanNetworks` deletes the forwarding rules of a network
  without asking the policy (`cleanerupper.go:872`). `Spared` says what is kept: all that
  the policy keeps, but for these and the other parts of a network that is to go.
- `doc_empty_upload`: an upload that fails after its reader was consumed is repeated with
  nothing to read (`cmd/wrapper/main.go:253`), and tests that ran, and may have failed, are
  reported as disabled (`testworkflow.go:1598`). `VerdictKept` is stated without faults for
  this reason.

Smaller differences met while modelling. The models do what the code does; no run is
devoted to them:

- one quota error in a report hides an assertion failure in it, and both are rewritten to
  skipped (`executor.go:173`; `executor.go:179` says otherwise);
- an attempt without a report is classified by the `junit.xml` that an earlier attempt left
  in the job directory (`executor.go:164`, `:290` only truncates `job.log`); after an infra
  attempt, whose report is rewritten to skipped, it passes. `OnlyRealFailuresReported`
  therefore speaks of a first attempt;
- a kill, by the operator or the deadline, that comes before docker has created the
  container, or that fails, is lost, and the run waits for the container's natural end
  (`executor.go:321`, `docs/citrun.md:250`); `HardTimeoutEndsRun` makes room for it;
- a locked project is shared with tests that do not lock (`testworkflow.go:1350`,
  `fixtures.go:136`);
- the serial output of beta VMs is never asked for (`testworkflow.go:141`, `:135`);
- a drained run with queued jobs exits 0 (`run.go:167`, `docs/citrun.md:63`);
- an admission pass under way goes on launching after the first interrupt
  (`scheduler.go:291`, `docs/citrun.md:247`); `DrainedLaunchesNothing` is about the time
  after `Run` has noticed;
- counters per class are not reset by a resume (`resume.go:59`, `docs/schema.md:178`), and
  so a job that a resume requeues after `infra` failures has one attempt, not a fresh set;
- a failure seen by `Attach` is final although retries are left, and an infra result seen
  by it is requeued although the cap is reached (`resume.go:37-48`, `docs/schema.md:172`);
- a job is declared orphaned while its `docker run` has not created the container yet, or
  when `docker ps` fails (`resume.go:25`, `executor.go:340`, `docs/citrun.md:119`); the
  relaunch then fails on the container's name, and the container outlives its attempt;
- `docker wait` in `Attach` may fail as well, and the attempt is then classified while its
  container runs on (`executor.go:332`);
- the errors of writing `junit.xml` are not looked at (`cmd/manager/main.go:675`): the
  manager may exit 0 with an empty or truncated report. In `Manager`, `junit.whole` says
  whether it is complete, and `ExitTellsTheTruth` promises a result per workflow only then;
- a skipped test is counted as started and never as done (`testworkflow.go:1395`);
- `RunTests` ignores the error of `finalizeWorkflows` (`testworkflow.go:1301`), and an
  error of `GetImage` is overwritten (`testworkflow.go:1139-1154`);
- a refresh expands with an empty filter, so that a tier run gets the zones of the full
  matrix (`refresh.go:13`, `docs/citrun.md:103`), and each_zone rows of a tier run cannot be
  matched;
- a quarantine entry without a reason has no effect (`matrix.go:110`, `docs/schema.md:105`);
- a plain resume after an edit of `citrun.yaml` may leave a queued job without a zone:
  nothing validates the saved jobs against the new budgets. `NeverStuck` is about runs that
  are current;
- `excludedZones` lists a shape and a zone as "never budget-feasible" when only the
  costlier suites of that shape are (`placement.go:73`); `StatusAgrees` says what holds;
- health checks are never deleted by `CleanLoadBalancerResources`: the policy is asked about
  their URL (`cleanerupper.go:735`); a zonal endpoint group whose deletion failed is reported
  as deleted, too (`cleanerupper.go:1156`), and so is an OS policy assignment whose delete
  operation failed, this one without an error, as that of `op.Wait` is not looked at
  (`cleanerupper.go:1278`); `ReportTrue` excepts the two; regional forwarding rules are not waited for
  before the proxies they point at; two subnetworks of one region make the same deletions be
  asked for twice, and so do two URL maps or two backend services of a region, the proxies'
  again beside the deletion of the URL map before (`cleanerupper.go:697`), where `InOrder`
  says that they are gone or in an error already; the load balancers of a network are looked
  for in the regions of its subnetworks only (`cleanerupper.go:857`);
- an empty `-regions` is one region with an empty name (`cmd/cleanup/main.go:92`);
- VMs that are created after a firewall rule do not wait for it, and VMs created before a
  subnetwork do not wait for that (`fixtures.go:249`, `:1104`);
- `UseGVNIC` gives a VM an interface, and `-network` then does not apply to it
  (`testworkflow.go:809`);
- a reboot of a VM without `shouldRebootDuringTest` waits for an attribute that is there
  already, and so does a second reboot;
- a derivative VM writes its results over those of its source (`fixtures.go:467`);
- the region of a quota step is that of the zone before a VM forces another
  (`testworkflow.go:933`), and `-zone_override` leaves the zone of such a VM as it is,
  although the comment at `testworkflow.go:984` says it will be ignored; without it a suite
  that forces a zone retries a stockout in the same zone;
- a failed `-validate` exits 0 (`cmd/manager/main.go:629`); a missing list of tests of a
  suite is fatal after all tests have run, and their report is lost.

## 5. Proofs

`tlapm` checks eight proof modules. Their theorems hold for every value of the constants
that satisfies the named assumptions, which TLC evaluates on the instances:

- what `ExpandJobs`, `Config.Validate` and `validatePlaceable` guarantee of the jobs of a
  run (`JobsAssumption`, `OrderAssumption`, `BudgetAssumption`, `SafetyAssumption`,
  `NoZoneAssumption`, `PlaceableAssumption`), and the defaults of the configuration
  (`SchedulerAssumption`);
- what the constants of the other modules stand for (`ExecutorAssumption`,
  `RunnerAssumption`, `ManagerAssumption`, `WorkflowAssumption`, `FilesAssumption`,
  `ResumeAssumption`, `CleanupAssumption`): lists are lists, bounds are numbers, resources
  and regions are finitely many, no test package is listed twice, IDs are given exactly to
  the policy by ID, load balancers are in regions of the project;
- `UsesAssumption`: what the cloud lets use what. Nothing uses its own kind, a health check
  uses nothing, a proxy its URL map in its region, a URL map its backend services, and no
  part of a network another part that is deleted beside it. The last excludes a route whose
  next hop is a forwarding rule; no code here creates one;
- `BackoffAssumption`, that a power of two is a positive number: exponentiation is not
  interpreted by the provers.

The inductive invariants below were checked by TLC on the instance of their module before
or beside the proof, quantifiers over all numbers cut to small ones, but for `PhaseInv` of
`CleanupProofs`, which speaks of all sequences.

**SequenceFacts.** `FlattenSeq` of the community modules is a recursive function, so what
it does is an induction over data. That is done with the least counterexample
(`LeastNumber`, from the well-foundedness of `<`), as the library's induction theorems
cannot be instantiated; that the recursive function exists is shown from its finite
approximations (`FlattenExists`). What the other modules cite: the elements of the parts
are those of the whole (`FlattenAll`, `FlattenLists`), a loop with a `continue` keeps
elements in place and none twice (`FlattenFilter`), parts without a common element have
none twice together (`FlattenNoneTwice`), and what is closed under concatenation is closed
under `FlattenSeq` (`FlattenClosed`). `SelectSeq` has no definition in the provers; models
that are proved about use `FlattenSeq` for such a loop.

**SchedulerProofs: admission.** `WithinBudgets` is not inductive alone. The inductive
invariant is `AdmissionInv == TypeOK /\ RunningIsInflight /\ WithinBudgets`: a completion
returns its charges to the region of `last[j].zone`, and without `RunningIsInflight` that
need not be a zone. The lemmas follow the code. `HeadroomIsRoom`: headroom at least the
cost is room under every key the job is charged to, also under a penalty (`AllowedBound`).
`PickedZonesFit`: whatever the two passes of `pickZone` return has such headroom.
`StepKinds` reduces the next-state relation to a launch, a completion, or a step that
touches neither statuses nor books; `RunningStep` and `BudgetStep` follow its cases.

- `TypeCorrect`, `BudgetsHold`, `RunningAgrees`: the three parts.
- `CountersNotNegative` (`NothingBelowZero`): from the books below, as a sum over jobs in
  flight is never negative.
- `DrainIsFinal` (`DrainedLaunchesNothing`, which no run checks): from `DrainInv`, that a
  drained `Run` has its context cancelled and is not inside a pass.
- `QuotaCountsOnce` (`QuotaCooldownNotExtended`): an action property from `AdmissionInv`.

**SchedulerProofs: the books.** A sum over jobs is the number of their units (`Units`,
`Total` in `Placement`: amount[j] units for each job), so that adding or removing a job is
a fact about cardinalities and needs no induction over sets. `Books` says of every counter
that it is such a sum over `inflight`; with `AdmissionInv` it is inductive.

- `BooksAlwaysBalance` (`BooksBalance`).
- `SchedulerIsAPool` (`ImplementsPool`): the refinement. A launch is the pool's `Start`, a
  completion its `Finish`, with a verdict or back to waiting, and all other steps stutter.
  That a launch fits what is placed already is `BudgetsHold` together with the books.

**SchedulerProofs: the run state.** The inductive invariant is `RunStateInv`. `RetryCaps`
is inductive with `RunningIsInflight` (only a running job completes, and its caps are
open). `SweepAccounting` needs `SweepInv`: a running job is in a zone that its sweep has
not marked, and has no cooldown; else a stockout would be counted twice. `CleanExit` needs
that the second signal comes after the first (`CancelInv`).

- `RetriesAreExact`, `SweepsAreExact`, `DiskIsCurrent`, `ExitIsClean`.

**ResumeProofs.** `ProcessInv` says of whichever process is alive that it is a scheduler
with balanced books, or one that has charged nothing, with `prepareResume` at its cursor
(`CursorInv`). So the scheduler's theorems carry over to a run of many processes.

- `SavedVerdictsSurvive` (`VerdictsSurvive`) and `SavedSweepsSurvive` (`SweepsSurvive`),
  whatever fails: from `MemoryInv`, that memory never falls behind the disk.
- `NoContainerForgotten` (`NoForgottenContainer`) and `SurvivorsFit` (`NoOvercommit`), from
  `SurvivorInv`. Both assume `NoFaults`: saves and `docker ps` work, and no `docker run` is
  slower than the crash and the resume after it. The assumption is the code's own (section
  4: with a late container the job is called orphaned); `resume_faults` has the faults.
- `DryRunTellsTheTruth` (`PlanMatches`), without that assumption: the plan is compared with
  what the resume does while containers end or come and queries fail.

**ExecutorProofs.** `DockerInv` ties `docker run` to its container, `LivingInv` says which
containers may be alive beside the one that is waited for, `SureInv` that without faults of
docker a resume gives up nothing that lives, and `AuthorInv` ties a report to an attempt.
`ReturnsWithoutContainer` (`NoContainerLeft`) and `ReportsAreReal`
(`OnlyRealFailuresReported`) follow, for any number of attempts and any faults.

**ManagerProofs: the runner.** The inductive invariant is
`RunnerInv == LockInv /\ NothingLeft`. `LockInv` says that a workflow is with at most one
worker (`OneWorker`, since each is received once), that a project is in
`exclusiveProjects` at most once (`FreeOnce`) and is there or with one locked test, never
both (`HeldOnce`), and that only locked tests give back (`UnlockLocked`). `NothingLeft` is
inductive only together with `OneWorker`: what a cleanup removes is the run of the
worker's own test, and no other worker has it.

- `LocksHold` (`LockedApart`): a run with resources belongs to a worker that holds its
  project (`NothingLeft`), and `HeldOnce` keeps two such projects apart.
- `CleanupIsComplete` (`NothingLeft`).
- `SerialComesFirst` (`SerialBeforeDelete`): the output of a VM that is about to be deleted
  has been asked for (`Captured`).
- `ReportIsComplete` (`EveryTestReported`): `ReportInv` counts the workflows that are still
  to come, with a worker, in the channel of results and returned (`Counts`, `Delivered`).

**ManagerProofs: main.** `ManagerRunsTests`: every behaviour of `main` is one of
`RunTests`, so `LockedApart` and `NothingLeft` hold in it (`ManagerLocksHold`,
`ManagerCleansUp`). `ExitIsTrue` (`ExitTellsTheTruth`) rests on `ExitInv`: where `main` is,
and that the suites it reports on are those with the tests' results.

- `WorkflowsAreChosen` (`Chosen`, with `ZonesSpread`) has a hypothesis, `NoRepeats`: the
  command line names no zone and no image twice. The code does not check that; with a
  repeated zone that zone gets more than its share, and with a repeated image a suite runs
  on it twice. The inductive invariant is `ChosenInv`. `Matched`: the workflows made so far
  are those of the first pairs of the nested loops, and `todo` is the rest. `Evenly`: the
  zones up to the index are the first of q + 1 workflows each, those behind it of q, which
  is what makes the round robin fair and is lost in `ZonesSpread` alone. `PairsFacts` is
  about the loops: each selected package meets each image once.

**WorkflowProofs.** What the fixtures build is `GraphInv`, a conjunction of five. `VMInv`
and `CreateInv` are about the records of VMs and what `create-vms` waits for. `ChainInv`
is the shape of what `Reboot`, `Resume`, `ResizeDiskAndReboot` and `CreateDerivativeVM`
append to a VM: wait, stop, wait for the stop, start. `WalkInv` is needed because the code
finds the place to append at by walking: `getLastStepForVM` goes from dependent to
dependent of the first wait step. Steps of a VM have at most one dependent while the
fixtures build, and a `Rank` (five times the counter and the place in the chain) grows
along the walk, so that it ends, in the newest chain; `ChainInv` would not survive an
append elsewhere. `RunInv` is about the run: what a VM has signalled, and in which boot,
follows from the steps that are done (`BootInv`, `StopInv`, `SignalInv`), and what is
uploaded from that (`UploadInv`, `OutcomeInv`). `FlagInv` is a separate, smaller one.

- `ResourcesAreFirst` (`ResourcesFirst`, with the type invariant): a VM boots after all it
  refers to, and a derivative VM while its source is off for good.
- `NoVMIsCut` (`NeverCut`): an action property. A stop follows the wait for the boot before
  it, and a wait means that the tests have ended (`SignalInv`).
- `VerdictIsKept` (`VerdictKept`) and `FlagsReachAllVMs` (`FlagsReachVMs`).

**CleanupProofs.** `Spared` is about what has been deleted; what makes it inductive is that
nothing else is under way or still to come. `SafeCode` are the instructions that lead only
to resources that may go, and `SafeInv` that `todo` consists of them. `ExpandSafe` goes
through all Clean functions: what any of them does with a list is a sequence of such
instructions again (`EachAll` for its loops). The networks are the interesting case, as
their parts go whatever the policy says: the network itself is indicated, so its parts may
go, and so on through backend services, URL maps and proxies. For `ReportTrue`, `ReportInv`
says that what is to go is in an error, under way, or caught by an instruction still to
come (`Catches`), and that lists that are kept miss nothing that exists; `CaughtAgain` is
the step of a listing.

`InOrder` says that no deletion is under way beside that of a resource that uses it, but
for forwarding rules, and that a network is deleted after its parts. Its invariant is `OrderInv`, about the positions of instructions in `todo`. `PhaseInv` says
which part of the program is left: what comes before `CleanNetworks`, its expansion, or a
call of the library. `SegmentInv` divides the program at its waits: the kinds that an
instruction leaves under way and those that a later one starts before the next wait may go
together (`Apart`, `Together`). That alone permits a proxy and its URL map, which the code
does delete beside each other when a region has two URL maps, and says nothing of a
network. So `GuardInv` says that what has to be over before an instruction (`Before`: the
proxies of a URL map, all parts of a network) is deleted and waited for earlier in `todo`
(`Settles`) or under way with a wait to come (`Waits`). A listing replaces an instruction
by deletions, and `GuardInv` survives it because a list that is kept has all that still
exists, which is a part of `ReportInv`.

- `NothingPreciousGoes` (`Spared`), `ReportsTruly` (`ReportTrue`), `DeletesInOrder`
  (`InOrder`, with `NetworkLast`).

**RefreshProofs.** Facts on three levels. Of one job: `refreshRunConfig`, `prepareResume`
and the scheduler's steps change a record in ways that keep what has happened
(`KeptRecord`); of a run, that they keep its order and every record (`KeptRun`), two steps
one after the other as well (`KeptTwice`, as a refresh prepares what it has saved); and of
the directory, `Inv`: the file is a sound run (`SavedOK`), and as long as it is current
every job in it fits a budget, and is open somewhere or cools down (`PlacedOK`). The last
is what `NeverStuck` needs, and it is not inductive on queued jobs only: a job that runs
or has failed comes back to the queue. A refresh validates the new jobs before it changes
anything, so a refused one leaves the file as it was.

- `QueuedJobsHaveZones` (`NeverStuck`), `PastIsKept` (`HistoryKept`, an action property),
  `ViewsAgree` (`StatusAgrees`).
- `TiersSlice` (`TierIsASlice`), which is about `ExpandJobs` only: the expansion goes
  through `FlattenSeq`. A cell with each_zone whose rule names an empty zone set is in the
  plan of a tier and not in the matrix, which the property makes room for.

`ViewsAgree` has to allow for a state of `status` that is easy to overlook: a job that
passed before a refresh keeps its old budget key and cost, and so a zone listed as excluded
for a shape may be so for a job of another family.

**Model-checked only.** Liveness under fairness and everything about `ENABLED`:
`RunTerminates`, `ResumeEnds`, `HardTimeoutEndsRun`, `ManagerEnds`, `Completes`, `Ends`.
Every other property of the passing runs is stated by a theorem.

## 6. Not modelled

`PROJECT.json` lists every component with its reason.

- The test suites (`test_suites/`) are independent straight-line programs on a guest, most
  of them pure I/O, and keep no state that other parts of the system see. Their set-up
  functions are inputs of `Workflow` (the fixtures they call). The guest utilities under
  `utils/` belong to them.
- Docker, daisy, the compute API, the storage service and, seen from citrun, the manager in
  its container are external: the models have what the code can observe of them.
- Formatting, logging, decoding of YAML and of command lines, and generated code.
- Of the fixtures, setters that fill one field of a VM resource; of `finalizeWorkflows`,
  machine types, disk types and reservations.
- Of status and report, the ETA and the list of the slowest jobs.

## 7. Plan

Modelled and checked: all of the above; proved: every safety property of the passing runs.
What is left:

1. Network budgets in `validatePlaceable` and two runners on one directory: the code
   excludes neither, and the models assume both away (see the hazards).
2. The parts of `finalizeWorkflows` that choose machine types and reservations, and the
   utilities that suites share, of which only the calls are modelled.
