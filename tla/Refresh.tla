------------------------------- MODULE Refresh -------------------------------
(***************************************************************************)
(* The life of a citrun run directory as its commands see it: `citrun run` *)
(* plans the jobs of a configuration (cmdRun), the operator edits the      *)
(* saved citrun.yaml, and `citrun resume -refresh-config` brings the saved *)
(* jobs up to date (cmd/citrun/refresh.go); `status` and `report` read     *)
(* what is on disk (cmd/citrun/status.go, report.go).                      *)
(*                                                                         *)
(* The scheduler and prepareResume are modules of their own; here a run    *)
(* only changes statuses, sweeps and cooldowns, in up to MaxSteps steps.   *)
(***************************************************************************)
EXTENDS Matrix

CONSTANTS
  ConfigOf,   \* the contents of citrun.yaml, by a name
  Edits,      \* those the saved citrun.yaml may be edited to
  Filters,    \* filters, with their tier
  MaxSteps,   \* bound on the scheduler's steps
  MaxEdits,   \* bound on the edits of citrun.yaml
  MaxResumes  \* bound on the resumes

Files == DOMAIN ConfigOf

IsList(s) == s \in Seq(ToSet(s))

Sections ==
  {"caps", "safety", "containerCap", "budgets", "zoneSets", "shapes", "suites", "matrix", "rules",
   "quarantine", "tiers", "families", "svImages", "armImages"}

\* What the decoder makes of any file: every section is there, lists are sequences, counts
\* are numbers.  zoneRegion has a value for every string that a file calls a zone.
Decoded(raw) ==
  /\ raw = [s \in Sections |-> raw[s]]
  /\ raw.safety \in Int \X Int
  /\ \A r \in DOMAIN raw.budgets : \A k \in DOMAIN raw.budgets[r] : raw.budgets[r][k] \in Nat
  /\ \A s \in DOMAIN raw.zoneSets : raw.zoneSets[s] \in Seq(DOMAIN Region)
  /\ \A s \in DOMAIN raw.shapes : raw.shapes[s].cpus \in Nat
  /\ \A s \in DOMAIN raw.suites : raw.suites[s].vms \in Nat
  /\ IsList(raw.matrix) /\ IsList(raw.rules) /\ IsList(raw.quarantine) /\ IsList(raw.families)
  /\ IsList(raw.svImages) /\ IsList(raw.armImages)
  /\ \A m \in ToSet(raw.matrix) :
       IsList(m.shapes) /\ IsList(m.images) /\ IsList(m.suites) /\ m.eachZone \in BOOLEAN
  /\ \A t \in DOMAIN raw.tiers : \A e \in ToSet(raw.tiers[t]) : e.zones \in Seq(DOMAIN Region)
  /\ \A f \in ToSet(raw.families) :
       f.cpus \in Nat /\ (f.pinned # NoName => f.pinned \in DOMAIN Region)

ASSUME FilesAssumption ==
  /\ \A c \in Files : Decoded(ConfigOf[c])
  /\ Edits \subseteq Files
  /\ \A f \in Filters : f = [x \in {"tier", "configs", "images", "shapes", "suites"} |-> f[x]]
  /\ MaxSteps \in Nat
  /\ MaxEdits \in Nat
  /\ MaxResumes \in Nat

\* LoadConfig: the files it accepts and what it reads from them
Loads == {c \in Files : Validate(WithDefaults(ConfigOf[c]))}
Config == [c \in Loads |-> WithDefaults(ConfigOf[c])]

Unfinished == {"queued", "failed_infra", "failed_real"}
NoRun == [order |-> <<>>]
NoFilter == [tier |-> NoName, configs |-> {}, images |-> {}, shapes |-> {}, suites |-> {}]

VARIABLES
  pc,        \* "none", "running" (a runner has the directory), "stopped"
  yaml,      \* citrun.yaml of the run directory, by name
  disk,      \* state.json
  backup,    \* the newest complete state.json.pre-refresh-* file
  current,   \* all jobs on disk were current, and run, with this citrun.yaml
  steps, edits, resumes

vars == <<pc, yaml, disk, backup, current, steps, edits, resumes>>

IDs(run) == ToSet(run.order)

\* fault: quarantined jobs are left out of the order
NewRunState_Queued(jobs) ==
  [order |-> [i \in DOMAIN SelectSeq(jobs, LAMBDA j : j.Quarantined = NoName) |->
                SelectSeq(jobs, LAMBDA j : j.Quarantined = NoName)[i].id],
   jobs |-> [id \in {jobs[i].id : i \in DOMAIN jobs} |->
              [job |-> jobs[CHOOSE i \in DOMAIN jobs : jobs[i].id = id], status |-> "queued",
               sweep |-> {}, rounds |-> 0, attempts |-> <<>>]],
   cooldowns |-> {}]

\* NewRunState
NewRunState(jobs) ==
  [order |-> [i \in DOMAIN jobs |-> jobs[i].id],
   jobs |-> [id \in {jobs[i].id : i \in DOMAIN jobs} |->
              LET j == jobs[CHOOSE i \in DOMAIN jobs : jobs[i].id = id]
              IN  [job |-> j, status |-> IF j.Quarantined = NoName THEN "queued"
                                         ELSE "skipped_quarantine",
                   sweep |-> {}, rounds |-> 0, attempts |-> <<>>]],
   cooldowns |-> {}]

Init ==
  /\ pc = "none"
  /\ yaml \in Files
  /\ disk = NoRun
  /\ backup = NoRun
  /\ current = TRUE
  /\ steps = 0
  /\ edits = 0
  /\ resumes = 0

\* cmdRun: load, validate, expand, and refuse jobs that no region can hold
CmdRun(f) ==
  LET cfg == Config[yaml]
  IN  /\ pc = "none"
      /\ yaml \in Loads
      /\ f.tier \in AllTiers \cup DOMAIN cfg.tiers
      /\ ExpandsOK(cfg, f.tier)
      /\ validatePlaceable(cfg, ToSet(ExpandJobs(cfg, f)))
      /\ disk' = NewRunState(ExpandJobs(cfg, f))
      /\ current' = TRUE
      /\ pc' = "running"
      /\ UNCHANGED <<yaml, backup, steps, edits, resumes>>

\* The zones a sweep has to try (fitsConfiguredBudget)
FitZones(cfg, j) == {z \in ToSet(j.Zones) : regionFits(cfg, j, Region[z])}

\* pickZone: when the cooldown of its last sweep is over, the job may go anywhere again
OpenZones(cfg, run, id) ==
  FitZones(cfg, run.jobs[id].job) \ IF id \in run.cooldowns THEN {} ELSE run.jobs[id].sweep

Launched(run, id, z) ==
  [run EXCEPT !.jobs[id].status = "running",
              !.jobs[id].attempts = Append(@, [zone |-> z, result |-> "running"]),
              !.jobs[id].sweep = IF id \in run.cooldowns THEN {} ELSE @,
              !.cooldowns = @ \ {id}]

\* fault: the attempt stays open
Ended_Open(run, id, res, status) == [run EXCEPT !.jobs[id].status = status]

Ended(run, id, res, status) ==
  [run EXCEPT !.jobs[id].status = status,
              !.jobs[id].attempts[Len(run.jobs[id].attempts)].result = res]

\* recordStockout: the zone is marked; the last zone of a sweep ends the round, and the
\* last round the job
StockedOut(cfg, run, id) ==
  LET rec == run.jobs[id]
      sweep == rec.sweep \cup {rec.attempts[Len(rec.attempts)].zone}
      full == FitZones(cfg, rec.job) \subseteq sweep
      out == full /\ rec.rounds + 1 >= cfg.caps["stockout"]
  IN  [Ended(run, id, "stockout", IF out THEN "failed_infra" ELSE "queued") EXCEPT
         !.jobs[id].sweep = sweep,
         !.jobs[id].rounds = IF full THEN @ + 1 ELSE @,
         !.cooldowns = IF full /\ ~out THEN @ \cup {id} ELSE @]

\* What a job that runs may turn into
Outcomes(cfg, run, id) ==
  {Ended(run, id, "pass", "passed"), Ended(run, id, "fail", "failed_real"),
   Ended(run, id, "infra", "failed_infra"), StockedOut(cfg, run, id)}

RunJob(id) ==
  LET cfg == Config[yaml]
  IN  /\ pc = "running"
      /\ steps < MaxSteps
      /\ steps' = steps + 1
      /\ \/ /\ disk.jobs[id].status = "queued"
            /\ \E z \in OpenZones(cfg, disk, id) : disk' = Launched(disk, id, z)
         \/ /\ disk.jobs[id].status = "running"
            /\ disk' \in Outcomes(cfg, disk, id)
      /\ UNCHANGED <<pc, yaml, backup, current, edits, resumes>>

\* The runner returns or is killed
Stop ==
  /\ pc = "running"
  /\ pc' = "stopped"
  /\ UNCHANGED <<yaml, disk, backup, current, steps, edits, resumes>>

\* The operator edits the saved citrun.yaml
Edit(c) ==
  /\ pc = "stopped"
  /\ edits < MaxEdits
  /\ edits' = edits + 1
  /\ yaml' = c
  /\ current' = (current /\ c = yaml)
  /\ UNCHANGED <<pc, disk, backup, steps, resumes>>

-----------------------------------------------------------------------------
(* refreshRunConfig *)

\* fault: every job is brought up to date
Candidates_All(run) == IDs(run)

Candidates(run) == {id \in IDs(run) : run.jobs[id].status \in Unfinished}

\* The expansion of an edited configuration, without a filter, by ID
Expands == {c \in Loads : ExpandsOK(Config[c], NoName)}
Fresh ==
  [c \in Expands |->
     LET all == ExpandJobs(Config[c], NoFilter)
     IN  [id \in {all[i].id : i \in DOMAIN all} |-> all[CHOOSE i \in DOMAIN all : all[i].id = id]]]

\* Zones, cost and key of a job are those of the new one
Replanned(old, new) ==
  [old EXCEPT !.Zones = new.Zones, !.CPUCost = new.CPUCost, !.BudgetKey = new.BudgetKey]

\* fault: the sweep of the old zones stays
Refreshed_KeepSweep(c, run) ==
  [run EXCEPT !.jobs = [id \in IDs(run) |->
     IF id \notin Candidates(run) THEN run.jobs[id]
     ELSE [run.jobs[id] EXCEPT !.job = Replanned(@, Fresh[c][id])]]]

\* Jobs that are left are replanned, the stockout sweep and its cooldown start over
Refreshed(c, run) ==
  [run EXCEPT
     !.jobs = [id \in IDs(run) |->
        IF id \notin Candidates(run) THEN run.jobs[id]
        ELSE [run.jobs[id] EXCEPT !.job = Replanned(@, Fresh[c][id]),
                                  !.sweep = {}, !.rounds = 0]],
     !.cooldowns = @ \ Candidates(run)]

\* Everything is checked before anything is changed: the new jobs, without their
\* quarantine, must fit the new budgets
RefreshOK(c, run) ==
  /\ c \in Expands
  /\ \A id \in IDs(run) : run.jobs[id].status # "running"
  /\ Candidates(run) \subseteq DOMAIN Fresh[c]
  /\ validatePlaceable(Config[c], {[Refreshed(c, run).jobs[id].job EXCEPT !.Quarantined = NoName] :
                               id \in Candidates(run)})

\* prepareResume (module Resume).  A job that was running has lost its container, or the
\* container is awaited and its result is the attempt's
StatusOf == [orphaned |-> "queued", infra |-> "queued", pass |-> "passed", fail |-> "failed_real"]

Reconciled(cfg, run, id, res) ==
  IF res = "stockout" THEN StockedOut(cfg, run, id) ELSE Ended(run, id, res, StatusOf[res])

\* The states it may leave: each running job gets some result, the failed ones are requeued
Prepared(cfg, run, onlyFailed) ==
  LET With(s) == {id \in IDs(run) : run.jobs[id].status = s}
      After(id, res) == Reconciled(cfg, run, id, res)
      results == [With("running") -> DOMAIN StatusOf \cup {"stockout"}]
  IN  {[run EXCEPT
          !.jobs = [id \in IDs(run) |->
             IF id \in With("running") THEN After(id, res[id]).jobs[id]
             ELSE IF id \in With("failed_infra")
               THEN [run.jobs[id] EXCEPT !.status = "queued", !.sweep = {}, !.rounds = 0]
             ELSE IF id \in With("failed_real") /\ onlyFailed
               THEN [run.jobs[id] EXCEPT !.status = "queued"]
             ELSE run.jobs[id]],
          !.cooldowns = (@ \ With("failed_infra"))
                          \cup {id \in With("running") : id \in After(id, res[id]).cooldowns}] :
         res \in results}

\* cmdResume without -refresh-config
Resume(onlyFailed) ==
  LET cfg == Config[yaml]
  IN  /\ pc = "stopped"
      /\ resumes < MaxResumes
      /\ resumes' = resumes + 1
      /\ yaml \in Loads
      /\ disk' \in Prepared(cfg, disk, onlyFailed)
      /\ pc' = "running"
      /\ UNCHANGED <<yaml, backup, current, steps, edits>>

\* fault: the state is saved without a backup
ResumeRefresh_NoBackup(onlyFailed) ==
  LET cfg == Config[yaml]
  IN  /\ pc = "stopped"
      /\ resumes < MaxResumes
      /\ resumes' = resumes + 1
      /\ yaml \in Loads
      /\ RefreshOK(yaml, disk)
      /\ disk' \in Prepared(cfg, Refreshed(yaml, disk), onlyFailed)
      /\ current' = TRUE
      /\ pc' = "running"
      /\ UNCHANGED <<backup, yaml, steps, edits>>

\* cmdResume with it: nothing to refresh, or a backup and the new state.  The backup, or
\* the save, may fail; and the process may be lost between the two saves.
ResumeRefresh(onlyFailed) ==
  LET cfg == Config[yaml]
  IN  /\ pc = "stopped"
      /\ resumes < MaxResumes
      /\ resumes' = resumes + 1
      /\ yaml \in Loads
      /\ RefreshOK(yaml, disk)
      /\ \/ /\ Candidates(disk) = {}
            /\ disk' \in Prepared(cfg, disk, onlyFailed)
            /\ pc' = "running"
            /\ UNCHANGED <<backup, current>>
         \/ /\ Candidates(disk) # {}
            /\ backup' \in {backup, disk}
            /\ UNCHANGED <<pc, disk, current>>
         \/ /\ Candidates(disk) # {}
            /\ backup' = disk
            /\ current' = TRUE
            /\ \/ disk' = Refreshed(yaml, disk) /\ UNCHANGED pc
               \/ disk' \in Prepared(cfg, Refreshed(yaml, disk), onlyFailed) /\ pc' = "running"
      /\ UNCHANGED <<yaml, steps, edits>>

Next ==
  \/ \E f \in Filters : CmdRun(f)
  \/ \E id \in IDs(disk) : RunJob(id)
  \/ Stop
  \/ \E c \in Edits : Edit(c)
  \/ \E b \in BOOLEAN : Resume(b) \/ ResumeRefresh(b)

Spec == Init /\ [][Next]_vars

-----------------------------------------------------------------------------
(* status and report, from what is on disk *)

WithStatus(s) == {id \in IDs(disk) : disk.jobs[id].status = s}

\* The placements no sweep tries, by shape: some job of that shape can never run there
excludedZones(cfg, run) ==
  UNION {LET j == run.jobs[id].job
         IN  {<<j.shape, z>> : z \in ToSet(j.Zones) \ FitZones(cfg, j)} :
           id \in {i \in IDs(run) : run.jobs[i].job.Quarantined = NoName}}

\* and the jobs no zone of which can ever hold them
zeroFit(cfg, run) ==
  {id \in IDs(run) :
     LET j == run.jobs[id].job
     IN  j.Quarantined = NoName /\ j.Zones # <<>> /\ FitZones(cfg, j) = {}}

\* Jobs whose last attempt is open, by the region it runs in
regionOccupancy(run, r) ==
  {id \in IDs(run) :
     LET a == run.jobs[id].attempts
     IN  a # <<>> /\ a[Len(a)].result = "running" /\ Region[a[Len(a)].zone] = r}

statusOrder == <<"passed", "failed_real", "failed_infra", "skipped_quarantine", "running", "queued">>
statusCounts == [i \in DOMAIN statusOrder |-> Cardinality(WithStatus(statusOrder[i]))]

RegionNames == {Region[z] : z \in DOMAIN Region}

\* The audit of the zones, without a citrun.yaml that loads an empty one
renderExcludedZones ==
  IF yaml \in Loads
    THEN [excl |-> excludedZones(Config[yaml], disk), zeroFit |-> zeroFit(Config[yaml], disk)]
    ELSE [excl |-> {}, zeroFit |-> {}]

\* Those that are not over yet: at most all, as time has no place here
activeCooldowns == disk.cooldowns

\* The view of `citrun status`
RenderStatus ==
  [counts |-> statusCounts,
   regions |-> [r \in RegionNames |-> regionOccupancy(disk, r)],
   cooldowns |-> activeCooldowns,
   zones |-> renderExcludedZones]

\* The line that a run prints from time to time; it leaves quarantined jobs out
RenderTicker ==
  [queued |-> Cardinality(WithStatus("queued")), running |-> Cardinality(WithStatus("running")),
   done |-> Cardinality(WithStatus("passed") \cup WithStatus("failed_real") \cup WithStatus("failed_infra"))]

\* The sections of `citrun report`
writeRealFailures == WithStatus("failed_real")
writeInfraFailures == WithStatus("failed_infra")
writeFlakes == {id \in WithStatus("passed") : Len(disk.jobs[id].attempts) > 1}

\* Stockouts by shape and region
writeStockouts(shape, r) ==
  UNION {LET tried == disk.jobs[id].attempts
         IN  {<<id, i>> : i \in {k \in DOMAIN tried : tried[k].result = "stockout"
                                                      /\ Region[tried[k].zone] = r}} :
           id \in {k \in IDs(disk) : disk.jobs[k].job.shape = shape}}

\* fault: the test that junit.xml names is the reason of every failure
buildCSV_AnyFailure(named) ==
  [id \in IDs(disk) |->
     LET rec == disk.jobs[id]
     IN  CASE rec.status = "skipped_quarantine" -> rec.job.Quarantined
           [] rec.status \in {"failed_real", "failed_infra"} /\ id \in named -> "test"
           [] rec.status \in {"failed_real", "failed_infra"} /\ id \notin named /\ rec.attempts # <<>> ->
                rec.attempts[Len(rec.attempts)].result
           [] OTHER -> NoName]

\* A row's reason: a failing test for a real failure, where the job's junit.xml (it is not in
\* state.json, named is the set of jobs whose file has one) names it, or else the detail of the
\* last attempt, by its result; the configured one for a quarantined job; no other row has one
buildCSV(named) ==
  [id \in IDs(disk) |->
     LET rec == disk.jobs[id]
     IN  CASE rec.status = "skipped_quarantine" -> rec.job.Quarantined
           [] rec.status = "failed_real" /\ id \in named -> "test"
           [] \/ rec.status = "failed_real" /\ id \notin named /\ rec.attempts # <<>>
              \/ rec.status = "failed_infra" /\ rec.attempts # <<>> ->
                rec.attempts[Len(rec.attempts)].result
           [] OTHER -> NoName]

BuildReport(named) ==
  [real |-> writeRealFailures, infra |-> writeInfraFailures, flakes |-> writeFlakes,
   rows |-> buildCSV(named)]

-----------------------------------------------------------------------------
(* Properties *)

\* Types of the state
TypeOK ==
  /\ pc \in {"none", "running", "stopped"}
  /\ yaml \in Files
  /\ disk = NoRun \/ (DOMAIN disk.jobs = IDs(disk) /\ disk.cooldowns \subseteq IDs(disk))
  /\ steps \in 0..MaxSteps
  /\ edits \in 0..MaxEdits
  /\ resumes \in 0..MaxResumes

\* What the scheduler takes for granted of a run whose configuration passed the gates
\* (cmdRun, or a refresh): IDs are distinct, and every zone of a job that is still to run
\* has a budget row, whichever of zone set, rule, tier or family it comes from
Admissible ==
  pc = "running" /\ current =>
    /\ \A i, k \in DOMAIN disk.order : disk.order[i] = disk.order[k] => i = k
    /\ \A id \in WithStatus("queued") : \A z \in ToSet(disk.jobs[id].job.Zones) :
         Budgeted(Config[yaml], z)

\* A queued job is never without a zone: one that fits is open to it, or its cooldown
\* opens all of them again; a refresh must not leave marks or a cost behind that no
\* region can take (refreshRunConfig, "New placement or budget rules require a fresh sweep")
NeverStuck ==
  /\ Admissible
  /\ pc = "running" /\ current =>
       \A id \in WithStatus("queued") : OpenZones(Config[yaml], disk, id) # {}

\* A tier cuts shapes out of the run and moves the rest: for every filter, cmdRun would plan
\* the cells that the full matrix has on the shapes of the tier, no family, each job in
\* zones of the tier.  (A cell with each_zone whose zone_set rule names an empty set is in
\* the plan of a tier only: the tier's zones come after the rules.)
TierIsASlice ==
  \A f \in {g \in Filters : pc = "none" /\ yaml \in Expands /\ g.tier \notin AllTiers} :
    LET cfg == Config[yaml]
        plan == ToSet(ExpandJobs(cfg, f))
        full == ToSet(ExpandJobs([cfg EXCEPT !.families = <<>>], [f EXCEPT !.tier = NoName]))
        Cells(jobs) == {<<j.id[1], j.id[2], j.id[3]>> : j \in jobs}
        slice == Cells({j \in full : InTier(cfg, f.tier, j.shape)})
    IN  f.tier \in DOMAIN cfg.tiers =>
          /\ slice \subseteq Cells(plan)
          /\ (\A s \in DOMAIN cfg.zoneSets : cfg.zoneSets[s] # <<>>) => Cells(plan) \subseteq slice
          /\ \A j \in plan : \E e \in TierEntries(cfg, f.tier, j.shape) :
               ToSet(j.Zones) \subseteq ToSet(e.zones)

\* A refresh can be undone: whenever a saved job is redefined, the state before it is in
\* a complete backup, also when the process is lost right after
BackupFirst ==
  [][disk # NoRun /\ (\E id \in IDs(disk) : disk'.jobs[id].job # disk.jobs[id].job)
       => backup' = disk]_vars

\* A run never loses its past: what a refresh redefines is backed up first, jobs stay what
\* they are but for zones and costs, a pass is final, and attempts are only added
\* (docs/citrun.md: "Passed and quarantined jobs and all attempt history remain unchanged")
HistoryKept ==
  /\ BackupFirst
  /\ [][disk # NoRun =>
          /\ disk'.order = disk.order
          /\ \A id \in IDs(disk) :
               LET old == disk.jobs[id]
                   new == disk'.jobs[id]
               IN  /\ new.job = [old.job EXCEPT !.Zones = new.job.Zones, !.CPUCost = new.job.CPUCost,
                                                !.BudgetKey = new.job.BudgetKey]
                   /\ old.status \in {"passed", "skipped_quarantine"} => new = old
                   /\ Len(new.attempts) >= Len(old.attempts)
                   /\ \A i \in DOMAIN old.attempts :
                        old.attempts[i].result # "running" => new.attempts[i] = old.attempts[i]]_vars

\* What status and report derive from state.json alone is what happened, over retries,
\* resumes and refreshes: every job is counted once; the open attempts are the jobs that
\* run; a zone listed as excluded for the shape of one of them is so for a dearer job, or
\* for one of another family (which passed before a refresh); only a queued job cools down,
\* and none without a zone is queued; whichever failed jobs have a junit.xml that names a
\* test, the reason in the row of a failed job is why it is in its section; a flake's history
\* ends with its pass; and every zone a sweep has crossed out is a stockout of its shape and
\* region in the report
StatusAgrees ==
  /\ TypeOK
  /\ disk # NoRun =>
       LET view == RenderStatus
           line == RenderTicker
       IN  /\ Len(disk.order) = view.counts[1] + view.counts[2] + view.counts[3]
                                  + view.counts[4] + view.counts[5] + view.counts[6]
           /\ line.queued + line.running + line.done
                = Len(disk.order) - Cardinality(WithStatus("skipped_quarantine"))
           /\ UNION Range(view.regions) = WithStatus("running")
           /\ view.cooldowns \subseteq WithStatus("queued")
           /\ current =>
                /\ view.zones.zeroFit \cap WithStatus("queued") = {}
                /\ \A id \in WithStatus("running") :
                     LET rec == disk.jobs[id]
                     IN  <<rec.job.shape, rec.attempts[Len(rec.attempts)].zone>> \in view.zones.excl =>
                           \E k \in IDs(disk) :
                             /\ disk.jobs[k].job.shape = rec.job.shape
                             /\ \/ disk.jobs[k].job.CPUCost > rec.job.CPUCost
                                \/ disk.jobs[k].job.BudgetKey # rec.job.BudgetKey
           /\ \A named \in SUBSET (writeRealFailures \cup writeInfraFailures) :
                LET report == BuildReport(named)
                    Reasons(ids) == {report.rows[id] : id \in ids}
                IN  /\ Reasons(report.real \cap named) \subseteq {"test"}
                    /\ Reasons(report.real \ named) \subseteq {"fail"}
                    /\ Reasons(report.infra) \subseteq {"infra", "stockout"}
                    /\ \A id \in report.flakes :
                         disk.jobs[id].attempts[Len(disk.jobs[id].attempts)].result = "pass"
           /\ \A id \in IDs(disk) : \A z \in disk.jobs[id].sweep :
                \E s \in writeStockouts(disk.jobs[id].job.shape, Region[z]) :
                  s[1] = id /\ disk.jobs[id].attempts[s[2]].zone = z
=============================================================================
