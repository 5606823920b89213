------------------------------- MODULE Workflow ------------------------------
(***************************************************************************)
(* One test workflow from its set-up to its report.  A suite's SetupFunc   *)
(* calls the fixtures (fixtures.go), which add steps and dependencies to a *)
(* daisy workflow (the append and add functions of testworkflow.go);       *)
(* finalizeWorkflows completes it; daisy, which is external, runs every    *)
(* step once its dependencies are done; on each VM the wrapper             *)
(* (cmd/wrapper) runs the tests and uploads what they print; and           *)
(* getTestResults and parseResult turn the uploads into a test suite.      *)
(*                                                                         *)
(* A step is <<kind, VM, counter>>, a dependency <<dependent, dependency>>.*)
(***************************************************************************)
EXTENDS Integers, Sequences, FiniteSets

CONSTANTS
  VMs,             \* names of test VMs
  Derivative,      \* the name of a derivative VM
  Zones,           \* zones a suite may force
  FlagZone,        \* opts.Zone
  regionFromZone,  \* the region of each zone
  argZoneOverride, \* -zone_override
  Network,         \* -network, or None
  ExternalIP,      \* -external_ip: "unset", "ephemeral" or "none"
  Suites,          \* what a set-up may do: its VMs, their kinds, the fixtures it calls, how often
  MaxUploads,      \* tries of uploadGCSObject
  MaxFaults        \* bound on failures while the workflow runs

None == "none"
All == VMs \cup {Derivative}
S(k) == <<k, None, 0>>

\* "none" names no VM and no zone, and set-ups create test VMs; uploadGCSObject tries at
\* least once
ASSUME WorkflowAssumption ==
  /\ IsFiniteSet(VMs) /\ Derivative \notin VMs /\ None \notin All
  /\ None \notin Zones
  /\ MaxUploads \in Nat \ {0} /\ MaxFaults \in Nat
  /\ \A s \in Suites : s.vms \subseteq VMs /\ None \notin s.kinds /\ s.ops \in Nat

(* The steps made once for all: their append functions add an item to them *)
createDisks == S("create-disks")
createVMs == S("create-vms")
createNetworks == S("create-networks")
createSubnets == S("create-sub-networks")
createFirewalls == S("create-firewalls")
vmQuota == S("wait-for-vm-quota")
diskQuota == S("wait-for-disk-quota")
copyObjects == S("copy-objects")

(* The steps of one VM, made by the add functions *)
addWaitStep(kind, v, n) == <<kind, v, n>>
addWaitRebootGAStep(v) == <<"wait-first-boot", v, 0>>
addWaitStoppedStep(v, n) == <<"wait-stopped", v, n>>
addStopStep(v, n) == <<"stop", v, n>>
addStartStep(v, n) == <<"start", v, n>>
addDiskResizeStep(v, n) == <<"resize-disk", v, n>>
appendDetachDiskStep(v, n) == <<"detach-disk", v, n>>
addNewVMStep(v, n) == <<"create-vms-n", v, n>>

VARIABLES
  pc,       \* "setup", "run", "ended", "refused" (the set-up failed)
  steps, deps, counter,
  vm,       \* what the set-up says of each VM
  instances, instancesBeta,  \* the VMs of step create-vms, by API
  auto,     \* the last network makes its own subnetworks
  late,     \* a subnetwork came after the first VM
  zone,     \* wf.Zone
  quotaIn,  \* region the quota steps look at
  suite, ops,  \* the suite set up, and the calls left to it
  done,     \* steps done
  power,    \* of each VM
  boot,     \* how often it has booted
  wrap,     \* where its wrapper is
  attr,     \* its guest attributes
  out,      \* what its tests printed: the reader that uploads consume
  tries,    \* of the upload under way
  results,  \* the uploaded results, by URL, which is a VM's name
  report,   \* the test suite, by VM: the tests of one VM stand for one test
  success, faults

buildVars ==
  <<steps, deps, counter, vm, instances, instancesBeta, auto, late, zone, quotaIn, suite, ops>>
runVars == <<done, power, boot, wrap, attr, out, tries, results, report, success, faults>>
vars == <<pc, buildVars, runVars>>

NoVM == [kind |-> None, zone |-> None, uses |-> {}, nics |-> <<>>, url |-> None]
NoResult == [out |-> None, boot |-> 0, by |-> None]

\* NewTestWorkflow: an empty workflow in the zone of the options
Init ==
  /\ pc = "setup"
  /\ steps = {} /\ deps = {} /\ counter = 0
  /\ vm = [v \in All |-> NoVM]
  /\ instances = <<>> /\ instancesBeta = <<>>
  /\ auto = FALSE
  /\ late = FALSE
  /\ zone = FlagZone
  /\ quotaIn = None
  /\ suite \in Suites
  /\ ops = suite.ops
  /\ done = {}
  /\ power = [v \in All |-> "off"]
  /\ boot = [v \in All |-> 0]
  /\ wrap = [v \in All |-> "off"]
  /\ attr = [v \in All |-> {}]
  /\ out = [v \in All |-> None]
  /\ tries = [v \in All |-> 0]
  /\ results = [v \in All |-> NoResult]
  /\ report = <<>>
  /\ success = FALSE
  /\ faults = 0

-----------------------------------------------------------------------------
(* Fixtures.  A call that returns an error ends the set-up, and the        *)
(* manager with it.                                                        *)

Call(f) == pc = "setup" /\ f \in suite.fixtures /\ ops > 0 /\ ops' = ops - 1 /\ UNCHANGED suite
Add(newSteps, newDeps) == steps' = steps \cup newSteps /\ deps' = deps \cup newDeps
Refuse ==
  /\ pc' = "refused"
  /\ UNCHANGED <<steps, deps, counter, vm, instances, instancesBeta, auto, late, zone, quotaIn>>

\* Boot disks and mount disks are items of one step
appendCreateDisksStep == createDisks
appendCreateMountDisksStep == createDisks

\* The VM is an item of step create-vms; its results go to an object of its name
setInstanceTestMetadata(v, kind) == vm' = [vm EXCEPT ![v].kind = kind, ![v].url = v]
appendCreateVMStep(v, kind) ==
  /\ setInstanceTestMetadata(v, kind)
  /\ instances' = Append(instances, v) /\ UNCHANGED instancesBeta
appendCreateVMStepBeta(v, kind) ==
  /\ setInstanceTestMetadata(v, kind)
  /\ instancesBeta' = Append(instancesBeta, v) /\ UNCHANGED instances

\* fault: the VM does not wait for networks
VMDeps_NoNetworks(disks, wait) == {<<createVMs, d>> : d \in disks} \cup {<<wait, createVMs>>}

\* The step of all VMs depends on the disks, and on networks and subnetworks when their
\* steps exist already
VMDeps(disks, wait) ==
  {<<wait, createVMs>>}
    \cup {<<createVMs, s>> : s \in disks \cup ({createSubnets, createNetworks} \cap steps)}

\* A second VM of a name has a step too many
NewVM(v, disks, wait, Append_) ==
  /\ \/ vm[v].kind # None /\ Refuse
     \/ /\ vm[v].kind = None
        /\ Add({createVMs, wait} \cup disks, VMDeps(disks, wait))
        /\ Append_
        /\ UNCHANGED <<pc, counter, auto, late, zone, quotaIn>>
  /\ UNCHANGED runVars

CreateTestVM(v) ==
  /\ Call("CreateTestVM")
  /\ NewVM(v, {appendCreateDisksStep}, addWaitStep("wait", v, 0), appendCreateVMStep(v, "plain"))

CreateTestVMBeta(v) ==
  /\ Call("CreateTestVMBeta")
  /\ NewVM(v, {appendCreateDisksStep}, addWaitStep("wait", v, 0), appendCreateVMStepBeta(v, "plain"))

\* With the metadata key shouldRebootDuringTest (kind "reboot") the step waits for the
\* signal of the first boot
FirstWait(v, kind) ==
  IF kind = "reboot" THEN addWaitRebootGAStep(v) ELSE addWaitStep("wait", v, 0)

CreateTestVMMultipleDisks(v, kind) ==
  /\ Call("CreateTestVMMultipleDisks")
  /\ NewVM(v, {appendCreateDisksStep, appendCreateMountDisksStep}, FirstWait(v, kind),
           appendCreateVMStep(v, kind))

CreateTestVMFromInstanceBeta(v, kind) ==
  /\ Call("CreateTestVMFromInstanceBeta")
  /\ NewVM(v, {appendCreateDisksStep, appendCreateMountDisksStep}, FirstWait(v, kind),
           appendCreateVMStepBeta(v, kind))

\* The network makes its own subnetworks if a; VMs that exist already wait for it.
\* CreateNetworkFromDaisyNetwork does the same.
CreateNetwork(a) ==
  /\ Call("CreateNetwork")
  /\ Add({createNetworks}, {<<s, createNetworks>> : s \in {createVMs} \cap steps})
  /\ auto' = a
  /\ UNCHANGED <<pc, counter, vm, instances, instancesBeta, late, zone, quotaIn, runVars>>

\* VMs that exist already do not wait for the subnetwork
CreateSubnetwork ==
  /\ Call("CreateSubnetwork")
  /\ createNetworks \in steps
  /\ Add({createSubnets}, {<<createSubnets, createNetworks>>})
  /\ late' = (late \/ createVMs \in steps)
  /\ UNCHANGED <<pc, counter, vm, instances, instancesBeta, auto, zone, quotaIn, runVars>>

\* VMs that come later do not wait for the rule
CreateFirewallRule ==
  /\ Call("CreateFirewallRule")
  /\ createNetworks \in steps
  /\ Add({createFirewalls}, {<<createFirewalls, createNetworks>>}
                              \cup {<<s, createFirewalls>> : s \in {createVMs} \cap steps})
  /\ UNCHANGED <<pc, counter, vm, instances, instancesBeta, auto, late, zone, quotaIn, runVars>>

\* A network interface; its network is None where the code leaves it blank
Nic(net) == [net |-> net, gvnic |-> FALSE, ip |-> "unset"]

\* One more interface, in the last network; without a subnetwork the network must make its own
AddCustomNetwork(v, sub) ==
  /\ Call("AddCustomNetwork")
  /\ vm[v].kind # None
  /\ createNetworks \in steps
  /\ sub \subseteq {createSubnets} \cap steps
  /\ \/ sub = {} /\ ~auto /\ Refuse
     \/ /\ sub # {} \/ auto
        /\ vm' = [vm EXCEPT ![v].uses = @ \cup {createNetworks} \cup sub,
                            ![v].nics = Append(@, Nic("custom"))]
        /\ UNCHANGED <<pc, steps, deps, counter, instances, instancesBeta, auto, late, zone, quotaIn>>
  /\ UNCHANGED runVars

\* The type is that of the first interface, which is made when there is none
UseGVNIC(v) ==
  /\ Call("UseGVNIC")
  /\ vm[v].kind # None
  /\ vm' = [vm EXCEPT ![v].nics = [(IF @ = <<>> THEN <<Nic(None)>> ELSE @) EXCEPT ![1].gvnic = TRUE]]
  /\ UNCHANGED <<pc, steps, deps, counter, instances, instancesBeta, auto, late, zone, quotaIn>>
  /\ UNCHANGED runVars

ForceZone(v, z) ==
  /\ Call("ForceZone")
  /\ vm[v].kind # None
  /\ vm' = [vm EXCEPT ![v].zone = z]
  /\ UNCHANGED <<pc, steps, deps, counter, instances, instancesBeta, auto, late, zone, quotaIn, runVars>>

\* With a blank region, which finalizeWorkflows fills in
waitForQuotaStep(q) ==
  /\ Call("WaitForQuota")
  /\ Add({q}, {})
  /\ UNCHANGED <<pc, counter, vm, instances, instancesBeta, auto, late, zone, quotaIn, runVars>>

WaitForVMQuota == waitForQuotaStep(vmQuota)
WaitForDisksQuota == waitForQuotaStep(diskQuota)

\* getLastStepForVM: the walk along the only dependent of each step
Dependents(s) == {d \in steps : <<d, s>> \in deps}
Walk(v) ==
  LET at[n \in 0..Cardinality(steps)] ==
        IF n = 0 THEN FirstWait(v, vm[v].kind)
        ELSE LET s == at[n - 1]
             IN  IF Dependents(s) = {} THEN s ELSE CHOOSE d \in Dependents(s) : TRUE
  IN  at
Linear(v) ==
  LET at == Walk(v) IN \A n \in DOMAIN at : Cardinality(Dependents(at[n])) <= 1

\* fault: the first wait step
getLastStepForVM_First(v) == FirstWait(v, vm[v].kind)

getLastStepForVM(v) == Walk(v)[Cardinality(steps)]

Chain(seq) == {<<seq[i + 1], seq[i]>> : i \in 1..(Len(seq) - 1)}
Links(seq) == {seq[i] : i \in 2..Len(seq)}

\* Reboot and ResizeDiskAndReboot, Resume and CreateDerivativeVM take the counter and the
\* last step of their VM; a walk that meets a fork is an error, which TypeOK rules out.  No
\* suite uses a VM whose disk it has given away.
Extend(f, v, n, Op) ==
  /\ Call(f)
  /\ vm[v].kind # None
  /\ v \notin {vm[Derivative].url}
  /\ Linear(v)
  /\ counter' = n
  /\ Op
  /\ UNCHANGED <<pc, instances, instancesBeta, auto, late, zone, quotaIn, runVars>>

Restart(last, v, n) ==
  <<last, addStopStep(v, n), addWaitStoppedStep(v, n), addStartStep(v, n),
    addWaitStep("wait-started", v, n)>>

Reboot(v) ==
  LET seq == Restart(getLastStepForVM(v), v, counter + 1)
  IN  Extend("Reboot", v, counter + 1, Add(Links(seq), Chain(seq)) /\ UNCHANGED vm)

ResizeDiskAndReboot(v) ==
  LET resize == addDiskResizeStep(v, counter + 1)
      seq == <<getLastStepForVM(v)>> \o Restart(resize, v, counter + 2)
  IN  Extend("ResizeDiskAndReboot", v, counter + 2, Add(Links(seq), Chain(seq)) /\ UNCHANGED vm)

\* The suspended VM is resumed before its last step, once per VM
Resume(v) ==
  LET seq == <<createVMs, <<"wait-suspended", v, counter + 1>>, <<"resume", v, counter + 1>>,
               getLastStepForVM(v)>>
  IN  /\ \A s \in steps : ~(s[1] = "resume" /\ s[2] = v)
      /\ Extend("Resume", v, counter + 1, Add(Links(seq), Chain(seq)) /\ UNCHANGED vm)

\* fault: the source VM is not stopped
CreateDerivativeVM_NoStop(v) ==
  LET n == counter + 1
      seq == <<getLastStepForVM(v), addNewVMStep(Derivative, n), addWaitStep("wait", Derivative, 0)>>
  IN  /\ vm[Derivative].kind = None
      /\ v # Derivative
      /\ Extend("CreateDerivativeVM", v, n, /\ Add(Links(seq), Chain(seq))
                      /\ vm' = [vm EXCEPT ![Derivative].kind = "plain", ![Derivative].url = vm[v].url])

\* The metadata of the new VM, its results URL included, is that of the old one
CreateDerivativeVM(v) ==
  LET n == counter + 1
      seq == <<getLastStepForVM(v), addStopStep(v, n), addWaitStoppedStep(v, n),
               appendDetachDiskStep(v, n), addNewVMStep(Derivative, n), addWaitStep("wait", Derivative, 0)>>
  IN  /\ vm[Derivative].kind = None
      /\ v # Derivative
      /\ Extend("CreateDerivativeVM", v, n, /\ Add(Links(seq), Chain(seq))
                      /\ vm' = [vm EXCEPT ![Derivative].kind = "plain", ![Derivative].url = vm[v].url])

-----------------------------------------------------------------------------
(* finalizeWorkflows *)

WaitKinds == {"wait", "wait-first-boot", "wait-stopped", "wait-started", "wait-suspended",
              "wait-for-vm-quota", "wait-for-disk-quota"}
Quotas == {<<vmQuota, createVMs>>, <<diskQuota, createDisks>>}

\* fault: the quota step inherits what it has just been given to
QuotaDeps_After ==
  LET own == {<<qc[2], qc[1]>> : qc \in {p \in Quotas : p[1] \in steps /\ p[2] \in steps}}
  IN  own \cup UNION {{<<qc[1], d[2]>> : d \in {e \in deps \cup own : e[1] = qc[2]}} :
                        qc \in {p \in Quotas : p[1] \in steps /\ p[2] \in steps}}

\* The create step waits for its quota step, which inherits what it waited for
QuotaDeps ==
  UNION {{<<qc[2], qc[1]>>} \cup {<<qc[1], d[2]>> : d \in {e \in deps : e[1] = qc[2]}} :
           qc \in {p \in Quotas : p[1] \in steps /\ p[2] \in steps}}

\* fault: the copy waits for the first boots only
CopyDeps_FirstBoot ==
  {<<copyObjects, s>> : s \in {t \in steps : t[1] \in {"wait", "wait-first-boot"} /\ t[2] \in VMs}}

CopyDeps == {<<copyObjects, s>> : s \in {t \in steps : t[1] \in WaitKinds}}

\* VMs that force a zone; beta VMs do not count
ForcedVMs == {i \in DOMAIN instances : vm[instances[i]].zone # None}
\* fault: the disks stay in the zone of the options
FinalZone_Options == zone

\* The zone of the last VM that forces one, unless the flag has priority
FinalZone ==
  IF ForcedVMs = {} \/ argZoneOverride THEN zone
  ELSE vm[instances[CHOOSE i \in ForcedVMs : \A k \in ForcedVMs : k <= i]].zone

\* The network of the flag is for VMs without an interface
configureNetwork(nics) == IF nics = <<>> /\ Network # None THEN <<Nic(Network)>> ELSE nics

configureExternalIP(nics) ==
  LET all == IF nics = <<>> THEN <<Nic(None)>> ELSE nics
  IN  IF ExternalIP = "unset" THEN nics ELSE [i \in DOMAIN all |-> [all[i] EXCEPT !.ip = ExternalIP]]

\* fault: the external IP comes first, and with it an interface
Interfaces_IPFirst(v) ==
  IF vm[v].kind = None THEN <<>> ELSE configureNetwork(configureExternalIP(vm[v].nics))

\* Both flags, for the VMs of every step that creates some
Interfaces(v) ==
  IF vm[v].kind = None THEN <<>> ELSE configureExternalIP(configureNetwork(vm[v].nics))

Finalize ==
  /\ pc = "setup"
  /\ createVMs \in steps
  /\ pc' = "run"
  /\ quotaIn' = IF {vmQuota, diskQuota} \cap steps = {} THEN None ELSE regionFromZone[zone]
  /\ Add({copyObjects}, QuotaDeps \cup CopyDeps)
  /\ zone' = FinalZone
  /\ vm' = [v \in All |-> [vm[v] EXCEPT !.nics = Interfaces(v)]]
  /\ ops' = 0
  /\ UNCHANGED <<counter, instances, instancesBeta, auto, late, suite, runVars>>

-----------------------------------------------------------------------------
(* The VMs and daisy, which are external, but for the wrapper *)

\* The VMs of step create-vms
Created == {instances[i] : i \in DOMAIN instances} \cup {instancesBeta[i] : i \in DOMAIN instancesBeta}

Suspends(v) == \E s \in steps : s[1] = "resume" /\ s[2] = v

\* checkFirstBootSpecialGA
checkFirstBootSpecialGA(v) == vm[v].kind = "reboot" /\ "first-boot-key" \notin attr[v]
FinishKey(v) == IF checkFirstBootSpecialGA(v) THEN "first-boot-key" ELSE "test-complete"

\* The signal a wait step ends with: a guest attribute that is there, or FINISHED-TEST on
\* the serial console of this boot
AwaitedKey(s) == IF s[1] = "wait-first-boot" THEN "first-boot-key" ELSE "test-complete"
Signalled(s) == AwaitedKey(s) \in attr[s[2]] \/ (power[s[2]] = "on" /\ wrap[s[2]] = "end")

Ready(s) == s \in steps \ done /\ \A d \in deps : d[1] = s => d[2] \in done

Booted(V) ==
  /\ power' = [v \in All |-> IF v \in V THEN "on" ELSE power[v]]
  /\ boot' = [v \in All |-> IF v \in V THEN boot[v] + 1 ELSE boot[v]]
  /\ wrap' = [v \in All |-> IF v \in V THEN "testing" ELSE wrap[v]]
Power(v, p) == power' = [power EXCEPT ![v] = p] /\ UNCHANGED boot

\* What a step waits for, and what it does
Step(s) ==
  /\ pc = "run"
  /\ Ready(s)
  /\ done' = done \cup {s}
  /\ \/ s[1] = "create-vms" /\ Booted(Created)
     \/ s[1] \in {"create-vms-n", "start"} /\ power[s[2]] = "off" /\ Booted({s[2]})
     \/ s[1] = "stop" /\ Power(s[2], "off") /\ wrap' = [wrap EXCEPT ![s[2]] = "off"]
     \/ s[1] = "resume" /\ power[s[2]] = "suspended" /\ Power(s[2], "on") /\ UNCHANGED wrap
     \/ /\ \/ s[1] \in {"wait", "wait-first-boot", "wait-started"} /\ Signalled(s)
           \/ s[1] = "wait-stopped" /\ power[s[2]] = "off"
           \/ s[1] = "wait-suspended" /\ power[s[2]] = "suspended"
           \/ s[1] \in {"resize-disk", "detach-disk"}
           \/ s[2] = None /\ s # createVMs
        /\ UNCHANGED <<power, boot, wrap>>
  /\ UNCHANGED <<pc, buildVars, attr, out, tries, results, report, success, faults>>

\* The test suspends its VM in the first boot
Suspend(v) ==
  /\ pc = "run"
  /\ power[v] = "on" /\ wrap[v] = "testing" /\ boot[v] = 1
  /\ \E s \in steps \ done : s[1] = "wait-suspended" /\ s[2] = v
  /\ Power(v, "suspended")
  /\ UNCHANGED <<pc, buildVars, done, wrap, attr, out, tries, results, report, success, faults>>

\* The wrapper: the tests end
RunTests(v, o) ==
  /\ pc = "run"
  /\ power[v] = "on" /\ wrap[v] = "testing"
  /\ Suspends(v) => \E s \in done : s[1] = "wait-suspended" /\ s[2] = v
  /\ out' = [out EXCEPT ![v] = o]
  /\ wrap' = [wrap EXCEPT ![v] = "upload"]
  /\ tries' = [tries EXCEPT ![v] = 0]
  /\ UNCHANGED <<pc, buildVars, done, power, boot, attr, results, report, success, faults>>

\* uploadGCSObject: a try succeeds with what is left to read.  One that fails has read
\* everything, or nothing; after the last the wrapper dies.
Upload(v) ==
  /\ pc = "run"
  /\ power[v] = "on" /\ wrap[v] = "upload"
  /\ \/ /\ results' = [results EXCEPT ![vm[v].url] = [out |-> out[v], boot |-> boot[v], by |-> v]]
        /\ wrap' = [wrap EXCEPT ![v] = "finish"]
        /\ UNCHANGED <<out, tries, faults>>
     \/ /\ faults < MaxFaults /\ faults' = faults + 1
        /\ tries' = [tries EXCEPT ![v] = @ + 1]
        /\ out' \in {out, [out EXCEPT ![v] = "nothing"]}
        /\ wrap' = IF tries[v] + 1 < MaxUploads THEN wrap ELSE [wrap EXCEPT ![v] = "dead"]
        /\ UNCHANGED results
  /\ UNCHANGED <<pc, buildVars, done, power, boot, attr, report, success>>

\* The deferred guest attribute, which may fail, and FINISHED-TEST
FinishTest(v) ==
  /\ pc = "run"
  /\ power[v] = "on" /\ wrap[v] = "finish"
  /\ wrap' = [wrap EXCEPT ![v] = "end"]
  /\ \/ attr' = [attr EXCEPT ![v] = @ \cup {FinishKey(v)}] /\ UNCHANGED faults
     \/ faults < MaxFaults /\ faults' = faults + 1 /\ UNCHANGED attr
  /\ UNCHANGED <<pc, buildVars, done, power, boot, out, tries, results, report, success>>

\* log.Fatalf leaves without the deferred calls
Fatal(v) ==
  /\ pc = "run"
  /\ power[v] = "on" /\ wrap[v] \in {"testing", "upload", "finish"}
  /\ faults < MaxFaults /\ faults' = faults + 1
  /\ wrap' = [wrap EXCEPT ![v] = "dead"]
  /\ UNCHANGED <<pc, buildVars, done, power, boot, attr, out, tries, results, report, success>>

\* fault: the results of derivative VMs are read too
ReadVMs_All == {v \in All : vm[v].kind # None}

\* getTestResults reads the results of the VMs of step create-vms
ReadVMs == Created

\* fault: only tests that passed are converted
convertToTestSuite_NoFailures(os) == {<<v, "passed">> : v \in {w \in DOMAIN os : os[w] = "pass"}}

\* The test cases in what was uploaded: output without a test is dropped
convertToTestSuite(os) ==
  {<<v, IF os[v] = "pass" THEN "passed" ELSE "failed">> :
     v \in {w \in DOMAIN os : os[w] \in {"pass", "fail"}}}

\* A test of the suite that has no test case is disabled
parseResult ==
  LET cases == convertToTestSuite([v \in ReadVMs |-> results[v].out])
  IN  [v \in ReadVMs |-> IF \E r \in {"passed", "failed"} : <<v, r>> \in cases
                         THEN CHOOSE r \in {"passed", "failed"} : <<v, r>> \in cases
                         ELSE "disabled"]

AllFailed == [v \in ReadVMs |-> "failed"]

\* wf.Run returns without an error; getTestResults fails when a result is missing or
\* cannot be read
Succeed ==
  /\ pc = "run"
  /\ steps \subseteq done
  /\ pc' = "ended"
  /\ LET missing == {v \in ReadVMs : results[v] = NoResult}
     IN  \/ /\ missing = {}
            /\ success' = TRUE
            /\ report' = parseResult
            /\ UNCHANGED faults
         \/ /\ missing # {} \/ faults < MaxFaults
            /\ faults' = faults + (IF missing = {} THEN 1 ELSE 0)
            /\ report' = AllFailed
            /\ UNCHANGED success
  /\ UNCHANGED <<buildVars, done, power, boot, wrap, attr, out, tries, results>>

VMWaits == {"wait", "wait-first-boot", "wait-started", "wait-suspended"}

\* wf.Run returns with an error: a step fails, or times out on a VM whose wrapper has died
RunFails ==
  /\ pc = "run"
  /\ pc' = "ended"
  /\ report' = AllFailed
  /\ UNCHANGED <<buildVars, done, power, boot, wrap, attr, out, tries, results, success>>

Fail == faults < MaxFaults /\ faults' = faults + 1 /\ RunFails
TimeOut ==
  /\ \E s \in steps : Ready(s) /\ s[1] \in VMWaits /\ wrap[s[2]] = "dead"
  /\ UNCHANGED faults
  /\ RunFails

Setup ==
  \/ \E v \in suite.vms : CreateTestVM(v) \/ CreateTestVMBeta(v)
  \/ \E v \in suite.vms : \E k \in suite.kinds :
       CreateTestVMMultipleDisks(v, k) \/ CreateTestVMFromInstanceBeta(v, k)
  \/ (\E a \in BOOLEAN : CreateNetwork(a)) \/ CreateSubnetwork \/ CreateFirewallRule
  \/ \E v \in All : \E sub \in {{}, {createSubnets}} : AddCustomNetwork(v, sub)
  \/ \E v \in All : Reboot(v) \/ ResizeDiskAndReboot(v) \/ Resume(v)
  \/ \E v \in All : \E z \in Zones : ForceZone(v, z)
  \/ \E v \in All : UseGVNIC(v)
  \/ \E v \in suite.vms : CreateDerivativeVM(v)
  \/ WaitForVMQuota \/ WaitForDisksQuota

RunVM(v) == Suspend(v) \/ (\E o \in {"pass", "fail"} : RunTests(v, o)) \/ Upload(v) \/ FinishTest(v)
Daisy == (\E s \in steps : Step(s)) \/ Succeed \/ TimeOut

Next == Setup \/ Finalize \/ Daisy \/ Fail \/ \E v \in All : RunVM(v) \/ Fatal(v)

\* daisy runs what is ready, the VMs run their tests to an end, timeouts strike
Spec == Init /\ [][Next]_vars /\ WF_vars(Daisy) /\ \A v \in All : WF_vars(RunVM(v))

-----------------------------------------------------------------------------
(* Properties *)

\* Types of the state; the walk for the last step of a VM never meets a fork
TypeOK ==
  /\ pc \in {"setup", "run", "ended", "refused"}
  /\ \A d \in deps : d[1] \in steps /\ d[2] \in steps
  /\ done \subseteq steps
  /\ \A v \in All :
       /\ power[v] \in {"off", "on", "suspended"}
       /\ wrap[v] \in {"off", "testing", "upload", "finish", "end", "dead"}
       /\ attr[v] \subseteq {"first-boot-key", "test-complete"}
       /\ out[v] \in {None, "pass", "fail", "nothing"}
       /\ tries[v] \in 0..MaxUploads
  /\ zone \in Zones \cup {FlagZone}
  /\ faults \in 0..MaxFaults
  /\ pc = "setup" => \A v \in All : vm[v].kind # None => Linear(v)

\* A VM exists only after all it refers to and after the quota its suite asked for,
\* whatever the order of the fixtures (a subnetwork made after the first VM excepted); and
\* two VMs never have one disk: a derivative VM boots when its source is off for good
ResourcesFirst ==
  /\ TypeOK
  /\ \A v \in All : boot[v] > 0 =>
       /\ createDisks \in done
       /\ vm[v].uses \ (IF late THEN {createSubnets} ELSE {}) \subseteq done
       /\ {vmQuota, diskQuota} \cap steps \subseteq done
  /\ power[Derivative] # "off" => power[vm[Derivative].url] = "off"

\* The VMs of a workflow and their disks, which are created in wf.Zone, are in one zone,
\* and so is the quota they waited for unless a VM forced another
ZonesAgree ==
  pc = "run" /\ ~argZoneOverride /\ Cardinality({vm[v].zone : v \in All} \ {None}) <= 1
    /\ (\A v \in All \ {instances[i] : i \in DOMAIN instances} : vm[v].zone = None) =>
    /\ \A v \in All : vm[v].zone \in {None, zone}
    /\ (\A v \in All : vm[v].zone = None) => quotaIn \in {None, regionFromZone[zone]}

\* -external_ip and -network reach every VM, also those of the beta API and derivative ones,
\* whatever the fixtures did to it: only an interface made by UseGVNIC is outside of both
\* the networks of the suite and that of the flag.  And the VMs are where their disks are
FlagsReachVMs ==
  /\ ZonesAgree
  /\ pc \in {"run", "ended"} =>
       \A v \in All : vm[v].kind # None =>
         /\ Network # None \/ ExternalIP # "unset" => vm[v].nics # <<>>
         /\ \A i \in DOMAIN vm[v].nics :
              /\ vm[v].nics[i].ip = ExternalIP
              /\ Network # None /\ vm[v].nics[i].net = None => vm[v].nics[i].gvnic

\* No VM is stopped in the middle of its tests: a stop waits for the boot before it.  (A
\* VM that reboots without shouldRebootDuringTest signals once for all boots, and so does
\* a third boot.)
Sure(v) == boot[v] <= (IF vm[v].kind = "reboot" THEN 2 ELSE 1)
NeverCut ==
  [][\A v \in All : power[v] = "on" /\ power'[v] = "off" => wrap[v] = "end" \/ ~Sure(v)]_vars

\* copy-objects finds the results of every VM, of its last boot where that was waited for
CopiedComplete ==
  copyObjects \in done =>
    \A v \in Created :
          /\ results[v] # NoResult
          /\ (Sure(v) /\ results[v].by = v) => results[v].boot = boot[v]

\* A workflow fails for a reason: what the fixtures build can always be run to its end
FailsForCause == pc = "ended" /\ ~success => faults > 0

\* No verdict is lost on the way from the VMs to the report: a workflow fails only for a
\* cause, what is copied is complete, and what the report says is what the tests of the
\* last boot printed, for every VM that signals its last boot, unless an upload had to be
\* repeated
VerdictKept ==
  /\ CopiedComplete
  /\ FailsForCause
  /\ success /\ faults = 0 =>
       \A v \in Created :
         LET w == results[v].by
         IN  Sure(v) /\ Sure(w) => report[v] = (IF out[w] = "pass" THEN "passed" ELSE "failed")

\* Every workflow that starts comes to its end, whatever the VMs do: the graph that the
\* fixtures build has no cycle, and the waits time out
Completes == pc = "run" ~> pc = "ended"

\* testworkflow.go:1598 "Tests handled by a suite but not executed or skipped should be
\* marked disabled": a test that ran on its VM, and whose result was uploaded, is not
\* reported as disabled
ExecutedNotDisabled ==
  success => \A v \in Created : report[v] # "disabled"
=============================================================================
