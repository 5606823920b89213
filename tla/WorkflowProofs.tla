---------------------------- MODULE WorkflowProofs ----------------------------
(***************************************************************************)
(* What holds of every workflow the fixtures can build, whatever the order *)
(* and the number of their calls, and of its run on any number of VMs.     *)
(***************************************************************************)
EXTENDS Workflow, SequenceFacts

-----------------------------------------------------------------------------
(* The inductive invariants *)

\* The steps without a VM
GlobalSteps ==
  {createDisks, createVMs, createNetworks, createSubnets, createFirewalls, vmQuota, diskQuota,
   copyObjects}

\* The steps that getLastStepForVM walks along, and all steps of a VM
Chained ==
  {"wait", "wait-first-boot", "wait-started", "resize-disk", "stop", "wait-stopped", "start",
   "detach-disk"}
VMSteps == (Chained \cup {"create-vms-n", "wait-suspended", "resume"}) \X All \X Nat

\* The steps that wait for the tests of a VM
WaitsOf(v) == {s \in steps : s[2] = v /\ s[1] \in {"wait", "wait-first-boot", "wait-started"}}

VMKinds == {None, "plain"} \cup UNION {s.kinds : s \in Suites}
NicSet == [net : {None, "custom", Network}, gvnic : BOOLEAN, ip : {"unset", ExternalIP}]
VMSet ==
  [kind : VMKinds, zone : Zones \cup {None}, uses : SUBSET {createNetworks, createSubnets},
   nics : Seq(NicSet), url : VMs \cup {None}]

\* Types of what the fixtures build
BuildType ==
  /\ pc \in {"setup", "run", "ended", "refused"}
  /\ steps \subseteq GlobalSteps \cup VMSteps /\ IsFiniteSet(steps)
  /\ deps \subseteq steps \X steps
  /\ counter \in Nat
  /\ \A s \in steps : s[3] <= counter
  /\ vm \in [All -> VMSet]
  /\ suite \in Suites /\ ops \in Nat
  /\ instances \in Seq(VMs) /\ instancesBeta \in Seq(VMs)
  /\ zone \in Zones \cup {FlagZone}

\* Who has a VM
VMInv ==
  /\ \A v \in All : vm[v].kind = None <=> vm[v].url = None
  /\ \A v \in VMs : vm[v].url \in {None, v}
  /\ \A v \in VMs : vm[v].kind # None <=> v \in Created
  /\ vm[Derivative].kind # None => vm[Derivative].kind = "plain" /\ vm[vm[Derivative].url].kind # None
  /\ \A s \in steps : s[2] \in All => vm[s[2]].kind # None
  /\ \A v \in All : vm[v].kind # None => FirstWait(v, vm[v].kind) \in steps /\ createVMs \in steps
  /\ \A v \in All : vm[v].uses \subseteq steps

\* What create-vms waits for
CreateInv ==
  /\ createVMs \in steps => <<createVMs, createDisks>> \in deps
  /\ createVMs \in steps /\ createNetworks \in steps => <<createVMs, createNetworks>> \in deps
  /\ createVMs \in steps /\ createSubnets \in steps => late \/ <<createVMs, createSubnets>> \in deps
  /\ pc \in {"run", "ended"} =>
       /\ createVMs \in steps
       /\ vmQuota \in steps => <<createVMs, vmQuota>> \in deps
       /\ diskQuota \in steps => <<createDisks, diskQuota>> \in deps
       /\ copyObjects \in steps
       /\ \A s \in steps : s[1] \in WaitKinds => <<copyObjects, s>> \in deps

\* The last step that waits for the tests of v among those with a counter below n
LastWait(v, n, w) ==
  w \in WaitsOf(v) /\ w[3] < n /\ \A x \in WaitsOf(v) : x[3] < n => x[3] <= w[3]

\* What the first wait s of a VM waits for: the boot
FirstChain(v, s) ==
  /\ s = FirstWait(v, vm[v].kind)
  /\ v # Derivative => <<s, createVMs>> \in deps
  /\ v = Derivative => \E n \in Nat : <<s, addNewVMStep(v, n)>> \in deps

\* What a stop waits for: the last wait before it, maybe with a resize between the two.  It
\* is there for a restart, or for the derivative VM
StopChain(v, n) ==
  /\ \E w \in steps : /\ LastWait(v, n, w)
                      /\ \/ <<addStopStep(v, n), w>> \in deps
                         \/ \E r \in steps : <<addStopStep(v, n), r>> \in deps /\ <<r, w>> \in deps
  /\ \/ addStartStep(v, n) \in steps
     \/ v = vm[Derivative].url /\ addNewVMStep(Derivative, n) \in steps

ResizeChain(v, n) == \E w \in WaitsOf(v) : <<addDiskResizeStep(v, n), w>> \in deps

\* What the derivative VM waits for: there is one, and the VM it comes from never starts again
DeriveChain(v, n) ==
  /\ v = Derivative
  /\ <<addNewVMStep(v, n), appendDetachDiskStep(vm[v].url, n)>> \in deps
  /\ \A m \in Nat : /\ addNewVMStep(v, m) \in steps => m = n
                    /\ addStartStep(vm[v].url, m) \in steps => m < n

\* What the steps of a VM wait for
ChainInv ==
  \A v \in All : \A n \in Nat :
    /\ \A k \in {"wait", "wait-first-boot"} : <<k, v, n>> \in steps => FirstChain(v, <<k, v, n>>)
    /\ addStopStep(v, n) \in steps => StopChain(v, n)
    /\ addDiskResizeStep(v, n) \in steps => ResizeChain(v, n)
    /\ addNewVMStep(v, n) \in steps => DeriveChain(v, n)
    /\ addWaitStoppedStep(v, n) \in steps => <<addWaitStoppedStep(v, n), addStopStep(v, n)>> \in deps
    /\ addStartStep(v, n) \in steps =>
         /\ n > 0
         /\ <<addStartStep(v, n), addWaitStoppedStep(v, n)>> \in deps
         /\ addWaitStep("wait-started", v, n) \in steps
    /\ addWaitStep("wait-started", v, n) \in steps =>
         <<addWaitStep("wait-started", v, n), addStartStep(v, n)>> \in deps
    /\ appendDetachDiskStep(v, n) \in steps =>
         <<appendDetachDiskStep(v, n), addWaitStoppedStep(v, n)>> \in deps
    /\ <<"wait-suspended", v, n>> \in steps => <<<<"wait-suspended", v, n>>, createVMs>> \in deps
    /\ <<"resume", v, n>> \in steps => <<<<"resume", v, n>>, <<"wait-suspended", v, n>>>> \in deps

\* The order of the steps of a VM
Stage == [k \in Chained |-> IF k = "stop" THEN 1 ELSE IF k = "wait-stopped" THEN 2
                            ELSE IF k \in {"start", "detach-disk"} THEN 3
                            ELSE IF k = "wait-started" THEN 4 ELSE 0]
Rank(s) == 5 * s[3] + Stage[s[1]]

HasDependent(s) == \E d \in deps : d[2] = s

\* While the fixtures build, the steps of a VM have no fork, and the walk along them ends
\* at its last wait
WalkInv ==
  pc = "setup" =>
    /\ \A d \in deps : d[2][2] \in All => d[1][2] \in All
    /\ \A d, e \in deps : d[2] = e[2] /\ d[2][2] \in All => d[1] = e[1]
    /\ \A d \in deps : d[2][2] \in All /\ d[2][1] \in Chained /\ d[2][2] # vm[Derivative].url =>
         d[1][2] = d[2][2] /\ d[1][1] \in Chained /\ Rank(d[1]) > Rank(d[2])
    /\ \A v \in All : \A w, x \in WaitsOf(v) : w[3] < x[3] => HasDependent(w)
    /\ \A s \in steps : s[1] \in {"resize-disk", "stop", "wait-stopped", "start", "detach-disk"} =>
         HasDependent(s)

\* All that is said of the graph
GraphInv == BuildType /\ VMInv /\ CreateInv /\ ChainInv /\ WalkInv

ResultSet == [out : {"pass", "fail", "nothing"}, boot : Nat \ {0}, by : All]

\* Types of what runs; before the workflow runs nothing does
RunType ==
  /\ done \subseteq steps
  /\ power \in [All -> {"off", "on", "suspended"}]
  /\ boot \in [All -> Nat]
  /\ wrap \in [All -> {"off", "testing", "upload", "finish", "end", "dead"}]
  /\ attr \in [All -> SUBSET {"first-boot-key", "test-complete"}]
  /\ out \in [All -> {None, "pass", "fail", "nothing"}]
  /\ tries \in [All -> 0..MaxUploads]
  /\ results \in [All -> ResultSet \cup {NoResult}]
  /\ faults \in 0..MaxFaults /\ success \in BOOLEAN
  /\ pc \in {"setup", "refused"} => done = {} /\ \A v \in All : boot[v] = 0
  /\ \A v \in All : wrap[v] = "upload" => tries[v] < MaxUploads /\ out[v] # None

\* What is done is done in the order of the dependencies
DoneInv == \A d \in deps : d[1] \in done => d[2] \in done

\* How often a VM has booted, by the steps that boot it
BootInv ==
  /\ \A s \in done : s[2] \in All => createVMs \in done
  /\ \A s \in done : s[2] = Derivative /\ s[1] \in Chained =>
       \E n \in Nat : addNewVMStep(Derivative, n) \in done
  /\ \A v \in Created : boot[v] > 0 <=> createVMs \in done
  /\ boot[Derivative] > 0 <=> \E n \in Nat : addNewVMStep(Derivative, n) \in done
  /\ \A v \in All : boot[v] > 0 => vm[v].kind # None
  /\ \A v \in All : boot[v] > 1 <=> \E n \in Nat : addStartStep(v, n) \in done
  /\ \A v \in All : boot[v] = 0 => power[v] = "off" /\ attr[v] = {}
  /\ \A v \in All : power[v] = "off" <=> wrap[v] = "off"

\* A stop comes after all starts before it; the last one of a VM that gives its disk away is
\* for good
StopInv ==
  /\ \A v \in All : \A m, n \in Nat :
       m < n /\ addStartStep(v, m) \in steps /\ addStopStep(v, n) \in done => addStartStep(v, m) \in done
  /\ \A n \in Nat : /\ addNewVMStep(Derivative, n) \in steps
                     /\ addStopStep(vm[Derivative].url, n) \in done => power[vm[Derivative].url] = "off"

\* The tests of the first boot, or of the second of a VM that reboots during its test, have
\* ended when they have signalled, or have been waited for
Ended(v) == wrap[v] \in {"end", "off"}
Waited(v) == WaitsOf(v) \cap done # {}
Restarted(v) == \E n \in Nat : addWaitStep("wait-started", v, n) \in done
SignalInv ==
  \A v \in All :
    /\ boot[v] = 1 /\ (attr[v] # {} \/ Waited(v)) => Ended(v)
    /\ vm[v].kind = "reboot" /\ "test-complete" \in attr[v] => boot[v] > 1
    /\ vm[v].kind = "reboot" /\ boot[v] = 2 /\ ("test-complete" \in attr[v] \/ Restarted(v)) => Ended(v)

\* What is uploaded, by whom and in which boot: VMs that have signalled have a result
ResultThere(v) ==
  attr[v] # {} \/ Waited(v) \/ wrap[v] \in {"finish", "end"} => results[vm[v].url] # NoResult
ResultFrom(u, w) ==
  /\ vm[w].url = u
  /\ results[u].boot <= boot[w]
  /\ results[u].boot = boot[w] =>
       wrap[w] \notin {"testing", "upload"} /\ (faults = 0 => results[u].out = out[w])
  /\ faults = 0 => results[u].out # "nothing"
SecondBoot(v) ==
  /\ vm[v].kind = "reboot" /\ boot[v] = 2 /\ results[v].by = v
  /\ "test-complete" \in attr[v] \/ Restarted(v) \/ wrap[v] \in {"finish", "end"}
  => results[v].boot = 2
UploadInv ==
  /\ \A v \in All : ResultThere(v)
  /\ \A u \in All : results[u] # NoResult => ResultFrom(u, results[u].by)
  /\ \A v \in VMs : SecondBoot(v)
  /\ \A v \in All : faults = 0 => out[v] # "nothing" /\ wrap[v] # "dead"

\* What is reported
OutcomeInv ==
  /\ pc # "ended" => ~success
  /\ FailsForCause
  /\ success /\ faults = 0 =>
       \A v \in Created :
         LET w == results[v].by
         IN  Sure(v) /\ Sure(w) => report[v] = (IF out[w] = "pass" THEN "passed" ELSE "failed")

RunInv == RunType /\ DoneInv /\ BootInv /\ StopInv /\ SignalInv /\ UploadInv /\ OutcomeInv

-----------------------------------------------------------------------------
(* Walks: what is reached by applying a function again and again *)

\* Walks g of N steps of f from x
Walks(T, f, x, N) == {g \in [0..N -> T] : g[0] = x /\ \A n \in 1..N : g[n] = f[g[n - 1]]}

\* There is one
LEMMA WalkExists ==
  ASSUME NEW T, NEW f \in [T -> T], NEW x \in T, NEW N \in Nat
  PROVE  Walks(T, f, x, N) # {}
<1> DEFINE Bad == {n \in Nat : Walks(T, f, x, n) = {}}
<1> SUFFICES ASSUME Bad # {} PROVE FALSE
  OBVIOUS
<1>1. PICK n \in Bad : \A m \in Bad : n <= m
  BY LeastNumber
<1>2. CASE n = 0
  <2>1. [i \in 0..0 |-> x] \in Walks(T, f, x, 0)
    BY DEF Walks
  <2> QED
    BY <1>1, <1>2, <2>1
<1>3. CASE n # 0
  <2>1. n - 1 \in Nat /\ n - 1 \notin Bad
    BY <1>1, <1>3
  <2>2. PICK g : g \in Walks(T, f, x, n - 1)
    BY <2>1
  <2>3. g \in [0..(n - 1) -> T] /\ g[0] = x /\ \A i \in 1..(n - 1) : g[i] = f[g[i - 1]]
    BY <2>2 DEF Walks
  <2> DEFINE h == [i \in 0..n |-> IF i = n THEN f[g[n - 1]] ELSE g[i]]
  <2>4. h \in [0..n -> T]
    <3>1. f[g[n - 1]] \in T
      BY <2>1, <2>3
    <3> QED
      BY <2>1, <2>3, <3>1
  <2>5. h[0] = x
    BY <1>3, <2>1, <2>3
  <2>6. ASSUME NEW i \in 1..n PROVE h[i] = f[h[i - 1]]
    <3>1. i \in 0..n /\ i - 1 \in 0..n /\ i - 1 # n /\ (i # n => i \in 1..(n - 1))
      OBVIOUS
    <3>2. h[i - 1] = g[i - 1]
      BY <3>1
    <3>3. h[i] = IF i = n THEN f[g[n - 1]] ELSE g[i]
      BY <3>1
    <3> QED
      BY <2>3, <3>1, <3>2, <3>3
  <2>7. h \in Walks(T, f, x, n)
    <3> HIDE DEF h
    <3> QED
      BY <2>4, <2>5, <2>6 DEF Walks
  <2> QED
    BY <1>1, <2>7
<1> QED
  BY <1>2, <1>3

\* A walk that stands still stays where it is
LEMMA WalkStands ==
  ASSUME NEW T, NEW f \in [T -> T], NEW x \in T, NEW N \in Nat, NEW g \in Walks(T, f, x, N),
         NEW k \in 0..N, f[g[k]] = g[k]
  PROVE  g[N] = g[k]
<1> DEFINE Bad == {n \in Nat : n \in k..N /\ g[n] # g[k]}
<1> SUFFICES ASSUME Bad # {} PROVE FALSE
  OBVIOUS
<1>1. PICK n \in Bad : \A m \in Bad : n <= m
  BY LeastNumber
<1>2. n # k /\ n - 1 \in k..N /\ n - 1 \in Nat /\ n \in 1..N
  BY <1>1
<1>3. g[n - 1] = g[k]
  BY <1>1, <1>2
<1>4. g[n] = f[g[n - 1]]
  BY <1>2 DEF Walks
<1> QED
  BY <1>1, <1>3, <1>4

\* A walk that rises with every step rises
LEMMA WalkRises ==
  ASSUME NEW T, NEW N \in Nat, NEW g \in [0..N -> T], NEW r \in [T -> Int],
         \A n \in 1..N : r[g[n]] > r[g[n - 1]],
         NEW i \in 0..N, NEW j \in 0..N, i < j
  PROVE  r[g[i]] < r[g[j]]
<1> DEFINE Bad == {n \in Nat : n \in (i + 1)..N /\ ~(r[g[i]] < r[g[n]])}
<1>0. j \in Nat /\ j \in (i + 1)..N
  OBVIOUS
<1> SUFFICES ASSUME Bad # {} PROVE FALSE
  BY <1>0
<1>1. PICK n \in Bad : \A m \in Bad : n <= m
  BY LeastNumber
<1>2. n \in 1..N /\ n - 1 \in 0..N /\ n - 1 \in Nat /\ n - 1 >= i
  BY <1>1
<1>3. r[g[n]] > r[g[n - 1]]
  BY <1>2
<1>4. n - 1 = i \/ r[g[i]] < r[g[n - 1]]
  BY <1>1, <1>2
<1>5. r[g[i]] \in Int /\ r[g[n]] \in Int /\ r[g[n - 1]] \in Int
  BY <1>2
<1> QED
  BY <1>1, <1>3, <1>4, <1>5

\* A walk over N elements is at its end after N steps, if all others rise
LEMMA WalkEnds ==
  ASSUME NEW T, IsFiniteSet(T), NEW f \in [T -> T], NEW x \in T, NEW r \in [T -> Int],
         NEW g \in Walks(T, f, x, Cardinality(T)),
         \A n \in 1..Cardinality(T) : f[g[n - 1]] # g[n - 1] => r[f[g[n - 1]]] > r[g[n - 1]]
  PROVE  f[g[Cardinality(T)]] = g[Cardinality(T)]
<1> DEFINE N == Cardinality(T)
<1>1. N \in Nat
  BY FS_CardinalityType
<1>2. g \in [0..N -> T] /\ \A n \in 1..N : g[n] = f[g[n - 1]]
  BY DEF Walks
<1> HIDE DEF N
<1> SUFFICES ASSUME f[g[N]] # g[N] PROVE FALSE
  BY DEF N
<1>3. ASSUME NEW n \in 0..N PROVE f[g[n]] # g[n]
  <2>1. g \in Walks(T, f, x, N)
    BY DEF N
  <2> QED
    BY <1>1, <2>1, WalkStands
<1>4. ASSUME NEW n \in 1..N PROVE r[g[n]] > r[g[n - 1]]
  <2>1. n - 1 \in 0..N
    BY <1>1
  <2>2. f[g[n - 1]] # g[n - 1]
    BY <1>3, <2>1
  <2>3. r[f[g[n - 1]]] > r[g[n - 1]]
    BY <2>2 DEF N
  <2> QED
    BY <1>2, <2>3
<1>5. ASSUME NEW i \in 0..N, NEW j \in 0..N, i < j PROVE g[i] # g[j]
  <2>1. r[g[i]] < r[g[j]]
    BY <1>1, <1>2, <1>4, <1>5, WalkRises
  <2>2. r[g[i]] \in Int
    BY <1>2
  <2> QED
    BY <2>1, <2>2
<1>6. g \in Injection(0..N, T)
  <2>1. ASSUME NEW i \in 0..N, NEW j \in 0..N, g[i] = g[j] PROVE i = j
    BY <1>1, <1>5, <2>1
  <2> QED
    BY <1>2, <2>1 DEF Injection, IsInjective
<1>7. Cardinality(0..N) <= Cardinality(T)
  BY <1>6, FS_Injection
<1>8. Cardinality(0..N) = N + 1
  <2>1. 0 <= N
    BY <1>1
  <2> QED
    BY <1>1, FS_Interval
<1> QED
  BY <1>1, <1>7, <1>8 DEF N

-----------------------------------------------------------------------------
(* getLastStepForVM *)

\* One step of the walk
NextStep ==
  [s \in steps |-> IF Dependents(s) = {} THEN s ELSE CHOOSE d \in Dependents(s) : TRUE]

\* The loop of getLastStepForVM is a walk from the first wait of the VM
LEMMA WalkIsWalk ==
  ASSUME IsFiniteSet(steps), NEW v, FirstWait(v, vm[v].kind) \in steps
  PROVE  /\ NextStep \in [steps -> steps]
         /\ Walk(v) \in Walks(steps, NextStep, FirstWait(v, vm[v].kind), Cardinality(steps))
<1> DEFINE N == Cardinality(steps)
           x == FirstWait(v, vm[v].kind)
           Rec(at) == at = [n \in 0..N |->
                              IF n = 0 THEN x
                              ELSE LET s == at[n - 1]
                                   IN  IF Dependents(s) = {} THEN s ELSE CHOOSE d \in Dependents(s) : TRUE]
<1>1. N \in Nat
  BY FS_CardinalityType
<1>2. \A s \in steps : NextStep[s] = IF Dependents(s) = {} THEN s ELSE CHOOSE d \in Dependents(s) : TRUE
  BY DEF NextStep
<1>3. NextStep \in [steps -> steps]
  BY DEF NextStep, Dependents
<1>4. Walk(v) = CHOOSE at : Rec(at)
  BY DEF Walk
<1> HIDE DEF N, x
<1>5. \E at : Rec(at)
  <2>1. PICK g : g \in Walks(steps, NextStep, x, N)
    BY <1>1, <1>3, WalkExists DEF x
  <2>2. g \in [0..N -> steps] /\ g[0] = x /\ \A n \in 1..N : g[n] = NextStep[g[n - 1]]
    BY <2>1 DEF Walks
  <2> DEFINE h == [n \in 0..N |->
                     IF n = 0 THEN x
                     ELSE LET s == g[n - 1]
                          IN  IF Dependents(s) = {} THEN s ELSE CHOOSE d \in Dependents(s) : TRUE]
  <2>3. ASSUME NEW n \in 0..N PROVE g[n] = h[n]
    <3>1. CASE n = 0
      BY <2>2, <3>1
    <3>2. CASE n # 0
      <4>1. n \in 1..N /\ n - 1 \in 0..N
        BY <1>1, <3>2
      <4>2. g[n - 1] \in steps /\ g[n] = NextStep[g[n - 1]]
        BY <2>2, <4>1
      <4> QED
        BY <1>2, <3>2, <4>2
    <3> QED
      BY <3>1, <3>2
  <2>4. g = h
    BY <2>2, <2>3
  <2> QED
    BY <2>4
<1>6. Rec(Walk(v))
  BY <1>4, <1>5
<1> DEFINE at == Walk(v)
<1>7. /\ DOMAIN at = 0..N /\ at[0] = x
      /\ \A n \in 1..N : at[n] = IF Dependents(at[n - 1]) = {} THEN at[n - 1]
                                 ELSE CHOOSE d \in Dependents(at[n - 1]) : TRUE
      /\ at = [n \in 0..N |-> at[n]]
  <2> HIDE DEF at
  <2>1. Rec(at)
    BY <1>6 DEF at
  <2>2. DOMAIN at = 0..N /\ at = [n \in 0..N |-> at[n]]
    BY <2>1
  <2>3. at[0] = x
    BY <1>1, <2>1
  <2>4. ASSUME NEW n \in 1..N
        PROVE  at[n] = IF Dependents(at[n - 1]) = {} THEN at[n - 1]
                       ELSE CHOOSE d \in Dependents(at[n - 1]) : TRUE
    <3>1. n \in 0..N /\ n # 0
      BY <1>1
    <3> QED
      BY <2>1, <3>1
  <2> QED
    BY <2>2, <2>3, <2>4
<1> HIDE DEF at
<1>8. ASSUME NEW n \in 0..N PROVE at[n] \in steps
  <2> DEFINE Bad == {m \in Nat : m \in 0..N /\ at[m] \notin steps}
  <2>1. n \in Nat
    BY <1>1
  <2> SUFFICES ASSUME Bad # {} PROVE FALSE
    BY <2>1
  <2>2. PICK m \in Bad : \A k \in Bad : m <= k
    BY LeastNumber
  <2>3. m # 0
    BY <1>7, <2>2 DEF x
  <2>4. m \in 1..N /\ m - 1 \in 0..N /\ m - 1 \in Nat
    BY <1>1, <2>2, <2>3
  <2>5. at[m - 1] \in steps
    BY <2>2, <2>4
  <2>6. at[m] = NextStep[at[m - 1]]
    BY <1>2, <1>7, <2>4, <2>5
  <2> QED
    BY <1>3, <2>2, <2>5, <2>6
<1>9. \A n \in 1..N : at[n] = NextStep[at[n - 1]]
  <2> SUFFICES ASSUME NEW n \in 1..N PROVE at[n] = NextStep[at[n - 1]]
    OBVIOUS
  <2>1. n - 1 \in 0..N
    BY <1>1
  <2> QED
    BY <1>2, <1>7, <1>8, <2>1
<1>10. at \in [0..N -> steps]
  BY <1>7, <1>8
<1> QED
  BY <1>3, <1>7, <1>9, <1>10 DEF Walks, at, N, x

\* The steps the fixtures have built so far, with their names
LEMMA StepForms ==
  ASSUME BuildType, NEW s \in steps
  PROVE  /\ s[2] \in All <=> s \in VMSteps
         /\ s[2] \notin All => s \in GlobalSteps
         /\ s[2] \in All => s = <<s[1], s[2], s[3]>> /\ s[3] \in Nat
                            /\ s[1] \in Chained \cup {"create-vms-n", "wait-suspended", "resume"}
<1>1. \A t \in GlobalSteps : t[2] = None
  BY DEF GlobalSteps, S, createDisks, createVMs, createNetworks, createSubnets, createFirewalls,
         vmQuota, diskQuota, copyObjects
<1>2. \A t \in VMSteps : t[2] \in All /\ t = <<t[1], t[2], t[3]>> /\ t[3] \in Nat
                         /\ t[1] \in Chained \cup {"create-vms-n", "wait-suspended", "resume"}
  BY DEF VMSteps
<1> QED
  BY <1>1, <1>2, WorkflowAssumption DEF BuildType

\* No step of a VM has two dependents
LEMMA NoFork ==
  ASSUME BuildType, WalkInv, pc = "setup", NEW s \in steps, s[2] \in All
  PROVE  /\ Dependents(s) = {} <=> ~HasDependent(s)
         /\ \A d \in Dependents(s) : <<d, s>> \in deps /\ d[2] \in All /\ Dependents(s) = {d}
<1>1. \A d \in deps : d[1] \in steps /\ d[2] \in steps /\ d = <<d[1], d[2]>>
  BY DEF BuildType
<1>2. Dependents(s) = {} <=> ~HasDependent(s)
  BY <1>1 DEF Dependents, HasDependent
<1>3. ASSUME NEW d \in Dependents(s) PROVE <<d, s>> \in deps /\ d[2] \in All /\ Dependents(s) = {d}
  <2>1. <<d, s>> \in deps
    BY DEF Dependents
  <2>2. d[2] \in All
    BY <2>1 DEF WalkInv
  <2>3. ASSUME NEW e \in Dependents(s) PROVE e = d
    <3>1. <<e, s>> \in deps
      BY DEF Dependents
    <3> QED
      BY <2>1, <3>1 DEF WalkInv
  <2> QED
    BY <2>1, <2>2, <2>3
<1> QED
  BY <1>2, <1>3

\* The walk stays with steps of VMs; it stays with those of its VM if that has its disk
LEMMA WalkStays ==
  ASSUME BuildType, VMInv, WalkInv, pc = "setup", NEW v \in All, vm[v].kind # None,
         NEW n \in 0..Cardinality(steps)
  PROVE  /\ Walk(v)[n] \in steps /\ Walk(v)[n][2] \in All
         /\ v # vm[Derivative].url => Walk(v)[n][2] = v /\ Walk(v)[n][1] \in Chained
<1> DEFINE N == Cardinality(steps)
           at == Walk(v)
           Good(s) == s \in steps /\ s[2] \in All /\ (v # vm[Derivative].url => s[2] = v /\ s[1] \in Chained)
<1>1. IsFiniteSet(steps) /\ FirstWait(v, vm[v].kind) \in steps
  BY DEF BuildType, VMInv
<1>2. at \in Walks(steps, NextStep, FirstWait(v, vm[v].kind), N)
  BY <1>1, WalkIsWalk
<1>3. N \in Nat
  BY <1>1, FS_CardinalityType
<1> HIDE DEF N, at
<1>4. at[0] = FirstWait(v, vm[v].kind) /\ \A i \in 1..N : at[i] = NextStep[at[i - 1]]
  BY <1>2 DEF Walks
<1>5. Good(at[0])
  BY <1>1, <1>4 DEF FirstWait, addWaitRebootGAStep, addWaitStep, Chained
<1>6. ASSUME NEW s, Good(s) PROVE Good(NextStep[s])
  <2>1. NextStep[s] = IF Dependents(s) = {} THEN s ELSE CHOOSE d \in Dependents(s) : TRUE
    BY <1>6 DEF NextStep
  <2>2. ASSUME NEW d \in Dependents(s) PROVE Good(d)
    <3>1. <<d, s>> \in deps /\ d[2] \in All /\ d \in steps
      BY <1>6, NoFork DEF Dependents
    <3>2. v # vm[Derivative].url => d[2] = v /\ d[1] \in Chained
      BY <1>6, <3>1 DEF WalkInv
    <3> QED
      BY <3>1, <3>2
  <2> QED
    BY <1>6, <2>1, <2>2
<1>7. Good(at[n])
  <2> DEFINE Bad == {m \in Nat : m \in 0..N /\ ~Good(at[m])}
  <2>1. n \in Nat /\ n \in 0..N
    BY <1>3 DEF N
  <2> SUFFICES ASSUME Bad # {} PROVE FALSE
    BY <2>1
  <2>2. PICK m \in Bad : \A k \in Bad : m <= k
    BY LeastNumber
  <2>3. m # 0
    BY <1>5, <2>2
  <2>4. m \in 1..N /\ m - 1 \in 0..N /\ m - 1 \in Nat
    BY <1>3, <2>2, <2>3
  <2>5. Good(at[m - 1])
    BY <2>2, <2>4
  <2>6. Good(NextStep[at[m - 1]])
    BY <1>6, <2>5
  <2> QED
    BY <1>4, <2>2, <2>4, <2>6
<1> QED
  BY <1>7 DEF at

\* So it never meets a fork
LEMMA WalkIsLinear ==
  ASSUME BuildType, VMInv, WalkInv, pc = "setup", NEW v \in All, vm[v].kind # None
  PROVE  Linear(v)
<1>1. IsFiniteSet(steps) /\ FirstWait(v, vm[v].kind) \in steps
  BY DEF BuildType, VMInv
<1>2. DOMAIN Walk(v) = 0..Cardinality(steps)
  BY <1>1, WalkIsWalk DEF Walks
<1> SUFFICES ASSUME NEW n \in 0..Cardinality(steps)
             PROVE  Cardinality(Dependents(Walk(v)[n])) <= 1
  BY <1>2 DEF Linear
<1> DEFINE D == Dependents(Walk(v)[n])
<1>3. Walk(v)[n] \in steps /\ Walk(v)[n][2] \in All
  BY WalkStays
<1>4. \A d \in D : D = {d}
  BY <1>3, NoFork
<1> HIDE DEF D
<1>5. CASE D = {}
  <2>1. Cardinality(D) = 0
    BY <1>5, FS_EmptySet
  <2> QED
    BY <2>1 DEF D
<1>6. CASE D # {}
  <2>1. PICK d : D = {d}
    BY <1>4, <1>6
  <2>2. Cardinality({d}) = 1
    BY FS_Singleton
  <2> QED
    BY <2>1, <2>2 DEF D
<1> QED
  BY <1>5, <1>6

\* The step it ends at is the last wait of the VM, and nothing depends on it
LEMMA LastStep ==
  ASSUME BuildType, VMInv, WalkInv, pc = "setup", NEW v \in All, vm[v].kind # None,
         v # vm[Derivative].url
  PROVE  /\ getLastStepForVM(v) \in WaitsOf(v)
         /\ ~HasDependent(getLastStepForVM(v))
         /\ \A x \in WaitsOf(v) : x[3] <= getLastStepForVM(v)[3]
<1> DEFINE N == Cardinality(steps)
           at == Walk(v)
           x0 == FirstWait(v, vm[v].kind)
           r == [s \in steps |-> IF s[2] \in All /\ s[1] \in Chained THEN Rank(s) ELSE 0]
<1>1. IsFiniteSet(steps) /\ x0 \in steps
  BY DEF BuildType, VMInv
<1>2. NextStep \in [steps -> steps] /\ at \in Walks(steps, NextStep, x0, N)
  BY <1>1, WalkIsWalk
<1>3. N \in Nat
  BY <1>1, FS_CardinalityType
<1>4. ASSUME NEW n \in 0..N PROVE at[n] \in steps /\ at[n][2] = v /\ at[n][1] \in Chained
  BY WalkStays
<1>5. ASSUME NEW s \in steps, s[2] \in All, s[1] \in Chained PROVE Rank(s) \in Int
  <2>1. s[3] \in Nat
    BY <1>5, StepForms
  <2>2. Stage[s[1]] \in Int
    BY <1>5 DEF Stage
  <2> QED
    BY <2>1, <2>2 DEF Rank
<1>6. r \in [steps -> Int]
  BY <1>5
<1>7. ASSUME NEW n \in 0..N, NextStep[at[n]] # at[n] PROVE r[NextStep[at[n]]] > r[at[n]]
  <2> DEFINE s == at[n]
             d == NextStep[s]
  <2>1. s \in steps /\ s[2] = v /\ s[1] \in Chained
    BY <1>4
  <2>2. d \in Dependents(s)
    BY <1>7, <2>1 DEF NextStep
  <2>3. <<d, s>> \in deps /\ d \in steps
    BY <2>1, <2>2 DEF Dependents
  <2> HIDE DEF s, d
  <2>4. d[2] = v /\ d[1] \in Chained /\ Rank(d) > Rank(s)
    BY <2>1, <2>3 DEF WalkInv
  <2>5. r[d] = Rank(d) /\ r[s] = Rank(s)
    BY <2>1, <2>3, <2>4
  <2> QED
    BY <2>4, <2>5 DEF s, d
<1> DEFINE e == at[N]
<1>8. NextStep[e] = e
  <2>1. \A n \in 1..N : NextStep[at[n - 1]] # at[n - 1] => r[NextStep[at[n - 1]]] > r[at[n - 1]]
    <3> SUFFICES ASSUME NEW n \in 1..N, NextStep[at[n - 1]] # at[n - 1]
                 PROVE  r[NextStep[at[n - 1]]] > r[at[n - 1]]
      OBVIOUS
    <3>1. n - 1 \in 0..N
      BY <1>3
    <3> QED
      BY <1>7, <3>1
  <2> HIDE DEF r, at, x0
  <2> QED
    BY <1>1, <1>2, <1>6, <2>1, WalkEnds
<1>9. e \in steps /\ e[2] = v /\ e[1] \in Chained
  BY <1>3, <1>4
<1> HIDE DEF e, at, r, x0
<1>10. Dependents(e) = {}
  <2> SUFFICES ASSUME Dependents(e) # {} PROVE FALSE
    OBVIOUS
  <2>1. NextStep[e] \in Dependents(e)
    BY <1>9 DEF NextStep
  <2>2. <<e, e>> \in deps
    BY <1>8, <2>1 DEF Dependents
  <2>3. Rank(e) > Rank(e)
    BY <1>9, <2>2 DEF WalkInv
  <2>4. Rank(e) \in Int
    BY <1>5, <1>9
  <2> QED
    BY <2>3, <2>4
<1>11. ~HasDependent(e)
  BY <1>9, <1>10, NoFork
<1>12. e \in WaitsOf(v)
  BY <1>9, <1>11 DEF WalkInv, WaitsOf, Chained
<1>13. ASSUME NEW x \in WaitsOf(v) PROVE x[3] <= e[3]
  <2>1. x[3] \in Nat /\ e[3] \in Nat
    BY <1>12, StepForms DEF WaitsOf
  <2>2. ~(e[3] < x[3])
    BY <1>11, <1>12 DEF WalkInv
  <2> QED
    BY <2>1, <2>2
<1>14. getLastStepForVM(v) = e
  BY DEF getLastStepForVM, e, at
<1> QED
  BY <1>11, <1>12, <1>13, <1>14

-----------------------------------------------------------------------------
(* The fixtures *)

\* What the graph gains with a call: new steps are of a new VM, or later than those of
\* their VM, which has its disk
Grows ==
  /\ steps \subseteq steps' /\ deps \subseteq deps'
  /\ \A v \in All : vm[v].kind # None => vm'[v].kind = vm[v].kind /\ vm'[v].url = vm[v].url
  /\ \A s \in steps' \ steps : s[2] \in All =>
       /\ s[3] \in Nat
       /\ vm[s[2]].kind = None \/ (s[3] > counter /\ s[2] # vm[Derivative].url)
       /\ s[1] = "create-vms-n" => vm[Derivative].kind = None

\* Then what was said of the old steps remains true
LEMMA OldChains ==
  ASSUME BuildType, VMInv, ChainInv, Grows, NEW v \in All, NEW n \in Nat
  PROVE  /\ \A k \in {"wait", "wait-first-boot"} : <<k, v, n>> \in steps => FirstChain(v, <<k, v, n>>)'
         /\ addStopStep(v, n) \in steps => StopChain(v, n)'
         /\ addDiskResizeStep(v, n) \in steps => ResizeChain(v, n)'
         /\ addNewVMStep(v, n) \in steps => DeriveChain(v, n)'
<1>1. ASSUME NEW s \in steps, s[2] = v PROVE vm[v].kind # None /\ s[3] <= counter
  BY <1>1 DEF VMInv, BuildType
<1>2. ASSUME NEW k \in {"wait", "wait-first-boot"}, <<k, v, n>> \in steps
      PROVE  FirstChain(v, <<k, v, n>>)'
  <2>1. FirstChain(v, <<k, v, n>>)
    BY <1>2 DEF ChainInv
  <2>2. vm'[v].kind = vm[v].kind
    BY <1>1, <1>2 DEF Grows
  <2> QED
    BY <2>1, <2>2 DEF FirstChain, Grows, FirstWait, addWaitRebootGAStep, addWaitStep, addNewVMStep,
                      createVMs, S
<1>3. ASSUME NEW w, LastWait(v, n, w), n <= counter PROVE LastWait(v, n, w)'
  <2>1. w \in steps /\ w[2] = v
    BY <1>3 DEF LastWait, WaitsOf
  <2>2. vm[v].kind # None
    BY <1>1, <2>1
  <2>3. w \in WaitsOf(v)' /\ w[3] < n
    BY <1>3 DEF LastWait, WaitsOf, Grows
  <2>4. ASSUME NEW x \in WaitsOf(v)', x[3] < n PROVE x[3] <= w[3]
    <3>1. x \in steps
      <4> SUFFICES ASSUME x \notin steps PROVE FALSE
        OBVIOUS
      <4>1. x[3] > counter /\ x[3] \in Nat
        BY <2>2 DEF Grows, WaitsOf
      <4> QED
        BY <1>3, <2>4, <4>1 DEF BuildType
    <3>2. x \in WaitsOf(v)
      BY <3>1 DEF WaitsOf
    <3> QED
      BY <1>3, <2>4, <3>2 DEF LastWait
  <2> QED
    BY <2>3, <2>4 DEF LastWait
<1>4. ASSUME addStopStep(v, n) \in steps PROVE StopChain(v, n)'
  <2>1. StopChain(v, n)
    BY <1>4 DEF ChainInv
  <2>2. n <= counter
    BY <1>1, <1>4 DEF addStopStep
  <2>3. PICK w \in steps : /\ LastWait(v, n, w)
                           /\ \/ <<addStopStep(v, n), w>> \in deps
                              \/ \E r \in steps : <<addStopStep(v, n), r>> \in deps /\ <<r, w>> \in deps
    BY <2>1 DEF StopChain
  <2>4. LastWait(v, n, w)'
    BY <1>3, <2>2, <2>3
  <2>5. w \in steps' /\ (\/ <<addStopStep(v, n), w>> \in deps'
                         \/ \E r \in steps' : <<addStopStep(v, n), r>> \in deps' /\ <<r, w>> \in deps')
    BY <2>3 DEF Grows
  <2>6. addNewVMStep(Derivative, n) \in steps => vm'[Derivative].url = vm[Derivative].url
    BY DEF Grows, VMInv, addNewVMStep, All
  <2>7. \/ addStartStep(v, n) \in steps'
        \/ v = vm'[Derivative].url /\ addNewVMStep(Derivative, n) \in steps'
    BY <2>1, <2>6 DEF StopChain, Grows
  <2> QED
    BY <2>4, <2>5, <2>7 DEF StopChain, addStopStep, addStartStep, addNewVMStep
<1>5. ASSUME addDiskResizeStep(v, n) \in steps PROVE ResizeChain(v, n)'
  <2>1. ResizeChain(v, n)
    BY <1>5 DEF ChainInv
  <2> QED
    BY <2>1 DEF ResizeChain, WaitsOf, Grows, addDiskResizeStep
<1>6. ASSUME addNewVMStep(v, n) \in steps PROVE DeriveChain(v, n)'
  <2>1. DeriveChain(v, n)
    BY <1>6 DEF ChainInv
  <2>2. vm[v].kind # None /\ n <= counter
    BY <1>1, <1>6 DEF addNewVMStep
  <2>3. v = Derivative /\ vm'[v].url = vm[v].url /\ vm[v].url \in VMs
    BY <2>1, <2>2 DEF DeriveChain, Grows, VMInv, BuildType, VMSet
  <2>4. <<addNewVMStep(v, n), appendDetachDiskStep(vm[v].url, n)>> \in deps'
    BY <2>1 DEF DeriveChain, Grows
  <2>5. vm[vm[v].url].kind # None
    BY <2>2, <2>3 DEF VMInv
  <2>6. ASSUME NEW m \in Nat, addNewVMStep(v, m) \in steps' PROVE m = n
    <3>1. addNewVMStep(v, m) \in steps
      BY <2>2, <2>3, <2>6 DEF Grows, addNewVMStep
    <3> QED
      BY <2>1, <3>1 DEF DeriveChain
  <2>7. ASSUME NEW m \in Nat, addStartStep(vm[v].url, m) \in steps' PROVE m < n
    <3>1. addStartStep(vm[v].url, m) \in steps
      BY <2>3, <2>5, <2>7 DEF Grows, addStartStep, All
    <3> QED
      BY <2>1, <3>1 DEF DeriveChain
  <2> QED
    BY <2>3, <2>4, <2>6, <2>7 DEF DeriveChain, addNewVMStep, appendDetachDiskStep, addStartStep
<1> QED
  BY <1>2, <1>4, <1>5, <1>6

\* A call that builds nothing, or is refused, keeps the graph
LEMMA SameGraph ==
  ASSUME GraphInv, pc = "setup", pc' \in {"setup", "refused"},
         UNCHANGED <<steps, deps, counter, instances, instancesBeta, late, zone, suite>>,
         ops' \in Nat, vm' \in [All -> VMSet],
         \A v \in All : vm'[v].kind = vm[v].kind /\ vm'[v].url = vm[v].url /\ vm'[v].uses \subseteq steps
  PROVE  GraphInv'
<1>1. BuildType'
  BY DEF GraphInv, BuildType
<1>2. Created' = Created /\ \A v : WaitsOf(v)' = WaitsOf(v)
  BY DEF Created, WaitsOf
<1>3. \A v \in All : FirstWait(v, vm[v].kind)' = FirstWait(v, vm[v].kind)
  BY DEF FirstWait, addWaitRebootGAStep, addWaitStep
<1>4. VMInv'
  <2>1. createVMs' = createVMs /\ Derivative \in All
    BY DEF createVMs, S, All
  <2> QED
    BY <1>2, <1>3, <2>1 DEF GraphInv, VMInv, BuildType, VMSet, All
<1>5. CreateInv'
  BY DEF GraphInv, CreateInv
<1>6. Grows
  BY DEF GraphInv, Grows
<1>7. ChainInv'
  <2> SUFFICES ASSUME NEW v \in All, NEW n \in Nat PROVE ChainInv!(v)!(n)'
    BY DEF ChainInv
  <2> QED
    BY <1>6, OldChains DEF GraphInv, ChainInv, addStopStep, addDiskResizeStep, addNewVMStep,
       addWaitStoppedStep, addStartStep, addWaitStep, appendDetachDiskStep, createVMs, S
<1>8. WalkInv'
  BY <1>2 DEF GraphInv, WalkInv, Rank, HasDependent, All
<1> QED
  BY <1>1, <1>4, <1>5, <1>7, <1>8 DEF GraphInv

\* While the workflow runs the graph stays
LEMMA RunGraph ==
  ASSUME GraphInv, pc = "run", pc' \in {"run", "ended"}, UNCHANGED buildVars
  PROVE  GraphInv'
<1>1. UNCHANGED <<steps, deps, counter, vm, instances, instancesBeta, auto, late, zone, suite, ops>>
  BY DEF buildVars
<1>2. Created' = Created /\ \A v : WaitsOf(v)' = WaitsOf(v)
  BY <1>1 DEF Created, WaitsOf
<1>3. BuildType'
  BY <1>1 DEF GraphInv, BuildType
<1>4. VMInv'
  BY <1>1, <1>2 DEF GraphInv, VMInv, FirstWait, addWaitRebootGAStep, addWaitStep
<1>5. CreateInv'
  BY <1>1 DEF GraphInv, CreateInv
<1>6. Grows
  BY <1>1 DEF Grows
<1>7. ChainInv'
  <2> SUFFICES ASSUME NEW v \in All, NEW n \in Nat PROVE ChainInv!(v)!(n)'
    BY DEF ChainInv
  <2> QED
    BY <1>1, <1>6, OldChains DEF GraphInv, ChainInv, addStopStep, addDiskResizeStep, addNewVMStep,
       addWaitStoppedStep, addStartStep, addWaitStep, appendDetachDiskStep, createVMs, S
<1>8. WalkInv'
  BY DEF WalkInv
<1> QED
  BY <1>3, <1>4, <1>5, <1>7, <1>8 DEF GraphInv

\* ForceZone changes the zone of a VM and nothing the graph is made of.
LEMMA ForceZoneGraph ==
  ASSUME GraphInv, NEW v \in All, NEW z \in Zones, ForceZone(v, z)
  PROVE  GraphInv'
<1>1. vm' = [vm EXCEPT ![v].zone = z] /\ pc = "setup" /\ ops' = ops - 1 /\ ops > 0 /\ suite' = suite
  BY DEF ForceZone, Call
<1>2. vm' \in [All -> VMSet]
  BY <1>1 DEF GraphInv, BuildType, VMSet
<1>3. ops' \in Nat
  BY <1>1 DEF GraphInv, BuildType
<1>4. \A u \in All : vm'[u].kind = vm[u].kind /\ vm'[u].url = vm[u].url /\ vm'[u].uses = vm[u].uses
  BY <1>1 DEF GraphInv, BuildType, VMSet
<1> QED
  BY <1>1, <1>2, <1>3, <1>4, SameGraph DEF GraphInv, VMInv, ForceZone

\* The interfaces after UseGVNIC
Gvnic(nics) == [(IF nics = <<>> THEN <<Nic(None)>> ELSE nics) EXCEPT ![1].gvnic = TRUE]

\* UseGVNIC keeps the interfaces well formed and leaves the networks they name.
LEMMA GvnicType ==
  ASSUME NEW q \in Seq(NicSet)
  PROVE  /\ Gvnic(q) \in Seq(NicSet)
         /\ Gvnic(q) # <<>>
         /\ \A i \in DOMAIN Gvnic(q) :
              \/ Gvnic(q)[i].gvnic /\ Gvnic(q)[i].ip \in {"unset"} \cup {q[j].ip : j \in DOMAIN q}
              \/ i \in DOMAIN q /\ Gvnic(q)[i] = q[i]
<1> DEFINE p == IF q = <<>> THEN <<Nic(None)>> ELSE q
<1>1. Nic(None) \in NicSet /\ Nic(None).ip = "unset"
  BY DEF Nic, NicSet
<1>2. p \in Seq(NicSet) /\ Len(p) \in Nat /\ Len(p) > 0 /\ DOMAIN p = 1..Len(p)
  <2>1. CASE q = <<>>
    <3>1. <<Nic(None)>> \in Seq(NicSet) /\ Len(<<Nic(None)>>) = 1
      BY <1>1
    <3> QED
      BY <2>1, <3>1
  <2>2. CASE q # <<>>
    BY <2>2
  <2> QED
    BY <2>1, <2>2
<1>4. q # <<>> => p = q
  OBVIOUS
<1>5. q = <<>> => p = <<Nic(None)>>
  OBVIOUS
<1>6. Gvnic(q) = [p EXCEPT ![1].gvnic = TRUE]
  BY DEF Gvnic
<1> HIDE DEF p
<1>7. 1 \in DOMAIN p /\ p[1] \in NicSet
  BY <1>2
<1>3. p[1].ip \in {"unset"} \cup {q[j].ip : j \in DOMAIN q}
  <2>1. q = <<>> => p[1] = Nic(None)
    BY <1>5
  <2>2. q # <<>> => p[1] = q[1] /\ 1 \in DOMAIN q
    BY <1>4, <1>7
  <2> QED
    BY <1>1, <2>1, <2>2
<1> DEFINE g == [p[1] EXCEPT !.gvnic = TRUE]
<1>8. g \in NicSet /\ g.gvnic /\ g.ip = p[1].ip
  BY <1>7 DEF NicSet
<1>9. [p EXCEPT ![1].gvnic = TRUE] = [p EXCEPT ![1] = g]
  OBVIOUS
<1> HIDE DEF g
<1>10. [p EXCEPT ![1] = g] \in Seq(NicSet) /\ Len([p EXCEPT ![1] = g]) = Len(p)
  BY <1>2, <1>7, <1>8
<1>11. ASSUME NEW i \in DOMAIN p PROVE [p EXCEPT ![1] = g][i] = IF i = 1 THEN g ELSE p[i]
  BY <1>2
<1>12. \A i \in DOMAIN p : i # 1 => i \in DOMAIN q /\ p[i] = q[i]
  BY <1>2, <1>4, <1>5
<1> DEFINE u == [p EXCEPT ![1] = g]
<1>13. u \in Seq(NicSet) /\ DOMAIN u = DOMAIN p /\ Gvnic(q) = u
  BY <1>6, <1>9, <1>10
<1>14. \A i \in DOMAIN p : u[i] = IF i = 1 THEN g ELSE p[i]
  BY <1>11
<1> HIDE DEF u
<1>15. u # <<>>
  BY <1>7, <1>13
<1> QED
  BY <1>3, <1>8, <1>12, <1>13, <1>14, <1>15

\* UseGVNIC touches one VM's interfaces only.
LEMMA UseGVNICGraph ==
  ASSUME GraphInv, NEW v \in All, UseGVNIC(v)
  PROVE  GraphInv'
<1>1. /\ vm' = [vm EXCEPT ![v].nics = Gvnic(vm[v].nics)]
      /\ pc = "setup" /\ ops' = ops - 1 /\ ops > 0 /\ suite' = suite
  BY DEF UseGVNIC, Call, Gvnic
<1>2. vm[v] \in VMSet /\ vm[v].nics \in Seq(NicSet)
  BY DEF GraphInv, BuildType, VMSet
<1>3. Gvnic(vm[v].nics) \in Seq(NicSet)
  BY <1>2, GvnicType
<1>4. vm' \in [All -> VMSet]
  BY <1>1, <1>2, <1>3 DEF GraphInv, BuildType, VMSet
<1>5. ops' \in Nat
  BY <1>1 DEF GraphInv, BuildType
<1>6. \A u \in All : vm'[u].kind = vm[u].kind /\ vm'[u].url = vm[u].url /\ vm'[u].uses = vm[u].uses
  BY <1>1 DEF GraphInv, BuildType, VMSet
<1> QED
  BY <1>1, <1>4, <1>5, <1>6, SameGraph DEF GraphInv, VMInv, UseGVNIC

\* A call that is refused
LEMMA RefuseGraph ==
  ASSUME GraphInv, NEW f, Call(f), Refuse
  PROVE  GraphInv'
<1>1. pc = "setup" /\ ops' = ops - 1 /\ ops > 0 /\ suite' = suite
  BY DEF Call
<1>2. vm' \in [All -> VMSet] /\ ops' \in Nat
  BY <1>1 DEF GraphInv, BuildType, Refuse
<1> QED
  BY <1>1, <1>2, SameGraph DEF GraphInv, VMInv, Refuse

\* AddCustomNetwork gives a VM an interface on a network whose creation is already a step.
LEMMA AddCustomNetworkGraph ==
  ASSUME GraphInv, NEW v \in All, NEW sub \in {{}, {createSubnets}}, AddCustomNetwork(v, sub)
  PROVE  GraphInv'
<1>1. CASE Refuse
  BY <1>1, RefuseGraph DEF AddCustomNetwork
<1>2. CASE ~Refuse
  <2>1. /\ vm' = [vm EXCEPT ![v].uses = @ \cup {createNetworks} \cup sub,
                            ![v].nics = Append(@, Nic("custom"))]
        /\ pc = "setup" /\ ops' = ops - 1 /\ ops > 0 /\ suite' = suite
        /\ createNetworks \in steps /\ sub \subseteq steps
        /\ UNCHANGED <<pc, steps, deps, counter, instances, instancesBeta, auto, late, zone, quotaIn>>
    BY <1>2 DEF AddCustomNetwork, Call
  <2>2. vm[v] \in VMSet /\ vm[v].nics \in Seq(NicSet) /\ vm[v].uses \subseteq {createNetworks, createSubnets}
    BY DEF GraphInv, BuildType, VMSet
  <2>3. Append(vm[v].nics, Nic("custom")) \in Seq(NicSet)
    BY <2>2 DEF Nic, NicSet
  <2>4. vm' \in [All -> VMSet]
    BY <2>1, <2>2, <2>3 DEF GraphInv, BuildType, VMSet
  <2>5. ops' \in Nat
    BY <2>1 DEF GraphInv, BuildType
  <2>6. \A u \in All : /\ vm'[u].kind = vm[u].kind /\ vm'[u].url = vm[u].url
                       /\ vm'[u].uses \subseteq vm[u].uses \cup {createNetworks} \cup sub
    BY <2>1, <2>2 DEF GraphInv, BuildType, VMSet
  <2>7. \A u \in All : vm'[u].uses \subseteq steps
    BY <2>1, <2>6 DEF GraphInv, VMInv
  <2> QED
    BY <2>1, <2>4, <2>5, <2>6, <2>7, SameGraph
<1> QED
  BY <1>1, <1>2

\* No step without a VM is a step of a VM
LEMMA GlobalForm ==
  ASSUME NEW s \in GlobalSteps
  PROVE  /\ s[2] = None /\ s[2] \notin All /\ s[3] = 0
         /\ s[1] \notin Chained \cup {"create-vms-n", "wait-suspended", "resume"}
<1>1. s[2] = None /\ s[3] = 0 /\ s[1] \notin Chained \cup {"create-vms-n", "wait-suspended", "resume"}
  BY DEF GlobalSteps, S, createDisks, createVMs, createNetworks, createSubnets, createFirewalls,
         vmQuota, diskQuota, copyObjects, Chained
<1> QED
  BY <1>1, WorkflowAssumption

\* Steps and dependencies without VMs leave the VMs alone
LEMMA GlobalGraph ==
  ASSUME GraphInv, pc = "setup", pc' = "setup",
         NEW G \in SUBSET GlobalSteps, IsFiniteSet(G), NEW E, steps' = steps \cup G, deps' = deps \cup E,
         E \subseteq steps' \X steps', \A e \in E : e[2] \in GlobalSteps,
         UNCHANGED <<counter, vm, instances, instancesBeta, zone, suite>>,
         ops' \in Nat, CreateInv'
  PROVE  GraphInv'
<1>1. BuildType'
  <2>1. IsFiniteSet(steps')
    BY FS_Union DEF GraphInv, BuildType
  <2>2. \A s \in steps' : s[3] <= counter'
    BY GlobalForm DEF GraphInv, BuildType
  <2>3. steps' \subseteq GlobalSteps \cup VMSteps /\ deps' \subseteq steps' \X steps'
    BY DEF GraphInv, BuildType
  <2> QED
    BY <2>1, <2>2, <2>3 DEF GraphInv, BuildType
<1>2. Created' = Created /\ \A v \in All : WaitsOf(v)' = WaitsOf(v)
  <2>1. \A v \in All, s \in G : s[2] # v
    BY GlobalForm
  <2> QED
    BY <2>1 DEF Created, WaitsOf
<1>3. Grows
  BY GlobalForm DEF Grows
<1>4. VMInv'
  <2>1. \A s \in steps' : s[2] \in All => s \in steps
    BY GlobalForm
  <2> QED
    BY <1>2, <2>1 DEF GraphInv, VMInv, FirstWait, addWaitRebootGAStep, addWaitStep
<1>5. ChainInv'
  <2> SUFFICES ASSUME NEW v \in All, NEW n \in Nat PROVE ChainInv!(v)!(n)'
    BY DEF ChainInv
  <2>1. \A k : <<k, v, n>> \in steps' => <<k, v, n>> \in steps
    BY GlobalForm
  <2> QED
    BY <1>3, <2>1, OldChains DEF GraphInv, ChainInv, addStopStep, addDiskResizeStep, addNewVMStep,
       addWaitStoppedStep, addStartStep, addWaitStep, appendDetachDiskStep, createVMs, S
<1>6. WalkInv'
  <2>1. \A e \in E : e[2][2] \notin All
    BY GlobalForm
  <2>2. \A s \in steps : s[2] \in All => HasDependent(s)' = HasDependent(s)
    BY <2>1 DEF HasDependent
  <2>3. \A v \in All : \A w \in WaitsOf(v) : w \in steps /\ w[2] \in All
    BY DEF WaitsOf
  <2>4. \A s \in steps' : s[1] \in Chained => s \in steps /\ s[2] \in All
    BY GlobalForm, StepForms DEF GraphInv
  <2>5. \A d \in deps' : d[2][2] \in All => d \in deps
    BY <2>1
  <2>6. WalkInv /\ pc = "setup"
    BY DEF GraphInv
  <2>7. \A v \in All : \A w, x \in WaitsOf(v)' : w[3] < x[3] => HasDependent(w)'
    BY <1>2, <2>2, <2>3, <2>6 DEF WalkInv
  <2>8. \A s \in steps' : s[1] \in {"resize-disk", "stop", "wait-stopped", "start", "detach-disk"} =>
         HasDependent(s)'
    BY <2>2, <2>4, <2>6 DEF WalkInv, Chained
  <2> QED
    BY <2>5, <2>6, <2>7, <2>8 DEF WalkInv, Rank
<1> QED
  BY <1>1, <1>4, <1>5, <1>6 DEF GraphInv

\* CreateNetwork makes the step of the networks, before the VMs if there are any.
LEMMA NetworkGraph ==
  ASSUME GraphInv, NEW a \in BOOLEAN, CreateNetwork(a)
  PROVE  GraphInv'
<1> DEFINE E == {<<s, createNetworks>> : s \in {createVMs} \cap steps}
<1>1. /\ pc = "setup" /\ pc' = "setup" /\ ops' = ops - 1 /\ ops > 0
      /\ steps' = steps \cup {createNetworks} /\ deps' = deps \cup E
      /\ UNCHANGED <<counter, vm, instances, instancesBeta, zone, suite, late>>
  BY DEF CreateNetwork, Call, Add
<1>2. ops' \in Nat
  BY <1>1 DEF GraphInv, BuildType
<1>3. CreateInv'
  BY <1>1 DEF GraphInv, CreateInv, createVMs, createNetworks, createSubnets, createDisks, S
<1>4. {createNetworks} \in SUBSET GlobalSteps /\ \A e \in E : e[2] \in GlobalSteps
  BY DEF GlobalSteps
<1>5. E \subseteq steps' \X steps'
  BY <1>1
<1>6. IsFiniteSet({createNetworks})
  BY FS_Singleton
<1> HIDE DEF E
<1> QED
  BY <1>1, <1>2, <1>3, <1>4, <1>5, <1>6, GlobalGraph

\* CreateSubnetwork appends or reuses the step of the subnetworks.
LEMMA SubnetworkGraph ==
  ASSUME GraphInv, CreateSubnetwork
  PROVE  GraphInv'
<1> DEFINE E == {<<createSubnets, createNetworks>>}
<1>1. /\ pc = "setup" /\ pc' = "setup" /\ ops' = ops - 1 /\ ops > 0
      /\ steps' = steps \cup {createSubnets} /\ deps' = deps \cup E /\ createNetworks \in steps
      /\ late' = (late \/ createVMs \in steps)
      /\ UNCHANGED <<counter, vm, instances, instancesBeta, zone, suite>>
  BY DEF CreateSubnetwork, Call, Add
<1>2. ops' \in Nat
  BY <1>1 DEF GraphInv, BuildType
<1>3. CreateInv'
  BY <1>1 DEF GraphInv, CreateInv, createVMs, createNetworks, createSubnets, createDisks, S
<1>4. {createSubnets} \in SUBSET GlobalSteps /\ \A e \in E : e[2] \in GlobalSteps
  BY DEF GlobalSteps
<1>5. E \subseteq steps' \X steps'
  BY <1>1
<1>6. IsFiniteSet({createSubnets})
  BY FS_Singleton
<1> HIDE DEF E
<1> QED
  BY <1>1, <1>2, <1>3, <1>4, <1>5, <1>6, GlobalGraph

\* CreateFirewallRule appends or reuses the step of the firewall rules.
LEMMA FirewallGraph ==
  ASSUME GraphInv, CreateFirewallRule
  PROVE  GraphInv'
<1> DEFINE E == {<<createFirewalls, createNetworks>>}
                  \cup {<<s, createFirewalls>> : s \in {createVMs} \cap steps}
<1>1. /\ pc = "setup" /\ pc' = "setup" /\ ops' = ops - 1 /\ ops > 0
      /\ steps' = steps \cup {createFirewalls} /\ deps' = deps \cup E /\ createNetworks \in steps
      /\ UNCHANGED <<counter, vm, instances, instancesBeta, zone, suite, late>>
  BY DEF CreateFirewallRule, Call, Add
<1>2. ops' \in Nat
  BY <1>1 DEF GraphInv, BuildType
<1>3. CreateInv'
  BY <1>1 DEF GraphInv, CreateInv, createVMs, createNetworks, createSubnets, createDisks,
              createFirewalls, S
<1>4. {createFirewalls} \in SUBSET GlobalSteps /\ \A e \in E : e[2] \in GlobalSteps
  BY DEF GlobalSteps
<1>5. E \subseteq steps' \X steps'
  BY <1>1
<1>6. IsFiniteSet({createFirewalls})
  BY FS_Singleton
<1> HIDE DEF E
<1> QED
  BY <1>1, <1>2, <1>3, <1>4, <1>5, <1>6, GlobalGraph

\* waitForQuotaStep makes the step that waits for a quota; nothing depends on it yet.
LEMMA QuotaGraph ==
  ASSUME GraphInv, NEW q \in {vmQuota, diskQuota}, waitForQuotaStep(q)
  PROVE  GraphInv'
<1> DEFINE E == {}
<1>1. /\ pc = "setup" /\ pc' = "setup" /\ ops' = ops - 1 /\ ops > 0
      /\ steps' = steps \cup {q} /\ deps' = deps \cup E
      /\ UNCHANGED <<counter, vm, instances, instancesBeta, zone, suite, late>>
  BY DEF waitForQuotaStep, Call, Add
<1>2. ops' \in Nat
  BY <1>1 DEF GraphInv, BuildType
<1>3. CreateInv'
  BY <1>1 DEF GraphInv, CreateInv, createVMs, createNetworks, createSubnets, createDisks, vmQuota,
              diskQuota, S
<1>4. {q} \in SUBSET GlobalSteps
  BY DEF GlobalSteps
<1>5. IsFiniteSet({q})
  BY FS_Singleton
<1>6. E \subseteq steps' \X steps' /\ \A e \in E : e[2] \in GlobalSteps
  OBVIOUS
<1> HIDE DEF E
<1> QED
  BY <1>1, <1>2, <1>3, <1>4, <1>5, <1>6, GlobalGraph

\* A new VM: an item of create-vms, with a first wait that depends on that step
LEMMA NewVMGraph ==
  ASSUME GraphInv, NEW f, Call(f), NEW v \in VMs, vm[v].kind = None,
         NEW kind \in VMKinds \ {None}, NEW wait, wait = FirstWait(v, kind),
         Add({createVMs, wait} \cup {createDisks}, VMDeps({createDisks}, wait)),
         setInstanceTestMetadata(v, kind),
         \/ instances' = Append(instances, v) /\ UNCHANGED instancesBeta
         \/ instancesBeta' = Append(instancesBeta, v) /\ UNCHANGED instances,
         UNCHANGED <<pc, counter, auto, late, zone, quotaIn>>
  PROVE  GraphInv'
<1> DEFINE E == VMDeps({createDisks}, wait)
           G == {createVMs, wait, createDisks}
<1>1. pc = "setup" /\ ops' = ops - 1 /\ ops > 0 /\ suite' = suite
  BY DEF Call
<1>2. steps' = steps \cup G /\ deps' = deps \cup E
  BY DEF Add
<1>3. v \in All /\ v # Derivative
  BY WorkflowAssumption DEF All
<1>4. /\ wait \in VMSteps /\ wait[2] = v /\ wait[3] = 0
      /\ wait[1] \in {"wait", "wait-first-boot"} /\ wait = <<wait[1], v, 0>>
  BY <1>3 DEF FirstWait, addWaitRebootGAStep, addWaitStep, VMSteps, Chained
<1>5. createVMs \in GlobalSteps /\ createDisks \in GlobalSteps
  BY DEF GlobalSteps
<1>6. /\ <<wait, createVMs>> \in E /\ <<createVMs, createDisks>> \in E
      /\ \A s \in {createSubnets, createNetworks} \cap steps : <<createVMs, s>> \in E
      /\ E \subseteq steps' \X steps'
      /\ \A e \in E : e[2] \in GlobalSteps
  BY <1>2, <1>5 DEF VMDeps, GlobalSteps
<1>7. /\ \A u \in All \ {v} : vm'[u] = vm[u]
      /\ vm'[v].kind = kind /\ vm'[v].url = v /\ vm'[v].uses = vm[v].uses
      /\ vm' \in [All -> VMSet]
  <2> DEFINE x == [vm[v] EXCEPT !.kind = kind, !.url = v]
  <2>1. vm \in [All -> VMSet] /\ vm[v] \in VMSet
    BY <1>3 DEF GraphInv, BuildType
  <2>2. x \in VMSet /\ x.kind = kind /\ x.url = v /\ x.uses = vm[v].uses
    BY <2>1 DEF VMSet
  <2>3. vm' = [vm EXCEPT ![v] = x]
    BY DEF setInstanceTestMetadata
  <2> HIDE DEF x
  <2> QED
    BY <1>3, <2>1, <2>2, <2>3
<1>8. Created' = Created \cup {v}
  <2>1. ASSUME NEW q \in Seq(VMs)
        PROVE  {Append(q, v)[i] : i \in DOMAIN Append(q, v)} = {q[i] : i \in DOMAIN q} \cup {v}
    <3>1. /\ DOMAIN Append(q, v) = 1..(Len(q) + 1) /\ DOMAIN q = 1..Len(q) /\ Len(q) \in Nat
          /\ \A i \in 1..Len(q) : Append(q, v)[i] = q[i]
          /\ Append(q, v)[Len(q) + 1] = v
      OBVIOUS
    <3> DEFINE a == Append(q, v)
    <3> HIDE DEF a
    <3>2. 1..(Len(q) + 1) = 1..Len(q) \cup {Len(q) + 1}
      BY <3>1
    <3> QED
      BY <3>1, <3>2 DEF a
  <2>2. instances \in Seq(VMs) /\ instancesBeta \in Seq(VMs)
    BY DEF GraphInv, BuildType
  <2>3. CASE instances' = Append(instances, v) /\ UNCHANGED instancesBeta
    <3>1. {Append(instances, v)[i] : i \in DOMAIN Append(instances, v)}
            = {instances[i] : i \in DOMAIN instances} \cup {v}
      BY <2>1, <2>2
    <3> QED
      BY <2>3, <3>1 DEF Created
  <2>4. CASE instancesBeta' = Append(instancesBeta, v) /\ UNCHANGED instances
    <3>1. {Append(instancesBeta, v)[i] : i \in DOMAIN Append(instancesBeta, v)}
            = {instancesBeta[i] : i \in DOMAIN instancesBeta} \cup {v}
      BY <2>1, <2>2
    <3> QED
      BY <2>4, <3>1 DEF Created
  <2> QED
    BY <2>3, <2>4
<1> HIDE DEF E
<1>9. \A s \in steps : s[2] # v
  BY <1>3 DEF GraphInv, VMInv
<1>10. \A s \in G : s[2] \in All => s = wait
  BY <1>5, GlobalForm
<1>11. BuildType'
  <2>1. IsFiniteSet(steps')
    <3>1. IsFiniteSet({createVMs} \cup {wait})
      BY FS_Singleton, FS_AddElement
    <3>2. IsFiniteSet(({createVMs} \cup {wait}) \cup {createDisks})
      BY <3>1, FS_AddElement
    <3>3. IsFiniteSet(G)
      <4>1. G = ({createVMs} \cup {wait}) \cup {createDisks}
        OBVIOUS
      <4> QED
        BY <3>2, <4>1
    <3> QED
      BY <1>2, <3>3, FS_Union DEF GraphInv, BuildType
  <2>2. \A s \in steps' : s[3] <= counter'
    BY <1>2, <1>4, <1>5, GlobalForm DEF GraphInv, BuildType
  <2>3. steps' \subseteq GlobalSteps \cup VMSteps /\ deps' \subseteq steps' \X steps'
    BY <1>2, <1>4, <1>5, <1>6 DEF GraphInv, BuildType
  <2>4. ops' \in Nat
    BY <1>1 DEF GraphInv, BuildType
  <2>5. instances' \in Seq(VMs) /\ instancesBeta' \in Seq(VMs)
    <3>1. /\ instances \in Seq(VMs) /\ instancesBeta \in Seq(VMs)
          /\ Append(instances, v) \in Seq(VMs) /\ Append(instancesBeta, v) \in Seq(VMs)
      BY DEF GraphInv, BuildType
    <3> QED
      BY <3>1
  <2> QED
    BY <1>1, <1>7, <2>1, <2>2, <2>3, <2>4, <2>5 DEF GraphInv, BuildType
<1>12. VMInv'
  <2>1. VMInv /\ BuildType
    BY DEF GraphInv
  <2>2. \A u \in All : vm'[u].kind = None <=> vm'[u].url = None
    BY <1>3, <1>7, <2>1, WorkflowAssumption DEF VMInv
  <2>3. \A u \in VMs : vm'[u].url \in {None, u}
    BY <1>7, <2>1 DEF VMInv, All
  <2>4. \A u \in VMs : vm'[u].kind # None <=> u \in Created'
    BY <1>7, <1>8, <2>1 DEF VMInv, All
  <2>5. vm'[Derivative].kind # None => vm'[Derivative].kind = "plain" /\ vm'[vm'[Derivative].url].kind # None
    <3>1. vm'[Derivative] = vm[Derivative]
      BY <1>3, <1>7 DEF All
    <3>2. vm[Derivative].kind # None => vm[Derivative].url \in All
      BY <2>1 DEF VMInv, BuildType, VMSet, All
    <3> QED
      BY <1>7, <2>1, <3>1, <3>2 DEF VMInv
  <2>6. \A s \in steps' : s[2] \in All => vm'[s[2]].kind # None
    BY <1>2, <1>4, <1>7, <1>9, <1>10, <2>1 DEF VMInv
  <2>7. \A u \in All : vm'[u].kind # None => FirstWait(u, vm'[u].kind) \in steps' /\ createVMs \in steps'
    BY <1>2, <1>7, <2>1 DEF VMInv
  <2>8. \A u \in All : vm'[u].uses \subseteq steps'
    BY <1>2, <1>7, <2>1 DEF VMInv
  <2> QED
    BY <2>2, <2>3, <2>4, <2>5, <2>6, <2>7, <2>8
       DEF VMInv, FirstWait, addWaitRebootGAStep, addWaitStep, createVMs, S
<1>13. CreateInv'
  <2>1. \A s \in {createSubnets, createNetworks} : s \in steps' => s \in steps
    BY <1>2, <1>10, GlobalForm, <1>4, <1>3
       DEF createSubnets, createNetworks, createVMs, createDisks, S
  <2>2. createVMs \in steps' => <<createVMs, createDisks>> \in deps'
    BY <1>2, <1>6
  <2>3. \A s \in {createSubnets, createNetworks} : s \in steps' => <<createVMs, s>> \in deps'
    BY <1>2, <1>6, <2>1
  <2> QED
    BY <1>1, <2>2, <2>3 DEF CreateInv, createVMs, createNetworks, createSubnets, createDisks, S
<1>14. Grows
  BY <1>2, <1>4, <1>7, <1>10 DEF Grows
<1>15. ChainInv'
  <2> SUFFICES ASSUME NEW u \in All, NEW n \in Nat PROVE ChainInv!(u)!(n)'
    BY DEF ChainInv
  <2>1. ASSUME NEW k, <<k, u, n>> \in steps' PROVE <<k, u, n>> \in steps \/ <<k, u, n>> = wait
    BY <1>2, <1>10, <2>1
  <2>2. ASSUME NEW k, k \notin {"wait", "wait-first-boot"}, <<k, u, n>> \in steps'
        PROVE  <<k, u, n>> \in steps
    BY <1>4, <2>1, <2>2
  <2>3. ASSUME NEW k \in {"wait", "wait-first-boot"}, <<k, u, n>> \in steps'
        PROVE  FirstChain(u, <<k, u, n>>)'
    <3>1. CASE <<k, u, n>> \in steps
      BY <1>14, <3>1, OldChains DEF GraphInv
    <3>2. CASE <<k, u, n>> = wait
      <4>1. u = v
        BY <1>4, <3>2
      <4> QED
        BY <1>2, <1>3, <1>6, <1>7, <3>2, <4>1
           DEF FirstChain, FirstWait, addWaitRebootGAStep, addWaitStep, createVMs, S
    <3> QED
      BY <2>1, <2>3, <3>1, <3>2
  <2>4. /\ addStopStep(u, n) \in steps' => StopChain(u, n)'
        /\ addDiskResizeStep(u, n) \in steps' => ResizeChain(u, n)'
        /\ addNewVMStep(u, n) \in steps' => DeriveChain(u, n)'
    BY <1>14, <2>2, OldChains DEF GraphInv, addStopStep, addDiskResizeStep, addNewVMStep
  <2>5. steps \subseteq steps' /\ deps \subseteq deps' /\ ChainInv
    BY <1>2 DEF GraphInv
  <2> QED
    BY <2>2, <2>3, <2>4, <2>5 DEF ChainInv, addStopStep, addDiskResizeStep, addNewVMStep,
       addWaitStoppedStep, addStartStep, addWaitStep, appendDetachDiskStep, createVMs, S
<1>16. WalkInv'
  <2>1. \A e \in E : e[2][2] \notin All
    BY <1>6, GlobalForm
  <2>2. \A s \in steps : s[2] \in All => HasDependent(s)' = HasDependent(s)
    BY <1>2, <2>1 DEF HasDependent
  <2>3. \A d \in deps' : d[2][2] \in All => d \in deps
    BY <1>2, <2>1
  <2>4. WalkInv
    BY DEF GraphInv
  <2>5. ASSUME NEW u \in All, NEW w \in WaitsOf(u)', NEW x \in WaitsOf(u)', w[3] < x[3]
        PROVE  HasDependent(w)'
    <3>1. CASE u = v
      <4>1. w = wait /\ x = wait
        BY <1>2, <1>3, <1>9, <1>10, <3>1 DEF WaitsOf
      <4> QED
        BY <1>4, <2>5, <4>1
    <3>2. CASE u # v
      <4>1. w \in WaitsOf(u) /\ x \in WaitsOf(u)
        BY <1>2, <1>4, <1>10, <3>2 DEF WaitsOf
      <4>2. HasDependent(w)
        BY <1>1, <2>4, <2>5, <4>1 DEF WalkInv
      <4> QED
        BY <2>2, <4>1, <4>2 DEF WaitsOf
    <3> QED
      BY <3>1, <3>2
  <2>6. ASSUME NEW s \in steps', s[1] \in {"resize-disk", "stop", "wait-stopped", "start", "detach-disk"}
        PROVE  HasDependent(s)'
    <3>1. s \in steps
      BY <1>2, <1>4, <1>5, <2>6, GlobalForm DEF Chained
    <3>2. s[2] \in All
      BY <2>6, <3>1, StepForms, GlobalForm DEF GraphInv, Chained
    <3> QED
      BY <1>1, <2>2, <2>4, <2>6, <3>1, <3>2 DEF WalkInv
  <2>7. vm'[Derivative] = vm[Derivative]
    BY <1>3, <1>7 DEF All
  <2> QED
    BY <1>1, <2>3, <2>4, <2>5, <2>6, <2>7 DEF WalkInv, Rank
<1> QED
  BY <1>11, <1>12, <1>13, <1>15, <1>16 DEF GraphInv

\* The fixtures that create a VM
LEMMA CreateGraph ==
  ASSUME GraphInv, NEW v \in suite.vms,
         \/ CreateTestVM(v) \/ CreateTestVMBeta(v)
         \/ \E k \in suite.kinds : CreateTestVMMultipleDisks(v, k) \/ CreateTestVMFromInstanceBeta(v, k)
  PROVE  GraphInv'
<1>1. v \in VMs /\ "plain" \in VMKinds \ {None} /\ suite.kinds \subseteq VMKinds \ {None}
  BY WorkflowAssumption DEF GraphInv, BuildType, VMKinds, None
<1>2. "plain" # "reboot"
  OBVIOUS
<1>3. FirstWait(v, "plain") = addWaitStep("wait", v, 0)
  BY DEF FirstWait
<1>4. \E f : Call(f) /\ (Refuse \/ ~Refuse)
  BY DEF CreateTestVM, CreateTestVMBeta, CreateTestVMMultipleDisks, CreateTestVMFromInstanceBeta
<1>5. CASE Refuse
  BY <1>4, <1>5, RefuseGraph
<1>6. CASE ~Refuse
  <2>1. CASE CreateTestVM(v)
    <3>1. Call("CreateTestVM") /\ NewVM(v, {createDisks}, FirstWait(v, "plain"), appendCreateVMStep(v, "plain"))
      BY <1>3, <2>1 DEF CreateTestVM, appendCreateDisksStep
    <3> QED
      BY <1>1, <1>6, <3>1, NewVMGraph DEF NewVM, appendCreateVMStep
  <2>2. CASE CreateTestVMBeta(v)
    <3>1. Call("CreateTestVMBeta") /\ NewVM(v, {createDisks}, FirstWait(v, "plain"), appendCreateVMStepBeta(v, "plain"))
      BY <1>3, <2>2 DEF CreateTestVMBeta, appendCreateDisksStep
    <3> QED
      BY <1>1, <1>6, <3>1, NewVMGraph DEF NewVM, appendCreateVMStepBeta
  <2>3. ASSUME NEW k \in suite.kinds, CreateTestVMMultipleDisks(v, k) PROVE GraphInv'
    <3>1. /\ Call("CreateTestVMMultipleDisks")
          /\ NewVM(v, {createDisks}, FirstWait(v, k), appendCreateVMStep(v, k))
      BY <2>3 DEF CreateTestVMMultipleDisks, appendCreateDisksStep, appendCreateMountDisksStep
    <3> QED
      BY <1>1, <1>6, <3>1, NewVMGraph DEF NewVM, appendCreateVMStep
  <2>4. ASSUME NEW k \in suite.kinds, CreateTestVMFromInstanceBeta(v, k) PROVE GraphInv'
    <3>1. /\ Call("CreateTestVMFromInstanceBeta")
          /\ NewVM(v, {createDisks}, FirstWait(v, k), appendCreateVMStepBeta(v, k))
      BY <2>4 DEF CreateTestVMFromInstanceBeta, appendCreateDisksStep, appendCreateMountDisksStep
    <3> QED
      BY <1>1, <1>6, <3>1, NewVMGraph DEF NewVM, appendCreateVMStepBeta
  <2> QED
    BY <2>1, <2>2, <2>3, <2>4
<1> QED
  BY <1>5, <1>6

\* The steps that wait for the tests of a VM: the first has counter 0
LEMMA WaitForm ==
  ASSUME BuildType, ChainInv, NEW v \in All, NEW y \in WaitsOf(v)
  PROVE  /\ y = <<y[1], v, y[3]>> /\ y[3] \in Nat /\ y[1] \in {"wait", "wait-first-boot", "wait-started"}
         /\ y[1] = "wait-started" => y[3] > 0
         /\ y[1] # "wait-started" => y = FirstWait(v, vm[v].kind) /\ y[3] = 0
<1>1. y \in steps /\ y[2] = v /\ y[1] \in {"wait", "wait-first-boot", "wait-started"}
  BY DEF WaitsOf
<1>2. y = <<y[1], v, y[3]>> /\ y[3] \in Nat
  BY <1>1, StepForms
<1>3. ASSUME y[1] = "wait-started" PROVE y[3] > 0
  <2>1. addWaitStep("wait-started", v, y[3]) \in steps
    BY <1>1, <1>2, <1>3 DEF addWaitStep
  <2>2. <<addWaitStep("wait-started", v, y[3]), addStartStep(v, y[3])>> \in deps
    BY <1>2, <2>1 DEF ChainInv
  <2>3. addStartStep(v, y[3]) \in steps
    BY <2>2 DEF BuildType
  <2> QED
    BY <1>2, <2>3 DEF ChainInv
<1>4. ASSUME y[1] # "wait-started" PROVE y = FirstWait(v, vm[v].kind) /\ y[3] = 0
  <2>1. y[1] \in {"wait", "wait-first-boot"} /\ <<y[1], v, y[3]>> \in steps
    BY <1>1, <1>2, <1>4
  <2>2. FirstChain(v, <<y[1], v, y[3]>>)
    BY <1>2, <2>1 DEF ChainInv
  <2>3. y = FirstWait(v, vm[v].kind)
    BY <1>2, <2>2 DEF FirstChain
  <2> QED
    BY <2>3 DEF FirstWait, addWaitRebootGAStep, addWaitStep
<1> QED
  BY <1>1, <1>2, <1>3, <1>4

\* Two waits of a VM have different counters
LEMMA WaitUnique ==
  ASSUME BuildType, ChainInv, NEW v \in All, NEW w \in WaitsOf(v), NEW x \in WaitsOf(v), w[3] = x[3]
  PROVE  w = x
<1>1. ASSUME NEW y \in WaitsOf(v)
      PROVE  /\ y = <<y[1], v, y[3]>> /\ y[3] \in Nat /\ y[1] \in {"wait", "wait-first-boot", "wait-started"}
             /\ y[1] = "wait-started" => y[3] > 0
             /\ y[1] # "wait-started" => y = FirstWait(v, vm[v].kind) /\ y[3] = 0
  BY WaitForm
<1>2. CASE w[3] = 0
  <2>1. ASSUME NEW y \in WaitsOf(v), y[3] = 0 PROVE y = FirstWait(v, vm[v].kind)
    <3>1. ~(y[3] > 0)
      BY <2>1
    <3> QED
      BY <1>1, <3>1
  <2> QED
    BY <1>1, <2>1
<1>3. CASE w[3] # 0
  <2>1. w[1] = "wait-started" /\ x[1] = "wait-started"
    BY <1>1, <1>3
  <2> QED
    BY <1>1, <2>1
<1> QED
  BY <1>2, <1>3

WaitNames == {"wait", "wait-first-boot", "wait-started"}
MidNames == {"resize-disk", "stop", "wait-stopped", "start", "detach-disk"}

\* New steps G and dependencies E that go on from the last step of v
Extension(v, last, G, E) ==
  /\ steps' = steps \cup G /\ deps' = deps \cup E
  /\ vm'[Derivative].url = vm[Derivative].url \/ vm[Derivative].url = None
  /\ \A s \in G : s[2] \in All /\ s[3] \in Nat /\ s \notin steps
  /\ \A e \in E : e[2] \in GlobalSteps \/ (e[1][2] \in All /\ (e[2] = last \/ e[2] \in G))
  /\ \A d, e \in E : d[2] = e[2] /\ d[2][2] \in All => d[1] = e[1]
  /\ \A e \in E : e[2][2] \in All /\ e[2][1] \in Chained /\ e[2][2] # vm'[Derivative].url =>
       e[1][2] = e[2][2] /\ e[1][1] \in Chained /\ Rank(e[1]) > Rank(e[2])
  /\ \A s \in G : s[1] \in MidNames => \E e \in E : e[2] = s
  /\ \A s \in G : s[1] \in WaitNames =>
       /\ \/ s[2] = v /\ s[3] > counter /\ \E e \in E : e[2] = last
          \/ vm[s[2]].kind = None
       /\ \A t \in G : t[1] \in WaitNames /\ t[2] = s[2] => t = s

\* They keep the walks as they are
LEMMA ExtendWalk ==
  ASSUME BuildType, VMInv, ChainInv, WalkInv, pc = "setup", NEW v \in All, NEW last \in WaitsOf(v),
         ~HasDependent(last), \A x \in WaitsOf(v) : x[3] <= last[3],
         NEW G, NEW E, Extension(v, last, G, E)
  PROVE  WalkInv'
<1> USE DEF Extension
<1>1. \A d \in deps : d[1] \in steps /\ d[2] \in steps
  BY DEF BuildType
<1>2. last \in steps /\ last[2] = v
  BY DEF WaitsOf
<1>3. ASSUME NEW e \in E, e[2][2] \in All PROVE e[1][2] \in All /\ \A d \in deps : d[2] # e[2]
  <2>1. e[1][2] \in All /\ (e[2] = last \/ e[2] \in G)
    BY <1>3, GlobalForm
  <2> QED
    BY <1>1, <2>1 DEF HasDependent
<1>4. \A d \in deps' : d[2][2] \in All => d[1][2] \in All
  BY <1>3 DEF WalkInv
<1>5. \A d, e \in deps' : d[2] = e[2] /\ d[2][2] \in All => d[1] = e[1]
  BY <1>3 DEF WalkInv
<1>6. \A d \in deps' : d[2][2] \in All /\ d[2][1] \in Chained /\ d[2][2] # vm'[Derivative].url =>
         d[1][2] = d[2][2] /\ d[1][1] \in Chained /\ Rank(d[1]) > Rank(d[2])
  <2>1. \A u \in All : u # vm'[Derivative].url => u # vm[Derivative].url
    BY WorkflowAssumption
  <2> QED
    BY <2>1 DEF WalkInv
<1>7. \A s : HasDependent(s) => HasDependent(s)'
  BY DEF HasDependent
<1>8. \A s \in steps' : s[1] \in MidNames => HasDependent(s)'
  BY <1>7 DEF WalkInv, MidNames, HasDependent
<1>9. ASSUME NEW u \in All, NEW w \in WaitsOf(u)', NEW x \in WaitsOf(u)', w[3] < x[3]
      PROVE  HasDependent(w)'
  <2>1. /\ w \in steps \cup G /\ w[2] = u /\ w[1] \in WaitNames
        /\ x \in steps \cup G /\ x[2] = u /\ x[1] \in WaitNames
    BY DEF WaitsOf, WaitNames
  <2>2. CASE w \in steps /\ x \in steps
    <3>1. w \in WaitsOf(u) /\ x \in WaitsOf(u)
      BY <2>1, <2>2 DEF WaitsOf, WaitNames
    <3> QED
      BY <1>7, <1>9, <3>1 DEF WalkInv
  <2>3. CASE w \in G
    <3>1. w[3] \in Nat
      BY <2>3
    <3>2. x # w
      BY <1>9, <3>1
    <3>3. x \in steps
      BY <2>1, <2>3, <3>2
    <3>4. vm[u].kind # None /\ x[3] <= counter /\ x[3] \in Nat /\ counter \in Nat
      BY <2>1, <3>3, StepForms DEF VMInv, BuildType
    <3>5. w[3] > counter
      BY <2>1, <2>3, <3>4
    <3> QED
      BY <1>9, <3>1, <3>4, <3>5
  <2>4. CASE w \in steps /\ x \in G
    <3>1. vm[u].kind # None
      BY <2>1, <2>4 DEF VMInv
    <3>2. u = v /\ \E e \in E : e[2] = last
      BY <2>1, <2>4, <3>1
    <3>3. HasDependent(last)'
      BY <3>2 DEF HasDependent
    <3>4. w \in WaitsOf(v)
      BY <2>1, <2>4, <3>2 DEF WaitsOf, WaitNames
    <3>5. w[3] \in Nat /\ last[3] \in Nat /\ w[3] <= last[3]
      BY <3>4, StepForms DEF WaitsOf
    <3>6. CASE w[3] = last[3]
      BY <3>3, <3>4, <3>6, WaitUnique
    <3>7. CASE w[3] < last[3]
      BY <1>7, <3>4, <3>7 DEF WalkInv
    <3> QED
      BY <3>5, <3>6, <3>7
  <2> QED
    BY <2>1, <2>2, <2>3, <2>4
<1> QED
  BY <1>4, <1>5, <1>6, <1>8, <1>9 DEF WalkInv, MidNames, Rank

\* The steps and dependencies that the fixtures add for a sequence of four steps
LEMMA ChainOfFour ==
  ASSUME NEW a, NEW b, NEW c, NEW d
  PROVE  /\ Links(<<a, b, c, d>>) = {b, c, d}
         /\ Chain(<<a, b, c, d>>) = {<<b, a>>, <<c, b>>, <<d, c>>}
<1>1. 1..3 = {1, 2, 3} /\ 2..4 = {2, 3, 4}
  OBVIOUS
<1> DEFINE q == <<a, b, c, d>>
<1>2. Len(q) = 4 /\ Len(q) - 1 = 3 /\ q[1] = a /\ q[2] = b /\ q[3] = c /\ q[4] = d
  OBVIOUS
<1> HIDE DEF q
<1>3. Links(q) = {q[2], q[3], q[4]}
  BY <1>1, <1>2 DEF Links
<1>4. Chain(q) = {<<q[1 + 1], q[1]>>, <<q[2 + 1], q[2]>>, <<q[3 + 1], q[3]>>}
  BY <1>1, <1>2 DEF Chain
<1> QED
  BY <1>2, <1>3, <1>4 DEF q

\* The same for five steps
LEMMA ChainOfFive ==
  ASSUME NEW a, NEW b, NEW c, NEW d, NEW e
  PROVE  /\ Links(<<a, b, c, d, e>>) = {b, c, d, e}
         /\ Chain(<<a, b, c, d, e>>) = {<<b, a>>, <<c, b>>, <<d, c>>, <<e, d>>}
<1>1. 1..4 = {1, 2, 3, 4} /\ 2..5 = {2, 3, 4, 5}
  OBVIOUS
<1> DEFINE q == <<a, b, c, d, e>>
<1>2. Len(q) = 5 /\ Len(q) - 1 = 4 /\ q[1] = a /\ q[2] = b /\ q[3] = c /\ q[4] = d /\ q[5] = e
  OBVIOUS
<1> HIDE DEF q
<1>3. Links(q) = {q[2], q[3], q[4], q[5]}
  BY <1>1, <1>2 DEF Links
<1>4. Chain(q) = {<<q[1 + 1], q[1]>>, <<q[2 + 1], q[2]>>, <<q[3 + 1], q[3]>>, <<q[4 + 1], q[4]>>}
  BY <1>1, <1>2 DEF Chain
<1> QED
  BY <1>2, <1>3, <1>4 DEF q

\* What a concatenation consists of
LEMMA ConcatAt ==
  ASSUME NEW T, NEW x \in Seq(T), NEW y \in Seq(T)
  PROVE  /\ Len(x \o y) = Len(x) + Len(y)
         /\ \A i \in 1..Len(x) : (x \o y)[i] = x[i]
         /\ \A i \in 1..Len(y) : (x \o y)[Len(x) + i] = y[i]
  OBVIOUS

\* The same for six
LEMMA ChainOfSix ==
  ASSUME NEW a, NEW b, NEW c, NEW d, NEW e, NEW f
  PROVE  \A q \in {<<a, b, c, d, e, f>>, <<a>> \o <<b, c, d, e, f>>} :
           /\ Links(q) = {b, c, d, e, f}
           /\ Chain(q) = {<<b, a>>, <<c, b>>, <<d, c>>, <<e, d>>, <<f, e>>}
<1> SUFFICES ASSUME NEW q \in {<<a, b, c, d, e, f>>, <<a>> \o <<b, c, d, e, f>>}
             PROVE  /\ Links(q) = {b, c, d, e, f}
                    /\ Chain(q) = {<<b, a>>, <<c, b>>, <<d, c>>, <<e, d>>, <<f, e>>}
  OBVIOUS
<1>1. 1..5 = {1, 2, 3, 4, 5} /\ 2..6 = {2, 3, 4, 5, 6}
  OBVIOUS
<1>2. /\ Len(q) = 6 /\ Len(q) - 1 = 5
      /\ q[1] = a /\ q[2] = b /\ q[3] = c /\ q[4] = d /\ q[5] = e /\ q[6] = f
  <2>1. CASE q = <<a, b, c, d, e, f>>
    BY <2>1
  <2>2. CASE q = <<a>> \o <<b, c, d, e, f>>
    <3> DEFINE x == <<a>>
               y == <<b, c, d, e, f>>
               T == {a, b, c, d, e, f}
    <3>1. x \in Seq(T) /\ y \in Seq(T) /\ Len(x) = 1 /\ Len(y) = 5
      OBVIOUS
    <3>2. x[1] = a /\ y[1] = b /\ y[2] = c /\ y[3] = d /\ y[4] = e /\ y[5] = f
      OBVIOUS
    <3> HIDE DEF x, y, T
    <3>3. q = x \o y
      BY <2>2 DEF x, y
    <3>4. /\ Len(q) = Len(x) + Len(y)
          /\ \A i \in 1..Len(x) : q[i] = x[i]
          /\ \A i \in 1..Len(y) : q[Len(x) + i] = y[i]
      <4>1. /\ Len(x \o y) = Len(x) + Len(y)
            /\ \A i \in 1..Len(x) : (x \o y)[i] = x[i]
            /\ \A i \in 1..Len(y) : (x \o y)[Len(x) + i] = y[i]
        <5>1. x \in Seq(T) /\ y \in Seq(T)
          BY <3>1
        <5> QED
          BY <5>1, ConcatAt
      <4> QED
        BY <3>3, <4>1
    <3>5. Len(q) = 6 /\ \A i \in 1..5 : q[1 + i] = y[i]
      BY <3>1, <3>4
    <3>6. q[1] = x[1] /\ q[2] = y[1] /\ q[3] = y[2] /\ q[4] = y[3] /\ q[5] = y[4] /\ q[6] = y[5]
      <4>1. q[1 + 1] = y[1] /\ q[1 + 2] = y[2] /\ q[1 + 3] = y[3] /\ q[1 + 4] = y[4] /\ q[1 + 5] = y[5]
        BY <3>5
      <4> QED
        BY <3>1, <3>4, <4>1
    <3> QED
      BY <3>2, <3>5, <3>6
  <2> QED
    BY <2>1, <2>2
<1>3. Links(q) = {q[2], q[3], q[4], q[5], q[6]}
  BY <1>1, <1>2 DEF Links
<1>4. Chain(q) = {<<q[1 + 1], q[1]>>, <<q[2 + 1], q[2]>>, <<q[3 + 1], q[3]>>, <<q[4 + 1], q[4]>>,
                  <<q[5 + 1], q[5]>>}
  BY <1>1, <1>2 DEF Chain
<1> QED
  BY <1>2, <1>3, <1>4

\* New steps of VMs, without a new VM
LEMMA ExtendSame ==
  ASSUME GraphInv, pc = "setup", pc' = "setup", NEW G \in SUBSET VMSteps, IsFiniteSet(G),
         \A s \in G : /\ vm[s[2]].kind # None /\ s[2] # vm[Derivative].url
                      /\ s[3] > counter /\ s[3] <= counter' /\ s[1] # "create-vms-n",
         NEW E, steps' = steps \cup G, deps' = deps \cup E, E \subseteq steps' \X steps',
         counter' \in Nat, counter' >= counter, ops' \in Nat,
         UNCHANGED <<vm, instances, instancesBeta, late, zone, suite>>
  PROVE  BuildType' /\ VMInv' /\ CreateInv' /\ Grows
<1>1. \A s \in G : s[2] \in All /\ s[3] \in Nat /\ s \notin steps
  BY DEF GraphInv, BuildType, VMSteps
<1>2. BuildType'
  <2>1. IsFiniteSet(steps')
    BY FS_Union DEF GraphInv, BuildType
  <2>2. \A s \in steps' : s[3] <= counter'
    <3>1. \A s \in steps : s[3] \in Nat
      BY StepForms, GlobalForm DEF GraphInv
    <3> QED
      BY <3>1 DEF GraphInv, BuildType
  <2>3. steps' \subseteq GlobalSteps \cup VMSteps /\ deps' \subseteq steps' \X steps'
    BY DEF GraphInv, BuildType
  <2> QED
    BY <2>1, <2>2, <2>3 DEF GraphInv, BuildType
<1>3. VMInv'
  <2>1. Created' = Created
    BY DEF Created
  <2> QED
    BY <2>1 DEF GraphInv, VMInv, FirstWait, addWaitRebootGAStep, addWaitStep
<1>4. CreateInv'
  <2>1. \A s \in GlobalSteps : s \notin G
    BY <1>1, GlobalForm
  <2> QED
    BY <2>1 DEF GraphInv, CreateInv, createVMs, createNetworks, createSubnets, createDisks, S, GlobalSteps
<1>5. Grows
  BY <1>1 DEF Grows
<1> QED
  BY <1>2, <1>3, <1>4, <1>5

\* What Extend finds
LEMMA ExtendFinds ==
  ASSUME GraphInv, NEW v \in All, vm[v].kind # None, v \notin {vm[Derivative].url}, pc = "setup"
  PROVE  \E last \in WaitsOf(v) :
           /\ last = getLastStepForVM(v) /\ ~HasDependent(last)
           /\ \A x \in WaitsOf(v) : x[3] <= last[3]
           /\ last \in steps /\ last \in VMSteps /\ last = <<last[1], v, last[3]>>
           /\ last[1] \in WaitNames /\ last[3] \in Nat /\ last[3] <= counter
<1>1. /\ getLastStepForVM(v) \in WaitsOf(v) /\ ~HasDependent(getLastStepForVM(v))
      /\ \A x \in WaitsOf(v) : x[3] <= getLastStepForVM(v)[3]
  BY LastStep DEF GraphInv
<1> DEFINE last == getLastStepForVM(v)
<1> HIDE DEF last
<1>2. last \in steps /\ last[2] = v /\ last[1] \in WaitNames
  BY <1>1 DEF last, WaitsOf, WaitNames
<1>3. last \in VMSteps /\ last = <<last[1], last[2], last[3]>> /\ last[3] \in Nat
  BY <1>2, StepForms DEF GraphInv
<1>4. last[3] <= counter
  BY <1>2 DEF GraphInv, BuildType
<1> QED
  BY <1>1, <1>2, <1>3, <1>4 DEF last

\* What the other old steps wait for
LEMMA OldLinks ==
  ASSUME ChainInv, steps \subseteq steps', deps \subseteq deps', NEW v \in All, NEW n \in Nat
  PROVE  /\ <<"wait-stopped", v, n>> \in steps => <<<<"wait-stopped", v, n>>, <<"stop", v, n>>>> \in deps'
         /\ <<"start", v, n>> \in steps =>
              /\ n > 0
              /\ <<<<"start", v, n>>, <<"wait-stopped", v, n>>>> \in deps'
              /\ <<"wait-started", v, n>> \in steps'
         /\ <<"wait-started", v, n>> \in steps => <<<<"wait-started", v, n>>, <<"start", v, n>>>> \in deps'
         /\ <<"detach-disk", v, n>> \in steps =>
              <<<<"detach-disk", v, n>>, <<"wait-stopped", v, n>>>> \in deps'
         /\ <<"wait-suspended", v, n>> \in steps => <<<<"wait-suspended", v, n>>, createVMs>> \in deps'
         /\ <<"resume", v, n>> \in steps => <<<<"resume", v, n>>, <<"wait-suspended", v, n>>>> \in deps'
<1>1. ChainInv!(v)!(n)
  BY DEF ChainInv
<1> QED
  BY <1>1 DEF addWaitStoppedStep, addStopStep, addStartStep, addWaitStep, appendDetachDiskStep

\* A restart, after the resize of a disk or not
LEMMA RestartGraph ==
  ASSUME GraphInv, pc = "setup", pc' = "setup", NEW v \in All, vm[v].kind # None,
         v \notin {vm[Derivative].url}, NEW n \in Nat, NEW pre, NEW R,
         \/ pre = getLastStepForVM(v) /\ R = {} /\ n = counter + 1
         \/ pre = addDiskResizeStep(v, counter + 1) /\ R = {pre} /\ n = counter + 2,
         NEW a, a = addStopStep(v, n), NEW b, b = addWaitStoppedStep(v, n),
         NEW c, c = addStartStep(v, n), NEW d, d = addWaitStep("wait-started", v, n),
         steps' = steps \cup (R \cup {a, b, c, d}),
         deps' = deps \cup ({<<r, getLastStepForVM(v)>> : r \in R}
                              \cup {<<a, pre>>, <<b, a>>, <<c, b>>, <<d, c>>}),
         counter' = n, ops' \in Nat, UNCHANGED <<vm, instances, instancesBeta, late, zone, suite>>
  PROVE  GraphInv'
<1>1. PICK last \in WaitsOf(v) :
           /\ last = getLastStepForVM(v) /\ ~HasDependent(last)
           /\ \A x \in WaitsOf(v) : x[3] <= last[3]
           /\ last \in steps /\ last \in VMSteps /\ last = <<last[1], v, last[3]>>
           /\ last[1] \in WaitNames /\ last[3] \in Nat /\ last[3] <= counter
  BY ExtendFinds
<1> DEFINE G == R \cup {a, b, c, d}
           E == {<<r, last>> : r \in R} \cup {<<a, pre>>, <<b, a>>, <<c, b>>, <<d, c>>}
<1>2. counter \in Nat /\ BuildType /\ VMInv /\ ChainInv /\ WalkInv
  BY DEF GraphInv, BuildType
<1>3. /\ a = <<"stop", v, n>> /\ b = <<"wait-stopped", v, n>> /\ c = <<"start", v, n>>
      /\ d = <<"wait-started", v, n>>
  BY DEF addStopStep, addWaitStoppedStep, addStartStep, addWaitStep
<1>4. n > counter /\ n > 0
  BY <1>2
<1>5. \A r \in R : r = <<"resize-disk", v, counter + 1>> /\ r = pre /\ n = counter + 2
  BY DEF addDiskResizeStep
<1>6. \A s \in G : s \in VMSteps /\ s[2] = v /\ s[3] \in Nat /\ s[3] > counter /\ s[3] <= n
                   /\ s[1] # "create-vms-n" /\ s \notin steps
  <2>1. \A s \in steps : ~(s[3] > counter)
    <3>1. \A s \in steps : s[3] \in Nat
      BY <1>2, StepForms, GlobalForm
    <3> QED
      BY <1>2, <3>1 DEF BuildType
  <2>2. ASSUME NEW s \in {a, b, c, d} PROVE s \in VMSteps /\ s[2] = v /\ s[3] = n /\ s[1] # "create-vms-n"
    BY <1>3 DEF VMSteps, Chained
  <2>3. ASSUME NEW s \in R
        PROVE  s \in VMSteps /\ s[2] = v /\ s[3] = counter + 1 /\ n = counter + 2 /\ s[1] # "create-vms-n"
    BY <1>2, <1>5 DEF VMSteps, Chained
  <2> QED
    BY <1>2, <1>4, <2>1, <2>2, <2>3
<1>7. IsFiniteSet(G)
  <2>1. IsFiniteSet(R)
    BY FS_EmptySet, FS_Singleton
  <2>2. IsFiniteSet(R \cup {a})
    BY <2>1, FS_AddElement
  <2>3. IsFiniteSet((R \cup {a}) \cup {b})
    BY <2>2, FS_AddElement
  <2>4. IsFiniteSet(((R \cup {a}) \cup {b}) \cup {c})
    BY <2>3, FS_AddElement
  <2>5. IsFiniteSet((((R \cup {a}) \cup {b}) \cup {c}) \cup {d})
    BY <2>4, FS_AddElement
  <2>6. G = (((R \cup {a}) \cup {b}) \cup {c}) \cup {d}
    OBVIOUS
  <2> QED
    BY <2>5, <2>6
<1>8. steps' = steps \cup G /\ deps' = deps \cup E
  BY <1>1
<1>9. pre = last \/ pre \in R
  BY <1>1
<1>10. E \subseteq steps' \X steps'
  BY <1>1, <1>8, <1>9
<1>11. BuildType' /\ VMInv' /\ CreateInv' /\ Grows
  <2> HIDE DEF G, E
  <2>1. G \in SUBSET VMSteps
    BY <1>6
  <2>2. \A s \in G : /\ vm[s[2]].kind # None /\ s[2] # vm[Derivative].url
                     /\ s[3] > counter /\ s[3] <= counter' /\ s[1] # "create-vms-n"
    BY <1>6
  <2>3. counter' \in Nat /\ counter' >= counter
    BY <1>2, <1>4
  <2> QED
    BY <1>7, <1>8, <1>10, <2>1, <2>2, <2>3, ExtendSame
<1>12. ChainInv'
  <2> SUFFICES ASSUME NEW u \in All, NEW m \in Nat PROVE ChainInv!(u)!(m)'
    BY DEF ChainInv
  <2>0. steps \subseteq steps' /\ deps \subseteq deps'
    BY <1>8
  <2>1. ASSUME NEW k, <<k, u, m>> \in steps'
        PROVE  <<k, u, m>> \in steps \/ (u = v /\ (\/ m = n /\ k \in {"stop", "wait-stopped", "start", "wait-started"}
                                                   \/ <<k, u, m>> \in R /\ k = "resize-disk" /\ m = counter + 1))
    BY <1>3, <1>5, <1>8, <2>1
  <2>2. \A k \in {"wait", "wait-first-boot"} : <<k, u, m>> \in steps' => FirstChain(u, <<k, u, m>>)'
    BY <1>2, <1>11, <2>1, OldChains
  <2>3. addStopStep(u, m) \in steps' => StopChain(u, m)'
    <3>1. CASE addStopStep(u, m) \in steps
      BY <1>2, <1>11, <3>1, OldChains
    <3>2. CASE addStopStep(u, m) \in steps' /\ addStopStep(u, m) \notin steps
      <4>1. u = v /\ m = n
        BY <2>1, <3>2 DEF addStopStep
      <4>2. LastWait(v, n, last)'
        <5>1. last \in WaitsOf(v)' /\ last[3] < n
          BY <1>1, <1>2, <1>4, <1>8 DEF WaitsOf
        <5>2. ASSUME NEW x \in WaitsOf(v)', x[3] < n PROVE x[3] <= last[3]
          <6>1. x \notin {a, b, c, d}
            BY <1>3, <5>2
          <6>2. x \notin R
            BY <1>5 DEF WaitsOf
          <6>3. x \in WaitsOf(v)
            BY <1>8, <6>1, <6>2 DEF WaitsOf
          <6> QED
            BY <1>1, <6>3
        <5> QED
          BY <5>1, <5>2 DEF LastWait
      <4>3. \/ <<a, last>> \in deps'
            \/ \E r \in steps' : <<a, r>> \in deps' /\ <<r, last>> \in deps'
        BY <1>8, <1>9
      <4>4. c \in steps' /\ last \in steps'
        BY <1>1, <1>8
      <4>5. StopChain(v, n)'
        <5>1. c = addStartStep(v, n)' /\ a = addStopStep(v, n)'
          BY <1>3 DEF addStartStep, addStopStep
        <5> QED
          BY <4>2, <4>3, <4>4, <5>1 DEF StopChain
      <4> QED
        BY <4>1, <4>5
    <3> QED
      BY <3>1, <3>2
  <2>4. addDiskResizeStep(u, m) \in steps' => ResizeChain(u, m)'
    <3>1. CASE addDiskResizeStep(u, m) \in steps
      BY <1>2, <1>11, <3>1, OldChains
    <3>2. CASE addDiskResizeStep(u, m) \in R
      <4>1. <<addDiskResizeStep(u, m), last>> \in deps' /\ u = v
        BY <1>5, <1>8, <3>2 DEF addDiskResizeStep
      <4>2. last \in WaitsOf(v)'
        BY <1>1, <1>8 DEF WaitsOf
      <4> QED
        BY <4>1, <4>2 DEF ResizeChain, addDiskResizeStep
    <3> QED
      BY <2>1, <3>1, <3>2 DEF addDiskResizeStep
  <2>5. addNewVMStep(u, m) \in steps' => DeriveChain(u, m)'
    BY <1>2, <1>11, <2>1, OldChains DEF addNewVMStep
  <2>6. <<"wait-stopped", u, m>> \in steps' => <<<<"wait-stopped", u, m>>, <<"stop", u, m>>>> \in deps'
    <3>1. CASE <<"wait-stopped", u, m>> \in steps
      BY <1>2, <2>0, <3>1, OldLinks
    <3>2. CASE <<"wait-stopped", u, m>> \in steps' /\ <<"wait-stopped", u, m>> \notin steps
      BY <1>3, <1>8, <2>1, <3>2
    <3> QED
      BY <3>1, <3>2
  <2>7. <<"start", u, m>> \in steps' =>
         /\ m > 0
         /\ <<<<"start", u, m>>, <<"wait-stopped", u, m>>>> \in deps'
         /\ <<"wait-started", u, m>> \in steps'
    <3>1. CASE <<"start", u, m>> \in steps
      BY <1>2, <2>0, <3>1, OldLinks
    <3>2. CASE <<"start", u, m>> \in steps' /\ <<"start", u, m>> \notin steps
      BY <1>3, <1>4, <1>8, <2>1, <3>2
    <3> QED
      BY <3>1, <3>2
  <2>8. <<"wait-started", u, m>> \in steps' => <<<<"wait-started", u, m>>, <<"start", u, m>>>> \in deps'
    <3>1. CASE <<"wait-started", u, m>> \in steps
      BY <1>2, <2>0, <3>1, OldLinks
    <3>2. CASE <<"wait-started", u, m>> \in steps' /\ <<"wait-started", u, m>> \notin steps
      BY <1>3, <1>8, <2>1, <3>2
    <3> QED
      BY <3>1, <3>2
  <2>12. \A k \in {"detach-disk", "wait-suspended", "resume"} : <<k, u, m>> \in steps' => <<k, u, m>> \in steps
    BY <2>1
  <2>9. <<"detach-disk", u, m>> \in steps' => <<<<"detach-disk", u, m>>, <<"wait-stopped", u, m>>>> \in deps'
    BY <1>2, <2>0, <2>12, OldLinks
  <2>10. <<"wait-suspended", u, m>> \in steps' => <<<<"wait-suspended", u, m>>, createVMs>> \in deps'
    BY <1>2, <2>0, <2>12, OldLinks
  <2>11. <<"resume", u, m>> \in steps' => <<<<"resume", u, m>>, <<"wait-suspended", u, m>>>> \in deps'
    BY <1>2, <2>0, <2>12, OldLinks
  <2> QED
    BY <2>2, <2>3, <2>4, <2>5, <2>6, <2>7, <2>8, <2>9, <2>10, <2>11
       DEF addStopStep, addDiskResizeStep, addNewVMStep, addWaitStoppedStep, addStartStep, addWaitStep,
           appendDetachDiskStep, createVMs, S
<1>13. WalkInv'
  <2>1. /\ last # a /\ last # b /\ last # c /\ last # d /\ last \notin R
        /\ pre # a /\ pre # b /\ pre # c /\ pre # d
    BY <1>1, <1>3, <1>6, <1>9, <1>5
  <2>2. a # b /\ a # c /\ a # d /\ b # c /\ b # d /\ c # d
    BY <1>3
  <2>3. \A e \in E : e[1] \in G /\ (e[2] = last \/ e[2] \in G)
    BY <1>9
  <2>4. \A e, g \in E : e[2] = g[2] => e[1] = g[1]
    <3>1. \A e \in E : \/ e = <<d, c>> \/ e = <<c, b>> \/ e = <<b, a>> \/ e = <<a, pre>>
                       \/ R # {} /\ e = <<pre, last>> /\ pre # last
      BY <1>5, <2>1
    <3> HIDE DEF E, G
    <3> QED
      BY <2>1, <2>2, <3>1
  <2>5. ASSUME NEW e \in E
        PROVE  e[1][2] = e[2][2] /\ e[1][1] \in Chained /\ Rank(e[1]) > Rank(e[2])
    <3>1. /\ Stage["stop"] = 1 /\ Stage["wait-stopped"] = 2 /\ Stage["start"] = 3
          /\ Stage["wait-started"] = 4 /\ Stage["resize-disk"] = 0
          /\ Stage[last[1]] \in {0, 4}
      BY <1>1 DEF Stage, Chained, WaitNames
    <3>2. /\ Rank(a) = 5 * n + 1 /\ Rank(b) = 5 * n + 2 /\ Rank(c) = 5 * n + 3 /\ Rank(d) = 5 * n + 4
          /\ Rank(last) = 5 * last[3] + Stage[last[1]]
          /\ \A r \in R : Rank(r) = 5 * (counter + 1) + 0
      BY <1>3, <1>5, <3>1 DEF Rank
    <3>3. Rank(last) < 5 * (counter + 1) /\ Rank(last) < 5 * n + 1
      BY <1>1, <1>2, <1>4, <3>1, <3>2
    <3>4. /\ a[2] = v /\ b[2] = v /\ c[2] = v /\ d[2] = v /\ last[2] = v
          /\ a[1] \in Chained /\ b[1] \in Chained /\ c[1] \in Chained /\ d[1] \in Chained
          /\ \A r \in R : r[2] = v /\ r[1] \in Chained
      BY <1>1, <1>3, <1>5 DEF Chained
    <3>5. CASE e = <<a, pre>>
      <4>1. CASE pre = last
        BY <1>4, <3>2, <3>3, <3>4, <3>5, <4>1
      <4>2. CASE pre \in R
        <5>1. Rank(pre) = 5 * (counter + 1) + 0 /\ n = counter + 2
          BY <1>5, <3>2, <4>2
        <5> QED
          BY <1>2, <3>2, <3>4, <3>5, <4>2, <5>1
      <4> QED
        BY <1>9, <4>1, <4>2
    <3>6. CASE e \in {<<b, a>>, <<c, b>>, <<d, c>>}
      BY <3>2, <3>4, <3>6
    <3>7. ASSUME NEW r \in R, e = <<r, last>> PROVE Rank(e[1]) > Rank(e[2])
      BY <1>2, <3>2, <3>3, <3>7
    <3>8. ASSUME NEW r \in R, e = <<r, last>> PROVE e[1][2] = e[2][2] /\ e[1][1] \in Chained
      BY <3>4, <3>8
    <3> QED
      BY <3>5, <3>6, <3>7, <3>8
  <2>6. \A s \in G : s[1] \in MidNames => \E e \in E : e[2] = s
    <3>1. d[1] \notin MidNames
      BY <1>3 DEF MidNames
    <3>2. \A r \in R : <<a, r>> \in E
      BY <1>5
    <3>3. <<b, a>> \in E /\ <<c, b>> \in E /\ <<d, c>> \in E
      OBVIOUS
    <3> HIDE DEF E
    <3> QED
      BY <3>1, <3>2, <3>3
  <2>7. \E e \in E : e[2] = last
    <3>1. CASE pre = last
      <4>1. <<a, last>> \in E
        BY <3>1
      <4> HIDE DEF E
      <4> QED
        BY <4>1
    <3>2. CASE pre \in R
      <4>1. <<pre, last>> \in E
        BY <3>2
      <4> HIDE DEF E
      <4> QED
        BY <4>1
    <3> QED
      BY <1>9, <3>1, <3>2
  <2>8. \A s \in G : s[1] \in WaitNames => s = d
    BY <1>3, <1>5 DEF WaitNames
  <2> HIDE DEF G, E
  <2>9. \A s \in G : s[1] \in WaitNames =>
           /\ \/ s[2] = v /\ s[3] > counter /\ \E e \in E : e[2] = last
              \/ vm[s[2]].kind = None
           /\ \A t \in G : t[1] \in WaitNames /\ t[2] = s[2] => t = s
    BY <1>6, <2>7, <2>8
  <2>10. \A e \in E : e[2] \in GlobalSteps \/ (e[1][2] \in All /\ (e[2] = last \/ e[2] \in G))
    BY <1>6, <2>3
  <2>11. \A s \in G : s[2] \in All /\ s[3] \in Nat /\ s \notin steps
    BY <1>6
  <2>12. vm'[Derivative].url = vm[Derivative].url \/ vm[Derivative].url = None
    OBVIOUS
  <2>13. \A e, g \in E : e[2] = g[2] /\ e[2][2] \in All => e[1] = g[1]
    BY <2>4
  <2>14. \A e \in E : e[2][2] \in All /\ e[2][1] \in Chained /\ e[2][2] # vm'[Derivative].url =>
           e[1][2] = e[2][2] /\ e[1][1] \in Chained /\ Rank(e[1]) > Rank(e[2])
    BY <2>5
  <2>15. ~HasDependent(last) /\ \A x \in WaitsOf(v) : x[3] <= last[3]
    BY <1>1
  <2>16. Extension(v, last, G, E)
    BY <1>8, <2>6, <2>9, <2>10, <2>11, <2>12, <2>13, <2>14 DEF Extension
  <2> QED
    BY <1>2, <2>15, <2>16, ExtendWalk
<1> QED
  BY <1>11, <1>12, <1>13 DEF GraphInv

\* A reboot
LEMMA RebootGraph ==
  ASSUME GraphInv, NEW v \in All, Reboot(v)
  PROVE  GraphInv'
<1> DEFINE n == counter + 1
           last == getLastStepForVM(v)
           a == addStopStep(v, n)
           b == addWaitStoppedStep(v, n)
           c == addStartStep(v, n)
           d == addWaitStep("wait-started", v, n)
           R == {}
<1>1. /\ pc = "setup" /\ pc' = "setup" /\ vm[v].kind # None /\ v \notin {vm[Derivative].url}
      /\ counter' = n /\ ops' = ops - 1 /\ ops > 0
      /\ UNCHANGED <<vm, instances, instancesBeta, late, zone, suite>>
  BY DEF Reboot, Extend, Call
<1>2. ops' \in Nat /\ n \in Nat
  BY <1>1 DEF GraphInv, BuildType
<1>3. steps' = steps \cup Links(<<last, a, b, c, d>>) /\ deps' = deps \cup Chain(<<last, a, b, c, d>>)
  BY DEF Reboot, Extend, Add, Restart
<1> HIDE DEF last, a, b, c, d
<1>4. steps' = steps \cup {a, b, c, d} /\ deps' = deps \cup {<<a, last>>, <<b, a>>, <<c, b>>, <<d, c>>}
  BY <1>3, ChainOfFive
<1>5. /\ steps' = steps \cup (R \cup {a, b, c, d})
      /\ deps' = deps \cup ({<<r, getLastStepForVM(v)>> : r \in R}
                              \cup {<<a, last>>, <<b, a>>, <<c, b>>, <<d, c>>})
  BY <1>4
<1>6. /\ last = getLastStepForVM(v) /\ R = {} /\ n = counter + 1
      /\ a = addStopStep(v, n) /\ b = addWaitStoppedStep(v, n) /\ c = addStartStep(v, n)
      /\ d = addWaitStep("wait-started", v, n)
  BY DEF last, a, b, c, d
<1> HIDE DEF R, n
<1> QED
  BY <1>1, <1>2, <1>5, <1>6, RestartGraph

\* A resize of the disk with a reboot
LEMMA ResizeGraph ==
  ASSUME GraphInv, NEW v \in All, ResizeDiskAndReboot(v)
  PROVE  GraphInv'
<1> DEFINE n == counter + 2
           last == getLastStepForVM(v)
           pre == addDiskResizeStep(v, counter + 1)
           a == addStopStep(v, n)
           b == addWaitStoppedStep(v, n)
           c == addStartStep(v, n)
           d == addWaitStep("wait-started", v, n)
           R == {pre}
<1>1. /\ pc = "setup" /\ pc' = "setup" /\ vm[v].kind # None /\ v \notin {vm[Derivative].url}
      /\ counter' = n /\ ops' = ops - 1 /\ ops > 0
      /\ UNCHANGED <<vm, instances, instancesBeta, late, zone, suite>>
  BY DEF ResizeDiskAndReboot, Extend, Call
<1>2. ops' \in Nat /\ n \in Nat
  BY <1>1 DEF GraphInv, BuildType
<1>3. /\ steps' = steps \cup Links(<<last>> \o <<pre, a, b, c, d>>)
      /\ deps' = deps \cup Chain(<<last>> \o <<pre, a, b, c, d>>)
  BY DEF ResizeDiskAndReboot, Extend, Add, Restart
<1> HIDE DEF last, a, b, c, d, pre
<1>4. /\ steps' = steps \cup {pre, a, b, c, d}
      /\ deps' = deps \cup {<<pre, last>>, <<a, pre>>, <<b, a>>, <<c, b>>, <<d, c>>}
  <2> DEFINE q == <<last>> \o <<pre, a, b, c, d>>
  <2> HIDE DEF q
  <2>1. Links(q) = {pre, a, b, c, d} /\ Chain(q) = {<<pre, last>>, <<a, pre>>, <<b, a>>, <<c, b>>, <<d, c>>}
    <3>1. q \in {<<last, pre, a, b, c, d>>, <<last>> \o <<pre, a, b, c, d>>}
      BY DEF q
    <3>2. \A p \in {<<last, pre, a, b, c, d>>, <<last>> \o <<pre, a, b, c, d>>} :
           /\ Links(p) = {pre, a, b, c, d}
           /\ Chain(p) = {<<pre, last>>, <<a, pre>>, <<b, a>>, <<c, b>>, <<d, c>>}
      BY ChainOfSix
    <3> QED
      BY <3>1, <3>2
  <2> QED
    BY <1>3, <2>1 DEF q
<1>6. /\ last = getLastStepForVM(v) /\ R = {pre} /\ n = counter + 2 /\ pre = addDiskResizeStep(v, counter + 1)
      /\ a = addStopStep(v, n) /\ b = addWaitStoppedStep(v, n) /\ c = addStartStep(v, n)
      /\ d = addWaitStep("wait-started", v, n)
  BY DEF last, a, b, c, d, pre
<1>5. /\ steps' = steps \cup (R \cup {a, b, c, d})
      /\ deps' = deps \cup ({<<r, getLastStepForVM(v)>> : r \in R}
                              \cup {<<a, pre>>, <<b, a>>, <<c, b>>, <<d, c>>})
  BY <1>4, <1>6
<1> HIDE DEF R, n
<1> QED
  BY <1>1, <1>2, <1>5, <1>6, RestartGraph

\* The resume of a VM that its test suspends
LEMMA ResumeGraph ==
  ASSUME GraphInv, NEW v \in All, Resume(v)
  PROVE  GraphInv'
<1> DEFINE n == counter + 1
           a == <<"wait-suspended", v, n>>
           b == <<"resume", v, n>>
<1>1. /\ pc = "setup" /\ pc' = "setup" /\ vm[v].kind # None /\ v \notin {vm[Derivative].url}
      /\ counter' = n /\ ops' = ops - 1 /\ ops > 0
      /\ UNCHANGED <<vm, instances, instancesBeta, late, zone, suite>>
  BY DEF Resume, Extend, Call
<1>2. ops' \in Nat /\ n \in Nat /\ counter \in Nat /\ n = counter + 1
  BY <1>1 DEF GraphInv, BuildType
<1>3. PICK last \in WaitsOf(v) :
           /\ last = getLastStepForVM(v) /\ ~HasDependent(last)
           /\ \A x \in WaitsOf(v) : x[3] <= last[3]
           /\ last \in steps /\ last \in VMSteps /\ last = <<last[1], v, last[3]>>
           /\ last[1] \in WaitNames /\ last[3] \in Nat /\ last[3] <= counter
  BY <1>1, ExtendFinds
<1>4. /\ steps' = steps \cup Links(<<createVMs, a, b, last>>)
      /\ deps' = deps \cup Chain(<<createVMs, a, b, last>>)
  BY <1>3 DEF Resume, Extend, Add
<1>5. a = <<"wait-suspended", v, n>> /\ b = <<"resume", v, n>>
  OBVIOUS
<1> HIDE DEF a, b, n
<1> DEFINE G == {a, b}
           E == {<<a, createVMs>>, <<b, a>>, <<last, b>>}
<1>6. steps' = steps \cup G /\ deps' = deps \cup E
  BY <1>3, <1>4, ChainOfFour
<1>7. BuildType /\ VMInv /\ ChainInv /\ WalkInv
  BY DEF GraphInv
<1>8. \A s \in G : /\ s \in VMSteps /\ s[2] = v /\ s[3] = n /\ s \notin steps
                   /\ s[1] \in {"wait-suspended", "resume"}
  <2>1. \A s \in steps : s[3] # n
    BY <1>2, <1>7 DEF BuildType
  <2> QED
    BY <1>2, <1>5, <2>1 DEF VMSteps
<1>9. createVMs \in steps /\ createVMs \in GlobalSteps
  BY <1>1, <1>7 DEF VMInv, GlobalSteps
<1>10. E \subseteq steps' \X steps'
  BY <1>3, <1>6, <1>9
<1>11. IsFiniteSet(G)
  <2>1. IsFiniteSet({a} \cup {b})
    BY FS_Singleton, FS_AddElement
  <2>2. G = {a} \cup {b}
    OBVIOUS
  <2> QED
    BY <2>1, <2>2
<1>12. BuildType' /\ VMInv' /\ CreateInv' /\ Grows
  <2> HIDE DEF G, E
  <2>1. G \in SUBSET VMSteps
    BY <1>8
  <2>2. \A s \in G : /\ vm[s[2]].kind # None /\ s[2] # vm[Derivative].url
                     /\ s[3] > counter /\ s[3] <= counter' /\ s[1] # "create-vms-n"
    BY <1>1, <1>2, <1>8
  <2>3. counter' \in Nat /\ counter' >= counter
    BY <1>1, <1>2
  <2> QED
    BY <1>1, <1>2, <1>6, <1>10, <1>11, <2>1, <2>2, <2>3, ExtendSame
<1>13. ChainInv'
  <2> SUFFICES ASSUME NEW u \in All, NEW m \in Nat PROVE ChainInv!(u)!(m)'
    BY DEF ChainInv
  <2>1. steps \subseteq steps' /\ deps \subseteq deps'
    BY <1>6
  <2>2. ASSUME NEW k, <<k, u, m>> \in steps', k \notin {"wait-suspended", "resume"}
        PROVE  <<k, u, m>> \in steps
    BY <1>5, <1>6, <2>2
  <2>3. /\ \A k \in {"wait", "wait-first-boot"} : <<k, u, m>> \in steps' => FirstChain(u, <<k, u, m>>)'
        /\ addStopStep(u, m) \in steps' => StopChain(u, m)'
        /\ addDiskResizeStep(u, m) \in steps' => ResizeChain(u, m)'
        /\ addNewVMStep(u, m) \in steps' => DeriveChain(u, m)'
    BY <1>7, <1>12, <2>2, OldChains DEF addStopStep, addDiskResizeStep, addNewVMStep
  <2>4. \A k \in {"wait-stopped", "start", "wait-started", "detach-disk"} :
          <<k, u, m>> \in steps' => <<k, u, m>> \in steps
    BY <2>2
  <2>5. <<"wait-suspended", u, m>> \in steps' => <<<<"wait-suspended", u, m>>, createVMs>> \in deps'
    <3>1. CASE <<"wait-suspended", u, m>> \in steps
      BY <1>7, <2>1, <3>1, OldLinks
    <3>2. CASE <<"wait-suspended", u, m>> = a
      BY <1>6, <3>2
    <3> QED
      BY <1>5, <1>6, <3>1, <3>2
  <2>6. <<"resume", u, m>> \in steps' => <<<<"resume", u, m>>, <<"wait-suspended", u, m>>>> \in deps'
    <3>1. CASE <<"resume", u, m>> \in steps
      BY <1>7, <2>1, <3>1, OldLinks
    <3>2. CASE <<"resume", u, m>> = b
      <4>1. u = v /\ m = n
        BY <1>5, <3>2
      <4> QED
        BY <1>5, <1>6, <3>2, <4>1
    <3> QED
      BY <1>5, <1>6, <3>1, <3>2
  <2>7. /\ <<"wait-stopped", u, m>> \in steps' => <<<<"wait-stopped", u, m>>, <<"stop", u, m>>>> \in deps'
        /\ <<"start", u, m>> \in steps' =>
              /\ m > 0
              /\ <<<<"start", u, m>>, <<"wait-stopped", u, m>>>> \in deps'
              /\ <<"wait-started", u, m>> \in steps'
        /\ <<"wait-started", u, m>> \in steps' => <<<<"wait-started", u, m>>, <<"start", u, m>>>> \in deps'
        /\ <<"detach-disk", u, m>> \in steps' =>
              <<<<"detach-disk", u, m>>, <<"wait-stopped", u, m>>>> \in deps'
    BY <1>7, <2>1, <2>4, OldLinks
  <2> QED
    BY <2>3, <2>5, <2>6, <2>7
       DEF addStopStep, addDiskResizeStep, addNewVMStep, addWaitStoppedStep, addStartStep, addWaitStep,
           appendDetachDiskStep, createVMs, S
<1>14. WalkInv'
  <2>1. Extension(v, last, G, E)
    <3>1. \A e \in E : e = <<a, createVMs>> \/ e = <<b, a>> \/ e = <<last, b>>
      OBVIOUS
    <3>2. a # b /\ a # createVMs /\ b # createVMs /\ a[1] \notin Chained /\ b[1] \notin Chained
          /\ a[2] = v /\ b[2] = v
      BY <1>5 DEF createVMs, S, Chained
    <3>3. \A s \in G : s[1] \notin MidNames /\ s[1] \notin WaitNames
      BY <1>8 DEF MidNames, WaitNames
    <3>4. createVMs[2] \notin All
      BY <1>9, GlobalForm
    <3>5. a \in G /\ b \in G
      OBVIOUS
    <3>6. \A s \in G : s[2] \in All /\ s[3] \in Nat /\ s \notin steps
      BY <1>2, <1>8
    <3> HIDE DEF G, E
    <3>7. \A e \in E : e[2] \in GlobalSteps \/ (e[1][2] \in All /\ (e[2] = last \/ e[2] \in G))
      BY <1>3, <1>9, <3>1, <3>2, <3>5
    <3>8. \A d, e \in E : d[2] = e[2] /\ d[2][2] \in All => d[1] = e[1]
      BY <3>1, <3>2
    <3>9. \A e \in E : e[2][2] \in All => ~(e[2][1] \in Chained)
      BY <3>1, <3>2, <3>4
    <3>10. vm'[Derivative].url = vm[Derivative].url
      BY <1>1
    <3> QED
      BY <1>6, <3>3, <3>6, <3>7, <3>8, <3>9, <3>10 DEF Extension
  <2> HIDE DEF G, E
  <2> QED
    BY <1>1, <1>3, <1>7, <2>1, ExtendWalk
<1> QED
  BY <1>12, <1>13, <1>14 DEF GraphInv

\* The derivative VM: its source stops for good, gives its disk away, and is not used again
LEMMA DerivativeGraph ==
  ASSUME GraphInv, NEW v \in suite.vms, CreateDerivativeVM(v)
  PROVE  GraphInv'
<1>n. PICK n : n = counter + 1
  OBVIOUS
<1> DEFINE D == Derivative
           a == addStopStep(v, n)
           b == addWaitStoppedStep(v, n)
           c == appendDetachDiskStep(v, n)
           d == addNewVMStep(D, n)
           w == addWaitStep("wait", D, 0)
<1>0. v \in VMs /\ v \in All /\ D \in All /\ v # D
  BY WorkflowAssumption DEF GraphInv, BuildType, All
<1>1. /\ pc = "setup" /\ pc' = "setup" /\ vm[v].kind # None /\ v \notin {vm[D].url} /\ vm[D].kind = None
      /\ counter' = n /\ ops' = ops - 1 /\ ops > 0 /\ suite' = suite
      /\ vm' = [vm EXCEPT ![D].kind = "plain", ![D].url = vm[v].url]
      /\ UNCHANGED <<instances, instancesBeta, late, zone>>
  BY <1>n DEF CreateDerivativeVM, Extend, Call
<1>2. ops' \in Nat /\ n \in Nat /\ counter \in Nat /\ n = counter + 1
  BY <1>n, <1>1 DEF GraphInv, BuildType
<1>3. PICK last \in WaitsOf(v) :
           /\ last = getLastStepForVM(v) /\ ~HasDependent(last)
           /\ \A x \in WaitsOf(v) : x[3] <= last[3]
           /\ last \in steps /\ last \in VMSteps /\ last = <<last[1], v, last[3]>>
           /\ last[1] \in WaitNames /\ last[3] \in Nat /\ last[3] <= counter
  BY <1>0, <1>1, ExtendFinds
<1>4. /\ steps' = steps \cup Links(<<last, a, b, c, d, w>>)
      /\ deps' = deps \cup Chain(<<last, a, b, c, d, w>>)
  BY <1>n, <1>3 DEF CreateDerivativeVM, Extend, Add
<1>5. /\ a = <<"stop", v, n>> /\ b = <<"wait-stopped", v, n>> /\ c = <<"detach-disk", v, n>>
      /\ d = <<"create-vms-n", D, n>> /\ w = <<"wait", D, 0>>
  BY DEF addStopStep, addWaitStoppedStep, appendDetachDiskStep, addNewVMStep, addWaitStep
<1> HIDE DEF a, b, c, d, w
<1> DEFINE G == {a, b, c, d, w}
           E == {<<a, last>>, <<b, a>>, <<c, b>>, <<d, c>>, <<w, d>>}
<1>6. steps' = steps \cup G /\ deps' = deps \cup E
  <2>1. \A q \in {<<last, a, b, c, d, w>>, <<last>> \o <<a, b, c, d, w>>} :
           Links(q) = {a, b, c, d, w} /\ Chain(q) = {<<a, last>>, <<b, a>>, <<c, b>>, <<d, c>>, <<w, d>>}
    BY ChainOfSix
  <2>2. /\ Links(<<last, a, b, c, d, w>>) = {a, b, c, d, w}
        /\ Chain(<<last, a, b, c, d, w>>) = {<<a, last>>, <<b, a>>, <<c, b>>, <<d, c>>, <<w, d>>}
    <3> DEFINE q == <<last, a, b, c, d, w>>
    <3>1. q \in {<<last, a, b, c, d, w>>, <<last>> \o <<a, b, c, d, w>>}
      OBVIOUS
    <3> HIDE DEF q
    <3>2. Links(q) = {a, b, c, d, w} /\ Chain(q) = {<<a, last>>, <<b, a>>, <<c, b>>, <<d, c>>, <<w, d>>}
      BY <2>1, <3>1
    <3> QED
      BY <3>2 DEF q
  <2> QED
    BY <1>4, <2>2
<1>7. BuildType /\ VMInv /\ ChainInv /\ WalkInv /\ CreateInv
  BY DEF GraphInv
<1>8. vm[v].url = v /\ vm[D].url = None
  BY <1>0, <1>1, <1>7 DEF VMInv
<1>9. /\ \A u \in All \ {D} : vm'[u] = vm[u]
      /\ vm'[D].kind = "plain" /\ vm'[D].url = v /\ vm'[D].uses = vm[D].uses
      /\ vm' \in [All -> VMSet]
  <2> DEFINE x == [vm[D] EXCEPT !.kind = "plain", !.url = v]
  <2>1. vm \in [All -> VMSet] /\ vm[D] \in VMSet /\ "plain" \in VMKinds
    BY <1>0, <1>7 DEF BuildType, VMKinds
  <2>2. x \in VMSet /\ x.kind = "plain" /\ x.url = v /\ x.uses = vm[D].uses
    BY <1>0, <2>1 DEF VMSet
  <2>3. vm' = [vm EXCEPT ![D] = x]
    BY <1>1, <1>8
  <2> HIDE DEF x
  <2> QED
    BY <1>0, <2>1, <2>2, <2>3
<1>10. \A s \in steps : s[2] # D /\ s[3] \in Nat /\ s[3] <= counter
  <2>1. \A s \in steps : s[3] \in Nat
    BY <1>7, StepForms, GlobalForm
  <2> QED
    BY <1>0, <1>1, <1>7, <2>1 DEF VMInv, BuildType
<1>11. \A s \in G : /\ s \in VMSteps /\ s[2] \in All /\ s[3] \in Nat /\ s[3] <= n /\ s \notin steps
                    /\ s[2] = D \/ (s[2] = v /\ s[3] = n)
  <2>1. \A s \in G : s \in VMSteps /\ s[2] \in All /\ s[3] \in Nat /\ s[3] <= n
                     /\ (s[2] = D \/ (s[2] = v /\ s[3] = n))
    BY <1>0, <1>2, <1>5 DEF VMSteps, Chained
  <2> HIDE DEF G
  <2> QED
    BY <1>2, <1>10, <2>1
<1>12. BuildType'
  <2>1. IsFiniteSet(steps')
    <3>1. IsFiniteSet({a} \cup {b})
      BY FS_Singleton, FS_AddElement
    <3>2. IsFiniteSet(({a} \cup {b}) \cup {c})
      BY <3>1, FS_AddElement
    <3>3. IsFiniteSet((({a} \cup {b}) \cup {c}) \cup {d})
      BY <3>2, FS_AddElement
    <3>4. IsFiniteSet(((({a} \cup {b}) \cup {c}) \cup {d}) \cup {w})
      BY <3>3, FS_AddElement
    <3>5. G = ((({a} \cup {b}) \cup {c}) \cup {d}) \cup {w}
      OBVIOUS
    <3>6. IsFiniteSet(G)
      BY <3>4, <3>5
    <3> HIDE DEF G
    <3> QED
      BY <1>6, <1>7, <3>6, FS_Union DEF BuildType
  <2>2. E \subseteq steps' \X steps'
    BY <1>3, <1>6
  <2> HIDE DEF G, E
  <2>3. \A s \in steps' : s[3] <= counter'
    BY <1>1, <1>2, <1>6, <1>10, <1>11
  <2>4. steps' \subseteq GlobalSteps \cup VMSteps /\ deps' \subseteq steps' \X steps'
    BY <1>6, <1>7, <1>11, <2>2 DEF BuildType
  <2> QED
    BY <1>1, <1>2, <1>7, <1>9, <2>1, <2>3, <2>4 DEF BuildType
<1>13. w \in steps' /\ \A s \in steps' : s \in steps \/ s \in G
  BY <1>6
<1> HIDE DEF G
<1>14. VMInv'
  <2>1. Created' = Created
    BY <1>1 DEF Created
  <2>2. \A u \in All : vm'[u].kind = None <=> vm'[u].url = None
    BY <1>0, <1>7, <1>9, WorkflowAssumption DEF VMInv, None
  <2>3. \A u \in VMs : vm'[u].url \in {None, u} /\ (vm'[u].kind # None <=> u \in Created')
    BY <1>7, <1>9, <2>1, WorkflowAssumption DEF VMInv, All
  <2>4. vm'[D].kind # None => vm'[D].kind = "plain" /\ vm'[vm'[D].url].kind # None
    BY <1>0, <1>1, <1>9
  <2>5. \A s \in steps' : s[2] \in All => vm'[s[2]].kind # None
    BY <1>0, <1>1, <1>7, <1>9, <1>11, <1>13 DEF VMInv, None
  <2>6. \A u \in All : vm'[u].kind # None => FirstWait(u, vm'[u].kind) \in steps' /\ createVMs \in steps'
    <3>1. FirstWait(D, vm'[D].kind) = w
      BY <1>5, <1>9 DEF FirstWait, addWaitStep
    <3>2. createVMs \in steps'
      BY <1>0, <1>1, <1>6, <1>7 DEF VMInv
    <3> QED
      BY <1>6, <1>7, <1>9, <1>13, <3>1, <3>2 DEF VMInv
  <2>7. \A u \in All : vm'[u].uses \subseteq steps'
    BY <1>0, <1>6, <1>7, <1>9 DEF VMInv
  <2> QED
    BY <2>2, <2>3, <2>4, <2>5, <2>6, <2>7
       DEF VMInv, FirstWait, addWaitRebootGAStep, addWaitStep, createVMs, S
<1>15. CreateInv'
  <2>1. \A s \in GlobalSteps : s \notin G
    BY <1>11, GlobalForm
  <2>2. deps \subseteq deps' /\ createVMs \in GlobalSteps /\ createNetworks \in GlobalSteps
        /\ createSubnets \in GlobalSteps
    BY <1>6 DEF GlobalSteps
  <2> QED
    BY <1>1, <1>6, <1>7, <2>1, <2>2 DEF CreateInv, createVMs, createNetworks, createSubnets, createDisks, S
<1>16. Grows
  <2>1. \A s \in steps' \ steps : s \in G
    BY <1>13
  <2>2. steps \subseteq steps' /\ deps \subseteq deps'
    BY <1>6
  <2>3. \A u \in All : vm[u].kind # None => vm'[u].kind = vm[u].kind /\ vm'[u].url = vm[u].url
    BY <1>1, <1>9
  <2>4. \A s \in G : s[3] \in Nat /\ (vm[s[2]].kind = None \/ (s[3] > counter /\ s[2] # vm[D].url))
    BY <1>1, <1>2, <1>11
  <2> QED
    BY <1>1, <2>1, <2>2, <2>3, <2>4 DEF Grows
<1>17. ChainInv'
  <2> SUFFICES ASSUME NEW u \in All, NEW m \in Nat PROVE ChainInv!(u)!(m)'
    BY DEF ChainInv
  <2>1. steps \subseteq steps' /\ deps \subseteq deps'
    BY <1>6
  <2>2. ASSUME NEW k, <<k, u, m>> \in steps', <<k, u, m>> \notin steps
        PROVE  \/ u = v /\ m = n /\ k \in {"stop", "wait-stopped", "detach-disk"}
               \/ u = D /\ k = "create-vms-n" /\ m = n
               \/ u = D /\ k = "wait" /\ m = 0
    BY <1>5, <1>6, <2>2 DEF G
  <2>3. \A k \in {"wait", "wait-first-boot"} : <<k, u, m>> \in steps' => FirstChain(u, <<k, u, m>>)'
    <3> SUFFICES ASSUME NEW k \in {"wait", "wait-first-boot"}, <<k, u, m>> \in steps'
                 PROVE  FirstChain(u, <<k, u, m>>)'
      OBVIOUS
    <3>1. CASE <<k, u, m>> \in steps
      BY <1>7, <1>16, <3>1, OldChains
    <3>2. CASE <<k, u, m>> \notin steps
      <4>1. u = D /\ k = "wait" /\ m = 0
        BY <2>2, <3>2
      <4>2. <<w, d>> \in deps' /\ w = <<k, u, m>> /\ d = addNewVMStep(D, n)
        BY <1>5, <1>6, <4>1 DEF addNewVMStep
      <4>3. w = FirstWait(D, vm'[D].kind)
        BY <1>5, <1>9 DEF FirstWait, addWaitStep
      <4> QED
        BY <1>2, <4>1, <4>2, <4>3
           DEF FirstChain, FirstWait, addWaitRebootGAStep, addWaitStep, addNewVMStep, createVMs, S
    <3> QED
      BY <3>1, <3>2
  <2>4. addStopStep(u, m) \in steps' => StopChain(u, m)'
    <3>1. CASE addStopStep(u, m) \in steps
      BY <1>7, <1>16, <3>1, OldChains
    <3>2. CASE addStopStep(u, m) \in steps' /\ addStopStep(u, m) \notin steps
      <4>1. u = v /\ m = n
        BY <2>2, <3>2 DEF addStopStep
      <4>2. LastWait(v, n, last)'
        <5>1. last \in WaitsOf(v)' /\ last[3] < n
          BY <1>2, <1>3, <1>6 DEF WaitsOf
        <5>2. ASSUME NEW x \in WaitsOf(v)', x[3] < n PROVE x[3] <= last[3]
          <6>1. x \notin G
            BY <1>0, <1>2, <1>11, <5>2 DEF WaitsOf
          <6>2. x \in WaitsOf(v)
            BY <1>6, <6>1 DEF WaitsOf
          <6> QED
            BY <1>3, <6>2
        <5> QED
          BY <5>1, <5>2 DEF LastWait
      <4>3. <<a, last>> \in deps' /\ d \in steps' /\ last \in steps'
        BY <1>3, <1>6 DEF G
      <4>4. StopChain(v, n)'
        <5>1. a = addStopStep(v, n)' /\ d = addNewVMStep(D, n)'
          BY <1>5 DEF addNewVMStep, addStopStep
        <5> QED
          BY <1>9, <4>2, <4>3, <5>1 DEF StopChain
      <4> QED
        BY <4>1, <4>4
    <3> QED
      BY <3>1, <3>2
  <2>5. addDiskResizeStep(u, m) \in steps' => ResizeChain(u, m)'
    <3>1. <<"resize-disk", u, m>> \in steps' => <<"resize-disk", u, m>> \in steps
      BY <2>2
    <3> QED
      BY <1>7, <1>16, <3>1, OldChains DEF addDiskResizeStep
  <2>6. addNewVMStep(u, m) \in steps' => DeriveChain(u, m)'
    <3>1. CASE addNewVMStep(u, m) \in steps
      BY <1>7, <1>16, <3>1, OldChains
    <3>2. CASE addNewVMStep(u, m) \in steps' /\ addNewVMStep(u, m) \notin steps
      <4>1. u = D /\ m = n
        BY <2>2, <3>2 DEF addNewVMStep
      <4>2. <<d, c>> \in deps' /\ d = addNewVMStep(D, n) /\ c = appendDetachDiskStep(v, n)
        BY <1>5, <1>6 DEF addNewVMStep, appendDetachDiskStep
      <4>3. ASSUME NEW i \in Nat, addNewVMStep(D, i) \in steps' PROVE i = n
        <5>1. addNewVMStep(D, i) \in G
          BY <1>10, <1>13, <4>3 DEF addNewVMStep
        <5> QED
          BY <1>5, <5>1 DEF G, addNewVMStep
      <4>4. ASSUME NEW i \in Nat, addStartStep(v, i) \in steps' PROVE i < n
        <5>1. addStartStep(v, i) \notin G
          BY <1>5 DEF G, addStartStep
        <5>2. addStartStep(v, i) \in steps
          BY <1>13, <4>4, <5>1
        <5> QED
          BY <1>2, <1>10, <5>2 DEF addStartStep
      <4> QED
        BY <1>9, <4>1, <4>2, <4>3, <4>4 DEF DeriveChain, addNewVMStep, appendDetachDiskStep, addStartStep
    <3> QED
      BY <3>1, <3>2
  <2>7. <<"wait-stopped", u, m>> \in steps' => <<<<"wait-stopped", u, m>>, <<"stop", u, m>>>> \in deps'
    <3>1. CASE <<"wait-stopped", u, m>> \in steps
      BY <1>7, <2>1, <3>1, OldLinks
    <3>2. CASE <<"wait-stopped", u, m>> \in steps' /\ <<"wait-stopped", u, m>> \notin steps
      <4>1. u = v /\ m = n /\ <<b, a>> \in deps'
        BY <1>6, <2>2, <3>2
      <4> QED
        BY <1>5, <4>1
    <3> QED
      BY <3>1, <3>2
  <2>8. <<"detach-disk", u, m>> \in steps' => <<<<"detach-disk", u, m>>, <<"wait-stopped", u, m>>>> \in deps'
    <3>1. CASE <<"detach-disk", u, m>> \in steps
      BY <1>7, <2>1, <3>1, OldLinks
    <3>2. CASE <<"detach-disk", u, m>> \in steps' /\ <<"detach-disk", u, m>> \notin steps
      <4>1. u = v /\ m = n /\ <<c, b>> \in deps'
        BY <1>6, <2>2, <3>2
      <4> QED
        BY <1>5, <4>1
    <3> QED
      BY <3>1, <3>2
  <2>9. \A k \in {"start", "wait-started", "wait-suspended", "resume"} :
          <<k, u, m>> \in steps' => <<k, u, m>> \in steps
    BY <2>2
  <2>10. /\ <<"start", u, m>> \in steps' =>
              /\ m > 0
              /\ <<<<"start", u, m>>, <<"wait-stopped", u, m>>>> \in deps'
              /\ <<"wait-started", u, m>> \in steps'
         /\ <<"wait-started", u, m>> \in steps' => <<<<"wait-started", u, m>>, <<"start", u, m>>>> \in deps'
         /\ <<"wait-suspended", u, m>> \in steps' => <<<<"wait-suspended", u, m>>, createVMs>> \in deps'
         /\ <<"resume", u, m>> \in steps' => <<<<"resume", u, m>>, <<"wait-suspended", u, m>>>> \in deps'
    BY <1>7, <2>1, <2>9, OldLinks
  <2> QED
    BY <2>3, <2>4, <2>5, <2>6, <2>7, <2>8, <2>10
       DEF addStopStep, addDiskResizeStep, addNewVMStep, addWaitStoppedStep, addStartStep, addWaitStep,
           appendDetachDiskStep, createVMs, S
<1>18. WalkInv'
  <2>1. Extension(v, last, G, E)
    <3>1. \A e \in E : e = <<a, last>> \/ e = <<b, a>> \/ e = <<c, b>> \/ e = <<d, c>> \/ e = <<w, d>>
      OBVIOUS
    <3>2. /\ a # b /\ a # c /\ a # d /\ b # c /\ b # d /\ c # d
          /\ a[2] = v /\ b[2] = v /\ c[2] = v /\ d[2] = D /\ w[2] = D /\ d[1] \notin Chained
      BY <1>5 DEF Chained
    <3>3. <<b, a>> \in E /\ <<c, b>> \in E /\ <<d, c>> \in E /\ a \in G /\ b \in G /\ c \in G /\ d \in G
      BY DEF G
    <3>4. last # a /\ last # b /\ last # c /\ last # d /\ last[2] = v
      BY <1>3, <1>5 DEF WaitNames
    <3>5. \A s \in G : s[1] \in MidNames => s \in {a, b, c}
      BY <1>5 DEF G, MidNames
    <3>6. \A s \in G : s[1] \in WaitNames => s = w
      BY <1>5 DEF G, WaitNames
    <3> HIDE DEF E
    <3>7. \A e \in E : e[2] \in GlobalSteps \/ (e[1][2] \in All /\ (e[2] = last \/ e[2] \in G))
      BY <1>0, <3>1, <3>2, <3>3
    <3>8. \A e, g \in E : e[2] = g[2] /\ e[2][2] \in All => e[1] = g[1]
      BY <3>1, <3>2, <3>4
    <3>9. \A e \in E : ~(e[2][2] \in All /\ e[2][1] \in Chained /\ e[2][2] # vm'[D].url)
      BY <1>9, <3>1, <3>2, <3>4
    <3>10. \A s \in G : s[1] \in MidNames => \E e \in E : e[2] = s
      BY <3>3, <3>5
    <3>11. \A s \in G : s[1] \in WaitNames =>
             /\ \/ s[2] = v /\ s[3] > counter /\ \E e \in E : e[2] = last
                \/ vm[s[2]].kind = None
             /\ \A t \in G : t[1] \in WaitNames /\ t[2] = s[2] => t = s
      BY <1>1, <3>2, <3>6
    <3>12. \A s \in G : s[2] \in All /\ s[3] \in Nat /\ s \notin steps
      BY <1>11
    <3> QED
      BY <1>6, <1>8, <3>7, <3>8, <3>9, <3>10, <3>11, <3>12 DEF Extension
  <2> HIDE DEF E
  <2> QED
    BY <1>0, <1>1, <1>3, <1>7, <2>1, ExtendWalk
<1> QED
  BY <1>12, <1>14, <1>15, <1>17, <1>18 DEF GraphInv

-----------------------------------------------------------------------------
(* finalizeWorkflows *)

\* Interfaces before the flags reach them, and after
NicsBefore(nics) == \A i \in DOMAIN nics : nics[i].ip = "unset" /\ (nics[i].net = None => nics[i].gvnic)
NicsAfter(nics) ==
  /\ Network # None \/ ExternalIP # "unset" => nics # <<>>
  /\ \A i \in DOMAIN nics : /\ nics[i].ip = ExternalIP
                            /\ Network # None /\ nics[i].net = None => nics[i].gvnic

\* configureNetwork and configureExternalIP apply the flags to all interfaces
LEMMA FlagsApply ==
  ASSUME NEW q \in Seq(NicSet)
  PROVE  /\ configureExternalIP(configureNetwork(q)) \in Seq(NicSet)
         /\ NicsBefore(q) => NicsAfter(configureExternalIP(configureNetwork(q)))
<1> DEFINE p == configureNetwork(q)
           a == IF p = <<>> THEN <<Nic(None)>> ELSE p
           r == configureExternalIP(p)
           f == [i \in DOMAIN a |-> [a[i] EXCEPT !.ip = ExternalIP]]
<1>1. ASSUME NEW net \in {None, "custom", Network}
      PROVE  Nic(net) \in NicSet /\ Nic(net).ip = "unset" /\ Nic(net).net = net
  BY DEF Nic, NicSet
<1>2. ASSUME NEW x \in NicSet
      PROVE  <<x>> \in Seq(NicSet) /\ Len(<<x>>) = 1 /\ <<x>>[1] = x /\ <<x>> # <<>> /\ DOMAIN <<x>> = {1}
  <2>1. 1..1 = {1}
    OBVIOUS
  <2>2. <<x>> \in Seq(NicSet) /\ Len(<<x>>) = 1 /\ <<x>>[1] = x /\ <<x>> # <<>> /\ DOMAIN <<x>> = 1..1
    OBVIOUS
  <2> QED
    BY <2>1, <2>2
<1>3. /\ p \in Seq(NicSet)
      /\ Network # None => p # <<>>
      /\ NicsBefore(q) /\ (Network # None \/ p = q) =>
           \A i \in DOMAIN p : p[i].ip = "unset" /\ (p[i].net = None => p[i].gvnic)
  <2>1. CASE q = <<>> /\ Network # None
    <3>1. p = <<Nic(Network)>>
      BY <2>1 DEF configureNetwork
    <3> HIDE DEF p
    <3>2. Nic(Network) \in NicSet /\ Nic(Network).ip = "unset" /\ Nic(Network).net = Network
      BY <1>1
    <3>3. p \in Seq(NicSet) /\ DOMAIN p = {1} /\ p[1] = Nic(Network) /\ p # <<>>
      BY <1>2, <3>1, <3>2
    <3> QED
      BY <2>1, <3>2, <3>3
  <2>2. CASE ~(q = <<>> /\ Network # None)
    <3>1. p = q
      BY <2>2 DEF configureNetwork
    <3> HIDE DEF p
    <3> QED
      BY <2>2, <3>1 DEF NicsBefore
  <2> QED
    BY <2>1, <2>2
<1>4. p = q \/ Network # None
  BY DEF configureNetwork
<1>5. r = IF ExternalIP = "unset" THEN p ELSE f
  BY DEF configureExternalIP
<1> HIDE DEF p
<1>6. /\ a \in Seq(NicSet) /\ a # <<>> /\ (Network # None => a = p)
  BY <1>1, <1>2, <1>3
<1> HIDE DEF a, r
<1>7. /\ f \in Seq(NicSet) /\ f # <<>> /\ DOMAIN f = DOMAIN a
      /\ \A i \in DOMAIN a : f[i].ip = ExternalIP /\ f[i].net = a[i].net /\ f[i].gvnic = a[i].gvnic
  <2>1. DOMAIN a = 1..Len(a) /\ Len(a) \in Nat /\ Len(a) > 0 /\ \A i \in 1..Len(a) : a[i] \in NicSet
    BY <1>6
  <2>2. ASSUME NEW i \in 1..Len(a)
        PROVE  /\ [a[i] EXCEPT !.ip = ExternalIP] \in NicSet
               /\ [a[i] EXCEPT !.ip = ExternalIP].ip = ExternalIP
               /\ [a[i] EXCEPT !.ip = ExternalIP].net = a[i].net
               /\ [a[i] EXCEPT !.ip = ExternalIP].gvnic = a[i].gvnic
    BY <2>1 DEF NicSet
  <2>3. \A i \in 1..Len(a) : f[i] = [a[i] EXCEPT !.ip = ExternalIP]
    BY <2>1
  <2>4. f \in [1..Len(a) -> NicSet] /\ DOMAIN f = DOMAIN a
    BY <2>1, <2>2
  <2> HIDE DEF f
  <2>5. f \in Seq(NicSet) /\ DOMAIN f = 1..Len(a)
    BY <2>1, <2>4
  <2>6. f # <<>>
    BY <2>1, <2>5
  <2> QED
    BY <2>1, <2>2, <2>3, <2>5, <2>6
<1> HIDE DEF f
<1>8. r \in Seq(NicSet)
  BY <1>3, <1>5, <1>7
<1>9. ASSUME NicsBefore(q) PROVE NicsAfter(r)
  <2>1. \A i \in DOMAIN p : p[i].ip = "unset" /\ (p[i].net = None => p[i].gvnic)
    BY <1>3, <1>4, <1>9
  <2>2. CASE ExternalIP = "unset"
    BY <1>3, <1>5, <2>1, <2>2 DEF NicsAfter
  <2>3. CASE ExternalIP # "unset"
    BY <1>5, <1>6, <1>7, <2>1, <2>3 DEF NicsAfter
  <2> QED
    BY <2>2, <2>3
<1> QED
  BY <1>8, <1>9 DEF r, p

\* The last of the VMs that force a zone
LEMMA LastForced ==
  ASSUME BuildType, ForcedVMs # {}
  PROVE  \E i \in ForcedVMs : /\ i = CHOOSE j \in ForcedVMs : \A k \in ForcedVMs : k <= j
                              /\ instances[i] \in VMs /\ vm[instances[i]].zone # None
<1>1. DOMAIN instances = 1..Len(instances) /\ Len(instances) \in Nat
      /\ \A i \in DOMAIN instances : instances[i] \in VMs
  BY DEF BuildType
<1> DEFINE N == Len(instances)
           P == {m \in Nat : m <= N /\ N - m \in ForcedVMs}
<1>2. \A i \in ForcedVMs : i \in 1..N
  BY <1>1 DEF ForcedVMs
<1>3. P # {} /\ P \subseteq Nat
  <2>1. PICK i : i \in ForcedVMs
    OBVIOUS
  <2>2. N - i \in Nat /\ N - i <= N /\ N - (N - i) = i
    BY <1>1, <1>2, <2>1
  <2> QED
    BY <2>1, <2>2
<1>4. PICK m \in P : \A k \in P : m <= k
  BY <1>3, LeastNumber
<1>5. \A k \in ForcedVMs : k <= N - m
  <2> SUFFICES ASSUME NEW k \in ForcedVMs PROVE k <= N - m
    OBVIOUS
  <2>1. k \in Nat /\ N - k \in Nat /\ N - k <= N /\ N - (N - k) = k
    BY <1>1, <1>2
  <2>2. N - k \in P
    BY <2>1
  <2>3. m <= N - k
    BY <1>4, <2>2
  <2> QED
    BY <1>1, <1>4, <2>1, <2>3
<1>6. N - m \in ForcedVMs
  BY <1>4
<1>7. PICK i \in ForcedVMs : i = CHOOSE j \in ForcedVMs : \A k \in ForcedVMs : k <= j
  BY <1>5, <1>6
<1> QED
  BY <1>1, <1>7 DEF ForcedVMs

\* The zone the workflow gets is one of a VM or that of the options
LEMMA FinalZoneType ==
  ASSUME BuildType
  PROVE  /\ FinalZone \in Zones \cup {FlagZone}
         /\ ForcedVMs = {} => FinalZone = zone
         /\ ForcedVMs # {} /\ ~argZoneOverride =>
              \E v \in VMs : FinalZone = vm[v].zone /\ vm[v].zone # None
<1>1. zone \in Zones \cup {FlagZone}
  BY DEF BuildType
<1>2. ForcedVMs = {} => FinalZone = zone
  BY DEF FinalZone
<1>3. argZoneOverride => FinalZone = zone
  BY DEF FinalZone
<1>4. ASSUME ForcedVMs # {}, ~argZoneOverride
      PROVE  \E v \in VMs : FinalZone = vm[v].zone /\ vm[v].zone # None
  <2>1. PICK i \in ForcedVMs : /\ i = CHOOSE j \in ForcedVMs : \A k \in ForcedVMs : k <= j
                               /\ instances[i] \in VMs /\ vm[instances[i]].zone # None
    BY <1>4, LastForced
  <2>2. FinalZone = vm[instances[i]].zone
    BY <1>4, <2>1 DEF FinalZone
  <2> QED
    BY <2>1, <2>2
<1>5. \A v \in VMs : vm[v].zone \in Zones \cup {None}
  BY DEF BuildType, VMSet, All
<1> QED
  BY <1>1, <1>2, <1>3, <1>4, <1>5

\* finalizeWorkflows completes the graph: quotas come first, and the copy comes last
LEMMA FinalizeGraph ==
  ASSUME GraphInv, Finalize
  PROVE  GraphInv'
<1> DEFINE E == QuotaDeps \cup CopyDeps
<1>1. /\ pc = "setup" /\ pc' = "run" /\ createVMs \in steps /\ ops' = 0
      /\ steps' = steps \cup {copyObjects} /\ deps' = deps \cup E /\ zone' = FinalZone
      /\ vm' = [v \in All |-> [vm[v] EXCEPT !.nics = Interfaces(v)]]
      /\ UNCHANGED <<counter, instances, instancesBeta, late, suite>>
  BY DEF Finalize, Add
<1>2. BuildType /\ VMInv /\ CreateInv /\ ChainInv
  BY DEF GraphInv
<1>3. copyObjects \in GlobalSteps /\ createVMs \in GlobalSteps
  BY DEF GlobalSteps
<1>4. copyObjects[2] \notin All /\ copyObjects[3] = 0
  BY <1>3, GlobalForm
<1>5. /\ \A v \in All : vm'[v].kind = vm[v].kind /\ vm'[v].url = vm[v].url /\ vm'[v].uses = vm[v].uses
      /\ vm' \in [All -> VMSet]
  <2>1. ASSUME NEW v \in All
        PROVE  /\ [vm[v] EXCEPT !.nics = Interfaces(v)] \in VMSet
               /\ [vm[v] EXCEPT !.nics = Interfaces(v)].kind = vm[v].kind
               /\ [vm[v] EXCEPT !.nics = Interfaces(v)].url = vm[v].url
               /\ [vm[v] EXCEPT !.nics = Interfaces(v)].uses = vm[v].uses
    <3>1. vm[v] \in VMSet /\ vm[v].nics \in Seq(NicSet)
      BY <1>2 DEF BuildType, VMSet
    <3>2. Interfaces(v) \in Seq(NicSet)
      BY <3>1, FlagsApply DEF Interfaces
    <3> QED
      BY <3>1, <3>2 DEF VMSet
  <2> QED
    BY <1>1, <2>1
<1>6. createDisks \in steps
  BY <1>1, <1>2 DEF CreateInv, BuildType
<1>7. \A e \in QuotaDeps : e \in steps \X steps
  <2> SUFFICES ASSUME NEW e \in QuotaDeps PROVE e \in steps \X steps
    OBVIOUS
  <2>1. PICK qc \in Quotas : /\ qc[1] \in steps /\ qc[2] \in steps
                             /\ \/ e = <<qc[2], qc[1]>>
                                \/ \E d \in deps : d[1] = qc[2] /\ e = <<qc[1], d[2]>>
    BY DEF QuotaDeps
  <2>2. \A d \in deps : d[2] \in steps
    BY <1>2 DEF BuildType
  <2> QED
    BY <2>1, <2>2
<1>8. E \subseteq steps' \X steps'
  BY <1>1, <1>7 DEF CopyDeps
<1>9. BuildType'
  <2>1. IsFiniteSet(steps')
    BY <1>1, <1>2, FS_AddElement DEF BuildType
  <2>2. \A s \in steps' : s[3] <= counter'
    BY <1>1, <1>2, <1>4 DEF BuildType
  <2>3. steps' \subseteq GlobalSteps \cup VMSteps /\ deps' \subseteq steps' \X steps'
    BY <1>1, <1>2, <1>3, <1>8 DEF BuildType
  <2>4. zone' \in Zones \cup {FlagZone}
    BY <1>1, <1>2, FinalZoneType
  <2> QED
    BY <1>1, <1>2, <1>5, <2>1, <2>2, <2>3, <2>4 DEF BuildType
<1>10. VMInv'
  <2>1. Created' = Created
    BY <1>1 DEF Created
  <2>2. \A s \in steps' : s[2] \in All => s \in steps
    BY <1>1, <1>4
  <2>3. Derivative \in All /\ vm[Derivative].url \in All \cup {None}
    BY <1>2 DEF All, BuildType, VMSet
  <2>4. \A v \in VMs : vm'[v].url \in {None, v} /\ (vm'[v].kind # None <=> v \in Created')
    BY <1>2, <1>5, <2>1 DEF VMInv, All
  <2>5. vm'[Derivative].kind # None =>
          vm'[Derivative].kind = "plain" /\ vm'[vm'[Derivative].url].kind # None
    BY <1>2, <1>5, <2>3 DEF VMInv
  <2>6. \A v \in All : /\ vm'[v].kind = None <=> vm'[v].url = None
                       /\ vm'[v].uses \subseteq steps'
                       /\ vm'[v].kind # None => FirstWait(v, vm'[v].kind) \in steps' /\ createVMs \in steps'
    <3> SUFFICES ASSUME NEW v \in All
                 PROVE  /\ vm'[v].kind = None <=> vm'[v].url = None
                        /\ vm'[v].uses \subseteq steps'
                        /\ vm'[v].kind # None => FirstWait(v, vm'[v].kind) \in steps' /\ createVMs \in steps'
      OBVIOUS
    <3>1. vm'[v].kind = vm[v].kind /\ vm'[v].url = vm[v].url /\ vm'[v].uses = vm[v].uses
      BY <1>5
    <3>2. /\ vm[v].kind = None <=> vm[v].url = None
          /\ vm[v].uses \subseteq steps
          /\ vm[v].kind # None => FirstWait(v, vm[v].kind) \in steps /\ createVMs \in steps
      BY <1>2 DEF VMInv
    <3>3. steps \subseteq steps'
      BY <1>1
    <3> QED
      BY <3>1, <3>2, <3>3
  <2>7. \A s \in steps' : s[2] \in All => vm'[s[2]].kind # None
    BY <1>2, <1>5, <2>2 DEF VMInv
  <2> QED
    BY <2>4, <2>5, <2>6, <2>7
       DEF VMInv, FirstWait, addWaitRebootGAStep, addWaitStep, createVMs, S
<1>11. CreateInv'
  <2>1. /\ copyObjects # createVMs /\ copyObjects # createNetworks /\ copyObjects # createSubnets
        /\ copyObjects # vmQuota /\ copyObjects # diskQuota /\ copyObjects[1] \notin WaitKinds
    BY DEF copyObjects, createVMs, createNetworks, createSubnets, vmQuota, diskQuota, S, WaitKinds
  <2>2. vmQuota \in steps => <<createVMs, vmQuota>> \in QuotaDeps
    <3> SUFFICES ASSUME vmQuota \in steps PROVE <<createVMs, vmQuota>> \in QuotaDeps
      OBVIOUS
    <3> DEFINE qc == <<vmQuota, createVMs>>
    <3>1. qc \in {p \in Quotas : p[1] \in steps /\ p[2] \in steps}
      BY <1>1 DEF Quotas
    <3>2. <<qc[2], qc[1]>> \in QuotaDeps
      <4> HIDE DEF qc
      <4> QED
        BY <3>1 DEF QuotaDeps
    <3> QED
      BY <3>2
  <2>3. diskQuota \in steps => <<createDisks, diskQuota>> \in QuotaDeps
    <3> SUFFICES ASSUME diskQuota \in steps PROVE <<createDisks, diskQuota>> \in QuotaDeps
      OBVIOUS
    <3> DEFINE qc == <<diskQuota, createDisks>>
    <3>1. qc \in {p \in Quotas : p[1] \in steps /\ p[2] \in steps}
      BY <1>6 DEF Quotas
    <3>2. <<qc[2], qc[1]>> \in QuotaDeps
      <4> HIDE DEF qc
      <4> QED
        BY <3>1 DEF QuotaDeps
    <3> QED
      BY <3>2
  <2>4. \A s \in steps' : s[1] \in WaitKinds => <<copyObjects, s>> \in deps'
    BY <1>1, <2>1 DEF CopyDeps
  <2>5. deps \subseteq deps' /\ QuotaDeps \subseteq deps'
    BY <1>1
  <2>6. \A s \in {createVMs, createNetworks, createSubnets, vmQuota, diskQuota} : s \in steps' => s \in steps
    BY <1>1, <2>1
  <2>7. copyObjects \in steps' /\ createVMs \in steps'
    BY <1>1
  <2>8. /\ createVMs \in steps' => <<createVMs, createDisks>> \in deps'
        /\ createVMs \in steps' /\ createNetworks \in steps' => <<createVMs, createNetworks>> \in deps'
        /\ createVMs \in steps' /\ createSubnets \in steps' => late' \/ <<createVMs, createSubnets>> \in deps'
        /\ vmQuota \in steps' => <<createVMs, vmQuota>> \in deps'
        /\ diskQuota \in steps' => <<createDisks, diskQuota>> \in deps'
    BY <1>1, <1>2, <2>2, <2>3, <2>5, <2>6 DEF CreateInv
  <2> QED
    BY <2>4, <2>7, <2>8 DEF CreateInv, createVMs, createNetworks, createSubnets, createDisks, vmQuota,
                            diskQuota, copyObjects, S, WaitKinds
<1>12. Grows
  BY <1>1, <1>4, <1>5 DEF Grows
<1>13. ChainInv'
  <2> SUFFICES ASSUME NEW v \in All, NEW n \in Nat PROVE ChainInv!(v)!(n)'
    BY DEF ChainInv
  <2>1. \A k : <<k, v, n>> \in steps' => <<k, v, n>> \in steps
    BY <1>1, <1>4
  <2>2. steps \subseteq steps' /\ deps \subseteq deps'
    BY <1>1
  <2> QED
    BY <1>2, <1>12, <2>1, <2>2, OldChains, OldLinks DEF addStopStep, addDiskResizeStep, addNewVMStep,
       addWaitStoppedStep, addStartStep, addWaitStep, appendDetachDiskStep, createVMs, S
<1>14. WalkInv'
  BY <1>1 DEF WalkInv
<1> QED
  BY <1>9, <1>10, <1>11, <1>13, <1>14 DEF GraphInv

\* Initially there is nothing to say
LEMMA InitGraph == Init => GraphInv
<1> SUFFICES ASSUME Init PROVE GraphInv
  OBVIOUS
<1> USE DEF Init
<1>1. BuildType
  <2>1. NoVM \in VMSet
    <3>1. <<>> \in Seq(NicSet)
      OBVIOUS
    <3> QED
      BY <3>1 DEF NoVM, VMSet, VMKinds
  <2>2. steps \subseteq GlobalSteps \cup VMSteps /\ IsFiniteSet(steps) /\ deps \subseteq steps \X steps
    BY FS_EmptySet
  <2>3. ops \in Nat
    BY WorkflowAssumption
  <2>4. instances \in Seq(VMs) /\ instancesBeta \in Seq(VMs)
    OBVIOUS
  <2> QED
    BY <2>1, <2>2, <2>3, <2>4 DEF BuildType
<1>2. VMInv
  <2>1. Created = {}
    BY DEF Created
  <2> QED
    BY <2>1 DEF VMInv, NoVM, All
<1>3. CreateInv
  BY DEF CreateInv
<1>4. ChainInv
  BY DEF ChainInv
<1>5. WalkInv
  BY DEF WalkInv, WaitsOf
<1> QED
  BY <1>1, <1>2, <1>3, <1>4, <1>5 DEF GraphInv

\* Every call of a fixture keeps the graph sound
LEMMA SetupGraph ==
  ASSUME GraphInv, Setup
  PROVE  GraphInv'
<1>1. CASE \E v \in suite.vms : CreateTestVM(v) \/ CreateTestVMBeta(v)
  BY <1>1, CreateGraph
<1>2. CASE \E v \in suite.vms : \E k \in suite.kinds :
             CreateTestVMMultipleDisks(v, k) \/ CreateTestVMFromInstanceBeta(v, k)
  BY <1>2, CreateGraph
<1>3. CASE (\E a \in BOOLEAN : CreateNetwork(a)) \/ CreateSubnetwork \/ CreateFirewallRule
  BY <1>3, NetworkGraph, SubnetworkGraph, FirewallGraph
<1>4. CASE \E v \in All : \E sub \in {{}, {createSubnets}} : AddCustomNetwork(v, sub)
  BY <1>4, AddCustomNetworkGraph
<1>5. CASE \E v \in All : Reboot(v) \/ ResizeDiskAndReboot(v) \/ Resume(v)
  BY <1>5, RebootGraph, ResizeGraph, ResumeGraph
<1>6. CASE \E v \in All : \E z \in Zones : ForceZone(v, z)
  BY <1>6, ForceZoneGraph
<1>7. CASE \E v \in All : UseGVNIC(v)
  BY <1>7, UseGVNICGraph
<1>8. CASE \E v \in suite.vms : CreateDerivativeVM(v)
  BY <1>8, DerivativeGraph
<1>9. CASE WaitForVMQuota \/ WaitForDisksQuota
  BY <1>9, QuotaGraph DEF WaitForVMQuota, WaitForDisksQuota
<1> QED
  BY <1>1, <1>2, <1>3, <1>4, <1>5, <1>6, <1>7, <1>8, <1>9 DEF Setup

\* The steps of a run, and what they leave alone
RunStep ==
  \/ \E s \in steps : Step(s)
  \/ Succeed \/ TimeOut \/ Fail
  \/ \E v \in All : RunVM(v) \/ Fatal(v)

\* A step of the run leaves the graph alone and ends the run or goes on with it.
LEMMA RunFrame ==
  ASSUME RunStep
  PROVE  pc = "run" /\ pc' \in {"run", "ended"} /\ UNCHANGED buildVars
<1>1. CASE \E s \in steps : Step(s)
  BY <1>1 DEF Step
<1>2. CASE Succeed \/ TimeOut \/ Fail
  BY <1>2 DEF Succeed, TimeOut, Fail, RunFails
<1>3. CASE \E v \in All : RunVM(v) \/ Fatal(v)
  BY <1>3 DEF RunVM, Suspend, RunTests, Upload, FinishTest, Fatal
<1> QED
  BY <1>1, <1>2, <1>3 DEF RunStep

\* The cases of Next
LEMMA NextCases == Next => Setup \/ Finalize \/ RunStep
  BY DEF Next, Daisy, RunStep

\* GraphInv is inductive
LEMMA NextGraph ==
  ASSUME GraphInv, [Next]_vars
  PROVE  GraphInv'
<1>1. CASE Setup
  BY <1>1, SetupGraph
<1>2. CASE Finalize
  BY <1>2, FinalizeGraph
<1>3. CASE RunStep
  BY <1>3, RunFrame, RunGraph
<1>4. CASE UNCHANGED vars
  <2>1. UNCHANGED <<pc, steps, deps, counter, vm, instances, instancesBeta, auto, late, zone, suite, ops>>
    BY <1>4 DEF vars, buildVars
  <2>2. Created' = Created /\ \A v : WaitsOf(v)' = WaitsOf(v)
    BY <2>1 DEF Created, WaitsOf
  <2>3. BuildType'
    BY <2>1 DEF GraphInv, BuildType
  <2>4. VMInv'
    BY <2>1, <2>2 DEF GraphInv, VMInv, FirstWait, addWaitRebootGAStep, addWaitStep
  <2>5. CreateInv'
    BY <2>1 DEF GraphInv, CreateInv
  <2>6. ChainInv'
    <3> SUFFICES ASSUME NEW v \in All, NEW n \in Nat PROVE ChainInv!(v)!(n)'
      BY DEF ChainInv
    <3>1. Grows
      BY <2>1 DEF Grows
    <3> QED
      BY <2>1, <3>1, OldChains DEF GraphInv, ChainInv, addStopStep, addDiskResizeStep, addNewVMStep,
       addWaitStoppedStep, addStartStep, addWaitStep, appendDetachDiskStep, createVMs, S
  <2>7. WalkInv'
    BY <2>1, <2>2 DEF GraphInv, WalkInv, Rank, HasDependent
  <2> QED
    BY <2>3, <2>4, <2>5, <2>6, <2>7 DEF GraphInv
<1> QED
  BY <1>1, <1>2, <1>3, <1>4, NextCases

-----------------------------------------------------------------------------
(* The run *)

\* What the run finds of the graph stays as it is
LEMMA SameNames ==
  ASSUME UNCHANGED buildVars
  PROVE  /\ UNCHANGED <<steps, deps, vm, instances, instancesBeta, late, zone, quotaIn>>
         /\ Created' = Created /\ \A v : WaitsOf(v)' = WaitsOf(v)
<1>1. UNCHANGED <<steps, deps, vm, instances, instancesBeta, late, zone, quotaIn>>
  BY DEF buildVars
<1> QED
  BY <1>1 DEF Created, WaitsOf

\* A start that is done comes after its stop
LEMMA StartDone ==
  ASSUME GraphInv, DoneInv, done \subseteq steps, NEW v \in All, NEW n \in Nat, addStartStep(v, n) \in done
  PROVE  /\ n > 0 /\ addWaitStep("wait-started", v, n) \in WaitsOf(v)
         /\ addWaitStoppedStep(v, n) \in done /\ addStopStep(v, n) \in done
<1>1. ChainInv!(v)!(n)
  BY DEF GraphInv, ChainInv
<1>2. addStartStep(v, n) \in steps
  OBVIOUS
<1>3. <<addStartStep(v, n), addWaitStoppedStep(v, n)>> \in deps
  BY <1>1, <1>2
<1>4. addWaitStoppedStep(v, n) \in done
  BY <1>3 DEF DoneInv
<1>5. <<addWaitStoppedStep(v, n), addStopStep(v, n)>> \in deps
  BY <1>1, <1>4
<1>6. addStopStep(v, n) \in done
  BY <1>4, <1>5 DEF DoneInv
<1> QED
  BY <1>1, <1>2, <1>4, <1>6 DEF WaitsOf, addWaitStep

\* A wait after a restart that is done comes after the start
LEMMA WaitStartedDone ==
  ASSUME GraphInv, DoneInv, done \subseteq steps, NEW v \in All, NEW n \in Nat,
         addWaitStep("wait-started", v, n) \in done
  PROVE  addStartStep(v, n) \in done
<1>1. ChainInv!(v)!(n)
  BY DEF GraphInv, ChainInv
<1>2. <<addWaitStep("wait-started", v, n), addStartStep(v, n)>> \in deps
  BY <1>1
<1> QED
  BY <1>2 DEF DoneInv

\* A stop that is ready finds the last wait before it done
LEMMA StopReady ==
  ASSUME GraphInv, DoneInv, NEW v \in All, NEW n \in Nat, Ready(addStopStep(v, n))
  PROVE  \E w \in WaitsOf(v) : w \in done /\ LastWait(v, n, w)
<1>1. addStopStep(v, n) \in steps
  BY DEF Ready
<1>2. StopChain(v, n)
  BY <1>1 DEF GraphInv, ChainInv
<1>3. PICK w \in steps : /\ LastWait(v, n, w)
                         /\ \/ <<addStopStep(v, n), w>> \in deps
                            \/ \E r \in steps : <<addStopStep(v, n), r>> \in deps /\ <<r, w>> \in deps
  BY <1>2 DEF StopChain
<1>4. \A x : <<addStopStep(v, n), x>> \in deps => x \in done
  BY DEF Ready
<1>5. w \in done
  BY <1>3, <1>4 DEF DoneInv
<1> QED
  BY <1>3, <1>5 DEF LastWait

\* If a start comes before a stop that is ready, the wait that is done is one for a restart
LEMMA StopAfterStart ==
  ASSUME GraphInv, DoneInv, NEW v \in All, NEW n \in Nat, Ready(addStopStep(v, n)),
         NEW m \in Nat, m < n, addStartStep(v, m) \in steps
  PROVE  \E i \in Nat : m <= i /\ i < n /\ addWaitStep("wait-started", v, i) \in done
<1>1. PICK w \in WaitsOf(v) : w \in done /\ LastWait(v, n, w)
  BY StopReady
<1>2. addWaitStep("wait-started", v, m) \in WaitsOf(v) /\ m > 0
  BY DEF GraphInv, ChainInv, WaitsOf, addWaitStep
<1>3. m <= w[3] /\ w[3] < n
  BY <1>1, <1>2 DEF LastWait, addWaitStep
<1>4. /\ w = <<w[1], v, w[3]>> /\ w[3] \in Nat
      /\ w[1] # "wait-started" => w[3] = 0
  BY WaitForm DEF GraphInv
<1>5. w[1] = "wait-started"
  BY <1>2, <1>3, <1>4
<1>6. w = addWaitStep("wait-started", v, w[3])
  BY <1>4, <1>5 DEF addWaitStep
<1> QED
  BY <1>1, <1>3, <1>4, <1>6

\* While the fixtures build, nothing runs
LEMMA SetupRun ==
  ASSUME GraphInv, GraphInv', RunInv, pc = "setup", pc' \in {"setup", "refused", "run"}, UNCHANGED runVars
  PROVE  RunInv'
<1>1. UNCHANGED <<done, power, boot, wrap, attr, out, tries, results, report, success, faults>>
  BY DEF runVars
<1>2. done = {} /\ \A v \in All : boot[v] = 0 /\ attr[v] = {} /\ power[v] = "off" /\ wrap[v] = "off"
  BY DEF RunInv, RunType, BootInv
<1>3. \A u \in All : results[u] = NoResult
  <2> SUFFICES ASSUME NEW u \in All, results[u] # NoResult PROVE FALSE
    OBVIOUS
  <2>1. results[u] \in ResultSet
    BY DEF RunInv, RunType
  <2>2. results[u].by \in All /\ results[u].boot \in Nat \ {0}
    BY <2>1 DEF ResultSet
  <2>3. results[u].boot <= boot[results[u].by]
    BY DEF RunInv, UploadInv, ResultFrom
  <2> QED
    BY <1>2, <2>2, <2>3
<1>4. RunType'
  BY <1>1, <1>2 DEF RunInv, RunType
<1>5. DoneInv'
  BY <1>1, <1>2 DEF DoneInv
<1>6. BootInv'
  <2>1. \A v \in Created' : v \in All => boot'[v] = 0
    BY <1>1, <1>2
  <2>2. Created' \subseteq All
    <3>1. instances' \in Seq(VMs) /\ instancesBeta' \in Seq(VMs)
      BY DEF GraphInv, BuildType
    <3> QED
      BY <3>1 DEF Created, All
  <2> QED
    BY <1>1, <1>2, <2>1, <2>2 DEF BootInv, All
<1>7. StopInv'
  BY <1>1, <1>2 DEF StopInv
<1>8. SignalInv'
  BY <1>1, <1>2 DEF SignalInv
<1>9. UploadInv'
  BY <1>1, <1>2, <1>3 DEF RunInv, UploadInv, ResultThere, SecondBoot, Waited, All
<1>10. OutcomeInv'
  BY <1>1 DEF RunInv, OutcomeInv, FailsForCause
<1> QED
  BY <1>4, <1>5, <1>6, <1>7, <1>8, <1>9, <1>10 DEF RunInv

\* A step of the wrapper of v
WrapStep(v, x) ==
  /\ pc = "run" /\ pc' = "run" /\ UNCHANGED buildVars
  /\ UNCHANGED <<done, power, boot, report, success>>
  /\ power[v] = "on" /\ wrap[v] \in {"testing", "upload", "finish"}
  /\ wrap' = [wrap EXCEPT ![v] = x]
  /\ \A u \in All \ {v} : attr'[u] = attr[u]
  /\ faults' \in 0..MaxFaults /\ (faults' = 0 => faults = 0)

\* It changes nothing for daisy and the other VMs
LEMMA WrapFrame ==
  ASSUME GraphInv, RunInv, NEW v \in All, NEW x \in {"upload", "finish", "end", "dead"}, WrapStep(v, x)
  PROVE  /\ DoneInv' /\ BootInv' /\ StopInv' /\ OutcomeInv'
         /\ boot[v] > 0 /\ vm[v].kind # None
         /\ boot[v] = 1 => attr[v] = {} /\ ~Waited(v)
         /\ \A u \in All : Waited(u)' = Waited(u) /\ Restarted(u)' = Restarted(u)
         /\ \A u \in All \ {v} : wrap'[u] = wrap[u]
         /\ wrap'[v] = x
         /\ attr' = attr => SignalInv'
<1>1. /\ UNCHANGED <<steps, deps, vm, instances, instancesBeta, late, zone, quotaIn>>
      /\ Created' = Created /\ \A u : WaitsOf(u)' = WaitsOf(u)
  BY SameNames DEF WrapStep
<1>2. UNCHANGED <<done, power, boot, report, success>> /\ power[v] = "on" /\ pc = "run" /\ pc' = "run"
  BY DEF WrapStep
<1>3. wrap'[v] = x /\ \A u \in All \ {v} : wrap'[u] = wrap[u]
  BY DEF WrapStep, RunInv, RunType
<1>4. boot[v] > 0 /\ vm[v].kind # None
  <2>1. boot[v] # 0 /\ boot[v] \in Nat
    BY <1>2 DEF RunInv, BootInv, RunType
  <2> QED
    BY <2>1 DEF RunInv, BootInv
<1>5. DoneInv'
  BY <1>1, <1>2 DEF RunInv, DoneInv
<1>6. BootInv'
  <2>1. \A u \in All : power'[u] = "off" <=> wrap'[u] = "off"
    BY <1>2, <1>3 DEF RunInv, BootInv
  <2>2. \A u \in All : boot'[u] = 0 => power'[u] = "off" /\ attr'[u] = {}
    BY <1>2, <1>4 DEF RunInv, BootInv, WrapStep
  <2> QED
    BY <1>1, <1>2, <2>1, <2>2 DEF RunInv, BootInv, addNewVMStep, addStartStep, createVMs, S
<1>7. StopInv'
  BY <1>1, <1>2 DEF RunInv, StopInv, addNewVMStep, addStartStep, addStopStep
<1>8. OutcomeInv'
  BY <1>2 DEF RunInv, OutcomeInv, FailsForCause
<1>9. boot[v] = 1 => attr[v] = {} /\ ~Waited(v)
  BY DEF WrapStep, RunInv, SignalInv, Ended
<1>10. \A u \in All : Waited(u)' = Waited(u) /\ Restarted(u)' = Restarted(u)
  BY <1>1, <1>2 DEF Waited, Restarted, addWaitStep
<1>11. ASSUME attr' = attr PROVE SignalInv'
  <2> SUFFICES ASSUME NEW u \in All PROVE SignalInv!(u)'
    BY DEF SignalInv
  <2>1. SignalInv!(u) /\ SignalInv!(v)
    BY DEF RunInv, SignalInv
  <2>2. wrap[v] \in {"testing", "upload", "finish"}
    BY DEF WrapStep
  <2> QED
    BY <1>1, <1>2, <1>3, <1>10, <1>11, <2>1, <2>2 DEF Ended
<1> QED
  BY <1>3, <1>4, <1>5, <1>6, <1>7, <1>8, <1>9, <1>10, <1>11

\* The tests end
LEMMA RunTestsRun ==
  ASSUME GraphInv, RunInv, NEW v \in All, NEW o \in {"pass", "fail"}, RunTests(v, o)
  PROVE  RunInv'
<1>1. /\ pc = "run" /\ pc' = "run" /\ UNCHANGED buildVars
      /\ UNCHANGED <<done, power, boot, attr, results, report, success, faults>>
      /\ power[v] = "on" /\ wrap[v] = "testing" /\ wrap' = [wrap EXCEPT ![v] = "upload"]
      /\ out' = [out EXCEPT ![v] = o] /\ tries' = [tries EXCEPT ![v] = 0]
  BY DEF RunTests
<1>2. RunType
  BY DEF RunInv
<1>3. WrapStep(v, "upload")
  BY <1>1, <1>2 DEF WrapStep, RunType
<1>4. /\ DoneInv' /\ BootInv' /\ StopInv' /\ OutcomeInv'
      /\ boot[v] > 0 /\ vm[v].kind # None
      /\ boot[v] = 1 => attr[v] = {} /\ ~Waited(v)
      /\ \A u \in All : Waited(u)' = Waited(u) /\ Restarted(u)' = Restarted(u)
      /\ \A u \in All \ {v} : wrap'[u] = wrap[u]
      /\ wrap'[v] = "upload"
      /\ attr' = attr => SignalInv'
  BY <1>3, WrapFrame
<1>5. steps' = steps /\ vm' = vm
  BY <1>1, SameNames
<1>6. /\ \A u \in All \ {v} : out'[u] = out[u] /\ tries'[u] = tries[u]
      /\ out'[v] = o /\ tries'[v] = 0
  BY <1>1, <1>2 DEF RunType
<1>7. RunType'
  BY <1>1, <1>2, <1>4, <1>5, <1>6, WorkflowAssumption DEF RunType, None
<1>8. SignalInv'
  BY <1>1, <1>4
<1>9. UploadInv'
  <2>1. \A u \in All : ResultThere(u)'
    BY <1>1, <1>4, <1>5 DEF RunInv, UploadInv, ResultThere, NoResult
  <2>2. ASSUME NEW u \in All, results'[u] # NoResult PROVE ResultFrom(u, results[u].by)'
    <3>1. results[u].by \in All
      BY <1>1, <1>2, <2>2 DEF RunType, ResultSet
    <3>2. ResultFrom(u, results[u].by)
      BY <1>1, <2>2 DEF RunInv, UploadInv
    <3> QED
      BY <1>1, <1>4, <1>5, <1>6, <3>1, <3>2 DEF ResultFrom
  <2>3. \A u \in VMs : SecondBoot(u)'
    BY <1>1, <1>4, <1>5 DEF RunInv, UploadInv, SecondBoot, All
  <2>4. \A u \in All : faults' = 0 => out'[u] # "nothing" /\ wrap'[u] # "dead"
    BY <1>1, <1>4, <1>6 DEF RunInv, UploadInv
  <2> QED
    BY <2>1, <2>2, <2>3, <2>4 DEF UploadInv, NoResult
<1> QED
  BY <1>4, <1>7, <1>8, <1>9 DEF RunInv

\* An upload that succeeds
LEMMA UploadRun ==
  ASSUME GraphInv, RunInv, NEW v \in All, Upload(v), UNCHANGED <<out, tries, faults>>,
         results' = [results EXCEPT ![vm[v].url] = [out |-> out[v], boot |-> boot[v], by |-> v]],
         wrap' = [wrap EXCEPT ![v] = "finish"]
  PROVE  RunInv'
<1>1. /\ pc = "run" /\ pc' = "run" /\ UNCHANGED buildVars
      /\ UNCHANGED <<done, power, boot, attr, report, success>>
      /\ power[v] = "on" /\ wrap[v] = "upload"
  BY DEF Upload
<1>2. RunType
  BY DEF RunInv
<1>3. WrapStep(v, "finish")
  BY <1>1, <1>2 DEF WrapStep, RunType
<1>4. /\ DoneInv' /\ BootInv' /\ StopInv' /\ OutcomeInv'
      /\ boot[v] > 0 /\ vm[v].kind # None
      /\ boot[v] = 1 => attr[v] = {} /\ ~Waited(v)
      /\ \A u \in All : Waited(u)' = Waited(u) /\ Restarted(u)' = Restarted(u)
      /\ \A u \in All \ {v} : wrap'[u] = wrap[u]
      /\ wrap'[v] = "finish"
      /\ attr' = attr => SignalInv'
  BY <1>3, WrapFrame
<1>5. steps' = steps /\ vm' = vm
  BY <1>1, SameNames
<1> DEFINE new == [out |-> out[v], boot |-> boot[v], by |-> v]
           url == vm[v].url
<1>6. url \in All
  BY <1>4 DEF GraphInv, VMInv, BuildType, VMSet, All
<1>7. /\ new \in ResultSet /\ new # NoResult
      /\ new.out = out[v] /\ new.boot = boot[v] /\ new.by = v
  <2>1. out[v] \in {"pass", "fail", "nothing"} /\ boot[v] \in Nat \ {0}
    BY <1>1, <1>2, <1>4 DEF RunType
  <2>2. new \in ResultSet /\ new.boot = boot[v] /\ NoResult.boot = 0 /\ new.out = out[v] /\ new.by = v
    BY <2>1 DEF ResultSet, NoResult
  <2> QED
    BY <2>1, <2>2
<1>8. results'[url] = new /\ \A u \in All \ {url} : results'[u] = results[u]
  BY <1>2, <1>6 DEF RunType
<1>9. results' \in [All -> ResultSet \cup {NoResult}]
  BY <1>2, <1>6, <1>7 DEF RunType
<1> HIDE DEF new, url
<1>10. RunType'
  BY <1>1, <1>2, <1>4, <1>5, <1>9 DEF RunType, None
<1>11. SignalInv'
  BY <1>1, <1>4
<1>12. UploadInv'
  <2>1. ASSUME NEW u \in All PROVE ResultThere(u)'
    <3>1. ResultThere(u)
      BY DEF RunInv, UploadInv
    <3>2. vm[u].url \in All \/ ~(attr[u] # {} \/ Waited(u) \/ wrap'[u] \in {"finish", "end"})
      <4>1. vm[u].kind # None => vm[u].url \in All
        BY DEF GraphInv, VMInv, BuildType, VMSet, All
      <4>2. vm[u].kind = None => boot[u] = 0
        BY <1>2 DEF RunInv, BootInv, RunType
      <4>3. boot[u] = 0 => attr[u] = {} /\ wrap[u] = "off"
        BY DEF RunInv, BootInv
      <4>4. ASSUME Waited(u) PROVE vm[u].kind # None
        BY <4>4 DEF Waited, WaitsOf, GraphInv, VMInv
      <4> QED
        BY <1>4, <4>1, <4>2, <4>3, <4>4
    <3>3. CASE vm[u].url = url
      BY <1>5, <1>7, <1>8, <3>3 DEF ResultThere, NoResult
    <3>4. CASE vm[u].url # url
      <4>1. u # v
        BY <3>4 DEF url
      <4> QED
        BY <1>1, <1>4, <1>5, <1>8, <3>1, <3>2, <3>4, <4>1 DEF ResultThere, NoResult
    <3> QED
      BY <3>3, <3>4
  <2>2. ASSUME NEW u \in All, results'[u] # NoResult PROVE ResultFrom(u, results[u].by)'
    <3>1. CASE u = url
      <4>1. results'[u].by = v /\ vm'[v].url = u /\ results'[u].boot = boot'[v] /\ results'[u].out = out'[v]
        BY <1>1, <1>5, <1>7, <1>8, <3>1 DEF url
      <4>2. boot[v] \in Nat /\ (faults' = 0 => out[v] # "nothing")
        BY <1>2 DEF RunInv, UploadInv, RunType
      <4> QED
        BY <1>1, <1>4, <4>1, <4>2 DEF ResultFrom
    <3>2. CASE u # url
      <4>1. results'[u] = results[u]
        BY <1>8, <3>2
      <4>2. results[u].by \in All
        BY <1>2, <2>2, <4>1 DEF RunType, ResultSet
      <4>3. ResultFrom(u, results[u].by)
        BY <2>2, <4>1 DEF RunInv, UploadInv
      <4>4. results[u].by # v
        BY <3>2, <4>3 DEF ResultFrom, url
      <4> QED
        BY <1>1, <1>4, <1>5, <4>1, <4>2, <4>3, <4>4 DEF ResultFrom
    <3> QED
      BY <3>1, <3>2
  <2>3. ASSUME NEW u \in VMs PROVE SecondBoot(u)'
    <3>1. SecondBoot(u) /\ u \in All
      BY DEF RunInv, UploadInv, All
    <3>2. CASE u = url
      BY <1>1, <1>7, <1>8, <3>2 DEF SecondBoot
    <3>3. CASE u # url
      <4>1. u = v => ~(vm[u].kind = "reboot" /\ boot[u] = 2 /\ results'[u].by = u)
        <5>1. ASSUME u = v PROVE vm[u].url = u
          BY <1>4, <5>1 DEF GraphInv, VMInv, All
        <5> QED
          BY <3>3, <5>1 DEF url
      <4> QED
        BY <1>1, <1>4, <1>5, <1>8, <3>1, <3>3, <4>1 DEF SecondBoot
    <3> QED
      BY <3>2, <3>3
  <2>4. \A u \in All : faults' = 0 => out'[u] # "nothing" /\ wrap'[u] # "dead"
    BY <1>1, <1>4 DEF RunInv, UploadInv
  <2> QED
    BY <2>1, <2>2, <2>3, <2>4 DEF UploadInv, NoResult
<1> QED
  BY <1>4, <1>10, <1>11, <1>12 DEF RunInv

\* A step of the wrapper that fails: an upload, or the wrapper itself
LEMMA WrapFails ==
  ASSUME GraphInv, RunInv, NEW v \in All, NEW x \in {"upload", "dead"}, WrapStep(v, x),
         UNCHANGED <<attr, results>>, faults' > 0,
         tries' \in [All -> 0..MaxUploads], out' \in [All -> {None, "pass", "fail", "nothing"}],
         \A u \in All \ {v} : out'[u] = out[u] /\ tries'[u] = tries[u],
         x = "upload" => wrap[v] = "upload" /\ tries'[v] < MaxUploads /\ out'[v] # None
  PROVE  RunInv'
<1>1. /\ pc = "run" /\ pc' = "run" /\ UNCHANGED buildVars
      /\ UNCHANGED <<done, power, boot, report, success>>
      /\ power[v] = "on" /\ wrap[v] \in {"testing", "upload", "finish"}
      /\ faults' \in 0..MaxFaults /\ faults' # 0
  BY DEF WrapStep
<1>2. RunType
  BY DEF RunInv
<1>4. /\ DoneInv' /\ BootInv' /\ StopInv' /\ OutcomeInv'
      /\ boot[v] > 0 /\ vm[v].kind # None
      /\ boot[v] = 1 => attr[v] = {} /\ ~Waited(v)
      /\ \A u \in All : Waited(u)' = Waited(u) /\ Restarted(u)' = Restarted(u)
      /\ \A u \in All \ {v} : wrap'[u] = wrap[u]
      /\ wrap'[v] = x
      /\ attr' = attr => SignalInv'
  BY WrapFrame
<1>5. steps' = steps /\ vm' = vm
  BY <1>1, SameNames
<1>6. RunType'
  <2>1. wrap' \in [All -> {"off", "testing", "upload", "finish", "end", "dead"}]
    BY <1>2 DEF WrapStep, RunType
  <2>2. \A u \in All : wrap'[u] = "upload" => tries'[u] < MaxUploads /\ out'[u] # None
    BY <1>2, <1>4 DEF RunType, None
  <2> QED
    BY <1>1, <1>2, <1>5, <2>1, <2>2 DEF RunType, None
<1>7. UploadInv'
  <2>1. \A u \in All : ResultThere(u)'
    BY <1>1, <1>4, <1>5 DEF RunInv, UploadInv, ResultThere, NoResult
  <2>2. ASSUME NEW u \in All, results'[u] # NoResult PROVE ResultFrom(u, results[u].by)'
    <3>1. results[u].by \in All
      BY <1>1, <1>2, <2>2 DEF RunType, ResultSet
    <3>2. ResultFrom(u, results[u].by)
      BY <1>1, <2>2 DEF RunInv, UploadInv
    <3> QED
      BY <1>1, <1>4, <1>5, <3>1, <3>2 DEF ResultFrom
  <2>3. \A u \in VMs : SecondBoot(u)'
    BY <1>1, <1>4, <1>5 DEF RunInv, UploadInv, SecondBoot, All
  <2>4. \A u \in All : faults' = 0 => out'[u] # "nothing" /\ wrap'[u] # "dead"
    BY <1>1
  <2> QED
    BY <2>1, <2>2, <2>3, <2>4 DEF UploadInv, NoResult
<1> QED
  BY <1>4, <1>6, <1>7 DEF RunInv

\* An upload that fails, and a wrapper that dies
LEMMA FailRun ==
  ASSUME GraphInv, RunInv, NEW v \in All,
         \/ Upload(v) /\ ~UNCHANGED faults
         \/ Fatal(v)
  PROVE  RunInv'
<1>1. RunType
  BY DEF RunInv
<1>2. CASE Fatal(v)
  <2>1. WrapStep(v, "dead") /\ UNCHANGED <<attr, results, out, tries>> /\ faults' > 0
    BY <1>1, <1>2, WorkflowAssumption DEF Fatal, WrapStep, RunType
  <2>2. /\ tries' \in [All -> 0..MaxUploads] /\ out' \in [All -> {None, "pass", "fail", "nothing"}]
        /\ \A u \in All \ {v} : out'[u] = out[u] /\ tries'[u] = tries[u]
    BY <1>1, <2>1 DEF RunType
  <2> QED
    BY <2>1, <2>2, WrapFails
<1>3. CASE Upload(v) /\ ~UNCHANGED faults
  <2>1. /\ pc = "run" /\ pc' = "run" /\ UNCHANGED buildVars
        /\ UNCHANGED <<done, power, boot, attr, report, success, results>>
        /\ power[v] = "on" /\ wrap[v] = "upload"
        /\ faults < MaxFaults /\ faults' = faults + 1
        /\ tries' = [tries EXCEPT ![v] = @ + 1]
        /\ out' \in {out, [out EXCEPT ![v] = "nothing"]}
        /\ wrap' = IF tries[v] + 1 < MaxUploads THEN wrap ELSE [wrap EXCEPT ![v] = "dead"]
    BY <1>3 DEF Upload
  <2>2. tries[v] < MaxUploads /\ out[v] # None /\ tries[v] \in Nat /\ MaxUploads \in Nat
    BY <1>1, <2>1, WorkflowAssumption DEF RunType
  <2>3. /\ tries' \in [All -> 0..MaxUploads] /\ tries'[v] = tries[v] + 1
        /\ \A u \in All \ {v} : tries'[u] = tries[u]
    BY <1>1, <2>1, <2>2 DEF RunType
  <2>4. /\ out' \in [All -> {None, "pass", "fail", "nothing"}] /\ out'[v] # None
        /\ \A u \in All \ {v} : out'[u] = out[u]
    BY <1>1, <2>1, <2>2 DEF RunType, None
  <2>5. faults' \in 0..MaxFaults /\ faults' > 0
    BY <1>1, <2>1, WorkflowAssumption DEF RunType
  <2>6. CASE tries[v] + 1 < MaxUploads
    <3>1. wrap' = [wrap EXCEPT ![v] = "upload"]
      BY <1>1, <2>1, <2>6 DEF RunType
    <3>2. WrapStep(v, "upload")
      <4>1. /\ pc = "run" /\ pc' = "run" /\ UNCHANGED buildVars
            /\ UNCHANGED <<done, power, boot, report, success>>
            /\ power[v] = "on" /\ wrap[v] = "upload" /\ attr' = attr
        BY <2>1
      <4>2. faults' \in 0..MaxFaults /\ (faults' = 0 => faults = 0)
        BY <2>5
      <4> QED
        BY <3>1, <4>1, <4>2 DEF WrapStep
    <3> QED
      BY <2>1, <2>3, <2>4, <2>5, <2>6, <3>2, WrapFails
  <2>7. CASE ~(tries[v] + 1 < MaxUploads)
    <3>1. WrapStep(v, "dead")
      BY <2>1, <2>5, <2>7 DEF WrapStep
    <3> QED
      BY <2>1, <2>3, <2>4, <2>5, <3>1, WrapFails
  <2> QED
    BY <2>6, <2>7
<1> QED
  BY <1>2, <1>3

\* The signal at the end of the tests
LEMMA FinishRun ==
  ASSUME GraphInv, RunInv, NEW v \in All, FinishTest(v)
  PROVE  RunInv'
<1>1. /\ pc = "run" /\ pc' = "run" /\ UNCHANGED buildVars
      /\ UNCHANGED <<done, power, boot, out, tries, results, report, success>>
      /\ power[v] = "on" /\ wrap[v] = "finish" /\ wrap' = [wrap EXCEPT ![v] = "end"]
  BY DEF FinishTest
<1>2. RunType
  BY DEF RunInv
<1>3. FinishKey(v) \in {"first-boot-key", "test-complete"}
  BY DEF FinishKey
<1>4. /\ attr' \in [All -> SUBSET {"first-boot-key", "test-complete"}]
      /\ \A u \in All \ {v} : attr'[u] = attr[u]
      /\ attr'[v] \in {attr[v], attr[v] \cup {FinishKey(v)}}
  BY <1>2, <1>3 DEF FinishTest, RunType
<1>5. faults' \in 0..MaxFaults /\ (faults' = 0 => faults = 0)
  BY <1>2, WorkflowAssumption DEF FinishTest, RunType
<1>6. WrapStep(v, "end")
  BY <1>1, <1>4, <1>5 DEF WrapStep
<1>7. /\ DoneInv' /\ BootInv' /\ StopInv' /\ OutcomeInv'
      /\ boot[v] > 0 /\ vm[v].kind # None
      /\ boot[v] = 1 => attr[v] = {} /\ ~Waited(v)
      /\ \A u \in All : Waited(u)' = Waited(u) /\ Restarted(u)' = Restarted(u)
      /\ \A u \in All \ {v} : wrap'[u] = wrap[u]
      /\ wrap'[v] = "end"
  BY <1>6, WrapFrame
<1>8. steps' = steps /\ vm' = vm
  BY <1>1, SameNames
<1>9. RunType'
  BY <1>1, <1>2, <1>4, <1>5, <1>7, <1>8 DEF RunType, None
<1>10. SignalInv'
  <2> SUFFICES ASSUME NEW u \in All PROVE SignalInv!(u)'
    BY DEF SignalInv
  <2>1. SignalInv!(u)
    BY DEF RunInv, SignalInv
  <2>2. CASE u # v
    BY <1>1, <1>4, <1>7, <1>8, <2>1, <2>2 DEF Ended
  <2>3. CASE u = v
    <3>1. Ended(v)'
      BY <1>7 DEF Ended
    <3>2. ASSUME vm[v].kind = "reboot", "test-complete" \in attr'[v] PROVE boot[v] > 1
      <4>1. CASE "test-complete" \in attr[v]
        BY <2>1, <2>3, <3>2, <4>1
      <4>2. CASE FinishKey(v) = "test-complete"
        <5>1. "first-boot-key" \in attr[v]
          BY <3>2, <4>2 DEF FinishKey, checkFirstBootSpecialGA
        <5>2. boot[v] # 1 /\ boot[v] \in Nat
          BY <1>2, <1>7, <5>1 DEF RunType
        <5> QED
          BY <1>7, <5>2
      <4> QED
        BY <1>3, <1>4, <3>2, <4>1, <4>2
    <3> QED
      BY <1>1, <1>8, <2>3, <3>1, <3>2
  <2> QED
    BY <2>2, <2>3
<1>11. UploadInv'
  <2>1. \A u \in All : ResultThere(u)'
    BY <1>1, <1>4, <1>7, <1>8 DEF RunInv, UploadInv, ResultThere, NoResult
  <2>2. ASSUME NEW u \in All, results'[u] # NoResult PROVE ResultFrom(u, results[u].by)'
    <3>1. results[u].by \in All
      BY <1>1, <1>2, <2>2 DEF RunType, ResultSet
    <3>2. ResultFrom(u, results[u].by)
      BY <1>1, <2>2 DEF RunInv, UploadInv
    <3> QED
      BY <1>1, <1>5, <1>7, <1>8, <3>1, <3>2 DEF ResultFrom
  <2>3. \A u \in VMs : SecondBoot(u)'
    BY <1>1, <1>4, <1>7, <1>8 DEF RunInv, UploadInv, SecondBoot, All
  <2>4. \A u \in All : faults' = 0 => out'[u] # "nothing" /\ wrap'[u] # "dead"
    BY <1>1, <1>5, <1>7 DEF RunInv, UploadInv
  <2> QED
    BY <2>1, <2>2, <2>3, <2>4 DEF UploadInv, NoResult
<1> QED
  BY <1>7, <1>9, <1>10, <1>11 DEF RunInv

\* A test that suspends its VM, and the step that resumes it
LEMMA PowerRun ==
  ASSUME GraphInv, RunInv, NEW v \in All, pc = "run", pc' = "run", UNCHANGED buildVars,
         UNCHANGED <<boot, wrap, attr, out, tries, results, report, success, faults>>,
         power[v] # "off", NEW p \in {"on", "suspended"}, power' = [power EXCEPT ![v] = p],
         done \subseteq done', done' \subseteq steps, DoneInv',
         \A s \in done' \ done : s[1] = "resume" /\ s[2] = v /\ createVMs \in done
  PROVE  RunInv'
<1>1. /\ UNCHANGED <<steps, deps, vm, instances, instancesBeta, late, zone, quotaIn>>
      /\ Created' = Created /\ \A u : WaitsOf(u)' = WaitsOf(u)
  BY SameNames
<1>2. RunType
  BY DEF RunInv
<1>3. \A s \in done' : s \in done \/ s[1] = "resume"
  OBVIOUS
<1>4. /\ \A u \in All : WaitsOf(u) \cap done' = WaitsOf(u) \cap done
      /\ \A u \in All, n \in Nat : /\ addStartStep(u, n) \in done' <=> addStartStep(u, n) \in done
                                   /\ addStopStep(u, n) \in done' <=> addStopStep(u, n) \in done
                                   /\ addNewVMStep(u, n) \in done' <=> addNewVMStep(u, n) \in done
                                   /\ addWaitStep("wait-started", u, n) \in done'
                                        <=> addWaitStep("wait-started", u, n) \in done
  BY <1>3 DEF WaitsOf, addStartStep, addStopStep, addNewVMStep, addWaitStep
<1>5. createVMs \in done' <=> createVMs \in done
  BY <1>3 DEF createVMs, S
<1>6. /\ power'[v] = p /\ \A u \in All \ {v} : power'[u] = power[u]
      /\ power' \in [All -> {"off", "on", "suspended"}]
  BY <1>2 DEF RunType
<1>7. \A u \in All : power'[u] = "off" <=> power[u] = "off"
  BY <1>6
<1>8. RunType'
  BY <1>1, <1>2, <1>6 DEF RunType, None
<1>9. BootInv'
  <2>1. \A s \in done' : s[2] \in All => createVMs \in done'
    BY <1>5 DEF RunInv, BootInv
  <2>2. \A s \in done' : s[1] \in Chained => s \in done
    BY <1>3 DEF Chained
  <2>3. Derivative \in All
    BY DEF All
  <2>4. \A s \in done' : s[2] = Derivative /\ s[1] \in Chained =>
          \E n \in Nat : addNewVMStep(Derivative, n) \in done'
    BY <1>4, <2>2, <2>3 DEF RunInv, BootInv
  <2>5. \A u \in All : boot'[u] > 1 <=> \E n \in Nat : addStartStep(u, n) \in done'
    BY <1>4 DEF RunInv, BootInv
  <2>6. boot'[Derivative] > 0 <=> \E n \in Nat : addNewVMStep(Derivative, n) \in done'
    BY <1>4, <2>3 DEF RunInv, BootInv
  <2>7. \A u \in Created' : boot'[u] > 0 <=> createVMs \in done'
    BY <1>1, <1>5 DEF RunInv, BootInv
  <2>8. \A u \in All : /\ boot'[u] > 0 => vm'[u].kind # None
                       /\ boot'[u] = 0 => power'[u] = "off" /\ attr'[u] = {}
                       /\ power'[u] = "off" <=> wrap'[u] = "off"
    BY <1>1, <1>7 DEF RunInv, BootInv
  <2> QED
    BY <2>1, <2>4, <2>5, <2>6, <2>7, <2>8 DEF BootInv, addNewVMStep, addStartStep, createVMs, S
<1>10. StopInv'
  <2>1. \A u \in All : \A m, n \in Nat :
          m < n /\ addStartStep(u, m) \in steps' /\ addStopStep(u, n) \in done' => addStartStep(u, m) \in done'
    BY <1>1, <1>4 DEF RunInv, StopInv
  <2>2. ASSUME NEW n \in Nat, addNewVMStep(Derivative, n) \in steps', addStopStep(vm'[Derivative].url, n) \in done'
        PROVE  power'[vm'[Derivative].url] = "off"
    <3>1. vm[Derivative].url \in All
      BY <1>1, <2>2 DEF GraphInv, VMInv, BuildType, VMSet, All, addNewVMStep
    <3> QED
      BY <1>1, <1>4, <1>7, <2>2, <3>1 DEF RunInv, StopInv
  <2> QED
    BY <2>1, <2>2 DEF StopInv, addNewVMStep, addStopStep, addStartStep
<1>11. \A u \in All : Waited(u)' = Waited(u) /\ Restarted(u)' = Restarted(u)
  BY <1>1, <1>4 DEF Waited, Restarted, addWaitStep
<1>12. SignalInv'
  BY <1>1, <1>11 DEF RunInv, SignalInv, Ended
<1>13. UploadInv'
  BY <1>1, <1>11 DEF RunInv, UploadInv, ResultThere, ResultFrom, SecondBoot, NoResult, All
<1>14. OutcomeInv'
  BY DEF RunInv, OutcomeInv, FailsForCause
<1> QED
  BY <1>8, <1>9, <1>10, <1>12, <1>13, <1>14 DEF RunInv

\* A step is done after all it depends on
LEMMA StepDone ==
  ASSUME GraphInv, RunInv, NEW s \in steps, Step(s)
  PROVE  /\ pc = "run" /\ pc' = "run" /\ UNCHANGED buildVars
         /\ UNCHANGED <<attr, out, tries, results, report, success, faults>>
         /\ Ready(s) /\ s \notin done /\ done' = done \cup {s} /\ done' \subseteq steps /\ DoneInv'
<1>1. /\ pc = "run" /\ pc' = "run" /\ UNCHANGED buildVars
      /\ UNCHANGED <<attr, out, tries, results, report, success, faults>>
      /\ Ready(s) /\ done' = done \cup {s}
  BY DEF Step
<1>2. steps' = steps /\ deps' = deps
  BY <1>1, SameNames
<1>3. DoneInv'
  BY <1>1, <1>2 DEF RunInv, DoneInv, Ready
<1> QED
  BY <1>1, <1>3 DEF Ready, RunInv, RunType

\* The VM of a step that is done has booted
LEMMA DoneBooted ==
  ASSUME GraphInv, RunInv, NEW s \in done, s[2] \in All, s[1] \in Chained
  PROVE  boot[s[2]] > 0
<1>1. s \in steps
  BY DEF RunInv, RunType
<1>2. createVMs \in done /\ vm[s[2]].kind # None
  BY <1>1 DEF RunInv, BootInv, GraphInv, VMInv
<1>3. CASE s[2] = Derivative
  BY <1>3 DEF RunInv, BootInv
<1>4. CASE s[2] # Derivative
  <2>1. s[2] \in Created
    BY <1>2, <1>4 DEF GraphInv, VMInv, All
  <2> QED
    BY <1>2, <2>1 DEF RunInv, BootInv
<1> QED
  BY <1>3, <1>4

\* A step of a VM that is ready comes after the VMs, and one of a derivative VM after that
LEMMA ReadyAfter ==
  ASSUME GraphInv, RunInv, NEW s, Ready(s), s[2] \in All
  PROVE  /\ createVMs \in done
         /\ s[2] = Derivative /\ s[1] \in Chained => \E n \in Nat : addNewVMStep(Derivative, n) \in done
<1>1. s \in steps /\ \A t : <<s, t>> \in deps => t \in done
  BY DEF Ready
<1>2. /\ s = <<s[1], s[2], s[3]>> /\ s[3] \in Nat
      /\ s[1] \in Chained \cup {"create-vms-n", "wait-suspended", "resume"}
  BY <1>1, StepForms DEF GraphInv
<1> DEFINE v == s[2]
           n == s[3]
<1>3. ChainInv!(v)!(n)
  BY <1>2 DEF GraphInv, ChainInv
<1>4. ASSUME NEW t \in done, t[2] = v, t[1] \in Chained
      PROVE  createVMs \in done /\ (v = Derivative => \E m \in Nat : addNewVMStep(Derivative, m) \in done)
  BY <1>4 DEF RunInv, BootInv
<1>5. CASE s[1] \in {"wait", "wait-first-boot"}
  <2>1. FirstChain(v, s)
    BY <1>1, <1>2, <1>3, <1>5
  <2>2. CASE v # Derivative
    BY <1>1, <2>1, <2>2 DEF FirstChain
  <2>3. CASE v = Derivative
    <3>1. PICK m \in Nat : addNewVMStep(v, m) \in done
      BY <1>1, <2>1, <2>3 DEF FirstChain
    <3>2. createVMs \in done
      BY <3>1 DEF RunInv, BootInv, addNewVMStep
    <3> QED
      BY <2>3, <3>1, <3>2
  <2> QED
    BY <2>2, <2>3
<1>6. CASE s[1] = "stop"
  <2>1. s = addStopStep(v, n)
    BY <1>2, <1>6 DEF addStopStep
  <2>2. \E w \in WaitsOf(v) : w \in done
    BY <1>2, <2>1, StopReady DEF RunInv
  <2> QED
    BY <1>4, <2>2 DEF WaitsOf, Chained
<1>7. CASE s[1] = "resize-disk"
  <2>1. s = addDiskResizeStep(v, n)
    BY <1>2, <1>7 DEF addDiskResizeStep
  <2>2. \E w \in WaitsOf(v) : w \in done
    BY <1>1, <1>3, <2>1 DEF ResizeChain
  <2> QED
    BY <1>4, <2>2 DEF WaitsOf, Chained
<1>8. CASE s[1] = "wait-stopped"
  <2>1. s = addWaitStoppedStep(v, n)
    BY <1>2, <1>8 DEF addWaitStoppedStep
  <2>2. addStopStep(v, n) \in done
    BY <1>1, <1>3, <2>1
  <2> QED
    BY <1>4, <2>2 DEF addStopStep, Chained
<1>9. CASE s[1] = "start"
  <2>1. s = addStartStep(v, n)
    BY <1>2, <1>9 DEF addStartStep
  <2>2. addWaitStoppedStep(v, n) \in done
    BY <1>1, <1>3, <2>1
  <2> QED
    BY <1>4, <2>2 DEF addWaitStoppedStep, Chained
<1>10. CASE s[1] = "wait-started"
  <2>1. s = addWaitStep("wait-started", v, n)
    BY <1>2, <1>10 DEF addWaitStep
  <2>2. addStartStep(v, n) \in done
    BY <1>1, <1>3, <2>1
  <2> QED
    BY <1>4, <2>2 DEF addStartStep, Chained
<1>11. CASE s[1] = "detach-disk"
  <2>1. s = appendDetachDiskStep(v, n)
    BY <1>2, <1>11 DEF appendDetachDiskStep
  <2>2. addWaitStoppedStep(v, n) \in done
    BY <1>1, <1>3, <2>1
  <2> QED
    BY <1>4, <2>2 DEF addWaitStoppedStep, Chained
<1>12. CASE s[1] = "create-vms-n"
  <2>1. s = addNewVMStep(v, n)
    BY <1>2, <1>12 DEF addNewVMStep
  <2>2. DeriveChain(v, n)
    BY <1>1, <1>3, <2>1
  <2>3. appendDetachDiskStep(vm[v].url, n) \in done
    BY <1>1, <2>1, <2>2 DEF DeriveChain
  <2>4. vm[v].url \in All
    BY <1>1 DEF GraphInv, VMInv, BuildType, VMSet, All
  <2>5. createVMs \in done
    BY <2>3, <2>4 DEF RunInv, BootInv, appendDetachDiskStep
  <2> QED
    BY <1>12, <2>5 DEF Chained
<1>13. CASE s[1] = "wait-suspended"
  <2>1. createVMs \in done
    BY <1>1, <1>2, <1>3, <1>13
  <2> QED
    BY <1>13, <2>1 DEF Chained
<1>14. CASE s[1] = "resume"
  <2>1. <<"wait-suspended", v, n>> \in done
    BY <1>1, <1>2, <1>3, <1>14
  <2>2. createVMs \in done
    BY <2>1 DEF RunInv, BootInv
  <2> QED
    BY <1>14, <2>2 DEF Chained
<1> QED
  BY <1>2, <1>5, <1>6, <1>7, <1>8, <1>9, <1>10, <1>11, <1>12, <1>13, <1>14 DEF Chained

\* A step that boots nothing leaves the boots as they are
LEMMA BootKept ==
  ASSUME GraphInv, RunInv, NEW s, Ready(s), done' = done \cup {s}, UNCHANGED buildVars,
         s[1] \notin {"create-vms", "create-vms-n", "start"}, UNCHANGED <<boot, attr>>,
         \A u \in All : /\ power'[u] = "off" <=> wrap'[u] = "off"
                        /\ boot[u] = 0 => power'[u] = "off"
  PROVE  BootInv'
<1>1. /\ UNCHANGED <<steps, deps, vm, instances, instancesBeta, late, zone, quotaIn>>
      /\ Created' = Created /\ \A u : WaitsOf(u)' = WaitsOf(u)
  BY SameNames
<1>2. BootInv
  BY DEF RunInv
<1>3. \A u \in All, n \in Nat : /\ addStartStep(u, n) \in done' <=> addStartStep(u, n) \in done
                                /\ addNewVMStep(u, n) \in done' <=> addNewVMStep(u, n) \in done
  BY DEF addStartStep, addNewVMStep
<1>4. createVMs \in done' <=> createVMs \in done
  BY DEF createVMs, S
<1>5. \A t \in done' : t[2] \in All => createVMs \in done'
  BY <1>2, <1>4, ReadyAfter DEF BootInv
<1>6. Derivative \in All
  BY DEF All
<1>7. \A t \in done' : t[2] = Derivative /\ t[1] \in Chained =>
        \E n \in Nat : addNewVMStep(Derivative, n) \in done'
  BY <1>2, <1>3, <1>6, ReadyAfter DEF BootInv
<1>8. \A u \in All : boot'[u] > 1 <=> \E n \in Nat : addStartStep(u, n) \in done'
  BY <1>2, <1>3 DEF BootInv
<1>9. boot'[Derivative] > 0 <=> \E n \in Nat : addNewVMStep(Derivative, n) \in done'
  BY <1>2, <1>3, <1>6 DEF BootInv
<1>10. \A u \in Created' : boot'[u] > 0 <=> createVMs \in done'
  BY <1>1, <1>2, <1>4 DEF BootInv
<1>11. \A u \in All : /\ boot'[u] > 0 => vm'[u].kind # None
                      /\ boot'[u] = 0 => power'[u] = "off" /\ attr'[u] = {}
                      /\ power'[u] = "off" <=> wrap'[u] = "off"
  BY <1>1, <1>2 DEF BootInv
<1> QED
  BY <1>5, <1>7, <1>8, <1>9, <1>10, <1>11 DEF BootInv, addNewVMStep, addStartStep, createVMs, S

\* A step that waits, or does something to a disk, a network or a quota
LEMMA QuietRun ==
  ASSUME GraphInv, RunInv, NEW s \in steps, Step(s), UNCHANGED <<power, boot, wrap>>,
         s[1] \notin {"create-vms", "create-vms-n", "start", "stop"},
         s[1] \in WaitNames => s[2] \in All /\ Signalled(s)
  PROVE  RunInv'
<1>1. /\ pc = "run" /\ pc' = "run" /\ UNCHANGED buildVars
      /\ UNCHANGED <<attr, out, tries, results, report, success, faults>>
      /\ Ready(s) /\ s \notin done /\ done' = done \cup {s} /\ done' \subseteq steps /\ DoneInv'
  BY StepDone
<1>2. /\ UNCHANGED <<steps, deps, vm, instances, instancesBeta, late, zone, quotaIn>>
      /\ Created' = Created /\ \A u : WaitsOf(u)' = WaitsOf(u)
  BY <1>1, SameNames
<1>3. RunType'
  BY <1>1, <1>2 DEF RunInv, RunType, None
<1>4. BootInv'
  <2>1. \A u \in All : /\ power'[u] = "off" <=> wrap'[u] = "off"
                       /\ boot[u] = 0 => power'[u] = "off"
    BY DEF RunInv, BootInv
  <2> QED
    BY <1>1, <2>1, BootKept
<1>5. StopInv'
  <2>1. \A u, n : addStopStep(u, n) \in done' <=> addStopStep(u, n) \in done
    BY <1>1 DEF addStopStep
  <2> QED
    BY <1>1, <1>2, <2>1 DEF RunInv, StopInv, addNewVMStep, addStopStep, addStartStep
<1>6. \A u \in All : \/ Waited(u)' = Waited(u) /\ Restarted(u)' = Restarted(u)
                     \/ u = s[2] /\ s \in WaitsOf(u)
  <2> SUFFICES ASSUME NEW u \in All, ~(u = s[2] /\ s \in WaitsOf(u))
               PROVE  Waited(u)' = Waited(u) /\ Restarted(u)' = Restarted(u)
    OBVIOUS
  <2>1. s \notin WaitsOf(u)
    BY DEF WaitsOf
  <2>2. \A n \in Nat : addWaitStep("wait-started", u, n) \in done' <=> addWaitStep("wait-started", u, n) \in done
    BY <1>1, <2>1 DEF WaitsOf, addWaitStep
  <2> QED
    BY <1>1, <1>2, <2>1, <2>2 DEF Waited, Restarted, addWaitStep
<1>7. ASSUME NEW u \in All, u = s[2], s \in WaitsOf(u)
      PROVE  /\ attr[u] # {} \/ wrap[u] = "end"
             /\ Restarted(u)' => Restarted(u) \/ "test-complete" \in attr[u] \/ wrap[u] = "end"
  <2>1. Signalled(s)
    BY <1>7 DEF WaitsOf, WaitNames
  <2>2. CASE s[1] = "wait-started"
    BY <1>7, <2>1, <2>2 DEF Signalled, AwaitedKey
  <2>3. CASE s[1] # "wait-started"
    <3>1. \A n \in Nat : addWaitStep("wait-started", u, n) \in done' => addWaitStep("wait-started", u, n) \in done
      BY <1>1, <2>3 DEF addWaitStep
    <3> QED
      BY <1>7, <2>1, <3>1 DEF Signalled, Restarted, addWaitStep
  <2> QED
    BY <2>2, <2>3
<1>8. SignalInv'
  <2> SUFFICES ASSUME NEW u \in All PROVE SignalInv!(u)'
    BY DEF SignalInv
  <2>1. SignalInv!(u)
    BY DEF RunInv, SignalInv
  <2> QED
    BY <1>1, <1>2, <1>6, <1>7, <2>1 DEF Ended
<1>9. UploadInv'
  <2>1. ASSUME NEW u \in All PROVE ResultThere(u)'
    <3>1. ResultThere(u)
      BY DEF RunInv, UploadInv
    <3> QED
      BY <1>1, <1>2, <1>6, <1>7, <3>1 DEF ResultThere, NoResult
  <2>2. ASSUME NEW u \in All, results'[u] # NoResult PROVE ResultFrom(u, results[u].by)'
    <3>1. ResultFrom(u, results[u].by)
      BY <1>1, <2>2 DEF RunInv, UploadInv
    <3> QED
      BY <1>1, <1>2, <3>1 DEF ResultFrom
  <2>3. ASSUME NEW u \in VMs PROVE SecondBoot(u)'
    <3>1. SecondBoot(u) /\ u \in All
      BY DEF RunInv, UploadInv, All
    <3> QED
      BY <1>1, <1>2, <1>6, <1>7, <3>1 DEF SecondBoot
  <2>4. \A u \in All : faults' = 0 => out'[u] # "nothing" /\ wrap'[u] # "dead"
    BY <1>1 DEF RunInv, UploadInv
  <2> QED
    BY <2>1, <2>2, <2>3, <2>4 DEF UploadInv, NoResult
<1>10. OutcomeInv'
  BY <1>1 DEF RunInv, OutcomeInv, FailsForCause
<1> QED
  BY <1>1, <1>3, <1>4, <1>5, <1>8, <1>9, <1>10 DEF RunInv

\* A step that is no wait adds none
LEMMA WaitsKept ==
  ASSUME NEW s, s[1] \notin WaitNames, done' = done \cup {s}, UNCHANGED buildVars
  PROVE  \A u : Waited(u)' = Waited(u) /\ Restarted(u)' = Restarted(u)
<1>1. \A u : WaitsOf(u)' = WaitsOf(u) /\ s \notin WaitsOf(u)
  BY SameNames DEF WaitsOf, WaitNames
<1>2. \A u, n : addWaitStep("wait-started", u, n) \in done' <=> addWaitStep("wait-started", u, n) \in done
  BY DEF addWaitStep, WaitNames
<1> QED
  BY <1>1, <1>2 DEF Waited, Restarted, addWaitStep

\* A stop
LEMMA StopRun ==
  ASSUME GraphInv, RunInv, NEW s \in steps, Step(s), s[1] = "stop", s[2] \in All,
         Power(s[2], "off"), wrap' = [wrap EXCEPT ![s[2]] = "off"]
  PROVE  RunInv'
<1>1. /\ pc = "run" /\ pc' = "run" /\ UNCHANGED buildVars
      /\ UNCHANGED <<attr, out, tries, results, report, success, faults>>
      /\ Ready(s) /\ s \notin done /\ done' = done \cup {s} /\ done' \subseteq steps /\ DoneInv'
  BY StepDone
<1>2. /\ UNCHANGED <<steps, deps, vm, instances, instancesBeta, late, zone, quotaIn>>
      /\ Created' = Created /\ \A u : WaitsOf(u)' = WaitsOf(u)
  BY <1>1, SameNames
<1>3. PICK v \in All : v = s[2]
  OBVIOUS
<1>4. PICK n \in Nat : s = addStopStep(v, n)
  BY <1>3, StepForms DEF GraphInv, addStopStep
<1>5. RunType
  BY DEF RunInv
<1>6. /\ boot' = boot /\ power'[v] = "off" /\ wrap'[v] = "off"
      /\ \A u \in All \ {v} : power'[u] = power[u] /\ wrap'[u] = wrap[u]
      /\ power' \in [All -> {"off", "on", "suspended"}]
      /\ wrap' \in [All -> {"off", "testing", "upload", "finish", "end", "dead"}]
  BY <1>3, <1>5 DEF Power, RunType
<1>7. RunType'
  BY <1>1, <1>2, <1>5, <1>6 DEF RunType, None
<1>8. BootInv'
  <2>1. \A u \in All : /\ power'[u] = "off" <=> wrap'[u] = "off"
                       /\ boot[u] = 0 => power'[u] = "off"
    BY <1>6 DEF RunInv, BootInv
  <2> QED
    BY <1>1, <1>6, <2>1, BootKept
<1>9. StopInv'
  <2>1. ASSUME NEW u \in All, NEW m \in Nat, NEW k \in Nat, m < k, addStartStep(u, m) \in steps,
               addStopStep(u, k) \in done'
        PROVE  addStartStep(u, m) \in done
    <3>1. CASE addStopStep(u, k) \in done
      BY <2>1, <3>1 DEF RunInv, StopInv
    <3>2. CASE addStopStep(u, k) = s
      <4>1. PICK i \in Nat : m <= i /\ i < k /\ addWaitStep("wait-started", u, i) \in done
        BY <1>1, <2>1, <3>2, StopAfterStart DEF RunInv
      <4>2. addStartStep(u, i) \in done
        BY <1>5, <4>1, WaitStartedDone DEF RunInv, RunType
      <4>3. addStopStep(u, i) \in done
        BY <1>5, <4>2, StartDone DEF RunInv, RunType
      <4>4. CASE m = i
        BY <4>2, <4>4
      <4>5. CASE m < i
        BY <2>1, <4>3, <4>5 DEF RunInv, StopInv
      <4> QED
        BY <4>1, <4>4, <4>5
    <3> QED
      BY <1>1, <2>1, <3>1, <3>2
  <2>2. ASSUME NEW k \in Nat, addNewVMStep(Derivative, k) \in steps, addStopStep(vm[Derivative].url, k) \in done'
        PROVE  power'[vm[Derivative].url] = "off"
    <3>1. vm[Derivative].url \in All
      BY <2>2 DEF GraphInv, VMInv, BuildType, VMSet, All, addNewVMStep
    <3>2. CASE addStopStep(vm[Derivative].url, k) \in done
      BY <1>6, <2>2, <3>1, <3>2 DEF RunInv, StopInv
    <3>3. CASE addStopStep(vm[Derivative].url, k) = s
      <4>1. vm[Derivative].url = v
        BY <1>3, <3>3 DEF addStopStep
      <4> QED
        BY <1>6, <4>1
    <3> QED
      BY <1>1, <2>2, <3>2, <3>3
  <2> QED
    BY <1>1, <1>2, <2>1, <2>2 DEF StopInv, addNewVMStep, addStopStep, addStartStep
<1>10. \A u : Waited(u)' = Waited(u) /\ Restarted(u)' = Restarted(u)
  BY <1>1, WaitsKept DEF WaitNames
<1>11. SignalInv'
  <2> SUFFICES ASSUME NEW u \in All PROVE SignalInv!(u)'
    BY DEF SignalInv
  <2>1. SignalInv!(u)
    BY DEF RunInv, SignalInv
  <2> QED
    BY <1>1, <1>2, <1>6, <1>10, <2>1 DEF Ended
<1>12. UploadInv'
  <2>1. \A u \in All : ResultThere(u)'
    BY <1>1, <1>2, <1>6, <1>10 DEF RunInv, UploadInv, ResultThere, NoResult
  <2>2. ASSUME NEW u \in All, results'[u] # NoResult PROVE ResultFrom(u, results[u].by)'
    <3>1. results[u].by \in All
      BY <1>1, <1>5, <2>2 DEF RunType, ResultSet
    <3>2. ResultFrom(u, results[u].by)
      BY <1>1, <2>2 DEF RunInv, UploadInv
    <3> QED
      BY <1>1, <1>2, <1>6, <3>1, <3>2 DEF ResultFrom
  <2>3. \A u \in VMs : SecondBoot(u)'
    BY <1>1, <1>2, <1>6, <1>10 DEF RunInv, UploadInv, SecondBoot, All
  <2>4. \A u \in All : faults' = 0 => out'[u] # "nothing" /\ wrap'[u] # "dead"
    BY <1>1, <1>6 DEF RunInv, UploadInv
  <2> QED
    BY <2>1, <2>2, <2>3, <2>4 DEF UploadInv, NoResult
<1>13. OutcomeInv'
  BY <1>1 DEF RunInv, OutcomeInv, FailsForCause
<1> QED
  BY <1>1, <1>7, <1>8, <1>9, <1>11, <1>12, <1>13 DEF RunInv

\* VMs that boot: their tests begin again
LEMMA BootedRun ==
  ASSUME GraphInv, RunInv, NEW s \in steps, Step(s), s[1] \notin WaitNames,
         NEW V \in SUBSET All, Booted(V), BootInv', StopInv'
  PROVE  RunInv'
<1>1. /\ pc = "run" /\ pc' = "run" /\ UNCHANGED buildVars
      /\ UNCHANGED <<attr, out, tries, results, report, success, faults>>
      /\ Ready(s) /\ s \notin done /\ done' = done \cup {s} /\ done' \subseteq steps /\ DoneInv'
  BY StepDone
<1>2. /\ UNCHANGED <<steps, deps, vm, instances, instancesBeta, late, zone, quotaIn>>
      /\ Created' = Created /\ \A u : WaitsOf(u)' = WaitsOf(u)
  BY <1>1, SameNames
<1>3. RunType
  BY DEF RunInv
<1>4. /\ \A u \in V : power'[u] = "on" /\ boot'[u] = boot[u] + 1 /\ wrap'[u] = "testing"
      /\ \A u \in All \ V : power'[u] = power[u] /\ boot'[u] = boot[u] /\ wrap'[u] = wrap[u]
      /\ \A u \in All : boot[u] \in Nat
  BY <1>3 DEF Booted, RunType
<1>5. /\ power' \in [All -> {"off", "on", "suspended"}] /\ boot' \in [All -> Nat]
      /\ wrap' \in [All -> {"off", "testing", "upload", "finish", "end", "dead"}]
  BY <1>3 DEF Booted, RunType
<1>6. RunType'
  <2>1. \A u \in All : wrap'[u] = "upload" => tries'[u] < MaxUploads /\ out'[u] # None
    BY <1>1, <1>3, <1>4 DEF RunType
  <2> QED
    BY <1>1, <1>2, <1>3, <1>5, <2>1 DEF RunType, None
<1>7. \A u : Waited(u)' = Waited(u) /\ Restarted(u)' = Restarted(u)
  BY <1>1, WaitsKept
<1>8. ASSUME NEW u \in All, boot[u] = 0 PROVE attr[u] = {} /\ ~Waited(u)
  <2>1. attr[u] = {}
    BY <1>8 DEF RunInv, BootInv
  <2>2. ASSUME Waited(u) PROVE FALSE
    <3>1. PICK t \in done : t[2] = u /\ t[1] \in Chained
      BY <2>2 DEF Waited, WaitsOf, Chained
    <3> QED
      BY <1>4, <1>8, <3>1, DoneBooted
  <2> QED
    BY <2>1, <2>2
<1>9. ASSUME NEW u \in All, boot[u] = 1 PROVE ~Restarted(u)
  <2> SUFFICES ASSUME Restarted(u) PROVE FALSE
    OBVIOUS
  <2>1. PICK n \in Nat : addWaitStep("wait-started", u, n) \in done
    BY DEF Restarted
  <2>2. addStartStep(u, n) \in done
    BY <1>3, <2>1, WaitStartedDone DEF RunInv, RunType
  <2>3. boot[u] > 1
    BY <2>2 DEF RunInv, BootInv
  <2> QED
    BY <1>9, <2>3
<1>10. SignalInv'
  <2> SUFFICES ASSUME NEW u \in All PROVE SignalInv!(u)'
    BY DEF SignalInv
  <2>1. SignalInv!(u) /\ boot[u] \in Nat
    BY <1>4 DEF RunInv, SignalInv
  <2>2. CASE u \notin V
    BY <1>1, <1>2, <1>4, <1>7, <2>1, <2>2 DEF Ended
  <2>3. CASE u \in V
    <3>1. boot'[u] = boot[u] + 1
      BY <1>4, <2>3
    <3>2. boot'[u] = 1 => attr'[u] = {} /\ ~Waited(u)'
      BY <1>1, <1>7, <1>8, <2>1, <3>1
    <3>3. vm'[u].kind = "reboot" /\ "test-complete" \in attr'[u] => boot[u] > 1
      BY <1>1, <1>2, <2>1
    <3>4. vm'[u].kind = "reboot" /\ boot'[u] = 2 => "test-complete" \notin attr'[u] /\ ~Restarted(u)'
      BY <1>7, <1>9, <2>1, <3>1, <3>3
    <3>5. boot[u] > 1 => boot'[u] > 1
      BY <2>1, <3>1
    <3> QED
      BY <3>2, <3>3, <3>4, <3>5
  <2> QED
    BY <2>2, <2>3
<1>11. UploadInv'
  <2>1. \A u \in All : ResultThere(u)'
    BY <1>1, <1>2, <1>4, <1>7 DEF RunInv, UploadInv, ResultThere, NoResult
  <2>2. ASSUME NEW u \in All, results'[u] # NoResult PROVE ResultFrom(u, results[u].by)'
    <3>1. results[u].by \in All /\ results[u].boot \in Nat
      BY <1>1, <1>3, <2>2 DEF RunType, ResultSet
    <3>2. ResultFrom(u, results[u].by)
      BY <1>1, <2>2 DEF RunInv, UploadInv
    <3>3. CASE results[u].by \notin V
      BY <1>1, <1>2, <1>4, <3>1, <3>2, <3>3 DEF ResultFrom
    <3>4. CASE results[u].by \in V
      <4>1. boot'[results[u].by] = boot[results[u].by] + 1 /\ boot[results[u].by] \in Nat
        BY <1>4, <3>1, <3>4
      <4>2. results[u].boot <= boot'[results[u].by] /\ results[u].boot # boot'[results[u].by]
        BY <3>1, <3>2, <4>1 DEF ResultFrom
      <4> QED
        BY <1>1, <1>2, <3>2, <4>2 DEF ResultFrom
    <3> QED
      BY <3>3, <3>4
  <2>3. ASSUME NEW u \in VMs PROVE SecondBoot(u)'
    <3>1. SecondBoot(u) /\ u \in All /\ SignalInv!(u)
      BY DEF RunInv, UploadInv, SignalInv, All
    <3>2. CASE u \notin V
      BY <1>1, <1>2, <1>4, <1>7, <3>1, <3>2 DEF SecondBoot
    <3>3. CASE u \in V
      <4>1. boot'[u] = boot[u] + 1 /\ boot[u] \in Nat /\ wrap'[u] = "testing"
        BY <1>4, <3>1, <3>3
      <4>2. boot'[u] = 2 => boot[u] = 1
        BY <4>1
      <4>3. vm'[u].kind = "reboot" /\ boot'[u] = 2 => "test-complete" \notin attr'[u] /\ ~Restarted(u)'
        BY <1>1, <1>2, <1>7, <1>9, <3>1, <4>2
      <4> QED
        BY <4>1, <4>3 DEF SecondBoot
    <3> QED
      BY <3>2, <3>3
  <2>4. \A u \in All : faults' = 0 => out'[u] # "nothing" /\ wrap'[u] # "dead"
    BY <1>1, <1>4 DEF RunInv, UploadInv
  <2> QED
    BY <2>1, <2>2, <2>3, <2>4 DEF UploadInv, NoResult
<1>12. OutcomeInv'
  BY <1>1 DEF RunInv, OutcomeInv, FailsForCause
<1> QED
  BY <1>1, <1>6, <1>10, <1>11, <1>12 DEF RunInv

\* A VM that has given its disk away stays off
LEMMA StopKept ==
  ASSUME GraphInv, RunInv, NEW s \in steps, Step(s), s[1] # "stop",
         \A n \in Nat : addNewVMStep(Derivative, n) \in steps /\ addStopStep(vm[Derivative].url, n) \in done =>
           power'[vm[Derivative].url] = power[vm[Derivative].url]
  PROVE  StopInv'
<1>1. done' = done \cup {s} /\ UNCHANGED <<steps, vm>>
  BY StepDone, SameNames
<1>2. \A u, n : addStopStep(u, n) \in done' <=> addStopStep(u, n) \in done
  BY <1>1 DEF addStopStep
<1> QED
  BY <1>1, <1>2 DEF RunInv, StopInv, addNewVMStep, addStopStep, addStartStep

\* create-vms boots its VMs
LEMMA CreateVMsRun ==
  ASSUME GraphInv, RunInv, NEW s \in steps, Step(s), s = createVMs, Booted(Created)
  PROVE  RunInv'
<1>1. /\ pc = "run" /\ pc' = "run" /\ UNCHANGED buildVars
      /\ UNCHANGED <<attr, out, tries, results, report, success, faults>>
      /\ Ready(s) /\ s \notin done /\ done' = done \cup {s} /\ done' \subseteq steps /\ DoneInv'
  BY StepDone
<1>2. /\ UNCHANGED <<steps, deps, vm, instances, instancesBeta, late, zone, quotaIn>>
      /\ Created' = Created /\ \A u : WaitsOf(u)' = WaitsOf(u)
  BY <1>1, SameNames
<1>3. Created \subseteq VMs /\ Created \subseteq All /\ Derivative \notin Created /\ Derivative \in All
  <2>1. instances \in Seq(VMs) /\ instancesBeta \in Seq(VMs)
    BY DEF GraphInv, BuildType
  <2> QED
    BY <2>1, WorkflowAssumption DEF Created, All
<1>4. s[1] = "create-vms" /\ s[2] \notin All
  BY WorkflowAssumption DEF createVMs, S
<1>5. BootInv /\ RunType
  BY DEF RunInv
<1>6. \A t \in done : t[2] \notin All
  BY <1>1, <1>5 DEF BootInv
<1>7. \A u \in Created : boot[u] = 0
  BY <1>1, <1>3, <1>5 DEF BootInv, RunType
<1>8. /\ \A u \in Created : power'[u] = "on" /\ boot'[u] = boot[u] + 1 /\ wrap'[u] = "testing"
      /\ \A u \in All \ Created : power'[u] = power[u] /\ boot'[u] = boot[u] /\ wrap'[u] = wrap[u]
  BY <1>3 DEF Booted
<1>9. \A u \in All, n \in Nat : addStartStep(u, n) \notin done' /\ addNewVMStep(u, n) \notin done'
  BY <1>1, <1>4, <1>6 DEF addStartStep, addNewVMStep
<1>10. BootInv'
  <2>1. createVMs \in done'
    BY <1>1
  <2>2. \A t \in done' : t[2] # Derivative
    BY <1>1, <1>3, <1>4, <1>6
  <2>3. \A u \in Created' : boot'[u] > 0
    BY <1>2, <1>7, <1>8
  <2>4. ~(boot'[Derivative] > 0)
    BY <1>3, <1>5, <1>8, <1>9, <1>1 DEF BootInv
  <2>5. \A u \in All : boot'[u] > 0 => vm'[u].kind # None
    <3>1. \A u \in Created : vm[u].kind # None
      BY <1>3 DEF GraphInv, VMInv
    <3> QED
      BY <1>2, <1>5, <1>8, <3>1 DEF BootInv
  <2>6. \A u \in All : ~(boot'[u] > 1)
    BY <1>1, <1>5, <1>7, <1>8, <1>9 DEF BootInv
  <2>7. \A u \in All : /\ boot'[u] = 0 => power'[u] = "off" /\ attr'[u] = {}
                       /\ power'[u] = "off" <=> wrap'[u] = "off"
    BY <1>1, <1>5, <1>7, <1>8 DEF BootInv
  <2> QED
    BY <1>3, <1>9, <2>1, <2>2, <2>3, <2>4, <2>5, <2>6, <2>7
       DEF BootInv, addNewVMStep, addStartStep, createVMs, S
<1>11. StopInv'
  <2>1. ASSUME NEW n \in Nat, addNewVMStep(Derivative, n) \in steps, addStopStep(vm[Derivative].url, n) \in done
        PROVE  FALSE
    <3>1. vm[Derivative].url \in All
      BY <2>1 DEF GraphInv, VMInv, BuildType, VMSet, All, addNewVMStep
    <3> QED
      BY <1>6, <2>1, <3>1 DEF addStopStep
  <2> QED
    BY <1>4, <2>1, StopKept
<1> QED
  BY <1>3, <1>4, <1>10, <1>11, BootedRun DEF WaitNames

\* What holds of any step that boots one VM
LEMMA OneBoot ==
  ASSUME GraphInv, RunInv, NEW s \in steps, Step(s), s[1] \in {"create-vms-n", "start"}, s[2] \in All,
         Booted({s[2]})
  PROVE  /\ \E n \in Nat : s = <<s[1], s[2], n>>
         /\ boot'[s[2]] = boot[s[2]] + 1 /\ boot[s[2]] \in Nat
         /\ \A u \in All \ {s[2]} : power'[u] = power[u] /\ boot'[u] = boot[u] /\ wrap'[u] = wrap[u]
         /\ createVMs \in done /\ createVMs \in done'
         /\ \A u \in Created' : u # s[2] => boot'[u] > 0
         /\ \A u \in All : /\ boot'[u] > 0 => vm'[u].kind # None
                           /\ boot'[u] = 0 => power'[u] = "off" /\ attr'[u] = {}
                           /\ power'[u] = "off" <=> wrap'[u] = "off"
<1>1. /\ pc = "run" /\ pc' = "run" /\ UNCHANGED buildVars
      /\ UNCHANGED <<attr, out, tries, results, report, success, faults>>
      /\ Ready(s) /\ s \notin done /\ done' = done \cup {s} /\ done' \subseteq steps /\ DoneInv'
  BY StepDone
<1>2. /\ UNCHANGED <<steps, deps, vm, instances, instancesBeta, late, zone, quotaIn>>
      /\ Created' = Created /\ \A u : WaitsOf(u)' = WaitsOf(u)
  BY <1>1, SameNames
<1>3. \E n \in Nat : s = <<s[1], s[2], n>>
  BY StepForms DEF GraphInv
<1>4. /\ power'[s[2]] = "on" /\ boot'[s[2]] = boot[s[2]] + 1 /\ wrap'[s[2]] = "testing"
      /\ \A u \in All \ {s[2]} : power'[u] = power[u] /\ boot'[u] = boot[u] /\ wrap'[u] = wrap[u]
  BY DEF Booted
<1>5. boot[s[2]] \in Nat /\ BootInv
  BY DEF RunInv, RunType
<1>6. createVMs \in done
  BY <1>1, ReadyAfter
<1>7. vm[s[2]].kind # None
  BY DEF GraphInv, VMInv
<1>8. Created \subseteq All
  <2>1. instances \in Seq(VMs) /\ instancesBeta \in Seq(VMs)
    BY DEF GraphInv, BuildType
  <2> QED
    BY <2>1 DEF Created, All
<1>9. \A u \in Created' : u # s[2] => boot'[u] > 0
  BY <1>2, <1>4, <1>5, <1>6, <1>8 DEF BootInv
<1>10. \A u \in All : /\ boot'[u] > 0 => vm'[u].kind # None
                      /\ boot'[u] = 0 => power'[u] = "off" /\ attr'[u] = {}
                      /\ power'[u] = "off" <=> wrap'[u] = "off"
  BY <1>1, <1>2, <1>4, <1>5, <1>7 DEF BootInv
<1> QED
  BY <1>1, <1>3, <1>4, <1>5, <1>6, <1>9, <1>10

\* The step that creates the derivative VM boots it once
LEMMA NewVMRun ==
  ASSUME GraphInv, RunInv, NEW s \in steps, Step(s), s[1] = "create-vms-n", s[2] \in All, Booted({s[2]})
  PROVE  RunInv'
<1>1. /\ pc = "run" /\ pc' = "run" /\ UNCHANGED buildVars
      /\ UNCHANGED <<attr, out, tries, results, report, success, faults>>
      /\ Ready(s) /\ s \notin done /\ done' = done \cup {s} /\ done' \subseteq steps /\ DoneInv'
  BY StepDone
<1>2. /\ UNCHANGED <<steps, deps, vm, instances, instancesBeta, late, zone, quotaIn>>
      /\ Created' = Created /\ \A u : WaitsOf(u)' = WaitsOf(u)
  BY <1>1, SameNames
<1>3. /\ \E n \in Nat : s = <<s[1], s[2], n>>
      /\ boot'[s[2]] = boot[s[2]] + 1 /\ boot[s[2]] \in Nat
      /\ \A u \in All \ {s[2]} : power'[u] = power[u] /\ boot'[u] = boot[u] /\ wrap'[u] = wrap[u]
      /\ createVMs \in done /\ createVMs \in done'
      /\ \A u \in Created' : u # s[2] => boot'[u] > 0
      /\ \A u \in All : /\ boot'[u] > 0 => vm'[u].kind # None
                        /\ boot'[u] = 0 => power'[u] = "off" /\ attr'[u] = {}
                        /\ power'[u] = "off" <=> wrap'[u] = "off"
  BY OneBoot
<1>4. PICK n \in Nat : s = addNewVMStep(s[2], n)
  BY <1>3 DEF addNewVMStep
<1>5. DeriveChain(s[2], n)
  BY <1>4 DEF GraphInv, ChainInv
<1>6. s[2] = Derivative /\ s = addNewVMStep(Derivative, n)
  BY <1>4, <1>5 DEF DeriveChain
<1>7. \A m \in Nat : addNewVMStep(Derivative, m) \in steps => m = n
  BY <1>5, <1>6 DEF DeriveChain
<1>8. BootInv /\ done \subseteq steps
  BY DEF RunInv, RunType
<1>9. boot[Derivative] = 0
  BY <1>1, <1>3, <1>6, <1>7, <1>8 DEF BootInv
<1>10. Derivative \notin Created
  <2>1. instances \in Seq(VMs) /\ instancesBeta \in Seq(VMs)
    BY DEF GraphInv, BuildType
  <2> QED
    BY <2>1, WorkflowAssumption DEF Created
<1>11. \A u, m : addStartStep(u, m) \in done' <=> addStartStep(u, m) \in done
  BY <1>1 DEF addStartStep
<1>12. BootInv'
  <2>1. addNewVMStep(Derivative, n) \in done'
    BY <1>1, <1>6
  <2>2. boot'[Derivative] > 0 /\ ~(boot'[Derivative] > 1)
    BY <1>3, <1>6, <1>9
  <2>3. \A u \in Created' : boot'[u] > 0
    BY <1>2, <1>3, <1>6, <1>10
  <2>4. ASSUME NEW u \in All PROVE boot'[u] > 1 <=> \E m \in Nat : addStartStep(u, m) \in done'
    <3>1. CASE u = Derivative
      BY <1>8, <1>9, <1>11, <2>2, <3>1 DEF BootInv
    <3>2. CASE u # Derivative
      BY <1>3, <1>6, <1>8, <1>11, <3>2 DEF BootInv
    <3> QED
      BY <3>1, <3>2
  <2> QED
    BY <1>3, <2>1, <2>2, <2>3, <2>4 DEF BootInv, addNewVMStep, addStartStep, createVMs, S
<1>13. StopInv'
  <2>1. ASSUME NEW m \in Nat, addNewVMStep(Derivative, m) \in steps, addStopStep(vm[Derivative].url, m) \in done
        PROVE  power'[vm[Derivative].url] = power[vm[Derivative].url]
    <3>1. vm[Derivative].url \in VMs
      BY <1>6 DEF GraphInv, VMInv, BuildType, VMSet, All, addNewVMStep
    <3> QED
      BY <1>3, <1>6, <3>1, WorkflowAssumption DEF All
  <2> QED
    BY <2>1, StopKept
<1> QED
  BY <1>12, <1>13, BootedRun DEF WaitNames

\* A start boots its VM again, unless the VM has given its disk away
LEMMA StartRun ==
  ASSUME GraphInv, RunInv, NEW s \in steps, Step(s), s[1] = "start", s[2] \in All, Booted({s[2]})
  PROVE  RunInv'
<1>1. /\ pc = "run" /\ pc' = "run" /\ UNCHANGED buildVars
      /\ UNCHANGED <<attr, out, tries, results, report, success, faults>>
      /\ Ready(s) /\ s \notin done /\ done' = done \cup {s} /\ done' \subseteq steps /\ DoneInv'
  BY StepDone
<1>2. /\ UNCHANGED <<steps, deps, vm, instances, instancesBeta, late, zone, quotaIn>>
      /\ Created' = Created /\ \A u : WaitsOf(u)' = WaitsOf(u)
  BY <1>1, SameNames
<1>3. /\ \E n \in Nat : s = <<s[1], s[2], n>>
      /\ boot'[s[2]] = boot[s[2]] + 1 /\ boot[s[2]] \in Nat
      /\ \A u \in All \ {s[2]} : power'[u] = power[u] /\ boot'[u] = boot[u] /\ wrap'[u] = wrap[u]
      /\ createVMs \in done /\ createVMs \in done'
      /\ \A u \in Created' : u # s[2] => boot'[u] > 0
      /\ \A u \in All : /\ boot'[u] > 0 => vm'[u].kind # None
                        /\ boot'[u] = 0 => power'[u] = "off" /\ attr'[u] = {}
                        /\ power'[u] = "off" <=> wrap'[u] = "off"
  BY OneBoot
<1>4. PICK v \in All : v = s[2]
  OBVIOUS
<1>5. PICK n \in Nat : s = addStartStep(v, n)
  BY <1>3, <1>4 DEF addStartStep
<1>6. BootInv /\ done \subseteq steps
  BY DEF RunInv, RunType
<1>7. addWaitStoppedStep(v, n) \in done
  <2>1. <<addStartStep(v, n), addWaitStoppedStep(v, n)>> \in deps
    BY <1>5 DEF GraphInv, ChainInv
  <2> QED
    BY <1>1, <1>5, <2>1 DEF Ready
<1>8. boot[v] > 0
  BY <1>7, DoneBooted DEF addWaitStoppedStep, Chained
<1>9. \A u, m : addNewVMStep(u, m) \in done' <=> addNewVMStep(u, m) \in done
  BY <1>1 DEF addNewVMStep
<1>10. BootInv'
  <2>1. boot'[v] > 1
    BY <1>3, <1>4, <1>8
  <2>2. \A u \in Created' : boot'[u] > 0
    BY <1>3, <1>4, <1>8
  <2>3. boot'[Derivative] > 0 <=> boot[Derivative] > 0
    BY <1>3, <1>4, <1>8 DEF All
  <2>4. boot'[Derivative] > 0 <=> \E m \in Nat : addNewVMStep(Derivative, m) \in done'
    BY <1>6, <1>9, <2>3 DEF BootInv
  <2>5. ASSUME NEW u \in All PROVE boot'[u] > 1 <=> \E m \in Nat : addStartStep(u, m) \in done'
    <3>1. CASE u = v
      BY <1>1, <1>5, <2>1, <3>1
    <3>2. CASE u # v
      <4>1. \A m : addStartStep(u, m) \in done' <=> addStartStep(u, m) \in done
        BY <1>1, <1>4, <3>2 DEF addStartStep
      <4> QED
        BY <1>3, <1>4, <1>6, <3>2, <4>1 DEF BootInv
    <3> QED
      BY <3>1, <3>2
  <2>6. \A t \in done' : t[2] = Derivative /\ t[1] \in Chained =>
          \E m \in Nat : addNewVMStep(Derivative, m) \in done'
    BY <1>1, <1>6, <1>9, ReadyAfter DEF BootInv
  <2> QED
    BY <1>3, <2>2, <2>4, <2>5, <2>6 DEF BootInv, addNewVMStep, addStartStep, createVMs, S
<1>11. StopInv'
  <2>1. ASSUME NEW m \in Nat, addNewVMStep(Derivative, m) \in steps, addStopStep(vm[Derivative].url, m) \in done
        PROVE  power'[vm[Derivative].url] = power[vm[Derivative].url]
    <3>1. vm[Derivative].url \in All
      BY <2>1 DEF GraphInv, VMInv, BuildType, VMSet, All, addNewVMStep
    <3>2. CASE vm[Derivative].url # v
      BY <1>3, <1>4, <3>1, <3>2
    <3>3. CASE vm[Derivative].url = v
      <4>1. DeriveChain(Derivative, m)
        BY <2>1 DEF GraphInv, ChainInv, All
      <4>2. n < m
        BY <1>5, <3>3, <4>1 DEF DeriveChain
      <4>3. addStartStep(v, n) \in done
        BY <1>5, <2>1, <3>3, <4>2 DEF RunInv, StopInv
      <4> QED
        BY <1>1, <1>5, <4>3
    <3> QED
      BY <3>2, <3>3
  <2> QED
    BY <2>1, StopKept
<1> QED
  BY <1>10, <1>11, BootedRun DEF WaitNames

\* The steps by their names: those that do something to a VM are steps of one
LEMMA StepNames ==
  ASSUME BuildType, NEW s \in steps
  PROVE  /\ s[1] = "create-vms" <=> s = createVMs
         /\ s[1] \in Chained \cup {"create-vms-n", "wait-suspended", "resume"} <=> s[2] \in All
         /\ s[2] = None <=> s[2] \notin All
<1>1. CASE s[2] \in All
  <2>1. s[1] \in Chained \cup {"create-vms-n", "wait-suspended", "resume"}
    BY <1>1, StepForms
  <2> QED
    BY <1>1, <2>1, WorkflowAssumption DEF Chained, createVMs, S
<1>2. CASE s[2] \notin All
  <2>1. s \in GlobalSteps
    BY <1>2, StepForms
  <2>2. s[2] = None /\ s[1] \notin Chained \cup {"create-vms-n", "wait-suspended", "resume"}
    BY <2>1, GlobalForm
  <2>3. s[1] = "create-vms" <=> s = createVMs
    BY <2>1 DEF GlobalSteps, S, createDisks, createVMs, createNetworks, createSubnets, createFirewalls,
                vmQuota, diskQuota, copyObjects
  <2> QED
    BY <1>2, <2>2, <2>3
<1> QED
  BY <1>1, <1>2

\* Every step of daisy keeps the invariant
LEMMA StepRun ==
  ASSUME GraphInv, RunInv, NEW s \in steps, Step(s)
  PROVE  RunInv'
<1>1. /\ pc = "run" /\ pc' = "run" /\ UNCHANGED buildVars
      /\ UNCHANGED <<attr, out, tries, results, report, success, faults>>
      /\ Ready(s) /\ s \notin done /\ done' = done \cup {s} /\ done' \subseteq steps /\ DoneInv'
  BY StepDone
<1>2. /\ s[1] = "create-vms" <=> s = createVMs
      /\ s[1] \in Chained \cup {"create-vms-n", "wait-suspended", "resume"} <=> s[2] \in All
      /\ s[2] = None <=> s[2] \notin All
  BY StepNames DEF GraphInv
<1>3. CASE s[1] = "create-vms" /\ Booted(Created)
  BY <1>2, <1>3, CreateVMsRun
<1>4. CASE s[1] \in {"create-vms-n", "start"} /\ Booted({s[2]})
  <2>1. s[2] \in All
    BY <1>2, <1>4 DEF Chained
  <2> QED
    BY <1>4, <2>1, NewVMRun, StartRun
<1>5. CASE s[1] = "stop" /\ Power(s[2], "off") /\ wrap' = [wrap EXCEPT ![s[2]] = "off"]
  <2>1. s[2] \in All
    BY <1>2, <1>5 DEF Chained
  <2> QED
    BY <1>5, <2>1, StopRun
<1>6. CASE s[1] = "resume" /\ power[s[2]] = "suspended" /\ Power(s[2], "on") /\ UNCHANGED wrap
  <2>1. s[2] \in All
    BY <1>2, <1>6
  <2>2. createVMs \in done
    BY <1>1, <2>1, ReadyAfter
  <2>3. power' = [power EXCEPT ![s[2]] = "on"] /\ boot' = boot
    BY <1>6 DEF Power
  <2>4. \A t \in done' \ done : t[1] = "resume" /\ t[2] = s[2] /\ createVMs \in done
    BY <1>1, <1>6, <2>2
  <2>5. UNCHANGED <<boot, wrap, attr, out, tries, results, report, success, faults>> /\ done \subseteq done'
    BY <1>1, <1>6, <2>3
  <2> QED
    BY <1>1, <1>6, <2>1, <2>3, <2>4, <2>5, PowerRun
<1>7. CASE /\ \/ s[1] \in {"wait", "wait-first-boot", "wait-started"} /\ Signalled(s)
              \/ s[1] = "wait-stopped" /\ power[s[2]] = "off"
              \/ s[1] = "wait-suspended" /\ power[s[2]] = "suspended"
              \/ s[1] \in {"resize-disk", "detach-disk"}
              \/ s[2] = None /\ s # createVMs
           /\ UNCHANGED <<power, boot, wrap>>
  <2>1. s[1] \notin {"create-vms", "create-vms-n", "start", "stop"}
    BY <1>2, <1>7 DEF Chained
  <2>2. s[1] \in WaitNames => s[2] \in All /\ Signalled(s)
    BY <1>2, <1>7 DEF Chained, WaitNames
  <2> QED
    BY <1>7, <2>1, <2>2, QuietRun
<1> QED
  BY <1>3, <1>4, <1>5, <1>6, <1>7 DEF Step

\* And so does everything that happens on a VM
LEMMA VMRun ==
  ASSUME GraphInv, RunInv, NEW v \in All, RunVM(v) \/ Fatal(v)
  PROVE  RunInv'
<1>1. CASE Suspend(v)
  <2>1. /\ pc = "run" /\ pc' = "run" /\ UNCHANGED buildVars
        /\ UNCHANGED <<done, boot, wrap, attr, out, tries, results, report, success, faults>>
        /\ power[v] # "off" /\ power' = [power EXCEPT ![v] = "suspended"]
    BY <1>1 DEF Suspend, Power
  <2>2. steps' = steps /\ deps' = deps
    BY <2>1, SameNames
  <2>3. done \subseteq done' /\ done' \subseteq steps /\ DoneInv' /\ done' \ done = {}
    BY <2>1, <2>2 DEF RunInv, RunType, DoneInv
  <2> QED
    BY <2>1, <2>3, PowerRun
<1>2. CASE \E o \in {"pass", "fail"} : RunTests(v, o)
  BY <1>2, RunTestsRun
<1>3. CASE Upload(v)
  <2>1. CASE ~UNCHANGED faults
    BY <1>3, <2>1, FailRun
  <2>2. CASE UNCHANGED faults
    <3>1. faults + 1 # faults
      BY WorkflowAssumption DEF RunInv, RunType
    <3>2. /\ UNCHANGED <<out, tries, faults>>
          /\ results' = [results EXCEPT ![vm[v].url] = [out |-> out[v], boot |-> boot[v], by |-> v]]
          /\ wrap' = [wrap EXCEPT ![v] = "finish"]
      BY <1>3, <2>2, <3>1 DEF Upload
    <3> QED
      BY <1>3, <3>2, UploadRun
  <2> QED
    BY <2>1, <2>2
<1>4. CASE FinishTest(v)
  BY <1>4, FinishRun
<1>5. CASE Fatal(v)
  BY <1>5, FailRun
<1> QED
  BY <1>1, <1>2, <1>3, <1>4, <1>5 DEF RunVM

\* The VMs of step create-vms have their results under their own names
LEMMA CreatedURL ==
  ASSUME GraphInv, NEW v \in Created
  PROVE  v \in VMs /\ v \in All /\ vm[v].kind # None /\ vm[v].url = v
<1>1. v \in VMs
  BY DEF GraphInv, BuildType, Created
<1>2. v \in All /\ vm[v].kind # None
  BY <1>1 DEF GraphInv, VMInv, All
<1> QED
  BY <1>1, <1>2 DEF GraphInv, VMInv

\* When the objects are copied all waits are over
LEMMA AllWaited ==
  ASSUME GraphInv, RunInv, copyObjects \in done
  PROVE  \A s \in steps : s[1] \in WaitKinds => s \in done
<1>1. pc \in {"run", "ended"}
  BY DEF GraphInv, BuildType, RunInv, RunType
<1> QED
  BY <1>1 DEF GraphInv, CreateInv, RunInv, DoneInv

\* What is copied is complete
LEMMA Complete ==
  ASSUME GraphInv, RunInv
  PROVE  CopiedComplete
<1> SUFFICES ASSUME copyObjects \in done, NEW v \in Created
             PROVE  /\ results[v] # NoResult
                    /\ (Sure(v) /\ results[v].by = v) => results[v].boot = boot[v]
  BY DEF CopiedComplete
<1>1. v \in VMs /\ v \in All /\ vm[v].kind # None /\ vm[v].url = v
  BY CreatedURL
<1>2. \A s \in steps : s[1] \in WaitKinds => s \in done
  BY AllWaited
<1>3. Waited(v)
  <2>1. FirstWait(v, vm[v].kind) \in steps
    BY <1>1 DEF GraphInv, VMInv
  <2>2. FirstWait(v, vm[v].kind) \in WaitsOf(v)
    BY <2>1 DEF WaitsOf, FirstWait, addWaitRebootGAStep, addWaitStep
  <2>3. FirstWait(v, vm[v].kind) \in done
    BY <1>2, <2>1 DEF FirstWait, addWaitRebootGAStep, addWaitStep, WaitKinds
  <2> QED
    BY <2>2, <2>3 DEF Waited
<1>4. results[v] # NoResult
  <2>1. ResultThere(v)
    BY <1>1 DEF RunInv, UploadInv
  <2> QED
    BY <1>1, <1>3, <2>1 DEF ResultThere
<1>5. ASSUME Sure(v), results[v].by = v PROVE results[v].boot = boot[v]
  <2>1. results[v] \in ResultSet
    BY <1>1, <1>4 DEF RunInv, RunType
  <2>2. results[v].boot \in Nat \ {0} /\ boot[v] \in Nat
    BY <1>1, <2>1 DEF ResultSet, RunInv, RunType
  <2>3. ResultFrom(v, results[v].by)
    BY <1>1, <1>4 DEF RunInv, UploadInv
  <2>4. results[v].boot <= boot[v]
    BY <1>5, <2>3 DEF ResultFrom
  <2>5. CASE boot[v] <= 1
    BY <2>2, <2>4, <2>5
  <2>6. CASE ~(boot[v] <= 1)
    <3>1. vm[v].kind = "reboot" /\ boot[v] = 2
      BY <1>5, <2>2, <2>6 DEF Sure
    <3>2. PICK n \in Nat : addStartStep(v, n) \in done
      BY <1>1, <2>2, <2>6 DEF RunInv, BootInv
    <3>3. addWaitStep("wait-started", v, n) \in WaitsOf(v)
      BY <1>1, <3>2, StartDone DEF RunInv, RunType
    <3>4. addWaitStep("wait-started", v, n) \in done
      BY <1>2, <3>3 DEF WaitsOf, addWaitStep, WaitKinds
    <3>5. Restarted(v)
      BY <3>4 DEF Restarted
    <3>6. SecondBoot(v)
      BY <1>1 DEF RunInv, UploadInv
    <3> QED
      BY <1>5, <3>1, <3>5, <3>6 DEF SecondBoot
  <2> QED
    BY <2>5, <2>6
<1> QED
  BY <1>4, <1>5

\* The verdict that parseResult gives for a test that printed one
LEMMA Verdict ==
  ASSUME NEW v \in Created, results[v].out \in {"pass", "fail"}
  PROVE  parseResult[v] = IF results[v].out = "pass" THEN "passed" ELSE "failed"
<1> DEFINE os == [u \in ReadVMs |-> results[u].out]
           cases == convertToTestSuite(os)
           verdict == IF results[v].out = "pass" THEN "passed" ELSE "failed"
<1>1. v \in DOMAIN os /\ os[v] = results[v].out
  BY DEF ReadVMs
<1>2. ASSUME NEW r PROVE <<v, r>> \in cases <=> r = verdict
  <2>1. cases = {<<u, IF os[u] = "pass" THEN "passed" ELSE "failed">> :
                   u \in {w \in DOMAIN os : os[w] \in {"pass", "fail"}}}
    BY DEF convertToTestSuite
  <2> HIDE DEF cases, os
  <2>2. ASSUME <<v, r>> \in cases PROVE r = verdict
    BY <1>1, <2>1, <2>2
  <2>3. <<v, verdict>> \in cases
    <3>1. v \in {w \in DOMAIN os : os[w] \in {"pass", "fail"}}
      BY <1>1
    <3> QED
      BY <1>1, <2>1, <3>1
  <2> QED
    BY <2>2, <2>3
<1>3. parseResult = [u \in ReadVMs |-> IF \E r \in {"passed", "failed"} : <<u, r>> \in cases
                                       THEN CHOOSE r \in {"passed", "failed"} : <<u, r>> \in cases
                                       ELSE "disabled"]
  BY DEF parseResult
<1> HIDE DEF cases, os
<1>4. verdict \in {"passed", "failed"}
  OBVIOUS
<1> HIDE DEF verdict
<1>5. \E r \in {"passed", "failed"} : <<v, r>> \in cases
  BY <1>2, <1>4
<1>6. (CHOOSE r \in {"passed", "failed"} : <<v, r>> \in cases) = verdict
  BY <1>2, <1>4
<1>7. parseResult[v] = verdict
  BY <1>3, <1>5, <1>6 DEF ReadVMs
<1> QED
  BY <1>7 DEF verdict

\* The end of a workflow leaves what ran as it is
LEMMA EndRun ==
  ASSUME GraphInv, RunInv, pc = "run", pc' = "ended", UNCHANGED buildVars,
         UNCHANGED <<done, power, boot, wrap, attr, out, tries, results>>,
         success' \in BOOLEAN, faults' \in 0..MaxFaults, faults' = 0 => faults = 0, OutcomeInv'
  PROVE  RunInv'
<1>1. /\ UNCHANGED <<steps, deps, vm, instances, instancesBeta, late, zone, quotaIn>>
      /\ Created' = Created /\ \A u : WaitsOf(u)' = WaitsOf(u)
  BY SameNames
<1>2. \A u : Waited(u)' = Waited(u) /\ Restarted(u)' = Restarted(u)
  BY <1>1 DEF Waited, Restarted, addWaitStep
<1>3. RunType'
  BY <1>1 DEF RunInv, RunType, None
<1>4. DoneInv'
  BY <1>1 DEF RunInv, DoneInv
<1>5. BootInv'
  BY <1>1 DEF RunInv, BootInv, addNewVMStep, addStartStep, createVMs, S
<1>6. StopInv'
  BY <1>1 DEF RunInv, StopInv, addNewVMStep, addStartStep, addStopStep
<1>7. SignalInv'
  BY <1>1, <1>2 DEF RunInv, SignalInv, Ended
<1>8. UploadInv'
  BY <1>1, <1>2 DEF RunInv, UploadInv, ResultThere, ResultFrom, SecondBoot, NoResult, All
<1> QED
  BY <1>3, <1>4, <1>5, <1>6, <1>7, <1>8 DEF RunInv

\* Every way to end keeps the invariant: a failure has a cause, a success the right verdicts
LEMMA EndsRun ==
  ASSUME GraphInv, RunInv, Succeed \/ TimeOut \/ Fail
  PROVE  RunInv'
<1>1. /\ pc = "run" /\ pc' = "ended" /\ UNCHANGED buildVars
      /\ UNCHANGED <<done, power, boot, wrap, attr, out, tries, results>>
  BY DEF Succeed, TimeOut, Fail, RunFails
<1>2. faults \in 0..MaxFaults /\ success = FALSE /\ MaxFaults \in Nat
  BY <1>1, WorkflowAssumption DEF RunInv, RunType, OutcomeInv
<1>3. /\ UNCHANGED <<steps, deps, vm, instances, instancesBeta, late, zone, quotaIn>>
      /\ Created' = Created /\ \A u : WaitsOf(u)' = WaitsOf(u)
  BY <1>1, SameNames
<1>4. ASSUME faults' \in 0..MaxFaults, faults' > 0, success' = FALSE PROVE RunInv'
  <2>1. OutcomeInv'
    BY <1>1, <1>4 DEF OutcomeInv, FailsForCause
  <2>2. success' \in BOOLEAN
    BY <1>4
  <2>3. faults' = 0 => faults = 0
    BY <1>4
  <2> QED
    BY <1>1, <1>4, <2>1, <2>2, <2>3, EndRun
<1>5. CASE Fail
  <2>1. faults' = faults + 1 /\ faults < MaxFaults /\ success' = success
    BY <1>5 DEF Fail, RunFails
  <2>2. faults' \in 0..MaxFaults /\ faults' > 0
    BY <1>2, <2>1
  <2>3. success' = FALSE
    BY <1>2, <2>1
  <2> QED
    BY <1>4, <2>2, <2>3
<1>6. CASE TimeOut
  <2>1. PICK s \in steps : s[1] \in VMWaits /\ wrap[s[2]] = "dead"
    BY <1>6 DEF TimeOut
  <2>2. s[2] \in All
    BY <2>1, StepNames DEF GraphInv, VMWaits, Chained
  <2>3. faults > 0
    BY <1>2, <2>1, <2>2 DEF RunInv, UploadInv
  <2> QED
    BY <1>2, <1>4, <1>6, <2>3 DEF TimeOut, RunFails
<1>7. CASE Succeed
  <2>1. copyObjects \in done
    BY <1>1, <1>7 DEF Succeed, GraphInv, CreateInv
  <2>2. \A v \in Created : /\ results[v] # NoResult
                           /\ (Sure(v) /\ results[v].by = v) => results[v].boot = boot[v]
    BY <2>1, Complete DEF CopiedComplete
  <2>3. {v \in ReadVMs : results[v] = NoResult} = {}
    BY <2>2 DEF ReadVMs
  <2>4. CASE success' = TRUE /\ report' = parseResult /\ UNCHANGED faults
    <3>1. ASSUME NEW v \in Created, faults = 0, Sure(v), Sure(results[v].by)
          PROVE  report'[v] = IF out[results[v].by] = "pass" THEN "passed" ELSE "failed"
      <4>1. v \in VMs /\ v \in All /\ vm[v].kind # None /\ vm[v].url = v
        BY CreatedURL
      <4>2. results[v] # NoResult
        BY <2>2
      <4>3. results[v] \in ResultSet
        BY <4>1, <4>2 DEF RunInv, RunType
      <4>4. PICK w \in All : w = results[v].by
        BY <4>3 DEF ResultSet
      <4>5. results[v].boot \in Nat \ {0} /\ boot[w] \in Nat /\ results[v].out \in {"pass", "fail", "nothing"}
        BY <4>3 DEF ResultSet, RunInv, RunType
      <4>6. ResultFrom(v, w)
        BY <4>1, <4>2, <4>4 DEF RunInv, UploadInv
      <4>7. results[v].boot = boot[w]
        <5>1. CASE w = v
          BY <2>2, <3>1, <4>4, <5>1
        <5>2. CASE w # v
          <6>1. vm[w].url = v /\ v # None
            BY <4>1, <4>6, WorkflowAssumption DEF ResultFrom
          <6>2. w = Derivative
            BY <5>2, <6>1 DEF GraphInv, VMInv, All
          <6>3. vm[w].kind # None
            BY <6>1 DEF GraphInv, VMInv
          <6>4. vm[w].kind = "plain"
            BY <6>2, <6>3 DEF GraphInv, VMInv
          <6>5. boot[w] <= 1
            BY <3>1, <4>4, <6>4 DEF Sure
          <6>6. results[v].boot <= boot[w]
            BY <4>6 DEF ResultFrom
          <6> QED
            BY <4>5, <6>5, <6>6
        <5> QED
          BY <5>1, <5>2
      <4>8. results[v].out = out[w] /\ results[v].out \in {"pass", "fail"}
        BY <3>1, <4>5, <4>6, <4>7 DEF ResultFrom
      <4> QED
        BY <2>4, <4>4, <4>8, Verdict
    <3>2. OutcomeInv'
      BY <1>1, <1>3, <2>4, <3>1 DEF OutcomeInv, FailsForCause, Sure
    <3> QED
      BY <1>1, <1>2, <2>4, <3>2, EndRun
  <2>5. CASE faults < MaxFaults /\ faults' = faults + 1 /\ UNCHANGED success
    <3>1. faults' \in 0..MaxFaults /\ faults' > 0
      BY <1>2, <2>5
    <3>2. success' = FALSE
      BY <1>2, <2>5
    <3> QED
      BY <1>4, <3>1, <3>2
  <2> QED
    BY <1>7, <2>3, <2>4, <2>5 DEF Succeed
<1> QED
  BY <1>5, <1>6, <1>7

\* At the start nothing runs
LEMMA InitRun ==
  ASSUME Init
  PROVE  RunInv
<1>1. /\ pc = "setup" /\ done = {} /\ success = FALSE /\ faults = 0
      /\ power = [v \in All |-> "off"] /\ boot = [v \in All |-> 0] /\ wrap = [v \in All |-> "off"]
      /\ attr = [v \in All |-> {}] /\ out = [v \in All |-> None] /\ tries = [v \in All |-> 0]
      /\ results = [v \in All |-> NoResult] /\ instances = <<>> /\ instancesBeta = <<>>
  BY DEF Init
<1>2. Created = {}
  BY <1>1 DEF Created
<1>3. \A v \in All : /\ power[v] = "off" /\ boot[v] = 0 /\ wrap[v] = "off" /\ attr[v] = {}
                     /\ out[v] = None /\ results[v] = NoResult
  BY <1>1
<1>4. RunType
  <2>1. MaxUploads \in Nat /\ MaxFaults \in Nat
    BY WorkflowAssumption
  <2>2. /\ done \subseteq steps /\ power \in [All -> {"off", "on", "suspended"}] /\ boot \in [All -> Nat]
        /\ wrap \in [All -> {"off", "testing", "upload", "finish", "end", "dead"}]
        /\ attr \in [All -> SUBSET {"first-boot-key", "test-complete"}]
        /\ out \in [All -> {None, "pass", "fail", "nothing"}]
        /\ results \in [All -> ResultSet \cup {NoResult}]
    BY <1>1
  <2>3. tries \in [All -> 0..MaxUploads] /\ faults \in 0..MaxFaults
    BY <1>1, <2>1
  <2>4. success \in BOOLEAN
    BY <1>1
  <2> QED
    BY <1>1, <1>3, <2>2, <2>3, <2>4 DEF RunType
<1>5. DoneInv
  BY <1>1 DEF DoneInv
<1>6. BootInv
  BY <1>1, <1>2, <1>3 DEF BootInv, All
<1>7. StopInv
  BY <1>1 DEF StopInv
<1>8. SignalInv
  BY <1>3 DEF SignalInv
<1>9. UploadInv
  <2>1. \A v \in All : ~Waited(v)
    BY <1>1 DEF Waited
  <2>2. \A v \in All : ResultThere(v)
    BY <1>3, <2>1 DEF ResultThere
  <2>3. \A v \in VMs : SecondBoot(v)
    BY <1>3 DEF SecondBoot, All
  <2> QED
    BY <1>3, <2>2, <2>3 DEF UploadInv, None
<1>10. OutcomeInv
  BY <1>1 DEF OutcomeInv, FailsForCause
<1> QED
  BY <1>4, <1>5, <1>6, <1>7, <1>8, <1>9, <1>10 DEF RunInv

\* No fixture touches what runs
LEMMA SetupFrame ==
  ASSUME Setup
  PROVE  pc = "setup" /\ pc' \in {"setup", "refused"} /\ UNCHANGED runVars
<1>2. CASE \E v \in suite.vms : CreateTestVM(v) \/ CreateTestVMBeta(v)
  BY <1>2 DEF CreateTestVM, CreateTestVMBeta, Call, NewVM, Refuse
<1>3. CASE \E v \in suite.vms : \E k \in suite.kinds :
             CreateTestVMMultipleDisks(v, k) \/ CreateTestVMFromInstanceBeta(v, k)
  BY <1>3 DEF CreateTestVMMultipleDisks, CreateTestVMFromInstanceBeta, Call, NewVM, Refuse
<1>4. CASE (\E a \in BOOLEAN : CreateNetwork(a)) \/ CreateSubnetwork \/ CreateFirewallRule
  BY <1>4 DEF CreateNetwork, CreateSubnetwork, CreateFirewallRule, Call, runVars
<1>5. CASE \E v \in All : \E sub \in {{}, {createSubnets}} : AddCustomNetwork(v, sub)
  BY <1>5 DEF AddCustomNetwork, Call, Refuse
<1>6. CASE \E v \in All : Reboot(v) \/ ResizeDiskAndReboot(v) \/ Resume(v)
  BY <1>6 DEF Reboot, ResizeDiskAndReboot, Resume, Extend, Call
<1>7. CASE \E v \in All : \E z \in Zones : ForceZone(v, z)
  BY <1>7 DEF ForceZone, Call
<1>8. CASE \E v \in All : UseGVNIC(v)
  BY <1>8 DEF UseGVNIC, Call
<1>9. CASE \E v \in suite.vms : CreateDerivativeVM(v)
  BY <1>9 DEF CreateDerivativeVM, Extend, Call
<1>10. CASE WaitForVMQuota \/ WaitForDisksQuota
  BY <1>10 DEF WaitForVMQuota, WaitForDisksQuota, waitForQuotaStep, Call
<1> QED
  BY <1>2, <1>3, <1>4, <1>5, <1>6, <1>7, <1>8, <1>9, <1>10 DEF Setup

\* RunInv is inductive
LEMMA NextRun ==
  ASSUME GraphInv, GraphInv', RunInv, [Next]_vars
  PROVE  RunInv'
<1>1. CASE Setup
  BY <1>1, SetupFrame, SetupRun
<1>2. CASE Finalize
  BY <1>2, SetupRun DEF Finalize
<1>3. CASE RunStep
  BY <1>3, StepRun, EndsRun, VMRun DEF RunStep
<1>4. CASE UNCHANGED vars
  <2>1. /\ UNCHANGED buildVars
        /\ UNCHANGED <<pc, done, power, boot, wrap, attr, out, tries, results, report, success, faults>>
    BY <1>4 DEF vars, runVars
  <2>2. /\ UNCHANGED <<steps, deps, vm, instances, instancesBeta, late, zone, quotaIn>>
        /\ Created' = Created /\ \A u : WaitsOf(u)' = WaitsOf(u)
    BY <2>1, SameNames
  <2>3. \A u : Waited(u)' = Waited(u) /\ Restarted(u)' = Restarted(u)
    BY <2>1, <2>2 DEF Waited, Restarted, addWaitStep
  <2>4. RunType' /\ DoneInv'
    BY <2>1, <2>2 DEF RunInv, RunType, DoneInv, None
  <2>5. BootInv' /\ StopInv'
    BY <2>1, <2>2 DEF RunInv, BootInv, StopInv, addNewVMStep, addStartStep, addStopStep, createVMs, S
  <2>6. SignalInv'
    BY <2>1, <2>2, <2>3 DEF RunInv, SignalInv, Ended
  <2>7. UploadInv'
    BY <2>1, <2>2, <2>3 DEF RunInv, UploadInv, ResultThere, ResultFrom, SecondBoot, NoResult, All
  <2>8. OutcomeInv'
    BY <2>1, <2>2 DEF RunInv, OutcomeInv, FailsForCause, Sure
  <2> QED
    BY <2>4, <2>5, <2>6, <2>7, <2>8 DEF RunInv
<1> QED
  BY <1>1, <1>2, <1>3, <1>4, NextCases

-----------------------------------------------------------------------------
(* The theorems *)

\* What the fixtures build, and what is done with it, at any time
THEOREM WorkflowInv == Spec => [](GraphInv /\ RunInv)
<1>1. Init => GraphInv /\ RunInv
  BY InitGraph, InitRun
<1>2. GraphInv /\ RunInv /\ [Next]_vars => (GraphInv /\ RunInv)'
  BY NextGraph, NextRun
<1> QED
  BY <1>1, <1>2, PTL DEF Spec

\* What the invariant says of the types and the walks
LEMMA TypesHold ==
  ASSUME GraphInv, RunInv
  PROVE  TypeOK
<1>1. \A d \in deps : d[1] \in steps /\ d[2] \in steps
  BY DEF GraphInv, BuildType
<1>2. \A v \in All : /\ power[v] \in {"off", "on", "suspended"}
                     /\ wrap[v] \in {"off", "testing", "upload", "finish", "end", "dead"}
                     /\ attr[v] \subseteq {"first-boot-key", "test-complete"}
                     /\ out[v] \in {None, "pass", "fail", "nothing"}
                     /\ tries[v] \in 0..MaxUploads
  BY DEF RunInv, RunType
<1>3. pc = "setup" => \A v \in All : vm[v].kind # None => Linear(v)
  BY WalkIsLinear DEF GraphInv
<1> QED
  BY <1>1, <1>2, <1>3 DEF TypeOK, GraphInv, BuildType, RunInv, RunType

\* Of what is there when a VM boots
LEMMA ResourcesThere ==
  ASSUME GraphInv, RunInv, NEW v \in All, boot[v] > 0
  PROVE  /\ createDisks \in done
         /\ vm[v].uses \ (IF late THEN {createSubnets} ELSE {}) \subseteq done
         /\ {vmQuota, diskQuota} \cap steps \subseteq done
<1>1. DoneInv /\ BootInv /\ done \subseteq steps
  BY DEF RunInv, RunType
<1>2. pc \in {"run", "ended"}
  <2>1. pc \notin {"setup", "refused"}
    BY DEF RunInv, RunType
  <2> QED
    BY <2>1 DEF GraphInv, BuildType
<1>3. createVMs \in done
  <2>1. CASE v = Derivative
    <3>1. PICK n \in Nat : addNewVMStep(Derivative, n) \in done
      BY <1>1, <2>1 DEF BootInv
    <3> QED
      BY <1>1, <3>1 DEF BootInv, addNewVMStep, All
  <2>2. CASE v # Derivative
    <3>1. vm[v].kind # None /\ v \in VMs
      BY <1>1, <2>2 DEF BootInv, All
    <3>2. v \in Created
      BY <3>1 DEF GraphInv, VMInv
    <3> QED
      BY <1>1, <3>2 DEF BootInv
  <2> QED
    BY <2>1, <2>2
<1>4. createDisks \in done
  BY <1>1, <1>3 DEF GraphInv, CreateInv, DoneInv
<1>5. {vmQuota, diskQuota} \cap steps \subseteq done
  BY <1>1, <1>2, <1>3, <1>4 DEF GraphInv, CreateInv, DoneInv
<1>6. vm[v].uses \subseteq {createNetworks, createSubnets} /\ vm[v].uses \subseteq steps
  BY DEF GraphInv, BuildType, VMSet, VMInv
<1>7. createNetworks \in steps => createNetworks \in done
  BY <1>1, <1>3 DEF GraphInv, CreateInv, DoneInv
<1>8. createSubnets \in steps => late \/ createSubnets \in done
  BY <1>1, <1>3 DEF GraphInv, CreateInv, DoneInv
<1> QED
  BY <1>4, <1>5, <1>6, <1>7, <1>8

\* Two VMs never have one disk
LEMMA OneDisk ==
  ASSUME GraphInv, RunInv, power[Derivative] # "off"
  PROVE  power[vm[Derivative].url] = "off"
<1>1. DoneInv /\ BootInv /\ done \subseteq steps /\ Derivative \in All
  BY DEF RunInv, RunType, All
<1>2. boot[Derivative] \in Nat /\ boot[Derivative] # 0
  BY <1>1 DEF RunInv, RunType, BootInv
<1>3. PICK n \in Nat : addNewVMStep(Derivative, n) \in done
  BY <1>1, <1>2 DEF BootInv
<1>4. addNewVMStep(Derivative, n) \in steps
  BY <1>1, <1>3
<1>5. DeriveChain(Derivative, n)
  BY <1>1, <1>4 DEF GraphInv, ChainInv
<1>6. PICK u \in All : u = vm[Derivative].url
  BY <1>4 DEF GraphInv, VMInv, BuildType, VMSet, All, addNewVMStep
<1>7. appendDetachDiskStep(u, n) \in done
  BY <1>1, <1>3, <1>5, <1>6 DEF DeriveChain, DoneInv
<1>8. ChainInv!(u)!(n)
  BY DEF GraphInv, ChainInv
<1>9. <<appendDetachDiskStep(u, n), addWaitStoppedStep(u, n)>> \in deps
  BY <1>1, <1>7, <1>8
<1>10. addWaitStoppedStep(u, n) \in done
  BY <1>1, <1>7, <1>9 DEF DoneInv
<1>11. <<addWaitStoppedStep(u, n), addStopStep(u, n)>> \in deps
  BY <1>1, <1>8, <1>10
<1>12. addStopStep(u, n) \in done
  BY <1>1, <1>10, <1>11 DEF DoneInv
<1> QED
  BY <1>4, <1>6, <1>12 DEF RunInv, StopInv

\* A VM exists only after all it refers to and after the quota its suite asked for, whatever
\* the fixtures and their order, and a derivative VM runs only when its source is off for
\* good (fixtures.go, the append functions of testworkflow.go and finalizeWorkflows).  The
\* walk of getLastStepForVM never meets a fork, which is a conjunct of TypeOK
THEOREM ResourcesAreFirst == Spec => []ResourcesFirst
<1>1. GraphInv /\ RunInv => ResourcesFirst
  BY TypesHold, ResourcesThere, OneDisk DEF ResourcesFirst
<1> QED
  BY <1>1, WorkflowInv, PTL

\* No verdict is lost between the VMs and the report (uploadGCSObject of the wrapper,
\* copy-objects, getTestResults and parseResult)
THEOREM VerdictIsKept == Spec => []VerdictKept
<1>1. GraphInv /\ RunInv => VerdictKept
  BY Complete DEF VerdictKept, RunInv, OutcomeInv
<1> QED
  BY <1>1, WorkflowInv, PTL

\* Only a stop turns a VM off
LEMMA OnlyStop ==
  ASSUME GraphInv, RunInv, [Next]_vars, NEW v \in All, power[v] = "on", power'[v] = "off"
  PROVE  \E n \in Nat : Step(addStopStep(v, n)) /\ addStopStep(v, n) \in steps
<1>1. power' # power /\ RunType
  BY DEF RunInv, RunType
<1>2. ~UNCHANGED vars /\ ~Setup /\ ~Finalize
  BY <1>1, SetupFrame DEF vars, runVars, Finalize
<1>3. RunStep
  BY <1>2, NextCases
<1>4. ~(Succeed \/ TimeOut \/ Fail)
  BY <1>1 DEF Succeed, TimeOut, Fail, RunFails
<1>5. ASSUME NEW u \in All, RunVM(u) \/ Fatal(u) PROVE FALSE
  <2>1. Suspend(u)
    BY <1>1, <1>5 DEF RunVM, RunTests, Upload, FinishTest, Fatal
  <2>2. power' = [power EXCEPT ![u] = "suspended"]
    BY <2>1 DEF Suspend, Power
  <2> QED
    BY <1>1, <2>2 DEF RunType
<1>6. PICK s \in steps : Step(s)
  BY <1>3, <1>4, <1>5 DEF RunStep
<1>7. Power(s[2], "off") /\ s[1] = "stop"
  <2>1. ASSUME NEW V, Booted(V) PROVE FALSE
    BY <2>1 DEF Booted
  <2>2. ASSUME Power(s[2], "on") PROVE FALSE
    BY <1>1, <2>2 DEF Power, RunType
  <2> QED
    BY <1>1, <1>6, <2>1, <2>2 DEF Step
<1>8. s[2] \in All
  BY <1>7, StepNames DEF GraphInv, Chained
<1>9. s[2] = v
  BY <1>1, <1>7, <1>8 DEF Power, RunType
<1> QED
  BY <1>6, <1>7, <1>8, <1>9, StepForms DEF GraphInv, addStopStep

\* No VM is stopped in the middle of its tests: a stop waits for the boot before it
\* (Reboot, ResizeDiskAndReboot and CreateDerivativeVM on getLastStepForVM)
THEOREM NoVMIsCut == Spec => NeverCut
<1>1. ASSUME GraphInv, RunInv, [Next]_vars, NEW v \in All, power[v] = "on", power'[v] = "off", Sure(v)
      PROVE  wrap[v] = "end"
  <2>1. PICK n \in Nat : Step(addStopStep(v, n)) /\ addStopStep(v, n) \in steps
    BY <1>1, OnlyStop
  <2>2. Ready(addStopStep(v, n)) /\ addStopStep(v, n) \notin done
    BY <1>1, <2>1, StepDone
  <2>3. wrap[v] # "off" /\ boot[v] # 0 /\ boot[v] \in Nat /\ done \subseteq steps /\ DoneInv
    BY <1>1 DEF RunInv, BootInv, RunType
  <2>4. SignalInv!(v)
    BY <1>1 DEF RunInv, SignalInv
  <2>5. Waited(v)
    BY <1>1, <2>2, <2>3, StopReady DEF Waited
  <2>6. CASE boot[v] = 1
    BY <2>3, <2>4, <2>5, <2>6 DEF Ended
  <2>7. CASE boot[v] # 1
    <3>1. vm[v].kind = "reboot" /\ boot[v] = 2 /\ boot[v] > 1
      BY <1>1, <2>3, <2>7 DEF Sure
    <3>2. PICK m \in Nat : addStartStep(v, m) \in done
      BY <1>1, <3>1 DEF RunInv, BootInv
    <3>3. m < n
      <4>1. CASE n < m
        <5>1. addStopStep(v, m) \in done /\ addWaitStep("wait-started", v, m) \in WaitsOf(v)
          BY <1>1, <2>3, <3>2, StartDone
        <5>2. StopChain(v, n)
          BY <1>1, <2>1 DEF GraphInv, ChainInv
        <5>3. CASE addStartStep(v, n) \in steps
          <6>1. addStartStep(v, n) \in done
            BY <1>1, <4>1, <5>1, <5>3 DEF RunInv, StopInv
          <6> QED
            BY <1>1, <2>2, <2>3, <6>1, StartDone
        <5>4. CASE v = vm[Derivative].url /\ addNewVMStep(Derivative, n) \in steps
          <6>1. DeriveChain(Derivative, n)
            BY <1>1, <5>4 DEF GraphInv, ChainInv, All
          <6>2. m < n
            BY <2>3, <3>2, <5>4, <6>1 DEF DeriveChain
          <6> QED
            BY <6>2
        <5> QED
          BY <5>2, <5>3, <5>4 DEF StopChain
      <4>2. m # n
        BY <1>1, <2>2, <2>3, <3>2, StartDone
      <4> QED
        BY <4>1, <4>2
    <3>4. Restarted(v)
      <4>1. \E i \in Nat : m <= i /\ i < n /\ addWaitStep("wait-started", v, i) \in done
        BY <1>1, <2>2, <2>3, <3>2, <3>3, StopAfterStart
      <4> QED
        BY <4>1 DEF Restarted
    <3> QED
      BY <2>3, <2>4, <3>1, <3>4 DEF Ended
  <2> QED
    BY <2>6, <2>7
<1>2. GraphInv /\ RunInv /\ [Next]_vars =>
        [\A v \in All : power[v] = "on" /\ power'[v] = "off" => wrap[v] = "end" \/ ~Sure(v)]_vars
  BY <1>1
<1> QED
  BY <1>2, WorkflowInv, PTL DEF Spec, NeverCut

\* The flags reach the VMs when the workflow is finalized, and not before
FlagInv ==
  /\ pc \in {"setup", "refused"} => \A v \in All : NicsBefore(vm[v].nics)
  /\ pc \in {"run", "ended"} => \A v \in All : vm[v].kind # None => NicsAfter(vm[v].nics)
  /\ ZonesAgree

\* The elements of a sequence with one more
LEMMA AppendAt ==
  ASSUME NEW T, NEW q \in Seq(T), NEW x \in T, NEW i \in DOMAIN Append(q, x)
  PROVE  Append(q, x)[i] = x \/ (i \in DOMAIN q /\ Append(q, x)[i] = q[i])
<1>1. Append(q, x) \in Seq(T) /\ Len(Append(q, x)) = Len(q) + 1 /\ Len(q) \in Nat
  OBVIOUS
<1>2. i \in 1..(Len(q) + 1)
  BY <1>1
<1>3. Append(q, x)[Len(q) + 1] = x
  OBVIOUS
<1>4. CASE i = Len(q) + 1
  BY <1>3, <1>4
<1>5. CASE i \in 1..Len(q)
  BY <1>5
<1> QED
  BY <1>1, <1>2, <1>4, <1>5

\* Fixtures leave the interfaces to the flags: one they add has a network, or is for gVNIC
LEMMA SetupNics ==
  ASSUME GraphInv, Setup, \A v \in All : NicsBefore(vm[v].nics)
  PROVE  \A v \in All : NicsBefore(vm'[v].nics)
<1>1. vm \in [All -> VMSet] /\ \A u \in All : vm[u].nics \in Seq(NicSet)
  BY DEF GraphInv, BuildType, VMSet
<1>2. ASSUME \A u \in All : vm'[u].nics = vm[u].nics PROVE \A u \in All : NicsBefore(vm'[u].nics)
  BY <1>2
<1>3. ASSUME NEW v \in All, NEW k, setInstanceTestMetadata(v, k) PROVE \A u \in All : vm'[u].nics = vm[u].nics
  BY <1>1, <1>3 DEF setInstanceTestMetadata, VMSet
<1>4. suite.vms \subseteq All
  BY WorkflowAssumption DEF GraphInv, BuildType, All
<1>5. CASE \E v \in suite.vms : CreateTestVM(v) \/ CreateTestVMBeta(v)
  BY <1>2, <1>3, <1>4, <1>5
     DEF CreateTestVM, CreateTestVMBeta, NewVM, Refuse, appendCreateVMStep, appendCreateVMStepBeta
<1>6. CASE \E v \in suite.vms : \E k \in suite.kinds :
             CreateTestVMMultipleDisks(v, k) \/ CreateTestVMFromInstanceBeta(v, k)
  BY <1>2, <1>3, <1>4, <1>6
     DEF CreateTestVMMultipleDisks, CreateTestVMFromInstanceBeta, NewVM, Refuse, appendCreateVMStep,
         appendCreateVMStepBeta
<1>7. CASE (\E a \in BOOLEAN : CreateNetwork(a)) \/ CreateSubnetwork \/ CreateFirewallRule
  BY <1>2, <1>7 DEF CreateNetwork, CreateSubnetwork, CreateFirewallRule
<1>8. ASSUME NEW v \in All, NEW sub, AddCustomNetwork(v, sub) PROVE \A u \in All : NicsBefore(vm'[u].nics)
  <2>1. CASE Refuse
    BY <1>2, <2>1 DEF Refuse
  <2>2. CASE ~Refuse
    <3>1. vm' = [vm EXCEPT ![v].uses = @ \cup {createNetworks} \cup sub,
                           ![v].nics = Append(@, Nic("custom"))]
      BY <1>8, <2>2 DEF AddCustomNetwork
    <3>2. vm'[v].nics = Append(vm[v].nics, Nic("custom"))
      BY <1>1, <3>1 DEF VMSet
    <3>3. \A u \in All : u # v => vm'[u].nics = vm[u].nics
      BY <1>1, <3>1 DEF VMSet
    <3>4. Nic("custom").ip = "unset" /\ Nic("custom").net # None
      BY DEF Nic, None
    <3>5. ASSUME NEW i \in DOMAIN vm'[v].nics
          PROVE  vm'[v].nics[i] = Nic("custom") \/ (i \in DOMAIN vm[v].nics /\ vm'[v].nics[i] = vm[v].nics[i])
      <4>1. PICK q \in Seq(NicSet) : q = vm[v].nics
        BY <1>1
      <4>2. PICK x \in NicSet : x = Nic("custom")
        BY DEF Nic, NicSet
      <4>3. i \in DOMAIN Append(q, x)
        BY <3>2, <3>5, <4>1, <4>2
      <4>4. Append(q, x)[i] = x \/ (i \in DOMAIN q /\ Append(q, x)[i] = q[i])
        BY <4>3, AppendAt
      <4> QED
        BY <3>2, <4>1, <4>2, <4>4
    <3>6. NicsBefore(vm'[v].nics)
      BY <3>4, <3>5 DEF NicsBefore
    <3> QED
      BY <3>3, <3>6
  <2> QED
    BY <2>1, <2>2
<1>9. CASE \E v \in All : Reboot(v) \/ ResizeDiskAndReboot(v) \/ Resume(v)
  BY <1>2, <1>9 DEF Reboot, ResizeDiskAndReboot, Resume, Extend
<1>10. CASE \E v \in All : \E z \in Zones : ForceZone(v, z)
  <2>1. PICK v \in All, z \in Zones : vm' = [vm EXCEPT ![v].zone = z]
    BY <1>10 DEF ForceZone
  <2>2. \A u \in All : vm'[u].nics = vm[u].nics
    BY <1>1, <2>1 DEF VMSet
  <2> QED
    BY <1>2, <2>2
<1>11. ASSUME NEW v \in All, UseGVNIC(v) PROVE \A u \in All : NicsBefore(vm'[u].nics)
  <2>1. vm' = [vm EXCEPT ![v].nics = Gvnic(vm[v].nics)]
    BY <1>11 DEF UseGVNIC, Gvnic
  <2>2. vm'[v].nics = Gvnic(vm[v].nics)
    BY <1>1, <2>1 DEF VMSet
  <2>3. \A u \in All : u # v => vm'[u].nics = vm[u].nics
    BY <1>1, <2>1 DEF VMSet
  <2>4. PICK q \in Seq(NicSet) : q = vm[v].nics
    BY <1>1
  <2>5. NicsBefore(q)
    BY <2>4
  <2>6. \A i \in DOMAIN Gvnic(q) :
              \/ Gvnic(q)[i].gvnic /\ Gvnic(q)[i].ip \in {"unset"} \cup {q[j].ip : j \in DOMAIN q}
              \/ i \in DOMAIN q /\ Gvnic(q)[i] = q[i]
    BY GvnicType
  <2>7. NicsBefore(Gvnic(q))
    BY <2>5, <2>6 DEF NicsBefore
  <2> QED
    BY <2>2, <2>3, <2>4, <2>7
<1>12. CASE \E v \in suite.vms : CreateDerivativeVM(v)
  <2>1. PICK x : vm' = [vm EXCEPT ![Derivative].kind = "plain", ![Derivative].url = x]
    BY <1>12 DEF CreateDerivativeVM, Extend
  <2>2. \A u \in All : vm'[u].nics = vm[u].nics
    BY <1>1, <2>1 DEF VMSet, All
  <2> QED
    BY <1>2, <2>2
<1>13. CASE WaitForVMQuota \/ WaitForDisksQuota
  BY <1>2, <1>13 DEF WaitForVMQuota, WaitForDisksQuota, waitForQuotaStep
<1> QED
  BY <1>5, <1>6, <1>7, <1>8, <1>9, <1>10, <1>11, <1>12, <1>13 DEF Setup

\* A set of at most one zone
LEMMA OneZone ==
  ASSUME NEW f \in [All -> Zones \cup {None}], Cardinality({f[v] : v \in All} \ {None}) <= 1,
         NEW u \in All, NEW w \in All, f[u] # None, f[w] # None
  PROVE  f[u] = f[w]
<1> DEFINE T == {f[v] : v \in All}
           Z == T \ {None}
<1>1. IsFiniteSet(All)
  BY WorkflowAssumption, FS_AddElement DEF All
<1>2. f \in Surjection(All, T)
  BY DEF Surjection
<1>3. IsFiniteSet(T)
  BY <1>1, <1>2, FS_Surjection
<1>4. IsFiniteSet(Z) /\ f[u] \in Z /\ f[w] \in Z
  BY <1>3, FS_RemoveElement
<1> HIDE DEF Z, T
<1> DEFINE Y == Z \ {f[u]}
<1>5. IsFiniteSet(Y) /\ Cardinality(Y) = Cardinality(Z) - 1 /\ Cardinality(Y) \in Nat /\ Cardinality(Z) \in Nat
  BY <1>4, FS_RemoveElement, FS_CardinalityType
<1>6. Cardinality(Z) <= 1
  BY DEF Z, T
<1>7. Cardinality(Y) = 0
  BY <1>5, <1>6
<1>8. Y = {}
  BY <1>5, <1>7, FS_EmptySet
<1> QED
  BY <1>4, <1>8

\* The zone of the workflow is that of its VMs
LEMMA FinalizeZones ==
  ASSUME GraphInv, Finalize
  PROVE  ZonesAgree'
<1>1. /\ zone' = FinalZone /\ instances' = instances
      /\ vm' = [v \in All |-> [vm[v] EXCEPT !.nics = Interfaces(v)]]
      /\ quotaIn' = IF {vmQuota, diskQuota} \cap steps = {} THEN None ELSE regionFromZone[zone]
  BY DEF Finalize
<1>2. BuildType /\ vm \in [All -> VMSet]
  BY DEF GraphInv, BuildType
<1>3. \A v \in All : vm'[v].zone = vm[v].zone
  BY <1>1, <1>2 DEF VMSet
<1> DEFINE f == [v \in All |-> vm[v].zone]
<1>4. f \in [All -> Zones \cup {None}]
  BY <1>2 DEF VMSet
<1>5. {vm'[v].zone : v \in All} = {f[v] : v \in All}
  BY <1>3
<1> SUFFICES ASSUME ~argZoneOverride, Cardinality({vm'[v].zone : v \in All} \ {None}) <= 1,
                    \A v \in All \ {instances'[i] : i \in DOMAIN instances'} : vm'[v].zone = None
             PROVE  /\ \A v \in All : vm'[v].zone \in {None, zone'}
                    /\ (\A v \in All : vm'[v].zone = None) => quotaIn' \in {None, regionFromZone[zone']}
  BY DEF ZonesAgree
<1>6. /\ ForcedVMs = {} => FinalZone = zone
      /\ ForcedVMs # {} => \E v \in VMs : FinalZone = vm[v].zone /\ vm[v].zone # None
  BY <1>2, FinalZoneType
<1>7. CASE ForcedVMs = {}
  <2>1. \A v \in All : vm[v].zone = None
    <3> SUFFICES ASSUME NEW v \in All, vm[v].zone # None PROVE FALSE
      OBVIOUS
    <3>1. v \in {instances[i] : i \in DOMAIN instances}
      BY <1>1, <1>3
    <3>2. PICK i \in DOMAIN instances : v = instances[i]
      BY <3>1
    <3> QED
      BY <1>7, <3>2 DEF ForcedVMs
  <2> QED
    BY <1>1, <1>3, <1>6, <1>7, <2>1
<1>8. CASE ForcedVMs # {}
  <2>1. PICK w \in VMs : FinalZone = vm[w].zone /\ vm[w].zone # None
    BY <1>6, <1>8
  <2>2. w \in All
    BY DEF All
  <2>3. Cardinality({f[v] : v \in All} \ {None}) <= 1
    BY <1>5
  <2> HIDE DEF f
  <2>4. \A v \in All : f[v] # None /\ f[w] # None => f[v] = f[w]
    BY <1>4, <2>2, <2>3, OneZone
  <2>5. \A v \in All : vm[v].zone \in {None, FinalZone}
    BY <2>1, <2>2, <2>4 DEF f
  <2> QED
    BY <1>1, <1>3, <2>1, <2>2, <2>5
<1> QED
  BY <1>7, <1>8

\* FlagInv is inductive
LEMMA NextFlags ==
  ASSUME GraphInv, FlagInv, [Next]_vars
  PROVE  FlagInv'
<1>1. CASE Setup
  <2>1. pc = "setup" /\ pc' \in {"setup", "refused"}
    BY <1>1, SetupFrame
  <2>2. \A v \in All : NicsBefore(vm'[v].nics)
    BY <1>1, <2>1, SetupNics DEF FlagInv
  <2> QED
    BY <2>1, <2>2 DEF FlagInv, ZonesAgree, NicsBefore
<1>2. CASE Finalize
  <2>1. /\ pc = "setup" /\ pc' = "run"
        /\ vm' = [v \in All |-> [vm[v] EXCEPT !.nics = Interfaces(v)]]
    BY <1>2 DEF Finalize
  <2>2. vm \in [All -> VMSet]
    BY DEF GraphInv, BuildType
  <2>3. ASSUME NEW v \in All, vm'[v].kind # None PROVE NicsAfter(vm'[v].nics)
    <3>1. vm'[v].kind = vm[v].kind /\ vm'[v].nics = Interfaces(v)
      BY <2>1, <2>2 DEF VMSet
    <3>2. Interfaces(v) = configureExternalIP(configureNetwork(vm[v].nics))
      BY <2>3, <3>1 DEF Interfaces
    <3>3. vm[v].nics \in Seq(NicSet) /\ NicsBefore(vm[v].nics)
      BY <2>1, <2>2 DEF VMSet, FlagInv
    <3> QED
      BY <3>1, <3>2, <3>3, FlagsApply
  <2> QED
    BY <1>2, <2>1, <2>3, FinalizeZones DEF FlagInv, NicsAfter
<1>3. CASE RunStep
  <2>1. pc = "run" /\ pc' \in {"run", "ended"} /\ UNCHANGED <<vm, instances, zone, quotaIn>>
    BY <1>3, RunFrame, SameNames
  <2>2. ZonesAgree'
    BY <2>1 DEF FlagInv, ZonesAgree
  <2> QED
    BY <2>1, <2>2 DEF FlagInv, NicsAfter
<1>4. CASE UNCHANGED vars
  <2>1. UNCHANGED <<pc, vm, instances, zone, quotaIn>>
    BY <1>4 DEF vars, buildVars
  <2>2. ZonesAgree'
    BY <2>1 DEF FlagInv, ZonesAgree
  <2> QED
    BY <2>1, <2>2 DEF FlagInv, NicsAfter, NicsBefore
<1> QED
  BY <1>1, <1>2, <1>3, <1>4, NextCases

\* -external_ip and -network reach every VM that a suite creates by any fixture, and the VMs
\* are in the zone of their disks (configureNetwork, configureExternalIP and the zone that
\* finalizeWorkflows settles)
THEOREM FlagsReachAllVMs == Spec => []FlagsReachVMs
<1>1. Init => FlagInv
  <2>1. \A v \in All : Init => vm[v].nics = <<>>
    BY DEF Init, NoVM
  <2>2. Init => pc = "setup"
    BY DEF Init
  <2> QED
    BY <2>1, <2>2 DEF FlagInv, NicsBefore, ZonesAgree
<1>2. GraphInv /\ FlagInv /\ [Next]_vars => FlagInv'
  BY NextFlags
<1>3. FlagInv => FlagsReachVMs
  BY DEF FlagInv, FlagsReachVMs, NicsAfter
<1>4. Spec => []GraphInv
  BY WorkflowInv, PTL
<1> QED
  BY <1>1, <1>2, <1>3, <1>4, PTL DEF Spec
=============================================================================
