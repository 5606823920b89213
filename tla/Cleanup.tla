------------------------------- MODULE Cleanup -------------------------------
(***************************************************************************)
(* The cleaner-upper (cleanerupper/cleanerupper.go) and its two callers:   *)
(* cmd/cleanup, and the clean-up after every test workflow                 *)
(* (cleanTestWorkflow in testworkflow.go).                                 *)
(*                                                                         *)
(* Each Clean function lists resources, starts one goroutine per deletion  *)
(* and waits at fixed points for those it started.  Its code is a sequence *)
(* of instructions, todo: <<"del", r>> starts a goroutine, <<"wait">> is   *)
(* wg.Wait, and any other instruction lists something and is replaced by   *)
(* what the code does with the list.  The cloud refuses to delete what is  *)
(* in use, calls may fail, and other processes may delete at any time.     *)
(***************************************************************************)
EXTENDS Integers, Sequences, FiniteSets, SequencesExt

CONSTANTS
  Resource,   \* all resources, by ID
  Attr,       \* Attr[r]: what a listing says of r (see AgePolicy)
  Uses,       \* Uses[r]: the resources that cannot go before r
  Scenes,     \* the sets of resources that may exist at the start
  Calls,      \* the callers, see Init
  regionFromZone, \* the region of a zone, None when its name has none
  Cutoff,     \* resources created before Cutoff are old
  Foreign,    \* resources another process may delete meanwhile
  Regions,    \* all regions of the project
  MaxFaults   \* bound on failing API calls

None == "none"
Kind(r) == Attr[r].kind

VARIABLES
  call,     \* the caller: its program, policy, regions and dry-run flag
  todo,     \* instructions left
  running,  \* deletions under way
  alive,    \* the resources that exist
  cache,    \* lists a Clean function keeps, by <<kind, region>>
  deleted,  \* what is reported as deleted
  errs,     \* errors reported, by the resource or the list they are about
  killed,   \* resources this process has deleted
  faults

vars == <<call, todo, running, alive, cache, deleted, errs, killed, faults>>

-----------------------------------------------------------------------------
(* Policies.  keep says where a resource has the do-not-delete mark:       *)
(* "label", "desc", "name" or None; "delete" is the bare word in the       *)
(* description.  A creation time that does not parse counts as young.      *)

Known == {"osPolicy", "guestPolicy", "network", "machineImage", "disk", "image", "snapshot",
          "instance", "fr", "um", "bs", "hp", "hc", "rneg", "zneg"}
\* Policies from the configuration service carry no owner
Unowned == {"osPolicy", "guestPolicy"}
Labelled == {"disk", "image", "snapshot", "instance", "fr"}

isCITResource(r) == Attr[r].cit

\* fault: the owner is not looked at
AgePolicy_AnyOwner(t, r) ==
  /\ Kind(r) \in Known \cup {"route"}
  /\ ~(Kind(r) = "network" /\ (Attr[r].name = "default" \/ Attr[r].keep = "delete"))
  /\ ~(Kind(r) = "instance" /\ Attr[r].protected)
  /\ ~(Attr[r].keep = "label" /\ Kind(r) \in Labelled)
  /\ Attr[r].keep \notin {"desc", "name"}
  /\ Attr[r].created < t

\* fault: a VM's deletion protection is not looked at
AgePolicy_Unprotected(t, r) ==
  /\ Kind(r) \in Known \cup {"route"}
  /\ ~(Kind(r) = "network" /\ (Attr[r].name = "default" \/ Attr[r].keep = "delete"))
  /\ Kind(r) \in Unowned \/ isCITResource(r)
  /\ ~(Attr[r].keep = "label" /\ Kind(r) \in Labelled)
  /\ Attr[r].keep \notin {"desc", "name"}
  /\ Attr[r].created < t

AgePolicy(t, r) ==
  /\ Kind(r) \in Known \cup {"route"}
  /\ ~(Kind(r) = "network" /\ (Attr[r].name = "default" \/ Attr[r].keep = "delete"))
  /\ ~(Kind(r) = "instance" /\ Attr[r].protected)
  /\ Kind(r) \in Unowned \/ isCITResource(r)
  /\ ~(Attr[r].keep = "label" /\ Kind(r) \in Labelled)
  /\ Attr[r].keep \notin {"desc", "name"}
  /\ Attr[r].created < t

\* The name ends with the ID of the workflow; a mark in the name does not count
WorkflowPolicy(id, r) ==
  /\ Kind(r) \in Known
  /\ ~(Kind(r) = "network" /\ Attr[r].name = "default")
  /\ ~(Kind(r) = "instance" /\ Attr[r].protected)
  /\ ~(Attr[r].keep = "label" /\ Kind(r) \in Labelled)
  /\ Attr[r].name = id
  /\ Attr[r].keep # "desc"

DeprecatePolicy(r) ==
  /\ Kind(r) = "image"
  /\ Attr[r].deprecated
  /\ Attr[r].keep \notin {"label", "desc", "name"}

\* cleanupPolicy: the union of the workflow policies, or else the age
cleanupPolicy(ids, r) ==
  IF ids = {} THEN AgePolicy(Cutoff, r) ELSE \E id \in ids : WorkflowPolicy(id, r)

\* The delete argument of the Clean functions
Indicated(r) ==
  IF call.policy = "deprecated" THEN DeprecatePolicy(r) ELSE cleanupPolicy(call.ids, r)

-----------------------------------------------------------------------------
(* Listing *)

Wait == <<<<"wait">>>>
\* A loop over a list: body[r] is what it does for r.  The order is the API's; any will do.
Each(body) ==
  LET list == SetToSeq(DOMAIN body) IN FlattenSeq([i \in DOMAIN list |-> body[list[i]]])
Dels(S) == Each([r \in S |-> <<<<"del", r>>>>])

OfKind(k) == {r \in alive : Kind(r) = k}
In(k, g) == {r \in OfKind(k) : Attr[r].region = g}

\* fault: the lists are of all regions
Cached_All(k, g) == IF <<k, g>> \in DOMAIN cache THEN cache[<<k, g>>] ELSE OfKind(k)

\* A list per region is kept until the Clean function returns, when it succeeded
Cached(k, g) == IF <<k, g>> \in DOMAIN cache THEN cache[<<k, g>>] ELSE In(k, g)

\* CleanInstances, CleanDisks, CleanImages, CleanMachineImages, CleanSnapshots,
\* CleanGuestPolicies: all they list, then wait
Simple(k) == Dels({r \in OfKind(k) : Indicated(r)}) \o Wait
CleanInstances == Simple("instance")
CleanDisks == Simple("disk")
CleanImages == Simple("image")
CleanMachineImages == Simple("machineImage")
CleanSnapshots == Simple("snapshot")
CleanGuestPolicies == Simple("guestPolicy")

\* CleanOSPolicyAssignments: a list per zone, all of them before the first deletion
getOSPolicies == Each([g \in Regions |-> <<<<"osZone", g>>>>]) \o <<<<"deleteOSPolicies">>>>
deleteOSPolicies ==
  Dels({r \in UNION {cache[k] : k \in DOMAIN cache} : Indicated(r)}) \o Wait

\* CleanLoadBalancerResources: forwarding rules everywhere, then region by region
\* fault: no regions means none
scanned_Given == call.regions

scanned == IF call.regions = {} THEN Regions ELSE call.regions

lbRegion(g) ==
  <<<<"lbFR", g>>, <<"lbBS", g>>>> \o Wait \o <<<<"rneg", g, None>>, <<"zneg", g, None>>>> \o Wait

CleanLoadBalancerResources ==
  Dels({r \in OfKind("fr") : Indicated(r)}) \o Wait \o Each([g \in scanned |-> lbRegion(g)])

lbFR(g) == Dels({r \in Cached("fr", g) : Indicated(r)})

\* fault: the backend service does not wait for the URL maps
lbBackend_NoWait(g, b) == <<<<"lbUM", g>>>> \o Dels({b}) \o Wait

\* A health check is passed to the policy by its URL, which no policy indicates
lbBackend(g, b) == <<<<"lbUM", g>>>> \o Wait \o Dels({b}) \o Wait
lbBS(g) == Each([b \in {s \in Cached("bs", g) : Indicated(s)} |-> lbBackend(g, b)])

lbURLMap(g, u) == <<<<"lbHP", g>>>> \o Wait \o Dels({u})
lbUM(g) == Each([u \in {m \in Cached("um", g) : Indicated(m)} |-> lbURLMap(g, u)])

lbHP(g) == Dels({h \in Cached("hp", g) : Indicated(h)})

\* deleteNetworkEndpointGroups, of a network or of all; k is regional or zonal
NEGs(k, g, n) == Dels({r \in In(k, g) : (n = None \/ Attr[r].network = n) /\ Indicated(r)})

\* CleanNetworks: all that belongs to an indicated network goes, whatever the policy says
\* of it, and the network last.  Subnetworks a network makes by itself are left alone, and
\* so are its local routes.
netMembers(k, n) == {r \in OfKind(k) : Attr[r].network = n}

cleanSubnetwork(n, s) ==
  LET g == Attr[s].region
  IN  <<<<"snFR", g, n>>, <<"snBS", g, n>>>> \o Wait
        \o <<<<"rneg", g, n>>, <<"zneg", g, n>>>> \o Wait \o Dels({s})

\* fault: the network does not wait for its parts
cleanNetwork_NoWait(n) ==
  Dels(netMembers("firewall", n))
    \o Each([s \in {m \in netMembers("subnet", n) : ~Attr[m].auto} |-> cleanSubnetwork(n, s)])
    \o Dels({r \in netMembers("route", n) : ~Attr[r].auto})
    \o Dels({n}) \o Wait

\* fault: the routes stay
cleanNetwork_NoRoutes(n) ==
  Dels(netMembers("firewall", n))
    \o Each([s \in {m \in netMembers("subnet", n) : ~Attr[m].auto} |-> cleanSubnetwork(n, s)])
    \o Wait \o Dels({n}) \o Wait

cleanNetwork(n) ==
  Dels(netMembers("firewall", n))
    \o Each([s \in {m \in netMembers("subnet", n) : ~Attr[m].auto} |-> cleanSubnetwork(n, s)])
    \o Dels({r \in netMembers("route", n) : ~Attr[r].auto})
    \o Wait \o Dels({n}) \o Wait

CleanNetworks == Each([n \in {m \in OfKind("network") : Indicated(m)} |-> cleanNetwork(n)])

snFR(g, n) == Dels({r \in Cached("fr", g) : Attr[r].network = n})

\* Here the health checks go with their backend service
snBackend(g, b) ==
  <<<<"snUM", g, b>>>> \o Wait \o Dels({b}) \o Wait \o Dels({h \in Uses[b] : Kind(h) = "hc"})
snBS(g, n) == Each([b \in {s \in Cached("bs", g) : Attr[s].network = n} |-> snBackend(g, b)])

snURLMap(g, u) == <<<<"snHP", g, u>>>> \o Wait \o Dels({u})
snUM(g, b) == Each([u \in {m \in Cached("um", g) : b \in Uses[m]} |-> snURLMap(g, u)])

snHP(g, u) == Dels({h \in Cached("hp", g) : u \in Uses[h]})

-----------------------------------------------------------------------------
(* The process *)

\* The programs of cmd/cleanup, of cleanTestWorkflow for a test without load balancers,
\* and the rest of the package's Clean functions
main == <<<<"instances">>, <<"disks">>, <<"lb">>, <<"networks">>>>
cleanTestWorkflow(lb) ==
  IF lb THEN main ELSE <<<<"instances">>, <<"disks">>, <<"networks">>>>
\* workflowRegions: of the workflow's zone and of the zones its VMs are pinned to
workflowRegions(zones) == {regionFromZone[z] : z \in zones} \ {None}
library ==
  <<<<"images">>, <<"machineImages">>, <<"snapshots">>, <<"guestPolicies">>, <<"osPolicies">>>>

Instructions ==
  {"instances", "disks", "images", "machineImages", "snapshots", "guestPolicies", "osPolicies",
   "osZone", "deleteOSPolicies", "lb", "lbFR", "lbBS", "lbUM", "lbHP", "rneg", "zneg", "networks",
   "snFR", "snBS", "snUM", "snHP"}

\* cleanupPolicy goes by age when it is given no workflow; every part of a load balancer
\* is in a region of the project; and names of lists are not IDs of resources
ASSUME CleanupAssumption ==
  /\ IsFiniteSet(Resource) /\ IsFiniteSet(Regions)
  /\ Uses \in [Resource -> SUBSET Resource]
  /\ Scenes \subseteq SUBSET Resource
  /\ Cutoff \in Int /\ MaxFaults \in Nat
  /\ \A r \in Resource :
       /\ Attr[r].created \in Int
       /\ Kind(r) \in {"bs", "rneg", "zneg"} => Attr[r].region \in Regions
  /\ \A c \in Calls :
       /\ c.program \in {main, cleanTestWorkflow(FALSE), library}
       /\ c.policy = "age" => c.ids = {}
       /\ c.policy = "ids" => c.ids # {}
       /\ IsFiniteSet(c.regions)
  /\ Resource \cap Instructions = {}

\* What the API lets use what, as far as the order of deletions rests on it: nothing its own
\* kind, a health check nothing, a proxy its URL map in its region, a URL map its backend
\* services, and no part of a network another part that CleanNetworks deletes beside it
ASSUME UsesAssumption ==
  \A s \in Resource : \A r \in Uses[s] :
    /\ Kind(r) # Kind(s) /\ Kind(s) # "hc"
    /\ Kind(s) = "hp" => Kind(r) = "um" /\ Attr[r].region = Attr[s].region
    /\ Kind(s) = "um" => Kind(r) = "bs"
    /\ Kind(s) \in {"firewall", "subnet", "route"} =>
         Kind(r) \notin {"firewall", "fr", "hp", "subnet", "route"}
    /\ Kind(s) \in {"rneg", "zneg"} => Kind(r) \notin {"rneg", "zneg"}

Init ==
  /\ call \in Calls
  /\ todo = call.program
  /\ alive \in Scenes
  /\ running = {}
  /\ cache = <<>>
  /\ deleted = {}
  /\ errs = {}
  /\ killed = {}
  /\ faults = 0

\* What an instruction turns into; the list is kept under key when it is one per region
Expansion(ins) ==
  CASE ins[1] = "instances" -> CleanInstances
    [] ins[1] = "disks" -> CleanDisks
    [] ins[1] = "images" -> CleanImages
    [] ins[1] = "machineImages" -> CleanMachineImages
    [] ins[1] = "snapshots" -> CleanSnapshots
    [] ins[1] = "guestPolicies" -> CleanGuestPolicies
    [] ins[1] = "osPolicies" -> getOSPolicies
    [] ins[1] = "osZone" -> <<>>
    [] ins[1] = "deleteOSPolicies" -> deleteOSPolicies
    [] ins[1] = "lb" -> CleanLoadBalancerResources
    [] ins[1] = "lbFR" -> lbFR(ins[2])
    [] ins[1] = "lbBS" -> lbBS(ins[2])
    [] ins[1] = "lbUM" -> lbUM(ins[2])
    [] ins[1] = "lbHP" -> lbHP(ins[2])
    [] ins[1] \in {"rneg", "zneg"} -> NEGs(ins[1], ins[2], ins[3])
    [] ins[1] = "networks" -> CleanNetworks
    [] ins[1] = "snFR" -> snFR(ins[2], ins[3])
    [] ins[1] = "snBS" -> snBS(ins[2], ins[3])
    [] ins[1] = "snUM" -> snUM(ins[2], ins[3])
    [] ins[1] = "snHP" -> snHP(ins[2], ins[3])

CacheKind == [lbFR |-> "fr", snFR |-> "fr", lbBS |-> "bs", snBS |-> "bs", lbUM |-> "um",
              snUM |-> "um", lbHP |-> "hp", snHP |-> "hp", osZone |-> "osPolicy"]

Lists(ins) == ins[1] \notin {"del", "wait"}
\* The first instruction of a Clean function starts with no lists
Entry(ins) == Len(ins) = 1 /\ Lists(ins) /\ ins[1] # "deleteOSPolicies"

\* A listing succeeds
List ==
  /\ todo # <<>>
  /\ Lists(Head(todo))
  /\ LET ins == Head(todo)
     IN  /\ todo' = Expansion(ins) \o Tail(todo)
         /\ cache' = IF Entry(ins) THEN <<>>
                     ELSE IF ins[1] \notin DOMAIN CacheKind THEN cache
                     ELSE LET key == <<CacheKind[ins[1]], ins[2]>>
                          IN  [k \in DOMAIN cache \cup {key} |->
                                 IF k = key THEN Cached(key[1], key[2]) ELSE cache[k]]
  /\ UNCHANGED <<call, running, alive, deleted, errs, killed, faults>>

\* A listing fails: what depends on it is skipped.  A list that is kept is not listed again.
ListFails ==
  /\ todo # <<>>
  /\ LET ins == Head(todo)
     IN  /\ Lists(ins)
         /\ ins[1] # "deleteOSPolicies"
         /\ ins[1] \in DOMAIN CacheKind => <<CacheKind[ins[1]], ins[2]>> \notin DOMAIN cache
         /\ errs' = errs \cup {ins[1]}
         /\ cache' = IF Entry(ins) THEN <<>> ELSE cache
  /\ todo' = Tail(todo)
  /\ faults < MaxFaults
  /\ faults' = faults + 1
  /\ UNCHANGED <<call, running, alive, deleted, killed>>

\* wg.Add(1); go func() ...
Start ==
  /\ todo # <<>>
  /\ Head(todo)[1] = "del"
  /\ running' = running \cup {Head(todo)[2]}
  /\ todo' = Tail(todo)
  /\ UNCHANGED <<call, alive, cache, deleted, errs, killed, faults>>

\* wg.Wait()
Waited ==
  /\ todo # <<>>
  /\ Head(todo)[1] = "wait"
  /\ running = {}
  /\ todo' = Tail(todo)
  /\ UNCHANGED <<call, running, alive, cache, deleted, errs, killed, faults>>

InUse(r) == \E s \in alive : r \in Uses[s]

\* fault: a dry run deletes
Deletes_Dry(r) == r \in alive /\ ~InUse(r)

\* The call is made and can succeed
Deletes(r) == ~call.dryRun /\ r \in alive /\ ~InUse(r)

\* fault: an error path forgets wg.Done
DoneAfter_Success(r) == IF Deletes(r) THEN running \ {r} ELSE running

\* defer wg.Done()
DoneAfter(r) == running \ {r}

\* fault: an error does not return
GoesOn_Always(r) == TRUE

\* The error of a zonal endpoint group does not return: it is reported as deleted, too
GoesOn(r) == Kind(r) = "zneg"

\* The deletion of an OS policy assignment is an operation of its own, whose error (op.Wait)
\* is not looked at
FailsUnseen(r) == Kind(r) = "osPolicy" /\ Deletes(r)

\* A goroutine ends: a dry run only reports; the call succeeds; or it fails, because the
\* resource is gone or in use, or for any other reason
Finish(r) ==
  /\ r \in running
  /\ running' = DoneAfter(r)
  /\ \/ /\ call.dryRun
        /\ deleted' = deleted \cup {r}
        /\ UNCHANGED <<alive, errs, killed, faults>>
     \/ /\ Deletes(r)
        /\ alive' = alive \ {r}
        /\ killed' = killed \cup {r}
        /\ deleted' = deleted \cup {r}
        /\ UNCHANGED <<errs, faults>>
     \/ /\ ~call.dryRun
        /\ IF Deletes(r) THEN faults < MaxFaults /\ faults' = faults + 1 ELSE UNCHANGED faults
        /\ errs' = errs \cup {r}
        /\ deleted' = IF GoesOn(r) THEN deleted \cup {r} ELSE deleted
        /\ UNCHANGED <<alive, killed>>
     \/ /\ FailsUnseen(r)
        /\ faults < MaxFaults
        /\ faults' = faults + 1
        /\ deleted' = deleted \cup {r}
        /\ UNCHANGED <<alive, errs, killed>>
  /\ UNCHANGED <<call, todo, cache>>

\* Another process deletes a resource
Vanish(r) ==
  /\ r \in Foreign \cap alive
  /\ ~InUse(r)
  /\ todo # <<>>
  /\ alive' = alive \ {r}
  /\ UNCHANGED <<call, todo, running, cache, deleted, errs, killed, faults>>

Next ==
  \/ List \/ ListFails \/ Start \/ Waited
  \/ \E r \in Resource : Finish(r) \/ Vanish(r)

\* Goroutines run and API calls return
Fairness ==
  /\ WF_vars(List \/ ListFails \/ Start \/ Waited)
  /\ \A r \in Resource : WF_vars(Finish(r))

Spec == Init /\ [][Next]_vars /\ Fairness

Done == todo = <<>> /\ running = {}

-----------------------------------------------------------------------------
(* Properties *)

\* Types of the state; a list that is kept holds what its key says
TypeOK ==
  /\ call \in Calls
  /\ running \subseteq Resource
  /\ alive \subseteq Resource
  /\ deleted \subseteq Resource
  /\ killed \subseteq Resource \ alive
  /\ \A k \in DOMAIN cache : \A r \in cache[k] : Kind(r) = k[1] /\ Attr[r].region = k[2]
  /\ faults \in 0..MaxFaults

\* What no clean-up may touch by itself: a marked resource, a protected VM, the default
\* network; by age also what is young or not CIT's; by ID what other workflows made
Precious(r) ==
  \/ Attr[r].keep = "desc"
  \/ Attr[r].keep = "label" /\ Kind(r) \in Labelled
  \/ Kind(r) = "instance" /\ Attr[r].protected
  \/ Kind(r) = "network" /\ Attr[r].name = "default"
  \/ /\ call.policy = "age"
     /\ \/ Attr[r].created >= Cutoff
        \/ ~Attr[r].cit /\ Kind(r) \notin Unowned
        \/ Attr[r].keep = "name"
  \/ call.policy = "ids" /\ Attr[r].name \notin call.ids
  \/ call.policy = "deprecated" /\ ~Attr[r].deprecated

\* What CleanNetworks deletes with a network n whatever the policy says of it: its firewall
\* rules, subnetworks and routes, the forwarding rules and backend services in it, and the
\* health checks, URL maps and proxies of those services.  VMs, disks and endpoint groups
\* are never among it.
GoesWith(n, r) ==
  \/ Attr[r].network = n /\ Kind(r) \in {"firewall", "fr", "bs"}
  \/ Attr[r].network = n /\ Kind(r) \in {"subnet", "route"} /\ ~Attr[r].auto
  \/ \E b \in Resource :
       /\ Kind(b) = "bs" /\ Attr[b].network = n
       /\ \/ Kind(r) = "hc" /\ r \in Uses[b]
          \/ Kind(r) = "um" /\ b \in Uses[r]
          \/ Kind(r) = "hp" /\ \E u \in Uses[r] : Kind(u) = "um" /\ b \in Uses[u]

\* Nothing precious goes, in any interleaving, but what CleanNetworks takes away with a
\* network that the policy indicates; and a dry run deletes nothing at all
Spared ==
  /\ call.dryRun => killed = {} /\ errs \cap Resource = {}
  /\ \A r \in killed : Precious(r) =>
       \E n \in Resource : Kind(n) = "network" /\ Indicated(n) /\ GoesWith(n, r)

\* What goes before a network: the VMs and endpoint groups in it that are indicated, and all
\* else but what it made by itself.  The parts of load balancers are looked for in the
\* regions of its subnetworks only.
GoesBefore(n, r) ==
  /\ Attr[r].network = n
  /\ Kind(r) \in {"instance", "firewall", "subnet", "route", "fr", "bs", "rneg", "zneg"}
  /\ Kind(r) \in {"instance", "rneg", "zneg"} => Indicated(r)
  /\ Kind(r) \in {"subnet", "route"} => ~Attr[r].auto
  /\ Kind(r) \in {"fr", "bs", "rneg", "zneg"} =>
       \E s \in alive \cup killed \cup errs :
         /\ s \in Resource /\ Kind(s) = "subnet" /\ ~Attr[s].auto
         /\ Attr[s].network = n /\ Attr[s].region = Attr[r].region

\* A network is deleted last: when it is asked for, what is still in it is what an error
\* was reported about, or what CleanNetworks does not touch
NetworkLast ==
  ~call.dryRun /\ errs \subseteq Resource =>
    \A n \in running : \A r \in alive : Kind(n) = "network" /\ GoesBefore(n, r) => r \in errs

\* "to avoid resource in use issues": no deletion is under way together with the first one of
\* a resource that uses it, except a forwarding rule's, which is not waited for, and the
\* network goes last.  (The proxies of a region are deleted again for each of its URL maps,
\* beside the map before it: by then they are gone, in an error, or their list had failed.)
InOrder ==
  /\ TypeOK
  /\ NetworkLast
  /\ ~call.dryRun /\ errs \subseteq Resource =>
       \A r, s \in running : r \in Uses[s] => s \notin alive \/ s \in errs \/ Kind(s) = "fr"

\* No silent leftovers: when the clean-up after a workflow returns, whatever the policy
\* indicates is gone or in an error, unless a list failed.  (URL maps and proxies without
\* an indicated backend service are not looked for, and health checks never go by policy.)
Covered(r) ==
  \/ Kind(r) \in {"instance", "disk", "network"}
  \/ Kind(r) \in {"fr", "bs", "rneg", "zneg"} /\ <<"lb">> \in ToSet(call.program)
       /\ (Kind(r) = "fr" \/ call.regions = {} \/ Attr[r].region \in call.regions)
NoSilentLeftover ==
  Done /\ ~call.dryRun /\ call.program # library /\ errs \subseteq Resource =>
    \A r \in alive : Indicated(r) /\ Covered(r) => r \in errs

\* The report is true: what is reported as deleted by a real run does not exist any more,
\* and what is left is reported as an error.
\* (A zonal endpoint group whose deletion fails is reported as deleted and as an error, and
\* an OS policy assignment whose delete operation fails only as deleted.)
ReportTrue ==
  /\ NoSilentLeftover
  /\ ~call.dryRun => \A r \in deleted :
       \/ r \in killed
       \/ Kind(r) = "zneg" /\ r \in errs
       \/ Kind(r) = "osPolicy" /\ faults > 0

\* The clean-up ends, whatever fails
Ends == <>Done

-----------------------------------------------------------------------------
(* What the documentation says of the clean-up, and the code does not keep *)

\* cmd/cleanup/main.go:8-10: "The default network, deletion-protected instances, and
\* resources labeled do-not-delete are always kept."
AlwaysKept ==
  \A r \in killed :
    /\ ~(Kind(r) = "network" /\ Attr[r].name = "default")
    /\ ~(Kind(r) = "instance" /\ Attr[r].protected)
    /\ ~(Kind(r) \in Labelled /\ Attr[r].keep = "label")
=============================================================================
