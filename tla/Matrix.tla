------------------------------- MODULE Matrix --------------------------------
(***************************************************************************)
(* citrun's configuration (cmd/citrun/config.go) and its expansion into    *)
(* jobs (cmd/citrun/matrix.go), as operators on a configuration record.    *)
(*                                                                         *)
(* A list of globs is the set of the names it matches, and empty when the  *)
(* list is.  An image is a record of its project, NoName for an image      *)
(* without a path, and its base name.  A job ID is the tuple of the names  *)
(* that are joined in it.                                                  *)
(***************************************************************************)
EXTENDS Integers, Sequences, FiniteSets, SequencesExt

CONSTANTS
  Region,      \* zone -> region: zoneRegion, everything before the last "-"
  TheProject   \* image_prefix

NoName == ""
AllTiers == {NoName, "all"}
CPUSKey == "CPUS"

RetryCaps == {"stockout", "quota", "timeout", "infra", "error"}
DefaultCaps == [stockout |-> 4, quota |-> 4, timeout |-> 2, infra |-> 3, error |-> 2]
DefaultContainerCap == 80

\* The defaults LoadConfig puts in for what the file leaves out: 0 stands for an absent
\* cap, and safety <<-1, 1>> for an absent safety_factor
WithDefaults(raw) ==
  [raw EXCEPT
     !.caps = [c \in RetryCaps |-> IF raw.caps[c] = 0 THEN DefaultCaps[c] ELSE raw.caps[c]],
     !.containerCap = IF @ = 0 THEN DefaultContainerCap ELSE @,
     !.safety = IF @ = <<-1, 1>> THEN <<8, 10>> ELSE @]

Budgeted(cfg, z) == Region[z] \in DOMAIN cfg.budgets

ValidRule(cfg, r) ==
  CASE r.kind \in {"suite_only_on", "keep_only"} -> r.suites # {} /\ r.shapes # {}
    [] r.kind = "drop" -> r.shapes # {} \/ r.suites # {} \/ r.images # {}
    [] r.kind = "zone_set" -> r.shapes # {} /\ r.set \in DOMAIN cfg.zoneSets
    [] r.kind = "timeout" -> r.shapes # {}

\* fault: the zones of a tier entry are not checked
ValidTier_NoBudget(cfg, entries) ==
  /\ entries # <<>>
  /\ \A i \in DOMAIN entries : entries[i].shape \in DOMAIN cfg.shapes /\ entries[i].zones # <<>>
  /\ \A i, k \in DOMAIN entries : entries[i].shape = entries[k].shape => i = k

\* A tier: known shapes, each at most once, with zones that have a budget
ValidTier(cfg, entries) ==
  /\ entries # <<>>
  /\ \A i \in DOMAIN entries :
       /\ entries[i].shape \in DOMAIN cfg.shapes
       /\ entries[i].zones # <<>>
       /\ \A z \in ToSet(entries[i].zones) : Budgeted(cfg, z)
  /\ \A i, k \in DOMAIN entries : entries[i].shape = entries[k].shape => i = k

Validate(cfg) ==
  /\ \A c \in RetryCaps : cfg.caps[c] >= 1
  /\ cfg.safety[1] \in 1..cfg.safety[2]
  /\ \A s \in DOMAIN cfg.zoneSets : \A z \in ToSet(cfg.zoneSets[s]) : Budgeted(cfg, z)
  /\ \A s \in DOMAIN cfg.shapes :
       cfg.shapes[s].zoneSet \in DOMAIN cfg.zoneSets /\ cfg.shapes[s].cpus > 0
  /\ \A s \in DOMAIN cfg.suites : cfg.suites[s].timeout > 0
  /\ \A m \in ToSet(cfg.matrix) :
       /\ ToSet(m.suites) \subseteq DOMAIN cfg.suites
       /\ \A s \in ToSet(m.shapes) :
            /\ s \in DOMAIN cfg.shapes
            /\ m.eachZone => cfg.zoneSets[cfg.shapes[s].zoneSet] # <<>>
  /\ \A r \in ToSet(cfg.rules) : ValidRule(cfg, r)
  /\ \A q \in ToSet(cfg.quarantine) : q.image # NoName \/ q.shape # NoName \/ q.suite # NoName
  /\ \A t \in DOMAIN cfg.tiers : ValidTier(cfg, cfg.tiers[t])
  /\ \A f \in ToSet(cfg.families) :
       IF f.pinned # NoName THEN Budgeted(cfg, f.pinned) ELSE f.zoneSet \in DOMAIN cfg.zoneSets

-----------------------------------------------------------------------------
(* ExpandJobs *)

fullImage(img) == IF img.project = NoName THEN [img EXCEPT !.project = TheProject] ELSE img

\* The rules on which keepJob drops the job
Drops(r, j) ==
  CASE r.kind = "suite_only_on" -> j.suite \in r.suites /\ j.shape \notin r.shapes
    [] r.kind = "keep_only" -> j.shape \in r.shapes /\ j.suite \notin r.suites
    [] r.kind = "drop" -> /\ r.shapes = {} \/ j.shape \in r.shapes
                          /\ r.suites = {} \/ j.suite \in r.suites
                          /\ r.images = {} \/ j.image.base \in r.images
    [] OTHER -> FALSE

\* The rules of a kind that apply to a job that is kept; a later one overrides
Applies(kind, r, j) ==
  r.kind = kind /\ j.shape \in r.shapes /\ (r.suites = {} \/ j.suite \in r.suites)

keepJob(cfg, j) == \A r \in ToSet(cfg.rules) : ~Drops(r, j)

\* What keepJob changes in a job it keeps
Ruled(cfg, j) ==
  LET z == SelectLastInSeq(cfg.rules, LAMBDA r : Applies("zone_set", r, j))
      t == SelectLastInSeq(cfg.rules, LAMBDA r : Applies("timeout", [r EXCEPT !.suites = {}], j))
  IN  [j EXCEPT !.Zones = IF z = 0 THEN @ ELSE cfg.zoneSets[cfg.rules[z].set],
                !.Timeout = IF t = 0 THEN @ ELSE cfg.rules[t].value]

Quarantines(q, j) ==
  /\ q.image \in {NoName, j.image.base}
  /\ q.shape \in {NoName, j.shape}
  /\ q.suite \in {NoName, j.suite}

\* The reason of the last matching entry, be it empty
applyQuarantine(cfg, j) ==
  LET i == SelectLastInSeq(cfg.quarantine, LAMBDA q : Quarantines(q, j))
  IN  IF i = 0 THEN j ELSE [j EXCEPT !.Quarantined = cfg.quarantine[i].reason]

TierEntries(cfg, tier, s) ==
  {e \in ToSet(cfg.tiers[tier]) : e.shape = s}

InTier(cfg, tier, s) == tier \in AllTiers \/ TierEntries(cfg, tier, s) # {}

\* fault: the tier's zones come before the rules
Zoned_RulesLast(cfg, tier, j) ==
  IF tier \in AllTiers THEN Ruled(cfg, j)
  ELSE Ruled(cfg, [j EXCEPT !.Zones = (CHOOSE e \in TierEntries(cfg, tier, j.shape) : TRUE).zones])

\* The zones of the job: of the last zone_set rule, unless a tier pins the shape
Zoned(cfg, tier, j) ==
  [Ruled(cfg, j) EXCEPT
     !.Zones = IF tier \in AllTiers THEN @
               ELSE (CHOOSE e \in TierEntries(cfg, tier, j.shape) : TRUE).zones]

NewJob(cfg, m, s, img, su) ==
  [id |-> <<img.base, s, su>>, config |-> m.name, image |-> fullImage(img), shape |-> s,
   suite |-> su, family |-> NoName, arch |-> cfg.shapes[s].arch,
   CPUCost |-> cfg.shapes[s].cpus * (IF cfg.suites[su].vms < 1 THEN 1 ELSE cfg.suites[su].vms),
   BudgetKey |-> cfg.shapes[s].family, MaxParallel |-> cfg.shapes[s].maxParallel,
   Networks |-> cfg.suites[su].networks, Zones |-> cfg.zoneSets[cfg.shapes[s].zoneSet],
   Timeout |-> cfg.suites[su].timeout, Quarantined |-> NoName]

\* One cell of a matrix row: no job, one, or one for each zone
CellJobs(cfg, tier, m, s, img, su) ==
  LET new == NewJob(cfg, m, s, img, su)
      j == Zoned(cfg, tier, new)
  IN  IF ~InTier(cfg, tier, s) \/ ~keepJob(cfg, new) THEN <<>>
      ELSE IF m.eachZone
        THEN [i \in DOMAIN j.Zones |->
                applyQuarantine(cfg, [j EXCEPT !.id = Append(@, j.Zones[i]),
                                               !.Zones = <<j.Zones[i]>>])]
        ELSE <<applyQuarantine(cfg, j)>>

RowJobs(cfg, tier, m) ==
  FlattenSeq([s \in DOMAIN m.shapes |->
    FlattenSeq([i \in DOMAIN m.images |->
      FlattenSeq([u \in DOMAIN m.suites |->
        CellJobs(cfg, tier, m, m.shapes[s], m.images[i], m.suites[u])])])])

\* A shapevalidation family: no rule and no tier applies, only the quarantine
FamilyJobs(cfg, f) ==
  LET images == IF f.arch = "arm64" THEN cfg.armImages ELSE cfg.svImages
      su == cfg.suites["shapevalidation"]
  IN  [i \in DOMAIN images |->
        applyQuarantine(cfg,
          [id |-> <<images[i].base, f.shape, "shapevalidation">>, config |-> "shapevalidation",
           image |-> fullImage(images[i]), shape |-> f.shape, suite |-> "shapevalidation",
           family |-> f.name, arch |-> f.arch, CPUCost |-> f.cpus, BudgetKey |-> f.family,
           MaxParallel |-> 0, Networks |-> 0,
           Zones |-> IF f.pinned = NoName THEN cfg.zoneSets[f.zoneSet] ELSE <<f.pinned>>,
           Timeout |-> su.timeout, Quarantined |-> NoName])]

admits(f, j) ==
  /\ f.configs = {} \/ j.config \in f.configs
  /\ f.images = {} \/ j.image.base \in f.images
  /\ f.shapes = {} \/ j.shape \in f.shapes
  /\ f.suites = {} \/ j.suite \in f.suites

\* Every job, before the filter
AllJobs(cfg, tier) ==
  FlattenSeq([m \in DOMAIN cfg.matrix |-> RowJobs(cfg, tier, cfg.matrix[m])])
  \o IF tier \in AllTiers
       THEN FlattenSeq([f \in DOMAIN cfg.families |-> FamilyJobs(cfg, cfg.families[f])])
       ELSE <<>>

\* Families without a suite entry, and a job ID that appears twice, are errors
ExpandsOK(cfg, tier) ==
  /\ tier \in AllTiers /\ cfg.families # <<>> => "shapevalidation" \in DOMAIN cfg.suites
  /\ LET all == AllJobs(cfg, tier)
     IN  \A i, k \in DOMAIN all : all[i].id = all[k].id => i = k

\* add: a job that the filter admits is appended
ExpandJobs(cfg, f) ==
  LET all == AllJobs(cfg, f.tier)
  IN  FlattenSeq([i \in DOMAIN all |-> IF admits(f, all[i]) THEN <<all[i]>> ELSE <<>>])

-----------------------------------------------------------------------------
(* placement.go on a configuration *)

budgetKeysFor(cfg, j, r) == {CPUSKey} \cup ({j.BudgetKey} \cap DOMAIN cfg.budgets[r])

\* A zone of a region without a budget row has a limit of 0, and so has a key that is
\* not in the row
LimitOf(cfg, r, k) ==
  IF r \in DOMAIN cfg.budgets /\ k \in DOMAIN cfg.budgets[r] THEN cfg.budgets[r][k] ELSE 0

regionFits(cfg, j, r) ==
  \A k \in IF r \in DOMAIN cfg.budgets THEN budgetKeysFor(cfg, j, r) ELSE {CPUSKey} :
    j.CPUCost <= (LimitOf(cfg, r, k) * cfg.safety[1]) \div cfg.safety[2]

validatePlaceable(cfg, jobs) ==
  \A j \in jobs : j.Quarantined = NoName => \E z \in ToSet(j.Zones) : regionFits(cfg, j, Region[z])
=============================================================================
