---------------------------- MODULE RefreshProofs ----------------------------
(***************************************************************************)
(* What holds of a run directory for every set of configurations, filters  *)
(* and edits, and every sequence of runs, resumes and refreshes.           *)
(***************************************************************************)
EXTENDS Refresh, SequenceFacts

-----------------------------------------------------------------------------
(* The expansion of a configuration *)

JobFields ==
  {"id", "config", "image", "shape", "suite", "family", "arch", "CPUCost", "BudgetKey",
   "MaxParallel", "Networks", "Zones", "Timeout", "Quarantined"}

IsJob(j) == j = [f \in JobFields |-> j[f]]

\* A job that the scheduler can work with: its zones have budget rows
Sound(cfg, j) ==
  /\ IsJob(j)
  /\ j.CPUCost \in Nat
  /\ j.Zones \in Seq(DOMAIN Region)
  /\ \A z \in ToSet(j.Zones) : Budgeted(cfg, z)

\* The fields of a job that neither rules nor tiers nor the quarantine touch
SameCell(j, k) ==
  /\ j.config = k.config /\ j.image = k.image /\ j.shape = k.shape /\ j.suite = k.suite
  /\ j.family = k.family /\ j.CPUCost = k.CPUCost /\ j.BudgetKey = k.BudgetKey

\* A configuration that LoadConfig has read and accepted
Good(cfg) == Decoded(cfg) /\ Validate(cfg)

\* LoadConfig delivers such ones
LEMMA LoadsGood ==
  ASSUME NEW c \in Loads
  PROVE  Good(Config[c])
<1> DEFINE raw == ConfigOf[c]
           cfg == WithDefaults(raw)
<1>1. c \in Files /\ Validate(cfg) /\ Config[c] = cfg
  BY DEF Loads, Config
<1>2. Decoded(raw)
  BY <1>1, FilesAssumption
<1>3. raw = [s \in Sections |-> raw[s]] /\ raw.safety \in Int \X Int
  BY <1>2 DEF Decoded
<1> HIDE DEF raw
<1>4. /\ cfg = [s \in Sections |-> cfg[s]]
      /\ \A s \in Sections \ {"caps", "containerCap", "safety"} : cfg[s] = raw[s]
      /\ cfg.safety = IF raw.safety = <<-1, 1>> THEN <<8, 10>> ELSE raw.safety
  BY <1>3 DEF WithDefaults, Sections
<1>5. cfg.safety \in Int \X Int
  BY <1>3, <1>4
<1>6. /\ cfg.budgets = raw.budgets /\ cfg.zoneSets = raw.zoneSets /\ cfg.shapes = raw.shapes
      /\ cfg.suites = raw.suites /\ cfg.matrix = raw.matrix /\ cfg.rules = raw.rules
      /\ cfg.quarantine = raw.quarantine /\ cfg.tiers = raw.tiers /\ cfg.families = raw.families
      /\ cfg.svImages = raw.svImages /\ cfg.armImages = raw.armImages
  BY <1>4 DEF Sections
<1> HIDE DEF cfg
<1>7. Decoded(cfg)
  BY <1>2, <1>4, <1>5, <1>6 DEF Decoded
<1> QED
  BY <1>1, <1>7 DEF Good

\* The zones of a zone set have budget rows
LEMMA ZoneSetSound ==
  ASSUME NEW cfg, Good(cfg), NEW s \in DOMAIN cfg.zoneSets
  PROVE  /\ cfg.zoneSets[s] \in Seq(DOMAIN Region)
         /\ \A z \in ToSet(cfg.zoneSets[s]) : Budgeted(cfg, z)
  BY DEF Good, Decoded, Validate

\* What the rules make of a job
LEMMA RuledJob ==
  ASSUME NEW cfg, Good(cfg), NEW j, IsJob(j), NEW k, k = Ruled(cfg, j)
  PROVE  /\ IsJob(k) /\ SameCell(k, j) /\ k.id = j.id /\ k.Quarantined = j.Quarantined
         /\ k.Zones = j.Zones \/ \E s \in DOMAIN cfg.zoneSets : k.Zones = cfg.zoneSets[s]
<1> DEFINE P == {i \in 1..Len(cfg.rules) : Applies("zone_set", cfg.rules[i], j)}
           z == IF P # {} THEN Max(P) ELSE 0
           Q == {i \in 1..Len(cfg.rules) :
                   Applies("timeout", [cfg.rules[i] EXCEPT !.suites = {}], j)}
           t == IF Q # {} THEN Max(Q) ELSE 0
           nz == IF z = 0 THEN j.Zones ELSE cfg.zoneSets[cfg.rules[z].set]
           nt == IF t = 0 THEN j.Timeout ELSE cfg.rules[t].value
<1>1. k = [j EXCEPT !.Zones = nz, !.Timeout = nt]
  <2>1. Ruled(cfg, j) = [j EXCEPT !.Zones = IF z = 0 THEN @ ELSE cfg.zoneSets[cfg.rules[z].set],
                                  !.Timeout = IF t = 0 THEN @ ELSE cfg.rules[t].value]
    BY DEF Ruled, SelectLastInSeq
  <2> HIDE DEF z, t
  <2> QED
    BY <2>1
<1>2. nz = j.Zones \/ \E s \in DOMAIN cfg.zoneSets : nz = cfg.zoneSets[s]
  <2>1. CASE z = 0
    BY <2>1
  <2>2. CASE z # 0
    <3>1. P # {}
      BY <2>2
    <3>2. cfg.rules \in Seq(ToSet(cfg.rules)) /\ Len(cfg.rules) \in Nat
      BY DEF Good, Decoded, IsList
    <3>3. Max(P) \in P
      <4>1. P \subseteq 1..Len(cfg.rules)
        OBVIOUS
      <4> HIDE DEF P
      <4> QED
        BY <3>1, <3>2, <4>1, LastPosition
    <3>4. z \in 1..Len(cfg.rules) /\ cfg.rules[z].kind = "zone_set" /\ cfg.rules[z] \in ToSet(cfg.rules)
      <4>1. z \in P
        BY <3>1, <3>3
      <4> HIDE DEF z
      <4> QED
        BY <3>2, <4>1 DEF Applies
    <3> HIDE DEF z
    <3>5. ValidRule(cfg, cfg.rules[z])
      BY <3>4 DEF Good, Validate
    <3>6. cfg.rules[z].set \in DOMAIN cfg.zoneSets
      BY <3>4, <3>5 DEF ValidRule
    <3> QED
      BY <2>2, <3>6
  <2> QED
    BY <2>1, <2>2
<1> HIDE DEF nz, nt
<1>3. IsJob(k) /\ k.Zones = nz /\ SameCell(k, j) /\ k.id = j.id /\ k.Quarantined = j.Quarantined
  BY <1>1 DEF IsJob, JobFields, SameCell
<1> QED
  BY <1>2, <1>3

\* The quarantine only gives a reason
LEMMA QuarantineJob ==
  ASSUME NEW cfg, NEW j, IsJob(j), NEW k, k = applyQuarantine(cfg, j)
  PROVE  IsJob(k) /\ SameCell(k, j) /\ k.id = j.id /\ k.Zones = j.Zones
<1> DEFINE i == SelectLastInSeq(cfg.quarantine, LAMBDA q : Quarantines(q, j))
<1>1. k = j \/ k = [j EXCEPT !.Quarantined = cfg.quarantine[i].reason]
  BY DEF applyQuarantine
<1> HIDE DEF i
<1> QED
  BY <1>1 DEF IsJob, JobFields, SameCell

\* The tiers that a run may be asked for
Tiers(cfg) == AllTiers \cup DOMAIN cfg.tiers

\* The zones come from the job, a zone set or, in a tier, from the entry of the shape
LEMMA ZonedJob ==
  ASSUME NEW cfg, Good(cfg), NEW tier \in Tiers(cfg), NEW j, Sound(cfg, j),
         InTier(cfg, tier, j.shape), NEW k, k = Zoned(cfg, tier, j)
  PROVE  /\ Sound(cfg, k) /\ SameCell(k, j) /\ k.id = j.id
         /\ tier \in AllTiers =>
              k.Zones = j.Zones \/ \E s \in DOMAIN cfg.zoneSets : k.Zones = cfg.zoneSets[s]
         /\ tier \notin AllTiers =>
              k.Zones # <<>> /\ \E e \in TierEntries(cfg, tier, j.shape) : k.Zones = e.zones
<1> DEFINE r == Ruled(cfg, j)
<1>1. /\ IsJob(r) /\ SameCell(r, j) /\ r.id = j.id
      /\ r.Zones = j.Zones \/ \E s \in DOMAIN cfg.zoneSets : r.Zones = cfg.zoneSets[s]
  BY RuledJob DEF Sound
<1>2. r.Zones \in Seq(DOMAIN Region) /\ \A z \in ToSet(r.Zones) : Budgeted(cfg, z)
  BY <1>1, ZoneSetSound DEF Sound
<1>3. CASE tier \in AllTiers
  <2>1. k = [r EXCEPT !.Zones = @]
    BY <1>3 DEF Zoned
  <2> HIDE DEF r
  <2>2. k = r
    BY <1>1, <2>1 DEF IsJob, JobFields
  <2> QED
    BY <1>1, <1>2, <1>3, <2>2 DEF Sound, SameCell
<1>4. CASE tier \notin AllTiers
  <2> DEFINE e == CHOOSE e \in TierEntries(cfg, tier, j.shape) : TRUE
  <2>1. e \in TierEntries(cfg, tier, j.shape)
    BY <1>4 DEF InTier
  <2>2. k = [r EXCEPT !.Zones = e.zones]
    BY <1>4 DEF Zoned
  <2>3. e \in ToSet(cfg.tiers[tier]) /\ tier \in DOMAIN cfg.tiers
    BY <1>4, <2>1 DEF TierEntries, Tiers
  <2>4. e.zones \in Seq(DOMAIN Region)
    BY <2>3 DEF Good, Decoded
  <2>5. e.zones # <<>> /\ \A z \in ToSet(e.zones) : Budgeted(cfg, z)
    <3>1. ValidTier(cfg, cfg.tiers[tier])
      BY <2>3 DEF Good, Validate
    <3>2. PICK i \in DOMAIN cfg.tiers[tier] : e = cfg.tiers[tier][i]
      BY <2>3 DEF ToSet
    <3> QED
      BY <3>1, <3>2 DEF ValidTier
  <2> HIDE DEF r, e
  <2>6. IsJob(k) /\ k.Zones = e.zones /\ SameCell(k, r) /\ k.id = r.id
    BY <1>1, <2>2 DEF IsJob, JobFields, SameCell
  <2> QED
    BY <1>1, <1>4, <2>1, <2>4, <2>5, <2>6 DEF Sound, SameCell
<1> QED
  BY <1>3, <1>4

\* A job in zones that the tier has for the shape
InZonesOf(cfg, tier, s, j) ==
  \E e \in TierEntries(cfg, tier, s) : ToSet(j.Zones) \subseteq ToSet(e.zones)

\* A cell of a row of the matrix
IsCell(cfg, m, s, img, su) ==
  /\ m \in ToSet(cfg.matrix)
  /\ s \in ToSet(m.shapes)
  /\ img \in ToSet(m.images)
  /\ su \in ToSet(m.suites)

\* The job of a cell, before rules and tiers
LEMMA NewJobSound ==
  ASSUME NEW cfg, Good(cfg), NEW m, NEW s, NEW img, NEW su, IsCell(cfg, m, s, img, su)
  PROVE  /\ Sound(cfg, NewJob(cfg, m, s, img, su))
         /\ NewJob(cfg, m, s, img, su).id = <<img.base, s, su>>
         /\ NewJob(cfg, m, s, img, su).shape = s
         /\ \E t \in DOMAIN cfg.zoneSets : NewJob(cfg, m, s, img, su).Zones = cfg.zoneSets[t]
<1> DEFINE j == NewJob(cfg, m, s, img, su)
<1>1. s \in DOMAIN cfg.shapes /\ cfg.shapes[s].zoneSet \in DOMAIN cfg.zoneSets
  BY DEF IsCell, Good, Validate
<1>2. su \in DOMAIN cfg.suites
  BY DEF IsCell, Good, Validate
<1>3. cfg.shapes[s].cpus \in Nat /\ cfg.suites[su].vms \in Nat
  BY <1>1, <1>2 DEF Good, Decoded
<1>4. /\ IsJob(j) /\ j.id = <<img.base, s, su>> /\ j.shape = s
      /\ j.Zones = cfg.zoneSets[cfg.shapes[s].zoneSet]
      /\ j.CPUCost = cfg.shapes[s].cpus * (IF cfg.suites[su].vms < 1 THEN 1 ELSE cfg.suites[su].vms)
  BY DEF NewJob, IsJob, JobFields
<1>5. j.CPUCost \in Nat
  <2>1. ASSUME NEW a \in Nat, NEW b \in Nat PROVE a * b \in Nat
    OBVIOUS
  <2> HIDE DEF j
  <2> QED
    BY <1>3, <1>4, <2>1
<1> HIDE DEF j
<1>6. Sound(cfg, j)
  BY <1>1, <1>4, <1>5, ZoneSetSound DEF Sound
<1> QED
  BY <1>1, <1>4, <1>6 DEF j

\* What ExpandJobs adds for a cell: nothing when the tier or a rule excludes it, and jobs
\* that differ from the new one in zones, timeout, quarantine and the zone in their ID
LEMMA CellSound ==
  ASSUME NEW cfg, Good(cfg), NEW tier \in Tiers(cfg),
         NEW m, NEW s, NEW img, NEW su, IsCell(cfg, m, s, img, su),
         NEW cell, cell = CellJobs(cfg, tier, m, s, img, su),
         NEW new, new = NewJob(cfg, m, s, img, su)
  PROVE  /\ IsList(cell)
         /\ \A j \in ToSet(cell) :
              /\ Sound(cfg, j) /\ SameCell(j, new)
              /\ <<j.id[1], j.id[2], j.id[3]>> = <<img.base, s, su>>
              /\ tier \notin AllTiers =>
                   InZonesOf(cfg, tier, s, j)
         /\ ToSet(cell) # {} => InTier(cfg, tier, s) /\ keepJob(cfg, new)
         /\ InTier(cfg, tier, s) /\ keepJob(cfg, new)
              /\ (tier \notin AllTiers \/ \A t \in DOMAIN cfg.zoneSets : cfg.zoneSets[t] # <<>>)
            => ToSet(cell) # {}
<1> DEFINE j == Zoned(cfg, tier, new)
<1>1. /\ Sound(cfg, new) /\ new.id = <<img.base, s, su>> /\ new.shape = s
      /\ \E t \in DOMAIN cfg.zoneSets : new.Zones = cfg.zoneSets[t]
  BY NewJobSound
<1>2. CASE ~InTier(cfg, tier, s) \/ ~keepJob(cfg, new)
  <2>1. cell = <<>>
    BY <1>2 DEF CellJobs
  <2>2. IsList(<<>>) /\ ToSet(<<>>) = {}
    BY DEF IsList, ToSet
  <2> QED
    BY <1>2, <2>1, <2>2
<1>3. CASE InTier(cfg, tier, s) /\ keepJob(cfg, new)
  <2>1. /\ Sound(cfg, j) /\ SameCell(j, new) /\ j.id = <<img.base, s, su>>
        /\ tier \in AllTiers => \E t \in DOMAIN cfg.zoneSets : j.Zones = cfg.zoneSets[t]
        /\ tier \notin AllTiers =>
             j.Zones # <<>> /\ \E e \in TierEntries(cfg, tier, s) : j.Zones = e.zones
    <3>1. InTier(cfg, tier, new.shape)
      BY <1>1, <1>3
    <3> HIDE DEF j
    <3>2. /\ Sound(cfg, j) /\ SameCell(j, new) /\ j.id = new.id
          /\ tier \in AllTiers =>
              j.Zones = new.Zones \/ \E t \in DOMAIN cfg.zoneSets : j.Zones = cfg.zoneSets[t]
          /\ tier \notin AllTiers =>
              j.Zones # <<>> /\ \E e \in TierEntries(cfg, tier, new.shape) : j.Zones = e.zones
      BY <1>1, <3>1, ZonedJob DEF j
    <3> QED
      BY <1>1, <3>2
  <2>2. (tier \notin AllTiers \/ \A t \in DOMAIN cfg.zoneSets : cfg.zoneSets[t] # <<>>)
          => j.Zones # <<>>
    BY <2>1
  <2> DEFINE each == [i \in DOMAIN j.Zones |->
                        applyQuarantine(cfg, [j EXCEPT !.id = Append(j.id, j.Zones[i]),
                                                       !.Zones = <<j.Zones[i]>>])]
             one == applyQuarantine(cfg, j)
  <2>3. cell = IF m.eachZone THEN each ELSE <<one>>
    BY <1>3 DEF CellJobs
  <2> HIDE DEF j
  <2>4. CASE m.eachZone
    <3>1. cell = each
      BY <2>3, <2>4
    <3>2. j.Zones \in Seq(DOMAIN Region) /\ DOMAIN j.Zones = 1..Len(j.Zones) /\ Len(j.Zones) \in Nat
      BY <2>1 DEF Sound
    <3>3. ASSUME NEW i \in DOMAIN j.Zones
          PROVE  /\ Sound(cfg, each[i]) /\ SameCell(each[i], new)
                 /\ <<each[i].id[1], each[i].id[2], each[i].id[3]>> = <<img.base, s, su>>
                 /\ ToSet(each[i].Zones) \subseteq ToSet(j.Zones)
      <4> DEFINE z == j.Zones[i]
                 k == [j EXCEPT !.id = Append(j.id, z), !.Zones = <<z>>]
      <4>1. each[i] = applyQuarantine(cfg, k)
        OBVIOUS
      <4>2. z \in DOMAIN Region /\ z \in ToSet(j.Zones) /\ Budgeted(cfg, z)
        BY <2>1, <3>2 DEF Sound, ToSet
      <4> HIDE DEF z
      <4>3. IsJob(k) /\ SameCell(k, j) /\ k.id = Append(j.id, z) /\ k.Zones = <<z>>
        BY <2>1 DEF Sound, IsJob, JobFields, SameCell
      <4> HIDE DEF k, each
      <4>4. /\ IsJob(each[i]) /\ SameCell(each[i], k) /\ each[i].id = k.id
            /\ each[i].Zones = <<z>>
        BY <4>1, <4>3, QuarantineJob
      <4>5. <<z>> \in Seq(DOMAIN Region) /\ ToSet(<<z>>) = {z}
        BY <4>2 DEF ToSet
      <4>6. k.CPUCost \in Nat
        BY <2>1, <4>3 DEF Sound, SameCell
      <4>7. Sound(cfg, each[i])
        BY <4>2, <4>4, <4>5, <4>6 DEF Sound, SameCell
      <4>8. SameCell(each[i], new)
        BY <2>1, <4>3, <4>4 DEF SameCell
      <4>9. ASSUME NEW a, NEW b, NEW c
            PROVE  /\ Append(<<a, b, c>>, z)[1] = a
                   /\ Append(<<a, b, c>>, z)[2] = b
                   /\ Append(<<a, b, c>>, z)[3] = c
        OBVIOUS
      <4>10. each[i].id = Append(<<img.base, s, su>>, z)
        BY <2>1, <4>3, <4>4
      <4> QED
        BY <4>2, <4>4, <4>5, <4>7, <4>8, <4>9, <4>10
    <3>4. each \in Seq(ToSet(each)) /\ DOMAIN each = DOMAIN j.Zones
      <4>1. each = [i \in 1..Len(j.Zones) |-> each[i]]
        BY <3>2
      <4> HIDE DEF each
      <4> QED
        BY <3>2, <4>1, ListForm
    <3> HIDE DEF each
    <3>5. \A x \in ToSet(cell) : \E i \in DOMAIN j.Zones : x = each[i]
      BY <3>1, <3>4 DEF ToSet
    <3>6. j.Zones # <<>> => ToSet(cell) # {}
      <4>1. j.Zones # <<>> => 1 \in DOMAIN j.Zones
        BY <3>2
      <4> QED
        BY <3>1, <3>4, <4>1 DEF ToSet
    <3>7. tier \notin AllTiers => \A i \in DOMAIN j.Zones : InZonesOf(cfg, tier, s, each[i])
      <4>1. tier \notin AllTiers => \E e \in TierEntries(cfg, tier, s) : j.Zones = e.zones
        BY <2>1
      <4> QED
        BY <3>3, <4>1 DEF InZonesOf
    <3> QED
      BY <1>3, <2>2, <3>1, <3>3, <3>4, <3>5, <3>6, <3>7 DEF IsList
  <2>5. CASE ~m.eachZone
    <3>1. cell = <<one>>
      BY <2>3, <2>5
    <3>2. IsJob(one) /\ SameCell(one, j) /\ one.id = j.id /\ one.Zones = j.Zones
      BY <2>1, QuarantineJob DEF Sound
    <3> HIDE DEF one
    <3>3. Sound(cfg, one) /\ SameCell(one, new)
      BY <2>1, <3>2 DEF Sound, SameCell
    <3>4. ToSet(cell) = {one} /\ IsList(cell)
      BY <3>1 DEF ToSet, IsList
    <3>5. <<one.id[1], one.id[2], one.id[3]>> = <<img.base, s, su>>
      BY <2>1, <3>2
    <3>6. tier \notin AllTiers => InZonesOf(cfg, tier, s, one)
      BY <2>1, <3>2 DEF InZonesOf
    <3> QED
      BY <1>3, <3>3, <3>4, <3>5, <3>6
  <2> QED
    BY <2>4, <2>5
<1> QED
  BY <1>2, <1>3

\* FlattenSeq over the positions of a list
LEMMA FlattenOver ==
  ASSUME NEW list, IsList(list), NEW seqs, seqs = [i \in DOMAIN list |-> seqs[i]],
         \A i \in DOMAIN list : IsList(seqs[i])
  PROVE  /\ IsList(FlattenSeq(seqs))
         /\ \A x : x \in ToSet(FlattenSeq(seqs)) <=> \E i \in DOMAIN list : x \in ToSet(seqs[i])
<1> DEFINE n == Len(list)
<1>1. n \in Nat /\ DOMAIN list = 1..n
  BY DEF IsList
<1>2. seqs = [i \in 1..n |-> seqs[i]] /\ \A i \in 1..n : seqs[i] \in Seq(ToSet(seqs[i]))
  BY <1>1 DEF IsList
<1> HIDE DEF n
<1>3. /\ FlattenSeq(seqs) \in Seq(ToSet(FlattenSeq(seqs)))
      /\ ToSet(FlattenSeq(seqs)) = UNION {ToSet(seqs[i]) : i \in 1..n}
  BY ONLY <1>1, <1>2, FlattenLists
<1> QED
  BY <1>1, <1>3 DEF IsList

\* The jobs of a row are those of its cells
LEMMA RowIs ==
  ASSUME NEW cfg, Good(cfg), NEW tier \in Tiers(cfg), NEW m \in ToSet(cfg.matrix)
  PROVE  /\ IsList(RowJobs(cfg, tier, m))
         /\ \A j : j \in ToSet(RowJobs(cfg, tier, m)) <=>
                     \E s, img, su : /\ IsCell(cfg, m, s, img, su)
                                     /\ j \in ToSet(CellJobs(cfg, tier, m, s, img, su))
<1> DEFINE Cell(s, i, u) == CellJobs(cfg, tier, m, m.shapes[s], m.images[i], m.suites[u])
           suites(s, i) == [u \in DOMAIN m.suites |-> Cell(s, i, u)]
           images(s) == [i \in DOMAIN m.images |-> FlattenSeq(suites(s, i))]
           shapes == [s \in DOMAIN m.shapes |-> FlattenSeq(images(s))]
<1>1. IsList(m.shapes) /\ IsList(m.images) /\ IsList(m.suites)
  BY DEF Good, Decoded
<1>2. RowJobs(cfg, tier, m) = FlattenSeq(shapes)
  BY DEF RowJobs
<1>3. ASSUME NEW s \in DOMAIN m.shapes, NEW i \in DOMAIN m.images, NEW u \in DOMAIN m.suites
      PROVE  /\ IsCell(cfg, m, m.shapes[s], m.images[i], m.suites[u])
             /\ IsList(Cell(s, i, u))
  <2>1. IsCell(cfg, m, m.shapes[s], m.images[i], m.suites[u])
    BY DEF IsCell, ToSet
  <2> QED
    BY <2>1, CellSound
<1>4. \A s, img, su : IsCell(cfg, m, s, img, su) =>
        \E a \in DOMAIN m.shapes, i \in DOMAIN m.images, u \in DOMAIN m.suites :
          s = m.shapes[a] /\ img = m.images[i] /\ su = m.suites[u]
  BY DEF IsCell, ToSet
<1>5. ASSUME NEW s \in DOMAIN m.shapes, NEW i \in DOMAIN m.images
      PROVE  /\ IsList(FlattenSeq(suites(s, i)))
             /\ \A j : j \in ToSet(FlattenSeq(suites(s, i))) <=>
                         \E u \in DOMAIN m.suites : j \in ToSet(Cell(s, i, u))
  <2> DEFINE q == suites(s, i)
  <2>1. q = [u \in DOMAIN m.suites |-> q[u]] /\ \A u \in DOMAIN m.suites : q[u] = Cell(s, i, u)
    OBVIOUS
  <2> HIDE DEF q, Cell
  <2>2. \A u \in DOMAIN m.suites : IsList(q[u])
    BY <1>3, <2>1
  <2>3. /\ IsList(FlattenSeq(q))
        /\ \A x : x \in ToSet(FlattenSeq(q)) <=> \E u \in DOMAIN m.suites : x \in ToSet(q[u])
    BY <1>1, <2>1, <2>2, FlattenOver
  <2> QED
    BY <2>1, <2>3 DEF q
<1>6. ASSUME NEW s \in DOMAIN m.shapes
      PROVE  /\ IsList(FlattenSeq(images(s)))
             /\ \A j : j \in ToSet(FlattenSeq(images(s))) <=>
                         \E i \in DOMAIN m.images, u \in DOMAIN m.suites : j \in ToSet(Cell(s, i, u))
  <2> DEFINE q == images(s)
  <2>1. q = [i \in DOMAIN m.images |-> q[i]] /\ \A i \in DOMAIN m.images : q[i] = FlattenSeq(suites(s, i))
    OBVIOUS
  <2> HIDE DEF q, Cell, suites
  <2>2. \A i \in DOMAIN m.images : IsList(q[i])
    BY <1>5, <2>1
  <2>3. /\ IsList(FlattenSeq(q))
        /\ \A x : x \in ToSet(FlattenSeq(q)) <=> \E i \in DOMAIN m.images : x \in ToSet(q[i])
    BY <1>1, <2>1, <2>2, FlattenOver
  <2> QED
    BY <1>5, <2>1, <2>3 DEF q
<1>7. /\ IsList(FlattenSeq(shapes))
      /\ \A j : j \in ToSet(FlattenSeq(shapes)) <=>
                  \E s \in DOMAIN m.shapes, i \in DOMAIN m.images, u \in DOMAIN m.suites :
                    j \in ToSet(Cell(s, i, u))
  <2>1. shapes = [s \in DOMAIN m.shapes |-> shapes[s]]
        /\ \A s \in DOMAIN m.shapes : shapes[s] = FlattenSeq(images(s))
    OBVIOUS
  <2> HIDE DEF Cell, suites, images, shapes
  <2>2. \A s \in DOMAIN m.shapes : IsList(shapes[s])
    BY <1>6, <2>1
  <2>3. /\ IsList(FlattenSeq(shapes))
        /\ \A x : x \in ToSet(FlattenSeq(shapes)) <=> \E s \in DOMAIN m.shapes : x \in ToSet(shapes[s])
    BY <1>1, <2>1, <2>2, FlattenOver
  <2> QED
    BY <1>6, <2>1, <2>3
<1> HIDE DEF suites, images, shapes
<1>8. ASSUME NEW j
      PROVE  (\E s \in DOMAIN m.shapes, i \in DOMAIN m.images, u \in DOMAIN m.suites :
                j \in ToSet(Cell(s, i, u)))
             <=> \E s, img, su : /\ IsCell(cfg, m, s, img, su)
                                 /\ j \in ToSet(CellJobs(cfg, tier, m, s, img, su))
  BY <1>3, <1>4
<1> QED
  BY <1>2, <1>7, <1>8

\* The jobs of a family
LEMMA FamilySound ==
  ASSUME NEW cfg, Good(cfg), NEW f \in ToSet(cfg.families)
  PROVE  IsList(FamilyJobs(cfg, f)) /\ \A j \in ToSet(FamilyJobs(cfg, f)) : Sound(cfg, j)
<1> DEFINE images == IF f.arch = "arm64" THEN cfg.armImages ELSE cfg.svImages
           su == cfg.suites["shapevalidation"]
           zones == IF f.pinned = NoName THEN cfg.zoneSets[f.zoneSet] ELSE <<f.pinned>>
           Job(i) ==
             [id |-> <<images[i].base, f.shape, "shapevalidation">>, config |-> "shapevalidation",
              image |-> fullImage(images[i]), shape |-> f.shape, suite |-> "shapevalidation",
              family |-> f.name, arch |-> f.arch, CPUCost |-> f.cpus, BudgetKey |-> f.family,
              MaxParallel |-> 0, Networks |-> 0, Zones |-> zones,
              Timeout |-> su.timeout, Quarantined |-> NoName]
           jobs == [i \in DOMAIN images |-> applyQuarantine(cfg, Job(i))]
<1>1. FamilyJobs(cfg, f) = jobs
  BY DEF FamilyJobs
<1>2. IsList(images)
  BY DEF Good, Decoded
<1>3. zones \in Seq(DOMAIN Region) /\ \A z \in ToSet(zones) : Budgeted(cfg, z)
  <2>1. CASE f.pinned = NoName
    <3>1. f.zoneSet \in DOMAIN cfg.zoneSets
      BY <2>1 DEF Good, Validate
    <3> QED
      BY <2>1, <3>1, ZoneSetSound
  <2>2. CASE f.pinned # NoName
    <3>1. Budgeted(cfg, f.pinned) /\ f.pinned \in DOMAIN Region
      BY <2>2 DEF Good, Validate, Decoded
    <3>2. <<f.pinned>> \in Seq(DOMAIN Region) /\ ToSet(<<f.pinned>>) = {f.pinned}
      BY <3>1 DEF ToSet
    <3> QED
      BY <2>2, <3>1, <3>2
  <2> QED
    BY <2>1, <2>2
<1>4. f.cpus \in Nat
  BY DEF Good, Decoded
<1> HIDE DEF zones, images, su
<1>5. ASSUME NEW i \in DOMAIN images PROVE Sound(cfg, jobs[i])
  <2>1. IsJob(Job(i)) /\ Job(i).Zones = zones /\ Job(i).CPUCost = f.cpus
    BY DEF IsJob, JobFields
  <2>2. jobs[i] = applyQuarantine(cfg, Job(i))
    OBVIOUS
  <2> HIDE DEF jobs, Job
  <2>3. IsJob(jobs[i]) /\ SameCell(jobs[i], Job(i)) /\ jobs[i].Zones = zones
    BY <2>1, <2>2, QuarantineJob
  <2> QED
    BY <1>3, <1>4, <2>1, <2>3 DEF Sound, SameCell
<1>6. DOMAIN images = 1..Len(images) /\ Len(images) \in Nat /\ jobs = [i \in 1..Len(images) |-> jobs[i]]
  BY <1>2 DEF IsList
<1> HIDE DEF jobs
<1>7. IsList(jobs) /\ DOMAIN jobs = DOMAIN images
  BY <1>6, ListForm DEF IsList
<1> QED
  BY <1>1, <1>5, <1>7 DEF ToSet

\* Two lists, one after the other
LEMMA ConcatLists ==
  ASSUME NEW s, IsList(s), NEW t, IsList(t)
  PROVE  IsList(s \o t) /\ ToSet(s \o t) = ToSet(s) \cup ToSet(t)
<1> DEFINE T == ToSet(s) \cup ToSet(t)
<1>1. s \in Seq(T) /\ t \in Seq(T)
  <2>1. ASSUME NEW u, IsList(u), ToSet(u) \subseteq T PROVE u \in Seq(T)
    <3>1. Len(u) \in Nat /\ u = [i \in 1..Len(u) |-> u[i]] /\ \A i \in 1..Len(u) : u[i] \in ToSet(u)
      BY <2>1 DEF IsList
    <3> HIDE DEF T
    <3> QED
      BY <2>1, <3>1
  <2> QED
    BY <2>1
<1> HIDE DEF T
<1>2. s \o t \in Seq(T) /\ ToSet(s \o t) = ToSet(s) \cup ToSet(t)
  BY <1>1, ConcatSet
<1> QED
  BY <1>2 DEF IsList, T

\* Every job comes from a cell of the matrix or from a family
LEMMA AllIs ==
  ASSUME NEW cfg, Good(cfg), NEW tier \in Tiers(cfg)
  PROVE  /\ IsList(AllJobs(cfg, tier))
         /\ \A j : j \in ToSet(AllJobs(cfg, tier)) <=>
              \/ \E m, s, img, su : /\ IsCell(cfg, m, s, img, su)
                                    /\ j \in ToSet(CellJobs(cfg, tier, m, s, img, su))
              \/ tier \in AllTiers /\ \E f \in ToSet(cfg.families) : j \in ToSet(FamilyJobs(cfg, f))
<1> DEFINE rows == [m \in DOMAIN cfg.matrix |-> RowJobs(cfg, tier, cfg.matrix[m])]
           fams == [f \in DOMAIN cfg.families |-> FamilyJobs(cfg, cfg.families[f])]
           rest == IF tier \in AllTiers THEN FlattenSeq(fams) ELSE <<>>
<1>1. IsList(cfg.matrix) /\ IsList(cfg.families)
  BY DEF Good, Decoded
<1>2. AllJobs(cfg, tier) = FlattenSeq(rows) \o rest
  BY DEF AllJobs
<1>3. /\ IsList(FlattenSeq(rows))
      /\ \A j : j \in ToSet(FlattenSeq(rows)) <=>
           \E m \in ToSet(cfg.matrix) : j \in ToSet(RowJobs(cfg, tier, m))
  <2>1. rows = [m \in DOMAIN cfg.matrix |-> rows[m]]
        /\ \A m \in DOMAIN cfg.matrix : rows[m] = RowJobs(cfg, tier, cfg.matrix[m])
    OBVIOUS
  <2> HIDE DEF rows
  <2>2. \A m \in DOMAIN cfg.matrix : IsList(rows[m])
    BY <2>1, RowIs DEF ToSet
  <2>3. /\ IsList(FlattenSeq(rows))
        /\ \A j : j \in ToSet(FlattenSeq(rows)) <=> \E m \in DOMAIN cfg.matrix : j \in ToSet(rows[m])
    BY <1>1, <2>1, <2>2, FlattenOver
  <2>4. ASSUME NEW j
        PROVE  (\E m \in DOMAIN cfg.matrix : j \in ToSet(rows[m]))
               <=> \E m \in ToSet(cfg.matrix) : j \in ToSet(RowJobs(cfg, tier, m))
    <3>1. ToSet(cfg.matrix) = {cfg.matrix[i] : i \in DOMAIN cfg.matrix}
      BY DEF ToSet
    <3> QED
      BY <2>1, <3>1
  <2> QED
    BY <2>3, <2>4
<1>4. /\ IsList(FlattenSeq(fams))
      /\ \A j : j \in ToSet(FlattenSeq(fams)) <=>
           \E f \in ToSet(cfg.families) : j \in ToSet(FamilyJobs(cfg, f))
  <2>1. fams = [f \in DOMAIN cfg.families |-> fams[f]]
        /\ \A f \in DOMAIN cfg.families : fams[f] = FamilyJobs(cfg, cfg.families[f])
    OBVIOUS
  <2> HIDE DEF fams
  <2>2. \A f \in DOMAIN cfg.families : IsList(fams[f])
    BY <2>1, FamilySound DEF ToSet
  <2>3. /\ IsList(FlattenSeq(fams))
        /\ \A j : j \in ToSet(FlattenSeq(fams)) <=> \E f \in DOMAIN cfg.families : j \in ToSet(fams[f])
    BY <1>1, <2>1, <2>2, FlattenOver
  <2>4. ASSUME NEW j
        PROVE  (\E f \in DOMAIN cfg.families : j \in ToSet(fams[f]))
               <=> \E f \in ToSet(cfg.families) : j \in ToSet(FamilyJobs(cfg, f))
    <3>1. ToSet(cfg.families) = {cfg.families[i] : i \in DOMAIN cfg.families}
      BY DEF ToSet
    <3> QED
      BY <2>1, <3>1
  <2> QED
    BY <2>3, <2>4
<1> HIDE DEF rows, fams
<1>5. /\ IsList(rest)
      /\ \A j : j \in ToSet(rest) <=>
           tier \in AllTiers /\ \E f \in ToSet(cfg.families) : j \in ToSet(FamilyJobs(cfg, f))
  <2>1. IsList(<<>>) /\ ToSet(<<>>) = {}
    BY DEF IsList, ToSet
  <2>2. CASE tier \in AllTiers
    BY <1>4, <2>2
  <2>3. CASE tier \notin AllTiers
    BY <2>1, <2>3
  <2> QED
    BY <2>2, <2>3
<1> HIDE DEF rest
<1>6. IsList(AllJobs(cfg, tier)) /\ ToSet(AllJobs(cfg, tier)) = ToSet(FlattenSeq(rows)) \cup ToSet(rest)
  BY <1>2, <1>3, <1>5, ConcatLists
<1>7. ASSUME NEW j
      PROVE  (\E m \in ToSet(cfg.matrix) : j \in ToSet(RowJobs(cfg, tier, m)))
             <=> \E m, s, img, su : /\ IsCell(cfg, m, s, img, su)
                                    /\ j \in ToSet(CellJobs(cfg, tier, m, s, img, su))
  <2>1. \A m, s, img, su : IsCell(cfg, m, s, img, su) => m \in ToSet(cfg.matrix)
    BY DEF IsCell
  <2> QED
    BY <2>1, RowIs
<1> QED
  BY <1>3, <1>5, <1>6, <1>7

\* The expansion with a filter: the jobs it admits, each one once
LEMMA ExpandIs ==
  ASSUME NEW cfg, Good(cfg), NEW f, f.tier \in Tiers(cfg)
  PROVE  /\ IsList(ExpandJobs(cfg, f))
         /\ ToSet(ExpandJobs(cfg, f)) = {j \in ToSet(AllJobs(cfg, f.tier)) : admits(f, j)}
         /\ \A j \in ToSet(ExpandJobs(cfg, f)) : Sound(cfg, j)
         /\ ExpandsOK(cfg, f.tier) =>
              \A i, k \in DOMAIN ExpandJobs(cfg, f) :
                ExpandJobs(cfg, f)[i].id = ExpandJobs(cfg, f)[k].id => i = k
<1> DEFINE all == AllJobs(cfg, f.tier)
           K == {i \in DOMAIN all : admits(f, all[i])}
           seqs == [i \in DOMAIN all |-> IF i \in K THEN <<all[i]>> ELSE <<>>]
           jobs == ExpandJobs(cfg, f)
<1>1. /\ IsList(all)
      /\ \A j \in ToSet(all) :
           \/ \E m, s, img, su : /\ IsCell(cfg, m, s, img, su)
                                 /\ j \in ToSet(CellJobs(cfg, f.tier, m, s, img, su))
           \/ \E h \in ToSet(cfg.families) : j \in ToSet(FamilyJobs(cfg, h))
  BY AllIs
<1>2. \A j \in ToSet(all) : Sound(cfg, j)
  BY <1>1, CellSound, FamilySound
<1>3. jobs = FlattenSeq(seqs)
  <2>1. seqs = [i \in DOMAIN all |-> IF admits(f, all[i]) THEN <<all[i]>> ELSE <<>>]
    <3> HIDE DEF all
    <3> QED
      OBVIOUS
  <2> QED
    BY <2>1 DEF ExpandJobs
<1>4. ExpandsOK(cfg, f.tier) => \A i, k \in DOMAIN all : all[i].id = all[k].id => i = k
  BY DEF ExpandsOK
<1> HIDE DEF all
<1>5. /\ Picks(FlattenSeq(seqs), all, K, Len(all))
      /\ ToSet(FlattenSeq(seqs)) = {all[i] : i \in K \cap DOMAIN all}
  <2>1. seqs = [i \in DOMAIN all |-> IF i \in K THEN <<all[i]>> ELSE <<>>] /\ all \in Seq(ToSet(all))
    BY <1>1 DEF IsList
  <2> HIDE DEF seqs, K
  <2> QED
    BY ONLY <2>1, FlattenFilter
<1> HIDE DEF seqs
<1>6. ToSet(jobs) = {j \in ToSet(all) : admits(f, j)}
  <2>1. ToSet(all) = {all[i] : i \in DOMAIN all}
    BY DEF ToSet
  <2> HIDE DEF jobs
  <2> QED
    BY <1>3, <1>5, <2>1
<1> HIDE DEF jobs, K
<1>7. PICK p \in [1..Len(jobs) -> 1..Len(all)] :
        /\ \A k \in 1..Len(jobs) : jobs[k] = all[p[k]]
        /\ \A k, l \in 1..Len(jobs) : p[k] = p[l] => k = l
  BY <1>3, <1>5 DEF Picks
<1>8. jobs \in Seq(ToSet(all)) /\ DOMAIN jobs = 1..Len(jobs) /\ Len(jobs) \in Nat
  BY <1>3, <1>5 DEF Picks
<1>9. IsList(jobs)
  <2>1. jobs = [i \in 1..Len(jobs) |-> jobs[i]]
    BY <1>8
  <2> QED
    BY <1>8, <2>1, ListForm DEF IsList
<1>10. DOMAIN all = 1..Len(all)
  BY <1>1 DEF IsList
<1>11. ExpandsOK(cfg, f.tier) => \A i, k \in DOMAIN jobs : jobs[i].id = jobs[k].id => i = k
  BY <1>4, <1>7, <1>8, <1>10
<1> QED
  BY <1>2, <1>6, <1>9, <1>11 DEF jobs, all

-----------------------------------------------------------------------------
(* Tiers *)

\* A configuration without its families has the same cells
LEMMA WithoutFamilies ==
  ASSUME NEW cfg, Good(cfg), NEW cut, cut = [cfg EXCEPT !.families = <<>>]
  PROVE  /\ Good(cut) /\ cut.families = <<>>
         /\ \A m, s, img, su : IsCell(cut, m, s, img, su) <=> IsCell(cfg, m, s, img, su)
         /\ \A m, s, img, su : NewJob(cut, m, s, img, su) = NewJob(cfg, m, s, img, su)
         /\ \A j : keepJob(cut, j) <=> keepJob(cfg, j)
         /\ cut.zoneSets = cfg.zoneSets
<1>1. cfg = [s \in Sections |-> cfg[s]]
  BY DEF Good, Decoded
<1>2. /\ cut = [s \in Sections |-> cut[s]] /\ cut.families = <<>> /\ cut.safety = cfg.safety
      /\ cut.budgets = cfg.budgets /\ cut.zoneSets = cfg.zoneSets /\ cut.shapes = cfg.shapes
      /\ cut.suites = cfg.suites /\ cut.matrix = cfg.matrix /\ cut.rules = cfg.rules
      /\ cut.quarantine = cfg.quarantine /\ cut.tiers = cfg.tiers /\ cut.caps = cfg.caps
      /\ cut.svImages = cfg.svImages /\ cut.armImages = cfg.armImages
  BY <1>1 DEF Sections
<1>3. IsList(<<>>) /\ ToSet(<<>>) = {}
  BY DEF IsList, ToSet
<1>4. Decoded(cut)
  BY <1>2, <1>3 DEF Good, Decoded
<1>5. \A z : Budgeted(cut, z) <=> Budgeted(cfg, z)
  BY <1>2 DEF Budgeted
<1>6. \A r : ValidRule(cut, r) <=> ValidRule(cfg, r)
  BY <1>2 DEF ValidRule
<1>7. \A e : ValidTier(cut, e) <=> ValidTier(cfg, e)
  BY <1>2, <1>5 DEF ValidTier
<1>8. Validate(cut)
  BY <1>2, <1>3, <1>5, <1>6, <1>7 DEF Good, Validate
<1>9. \A m, s, img, su : IsCell(cut, m, s, img, su) <=> IsCell(cfg, m, s, img, su)
  BY <1>2 DEF IsCell
<1>10. \A m, s, img, su : NewJob(cut, m, s, img, su) = NewJob(cfg, m, s, img, su)
  BY <1>2 DEF NewJob
<1>11. \A j : keepJob(cut, j) <=> keepJob(cfg, j)
  BY <1>2 DEF keepJob
<1> QED
  BY <1>2, <1>4, <1>8, <1>9, <1>10, <1>11 DEF Good

\* The plan of a tier
LEMMA TierSlice ==
  ASSUME NEW cfg, Good(cfg), NEW f \in Filters, f.tier \in DOMAIN cfg.tiers, f.tier \notin AllTiers,
         NEW plan, plan = ToSet(ExpandJobs(cfg, f)),
         NEW full, full = ToSet(ExpandJobs([cfg EXCEPT !.families = <<>>], [f EXCEPT !.tier = NoName]))
  PROVE  /\ \A j \in full : InTier(cfg, f.tier, j.shape) =>
              \E k \in plan : <<j.id[1], j.id[2], j.id[3]>> = <<k.id[1], k.id[2], k.id[3]>>
         /\ (\A s \in DOMAIN cfg.zoneSets : cfg.zoneSets[s] # <<>>) =>
              \A k \in plan : \E j \in full :
                /\ InTier(cfg, f.tier, j.shape)
                /\ <<j.id[1], j.id[2], j.id[3]>> = <<k.id[1], k.id[2], k.id[3]>>
         /\ \A k \in plan : InZonesOf(cfg, f.tier, k.shape, k)
<1> DEFINE cut == [cfg EXCEPT !.families = <<>>]
           all == [f EXCEPT !.tier = NoName]
<1>1. /\ Good(cut) /\ cut.families = <<>>
      /\ \A m, s, img, su : IsCell(cut, m, s, img, su) <=> IsCell(cfg, m, s, img, su)
      /\ \A m, s, img, su : NewJob(cut, m, s, img, su) = NewJob(cfg, m, s, img, su)
      /\ \A j : keepJob(cut, j) <=> keepJob(cfg, j)
      /\ cut.zoneSets = cfg.zoneSets
  BY WithoutFamilies
<1>2. f = [x \in {"tier", "configs", "images", "shapes", "suites"} |-> f[x]]
  BY FilesAssumption
<1>3. /\ all.tier = NoName /\ all.configs = f.configs /\ all.images = f.images
      /\ all.shapes = f.shapes /\ all.suites = f.suites
  BY <1>2
<1>4. full = ToSet(ExpandJobs(cut, all))
  OBVIOUS
<1> HIDE DEF cut, all
<1>5. NoName \in Tiers(cut) /\ NoName \in AllTiers /\ f.tier \in Tiers(cfg)
  BY DEF Tiers, AllTiers
<1>6. ASSUME NEW j, NEW k, SameCell(j, k) PROVE admits(all, j) <=> admits(f, k)
  BY <1>3, <1>6 DEF admits, SameCell
<1>7. \A j : j \in full <=>
        /\ admits(all, j)
        /\ \E m, s, img, su : /\ IsCell(cfg, m, s, img, su)
                              /\ j \in ToSet(CellJobs(cut, NoName, m, s, img, su))
  <2>1. full = {j \in ToSet(AllJobs(cut, NoName)) : admits(all, j)}
    BY <1>1, <1>3, <1>4, <1>5, ExpandIs
  <2>2. \A j : j \in ToSet(AllJobs(cut, NoName)) <=>
          \/ \E m, s, img, su : /\ IsCell(cut, m, s, img, su)
                                /\ j \in ToSet(CellJobs(cut, NoName, m, s, img, su))
          \/ NoName \in AllTiers
             /\ \E h \in ToSet(cut.families) : j \in ToSet(FamilyJobs(cut, h))
    BY <1>1, <1>5, AllIs
  <2>3. ToSet(cut.families) = {}
    BY <1>1 DEF ToSet
  <2> QED
    BY <1>1, <2>1, <2>2, <2>3
<1>8. \A k : k \in plan <=>
        /\ admits(f, k)
        /\ \E m, s, img, su : /\ IsCell(cfg, m, s, img, su)
                              /\ k \in ToSet(CellJobs(cfg, f.tier, m, s, img, su))
  <2>1. plan = {j \in ToSet(AllJobs(cfg, f.tier)) : admits(f, j)}
    BY <1>5, ExpandIs
  <2>2. \A j : j \in ToSet(AllJobs(cfg, f.tier)) <=>
          \/ \E m, s, img, su : /\ IsCell(cfg, m, s, img, su)
                                /\ j \in ToSet(CellJobs(cfg, f.tier, m, s, img, su))
          \/ f.tier \in AllTiers /\ \E h \in ToSet(cfg.families) : j \in ToSet(FamilyJobs(cfg, h))
    BY <1>5, AllIs
  <2> QED
    BY <2>1, <2>2
<1>9. ASSUME NEW m, NEW s, NEW img, NEW su, IsCell(cfg, m, s, img, su),
             NEW new, new = NewJob(cfg, m, s, img, su)
      PROVE  /\ \A j \in ToSet(CellJobs(cut, NoName, m, s, img, su)) :
                  SameCell(j, new) /\ <<j.id[1], j.id[2], j.id[3]>> = <<img.base, s, su>>
             /\ ToSet(CellJobs(cut, NoName, m, s, img, su)) # {} => keepJob(cfg, new)
             /\ keepJob(cfg, new) /\ (\A t \in DOMAIN cfg.zoneSets : cfg.zoneSets[t] # <<>>)
                => ToSet(CellJobs(cut, NoName, m, s, img, su)) # {}
             /\ \A j \in ToSet(CellJobs(cfg, f.tier, m, s, img, su)) :
                  /\ SameCell(j, new) /\ <<j.id[1], j.id[2], j.id[3]>> = <<img.base, s, su>>
                  /\ InZonesOf(cfg, f.tier, s, j)
             /\ ToSet(CellJobs(cfg, f.tier, m, s, img, su)) # {}
                <=> InTier(cfg, f.tier, s) /\ keepJob(cfg, new)
             /\ new.shape = s
  <2>1. IsCell(cut, m, s, img, su) /\ new = NewJob(cut, m, s, img, su)
    BY <1>1, <1>9
  <2>2. InTier(cut, NoName, s)
    BY <1>5 DEF InTier
  <2>3. new.shape = s
    BY <1>9, NewJobSound
  <2> DEFINE A == CellJobs(cut, NoName, m, s, img, su)
             B == CellJobs(cfg, f.tier, m, s, img, su)
  <2>4. /\ \A j \in ToSet(A) : SameCell(j, new) /\ <<j.id[1], j.id[2], j.id[3]>> = <<img.base, s, su>>
        /\ ToSet(A) # {} => keepJob(cut, new)
        /\ InTier(cut, NoName, s) /\ keepJob(cut, new)
             /\ (NoName \notin AllTiers \/ \A t \in DOMAIN cut.zoneSets : cut.zoneSets[t] # <<>>)
           => ToSet(A) # {}
    BY <1>1, <1>5, <2>1, CellSound
  <2>5. /\ \A j \in ToSet(B) :
             /\ SameCell(j, new) /\ <<j.id[1], j.id[2], j.id[3]>> = <<img.base, s, su>>
             /\ InZonesOf(cfg, f.tier, s, j)
        /\ ToSet(B) # {} => InTier(cfg, f.tier, s) /\ keepJob(cfg, new)
        /\ InTier(cfg, f.tier, s) /\ keepJob(cfg, new) => ToSet(B) # {}
    <3> DEFINE tier == f.tier
    <3>1. tier \in Tiers(cfg) /\ tier \notin AllTiers
      BY <1>5
    <3>2. B = CellJobs(cfg, tier, m, s, img, su)
      OBVIOUS
    <3> HIDE DEF tier, B
    <3>3. /\ \A j \in ToSet(B) :
               /\ SameCell(j, new) /\ <<j.id[1], j.id[2], j.id[3]>> = <<img.base, s, su>>
               /\ tier \notin AllTiers =>
                    InZonesOf(cfg, tier, s, j)
          /\ ToSet(B) # {} => InTier(cfg, tier, s) /\ keepJob(cfg, new)
          /\ InTier(cfg, tier, s) /\ keepJob(cfg, new)
               /\ (tier \notin AllTiers \/ \A t \in DOMAIN cfg.zoneSets : cfg.zoneSets[t] # <<>>)
             => ToSet(B) # {}
      BY <1>9, <3>1, <3>2, CellSound
    <3> QED
      BY <3>1, <3>3 DEF tier
  <2> HIDE DEF A, B
  <2>6. /\ ToSet(A) # {} => keepJob(cfg, new)
        /\ keepJob(cfg, new) /\ (\A t \in DOMAIN cfg.zoneSets : cfg.zoneSets[t] # <<>>) => ToSet(A) # {}
    BY <1>1, <2>2, <2>4
  <2> QED
    BY <2>3, <2>4, <2>5, <2>6 DEF A, B
<1>10. ASSUME NEW j \in full, InTier(cfg, f.tier, j.shape)
       PROVE  \E k \in plan : <<j.id[1], j.id[2], j.id[3]>> = <<k.id[1], k.id[2], k.id[3]>>
  <2>1. PICK m, s, img, su : /\ IsCell(cfg, m, s, img, su)
                             /\ j \in ToSet(CellJobs(cut, NoName, m, s, img, su))
    BY <1>7
  <2> DEFINE new == NewJob(cfg, m, s, img, su)
  <2>2. /\ SameCell(j, new) /\ <<j.id[1], j.id[2], j.id[3]>> = <<img.base, s, su>>
        /\ keepJob(cfg, new) /\ new.shape = s
    BY <1>9, <2>1
  <2>3. InTier(cfg, f.tier, s)
    BY <1>10, <2>2 DEF SameCell
  <2>4. PICK k : k \in ToSet(CellJobs(cfg, f.tier, m, s, img, su))
    BY <1>9, <2>1, <2>2, <2>3
  <2>5. SameCell(k, new) /\ <<k.id[1], k.id[2], k.id[3]>> = <<img.base, s, su>>
    BY <1>9, <2>1, <2>4
  <2> HIDE DEF new
  <2>6. SameCell(j, k)
    BY <2>2, <2>5 DEF SameCell
  <2>7. k \in plan
    BY <1>6, <1>7, <1>8, <2>1, <2>4, <2>6
  <2> QED
    BY <2>2, <2>5, <2>7
<1>11. ASSUME NEW k \in plan, \A t \in DOMAIN cfg.zoneSets : cfg.zoneSets[t] # <<>>
       PROVE  \E j \in full : /\ InTier(cfg, f.tier, j.shape)
                              /\ <<j.id[1], j.id[2], j.id[3]>> = <<k.id[1], k.id[2], k.id[3]>>
  <2>1. PICK m, s, img, su : /\ IsCell(cfg, m, s, img, su)
                             /\ k \in ToSet(CellJobs(cfg, f.tier, m, s, img, su))
    BY <1>8
  <2> DEFINE new == NewJob(cfg, m, s, img, su)
  <2>2. /\ SameCell(k, new) /\ <<k.id[1], k.id[2], k.id[3]>> = <<img.base, s, su>>
        /\ keepJob(cfg, new) /\ InTier(cfg, f.tier, s) /\ new.shape = s
    BY <1>9, <2>1
  <2>3. PICK j : j \in ToSet(CellJobs(cut, NoName, m, s, img, su))
    BY <1>9, <1>11, <2>1, <2>2
  <2>4. SameCell(j, new) /\ <<j.id[1], j.id[2], j.id[3]>> = <<img.base, s, su>>
    BY <1>9, <2>1, <2>3
  <2> HIDE DEF new
  <2>5. SameCell(j, k) /\ j.shape = s
    BY <2>2, <2>4 DEF SameCell
  <2>6. j \in full
    BY <1>6, <1>7, <1>8, <2>1, <2>3, <2>5
  <2> QED
    BY <2>2, <2>4, <2>5, <2>6
<1>12. ASSUME NEW k \in plan
       PROVE  InZonesOf(cfg, f.tier, k.shape, k)
  <2>1. PICK m, s, img, su : /\ IsCell(cfg, m, s, img, su)
                             /\ k \in ToSet(CellJobs(cfg, f.tier, m, s, img, su))
    BY <1>8
  <2> DEFINE new == NewJob(cfg, m, s, img, su)
  <2>2. /\ SameCell(k, new) /\ new.shape = s
        /\ InZonesOf(cfg, f.tier, s, k)
    <3>1. \A j \in ToSet(CellJobs(cfg, f.tier, m, s, img, su)) :
            /\ SameCell(j, new)
            /\ InZonesOf(cfg, f.tier, s, j)
      BY <1>9, <2>1
    <3>2. new.shape = s
      BY <1>9, <2>1
    <3> HIDE DEF new
    <3> QED
      BY <2>1, <3>1, <3>2
  <2>3. k.shape = s
    BY <2>2 DEF SameCell
  <2> QED
    BY <2>2, <2>3
<1> QED
  BY <1>10, <1>11, <1>12

\* Under any filter that names a tier, cmdRun plans a slice of the full matrix, in zones of
\* the tier (ExpandJobs)
THEOREM TiersSlice == Spec => []TierIsASlice
<1>1. TierIsASlice
  <2> SUFFICES ASSUME NEW f \in Filters, pc = "none", yaml \in Expands, f.tier \notin AllTiers,
                      f.tier \in DOMAIN Config[yaml].tiers
               PROVE  LET cfg == Config[yaml]
                          plan == ToSet(ExpandJobs(cfg, f))
                          full == ToSet(ExpandJobs([cfg EXCEPT !.families = <<>>], [f EXCEPT !.tier = NoName]))
                          Cells(jobs) == {<<j.id[1], j.id[2], j.id[3]>> : j \in jobs}
                          slice == Cells({j \in full : InTier(cfg, f.tier, j.shape)})
                      IN  /\ slice \subseteq Cells(plan)
                          /\ (\A s \in DOMAIN cfg.zoneSets : cfg.zoneSets[s] # <<>>) => Cells(plan) \subseteq slice
                          /\ \A j \in plan : \E e \in TierEntries(cfg, f.tier, j.shape) :
                               ToSet(j.Zones) \subseteq ToSet(e.zones)
    BY DEF TierIsASlice
  <2> DEFINE cfg == Config[yaml]
             plan == ToSet(ExpandJobs(cfg, f))
             full == ToSet(ExpandJobs([cfg EXCEPT !.families = <<>>], [f EXCEPT !.tier = NoName]))
  <2>1. Good(cfg)
    BY LoadsGood DEF Expands
  <2>2. f.tier \in DOMAIN cfg.tiers
    OBVIOUS
  <2> HIDE DEF cfg
  <2>3. /\ plan = ToSet(ExpandJobs(cfg, f))
        /\ full = ToSet(ExpandJobs([cfg EXCEPT !.families = <<>>], [f EXCEPT !.tier = NoName]))
    OBVIOUS
  <2> HIDE DEF plan, full
  <2>4. /\ \A j \in full : InTier(cfg, f.tier, j.shape) =>
             \E k \in plan : <<j.id[1], j.id[2], j.id[3]>> = <<k.id[1], k.id[2], k.id[3]>>
        /\ (\A s \in DOMAIN cfg.zoneSets : cfg.zoneSets[s] # <<>>) =>
             \A k \in plan : \E j \in full :
               /\ InTier(cfg, f.tier, j.shape)
               /\ <<j.id[1], j.id[2], j.id[3]>> = <<k.id[1], k.id[2], k.id[3]>>
        /\ \A k \in plan : InZonesOf(cfg, f.tier, k.shape, k)
    BY <2>1, <2>2, <2>3, TierSlice
  <2> DEFINE Cells(jobs) == {<<j.id[1], j.id[2], j.id[3]>> : j \in jobs}
             part == {j \in full : InTier(cfg, f.tier, j.shape)}
  <2>5. Cells(part) \subseteq Cells(plan)
    <3> SUFFICES ASSUME NEW j \in part PROVE <<j.id[1], j.id[2], j.id[3]>> \in Cells(plan)
      OBVIOUS
    <3>1. PICK k \in plan : <<j.id[1], j.id[2], j.id[3]>> = <<k.id[1], k.id[2], k.id[3]>>
      BY <2>4
    <3>2. <<k.id[1], k.id[2], k.id[3]>> \in Cells(plan)
      OBVIOUS
    <3> HIDE DEF Cells
    <3> QED
      BY <3>1, <3>2
  <2>6. (\A s \in DOMAIN cfg.zoneSets : cfg.zoneSets[s] # <<>>) => Cells(plan) \subseteq Cells(part)
    <3> SUFFICES ASSUME \A s \in DOMAIN cfg.zoneSets : cfg.zoneSets[s] # <<>>, NEW k \in plan
                 PROVE  <<k.id[1], k.id[2], k.id[3]>> \in Cells(part)
      OBVIOUS
    <3>1. PICK j \in full : /\ InTier(cfg, f.tier, j.shape)
                            /\ <<j.id[1], j.id[2], j.id[3]>> = <<k.id[1], k.id[2], k.id[3]>>
      BY <2>4
    <3>2. j \in part
      BY <3>1
    <3> HIDE DEF part
    <3>3. <<j.id[1], j.id[2], j.id[3]>> \in Cells(part)
      BY <3>2
    <3> HIDE DEF Cells
    <3> QED
      BY <3>1, <3>3
  <2> QED
    BY <2>4, <2>5, <2>6 DEF cfg, plan, full, InZonesOf
<1> QED
  BY <1>1, PTL

-----------------------------------------------------------------------------
(* The history of one job: its status, the zones its sweep has crossed out, its attempts *)

Statuses == {"queued", "running", "passed", "failed_real", "failed_infra", "skipped_quarantine"}
Results == {"running", "pass", "fail", "infra", "stockout", "orphaned"}
Attempts == [zone : DOMAIN Region, result : Results]

\* What the last attempt of a job says that has such a status
Reason ==
  [running |-> {"running"}, passed |-> {"pass"}, failed_real |-> {"fail"},
   failed_infra |-> {"infra", "stockout"}]

\* A stockout in this zone is among the attempts
Marked(tried, z) == \E i \in DOMAIN tried : tried[i].zone = z /\ tried[i].result = "stockout"

\* Status and sweep agree with the attempts
HistoryOK(status, sweep, tried) ==
  /\ status \in Statuses
  /\ tried \in Seq(Attempts)
  /\ \A i \in DOMAIN tried : tried[i].result = "running" => status = "running" /\ i = Len(tried)
  /\ status \in DOMAIN Reason => tried # <<>> /\ tried[Len(tried)].result \in Reason[status]
  /\ \A z \in sweep : Marked(tried, z)

\* Attempts are only added, and those that have a result keep it
Continues(old, new) ==
  /\ Len(new) >= Len(old)
  /\ \A i \in DOMAIN old : old[i].result # "running" => new[i] = old[i]

\* Nothing happens
LEMMA ContinuesSame ==
  ASSUME NEW tried \in Seq(Attempts)
  PROVE  Continues(tried, tried)
  BY DEF Continues

\* An attempt without a result, and a list of attempts with it at the end
Opened(z) == [zone |-> z, result |-> "running"]
Opening(tried, z) == Append(tried, Opened(z))

\* launch: an attempt is added, and the sweep may start over
LEMMA HistoryLaunched ==
  ASSUME NEW sweep, NEW tried, HistoryOK("queued", sweep, tried), NEW z \in DOMAIN Region,
         NEW left \in SUBSET sweep, NEW add, add = Opening(tried, z)
  PROVE  /\ HistoryOK("running", left, add) /\ Continues(tried, add)
         /\ Len(add) \in DOMAIN add /\ add[Len(add)].zone = z
<1> DEFINE a == Opened(z)
<1>1. tried \in Seq(Attempts) /\ \A i \in DOMAIN tried : tried[i].result # "running"
  BY DEF HistoryOK
<1>2. a \in Attempts /\ a.zone = z /\ a.result = "running"
  BY DEF Attempts, Results, Opened
<1>3. add = Append(tried, a)
  BY DEF Opening
<1> HIDE DEF a
<1>4. add \in Seq(Attempts)
  BY <1>1, <1>2, <1>3
<1>5. Len(tried) \in Nat /\ Len(add) = Len(tried) + 1
  BY <1>1, <1>2, <1>3
<1>6. DOMAIN tried = 1..Len(tried) /\ DOMAIN add = 1..(Len(tried) + 1)
  BY <1>1, <1>4, <1>5
<1>7. add[Len(add)] = a
  BY <1>1, <1>2, <1>3, <1>5
<1>8. \A i \in DOMAIN tried : add[i] = tried[i]
  BY <1>1, <1>2, <1>3, <1>6
<1>9. \A i \in DOMAIN add : add[i].result = "running" => i = Len(add)
  <2> TAKE i \in DOMAIN add
  <2>1. i \in DOMAIN tried \/ i = Len(add)
    BY <1>5, <1>6
  <2> QED
    BY <1>1, <1>8, <2>1
<1>10. ASSUME NEW y \in left PROVE Marked(add, y)
  <2>1. Marked(tried, y)
    BY <1>10 DEF HistoryOK
  <2>2. PICK i \in DOMAIN tried : tried[i].zone = y /\ tried[i].result = "stockout"
    BY <2>1 DEF Marked
  <2>3. i \in DOMAIN add /\ add[i] = tried[i]
    BY <1>5, <1>6, <1>8
  <2> QED
    BY <2>2, <2>3 DEF Marked
<1>11. add # <<>> /\ Len(add) \in DOMAIN add
  BY <1>4, <1>5, <1>6
<1>12. HistoryOK("running", left, add)
  <2>1. "running" \in Statuses /\ Reason["running"] = {"running"}
    BY DEF Statuses, Reason
  <2> QED
    BY <1>2, <1>4, <1>7, <1>9, <1>10, <1>11, <2>1 DEF HistoryOK
<1> QED
  BY <1>2, <1>5, <1>7, <1>8, <1>11, <1>12 DEF Continues

\* The status a result may lead to
Closing ==
  {<<"pass", "passed">>, <<"fail", "failed_real">>, <<"infra", "failed_infra">>,
   <<"infra", "queued">>, <<"orphaned", "queued">>, <<"stockout", "queued">>,
   <<"stockout", "failed_infra">>}

\* The last attempt gets its result; its zone is crossed out by a stockout
LEMMA HistoryClosed ==
  ASSUME NEW sweep, NEW tried, HistoryOK("running", sweep, tried), NEW res, NEW status,
         <<res, status>> \in Closing, NEW end,
         end = [tried EXCEPT ![Len(tried)].result = res]
  PROVE  /\ HistoryOK(status, sweep, end) /\ Continues(tried, end)
         /\ res = "stockout" => HistoryOK(status, sweep \cup {tried[Len(tried)].zone}, end)
<1> DEFINE n == Len(tried)
           a == [tried[n] EXCEPT !.result = res]
<1>1. /\ tried \in Seq(Attempts) /\ tried # <<>>
      /\ \A i \in DOMAIN tried : tried[i].result = "running" => i = n
      /\ tried[n].result = "running"
  BY DEF HistoryOK, Reason
<1>2. n \in Nat /\ DOMAIN tried = 1..n /\ n \in DOMAIN tried /\ tried[n] \in Attempts
  BY <1>1
<1>3. res \in Results \ {"running"} /\ status \in Statuses \ {"running"}
  BY DEF Closing, Results, Statuses
<1>4. end = [tried EXCEPT ![n] = a]
  OBVIOUS
<1>5. a \in Attempts /\ a.zone = tried[n].zone /\ a.result = res
  BY <1>2, <1>3 DEF Attempts
<1> HIDE DEF a
<1>6. end \in Seq(Attempts) /\ Len(end) = n /\ DOMAIN end = DOMAIN tried
  BY <1>1, <1>2, <1>4, <1>5
<1>7. end[n] = a /\ \A i \in DOMAIN tried : i # n => end[i] = tried[i]
  BY <1>1, <1>2, <1>4
<1>8. \A i \in DOMAIN end : end[i].result # "running"
  BY <1>1, <1>3, <1>5, <1>6, <1>7
<1>9. ASSUME NEW y \in sweep PROVE Marked(end, y)
  <2>1. PICK i \in DOMAIN tried : tried[i].zone = y /\ tried[i].result = "stockout"
    BY <1>9 DEF HistoryOK, Marked
  <2>2. i # n
    BY <1>1, <2>1
  <2>3. i \in DOMAIN end /\ end[i] = tried[i]
    BY <1>6, <1>7, <2>2
  <2> QED
    BY <2>1, <2>3 DEF Marked
<1>10. res = "stockout" => Marked(end, tried[n].zone)
  BY <1>2, <1>5, <1>6, <1>7 DEF Marked
<1>11. status \in DOMAIN Reason => end # <<>> /\ end[Len(end)].result \in Reason[status]
  <2>1. status \in DOMAIN Reason => res \in Reason[status]
    BY DEF Reason, Closing
  <2>2. end # <<>>
    BY <1>2, <1>6
  <2> QED
    BY <1>5, <1>6, <1>7, <2>1, <2>2
<1>12. HistoryOK(status, sweep, end)
  BY <1>3, <1>6, <1>8, <1>9, <1>11 DEF HistoryOK
<1>13. res = "stockout" => HistoryOK(status, sweep \cup {tried[n].zone}, end)
  BY <1>3, <1>6, <1>8, <1>9, <1>10, <1>11 DEF HistoryOK
<1>14. Continues(tried, end)
  BY <1>1, <1>2, <1>6, <1>7 DEF Continues
<1> QED
  BY <1>12, <1>13, <1>14

\* A job that failed is queued again, and its sweep may start over
LEMMA HistoryRequeued ==
  ASSUME NEW status \in Unfinished, NEW sweep, NEW tried, HistoryOK(status, sweep, tried),
         NEW left \in SUBSET sweep
  PROVE  HistoryOK("queued", left, tried) /\ HistoryOK(status, left, tried)
<1>1. "queued" \in Statuses /\ "queued" \notin DOMAIN Reason /\ status # "running"
  BY DEF Statuses, Reason, Unfinished
<1> QED
  BY <1>1 DEF HistoryOK

\* A job of a new run
LEMMA HistoryNew ==
  ASSUME NEW status \in {"queued", "skipped_quarantine"}
  PROVE  HistoryOK(status, {}, <<>>)
<1>1. status \in Statuses /\ status \notin DOMAIN Reason
  BY DEF Statuses, Reason
<1> QED
  BY <1>1 DEF HistoryOK

-----------------------------------------------------------------------------
(* The record of one job *)

RecFields == {"job", "status", "sweep", "rounds", "attempts"}

JobOK(j) == IsJob(j) /\ j.CPUCost \in Nat /\ j.Zones \in Seq(DOMAIN Region)

RecordOK(rec) ==
  /\ rec = [f \in RecFields |-> rec[f]]
  /\ JobOK(rec.job)
  /\ HistoryOK(rec.status, rec.sweep, rec.attempts)

\* The zone of the last attempt
LastZone(rec) == rec.attempts[Len(rec.attempts)].zone

\* The job can be placed under cfg: every zone has a budget row, some zone fits, and the one
\* it runs in is one of these and not crossed out
Fits(cfg, rec) ==
  /\ rec.status \in Unfinished \cup {"running"} =>
       FitZones(cfg, rec.job) # {} /\ \A z \in ToSet(rec.job.Zones) : Budgeted(cfg, z)
  /\ rec.status = "running" => LastZone(rec) \in FitZones(cfg, rec.job) /\ LastZone(rec) \notin rec.sweep

\* It can be placed in this sweep
Open(cfg, rec) ==
  rec.status \in {"queued", "failed_real"} => ~(FitZones(cfg, rec.job) \subseteq rec.sweep)

\* What a step leaves of a record
KeptRecord(old, new) ==
  /\ new.job = [old.job EXCEPT !.Zones = new.job.Zones, !.CPUCost = new.job.CPUCost,
                               !.BudgetKey = new.job.BudgetKey]
  /\ old.status \in {"passed", "skipped_quarantine"} => new = old
  /\ Continues(old.attempts, new.attempts)

\* A job that is not redefined
LEMMA SameJob ==
  ASSUME NEW j, IsJob(j), NEW k, k = j
  PROVE  k = [j EXCEPT !.Zones = k.Zones, !.CPUCost = k.CPUCost, !.BudgetKey = k.BudgetKey]
  BY DEF IsJob, JobFields

\* A record with another history
LEMMA RecordWith ==
  ASSUME NEW rec, RecordOK(rec), NEW new, new = [f \in RecFields |-> new[f]], new.job = rec.job,
         HistoryOK(new.status, new.sweep, new.attempts), Continues(rec.attempts, new.attempts),
         rec.status \in {"passed", "skipped_quarantine"} => new = rec
  PROVE  RecordOK(new) /\ KeptRecord(rec, new)
<1>1. IsJob(rec.job)
  BY DEF RecordOK, JobOK
<1>2. new.job = [rec.job EXCEPT !.Zones = new.job.Zones, !.CPUCost = new.job.CPUCost,
                                !.BudgetKey = new.job.BudgetKey]
  BY <1>1, SameJob
<1> QED
  BY <1>2 DEF RecordOK, KeptRecord

\* Nothing happens to it
LEMMA RecordStays ==
  ASSUME NEW rec, RecordOK(rec)
  PROVE  KeptRecord(rec, rec)
<1>1. Continues(rec.attempts, rec.attempts)
  BY ContinuesSame DEF RecordOK, HistoryOK
<1> QED
  BY <1>1, RecordWith DEF RecordOK

\* What a launch, a result, a stockout, a retry and a refresh make of a record
LaunchedRec(rec, z, left) ==
  [rec EXCEPT !.status = "running", !.attempts = Opening(rec.attempts, z), !.sweep = left]

EndedRec(rec, res, status) ==
  [rec EXCEPT !.status = status,
              !.attempts = [rec.attempts EXCEPT ![Len(rec.attempts)].result = res]]

StockedRec(rec, status, rounds) ==
  [EndedRec(rec, "stockout", status) EXCEPT !.sweep = rec.sweep \cup {LastZone(rec)}, !.rounds = rounds]

RequeuedRec(rec, sweep, rounds) ==
  [rec EXCEPT !.status = "queued", !.sweep = sweep, !.rounds = rounds]

RefreshedRec(rec, k) ==
  [rec EXCEPT !.job = Replanned(@, k), !.sweep = {}, !.rounds = 0]

\* launch
LEMMA RecordLaunched ==
  ASSUME NEW rec, RecordOK(rec), rec.status = "queued", NEW z \in DOMAIN Region,
         NEW left \in SUBSET rec.sweep, NEW new, new = LaunchedRec(rec, z, left)
  PROVE  /\ RecordOK(new) /\ KeptRecord(rec, new) /\ new.job = rec.job /\ new.status = "running"
         /\ \A cfg : Fits(cfg, rec) /\ z \in FitZones(cfg, rec.job) \ left
                     => Fits(cfg, new) /\ Open(cfg, new)
<1> DEFINE add == Opening(rec.attempts, z)
<1>1. HistoryOK("queued", rec.sweep, rec.attempts) /\ left \in SUBSET rec.sweep
  BY DEF RecordOK
<1>2. new = [rec EXCEPT !.status = "running", !.attempts = add, !.sweep = left]
  BY DEF LaunchedRec
<1>3. add = Opening(rec.attempts, z)
  OBVIOUS
<1> HIDE DEF add
<1>4. /\ HistoryOK("running", left, add) /\ Continues(rec.attempts, add)
      /\ add[Len(add)].zone = z
  BY <1>1, <1>3, HistoryLaunched
<1>5. /\ new = [f \in RecFields |-> new[f]] /\ new.job = rec.job /\ new.status = "running"
      /\ new.attempts = add /\ new.sweep = left
  BY <1>2 DEF RecordOK, RecFields
<1>6. RecordOK(new) /\ KeptRecord(rec, new)
  <2>1. /\ HistoryOK(new.status, new.sweep, new.attempts)
        /\ Continues(rec.attempts, new.attempts)
    BY <1>4, <1>5
  <2> HIDE <1>2
  <2> QED
    BY <1>5, <2>1, RecordWith
<1>7. ASSUME NEW cfg, Fits(cfg, rec), z \in FitZones(cfg, rec.job) \ left
      PROVE  Fits(cfg, new) /\ Open(cfg, new)
  <2>1. "queued" \in Unfinished
    BY DEF Unfinished
  <2>2. LastZone(new) = z
    BY <1>4, <1>5 DEF LastZone
  <2> QED
    BY <1>5, <1>7, <2>1, <2>2 DEF Fits, Open
<1> QED
  BY <1>5, <1>6, <1>7

\* A result
LEMMA RecordEnded ==
  ASSUME NEW rec, RecordOK(rec), rec.status = "running", NEW res, NEW status,
         <<res, status>> \in Closing, res # "stockout", NEW new, new = EndedRec(rec, res, status)
  PROVE  /\ RecordOK(new) /\ KeptRecord(rec, new) /\ new.job = rec.job /\ new.status = status
         /\ \A cfg : Fits(cfg, rec) => Fits(cfg, new) /\ Open(cfg, new)
<1> DEFINE end == [rec.attempts EXCEPT ![Len(rec.attempts)].result = res]
<1>1. HistoryOK("running", rec.sweep, rec.attempts)
  BY DEF RecordOK
<1>2. new = [rec EXCEPT !.status = status, !.attempts = end]
  BY DEF EndedRec
<1>3. HistoryOK(status, rec.sweep, end) /\ Continues(rec.attempts, end)
  BY <1>1, HistoryClosed
<1> HIDE DEF end
<1>4. /\ new = [f \in RecFields |-> new[f]] /\ new.job = rec.job /\ new.status = status
      /\ new.attempts = end /\ new.sweep = rec.sweep
  BY <1>2 DEF RecordOK, RecFields
<1>5. RecordOK(new) /\ KeptRecord(rec, new)
  BY <1>3, <1>4, RecordWith
<1>6. ASSUME NEW cfg, Fits(cfg, rec) PROVE Fits(cfg, new) /\ Open(cfg, new)
  <2>1. status # "running"
    BY DEF Closing
  <2>2. /\ FitZones(cfg, rec.job) # {} /\ \A z \in ToSet(rec.job.Zones) : Budgeted(cfg, z)
        /\ LastZone(rec) \in FitZones(cfg, rec.job) /\ LastZone(rec) \notin rec.sweep
    BY <1>6 DEF Fits
  <2>3. ~(FitZones(cfg, new.job) \subseteq new.sweep)
    BY <1>4, <2>2
  <2>4. Fits(cfg, new)
    BY <1>4, <2>1, <2>2 DEF Fits
  <2> QED
    BY <2>3, <2>4 DEF Open
<1> QED
  BY <1>4, <1>5, <1>6

\* A stockout: the zone is crossed out; the last one of a sweep makes the job cool down, or
\* fail
LEMMA RecordStockedOut ==
  ASSUME NEW rec, RecordOK(rec), rec.status = "running", NEW status \in {"failed_infra", "queued"},
         NEW rounds, NEW new, new = StockedRec(rec, status, rounds)
  PROVE  /\ RecordOK(new) /\ KeptRecord(rec, new) /\ new.job = rec.job /\ new.status = status
         /\ \A cfg : Fits(cfg, rec) =>
              /\ Fits(cfg, new)
              /\ Open(cfg, new) \/ /\ status = "queued"
                                   /\ FitZones(cfg, rec.job) \subseteq rec.sweep \cup {LastZone(rec)}
<1> DEFINE end == [rec.attempts EXCEPT ![Len(rec.attempts)].result = "stockout"]
           marked == rec.sweep \cup {LastZone(rec)}
<1>1. HistoryOK("running", rec.sweep, rec.attempts) /\ <<"stockout", status>> \in Closing
  BY DEF RecordOK, Closing
<1>2. new = [[rec EXCEPT !.status = status, !.attempts = end] EXCEPT !.sweep = marked, !.rounds = rounds]
  BY DEF StockedRec, EndedRec
<1>3. HistoryOK(status, marked, end) /\ Continues(rec.attempts, end)
  BY <1>1, HistoryClosed DEF LastZone
<1> HIDE DEF end, marked
<1>4. /\ new = [f \in RecFields |-> new[f]] /\ new.job = rec.job /\ new.status = status
      /\ new.attempts = end /\ new.sweep = marked
  BY <1>2 DEF RecordOK, RecFields
<1>5. RecordOK(new) /\ KeptRecord(rec, new)
  BY <1>3, <1>4, RecordWith
<1>6. ASSUME NEW cfg, Fits(cfg, rec)
      PROVE  /\ Fits(cfg, new)
             /\ Open(cfg, new) \/ (status = "queued" /\ FitZones(cfg, rec.job) \subseteq marked)
  <2>1. FitZones(cfg, rec.job) # {} /\ \A z \in ToSet(rec.job.Zones) : Budgeted(cfg, z)
    BY <1>6 DEF Fits
  <2>2. Fits(cfg, new)
    BY <1>4, <2>1 DEF Fits
  <2>3. status = "failed_infra" => Open(cfg, new)
    BY <1>4 DEF Open
  <2>4. ~(FitZones(cfg, rec.job) \subseteq marked) => Open(cfg, new)
    BY <1>4 DEF Open
  <2> QED
    BY <2>2, <2>3, <2>4
<1> QED
  BY <1>4, <1>5, <1>6 DEF marked

\* A failed job is queued again: with a new sweep, or with the one it has, in which the zone
\* of its last attempt is open
LEMMA RecordRequeued ==
  ASSUME NEW rec, RecordOK(rec), NEW sweep, NEW rounds, NEW new,
         \/ rec.status = "failed_infra" /\ sweep = {}
         \/ rec.status = "failed_real" /\ sweep = rec.sweep,
         new = RequeuedRec(rec, sweep, rounds)
  PROVE  /\ RecordOK(new) /\ KeptRecord(rec, new) /\ new.job = rec.job /\ new.status = "queued"
         /\ \A cfg : Fits(cfg, rec) /\ Open(cfg, rec) => Fits(cfg, new) /\ Open(cfg, new)
<1>1. rec.status \in Unfinished /\ HistoryOK(rec.status, rec.sweep, rec.attempts)
  BY DEF RecordOK, Unfinished
<1>2. HistoryOK("queued", sweep, rec.attempts)
  BY <1>1, HistoryRequeued
<1>3. /\ new = [f \in RecFields |-> new[f]] /\ new.job = rec.job /\ new.status = "queued"
      /\ new.attempts = rec.attempts /\ new.sweep = sweep
  BY DEF RecordOK, RecFields, RequeuedRec
<1>4. Continues(rec.attempts, rec.attempts)
  BY <1>1, ContinuesSame DEF HistoryOK
<1>5. RecordOK(new) /\ KeptRecord(rec, new)
  BY <1>2, <1>3, <1>4, RecordWith
<1>6. ASSUME NEW cfg, Fits(cfg, rec), Open(cfg, rec) PROVE Fits(cfg, new) /\ Open(cfg, new)
  BY <1>1, <1>3, <1>6 DEF Fits, Open
<1> QED
  BY <1>3, <1>5, <1>6

\* A refresh gives an unfinished job new zones, cost and key, and a new sweep; it can be
\* placed where the new job fits
LEMMA RecordRefreshed ==
  ASSUME NEW rec, RecordOK(rec), rec.status \in Unfinished, NEW k, JobOK(k), NEW new,
         new = RefreshedRec(rec, k)
  PROVE  /\ RecordOK(new) /\ KeptRecord(rec, new) /\ new.status = rec.status
         /\ \A cfg : /\ \A z \in ToSet(k.Zones) : Budgeted(cfg, z)
                     /\ FitZones(cfg, new.job) # {}
                     => Fits(cfg, new) /\ Open(cfg, new)
<1> DEFINE j == [rec.job EXCEPT !.Zones = k.Zones, !.CPUCost = k.CPUCost, !.BudgetKey = k.BudgetKey]
<1>1. /\ rec.status \in Unfinished /\ HistoryOK(rec.status, rec.sweep, rec.attempts)
      /\ IsJob(rec.job)
  BY DEF RecordOK, JobOK
<1>2. HistoryOK(rec.status, {}, rec.attempts)
  BY <1>1, HistoryRequeued
<1>3. /\ new = [f \in RecFields |-> new[f]] /\ new.status = rec.status
      /\ new.attempts = rec.attempts /\ new.sweep = {} /\ new.job = j
  BY DEF RecordOK, RecFields, RefreshedRec, Replanned
<1>4. /\ JobOK(j) /\ j.Zones = k.Zones
      /\ j = [rec.job EXCEPT !.Zones = j.Zones, !.CPUCost = j.CPUCost, !.BudgetKey = j.BudgetKey]
  BY <1>1 DEF JobOK, IsJob, JobFields
<1> HIDE DEF j
<1>5. Continues(rec.attempts, rec.attempts)
  BY <1>1, ContinuesSame DEF HistoryOK
<1>6. rec.status \notin {"passed", "skipped_quarantine", "running"}
  BY DEF Unfinished
<1>7. RecordOK(new) /\ KeptRecord(rec, new)
  BY <1>2, <1>3, <1>4, <1>5, <1>6 DEF RecordOK, KeptRecord
<1>8. ASSUME NEW cfg, \A z \in ToSet(k.Zones) : Budgeted(cfg, z), FitZones(cfg, new.job) # {}
      PROVE  Fits(cfg, new) /\ Open(cfg, new)
  <2>1. ~(FitZones(cfg, new.job) \subseteq {})
    BY <1>8
  <2> QED
    BY <1>3, <1>4, <1>6, <1>8, <2>1 DEF Fits, Open
<1> QED
  BY <1>3, <1>7, <1>8

-----------------------------------------------------------------------------
(* A run directory *)

RunFields == {"order", "jobs", "cooldowns"}

SavedOK(run) ==
  /\ run = [f \in RunFields |-> run[f]]
  /\ IsList(run.order)
  /\ \A i, k \in DOMAIN run.order : run.order[i] = run.order[k] => i = k
  /\ run.jobs = [id \in IDs(run) |-> run.jobs[id]]
  /\ run.cooldowns \subseteq {id \in IDs(run) : run.jobs[id].status = "queued"}
  /\ \A id \in IDs(run) : RecordOK(run.jobs[id])

\* Every job can be placed, now or when its cooldown is over
PlacedOK(cfg, run) ==
  \A id \in IDs(run) :
    Fits(cfg, run.jobs[id]) /\ (id \notin run.cooldowns => Open(cfg, run.jobs[id]))

\* What a step leaves of a run
KeptRun(old, new) ==
  /\ new.order = old.order
  /\ \A id \in IDs(old) : KeptRecord(old.jobs[id], new.jobs[id])

\* No job is redefined
SameJobs(old, new) == \A id \in IDs(old) : new.jobs[id].job = old.jobs[id].job

\* A run that is saved is sound, and one that the configuration has been applied to can be
\* scheduled
Inv ==
  /\ TypeOK
  /\ pc = "none" => disk = NoRun
  /\ pc = "running" => yaml \in Loads
  /\ pc # "none" => SavedOK(disk)
  /\ pc # "none" /\ current => yaml \in Loads /\ PlacedOK(Config[yaml], disk)

\* The configuration goes on to place the jobs
StillPlaced(old, new) == \A cfg : PlacedOK(cfg, old) => PlacedOK(cfg, new)

\* One job changes, and perhaps whether it cools down
LEMMA OneJob ==
  ASSUME NEW run, SavedOK(run), NEW id \in IDs(run), NEW rec, RecordOK(rec),
         KeptRecord(run.jobs[id], rec), rec.job = run.jobs[id].job,
         NEW new, new = [f \in RunFields |-> new[f]], new.order = run.order,
         new.jobs = [run.jobs EXCEPT ![id] = rec],
         new.cooldowns \ {id} = run.cooldowns \ {id}, id \in new.cooldowns => rec.status = "queued"
  PROVE  /\ SavedOK(new) /\ KeptRun(run, new) /\ SameJobs(run, new)
         /\ \A cfg : /\ PlacedOK(cfg, run) /\ Fits(cfg, rec)
                     /\ id \notin new.cooldowns => Open(cfg, rec)
                     => PlacedOK(cfg, new)
<1>1. IDs(new) = IDs(run)
  BY DEF IDs
<1>2. /\ run.jobs = [i \in IDs(run) |-> run.jobs[i]]
      /\ run.cooldowns \subseteq {i \in IDs(run) : run.jobs[i].status = "queued"}
      /\ \A i \in IDs(run) : RecordOK(run.jobs[i])
      /\ IsList(run.order)
      /\ \A i, k \in DOMAIN run.order : run.order[i] = run.order[k] => i = k
  BY DEF SavedOK
<1>3. /\ new.jobs = [i \in IDs(run) |-> new.jobs[i]] /\ new.jobs[id] = rec
      /\ \A i \in IDs(run) : i # id => new.jobs[i] = run.jobs[i]
  BY <1>2
<1>4. \A i \in IDs(run) : RecordOK(new.jobs[i])
  BY <1>2, <1>3
<1>5. \A i \in IDs(run) : i # id => (i \in new.cooldowns <=> i \in run.cooldowns)
  OBVIOUS
<1>6. new.cooldowns \subseteq {i \in IDs(run) : new.jobs[i].status = "queued"}
  BY <1>2, <1>3
<1>7. SavedOK(new)
  BY <1>1, <1>2, <1>3, <1>4, <1>6 DEF SavedOK
<1>8. KeptRun(run, new)
  BY <1>2, <1>3, RecordStays DEF KeptRun
<1>9. SameJobs(run, new)
  BY <1>3 DEF SameJobs
<1>10. ASSUME NEW cfg, PlacedOK(cfg, run), Fits(cfg, rec), id \notin new.cooldowns => Open(cfg, rec)
       PROVE  PlacedOK(cfg, new)
  <2> SUFFICES ASSUME NEW i \in IDs(run)
               PROVE  Fits(cfg, new.jobs[i]) /\ (i \notin new.cooldowns => Open(cfg, new.jobs[i]))
    BY <1>1 DEF PlacedOK
  <2>1. CASE i = id
    BY <1>3, <1>10, <2>1
  <2>2. CASE i # id
    BY <1>3, <1>5, <1>10, <2>2 DEF PlacedOK
  <2> QED
    BY <2>1, <2>2
<1> QED
  BY <1>7, <1>8, <1>9, <1>10

\* launch
LEMMA LaunchedRun ==
  ASSUME NEW run, SavedOK(run), NEW id \in IDs(run), run.jobs[id].status = "queued",
         NEW cfg, NEW z \in OpenZones(cfg, run, id), NEW new, new = Launched(run, id, z)
  PROVE  /\ SavedOK(new) /\ KeptRun(run, new) /\ SameJobs(run, new)
         /\ PlacedOK(cfg, run) => PlacedOK(cfg, new)
<1> DEFINE old == run.jobs[id]
           left == IF id \in run.cooldowns THEN {} ELSE old.sweep
           add == Opening(old.attempts, z)
           rec == LaunchedRec(old, z, left)
<1>1. RecordOK(old) /\ run = [f \in RunFields |-> run[f]] /\ run.jobs = [i \in IDs(run) |-> run.jobs[i]]
  BY DEF SavedOK
<1>2. old = [f \in RecFields |-> old[f]]
  BY <1>1 DEF RecordOK
<1>3. rec = [old EXCEPT !.status = "running", !.attempts = add, !.sweep = left]
  BY DEF LaunchedRec
<1>4. add = Append(old.attempts, [zone |-> z, result |-> "running"])
  BY DEF Opening, Opened
<1> HIDE DEF add
<1>5. new = [run EXCEPT !.jobs[id].status = "running", !.jobs[id].attempts = add,
                        !.jobs[id].sweep = left, !.cooldowns = @ \ {id}]
  BY <1>1, <1>2, <1>4 DEF Launched, RunFields, RecFields
<1> HIDE DEF rec, left
<1>6. /\ new = [f \in RunFields |-> new[f]] /\ new.order = run.order
      /\ new.cooldowns = run.cooldowns \ {id}
      /\ new.jobs = [run.jobs EXCEPT ![id] = rec]
  <2>1. /\ run = [f \in RunFields |-> run[f]] /\ run.jobs = [i \in IDs(run) |-> run.jobs[i]]
        /\ run.jobs[id] = [f \in RecFields |-> run.jobs[id][f]]
        /\ rec = [run.jobs[id] EXCEPT !.status = "running", !.attempts = add, !.sweep = left]
    BY <1>1, <1>2, <1>3
  <2> QED
    BY ONLY <1>5, <2>1, id \in IDs(run) DEF RunFields, RecFields
<1>7. z \in FitZones(cfg, old.job) \ left
  BY DEF OpenZones, left
<1>8. z \in DOMAIN Region /\ left \in SUBSET old.sweep
  <2>1. old.job.Zones \in Seq(DOMAIN Region)
    BY <1>1 DEF RecordOK, JobOK
  <2> QED
    BY <1>7, <2>1 DEF FitZones, ToSet, left
<1>9. rec = LaunchedRec(old, z, left) /\ old.status = "queued"
  BY DEF rec
<1> HIDE DEF old
<1>10. /\ RecordOK(rec) /\ KeptRecord(old, rec) /\ rec.job = old.job /\ rec.status = "running"
       /\ Fits(cfg, old) => Fits(cfg, rec) /\ Open(cfg, rec)
  <2>1. RecordOK(old)
    BY <1>1
  <2> QED
    BY ONLY <2>1, <1>7, <1>8, <1>9, RecordLaunched
<1>11. new.cooldowns \ {id} = run.cooldowns \ {id} /\ id \notin new.cooldowns
  BY <1>6
<1>12. /\ SavedOK(new) /\ KeptRun(run, new) /\ SameJobs(run, new)
       /\ PlacedOK(cfg, run) /\ Fits(cfg, rec) /\ Open(cfg, rec) => PlacedOK(cfg, new)
  BY <1>6, <1>10, <1>11, OneJob DEF old
<1>13. PlacedOK(cfg, run) => Fits(cfg, old)
  BY DEF PlacedOK, old
<1> QED
  BY <1>10, <1>12, <1>13

\* A result
LEMMA EndedRun ==
  ASSUME NEW run, SavedOK(run), NEW id \in IDs(run), run.jobs[id].status = "running",
         NEW res, NEW status, <<res, status>> \in Closing, res # "stockout",
         NEW new, new = Ended(run, id, res, status)
  PROVE  SavedOK(new) /\ KeptRun(run, new) /\ SameJobs(run, new) /\ StillPlaced(run, new)
<1> DEFINE old == run.jobs[id]
           rec == EndedRec(old, res, status)
<1>1. /\ RecordOK(old) /\ run = [f \in RunFields |-> run[f]]
      /\ run.jobs = [i \in IDs(run) |-> run.jobs[i]] /\ id \notin run.cooldowns
  BY DEF SavedOK
<1>2. /\ new = [f \in RunFields |-> new[f]] /\ new.order = run.order
      /\ new.jobs = [run.jobs EXCEPT ![id] = rec] /\ new.cooldowns = run.cooldowns
  <2>1. old = [f \in RecFields |-> old[f]]
    BY <1>1 DEF RecordOK
  <2> QED
    BY <1>1, <2>1 DEF Ended, EndedRec, RunFields, RecFields
<1>3. rec = EndedRec(old, res, status) /\ old.status = "running"
  OBVIOUS
<1> HIDE DEF rec, old
<1>4. /\ RecordOK(rec) /\ KeptRecord(old, rec) /\ rec.job = old.job
      /\ \A cfg : Fits(cfg, old) => Fits(cfg, rec) /\ Open(cfg, rec)
  <2>1. RecordOK(old)
    BY <1>1
  <2> QED
    BY ONLY <2>1, <1>3, <<res, status>> \in Closing, res # "stockout", RecordEnded
<1>5. new.cooldowns \ {id} = run.cooldowns \ {id} /\ ~(id \in new.cooldowns)
  BY <1>1, <1>2
<1>6. /\ SavedOK(new) /\ KeptRun(run, new) /\ SameJobs(run, new)
      /\ \A cfg : PlacedOK(cfg, run) /\ Fits(cfg, rec) /\ Open(cfg, rec) => PlacedOK(cfg, new)
  BY <1>2, <1>4, <1>5, OneJob DEF old
<1>7. \A cfg : PlacedOK(cfg, run) => Fits(cfg, old)
  BY DEF PlacedOK, old
<1> QED
  BY <1>4, <1>6, <1>7 DEF StillPlaced

\* recordStockout
LEMMA StockedOutRun ==
  ASSUME NEW run, SavedOK(run), NEW id \in IDs(run), run.jobs[id].status = "running",
         NEW cfg, NEW new, new = StockedOut(cfg, run, id)
  PROVE  /\ SavedOK(new) /\ KeptRun(run, new) /\ SameJobs(run, new)
         /\ PlacedOK(cfg, run) => PlacedOK(cfg, new)
<1> DEFINE old == run.jobs[id]
           marked == old.sweep \cup {LastZone(old)}
           full == FitZones(cfg, old.job) \subseteq marked
           out == full /\ old.rounds + 1 >= cfg.caps["stockout"]
           status == IF out THEN "failed_infra" ELSE "queued"
           rounds == IF full THEN old.rounds + 1 ELSE old.rounds
           cool == IF full /\ ~out THEN run.cooldowns \cup {id} ELSE run.cooldowns
           rec == StockedRec(old, status, rounds)
           mid == Ended(run, id, "stockout", status)
<1>1. /\ RecordOK(old) /\ run = [f \in RunFields |-> run[f]]
      /\ run.jobs = [i \in IDs(run) |-> run.jobs[i]] /\ id \notin run.cooldowns
  BY DEF SavedOK
<1>2. new = [mid EXCEPT !.jobs[id].sweep = marked, !.jobs[id].rounds = IF full THEN @ + 1 ELSE @,
                        !.cooldowns = IF full /\ ~out THEN @ \cup {id} ELSE @]
  BY DEF StockedOut, LastZone
<1>3. /\ mid = [f \in RunFields |-> mid[f]] /\ mid.order = run.order
      /\ mid.jobs = [run.jobs EXCEPT ![id] = EndedRec(old, "stockout", status)]
      /\ mid.cooldowns = run.cooldowns
  <2>1. old = [f \in RecFields |-> old[f]]
    BY <1>1 DEF RecordOK
  <2> HIDE DEF status
  <2> QED
    BY <1>1, <2>1 DEF Ended, EndedRec, RunFields, RecFields
<1>4. /\ status \in {"failed_infra", "queued"}
      /\ status = "queued" /\ full => id \in cool
      /\ id \in cool => status = "queued"
      /\ cool \ {id} = run.cooldowns \ {id}
  BY <1>1
<1> HIDE DEF mid, full, out, marked, status
<1> HIDE DEF cool, rounds, rec
<1>5. /\ new = [f \in RunFields |-> new[f]] /\ new.order = run.order
      /\ new.jobs = [run.jobs EXCEPT ![id] = rec] /\ new.cooldowns = cool
  <2> DEFINE end == EndedRec(old, "stockout", status)
  <2>1. end = [f \in RecFields |-> end[f]] /\ end.rounds = old.rounds
    BY <1>1 DEF RecordOK, EndedRec, RecFields
  <2>2. rec = [end EXCEPT !.sweep = marked, !.rounds = rounds]
    BY DEF StockedRec, marked, rec
  <2>3. rounds = IF full THEN end.rounds + 1 ELSE end.rounds
    BY <2>1 DEF rounds
  <2>4. cool = IF full /\ ~out THEN mid.cooldowns \cup {id} ELSE mid.cooldowns
    BY <1>3 DEF cool
  <2>5. mid.jobs = [run.jobs EXCEPT ![id] = end] /\ mid.jobs[id] = end
    BY <1>1, <1>3
  <2> HIDE DEF end
  <2>6. new = [mid EXCEPT !.jobs[id].sweep = marked, !.jobs[id].rounds = rounds, !.cooldowns = cool]
    <3>1. mid = [f \in RunFields |-> mid[f]] /\ id \in DOMAIN mid.jobs
      BY <1>1, <1>3
    <3> QED
      BY ONLY <1>2, <2>1, <2>3, <2>4, <2>5, <3>1 DEF RunFields, RecFields
  <2>7. mid = [f \in RunFields |-> mid[f]] /\ mid.order = run.order
        /\ run.jobs = [i \in IDs(run) |-> run.jobs[i]]
    BY <1>1, <1>3
  <2> QED
    BY ONLY <2>1, <2>2, <2>5, <2>6, <2>7, id \in IDs(run) DEF RunFields, RecFields
<1>6. rec = StockedRec(old, status, rounds) /\ old.status = "running"
  BY DEF rec
<1> HIDE DEF old
<1>7. /\ RecordOK(rec) /\ KeptRecord(old, rec) /\ rec.job = old.job /\ rec.status = status
      /\ Fits(cfg, old) =>
           /\ Fits(cfg, rec)
           /\ Open(cfg, rec) \/ /\ status = "queued"
                                /\ FitZones(cfg, old.job) \subseteq old.sweep \cup {LastZone(old)}
  <2>1. RecordOK(old)
    BY <1>1
  <2> QED
    BY ONLY <2>1, <1>4, <1>6, RecordStockedOut
<1>8. /\ SavedOK(new) /\ KeptRun(run, new) /\ SameJobs(run, new)
      /\ /\ PlacedOK(cfg, run) /\ Fits(cfg, rec)
         /\ id \notin new.cooldowns => Open(cfg, rec)
         => PlacedOK(cfg, new)
  <2>1. new.cooldowns \ {id} = run.cooldowns \ {id} /\ (id \in new.cooldowns => rec.status = "queued")
    BY <1>4, <1>5, <1>7
  <2> QED
    BY <1>5, <1>7, <2>1, OneJob DEF old
<1>9. PlacedOK(cfg, run) => Fits(cfg, old)
  BY DEF PlacedOK, old
<1>10. status = "queued" /\ FitZones(cfg, old.job) \subseteq old.sweep \cup {LastZone(old)}
         => id \in new.cooldowns
  BY <1>4, <1>5 DEF full, marked
<1> QED
  BY <1>7, <1>8, <1>9, <1>10

\* prepareResume, a job that was running
LEMMA ReconciledRun ==
  ASSUME NEW run, SavedOK(run), NEW id \in IDs(run), run.jobs[id].status = "running",
         NEW cfg, NEW res \in DOMAIN StatusOf \cup {"stockout"}, NEW new, new = Reconciled(cfg, run, id, res)
  PROVE  /\ SavedOK(new) /\ KeptRun(run, new) /\ SameJobs(run, new)
         /\ PlacedOK(cfg, run) => PlacedOK(cfg, new)
<1>1. CASE res = "stockout"
  BY <1>1, StockedOutRun DEF Reconciled
<1>2. CASE res # "stockout"
  <2>1. <<res, StatusOf[res]>> \in Closing
    BY <1>2 DEF Closing, StatusOf
  <2>2. new = Ended(run, id, res, StatusOf[res])
    BY <1>2 DEF Reconciled
  <2> QED
    BY <1>2, <2>1, <2>2, EndedRun DEF StillPlaced
<1> QED
  BY <1>1, <1>2

\* What a job that runs may turn into
LEMMA OutcomeRun ==
  ASSUME NEW run, SavedOK(run), NEW id \in IDs(run), run.jobs[id].status = "running",
         NEW cfg, NEW new \in Outcomes(cfg, run, id)
  PROVE  /\ SavedOK(new) /\ KeptRun(run, new) /\ SameJobs(run, new)
         /\ PlacedOK(cfg, run) => PlacedOK(cfg, new)
<1>1. CASE new = StockedOut(cfg, run, id)
  BY <1>1, StockedOutRun
<1>2. CASE \E res, status : /\ <<res, status>> \in Closing /\ res # "stockout"
                            /\ new = Ended(run, id, res, status)
  BY <1>2, EndedRun DEF StillPlaced
<1>3. {<<"pass", "passed">>, <<"fail", "failed_real">>, <<"infra", "failed_infra">>} \subseteq Closing
  BY DEF Closing
<1> QED
  BY <1>1, <1>2, <1>3 DEF Outcomes

\* prepareResume
LEMMA PreparedRun ==
  ASSUME NEW run, SavedOK(run), NEW cfg, NEW onlyFailed \in BOOLEAN,
         NEW new \in Prepared(cfg, run, onlyFailed)
  PROVE  /\ SavedOK(new) /\ KeptRun(run, new) /\ SameJobs(run, new)
         /\ PlacedOK(cfg, run) => PlacedOK(cfg, new)
<1> DEFINE With(s) == {id \in IDs(run) : run.jobs[id].status = s}
           After(id, res) == Reconciled(cfg, run, id, res)
<1>1. PICK res \in [With("running") -> DOMAIN StatusOf \cup {"stockout"}] :
        new = [run EXCEPT
          !.jobs = [id \in IDs(run) |->
             IF id \in With("running") THEN After(id, res[id]).jobs[id]
             ELSE IF id \in With("failed_infra")
               THEN [run.jobs[id] EXCEPT !.status = "queued", !.sweep = {}, !.rounds = 0]
             ELSE IF id \in With("failed_real") /\ onlyFailed
               THEN [run.jobs[id] EXCEPT !.status = "queued"]
             ELSE run.jobs[id]],
          !.cooldowns = (@ \ With("failed_infra"))
                          \cup {id \in With("running") : id \in After(id, res[id]).cooldowns}]
  BY DEF Prepared
<1> DEFINE Rec(id) ==
             IF id \in With("running") THEN After(id, res[id]).jobs[id]
             ELSE IF id \in With("failed_infra")
               THEN [run.jobs[id] EXCEPT !.status = "queued", !.sweep = {}, !.rounds = 0]
             ELSE IF id \in With("failed_real") /\ onlyFailed
               THEN [run.jobs[id] EXCEPT !.status = "queued"]
             ELSE run.jobs[id]
           cool == (run.cooldowns \ With("failed_infra"))
                     \cup {id \in With("running") : id \in After(id, res[id]).cooldowns}
           recs == [id \in IDs(run) |-> Rec(id)]
<1>2. /\ run = [f \in RunFields |-> run[f]] /\ IsList(run.order)
      /\ \A i, k \in DOMAIN run.order : run.order[i] = run.order[k] => i = k
      /\ run.cooldowns \subseteq With("queued")
      /\ \A id \in IDs(run) : RecordOK(run.jobs[id])
  BY DEF SavedOK
<1>3. new = [run EXCEPT !.jobs = recs, !.cooldowns = cool]
  BY <1>1
<1>4. /\ \A id \in IDs(run) : recs[id] = Rec(id)
      /\ recs = [id \in IDs(run) |-> recs[id]]
  OBVIOUS
<1>5. ASSUME NEW id \in With("running")
      PROVE  /\ RecordOK(Rec(id)) /\ KeptRecord(run.jobs[id], Rec(id)) /\ Rec(id).job = run.jobs[id].job
             /\ id \in cool => Rec(id).status = "queued"
             /\ PlacedOK(cfg, run) => Fits(cfg, Rec(id)) /\ (id \notin cool => Open(cfg, Rec(id)))
  <2> DEFINE aft == Reconciled(cfg, run, id, res[id])
  <2>1. id \in IDs(run) /\ run.jobs[id].status = "running" /\ res[id] \in DOMAIN StatusOf \cup {"stockout"}
    OBVIOUS
  <2>2. Rec(id) = aft.jobs[id]
    OBVIOUS
  <2>3. id \in cool <=> id \in aft.cooldowns
    BY <1>2, <2>1
  <2>4. aft = Reconciled(cfg, run, id, res[id])
    OBVIOUS
  <2> HIDE DEF aft
  <2>5. /\ SavedOK(aft) /\ KeptRun(run, aft) /\ SameJobs(run, aft)
        /\ PlacedOK(cfg, run) => PlacedOK(cfg, aft)
    BY ONLY SavedOK(run), <2>1, <2>4, ReconciledRun
  <2>6. id \in IDs(aft)
    BY <2>1, <2>5 DEF KeptRun, IDs
  <2> HIDE DEF Rec, cool
  <2>7. RecordOK(Rec(id)) /\ KeptRecord(run.jobs[id], Rec(id)) /\ Rec(id).job = run.jobs[id].job
    BY <2>1, <2>2, <2>5, <2>6 DEF SavedOK, KeptRun, SameJobs
  <2>8. id \in cool => Rec(id).status = "queued"
    BY <2>2, <2>3, <2>5, <2>6 DEF SavedOK
  <2>9. PlacedOK(cfg, run) => Fits(cfg, Rec(id)) /\ (id \notin cool => Open(cfg, Rec(id)))
    BY <2>2, <2>3, <2>5, <2>6 DEF PlacedOK
  <2> QED
    BY <2>7, <2>8, <2>9
<1>6. ASSUME NEW id \in With("failed_infra") \cup With("failed_real"), Rec(id) # run.jobs[id]
      PROVE  /\ RecordOK(Rec(id)) /\ KeptRecord(run.jobs[id], Rec(id)) /\ Rec(id).job = run.jobs[id].job
             /\ Rec(id).status = "queued" /\ id \notin cool
             /\ PlacedOK(cfg, run) => Fits(cfg, Rec(id)) /\ Open(cfg, Rec(id))
  <2> DEFINE old == run.jobs[id]
             sweep == IF id \in With("failed_infra") THEN {} ELSE old.sweep
             rounds == IF id \in With("failed_infra") THEN 0 ELSE old.rounds
             rec == Rec(id)
  <2>1. id \in IDs(run) /\ RecordOK(old) /\ id \notin With("running") /\ id \notin run.cooldowns
    BY <1>2
  <2>2. id \notin cool
    BY <2>1
  <2>3. \/ old.status = "failed_infra" /\ sweep = {}
        \/ old.status = "failed_real" /\ sweep = old.sweep
    OBVIOUS
  <2>4. rec = RequeuedRec(old, sweep, rounds)
    <3>1. old = [f \in RecFields |-> old[f]]
      BY <2>1 DEF RecordOK
    <3>2. CASE id \in With("failed_infra")
      BY <2>1, <3>1, <3>2 DEF RecFields, RequeuedRec
    <3>3. CASE id \notin With("failed_infra")
      <4>1. rec = [old EXCEPT !.status = "queued"]
        BY <1>6, <2>1, <3>3
      <4>2. sweep = old.sweep /\ rounds = old.rounds
        BY <3>3
      <4> HIDE DEF rec, sweep, rounds, old
      <4> QED
        BY <3>1, <4>1, <4>2 DEF RecFields, RequeuedRec
    <3> QED
      BY <3>2, <3>3
  <2>5. PlacedOK(cfg, run) => Fits(cfg, old) /\ Open(cfg, old)
    BY <2>1 DEF PlacedOK
  <2> HIDE DEF rec, sweep, rounds, old, cool
  <2>6. /\ RecordOK(rec) /\ KeptRecord(old, rec) /\ rec.job = old.job /\ rec.status = "queued"
        /\ Fits(cfg, old) /\ Open(cfg, old) => Fits(cfg, rec) /\ Open(cfg, rec)
    <3>1. RecordOK(old)
      BY <2>1
    <3> QED
      BY ONLY <3>1, <2>3, <2>4, RecordRequeued
  <2> QED
    BY <2>2, <2>5, <2>6 DEF rec, old
<1>7. ASSUME NEW id \in IDs(run), id \notin With("running"), Rec(id) = run.jobs[id]
      PROVE  /\ RecordOK(Rec(id)) /\ KeptRecord(run.jobs[id], Rec(id)) /\ Rec(id).job = run.jobs[id].job
             /\ id \in cool => Rec(id).status = "queued"
             /\ PlacedOK(cfg, run) => Fits(cfg, Rec(id)) /\ (id \notin cool => Open(cfg, Rec(id)))
  <2>1. RecordOK(run.jobs[id])
    BY <1>2
  <2>2. id \in cool <=> id \in run.cooldowns
    <3>1. id \in run.cooldowns => id \notin With("failed_infra")
      BY <1>2
    <3> QED
      BY <1>7, <3>1
  <2>3. KeptRecord(run.jobs[id], run.jobs[id])
    BY <2>1, RecordStays
  <2>4. id \in run.cooldowns => run.jobs[id].status = "queued"
    BY <1>2
  <2> HIDE DEF Rec, cool
  <2> QED
    BY <1>7, <2>1, <2>2, <2>3, <2>4 DEF PlacedOK
<1>8. ASSUME NEW id \in IDs(run), id \notin With("running") PROVE
        Rec(id) = run.jobs[id] \/ id \in With("failed_infra") \cup With("failed_real")
  BY <1>8
<1>9. cool \subseteq IDs(run)
  BY <1>2
<1> HIDE DEF Rec, cool
<1>10. ASSUME NEW id \in IDs(run)
       PROVE  /\ RecordOK(recs[id]) /\ KeptRecord(run.jobs[id], recs[id]) /\ recs[id].job = run.jobs[id].job
              /\ id \in cool => recs[id].status = "queued"
              /\ PlacedOK(cfg, run) => Fits(cfg, recs[id]) /\ (id \notin cool => Open(cfg, recs[id]))
  <2>1. recs[id] = Rec(id)
    BY <1>4
  <2> HIDE DEF recs
  <2>2. CASE id \in With("running")
    BY <1>5, <2>1, <2>2
  <2>3. CASE id \notin With("running") /\ Rec(id) = run.jobs[id]
    BY <1>7, <2>1, <2>3
  <2>4. CASE id \notin With("running") /\ Rec(id) # run.jobs[id]
    BY <1>6, <1>8, <2>1, <2>4
  <2> QED
    BY <2>2, <2>3, <2>4
<1>11. recs = [id \in IDs(run) |-> recs[id]]
  BY <1>4
<1> HIDE DEF recs
<1>12. /\ new = [f \in RunFields |-> new[f]] /\ new.order = run.order /\ new.jobs = recs
       /\ new.cooldowns = cool
  BY <1>2, <1>3 DEF RunFields
<1>13. IDs(new) = IDs(run)
  BY <1>12 DEF IDs
<1>14. SavedOK(new)
  <2>1. new.cooldowns \subseteq {id \in IDs(new) : new.jobs[id].status = "queued"}
    BY <1>9, <1>10, <1>12, <1>13
  <2> QED
    BY <1>2, <1>10, <1>11, <1>12, <1>13, <2>1 DEF SavedOK
<1>15. KeptRun(run, new) /\ SameJobs(run, new)
  BY <1>10, <1>12 DEF KeptRun, SameJobs
<1>16. PlacedOK(cfg, run) => PlacedOK(cfg, new)
  BY <1>10, <1>12, <1>13 DEF PlacedOK
<1> QED
  BY <1>14, <1>15, <1>16

\* A job fits where it did when only its quarantine is another
LEMMA FitZonesSame ==
  ASSUME NEW cfg, NEW j, IsJob(j)
  PROVE  FitZones(cfg, [j EXCEPT !.Quarantined = NoName]) = FitZones(cfg, j)
<1> DEFINE k == [j EXCEPT !.Quarantined = NoName]
<1>1. k.Zones = j.Zones /\ k.CPUCost = j.CPUCost /\ k.BudgetKey = j.BudgetKey
  BY DEF IsJob, JobFields
<1> HIDE DEF k
<1>2. \A r : regionFits(cfg, k, r) <=> regionFits(cfg, j, r)
  BY <1>1 DEF regionFits, budgetKeysFor
<1>3. FitZones(cfg, k) = FitZones(cfg, j)
  BY <1>1, <1>2 DEF FitZones
<1> QED
  BY <1>3 DEF k

\* The expansion of an edited configuration is sound
LEMMA FreshSound ==
  ASSUME NEW c \in Expands, NEW id \in DOMAIN Fresh[c]
  PROVE  Sound(Config[c], Fresh[c][id])
<1> DEFINE all == ExpandJobs(Config[c], NoFilter)
           at == CHOOSE i \in DOMAIN all : all[i].id = id
<1>1. Fresh[c] = [i \in {all[k].id : k \in DOMAIN all} |-> all[CHOOSE k \in DOMAIN all : all[k].id = i]]
  BY DEF Fresh
<1>2. Good(Config[c]) /\ NoFilter.tier \in Tiers(Config[c])
  BY LoadsGood DEF Expands, NoFilter, Tiers, AllTiers
<1>3. IsList(all) /\ \A j \in ToSet(all) : Sound(Config[c], j)
  BY <1>2, ExpandIs
<1> HIDE DEF all
<1>4. at \in DOMAIN all
  BY <1>1
<1>5. Fresh[c][id] = all[at]
  BY <1>1
<1>6. all[at] \in ToSet(all)
  BY <1>4 DEF ToSet
<1> QED
  BY <1>3, <1>5, <1>6

\* refreshRunConfig: what it has checked makes the new jobs placeable
LEMMA RefreshedRun ==
  ASSUME NEW run, SavedOK(run), NEW c, RefreshOK(c, run), NEW new, new = Refreshed(c, run)
  PROVE  SavedOK(new) /\ KeptRun(run, new) /\ PlacedOK(Config[c], new)
<1> DEFINE cfg == Config[c]
           cand == Candidates(run)
           Rec(id) ==
             IF id \notin cand THEN run.jobs[id]
             ELSE [run.jobs[id] EXCEPT !.job = Replanned(@, Fresh[c][id]),
                                       !.sweep = {}, !.rounds = 0]
           recs == [id \in IDs(run) |-> Rec(id)]
           cool == run.cooldowns \ cand
<1>1. /\ run = [f \in RunFields |-> run[f]] /\ IsList(run.order)
      /\ \A i, k \in DOMAIN run.order : run.order[i] = run.order[k] => i = k
      /\ run.cooldowns \subseteq {id \in IDs(run) : run.jobs[id].status = "queued"}
      /\ \A id \in IDs(run) : RecordOK(run.jobs[id])
  BY DEF SavedOK
<1>2. new = [run EXCEPT !.jobs = recs, !.cooldowns = cool]
  BY <1>1 DEF Refreshed, RunFields
<1>3. /\ c \in Expands /\ cand \subseteq DOMAIN Fresh[c]
      /\ \A id \in IDs(run) : run.jobs[id].status # "running"
      /\ validatePlaceable(cfg, {[new.jobs[id].job EXCEPT !.Quarantined = NoName] : id \in cand})
  BY DEF RefreshOK
<1>4. cand = {id \in IDs(run) : run.jobs[id].status \in Unfinished} /\ cand \subseteq IDs(run)
  BY DEF Candidates
<1>5. cool = {}
  BY <1>1, <1>4 DEF Unfinished
<1>6. \A id \in IDs(run) : recs[id] = Rec(id)
  OBVIOUS
<1>7. recs = [id \in IDs(run) |-> recs[id]]
  BY <1>6
<1>8. \A id \in IDs(run) : id \notin cand => recs[id] = run.jobs[id]
  BY <1>6
<1>9. \A id \in cand : recs[id] = RefreshedRec(run.jobs[id], Fresh[c][id])
  BY <1>4, <1>6 DEF RefreshedRec
<1> HIDE DEF recs, Rec, cand, cool, cfg
<1>10. /\ new = [f \in RunFields |-> new[f]] /\ new.order = run.order /\ new.jobs = recs
       /\ new.cooldowns = cool /\ IDs(new) = IDs(run)
  BY <1>1, <1>2 DEF RunFields, IDs
<1>11. ASSUME NEW id \in cand
       PROVE  /\ RecordOK(recs[id]) /\ KeptRecord(run.jobs[id], recs[id])
              /\ Fits(cfg, recs[id]) /\ Open(cfg, recs[id])
  <2> DEFINE k == Fresh[c][id]
             old == run.jobs[id]
             rec == recs[id]
             j == rec.job
  <2>1. RecordOK(old) /\ old.status \in Unfinished
    BY <1>1, <1>4
  <2>2. Sound(cfg, k)
    BY <1>3, FreshSound DEF cfg
  <2>3. JobOK(k) /\ \A z \in ToSet(k.Zones) : Budgeted(cfg, z)
    BY <2>2 DEF Sound, JobOK
  <2>4. rec = RefreshedRec(old, k)
    BY <1>9
  <2>5. new.jobs[id] = rec
    BY <1>10
  <2> HIDE DEF k, old, rec
  <2>6. /\ RecordOK(rec) /\ KeptRecord(old, rec)
        /\ \A y : /\ \A z \in ToSet(k.Zones) : Budgeted(y, z)
                  /\ FitZones(y, rec.job) # {}
                  => Fits(y, rec) /\ Open(y, rec)
    BY ONLY <2>1, <2>3, <2>4, RecordRefreshed
  <2>7. FitZones(cfg, j) # {}
    <3> DEFINE l == [j EXCEPT !.Quarantined = NoName]
    <3>1. IsJob(j)
      BY <2>6 DEF RecordOK, JobOK
    <3>2. l.Quarantined = NoName
      BY <3>1 DEF IsJob, JobFields
    <3>3. l \in {[new.jobs[i].job EXCEPT !.Quarantined = NoName] : i \in cand}
      BY <2>5
    <3> HIDE DEF l, j
    <3>4. \E z \in ToSet(l.Zones) : regionFits(cfg, l, Region[z])
      BY <1>3, <3>2, <3>3 DEF validatePlaceable
    <3>5. FitZones(cfg, l) # {}
      BY <3>4 DEF FitZones
    <3> QED
      BY <3>1, <3>5, FitZonesSame DEF l
  <2> QED
    BY <2>3, <2>6, <2>7 DEF rec, old
<1>12. ASSUME NEW id \in IDs(run), id \notin cand
       PROVE  /\ RecordOK(recs[id]) /\ KeptRecord(run.jobs[id], recs[id])
              /\ Fits(cfg, recs[id]) /\ Open(cfg, recs[id])
  <2>1. recs[id] = run.jobs[id] /\ RecordOK(run.jobs[id])
    BY <1>1, <1>8, <1>12
  <2>2. recs[id].status \notin Unfinished \cup {"running"}
    BY <1>3, <1>4, <1>12, <2>1
  <2>3. KeptRecord(run.jobs[id], run.jobs[id])
    BY <2>1, RecordStays
  <2> QED
    BY <2>1, <2>2, <2>3 DEF Fits, Open, Unfinished
<1>13. \A id \in IDs(run) :
         /\ RecordOK(recs[id]) /\ KeptRecord(run.jobs[id], recs[id])
         /\ Fits(cfg, recs[id]) /\ Open(cfg, recs[id])
  BY <1>11, <1>12
<1>14. SavedOK(new)
  BY <1>1, <1>5, <1>7, <1>10, <1>13 DEF SavedOK
<1>15. KeptRun(run, new)
  BY <1>10, <1>13 DEF KeptRun
<1>16. PlacedOK(cfg, new)
  BY <1>10, <1>13 DEF PlacedOK
<1> QED
  BY <1>14, <1>15, <1>16 DEF cfg

\* Two steps
LEMMA KeptTwice ==
  ASSUME NEW a, SavedOK(a), NEW b, SavedOK(b), NEW c, SavedOK(c), KeptRun(a, b), KeptRun(b, c)
  PROVE  KeptRun(a, c)
<1>1. c.order = a.order /\ IDs(b) = IDs(a) /\ IDs(c) = IDs(a)
  BY DEF KeptRun, IDs
<1>2. ASSUME NEW id \in IDs(a) PROVE KeptRecord(a.jobs[id], c.jobs[id])
  <2> DEFINE x == a.jobs[id]
             y == b.jobs[id]
             z == c.jobs[id]
  <2>1. KeptRecord(x, y) /\ KeptRecord(y, z) /\ RecordOK(x) /\ RecordOK(y) /\ RecordOK(z)
    BY <1>1 DEF KeptRun, SavedOK
  <2> HIDE DEF x, y, z
  <2>2. /\ IsJob(x.job) /\ IsJob(y.job) /\ IsJob(z.job)
        /\ x.attempts \in Seq(Attempts) /\ y.attempts \in Seq(Attempts) /\ z.attempts \in Seq(Attempts)
    BY <2>1 DEF RecordOK, JobOK, HistoryOK
  <2>3. z.job = [x.job EXCEPT !.Zones = z.job.Zones, !.CPUCost = z.job.CPUCost,
                              !.BudgetKey = z.job.BudgetKey]
    <3> DEFINE i == x.job
               j == y.job
               k == z.job
    <3>1. /\ IsJob(i) /\ IsJob(j) /\ IsJob(k)
          /\ j = [i EXCEPT !.Zones = j.Zones, !.CPUCost = j.CPUCost, !.BudgetKey = j.BudgetKey]
          /\ k = [j EXCEPT !.Zones = k.Zones, !.CPUCost = k.CPUCost, !.BudgetKey = k.BudgetKey]
      BY <2>1, <2>2 DEF KeptRecord
    <3> HIDE DEF i, j, k
    <3>2. k = [i EXCEPT !.Zones = k.Zones, !.CPUCost = k.CPUCost, !.BudgetKey = k.BudgetKey]
      BY ONLY <3>1 DEF IsJob, JobFields
    <3> QED
      BY <3>2 DEF i, j, k
  <2>4. Continues(x.attempts, z.attempts)
    <3> DEFINE r == x.attempts
               s == y.attempts
               t == z.attempts
    <3>1. /\ r \in Seq(Attempts) /\ s \in Seq(Attempts) /\ t \in Seq(Attempts)
          /\ Continues(r, s) /\ Continues(s, t)
      BY <2>1, <2>2 DEF KeptRecord
    <3> HIDE DEF r, s, t
    <3>2. Len(r) \in Nat /\ Len(s) \in Nat /\ Len(t) \in Nat /\ DOMAIN r = 1..Len(r) /\ DOMAIN s = 1..Len(s)
      BY <3>1
    <3>3. Continues(r, t)
      BY <3>1, <3>2 DEF Continues
    <3> QED
      BY <3>3 DEF r, t
  <2>5. x.status \in {"passed", "skipped_quarantine"} => z = x
    BY <2>1 DEF KeptRecord
  <2> QED
    BY <2>3, <2>4, <2>5 DEF KeptRecord, x, z
<1> QED
  BY <1>1, <1>2 DEF KeptRun

\* The record of a job that has not run
NewRec(j) ==
  [job |-> j, status |-> IF j.Quarantined = NoName THEN "queued" ELSE "skipped_quarantine",
   sweep |-> {}, rounds |-> 0, attempts |-> <<>>]

\* It is sound, and can be placed when the configuration holds it
LEMMA NewRecord ==
  ASSUME NEW cfg, NEW j, Sound(cfg, j), j.Quarantined = NoName => FitZones(cfg, j) # {}
  PROVE  RecordOK(NewRec(j)) /\ Fits(cfg, NewRec(j)) /\ Open(cfg, NewRec(j))
<1> DEFINE rec == NewRec(j)
<1>1. /\ rec = [f \in RecFields |-> rec[f]] /\ rec.job = j /\ rec.sweep = {} /\ rec.attempts = <<>>
      /\ rec.status = IF j.Quarantined = NoName THEN "queued" ELSE "skipped_quarantine"
  BY DEF NewRec, RecFields
<1> HIDE DEF rec
<1>2. JobOK(j) /\ \A z \in ToSet(j.Zones) : Budgeted(cfg, z)
  BY DEF Sound, JobOK
<1>3. HistoryOK(rec.status, rec.sweep, rec.attempts)
  <2>1. rec.status \in {"queued", "skipped_quarantine"}
    BY <1>1
  <2> QED
    BY <1>1, <2>1, HistoryNew
<1>4. RecordOK(rec)
  BY <1>1, <1>2, <1>3 DEF RecordOK
<1>5. Fits(cfg, rec)
  BY <1>1, <1>2 DEF Fits, Unfinished
<1>6. Open(cfg, rec)
  <2>1. j.Quarantined = NoName => ~(FitZones(cfg, j) \subseteq {})
    OBVIOUS
  <2> QED
    BY <1>1, <2>1 DEF Open
<1> QED
  BY <1>4, <1>5, <1>6 DEF rec

\* cmdRun: the run it saves is sound, and can be scheduled
LEMMA NewRun ==
  ASSUME NEW cfg, Good(cfg), NEW f, f.tier \in Tiers(cfg), ExpandsOK(cfg, f.tier),
         validatePlaceable(cfg, ToSet(ExpandJobs(cfg, f))), NEW run, run = NewRunState(ExpandJobs(cfg, f))
  PROVE  SavedOK(run) /\ PlacedOK(cfg, run)
<1> DEFINE jobs == ExpandJobs(cfg, f)
<1>1. /\ IsList(jobs) /\ \A j \in ToSet(jobs) : Sound(cfg, j)
      /\ \A i, k \in DOMAIN jobs : jobs[i].id = jobs[k].id => i = k
      /\ validatePlaceable(cfg, ToSet(jobs)) /\ run = NewRunState(jobs)
  BY ExpandIs
<1> HIDE DEF jobs
<1> DEFINE n == Len(jobs)
           order == [i \in DOMAIN jobs |-> jobs[i].id]
           ids == {jobs[i].id : i \in DOMAIN jobs}
           At(id) == CHOOSE i \in DOMAIN jobs : jobs[i].id = id
           recs == [id \in ids |-> NewRec(jobs[At(id)])]
<1>2. run = [order |-> order, jobs |-> recs, cooldowns |-> {}]
  BY <1>1 DEF NewRunState, NewRec
<1>3. n \in Nat /\ DOMAIN jobs = 1..n
  BY <1>1 DEF IsList
<1>4. /\ order = [i \in 1..n |-> order[i]] /\ DOMAIN order = 1..n
      /\ \A i \in 1..n : order[i] = jobs[i].id
  BY <1>3
<1>5. IsList(order) /\ ToSet(order) = ids
  <2>1. ToSet(order) = ids
    BY <1>3, <1>4 DEF ToSet
  <2> HIDE DEF order
  <2> QED
    BY <1>3, <1>4, <2>1, ListForm DEF IsList
<1>6. \A i, k \in DOMAIN order : order[i] = order[k] => i = k
  BY <1>1, <1>3, <1>4
<1>7. \A id \in ids : recs[id] = NewRec(jobs[At(id)]) /\ At(id) \in DOMAIN jobs
  OBVIOUS
<1>8. recs = [id \in ids |-> recs[id]]
  BY <1>7
<1> HIDE DEF order, recs, At, ids
<1>9. /\ run = [x \in RunFields |-> run[x]] /\ run.order = order /\ run.jobs = recs /\ run.cooldowns = {}
      /\ IDs(run) = ids
  BY <1>2, <1>5 DEF RunFields, IDs
<1>10. ASSUME NEW id \in ids PROVE RecordOK(recs[id]) /\ Fits(cfg, recs[id]) /\ Open(cfg, recs[id])
  <2> DEFINE j == jobs[At(id)]
  <2>1. j \in ToSet(jobs)
    BY <1>7 DEF ToSet
  <2>2. recs[id] = NewRec(j)
    BY <1>7
  <2> HIDE DEF j
  <2>3. Sound(cfg, j)
    BY <1>1, <2>1
  <2>4. j.Quarantined = NoName => FitZones(cfg, j) # {}
    BY <1>1, <2>1 DEF validatePlaceable, FitZones
  <2> QED
    BY <2>2, <2>3, <2>4, NewRecord
<1>11. SavedOK(run)
  BY <1>5, <1>6, <1>8, <1>9, <1>10 DEF SavedOK
<1>12. PlacedOK(cfg, run)
  BY <1>9, <1>10 DEF PlacedOK
<1> QED
  BY <1>11, <1>12

-----------------------------------------------------------------------------
(* The steps *)

\* The types of the counters and names
LEMMA TypesHold ==
  ASSUME TypeOK, [Next]_vars
  PROVE  /\ pc' \in {"none", "running", "stopped"} /\ yaml' \in Files
         /\ steps' \in 0..MaxSteps /\ edits' \in 0..MaxEdits /\ resumes' \in 0..MaxResumes
<1> USE DEF TypeOK
<1>1. CASE \E f \in Filters : CmdRun(f)
  BY <1>1 DEF CmdRun
<1>2. CASE \E id \in IDs(disk) : RunJob(id)
  BY <1>2, FilesAssumption DEF RunJob
<1>3. CASE Stop
  BY <1>3 DEF Stop
<1>4. CASE \E c \in Edits : Edit(c)
  BY <1>4, FilesAssumption DEF Edit
<1>5. CASE \E b \in BOOLEAN : Resume(b)
  BY <1>5, FilesAssumption DEF Resume
<1>6. CASE \E b \in BOOLEAN : ResumeRefresh(b)
  BY <1>6, FilesAssumption DEF ResumeRefresh
<1>7. CASE UNCHANGED vars
  BY <1>7 DEF vars
<1> QED
  BY <1>1, <1>2, <1>3, <1>4, <1>5, <1>6, <1>7 DEF Next

\* What a step of the run directory does, but for its types
LEMMA DiskHolds ==
  ASSUME Inv, [Next]_vars
  PROVE  /\ pc' = "none" => disk' = NoRun
         /\ pc' = "running" => yaml' \in Loads
         /\ pc' # "none" => SavedOK(disk')
         /\ pc' # "none" /\ current' => yaml' \in Loads /\ PlacedOK(Config[yaml'], disk')
<1>1. ASSUME NEW f \in Filters, CmdRun(f) PROVE
        /\ pc' = "running" /\ yaml' \in Loads /\ SavedOK(disk') /\ PlacedOK(Config[yaml'], disk')
  <2> DEFINE cfg == Config[yaml]
             run == disk'
  <2>1. /\ yaml \in Loads /\ yaml' = yaml /\ pc' = "running" /\ Good(cfg)
        /\ f.tier \in Tiers(cfg) /\ ExpandsOK(cfg, f.tier)
        /\ validatePlaceable(cfg, ToSet(ExpandJobs(cfg, f))) /\ run = NewRunState(ExpandJobs(cfg, f))
    BY <1>1, LoadsGood DEF CmdRun, Tiers
  <2> HIDE DEF cfg, run
  <2>2. SavedOK(run) /\ PlacedOK(cfg, run)
    BY <2>1, NewRun
  <2> QED
    BY <2>1, <2>2 DEF cfg, run
<1>2. ASSUME NEW id \in IDs(disk), RunJob(id) PROVE
        /\ pc' = "running" /\ yaml' \in Loads /\ SavedOK(disk')
        /\ current' => PlacedOK(Config[yaml'], disk')
  <2>1. /\ pc = "running" /\ pc' = pc /\ yaml \in Loads /\ yaml' = yaml /\ current' = current
        /\ SavedOK(disk) /\ (current => PlacedOK(Config[yaml], disk))
    BY <1>2 DEF RunJob, Inv
  <2>2. SavedOK(disk') /\ (PlacedOK(Config[yaml], disk) => PlacedOK(Config[yaml], disk'))
    <3>1. CASE /\ disk.jobs[id].status = "queued"
               /\ \E z \in OpenZones(Config[yaml], disk, id) : disk' = Launched(disk, id, z)
      BY <2>1, <3>1, LaunchedRun
    <3>2. CASE /\ disk.jobs[id].status = "running" /\ disk' \in Outcomes(Config[yaml], disk, id)
      BY <2>1, <3>2, OutcomeRun
    <3> QED
      BY <1>2, <3>1, <3>2 DEF RunJob
  <2> QED
    BY <2>1, <2>2
<1>3. CASE Stop
  BY <1>3 DEF Stop, Inv
<1>4. ASSUME NEW c \in Edits, Edit(c) PROVE
        /\ pc' = "stopped" /\ SavedOK(disk')
        /\ current' => yaml' \in Loads /\ PlacedOK(Config[yaml'], disk')
  BY <1>4 DEF Edit, Inv
<1>5. ASSUME NEW b \in BOOLEAN, Resume(b) PROVE
        /\ pc' = "running" /\ yaml' \in Loads /\ SavedOK(disk')
        /\ current' => PlacedOK(Config[yaml'], disk')
  <2>1. /\ pc = "stopped" /\ pc' = "running" /\ yaml \in Loads /\ yaml' = yaml /\ current' = current
        /\ disk' \in Prepared(Config[yaml], disk, b)
        /\ SavedOK(disk) /\ (current => PlacedOK(Config[yaml], disk))
    BY <1>5 DEF Resume, Inv
  <2>2. SavedOK(disk') /\ (PlacedOK(Config[yaml], disk) => PlacedOK(Config[yaml], disk'))
    BY <2>1, PreparedRun
  <2> QED
    BY <2>1, <2>2
<1>6. ASSUME NEW b \in BOOLEAN, ResumeRefresh(b) PROVE
        /\ pc' \in {"stopped", "running"} /\ yaml' \in Loads /\ SavedOK(disk')
        /\ current' => PlacedOK(Config[yaml'], disk')
  <2>1. /\ pc = "stopped" /\ yaml \in Loads /\ yaml' = yaml /\ RefreshOK(yaml, disk)
        /\ SavedOK(disk) /\ (current => PlacedOK(Config[yaml], disk))
    BY <1>6 DEF ResumeRefresh, Inv
  <2>2. CASE /\ disk' \in Prepared(Config[yaml], disk, b) /\ pc' = "running" /\ current' = current
    <3>1. SavedOK(disk') /\ (PlacedOK(Config[yaml], disk) => PlacedOK(Config[yaml], disk'))
      BY <2>1, <2>2, PreparedRun
    <3> QED
      BY <2>1, <2>2, <3>1
  <2>3. CASE pc' = pc /\ disk' = disk /\ current' = current
    BY <2>1, <2>3
  <2> DEFINE mid == Refreshed(yaml, disk)
  <2>4. SavedOK(mid) /\ PlacedOK(Config[yaml], mid)
    BY <2>1, RefreshedRun
  <2>5. CASE disk' = mid /\ pc' = pc
    BY <2>1, <2>4, <2>5
  <2> HIDE DEF mid
  <2>6. CASE disk' \in Prepared(Config[yaml], mid, b) /\ pc' = "running"
    <3>1. SavedOK(disk') /\ PlacedOK(Config[yaml], disk')
      BY <2>4, <2>6, PreparedRun
    <3> QED
      BY <2>1, <2>6, <3>1
  <2> QED
    BY <1>6, <2>2, <2>3, <2>5, <2>6 DEF ResumeRefresh, mid
<1>7. CASE UNCHANGED vars
  BY <1>7 DEF vars, Inv
<1>8. CASE \E f \in Filters : CmdRun(f)
  BY <1>1, <1>8
<1>9. CASE \E id \in IDs(disk) : RunJob(id)
  BY <1>2, <1>9
<1>10. CASE \E c \in Edits : Edit(c)
  BY <1>4, <1>10
<1>11. CASE \E b \in BOOLEAN : Resume(b)
  BY <1>5, <1>11
<1>12. CASE \E b \in BOOLEAN : ResumeRefresh(b)
  BY <1>6, <1>12
<1> QED
  BY <1>3, <1>7, <1>8, <1>9, <1>10, <1>11, <1>12 DEF Next

\* Init implies the invariant, and every step keeps it
LEMMA InvHolds == Spec => []Inv
<1>1. Init => Inv
  BY FilesAssumption DEF Init, Inv, TypeOK
<1>2. Inv /\ [Next]_vars => Inv'
  <2> SUFFICES ASSUME Inv, [Next]_vars PROVE Inv'
    OBVIOUS
  <2>1. TypeOK
    BY DEF Inv
  <2>2. /\ pc' = "none" => disk' = NoRun
        /\ pc' # "none" => SavedOK(disk')
    BY DiskHolds
  <2>3. disk' = NoRun \/ (DOMAIN disk'.jobs = IDs(disk') /\ disk'.cooldowns \subseteq IDs(disk'))
    BY <2>2 DEF SavedOK
  <2> QED
    BY <2>1, <2>3, TypesHold, DiskHolds DEF Inv, TypeOK
<1> QED
  BY <1>1, <1>2, PTL DEF Spec

-----------------------------------------------------------------------------
(* What the invariant gives *)

\* A queued job always has a zone that is open to it, or its cooldown opens one: a refresh, a
\* resume or a restart never leaves marks, costs or zones behind that no region can take
\* (refreshRunConfig, prepareResume, recordStockout)
THEOREM QueuedJobsHaveZones == Spec => []NeverStuck
<1>1. Inv => NeverStuck
  <2> SUFFICES ASSUME Inv, pc = "running", current PROVE
        /\ \A i, k \in DOMAIN disk.order : disk.order[i] = disk.order[k] => i = k
        /\ \A id \in WithStatus("queued") :
             /\ \A z \in ToSet(disk.jobs[id].job.Zones) : Budgeted(Config[yaml], z)
             /\ OpenZones(Config[yaml], disk, id) # {}
    BY DEF NeverStuck, Admissible
  <2>1. SavedOK(disk) /\ PlacedOK(Config[yaml], disk)
    BY DEF Inv
  <2>2. \A i, k \in DOMAIN disk.order : disk.order[i] = disk.order[k] => i = k
    BY <2>1 DEF SavedOK
  <2>3. ASSUME NEW id \in WithStatus("queued") PROVE
          /\ \A z \in ToSet(disk.jobs[id].job.Zones) : Budgeted(Config[yaml], z)
          /\ OpenZones(Config[yaml], disk, id) # {}
    <3>1. id \in IDs(disk) /\ disk.jobs[id].status = "queued" /\ "queued" \in Unfinished
      BY DEF WithStatus, Unfinished
    <3>2. /\ FitZones(Config[yaml], disk.jobs[id].job) # {}
          /\ \A z \in ToSet(disk.jobs[id].job.Zones) : Budgeted(Config[yaml], z)
          /\ id \notin disk.cooldowns =>
               ~(FitZones(Config[yaml], disk.jobs[id].job) \subseteq disk.jobs[id].sweep)
      BY <2>1, <3>1 DEF PlacedOK, Fits, Open
    <3> QED
      BY <3>2 DEF OpenZones
  <2> QED
    BY <2>2, <2>3
<1> QED
  BY <1>1, InvHolds, PTL

\* What a step does to a run that is saved
LEMMA StepKeeps ==
  ASSUME Inv, [Next]_vars, disk # NoRun
  PROVE  KeptRun(disk, disk') /\ (SameJobs(disk, disk') \/ backup' = disk)
<1>1. pc # "none" /\ SavedOK(disk)
  BY DEF Inv
<1>2. CASE disk' = disk
  <2>1. \A id \in IDs(disk) : KeptRecord(disk.jobs[id], disk.jobs[id])
    BY <1>1, RecordStays DEF SavedOK
  <2> QED
    BY <1>2, <2>1 DEF KeptRun, SameJobs
<1>3. ASSUME NEW id \in IDs(disk), RunJob(id) PROVE KeptRun(disk, disk') /\ SameJobs(disk, disk')
  <2>1. CASE /\ disk.jobs[id].status = "queued"
             /\ \E z \in OpenZones(Config[yaml], disk, id) : disk' = Launched(disk, id, z)
    BY <1>1, <2>1, LaunchedRun
  <2>2. CASE /\ disk.jobs[id].status = "running" /\ disk' \in Outcomes(Config[yaml], disk, id)
    BY <1>1, <2>2, OutcomeRun
  <2> QED
    BY <1>3, <2>1, <2>2 DEF RunJob
<1>4. ASSUME NEW b \in BOOLEAN, disk' \in Prepared(Config[yaml], disk, b)
      PROVE  KeptRun(disk, disk') /\ SameJobs(disk, disk')
  BY <1>1, <1>4, PreparedRun
<1>5. ASSUME NEW b \in BOOLEAN, ResumeRefresh(b)
      PROVE  KeptRun(disk, disk') /\ (SameJobs(disk, disk') \/ backup' = disk)
  <2> DEFINE mid == Refreshed(yaml, disk)
  <2>1. RefreshOK(yaml, disk)
    BY <1>5 DEF ResumeRefresh
  <2>2. SavedOK(mid) /\ KeptRun(disk, mid)
    BY <1>1, <2>1, RefreshedRun
  <2>3. CASE disk' = mid /\ backup' = disk
    BY <2>2, <2>3
  <2> HIDE DEF mid
  <2>4. CASE disk' \in Prepared(Config[yaml], mid, b) /\ backup' = disk
    <3>1. SavedOK(disk') /\ KeptRun(mid, disk')
      BY <2>2, <2>4, PreparedRun
    <3> QED
      BY <1>1, <2>2, <2>4, <3>1, KeptTwice
  <2> QED
    BY <1>2, <1>4, <1>5, <2>3, <2>4 DEF ResumeRefresh, mid
<1>6. CASE Stop \/ UNCHANGED vars
  BY <1>2, <1>6 DEF Stop, vars
<1>7. CASE \E c \in Edits : Edit(c)
  BY <1>2, <1>7 DEF Edit
<1>8. CASE \E f \in Filters : CmdRun(f)
  BY <1>1, <1>8 DEF CmdRun
<1>9. CASE \E b \in BOOLEAN : Resume(b)
  BY <1>4, <1>9 DEF Resume
<1>10. CASE \E id \in IDs(disk) : RunJob(id)
  BY <1>3, <1>10
<1>11. CASE \E b \in BOOLEAN : ResumeRefresh(b)
  BY <1>5, <1>11
<1> QED
  BY <1>6, <1>7, <1>8, <1>9, <1>10, <1>11 DEF Next

\* No step loses what has happened: what a refresh redefines is in a backup, jobs stay what
\* they are but for zones and costs, passes are final, and attempts with a result keep it
THEOREM PastIsKept == Spec => HistoryKept
<1>1. Inv /\ [Next]_vars =>
        [disk # NoRun /\ (\E id \in IDs(disk) : disk'.jobs[id].job # disk.jobs[id].job)
           => backup' = disk]_vars
  BY StepKeeps DEF SameJobs
<1>2. Inv /\ [Next]_vars =>
        [disk # NoRun =>
          /\ disk'.order = disk.order
          /\ \A id \in IDs(disk) :
               LET old == disk.jobs[id]
                   new == disk'.jobs[id]
               IN  /\ new.job = [old.job EXCEPT !.Zones = new.job.Zones, !.CPUCost = new.job.CPUCost,
                                                !.BudgetKey = new.job.BudgetKey]
                   /\ old.status \in {"passed", "skipped_quarantine"} => new = old
                   /\ Len(new.attempts) >= Len(old.attempts)
                   /\ \A i \in DOMAIN old.attempts :
                        old.attempts[i].result # "running" => new.attempts[i] = old.attempts[i]]_vars
  BY StepKeeps DEF KeptRun, KeptRecord, Continues
<1>3. Spec => BackupFirst
  BY <1>1, InvHolds, PTL DEF Spec, BackupFirst
<1>4. Spec => [][disk # NoRun =>
          /\ disk'.order = disk.order
          /\ \A id \in IDs(disk) :
               LET old == disk.jobs[id]
                   new == disk'.jobs[id]
               IN  /\ new.job = [old.job EXCEPT !.Zones = new.job.Zones, !.CPUCost = new.job.CPUCost,
                                                !.BudgetKey = new.job.BudgetKey]
                   /\ old.status \in {"passed", "skipped_quarantine"} => new = old
                   /\ Len(new.attempts) >= Len(old.attempts)
                   /\ \A i \in DOMAIN old.attempts :
                        old.attempts[i].result # "running" => new.attempts[i] = old.attempts[i]]_vars
  BY <1>2, InvHolds, PTL DEF Spec
<1> QED
  BY <1>3, <1>4 DEF HistoryKept

\* A list without repetitions has as many elements as positions
LEMMA OrderCount ==
  ASSUME NEW run, SavedOK(run)
  PROVE  IsFiniteSet(IDs(run)) /\ Cardinality(IDs(run)) = Len(run.order) /\ Len(run.order) \in Nat
<1> DEFINE order == run.order
           n == Len(order)
<1>1. /\ order \in Seq(IDs(run)) /\ IDs(run) = {order[i] : i \in DOMAIN order}
      /\ \A i, k \in DOMAIN order : order[i] = order[k] => i = k
  BY DEF SavedOK, IsList, IDs, ToSet
<1> HIDE DEF order
<1>2. n \in Nat /\ DOMAIN order = 1..n
  BY <1>1
<1>3. order \in [1..n -> IDs(run)]
  BY <1>1, <1>2
<1>4. order \in Bijection(1..n, IDs(run))
  BY <1>1, <1>2, <1>3 DEF Bijection, Injection, Surjection, IsInjective
<1>5. ExistsBijection(1..n, IDs(run))
  BY <1>4 DEF ExistsBijection
<1>6. IsFiniteSet(1..n) /\ Cardinality(1..n) = n
  <2>1. 1 \in Int /\ n \in Int /\ (IF 1 > n THEN 0 ELSE n - 1 + 1) = n
    BY <1>2
  <2> HIDE DEF n
  <2> QED
    BY <2>1, FS_Interval
<1>7. IsFiniteSet(IDs(run)) /\ Cardinality(IDs(run)) = n
  BY <1>5, <1>6, FS_Bijection
<1> QED
  BY <1>2, <1>7 DEF order

\* Two sets without common elements
LEMMA DisjointCount ==
  ASSUME NEW S, IsFiniteSet(S), NEW T, IsFiniteSet(T), S \cap T = {}
  PROVE  /\ IsFiniteSet(S \cup T) /\ Cardinality(S \cup T) = Cardinality(S) + Cardinality(T)
         /\ Cardinality(S) \in Nat /\ Cardinality(T) \in Nat
<1>1. Cardinality(S \cap T) = 0
  <2>1. Cardinality({}) = 0
    BY FS_EmptySet
  <2> QED
    BY <2>1
<1>2. Cardinality(S) \in Nat /\ Cardinality(T) \in Nat
  BY FS_CardinalityType
<1>3. /\ IsFiniteSet(S \cup T)
      /\ Cardinality(S \cup T) = Cardinality(S) + Cardinality(T) - Cardinality(S \cap T)
  BY FS_Union
<1> QED
  BY <1>1, <1>2, <1>3

\* Every job is counted once
LEMMA CountsAddUp ==
  ASSUME Inv, pc # "none"
  PROVE  LET C(s) == Cardinality(WithStatus(s))
         IN  /\ \A s \in Statuses : IsFiniteSet(WithStatus(s)) /\ C(s) \in Nat
             /\ Len(disk.order) = C("passed") + C("failed_real") + C("failed_infra")
                                    + C("skipped_quarantine") + C("running") + C("queued")
             /\ Cardinality(WithStatus("passed") \cup WithStatus("failed_real") \cup WithStatus("failed_infra"))
                  = C("passed") + C("failed_real") + C("failed_infra")
<1> DEFINE A == WithStatus("passed")
           B == WithStatus("failed_real")
           C == WithStatus("failed_infra")
           D == WithStatus("skipped_quarantine")
           E == WithStatus("running")
           F == WithStatus("queued")
<1>1. SavedOK(disk) /\ IsFiniteSet(IDs(disk)) /\ Cardinality(IDs(disk)) = Len(disk.order)
  BY OrderCount DEF Inv
<1>2. \A s : WithStatus(s) \subseteq IDs(disk) /\ \A id \in WithStatus(s) : disk.jobs[id].status = s
  BY DEF WithStatus
<1>3. \A s : IsFiniteSet(WithStatus(s)) /\ Cardinality(WithStatus(s)) \in Nat
  <2> TAKE s
  <2>1. WithStatus(s) \in SUBSET IDs(disk)
    BY <1>2
  <2>2. IsFiniteSet(WithStatus(s))
    BY <1>1, <2>1, FS_Subset
  <2> QED
    BY <2>2, FS_CardinalityType
<1>4. IDs(disk) = A \cup B \cup C \cup D \cup E \cup F
  <2>1. ASSUME NEW id \in IDs(disk) PROVE disk.jobs[id].status \in Statuses
    BY <1>1 DEF SavedOK, RecordOK, HistoryOK
  <2> QED
    BY <1>2, <2>1 DEF Statuses, WithStatus
<1>5. /\ A \cap B = {} /\ (A \cup B) \cap C = {} /\ (A \cup B \cup C) \cap D = {}
      /\ (A \cup B \cup C \cup D) \cap E = {} /\ (A \cup B \cup C \cup D \cup E) \cap F = {}
  BY <1>2
<1>6. /\ IsFiniteSet(A) /\ IsFiniteSet(B) /\ IsFiniteSet(C)
      /\ IsFiniteSet(D) /\ IsFiniteSet(E) /\ IsFiniteSet(F)
  BY <1>3
<1> HIDE DEF A, B, C, D, E, F
<1>7. IsFiniteSet(A \cup B) /\ Cardinality(A \cup B) = Cardinality(A) + Cardinality(B)
  BY <1>5, <1>6, DisjointCount
<1>8. /\ IsFiniteSet(A \cup B \cup C)
      /\ Cardinality(A \cup B \cup C) = Cardinality(A \cup B) + Cardinality(C)
  BY <1>5, <1>6, <1>7, DisjointCount
<1>9. /\ IsFiniteSet(A \cup B \cup C \cup D)
      /\ Cardinality(A \cup B \cup C \cup D) = Cardinality(A \cup B \cup C) + Cardinality(D)
  BY <1>5, <1>6, <1>8, DisjointCount
<1>10. /\ IsFiniteSet(A \cup B \cup C \cup D \cup E)
       /\ Cardinality(A \cup B \cup C \cup D \cup E) = Cardinality(A \cup B \cup C \cup D) + Cardinality(E)
  BY <1>5, <1>6, <1>9, DisjointCount
<1>11. Cardinality(A \cup B \cup C \cup D \cup E \cup F)
         = Cardinality(A \cup B \cup C \cup D \cup E) + Cardinality(F)
  BY <1>5, <1>6, <1>10, DisjointCount
<1>12. Len(disk.order) = Cardinality(A) + Cardinality(B) + Cardinality(C) + Cardinality(D)
                           + Cardinality(E) + Cardinality(F)
  BY <1>1, <1>4, <1>7, <1>8, <1>9, <1>10, <1>11
<1> QED
  BY <1>3, <1>7, <1>8, <1>12 DEF A, B, C, D, E, F

\* A zone that no sweep of one job tries, and in which another job of its family runs, is
\* out of reach because the first job is dearer (regionFits)
LEMMA ExcludedIsDearer ==
  ASSUME NEW cfg, Good(cfg), NEW j, JobOK(j), NEW k, JobOK(k), NEW r,
         regionFits(cfg, j, r), ~regionFits(cfg, k, r)
  PROVE  k.CPUCost > j.CPUCost \/ k.BudgetKey # j.BudgetKey
<1> SUFFICES ASSUME k.BudgetKey = j.BudgetKey PROVE k.CPUCost > j.CPUCost
  OBVIOUS
<1> DEFINE most(y) == (LimitOf(cfg, r, y) * cfg.safety[1]) \div cfg.safety[2]
           keys(x) == IF r \in DOMAIN cfg.budgets THEN budgetKeysFor(cfg, x, r) ELSE {CPUSKey}
<1>1. keys(j) = keys(k)
  BY DEF budgetKeysFor
<1>2. (\A y \in keys(j) : j.CPUCost <= most(y)) /\ ~(\A y \in keys(k) : k.CPUCost <= most(y))
  BY DEF regionFits
<1> HIDE DEF keys
<1>3. PICK y \in keys(k) : ~(k.CPUCost <= most(y))
  BY <1>2
<1>4. j.CPUCost <= most(y)
  BY <1>1, <1>2
<1>5. most(y) \in Int
  <2>1. LimitOf(cfg, r, y) \in Nat
    BY DEF LimitOf, Good, Decoded
  <2>2. cfg.safety[1] \in Int /\ cfg.safety[2] \in Int /\ cfg.safety[2] > 0
    BY DEF Good, Decoded, Validate
  <2> QED
    BY <2>1, <2>2
<1> HIDE DEF most
<1> QED
  BY <1>3, <1>4, <1>5 DEF JobOK

\* The attempt that is open, and the one that gives the reason for a status, are the last
LEMMA LastAttempt ==
  ASSUME Inv, pc # "none", NEW id \in IDs(disk)
  PROVE  LET rec == disk.jobs[id]
             a == rec.attempts
         IN  /\ rec.status \in DOMAIN Reason => a # <<>> /\ a[Len(a)].result \in Reason[rec.status]
             /\ a # <<>> => Len(a) \in DOMAIN a /\ a[Len(a)] \in Attempts
             /\ a # <<>> /\ a[Len(a)].result = "running" => rec.status = "running"
<1> DEFINE rec == disk.jobs[id]
           a == rec.attempts
<1>1. HistoryOK(rec.status, rec.sweep, a)
  BY DEF Inv, SavedOK, RecordOK
<1> HIDE DEF a
<1>2. a # <<>> => Len(a) \in DOMAIN a /\ a[Len(a)] \in Attempts
  BY <1>1 DEF HistoryOK
<1>3. /\ rec.status \in DOMAIN Reason => a # <<>> /\ a[Len(a)].result \in Reason[rec.status]
      /\ a # <<>> /\ a[Len(a)].result = "running" => rec.status = "running"
  BY <1>1, <1>2 DEF HistoryOK
<1> QED
  BY <1>2, <1>3 DEF a

\* The open attempts, by region, are those of the jobs that run (regionOccupancy)
LEMMA OpenAreRunning ==
  ASSUME Inv, pc # "none"
  PROVE  UNION Range([r \in RegionNames |-> regionOccupancy(disk, r)]) = WithStatus("running")
<1> DEFINE occ == [r \in RegionNames |-> regionOccupancy(disk, r)]
           all == UNION {regionOccupancy(disk, r) : r \in RegionNames}
<1>1. Range(occ) = {occ[r] : r \in RegionNames}
  BY DEF Range
<1>2. \A r \in RegionNames : occ[r] = regionOccupancy(disk, r)
  OBVIOUS
<1> HIDE DEF occ
<1>3. UNION Range(occ) = all
  BY <1>1, <1>2
<1>4. all \subseteq WithStatus("running")
  <2> SUFFICES ASSUME NEW r \in RegionNames, NEW id \in regionOccupancy(disk, r)
               PROVE  id \in WithStatus("running")
    OBVIOUS
  <2>1. /\ id \in IDs(disk) /\ disk.jobs[id].attempts # <<>>
        /\ disk.jobs[id].attempts[Len(disk.jobs[id].attempts)].result = "running"
    BY DEF regionOccupancy
  <2> QED
    BY <2>1, LastAttempt DEF WithStatus
<1>5. WithStatus("running") \subseteq all
  <2> SUFFICES ASSUME NEW id \in WithStatus("running") PROVE id \in all
    OBVIOUS
  <2> DEFINE a == disk.jobs[id].attempts
             last == a[Len(a)]
  <2>1. id \in IDs(disk) /\ disk.jobs[id].status = "running"
    BY DEF WithStatus
  <2>2. "running" \in DOMAIN Reason /\ Reason["running"] = {"running"}
    BY DEF Reason
  <2>3. a # <<>> /\ last.result = "running" /\ last \in Attempts
    BY <2>1, <2>2, LastAttempt
  <2>4. last.zone \in DOMAIN Region
    BY <2>3 DEF Attempts
  <2>5. Region[last.zone] \in RegionNames
    BY <2>4 DEF RegionNames
  <2>6. id \in regionOccupancy(disk, Region[last.zone])
    BY <2>1, <2>3 DEF regionOccupancy
  <2> QED
    BY <2>5, <2>6
<1> QED
  BY <1>3, <1>4, <1>5 DEF occ

\* The zones listed as excluded: not one with an open attempt of that shape, but for a dearer
\* job, or one of another family (renderExcludedZones)
LEMMA ExcludedAgrees ==
  ASSUME Inv, pc # "none", current
  PROVE  /\ yaml \in Loads
         /\ zeroFit(Config[yaml], disk) \cap WithStatus("queued") = {}
         /\ \A id \in WithStatus("running") :
              LET rec == disk.jobs[id]
              IN  <<rec.job.shape, rec.attempts[Len(rec.attempts)].zone>>
                     \in excludedZones(Config[yaml], disk) =>
                    \E k \in IDs(disk) :
                      /\ disk.jobs[k].job.shape = rec.job.shape
                      /\ \/ disk.jobs[k].job.CPUCost > rec.job.CPUCost
                         \/ disk.jobs[k].job.BudgetKey # rec.job.BudgetKey
<1> DEFINE cfg == Config[yaml]
<1>1. yaml \in Loads /\ PlacedOK(cfg, disk) /\ SavedOK(disk)
  BY DEF Inv
<1>2. Good(cfg)
  BY <1>1, LoadsGood
<1> HIDE DEF cfg
<1>3. zeroFit(cfg, disk) \cap WithStatus("queued") = {}
  <2> SUFFICES ASSUME NEW id \in zeroFit(cfg, disk), id \in WithStatus("queued") PROVE FALSE
    OBVIOUS
  <2>1. /\ id \in IDs(disk) /\ FitZones(cfg, disk.jobs[id].job) = {}
        /\ disk.jobs[id].status = "queued" /\ "queued" \in Unfinished
    BY DEF zeroFit, WithStatus, Unfinished
  <2> QED
    BY <1>1, <2>1 DEF PlacedOK, Fits
<1>4. ASSUME NEW id \in WithStatus("running"),
             <<disk.jobs[id].job.shape, disk.jobs[id].attempts[Len(disk.jobs[id].attempts)].zone>>
               \in excludedZones(cfg, disk)
      PROVE  \E k \in IDs(disk) :
               /\ disk.jobs[k].job.shape = disk.jobs[id].job.shape
               /\ \/ disk.jobs[k].job.CPUCost > disk.jobs[id].job.CPUCost
                  \/ disk.jobs[k].job.BudgetKey # disk.jobs[id].job.BudgetKey
  <2> DEFINE j == disk.jobs[id].job
             z == LastZone(disk.jobs[id])
  <2>1. id \in IDs(disk) /\ disk.jobs[id].status = "running"
    BY DEF WithStatus
  <2>2. z \in FitZones(cfg, j)
    BY <1>1, <2>1 DEF PlacedOK, Fits
  <2>3. <<j.shape, z>> \in excludedZones(cfg, disk)
    BY <1>4 DEF LastZone
  <2>4. PICK k \in IDs(disk) :
          <<j.shape, z>> \in {<<disk.jobs[k].job.shape, y>> :
                                y \in ToSet(disk.jobs[k].job.Zones) \ FitZones(cfg, disk.jobs[k].job)}
    BY <2>3 DEF excludedZones
  <2> DEFINE l == disk.jobs[k].job
  <2>5. l.shape = j.shape /\ z \in ToSet(l.Zones) /\ z \notin FitZones(cfg, l)
    BY <2>4
  <2>6. JobOK(j) /\ JobOK(l)
    BY <1>1, <2>1 DEF SavedOK, RecordOK
  <2>7. regionFits(cfg, j, Region[z]) /\ ~regionFits(cfg, l, Region[z])
    BY <2>2, <2>5 DEF FitZones
  <2> HIDE DEF j, l, z
  <2>8. l.CPUCost > j.CPUCost \/ l.BudgetKey # j.BudgetKey
    BY <1>2, <2>6, <2>7, ExcludedIsDearer
  <2> QED
    BY <2>5, <2>8 DEF j, l
<1> QED
  BY <1>1, <1>3, <1>4 DEF cfg

\* A zone that a sweep has crossed out is a stockout in the report (writeStockouts)
LEMMA MarksReported ==
  ASSUME Inv, pc # "none", NEW id \in IDs(disk), NEW z \in disk.jobs[id].sweep
  PROVE  \E s \in writeStockouts(disk.jobs[id].job.shape, Region[z]) :
           s[1] = id /\ disk.jobs[id].attempts[s[2]].zone = z
<1> DEFINE tried == disk.jobs[id].attempts
           shape == disk.jobs[id].job.shape
<1>1. Marked(tried, z)
  BY DEF Inv, SavedOK, RecordOK, HistoryOK
<1>2. PICK i \in DOMAIN tried : tried[i].zone = z /\ tried[i].result = "stockout"
  BY <1>1 DEF Marked
<1>3. i \in {k \in DOMAIN tried : tried[k].result = "stockout" /\ Region[tried[k].zone] = Region[z]}
  BY <1>2
<1>4. id \in {k \in IDs(disk) : disk.jobs[k].job.shape = shape}
  OBVIOUS
<1>5. <<id, i>> \in writeStockouts(shape, Region[z])
  BY <1>3, <1>4 DEF writeStockouts
<1> HIDE DEF shape
<1>6. <<id, i>>[1] = id /\ <<id, i>>[2] = i
  OBVIOUS
<1> QED
  BY <1>2, <1>5, <1>6 DEF shape

\* What status and report show agrees with what has happened (RenderStatus, RenderTicker,
\* BuildReport)
THEOREM ViewsAgree == Spec => []StatusAgrees
<1>1. Inv => StatusAgrees
  <2> SUFFICES ASSUME Inv, disk # NoRun PROVE StatusAgrees
    BY DEF StatusAgrees, Inv
  <2>1. TypeOK /\ pc # "none" /\ SavedOK(disk)
    BY DEF Inv
  <2> DEFINE C(s) == Cardinality(WithStatus(s))
             done == WithStatus("passed") \cup WithStatus("failed_real") \cup WithStatus("failed_infra")
  <2>2. /\ statusCounts[1] = C("passed") /\ statusCounts[2] = C("failed_real")
        /\ statusCounts[3] = C("failed_infra") /\ statusCounts[4] = C("skipped_quarantine")
        /\ statusCounts[5] = C("running") /\ statusCounts[6] = C("queued")
    BY DEF statusCounts, statusOrder
  <2>3. /\ \A s \in Statuses : C(s) \in Nat
        /\ Len(disk.order) = C("passed") + C("failed_real") + C("failed_infra")
                               + C("skipped_quarantine") + C("running") + C("queued")
        /\ Cardinality(done) = C("passed") + C("failed_real") + C("failed_infra")
    BY <2>1, CountsAddUp
  <2>4. Len(disk.order) = statusCounts[1] + statusCounts[2] + statusCounts[3]
                            + statusCounts[4] + statusCounts[5] + statusCounts[6]
    BY <2>2, <2>3
  <2>5. C("queued") + C("running") + Cardinality(done) = Len(disk.order) - C("skipped_quarantine")
    <3>1. /\ C("passed") \in Nat /\ C("failed_real") \in Nat /\ C("failed_infra") \in Nat
          /\ C("skipped_quarantine") \in Nat /\ C("running") \in Nat /\ C("queued") \in Nat
      BY <2>3 DEF Statuses
    <3> HIDE DEF C, done
    <3> QED
      BY <2>3, <3>1
  <2>6. UNION Range([r \in RegionNames |-> regionOccupancy(disk, r)]) = WithStatus("running")
    BY <2>1, OpenAreRunning
  <2>7. activeCooldowns \subseteq WithStatus("queued")
    BY <2>1 DEF SavedOK, activeCooldowns, WithStatus
  <2>8. ASSUME current PROVE
          /\ renderExcludedZones.zeroFit \cap WithStatus("queued") = {}
          /\ \A id \in WithStatus("running") :
               LET rec == disk.jobs[id]
               IN  <<rec.job.shape, rec.attempts[Len(rec.attempts)].zone>> \in renderExcludedZones.excl =>
                     \E k \in IDs(disk) :
                       /\ disk.jobs[k].job.shape = rec.job.shape
                       /\ \/ disk.jobs[k].job.CPUCost > rec.job.CPUCost
                          \/ disk.jobs[k].job.BudgetKey # rec.job.BudgetKey
    <3>1. yaml \in Loads
      BY <2>1, <2>8 DEF Inv
    <3>2. /\ renderExcludedZones.excl = excludedZones(Config[yaml], disk)
          /\ renderExcludedZones.zeroFit = zeroFit(Config[yaml], disk)
      BY <3>1 DEF renderExcludedZones
    <3> QED
      BY <2>1, <2>8, <3>2, ExcludedAgrees
  <2>9. /\ Reason["failed_real"] = {"fail"} /\ Reason["failed_infra"] = {"infra", "stockout"}
        /\ Reason["passed"] = {"pass"} /\ {"failed_real", "failed_infra", "passed"} \subseteq DOMAIN Reason
    BY DEF Reason
  <2>10. ASSUME NEW named \in SUBSET (writeRealFailures \cup writeInfraFailures)
         PROVE  LET report == BuildReport(named)
                    Reasons(ids) == {report.rows[id] : id \in ids}
                IN  /\ Reasons(report.real \cap named) \subseteq {"test"}
                    /\ Reasons(report.real \ named) \subseteq {"fail"}
                    /\ Reasons(report.infra) \subseteq {"infra", "stockout"}
                    /\ \A id \in report.flakes :
                         disk.jobs[id].attempts[Len(disk.jobs[id].attempts)].result = "pass"
    <3> DEFINE rows == buildCSV(named)
               LastResult(id) == disk.jobs[id].attempts[Len(disk.jobs[id].attempts)].result
    <3>1. ASSUME NEW id \in WithStatus("failed_real") \cap named PROVE rows[id] = "test"
      <4>1. id \in IDs(disk) /\ disk.jobs[id].status = "failed_real"
        BY <3>1 DEF WithStatus
      <4> QED
        BY <3>1, <4>1 DEF buildCSV
    <3>2. ASSUME NEW id \in WithStatus("failed_real") \ named PROVE rows[id] = "fail"
      <4>1. id \in IDs(disk) /\ disk.jobs[id].status = "failed_real"
        BY <3>2 DEF WithStatus
      <4>2. disk.jobs[id].attempts # <<>> /\ LastResult(id) = "fail"
        BY <2>1, <2>9, <4>1, LastAttempt
      <4> QED
        BY <3>2, <4>1, <4>2 DEF buildCSV
    <3>3. ASSUME NEW id \in WithStatus("failed_infra") PROVE rows[id] \in {"infra", "stockout"}
      <4>1. id \in IDs(disk) /\ disk.jobs[id].status = "failed_infra"
        BY <3>3 DEF WithStatus
      <4>2. disk.jobs[id].attempts # <<>> /\ LastResult(id) \in {"infra", "stockout"}
        BY <2>1, <2>9, <4>1, LastAttempt
      <4> QED
        BY <4>1, <4>2 DEF buildCSV
    <3>4. ASSUME NEW id \in writeFlakes PROVE LastResult(id) = "pass"
      <4>1. id \in IDs(disk) /\ disk.jobs[id].status = "passed"
        BY <3>4 DEF writeFlakes, WithStatus
      <4> QED
        BY <2>1, <2>9, <4>1, LastAttempt
    <3>5. /\ BuildReport(named).real = writeRealFailures
          /\ BuildReport(named).infra = writeInfraFailures
          /\ BuildReport(named).flakes = writeFlakes /\ BuildReport(named).rows = rows
      BY DEF BuildReport
    <3> HIDE DEF rows
    <3> QED
      BY <3>1, <3>2, <3>3, <3>4, <3>5 DEF writeRealFailures, writeInfraFailures
  <2>11. \A id \in IDs(disk) : \A z \in disk.jobs[id].sweep :
           \E s \in writeStockouts(disk.jobs[id].job.shape, Region[z]) :
             s[1] = id /\ disk.jobs[id].attempts[s[2]].zone = z
    BY <2>1, MarksReported
  <2>12. /\ RenderStatus.counts = statusCounts
         /\ RenderStatus.regions = [r \in RegionNames |-> regionOccupancy(disk, r)]
         /\ RenderStatus.cooldowns = activeCooldowns /\ RenderStatus.zones = renderExcludedZones
    BY DEF RenderStatus
  <2>13. /\ RenderTicker.queued = C("queued") /\ RenderTicker.running = C("running")
         /\ RenderTicker.done = Cardinality(done)
    BY DEF RenderTicker
  <2> HIDE DEF done, C
  <2> DEFINE view == RenderStatus
             line == RenderTicker
             excl == view.zones.excl
  <2>15. /\ Len(disk.order) = view.counts[1] + view.counts[2] + view.counts[3]
                                + view.counts[4] + view.counts[5] + view.counts[6]
         /\ line.queued + line.running + line.done
              = Len(disk.order) - Cardinality(WithStatus("skipped_quarantine"))
         /\ UNION Range(view.regions) = WithStatus("running")
         /\ view.cooldowns \subseteq WithStatus("queued")
    BY <2>4, <2>5, <2>6, <2>7, <2>12, <2>13 DEF C
  <2>17. current =>
           /\ view.zones.zeroFit \cap WithStatus("queued") = {}
           /\ \A id \in WithStatus("running") :
                LET rec == disk.jobs[id]
                IN  <<rec.job.shape, rec.attempts[Len(rec.attempts)].zone>> \in excl =>
                      \E k \in IDs(disk) :
                        /\ disk.jobs[k].job.shape = rec.job.shape
                        /\ \/ disk.jobs[k].job.CPUCost > rec.job.CPUCost
                           \/ disk.jobs[k].job.BudgetKey # rec.job.BudgetKey
    BY <2>8, <2>12
  <2> QED
    BY ONLY <2>1, <2>10, <2>11, <2>15, <2>17 DEF StatusAgrees
<1> QED
  BY <1>1, InvHolds, PTL
=============================================================================
