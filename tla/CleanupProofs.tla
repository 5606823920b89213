---------------------------- MODULE CleanupProofs ----------------------------
(***************************************************************************)
(* What the cleaner-upper spares, what it reports and in what order it     *)
(* deletes, for every set of resources, every policy and caller, and every *)
(* interleaving of the deletions it starts.                                *)
(***************************************************************************)
EXTENDS Cleanup, SequenceFacts

-----------------------------------------------------------------------------
(* Loops: the instructions of Each(body) are those of its parts *)

\* A loop over a finite set is a program with the instructions of all its rounds
LEMMA EachAll ==
  ASSUME NEW T, NEW S, IsFiniteSet(S), NEW body \in [S -> Seq(T)]
  PROVE  /\ Each(body) \in Seq(T)
         /\ ToSet(Each(body)) = UNION {ToSet(body[x]) : x \in S}
<1> DEFINE list == SetToSeq(S)
           seqs == [i \in DOMAIN list |-> body[list[i]]]
<1>1. list \in Seq(S) /\ ToSet(list) = S
  BY ListOf
<1>2. DOMAIN list = 1..Len(list) /\ \A i \in 1..Len(list) : list[i] \in S
  BY <1>1
<1>3. \A x \in S : \E i \in 1..Len(list) : list[i] = x
  BY <1>1, <1>2 DEF ToSet
<1> HIDE DEF list
<1>4. Each(body) = FlattenSeq(seqs)
  BY DEF Each, list
<1>5. /\ seqs \in Seq(Seq(T)) /\ Len(seqs) = Len(list)
      /\ \A i \in 1..Len(list) : seqs[i] = body[list[i]]
  <2>1. seqs = [i \in 1..Len(list) |-> body[list[i]]] /\ Len(list) \in Nat
    BY <1>1, <1>2
  <2> QED
    BY <1>2, <2>1
<1> HIDE DEF seqs
<1>6. /\ FlattenSeq(seqs) \in Seq(T)
      /\ ToSet(FlattenSeq(seqs)) = UNION {ToSet(seqs[i]) : i \in 1..Len(seqs)}
  BY <1>5, FlattenAll
<1>7. {ToSet(seqs[i]) : i \in 1..Len(list)} = {ToSet(body[x]) : x \in S}
  BY <1>2, <1>3, <1>5
<1> QED
  BY <1>4, <1>5, <1>6, <1>7

-----------------------------------------------------------------------------
(* What may go *)

\* Networks that are to go, backend services in them, and URL maps in front of those
Nets == {n \in Resource : Kind(n) = "network" /\ Indicated(n)}
Backends == {b \in Resource : Kind(b) = "bs" /\ Attr[b].network \in Nets}
Maps == {u \in Resource : Kind(u) = "um" /\ \E b \in Backends : b \in Uses[u]}

\* What Spared allows to delete
MayGo == {r \in Resource : ~Precious(r) \/ \E n \in Nets : GoesWith(n, r)}

Entries == {"instances", "disks", "images", "machineImages", "snapshots", "guestPolicies",
            "osPolicies", "lb", "networks"}
Places == Regions \cup call.regions \cup {Attr[r].region : r \in Resource}

\* Instructions that lead to nothing else
SafeCode ==
  {<<"wait">>, <<"deleteOSPolicies">>} \cup {<<k>> : k \in Entries}
    \cup ({"del"} \X MayGo)
    \cup ({"osZone", "lbFR", "lbBS", "lbUM", "lbHP"} \X Places)
    \cup ({"rneg", "zneg"} \X Places \X (Resource \cup {None}))
    \cup ({"snFR", "snBS"} \X Places \X Nets)
    \cup ({"snUM"} \X Places \X Backends)
    \cup ({"snHP"} \X Places \X Maps)

\* Only such instructions are ever left, only such deletions under way, and a list is one
\* of resources of the kind its key says
SafeInv ==
  /\ call \in Calls
  /\ alive \subseteq Resource
  /\ \A k \in DOMAIN cache : cache[k] \subseteq Resource
  /\ \A k \in DOMAIN cache : \A r \in cache[k] : Kind(r) = k[1]
  /\ todo \in Seq(SafeCode)
  /\ running \subseteq MayGo
  /\ killed \subseteq MayGo
  /\ call.dryRun => killed = {} /\ errs \cap Resource = {}
  /\ faults \in Nat

\* What a policy indicates is not precious
LEMMA IndicatedMayGo ==
  ASSUME call \in Calls, NEW r \in Resource, Indicated(r)
  PROVE  ~Precious(r)
<1>1. /\ Attr[r].created \in Int /\ Cutoff \in Int
      /\ call.policy = "age" => call.ids = {}
      /\ call.policy = "ids" => call.ids # {}
  BY CleanupAssumption
<1>2. CASE call.policy = "deprecated"
  BY <1>2 DEF Indicated, DeprecatePolicy, Precious
<1>3. CASE call.policy # "deprecated" /\ call.ids = {}
  <2>1. AgePolicy(Cutoff, r)
    BY <1>3 DEF Indicated, cleanupPolicy
  <2> QED
    BY <1>1, <1>3, <2>1 DEF AgePolicy, Precious, isCITResource
<1>4. CASE call.policy # "deprecated" /\ call.ids # {}
  <2>1. PICK id \in call.ids : WorkflowPolicy(id, r)
    BY <1>4 DEF Indicated, cleanupPolicy
  <2> QED
    BY <1>1, <1>4, <2>1 DEF WorkflowPolicy, Precious
<1> QED
  BY <1>2, <1>3, <1>4

\* The deletion of a set
LEMMA DelsAll ==
  ASSUME NEW T, NEW S, S \subseteq Resource, {"del"} \X S \subseteq T
  PROVE  Dels(S) \in Seq(T) /\ ToSet(Dels(S)) = {"del"} \X S
<1> DEFINE body == [r \in S |-> <<<<"del", r>>>>]
<1>1. IsFiniteSet(S)
  BY CleanupAssumption, FS_Subset
<1>2. body \in [S -> Seq(T)]
  <2>1. \A r \in S : <<"del", r>> \in T
    OBVIOUS
  <2> QED
    BY <2>1
<1>3. \A r \in S : ToSet(body[r]) = {<<"del", r>>}
  BY DEF ToSet
<1> HIDE DEF body
<1>4. Each(body) \in Seq(T) /\ ToSet(Each(body)) = UNION {ToSet(body[r]) : r \in S}
  BY <1>1, <1>2, EachAll
<1>5. UNION {ToSet(body[r]) : r \in S} = {"del"} \X S
  BY <1>3
<1>6. Dels(S) = Each(body)
  BY DEF Dels, body
<1> QED
  BY <1>4, <1>5, <1>6

-----------------------------------------------------------------------------
(* Every listing turns into instructions that spare what is precious *)

\* Deletions of what may go
LEMMA SafeDels ==
  ASSUME NEW S, S \subseteq MayGo
  PROVE  Dels(S) \in Seq(SafeCode) /\ \A r \in S : <<"del", r>> \in ToSet(Dels(S))
<1>1. S \subseteq Resource /\ {"del"} \X S \subseteq SafeCode
  BY DEF MayGo, SafeCode
<1>2. Dels(S) \in Seq(SafeCode) /\ ToSet(Dels(S)) = {"del"} \X S
  BY <1>1, DelsAll
<1> QED
  BY <1>2

\* wg.Wait
LEMMA SafeWait == Wait \in Seq(SafeCode)
<1>1. <<"wait">> \in SafeCode
  BY DEF SafeCode
<1> QED
  BY <1>1 DEF Wait

\* A loop of such rounds, each of which is in it
LEMMA SafeEach ==
  ASSUME NEW S, IsFiniteSet(S), NEW body, body = [x \in S |-> body[x]],
         \A x \in S : body[x] \in Seq(SafeCode)
  PROVE  /\ Each(body) \in Seq(SafeCode)
         /\ \A x \in S : \A c \in ToSet(body[x]) : c \in ToSet(Each(body))
<1>1. body \in [S -> Seq(SafeCode)]
  OBVIOUS
<1>2. /\ Each(body) \in Seq(SafeCode)
      /\ ToSet(Each(body)) = UNION {ToSet(body[x]) : x \in S}
  BY <1>1, EachAll
<1> QED
  BY <1>2

\* One instruction, and two
LEMMA SafeOne ==
  ASSUME NEW a \in SafeCode
  PROVE  <<a>> \in Seq(SafeCode)
  OBVIOUS

\* Two instructions
LEMMA SafeTwo ==
  ASSUME NEW a \in SafeCode, NEW b \in SafeCode
  PROVE  <<a, b>> \in Seq(SafeCode)
  OBVIOUS

\* Programs one after the other
LEMMA SafeThen ==
  ASSUME NEW a \in Seq(SafeCode), NEW b \in Seq(SafeCode)
  PROVE  a \o b \in Seq(SafeCode)
  OBVIOUS

\* Nothing is lost when programs are put together
LEMMA ThenHas ==
  ASSUME NEW a \in Seq(SafeCode), NEW b \in Seq(SafeCode), NEW c, c \in ToSet(a) \/ c \in ToSet(b)
  PROVE  c \in ToSet(a \o b)
  BY ConcatSet

\* The simple Clean functions
LEMMA SafeSimple ==
  ASSUME SafeInv, NEW k
  PROVE  /\ Simple(k) \in Seq(SafeCode)
         /\ \A r \in OfKind(k) : Indicated(r) => <<"del", r>> \in ToSet(Simple(k))
<1> DEFINE S == {r \in OfKind(k) : Indicated(r)}
<1>1. S \subseteq MayGo
  BY IndicatedMayGo DEF SafeInv, OfKind, MayGo
<1>2. \A r \in OfKind(k) : Indicated(r) => r \in S
  OBVIOUS
<1> HIDE DEF S
<1>3. Dels(S) \in Seq(SafeCode) /\ \A r \in S : <<"del", r>> \in ToSet(Dels(S))
  BY <1>1, SafeDels
<1>4. Simple(k) = Dels(S) \o Wait
  BY DEF Simple, S
<1> QED
  BY <1>2, <1>3, <1>4, SafeWait, SafeThen, ThenHas

\* A list that is kept is one of resources of its kind
LEMMA CachedResources ==
  ASSUME SafeInv, NEW k, NEW g
  PROVE  /\ Cached(k, g) \subseteq Resource /\ IsFiniteSet(Cached(k, g))
         /\ \A r \in Cached(k, g) : Kind(r) = k
<1>1. Cached(k, g) \subseteq Resource
  BY DEF SafeInv, Cached, In, OfKind
<1>2. \A r \in Cached(k, g) : Kind(r) = k
  <2> DEFINE key == <<k, g>>
  <2>1. key[1] = k
    OBVIOUS
  <2> HIDE DEF key
  <2>2. CASE key \in DOMAIN cache
    BY <2>1, <2>2 DEF SafeInv, Cached, key
  <2>3. CASE key \notin DOMAIN cache
    BY <2>3 DEF Cached, In, OfKind, key
  <2> QED
    BY <2>2, <2>3
<1> QED
  BY <1>1, <1>2, CleanupAssumption, FS_Subset

\* The policies of the configuration service
LEMMA SafeOS ==
  ASSUME SafeInv
  PROVE  getOSPolicies \in Seq(SafeCode) /\ deleteOSPolicies \in Seq(SafeCode)
<1>1. getOSPolicies \in Seq(SafeCode)
  <2> DEFINE body == [g \in Regions |-> <<<<"osZone", g>>>>]
  <2>1. \A g \in Regions : <<"osZone", g>> \in SafeCode
    BY DEF SafeCode, Places
  <2>2. \A g \in Regions : body[g] \in Seq(SafeCode)
    BY <2>1, SafeOne
  <2>3. body = [g \in Regions |-> body[g]]
    OBVIOUS
  <2> HIDE DEF body
  <2>4. Each(body) \in Seq(SafeCode)
    BY <2>2, <2>3, SafeEach, CleanupAssumption
  <2>5. <<<<"deleteOSPolicies">>>> \in Seq(SafeCode)
    <3>1. <<"deleteOSPolicies">> \in SafeCode
      BY DEF SafeCode
    <3> QED
      BY <3>1
  <2>6. getOSPolicies = Each(body) \o <<<<"deleteOSPolicies">>>>
    BY DEF getOSPolicies, body
  <2> QED
    BY <2>4, <2>5, <2>6
<1>2. deleteOSPolicies \in Seq(SafeCode)
  <2> DEFINE S == {r \in UNION {cache[k] : k \in DOMAIN cache} : Indicated(r)}
  <2>1. S \subseteq MayGo
    BY IndicatedMayGo DEF SafeInv, MayGo
  <2> HIDE DEF S
  <2>2. Dels(S) \in Seq(SafeCode)
    BY <2>1, SafeDels
  <2>3. deleteOSPolicies = Dels(S) \o Wait
    BY DEF deleteOSPolicies, S
  <2> QED
    BY <2>2, <2>3, SafeWait
<1> QED
  BY <1>1, <1>2

\* CleanLoadBalancerResources deletes what is indicated
LEMMA SafeBalancer ==
  ASSUME SafeInv
  PROVE  /\ CleanLoadBalancerResources \in Seq(SafeCode)
         /\ \A r \in OfKind("fr") :
              Indicated(r) => <<"del", r>> \in ToSet(CleanLoadBalancerResources)
         /\ \A g \in scanned :
              {<<"lbBS", g>>, <<"rneg", g, None>>, <<"zneg", g, None>>}
                \subseteq ToSet(CleanLoadBalancerResources)
<1> DEFINE S == {r \in OfKind("fr") : Indicated(r)}
           body == [g \in scanned |-> lbRegion(g)]
<1>1. S \subseteq MayGo
  BY IndicatedMayGo DEF SafeInv, OfKind, MayGo
<1>2. IsFiniteSet(scanned) /\ scanned \subseteq Places
  BY CleanupAssumption DEF scanned, Places, SafeInv
<1>3. \A g \in scanned :
        /\ body[g] \in Seq(SafeCode)
        /\ {<<"lbBS", g>>, <<"rneg", g, None>>, <<"zneg", g, None>>} \subseteq ToSet(body[g])
  <2> SUFFICES ASSUME NEW g \in scanned
      PROVE  /\ lbRegion(g) \in Seq(SafeCode)
             /\ <<"lbBS", g>> \in ToSet(lbRegion(g))
             /\ <<"rneg", g, None>> \in ToSet(lbRegion(g))
             /\ <<"zneg", g, None>> \in ToSet(lbRegion(g))
    OBVIOUS
  <2>1. /\ <<"lbFR", g>> \in SafeCode /\ <<"lbBS", g>> \in SafeCode
        /\ <<"rneg", g, None>> \in SafeCode /\ <<"zneg", g, None>> \in SafeCode
    BY <1>2 DEF SafeCode
  <2>2. /\ <<<<"lbFR", g>>, <<"lbBS", g>>>> \in Seq(SafeCode)
        /\ <<<<"rneg", g, None>>, <<"zneg", g, None>>>> \in Seq(SafeCode)
    BY <2>1, SafeTwo, Zenon
  <2> DEFINE front == <<<<"lbFR", g>>, <<"lbBS", g>>>>
             groups == <<<<"rneg", g, None>>, <<"zneg", g, None>>>>
  <2>3. <<"lbBS", g>> = front[2] /\ DOMAIN front = 1..2
    OBVIOUS
  <2>4. <<"rneg", g, None>> = groups[1] /\ <<"zneg", g, None>> = groups[2] /\ DOMAIN groups = 1..2
    OBVIOUS
  <2>5. /\ <<"lbBS", g>> \in ToSet(front)
        /\ <<"rneg", g, None>> \in ToSet(groups) /\ <<"zneg", g, None>> \in ToSet(groups)
    BY <2>3, <2>4 DEF ToSet
  <2>6. lbRegion(g) = front \o Wait \o groups \o Wait
    BY Zenon DEF lbRegion
  <2>7. front \in Seq(SafeCode) /\ groups \in Seq(SafeCode)
    BY <2>2
  <2> HIDE DEF front, groups
  <2>8. /\ front \o Wait \in Seq(SafeCode)
        /\ <<"lbBS", g>> \in ToSet(front \o Wait)
    BY <2>5, <2>7, SafeWait, SafeThen, ThenHas, Zenon
  <2>9. /\ (front \o Wait) \o groups \in Seq(SafeCode)
        /\ <<"lbBS", g>> \in ToSet((front \o Wait) \o groups)
        /\ <<"rneg", g, None>> \in ToSet((front \o Wait) \o groups)
        /\ <<"zneg", g, None>> \in ToSet((front \o Wait) \o groups)
    BY <2>5, <2>7, <2>8, SafeThen, ThenHas, Zenon
  <2> QED
    BY <2>6, <2>9, SafeWait, SafeThen, ThenHas, Zenon
<1>4. body = [g \in scanned |-> body[g]] /\ \A r \in OfKind("fr") : Indicated(r) => r \in S
  OBVIOUS
<1> HIDE DEF S, body
<1>5. /\ Each(body) \in Seq(SafeCode)
      /\ \A g \in scanned :
           {<<"lbBS", g>>, <<"rneg", g, None>>, <<"zneg", g, None>>} \subseteq ToSet(Each(body))
  <2>1. /\ Each(body) \in Seq(SafeCode)
        /\ \A g \in scanned : \A c \in ToSet(body[g]) : c \in ToSet(Each(body))
    BY <1>2, <1>3, <1>4, SafeEach
  <2> QED
    BY <1>3, <2>1
<1>6. Dels(S) \in Seq(SafeCode) /\ \A r \in S : <<"del", r>> \in ToSet(Dels(S))
  BY <1>1, SafeDels
<1>7. CleanLoadBalancerResources = (Dels(S) \o Wait) \o Each(body)
  BY DEF CleanLoadBalancerResources, S, body
<1>8. /\ Dels(S) \o Wait \in Seq(SafeCode)
      /\ \A r \in S : <<"del", r>> \in ToSet(Dels(S) \o Wait)
  BY <1>6, SafeWait, SafeThen, ThenHas
<1> QED
  BY <1>4, <1>5, <1>7, <1>8, SafeThen, ThenHas

\* Lists of a region, of which what is indicated goes
LEMMA SafeRegion ==
  ASSUME SafeInv, NEW k, NEW g, NEW n
  PROVE  /\ lbFR(g) \in Seq(SafeCode)
         /\ lbHP(g) \in Seq(SafeCode)
         /\ NEGs(k, g, n) \in Seq(SafeCode)
         /\ n = None => \A r \in In(k, g) : Indicated(r) => <<"del", r>> \in ToSet(NEGs(k, g, n))
<1>1. \A S \in SUBSET Resource : {r \in S : Indicated(r)} \subseteq MayGo
  BY IndicatedMayGo DEF SafeInv, MayGo
<1>2. lbFR(g) \in Seq(SafeCode)
  <2> DEFINE S == {r \in Cached("fr", g) : Indicated(r)}
  <2>1. S \subseteq MayGo
    BY <1>1, CachedResources
  <2> HIDE DEF S
  <2> QED
    BY <2>1, SafeDels DEF lbFR, S
<1>3. lbHP(g) \in Seq(SafeCode)
  <2> DEFINE S == {r \in Cached("hp", g) : Indicated(r)}
  <2>1. S \subseteq MayGo
    BY <1>1, CachedResources
  <2> HIDE DEF S
  <2> QED
    BY <2>1, SafeDels DEF lbHP, S
<1>4. /\ NEGs(k, g, n) \in Seq(SafeCode)
      /\ n = None => \A r \in In(k, g) : Indicated(r) => <<"del", r>> \in ToSet(NEGs(k, g, n))
  <2> DEFINE S == {r \in In(k, g) : (n = None \/ Attr[r].network = n) /\ Indicated(r)}
  <2>1. S \subseteq MayGo
    BY IndicatedMayGo DEF SafeInv, MayGo, In, OfKind
  <2>2. n = None => \A r \in In(k, g) : Indicated(r) => r \in S
    OBVIOUS
  <2>3. NEGs(k, g, n) = Dels(S)
    BY DEF NEGs
  <2> HIDE DEF S
  <2> QED
    BY <2>1, <2>2, <2>3, SafeDels
<1> QED
  BY <1>2, <1>3, <1>4

\* The backend services and URL maps of a region
LEMMA SafeServices ==
  ASSUME SafeInv, NEW g \in Places
  PROVE  /\ lbBS(g) \in Seq(SafeCode) /\ lbUM(g) \in Seq(SafeCode)
         /\ \A b \in Cached("bs", g) : Indicated(b) => <<"del", b>> \in ToSet(lbBS(g))
<1>1. <<<<"lbUM", g>>>> \in Seq(SafeCode) /\ <<<<"lbHP", g>>>> \in Seq(SafeCode)
  <2>1. <<"lbUM", g>> \in SafeCode /\ <<"lbHP", g>> \in SafeCode
    BY DEF SafeCode
  <2> QED
    BY <2>1, SafeOne, Zenon
<1>2. /\ lbBS(g) \in Seq(SafeCode)
      /\ \A b \in Cached("bs", g) : Indicated(b) => <<"del", b>> \in ToSet(lbBS(g))
  <2> DEFINE S == {s \in Cached("bs", g) : Indicated(s)}
             body == [b \in S |-> lbBackend(g, b)]
  <2>1. S \subseteq MayGo /\ IsFiniteSet(S)
    BY IndicatedMayGo, CachedResources, FS_Subset DEF SafeInv, MayGo
  <2>2. \A b \in Cached("bs", g) : Indicated(b) => b \in S
    OBVIOUS
  <2> HIDE DEF S
  <2>3. \A b \in S : body[b] \in Seq(SafeCode) /\ <<"del", b>> \in ToSet(body[b])
    <3> SUFFICES ASSUME NEW b \in S
        PROVE  lbBackend(g, b) \in Seq(SafeCode) /\ <<"del", b>> \in ToSet(lbBackend(g, b))
      OBVIOUS
    <3>1. Dels({b}) \in Seq(SafeCode) /\ <<"del", b>> \in ToSet(Dels({b}))
      BY <2>1, SafeDels
    <3>2. <<<<"lbUM", g>>>> \o Wait \in Seq(SafeCode)
      BY <1>1, SafeWait, SafeThen, Zenon
    <3>3. /\ (<<<<"lbUM", g>>>> \o Wait) \o Dels({b}) \in Seq(SafeCode)
          /\ <<"del", b>> \in ToSet((<<<<"lbUM", g>>>> \o Wait) \o Dels({b}))
      BY <3>1, <3>2, SafeThen, ThenHas, Zenon
    <3> QED
      BY <3>3, SafeWait, SafeThen, ThenHas, Zenon DEF lbBackend
  <2>4. body = [b \in S |-> body[b]]
    OBVIOUS
  <2>5. lbBS(g) = Each(body)
    BY DEF lbBS, S
  <2> HIDE DEF body
  <2>6. /\ Each(body) \in Seq(SafeCode)
        /\ \A b \in S : \A c \in ToSet(body[b]) : c \in ToSet(Each(body))
    BY <2>1, <2>3, <2>4, SafeEach
  <2> QED
    BY <2>2, <2>3, <2>5, <2>6
<1>3. lbUM(g) \in Seq(SafeCode)
  <2> DEFINE S == {m \in Cached("um", g) : Indicated(m)}
             body == [u \in S |-> lbURLMap(g, u)]
  <2>1. S \subseteq MayGo /\ IsFiniteSet(S)
    BY IndicatedMayGo, CachedResources, FS_Subset DEF SafeInv, MayGo
  <2> HIDE DEF S
  <2>2. \A u \in S : body[u] \in Seq(SafeCode)
    <3> SUFFICES ASSUME NEW u \in S PROVE lbURLMap(g, u) \in Seq(SafeCode)
      OBVIOUS
    <3>1. Dels({u}) \in Seq(SafeCode)
      BY <2>1, SafeDels
    <3> QED
      BY <1>1, <3>1, SafeWait, SafeThen, Zenon DEF lbURLMap
  <2>3. body = [u \in S |-> body[u]]
    OBVIOUS
  <2> HIDE DEF body
  <2> QED
    BY <2>1, <2>2, <2>3, SafeEach DEF lbUM, S, body
<1> QED
  BY <1>2, <1>3

\* What belongs to a network that may go may go with it
LEMMA SafeMembers ==
  ASSUME SafeInv, NEW n \in Nets
  PROVE  /\ netMembers("firewall", n) \subseteq MayGo
         /\ \A k \in {"subnet", "route"} : {r \in netMembers(k, n) : ~Attr[r].auto} \subseteq MayGo
         /\ \A g : snFR(g, n) \in Seq(SafeCode)
<1>1. /\ netMembers("firewall", n) \subseteq MayGo
      /\ \A k \in {"subnet", "route"} : {r \in netMembers(k, n) : ~Attr[r].auto} \subseteq MayGo
  BY DEF netMembers, OfKind, MayGo, GoesWith, SafeInv
<1>2. ASSUME NEW g PROVE snFR(g, n) \in Seq(SafeCode)
  <2> DEFINE S == {r \in Cached("fr", g) : Attr[r].network = n}
  <2>1. S \subseteq MayGo
    BY CachedResources DEF MayGo, GoesWith
  <2> HIDE DEF S
  <2> QED
    BY <2>1, SafeDels DEF snFR, S
<1> QED
  BY <1>1, <1>2

\* A network goes with its firewall rules, its subnetworks and its routes
LEMMA SafeNetwork ==
  ASSUME SafeInv, NEW n \in Nets
  PROVE  cleanNetwork(n) \in Seq(SafeCode) /\ <<"del", n>> \in ToSet(cleanNetwork(n))
<1> DEFINE S == {m \in netMembers("subnet", n) : ~Attr[m].auto}
           R == {r \in netMembers("route", n) : ~Attr[r].auto}
           body == [s \in S |-> cleanSubnetwork(n, s)]
<1>1. S \subseteq MayGo /\ S \subseteq Resource /\ IsFiniteSet(S)
  BY SafeMembers, CleanupAssumption, FS_Subset DEF MayGo
<1>2. Dels(netMembers("firewall", n)) \in Seq(SafeCode)
  BY SafeMembers, SafeDels
<1>3. R \subseteq MayGo /\ {n} \subseteq MayGo
  <2>1. ~Precious(n)
    BY IndicatedMayGo DEF Nets, SafeInv
  <2> QED
    BY <2>1, SafeMembers DEF Nets, MayGo
<1> HIDE DEF S, R
<1>4. /\ Dels(R) \in Seq(SafeCode) /\ Dels({n}) \in Seq(SafeCode)
      /\ <<"del", n>> \in ToSet(Dels({n}))
  BY <1>3, SafeDels
<1>5. \A s \in S : body[s] \in Seq(SafeCode)
  <2> SUFFICES ASSUME NEW s \in S PROVE cleanSubnetwork(n, s) \in Seq(SafeCode)
    OBVIOUS
  <2>1. Dels({s}) \in Seq(SafeCode)
    BY <1>1, SafeDels
  <2> DEFINE g == Attr[s].region
  <2>2. g \in Places
    BY <1>1 DEF Places
  <2> HIDE DEF g
  <2>3. /\ <<"snFR", g, n>> \in SafeCode /\ <<"snBS", g, n>> \in SafeCode
        /\ <<"rneg", g, n>> \in SafeCode /\ <<"zneg", g, n>> \in SafeCode
    BY <2>2 DEF SafeCode, Nets
  <2>4. /\ <<<<"snFR", g, n>>, <<"snBS", g, n>>>> \in Seq(SafeCode)
        /\ <<<<"rneg", g, n>>, <<"zneg", g, n>>>> \in Seq(SafeCode)
    BY <2>3, SafeTwo, Zenon
  <2>5. cleanSubnetwork(n, s) =
          <<<<"snFR", g, n>>, <<"snBS", g, n>>>> \o Wait
            \o <<<<"rneg", g, n>>, <<"zneg", g, n>>>> \o Wait \o Dels({s})
    BY Zenon DEF cleanSubnetwork, g
  <2> QED
    BY <2>1, <2>4, <2>5, SafeWait, SafeThen, Zenon
<1>6. body = [s \in S |-> body[s]]
  OBVIOUS
<1> HIDE DEF body
<1>7. Each(body) \in Seq(SafeCode)
  BY <1>1, <1>5, <1>6, SafeEach
<1>8. cleanNetwork(n) =
        Dels(netMembers("firewall", n)) \o Each(body) \o Dels(R) \o Wait \o Dels({n}) \o Wait
  BY Zenon DEF cleanNetwork, S, R, body
<1> DEFINE before == Dels(netMembers("firewall", n)) \o Each(body) \o Dels(R) \o Wait
<1>9. before \in Seq(SafeCode)
  <2>1. Dels(netMembers("firewall", n)) \o Each(body) \in Seq(SafeCode)
    BY <1>2, <1>7, SafeThen, Zenon
  <2> QED
    BY <1>4, <2>1, SafeWait, SafeThen, Zenon
<1>10. cleanNetwork(n) = (before \o Dels({n})) \o Wait
  BY <1>8, Zenon
<1> HIDE DEF before
<1>11. before \o Dels({n}) \in Seq(SafeCode) /\ <<"del", n>> \in ToSet(before \o Dels({n}))
  BY <1>4, <1>9, SafeThen, ThenHas, Zenon
<1> QED
  BY <1>10, <1>11, SafeWait, SafeThen, ThenHas, Zenon

\* CleanNetworks starts from networks that are indicated
LEMMA SafeNetworks ==
  ASSUME SafeInv
  PROVE  /\ CleanNetworks \in Seq(SafeCode)
         /\ \A n \in OfKind("network") : Indicated(n) => <<"del", n>> \in ToSet(CleanNetworks)
<1> DEFINE S == {m \in OfKind("network") : Indicated(m)}
           body == [n \in S |-> cleanNetwork(n)]
<1>1. S \subseteq Nets
  BY DEF SafeInv, OfKind, Nets
<1>2. IsFiniteSet(S)
  BY <1>1, CleanupAssumption, FS_Subset DEF Nets
<1>3. \A n \in OfKind("network") : Indicated(n) => n \in S
  OBVIOUS
<1> HIDE DEF S
<1>4. \A n \in S : body[n] \in Seq(SafeCode) /\ <<"del", n>> \in ToSet(body[n])
  BY <1>1, SafeNetwork
<1>5. body = [n \in S |-> body[n]] /\ CleanNetworks = Each(body)
  BY DEF CleanNetworks, S
<1> HIDE DEF body
<1>6. /\ Each(body) \in Seq(SafeCode)
      /\ \A n \in S : \A c \in ToSet(body[n]) : c \in ToSet(Each(body))
  BY <1>2, <1>4, <1>5, SafeEach
<1> QED
  BY <1>3, <1>4, <1>5, <1>6

\* A backend service of a network that may go takes its health checks along
LEMMA SafeNetBackends ==
  ASSUME SafeInv, NEW g \in Places, NEW n \in Nets
  PROVE  snBS(g, n) \in Seq(SafeCode)
<1> DEFINE S == {s \in Cached("bs", g) : Attr[s].network = n}
           body == [b \in S |-> snBackend(g, b)]
<1>1. S \subseteq Backends
  BY CachedResources DEF Backends
<1>2. IsFiniteSet(S)
  BY <1>1, CleanupAssumption, FS_Subset DEF Backends
<1> HIDE DEF S
<1>3. \A b \in S : body[b] \in Seq(SafeCode)
  <2> SUFFICES ASSUME NEW b \in S PROVE snBackend(g, b) \in Seq(SafeCode)
    OBVIOUS
  <2> DEFINE H == {h \in Uses[b] : Kind(h) = "hc"}
  <2>1. b \in Backends /\ b \in Resource /\ b \in MayGo
    BY <1>1 DEF Backends, MayGo, GoesWith
  <2>2. H \subseteq MayGo
    <3>1. Attr[b].network \in Nets /\ Kind(b) = "bs" /\ Uses[b] \subseteq Resource
      BY <2>1, CleanupAssumption DEF Backends
    <3>2. \A h \in H : GoesWith(Attr[b].network, h)
      BY <2>1, <3>1 DEF GoesWith
    <3> QED
      BY <3>1, <3>2 DEF MayGo
  <2> HIDE DEF H
  <2>3. Dels({b}) \in Seq(SafeCode) /\ Dels(H) \in Seq(SafeCode)
    BY <2>1, <2>2, SafeDels
  <2>4. <<"snUM", g, b>> \in SafeCode
    BY <2>1 DEF SafeCode
  <2>5. <<<<"snUM", g, b>>>> \in Seq(SafeCode)
    BY <2>4, SafeOne, Zenon
  <2>6. snBackend(g, b) = <<<<"snUM", g, b>>>> \o Wait \o Dels({b}) \o Wait \o Dels(H)
    BY Zenon DEF snBackend, H
  <2> QED
    BY <2>3, <2>5, <2>6, SafeWait, SafeThen, Zenon
<1>4. body = [b \in S |-> body[b]]
  OBVIOUS
<1> HIDE DEF body
<1> QED
  BY <1>2, <1>3, <1>4, SafeEach DEF snBS, S, body

\* So do the URL maps in front of it, and the proxies in front of those
LEMMA SafeNetMaps ==
  ASSUME SafeInv, NEW g \in Places, NEW b \in Backends
  PROVE  snUM(g, b) \in Seq(SafeCode)
<1> DEFINE S == {m \in Cached("um", g) : b \in Uses[m]}
           body == [u \in S |-> snURLMap(g, u)]
<1>1. S \subseteq Maps
  BY CachedResources DEF Maps
<1>2. IsFiniteSet(S)
  BY <1>1, CleanupAssumption, FS_Subset DEF Maps
<1> HIDE DEF S
<1>3. \A u \in S : body[u] \in Seq(SafeCode)
  <2> SUFFICES ASSUME NEW u \in S PROVE snURLMap(g, u) \in Seq(SafeCode)
    OBVIOUS
  <2>1. u \in Maps /\ u \in MayGo
    <3>1. u \in Maps
      BY <1>1
    <3>2. PICK c \in Backends : c \in Uses[u]
      BY <3>1 DEF Maps
    <3>3. u \in Resource /\ Attr[c].network \in Nets /\ GoesWith(Attr[c].network, u)
      BY <3>1, <3>2 DEF Maps, Backends, GoesWith
    <3> QED
      BY <3>1, <3>3 DEF MayGo
  <2>2. Dels({u}) \in Seq(SafeCode)
    BY <2>1, SafeDels
  <2>3. <<"snHP", g, u>> \in SafeCode
    BY <2>1 DEF SafeCode
  <2>4. <<<<"snHP", g, u>>>> \in Seq(SafeCode)
    BY <2>3, SafeOne, Zenon
  <2> QED
    BY <2>2, <2>4, SafeWait, SafeThen, Zenon DEF snURLMap
<1>4. body = [u \in S |-> body[u]]
  OBVIOUS
<1> HIDE DEF body
<1> QED
  BY <1>2, <1>3, <1>4, SafeEach DEF snUM, S, body

\* The proxies
LEMMA SafeNetProxies ==
  ASSUME SafeInv, NEW g, NEW u \in Maps
  PROVE  snHP(g, u) \in Seq(SafeCode)
<1> DEFINE S == {h \in Cached("hp", g) : u \in Uses[h]}
<1>1. S \subseteq MayGo
  <2> SUFFICES ASSUME NEW h \in S PROVE h \in MayGo
    OBVIOUS
  <2>1. PICK b \in Backends : b \in Uses[u]
    BY DEF Maps
  <2>2. h \in Resource /\ Kind(h) = "hp" /\ u \in Uses[h] /\ Kind(u) = "um"
    BY CachedResources DEF Maps
  <2>3. Attr[b].network \in Nets /\ GoesWith(Attr[b].network, h)
    BY <2>1, <2>2 DEF Backends, GoesWith
  <2> QED
    BY <2>2, <2>3 DEF MayGo
<1> HIDE DEF S
<1> QED
  BY <1>1, SafeDels DEF snHP, S

\* Whatever is listed, the instructions that follow are safe again
LEMMA ExpandSafe ==
  ASSUME SafeInv, NEW ins \in SafeCode, Lists(ins)
  PROVE  Expansion(ins) \in Seq(SafeCode)
<1>1. CASE ins[1] \in Entries \cup {"deleteOSPolicies"}
  BY <1>1, SafeSimple, SafeOS, SafeBalancer, SafeNetworks
  DEF Expansion, Entries, CleanInstances, CleanDisks, CleanImages, CleanMachineImages,
      CleanSnapshots, CleanGuestPolicies
<1>2. CASE ins \in {"osZone", "lbFR", "lbBS", "lbUM", "lbHP"} \X Places
  <2>1. ins[2] \in Places /\ ins[1] \in {"osZone", "lbFR", "lbBS", "lbUM", "lbHP"}
    BY <1>2
  <2>2. <<>> \in Seq(SafeCode)
    OBVIOUS
  <2> QED
    BY <2>1, <2>2, SafeRegion, SafeServices DEF Expansion
<1>3. CASE ins \in {"rneg", "zneg"} \X Places \X (Resource \cup {None})
  <2>1. ins[1] \in {"rneg", "zneg"}
    BY <1>3
  <2> QED
    BY <2>1, SafeRegion DEF Expansion
<1>4. CASE ins \in {"snFR", "snBS"} \X Places \X Nets
  <2>1. ins[1] \in {"snFR", "snBS"} /\ ins[2] \in Places /\ ins[3] \in Nets
    BY <1>4
  <2> QED
    BY <2>1, SafeMembers, SafeNetBackends DEF Expansion
<1>5. CASE ins \in {"snUM"} \X Places \X Backends
  <2>1. ins[1] = "snUM" /\ ins[2] \in Places /\ ins[3] \in Backends
    BY <1>5
  <2> QED
    BY <2>1, SafeNetMaps DEF Expansion
<1>6. CASE ins \in {"snHP"} \X Places \X Maps
  <2>1. ins[1] = "snHP" /\ ins[2] \in Places /\ ins[3] \in Maps
    BY <1>6
  <2> QED
    BY <2>1, SafeNetProxies DEF Expansion
<1>7. ASSUME ins \in {<<"wait">>} \cup ({"del"} \X MayGo) PROVE FALSE
  BY <1>7 DEF Lists
<1>8. ASSUME ins \in {<<"deleteOSPolicies">>} \cup {<<k>> : k \in Entries}
      PROVE  ins[1] \in Entries \cup {"deleteOSPolicies"}
  BY <1>8
<1> QED
  BY <1>1, <1>2, <1>3, <1>4, <1>5, <1>6, <1>7, <1>8 DEF SafeCode

\* The first program is one of entries
LEMMA SafeInit == Init => SafeInv
<1> SUFFICES ASSUME Init PROVE SafeInv
  OBVIOUS
<1>1. \A k \in Entries : <<k>> \in SafeCode
  BY DEF SafeCode
<1>2. main \in Seq(SafeCode) /\ cleanTestWorkflow(FALSE) \in Seq(SafeCode)
      /\ library \in Seq(SafeCode)
  <2>1. /\ <<"instances">> \in SafeCode /\ <<"disks">> \in SafeCode /\ <<"lb">> \in SafeCode
        /\ <<"networks">> \in SafeCode
    BY <1>1 DEF Entries
  <2>2. /\ <<"images">> \in SafeCode /\ <<"machineImages">> \in SafeCode
        /\ <<"snapshots">> \in SafeCode /\ <<"guestPolicies">> \in SafeCode
        /\ <<"osPolicies">> \in SafeCode
    BY <1>1 DEF Entries
  <2> HIDE DEF SafeCode
  <2> QED
    BY <2>1, <2>2 DEF main, cleanTestWorkflow, library
<1>3. call.program \in {main, cleanTestWorkflow(FALSE), library} /\ alive \subseteq Resource
  BY CleanupAssumption DEF Init
<1>4. todo \in Seq(SafeCode)
  BY <1>2, <1>3 DEF Init
<1> QED
  BY <1>3, <1>4 DEF Init, SafeInv

\* What may go does not change
LEMMA SafeStays ==
  ASSUME call' = call
  PROVE  MayGo' = MayGo /\ SafeCode' = SafeCode
<1>1. \A r : Precious(r)' <=> Precious(r)
  BY DEF Precious
<1>2. Nets' = Nets
  <2>1. \A r : Indicated(r)' <=> Indicated(r)
    BY DEF Indicated
  <2> QED
    BY <2>1 DEF Nets
<1>3. Backends' = Backends
  BY <1>2 DEF Backends
<1>4. Maps' = Maps
  BY <1>3 DEF Maps
<1>5. MayGo' = MayGo
  BY <1>1, <1>2 DEF MayGo
<1>6. Places' = Places
  BY DEF Places
<1> QED
  BY <1>2, <1>3, <1>4, <1>5, <1>6 DEF SafeCode

\* No step leaves an instruction or a deletion behind that Spared does not allow
LEMMA SafeStep == SafeInv /\ [Next]_vars => SafeInv'
<1> SUFFICES ASSUME SafeInv, [Next]_vars PROVE SafeInv'
  OBVIOUS
<1>1. call' = call
  BY DEF Next, List, ListFails, Start, Waited, Finish, Vanish, vars
<1>2. MayGo' = MayGo /\ SafeCode' = SafeCode
  BY <1>1, SafeStays
<1>3. todo # <<>> => Head(todo) \in SafeCode /\ Tail(todo) \in Seq(SafeCode)
  BY DEF SafeInv
<1>4. CASE List
  <2> DEFINE ins == Head(todo)
  <2>1. todo # <<>> /\ Lists(ins) /\ todo' = Expansion(ins) \o Tail(todo)
    BY <1>4 DEF List
  <2>2. Expansion(ins) \in Seq(SafeCode)
    BY <1>3, <2>1, ExpandSafe
  <2>3. todo' \in Seq(SafeCode)
    BY <1>3, <2>1, <2>2, SafeThen
  <2>4. \A k \in DOMAIN cache' : cache'[k] \subseteq Resource /\ \A r \in cache'[k] : Kind(r) = k[1]
    BY <1>4, CachedResources DEF List, SafeInv
  <2> QED
    BY <1>1, <1>2, <1>4, <2>3, <2>4 DEF List, SafeInv
<1>5. CASE ListFails
  <2>1. Head(todo)[1] \notin Resource
    <3>1. Head(todo)[1] \in Instructions
      BY <1>3, <1>5 DEF ListFails, Lists, SafeCode, Instructions, Entries
    <3> QED
      BY <3>1, CleanupAssumption
  <2>2. errs' \cap Resource = errs \cap Resource
    BY <1>5, <2>1 DEF ListFails
  <2>3. \A k \in DOMAIN cache' : cache'[k] \subseteq Resource /\ \A r \in cache'[k] : Kind(r) = k[1]
    BY <1>5 DEF ListFails, SafeInv
  <2> QED
    BY <1>1, <1>2, <1>3, <1>5, <2>2, <2>3 DEF ListFails, SafeInv
<1>6. CASE Start
  <2>1. Head(todo)[2] \in MayGo
    BY <1>3, <1>6 DEF Start, SafeCode, Entries
  <2> QED
    BY <1>1, <1>2, <1>3, <1>6, <2>1 DEF Start, SafeInv
<1>7. CASE Waited
  BY <1>1, <1>2, <1>3, <1>7 DEF Waited, SafeInv
<1>8. ASSUME NEW r \in Resource, Finish(r) PROVE SafeInv'
  <2>1. running' \subseteq MayGo /\ r \in MayGo
    BY <1>8 DEF Finish, DoneAfter, SafeInv
  <2>2. killed' \subseteq MayGo
    BY <1>8, <2>1 DEF Finish, SafeInv
  <2>3. call.dryRun => killed' = {} /\ errs' \cap Resource = {}
    BY <1>8 DEF Finish, Deletes, SafeInv
  <2>4. alive' \subseteq Resource /\ UNCHANGED <<todo, cache>>
    BY <1>8 DEF Finish, SafeInv
  <2>5. faults' \in Nat
    BY <1>8 DEF Finish, SafeInv
  <2> QED
    BY <1>1, <1>2, <2>1, <2>2, <2>3, <2>4, <2>5 DEF SafeInv
<1>9. ASSUME NEW r \in Resource, Vanish(r) PROVE SafeInv'
  BY <1>1, <1>2, <1>9 DEF Vanish, SafeInv
<1>10. CASE UNCHANGED vars
  BY <1>1, <1>2, <1>10 DEF vars, SafeInv
<1> QED
  BY <1>4, <1>5, <1>6, <1>7, <1>8, <1>9, <1>10 DEF Next

\* Everything ever deleted, under way or left to delete is what Spared allows
THEOREM SafeInvariant == Spec => []SafeInv
  BY SafeInit, SafeStep, PTL DEF Spec

\* Spared, for every set of resources, caller and policy: in whatever order goroutines end,
\* lists fail and others delete, nothing precious goes but the parts CleanNetworks takes
\* away with an indicated network, of which VMs and disks are none (cleanupPolicy and
\* CleanNetworks in cleanerupper.go), and a dry run deletes nothing
THEOREM NothingPreciousGoes == Spec => []Spared
<1>1. SafeInv => Spared
  <2> SUFFICES ASSUME SafeInv, NEW r \in killed, Precious(r)
      PROVE  \E n \in Resource : Kind(n) = "network" /\ Indicated(n) /\ GoesWith(n, r)
    BY DEF SafeInv, Spared
  <2>1. PICK n \in Nets : GoesWith(n, r)
    BY DEF SafeInv, MayGo
  <2> QED
    BY <2>1 DEF Nets
<1> QED
  BY <1>1, SafeInvariant, PTL

-----------------------------------------------------------------------------
(* The report is true *)

\* The instructions that lead to the deletion of a resource the policy indicates
Catches(r, ins) ==
  \/ ins = <<"del", r>>
  \/ Kind(r) = "instance" /\ ins = <<"instances">>
  \/ Kind(r) = "disk" /\ ins = <<"disks">>
  \/ Kind(r) = "network" /\ ins = <<"networks">>
  \/ Kind(r) \in {"fr", "bs", "rneg", "zneg"} /\ ins = <<"lb">>
  \/ Kind(r) = "bs" /\ ins = <<"lbBS", Attr[r].region>>
  \/ Kind(r) \in {"rneg", "zneg"} /\ ins = <<Kind(r), Attr[r].region, None>>

\* A list that is kept misses nothing that still exists
ListsComplete == \A k \in DOMAIN cache : In(k[1], k[2]) \subseteq cache[k]

\* What is to go is in an error, under way, or still to come
NothingMissed ==
  ~call.dryRun /\ call.program # library /\ errs \subseteq Resource =>
    \A r \in alive :
      Indicated(r) /\ Covered(r) =>
        r \in errs \/ r \in running \/ \E ins \in ToSet(todo) : Catches(r, ins)

\* What a real run reports as deleted is gone, but for the endpoint groups in an error, and
\* after a fault for OS policy assignments
DeletedGone ==
  ~call.dryRun => \A r \in deleted :
    \/ r \in killed
    \/ Kind(r) = "zneg" /\ r \in errs
    \/ Kind(r) = "osPolicy" /\ faults > 0

ReportInv == ListsComplete /\ NothingMissed /\ DeletedGone

\* The instructions of a program are its head and its tail's
LEMMA HeadTail ==
  ASSUME NEW T, NEW s \in Seq(T), s # <<>>
  PROVE  ToSet(s) = {Head(s)} \cup ToSet(Tail(s))
<1>1. /\ Len(s) \in Nat /\ Len(s) > 0 /\ DOMAIN s = 1..Len(s)
      /\ Head(s) = s[1]
      /\ Tail(s) \in Seq(T) /\ Len(Tail(s)) = Len(s) - 1 /\ DOMAIN Tail(s) = 1..(Len(s) - 1)
      /\ \A i \in 1..(Len(s) - 1) : Tail(s)[i] = s[i + 1]
  OBVIOUS
<1>2. ASSUME NEW x \in ToSet(s) PROVE x \in {Head(s)} \cup ToSet(Tail(s))
  <2>1. PICK i \in 1..Len(s) : x = s[i]
    BY <1>1 DEF ToSet
  <2>2. CASE i = 1
    BY <1>1, <2>1, <2>2
  <2>3. CASE i # 1
    <3>1. i - 1 \in 1..(Len(s) - 1) /\ (i - 1) + 1 = i
      BY <1>1, <2>3
    <3>2. Tail(s)[i - 1] = x
      BY <1>1, <2>1, <3>1
    <3> QED
      BY <1>1, <3>1, <3>2 DEF ToSet
  <2> QED
    BY <2>2, <2>3
<1>3. ASSUME NEW x \in {Head(s)} \cup ToSet(Tail(s)) PROVE x \in ToSet(s)
  <2>1. CASE x = Head(s)
    <3>1. 1 \in 1..Len(s) /\ s[1] = x
      BY <1>1, <2>1
    <3> QED
      BY <1>1, <3>1 DEF ToSet
  <2>2. CASE x \in ToSet(Tail(s))
    <3>1. PICK i \in 1..(Len(s) - 1) : x = Tail(s)[i]
      BY <1>1, <2>2 DEF ToSet
    <3>2. i + 1 \in 1..Len(s) /\ s[i + 1] = x
      BY <1>1, <3>1
    <3> QED
      BY <1>1, <3>2 DEF ToSet
  <2> QED
    BY <2>1, <2>2
<1> QED
  BY <1>2, <1>3

\* A listing that catches a resource turns into a program with an instruction that does
LEMMA CaughtAgain ==
  ASSUME SafeInv, ListsComplete, NEW r \in alive, Indicated(r), Covered(r),
         NEW ins \in SafeCode, Catches(r, ins), Lists(ins)
  PROVE  \E c \in ToSet(Expansion(ins)) : Catches(r, c)
<1> DEFINE goal == \E c \in ToSet(Expansion(ins)) : Catches(r, c)
<1>0. r \in Resource
  BY DEF SafeInv
<1>1. <<"del", r>> \in ToSet(Expansion(ins)) => goal
  BY DEF Catches
<1>2. CASE Kind(r) = "instance" /\ ins = <<"instances">>
  <2>1. Expansion(ins) = Simple("instance") /\ r \in OfKind("instance")
    BY <1>2 DEF Expansion, CleanInstances, OfKind
  <2> QED
    BY <1>1, <2>1, SafeSimple
<1>3. CASE Kind(r) = "disk" /\ ins = <<"disks">>
  <2>1. Expansion(ins) = Simple("disk") /\ r \in OfKind("disk")
    BY <1>3 DEF Expansion, CleanDisks, OfKind
  <2> QED
    BY <1>1, <2>1, SafeSimple
<1>4. CASE Kind(r) = "network" /\ ins = <<"networks">>
  <2>1. Expansion(ins) = CleanNetworks /\ r \in OfKind("network")
    BY <1>4 DEF Expansion, OfKind
  <2> QED
    BY <1>1, <2>1, SafeNetworks
<1>5. CASE Kind(r) \in {"fr", "bs", "rneg", "zneg"} /\ ins = <<"lb">>
  <2>1. Expansion(ins) = CleanLoadBalancerResources
    BY <1>5 DEF Expansion
  <2>2. CASE Kind(r) = "fr"
    <3>1. r \in OfKind("fr")
      BY <2>2 DEF OfKind
    <3> QED
      BY <1>1, <2>1, <3>1, SafeBalancer
  <2>3. CASE Kind(r) \in {"bs", "rneg", "zneg"}
    <3>1. Attr[r].region \in scanned
      <4>1. Attr[r].region \in Regions
        BY <1>0, <2>3, CleanupAssumption
      <4> QED
        BY <2>3, <4>1 DEF scanned, Covered
    <3>2. {<<"lbBS", Attr[r].region>>, <<"rneg", Attr[r].region, None>>,
           <<"zneg", Attr[r].region, None>>} \subseteq ToSet(Expansion(ins))
      BY <2>1, <3>1, SafeBalancer
    <3> QED
      BY <2>3, <3>2 DEF Catches
  <2> QED
    BY <1>5, <2>2, <2>3
<1>6. CASE Kind(r) = "bs" /\ ins = <<"lbBS", Attr[r].region>>
  <2> DEFINE g == Attr[r].region
  <2>1. g \in Places
    BY <1>0 DEF Places
  <2>2. r \in Cached("bs", g)
    <3>1. r \in In("bs", g)
      BY <1>6 DEF In, OfKind
    <3> DEFINE k == <<"bs", g>>
    <3>2. k[1] = "bs" /\ k[2] = g
      OBVIOUS
    <3> HIDE DEF g
    <3>3. k \in DOMAIN cache => In("bs", g) \subseteq cache[k]
      BY <3>2 DEF ListsComplete
    <3> QED
      BY <3>1, <3>3 DEF Cached
  <2>3. Expansion(ins) = lbBS(g)
    BY <1>6 DEF Expansion
  <2> HIDE DEF g
  <2> QED
    BY <1>1, <2>1, <2>2, <2>3, SafeServices
<1>7. CASE Kind(r) \in {"rneg", "zneg"} /\ ins = <<Kind(r), Attr[r].region, None>>
  <2>1. Expansion(ins) = NEGs(Kind(r), Attr[r].region, None)
    BY <1>7 DEF Expansion
  <2>2. r \in In(Kind(r), Attr[r].region)
    BY DEF In, OfKind
  <2> QED
    BY <1>1, <2>1, <2>2, SafeRegion
<1>8. ins # <<"del", r>>
  BY DEF Lists
<1> QED
  BY <1>2, <1>3, <1>4, <1>5, <1>6, <1>7, <1>8 DEF Catches

\* At the start everything covered is to come
LEMMA ReportInit == Init => ReportInv
<1> SUFFICES ASSUME Init PROVE ReportInv
  OBVIOUS
<1>1. ListsComplete /\ DeletedGone
  BY DEF Init, ListsComplete, DeletedGone
<1>2. ASSUME call.program # library, NEW r \in alive, Covered(r)
      PROVE  \E ins \in ToSet(todo) : Catches(r, ins)
  <2>1. call.program \in {main, cleanTestWorkflow(FALSE)} /\ todo = call.program
    BY <1>2, CleanupAssumption DEF Init
  <2>2. /\ <<"instances">> \in ToSet(main) /\ <<"disks">> \in ToSet(main)
        /\ <<"networks">> \in ToSet(main)
    <3>1. main[1] = <<"instances">> /\ main[2] = <<"disks">> /\ main[4] = <<"networks">>
          /\ DOMAIN main = 1..4
      BY DEF main
    <3> HIDE DEF main
    <3>2. 1 \in DOMAIN main /\ 2 \in DOMAIN main /\ 4 \in DOMAIN main
      BY <3>1
    <3> QED
      BY <3>1, <3>2 DEF ToSet
  <2>3. LET p == cleanTestWorkflow(FALSE)
        IN  <<"instances">> \in ToSet(p) /\ <<"disks">> \in ToSet(p) /\ <<"networks">> \in ToSet(p)
    <3> DEFINE p == cleanTestWorkflow(FALSE)
    <3>1. p[1] = <<"instances">> /\ p[2] = <<"disks">> /\ p[3] = <<"networks">>
          /\ DOMAIN p = 1..3
      BY DEF cleanTestWorkflow
    <3> HIDE DEF p
    <3>2. 1 \in DOMAIN p /\ 2 \in DOMAIN p /\ 3 \in DOMAIN p
      BY <3>1
    <3>3. <<"instances">> \in ToSet(p) /\ <<"disks">> \in ToSet(p) /\ <<"networks">> \in ToSet(p)
      BY <3>1, <3>2 DEF ToSet
    <3> QED
      BY <3>3 DEF p
  <2> QED
    BY <1>2, <2>1, <2>2, <2>3 DEF Covered, Catches
<1> QED
  BY <1>1, <1>2 DEF ReportInv, NothingMissed

\* Lists stay complete: resources only go
LEMMA CompleteStep ==
  ASSUME SafeInv, ListsComplete, [Next]_vars
  PROVE  ListsComplete'
<1>1. alive' \subseteq alive
  BY DEF Next, List, ListFails, Start, Waited, Finish, Vanish, vars
<1>2. \A k, g : In(k, g)' \subseteq In(k, g)
  BY <1>1 DEF In, OfKind
<1>3. ASSUME NEW k \in DOMAIN cache' PROVE In(k[1], k[2]) \subseteq cache'[k]
  <2>1. CASE List
    <3> DEFINE ins == Head(todo)
               key == <<CacheKind[ins[1]], ins[2]>>
    <3>1. CASE Entry(ins)
      BY <2>1, <3>1 DEF List
    <3>2. CASE ~Entry(ins) /\ ins[1] \notin DOMAIN CacheKind
      <4>1. cache' = cache
        BY <2>1, <3>2 DEF List
      <4> QED
        BY <4>1 DEF ListsComplete
    <3>3. CASE ~Entry(ins) /\ ins[1] \in DOMAIN CacheKind
      <4>1. cache' = [q \in DOMAIN cache \cup {key} |->
                        IF q = key THEN Cached(key[1], key[2]) ELSE cache[q]]
        BY <2>1, <3>3 DEF List
      <4>2. key = <<key[1], key[2]>>
        OBVIOUS
      <4> HIDE DEF key
      <4>3. In(key[1], key[2]) \subseteq Cached(key[1], key[2])
        BY <4>2 DEF Cached, ListsComplete
      <4>4. k \in DOMAIN cache \cup {key}
        BY <4>1
      <4>5. CASE k = key
        BY <4>1, <4>3, <4>4, <4>5
      <4>6. CASE k # key
        <5>1. k \in DOMAIN cache /\ cache'[k] = cache[k]
          BY <4>1, <4>4, <4>6
        <5> QED
          BY <5>1 DEF ListsComplete
      <4> QED
        BY <4>5, <4>6
    <3> QED
      BY <3>1, <3>2, <3>3
  <2>2. CASE ListFails
    BY <2>2 DEF ListFails, ListsComplete
  <2>3. CASE ~List /\ ~ListFails
    <3>1. cache' = cache
      BY <2>3 DEF Next, Start, Waited, Finish, Vanish, vars
    <3> QED
      BY <3>1 DEF ListsComplete
  <2> QED
    BY <2>1, <2>2, <2>3
<1> QED
  BY <1>2, <1>3 DEF ListsComplete

\* What is under way ends, and an error or the resource's end is what it leaves
LEMMA MissedStep ==
  ASSUME SafeInv, ListsComplete, NothingMissed, [Next]_vars
  PROVE  NothingMissed'
<1>1. call' = call /\ alive' \subseteq alive /\ errs \subseteq errs'
  BY DEF Next, List, ListFails, Start, Waited, Finish, Vanish, vars
<1> SUFFICES ASSUME ~call.dryRun, call.program # library, errs' \subseteq Resource,
                    NEW r \in alive', Indicated(r), Covered(r)
             PROVE  r \in errs' \/ r \in running' \/ \E ins \in ToSet(todo') : Catches(r, ins)
  <2>1. \A q : (Indicated(q)' <=> Indicated(q)) /\ (Covered(q)' <=> Covered(q))
    BY <1>1 DEF Indicated, cleanupPolicy, Covered
  <2> QED
    BY <1>1, <2>1 DEF NothingMissed, Catches
<1>2. r \in alive /\ r \in Resource
  BY <1>1 DEF SafeInv
<1>3. r \in errs \/ r \in running \/ \E ins \in ToSet(todo) : Catches(r, ins)
  BY <1>1, <1>2 DEF NothingMissed
<1>4. todo # <<>> => /\ Head(todo) \in SafeCode /\ Tail(todo) \in Seq(SafeCode)
                     /\ ToSet(todo) = {Head(todo)} \cup ToSet(Tail(todo))
  BY HeadTail DEF SafeInv
<1>5. CASE List
  <2> DEFINE ins == Head(todo)
  <2>1. /\ todo # <<>> /\ Lists(ins) /\ todo' = Expansion(ins) \o Tail(todo)
        /\ UNCHANGED <<running, errs>>
    BY <1>5 DEF List
  <2>2. Expansion(ins) \in Seq(SafeCode)
    BY <1>4, <2>1, ExpandSafe
  <2>3. \A c : c \in ToSet(Expansion(ins)) \/ c \in ToSet(Tail(todo)) => c \in ToSet(todo')
    BY <1>4, <2>1, <2>2, ThenHas
  <2>4. Catches(r, ins) => \E c \in ToSet(Expansion(ins)) : Catches(r, c)
    BY <1>2, <1>4, <2>1, CaughtAgain
  <2> HIDE DEF ins
  <2> QED
    BY <1>3, <1>4, <2>1, <2>3, <2>4 DEF ins
<1>6. CASE ListFails
  <2>1. Head(todo)[1] \in Instructions
    BY <1>4, <1>6 DEF ListFails, Lists, SafeCode, Instructions, Entries
  <2>2. Head(todo)[1] \in errs'
    BY <1>6 DEF ListFails
  <2> QED
    BY <2>1, <2>2, CleanupAssumption
<1>7. CASE Start
  <2>1. /\ todo # <<>> /\ Head(todo)[1] = "del" /\ running' = running \cup {Head(todo)[2]}
        /\ todo' = Tail(todo) /\ errs' = errs
    BY <1>7 DEF Start
  <2>2. Kind(r) \in {"rneg", "zneg"} => Kind(r) # "del"
    OBVIOUS
  <2>3. Catches(r, Head(todo)) => Head(todo) = <<"del", r>>
    BY <2>1, <2>2 DEF Catches
  <2>4. Catches(r, Head(todo)) => r \in running'
    BY <2>1, <2>3
  <2> QED
    BY <1>3, <1>4, <2>1, <2>4
<1>8. CASE Waited
  <2>1. /\ todo # <<>> /\ Head(todo)[1] = "wait" /\ running' = running
        /\ todo' = Tail(todo) /\ errs' = errs
    BY <1>8 DEF Waited
  <2>2. ~Catches(r, Head(todo))
    BY <2>1 DEF Catches
  <2> QED
    BY <1>3, <1>4, <2>1, <2>2
<1>9. ASSUME NEW q \in Resource, Finish(q)
      PROVE  r \in errs' \/ r \in running' \/ \E ins \in ToSet(todo') : Catches(r, ins)
  <2>1. todo' = todo /\ running' = running \ {q}
        /\ (q \notin alive' \/ q \in errs' \/ Kind(q) = "osPolicy")
    BY <1>9 DEF Finish, DoneAfter, FailsUnseen
  <2>2. Kind(r) # "osPolicy"
    BY DEF Covered
  <2> QED
    BY <1>1, <1>3, <2>1, <2>2
<1>10. ASSUME NEW q \in Resource, Vanish(q)
       PROVE  r \in errs' \/ r \in running' \/ \E ins \in ToSet(todo') : Catches(r, ins)
  BY <1>3, <1>10 DEF Vanish
<1>11. CASE UNCHANGED vars
  BY <1>3, <1>11 DEF vars
<1> QED
  BY <1>5, <1>6, <1>7, <1>8, <1>9, <1>10, <1>11 DEF Next

\* Only the end of a goroutine changes the report
LEMMA DeletedStep == SafeInv /\ DeletedGone /\ [Next]_vars => DeletedGone'
<1> SUFFICES ASSUME SafeInv, DeletedGone, [Next]_vars PROVE DeletedGone'
  OBVIOUS
<1>0. faults \in Nat
  BY DEF SafeInv
<1>1. ASSUME NEW r \in Resource, Finish(r) PROVE DeletedGone'
  <2>1. /\ call' = call /\ killed \subseteq killed' /\ errs \subseteq errs'
        /\ faults' \in {faults, faults + 1}
    BY <1>1 DEF Finish
  <2>2. ASSUME NEW d \in deleted'
        PROVE  \/ d \in deleted
               \/ call.dryRun
               \/ d \in killed'
               \/ Kind(d) = "zneg" /\ d \in errs'
               \/ Kind(d) = "osPolicy" /\ faults' > 0
    BY <1>0, <1>1 DEF Finish, FailsUnseen, GoesOn
  <2> QED
    BY <1>0, <2>1, <2>2 DEF DeletedGone
<1>2. CASE ~\E r \in Resource : Finish(r)
  <2>1. /\ call' = call /\ deleted' = deleted /\ killed' = killed /\ errs \subseteq errs'
        /\ faults' \in {faults, faults + 1}
    BY <1>2 DEF Next, List, ListFails, Start, Waited, Vanish, vars
  <2> QED
    BY <1>0, <2>1 DEF DeletedGone
<1> QED
  BY <1>1, <1>2

\* What is to go is never lost sight of
THEOREM ReportInvariant == Spec => []ReportInv
<1>1. SafeInv /\ ReportInv /\ [Next]_vars => ReportInv'
  BY CompleteStep, MissedStep, DeletedStep DEF ReportInv
<1> QED
  BY ReportInit, <1>1, SafeInvariant, PTL DEF Spec

\* ReportTrue, for every set of resources and caller: when the clean-up after a workflow
\* returns, what the policy indicates is gone or in an error unless a list failed, and what
\* a real run reports as deleted is gone (the Clean functions of cleanerupper.go)
THEOREM ReportsTruly == Spec => []ReportTrue
<1>1. SafeInv /\ ReportInv => ReportTrue
  <2> SUFFICES ASSUME SafeInv, ReportInv PROVE ReportTrue
    OBVIOUS
  <2>1. todo = <<>> => ToSet(todo) = {}
    BY DEF ToSet
  <2>2. NoSilentLeftover
    BY <2>1 DEF NoSilentLeftover, ReportInv, NothingMissed, Done
  <2> QED
    BY <2>2 DEF ReportTrue, ReportInv, DeletedGone
<1> QED
  BY <1>1, SafeInvariant, ReportInvariant, PTL

\* What holds for the empty program and for two programs one after the other holds for a loop
LEMMA EachClosed ==
  ASSUME NEW G, <<>> \in G, \A a, b \in G : a \o b \in G, NEW S, IsFiniteSet(S), NEW body,
         body = [x \in S |-> body[x]], \A x \in S : body[x] \in G
  PROVE  Each(body) \in G
<1> DEFINE list == SetToSeq(S)
           seqs == [i \in DOMAIN list |-> body[list[i]]]
<1>1. list \in Seq(S)
  BY ListOf
<1>2. DOMAIN list = 1..Len(list) /\ Len(list) \in Nat /\ \A i \in 1..Len(list) : list[i] \in S
  BY <1>1
<1>3. DOMAIN body = S
  OBVIOUS
<1> HIDE DEF list
<1>4. Each(body) = FlattenSeq(seqs)
  BY <1>3 DEF Each, list
<1>5. seqs \in Seq(G)
  <2>1. \A i \in 1..Len(list) : body[list[i]] \in G
    BY <1>2
  <2> QED
    BY <1>2, <2>1
<1> HIDE DEF seqs
<1> QED
  BY <1>4, <1>5, FlattenClosed

-----------------------------------------------------------------------------
(* The order of deletions: segments between two waits *)

\* What goes before a network and may go together, in any order
Parts == {"firewall", "fr", "hp", "subnet", "route"}

\* The kinds of which two deletions may be under way at a time
Together(k, m) ==
  \/ k = m
  \/ k \in Parts /\ m \in Parts
  \/ k = "hp" /\ m \in {"um", "hc"}
  \/ m = "hp" /\ k \in {"um", "hc"}
  \/ k \in {"rneg", "zneg"} /\ m \in {"rneg", "zneg"}

Fit(K, M) == \A k \in K : \A m \in M : Together(k, m)

\* The kinds an instruction may start to delete before it waits for anything
Lead(ins) ==
  CASE ins[1] = "del" -> {Kind(ins[2])}
    [] ins[1] = "instances" -> {"instance"}
    [] ins[1] = "disks" -> {"disk"}
    [] ins[1] = "images" -> {"image"}
    [] ins[1] = "machineImages" -> {"machineImage"}
    [] ins[1] = "snapshots" -> {"snapshot"}
    [] ins[1] = "guestPolicies" -> {"guestPolicy"}
    [] ins[1] \in {"osPolicies", "deleteOSPolicies"} -> {"osPolicy"}
    [] ins[1] \in {"lb", "lbFR", "snFR"} -> {"fr"}
    [] ins[1] \in {"lbBS", "lbUM", "lbHP", "snBS", "snUM", "snHP"} -> {"hp"}
    [] ins[1] \in {"rneg", "zneg"} -> {ins[1]}
    [] ins[1] = "networks" -> {"firewall", "fr", "hp", "route"}
    [] OTHER -> {}

\* The kinds it may leave under way
Trail(ins) ==
  CASE ins[1] = "del" -> {Kind(ins[2])}
    [] ins[1] \in {"lbFR", "snFR"} -> {"fr"}
    [] ins[1] \in {"lbHP", "snHP"} -> {"hp"}
    [] ins[1] \in {"lbUM", "snUM"} -> {"um"}
    [] ins[1] = "snBS" -> {"hc"}
    [] ins[1] \in {"rneg", "zneg"} -> {ins[1]}
    [] OTHER -> {}

\* No wait at the positions from i to k
NoWait(p, i, k) == \A m \in i..k : p[m] # <<"wait">>

\* The instructions of p up to its first wait, and those from its last one
Opening(p) == {x \in ToSet(p) : \E j \in 1..Len(p) : x = p[j] /\ NoWait(p, 1, j - 1)}
Closing(p) == {x \in ToSet(p) : \E j \in 1..Len(p) : x = p[j] /\ NoWait(p, j + 1, Len(p))}

\* What one instruction leaves under way may go together with what a later one starts,
\* unless there is a wait between them
Apart(p) ==
  \A i, j \in 1..Len(p) : i < j /\ NoWait(p, i + 1, j - 1) => Fit(Trail(p[i]), Lead(p[j]))

\* Positions of two programs one after the other
LEMMA ThenAt ==
  ASSUME NEW T, NEW p \in Seq(T), NEW q \in Seq(T)
  PROVE  /\ p \o q \in Seq(T)
         /\ Len(p) \in Nat /\ Len(q) \in Nat /\ Len(p \o q) = Len(p) + Len(q)
         /\ \A i \in 1..Len(p) : (p \o q)[i] = p[i]
         /\ \A i \in 1..Len(q) : (p \o q)[Len(p) + i] = q[i]
         /\ \A i \in 1..Len(p \o q) :
              i \in 1..Len(p) \/ (i - Len(p) \in 1..Len(q) /\ (p \o q)[i] = q[i - Len(p)])
<1>1. /\ p \o q \in Seq(T)
      /\ Len(p) \in Nat /\ Len(q) \in Nat /\ Len(p \o q) = Len(p) + Len(q)
      /\ \A i \in 1..Len(p) : (p \o q)[i] = p[i]
      /\ \A i \in 1..Len(q) : (p \o q)[Len(p) + i] = q[i]
  OBVIOUS
<1>2. ASSUME NEW i \in 1..Len(p \o q), i \notin 1..Len(p)
      PROVE  i - Len(p) \in 1..Len(q) /\ (p \o q)[i] = q[i - Len(p)]
  <2>1. i - Len(p) \in 1..Len(q) /\ Len(p) + (i - Len(p)) = i
    BY <1>1, <1>2
  <2> QED
    BY <1>1, <2>1
<1> QED
  BY <1>1, <1>2

\* The positions of a program are where its instructions are
LEMMA SetAt ==
  ASSUME NEW T, NEW p \in Seq(T)
  PROVE  /\ \A i \in 1..Len(p) : p[i] \in ToSet(p) /\ p[i] \in T
         /\ \A x \in ToSet(p) : \E i \in 1..Len(p) : x = p[i]
<1>1. DOMAIN p = 1..Len(p) /\ \A i \in 1..Len(p) : p[i] \in T
  OBVIOUS
<1> QED
  BY <1>1 DEF ToSet

\* Programs one after the other begin like the first one, and go on as the second one if the
\* first has no wait
LEMMA OpeningThen ==
  ASSUME NEW T, NEW p \in Seq(T), NEW q \in Seq(T), NEW x \in Opening(p \o q)
  PROVE  x \in Opening(p) \/ (x \in Opening(q) /\ <<"wait">> \notin ToSet(p))
<1> DEFINE u == p \o q
<1>1. /\ Len(p) \in Nat /\ Len(q) \in Nat /\ Len(u) = Len(p) + Len(q)
      /\ \A i \in 1..Len(p) : u[i] = p[i]
      /\ \A i \in 1..Len(q) : u[Len(p) + i] = q[i]
      /\ \A i \in 1..Len(u) : i \in 1..Len(p) \/ (i - Len(p) \in 1..Len(q) /\ u[i] = q[i - Len(p)])
  BY ThenAt
<1>2. PICK j \in 1..Len(u) : x = u[j] /\ NoWait(u, 1, j - 1)
  BY DEF Opening
<1> HIDE DEF u
<1>3. CASE j \in 1..Len(p)
  <2>1. \A m \in 1..(j - 1) : m \in 1..Len(p)
    BY <1>1, <1>3
  <2>2. NoWait(p, 1, j - 1) /\ x = p[j]
    BY <1>1, <1>2, <1>3, <2>1 DEF NoWait
  <2> QED
    BY <1>3, <2>2, SetAt DEF Opening
<1>4. CASE j \notin 1..Len(p)
  <2>1. j - Len(p) \in 1..Len(q) /\ x = q[j - Len(p)]
    BY <1>1, <1>2, <1>4
  <2>2. ASSUME NEW m \in 1..(j - Len(p) - 1) PROVE q[m] # <<"wait">>
    <3>1. m \in 1..Len(q) /\ Len(p) + m \in 1..(j - 1)
      BY <1>1, <1>4
    <3> QED
      BY <1>1, <1>2, <3>1 DEF NoWait
  <2>3. x \in Opening(q)
    BY <2>1, <2>2, SetAt DEF Opening, NoWait
  <2>4. \A m \in 1..Len(p) : m \in 1..(j - 1)
    BY <1>1, <1>4
  <2>5. <<"wait">> \notin ToSet(p)
    BY <1>1, <1>2, <2>4, SetAt DEF NoWait
  <2> QED
    BY <2>3, <2>5
<1> QED
  BY <1>3, <1>4

\* They end like the second one, and before that as the first one if the second has no wait
LEMMA ClosingThen ==
  ASSUME NEW T, NEW p \in Seq(T), NEW q \in Seq(T), NEW x \in Closing(p \o q)
  PROVE  x \in Closing(q) \/ (x \in Closing(p) /\ <<"wait">> \notin ToSet(q))
<1> DEFINE u == p \o q
<1>1. /\ Len(p) \in Nat /\ Len(q) \in Nat /\ Len(u) = Len(p) + Len(q)
      /\ \A i \in 1..Len(p) : u[i] = p[i]
      /\ \A i \in 1..Len(q) : u[Len(p) + i] = q[i]
      /\ \A i \in 1..Len(u) : i \in 1..Len(p) \/ (i - Len(p) \in 1..Len(q) /\ u[i] = q[i - Len(p)])
  BY ThenAt
<1>2. PICK j \in 1..Len(u) : x = u[j] /\ NoWait(u, j + 1, Len(u))
  BY DEF Closing
<1> HIDE DEF u
<1>3. CASE j \notin 1..Len(p)
  <2>1. j - Len(p) \in 1..Len(q) /\ x = q[j - Len(p)]
    BY <1>1, <1>2, <1>3
  <2>2. ASSUME NEW m \in (j - Len(p) + 1)..Len(q) PROVE q[m] # <<"wait">>
    <3>1. m \in 1..Len(q) /\ Len(p) + m \in (j + 1)..Len(u)
      BY <1>1, <1>3
    <3> QED
      BY <1>1, <1>2, <3>1 DEF NoWait
  <2> QED
    BY <2>1, <2>2, SetAt DEF Closing, NoWait
<1>4. CASE j \in 1..Len(p)
  <2>1. \A m \in (j + 1)..Len(p) : m \in 1..Len(p) /\ m \in (j + 1)..Len(u)
    BY <1>1, <1>4
  <2>2. NoWait(p, j + 1, Len(p)) /\ x = p[j]
    BY <1>1, <1>2, <1>4, <2>1 DEF NoWait
  <2>3. x \in Closing(p)
    BY <1>4, <2>2, SetAt DEF Closing
  <2>4. \A m \in 1..Len(q) : Len(p) + m \in (j + 1)..Len(u)
    BY <1>1, <1>4
  <2>5. \A m \in 1..Len(q) : q[m] # <<"wait">>
    BY <1>1, <1>2, <2>4 DEF NoWait
  <2>6. <<"wait">> \notin ToSet(q)
    BY <2>5, SetAt
  <2> QED
    BY <2>3, <2>6
<1> QED
  BY <1>3, <1>4

\* They stay apart when the end of the first fits the beginning of the second
LEMMA ApartThen ==
  ASSUME NEW T, NEW p \in Seq(T), NEW q \in Seq(T), Apart(p), Apart(q),
         \A x \in Closing(p) : \A y \in Opening(q) : Fit(Trail(x), Lead(y))
  PROVE  Apart(p \o q)
<1> DEFINE u == p \o q
<1>1. /\ Len(p) \in Nat /\ Len(q) \in Nat /\ Len(u) = Len(p) + Len(q)
      /\ \A i \in 1..Len(p) : u[i] = p[i]
      /\ \A i \in 1..Len(q) : u[Len(p) + i] = q[i]
      /\ \A i \in 1..Len(u) : i \in 1..Len(p) \/ (i - Len(p) \in 1..Len(q) /\ u[i] = q[i - Len(p)])
  BY ThenAt
<1> HIDE DEF u
<1> SUFFICES ASSUME NEW i \in 1..Len(u), NEW j \in 1..Len(u), i < j, NoWait(u, i + 1, j - 1)
             PROVE  Fit(Trail(u[i]), Lead(u[j]))
  BY DEF Apart, u
<1>2. CASE j \in 1..Len(p)
  <2>1. i \in 1..Len(p) /\ \A m \in (i + 1)..(j - 1) : m \in 1..Len(p)
    BY <1>1, <1>2
  <2>2. u[i] = p[i] /\ u[j] = p[j] /\ NoWait(p, i + 1, j - 1)
    BY <1>1, <1>2, <2>1 DEF NoWait
  <2> QED
    BY <1>2, <2>1, <2>2 DEF Apart
<1>3. CASE i \notin 1..Len(p)
  <2> DEFINE a == i - Len(p)
             b == j - Len(p)
  <2>1. a \in 1..Len(q) /\ b \in 1..Len(q) /\ a < b /\ u[i] = q[a] /\ u[j] = q[b]
    <3>1. i > Len(p) /\ j > Len(p) /\ i \in Nat /\ j \in Nat /\ Len(u) \in Nat
      BY <1>1, <1>3
    <3>2. j \notin 1..Len(p)
      BY <3>1
    <3>3. /\ i - Len(p) \in 1..Len(q) /\ u[i] = q[i - Len(p)]
          /\ j - Len(p) \in 1..Len(q) /\ u[j] = q[j - Len(p)]
      BY <1>1, <1>3, <3>2
    <3>4. i - Len(p) < j - Len(p)
      BY <1>1, <3>1
    <3> QED
      BY <3>3, <3>4
  <2>2. ASSUME NEW m \in (a + 1)..(b - 1) PROVE q[m] # <<"wait">>
    <3>1. m \in 1..Len(q) /\ Len(p) + m \in (i + 1)..(j - 1)
      BY <1>1, <2>1
    <3> QED
      BY <1>1, <3>1 DEF NoWait
  <2>3. NoWait(q, a + 1, b - 1)
    BY <2>2 DEF NoWait
  <2> HIDE DEF a, b
  <2> QED
    BY <2>1, <2>3 DEF Apart
<1>4. CASE i \in 1..Len(p) /\ j \notin 1..Len(p)
  <2> DEFINE b == j - Len(p)
  <2>1. b \in 1..Len(q) /\ u[j] = q[b] /\ u[i] = p[i]
    BY <1>1, <1>4
  <2>2. \A m \in (i + 1)..Len(p) : m \in 1..Len(p) /\ m \in (i + 1)..(j - 1)
    BY <1>1, <1>4
  <2>3. NoWait(p, i + 1, Len(p))
    BY <1>1, <2>2 DEF NoWait
  <2>4. p[i] \in Closing(p)
    BY <1>4, <2>3, SetAt DEF Closing
  <2>5. \A m \in 1..(b - 1) : m \in 1..Len(q) /\ Len(p) + m \in (i + 1)..(j - 1)
    BY <1>1, <1>4, <2>1
  <2>6. NoWait(q, 1, b - 1)
    BY <1>1, <2>5 DEF NoWait
  <2> HIDE DEF b
  <2>7. q[b] \in Opening(q)
    BY <2>1, <2>6, SetAt DEF Opening
  <2> QED
    BY <2>1, <2>4, <2>7
<1> QED
  BY <1>2, <1>3, <1>4

\* A program with instructions of C that starts deletions of the kinds L before it waits and
\* leaves those of the kinds M under way
Shape(p, C, L, M) ==
  /\ p \in Seq(C)
  /\ Apart(p)
  /\ \A x \in Opening(p) : Lead(x) \subseteq L
  /\ \A x \in Closing(p) : Trail(x) \subseteq M

\* Nothing at all
LEMMA ShapeNone ==
  ASSUME NEW C, NEW L, NEW M
  PROVE  Shape(<<>>, C, L, M)
<1>1. <<>> \in Seq(C) /\ 1..Len(<<>>) = {}
  OBVIOUS
<1>2. Opening(<<>>) = {} /\ Closing(<<>>) = {}
  BY <1>1 DEF Opening, Closing
<1> QED
  BY <1>1, <1>2 DEF Shape, Apart

\* One instruction
LEMMA ShapeOne ==
  ASSUME NEW C, NEW a \in C, NEW L, NEW M, Lead(a) \subseteq L, Trail(a) \subseteq M
  PROVE  Shape(<<a>>, C, L, M)
<1> DEFINE p == <<a>>
<1>1. p \in Seq(C) /\ Len(p) = 1 /\ \A i \in 1..1 : p[i] = a
  OBVIOUS
<1> HIDE DEF p
<1>2. \A x \in Opening(p) \cup Closing(p) : x = a
  BY <1>1 DEF Opening, Closing
<1>3. Apart(p)
  BY <1>1 DEF Apart
<1> QED
  BY <1>1, <1>2, <1>3 DEF Shape, p

\* Two programs that may run into each other
LEMMA ShapeThen ==
  ASSUME NEW C, NEW p, NEW q, NEW L1, NEW L2, NEW M1, NEW M2, NEW L, NEW M,
         Shape(p, C, L1, M1), Shape(q, C, L2, M2), Fit(M1, L2),
         L1 \subseteq L, L2 \subseteq L, M1 \subseteq M, M2 \subseteq M
  PROVE  Shape(p \o q, C, L, M)
<1>1. p \in Seq(C) /\ q \in Seq(C) /\ Apart(p) /\ Apart(q)
  BY DEF Shape
<1>2. p \o q \in Seq(C)
  BY <1>1, ThenAt
<1>3. \A x \in Closing(p) : \A y \in Opening(q) : Fit(Trail(x), Lead(y))
  BY DEF Shape, Fit
<1>4. Apart(p \o q)
  BY <1>1, <1>3, ApartThen
<1>5. \A x \in Opening(p \o q) : Lead(x) \subseteq L
  BY <1>1, OpeningThen DEF Shape
<1>6. \A x \in Closing(p \o q) : Trail(x) \subseteq M
  BY <1>1, ClosingThen DEF Shape
<1> QED
  BY <1>2, <1>4, <1>5, <1>6 DEF Shape

\* A wait at the end
LEMMA ShapeWait ==
  ASSUME NEW C, <<"wait">> \in C, NEW p, NEW L, NEW M, Shape(p, C, L, M)
  PROVE  Shape(p \o Wait, C, L, {}) /\ <<"wait">> \in ToSet(p \o Wait)
<1> DEFINE w == <<"wait">>
<1>1. Lead(w) = {} /\ Trail(w) = {} /\ w[1] = "wait"
  BY DEF Lead, Trail
<1>2. Wait = <<w>> /\ w \in C /\ w = <<"wait">>
  BY DEF Wait
<1> HIDE DEF w
<1>3. Shape(Wait, C, {}, {})
  BY <1>1, <1>2, ShapeOne
<1>4. ToSet(Wait) = {w} /\ Wait \in Seq(C)
  BY <1>2 DEF ToSet
<1>5. Shape(p \o Wait, C, L, M)
  BY <1>3, ShapeThen DEF Fit
<1>6. p \in Seq(C)
  BY DEF Shape
<1>7. w \in ToSet(p \o Wait)
  BY <1>4, <1>6, ConcatSet
<1>8. \A x \in Closing(p \o Wait) : Trail(x) \subseteq {}
  BY <1>2, <1>3, <1>4, <1>6, ClosingThen DEF Shape
<1> QED
  BY <1>2, <1>5, <1>7, <1>8 DEF Shape

\* Two programs with a wait between them
LEMMA ShapeAfter ==
  ASSUME NEW C, <<"wait">> \in C, NEW p, NEW q, NEW L, NEW L2, NEW M1, NEW M,
         Shape(p, C, L, M1), Shape(q, C, L2, M)
  PROVE  Shape(p \o Wait \o q, C, L, M)
<1> DEFINE a == p \o Wait
<1>1. Shape(a, C, L, {}) /\ <<"wait">> \in ToSet(a)
  BY ShapeWait
<1> HIDE DEF a
<1>2. Shape(a \o q, C, L \cup L2, M)
  BY <1>1, ShapeThen DEF Fit
<1>3. a \in Seq(C) /\ q \in Seq(C)
  BY <1>1 DEF Shape
<1>4. \A x \in Opening(a \o q) : Lead(x) \subseteq L
  BY <1>1, <1>3, OpeningThen DEF Shape
<1> QED
  BY <1>2, <1>4 DEF Shape, a

\* A loop over such programs
LEMMA ShapeEach ==
  ASSUME NEW C, NEW L, NEW M, Fit(M, L), NEW S, IsFiniteSet(S), NEW body,
         body = [x \in S |-> body[x]], \A x \in S : Shape(body[x], C, L, M)
  PROVE  Shape(Each(body), C, L, M)
<1> DEFINE G == {p \in Seq(C) : Shape(p, C, L, M)}
<1>1. <<>> \in G
  BY ShapeNone
<1>2. ASSUME NEW a \in G, NEW b \in G PROVE a \o b \in G
  <2>1. Shape(a \o b, C, L, M)
    BY ShapeThen
  <2> QED
    BY <2>1 DEF Shape
<1>3. \A x \in S : body[x] \in G
  BY DEF Shape
<1> HIDE DEF G
<1>4. Each(body) \in G
  BY <1>1, <1>2, <1>3, EachClosed
<1> QED
  BY <1>4 DEF G

\* Deletions of one kind
LEMMA ShapeDels ==
  ASSUME NEW C, NEW k, NEW S, S \subseteq Resource, \A r \in S : <<"del", r>> \in C /\ Kind(r) = k
  PROVE  Shape(Dels(S), C, {k}, {k})
<1> DEFINE p == Dels(S)
<1>1. p \in Seq({"del"} \X S)
  BY DelsAll
<1>2. \A i \in 1..Len(p) : p[i] \in {"del"} \X S
  BY <1>1, SetAt
<1>3. p \in Seq(C)
  BY <1>1, <1>2
<1> HIDE DEF p
<1>4. \A x \in {"del"} \X S : Lead(x) = {k} /\ Trail(x) = {k}
  BY DEF Lead, Trail
<1>5. Fit({k}, {k})
  BY DEF Fit, Together
<1>6. Apart(p)
  BY <1>2, <1>4, <1>5 DEF Apart
<1>7. \A x \in Opening(p) \cup Closing(p) : x \in {"del"} \X S
  BY <1>2 DEF Opening, Closing
<1> QED
  BY <1>3, <1>4, <1>6, <1>7 DEF Shape, p

\* More may start and more may be left
LEMMA ShapeMore ==
  ASSUME NEW C, NEW p, NEW L1, NEW M1, NEW L, NEW M, Shape(p, C, L1, M1),
         L1 \subseteq L, M1 \subseteq M
  PROVE  Shape(p, C, L, M)
  BY DEF Shape

-----------------------------------------------------------------------------
(* The order of deletions: what a listing turns into *)

\* Before CleanNetworks only what the policy indicates is deleted
Early(K) ==
  {<<"wait">>, <<"instances">>, <<"disks">>, <<"lb">>}
    \cup ({"del"} \X {r \in Resource : Kind(r) \in K /\ Indicated(r)})
    \cup ({"lbFR", "lbBS", "lbUM", "lbHP"} \X Places)
    \cup ({"rneg", "zneg"} \X Places \X (Resource \cup {None}))

\* CleanNetworks
Late(K) ==
  {<<"wait">>}
    \cup ({"del"} \X {r \in Resource : Kind(r) \in K})
    \cup ({"snFR", "snBS", "snUM", "snHP", "rneg", "zneg"} \X Places \X Resource)

\* The Clean functions that no clean-up of a workflow calls
LibraryCode ==
  {<<"wait">>, <<"images">>, <<"machineImages">>, <<"snapshots">>, <<"guestPolicies">>,
   <<"osPolicies">>, <<"deleteOSPolicies">>}
    \cup ({"del"} \X {r \in Resource :
            Kind(r) \in {"image", "machineImage", "snapshot", "guestPolicy", "osPolicy"}})
    \cup ({"osZone"} \X Places)

\* The kinds deleted there that wait for nothing, and all of them
EarlyKinds == {"instance", "disk", "fr", "hp", "bs", "rneg", "zneg"}
AllEarly == EarlyKinds \cup {"um"}
LateKinds == {"fr", "hp", "bs", "hc", "rneg", "zneg"}
AllLate == LateKinds \cup {"um", "firewall", "subnet", "route", "network"}

\* A list that is kept is one of its kind and region
LEMMA CachedKind ==
  ASSUME SafeInv, TypeOK, NEW k, NEW g, NEW r \in Cached(k, g)
  PROVE  r \in Resource /\ Kind(r) = k /\ Attr[r].region = g
<1> DEFINE key == <<k, g>>
<1>1. key[1] = k /\ key[2] = g
  OBVIOUS
<1>2. r \in Resource
  BY CachedResources
<1>3. CASE key \in DOMAIN cache
  <2>1. Cached(k, g) = cache[key]
    BY <1>3 DEF Cached
  <2> HIDE DEF key
  <2>2. Kind(r) = key[1] /\ Attr[r].region = key[2]
    BY <1>3, <2>1 DEF TypeOK
  <2> QED
    BY <1>1, <1>2, <2>2
<1>4. CASE key \notin DOMAIN cache
  BY <1>2, <1>4 DEF Cached, In, OfKind
<1> QED
  BY <1>3, <1>4

\* Two instructions
LEMMA ShapeTwo ==
  ASSUME NEW C, NEW a \in C, NEW b \in C, NEW L, NEW M, Lead(a) \cup Lead(b) \subseteq L,
         Trail(a) \cup Trail(b) \subseteq M, Fit(Trail(a), Lead(b))
  PROVE  Shape(<<a, b>>, C, L, M)
<1> DEFINE p == <<a, b>>
<1>1. p \in Seq(C) /\ Len(p) = 2 /\ p[1] = a /\ p[2] = b
  OBVIOUS
<1> HIDE DEF p
<1>2. \A i \in 1..Len(p) : i = 1 \/ i = 2
  BY <1>1
<1>3. \A x \in Opening(p) \cup Closing(p) : x = a \/ x = b
  BY <1>1, <1>2 DEF Opening, Closing
<1>4. Apart(p)
  BY <1>1, <1>2 DEF Apart
<1> QED
  BY <1>1, <1>3, <1>4 DEF Shape, p

\* What the policy indicates of a list, then wait
LEMMA SimpleShape ==
  ASSUME SafeInv, NEW k, NEW C, <<"wait">> \in C,
         \A r \in Resource : Kind(r) = k /\ Indicated(r) => <<"del", r>> \in C
  PROVE  Shape(Simple(k), C, {k}, {})
<1> DEFINE S == {r \in OfKind(k) : Indicated(r)}
<1>1. S \subseteq Resource /\ \A r \in S : <<"del", r>> \in C /\ Kind(r) = k
  BY DEF SafeInv, OfKind
<1>2. Simple(k) = Dels(S) \o Wait
  BY DEF Simple
<1> HIDE DEF S
<1>3. Shape(Dels(S), C, {k}, {k})
  BY <1>1, ShapeDels
<1> QED
  BY <1>2, <1>3, ShapeWait

\* Endpoint groups
LEMMA GroupShape ==
  ASSUME SafeInv, NEW k, NEW g, NEW n, NEW C,
         \A r \in Resource : Kind(r) = k /\ Indicated(r) => <<"del", r>> \in C
  PROVE  Shape(NEGs(k, g, n), C, {k}, {k})
<1> DEFINE S == {r \in In(k, g) : (n = None \/ Attr[r].network = n) /\ Indicated(r)}
<1>1. S \subseteq Resource /\ \A r \in S : <<"del", r>> \in C /\ Kind(r) = k
  BY DEF SafeInv, In, OfKind
<1>2. NEGs(k, g, n) = Dels(S)
  BY DEF NEGs
<1> HIDE DEF S
<1> QED
  BY <1>1, <1>2, ShapeDels

\* The instructions of a region before CleanNetworks
LEMMA EarlyAtoms ==
  ASSUME NEW g \in Places, NEW K
  PROVE  /\ <<"wait">> \in Early(K)
         /\ <<"lbFR", g>> \in Early(K) /\ <<"lbBS", g>> \in Early(K)
         /\ <<"lbUM", g>> \in Early(K) /\ <<"lbHP", g>> \in Early(K)
         /\ <<"rneg", g, None>> \in Early(K) /\ <<"zneg", g, None>> \in Early(K)
         /\ \A r \in Resource : Kind(r) \in K /\ Indicated(r) => <<"del", r>> \in Early(K)
BY DEF Early

\* What lists start and leave
LEMMA EarlyLeads ==
  ASSUME NEW g
  PROVE  /\ Lead(<<"lbFR", g>>) = {"fr"} /\ Trail(<<"lbFR", g>>) = {"fr"}
         /\ Lead(<<"lbBS", g>>) = {"hp"} /\ Trail(<<"lbBS", g>>) = {}
         /\ Lead(<<"lbUM", g>>) = {"hp"} /\ Trail(<<"lbUM", g>>) = {"um"}
         /\ Lead(<<"lbHP", g>>) = {"hp"} /\ Trail(<<"lbHP", g>>) = {"hp"}
BY DEF Lead, Trail

\* Those of networks, and of endpoint groups in both
LEMMA LateLeads ==
  ASSUME NEW g, NEW x
  PROVE  /\ Lead(<<"snFR", g, x>>) = {"fr"} /\ Trail(<<"snFR", g, x>>) = {"fr"}
         /\ Lead(<<"snBS", g, x>>) = {"hp"} /\ Trail(<<"snBS", g, x>>) = {"hc"}
         /\ Lead(<<"snUM", g, x>>) = {"hp"} /\ Trail(<<"snUM", g, x>>) = {"um"}
         /\ Lead(<<"snHP", g, x>>) = {"hp"} /\ Trail(<<"snHP", g, x>>) = {"hp"}
         /\ Lead(<<"rneg", g, x>>) = {"rneg"} /\ Trail(<<"rneg", g, x>>) = {"rneg"}
         /\ Lead(<<"zneg", g, x>>) = {"zneg"} /\ Trail(<<"zneg", g, x>>) = {"zneg"}
BY DEF Lead, Trail

\* CleanLoadBalancerResources: the rules, then region by region
LEMMA BalancerShape ==
  ASSUME SafeInv
  PROVE  Shape(CleanLoadBalancerResources, Early(EarlyKinds), {"fr"}, {})
<1> DEFINE C == Early(EarlyKinds)
           S == {r \in OfKind("fr") : Indicated(r)}
           body == [g \in scanned |-> lbRegion(g)]
<1>1. S \subseteq Resource /\ \A r \in S : <<"del", r>> \in C /\ Kind(r) = "fr"
  BY DEF SafeInv, OfKind, Early, EarlyKinds
<1>2. IsFiniteSet(scanned) /\ scanned \subseteq Places
  BY CleanupAssumption DEF scanned, Places, SafeInv
<1>3. <<"wait">> \in C
  BY DEF Early
<1>4. \A g \in scanned : Shape(lbRegion(g), C, {"fr", "hp"}, {})
  <2> TAKE g \in scanned
  <2>1. /\ <<"lbFR", g>> \in C /\ <<"lbBS", g>> \in C
        /\ <<"rneg", g, None>> \in C /\ <<"zneg", g, None>> \in C
    BY <1>2, EarlyAtoms
  <2> HIDE DEF C
  <2>2. Shape(<<<<"lbFR", g>>, <<"lbBS", g>>>>, C, {"fr", "hp"}, {"fr"})
    BY <2>1, EarlyLeads, ShapeTwo DEF Fit, Together, Parts
  <2>3. Shape(<<<<"rneg", g, None>>, <<"zneg", g, None>>>>, C, {"rneg", "zneg"}, {"rneg", "zneg"})
    <3>1. /\ Lead(<<"rneg", g, None>>) = {"rneg"} /\ Trail(<<"rneg", g, None>>) = {"rneg"}
          /\ Lead(<<"zneg", g, None>>) = {"zneg"} /\ Trail(<<"zneg", g, None>>) = {"zneg"}
      BY LateLeads, Zenon
    <3>2. Fit({"rneg"}, {"zneg"})
      BY DEF Fit, Together
    <3> QED
      BY <2>1, <3>1, <3>2, ShapeTwo
  <2>4. Shape(<<<<"lbFR", g>>, <<"lbBS", g>>>> \o Wait \o <<<<"rneg", g, None>>, <<"zneg", g, None>>>>,
              C, {"fr", "hp"}, {"rneg", "zneg"})
    BY <1>3, <2>2, <2>3, ShapeAfter, Zenon
  <2> QED
    BY <1>3, <2>4, ShapeWait, Zenon DEF lbRegion
<1>5. CleanLoadBalancerResources = Dels(S) \o Wait \o Each(body)
  BY DEF CleanLoadBalancerResources
<1>6. body = [g \in scanned |-> body[g]] /\ \A g \in scanned : body[g] = lbRegion(g)
  OBVIOUS
<1> HIDE DEF C, S, body
<1>7. Shape(Dels(S), C, {"fr"}, {"fr"})
  BY <1>1, ShapeDels
<1>8. Shape(Each(body), C, {"fr", "hp"}, {})
  BY <1>2, <1>4, <1>6, ShapeEach DEF Fit
<1>9. Shape(Dels(S) \o Wait \o Each(body), C, {"fr"}, {})
  BY <1>3, <1>7, <1>8, ShapeAfter
<1> QED
  BY <1>5, <1>9 DEF C

\* The lists of a region of which the policy decides
LEMMA ListShapes ==
  ASSUME SafeInv, TypeOK, NEW g
  PROVE  /\ Shape(lbFR(g), Early(EarlyKinds), {"fr"}, {"fr"})
         /\ Shape(lbHP(g), Early(EarlyKinds), {"hp"}, {"hp"})
<1> DEFINE C == Early(EarlyKinds)
<1>1. \A r \in Resource : Kind(r) \in {"fr", "hp"} /\ Indicated(r) => <<"del", r>> \in C
  BY DEF Early, EarlyKinds
<1> HIDE DEF C
<1>2. Shape(lbFR(g), C, {"fr"}, {"fr"})
  <2> DEFINE S == {r \in Cached("fr", g) : Indicated(r)}
  <2>1. S \subseteq Resource /\ \A r \in S : <<"del", r>> \in C /\ Kind(r) = "fr"
    BY <1>1, CachedKind
  <2> HIDE DEF S
  <2> QED
    BY <2>1, ShapeDels DEF lbFR, S
<1>3. Shape(lbHP(g), C, {"hp"}, {"hp"})
  <2> DEFINE S == {h \in Cached("hp", g) : Indicated(h)}
  <2>1. S \subseteq Resource /\ \A r \in S : <<"del", r>> \in C /\ Kind(r) = "hp"
    BY <1>1, CachedKind
  <2> HIDE DEF S
  <2> QED
    BY <2>1, ShapeDels DEF lbHP, S
<1> QED
  BY <1>2, <1>3 DEF C

\* Backend services wait for their URL maps
LEMMA ServiceShape ==
  ASSUME SafeInv, TypeOK, NEW g \in Places
  PROVE  Shape(lbBS(g), Early(EarlyKinds), {"hp"}, {})
<1> DEFINE C == Early(EarlyKinds)
           S == {s \in Cached("bs", g) : Indicated(s)}
           body == [b \in S |-> lbBackend(g, b)]
<1>1. /\ S \subseteq Resource /\ IsFiniteSet(S)
      /\ \A b \in S : Kind(b) = "bs" /\ <<"del", b>> \in C
  BY CachedKind, CachedResources, FS_Subset DEF Early, EarlyKinds
<1>2. <<"wait">> \in C /\ <<"lbUM", g>> \in C
  BY EarlyAtoms
<1>3. lbBS(g) = Each(body) /\ body = [b \in S |-> body[b]] /\ \A b \in S : body[b] = lbBackend(g, b)
  BY DEF lbBS
<1> HIDE DEF C, S, body
<1>4. ASSUME NEW b \in S PROVE Shape(lbBackend(g, b), C, {"hp"}, {})
  <2>1. Shape(Dels({b}), C, {"bs"}, {"bs"})
    BY <1>1, ShapeDels
  <2>2. Shape(<<<<"lbUM", g>>>>, C, {"hp"}, {"um"})
    BY <1>2, EarlyLeads, ShapeOne
  <2>3. Shape(<<<<"lbUM", g>>>> \o Wait \o Dels({b}), C, {"hp"}, {"bs"})
    BY <1>2, <2>1, <2>2, ShapeAfter, Zenon
  <2> QED
    BY <1>2, <2>3, ShapeWait, Zenon DEF lbBackend
<1>5. Shape(Each(body), C, {"hp"}, {})
  BY <1>1, <1>3, <1>4, ShapeEach DEF Fit
<1> QED
  BY <1>3, <1>5 DEF C

\* URL maps wait for their proxies, and the next one does not wait for the last
LEMMA MapShape ==
  ASSUME SafeInv, TypeOK, NEW g \in Places
  PROVE  Shape(lbUM(g), Early(AllEarly), {"hp"}, {"um"})
<1> DEFINE C == Early(AllEarly)
           S == {m \in Cached("um", g) : Indicated(m)}
           body == [u \in S |-> lbURLMap(g, u)]
<1>1. /\ S \subseteq Resource /\ IsFiniteSet(S)
      /\ \A u \in S : Kind(u) = "um" /\ <<"del", u>> \in C
  BY CachedKind, CachedResources, FS_Subset DEF Early, AllEarly
<1>2. <<"wait">> \in C /\ <<"lbHP", g>> \in C
  BY EarlyAtoms
<1>3. lbUM(g) = Each(body) /\ body = [u \in S |-> body[u]] /\ \A u \in S : body[u] = lbURLMap(g, u)
  BY DEF lbUM
<1> HIDE DEF C, S, body
<1>4. ASSUME NEW u \in S PROVE Shape(lbURLMap(g, u), C, {"hp"}, {"um"})
  <2>1. Shape(Dels({u}), C, {"um"}, {"um"})
    BY <1>1, ShapeDels
  <2>2. Shape(<<<<"lbHP", g>>>>, C, {"hp"}, {"hp"})
    BY <1>2, EarlyLeads, ShapeOne
  <2> QED
    BY <1>2, <2>1, <2>2, ShapeAfter, Zenon DEF lbURLMap
<1>5. Shape(Each(body), C, {"hp"}, {"um"})
  BY <1>1, <1>3, <1>4, ShapeEach DEF Fit, Together
<1> QED
  BY <1>3, <1>5 DEF C

\* More kinds, more code
LEMMA CodeMono ==
  ASSUME NEW K1, NEW K2, K1 \subseteq K2, NEW p, NEW L, NEW M
  PROVE  /\ Shape(p, Early(K1), L, M) => Shape(p, Early(K2), L, M)
         /\ Shape(p, Late(K1), L, M) => Shape(p, Late(K2), L, M)
<1>1. Early(K1) \subseteq Early(K2) /\ Late(K1) \subseteq Late(K2)
  BY DEF Early, Late
<1>2. ASSUME NEW A, NEW B, A \subseteq B, p \in Seq(A) PROVE p \in Seq(B)
  BY <1>2
<1> QED
  BY <1>1, <1>2 DEF Shape

\* What an instruction before CleanNetworks turns into
LEMMA EarlyShape ==
  ASSUME SafeInv, TypeOK, NEW ins \in Early(AllEarly), Lists(ins)
  PROVE  /\ Shape(Expansion(ins), Early(AllEarly), Lead(ins), Trail(ins))
         /\ ins[1] # "lbUM" => Shape(Expansion(ins), Early(EarlyKinds), Lead(ins), Trail(ins))
<1> DEFINE Goal == ins[1] # "lbUM" /\ Shape(Expansion(ins), Early(EarlyKinds), Lead(ins), Trail(ins))
<1>0. ASSUME Goal PROVE Shape(Expansion(ins), Early(AllEarly), Lead(ins), Trail(ins))
  BY <1>0, CodeMono DEF AllEarly
<1>1. CASE ins \in {<<"instances">>, <<"disks">>}
  <2> DEFINE C == Early(EarlyKinds)
  <2>1. /\ <<"wait">> \in C
        /\ \A r \in Resource : Kind(r) \in {"instance", "disk"} /\ Indicated(r) => <<"del", r>> \in C
    BY DEF Early, EarlyKinds
  <2> HIDE DEF C
  <2>2. Shape(Simple("instance"), C, {"instance"}, {}) /\ Shape(Simple("disk"), C, {"disk"}, {})
    BY <2>1, SimpleShape
  <2>3. \/ /\ ins[1] = "instances" /\ Expansion(ins) = Simple("instance")
           /\ Lead(ins) = {"instance"} /\ Trail(ins) = {}
        \/ /\ ins[1] = "disks" /\ Expansion(ins) = Simple("disk")
           /\ Lead(ins) = {"disk"} /\ Trail(ins) = {}
    BY <1>1 DEF Expansion, CleanInstances, CleanDisks, Lead, Trail
  <2>4. Goal
    BY <2>2, <2>3 DEF C
  <2> QED
    BY <1>0, <2>4
<1>2. CASE ins = <<"lb">>
  <2>1. /\ ins[1] = "lb" /\ Expansion(ins) = CleanLoadBalancerResources
        /\ Lead(ins) = {"fr"} /\ Trail(ins) = {}
    BY <1>2 DEF Expansion, Lead, Trail
  <2>2. Goal
    BY <2>1, BalancerShape
  <2> QED
    BY <1>0, <2>2
<1>3. CASE ins \in {"lbFR", "lbBS", "lbUM", "lbHP"} \X Places
  <2> DEFINE g == ins[2]
  <2>1. g \in Places /\ ins[1] \in {"lbFR", "lbBS", "lbUM", "lbHP"} /\ ins = <<ins[1], g>>
    BY <1>3
  <2> HIDE DEF g
  <2>2. CASE ins[1] = "lbFR"
    <3>1. Expansion(ins) = lbFR(g) /\ Lead(ins) = {"fr"} /\ Trail(ins) = {"fr"}
      BY <2>2 DEF Expansion, Lead, Trail, g
    <3>2. Goal
      BY <2>2, <3>1, ListShapes
    <3> QED
      BY <1>0, <3>2
  <2>3. CASE ins[1] = "lbHP"
    <3>1. Expansion(ins) = lbHP(g) /\ Lead(ins) = {"hp"} /\ Trail(ins) = {"hp"}
      BY <2>3 DEF Expansion, Lead, Trail, g
    <3>2. Goal
      BY <2>3, <3>1, ListShapes
    <3> QED
      BY <1>0, <3>2
  <2>4. CASE ins[1] = "lbBS"
    <3>1. Expansion(ins) = lbBS(g) /\ Lead(ins) = {"hp"} /\ Trail(ins) = {}
      BY <2>4 DEF Expansion, Lead, Trail, g
    <3>2. Goal
      BY <2>1, <2>4, <3>1, ServiceShape
    <3> QED
      BY <1>0, <3>2
  <2>5. CASE ins[1] = "lbUM"
    <3>1. Expansion(ins) = lbUM(g) /\ Lead(ins) = {"hp"} /\ Trail(ins) = {"um"}
      BY <2>5 DEF Expansion, Lead, Trail, g
    <3> QED
      BY <2>1, <2>5, <3>1, MapShape
  <2> QED
    BY <2>1, <2>2, <2>3, <2>4, <2>5
<1>4. CASE ins \in {"rneg", "zneg"} \X Places \X (Resource \cup {None})
  <2>1. ins[1] \in {"rneg", "zneg"}
    BY <1>4
  <2>2. /\ Expansion(ins) = NEGs(ins[1], ins[2], ins[3])
        /\ Lead(ins) = {ins[1]} /\ Trail(ins) = {ins[1]}
    BY <2>1 DEF Expansion, Lead, Trail
  <2>3. \A r \in Resource : Kind(r) = ins[1] /\ Indicated(r) => <<"del", r>> \in Early(EarlyKinds)
    BY <2>1 DEF Early, EarlyKinds
  <2>4. Goal
    BY <2>1, <2>2, <2>3, GroupShape
  <2> QED
    BY <1>0, <2>4
<1>5. ASSUME ins \in {<<"wait">>} \cup ({"del"} \X Resource) PROVE FALSE
  BY <1>5 DEF Lists
<1> QED
  BY <1>1, <1>2, <1>3, <1>4, <1>5 DEF Early

\* The library lists policies zone by zone and deletes them afterwards
LEMMA PolicyShape ==
  ASSUME SafeInv, TypeOK, \A k \in DOMAIN cache : k[1] = "osPolicy"
  PROVE  /\ Shape(getOSPolicies, LibraryCode, {"osPolicy"}, {})
         /\ Shape(deleteOSPolicies, LibraryCode, {"osPolicy"}, {})
<1> DEFINE C == LibraryCode
<1>1. /\ <<"wait">> \in C /\ <<"deleteOSPolicies">> \in C
      /\ \A g \in Regions : <<"osZone", g>> \in C
      /\ \A r \in Resource : Kind(r) = "osPolicy" => <<"del", r>> \in C
  BY DEF LibraryCode, Places
<1> HIDE DEF C
<1>2. Shape(getOSPolicies, C, {"osPolicy"}, {})
  <2> DEFINE body == [g \in Regions |-> <<<<"osZone", g>>>>]
  <2>1. \A g : Lead(<<"osZone", g>>) = {} /\ Trail(<<"osZone", g>>) = {}
    BY DEF Lead, Trail
  <2>2. \A g \in Regions : Shape(<<<<"osZone", g>>>>, C, {}, {})
    BY <1>1, <2>1, ShapeOne
  <2>3. /\ body = [g \in Regions |-> body[g]] /\ \A g \in Regions : body[g] = <<<<"osZone", g>>>>
        /\ getOSPolicies = Each(body) \o <<<<"deleteOSPolicies">>>>
    BY DEF getOSPolicies
  <2> HIDE DEF body
  <2>4. Shape(Each(body), C, {}, {})
    <3>1. IsFiniteSet(Regions) /\ Fit({}, {})
      BY CleanupAssumption DEF Fit
    <3>2. \A g \in Regions : Shape(body[g], C, {}, {})
      BY <2>2, <2>3
    <3>3. body = [g \in Regions |-> body[g]]
      BY <2>3
    <3> QED
      BY <3>1, <3>2, <3>3, ShapeEach
  <2>5. /\ Lead(<<"deleteOSPolicies">>) = {"osPolicy"} /\ Trail(<<"deleteOSPolicies">>) = {}
    BY DEF Lead, Trail
  <2>6. Shape(<<<<"deleteOSPolicies">>>>, C, {"osPolicy"}, {})
    BY <1>1, <2>5, ShapeOne
  <2>7. Shape(Each(body) \o <<<<"deleteOSPolicies">>>>, C, {"osPolicy"}, {})
    BY <2>4, <2>6, ShapeThen DEF Fit
  <2> QED
    BY <2>3, <2>7
<1>3. Shape(deleteOSPolicies, C, {"osPolicy"}, {})
  <2> DEFINE S == {r \in UNION {cache[k] : k \in DOMAIN cache} : Indicated(r)}
  <2>1. S \subseteq Resource /\ \A r \in S : <<"del", r>> \in C /\ Kind(r) = "osPolicy"
    BY <1>1 DEF SafeInv, TypeOK
  <2>2. deleteOSPolicies = Dels(S) \o Wait
    BY DEF deleteOSPolicies
  <2> HIDE DEF S
  <2>3. Shape(Dels(S), C, {"osPolicy"}, {"osPolicy"})
    BY <2>1, ShapeDels
  <2> QED
    BY <1>1, <2>2, <2>3, ShapeWait
<1> QED
  BY <1>2, <1>3 DEF C

\* What an instruction of the library turns into
LEMMA LibraryShape ==
  ASSUME SafeInv, TypeOK, \A k \in DOMAIN cache : k[1] = "osPolicy",
         NEW ins \in LibraryCode, Lists(ins)
  PROVE  Shape(Expansion(ins), LibraryCode, Lead(ins), Trail(ins))
<1> DEFINE C == LibraryCode
           K == {"image", "machineImage", "snapshot", "guestPolicy"}
<1>1. <<"wait">> \in C /\ \A r \in Resource : Kind(r) \in K => <<"del", r>> \in C
  BY DEF LibraryCode
<1>2. CASE ins \in {<<"images">>, <<"machineImages">>, <<"snapshots">>, <<"guestPolicies">>}
  <2>1. \E k \in K : Expansion(ins) = Simple(k) /\ Lead(ins) = {k} /\ Trail(ins) = {}
    BY <1>2 DEF Expansion, Lead, Trail, CleanImages, CleanMachineImages, CleanSnapshots,
                CleanGuestPolicies
  <2> HIDE DEF C
  <2>2. \A k \in K : Shape(Simple(k), C, {k}, {})
    BY <1>1, SimpleShape
  <2> QED
    BY <2>1, <2>2 DEF C
<1>3. CASE ins \in {<<"osPolicies">>, <<"deleteOSPolicies">>}
  <2>1. /\ \/ ins[1] = "osPolicies" /\ Expansion(ins) = getOSPolicies
           \/ ins[1] = "deleteOSPolicies" /\ Expansion(ins) = deleteOSPolicies
        /\ Lead(ins) = {"osPolicy"} /\ Trail(ins) = {}
    BY <1>3 DEF Expansion, Lead, Trail
  <2> QED
    BY <2>1, PolicyShape
<1>4. CASE ins \in {"osZone"} \X Places
  <2>1. Expansion(ins) = <<>>
    BY <1>4 DEF Expansion
  <2> QED
    BY <2>1, ShapeNone
<1>5. ASSUME ins \in {<<"wait">>} \cup ({"del"} \X Resource) PROVE FALSE
  BY <1>5 DEF Lists
<1> QED
  BY <1>2, <1>3, <1>4, <1>5 DEF LibraryCode

\* The instructions of a region in CleanNetworks
LEMMA LateAtoms ==
  ASSUME NEW g \in Places, NEW x \in Resource, NEW K
  PROVE  /\ <<"wait">> \in Late(K)
         /\ <<"snFR", g, x>> \in Late(K) /\ <<"snBS", g, x>> \in Late(K)
         /\ <<"snUM", g, x>> \in Late(K) /\ <<"snHP", g, x>> \in Late(K)
         /\ <<"rneg", g, x>> \in Late(K) /\ <<"zneg", g, x>> \in Late(K)
BY DEF Late

\* Forwarding rules of a network, and proxies in front of a URL map
LEMMA NetListShapes ==
  ASSUME SafeInv, TypeOK, NEW g, NEW x
  PROVE  /\ Shape(snFR(g, x), Late(LateKinds), {"fr"}, {"fr"})
         /\ Shape(snHP(g, x), Late(LateKinds), {"hp"}, {"hp"})
<1> DEFINE C == Late(LateKinds)
<1>1. \A r \in Resource : Kind(r) \in {"fr", "hp"} => <<"del", r>> \in C
  BY DEF Late, LateKinds
<1> HIDE DEF C
<1>2. Shape(snFR(g, x), C, {"fr"}, {"fr"})
  <2> DEFINE S == {r \in Cached("fr", g) : Attr[r].network = x}
  <2>1. S \subseteq Resource /\ \A r \in S : <<"del", r>> \in C /\ Kind(r) = "fr"
    BY <1>1, CachedKind
  <2> HIDE DEF S
  <2> QED
    BY <2>1, ShapeDels DEF snFR, S
<1>3. Shape(snHP(g, x), C, {"hp"}, {"hp"})
  <2> DEFINE S == {h \in Cached("hp", g) : x \in Uses[h]}
  <2>1. S \subseteq Resource /\ \A r \in S : <<"del", r>> \in C /\ Kind(r) = "hp"
    BY <1>1, CachedKind
  <2> HIDE DEF S
  <2> QED
    BY <2>1, ShapeDels DEF snHP, S
<1> QED
  BY <1>2, <1>3 DEF C

\* Backend services of a network wait for their URL maps; their health checks are not waited for
LEMMA NetServiceShape ==
  ASSUME SafeInv, TypeOK, NEW g \in Places, NEW n
  PROVE  Shape(snBS(g, n), Late(LateKinds), {"hp"}, {"hc"})
<1> DEFINE C == Late(LateKinds)
           S == {s \in Cached("bs", g) : Attr[s].network = n}
           body == [b \in S |-> snBackend(g, b)]
<1>1. /\ S \subseteq Resource /\ IsFiniteSet(S) /\ \A b \in S : Kind(b) = "bs"
  BY CachedKind, CachedResources, FS_Subset
<1>2. /\ <<"wait">> \in C /\ \A b \in Resource : <<"snUM", g, b>> \in C
      /\ \A r \in Resource : Kind(r) \in {"bs", "hc"} => <<"del", r>> \in C
  BY DEF Late, LateKinds
<1>3. snBS(g, n) = Each(body) /\ body = [b \in S |-> body[b]] /\ \A b \in S : body[b] = snBackend(g, b)
  BY DEF snBS
<1> HIDE DEF C, S, body
<1>4. ASSUME NEW b \in S PROVE Shape(snBackend(g, b), C, {"hp"}, {"hc"})
  <2> DEFINE H == {h \in Uses[b] : Kind(h) = "hc"}
  <2>1. H \subseteq Resource /\ \A h \in H : <<"del", h>> \in C /\ Kind(h) = "hc"
    BY <1>1, <1>2, CleanupAssumption
  <2>2. snBackend(g, b) = <<<<"snUM", g, b>>>> \o Wait \o Dels({b}) \o Wait \o Dels(H)
    BY Zenon DEF snBackend
  <2> HIDE DEF H
  <2>3. Shape(Dels({b}), C, {"bs"}, {"bs"}) /\ Shape(Dels(H), C, {"hc"}, {"hc"})
    BY <1>1, <1>2, <2>1, ShapeDels
  <2>4. Shape(<<<<"snUM", g, b>>>>, C, {"hp"}, {"um"})
    <3>1. <<"snUM", g, b>> \in C
      BY <1>1, <1>2
    <3>2. Lead(<<"snUM", g, b>>) = {"hp"} /\ Trail(<<"snUM", g, b>>) = {"um"}
      BY LateLeads, Zenon
    <3> QED
      BY <3>1, <3>2, ShapeOne
  <2>5. Shape(<<<<"snUM", g, b>>>> \o Wait \o Dels({b}), C, {"hp"}, {"bs"})
    BY <1>2, <2>3, <2>4, ShapeAfter, Zenon
  <2>6. Shape(<<<<"snUM", g, b>>>> \o Wait \o Dels({b}) \o Wait \o Dels(H), C, {"hp"}, {"hc"})
    BY <1>2, <2>3, <2>5, ShapeAfter, Zenon
  <2> QED
    BY <2>2, <2>6
<1>5. Shape(Each(body), C, {"hp"}, {"hc"})
  BY <1>1, <1>3, <1>4, ShapeEach DEF Fit, Together
<1> QED
  BY <1>3, <1>5 DEF C

\* URL maps in front of a backend service
MapKinds == LateKinds \cup {"um"}

LEMMA NetMapShape ==
  ASSUME SafeInv, TypeOK, NEW g \in Places, NEW x
  PROVE  Shape(snUM(g, x), Late(MapKinds), {"hp"}, {"um"})
<1> DEFINE C == Late(MapKinds)
           S == {m \in Cached("um", g) : x \in Uses[m]}
           body == [u \in S |-> snURLMap(g, u)]
<1>1. /\ S \subseteq Resource /\ IsFiniteSet(S) /\ \A u \in S : Kind(u) = "um"
  BY CachedKind, CachedResources, FS_Subset
<1>2. /\ <<"wait">> \in C /\ \A u \in Resource : <<"snHP", g, u>> \in C
      /\ \A r \in Resource : Kind(r) = "um" => <<"del", r>> \in C
  BY DEF Late, MapKinds
<1>3. snUM(g, x) = Each(body) /\ body = [u \in S |-> body[u]] /\ \A u \in S : body[u] = snURLMap(g, u)
  BY DEF snUM
<1> HIDE DEF C, S, body
<1>4. ASSUME NEW u \in S PROVE Shape(snURLMap(g, u), C, {"hp"}, {"um"})
  <2>1. Shape(Dels({u}), C, {"um"}, {"um"})
    BY <1>1, <1>2, ShapeDels
  <2>2. Shape(<<<<"snHP", g, u>>>>, C, {"hp"}, {"hp"})
    <3>1. <<"snHP", g, u>> \in C
      BY <1>1, <1>2
    <3>2. Lead(<<"snHP", g, u>>) = {"hp"} /\ Trail(<<"snHP", g, u>>) = {"hp"}
      BY LateLeads, Zenon
    <3> QED
      BY <3>1, <3>2, ShapeOne
  <2> QED
    BY <1>2, <2>1, <2>2, ShapeAfter, Zenon DEF snURLMap
<1>5. Shape(Each(body), C, {"hp"}, {"um"})
  BY <1>1, <1>3, <1>4, ShapeEach DEF Fit, Together
<1> QED
  BY <1>3, <1>5 DEF C

\* The kinds a network takes along
PartKinds == LateKinds \cup {"firewall", "subnet", "route"}

\* A subnetwork goes after what is in its region
LEMMA SubnetShape ==
  ASSUME SafeInv, NEW n \in Resource, NEW s \in Resource, Kind(s) = "subnet"
  PROVE  Shape(cleanSubnetwork(n, s), Late(PartKinds), {"fr", "hp"}, {"subnet"})
<1> DEFINE C == Late(PartKinds)
           g == Attr[s].region
           front == <<<<"snFR", g, n>>, <<"snBS", g, n>>>>
           groups == <<<<"rneg", g, n>>, <<"zneg", g, n>>>>
<1>1. g \in Places
  BY DEF Places
<1>2. <<"del", s>> \in C
  BY DEF Late, PartKinds
<1>3. cleanSubnetwork(n, s) = front \o Wait \o groups \o Wait \o Dels({s})
  BY Zenon DEF cleanSubnetwork
<1> HIDE DEF g
<1>4. /\ <<"wait">> \in C /\ <<"snFR", g, n>> \in C /\ <<"snBS", g, n>> \in C
      /\ <<"rneg", g, n>> \in C /\ <<"zneg", g, n>> \in C
  BY <1>1, LateAtoms
<1> HIDE DEF C
<1>5. /\ Lead(<<"snFR", g, n>>) = {"fr"} /\ Trail(<<"snFR", g, n>>) = {"fr"}
      /\ Lead(<<"snBS", g, n>>) = {"hp"} /\ Trail(<<"snBS", g, n>>) = {"hc"}
      /\ Lead(<<"rneg", g, n>>) = {"rneg"} /\ Trail(<<"rneg", g, n>>) = {"rneg"}
      /\ Lead(<<"zneg", g, n>>) = {"zneg"} /\ Trail(<<"zneg", g, n>>) = {"zneg"}
  BY LateLeads, Zenon
<1>6. Fit({"fr"}, {"hp"}) /\ Fit({"rneg"}, {"zneg"})
  BY DEF Fit, Together, Parts
<1>7. Shape(front, C, {"fr", "hp"}, {"fr", "hc"})
  BY <1>4, <1>5, <1>6, ShapeTwo
<1>8. Shape(groups, C, {"rneg", "zneg"}, {"rneg", "zneg"})
  BY <1>4, <1>5, <1>6, ShapeTwo
<1>9. Shape(Dels({s}), C, {"subnet"}, {"subnet"})
  BY <1>2, ShapeDels
<1> HIDE DEF front, groups
<1>10. Shape(front \o Wait \o groups, C, {"fr", "hp"}, {"rneg", "zneg"})
  BY <1>4, <1>7, <1>8, ShapeAfter, Zenon
<1>11. Shape(front \o Wait \o groups \o Wait \o Dels({s}), C, {"fr", "hp"}, {"subnet"})
  BY <1>4, <1>9, <1>10, ShapeAfter, Zenon
<1> QED
  BY <1>3, <1>11 DEF C

\* What a network takes along, before the wait
netRoutes(n) == {r \in netMembers("route", n) : ~Attr[r].auto}
netSubnets(n) == {m \in netMembers("subnet", n) : ~Attr[m].auto}
netParts(n) ==
  Dels(netMembers("firewall", n))
    \o Each([s \in netSubnets(n) |-> cleanSubnetwork(n, s)]) \o Dels(netRoutes(n))

\* The parts of a network go together, the network after a wait
LEMMA NetworkShape ==
  ASSUME SafeInv, NEW n \in Resource, Kind(n) = "network"
  PROVE  /\ Shape(netParts(n), Late(PartKinds), {"firewall", "fr", "hp", "route"},
                  {"firewall", "subnet", "route"})
         /\ cleanNetwork(n) = netParts(n) \o Wait \o Dels({n}) \o Wait
         /\ Shape(cleanNetwork(n), Late(AllLate), {"firewall", "fr", "hp", "route"}, {})
<1> DEFINE C == Late(PartKinds)
           D == Late(AllLate)
           F == netMembers("firewall", n)
           R == netRoutes(n)
           S == netSubnets(n)
           body == [s \in S |-> cleanSubnetwork(n, s)]
<1>1. /\ F \subseteq Resource /\ R \subseteq Resource /\ S \subseteq Resource
      /\ \A r \in F : Kind(r) = "firewall" /\ <<"del", r>> \in C
      /\ \A r \in R : Kind(r) = "route" /\ <<"del", r>> \in C
      /\ \A r \in S : Kind(r) = "subnet"
      /\ <<"del", n>> \in D /\ <<"wait">> \in D
  BY DEF SafeInv, netMembers, netRoutes, netSubnets, OfKind, Late, PartKinds, AllLate
<1>2. IsFiniteSet(S)
  BY <1>1, CleanupAssumption, FS_Subset
<1>3. netParts(n) = Dels(F) \o Each(body) \o Dels(R)
  BY DEF netParts
<1>4. body = [s \in S |-> body[s]] /\ \A s \in S : body[s] = cleanSubnetwork(n, s)
  OBVIOUS
<1>5. \A s \in S : Shape(body[s], C, {"fr", "hp"}, {"subnet"})
  BY <1>1, <1>4, SubnetShape
<1>6. cleanNetwork(n) = netParts(n) \o Wait \o Dels({n}) \o Wait
  BY Zenon DEF cleanNetwork, netParts, netRoutes, netSubnets
<1> HIDE DEF C, D, F, R, S, body
<1>7. /\ Shape(Dels(F), C, {"firewall"}, {"firewall"}) /\ Shape(Dels(R), C, {"route"}, {"route"})
      /\ Shape(Dels({n}), D, {"network"}, {"network"})
  BY <1>1, ShapeDels
<1>8. Shape(Each(body), C, {"fr", "hp"}, {"subnet"})
  <2>1. Fit({"subnet"}, {"fr", "hp"})
    BY DEF Fit, Together, Parts
  <2> QED
    BY <1>2, <1>4, <1>5, <2>1, ShapeEach
<1>9. Fit({"firewall"}, {"fr", "hp"}) /\ Fit({"firewall", "subnet"}, {"route"})
  BY DEF Fit, Together, Parts
<1>10. Shape(Dels(F) \o Each(body), C, {"firewall", "fr", "hp"}, {"firewall", "subnet"})
  BY <1>7, <1>8, <1>9, ShapeThen
<1>11. Shape(Dels(F) \o Each(body) \o Dels(R), C, {"firewall", "fr", "hp", "route"},
             {"firewall", "subnet", "route"})
  BY <1>7, <1>9, <1>10, ShapeThen
<1>12. Shape(netParts(n), C, {"firewall", "fr", "hp", "route"}, {"firewall", "subnet", "route"})
  BY <1>3, <1>11
<1>13. Shape(netParts(n), D, {"firewall", "fr", "hp", "route"}, {"firewall", "subnet", "route"})
  BY <1>12, CodeMono DEF C, D, PartKinds, AllLate
<1>14. Shape(netParts(n) \o Wait \o Dels({n}), D, {"firewall", "fr", "hp", "route"}, {"network"})
  BY <1>1, <1>7, <1>13, ShapeAfter, Zenon
<1>15. Shape(netParts(n) \o Wait \o Dels({n}) \o Wait, D, {"firewall", "fr", "hp", "route"}, {})
  BY <1>1, <1>14, ShapeWait, Zenon
<1> QED
  BY <1>6, <1>12, <1>15 DEF C, D

\* One network after the other
LEMMA NetworksShape ==
  ASSUME SafeInv
  PROVE  Shape(CleanNetworks, Late(AllLate), {"firewall", "fr", "hp", "route"}, {})
<1> DEFINE S == {m \in OfKind("network") : Indicated(m)}
           body == [n \in S |-> cleanNetwork(n)]
<1>1. S \subseteq Resource /\ \A n \in S : Kind(n) = "network"
  BY DEF SafeInv, OfKind
<1>2. IsFiniteSet(S)
  BY <1>1, CleanupAssumption, FS_Subset
<1>3. \A n \in S : Shape(body[n], Late(AllLate), {"firewall", "fr", "hp", "route"}, {})
  BY <1>1, NetworkShape
<1>4. body = [n \in S |-> body[n]] /\ CleanNetworks = Each(body)
  BY DEF CleanNetworks
<1>5. Fit({}, {"firewall", "fr", "hp", "route"})
  BY DEF Fit
<1> HIDE DEF S, body
<1> QED
  BY <1>2, <1>3, <1>4, <1>5, ShapeEach

\* What an instruction of CleanNetworks turns into: no network or subnetwork any more
LEMMA LateShape ==
  ASSUME SafeInv, TypeOK, NEW ins \in Late(AllLate), Lists(ins)
  PROVE  /\ Shape(Expansion(ins), Late(MapKinds), Lead(ins), Trail(ins))
         /\ ins[1] # "snUM" => Shape(Expansion(ins), Late(LateKinds), Lead(ins), Trail(ins))
<1> DEFINE Goal == ins[1] # "snUM" /\ Shape(Expansion(ins), Late(LateKinds), Lead(ins), Trail(ins))
<1>0. ASSUME Goal PROVE Shape(Expansion(ins), Late(MapKinds), Lead(ins), Trail(ins))
  BY <1>0, CodeMono DEF MapKinds
<1>1. ins \in {"snFR", "snBS", "snUM", "snHP", "rneg", "zneg"} \X Places \X Resource
  BY DEF Late, Lists
<1> DEFINE g == ins[2]
           x == ins[3]
<1>2. g \in Places /\ ins[1] \in {"snFR", "snBS", "snUM", "snHP", "rneg", "zneg"}
  BY <1>1
<1> HIDE DEF g, x
<1>3. CASE ins[1] = "snFR"
  <2>1. Expansion(ins) = snFR(g, x) /\ Lead(ins) = {"fr"} /\ Trail(ins) = {"fr"}
    BY <1>3 DEF Expansion, Lead, Trail, g, x
  <2>2. Goal
    BY <1>3, <2>1, NetListShapes
  <2> QED
    BY <1>0, <2>2
<1>4. CASE ins[1] = "snHP"
  <2>1. Expansion(ins) = snHP(g, x) /\ Lead(ins) = {"hp"} /\ Trail(ins) = {"hp"}
    BY <1>4 DEF Expansion, Lead, Trail, g, x
  <2>2. Goal
    BY <1>4, <2>1, NetListShapes
  <2> QED
    BY <1>0, <2>2
<1>5. CASE ins[1] = "snBS"
  <2>1. Expansion(ins) = snBS(g, x) /\ Lead(ins) = {"hp"} /\ Trail(ins) = {"hc"}
    BY <1>5 DEF Expansion, Lead, Trail, g, x
  <2>2. Goal
    BY <1>2, <1>5, <2>1, NetServiceShape
  <2> QED
    BY <1>0, <2>2
<1>6. CASE ins[1] = "snUM"
  <2>1. Expansion(ins) = snUM(g, x) /\ Lead(ins) = {"hp"} /\ Trail(ins) = {"um"}
    BY <1>6 DEF Expansion, Lead, Trail, g, x
  <2> QED
    BY <1>2, <1>6, <2>1, NetMapShape
<1>7. CASE ins[1] \in {"rneg", "zneg"}
  <2>1. /\ Expansion(ins) = NEGs(ins[1], g, x)
        /\ Lead(ins) = {ins[1]} /\ Trail(ins) = {ins[1]}
    BY <1>7 DEF Expansion, Lead, Trail, g, x
  <2>2. \A r \in Resource : Kind(r) = ins[1] /\ Indicated(r) => <<"del", r>> \in Late(LateKinds)
    BY <1>7 DEF Late, LateKinds
  <2>3. Goal
    BY <1>7, <2>1, <2>2, GroupShape
  <2> QED
    BY <1>0, <2>3
<1> QED
  BY <1>2, <1>3, <1>4, <1>5, <1>6, <1>7

-----------------------------------------------------------------------------
(* The order of deletions: types, phases and segments *)

\* Before CleanNetworks, in it, or in the library, which keeps lists of policies only
PhaseInv ==
  \/ /\ \E p \in Seq(Early(AllEarly)) : todo = p \o <<<<"networks">>>>
     /\ \A r \in running : Kind(r) \in AllEarly /\ Indicated(r)
     /\ \A r \in (killed \cup errs) \cap Resource : Kind(r) # "subnet"
  \/ todo \in Seq(Late(AllLate))
  \/ todo \in Seq(LibraryCode) /\ \A k \in DOMAIN cache : k[1] = "osPolicy"

\* What is under way may go together, and with what is started before the next wait
SegmentInv ==
  /\ Apart(todo)
  /\ \A r \in running : \A ins \in Opening(todo) : Fit({Kind(r)}, Lead(ins))
  /\ \A r, s \in running : Together(Kind(r), Kind(s))

\* A policy stays what it is
LEMMA CodeStays ==
  ASSUME call' = call, NEW K
  PROVE  /\ \A r : Indicated(r)' <=> Indicated(r)
         /\ Early(K)' = Early(K) /\ Late(K)' = Late(K) /\ LibraryCode' = LibraryCode
<1>1. \A r : Indicated(r)' <=> Indicated(r)
  BY DEF Indicated, cleanupPolicy
<1>2. Places' = Places
  BY DEF Places
<1> QED
  BY <1>1, <1>2 DEF Early, Late, LibraryCode

\* Types at the start
LEMMA TypeInit == Init => TypeOK
<1> SUFFICES ASSUME Init PROVE TypeOK
  OBVIOUS
<1>1. MaxFaults \in Nat /\ Scenes \subseteq SUBSET Resource
  BY CleanupAssumption
<1>2. 0 \in 0..MaxFaults
  BY <1>1
<1> QED
  BY <1>1, <1>2 DEF Init, TypeOK

\* Types in a step; lists that are kept stay lists of a kind and region
LEMMA TypeStep ==
  ASSUME SafeInv, TypeOK, [Next]_vars
  PROVE  TypeOK'
<1>1. \A r \in MayGo : r \in Resource
  BY DEF MayGo
<1>2. MaxFaults \in Nat /\ faults \in 0..MaxFaults
  BY CleanupAssumption DEF TypeOK
<1>3. (faults < MaxFaults => faults + 1 \in 0..MaxFaults)
  BY <1>2
<1>4. CASE List
  <2> DEFINE ins == Head(todo)
             key == <<CacheKind[ins[1]], ins[2]>>
  <2>1. ASSUME NEW k \in DOMAIN cache', NEW r \in cache'[k]
        PROVE  Kind(r) = k[1] /\ Attr[r].region = k[2]
    <3>1. CASE Entry(ins)
      BY <1>4, <2>1, <3>1 DEF List
    <3>2. CASE ~Entry(ins) /\ ins[1] \notin DOMAIN CacheKind
      <4>1. cache' = cache
        BY <1>4, <3>2 DEF List
      <4> QED
        BY <2>1, <4>1 DEF TypeOK
    <3>3. CASE ~Entry(ins) /\ ins[1] \in DOMAIN CacheKind
      <4>1. cache' = [q \in DOMAIN cache \cup {key} |->
                        IF q = key THEN Cached(key[1], key[2]) ELSE cache[q]]
        BY <1>4, <3>3 DEF List
      <4> HIDE DEF key
      <4>2. k \in DOMAIN cache \cup {key}
        BY <2>1, <4>1
      <4>3. CASE k = key
        <5>1. r \in Cached(key[1], key[2])
          BY <2>1, <4>1, <4>2, <4>3
        <5> QED
          BY <4>3, <5>1, CachedKind
      <4>4. CASE k # key
        <5>1. k \in DOMAIN cache /\ r \in cache[k]
          BY <2>1, <4>1, <4>2, <4>4
        <5> QED
          BY <5>1 DEF TypeOK
      <4> QED
        BY <4>3, <4>4
    <3> QED
      BY <3>1, <3>2, <3>3
  <2>2. UNCHANGED <<call, running, alive, deleted, errs, killed, faults>>
    BY <1>4 DEF List
  <2> QED
    BY <2>1, <2>2 DEF TypeOK
<1>5. CASE ListFails
  <2>1. cache' = cache \/ cache' = <<>>
    BY <1>5 DEF ListFails
  <2>2. \A k \in DOMAIN cache' : \A r \in cache'[k] : Kind(r) = k[1] /\ Attr[r].region = k[2]
    BY <2>1 DEF TypeOK
  <2> QED
    BY <1>3, <1>5, <2>2 DEF ListFails, TypeOK
<1>6. CASE Start
  <2>1. Head(todo)[2] \in MayGo
    <3>1. Head(todo) \in SafeCode
      BY <1>6 DEF Start, SafeInv
    <3> QED
      BY <1>6, <3>1 DEF Start, SafeCode, Entries
  <2> QED
    BY <1>1, <1>6, <2>1 DEF Start, TypeOK
<1>7. CASE Waited
  BY <1>7 DEF Waited, TypeOK
<1>8. ASSUME NEW r \in Resource, Finish(r) PROVE TypeOK'
  <2>1. UNCHANGED <<call, cache>> /\ running' \subseteq running
    BY <1>8 DEF Finish, DoneAfter
  <2>2. alive' \subseteq Resource /\ deleted' \subseteq Resource /\ killed' \subseteq Resource \ alive'
    BY <1>8 DEF Finish, TypeOK
  <2>3. faults' \in 0..MaxFaults
    BY <1>2, <1>3, <1>8 DEF Finish
  <2> QED
    BY <2>1, <2>2, <2>3 DEF TypeOK
<1>9. ASSUME NEW r \in Resource, Vanish(r) PROVE TypeOK'
  BY <1>9 DEF Vanish, TypeOK
<1>10. CASE UNCHANGED vars
  BY <1>10 DEF vars, TypeOK
<1> QED
  BY <1>4, <1>5, <1>6, <1>7, <1>8, <1>9, <1>10 DEF Next

\* Head and tail of programs one after the other
LEMMA ThenHead ==
  ASSUME NEW T, NEW p \in Seq(T), NEW q \in Seq(T), p # <<>>
  PROVE  /\ Head(p \o q) = Head(p) /\ Tail(p \o q) = Tail(p) \o q
         /\ Head(p) \in T /\ Tail(p) \in Seq(T)
<1>1. /\ Len(p) \in Nat /\ Len(p) > 0 /\ Head(p) = p[1] /\ Head(p) \in T
      /\ Tail(p) \in Seq(T) /\ Len(Tail(p)) = Len(p) - 1
      /\ \A i \in 1..(Len(p) - 1) : Tail(p)[i] = p[i + 1]
  OBVIOUS
<1> DEFINE u == p \o q
           v == Tail(p) \o q
<1>2. /\ u \in Seq(T) /\ Len(u) = Len(p) + Len(q) /\ Len(q) \in Nat
      /\ \A i \in 1..Len(p) : u[i] = p[i]
      /\ \A i \in 1..Len(q) : u[Len(p) + i] = q[i]
  BY ThenAt
<1>3. /\ v \in Seq(T) /\ Len(v) = Len(p) - 1 + Len(q)
      /\ \A i \in 1..(Len(p) - 1) : v[i] = Tail(p)[i]
      /\ \A i \in 1..Len(q) : v[Len(p) - 1 + i] = q[i]
  OBVIOUS
<1> HIDE DEF u, v
<1>4. /\ Tail(u) \in Seq(T) /\ Len(Tail(u)) = Len(u) - 1 /\ Head(u) = u[1]
      /\ \A i \in 1..(Len(u) - 1) : Tail(u)[i] = u[i + 1]
  <2>1. u \in Seq(T) /\ Len(u) > 0 /\ u # <<>>
    BY <1>1, <1>2
  <2> QED
    BY <2>1
<1>5. Head(u) = Head(p)
  BY <1>1, <1>2, <1>4
<1>6. ASSUME NEW i \in 1..(Len(u) - 1) PROVE Tail(u)[i] = v[i]
  <2>1. CASE i <= Len(p) - 1
    <3>1. i \in 1..(Len(p) - 1) /\ i + 1 \in 1..Len(p)
      BY <1>1, <2>1
    <3> QED
      BY <1>1, <1>2, <1>3, <1>4, <3>1
  <2>2. CASE i > Len(p) - 1
    <3> DEFINE k == i + 1 - Len(p)
    <3>1. k \in 1..Len(q) /\ Len(p) + k = i + 1 /\ Len(p) - 1 + k = i
      BY <1>1, <1>2, <2>2
    <3> HIDE DEF k
    <3>2. u[Len(p) + k] = q[k] /\ v[Len(p) - 1 + k] = q[k]
      BY <1>2, <1>3, <3>1
    <3> QED
      BY <1>4, <3>1, <3>2
  <2> QED
    BY <1>1, <2>1, <2>2
<1>7. Tail(u) = v
  BY <1>2, <1>3, <1>4, <1>6
<1> QED
  BY <1>1, <1>5, <1>7 DEF u, v

\* A program with one more instruction at the end
LEMMA LastOne ==
  ASSUME NEW T, NEW p \in Seq(T), NEW x \in T, NEW s \in Seq(T), Len(s) = Len(p) + 1,
         \A i \in 1..Len(p) : s[i] = p[i], s[Len(p) + 1] = x
  PROVE  s = p \o <<x>>
<1>1. PICK q : q = <<x>> /\ q \in Seq(T) /\ Len(q) = 1 /\ q[1] = x /\ Len(p) \in Nat
  <2>1. <<x>> \in Seq(T) /\ Len(<<x>>) = 1 /\ <<x>>[1] = x /\ Len(p) \in Nat
    OBVIOUS
  <2> QED
    BY <2>1
<1> DEFINE u == p \o q
<1>2. /\ u \in Seq(T) /\ Len(u) = Len(p) + Len(q)
      /\ \A i \in 1..Len(p) : u[i] = p[i]
      /\ \A i \in 1..Len(q) : u[Len(p) + i] = q[i]
  BY <1>1, ThenAt
<1> HIDE DEF u
<1>3. u[Len(p) + 1] = x
  BY <1>1, <1>2
<1>4. \A i \in 1..Len(s) : i \in 1..Len(p) \/ i = Len(p) + 1
  BY <1>1
<1>5. \A i \in 1..Len(s) : s[i] = u[i]
  BY <1>2, <1>3, <1>4
<1>6. s = u
  BY <1>1, <1>2, <1>5
<1> QED
  BY <1>1, <1>6 DEF u

\* The programs of the callers
LEMMA PhaseInit == Init => PhaseInv
<1> SUFFICES ASSUME Init PROVE PhaseInv
  OBVIOUS
<1> DEFINE T == Early(AllEarly) \cup {<<"networks">>}
           a == <<"instances">>
           b == <<"disks">>
           c == <<"lb">>
           n == <<"networks">>
<1>1. /\ a \in Early(AllEarly) /\ b \in Early(AllEarly) /\ c \in Early(AllEarly)
  BY DEF Early
<1>2. n \in T /\ Early(AllEarly) \subseteq T
  OBVIOUS
<1>3. main = <<a, b, c, n>> /\ cleanTestWorkflow(FALSE) = <<a, b, n>>
  BY DEF main, cleanTestWorkflow
<1>4. running = {} /\ killed = {} /\ errs = {} /\ todo = call.program /\ cache = <<>>
  BY DEF Init
<1>5. call.program \in {main, cleanTestWorkflow(FALSE), library}
  BY CleanupAssumption DEF Init
<1> HIDE DEF T, a, b, c, n
<1>6. <<a, b, c, n>> = <<a, b, c>> \o <<n>>
  <2> DEFINE p == <<a, b, c>>
             s == <<a, b, c, n>>
  <2>1. /\ p \in Seq(T) /\ Len(p) = 3 /\ p[1] = a /\ p[2] = b /\ p[3] = c
        /\ s \in Seq(T) /\ Len(s) = 4 /\ s[1] = a /\ s[2] = b /\ s[3] = c /\ s[4] = n
    BY <1>1, <1>2
  <2> HIDE DEF p, s
  <2>2. \A i \in 1..Len(p) : i = 1 \/ i = 2 \/ i = 3
    BY <2>1
  <2>3. Len(s) = Len(p) + 1 /\ s[Len(p) + 1] = n
    BY <2>1
  <2>4. s = p \o <<n>>
    BY <1>2, <2>1, <2>2, <2>3, LastOne
  <2> QED
    BY <2>4 DEF p, s
<1>7. <<a, b, n>> = <<a, b>> \o <<n>>
  <2> DEFINE p == <<a, b>>
             s == <<a, b, n>>
  <2>1. /\ p \in Seq(T) /\ Len(p) = 2 /\ p[1] = a /\ p[2] = b
        /\ s \in Seq(T) /\ Len(s) = 3 /\ s[1] = a /\ s[2] = b /\ s[3] = n
    BY <1>1, <1>2
  <2> HIDE DEF p, s
  <2>2. \A i \in 1..Len(p) : i = 1 \/ i = 2
    BY <2>1
  <2>3. Len(s) = Len(p) + 1 /\ s[Len(p) + 1] = n
    BY <2>1
  <2>4. s = p \o <<n>>
    BY <1>2, <2>1, <2>2, <2>3, LastOne
  <2> QED
    BY <2>4 DEF p, s
<1>8. <<a, b, c>> \in Seq(Early(AllEarly)) /\ <<a, b>> \in Seq(Early(AllEarly))
  BY <1>1
<1>9. CASE call.program # library
  <2>1. \E p \in Seq(Early(AllEarly)) : todo = p \o <<n>>
    BY <1>3, <1>4, <1>5, <1>6, <1>7, <1>8, <1>9
  <2> QED
    BY <1>4, <2>1 DEF PhaseInv, n
<1>10. CASE call.program = library
  <2>1. library \in Seq(LibraryCode)
    <3>1. /\ <<"images">> \in LibraryCode /\ <<"machineImages">> \in LibraryCode
          /\ <<"snapshots">> \in LibraryCode /\ <<"guestPolicies">> \in LibraryCode
          /\ <<"osPolicies">> \in LibraryCode
      BY DEF LibraryCode
    <3> QED
      BY <3>1 DEF library
  <2>2. DOMAIN cache = {}
    BY <1>4
  <2> QED
    BY <1>4, <1>10, <2>1, <2>2 DEF PhaseInv
<1> QED
  BY <1>9, <1>10

\* A listing turns into a program that starts and leaves what the instruction stood for
LEMMA HeadShape ==
  ASSUME SafeInv, TypeOK, PhaseInv, todo # <<>>, Lists(Head(todo))
  PROVE  \E C : Shape(Expansion(Head(todo)), C, Lead(Head(todo)), Trail(Head(todo)))
<1> DEFINE n == <<"networks">>
<1>1. CASE \E p \in Seq(Early(AllEarly)) : todo = p \o <<n>>
  <2>1. PICK p \in Seq(Early(AllEarly)) : todo = p \o <<n>>
    BY <1>1
  <2>2. CASE p = <<>>
    <3>1. todo = <<n>>
      BY <2>1, <2>2
    <3>2. Head(todo) = n
      BY <3>1
    <3>3. /\ Expansion(n) = CleanNetworks /\ Lead(n) = {"firewall", "fr", "hp", "route"}
          /\ Trail(n) = {}
      BY DEF Expansion, Lead, Trail
    <3> QED
      BY <3>2, <3>3, NetworksShape
  <2>3. CASE p # <<>>
    <3> DEFINE T == Early(AllEarly) \cup {n}
    <3>1. p \in Seq(T) /\ <<n>> \in Seq(T)
      OBVIOUS
    <3>2. Head(todo) = Head(p)
      BY <2>1, <2>3, <3>1, ThenHead
    <3>3. Head(todo) \in Early(AllEarly)
      BY <2>3, <3>2
    <3> QED
      BY <3>3, EarlyShape
  <2> QED
    BY <2>2, <2>3
<1>2. CASE todo \in Seq(Late(AllLate))
  <2>1. Head(todo) \in Late(AllLate)
    BY <1>2
  <2> QED
    BY <2>1, LateShape
<1>3. CASE todo \in Seq(LibraryCode) /\ \A k \in DOMAIN cache : k[1] = "osPolicy"
  <2>1. Head(todo) \in LibraryCode
    BY <1>3
  <2> QED
    BY <1>3, <2>1, LibraryShape
<1> QED
  BY <1>1, <1>2, <1>3 DEF PhaseInv

\* The rest of a program
LEMMA RestOpens ==
  ASSUME NEW T, NEW s \in Seq(T), s # <<>>
  PROVE  /\ Head(s) \in Opening(s)
         /\ Head(s) # <<"wait">> => \A y \in Opening(Tail(s)) : y \in Opening(s)
         /\ Apart(s) => Apart(Tail(s))
         /\ Apart(s) => \A y \in Opening(Tail(s)) : Fit(Trail(Head(s)), Lead(y))
<1> DEFINE t == Tail(s)
<1>1. /\ Len(s) \in Nat /\ Len(s) > 0 /\ Head(s) = s[1]
      /\ t \in Seq(T) /\ Len(t) = Len(s) - 1 /\ \A i \in 1..Len(t) : t[i] = s[i + 1]
  OBVIOUS
<1> HIDE DEF t
<1>2. Head(s) \in Opening(s)
  <2>1. 1 \in 1..Len(s) /\ NoWait(s, 1, 0)
    BY <1>1 DEF NoWait
  <2>2. 1 - 1 = 0
    OBVIOUS
  <2>3. s[1] \in ToSet(s)
    BY <2>1, SetAt
  <2> QED
    BY <1>1, <2>1, <2>2, <2>3 DEF Opening
<1>3. ASSUME NEW i \in 1..Len(t), NEW j \in 1..Len(t), NoWait(t, i, j - 1)
      PROVE  NoWait(s, i + 1, j)
  <2> SUFFICES ASSUME NEW m \in (i + 1)..j PROVE s[m] # <<"wait">>
    BY DEF NoWait
  <2>1. m - 1 \in i..(j - 1) /\ m - 1 \in 1..Len(t) /\ (m - 1) + 1 = m
    BY <1>1
  <2>2. t[m - 1] # <<"wait">>
    BY <1>3, <2>1 DEF NoWait
  <2> QED
    BY <1>1, <2>1, <2>2
<1>4. ASSUME NEW y \in Opening(t)
      PROVE  \E j \in 1..Len(t) : y = t[j] /\ y = s[j + 1] /\ j + 1 \in 1..Len(s) /\ NoWait(s, 2, j)
  <2>1. PICK j \in 1..Len(t) : y = t[j] /\ NoWait(t, 1, j - 1)
    BY <1>4 DEF Opening
  <2>2. 1 \in 1..Len(t) /\ 1 + 1 = 2
    BY <1>1
  <2>3. NoWait(s, 2, j)
    BY <1>3, <2>1, <2>2
  <2> QED
    BY <1>1, <2>1, <2>3
<1>5. ASSUME Head(s) # <<"wait">>, NEW y \in Opening(t) PROVE y \in Opening(s)
  <2>1. PICK j \in 1..Len(t) : y = s[j + 1] /\ j + 1 \in 1..Len(s) /\ NoWait(s, 2, j)
    BY <1>4, <1>5
  <2>2. \A m \in 1..j : m = 1 \/ m \in 2..j
    OBVIOUS
  <2>3. NoWait(s, 1, j)
    BY <1>1, <1>5, <2>1, <2>2 DEF NoWait
  <2>4. (j + 1) - 1 = j
    OBVIOUS
  <2>5. y \in ToSet(s)
    BY <2>1, SetAt
  <2> QED
    BY <2>1, <2>3, <2>4, <2>5 DEF Opening
<1>6. ASSUME Apart(s), NEW y \in Opening(t) PROVE Fit(Trail(Head(s)), Lead(y))
  <2>1. PICK j \in 1..Len(t) : y = s[j + 1] /\ j + 1 \in 1..Len(s) /\ NoWait(s, 2, j)
    BY <1>4, <1>6
  <2>2. 1 \in 1..Len(s) /\ 1 < j + 1 /\ 1 + 1 = 2 /\ (j + 1) - 1 = j
    BY <1>1
  <2> QED
    BY <1>1, <1>6, <2>1, <2>2 DEF Apart
<1>7. ASSUME Apart(s) PROVE Apart(t)
  <2> SUFFICES ASSUME NEW i \in 1..Len(t), NEW j \in 1..Len(t), i < j, NoWait(t, i + 1, j - 1)
               PROVE  Fit(Trail(t[i]), Lead(t[j]))
    BY DEF Apart
  <2>1. /\ i + 1 \in 1..Len(s) /\ j + 1 \in 1..Len(s) /\ i + 1 < j + 1
        /\ i + 1 \in 1..Len(t) /\ (j + 1) - 1 = j
    BY <1>1
  <2>2. NoWait(s, (i + 1) + 1, j)
    BY <1>3, <2>1
  <2>3. Fit(Trail(s[i + 1]), Lead(s[j + 1]))
    BY <1>7, <2>1, <2>2 DEF Apart
  <2> QED
    BY <1>1, <2>3
<1> QED
  BY <1>2, <1>5, <1>6, <1>7 DEF t

\* Only one phase follows another
LEMMA PhaseStep ==
  ASSUME SafeInv, TypeOK, PhaseInv, [Next]_vars
  PROVE  PhaseInv'
<1> DEFINE n == <<"networks">>
           A == Early(AllEarly)
           B == Late(AllLate)
           h == Head(todo)
<1>1. call' = call
  BY DEF Next, List, ListFails, Start, Waited, Finish, Vanish, vars
<1>2. /\ \A r : Indicated(r)' <=> Indicated(r)
      /\ Early(AllEarly)' = A /\ Late(AllLate)' = B /\ LibraryCode' = LibraryCode
  BY <1>1, CodeStays
<1>3. SafeInv'
  BY SafeStep
<1>4. CASE /\ \E p \in Seq(A) : todo = p \o <<n>>
           /\ \A r \in running : Kind(r) \in AllEarly /\ Indicated(r)
           /\ \A r \in (killed \cup errs) \cap Resource : Kind(r) # "subnet"
  <2>1. PICK p \in Seq(A) : todo = p \o <<n>>
    BY <1>4
  <2> DEFINE T == A \cup {n}
  <2>2. p \in Seq(T) /\ <<n>> \in Seq(T)
    OBVIOUS
  <2> HIDE DEF T
  <2>3. CASE p = <<>> /\ ~(UNCHANGED todo)
    <3>1. todo = <<n>>
      BY <2>1, <2>3
    <3>2. h = n /\ Tail(todo) = <<>> /\ h[1] = "networks"
      BY <3>1
    <3>3. List \/ ListFails
      BY <2>3, <3>2 DEF Next, Start, Waited, Finish, Vanish, vars
    <3>4. CleanNetworks \in Seq(B)
      BY NetworksShape DEF Shape
    <3>5. Expansion(h) = CleanNetworks
      BY <3>2 DEF Expansion
    <3>6. CleanNetworks \o <<>> = CleanNetworks
      BY <3>4
    <3>7. todo' \in {CleanNetworks, <<>>}
      BY <3>2, <3>3, <3>5, <3>6 DEF List, ListFails
    <3>8. todo' \in Seq(B)
      <4>1. <<>> \in Seq(B)
        OBVIOUS
      <4> QED
        BY <3>4, <3>7, <4>1
    <3> QED
      BY <1>2, <3>8 DEF PhaseInv
  <2>4. CASE p # <<>> /\ ~(UNCHANGED todo)
    <3>1. h = Head(p) /\ Tail(todo) = Tail(p) \o <<n>> /\ h \in A /\ Tail(p) \in Seq(A)
      <4>1. Head(todo) = Head(p) /\ Tail(todo) = Tail(p) \o <<n>>
        BY <2>1, <2>2, <2>4, ThenHead
      <4>2. Head(p) \in A /\ Tail(p) \in Seq(A)
        BY <2>4
      <4> QED
        BY <4>1, <4>2
    <3>2. CASE List
      <4>1. Expansion(h) \in Seq(A)
        <5>1. Lists(h)
          BY <3>2 DEF List
        <5> QED
          BY <3>1, <5>1, EarlyShape DEF Shape
      <4> DEFINE e == Expansion(h)
                 q == Tail(p)
      <4>2. e \o (q \o <<n>>) = (e \o q) \o <<n>> /\ e \o q \in Seq(A)
        BY <3>1, <4>1
      <4>3. todo' = e \o (q \o <<n>>)
        BY <3>1, <3>2 DEF List
      <4>4. \E pp \in Seq(A) : todo' = pp \o <<n>>
        BY <4>2, <4>3
      <4>5. UNCHANGED <<running, killed, errs>>
        BY <3>2 DEF List
      <4> QED
        BY <1>2, <1>4, <4>4, <4>5 DEF PhaseInv
    <3>3. CASE ListFails
      <4>1. h[1] \notin Resource
        <5>1. h \in SafeCode
          BY <3>3 DEF ListFails, SafeInv
        <5>2. h[1] \in Instructions
          BY <3>3, <5>1 DEF ListFails, Lists, SafeCode, Instructions, Entries
        <5> QED
          BY <5>2, CleanupAssumption
      <4>2. /\ UNCHANGED <<running, killed>> /\ errs' = errs \cup {h[1]} /\ todo' = Tail(todo)
        BY <3>3 DEF ListFails
      <4>3. (killed' \cup errs') \cap Resource = (killed \cup errs) \cap Resource
        BY <4>1, <4>2
      <4> QED
        BY <1>2, <1>4, <3>1, <4>2, <4>3 DEF PhaseInv
    <3>4. CASE Start
      <4>1. /\ h[1] = "del" /\ running' = running \cup {h[2]} /\ todo' = Tail(todo)
            /\ UNCHANGED <<killed, errs>>
        BY <3>4 DEF Start
      <4>2. h \in {"del"} \X {r \in Resource : Kind(r) \in AllEarly /\ Indicated(r)}
        BY <3>1, <4>1 DEF Early
      <4>3. Kind(h[2]) \in AllEarly /\ Indicated(h[2])
        BY <4>2
      <4> QED
        BY <1>2, <1>4, <3>1, <4>1, <4>3 DEF PhaseInv
    <3>5. CASE Waited
      BY <1>2, <1>4, <3>1, <3>5 DEF Waited, PhaseInv
    <3> QED
      BY <2>4, <3>2, <3>3, <3>4, <3>5 DEF Next, Finish, Vanish, vars
  <2>5. CASE UNCHANGED todo
    <3>1. /\ running' \subseteq running
          /\ (killed' \cup errs') \cap Resource \subseteq killed \cup errs \cup running
      <4>1. CASE List \/ ListFails \/ Start \/ Waited
        <5>1. todo # <<>> /\ todo \in Seq(SafeCode)
          BY <4>1 DEF List, ListFails, Start, Waited, SafeInv
        <5>2. Tail(todo) # todo
          BY <5>1
        <5>3. List
          BY <2>5, <4>1, <5>2 DEF ListFails, Start, Waited
        <5> QED
          BY <5>3 DEF List
      <4>2. ASSUME NEW r \in Resource, Finish(r)
            PROVE  /\ running' \subseteq running
                   /\ (killed' \cup errs') \cap Resource \subseteq killed \cup errs \cup running
        BY <4>2 DEF Finish, DoneAfter
      <4>3. ASSUME NEW r \in Resource, Vanish(r)
            PROVE  /\ running' \subseteq running
                   /\ (killed' \cup errs') \cap Resource \subseteq killed \cup errs \cup running
        BY <4>3 DEF Vanish
      <4>4. CASE UNCHANGED vars
        BY <4>4 DEF vars
      <4> QED
        BY <4>1, <4>2, <4>3, <4>4 DEF Next
    <3>2. \A r \in running : Kind(r) # "subnet"
      BY <1>4 DEF AllEarly, EarlyKinds
    <3> QED
      BY <1>2, <1>4, <2>5, <3>1, <3>2 DEF PhaseInv
  <2> QED
    BY <2>3, <2>4, <2>5
<1>5. CASE todo \in Seq(B)
  <2>1. todo' \in Seq(B)
    <3>1. todo # <<>> => h \in B /\ Tail(todo) \in Seq(B)
      BY <1>5
    <3>2. CASE List
      <4>1. Lists(h) /\ todo # <<>> /\ todo' = Expansion(h) \o Tail(todo)
        BY <3>2 DEF List
      <4>2. Shape(Expansion(h), Late(MapKinds), Lead(h), Trail(h))
        BY <3>1, <4>1, LateShape
      <4>3. Expansion(h) \in Seq(B)
        <5>1. MapKinds \subseteq AllLate
          BY DEF MapKinds, AllLate
        <5>2. Shape(Expansion(h), B, Lead(h), Trail(h))
          BY <4>2, <5>1, CodeMono
        <5> QED
          BY <5>2 DEF Shape
      <4> QED
        BY <3>1, <4>1, <4>3
    <3>3. CASE ~List
      BY <1>5, <3>1, <3>3 DEF Next, ListFails, Start, Waited, Finish, Vanish, vars
    <3> QED
      BY <3>2, <3>3
  <2> QED
    BY <1>2, <2>1 DEF PhaseInv
<1>6. CASE todo \in Seq(LibraryCode) /\ \A k \in DOMAIN cache : k[1] = "osPolicy"
  <2>0. todo # <<>> => h \in LibraryCode /\ Tail(todo) \in Seq(LibraryCode)
    BY <1>6
  <2>1. todo' \in Seq(LibraryCode)
    <3>1. CASE List
      <4>1. Lists(h) /\ todo # <<>> /\ todo' = Expansion(h) \o Tail(todo)
        BY <3>1 DEF List
      <4>2. Expansion(h) \in Seq(LibraryCode)
        BY <1>6, <2>0, <4>1, LibraryShape DEF Shape
      <4> QED
        BY <2>0, <4>1, <4>2
    <3>2. CASE ~List
      BY <1>6, <2>0, <3>2 DEF Next, ListFails, Start, Waited, Finish, Vanish, vars
    <3> QED
      BY <3>1, <3>2
  <2>2. \A k \in DOMAIN cache' : k[1] = "osPolicy"
    <3>1. CASE List
      <4>1. h \in LibraryCode /\ Lists(h)
        BY <2>0, <3>1 DEF List
      <4>2. h[1] \in DOMAIN CacheKind => CacheKind[h[1]] = "osPolicy"
        BY <4>1 DEF LibraryCode, CacheKind, Lists
      <4>3. \A k \in DOMAIN cache' : k \in DOMAIN cache \/
              (h[1] \in DOMAIN CacheKind /\ k = <<CacheKind[h[1]], h[2]>>)
        BY <3>1 DEF List
      <4> QED
        BY <1>6, <4>2, <4>3
    <3>2. CASE ListFails
      BY <1>6, <3>2 DEF ListFails
    <3>3. CASE ~List /\ ~ListFails
      BY <1>6, <3>3 DEF Next, Start, Waited, Finish, Vanish, vars
    <3> QED
      BY <3>1, <3>2, <3>3
  <2> QED
    BY <1>2, <2>1, <2>2 DEF PhaseInv
<1> QED
  BY <1>4, <1>5, <1>6 DEF PhaseInv

\* Together is symmetric, and kinds go together with themselves
LEMMA TogetherFacts ==
  /\ \A k : Together(k, k)
  /\ \A k, m : Together(k, m) => Together(m, k)
BY DEF Together

\* No two deletions are started together that must not be
LEMMA SegmentStep ==
  ASSUME SafeInv, TypeOK, PhaseInv, SegmentInv, [Next]_vars
  PROVE  SegmentInv'
<1> DEFINE h == Head(todo)
           t == Tail(todo)
<1>1. todo # <<>> =>
        /\ todo \in Seq(SafeCode) /\ h \in SafeCode /\ t \in Seq(SafeCode)
        /\ h \in Opening(todo)
        /\ h # <<"wait">> => \A y \in Opening(t) : y \in Opening(todo)
        /\ Apart(t)
        /\ \A y \in Opening(t) : Fit(Trail(h), Lead(y))
  BY RestOpens DEF SafeInv, SegmentInv
<1>2. CASE List
  <2>1. /\ todo # <<>> /\ Lists(h) /\ todo' = Expansion(h) \o t /\ running' = running
        /\ h # <<"wait">>
    BY <1>2 DEF List, Lists
  <2>2. PICK C : Shape(Expansion(h), C, Lead(h), Trail(h))
    BY <2>1, HeadShape
  <2> DEFINE T == C \cup SafeCode
             e == Expansion(h)
  <2>3. e \in Seq(T) /\ t \in Seq(T) /\ Apart(e) /\ Apart(t)
    BY <1>1, <2>1, <2>2 DEF Shape
  <2>4. /\ \A x \in Opening(e) : Lead(x) \subseteq Lead(h)
        /\ \A x \in Closing(e) : Trail(x) \subseteq Trail(h)
    BY <2>2 DEF Shape
  <2>5. todo' = e \o t
    BY <2>1
  <2> HIDE DEF T, e, h, t
  <2>6. \A x \in Closing(e) : \A y \in Opening(t) : Fit(Trail(x), Lead(y))
    BY <1>1, <2>1, <2>4 DEF Fit
  <2>7. Apart(e \o t)
    BY <2>3, <2>6, ApartThen
  <2>8. ASSUME NEW r \in running, NEW y \in Opening(e \o t) PROVE Fit({Kind(r)}, Lead(y))
    <3>1. y \in Opening(e) \/ y \in Opening(t)
      BY <2>3, <2>8, OpeningThen
    <3>2. CASE y \in Opening(e)
      <4>1. Fit({Kind(r)}, Lead(h))
        BY <1>1, <2>1, <2>8 DEF SegmentInv
      <4> QED
        BY <2>4, <3>2, <4>1 DEF Fit
    <3>3. CASE y \in Opening(t)
      BY <1>1, <2>1, <2>8, <3>3 DEF SegmentInv
    <3> QED
      BY <3>1, <3>2, <3>3
  <2>9. Apart(todo')
    BY <2>5, <2>7
  <2>10. \A r \in running' : \A y \in Opening(todo') : Fit({Kind(r)}, Lead(y))
    BY <2>1, <2>5, <2>8
  <2>11. (\A r, s \in running : Together(Kind(r), Kind(s)))'
    BY <2>1 DEF SegmentInv
  <2> QED
    BY <2>9, <2>10, <2>11 DEF SegmentInv
<1>3. CASE ListFails
  <2>1. todo # <<>> /\ h # <<"wait">> /\ todo' = t /\ running' = running
    BY <1>3 DEF ListFails, Lists
  <2> QED
    BY <1>1, <2>1 DEF SegmentInv
<1>4. CASE Start
  <2>1. /\ todo # <<>> /\ h[1] = "del" /\ h # <<"wait">> /\ todo' = t
        /\ running' = running \cup {h[2]}
    BY <1>4 DEF Start
  <2>2. Lead(h) = {Kind(h[2])} /\ Trail(h) = {Kind(h[2])}
    BY <2>1 DEF Lead, Trail
  <2>3. \A r \in running : Together(Kind(r), Kind(h[2]))
    BY <1>1, <2>1, <2>2 DEF SegmentInv, Fit
  <2>4. \A r, s \in running' : Together(Kind(r), Kind(s))
    BY <2>1, <2>3, TogetherFacts DEF SegmentInv
  <2>5. \A r \in running' : \A y \in Opening(t) : Fit({Kind(r)}, Lead(y))
    BY <1>1, <2>1, <2>2 DEF SegmentInv
  <2> QED
    BY <1>1, <2>1, <2>4, <2>5 DEF SegmentInv
<1>5. CASE Waited
  <2>1. todo # <<>> /\ todo' = t /\ running' = {}
    BY <1>5 DEF Waited
  <2> QED
    BY <1>1, <2>1 DEF SegmentInv
<1>6. CASE todo' = todo /\ running' \subseteq running
  BY <1>6 DEF SegmentInv
<1>7. ~List /\ ~ListFails /\ ~Start /\ ~Waited => todo' = todo /\ running' \subseteq running
  BY DEF Next, Finish, DoneAfter, Vanish, vars
<1> QED
  BY <1>2, <1>3, <1>4, <1>5, <1>6, <1>7

\* At the start nothing is under way, and each instruction of a program waits at its end
LEMMA SegmentInit == Init => SegmentInv
<1> SUFFICES ASSUME Init PROVE SegmentInv
  OBVIOUS
<1>1. running = {} /\ todo = call.program
  BY DEF Init
<1>2. call.program \in {main, cleanTestWorkflow(FALSE), library}
  BY CleanupAssumption DEF Init
<1> DEFINE Names == {"instances", "disks", "lb", "networks", "images", "machineImages",
                     "snapshots", "guestPolicies", "osPolicies"}
<1>3. \A i \in 1..Len(todo) : todo[i] \in {<<x>> : x \in Names}
  <2> DEFINE C == {<<x>> : x \in Names}
  <2>1. /\ <<"instances">> \in C /\ <<"disks">> \in C /\ <<"lb">> \in C /\ <<"networks">> \in C
    OBVIOUS
  <2>2. /\ <<"images">> \in C /\ <<"machineImages">> \in C /\ <<"snapshots">> \in C
        /\ <<"guestPolicies">> \in C /\ <<"osPolicies">> \in C
    OBVIOUS
  <2> HIDE DEF C
  <2>3. main \in Seq(C) /\ cleanTestWorkflow(FALSE) \in Seq(C) /\ library \in Seq(C)
    BY <2>1, <2>2 DEF main, cleanTestWorkflow, library
  <2>4. todo \in Seq(C)
    BY <1>1, <1>2, <2>3
  <2> QED
    BY <2>4, SetAt DEF C
<1>4. \A x \in Names : Trail(<<x>>) = {}
  BY DEF Trail
<1>5. \A i \in 1..Len(todo) : Trail(todo[i]) = {}
  BY <1>3, <1>4
<1> QED
  BY <1>1, <1>5 DEF SegmentInv, Apart, Fit

-----------------------------------------------------------------------------
(* The order of deletions: what is waited for *)

\* CleanNetworks is still to come
NetworksToCome == <<"networks">> \in ToSet(todo)

\* The subnetworks that CleanNetworks has seen or may see
Subnets ==
  {s \in Resource :
     /\ Kind(s) = "subnet" /\ ~Attr[s].auto
     /\ s \in alive \cup killed \cup errs \cup running \/ <<"del", s>> \in ToSet(todo)}

\* What goes before a network when S are the subnetworks
Behind(n, r, S) ==
  /\ Attr[r].network = n
  /\ Kind(r) \in {"instance", "firewall", "subnet", "route", "fr", "bs", "rneg", "zneg"}
  /\ Kind(r) \in {"instance", "rneg", "zneg"} => Indicated(r)
  /\ Kind(r) \in {"subnet", "route"} => ~Attr[r].auto
  /\ Kind(r) \in {"fr", "bs", "rneg", "zneg"} =>
       \E s \in S : Attr[s].network = n /\ Attr[s].region = Attr[r].region

\* What has to be over before an instruction: the VMs before CleanNetworks, the proxies of
\* a URL map before it, those indicated as long as the policy decides, and before a network
\* what is in it
Before(ins, r, toCome, S) ==
  \/ ins = <<"networks">> /\ Kind(r) = "instance" /\ Indicated(r)
  \/ /\ ins[1] = "del" /\ Kind(ins[2]) = "um"
     /\ Kind(r) = "hp" /\ ins[2] \in Uses[r] /\ (toCome => Indicated(r))
  \/ ins[1] = "del" /\ Kind(ins[2]) = "network" /\ Behind(ins[2], r, S)

\* The instructions that start the deletion of r before they wait for anything
Gets(ins, r) ==
  \/ ins = <<"del", r>>
  \/ Kind(r) = "hp" /\ ins = <<"lbHP", Attr[r].region>> /\ Indicated(r)
  \/ Kind(r) = "hp" /\ \E u \in Uses[r] : ins = <<"snHP", Attr[r].region, u>>
  \/ Kind(r) \in {"rneg", "zneg"} /\ Indicated(r) /\ ins = <<Kind(r), Attr[r].region, Attr[r].network>>
  \/ Kind(r) = "fr" /\ ins = <<"snFR", Attr[r].region, Attr[r].network>>
  \/ Kind(r) = "bs" /\ ins = <<"snBS", Attr[r].region, Attr[r].network>>

\* Before position i, p deletes r and waits for it
Settles(p, i, r) ==
  \/ Kind(r) = "instance" /\ \E j \in 1..(i - 1) : p[j] = <<"instances">>
  \/ \E k \in 1..(i - 1) : \E j \in 1..(k - 1) : p[k] = <<"wait">> /\ Gets(p[j], r)

Guarded(p, toCome, S) ==
  \A i \in 1..Len(p) : \A r \in alive \ errs : Before(p[i], r, toCome, S) => Settles(p, i, r)

\* A deletion that is under way ends at a wait before position i
Waits(i, r) == r \in running /\ \E k \in 1..(i - 1) : todo[k] = <<"wait">>

\* In a real run, what has to be over before an instruction, and exists without an error, is
\* deleted and waited for first; and it is over before what is under way
GuardInv ==
  ~call.dryRun /\ errs \subseteq Resource =>
    \A r \in alive \ errs :
      /\ \A i \in 1..Len(todo) :
           Before(todo[i], r, NetworksToCome, Subnets) => Settles(todo, i, r) \/ Waits(i, r)
      /\ \A x \in running : ~Before(<<"del", x>>, r, NetworksToCome, Subnets)

\* What is settled stays so with programs before and after
LEMMA SettlesThen ==
  ASSUME NEW T, NEW p \in Seq(T), NEW q \in Seq(T), NEW r
  PROVE  /\ \A i \in 1..Len(p) : Settles(p, i, r) => Settles(p \o q, i, r)
         /\ \A i \in 1..Len(q) : Settles(q, i, r) => Settles(p \o q, Len(p) + i, r)
<1> DEFINE u == p \o q
<1>1. /\ Len(p) \in Nat /\ Len(q) \in Nat /\ Len(u) = Len(p) + Len(q)
      /\ \A i \in 1..Len(p) : u[i] = p[i]
      /\ \A i \in 1..Len(q) : u[Len(p) + i] = q[i]
  BY ThenAt
<1> HIDE DEF u
<1>2. ASSUME NEW i \in 1..Len(p), Settles(p, i, r) PROVE Settles(u, i, r)
  <2>1. \A j \in 1..(i - 1) : u[j] = p[j] /\ \A m \in 1..(j - 1) : u[m] = p[m]
    BY <1>1
  <2> QED
    BY <1>2, <2>1 DEF Settles
<1>3. ASSUME NEW i \in 1..Len(q), Settles(q, i, r) PROVE Settles(u, Len(p) + i, r)
  <2>1. ASSUME NEW j \in 1..(i - 1)
        PROVE  Len(p) + j \in 1..(Len(p) + i - 1) /\ u[Len(p) + j] = q[j]
    BY <1>1
  <2>2. CASE Kind(r) = "instance" /\ \E j \in 1..(i - 1) : q[j] = <<"instances">>
    <3>1. PICK j \in 1..(i - 1) : q[j] = <<"instances">>
      BY <2>2
    <3>2. Len(p) + j \in 1..(Len(p) + i - 1) /\ u[Len(p) + j] = <<"instances">>
      BY <2>1, <3>1
    <3> QED
      BY <2>2, <3>2 DEF Settles
  <2>3. CASE \E k \in 1..(i - 1) : \E j \in 1..(k - 1) : q[k] = <<"wait">> /\ Gets(q[j], r)
    <3>1. PICK k \in 1..(i - 1) : \E j \in 1..(k - 1) : q[k] = <<"wait">> /\ Gets(q[j], r)
      BY <2>3
    <3>2. PICK j \in 1..(k - 1) : q[k] = <<"wait">> /\ Gets(q[j], r)
      BY <3>1
    <3>3. j \in 1..(i - 1) /\ Len(p) + j \in 1..(Len(p) + k - 1)
      BY <1>1
    <3>4. u[Len(p) + k] = <<"wait">> /\ Gets(u[Len(p) + j], r)
      BY <2>1, <3>2, <3>3
    <3> QED
      BY <2>1, <3>3, <3>4 DEF Settles
  <2> QED
    BY <1>3, <2>2, <2>3 DEF Settles
<1> QED
  BY <1>2, <1>3 DEF u

\* Programs with nothing to wait for
LEMMA GuardedFree ==
  ASSUME NEW C, NEW toCome, NEW S, \A c \in C : \A r \in alive \ errs : ~Before(c, r, toCome, S),
         NEW p \in Seq(C)
  PROVE  Guarded(p, toCome, S)
<1>1. \A i \in 1..Len(p) : p[i] \in C
  BY SetAt
<1> QED
  BY <1>1 DEF Guarded

\* One program after the other
LEMMA GuardedThen ==
  ASSUME NEW T, NEW p \in Seq(T), NEW q \in Seq(T), NEW toCome, NEW S,
         Guarded(p, toCome, S), Guarded(q, toCome, S)
  PROVE  Guarded(p \o q, toCome, S)
<1> DEFINE u == p \o q
<1>1. /\ Len(p) \in Nat /\ Len(q) \in Nat /\ Len(u) = Len(p) + Len(q)
      /\ \A i \in 1..Len(p) : u[i] = p[i]
      /\ \A i \in 1..Len(u) : i \in 1..Len(p) \/ (i - Len(p) \in 1..Len(q) /\ u[i] = q[i - Len(p)])
  BY ThenAt
<1>2. ASSUME NEW r
      PROVE  /\ \A i \in 1..Len(p) : Settles(p, i, r) => Settles(u, i, r)
             /\ \A i \in 1..Len(q) : Settles(q, i, r) => Settles(u, Len(p) + i, r)
  BY SettlesThen
<1> HIDE DEF u
<1> SUFFICES ASSUME NEW i \in 1..Len(u), NEW r \in alive \ errs, Before(u[i], r, toCome, S)
             PROVE  Settles(u, i, r)
  BY DEF Guarded, u
<1>3. CASE i \in 1..Len(p)
  BY <1>1, <1>2, <1>3 DEF Guarded
<1>4. CASE i \notin 1..Len(p)
  <2>1. i - Len(p) \in 1..Len(q) /\ u[i] = q[i - Len(p)]
    BY <1>1, <1>4
  <2>2. Settles(q, i - Len(p), r)
    BY <2>1 DEF Guarded
  <2>3. Len(p) + (i - Len(p)) = i
    BY <1>1
  <2> QED
    BY <1>2, <2>1, <2>2, <2>3
<1> QED
  BY <1>3, <1>4

\* A loop
LEMMA GuardedEach ==
  ASSUME NEW T, NEW toCome, NEW S, NEW X, IsFiniteSet(X), NEW body, body = [x \in X |-> body[x]],
         \A x \in X : body[x] \in Seq(T) /\ Guarded(body[x], toCome, S)
  PROVE  Guarded(Each(body), toCome, S)
<1> DEFINE G == {p \in Seq(T) : Guarded(p, toCome, S)}
<1>1. <<>> \in G
  <2>1. <<>> \in Seq(T) /\ 1..Len(<<>>) = {}
    OBVIOUS
  <2> QED
    BY <2>1 DEF Guarded
<1>2. ASSUME NEW a \in G, NEW b \in G PROVE a \o b \in G
  <2>1. a \in Seq(T) /\ b \in Seq(T) /\ Guarded(a, toCome, S) /\ Guarded(b, toCome, S)
    OBVIOUS
  <2>2. Guarded(a \o b, toCome, S) /\ a \o b \in Seq(T)
    BY <2>1, GuardedThen
  <2> QED
    BY <2>2
<1>3. \A x \in X : body[x] \in G
  OBVIOUS
<1> HIDE DEF G
<1>4. Each(body) \in G
  BY <1>1, <1>2, <1>3, EachClosed
<1> QED
  BY <1>4 DEF G

\* A deletion after a wait for what has to be over
LEMMA GuardedEnd ==
  ASSUME NEW T, <<"wait">> \in T, NEW p \in Seq(T), NEW toCome, NEW S, Guarded(p, toCome, S),
         NEW x \in Resource, <<"del", x>> \in T,
         \A r \in alive \ errs :
           Before(<<"del", x>>, r, toCome, S) => \E c \in ToSet(p) : Gets(c, r)
  PROVE  Guarded(p \o Wait \o Dels({x}), toCome, S)
<1> DEFINE w == <<"wait">>
           d == <<"del", x>>
<1>1. PICK q : q = Dels({x}) /\ q \in Seq(T) /\ \A i \in 1..Len(q) : q[i] = d
  <2>1. Dels({x}) \in Seq({"del"} \X {x})
    BY DelsAll
  <2>2. \A c \in {"del"} \X {x} : c = d
    OBVIOUS
  <2> HIDE DEF d
  <2>3. \A i \in 1..Len(Dels({x})) : Dels({x})[i] = d
    BY <2>1, <2>2, SetAt
  <2>4. Dels({x}) \in Seq(T)
    BY <2>1, <2>2, <2>3 DEF d
  <2> QED
    BY <2>3, <2>4
<1>2. PICK v : v = Wait /\ v \in Seq(T) /\ Len(v) = 1 /\ v[1] = w
  <2>1. <<w>> \in Seq(T) /\ Len(<<w>>) = 1 /\ <<w>>[1] = w
    OBVIOUS
  <2>2. Wait = <<w>>
    BY DEF Wait
  <2> QED
    BY <2>1, <2>2
<1>3. ~(w[1] = "del") /\ w # <<"networks">>
  OBVIOUS
<1>4. \A r : ~Before(w, r, toCome, S)
  BY <1>3 DEF Before
<1> HIDE DEF w, d
<1>5. Guarded(v, toCome, S)
  <2>1. \A i \in 1..Len(v) : v[i] = w
    BY <1>2
  <2> QED
    BY <1>4, <2>1 DEF Guarded
<1> DEFINE a == p \o v
<1>6. a \in Seq(T) /\ Guarded(a, toCome, S)
  BY <1>2, <1>5, GuardedThen, ThenAt
<1>7. /\ Len(a) = Len(p) + 1 /\ a[Len(p) + 1] = w /\ Len(p) \in Nat
      /\ \A i \in 1..Len(p) : a[i] = p[i]
  <2>1. /\ Len(p) \in Nat /\ Len(a) = Len(p) + Len(v)
        /\ \A i \in 1..Len(p) : a[i] = p[i]
        /\ \A i \in 1..Len(v) : a[Len(p) + i] = v[i]
    BY <1>2, ThenAt
  <2> HIDE DEF a
  <2> QED
    BY <1>2, <2>1
<1> HIDE DEF a
<1> DEFINE u == a \o q
<1>8. /\ Len(a) \in Nat /\ Len(u) = Len(a) + Len(q)
      /\ \A i \in 1..Len(a) : u[i] = a[i]
      /\ \A i \in 1..Len(u) : i \in 1..Len(a) \/ (i - Len(a) \in 1..Len(q) /\ u[i] = q[i - Len(a)])
  BY <1>1, <1>6, ThenAt
<1>9. \A r : \A i \in 1..Len(a) : Settles(a, i, r) => Settles(u, i, r)
  BY <1>1, <1>6, SettlesThen
<1> HIDE DEF u
<1>10. ASSUME NEW i \in 1..Len(u), NEW r \in alive \ errs, Before(u[i], r, toCome, S)
       PROVE  Settles(u, i, r)
  <2>1. CASE i \in 1..Len(a)
    BY <1>6, <1>8, <1>9, <1>10, <2>1 DEF Guarded
  <2>2. CASE i \notin 1..Len(a)
    <3>1. u[i] = d /\ i > Len(a)
      <4>1. i - Len(a) \in 1..Len(q) /\ u[i] = q[i - Len(a)]
        BY <1>8, <2>2
      <4>2. i > Len(a)
        BY <1>8, <2>2, <4>1
      <4> QED
        BY <1>1, <4>1, <4>2
    <3>2. PICK c \in ToSet(p) : Gets(c, r)
      BY <1>10, <3>1 DEF d
    <3>3. PICK j \in 1..Len(p) : c = p[j]
      BY SetAt
    <3> DEFINE k == Len(p) + 1
    <3>4. k \in 1..(i - 1) /\ j \in 1..(k - 1) /\ k \in 1..Len(a) /\ j \in 1..Len(a)
      BY <1>7, <1>8, <3>1
    <3>5. u[k] = w /\ u[j] = c
      BY <1>7, <1>8, <3>3, <3>4
    <3> HIDE DEF k
    <3> QED
      BY <3>2, <3>4, <3>5 DEF Settles, w
  <2> QED
    BY <2>1, <2>2
<1>11. Guarded(u, toCome, S)
  BY <1>10 DEF Guarded
<1> QED
  BY <1>1, <1>2, <1>11 DEF u, a

\* A loop of deletions has all of them
LEMMA DelsHas ==
  ASSUME NEW S, S \subseteq Resource, NEW r \in S
  PROVE  <<"del", r>> \in ToSet(Dels(S))
<1>1. ToSet(Dels(S)) = {"del"} \X S
  BY DelsAll
<1> QED
  BY <1>1

\* A list has what still exists
LEMMA CachedHas ==
  ASSUME ListsComplete, NEW r \in alive
  PROVE  r \in Cached(Kind(r), Attr[r].region)
<1> DEFINE k == Kind(r)
           g == Attr[r].region
           key == <<k, g>>
<1>1. r \in In(k, g)
  BY DEF In, OfKind
<1>2. key[1] = k /\ key[2] = g
  OBVIOUS
<1> HIDE DEF k, g
<1>3. key \in DOMAIN cache => In(k, g) \subseteq cache[key]
  BY <1>2 DEF ListsComplete
<1>4. r \in Cached(k, g)
  BY <1>1, <1>3 DEF Cached
<1> QED
  BY <1>4 DEF k, g

\* A backend service goes in the loop for it
LEMMA NetBackendHas ==
  ASSUME NEW g, NEW b \in Resource
  PROVE  \E T : snBackend(g, b) \in Seq(T) /\ <<"del", b>> \in ToSet(snBackend(g, b))
                /\ T = {<<"wait">>, <<"snUM", g, b>>} \cup ({"del"} \X Resource)
                       \cup ({"snUM"} \X {g} \X Resource)
<1> DEFINE T == {<<"wait">>, <<"snUM", g, b>>} \cup ({"del"} \X Resource)
                  \cup ({"snUM"} \X {g} \X Resource)
           H == {h \in Uses[b] : Kind(h) = "hc"}
           a == <<"snUM", g, b>>
           front == <<a>>
<1>1. H \subseteq Resource
  BY CleanupAssumption
<1>2. snBackend(g, b) = front \o Wait \o Dels({b}) \o Wait \o Dels(H)
  BY Zenon DEF snBackend
<1>3. {"del"} \X Resource \subseteq T /\ <<"wait">> \in T /\ a \in T
  OBVIOUS
<1> HIDE DEF T, H, a
<1>4. Dels({b}) \in Seq(T) /\ Dels(H) \in Seq(T)
  <2>1. {"del"} \X {b} \subseteq T /\ {"del"} \X H \subseteq T
    BY <1>1, <1>3
  <2> QED
    BY <1>1, <2>1, DelsAll
<1>5. <<"del", b>> \in ToSet(Dels({b}))
  BY DelsHas
<1>6. front \in Seq(T) /\ Wait \in Seq(T)
  BY <1>3 DEF Wait
<1> HIDE DEF front
<1> DEFINE p == front \o Wait
           q == p \o Dels({b})
           u == q \o Wait
<1>7. p \in Seq(T)
  BY <1>6
<1> HIDE DEF p
<1>8. q \in Seq(T) /\ <<"del", b>> \in ToSet(q)
  BY <1>4, <1>5, <1>7, ConcatSet
<1> HIDE DEF q
<1>9. u \in Seq(T) /\ <<"del", b>> \in ToSet(u)
  BY <1>6, <1>8, ConcatSet
<1> HIDE DEF u
<1>10. u \o Dels(H) \in Seq(T) /\ <<"del", b>> \in ToSet(u \o Dels(H))
  BY <1>4, <1>9, ConcatSet
<1>11. snBackend(g, b) = u \o Dels(H)
  BY <1>2, Zenon DEF u, q, p
<1> QED
  BY <1>10, <1>11 DEF T, a

\* A listing that gets a resource turns into a program that deletes it
LEMMA GetsAgain ==
  ASSUME SafeInv, TypeOK, ListsComplete, NEW r \in alive, NEW ins, Gets(ins, r), Lists(ins)
  PROVE  <<"del", r>> \in ToSet(Expansion(ins))
<1> DEFINE g == Attr[r].region
           n == Attr[r].network
<1>0. r \in Resource /\ r \in Cached(Kind(r), g) /\ ins # <<"del", r>>
  BY CachedHas DEF SafeInv, Lists
<1>1. CASE Kind(r) = "hp" /\ ins = <<"lbHP", g>> /\ Indicated(r)
  <2> DEFINE S == {h \in Cached("hp", g) : Indicated(h)}
  <2>1. Expansion(ins) = Dels(S)
    BY <1>1 DEF Expansion, lbHP
  <2>2. S \subseteq Resource /\ r \in S
    BY <1>0, <1>1, CachedResources
  <2> HIDE DEF S
  <2> QED
    BY <2>1, <2>2, DelsHas
<1>2. CASE Kind(r) = "hp" /\ \E u \in Uses[r] : ins = <<"snHP", g, u>>
  <2>1. PICK u \in Uses[r] : ins = <<"snHP", g, u>>
    BY <1>2
  <2> DEFINE S == {h \in Cached("hp", g) : u \in Uses[h]}
  <2>2. Expansion(ins) = Dels(S)
    BY <2>1 DEF Expansion, snHP
  <2>3. S \subseteq Resource /\ r \in S
    BY <1>0, <1>2, CachedResources
  <2> HIDE DEF S
  <2> QED
    BY <2>2, <2>3, DelsHas
<1>3. CASE Kind(r) \in {"rneg", "zneg"} /\ Indicated(r) /\ ins = <<Kind(r), g, n>>
  <2> DEFINE S == {s \in In(Kind(r), g) : (n = None \/ Attr[s].network = n) /\ Indicated(s)}
  <2>1. Expansion(ins) = Dels(S)
    BY <1>3 DEF Expansion, NEGs
  <2>2. S \subseteq Resource /\ r \in S
    BY <1>3 DEF SafeInv, In, OfKind
  <2> HIDE DEF S
  <2> QED
    BY <2>1, <2>2, DelsHas
<1>4. CASE Kind(r) = "fr" /\ ins = <<"snFR", g, n>>
  <2> DEFINE S == {s \in Cached("fr", g) : Attr[s].network = n}
  <2>1. Expansion(ins) = Dels(S)
    BY <1>4 DEF Expansion, snFR
  <2>2. S \subseteq Resource /\ r \in S
    BY <1>0, <1>4, CachedResources
  <2> HIDE DEF S
  <2> QED
    BY <2>1, <2>2, DelsHas
<1>5. CASE Kind(r) = "bs" /\ ins = <<"snBS", g, n>>
  <2> DEFINE S == {s \in Cached("bs", g) : Attr[s].network = n}
             body == [b \in S |-> snBackend(g, b)]
             T == {<<"wait">>} \cup ({"del"} \X Resource) \cup ({"snUM"} \X {g} \X Resource)
  <2>1. Expansion(ins) = Each(body)
    BY <1>5 DEF Expansion, snBS
  <2>2. S \subseteq Resource /\ IsFiniteSet(S) /\ r \in S
    BY <1>0, <1>5, CachedResources, FS_Subset
  <2>3. \A b \in S : body[b] \in Seq(T) /\ <<"del", b>> \in ToSet(body[b])
    <3> TAKE b \in S
    <3> DEFINE T2 == {<<"wait">>, <<"snUM", g, b>>} \cup ({"del"} \X Resource)
                       \cup ({"snUM"} \X {g} \X Resource)
    <3>1. T2 = T
      BY <2>2
    <3>2. snBackend(g, b) \in Seq(T2) /\ <<"del", b>> \in ToSet(snBackend(g, b))
      BY <2>2, NetBackendHas
    <3> QED
      BY <3>1, <3>2
  <2> HIDE DEF S, T
  <2>4. body \in [S -> Seq(T)]
    BY <2>3
  <2> HIDE DEF body
  <2>5. ToSet(Each(body)) = UNION {ToSet(body[b]) : b \in S}
    BY <2>2, <2>4, EachAll
  <2> QED
    BY <2>1, <2>2, <2>3, <2>5
<1> QED
  BY <1>0, <1>1, <1>2, <1>3, <1>4, <1>5 DEF Gets

\* Nothing has to be over before the deletions that are neither of a URL map nor of a network
LEMMA FreeCode ==
  ASSUME NEW K, "um" \notin K, "network" \notin K, NEW toCome, NEW S, NEW r
  PROVE  /\ \A c \in Early(K) \cup Late(K) \cup LibraryCode : ~Before(c, r, toCome, S)
         /\ ~Before(<<"wait">>, r, toCome, S)
<1>1. ASSUME NEW c, c[1] = "del" => Kind(c[2]) \notin {"um", "network"}, c # <<"networks">>
      PROVE  ~Before(c, r, toCome, S)
  BY <1>1 DEF Before
<1>2. ASSUME NEW c \in Early(K) \cup Late(K) \cup LibraryCode, c[1] = "del"
      PROVE  Kind(c[2]) \notin {"um", "network"}
  BY <1>2 DEF Early, Late, LibraryCode
<1>3. \A c \in Early(K) \cup Late(K) \cup LibraryCode : c # <<"networks">>
  BY DEF Early, Late, LibraryCode
<1>4. <<"wait">>[1] # "del" /\ <<"wait">> # <<"networks">>
  OBVIOUS
<1> QED
  BY <1>1, <1>2, <1>3, <1>4

\* One instruction that nothing has to be over before
LEMMA GuardedOne ==
  ASSUME NEW T, NEW c \in T, NEW toCome, NEW S, \A r \in alive \ errs : ~Before(c, r, toCome, S)
  PROVE  <<c>> \in Seq(T) /\ Guarded(<<c>>, toCome, S) /\ c \in ToSet(<<c>>)
<1>1. PICK p : p = <<c>> /\ p \in Seq(T) /\ Len(p) = 1 /\ p[1] = c
  <2>1. <<c>> \in Seq(T) /\ Len(<<c>>) = 1 /\ <<c>>[1] = c
    OBVIOUS
  <2> QED
    BY <2>1
<1>2. \A i \in 1..Len(p) : p[i] = c
  BY <1>1
<1>3. 1 \in 1..Len(p)
  BY <1>1
<1>4. c \in ToSet(p)
  <2>1. \A i \in DOMAIN p : p[i] \in ToSet(p)
    BY DEF ToSet
  <2>2. DOMAIN p = 1..Len(p)
    BY <1>1
  <2> QED
    BY <1>1, <1>3, <2>1, <2>2
<1> QED
  BY <1>1, <1>2, <1>4 DEF Guarded

\* A wait and one deletion after a program
LEMMA WaitDels ==
  ASSUME NEW T, <<"wait">> \in T, NEW p \in Seq(T), NEW x \in Resource, {"del"} \X Resource \subseteq T
  PROVE  p \o Wait \o Dels({x}) \in Seq(T)
<1>1. Wait \in Seq(T)
  BY DEF Wait
<1>2. {x} \subseteq Resource /\ {"del"} \X {x} \subseteq T
  OBVIOUS
<1>3. Dels({x}) \in Seq(T)
  BY <1>2, DelsAll
<1>4. p \o Wait \in Seq(T)
  BY <1>1
<1> QED
  BY <1>3, <1>4

\* A URL map goes after the proxies in front of it: the policy decides before CleanNetworks,
\* and it takes all of them
LEMMA MapGuard ==
  ASSUME SafeInv, TypeOK, NEW S, NEW g
  PROVE  /\ Guarded(lbUM(g), TRUE, S)
         /\ \A x : Guarded(snUM(g, x), FALSE, S)
<1> DEFINE T == {<<"wait">>, <<"lbHP", g>>} \cup ({"del"} \X Resource) \cup ({"snHP"} \X {g} \X Resource)
<1>1. /\ <<"wait">> \in T /\ <<"lbHP", g>> \in T
      /\ \A u \in Resource : <<"del", u>> \in T /\ <<"snHP", g, u>> \in T
      /\ {"del"} \X Resource \subseteq T
  OBVIOUS
<1> HIDE DEF T
<1>2. ASSUME NEW u \in Cached("um", g), NEW toCome, NEW r \in alive,
             Before(<<"del", u>>, r, toCome, S)
      PROVE  Kind(r) = "hp" /\ Attr[r].region = g /\ u \in Uses[r] /\ (toCome => Indicated(r))
  <2>1. Kind(u) = "um" /\ Attr[u].region = g /\ u \in Resource
    BY CachedKind
  <2>2. Kind(r) = "hp" /\ u \in Uses[r] /\ (toCome => Indicated(r))
    BY <1>2, <2>1 DEF Before
  <2>3. Attr[r].region = Attr[u].region
    BY <2>2, UsesAssumption DEF SafeInv
  <2> QED
    BY <2>1, <2>2, <2>3
<1>3. Guarded(lbUM(g), TRUE, S)
  <2> DEFINE M == {m \in Cached("um", g) : Indicated(m)}
             body == [u \in M |-> lbURLMap(g, u)]
             c == <<"lbHP", g>>
             p == <<c>>
  <2>1. M \subseteq Resource /\ IsFiniteSet(M) /\ M \subseteq Cached("um", g)
    BY CachedResources, FS_Subset
  <2>2. lbUM(g) = Each(body) /\ body = [u \in M |-> body[u]] /\ \A u \in M : body[u] = lbURLMap(g, u)
    BY DEF lbUM
  <2>3. c[1] = "lbHP" /\ c \in T
    BY <1>1
  <2>4. \A u : lbURLMap(g, u) = p \o Wait \o Dels({u})
    BY Zenon DEF lbURLMap
  <2>5. \A r : Kind(r) = "hp" /\ Attr[r].region = g /\ Indicated(r) => Gets(c, r)
    BY DEF Gets
  <2> HIDE DEF M, body, c
  <2>6. p \in Seq(T) /\ Guarded(p, TRUE, S) /\ c \in ToSet(p)
    <3>1. \A r : ~Before(c, r, TRUE, S)
      BY <2>3 DEF Before
    <3> QED
      BY <2>3, <3>1, GuardedOne
  <2> HIDE DEF p
  <2>7. ASSUME NEW u \in M PROVE body[u] \in Seq(T) /\ Guarded(body[u], TRUE, S)
    <3>1. u \in Resource /\ u \in Cached("um", g)
      BY <2>1
    <3>2. \A r \in alive \ errs : Before(<<"del", u>>, r, TRUE, S) => \E d \in ToSet(p) : Gets(d, r)
      BY <1>2, <2>5, <2>6, <3>1
    <3>3. <<"del", u>> \in T
      BY <1>1, <3>1
    <3>4. Guarded(p \o Wait \o Dels({u}), TRUE, S)
      BY <1>1, <2>6, <3>1, <3>2, <3>3, GuardedEnd, Zenon
    <3>5. p \o Wait \o Dels({u}) \in Seq(T)
      BY <1>1, <2>6, <3>1, WaitDels, Zenon
    <3> QED
      BY <2>2, <2>4, <3>4, <3>5
  <2>8. Guarded(Each(body), TRUE, S)
    BY <2>1, <2>2, <2>7, GuardedEach
  <2> QED
    BY <2>2, <2>8
<1>4. ASSUME NEW x PROVE Guarded(snUM(g, x), FALSE, S)
  <2> DEFINE M == {m \in Cached("um", g) : x \in Uses[m]}
             body == [u \in M |-> snURLMap(g, u)]
  <2>1. M \subseteq Resource /\ IsFiniteSet(M) /\ M \subseteq Cached("um", g)
    BY CachedResources, FS_Subset
  <2>2. snUM(g, x) = Each(body) /\ body = [u \in M |-> body[u]] /\ \A u \in M : body[u] = snURLMap(g, u)
    BY DEF snUM
  <2> HIDE DEF M, body
  <2>3. ASSUME NEW u \in M PROVE body[u] \in Seq(T) /\ Guarded(body[u], FALSE, S)
    <3> DEFINE c == <<"snHP", g, u>>
               p == <<c>>
    <3>1. u \in Resource /\ u \in Cached("um", g)
      BY <2>1
    <3>2. c[1] = "snHP" /\ c \in T
      BY <1>1, <3>1
    <3>3. snURLMap(g, u) = p \o Wait \o Dels({u})
      BY Zenon DEF snURLMap
    <3>4. \A r : Kind(r) = "hp" /\ Attr[r].region = g /\ u \in Uses[r] => Gets(c, r)
      BY DEF Gets
    <3> HIDE DEF c
    <3>5. p \in Seq(T) /\ Guarded(p, FALSE, S) /\ c \in ToSet(p)
      <4>1. \A r : ~Before(c, r, FALSE, S)
        BY <3>2 DEF Before
      <4> QED
        BY <3>2, <4>1, GuardedOne
    <3> HIDE DEF p
    <3>6. \A r \in alive \ errs : Before(<<"del", u>>, r, FALSE, S) => \E d \in ToSet(p) : Gets(d, r)
      BY <1>2, <3>1, <3>4, <3>5
    <3>7. <<"del", u>> \in T
      BY <1>1, <3>1
    <3>8. Guarded(p \o Wait \o Dels({u}), FALSE, S)
      BY <1>1, <3>1, <3>5, <3>6, <3>7, GuardedEnd, Zenon
    <3>9. p \o Wait \o Dels({u}) \in Seq(T)
      BY <1>1, <3>1, <3>5, WaitDels, Zenon
    <3> QED
      BY <2>2, <3>3, <3>8, <3>9
  <2>4. Guarded(Each(body), FALSE, S)
    BY <2>1, <2>2, <2>3, GuardedEach
  <2> QED
    BY <2>2, <2>4
<1> QED
  BY <1>3, <1>4


\* What an instruction turns into has its own guards
LEMMA ListGuard ==
  ASSUME SafeInv, TypeOK, NEW S, NEW ins, Lists(ins)
  PROVE  /\ ins \in Early(AllEarly) => Guarded(Expansion(ins), TRUE, S)
         /\ ins \in Late(AllLate) => Guarded(Expansion(ins), FALSE, S)
         /\ ins \in LibraryCode /\ (\A k \in DOMAIN cache : k[1] = "osPolicy") =>
              Guarded(Expansion(ins), FALSE, S)
<1> DEFINE e == Expansion(ins)
<1>1. ASSUME ins \in Early(AllEarly) PROVE Guarded(e, TRUE, S)
  <2>1. CASE ins[1] = "lbUM"
    <3>1. e = lbUM(ins[2])
      BY <2>1 DEF Expansion
    <3> HIDE DEF e
    <3> QED
      BY <3>1, MapGuard
  <2>2. CASE ins[1] # "lbUM"
    <3>1. e \in Seq(Early(EarlyKinds))
      BY <1>1, <2>2, EarlyShape DEF Shape
    <3>2. "um" \notin EarlyKinds /\ "network" \notin EarlyKinds
      BY DEF EarlyKinds
    <3>3. \A c \in Early(EarlyKinds) : \A r \in alive \ errs : ~Before(c, r, TRUE, S)
      BY <3>2, FreeCode
    <3> HIDE DEF e
    <3> QED
      BY <3>1, <3>3, GuardedFree
  <2> QED
    BY <2>1, <2>2
<1>2. ASSUME ins \in Late(AllLate) PROVE Guarded(e, FALSE, S)
  <2>1. CASE ins[1] = "snUM"
    <3>1. e = snUM(ins[2], ins[3])
      BY <2>1 DEF Expansion
    <3> HIDE DEF e
    <3> QED
      BY <3>1, MapGuard
  <2>2. CASE ins[1] # "snUM"
    <3>1. e \in Seq(Late(LateKinds))
      BY <1>2, <2>2, LateShape DEF Shape
    <3>2. "um" \notin LateKinds /\ "network" \notin LateKinds
      BY DEF LateKinds
    <3>3. \A c \in Late(LateKinds) : \A r \in alive \ errs : ~Before(c, r, FALSE, S)
      BY <3>2, FreeCode
    <3> HIDE DEF e
    <3> QED
      BY <3>1, <3>3, GuardedFree
  <2> QED
    BY <2>1, <2>2
<1>3. ASSUME ins \in LibraryCode, \A k \in DOMAIN cache : k[1] = "osPolicy"
      PROVE  Guarded(e, FALSE, S)
  <2>1. e \in Seq(LibraryCode)
    BY <1>3, LibraryShape DEF Shape
  <2>2. "um" \notin EarlyKinds /\ "network" \notin EarlyKinds
    BY DEF EarlyKinds
  <2>3. \A c \in LibraryCode : \A r \in alive \ errs : ~Before(c, r, FALSE, S)
    BY <2>2, FreeCode
  <2> HIDE DEF e
  <2> QED
    BY <2>1, <2>3, GuardedFree
<1> QED
  BY <1>1, <1>2, <1>3

\* What goes with a subnetwork
LEMMA SubnetHas ==
  ASSUME SafeInv, NEW n \in Resource, NEW s \in Resource, NEW g, g = Attr[s].region
  PROVE  /\ <<"snFR", g, n>> \in ToSet(cleanSubnetwork(n, s))
         /\ <<"snBS", g, n>> \in ToSet(cleanSubnetwork(n, s))
         /\ <<"rneg", g, n>> \in ToSet(cleanSubnetwork(n, s))
         /\ <<"zneg", g, n>> \in ToSet(cleanSubnetwork(n, s))
         /\ <<"del", s>> \in ToSet(cleanSubnetwork(n, s))
<1> DEFINE T == {<<"wait">>} \cup ({"del"} \X Resource)
                  \cup ({"snFR", "snBS", "rneg", "zneg"} \X {g} \X {n})
           a == <<"snFR", g, n>>
           b == <<"snBS", g, n>>
           c == <<"rneg", g, n>>
           d == <<"zneg", g, n>>
           front == <<a, b>>
           groups == <<c, d>>
<1>1. a \in T /\ b \in T /\ c \in T /\ d \in T /\ <<"wait">> \in T /\ {"del"} \X {s} \subseteq T
  OBVIOUS
<1>2. cleanSubnetwork(n, s) = front \o Wait \o groups \o Wait \o Dels({s})
  BY Zenon DEF cleanSubnetwork
<1> HIDE DEF T, a, b, c, d
<1>3. /\ front \in Seq(T) /\ a \in ToSet(front) /\ b \in ToSet(front)
      /\ groups \in Seq(T) /\ c \in ToSet(groups) /\ d \in ToSet(groups)
  <2>1. front \in Seq(T) /\ groups \in Seq(T)
    BY <1>1
  <2>2. /\ DOMAIN front = 1..2 /\ front[1] = a /\ front[2] = b
        /\ DOMAIN groups = 1..2 /\ groups[1] = c /\ groups[2] = d
    OBVIOUS
  <2>3. 1 \in 1..2 /\ 2 \in 1..2
    OBVIOUS
  <2> HIDE DEF front, groups
  <2> QED
    BY <2>1, <2>2, <2>3 DEF ToSet
<1>4. Wait \in Seq(T) /\ Dels({s}) \in Seq(T) /\ <<"del", s>> \in ToSet(Dels({s}))
  BY <1>1, DelsAll, DelsHas DEF Wait
<1> HIDE DEF front, groups
<1> DEFINE p == front \o Wait
           q == p \o groups
           u == q \o Wait
<1>5. p \in Seq(T) /\ {a, b} \subseteq ToSet(p)
  BY <1>3, <1>4, ConcatSet
<1> HIDE DEF p
<1>6. q \in Seq(T) /\ {a, b, c, d} \subseteq ToSet(q)
  BY <1>3, <1>5, ConcatSet
<1> HIDE DEF q
<1>7. u \in Seq(T) /\ {a, b, c, d} \subseteq ToSet(u)
  BY <1>4, <1>6, ConcatSet
<1> HIDE DEF u
<1>8. {a, b, c, d, <<"del", s>>} \subseteq ToSet(u \o Dels({s}))
  BY <1>4, <1>7, ConcatSet
<1>9. cleanSubnetwork(n, s) = u \o Dels({s})
  BY <1>2, Zenon DEF u, q, p
<1> QED
  BY <1>8, <1>9 DEF a, b, c, d

\* What goes with a network
LEMMA NetworkHas ==
  ASSUME SafeInv, NEW n \in Resource, NEW r
  PROVE  /\ r \in netMembers("firewall", n) \/ r \in netRoutes(n) =>
              <<"del", r>> \in ToSet(netParts(n))
         /\ r \in netSubnets(n) =>
              \A c \in ToSet(cleanSubnetwork(n, r)) : c \in ToSet(netParts(n))
<1> DEFINE T == Late(PartKinds)
           F == netMembers("firewall", n)
           R == netRoutes(n)
           S == netSubnets(n)
           body == [s \in S |-> cleanSubnetwork(n, s)]
<1>1. /\ F \subseteq Resource /\ R \subseteq Resource /\ S \subseteq Resource
      /\ {"del"} \X F \subseteq T /\ {"del"} \X R \subseteq T
      /\ \A s \in S : Kind(s) = "subnet"
  BY DEF SafeInv, netMembers, netRoutes, netSubnets, OfKind, Late, PartKinds
<1>2. netParts(n) = Dels(F) \o Each(body) \o Dels(R)
  BY DEF netParts
<1>3. \A s \in S : body[s] \in Seq(T)
  BY <1>1, SubnetShape DEF Shape
<1>4. IsFiniteSet(S) /\ body = [s \in S |-> body[s]] /\ \A s \in S : body[s] = cleanSubnetwork(n, s)
  BY <1>1, CleanupAssumption, FS_Subset
<1> HIDE DEF T, F, R, S, body
<1>5. /\ Dels(F) \in Seq(T) /\ Dels(R) \in Seq(T)
      /\ ToSet(Dels(F)) = {"del"} \X F /\ ToSet(Dels(R)) = {"del"} \X R
  BY <1>1, DelsAll
<1>6. Each(body) \in Seq(T) /\ ToSet(Each(body)) = UNION {ToSet(body[s]) : s \in S}
  <2>1. body \in [S -> Seq(T)]
    BY <1>3, <1>4
  <2> QED
    BY <1>4, <2>1, EachAll
<1> DEFINE p == Dels(F) \o Each(body)
<1>7. p \in Seq(T) /\ ToSet(p) = ToSet(Dels(F)) \cup ToSet(Each(body))
  BY <1>5, <1>6, ConcatSet
<1> HIDE DEF p
<1>8. ToSet(p \o Dels(R)) = ToSet(p) \cup ToSet(Dels(R))
  BY <1>5, <1>7, ConcatSet
<1>9. ToSet(netParts(n)) = (ToSet(Dels(F)) \cup ToSet(Each(body))) \cup ToSet(Dels(R))
  <2>1. netParts(n) = p \o Dels(R)
    BY <1>2, Zenon DEF p
  <2> QED
    BY <1>7, <1>8, <2>1, Zenon
<1>10. ASSUME r \in F \/ r \in R PROVE <<"del", r>> \in ToSet(netParts(n))
  <2>1. CASE r \in F
    <3>1. <<"del", r>> \in ToSet(Dels(F))
      BY <1>1, <2>1, DelsHas
    <3> QED
      BY <1>9, <3>1, Zenon
  <2>2. CASE r \in R
    <3>1. <<"del", r>> \in ToSet(Dels(R))
      BY <1>1, <2>2, DelsHas
    <3> QED
      BY <1>9, <3>1, Zenon
  <2> QED
    BY <1>10, <2>1, <2>2
<1>11. ASSUME r \in S, NEW c \in ToSet(cleanSubnetwork(n, r)) PROVE c \in ToSet(netParts(n))
  <2>1. c \in ToSet(Each(body))
    BY <1>4, <1>6, <1>11
  <2> QED
    BY <1>9, <2>1, Zenon
<1> QED
  BY <1>10, <1>11 DEF F, R, S

\* The networks go after what is in them, when the VMs are gone
LEMMA NetworksGuard ==
  ASSUME SafeInv, TypeOK, NEW S,
         \A s \in S : s \in alive /\ Kind(s) = "subnet" /\ ~Attr[s].auto,
         \A r \in alive \ errs : ~(Kind(r) = "instance" /\ Indicated(r))
  PROVE  Guarded(CleanNetworks, FALSE, S)
<1> DEFINE N == {m \in OfKind("network") : Indicated(m)}
           body == [n \in N |-> cleanNetwork(n)]
           D == Late(AllLate)
<1>1. N \subseteq Resource /\ \A n \in N : Kind(n) = "network"
  BY DEF SafeInv, OfKind
<1>2. IsFiniteSet(N)
  BY <1>1, CleanupAssumption, FS_Subset
<1>3. body = [n \in N |-> body[n]] /\ CleanNetworks = Each(body) /\ \A n \in N : body[n] = cleanNetwork(n)
  BY DEF CleanNetworks
<1> HIDE DEF N, body, D
<1>4. ASSUME NEW n \in N PROVE body[n] \in Seq(D) /\ Guarded(body[n], FALSE, S)
  <2>0. n \in Resource /\ Kind(n) = "network"
    BY <1>1
  <2> DEFINE p == netParts(n)
  <2>1. p \in Seq(Late(PartKinds)) /\ p \in Seq(D) /\ body[n] \in Seq(D)
    <3>1. Shape(p, Late(PartKinds), {"firewall", "fr", "hp", "route"}, {"firewall", "subnet", "route"})
      BY <2>0, NetworkShape
    <3>2. Shape(p, D, {"firewall", "fr", "hp", "route"}, {"firewall", "subnet", "route"})
      BY <3>1, CodeMono DEF D, PartKinds, AllLate
    <3>3. Shape(cleanNetwork(n), D, {"firewall", "fr", "hp", "route"}, {})
      BY <2>0, NetworkShape DEF D
    <3> QED
      BY <1>3, <3>1, <3>2, <3>3 DEF Shape
  <2>2. body[n] = p \o Wait \o Dels({n}) \o Wait
    BY <1>3, <2>0, NetworkShape
  <2>3. Guarded(p, FALSE, S)
    <3>1. "um" \notin PartKinds /\ "network" \notin PartKinds
      BY DEF PartKinds, LateKinds
    <3>2. \A c \in Late(PartKinds) : \A r \in alive \ errs : ~Before(c, r, FALSE, S)
      BY <3>1, FreeCode
    <3> HIDE DEF p
    <3> QED
      BY <2>1, <3>2, GuardedFree
  <2>4. ASSUME NEW r \in alive \ errs, Before(<<"del", n>>, r, FALSE, S)
        PROVE  \E c \in ToSet(p) : Gets(c, r)
    <3>1. Behind(n, r, S)
      BY <2>0, <2>4 DEF Before
    <3>2. r \in alive /\ r \in Resource /\ Attr[r].network = n /\ Kind(r) # "instance"
      BY <3>1 DEF Behind, SafeInv
    <3>3. CASE Kind(r) \in {"firewall", "subnet", "route"}
      <4>1. \/ r \in netMembers("firewall", n) \/ r \in netRoutes(n)
            \/ r \in netSubnets(n)
        BY <3>1, <3>2, <3>3 DEF Behind, netMembers, netRoutes, netSubnets, OfKind
      <4>2. r \in netSubnets(n) => <<"del", r>> \in ToSet(cleanSubnetwork(n, r))
        BY <2>0, <3>2, SubnetHas
      <4>3. <<"del", r>> \in ToSet(p)
        BY <2>0, <4>1, <4>2, NetworkHas
      <4> QED
        BY <4>3 DEF Gets
    <3>4. CASE Kind(r) \in {"fr", "bs", "rneg", "zneg"}
      <4>1. PICK s \in S : Attr[s].network = n /\ Attr[s].region = Attr[r].region
        BY <3>1, <3>4 DEF Behind
      <4>2. s \in netSubnets(n) /\ s \in Resource
        BY <4>1 DEF netSubnets, netMembers, OfKind, SafeInv
      <4> DEFINE g == Attr[r].region
      <4>3. g = Attr[s].region
        BY <4>1
      <4> HIDE DEF g
      <4>4. /\ <<"snFR", g, n>> \in ToSet(p) /\ <<"snBS", g, n>> \in ToSet(p)
            /\ <<"rneg", g, n>> \in ToSet(p) /\ <<"zneg", g, n>> \in ToSet(p)
        <5>1. /\ <<"snFR", g, n>> \in ToSet(cleanSubnetwork(n, s))
              /\ <<"snBS", g, n>> \in ToSet(cleanSubnetwork(n, s))
              /\ <<"rneg", g, n>> \in ToSet(cleanSubnetwork(n, s))
              /\ <<"zneg", g, n>> \in ToSet(cleanSubnetwork(n, s))
          BY <2>0, <4>2, <4>3, SubnetHas
        <5>2. \A c \in ToSet(cleanSubnetwork(n, s)) : c \in ToSet(p)
          BY <2>0, <4>2, NetworkHas
        <5> QED
          BY <5>1, <5>2
      <4>5. CASE Kind(r) = "fr"
        <5>1. Gets(<<"snFR", g, n>>, r)
          BY <3>2, <4>5 DEF Gets, g
        <5> QED
          BY <4>4, <5>1
      <4>6. CASE Kind(r) = "bs"
        <5>1. Gets(<<"snBS", g, n>>, r)
          BY <3>2, <4>6 DEF Gets, g
        <5> QED
          BY <4>4, <5>1
      <4>7. CASE Kind(r) \in {"rneg", "zneg"}
        <5>1. Gets(<<Kind(r), g, n>>, r)
          BY <3>1, <3>2, <4>7 DEF Gets, Behind, g
        <5> QED
          BY <4>4, <4>7, <5>1
      <4> QED
        BY <3>4, <4>5, <4>6, <4>7
    <3> QED
      BY <3>1, <3>2, <3>3, <3>4 DEF Behind
  <2>5. <<"wait">> \in D /\ <<"del", n>> \in D
    BY <2>0 DEF D, Late, AllLate
  <2> HIDE DEF p
  <2> DEFINE q == p \o Wait \o Dels({n})
  <2>6. Guarded(q, FALSE, S)
    BY <2>0, <2>1, <2>3, <2>4, <2>5, GuardedEnd, Zenon
  <2>7. q \in Seq(D)
    <3>1. Wait \in Seq(D)
      BY <2>5 DEF Wait
    <3>2. {n} \subseteq Resource /\ {"del"} \X {n} \subseteq D
      BY <2>0, <2>5
    <3>3. Dels({n}) \in Seq(D)
      BY <3>2, DelsAll
    <3>4. p \o Wait \in Seq(D)
      BY <2>1, <3>1
    <3> QED
      BY <3>3, <3>4
  <2>8. Wait \in Seq(D) /\ Guarded(Wait, FALSE, S)
    <3> DEFINE w == <<"wait">>
    <3>1. \A r \in alive \ errs : ~Before(w, r, FALSE, S)
      BY DEF Before
    <3>2. Wait = <<w>> /\ w \in D
      BY <2>5 DEF Wait
    <3> HIDE DEF w
    <3> QED
      BY <3>1, <3>2, GuardedOne
  <2> HIDE DEF q
  <2>9. Guarded(q \o Wait, FALSE, S)
    BY <2>6, <2>7, <2>8, GuardedThen
  <2> QED
    BY <2>1, <2>2, <2>9, Zenon DEF q
<1>5. Guarded(Each(body), FALSE, S)
  BY <1>2, <1>3, <1>4, GuardedEach
<1> QED
  BY <1>3, <1>5

\* Until CleanNetworks starts, it is to come, and then no more
LEMMA ToComeInPhase ==
  ASSUME NEW p
  PROVE  /\ p \in Seq(Early(AllEarly)) /\ todo = p \o <<<<"networks">>>> => NetworksToCome
         /\ todo \in Seq(Late(AllLate)) => ~NetworksToCome
         /\ todo \in Seq(LibraryCode) => ~NetworksToCome
<1> DEFINE n == <<"networks">>
<1>1. ASSUME p \in Seq(Early(AllEarly)), todo = p \o <<n>> PROVE NetworksToCome
  <2> DEFINE T == Early(AllEarly) \cup {n}
  <2>1. p \in Seq(T) /\ n \in T
    BY <1>1
  <2> HIDE DEF T
  <2>2. PICK q : q = <<n>> /\ q \in Seq(T) /\ n \in ToSet(q)
    <3>1. <<n>> \in Seq(T) /\ DOMAIN <<n>> = 1..1 /\ <<n>>[1] = n
      BY <2>1
    <3>2. n \in ToSet(<<n>>)
      BY <3>1 DEF ToSet
    <3> QED
      BY <3>1, <3>2
  <2>3. n \in ToSet(p \o q)
    BY <2>1, <2>2, ConcatSet
  <2> QED
    BY <1>1, <2>2, <2>3 DEF NetworksToCome
<1>2. n \notin Late(AllLate) /\ n \notin LibraryCode
  BY DEF Late, LibraryCode
<1>3. ASSUME NEW C, n \notin C, todo \in Seq(C) PROVE ~NetworksToCome
  BY <1>3, SetAt DEF NetworksToCome
<1> QED
  BY <1>1, <1>2, <1>3

\* A listing other than that of the networks guards itself, and deletes no subnetwork
LEMMA HeadGuard ==
  ASSUME SafeInv, TypeOK, PhaseInv, todo # <<>>, Lists(Head(todo)), Head(todo) # <<"networks">>
  PROVE  /\ Expansion(Head(todo)) \in Seq(SafeCode)
         /\ \A s \in Resource : Kind(s) = "subnet" => <<"del", s>> \notin ToSet(Expansion(Head(todo)))
         /\ \A S, r : \A i \in 1..Len(Expansion(Head(todo))) :
              r \in alive \ errs /\ Before(Expansion(Head(todo))[i], r, NetworksToCome, S) =>
                Settles(Expansion(Head(todo)), i, r)
<1> DEFINE n == <<"networks">>
           h == Head(todo)
           e == Expansion(h)
           Plain(C) == \A s \in Resource : Kind(s) = "subnet" => <<"del", s>> \notin C
           Own == \A S, r : \A i \in 1..Len(e) :
                    r \in alive \ errs /\ Before(e[i], r, NetworksToCome, S) => Settles(e, i, r)
<1>1. e \in Seq(SafeCode)
  <2>1. h \in SafeCode
    BY DEF SafeInv
  <2> QED
    BY <2>1, ExpandSafe
<1>2. ASSUME NEW C, e \in Seq(C), Plain(C), Own
      PROVE  (\A s \in Resource : Kind(s) = "subnet" => <<"del", s>> \notin ToSet(e)) /\ Own
  <2>1. \A x \in ToSet(e) : x \in C
    BY <1>2, SetAt
  <2> QED
    BY <1>2, <2>1
<1>3. ASSUME NetworksToCome, \A S : Guarded(e, TRUE, S) PROVE Own
  <2>1. \A c, r, S : Before(c, r, NetworksToCome, S) => Before(c, r, TRUE, S)
    BY <1>3 DEF Before
  <2> HIDE DEF e
  <2> QED
    BY <1>3, <2>1 DEF Guarded
<1>4. ASSUME ~NetworksToCome, \A S : Guarded(e, FALSE, S) PROVE Own
  <2>1. \A c, r, S : Before(c, r, NetworksToCome, S) => Before(c, r, FALSE, S)
    BY <1>4 DEF Before
  <2> HIDE DEF e
  <2> QED
    BY <1>4, <2>1 DEF Guarded
<1>5. CASE \E p \in Seq(Early(AllEarly)) : todo = p \o <<n>>
  <2>1. PICK p \in Seq(Early(AllEarly)) : todo = p \o <<n>>
    BY <1>5
  <2>2. p # <<>>
    <3>1. ASSUME p = <<>> PROVE FALSE
      <4>1. todo = <<n>>
        BY <2>1, <3>1
      <4> QED
        BY <4>1
    <3> QED
      BY <3>1
  <2>3. h \in Early(AllEarly)
    <3> DEFINE T == Early(AllEarly) \cup {n}
    <3>1. p \in Seq(T) /\ <<n>> \in Seq(T)
      OBVIOUS
    <3>2. h = Head(p)
      BY <2>1, <2>2, <3>1, ThenHead
    <3> QED
      BY <2>2, <3>2
  <2>4. \A S : Guarded(e, TRUE, S)
    BY <2>3, ListGuard
  <2>5. NetworksToCome
    BY <2>1, ToComeInPhase
  <2>6. e \in Seq(Early(AllEarly))
    BY <2>3, EarlyShape DEF Shape
  <2>7. Plain(Early(AllEarly))
    BY DEF Early, AllEarly, EarlyKinds
  <2>8. Own
    BY <1>3, <2>4, <2>5
  <2> HIDE DEF e, Own, Plain
  <2> QED
    BY <1>1, <1>2, <2>6, <2>7, <2>8 DEF e, Own
<1>6. CASE todo \in Seq(Late(AllLate))
  <2>1. h \in Late(AllLate)
    BY <1>6
  <2>2. \A S : Guarded(e, FALSE, S)
    BY <2>1, ListGuard
  <2>3. ~NetworksToCome
    BY <1>6, ToComeInPhase
  <2>4. e \in Seq(Late(MapKinds))
    BY <2>1, LateShape DEF Shape
  <2>5. Plain(Late(MapKinds))
    BY DEF Late, MapKinds, LateKinds
  <2>6. Own
    BY <1>4, <2>2, <2>3
  <2> HIDE DEF e, Own, Plain
  <2> QED
    BY <1>1, <1>2, <2>4, <2>5, <2>6 DEF e, Own
<1>7. CASE todo \in Seq(LibraryCode) /\ \A k \in DOMAIN cache : k[1] = "osPolicy"
  <2>1. h \in LibraryCode
    BY <1>7
  <2>2. \A S : Guarded(e, FALSE, S)
    BY <1>7, <2>1, ListGuard
  <2>3. ~NetworksToCome
    BY <1>7, ToComeInPhase
  <2>4. e \in Seq(LibraryCode)
    BY <1>7, <2>1, LibraryShape DEF Shape
  <2>5. Plain(LibraryCode)
    BY DEF LibraryCode
  <2>6. Own
    BY <1>4, <2>2, <2>3
  <2> HIDE DEF e, Own, Plain
  <2> QED
    BY <1>1, <1>2, <2>4, <2>5, <2>6 DEF e, Own
<1> QED
  BY <1>5, <1>6, <1>7 DEF PhaseInv

\* But for the step into CleanNetworks, no more has to be over than before
LEMMA LessToCome ==
  ASSUME SafeInv, TypeOK, PhaseInv, [Next]_vars, errs' \subseteq Resource,
         ~(List /\ Head(todo) = <<"networks">>)
  PROVE  /\ NetworksToCome => NetworksToCome'
         /\ Subnets' \subseteq Subnets
<1> DEFINE h == Head(todo)
           t == Tail(todo)
           n == <<"networks">>
<1>1. todo # <<>> =>
        /\ h \in SafeCode /\ t \in Seq(SafeCode) /\ ToSet(todo) = {h} \cup ToSet(t)
  BY HeadTail DEF SafeInv
<1>2. ASSUME ~UNCHANGED todo
      PROVE  /\ todo # <<>> /\ UNCHANGED <<alive, killed>>
             /\ (n \in ToSet(todo) => n \in ToSet(todo'))
             /\ \A s \in Resource : Kind(s) = "subnet" /\ <<"del", s>> \in ToSet(todo') =>
                  <<"del", s>> \in ToSet(todo)
             /\ \A s \in running' \cup errs' :
                  s \in running \cup errs \/ <<"del", s>> \in ToSet(todo)
  <2>1. CASE List
    <3>1. /\ todo # <<>> /\ Lists(h) /\ todo' = Expansion(h) \o t /\ h # n
          /\ UNCHANGED <<alive, killed, running, errs>>
      BY <2>1 DEF List
    <3>2. /\ Expansion(h) \in Seq(SafeCode)
          /\ \A s \in Resource : Kind(s) = "subnet" => <<"del", s>> \notin ToSet(Expansion(h))
      BY <3>1, HeadGuard
    <3>3. ToSet(todo') = ToSet(Expansion(h)) \cup ToSet(t)
      <4> DEFINE e == Expansion(h)
      <4>1. e \in Seq(SafeCode) /\ t \in Seq(SafeCode) /\ todo' = e \o t
        BY <1>1, <3>1, <3>2
      <4> HIDE DEF e, t
      <4>2. ToSet(e \o t) = ToSet(e) \cup ToSet(t)
        BY <4>1, ConcatSet
      <4> QED
        BY <4>1, <4>2 DEF e
    <3> QED
      BY <1>1, <3>1, <3>2, <3>3
  <2>2. CASE ListFails
    <3>1. h[1] \in Instructions /\ h[1] \in errs'
      BY <1>1, <2>2 DEF ListFails, Lists, SafeCode, Instructions, Entries
    <3> QED
      BY <3>1, CleanupAssumption
  <2>3. CASE Start
    <3>1. /\ todo # <<>> /\ h[1] = "del" /\ todo' = t /\ running' = running \cup {h[2]}
          /\ UNCHANGED <<alive, killed, errs>>
      BY <2>3 DEF Start
    <3>2. h = <<"del", h[2]>>
      BY <1>1, <3>1 DEF SafeCode, Entries
    <3>3. h # n
      BY <3>1
    <3> QED
      BY <1>1, <3>1, <3>2, <3>3
  <2>4. CASE Waited
    <3>1. /\ todo # <<>> /\ h[1] = "wait" /\ todo' = t /\ UNCHANGED <<alive, killed, errs, running>>
      BY <2>4 DEF Waited
    <3>2. h # n
      BY <3>1
    <3> QED
      BY <1>1, <3>1, <3>2
  <2> QED
    BY <1>2, <2>1, <2>2, <2>3, <2>4 DEF Next, Finish, Vanish, vars
<1>3. CASE ~UNCHANGED todo
  <2>1. NetworksToCome => NetworksToCome'
    BY <1>2, <1>3 DEF NetworksToCome
  <2>2. Subnets' \subseteq Subnets
    BY <1>2, <1>3 DEF Subnets
  <2> QED
    BY <2>1, <2>2
<1>4. CASE UNCHANGED todo
  <2>1. alive' \cup killed' \cup errs' \cup running' \subseteq alive \cup killed \cup errs \cup running
    <3>1. CASE List \/ ListFails \/ Start \/ Waited
      <4>1. todo # <<>> /\ todo \in Seq(SafeCode)
        BY <3>1 DEF List, ListFails, Start, Waited, SafeInv
      <4>2. Tail(todo) # todo
        BY <4>1
      <4>3. List
        BY <1>4, <3>1, <4>2 DEF ListFails, Start, Waited
      <4> QED
        BY <4>3 DEF List
    <3>2. ASSUME NEW r \in Resource, Finish(r)
          PROVE  alive' \cup killed' \cup errs' \cup running' \subseteq alive \cup killed \cup errs \cup running
      BY <3>2 DEF Finish, DoneAfter, Deletes
    <3>3. ASSUME NEW r \in Resource, Vanish(r)
          PROVE  alive' \cup killed' \cup errs' \cup running' \subseteq alive \cup killed \cup errs \cup running
      BY <3>3 DEF Vanish
    <3>4. CASE UNCHANGED vars
      BY <3>4 DEF vars
    <3> QED
      BY <3>1, <3>2, <3>3, <3>4 DEF Next
  <2> QED
    BY <1>4, <2>1 DEF NetworksToCome, Subnets
<1> QED
  BY <1>3, <1>4

\* GuardInv after a step, with policies that stay what they are
LEMMA GuardFrom ==
  ASSUME call' = call,
         ~call.dryRun /\ errs' \subseteq Resource =>
           \A r \in alive' \ errs' :
             /\ \A i \in 1..Len(todo') :
                  Before(todo'[i], r, NetworksToCome', Subnets') =>
                    Settles(todo', i, r) \/ (r \in running' /\ \E k \in 1..(i - 1) : todo'[k] = <<"wait">>)
             /\ \A x \in running' : ~Before(<<"del", x>>, r, NetworksToCome', Subnets')
  PROVE  GuardInv'
<1>1. \A q : Indicated(q)' <=> Indicated(q)
  BY DEF Indicated, cleanupPolicy
<1>2. ASSUME NEW r, NEW i PROVE
        /\ Before(todo[i], r, NetworksToCome, Subnets)' <=> Before(todo'[i], r, NetworksToCome', Subnets')
        /\ Before(<<"del", i>>, r, NetworksToCome, Subnets)' <=> Before(<<"del", i>>, r, NetworksToCome', Subnets')
  BY <1>1 DEF Before, Behind
<1>3. ASSUME NEW r, NEW i PROVE Settles(todo, i, r)' <=> Settles(todo', i, r)
  BY <1>1 DEF Settles, Gets
<1>4. ASSUME NEW r, NEW i
      PROVE  Waits(i, r)' <=> r \in running' /\ \E k \in 1..(i - 1) : todo'[k] = <<"wait">>
  BY DEF Waits
<1> QED
  BY <1>2, <1>3, <1>4 DEF GuardInv

\* What is settled without the first instruction
LEMMA RestSettles ==
  ASSUME NEW T, NEW s \in Seq(T), s # <<>>, NEW i \in 1..Len(Tail(s)), NEW r,
         Settles(s, i + 1, r)
  PROVE  \/ Settles(Tail(s), i, r)
         \/ Kind(r) = "instance" /\ Head(s) = <<"instances">>
         \/ Gets(Head(s), r) /\ \E k \in 1..(i - 1) : Tail(s)[k] = <<"wait">>
<1> DEFINE t == Tail(s)
<1>1. /\ Len(s) \in Nat /\ Len(s) > 0 /\ Head(s) = s[1]
      /\ Len(t) = Len(s) - 1 /\ \A j \in 1..Len(t) : t[j] = s[j + 1]
  OBVIOUS
<1> HIDE DEF t
<1>2. \A j \in 2..i : j - 1 \in 1..(i - 1) /\ j - 1 \in 1..Len(t) /\ t[j - 1] = s[j]
  <2> TAKE j \in 2..i
  <2>1. j - 1 \in 1..(i - 1) /\ j - 1 \in 1..Len(t) /\ (j - 1) + 1 = j
    BY <1>1 DEF t
  <2> QED
    BY <1>1, <2>1
<1>3. (i + 1) - 1 = i /\ i \in 1..Len(t)
  BY DEF t
<1>4. CASE Kind(r) = "instance" /\ \E j \in 1..i : s[j] = <<"instances">>
  <2>1. PICK j \in 1..i : s[j] = <<"instances">>
    BY <1>4
  <2>2. CASE j = 1
    BY <1>1, <1>4, <2>1, <2>2
  <2>3. CASE j # 1
    <3>1. j \in 2..i
      BY <2>3
    <3> QED
      BY <1>2, <1>4, <2>1, <3>1 DEF Settles, t
  <2> QED
    BY <2>2, <2>3
<1>5. CASE \E k \in 1..i : \E j \in 1..(k - 1) : s[k] = <<"wait">> /\ Gets(s[j], r)
  <2>1. PICK k \in 1..i : \E j \in 1..(k - 1) : s[k] = <<"wait">> /\ Gets(s[j], r)
    BY <1>5
  <2>2. PICK j \in 1..(k - 1) : s[k] = <<"wait">> /\ Gets(s[j], r)
    BY <2>1
  <2>3. k \in 2..i
    OBVIOUS
  <2>4. k - 1 \in 1..(i - 1) /\ t[k - 1] = <<"wait">>
    BY <1>2, <2>2, <2>3
  <2>5. CASE j = 1
    BY <1>1, <2>2, <2>4, <2>5 DEF t
  <2>6. CASE j # 1
    <3>1. j \in 2..i /\ j - 1 \in 1..((k - 1) - 1)
      BY <2>6
    <3>2. t[j - 1] = s[j]
      BY <1>2, <3>1
    <3>3. Settles(t, i, r)
      BY <2>2, <2>4, <3>1, <3>2 DEF Settles
    <3> QED
      BY <3>3 DEF t
  <2> QED
    BY <2>5, <2>6
<1> QED
  BY <1>3, <1>4, <1>5 DEF Settles

\* The deletion of the VMs ends with a wait
LEMMA InstancesSettled ==
  ASSUME SafeInv, NEW r \in alive, Kind(r) = "instance", Indicated(r)
  PROVE  \E k \in 1..Len(CleanInstances) : \E j \in 1..(k - 1) :
           CleanInstances[k] = <<"wait">> /\ CleanInstances[j] = <<"del", r>>
<1> DEFINE S == {q \in OfKind("instance") : Indicated(q)}
           T == {<<"wait">>} \cup ({"del"} \X Resource)
<1>1. S \subseteq Resource /\ r \in S /\ {"del"} \X S \subseteq T /\ <<"wait">> \in T
  BY DEF SafeInv, OfKind
<1>2. CleanInstances = Dels(S) \o Wait
  BY DEF CleanInstances, Simple
<1> HIDE DEF S, T
<1>3. PICK d : d = Dels(S) /\ d \in Seq(T) /\ <<"del", r>> \in ToSet(d)
  BY <1>1, DelsAll, DelsHas
<1>4. PICK v : v = Wait /\ v \in Seq(T) /\ Len(v) = 1 /\ v[1] = <<"wait">>
  <2> DEFINE w == <<"wait">>
  <2>1. <<w>> \in Seq(T) /\ Len(<<w>>) = 1 /\ <<w>>[1] = w
    BY <1>1
  <2>2. Wait = <<w>>
    BY DEF Wait
  <2> QED
    BY <2>1, <2>2
<1>5. PICK j \in 1..Len(d) : d[j] = <<"del", r>>
  BY <1>3, SetAt
<1> DEFINE u == d \o v
<1>6. /\ Len(d) \in Nat /\ Len(u) = Len(d) + Len(v)
      /\ \A i \in 1..Len(d) : u[i] = d[i]
      /\ \A i \in 1..Len(v) : u[Len(d) + i] = v[i]
  BY <1>3, <1>4, ThenAt
<1> HIDE DEF u
<1>7. /\ Len(d) + 1 \in 1..Len(u) /\ u[Len(d) + 1] = <<"wait">>
      /\ j \in 1..((Len(d) + 1) - 1) /\ u[j] = <<"del", r>>
  BY <1>4, <1>5, <1>6
<1>8. CleanInstances = u
  BY <1>2, <1>3, <1>4 DEF u
<1> QED
  BY <1>7, <1>8

\* CleanNetworks deletes what it has found
LEMMA NetworksLive ==
  ASSUME SafeInv
  PROVE  \A x \in ToSet(CleanNetworks) : x[1] = "del" => x[2] \in alive
<1> DEFINE T == {<<"wait">>} \cup ({"del"} \X alive)
                  \cup ({"snFR", "snBS", "rneg", "zneg"} \X Places \X Resource)
           N == {m \in OfKind("network") : Indicated(m)}
           body == [n \in N |-> cleanNetwork(n)]
<1>1. alive \subseteq Resource /\ N \subseteq alive
  BY DEF SafeInv, OfKind
<1>2. IsFiniteSet(N)
  BY <1>1, CleanupAssumption, FS_Subset
<1>3. {"del"} \X alive \subseteq T /\ <<"wait">> \in T
  OBVIOUS
<1>4. \A g \in Places : \A n \in Resource :
        <<"snFR", g, n>> \in T /\ <<"snBS", g, n>> \in T /\ <<"rneg", g, n>> \in T /\ <<"zneg", g, n>> \in T
  OBVIOUS
<1>5. \A x \in T : x[1] = "del" => x[2] \in alive
  OBVIOUS
<1>6. body = [n \in N |-> body[n]] /\ CleanNetworks = Each(body) /\ \A n \in N : body[n] = cleanNetwork(n)
  BY DEF CleanNetworks
<1> HIDE DEF T, N, body
<1>7. Wait \in Seq(T)
  BY <1>3 DEF Wait
<1>8. ASSUME NEW S, S \subseteq alive PROVE Dels(S) \in Seq(T)
  <2>1. S \subseteq Resource /\ {"del"} \X S \subseteq T
    BY <1>1, <1>3, <1>8
  <2> QED
    BY <2>1, DelsAll
<1>9. <<>> \in Seq(T) /\ \A a, b \in Seq(T) : a \o b \in Seq(T)
  OBVIOUS
<1>10. ASSUME NEW n \in N PROVE body[n] \in Seq(T)
  <2> DEFINE S == {m \in netMembers("subnet", n) : ~Attr[m].auto}
             R == {r \in netMembers("route", n) : ~Attr[r].auto}
             F == netMembers("firewall", n)
             subs == [s \in S |-> cleanSubnetwork(n, s)]
  <2>1. S \subseteq alive /\ R \subseteq alive /\ F \subseteq alive /\ n \in Resource /\ {n} \subseteq alive
    BY <1>1 DEF netMembers, OfKind
  <2>2. cleanNetwork(n) = Dels(F) \o Each(subs) \o Dels(R) \o Wait \o Dels({n}) \o Wait
    BY Zenon DEF cleanNetwork
  <2>3. IsFiniteSet(S) /\ subs = [s \in S |-> subs[s]] /\ \A s \in S : subs[s] = cleanSubnetwork(n, s)
    BY <1>1, <2>1, CleanupAssumption, FS_Subset
  <2> HIDE DEF S, R, F, subs
  <2>4. ASSUME NEW s \in S PROVE subs[s] \in Seq(T)
    <3> DEFINE g == Attr[s].region
               front == <<<<"snFR", g, n>>, <<"snBS", g, n>>>>
               groups == <<<<"rneg", g, n>>, <<"zneg", g, n>>>>
    <3>1. s \in alive /\ s \in Resource /\ g \in Places
      BY <1>1, <2>1 DEF Places
    <3>2. cleanSubnetwork(n, s) = front \o Wait \o groups \o Wait \o Dels({s})
      BY Zenon DEF cleanSubnetwork
    <3> HIDE DEF g
    <3>3. front \in Seq(T) /\ groups \in Seq(T)
      <4>1. <<"snFR", g, n>> \in T /\ <<"snBS", g, n>> \in T /\ <<"rneg", g, n>> \in T /\ <<"zneg", g, n>> \in T
        BY <1>4, <2>1, <3>1
      <4> QED
        BY <4>1
    <3>4. Dels({s}) \in Seq(T)
      BY <1>8, <3>1
    <3> HIDE DEF front, groups
    <3>5. front \o Wait \o groups \o Wait \o Dels({s}) \in Seq(T)
      BY <1>7, <1>9, <3>3, <3>4, Zenon
    <3> QED
      BY <2>3, <3>2, <3>5
  <2>5. Each(subs) \in Seq(T)
    BY <1>9, <2>3, <2>4, EachClosed
  <2>6. Dels(F) \in Seq(T) /\ Dels(R) \in Seq(T) /\ Dels({n}) \in Seq(T)
    BY <1>8, <2>1
  <2>7. Dels(F) \o Each(subs) \o Dels(R) \o Wait \o Dels({n}) \o Wait \in Seq(T)
    BY <1>7, <1>9, <2>5, <2>6, Zenon
  <2> QED
    BY <1>6, <2>2, <2>7
<1>11. Each(body) \in Seq(T)
  BY <1>2, <1>6, <1>9, <1>10, EachClosed
<1> QED
  BY <1>5, <1>6, <1>11, SetAt

\* Before the step into CleanNetworks no VM is left, and after it the guards are those of the
\* networks
LEMMA GuardNetworks ==
  ASSUME SafeInv, TypeOK, PhaseInv, SegmentInv, GuardInv, List, Head(todo) = <<"networks">>,
         ~call.dryRun, errs \subseteq Resource, NEW r \in alive' \ errs'
  PROVE  /\ \A i \in 1..Len(todo') :
              Before(todo'[i], r, NetworksToCome', Subnets') => Settles(todo', i, r)
         /\ \A x \in running' : ~Before(<<"del", x>>, r, NetworksToCome', Subnets')
<1> DEFINE n == <<"networks">>
<1>1. /\ todo # <<>> /\ todo' = Expansion(n) \o Tail(todo)
      /\ UNCHANGED <<call, running, alive, errs, killed>>
  BY DEF List
<1>2. Expansion(n) = CleanNetworks
  BY DEF Expansion
<1>3. todo = <<n>> /\ NetworksToCome
      /\ (\A x \in running : Kind(x) \in AllEarly)
      /\ \A x \in (killed \cup errs) \cap Resource : Kind(x) # "subnet"
  <2>1. n \notin Late(AllLate) /\ n \notin LibraryCode /\ n \notin Early(AllEarly)
    BY DEF Late, LibraryCode, Early
  <2>2. todo \notin Seq(Late(AllLate)) /\ todo \notin Seq(LibraryCode)
    <3>1. ASSUME NEW C, todo \in Seq(C), n \notin C PROVE FALSE
      <4>1. Head(todo) \in C
        BY <1>1, <3>1
      <4> QED
        BY <3>1, <4>1
    <3> QED
      BY <2>1, <3>1
  <2>3. /\ \E p \in Seq(Early(AllEarly)) : todo = p \o <<n>>
        /\ \A x \in running : Kind(x) \in AllEarly
        /\ \A x \in (killed \cup errs) \cap Resource : Kind(x) # "subnet"
    BY <2>2 DEF PhaseInv
  <2>4. PICK p \in Seq(Early(AllEarly)) : todo = p \o <<n>>
    BY <2>3
  <2>5. ASSUME p # <<>> PROVE FALSE
    <3> DEFINE T == Early(AllEarly) \cup {n}
    <3>1. p \in Seq(T) /\ <<n>> \in Seq(T)
      OBVIOUS
    <3>2. Head(todo) = Head(p)
      BY <2>4, <2>5, <3>1, ThenHead
    <3>3. Head(p) \in Early(AllEarly)
      BY <2>5
    <3> QED
      BY <2>1, <3>2, <3>3
  <2>6. todo = <<n>>
    <3>1. p = <<>> /\ <<n>> \in Seq({n})
      BY <2>5
    <3>2. <<>> \o <<n>> = <<n>>
      OBVIOUS
    <3> QED
      BY <2>4, <3>1, <3>2
  <2> QED
    BY <2>3, <2>4, <2>6, ToComeInPhase
<1>4. CleanNetworks \in Seq(Late(AllLate))
  BY NetworksShape DEF Shape
<1>5. todo' = CleanNetworks
  <2>1. Tail(todo) = <<>>
    BY <1>3
  <2>2. CleanNetworks \o <<>> = CleanNetworks
    BY <1>4
  <2> QED
    BY <1>1, <1>2, <2>1, <2>2
<1>6. ~NetworksToCome'
  <2>1. n \notin Late(AllLate)
    BY DEF Late
  <2>2. n \notin ToSet(CleanNetworks)
    BY <1>4, <2>1, SetAt
  <2> QED
    BY <1>5, <2>2 DEF NetworksToCome
<1>7. PICK Z : Z = Subnets'
  OBVIOUS
<1>8. \A s \in Z : s \in alive /\ Kind(s) = "subnet" /\ ~Attr[s].auto
  <2> TAKE s \in Z
  <2>1. /\ s \in Resource /\ Kind(s) = "subnet" /\ ~Attr[s].auto
        /\ s \in alive \cup killed \cup errs \cup running \/ <<"del", s>> \in ToSet(todo')
    BY <1>1, <1>7 DEF Subnets
  <2>2. s \notin killed \cup errs
    BY <1>3, <2>1
  <2>3. s \notin running
    BY <1>3, <2>1 DEF AllEarly, EarlyKinds
  <2>4. <<"del", s>> \in ToSet(todo') => s \in alive
    <3> DEFINE c == <<"del", s>>
    <3>1. c[1] = "del" /\ c[2] = s
      OBVIOUS
    <3> HIDE DEF c
    <3>2. c \in ToSet(CleanNetworks) => c[2] \in alive
      BY <3>1, NetworksLive
    <3> QED
      BY <1>5, <3>1, <3>2 DEF c
  <2> QED
    BY <2>1, <2>2, <2>3, <2>4
<1>9. \A q \in alive \ errs : ~(Kind(q) = "instance" /\ Indicated(q))
  <2> SUFFICES ASSUME NEW q \in alive \ errs, Kind(q) = "instance", Indicated(q) PROVE FALSE
    OBVIOUS
  <2>1. Len(todo) = 1 /\ todo[1] = n /\ 1 \in 1..Len(todo)
    BY <1>3
  <2>2. Before(todo[1], q, NetworksToCome, Subnets)
    BY <2>1 DEF Before
  <2>3. Settles(todo, 1, q) \/ Waits(1, q)
    BY <2>1, <2>2 DEF GuardInv
  <2>4. 1..(1 - 1) = {}
    OBVIOUS
  <2> QED
    BY <2>3, <2>4 DEF Settles, Waits
<1>10. Guarded(CleanNetworks, FALSE, Z)
  BY <1>8, <1>9, NetworksGuard
<1>11. \A c : Before(c, r, NetworksToCome', Subnets') => Before(c, r, FALSE, Z)
  BY <1>6, <1>7 DEF Before
<1>12. \A i \in 1..Len(todo') :
         Before(todo'[i], r, NetworksToCome', Subnets') => Settles(todo', i, r)
  <2>1. r \in alive \ errs
    BY <1>1
  <2>2. \A i \in 1..Len(CleanNetworks) :
          Before(CleanNetworks[i], r, NetworksToCome', Subnets') => Settles(CleanNetworks, i, r)
    BY <1>10, <1>11, <2>1 DEF Guarded
  <2> QED
    BY <1>5, <2>2
<1>13. ASSUME NEW x \in running' PROVE ~Before(<<"del", x>>, r, NetworksToCome', Subnets')
  <2>1. x \in running /\ Kind(x) \in AllEarly
    BY <1>1, <1>3, <1>13
  <2>2. Kind(x) # "network"
    BY <2>1 DEF AllEarly, EarlyKinds
  <2>3. Kind(x) # "um"
    <3>1. n \in Opening(todo)
      <4>1. todo \in Seq(SafeCode) /\ todo # <<>>
        BY <1>1 DEF SafeInv
      <4>2. Head(todo) \in Opening(todo)
        BY <4>1, RestOpens
      <4> QED
        BY <4>2
    <3>2. "firewall" \in Lead(n)
      BY DEF Lead
    <3>3. Together(Kind(x), "firewall")
      BY <2>1, <3>1, <3>2 DEF SegmentInv, Fit
    <3> QED
      BY <3>3 DEF Together, Parts
  <2> QED
    BY <2>2, <2>3 DEF Before
<1> QED
  BY <1>12, <1>13

\* A listing keeps what is settled
LEMMA GuardList ==
  ASSUME SafeInv, TypeOK, PhaseInv, ListsComplete, List, Head(todo) # <<"networks">>,
         NEW r \in alive \ errs, NEW i \in 1..Len(todo'),
         Before(todo'[i], r, NetworksToCome, Subnets),
         \A m \in 1..Len(todo) :
           Before(todo[m], r, NetworksToCome, Subnets) => Settles(todo, m, r) \/ Waits(m, r)
  PROVE  Settles(todo', i, r) \/ (r \in running /\ \E k \in 1..(i - 1) : todo'[k] = <<"wait">>)
<1> PICK S : S = Subnets
  OBVIOUS
<1> PICK e : e = Expansion(Head(todo))
  OBVIOUS
<1> PICK u : u = todo'
  OBVIOUS
<1>a. todo # <<>> /\ Lists(Head(todo)) /\ u = e \o Tail(todo)
  BY DEF List
<1>b. i \in 1..Len(u) /\ Before(u[i], r, NetworksToCome, S)
  OBVIOUS
<1>c. \A m \in 1..Len(todo) :
        Before(todo[m], r, NetworksToCome, S) => Settles(todo, m, r) \/ Waits(m, r)
  OBVIOUS
<1> SUFFICES Settles(u, i, r) \/ (r \in running /\ \E k \in 1..(i - 1) : u[k] = <<"wait">>)
  OBVIOUS
<1> DEFINE h == Head(todo)
<1>1. PICK t : t = Tail(todo) /\ t \in Seq(SafeCode) /\ e \in Seq(SafeCode)
  <2>1. todo \in Seq(SafeCode)
    BY DEF SafeInv
  <2>2. Tail(todo) \in Seq(SafeCode)
    BY <1>a, <2>1
  <2>3. Expansion(Head(todo)) \in Seq(SafeCode)
    BY <1>a, HeadGuard
  <2>4. e \in Seq(SafeCode)
    BY <2>3
  <2> QED
    BY <2>2, <2>4
<1>2. /\ u \in Seq(SafeCode)
      /\ Len(e) \in Nat /\ Len(t) \in Nat /\ Len(u) = Len(e) + Len(t)
      /\ \A j \in 1..Len(e) : u[j] = e[j]
      /\ \A j \in 1..Len(t) : u[Len(e) + j] = t[j]
      /\ \A j \in 1..Len(u) : j \in 1..Len(e) \/ (j - Len(e) \in 1..Len(t) /\ u[j] = t[j - Len(e)])
  <2>1. u = e \o t
    BY <1>1, <1>a
  <2> QED
    BY <1>1, <2>1, ThenAt
<1>3. /\ \A j \in 1..Len(e) : Settles(e, j, r) => Settles(u, j, r)
      /\ \A j \in 1..Len(t) : Settles(t, j, r) => Settles(u, Len(e) + j, r)
  <2>1. u = e \o t
    BY <1>1, <1>a
  <2> QED
    BY <1>1, <2>1, SettlesThen
<1>4. /\ Len(todo) \in Nat /\ Len(t) = Len(todo) - 1 /\ todo[1] = h
      /\ \A j \in 1..Len(t) : j + 1 \in 1..Len(todo) /\ t[j] = todo[j + 1]
  <2>1. todo \in Seq(SafeCode)
    BY DEF SafeInv
  <2> QED
    BY <1>1, <1>a, <2>1
<1>5. r \in alive /\ r \in Resource
  BY DEF SafeInv
<1>6. CASE i \in 1..Len(e)
  <2>1. Before(e[i], r, NetworksToCome, S)
    BY <1>2, <1>6, <1>b
  <2>2. Settles(e, i, r)
    BY <1>6, <1>a, <2>1, HeadGuard
  <2> QED
    BY <1>3, <1>6, <2>2
<1>7. CASE i \notin 1..Len(e)
  <2>1. PICK m : m = i - Len(e) /\ m \in 1..Len(t) /\ u[i] = t[m] /\ i = Len(e) + m
    <3>1. i - Len(e) \in 1..Len(t) /\ u[i] = t[i - Len(e)]
      BY <1>2, <1>7, <1>b
    <3>2. i \in Int /\ Len(e) \in Int
      BY <1>2
    <3>3. i = Len(e) + (i - Len(e))
      BY <3>2
    <3> QED
      BY <3>1, <3>3
  <2>2. m + 1 \in 1..Len(todo) /\ t[m] = todo[m + 1]
    BY <1>4, <2>1
  <2>3. Settles(todo, m + 1, r) \/ Waits(m + 1, r)
    BY <1>b, <1>c, <2>1, <2>2
  <2>4. \A k \in 1..(m - 1) : k \in 1..Len(t) /\ Len(e) + k \in 1..(i - 1) /\ u[Len(e) + k] = t[k]
    <3> TAKE k \in 1..(m - 1)
    <3> DEFINE a == Len(e)
               b == Len(t)
    <3>1. a \in Nat /\ b \in Nat /\ m \in 1..b /\ i = a + m /\ k \in 1..(m - 1)
      BY <1>2, <2>1
    <3> HIDE DEF a, b
    <3>2. k \in 1..b /\ a + k \in 1..(i - 1)
      BY <3>1
    <3> QED
      BY <1>2, <3>2 DEF a, b
  <2>5. CASE Waits(m + 1, r)
    <3>1. (m + 1) - 1 = m
      BY <2>1
    <3>2. PICK k \in 1..m : todo[k] = <<"wait">>
      BY <2>5, <3>1 DEF Waits
    <3>3. k # 1
      BY <1>4, <1>a, <3>2 DEF Lists
    <3>4. k - 1 \in 1..(m - 1) /\ (k - 1) + 1 = k
      BY <2>1, <3>3
    <3>5. u[Len(e) + (k - 1)] = <<"wait">> /\ Len(e) + (k - 1) \in 1..(i - 1)
      BY <1>4, <2>4, <3>2, <3>4
    <3> QED
      BY <2>5, <3>5 DEF Waits
  <2>6. CASE Settles(todo, m + 1, r)
    <3>1. \/ Settles(t, m, r)
          \/ Kind(r) = "instance" /\ h = <<"instances">>
          \/ Gets(h, r) /\ \E k \in 1..(m - 1) : t[k] = <<"wait">>
      <4>1. todo \in Seq(SafeCode) /\ m \in 1..Len(Tail(todo))
        BY <1>1, <2>1 DEF SafeInv
      <4> QED
        BY <1>1, <1>a, <2>6, <4>1, RestSettles
    <3>2. CASE Settles(t, m, r)
      BY <1>3, <2>1, <3>2
    <3>3. CASE Kind(r) = "instance" /\ h = <<"instances">>
      <4>1. Indicated(r)
        BY <1>b, <3>3 DEF Before, Behind
      <4>2. e = CleanInstances
        <5>1. h[1] = "instances"
          BY <3>3
        <5>2. Expansion(h) = CleanInstances
          BY <5>1 DEF Expansion
        <5> QED
          BY <5>2
      <4>3. PICK k \in 1..Len(e) : \E j \in 1..(k - 1) : e[k] = <<"wait">> /\ e[j] = <<"del", r>>
        BY <1>5, <3>3, <4>1, <4>2, InstancesSettled
      <4>4. PICK j \in 1..(k - 1) : e[k] = <<"wait">> /\ e[j] = <<"del", r>>
        BY <4>3
      <4>5. k \in 1..(i - 1) /\ j \in 1..Len(e) /\ u[k] = <<"wait">> /\ u[j] = <<"del", r>>
        <5> DEFINE a == Len(e)
                   b == Len(t)
        <5>1. a \in Nat /\ b \in Nat /\ m \in 1..b /\ i = a + m /\ k \in 1..a /\ j \in 1..(k - 1)
          BY <1>2, <2>1, <4>3, <4>4
        <5> HIDE DEF a, b
        <5>2. k \in 1..(i - 1) /\ j \in 1..a /\ k \in 1..a
          BY <5>1
        <5> QED
          BY <1>2, <4>4, <5>2 DEF a
      <4>6. Gets(u[j], r)
        BY <4>5 DEF Gets
      <4> QED
        BY <4>5, <4>6 DEF Settles
    <3>4. CASE Gets(h, r) /\ \E k \in 1..(m - 1) : t[k] = <<"wait">>
      <4>1. PICK k \in 1..(m - 1) : t[k] = <<"wait">>
        BY <3>4
      <4>2. <<"del", r>> \in ToSet(e)
        BY <1>5, <1>a, <3>4, GetsAgain
      <4>3. PICK j \in 1..Len(e) : e[j] = <<"del", r>>
        BY <1>1, <4>2, SetAt
      <4>4. /\ Len(e) + k \in 1..(i - 1) /\ u[Len(e) + k] = <<"wait">>
            /\ j \in 1..((Len(e) + k) - 1) /\ u[j] = <<"del", r>>
        <5> DEFINE a == Len(e)
        <5>1. a \in Nat /\ m \in Nat /\ k \in 1..(m - 1) /\ j \in 1..a
          BY <1>2, <2>1, <4>1, <4>3
        <5> HIDE DEF a
        <5>2. j \in 1..((a + k) - 1)
          BY <5>1
        <5>3. a + k \in 1..(i - 1) /\ u[a + k] = t[k] /\ u[j] = e[j]
          BY <1>2, <2>4, <4>1, <5>1 DEF a
        <5> QED
          BY <4>1, <4>3, <5>2, <5>3 DEF a
      <4>5. Gets(u[j], r)
        BY <4>4 DEF Gets
      <4> QED
        BY <4>4, <4>5 DEF Settles
    <3> QED
      BY <3>1, <3>2, <3>3, <3>4
  <2> QED
    BY <2>3, <2>5, <2>6
<1> QED
  BY <1>6, <1>7

\* The guards hold at the start: only CleanNetworks waits for anything, and the VMs go first
LEMMA GuardInit == Init => GuardInv
<1> SUFFICES ASSUME Init PROVE GuardInv
  OBVIOUS
<1>1. todo \in {main, cleanTestWorkflow(FALSE), library} /\ running = {}
  BY CleanupAssumption DEF Init
<1>2. \A c : c # <<"networks">> /\ c[1] # "del" =>
        \A r : ~Before(c, r, NetworksToCome, Subnets)
  BY DEF Before
<1>3. CASE todo = main \/ todo = cleanTestWorkflow(FALSE)
  <2>1. /\ todo[1] = <<"instances">> /\ Len(todo) \in Nat /\ Len(todo) > 1
        /\ \A i \in 1..Len(todo) : todo[i][1] # "del"
    BY <1>3 DEF main, cleanTestWorkflow
  <2>2. ASSUME NEW r \in alive \ errs, NEW i \in 1..Len(todo),
               Before(todo[i], r, NetworksToCome, Subnets)
        PROVE  Settles(todo, i, r)
    <3>1. todo[i] = <<"networks">>
      BY <1>2, <2>1, <2>2
    <3>2. Kind(r) = "instance"
      BY <2>2, <3>1 DEF Before
    <3>3. i # 1
      <4>1. <<"networks">> # <<"instances">>
        OBVIOUS
      <4> QED
        BY <2>1, <3>1, <4>1
    <3>4. 1 \in 1..(i - 1)
      BY <2>1, <3>3
    <3> QED
      BY <2>1, <3>2, <3>4 DEF Settles
  <2> QED
    BY <1>1, <2>2 DEF GuardInv
<1>4. CASE todo = library
  <2>1. \A i \in 1..Len(todo) : todo[i][1] # "del" /\ todo[i] # <<"networks">>
    BY <1>4 DEF library
  <2> QED
    BY <1>1, <1>2, <2>1 DEF GuardInv
<1> QED
  BY <1>1, <1>3, <1>4

\* The start of a deletion or the end of a wait leaves the guards of the rest
LEMMA GuardRest ==
  ASSUME SafeInv, todo # <<>>, NEW t, t = Tail(todo), NEW r, NEW toCome, NEW S,
         ~Lists(Head(todo)), Head(todo) = <<"wait">> => running = {},
         \A m \in 1..Len(todo) :
           Before(todo[m], r, toCome, S) => Settles(todo, m, r) \/ Waits(m, r),
         NEW i \in 1..Len(t), Before(t[i], r, toCome, S)
  PROVE  \/ Settles(t, i, r)
         \/ /\ r \in running \/ Head(todo) = <<"del", r>>
            /\ \E k \in 1..(i - 1) : t[k] = <<"wait">>
<1> DEFINE h == Head(todo)
<1>1. todo \in Seq(SafeCode) /\ h \in SafeCode /\ h = todo[1]
  BY DEF SafeInv
<1>2. /\ Len(t) \in Nat /\ Len(todo) = Len(t) + 1
      /\ \A j \in 1..Len(t) : j + 1 \in 1..Len(todo) /\ t[j] = todo[j + 1]
  BY <1>1
<1>3. h = <<"wait">> \/ h[1] = "del"
  BY <1>1 DEF Lists, SafeCode, Entries
<1>4. Settles(todo, i + 1, r) \/ Waits(i + 1, r)
  BY <1>2
<1>5. CASE Waits(i + 1, r)
  <2>1. (i + 1) - 1 = i
    OBVIOUS
  <2>2. r \in running /\ \E k \in 1..i : todo[k] = <<"wait">>
    BY <1>5, <2>1 DEF Waits
  <2>3. PICK k \in 1..i : todo[k] = <<"wait">>
    BY <2>2
  <2>4. k # 1
    BY <1>1, <2>2, <2>3
  <2>5. k - 1 \in 1..(i - 1) /\ k - 1 \in 1..Len(t) /\ (k - 1) + 1 = k
    BY <1>2, <2>4
  <2>6. t[k - 1] = <<"wait">>
    BY <1>2, <2>3, <2>5
  <2> QED
    BY <2>2, <2>5, <2>6
<1>6. CASE Settles(todo, i + 1, r)
  <2>1. i \in 1..Len(Tail(todo))
    OBVIOUS
  <2>2. \/ Settles(t, i, r)
        \/ h = <<"instances">>
        \/ Gets(h, r) /\ \E k \in 1..(i - 1) : t[k] = <<"wait">>
    BY <1>1, <1>6, <2>1, RestSettles
  <2>3. h # <<"instances">>
    BY <1>3
  <2>4. Gets(h, r) => h = <<"del", r>>
    BY <1>3 DEF Gets
  <2> QED
    BY <2>2, <2>3, <2>4
<1> QED
  BY <1>4, <1>5, <1>6

\* The guards are kept
LEMMA GuardStep ==
  ASSUME SafeInv, TypeOK, PhaseInv, SegmentInv, ListsComplete, GuardInv, [Next]_vars
  PROVE  GuardInv'
<1>1. call' = call /\ alive' \subseteq alive /\ errs \subseteq errs'
  BY DEF Next, List, ListFails, Start, Waited, Finish, Vanish, vars
<1>2. ASSUME ~call.dryRun, errs' \subseteq Resource, NEW r \in alive' \ errs'
      PROVE  /\ \A i \in 1..Len(todo') :
                  Before(todo'[i], r, NetworksToCome', Subnets') =>
                    Settles(todo', i, r) \/ (r \in running' /\ \E k \in 1..(i - 1) : todo'[k] = <<"wait">>)
             /\ \A x \in running' : ~Before(<<"del", x>>, r, NetworksToCome', Subnets')
  <2>1. errs \subseteq Resource /\ r \in alive \ errs
    BY <1>1, <1>2
  <2>2. /\ \A i \in 1..Len(todo) :
             Before(todo[i], r, NetworksToCome, Subnets) => Settles(todo, i, r) \/ Waits(i, r)
        /\ \A x \in running : ~Before(<<"del", x>>, r, NetworksToCome, Subnets)
    BY <1>2, <2>1 DEF GuardInv
  <2>3. CASE List /\ Head(todo) = <<"networks">>
    BY <1>2, <2>1, <2>3, GuardNetworks
  <2>4. CASE ~(List /\ Head(todo) = <<"networks">>)
    <3>1. \A c : Before(c, r, NetworksToCome', Subnets') => Before(c, r, NetworksToCome, Subnets)
      <4>1. (NetworksToCome => NetworksToCome') /\ Subnets' \subseteq Subnets
        BY <1>2, <2>4, LessToCome
      <4> QED
        BY <4>1 DEF Before, Behind
    <3>2. CASE List
      <4>1. /\ todo # <<>> /\ Lists(Head(todo)) /\ Head(todo) # <<"networks">>
            /\ todo' = Expansion(Head(todo)) \o Tail(todo) /\ running' = running
        BY <2>4, <3>2 DEF List
      <4>2. ASSUME NEW i \in 1..Len(todo'), Before(todo'[i], r, NetworksToCome', Subnets')
            PROVE  Settles(todo', i, r) \/ (r \in running /\ \E k \in 1..(i - 1) : todo'[k] = <<"wait">>)
        <5>1. Before(todo'[i], r, NetworksToCome, Subnets)
          BY <3>1, <4>2
        <5> QED
          BY <2>1, <2>2, <3>2, <4>1, <4>2, <5>1, GuardList
      <4> QED
        BY <2>2, <3>1, <4>1, <4>2
    <3>3. CASE ListFails
      <4>1. todo # <<>> /\ Lists(Head(todo)) /\ Head(todo)[1] \in errs' /\ Head(todo) \in SafeCode
        BY <3>3 DEF ListFails, SafeInv
      <4>2. Head(todo)[1] \in Instructions
        BY <4>1 DEF Lists, SafeCode, Instructions, Entries
      <4> QED
        BY <1>2, <4>1, <4>2, CleanupAssumption
    <3>4. CASE Start \/ Waited
      <4>1. /\ todo # <<>> /\ ~Lists(Head(todo)) /\ todo' = Tail(todo) /\ running \subseteq running'
            /\ Head(todo) \in SafeCode
        BY <3>4 DEF Start, Waited, Lists, SafeInv
      <4>2. Head(todo) = <<"wait">> => running = {}
        BY <3>4 DEF Start, Waited
      <4>3. \A x \in running' : x \in running \/ Head(todo) = <<"del", x>>
        BY <3>4, <4>1 DEF Start, Waited, SafeCode, Entries
      <4>4. Head(todo) = <<"del", r>> => r \in running'
        BY <3>4 DEF Start, Waited
      <4>5. ASSUME NEW i \in 1..Len(todo'), Before(todo'[i], r, NetworksToCome', Subnets')
            PROVE  Settles(todo', i, r) \/ (r \in running' /\ \E k \in 1..(i - 1) : todo'[k] = <<"wait">>)
        <5>1. PICK t : t = Tail(todo)
          OBVIOUS
        <5>2. i \in 1..Len(t) /\ Before(t[i], r, NetworksToCome, Subnets)
          BY <3>1, <4>1, <4>5, <5>1
        <5>3. \/ Settles(t, i, r)
              \/ /\ r \in running \/ Head(todo) = <<"del", r>>
                 /\ \E k \in 1..(i - 1) : t[k] = <<"wait">>
          BY <2>2, <4>1, <4>2, <5>1, <5>2, GuardRest
        <5> QED
          BY <4>1, <4>4, <5>1, <5>3
      <4>6. ~Before(Head(todo), r, NetworksToCome, Subnets)
        <5>1. 1 \in 1..Len(todo) /\ todo[1] = Head(todo) /\ 1..(1 - 1) = {}
          BY <4>1 DEF SafeInv
        <5>2. ~Settles(todo, 1, r) /\ ~Waits(1, r)
          BY <5>1 DEF Settles, Waits
        <5> QED
          BY <2>2, <5>1, <5>2
      <4>7. ASSUME NEW x \in running' PROVE ~Before(<<"del", x>>, r, NetworksToCome', Subnets')
        <5>1. ~Before(<<"del", x>>, r, NetworksToCome, Subnets)
          BY <2>2, <4>3, <4>6
        <5> QED
          BY <3>1, <5>1
      <4> QED
        BY <4>5, <4>7
    <3>5. ASSUME UNCHANGED todo, running' \subseteq running, r \in running => r \in running'
          PROVE  /\ \A i \in 1..Len(todo') :
                      Before(todo'[i], r, NetworksToCome', Subnets') =>
                        \/ Settles(todo', i, r)
                        \/ r \in running' /\ \E k \in 1..(i - 1) : todo'[k] = <<"wait">>
                 /\ \A x \in running' : ~Before(<<"del", x>>, r, NetworksToCome', Subnets')
      <4>1. \A i \in 1..Len(todo') :
              Before(todo'[i], r, NetworksToCome', Subnets') => Settles(todo', i, r) \/ Waits(i, r)
        BY <2>2, <3>1, <3>5
      <4> QED
        BY <2>2, <3>1, <3>5, <4>1 DEF Waits
    <3>6. ASSUME NEW q \in Resource, Finish(q)
          PROVE  UNCHANGED todo /\ running' = running \ {q} /\ (r # q \/ Kind(r) = "osPolicy")
      <4>1. UNCHANGED todo /\ running' = running \ {q}
        BY <3>6 DEF Finish, DoneAfter
      <4>2. r # q \/ FailsUnseen(q)
        BY <1>2, <3>6 DEF Finish, Deletes
      <4> QED
        BY <4>1, <4>2 DEF FailsUnseen
    <3>7. ASSUME NEW q \in Resource, Vanish(q) PROVE UNCHANGED todo /\ running' = running
      BY <3>7 DEF Vanish
    <3>8. UNCHANGED vars => UNCHANGED todo /\ running' = running
      BY DEF vars
    <3>9. ASSUME Kind(r) = "osPolicy", NEW c, NEW toCome, NEW S PROVE ~Before(c, r, toCome, S)
      BY <3>9 DEF Before, Behind
    <3>10. CASE Kind(r) = "osPolicy"
      BY <3>9, <3>10
    <3> QED
      BY <3>2, <3>3, <3>4, <3>5, <3>6, <3>7, <3>8, <3>10 DEF Next
  <2> QED
    BY <2>3, <2>4
<1> QED
  BY <1>1, <1>2, GuardFrom

\* What InOrder rests on
OrderInv == TypeOK /\ PhaseInv /\ SegmentInv /\ GuardInv

THEOREM OrderInvariant == Spec => []OrderInv
<1>1. Init => OrderInv
  BY TypeInit, PhaseInit, SegmentInit, GuardInit DEF OrderInv
<1>2. SafeInv /\ ListsComplete /\ OrderInv /\ [Next]_vars => OrderInv'
  <2>1. SafeInv /\ TypeOK /\ [Next]_vars => TypeOK'
    BY TypeStep
  <2>2. SafeInv /\ TypeOK /\ PhaseInv /\ [Next]_vars => PhaseInv'
    BY PhaseStep
  <2>3. SafeInv /\ TypeOK /\ PhaseInv /\ SegmentInv /\ [Next]_vars => SegmentInv'
    BY SegmentStep
  <2>4. SafeInv /\ TypeOK /\ PhaseInv /\ SegmentInv /\ ListsComplete /\ GuardInv /\ [Next]_vars =>
          GuardInv'
    BY GuardStep
  <2> QED
    BY <2>1, <2>2, <2>3, <2>4 DEF OrderInv
<1>3. ReportInv => ListsComplete
  BY DEF ReportInv
<1> QED
  BY <1>1, <1>2, <1>3, SafeInvariant, ReportInvariant, PTL DEF Spec

\* InOrder, for every set of resources, caller and policy under UsesAssumption: no two
\* deletions of which one has to wait for the other are under way at a time, and a network
\* goes last (the wg.Wait calls of CleanLoadBalancerResources and CleanNetworks in
\* cleanerupper.go)
THEOREM DeletesInOrder == Spec => []InOrder
<1>1. ASSUME SafeInv, OrderInv PROVE NetworkLast
  <2> SUFFICES ASSUME ~call.dryRun, errs \subseteq Resource, NEW n \in running, NEW r \in alive \ errs,
                      Kind(n) = "network", GoesBefore(n, r)
               PROVE  FALSE
    BY DEF NetworkLast
  <2>1. \A c : c[1] = "del" /\ c[2] = n /\ Behind(c[2], r, Subnets) =>
                Before(c, r, NetworksToCome, Subnets)
    BY DEF Before
  <2>2. <<"del", n>>[1] = "del" /\ <<"del", n>>[2] = n
    OBVIOUS
  <2>3. Behind(n, r, Subnets)
    BY DEF GoesBefore, Behind, Subnets
  <2>4. Before(<<"del", n>>, r, NetworksToCome, Subnets)
    BY <2>1, <2>2, <2>3
  <2> QED
    BY <1>1, <2>4 DEF OrderInv, GuardInv
<1>2. ASSUME SafeInv, OrderInv, ~call.dryRun, errs \subseteq Resource,
             NEW r \in running, NEW s \in running, r \in Uses[s], s \in alive, s \notin errs,
             Kind(s) # "fr"
      PROVE  FALSE
  <2>1. r \in Resource /\ s \in Resource /\ Together(Kind(r), Kind(s))
    BY <1>2 DEF OrderInv, TypeOK, SegmentInv
  <2>2. /\ Kind(r) # Kind(s) /\ Kind(s) # "hc"
        /\ Kind(s) = "hp" => Kind(r) = "um"
        /\ Kind(s) = "um" => Kind(r) = "bs"
        /\ Kind(s) \in {"firewall", "subnet", "route"} =>
             Kind(r) \notin {"firewall", "fr", "hp", "subnet", "route"}
        /\ Kind(s) \in {"rneg", "zneg"} => Kind(r) \notin {"rneg", "zneg"}
    BY <1>2, <2>1, UsesAssumption
  <2>3. Kind(s) = "hp" /\ Kind(r) = "um"
    BY <1>2, <2>1, <2>2 DEF Together, Parts
  <2>4. NetworksToCome => Indicated(s)
    BY <1>2, ToComeInPhase DEF OrderInv, PhaseInv
  <2>5. <<"del", r>>[1] = "del" /\ <<"del", r>>[2] = r
    OBVIOUS
  <2>6. \A c : c[1] = "del" /\ c[2] = r => Before(c, s, NetworksToCome, Subnets)
    BY <1>2, <2>3, <2>4 DEF Before
  <2>7. Before(<<"del", r>>, s, NetworksToCome, Subnets)
    BY <2>5, <2>6
  <2> QED
    BY <1>2, <2>7 DEF OrderInv, GuardInv
<1>3. SafeInv /\ OrderInv => InOrder
  BY <1>1, <1>2 DEF InOrder, OrderInv
<1> QED
  BY <1>3, SafeInvariant, OrderInvariant, PTL
=============================================================================
