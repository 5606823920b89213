------------------------------ MODULE MCRefresh ------------------------------
(***************************************************************************)
(* Configurations over four zones: a1, a2 and b1 have a budget, c1 has     *)
(* none.  Each differs from Base in one or two sections.                   *)
(***************************************************************************)
EXTENDS Refresh

ZoneRegions == "a1" :> "a" @@ "a2" :> "a" @@ "b1" :> "b" @@ "c1" :> "c"

Img(p, b) == [project |-> p, base |-> b]

Row(shapes, images, suites, eachZone) ==
  [name |-> "row", shapes |-> shapes, images |-> images, suites |-> suites, eachZone |-> eachZone]

Rule(kind, shapes, suites, images, set) ==
  [kind |-> kind, shapes |-> shapes, suites |-> suites, images |-> images, set |-> set, value |-> 45]

Fam(pinned, set) ==
  [name |-> "C3", shape |-> "c3", cpus |-> 3, family |-> "FAM", arch |-> "x86", zoneSet |-> set,
   pinned |-> pinned]

Base ==
  [caps |-> [c \in RetryCaps |-> 0],
   safety |-> <<-1, 1>>,
   containerCap |-> 0,
   budgets |-> "a" :> ("CPUS" :> 10 @@ "FAM" :> 5) @@ "b" :> ("CPUS" :> 5),
   zoneSets |-> "main" :> <<"a1", "b1">> @@ "big" :> <<"a2">>,
   shapes |-> "s1" :> [arch |-> "x86", cpus |-> 2, family |-> "FAM", zoneSet |-> "main", maxParallel |-> 0]
           @@ "s2" :> [arch |-> "arm64", cpus |-> 4, family |-> "CPUS", zoneSet |-> "main", maxParallel |-> 1],
   suites |-> "disk" :> [vms |-> 0, networks |-> 0, timeout |-> 20]
           @@ "net" :> [vms |-> 2, networks |-> 2, timeout |-> 35]
           @@ "shapevalidation" :> [vms |-> 1, networks |-> 0, timeout |-> 30],
   matrix |-> <<Row(<<"s1", "s2">>, <<Img("", "i1")>>, <<"disk", "net">>, FALSE)>>,
   rules |-> <<>>,
   quarantine |-> <<>>,
   tiers |-> "1" :> <<[shape |-> "s1", zones |-> <<"a1">>]>>,
   families |-> <<>>, svImages |-> <<Img("", "i1")>>, armImages |-> <<>>]

OnlyS1 == [Base EXCEPT !.matrix = <<Row(<<"s1">>, <<Img("", "i1")>>, <<"disk", "net">>, FALSE)>>]

TwoShapes == [Base EXCEPT !.matrix[1].suites = <<"net">>]

RuleChoices ==
  <<<<Rule("drop", {"s2"}, {"net"}, {}, "")>>,
    <<Rule("drop", {}, {"disk"}, {"i1"}, "")>>,
    <<Rule("keep_only", {"s1"}, {"disk"}, {}, ""), Rule("timeout", {"s1"}, {}, {}, "")>>,
    <<Rule("suite_only_on", {"s1"}, {"net"}, {}, "")>>,
    <<Rule("zone_set", {"s1"}, {"net"}, {}, "big"), Rule("drop", {"s2"}, {}, {}, "")>>,
    <<Rule("zone_set", {"s1"}, {}, {}, "none")>>>>

Q(shape, reason) == <<[image |-> "", shape |-> shape, suite |-> "", reason |-> reason]>>

\* What the run's citrun.yaml may be edited to
EditedTo ==
  <<OnlyS1,
    [OnlyS1 EXCEPT !.zoneSets["main"] = <<"b1">>],
    [OnlyS1 EXCEPT !.shapes["s1"].family = "CPUS", !.shapes["s1"].cpus = 1],
    [OnlyS1 EXCEPT !.budgets["a"]["FAM"] = 2],
    [OnlyS1 EXCEPT !.matrix[1].suites = <<"disk">>]>>

\* Each configuration has its position for a name
TheConfigs ==
  EditedTo
  \o <<[OnlyS1 EXCEPT !.budgets["a"]["FAM"] = 4],
       [OnlyS1 EXCEPT !.matrix[1].eachZone = TRUE, !.matrix[1].suites = <<"disk">>],
       [OnlyS1 EXCEPT !.matrix[1].images = <<Img("", "i1"), Img("p", "i1")>>],
       [OnlyS1 EXCEPT !.matrix[1].suites = <<"disk">>, !.shapes["s1"].cpus = 4],
       [OnlyS1 EXCEPT !.tiers["1"] = <<[shape |-> "s1", zones |-> <<"a2", "c1">>]>>],
       [OnlyS1 EXCEPT !.zoneSets["main"] = <<"c1", "a1">>],
       [OnlyS1 EXCEPT !.caps["stockout"] = 1, !.safety = <<1, 1>>],
       [OnlyS1 EXCEPT !.quarantine = Q("s1", "why")],
       [OnlyS1 EXCEPT !.quarantine = Q("s1", "")],
       [OnlyS1 EXCEPT !.quarantine = Q("", "why")],
       [OnlyS1 EXCEPT !.families = <<Fam("a1", "")>>, !.matrix[1].suites = <<"net">>],
       [OnlyS1 EXCEPT !.families = <<Fam("", "main")>>, !.matrix = <<>>]>>
  \o [i \in DOMAIN RuleChoices |->
        [IF i \in {1, 4} THEN TwoShapes ELSE OnlyS1 EXCEPT !.rules = RuleChoices[i]]]

SomeEdits == 2..Len(EditedTo)

SomeFilters ==
  {NoFilter, [NoFilter EXCEPT !.tier = "1"],
   [NoFilter EXCEPT !.tier = "all", !.suites = {"disk"}, !.shapes = {"s1"}]}
=============================================================================
