------------------------------ MODULE MCCleanup ------------------------------
(***************************************************************************)
(* Four scenes: a load balancer in a network, networks with VMs beside     *)
(* what must stay, a marked forwarding rule in a network, and the          *)
(* resources of the other Clean functions.                                 *)
(***************************************************************************)
EXTENDS Cleanup, TLC

A(kind, name, net) ==
  [kind |-> kind, name |-> name, network |-> net, region |-> "a", created |-> 0, cit |-> TRUE,
   keep |-> None, protected |-> FALSE, auto |-> FALSE, deprecated |-> FALSE]

Balancer ==
  "fr1" :> A("fr", "w1", "n1") @@ "hp1" :> A("hp", "w1", None) @@ "um1" :> A("um", "w1", None)
  @@ "um2" :> A("um", "w1", None)
  @@ "bs1" :> A("bs", "w1", "n1") @@ "hc1" :> A("hc", "w1", None) @@ "zneg1" :> A("zneg", "w1", "n1")
  @@ "n1" :> A("network", "w1", None) @@ "sn1" :> A("subnet", "w1", "n1")
  @@ "bs2" :> [A("bs", "w2", None) EXCEPT !.created = 2]
  @@ "fr2" :> [A("fr", "w1", "n1") EXCEPT !.keep = "label"]
  @@ "rneg2" :> [A("rneg", "w1", None) EXCEPT !.region = "b"]

Networks ==
  "vm1" :> A("instance", "w1", "n1") @@ "vm2" :> [A("instance", "w1", "n2") EXCEPT !.protected = TRUE]
  @@ "d1" :> A("disk", "w1", None) @@ "d2" :> [A("disk", "w1", None) EXCEPT !.keep = "label"]
  @@ "d3" :> [A("disk", "x", None) EXCEPT !.cit = FALSE]
  @@ "n1" :> A("network", "w1", None) @@ "sn1" :> A("subnet", "w1", "n1")
  @@ "sn2" :> [A("subnet", "w1", "n1") EXCEPT !.auto = TRUE]
  @@ "fw1" :> A("firewall", "w1", "n1") @@ "rt1" :> A("route", "x", "n1")
  @@ "rt2" :> [A("route", "x", "n1") EXCEPT !.auto = TRUE]
  @@ "n2" :> A("network", "w1", None)
  @@ "n0" :> A("network", "default", None) @@ "fw0" :> A("firewall", "x", "n0")

Library ==
  "im1" :> A("image", "w1", None) @@ "im2" :> [A("image", "x", None) EXCEPT !.deprecated = TRUE]
  @@ "im3" :> [A("image", "w1", None) EXCEPT !.keep = "name", !.deprecated = TRUE]
  @@ "mi1" :> [A("machineImage", "w1", None) EXCEPT !.created = 2] @@ "ss1" :> A("snapshot", "w1", None)
  @@ "gp1" :> [A("guestPolicy", "w1", None) EXCEPT !.cit = FALSE]
  @@ "os1" :> A("osPolicy", "w1", None) @@ "os2" :> [A("osPolicy", "w1", None) EXCEPT !.region = "b"]

TheAttr == Balancer @@ Networks @@ Library
TheResources == DOMAIN TheAttr
TheRegions == {"a", "b"}

Hangs ==
  [fr1 |-> {"hp1"}, hp1 |-> {"um1"}, um1 |-> {"bs1"}, um2 |-> {"bs1"}, bs1 |-> {"hc1", "zneg1"}, vm1 |-> {"d1", "sn1"}]

\* Whatever has a network hangs on it; what a network makes by itself goes with it
TheUses ==
  [r \in DOMAIN TheAttr |->
     (IF r \in DOMAIN Hangs THEN Hangs[r] ELSE {})
       \cup (IF TheAttr[r].network = None \/ TheAttr[r].auto THEN {} ELSE {TheAttr[r].network})]

MarkedScene == {{"n1", "sn1", "fr2"}}
TheScenes == MarkedScene \cup {DOMAIN Balancer \ {"fr2"}, DOMAIN Networks, DOMAIN Library}

By(program, policy, ids, regions, dry) ==
  [program |-> program, policy |-> policy, ids |-> ids, regions |-> regions, dryRun |-> dry]

TheCalls ==
  {By(main, "age", {}, {"a"}, FALSE), By(main, "age", {}, {"a"}, TRUE),
   By(main, "ids", {"w1", "w2"}, {"a"}, FALSE),
   By(cleanTestWorkflow(TRUE), "ids", {"w1"}, workflowRegions({"z1"}), FALSE),
   By(cleanTestWorkflow(TRUE), "ids", {"w1"}, workflowRegions({"z9"}), FALSE),
   By(cleanTestWorkflow(FALSE), "ids", {"w1"}, workflowRegions({"z1"}), FALSE),
   By(library, "age", {}, {}, FALSE), By(library, "ids", {"w1"}, {}, FALSE),
   By(library, "deprecated", {}, {}, FALSE)}

\* cmd/cleanup as its documentation runs it: by age, for real
CommandCalls == {c \in TheCalls : c.program = main /\ c.policy = "age" /\ ~c.dryRun}

ZoneRegion == [z1 |-> "a", z9 |-> None]
=============================================================================
