----------------------------- MODULE MCWorkflow ------------------------------
(***************************************************************************)
(* Set-ups after those of the suites: one on networks, one on VMs that     *)
(* reboot, suspend or give their disk away, one on zones and quotas.  Each *)
(* calls its fixtures in every order.                                      *)
(***************************************************************************)
EXTENDS Workflow

Does(vms, kinds, fixtures, n) == [vms |-> vms, kinds |-> kinds, fixtures |-> fixtures, ops |-> n]

TheSuites ==
  {Does({"v1"}, {},
        {"CreateTestVM", "CreateNetwork", "CreateSubnetwork", "CreateFirewallRule", "AddCustomNetwork",
         "WaitForQuota"}, 5),
   Does({"v1", "v2"}, {"plain", "reboot"},
        {"CreateTestVMMultipleDisks", "Reboot", "CreateDerivativeVM"}, 3),
   Does({"v1"}, {"plain", "reboot"},
        {"CreateTestVMFromInstanceBeta", "Reboot", "Resume", "ResizeDiskAndReboot", "CreateDerivativeVM"}, 4),
   Does({"v1", "v2"}, {}, {"CreateTestVM", "CreateTestVMBeta", "ForceZone", "WaitForQuota", "UseGVNIC"}, 4)}

ZoneRegion == [a1 |-> "a", b1 |-> "b"]
=============================================================================
