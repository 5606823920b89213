SPECIFICATION Spec
CONSTANTS
  VMs = {"v1", "v2"}
  Derivative = "derivative"
  Zones = {"b1"}
  FlagZone = "a1"
  regionFromZone <- ZoneRegion
  argZoneOverride = FALSE
  Network = "flag"
  ExternalIP = "none"
  Suites <- TheSuites
  MaxUploads = 2
  MaxFaults = 1
INVARIANTS
  ExecutedNotDisabled
CHECK_DEADLOCK FALSE
