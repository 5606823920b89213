SPECIFICATION Spec
CONSTANTS
  Resource <- TheResources
  Attr <- TheAttr
  Uses <- TheUses
  Scenes <- TheScenes
  Calls <- TheCalls
  regionFromZone <- ZoneRegion
  Cutoff = 1
  Foreign = {"fw1", "fr1", "d1"}
  Regions <- TheRegions
  MaxFaults = 1
CHECK_DEADLOCK FALSE
INVARIANTS
  Spared
  ReportTrue
  InOrder
PROPERTIES
  Ends
