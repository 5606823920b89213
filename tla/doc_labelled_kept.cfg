SPECIFICATION Spec
CONSTANTS
  Resource <- TheResources
  Attr <- TheAttr
  Uses <- TheUses
  Scenes <- MarkedScene
  Calls <- CommandCalls
  regionFromZone <- ZoneRegion
  Cutoff = 1
  Foreign = {"fw1", "fr1", "d1"}
  Regions <- TheRegions
  MaxFaults = 0
CHECK_DEADLOCK FALSE
INVARIANTS
  AlwaysKept
