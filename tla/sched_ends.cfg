SPECIFICATION FairSpec
CONSTANTS
  Jobs <- PairJobs
  Order <- PairOrder
  Quarantined <- None
  Zones <- ThreeZones
  Regions <- TwoRegions
  zoneRegion <- RegionOf
  Keys <- TwoKeys
  CPUS = "CPUS"
  Defined <- MostlyDefined
  Limit <- PairLimits
  SafetyNum = 4
  SafetyDen = 5
  JobZones <- NarrowZones
  CPUCost <- PairCost
  BudgetKey <- PairKey
  Networks <- PairNets
  Subnets <- PairSubnets
  Shape <- PairShape
  MaxParallel <- PairMaxParallel
  ContainerCap = 2
  NetworksBudget = 2
  SubnetsBudget = 1
  RetriesStockout = 2
  RetriesFailure = 0
  Retries <- OneEach
  CooldownBase = 1
  QuotaPenaltyDur = 2
  RRPeriod = 1
  Outcomes <- EndOutcomes
  SaveMayFail = TRUE
  MaxInterrupts = 2
  MaxPauses = 1
INVARIANTS
  CleanExit
PROPERTIES
  RunTerminates
