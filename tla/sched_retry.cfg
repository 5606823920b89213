SPECIFICATION Spec
CONSTANTS
  Jobs <- PairJobs
  Order <- PairOrder
  Quarantined <- None
  Zones <- ThreeZones
  Regions <- TwoRegions
  zoneRegion <- RegionOf
  Keys <- TwoKeys
  CPUS = "CPUS"
  Defined <- MostlyDefined
  Limit <- PairLimits
  SafetyNum = 4
  SafetyDen = 5
  JobZones <- PairZones
  CPUCost <- PairCost
  BudgetKey <- PairKey
  Networks <- PairNets
  Subnets <- PairSubnets
  Shape <- PairShape
  MaxParallel <- PairMaxParallel
  ContainerCap = 2
  NetworksBudget = 2
  SubnetsBudget = 1
  RetriesStockout = 2
  RetriesFailure = 1
  Retries <- QuotaTwice
  CooldownBase = 1
  QuotaPenaltyDur = 2
  RRPeriod = 2
  Outcomes <- RetryOutcomes
  SaveMayFail = FALSE
  MaxInterrupts = 0
  MaxPauses = 0
INVARIANTS
  SweepAccounting
  RetryCaps
  DiskCurrent
PROPERTIES
  QuotaCooldownNotExtended
