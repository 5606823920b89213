SPECIFICATION RSpec
CONSTANTS
  Jobs <- PairJobs
  Order <- PairOrder
  Quarantined <- None
  Zones <- TwoZones
  Regions <- OneRegion
  zoneRegion <- RegionOf
  Keys <- OneKey
  CPUS = "CPUS"
  Defined <- AllDefined
  Limit <- Limits
  SafetyNum = 1
  SafetyDen = 1
  JobZones <- PairZones
  CPUCost <- PairCost
  BudgetKey <- PairKey
  Networks <- Nothing
  Subnets <- Nothing
  Shape <- PairShape
  MaxParallel <- Nothing
  ContainerCap = 2
  NetworksBudget = 2
  SubnetsBudget = 1
  RetriesStockout = 2
  RetriesFailure = 0
  Retries <- OneEach
  CooldownBase = 1
  QuotaPenaltyDur = 1
  RRPeriod = 2
  Outcomes <- MainOutcomes
  SaveMayFail = FALSE
  MaxInterrupts = 0
  MaxPauses = 0
  PsMayFail = FALSE
  SlowStart = FALSE
  MaxCrashes = 1
  MaxResumes = 1
INVARIANTS
  NoForgottenContainer
  NoOvercommit
