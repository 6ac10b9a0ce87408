SPECIFICATION PricingSpec
CONSTANTS
  r1 = r1
  r2 = r2
  r3 = r3
  NoRule = NoRule
  Open = Open
  Horizon = 4
  RuleIds <- MCRuleIds
  Ages <- MCAges
  SeedTable <- MCSeedTable
  Inputs <- MCInputs
INVARIANTS
  ExactCover
  QueryAgreesWithRule
  CheckAgreesWithSortedScan
