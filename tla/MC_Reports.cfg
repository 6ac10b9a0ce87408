SPECIFICATION Spec
CONSTANTS
  o1 = o1
  o2 = o2
  l1 = l1
  l2 = l2
  m1 = m1
  m2 = m2
  r1 = r1
  r2 = r2
  r3 = r3
  c1 = c1
  c2 = c2
  pi1 = pi1
  pi2 = pi2
  NoRule = NoRule
  Open = Open
  AnyPlace = AnyPlace
  None = None
  NoOrder = NoOrder
  east = east
  west = west
  MaxClock = 2
  Day = 2
  Zones <- MCZones
  FirstZone <- MCFirstZone
  BusinessDate <- MCLaterDate
  RuleIds <- MCThreeRules
  Inputs <- MCTiers
  Ages <- MCAges
  SeedTable <- MCSeedTiers
  Orders <- MCOrders
  Leads <- MCLeads
  Municipalities <- MCMunicipalities
  InsuranceTypes <- MCInsuranceTypes
  LifeInsurance <- MCLifeInsurance
  Requests <- MCOrdersWanted
  LeadTables <- MCCatalogue
  CheckoutIds <- MCCheckoutIds
  SessionOf <- MCSessionOf
  Intents <- MCIntents
  Payloads <- MCReports
SYMMETRY MCReportSymmetry
INVARIANTS
  StockIsSellable
  RevenueIsEarned
  ListDiffersByTypeOnly
PROPERTIES
  MarketImplemented
  SoldAsOffered
