SPECIFICATION Spec
CONSTANTS
  o1 = o1
  o2 = o2
  l1 = l1
  l2 = l2
  m1 = m1
  m2 = m2
  r1 = r1
  r2 = r2
  c1 = c1
  c2 = c2
  pi1 = pi1
  pi2 = pi2
  NoRule = NoRule
  Open = Open
  AnyPlace = AnyPlace
  None = None
  NoOrder = NoOrder
  east = east
  west = west
  MaxClock = 2
  Day = 2
  Zones <- MCOneZone
  FirstZone <- MCFirstZone
  BusinessDate <- MCBusinessDate
  RuleIds <- MCRuleIds
  Inputs <- MCInputs
  Ages <- MCAges
  SeedTable <- MCSeedTable
  Orders <- MCOrders
  Leads <- MCLeads
  Municipalities <- MCMunicipalities
  InsuranceTypes <- MCInsuranceTypes
  LifeInsurance <- MCLifeInsurance
  Requests <- MCRequests
  LeadTables <- MCLeadTables
  CheckoutIds <- MCCheckoutIds
  SessionOf <- MCSessionOf
  Intents <- MCIntents
  Payloads <- MCPayloads
SYMMETRY MCSymmetry
INVARIANTS
  ExclusiveSales
  ExactFulfillment
  MoneyIsAccountedFor
PROPERTIES
  SettledIsFinal
