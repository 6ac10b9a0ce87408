SPECIFICATION FairPaymentSpec
CONSTANTS
  o1 = o1
  o2 = o2
  l1 = l1
  l2 = l2
  m1 = m1
  r1 = r1
  c1 = c1
  c2 = c2
  pi1 = pi1
  pi2 = pi2
  draft = draft
  hook = hook
  visitor = visitor
  Job = Job
  Automatic = Automatic
  NoTx = NoTx
  NoRule = NoRule
  Open = Open
  AnyPlace = AnyPlace
  None = None
  NoOrder = NoOrder
  MaxClock = 0
  Day = 1
  Limit = 1
  MaxCopies = 2
  RuleIds <- MCRuleIds
  Inputs <- MCInputs
  Ages <- MCAges
  SeedTable <- MCSeedTable
  Orders <- MCOrders
  Leads <- MCOneLead
  Municipalities <- MCMunicipalities
  InsuranceTypes <- MCInsuranceTypes
  LifeInsurance <- MCLifeInsurance
  Requests <- MCRequests
  LeadTables <- MCLeadTables
  CheckoutIds <- MCCheckoutIds
  SessionOf <- MCSessionOf
  Intents <- MCIntents
  IntentOf <- MCIntentOf
  Payloads <- MCPayloads
  ResendKeys <- MCNone
  Reported <- MCNone
  Companies <- MCCompanies
  Senders <- MCSenders
  Contacts <- MCContacts
  Zones <- MCZones
  FirstZone <- MCFirstZone
  BusinessDate <- MCBusinessDate
  Webhooks <- MCNone
  Visitors <- MCNone
PROPERTIES
  PaymentIsRecovered
