SPECIFICATION FairStorefrontSpec
CONSTANTS
  island = island
  town = town
  fresh = fresh
  aged = aged
  None = None
  Preferred = fresh
  MaxAttempts = 2
  MaxLoads = 3
  Places <- MCPlaces
  Prices <- MCPrices
  Inventories <- MCInventories
  Quantities <- MCQuantities
INVARIANTS
  SubmittedAsOffered
  RestingIsExplained
PROPERTIES
  NeverShowsOlder
  WaitingEnds
CHECK_DEADLOCK FALSE
