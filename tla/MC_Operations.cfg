SPECIFICATION OperationsSpec
CONSTANTS
  None = None
  MaxLoads = 3
  MaxState = 1
  MaxPrice = 1
  MaxIds = 2
  MaxCalls = 2
INVARIANTS
  SignedOutShowsNothing
  OneRowPerForm
PROPERTIES
  NeverShowsOlderReport
CHECK_DEADLOCK FALSE
