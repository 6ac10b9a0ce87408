SPECIFICATION FairEmailSpec
CONSTANTS
  o1 = o1
  k1 = k1
  draft = draft
  edited = edited
  Automatic = Automatic
  NoTx = NoTx
  MaxCopies = 2
  Orders <- MCOrders
  ResendKeys <- MCResendKeys
  Companies <- MCCompanies
  Senders <- MCSenders
  Contacts <- MCContacts
INVARIANTS
  OncePerKey
PROPERTIES
  RecordedSendsNoMore
  OnlyResendUnblocks
  ConflictsComeOfEdits
  EventuallyDeliveredOrBlocked
