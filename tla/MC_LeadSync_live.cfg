SPECIFICATION FairLeadSyncSpec
CONSTANTS
  k1 = k1
  u1 = u1
  first = first
  other = other
  manual = manual
  entry1 = entry1
  entry2 = entry2
  Daily = Daily
  None = None
  LateWrites = TRUE
  MaxVersions = 3
  Keys <- MCKeys
  Upstream <- MCUpstream
  Data <- MCOneForm
  Syncers <- MCSyncers
  Entries <- MCOneEntry
PROPERTIES
  EventuallyMirrors
