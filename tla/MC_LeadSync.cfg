SPECIFICATION LeadSyncSpec
CONSTANTS
  k1 = k1
  u1 = u1
  first = first
  other = other
  manual = manual
  entry1 = entry1
  entry2 = entry2
  Daily = Daily
  None = None
  LateWrites = FALSE
  MaxVersions = 3
  Keys <- MCKeys
  Upstream <- MCUpstream
  Data <- MCData
  Syncers <- MCSyncers
  Entries <- MCEntries
INVARIANTS
  OneRowPerEntry
  SavedMeansWritten
PROPERTIES
  MirrorsOneState
  NeverGoesBack
