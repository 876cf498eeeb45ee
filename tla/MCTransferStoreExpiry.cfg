SPECIFICATION Spec
CONSTANTS
  h1 = h1
  h2 = h2
  Walk = Walk
  NoProc = NoProc
  Handlers <- MCHandlers
  Tokens <- MCTokens
  EntryType <- ExpiryEntryType
  FileSize <- ExpiryFileSize
  SourceSizes <- ExpirySourceSizes
  SendRequests <- ExpirySendRequests
  AckRequests <- ExpiryAckRequests
  Last = 1
  BatchSize = 1
  MaxRequests = 2
  TTL = 2
  MaxClock = 4
SYMMETRY Symmetry
INVARIANTS
  AckOkMeansApplied
PROPERTIES
  DeletedIsFrozen
  RenewalNotLost
