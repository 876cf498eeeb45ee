SPECIFICATION Spec
CONSTANTS
  h1 = h1
  h2 = h2
  Walk = Walk
  NoProc = NoProc
  Handlers <- MCHandlers
  Tokens <- MCTokens
  EntryType <- LedgerEntryType
  FileSize <- LedgerFileSize
  SourceSizes <- LedgerSourceSizes
  SendRequests <- LedgerSendRequests
  AckRequests <- LedgerAckRequests
  Last = 3
  BatchSize = 3
  MaxRequests = 3
  TTL = 1
  MaxClock = 0
SYMMETRY Symmetry
PROPERTIES
  ReportsWhetherComplete
