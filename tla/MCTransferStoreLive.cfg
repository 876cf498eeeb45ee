SPECIFICATION LiveSpec
CONSTANTS
  h1 = h1
  h2 = h2
  Walk = Walk
  NoProc = NoProc
  Handlers <- MCHandlers
  Tokens <- MCTokens
  EntryType <- ExpiryEntryType
  FileSize <- ExpiryFileSize
  SourceSizes <- ExpirySourceSizes
  SendRequests <- ExpirySendRequests
  AckRequests <- ExpiryAckRequests
  Last = 1
  BatchSize = 1
  MaxRequests = 2
  TTL = 1
  MaxClock = 2
PROPERTIES
  EveryRequestAnswered
  UnattendedIsReaped
