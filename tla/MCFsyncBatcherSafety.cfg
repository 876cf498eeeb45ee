SPECIFICATION Spec
CONSTANTS
  w1 = w1
  w2 = w2
  w3 = w3
  w4 = w4
  Windows <- MCWindows
  File <- MCFile
  Size <- MCSize
  baseThreshold = 2
  mem = 0
  fallbackCap = 5
  maxBatchFiles = 2
  ChanCap = 2
INVARIANTS
  TypeOK
  
  PendingExact
  
