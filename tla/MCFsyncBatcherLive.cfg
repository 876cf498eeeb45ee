SPECIFICATION LiveSpec
CONSTANTS
  w1 = w1
  w2 = w2
  w3 = w3
  w4 = w4
  Windows <- LiveWindows
  File <- LiveFile
  Size <- LiveSize
  baseThreshold = 2
  mem = 0
  fallbackCap = 5
  maxBatchFiles = 2
  ChanCap = 1
PROPERTIES
  DrainFinishes
