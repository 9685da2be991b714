\* Memory in which what earlier chunks, attempts and calls left in the buffers
\* decides whether a batch fits at once, after the retry, or not at all.
SPECIFICATION FairSpec
CONSTANTS
  Requests <- SmallRequests
  DeviceMemory = 14
  MaxGridZ = 4
  MarkPixels = 1
  HeaderBytes = 1
  OutputBytes = 1
  MaxCalls = 4
INVARIANTS
  TypeOK
  OutputsOfOwnImages
  EffectiveSizeStable
PROPERTIES
  ImplementsBatch
  EveryCallReturns
