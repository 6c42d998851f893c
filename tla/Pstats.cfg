SPECIFICATION FairSpec
CONSTANTS
  Family <- MCFamily
  Known <- MCKnown
  Source <- MCSource
  Stats <- MCStats
  Batch = 3
  PipeSize = 2
  MaxFaults = 2
INVARIANT TypeOK
INVARIANT OneDamagedPublication
PROPERTY KeepsPublishing
