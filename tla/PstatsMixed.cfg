SPECIFICATION Spec
CONSTANTS
  Family <- MCFamily
  Known <- MCKnown
  Source <- MCSource
  Stats <- MCStats
  Batch = 3
  PipeSize = 2
  MaxFaults = 1
INVARIANT OneBatchPublished
