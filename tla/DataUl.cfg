CONSTANTS
  MAX_SLOTS = 2
  FIFO_SIZE = 2
  MaxBatch = 2
  Skbs = {s1, s2, s3, s4}
SPECIFICATION FairSpec
INVARIANTS
  TypeOK
  InFlightAtHead
  WorkConserving
  StoppedWillWake
PROPERTIES
  RefinesUlService
  PacketsLeave
  QueueWakes
