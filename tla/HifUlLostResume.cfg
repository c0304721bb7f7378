CONSTANTS
  Blocks = {b1, b2}
  FIFO_UL_MSG_NB = 3
  MaxBatch = 2
  IrqOnCallers = TRUE
  PktMod = 6
SPECIFICATION FairSpec
PROPERTY
  ResumeComes
CHECK_DEADLOCK FALSE
