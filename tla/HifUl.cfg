CONSTANTS
  Blocks = {b1, b2, b3}
  FIFO_UL_MSG_NB = 3
  MaxBatch = 3
  IrqOnCallers = TRUE
  PktMod = 7
SPECIFICATION FairSpec
INVARIANTS
  TypeOK
  RoomReserved
  BlocksConserved
  InOrder
  ThrottleOnRecord
  BusyWhileTransfer
PROPERTIES
  RefinesUlService
  ResumeComesMasked
  TransferCompletes
CHECK_DEADLOCK FALSE
