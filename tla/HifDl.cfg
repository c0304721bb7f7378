CONSTANTS
  FIFO_DL_MSG_NB = 4
  FIFO_ACK_UL_MSG_NB = 4
  MAX_NB_DL_FRAMES = 2
  BP_DL_BUFFERS = 4
  PktMod = 7
SPECIFICATION FairSpec
INVARIANTS
  TypeOK
  AcksCopiedFrames
  SubmitDlAccepted
  InOrder
  BusyIffTransfer
PROPERTY
  DeliveredWithAckRoom
