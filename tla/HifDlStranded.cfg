CONSTANTS
  FIFO_DL_MSG_NB = 3
  FIFO_ACK_UL_MSG_NB = 2
  MAX_NB_DL_FRAMES = 2
  BP_DL_BUFFERS = 3
  PktMod = 6
SPECIFICATION FairSpec
PROPERTY
  FramesDelivered
