CONSTANTS
  Msg = {m1, m2}
  NoMsg = NoMsg
  MSG_NB = 4
  MAX_FRAMES = 2
SPECIFICATION Spec
INVARIANT TypeOK
PROPERTY RefinesMsgQueue
