CONSTANTS
  MM_NB_PAGE = 2
  MM_NB_SECTOR_BY_PAGE = 4
  SECTORS_2K = 2
  MM_SECTOR_SIZE = 2
SPECIFICATION Spec
INVARIANTS
  TypeOK
  BitFieldsAgree
  SectorsMatchHeld
  NoPanic
PROPERTY RefinesBlockStore
