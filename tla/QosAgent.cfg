CONSTANTS
  MAX_PDNS = 2
  MAX_DEDICATED_BEARER_PER_PDN = 2
  MAX_FILTERS_PER_TFT = 2
  Nodes = {n1, n2, n3, n4}
  NULL = NULL
  DefaultIds = {d1, d2}
  DedicatedIds = {e1, e2}
  NoId = NoId
  Addrs = {a1, a2}
  NoAddr = NoAddr
  Filters <- MCFilters
  Flows = {1, 2}
  MaxBatch = 2
  Beyond = {}
SYMMETRY MCSymmetry
SPECIFICATION Spec
INVARIANTS
  TypeOK
  NoHalt
  ListSound
  NodesAccounted
  AddressFindsPdn
  ClassifiesAsInstalled
