CONSTANTS
  MAX_PDNS = 1
  MAX_DEDICATED_BEARER_PER_PDN = 2
  MAX_FILTERS_PER_TFT = 2
  Nodes = {n1, n2, n3}
  NULL = NULL
  DefaultIds = {d1}
  DedicatedIds = {e1, e2}
  NoId = NoId
  Addrs = {a1}
  NoAddr = NoAddr
  Filters <- MCFilters
  Flows = {1, 2}
  MaxBatch = 2
  Beyond = {"mixed_replace"}
SPECIFICATION Spec
PROPERTY RefusedUnmodified
