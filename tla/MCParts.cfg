SPECIFICATION MCSpec
CONSTANTS
  max_size = 4
  Values = {1, 2, 3}
  Items = {"v1", "v2", "v3", "v4", "v5"}
  Priorities = {1, 2, 3}
  MAX_PQ_ELEMENTS = 4
  None = None
  N_SLABS = 3
  N_TASK_T = 2
  Clients = {"c1", "c2"}
  Keys = {"ESC", "[", "A"}
  MaxTyped = 4
  FifoDepth = 3
  ReadCap = 3
  WaitCap = 2
  Names = {"a", "b", "c", "d"}
  Tids = {2, 3}
  Hash <- Buckets
  MAX_ENTRIES = 3
  N_TRNS = 3
  Ring = 4
  MaxLag = 2
  SPD_VLO = 8
  SPD_MED = 9
  SPD_VHI = 9
  Dist = {0, 100, 300, 700}
INVARIANTS SlabsSound NoKeyLost ReadersServed SpeedsSupported GraceTimed RightTrains
PROPERTIES Refines HeapRefines NamesRefine PoolRefines
CHECK_DEADLOCK FALSE
