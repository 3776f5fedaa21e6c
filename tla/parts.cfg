SPECIFICATION Spec
CONSTANTS
  None = None
  Nodes = {1, 2}
  Zones = {1, 2}
  Cities = {1, 2, 3}
  PATCH_W = 6
  OCEAN_GAP = 2
  ISLAND_W = 4
  ISLAND_GAP = 1
  ISLAND_CAP = 2
  CITY_COL0 = 1
  CITY_COLS = 2
  CITY_COLS_WIDE = 3
  COAST_CAP = 2
  EXTENT_CLASSES <- MCExtents
  Spreads <- MCSpreads
  Surveys <- MCSurveys
  Workloads <- MCWorkloads
  Pods = {1, 2}
  NodeNames = {"node"}
  Owners <- MCOwners
  PodStates <- MCPodStates
  Events <- MCEvents
  Inodes = {1, 2, 3, 4}
INVARIANTS NothingIsOrphaned EveryCityHasItsCell StrangersMoveNobody EveryTroubleHasItsLine CrashNeverTruncates
PROPERTIES EscPeelsTheTop ConfirmsOwnTheClick
