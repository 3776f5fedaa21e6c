SPECIFICATION Spec
CONSTANTS
  Nodes = {0, 1, 2}
  Zones = {0}
  Pools = {0, 1}
  MaxOrdinal = 2
  Times = {0}
INVARIANTS
  TypeOK
  OneSlotPerNode
  SeatedUnlessZoneExhausted
PROPERTIES
  SurvivorsStay
  ReturnersDoNotSwap
  KeepsGroundStable
