SPECIFICATION Spec
CONSTANTS
  Nodes = {0, 1}
  Zones = {0, 1}
  Pools = {0}
  MaxOrdinal = 1
  Times = {0, 1}
INVARIANTS
  NoTwoSlotsShareGround
PROPERTIES
  StampsAreHonest
