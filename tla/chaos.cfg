SPECIFICATION Spec
CONSTANTS
  Clusters = {east, west}
  Resources = {image, node}
  Captured = {image}
  MaxDrills = 2
  None = None
CHECK_DEADLOCK FALSE
INVARIANTS
  StrandedOnlyForCause
PROPERTIES
  UnattendedRestoresStayHome
  AutoRestoreFires
