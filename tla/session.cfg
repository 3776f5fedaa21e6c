SPECIFICATION Spec
CONSTANTS
  Clusters = {A, B}
  Kinds = {pods, crds}
  Pods = {web}
  Ports = {p1, p2}
  None = None
  MaxSwitches = 1
  MaxEvicts = 1
  MaxStarts = 2
INVARIANTS
  BrowserNothingFromAnotherCluster
  AccessEvictionsAreHonest
  ForwardsLockStep
  ForwardsOneTunnelToTheRightCluster
PROPERTIES
  BrowserAnsweredUnlessOrphaned
  AccessVerdictsArrive
  ForwardsEndForAReason
  ForwardsGoneEnd
