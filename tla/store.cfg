SPECIFICATION Spec
CONSTANTS
  Contexts = {c1}
  Repointed = {c1}
  Clusters = {east, west}
  None = None
INVARIANTS
  NoSilentForeignGround
PROPERTIES
  NoMapOverwrittenByAnotherCluster
  UnsavedMapIsSaved
