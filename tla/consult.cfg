SPECIFICATION Spec
CONSTANTS
  Bundles = {b1, b2}
  Endpoints = {e1, e2}
  CacheCap = 1
  MaxConsults = 3
  MaxGen = 1
  None = None
PROPERTIES
  ShownReplyIsCurrent
  PendingEnds
