SPECIFICATION Spec
CONSTANTS
  WINDOW = 240
  MIN_SAMPLES = 8
  BURN_ACTIVE = 4
  BURN_SHORT = 24
  BURN_LONG = 60
  BURN_LONG_MIN = 24
  BURN_FAST = 60
  BURN_SLOW = 20
  BURN_HOT = 15
  Budgets = {10, 50}
  MaxDips = 2
INVARIANTS BurnIsNoBlip
PROPERTIES VerdictFollowsTheSample
