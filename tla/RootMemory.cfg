SPECIFICATION Spec
CONSTANTS
  Threads = {t1, t2}
  Names = {n}
  Bucket <- MCBucket
  Keys <- MCKeys
  Lists = {l1, l2, l3, l4, l5, l6, l7, l8, l9}
  Null = Null
  MaxSteps = 3
  MaxItems = 2
  MaxCount = 2
INVARIANTS
  GottenIsPrivate
  UpdatesAddUp
  StuckOnlyInRing
SYMMETRY Symmetric
CHECK_DEADLOCK FALSE
