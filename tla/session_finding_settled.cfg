SPECIFICATION Spec
CONSTANTS
  Flows = {f1, f2}
  Jobs = {"request"}
  MaxPairs = 4
  Mortal = {1, 2}
  MaxLogins = 1
  MaxLosses = 0
PROPERTIES RefreshedWhenExpired
CHECK_DEADLOCK FALSE
