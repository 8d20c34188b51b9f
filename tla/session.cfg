SPECIFICATION SessionSpec
CONSTANTS
  Flows = {f1, f2, f3}  Jobs = {"request", "panel", "base", "timer"}
  MaxPairs = 3  Mortal = {1}  MaxLogins = 1  MaxLosses = 1
  Devices = 2  MaxTokenPairs = 3  TokenCalls = {u1, u2}  First = first  MaxFaults = 1
INVARIANTS FlightHasOneRunner EndedStaysOut PairKept
PROPERTIES LiveSessionKept RefreshesEnd
CHECK_DEADLOCK FALSE
