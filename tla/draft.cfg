SPECIFICATION DraftSpec
CONSTANTS
  Parts = {1}  Nets = {1}  NetParts <- OnAllParts  MaxDrafts = 1  MaxOps = 2  MaxPages = 2  MaxPanels = 2
  d1 = d1  d2 = d2  Devices = {d1, d2}  NoDevice = NoDevice  Best = {d1}  Finds <- Found
  ComponentCount = 2  PinCount = 2  Score <- Fit  Details <- Detail  Passive = {1}
  Pickers = 2  MaxEvents = 3  MaxGenerated = 2
INVARIANTS NothingLeftBehind OneDraftPerPage ChoiceKept PinsFitDevice
PROPERTIES ApplyEnds
CHECK_DEADLOCK FALSE
