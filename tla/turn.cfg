SPECIFICATION Spec
CONSTANTS MaxTurns = 2 MaxPanels = 2 MaxOps = 1 CompactAt = 2 KeepRecent = 1
  MaxIds = 6 MaxSaves = 3 MaxSize = 2 MaxHistory = 2
INVARIANTS ActiveIsRunning QuietIsSettled HistoryIsSound
PROPERTIES SeenQuestionsStay BusyEnds
CHECK_DEADLOCK FALSE
