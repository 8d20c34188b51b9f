SPECIFICATION Spec
CONSTANTS
  p1 = p1  p2 = p2  w1 = w1  w2 = w2  h1 = h1  h2 = h2  t1 = t1  t2 = t2  k1 = k1
  Nobody = Nobody
  Procs = {p1}
  Threads <- OneWorkerTwoHandlers
  Workers = {w1}
  Home <- OneTwoHome
  Tasks = {t1, t2}
  Key <- OwnKeys
  MaxAttempts = 1
  MsgIds = {1, 2, 3}
  QueueMode = "list"
  Ops = {"create", "run"}
  FaultKinds = {"slow", "unlock"}
  MaxFaults = 2
  AttemptCap = 2
  MaxCalls = 0
INVARIANTS InProcessExclusion
