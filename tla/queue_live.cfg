SPECIFICATION FairSpec
CONSTANTS
  p1 = p1  p2 = p2  w1 = w1  w2 = w2  h1 = h1  h2 = h2  t1 = t1  t2 = t2  k1 = k1
  Nobody = Nobody
  Procs = {p1}
  Threads <- OneWorker
  Workers = {w1}
  Home <- OneHome
  Tasks = {t1}
  Key <- OneKey
  MaxAttempts = 2
  MsgIds = {1, 2, 3, 4, 5}
  QueueMode = "stream"
  Ops = {"create", "enqueue", "retry"}
  FaultKinds = {"ack"}
  MaxFaults = 1
  AttemptCap = 5
  MaxCalls = 2
PROPERTIES EveryTaskEnds StreamDrains
CHECK_DEADLOCK FALSE
