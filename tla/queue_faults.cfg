SPECIFICATION Spec
CONSTANTS
  p1 = p1  p2 = p2  w1 = w1  w2 = w2  h1 = h1  h2 = h2  t1 = t1  t2 = t2  k1 = k1
  Nobody = Nobody
  Procs <- TwoProcs
  Threads <- ThreeThreads
  Workers = {w1, w2}
  Home <- ThreeHome
  Tasks = {t1}
  Key <- OneKey
  MaxAttempts = 2
  MsgIds = {m1, m2, m3}
  QueueMode = "stream"
  Ops = {"create", "retry"}
  FaultKinds = {"repo", "lock", "unlock", "ack", "push", "crash", "stop"}
  MaxFaults = 2
  AttemptCap = 5
  MaxCalls = 1
INVARIANTS LeaseExclusion
PROPERTIES LifecycleSpec
CHECK_DEADLOCK FALSE
SYMMETRY MsgSymmetry
