------------------------- MODULE MCImportTaskQueue -------------------------
(* Small instances of ImportTaskQueue: two server processes with a worker  *)
(* each and an API handler next to the first one.                          *)
EXTENDS ImportTaskQueue, TLC

CONSTANTS p1, p2, w1, w2, h1, h2, t1, t2, k1

TwoProcs == {p1, p2}
ThreeThreads == {w1, w2, h1}
ThreeHome == (w1 :> p1) @@ (w2 :> p2) @@ (h1 :> p1)
OneWorker == {w1, h1}
OneHome == (w1 :> p1) @@ (h1 :> p1)
OneWorkerTwoHandlers == {w1, h1, h2}
OneTwoHome == (w1 :> p1) @@ (h1 :> p1) @@ (h2 :> p1)
OneKey == (t1 :> k1)
OwnKeys == (t1 :> t1) @@ (t2 :> t2)

\* No action and no property tells stream entry ids apart.
MsgSymmetry == Permutations(MsgIds)
============================================================================
