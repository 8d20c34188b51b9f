------------------------ MODULE ImportTaskLifecycle ------------------------
(***************************************************************************)
(* The life of a knowledge import task as the API shows it: a status and a *)
(* number of attempts.  Each step is one transition of one task; who takes *)
(* it, and which queue, lease and retry machinery leads to it, is left to  *)
(* ImportTaskQueue.                                                        *)
(***************************************************************************)
EXTENDS Integers

CONSTANTS Tasks, MaxAttempts

VARIABLE row

IsDone(t) ==
  \/ row[t].status = "succeeded"
  \/ row[t].status = "failed" /\ row[t].attempts >= MaxAttempts

Become(t, status, attempts) ==
  row' = [row EXCEPT ![t] = [status |-> status, attempts |-> attempts]]

\* CreateTask.
Create(t) ==
  row[t].status = "absent" /\ Become(t, "queued", 0)

\* An attempt begins.  A task found running lost its worker; a failed one may
\* be tried again as long as it has attempts left.
Begin(t) ==
  /\ row[t].status # "absent" /\ ~IsDone(t)
  /\ Become(t, "running", row[t].attempts + 1)

\* The attempt ends: again later, well, or badly.
Postpone(t) ==
  /\ row[t].status = "running" /\ row[t].attempts < MaxAttempts
  /\ Become(t, "queued", row[t].attempts)
Complete(t) ==
  row[t].status = "running" /\ Become(t, "succeeded", row[t].attempts)
Bury(t) ==
  row[t].status = "running" /\ Become(t, "failed", row[t].attempts)

\* The :retry call on a task that used all its attempts.
Reset(t) ==
  /\ row[t].status = "failed" /\ row[t].attempts >= MaxAttempts
  /\ Become(t, "queued", 0)

Init == row = [t \in Tasks |-> [status |-> "absent", attempts |-> 0]]

Next ==
  \E t \in Tasks : Create(t) \/ Begin(t) \/ Postpone(t) \/ Complete(t)
                     \/ Bury(t) \/ Reset(t)

Spec == Init /\ [][Next]_row
============================================================================
