-------------------------- MODULE ImportTaskQueue --------------------------
(***************************************************************************)
(* The knowledge import queue of the Go server: API handlers create, run,  *)
(* re-enqueue and retry tasks; one worker goroutine per server process     *)
(* takes messages from a Redis stream with a consumer group (or a plain    *)
(* Redis list), executes one attempt of the task under a Redis lease and   *)
(* acknowledges the message.  Tasks and dead letters live in PostgreSQL.   *)
(*                                                                         *)
(* Every call that leaves the process (repository, Redis) is a step of its *)
(* own; sections under the service mutex s.mu are several steps during     *)
(* which mu[p] is held.  Time is abstracted: a pending message may be      *)
(* claimed, a timer may fire and a dead owner's lease may expire at any    *)
(* moment.  Failures are drawn from FaultKinds, at most MaxFaults of them; *)
(* a call that fails may still have had its effect on the remote side.     *)
(***************************************************************************)
EXTENDS Integers, Sequences, FiniteSets

CONSTANTS
  Procs,       \* server processes
  Threads,     \* goroutines: the workers and the API handlers
  Workers,     \* the threads that run StartWorker's loop
  Home,        \* Home[th]: the process thread th belongs to
  Tasks,       \* task uids, one per CreateTask call that gets past the lookup
  Key,         \* Key[t]: the dedup key of the request that creates t
  MaxAttempts, \* maxAttempts, fixed in the task when it is created
  MsgIds,      \* stream entry ids, reused once nobody can refer to them
  QueueMode,   \* "stream" (consumer group) or "list" (LPUSH/BRPOP)
  Ops,         \* API calls the clients make in this instance
  FaultKinds,  \* failures that may happen in this instance
  MaxFaults,   \* bound on the number of failures
  MaxCalls,    \* bound on the number of :enqueue and :retry calls
  AttemptCap,  \* bound: an attempt starts only below it
  Nobody       \* "not locked"

OpNames == {"create", "run", "enqueue", "retry"}
FaultNames == {"repo", "lock", "unlock", "ack", "push", "crash", "stop", "slow"}
Handlers == Threads \ Workers

ASSUME ThreadAssumption ==
  /\ Workers \subseteq Threads
  /\ Home \in [Threads -> Procs]
  /\ Nobody \notin Threads
  /\ Tasks # {}
ASSUME BoundAssumption ==
  /\ MaxAttempts \in Nat \ {0}
  /\ MaxFaults \in Nat
  /\ MaxCalls \in Nat
  /\ AttemptCap \in Nat
ASSUME ModeAssumption ==
  /\ QueueMode \in {"stream", "list"}
  /\ Ops \subseteq OpNames
  /\ FaultKinds \subseteq FaultNames

VARIABLES
  task,       \* task[t]: the row of t in knowledge_import_tasks
  dead,       \* dead[t]: the Attempts of its dead-letter rows, oldest first
  imports,    \* imports[t]: history, Import succeeded 0, 1 or more (2) times
  stream,     \* messages not delivered yet, oldest first
  pending,    \* messages delivered and not acknowledged
  lock,       \* lock[t]: the thread whose SETNX put t's lease key, or Nobody
  mu,         \* mu[p]: the thread of p that holds s.mu across steps, or Nobody
  processing, \* processing[p]: s.processingTasks
  timers,     \* timers[p][t]: goroutines of p waiting in enqueueAfter for t
  started,    \* started[p]: s.workerStarted
  pc,         \* pc[th]: the next statement of th
  loc,        \* loc[th]: its local variables, see Local
  faults,     \* failures so far
  calls       \* :enqueue and :retry calls so far

repoVars   == <<task, dead, imports>>
queueVars  == <<stream, pending>>
memVars    == <<processing, timers, started>>
threadVars == <<pc, loc>>
vars == <<repoVars, queueVars, lock, mu, memVars, threadVars, faults, calls>>

Status  == {"absent", "queued", "running", "succeeded", "failed"}
Row     == [status : Status, attempts : Nat]
Message == [task : Tasks, id : MsgIds]
NoRow   == [status |-> "absent", attempts |-> 0]

\* The local variables of a call: its task, the message to acknowledge (none
\* or one), the row as it last read it, and "processed, no error".
Local   == [task : Tasks, held : SUBSET Message, row : Row, ok : BOOLEAN]
NoLocal == [task |-> CHOOSE t \in Tasks : TRUE, held |-> {}, row |-> NoRow,
            ok |-> FALSE]

\* Steps between a successful TryLock and the deferred Unlock.
Leased == {"guard", "load", "start", "reread", "import", "retry", "succeed",
           "fail", "bury", "leave", "unlock"}
\* Steps inside withTaskProcessing's fn, while the task is in processingTasks.
Attempting == Leased \ {"guard", "unlock"}
\* Steps at which s.mu is held.
Locking == {"import", "retry", "succeed", "fail", "bury", "clear", "push"}
Labels == Leased \cup Locking
            \cup {"idle", "lock", "ack", "save", "requeue", "reset", "enqueue"}

Exists(t) == task[t].status # "absent"
Exhausted(row) == row.status = "failed" /\ row.attempts >= MaxAttempts
HasAttemptsLeft(row) == row.attempts < MaxAttempts
DoneForgetsSuccess(row) == Exhausted(row) \* (seeded bug)
Done(row) == row.status = "succeeded" \/ Exhausted(row)

----------------------------------------------------------------------------
\* Small pieces shared by the actions.

\* A failure: the repository or Redis call at hand returns an error, or the
\* environment does what the kind names.
Fault(kind) ==
  /\ kind \in FaultKinds
  /\ faults < MaxFaults
  /\ faults' = faults + 1
NoFault == UNCHANGED faults

Goto(th, label) == pc' = [pc EXCEPT ![th] = label]
Call(th, label, t) ==
  /\ Goto(th, label)
  /\ loc' = [loc EXCEPT ![th] = [NoLocal EXCEPT !.task = t]]
Finish(th) ==
  /\ Goto(th, "idle")
  /\ loc' = [loc EXCEPT ![th] = NoLocal]

\* processOneAttempt and its deferred calls end: only a worker acknowledges.
Return(th, processed) ==
  IF processed /\ th \in Workers
    THEN Goto(th, "ack") /\ UNCHANGED loc
    ELSE Finish(th)
\* The rest of the attempt is its deferred calls.
End(th, processed) ==
  /\ Goto(th, "leave")
  /\ loc' = [loc EXCEPT ![th].ok = processed]
RepoError(th) == Fault("repo") /\ End(th, FALSE)

MuFree(th) == mu[Home[th]] = Nobody
Acquire(th) == MuFree(th) /\ mu' = [mu EXCEPT ![Home[th]] = th]
Release(th) == mu' = [mu EXCEPT ![Home[th]] = Nobody]

FreeIds ==
  MsgIds \ {m.id : m \in pending \cup {stream[i] : i \in DOMAIN stream}
                          \cup UNION {loc[th].held : th \in Threads}}

\* enqueueLocked: XADD or LPUSH of t; a failed push is counted and forgotten.
Push(t) ==
  \/ /\ NoFault \/ Fault("push")
     /\ \E id \in FreeIds :
          stream' = Append(stream, [task |-> t, id |-> id])
  \/ Fault("push") /\ UNCHANGED stream

\* SaveTask is an upsert of the whole row.
SaveTask(t, row) == task' = [task EXCEPT ![t] = row]
SaveFails(t, row) == Fault("repo") /\ (SaveTask(t, row) \/ UNCHANGED task)

----------------------------------------------------------------------------
\* API handlers.

\* CreateTask, FindTaskByDedupKey: a known key returns the task it finds.
CreateLookup(h, t) ==
  /\ "create" \in Ops /\ h \in Handlers /\ pc[h] = "idle"
  /\ ~Exists(t) /\ \A g \in Handlers : pc[g] = "save" => loc[g].task # t
  /\ \A u \in Tasks : Exists(u) => Key[u] # Key[t]
  /\ Call(h, "save", t)
  /\ UNCHANGED <<repoVars, queueVars, lock, mu, memVars, faults, calls>>

\* CreateTask, SaveTask of the new task.
CreateSave(h) ==
  /\ pc[h] = "save"
  /\ \/ /\ SaveTask(loc[h].task, [status |-> "queued", attempts |-> 0])
        /\ Goto(h, "enqueue")
        /\ NoFault /\ UNCHANGED loc
     \/ /\ SaveFails(loc[h].task, [status |-> "queued", attempts |-> 0])
        /\ Finish(h)
  /\ UNCHANGED <<dead, imports, queueVars, lock, mu, memVars, calls>>

\* FindTask at the start of EnqueueTask and of RetryTaskStrict, without s.mu.
ReadFor(h, op, label, t) ==
  /\ op \in Ops /\ h \in Handlers /\ pc[h] = "idle"
  /\ Exists(t)
  /\ calls < MaxCalls /\ calls' = calls + 1
  /\ Goto(h, label)
  /\ loc' = [loc EXCEPT ![h] = [NoLocal EXCEPT !.task = t, !.row = task[t]]]
  /\ UNCHANGED <<repoVars, queueVars, lock, mu, memVars, faults>>
EnqueueRead(h, t) == ReadFor(h, "enqueue", "requeue", t)
RetryRead(h, t) == ReadFor(h, "retry", "reset", t)

\* EnqueueTask, SaveTask of the row it read with the status queued.
EnqueueSave(h) ==
  /\ pc[h] = "requeue"
  /\ \/ /\ SaveTask(loc[h].task, [loc[h].row EXCEPT !.status = "queued"])
        /\ Goto(h, "enqueue")
        /\ NoFault /\ UNCHANGED loc
     \/ /\ SaveFails(loc[h].task, [loc[h].row EXCEPT !.status = "queued"])
        /\ Finish(h)
  /\ UNCHANGED <<dead, imports, queueVars, lock, mu, memVars, calls>>

\* CreateTask and EnqueueTask end by enqueueLocked under s.mu.
Enqueue(h) ==
  /\ pc[h] = "enqueue" /\ MuFree(h)
  /\ Push(loc[h].task)
  /\ Finish(h)
  /\ UNCHANGED <<repoVars, pending, lock, mu, memVars, calls>>

\* RetryTaskStrict under s.mu: the row read before decides, and is reset.
AnyFailed(row) == row.status = "failed" \* (seeded bug)
Retryable(row) == Exhausted(row)
RetrySave(h) ==
  /\ pc[h] = "reset" /\ MuFree(h)
  /\ \/ /\ Retryable(loc[h].row)
        /\ SaveTask(loc[h].task, [status |-> "queued", attempts |-> 0])
        /\ Acquire(h)
        /\ Goto(h, "clear")
        /\ NoFault /\ UNCHANGED loc
     \/ /\ Retryable(loc[h].row)
        /\ SaveFails(loc[h].task, [status |-> "queued", attempts |-> 0])
        /\ Finish(h)
        /\ UNCHANGED mu
     \/ /\ ~Retryable(loc[h].row)
        /\ Finish(h)
        /\ NoFault /\ UNCHANGED <<task, mu>>
  /\ UNCHANGED <<dead, imports, queueVars, lock, memVars, calls>>

\* RetryTaskStrict, DeleteDeadLettersByTaskUID.
RetryClear(h) ==
  /\ pc[h] = "clear"
  /\ \/ /\ dead' = [dead EXCEPT ![loc[h].task] = <<>>]
        /\ Goto(h, "push")
        /\ NoFault /\ UNCHANGED <<mu, loc>>
     \/ /\ dead' = [dead EXCEPT ![loc[h].task] = <<>>] \/ UNCHANGED dead
        /\ Fault("repo") /\ Finish(h) /\ Release(h)
  /\ UNCHANGED <<task, imports, queueVars, lock, memVars, calls>>

\* RetryTaskStrict, enqueueLocked and the deferred unlock of s.mu.
RetryPush(h) ==
  /\ pc[h] = "push"
  /\ Push(loc[h].task)
  /\ Release(h)
  /\ Finish(h)
  /\ UNCHANGED <<repoVars, pending, lock, memVars, calls>>

\* RunTask: an attempt on the handler's own goroutine, without a message.
RunTask(h, t) ==
  /\ "run" \in Ops /\ h \in Handlers /\ pc[h] = "idle"
  /\ Exists(t)
  /\ Call(h, "lock", t)
  /\ UNCHANGED <<repoVars, queueVars, lock, mu, memVars, faults, calls>>

----------------------------------------------------------------------------
\* The worker's loop.

Take(w, m) ==
  /\ Goto(w, "lock")
  /\ loc' = [loc EXCEPT ![w] =
       [NoLocal EXCEPT !.task = m.task,
                       !.held = IF QueueMode = "stream" THEN {m} ELSE {}]]

\* Dequeue of a new message; the list queue forgets it at once.
Dequeue(w) ==
  /\ w \in Workers /\ pc[w] = "idle" /\ started[Home[w]]
  /\ stream # <<>>
  /\ stream' = Tail(stream)
  /\ pending' = IF QueueMode = "stream" THEN pending \cup {Head(stream)}
                                        ELSE pending
  /\ Take(w, Head(stream))
  /\ UNCHANGED <<repoVars, lock, mu, memVars, faults, calls>>

\* Dequeue through claimPending: XAUTOCLAIM of a message idle for long enough,
\* whoever it was delivered to and whether or not that worker still runs it:
\* claimMinIdle is 30 s by default, taskLockTTL 60 s.
Claim(w) ==
  /\ w \in Workers /\ pc[w] = "idle" /\ started[Home[w]]
  /\ \E m \in pending : Take(w, m)
  /\ UNCHANGED <<repoVars, queueVars, lock, mu, memVars, faults, calls>>

\* ackWithRetry: XACK and XDEL; after the last failed retry it gives up.
Ack(w) ==
  /\ pc[w] = "ack"
  /\ \/ pending' = pending \ loc[w].held /\ (NoFault \/ Fault("ack"))
     \/ UNCHANGED pending /\ Fault("ack")
  /\ Finish(w)
  /\ UNCHANGED <<repoVars, stream, lock, mu, memVars, calls>>

----------------------------------------------------------------------------
\* processOneAttempt, on a worker or on RunTask's handler.

\* TryLock, SET NX with a TTL.
PlainSet(t) == TRUE \* (seeded bug: SET without NX)
LeaseFree(t) == lock[t] = Nobody
TryLock(th) ==
  /\ pc[th] = "lock"
  /\ LeaseFree(loc[th].task)
  /\ lock' = [lock EXCEPT ![loc[th].task] = th]
  /\ Goto(th, "guard")
  /\ UNCHANGED <<repoVars, queueVars, mu, memVars, loc, faults, calls>>

\* TryLock finds the key taken: FindTask, and the task exists, so "true".
LockConflict(th) ==
  /\ pc[th] = "lock"
  /\ ~LeaseFree(loc[th].task)
  /\ \/ Return(th, TRUE) /\ NoFault
     \/ Return(th, FALSE) /\ Fault("repo")
  /\ UNCHANGED <<repoVars, queueVars, lock, mu, memVars, calls>>

\* TryLock returns an error: no acknowledgement.
LockError(th) ==
  /\ pc[th] = "lock"
  /\ Fault("lock")
  /\ \/ UNCHANGED lock
     \/ /\ LeaseFree(loc[th].task)
        /\ lock' = [lock EXCEPT ![loc[th].task] = th]
  /\ Return(th, FALSE)
  /\ UNCHANGED <<repoVars, queueVars, mu, memVars, calls>>

\* withTaskProcessing's check of processingTasks, under s.mu.
NeverRunning(th) == FALSE \* (seeded bug)
AlreadyRunning(th) == loc[th].task \in processing[Home[th]]
Guard(th) ==
  /\ pc[th] = "guard" /\ MuFree(th)
  /\ \/ /\ ~AlreadyRunning(th)
        /\ processing' = [processing EXCEPT ![Home[th]] = @ \cup {loc[th].task}]
        /\ Goto(th, "load")
        /\ NoFault /\ UNCHANGED loc
     \/ /\ AlreadyRunning(th)
        /\ \/ NoFault /\ loc' = [loc EXCEPT ![th].ok = TRUE]
           \/ Fault("repo") /\ loc' = [loc EXCEPT ![th].ok = FALSE]
        /\ Goto(th, "unlock")
        /\ UNCHANGED processing
  /\ UNCHANGED <<repoVars, queueVars, lock, mu, timers, started, calls>>

\* FindTask, of a task that is to be tried.
Load(th) ==
  LET row == task[loc[th].task]
  IN  /\ pc[th] = "load"
      /\ \/ /\ ~Done(row)
            /\ loc' = [loc EXCEPT ![th].row = row]
            /\ Goto(th, "start")
            /\ NoFault
         \/ RepoError(th)
  /\ UNCHANGED <<repoVars, queueVars, lock, mu, memVars, calls>>

\* FindTask, of a task that is done: reported as processed.
SkipDoneUnacked(th) == \* (seeded bug)
  /\ pc[th] = "load" /\ Done(task[loc[th].task])
  /\ End(th, FALSE) /\ NoFault
  /\ UNCHANGED <<repoVars, queueVars, lock, mu, memVars, calls>>
SkipDone(th) ==
  /\ pc[th] = "load" /\ Done(task[loc[th].task])
  /\ End(th, TRUE) /\ NoFault
  /\ UNCHANGED <<repoVars, queueVars, lock, mu, memVars, calls>>

\* startTaskAttempt: the row read by Load, running, one attempt more.
Started(row) == [status |-> "running", attempts |-> row.attempts + 1]
StartAttempt(th) ==
  /\ pc[th] = "start"
  /\ loc[th].row.attempts < AttemptCap
  /\ LET row == Started(loc[th].row)
     IN  \/ /\ SaveTask(loc[th].task, row)
            /\ Goto(th, "reread")
            /\ NoFault /\ UNCHANGED loc
         \/ SaveFails(loc[th].task, row) /\ End(th, FALSE)
  /\ UNCHANGED <<dead, imports, queueVars, lock, mu, memVars, calls>>

\* resolveImportContent, then s.mu and a second FindTask.  Without content the
\* attempts left decide between a retry and the dead letters.
Reread(th) ==
  LET row == task[loc[th].task]
      noContent == IF HasAttemptsLeft(row) THEN "retry" ELSE "fail"
  IN  /\ pc[th] = "reread" /\ MuFree(th)
      /\ \/ /\ loc' = [loc EXCEPT ![th].row = row]
            /\ \E next \in {"import", noContent} : Goto(th, next)
            /\ Acquire(th)
            /\ NoFault
         \/ RepoError(th) /\ UNCHANGED mu
  /\ UNCHANGED <<repoVars, queueVars, lock, memVars, calls>>

\* knowledgeService.Import, still under s.mu.
Import(th) ==
  /\ pc[th] = "import"
  /\ \/ /\ imports' = [imports EXCEPT ![loc[th].task] =
                                       IF @ < 2 THEN @ + 1 ELSE @]
        /\ Goto(th, "succeed")
     \/ Goto(th, "fail") /\ UNCHANGED imports
  /\ UNCHANGED <<task, dead, queueVars, lock, mu, memVars, loc, faults, calls>>

\* The row read under s.mu is written back with a new status; if that fails
\* the attempt ends without an acknowledgement.
SaveOutcome(th, status) ==
  SaveTask(loc[th].task, [loc[th].row EXCEPT !.status = status])
OutcomeFails(th, status) ==
  /\ SaveFails(loc[th].task, [loc[th].row EXCEPT !.status = status])
  /\ End(th, FALSE)

\* completeSuccessfulImport.
Succeed(th) ==
  /\ pc[th] = "succeed"
  /\ \/ SaveOutcome(th, "succeeded") /\ End(th, TRUE) /\ NoFault
     \/ OutcomeFails(th, "succeeded")
  /\ Release(th)
  /\ UNCHANGED <<dead, imports, queueVars, lock, memVars, calls>>

\* scheduleRetry: the row goes back to queued and a goroutine waits to enqueue
\* it again; once the worker is stopped that goroutine returns at once.
NoTimer(p, t) == UNCHANGED timers \* (seeded bug)
StartTimer(p, t) ==
  timers' = IF started[p] THEN [timers EXCEPT ![p][t] = @ + 1] ELSE timers
ScheduleRetry(th) ==
  /\ pc[th] = "retry"
  /\ \/ /\ SaveOutcome(th, "queued") /\ End(th, TRUE) /\ NoFault
        /\ StartTimer(Home[th], loc[th].task)
     \/ OutcomeFails(th, "queued") /\ UNCHANGED timers
  /\ Release(th)
  /\ UNCHANGED <<dead, imports, queueVars, lock, processing, started, calls>>

\* moveToDeadLetter, SaveTask.
Fail(th) ==
  /\ pc[th] = "fail"
  /\ \/ /\ SaveOutcome(th, "failed")
        /\ Goto(th, "bury")
        /\ NoFault /\ UNCHANGED <<loc, mu>>
     \/ OutcomeFails(th, "failed") /\ Release(th)
  /\ UNCHANGED <<dead, imports, queueVars, lock, memVars, calls>>

\* moveToDeadLetter, AppendDeadLetter.
Record(t, attempts) == dead' = [dead EXCEPT ![t] = Append(@, attempts)]
Bury(th) ==
  /\ pc[th] = "bury"
  /\ \/ /\ Record(loc[th].task, loc[th].row.attempts)
        /\ (End(th, TRUE) /\ NoFault) \/ RepoError(th)
     \/ RepoError(th) /\ UNCHANGED dead
  /\ Release(th)
  /\ UNCHANGED <<task, imports, queueVars, lock, memVars, calls>>

\* withTaskProcessing's deferred delete from processingTasks.
Leave(th) ==
  /\ pc[th] = "leave" /\ MuFree(th)
  /\ processing' = [processing EXCEPT ![Home[th]] = @ \ {loc[th].task}]
  /\ Goto(th, "unlock")
  /\ UNCHANGED <<repoVars, queueVars, lock, mu, timers, started, loc, faults,
                 calls>>

\* The deferred Unlock: DEL of the key, whoever put it there.
Unlock(th) ==
  /\ pc[th] = "unlock"
  /\ \/ /\ lock' = [lock EXCEPT ![loc[th].task] = Nobody]
        /\ NoFault \/ Fault("unlock")
     \/ UNCHANGED lock /\ Fault("unlock")
  /\ Return(th, loc[th].ok)
  /\ UNCHANGED <<repoVars, queueVars, mu, memVars, calls>>

----------------------------------------------------------------------------
\* Timers, leases and processes.

\* enqueueAfter: the delay is over.  FindTask may fail; so may the push.  The
\* delay ends before the attempt that set it is unlocked only if that is slow.
Trailing(t) ==
  \E th \in Threads : loc[th].task = t /\ pc[th] \in {"leave", "unlock"}
AlwaysDue(p, t) == TRUE \* (seeded bug: a timer that is not consumed)
Due(p, t) == timers[p][t] > 0
RetryTimer(p, t) ==
  /\ Due(p, t) /\ mu[p] = Nobody
  /\ Trailing(t) => "slow" \in FaultKinds
  /\ timers' = [timers EXCEPT ![p][t] = @ - 1]
  /\ Push(t) \/ (Fault("repo") /\ UNCHANGED stream)
  /\ UNCHANGED <<repoVars, pending, lock, mu, processing, started, threadVars,
                 calls>>

\* The TTL of a lease.  It ends under a live attempt only if that is "slow".
Owns(th, t) == loc[th].task = t /\ pc[th] \in Leased
LeaseExpires(t) ==
  /\ lock[t] # Nobody
  /\ IF Owns(lock[t], t) THEN Fault("slow") ELSE NoFault
  /\ lock' = [lock EXCEPT ![t] = Nobody]
  /\ UNCHANGED <<repoVars, queueVars, mu, memVars, threadVars, calls>>

\* StopWorker closes stopCh: the loop ends after its current message and the
\* goroutines in enqueueAfter return without enqueueing.
StopWorker(p) ==
  /\ started[p] /\ mu[p] = Nobody
  /\ Fault("stop")
  /\ started' = [started EXCEPT ![p] = FALSE]
  /\ timers' = [timers EXCEPT ![p] = [t \in Tasks |-> 0]]
  /\ UNCHANGED <<repoVars, queueVars, lock, mu, processing, threadVars, calls>>

\* The process exits, by a crash or after StopWorker, and a new one starts
\* its worker: everything in memory is gone, Redis and PostgreSQL remain.
Restart(p) ==
  LET mine == {th \in Threads : Home[th] = p}
  IN  /\ IF ~started[p] /\ \A w \in mine \cap Workers : pc[w] = "idle"
           THEN NoFault ELSE Fault("crash")
      /\ mu' = [mu EXCEPT ![p] = Nobody]
      /\ processing' = [processing EXCEPT ![p] = {}]
      /\ timers' = [timers EXCEPT ![p] = [t \in Tasks |-> 0]]
      /\ started' = [started EXCEPT ![p] = TRUE]
      /\ pc' = [th \in Threads |-> IF th \in mine THEN "idle" ELSE pc[th]]
      /\ loc' = [th \in Threads |-> IF th \in mine THEN NoLocal ELSE loc[th]]
  /\ UNCHANGED <<repoVars, queueVars, lock, calls>>

----------------------------------------------------------------------------
Init ==
  /\ task = [t \in Tasks |-> NoRow]
  /\ dead = [t \in Tasks |-> <<>>]
  /\ imports = [t \in Tasks |-> 0]
  /\ stream = <<>>
  /\ pending = {}
  /\ lock = [t \in Tasks |-> Nobody]
  /\ mu = [p \in Procs |-> Nobody]
  /\ processing = [p \in Procs |-> {}]
  /\ timers = [p \in Procs |-> [t \in Tasks |-> 0]]
  /\ started = [p \in Procs |-> TRUE]
  /\ pc = [th \in Threads |-> "idle"]
  /\ loc = [th \in Threads |-> NoLocal]
  /\ faults = 0
  /\ calls = 0

Attempt(th) ==
  \/ TryLock(th) \/ LockConflict(th) \/ LockError(th) \/ Guard(th) \/ Load(th)
  \/ SkipDone(th) \/ StartAttempt(th) \/ Reread(th) \/ Import(th) \/ Succeed(th)
  \/ ScheduleRetry(th) \/ Fail(th) \/ Bury(th) \/ Leave(th) \/ Unlock(th)
Handle(h) ==
  \/ CreateSave(h) \/ EnqueueSave(h) \/ Enqueue(h)
  \/ RetrySave(h) \/ RetryClear(h) \/ RetryPush(h)
Request(h, t) ==
  CreateLookup(h, t) \/ EnqueueRead(h, t) \/ RetryRead(h, t) \/ RunTask(h, t)
Work(w) == Dequeue(w) \/ Claim(w) \/ Ack(w)

Next ==
  \/ \E th \in Threads : Attempt(th) \/ Handle(th) \/ Work(th)
  \/ \E h \in Threads, t \in Tasks : Request(h, t)
  \/ \E p \in Procs, t \in Tasks : RetryTimer(p, t)
  \/ \E t \in Tasks : LeaseExpires(t)
  \/ \E p \in Procs : StopWorker(p) \/ Restart(p)

Spec == Init /\ [][Next]_vars

----------------------------------------------------------------------------
(***************************************************************************)
(* Properties.                                                             *)
(***************************************************************************)

\* The values the variables take.
TypeOK ==
  /\ task \in [Tasks -> Row]
  /\ dead \in [Tasks -> Seq(Nat)]
  /\ imports \in [Tasks -> 0..2]
  /\ stream \in Seq(Message)
  /\ pending \in SUBSET Message
  /\ lock \in [Tasks -> Threads \cup {Nobody}]
  /\ mu \in [Procs -> Threads \cup {Nobody}]
  /\ processing \in [Procs -> SUBSET Tasks]
  /\ timers \in [Procs -> [Tasks -> Nat]]
  /\ started \in [Procs -> BOOLEAN]
  /\ pc \in [Threads -> Labels]
  /\ loc \in [Threads -> Local]
  /\ faults \in 0..MaxFaults
  /\ calls \in 0..MaxCalls

\* Two goroutines of one process never run an attempt of the same task at the
\* same time, whatever happens to the lease: processingTasks is their guard.
InProcessExclusion ==
  \A a, b \in Threads :
    a # b /\ Home[a] = Home[b] /\ loc[a].task = loc[b].task
      => ~(pc[a] \in Attempting /\ pc[b] \in Attempting)

\* No two threads of any process run the same task at the same time.  This is
\* what the Redis lease is for, and it needs attempts shorter than the TTL.
LeaseExclusion ==
  \A a, b \in Threads :
    a # b /\ loc[a].task = loc[b].task
      => ~(pc[a] \in Leased /\ pc[b] \in Leased)

\* A task is imported successfully at most once, although its message may be
\* delivered twice and the API may run it as well.
ImportOnce == \A t \in Tasks : imports[t] <= 1

\* Somebody will still take care of an unfinished task: a message, a retry
\* timer, an attempt under way or a handler about to enqueue it.
Unfinished(t) == task[t].status \in {"queued", "running"}
Carried(t) ==
  \/ \E m \in pending \cup {stream[i] : i \in DOMAIN stream} : m.task = t
  \/ \E p \in Procs : timers[p][t] > 0
  \/ \E th \in Threads :
       /\ loc[th].task = t
       /\ pc[th] \in ({"lock", "enqueue", "clear", "push"} \cup Leased)
                       \ {"leave", "unlock"}
NoTaskStranded == \A t \in Tasks : Unfinished(t) => Carried(t)

\* Success is final: no later write of a stale row, no redelivered message and
\* no restart takes a task out of "succeeded".
SuccessIsFinal ==
  [][\A t \in Tasks : task[t].status = "succeeded"
                        => task'[t].status = "succeeded"]_vars

\* The life of a task seen from outside, which the queue implements.
Lifecycle == INSTANCE ImportTaskLifecycle WITH row <- task
LifecycleSpec == Lifecycle!Spec

\* Weak fairness of everything that runs by itself: the goroutines once they
\* have work, the timers and the TTLs.  Clients, failures and stops are not.
Fairness ==
  /\ \A th \in Threads : WF_vars(Attempt(th) \/ Handle(th) \/ Work(th))
  /\ \A p \in Procs, t \in Tasks : WF_vars(RetryTimer(p, t))
  /\ \A t \in Tasks : WF_vars(lock[t] # Nobody /\ ~Owns(lock[t], t) /\ LeaseExpires(t))
FairSpec == Spec /\ Fairness

\* Every task that is created comes to an end.
EveryTaskEnds ==
  \A t \in Tasks : Exists(t) ~> task[t].status \in {"succeeded", "failed"}

\* Every message is acknowledged in the end.
StreamDrains == <>[](stream = <<>> /\ pending = {})
============================================================================
