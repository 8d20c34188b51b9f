----------------------- MODULE ImportTaskQueueProofs -----------------------
(***************************************************************************)
(* Theorems about ImportTaskQueue, for any number of processes, threads,   *)
(* tasks, messages and failures.  First the mutual exclusion of the        *)
(* attempts of a task: inside a process by processingTasks, among all      *)
(* processes by the Redis lease.                                           *)
(*                                                                         *)
(* Then: the queue implements the life cycle of a task, and success is     *)
(* final, as long as no attempt outlives its lease and nobody calls        *)
(* :enqueue or :retry (whose handlers write back a row they read without   *)
(* the lease).  Under stronger assumptions on what may fail, a task is     *)
(* imported once (Recorded) and no task is stranded (Uninterrupted).       *)
(***************************************************************************)
EXTENDS ImportTaskQueue, SequenceTheorems, TLAPS

----------------------------------------------------------------------------
(* Type correctness: what each piece shared by the actions yields.         *)

LEMMA NoLocalType == NoLocal \in Local
BY ThreadAssumption DEF NoLocal, Local, NoRow, Row, Status

LEMMA CallType ==
  ASSUME TypeOK, NEW th \in Threads, NEW t \in Tasks, NEW label \in Labels,
         Call(th, label, t)
  PROVE  pc' \in [Threads -> Labels] /\ loc' \in [Threads -> Local]
BY NoLocalType DEF Call, Goto, TypeOK, Local

LEMMA GotoType ==
  ASSUME TypeOK, NEW th \in Threads, NEW label \in Labels, Goto(th, label)
  PROVE  pc' \in [Threads -> Labels]
BY DEF Goto, TypeOK

LEMMA FinishType ==
  ASSUME TypeOK, NEW th \in Threads, Finish(th)
  PROVE  pc' \in [Threads -> Labels] /\ loc' \in [Threads -> Local]
BY NoLocalType DEF Finish, Goto, TypeOK, Labels

LEMMA ReturnType ==
  ASSUME TypeOK, NEW th \in Threads, NEW b \in BOOLEAN, Return(th, b)
  PROVE  pc' \in [Threads -> Labels] /\ loc' \in [Threads -> Local]
BY FinishType, GotoType DEF Return, TypeOK, Labels

LEMMA EndType ==
  ASSUME TypeOK, NEW th \in Threads, NEW b \in BOOLEAN, End(th, b)
  PROVE  pc' \in [Threads -> Labels] /\ loc' \in [Threads -> Local]
BY DEF End, Goto, TypeOK, Local, Labels, Leased

LEMMA FaultType ==
  ASSUME TypeOK, NEW kind, NoFault \/ Fault(kind)
  PROVE  faults' \in 0..MaxFaults
BY BoundAssumption DEF NoFault, Fault, TypeOK

LEMMA MutexType ==
  ASSUME TypeOK, NEW th \in Threads, Acquire(th) \/ Release(th) \/ UNCHANGED mu
  PROVE  mu' \in [Procs -> Threads \cup {Nobody}]
BY ThreadAssumption DEF Acquire, Release, TypeOK

LEMMA LocRow ==
  ASSUME TypeOK, NEW th \in Threads
  PROVE  /\ loc[th].task \in Tasks
         /\ loc[th].held \in SUBSET Message
         /\ loc[th].row \in Row
         /\ loc[th].ok \in BOOLEAN
         /\ task[loc[th].task] \in Row
         /\ Home[th] \in Procs
BY ThreadAssumption DEF TypeOK, Local

LEMMA SaveType ==
  ASSUME TypeOK, NEW t \in Tasks, NEW row \in Row,
         SaveTask(t, row) \/ UNCHANGED task
  PROVE  task' \in [Tasks -> Row]
BY DEF SaveTask, TypeOK

LEMMA PushType ==
  ASSUME TypeOK, NEW t \in Tasks, Push(t)
  PROVE  stream' \in Seq(Message) /\ faults' \in 0..MaxFaults
<1>1. CASE Fault("push") /\ UNCHANGED stream
  BY <1>1, FaultType DEF TypeOK
<1>2. ASSUME NEW id \in FreeIds, NoFault \/ Fault("push"),
             stream' = Append(stream, [task |-> t, id |-> id])
      PROVE  stream' \in Seq(Message) /\ faults' \in 0..MaxFaults
  <2>1. [task |-> t, id |-> id] \in Message
    BY <1>2 DEF FreeIds, Message
  <2>2. stream' \in Seq(Message)
    BY <1>2, <2>1, AppendProperties DEF TypeOK
  <2>. QED BY <1>2, <2>2, FaultType
<1>. QED BY <1>1, <1>2 DEF Push

LEMMA InitType == Init => TypeOK
BY NoLocalType, BoundAssumption, ThreadAssumption, EmptySeq
DEF Init, TypeOK, Row, NoRow, Status, Labels

LEMMA ReadType ==
  ASSUME TypeOK, NEW h \in Threads, NEW op, NEW label \in Labels,
         NEW t \in Tasks, ReadFor(h, op, label, t)
  PROVE  TypeOK'
<1>1. [NoLocal EXCEPT !.task = t, !.row = task[t]] \in Local
  BY NoLocalType DEF Local, TypeOK
<1>2. pc' \in [Threads -> Labels] /\ loc' \in [Threads -> Local]
  BY <1>1, GotoType DEF ReadFor, TypeOK
<1>3. calls' \in 0..MaxCalls
  BY BoundAssumption DEF ReadFor, TypeOK
<1>. QED BY <1>2, <1>3 DEF ReadFor, TypeOK, repoVars, queueVars, memVars

LEMMA TakeType ==
  ASSUME TypeOK, NEW w \in Threads, NEW m \in Message, Take(w, m)
  PROVE  pc' \in [Threads -> Labels] /\ loc' \in [Threads -> Local]
<1>1. m.task \in Tasks
  BY DEF Message
<1>2. [NoLocal EXCEPT !.task = m.task,
                      !.held = IF QueueMode = "stream" THEN {m} ELSE {}]
        \in Local
  BY <1>1, NoLocalType DEF Local
<1>. QED BY <1>2, GotoType DEF Take, TypeOK, Labels

LEMMA OutcomeType ==
  ASSUME TypeOK, NEW th \in Threads, NEW status \in Status,
         SaveOutcome(th, status) \/ OutcomeFails(th, status)
  PROVE  task' \in [Tasks -> Row]
<1>1. [loc[th].row EXCEPT !.status = status] \in Row
  BY LocRow DEF Row
<1>. QED BY <1>1, LocRow, SaveType DEF SaveOutcome, OutcomeFails, SaveFails

LEMMA CreateLookupKeepsType ==
  ASSUME TypeOK, NEW h \in Threads, NEW t \in Tasks, CreateLookup(h, t)
  PROVE  TypeOK'
BY CallType DEF CreateLookup, TypeOK, Labels, repoVars, queueVars, memVars

LEMMA CreateSaveKeepsType ==
  ASSUME TypeOK, NEW h \in Threads, CreateSave(h)
  PROVE  TypeOK'
BY FaultType, FinishType, GotoType, LocRow, SaveType DEF CreateSave, TypeOK, SaveFails, Row, Status, Labels, repoVars, queueVars, memVars

LEMMA EnqueueReadKeepsType ==
  ASSUME TypeOK, NEW h \in Threads, NEW t \in Tasks, EnqueueRead(h, t)
  PROVE  TypeOK'
BY ReadType DEF EnqueueRead, Labels

LEMMA EnqueueSaveKeepsType ==
  ASSUME TypeOK, NEW h \in Threads, EnqueueSave(h)
  PROVE  TypeOK'
BY FaultType, FinishType, GotoType, LocRow, SaveType DEF EnqueueSave, TypeOK, SaveFails, Row, Status, Labels, repoVars, queueVars, memVars

LEMMA EnqueueKeepsType ==
  ASSUME TypeOK, NEW h \in Threads, Enqueue(h)
  PROVE  TypeOK'
BY PushType, FinishType, LocRow DEF Enqueue, TypeOK, repoVars, queueVars, memVars

LEMMA RetryReadKeepsType ==
  ASSUME TypeOK, NEW h \in Threads, NEW t \in Tasks, RetryRead(h, t)
  PROVE  TypeOK'
BY ReadType DEF RetryRead, Labels

LEMMA RetrySaveKeepsType ==
  ASSUME TypeOK, NEW h \in Threads, RetrySave(h)
  PROVE  TypeOK'
BY FaultType, FinishType, GotoType, LocRow, SaveType, MutexType DEF RetrySave, TypeOK, SaveFails, Row, Status, Labels, Locking, repoVars, queueVars, memVars

LEMMA RetryClearKeepsType ==
  ASSUME TypeOK, NEW h \in Threads, RetryClear(h)
  PROVE  TypeOK'
<1>1. dead' \in [Tasks -> Seq(Nat)]
  <2>1. <<>> \in Seq(Nat) /\ dead \in [Tasks -> Seq(Nat)]
    BY EmptySeq DEF TypeOK
  <2>2. dead' = dead \/ dead' = [dead EXCEPT ![loc[h].task] = <<>>]
    BY DEF RetryClear
  <2>. QED BY <2>1, <2>2
<1>2. pc' \in [Threads -> Labels] /\ loc' \in [Threads -> Local]
  BY FinishType, GotoType DEF RetryClear, TypeOK, Labels, Locking
<1>3. faults' \in 0..MaxFaults /\ mu' \in [Procs -> Threads \cup {Nobody}]
  BY FaultType, MutexType DEF RetryClear
<1>. QED BY <1>1, <1>2, <1>3 DEF RetryClear, TypeOK, queueVars, memVars

LEMMA RetryPushKeepsType ==
  ASSUME TypeOK, NEW h \in Threads, RetryPush(h)
  PROVE  TypeOK'
BY PushType, FinishType, LocRow, MutexType DEF RetryPush, TypeOK, repoVars, queueVars, memVars

LEMMA RunTaskKeepsType ==
  ASSUME TypeOK, NEW h \in Threads, NEW t \in Tasks, RunTask(h, t)
  PROVE  TypeOK'
BY CallType DEF RunTask, TypeOK, Labels, repoVars, queueVars, memVars

LEMMA DequeueKeepsType ==
  ASSUME TypeOK, NEW w \in Threads, Dequeue(w)
  PROVE  TypeOK'
<1>1. Head(stream) \in Message /\ Tail(stream) \in Seq(Message)
  BY HeadTailProperties DEF Dequeue, TypeOK
<1>2. pc' \in [Threads -> Labels] /\ loc' \in [Threads -> Local]
  BY <1>1, TakeType DEF Dequeue
<1>. QED BY <1>1, <1>2 DEF Dequeue, TypeOK, repoVars, memVars

LEMMA ClaimKeepsType ==
  ASSUME TypeOK, NEW w \in Threads, Claim(w)
  PROVE  TypeOK'
<1>1. pc' \in [Threads -> Labels] /\ loc' \in [Threads -> Local]
  BY TakeType DEF Claim, TypeOK
<1>. QED BY <1>1 DEF Claim, TypeOK, repoVars, queueVars, memVars

LEMMA AckKeepsType ==
  ASSUME TypeOK, NEW w \in Threads, Ack(w)
  PROVE  TypeOK'
BY FinishType, FaultType DEF Ack, TypeOK, repoVars, queueVars, memVars

LEMMA TryLockKeepsType ==
  ASSUME TypeOK, NEW th \in Threads, TryLock(th)
  PROVE  TypeOK'
BY GotoType, LocRow DEF TryLock, TypeOK, Labels, Leased, repoVars, queueVars, memVars

LEMMA LockConflictKeepsType ==
  ASSUME TypeOK, NEW th \in Threads, LockConflict(th)
  PROVE  TypeOK'
BY ReturnType, FaultType DEF LockConflict, TypeOK, repoVars, queueVars, memVars

LEMMA LockErrorKeepsType ==
  ASSUME TypeOK, NEW th \in Threads, LockError(th)
  PROVE  TypeOK'
BY ReturnType, FaultType, LocRow DEF LockError, TypeOK, repoVars, queueVars, memVars

LEMMA GuardKeepsType ==
  ASSUME TypeOK, NEW th \in Threads, Guard(th)
  PROVE  TypeOK'
<1>1. pc' \in [Threads -> Labels]
  BY GotoType DEF Guard, Labels, Leased
<1>4. loc' \in [Threads -> Local]
  <2>1. CASE UNCHANGED loc
    BY <2>1 DEF TypeOK
  <2>2. CASE loc' = [loc EXCEPT ![th].ok = TRUE]
    BY <2>2 DEF TypeOK, Local
  <2>3. CASE loc' = [loc EXCEPT ![th].ok = FALSE]
    BY <2>3 DEF TypeOK, Local
  <2>. QED BY <2>1, <2>2, <2>3 DEF Guard
<1>2. processing' \in [Procs -> SUBSET Tasks]
  <2>1. CASE UNCHANGED processing
    BY <2>1 DEF TypeOK
  <2>2. CASE processing' = [processing EXCEPT ![Home[th]] = @ \cup {loc[th].task}]
    BY <2>2, LocRow DEF TypeOK
  <2>. QED BY <2>1, <2>2 DEF Guard
<1>3. faults' \in 0..MaxFaults
  BY FaultType DEF Guard
<1>. QED BY <1>1, <1>2, <1>3, <1>4 DEF Guard, TypeOK, repoVars, queueVars

LEMMA LoadKeepsType ==
  ASSUME TypeOK, NEW th \in Threads, Load(th)
  PROVE  TypeOK'
<1>1. pc' \in [Threads -> Labels] /\ loc' \in [Threads -> Local]
  <2>1. CASE RepoError(th)
    BY <2>1, EndType DEF RepoError
  <2>2. CASE ~RepoError(th)
    BY <2>2, GotoType, LocRow DEF Load, TypeOK, Local, Labels, Leased
  <2>. QED BY <2>1, <2>2
<1>2. faults' \in 0..MaxFaults
  BY FaultType DEF Load, RepoError
<1>. QED BY <1>1, <1>2 DEF Load, TypeOK, repoVars, queueVars, memVars

LEMMA SkipDoneKeepsType ==
  ASSUME TypeOK, NEW th \in Threads, SkipDone(th)
  PROVE  TypeOK'
BY EndType, FaultType DEF SkipDone, TypeOK, repoVars, queueVars, memVars

LEMMA StartAttemptKeepsType ==
  ASSUME TypeOK, NEW th \in Threads, StartAttempt(th)
  PROVE  TypeOK'
<1>1. Started(loc[th].row) \in Row
  BY LocRow DEF Started, Row, Status
<1>2. task' \in [Tasks -> Row]
  BY <1>1, LocRow, SaveType DEF StartAttempt, SaveFails
<1>3. pc' \in [Threads -> Labels] /\ loc' \in [Threads -> Local]
  BY EndType, GotoType DEF StartAttempt, TypeOK, Labels, Leased
<1>4. faults' \in 0..MaxFaults
  BY FaultType DEF StartAttempt, SaveFails
<1>. QED BY <1>2, <1>3, <1>4 DEF StartAttempt, TypeOK, queueVars, memVars

LEMMA RereadKeepsType ==
  ASSUME TypeOK, NEW th \in Threads, Reread(th)
  PROVE  TypeOK'
<1>1. pc' \in [Threads -> Labels] /\ loc' \in [Threads -> Local]
  <2>1. CASE RepoError(th)
    BY <2>1, EndType DEF RepoError
  <2>2. CASE ~RepoError(th)
    BY <2>2, GotoType, LocRow DEF Reread, TypeOK, Local, Labels, Leased
  <2>. QED BY <2>1, <2>2
<1>2. faults' \in 0..MaxFaults /\ mu' \in [Procs -> Threads \cup {Nobody}]
  BY FaultType, MutexType DEF Reread, RepoError
<1>. QED BY <1>1, <1>2 DEF Reread, TypeOK, repoVars, queueVars, memVars

LEMMA ImportKeepsType ==
  ASSUME TypeOK, NEW th \in Threads, Import(th)
  PROVE  TypeOK'
<1>1. pc' \in [Threads -> Labels]
  BY GotoType DEF Import, Labels, Leased
<1>2. imports' \in [Tasks -> 0..2]
  <2>1. imports[loc[th].task] \in 0..2 /\ imports \in [Tasks -> 0..2]
    BY LocRow DEF TypeOK
  <2>2. PICK n \in 0..2 : \/ imports' = imports
                          \/ imports' = [imports EXCEPT ![loc[th].task] = n]
    BY <2>1 DEF Import
  <2>. QED BY <2>1, <2>2
<1>. QED BY <1>1, <1>2 DEF Import, TypeOK, queueVars, memVars

LEMMA SucceedKeepsType ==
  ASSUME TypeOK, NEW th \in Threads, Succeed(th)
  PROVE  TypeOK'
<1>1. task' \in [Tasks -> Row]
  BY OutcomeType DEF Succeed, Status
<1>2. pc' \in [Threads -> Labels] /\ loc' \in [Threads -> Local]
  BY EndType DEF Succeed, OutcomeFails
<1>3. faults' \in 0..MaxFaults /\ mu' \in [Procs -> Threads \cup {Nobody}]
  BY FaultType, MutexType DEF Succeed, OutcomeFails, SaveFails
<1>. QED BY <1>1, <1>2, <1>3 DEF Succeed, TypeOK, queueVars, memVars

LEMMA ScheduleRetryKeepsType ==
  ASSUME TypeOK, NEW th \in Threads, ScheduleRetry(th)
  PROVE  TypeOK'
<1>1. task' \in [Tasks -> Row]
  BY OutcomeType DEF ScheduleRetry, Status
<1>2. pc' \in [Threads -> Labels] /\ loc' \in [Threads -> Local]
  BY EndType DEF ScheduleRetry, OutcomeFails
<1>3. faults' \in 0..MaxFaults /\ mu' \in [Procs -> Threads \cup {Nobody}]
  BY FaultType, MutexType DEF ScheduleRetry, OutcomeFails, SaveFails
<1>4. timers' \in [Procs -> [Tasks -> Nat]]
  <2>1. CASE UNCHANGED timers
    BY <2>1 DEF TypeOK
  <2>2. CASE timers' = [timers EXCEPT ![Home[th]][loc[th].task] = @ + 1]
    BY <2>2, LocRow DEF TypeOK
  <2>. QED BY <2>1, <2>2 DEF ScheduleRetry, StartTimer
<1>. QED BY <1>1, <1>2, <1>3, <1>4 DEF ScheduleRetry, TypeOK, queueVars

LEMMA FailKeepsType ==
  ASSUME TypeOK, NEW th \in Threads, Fail(th)
  PROVE  TypeOK'
<1>1. task' \in [Tasks -> Row]
  BY OutcomeType DEF Fail, Status
<1>2. pc' \in [Threads -> Labels] /\ loc' \in [Threads -> Local]
  BY EndType, GotoType DEF Fail, OutcomeFails, TypeOK, Labels, Leased
<1>3. faults' \in 0..MaxFaults /\ mu' \in [Procs -> Threads \cup {Nobody}]
  BY FaultType, MutexType DEF Fail, OutcomeFails, SaveFails
<1>. QED BY <1>1, <1>2, <1>3 DEF Fail, TypeOK, queueVars, memVars

LEMMA BuryKeepsType ==
  ASSUME TypeOK, NEW th \in Threads, Bury(th)
  PROVE  TypeOK'
<1>1. dead' \in [Tasks -> Seq(Nat)]
  <2>1. loc[th].row.attempts \in Nat /\ dead[loc[th].task] \in Seq(Nat)
    BY LocRow DEF Row, TypeOK
  <2>2. Append(dead[loc[th].task], loc[th].row.attempts) \in Seq(Nat)
    BY <2>1, AppendProperties
  <2>. QED BY <2>2, LocRow DEF Bury, Record, TypeOK
<1>2. pc' \in [Threads -> Labels] /\ loc' \in [Threads -> Local]
  BY EndType DEF Bury, RepoError
<1>3. faults' \in 0..MaxFaults /\ mu' \in [Procs -> Threads \cup {Nobody}]
  BY FaultType, MutexType DEF Bury, RepoError
<1>. QED BY <1>1, <1>2, <1>3 DEF Bury, TypeOK, queueVars, memVars

LEMMA LeaveKeepsType ==
  ASSUME TypeOK, NEW th \in Threads, Leave(th)
  PROVE  TypeOK'
BY GotoType, LocRow DEF Leave, TypeOK, Labels, Leased, repoVars, queueVars, memVars

LEMMA UnlockKeepsType ==
  ASSUME TypeOK, NEW th \in Threads, Unlock(th)
  PROVE  TypeOK'
BY ReturnType, FaultType, LocRow DEF Unlock, TypeOK, repoVars, queueVars, memVars

LEMMA ClockKeepsType ==
  ASSUME TypeOK, NEW p \in Procs, NEW t \in Tasks,
         RetryTimer(p, t) \/ LeaseExpires(t) \/ StopWorker(p) \/ Restart(p)
  PROVE  TypeOK'
<1>1. CASE RetryTimer(p, t)
  <2>1. stream' \in Seq(Message) /\ faults' \in 0..MaxFaults
    BY <1>1, PushType, FaultType DEF RetryTimer, TypeOK
  <2>2. timers' \in [Procs -> [Tasks -> Nat]]
    BY <1>1 DEF RetryTimer, Due, TypeOK
  <2>. QED BY <1>1, <2>1, <2>2 DEF RetryTimer, TypeOK, repoVars, threadVars
<1>2. CASE LeaseExpires(t)
  <2>1. faults' \in 0..MaxFaults
    BY <1>2, FaultType DEF LeaseExpires
  <2>. QED BY <1>2, <2>1
           DEF LeaseExpires, TypeOK, repoVars, queueVars, memVars, threadVars
<1>3. CASE StopWorker(p)
  <2>1. faults' \in 0..MaxFaults
    BY <1>3, FaultType DEF StopWorker
  <2>. QED BY <1>3, <2>1
           DEF StopWorker, TypeOK, repoVars, queueVars, threadVars
<1>4. CASE Restart(p)
  <2>1. faults' \in 0..MaxFaults
    BY <1>4, FaultType DEF Restart
  <2>2. pc' \in [Threads -> Labels] /\ loc' \in [Threads -> Local]
    BY <1>4, NoLocalType DEF Restart, TypeOK, Labels
  <2>. QED BY <1>4, <2>1, <2>2 DEF Restart, TypeOK, repoVars, queueVars
<1>. QED BY <1>1, <1>2, <1>3, <1>4

LEMMA NextType == TypeOK /\ [Next]_vars => TypeOK'
<1>. SUFFICES ASSUME TypeOK, [Next]_vars PROVE TypeOK'
  OBVIOUS
<1>1. ASSUME NEW th \in Threads, Attempt(th) PROVE TypeOK'
  BY <1>1, TryLockKeepsType, LockConflictKeepsType, LockErrorKeepsType,
     GuardKeepsType, LoadKeepsType, SkipDoneKeepsType, StartAttemptKeepsType,
     RereadKeepsType, ImportKeepsType, SucceedKeepsType,
     ScheduleRetryKeepsType, FailKeepsType, BuryKeepsType, LeaveKeepsType,
     UnlockKeepsType
  DEF Attempt
<1>2. ASSUME NEW h \in Threads, Handle(h) PROVE TypeOK'
  BY <1>2, CreateSaveKeepsType, EnqueueSaveKeepsType, EnqueueKeepsType,
     RetrySaveKeepsType, RetryClearKeepsType, RetryPushKeepsType
  DEF Handle
<1>3. ASSUME NEW w \in Threads, Work(w) PROVE TypeOK'
  BY <1>3, DequeueKeepsType, ClaimKeepsType, AckKeepsType DEF Work
<1>4. ASSUME NEW h \in Threads, NEW t \in Tasks, Request(h, t) PROVE TypeOK'
  BY <1>4, CreateLookupKeepsType, EnqueueReadKeepsType, RetryReadKeepsType,
     RunTaskKeepsType
  DEF Request
<1>5. ASSUME NEW p \in Procs, StopWorker(p) \/ Restart(p) PROVE TypeOK'
  BY <1>5, ThreadAssumption, ClockKeepsType
<1>6. ASSUME NEW t \in Tasks, LeaseExpires(t) PROVE TypeOK'
  BY <1>6, FaultType
  DEF LeaseExpires, TypeOK, repoVars, queueVars, memVars, threadVars
<1>7. CASE UNCHANGED vars
  BY <1>7 DEF TypeOK, vars, repoVars, queueVars, memVars, threadVars
<1>. QED
  BY <1>1, <1>2, <1>3, <1>4, <1>5, <1>6, <1>7, ClockKeepsType DEF Next

\* The variables keep the values TypeOK gives them: rows are rows, messages
\* name tasks, locks are held by threads, counters stay within their bounds.
THEOREM TypeCorrect == Spec => []TypeOK
BY InitType, NextType, PTL DEF Spec

----------------------------------------------------------------------------
\* What a step of thread th leaves to the others.
OthersStay(th) ==
  \A o \in Threads \ {th} : pc'[o] = pc[o] /\ loc'[o] = loc[o]

LEMMA GotoStep ==
  ASSUME TypeOK, NEW th \in Threads, NEW label, Goto(th, label)
  PROVE  /\ pc'[th] = label
         /\ \A o \in Threads \ {th} : pc'[o] = pc[o]
BY DEF Goto, TypeOK

LEMMA CallStep ==
  ASSUME TypeOK, NEW th \in Threads, NEW label, NEW t \in Tasks,
         Call(th, label, t)
  PROVE  pc'[th] = label /\ loc'[th].task = t /\ OthersStay(th)
BY GotoStep, NoLocalType DEF Call, OthersStay, TypeOK, Local

LEMMA FinishStep ==
  ASSUME TypeOK, NEW th \in Threads, Finish(th)
  PROVE  pc'[th] = "idle" /\ OthersStay(th)
BY GotoStep DEF Finish, OthersStay, TypeOK

LEMMA ReturnStep ==
  ASSUME TypeOK, NEW th \in Threads, NEW b \in BOOLEAN, Return(th, b)
  PROVE  pc'[th] \in {"idle", "ack"} /\ OthersStay(th)
BY GotoStep, FinishStep DEF Return, OthersStay

LEMMA EndStep ==
  ASSUME TypeOK, NEW th \in Threads, NEW b \in BOOLEAN, End(th, b)
  PROVE  /\ pc'[th] = "leave"
         /\ loc'[th].task = loc[th].task
         /\ OthersStay(th)
BY GotoStep DEF End, OthersStay, TypeOK, Local

LEMMA TakeStep ==
  ASSUME TypeOK, NEW w \in Threads, NEW m \in Message, Take(w, m)
  PROVE  pc'[w] = "lock" /\ loc'[w].task = m.task /\ OthersStay(w)
<1>1. [NoLocal EXCEPT !.task = m.task,
                      !.held = IF QueueMode = "stream" THEN {m} ELSE {}].task
        = m.task
  BY NoLocalType DEF Local
<1>. QED BY <1>1, GotoStep DEF Take, OthersStay, TypeOK

\* Steps that neither take nor give back a lease or a place in processingTasks.
Stays(th) ==
  /\ OthersStay(th)
  /\ UNCHANGED <<lock, processing>>
  /\ pc'[th] \in Leased =>
       /\ loc'[th].task = loc[th].task
       /\ pc[th] \in Attempting /\ pc'[th] \in Attempting

LEMMA RequestStays ==
  ASSUME TypeOK, NEW h \in Threads, NEW t \in Tasks, Request(h, t)
  PROVE  Stays(h)
<1>1. CASE CreateLookup(h, t)
  BY <1>1, CallStep DEF CreateLookup, Stays, Leased, memVars
<1>2. CASE RunTask(h, t)
  BY <1>2, CallStep DEF RunTask, Stays, Leased, memVars
<1>3. ASSUME NEW op, NEW label \in {"requeue", "reset"},
             ReadFor(h, op, label, t)
      PROVE  Stays(h)
  BY <1>3, GotoStep DEF ReadFor, Stays, OthersStay, Leased, memVars, TypeOK
<1>. QED BY <1>1, <1>2, <1>3 DEF Request, EnqueueRead, RetryRead

LEMMA HandleStays ==
  ASSUME TypeOK, NEW h \in Threads, Handle(h)
  PROVE  Stays(h)
<1>. USE DEF Stays, OthersStay, Leased, memVars
<1>1. CASE CreateSave(h)
  BY <1>1, GotoStep, FinishStep DEF CreateSave
<1>2. CASE EnqueueSave(h)
  BY <1>2, GotoStep, FinishStep DEF EnqueueSave
<1>3. CASE Enqueue(h)
  BY <1>3, FinishStep DEF Enqueue
<1>4. CASE RetrySave(h)
  BY <1>4, GotoStep, FinishStep DEF RetrySave
<1>5. CASE RetryClear(h)
  BY <1>5, GotoStep, FinishStep DEF RetryClear
<1>6. CASE RetryPush(h)
  BY <1>6, FinishStep DEF RetryPush
<1>. QED BY <1>1, <1>2, <1>3, <1>4, <1>5, <1>6 DEF Handle

LEMMA WorkStays ==
  ASSUME TypeOK, NEW w \in Threads, Work(w)
  PROVE  Stays(w)
<1>. USE DEF Stays, OthersStay, Leased, memVars
<1>1. CASE Dequeue(w)
  <2>1. Head(stream) \in Message
    BY <1>1, HeadTailProperties DEF Dequeue, TypeOK
  <2>. QED BY <1>1, <2>1, TakeStep DEF Dequeue
<1>2. CASE Claim(w)
  BY <1>2, TakeStep DEF Claim, TypeOK
<1>3. CASE Ack(w)
  BY <1>3, FinishStep DEF Ack
<1>. QED BY <1>1, <1>2, <1>3 DEF Work

\* The attempt from FindTask to the dead letters.
Body(th) ==
  \/ LockConflict(th) \/ Load(th) \/ SkipDone(th) \/ StartAttempt(th)
  \/ Reread(th) \/ Import(th) \/ Succeed(th) \/ ScheduleRetry(th)
  \/ Fail(th) \/ Bury(th)

LEMMA BodyStays ==
  ASSUME TypeOK, NEW th \in Threads, Body(th)
  PROVE  Stays(th) /\ pc'[th] # "save"
<1>. USE DEF Stays, OthersStay, Leased, Attempting, memVars
<1>1. CASE LockConflict(th)
  BY <1>1, ReturnStep DEF LockConflict
<1>2. CASE Load(th)
  <2>1. CASE RepoError(th)
    BY <1>2, <2>1, EndStep DEF Load, RepoError
  <2>2. CASE ~RepoError(th)
    BY <1>2, <2>2, GotoStep DEF Load, TypeOK, Local
  <2>. QED BY <2>1, <2>2
<1>3. CASE SkipDone(th)
  BY <1>3, EndStep DEF SkipDone
<1>4. CASE StartAttempt(th)
  <2>1. CASE End(th, FALSE)
    BY <1>4, <2>1, EndStep DEF StartAttempt
  <2>2. CASE UNCHANGED loc /\ Goto(th, "reread")
    BY <1>4, <2>2, GotoStep DEF StartAttempt
  <2>. QED BY <1>4, <2>1, <2>2 DEF StartAttempt
<1>5. CASE Reread(th)
  <2>1. CASE RepoError(th)
    BY <1>5, <2>1, EndStep DEF Reread, RepoError
  <2>2. CASE ~RepoError(th)
    BY <1>5, <2>2, GotoStep DEF Reread, TypeOK, Local
  <2>. QED BY <2>1, <2>2
<1>6. CASE Import(th)
  BY <1>6, GotoStep DEF Import
<1>7. CASE Succeed(th)
  BY <1>7, EndStep DEF Succeed, OutcomeFails
<1>8. CASE ScheduleRetry(th)
  BY <1>8, EndStep DEF ScheduleRetry, OutcomeFails
<1>9. CASE Fail(th)
  <2>1. CASE End(th, FALSE)
    BY <1>9, <2>1, EndStep DEF Fail
  <2>2. CASE UNCHANGED loc /\ Goto(th, "bury")
    BY <1>9, <2>2, GotoStep DEF Fail
  <2>. QED BY <1>9, <2>1, <2>2 DEF Fail, OutcomeFails
<1>10. CASE Bury(th)
  BY <1>10, EndStep DEF Bury, RepoError
<1>. QED
  BY <1>1, <1>2, <1>3, <1>4, <1>5, <1>6, <1>7, <1>8, <1>9, <1>10 DEF Body

LEMMA NextSteps ==
  ASSUME TypeOK, [Next]_vars
  PROVE  \/ \E th \in Threads : Stays(th)
         \/ \E th \in Threads :
              TryLock(th) \/ LockError(th) \/ Guard(th) \/ Leave(th) \/ Unlock(th)
         \/ \E t \in Tasks : LeaseExpires(t)
         \/ \E p \in Procs : Restart(p)
         \/ UNCHANGED <<lock, processing, pc, loc>>
<1>1. ASSUME NEW p \in Procs, NEW t \in Tasks, RetryTimer(p, t)
      PROVE  UNCHANGED <<lock, processing, pc, loc>>
  BY <1>1 DEF RetryTimer, threadVars
<1>2. ASSUME NEW p \in Procs, StopWorker(p)
      PROVE  UNCHANGED <<lock, processing, pc, loc>>
  BY <1>2 DEF StopWorker, threadVars
<1>3. CASE UNCHANGED vars
  BY <1>3 DEF vars, memVars, threadVars
<1>. QED
  BY <1>1, <1>2, <1>3, RequestStays, HandleStays, WorkStays, BodyStays
  DEF Next, Attempt, Body

----------------------------------------------------------------------------
\* Inside a process.

\* A task whose attempt runs in process p is in p's processingTasks.
Registered ==
  \A th \in Threads :
    pc[th] \in Attempting => loc[th].task \in processing[Home[th]]
GuardInv == Registered /\ InProcessExclusion

LEMMA GuardInit == Init => GuardInv
BY DEF Init, GuardInv, Registered, InProcessExclusion, Attempting, Leased

LEMMA GuardNext == TypeOK /\ GuardInv /\ [Next]_vars => GuardInv'
<1>. SUFFICES ASSUME TypeOK, GuardInv, [Next]_vars PROVE GuardInv'
  OBVIOUS
<1>. USE DEF GuardInv, Registered, InProcessExclusion
<1>1. ASSUME NEW th \in Threads, Stays(th) PROVE GuardInv'
  BY <1>1 DEF Stays, OthersStay, Attempting
<1>2. ASSUME NEW th \in Threads, TryLock(th) PROVE GuardInv'
  BY <1>2, GotoStep DEF TryLock, memVars, Attempting
<1>3. ASSUME NEW th \in Threads, LockError(th) PROVE GuardInv'
  <2>1. /\ pc'[th] \in {"idle", "ack"} /\ OthersStay(th)
        /\ UNCHANGED processing
    BY <1>3, ReturnStep DEF LockError, memVars
  <2>. QED BY <2>1 DEF OthersStay, Attempting, Leased
<1>4. ASSUME NEW th \in Threads, Guard(th) PROVE GuardInv'
  <2>1. CASE AlreadyRunning(th)
    <3>1. pc'[th] = "unlock" /\ UNCHANGED processing /\ OthersStay(th)
      BY <1>4, <2>1, GotoStep DEF Guard, OthersStay, TypeOK
    <3>. QED BY <3>1 DEF OthersStay, Attempting
  <2>2. CASE ~AlreadyRunning(th)
    <3>1. /\ processing' =
               [processing EXCEPT ![Home[th]] = @ \cup {loc[th].task}]
          /\ UNCHANGED loc
          /\ \A o \in Threads \ {th} : pc'[o] = pc[o]
      BY <1>4, <2>2, GotoStep DEF Guard
    <3>2. Registered'
      BY <3>1, LocRow DEF TypeOK
    <3>3. InProcessExclusion'
      BY <2>2, <3>1, LocRow DEF AlreadyRunning
    <3>. QED BY <3>2, <3>3
  <2>. QED BY <2>1, <2>2
<1>5. ASSUME NEW th \in Threads, Leave(th) PROVE GuardInv'
  <2>1. /\ processing' =
             [processing EXCEPT ![Home[th]] = @ \ {loc[th].task}]
        /\ UNCHANGED loc
        /\ pc[th] = "leave" /\ pc'[th] = "unlock"
        /\ \A o \in Threads \ {th} : pc'[o] = pc[o]
    BY <1>5, GotoStep DEF Leave
  <2>2. Registered'
    BY <2>1, LocRow DEF Attempting, Leased, TypeOK
  <2>3. InProcessExclusion'
    BY <2>1 DEF Attempting
  <2>. QED BY <2>2, <2>3
<1>6. ASSUME NEW th \in Threads, Unlock(th) PROVE GuardInv'
  BY <1>6, ReturnStep, LocRow DEF Unlock, OthersStay, memVars, Attempting, Leased
<1>7. ASSUME NEW t \in Tasks, LeaseExpires(t) PROVE GuardInv'
  BY <1>7 DEF LeaseExpires, memVars, threadVars
<1>8. ASSUME NEW p \in Procs, Restart(p) PROVE GuardInv'
  <2>1. \A th \in Threads :
          IF Home[th] = p
            THEN pc'[th] = "idle"
            ELSE /\ pc'[th] = pc[th] /\ loc'[th] = loc[th]
                 /\ processing'[Home[th]] = processing[Home[th]]
    BY <1>8, ThreadAssumption DEF Restart, TypeOK
  <2>. QED BY <2>1 DEF Attempting, Leased
<1>9. CASE UNCHANGED <<lock, processing, pc, loc>>
  BY <1>9
<1>. QED
  BY <1>1, <1>2, <1>3, <1>4, <1>5, <1>6, <1>7, <1>8, <1>9, NextSteps

\* Two goroutines of a process never run attempts of the same task at the same
\* time, whatever fails and however early the leases end.
THEOREM InProcessExclusionHolds == Spec => []InProcessExclusion
<1>1. TypeOK /\ GuardInv /\ [Next]_vars => (TypeOK /\ GuardInv)'
  BY NextType, GuardNext
<1>2. GuardInv => InProcessExclusion
  BY DEF GuardInv
<1>. QED BY InitType, GuardInit, <1>1, <1>2, PTL DEF Spec

----------------------------------------------------------------------------
\* Among all processes, as long as no lease ends under its attempt.

\* Between TryLock and Unlock a thread owns the key of its task.
LeaseInv == \A th \in Threads : pc[th] \in Leased => lock[loc[th].task] = th

LEMMA LeaseInit == Init => LeaseInv
BY DEF Init, LeaseInv, Leased

LEMMA LeaseNext ==
  ASSUME "slow" \notin FaultKinds
  PROVE  TypeOK /\ LeaseInv /\ [Next]_vars => LeaseInv'
<1>. SUFFICES ASSUME TypeOK, LeaseInv, [Next]_vars PROVE LeaseInv'
  OBVIOUS
<1>. USE DEF LeaseInv
<1>1. ASSUME NEW th \in Threads, Stays(th) PROVE LeaseInv'
  BY <1>1 DEF Stays, OthersStay, Attempting
<1>2. ASSUME NEW th \in Threads, TryLock(th) PROVE LeaseInv'
  <2>1. /\ lock' = [lock EXCEPT ![loc[th].task] = th]
        /\ lock[loc[th].task] = Nobody
        /\ UNCHANGED loc
        /\ \A o \in Threads \ {th} : pc'[o] = pc[o]
    BY <1>2, GotoStep DEF TryLock, LeaseFree
  <2>. QED BY <2>1, LocRow, ThreadAssumption DEF TypeOK
<1>3. ASSUME NEW th \in Threads, LockError(th) PROVE LeaseInv'
  <2>1. /\ \/ UNCHANGED lock
           \/ /\ lock' = [lock EXCEPT ![loc[th].task] = th]
              /\ lock[loc[th].task] = Nobody
        /\ pc'[th] \in {"idle", "ack"} /\ OthersStay(th)
    BY <1>3, ReturnStep DEF LockError, LeaseFree
  <2>2. ASSUME NEW o \in Threads, pc'[o] \in Leased
        PROVE  lock'[loc'[o].task] = o
    <3>1. o # th /\ pc[o] \in Leased /\ loc'[o] = loc[o]
      BY <2>1, <2>2 DEF OthersStay, Leased
    <3>2. lock[loc[o].task] = o /\ o # Nobody
      BY <3>1, ThreadAssumption
    <3>. QED BY <2>1, <3>1, <3>2, LocRow DEF TypeOK
  <2>. QED BY <2>2
<1>4. ASSUME NEW th \in Threads, Guard(th) PROVE LeaseInv'
  <2>1. /\ pc[th] = "guard" /\ UNCHANGED lock
        /\ loc'[th].task = loc[th].task /\ OthersStay(th)
    <3>1. CASE UNCHANGED loc
      BY <1>4, <3>1, GotoStep DEF Guard, OthersStay
    <3>2. ASSUME NEW b \in BOOLEAN, loc' = [loc EXCEPT ![th].ok = b]
          PROVE  loc'[th].task = loc[th].task
                 /\ \A o \in Threads \ {th} : loc'[o] = loc[o]
      BY <3>2 DEF TypeOK, Local
    <3>. QED BY <1>4, <3>1, <3>2, GotoStep DEF Guard, OthersStay
  <2>. QED BY <2>1 DEF OthersStay, Leased
<1>5. ASSUME NEW th \in Threads, Leave(th) PROVE LeaseInv'
  BY <1>5, GotoStep DEF Leave, Leased
<1>6. ASSUME NEW th \in Threads, Unlock(th) PROVE LeaseInv'
  <2>1. /\ pc[th] = "unlock"
        /\ lock' = [lock EXCEPT ![loc[th].task] = Nobody] \/ UNCHANGED lock
        /\ pc'[th] \in {"idle", "ack"} /\ OthersStay(th)
    BY <1>6, ReturnStep, LocRow DEF Unlock
  <2>2. ASSUME NEW o \in Threads, pc'[o] \in Leased
        PROVE  lock'[loc'[o].task] = o
    <3>1. o # th /\ pc[o] \in Leased /\ loc'[o] = loc[o]
      BY <2>1, <2>2 DEF OthersStay, Leased
    <3>2. lock[loc[o].task] = o /\ lock[loc[th].task] = th
      BY <2>1, <3>1 DEF Leased
    <3>. QED BY <2>1, <3>1, <3>2, LocRow DEF TypeOK
  <2>. QED BY <2>2
<1>7. ASSUME NEW t \in Tasks, LeaseExpires(t) PROVE LeaseInv'
  BY <1>7, LocRow
  DEF LeaseExpires, Owns, Fault, memVars, threadVars, TypeOK
<1>8. ASSUME NEW p \in Procs, Restart(p) PROVE LeaseInv'
  <2>1. /\ UNCHANGED lock
        /\ \A th \in Threads :
             \/ pc'[th] = "idle"
             \/ pc'[th] = pc[th] /\ loc'[th] = loc[th]
    BY <1>8 DEF Restart
  <2>. QED BY <2>1 DEF Leased
<1>9. CASE UNCHANGED <<lock, processing, pc, loc>>
  BY <1>9
<1>. QED
  BY <1>1, <1>2, <1>3, <1>4, <1>5, <1>6, <1>7, <1>8, <1>9, NextSteps

LEMMA LeaseInvExcludes == LeaseInv => LeaseExclusion
BY DEF LeaseInv, LeaseExclusion

\* No two threads of any process run the same task at the same time, under
\* every other failure, if no attempt outlives its lease.
THEOREM LeaseExclusionHolds ==
  ASSUME "slow" \notin FaultKinds
  PROVE  Spec => []LeaseExclusion
<1>1. TypeOK /\ LeaseInv /\ [Next]_vars => (TypeOK /\ LeaseInv)'
  BY NextType, LeaseNext
<1>. QED BY InitType, LeaseInit, LeaseInvExcludes, <1>1, PTL DEF Spec

----------------------------------------------------------------------------
\* The life cycle.

\* What the theorems on the life cycle assume of the instance.
Undisturbed == "slow" \notin FaultKinds /\ Ops \subseteq {"create", "run"}

----------------------------------------------------------------------------
\* The inductive invariant.

\* Messages and timers name saved tasks.
Known ==
  /\ \A i \in DOMAIN stream : Exists(stream[i].task)
  /\ \A m \in pending : Exists(m.task)
  /\ \A p \in Procs, t \in Tasks : timers[p][t] > 0 => Exists(t)

\* Two handlers about to save a new task save different ones.
SavesDiffer ==
  \A g, h \in Threads :
    g # h /\ pc[g] = "save" /\ pc[h] = "save" => loc[g].task # loc[h].task

\* The row thread th works with is the one in the table, and it is at a step
\* where that row allows it to be.
CurrentFor(th) ==
  LET row == task[loc[th].task]
  IN  /\ pc[th] = "start" => loc[th].row = row /\ ~Done(row)
      /\ pc[th] = "reread" => row.status = "running"
      /\ pc[th] \in {"import", "retry", "succeed", "fail"}
           => loc[th].row = row /\ row.status = "running"
      /\ pc[th] = "retry" => HasAttemptsLeft(row)

\* Thread th is in no :enqueue or :retry call; before the save of a new task
\* the task is not in the table, afterwards it is.
Sound(th) ==
  /\ pc[th] \notin {"requeue", "reset", "clear", "push"}
  /\ pc[th] \in {"lock", "enqueue"} \cup Leased => Exists(loc[th].task)
  /\ pc[th] = "save" => th \in Handlers /\ ~Exists(loc[th].task)
  /\ CurrentFor(th)

RowInv ==
  /\ LeaseInv
  /\ Known
  /\ SavesDiffer
  /\ \A th \in Threads : Sound(th)

LEMMA RowInit == Init => RowInv
BY LeaseInit, BoundAssumption
DEF Init, RowInv, Known, SavesDiffer, Sound, CurrentFor, Exists, NoRow,
    Leased

----------------------------------------------------------------------------
\* Every step is a step of the life cycle.

\* The row a thread saves is the row of its own task.
LEMMA SavesOwn ==
  ASSUME TypeOK, NEW t \in Tasks, NEW row, SaveTask(t, row) \/ UNCHANGED task
  PROVE  \A u \in Tasks \ {t} : task'[u] = task[u]
BY DEF SaveTask, TypeOK

LEMMA CreateSaveSteps ==
  ASSUME TypeOK, RowInv, NEW h \in Threads, CreateSave(h)
  PROVE  Lifecycle!Create(loc[h].task) \/ UNCHANGED task
<1>1. ~Exists(loc[h].task)
  BY DEF RowInv, Sound, CreateSave
<1>2. \/ task' = [task EXCEPT ![loc[h].task] =
                                 [status |-> "queued", attempts |-> 0]]
      \/ UNCHANGED task
  BY DEF CreateSave, SaveFails, SaveTask
<1>. QED BY <1>1, <1>2 DEF Exists, Lifecycle!Create, Lifecycle!Become

LEMMA StartAttemptSteps ==
  ASSUME TypeOK, RowInv, NEW th \in Threads, StartAttempt(th)
  PROVE  Lifecycle!Begin(loc[th].task) \/ UNCHANGED task
<1>1. /\ loc[th].row = task[loc[th].task] /\ ~Done(loc[th].row)
      /\ Exists(loc[th].task)
  BY DEF RowInv, Sound, CurrentFor, StartAttempt, Leased
<1>2. \/ task' = [task EXCEPT ![loc[th].task] = Started(loc[th].row)]
      \/ UNCHANGED task
  BY DEF StartAttempt, SaveFails, SaveTask
<1>. QED
  BY <1>1, <1>2
  DEF Exists, Done, Exhausted, Started, Lifecycle!Begin, Lifecycle!IsDone,
      Lifecycle!Become

LEMMA OutcomeSteps ==
  ASSUME TypeOK, RowInv, NEW th \in Threads,
         pc[th] \in {"retry", "succeed", "fail"}, NEW status,
         SaveOutcome(th, status) \/ OutcomeFails(th, status)
  PROVE  /\ task[loc[th].task].status = "running"
         /\ pc[th] = "retry" => task[loc[th].task].attempts < MaxAttempts
         /\ \/ Lifecycle!Become(loc[th].task, status,
                                task[loc[th].task].attempts)
            \/ UNCHANGED task
<1>1. /\ loc[th].row = task[loc[th].task]
      /\ task[loc[th].task].status = "running"
      /\ pc[th] = "retry" => task[loc[th].task].attempts < MaxAttempts
  BY DEF RowInv, Sound, CurrentFor, HasAttemptsLeft
<1>2. \/ task' = [task EXCEPT ![loc[th].task] =
                                 [loc[th].row EXCEPT !.status = status]]
      \/ UNCHANGED task
  BY DEF SaveOutcome, OutcomeFails, SaveFails, SaveTask
<1>3. [loc[th].row EXCEPT !.status = status]
        = [status |-> status, attempts |-> task[loc[th].task].attempts]
  BY <1>1, LocRow DEF Row
<1>. QED BY <1>1, <1>2, <1>3 DEF Lifecycle!Become

\* A step of thread th: a step of the life cycle of its own task, or none.
RowStep(th) ==
  \/ UNCHANGED task
  \/ LET t == loc[th].task
     IN  /\ pc[th] \in Leased \cup {"save"}
         /\ \/ Lifecycle!Create(t) \/ Lifecycle!Begin(t)
            \/ Lifecycle!Postpone(t) \/ Lifecycle!Complete(t)
            \/ Lifecycle!Bury(t)

LEMMA AttemptSteps ==
  ASSUME TypeOK, RowInv, NEW th \in Threads, Attempt(th)
  PROVE  RowStep(th)
<1>1. CASE StartAttempt(th)
  BY <1>1, StartAttemptSteps DEF RowStep, StartAttempt, Leased
<1>2. CASE Succeed(th)
  <2>1. /\ pc[th] = "succeed"
        /\ SaveOutcome(th, "succeeded") \/ OutcomeFails(th, "succeeded")
    BY <1>2 DEF Succeed
  <2>. QED BY <2>1, OutcomeSteps DEF RowStep, Leased, Lifecycle!Complete
<1>3. CASE ScheduleRetry(th)
  <2>1. /\ pc[th] = "retry"
        /\ SaveOutcome(th, "queued") \/ OutcomeFails(th, "queued")
    BY <1>3 DEF ScheduleRetry
  <2>. QED BY <2>1, OutcomeSteps DEF RowStep, Leased, Lifecycle!Postpone
<1>4. CASE Fail(th)
  <2>1. /\ pc[th] = "fail"
        /\ SaveOutcome(th, "failed") \/ OutcomeFails(th, "failed")
    BY <1>4 DEF Fail
  <2>. QED BY <2>1, OutcomeSteps DEF RowStep, Leased, Lifecycle!Bury
<1>5. \/ StartAttempt(th) \/ Succeed(th) \/ ScheduleRetry(th) \/ Fail(th)
      \/ UNCHANGED task
  BY DEF Attempt, TryLock, LockConflict, LockError, Guard, Load, SkipDone,
         Reread, Import, Bury, Leave, Unlock, repoVars
<1>. QED BY <1>1, <1>2, <1>3, <1>4, <1>5 DEF RowStep

LEMMA HandleSteps ==
  ASSUME TypeOK, RowInv, NEW h \in Threads, Handle(h)
  PROVE  RowStep(h) /\ (CreateSave(h) \/ Enqueue(h))
<1>1. CreateSave(h) \/ Enqueue(h)
  BY DEF Handle, RowInv, Sound, EnqueueSave, RetrySave, RetryClear,
         RetryPush
<1>2. CASE CreateSave(h)
  BY <1>2, CreateSaveSteps DEF RowStep, CreateSave
<1>3. CASE Enqueue(h)
  BY <1>3 DEF RowStep, Enqueue, repoVars
<1>. QED BY <1>1, <1>2, <1>3

LEMMA QueueStep ==
  ASSUME TypeOK, RowInv, [Next]_vars
  PROVE  UNCHANGED task \/ \E th \in Threads : RowStep(th)
<1>1. ASSUME NEW th \in Threads, Work(th) PROVE UNCHANGED task
  BY <1>1 DEF Work, Dequeue, Claim, Ack, repoVars
<1>2. ASSUME NEW h \in Threads, NEW t \in Tasks, Request(h, t)
      PROVE  UNCHANGED task
  BY <1>2 DEF Request, CreateLookup, EnqueueRead, RetryRead, ReadFor, RunTask,
              repoVars
<1>3. ASSUME NEW p \in Procs, NEW t \in Tasks,
             RetryTimer(p, t) \/ LeaseExpires(t) \/ StopWorker(p) \/ Restart(p)
      PROVE  UNCHANGED task
  BY <1>3 DEF RetryTimer, LeaseExpires, StopWorker, Restart, repoVars
<1>4. ASSUME NEW t \in Tasks, LeaseExpires(t) PROVE UNCHANGED task
  BY <1>4 DEF LeaseExpires, repoVars
<1>5. ASSUME NEW p \in Procs, StopWorker(p) \/ Restart(p) PROVE UNCHANGED task
  BY <1>5 DEF StopWorker, Restart, repoVars
<1>6. CASE UNCHANGED vars
  BY <1>6 DEF vars, repoVars
<1>. QED
  BY <1>1, <1>2, <1>3, <1>4, <1>5, <1>6, AttemptSteps, HandleSteps DEF Next

LEMMA RowStepLifecycle ==
  ASSUME TypeOK, NEW th \in Threads, RowStep(th)
  PROVE  [Lifecycle!Next]_task
BY LocRow DEF RowStep, Lifecycle!Next

\* No step takes a saved task out of the table.
LEMMA LifecycleKeeps ==
  ASSUME TypeOK, [Lifecycle!Next]_task, NEW t \in Tasks
  PROVE  /\ Exists(t) => Exists(t)'
         /\ task[t].status = "succeeded" => task'[t].status = "succeeded"
<1>1. CASE UNCHANGED task
  BY <1>1 DEF Exists
<1>2. ASSUME NEW u \in Tasks, NEW status, NEW attempts,
             Lifecycle!Become(u, status, attempts),
             status # "absent", task[u].status # "succeeded"
      PROVE  /\ Exists(t) => Exists(t)'
             /\ task[t].status = "succeeded" => task'[t].status = "succeeded"
  <2>1. task' = [task EXCEPT ![u] = [status |-> status, attempts |-> attempts]]
    BY <1>2 DEF Lifecycle!Become
  <2>2. CASE t = u
    BY <1>2, <2>1, <2>2 DEF Exists, TypeOK
  <2>3. CASE t # u
    BY <2>1, <2>3 DEF Exists, TypeOK
  <2>. QED BY <2>2, <2>3
<1>. QED
  BY <1>1, <1>2
  DEF Lifecycle!Next, Lifecycle!Create, Lifecycle!Begin, Lifecycle!Postpone,
      Lifecycle!Complete, Lifecycle!Bury, Lifecycle!Reset, Lifecycle!IsDone

----------------------------------------------------------------------------
\* What a step does to the thread that takes it.

LEMMA GuardStep ==
  ASSUME TypeOK, NEW th \in Threads, Guard(th)
  PROVE  /\ pc'[th] \in {"load", "unlock"}
         /\ loc'[th].task = loc[th].task
         /\ UNCHANGED task
         /\ OthersStay(th)
<1>1. /\ pc'[th] \in {"load", "unlock"} /\ UNCHANGED task
      /\ \A o \in Threads \ {th} : pc'[o] = pc[o]
  BY GotoStep DEF Guard, repoVars
<1>2. CASE UNCHANGED loc
  BY <1>1, <1>2 DEF OthersStay
<1>3. ASSUME NEW b \in BOOLEAN, loc' = [loc EXCEPT ![th].ok = b]
      PROVE  loc'[th].task = loc[th].task
             /\ \A o \in Threads \ {th} : loc'[o] = loc[o]
  BY <1>3 DEF TypeOK, Local
<1>. QED BY <1>1, <1>2, <1>3 DEF Guard, OthersStay

LEMMA StartAttemptMoves ==
  ASSUME TypeOK, NEW th \in Threads, StartAttempt(th), ~End(th, FALSE)
  PROVE  /\ pc'[th] = "reread" /\ UNCHANGED loc
         /\ task'[loc[th].task].status = "running"
<1>1. /\ SaveTask(loc[th].task, Started(loc[th].row))
      /\ Goto(th, "reread") /\ UNCHANGED loc
  BY DEF StartAttempt
<1>. QED BY <1>1, GotoStep, LocRow DEF SaveTask, Started, TypeOK

LEMMA AttemptOthers ==
  ASSUME TypeOK, NEW th \in Threads, Attempt(th)
  PROVE  OthersStay(th) /\ pc'[th] # "save"
<1>1. CASE Body(th)
  BY <1>1, BodyStays DEF Stays
<1>2. CASE TryLock(th)
  BY <1>2, GotoStep DEF TryLock, OthersStay
<1>3. CASE LockError(th)
  BY <1>3, ReturnStep DEF LockError
<1>4. CASE Guard(th)
  BY <1>4, GuardStep DEF OthersStay
<1>5. CASE Leave(th)
  BY <1>5, GotoStep DEF Leave, OthersStay
<1>6. CASE Unlock(th)
  BY <1>6, ReturnStep, LocRow DEF Unlock
<1>. QED BY <1>1, <1>2, <1>3, <1>4, <1>5, <1>6 DEF Attempt, Body

LEMMA IdleIsSound ==
  ASSUME NEW th \in Threads, pc'[th] \in {"idle", "ack"}
  PROVE  Sound(th)'
BY DEF Sound, CurrentFor, Leased

\* At these labels a thread holds no copy of the row.
LEMMA NoCopyIsSound ==
  ASSUME NEW th \in Threads, Exists(loc[th].task)',
         pc'[th] \in {"lock", "enqueue", "guard", "load", "bury", "leave",
                      "unlock"}
  PROVE  Sound(th)'
BY DEF Sound, CurrentFor, Leased

LEMMA EndIsSound ==
  ASSUME TypeOK, [Lifecycle!Next]_task, NEW th \in Threads,
         Exists(loc[th].task), NEW b \in BOOLEAN, End(th, b)
  PROVE  Sound(th)'
BY EndStep, LocRow, LifecycleKeeps, NoCopyIsSound DEF Exists

LEMMA AttemptSound ==
  ASSUME TypeOK, RowInv, NEW th \in Threads, Attempt(th)
  PROVE  Sound(th)'
<1>0. PICK t \in Tasks : t = loc[th].task
  BY LocRow
<1>1. Exists(t) /\ [Lifecycle!Next]_task
  <2>1. pc[th] \in {"lock"} \cup Leased
    BY DEF Attempt, TryLock, LockConflict, LockError, Guard, Load, SkipDone,
           StartAttempt, Reread, Import, Succeed, ScheduleRetry, Fail, Bury,
           Leave, Unlock, Leased
  <2>2. Exists(t)
    BY <1>0, <2>1 DEF RowInv, Sound
  <2>. QED BY <2>2, LocRow, AttemptSteps, RowStepLifecycle
<1>2. Exists(t)'
  BY <1>1, LifecycleKeeps DEF Exists
<1>3. CASE LockConflict(th) \/ LockError(th) \/ Unlock(th)
  BY <1>3, ReturnStep, LocRow, IdleIsSound DEF LockConflict, LockError, Unlock
<1>4. CASE TryLock(th) \/ Leave(th)
  BY <1>0, <1>1, <1>4, GotoStep, NoCopyIsSound DEF TryLock, Leave, Exists, repoVars
<1>5. CASE Guard(th)
  BY <1>0, <1>1, <1>5, GuardStep, NoCopyIsSound DEF Exists
<1>6. ASSUME NEW b \in BOOLEAN, End(th, b) PROVE Sound(th)'
  BY <1>0, <1>1, <1>6, EndIsSound
<1>7. CASE Load(th) /\ ~RepoError(th)
  <2>1. /\ pc'[th] = "start" /\ UNCHANGED task
        /\ loc'[th].task = t /\ loc'[th].row = task[t] /\ ~Done(task[t])
    BY <1>0, <1>7, GotoStep DEF Load, TypeOK, Local, repoVars
  <2>. QED BY <1>0, <1>1, <2>1 DEF Sound, CurrentFor, Exists, Leased
<1>8. CASE StartAttempt(th) /\ ~End(th, FALSE)
  <2>1. /\ pc'[th] = "reread" /\ UNCHANGED loc
        /\ task'[t].status = "running"
    BY <1>0, <1>8, StartAttemptMoves
  <2>. QED BY <1>0, <1>2, <2>1 DEF Sound, CurrentFor, Exists, Leased
<1>9. CASE Reread(th) /\ ~RepoError(th)
  <2>1. /\ pc'[th] \in {"import", "retry", "fail"} /\ UNCHANGED task
        /\ pc'[th] = "retry" => HasAttemptsLeft(task[t])
        /\ loc'[th].task = t /\ loc'[th].row = task[t]
    BY <1>0, <1>9, GotoStep DEF Reread, TypeOK, Local, repoVars
  <2>2. task[t].status = "running"
    BY <1>0, <1>9 DEF Reread, RowInv, Sound, CurrentFor
  <2>. QED BY <1>0, <1>1, <2>1, <2>2 DEF Sound, CurrentFor, Exists, Leased
<1>10. CASE Import(th)
  <2>1. /\ pc'[th] \in {"succeed", "fail"}
        /\ UNCHANGED <<task, loc>>
        /\ loc[th].row = task[t] /\ task[t].status = "running"
    BY <1>0, <1>10, GotoStep DEF Import, RowInv, Sound, CurrentFor
  <2>. QED BY <1>0, <1>1, <2>1 DEF Sound, CurrentFor, Exists, Leased
<1>11. CASE Fail(th) /\ ~End(th, FALSE)
  <2>1. pc'[th] = "bury" /\ UNCHANGED loc
    BY <1>11, GotoStep DEF Fail, OutcomeFails
  <2>. QED BY <1>0, <1>2, <2>1, NoCopyIsSound DEF Exists
<1>. QED
  BY <1>3, <1>4, <1>5, <1>6, <1>7, <1>8, <1>9, <1>10, <1>11
  DEF Attempt, SkipDone, Load, RepoError, StartAttempt, Reread, Succeed,
      ScheduleRetry, Fail, Bury, OutcomeFails

LEMMA HandleSound ==
  ASSUME TypeOK, RowInv, NEW h \in Threads, Handle(h)
  PROVE  Sound(h)'
<1>1. CASE Enqueue(h)
  BY <1>1, FinishStep, IdleIsSound DEF Enqueue
<1>2. CASE CreateSave(h)
  <2>1. CASE Finish(h)
    BY <2>1, FinishStep, IdleIsSound
  <2>2. CASE /\ UNCHANGED loc /\ Goto(h, "enqueue")
             /\ SaveTask(loc[h].task, [status |-> "queued", attempts |-> 0])
    <3>1. pc'[h] = "enqueue" /\ task'[loc[h].task].status = "queued"
      BY <2>2, GotoStep, LocRow DEF SaveTask, TypeOK
    <3>. QED BY <2>2, <3>1, NoCopyIsSound DEF Exists
  <2>. QED BY <1>2, <2>1, <2>2 DEF CreateSave
<1>. QED BY <1>1, <1>2, HandleSteps

LEMMA WorkSound ==
  ASSUME TypeOK, RowInv, NEW w \in Threads, Work(w)
  PROVE  Sound(w)'
<1>1. UNCHANGED task
  BY DEF Work, Dequeue, Claim, Ack, repoVars
<1>2. CASE Ack(w)
  BY <1>2, FinishStep, IdleIsSound DEF Ack
<1>3. ASSUME NEW m \in Message, Take(w, m), Exists(m.task) PROVE Sound(w)'
  BY <1>1, <1>3, TakeStep, NoCopyIsSound DEF Exists
<1>4. CASE Claim(w)
  BY <1>3, <1>4 DEF Claim, TypeOK, RowInv, Known
<1>5. CASE Dequeue(w)
  <2>1. Head(stream) \in Message /\ Exists(Head(stream).task)
    BY <1>5, HeadTailProperties DEF Dequeue, TypeOK, RowInv, Known
  <2>. QED BY <1>3, <1>5, <2>1 DEF Dequeue
<1>. QED BY <1>2, <1>4, <1>5 DEF Work

LEMMA RequestSound ==
  ASSUME Undisturbed, TypeOK, RowInv, NEW h \in Threads, NEW t \in Tasks,
         Request(h, t)
  PROVE  Sound(h)' /\ (CreateLookup(h, t) \/ RunTask(h, t))
<1>1. CreateLookup(h, t) \/ RunTask(h, t)
  BY DEF Undisturbed, Request, EnqueueRead, RetryRead, ReadFor
<1>2. CASE CreateLookup(h, t)
  <2>1. /\ pc'[h] = "save" /\ loc'[h].task = t /\ UNCHANGED task
        /\ h \in Handlers /\ ~Exists(t)
    BY <1>2, CallStep DEF CreateLookup, repoVars
  <2>. QED BY <1>1, <2>1 DEF Sound, CurrentFor, Exists, Leased
<1>3. CASE RunTask(h, t)
  BY <1>1, <1>3, CallStep, NoCopyIsSound DEF RunTask, Exists, repoVars
<1>. QED BY <1>1, <1>2, <1>3

----------------------------------------------------------------------------
\* What a step of one thread leaves to the others.

\* The row changes only at the task of the thread that takes the step.
LEMMA RowStepOwn ==
  ASSUME TypeOK, NEW th \in Threads, RowStep(th)
  PROVE  \A u \in Tasks \ {loc[th].task} : task'[u] = task[u]
BY LocRow
DEF RowStep, TypeOK, Lifecycle!Create, Lifecycle!Begin, Lifecycle!Postpone,
    Lifecycle!Complete, Lifecycle!Bury, Lifecycle!Become

LEMMA OthersSound ==
  ASSUME TypeOK, RowInv, NEW th \in Threads, OthersStay(th), RowStep(th),
         NEW o \in Threads \ {th}
  PROVE  Sound(o)'
<1>1. Sound(o) /\ pc'[o] = pc[o] /\ loc'[o] = loc[o] /\ loc[o].task \in Tasks
  BY LocRow DEF RowInv, OthersStay
<1>2. CASE UNCHANGED task
  BY <1>1, <1>2 DEF Sound, CurrentFor, Exists
<1>3. CASE task'[loc[o].task] = task[loc[o].task]
  BY <1>1, <1>3 DEF Sound, CurrentFor, Exists
<1>4. CASE loc[o].task = loc[th].task /\ pc[th] \in Leased \cup {"save"}
  <2>1. pc[o] \notin Leased \cup {"save"}
    <3>1. pc[th] \in Leased => pc[o] \notin Leased
      BY <1>4, LeaseInvExcludes DEF RowInv, LeaseExclusion
    <3>2. pc[th] \in Leased => pc[o] # "save"
      BY <1>4 DEF RowInv, Sound
    <3>3. pc[th] = "save" => pc[o] \notin Leased
      BY <1>4 DEF RowInv, Sound
    <3>4. pc[th] = "save" => pc[o] # "save"
      BY <1>4 DEF RowInv, SavesDiffer
    <3>. QED BY <1>4, <3>1, <3>2, <3>3, <3>4
  <2>2. Exists(loc[o].task) => Exists(loc[o].task)'
    BY <1>1, RowStepLifecycle, LifecycleKeeps DEF Exists
  <2>. QED BY <1>1, <2>1, <2>2 DEF Sound, CurrentFor, Leased
<1>. QED BY <1>1, <1>2, <1>3, <1>4, RowStepOwn DEF RowStep

LEMMA SoundNext ==
  ASSUME Undisturbed, TypeOK, RowInv, [Next]_vars, NEW o \in Threads
  PROVE  Sound(o)'
<1>1. ASSUME NEW th \in Threads, Attempt(th) PROVE Sound(o)'
  BY <1>1, AttemptOthers, AttemptSound, AttemptSteps, OthersSound
<1>2. ASSUME NEW h \in Threads, Handle(h) PROVE Sound(o)'
  BY <1>2, HandleStays, HandleSound, HandleSteps, OthersSound DEF Stays
<1>3. ASSUME NEW w \in Threads, Work(w) PROVE Sound(o)'
  <2>1. RowStep(w)
    BY <1>3 DEF RowStep, Work, Dequeue, Claim, Ack, repoVars
  <2>. QED BY <1>3, <2>1, WorkStays, WorkSound, OthersSound DEF Stays
<1>4. ASSUME NEW h \in Threads, NEW t \in Tasks, Request(h, t)
      PROVE  Sound(o)'
  <2>1. RowStep(h)
    BY <1>4, RequestSound DEF RowStep, CreateLookup, RunTask, repoVars
  <2>. QED BY <1>4, <2>1, RequestStays, RequestSound, OthersSound DEF Stays
<1>5. CASE UNCHANGED <<task, pc, loc>>
  BY <1>5 DEF RowInv, Sound, CurrentFor, Exists
<1>6. ASSUME NEW p \in Procs, Restart(p) PROVE Sound(o)'
  <2>1. UNCHANGED task /\ (pc'[o] = "idle" \/ (pc'[o] = pc[o] /\ loc'[o] = loc[o]))
    BY <1>6 DEF Restart, repoVars
  <2>2. Sound(o)
    BY DEF RowInv
  <2>. QED BY <2>1, <2>2, IdleIsSound DEF Sound, CurrentFor, Exists
<1>7. ASSUME NEW p \in Procs, NEW t \in Tasks, RetryTimer(p, t)
      PROVE  UNCHANGED <<task, pc, loc>>
  BY <1>7 DEF RetryTimer, repoVars, threadVars
<1>8. ASSUME NEW t \in Tasks, LeaseExpires(t) PROVE UNCHANGED <<task, pc, loc>>
  BY <1>8 DEF LeaseExpires, repoVars, threadVars
<1>9. ASSUME NEW p \in Procs, StopWorker(p) PROVE UNCHANGED <<task, pc, loc>>
  BY <1>9 DEF StopWorker, repoVars, threadVars
<1>10. CASE UNCHANGED vars
  BY <1>5, <1>10 DEF vars, repoVars, threadVars
<1>. QED
  BY <1>1, <1>2, <1>3, <1>4, <1>5, <1>6, <1>7, <1>8, <1>9, <1>10 DEF Next

LEMMA SavesDifferNext ==
  ASSUME Undisturbed, TypeOK, RowInv, [Next]_vars
  PROVE  SavesDiffer'
<1>1. ASSUME NEW th \in Threads, OthersStay(th), pc'[th] # "save"
      PROVE  SavesDiffer'
  BY <1>1 DEF RowInv, SavesDiffer, OthersStay
<1>2. ASSUME NEW h \in Threads, NEW t \in Tasks, CreateLookup(h, t)
      PROVE  SavesDiffer'
  <2>1. /\ OthersStay(h) /\ pc'[h] = "save" /\ loc'[h].task = t
        /\ \A g \in Handlers : pc[g] = "save" => loc[g].task # t
    BY <1>2, CallStep DEF CreateLookup
  <2>2. \A g \in Threads : pc[g] = "save" => loc[g].task # t
    BY <2>1 DEF RowInv, Sound
  <2>. QED BY <2>1, <2>2 DEF RowInv, SavesDiffer, OthersStay
<1>3. ASSUME NEW th \in Threads, Attempt(th) PROVE SavesDiffer'
  BY <1>1, <1>3, AttemptOthers
<1>4. ASSUME NEW h \in Threads, Handle(h) PROVE SavesDiffer'
  <2>1. pc'[h] # "save"
    BY <1>4, HandleSteps, FinishStep, GotoStep DEF CreateSave, Enqueue
  <2>. QED BY <1>1, <1>4, <2>1, HandleStays DEF Stays
<1>5. ASSUME NEW w \in Threads, Work(w) PROVE SavesDiffer'
  <2>1. pc'[w] # "save"
    <3>1. CASE Ack(w)
      BY <3>1, FinishStep DEF Ack
    <3>2. CASE Goto(w, "lock")
      BY <3>2, GotoStep
    <3>. QED BY <1>5, <3>1, <3>2 DEF Work, Dequeue, Claim, Take
  <2>. QED BY <1>1, <1>5, <2>1, WorkStays DEF Stays
<1>6. ASSUME NEW h \in Threads, NEW t \in Tasks, RunTask(h, t)
      PROVE  SavesDiffer'
  BY <1>1, <1>6, CallStep DEF RunTask
<1>7. CASE UNCHANGED <<pc, loc>>
  BY <1>7 DEF RowInv, SavesDiffer
<1>8. ASSUME NEW p \in Procs, Restart(p) PROVE SavesDiffer'
  <2>1. \A th \in Threads :
          pc'[th] = "idle" \/ (pc'[th] = pc[th] /\ loc'[th] = loc[th])
    BY <1>8 DEF Restart
  <2>. QED BY <2>1 DEF RowInv, SavesDiffer
<1>9. ASSUME NEW p \in Procs, NEW t \in Tasks,
             RetryTimer(p, t) \/ LeaseExpires(t) \/ StopWorker(p)
      PROVE  UNCHANGED <<pc, loc>>
  BY <1>9 DEF RetryTimer, LeaseExpires, StopWorker, threadVars
<1>10. ASSUME NEW t \in Tasks, LeaseExpires(t) PROVE UNCHANGED <<pc, loc>>
  BY <1>10 DEF LeaseExpires, threadVars
<1>11. ASSUME NEW p \in Procs, StopWorker(p) PROVE UNCHANGED <<pc, loc>>
  BY <1>11 DEF StopWorker, threadVars
<1>12. CASE UNCHANGED vars
  BY <1>7, <1>12 DEF vars, threadVars
<1>. QED
  BY <1>2, <1>3, <1>4, <1>5, <1>6, <1>7, <1>8, <1>9, <1>10, <1>11, <1>12,
     RequestSound
  DEF Next

----------------------------------------------------------------------------
\* Messages and timers.

LEMMA PushKnown ==
  ASSUME TypeOK, NEW t \in Tasks, Exists(t), Push(t),
         \A i \in DOMAIN stream : Exists(stream[i].task)
  PROVE  \A i \in DOMAIN stream' : Exists(stream'[i].task)
<1>1. ASSUME NEW id,
             stream' = Append(stream, [task |-> t, id |-> id])
      PROVE  \A i \in DOMAIN stream' : Exists(stream'[i].task)
  BY <1>1 DEF TypeOK
<1>. QED BY <1>1 DEF Push

\* Whatever becomes of the rows, a saved task stays in the table.
LEMMA KnownNext ==
  ASSUME Undisturbed, TypeOK, RowInv, [Next]_vars
  PROVE  Known'
<1>1. \A t \in Tasks : Exists(t) => Exists(t)'
  BY QueueStep, RowStepLifecycle, LifecycleKeeps DEF Exists
<1>2. ASSUME \A i \in DOMAIN stream' : Exists(stream'[i].task),
             \A m \in pending' : Exists(m.task),
             \A p \in Procs, t \in Tasks : timers'[p][t] > 0 => Exists(t)
      PROVE  Known'
  <2>1. stream' \in Seq(Message) /\ pending' \in SUBSET Message
    BY NextType DEF TypeOK
  <2>2. \A i \in DOMAIN stream' : stream'[i].task \in Tasks
    <3>1. \A i \in DOMAIN stream' : stream'[i] \in Message
      BY <2>1, ElementOfSeq
    <3>. QED BY <3>1 DEF Message
  <2>3. \A m \in pending' : m.task \in Tasks
    BY <2>1 DEF Message
  <2>. QED BY <1>1, <1>2, <2>2, <2>3 DEF Known, Exists
<1>3. CASE UNCHANGED <<stream, pending, timers>>
  BY <1>2, <1>3 DEF RowInv, Known
<1>4. ASSUME NEW th \in Threads, Attempt(th) PROVE Known'
  <2>1. CASE ScheduleRetry(th)
    <3>1. Exists(loc[th].task) /\ UNCHANGED <<stream, pending>>
      BY <2>1 DEF ScheduleRetry, queueVars, RowInv, Sound, Leased
    <3>2. \/ UNCHANGED timers
          \/ timers' = [timers EXCEPT ![Home[th]][loc[th].task] = @ + 1]
      BY <2>1 DEF ScheduleRetry, StartTimer
    <3>3. \A p \in Procs, t \in Tasks : timers'[p][t] > 0 => Exists(t)
      <4>1. CASE UNCHANGED timers
        BY <4>1 DEF RowInv, Known
      <4>2. CASE timers' = [timers EXCEPT ![Home[th]][loc[th].task] = @ + 1]
        BY <3>1, <4>2, LocRow DEF RowInv, Known, TypeOK
      <4>. QED BY <3>2, <4>1, <4>2
    <3>. QED BY <1>2, <3>1, <3>3 DEF RowInv, Known
  <2>2. ScheduleRetry(th) \/ UNCHANGED <<stream, pending, timers>>
    BY <1>4 DEF Attempt, TryLock, LockConflict, LockError, Guard, Load,
                SkipDone, StartAttempt, Reread, Import, Succeed, Fail, Bury,
                Leave, Unlock, queueVars, memVars
  <2>. QED BY <1>3, <2>1, <2>2
<1>5. ASSUME NEW h \in Threads, Handle(h) PROVE Known'
  <2>1. CASE CreateSave(h)
    BY <1>3, <2>1 DEF CreateSave, queueVars, memVars
  <2>2. CASE Enqueue(h)
    <3>1. Exists(loc[h].task) /\ loc[h].task \in Tasks
      BY <2>2, LocRow DEF Enqueue, RowInv, Sound
    <3>2. \A i \in DOMAIN stream' : Exists(stream'[i].task)
      BY <2>2, <3>1, PushKnown DEF Enqueue, RowInv, Known
    <3>. QED BY <1>2, <2>2, <3>2 DEF Enqueue, memVars, RowInv, Known
  <2>. QED BY <1>5, <2>1, <2>2, HandleSteps
<1>6. ASSUME NEW w \in Threads, Work(w) PROVE Known'
  <2>1. CASE Dequeue(w)
    <3>1. /\ Head(stream) = stream[1] /\ 1 \in DOMAIN stream
          /\ stream' = Tail(stream)
          /\ pending' \subseteq pending \cup {Head(stream)}
          /\ UNCHANGED timers
      BY <2>1 DEF Dequeue, memVars, TypeOK
    <3>2. \A i \in DOMAIN stream' : stream'[i] = stream[i + 1]
                                     /\ i + 1 \in DOMAIN stream
      BY <2>1, <3>1 DEF Dequeue, TypeOK
    <3>. QED BY <1>2, <3>1, <3>2 DEF RowInv, Known
  <2>2. CASE Claim(w)
    BY <1>3, <2>2 DEF Claim, queueVars, memVars
  <2>3. CASE Ack(w)
    BY <1>2, <2>3 DEF Ack, memVars, RowInv, Known
  <2>. QED BY <1>6, <2>1, <2>2, <2>3 DEF Work
<1>7. ASSUME NEW h \in Threads, NEW t \in Tasks, Request(h, t) PROVE Known'
  BY <1>3, <1>7, RequestSound DEF CreateLookup, RunTask, queueVars, memVars
<1>8. ASSUME NEW p \in Procs, NEW t \in Tasks, RetryTimer(p, t) PROVE Known'
  <2>1. Exists(t) /\ UNCHANGED pending
    BY <1>8 DEF RetryTimer, Due, RowInv, Known
  <2>2. \A i \in DOMAIN stream' : Exists(stream'[i].task)
    BY <1>8, <2>1, PushKnown DEF RetryTimer, RowInv, Known
  <2>3. timers' = [timers EXCEPT ![p][t] = @ - 1]
    BY <1>8 DEF RetryTimer
  <2>4. \A q \in Procs, u \in Tasks : timers'[q][u] > 0 => Exists(u)
    BY <2>1, <2>3 DEF RowInv, Known, TypeOK
  <2>. QED BY <1>2, <2>1, <2>2, <2>4 DEF RowInv, Known
<1>9. ASSUME NEW p \in Procs, StopWorker(p) \/ Restart(p) PROVE Known'
  <2>1. /\ UNCHANGED <<stream, pending>>
        /\ timers' = [timers EXCEPT ![p] = [t \in Tasks |-> 0]]
    BY <1>9 DEF StopWorker, Restart, queueVars
  <2>2. \A q \in Procs, u \in Tasks : timers'[q][u] > 0 => Exists(u)
    BY <2>1 DEF RowInv, Known, TypeOK
  <2>. QED BY <1>2, <2>1, <2>2 DEF RowInv, Known
<1>10. ASSUME NEW t \in Tasks, LeaseExpires(t) PROVE Known'
  BY <1>3, <1>10 DEF LeaseExpires, queueVars, memVars
<1>11. CASE UNCHANGED vars
  BY <1>3, <1>11 DEF vars, queueVars, memVars
<1>. QED
  BY <1>4, <1>5, <1>6, <1>7, <1>8, <1>9, <1>10, <1>11 DEF Next

----------------------------------------------------------------------------
\* The theorems.

LEMMA RowNext ==
  ASSUME Undisturbed
  PROVE  TypeOK /\ RowInv /\ [Next]_vars => (TypeOK /\ RowInv)'
<1>. SUFFICES ASSUME TypeOK, RowInv, [Next]_vars PROVE (TypeOK /\ RowInv)'
  OBVIOUS
<1>1. LeaseInv'
  BY LeaseNext DEF RowInv, Undisturbed
<1>2. \A o \in Threads : Sound(o)'
  BY SoundNext
<1>. QED BY <1>1, <1>2, NextType, KnownNext, SavesDifferNext DEF RowInv

LEMMA LifecycleNext ==
  TypeOK /\ RowInv /\ [Next]_vars => [Lifecycle!Next]_task
BY QueueStep, RowStepLifecycle

\* Seen from outside, the queue with its messages, leases, retries, failures
\* and restarts is the life cycle of ImportTaskLifecycle.
THEOREM QueueImplementsLifecycle ==
  ASSUME Undisturbed
  PROVE  Spec => LifecycleSpec
<1>1. Init => Lifecycle!Init
  BY DEF Init, NoRow, Lifecycle!Init
<1>2. TypeOK /\ RowInv /\ [Next]_vars => (TypeOK /\ RowInv)'
  BY RowNext
<1>. QED
  BY <1>1, <1>2, InitType, RowInit, LifecycleNext, PTL
  DEF Spec, LifecycleSpec, Lifecycle!Spec

\* No redelivered message, retry, failure or restart takes a task out of
\* "succeeded".
THEOREM SuccessIsFinalHolds ==
  ASSUME Undisturbed
  PROVE  Spec => SuccessIsFinal
<1>1. TypeOK /\ RowInv /\ [Next]_vars => (TypeOK /\ RowInv)'
  BY RowNext
<1>2. TypeOK /\ RowInv /\ [Next]_vars
        => \A t \in Tasks : task[t].status = "succeeded"
                              => task'[t].status = "succeeded"
  BY LifecycleNext, LifecycleKeeps
<1>3. TypeOK /\ RowInv /\ [Next]_vars
        => [\A t \in Tasks : task[t].status = "succeeded"
                               => task'[t].status = "succeeded"]_vars
  BY <1>2
<1>. QED BY <1>1, <1>3, InitType, RowInit, PTL DEF Spec, SuccessIsFinal

----------------------------------------------------------------------------
\* Imported once.

\* The failures after which a task is still imported once: an import that
\* ended is written down, by the attempt that made it.
Recorded == FaultKinds \subseteq {"lock", "unlock", "ack", "push"}

\* The workers run; an import that succeeded is in the table, or about to be.
Up == \A p \in Procs : started[p]
Once ==
  \A t \in Tasks :
    /\ imports[t] <= 1
    /\ imports[t] = 1 =>
         \/ task[t].status = "succeeded"
         \/ \E th \in Threads : pc[th] = "succeed" /\ loc[th].task = t

LEMMA UpNext == ASSUME Recorded, TypeOK, Up, [Next]_vars PROVE Up' /\ \A p \in Procs : ~Restart(p)
<1>1. \A p \in Procs : ~StopWorker(p) /\ ~Restart(p)
  BY DEF StopWorker, Restart, Fault, Recorded, Up
<1>2. ASSUME NEW th \in Threads, Attempt(th) \/ Handle(th) \/ Work(th) PROVE UNCHANGED started
  BY <1>2 DEF Attempt, TryLock, LockConflict, LockError, Guard, Load, SkipDone, StartAttempt, Reread, Import,
              Succeed, ScheduleRetry, Fail, Bury, Leave, Unlock, Handle, CreateSave, EnqueueSave, Enqueue,
              RetrySave, RetryClear, RetryPush, Work, Dequeue, Claim, Ack, memVars
<1>3. ASSUME NEW h \in Threads, NEW t \in Tasks, Request(h, t) PROVE UNCHANGED started
  BY <1>3 DEF Request, CreateLookup, EnqueueRead, RetryRead, ReadFor, RunTask, memVars
<1>4. ASSUME NEW p \in Procs, NEW t \in Tasks, RetryTimer(p, t) PROVE UNCHANGED started
  BY <1>4 DEF RetryTimer
<1>5. ASSUME NEW t \in Tasks, LeaseExpires(t) PROVE UNCHANGED started
  BY <1>5 DEF LeaseExpires, memVars
<1>6. UNCHANGED vars => UNCHANGED started
  BY DEF vars, memVars
<1>7. UNCHANGED started
  BY <1>1, <1>2, <1>3, <1>4, <1>5, <1>6 DEF Next
<1>. QED BY <1>1, <1>7 DEF Up

\* A step that imports nothing, of a thread that has nothing to write down.
LEMMA OnceStays ==
  ASSUME Once, UNCHANGED imports,
         \A t \in Tasks : task[t].status = "succeeded" => task'[t].status = "succeeded",
         \A o \in Threads : pc[o] = "succeed" => pc'[o] = pc[o] /\ loc'[o] = loc[o]
  PROVE  Once'
BY DEF Once

LEMMA OnceAttempt ==
  ASSUME Recorded, TypeOK, RowInv, Once, NEW th \in Threads, Attempt(th),
         \A t \in Tasks : task[t].status = "succeeded" => task'[t].status = "succeeded"
  PROVE  Once'
<1>1. OthersStay(th)
  BY AttemptOthers
<1>2. PICK u \in Tasks : u = loc[th].task
  BY LocRow
<1>3. CASE Import(th)
  <2>1. task[u].status = "running" /\ pc[th] = "import"
    BY <1>2, <1>3 DEF Import, RowInv, Sound, CurrentFor
  <2>2. imports[u] = 0
    <3>1. \A o \in Threads : pc[o] = "succeed" => loc[o].task # u
      BY <1>2, <2>1, LeaseInvExcludes DEF RowInv, LeaseExclusion, Leased
    <3>2. imports[u] # 1
      BY <2>1, <3>1 DEF Once
    <3>3. imports[u] \in 0..2 /\ imports[u] <= 1
      BY DEF Once, TypeOK
    <3>. QED BY <3>2, <3>3
  <2>3. CASE UNCHANGED imports
    BY <1>1, <2>1, <2>3, OnceStays DEF OthersStay
  <2>4. CASE imports' = [imports EXCEPT ![u] = IF @ < 2 THEN @ + 1 ELSE @] /\ Goto(th, "succeed")
    <3>1. imports' = [imports EXCEPT ![u] = 1]
      BY <2>2, <2>4 DEF TypeOK
    <3>2. pc'[th] = "succeed" /\ UNCHANGED <<task, loc>>
      BY <1>3, <2>4, GotoStep DEF Import
    <3>3. imports'[u] = 1 /\ \A t \in Tasks \ {u} : imports'[t] = imports[t]
      BY <3>1 DEF TypeOK
    <3> SUFFICES ASSUME NEW t \in Tasks
                 PROVE  /\ imports'[t] <= 1
                        /\ imports'[t] = 1 =>
                             \/ task'[t].status = "succeeded"
                             \/ \E o \in Threads : pc'[o] = "succeed" /\ loc'[o].task = t
      BY DEF Once
    <3>4. CASE t = u
      BY <1>2, <3>2, <3>3, <3>4
    <3>5. CASE t # u
      BY <1>1, <2>1, <3>2, <3>3, <3>5 DEF Once, OthersStay
    <3>. QED BY <3>4, <3>5
  <2>. QED BY <1>2, <1>3, <2>3, <2>4 DEF Import
<1>4. CASE Succeed(th)
  <2>1. SaveOutcome(th, "succeeded") /\ UNCHANGED imports
    BY <1>4 DEF Succeed, OutcomeFails, SaveFails, Fault, Recorded
  <2>2. task'[u].status = "succeeded"
    BY <1>2, <2>1, LocRow DEF SaveOutcome, SaveTask, TypeOK, Row
  <2>3. \A o \in Threads \ {th} : pc[o] = "succeed" => pc'[o] = pc[o] /\ loc'[o] = loc[o]
    BY <1>1 DEF OthersStay
  <2> SUFFICES ASSUME NEW t \in Tasks
               PROVE  /\ imports[t] <= 1
                      /\ imports[t] = 1 =>
                           \/ task'[t].status = "succeeded"
                           \/ \E o \in Threads : pc'[o] = "succeed" /\ loc'[o].task = t
    BY <2>1 DEF Once
  <2>4. CASE t = u
    BY <2>2, <2>4 DEF Once
  <2>5. CASE t # u
    BY <1>2, <2>3, <2>5 DEF Once
  <2>. QED BY <2>4, <2>5
<1>5. CASE ~Import(th) /\ ~Succeed(th)
  <2>1. UNCHANGED imports /\ pc[th] # "succeed"
    BY <1>5 DEF Attempt, TryLock, LockConflict, LockError, Guard, Load, SkipDone, StartAttempt, Reread,
                ScheduleRetry, Fail, Bury, Leave, Unlock, repoVars
  <2>. QED BY <1>1, <2>1, OnceStays DEF OthersStay
<1>. QED BY <1>3, <1>4, <1>5

LEMMA OnceNext ==
  ASSUME Undisturbed, Recorded, TypeOK, RowInv, Up, Once, [Next]_vars
  PROVE  Once'
<1>1. \A t \in Tasks : task[t].status = "succeeded" => task'[t].status = "succeeded"
  BY LifecycleNext, LifecycleKeeps
<1>2. ASSUME NEW th \in Threads, Attempt(th) PROVE Once'
  BY <1>1, <1>2, OnceAttempt
<1>3. ASSUME NEW th \in Threads, OthersStay(th), pc[th] # "succeed", UNCHANGED imports PROVE Once'
  BY <1>1, <1>3, OnceStays DEF OthersStay
<1>4. ASSUME NEW h \in Threads, Handle(h) PROVE Once'
  <2>1. pc[h] # "succeed" /\ UNCHANGED imports
    BY <1>4 DEF Handle, CreateSave, EnqueueSave, Enqueue, RetrySave, RetryClear, RetryPush, repoVars
  <2>. QED BY <1>3, <1>4, <2>1, HandleStays DEF Stays
<1>5. ASSUME NEW w \in Threads, Work(w) PROVE Once'
  <2>1. pc[w] # "succeed" /\ UNCHANGED imports
    BY <1>5 DEF Work, Dequeue, Claim, Ack, repoVars
  <2>. QED BY <1>3, <1>5, <2>1, WorkStays DEF Stays
<1>6. ASSUME NEW h \in Threads, NEW t \in Tasks, Request(h, t) PROVE Once'
  <2>1. pc[h] # "succeed" /\ UNCHANGED imports
    BY <1>6 DEF Request, CreateLookup, EnqueueRead, RetryRead, ReadFor, RunTask, repoVars
  <2>. QED BY <1>3, <1>6, <2>1, RequestStays DEF Stays
<1>7. CASE UNCHANGED <<imports, pc, loc>>
  BY <1>1, <1>7, OnceStays
<1>8. ASSUME NEW p \in Procs, NEW t \in Tasks, RetryTimer(p, t) PROVE UNCHANGED <<imports, pc, loc>>
  BY <1>8 DEF RetryTimer, repoVars, threadVars
<1>9. ASSUME NEW t \in Tasks, LeaseExpires(t) PROVE UNCHANGED <<imports, pc, loc>>
  BY <1>9 DEF LeaseExpires, repoVars, threadVars
<1>10. ASSUME NEW p \in Procs, StopWorker(p) PROVE UNCHANGED <<imports, pc, loc>>
  BY <1>10 DEF StopWorker, repoVars, threadVars
<1>11. CASE UNCHANGED vars
  BY <1>7, <1>11 DEF vars, repoVars, threadVars
<1>. QED
  BY <1>2, <1>4, <1>5, <1>6, <1>7, <1>8, <1>9, <1>10, <1>11, UpNext DEF Next

\* A task is imported successfully at most once, by however many workers and
\* :run calls, although its message may be delivered again, fail to be
\* acknowledged or be pushed once more by a retry: as long as no save fails and
\* no process dies between the import and the save of its outcome.
THEOREM ImportOnceHolds ==
  ASSUME Undisturbed, Recorded
  PROVE  Spec => []ImportOnce
<1>1. Init => Up /\ Once
  BY DEF Init, Up, Once
<1>2. TypeOK /\ RowInv /\ Up /\ Once /\ [Next]_vars => (TypeOK /\ RowInv /\ Up /\ Once)'
  BY RowNext, UpNext, OnceNext
<1>3. Once => ImportOnce
  BY DEF Once, ImportOnce
<1>. QED BY <1>1, <1>2, <1>3, InitType, RowInit, PTL DEF Spec

----------------------------------------------------------------------------
\* No task is stranded.

\* A failed acknowledgement leaves the message to be claimed again.
Uninterrupted == FaultKinds \subseteq {"ack"}

Timed(t) == \E p \in Procs : timers[p][t] > 0
Queued(t) == \E i \in DOMAIN stream : stream[i].task = t
Active == {"lock", "enqueue"} \cup (Leased \ {"leave", "unlock"})
Handled(t) == \E th \in Threads : loc[th].task = t /\ pc[th] \in Active

\* A lease belongs to a live attempt, an entry of processingTasks to a live
\* body of one, and only failed tasks go to the dead letters.
Owned ==
  \A t \in Tasks : lock[t] # Nobody =>
    /\ lock[t] \in Threads /\ pc[lock[t]] \in Leased
    /\ loc[lock[t]].task = t
RegisteredOnly ==
  \A p \in Procs, t \in Tasks : t \in processing[p] =>
    \E th \in Threads : /\ Home[th] = p /\ loc[th].task = t
                        /\ pc[th] \in Attempting
Buried ==
  \A th \in Threads : pc[th] = "bury" => task[loc[th].task].status = "failed"

\* An attempt that is over left its task done or with a timer, and a task that
\* is not done has one, or a message, or a thread that works on it.
Tended(t) ==
  /\ Unfinished(t) /\ Trailing(t) => Timed(t)
  /\ Unfinished(t) => Timed(t) \/ Queued(t) \/ Handled(t)
CareInv ==
  Up /\ Owned /\ RegisteredOnly /\ Buried /\ \A t \in Tasks : Tended(t)

LEMMA NoFaults == ASSUME Uninterrupted, NEW kind, kind # "ack" PROVE ~Fault(kind)
BY DEF Uninterrupted, Fault

\* An attempt's step, seen from its lease: it is refused, takes the lease,
\* registers, goes on, leaves and unlocks.
Refused(th) ==
  /\ pc[th] = "lock" /\ lock[loc[th].task] # Nobody
  /\ pc'[th] \in {"idle", "ack"}
  /\ UNCHANGED <<task, lock, processing, timers>>
Leases(th) ==
  /\ pc[th] = "lock" /\ pc'[th] = "guard"
  /\ lock' = [lock EXCEPT ![loc[th].task] = th]
  /\ UNCHANGED <<task, loc, processing, timers>>
Registers(th) ==
  /\ pc[th] = "guard" /\ pc'[th] = "load"
  /\ processing' = [processing EXCEPT ![Home[th]] = @ \cup {loc[th].task}]
  /\ UNCHANGED <<task, loc, lock, timers>>
Proceeds(th) ==
  /\ pc[th] \in Attempting /\ pc'[th] \in Attempting
  /\ loc'[th].task = loc[th].task
  /\ \A t \in Tasks \ {loc[th].task} : task'[t] = task[t]
  /\ \A p \in Procs, t \in Tasks : timers[p][t] > 0 => timers'[p][t] > 0
  /\ pc'[th] = "bury" => task'[loc[th].task].status = "failed"
  /\ pc'[th] = "leave" => ~Unfinished(loc[th].task)' \/ Timed(loc[th].task)'
  /\ UNCHANGED <<lock, processing>>
Leaves(th) ==
  /\ pc[th] = "leave" /\ pc'[th] = "unlock"
  /\ processing' = [processing EXCEPT ![Home[th]] = @ \ {loc[th].task}]
  /\ UNCHANGED <<task, loc, lock, timers>>
Unlocks(th) ==
  /\ pc[th] = "unlock" /\ pc'[th] \in {"idle", "ack"}
  /\ lock' = [lock EXCEPT ![loc[th].task] = Nobody]
  /\ UNCHANGED <<task, processing, timers>>

LEMMA ProceedsToLabel ==
  ASSUME TypeOK, NEW th \in Threads, pc[th] \in Attempting,
         NEW label \in Attempting \ {"leave", "bury"}, Goto(th, label),
         loc'[th].task = loc[th].task,
         \A t \in Tasks \ {loc[th].task} : task'[t] = task[t],
         UNCHANGED <<timers, lock, processing>>
  PROVE  Proceeds(th)
BY GotoStep DEF Proceeds

LEMMA SaveOthers ==
  ASSUME TypeOK, NEW t \in Tasks, NEW row, SaveTask(t, row)
  PROVE  task'[t] = row /\ \A u \in Tasks \ {t} : task'[u] = task[u]
BY DEF SaveTask, TypeOK

LEMMA BodyProceeds ==
  ASSUME Uninterrupted, TypeOK, RowInv, CareInv, NEW th \in Threads, Body(th)
  PROVE  Refused(th) \/ Proceeds(th)
<1>0. PICK u \in Tasks : u = loc[th].task
  BY LocRow
<1>1. CASE LockConflict(th)
  BY <1>1, ReturnStep DEF LockConflict, LeaseFree, Refused, repoVars, memVars
<1>2. CASE Load(th)
  <2>1. /\ Goto(th, "start") /\ loc'[th].task = loc[th].task
        /\ pc[th] = "load" /\ UNCHANGED <<task, timers, lock, processing>>
    BY <1>2, NoFaults DEF Load, RepoError, TypeOK, Local, repoVars, memVars
  <2>2. pc[th] \in Attempting /\ "start" \in Attempting \ {"leave", "bury"}
    BY <2>1 DEF Attempting, Leased
  <2>. QED BY <2>1, <2>2, ProceedsToLabel
<1>3. CASE SkipDone(th)
  <2>1. pc'[th] = "leave" /\ loc'[th].task = loc[th].task
    BY <1>3, EndStep DEF SkipDone
  <2>2. UNCHANGED <<task, timers, lock, processing>> /\ Done(task[u])
    BY <1>0, <1>3 DEF SkipDone, repoVars, memVars
  <2>3. ~Unfinished(u)'
    BY <2>2 DEF Done, Exhausted, Unfinished
  <2>4. pc[th] \in Attempting /\ "leave" \in Attempting
    BY <1>3 DEF SkipDone, Attempting, Leased
  <2>. QED BY <1>0, <2>1, <2>2, <2>3, <2>4 DEF Proceeds
<1>4. CASE StartAttempt(th)
  <2>1. /\ Goto(th, "reread") /\ UNCHANGED <<loc, timers, lock, processing>>
        /\ SaveTask(u, Started(loc[th].row)) /\ pc[th] = "start"
    BY <1>0, <1>4, NoFaults DEF StartAttempt, SaveFails, memVars
  <2>2. pc[th] \in Attempting /\ "reread" \in Attempting \ {"leave", "bury"}
    BY <2>1 DEF Attempting, Leased
  <2>3. \A t \in Tasks \ {u} : task'[t] = task[t]
    BY <2>1, SaveOthers
  <2>. QED BY <1>0, <2>1, <2>2, <2>3, ProceedsToLabel
<1>5. CASE Reread(th)
  <2>1. PICK next \in {"import", "retry", "fail"} : Goto(th, next)
    BY <1>5, NoFaults DEF Reread, RepoError
  <2>2. /\ loc'[th].task = loc[th].task /\ pc[th] = "reread"
        /\ UNCHANGED <<task, timers, lock, processing>>
    BY <1>5, NoFaults DEF Reread, RepoError, TypeOK, Local, repoVars, memVars
  <2>3. pc[th] \in Attempting /\ next \in Attempting \ {"leave", "bury"}
    BY <2>1, <2>2 DEF Attempting, Leased
  <2>. QED BY <2>1, <2>2, <2>3, ProceedsToLabel
<1>6. CASE Import(th)
  <2>1. PICK next \in {"succeed", "fail"} : Goto(th, next)
    BY <1>6 DEF Import
  <2>2. UNCHANGED <<task, loc, timers, lock, processing>> /\ pc[th] = "import"
    BY <1>6 DEF Import, memVars
  <2>3. pc[th] \in Attempting /\ next \in Attempting \ {"leave", "bury"}
    BY <2>1, <2>2 DEF Attempting, Leased
  <2>. QED BY <2>1, <2>2, <2>3, ProceedsToLabel
<1>7. ASSUME NEW status \in {"succeeded", "queued", "failed"}, SaveOutcome(th, status)
      PROVE  task'[u].status = status /\ \A t \in Tasks \ {u} : task'[t] = task[t]
  <2>1. [loc[th].row EXCEPT !.status = status].status = status
    BY LocRow DEF Row
  <2>. QED BY <1>0, <1>7, <2>1, SaveOthers DEF SaveOutcome
<1>8. CASE Succeed(th)
  <2>1. /\ SaveOutcome(th, "succeeded") /\ End(th, TRUE) /\ pc[th] = "succeed"
        /\ UNCHANGED <<timers, lock, processing>>
    BY <1>8, NoFaults DEF Succeed, OutcomeFails, SaveFails, memVars
  <2>2. pc'[th] = "leave" /\ loc'[th].task = loc[th].task
    BY <2>1, EndStep
  <2>3. pc[th] \in Attempting /\ "leave" \in Attempting
    BY <2>1 DEF Attempting, Leased
  <2>. QED BY <1>0, <1>7, <2>1, <2>2, <2>3 DEF Proceeds, Unfinished
<1>9. CASE ScheduleRetry(th)
  <2>1. /\ SaveOutcome(th, "queued") /\ End(th, TRUE) /\ pc[th] = "retry"
        /\ StartTimer(Home[th], u)
        /\ UNCHANGED <<lock, processing>>
    BY <1>0, <1>9, NoFaults DEF ScheduleRetry, OutcomeFails, SaveFails
  <2>2. pc'[th] = "leave" /\ loc'[th].task = loc[th].task
    BY <2>1, EndStep
  <2>3. pc[th] \in Attempting /\ "leave" \in Attempting
    BY <2>1 DEF Attempting, Leased
  <2>4. timers' = [timers EXCEPT ![Home[th]][u] = @ + 1] /\ Home[th] \in Procs
    BY <2>1, LocRow DEF StartTimer, CareInv, Up
  <2>5. timers'[Home[th]][u] = timers[Home[th]][u] + 1 /\ timers[Home[th]][u] \in Nat
    BY <2>4 DEF TypeOK
  <2>6. \A p \in Procs, t \in Tasks : (p # Home[th] \/ t # u) => timers'[p][t] = timers[p][t]
    BY <2>4 DEF TypeOK
  <2>7. \A p \in Procs, t \in Tasks : timers[p][t] > 0 => timers'[p][t] > 0
    BY <2>5, <2>6
  <2>8. Timed(u)'
    BY <2>4, <2>5 DEF Timed
  <2>. QED BY <1>0, <1>7, <2>1, <2>2, <2>3, <2>7, <2>8 DEF Proceeds
<1>10. CASE Fail(th)
  <2>1. /\ SaveOutcome(th, "failed") /\ Goto(th, "bury") /\ pc[th] = "fail"
        /\ UNCHANGED <<loc, timers, lock, processing>>
    BY <1>10, NoFaults DEF Fail, OutcomeFails, SaveFails, memVars
  <2>2. pc'[th] = "bury"
    BY <2>1, GotoStep
  <2>3. pc[th] \in Attempting /\ "bury" \in Attempting
    BY <2>1 DEF Attempting, Leased
  <2>. QED BY <1>0, <1>7, <2>1, <2>2, <2>3 DEF Proceeds
<1>11. CASE Bury(th)
  <2>1. /\ End(th, TRUE) /\ pc[th] = "bury"
        /\ UNCHANGED <<task, timers, lock, processing>>
    BY <1>11, NoFaults DEF Bury, RepoError, memVars
  <2>2. pc'[th] = "leave" /\ loc'[th].task = loc[th].task
    BY <2>1, EndStep
  <2>3. pc[th] \in Attempting /\ "leave" \in Attempting
    BY <2>1 DEF Attempting, Leased
  <2>4. ~Unfinished(u)'
    BY <1>0, <2>1 DEF CareInv, Buried, Unfinished
  <2>. QED BY <1>0, <2>1, <2>2, <2>3, <2>4 DEF Proceeds
<1>. QED
  BY <1>1, <1>2, <1>3, <1>4, <1>5, <1>6, <1>8, <1>9, <1>10, <1>11 DEF Body

LEMMA AttemptMoves ==
  ASSUME Uninterrupted, TypeOK, RowInv, CareInv, NEW th \in Threads, Attempt(th)
  PROVE  \/ Refused(th) \/ Leases(th) \/ Registers(th)
         \/ Proceeds(th) \/ Leaves(th) \/ Unlocks(th)
<1>1. CASE Body(th)
  BY <1>1, BodyProceeds
<1>2. CASE TryLock(th)
  BY <1>2, GotoStep DEF TryLock, Leases, repoVars, memVars
<1>3. ~LockError(th)
  BY NoFaults DEF LockError
<1>4. CASE Guard(th)
  <2>1. ~AlreadyRunning(th)
    <3> SUFFICES ASSUME AlreadyRunning(th) PROVE FALSE
      OBVIOUS
    <3>1. PICK o \in Threads : loc[o].task = loc[th].task /\ pc[o] \in Attempting
      BY LocRow DEF AlreadyRunning, CareInv, RegisteredOnly
    <3>2. pc[th] = "guard" /\ o # th
      BY <1>4, <3>1 DEF Guard, Attempting
    <3>. QED BY <3>1, <3>2, LeaseInvExcludes DEF RowInv, LeaseExclusion, Attempting, Leased
  <2>. QED BY <1>4, <2>1, GotoStep DEF Guard, Registers, repoVars
<1>5. CASE Leave(th)
  BY <1>5, GotoStep DEF Leave, Leaves, repoVars
<1>6. CASE Unlock(th)
  <2>1. pc'[th] \in {"idle", "ack"}
    BY <1>6, ReturnStep, LocRow DEF Unlock
  <2>. QED BY <1>6, <2>1, NoFaults DEF Unlock, Unlocks, repoVars, memVars
<1>. QED BY <1>1, <1>2, <1>3, <1>4, <1>5, <1>6 DEF Attempt, Body

LEMMA OwnedAttempt ==
  ASSUME Uninterrupted, TypeOK, RowInv, CareInv, NEW th \in Threads, Attempt(th)
  PROVE  (Owned /\ RegisteredOnly /\ Buried)'
<1>0. OthersStay(th) /\ loc[th].task \in Tasks /\ Home[th] \in Procs
  BY AttemptOthers, LocRow
<1>1. Owned /\ RegisteredOnly /\ Buried
  BY DEF CareInv
<1>2. \A o \in Threads \ {th} : pc[o] = "bury" => task'[loc[o].task] = task[loc[o].task]
  <2> SUFFICES ASSUME NEW o \in Threads \ {th}, pc[o] = "bury"
               PROVE  task'[loc[o].task] = task[loc[o].task]
    OBVIOUS
  <2>1. CASE UNCHANGED task
    BY <2>1
  <2>2. CASE Proceeds(th)
    <3>1. loc[o].task # loc[th].task
      BY <2>2, LeaseInvExcludes DEF Proceeds, RowInv, LeaseExclusion, Attempting, Leased
    <3>. QED BY <2>2, <3>1, LocRow DEF Proceeds
  <2>. QED BY <2>1, <2>2, AttemptMoves DEF Refused, Leases, Registers, Leaves, Unlocks
<1>3. ASSUME pc'[th] = "bury" => task'[loc'[th].task].status = "failed" PROVE Buried'
  BY <1>0, <1>1, <1>2, <1>3 DEF Buried, OthersStay
<1>4. CASE Refused(th)
  <2>1. pc[th] \notin Leased /\ pc'[th] # "bury"
    BY <1>4 DEF Refused, Leased
  <2>2. Owned'
    BY <1>0, <1>1, <1>4, <2>1 DEF Refused, Owned, OthersStay
  <2>3. RegisteredOnly'
    BY <1>0, <1>1, <1>4, <2>1 DEF Refused, RegisteredOnly, OthersStay, Attempting
  <2>. QED BY <1>3, <2>1, <2>2, <2>3
<1>5. CASE Leases(th)
  <2>1. pc[th] \notin Leased /\ pc'[th] # "bury" /\ pc'[th] \in Leased
    BY <1>5 DEF Leases, Leased
  <2>2. Owned'
    <3> SUFFICES ASSUME NEW t \in Tasks, lock'[t] # Nobody
                 PROVE  /\ lock'[t] \in Threads /\ pc'[lock'[t]] \in Leased
                        /\ loc'[lock'[t]].task = t
      BY DEF Owned
    <3>1. CASE t = loc[th].task
      <4>1. lock'[t] = th
        BY <1>5, <3>1 DEF Leases, TypeOK
      <4>. QED BY <1>5, <2>1, <3>1, <4>1 DEF Leases
    <3>2. CASE t # loc[th].task
      <4>1. lock'[t] = lock[t]
        BY <1>5, <3>2 DEF Leases, TypeOK
      <4>. QED BY <1>0, <1>1, <2>1, <4>1 DEF Owned, OthersStay
    <3>. QED BY <3>1, <3>2
  <2>3. RegisteredOnly'
    BY <1>0, <1>1, <1>5, <2>1 DEF Leases, RegisteredOnly, OthersStay, Attempting
  <2>. QED BY <1>3, <2>1, <2>2, <2>3
<1>6. CASE Registers(th)
  <2>1. /\ pc[th] \notin Attempting /\ pc'[th] # "bury"
        /\ pc'[th] \in Leased /\ pc'[th] \in Attempting
    BY <1>6 DEF Registers, Attempting, Leased
  <2>2. Owned'
    BY <1>0, <1>1, <1>6, <2>1 DEF Registers, Owned, OthersStay
  <2>3. RegisteredOnly'
    <3> SUFFICES ASSUME NEW p \in Procs, NEW t \in Tasks, t \in processing'[p]
                 PROVE  \E o \in Threads : /\ Home[o] = p /\ loc'[o].task = t
                                           /\ pc'[o] \in Attempting
      BY DEF RegisteredOnly
    <3>1. CASE t = loc[th].task /\ p = Home[th]
      BY <1>6, <2>1, <3>1 DEF Registers
    <3>2. CASE t # loc[th].task \/ p # Home[th]
      <4>1. t \in processing[p]
        BY <1>6, <3>2 DEF Registers, TypeOK
      <4>. QED BY <1>0, <1>1, <2>1, <4>1 DEF RegisteredOnly, OthersStay
    <3>. QED BY <3>1, <3>2
  <2>. QED BY <1>3, <2>1, <2>2, <2>3
<1>7. CASE Proceeds(th)
  <2>1. /\ pc[th] \in Attempting /\ pc'[th] \in Attempting /\ pc'[th] \in Leased
        /\ loc'[th].task = loc[th].task
        /\ UNCHANGED <<lock, processing>>
        /\ pc'[th] = "bury" => task'[loc[th].task].status = "failed"
    BY <1>7 DEF Proceeds, Attempting
  <2>2. Owned'
    BY <1>0, <1>1, <2>1 DEF Owned, OthersStay
  <2>3. RegisteredOnly'
    BY <1>0, <1>1, <2>1 DEF RegisteredOnly, OthersStay
  <2>. QED BY <1>3, <2>1, <2>2, <2>3
<1>8. CASE Leaves(th)
  <2>1. pc'[th] \in Leased /\ pc'[th] # "bury"
    BY <1>8 DEF Leaves, Leased
  <2>2. Owned'
    BY <1>0, <1>1, <1>8, <2>1 DEF Leaves, Owned, OthersStay
  <2>3. RegisteredOnly'
    <3> SUFFICES ASSUME NEW p \in Procs, NEW t \in Tasks, t \in processing'[p]
                 PROVE  \E o \in Threads : /\ Home[o] = p /\ loc'[o].task = t
                                           /\ pc'[o] \in Attempting
      BY DEF RegisteredOnly
    <3>1. t \in processing[p] /\ ~(t = loc[th].task /\ p = Home[th])
      BY <1>8, <1>0 DEF Leaves, TypeOK
    <3>. QED BY <1>0, <1>1, <3>1 DEF RegisteredOnly, OthersStay
  <2>. QED BY <1>3, <2>1, <2>2, <2>3
<1>9. CASE Unlocks(th)
  <2>1. pc[th] \notin Attempting /\ pc'[th] # "bury"
    BY <1>9 DEF Unlocks, Attempting
  <2>2. Owned'
    <3> SUFFICES ASSUME NEW t \in Tasks, lock'[t] # Nobody
                 PROVE  /\ lock'[t] \in Threads /\ pc'[lock'[t]] \in Leased
                        /\ loc'[lock'[t]].task = t
      BY DEF Owned
    <3>1. lock'[t] = lock[t] /\ t # loc[th].task
      BY <1>0, <1>9 DEF Unlocks, TypeOK
    <3>. QED BY <1>0, <1>1, <3>1 DEF Owned, OthersStay
  <2>3. RegisteredOnly'
    BY <1>0, <1>1, <1>9, <2>1 DEF Unlocks, RegisteredOnly, OthersStay
  <2>. QED BY <1>3, <2>1, <2>2, <2>3
<1>. QED BY <1>4, <1>5, <1>6, <1>7, <1>8, <1>9, AttemptMoves

\* A thread that neither worked on a task nor ends an attempt of it leaves the
\* task as well looked after as it was.
LEMMA TendedStays ==
  ASSUME NEW t \in Tasks, Tended(t), NEW th \in Threads, OthersStay(th),
         task'[t] = task[t], Timed(t) => Timed(t)', Queued(t) => Queued(t)',
         pc[th] \notin Active \/ loc[th].task # t,
         pc'[th] \notin {"leave", "unlock"} \/ loc'[th].task # t
  PROVE  Tended(t)'
<1>1. Unfinished(t)' <=> Unfinished(t)
  BY DEF Unfinished
<1>2. Handled(t) => Handled(t)'
  BY DEF Handled, OthersStay
<1>3. Trailing(t)' => Trailing(t)
  BY DEF Trailing, OthersStay
<1>. QED BY <1>1, <1>2, <1>3 DEF Tended

\* A task is looked after by the thread that works on it next.
LEMMA HandledIsTended ==
  ASSUME NEW t \in Tasks, NEW th \in Threads, pc'[th] \in Active,
         loc'[th].task = t, Unfinished(t)' /\ Trailing(t)' => Timed(t)'
  PROVE  Tended(t)'
BY DEF Tended, Handled

LEMMA TendedAttempt ==
  ASSUME Uninterrupted, TypeOK, RowInv, CareInv, NEW th \in Threads,
         Attempt(th), NEW t \in Tasks
  PROVE  Tended(t)'
<1>0. OthersStay(th) /\ loc[th].task \in Tasks /\ Tended(t)
  BY AttemptOthers, LocRow DEF CareInv
<1>1. UNCHANGED stream
  BY DEF Attempt, TryLock, LockConflict, LockError, Guard, Load, SkipDone,
         StartAttempt, Reread, Import, Succeed, ScheduleRetry, Fail, Bury,
         Leave, Unlock, queueVars
<1>2. Queued(t)' <=> Queued(t)
  BY <1>1 DEF Queued
<1>3. Timed(t) => Timed(t)'
  BY AttemptMoves DEF Timed, Refused, Leases, Registers, Proceeds, Leaves, Unlocks
<1>4. CASE t # loc[th].task
  <2>1. task'[t] = task[t]
    BY <1>4, AttemptMoves DEF Refused, Leases, Registers, Proceeds, Leaves, Unlocks
  <2>2. pc'[th] \notin {"leave", "unlock"} \/ loc'[th].task # t
    BY <1>4, AttemptMoves DEF Refused, Leases, Registers, Proceeds, Leaves, Unlocks
  <2>. QED BY <1>0, <1>2, <1>3, <1>4, <2>1, <2>2, TendedStays
<1>5. CASE t = loc[th].task
  <2>1. CASE Refused(th)
    <3>1. PICK o \in Threads : pc[o] \in Leased /\ loc[o].task = t
      BY <1>5, <2>1 DEF Refused, CareInv, Owned
    <3>2. o # th /\ task'[t] = task[t] /\ pc'[th] \notin {"leave", "unlock"}
      BY <2>1, <3>1 DEF Refused, Leased
    <3>3. Unfinished(t)' /\ Trailing(t)' => Timed(t)'
      BY <1>0, <1>3, <3>2 DEF Unfinished, Trailing, Tended, OthersStay
    <3>4. CASE pc[o] \in Active
      BY <1>0, <3>1, <3>2, <3>3, <3>4, HandledIsTended DEF OthersStay
    <3>5. CASE pc[o] \notin Active
      <4>1. Trailing(t)
        BY <3>1, <3>5 DEF Active, Trailing
      <4>. QED BY <1>0, <1>3, <3>2, <4>1 DEF Tended, Unfinished
    <3>. QED BY <3>4, <3>5
  <2>2. CASE Leases(th) \/ Registers(th)
    <3>1. /\ task'[t] = task[t] /\ loc'[th].task = t /\ pc'[th] \in Active
          /\ pc'[th] \notin {"leave", "unlock"}
      BY <1>5, <2>2 DEF Leases, Registers, Active, Leased
    <3>2. Unfinished(t)' /\ Trailing(t)' => Timed(t)'
      BY <1>0, <1>3, <3>1 DEF Unfinished, Trailing, Tended, OthersStay
    <3>. QED BY <3>1, <3>2, HandledIsTended
  <2>3. CASE Proceeds(th)
    <3>1. \A o \in Threads \ {th} : loc[o].task = t => pc[o] \notin Leased
      BY <1>5, <2>3, LeaseInvExcludes DEF Proceeds, RowInv, LeaseExclusion, Attempting
    <3>2. /\ loc'[th].task = t
          /\ pc'[th] = "leave" => ~Unfinished(t)' \/ Timed(t)'
          /\ pc'[th] # "leave" => pc'[th] \in Active
      BY <1>5, <2>3 DEF Proceeds, Attempting, Active
    <3>3. Trailing(t)' => pc'[th] = "leave"
      BY <1>0, <2>3, <3>1 DEF Trailing, OthersStay, Proceeds, Attempting, Leased
    <3>. QED BY <3>2, <3>3, HandledIsTended DEF Tended
  <2>4. CASE Leaves(th) \/ Unlocks(th)
    <3>1. Trailing(t) /\ task'[t] = task[t]
      BY <1>5, <2>4 DEF Leaves, Unlocks, Trailing
    <3>. QED BY <1>0, <1>3, <3>1 DEF Tended, Unfinished
  <2>. QED BY <2>1, <2>2, <2>3, <2>4, AttemptMoves
<1>. QED BY <1>4, <1>5

\* A message pushed without failing is in the stream.
LEMMA PushQueues ==
  ASSUME Uninterrupted, TypeOK, NEW t \in Tasks, Push(t)
  PROVE  Queued(t)' /\ \A u \in Tasks : Queued(u) => Queued(u)'
<1>1. PICK id \in FreeIds : stream' = Append(stream, [task |-> t, id |-> id])
  BY NoFaults DEF Push
<1>2. PICK m : m = [task |-> t, id |-> id]
  OBVIOUS
<1>3. PICK n \in Nat : n = Len(stream)
  BY DEF TypeOK
<1>4. /\ DOMAIN stream = 1..n /\ DOMAIN stream' = 1..(n + 1)
      /\ stream'[n + 1] = m
      /\ \A i \in 1..n : stream'[i] = stream[i]
  BY <1>1, <1>2, <1>3 DEF TypeOK
<1>5. n + 1 \in 1..(n + 1) /\ \A i \in 1..n : i \in 1..(n + 1)
  BY <1>3
<1>6. m.task = t
  BY <1>2
<1>. QED BY <1>4, <1>5, <1>6 DEF Queued

LEMMA OwnedStays ==
  ASSUME TypeOK, CareInv, NEW th \in Threads, Stays(th), pc[th] \notin Leased,
         pc'[th] # "bury",
         \A o \in Threads \ {th} : pc[o] = "bury" =>
           task'[loc[o].task].status = task[loc[o].task].status
  PROVE  (Owned /\ RegisteredOnly /\ Buried)'
<1>1. Owned'
  BY DEF CareInv, Owned, Stays, OthersStay
<1>2. RegisteredOnly'
  BY DEF CareInv, RegisteredOnly, Stays, OthersStay, Attempting
<1>3. Buried'
  BY DEF CareInv, Buried, Stays, OthersStay
<1>. QED BY <1>1, <1>2, <1>3

LEMMA CareHandle ==
  ASSUME Uninterrupted, TypeOK, RowInv, CareInv, NEW h \in Threads, Handle(h)
  PROVE  (Owned /\ RegisteredOnly /\ Buried)' /\ \A t \in Tasks : Tended(t)'
<1>0. Stays(h) /\ OthersStay(h) /\ loc[h].task \in Tasks
  BY HandleStays, LocRow DEF Stays
<1>1. CASE CreateSave(h)
  <2>1. /\ pc[h] = "save" /\ Goto(h, "enqueue") /\ UNCHANGED <<loc, stream, timers>>
        /\ SaveTask(loc[h].task, [status |-> "queued", attempts |-> 0])
    BY <1>1, NoFaults DEF CreateSave, SaveFails, queueVars, memVars
  <2>2. pc'[h] = "enqueue" /\ \A u \in Tasks \ {loc[h].task} : task'[u] = task[u]
    BY <1>0, <2>1, GotoStep, SaveOthers
  <2>3. \A o \in Threads \ {h} : pc[o] \in Leased => loc[o].task # loc[h].task
    BY <2>1 DEF RowInv, Sound
  <2>4. (Owned /\ RegisteredOnly /\ Buried)'
    BY <1>0, <2>1, <2>2, <2>3, LocRow, OwnedStays DEF Leased
  <2>5. ASSUME NEW t \in Tasks PROVE Tended(t)'
    <3>1. CASE t = loc[h].task
      <4>1. ~Trailing(t)'
        BY <1>0, <2>2, <2>3, <3>1 DEF Trailing, OthersStay, Leased
      <4>. QED BY <2>1, <2>2, <3>1, <4>1, HandledIsTended DEF Active
    <3>2. CASE t # loc[h].task
      <4>1. task'[t] = task[t] /\ (Timed(t) => Timed(t)') /\ (Queued(t) => Queued(t)')
        BY <2>1, <2>2, <3>2 DEF Timed, Queued
      <4>. QED BY <1>0, <2>1, <3>2, <4>1, TendedStays DEF CareInv
    <3>. QED BY <3>1, <3>2
  <2>. QED BY <2>4, <2>5
<1>2. CASE Enqueue(h)
  <2>1. /\ pc[h] = "enqueue" /\ pc'[h] = "idle" /\ UNCHANGED <<task, timers>>
        /\ Push(loc[h].task)
    BY <1>2, FinishStep DEF Enqueue, repoVars, memVars
  <2>2. (Owned /\ RegisteredOnly /\ Buried)'
    BY <1>0, <2>1, OwnedStays DEF Leased
  <2>3. ASSUME NEW t \in Tasks PROVE Tended(t)'
    <3>1. /\ Timed(t) => Timed(t)'
          /\ Queued(t) => Queued(t)'
      BY <1>0, <2>1, PushQueues DEF Timed
    <3>2. CASE t = loc[h].task
      <4>1. Queued(t)'
        BY <2>1, <3>2, PushQueues
      <4>2. Unfinished(t)' /\ Trailing(t)' => Timed(t)'
        BY <1>0, <2>1, <3>1 DEF Unfinished, Trailing, Tended, CareInv, OthersStay
      <4>. QED BY <4>1, <4>2 DEF Tended
    <3>3. CASE t # loc[h].task
      BY <1>0, <2>1, <3>1, <3>3, TendedStays DEF CareInv
    <3>. QED BY <3>2, <3>3
  <2>. QED BY <2>2, <2>3
<1>. QED BY <1>1, <1>2, HandleSteps

LEMMA CareRequest ==
  ASSUME Undisturbed, TypeOK, CareInv, NEW h \in Threads, NEW u \in Tasks,
         Request(h, u)
  PROVE  (Owned /\ RegisteredOnly /\ Buried)' /\ \A t \in Tasks : Tended(t)'
<1>0. Stays(h) /\ OthersStay(h)
  BY RequestStays DEF Stays
<1>1. /\ pc[h] = "idle" /\ pc'[h] \in {"save", "lock"}
      /\ UNCHANGED <<task, timers, stream>>
  BY CallStep
  DEF Request, CreateLookup, EnqueueRead, RetryRead, ReadFor, RunTask,
      Undisturbed, repoVars, queueVars, memVars
<1>2. (Owned /\ RegisteredOnly /\ Buried)'
  BY <1>0, <1>1, OwnedStays DEF Leased
<1>3. ASSUME NEW t \in Tasks PROVE Tended(t)'
  <2>1. (Timed(t) => Timed(t)') /\ (Queued(t) => Queued(t)')
    BY <1>1 DEF Timed, Queued
  <2>2. pc[h] \notin Active
    BY <1>1 DEF Active, Leased
  <2>. QED BY <1>0, <1>1, <2>1, <2>2, TendedStays DEF CareInv
<1>. QED BY <1>2, <1>3

LEMMA CareWork ==
  ASSUME TypeOK, CareInv, NEW w \in Threads, Work(w)
  PROVE  (Owned /\ RegisteredOnly /\ Buried)' /\ \A t \in Tasks : Tended(t)'
<1>0. Stays(w) /\ OthersStay(w)
  BY WorkStays DEF Stays
<1>1. pc[w] \in {"idle", "ack"} /\ UNCHANGED <<task, timers>>
  BY DEF Work, Dequeue, Claim, Ack, repoVars, memVars
<1>2. CASE Dequeue(w)
  <2>1. PICK m \in Message : m = Head(stream)
    BY <1>2, HeadTailProperties DEF Dequeue, TypeOK
  <2>2. pc'[w] = "lock" /\ loc'[w].task = m.task
    BY <1>2, <2>1, TakeStep DEF Dequeue
  <2>3. ASSUME NEW t \in Tasks, t # m.task, Queued(t) PROVE Queued(t)'
    <3>1. PICK i \in DOMAIN stream : stream[i].task = t
      BY <2>3 DEF Queued
    <3>2. PICK n \in Nat : n = Len(stream)
      BY DEF TypeOK
    <3>3. i \in 1..n /\ i # 1
      BY <2>1, <2>3, <3>1, <3>2 DEF TypeOK
    <3>4. stream' = Tail(stream) /\ stream # <<>>
      BY <1>2 DEF Dequeue
    <3>5. DOMAIN stream' = 1..(n - 1) /\ stream'[i - 1] = stream[(i - 1) + 1]
      BY <3>2, <3>3, <3>4, HeadTailProperties DEF TypeOK
    <3>6. i - 1 \in 1..(n - 1) /\ (i - 1) + 1 = i
      BY <3>2, <3>3
    <3>. QED BY <3>1, <3>5, <3>6 DEF Queued
  <2>4. ASSUME NEW t \in Tasks PROVE Tended(t)'
    <3>1. (Timed(t) => Timed(t)') /\ pc[w] \notin Active
      BY <1>1 DEF Timed, Active, Leased
    <3>2. CASE t = m.task
      <4>1. Unfinished(t)' /\ Trailing(t)' => Timed(t)'
        BY <1>0, <1>1, <2>2, <3>1 DEF Unfinished, Trailing, Tended, CareInv, OthersStay
      <4>. QED BY <2>2, <3>2, <4>1, HandledIsTended DEF Active
    <3>3. CASE t # m.task
      BY <1>0, <1>1, <2>2, <2>3, <3>1, <3>3, TendedStays DEF CareInv
    <3>. QED BY <3>2, <3>3
  <2>5. (Owned /\ RegisteredOnly /\ Buried)'
    BY <1>0, <1>1, <2>2, OwnedStays DEF Leased
  <2>. QED BY <2>4, <2>5
<1>3. CASE Claim(w) \/ Ack(w)
  <2>1. pc'[w] \in {"lock", "idle"} /\ UNCHANGED stream
    <3>1. CASE Claim(w)
      BY <3>1, TakeStep DEF Claim, TypeOK, queueVars
    <3>2. CASE Ack(w)
      BY <3>2, FinishStep DEF Ack
    <3>. QED BY <1>3, <3>1, <3>2
  <2>2. (Owned /\ RegisteredOnly /\ Buried)'
    BY <1>0, <1>1, <2>1, OwnedStays DEF Leased
  <2>3. ASSUME NEW t \in Tasks PROVE Tended(t)'
    <3>1. (Timed(t) => Timed(t)') /\ (Queued(t) => Queued(t)')
      BY <1>1, <2>1 DEF Timed, Queued
    <3>2. pc[w] \notin Active
      BY <1>1 DEF Active, Leased
    <3>. QED BY <1>0, <1>1, <2>1, <3>1, <3>2, TendedStays DEF CareInv
  <2>. QED BY <2>2, <2>3
<1>. QED BY <1>2, <1>3 DEF Work

LEMMA CareTimer ==
  ASSUME Uninterrupted, Undisturbed, TypeOK, CareInv, NEW p \in Procs,
         NEW u \in Tasks, RetryTimer(p, u)
  PROVE  (Owned /\ RegisteredOnly /\ Buried)' /\ \A t \in Tasks : Tended(t)'
<1>1. /\ UNCHANGED <<task, lock, processing, pc, loc>>
      /\ timers' = [timers EXCEPT ![p][u] = @ - 1]
      /\ ~Trailing(u) /\ Push(u)
  BY NoFaults DEF RetryTimer, Undisturbed, repoVars, threadVars
<1>2. (Owned /\ RegisteredOnly /\ Buried)'
  BY <1>1 DEF CareInv, Owned, RegisteredOnly, Buried
<1>3. ASSUME NEW t \in Tasks PROVE Tended(t)'
  <2>1. (Queued(t) => Queued(t)') /\ Queued(u)'
    BY <1>1, PushQueues
  <2>2. (Unfinished(t)' <=> Unfinished(t)) /\ (Trailing(t)' <=> Trailing(t))
        /\ (Handled(t)' <=> Handled(t))
    BY <1>1 DEF Unfinished, Trailing, Handled
  <2>3. t # u => (Timed(t) => Timed(t)')
    <3>1. t # u => \A q \in Procs : timers'[q][t] = timers[q][t]
      BY <1>1 DEF TypeOK
    <3>. QED BY <3>1 DEF Timed
  <2>. QED BY <1>1, <2>1, <2>2, <2>3 DEF Tended, CareInv
<1>. QED BY <1>2, <1>3

LEMMA CareNext ==
  ASSUME Uninterrupted, Undisturbed, TypeOK, RowInv, CareInv, [Next]_vars
  PROVE  CareInv'
<1>1. Recorded
  BY DEF Uninterrupted, Recorded
<1>2. Up' /\ \A p \in Procs : ~Restart(p)
  BY <1>1, UpNext DEF CareInv
<1>3. ASSUME NEW th \in Threads, Attempt(th) PROVE CareInv'
  BY <1>2, <1>3, OwnedAttempt, TendedAttempt DEF CareInv
<1>4. ASSUME NEW h \in Threads, Handle(h) PROVE CareInv'
  BY <1>2, <1>4, CareHandle DEF CareInv
<1>5. ASSUME NEW w \in Threads, Work(w) PROVE CareInv'
  BY <1>2, <1>5, CareWork DEF CareInv
<1>6. ASSUME NEW h \in Threads, NEW t \in Tasks, Request(h, t) PROVE CareInv'
  BY <1>2, <1>6, CareRequest DEF CareInv
<1>7. ASSUME NEW p \in Procs, NEW t \in Tasks, RetryTimer(p, t) PROVE CareInv'
  BY <1>2, <1>7, CareTimer DEF CareInv
<1>8. \A t \in Tasks : ~LeaseExpires(t)
  BY NoFaults DEF LeaseExpires, Owns, CareInv, Owned
<1>9. \A p \in Procs : ~StopWorker(p)
  BY NoFaults DEF StopWorker
<1>10. CASE UNCHANGED vars
  <2>1. UNCHANGED <<task, stream, lock, processing, timers, pc, loc>>
    BY <1>10 DEF vars, repoVars, queueVars, memVars, threadVars
  <2>2. (Owned /\ RegisteredOnly /\ Buried)'
    BY <2>1 DEF CareInv, Owned, RegisteredOnly, Buried
  <2>3. \A t \in Tasks : Tended(t)'
    BY <2>1 DEF CareInv, Tended, Unfinished, Trailing, Timed, Queued, Handled
  <2>. QED BY <1>2, <2>2, <2>3 DEF CareInv
<1>. QED
  BY <1>2, <1>3, <1>4, <1>5, <1>6, <1>7, <1>8, <1>9, <1>10 DEF Next

\* As long as nothing but an acknowledgement fails, an unfinished task always
\* has a message, a retry timer, or a goroutine that works on it: it is never
\* acknowledged away, however its redelivered messages and :run calls meet.
THEOREM NoTaskStrandedHolds ==
  ASSUME Undisturbed, Uninterrupted
  PROVE  Spec => []NoTaskStranded
<1>1. Init => CareInv
  BY BoundAssumption
  DEF Init, CareInv, Up, Owned, RegisteredOnly, Buried, Tended, Unfinished, NoRow
<1>2. TypeOK /\ RowInv /\ CareInv /\ [Next]_vars => (TypeOK /\ RowInv /\ CareInv)'
  BY RowNext, CareNext
<1>3. CareInv => NoTaskStranded
  BY DEF CareInv, Tended, Timed, Queued, Handled, Active, NoTaskStranded, Carried
<1>. QED BY <1>1, <1>2, <1>3, InitType, RowInit, PTL DEF Spec
============================================================================
