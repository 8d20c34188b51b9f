------------------------------ MODULE AgentProofs ------------------------------
(***************************************************************************)
(* The conversation of a run stays well-formed, a final answer has its     *)
(* evidence and a stop holds, for any number of iterations; and the panel  *)
(* comes to show what the steps of a run did; and what the path tools tell *)
(* the model is so.                                                        *)
(***************************************************************************)
EXTENDS ReactLoop, TurnStream, NetlistTools, Integers, FiniteSetTheorems, SequenceTheorems,
        WellFoundedInduction, TLAPS

Said == [role : {"user", "assistant", "tool"}, id : Int]

----------------------------------------------------------------------------
\* The conversation.

\* While a tool runs, its call is what was said last.
CallIsLast == pc = "running" =>
  Len(messages) > 0 /\ messages[Len(messages)] = [role |-> "assistant", id |-> i]
TalkTypes == messages \in Seq(Said) /\ i \in Int
TalkInv == TalkTypes /\ CallIsLast /\ CallsAnswered

\* Steps that say nothing.  Only the end of the tool's call, a stop, ends the
\* wait for its result.
Silent ==
  /\ messages' = messages
  /\ pc = "running" => pc' \in {"running", "cancelled"} /\ i' = i
  /\ pc' = "running" => pc = "running"
  /\ pc = "cancelled" => pc' = "cancelled"
  /\ i' \in {i, i + 1}
Says(role) ==
  /\ messages' = Append(messages, [role |-> role, id |-> i])
  /\ i' = i

LEMMA TalkSteps ==
  ASSUME [AgentNext]_agentVars
  PROVE  \/ Silent
         \/ (pc \in {"top", "thinking"} /\ Says("user") /\ pc' # "running")
         \/ (pc = "thinking" /\ Says("assistant") /\ pc' = "running")
         \/ (pc = "running" /\ Says("tool") /\ pc' = "top")
<1>1. CASE UNCHANGED agentVars
  BY <1>1 DEF agentVars, Silent
<1>2. CASE Stop
  BY <1>2 DEF Stop, Silent
<1>3. CASE Cancel \/ AskModel \/ ModelFails \/ PreviewReturns \/ PreviewThrows
  BY <1>3 DEF Cancel, AskModel, ModelFails, PreviewReturns, PreviewThrows, Silent
<1>4. CASE DecideRetry \/ DecideUnknown \/ DecideTooEarly
  BY <1>4 DEF DecideRetry, DecideUnknown, DecideTooEarly, Reproach, Says
<1>5. ASSUME NEW route \in Routes, DecideFinal(route) PROVE Silent
  BY <1>5 DEF DecideFinal, Conclude, Silent
<1>6. ASSUME NEW t \in Tools, NEW own \in BOOLEAN, DecideCall(t, own)
      PROVE  Silent \/ (pc = "thinking" /\ Says("assistant") /\ pc' = "running")
  BY <1>6 DEF DecideCall, Silent, Says
<1>7. CASE ToolReturns \/ ToolThrows
  BY <1>7 DEF ToolReturns, ToolThrows, Says
<1>8. CASE Exhaust
  BY <1>8 DEF Exhaust, Conclude, Says
<1> QED BY <1>1, <1>2, <1>3, <1>4, <1>5, <1>6, <1>7, <1>8 DEF AgentNext, Proceed

\* What is appended.
LEMMA SaysMore ==
  ASSUME TalkTypes, NEW role \in {"user", "assistant", "tool"}, Says(role)
  PROVE  /\ TalkTypes' /\ Len(messages) \in Nat /\ Len(messages') = Len(messages) + 1
         /\ messages'[Len(messages) + 1] = [role |-> role, id |-> i]
         /\ \A k \in 1..Len(messages) : messages'[k] = messages[k]
<1>1. [role |-> role, id |-> i] \in Said
  BY DEF TalkTypes, Said
<1> QED BY <1>1 DEF TalkTypes, Says

LEMMA TalkHolds == ASSUME TalkInv, [AgentNext]_agentVars PROVE TalkInv'
<1> USE DEF TalkInv
<1> DEFINE n == Len(messages)
<1>1. CASE Silent
  <2>1. TalkTypes'
    BY <1>1 DEF Silent, TalkTypes
  <2>2. CallIsLast'
    BY <1>1 DEF Silent, CallIsLast
  <2>3. CallsAnswered'
    BY <1>1 DEF Silent, CallsAnswered
  <2> QED BY <2>1, <2>2, <2>3
<1>2. ASSUME NEW role \in {"user", "assistant", "tool"}, Says(role),
             role # "tool" => pc \in {"top", "thinking"},
             role = "tool" => pc = "running",
             pc' = "running" <=> role = "assistant"
      PROVE  TalkInv'
  <2> DEFINE new == [role |-> role, id |-> i]
  <2>1. /\ TalkTypes' /\ n \in Nat /\ Len(messages') = n + 1 /\ messages'[n + 1] = new
        /\ \A k \in 1..n : messages'[k] = messages[k]
    BY <1>2, SaysMore
  <2>2. CallIsLast'
    BY <1>2, <2>1 DEF CallIsLast, Says
  <2>3. new.role = role /\ new.id = i
    OBVIOUS
  <2>4. ASSUME NEW k \in 1..n, k # n, messages'[k].role = "assistant"
        PROVE  messages'[k + 1] = [role |-> "tool", id |-> messages'[k].id]
    <3>1. k + 1 \in 1..n
      BY <2>1, <2>4
    <3> QED BY <2>1, <2>4, <3>1 DEF CallsAnswered
  <2>5. ASSUME n > 0, messages'[n].role = "assistant"
        PROVE  messages'[n + 1] = [role |-> "tool", id |-> messages'[n].id]
    <3>1. n \in 1..n /\ messages[n].role = "assistant"
      BY <2>1, <2>5
    <3>2. pc \in {"running", "cancelled"}
      BY <3>1 DEF CallsAnswered
    <3>3. role = "tool" /\ pc = "running"
      BY <1>2, <3>2
    <3>4. messages[n] = [role |-> "assistant", id |-> i]
      BY <3>3 DEF CallIsLast
    <3> QED BY <2>1, <3>1, <3>3, <3>4
  <2>6. ASSUME NEW k \in 1..n, messages'[k].role = "tool"
        PROVE  k > 1 /\ messages'[k - 1] = [role |-> "assistant", id |-> messages'[k].id]
    <3>1. k > 1 /\ messages[k - 1] = [role |-> "assistant", id |-> messages[k].id]
      BY <2>1, <2>6 DEF CallsAnswered
    <3>2. k - 1 \in 1..n
      BY <2>1, <3>1
    <3> QED BY <2>1, <3>1, <3>2
  <2>7. ASSUME role = "tool"
        PROVE  n + 1 > 1 /\ messages'[n] = [role |-> "assistant", id |-> i]
    <3>1. n > 0 /\ messages[n] = [role |-> "assistant", id |-> i]
      BY <1>2, <2>7 DEF CallIsLast
    <3>2. n \in 1..n
      BY <2>1, <3>1
    <3> QED BY <2>1, <3>1, <3>2
  <2>8. CallsAnswered'
    <3> SUFFICES ASSUME NEW k \in 1..(n + 1)
                 PROVE  /\ messages'[k].role = "assistant" =>
                             IF k = n + 1 THEN pc' \in {"running", "cancelled"}
                             ELSE messages'[k + 1] = [role |-> "tool", id |-> messages'[k].id]
                        /\ messages'[k].role = "tool" =>
                             k > 1 /\ messages'[k - 1] = [role |-> "assistant", id |-> messages'[k].id]
      BY <2>1 DEF CallsAnswered
    <3>1. CASE k = n + 1
      <4>1. messages'[k] = new /\ k - 1 = n
        BY <2>1, <3>1
      <4>2. messages'[k].role = "assistant" => pc' = "running"
        BY <1>2, <2>3, <4>1
      <4>3. messages'[k].role = "tool" =>
              k > 1 /\ messages'[k - 1] = [role |-> "assistant", id |-> messages'[k].id]
        BY <2>3, <2>7, <3>1, <4>1
      <4> QED BY <3>1, <4>2, <4>3
    <3>2. CASE k # n + 1
      <4>1. k \in 1..n
        BY <2>1, <3>2
      <4> QED BY <2>1, <2>4, <2>5, <2>6, <3>2, <4>1
    <3> QED BY <3>1, <3>2
  <2> QED BY <2>1, <2>2, <2>8
<1> QED BY <1>1, <1>2, TalkSteps

\* Every call of a tool has its one result right after it, for any number of
\* iterations, failing tools and a stop at any moment (reactLoopAgent.ts).
THEOREM CallsAnsweredHolds == AgentSpec => []CallsAnswered
<1>1. AgentInit => TalkInv
  BY DEF AgentInit, TalkInv, TalkTypes, CallIsLast, CallsAnswered
<1>2. TalkInv /\ [AgentNext]_agentVars => TalkInv'
  BY TalkHolds
<1>3. TalkInv => CallsAnswered
  BY DEF TalkInv
<1> QED BY <1>1, <1>2, <1>3, PTL DEF AgentSpec

----------------------------------------------------------------------------
\* The evidence.

\* A tool that was used is traced, or runs, or its input ended the run; and
\* what a final answer rests on is never taken away.
Traced(t) == t \in traces.success \cup traces.blocked
UsedIsTraced == pc \in {"failed", "cancelled"} \/ \A t \in used : Traced(t) \/ (pc = "running" /\ t = tool.name)
FinalIsTraced == result.final => \A t \in Required : Traced(t)
TraceTypes == traces = [success |-> traces.success, blocked |-> traces.blocked]
EvidenceInv == TraceTypes /\ UsedIsTraced /\ FinalIsTraced

\* What the task asks for is fixed, and traces grow.
LEMMA TracesGrow ==
  ASSUME TraceTypes, [AgentNext]_agentVars
  PROVE  task' = task /\ \A t : Traced(t) => Traced(t)'
<1>1. CASE UNCHANGED agentVars
  BY <1>1 DEF agentVars, Traced
<1>2. CASE ToolReturns
  BY <1>2 DEF ToolReturns, Traced, TraceTypes
<1>3. CASE ToolThrows
  BY <1>3 DEF ToolThrows, Traced, TraceTypes
<1>4. CASE AgentNext /\ ~ToolReturns /\ ~ToolThrows
  <2>1. task' = task /\ traces' = traces
    BY <1>4 DEF AgentNext, Proceed, Stop, Cancel, AskModel, ModelFails, DecideRetry, DecideUnknown,
       DecideTooEarly, Reproach, DecideFinal, DecideCall, Exhaust, PreviewReturns, PreviewThrows
  <2> QED BY <2>1 DEF Traced
<1> QED BY <1>1, <1>2, <1>3, <1>4

LEMMA RequiredFixed == ASSUME task' = task PROVE Required' = Required
BY DEF Required, Allowed, Available, Preferred, Withheld, TaskKind

\* A tool joins the used ones when it is called, and leaves "running" traced.
LEMMA UsedHolds == ASSUME TraceTypes, UsedIsTraced, [AgentNext]_agentVars PROVE UsedIsTraced'
<1> USE DEF UsedIsTraced
<1>1. \A t : Traced(t) => Traced(t)'
  BY TracesGrow
<1>2. CASE UNCHANGED <<pc, used, tool>>
  BY <1>1, <1>2
<1>3. CASE Stop \/ UNCHANGED agentVars
  BY <1>2, <1>3 DEF Stop, agentVars
<1>4. CASE Cancel \/ ModelFails \/ PreviewThrows
  BY <1>4 DEF Cancel, ModelFails, PreviewThrows
<1>5. CASE AskModel \/ DecideRetry \/ DecideUnknown \/ DecideTooEarly \/ Exhaust \/ PreviewReturns
  <2>1. pc \notin {"running", "failed", "cancelled"} /\ used' = used
    BY <1>5 DEF AskModel, DecideRetry, DecideUnknown, DecideTooEarly, Reproach, Exhaust,
       PreviewReturns
  <2> QED BY <1>1, <2>1
<1>6. ASSUME NEW route \in Routes, DecideFinal(route) PROVE UsedIsTraced'
  <2>1. pc = "thinking" /\ used' = used
    BY <1>6 DEF DecideFinal
  <2> QED BY <1>1, <2>1
<1>7. ASSUME NEW t \in Tools, NEW own \in BOOLEAN, DecideCall(t, own) PROVE UsedIsTraced'
  <2>1. /\ pc = "thinking" /\ used' = used \cup {t}
        /\ pc' = "failed" \/ (pc' = "running" /\ tool'.name = t)
    BY <1>7 DEF DecideCall
  <2> QED BY <1>1, <2>1
<1>8. CASE ToolReturns \/ ToolThrows
  <2>1. pc = "running" /\ used' = used
    BY <1>8 DEF ToolReturns, ToolThrows
  <2>2. tool.name \in (traces.success \cup traces.blocked)'
    BY <1>8 DEF ToolReturns, ToolThrows, TraceTypes
  <2>3. ASSUME NEW t \in used PROVE Traced(t)'
    BY <1>1, <2>1, <2>2, <2>3 DEF Traced
  <2> QED BY <2>1, <2>3
<1> QED BY <1>3, <1>4, <1>5, <1>6, <1>7, <1>8 DEF AgentNext, Proceed

\* A final answer is taken only when no required tool is missing.
LEMMA FinalHolds == ASSUME EvidenceInv, [AgentNext]_agentVars PROVE FinalIsTraced'
<1>1. Required' = Required /\ \A t : Traced(t) => Traced(t)'
  BY TracesGrow, RequiredFixed DEF EvidenceInv
<1>2. CASE result' = result
  BY <1>1, <1>2 DEF EvidenceInv, FinalIsTraced
<1>3. CASE Exhaust
  <2>1. result'.final = FALSE
    BY <1>3 DEF Exhaust, Conclude
  <2> QED BY <2>1 DEF FinalIsTraced
<1>4. ASSUME NEW route \in Routes, DecideFinal(route) PROVE FinalIsTraced'
  <2>1. pc = "thinking" /\ Required \subseteq used
    BY <1>4 DEF DecideFinal, Missing
  <2>2. \A t \in Required : Traced(t)
    BY <2>1 DEF EvidenceInv, UsedIsTraced
  <2> QED BY <1>1, <2>2 DEF FinalIsTraced
<1>5. CASE AgentNext /\ ~Exhaust /\ ~(\E route \in Routes : DecideFinal(route))
  <2>1. result' = result
    BY <1>5 DEF AgentNext, Proceed, Stop, Cancel, AskModel, ModelFails, DecideRetry, DecideUnknown,
       DecideTooEarly, Reproach, DecideCall, ToolReturns, ToolThrows, PreviewReturns, PreviewThrows
  <2> QED BY <1>2, <2>1
<1> QED BY <1>2, <1>3, <1>4, <1>5 DEF agentVars

LEMMA TypesHold == ASSUME TraceTypes, [AgentNext]_agentVars PROVE TraceTypes'
<1>1. CASE ToolReturns \/ ToolThrows
  BY <1>1 DEF ToolReturns, ToolThrows, TraceTypes
<1>2. CASE ~ToolReturns /\ ~ToolThrows
  <2>1. traces' = traces
    BY <1>2 DEF agentVars, AgentNext, Proceed, Stop, Cancel, AskModel, ModelFails, DecideRetry,
       DecideUnknown, DecideTooEarly, Reproach, DecideFinal, DecideCall, Exhaust, PreviewReturns,
       PreviewThrows
  <2> QED BY <2>1 DEF TraceTypes
<1> QED BY <1>1, <1>2

LEMMA EvidenceStarts == AgentInit => EvidenceInv
BY DEF AgentInit, EvidenceInv, TraceTypes, UsedIsTraced, FinalIsTraced

LEMMA EvidenceHolds == EvidenceInv /\ [AgentNext]_agentVars => EvidenceInv'
BY TypesHold, UsedHolds, FinalHolds DEF EvidenceInv

\* A final answer of an analysis or a draft rests on every required tool, which
\* succeeded or was shown as blocked: a tool that is still running, or whose
\* input was refused, cannot stand in for it (runReActLoop's missing tools).
THEOREM FinalHasEvidenceHolds == AgentSpec => []FinalHasEvidence
<1>1. EvidenceInv => FinalHasEvidence
  BY DEF EvidenceInv, FinalIsTraced, FinalHasEvidence, Traced
<1> QED BY <1>1, EvidenceStarts, EvidenceHolds, PTL DEF AgentSpec

----------------------------------------------------------------------------
\* The stop.

\* After the user's stop the loop only ends what it had begun: every place of it
\* that begins something asks ensureNotCancelled first (reactLoopAgent.ts).  The
\* fallback preview of a run that used up its iterations does not ask, and is
\* the one call that may still begin (unifiedReactAgent.ts).
THEOREM StopHoldsHolds == AgentSpec => StopHolds
<1> DEFINE Held == cancelled => /\ ~Begins("thinking") /\ ~Begins("running")
                                /\ Begins("previewing") => pc = "top" /\ i = MaxIterations
                                /\ preview' # preview => pc = "previewing"
                                /\ i' = i /\ used' = used
                                /\ plan' = plan /\ risk' = risk /\ context' = context
                                /\ traces'.success = traces.success
<1>1. TraceTypes /\ [AgentNext]_agentVars => [Held]_agentVars
  <2> SUFFICES ASSUME TraceTypes, AgentNext, cancelled PROVE Held
    OBVIOUS
  <2>1. CASE ToolThrows
    BY <2>1 DEF ToolThrows, TraceTypes, drafting, Begins
  <2>2. CASE ModelFails \/ Cancel \/ PreviewReturns \/ PreviewThrows
    BY <2>2 DEF ModelFails, Cancel, PreviewReturns, PreviewThrows, drafting, Begins
  <2>3. CASE Exhaust
    BY <2>3 DEF Exhaust, Conclude, drafting, Begins
  <2>4. ~Stop /\ ~AskModel /\ ~DecideRetry /\ ~DecideUnknown /\ ~DecideTooEarly /\ ~ToolReturns
        /\ (\A route \in Routes : ~DecideFinal(route))
        /\ (\A t \in Tools, own \in BOOLEAN : ~DecideCall(t, own))
    BY DEF Stop, AskModel, DecideRetry, DecideUnknown, DecideTooEarly, ToolReturns, DecideFinal,
       DecideCall
  <2> QED BY <2>1, <2>2, <2>3, <2>4 DEF AgentNext, Proceed
<1>2. EvidenceInv => TraceTypes
  BY DEF EvidenceInv
<1> QED BY <1>1, <1>2, EvidenceStarts, EvidenceHolds, PTL DEF AgentSpec, StopHolds

----------------------------------------------------------------------------
\* How a turn is told.

Texts == {"r", "t", "why", "working", "call", "result", "running", "done", "failed", "skipped",
          "none", "plain", "decision", "asking", "tool", "over", "ended"}
Step == [thought : Seq(Texts), tools : Seq(Texts), seen : Nat, status : Texts]
EntryRecord == [id : Nat, thought : Seq(Texts), tools : Seq(Texts), seen : Nat]

\* A set of numbers that is not empty has a least one.
LEMMA LeastNumber ==
  ASSUME NEW T \in SUBSET Nat, T # {}
  PROVE  \E x \in T : \A y \in T : x <= y
<1>1. PICK x \in T : \A y \in T : <<y, x>> \notin OpToRel(<, Nat)
  BY NatLessThanWellFounded, WFMin
<1>2. \A y \in T : ~(y < x)
  BY <1>1 DEF OpToRel
<1> QED BY <1>2

----------------------------------------------------------------------------
\* The entries of a list of steps.

\* es shows the first n steps of list: those that have something to show, in
\* order, and nothing else.
Collected(es, list, n) ==
  /\ es \in Seq(EntryRecord) /\ Len(es) <= n
  /\ \A j \in 1..Len(es) : es[j].id \in 1..n /\ es[j] = Entry(list, es[j].id) /\ HasContent(list[es[j].id])
  /\ \A j, k \in 1..Len(es) : j < k => es[j].id < es[k].id
  /\ \A k \in 1..n : HasContent(list[k]) => \E j \in 1..Len(es) : es[j].id = k
  /\ n > 0 /\ Len(es) = n => es[n].id = n
  /\ n > 0 /\ HasContent(list[n]) => Len(es) > 0 /\ es[Len(es)] = Entry(list, n)

LEMMA CollectedGrows ==
  ASSUME NEW list \in Seq(Step), NEW n \in Nat, n + 1 <= Len(list), NEW es, Collected(es, list, n)
  PROVE  Collected(IF HasContent(list[n + 1]) THEN Append(es, Entry(list, n + 1)) ELSE es, list, n + 1)
<1>1. es \in Seq(EntryRecord) /\ Len(es) \in Nat /\ Len(es) <= n
  BY DEF Collected
<1>2. CASE HasContent(list[n + 1])
  <2> DEFINE e == Entry(list, n + 1)
             new == Append(es, e)
  <2>1. e \in EntryRecord /\ e.id = n + 1
    <3>1. list[n + 1] \in Step
      BY ElementOfSeq
    <3> QED BY <3>1 DEF Entry, Step, EntryRecord
  <2>2. /\ new \in Seq(EntryRecord) /\ Len(new) = Len(es) + 1
        /\ \A j \in 1..Len(es) : new[j] = es[j]
        /\ new[Len(es) + 1] = e
    BY <1>1, <2>1, AppendProperties
  <2>3. \A k \in 1..n : HasContent(list[k]) => \E j \in 1..Len(new) : new[j].id = k
    <3> SUFFICES ASSUME NEW k \in 1..n, HasContent(list[k]) PROVE \E j \in 1..Len(new) : new[j].id = k
      OBVIOUS
    <3>1. PICK j \in 1..Len(es) : es[j].id = k
      BY DEF Collected
    <3>2. j \in 1..Len(new) /\ new[j] = es[j]
      BY <1>1, <2>2
    <3> QED BY <3>1, <3>2
  <2> HIDE DEF new
  <2>4. \A j \in 1..Len(new) : new[j].id \in 1..(n + 1) /\ new[j] = Entry(list, new[j].id) /\ HasContent(list[new[j].id])
    <3> TAKE j \in 1..Len(new)
    <3>1. CASE j = Len(es) + 1
      BY <1>2, <2>1, <2>2, <3>1
    <3>2. CASE j # Len(es) + 1
      <4>1. j \in 1..Len(es) /\ new[j] = es[j]
        BY <1>1, <2>2, <3>2
      <4> QED BY <4>1 DEF Collected
    <3> QED BY <3>1, <3>2
  <2>5. \A j, k \in 1..Len(new) : j < k => new[j].id < new[k].id
    <3> SUFFICES ASSUME NEW j \in 1..Len(new), NEW k \in 1..Len(new), j < k PROVE new[j].id < new[k].id
      OBVIOUS
    <3>1. j \in 1..Len(es) /\ new[j] = es[j] /\ es[j].id \in 1..n
      BY <1>1, <2>2 DEF Collected
    <3>2. CASE k = Len(es) + 1
      BY <2>1, <2>2, <3>1, <3>2
    <3>3. CASE k # Len(es) + 1
      <4>1. k \in 1..Len(es) /\ new[k] = es[k]
        BY <1>1, <2>2, <3>3
      <4> QED BY <3>1, <4>1 DEF Collected
    <3> QED BY <3>2, <3>3
  <2>6. \E j \in 1..Len(new) : new[j].id = n + 1
    BY <1>1, <2>1, <2>2
  <2>7. Len(new) \in Nat /\ Len(new) <= n + 1 /\ Len(new) > 0 /\ new[Len(new)] = e
    BY <1>1, <2>2
  <2>8. \A k \in 1..(n + 1) : HasContent(list[k]) => \E j \in 1..Len(new) : new[j].id = k
    <3> TAKE k \in 1..(n + 1)
    <3>1. k = n + 1 \/ k \in 1..n
      OBVIOUS
    <3> HIDE DEF e
    <3> QED BY <2>3, <2>6, <3>1
  <2>9. Len(new) = n + 1 => new[n + 1].id = n + 1
    BY <2>1, <2>7
  <2>10. Collected(new, list, n + 1)
    <3>1. n + 1 \in Nat
      OBVIOUS
    <3> QED BY <2>2, <2>4, <2>5, <2>7, <2>8, <2>9, <3>1 DEF Collected
  <2> QED BY <1>2, <2>10 DEF new
<1>3. CASE ~HasContent(list[n + 1])
  BY <1>1, <1>3 DEF Collected
<1> QED BY <1>2, <1>3

\* The entries of a whole list, by induction on how far it is read.
LEMMA CollectsAll ==
  ASSUME NEW list \in Seq(Step)
  PROVE  Collected(CollectStepEntries(list), list, Len(list))
<1> DEFINE Top == Len(list)
           Next1(f, k) == IF k = 0 THEN <<>>
                          ELSE IF HasContent(list[k]) THEN Append(f[k - 1], Entry(list, k)) ELSE f[k - 1]
           Fill(f, k) == \A p \in 0..k : f[p] = Next1(f, p)
           Up == {k \in 0..Top : \E f : f = [p \in 0..k |-> f[p]] /\ Fill(f, k)}
           Bad == (0..Top) \ Up
<1>1. Top \in Nat
  OBVIOUS
<1> HIDE DEF Top
<1>2. 0 \in Up
  <2> DEFINE f == [p \in 0..0 |-> <<>>]
  <2>1. f = [p \in 0..0 |-> f[p]] /\ Fill(f, 0)
    OBVIOUS
  <2> HIDE DEF Fill, f
  <2> QED BY <1>1, <2>1
<1>3. ASSUME NEW k \in Up, k + 1 \in 0..Top PROVE k + 1 \in Up
  <2>1. PICK f : f = [p \in 0..k |-> f[p]] /\ Fill(f, k)
    OBVIOUS
  <2> DEFINE g == [p \in 0..(k + 1) |-> IF p = k + 1 THEN Next1(f, k + 1) ELSE f[p]]
  <2>2. \A p \in 0..k : g[p] = f[p]
    BY <1>1
  <2>3. g[k + 1] = Next1(f, k + 1) /\ k + 1 # 0 /\ (k + 1) - 1 = k /\ k \in 0..k
    BY <1>1
  <2> HIDE DEF Next1
  <2>4. g = [p \in 0..(k + 1) |-> g[p]]
    OBVIOUS
  <2> HIDE DEF g
  <2>5. Next1(g, k + 1) = Next1(f, k + 1)
    BY <2>2, <2>3 DEF Next1
  <2>6. \A p \in 0..k : Next1(g, p) = Next1(f, p)
    <3> TAKE p \in 0..k
    <3>1. p = 0 \/ p - 1 \in 0..k
      BY <1>1
    <3> QED BY <2>2, <3>1 DEF Next1
  <2>7. Fill(g, k + 1)
    <3> TAKE p \in 0..(k + 1)
    <3>1. CASE p = k + 1
      BY <2>3, <2>5, <3>1
    <3>2. CASE p # k + 1
      <4>1. p \in 0..k
        BY <1>1, <3>2
      <4> QED BY <2>1, <2>2, <2>6, <4>1
    <3> QED BY <3>1, <3>2
  <2> HIDE DEF Fill
  <2> QED BY <1>3, <2>4, <2>7
<1>4. Top \in Up
  <2> SUFFICES ASSUME Bad # {} PROVE FALSE
    BY <1>1
  <2>0. Bad \in SUBSET Nat
    BY <1>1
  <2>1. PICK k \in Bad : \A n \in Bad : k <= n
    <3> HIDE DEF Bad
    <3> QED BY <2>0, LeastNumber
  <2>2. k # 0 /\ k - 1 \in 0..Top /\ k - 1 \notin Bad /\ (k - 1) + 1 = k
    BY <1>1, <1>2, <2>1
  <2> QED BY <1>3, <2>2
<1>5. PICK f : f = [k \in 0..Top |-> f[k]] /\ Fill(f, Top)
  BY <1>4
<1>6. f = [k \in 0..Top |-> Next1(f, k)]
  <2> HIDE DEF Next1
  <2> QED BY <1>5
<1> DEFINE upTo == CHOOSE h : h = [k \in 0..Top |-> Next1(h, k)]
<1>7. upTo = [k \in 0..Top |-> Next1(upTo, k)]
  <2> HIDE DEF Next1
  <2> QED BY <1>6
<1>8. CollectStepEntries(list) = upTo[Top]
  BY DEF CollectStepEntries, Top
<1> HIDE DEF upTo
<1> DEFINE Good == {k \in 0..Top : Collected(upTo[k], list, k)}
           Rest == (0..Top) \ Good
<1>9. 0 \in Good
  <2>1. upTo[0] = <<>>
    BY <1>1, <1>7
  <2>2. <<>> \in Seq(EntryRecord) /\ Len(<<>>) = 0
    OBVIOUS
  <2>3. Collected(<<>>, list, 0)
    BY <2>2 DEF Collected
  <2> QED BY <1>1, <2>1, <2>3
<1>10. ASSUME NEW k \in Good, k + 1 \in 0..Top PROVE k + 1 \in Good
  <2>1. upTo[k + 1] = IF HasContent(list[k + 1]) THEN Append(upTo[k], Entry(list, k + 1)) ELSE upTo[k]
    <3>1. k + 1 # 0 /\ (k + 1) - 1 = k
      BY <1>1
    <3> QED BY <1>7, <1>10, <3>1
  <2> QED BY <1>1, <1>10, <2>1, CollectedGrows DEF Top
<1>11. Top \in Good
  <2> SUFFICES ASSUME Rest # {} PROVE FALSE
    BY <1>1
  <2>0. Rest \in SUBSET Nat
    BY <1>1
  <2>1. PICK k \in Rest : \A n \in Rest : k <= n
    <3> HIDE DEF Rest
    <3> QED BY <2>0, LeastNumber
  <2>2. k # 0 /\ k - 1 \in 0..Top /\ k - 1 \notin Rest /\ (k - 1) + 1 = k
    BY <1>1, <1>9, <2>1
  <2> QED BY <1>10, <2>2
<1> QED BY <1>8, <1>11 DEF Top

----------------------------------------------------------------------------
\* What the panel shows.

Screen == [entries : Seq(EntryRecord), source : [count : Nat, tail : Seq(Step)]]
\* The entries of a screen that was rendered last with m steps.  The steps
\* before the last one were final by then: the ones with something to show
\* are there.  The last one is shown as it was.  There are m entries only if
\* the last one is that step's: an entry may be there twice, or be one whose
\* step has nothing to show any more.
Orderly(es, list, m) ==
  /\ es \in Seq(EntryRecord) /\ Len(es) <= m
  /\ \A j \in 1..Len(es) : es[j].id \in 1..m
  /\ \A j, k \in 1..Len(es) : j < k => es[j].id <= es[k].id
  /\ m > 0 /\ Len(es) = m => es[m].id = m
  /\ \A k \in 1..(m - 1) : HasContent(list[k]) => \E j \in 1..Len(es) : es[j].id = k
UpToDate(es, list) ==
  LET m == Len(list) IN HasContent(list[m]) => Len(es) > 0 /\ es[Len(es)] = Entry(list, m)
ShowsLast(scr) ==
  LET tail == scr.source.tail
      m == scr.source.count
      n == Len(scr.entries)
  IN m > 0 => /\ tail # <<>>
              /\ HasContent(Last(tail)) =>
                   n > 0 /\ scr.entries[n] = [Entry(tail, Len(tail)) EXCEPT !.id = m]
ShownBy(scr, list) ==
  scr \in Screen /\ Orderly(scr.entries, list, scr.source.count) /\ ShowsLast(scr)

\* part is what a handler renders of list: at most its last step differs.
Prefix(part, list) ==
  /\ part \in Seq(Step) /\ part # <<>> /\ Len(part) <= Len(list)
  /\ \A k \in 1..(Len(part) - 1) : part[k] = list[k]

LEMMA EntryTyped ==
  ASSUME NEW list \in Seq(Step), NEW k \in 1..Len(list)
  PROVE  Entry(list, k) \in EntryRecord /\ Entry(list, k).id = k
<1>1. list[k] \in Step
  BY ElementOfSeq
<1> QED BY <1>1 DEF Entry, Step, EntryRecord

LEMMA MergedIsOrderly ==
  ASSUME NEW es, NEW list \in Seq(Step), NEW part, Prefix(part, list),
         NEW m \in Nat, Orderly(es, list, m), m <= Len(part)
  PROVE  /\ Orderly(MergeStepEntries(es, part), list, Len(part))
         /\ UpToDate(MergeStepEntries(es, part), part)
<1> DEFINE n == Len(part)
           e == Entry(part, n)
           new == IF HasContent(part[n]) THEN <<e>> ELSE <<>>
           merged == MergeStepEntries(es, part)
           kept == CollectStepEntries(part)
<1>1. /\ n \in Nat \ {0} /\ part \in Seq(Step) /\ n <= Len(list)
      /\ \A k \in 1..(n - 1) : part[k] = list[k]
  BY DEF Prefix
<1>2. es \in Seq(EntryRecord) /\ Len(es) \in Nat /\ Len(es) <= m
  BY DEF Orderly
<1>3. e \in EntryRecord /\ e.id = n
  BY <1>1, EntryTyped
<1>4. Orderly(kept, list, n) /\ UpToDate(kept, part)
  <2>1. Collected(kept, part, n)
    BY <1>1, CollectsAll
  <2> HIDE DEF kept
  <2>2. \A j, k \in 1..Len(kept) : j < k => kept[j].id <= kept[k].id
    BY <2>1 DEF Collected
  <2>3. \A k \in 1..(n - 1) : HasContent(list[k]) => \E j \in 1..Len(kept) : kept[j].id = k
    <3> SUFFICES ASSUME NEW k \in 1..(n - 1), HasContent(list[k]) PROVE \E j \in 1..Len(kept) : kept[j].id = k
      OBVIOUS
    <3>1. k \in 1..n /\ HasContent(part[k])
      BY <1>1
    <3> HIDE DEF n
    <3> QED BY <2>1, <3>1 DEF Collected
  <2> QED BY <1>1, <2>1, <2>2, <2>3 DEF Collected, Orderly, UpToDate
<1> HIDE DEF e
<1>5. new \in Seq(EntryRecord) /\ (new = <<>> \/ new = <<e>>) /\ (HasContent(part[n]) => new = <<e>>)
  BY <1>3
<1>6. ASSUME NEW front \in Seq(EntryRecord), merged = front \o new, Len(front) <= n - 1,
             \A j \in 1..Len(front) : front[j].id \in 1..n,
             \A j, k \in 1..Len(front) : j < k => front[j].id <= front[k].id,
             \A k \in 1..(n - 1) : HasContent(list[k]) => \E j \in 1..Len(front) : front[j].id = k
      PROVE  Orderly(merged, list, n) /\ UpToDate(merged, part)
  <2> HIDE DEF new, merged
  <2>1. CASE new = <<>>
    <3>1. merged = front
      BY <1>6, <2>1, ConcatEmptySeq
    <3>2. ~HasContent(part[n])
      BY <1>5, <2>1
    <3> QED BY <1>1, <1>6, <3>1, <3>2 DEF Orderly, UpToDate
  <2>2. CASE new = <<e>>
    <3>1. merged = Append(front, e)
      BY <1>3, <1>6, <2>2, AppendIsConcat
    <3>2. /\ merged \in Seq(EntryRecord) /\ Len(merged) = Len(front) + 1
          /\ \A j \in 1..Len(front) : merged[j] = front[j]
          /\ merged[Len(front) + 1] = e
      BY <1>3, <3>1, AppendProperties
    <3>3. \A j \in 1..Len(merged) : merged[j].id \in 1..n
      <4> TAKE j \in 1..Len(merged)
      <4>1. j = Len(front) + 1 \/ j \in 1..Len(front)
        BY <3>2
      <4> QED BY <1>1, <1>3, <1>6, <3>2, <4>1
    <3>4. \A j, k \in 1..Len(merged) : j < k => merged[j].id <= merged[k].id
      <4> SUFFICES ASSUME NEW j \in 1..Len(merged), NEW k \in 1..Len(merged), j < k PROVE merged[j].id <= merged[k].id
        OBVIOUS
      <4>1. j \in 1..Len(front) /\ (k = Len(front) + 1 \/ k \in 1..Len(front))
        BY <3>2
      <4> QED BY <1>1, <1>3, <1>6, <3>2, <4>1
    <3>5. \A k \in 1..(n - 1) : HasContent(list[k]) => \E j \in 1..Len(merged) : merged[j].id = k
      <4> SUFFICES ASSUME NEW k \in 1..(n - 1), HasContent(list[k]) PROVE \E j \in 1..Len(merged) : merged[j].id = k
        OBVIOUS
      <4>1. PICK j \in 1..Len(front) : front[j].id = k
        BY <1>6
      <4>2. j \in 1..Len(merged) /\ merged[j] = front[j]
        BY <3>2
      <4> QED BY <4>1, <4>2
    <3>6. Len(merged) <= n /\ merged[Len(merged)] = e /\ Len(merged) > 0
      BY <1>1, <1>6, <3>2
    <3>7. Orderly(merged, list, n)
      BY <1>1, <1>3, <3>2, <3>3, <3>4, <3>5, <3>6 DEF Orderly
    <3>8. UpToDate(merged, part)
      BY <3>6 DEF UpToDate, e
    <3> QED BY <3>7, <3>8
  <2> QED BY <1>5, <2>1, <2>2
<1>7. CASE es # <<>> /\ n = Len(es) /\ Last(es).id = n
  <2> DEFINE front == Front(es)
  <2>1. merged = front \o new
    BY <1>1, <1>7 DEF MergeStepEntries, e
  <2>2. m = n
    BY <1>1, <1>2, <1>7
  <2>3. /\ front \in Seq(EntryRecord) /\ Len(front) = n - 1
        /\ \A j \in 1..(n - 1) : front[j] = es[j]
    <3>1. \A j \in 1..(n - 1) : es[j] \in EntryRecord
      BY <1>1, <1>2, <1>7, ElementOfSeq
    <3>2. front = SubSeq(es, 1, n - 1)
      BY <1>7 DEF Front
    <3>3. /\ SubSeq(es, 1, n - 1) \in Seq(EntryRecord)
          /\ Len(SubSeq(es, 1, n - 1)) = IF 1 <= n - 1 THEN (n - 1) - 1 + 1 ELSE 0
          /\ \A j \in 1..((n - 1) - 1 + 1) : SubSeq(es, 1, n - 1)[j] = es[1 + j - 1]
      <4> HIDE DEF n
      <4> QED BY <1>1, <3>1, SubSeqProperties
    <3> HIDE DEF front, n
    <3> QED BY <1>1, <3>2, <3>3
  <2> HIDE DEF front, merged, new
  <2>4. \A j \in 1..Len(front) : front[j].id \in 1..n
    BY <1>1, <1>7, <2>2, <2>3 DEF Orderly
  <2>5. \A j, k \in 1..Len(front) : j < k => front[j].id <= front[k].id
    BY <1>1, <1>7, <2>2, <2>3 DEF Orderly
  <2>6. \A k \in 1..(n - 1) : HasContent(list[k]) => \E j \in 1..Len(front) : front[j].id = k
    <3> SUFFICES ASSUME NEW k \in 1..(n - 1), HasContent(list[k]) PROVE \E j \in 1..Len(front) : front[j].id = k
      OBVIOUS
    <3>1. PICK j \in 1..Len(es) : es[j].id = k
      BY <2>2 DEF Orderly
    <3>2. j # n
      BY <1>1, <1>7, <3>1 DEF Last
    <3>3. j \in 1..(n - 1)
      BY <1>1, <1>7, <3>2
    <3> QED BY <2>3, <3>1, <3>3
  <2>7. Len(front) <= n - 1
    BY <1>1, <2>3
  <2>8. Orderly(merged, list, n) /\ UpToDate(merged, part)
    BY <1>6, <2>1, <2>3, <2>4, <2>5, <2>6, <2>7
  <2> QED BY <2>8 DEF merged
<1>8. CASE es # <<>> /\ n = Len(es) + 1
  <2>1. merged = es \o new
    BY <1>1, <1>8 DEF MergeStepEntries, e
  <2> HIDE DEF merged, new
  <2>2. \A j \in 1..Len(es) : es[j].id \in 1..n
    BY <1>1 DEF Orderly
  <2>3. \A j, k \in 1..Len(es) : j < k => es[j].id <= es[k].id
    BY DEF Orderly
  <2>4. m = n \/ m = n - 1
    BY <1>1, <1>2, <1>8
  <2>5. \A k \in 1..(n - 1) : HasContent(list[k]) => \E j \in 1..Len(es) : es[j].id = k
    <3> SUFFICES ASSUME NEW k \in 1..(n - 1), HasContent(list[k]) PROVE \E j \in 1..Len(es) : es[j].id = k
      OBVIOUS
    <3>1. CASE k \in 1..(m - 1)
      BY <3>1 DEF Orderly
    <3>2. CASE k \notin 1..(m - 1)
      <4>1. m = n - 1 /\ k = m /\ Len(es) = m /\ m > 0
        BY <1>1, <1>8, <2>4, <3>2
      <4> QED BY <4>1 DEF Orderly
    <3> QED BY <3>1, <3>2
  <2>6. Len(es) <= n - 1
    BY <1>1, <1>8
  <2>7. Orderly(merged, list, n) /\ UpToDate(merged, part)
    BY <1>2, <1>6, <2>1, <2>2, <2>3, <2>5, <2>6
  <2> QED BY <2>7 DEF merged
<1>9. CASE ~(es # <<>> /\ n = Len(es) /\ Last(es).id = n) /\ ~(es # <<>> /\ n = Len(es) + 1)
  <2>1. merged = kept
    BY <1>1, <1>9 DEF MergeStepEntries
  <2> QED BY <1>4, <2>1
<1> QED BY <1>7, <1>8, <1>9

LEMMA SourceTyped ==
  ASSUME NEW part \in Seq(Step), part # <<>>
  PROVE  LET tail == Source(part).tail
         IN /\ Source(part) \in [count : Nat, tail : Seq(Step)] /\ Source(part).count = Len(part)
            /\ tail # <<>> /\ Len(tail) > 0 /\ tail[Len(tail)] = part[Len(part)]
<1> DEFINE n == Len(part)
           from == IF n > 1 THEN n - 1 ELSE 1
           tail == SubSeq(part, from, n)
<1>1. n \in Nat \ {0} /\ from \in Int /\ from >= 1 /\ from <= n
  OBVIOUS
<1>2. \A k \in from..n : part[k] \in Step
  BY <1>1, ElementOfSeq
<1> HIDE DEF n, from
<1>3. /\ tail \in Seq(Step) /\ Len(tail) = n - from + 1
      /\ \A k \in 1..(n - from + 1) : tail[k] = part[from + k - 1]
  BY <1>1, <1>2, SubSeqProperties
<1> HIDE DEF tail
<1>4. Len(tail) > 0 /\ tail # <<>> /\ tail[Len(tail)] = part[n]
  BY <1>1, <1>3
<1>5. Source(part) = [count |-> n, tail |-> tail]
  BY DEF Source, n, from, tail
<1> QED BY <1>1, <1>3, <1>4, <1>5 DEF n

LEMMA PatchedShows ==
  ASSUME NEW list \in Seq(Step), NEW scr, ShownBy(scr, list),
         NEW part, Prefix(part, list), scr.source.count <= Len(part)
  PROVE  LET new == Patched(scr, part)
         IN ShownBy(new, list) /\ new.source.count = Len(part) /\ UpToDate(new.entries, part)
<1> DEFINE n == Len(part)
           m == scr.source.count
           src == Source(part)
           merged == MergeStepEntries(scr.entries, part)
<1>1. part \in Seq(Step) /\ part # <<>> /\ n \in Nat \ {0} /\ m \in Nat /\ scr \in Screen
  BY DEF Prefix, ShownBy, Screen
<1>2. /\ src \in [count : Nat, tail : Seq(Step)] /\ src.count = n
      /\ src.tail # <<>> /\ Len(src.tail) > 0 /\ src.tail[Len(src.tail)] = part[n]
  BY <1>1, SourceTyped
<1> HIDE DEF src
<1>3. [Entry(src.tail, Len(src.tail)) EXCEPT !.id = n] = Entry(part, n)
  BY <1>2 DEF Entry
<1>4. CASE src = scr.source
  <2>1. Patched(scr, part) = scr
    BY <1>4 DEF Patched, src
  <2>2. UpToDate(scr.entries, part)
    BY <1>1, <1>2, <1>3, <1>4 DEF ShownBy, ShowsLast, UpToDate, Last
  <2> QED BY <1>2, <1>4, <2>1, <2>2
<1>5. CASE src # scr.source
  <2>1. Patched(scr, part) = [entries |-> merged, source |-> src]
    BY <1>5 DEF Patched, src
  <2>2. Orderly(merged, list, n) /\ UpToDate(merged, part)
    BY <1>1, MergedIsOrderly DEF ShownBy
  <2> HIDE DEF merged
  <2> DEFINE new == [entries |-> merged, source |-> src]
  <2>3. new \in Screen
    BY <1>2, <2>2 DEF Orderly, Screen
  <2>4. ShowsLast(new)
    BY <1>2, <1>3, <2>2 DEF ShowsLast, UpToDate, Last
  <2> QED BY <1>2, <2>1, <2>2, <2>3, <2>4 DEF ShownBy
<1> QED BY <1>4, <1>5

----------------------------------------------------------------------------
\* What a handler works on: the variables and the clocks as one record.

Payload == [text : Nat, reasoning : Nat, withSteps : BOOLEAN, whole : BOOLEAN]
StreamRecord == [form : Texts, reasoning : Nat, heldReasoning : Nat, text : Nat, heldText : Nat]
Signatures == {<<>>} \cup
  (Nat \X Nat \X Nat \X ({<<>>, <<0>>} \cup (Nat \X Texts \X Nat \X Nat \X Nat)))
StreamWorld ==
  [phase : Texts, steps : Seq(Step), stream : StreamRecord, pending : Seq(Payload), emitted : Signatures,
   message : [body : Nat, steps : Seq(Step)], due : BOOLEAN, screen : Screen,
   recent : BOOLEAN, prompt : BOOLEAN, again : BOOLEAN]

\* The message has the steps of the loop, the last one maybe otherwise, and
\* the screen those of the message as it was.
StreamGood(w) ==
  /\ w \in StreamWorld /\ w.steps # <<>>
  /\ Prefix(w.message.steps, w.steps)
  /\ ShownBy(w.screen, w.steps) /\ w.screen.source.count <= Len(w.message.steps)
Told(w) == w.pending = <<>> /\ w.message.steps = w.steps

LEMMA StreamFields ==
  ASSUME NEW w \in StreamWorld
  PROVE  /\ w.phase \in Texts /\ w.steps \in Seq(Step) /\ w.stream \in StreamRecord /\ w.pending \in Seq(Payload)
         /\ w.emitted \in Signatures /\ w.message \in [body : Nat, steps : Seq(Step)] /\ w.due \in BOOLEAN
         /\ w.screen \in Screen /\ w.recent \in BOOLEAN /\ w.prompt \in BOOLEAN /\ w.again \in BOOLEAN
BY DEF StreamWorld

\* What changes neither message nor screen, and no step before the last one.
LEMMA LastStepChanges ==
  ASSUME NEW w, StreamGood(w), NEW v \in StreamWorld, v.message = w.message, v.screen = w.screen,
         Len(v.steps) >= Len(w.steps), \A k \in 1..(Len(w.steps) - 1) : v.steps[k] = w.steps[k]
  PROVE  StreamGood(v)
<1> DEFINE m == w.screen.source.count
           told == w.message.steps
<1>1. /\ w.steps \in Seq(Step) /\ v.steps \in Seq(Step) /\ w.screen \in Screen /\ told \in Seq(Step)
      /\ Len(w.steps) \in Nat /\ Len(v.steps) \in Nat /\ Len(w.steps) > 0 /\ Len(told) \in Nat
  BY StreamFields DEF StreamGood, Prefix
<1>2. Len(told) <= Len(w.steps) /\ m <= Len(told) /\ m \in Nat
  BY <1>1 DEF StreamGood, Prefix, Screen
<1>3. v.steps # <<>>
  BY <1>1
<1>4. Prefix(told, v.steps)
  BY <1>1, <1>2 DEF StreamGood, Prefix
<1>5. ShownBy(w.screen, v.steps)
  <2>1. Orderly(w.screen.entries, v.steps, m)
    <3>1. \A k \in 1..(m - 1) : v.steps[k] = w.steps[k]
      BY <1>1, <1>2
    <3>2. Orderly(w.screen.entries, w.steps, m)
      BY DEF StreamGood, ShownBy
    <3> HIDE DEF m
    <3> QED BY <3>1, <3>2 DEF Orderly, HasContent
  <2> QED BY <2>1 DEF StreamGood, ShownBy
<1> QED BY <1>3, <1>4, <1>5 DEF StreamGood

----------------------------------------------------------------------------
\* The runtime.

Keeps(v, w) == v.phase = w.phase /\ v.steps = w.steps /\ v.stream = w.stream

LEMMA VisibleGood ==
  ASSUME NEW w, StreamGood(w)
  PROVE  /\ StreamGood(Visible(w)) /\ Keeps(Visible(w), w)
         /\ Visible(w).pending = w.pending /\ Visible(w).message = w.message
<1>1. w \in StreamWorld /\ w.steps \in Seq(Step)
  BY StreamFields DEF StreamGood
<1>2. CASE w.prompt /\ ~w.due
  <2> DEFINE scr == Patched(w.screen, w.message.steps)
  <2>1. ShownBy(scr, w.steps) /\ scr.source.count = Len(w.message.steps) /\ scr \in Screen
    BY <1>1, PatchedShows DEF StreamGood, ShownBy
  <2>2. Visible(w) = [w EXCEPT !.screen = scr, !.prompt = FALSE]
    BY <1>2 DEF Visible
  <2> HIDE DEF scr
  <2> DEFINE v == [w EXCEPT !.screen = scr, !.prompt = FALSE]
  <2>3. v \in StreamWorld /\ Keeps(v, w) /\ v.pending = w.pending /\ v.message = w.message /\ v.screen = scr
    BY <1>1, <2>1 DEF Keeps, StreamWorld
  <2>4. Len(w.message.steps) \in Nat
    BY DEF StreamGood, Prefix
  <2> HIDE DEF v
  <2>5. StreamGood(v)
    BY <2>1, <2>3, <2>4 DEF StreamGood, Keeps
  <2> QED BY <2>2, <2>3, <2>5 DEF v
<1>3. CASE ~(w.prompt /\ ~w.due)
  <2> DEFINE v == [w EXCEPT !.due = TRUE, !.prompt = FALSE]
  <2>1. Visible(w) = v
    BY <1>3 DEF Visible
  <2>2. v \in StreamWorld /\ Keeps(v, w) /\ v.pending = w.pending /\ v.message = w.message /\ v.screen = w.screen
    BY <1>1 DEF Keeps, StreamWorld
  <2> HIDE DEF v
  <2>3. StreamGood(v)
    BY <2>2 DEF StreamGood, Keeps
  <2> QED BY <2>1, <2>2, <2>3
<1> QED BY <1>2, <1>3

LEMMA WordsTyped == ASSUME NEW word \in Texts, NEW n \in Nat PROVE Words(word, n) \in Seq(Texts)
<1>1. Words(word, n) \in [1..n -> Texts]
  BY DEF Words
<1>2. [1..n -> Texts] \in {[1..m -> Texts] : m \in Nat}
  OBVIOUS
<1>3. Words(word, n) \in UNION {[1..m -> Texts] : m \in Nat}
  BY <1>1, <1>2
<1> QED BY <1>3, SeqDef, Zenon

\* A message that has been told more.
LEMMA FieldsMerge ==
  ASSUME NEW w, StreamGood(w), NEW p \in Payload
  PROVE  LET told == MergeProcessFields(w.message.steps, p, w.steps)
         IN /\ Prefix(told, w.steps) /\ Len(told) >= Len(w.message.steps)
            /\ p = Whole => told = w.steps
<1> DEFINE list == w.message.steps
           base == IF p.withSteps THEN MergeSteps(list, w.steps) ELSE list
           n == Len(base)
           told == MergeProcessFields(list, p, w.steps)
<1>1. /\ w.steps \in Seq(Step) /\ w.steps # <<>> /\ list \in Seq(Step) /\ list # <<>>
      /\ Len(list) <= Len(w.steps) /\ \A k \in 1..(Len(list) - 1) : list[k] = w.steps[k]
  BY StreamFields DEF StreamGood, Prefix
<1>2. MergeSteps(list, w.steps) = w.steps
  BY <1>1 DEF MergeSteps
<1>3. /\ base \in Seq(Step) /\ n \in Nat \ {0} /\ n <= Len(w.steps) /\ Len(list) <= n
      /\ \A k \in 1..(n - 1) : base[k] = w.steps[k]
      /\ p.withSteps => base = w.steps
  BY <1>1, <1>2
<1> HIDE DEF base, n
<1>4. CASE p.reasoning = 0
  <2>1. told = base
    BY <1>4 DEF MergeProcessFields, base
  <2>2. p = Whole => p.withSteps
    BY DEF Whole
  <2> QED BY <1>3, <2>1, <2>2 DEF Prefix, n
<1>5. CASE p.reasoning # 0
  <2> DEFINE status == IF base[n].status = "done" THEN "done" ELSE "running"
             thought == IF p.withSteps /\ base[n].thought # <<>> THEN base[n].thought
                        ELSE base[n].thought \o Words("r", p.reasoning)
             last == [base[n] EXCEPT !.status = status, !.thought = thought]
  <2>1. told = [base EXCEPT ![n] = last]
    <3>1. told = [base EXCEPT ![n].status = status, ![n].thought = thought]
      BY <1>3, <1>5 DEF MergeProcessFields, base, n
    <3> QED BY <1>3, <3>1
  <2>2. last \in Step
    <3>1. base[n] \in Step
      BY <1>3 DEF n
    <3>2. Words("r", p.reasoning) \in Seq(Texts)
      <4>1. "r" \in Texts /\ p.reasoning \in Nat
        BY DEF Texts, Payload
      <4> QED BY <4>1, WordsTyped
    <3>3. base[n].thought \in Seq(Texts) /\ base[n].tools \in Seq(Texts) /\ base[n].seen \in Nat
          /\ base[n] = [thought |-> base[n].thought, tools |-> base[n].tools, seen |-> base[n].seen, status |-> base[n].status]
      BY <3>1 DEF Step
    <3>4. thought \in Seq(Texts)
      BY <3>2, <3>3, ConcatProperties
    <3>5. status \in Texts
      BY DEF Texts
    <3> HIDE DEF thought, status
    <3> QED BY <3>1, <3>4, <3>5 DEF Step
  <2> HIDE DEF last
  <2>3. told \in Seq(Step) /\ Len(told) = n /\ \A k \in 1..(n - 1) : told[k] = base[k]
    BY <1>3, <2>1, <2>2, ExceptSeq DEF n
  <2>4. p # Whole
    BY <1>5 DEF Whole
  <2> QED BY <1>3, <2>3, <2>4 DEF Prefix, n
<1> QED BY <1>4, <1>5

LEMMA ApplyGood ==
  ASSUME NEW w, StreamGood(w), NEW p \in Payload
  PROVE  LET v == ApplyStreamEvent(w, p)
         IN /\ StreamGood(v) /\ Keeps(v, w) /\ v.pending = w.pending
            /\ p = Whole => v.message.steps = w.steps
<1> DEFINE body == w.message.body + (IF Mirrored(p) THEN p.text ELSE 0)
           list == MergeProcessFields(w.message.steps, p, w.steps)
           told == [body |-> body, steps |-> list]
           v == [w EXCEPT !.message = told]
<1>1. w \in StreamWorld /\ w.message \in [body : Nat, steps : Seq(Step)]
  BY StreamFields DEF StreamGood
<1>2. Prefix(list, w.steps) /\ Len(list) >= Len(w.message.steps) /\ (p = Whole => list = w.steps)
  BY FieldsMerge
<1>3. body \in Nat
  BY <1>1 DEF Payload
<1>4. ApplyStreamEvent(w, p) = IF VisibleActivity(w.message, told, p) THEN Visible(v) ELSE v
  BY DEF ApplyStreamEvent, Committed
<1> HIDE DEF list, body
<1>5. told \in [body : Nat, steps : Seq(Step)]
  BY <1>2, <1>3 DEF Prefix
<1>6. v \in StreamWorld /\ Keeps(v, w) /\ v.pending = w.pending /\ v.message = told /\ v.screen = w.screen
  BY <1>1, <1>5 DEF StreamWorld, Keeps
<1>7. w.screen.source.count <= Len(list)
  <2>1. w.screen.source.count \in Nat /\ Len(w.message.steps) \in Nat /\ Len(list) \in Nat
    BY <1>1, <1>2, StreamFields DEF Screen, Prefix
  <2> QED BY <1>2, <2>1 DEF StreamGood
<1>8. StreamGood(v)
  BY <1>2, <1>6, <1>7 DEF StreamGood, Keeps
<1> HIDE DEF v
<1>9. StreamGood(Visible(v)) /\ Keeps(Visible(v), v) /\ Visible(v).pending = v.pending /\ Visible(v).message = v.message
  BY <1>8, VisibleGood
<1> QED BY <1>2, <1>4, <1>6, <1>8, <1>9 DEF Keeps

----------------------------------------------------------------------------
\* The loop's progress.

LEMMA PayloadsTyped ==
  /\ Whole \in Payload
  /\ \A text, reasoning \in Nat : Light(text, reasoning) \in Payload
BY DEF Whole, Light, Payload

\* A change of what is neither steps, message nor screen.
LEMMA AsideGood ==
  ASSUME NEW w, StreamGood(w), NEW v \in StreamWorld,
         v.steps = w.steps, v.message = w.message, v.screen = w.screen
  PROVE  StreamGood(v)
<1>1. Len(w.steps) \in Nat
  BY StreamFields DEF StreamGood
<1> QED BY <1>1, LastStepChanges

LEMMA SignatureTyped ==
  ASSUME NEW w, StreamGood(w), NEW p \in Payload
  PROVE  Signature(w, p) \in Signatures
<1>1. w.steps \in Seq(Step) /\ w.steps # <<>> /\ Len(w.steps) \in Nat /\ Len(w.steps) > 0
  BY StreamFields DEF StreamGood
<1> DEFINE last == w.steps[Len(w.steps)]
<1>2. last \in Step
  BY <1>1
<1> HIDE DEF last
<1>3. /\ last.status \in Texts /\ Len(last.thought) \in Nat /\ Len(last.tools) \in Nat /\ last.seen \in Nat
  BY <1>2 DEF Step
<1>4. ProcessSignature(w.steps) = <<Len(w.steps), last.status, Len(last.thought), Len(last.tools), last.seen>>
  BY <1>1 DEF ProcessSignature, Last, last
<1>5. ProcessSignature(w.steps) \in Nat \X Texts \X Nat \X Nat \X Nat
  BY <1>1, <1>3, <1>4
<1>6. CASE p.whole
  BY <1>6 DEF Signature, Signatures
<1>7. CASE ~p.whole
  <2> DEFINE rest == IF p.withSteps THEN ProcessSignature(w.steps) ELSE <<>>
  <2>1. Signature(w, p) = <<Len(w.steps), p.text, p.reasoning, rest>>
    BY <1>7 DEF Signature
  <2>2. rest \in {<<>>, <<0>>} \cup (Nat \X Texts \X Nat \X Nat \X Nat)
    BY <1>5
  <2>3. p.text \in Nat /\ p.reasoning \in Nat
    BY DEF Payload
  <2> HIDE DEF rest
  <2> QED BY <1>1, <2>1, <2>2, <2>3 DEF Signatures
<1> QED BY <1>6, <1>7

LEMMA EmitPayloadGood ==
  ASSUME NEW w, StreamGood(w), NEW p \in Payload
  PROVE  LET v == EmitPayload(w, p)
         IN /\ StreamGood(v) /\ Keeps(v, w) /\ v.pending = w.pending
            /\ p = Whole => v.message.steps = w.steps
<1> DEFINE u == [w EXCEPT !.emitted = Signature(w, p)]
<1>1. w \in StreamWorld
  BY DEF StreamGood
<1>2. /\ u \in StreamWorld /\ Keeps(u, w) /\ u.pending = w.pending
      /\ u.message = w.message /\ u.screen = w.screen
  <2>1. Signature(w, p) \in Signatures
    BY SignatureTyped
  <2> QED BY <1>1, <2>1 DEF StreamWorld, Keeps
<1> HIDE DEF u
<1>3. StreamGood(u)
  BY <1>2, AsideGood DEF Keeps
<1>4. LET v == ApplyStreamEvent(u, p)
      IN /\ StreamGood(v) /\ Keeps(v, u) /\ v.pending = u.pending
         /\ p = Whole => v.message.steps = u.steps
  BY <1>3, ApplyGood
<1>5. EmitPayload(w, p) = IF ~p.whole /\ Signature(w, p) = w.emitted /\ w.again THEN w ELSE ApplyStreamEvent(u, p)
  BY DEF EmitPayload, u
<1>6. p = Whole => p.whole
  BY DEF Whole
<1>7. Keeps(w, w)
  BY DEF Keeps
<1> QED BY <1>2, <1>4, <1>5, <1>6, <1>7 DEF Keeps

LEMMA FlushPendingGood ==
  ASSUME NEW w, StreamGood(w)
  PROVE  StreamGood(FlushPending(w)) /\ Keeps(FlushPending(w), w) /\ FlushPending(w).pending = <<>>
<1>1. CASE w.pending = <<>>
  BY <1>1 DEF FlushPending, Keeps
<1>2. CASE w.pending # <<>>
  <2> DEFINE u == [w EXCEPT !.pending = <<>>, !.recent = TRUE]
  <2>1. w \in StreamWorld
    BY DEF StreamGood
  <2>2. /\ u \in StreamWorld /\ Keeps(u, w) /\ u.pending = <<>>
        /\ u.message = w.message /\ u.screen = w.screen
    <3>1. <<>> \in Seq(Payload)
      OBVIOUS
    <3>2. u \in StreamWorld
      BY <2>1, <3>1 DEF StreamWorld
    <3> QED BY <2>1, <3>2 DEF StreamWorld, Keeps
  <2>3. w.pending[1] \in Payload
    BY <1>2, <2>1, StreamFields
  <2>4. FlushPending(w) = EmitPayload(u, w.pending[1])
    BY <1>2 DEF FlushPending
  <2> HIDE DEF u
  <2>5. StreamGood(u)
    BY <2>2, AsideGood DEF Keeps
  <2> QED BY <2>2, <2>3, <2>4, <2>5, EmitPayloadGood DEF Keeps
<1> QED BY <1>1, <1>2

LEMMA EmitDeltaGood ==
  ASSUME NEW w, StreamGood(w), NEW p \in Payload
  PROVE  StreamGood(EmitDelta(w, p)) /\ Keeps(EmitDelta(w, p), w)
<1> DEFINE new == MergePayload(w.pending, p)
           u == [w EXCEPT !.pending = <<new>>]
<1>1. w \in StreamWorld /\ w.pending \in Seq(Payload)
  BY StreamFields DEF StreamGood
<1>2. new \in Payload
  <2>1. CASE w.pending = <<>>
    BY <2>1 DEF MergePayload
  <2>2. CASE w.pending # <<>>
    <3>1. w.pending[1] \in Payload
      BY <1>1, <2>2
    <3>2. new = [p EXCEPT !.text = w.pending[1].text + @, !.reasoning = w.pending[1].reasoning + @,
                          !.withSteps = @ \/ w.pending[1].withSteps]
      BY <2>2 DEF MergePayload
    <3> HIDE DEF new
    <3>3. new = [text |-> w.pending[1].text + p.text, reasoning |-> w.pending[1].reasoning + p.reasoning,
                 withSteps |-> p.withSteps \/ w.pending[1].withSteps, whole |-> p.whole]
      BY <3>2 DEF Payload
    <3>4. /\ w.pending[1].text + p.text \in Nat /\ w.pending[1].reasoning + p.reasoning \in Nat
          /\ p.whole \in BOOLEAN /\ (p.withSteps \/ w.pending[1].withSteps) \in BOOLEAN
      BY <3>1 DEF Payload
    <3> QED BY <3>3, <3>4 DEF Payload
  <2> QED BY <2>1, <2>2
<1>3. EmitDelta(w, p) = IF w.recent THEN u ELSE FlushPending(u)
  BY DEF EmitDelta
<1> HIDE DEF new
<1>4. <<new>> \in Seq(Payload)
  BY <1>2
<1>5. u \in StreamWorld /\ Keeps(u, w) /\ u.message = w.message /\ u.screen = w.screen
  BY <1>1, <1>4 DEF StreamWorld, Keeps
<1> HIDE DEF u
<1>6. StreamGood(u)
  BY <1>5, AsideGood DEF Keeps
<1> QED BY <1>3, <1>5, <1>6, FlushPendingGood DEF Keeps

LEMMA EmitWholeGood ==
  ASSUME NEW w, StreamGood(w)
  PROVE  StreamGood(EmitWhole(w)) /\ Keeps(EmitWhole(w), w) /\ Told(EmitWhole(w))
BY FlushPendingGood, EmitPayloadGood, PayloadsTyped DEF EmitWhole, Keeps, Told

\* The last step of the loop becomes another one.
LEMMA LastStepBecomes ==
  ASSUME NEW w, StreamGood(w), NEW v, NEW step \in Step,
         v = [w EXCEPT !.steps = [w.steps EXCEPT ![Len(w.steps)] = step]]
  PROVE  /\ StreamGood(v) /\ v.phase = w.phase /\ v.stream = w.stream /\ v.pending = w.pending
         /\ Len(v.steps) = Len(w.steps) /\ v.steps[Len(w.steps)] = step
<1> DEFINE new == [w.steps EXCEPT ![Len(w.steps)] = step]
<1>1. w \in StreamWorld /\ w.steps \in Seq(Step) /\ Len(w.steps) \in Nat /\ Len(w.steps) > 0
  BY StreamFields DEF StreamGood
<1>2. /\ new \in Seq(Step) /\ Len(new) = Len(w.steps)
      /\ \A k \in 1..Len(w.steps) : new[k] = IF k = Len(w.steps) THEN step ELSE w.steps[k]
  BY <1>1, ExceptSeq
<1> HIDE DEF new
<1>3. v = [w EXCEPT !.steps = new]
  BY DEF new
<1>4. /\ v \in StreamWorld /\ v.steps = new /\ v.phase = w.phase /\ v.stream = w.stream /\ v.pending = w.pending
      /\ v.message = w.message /\ v.screen = w.screen
  BY <1>1, <1>2, <1>3 DEF StreamWorld
<1>5. \A k \in 1..(Len(w.steps) - 1) : v.steps[k] = w.steps[k]
  BY <1>1, <1>2, <1>4
<1>6. Len(v.steps) >= Len(w.steps) /\ v.steps[Len(w.steps)] = step
  BY <1>1, <1>2, <1>4
<1> HIDE DEF new
<1>7. StreamGood(v)
  BY <1>4, <1>5, <1>6, LastStepChanges
<1> QED BY <1>2, <1>4, <1>6, <1>7

LEMMA WithThoughtGood ==
  ASSUME NEW w, StreamGood(w), NEW words \in Seq(Texts)
  PROVE  /\ StreamGood(WithThought(w, words)) /\ WithThought(w, words).phase = w.phase
         /\ WithThought(w, words).stream = w.stream
<1> DEFINE n == Len(w.steps)
           step == [w.steps[n] EXCEPT !.thought = words, !.status = "running"]
<1>1. w \in StreamWorld /\ w.steps \in Seq(Step) /\ n \in 1..Len(w.steps)
  BY StreamFields DEF StreamGood
<1>2. step \in Step
  <2>1. w.steps[n] \in Step /\ "running" \in Texts
    BY <1>1 DEF Texts
  <2> QED BY <2>1 DEF Step
<1>3. WithThought(w, words) = [w EXCEPT !.steps = [w.steps EXCEPT ![n] = step]]
  BY <1>1 DEF WithThought, StreamWorld
<1> HIDE DEF step
<1> QED BY <1>2, <1>3, LastStepBecomes

LEMMA SetStatusGood ==
  ASSUME NEW w, StreamGood(w), NEW status \in Texts
  PROVE  StreamGood(SetStatus(w, status)) /\ SetStatus(w, status).phase = w.phase
<1> DEFINE n == Len(w.steps)
           step == [w.steps[n] EXCEPT !.status = status]
<1>1. w \in StreamWorld /\ w.steps \in Seq(Step) /\ n \in 1..Len(w.steps)
  BY StreamFields DEF StreamGood
<1>2. step \in Step
  <2>1. w.steps[n] \in Step
    BY <1>1
  <2> QED BY <2>1 DEF Step
<1>3. SetStatus(w, status) = [w EXCEPT !.steps = [w.steps EXCEPT ![n] = step]]
  BY <1>1 DEF SetStatus, StreamWorld
<1> HIDE DEF step
<1> QED BY <1>2, <1>3, LastStepBecomes

\* What the handlers of a delta yield: nothing of the loop but its stream and
\* the thought of its last step changes.
Follows(v, w) == StreamGood(v) /\ v.phase = w.phase

LEMMA StreamBecomes ==
  ASSUME NEW w, StreamGood(w), NEW s \in StreamRecord, NEW v, v = [w EXCEPT !.stream = s]
  PROVE  Follows(v, w) /\ v.stream = s /\ v.steps = w.steps
<1>1. w \in StreamWorld
  BY DEF StreamGood
<1>2. /\ v \in StreamWorld /\ v.steps = w.steps /\ v.phase = w.phase /\ v.stream = s
      /\ v.message = w.message /\ v.screen = w.screen
  BY <1>1 DEF StreamWorld
<1> QED BY <1>2, AsideGood DEF Follows

LEMMA FlushReasoningGood ==
  ASSUME NEW w, StreamGood(w), NEW force \in BOOLEAN
  PROVE  Follows(FlushReasoning(w, force), w)
<1> DEFINE held == w.stream.heldReasoning
           shown == w.stream.reasoning + held
           s == [w.stream EXCEPT !.reasoning = shown, !.heldReasoning = 0]
           x == [w EXCEPT !.stream = s]
           y == WithThought(x, Words("r", shown))
<1>1. w \in StreamWorld /\ w.stream \in StreamRecord
  BY StreamFields DEF StreamGood
<1>2. held \in Nat /\ shown \in Nat /\ s \in StreamRecord
  <2>1. held \in Nat /\ shown \in Nat
    BY <1>1 DEF StreamRecord
  <2> HIDE DEF shown
  <2> QED BY <1>1, <2>1 DEF StreamRecord
<1>3. FlushReasoning(w, force) = IF held = 0 \/ (~force /\ w.recent) THEN w ELSE EmitDelta(y, Light(0, held))
  <2>1. x = [w EXCEPT !.stream.reasoning = shown, !.stream.heldReasoning = 0]
    BY <1>1 DEF StreamWorld
  <2> HIDE DEF x
  <2> QED BY <2>1 DEF FlushReasoning
<1> HIDE DEF s, held
<1>4. Follows(x, w)
  BY <1>2, StreamBecomes
<1> HIDE DEF x
<1>5. Words("r", shown) \in Seq(Texts)
  <2>1. "r" \in Texts
    BY DEF Texts
  <2> HIDE DEF shown
  <2> QED BY <1>2, <2>1, WordsTyped
<1>6. Follows(y, x)
  BY <1>4, <1>5, WithThoughtGood DEF Follows
<1> HIDE DEF y
<1>7. Light(0, held) \in Payload
  BY <1>2, PayloadsTyped
<1>8. StreamGood(EmitDelta(y, Light(0, held))) /\ Keeps(EmitDelta(y, Light(0, held)), y)
  BY <1>6, <1>7, EmitDeltaGood DEF Follows
<1> QED BY <1>3, <1>4, <1>6, <1>8 DEF Follows, Keeps

LEMMA PreviewGood ==
  ASSUME NEW w, StreamGood(w), NEW word \in Texts
  PROVE  Follows(Preview(w, word), w)
<1>1. <<word>> \in Seq(Texts)
  OBVIOUS
<1>2. Follows(WithThought(w, <<word>>), w)
  BY <1>1, WithThoughtGood DEF Follows
<1>3. Light(0, 1) \in Payload
  BY PayloadsTyped
<1>4. /\ StreamGood(EmitDelta(WithThought(w, <<word>>), Light(0, 1)))
      /\ Keeps(EmitDelta(WithThought(w, <<word>>), Light(0, 1)), WithThought(w, <<word>>))
  BY <1>2, <1>3, EmitDeltaGood DEF Follows
<1> QED BY <1>2, <1>4 DEF Preview, Follows, Keeps

LEMMA FlushTextGood ==
  ASSUME NEW w, StreamGood(w), NEW rationale \in BOOLEAN
  PROVE  Follows(FlushText(w, rationale), w)
<1> DEFINE shown == w.stream.text + w.stream.heldText
           s == [w.stream EXCEPT !.text = shown, !.heldText = 0]
           taken == [w EXCEPT !.stream = s]
           thinks == w.stream.reasoning > 0
           noted == IF thinks \/ ~rationale THEN taken ELSE Preview(taken, "why")
           thought == IF thinks THEN taken ELSE WithThought(taken, Words("t", shown))
           decided == IF thinks \/ noted.steps[Len(w.steps)].thought # <<>> THEN noted ELSE Preview(noted, "working")
           light == Light(w.stream.heldText, 0)
<1>1. w \in StreamWorld /\ w.stream \in StreamRecord
  BY StreamFields DEF StreamGood
<1>2. shown \in Nat /\ s \in StreamRecord /\ w.stream.heldText \in Nat
  <2>1. shown \in Nat /\ w.stream.heldText \in Nat
    BY <1>1 DEF StreamRecord
  <2> HIDE DEF shown
  <2> QED BY <1>1, <2>1 DEF StreamRecord
<1>3. "why" \in Texts /\ "working" \in Texts /\ "t" \in Texts
  BY DEF Texts
<1>4. taken = [w EXCEPT !.stream.text = shown, !.stream.heldText = 0]
  BY <1>1 DEF StreamWorld
<1> HIDE DEF s
<1>5. FlushText(w, rationale) = IF shown = 0 THEN w
        ELSE IF w.stream.form = "decision" THEN decided
        ELSE IF w.stream.heldText = 0 THEN thought ELSE EmitDelta(thought, light)
  <2> HIDE DEF taken
  <2> QED BY <1>4 DEF FlushText
<1>6. Follows(taken, w)
  BY <1>2, StreamBecomes
<1> HIDE DEF taken, shown
<1>7. Words("t", shown) \in Seq(Texts)
  BY <1>2, <1>3, WordsTyped
<1>8. Follows(thought, w)
  <2>1. CASE thinks
    BY <1>6, <2>1
  <2>2. CASE ~thinks
    BY <1>6, <1>7, <2>2, WithThoughtGood DEF Follows
  <2> QED BY <2>1, <2>2
<1>9. Follows(noted, w)
  <2>1. Follows(Preview(taken, "why"), taken)
    BY <1>3, <1>6, PreviewGood DEF Follows
  <2> QED BY <1>6, <2>1 DEF Follows
<1> HIDE DEF thought, noted
<1>10. Follows(decided, w)
  <2>1. Follows(Preview(noted, "working"), noted)
    BY <1>3, <1>9, PreviewGood DEF Follows
  <2> QED BY <1>9, <2>1 DEF Follows
<1>11. Follows(EmitDelta(thought, light), w)
  <2>1. light \in Payload
    BY <1>2, PayloadsTyped
  <2> QED BY <1>8, <2>1, EmitDeltaGood DEF Follows, Keeps
<1>12. Follows(w, w)
  BY DEF Follows
<1> HIDE DEF decided
<1> QED BY <1>5, <1>8, <1>10, <1>11, <1>12

\* The next iteration begins, or the limit is reached.
LEMMA IterateGood ==
  ASSUME NEW w, StreamGood(w)
  PROVE  StreamGood(Iterate(w)) /\ Iterate(w).phase \in {"asking", "over"}
<1>1. w \in StreamWorld /\ w.steps \in Seq(Step) /\ Len(w.steps) \in Nat
  BY StreamFields DEF StreamGood
<1>2. CASE Len(w.steps) = MaxSteps
  <2> DEFINE v == [w EXCEPT !.phase = "over"]
  <2>1. "over" \in Texts
    BY DEF Texts
  <2>2. /\ v \in StreamWorld /\ v.phase = "over" /\ v.steps = w.steps
        /\ v.message = w.message /\ v.screen = w.screen
    BY <1>1, <2>1 DEF StreamWorld
  <2>3. Iterate(w) = v
    BY <1>2 DEF Iterate
  <2> HIDE DEF v
  <2> QED BY <2>2, <2>3, AsideGood
<1>3. CASE Len(w.steps) # MaxSteps
  <2> DEFINE more == Append(w.steps, NewStep)
             v == [w EXCEPT !.phase = "asking", !.steps = more, !.stream = NoStream]
             u == EmitWhole(v)
  <2>1. NewStep \in Step /\ NoStream \in StreamRecord /\ "asking" \in Texts
    BY DEF NewStep, Step, NoStream, StreamRecord, Texts
  <2>2. /\ more \in Seq(Step) /\ Len(more) = Len(w.steps) + 1
        /\ \A k \in 1..Len(w.steps) : more[k] = w.steps[k]
    BY <1>1, <2>1, AppendProperties
  <2>3. Iterate(w) = ApplyStreamEvent(u, Whole)
    BY <1>3 DEF Iterate
  <2> HIDE DEF more
  <2>4. /\ v \in StreamWorld /\ v.phase = "asking" /\ v.steps = more
        /\ v.message = w.message /\ v.screen = w.screen
    BY <1>1, <2>1, <2>2 DEF StreamWorld
  <2> HIDE DEF v
  <2>5. StreamGood(v)
    BY <1>1, <2>2, <2>4, LastStepChanges
  <2>6. StreamGood(u) /\ Keeps(u, v)
    BY <2>5, EmitWholeGood
  <2> HIDE DEF u
  <2>7. StreamGood(ApplyStreamEvent(u, Whole)) /\ Keeps(ApplyStreamEvent(u, Whole), u)
    BY <2>6, PayloadsTyped, ApplyGood
  <2> QED BY <2>3, <2>4, <2>6, <2>7 DEF Keeps
<1> QED BY <1>2, <1>3

----------------------------------------------------------------------------
\* The actions.

StreamNow == Now(FALSE, FALSE, FALSE)
StreamInv ==
  /\ StreamGood(StreamNow)
  /\ phase = "tool" => pending = <<>> /\ message.steps = steps
  /\ phase = "ended" => ~due /\ TimelineIsWhole

LEMMA NowFields ==
  ASSUME NEW recent, NEW prompt, NEW again
  PROVE  LET w == Now(recent, prompt, again)
         IN /\ w.phase = phase /\ w.steps = steps /\ w.stream = stream /\ w.pending = pending /\ w.emitted = emitted
            /\ w.message = message /\ w.due = due /\ w.screen = screen
            /\ w = [phase |-> phase, steps |-> steps, stream |-> stream, pending |-> pending, emitted |-> emitted,
                    message |-> message, due |-> due, screen |-> screen,
                    recent |-> recent, prompt |-> prompt, again |-> again]
BY DEF Now

LEMMA ClocksAside ==
  ASSUME StreamInv, NEW c \in Clocks
  PROVE  StreamGood(At(c)) /\ At(c).phase = phase /\ At(c).steps = steps /\ At(c).stream = stream
<1>1. /\ At(c).phase = phase /\ At(c).steps = steps /\ At(c).stream = stream
      /\ At(c).message = message /\ At(c).screen = screen
      /\ At(c) = [phase |-> phase, steps |-> steps, stream |-> stream, pending |-> pending, emitted |-> emitted,
                  message |-> message, due |-> due, screen |-> screen,
                  recent |-> c.recent, prompt |-> c.prompt, again |-> c.again]
  BY DEF At, Now
<1>2. /\ StreamNow.steps = steps /\ StreamNow.message = message /\ StreamNow.screen = screen
      /\ phase \in Texts /\ steps \in Seq(Step) /\ stream \in StreamRecord /\ pending \in Seq(Payload)
      /\ emitted \in Signatures /\ message \in [body : Nat, steps : Seq(Step)] /\ due \in BOOLEAN /\ screen \in Screen
  <2>1. /\ StreamNow.phase = phase /\ StreamNow.steps = steps /\ StreamNow.stream = stream
        /\ StreamNow.pending = pending /\ StreamNow.emitted = emitted /\ StreamNow.message = message
        /\ StreamNow.due = due /\ StreamNow.screen = screen
    BY DEF StreamNow, Now
  <2>2. StreamNow \in StreamWorld
    BY DEF StreamInv, StreamGood
  <2> HIDE DEF StreamNow
  <2> QED BY <2>1, <2>2, StreamFields
<1>3. c.recent \in BOOLEAN /\ c.prompt \in BOOLEAN /\ c.again \in BOOLEAN
  BY DEF Clocks
<1>4. At(c) \in StreamWorld
  BY <1>1, <1>2, <1>3 DEF StreamWorld
<1>5. StreamGood(StreamNow)
  BY DEF StreamInv
<1> QED BY <1>1, <1>2, <1>4, <1>5, AsideGood

LEMMA BecomesTold ==
  ASSUME NEW w, StreamGood(w), Become(w), w.phase # "ended", w.phase = "tool" => Told(w)
  PROVE  StreamInv'
<1>1. /\ StreamNow'.steps = w.steps /\ StreamNow'.message = w.message /\ StreamNow'.screen = w.screen
      /\ StreamNow' = [phase |-> w.phase, steps |-> w.steps, stream |-> w.stream, pending |-> w.pending,
                       emitted |-> w.emitted, message |-> w.message, due |-> w.due, screen |-> w.screen,
                       recent |-> FALSE, prompt |-> FALSE, again |-> FALSE]
  BY DEF Become, StreamNow, Now
<1>2. StreamNow' \in StreamWorld
  BY <1>1, StreamFields DEF StreamGood, StreamWorld
<1> DEFINE v == StreamNow'
<1>3. v.steps = w.steps /\ v.message = w.message /\ v.screen = w.screen /\ v \in StreamWorld
  BY <1>1, <1>2
<1> HIDE DEF v
<1>4. StreamGood(v)
  BY <1>3, AsideGood
<1> QED BY <1>4 DEF v, StreamInv, Become, Told

\* A delta.
LEMMA DeltaTold ==
  ASSUME StreamInv, ReasoningDelta \/ TextDelta
  PROVE  StreamInv'
<1>1. phase = "asking"
  BY DEF ReasoningDelta, TextDelta
<1>2. CASE ReasoningDelta
  <2>1. PICK c \in Clocks :
          LET w == [At(c) EXCEPT !.stream.heldReasoning = @ + 1]
              all == stream.reasoning + stream.heldReasoning + 1
          IN \/ Become(FlushReasoning(w, FALSE))
             \/ Become(EmitDelta(WithThought([w EXCEPT !.stream.reasoning = all, !.stream.heldReasoning = 0],
                                             Words("r", all)), Light(0, 1)))
    BY <1>2 DEF ReasoningDelta
  <2> DEFINE now == At(c)
             s == [stream EXCEPT !.heldReasoning = @ + 1]
             w == [now EXCEPT !.stream = s]
             all == stream.reasoning + stream.heldReasoning + 1
             s2 == [s EXCEPT !.reasoning = all, !.heldReasoning = 0]
             w2 == [w EXCEPT !.stream = s2]
             w3 == WithThought(w2, Words("r", all))
  <2>2. StreamGood(now) /\ now.phase = phase /\ now.stream = stream
    BY ClocksAside
  <2>3. now \in StreamWorld /\ stream \in StreamRecord
    BY <2>2, StreamFields DEF StreamGood
  <2> HIDE DEF now
  <2>4. w = [now EXCEPT !.stream.heldReasoning = @ + 1]
    BY <2>2, <2>3 DEF StreamWorld
  <2>5. s \in StreamRecord
    BY <2>3 DEF StreamRecord
  <2> HIDE DEF s
  <2>6. Follows(w, now) /\ w.stream = s
    BY <2>2, <2>5, StreamBecomes
  <2>7. w2 = [w EXCEPT !.stream.reasoning = all, !.stream.heldReasoning = 0]
    <3>1. w \in StreamWorld
      BY <2>6 DEF Follows, StreamGood
    <3> HIDE DEF w
    <3> QED BY <2>6, <3>1 DEF StreamWorld
  <2>8. Become(FlushReasoning(w, FALSE)) \/ Become(EmitDelta(w3, Light(0, 1)))
    <3>1. LET x == [now EXCEPT !.stream.heldReasoning = @ + 1]
          IN Become(FlushReasoning(x, FALSE))
             \/ Become(EmitDelta(WithThought([x EXCEPT !.stream.reasoning = all, !.stream.heldReasoning = 0],
                                             Words("r", all)), Light(0, 1)))
      BY <2>1 DEF now
    <3> HIDE DEF w, w2, all
    <3> QED BY <2>4, <2>7, <3>1
  <2>9. all \in Nat
    BY <2>3 DEF StreamRecord
  <2> HIDE DEF all, w
  <2>10. s2 \in StreamRecord
    BY <2>5, <2>9 DEF StreamRecord
  <2> HIDE DEF s2
  <2>11. Follows(w2, w)
    BY <2>6, <2>10, StreamBecomes DEF Follows
  <2> HIDE DEF w2
  <2>12. Words("r", all) \in Seq(Texts)
    <3>1. "r" \in Texts
      BY DEF Texts
    <3> QED BY <2>9, <3>1, WordsTyped
  <2>13. Follows(w3, w2)
    BY <2>11, <2>12, WithThoughtGood DEF Follows
  <2> HIDE DEF w3
  <2>14. StreamGood(EmitDelta(w3, Light(0, 1))) /\ Keeps(EmitDelta(w3, Light(0, 1)), w3)
    BY <2>13, PayloadsTyped, EmitDeltaGood DEF Follows
  <2>15. Follows(FlushReasoning(w, FALSE), w)
    BY <2>6, FlushReasoningGood DEF Follows
  <2>16. FlushReasoning(w, FALSE).phase = "asking" /\ EmitDelta(w3, Light(0, 1)).phase = "asking"
    BY <1>1, <2>2, <2>6, <2>11, <2>13, <2>14, <2>15 DEF Follows, Keeps
  <2> QED BY <2>8, <2>14, <2>15, <2>16, BecomesTold DEF Follows
<1>3. CASE TextDelta
  <2>1. PICK c \in Clocks, rationale \in BOOLEAN, form \in {"plain", "decision"} :
          LET w == [At(c) EXCEPT !.stream.heldText = @ + 1, !.stream.form = form]
          IN Become(FlushText(w, rationale)) \/ Become(w)
    BY <1>3 DEF TextDelta
  <2> DEFINE now == At(c)
             s == [stream EXCEPT !.heldText = @ + 1, !.form = form]
             w == [now EXCEPT !.stream = s]
  <2>2. StreamGood(now) /\ now.phase = phase /\ now.stream = stream
    BY ClocksAside
  <2>3. now \in StreamWorld /\ stream \in StreamRecord
    BY <2>2, StreamFields DEF StreamGood
  <2> HIDE DEF now
  <2>4. w = [now EXCEPT !.stream.heldText = @ + 1, !.stream.form = form]
    BY <2>2, <2>3 DEF StreamWorld
  <2>5. s \in StreamRecord
    <3>1. form \in Texts
      BY DEF Texts
    <3> DEFINE more == stream.heldText + 1
    <3>2. more \in Nat
      BY <2>3 DEF StreamRecord
    <3>3. s = [stream EXCEPT !.heldText = more, !.form = form]
      BY <2>3 DEF StreamRecord
    <3> HIDE DEF s, more
    <3> QED BY <2>3, <3>1, <3>2, <3>3 DEF StreamRecord
  <2> HIDE DEF s
  <2>6. Follows(w, now)
    BY <2>2, <2>5, StreamBecomes
  <2>7. Become(FlushText(w, rationale)) \/ Become(w)
    <3>1. LET x == [now EXCEPT !.stream.heldText = @ + 1, !.stream.form = form]
          IN Become(FlushText(x, rationale)) \/ Become(x)
      BY <2>1 DEF now
    <3> HIDE DEF w
    <3> QED BY <2>4, <3>1
  <2> HIDE DEF w
  <2>8. Follows(FlushText(w, rationale), w)
    BY <2>6, FlushTextGood DEF Follows
  <2> QED BY <1>1, <2>2, <2>6, <2>7, <2>8, BecomesTold DEF Follows
<1> QED BY <1>2, <1>3

\* The reply of the model is there.
LEMMA RepliedGood ==
  ASSUME StreamInv, NEW c \in Clocks, NEW rationale \in BOOLEAN
  PROVE  StreamGood(Replied(c, rationale)) /\ Replied(c, rationale).phase = phase
<1> DEFINE now == At(c)
           w == FlushReasoning(FlushText(now, rationale), TRUE)
<1>1. StreamGood(now) /\ now.phase = phase
  BY ClocksAside
<1>2. Replied(c, rationale) =
        IF rationale /\ w.steps[Len(w.steps)].thought = <<>> THEN WithThought(w, <<"why">>) ELSE w
  BY DEF Replied
<1> HIDE DEF now
<1>3. Follows(FlushText(now, rationale), now)
  BY <1>1, FlushTextGood
<1>4. Follows(w, FlushText(now, rationale))
  BY <1>3, FlushReasoningGood DEF Follows
<1> HIDE DEF w
<1>5. <<"why">> \in Seq(Texts)
  BY DEF Texts
<1>6. StreamGood(WithThought(w, <<"why">>)) /\ WithThought(w, <<"why">>).phase = w.phase
  BY <1>4, <1>5, WithThoughtGood DEF Follows
<1> QED BY <1>1, <1>2, <1>3, <1>4, <1>6 DEF Follows

LEMMA PhaseBecomes ==
  ASSUME NEW w, StreamGood(w), NEW p \in Texts, NEW v, v = [w EXCEPT !.phase = p]
  PROVE  StreamGood(v) /\ v.phase = p /\ v.steps = w.steps
<1>1. w \in StreamWorld
  BY DEF StreamGood
<1>2. /\ v \in StreamWorld /\ v.steps = w.steps /\ v.phase = p
      /\ v.message = w.message /\ v.screen = w.screen
  BY <1>1 DEF StreamWorld
<1> QED BY <1>2, AsideGood

LEMMA FailsTold == ASSUME StreamInv, ReplyFails PROVE StreamInv'
<1>1. PICK c \in Clocks, rationale \in BOOLEAN :
        Become(Retry(Replied(c, rationale))) \/ Become(UnknownTool(Replied(c, rationale)))
  BY DEF ReplyFails
<1> DEFINE w == Replied(c, rationale)
<1>2. StreamGood(w)
  BY RepliedGood
<1>3. Become(Iterate(SetStatus(EmitWhole(w), "failed"))) \/ Become(Iterate(SetStatus(w, "failed")))
  BY <1>1 DEF Retry, UnknownTool
<1> HIDE DEF w
<1>4. "failed" \in Texts
  BY DEF Texts
<1>5. StreamGood(SetStatus(EmitWhole(w), "failed")) /\ StreamGood(SetStatus(w, "failed"))
  BY <1>2, <1>4, EmitWholeGood, SetStatusGood
<1>6. /\ StreamGood(Iterate(SetStatus(EmitWhole(w), "failed")))
      /\ StreamGood(Iterate(SetStatus(w, "failed")))
      /\ Iterate(SetStatus(EmitWhole(w), "failed")).phase \in {"asking", "over"}
      /\ Iterate(SetStatus(w, "failed")).phase \in {"asking", "over"}
  BY <1>5, IterateGood
<1>7. CASE Become(Iterate(SetStatus(EmitWhole(w), "failed")))
  BY <1>6, <1>7, BecomesTold
<1>8. CASE Become(Iterate(SetStatus(w, "failed")))
  BY <1>6, <1>8, BecomesTold
<1> QED BY <1>3, <1>7, <1>8

LEMMA ConclusionTold == ASSUME StreamInv, Concludes PROVE StreamInv'
<1>1. PICK c \in Clocks, rationale \in BOOLEAN :
        LET w == EmitWhole(Replied(c, rationale))
        IN Become([SetStatus(w, IF w.steps[Len(w.steps)].thought # <<>> THEN "done" ELSE "skipped")
                   EXCEPT !.phase = "over"])
  BY DEF Concludes
<1> DEFINE w == EmitWhole(Replied(c, rationale))
           status == IF w.steps[Len(w.steps)].thought # <<>> THEN "done" ELSE "skipped"
           u == SetStatus(w, status)
           v == [u EXCEPT !.phase = "over"]
<1>2. Become(v)
  BY <1>1
<1>3. StreamGood(w)
  BY RepliedGood, EmitWholeGood
<1>4. status \in Texts /\ "over" \in Texts
  BY DEF Texts
<1> HIDE DEF w, status
<1>5. StreamGood(u)
  BY <1>3, <1>4, SetStatusGood
<1> HIDE DEF u
<1>6. StreamGood(v) /\ v.phase = "over"
  BY <1>4, <1>5, PhaseBecomes
<1> HIDE DEF v
<1> QED BY <1>2, <1>6, BecomesTold

\* A tool is called: what is told last is the step with the running tool.
LEMMA CallTold == ASSUME StreamInv, CallsTool PROVE StreamInv'
<1>1. PICK c \in Clocks, rationale \in BOOLEAN :
        LET w == Visible(EmitWhole(Replied(c, rationale)))
        IN Become(EmitWhole([w EXCEPT !.phase = "tool", !.steps[Len(w.steps)].tools = Append(@, "running"),
                                      !.steps[Len(w.steps)].thought = Append(@, "call")]))
  BY DEF CallsTool
<1> DEFINE w == Visible(EmitWhole(Replied(c, rationale)))
           n == Len(w.steps)
           x == [w EXCEPT !.phase = "tool"]
           old == w.steps[n]
           step == [old EXCEPT !.tools = Append(old.tools, "running"), !.thought = Append(old.thought, "call")]
           v == [x EXCEPT !.steps = [x.steps EXCEPT ![Len(x.steps)] = step]]
<1>2. StreamGood(w)
  BY RepliedGood, EmitWholeGood, VisibleGood
<1>3. Become(EmitWhole([w EXCEPT !.phase = "tool", !.steps[n].tools = Append(@, "running"),
                                 !.steps[n].thought = Append(@, "call")]))
  BY <1>1
<1> HIDE DEF w
<1>4. w \in StreamWorld /\ w.steps \in Seq(Step) /\ n \in 1..Len(w.steps) /\ old \in Step
  BY <1>2, StreamFields DEF StreamGood
<1>5. "tool" \in Texts /\ "running" \in Texts /\ "call" \in Texts
  BY DEF Texts
<1>6. step \in Step
  <2>1. /\ old.tools \in Seq(Texts) /\ old.thought \in Seq(Texts) /\ old.seen \in Nat /\ old.status \in Texts
        /\ old = [thought |-> old.thought, tools |-> old.tools, seen |-> old.seen, status |-> old.status]
    BY <1>4 DEF Step
  <2> DEFINE tools == Append(old.tools, "running")
             thought == Append(old.thought, "call")
  <2>2. tools \in Seq(Texts) /\ thought \in Seq(Texts)
    BY <1>5, <2>1
  <2>3. step = [old EXCEPT !.tools = tools, !.thought = thought]
    OBVIOUS
  <2> HIDE DEF old, step, tools, thought
  <2> QED BY <1>4, <2>2, <2>3 DEF Step
<1>7. StreamGood(x) /\ x.phase = "tool" /\ x.steps = w.steps
  BY <1>2, <1>5, PhaseBecomes
<1>8. v = [w EXCEPT !.phase = "tool", !.steps[n].tools = Append(@, "running"), !.steps[n].thought = Append(@, "call")]
  <2>1. [w.steps EXCEPT ![n] = step] =
          [w.steps EXCEPT ![n].tools = Append(@, "running"), ![n].thought = Append(@, "call")]
    BY <1>4 DEF Step
  <2> HIDE DEF step
  <2>2. v = [w EXCEPT !.phase = "tool", !.steps = [w.steps EXCEPT ![n] = step]]
    BY <1>4, <1>7 DEF StreamWorld
  <2> HIDE DEF x, v
  <2>3. [w EXCEPT !.phase = "tool", !.steps[n].tools = Append(@, "running"), !.steps[n].thought = Append(@, "call")] =
        [w EXCEPT !.phase = "tool",
                  !.steps = [w.steps EXCEPT ![n].tools = Append(@, "running"), ![n].thought = Append(@, "call")]]
    BY <1>4 DEF StreamWorld
  <2> QED BY <2>1, <2>2, <2>3
<1> HIDE DEF step, x
<1>9. StreamGood(v) /\ v.phase = x.phase
  BY <1>6, <1>7, LastStepBecomes
<1>10. Become(EmitWhole(v))
  BY <1>3, <1>8
<1> HIDE DEF v
<1>11. StreamGood(EmitWhole(v)) /\ EmitWhole(v).phase = "tool" /\ Told(EmitWhole(v))
  BY <1>7, <1>9, EmitWholeGood DEF Keeps
<1> QED BY <1>10, <1>11, BecomesTold

LEMMA FrontTyped == ASSUME NEW words \in Seq(Texts) PROVE Front(words) \in Seq(Texts)
<1> DEFINE n == Len(words) - 1
<1>1. n \in Int /\ \A k \in 1..n : words[k] \in Texts
  BY ElementOfSeq
<1>2. SubSeq(words, 1, n) \in Seq(Texts)
  <2> HIDE DEF n
  <2> QED BY <1>1, SubSeqProperties
<1> QED BY <1>2 DEF Front

\* The tool has ended.
LEMMA EndTold == ASSUME StreamInv, NEW outcome \in {"done", "failed"}, ToolEnds(outcome) PROVE StreamInv'
<1>1. PICK c \in Clocks :
        LET w == EmitWhole([At(c) EXCEPT !.steps[Len(steps)].tools = Append(Front(@), outcome),
                                         !.steps[Len(steps)].seen = @ + 1,
                                         !.steps[Len(steps)].thought = Append(@, "result")])
        IN Become(Iterate(IF outcome = "failed" THEN SetStatus(w, "failed") ELSE w))
  BY DEF ToolEnds
<1> DEFINE now == At(c)
           n == Len(steps)
           x == [now EXCEPT !.steps[n].tools = Append(Front(@), outcome), !.steps[n].seen = @ + 1,
                            !.steps[n].thought = Append(@, "result")]
           old == now.steps[n]
           step == [old EXCEPT !.tools = Append(Front(old.tools), outcome), !.seen = old.seen + 1,
                               !.thought = Append(old.thought, "result")]
           v == [now EXCEPT !.steps = [now.steps EXCEPT ![Len(now.steps)] = step]]
           told == EmitWhole(v)
           last == IF outcome = "failed" THEN SetStatus(told, "failed") ELSE told
<1>2. StreamGood(now) /\ now.steps = steps
  BY ClocksAside
<1>3. LET w == EmitWhole(x) IN Become(Iterate(IF outcome = "failed" THEN SetStatus(w, "failed") ELSE w))
  BY <1>1
<1> HIDE DEF now
<1>4. now \in StreamWorld /\ steps \in Seq(Step) /\ n \in 1..Len(steps) /\ old \in Step
  BY <1>2, StreamFields DEF StreamGood
<1>5. "failed" \in Texts /\ "result" \in Texts /\ outcome \in Texts
  BY DEF Texts
<1>6. step \in Step
  <2>1. /\ old.tools \in Seq(Texts) /\ old.thought \in Seq(Texts) /\ old.seen \in Nat
        /\ old = [thought |-> old.thought, tools |-> old.tools, seen |-> old.seen, status |-> old.status]
        /\ old.status \in Texts
    BY <1>4 DEF Step
  <2> DEFINE tools == Append(Front(old.tools), outcome)
             thought == Append(old.thought, "result")
             seen == old.seen + 1
  <2>2. tools \in Seq(Texts) /\ thought \in Seq(Texts) /\ seen \in Nat
    BY <1>5, <2>1, FrontTyped
  <2>3. step = [old EXCEPT !.tools = tools, !.seen = seen, !.thought = thought]
    OBVIOUS
  <2> HIDE DEF old, step, tools, thought, seen
  <2> QED BY <1>4, <2>2, <2>3 DEF Step
<1>7. x = v
  <2>1. [steps EXCEPT ![n] = step] =
          [steps EXCEPT ![n].tools = Append(Front(@), outcome), ![n].seen = @ + 1, ![n].thought = Append(@, "result")]
    BY <1>2, <1>4 DEF Step
  <2> HIDE DEF step
  <2>2. v = [now EXCEPT !.steps = [steps EXCEPT ![n] = step]]
    BY <1>2
  <2> HIDE DEF v
  <2> DEFINE a == Append(Front(old.tools), outcome)
             b == old.seen + 1
             c1 == Append(old.thought, "result")
  <2>3. x = [now EXCEPT !.steps[n].tools = a, !.steps[n].seen = b, !.steps[n].thought = c1]
    BY <1>2, <1>4 DEF StreamWorld, Step
  <2>4. [steps EXCEPT ![n].tools = Append(Front(@), outcome), ![n].seen = @ + 1, ![n].thought = Append(@, "result")]
        = [steps EXCEPT ![n].tools = a, ![n].seen = b, ![n].thought = c1]
    BY <1>2, <1>4 DEF Step
  <2> HIDE DEF x, a, b, c1
  <2>5. x = [now EXCEPT !.steps = [steps EXCEPT ![n].tools = a, ![n].seen = b, ![n].thought = c1]]
    <3> DEFINE y == [now EXCEPT !.steps[n].tools = a]
               z == [y EXCEPT !.steps[n].seen = b]
               first == [steps EXCEPT ![n].tools = a]
               second == [first EXCEPT ![n].seen = b]
    <3>1. y = [now EXCEPT !.steps = first] /\ y.steps = first
      BY <1>2, <1>4 DEF StreamWorld
    <3>2. x = [z EXCEPT !.steps[n].thought = c1]
      BY <2>3
    <3> HIDE DEF y, first
    <3>3. z = [now EXCEPT !.steps = second] /\ z.steps = second
      BY <1>4, <3>1 DEF StreamWorld
    <3> HIDE DEF z, second
    <3>4. x = [now EXCEPT !.steps = [second EXCEPT ![n].thought = c1]]
      BY <1>4, <3>2, <3>3 DEF StreamWorld
    <3> QED BY <3>4 DEF second, first
  <2> QED BY <2>1, <2>2, <2>4, <2>5
<1> HIDE DEF step, x
<1>8. StreamGood(v)
  BY <1>2, <1>6, LastStepBecomes
<1> HIDE DEF v
<1>9. StreamGood(told)
  BY <1>8, EmitWholeGood
<1>10. Become(Iterate(last))
  BY <1>3, <1>7
<1> HIDE DEF told
<1>11. StreamGood(last)
  BY <1>5, <1>9, SetStatusGood
<1> HIDE DEF last
<1> QED BY <1>10, <1>11, IterateGood, BecomesTold

\* The panel's timer.
LEMMA RenderTold == ASSUME StreamInv, Renders PROVE StreamInv'
<1> DEFINE w == StreamNow
           v == StreamNow'
<1>1. StreamGood(w) /\ w \in StreamWorld /\ w.steps \in Seq(Step)
  BY StreamFields DEF StreamInv, StreamGood
<1>2. /\ screen' = Patched(screen, message.steps) /\ due' = FALSE
      /\ phase' = phase /\ steps' = steps /\ stream' = stream /\ pending' = pending /\ emitted' = emitted
      /\ message' = message
  BY DEF Renders
<1>3. /\ w.phase = phase /\ w.steps = steps /\ w.stream = stream /\ w.pending = pending /\ w.emitted = emitted
      /\ w.message = message /\ w.screen = screen
  BY DEF StreamNow, Now
<1>4. v = [phase |-> phase, steps |-> steps, stream |-> stream, pending |-> pending, emitted |-> emitted,
           message |-> message, due |-> FALSE, screen |-> screen', recent |-> FALSE, prompt |-> FALSE, again |-> FALSE]
  BY <1>2 DEF StreamNow, Now
<1>5. ShownBy(screen', steps) /\ screen'.source.count = Len(message.steps) /\ screen' \in Screen
  BY <1>1, <1>2, <1>3, PatchedShows DEF StreamGood, ShownBy
<1>6. Len(message.steps) \in Nat
  BY <1>1, <1>3 DEF StreamGood, Prefix
<1>7. v \in StreamWorld
  <2>1. /\ phase \in Texts /\ steps \in Seq(Step) /\ stream \in StreamRecord /\ pending \in Seq(Payload)
        /\ emitted \in Signatures /\ message \in [body : Nat, steps : Seq(Step)]
    BY <1>1, <1>3, StreamFields
  <2> HIDE DEF v
  <2> QED BY <1>4, <1>5, <2>1 DEF StreamWorld
<1>8. StreamGood(v)
  <2>1. v.steps = steps /\ v.message = message /\ v.screen = screen'
    BY <1>4
  <2> HIDE DEF v, w
  <2> QED BY <1>1, <1>3, <1>5, <1>6, <1>7, <2>1 DEF StreamGood
<1>9. phase # "ended"
  BY DEF StreamInv, Renders
<1> QED BY <1>2, <1>8, <1>9 DEF StreamInv

\* A screen that is up to date has the whole timeline.
LEMMA ShownIsWhole ==
  ASSUME NEW list \in Seq(Step), NEW part, Prefix(part, list), NEW scr, ShownBy(scr, list),
         scr.source.count = Len(part), UpToDate(scr.entries, part)
  PROVE  LET shown == scr.entries
             kept == CollectStepEntries(part)
         IN /\ {kept[k].id : k \in DOMAIN kept} \subseteq {shown[k].id : k \in DOMAIN shown}
            /\ \A j, k \in DOMAIN shown : j < k => shown[j].id <= shown[k].id
            /\ HasContent(Last(part)) => Last(shown) = Last(kept)
<1> DEFINE shown == scr.entries
           kept == CollectStepEntries(part)
           n == Len(part)
<1>1. part \in Seq(Step) /\ n \in Nat \ {0} /\ \A k \in 1..(n - 1) : part[k] = list[k]
  BY DEF Prefix
<1>2. Collected(kept, part, n)
  BY <1>1, CollectsAll
<1>3. Orderly(shown, list, n)
  BY DEF ShownBy
<1> HIDE DEF kept, shown
<1>4. kept \in Seq(EntryRecord) /\ shown \in Seq(EntryRecord)
  BY <1>2, <1>3 DEF Collected, Orderly
<1>5. DOMAIN kept = 1..Len(kept) /\ DOMAIN shown = 1..Len(shown)
  BY <1>4
<1>6. HasContent(part[n]) => Len(shown) > 0 /\ shown[Len(shown)] = Entry(part, n)
  BY DEF UpToDate, shown
<1>7. ASSUME NEW j \in 1..Len(kept) PROVE \E k \in 1..Len(shown) : shown[k].id = kept[j].id
  <2>1. kept[j].id \in 1..n /\ HasContent(part[kept[j].id])
    <3> HIDE DEF n
    <3> QED BY <1>2 DEF Collected
  <2>2. CASE kept[j].id = n
    <3>1. shown[Len(shown)].id = n /\ Len(shown) \in 1..Len(shown)
      BY <1>4, <1>6, <2>1, <2>2 DEF Entry
    <3> QED BY <2>2, <3>1
  <2>3. CASE kept[j].id # n
    <3>1. kept[j].id \in 1..(n - 1) /\ HasContent(list[kept[j].id])
      BY <1>1, <2>1, <2>3
    <3> QED BY <1>3, <3>1 DEF Orderly
  <2> QED BY <2>2, <2>3
<1>8. \A j, k \in DOMAIN shown : j < k => shown[j].id <= shown[k].id
  BY <1>3, <1>5 DEF Orderly
<1>9. HasContent(Last(part)) => Last(shown) = Last(kept)
  <2> SUFFICES ASSUME HasContent(Last(part)) PROVE Last(shown) = Last(kept)
    OBVIOUS
  <2>1. HasContent(part[n])
    BY DEF Last
  <2>2. kept[Len(kept)] = Entry(part, n)
    <3> HIDE DEF n
    <3> QED BY <1>1, <1>2, <2>1 DEF Collected
  <2> QED BY <1>6, <2>1, <2>2 DEF Last
<1> QED BY <1>5, <1>7, <1>8, <1>9 DEF kept, shown

LEMMA TurnEndTold == ASSUME StreamInv, TurnEnds PROVE StreamInv'
<1> DEFINE w == StreamNow
<1>1. StreamGood(w) /\ w \in StreamWorld
  BY DEF StreamInv, StreamGood
<1>2. w.steps = steps /\ w.message = message /\ w.screen = screen
  BY DEF StreamNow, Now
<1> HIDE DEF w
<1>3. PICK list \in {message.steps, steps}, scr \in {screen, Patched(screen, message.steps)} :
        /\ message' = [message EXCEPT !.steps = list]
        /\ screen' = Patched(scr, list)
  BY DEF TurnEnds
<1>4. /\ phase' = "ended" /\ due' = FALSE /\ stream' = NoStream /\ pending' = <<>> /\ emitted' = <<>>
      /\ steps' = steps
  BY DEF TurnEnds
<1>5. /\ steps \in Seq(Step) /\ steps # <<>> /\ message \in [body : Nat, steps : Seq(Step)]
      /\ Prefix(message.steps, steps) /\ ShownBy(screen, steps) /\ screen.source.count <= Len(message.steps)
      /\ screen \in Screen
  BY <1>1, <1>2, StreamFields DEF StreamGood
<1>6. Prefix(list, steps) /\ list \in Seq(Step) /\ Len(list) >= Len(message.steps)
  BY <1>5 DEF Prefix
<1>7. ShownBy(scr, steps) /\ scr.source.count <= Len(list)
  <2>1. /\ Len(list) \in Nat /\ Len(message.steps) \in Nat /\ screen.source.count \in Nat
        /\ Len(message.steps) <= Len(list)
    BY <1>5, <1>6 DEF Screen
  <2>2. /\ ShownBy(Patched(screen, message.steps), steps)
        /\ Patched(screen, message.steps).source.count = Len(message.steps)
    BY <1>5, PatchedShows
  <2> QED BY <1>3, <1>5, <2>1, <2>2
<1>8. ShownBy(screen', steps) /\ screen'.source.count = Len(list) /\ UpToDate(screen'.entries, list)
  BY <1>3, <1>5, <1>6, <1>7, PatchedShows
<1>9. message' \in [body : Nat, steps : Seq(Step)] /\ message'.steps = list
  BY <1>3, <1>5, <1>6
<1> DEFINE v == StreamNow'
<1>10. v = [phase |-> "ended", steps |-> steps, stream |-> NoStream, pending |-> <<>>, emitted |-> <<>>,
            message |-> message', due |-> FALSE, screen |-> screen',
            recent |-> FALSE, prompt |-> FALSE, again |-> FALSE]
  BY <1>4 DEF StreamNow, Now
<1>11. v \in StreamWorld
  <2>1. /\ "ended" \in Texts /\ NoStream \in StreamRecord /\ <<>> \in Seq(Payload) /\ <<>> \in Signatures
        /\ screen' \in Screen
    BY <1>8 DEF Texts, NoStream, StreamRecord, Signatures, ShownBy
  <2> HIDE DEF v
  <2> QED BY <1>5, <1>9, <1>10, <2>1 DEF StreamWorld
<1>12. Len(list) \in Nat
  BY <1>6
<1>13. StreamGood(v)
  <2> HIDE DEF v
  <2> QED BY <1>5, <1>6, <1>8, <1>9, <1>10, <1>11, <1>12 DEF StreamGood
<1>14. TimelineIsWhole'
  BY <1>5, <1>6, <1>8, <1>9, ShownIsWhole DEF TimelineIsWhole
<1> QED BY <1>4, <1>13, <1>14 DEF StreamInv

LEMMA StreamBegins == ASSUME StreamInit PROVE StreamInv
<1> DEFINE w == StreamNow
           list == <<NewStep>>
<1>1. NewStep \in Step /\ list \in Seq(Step) /\ list # <<>> /\ Len(list) = 1 /\ ~HasContent(NewStep) /\ list[1] = NewStep
  BY DEF NewStep, Step, HasContent, Texts
<1>2. w = [phase |-> "asking", steps |-> list, stream |-> NoStream, pending |-> <<>>, emitted |-> <<>>,
           message |-> [body |-> 0, steps |-> list], due |-> due, screen |-> screen,
           recent |-> FALSE, prompt |-> FALSE, again |-> FALSE]
  BY DEF StreamInit, StreamNow, Now
<1>3. PICK src \in {Source(<<>>), Source(list)} : screen = [entries |-> <<>>, source |-> src]
  BY DEF StreamInit
<1>4. src \in [count : Nat, tail : Seq(Step)] /\ (src.count = 0 \/ (src.count = 1 /\ src.tail # <<>> /\ src.tail[Len(src.tail)] = NewStep))
  <2>1. CASE src = Source(<<>>)
    <3>1. src.count = 0 /\ src = [count |-> 0, tail |-> SubSeq(<<>>, 1, 0)]
      BY <2>1 DEF Source
    <3>2. SubSeq(<<>>, 1, 0) \in Seq(Step)
      BY SubSeqProperties
    <3> QED BY <3>1, <3>2
  <2>2. CASE src = Source(list)
    <3> HIDE DEF list
    <3> QED BY <1>1, <2>2, SourceTyped
  <2> QED BY <2>1, <2>2
<1> HIDE DEF list
<1>5. screen \in Screen
  <2>1. <<>> \in Seq(EntryRecord)
    OBVIOUS
  <2> QED BY <1>3, <1>4, <2>1 DEF Screen
<1>6. Prefix(list, list)
  BY <1>1 DEF Prefix
<1>7. ShownBy(screen, list) /\ screen.source.count <= Len(list)
  <2>1. screen.entries = <<>> /\ screen.source = src
    BY <1>3
  <2>2. Orderly(<<>>, list, src.count)
    <3>1. <<>> \in Seq(EntryRecord) /\ Len(<<>>) = 0
      OBVIOUS
    <3> QED BY <1>4, <3>1 DEF Orderly
  <2>3. ShowsLast(screen)
    BY <1>1, <1>4, <2>1 DEF ShowsLast, Last
  <2> QED BY <1>1, <1>4, <1>5, <2>1, <2>2, <2>3 DEF ShownBy
<1>8. w \in StreamWorld
  <2>1. /\ "asking" \in Texts /\ NoStream \in StreamRecord /\ <<>> \in Seq(Payload) /\ <<>> \in Signatures
        /\ due \in BOOLEAN
    BY DEF StreamInit, Texts, NoStream, StreamRecord, Signatures
  <2> HIDE DEF w
  <2> QED BY <1>1, <1>2, <1>5, <2>1 DEF StreamWorld
<1>9. StreamGood(w)
  <2> HIDE DEF w
  <2> QED BY <1>1, <1>2, <1>6, <1>7, <1>8 DEF StreamGood
<1>10. phase = "asking"
  BY DEF StreamInit
<1> QED BY <1>9, <1>10 DEF StreamInv

LEMMA StreamSteps == ASSUME StreamInv, [StreamNext]_streamVars PROVE StreamInv'
<1>1. CASE ReasoningDelta \/ TextDelta
  BY <1>1, DeltaTold
<1>2. CASE ReplyFails
  BY <1>2, FailsTold
<1>3. CASE Concludes
  BY <1>3, ConclusionTold
<1>4. CASE CallsTool
  BY <1>4, CallTold
<1>5. CASE ToolEnds("done") \/ ToolEnds("failed")
  BY <1>5, EndTold
<1>6. CASE Renders
  BY <1>6, RenderTold
<1>7. CASE TurnEnds
  BY <1>7, TurnEndTold
<1>8. CASE UNCHANGED streamVars
  <2>1. /\ phase' = phase /\ steps' = steps /\ stream' = stream /\ pending' = pending /\ emitted' = emitted
        /\ message' = message /\ due' = due /\ screen' = screen
    BY <1>8 DEF streamVars
  <2>2. StreamNow' = StreamNow /\ (TimelineIsWhole <=> TimelineIsWhole')
    BY <2>1 DEF StreamNow, Now, TimelineIsWhole
  <2> QED BY <2>1, <2>2 DEF StreamInv
<1> QED BY <1>1, <1>2, <1>3, <1>4, <1>5, <1>6, <1>7, <1>8 DEF StreamNext

\* While a tool runs, the message has the loop's steps as they are, with
\* nothing held back; and the timeline of an ended turn is whole, however the
\* commits fell.
THEOREM StepsAreToldHolds == StreamInit /\ [][StreamNext]_streamVars => []StepsAreTold
<1>1. StreamInv => StepsAreTold
  BY DEF StreamInv, StepsAreTold, ToldWhileToolRuns, TimelineIsWhole
<1> QED BY <1>1, StreamBegins, StreamSteps, PTL

----------------------------------------------------------------------------
\* The searches of the path tools.

\* What is within reach of one hop more.
Wider(a, c, places) == places \cup UNION {Hops(c, a, x) : x \in places}

\* The reference is the function its equations describe, by induction on the
\* number of hops.
LEMMA WithinDef ==
  ASSUME NEW c, NEW a, a.depth \in Nat
  PROVE  LET w == Within(c, a)
         IN w[0] = {a.from} /\ \A k \in 1..a.depth : w[k] = Wider(a, c, w[k - 1])
<1> DEFINE Top == a.depth
           Next1(f, k) == IF k = 0 THEN {a.from} ELSE Wider(a, c, f[k - 1])
           Fill(f, k) == \A p \in 0..k : f[p] = Next1(f, p)
           Up == {k \in 0..Top : \E f : f = [p \in 0..k |-> f[p]] /\ Fill(f, k)}
           Bad == (0..Top) \ Up
<1>1. Top \in Nat
  OBVIOUS
<1> HIDE DEF Top
<1>2. 0 \in Up
  <2> DEFINE f == [p \in 0..0 |-> {a.from}]
  <2>1. f = [p \in 0..0 |-> f[p]] /\ Fill(f, 0)
    OBVIOUS
  <2> HIDE DEF Fill, f
  <2> QED BY <1>1, <2>1
<1>3. ASSUME NEW k \in Up, k + 1 \in 0..Top PROVE k + 1 \in Up
  <2>1. PICK f : f = [p \in 0..k |-> f[p]] /\ Fill(f, k)
    OBVIOUS
  <2> DEFINE g == [p \in 0..(k + 1) |-> IF p = k + 1 THEN Next1(f, k + 1) ELSE f[p]]
  <2>2. \A p \in 0..k : g[p] = f[p]
    BY <1>1
  <2>3. g[k + 1] = Next1(f, k + 1) /\ k + 1 # 0 /\ (k + 1) - 1 = k /\ k \in 0..k
    BY <1>1
  <2> HIDE DEF Next1
  <2>4. g = [p \in 0..(k + 1) |-> g[p]]
    OBVIOUS
  <2> HIDE DEF g
  <2>5. Next1(g, k + 1) = Next1(f, k + 1)
    BY <2>2, <2>3 DEF Next1
  <2>6. \A p \in 0..k : Next1(g, p) = Next1(f, p)
    <3> TAKE p \in 0..k
    <3>1. p = 0 \/ p - 1 \in 0..k
      BY <1>1
    <3> QED BY <2>2, <3>1 DEF Next1
  <2>7. Fill(g, k + 1)
    <3> TAKE p \in 0..(k + 1)
    <3>1. CASE p = k + 1
      BY <2>3, <2>5, <3>1
    <3>2. CASE p # k + 1
      <4>1. p \in 0..k
        BY <1>1, <3>2
      <4> QED BY <2>1, <2>2, <2>6, <4>1
    <3> QED BY <3>1, <3>2
  <2> HIDE DEF Fill
  <2> QED BY <1>3, <2>4, <2>7
<1>4. Top \in Up
  <2> HIDE DEF Up
  <2> SUFFICES ASSUME Bad # {} PROVE FALSE
    BY <1>1
  <2>0. Bad \in SUBSET Nat
    BY <1>1
  <2>1. PICK k \in Bad : \A n \in Bad : k <= n
    <3> HIDE DEF Bad
    <3> QED BY <2>0, LeastNumber
  <2>2. k # 0 /\ k - 1 \in 0..Top /\ k - 1 \notin Bad /\ (k - 1) + 1 = k
    BY <1>1, <1>2, <2>1
  <2> QED BY <1>3, <2>2
<1>5. PICK f : f = [k \in 0..Top |-> f[k]] /\ Fill(f, Top)
  BY <1>4
<1>6. f = [k \in 0..Top |-> Next1(f, k)]
  <2> HIDE DEF Next1
  <2> QED BY <1>5
<1> DEFINE w == CHOOSE h : h = [k \in 0..Top |-> Next1(h, k)]
<1>7. w = [k \in 0..Top |-> Next1(w, k)]
  <2> HIDE DEF Next1
  <2> QED BY <1>6
<1>8. Within(c, a) = w
  BY DEF Within, Top, Wider
<1> HIDE DEF w
<1>9. \A k \in 0..Top : w[k] = Next1(w, k)
  <2> HIDE DEF Next1
  <2> QED BY <1>7
<1> QED BY <1>1, <1>8, <1>9 DEF Top

\* What can be reached in fewer hops can be reached in more.
LEMMA WithinGrows ==
  ASSUME NEW c, NEW a, a.depth \in Nat, NEW k \in 0..a.depth, NEW m \in 0..k
  PROVE  Within(c, a)[m] \subseteq Within(c, a)[k]
<1> DEFINE w == Within(c, a)
           Bad == {n \in m..a.depth : ~(w[m] \subseteq w[n])}
<1>1. m \in Nat /\ k \in Nat /\ m <= k /\ k <= a.depth
  OBVIOUS
<1>2. \A n \in 1..a.depth : w[n - 1] \subseteq w[n]
  BY WithinDef DEF Wider
<1> HIDE DEF w
<1>3. Bad = {}
  <2> SUFFICES ASSUME Bad # {} PROVE FALSE
    OBVIOUS
  <2>0. Bad \in SUBSET Nat
    BY <1>1
  <2>1. PICK n \in Bad : \A p \in Bad : n <= p
    <3> HIDE DEF Bad
    <3> QED BY <2>0, LeastNumber
  <2>2. n # m /\ n \in 1..a.depth /\ n - 1 \in m..a.depth /\ n - 1 \notin Bad
    BY <1>1, <2>1
  <2> QED BY <1>2, <2>1, <2>2
<1> QED BY <1>1, <1>3 DEF w

\* What is asked.
PathTypes == sheetContext \in Contexts /\ asked.depth \in Nat
LEMMA AskedTyped == ASSUME NetlistInit PROVE PathTypes
<1>1. sheetContext \in Contexts /\ Len(sheetContext.nets) \in Nat
  BY ContextsAssumption DEF NetlistInit, IsList
<1>2. \A over, mode, from, to, depth : Ask(over, mode, from, to, depth).depth = depth
  BY DEF Ask
<1>3. \/ asked \in PowerAsks(sheetContext) \/ asked \in ControlAsks(sheetContext)
      \/ asked \in BlockAsks(sheetContext) \/ asked \in EvidenceAsks(sheetContext)
  BY DEF NetlistInit
<1>4. CASE asked \in PowerAsks(sheetContext)
  <2>1. asked.depth = TraceDepth
    BY <1>2, <1>4 DEF PowerAsks
  <2> QED BY <1>1, <2>1, NetlistAssumption DEF PathTypes
<1>5. CASE asked \in ControlAsks(sheetContext)
  <2>1. asked.depth = TraceDepth
    BY <1>2, <1>5 DEF ControlAsks
  <2> QED BY <1>1, <2>1, NetlistAssumption DEF PathTypes
<1>6. CASE asked \in BlockAsks(sheetContext)
  <2>1. asked.depth = BlockDepth
    BY <1>2, <1>6 DEF BlockAsks
  <2> QED BY <1>1, <2>1, NetlistAssumption DEF PathTypes
<1>7. CASE asked \in EvidenceAsks(sheetContext)
  <2>1. asked.depth = Len(sheetContext.nets)
    BY <1>2, <1>7 DEF EvidenceAsks
  <2> QED BY <1>1, <2>1 DEF PathTypes
<1> QED BY <1>3, <1>4, <1>5, <1>6, <1>7

From(x) == Hops(sheetContext, asked, x)
Places == {asked.from} \cup DOMAIN sheetContext.comps \cup DOMAIN sheetContext.nets
LEMMA HopsFinite == ASSUME PathTypes, NEW x PROVE IsFiniteSet(From(x)) /\ From(x) \subseteq Places
<1>1. /\ Len(sheetContext.comps) \in Nat /\ DOMAIN sheetContext.comps = 1..Len(sheetContext.comps)
      /\ Len(sheetContext.nets) \in Nat /\ DOMAIN sheetContext.nets = 1..Len(sheetContext.nets)
  BY ContextsAssumption DEF PathTypes, IsList
<1>2. IsFiniteSet(DOMAIN sheetContext.comps) /\ IsFiniteSet(DOMAIN sheetContext.nets)
  BY <1>1, FS_Interval
<1>3. From(x) \subseteq DOMAIN sheetContext.comps \/ From(x) \subseteq DOMAIN sheetContext.nets
  BY DEF From, Hops, Neighbours, NextNets
<1> QED BY <1>2, <1>3, FS_Subset DEF Places

\* Whatever the order of the new places, they are all there.
LEMMA OrderedAll ==
  ASSUME NEW S, IsFiniteSet(S), NEW new \in SetToSeqs(S)
  PROVE  new \in Seq(S) /\ {new[k] : k \in DOMAIN new} = S /\ DOMAIN new = 1..Len(new)
<1> DEFINE n == Cardinality(S)
           D == 1..n
<1>1. n \in Nat
  BY FS_CardinalityType
<1>2. IsFiniteSet(D) /\ Cardinality(D) = n
  BY <1>1, FS_Interval
<1>3. new \in [D -> S] /\ \A j, k \in D : j # k => new[j] # new[k]
  BY DEF SetToSeqs
<1> HIDE DEF n
<1>4. new \in Injection(D, S)
  BY <1>3 DEF Injection, IsInjective
<1>5. new \in Surjection(D, S)
  <2> HIDE DEF D
  <2> QED BY <1>2, <1>4, FS_Injection DEF n
<1>6. {new[k] : k \in DOMAIN new} = S
  BY <1>3, <1>5 DEF Surjection
<1>7. new \in Seq(S) /\ DOMAIN new = 1..Len(new)
  BY <1>1, <1>3
<1> QED BY <1>6, <1>7

\* A path of the frontier: it leads from the start in real hops, as few as
\* there can be.
Reach == Within(sheetContext, asked)
TruePath(p) ==
  /\ p \in Seq(Places) /\ Len(p) > 0 /\ Len(p) <= asked.depth + 1 /\ p[1] = asked.from
  /\ \A k \in 1..(Len(p) - 1) : p[k + 1] \in From(p[k])
  /\ Len(p) > 1 => p[Len(p)] \notin Reach[Len(p) - 2]
End(p) == p[Len(p)]
\* A place that was reached waits in the frontier, or it was taken: it is not
\* the target, and the search went on from it unless the depth forbids that.
Waits(fr, x) == \E j \in 1..Len(fr) : End(fr[j]) = x
Spread(re, x) ==
  x # asked.to /\ (asked.depth > 0 /\ x \in Reach[asked.depth - 1] => From(x) \subseteq re)
\* The frontier is in order, by one hop at most, and whatever is as near as its
\* first path has been reached.
InOrder(fr) ==
  /\ fr \in Seq(Seq(Places))
  /\ \A j \in 1..Len(fr) : TruePath(fr[j]) /\ Len(fr[j]) <= Len(fr[1]) + 1
  /\ \A j, k \in 1..Len(fr) : j < k => Len(fr[j]) <= Len(fr[k])
Searched(fr, re) ==
  /\ InOrder(fr) /\ asked.from \in re
  /\ \A x \in re : Waits(fr, x) \/ Spread(re, x)
  /\ fr # <<>> => Reach[Len(fr[1]) - 1] \subseteq re

\* From the first path of a level on, all places of the level are reached.
LEMMA LevelReached ==
  ASSUME PathTypes, NEW fr, NEW re, InOrder(fr), \A x \in re : Waits(fr, x) \/ Spread(re, x), fr # <<>>,
         NEW m \in Nat, Reach[m] \subseteq re, Len(fr[1]) = m + 2
  PROVE  Reach[m + 1] \subseteq re
<1>1. fr \in Seq(Seq(Places)) /\ Len(fr) \in Nat /\ Len(fr) > 0
  BY DEF InOrder
<1>2. m + 1 <= asked.depth /\ asked.depth \in Nat
  <2>1. TruePath(fr[1])
    BY <1>1 DEF InOrder
  <2>2. Len(fr[1]) <= asked.depth + 1
    BY <2>1 DEF TruePath
  <2> QED BY <2>2 DEF PathTypes
<1>3. \A x \in Reach[m] : From(x) \subseteq re
  <2> SUFFICES ASSUME NEW x \in Reach[m] PROVE From(x) \subseteq re
    OBVIOUS
  <2>1. ~Waits(fr, x)
    <3> SUFFICES ASSUME NEW j \in 1..Len(fr), End(fr[j]) = x PROVE FALSE
      BY DEF Waits
    <3>1. TruePath(fr[j]) /\ Len(fr[j]) <= m + 3 /\ (1 < j => Len(fr[1]) <= Len(fr[j]))
      BY <1>1 DEF InOrder
    <3>2. Len(fr[j]) \in Nat /\ Len(fr[j]) >= m + 2
      BY <1>1, <3>1 DEF TruePath
    <3>3. Reach[m] \subseteq Reach[Len(fr[j]) - 2]
      <4>1. Len(fr[j]) <= asked.depth + 1
        BY <3>1 DEF TruePath
      <4>2. Len(fr[j]) - 2 \in 0..asked.depth /\ m \in 0..(Len(fr[j]) - 2)
        BY <1>2, <3>2, <4>1
      <4> HIDE DEF TruePath
      <4> QED BY <1>2, <4>2, WithinGrows DEF Reach
    <3> QED BY <3>1, <3>2, <3>3 DEF TruePath, End
  <2>2. Spread(re, x)
    BY <2>1
  <2>3. x \in Reach[asked.depth - 1]
    <3>1. asked.depth - 1 \in 0..asked.depth /\ m \in 0..(asked.depth - 1)
      BY <1>2
    <3> QED BY <1>2, <3>1, WithinGrows DEF Reach
  <2> QED BY <1>2, <2>2, <2>3 DEF Spread
<1>4. Reach[m + 1] = Wider(asked, sheetContext, Reach[m])
  <2>1. m + 1 \in 1..asked.depth /\ (m + 1) - 1 = m
    BY <1>2
  <2> QED BY <1>2, <2>1, WithinDef DEF Reach
<1> QED BY <1>3, <1>4 DEF Wider, From

\* One turn of the loop.
Onward(p, re) == IF Len(p) > asked.depth THEN {} ELSE From(End(p)) \ re
Grown(fr, new) == Tail(fr) \o [k \in DOMAIN new |-> Append(fr[1], new[k])]
LEMMA FrontierGrows ==
  ASSUME PathTypes, NEW fr, NEW re, Searched(fr, re), fr # <<>>, End(fr[1]) # asked.to,
         NEW new \in SetToSeqs(Onward(fr[1], re))
  PROVE  Searched(Grown(fr, new), re \cup {new[k] : k \in DOMAIN new})
<1> DEFINE here == fr[1]
           next == Onward(here, re)
           L == Len(here)
           more == [k \in DOMAIN new |-> Append(here, new[k])]
           later == Tail(fr)
           all == later \o more
           seen == re \cup {new[k] : k \in DOMAIN new}
           N == Len(later)
<1>1. /\ fr \in Seq(Seq(Places)) /\ Len(fr) \in Nat /\ Len(fr) > 0
      /\ later \in Seq(Seq(Places)) /\ N = Len(fr) - 1 /\ \A j \in 1..N : later[j] = fr[j + 1]
  BY DEF Searched, InOrder
<1>2. asked.depth \in Nat /\ IsFiniteSet(next) /\ next \subseteq Places
  <2>1. IsFiniteSet(From(End(fr[1]))) /\ From(End(fr[1])) \subseteq Places
    BY HopsFinite
  <2>2. next \subseteq From(End(fr[1]))
    BY DEF Onward
  <2> QED BY <2>1, <2>2, FS_Subset DEF PathTypes
<1>3. new \in Seq(next) /\ {new[k] : k \in DOMAIN new} = next /\ DOMAIN new = 1..Len(new) /\ Len(new) \in Nat
  <2> HIDE DEF next
  <2>1. new \in SetToSeqs(next)
    BY DEF next
  <2> QED BY <1>2, <2>1, OrderedAll
<1>4. TruePath(here) /\ L \in Nat /\ here \in Seq(Places)
  BY <1>1 DEF Searched, InOrder, TruePath
<1>5. L > 0 /\ L <= asked.depth + 1
  BY <1>4 DEF TruePath
<1> HIDE DEF later
<1>6. \A y \in next : L <= asked.depth /\ y \in From(End(here)) /\ y \notin Reach[L - 1] /\ y \in Places
  BY <1>1, <1>2, <1>4 DEF Searched, Onward
<1> HIDE DEF next
<1>7. \A y \in next : LET p == Append(here, y) IN p \in Seq(Places) /\ TruePath(p) /\ Len(p) = L + 1 /\ End(p) = y
  <2> SUFFICES ASSUME NEW y \in next, NEW p, p = Append(here, y)
               PROVE  p \in Seq(Places) /\ TruePath(p) /\ Len(p) = L + 1 /\ End(p) = y
    BY Zenon
  <2> HIDE DEF here
  <2>1. y \in Places
    BY <1>6
  <2>2. /\ p \in Seq(Places) /\ Len(p) = L + 1 /\ p[L + 1] = y
        /\ \A k \in 1..L : p[k] = here[k]
    BY <1>4, <2>1, AppendProperties
  <2>3. \A k \in 1..(Len(p) - 1) : p[k + 1] \in From(p[k])
    <3> TAKE k \in 1..(Len(p) - 1)
    <3>1. CASE k = L
      BY <1>4, <1>5, <1>6, <2>2, <3>1 DEF End
    <3>2. CASE k # L
      <4>1. k \in 1..(L - 1) /\ k + 1 \in 1..L /\ k \in 1..L
        BY <1>4, <2>2, <3>2
      <4> QED BY <1>4, <2>2, <4>1 DEF TruePath
    <3> QED BY <3>1, <3>2
  <2>4. p[1] = asked.from
    BY <1>4, <1>5, <2>2 DEF TruePath
  <2>5. Len(p) - 2 = L - 1 /\ Len(p) > 0 /\ Len(p) <= asked.depth + 1
    BY <1>2, <1>4, <1>5, <1>6, <2>2
  <2> QED BY <1>6, <2>2, <2>3, <2>4, <2>5 DEF TruePath, End
<1>8. /\ more \in Seq(Seq(Places)) /\ Len(more) = Len(new)
      /\ \A k \in 1..Len(new) : more[k] = Append(here, new[k]) /\ new[k] \in next
  <2> HIDE DEF here
  <2>1. \A k \in 1..Len(new) : new[k] \in next
    BY <1>3
  <2>2. \A k \in 1..Len(new) : Append(here, new[k]) \in Seq(Places)
    BY <1>7, <2>1
  <2> QED BY <1>3, <2>1, <2>2
<1>9. \A j \in 1..N : TruePath(later[j]) /\ L <= Len(later[j]) /\ Len(later[j]) <= L + 1 /\ Len(later[j]) \in Nat
  <2> TAKE j \in 1..N
  <2>1. j + 1 \in 1..Len(fr) /\ 1 \in 1..Len(fr) /\ 1 < j + 1 /\ later[j] = fr[j + 1]
    BY <1>1
  <2>2. TruePath(fr[j + 1]) /\ L <= Len(fr[j + 1]) /\ Len(fr[j + 1]) <= L + 1
    BY <2>1 DEF Searched, InOrder
  <2> QED BY <2>1, <2>2 DEF TruePath
<1> HIDE DEF more, here
<1>10. /\ all \in Seq(Seq(Places)) /\ Len(all) = N + Len(new)
       /\ \A j \in 1..Len(all) : all[j] = IF j <= N THEN later[j] ELSE more[j - N]
  <2>1. N \in Nat /\ Len(more) \in Nat
    BY <1>1, <1>3, <1>8
  <2>2. /\ all \in Seq(Seq(Places)) /\ Len(all) = N + Len(more)
        /\ \A j \in 1..(N + Len(more)) : all[j] = IF j <= N THEN later[j] ELSE more[j - N]
    <3>1. later \in Seq(Seq(Places)) /\ more \in Seq(Seq(Places))
      BY <1>1, <1>8
    <3> QED BY <3>1, ConcatProperties
  <2> HIDE DEF all
  <2> QED BY <1>8, <2>1, <2>2
<1>11. \A j \in 1..Len(all) : TruePath(all[j]) /\ L <= Len(all[j]) /\ Len(all[j]) <= L + 1 /\ Len(all[j]) \in Nat
                              /\ (j > N => Len(all[j]) = L + 1 /\ End(all[j]) = new[j - N])
  <2> TAKE j \in 1..Len(all)
  <2>1. CASE j <= N
    <3>1. j \in 1..N /\ all[j] = later[j]
      BY <1>1, <1>10, <2>1
    <3> HIDE DEF all
    <3> QED BY <1>9, <2>1, <3>1
  <2>2. CASE j > N
    <3>1. j - N \in 1..Len(new) /\ all[j] = more[j - N]
      BY <1>1, <1>3, <1>10, <2>2
    <3>2. all[j] = Append(here, new[j - N]) /\ new[j - N] \in next
      BY <1>8, <3>1
    <3>3. TruePath(all[j]) /\ Len(all[j]) = L + 1 /\ End(all[j]) = new[j - N]
      BY <1>7, <3>2
    <3> HIDE DEF all
    <3> QED BY <1>4, <3>3
  <2>3. j <= N \/ j > N
    BY <1>1
  <2> QED BY <2>1, <2>2, <2>3
<1> HIDE DEF all
<1>12. \A j, k \in 1..Len(all) : j < k => Len(all[j]) <= Len(all[k])
  <2> SUFFICES ASSUME NEW j \in 1..Len(all), NEW k \in 1..Len(all), j < k PROVE Len(all[j]) <= Len(all[k])
    OBVIOUS
  <2>1. CASE k > N
    BY <1>4, <1>11, <2>1
  <2>2. CASE k <= N
    <3>1. all[j] = later[j] /\ all[k] = later[k] /\ j \in 1..N /\ k \in 1..N
      BY <1>1, <1>10, <2>2
    <3>2. later[j] = fr[j + 1] /\ later[k] = fr[k + 1]
      BY <1>1, <3>1
    <3>3. j + 1 \in 1..Len(fr) /\ k + 1 \in 1..Len(fr) /\ j + 1 < k + 1
      BY <1>1, <3>1
    <3> QED BY <3>1, <3>2, <3>3 DEF Searched, InOrder
  <2> QED BY <1>1, <2>1, <2>2
<1>13. InOrder(all)
  <2>1. \A j \in 1..Len(all) : Len(all[j]) <= Len(all[1]) + 1
    <3> TAKE j \in 1..Len(all)
    <3>1. 1 \in 1..Len(all)
      BY <1>1, <1>3, <1>10
    <3> QED BY <1>4, <1>11, <3>1
  <2> QED BY <1>10, <1>11, <1>12, <2>1 DEF InOrder
<1>14. seen = re \cup next
  BY <1>3
<1> HIDE DEF seen
<1>15. \A x \in seen : Waits(all, x) \/ Spread(seen, x)
  <2> SUFFICES ASSUME NEW x \in seen PROVE Waits(all, x) \/ Spread(seen, x)
    OBVIOUS
  <2>1. CASE x \in next
    <3>1. PICK k \in 1..Len(new) : new[k] = x
      BY <1>3, <2>1
    <3>2. N + k \in 1..Len(all) /\ N + k > N /\ (N + k) - N = k
      BY <1>1, <1>3, <1>10
    <3>3. End(all[N + k]) = x
      BY <1>11, <3>1, <3>2
    <3> QED BY <3>2, <3>3 DEF Waits
  <2>2. CASE x \in re /\ Spread(re, x)
    BY <1>14, <2>2 DEF Spread
  <2>3. CASE x \in re /\ Waits(fr, x)
    <3>1. PICK j \in 1..Len(fr) : End(fr[j]) = x
      BY <2>3 DEF Waits
    <3>2. CASE j = 1
      <4>1. x = End(here) /\ x # asked.to
        BY <3>1, <3>2 DEF here
      <4>2. CASE L <= asked.depth
        <5>1. next = From(x) \ re
          BY <1>2, <1>4, <4>1, <4>2 DEF next, Onward
        <5> QED BY <1>14, <4>1, <5>1 DEF Spread
      <4>3. CASE L > asked.depth
        <5>1. L = asked.depth + 1
          BY <1>2, <1>4, <1>5, <4>3
        <5>2. asked.depth > 0 => x \notin Reach[asked.depth - 1]
          <6>1. L - 2 = asked.depth - 1 /\ (asked.depth > 0 => L > 1)
            BY <1>2, <5>1
          <6> QED BY <1>4, <4>1, <6>1 DEF TruePath, End
        <5> QED BY <4>1, <5>2 DEF Spread
      <4> QED BY <1>2, <1>4, <4>2, <4>3
    <3>3. CASE j # 1
      <4>1. j - 1 \in 1..N /\ j - 1 \in 1..Len(all) /\ (j - 1) + 1 = j /\ j - 1 <= N
        BY <1>1, <1>3, <1>10, <3>3
      <4>2. all[j - 1] = later[j - 1] /\ later[j - 1] = fr[j]
        BY <1>1, <1>10, <4>1
      <4> QED BY <3>1, <4>1, <4>2 DEF Waits
    <3> QED BY <3>2, <3>3
  <2> QED BY <1>14, <2>1, <2>2, <2>3 DEF Searched
<1>16. Reach[L - 1] \subseteq seen
  BY <1>1, <1>14 DEF Searched, here
<1>17. all # <<>> => Reach[Len(all[1]) - 1] \subseteq seen
  <2> SUFFICES ASSUME all # <<>> PROVE Reach[Len(all[1]) - 1] \subseteq seen
    OBVIOUS
  <2>1. 1 \in 1..Len(all)
    BY <1>10
  <2>2. CASE Len(all[1]) = L
    BY <1>16, <2>2
  <2>3. CASE Len(all[1]) # L
    <3>1. Len(all[1]) = L + 1
      BY <1>4, <1>11, <2>1, <2>3
    <3>2. L - 1 \in Nat /\ L + 1 = (L - 1) + 2 /\ (L - 1) + 1 = Len(all[1]) - 1
      BY <1>4, <1>5, <3>1
    <3>3. Reach[(L - 1) + 1] \subseteq seen
      BY <1>13, <1>15, <1>16, <3>1, <3>2, LevelReached
    <3> QED BY <3>2, <3>3
  <2> QED BY <2>2, <2>3
<1>18. asked.from \in seen
  BY <1>14 DEF Searched
<1>19. Searched(all, seen)
  BY <1>13, <1>15, <1>17, <1>18 DEF Searched
<1> QED BY <1>19 DEF all, seen, more, later, here, Grown

\* When nothing waits any more, all that is near enough was reached, and the
\* target was not.
LEMMA AllReached ==
  ASSUME PathTypes, NEW re, Searched(<<>>, re)
  PROVE  asked.to \notin Reach[asked.depth]
<1> DEFINE D == asked.depth
           Bad == {k \in 0..D : ~(Reach[k] \subseteq re)}
<1>1. D \in Nat
  BY DEF PathTypes
<1>2. \A x \in re : Spread(re, x)
  <2>1. \A x : ~Waits(<<>>, x)
    BY DEF Waits
  <2> QED BY <2>1 DEF Searched
<1>3. Reach[0] = {asked.from} /\ \A k \in 1..D : Reach[k] = Wider(asked, sheetContext, Reach[k - 1])
  BY <1>1, WithinDef DEF Reach
<1>4. Bad = {}
  <2> SUFFICES ASSUME Bad # {} PROVE FALSE
    OBVIOUS
  <2>0. Bad \in SUBSET Nat
    BY <1>1
  <2>1. PICK k \in Bad : \A n \in Bad : k <= n
    <3> HIDE DEF Bad
    <3> QED BY <2>0, LeastNumber
  <2>2. k # 0
    BY <1>3, <2>1 DEF Searched
  <2>3. k \in 1..D /\ k - 1 \in 0..D /\ k - 1 \notin Bad /\ k - 1 \in 0..(D - 1) /\ D - 1 \in 0..D
    BY <1>1, <2>1, <2>2
  <2>4. Reach[k - 1] \subseteq re /\ Reach[k - 1] \subseteq Reach[D - 1]
    <3>1. Reach[k - 1] \subseteq Reach[D - 1]
      BY <1>1, <2>3, WithinGrows DEF Reach
    <3> QED BY <2>3, <3>1
  <2>5. \A x \in Reach[k - 1] : From(x) \subseteq re
    <3>1. D > 0
      BY <1>1, <2>3
    <3> QED BY <1>2, <2>4, <3>1 DEF Spread
  <2>6. Reach[k] \subseteq re
    BY <1>3, <2>3, <2>4, <2>5 DEF Wider, From
  <2> QED BY <2>1, <2>6
<1>5. Reach[D] \subseteq re
  BY <1>1, <1>4
<1> QED BY <1>2, <1>5 DEF Spread

\* The ends of the frontier's paths lie within their hops.
LEMMA EndsNear ==
  ASSUME PathTypes, NEW p, TruePath(p)
  PROVE  End(p) \in Reach[Len(p) - 1]
<1> DEFINE Bad == {k \in 1..Len(p) : p[k] \notin Reach[k - 1]}
<1>1. /\ asked.depth \in Nat /\ Len(p) \in Nat /\ Len(p) > 0 /\ Len(p) <= asked.depth + 1
      /\ p[1] = asked.from /\ \A k \in 1..(Len(p) - 1) : p[k + 1] \in From(p[k])
  BY DEF PathTypes, TruePath
<1>2. Reach[0] = {asked.from} /\ \A k \in 1..asked.depth : Reach[k] = Wider(asked, sheetContext, Reach[k - 1])
  BY <1>1, WithinDef DEF Reach
<1>3. Bad = {}
  <2> SUFFICES ASSUME Bad # {} PROVE FALSE
    OBVIOUS
  <2>0. Bad \in SUBSET Nat
    BY <1>1
  <2>1. PICK k \in Bad : \A n \in Bad : k <= n
    <3> HIDE DEF Bad
    <3> QED BY <2>0, LeastNumber
  <2>2. k # 1 /\ k \in 1..Len(p)
    BY <1>1, <1>2, <2>1
  <2>3. k - 1 \in 1..Len(p) /\ k - 1 \notin Bad /\ k - 1 \in 1..(Len(p) - 1) /\ (k - 1) + 1 = k
        /\ k - 1 \in 1..asked.depth
    BY <1>1, <2>1, <2>2
  <2>4. p[k - 1] \in Reach[(k - 1) - 1] /\ p[k] \in From(p[k - 1])
    BY <1>1, <2>3
  <2>5. p[k] \in Reach[k - 1]
    BY <1>2, <2>3, <2>4 DEF Wider, From
  <2> QED BY <2>1, <2>5
<1>4. Len(p) \in 1..Len(p) /\ Len(p) \notin Bad
  BY <1>1, <1>3
<1> QED BY <1>4 DEF End

\* All that was reached lies within the hops allowed, which are finitely many
\* places.
Near(re) == re \subseteq Reach[asked.depth]
LEMMA GrownNear ==
  ASSUME PathTypes, NEW p, TruePath(p), NEW re, Near(re)
  PROVE  Near(re \cup Onward(p, re))
<1>1. asked.depth \in Nat /\ Len(p) \in Nat /\ Len(p) > 0
  BY DEF PathTypes, TruePath
<1>2. CASE Len(p) > asked.depth
  BY <1>2 DEF Onward, Near
<1>3. CASE Len(p) <= asked.depth
  <2>1. Len(p) \in 1..asked.depth /\ Len(p) \in 0..asked.depth /\ asked.depth \in 0..asked.depth
    BY <1>1, <1>3
  <2>2. From(End(p)) \subseteq Reach[Len(p)]
    <3>1. Reach[Len(p)] = Wider(asked, sheetContext, Reach[Len(p) - 1])
      BY <1>1, <2>1, WithinDef DEF Reach
    <3> QED BY <3>1, EndsNear DEF Wider, From
  <2>3. Reach[Len(p)] \subseteq Reach[asked.depth]
    BY <1>1, <2>1, WithinGrows DEF Reach
  <2> QED BY <2>2, <2>3 DEF Onward, Near
<1> QED BY <1>1, <1>2, <1>3

LEMMA ReachFinite == ASSUME PathTypes PROVE IsFiniteSet(Reach[asked.depth])
<1> DEFINE Bad == {k \in 0..asked.depth : ~(Reach[k] \subseteq Places)}
<1>1. asked.depth \in Nat
  BY DEF PathTypes
<1>2. Reach[0] = {asked.from} /\ \A k \in 1..asked.depth : Reach[k] = Wider(asked, sheetContext, Reach[k - 1])
  BY <1>1, WithinDef DEF Reach
<1>3. \A x : From(x) \subseteq Places
  BY HopsFinite
<1>4. Bad = {}
  <2> SUFFICES ASSUME Bad # {} PROVE FALSE
    OBVIOUS
  <2>0. Bad \in SUBSET Nat
    BY <1>1
  <2>1. PICK k \in Bad : \A n \in Bad : k <= n
    <3> HIDE DEF Bad
    <3> QED BY <2>0, LeastNumber
  <2>2. k # 0
    BY <1>2, <2>1 DEF Places
  <2>3. k \in 1..asked.depth /\ k - 1 \in 0..asked.depth /\ k - 1 \notin Bad
    BY <1>1, <2>1, <2>2
  <2>4. Reach[k] \subseteq Places
    BY <1>2, <1>3, <2>3 DEF Wider, From
  <2> QED BY <2>1, <2>4
<1>5. Reach[asked.depth] \subseteq Places
  BY <1>1, <1>4
<1>6. IsFiniteSet(Places)
  <2>1. /\ Len(sheetContext.comps) \in Nat /\ DOMAIN sheetContext.comps = 1..Len(sheetContext.comps)
        /\ Len(sheetContext.nets) \in Nat /\ DOMAIN sheetContext.nets = 1..Len(sheetContext.nets)
    BY ContextsAssumption DEF PathTypes, IsList
  <2>2. IsFiniteSet(DOMAIN sheetContext.comps) /\ IsFiniteSet(DOMAIN sheetContext.nets)
    BY <2>1, FS_Interval
  <2> QED BY <2>2, FS_Singleton, FS_Union DEF Places
<1> QED BY <1>5, <1>6, FS_Subset

\* A search that met more nets than it takes: they all lie within the hops.
LEMMA DroppedFar == ASSUME PathTypes, NEW re, Near(re), TooMany(re) PROVE TooMany(Reach[asked.depth])
<1>1. IsFiniteSet(re) /\ Cardinality(re) <= Cardinality(Reach[asked.depth])
  BY ReachFinite, FS_Subset DEF Near
<1>2. Cardinality(re) \in Nat /\ Cardinality(Reach[asked.depth]) \in Nat
  BY <1>1, ReachFinite, FS_CardinalityType
<1> QED BY <1>1, <1>2, NetlistAssumption DEF TooMany

Dropped(fr) == fr = <<>> /\ TooMany(Reach[asked.depth])
PathInv ==
  /\ PathTypes /\ PathsAreTrue
  /\ path = Unknown => Near(reached) /\ (Searched(frontier, reached) \/ Dropped(frontier))

LEMMA PathBegins == ASSUME NetlistInit PROVE PathInv
<1> DEFINE start == <<asked.from>>
           fr == <<start>>
<1>1. PathTypes /\ frontier = fr /\ reached = {asked.from} /\ path = Unknown
  BY AskedTyped DEF NetlistInit
<1>2. asked.depth \in Nat /\ Reach[0] = {asked.from}
  BY <1>1, WithinDef DEF Reach, PathTypes
<1>3. start \in Seq(Places) /\ Len(start) = 1 /\ start[1] = asked.from
  BY DEF Places
<1> HIDE DEF start
<1>4. fr \in Seq(Seq(Places)) /\ Len(fr) = 1 /\ fr[1] = start
  BY <1>3
<1>5. TruePath(start) /\ End(start) = asked.from
  BY <1>2, <1>3 DEF TruePath, End
<1> HIDE DEF fr
<1>6. InOrder(fr)
  BY <1>3, <1>4, <1>5 DEF InOrder
<1>7. Waits(fr, asked.from)
  BY <1>4, <1>5 DEF Waits
<1>8. Searched(fr, {asked.from})
  <2>1. Len(fr[1]) - 1 = 0
    BY <1>3, <1>4
  <2>2. Reach[Len(fr[1]) - 1] \subseteq {asked.from}
    BY <1>2, <2>1
  <2> QED BY <1>6, <1>7, <2>2 DEF Searched
<1>9. Near({asked.from})
  <2>1. asked.depth \in 0..asked.depth /\ 0 \in 0..asked.depth
    BY <1>2
  <2> QED BY <1>2, <2>1, WithinGrows DEF Near, Reach
<1> QED BY <1>1, <1>8, <1>9 DEF PathInv, PathsAreTrue

LEMMA TakeHolds == ASSUME PathInv, Take PROVE PathInv'
<1> DEFINE here == Head(frontier)
           next == IF Len(here) > asked.depth THEN {} ELSE From(End(here)) \ reached
<1>1. /\ path = Unknown /\ frontier # <<>> /\ sheetContext' = sheetContext /\ asked' = asked
      /\ Searched(frontier, reached) /\ PathTypes /\ Near(reached)
  BY DEF Take, PathInv, Dropped
<1>2. PathTypes'
  BY <1>1 DEF PathTypes
<1>3. frontier \in Seq(Seq(Places)) /\ Len(frontier) > 0 /\ here = frontier[1] /\ TruePath(here)
  BY <1>1 DEF Searched, InOrder
<1>4. CASE End(here) = asked.to
  <2>1. path' = here /\ frontier' = frontier /\ reached' = reached
    BY <1>4 DEF Take, End
  <2>2. PathsAreTrue'
    <3>1. asked.depth \in Nat /\ Len(here) \in Nat
      BY <1>1, <1>3 DEF PathTypes, TruePath
    <3>2. Len(here) > 1 => here[Len(here)] \notin Reach[(Len(here) - 1) - 1]
      <4>1. (Len(here) - 1) - 1 = Len(here) - 2
        BY <3>1
      <4> QED BY <1>3, <4>1 DEF TruePath
    <3> HIDE DEF here
    <3> QED BY <1>1, <1>3, <1>4, <2>1, <3>1, <3>2 DEF PathsAreTrue, TruePath, End, Reach, From
  <2>3. Near(reached)' /\ Searched(frontier, reached)'
    BY <1>1, <2>1 DEF Near, Searched, InOrder, TruePath, Waits, Spread, Reach, From, Places
  <2> QED BY <1>2, <2>2, <2>3 DEF PathInv
<1>5. CASE End(here) # asked.to
  <2>1. PICK new \in SetToSeqs(next) :
          /\ reached' = reached \cup {new[k] : k \in DOMAIN new} /\ path' = path
          /\ frontier' = IF TooMany(reached') THEN <<>>
                         ELSE Tail(frontier) \o [k \in DOMAIN new |-> Append(here, new[k])]
    BY <1>5 DEF Take, End, From
  <2>2. ~TooMany(reached') => Searched(frontier', reached')
    <3>1. next = Onward(frontier[1], reached) /\ End(frontier[1]) # asked.to
      BY <1>3, <1>5 DEF Onward
    <3>2. Searched(Grown(frontier, new), reached \cup {new[k] : k \in DOMAIN new})
      <4>1. new \in SetToSeqs(Onward(frontier[1], reached))
        BY <2>1, <3>1
      <4> HIDE DEF here, next
      <4> QED BY <1>1, <3>1, <4>1, FrontierGrows
    <3>3. ~TooMany(reached') => frontier' = Grown(frontier, new)
      <4> HIDE DEF here
      <4> QED BY <1>3, <2>1 DEF Grown
    <3> QED BY <2>1, <3>2, <3>3
  <2>3. PathsAreTrue'
    BY <1>1, <2>1 DEF PathsAreTrue, Unknown
  <2>4. Near(reached')
    <3>1. next = Onward(here, reached) /\ IsFiniteSet(next)
      <4>1. IsFiniteSet(From(End(here)))
        BY <1>1, HopsFinite
      <4> QED BY <4>1, FS_Difference, FS_EmptySet DEF Onward
    <3>2. {new[k] : k \in DOMAIN new} = next
      <4> HIDE DEF next
      <4> QED BY <2>1, <3>1, OrderedAll
    <3>3. Near(reached \cup Onward(here, reached))
      <4> HIDE DEF here, next
      <4> QED BY <1>1, <1>3, GrownNear
    <3> QED BY <2>1, <3>1, <3>2, <3>3
  <2>5. TooMany(reached') => Dropped(frontier')
    BY <1>1, <2>1, <2>4, DroppedFar DEF Dropped
  <2>6. (Near(reached') => Near(reached)') /\ (Dropped(frontier') => Dropped(frontier)')
        /\ (Searched(frontier', reached') => Searched(frontier, reached)')
    BY <1>1 DEF Near, Dropped, TooMany, Searched, InOrder, TruePath, Waits, Spread, Reach, From, Places
  <2> QED BY <1>2, <2>2, <2>3, <2>4, <2>5, <2>6 DEF PathInv
<1> QED BY <1>4, <1>5

LEMMA GiveUpHolds == ASSUME PathInv, GiveUp PROVE PathInv'
<1>1. /\ path = Unknown /\ frontier = <<>> /\ sheetContext' = sheetContext /\ asked' = asked
      /\ frontier' = frontier /\ reached' = reached
      /\ path' \in {<<asked.from>>, <<>>} /\ PathTypes
      /\ Near(reached) /\ (Searched(frontier, reached) \/ Dropped(frontier))
  BY DEF GiveUp, PathInv
<1>2. asked.to \notin Reach[asked.depth] \/ TooMany(Reach[asked.depth])
  BY <1>1, AllReached DEF Dropped
<1>3. Len(path') <= 1
  <2>1. CASE path' = <<asked.from>>
    BY <2>1
  <2>2. CASE path' = <<>>
    BY <2>2
  <2> QED BY <1>1, <2>1, <2>2
<1>4. PathsAreTrue'
  BY <1>1, <1>2, <1>3 DEF PathsAreTrue, Reach, TooMany
<1>5. PathTypes' /\ Near(reached)' /\ (Searched(frontier, reached)' \/ Dropped(frontier)')
  BY <1>1 DEF PathTypes, Near, Dropped, TooMany, Searched, InOrder, TruePath, Waits, Spread, Reach, From, Places
<1> QED BY <1>4, <1>5 DEF PathInv

\* What the model is told of how parts hang together is so, on every sheet; on
\* one with more nets than the search takes a path over nets may be missed.
THEOREM PathsAreTrueHolds == NetlistInit /\ [][NetlistNext]_netlistVars => []PathsAreTrue
<1>1. PathInv /\ [NetlistNext]_netlistVars => PathInv'
  <2>1. PathInv /\ UNCHANGED netlistVars => PathInv'
    BY DEF netlistVars, PathInv, PathTypes, PathsAreTrue, TooMany, Near, Dropped, Searched, InOrder, TruePath,
       Waits, Spread, Reach, From, Places
  <2> QED BY <2>1, TakeHolds, GiveUpHolds DEF NetlistNext
<1>2. PathInv => PathsAreTrue
  BY DEF PathInv
<1> QED BY <1>1, <1>2, PathBegins, PTL
=============================================================================
