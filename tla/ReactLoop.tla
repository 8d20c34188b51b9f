------------------------------ MODULE ReactLoop ------------------------------
(***************************************************************************)
(* One run of the plugin's agent: runUnifiedReactAgent around runReActLoop. *)
(* The model is asked, decides, a tool runs, its result goes back into the *)
(* conversation, until the model gives a final answer or the iterations    *)
(* are used up.  JavaScript runs on until it waits for the model, a tool   *)
(* or the network, so an action is what happens between two such waits.    *)
(* The user may stop the run at any time (AbortSignal).                    *)
(*                                                                         *)
(* Drafts are numbered: plan is the current draft, preview and risk.of say *)
(* which draft the preview and the validation were made for.               *)
(***************************************************************************)
EXTENDS Naturals, Sequences, FiniteSets

CONSTANT MaxIterations \* 50 in the code
ASSUME IterationAssumption == MaxIterations \in Nat

VARIABLES
  task,      \* [kind, intent, adapter]: the kind of the task, what a follow-up
             \* wants of an existing draft, and whether an editor is attached
  pc,        \* "top", "thinking", "running", "previewing", or how the run ended
  i,         \* iterations begun
  tool,      \* the tool that is running: [name, own]
  cancelled, \* signal.aborted
  used,      \* usedTools
  traces,    \* toolTraces: the tools that succeeded and that were blocked
  forceOff,  \* forceDisableToolCalling
  messages,  \* what the loop appended to the conversation
  events,    \* status of each iteration's event
  context,   \* liveContext is there
  checked,   \* checkResult is there
  plan, preview, risk, drafts, \* the draft, its preview, its risk, drafts so far
  result     \* what the run returned

drafting == <<plan, preview, risk, drafts>>
agentVars == <<task, pc, i, tool, cancelled, used, traces, forceOff, messages, events,
          context, checked, drafting, result>>

None == 0
Foreign == MaxIterations + 2 \* a draft the model wrote into the call itself
Kinds == {"chat", "analysis", "draft"}
Intents == {"none", "revise", "repair", "risk", "summarize"}
Routes == {"none", "chat", "analysis", "draft", "modify"}
Ended == {"returned", "cancelled", "failed"}

\* Tools that differ for the loop; "other" stands for the searches and todo_list.
Tools == {"context", "checks", "review", "generate", "preview", "repair", "validate", "other"}

----------------------------------------------------------------------------
\* What the task allows and asks for.

TaskKind == CASE task.intent = "revise" -> "draft"
              [] task.intent = "risk" -> "analysis"
              [] task.intent \in {"repair", "summarize"} -> "chat"
              [] OTHER -> task.kind

Available == IF task.adapter THEN Tools ELSE {"other"}

Preferred == CASE TaskKind = "analysis" -> {"context", "checks", "review", "other"}
               [] TaskKind = "draft" -> Tools \ {"checks", "review"}
               [] OTHER -> Tools

Withheld == CASE task.intent = "summarize" -> {"generate", "preview", "validate"}
              [] task.intent = "repair" -> {"generate"}
              [] OTHER -> {}

Allowed == (Available \cap Preferred) \ Withheld

Required ==
  Allowed \cap
    CASE TaskKind = "analysis" -> {"checks"} \cup IF task.context THEN {} ELSE {"context"}
      [] TaskKind = "draft" -> {"generate", "preview"}
      [] OTHER -> {}

Missing == Required \ used

\* prepareToolInput: the tools it refuses to call.  The draft tools take a
\* draft of the model's own (own), or the current one.
Refused(t, own) ==
  \/ t \in {"checks", "review"} /\ ~context
  \/ t = "repair" /\ (plan = None \/ ~own) \* own: an applyError is given
  \/ t \in {"preview", "validate"} /\ ~own /\ plan = None

Subject(own) == IF own THEN Foreign ELSE plan

----------------------------------------------------------------------------
\* A run starts.  A follow-up of a draft needs a draft in the panel.
AgentInit ==
  /\ \E kind \in Kinds, intent \in Intents, adapter, ctx, draft \in BOOLEAN :
       /\ intent # "none" => kind = "chat" /\ draft
       /\ kind # "chat" => adapter /\ ctx
       /\ task = [kind |-> kind, intent |-> intent, adapter |-> adapter, context |-> ctx]
       /\ context = ctx
       /\ plan = IF draft THEN 1 ELSE None
       /\ preview = plan /\ drafts = plan
  /\ risk = [level |-> "none", of |-> None]
  /\ pc = "top" /\ i = 0 /\ tool = [name |-> "other", own |-> FALSE]
  /\ cancelled = FALSE /\ used = {} /\ traces = [success |-> {}, blocked |-> {}]
  /\ forceOff = FALSE /\ messages = <<>> /\ events = <<>> /\ checked = FALSE
  /\ result = [route |-> "none", final |-> FALSE]

\* The user stops the turn.
Stop ==
  /\ pc \notin Ended /\ ~cancelled
  /\ cancelled' = TRUE
  /\ UNCHANGED <<task, pc, i, tool, used, traces, forceOff, messages, events, context,
                 checked, drafting, result>>

\* ensureNotCancelled, wherever it is called, and an aborted call.
Cancel ==
  /\ cancelled /\ pc \in {"top", "thinking", "running", "previewing"}
  /\ pc' = "cancelled"
  /\ UNCHANGED <<task, i, tool, cancelled, used, traces, forceOff, messages, events,
                 context, checked, drafting, result>>

\* An iteration begins: its records are appended and the model is asked.
AskModel ==
  /\ pc = "top" /\ i < MaxIterations /\ ~cancelled
  /\ pc' = "thinking" /\ i' = i + 1
  /\ events' = Append(events, "running")
  /\ forceOff' = (forceOff /\ Missing = {})
  /\ UNCHANGED <<task, tool, cancelled, used, traces, messages, context, checked,
                 drafting, result>>

\* The call of the model fails, and the run with it.
ModelFails ==
  /\ pc = "thinking" /\ pc' = "failed"
  /\ UNCHANGED <<task, i, tool, cancelled, used, traces, forceOff, messages, events,
                 context, checked, drafting, result>>

\* The iteration is marked as failed and the model is told why.
Reproach ==
  /\ pc' = "top"
  /\ events' = [events EXCEPT ![i] = "failed"]
  /\ messages' = Append(messages, [role |-> "user", id |-> i])
  /\ UNCHANGED <<task, i, tool, cancelled, traces, context, checked, drafting, result>>

\* Neither a tool call nor a final answer can be read from the output.
DecideRetry ==
  /\ pc = "thinking" /\ ~cancelled
  /\ forceOff' = (forceOff \/ Missing = {})
  /\ Reproach /\ UNCHANGED used

\* A tool that is not offered.
DecideUnknown ==
  /\ pc = "thinking" /\ ~cancelled
  /\ Reproach /\ UNCHANGED <<used, forceOff>>

\* A final answer while required tools are missing.
DecideTooEarly ==
  /\ pc = "thinking" /\ ~cancelled /\ Missing # {}
  /\ Reproach /\ UNCHANGED <<used, forceOff>>

\* What runUnifiedReactAgent makes of the loop's result: the route the model
\* named, or one inferred from what there is, and a preview if a draft lacks one.
Inferred ==
  IF ~checked THEN "chat"
  ELSE IF plan # None \/ preview # None \/ risk.of # None THEN "draft" ELSE "analysis"
Conclude(route, final) ==
  LET r == IF route = "none" THEN Inferred ELSE route
  IN /\ result' = [route |-> r, final |-> final]
     /\ pc' = IF r = "draft" /\ plan # None /\ preview = None /\ task.adapter
                THEN "previewing" ELSE "returned"

EagerFinal(route) == \* (seeded bug: the final answer is taken at once)
  /\ pc = "thinking" /\ ~cancelled
  /\ events' = [events EXCEPT ![i] = "done"]
  /\ Conclude(route, TRUE)
  /\ UNCHANGED <<task, i, tool, cancelled, used, traces, forceOff, messages, context,
                 checked, drafting>>
DecideFinal(route) ==
  /\ pc = "thinking" /\ ~cancelled /\ Missing = {}
  /\ events' = [events EXCEPT ![i] = "done"]
  /\ Conclude(route, TRUE)
  /\ UNCHANGED <<task, i, tool, cancelled, used, traces, forceOff, messages, context,
                 checked, drafting>>

\* A tool call, native or written as JSON text: the second works whether or
\* not tool calling is switched off.  A refused input escapes the loop.
LateCall(t, own) == \* (seeded bug: no check for a stop after the model's answer)
  /\ pc = "thinking" /\ t \in Allowed
  /\ used' = used \cup {t}
  /\ IF Refused(t, own)
       THEN pc' = "failed" /\ UNCHANGED <<tool, messages>>
       ELSE /\ pc' = "running" /\ tool' = [name |-> t, own |-> own]
            /\ messages' = Append(messages, [role |-> "assistant", id |-> i])
  /\ UNCHANGED <<task, i, cancelled, traces, forceOff, events, context, checked, drafting,
                 result>>
DecideCall(t, own) ==
  /\ pc = "thinking" /\ ~cancelled /\ t \in Allowed
  /\ used' = used \cup {t}
  /\ IF Refused(t, own)
       THEN pc' = "failed" /\ UNCHANGED <<tool, messages>>
       ELSE /\ pc' = "running" /\ tool' = [name |-> t, own |-> own]
            /\ messages' = Append(messages, [role |-> "assistant", id |-> i])
  /\ UNCHANGED <<task, i, cancelled, traces, forceOff, events, context, checked, drafting,
                 result>>

\* onToolResult.
Level == {"blocked", "warning", "safe"}
Absorb(t, own) ==
  /\ context' = (context \/ t = "context")
  /\ checked' = (checked \/ t = "checks")
  /\ CASE t = "generate" -> drafts' = drafts + 1 /\ plan' = drafts' /\ UNCHANGED <<preview, risk>>
       [] t = "repair" -> drafts' = drafts + 1 /\ plan' = drafts' /\ preview' = None /\ UNCHANGED risk
       [] t = "preview" -> preview' = Subject(own) /\ UNCHANGED <<plan, risk, drafts>>
       [] t = "validate" ->
            /\ \E level \in Level : risk' = [level |-> level, of |-> Subject(own)]
            /\ UNCHANGED <<plan, preview, drafts>>
       [] OTHER -> UNCHANGED drafting

\* The tool's result goes into the traces, the conversation and the state.
ToolReturns ==
  /\ pc = "running" /\ ~cancelled
  /\ Absorb(tool.name, tool.own)
  /\ traces' = [traces EXCEPT !.success = @ \cup {tool.name}]
  /\ messages' = Append(messages, [role |-> "tool", id |-> i])
  /\ events' = [events EXCEPT ![i] = "done"]
  /\ pc' = "top"
  /\ UNCHANGED <<task, i, tool, cancelled, used, forceOff, result>>

\* The tool throws: the model gets the error as the call's result.
UnansweredThrow == \* (seeded bug: the error is not given to the model)
  /\ pc = "running"
  /\ traces' = [traces EXCEPT !.blocked = @ \cup {tool.name}]
  /\ events' = [events EXCEPT ![i] = "failed"]
  /\ pc' = "top"
  /\ UNCHANGED <<task, i, tool, cancelled, used, forceOff, messages, context, checked,
                 drafting, result>>
ToolThrows ==
  /\ pc = "running"
  /\ traces' = [traces EXCEPT !.blocked = @ \cup {tool.name}]
  /\ messages' = Append(messages, [role |-> "tool", id |-> i])
  /\ events' = [events EXCEPT ![i] = "failed"]
  /\ pc' = "top"
  /\ UNCHANGED <<task, i, tool, cancelled, used, forceOff, context, checked, drafting,
                 result>>

\* The iterations are used up.
NeverExhaust == \* (seeded bug: off by one at the limit)
  /\ pc = "top" /\ i > MaxIterations
  /\ Conclude("none", FALSE)
  /\ UNCHANGED <<task, i, tool, cancelled, used, traces, forceOff, messages, events,
                 context, checked, drafting>>
Exhaust ==
  /\ pc = "top" /\ i = MaxIterations
  /\ messages' = Append(messages, [role |-> "user", id |-> i])
  /\ Conclude("none", FALSE)
  /\ UNCHANGED <<task, i, tool, cancelled, used, traces, forceOff, events, context,
                 checked, drafting>>

\* The answer of the fallback preview; no check for a stop follows.
PreviewReturns ==
  /\ pc = "previewing" /\ pc' = "returned"
  /\ preview' = plan
  /\ UNCHANGED <<task, i, tool, cancelled, used, traces, forceOff, messages, events,
                 context, checked, plan, risk, drafts, result>>
PreviewThrows ==
  /\ pc = "previewing" /\ pc' = "failed"
  /\ UNCHANGED <<task, i, tool, cancelled, used, traces, forceOff, messages, events,
                 context, checked, drafting, result>>

Proceed ==
  \/ Cancel \/ AskModel \/ ModelFails \/ DecideRetry \/ DecideUnknown \/ DecideTooEarly
  \/ \E route \in Routes : DecideFinal(route)
  \/ \E t \in Tools, own \in BOOLEAN : DecideCall(t, own)
  \/ ToolReturns \/ ToolThrows \/ Exhaust \/ PreviewReturns \/ PreviewThrows
AgentNext == Stop \/ Proceed

AgentSpec == AgentInit /\ [][AgentNext]_agentVars

\* Calls of the model and of the tools end: they have timeouts and take the
\* signal.  Nothing makes the user stop the run.
AgentFairness == WF_agentVars(Proceed)

----------------------------------------------------------------------------
\* Properties.

Drafts == 0..(MaxIterations + 1)
TypeOK ==
  /\ task \in [kind : Kinds, intent : Intents, adapter : BOOLEAN, context : BOOLEAN]
  /\ pc \in {"top", "thinking", "running", "previewing"} \cup Ended
  /\ i \in 0..MaxIterations
  /\ tool \in [name : Tools, own : BOOLEAN]
  /\ cancelled \in BOOLEAN /\ forceOff \in BOOLEAN
  /\ context \in BOOLEAN /\ checked \in BOOLEAN
  /\ used \subseteq Tools /\ traces \in [success : SUBSET Tools, blocked : SUBSET Tools]
  /\ messages \in Seq([role : {"user", "assistant", "tool"}, id : 0..MaxIterations])
  /\ events \in Seq({"running", "done", "failed"}) /\ Len(events) = i
  /\ plan \in Drafts /\ drafts \in Drafts /\ preview \in Drafts \cup {Foreign}
  /\ risk \in [level : {"none"} \cup Level, of : Drafts \cup {Foreign}]
  /\ result \in [route : Routes, final : BOOLEAN]

\* The chat protocol of the model: a message with a tool call is followed at
\* once by the one message with its result, whether the tool succeeded or
\* threw, and there is no result without a call.
CallsAnswered ==
  \A k \in 1..Len(messages) :
    /\ messages[k].role = "assistant" =>
         IF k = Len(messages) THEN pc \in {"running", "cancelled"}
         ELSE messages[k + 1] = [role |-> "tool", id |-> messages[k].id]
    /\ messages[k].role = "tool" =>
         k > 1 /\ messages[k - 1] = [role |-> "assistant", id |-> messages[k].id]

\* A final answer of an analysis or a draft rests on every required tool: it
\* succeeded, or the result shows the user that it was blocked.
FinalHasEvidence ==
  pc = "returned" /\ result.final => Required \subseteq traces.success \cup traces.blocked

\* After the stop the loop begins nothing: the model is not asked, the loop
\* calls no tool, and no answer changes the draft or what the model has seen.
\* One call may still begin: a run that is stopped when its iterations are used
\* up, as by a tool that fails in the last one, is concluded like any other,
\* with the fallback preview if its draft has none.
Begins(call) == pc # call /\ pc' = call
StopHolds ==
  [][cancelled => /\ ~Begins("thinking") /\ ~Begins("running")
                  /\ Begins("previewing") => pc = "top" /\ i = MaxIterations
                  /\ preview' # preview => pc = "previewing"
                  /\ i' = i /\ used' = used
                  /\ plan' = plan /\ risk' = risk /\ context' = context
                  /\ traces'.success = traces.success]_agentVars

\* If every call ends, the run ends, even for a model that never gives a
\* readable answer.
Terminates == <>(pc \in Ended)
=============================================================================
