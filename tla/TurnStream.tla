------------------------------ MODULE TurnStream ------------------------------
(***************************************************************************)
(* How the panel comes to show what the agent does in a turn.  The ReAct   *)
(* loop keeps a step per iteration and emits its progress, deltas of the   *)
(* model's stream with a throttle; the runtime copies what it is told into *)
(* the message of the turn; the panel renders the message from time to     *)
(* time, and merges it with the entries it already has.                    *)
(*                                                                         *)
(* A handler runs to its next wait in one step, so it is a function on     *)
(* records of what it reads and writes.  A thought is a sequence of words: *)
(* a chunk of reasoning, a chunk of text, a preview of the decision, and   *)
(* the lines of a tool call and its result.  Of the body only the length   *)
(* is kept.                                                                *)
(***************************************************************************)
EXTENDS Naturals, Sequences, SequencesExt

CONSTANTS
  MaxSteps,  \* maxIterations; 50 in the code
  MaxChunks  \* bound: chunks that stream in a turn
ASSUME StreamAssumption == MaxSteps \in Nat \ {0} /\ MaxChunks \in Nat

VARIABLES
  phase,   \* "asking" the model, running a "tool", "over", or "ended" and shown
  steps,   \* state.iterationSteps: [thought, tools, seen, status]
  stream,  \* of this iteration: [form, reasoning, heldReasoning, text, heldText]
  chunks,  \* chunks so far
  pending, \* pendingStreamProgress: at most one payload [text, reasoning, withSteps]
  emitted, \* lastProgressSignature, <<>> for a whole report
  message, \* the turn's message: [body, steps], the body by its chunks
  due,     \* a commit or a sync of the panel waits for its timer
  screen   \* what the panel shows: [entries, source]

streamVars == <<phase, steps, stream, chunks, pending, emitted, message, due, screen>>

Words(w, n) == [k \in 1..n |-> w]
NoStream == [form |-> "none", reasoning |-> 0, heldReasoning |-> 0, text |-> 0, heldText |-> 0]
NewStep == [thought |-> <<>>, tools |-> <<>>, seen |-> 0, status |-> "running"]

----------------------------------------------------------------------------
\* The panel: entries of the steps that have something to show.

HasContent(step) == step.thought # <<>> \/ step.tools # <<>> \/ step.seen > 0
Entry(list, k) == [id |-> k, thought |-> list[k].thought, tools |-> list[k].tools, seen |-> list[k].seen]
CollectStepEntries(list) ==
  LET upTo[k \in 0..Len(list)] ==
        IF k = 0 THEN <<>>
        ELSE IF HasContent(list[k]) THEN Append(upTo[k - 1], Entry(list, k)) ELSE upTo[k - 1]
  IN upTo[Len(list)]

\* mergeStepEntries: the number of entries tells what must have changed.
AppendsOnly(prev, list) == \* (seeded bug: an entry that is there is not brought up to date)
  IF Len(list) <= Len(prev) THEN prev
  ELSE IF HasContent(Last(list)) THEN Append(prev, Entry(list, Len(list))) ELSE prev
MergeStepEntries(prev, list) ==
  LET n == Len(list)
      new == IF HasContent(list[n]) THEN <<Entry(list, n)>> ELSE <<>>
  IN IF n = 0 THEN <<>>
     ELSE IF prev = <<>> THEN CollectStepEntries(list)
     ELSE IF n = Len(prev) /\ Last(prev).id = n THEN Front(prev) \o new
     ELSE IF n = Len(prev) + 1 THEN prev \o new
     ELSE CollectStepEntries(list)

\* patchMessageDom: merged when the number of steps or the last two changed.
Source(list) == [count |-> Len(list), tail |-> SubSeq(list, IF Len(list) > 1 THEN Len(list) - 1 ELSE 1, Len(list))]
Patched(scr, list) ==
  IF Source(list) = scr.source THEN scr
  ELSE [entries |-> MergeStepEntries(scr.entries, list), source |-> Source(list)]

----------------------------------------------------------------------------
\* The runtime.  w is what a handler reads and writes: the variables, and how
\* the clocks stand: recent, less than 200 ms after the last delta emitted;
\* prompt, time for a commit; again, words that are those emitted last.

Visible(w) ==
  IF w.prompt /\ ~w.due
    THEN [w EXCEPT !.screen = Patched(@, w.message.steps), !.prompt = FALSE]
    ELSE [w EXCEPT !.due = TRUE, !.prompt = FALSE]

\* mergeIterationStepsForStream: by position, as the ids are.
MergeSteps(old, new) ==
  IF Len(new) >= Len(old) THEN new ELSE new \o SubSeq(old, Len(new) + 1, Len(old))
\* mergeStreamProcessFields: a delta of reasoning is of the last step, and is
\* added only if no thought came along with it.
MergeProcessFields(list, p, new) ==
  LET told == IF p.withSteps THEN MergeSteps(list, new) ELSE list
      n == Len(told)
  IN IF p.reasoning = 0 \/ n = 0 THEN told
     ELSE [told EXCEPT ![n].status = IF @ = "done" THEN "done" ELSE "running",
                       ![n].thought = IF p.withSteps /\ @ # <<>> THEN @ ELSE @ \o Words("r", p.reasoning)]

\* buildStreamingProcessSignature
ProcessSignature(list) ==
  IF list = <<>> THEN <<0>>
  ELSE <<Len(list), Last(list).status, Len(Last(list).thought), Len(Last(list).tools), Last(list).seen>>

\* A commit is due only for what can be seen; a whole report changes the detail.
VisibleActivity(old, told, p) ==
  \/ p.whole \/ told.body # old.body
  \/ ProcessSignature(told.steps) # ProcessSignature(old.steps)
Committed(w, visible) == IF visible THEN Visible(w) ELSE w

\* applyStreamEvent, of a chat or an analysis: text goes into the body unless
\* it comes with steps or reasoning.
Mirrored(p) == ~p.withSteps /\ p.reasoning = 0
ApplyStreamEvent(w, p) ==
  LET told == [body |-> w.message.body + (IF Mirrored(p) THEN p.text ELSE 0),
               steps |-> MergeProcessFields(w.message.steps, p, w.steps)]
  IN Committed([w EXCEPT !.message = told], VisibleActivity(w.message, told, p))

----------------------------------------------------------------------------
\* The loop's progress.

Light(text, reasoning) ==
  [text |-> text, reasoning |-> reasoning, withSteps |-> reasoning > 0 /\ text = 0, whole |-> FALSE]
Whole == [text |-> 0, reasoning |-> 0, withSteps |-> TRUE, whole |-> TRUE]

\* buildProgressSignature: of a delta its words, and how long the thought is.
Signature(w, p) ==
  IF p.whole THEN <<>>
  ELSE <<Len(w.steps), p.text, p.reasoning, IF p.withSteps THEN ProcessSignature(w.steps) ELSE <<>>>>
EmitPayload(w, p) ==
  IF ~p.whole /\ Signature(w, p) = w.emitted /\ w.again THEN w
  ELSE ApplyStreamEvent([w EXCEPT !.emitted = Signature(w, p)], p)

FlushPending(w) ==
  IF w.pending = <<>> THEN w
  ELSE EmitPayload([w EXCEPT !.pending = <<>>, !.recent = TRUE], w.pending[1])
MergePayload(held, p) ==
  IF held = <<>> THEN p
  ELSE [p EXCEPT !.text = held[1].text + @, !.reasoning = held[1].reasoning + @,
                 !.withSteps = @ \/ held[1].withSteps]
EmitDelta(w, p) ==
  LET merged == [w EXCEPT !.pending = <<MergePayload(@, p)>>]
  IN IF w.recent THEN merged ELSE FlushPending(merged)
EmitWhole(w) == EmitPayload(FlushPending(w), Whole)

WithThought(w, words) == [w EXCEPT !.steps[Len(w.steps)].thought = words, !.steps[Len(w.steps)].status = "running"]

\* flushReasoningStreamProgress
FlushReasoning(w, force) ==
  LET held == w.stream.heldReasoning
      shown == w.stream.reasoning + held
  IN IF held = 0 \/ (~force /\ w.recent) THEN w
     ELSE EmitDelta(WithThought([w EXCEPT !.stream.reasoning = shown, !.stream.heldReasoning = 0],
                                Words("r", shown)), Light(0, held))

\* emitPreviewThoughtProgress
Preview(w, word) ==
  IF w.steps[Len(w.steps)].thought = <<word>> THEN w ELSE EmitDelta(WithThought(w, <<word>>), Light(0, 1))

\* maybeFlushTextStreamProgress: of a decision that comes as text only a
\* preview is told, its rationale if there is one yet.
FlushText(w, rationale) ==
  LET s == w.stream
      shown == s.text + s.heldText
      taken == [w EXCEPT !.stream.text = shown, !.stream.heldText = 0]
      thinks == s.reasoning > 0
      noted == IF thinks \/ ~rationale THEN taken ELSE Preview(taken, "why")
  IN IF shown = 0 THEN w
     ELSE IF s.form = "decision"
       THEN IF thinks \/ noted.steps[Len(w.steps)].thought # <<>> THEN noted ELSE Preview(noted, "working")
     ELSE LET thought == IF thinks THEN taken ELSE WithThought(taken, Words("t", shown))
          IN IF s.heldText = 0 THEN thought
             ELSE EmitDelta(thought, Light(s.heldText, 0))

----------------------------------------------------------------------------
\* Steps of the loop.

Now(recent, prompt, again) ==
  [phase |-> phase, steps |-> steps, stream |-> stream, pending |-> pending, emitted |-> emitted,
   message |-> message, due |-> due, screen |-> screen, recent |-> recent, prompt |-> prompt, again |-> again]
Become(w) ==
  /\ phase' = w.phase /\ steps' = w.steps /\ stream' = w.stream /\ pending' = w.pending
  /\ emitted' = w.emitted /\ message' = w.message /\ due' = w.due /\ screen' = w.screen
Clocks == {c \in [recent : BOOLEAN, prompt : BOOLEAN, again : BOOLEAN] :
             (c.recent => chunks > 0) /\ (c.prompt => ~due)}
At(c) == Now(c.recent, c.prompt, c.again)

\* The next iteration, told twice: as progress and in words; or the end.
Iterate(w) ==
  IF Len(w.steps) = MaxSteps THEN [w EXCEPT !.phase = "over"]
  ELSE ApplyStreamEvent(EmitWhole([w EXCEPT !.phase = "asking", !.steps = Append(@, NewStep),
                                            !.stream = NoStream]), Whole)
SetStatus(w, status) == [w EXCEPT !.steps[Len(w.steps)].status = status]

StreamInit ==
  /\ phase = "asking" /\ steps = <<NewStep>> /\ stream = NoStream
  /\ chunks = 0 /\ pending = <<>> /\ emitted = <<>>
  /\ message = [body |-> 0, steps |-> <<NewStep>>] /\ due \in BOOLEAN
  /\ screen \in {[entries |-> <<>>, source |-> Source(<<>>)], [entries |-> <<>>, source |-> Source(<<NewStep>>)]}

\* A chunk of reasoning: held back for a while, or not, or, if what it ends
\* with looks like a control payload, read anew with all before it.
ReasoningDelta == \E c \in Clocks :
  /\ phase = "asking" /\ chunks < MaxChunks /\ chunks' = chunks + 1
  /\ LET w == [At(c) EXCEPT !.stream.heldReasoning = @ + 1]
         all == stream.reasoning + stream.heldReasoning + 1
     IN \/ Become(FlushReasoning(w, FALSE))
        \/ Become(EmitDelta(WithThought([w EXCEPT !.stream.reasoning = all, !.stream.heldReasoning = 0],
                                        Words("r", all)), Light(0, 1)))

\* A chunk of text: after the first one it may be held back.
TextDelta == \E c \in Clocks, rationale \in BOOLEAN, form \in {"plain", "decision"} :
  /\ stream.form \in {"none", form}
  /\ phase = "asking" /\ chunks < MaxChunks /\ chunks' = chunks + 1
  /\ LET w == [At(c) EXCEPT !.stream.heldText = @ + 1, !.stream.form = form]
     IN \/ Become(FlushText(w, rationale))
        \/ stream.text > 0 /\ Become(w)

\* The model's reply is there: what was held back comes first, and a decision
\* that did not stream leaves its rationale as the thought.
Replied(c, rationale) ==
  LET w == FlushReasoning(FlushText(At(c), rationale), TRUE)
  IN IF rationale /\ w.steps[Len(w.steps)].thought = <<>> THEN WithThought(w, <<"why">>) ELSE w

\* No valid reply, an unknown tool, a conclusion that comes too early: the
\* step fails, after what is told of it, and the next one begins.
Retry(w) == Iterate(SetStatus(EmitWhole(w), "failed"))
UnknownTool(w) == Iterate(SetStatus(w, "failed"))
ReplyFails == \E c \in Clocks, rationale \in BOOLEAN :
  /\ phase = "asking" /\ UNCHANGED chunks
  /\ LET w == Replied(c, rationale) IN Become(Retry(w)) \/ Become(UnknownTool(w))

\* A conclusion.
Concludes == \E c \in Clocks, rationale \in BOOLEAN :
  /\ phase = "asking" /\ UNCHANGED chunks
  /\ LET w == EmitWhole(Replied(c, rationale))
     IN Become([SetStatus(w, IF w.steps[Len(w.steps)].thought # <<>> THEN "done" ELSE "skipped") EXCEPT !.phase = "over"])

\* A tool is called: told as decided, as executed, and with its event.
CallsTool == \E c \in Clocks, rationale \in BOOLEAN :
  /\ phase = "asking" /\ UNCHANGED chunks
  /\ LET w == Visible(EmitWhole(Replied(c, rationale)))
     IN Become(EmitWhole([w EXCEPT !.phase = "tool", !.steps[Len(w.steps)].tools = Append(@, "running"),
                                   !.steps[Len(w.steps)].thought = Append(@, "call")]))

\* It returns or fails.  The step of one that failed has failed, which is told
\* with the next step; the step of one that returned goes on running.
ToolEnds(outcome) == \E c \in Clocks :
  /\ phase = "tool" /\ UNCHANGED chunks
  /\ LET w == EmitWhole([At(c) EXCEPT !.steps[Len(steps)].tools = Append(Front(@), outcome),
                                      !.steps[Len(steps)].seen = @ + 1,
                                      !.steps[Len(steps)].thought = Append(@, "result")])
     IN Become(Iterate(IF outcome = "failed" THEN SetStatus(w, "failed") ELSE w))

\* The timer of a commit, or of the panel: the message is rendered as it is.
Renders ==
  /\ due /\ due' = FALSE
  /\ screen' = Patched(screen, message.steps)
  /\ UNCHANGED <<phase, steps, stream, chunks, pending, emitted, message>>

\* The end of the turn: the answer brings the agent's own steps, another end
\* leaves those the message has.  Before the answer the message is committed
\* as it is, which may still be rendered.
TurnEnds == \E list \in {message.steps} \cup (IF phase = "over" THEN {steps} ELSE {}) :
  /\ phase # "ended" /\ phase' = "ended"
  /\ message' = [message EXCEPT !.steps = list]
  /\ due' = FALSE
  /\ \E scr \in {screen, Patched(screen, message.steps)} : screen' = Patched(scr, list)
  /\ stream' = NoStream /\ pending' = <<>> /\ emitted' = <<>>
  /\ UNCHANGED <<steps, chunks>>

StreamNext ==
  \/ ReasoningDelta \/ TextDelta \/ ReplyFails \/ Concludes \/ CallsTool
  \/ ToolEnds("done") \/ ToolEnds("failed") \/ Renders \/ TurnEnds

----------------------------------------------------------------------------
\* Properties.

\* Nothing of the agent's work stays untold: a tool may take long, and while it
\* runs the message has the steps of the loop as they are, with nothing held
\* back; and the timeline of an ended turn has every step that has something to
\* show, in order, the last one as it ended, however its commits fell.
ToldWhileToolRuns == phase = "tool" => pending = <<>> /\ message.steps = steps
TimelineIsWhole ==
  phase = "ended" =>
    LET shown == screen.entries
        kept == CollectStepEntries(message.steps)
    IN /\ {kept[k].id : k \in DOMAIN kept} \subseteq {shown[k].id : k \in DOMAIN shown}
       /\ \A j, k \in DOMAIN shown : j < k => shown[j].id <= shown[k].id
       /\ HasContent(Last(message.steps)) => Last(shown) = Last(kept)
StepsAreTold == ToldWhileToolRuns /\ TimelineIsWhole
===============================================================================
