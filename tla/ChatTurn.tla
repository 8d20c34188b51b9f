------------------------------- MODULE ChatTurn -------------------------------
(***************************************************************************)
(* The turns of the assistant's panel: sendChat, stopCurrentTurn and what  *)
(* shares the panel with them, with the send/stop button of the iframe.    *)
(* A turn is an asynchronous function that holds on to the panel object    *)
(* and to the messages it began with, over all its waits; meanwhile the    *)
(* user may stop it, send again, open another session or use another       *)
(* button.  An action is what runs between two waits.                      *)
(*                                                                         *)
(* A message object is shared by all the arrays that hold it, so whether   *)
(* it is streaming is kept apart, in live.                                 *)
(***************************************************************************)
EXTENDS Naturals, Sequences, FiniteSets

CONSTANTS
  MaxTurns,    \* bound: prompts sent
  MaxPanels,   \* bound: panel objects (the first one, resets, restores, analyses, restarts)
  MaxOps,      \* bound: operations begun by other buttons
  CompactAt,   \* CONTEXT_COMPACTION_TRIGGER_TURNS
  KeepRecent   \* CONTEXT_COMPACTION_KEEP_RECENT_TURNS
ASSUME TurnAssumption ==
  /\ MaxTurns \in Nat \ {0} /\ MaxPanels \in Nat \ {0} /\ MaxOps \in Nat
  /\ KeepRecent \in Nat \ {0} /\ CompactAt \in Nat /\ KeepRecent <= CompactAt

VARIABLES
  panels,  \* panel objects made so far: [run, chat, session]
  shown,   \* internals.currentState, as an index of panels
  busy,    \* isBusy of the iframe's composer
  stored,  \* stored[s]: the conversation of session s in local storage
  kept,    \* the session of the last panel written to local storage
  active,  \* internals.activeTurnId, 0 for none
  ctrl,    \* internals.activeTurnAbortController: the turn that made it, 0 for none
  aborted, \* the turns whose controller was aborted
  turn,    \* per turn [pc, panel, own, ctl]: where it is, the panel and the
           \* messages it holds on to, and whose signal its agent was given
  live,    \* messages with streaming = true
  timers,  \* turns with a delayed commit
  op,      \* what another button started, [kind, panel, due]: the panel it holds
           \* on to, and whether a delayed commit of it is due
  ops      \* operations begun

internals == <<active, ctrl, aborted>>
disk == <<stored, kept>>
turnVars == <<panels, shown, busy, disk, internals, turn, live, timers, op, ops>>

Turns == 1..MaxTurns
Runs == {"settled", "planning", "waiting"}
InFlight == {t \in Turns : turn[t].pc \in {"compacting", "delay", "context", "asking"}}

\* user: a question; pending: the bubble of its answer; note: how the turn
\* ended instead; stopNote and opNote: what a stop and another operation say;
\* old: an assistant message read back from storage.  Turn 0 is none of them.
Kinds == {"user", "pending", "answer", "note", "stopNote", "opNote", "summary", "old"}
Messages == [kind : Kinds, turn : 0..MaxTurns]
Message(k, t) == [kind |-> k, turn |-> t]
Elements(chat) == {chat[k] : k \in 1..Len(chat)}
Questions(chat) == {m \in Elements(chat) : m.kind = "user"}

OpNote == Message("opNote", 0)
\* The bubble of an analysis; no such message is ever stored, so it stands in
\* stored for the session of an analysis until there is something in it.
OpBubble == Message("pending", 0)
Unstored == <<OpBubble>>
OpKinds == {"none", "rollback", "locate", "draft", "analysis"}
NoOp == [kind |-> "none", panel |-> 1, due |-> FALSE]

----------------------------------------------------------------------------
\* planContextCompaction, on the messages that are not streaming.

\* The i-th of a set of positions.
Nth(positions, i) ==
  CHOOSE k \in positions : Cardinality({j \in positions : j <= k}) = i
Finished(chat) ==
  LET rests == {k \in 1..Len(chat) : chat[k] \notin live}
  IN [i \in 1..Cardinality(rests) |-> chat[Nth(rests, i)]]
UserAt(chat) == {k \in 1..Len(chat) : chat[k].kind = "user"}
RecentStart(chat) == Nth(UserAt(chat), Cardinality(UserAt(chat)) - KeepRecent + 1)
NeedsCompaction(chat) == Cardinality(UserAt(chat)) >= CompactAt /\ RecentStart(chat) > 1
Recent(chat) == SubSeq(chat, RecentStart(chat), Len(chat))

----------------------------------------------------------------------------
\* What goes to storage: no message is streaming there, and what comes back
\* from it are new objects.
Normalized(chat) ==
  [k \in 1..Len(chat) |-> IF chat[k].kind = "user" THEN chat[k] ELSE Message("old", chat[k].turn)]

\* Panel p with another state and other messages.
Put(p, run, chat) ==
  [panels EXCEPT ![p] = [run |-> run, chat |-> chat, session |-> panels[p].session]]

\* commitState of panel p of ps: it becomes the panel that is shown, the
\* composer follows it, and if it has settled nothing in it goes on streaming
\* and it is written to storage.
CommitKeepingLive(ps, p, lv) == \* (seeded bug: a settled panel keeps streaming messages)
  /\ panels' = ps /\ shown' = p
  /\ busy' = (ps[p].run # "settled")
  /\ live' = lv
  /\ IF ps[p].run # "settled"
       THEN UNCHANGED disk
       ELSE /\ stored' = [stored EXCEPT ![ps[p].session] = Normalized(ps[p].chat)]
            /\ kept' = ps[p].session
Commit(ps, p, lv) ==
  /\ panels' = ps /\ shown' = p
  /\ busy' = (ps[p].run # "settled")
  /\ IF ps[p].run # "settled"
       THEN live' = lv /\ UNCHANGED disk
       ELSE /\ live' = lv \ Elements(ps[p].chat)
            /\ stored' = [stored EXCEPT ![ps[p].session] = Normalized(ps[p].chat)]
            /\ kept' = ps[p].session

\* replaceTrailingPendingAssistant on the messages turn t began with: its
\* bubble makes room for the answer only while it is streaming.
PopQuestion(t, msg) == \* (seeded bug: the last message goes, streaming or not, and one more)
  Append(SubSeq(turn[t].own, 1, Len(turn[t].own) - 2), msg)
ReplacePending(t, msg) ==
  LET own == turn[t].own
  IN Append(IF own[Len(own)] \in live THEN SubSeq(own, 1, Len(own) - 1) ELSE own, msg)

----------------------------------------------------------------------------
\* The panel opens, empty or with the conversation found in storage: a
\* question and its answer.
TurnInit ==
  /\ \E chat \in {<<>>, <<Message("user", 0), Message("old", 0)>>} :
       /\ panels = <<[run |-> "settled", chat |-> chat, session |-> 1]>>
       /\ stored = <<chat>>
  /\ shown = 1 /\ kept = 1 /\ busy = FALSE
  /\ active = 0 /\ ctrl = 0 /\ aborted = {}
  /\ turn = [t \in Turns |-> [pc |-> "unsent", panel |-> 1, own |-> <<>>, ctl |-> 0]]
  /\ live = {} /\ timers = {} /\ op = NoOp /\ ops = 0

\* The question and its bubble are appended and shown; a delay of 50 ms follows.
Begin(t, p, chat) ==
  LET own == chat \o <<Message("user", t), Message("pending", t)>>
  IN /\ turn' = [turn EXCEPT ![t] = [pc |-> "delay", panel |-> p, own |-> own, ctl |-> 0]]
     /\ Commit(Put(p, "planning", own), p, live \cup {Message("pending", t)})

\* The send button, while the composer is not busy.
Send(t) ==
  /\ ~busy /\ turn[t].pc = "unsent" /\ \A u \in 1..(t - 1) : turn[u].pc # "unsent"
  /\ LET chat == panels[shown].chat
         finished == Finished(chat)
     IN IF NeedsCompaction(finished)
          THEN /\ turn' = [turn EXCEPT ![t] = [pc |-> "compacting", panel |-> shown,
                                               own |-> Recent(finished), ctl |-> 0]]
               /\ busy' = TRUE
               /\ UNCHANGED <<panels, shown, disk, live>>
          ELSE Begin(t, shown, chat)
  /\ UNCHANGED <<internals, timers, op, ops>>

\* The model's summary of the older turns, or no text, which changes nothing.
Compacted(t) ==
  /\ turn[t].pc = "compacting"
  /\ \E chat \in {<<Message("summary", t)>> \o turn[t].own, panels[turn[t].panel].chat} :
       Begin(t, turn[t].panel, chat)
  /\ UNCHANGED <<internals, timers, op, ops>>

\* The summary fails: the error leaves sendChat before its try, nothing is
\* committed, and the composer stays busy.
CompactionFails(t) ==
  /\ turn[t].pc = "compacting"
  /\ turn' = [turn EXCEPT ![t].pc = "lost"]
  /\ UNCHANGED <<panels, shown, busy, disk, internals, live, timers, op, ops>>

\* After the delay the turn becomes the active one.
Activate(t) ==
  /\ turn[t].pc = "delay"
  /\ active' = t /\ ctrl' = t
  /\ turn' = [turn EXCEPT ![t].pc = "context"]
  /\ UNCHANGED <<panels, shown, busy, disk, aborted, live, timers, op, ops>>

\* abort() on the current controller, if there is one.
Abort == aborted' = aborted \cup ({ctrl} \ {0})

\* The end of turn t in panel p, with msg: of the internals it clears its own
\* id, but whatever controller there is.
EndUnsettled(t, p, msg, lv) == \* (seeded bug: the panel is left running)
  /\ active' = IF active = t THEN 0 ELSE active
  /\ ctrl' = 0
  /\ turn' = [turn EXCEPT ![t].pc = IF p = turn[t].panel THEN "done" ELSE "elsewhere"]
  /\ Commit(Put(p, panels[p].run, ReplacePending(t, msg)), p, lv)
EndLeavingActive(t, p, msg, lv) == \* (seeded bug: the turn's id is not cleared)
  /\ UNCHANGED active
  /\ ctrl' = 0
  /\ turn' = [turn EXCEPT ![t].pc = IF p = turn[t].panel THEN "done" ELSE "elsewhere"]
  /\ Commit(Put(p, "settled", ReplacePending(t, msg)), p, lv)
End(t, p, msg, lv) ==
  /\ active' = IF active = t THEN 0 ELSE active
  /\ ctrl' = 0
  /\ turn' = [turn EXCEPT ![t].pc = IF p = turn[t].panel THEN "done" ELSE "elsewhere"]
  /\ Commit(Put(p, "settled", ReplacePending(t, msg)), p, lv)

\* The context is there, or could not be built; the last message is marked as
\* streaming, and the agent is given the signal of the current controller.
\* If there is none the turn fails.
ContextBuilt(t) ==
  LET p == turn[t].panel
      chat == panels[p].chat
      lv == IF chat[Len(chat)].kind # "user" THEN live \cup {chat[Len(chat)]} ELSE live
  IN /\ turn[t].pc = "context"
     /\ IF ctrl = 0
          THEN End(t, p, Message("note", t), lv)
          ELSE /\ turn' = [turn EXCEPT ![t] = [pc |-> "asking", panel |-> p, own |-> @.own, ctl |-> ctrl]]
               /\ Commit(Put(p, "waiting", chat), p, lv)
               /\ UNCHANGED <<active, ctrl>>
     /\ UNCHANGED <<aborted, timers, op, ops>>

\* Something streams in: it goes into the last message of the turn's panel,
\* which is committed now or after a delay.
Stream(t) ==
  LET p == turn[t].panel
      last == panels[p].chat[Len(panels[p].chat)]
  IN /\ turn[t].pc = "asking" /\ active = t /\ last.kind # "user"
     /\ \/ Commit(panels, p, live \cup {last}) /\ UNCHANGED timers
        \/ /\ timers' = timers \cup {t} /\ live' = live \cup {last}
           /\ UNCHANGED <<panels, shown, busy, disk>>
     /\ UNCHANGED <<internals, turn, op, ops>>

TimerFires(t) ==
  /\ t \in timers /\ timers' = timers \ {t}
  /\ Commit(panels, turn[t].panel, live)
  /\ UNCHANGED <<internals, turn, op, ops>>

\* The agent's answer, also after an abort.  A draft goes into the panel that
\* is shown, any other answer into the turn's own.
Answered(t, p) ==
  /\ turn[t].pc = "asking" /\ p \in {turn[t].panel, shown}
  /\ End(t, p, Message("answer", t), live)
  /\ timers' = timers \ {t}
  /\ UNCHANGED <<aborted, op, ops>>

\* The agent fails.  An expired login is reported in the panel that is shown.
AnswerFails(t, p) ==
  /\ turn[t].pc = "asking" /\ p \in {turn[t].panel, shown}
  /\ End(t, p, Message("note", t), live)
  /\ UNCHANGED <<aborted, timers, op, ops>>

\* No event for too long: the current controller is aborted, the turn fails.
TimesOut(t) ==
  /\ turn[t].pc = "asking"
  /\ Abort
  /\ End(t, turn[t].panel, Message("note", t), live)
  /\ UNCHANGED <<timers, op, ops>>

\* The agent notices the abort.
Cancelled(t) ==
  /\ turn[t].pc = "asking" /\ turn[t].ctl \in aborted
  /\ End(t, turn[t].panel, Message("stopNote", t), live)
  /\ UNCHANGED <<aborted, timers, op, ops>>

\* The same button while the composer is busy.  The bubble on screen, or
\* whatever streams there, becomes the note of the stop.
Stop ==
  LET chat == panels[shown].chat
      last == chat[Len(chat)]
      streams == chat # <<>> /\ last \in live
  IN /\ busy /\ active # 0 /\ panels[shown].run # "settled"
     /\ active' = 0 /\ ctrl' = 0 /\ Abort
     /\ Commit(Put(shown, "settled", IF streams THEN chat ELSE Append(chat, Message("stopNote", active))),
               shown, live)
     /\ UNCHANGED <<turn, timers, op, ops>>

----------------------------------------------------------------------------
\* What else the panel's buttons do.

NewPanel(session, chat) ==
  Commit(Append(panels, [run |-> "settled", chat |-> chat, session |-> session]),
         Len(panels) + 1, live)

\* resetSession: a new session.  No turn is stopped.
Reset ==
  /\ Len(panels) < MaxPanels
  /\ LET s == Len(stored) + 1
     IN /\ panels' = Append(panels, [run |-> "settled", chat |-> <<>>, session |-> s])
        /\ stored' = Append(stored, <<>>) /\ kept' = s
  /\ shown' = Len(panels) + 1 /\ busy' = FALSE
  /\ active' = 0 /\ ctrl' = 0
  /\ UNCHANGED <<aborted, turn, live, timers, op, ops>>

\* restoreSession: a panel read back from storage.
Restore(s) ==
  /\ Len(panels) < MaxPanels /\ stored[s] # Unstored
  /\ NewPanel(s, stored[s])
  /\ UNCHANGED <<internals, turn, timers, op, ops>>

\* rollbackLastApply, locateIssue and generateDraft wait for the editor or the
\* agent, whether or not a turn is under way, and hold on to the panel that
\* was shown (bound: one operation at a time).
OperationBegins(kind) ==
  /\ op = NoOp /\ ops < MaxOps /\ ops' = ops + 1
  /\ op' = [kind |-> kind, panel |-> shown, due |-> FALSE]
  /\ UNCHANGED <<panels, shown, busy, disk, internals, turn, live, timers>>

\* There is nothing to roll back, or no such issue: the panel is shown again,
\* settled or as it is.
OperationRefused ==
  /\ \E run \in {"settled", panels[shown].run} :
       Commit(Put(shown, run, panels[shown].chat), shown, live)
  /\ UNCHANGED <<internals, turn, timers, op, ops>>

\* computeAnalysisState makes a panel of its own, with a bubble.  Its session
\* is made when it is stored (once here, by every commit in the code: see
\* PanelStore).  Bound: not while the bubble of an earlier one is somewhere.
Analyse ==
  /\ op = NoOp /\ ops < MaxOps /\ ops' = ops + 1 /\ Len(panels) < MaxPanels
  /\ \A p \in 1..Len(panels) : OpBubble \notin Elements(panels[p].chat)
  /\ panels' = Append(panels, [run |-> "waiting", chat |-> <<OpBubble>>, session |-> Len(stored) + 1])
  /\ stored' = Append(stored, Unstored)
  /\ shown' = Len(panels) + 1 /\ busy' = TRUE
  /\ live' = live \cup {OpBubble}
  /\ op' = [kind |-> "analysis", panel |-> Len(panels) + 1, due |-> FALSE]
  /\ UNCHANGED <<kept, internals, turn, timers>>

\* Its agent reports, into the last message of its panel, which waits again
\* and is committed now or after a delay.
AnalysisReports ==
  LET p == op.panel
      chat == panels[p].chat
      last == chat[Len(chat)]
  IN /\ op.kind = "analysis" /\ chat # <<>> /\ last.kind # "user"
     /\ \/ /\ ~op.due /\ UNCHANGED op
           /\ Commit(Put(p, "waiting", chat), p, live \cup {last})
        \/ /\ op' = [op EXCEPT !.due = TRUE]
           /\ panels' = Put(p, "waiting", chat) /\ live' = live \cup {last}
           /\ UNCHANGED <<shown, busy, disk>>
     /\ UNCHANGED <<internals, turn, timers, ops>>
AnalysisCommits ==
  /\ op.kind = "analysis" /\ op.due /\ op' = [op EXCEPT !.due = FALSE]
  /\ Commit(panels, op.panel, live)
  /\ UNCHANGED <<internals, turn, timers, ops>>

\* The operation ends on the panel it began with, whatever is shown by now.
Report(run, chat) ==
  /\ Commit(Put(op.panel, run, chat), op.panel, live \ {OpNote})
  /\ op' = NoOp
  /\ UNCHANGED <<internals, turn, timers, ops>>
\* A rollback appends what it says.
RollbackEnds == op.kind = "rollback" /\ Report("settled", Append(panels[op.panel].chat, OpNote))
\* An issue that was found is put before the messages, a failure in their place.
LocateEnds ==
  /\ op.kind = "locate"
  /\ \E chat \in {<<OpNote>> \o panels[op.panel].chat, <<OpNote>>} : Report(panels[op.panel].run, chat)
\* A draft, and the report of an analysis, are put in place of the messages.
Replaces == op.kind \in {"draft", "analysis"} /\ Report("settled", <<OpNote>>)
\* An analysis that fails replaces a last message that streams.
AnalysisFails ==
  LET chat == panels[op.panel].chat
      streams == chat # <<>> /\ chat[Len(chat)].kind # "user" /\ chat[Len(chat)] \in live
      rest == IF streams THEN SubSeq(chat, 1, Len(chat) - 1) ELSE chat
  IN op.kind = "analysis" /\ Report("settled", Append(rest, OpNote))
OperationEnds == RollbackEnds \/ LocateEnds \/ Replaces \/ AnalysisFails

\* The editor or the plugin is restarted: what is in storage is opened.
Restart ==
  /\ Len(panels) < MaxPanels
  /\ NewPanel(kept, stored[kept])
  /\ active' = 0 /\ ctrl' = 0 /\ timers' = {}
  /\ turn' = [t \in Turns |-> IF turn[t].pc = "unsent" THEN turn[t] ELSE [turn[t] EXCEPT !.pc = "done"]]
  /\ op' = NoOp /\ UNCHANGED <<aborted, ops>>

----------------------------------------------------------------------------
Ends(t) ==
  \/ \E p \in 1..Len(panels) : Answered(t, p) \/ AnswerFails(t, p)
  \/ TimesOut(t) \/ Cancelled(t)
Proceed(t) ==
  Compacted(t) \/ CompactionFails(t) \/ Activate(t) \/ ContextBuilt(t) \/ Ends(t)

TurnNext ==
  \/ \E t \in Turns : Send(t) \/ Proceed(t) \/ Stream(t) \/ TimerFires(t)
  \/ \E s \in 1..Len(stored) : Restore(s)
  \/ \E kind \in {"rollback", "locate", "draft"} : OperationBegins(kind)
  \/ OperationRefused \/ OperationEnds
  \/ Analyse \/ AnalysisReports \/ AnalysisCommits
  \/ Stop \/ Reset \/ Restart

\* Timers fire, requests end (they have timeouts), and so do a turn (it has an
\* idle and a total limit) and another operation (a bounded number of calls).
\* Nothing is asked of the user.
TurnFairness ==
  /\ \A t \in Turns : WF_turnVars(Proceed(t)) /\ WF_turnVars(TimerFires(t))
  /\ WF_turnVars(OperationEnds)

----------------------------------------------------------------------------
\* Properties.

PanelRecords == [run : Runs, chat : Seq(Messages), session : 1..Len(stored)]
TurnRecords == [pc : {"unsent", "compacting", "delay", "context", "asking", "done", "elsewhere", "lost"},
                panel : 1..Len(panels), own : Seq(Messages), ctl : 0..MaxTurns]
OpRecords == [kind : OpKinds, panel : 1..Len(panels), due : BOOLEAN]
TypeOK ==
  /\ panels \in Seq(PanelRecords)
  /\ shown \in 1..Len(panels)
  /\ busy \in BOOLEAN
  /\ stored \in Seq(Seq(Messages)) /\ kept \in 1..Len(stored)
  /\ active \in 0..MaxTurns /\ ctrl \in 0..MaxTurns /\ aborted \subseteq Turns
  /\ turn \in [Turns -> TurnRecords]
  /\ live \subseteq Messages /\ timers \subseteq Turns
  /\ op \in OpRecords /\ ops \in Nat

\* The active turn is under way, so the stop button has something to stop:
\* no way a turn ends, in whatever order, leaves its id behind.
ActiveIsRunning == active # 0 => turn[active].pc \in {"context", "asking"}

\* Two ways a turn leaves the composer busy for good, with a stop button that
\* does nothing: its compaction failed, or it ended in another panel than its
\* own, which still waits and may be shown again by a late commit.
Abandoned == \E t \in Turns : turn[t].pc \in {"lost", "elsewhere"}

\* When no turn and no operation is under way and no commit is due, the panel
\* has settled and nothing in it streams, whatever was stopped, restored,
\* analysed or overtaken before.
QuietIsSettled ==
  InFlight = {} /\ timers = {} /\ op = NoOp /\ ~Abandoned
    => ~busy /\ panels[shown].run = "settled" /\ live \cap Elements(panels[shown].chat) = {}

\* A panel, on screen or not, loses a question in two ways only.  To a turn
\* that did not see it, or no longer keeps it, when it began: a compaction
\* summarises the older ones, and an older turn, stopped or overtaken but still
\* under way, ends on the messages it began with.  Or to a draft, an analysis or
\* a failed search for an issue that ends on the panel it began with and
\* leaves nothing there but what it says.  A turn that is alone therefore loses
\* none, and no stop, late commit, rollback, issue that was found, failed
\* analysis, reset, restored session or restart does.
Lost(p) == Questions(panels[p].chat) \ Questions(panels'[p].chat)
Forgotten(q) == \E t \in InFlight : turn'[t] # turn[t] /\ q \notin Elements(turn[t].own)
Replaced(p) ==
  /\ op.kind \in {"locate", "draft", "analysis"} /\ op.panel = p /\ op' = NoOp
  /\ panels'[p].chat = <<OpNote>>
SeenQuestionsStay ==
  [][\A p \in 1..Len(panels) : \A q \in Lost(p) : Forgotten(q) \/ Replaced(p)]_turnVars

\* A turn that is under way ends and gives the send button back.
BusyEnds == busy ~> (~busy \/ Abandoned)

\* The design (docs/design-docs/Agent...:113) cancels from every state when
\* the user asks for it: a stop aborts the turn it stops.
StopAborts ==
  [][\A t \in Turns : active = t /\ active' = 0 /\ turn[t].pc = "asking" /\ turn'[t].pc = "asking"
                      /\ shown' = shown
       => turn[t].ctl \in aborted']_turnVars
===============================================================================
