------------------------------ MODULE DraftApply ------------------------------
(***************************************************************************)
(* Writing a draft into the schematic and taking it back: the runtime's    *)
(* applyDraftPlan and rollbackLastApply, the adapter's applyPlan and, for  *)
(* the professional host, applyPlanByApi with its typed placement.  Every  *)
(* call of the editor is a wait, so two operations may interleave: a click *)
(* finds the apply button enabled until the first apply shows itself as    *)
(* running, and the rollback button always.                                *)
(*                                                                         *)
(* The n-th operation makes transaction n, if it is an apply.  Which pages *)
(* and pins a primitive touches is left out: an object is known by its     *)
(* kind, the transaction that made it and the part of the plan it is for.  *)
(***************************************************************************)
EXTENDS Naturals, Sequences, FiniteSets

CONSTANTS
  Parts, Nets, \* the components and the nets of a draft
  NetParts,    \* the components whose pins a net joins
  MaxDrafts,   \* bound: drafts generated
  MaxOps,      \* bound: applies and rollbacks begun
  MaxPages,    \* bound: schematic pages
  MaxPanels    \* bound: panel objects (sessions opened)
ASSUME DraftAssumption ==
  /\ {MaxDrafts, MaxOps, MaxPages, MaxPanels} \subseteq Nat \ {0}
  /\ NetParts \in [Nets -> SUBSET Parts]

VARIABLES
  pages, page,   \* what is on each page of the schematic, and the open page
  plan,          \* internals.draftPlan, 0 for none
  open,          \* drafts with devices that are not chosen yet
  blocked,       \* internals.draftBlocked
  lastTx,        \* internals.lastApplyTransactionId, 0 for none
  txs,           \* applyTransactions of the host bridge (in memory)
  op,            \* the operations: [kind, pc, draft, target, panel, todo, made, undone]
  panels, shown, \* panel objects [draft, snapshot] and internals.currentState
  busy,          \* the panel shows an apply that is running
  spoiled,       \* history: transactions the editor or a restart kept from
                 \* being cleaned up
  overlapped,    \* history: operations that ran while another one did
  left           \* history: transactions that a new session, or an apply on
                 \* another page, left to the user to delete

schematic == <<pages, page>>
draftVars == <<plan, open, blocked>>
panelVars == <<panels, shown, busy>>
history == <<spoiled, overlapped, left>>
vars == <<schematic, draftVars, lastTx, txs, op, panelVars, history>>

Ops == 1..MaxOps
DraftIds == 1..MaxDrafts
Kinds == {"component", "wire", "label", "probe", "stub", "user"}
Object(k, tx, part) == [kind |-> k, tx |-> tx, part |-> part]
UserObject == Object("user", 0, 0)
Objects == [kind : Kinds \ {"user"}, tx : Ops, part : Parts \cup Nets] \cup {UserObject}
ApplySteps == {"begin", "read", "reread", "page", "check", "probe", "unprobe", "unprobeAll",
               "place", "wire", "cleanup", "record"}
Steps == ApplySteps \cup {"undoWires", "undoParts"}
InFlight == {o \in Ops : op[o].pc \in Steps}

\* isEmptySchematicContext: labels are no components, pins or nets by
\* themselves.
Empty(objects) == \A x \in objects : x.kind = "label"

Add(objects) == pages' = [pages EXCEPT ![page] = @ \cup objects] /\ UNCHANGED page
Remove(objects) == pages' = [p \in 1..Len(pages) |-> pages[p] \ objects] /\ UNCHANGED page
OfKind(objects, ks) == {x \in objects : x.kind \in ks}
Goto(o, step) == op' = [op EXCEPT ![o].pc = step]
Turns(o, step, target, undone) == op' = [op EXCEPT ![o] =
  [kind |-> @.kind, pc |-> step, draft |-> @.draft, target |-> target, panel |-> @.panel,
   todo |-> @.todo, made |-> @.made, undone |-> undone]]
Draws(o, step, todo, made) == op' = [op EXCEPT ![o] =
  [kind |-> @.kind, pc |-> step, draft |-> @.draft, target |-> @.target, panel |-> @.panel,
   todo |-> todo, made |-> made, undone |-> @.undone]]

----------------------------------------------------------------------------
Idle == [kind |-> "none", pc |-> "idle", draft |-> 0, target |-> 0, panel |-> 1,
         todo |-> {}, made |-> {}, undone |-> FALSE]

Init ==
  /\ pages \in {<<{}>>, <<{UserObject}>>} /\ page = 1
  /\ plan = 0 /\ open = {} /\ blocked = FALSE
  /\ lastTx = 0 /\ txs = {}
  /\ op = [o \in Ops |-> Idle]
  /\ panels = <<[draft |-> 0, snapshot |-> 0]>> /\ shown = 1 /\ busy = FALSE
  /\ spoiled = {} /\ overlapped = {} /\ left = {}

\* A draft d arrives.
Drafted(d) ==
  /\ d \notin {panels[p].draft : p \in 1..Len(panels)} \cup {op[o].draft : o \in Ops} \cup {plan}
  /\ \A e \in 1..(d - 1) : e \in {panels[p].draft : p \in 1..Len(panels)} \cup {op[o].draft : o \in Ops} \cup {plan}
  /\ plan' = d
  /\ open' \in {open, open \cup {d}}
  /\ panels' = [panels EXCEPT ![shown].draft = d]
  /\ busy' = FALSE
  /\ UNCHANGED <<schematic, lastTx, txs, op, shown, history>>

\* generateDraft, the runtime's own entry: it notes whether the risk is too
\* high to apply the draft.
GenerateDraft(d) == Drafted(d) /\ blocked' \in BOOLEAN

\* A turn of the conversation that ends with a draft does not.
TurnDrafts(d) == Drafted(d) /\ UNCHANGED blocked

\* The user has chosen the devices of the current draft.
ChooseDevices ==
  /\ plan \in open /\ open' = open \ {plan}
  /\ busy' = FALSE
  /\ UNCHANGED <<schematic, plan, blocked, lastTx, txs, op, panels, shown, history>>

----------------------------------------------------------------------------
Start(o, kind, pc, target) ==
  /\ op[o] = Idle /\ \A q \in 1..(o - 1) : op[q] # Idle
  /\ op' = [op EXCEPT ![o] = [kind |-> kind, pc |-> pc, draft |-> plan, target |-> target, panel |-> shown,
                              todo |-> {}, made |-> {}, undone |-> FALSE]]
  /\ overlapped' = IF InFlight = {} THEN overlapped ELSE overlapped \cup InFlight \cup {o}
  /\ UNCHANGED <<schematic, draftVars, lastTx, txs, panelVars, spoiled, left>>

\* The apply button, or a confirmation in the chat.
StartApply(o) ==
  /\ ~busy /\ plan # 0 /\ ~blocked /\ plan \notin open
  /\ Start(o, "apply", "begin", 0)

\* The page's context was read for a patch preview that no host offers; the
\* panel shows the apply as running, and the transaction to replace is read.
Begin(o) ==
  /\ op[o].pc = "begin"
  /\ Turns(o, "read", lastTx, op[o].undone)
  /\ busy' = TRUE /\ shown' = op[o].panel
  /\ UNCHANGED <<schematic, draftVars, lastTx, txs, panels, history>>

\* The rollback button.
StartRollback(o) == lastTx # 0 /\ Start(o, "rollback", "undoWires", lastTx)

\* The operation is over, and the panel it began in shows it.
Over(o) == Goto(o, "done") /\ busy' = FALSE /\ shown' = op[o].panel
Fails(o) ==
  /\ Over(o)
  /\ UNCHANGED <<schematic, draftVars, lastTx, txs, panels, history>>

\* What the adapter does with a page that is not empty: roll the replaced
\* transaction back, then open a new page, then give up.
ReadHasty(o) == \* (seeded bug: the draft goes onto the page although it is not empty)
  /\ op[o].pc \in {"read", "reread", "check"}
  /\ Draws(o, IF op[o].pc = "read" /\ op[o].target # 0 THEN "undoWires" ELSE "probe", Parts, op[o].made)
  /\ UNCHANGED <<schematic, draftVars, lastTx, txs, panelVars, history>>
Read(o) ==
  /\ op[o].pc \in {"read", "reread", "check"}
  /\ \/ /\ Empty(pages[page])
        /\ Draws(o, "probe", Parts, op[o].made)
     \/ /\ ~Empty(pages[page]) /\ op[o].pc # "check"
        /\ Goto(o, IF op[o].pc = "read" /\ op[o].target # 0 THEN "undoWires" ELSE "page")
  /\ UNCHANGED <<schematic, draftVars, lastTx, txs, panelVars, history>>
PageOccupied(o) == op[o].pc = "check" /\ ~Empty(pages[page]) /\ Fails(o)

NewPage(o) ==
  /\ op[o].pc = "page" /\ Len(pages) < MaxPages
  /\ pages' = Append(pages, {}) /\ page' = Len(pages) + 1
  /\ Goto(o, "check")
  /\ UNCHANGED <<draftVars, lastTx, txs, panelVars, history>>
NewPageFails(o) == op[o].pc = "page" /\ Fails(o)

----------------------------------------------------------------------------
\* The rollback of a typed transaction in the host bridge: its wires, then
\* its components; then the bridge forgets it, whether or not the editor
\* deleted them, and reports success if it deleted any.

Recorded(tx) == OfKind(op[tx].made, {"component", "wire"})
OnPages(objects) == {x \in objects : \E p \in 1..Len(pages) : x \in pages[p]}

\* One call of the editor's delete: all of the objects go, or none does.
Deletes(objects, tx, ok) ==
  /\ ok => objects # {}
  /\ Remove(IF ok THEN objects ELSE {})
  /\ spoiled' = IF ok \/ OnPages(objects) = {} THEN spoiled ELSE spoiled \cup {tx}

UndoWires(o) ==
  /\ op[o].pc = "undoWires" /\ op[o].target \in txs
  /\ \E ok \in BOOLEAN :
       /\ Deletes(OfKind(Recorded(op[o].target), {"wire"}), op[o].target, ok)
       /\ Turns(o, "undoParts", op[o].target, ok)
  /\ UNCHANGED <<draftVars, lastTx, txs, panelVars, overlapped, left>>

\* The end of the rollback: an apply goes on, with another look at the page if
\* something was rolled back; a rollback reports what it did.
AfterUndo(o, undone) ==
  IF op[o].kind = "apply"
    THEN /\ Goto(o, IF undone THEN "reread" ELSE "page")
         /\ UNCHANGED <<lastTx, panelVars>>
    ELSE /\ Over(o)
         /\ lastTx' = IF undone THEN 0 ELSE lastTx
         /\ panels' = IF undone THEN [panels EXCEPT ![op[o].panel].snapshot = 0] ELSE panels

UndoPartsKeepingTx(o) == \* (seeded bug: what is recorded of the components is not deleted)
  /\ op[o].pc = "undoParts" /\ txs' = txs \ {op[o].target}
  /\ AfterUndo(o, op[o].undone)
  /\ UNCHANGED <<schematic, draftVars, history>>
UndoParts(o) ==
  /\ op[o].pc = "undoParts" /\ txs' = txs \ {op[o].target}
  /\ \E ok \in BOOLEAN :
       /\ Deletes(OfKind(Recorded(op[o].target), {"component"}), op[o].target, ok)
       /\ AfterUndo(o, op[o].undone \/ ok)
  /\ UNCHANGED <<draftVars, overlapped, left>>

NothingToUndo(o) ==
  /\ op[o].pc = "undoWires" /\ op[o].target \notin txs
  /\ AfterUndo(o, FALSE)
  /\ UNCHANGED <<schematic, draftVars, txs, history>>
UndoThrows(o) ==
  /\ op[o].pc \in {"undoWires", "undoParts"} /\ op[o].target \in txs
  /\ Over(o)
  /\ spoiled' = IF op[o].pc = "undoParts" THEN spoiled \cup {op[o].target} ELSE spoiled
  /\ UNCHANGED <<schematic, draftVars, lastTx, txs, panels, overlapped, left>>

----------------------------------------------------------------------------
\* The pins of the devices are found out by placing each component for a
\* moment (resolveTransientComponentPins).

Probe(o) ==
  /\ op[o].pc = "probe" /\ op[o].todo # {}
  /\ LET c == CHOOSE c \in op[o].todo : TRUE
         x == Object("probe", o, c)
     IN Add({x}) /\ Draws(o, "probe", op[o].todo \ {c}, op[o].made \cup {x})
  /\ UNCHANGED <<draftVars, lastTx, txs, panelVars, history>>
\* All are placed, or one could not be.
ProbesEnd(o) ==
  /\ op[o].pc = "probe"
  /\ \/ op[o].todo = {} /\ Goto(o, "unprobe")
     \/ op[o].todo # {} /\ Goto(o, "unprobeAll")
  /\ UNCHANGED <<schematic, draftVars, lastTx, txs, panelVars, history>>
\* The finally: what it deletes, it deletes in either case.
Unprobe(o) ==
  /\ op[o].pc \in {"unprobe", "unprobeAll"}
  /\ \E ok \in BOOLEAN : Deletes(op[o].made, o, ok)
  /\ IF op[o].pc = "unprobeAll"
       THEN Over(o) /\ UNCHANGED panels
       ELSE Draws(o, "place", Parts, {}) /\ UNCHANGED panelVars
  /\ UNCHANGED <<draftVars, lastTx, txs, overlapped, left>>

\* applyTypedSchematicPlan: one component after the other, then the nets.  The
\* editor may return nothing for a component; it is left out, and so are the
\* nets it is on.
Place(o) ==
  /\ op[o].pc = "place" /\ op[o].todo # {}
  /\ LET c == CHOOSE c \in op[o].todo : TRUE
         x == Object("component", o, c)
     IN \/ Add({x}) /\ Draws(o, "place", op[o].todo \ {c}, op[o].made \cup {x})
        \/ UNCHANGED schematic /\ Draws(o, "place", op[o].todo \ {c}, op[o].made)
  /\ UNCHANGED <<draftVars, lastTx, txs, panelVars, history>>
PlacesEnd(o) ==
  /\ op[o].pc = "place" /\ op[o].todo = {}
  /\ LET placed == {x.part : x \in OfKind(op[o].made, {"component"})}
     IN Draws(o, "wire", {n \in Nets : NetParts[n] \subseteq placed}, op[o].made)
  /\ UNCHANGED <<schematic, draftVars, lastTx, txs, panelVars, history>>

\* A net is a wire, or stubs with labels; or left out.
Wire(o) ==
  /\ op[o].pc = "wire" /\ op[o].todo # {}
  /\ LET n == CHOOSE n \in op[o].todo : TRUE
     IN \E drawn \in {{}, {"wire"}, {"wire", "label"}} :
          LET new == {Object(k, o, n) : k \in drawn}
          IN Add(new) /\ Draws(o, "wire", op[o].todo \ {n}, op[o].made \cup new)
  /\ UNCHANGED <<draftVars, lastTx, txs, panelVars, history>>

\* A call of the editor throws.  A net with labels may have left a stub that
\* nobody recorded.
PlacementThrows(o) ==
  /\ op[o].pc \in {"place", "wire"} /\ op[o].todo # {}
  /\ \/ UNCHANGED schematic
     \/ op[o].pc = "wire" /\ Add({Object("stub", o, CHOOSE n \in op[o].todo : TRUE)})
  /\ Goto(o, "cleanup")
  /\ UNCHANGED <<draftVars, lastTx, txs, panelVars, history>>

\* The catch: labels, wires, components, three calls of the editor.
Cleanup(o) ==
  /\ op[o].pc = "cleanup"
  /\ \E kept \in SUBSET {"label", "wire", "component"} :
       /\ Remove(OfKind(op[o].made, Kinds \ kept))
       /\ spoiled' = IF OfKind(op[o].made, kept) = {} THEN spoiled ELSE spoiled \cup {o}
  /\ Over(o)
  /\ UNCHANGED <<draftVars, lastTx, txs, panels, overlapped, left>>

\* All is drawn and the transaction is recorded as the last one; with nothing
\* drawn the runtime reports that the host cannot apply.  The one before, if it
\* is on another page, has not been replaced and is not the last one any more.
Elsewhere == {tx \in {lastTx} \cap txs : \A x \in OfKind(pages[page], {"component", "wire"}) : x.tx # tx}
Finish(o) ==
  /\ op[o].pc = "wire" /\ op[o].todo = {} /\ txs' = txs \cup {o}
  /\ IF Recorded(o) = {}
       THEN Over(o) /\ UNCHANGED <<blocked, lastTx, panels, left>>
       ELSE /\ Goto(o, "record") /\ lastTx' = o /\ left' = left \cup Elsewhere
            /\ blocked' = FALSE /\ UNCHANGED panelVars
  /\ UNCHANGED <<schematic, plan, open, spoiled, overlapped>>

\* The context is read once more, and the panel the apply began in keeps the
\* snapshot.
RecordUnsettled(o) == \* (seeded bug: the panel is not settled)
  /\ op[o].pc = "record" /\ Goto(o, "done")
  /\ panels' = [panels EXCEPT ![op[o].panel].snapshot = o]
  /\ UNCHANGED <<schematic, draftVars, lastTx, txs, history, shown, busy>>
Record(o) ==
  /\ op[o].pc = "record" /\ Over(o)
  /\ panels' = [panels EXCEPT ![op[o].panel].snapshot = o]
  /\ UNCHANGED <<schematic, draftVars, lastTx, txs, history>>

----------------------------------------------------------------------------
\* A new session, or an older one: its draft comes back, while the
\* transaction to roll back stays that of the session before.
Reset ==
  /\ Len(panels) < MaxPanels
  /\ panels' = Append(panels, [draft |-> 0, snapshot |-> 0]) /\ shown' = Len(panels) + 1
  /\ plan' = 0 /\ blocked' = FALSE /\ lastTx' = 0 /\ busy' = FALSE
  /\ left' = left \cup ({lastTx} \cap txs)
  /\ UNCHANGED <<schematic, open, txs, op, spoiled, overlapped>>
Restore(p) ==
  /\ Len(panels) < MaxPanels
  /\ panels' = Append(panels, panels[p]) /\ shown' = Len(panels) + 1
  /\ plan' = panels[p].draft /\ busy' = FALSE
  /\ UNCHANGED <<schematic, open, blocked, lastTx, txs, op, history>>

\* The plugin is restarted: what ran is gone, and so are the transactions.
Restart ==
  /\ Len(panels) < MaxPanels
  /\ panels' = Append(panels, panels[shown]) /\ shown' = Len(panels) + 1
  /\ plan' = panels[shown].draft /\ blocked' = FALSE
  /\ lastTx' = panels[shown].snapshot /\ txs' = {} /\ busy' = FALSE
  /\ op' = [o \in Ops |-> IF o \in InFlight THEN [op[o] EXCEPT !.pc = "done"] ELSE op[o]]
  /\ spoiled' = spoiled \cup txs \cup InFlight
  /\ UNCHANGED <<schematic, open, overlapped, left>>

\* The user draws or opens another page, between the operations.
UserDraws == InFlight = {} /\ Add({UserObject})
             /\ UNCHANGED <<draftVars, lastTx, txs, op, panelVars, history>>
UserOpensPage(p) ==
  /\ InFlight = {} /\ page' = p
  /\ UNCHANGED <<pages, draftVars, lastTx, txs, op, panelVars, history>>

Proceed(o) ==
  \/ Begin(o) \/ Read(o) \/ PageOccupied(o) \/ NewPage(o) \/ NewPageFails(o)
  \/ UndoWires(o) \/ UndoParts(o) \/ NothingToUndo(o) \/ UndoThrows(o)
  \/ Probe(o) \/ ProbesEnd(o) \/ Unprobe(o)
  \/ Place(o) \/ PlacesEnd(o) \/ Wire(o) \/ PlacementThrows(o) \/ Cleanup(o)
  \/ Finish(o) \/ Record(o)

Next ==
  \/ \E d \in DraftIds : GenerateDraft(d) \/ TurnDrafts(d)
  \/ \E o \in Ops : StartApply(o) \/ StartRollback(o) \/ Proceed(o)
  \/ \E p \in 1..Len(panels) : Restore(p)
  \/ \E p \in 1..Len(pages) : UserOpensPage(p)
  \/ ChooseDevices \/ Reset \/ Restart \/ UserDraws

Spec == Init /\ [][Next]_vars

\* The editor's calls return or throw.
FairSpec == Spec /\ \A o \in Ops : WF_vars(Proceed(o))

----------------------------------------------------------------------------
\* Properties.

PanelRecords == [draft : 0..MaxDrafts, snapshot : 0..MaxOps]
OpRecords ==
  [kind : {"none", "apply", "rollback"}, pc : Steps \cup {"idle", "done"}, draft : 0..MaxDrafts,
   target : 0..MaxOps, panel : 1..Len(panels), todo : SUBSET (Parts \cup Nets),
   made : SUBSET Objects, undone : BOOLEAN]
TypeOK ==
  /\ pages \in Seq(SUBSET Objects) /\ page \in 1..Len(pages)
  /\ plan \in 0..MaxDrafts /\ open \subseteq DraftIds
  /\ blocked \in BOOLEAN /\ busy \in BOOLEAN
  /\ lastTx \in 0..MaxOps /\ txs \subseteq Ops
  /\ op \in [Ops -> OpRecords]
  /\ panels \in Seq(PanelRecords) /\ shown \in 1..Len(panels)
  /\ spoiled \subseteq Ops /\ overlapped \subseteq Ops /\ left \subseteq Ops

\* Whatever an apply drew, a probe included, is taken away again by its own
\* clean-up or by the rollback, unless it is still under way or is the last
\* transaction, which the rollback button takes back.  What the button cannot
\* reach any more is what the editor refused to delete or a restart forgot,
\* what a new session or an apply on another page left, and what was drawn by
\* an operation that overlapped another one.  Labels are not rolled back, and
\* the stubs of a net that threw are not recorded.
NothingLeftBehind ==
  \A p \in 1..Len(pages) : \A x \in OfKind(pages[p], {"component", "wire", "probe"}) :
    \/ x.tx \in InFlight \cup spoiled \cup left
    \/ x.tx \in txs /\ x \in op[x.tx].made /\ (x.tx = lastTx \/ x.tx \in overlapped)

\* Two drafts share a page only if their operations overlapped: the later one
\* replaces the earlier one, or goes to a page of its own.
OneDraftPerPage ==
  \A p \in 1..Len(pages) : \A x, y \in OfKind(pages[p], {"component"}) :
    x.tx # y.tx => {x.tx, y.tx} \cap (overlapped \cup spoiled) # {}

\* An apply or rollback never leaves the panel busy.
ApplyEnds == busy ~> ~busy
===============================================================================
