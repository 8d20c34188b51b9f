---------------------------- MODULE DraftDevices ----------------------------
(***************************************************************************)
(* The devices of a draft: the resolution that gives every component of a  *)
(* draft a device of the host's library and its pins the pins of that      *)
(* device (resolveDraftPlanDevices), and the device picker of the panel,   *)
(* by which the user searches candidates and chooses one.                  *)
(*                                                                         *)
(* A plan is an object: internals.draftPlan and a running operation may    *)
(* hold the same one, a choice writes into it, and a resolution ends with  *)
(* a new one.  Every call of the library is a wait.  The panel refuses a   *)
(* second operation of the picker while it is busy, but closing the picker *)
(* ends the busy state and not the operation, and a turn of the chat may   *)
(* bring a new draft at any time; drafts use the same component ids.       *)
(***************************************************************************)
EXTENDS Naturals, Sequences, FiniteSets

CONSTANTS
  ComponentCount,       \* components of a draft
  Devices, NoDevice, \* devices of the library
  PinCount,    \* pins of a component and of a device
  Score,       \* [Devices -> [1..PinCount -> [1..PinCount -> Nat]]]: how well a
               \* draft pin fits a real pin (scoreRealPinMatch)
  Details,     \* [Devices -> SUBSET Answers]: how their detail may be answered
  Best,        \* the devices a resolution may pick as the best result
  Finds,       \* what a search of the picker may find, sequences of devices
  Passive,     \* components whose role lets draft pins stand for real ones
  Pickers,     \* bound: operations of the picker that run at a time
  MaxEvents, MaxGenerated \* bounds: operations of the panel and drafts that arrive,
               \* and of these the drafts, the first one included
ASSUME DevicesAssumption ==
  /\ {ComponentCount, PinCount, Pickers, MaxEvents, MaxGenerated} \subseteq Nat \ {0}
  /\ Finds \subseteq Seq(Devices) /\ Best \subseteq Devices /\ NoDevice \notin Devices /\ Passive \subseteq 1..ComponentCount
  /\ Score \in [Devices -> [1..PinCount -> [1..PinCount -> Nat]]]

\* What a look at the library may give for a device: no detail, one without
\* pins, or its pins.
Answers == {"none", "bare", "read"}
ASSUME DetailsAssumption == Details \in [Devices -> SUBSET Answers]

VARIABLES
  plans,       \* the plan objects that somebody holds; the first one is the
               \* one that internals.draftPlan holds
  picker,      \* devicePicker.items: status and candidates of a component
  task,        \* the operations that run
  begun,       \* operations begun and drafts arrived so far
  newest,      \* history: the last draft that arrived
  chosen,      \* history: what was chosen for it last, by component
  overtaken    \* history: a choice or draft may be lost, see Overtakes

devVars == <<plans, picker, task, begun, newest, chosen, overtaken>>
past == <<newest, chosen, overtaken>>

Components == 1..ComponentCount
Pins == 1..PinCount
Tasks == 1..Pickers
PlanIds == 0..(Pickers + 1)
Spare == Pickers + 1 \* the id of a plan object that is just being made

\* A pin of the draft: its status, and the real pin (of a device) written to
\* it last, which an unresolved pin keeps.
FreshPin == [ok |-> FALSE, of |-> NoDevice, real |-> 0]
\* `blind' (history): the library gave no pins for the device, or not yet.
FreshComponent == [device |-> NoDevice, status |-> "unresolved", blind |-> TRUE]
FreshPlan(draft) ==
  [draft |-> draft,
   comp |-> [c \in Components |-> FreshComponent],
   pins |-> [c \in Components |-> [p \in Pins |-> FreshPin]]]
NoPlan == [FreshPlan(0) EXCEPT !.comp = <<>>, !.pins = <<>>]

\* An operation: its plan, the component it searches (0 for none), the ones
\* left of a loop, and its resolution (empty if none runs).  History: the
\* resolutions that began before it, whether one of them has ended meanwhile,
\* and whether a later one or a draft has.
NoTask == [kind |-> "idle", awaited |-> FALSE, plan |-> 0, on |-> 0, todo |-> {}, work |-> <<>>,
         older |-> {}, crossed |-> FALSE, late |-> FALSE]
Resolving(t) == task[t].work # <<>>
Busy == \E t \in Tasks : task[t].awaited

DevicesInit ==
  /\ plans = [i \in PlanIds |-> IF i = 0 THEN FreshPlan(1) ELSE NoPlan]
  /\ picker = [c \in Components |-> [status |-> "unresolved", candidates |-> <<>>]]
  /\ task = [t \in Tasks |-> NoTask]
  /\ begun = 0
  /\ newest = 1 /\ chosen = [c \in Components |-> NoDevice] /\ overtaken = FALSE

FirstOf(S) == IF S = {} THEN 0 ELSE CHOOSE r \in S : \A s \in S : r <= s

\* What the steps below change, as one record: a handler runs on until its
\* next wait, and a loop through several changes.
Now == [plans |-> plans, current |-> 0, picker |-> picker, task |-> task,
        newest |-> newest, chosen |-> chosen, overtaken |-> overtaken]
\* Plan objects are numbered by their first holder: internals, then the tasks.
Holders(w, id) == {t \in Tasks : w.task[t].kind # "idle" /\ w.task[t].plan = id}
Number(w, id) == IF id = w.current THEN 0 ELSE FirstOf(Holders(w, id))
Become(w) ==
  /\ plans' = [i \in PlanIds |->
        IF i = 0 THEN w.plans[w.current]
        ELSE IF i \in Tasks /\ w.task[i].kind # "idle" /\ Number(w, w.task[i].plan) = i THEN w.plans[w.task[i].plan]
        ELSE NoPlan]
  /\ task' = [t \in Tasks |-> IF w.task[t].kind = "idle" THEN NoTask
                              ELSE [w.task[t] EXCEPT !.plan = Number(w, @)]]
  /\ picker' = w.picker /\ newest' = w.newest /\ chosen' = w.chosen /\ overtaken' = w.overtaken

\* buildDevicePickerState: the statuses of a plan, with the candidates that
\* the items of the same components had before.
PickerOf(plan, items) == [c \in Components |-> [items[c] EXCEPT !.status = plan.comp[c].status]]

----------------------------------------------------------------------------
\* The resolution: every component on its own.

Placed(component) == component.device # NoDevice
\* What the resolution of one component comes to: the device it asked for, the
\* component it returns, and whether the library's detail, the symbol it names
\* or that symbol's source had pins ("read"), none ("bare"), or was missing.
Looked(device, component, pins) ==
  [done |-> TRUE, asked |-> device, pins |-> pins,
   out |-> [device |-> component.device, status |-> "resolved", blind |-> pins # "read"]]
Unresolved(component) ==
  [done |-> TRUE, asked |-> NoDevice, pins |-> "none", out |-> [component EXCEPT !.status = "unresolved"]]
\* A component without a device is searched: nothing suitable is found, or the
\* best result is taken and looked up.
Searched(component) == {Unresolved(component)} \cup
  UNION {{Looked(d, [component EXCEPT !.device = d], pins) : pins \in Details[d]} : d \in Best}
\* A choice resolves without searches: only placed components wait.
Work(plan) == [c \in Components |->
  IF Placed(plan.comp[c]) THEN [Looked(plan.comp[c].device, plan.comp[c], "none") EXCEPT !.done = FALSE]
  ELSE Unresolved(plan.comp[c])]

\* The greedy assignment of real pins: each draft pin in turn takes the best
\* of the real pins that no earlier one took.
BestFree(score, free) == {r \in free : score[r] > 0 /\ \A s \in free : score[s] <= score[r]}
\* Mutant: a real pin may be taken again.
RealPinsReused(device) == [p \in Pins |-> FirstOf(BestFree(Score[device][p], Pins))]
RealPins(device) ==
  LET real[p \in Pins] == FirstOf(BestFree(Score[device][p], Pins \ {real[q] : q \in 1..(p - 1)}))
  IN real

\* rewritePlanPinsWithResolvedDevicePins for the pins of one component:
\* without a detail they stay; a detail without pins lets those of a passive
\* component, placed before, stand for themselves or what they stood for.
RewritePins(pins, c, component, w) ==
  LET real == RealPins(w.asked)
      fallback == c \in Passive /\ Placed(component)
  IN [p \in Pins |->
       CASE w.pins = "none" -> pins[p]
         [] w.pins = "bare" -> [pins[p] EXCEPT !.ok = fallback]
         [] w.pins = "read" -> IF real[p] = 0 THEN [pins[p] EXCEPT !.ok = FALSE]
                               ELSE [ok |-> TRUE, of |-> w.asked, real |-> real[p]]]

Resolved(plan, work) ==
  [draft |-> plan.draft,
   comp |-> [c \in Components |-> work[c].out],
   pins |-> [c \in Components |-> RewritePins(plan.pins[c], c, plan.comp[c], work[c])]]

\* A lookup ends.  The detail is of the device that was asked for when it began,
\* the component it returns is a copy of the object as it is now.
LookupAnswers(t, c) ==
  /\ Resolving(t) /\ ~task[t].work[c].done
  /\ \E pins \in Details[task[t].work[c].asked] :
       task' = [task EXCEPT ![t].work[c] = Looked(@.asked, plans[task[t].plan].comp[c], pins)]
  /\ UNCHANGED <<plans, picker, begun, past>>

----------------------------------------------------------------------------
\* The device picker.

\* chooseDraftDeviceCandidateInternal writes the choice into the plan object
\* that is current, and enrichCurrentDraftPlanFromLibrary resolves that object
\* without searches.  A choice made while an overlapping resolution has left
\* the plan without an earlier choice or with an older draft counts as
\* overtaken.
Behind(w) == w.plans[w.current].draft # w.newest
  \/ \E c \in Components : w.chosen[c] # NoDevice /\ w.plans[w.current].comp[c].device # w.chosen[c]
Choose(w, t, c, d) ==
  LET plan == [w.plans[w.current] EXCEPT !.comp[c] = [device |-> d, status |-> "resolved", blind |-> TRUE]]
  IN [w EXCEPT
       !.plans[w.current] = plan, !.picker = PickerOf(plan, @),
       !.task[t] = [@ EXCEPT !.plan = w.current, !.on = 0, !.work = Work(plan), !.late = FALSE, !.crossed = FALSE,
                             !.older = {u \in Tasks \ {t} : w.task[u].work # <<>>}],
       !.chosen[c] = d, !.overtaken = @ \/ Behind(w)]

\* A search of one component keeps the plan that is current when it begins.
Search(w, t, c) ==
  [w EXCEPT !.task[t] = [@ EXCEPT !.plan = w.current, !.on = c]]

\* The next turn of a loop, or the end of the operation.  Choose-best takes
\* the first candidate, and searches only where there are none yet.
Continue(w, t) ==
  LET todo == w.task[t].todo
      c == CHOOSE x \in todo : \A y \in todo : x <= y
      next == [w EXCEPT !.task[t].todo = @ \ {c}]
  IN IF todo = {} THEN [w EXCEPT !.task[t] = NoTask]
     ELSE IF w.task[t].kind = "best" /\ w.picker[c].candidates # <<>>
          THEN Choose(next, t, c, Head(w.picker[c].candidates))
     ELSE Search(next, t, c)

\* The panel starts an operation unless it waits for another one.
StartsOperation(t) ==
  /\ begun < MaxEvents /\ begun' = begun + 1
  /\ ~Busy /\ task[t].kind = "idle" /\ \A u \in Tasks : u < t => task[u].kind # "idle"
Started(t, kind, todo) ==
  [Now EXCEPT !.task[t] = [NoTask EXCEPT !.kind = kind, !.awaited = TRUE, !.todo = todo]]
UnresolvedItems == {c \in Components : picker[c].status = "unresolved"}

ChooseDraftDeviceCandidate == \E t \in Tasks, c \in Components : \E i \in DOMAIN picker[c].candidates :
  StartsOperation(t) /\ Become(Choose(Started(t, "choose", {}), t, c, picker[c].candidates[i]))
SearchDraftDeviceCandidates == \E t \in Tasks, c \in Components :
  StartsOperation(t) /\ Become(Search(Started(t, "search", {}), t, c))
SearchAllUnresolved == \E t \in Tasks :
  UnresolvedItems # {} /\ StartsOperation(t) /\ Become(Continue(Started(t, "all", UnresolvedItems), t))
ChooseBest == \E t \in Tasks :
  UnresolvedItems # {} /\ StartsOperation(t) /\ Become(Continue(Started(t, "best", UnresolvedItems), t))

\* closeDevicePickerNow: the panel waits no longer, the operation goes on.
CloseDevicePicker ==
  /\ Busy
  /\ task' = [t \in Tasks |-> [task[t] EXCEPT !.awaited = FALSE]]
  /\ UNCHANGED <<plans, picker, begun, past>>
\* openDevicePicker shows the current plan.
OpenDevicePicker ==
  /\ picker' = PickerOf(plans[0], picker)
  /\ UNCHANGED <<plans, task, begun, past>>

\* Mutant: the search makes the plan it holds current again.
SearchWritesPlan(t) == \E found \in Finds :
  LET c == task[t].on
      items == PickerOf(plans[task[t].plan], [picker EXCEPT ![c].candidates = found])
      shown == [Now EXCEPT !.picker = items, !.current = task[t].plan]
  IN /\ task[t].on # 0
     /\ Become(IF task[t].kind = "best" /\ found # <<>>
               THEN Choose(shown, t, c, Head(found)) ELSE Continue(shown, t))
     /\ UNCHANGED begun

\* A search has asked the library by names, by properties and by LCSC ids and
\* merged what it found (mergeDevicePickerCandidates: no device twice), and has
\* the details or their timers have ended.  The picker is built anew from the
\* plan the search holds; choose-best goes on to choose.
SearchAnswers(t) == \E found \in Finds :
  LET c == task[t].on
      items == PickerOf(plans[task[t].plan], [picker EXCEPT ![c].candidates = found])
      shown == [Now EXCEPT !.picker = items]
  IN /\ task[t].on # 0
     /\ Become(IF task[t].kind = "best" /\ found # <<>>
               THEN Choose(shown, t, c, Head(found)) ELSE Continue(shown, t))
     /\ UNCHANGED begun

\* A resolution that is over runs no more, and is not older than another one.
Dropped(ts, t) == [u \in Tasks |->
  IF u = t THEN [ts[t] EXCEPT !.work = <<>>] ELSE [ts[u] EXCEPT !.older = @ \ {t}]]

\* A call of the library fails, or the timer of a search ends: the operation
\* ends there, and what it wrote into the plan object stays.
LibraryFails(t) ==
  /\ task[t].on # 0 \/ (Resolving(t) /\ \E c \in Components : ~task[t].work[c].done)
  /\ Become([Now EXCEPT !.task = [Dropped(@, t) EXCEPT ![t] = NoTask],
                         !.overtaken = @ \/ (Resolving(t) /\ (task[t].crossed \/ task[t].older # {}))])
  /\ UNCHANGED begun

----------------------------------------------------------------------------
\* The end of a resolution.

\* Resolutions that began before one that has ended are late, and one that
\* began after it is crossed.
Passed(ts, t) == [u \in Tasks |->
  [Dropped(ts, t)[u] EXCEPT !.late = @ \/ u \in ts[t].older, !.crossed = @ \/ t \in ts[u].older]]

\* The resolution of a choice ends: its plan is the current one, and the panel
\* shows it.
DeviceResolved(t) ==
  LET plan == Resolved(plans[task[t].plan], task[t].work)
      id == Spare
  IN /\ Resolving(t) /\ \A c \in Components : task[t].work[c].done
     /\ Become(Continue([Now EXCEPT !.plans[id] = plan, !.current = id, !.picker = PickerOf(plan, @),
                           !.task = Passed(@, t), !.overtaken = @ \/ task[t].late], t))
     /\ UNCHANGED begun

\* With a newer draft, all resolutions that run are late.
Outdated(ts) == [u \in Tasks |-> [ts[u] EXCEPT !.late = @ \/ ts[u].work # <<>>]]

\* A turn of the chat ends with a draft, resolved with searches before anybody
\* else held it (draft_generate_plan), and the draft replaces the current plan
\* (generateDraftStateFromResult), whatever the picker is doing.
DraftArrives == \E work \in [Components -> Searched(FreshComponent)] :
  LET plan == Resolved(FreshPlan(newest + 1), work)
      id == Spare
  IN /\ newest < MaxGenerated /\ begun < MaxEvents /\ begun' = begun + 1
     /\ Become([Now EXCEPT !.plans[id] = plan, !.current = id, !.picker = PickerOf(plan, @),
                  !.task = Outdated(@),
                  !.newest = @ + 1, !.chosen = [c \in Components |-> NoDevice], !.overtaken = FALSE])

DevicesNext ==
  \/ ChooseDraftDeviceCandidate \/ SearchDraftDeviceCandidates \/ SearchAllUnresolved \/ ChooseBest
  \/ CloseDevicePicker \/ OpenDevicePicker \/ DraftArrives
  \/ \E t \in Tasks : SearchAnswers(t) \/ LibraryFails(t) \/ DeviceResolved(t)
  \/ \E t \in Tasks, c \in Components : LookupAnswers(t, c)

DevicesSpec == DevicesInit /\ [][DevicesNext]_devVars

----------------------------------------------------------------------------
Settled == \A t \in Tasks : ~Resolving(t)
Current == plans[0]

\* What was chosen for the newest draft is in the current plan, which is that
\* draft's, once no choice is being worked on: searches, loops and the end of
\* a turn do not undo it.  The exception is an overtaken choice: resolutions
\* ended in another order than they began or after a newer draft, one that
\* overlapped an older one failed, or a choice was made on a plan lacking one.
ChoiceKept == Settled /\ ~overtaken =>
  /\ Current.draft = newest
  /\ \A c \in Components : chosen[c] # NoDevice =>
       /\ Current.comp[c].device = chosen[c]
       /\ Current.comp[c].status = "resolved"

\* Then too, the pins of a component that count as resolved are different
\* real pins of the very device it has, unless the library gave no pins for
\* that device.
PinsFitDevice == Settled /\ ~overtaken =>
  \A c \in Components : ~Current.comp[c].blind =>
    \A p, q \in Pins : Current.pins[c][p].ok =>
      /\ Current.pins[c][p].of = Current.comp[c].device
      /\ p # q /\ Current.pins[c][q].ok => Current.pins[c][p].real # Current.pins[c][q].real
=============================================================================
