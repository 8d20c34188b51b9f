------------------------------ MODULE DraftProofs ------------------------------
(***************************************************************************)
(* The two halves of a draft: its way into the schematic and back, and the *)
(* devices it gets.  What an apply drew is taken away or can be rolled     *)
(* back, and two drafts do not share a page, for any number of parts,      *)
(* nets, pages, sessions and operations that interleave; what the user     *)
(* chose for a draft stays chosen, and the pins that count as resolved fit *)
(* the device, for any number of components, pins, devices and operations  *)
(* of the picker that overlap.                                             *)
(***************************************************************************)
EXTENDS DraftApply, DraftDevices, Integers, SequenceTheorems, WellFoundedInduction, TLAPS

\* What a drawing leaves on the pages, but for labels and stubs.
Lasting == {"component", "wire", "probe"}
On(o) == {x \in Objects : x.tx = o /\ x.kind \in Lasting /\ \E p \in 1..Len(pages) : x \in pages[p]}
Waiting == {"idle", "begin", "read", "reread", "page", "check", "undoWires", "undoParts"}
Probing == {"probe", "unprobe", "unprobeAll"}
Drawing == {"place", "wire", "cleanup", "record"}
Undoing == {"undoWires", "undoParts"}
Recorded2 == {"record", "done"}
Committed(tx) == tx = 0 \/ (tx \in Ops /\ op[tx].pc \in Recorded2)

\* What is on the pages is known to the operation that made it,
Known(o) == o \notin spoiled => On(o) \subseteq op[o].made
\* which has probes, or what it draws, or nothing yet;
Stage(o) ==
  /\ \A x \in op[o].made : x.tx = o
  /\ op[o].pc \in Waiting => op[o].made = {}
  /\ op[o].pc \in Probing => \A x \in op[o].made : x.kind = "probe"
  /\ op[o].pc \in Drawing \/ o \in txs => \A x \in op[o].made : x.kind # "probe"
\* a finished one has left nothing, unless it can be rolled back;
Clean(o) == o \notin txs \cup spoiled /\ op[o].pc \in Recorded2 => On(o) = {}
\* a rollback has a transaction to undo, and no wire is left of it when its
\* components go.
Undo(o) ==
  /\ Committed(op[o].target)
  /\ op[o].pc \in Undoing => op[o].target # 0
  /\ op[o].pc = "undoParts" =>
       op[o].target \in spoiled \/ \A x \in On(op[o].target) : x.kind # "wire"
OpInv(o) == Known(o) /\ Stage(o) /\ Clean(o) /\ Undo(o) /\ (o \in txs => op[o].pc \in Recorded2)
Reachable == Committed(lastTx) /\ \A p \in 1..Len(panels) : Committed(panels[p].snapshot)
Typed ==
  /\ pages \in Seq(SUBSET Objects) /\ page \in 1..Len(pages)
  /\ plan \in 0..MaxDrafts /\ open \subseteq DraftIds
  /\ blocked \in BOOLEAN /\ busy \in BOOLEAN
  /\ lastTx \in 0..MaxOps /\ txs \subseteq Ops
  /\ op \in [Ops -> OpRecords]
  /\ panels \in Seq(PanelRecords) /\ shown \in 1..Len(panels)
  /\ spoiled \subseteq Ops /\ overlapped \subseteq Ops
Ledger == Typed /\ Reachable /\ \A o \in Ops : OpInv(o)

\* An operation is alone unless it overlaps another one; then the page it
\* draws on has no component of another one.
Alone == \A o \in InFlight \ overlapped : InFlight = {o}
OwnPage ==
  \A o \in InFlight \ (overlapped \cup spoiled) : op[o].pc \in Probing \cup {"place", "wire"} =>
    \A x \in OfKind(pages[page], {"component"}) : x.tx = o
PageInv == Alone /\ OwnPage /\ OneDraftPerPage
Inv == Ledger /\ PageInv

----------------------------------------------------------------------------
\* Types of the parts.
PagesOK == pages \in Seq(SUBSET Objects) /\ page \in 1..Len(pages)
PanelsOK == panels \in Seq(PanelRecords) /\ shown \in 1..Len(panels) /\ busy \in BOOLEAN
DraftsOK == plan \in 0..MaxDrafts /\ open \in SUBSET DraftIds /\ blocked \in BOOLEAN
RestOK == lastTx \in 0..MaxOps /\ txs \in SUBSET Ops /\ spoiled \in SUBSET Ops /\ overlapped \in SUBSET Ops

LEMMA TypeParts ==
  Typed <=> PagesOK /\ PanelsOK /\ DraftsOK /\ RestOK /\ op \in [Ops -> OpRecords]
BY DEF Typed, PagesOK, PanelsOK, DraftsOK, RestOK

LEMMA Bounds ==
  /\ MaxDrafts \in Nat \ {0} /\ MaxOps \in Nat \ {0} /\ MaxPages \in Nat \ {0} /\ MaxPanels \in Nat \ {0}
  /\ 0 \in 0..MaxOps /\ 0 \in 0..MaxDrafts /\ Ops \subseteq 0..MaxOps /\ \A o \in Ops : o # 0
BY DraftAssumption DEF Ops

LEMMA TypedAfter ==
  ASSUME PagesOK', PanelsOK', DraftsOK', RestOK', 1..Len(panels) \subseteq 1..Len(panels'),
         op' \in [Ops -> OpRecords]
  PROVE  Typed'
<1>1. OpRecords \subseteq OpRecords'
  BY DEF OpRecords
<1>2. op' \in [Ops -> OpRecords']
  BY <1>1
<1> QED BY <1>2 DEF Typed, PagesOK, PanelsOK, DraftsOK, RestOK

\* An operation is a record of these fields.
LEMMA OpFacts ==
  ASSUME Typed, NEW o \in Ops
  PROVE  /\ op[o] \in OpRecords
         /\ op[o].kind \in {"none", "apply", "rollback"} /\ op[o].pc \in Steps \cup {"idle", "done"}
         /\ op[o].draft \in 0..MaxDrafts /\ op[o].target \in 0..MaxOps /\ op[o].panel \in 1..Len(panels)
         /\ op[o].todo \in SUBSET (Parts \cup Nets) /\ op[o].made \in SUBSET Objects
         /\ op[o].undone \in BOOLEAN
<1>1. op[o] \in OpRecords
  BY DEF Typed
<1> QED BY <1>1 DEF OpRecords

LEMMA OpChanges ==
  ASSUME Typed, NEW o \in Ops, NEW r \in OpRecords, op' = [op EXCEPT ![o] = r]
  PROVE  /\ op' \in [Ops -> OpRecords] /\ op'[o] = r
         /\ \A q \in Ops \ {o} : op'[q] = op[q]
BY DEF Typed

LEMMA TurnsTyped ==
  ASSUME Typed, NEW o \in Ops, NEW step \in Steps \cup {"done"}, NEW target \in 0..MaxOps, NEW undone \in BOOLEAN,
         Turns(o, step, target, undone)
  PROVE  /\ op' \in [Ops -> OpRecords] /\ \A q \in Ops \ {o} : op'[q] = op[q]
         /\ op'[o].pc = step /\ op'[o].target = target /\ op'[o].made = op[o].made
         /\ op'[o].panel = op[o].panel /\ op'[o].kind = op[o].kind
<1> DEFINE r == [kind |-> op[o].kind, pc |-> step, draft |-> op[o].draft, target |-> target,
                 panel |-> op[o].panel, todo |-> op[o].todo, made |-> op[o].made, undone |-> undone]
<1>1. op' = [op EXCEPT ![o] = r]
  BY DEF Turns, Typed
<1>2. r \in OpRecords
  BY OpFacts DEF OpRecords
<1>3. r.pc = step /\ r.target = target /\ r.made = op[o].made /\ r.panel = op[o].panel /\ r.kind = op[o].kind
  OBVIOUS
<1> HIDE DEF r
<1> QED BY <1>1, <1>2, <1>3, OpChanges

LEMMA DrawsTyped ==
  ASSUME Typed, NEW o \in Ops, NEW step \in Steps \cup {"done"}, NEW todo \in SUBSET (Parts \cup Nets),
         NEW made \in SUBSET Objects, Draws(o, step, todo, made)
  PROVE  /\ op' \in [Ops -> OpRecords] /\ \A q \in Ops \ {o} : op'[q] = op[q]
         /\ op'[o].pc = step /\ op'[o].target = op[o].target /\ op'[o].made = made
         /\ op'[o].panel = op[o].panel /\ op'[o].kind = op[o].kind
<1> DEFINE r == [kind |-> op[o].kind, pc |-> step, draft |-> op[o].draft, target |-> op[o].target,
                 panel |-> op[o].panel, todo |-> todo, made |-> made, undone |-> op[o].undone]
<1>1. op' = [op EXCEPT ![o] = r]
  BY DEF Draws, Typed
<1>2. r \in OpRecords
  BY OpFacts DEF OpRecords
<1>3. r.pc = step /\ r.target = op[o].target /\ r.made = made /\ r.panel = op[o].panel /\ r.kind = op[o].kind
  OBVIOUS
<1> HIDE DEF r
<1> QED BY <1>1, <1>2, <1>3, OpChanges

LEMMA GotoTyped ==
  ASSUME Typed, NEW o \in Ops, NEW step \in Steps \cup {"done"}, Goto(o, step)
  PROVE  /\ op' \in [Ops -> OpRecords] /\ \A q \in Ops \ {o} : op'[q] = op[q]
         /\ op'[o].pc = step /\ op'[o].target = op[o].target /\ op'[o].made = op[o].made
         /\ op'[o].panel = op[o].panel /\ op'[o].kind = op[o].kind
<1>1. op[o] \in OpRecords
  BY OpFacts
<1> DEFINE r == [op[o] EXCEPT !.pc = step]
<1>2. r \in OpRecords
  BY <1>1 DEF OpRecords
<1>3. r.pc = step /\ r.target = op[o].target /\ r.made = op[o].made /\ r.panel = op[o].panel /\ r.kind = op[o].kind
  BY <1>1 DEF OpRecords
<1>4. op' = [op EXCEPT ![o] = r]
  BY DEF Goto, Typed
<1> HIDE DEF r
<1> QED BY <1>2, <1>3, <1>4, OpChanges

----------------------------------------------------------------------------
\* What drawing and deleting do to the pages.
LEMMA Added ==
  ASSUME Typed, NEW new \in SUBSET Objects, Add(new)
  PROVE  /\ PagesOK' /\ Len(pages') = Len(pages) /\ page' = page
         /\ \A p \in 1..Len(pages) : pages'[p] = IF p = page THEN pages[p] \cup new ELSE pages[p]
         /\ \A q : On(q)' \subseteq On(q) \cup {x \in new : x.tx = q /\ x.kind \in Lasting}
<1>1. pages \in Seq(SUBSET Objects) /\ page \in 1..Len(pages)
  BY DEF Typed
<1>2. pages[page] \cup new \in SUBSET Objects
  BY <1>1
<1>3. pages' = [pages EXCEPT ![page] = pages[page] \cup new] /\ page' = page
  BY DEF Add
<1>4. /\ pages' \in Seq(SUBSET Objects) /\ Len(pages') = Len(pages)
      /\ \A p \in 1..Len(pages) : pages'[p] = IF p = page THEN pages[page] \cup new ELSE pages[p]
  BY <1>1, <1>2, <1>3, ExceptSeq
<1>5. \A q : On(q)' \subseteq On(q) \cup {x \in new : x.tx = q /\ x.kind \in Lasting}
  BY <1>1, <1>4 DEF On
<1> QED BY <1>1, <1>3, <1>4, <1>5 DEF PagesOK

LEMMA Gone ==
  ASSUME Typed, NEW objects, Remove(objects)
  PROVE  /\ PagesOK' /\ Len(pages') = Len(pages) /\ page' = page
         /\ \A p \in 1..Len(pages) : pages'[p] = pages[p] \ objects
         /\ \A q : On(q)' = On(q) \ objects
<1>1. pages \in Seq(SUBSET Objects) /\ page \in 1..Len(pages) /\ Len(pages) \in Nat
  BY DEF Typed
<1>2. pages' = [p \in 1..Len(pages) |-> pages[p] \ objects] /\ page' = page
  BY DEF Remove
<1>3. \A p \in 1..Len(pages) : pages[p] \ objects \in SUBSET Objects
  BY <1>1
<1>4. /\ pages' \in Seq(SUBSET Objects) /\ Len(pages') = Len(pages)
      /\ \A p \in 1..Len(pages) : pages'[p] = pages[p] \ objects
  BY <1>1, <1>2, <1>3
<1>5. \A q : On(q)' = On(q) \ objects
  BY <1>4 DEF On
<1> QED BY <1>1, <1>2, <1>4, <1>5 DEF PagesOK

\* One call of delete: what it was to delete is gone, or the transaction is
\* spoiled.
LEMMA Deleted ==
  ASSUME Typed, NEW objects, NEW tx \in Ops, NEW ok \in BOOLEAN, Deletes(objects, tx, ok)
  PROVE  /\ PagesOK' /\ Len(pages') = Len(pages) /\ page' = page
         /\ \A p \in 1..Len(pages) : pages'[p] \subseteq pages[p]
         /\ \A q : On(q)' \subseteq On(q)
         /\ spoiled \subseteq spoiled' /\ spoiled' \in SUBSET Ops
         /\ tx \in spoiled' \/ \A q : On(q)' \cap objects = {}
<1>1. spoiled \subseteq spoiled' /\ spoiled' \in SUBSET Ops
  BY DEF Deletes, Typed
<1>2. CASE ok
  <2>1. Remove(objects)
    BY <1>2 DEF Deletes
  <2>2. /\ PagesOK' /\ Len(pages') = Len(pages) /\ page' = page
        /\ \A p \in 1..Len(pages) : pages'[p] = pages[p] \ objects
        /\ \A q : On(q)' = On(q) \ objects
    BY <2>1, Gone
  <2> QED BY <1>1, <2>2
<1>3. CASE ~ok
  <2>1. Remove({})
    BY <1>3 DEF Deletes
  <2>2. /\ PagesOK' /\ Len(pages') = Len(pages) /\ page' = page
        /\ \A p \in 1..Len(pages) : pages'[p] = pages[p] \ {}
        /\ \A q : On(q)' = On(q) \ {}
    BY <2>1, Gone
  <2>3. tx \in spoiled' \/ OnPages(objects) = {}
    BY <1>3 DEF Deletes
  <2>4. OnPages(objects) = {} => \A q : On(q) \cap objects = {}
    BY DEF OnPages, On
  <2> QED BY <1>1, <2>2, <2>3, <2>4
<1> QED BY <1>2, <1>3
----------------------------------------------------------------------------
\* A step of operation o leaves the others as they are, and takes nothing of
\* what is known of them away.
Moves(o) ==
  /\ \A q \in Ops \ {o} : op'[q] = op[q]
  /\ op[o].pc \in Recorded2 => op'[o].pc \in Recorded2
  /\ \A q \in Ops : q # o \/ op[q].pc \in Recorded2 => On(q)' \subseteq On(q)
  /\ spoiled \subseteq spoiled'
  /\ \A q \in Ops \ {o} :
       /\ q \in txs' => q \in txs
       /\ q \in txs \ txs' => q \in spoiled' \/ On(q)' = {}

LEMMA CommittedStays ==
  ASSUME NEW o \in Ops, Moves(o), NEW tx, Committed(tx)
  PROVE  Committed(tx)'
BY DEF Moves, Committed

LEMMA LedgerStep ==
  ASSUME Ledger, Typed', NEW o \in Ops, Moves(o), OpInv(o)', Reachable'
  PROVE  Ledger'
<1> SUFFICES ASSUME NEW q \in Ops, q # o PROVE OpInv(q)'
  BY DEF Ledger
<1>1. OpInv(q) /\ op'[q] = op[q] /\ On(q)' \subseteq On(q) /\ (q \in txs' => q \in txs) /\ spoiled \subseteq spoiled'
  BY DEF Ledger, Moves
<1>2. Known(q)'
  BY <1>1 DEF OpInv, Known
<1>3. Stage(q)'
  BY <1>1 DEF OpInv, Stage
<1>4. Clean(q)'
  BY <1>1 DEF OpInv, Clean, Moves
<1>5. Undo(q)'
  <2>1. PICK d : d = op[q].target
    OBVIOUS
  <2>2. op'[q].target = d /\ op'[q].pc = op[q].pc
    BY <1>1, <2>1
  <2>3. Committed(d) /\ Committed(d)'
    <3>1. Committed(d)
      BY <1>1, <2>1 DEF OpInv, Undo
    <3> QED BY <3>1, CommittedStays
  <2>4. op[q].pc \in Undoing => d # 0
    BY <1>1, <2>1 DEF OpInv, Undo
  <2>5. ASSUME op[q].pc = "undoParts" PROVE d \in spoiled' \/ \A x \in On(d)' : x.kind # "wire"
    <3>1. d \in Ops /\ op[d].pc \in Recorded2
      BY <2>3, <2>4, <2>5 DEF Undoing, Committed
    <3>2. On(d)' \subseteq On(d)
      BY <3>1 DEF Moves
    <3>3. d \in spoiled \/ \A x \in On(d) : x.kind # "wire"
      BY <1>1, <2>1, <2>5 DEF OpInv, Undo
    <3> QED BY <1>1, <3>2, <3>3
  <2> QED BY <2>2, <2>3, <2>4, <2>5 DEF Undo, Committed, On
<1>6. q \in txs' => op'[q].pc \in Recorded2
  BY <1>1 DEF OpInv
<1> QED BY <1>2, <1>3, <1>4, <1>5, <1>6 DEF OpInv

\* The same for the pages of the operations that run.
OwnPageOf(o) ==
  o \in InFlight \ (overlapped \cup spoiled) /\ op[o].pc \in Probing \cup {"place", "wire"} =>
    \A x \in OfKind(pages[page], {"component"}) : x.tx = o
LEMMA PageStep ==
  ASSUME Typed, PageInv, NEW o \in InFlight, Moves(o), overlapped' = overlapped, OwnPageOf(o)',
         \A p \in 1..Len(pages') : \A x \in OfKind(pages'[p], {"component"}) :
           \/ p \in 1..Len(pages) /\ x \in pages[p]
           \/ x.tx = o /\ p = page /\ p \in 1..Len(pages) /\ op[o].pc = "place"
                       /\ \A y \in pages'[p] : y \in pages[p] \/ y.tx = o
  PROVE  PageInv'
<1>1. o \in Ops /\ \A q \in Ops \ {o} : op'[q] = op[q]
  BY DEF InFlight, Moves
<1>2. InFlight' \subseteq InFlight /\ spoiled \subseteq spoiled'
  BY <1>1 DEF InFlight, Moves
<1>3. Alone'
  BY <1>2 DEF PageInv, Alone
<1>4. OwnPage'
  <2> SUFFICES ASSUME NEW q \in InFlight' \ (overlapped' \cup spoiled'), op'[q].pc \in Probing \cup {"place", "wire"}
               PROVE  \A x \in OfKind(pages'[page'], {"component"}) : x.tx = q
    BY DEF OwnPage
  <2>1. q \in InFlight \ overlapped
    BY <1>2
  <2>2. q = o
    BY <2>1 DEF PageInv, Alone
  <2> QED BY <2>2 DEF OwnPageOf
<1>5. OneDraftPerPage'
  <2> SUFFICES ASSUME NEW p \in 1..Len(pages'), NEW x \in OfKind(pages'[p], {"component"}),
                      NEW y \in OfKind(pages'[p], {"component"}), x.tx # y.tx
               PROVE  {x.tx, y.tx} \cap (overlapped \cup spoiled) # {}
    BY <1>2 DEF OneDraftPerPage
  <2>1. CASE p \in 1..Len(pages) /\ x \in pages[p] /\ y \in pages[p]
    BY <2>1 DEF PageInv, OneDraftPerPage, OfKind
  <2>2. ASSUME NEW a \in OfKind(pages'[p], {"component"}), NEW b \in OfKind(pages'[p], {"component"}), a.tx # b.tx,
               ~(p \in 1..Len(pages) /\ a \in pages[p])
        PROVE  o \in {a.tx, b.tx} /\ o \in overlapped \cup spoiled
    <3>1. a.tx = o /\ p = page /\ p \in 1..Len(pages) /\ op[o].pc = "place" /\ \A z \in pages'[p] : z \in pages[p] \/ z.tx = o
      BY <2>2
    <3>2. b \in OfKind(pages[page], {"component"})
      BY <2>2, <3>1 DEF OfKind
    <3>3. o \in overlapped \cup spoiled
      BY <2>2, <3>1, <3>2 DEF PageInv, OwnPage
    <3> QED BY <3>1, <3>3
  <2>3. CASE ~(p \in 1..Len(pages) /\ x \in pages[p])
    BY <2>2, <2>3
  <2>4. CASE ~(p \in 1..Len(pages) /\ y \in pages[p])
    BY <2>2, <2>4
  <2> QED BY <2>1, <2>3, <2>4
<1> QED BY <1>3, <1>4, <1>5 DEF PageInv

\* All together.
LEMMA StepGood ==
  ASSUME Inv, NEW o \in InFlight, PagesOK', PanelsOK', DraftsOK', RestOK', 1..Len(panels) \subseteq 1..Len(panels'),
         op' \in [Ops -> OpRecords], Moves(o), OpInv(o)', Reachable', overlapped' = overlapped, OwnPageOf(o)',
         \A p \in 1..Len(pages') : \A x \in OfKind(pages'[p], {"component"}) :
           \/ p \in 1..Len(pages) /\ x \in pages[p]
           \/ x.tx = o /\ p = page /\ p \in 1..Len(pages) /\ op[o].pc = "place"
                       /\ \A y \in pages'[p] : y \in pages[p] \/ y.tx = o
  PROVE  Inv'
<1>1. Typed'
  BY TypedAfter
<1>2. o \in Ops
  BY DEF InFlight
<1>3. Ledger'
  BY <1>1, <1>2, LedgerStep DEF Inv
<1>4. PageInv'
  BY PageStep DEF Inv, Ledger
<1> QED BY <1>3, <1>4 DEF Inv

LEMMA SamePages ==
  ASSUME Typed, UNCHANGED schematic
  PROVE  PagesOK' /\ Len(pages') = Len(pages) /\ \A q : On(q)' = On(q)
BY DEF schematic, Typed, PagesOK, On

\* A step of o that leaves the schematic and the transactions alone.
LEMMA QuietStep ==
  ASSUME Inv, NEW o \in InFlight, UNCHANGED <<schematic, draftVars, txs, overlapped>>,
         spoiled \subseteq spoiled', spoiled' \in SUBSET Ops, PanelsOK', lastTx' \in 0..MaxOps,
         1..Len(panels) \subseteq 1..Len(panels'), Reachable',
         op' \in [Ops -> OpRecords], \A q \in Ops \ {o} : op'[q] = op[q],
         op'[o].made = op[o].made, op'[o].pc # "undoParts",
         op[o].pc \in Recorded2 => op'[o].pc \in Recorded2,
         op'[o].pc \in Recorded2 => op[o].pc \in Waiting \cup {"record"},
         op'[o].pc \in Waiting => op[o].pc \in Waiting,
         op'[o].pc \in Probing => op[o].pc \in Probing \cup Waiting,
         op'[o].pc \in Drawing => op[o].pc \in Drawing,
         Committed(op'[o].target), op'[o].pc \in Undoing => op'[o].target # 0,
         op'[o].pc \in Probing \cup {"place", "wire"} =>
           op[o].pc \in Probing \cup {"place", "wire"} \/ Empty(pages[page])
  PROVE  Inv'
<1>1. o \in Ops /\ Typed /\ OpInv(o)
  BY DEF InFlight, Inv, Ledger
<1>2. PagesOK' /\ Len(pages') = Len(pages) /\ \A q : On(q)' = On(q)
  BY <1>1, SamePages
<1>3. pages' = pages /\ page' = page
  BY DEF schematic
<1>4. Moves(o)
  BY <1>2 DEF Moves
<1>5. DraftsOK' /\ RestOK'
  BY <1>1 DEF DraftsOK, RestOK, Typed, draftVars
<1>6. Known(o)'
  BY <1>1, <1>2 DEF OpInv, Known
<1>7. Stage(o)'
  <2>1. o \in txs' => \A x \in op'[o].made : x.kind # "probe"
    BY <1>1 DEF OpInv, Stage
  <2>2. op'[o].pc \in Drawing => \A x \in op'[o].made : x.kind # "probe"
    BY <1>1 DEF OpInv, Stage
  <2>3. op'[o].pc \in Probing => \A x \in op'[o].made : x.kind = "probe"
    BY <1>1 DEF OpInv, Stage
  <2>4. (op'[o].pc \in Waiting => op'[o].made = {}) /\ \A x \in op'[o].made : x.tx = o
    BY <1>1 DEF OpInv, Stage
  <2> QED BY <2>1, <2>2, <2>3, <2>4 DEF Stage
<1>8. Clean(o)'
  <2> SUFFICES ASSUME o \notin txs \cup spoiled', op'[o].pc \in Recorded2 PROVE On(o) = {}
    BY <1>2 DEF Clean
  <2>1. CASE op[o].pc \in Waiting
    BY <1>1, <2>1 DEF OpInv, Known, Stage
  <2>2. CASE op[o].pc = "record"
    BY <1>1, <2>2 DEF OpInv, Clean, Recorded2
  <2> QED BY <2>1, <2>2
<1>9. Undo(o)'
  <2>1. \A t : Committed(t) => Committed(t)'
    BY <1>1, <1>4, CommittedStays
  <2>2. PICK d : d = op'[o].target
    OBVIOUS
  <2>3. Committed(d)'
    BY <2>1, <2>2
  <2> QED BY <2>2, <2>3 DEF Undo, Committed
<1>10. o \in txs' => op'[o].pc \in Recorded2
  BY <1>1 DEF OpInv
<1>11. OwnPageOf(o)'
  <2> SUFFICES ASSUME o \in InFlight \ (overlapped \cup spoiled), op'[o].pc \in Probing \cup {"place", "wire"},
                      NEW x \in OfKind(pages[page], {"component"})
               PROVE  x.tx = o
    BY <1>3 DEF OwnPageOf
  <2>1. CASE op[o].pc \in Probing \cup {"place", "wire"}
    BY <2>1 DEF Inv, PageInv, OwnPage
  <2>2. CASE Empty(pages[page])
    BY <2>2 DEF Empty, OfKind
  <2> QED BY <2>1, <2>2
<1>12. OpInv(o)'
  BY <1>6, <1>7, <1>8, <1>9, <1>10 DEF OpInv
<1> QED BY <1>2, <1>3, <1>4, <1>5, <1>11, <1>12, StepGood DEF OfKind

----------------------------------------------------------------------------
\* The steps of an operation, one after the other.

\* An operation that is over shows its panel.
LEMMA OverFacts ==
  ASSUME Typed, NEW o \in Ops, Over(o), panels' = panels
  PROVE  /\ PanelsOK' /\ op' \in [Ops -> OpRecords] /\ \A q \in Ops \ {o} : op'[q] = op[q]
         /\ op'[o].pc = "done" /\ op'[o].target = op[o].target /\ op'[o].made = op[o].made
BY OpFacts, GotoTyped DEF Over, PanelsOK, Typed

LEMMA Standing ==
  ASSUME Inv, NEW o \in InFlight
  PROVE  /\ o \in Ops /\ Typed /\ OpInv(o) /\ Reachable /\ lastTx \in 0..MaxOps /\ spoiled \in SUBSET Ops
         /\ PanelsOK /\ op[o].target \in 0..MaxOps /\ op[o].undone \in BOOLEAN /\ Committed(op[o].target)
<1>1. o \in Ops /\ Typed /\ OpInv(o) /\ Reachable
  BY DEF InFlight, Inv, Ledger
<1>2. op[o].target \in 0..MaxOps /\ op[o].undone \in BOOLEAN
  BY <1>1, OpFacts
<1> QED BY <1>1, <1>2 DEF Typed, PanelsOK, OpInv, Undo

\* What is reachable only depends on these.
LEMMA ReachableStays ==
  ASSUME Inv, NEW o \in Ops, \A q \in Ops \ {o} : op'[q] = op[q],
         op[o].pc \in Recorded2 => op'[o].pc \in Recorded2,
         lastTx' \in {0, lastTx}, panels' = panels
  PROVE  Reachable'
<1>1. Reachable
  BY DEF Inv, Ledger
<1>2. \A t : Committed(t) => Committed(t)'
  BY DEF Committed
<1>3. Committed(lastTx)'
  <2>1. PICK t : t = lastTx'
    OBVIOUS
  <2>2. Committed(t)
    BY <1>1, <2>1 DEF Reachable, Committed
  <2>3. Committed(t)'
    BY <1>2, <2>2
  <2> QED BY <2>1, <2>3 DEF Committed
<1>4. \A p \in 1..Len(panels) : Committed(panels[p].snapshot)'
  <2> SUFFICES ASSUME NEW p \in 1..Len(panels) PROVE Committed(panels[p].snapshot)'
    OBVIOUS
  <2>1. PICK t : t = panels[p].snapshot
    OBVIOUS
  <2>2. Committed(t)'
    BY <1>1, <1>2, <2>1 DEF Reachable
  <2> QED BY <2>1, <2>2 DEF Committed
<1> QED BY <1>3, <1>4 DEF Reachable

LEMMA BeginGood == ASSUME Inv, NEW o \in InFlight, Begin(o) PROVE Inv'
<1>1. op[o].pc = "begin" /\ Turns(o, "read", lastTx, op[o].undone)
      /\ UNCHANGED <<schematic, draftVars, txs, overlapped, spoiled, lastTx, panels>>
      /\ busy' = TRUE /\ shown' = op[o].panel
  BY DEF Begin, history
<1>2. o \in Ops /\ Typed /\ Reachable /\ lastTx \in 0..MaxOps /\ op[o].undone \in BOOLEAN /\ spoiled \in SUBSET Ops
  BY Standing
<1>3. /\ op' \in [Ops -> OpRecords] /\ \A q \in Ops \ {o} : op'[q] = op[q]
      /\ op'[o].pc = "read" /\ op'[o].target = lastTx /\ op'[o].made = op[o].made
  BY <1>1, <1>2, TurnsTyped DEF Steps, ApplySteps
<1>4. PanelsOK'
  BY <1>1, <1>2, OpFacts DEF PanelsOK, Typed
<1>5. Reachable'
  BY <1>1, <1>2, <1>3, ReachableStays DEF Recorded2
<1>6. Committed(op'[o].target)
  BY <1>2, <1>3 DEF Reachable
<1> QED BY <1>1, <1>2, <1>3, <1>4, <1>5, <1>6, QuietStep DEF Recorded2, Waiting, Probing, Drawing, Undoing

LEMMA ReadGood == ASSUME Inv, NEW o \in InFlight, Read(o) PROVE Inv'
<1>1. op[o].pc \in {"read", "reread", "check"}
      /\ UNCHANGED <<schematic, draftVars, txs, overlapped, spoiled, lastTx, panels, shown, busy>>
  BY DEF Read, history, panelVars
<1>2. /\ o \in Ops /\ Typed /\ OpInv(o) /\ lastTx \in 0..MaxOps /\ spoiled \in SUBSET Ops /\ PanelsOK
      /\ Committed(op[o].target)
  BY Standing
<1>3. PanelsOK'
  BY <1>1, <1>2 DEF PanelsOK
<1>4. CASE Empty(pages[page]) /\ Draws(o, "probe", Parts, op[o].made)
  <2>1. op[o].made \in SUBSET Objects
    BY <1>2, OpFacts
  <2>2. /\ op' \in [Ops -> OpRecords] /\ \A q \in Ops \ {o} : op'[q] = op[q]
        /\ op'[o].pc = "probe" /\ op'[o].target = op[o].target /\ op'[o].made = op[o].made
    BY <1>2, <1>4, <2>1, DrawsTyped DEF Steps, ApplySteps
  <2>3. Reachable'
    BY <1>1, <1>2, <2>2, ReachableStays DEF Recorded2
  <2> QED BY <1>1, <1>2, <1>3, <1>4, <2>2, <2>3, QuietStep DEF Recorded2, Waiting, Probing, Drawing, Undoing
<1>5. CASE Goto(o, IF op[o].pc = "read" /\ op[o].target # 0 THEN "undoWires" ELSE "page")
  <2>1. PICK step \in {"undoWires", "page"} : Goto(o, step) /\ (step = "undoWires" => op[o].target # 0)
    BY <1>5
  <2>2. /\ op' \in [Ops -> OpRecords] /\ \A q \in Ops \ {o} : op'[q] = op[q]
        /\ op'[o].pc = step /\ op'[o].target = op[o].target /\ op'[o].made = op[o].made
    BY <1>2, <2>1, GotoTyped DEF Steps, ApplySteps
  <2>3. Reachable'
    BY <1>1, <1>2, <2>2, ReachableStays DEF Recorded2
  <2> QED BY <1>1, <1>2, <1>3, <2>1, <2>2, <2>3, QuietStep DEF Recorded2, Waiting, Probing, Drawing, Undoing
<1> QED BY <1>4, <1>5 DEF Read

\* A step that ends the operation, and changes nothing else.
LEMMA FailsGood ==
  ASSUME Inv, NEW o \in InFlight, op[o].pc \in Waiting, Over(o),
         UNCHANGED <<schematic, draftVars, txs, overlapped, lastTx, panels>>,
         spoiled \subseteq spoiled', spoiled' \in SUBSET Ops
  PROVE  Inv'
<1>1. /\ o \in Ops /\ Typed /\ lastTx \in 0..MaxOps /\ Committed(op[o].target)
  BY Standing
<1>2. /\ PanelsOK' /\ op' \in [Ops -> OpRecords] /\ \A q \in Ops \ {o} : op'[q] = op[q]
      /\ op'[o].pc = "done" /\ op'[o].target = op[o].target /\ op'[o].made = op[o].made
  BY <1>1, OverFacts
<1>3. Reachable'
  BY <1>1, <1>2, ReachableStays DEF Recorded2
<1> QED BY <1>1, <1>2, <1>3, QuietStep DEF Recorded2, Waiting, Probing, Drawing, Undoing

LEMMA ReachableAfter ==
  ASSUME Inv, NEW o \in Ops, \A q \in Ops \ {o} : op'[q] = op[q],
         op[o].pc \in Recorded2 => op'[o].pc \in Recorded2,
         lastTx' \in {0, lastTx} \/ (lastTx' = o /\ op'[o].pc \in Recorded2),
         \A p \in 1..Len(panels') :
           \/ panels'[p].snapshot = 0
           \/ panels'[p].snapshot = o /\ op'[o].pc \in Recorded2
           \/ \E q \in 1..Len(panels) : panels'[p].snapshot = panels[q].snapshot
  PROVE  Reachable'
<1>1. Reachable
  BY DEF Inv, Ledger
<1>2. \A t : Committed(t) => Committed(t)'
  BY DEF Committed
<1>3. Committed(0)' /\ (op'[o].pc \in Recorded2 => Committed(o)')
  BY DEF Committed
<1>4. Committed(lastTx)'
  <2>1. PICK t : t = lastTx'
    OBVIOUS
  <2>2. Committed(t)'
    BY <1>1, <1>2, <1>3, <2>1 DEF Reachable
  <2> QED BY <2>1, <2>2 DEF Committed
<1>5. \A p \in 1..Len(panels') : Committed(panels[p].snapshot)'
  <2> SUFFICES ASSUME NEW p \in 1..Len(panels') PROVE Committed(panels[p].snapshot)'
    OBVIOUS
  <2>1. PICK t : t = panels'[p].snapshot
    OBVIOUS
  <2>2. Committed(t)'
    BY <1>1, <1>2, <1>3, <2>1 DEF Reachable
  <2> QED BY <2>1, <2>2 DEF Committed
<1> QED BY <1>4, <1>5 DEF Reachable

\* A panel of which only the snapshot changes.
LEMMA SnapshotChanges ==
  ASSUME Typed, NEW p \in 1..Len(panels), NEW tx \in 0..MaxOps,
         panels' = [panels EXCEPT ![p].snapshot = tx]
  PROVE  /\ panels' \in Seq(PanelRecords) /\ Len(panels') = Len(panels) /\ panels'[p].snapshot = tx
         /\ \A q \in 1..Len(panels) : q # p => panels'[q] = panels[q]
<1>1. panels \in Seq(PanelRecords) /\ panels[p] \in PanelRecords
  BY DEF Typed
<1> DEFINE r == [panels[p] EXCEPT !.snapshot = tx]
<1>2. r \in PanelRecords /\ r.snapshot = tx
  BY <1>1 DEF PanelRecords
<1>3. panels' = [panels EXCEPT ![p] = r]
  OBVIOUS
<1> HIDE DEF r
<1> QED BY <1>1, <1>2, <1>3, ExceptSeq

\* A step of o that takes things off the pages.
LEMMA DeleteStep ==
  ASSUME Inv, NEW o \in InFlight, PagesOK', Len(pages') = Len(pages), page' = page,
         \A p \in 1..Len(pages) : pages'[p] \subseteq pages[p],
         UNCHANGED <<draftVars, overlapped>>, PanelsOK', lastTx' \in 0..MaxOps, txs' \in SUBSET Ops,
         spoiled' \in SUBSET Ops, 1..Len(panels) \subseteq 1..Len(panels'), Reachable',
         op' \in [Ops -> OpRecords], Moves(o), OpInv(o)',
         op'[o].pc \in Probing \cup {"place", "wire"} => op[o].pc \in Probing \cup {"place", "wire"}
  PROVE  Inv'
<1>1. Typed /\ o \in Ops
  BY Standing
<1>2. DraftsOK' /\ RestOK'
  BY <1>1 DEF DraftsOK, RestOK, Typed, draftVars
<1>3. OwnPageOf(o)'
  <2> SUFFICES ASSUME o \in InFlight \ (overlapped \cup spoiled'), op'[o].pc \in Probing \cup {"place", "wire"},
                      NEW x \in OfKind(pages'[page], {"component"})
               PROVE  x.tx = o
    BY DEF OwnPageOf
  <2>1. page \in 1..Len(pages) /\ x \in OfKind(pages[page], {"component"})
    BY <1>1 DEF Typed, OfKind
  <2>2. o \notin spoiled
    BY DEF Moves
  <2> QED BY <2>1, <2>2 DEF Inv, PageInv, OwnPage
<1>4. \A p \in 1..Len(pages') : \A x \in OfKind(pages'[p], {"component"}) : p \in 1..Len(pages) /\ x \in pages[p]
  BY DEF OfKind
<1> QED BY <1>1, <1>2, <1>3, <1>4, StepGood

LEMMA NewPageGood == ASSUME Inv, NEW o \in InFlight, NewPage(o) PROVE Inv'
<1>1. op[o].pc = "page" /\ pages' = Append(pages, {}) /\ page' = Len(pages) + 1 /\ Goto(o, "check")
      /\ UNCHANGED <<draftVars, lastTx, txs, panels, shown, busy, overlapped, spoiled>>
  BY DEF NewPage, history, panelVars
<1>2. /\ o \in Ops /\ Typed /\ OpInv(o) /\ lastTx \in 0..MaxOps /\ spoiled \in SUBSET Ops /\ PanelsOK
      /\ Committed(op[o].target)
  BY Standing
<1>3. /\ op' \in [Ops -> OpRecords] /\ \A q \in Ops \ {o} : op'[q] = op[q]
      /\ op'[o].pc = "check" /\ op'[o].target = op[o].target /\ op'[o].made = op[o].made
  BY <1>1, <1>2, GotoTyped DEF Steps, ApplySteps
<1>4. /\ pages' \in Seq(SUBSET Objects) /\ Len(pages') = Len(pages) + 1 /\ pages'[Len(pages) + 1] = {}
      /\ \A p \in 1..Len(pages) : pages'[p] = pages[p]
  <2>1. pages \in Seq(SUBSET Objects) /\ {} \in SUBSET Objects
    BY <1>2 DEF Typed
  <2> QED BY <1>1, <2>1, AppendProperties
<1>5. Len(pages) \in Nat /\ \A p \in 1..Len(pages') : p \in 1..Len(pages) \/ p = Len(pages) + 1
  BY <1>2, <1>4 DEF Typed
<1>6. PagesOK'
  BY <1>1, <1>4, <1>5 DEF PagesOK
<1>7. \A q : On(q)' = On(q)
  BY <1>4, <1>5 DEF On
<1>8. Moves(o)
  BY <1>1, <1>3, <1>7 DEF Moves, Recorded2
<1>9. OpInv(o)'
  <2>1. Known(o)' /\ Stage(o)' /\ Clean(o)'
    BY <1>1, <1>2, <1>3, <1>7 DEF OpInv, Known, Stage, Clean, Waiting, Probing, Drawing, Recorded2
  <2>2. PICK d : d = op[o].target
    OBVIOUS
  <2>3. Committed(d)'
    BY <1>2, <1>8, <2>2, CommittedStays
  <2>4. Undo(o)'
    BY <1>3, <2>2, <2>3 DEF Undo, Committed, Undoing
  <2> QED BY <1>1, <1>2, <1>3, <2>1, <2>4 DEF OpInv, Recorded2
<1>10. Reachable'
  BY <1>1, <1>2, <1>3, ReachableStays DEF Recorded2
<1>11. OwnPageOf(o)'
  BY <1>3 DEF OwnPageOf, Probing
<1>12. PanelsOK' /\ DraftsOK' /\ RestOK'
  BY <1>1, <1>2 DEF PanelsOK, DraftsOK, RestOK, Typed, draftVars
<1>13. \A p \in 1..Len(pages') : \A x \in OfKind(pages'[p], {"component"}) : p \in 1..Len(pages) /\ x \in pages[p]
  BY <1>4, <1>5 DEF OfKind
<1> QED BY <1>1, <1>3, <1>6, <1>8, <1>9, <1>10, <1>11, <1>12, <1>13, StepGood

LEMMA UndoWiresGood == ASSUME Inv, NEW o \in InFlight, UndoWires(o) PROVE Inv'
<1>1. PICK ok \in BOOLEAN :
        /\ op[o].pc = "undoWires" /\ op[o].target \in txs
        /\ Deletes(OfKind(Recorded(op[o].target), {"wire"}), op[o].target, ok)
        /\ Turns(o, "undoParts", op[o].target, ok)
        /\ UNCHANGED <<draftVars, lastTx, txs, panels, shown, busy, overlapped>>
  BY DEF UndoWires, panelVars
<1>2. /\ o \in Ops /\ Typed /\ OpInv(o) /\ lastTx \in 0..MaxOps /\ PanelsOK /\ txs \in SUBSET Ops
      /\ Committed(op[o].target) /\ op[o].target \in 0..MaxOps
  BY Standing DEF Typed
<1>3. /\ op' \in [Ops -> OpRecords] /\ \A q \in Ops \ {o} : op'[q] = op[q]
      /\ op'[o].pc = "undoParts" /\ op'[o].target = op[o].target /\ op'[o].made = op[o].made
  BY <1>1, <1>2, TurnsTyped DEF Steps
<1>4. PICK d \in Ops : d = op[o].target
  BY <1>1, <1>2
<1>5. OpInv(d) /\ op[d].pc \in Recorded2 /\ d # 0
  BY <1>1, <1>2, <1>4, Bounds DEF Inv, Ledger, OpInv
<1> DEFINE wires == OfKind(Recorded(d), {"wire"})
<1>6. Deletes(wires, d, ok)
  BY <1>1, <1>4
<1>7. /\ PagesOK' /\ Len(pages') = Len(pages) /\ page' = page
      /\ \A p \in 1..Len(pages) : pages'[p] \subseteq pages[p]
      /\ \A q : On(q)' \subseteq On(q)
      /\ spoiled \subseteq spoiled' /\ spoiled' \in SUBSET Ops
      /\ d \in spoiled' \/ \A q : On(q)' \cap wires = {}
  <2> HIDE DEF wires
  <2> QED BY <1>2, <1>6, Deleted
<1>8. Moves(o)
  BY <1>1, <1>3, <1>7 DEF Moves, Recorded2
<1>9. d \in spoiled' \/ \A x \in On(d)' : x.kind # "wire"
  <2> SUFFICES ASSUME d \notin spoiled', NEW x \in On(d)', x.kind = "wire" PROVE FALSE
    OBVIOUS
  <2>1. x \in op[d].made
    BY <1>5, <1>7 DEF OpInv, Known
  <2> QED BY <1>7, <2>1 DEF Recorded, OfKind
<1>10. OpInv(o)'
  <2>1. Known(o)' /\ Stage(o)' /\ Clean(o)'
    BY <1>1, <1>2, <1>3, <1>7 DEF OpInv, Known, Stage, Clean, Waiting, Probing, Drawing, Recorded2
  <2>2. Committed(d)'
    BY <1>2, <1>4, <1>8, CommittedStays
  <2>3. Undo(o)'
    BY <1>3, <1>4, <1>5, <1>9, <2>2 DEF Undo, Committed, On
  <2> QED BY <1>1, <1>2, <1>3, <2>1, <2>3 DEF OpInv, Recorded2
<1>11. Reachable'
  BY <1>1, <1>2, <1>3, ReachableStays DEF Recorded2
<1>12. PanelsOK'
  BY <1>1, <1>2 DEF PanelsOK
<1> QED BY <1>1, <1>2, <1>3, <1>7, <1>8, <1>10, <1>11, <1>12, DeleteStep DEF Probing

LEMMA UndoPartsGood == ASSUME Inv, NEW o \in InFlight, UndoParts(o) PROVE Inv'
<1>1. PICK ok \in BOOLEAN :
        /\ op[o].pc = "undoParts" /\ txs' = txs \ {op[o].target}
        /\ Deletes(OfKind(Recorded(op[o].target), {"component"}), op[o].target, ok)
        /\ AfterUndo(o, op[o].undone \/ ok)
        /\ UNCHANGED <<draftVars, overlapped>>
  BY DEF UndoParts
<1>2. /\ o \in Ops /\ Typed /\ OpInv(o) /\ lastTx \in 0..MaxOps /\ PanelsOK /\ txs \in SUBSET Ops
      /\ Committed(op[o].target) /\ op[o].target \in 0..MaxOps
  BY Standing DEF Typed
<1>3. /\ op' \in [Ops -> OpRecords] /\ \A q \in Ops \ {o} : op'[q] = op[q]
      /\ op'[o].pc \in {"reread", "page", "done"} /\ op'[o].target = op[o].target /\ op'[o].made = op[o].made
      /\ PanelsOK' /\ lastTx' \in {0, lastTx} /\ Len(panels') = Len(panels)
      /\ \A p \in 1..Len(panels') : panels'[p].snapshot \in {0, panels[p].snapshot}
  <2>1. CASE op[o].kind = "apply"
    <3>1. PICK step \in {"reread", "page"} : Goto(o, step) /\ UNCHANGED <<lastTx, panels, shown, busy>>
      BY <1>1, <2>1 DEF AfterUndo, panelVars
    <3> QED BY <1>2, <3>1, GotoTyped DEF Steps, ApplySteps, PanelsOK
  <2>2. CASE op[o].kind # "apply"
    <3>1. /\ Over(o) /\ lastTx' \in {0, lastTx}
          /\ panels' \in {panels, [panels EXCEPT ![op[o].panel].snapshot = 0]}
      BY <1>1, <2>2 DEF AfterUndo
    <3>2. op[o].panel \in 1..Len(panels)
      BY <1>2, OpFacts
    <3>3. /\ op' \in [Ops -> OpRecords] /\ \A q \in Ops \ {o} : op'[q] = op[q]
          /\ op'[o].pc = "done" /\ op'[o].target = op[o].target /\ op'[o].made = op[o].made
      BY <1>2, <3>1, GotoTyped DEF Over
    <3>4. /\ panels' \in Seq(PanelRecords) /\ Len(panels') = Len(panels)
          /\ \A p \in 1..Len(panels') : panels'[p].snapshot \in {0, panels[p].snapshot}
      <4>1. CASE panels' = panels
        BY <1>2, <4>1 DEF Typed
      <4>2. CASE panels' = [panels EXCEPT ![op[o].panel].snapshot = 0]
        BY <1>2, <3>2, <4>2, SnapshotChanges, Bounds
      <4> QED BY <3>1, <4>1, <4>2
    <3>5. shown' \in 1..Len(panels') /\ busy' = FALSE
      BY <3>1, <3>2, <3>4 DEF Over
    <3> QED BY <3>1, <3>3, <3>4, <3>5 DEF PanelsOK
  <2> QED BY <2>1, <2>2
<1>4. PICK d \in Ops : d = op[o].target
  <2>1. op[o].target # 0 /\ op[o].target \in Ops
    BY <1>1, <1>2 DEF OpInv, Undo, Undoing, Committed
  <2> QED BY <2>1
<1>5. OpInv(d) /\ op[d].pc \in Recorded2 /\ d # o /\ d # 0
  BY <1>1, <1>2, <1>4, Bounds DEF Inv, Ledger, Committed, Recorded2
<1> DEFINE parts == OfKind(Recorded(d), {"component"})
<1>6. Deletes(parts, d, ok)
  BY <1>1, <1>4
<1>7. /\ PagesOK' /\ Len(pages') = Len(pages) /\ page' = page
      /\ \A p \in 1..Len(pages) : pages'[p] \subseteq pages[p]
      /\ \A q : On(q)' \subseteq On(q)
      /\ spoiled \subseteq spoiled' /\ spoiled' \in SUBSET Ops
      /\ d \in spoiled' \/ \A q : On(q)' \cap parts = {}
  <2> HIDE DEF parts
  <2> QED BY <1>2, <1>6, Deleted
<1>8. ASSUME d \in txs, d \notin spoiled' PROVE On(d)' = {}
  <2> SUFFICES ASSUME NEW x \in On(d)' PROVE FALSE
    OBVIOUS
  <2>1. x \in On(d) /\ x \in op[d].made /\ x.kind \in Lasting
    BY <1>5, <1>7, <1>8 DEF OpInv, Known, On
  <2>2. x.kind # "wire"
    BY <1>1, <1>2, <1>4, <1>7, <1>8, <2>1 DEF OpInv, Undo
  <2>3. x.kind # "probe"
    BY <1>5, <1>8, <2>1 DEF OpInv, Stage
  <2>4. x \in parts
    BY <2>1, <2>2, <2>3 DEF Lasting, Recorded, OfKind
  <2> QED BY <1>7, <1>8, <2>4
<1>9. Moves(o)
  BY <1>1, <1>3, <1>4, <1>5, <1>7, <1>8 DEF Moves, Recorded2
<1>10. op[o].made = {} /\ o \notin txs
  BY <1>1, <1>2 DEF OpInv, Stage, Waiting, Recorded2
<1>11. OpInv(o)'
  <2>1. Known(o)'
    BY <1>2, <1>3, <1>7 DEF OpInv, Known
  <2>2. Clean(o)'
    BY <1>3, <1>10, <2>1 DEF Known, Clean
  <2>3. Stage(o)'
    BY <1>3, <1>10 DEF Stage
  <2>4. Committed(d)'
    BY <1>2, <1>4, <1>9, CommittedStays
  <2>5. Undo(o)'
    BY <1>3, <1>4, <1>5, <2>4 DEF Undo, Committed, Undoing
  <2> QED BY <1>1, <1>10, <2>1, <2>2, <2>3, <2>5 DEF OpInv
<1>12. Reachable'
  BY <1>1, <1>2, <1>3, ReachableAfter DEF Recorded2
<1>13. lastTx' \in 0..MaxOps /\ txs' \in SUBSET Ops
  BY <1>1, <1>2, <1>3, Bounds
<1> QED BY <1>1, <1>3, <1>7, <1>9, <1>11, <1>12, <1>13, DeleteStep DEF Probing

LEMMA NothingToUndoGood == ASSUME Inv, NEW o \in InFlight, NothingToUndo(o) PROVE Inv'
<1>1. /\ op[o].pc = "undoWires" /\ AfterUndo(o, FALSE)
      /\ UNCHANGED <<schematic, draftVars, txs, overlapped, spoiled>>
  BY DEF NothingToUndo, history
<1>2. /\ o \in Ops /\ Typed /\ lastTx \in 0..MaxOps /\ spoiled \in SUBSET Ops /\ PanelsOK /\ Committed(op[o].target)
  BY Standing
<1>3. CASE op[o].kind = "apply"
  <2>1. Goto(o, "page") /\ UNCHANGED <<lastTx, panels, shown, busy>>
    BY <1>1, <1>3 DEF AfterUndo, panelVars
  <2>2. /\ op' \in [Ops -> OpRecords] /\ \A q \in Ops \ {o} : op'[q] = op[q]
        /\ op'[o].pc = "page" /\ op'[o].target = op[o].target /\ op'[o].made = op[o].made
    BY <1>2, <2>1, GotoTyped DEF Steps, ApplySteps
  <2>3. Reachable'
    BY <1>1, <1>2, <2>1, <2>2, ReachableStays DEF Recorded2
  <2>4. PanelsOK'
    BY <1>2, <2>1 DEF PanelsOK
  <2> QED BY <1>1, <1>2, <2>1, <2>2, <2>3, <2>4, QuietStep DEF Recorded2, Waiting, Probing, Drawing, Undoing
<1>4. CASE op[o].kind # "apply"
  <2>1. Over(o) /\ lastTx' = lastTx /\ panels' = panels
    BY <1>1, <1>4 DEF AfterUndo
  <2> QED BY <1>1, <1>2, <2>1, FailsGood DEF Waiting
<1> QED BY <1>3, <1>4

LEMMA UndoThrowsGood == ASSUME Inv, NEW o \in InFlight, UndoThrows(o) PROVE Inv'
<1>1. /\ op[o].pc \in Undoing /\ op[o].target \in txs /\ Over(o)
      /\ spoiled' \in {spoiled, spoiled \cup {op[o].target}}
      /\ UNCHANGED <<schematic, draftVars, txs, overlapped, lastTx, panels>>
  BY DEF UndoThrows, Undoing
<1>2. Typed
  BY Standing
<1>3. spoiled \subseteq spoiled' /\ spoiled' \in SUBSET Ops
  BY <1>1, <1>2 DEF Typed
<1> QED BY <1>1, <1>3, FailsGood DEF Waiting, Undoing

\* The next step of a drawing, with nothing drawn.
LEMMA NextStage ==
  ASSUME Inv, NEW o \in InFlight, NEW step \in {"unprobe", "unprobeAll", "place", "wire", "cleanup"},
         op[o].pc \in IF step \in {"unprobe", "unprobeAll"} THEN {"probe"} ELSE {"place", "wire"},
         \/ Goto(o, step)
         \/ \E todo \in SUBSET (Parts \cup Nets) : Draws(o, step, todo, op[o].made),
         UNCHANGED <<schematic, draftVars, lastTx, txs, panelVars, history>>
  PROVE  Inv'
<1>1. /\ o \in Ops /\ Typed /\ lastTx \in 0..MaxOps /\ spoiled \in SUBSET Ops /\ PanelsOK /\ Committed(op[o].target)
  BY Standing
<1>2. step \in Steps \cup {"done"} /\ op[o].made \in SUBSET Objects
  BY <1>1, OpFacts DEF Steps, ApplySteps
<1>3. /\ op' \in [Ops -> OpRecords] /\ \A q \in Ops \ {o} : op'[q] = op[q]
      /\ op'[o].pc = step /\ op'[o].target = op[o].target /\ op'[o].made = op[o].made
  <2>1. CASE Goto(o, step)
    BY <1>1, <1>2, <2>1, GotoTyped
  <2>2. CASE \E todo \in SUBSET (Parts \cup Nets) : Draws(o, step, todo, op[o].made)
    <3>1. PICK todo \in SUBSET (Parts \cup Nets) : Draws(o, step, todo, op[o].made)
      BY <2>2
    <3> QED BY <1>1, <1>2, <3>1, DrawsTyped
  <2> QED BY <2>1, <2>2
<1>4. PanelsOK'
  BY <1>1 DEF PanelsOK, panelVars
<1>5. op[o].pc \in {"probe", "place", "wire"}
  OBVIOUS
<1>6. UNCHANGED <<lastTx, txs, panels, overlapped, spoiled>>
  BY DEF panelVars, history
<1>7. Reachable'
  BY <1>1, <1>3, <1>5, <1>6, ReachableStays DEF Recorded2
<1> QED BY <1>1, <1>3, <1>4, <1>5, <1>6, <1>7, QuietStep DEF Recorded2, Waiting, Probing, Drawing, Undoing

LEMMA StagesGood == ASSUME Inv, NEW o \in InFlight, ProbesEnd(o) \/ PlacesEnd(o) PROVE Inv'
<1>1. CASE ProbesEnd(o)
  <2>1. PICK step \in {"unprobe", "unprobeAll"} :
          op[o].pc = "probe" /\ Goto(o, step) /\ UNCHANGED <<schematic, draftVars, lastTx, txs, panelVars, history>>
    BY <1>1 DEF ProbesEnd
  <2> QED BY <2>1, NextStage
<1>2. CASE PlacesEnd(o)
  <2>1. /\ op[o].pc = "place" /\ UNCHANGED <<schematic, draftVars, lastTx, txs, panelVars, history>>
        /\ \E todo \in SUBSET (Parts \cup Nets) : Draws(o, "wire", todo, op[o].made)
    <3> DEFINE todo == {n \in Nets : NetParts[n] \subseteq {x.part : x \in OfKind(op[o].made, {"component"})}}
    <3>1. todo \in SUBSET (Parts \cup Nets) /\ Draws(o, "wire", todo, op[o].made)
      BY <1>2 DEF PlacesEnd
    <3> QED BY <1>2, <3>1 DEF PlacesEnd
  <2> QED BY <2>1, NextStage
<1> QED BY <1>1, <1>2

\* Something is drawn.
LEMMA AddStep ==
  ASSUME Inv, NEW o \in InFlight, NEW new \in SUBSET Objects, Add(new),
         op' \in [Ops -> OpRecords], \A q \in Ops \ {o} : op'[q] = op[q],
         op'[o].target = op[o].target, op[o].pc \in {"probe", "place", "wire"},
         op'[o].pc = op[o].pc \/ (op[o].pc # "probe" /\ op'[o].pc = "cleanup"),
         op[o].made \subseteq op'[o].made, op'[o].made \subseteq op[o].made \cup new,
         \A x \in new : x.tx = o /\ (x.kind = "probe" <=> op[o].pc = "probe")
                        /\ (x.kind = "component" => op[o].pc = "place") /\ (x.kind \in Lasting => x \in op'[o].made),
         UNCHANGED <<draftVars, lastTx, txs, panelVars, history>>
  PROVE  Inv'
<1>1. /\ o \in Ops /\ Typed /\ OpInv(o) /\ PanelsOK /\ Committed(op[o].target)
  BY Standing
<1>2. /\ PagesOK' /\ Len(pages') = Len(pages) /\ page' = page
      /\ \A p \in 1..Len(pages) : pages'[p] = IF p = page THEN pages[p] \cup new ELSE pages[p]
      /\ \A q : On(q)' \subseteq On(q) \cup {x \in new : x.tx = q /\ x.kind \in Lasting}
  BY <1>1, Added
<1>3. UNCHANGED <<lastTx, txs, panels, shown, busy, overlapped, spoiled>>
  BY DEF panelVars, history
<1>4. op[o].pc \notin Recorded2 /\ op'[o].pc \notin Recorded2 \cup Waiting
  BY DEF Recorded2, Waiting
<1>5. \A q \in Ops \ {o} : On(q)' \subseteq On(q)
  BY <1>2
<1>6. Moves(o)
  BY <1>3, <1>4, <1>5 DEF Moves
<1>7. OpInv(o)'
  <2>1. Known(o)'
    BY <1>1, <1>2, <1>3 DEF OpInv, Known
  <2>2. \A x \in op'[o].made : x.tx = o
    BY <1>1 DEF OpInv, Stage
  <2>3. o \notin txs
    BY <1>1, <1>4 DEF OpInv
  <2>4. op'[o].pc \in Probing => op[o].pc = "probe" /\ \A x \in op'[o].made : x.kind = "probe"
    BY <1>1 DEF OpInv, Stage, Probing
  <2>5. op'[o].pc \in Drawing => op[o].pc # "probe" /\ \A x \in op'[o].made : x.kind # "probe"
    BY <1>1 DEF OpInv, Stage, Drawing
  <2>6. Stage(o)'
    BY <1>3, <1>4, <2>2, <2>3, <2>4, <2>5 DEF Stage
  <2>7. Clean(o)'
    BY <1>4 DEF Clean
  <2>8. PICK d : d = op[o].target
    OBVIOUS
  <2>9. Committed(d)'
    BY <1>1, <1>6, <2>8, CommittedStays
  <2>10. Undo(o)'
    BY <1>4, <2>8, <2>9 DEF Undo, Committed, Undoing, Waiting
  <2> QED BY <1>3, <2>1, <2>3, <2>6, <2>7, <2>10 DEF OpInv
<1>8. Reachable'
  BY <1>1, <1>3, <1>4, ReachableStays
<1>9. PanelsOK' /\ DraftsOK' /\ RestOK'
  BY <1>1, <1>3 DEF PanelsOK, DraftsOK, RestOK, Typed, draftVars
<1>10. page \in 1..Len(pages) /\ pages'[page] = pages[page] \cup new
  BY <1>1, <1>2 DEF Typed
<1>11. OwnPageOf(o)'
  <2> SUFFICES ASSUME o \in InFlight \ (overlapped \cup spoiled),
                      NEW x \in OfKind(pages[page] \cup new, {"component"})
               PROVE  x.tx = o
    BY <1>2, <1>3, <1>10 DEF OwnPageOf
  <2>1. op[o].pc \in Probing \cup {"place", "wire"}
    BY DEF Probing
  <2>2. CASE x \in pages[page]
    BY <2>1, <2>2 DEF Inv, PageInv, OwnPage, OfKind
  <2>3. CASE x \in new
    BY <2>3
  <2> QED BY <2>2, <2>3 DEF OfKind
<1>12. \A p \in 1..Len(pages') : \A x \in OfKind(pages'[p], {"component"}) :
         \/ p \in 1..Len(pages) /\ x \in pages[p]
         \/ x.tx = o /\ p = page /\ p \in 1..Len(pages) /\ op[o].pc = "place"
                     /\ \A y \in pages'[p] : y \in pages[p] \/ y.tx = o
  BY <1>2, <1>10 DEF OfKind
<1> QED BY <1>2, <1>3, <1>6, <1>7, <1>8, <1>9, <1>11, <1>12, StepGood

LEMMA ObjectTyped ==
  ASSUME NEW k \in Kinds \ {"user"}, NEW o \in Ops, NEW part \in Parts \cup Nets
  PROVE  Object(k, o, part) \in Objects /\ Object(k, o, part).tx = o /\ Object(k, o, part).kind = k
BY DEF Object, Objects

\* One more part is drawn.
LEMMA DrawsOn ==
  ASSUME Typed, NEW o \in Ops, NEW step \in {"probe", "place", "wire"}, NEW c, NEW new \in SUBSET Objects,
         Draws(o, step, op[o].todo \ {c}, op[o].made \cup new)
  PROVE  /\ op' \in [Ops -> OpRecords] /\ \A q \in Ops \ {o} : op'[q] = op[q]
         /\ op'[o].pc = step /\ op'[o].target = op[o].target /\ op'[o].made = op[o].made \cup new
<1>1. PICK rest \in SUBSET (Parts \cup Nets) : rest = op[o].todo \ {c}
  BY OpFacts
<1>2. PICK made \in SUBSET Objects : made = op[o].made \cup new
  BY OpFacts
<1>3. Draws(o, step, rest, made)
  BY <1>1, <1>2
<1>4. step \in Steps \cup {"done"}
  BY DEF Steps, ApplySteps
<1> QED BY <1>2, <1>3, <1>4, DrawsTyped

LEMMA ProbeGood == ASSUME Inv, NEW o \in InFlight, Probe(o) PROVE Inv'
<1>1. o \in Ops /\ Typed /\ op[o].todo \in SUBSET (Parts \cup Nets) /\ op[o].made \in SUBSET Objects
  BY Standing, OpFacts
<1>2. PICK c \in op[o].todo :
        /\ op[o].pc = "probe" /\ Add({Object("probe", o, c)})
        /\ Draws(o, "probe", op[o].todo \ {c}, op[o].made \cup {Object("probe", o, c)})
        /\ UNCHANGED <<draftVars, lastTx, txs, panelVars, history>>
  BY DEF Probe
<1> DEFINE x == Object("probe", o, c)
<1>3. x \in Objects /\ x.tx = o /\ x.kind = "probe"
  BY <1>1, ObjectTyped DEF Kinds
<1> HIDE DEF x
<1>4. Draws(o, "probe", op[o].todo \ {c}, op[o].made \cup {x}) /\ Add({x})
  BY <1>2 DEF x
<1>5. op[o].made \cup {x} \in SUBSET Objects /\ {x} \in SUBSET Objects /\ op[o].todo \ {c} \in SUBSET (Parts \cup Nets)
  BY <1>1, <1>3
<1>6. /\ op' \in [Ops -> OpRecords] /\ \A q \in Ops \ {o} : op'[q] = op[q]
      /\ op'[o].pc = "probe" /\ op'[o].target = op[o].target /\ op'[o].made = op[o].made \cup {x}
  BY <1>1, <1>4, <1>5, DrawsOn
<1> QED BY <1>2, <1>3, <1>4, <1>5, <1>6, AddStep

LEMMA PlaceGood == ASSUME Inv, NEW o \in InFlight, Place(o) PROVE Inv'
<1>1. o \in Ops /\ Typed /\ op[o].todo \in SUBSET (Parts \cup Nets) /\ op[o].made \in SUBSET Objects
  BY Standing, OpFacts
<1>2. PICK c \in op[o].todo :
        /\ op[o].pc = "place" /\ UNCHANGED <<draftVars, lastTx, txs, panelVars, history>>
        /\ \/ /\ Add({Object("component", o, c)})
              /\ Draws(o, "place", op[o].todo \ {c}, op[o].made \cup {Object("component", o, c)})
           \/ UNCHANGED schematic /\ Draws(o, "place", op[o].todo \ {c}, op[o].made)
  BY DEF Place
<1> DEFINE x == Object("component", o, c)
<1>3. x \in Objects /\ x.tx = o /\ x.kind = "component"
  BY <1>1, ObjectTyped DEF Kinds
<1> HIDE DEF x
<1>4. op[o].made \cup {x} \in SUBSET Objects /\ {x} \in SUBSET Objects /\ op[o].todo \ {c} \in SUBSET (Parts \cup Nets)
  BY <1>1, <1>3
<1>5. CASE Add({x}) /\ Draws(o, "place", op[o].todo \ {c}, op[o].made \cup {x})
  <2>1. /\ op' \in [Ops -> OpRecords] /\ \A q \in Ops \ {o} : op'[q] = op[q]
        /\ op'[o].pc = "place" /\ op'[o].target = op[o].target /\ op'[o].made = op[o].made \cup {x}
    BY <1>1, <1>4, <1>5, DrawsOn
  <2> QED BY <1>2, <1>3, <1>4, <1>5, <2>1, AddStep
<1>6. CASE UNCHANGED schematic /\ Draws(o, "place", op[o].todo \ {c}, op[o].made)
  BY <1>2, <1>4, <1>6, NextStage
<1> QED BY <1>2, <1>5, <1>6 DEF x

LEMMA WireGood == ASSUME Inv, NEW o \in InFlight, Wire(o) PROVE Inv'
<1>1. o \in Ops /\ Typed /\ op[o].todo \in SUBSET (Parts \cup Nets) /\ op[o].made \in SUBSET Objects
  BY Standing, OpFacts
<1>2. PICK n \in op[o].todo, drawn \in {{}, {"wire"}, {"wire", "label"}} :
        /\ op[o].pc = "wire" /\ UNCHANGED <<draftVars, lastTx, txs, panelVars, history>>
        /\ Add({Object(k, o, n) : k \in drawn})
        /\ Draws(o, "wire", op[o].todo \ {n}, op[o].made \cup {Object(k, o, n) : k \in drawn})
  BY DEF Wire
<1> DEFINE drew == {Object(k, o, n) : k \in drawn}
<1>3. drawn \subseteq {"wire", "label"} /\ n \in Parts \cup Nets
  BY <1>1
<1>4. \A k \in drawn : Object(k, o, n) \in Objects /\ Object(k, o, n).tx = o /\ Object(k, o, n).kind = k
  <2> SUFFICES ASSUME NEW k \in drawn
               PROVE  Object(k, o, n) \in Objects /\ Object(k, o, n).tx = o /\ Object(k, o, n).kind = k
    OBVIOUS
  <2>1. k \in Kinds \ {"user"}
    BY <1>3 DEF Kinds
  <2> QED BY <1>1, <1>3, <2>1, ObjectTyped
<1>5. drew \in SUBSET Objects /\ \A x \in drew : x.tx = o /\ x.kind \in {"wire", "label"}
  BY <1>3, <1>4
<1>6. Add(drew) /\ Draws(o, "wire", op[o].todo \ {n}, op[o].made \cup drew)
  BY <1>2
<1> HIDE DEF drew
<1>7. PICK made \in SUBSET Objects, rest \in SUBSET (Parts \cup Nets) :
        made = op[o].made \cup drew /\ rest = op[o].todo \ {n}
  BY <1>1, <1>5
<1>8. Draws(o, "wire", rest, made) /\ "wire" \in Steps \cup {"done"}
  BY <1>6, <1>7 DEF Steps, ApplySteps
<1>9. /\ op' \in [Ops -> OpRecords] /\ \A q \in Ops \ {o} : op'[q] = op[q]
      /\ op'[o].pc = "wire" /\ op'[o].target = op[o].target /\ op'[o].made = made
  BY <1>1, <1>8, DrawsTyped
<1> QED BY <1>2, <1>5, <1>6, <1>7, <1>9, AddStep DEF Lasting

LEMMA PlacementThrowsGood == ASSUME Inv, NEW o \in InFlight, PlacementThrows(o) PROVE Inv'
<1>1. o \in Ops /\ Typed /\ op[o].todo \in SUBSET (Parts \cup Nets)
  BY Standing, OpFacts
<1>2. PICK n \in op[o].todo :
        /\ op[o].pc \in {"place", "wire"} /\ Goto(o, "cleanup") /\ UNCHANGED <<draftVars, lastTx, txs, panelVars, history>>
        /\ UNCHANGED schematic \/ (op[o].pc = "wire" /\ Add({Object("stub", o, n)}))
  BY DEF PlacementThrows
<1>3. CASE UNCHANGED schematic
  BY <1>2, <1>3, NextStage
<1>4. CASE op[o].pc = "wire" /\ Add({Object("stub", o, n)})
  <2> DEFINE x == Object("stub", o, n)
  <2>1. x \in Objects /\ x.tx = o /\ x.kind = "stub"
    BY <1>1, ObjectTyped DEF Kinds
  <2> HIDE DEF x
  <2>2. /\ op' \in [Ops -> OpRecords] /\ \A q \in Ops \ {o} : op'[q] = op[q]
        /\ op'[o].pc = "cleanup" /\ op'[o].target = op[o].target /\ op'[o].made = op[o].made
    BY <1>1, <1>2, GotoTyped DEF Steps, ApplySteps
  <2>3. Add({x}) /\ {x} \in SUBSET Objects
    BY <1>4, <2>1 DEF x
  <2>4. \A y \in {x} : y.tx = o /\ (y.kind = "probe" <=> op[o].pc = "probe")
                       /\ (y.kind = "component" => op[o].pc = "place") /\ (y.kind \in Lasting => y \in op'[o].made)
    BY <1>4, <2>1 DEF Lasting
  <2> QED BY <1>2, <1>4, <2>2, <2>3, <2>4, AddStep
<1> QED BY <1>2, <1>3, <1>4

LEMMA UnprobeGood == ASSUME Inv, NEW o \in InFlight, Unprobe(o) PROVE Inv'
<1>1. PICK ok \in BOOLEAN :
        /\ op[o].pc \in {"unprobe", "unprobeAll"} /\ Deletes(op[o].made, o, ok)
        /\ \/ Over(o) /\ panels' = panels
           \/ Draws(o, "place", Parts, {}) /\ UNCHANGED <<panels, shown, busy>>
        /\ UNCHANGED <<draftVars, lastTx, txs, overlapped>>
  BY DEF Unprobe, panelVars
<1>2. /\ o \in Ops /\ Typed /\ OpInv(o) /\ lastTx \in 0..MaxOps /\ PanelsOK /\ txs \in SUBSET Ops
      /\ Committed(op[o].target)
  BY Standing DEF Typed
<1>3. PICK made \in SUBSET Objects : made = op[o].made
  BY <1>2, OpFacts
<1>4. /\ PagesOK' /\ Len(pages') = Len(pages) /\ page' = page
      /\ \A p \in 1..Len(pages) : pages'[p] \subseteq pages[p]
      /\ \A q : On(q)' \subseteq On(q)
      /\ spoiled \subseteq spoiled' /\ spoiled' \in SUBSET Ops
      /\ o \in spoiled' \/ \A q : On(q)' \cap made = {}
  <2>1. Deletes(made, o, ok)
    BY <1>1, <1>3
  <2> QED BY <1>2, <2>1, Deleted
<1>5. /\ op' \in [Ops -> OpRecords] /\ \A q \in Ops \ {o} : op'[q] = op[q]
      /\ op'[o].target = op[o].target /\ PanelsOK' /\ panels' = panels
      /\ \/ op'[o].pc = "done" /\ op'[o].made = made
         \/ op'[o].pc = "place" /\ op'[o].made = {}
  <2>1. CASE Over(o) /\ panels' = panels
    BY <1>2, <1>3, <2>1, OverFacts
  <2>2. CASE Draws(o, "place", Parts, {}) /\ UNCHANGED <<panels, shown, busy>>
    <3>1. "place" \in Steps \cup {"done"} /\ {} \in SUBSET Objects /\ Parts \in SUBSET (Parts \cup Nets)
      BY DEF Steps, ApplySteps
    <3> QED BY <1>2, <2>2, <3>1, DrawsTyped DEF PanelsOK
  <2> QED BY <1>1, <2>1, <2>2
<1>6. op[o].pc \in Probing /\ op[o].pc \notin Recorded2 /\ o \notin txs
  BY <1>1, <1>2 DEF OpInv, Probing, Recorded2
<1>7. Moves(o)
  BY <1>1, <1>4, <1>5, <1>6 DEF Moves
<1>8. o \notin spoiled' => On(o)' = {}
  <2> SUFFICES ASSUME o \notin spoiled', NEW x \in On(o)' PROVE FALSE
    OBVIOUS
  <2>1. x \in made
    BY <1>2, <1>3, <1>4 DEF OpInv, Known
  <2> QED BY <1>4, <2>1
<1>9. OpInv(o)'
  <2>1. Known(o)' /\ Clean(o)'
    BY <1>8 DEF Known, Clean
  <2>2. Stage(o)'
    BY <1>1, <1>2, <1>3, <1>5, <1>6 DEF OpInv, Stage, Waiting, Probing, Drawing
  <2>3. PICK d : d = op[o].target
    OBVIOUS
  <2>4. Committed(d)'
    BY <1>2, <1>7, <2>3, CommittedStays
  <2>5. Undo(o)'
    BY <1>5, <2>3, <2>4 DEF Undo, Committed, Undoing
  <2> QED BY <1>1, <1>6, <2>1, <2>2, <2>5 DEF OpInv
<1>10. Reachable'
  BY <1>1, <1>2, <1>5, <1>6, ReachableStays
<1> QED BY <1>1, <1>2, <1>4, <1>5, <1>6, <1>7, <1>9, <1>10, DeleteStep

LEMMA CleanupGood == ASSUME Inv, NEW o \in InFlight, Cleanup(o) PROVE Inv'
<1>1. PICK kept \in SUBSET {"label", "wire", "component"} :
        /\ op[o].pc = "cleanup" /\ Remove(OfKind(op[o].made, Kinds \ kept))
        /\ spoiled' = IF OfKind(op[o].made, kept) = {} THEN spoiled ELSE spoiled \cup {o}
        /\ Over(o) /\ UNCHANGED <<draftVars, lastTx, txs, panels, overlapped>>
  BY DEF Cleanup
<1>2. /\ o \in Ops /\ Typed /\ OpInv(o) /\ lastTx \in 0..MaxOps /\ spoiled \in SUBSET Ops /\ PanelsOK
      /\ txs \in SUBSET Ops /\ Committed(op[o].target)
  BY Standing DEF Typed
<1>3. /\ PanelsOK' /\ op' \in [Ops -> OpRecords] /\ \A q \in Ops \ {o} : op'[q] = op[q]
      /\ op'[o].pc = "done" /\ op'[o].target = op[o].target /\ op'[o].made = op[o].made
  BY <1>1, <1>2, OverFacts
<1>4. PICK gone : gone = OfKind(op[o].made, Kinds \ kept)
  OBVIOUS
<1>5. /\ PagesOK' /\ Len(pages') = Len(pages) /\ page' = page
      /\ \A p \in 1..Len(pages) : pages'[p] = pages[p] \ gone
      /\ \A q : On(q)' = On(q) \ gone
  BY <1>1, <1>2, <1>4, Gone
<1>6. spoiled \subseteq spoiled' /\ spoiled' \in SUBSET Ops
  BY <1>1, <1>2
<1>7. o \notin txs /\ op[o].pc \notin Recorded2 \cup Probing
  BY <1>1, <1>2 DEF OpInv, Recorded2, Probing
<1>8. Moves(o)
  BY <1>1, <1>3, <1>5, <1>6, <1>7 DEF Moves
<1>9. o \notin spoiled' => On(o)' = {}
  <2> SUFFICES ASSUME o \notin spoiled', NEW x \in On(o)' PROVE FALSE
    OBVIOUS
  <2>1. x \in On(o) \ gone /\ OfKind(op[o].made, kept) = {}
    BY <1>1, <1>5
  <2>2. x \in op[o].made
    BY <1>2, <1>6, <2>1 DEF OpInv, Known
  <2>3. x.kind \in Kinds \ kept
    BY <2>1, <2>2 DEF OfKind, On, Lasting, Kinds
  <2> QED BY <1>4, <2>1, <2>2, <2>3 DEF OfKind
<1>10. OpInv(o)'
  <2>1. Known(o)' /\ Clean(o)'
    BY <1>9 DEF Known, Clean
  <2>2. Stage(o)'
    BY <1>1, <1>2, <1>3, <1>7 DEF OpInv, Stage, Waiting, Probing, Drawing
  <2>3. PICK d : d = op[o].target
    OBVIOUS
  <2>4. Committed(d)'
    BY <1>2, <1>8, <2>3, CommittedStays
  <2>5. Undo(o)'
    BY <1>3, <2>3, <2>4 DEF Undo, Committed, Undoing
  <2> QED BY <1>1, <1>7, <2>1, <2>2, <2>5 DEF OpInv
<1>11. Reachable'
  BY <1>1, <1>2, <1>3, <1>7, ReachableStays
<1>12. \A p \in 1..Len(pages) : pages'[p] \subseteq pages[p]
  BY <1>5
<1> QED BY <1>1, <1>2, <1>3, <1>5, <1>6, <1>8, <1>10, <1>11, <1>12, DeleteStep DEF Probing

LEMMA FinishGood == ASSUME Inv, NEW o \in InFlight, Finish(o) PROVE Inv'
<1>1. /\ op[o].pc = "wire" /\ txs' = txs \cup {o} /\ panels' = panels
      /\ \/ Over(o) /\ blocked' = blocked /\ lastTx' = lastTx
         \/ Goto(o, "record") /\ lastTx' = o /\ blocked' = FALSE /\ UNCHANGED <<shown, busy>>
      /\ UNCHANGED <<schematic, plan, open, overlapped, spoiled>>
  BY DEF Finish, panelVars, history
<1>2. /\ o \in Ops /\ Typed /\ OpInv(o) /\ lastTx \in 0..MaxOps /\ spoiled \in SUBSET Ops /\ PanelsOK
      /\ txs \in SUBSET Ops /\ Committed(op[o].target)
  BY Standing DEF Typed
<1>3. /\ PanelsOK' /\ op' \in [Ops -> OpRecords] /\ \A q \in Ops \ {o} : op'[q] = op[q]
      /\ op'[o].pc \in Recorded2 /\ op'[o].target = op[o].target /\ op'[o].made = op[o].made
  <2>1. CASE Over(o)
    BY <1>1, <1>2, <2>1, OverFacts DEF Recorded2
  <2>2. CASE Goto(o, "record") /\ UNCHANGED <<shown, busy>>
    <3>1. "record" \in Steps \cup {"done"}
      BY DEF Steps, ApplySteps
    <3> QED BY <1>1, <1>2, <2>2, <3>1, GotoTyped DEF Recorded2, PanelsOK
  <2> QED BY <1>1, <2>1, <2>2
<1>4. PagesOK' /\ Len(pages') = Len(pages) /\ \A q : On(q)' = On(q)
  BY <1>1, <1>2, SamePages
<1>5. Moves(o)
  BY <1>1, <1>3, <1>4 DEF Moves
<1>6. OpInv(o)'
  <2>1. Known(o)' /\ Clean(o)'
    BY <1>1, <1>2, <1>3, <1>4 DEF OpInv, Known, Clean
  <2>2. Stage(o)'
    BY <1>1, <1>2, <1>3 DEF OpInv, Stage, Waiting, Probing, Drawing, Recorded2
  <2>3. PICK d : d = op[o].target
    OBVIOUS
  <2>4. Committed(d)'
    BY <1>2, <1>5, <2>3, CommittedStays
  <2>5. Undo(o)'
    BY <1>3, <2>3, <2>4 DEF Undo, Committed, Undoing, Recorded2
  <2> QED BY <1>3, <2>1, <2>2, <2>5 DEF OpInv
<1>7. Reachable'
  BY <1>1, <1>2, <1>3, ReachableAfter DEF Recorded2
<1>8. DraftsOK' /\ RestOK'
  BY <1>1, <1>2, Bounds DEF DraftsOK, RestOK, Typed
<1>9. OwnPageOf(o)'
  BY <1>3 DEF OwnPageOf, Probing, Recorded2
<1>10. pages' = pages
  BY <1>1 DEF schematic
<1> QED BY <1>1, <1>3, <1>4, <1>5, <1>6, <1>7, <1>8, <1>9, <1>10, StepGood DEF OfKind

LEMMA RecordGood == ASSUME Inv, NEW o \in InFlight, Record(o) PROVE Inv'
<1>1. /\ op[o].pc = "record" /\ Goto(o, "done") /\ busy' = FALSE /\ shown' = op[o].panel
      /\ panels' = [panels EXCEPT ![op[o].panel].snapshot = o]
      /\ UNCHANGED <<schematic, draftVars, lastTx, txs, overlapped, spoiled>>
  BY DEF Record, Over, history
<1>2. /\ o \in Ops /\ Typed /\ OpInv(o) /\ lastTx \in 0..MaxOps /\ spoiled \in SUBSET Ops
      /\ Committed(op[o].target)
  BY Standing
<1>3. PICK p \in 1..Len(panels) : p = op[o].panel
  BY <1>2, OpFacts
<1>4. /\ panels' \in Seq(PanelRecords) /\ Len(panels') = Len(panels) /\ panels'[p].snapshot = o
      /\ \A q \in 1..Len(panels) : q # p => panels'[q] = panels[q]
  BY <1>1, <1>2, <1>3, SnapshotChanges, Bounds
<1>5. /\ op' \in [Ops -> OpRecords] /\ \A q \in Ops \ {o} : op'[q] = op[q]
      /\ op'[o].pc = "done" /\ op'[o].target = op[o].target /\ op'[o].made = op[o].made
  BY <1>1, <1>2, GotoTyped
<1>6. PanelsOK'
  BY <1>1, <1>3, <1>4 DEF PanelsOK
<1>7. \A q \in 1..Len(panels') :
        \/ panels'[q].snapshot = o
        \/ \E r \in 1..Len(panels) : panels'[q].snapshot = panels[r].snapshot
  BY <1>4
<1>8. op[o].pc \in Recorded2 /\ op'[o].pc \in Recorded2
  BY <1>1, <1>5 DEF Recorded2
<1>9. Reachable'
  BY <1>1, <1>2, <1>5, <1>7, <1>8, ReachableAfter
<1> QED BY <1>1, <1>2, <1>4, <1>5, <1>6, <1>8, <1>9, QuietStep DEF Recorded2, Waiting, Probing, Drawing, Undoing

----------------------------------------------------------------------------
\* An operation begins.
LEMMA StartGood ==
  ASSUME Inv, NEW o \in Ops, NEW kind \in {"apply", "rollback"}, NEW pc \in {"begin", "undoWires"},
         NEW target \in 0..MaxOps, Committed(target), pc = "undoWires" => target # 0, Start(o, kind, pc, target)
  PROVE  Inv'
<1> DEFINE r == [kind |-> kind, pc |-> pc, draft |-> plan, target |-> target, panel |-> shown,
                 todo |-> {}, made |-> {}, undone |-> FALSE]
<1>1. /\ op[o] = Idle /\ op' = [op EXCEPT ![o] = r]
      /\ overlapped' = IF InFlight = {} THEN overlapped ELSE overlapped \cup InFlight \cup {o}
      /\ UNCHANGED <<schematic, draftVars, lastTx, txs, panels, shown, busy, spoiled>>
  BY DEF Start, panelVars
<1>2. Typed /\ OpInv(o) /\ Reachable /\ InFlight \subseteq Ops
  BY DEF Inv, Ledger, InFlight
<1>3. r \in OpRecords
  <2>1. plan \in 0..MaxDrafts /\ shown \in 1..Len(panels) /\ pc \in Steps \cup {"idle", "done"}
    BY <1>2 DEF Typed, Steps, ApplySteps
  <2> QED BY <2>1 DEF OpRecords
<1>4. r.pc = pc /\ r.target = target /\ r.made = {}
  OBVIOUS
<1> HIDE DEF r
<1>5. /\ op' \in [Ops -> OpRecords] /\ \A q \in Ops \ {o} : op'[q] = op[q]
      /\ op'[o].pc = pc /\ op'[o].target = target /\ op'[o].made = {}
  BY <1>1, <1>2, <1>3, <1>4, OpChanges
<1>6. op[o].pc = "idle" /\ op[o].made = {} /\ o \notin InFlight /\ o \notin txs
  BY <1>1, <1>2 DEF Idle, InFlight, Steps, ApplySteps, OpInv, Recorded2
<1>7. PagesOK' /\ Len(pages') = Len(pages) /\ (\A q : On(q)' = On(q)) /\ pages' = pages /\ page' = page
  BY <1>1, <1>2, SamePages DEF schematic
<1>8. Moves(o)
  BY <1>1, <1>5, <1>6, <1>7 DEF Moves, Recorded2
<1>9. DraftsOK' /\ RestOK' /\ PanelsOK'
  BY <1>1, <1>2 DEF DraftsOK, RestOK, PanelsOK, Typed, draftVars
<1>10. Typed'
  BY <1>1, <1>2, <1>5, <1>7, <1>9, TypedAfter
<1>11. OpInv(o)'
  <2>1. o \notin spoiled => On(o) = {}
    BY <1>2, <1>6 DEF OpInv, Known
  <2>2. Known(o)' /\ Clean(o)'
    BY <1>1, <1>7, <2>1 DEF Known, Clean
  <2>3. Stage(o)'
    BY <1>5 DEF Stage
  <2>4. Committed(target)'
    BY <1>8, CommittedStays
  <2>5. Undo(o)'
    BY <1>5, <2>4 DEF Undo, Committed, Undoing
  <2> QED BY <1>1, <1>6, <2>2, <2>3, <2>5 DEF OpInv
<1>12. Reachable'
  BY <1>1, <1>5, <1>6, ReachableStays DEF Inv, Recorded2
<1>13. Ledger'
  BY <1>8, <1>10, <1>11, <1>12, LedgerStep DEF Inv
<1>14. InFlight' = InFlight \cup {o}
  BY <1>5 DEF InFlight, Steps, ApplySteps
<1>15. overlapped \subseteq overlapped' /\ (InFlight # {} => InFlight \cup {o} \subseteq overlapped')
  BY <1>1
<1>16. Alone'
  BY <1>14, <1>15 DEF Alone
<1>17. OwnPage'
  <2> SUFFICES ASSUME NEW q \in InFlight' \ (overlapped' \cup spoiled'), op'[q].pc \in Probing \cup {"place", "wire"}
               PROVE  FALSE
    BY DEF OwnPage
  <2>1. q # o
    BY <1>5 DEF Probing
  <2> QED BY <1>14, <1>15, <2>1
<1>18. OneDraftPerPage'
  BY <1>1, <1>7, <1>15 DEF Inv, PageInv, OneDraftPerPage, OfKind
<1> QED BY <1>13, <1>16, <1>17, <1>18 DEF Inv, PageInv

LEMMA StartsGood == ASSUME Inv, NEW o \in Ops, StartApply(o) \/ StartRollback(o) PROVE Inv'
<1>1. Reachable /\ lastTx \in 0..MaxOps /\ 0 \in 0..MaxOps
  BY Bounds DEF Inv, Ledger, Typed
<1>2. CASE StartApply(o)
  <2>1. Start(o, "apply", "begin", 0) /\ Committed(0)
    BY <1>2 DEF StartApply, Committed
  <2> QED BY <1>1, <2>1, StartGood
<1>3. CASE StartRollback(o)
  <2>1. PICK d \in 0..MaxOps : d = lastTx
    BY <1>1
  <2>2. d # 0 /\ Start(o, "rollback", "undoWires", d) /\ Committed(d)
    BY <1>1, <1>3, <2>1 DEF StartRollback, Reachable, Committed
  <2> QED BY <2>2, StartGood
<1> QED BY <1>2, <1>3

\* Nothing is done to the operations, and nothing lasting to the pages.
LEMMA AsideStep ==
  ASSUME Inv, UNCHANGED <<op, txs, spoiled, overlapped>>, PagesOK', Len(pages') = Len(pages),
         \A p \in 1..Len(pages) : \A x \in OfKind(pages'[p], Lasting) : x \in pages[p],
         page' = page \/ InFlight = {},
         DraftsOK', PanelsOK', lastTx' \in 0..MaxOps, 1..Len(panels) \subseteq 1..Len(panels'),
         lastTx' \in {0, lastTx},
         \A p \in 1..Len(panels') :
           panels'[p].snapshot = 0 \/ \E q \in 1..Len(panels) : panels'[p].snapshot = panels[q].snapshot
  PROVE  Inv'
<1>1. Typed /\ txs' = txs /\ spoiled' = spoiled /\ overlapped' = overlapped /\ op' = op /\ page \in 1..Len(pages)
  BY DEF Inv, Ledger, Typed
<1>2. Typed'
  BY <1>1, TypedAfter DEF RestOK, Typed
<1>3. \A q : On(q)' \subseteq On(q)
  BY <1>1 DEF On, OfKind
<1>4. \A t : Committed(t)' <=> Committed(t)
  BY <1>1 DEF Committed
<1>5. Reachable'
  <2>1. PICK t : t = lastTx'
    OBVIOUS
  <2>2. Committed(t)
    BY <2>1 DEF Inv, Ledger, Reachable, Committed
  <2>3. ASSUME NEW p \in 1..Len(panels') PROVE Committed(panels[p].snapshot)'
    <3>1. PICK s : s = panels'[p].snapshot
      OBVIOUS
    <3>2. Committed(s)
      BY <3>1 DEF Inv, Ledger, Reachable, Committed
    <3> QED BY <1>4, <3>1, <3>2 DEF Committed
  <2> QED BY <1>4, <2>1, <2>2, <2>3 DEF Reachable, Committed
<1>6. ASSUME NEW q \in Ops PROVE OpInv(q)'
  <2>1. OpInv(q)
    BY DEF Inv, Ledger
  <2>2. Known(q)' /\ Stage(q)'
    BY <1>1, <1>3, <2>1 DEF OpInv, Known, Stage
  <2>3. Clean(q)'
    BY <1>1, <1>3, <2>1 DEF OpInv, Clean
  <2>4. PICK d : d = op[q].target
    OBVIOUS
  <2>5. Committed(d)' /\ On(d)' \subseteq On(d)
    BY <1>3, <1>4, <2>1, <2>4 DEF OpInv, Undo
  <2>6. Undo(q)'
    BY <1>1, <2>1, <2>4, <2>5 DEF OpInv, Undo, Committed, On
  <2> QED BY <1>1, <2>1, <2>2, <2>3, <2>6 DEF OpInv
<1>7. InFlight' = InFlight
  BY <1>1 DEF InFlight
<1>8. \A p \in 1..Len(pages') : \A x \in OfKind(pages'[p], {"component"}) : x \in OfKind(pages[p], {"component"})
  BY DEF OfKind, Lasting
<1>9. Alone'
  BY <1>1, <1>7 DEF Inv, PageInv, Alone
<1>10. OwnPage'
  <2>1. CASE InFlight = {}
    BY <1>7, <2>1 DEF OwnPage
  <2>2. CASE page' = page
    BY <1>1, <1>7, <1>8, <2>2 DEF Inv, PageInv, OwnPage
  <2> QED BY <2>1, <2>2
<1>11. OneDraftPerPage'
  BY <1>1, <1>8 DEF Inv, PageInv, OneDraftPerPage
<1> QED BY <1>2, <1>5, <1>6, <1>9, <1>10, <1>11 DEF Inv, Ledger, PageInv

\* Nothing of the schematic.
LEMMA PanelStep ==
  ASSUME Inv, UNCHANGED <<schematic, op, txs, spoiled, overlapped>>, DraftsOK', PanelsOK',
         1..Len(panels) \subseteq 1..Len(panels'), lastTx' \in {0, lastTx},
         \A p \in 1..Len(panels') :
           panels'[p].snapshot = 0 \/ \E q \in 1..Len(panels) : panels'[p].snapshot = panels[q].snapshot
  PROVE  Inv'
<1>1. Typed
  BY DEF Inv, Ledger
<1>2. PagesOK' /\ pages' = pages /\ page' = page /\ lastTx' \in 0..MaxOps
  BY <1>1, Bounds DEF schematic, PagesOK, Typed
<1> QED BY <1>2, AsideStep DEF OfKind

LEMMA DraftsGood ==
  ASSUME Inv, (\E d \in DraftIds : GenerateDraft(d) \/ TurnDrafts(d)) \/ ChooseDevices
  PROVE  Inv'
<1>1. Typed
  BY DEF Inv, Ledger
<1>2. CASE \E d \in DraftIds : GenerateDraft(d) \/ TurnDrafts(d)
  <2>1. PICK d \in DraftIds : Drafted(d) /\ blocked' \in BOOLEAN
    BY <1>1, <1>2 DEF GenerateDraft, TurnDrafts, Typed
  <2>2. /\ plan' = d /\ open' \in {open, open \cup {d}} /\ panels' = [panels EXCEPT ![shown].draft = d] /\ busy' = FALSE
        /\ UNCHANGED <<schematic, lastTx, txs, op, shown, history>>
    BY <2>1 DEF Drafted
  <2>3. d \in 0..MaxDrafts /\ panels \in Seq(PanelRecords) /\ shown \in 1..Len(panels) /\ panels[shown] \in PanelRecords
    BY <1>1 DEF Typed, DraftIds
  <2> DEFINE r == [panels[shown] EXCEPT !.draft = d]
  <2>4. r \in PanelRecords /\ r.snapshot = panels[shown].snapshot
    BY <2>3 DEF PanelRecords
  <2>5. panels' = [panels EXCEPT ![shown] = r]
    BY <2>2
  <2> HIDE DEF r
  <2>6. /\ panels' \in Seq(PanelRecords) /\ Len(panels') = Len(panels)
        /\ \A p \in 1..Len(panels) : panels'[p].snapshot = panels[p].snapshot
    BY <2>3, <2>4, <2>5, ExceptSeq
  <2>7. PanelsOK' /\ DraftsOK'
    BY <1>1, <2>1, <2>2, <2>3, <2>6 DEF PanelsOK, DraftsOK, Typed
  <2> QED BY <2>2, <2>6, <2>7, PanelStep DEF history
<1>3. CASE ChooseDevices
  <2>1. open' = open \ {plan} /\ busy' = FALSE /\ UNCHANGED <<schematic, plan, blocked, lastTx, txs, op, panels, shown, history>>
    BY <1>3 DEF ChooseDevices
  <2>2. PanelsOK' /\ DraftsOK'
    BY <1>1, <2>1 DEF PanelsOK, DraftsOK, Typed
  <2> QED BY <2>1, <2>2, PanelStep DEF history
<1> QED BY <1>2, <1>3

\* Another panel object.
LEMMA PanelAppended ==
  ASSUME Typed, NEW r \in PanelRecords, panels' = Append(panels, r), shown' = Len(panels) + 1, busy' = FALSE
  PROVE  /\ PanelsOK' /\ 1..Len(panels) \subseteq 1..Len(panels')
         /\ \A p \in 1..Len(panels') : panels'[p] = r \/ \E q \in 1..Len(panels) : panels'[p] = panels[q]
<1>1. panels \in Seq(PanelRecords) /\ Len(panels) \in Nat
  BY DEF Typed
<1>2. /\ panels' \in Seq(PanelRecords) /\ Len(panels') = Len(panels) + 1 /\ panels'[Len(panels) + 1] = r
      /\ \A p \in 1..Len(panels) : panels'[p] = panels[p]
  BY <1>1, AppendProperties
<1>3. \A p \in 1..Len(panels') : p \in 1..Len(panels) \/ p = Len(panels) + 1
  BY <1>1, <1>2
<1>4. \A p \in 1..Len(panels') : panels'[p] = r \/ \E q \in 1..Len(panels) : panels'[p] = panels[q]
  <2> SUFFICES ASSUME NEW p \in 1..Len(panels'), panels'[p] # r PROVE \E q \in 1..Len(panels) : panels'[p] = panels[q]
    OBVIOUS
  <2>1. p \in 1..Len(panels) /\ panels'[p] = panels[p]
    BY <1>2, <1>3
  <2> QED BY <2>1
<1>5. PICK n \in Nat : n = Len(panels)
  BY <1>1
<1>6. n + 1 \in 1..(n + 1) /\ 1..n \subseteq 1..(n + 1)
  OBVIOUS
<1>7. shown' \in 1..Len(panels') /\ 1..Len(panels) \subseteq 1..Len(panels') /\ busy' \in BOOLEAN
  BY <1>2, <1>5, <1>6
<1> QED BY <1>2, <1>4, <1>7 DEF PanelsOK

LEMMA SessionsGood == ASSUME Inv, Reset \/ \E p \in 1..Len(panels) : Restore(p) PROVE Inv'
<1>1. Typed
  BY DEF Inv, Ledger
<1>2. CASE Reset
  <2> DEFINE r == [draft |-> 0, snapshot |-> 0]
  <2>1. /\ panels' = Append(panels, r) /\ shown' = Len(panels) + 1
        /\ plan' = 0 /\ blocked' = FALSE /\ lastTx' = 0 /\ busy' = FALSE
        /\ UNCHANGED <<schematic, open, txs, op, spoiled, overlapped>>
    BY <1>2 DEF Reset
  <2>2. r \in PanelRecords /\ r.snapshot = 0
    BY DraftAssumption DEF PanelRecords
  <2> HIDE DEF r
  <2>3. /\ PanelsOK' /\ 1..Len(panels) \subseteq 1..Len(panels')
        /\ \A p \in 1..Len(panels') : panels'[p] = r \/ \E q \in 1..Len(panels) : panels'[p] = panels[q]
    BY <1>1, <2>1, <2>2, PanelAppended
  <2>4. DraftsOK'
    BY <1>1, <2>1, Bounds DEF DraftsOK, Typed
  <2> QED BY <2>1, <2>2, <2>3, <2>4, PanelStep
<1>3. ASSUME NEW p \in 1..Len(panels), Restore(p) PROVE Inv'
  <2>1. /\ panels' = Append(panels, panels[p]) /\ shown' = Len(panels) + 1
        /\ plan' = panels[p].draft /\ busy' = FALSE
        /\ UNCHANGED <<schematic, open, blocked, lastTx, txs, op, history>>
    BY <1>3 DEF Restore
  <2>2. PICK r \in PanelRecords : r = panels[p]
    BY <1>1 DEF Typed
  <2>3. /\ PanelsOK' /\ 1..Len(panels) \subseteq 1..Len(panels')
        /\ \A i \in 1..Len(panels') : panels'[i] = r \/ \E q \in 1..Len(panels) : panels'[i] = panels[q]
    BY <1>1, <2>1, <2>2, PanelAppended
  <2>4. DraftsOK'
    BY <1>1, <2>1, <2>2 DEF DraftsOK, Typed, PanelRecords
  <2>5. \A i \in 1..Len(panels') : \E q \in 1..Len(panels) : panels'[i].snapshot = panels[q].snapshot
    BY <2>2, <2>3
  <2> QED BY <2>1, <2>3, <2>4, <2>5, PanelStep DEF history
<1> QED BY <1>2, <1>3

LEMMA UserGood == ASSUME Inv, UserDraws \/ \E p \in 1..Len(pages) : UserOpensPage(p) PROVE Inv'
<1>1. Typed
  BY DEF Inv, Ledger
<1>2. InFlight = {} /\ UNCHANGED <<draftVars, lastTx, txs, op, panels, shown, busy, spoiled, overlapped>>
  BY DEF UserDraws, UserOpensPage, panelVars, history
<1>3. DraftsOK' /\ PanelsOK' /\ lastTx' \in 0..MaxOps
  BY <1>1, <1>2 DEF DraftsOK, PanelsOK, Typed, draftVars
<1>4. CASE UserDraws
  <2>1. Add({UserObject}) /\ {UserObject} \in SUBSET Objects /\ UserObject.kind = "user"
    BY <1>4 DEF UserDraws, Objects, UserObject, Object
  <2>2. /\ PagesOK' /\ Len(pages') = Len(pages)
        /\ \A p \in 1..Len(pages) : pages'[p] = IF p = page THEN pages[p] \cup {UserObject} ELSE pages[p]
    BY <1>1, <2>1, Added
  <2>3. \A p \in 1..Len(pages) : \A x \in OfKind(pages'[p], Lasting) : x \in pages[p]
    BY <2>1, <2>2 DEF OfKind, Lasting
  <2> QED BY <1>2, <1>3, <2>2, <2>3, AsideStep
<1>5. CASE \E p \in 1..Len(pages) : UserOpensPage(p)
  <2>1. page' \in 1..Len(pages) /\ pages' = pages
    BY <1>5 DEF UserOpensPage
  <2>2. PagesOK'
    BY <1>1, <2>1 DEF PagesOK, Typed
  <2> QED BY <1>2, <1>3, <2>1, <2>2, AsideStep DEF OfKind
<1> QED BY <1>4, <1>5

\* A restart: all that ran is over, and what it drew is given up.
LEMMA RestartGood == ASSUME Inv, Restart PROVE Inv'
<1>1. Typed /\ Reachable /\ \A q \in Ops : OpInv(q)
  BY DEF Inv, Ledger
<1>2. /\ panels' = Append(panels, panels[shown]) /\ shown' = Len(panels) + 1
      /\ plan' = panels[shown].draft /\ blocked' = FALSE
      /\ lastTx' = panels[shown].snapshot /\ txs' = {} /\ busy' = FALSE
      /\ op' = [o \in Ops |-> IF o \in InFlight THEN [op[o] EXCEPT !.pc = "done"] ELSE op[o]]
      /\ spoiled' = spoiled \cup txs \cup InFlight
      /\ UNCHANGED <<schematic, open, overlapped>>
  BY DEF Restart
<1>3. PICK r \in PanelRecords : r = panels[shown]
  BY <1>1 DEF Typed
<1>4. /\ PanelsOK' /\ 1..Len(panels) \subseteq 1..Len(panels')
      /\ \A i \in 1..Len(panels') : panels'[i] = r \/ \E q \in 1..Len(panels) : panels'[i] = panels[q]
  BY <1>1, <1>2, <1>3, PanelAppended
<1>5. PagesOK' /\ (\A q : On(q)' = On(q)) /\ pages' = pages /\ Len(pages') = Len(pages)
  BY <1>1, <1>2, SamePages DEF schematic
<1>6. \A q \in Ops :
        /\ op'[q] \in OpRecords /\ op'[q].made = op[q].made /\ op'[q].target = op[q].target
        /\ op'[q].pc = IF q \in InFlight THEN "done" ELSE op[q].pc
  <2> SUFFICES ASSUME NEW q \in Ops
               PROVE  /\ op'[q] \in OpRecords /\ op'[q].made = op[q].made /\ op'[q].target = op[q].target
                      /\ op'[q].pc = IF q \in InFlight THEN "done" ELSE op[q].pc
    OBVIOUS
  <2>1. op[q] \in OpRecords
    BY <1>1, OpFacts
  <2>2. [op[q] EXCEPT !.pc = "done"] \in OpRecords
    BY <2>1 DEF OpRecords
  <2> QED BY <1>2, <2>1, <2>2 DEF OpRecords
<1>7. op' \in [Ops -> OpRecords]
  BY <1>2, <1>6
<1>8. \A q \in Ops : op'[q].pc \in {"idle", "done"} /\ (op[q].pc \in Recorded2 => op'[q].pc \in Recorded2)
  <2> SUFFICES ASSUME NEW q \in Ops
               PROVE  op'[q].pc \in {"idle", "done"} /\ (op[q].pc \in Recorded2 => op'[q].pc \in Recorded2)
    OBVIOUS
  <2>1. op[q].pc \in Steps \cup {"idle", "done"}
    BY <1>1, OpFacts
  <2> QED BY <1>6, <2>1 DEF InFlight, Recorded2
<1>9. InFlight \in SUBSET Ops /\ InFlight' = {}
  BY <1>8 DEF InFlight, Steps, ApplySteps
<1>10. DraftsOK' /\ RestOK'
  <2>1. r.draft \in 0..MaxDrafts /\ r.snapshot \in 0..MaxOps
    BY DEF PanelRecords
  <2> QED BY <1>1, <1>2, <1>3, <1>9, <2>1 DEF DraftsOK, RestOK, Typed
<1>11. Typed'
  BY <1>4, <1>5, <1>7, <1>10, TypedAfter
<1>12. \A t : Committed(t) => Committed(t)'
  BY <1>8 DEF Committed
<1>13. Reachable'
  <2>1. ASSUME NEW p \in 1..Len(panels') PROVE Committed(panels[p].snapshot)'
    <3>1. PICK s : s = panels'[p].snapshot
      OBVIOUS
    <3>2. Committed(s)
      BY <1>1, <1>3, <1>4, <3>1 DEF Reachable, Typed
    <3> QED BY <1>12, <3>1, <3>2 DEF Committed
  <2>2. Committed(r.snapshot)'
    <3>1. PICK s : s = r.snapshot
      OBVIOUS
    <3>2. Committed(s)
      BY <1>1, <1>3, <3>1 DEF Reachable, Typed
    <3> QED BY <1>12, <3>1, <3>2
  <2> QED BY <1>2, <1>3, <2>1, <2>2 DEF Reachable, Committed
<1>14. ASSUME NEW q \in Ops PROVE OpInv(q)'
  <2>1. OpInv(q) /\ spoiled \subseteq spoiled'
    BY <1>1, <1>2
  <2>2. Known(q)'
    BY <1>5, <1>6, <2>1 DEF OpInv, Known
  <2>3. Stage(q)'
    <3>1. op'[q].pc = "idle" => op[q].pc = "idle"
      BY <1>6
    <3>2. op'[q].pc \in Waiting => op'[q].made = {}
      BY <1>6, <1>8, <2>1, <3>1 DEF OpInv, Stage, Waiting
    <3>3. op'[q].pc \notin Probing \cup Drawing
      BY <1>8 DEF Probing, Drawing
    <3>4. \A x \in op'[q].made : x.tx = q
      BY <1>6, <2>1 DEF OpInv, Stage
    <3> QED BY <1>2, <3>2, <3>3, <3>4 DEF Stage
  <2>4. Clean(q)'
    <3> SUFFICES ASSUME q \notin spoiled', op'[q].pc \in Recorded2 PROVE On(q) = {}
      BY <1>5 DEF Clean
    <3>1. q \notin InFlight /\ q \notin txs \cup spoiled
      BY <1>2
    <3> QED BY <1>6, <2>1, <3>1 DEF OpInv, Clean
  <2>5. PICK d : d = op[q].target
    OBVIOUS
  <2>6. Committed(d)'
    BY <1>12, <2>1, <2>5 DEF OpInv, Undo
  <2>7. Undo(q)'
    BY <1>6, <1>8, <2>5, <2>6 DEF Undo, Committed, Undoing
  <2> QED BY <1>2, <2>2, <2>3, <2>4, <2>7 DEF OpInv
<1>15. OneDraftPerPage'
  BY <1>2, <1>5 DEF Inv, PageInv, OneDraftPerPage, OfKind
<1> QED BY <1>9, <1>11, <1>13, <1>14, <1>15 DEF Inv, Ledger, PageInv, Alone, OwnPage

----------------------------------------------------------------------------
LEMMA ProceedGood == ASSUME Inv, NEW o \in Ops, Proceed(o) PROVE Inv'
<1>1. o \in InFlight
  BY DEF Proceed, Begin, Read, PageOccupied, NewPage, NewPageFails, UndoWires, UndoParts, NothingToUndo,
         UndoThrows, Probe, ProbesEnd, Unprobe, Place, PlacesEnd, Wire, PlacementThrows, Cleanup, Finish,
         Record, InFlight, Steps, ApplySteps
<1>2. ASSUME PageOccupied(o) \/ NewPageFails(o) PROVE Inv'
  <2>1. op[o].pc \in Waiting /\ Over(o) /\ UNCHANGED <<schematic, draftVars, txs, overlapped, spoiled, lastTx, panels>>
    BY <1>2 DEF PageOccupied, NewPageFails, Fails, Waiting, history
  <2>2. spoiled \in SUBSET Ops
    BY DEF Inv, Ledger, Typed
  <2> QED BY <1>1, <2>1, <2>2, FailsGood
<1> QED BY <1>1, <1>2, BeginGood, ReadGood, NewPageGood, UndoWiresGood, UndoPartsGood, NothingToUndoGood,
           UndoThrowsGood, ProbeGood, StagesGood, UnprobeGood, PlaceGood, WireGood, PlacementThrowsGood,
           CleanupGood, FinishGood, RecordGood DEF Proceed

LEMMA InitGood == Init => Inv
<1> SUFFICES ASSUME Init PROVE Inv
  OBVIOUS
<1>1. /\ pages \in {<<{}>>, <<{UserObject}>>} /\ page = 1 /\ plan = 0 /\ open = {} /\ blocked = FALSE
      /\ lastTx = 0 /\ txs = {} /\ op = [o \in Ops |-> Idle]
      /\ panels = <<[draft |-> 0, snapshot |-> 0]>> /\ shown = 1 /\ busy = FALSE
      /\ spoiled = {} /\ overlapped = {}
  BY DEF Init
<1>2. PagesOK
  <2>1. PICK objects \in SUBSET Objects : pages = <<objects>>
    <3>1. {} \in SUBSET Objects /\ {UserObject} \in SUBSET Objects
      BY DEF Objects
    <3> QED BY <1>1, <3>1
  <2>2. pages \in Seq(SUBSET Objects) /\ Len(pages) = 1
    BY <2>1
  <2> QED BY <1>1, <2>2 DEF PagesOK
<1>3. PanelsOK /\ Len(panels) = 1 /\ panels[1].snapshot = 0
  <2> DEFINE r == [draft |-> 0, snapshot |-> 0]
  <2>1. r \in PanelRecords /\ r.snapshot = 0
    BY DraftAssumption DEF PanelRecords
  <2> HIDE DEF r
  <2>2. panels = <<r>>
    BY <1>1 DEF r
  <2>3. panels \in Seq(PanelRecords) /\ Len(panels) = 1 /\ panels[1] = r
    BY <2>1, <2>2
  <2>4. shown = 1 /\ busy = FALSE
    BY <1>1
  <2>5. shown \in 1..Len(panels)
    BY <2>3, <2>4
  <2> QED BY <2>1, <2>3, <2>4, <2>5 DEF PanelsOK
<1>4. DraftsOK /\ RestOK
  <2>1. {} \in SUBSET DraftIds /\ {} \in SUBSET Ops /\ FALSE \in BOOLEAN
    OBVIOUS
  <2> QED BY <1>1, <2>1, Bounds DEF DraftsOK, RestOK
<1>5. Idle \in OpRecords /\ Idle.pc = "idle" /\ Idle.made = {} /\ Idle.target = 0
  BY <1>3, DraftAssumption DEF Idle, OpRecords
<1>6. op \in [Ops -> OpRecords] /\ \A o \in Ops : op[o].pc = "idle" /\ op[o].made = {} /\ op[o].target = 0
  BY <1>1, <1>5
<1>7. Typed
  BY <1>2, <1>3, <1>4, <1>6, TypeParts
<1>8. Len(pages) = 1 /\ \A x \in pages[1] : x.kind = "user"
  BY <1>1 DEF UserObject, Object
<1>9. \A q : On(q) = {}
  BY <1>8 DEF On, Lasting
<1>10. ASSUME NEW o \in Ops PROVE OpInv(o)
  BY <1>1, <1>6, <1>9 DEF OpInv, Known, Stage, Clean, Undo, Committed, Probing, Drawing, Recorded2, Undoing
<1>11. InFlight = {}
  BY <1>6 DEF InFlight, Steps, ApplySteps
<1>12. OneDraftPerPage
  BY <1>8 DEF OneDraftPerPage, OfKind
<1> QED BY <1>1, <1>3, <1>7, <1>10, <1>11, <1>12 DEF Inv, Ledger, PageInv, Alone, OwnPage, Reachable, Committed

LEMMA StutterGood == ASSUME Inv, UNCHANGED vars PROVE Inv'
<1>1. Typed /\ UNCHANGED <<schematic, draftVars, lastTx, txs, op, panels, shown, busy, history>>
  BY DEF vars, panelVars, Inv, Ledger
<1>2. DraftsOK' /\ PanelsOK'
  BY <1>1 DEF DraftsOK, PanelsOK, Typed, draftVars
<1> QED BY <1>1, <1>2, PanelStep DEF history

LEMMA InvHolds == Spec => []Inv
<1>1. Inv /\ [Next]_vars => Inv'
  <2> SUFFICES ASSUME Inv, [Next]_vars PROVE Inv'
    OBVIOUS
  <2>1. CASE UNCHANGED vars
    BY <2>1, StutterGood
  <2>2. CASE Next
    BY <2>2, StartsGood, ProceedGood, DraftsGood, SessionsGood, UserGood, RestartGood DEF Next
  <2> QED BY <2>1, <2>2
<1> QED BY <1>1, InitGood, PTL DEF Spec

----------------------------------------------------------------------------
\* Which transaction is the last one.  A page that an operation draws on has
\* only what is its own, or of one that overlapped another; a rollback that
\* runs forgets no other transaction than its own; and what is recorded and
\* left on the pages can be rolled back, or was left to the user.
Lasts(objects) == OfKind(objects, Lasting)
OnSheet == Probing \cup {"place", "wire"}
KindOf(o) == op[o].pc \in ApplySteps => op[o].kind = "apply"
SheetOf(o) == op[o].pc \in OnSheet => \A x \in Lasts(pages[page]) : x.tx = o \/ x.tx \in overlapped
RollsLast(o) ==
  op[o].pc \in Undoing /\ op[o].kind # "apply" => lastTx = 0 \/ lastTx = op[o].target \/ lastTx \in overlapped
InReach(t) == t \in txs => On(t) = {} \/ t = lastTx \/ t \in overlapped \cup left \cup spoiled
LastInv ==
  /\ left \subseteq Ops
  /\ \A o \in Ops : KindOf(o) /\ SheetOf(o) /\ RollsLast(o) /\ InReach(o)

\* Another operation that runs overlaps this one.
LEMMA Others ==
  ASSUME Inv, NEW o \in InFlight, NEW q \in Ops, q # o, op[q].pc \in Steps
  PROVE  o \in overlapped
BY DEF Inv, PageInv, Alone, InFlight

\* What o does to itself,
OwnStep(o) ==
  /\ \A q \in Ops \ {o} : op'[q] = op[q]
  /\ op'[o].kind = op[o].kind
  /\ op'[o].pc \in OnSheet => op[o].pc \in OnSheet \/ Empty(pages[page])
  /\ op'[o].pc \in Undoing => op[o].kind = "apply" \/ (op[o].pc \in Undoing /\ op'[o].target = op[o].target)
  /\ op'[o].pc \in ApplySteps => op[o].kind = "apply" \/ op[o].pc \in ApplySteps
\* to the pages,
PagesStep(o) ==
  /\ \A x \in Lasts(pages'[page']) : x \in pages[page] \/ x.tx = o
  /\ \A t \in Ops \ {o} : On(t)' \subseteq On(t)
\* and to the transactions.
TxStep(o) ==
  /\ overlapped' = overlapped /\ spoiled \subseteq spoiled' /\ left \subseteq left' /\ left' \subseteq Ops
  /\ \A t \in Ops \ {o} : t \in txs' => t \in txs
  /\ lastTx' \in {0, lastTx} \/ (lastTx' = o /\ op'[o].pc \notin Undoing)
  /\ \A t \in Ops \ {o} : t \in txs' /\ t = lastTx => t = lastTx' \/ t \in overlapped \cup left' \cup spoiled

LEMMA LastStep ==
  ASSUME Inv, LastInv, NEW o \in InFlight, OwnStep(o), PagesStep(o), TxStep(o), InReach(o)'
  PROVE  LastInv'
<1>1. o \in Ops /\ page \in 1..Len(pages) /\ left' \subseteq Ops
  BY DEF InFlight, Inv, Ledger, Typed, TxStep
<1>2. ASSUME NEW q \in Ops PROVE KindOf(q)'
  <2>1. KindOf(q)
    BY DEF LastInv
  <2>2. CASE q = o
    BY <2>1, <2>2 DEF OwnStep, KindOf
  <2>3. CASE q # o
    BY <2>1, <2>3 DEF OwnStep, KindOf
  <2> QED BY <2>2, <2>3
<1>3. ASSUME NEW q \in Ops PROVE SheetOf(q)'
  <2> SUFFICES ASSUME op'[q].pc \in OnSheet, NEW x \in Lasts(pages'[page']) PROVE x.tx = q \/ x.tx \in overlapped
    BY DEF SheetOf, TxStep
  <2>1. x \in pages[page] \/ x.tx = o
    BY DEF PagesStep
  <2>2. CASE q = o
    <3>1. CASE Empty(pages[page])
      BY <2>1, <2>2, <3>1 DEF Empty, Lasts, OfKind, Lasting
    <3>2. CASE op[o].pc \in OnSheet
      BY <1>1, <2>1, <2>2, <3>2 DEF LastInv, SheetOf, Lasts, OfKind
    <3> QED BY <2>2, <3>1, <3>2 DEF OwnStep
  <2>3. CASE q # o
    <3>1. op[q].pc \in OnSheet /\ op[q].pc \in Steps
      BY <2>3 DEF OwnStep, OnSheet, Probing, Steps, ApplySteps
    <3>2. o \in overlapped
      BY <2>3, <3>1, Others
    <3> QED BY <2>1, <3>1, <3>2 DEF LastInv, SheetOf, Lasts, OfKind
  <2> QED BY <2>2, <2>3
<1>4. ASSUME NEW q \in Ops PROVE RollsLast(q)'
  <2> SUFFICES ASSUME op'[q].pc \in Undoing, op'[q].kind # "apply"
               PROVE  lastTx' = 0 \/ lastTx' = op'[q].target \/ lastTx' \in overlapped
    BY DEF RollsLast, TxStep
  <2>1. op[q].pc \in Undoing /\ op[q].kind # "apply" /\ op'[q].target = op[q].target
    BY DEF OwnStep
  <2>2. lastTx = 0 \/ lastTx = op[q].target \/ lastTx \in overlapped
    BY <2>1 DEF LastInv, RollsLast
  <2>3. CASE lastTx' \in {0, lastTx}
    BY <2>1, <2>2, <2>3
  <2>4. CASE lastTx' = o /\ q # o
    <3>1. op[q].pc \in Steps
      BY <2>1 DEF Undoing, Steps
    <3> QED BY <2>4, <3>1, Others
  <2> QED BY <2>3, <2>4 DEF TxStep
<1>5. ASSUME NEW t \in Ops, t # o PROVE InReach(t)'
  BY <1>5 DEF LastInv, InReach, PagesStep, TxStep
<1> QED BY <1>1, <1>2, <1>3, <1>4, <1>5 DEF LastInv

\* The parts of it that most steps share.
LEMMA OwnStepIs ==
  ASSUME Typed, NEW o \in Ops, NEW step \in Steps \cup {"done"},
         \/ Goto(o, step)
         \/ \E target, undone : Turns(o, step, target, undone) /\ (step \in Undoing => target = op[o].target)
         \/ \E todo, made : Draws(o, step, todo, made),
         step \in OnSheet => op[o].pc \in OnSheet \/ Empty(pages[page]),
         step \in Undoing => op[o].kind = "apply" \/ op[o].pc \in Undoing,
         step \in ApplySteps => op[o].kind = "apply" \/ op[o].pc \in ApplySteps
  PROVE  OwnStep(o) /\ op'[o].pc = step
<1>1. op \in [Ops -> OpRecords] /\ op[o] \in OpRecords
  BY OpFacts DEF Typed
<1>2. op[o] \in [kind : {"none", "apply", "rollback"}, pc : Steps \cup {"idle", "done"}, draft : 0..MaxDrafts,
                 target : 0..MaxOps, panel : 1..Len(panels), todo : SUBSET (Parts \cup Nets),
                 made : SUBSET Objects, undone : BOOLEAN]
  BY <1>1 DEF OpRecords
<1>3. /\ \A q \in Ops \ {o} : op'[q] = op[q]
      /\ op'[o].kind = op[o].kind /\ op'[o].pc = step /\ (step \in Undoing => op'[o].target = op[o].target)
  <2>1. CASE Goto(o, step)
    BY <1>1, <1>2, <2>1 DEF Goto
  <2>2. CASE \E target, undone : Turns(o, step, target, undone) /\ (step \in Undoing => target = op[o].target)
    BY <1>1, <2>2 DEF Turns
  <2>3. CASE \E todo, made : Draws(o, step, todo, made)
    BY <1>1, <2>3 DEF Draws
  <2> QED BY <2>1, <2>2, <2>3
<1> QED BY <1>3 DEF OwnStep

LEMMA TxStepIs ==
  ASSUME Typed, LastInv, NEW o \in Ops, spoiled \subseteq spoiled', UNCHANGED <<lastTx, txs, overlapped, left>>
  PROVE  TxStep(o)
BY DEF TxStep, LastInv

LEMMA PagesStepIs ==
  ASSUME Typed, NEW o \in Ops,
         \/ UNCHANGED schematic
         \/ \E objects : Remove(objects)
         \/ \E new \in SUBSET Objects : Add(new) /\ \A x \in new : x.tx = o
  PROVE  PagesStep(o)
<1>0. page \in 1..Len(pages)
  BY DEF Typed
<1>1. CASE UNCHANGED schematic
  BY <1>0, <1>1, SamePages DEF PagesStep, schematic, Lasts, OfKind
<1>2. CASE \E objects : Remove(objects)
  <2>1. PICK objects : Remove(objects)
    BY <1>2
  <2>2. page' = page /\ pages'[page] = pages[page] \ objects /\ \A t : On(t)' = On(t) \ objects
    BY <1>0, <2>1, Gone
  <2>3. \A t \in Ops \ {o} : On(t)' \subseteq On(t)
    BY <2>2
  <2>4. \A x \in Lasts(pages'[page']) : x \in pages[page] \/ x.tx = o
    BY <2>2 DEF Lasts, OfKind
  <2> QED BY <2>3, <2>4 DEF PagesStep
<1>3. CASE \E new \in SUBSET Objects : Add(new) /\ \A x \in new : x.tx = o
  <2>1. PICK new \in SUBSET Objects : Add(new) /\ \A x \in new : x.tx = o
    BY <1>3
  <2>2. /\ page' = page /\ pages'[page] = pages[page] \cup new
        /\ \A t : On(t)' \subseteq On(t) \cup {x \in new : x.tx = t /\ x.kind \in Lasting}
    BY <1>0, <2>1, Added
  <2>3. \A t \in Ops \ {o} : On(t)' \subseteq On(t)
    BY <2>1, <2>2
  <2>4. \A x \in Lasts(pages'[page']) : x \in pages[page] \/ x.tx = o
    BY <2>1, <2>2 DEF Lasts, OfKind
  <2> QED BY <2>3, <2>4 DEF PagesStep
<1> QED BY <1>1, <1>2, <1>3

\* What is recorded of o itself: it was there before.
LEMMA ReachIs ==
  ASSUME Inv, LastInv, NEW o \in InFlight, o \in txs' => o \in txs, op[o].pc # "record" \/ UNCHANGED <<schematic, lastTx>>,
         overlapped' = overlapped, left \subseteq left', spoiled \subseteq spoiled'
  PROVE  InReach(o)'
<1> SUFFICES ASSUME o \in txs PROVE InReach(o)'
  BY DEF InReach
<1>1. o \in Ops /\ Typed /\ op[o].pc \in Recorded2
  BY DEF InFlight, Inv, Ledger, OpInv
<1>2. op[o].pc = "record"
  BY <1>1 DEF InFlight, Recorded2, Steps, ApplySteps
<1>3. On(o)' = On(o)
  BY <1>1, <1>2, SamePages
<1> QED BY <1>1, <1>2, <1>3 DEF LastInv, InReach

\* A step that only goes on.
LEMMA PlainStep ==
  ASSUME Inv, LastInv, NEW o \in InFlight, OwnStep(o), PagesStep(o), spoiled \subseteq spoiled',
         UNCHANGED <<lastTx, txs, overlapped, left>>, op[o].pc # "record" \/ UNCHANGED schematic
  PROVE  LastInv'
<1>1. o \in Ops /\ Typed
  BY DEF InFlight, Inv, Ledger
<1> QED BY <1>1, TxStepIs, ReachIs, LastStep

LEMMA SpoilsMore ==
  ASSUME NEW objects, NEW tx, NEW ok, Deletes(objects, tx, ok)
  PROVE  spoiled \subseteq spoiled' /\ \E some : Remove(some)
BY DEF Deletes

\* The steps of an operation, kind by kind.
LEMMA GoingOn ==
  ASSUME Inv, LastInv, NEW o \in InFlight,
         Begin(o) \/ Read(o) \/ PageOccupied(o) \/ NewPageFails(o) \/ UndoThrows(o) \/ ProbesEnd(o) \/ PlacesEnd(o)
         \/ Record(o)
  PROVE  LastInv'
<1>1. o \in Ops /\ Typed /\ KindOf(o)
  BY DEF InFlight, Inv, Ledger, LastInv
<1>2. UNCHANGED <<schematic, lastTx, txs, overlapped, left>> /\ spoiled \subseteq spoiled'
  BY DEF Begin, Read, PageOccupied, NewPageFails, Fails, UndoThrows, ProbesEnd, PlacesEnd, Record, history
<1>3. OwnStep(o)
  <2> USE DEF KindOf, OnSheet, Probing, Undoing, Steps, ApplySteps
  <2>1. CASE Begin(o)
    <3>1. op[o].pc = "begin" /\ Turns(o, "read", lastTx, op[o].undone)
      BY <2>1 DEF Begin
    <3> QED BY <1>1, <3>1, OwnStepIs
  <2>2. CASE Read(o)
    <3>1. CASE Empty(pages[page]) /\ Draws(o, "probe", Parts, op[o].made) /\ op[o].pc \in {"read", "reread", "check"}
      BY <1>1, <3>1, OwnStepIs
    <3>2. PICK step \in {"undoWires", "page", "probe"} :
            /\ op[o].pc \in {"read", "reread", "check"}
            /\ \/ Goto(o, step) /\ step # "probe"
               \/ Empty(pages[page]) /\ Draws(o, "probe", Parts, op[o].made)
      BY <2>2 DEF Read
    <3>3. CASE Goto(o, step) /\ step # "probe"
      BY <1>1, <3>2, <3>3, OwnStepIs
    <3> QED BY <3>1, <3>2, <3>3
  <2>3. CASE PageOccupied(o) \/ NewPageFails(o) \/ UndoThrows(o) \/ Record(o)
    <3>1. Goto(o, "done")
      BY <2>3 DEF PageOccupied, NewPageFails, Fails, UndoThrows, Record, Over
    <3> QED BY <1>1, <3>1, OwnStepIs
  <2>4. CASE ProbesEnd(o)
    <3>1. PICK step \in {"unprobe", "unprobeAll"} : op[o].pc = "probe" /\ Goto(o, step)
      BY <2>4 DEF ProbesEnd
    <3> QED BY <1>1, <3>1, OwnStepIs
  <2>5. CASE PlacesEnd(o)
    <3>1. op[o].pc = "place" /\ \E todo, made : Draws(o, "wire", todo, made)
      BY <2>5 DEF PlacesEnd
    <3> QED BY <1>1, <3>1, OwnStepIs
  <2> QED BY <2>1, <2>2, <2>3, <2>4, <2>5
<1>4. PagesStep(o)
  BY <1>1, <1>2, PagesStepIs
<1> QED BY <1>2, <1>3, <1>4, PlainStep

LEMMA DrawingOn ==
  ASSUME Inv, LastInv, NEW o \in InFlight, Probe(o) \/ Place(o) \/ Wire(o) \/ PlacementThrows(o)
  PROVE  LastInv'
<1>1. o \in Ops /\ Typed /\ op[o].todo \in SUBSET (Parts \cup Nets)
  BY OpFacts DEF InFlight, Inv, Ledger
<1>2. UNCHANGED <<lastTx, txs, overlapped, left, spoiled>> /\ op[o].pc \in {"probe", "place", "wire"}
  BY DEF Probe, Place, Wire, PlacementThrows, history
<1>3. OwnStep(o)
  <2>1. PICK step \in {"probe", "place", "wire", "cleanup"} : Goto(o, step) \/ \E todo, made : Draws(o, step, todo, made)
    BY DEF Probe, Place, Wire, PlacementThrows
  <2>2. op[o].pc \in ApplySteps /\ op[o].pc \in OnSheet /\ step \in Steps \cup {"done"} /\ step \notin Undoing
    BY <1>2 DEF ApplySteps, OnSheet, Probing, Steps, Undoing
  <2> QED BY <1>1, <2>1, <2>2, OwnStepIs
<1>4. UNCHANGED schematic \/ \E new \in SUBSET Objects : Add(new) /\ \A x \in new : x.tx = o
  <2>1. CASE Probe(o) \/ Place(o)
    <3>1. PICK c \in op[o].todo, k \in {"probe", "component"} : UNCHANGED schematic \/ Add({Object(k, o, c)})
      BY <2>1 DEF Probe, Place
    <3>2. Object(k, o, c) \in Objects /\ Object(k, o, c).tx = o
      BY <1>1, <3>1, ObjectTyped DEF Kinds
    <3> QED BY <3>1, <3>2
  <2>2. CASE Wire(o)
    <3>1. PICK n \in op[o].todo, drawn \in {{}, {"wire"}, {"wire", "label"}} : Add({Object(k, o, n) : k \in drawn})
      BY <2>2 DEF Wire
    <3>2. \A k \in drawn : Object(k, o, n) \in Objects /\ Object(k, o, n).tx = o
      BY <1>1, <3>1, ObjectTyped DEF Kinds
    <3> DEFINE new == {Object(k, o, n) : k \in drawn}
    <3>3. new \in SUBSET Objects /\ \A x \in new : x.tx = o
      BY <3>2
    <3> QED BY <3>1, <3>3
  <2>3. CASE PlacementThrows(o)
    <3>1. PICK n \in op[o].todo : UNCHANGED schematic \/ Add({Object("stub", o, n)})
      BY <2>3 DEF PlacementThrows
    <3>2. Object("stub", o, n) \in Objects /\ Object("stub", o, n).tx = o
      BY <1>1, <3>1, ObjectTyped DEF Kinds
    <3> QED BY <3>1, <3>2
  <2> QED BY <2>1, <2>2, <2>3
<1>5. PagesStep(o)
  BY <1>1, <1>4, PagesStepIs
<1> QED BY <1>2, <1>3, <1>5, PlainStep

LEMMA TakingAway ==
  ASSUME Inv, LastInv, NEW o \in InFlight, UndoWires(o) \/ Unprobe(o) \/ Cleanup(o)
  PROVE  LastInv'
<1>1. o \in Ops /\ Typed
  BY DEF InFlight, Inv, Ledger
<1>2. UNCHANGED <<lastTx, txs, overlapped, left>> /\ op[o].pc \in {"undoWires", "unprobe", "unprobeAll", "cleanup"}
  BY DEF UndoWires, Unprobe, Cleanup
<1>3. spoiled \subseteq spoiled' /\ \E objects : Remove(objects)
  <2>1. CASE UndoWires(o) \/ Unprobe(o)
    <3>1. \E objects, tx, ok : Deletes(objects, tx, ok)
      BY <2>1 DEF UndoWires, Unprobe
    <3> QED BY <3>1, SpoilsMore
  <2>2. CASE Cleanup(o)
    BY <2>2 DEF Cleanup
  <2> QED BY <2>1, <2>2
<1>4. OwnStep(o)
  <2> USE DEF OnSheet, Probing, Undoing, Steps, ApplySteps
  <2>1. CASE UndoWires(o)
    <3>1. op[o].pc = "undoWires" /\ \E ok : Turns(o, "undoParts", op[o].target, ok)
      BY <2>1 DEF UndoWires
    <3> QED BY <1>1, <3>1, OwnStepIs
  <2>2. CASE Unprobe(o)
    <3>1. PICK step \in {"done", "place"} :
            /\ op[o].pc \in {"unprobe", "unprobeAll"}
            /\ Goto(o, step) \/ \E todo, made : Draws(o, step, todo, made)
      BY <2>2 DEF Unprobe, Over
    <3> QED BY <1>1, <3>1, OwnStepIs
  <2>3. CASE Cleanup(o)
    <3>1. Goto(o, "done")
      BY <2>3 DEF Cleanup, Over
    <3> QED BY <1>1, <3>1, OwnStepIs
  <2> QED BY <2>1, <2>2, <2>3
<1>5. PagesStep(o)
  BY <1>1, <1>3, PagesStepIs
<1> QED BY <1>2, <1>3, <1>4, <1>5, PlainStep

LEMMA PageOpened == ASSUME Inv, LastInv, NEW o \in InFlight, NewPage(o) PROVE LastInv'
<1>1. o \in Ops /\ Typed /\ KindOf(o) /\ pages \in Seq(SUBSET Objects) /\ Len(pages) \in Nat
  BY DEF InFlight, Inv, Ledger, LastInv, Typed
<1>2. /\ op[o].pc = "page" /\ pages' = Append(pages, {}) /\ page' = Len(pages) + 1 /\ Goto(o, "check")
      /\ UNCHANGED <<lastTx, txs, overlapped, left, spoiled>>
  BY DEF NewPage, history
<1>3. OwnStep(o)
  <2> USE DEF KindOf, OnSheet, Probing, Undoing, Steps, ApplySteps
  <2> QED BY <1>1, <1>2, OwnStepIs
<1>4. /\ Len(pages') = Len(pages) + 1 /\ pages'[page'] = {}
      /\ \A p \in 1..Len(pages) : pages'[p] = pages[p]
  BY <1>1, <1>2, AppendProperties
<1>5. \A p \in 1..Len(pages') : p \in 1..Len(pages) \/ p = page'
  BY <1>1, <1>2, <1>4
<1>6. \A t : On(t)' \subseteq On(t)
  BY <1>4, <1>5 DEF On
<1>7. PagesStep(o)
  BY <1>4, <1>6 DEF PagesStep, Lasts, OfKind
<1> QED BY <1>2, <1>3, <1>7, PlainStep

\* A rollback forgets the last transaction only if it was its own, or one that
\* ended while it ran.
LEMMA RolledBack == ASSUME Inv, LastInv, NEW o \in InFlight, UndoParts(o) \/ NothingToUndo(o) PROVE LastInv'
<1>1. o \in Ops /\ Typed /\ RollsLast(o) /\ left \subseteq Ops
  BY DEF InFlight, Inv, Ledger, LastInv
<1>2. PICK undone :
        /\ op[o].pc \in Undoing /\ AfterUndo(o, undone) /\ UNCHANGED <<overlapped, left>> /\ spoiled \subseteq spoiled'
        /\ \/ txs' = txs \ {op[o].target} /\ \E objects : Remove(objects)
           \/ txs' = txs /\ ~undone /\ UNCHANGED schematic
  <2>1. CASE UndoParts(o)
    <3>1. PICK ok \in BOOLEAN :
            /\ op[o].pc = "undoParts" /\ txs' = txs \ {op[o].target} /\ UNCHANGED <<overlapped, left>>
            /\ \E objects, tx : Deletes(objects, tx, ok)
            /\ AfterUndo(o, op[o].undone \/ ok)
      BY <2>1 DEF UndoParts
    <3> QED BY <3>1, SpoilsMore DEF Undoing
  <2>2. CASE NothingToUndo(o)
    BY <2>2 DEF NothingToUndo, history, Undoing
  <2> QED BY <2>1, <2>2
<1>3. OwnStep(o) /\ (op[o].kind = "apply" => lastTx' = lastTx)
      /\ (op[o].kind # "apply" => lastTx' = IF undone THEN 0 ELSE lastTx)
  <2> USE DEF OnSheet, Probing, Undoing, Steps, ApplySteps
  <2>1. CASE op[o].kind = "apply"
    <3>1. PICK step \in {"reread", "page"} : Goto(o, step) /\ lastTx' = lastTx
      BY <1>2, <2>1 DEF AfterUndo
    <3> QED BY <1>1, <2>1, <3>1, OwnStepIs
  <2>2. CASE op[o].kind # "apply"
    <3>1. Goto(o, "done") /\ lastTx' = IF undone THEN 0 ELSE lastTx
      BY <1>2, <2>2 DEF AfterUndo, Over
    <3> QED BY <1>1, <2>2, <3>1, OwnStepIs
  <2> QED BY <2>1, <2>2
<1>4. PagesStep(o)
  BY <1>1, <1>2, PagesStepIs
<1>5. ASSUME NEW t \in Ops, t \in txs', t = lastTx PROVE t = lastTx' \/ t \in overlapped
  <2> SUFFICES ASSUME op[o].kind # "apply", undone PROVE t \in overlapped
    BY <1>3, <1>5
  <2>1. t # op[o].target /\ t # 0
    BY <1>2, <1>5, Bounds
  <2> QED BY <1>1, <1>2, <1>5, <2>1 DEF RollsLast
<1>6. TxStep(o)
  BY <1>1, <1>2, <1>3, <1>5 DEF TxStep
<1>7. InReach(o)'
  BY <1>2, ReachIs DEF Undoing
<1> QED BY <1>3, <1>4, <1>6, <1>7, LastStep

\* The end of an apply takes the place of the last transaction, which was rolled
\* back, is on another page, or overlapped this one.
LEMMA Finished == ASSUME Inv, Inv', LastInv, NEW o \in InFlight, Finish(o) PROVE LastInv'
<1>1. o \in Ops /\ Typed /\ SheetOf(o) /\ left \subseteq Ops /\ page \in 1..Len(pages)
  BY DEF InFlight, Inv, Ledger, LastInv, Typed
<1>2. /\ op[o].pc = "wire" /\ txs' = txs \cup {o} /\ UNCHANGED <<schematic, spoiled, overlapped>>
      /\ \/ Goto(o, "done") /\ Recorded(o) = {} /\ UNCHANGED <<lastTx, left>>
         \/ Goto(o, "record") /\ lastTx' = o /\ left' = left \cup Elsewhere
  BY DEF Finish, Over
<1>3. OwnStep(o) /\ op'[o].pc \in Recorded2 /\ op'[o].made = op[o].made
  <2> USE DEF OnSheet, Probing, Undoing, Steps, ApplySteps
  <2>1. PICK step \in {"done", "record"} : Goto(o, step)
    BY <1>2
  <2> QED BY <1>1, <1>2, <2>1, OwnStepIs, GotoTyped DEF Recorded2
<1>4. PagesStep(o)
  BY <1>1, <1>2, PagesStepIs
<1>5. o \notin txs
  BY <1>1, <1>2 DEF Inv, Ledger, OpInv, Recorded2
<1>6. Elsewhere \subseteq Ops
  BY <1>1 DEF Elsewhere, Typed
<1>7. ASSUME NEW t \in Ops \ {o}, t \in txs', t = lastTx
      PROVE  t = lastTx' \/ t \in overlapped \cup left'
  <2> SUFFICES ASSUME left' = left \cup Elsewhere, t \notin Elsewhere PROVE t \in overlapped
    BY <1>2, <1>7
  <2>1. t \in {lastTx} \cap txs
    BY <1>2, <1>7
  <2>2. PICK x \in OfKind(pages[page], {"component", "wire"}) : x.tx = t
    BY <2>1 DEF Elsewhere
  <2>3. x \in Lasts(pages[page])
    BY <2>2 DEF Lasts, OfKind, Lasting
  <2> QED BY <1>1, <1>2, <2>2, <2>3 DEF SheetOf, OnSheet
<1>8. TxStep(o)
  BY <1>1, <1>2, <1>3, <1>6, <1>7 DEF TxStep, Recorded2, Undoing
<1>9. InReach(o)'
  <2>1. CASE lastTx' = o
    BY <2>1 DEF InReach
  <2>2. CASE Recorded(o) = {} /\ o \notin spoiled
    <3>1. OpInv(o)' /\ o \in txs' /\ o \notin spoiled'
      BY <1>1, <1>2, <2>2 DEF Inv, Ledger
    <3>2. On(o)' \subseteq op[o].made /\ \A x \in op[o].made : x.kind # "probe"
      BY <1>3, <3>1 DEF OpInv, Known, Stage
    <3>3. ASSUME NEW x \in On(o)' PROVE FALSE
      <4>1. x \in op[o].made /\ x.kind \in {"component", "wire"}
        BY <3>2, <3>3 DEF On, Lasting
      <4> QED BY <2>2, <4>1 DEF Recorded, OfKind
    <3> QED BY <3>3 DEF InReach
  <2>3. CASE o \in spoiled
    BY <1>2, <2>3 DEF InReach
  <2> QED BY <1>2, <2>1, <2>2, <2>3
<1> QED BY <1>3, <1>4, <1>8, <1>9, LastStep

----------------------------------------------------------------------------
\* The other steps leave the operations that run alone.
LEMMA StartsLast == ASSUME Inv, Inv', LastInv, NEW o \in Ops, StartApply(o) \/ StartRollback(o) PROVE LastInv'
<1>1. PICK kind \in {"apply", "rollback"}, pc \in {"begin", "undoWires"}, target \in {0, lastTx} :
        /\ Start(o, kind, pc, target)
        /\ \/ kind = "apply" /\ pc = "begin"
           \/ kind = "rollback" /\ pc = "undoWires" /\ target = lastTx
  BY DEF StartApply, StartRollback
<1> DEFINE r == [kind |-> kind, pc |-> pc, draft |-> plan, target |-> target, panel |-> shown,
                 todo |-> {}, made |-> {}, undone |-> FALSE]
<1>2. /\ op[o] = Idle /\ op' = [op EXCEPT ![o] = r] /\ overlapped \subseteq overlapped'
      /\ UNCHANGED <<schematic, lastTx, txs, spoiled, left>>
  BY <1>1 DEF Start
<1>3. r.kind = kind /\ r.pc = pc /\ r.target = target
  OBVIOUS
<1> HIDE DEF r
<1>4. Typed /\ page' = page /\ pages' = pages /\ left \subseteq Ops
  BY <1>2 DEF Inv, Ledger, LastInv, schematic
<1>5. op'[o] = r /\ \A q \in Ops \ {o} : op'[q] = op[q]
  BY <1>2, <1>4 DEF Typed
<1>6. \A t : On(t)' = On(t)
  BY <1>2, <1>4, SamePages
<1>7. ASSUME NEW q \in Ops PROVE (KindOf(q) /\ SheetOf(q) /\ RollsLast(q) /\ InReach(q))'
  <2>1. KindOf(q) /\ SheetOf(q) /\ RollsLast(q) /\ InReach(q)
    BY DEF LastInv
  <2>2. InReach(q)'
    BY <1>2, <1>6, <2>1 DEF InReach
  <2>3. CASE q = o
    <3>1. KindOf(q)' /\ SheetOf(q)'
      BY <1>1, <1>3, <1>5, <2>3 DEF KindOf, SheetOf, OnSheet, Probing, ApplySteps
    <3>2. RollsLast(q)'
      BY <1>1, <1>2, <1>3, <1>5, <2>3 DEF RollsLast, Undoing
    <3> QED BY <2>2, <3>1, <3>2
  <2>4. CASE q # o
    BY <1>2, <1>4, <1>5, <2>1, <2>2, <2>4 DEF KindOf, SheetOf, RollsLast, Lasts
  <2> QED BY <2>3, <2>4
<1> QED BY <1>2, <1>4, <1>7 DEF LastInv

\* The panel, the sessions and the user.
LEMMA AsideLast ==
  ASSUME Inv, LastInv, UNCHANGED <<op, txs, spoiled, overlapped>>, left \subseteq left', left' \subseteq Ops,
         \/ lastTx' = lastTx
         \/ lastTx' = 0 /\ {lastTx} \cap txs \subseteq left',
         \A t : On(t)' \subseteq On(t),
         InFlight = {} \/ UNCHANGED schematic
  PROVE  LastInv'
<1> SUFFICES ASSUME NEW q \in Ops PROVE (KindOf(q) /\ SheetOf(q) /\ RollsLast(q) /\ InReach(q))'
  BY DEF LastInv
<1>1. KindOf(q) /\ SheetOf(q) /\ RollsLast(q) /\ InReach(q)
  BY DEF LastInv
<1>2. KindOf(q)'
  BY <1>1 DEF KindOf
<1>3. SheetOf(q)'
  <2>1. CASE InFlight = {}
    BY <2>1 DEF InFlight, SheetOf, OnSheet, Probing, Steps, ApplySteps
  <2>2. CASE UNCHANGED schematic
    BY <1>1, <2>2 DEF SheetOf, Lasts, schematic
  <2> QED BY <2>1, <2>2
<1>4. RollsLast(q)'
  BY <1>1 DEF RollsLast
<1>5. InReach(q)'
  BY <1>1 DEF InReach
<1> QED BY <1>2, <1>3, <1>4, <1>5

LEMMA RestLast ==
  ASSUME Inv, Inv', LastInv,
         \/ \E d \in DraftIds : GenerateDraft(d) \/ TurnDrafts(d)
         \/ \E p \in 1..Len(panels) : Restore(p)
         \/ \E p \in 1..Len(pages) : UserOpensPage(p)
         \/ ChooseDevices \/ Reset \/ Restart \/ UserDraws \/ UNCHANGED vars
  PROVE  LastInv'
<1>1. Typed /\ left \subseteq Ops /\ page \in 1..Len(pages)
  BY DEF Inv, Ledger, LastInv, Typed
<1>2. CASE \/ \E d \in DraftIds : GenerateDraft(d) \/ TurnDrafts(d)
           \/ \E p \in 1..Len(panels) : Restore(p)
           \/ ChooseDevices \/ Reset \/ UNCHANGED vars
  <2>1. /\ UNCHANGED <<schematic, op, txs, spoiled, overlapped>>
        /\ \/ UNCHANGED <<lastTx, left>>
           \/ lastTx' = 0 /\ left' = left \cup ({lastTx} \cap txs)
    BY <1>2 DEF GenerateDraft, TurnDrafts, Drafted, Restore, ChooseDevices, Reset, vars, history
  <2>2. left' \subseteq Ops /\ \A t : On(t)' \subseteq On(t)
    BY <1>1, <2>1, SamePages DEF Typed
  <2> QED BY <2>1, <2>2, AsideLast
<1>3. CASE UserDraws \/ \E p \in 1..Len(pages) : UserOpensPage(p)
  <2>1. /\ InFlight = {} /\ UNCHANGED <<op, txs, lastTx, spoiled, overlapped, left>>
        /\ pages' = pages \/ Add({UserObject})
    BY <1>3 DEF UserDraws, UserOpensPage, history
  <2>2. ASSUME NEW t PROVE On(t)' \subseteq On(t)
    <3>1. CASE pages' = pages
      BY <3>1 DEF On
    <3>2. CASE Add({UserObject})
      <4>1. {UserObject} \in SUBSET Objects /\ UserObject.kind \notin Lasting
        BY DEF Objects, UserObject, Object, Lasting
      <4> QED BY <1>1, <3>2, <4>1, Added
    <3> QED BY <2>1, <3>1, <3>2
  <2> QED BY <1>1, <2>1, <2>2, AsideLast
<1>4. CASE Restart
  <2>1. /\ txs' = {} /\ left' = left
        /\ op' = [o \in Ops |-> IF o \in InFlight THEN [op[o] EXCEPT !.pc = "done"] ELSE op[o]]
    BY <1>4 DEF Restart
  <2>2. ASSUME NEW q \in Ops PROVE op'[q].pc \notin Steps
    <3>1. op[q] \in OpRecords
      BY <1>1, OpFacts
    <3>2. CASE q \in InFlight
      BY <2>1, <3>1, <3>2 DEF OpRecords, Steps, ApplySteps
    <3>3. CASE q \notin InFlight
      BY <2>1, <3>3 DEF InFlight
    <3> QED BY <3>2, <3>3
  <2>3. Steps = ApplySteps \cup Undoing /\ OnSheet \subseteq Steps
    BY DEF Steps, ApplySteps, Undoing, OnSheet, Probing
  <2> QED BY <1>1, <2>1, <2>2, <2>3 DEF LastInv, KindOf, SheetOf, RollsLast, InReach
<1> QED BY <1>2, <1>3, <1>4

LEMMA LastHolds == Spec => [](Inv /\ LastInv)
<1>1. Init => LastInv
  BY DEF Init, Idle, LastInv, KindOf, SheetOf, RollsLast, InReach, OnSheet, Probing, Undoing, ApplySteps
<1>2. Inv /\ LastInv /\ Inv' /\ [Next]_vars => LastInv'
  <2> SUFFICES ASSUME Inv, LastInv, Inv', [Next]_vars PROVE LastInv'
    OBVIOUS
  <2>1. ASSUME NEW o \in Ops, Proceed(o) PROVE LastInv'
    <3>1. o \in InFlight
      BY <2>1 DEF Proceed, Begin, Read, PageOccupied, NewPage, NewPageFails, UndoWires, UndoParts, NothingToUndo,
             UndoThrows, Probe, ProbesEnd, Unprobe, Place, PlacesEnd, Wire, PlacementThrows, Cleanup, Finish,
             Record, InFlight, Steps, ApplySteps
    <3> QED BY <2>1, <3>1, GoingOn, DrawingOn, TakingAway, PageOpened, RolledBack, Finished DEF Proceed
  <2> QED BY <2>1, StartsLast, RestLast DEF Next
<1> QED BY <1>1, <1>2, InvHolds, PTL DEF Spec

----------------------------------------------------------------------------
\* The objects on the pages, the operations and the panels have their types;
\* every object of a drawing belongs to an operation.
THEOREM DraftTypeCorrect == Spec => []TypeOK
<1>1. Inv /\ LastInv => TypeOK
  BY DEF Inv, Ledger, Typed, LastInv, TypeOK
<1> QED BY <1>1, LastHolds, PTL

\* Whatever applyPlanByApi drew, a probe included, is deleted by its finally,
\* its catch or the rollback, unless the operation runs or its transaction is
\* the one the rollback button takes back; for the rest there is a reason the
\* button cannot reach it: the editor refused to delete, a restart forgot it, a
\* new session or an apply on another page took over, or two operations
\* overlapped.
THEOREM NothingLeftBehindHolds == Spec => []NothingLeftBehind
<1>1. Inv /\ LastInv => NothingLeftBehind
  <2> SUFFICES ASSUME Inv, LastInv, NEW p \in 1..Len(pages), NEW x \in OfKind(pages[p], {"component", "wire", "probe"}),
                      x.tx \notin InFlight \cup spoiled \cup left
               PROVE  x.tx \in txs /\ x \in op[x.tx].made /\ (x.tx = lastTx \/ x.tx \in overlapped)
    BY DEF NothingLeftBehind
  <2>1. Typed /\ x \in Objects /\ x.kind \in Lasting /\ x \in pages[p]
    BY DEF Inv, Ledger, Typed, OfKind, Lasting
  <2>2. x.tx \in Ops
    BY <2>1 DEF Objects, UserObject, Object, Lasting
  <2>3. PICK q \in Ops : q = x.tx
    BY <2>2
  <2>4. x \in On(q) /\ OpInv(q) /\ InReach(q)
    BY <2>1, <2>3 DEF On, Inv, Ledger, LastInv
  <2>5. x \in op[q].made
    BY <2>3, <2>4 DEF OpInv, Known
  <2>6. op[q].pc = "done"
    <3>1. op[q].pc \in {"idle", "done"}
      BY <2>1, <2>3, OpFacts DEF InFlight
    <3> QED BY <2>4, <2>5, <3>1 DEF OpInv, Stage, Waiting
  <2>7. q \in txs
    BY <2>3, <2>4, <2>6 DEF OpInv, Clean, Recorded2
  <2>8. q = lastTx \/ q \in overlapped
    BY <2>3, <2>4, <2>7 DEF InReach
  <2> QED BY <2>3, <2>5, <2>7, <2>8
<1> QED BY <1>1, LastHolds, PTL

\* applyPlan puts a draft on an empty page, after it rolled the replaced one
\* back or on a page of its own: drafts share a page only if operations
\* overlapped, or the editor or a restart kept a transaction.
THEOREM OneDraftPerPageHolds == Spec => []OneDraftPerPage
<1>1. Inv => OneDraftPerPage
  BY DEF Inv, PageInv
<1> QED BY <1>1, InvHolds, PTL

----------------------------------------------------------------------------
(* The devices.  The invariant orders the resolutions that run by their    *)
(* beginnings.  The newest one, unless it is late, works on a plan with    *)
(* the choices (Ready), so that the plan it ends with has them; the        *)
(* current plan has them too, unless an older resolution has ended         *)
(* meanwhile and one runs that knows it (crossed).                         *)

\* Induction over sets of numbers.

\* A set of numbers that is not empty has a least one.
LEMMA LeastNumber ==
  ASSUME NEW T \in SUBSET Nat, T # {}
  PROVE  \E x \in T : \A y \in T : x <= y
<1>1. PICK x \in T : \A y \in T : <<y, x>> \notin OpToRel(<, Nat)
  BY NatLessThanWellFounded, WFMin
<1>2. \A y \in T : ~(y < x)
  BY <1>1 DEF OpToRel
<1> QED BY <1>2

\* What holds of 0, and of each number after one it holds of, holds of all.
LEMMA Induction ==
  ASSUME NEW S, 0 \in S, \A n \in Nat : n \in S => n + 1 \in S
  PROVE  Nat \subseteq S
<1> SUFFICES ASSUME Nat \ S # {} PROVE FALSE
  OBVIOUS
<1>1. PICK n \in Nat \ S : \A m \in Nat \ S : n <= m
  BY LeastNumber
<1>2. n # 0 /\ n - 1 \in Nat /\ n - 1 \notin Nat \ S
  BY <1>1
<1> QED BY <1>1, <1>2

LEMMA FirstIsIn == ASSUME NEW S \in SUBSET Nat, S # {} PROVE FirstOf(S) \in S
<1>1. \E r \in S : \A s \in S : r <= s
  BY LeastNumber
<1> QED BY <1>1 DEF FirstOf

----------------------------------------------------------------------------
\* The greedy assignment of real pins.

LEMMA FreePin ==
  ASSUME NEW score, NEW free \in SUBSET Pins
  PROVE  FirstOf(BestFree(score, free)) \in free \cup {0}
<1>1. BestFree(score, free) \subseteq free /\ Pins \subseteq Nat
  BY DevicesAssumption DEF BestFree, Pins
<1>2. CASE BestFree(score, free) = {}
  BY <1>2 DEF FirstOf
<1>3. CASE BestFree(score, free) # {}
  BY <1>1, <1>3, FirstIsIn
<1> QED BY <1>2, <1>3

\* No two pins of the draft get the same real pin.
LEMMA RealPinsDiffer ==
  ASSUME NEW device
  PROVE  /\ RealPins(device) \in [Pins -> 0..PinCount]
         /\ \A p, q \in Pins : p # q /\ RealPins(device)[p] # 0 => RealPins(device)[p] # RealPins(device)[q]
<1> DEFINE Next1(f, p) == FirstOf(BestFree(Score[device][p], Pins \ {f[q] : q \in 1..(p - 1)}))
           Greedy(f, n) == n <= PinCount => \A p \in 1..n : f[p] = Next1(f, p)
           Up == {n \in Nat : \E f \in [1..n -> 0..PinCount] : Greedy(f, n)}
<1>1. PinCount \in Nat \ {0} /\ Pins = 1..PinCount
  BY DevicesAssumption DEF Pins
<1>2. \A f : \A p \in Pins : Next1(f, p) \in 0..PinCount /\ Next1(f, p) \in (Pins \ {f[q] : q \in 1..(p - 1)}) \cup {0}
  BY <1>1, FreePin
<1> HIDE DEF Next1
<1>3. 0 \in Up
  <2>1. [p \in 1..0 |-> 0] \in [1..0 -> 0..PinCount] /\ Greedy([p \in 1..0 |-> 0], 0)
    BY <1>1
  <2> HIDE DEF Greedy
  <2> QED BY <2>1
<1>4. ASSUME NEW n \in Nat, n \in Up PROVE n + 1 \in Up
  <2>1. CASE n + 1 > PinCount
    <3> DEFINE g == [p \in 1..(n + 1) |-> 0]
    <3>1. g \in [1..(n + 1) -> 0..PinCount] /\ Greedy(g, n + 1)
      BY <1>1, <2>1
    <3> HIDE DEF Greedy, g
    <3> QED BY <3>1
  <2>2. CASE n + 1 <= PinCount
    <3>1. PICK f \in [1..n -> 0..PinCount] : \A p \in 1..n : f[p] = Next1(f, p)
      BY <1>1, <1>4, <2>2
    <3> DEFINE g == [p \in 1..(n + 1) |-> IF p = n + 1 THEN Next1(f, n + 1) ELSE f[p]]
    <3>2. g \in [1..(n + 1) -> 0..PinCount]
      BY <1>1, <1>2, <2>2
    <3>3. \A p \in 1..(n + 1) : {g[q] : q \in 1..(p - 1)} = {f[q] : q \in 1..(p - 1)}
      <4> TAKE p \in 1..(n + 1)
      <4>1. \A q \in 1..(p - 1) : g[q] = f[q]
        OBVIOUS
      <4> HIDE DEF g
      <4> QED BY <4>1
    <3>4. \A p \in 1..(n + 1) : Next1(g, p) = Next1(f, p)
      BY <3>3 DEF Next1
    <3>5. \A p \in 1..(n + 1) : g[p] = Next1(g, p)
      BY <3>1, <3>4
    <3>6. Greedy(g, n + 1)
      BY <3>5
    <3> HIDE DEF g, Greedy
    <3> QED BY <3>2, <3>6
  <2> QED BY <1>1, <2>1, <2>2
<1>5. PinCount \in Up
  BY <1>1, <1>3, <1>4, Induction
<1>6. PICK f \in [Pins -> 0..PinCount] : \A p \in Pins : f[p] = Next1(f, p)
  BY <1>1, <1>5
<1>7. f = [p \in Pins |-> Next1(f, p)]
  BY <1>6
<1>8. RealPins(device) = [p \in Pins |-> Next1(RealPins(device), p)]
  <2>1. RealPins(device) = CHOOSE h : h = [p \in Pins |-> Next1(h, p)]
    BY DEF RealPins, Next1
  <2> QED BY <1>7, <2>1
<1>9. RealPins(device) \in [Pins -> 0..PinCount]
  BY <1>2, <1>8
<1>10. ASSUME NEW p \in Pins, NEW q \in Pins, p < q, RealPins(device)[q] # 0
       PROVE  RealPins(device)[p] # RealPins(device)[q]
  <2>1. RealPins(device)[q] \notin {RealPins(device)[x] : x \in 1..(q - 1)}
    BY <1>2, <1>8, <1>10
  <2>2. p \in 1..(q - 1)
    BY <1>1, <1>10
  <2> QED BY <2>1, <2>2
<1> QED BY <1>1, <1>9, <1>10

----------------------------------------------------------------------------
\* What a handler works on: the variables as one record, as Now has them.
Any == Devices \cup {NoDevice}
Statuses == {"resolved", "unresolved"}
\* A device that a component has was given to it as resolved.
Component == {x \in [device : Any, status : Statuses, blind : BOOLEAN] :
  IF x.device = NoDevice THEN x.blind ELSE x.status = "resolved"}
PinRecord == [ok : BOOLEAN, of : Any, real : Nat]
Plan == [draft : Nat, comp : [Components -> Component], pins : [Components -> [Pins -> PinRecord]]]
WorkEntry == {e \in [done : BOOLEAN, asked : Any, pins : Answers, out : Component] :
  e.asked = NoDevice => e.done /\ e.pins = "none" /\ e.out.device = NoDevice}
Works == [Components -> WorkEntry]
JobKinds == {"idle", "choose", "search", "all", "best"}
Job == [kind : JobKinds, awaited : BOOLEAN, plan : PlanIds, on : 0..ComponentCount, todo : SUBSET Components,
        work : {<<>>} \cup Works, older : SUBSET Tasks, crossed : BOOLEAN, late : BOOLEAN]
Item == [status : Statuses, candidates : Seq(Devices)]
World == [plans : [PlanIds -> Plan \cup {NoPlan}], current : PlanIds, picker : [Components -> Item],
          task : [Tasks -> Job], newest : Nat, chosen : [Components -> Any], overtaken : BOOLEAN]

Running(w) == {t \in Tasks : w.task[t].work # <<>>}
PlanOf(w, t) == w.plans[w.task[t].plan]
\* Who holds a plan holds a real one; and an idle operation resolves nothing.
JobSound(w, t) ==
  /\ w.task[t].kind # "idle" => PlanOf(w, t) \in Plan
  /\ w.task[t].kind = "idle" => w.task[t].work = <<>> /\ w.task[t].on = 0
  /\ w.task[t].on # 0 => w.task[t].work = <<>>
Sound(w) == w \in World /\ w.plans[w.current] \in Plan /\ \A t \in Tasks : JobSound(w, t)

\* Resolutions are ordered by their beginnings, and one that is late makes
\* the older ones late.
Ordered(w) ==
  /\ \A t \in Running(w) : w.task[t].older \subseteq Running(w) \ {t}
  /\ \A t, u \in Running(w) : t # u => (t \in w.task[u].older <=> u \notin w.task[t].older)
  /\ \A t, u, v \in Running(w) : t \in w.task[u].older /\ u \in w.task[v].older => t \in w.task[v].older
  /\ \A t, u \in Running(w) : t \in w.task[u].older /\ w.task[u].late => w.task[t].late

\* A plan has what was chosen for the newest draft.
Chose(w, draft) ==
  draft.draft = w.newest /\ \A c \in Components : w.chosen[c] # NoDevice => draft.comp[c].device = w.chosen[c]
Fits(draft) == \A c \in Components : ~draft.comp[c].blind =>
  \A p, q \in Pins : draft.pins[c][p].ok =>
    /\ draft.pins[c][p].of = draft.comp[c].device
    /\ p # q /\ draft.pins[c][q].ok => draft.pins[c][p].real # draft.pins[c][q].real

\* A lookup is of a component that has a device; and those of the newest
\* resolution, unless it is late, are of the devices its plan has, which are
\* those that were chosen.
Asks(w) == \A t \in Running(w) : \A c \in Components :
  ~w.task[t].work[c].done => PlanOf(w, t).comp[c].device # NoDevice
Looks(component, e) ==
  IF component.device = NoDevice THEN e.done /\ e.pins = "none" /\ e.out.device = NoDevice
  ELSE /\ e.asked = component.device
       /\ e.done => e.out.device = component.device /\ e.out.blind = (e.pins # "read")
Ready(w, t) ==
  Chose(w, PlanOf(w, t)) /\ \A c \in Components : Looks(PlanOf(w, t).comp[c], w.task[t].work[c])
Newest(w, t) == t \in Running(w) /\ w.task[t].older = Running(w) \ {t}
NewestReady(w) == ~w.overtaken => \A t \in Tasks : Newest(w, t) /\ ~w.task[t].late => Ready(w, t)

\* The current plan is as it should be, or an older resolution has ended
\* since one began that still runs.
Kept(w) == ~w.overtaken =>
  \/ Chose(w, w.plans[w.current]) /\ Fits(w.plans[w.current])
  \/ \E t \in Running(w) : w.task[t].crossed

DevicesGood(w) == Sound(w) /\ Ordered(w) /\ Asks(w) /\ NewestReady(w) /\ Kept(w)
DeviceInv == DevicesGood(Now) /\ \A t \in Tasks : task[t].plan # Spare

----------------------------------------------------------------------------
\* Types.

LEMMA Counts ==
  /\ ComponentCount \in Nat \ {0} /\ PinCount \in Nat \ {0} /\ Pickers \in Nat \ {0}
  /\ Components = 1..ComponentCount /\ Pins = 1..PinCount /\ Tasks = 1..Pickers
  /\ PlanIds = 0..(Pickers + 1) /\ Spare = Pickers + 1
BY DevicesAssumption DEF Components, Pins, Tasks, PlanIds, Spare

LEMMA WorkIsNone == \A work \in Works : work # <<>>
<1> SUFFICES ASSUME NEW work \in Works PROVE work # <<>>
  OBVIOUS
<1>1. DOMAIN work = Components /\ 1 \in Components
  BY Counts DEF Works
<1> QED BY <1>1

LEMMA WorldFields ==
  ASSUME NEW w \in World
  PROVE  /\ w.plans \in [PlanIds -> Plan \cup {NoPlan}] /\ w.current \in PlanIds
         /\ w.picker \in [Components -> Item] /\ w.task \in [Tasks -> Job]
         /\ w.newest \in Nat /\ w.chosen \in [Components -> Any] /\ w.overtaken \in BOOLEAN
BY DEF World

LEMMA JobFields ==
  ASSUME NEW j \in Job
  PROVE  /\ j.kind \in JobKinds /\ j.awaited \in BOOLEAN /\ j.plan \in PlanIds /\ j.on \in 0..ComponentCount
         /\ j.todo \subseteq Components /\ j.work \in {<<>>} \cup Works /\ j.older \subseteq Tasks
         /\ j.crossed \in BOOLEAN /\ j.late \in BOOLEAN
BY DEF Job

LEMMA NoTaskTyped == NoTask \in Job
BY Counts DEF NoTask, Job, JobKinds

\* What a resolution begins with: placed components wait for their lookups.
LEMMA WorkTyped ==
  ASSUME NEW draft \in Plan
  PROVE  /\ Work(draft) \in Works
         /\ \A c \in Components : Looks(draft.comp[c], Work(draft)[c])
         /\ \A c \in Components : ~Work(draft)[c].done => draft.comp[c].device # NoDevice
<1>1. \A c \in Components : draft.comp[c] \in Component
  BY DEF Plan
<1>2. ASSUME NEW c \in Components
      PROVE  /\ Work(draft)[c] \in WorkEntry /\ Looks(draft.comp[c], Work(draft)[c])
             /\ ~Work(draft)[c].done => draft.comp[c].device # NoDevice
  <2>1. CASE Placed(draft.comp[c])
    <3>1. Work(draft)[c] = [done |-> FALSE, asked |-> draft.comp[c].device, pins |-> "none",
             out |-> [device |-> draft.comp[c].device, status |-> "resolved", blind |-> TRUE]]
      BY <2>1 DEF Work, Looked
    <3> QED BY <1>1, <2>1, <3>1 DEF Placed, Looks, WorkEntry, Component, Answers, Statuses, Any
  <2>2. CASE ~Placed(draft.comp[c])
    <3>1. Work(draft)[c] = [done |-> TRUE, asked |-> NoDevice, pins |-> "none",
             out |-> [draft.comp[c] EXCEPT !.status = "unresolved"]]
      BY <2>2 DEF Work, Unresolved
    <3> QED BY <1>1, <2>2, <3>1 DEF Placed, Looks, WorkEntry, Component, Answers, Statuses, Any
  <2> QED BY <2>1, <2>2
<1>3. Work(draft) = [c \in Components |-> Work(draft)[c]]
  BY DEF Work
<1> QED BY <1>2, <1>3 DEF Works

\* What it ends with.
LEMMA RewriteTyped ==
  ASSUME NEW pins \in [Pins -> PinRecord], NEW c \in Components, NEW component, NEW e \in WorkEntry
  PROVE  /\ RewritePins(pins, c, component, e) \in [Pins -> PinRecord]
         /\ e.pins = "read" => \A p, q \in Pins : RewritePins(pins, c, component, e)[p].ok =>
              /\ RewritePins(pins, c, component, e)[p].of = e.asked
              /\ p # q /\ RewritePins(pins, c, component, e)[q].ok =>
                   RewritePins(pins, c, component, e)[p].real # RewritePins(pins, c, component, e)[q].real
<1> DEFINE real == RealPins(e.asked)
           new == RewritePins(pins, c, component, e)
           fallback == c \in Passive /\ Placed(component)
<1>1. real \in [Pins -> 0..PinCount] /\ \A p, q \in Pins : p # q /\ real[p] # 0 => real[p] # real[q]
  BY RealPinsDiffer
<1>2. e.pins \in Answers /\ e.asked \in Any
  BY DEF WorkEntry
<1>3. new = [p \in Pins |->
       CASE e.pins = "none" -> pins[p]
         [] e.pins = "bare" -> [pins[p] EXCEPT !.ok = fallback]
         [] e.pins = "read" -> IF real[p] = 0 THEN [pins[p] EXCEPT !.ok = FALSE]
                               ELSE [ok |-> TRUE, of |-> e.asked, real |-> real[p]]]
  BY DEF RewritePins
<1>4. fallback \in BOOLEAN
  OBVIOUS
<1> HIDE DEF new, real, fallback
<1>5. ASSUME NEW p \in Pins PROVE new[p] \in PinRecord
  <2>1. CASE e.pins = "none"
    BY <1>3, <2>1
  <2>2. CASE e.pins = "bare"
    BY <1>3, <1>4, <2>2 DEF PinRecord
  <2>3. CASE e.pins = "read"
    <3>1. real[p] \in Nat
      BY <1>1, Counts
    <3> QED BY <1>2, <1>3, <2>3, <3>1 DEF PinRecord
  <2> QED BY <1>2, <2>1, <2>2, <2>3 DEF Answers
<1>6. new \in [Pins -> PinRecord]
  BY <1>3, <1>5
<1>7. ASSUME e.pins = "read", NEW p \in Pins, new[p].ok
      PROVE  real[p] # 0 /\ new[p].of = e.asked /\ new[p].real = real[p]
  <2>1. new[p] = IF real[p] = 0 THEN [pins[p] EXCEPT !.ok = FALSE]
                 ELSE [ok |-> TRUE, of |-> e.asked, real |-> real[p]]
    BY <1>3, <1>7
  <2>2. real[p] # 0
    BY <1>7, <2>1 DEF PinRecord
  <2> QED BY <2>1, <2>2
<1>8. ASSUME e.pins = "read", NEW p \in Pins, NEW q \in Pins, new[p].ok
      PROVE  new[p].of = e.asked /\ (p # q /\ new[q].ok => new[p].real # new[q].real)
  <2>1. new[p].of = e.asked /\ new[p].real = real[p] /\ real[p] # 0
    BY <1>7, <1>8
  <2>2. ASSUME new[q].ok PROVE new[q].real = real[q]
    BY <1>7, <1>8, <2>2
  <2> QED BY <1>1, <2>1, <2>2
<1> QED BY <1>6, <1>8 DEF new

LEMMA ResolvedTyped ==
  ASSUME NEW draft \in Plan, NEW work \in Works
  PROVE  /\ Resolved(draft, work) \in Plan
         /\ (\A c \in Components : ~work[c].out.blind => work[c].pins = "read" /\ work[c].asked = work[c].out.device)
              => Fits(Resolved(draft, work))
<1> DEFINE new == Resolved(draft, work)
<1>1. \A c \in Components : work[c] \in WorkEntry /\ work[c].out \in Component /\ draft.pins[c] \in [Pins -> PinRecord]
  BY DEF Works, WorkEntry, Plan
<1>2. /\ new.draft = draft.draft /\ new.comp = [c \in Components |-> work[c].out]
      /\ new.pins = [c \in Components |-> RewritePins(draft.pins[c], c, draft.comp[c], work[c])]
  BY DEF Resolved
<1>3. new.comp \in [Components -> Component] /\ new.pins \in [Components -> [Pins -> PinRecord]]
  BY <1>1, <1>2, RewriteTyped
<1>4. new \in Plan
  <2>1. draft.draft \in Nat
    BY DEF Plan
  <2> QED BY <1>3, <2>1 DEF Resolved, Plan
<1> HIDE DEF new
<1>5. ASSUME \A c \in Components : ~work[c].out.blind => work[c].pins = "read" /\ work[c].asked = work[c].out.device
      PROVE  Fits(new)
  <2> SUFFICES ASSUME NEW c \in Components, ~new.comp[c].blind
               PROVE  \A p, q \in Pins : new.pins[c][p].ok =>
                        /\ new.pins[c][p].of = new.comp[c].device
                        /\ p # q /\ new.pins[c][q].ok => new.pins[c][p].real # new.pins[c][q].real
    BY DEF Fits
  <2>1. work[c].pins = "read" /\ work[c].asked = work[c].out.device /\ new.comp[c] = work[c].out
    BY <1>2, <1>5
  <2>2. new.pins[c] = RewritePins(draft.pins[c], c, draft.comp[c], work[c])
    BY <1>2
  <2> QED BY <1>1, <2>1, <2>2, RewriteTyped
<1> QED BY <1>4, <1>5 DEF new

----------------------------------------------------------------------------
\* Steps that change nothing of plans and resolutions, or number them anew.

\* v is w but for the numbers of the plans, the picker, and what operations
\* that resolve nothing do.
SameJob(i, j) == i.work = j.work /\ i.older = j.older /\ i.crossed = j.crossed /\ i.late = j.late
Alike(v, w) ==
  /\ v.plans[v.current] = w.plans[w.current]
  /\ v.newest = w.newest /\ v.chosen = w.chosen /\ v.overtaken = w.overtaken
  /\ Running(v) = Running(w)
  /\ \A t \in Running(w) : SameJob(v.task[t], w.task[t]) /\ PlanOf(v, t) = PlanOf(w, t)

LEMMA AlikeGood ==
  ASSUME NEW v, NEW w, DevicesGood(w), Sound(v), Alike(v, w)
  PROVE  DevicesGood(v)
<1>1. Ordered(v)
  BY DEF DevicesGood, Alike, Ordered, SameJob
<1>2. Asks(v)
  BY DEF DevicesGood, Alike, Asks, SameJob
<1>3. \A t \in Tasks : Newest(v, t) /\ ~v.task[t].late => Newest(w, t) /\ ~w.task[t].late
  BY DEF Alike, Newest, SameJob
<1>4. \A t \in Running(w) : Ready(w, t) => Ready(v, t)
  BY DEF Alike, Ready, Chose, SameJob
<1>5. NewestReady(v)
  BY <1>3, <1>4 DEF DevicesGood, Alike, NewestReady, Newest
<1>6. Kept(v)
  BY DEF DevicesGood, Alike, Kept, Chose, SameJob
<1> QED BY <1>1, <1>2, <1>5, <1>6 DEF DevicesGood

\* Numbering the plans anew keeps them.
LEMMA Numbered ==
  ASSUME NEW w, Sound(w), NEW t \in Tasks, w.task[t].kind # "idle"
  PROVE  LET n == Number(w, w.task[t].plan)
         IN /\ n \in 0..Pickers
            /\ n = 0 => w.task[t].plan = w.current
            /\ n # 0 => /\ n \in Tasks /\ w.task[n].kind # "idle" /\ w.task[n].plan = w.task[t].plan
                        /\ Number(w, w.task[n].plan) = n
<1> DEFINE id == w.task[t].plan
<1>1. t \in Holders(w, id) /\ Holders(w, id) \subseteq Tasks /\ Tasks \subseteq Nat
  BY Counts DEF Holders
<1>2. FirstOf(Holders(w, id)) \in Holders(w, id)
  BY <1>1, FirstIsIn
<1>3. CASE id = w.current
  BY <1>3, Counts DEF Number
<1>4. CASE id # w.current
  <2>1. Number(w, id) = FirstOf(Holders(w, id))
    BY <1>4 DEF Number
  <2>2. Number(w, id) \in Tasks /\ w.task[Number(w, id)].kind # "idle" /\ w.task[Number(w, id)].plan = id
    BY <1>2, <2>1 DEF Holders
  <2> QED BY <2>2, Counts
<1> QED BY <1>3, <1>4

LEMMA BecomesGood ==
  ASSUME NEW w, DevicesGood(w), Become(w)
  PROVE  DeviceInv'
<1> DEFINE v == Now'
<1>1. w \in World /\ Sound(w)
  BY DEF DevicesGood, Sound
<1>2. /\ v.current = 0 /\ v.plans = plans' /\ v.task = task' /\ v.picker = w.picker
      /\ v.newest = w.newest /\ v.chosen = w.chosen /\ v.overtaken = w.overtaken
  BY DEF Now, Become
<1>3. 0 \in PlanIds /\ Tasks \subseteq PlanIds /\ 0 \notin Tasks /\ Spare \notin 0..Pickers /\ 0..Pickers \subseteq PlanIds
  BY Counts
<1>4. plans'[0] = w.plans[w.current]
  BY <1>3 DEF Become
<1>5. \A t \in Tasks : w.task[t].kind = "idle" => task'[t] = NoTask
  BY DEF Become
<1>6. ASSUME NEW t \in Tasks, w.task[t].kind # "idle"
      PROVE  /\ task'[t] = [w.task[t] EXCEPT !.plan = Number(w, w.task[t].plan)]
             /\ plans'[Number(w, w.task[t].plan)] = PlanOf(w, t)
  <2> DEFINE n == Number(w, w.task[t].plan)
  <2>1. task'[t] = [w.task[t] EXCEPT !.plan = n]
    BY <1>6 DEF Become
  <2>2. CASE n = 0
    <3>1. w.task[t].plan = w.current
      BY <1>1, <1>6, <2>2, Numbered
    <3> HIDE DEF n
    <3> QED BY <1>4, <2>1, <2>2, <3>1 DEF PlanOf, n
  <2>3. CASE n # 0
    <3>1. /\ n \in Tasks /\ w.task[n].kind # "idle" /\ w.task[n].plan = w.task[t].plan
          /\ Number(w, w.task[n].plan) = n
      BY <1>1, <1>6, <2>3, Numbered
    <3>2. plans'[n] = w.plans[w.task[n].plan]
      BY <1>3, <3>1 DEF Become
    <3> QED BY <2>1, <3>1, <3>2 DEF PlanOf
  <2> QED BY <2>2, <2>3
<1>7. ASSUME NEW t \in Tasks
      PROVE  /\ task'[t] \in Job /\ JobSound(v, t) /\ task'[t].plan # Spare
             /\ task'[t].work = w.task[t].work
             /\ w.task[t].work # <<>> => SameJob(task'[t], w.task[t]) /\ PlanOf(v, t) = PlanOf(w, t)
  <2>1. w.task[t] \in Job /\ JobSound(w, t)
    BY <1>1, WorldFields DEF Sound
  <2>2. CASE w.task[t].kind = "idle"
    <3>1. task'[t] = NoTask /\ w.task[t].work = <<>>
      BY <1>5, <2>1, <2>2 DEF JobSound
    <3> QED BY <1>2, <3>1, NoTaskTyped, Counts DEF NoTask, JobSound
  <2>3. CASE w.task[t].kind # "idle"
    <3> DEFINE n == Number(w, w.task[t].plan)
    <3>1. n \in 0..Pickers /\ task'[t] = [w.task[t] EXCEPT !.plan = n] /\ plans'[n] = PlanOf(w, t)
      BY <1>1, <1>6, <2>3, Numbered
    <3> HIDE DEF n
    <3>2. task'[t] \in Job /\ task'[t].plan # Spare
      BY <1>3, <2>1, <3>1 DEF Job
    <3>3. /\ task'[t].plan = n /\ task'[t].kind = w.task[t].kind /\ task'[t].on = w.task[t].on
          /\ task'[t].work = w.task[t].work /\ SameJob(task'[t], w.task[t])
      BY <2>1, <3>1 DEF Job, SameJob
    <3>4. PlanOf(v, t) = PlanOf(w, t)
      BY <1>2, <3>1, <3>3 DEF PlanOf
    <3> QED BY <2>1, <2>3, <3>2, <3>3, <3>4, <1>2 DEF JobSound
  <2> QED BY <2>2, <2>3
<1>8. v \in World
  <2>1. task' \in [Tasks -> Job]
    BY <1>7 DEF Become
  <2>2. \A t \in Tasks : w.task[t].kind # "idle" => PlanOf(w, t) \in Plan
    BY <1>1 DEF Sound, JobSound
  <2>3. plans' \in [PlanIds -> Plan \cup {NoPlan}]
    <3>1. w.plans[w.current] \in Plan
      BY <1>1 DEF Sound
    <3> QED BY <2>2, <3>1 DEF Become, PlanOf
  <2>4. v = [plans |-> plans', current |-> 0, picker |-> picker', task |-> task',
             newest |-> newest', chosen |-> chosen', overtaken |-> overtaken']
    BY DEF Now
  <2>5. /\ picker' \in [Components -> Item] /\ newest' \in Nat
        /\ chosen' \in [Components -> Any] /\ overtaken' \in BOOLEAN
    BY <1>1, WorldFields DEF Become
  <2> HIDE DEF v
  <2> QED BY <1>3, <2>1, <2>3, <2>4, <2>5 DEF World
<1> HIDE DEF v
<1>9. Sound(v)
  BY <1>1, <1>2, <1>4, <1>7, <1>8 DEF Sound
<1>10. Alike(v, w)
  BY <1>2, <1>4, <1>7 DEF Alike, Running
<1>11. DevicesGood(v)
  BY <1>9, <1>10, AlikeGood
<1> QED BY <1>7, <1>11 DEF DeviceInv, v

----------------------------------------------------------------------------
\* A choice.

LEMMA PickerTyped ==
  ASSUME NEW draft \in Plan, NEW items \in [Components -> Item]
  PROVE  PickerOf(draft, items) \in [Components -> Item]
<1>1. \A c \in Components : draft.comp[c].status \in Statuses
  BY DEF Plan, Component
<1> QED BY <1>1 DEF PickerOf, Item

LEMMA ChosenPlan ==
  ASSUME NEW draft \in Plan, NEW c \in Components, NEW d \in Devices
  PROVE  LET new == [draft EXCEPT !.comp[c] = [device |-> d, status |-> "resolved", blind |-> TRUE]]
         IN /\ new \in Plan /\ new.draft = draft.draft /\ new.comp[c].device = d
            /\ \A x \in Components \ {c} : new.comp[x] = draft.comp[x]
            /\ \A x \in Components : draft.comp[x].device # NoDevice => new.comp[x].device # NoDevice
            /\ Fits(draft) => Fits(new)
<1> DEFINE chosenOne == [device |-> d, status |-> "resolved", blind |-> TRUE]
           new == [draft EXCEPT !.comp[c] = chosenOne]
<1>1. d # NoDevice /\ d \in Any
  BY DevicesAssumption DEF Any
<1>2. chosenOne \in Component
  BY <1>1 DEF Component, Statuses
<1>3. new \in Plan /\ new.draft = draft.draft /\ new.pins = draft.pins
      /\ new.comp[c] = chosenOne /\ \A x \in Components \ {c} : new.comp[x] = draft.comp[x]
  BY <1>2 DEF Plan
<1>4. chosenOne.device = d /\ chosenOne.blind = TRUE
  OBVIOUS
<1> HIDE DEF new, chosenOne
<1>5. Fits(draft) => Fits(new)
  BY <1>3, <1>4 DEF Fits
<1> QED BY <1>1, <1>3, <1>4, <1>5 DEF new, chosenOne

LEMMA ChooseGood ==
  ASSUME NEW w, DevicesGood(w), NEW t \in Tasks, w.task[t].kind # "idle", w.task[t].work = <<>>,
         NEW c \in Components, NEW d \in Devices
  PROVE  DevicesGood(Choose(w, t, c, d))
<1> DEFINE old == w.plans[w.current]
           draft == [old EXCEPT !.comp[c] = [device |-> d, status |-> "resolved", blind |-> TRUE]]
           job == [w.task[t] EXCEPT !.plan = w.current, !.on = 0, !.work = Work(draft), !.late = FALSE, !.crossed = FALSE,
                                    !.older = {u \in Tasks \ {t} : w.task[u].work # <<>>}]
           v == Choose(w, t, c, d)
<1>1. w \in World /\ Sound(w) /\ old \in Plan /\ w.task[t] \in Job
  BY WorldFields DEF DevicesGood, Sound
<1>2. /\ draft \in Plan /\ draft.draft = old.draft /\ draft.comp[c].device = d
      /\ \A x \in Components \ {c} : draft.comp[x] = old.comp[x]
      /\ \A x \in Components : old.comp[x].device # NoDevice => draft.comp[x].device # NoDevice
      /\ Fits(old) => Fits(draft)
  BY <1>1, ChosenPlan
<1>3. /\ Work(draft) \in Works
      /\ \A x \in Components : Looks(draft.comp[x], Work(draft)[x])
      /\ \A x \in Components : ~Work(draft)[x].done => draft.comp[x].device # NoDevice
  BY <1>2, WorkTyped
<1>4. v = [w EXCEPT !.plans[w.current] = draft, !.picker = PickerOf(draft, @), !.task[t] = job,
                    !.chosen[c] = d, !.overtaken = @ \/ Behind(w)]
  BY DEF Choose
<1> HIDE DEF draft
<1>5. job \in Job
  <2>1. w.current \in PlanIds /\ 0 \in 0..ComponentCount /\ Work(draft) \in {<<>>} \cup Works
    BY <1>1, <1>3, WorldFields, Counts
  <2>2. PICK others \in SUBSET Tasks : others = {u \in Tasks \ {t} : w.task[u].work # <<>>}
    OBVIOUS
  <2> QED BY <1>1, <2>1, <2>2 DEF Job
<1>6. /\ job.plan = w.current /\ job.on = 0 /\ job.work = Work(draft) /\ job.late = FALSE
      /\ job.older = Running(w) \ {t} /\ job.kind # "idle"
  BY <1>1 DEF Job, Running
<1> HIDE DEF job, v
<1>7. /\ v \in World
      /\ v.plans = [w.plans EXCEPT ![w.current] = draft] /\ v.current = w.current
      /\ v.task = [w.task EXCEPT ![t] = job] /\ v.newest = w.newest
      /\ v.chosen = [w.chosen EXCEPT ![c] = d] /\ v.overtaken = (w.overtaken \/ Behind(w))
  <2>1. PickerOf(draft, w.picker) \in [Components -> Item]
    BY <1>1, <1>2, WorldFields, PickerTyped
  <2>2. Behind(w) \in BOOLEAN
    BY DEF Behind
  <2>3. d \in Any
    BY DEF Any
  <2> QED BY <1>1, <1>2, <1>4, <1>5, <2>1, <2>2, <2>3 DEF World
<1>8. Work(draft) # <<>>
  BY <1>3, WorkIsNone
<1>9. /\ v.plans[v.current] = draft /\ v.plans[w.current] = draft
      /\ \A id \in PlanIds \ {w.current} : v.plans[id] = w.plans[id]
      /\ v.task[t] = job /\ \A u \in Tasks \ {t} : v.task[u] = w.task[u]
      /\ v.chosen[c] = d /\ \A x \in Components \ {c} : v.chosen[x] = w.chosen[x]
  BY <1>1, <1>7, WorldFields
<1>10. PlanOf(v, t) = draft
  BY <1>6, <1>9 DEF PlanOf
<1>11. \A u \in Tasks \ {t} : PlanOf(v, u) = IF w.task[u].plan = w.current THEN draft ELSE PlanOf(w, u)
  <2>1. \A u \in Tasks : w.task[u].plan \in PlanIds
    BY <1>1, WorldFields DEF Job
  <2> QED BY <2>1, <1>9 DEF PlanOf
<1>12. Running(v) = Running(w) \cup {t} /\ t \notin Running(w)
  BY <1>6, <1>8, <1>9 DEF Running
<1>13. Sound(v)
  <2>1. JobSound(v, t)
    BY <1>2, <1>6, <1>9, <1>10 DEF JobSound
  <2>2. \A u \in Tasks \ {t} : JobSound(v, u)
    BY <1>1, <1>2, <1>9, <1>11 DEF JobSound, Sound
  <2> QED BY <1>2, <1>7, <1>9, <2>1, <2>2 DEF Sound
<1>14. Ordered(v)
  <2>1. Ordered(w)
    BY DEF DevicesGood
  <2>2. \A u \in Running(w) : v.task[u] = w.task[u] /\ t \notin v.task[u].older
    BY <1>9, <1>12, <2>1 DEF Ordered, Running
  <2>3. v.task[t].older = Running(w) /\ v.task[t].late = FALSE
    BY <1>6, <1>9, <1>12
  <2> QED BY <1>12, <2>1, <2>2, <2>3 DEF Ordered
<1>15. Asks(v)
  <2>1. \A x \in Components : ~v.task[t].work[x].done => PlanOf(v, t).comp[x].device # NoDevice
    BY <1>3, <1>6, <1>9, <1>10
  <2>2. ASSUME NEW u \in Running(w), NEW x \in Components, ~v.task[u].work[x].done
        PROVE  PlanOf(v, u).comp[x].device # NoDevice
    <3>1. u \in Tasks \ {t} /\ v.task[u] = w.task[u]
      BY <1>9, <1>12 DEF Running
    <3>2. PlanOf(w, u).comp[x].device # NoDevice
      BY <2>2, <3>1 DEF DevicesGood, Asks
    <3> QED BY <1>2, <1>11, <3>1, <3>2 DEF PlanOf
  <2> QED BY <1>12, <2>1, <2>2 DEF Asks
<1>16. ASSUME ~v.overtaken PROVE Chose(v, draft)
  <2>1. ~Behind(w)
    BY <1>7, <1>16
  <2>2. Chose(w, old)
    BY <2>1 DEF Behind, Chose
  <2> QED BY <1>2, <1>7, <1>9, <2>2 DEF Chose
<1>17. NewestReady(v)
  <2> SUFFICES ASSUME ~v.overtaken, NEW m \in Tasks, Newest(v, m) PROVE Ready(v, m)
    BY DEF NewestReady
  <2>1. m = t
    <3> SUFFICES ASSUME m # t PROVE FALSE
      OBVIOUS
    <3>1. m \in Running(w) /\ v.task[m] = w.task[m] /\ t \in v.task[m].older
      BY <1>9, <1>12 DEF Newest
    <3>2. w.task[m].older \subseteq Running(w)
      BY <3>1 DEF DevicesGood, Ordered
    <3> QED BY <1>12, <3>1, <3>2
  <2> QED BY <1>3, <1>6, <1>9, <1>10, <1>16, <2>1 DEF Ready
<1>18. Kept(v)
  <2> SUFFICES ASSUME ~v.overtaken
               PROVE  (Chose(v, draft) /\ Fits(draft)) \/ \E u \in Running(v) : v.task[u].crossed
    BY <1>9 DEF Kept
  <2>1. ~w.overtaken
    BY <1>7
  <2>2. Fits(old) \/ \E u \in Running(w) : w.task[u].crossed
    BY <2>1 DEF DevicesGood, Kept
  <2>3. \A u \in Running(w) : v.task[u] = w.task[u]
    BY <1>9, <1>12 DEF Running
  <2> QED BY <1>2, <1>12, <1>16, <2>2, <2>3
<1> QED BY <1>13, <1>14, <1>15, <1>17, <1>18 DEF DevicesGood, v

----------------------------------------------------------------------------
\* A search, the next turn of a loop, and the end of an operation.

\* An operation that resolves nothing changes.
LEMMA IdleJobGood ==
  ASSUME NEW w, DevicesGood(w), NEW t \in Tasks, w.task[t].work = <<>>,
         NEW job \in Job, job.work = <<>>,
         job.kind # "idle" => w.plans[job.plan] \in Plan,
         job.kind = "idle" => job.on = 0
  PROVE  DevicesGood([w EXCEPT !.task[t] = job])
<1> DEFINE v == [w EXCEPT !.task[t] = job]
<1>1. w \in World /\ Sound(w)
  BY DEF DevicesGood, Sound
<1>2. /\ v \in World /\ v.plans = w.plans /\ v.current = w.current /\ v.task = [w.task EXCEPT ![t] = job]
      /\ v.newest = w.newest /\ v.chosen = w.chosen /\ v.overtaken = w.overtaken
  BY <1>1 DEF World
<1> HIDE DEF v
<1>3. v.task[t] = job /\ \A u \in Tasks \ {t} : v.task[u] = w.task[u]
  BY <1>1, <1>2, WorldFields
<1>4. Sound(v)
  <2>1. JobSound(v, t)
    BY <1>2, <1>3 DEF JobSound, PlanOf
  <2>2. \A u \in Tasks \ {t} : JobSound(v, u)
    BY <1>1, <1>2, <1>3 DEF JobSound, PlanOf, Sound
  <2> QED BY <1>1, <1>2, <2>1, <2>2 DEF Sound
<1>5. Alike(v, w)
  <2>1. Running(v) = Running(w) /\ t \notin Running(w) /\ Running(w) \subseteq Tasks
    BY <1>3 DEF Running
  <2> QED BY <1>2, <1>3, <2>1 DEF Alike, SameJob, PlanOf
<1> QED BY <1>4, <1>5, AlikeGood DEF v

LEMMA SearchGood ==
  ASSUME NEW w, DevicesGood(w), NEW t \in Tasks, w.task[t].kind # "idle", w.task[t].work = <<>>, NEW c \in Components
  PROVE  DevicesGood(Search(w, t, c))
<1> DEFINE job == [w.task[t] EXCEPT !.plan = w.current, !.on = c]
<1>1. w \in World /\ w.task[t] \in Job /\ w.plans[w.current] \in Plan /\ w.current \in PlanIds
  BY WorldFields DEF DevicesGood, Sound
<1>2. job \in Job /\ job.work = <<>> /\ job.kind # "idle" /\ job.plan = w.current
  <2>1. c \in 0..ComponentCount
    BY Counts
  <2> QED BY <1>1, <2>1 DEF Job
<1>3. Search(w, t, c) = [w EXCEPT !.task[t] = job]
  BY DEF Search
<1> HIDE DEF job
<1> QED BY <1>1, <1>2, <1>3, IdleJobGood

LEMMA ContinueGood ==
  ASSUME NEW w, DevicesGood(w), NEW t \in Tasks, w.task[t].kind # "idle", w.task[t].work = <<>>
  PROVE  DevicesGood(Continue(w, t))
<1> DEFINE todo == w.task[t].todo
           c == CHOOSE x \in todo : \A y \in todo : x <= y
           next == [w EXCEPT !.task[t].todo = @ \ {c}]
           job == [w.task[t] EXCEPT !.todo = @ \ {c}]
<1>1. w \in World /\ Sound(w) /\ w.task[t] \in Job /\ todo \subseteq Components
  BY WorldFields, JobFields DEF DevicesGood, Sound
<1>2. CASE todo = {}
  <2>1. Continue(w, t) = [w EXCEPT !.task[t] = NoTask]
    BY <1>2 DEF Continue
  <2>2. NoTask.kind = "idle" /\ NoTask.work = <<>> /\ NoTask.on = 0
    BY DEF NoTask
  <2> QED BY <2>1, <2>2, NoTaskTyped, IdleJobGood
<1>3. CASE todo # {}
  <2>1. c \in Components
    <3>1. todo \subseteq Nat
      BY <1>1, Counts
    <3>2. \E x \in todo : \A y \in todo : x <= y
      BY <1>3, <3>1, LeastNumber
    <3> HIDE DEF todo
    <3> QED BY <1>1, <3>2
  <2>2. DevicesGood(next)
    <3>1. job \in Job /\ job.work = <<>> /\ job.kind # "idle" /\ job.plan = w.task[t].plan
      <4> HIDE DEF c
      <4> QED BY <1>1 DEF Job
    <3>2. w.plans[job.plan] \in Plan
      BY <1>1, <3>1 DEF Sound, JobSound, PlanOf
    <3>3. next = [w EXCEPT !.task[t] = job]
      OBVIOUS
    <3> HIDE DEF job, next
    <3> QED BY <3>1, <3>2, <3>3, IdleJobGood
  <2>3. next.task[t].kind # "idle" /\ next.task[t].work = <<>>
    <3> HIDE DEF c
    <3>1. next.task = [w.task EXCEPT ![t].todo = @ \ {c}]
      BY <1>1 DEF World
    <3>2. next.task[t] = job
      BY <1>1, <3>1, WorldFields
    <3> QED BY <1>1, <3>2 DEF Job
  <2>4. w.picker[c] \in Item
    BY <1>1, <2>1, WorldFields
  <2>5. CASE w.task[t].kind = "best" /\ w.picker[c].candidates # <<>>
    <3>1. Head(w.picker[c].candidates) \in Devices
      BY <2>4, <2>5, HeadTailProperties DEF Item
    <3>2. Continue(w, t) = Choose(next, t, c, Head(w.picker[c].candidates))
      BY <1>3, <2>5 DEF Continue
    <3> HIDE DEF next, c
    <3> QED BY <2>1, <2>2, <2>3, <3>1, <3>2, ChooseGood
  <2>6. CASE ~(w.task[t].kind = "best" /\ w.picker[c].candidates # <<>>)
    <3>1. Continue(w, t) = Search(next, t, c)
      BY <1>3, <2>6 DEF Continue
    <3> HIDE DEF next, c
    <3> QED BY <2>1, <2>2, <2>3, <3>1, SearchGood
  <2> QED BY <2>5, <2>6
<1> QED BY <1>2, <1>3

----------------------------------------------------------------------------
\* The end of a resolution.

\* What a resolution that ends as the newest one, and not late, makes current.
LEMMA ReadyResolves ==
  ASSUME NEW w, Sound(w), NEW t \in Running(w), Ready(w, t), \A c \in Components : w.task[t].work[c].done
  PROVE  LET new == Resolved(PlanOf(w, t), w.task[t].work) IN Chose(w, new) /\ Fits(new)
<1> DEFINE draft == PlanOf(w, t)
           work == w.task[t].work
           new == Resolved(draft, work)
<1>1. t \in Tasks /\ work # <<>>
  BY DEF Running
<1>2. w.task[t] \in Job
  BY <1>1, WorldFields DEF Sound
<1>3. work \in Works /\ draft \in Plan
  BY <1>1, <1>2, JobFields DEF Sound, JobSound
<1>4. \A c \in Components : work[c] \in WorkEntry /\ work[c].out \in Component /\ draft.comp[c] \in Component
  BY <1>3 DEF Works, WorkEntry, Plan
<1>5. \A c \in Components : Looks(draft.comp[c], work[c]) /\ work[c].done
  BY DEF Ready
<1>6. \A c \in Components : work[c].out.device = draft.comp[c].device
  BY <1>5 DEF Looks
<1>7. \A c \in Components : ~work[c].out.blind => work[c].pins = "read" /\ work[c].asked = work[c].out.device
  <2> TAKE c \in Components
  <2>1. CASE draft.comp[c].device = NoDevice
    BY <1>4, <1>6, <2>1 DEF Component
  <2>2. CASE draft.comp[c].device # NoDevice
    BY <1>5, <1>6, <2>2 DEF Looks
  <2> QED BY <2>1, <2>2
<1>8. Fits(new)
  BY <1>3, <1>7, ResolvedTyped
<1>9. new.draft = draft.draft /\ \A c \in Components : new.comp[c] = work[c].out
  BY DEF Resolved
<1>10. Chose(w, new)
  BY <1>6, <1>9 DEF Ready, Chose
<1> QED BY <1>8, <1>10

LEMMA PassedIs ==
  ASSUME NEW w \in World, NEW t \in Tasks, t \notin w.task[t].older
  PROVE  LET ts == Passed(w.task, t)
         IN /\ ts \in [Tasks -> Job]
            /\ \A u \in Tasks : /\ ts[u].kind = w.task[u].kind /\ ts[u].plan = w.task[u].plan /\ ts[u].on = w.task[u].on
                                /\ ts[u].work = IF u = t THEN <<>> ELSE w.task[u].work
            /\ \A u \in Tasks \ {t} : /\ ts[u].older = w.task[u].older \ {t}
                                      /\ ts[u].late = (w.task[u].late \/ u \in w.task[t].older)
                                      /\ ts[u].crossed = (w.task[u].crossed \/ t \in w.task[u].older)
<1> DEFINE ts == Passed(w.task, t)
<1>1. ASSUME NEW u \in Tasks
      PROVE  /\ ts[u] \in Job
             /\ ts[u].kind = w.task[u].kind /\ ts[u].plan = w.task[u].plan /\ ts[u].on = w.task[u].on
             /\ ts[u].work = IF u = t THEN <<>> ELSE w.task[u].work
             /\ u # t => /\ ts[u].older = w.task[u].older \ {t}
                         /\ ts[u].late = (w.task[u].late \/ u \in w.task[t].older)
                         /\ ts[u].crossed = (w.task[u].crossed \/ t \in w.task[u].older)
  <2>1. w.task[u] \in Job /\ w.task[t] \in Job
    BY WorldFields
  <2>2. PICK base \in Job : base = IF u = t THEN [w.task[t] EXCEPT !.work = <<>>] ELSE [w.task[u] EXCEPT !.older = @ \ {t}]
    BY <2>1 DEF Job
  <2>3. ts[u] = [base EXCEPT !.late = @ \/ u \in w.task[t].older, !.crossed = @ \/ t \in w.task[u].older]
    BY <2>2 DEF Passed, Dropped
  <2>4. ts[u] \in Job
    BY <2>3 DEF Job
  <2>5. /\ ts[u].late = (base.late \/ u \in w.task[t].older) /\ ts[u].crossed = (base.crossed \/ t \in w.task[u].older)
        /\ ts[u].kind = base.kind /\ ts[u].plan = base.plan /\ ts[u].on = base.on
        /\ ts[u].work = base.work /\ ts[u].older = base.older
    BY <2>3 DEF Job
  <2> HIDE DEF ts
  <2>6. CASE u = t
    BY <2>1, <2>2, <2>4, <2>5, <2>6 DEF Job
  <2>7. CASE u # t
    BY <2>1, <2>2, <2>4, <2>5, <2>7 DEF Job
  <2> QED BY <2>6, <2>7
<1>2. ts = [u \in Tasks |-> ts[u]]
  BY DEF Passed
<1> HIDE DEF ts
<1> QED BY <1>1, <1>2 DEF ts

LEMMA EndGood ==
  ASSUME NEW w, DevicesGood(w), NEW t \in Running(w), \A c \in Components : w.task[t].work[c].done,
         \A u \in Tasks : w.task[u].plan # Spare,
         NEW draft, draft = Resolved(PlanOf(w, t), w.task[t].work)
  PROVE  LET v == [w EXCEPT !.plans[Spare] = draft, !.current = Spare, !.picker = PickerOf(draft, @),
                            !.task = Passed(@, t), !.overtaken = @ \/ w.task[t].late]
         IN DevicesGood(v) /\ v.task[t].kind # "idle" /\ v.task[t].work = <<>>
<1> DEFINE v == [w EXCEPT !.plans[Spare] = draft, !.current = Spare, !.picker = PickerOf(draft, @),
                          !.task = Passed(@, t), !.overtaken = @ \/ w.task[t].late]
           ts == Passed(w.task, t)
<1>1. w \in World /\ Sound(w) /\ t \in Tasks /\ w.task[t].work # <<>> /\ w.task[t] \in Job /\ Spare \in PlanIds
  BY Counts, WorldFields DEF DevicesGood, Sound, Running
<1>2. w.task[t].kind # "idle" /\ PlanOf(w, t) \in Plan /\ w.task[t].work \in Works
  BY <1>1, JobFields DEF Sound, JobSound
<1>3. draft \in Plan
  BY <1>2, ResolvedTyped
<1>4. t \notin w.task[t].older /\ Ordered(w)
  BY DEF DevicesGood, Ordered
<1>5. /\ ts \in [Tasks -> Job]
      /\ \A u \in Tasks : /\ ts[u].kind = w.task[u].kind /\ ts[u].plan = w.task[u].plan /\ ts[u].on = w.task[u].on
                          /\ ts[u].work = IF u = t THEN <<>> ELSE w.task[u].work
      /\ \A u \in Tasks \ {t} : /\ ts[u].older = w.task[u].older \ {t}
                                /\ ts[u].late = (w.task[u].late \/ u \in w.task[t].older)
                                /\ ts[u].crossed = (w.task[u].crossed \/ t \in w.task[u].older)
  BY <1>1, <1>4, PassedIs
<1> HIDE DEF ts
<1>6. /\ v \in World
      /\ v.plans = [w.plans EXCEPT ![Spare] = draft] /\ v.current = Spare /\ v.task = ts
      /\ v.newest = w.newest /\ v.chosen = w.chosen /\ v.overtaken = (w.overtaken \/ w.task[t].late)
  <2>1. PickerOf(draft, w.picker) \in [Components -> Item]
    BY <1>1, <1>3, WorldFields, PickerTyped
  <2>2. w.task[t].late \in BOOLEAN
    BY <1>1, JobFields
  <2>3. v = [w EXCEPT !.plans[Spare] = draft, !.current = Spare, !.picker = PickerOf(draft, @),
                      !.task = ts, !.overtaken = @ \/ w.task[t].late]
    BY DEF ts
  <2> HIDE DEF v
  <2> QED BY <1>1, <1>3, <1>5, <2>1, <2>2, <2>3 DEF World
<1> HIDE DEF v
<1>7. v.plans[v.current] = draft /\ \A u \in Tasks : PlanOf(v, u) = PlanOf(w, u)
  <2>1. \A u \in Tasks : w.task[u].plan \in PlanIds
    BY <1>1, WorldFields, JobFields
  <2> QED BY <1>1, <1>5, <1>6, <2>1, WorldFields DEF PlanOf
<1>8. Running(v) = Running(w) \ {t} /\ Running(w) \subseteq Tasks
  BY <1>5, <1>6 DEF Running
<1>9. Sound(v)
  BY <1>1, <1>3, <1>5, <1>6, <1>7 DEF Sound, JobSound
<1>10. Ordered(v)
  <2>1. \A u \in Running(v) : /\ u \in Running(w) /\ u # t /\ v.task[u].older = w.task[u].older \ {t}
                              /\ v.task[u].late = (w.task[u].late \/ u \in w.task[t].older)
    BY <1>5, <1>6, <1>8
  <2>2. \A x, u \in Running(v) : x \in v.task[u].older /\ v.task[u].late => v.task[x].late
    <3> SUFFICES ASSUME NEW x \in Running(v), NEW u \in Running(v), x \in v.task[u].older, v.task[u].late
                 PROVE  v.task[x].late
      OBVIOUS
    <3>1. CASE w.task[u].late
      BY <1>4, <2>1, <3>1 DEF Ordered
    <3>2. CASE u \in w.task[t].older
      <4>1. x \in w.task[t].older
        BY <1>4, <2>1, <3>2 DEF Ordered
      <4> QED BY <2>1, <4>1
    <3> QED BY <2>1, <3>1, <3>2
  <2> QED BY <1>4, <1>8, <2>1, <2>2 DEF Ordered
<1>11. Asks(v)
  BY <1>5, <1>6, <1>7, <1>8 DEF DevicesGood, Asks
<1>12. NewestReady(v)
  <2> SUFFICES ASSUME ~v.overtaken, NEW m \in Tasks, Newest(v, m), ~v.task[m].late PROVE Ready(v, m)
    BY DEF NewestReady
  <2>1. m \in Running(w) /\ m # t /\ m \notin w.task[t].older /\ ~w.task[m].late /\ ~w.overtaken
    BY <1>5, <1>6, <1>8 DEF Newest
  <2>2. t \in w.task[m].older /\ w.task[m].older \subseteq Running(w) \ {m}
    BY <1>4, <2>1 DEF Ordered
  <2>3. w.task[m].older \ {t} = (Running(w) \ {t}) \ {m}
    BY <1>5, <1>6, <1>8, <2>1 DEF Newest
  <2>4. Newest(w, m)
    BY <2>1, <2>2, <2>3 DEF Newest
  <2>5. Ready(w, m)
    BY <2>1, <2>4 DEF DevicesGood, NewestReady
  <2> QED BY <1>5, <1>6, <1>7, <2>1, <2>5 DEF Ready, Chose
<1>13. Kept(v)
  <2> SUFFICES ASSUME ~v.overtaken
               PROVE  (Chose(v, draft) /\ Fits(draft)) \/ \E u \in Running(v) : v.task[u].crossed
    BY <1>7 DEF Kept
  <2>1. CASE Newest(w, t)
    <3>1. Ready(w, t)
      BY <1>1, <1>6, <2>1 DEF DevicesGood, NewestReady
    <3>2. Chose(w, draft) /\ Fits(draft)
      BY <1>1, <3>1, ReadyResolves
    <3> QED BY <1>6, <3>2 DEF Chose
  <2>2. CASE ~Newest(w, t)
    <3>1. PICK m \in Running(w) \ {t} : m \notin w.task[t].older
      BY <1>4, <2>2 DEF Newest, Ordered
    <3>2. t \in w.task[m].older
      BY <1>4, <3>1 DEF Ordered
    <3> QED BY <1>5, <1>6, <1>8, <3>1, <3>2
  <2> QED BY <2>1, <2>2
<1>14. v.task[t].kind # "idle" /\ v.task[t].work = <<>>
  BY <1>1, <1>2, <1>5, <1>6
<1> QED BY <1>9, <1>10, <1>11, <1>12, <1>13, <1>14 DEF DevicesGood, v

\* A call of the library fails.
LEMMA FailGood ==
  ASSUME NEW w, DevicesGood(w), NEW t \in Tasks
  PROVE  DevicesGood([w EXCEPT !.task = [Dropped(@, t) EXCEPT ![t] = NoTask],
                       !.overtaken = @ \/ (w.task[t].work # <<>> /\ (w.task[t].crossed \/ w.task[t].older # {}))])
<1> DEFINE lost == w.task[t].work # <<>> /\ (w.task[t].crossed \/ w.task[t].older # {})
           ts == [Dropped(w.task, t) EXCEPT ![t] = NoTask]
           v == [w EXCEPT !.task = ts, !.overtaken = @ \/ lost]
<1>1. w \in World /\ Sound(w) /\ w.task \in [Tasks -> Job] /\ Ordered(w)
  BY WorldFields DEF DevicesGood, Sound
<1>2. ts[t] = NoTask /\ \A u \in Tasks \ {t} : ts[u] = [w.task[u] EXCEPT !.older = @ \ {t}]
  BY DEF Dropped
<1>3. ts \in [Tasks -> Job]
  <2>1. \A u \in Tasks : ts[u] \in Job
    <3> TAKE u \in Tasks
    <3> HIDE DEF ts
    <3>1. w.task[u] \in Job
      BY <1>1
    <3>2. CASE u = t
      BY <1>2, <3>2, NoTaskTyped
    <3>3. CASE u # t
      BY <1>2, <3>1, <3>3 DEF Job
    <3> QED BY <3>2, <3>3
  <2> QED BY <2>1 DEF Dropped
<1> HIDE DEF ts
<1>4. /\ v \in World /\ v.task = ts /\ v.plans = w.plans /\ v.current = w.current
      /\ v.newest = w.newest /\ v.chosen = w.chosen /\ v.overtaken = (w.overtaken \/ lost)
  <2>1. lost \in BOOLEAN
    OBVIOUS
  <2> HIDE DEF lost
  <2> QED BY <1>1, <1>3, <2>1 DEF World
<1> HIDE DEF v
<1>5. \A u \in Tasks \ {t} : /\ v.task[u].kind = w.task[u].kind /\ v.task[u].plan = w.task[u].plan
                             /\ v.task[u].on = w.task[u].on /\ v.task[u].work = w.task[u].work
                             /\ v.task[u].older = w.task[u].older \ {t}
                             /\ v.task[u].late = w.task[u].late /\ v.task[u].crossed = w.task[u].crossed
  BY <1>1, <1>2, <1>4 DEF Job
<1>6. v.task[t].kind = "idle" /\ v.task[t].work = <<>> /\ v.task[t].on = 0
  BY <1>2, <1>4 DEF NoTask
<1>7. Running(v) = Running(w) \ {t} /\ Running(w) \subseteq Tasks
  BY <1>5, <1>6 DEF Running
<1>8. \A u \in Tasks \ {t} : PlanOf(v, u) = PlanOf(w, u)
  BY <1>4, <1>5 DEF PlanOf
<1>9. Sound(v)
  BY <1>1, <1>4, <1>5, <1>6, <1>8 DEF Sound, JobSound
<1>10. Ordered(v)
  BY <1>1, <1>5, <1>7 DEF Ordered
<1>11. Asks(v)
  BY <1>5, <1>7, <1>8 DEF DevicesGood, Asks
<1>12. NewestReady(v)
  <2> SUFFICES ASSUME ~v.overtaken, NEW m \in Tasks, Newest(v, m), ~v.task[m].late PROVE Ready(v, m)
    BY DEF NewestReady
  <2>1. m \in Running(w) /\ m # t /\ ~w.task[m].late /\ ~w.overtaken /\ ~lost
    BY <1>4, <1>5, <1>7 DEF Newest
  <2>2. w.task[m].older \ {t} = (Running(w) \ {t}) \ {m} /\ w.task[m].older \subseteq Running(w) \ {m}
    BY <1>1, <1>5, <1>7, <2>1 DEF Newest, Ordered
  <2>3. t \in Running(w) => t \in w.task[m].older
    <3> SUFFICES ASSUME t \in Running(w) PROVE t \in w.task[m].older
      OBVIOUS
    <3>1. w.task[t].older = {}
      BY <2>1 DEF Running
    <3> QED BY <1>1, <2>1, <3>1 DEF Ordered
  <2>4. Newest(w, m)
    BY <2>1, <2>2, <2>3 DEF Newest
  <2>5. Ready(w, m)
    BY <2>1, <2>4 DEF DevicesGood, NewestReady
  <2> QED BY <1>4, <1>5, <1>8, <2>1, <2>5 DEF Ready, Chose
<1>13. Kept(v)
  <2> SUFFICES ASSUME ~v.overtaken
               PROVE  \/ Chose(w, w.plans[w.current]) /\ Fits(w.plans[w.current])
                      \/ \E u \in Running(v) : v.task[u].crossed
    BY <1>4 DEF Kept, Chose
  <2>1. ~w.overtaken /\ ~lost
    BY <1>4
  <2>2. \/ Chose(w, w.plans[w.current]) /\ Fits(w.plans[w.current])
        \/ \E u \in Running(w) : w.task[u].crossed
    BY <2>1 DEF DevicesGood, Kept
  <2>3. ASSUME NEW u \in Running(w), w.task[u].crossed PROVE u \in Running(v) /\ v.task[u].crossed
    <3>1. u # t
      BY <2>1, <2>3 DEF Running
    <3> QED BY <1>5, <1>7, <2>3, <3>1
  <2> QED BY <2>2, <2>3
<1> QED BY <1>9, <1>10, <1>11, <1>12, <1>13 DEF DevicesGood, v, ts

----------------------------------------------------------------------------
\* A draft arrives.

LEMMA SearchedTyped ==
  ASSUME NEW e \in Searched(FreshComponent)
  PROVE  e \in WorkEntry /\ (~e.out.blind => e.pins = "read" /\ e.asked = e.out.device)
<1>1. CASE e \in {Unresolved(FreshComponent)}
  <2>1. NoDevice \in Any
    BY DEF Any
  <2>2. e = [done |-> TRUE, asked |-> NoDevice, pins |-> "none",
             out |-> [device |-> NoDevice, status |-> "unresolved", blind |-> TRUE]]
    BY <1>1 DEF Unresolved, FreshComponent
  <2> QED BY <2>1, <2>2 DEF WorkEntry, Component, Answers, Statuses
<1>2. CASE e \in UNION {{Looked(d, [FreshComponent EXCEPT !.device = d], pins) : pins \in Details[d]} : d \in Best}
  <2>0. PICK d \in Best : e \in {Looked(d, [FreshComponent EXCEPT !.device = d], pins) : pins \in Details[d]}
    BY <1>2
  <2>1. PICK pins \in Details[d] : e = Looked(d, [FreshComponent EXCEPT !.device = d], pins)
    BY <2>0
  <2>2. d \in Devices /\ d # NoDevice /\ d \in Any /\ pins \in Answers
    BY DevicesAssumption, DetailsAssumption DEF Any
  <2>3. e = [done |-> TRUE, asked |-> d, pins |-> pins,
             out |-> [device |-> d, status |-> "resolved", blind |-> pins # "read"]]
    BY <2>1 DEF Looked, FreshComponent
  <2> QED BY <2>2, <2>3 DEF WorkEntry, Component, Statuses
<1> QED BY <1>1, <1>2 DEF Searched

LEMMA FreshTyped == ASSUME NEW n \in Nat PROVE FreshPlan(n) \in Plan /\ FreshPlan(n).draft = n
<1>1. NoDevice \in Any
  BY DEF Any
<1>2. FreshComponent \in Component /\ FreshPin \in PinRecord
  BY <1>1 DEF FreshComponent, Component, Statuses, FreshPin, PinRecord
<1> QED BY <1>2 DEF FreshPlan, Plan

LEMMA ArrivesGood ==
  ASSUME NEW w, DevicesGood(w), \A u \in Tasks : w.task[u].plan # Spare,
         NEW draft \in Plan, Fits(draft), draft.draft = w.newest + 1
  PROVE  DevicesGood([w EXCEPT !.plans[Spare] = draft, !.current = Spare, !.picker = PickerOf(draft, @),
                       !.task = Outdated(@), !.newest = @ + 1, !.chosen = [c \in Components |-> NoDevice], !.overtaken = FALSE])
<1> DEFINE ts == Outdated(w.task)
           v == [w EXCEPT !.plans[Spare] = draft, !.current = Spare, !.picker = PickerOf(draft, @), !.task = ts,
                          !.newest = @ + 1, !.chosen = [c \in Components |-> NoDevice], !.overtaken = FALSE]
<1>1. w \in World /\ Sound(w) /\ w.task \in [Tasks -> Job] /\ Spare \in PlanIds /\ Ordered(w)
  BY Counts, WorldFields DEF DevicesGood, Sound
<1>2. ASSUME NEW u \in Tasks
      PROVE  /\ ts[u] \in Job /\ ts[u].kind = w.task[u].kind /\ ts[u].plan = w.task[u].plan /\ ts[u].on = w.task[u].on
             /\ ts[u].work = w.task[u].work /\ ts[u].older = w.task[u].older
             /\ ts[u].work # <<>> => ts[u].late = TRUE
  <2>1. w.task[u] \in Job /\ ts[u] = [w.task[u] EXCEPT !.late = @ \/ w.task[u].work # <<>>]
    BY <1>1 DEF Outdated
  <2> HIDE DEF ts
  <2> QED BY <2>1 DEF Job
<1>3. ts \in [Tasks -> Job]
  BY <1>2 DEF Outdated
<1> HIDE DEF ts
<1>4. /\ v \in World /\ v.plans = [w.plans EXCEPT ![Spare] = draft] /\ v.current = Spare /\ v.task = ts
      /\ v.newest = w.newest + 1 /\ v.chosen = [c \in Components |-> NoDevice] /\ v.overtaken = FALSE
  <2>1. PickerOf(draft, w.picker) \in [Components -> Item] /\ w.newest + 1 \in Nat
    BY <1>1, WorldFields, PickerTyped
  <2>2. [c \in Components |-> NoDevice] \in [Components -> Any]
    BY DEF Any
  <2> QED BY <1>1, <1>3, <2>1, <2>2 DEF World
<1> HIDE DEF v
<1>5. v.plans[v.current] = draft /\ \A u \in Tasks : PlanOf(v, u) = PlanOf(w, u)
  <2>1. \A u \in Tasks : w.task[u].plan \in PlanIds
    BY <1>1, JobFields
  <2> QED BY <1>1, <1>2, <1>4, <2>1, WorldFields DEF PlanOf
<1>6. Running(v) = Running(w) /\ Running(w) \subseteq Tasks
  BY <1>2, <1>4 DEF Running
<1>7. Sound(v)
  BY <1>1, <1>2, <1>4, <1>5 DEF Sound, JobSound
<1>8. \A u \in Running(v) : v.task[u].late = TRUE /\ v.task[u].older = w.task[u].older /\ v.task[u].work = w.task[u].work
  BY <1>2, <1>4 DEF Running
<1>9. Ordered(v)
  BY <1>1, <1>6, <1>8 DEF Ordered
<1>10. Asks(v)
  BY <1>5, <1>6, <1>8 DEF DevicesGood, Asks
<1>11. NewestReady(v)
  BY <1>8 DEF NewestReady, Newest
<1>12. Kept(v)
  BY <1>4, <1>5 DEF Kept, Chose
<1> QED BY <1>7, <1>9, <1>10, <1>11, <1>12 DEF DevicesGood, v, ts

----------------------------------------------------------------------------
\* A lookup ends.

LEMMA LookedGood ==
  ASSUME NEW w, DevicesGood(w), NEW t \in Running(w), NEW c \in Components, ~w.task[t].work[c].done,
         NEW pins \in Details[w.task[t].work[c].asked]
  PROVE  LET v == [w EXCEPT !.task[t].work[c] = Looked(@.asked, PlanOf(w, t).comp[c], pins)]
         IN DevicesGood(v) /\ \A u \in Tasks : v.task[u].plan = w.task[u].plan
<1> DEFINE work == w.task[t].work
           component == PlanOf(w, t).comp[c]
           e == Looked(work[c].asked, component, pins)
           job == [w.task[t] EXCEPT !.work = [work EXCEPT ![c] = e]]
           v == [w EXCEPT !.task[t].work[c] = Looked(@.asked, PlanOf(w, t).comp[c], pins)]
<1>1. w \in World /\ Sound(w) /\ w.task \in [Tasks -> Job] /\ t \in Tasks /\ w.task[t] \in Job /\ work # <<>>
  BY WorldFields DEF DevicesGood, Sound, Running
<1>2. work \in Works /\ PlanOf(w, t) \in Plan
  BY <1>1, JobFields DEF Sound, JobSound
<1>3. work[c] \in WorkEntry /\ component \in Component /\ component.device # NoDevice
  BY <1>2 DEF Works, Plan, DevicesGood, Asks
<1>4. work[c].asked # NoDevice /\ work[c].asked \in Devices
  BY <1>3 DEF WorkEntry, Any
<1>5. pins \in Answers
  BY <1>4, DetailsAssumption
<1>6. e = [done |-> TRUE, asked |-> work[c].asked, pins |-> pins,
           out |-> [device |-> component.device, status |-> "resolved", blind |-> pins # "read"]]
  BY DEF Looked
<1>7. e \in WorkEntry
  BY <1>3, <1>4, <1>5, <1>6 DEF WorkEntry, Component, Statuses, Any
<1>8. [work EXCEPT ![c] = e] \in Works
  BY <1>2, <1>7 DEF Works
<1>9. job \in Job /\ job.work = [work EXCEPT ![c] = e] /\ SameJob(job, [w.task[t] EXCEPT !.work = job.work])
      /\ job.kind = w.task[t].kind /\ job.plan = w.task[t].plan /\ job.on = w.task[t].on
      /\ job.older = w.task[t].older /\ job.late = w.task[t].late /\ job.crossed = w.task[t].crossed
  <2> HIDE DEF e, work
  <2> QED BY <1>1, <1>8 DEF Job, SameJob, work
<1>10. v = [w EXCEPT !.task = [w.task EXCEPT ![t] = job]]
  BY <1>1 DEF World
<1> HIDE DEF v, job, e
<1>11. /\ v \in World /\ v.task = [w.task EXCEPT ![t] = job] /\ v.plans = w.plans /\ v.current = w.current
       /\ v.newest = w.newest /\ v.chosen = w.chosen /\ v.overtaken = w.overtaken
  BY <1>1, <1>9, <1>10 DEF World
<1>12. v.task[t] = job /\ \A u \in Tasks \ {t} : v.task[u] = w.task[u]
  BY <1>1, <1>11
<1>13. \A u \in Tasks : /\ v.task[u].kind = w.task[u].kind /\ v.task[u].plan = w.task[u].plan
                        /\ v.task[u].on = w.task[u].on /\ v.task[u].older = w.task[u].older
                        /\ v.task[u].late = w.task[u].late /\ v.task[u].crossed = w.task[u].crossed
                        /\ PlanOf(v, u) = PlanOf(w, u)
  BY <1>9, <1>11, <1>12 DEF PlanOf
<1>14. job.work # <<>> /\ job.work \in Works
  BY <1>8, <1>9, WorkIsNone
<1>15. Running(v) = Running(w)
  BY <1>1, <1>12, <1>14 DEF Running
<1>16. Sound(v)
  BY <1>1, <1>11, <1>12, <1>13 DEF Sound, JobSound
<1>17. Ordered(v)
  BY <1>13, <1>15 DEF DevicesGood, Ordered, Running
<1>18. job.work[c] = e /\ \A x \in Components \ {c} : job.work[x] = work[x]
  BY <1>2, <1>9 DEF Works
<1>19. Asks(v)
  <2>1. e.done
    BY <1>6
  <2> QED BY <1>12, <1>13, <1>15, <1>18, <2>1 DEF DevicesGood, Asks, Running
<1>20. ASSUME Ready(w, t) PROVE Ready(v, t)
  <2>1. work[c].asked = component.device
    BY <1>3, <1>20 DEF Ready, Looks
  <2>2. Looks(component, e)
    BY <1>3, <1>6, <2>1 DEF Looks
  <2>3. v.task[t].work[c] = e /\ \A x \in Components \ {c} : v.task[t].work[x] = work[x]
    BY <1>12, <1>18
  <2>4. PlanOf(v, t) = PlanOf(w, t) /\ Chose(v, PlanOf(v, t))
    BY <1>1, <1>11, <1>13, <1>20 DEF Ready, Chose
  <2>5. \A x \in Components : Looks(PlanOf(w, t).comp[x], v.task[t].work[x])
    <3> TAKE x \in Components
    <3>1. CASE x = c
      BY <2>2, <2>3, <3>1
    <3>2. CASE x # c
      BY <1>20, <2>3, <3>2 DEF Ready
    <3> QED BY <3>1, <3>2
  <2> QED BY <2>4, <2>5 DEF Ready
<1>21. \A m \in Tasks \ {t} : Ready(w, m) => Ready(v, m)
  BY <1>11, <1>12, <1>13 DEF Ready, Chose
<1>22. NewestReady(v)
  BY <1>11, <1>13, <1>15, <1>20, <1>21 DEF DevicesGood, NewestReady, Newest
<1>23. Kept(v)
  BY <1>11, <1>13, <1>15 DEF DevicesGood, Kept, Chose, Running
<1> QED BY <1>13, <1>16, <1>17, <1>19, <1>22, <1>23 DEF DevicesGood, v

----------------------------------------------------------------------------
\* The actions.

LEMMA NowIs ==
  /\ Now.plans = plans /\ Now.current = 0 /\ Now.picker = picker /\ Now.task = task
  /\ Now.newest = newest /\ Now.chosen = chosen /\ Now.overtaken = overtaken
BY DEF Now

LEMMA NowTyped ==
  ASSUME DeviceInv
  PROVE  /\ DevicesGood(Now) /\ Sound(Now) /\ Now \in World
         /\ plans \in [PlanIds -> Plan \cup {NoPlan}] /\ plans[0] \in Plan
         /\ picker \in [Components -> Item] /\ task \in [Tasks -> Job] /\ newest \in Nat
BY NowIs, WorldFields DEF DeviceInv, DevicesGood, Sound

\* Initially the first draft is current and nothing runs.
LEMMA DeviceInvInit == DevicesInit => DeviceInv
<1> SUFFICES ASSUME DevicesInit PROVE DeviceInv
  OBVIOUS
<1>1. plans[0] = FreshPlan(1) /\ FreshPlan(1) \in Plan /\ FreshPlan(1).draft = 1
  BY Counts, FreshTyped DEF DevicesInit
<1>2. \A t \in Tasks : /\ task[t] = NoTask /\ task[t].kind = "idle" /\ task[t].work = <<>>
                       /\ task[t].on = 0 /\ task[t].plan = 0
  BY DEF DevicesInit, NoTask
<1>3. Now \in World
  <2>1. plans \in [PlanIds -> Plan \cup {NoPlan}] /\ 0 \in PlanIds
    BY <1>1, Counts DEF DevicesInit
  <2>2. picker \in [Components -> Item]
    BY DEF DevicesInit, Item, Statuses
  <2>3. task \in [Tasks -> Job] /\ chosen \in [Components -> Any]
    BY NoTaskTyped DEF DevicesInit, Any
  <2>4. newest \in Nat /\ overtaken \in BOOLEAN
    BY DEF DevicesInit
  <2> QED BY <2>1, <2>2, <2>3, <2>4 DEF Now, World
<1>4. Sound(Now)
  BY <1>1, <1>2, <1>3, NowIs DEF Sound, JobSound
<1>5. Running(Now) = {}
  BY <1>2, NowIs DEF Running
<1>6. Ordered(Now) /\ Asks(Now) /\ NewestReady(Now)
  BY <1>5 DEF Ordered, Asks, NewestReady, Newest
<1>7. Fits(FreshPlan(1))
  BY DEF Fits, FreshPlan, FreshComponent
<1>8. Chose(Now, FreshPlan(1))
  BY <1>1, NowIs DEF Chose, DevicesInit
<1>9. Kept(Now)
  BY <1>1, <1>7, <1>8, NowIs DEF Kept
<1> QED BY <1>2, <1>4, <1>6, <1>9, Counts DEF DeviceInv, DevicesGood

\* The panel starts an operation.
LEMMA StartedGood ==
  ASSUME DeviceInv, NEW t \in Tasks, task[t].kind = "idle",
         NEW kind \in JobKinds \ {"idle"}, NEW todo \in SUBSET Components
  PROVE  /\ DevicesGood(Started(t, kind, todo))
         /\ Started(t, kind, todo).task[t].kind # "idle" /\ Started(t, kind, todo).task[t].work = <<>>
<1> DEFINE job == [NoTask EXCEPT !.kind = kind, !.awaited = TRUE, !.todo = todo]
<1>1. job \in Job /\ job.kind = kind /\ job.work = <<>> /\ job.plan = 0
  BY NoTaskTyped DEF NoTask, Job
<1>2. Started(t, kind, todo) = [Now EXCEPT !.task[t] = job]
  BY DEF Started
<1> HIDE DEF job
<1>3. Now.plans[job.plan] \in Plan /\ Now.task[t].work = <<>>
  BY <1>1, NowTyped, NowIs DEF Sound, JobSound
<1>4. DevicesGood(Started(t, kind, todo))
  BY <1>1, <1>2, <1>3, NowTyped, IdleJobGood
<1>5. Started(t, kind, todo).task = [task EXCEPT ![t] = job]
  BY <1>2, NowIs DEF Now
<1>6. Started(t, kind, todo).task[t] = job
  BY <1>5, NowTyped
<1> QED BY <1>1, <1>4, <1>6

LEMMA StartKeepsDevices ==
  ASSUME DeviceInv,
         ChooseDraftDeviceCandidate \/ SearchDraftDeviceCandidates \/ SearchAllUnresolved \/ ChooseBest
  PROVE  DeviceInv'
<1>1. UnresolvedItems \in SUBSET Components
  BY DEF UnresolvedItems
<1>2. CASE ChooseDraftDeviceCandidate
  <2>1. PICK t \in Tasks, c \in Components : \E i \in DOMAIN picker[c].candidates :
          StartsOperation(t) /\ Become(Choose(Started(t, "choose", {}), t, c, picker[c].candidates[i]))
    BY <1>2 DEF ChooseDraftDeviceCandidate
  <2>2. PICK i \in DOMAIN picker[c].candidates :
          StartsOperation(t) /\ Become(Choose(Started(t, "choose", {}), t, c, picker[c].candidates[i]))
    BY <2>1
  <2>3. picker[c].candidates[i] \in Devices
    <3>1. picker[c].candidates \in Seq(Devices)
      BY NowTyped DEF Item
    <3> QED BY <2>2, <3>1
  <2>4. task[t].kind = "idle"
    BY <2>2 DEF StartsOperation
  <2>5. DevicesGood(Choose(Started(t, "choose", {}), t, c, picker[c].candidates[i]))
    BY <2>3, <2>4, StartedGood, ChooseGood DEF JobKinds
  <2> QED BY <2>2, <2>5, BecomesGood
<1>3. CASE SearchDraftDeviceCandidates
  <2>1. PICK t \in Tasks, c \in Components :
          StartsOperation(t) /\ Become(Search(Started(t, "search", {}), t, c))
    BY <1>3 DEF SearchDraftDeviceCandidates
  <2>2. task[t].kind = "idle"
    BY <2>1 DEF StartsOperation
  <2>3. DevicesGood(Search(Started(t, "search", {}), t, c))
    BY <2>2, StartedGood, SearchGood DEF JobKinds
  <2> QED BY <2>1, <2>3, BecomesGood
<1>4. ASSUME NEW kind \in {"all", "best"}, NEW t \in Tasks,
             StartsOperation(t), Become(Continue(Started(t, kind, UnresolvedItems), t))
      PROVE  DeviceInv'
  <2>1. task[t].kind = "idle" /\ kind \in JobKinds \ {"idle"}
    BY <1>4 DEF StartsOperation, JobKinds
  <2>2. DevicesGood(Continue(Started(t, kind, UnresolvedItems), t))
    BY <1>1, <2>1, StartedGood, ContinueGood
  <2> QED BY <1>4, <2>2, BecomesGood
<1> QED BY <1>2, <1>3, <1>4 DEF SearchAllUnresolved, ChooseBest

\* The user closes the picker or opens it.
LEMMA PanelKeepsDevices ==
  ASSUME DeviceInv, CloseDevicePicker \/ OpenDevicePicker
  PROVE  DeviceInv'
<1> DEFINE v == Now'
<1>1. /\ v.plans = plans' /\ v.current = 0 /\ v.picker = picker' /\ v.task = task'
      /\ v.newest = newest' /\ v.chosen = chosen' /\ v.overtaken = overtaken'
      /\ v \in [plans : {plans'}, current : {0}, picker : {picker'}, task : {task'},
                newest : {newest'}, chosen : {chosen'}, overtaken : {overtaken'}]
  BY DEF Now
<1> HIDE DEF v
<1>2. plans' = plans /\ newest' = newest /\ chosen' = chosen /\ overtaken' = overtaken
  BY DEF CloseDevicePicker, OpenDevicePicker, past
<1>3. /\ task' \in [Tasks -> Job]
      /\ \A t \in Tasks : /\ task'[t].kind = task[t].kind /\ task'[t].plan = task[t].plan /\ task'[t].on = task[t].on
                          /\ task'[t].work = task[t].work /\ SameJob(task'[t], task[t])
  <2>1. CASE CloseDevicePicker
    <3>1. task' = [t \in Tasks |-> [task[t] EXCEPT !.awaited = FALSE]]
      BY <2>1 DEF CloseDevicePicker
    <3>2. ASSUME NEW t \in Tasks
          PROVE  /\ task'[t] \in Job
                 /\ task'[t].kind = task[t].kind /\ task'[t].plan = task[t].plan /\ task'[t].on = task[t].on
                 /\ task'[t].work = task[t].work /\ SameJob(task'[t], task[t])
      <4>1. task[t] \in Job /\ task'[t] = [task[t] EXCEPT !.awaited = FALSE]
        BY <3>1, NowTyped
      <4> QED BY <4>1 DEF Job, SameJob
    <3> QED BY <3>1, <3>2
  <2>2. CASE OpenDevicePicker
    BY <2>2, NowTyped DEF OpenDevicePicker, SameJob
  <2> QED BY <2>1, <2>2
<1>4. picker' \in [Components -> Item]
  BY NowTyped, PickerTyped DEF CloseDevicePicker, OpenDevicePicker
<1>5. v \in World
  BY <1>1, <1>2, <1>3, <1>4, NowIs, NowTyped, WorldFields, Counts DEF World
<1>6. \A t \in Tasks : PlanOf(v, t) = PlanOf(Now, t)
  BY <1>1, <1>2, <1>3, NowIs DEF PlanOf
<1>7. Sound(v)
  BY <1>1, <1>2, <1>3, <1>5, <1>6, NowIs, NowTyped DEF Sound, JobSound
<1>8. Alike(v, Now)
  BY <1>1, <1>2, <1>3, <1>6, NowIs DEF Alike, Running
<1>9. DevicesGood(v)
  BY <1>7, <1>8, NowTyped, AlikeGood
<1> QED BY <1>3, <1>9 DEF DeviceInv, v

\* A search answers: the picker is shown, then the loop goes on.
LEMMA SearchAnswersKeepsDevices ==
  ASSUME DeviceInv, NEW t \in Tasks, SearchAnswers(t)
  PROVE  DeviceInv'
<1> DEFINE c == task[t].on
           items(found) == PickerOf(plans[task[t].plan], [picker EXCEPT ![c].candidates = found])
           offered(found) == [Now EXCEPT !.picker = items(found)]
<1>1. PICK found \in Finds : c # 0 /\ Become(IF task[t].kind = "best" /\ found # <<>>
          THEN Choose(offered(found), t, c, Head(found)) ELSE Continue(offered(found), t))
  BY DEF SearchAnswers
<1>2. c \in Components /\ task[t].kind # "idle" /\ task[t].work = <<>> /\ plans[task[t].plan] \in Plan
  <2>1. task[t] \in Job /\ JobSound(Now, t)
    BY NowTyped DEF Sound
  <2> QED BY <1>1, <2>1, JobFields, NowIs, Counts DEF JobSound, PlanOf
<1>3. found \in Seq(Devices)
  BY DevicesAssumption
<1>4. items(found) \in [Components -> Item]
  <2>1. [picker EXCEPT ![c].candidates = found] \in [Components -> Item]
    BY <1>2, <1>3, NowTyped DEF Item
  <2> QED BY <1>2, <2>1, PickerTyped
<1> DEFINE v == offered(found)
<1>5. v \in World /\ v.plans = plans /\ v.current = 0 /\ v.task = task /\ v.newest = newest
      /\ v.chosen = chosen /\ v.overtaken = overtaken
  <2> HIDE DEF items
  <2> QED BY <1>4, NowTyped, NowIs DEF World
<1> HIDE DEF offered
<1>6. Sound(v)
  BY <1>5, NowTyped, NowIs DEF Sound, JobSound, PlanOf
<1>7. Alike(v, Now)
  BY <1>5, NowIs DEF Alike, SameJob, Running, PlanOf
<1>8. DevicesGood(v)
  BY <1>6, <1>7, NowTyped, AlikeGood
<1>9. CASE task[t].kind = "best" /\ found # <<>>
  <2>1. Head(found) \in Devices
    BY <1>3, <1>9, HeadTailProperties
  <2>2. DevicesGood(Choose(v, t, c, Head(found)))
    BY <1>2, <1>5, <1>8, <2>1, ChooseGood
  <2> QED BY <1>1, <1>9, <2>2, BecomesGood
<1>10. CASE ~(task[t].kind = "best" /\ found # <<>>)
  <2>1. DevicesGood(Continue(v, t))
    BY <1>2, <1>5, <1>8, ContinueGood
  <2> QED BY <1>1, <1>10, <2>1, BecomesGood
<1> QED BY <1>9, <1>10

LEMMA LibraryFailsKeepsDevices ==
  ASSUME DeviceInv, NEW t \in Tasks, LibraryFails(t)
  PROVE  DeviceInv'
<1> DEFINE w == Now
           v == [w EXCEPT !.task = [Dropped(@, t) EXCEPT ![t] = NoTask],
                   !.overtaken = @ \/ (w.task[t].work # <<>> /\ (w.task[t].crossed \/ w.task[t].older # {}))]
<1>1. DevicesGood(v)
  <2> HIDE DEF w
  <2>1. DevicesGood(w)
    BY NowTyped DEF w
  <2> QED BY <2>1, FailGood
<1>2. v = [Now EXCEPT !.task = [Dropped(@, t) EXCEPT ![t] = NoTask],
                      !.overtaken = @ \/ (Resolving(t) /\ (task[t].crossed \/ task[t].older # {}))]
  BY NowIs DEF Resolving
<1>3. Become(v)
  BY <1>2 DEF LibraryFails
<1> HIDE DEF v
<1> QED BY <1>1, <1>3, BecomesGood

LEMMA DeviceResolvedKeepsDevices ==
  ASSUME DeviceInv, NEW t \in Tasks, DeviceResolved(t)
  PROVE  DeviceInv'
<1> DEFINE w == Now
           draft == Resolved(PlanOf(w, t), w.task[t].work)
           v == [w EXCEPT !.plans[Spare] = draft, !.current = Spare, !.picker = PickerOf(draft, @),
                   !.task = Passed(@, t), !.overtaken = @ \/ w.task[t].late]
<1>1. w.task[t].work # <<>> /\ \A c \in Components : w.task[t].work[c].done
  BY NowIs DEF DeviceResolved, Resolving
<1>2. DevicesGood(w) /\ \A u \in Tasks : w.task[u].plan # Spare
  BY NowTyped, NowIs DEF DeviceInv
<1>3. Become(Continue(v, t))
  BY NowIs DEF DeviceResolved, PlanOf
<1> HIDE DEF w
<1>4. t \in Running(w)
  BY <1>1 DEF Running
<1>5. DevicesGood(v) /\ v.task[t].kind # "idle" /\ v.task[t].work = <<>>
  BY <1>1, <1>2, <1>4, EndGood
<1> HIDE DEF v
<1>6. DevicesGood(Continue(v, t))
  BY <1>5, ContinueGood
<1> QED BY <1>3, <1>6, BecomesGood

LEMMA DraftArrivesKeepsDevices ==
  ASSUME DeviceInv, DraftArrives
  PROVE  DeviceInv'
<1>1. PICK work \in [Components -> Searched(FreshComponent)] :
        Become([Now EXCEPT !.plans[Spare] = Resolved(FreshPlan(newest + 1), work), !.current = Spare,
                  !.picker = PickerOf(Resolved(FreshPlan(newest + 1), work), @), !.task = Outdated(@),
                  !.newest = @ + 1, !.chosen = [c \in Components |-> NoDevice], !.overtaken = FALSE])
  BY DEF DraftArrives
<1> DEFINE w == Now
           draft == Resolved(FreshPlan(newest + 1), work)
           v == [w EXCEPT !.plans[Spare] = draft, !.current = Spare, !.picker = PickerOf(draft, @), !.task = Outdated(@),
                  !.newest = @ + 1, !.chosen = [c \in Components |-> NoDevice], !.overtaken = FALSE]
<1>2. FreshPlan(newest + 1) \in Plan /\ FreshPlan(newest + 1).draft = newest + 1
  BY NowTyped, FreshTyped
<1>3. \A c \in Components : work[c] \in WorkEntry
        /\ (~work[c].out.blind => work[c].pins = "read" /\ work[c].asked = work[c].out.device)
  BY SearchedTyped
<1>4. work \in Works
  BY <1>3 DEF Works
<1>5. draft \in Plan /\ Fits(draft)
  BY <1>2, <1>3, <1>4, ResolvedTyped
<1>6. draft.draft = w.newest + 1
  BY <1>2, NowIs DEF Resolved
<1>7. DevicesGood(w) /\ \A u \in Tasks : w.task[u].plan # Spare
  BY NowTyped, NowIs DEF DeviceInv
<1>8. Become(v)
  BY <1>1
<1> HIDE DEF w, draft
<1>9. DevicesGood(v)
  BY <1>5, <1>6, <1>7, ArrivesGood
<1> HIDE DEF v
<1> QED BY <1>8, <1>9, BecomesGood

LEMMA LookupAnswersKeepsDevices ==
  ASSUME DeviceInv, NEW t \in Tasks, NEW c \in Components, LookupAnswers(t, c)
  PROVE  DeviceInv'
<1>1. PICK pins \in Details[task[t].work[c].asked] :
        task' = [task EXCEPT ![t].work[c] = Looked(@.asked, plans[task[t].plan].comp[c], pins)]
  BY DEF LookupAnswers
<1> DEFINE w == Now
           v == [w EXCEPT !.task[t].work[c] = Looked(@.asked, PlanOf(w, t).comp[c], pins)]
<1>2. t \in Running(w) /\ ~w.task[t].work[c].done /\ pins \in Details[w.task[t].work[c].asked]
  BY <1>1, NowIs DEF LookupAnswers, Resolving, Running
<1>3. DevicesGood(w)
  BY NowTyped
<1>4. Now' = v
  <2>1. v = [w EXCEPT !.task = task']
    BY <1>1, NowIs DEF PlanOf, Now
  <2>2. Now' = [w EXCEPT !.task = task']
    BY DEF LookupAnswers, past, Now
  <2> QED BY <2>1, <2>2
<1>5. DevicesGood(v) /\ \A u \in Tasks : v.task[u].plan = w.task[u].plan
  <2> HIDE DEF w
  <2> QED BY <1>2, <1>3, LookedGood
<1>6. task' = v.task
  BY <1>4 DEF Now
<1> HIDE DEF v
<1> QED BY <1>4, <1>5, <1>6, NowIs DEF DeviceInv

LEMMA DeviceInvStep == DeviceInv /\ [DevicesNext]_devVars => DeviceInv'
<1> SUFFICES ASSUME DeviceInv, [DevicesNext]_devVars PROVE DeviceInv'
  OBVIOUS
<1>1. CASE ChooseDraftDeviceCandidate \/ SearchDraftDeviceCandidates \/ SearchAllUnresolved \/ ChooseBest
  BY <1>1, StartKeepsDevices
<1>2. CASE CloseDevicePicker \/ OpenDevicePicker
  BY <1>2, PanelKeepsDevices
<1>3. CASE DraftArrives
  BY <1>3, DraftArrivesKeepsDevices
<1>4. CASE \E t \in Tasks : SearchAnswers(t) \/ LibraryFails(t) \/ DeviceResolved(t)
  BY <1>4, SearchAnswersKeepsDevices, LibraryFailsKeepsDevices, DeviceResolvedKeepsDevices
<1>5. CASE \E t \in Tasks, c \in Components : LookupAnswers(t, c)
  BY <1>5, LookupAnswersKeepsDevices
<1>6. CASE UNCHANGED devVars
  <2>1. Now' = Now /\ task' = task
    BY <1>6 DEF devVars, Now
  <2> QED BY <2>1 DEF DeviceInv
<1> QED BY <1>1, <1>2, <1>3, <1>4, <1>5, <1>6 DEF DevicesNext

LEMMA DevicesStayGood == DevicesSpec => []DeviceInv
BY DeviceInvInit, DeviceInvStep, PTL DEF DevicesSpec

----------------------------------------------------------------------------
\* What was chosen for the newest draft stays in the current plan.
THEOREM ChoiceKeptHolds == DevicesSpec => []ChoiceKept
<1>1. ASSUME DeviceInv PROVE ChoiceKept
  <2> SUFFICES ASSUME Settled, ~overtaken
               PROVE  /\ Current.draft = newest
                      /\ \A c \in Components : chosen[c] # NoDevice =>
                           Current.comp[c].device = chosen[c] /\ Current.comp[c].status = "resolved"
    BY DEF ChoiceKept
  <2>1. Running(Now) = {}
    BY NowIs DEF Settled, Resolving, Running
  <2>2. Chose(Now, Current)
    BY <1>1, <2>1, NowIs, NowTyped DEF DevicesGood, Kept, Current
  <2>3. \A c \in Components : Current.comp[c] \in Component
    BY <1>1, NowTyped DEF Current, Plan
  <2> QED BY <2>2, <2>3, NowIs DEF Chose, Component
<1> QED BY <1>1, DevicesStayGood, PTL

\* The resolved pins of a component are different pins of its device.
THEOREM PinsFitDeviceHolds == DevicesSpec => []PinsFitDevice
<1>1. ASSUME DeviceInv PROVE PinsFitDevice
  <2> SUFFICES ASSUME Settled, ~overtaken PROVE Fits(Current)
    BY DEF PinsFitDevice, Fits
  <2>1. Running(Now) = {}
    BY NowIs DEF Settled, Resolving, Running
  <2> QED BY <1>1, <2>1, NowIs, NowTyped DEF DevicesGood, Kept, Current
<1> QED BY <1>1, DevicesStayGood, PTL
================================================================================
