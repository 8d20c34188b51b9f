----------------------------- MODULE DraftWiring -----------------------------
(***************************************************************************)
(* From the design that the model writes for a draft to the wires on the   *)
(* sheet: draftSpecToPlan names and merges the nets, the repair feeds      *)
(* power nets nobody feeds and adds the connections that the guidance      *)
(* requires (also as a tool, draft_repair_plan), normalizeDraftPlan adds   *)
(* support parts, and the typed placement draws the nets and reports what  *)
(* it left out.                                                            *)
(*                                                                         *)
(* Nothing runs concurrently here: what is hard is the input.  A model     *)
(* writes it, and names one net in two ways, lists a pin twice, connects a *)
(* net it does not list, or contradicts the guidance.  Ids of pins, nets   *)
(* and components are taken to be unique.                                  *)
(***************************************************************************)
EXTENDS RuleChecks

CONSTANTS
  Designs,     \* the designs (DraftDesignSpec with guidance) of this instance
  SpecName,    \* SpecName[n]: a net's name as draftSpecToPlan writes it
  RepairName,  \* RepairName[n]: as the repair compares it; it lacks one alias
  Connectors,  \* references of connectors, in the order they are tried
  MaxRepairs,  \* bound: calls of draft_repair_plan
  MaxTrouble   \* bound: pins that are not found plus wires that are refused
ASSUME WiringAssumption == MaxRepairs \in Nat /\ MaxTrouble \in Nat
\* What a design, the rules and the boards are made of.
ASSUME DesignsAssumption == \A d \in Designs :
  /\ d.comps \in Seq(Elements(d.comps)) /\ d.required \in Seq(Elements(d.required))
  /\ d.pins \in Seq([id : STRING, comp : STRING, name : STRING, labels : SUBSET STRING, source : BOOLEAN])
  /\ d.nets \in Seq([id : STRING, name : STRING, words : SUBSET STRING, power : BOOLEAN])
  /\ d.conns \in Seq([net : STRING, pins : Seq(STRING)])
ASSUME IdsAssumption == \A d \in Designs :
  /\ \A i, j \in DOMAIN d.nets : d.nets[i].id = d.nets[j].id => i = j
  /\ \A i, j \in DOMAIN d.pins : d.pins[i].id = d.pins[j].id => i = j
\* draftSpecToPlan writes a name for every net ("NET" if need be), and the
\* repair takes it as it is.
ASSUME NamesAssumption == \A d \in Designs : \A i \in DOMAIN d.nets :
  LET name == SpecName[d.nets[i].name] IN name # NoNet /\ RepairName[name] = name
\* J1, J2 and so on never run out.
ASSUME ConnectorsAssumption ==
  /\ Connectors \in Seq(Elements(Connectors))
  /\ \A i, j \in DOMAIN Connectors : Connectors[i] = Connectors[j] => i = j
  /\ \A d \in Designs : Len(d.comps) + Len(d.nets) <= Len(Connectors)
ASSUME TablesAssumption ==
  /\ Rules \in Seq(Elements(Rules)) /\ Boards \in Seq(Elements(Boards))
  /\ \A i \in DOMAIN Rules : Rules[i].parts \in Seq(Elements(Rules[i].parts)) /\ Rules[i].nets \in Seq(STRING)
  /\ \A i \in DOMAIN Boards : Boards[i].parts \in Seq(Elements(Boards[i].parts))

VARIABLES
  design,    \* [comps, pins, nets, conns, required]
  draftPlan, \* the plan, <<>> before there is one
  repairs,   \* history: whether each call of the repair tool changed the plan
  sheet      \* history: what the apply drew and reported, <<>> before it

wiringVars == <<design, draftPlan, repairs, sheet>>

\* A record with one field more.
With(r, field, value) == [f \in DOMAIN r \cup {field} |-> IF f = field THEN value ELSE r[f]]
\* Adds to a list what it lacks.
AddNew(list, items) == FoldLeft(LAMBDA l, x : IF x \in Elements(l) THEN l ELSE Append(l, x), list, items)

----------------------------------------------------------------------------
\* draftSpecToPlan.

NodesOfFirst(d, name) == \* (seeded bug: the later connections of a name are dropped)
  LET k == First(d.conns, LAMBDA c : SpecName[c.net] = name) IN IF k = 0 THEN <<>> ELSE d.conns[k].pins
\* Connections of one name are merged; the first list is taken as it is.
NodesOf(d, name) ==
  LET k == First(d.conns, LAMBDA c : SpecName[c.net] = name)
  IN IF k = 0 THEN <<>>
     ELSE FoldLeft(LAMBDA l, c : IF SpecName[c.net] = name THEN AddNew(l, c.pins) ELSE l, d.conns[k].pins, d.conns)

NetOfPinAsWritten(d, p) == \* (seeded bug: the name as the design writes it)
  LET k == First(d.conns, LAMBDA c : p \in Elements(c.pins)) IN IF k = 0 THEN NoNet ELSE d.conns[k].net
\* A pin is told the net of the first connection that lists it.
NetOfPin(d, p) ==
  LET k == First(d.conns, LAMBDA c : p \in Elements(c.pins)) IN IF k = 0 THEN NoNet ELSE SpecName[d.conns[k].net]

ExpectedAsWritten(d) == \* (seeded bug: the name as the design writes it)
  {[comp |-> x.pin.comp, name |-> PropertyName[x.pin.name], net |-> d.conns[x.by].net] :
     x \in {y \in [pin : Elements(d.pins), by : DOMAIN d.conns] : y.pin.id \in Elements(d.conns[y.by].pins)}}
\* toExpectedNetProperties: of the connections that list a pin, or one of its
\* component with that name, the last wins.
ExpectedNets(d) ==
  LET alike(p, q) == p.comp = q.comp /\ PropertyName[p.name] = PropertyName[q.name]
      lists(k, pin) == \E q \in Elements(d.pins) : alike(pin, q) /\ q.id \in Elements(d.conns[k].pins)
      last(k, pin) == lists(k, pin) /\ \A j \in DOMAIN d.conns : lists(j, pin) => j <= k
  IN {[comp |-> x.pin.comp, name |-> PropertyName[x.pin.name], net |-> SpecName[d.conns[x.by].net]] :
        x \in {y \in [pin : Elements(d.pins), by : DOMAIN d.conns] : last(y.by, y.pin)}}

PlanOf(d) ==
  [comps |-> d.comps, expected |-> ExpectedNets(d),
   pins |-> [i \in DOMAIN d.pins |-> With(d.pins[i], "net", NetOfPin(d, d.pins[i].id))],
   nets |-> [i \in DOMAIN d.nets |->
               With([d.nets[i] EXCEPT !.name = SpecName[@]], "nodes", NodesOf(d, SpecName[d.nets[i].name]))],
   required |-> d.required]

----------------------------------------------------------------------------
\* repairDraftPlanPowerConnectivity.

\* The pin with a label, of the first component with a reference.
PinOf(plan, end) ==
  LET c == First(plan.comps, LAMBDA x : x.ref = end.ref)
  IN IF c = 0 THEN 0 ELSE First(plan.pins, LAMBDA p : p.comp = plan.comps[c].id /\ end.label \in p.labels)

\* backfillRequiredConnections: both pins are put on the net, and stay on the
\* nets they were on.
Backfill(plan, r) ==
  LET f == PinOf(plan, r.from)
      t == PinOf(plan, r.to)
      n == First(plan.nets, LAMBDA x : RepairName[x.name] = RepairName[r.net])
  IN IF 0 \in {f, t, n} THEN plan
     ELSE [plan EXCEPT !.nets[n].nodes = AddNew(@, <<plan.pins[f].id, plan.pins[t].id>>),
                       !.pins[f].net = plan.nets[n].name, !.pins[t].net = plan.nets[n].name]
BackfillRequired(plan) ==
  FoldLeft(LAMBDA a, r : [plan |-> Backfill(a.plan, r), changed |-> a.changed \/ Backfill(a.plan, r) # a.plan],
           [plan |-> plan, changed |-> FALSE], plan.required)

IsGround(net) == RepairName[net.name] = "GND"
IsSource(plan, p) == \E i \in DOMAIN plan.pins : plan.pins[i].id = p /\ plan.pins[i].source
Orphan(plan, net) ==
  /\ net.power /\ ~IsGround(net) /\ Len(net.nodes) < 2
  /\ \A p \in Elements(net.nodes) : ~IsSource(plan, p)

\* A power header: its first pin feeds the net, its second one is ground.
Header(ref) == "repair " \o ref
HeaderPin(ref, no) == Header(ref) \o "." \o no
\* What is added has ids of its own.
ASSUME NewIdsAssumption == \A d \in Designs : \A i \in DOMAIN d.pins :
  /\ \A r \in Elements(Connectors) : d.pins[i].id \notin {HeaderPin(r, "1"), HeaderPin(r, "2")} /\ d.pins[i].comp # Header(r)
  /\ \A k \in DOMAIN Boards : \A part \in Elements(Boards[k].parts) : d.pins[i].id # part.id \o ".1"

\* inferNextConnectorRef: the first one that no component has.
NextConnector(plan) == Connectors[First(Connectors, LAMBDA j : \A i \in DOMAIN plan.comps : plan.comps[i].ref # j)]
AddHeader(plan, net, ground) ==
  LET ref == NextConnector(plan)
      n == First(plan.nets, LAMBDA x : x.id = net.id)
      name == RepairName[net.name]
      pin(no, on) == [id |-> HeaderPin(ref, no), comp |-> Header(ref), name |-> on, labels |-> {no, on}, source |-> TRUE, net |-> on]
  IN [plan EXCEPT
        !.comps = Append(@, [NoPart EXCEPT !.id = Header(ref), !.ref = ref, !.by = "repair"]),
        !.expected = @ \cup {[comp |-> Header(ref), name |-> "1", net |-> name],
                                [comp |-> Header(ref), name |-> "2", net |-> "GND"]},
        !.pins = @ \o <<pin("1", name), pin("2", "GND")>>,
        !.nets = [i \in DOMAIN plan.nets |-> [plan.nets[i] EXCEPT !.nodes =
                    @ \o (IF i = n THEN <<HeaderPin(ref, "1")>> ELSE <<>>)
                      \o (IF i = ground THEN <<HeaderPin(ref, "2")>> ELSE <<>>)]]]

RepairFirstOrphan(plan) == \* (seeded bug: one header at most)
  LET filled == BackfillRequired(plan)
      ground == First(plan.nets, IsGround)
      orphan == First(filled.plan.nets, LAMBDA n : Orphan(filled.plan, n))
  IN IF 0 \in {ground, orphan} THEN filled
     ELSE [plan |-> AddHeader(filled.plan, filled.plan.nets[orphan], ground), changed |-> TRUE]
\* Without a ground net there is nothing to return to, and no header.
Repair(plan) ==
  LET filled == BackfillRequired(plan)
      ground == First(plan.nets, IsGround)
      feed(p, n) == IF Orphan(filled.plan, n) THEN AddHeader(p, n, ground) ELSE p
  IN IF 0 \in {ground, First(filled.plan.nets, LAMBDA n : Orphan(filled.plan, n))} THEN filled
     ELSE [plan |-> FoldLeft(feed, filled.plan, filled.plan.nets), changed |-> TRUE]

----------------------------------------------------------------------------
\* applyTypedSchematicPlan: the nets, once the components are placed.

NotFound(net, placed) == Elements(net.nodes) \ placed
\* A net is drawn if all of its pins were found; a list of two needs no two
\* pins.
Drawable(net, placed) == NotFound(net, placed) = {} /\ Len(net.nodes) >= 2

\* collectSkippedRequiredConnections: a reference stands for the last component
\* that has it, and a net is found by its very name.
LastPinOf(plan, end) ==
  LET having == {i \in DOMAIN plan.comps : plan.comps[i].ref = end.ref}
      c == CHOOSE i \in having : \A j \in having : j <= i
  IN IF having = {} THEN 0 ELSE First(plan.pins, LAMBDA p : p.comp = plan.comps[c].id /\ end.label \in p.labels)
MetBy(plan, placed, r) ==
  LET f == LastPinOf(plan, r.from)
      t == LastPinOf(plan, r.to)
      n == First(plan.nets, LAMBDA x : x.name = r.net)
      ends == {plan.pins[f].id, plan.pins[t].id}
  IN 0 \notin {f, t, n} /\ ends \subseteq Elements(plan.nets[n].nodes) /\ ends \subseteq placed

Sheet(plan, placed, refused) ==
  [plan |-> plan, placed |-> placed, refused |-> refused,
   drawn |-> {i \in DOMAIN plan.nets \ refused : Drawable(plan.nets[i], placed)},
   skipped |-> {i \in DOMAIN plan.nets : NotFound(plan.nets[i], placed) # {}},
   unmet |-> {i \in DOMAIN plan.required : ~MetBy(plan, placed, plan.required[i])}]

----------------------------------------------------------------------------
WiringInit == design \in Designs /\ draftPlan = <<>> /\ repairs = <<>> /\ sheet = <<>>

\* draft_generate_plan with a spec.
GeneratePlan ==
  /\ draftPlan = <<>> /\ draftPlan' = Repair(PlanOf(design)).plan
  /\ UNCHANGED <<design, repairs, sheet>>

\* draft_repair_plan, after an apply that failed.
RepairPlan ==
  /\ draftPlan # <<>> /\ sheet = <<>> /\ Len(repairs) < MaxRepairs
  /\ draftPlan' = Repair(draftPlan).plan /\ repairs' = Append(repairs, Repair(draftPlan).changed)
  /\ UNCHANGED <<design, sheet>>

\* The apply: the pins of the parts that have no device, or that the host did
\* not place, or whose pins did not match, are not found.
ApplyPlan ==
  /\ draftPlan # <<>> /\ sheet = <<>>
  /\ LET plan == Completed(draftPlan)
         pins == {plan.pins[i].id : i \in DOMAIN plan.pins}
     IN \E missing \in SUBSET pins, refused \in SUBSET (DOMAIN plan.nets) :
          /\ Cardinality(missing) + Cardinality(refused) <= MaxTrouble
          /\ sheet' = Sheet(plan, pins \ missing, refused)
  /\ UNCHANGED <<design, draftPlan, repairs>>

WiringNext == GeneratePlan \/ RepairPlan \/ ApplyPlan
WiringSpec == WiringInit /\ [][WiringNext]_wiringVars

----------------------------------------------------------------------------
\* Properties.

\* What the design asks for: a pin is on a net if a connection of that net
\* lists it, or the guidance requires it there.
Listed(d, p) == {SpecName[d.conns[i].net] : i \in {k \in DOMAIN d.conns : p \in Elements(d.conns[k].pins)}}
NetNames(d) == {SpecName[d.nets[i].name] : i \in DOMAIN d.nets}
PinIds(d) == {d.pins[i].id : i \in DOMAIN d.pins}
EndPin(d, end) == LET p == PinOf(d, end) IN IF p = 0 THEN NoNet ELSE d.pins[p].id
RequiredOn(d, p) == {RepairName[d.required[i].net] : i \in {k \in DOMAIN d.required :
                       p \in {EndPin(d, d.required[k].from), EndPin(d, d.required[k].to)}}}
\* The design and the guidance agree: no pin is asked onto two nets.
AtMostOne(nets) == \A m, n \in nets : m = n
Agreed(d) == \A p \in PinIds(d) : AtMostOne(Listed(d, p) \cup RequiredOn(d, p))
\* The checks look nets up by component and name of a pin.  What one finds is
\* its own: pins of a component that share a name share their nets, and no net
\* is named like the number of a header's pin, whose name is that of its net.
ToldApart(d) ==
  /\ \A p, q \in Elements(d.pins) : p.comp = q.comp /\ PropertyName[p.name] = q.name => Listed(d, p.id) \subseteq Listed(d, q.id)
  /\ NetNames(d) \cap {"1", "2"} = {}

\* Where the design and the guidance agree, the repairs and the support parts
\* included never put a pin on two nets, which the wires would short, nor on
\* another net than asked for, and pins and nets agree about it.
NoShort ==
  draftPlan # <<>> /\ Agreed(design) =>
    \A p \in PinIds(design) :
      LET plan == Completed(draftPlan)
          on == {plan.nets[i].name : i \in {k \in DOMAIN plan.nets : p \in Elements(plan.nets[k].nodes)}}
          told == {plan.pins[i].net : i \in {k \in DOMAIN plan.pins : plan.pins[k].id = p}}
      IN /\ on \subseteq Listed(design, p) \cup RequiredOn(design, p)
         /\ on # {} => told = on

\* The rule checks tell what is wrong with the plan of such a design, and only
\* that, where the names tell its pins apart.  They find no pin on another net
\* than it expects, no short and no power conflict; a pin they call floating or
\* missing is on no net; and they do so with every pin on no net that a
\* connection lists under a name they can look up, or that nothing lists in a
\* plan that wires anything.
ChecksTellLoss ==
  draftPlan # <<>> /\ Agreed(design) /\ ToldApart(design) =>
    LET told == MissingNet(draftPlan) \cup FloatingPin(draftPlan)
        wired == {p \in PinIds(design) : ~Unwired(draftPlan, p)}
    IN /\ WrongNet(draftPlan) = {} /\ ShortCircuit(draftPlan) = {} /\ PowerConflict(draftPlan) = {}
       /\ told \cap wired = {}
       /\ \A p \in Elements(design.pins) :
            /\ p.id \notin wired
            /\ IF Listed(design, p.id) = {} THEN wired # {} ELSE PropertyName[p.name] = p.name
            => p.id \in told

\* A plan with a ground net feeds every power net, and a repair settles: a
\* second repair of what one has repaired changes nothing, unless the guidance
\* asks a pin, of a header too, onto two nets.
PowerIsFed ==
  draftPlan # <<>> /\ (\E i \in DOMAIN draftPlan.nets : IsGround(draftPlan.nets[i])) =>
    /\ \A i \in DOMAIN draftPlan.nets : ~Orphan(draftPlan, draftPlan.nets[i])
    /\ (\A p \in PinIds(draftPlan) : AtMostOne(RequiredOn(draftPlan, p))) /\ Len(repairs) >= 2 => ~repairs[Len(repairs)]

\* Nothing is lost silently: two pins that a connection of the design joins, on
\* a net that it lists, or that the guidance requires to be connected, are drawn
\* together, or their net is reported as left out, or the host refused the wire.
LostNothing == sheet # <<>> =>
  LET plan == sheet.plan
      joined(p, q) == \E i \in sheet.drawn \cup sheet.skipped \cup sheet.refused : {p, q} \subseteq Elements(plan.nets[i].nodes)
  IN /\ \A i \in DOMAIN design.conns : SpecName[design.conns[i].net] \in NetNames(design) =>
          \A p, q \in Elements(design.conns[i].pins) : p # q => joined(p, q)
     /\ \A i \in DOMAIN design.required :
          LET p == EndPin(design, design.required[i].from)
              q == EndPin(design, design.required[i].to)
          IN NoNet \notin {p, q} /\ p # q /\ (\E n \in NetNames(design) : RepairName[n] = RepairName[design.required[i].net])
               => joined(p, q)

\* "if at least two endpoints exist, create wire and count it as connected"
\* (docs/superpowers/plans/2026-04-18-partial-wire-apply.md:112).
TwoEndsAreWired == sheet # <<>> =>
  \A i \in DOMAIN sheet.plan.nets :
    Cardinality(Elements(sheet.plan.nets[i].nodes) \cap sheet.placed) >= 2 => i \in sheet.drawn \cup sheet.refused
=============================================================================
