------------------------------ MODULE RuleChecks ------------------------------
(***************************************************************************)
(* The rule checks of a draft plan that concern its wires (validateDraft,  *)
(* the tool rules_validate_draft).  They compare the nets of the plan with *)
(* the nets its components expect, which draftSpecToPlan writes into the   *)
(* properties of a component under the name of the pin.                    *)
(*                                                                         *)
(* The checks of attributes, drivers, unused controller pins, buttons and  *)
(* polarity are left out: no property is about them.                       *)
(***************************************************************************)
EXTENDS DraftCompletion

CONSTANT PropertyName \* PropertyName[n]: a pin's name as a property's name has it

HasPin(net, pin) == pin \in Elements(net.nodes)
Unwired(plan, pin) == \A i \in DOMAIN plan.nets : ~HasPin(plan.nets[i], pin)

\* The checks look up the name of the pin as it is, so that of a pin whose
\* name is rewritten in the property nothing is expected.
Expected(plan, pin) == {e.net : e \in {x \in plan.expected : x.comp = pin.comp /\ x.name = pin.name}}
ExpectedOn(plan, net) == UNION {Expected(plan, p) : p \in {x \in Elements(plan.pins) : HasPin(net, x.id)}}

----------------------------------------------------------------------------
\* runWiringStandardsCheck: a pin that expects a net is on none, or on another
\* one.  A pin on two nets counts for the last.
ActualNet(plan, pin) ==
  LET on == {i \in DOMAIN plan.nets : HasPin(plan.nets[i], pin)}
  IN IF on = {} THEN NoNet ELSE plan.nets[CHOOSE i \in on : \A j \in on : j <= i].name
MissingNet(plan) ==
  {p.id : p \in {x \in Elements(plan.pins) : Expected(plan, x) # {} /\ ActualNet(plan, x.id) = NoNet}}
WrongNet(plan) ==
  {p.id : p \in {x \in Elements(plan.pins) : Expected(plan, x) # {} /\ ActualNet(plan, x.id) \notin {NoNet} \cup Expected(plan, x)}}

\* runFloatingPinsCheck: the lists of the nets are trusted if at least 30 % of
\* what they list are pins of the plan; if not, the net that a pin is told.
Listings(plan) == UNION {{<<i, k>> : k \in DOMAIN plan.nets[i].nodes} : i \in DOMAIN plan.nets}
ListsTrusted(plan) ==
  LET all == Listings(plan)
      known == {x \in all : \E p \in Elements(plan.pins) : p.id = plan.nets[x[1]].nodes[x[2]]}
  IN all # {} /\ 10 * Cardinality(known) >= 3 * Cardinality(all)
FloatingPin(plan) ==
  LET told == {x \in Elements(plan.pins) : x.net # NoNet}
  IN IF ListsTrusted(plan) THEN {p.id : p \in {x \in Elements(plan.pins) : Unwired(plan, x.id)}}
     ELSE IF told = {} THEN {}
     ELSE {p.id : p \in Elements(plan.pins) \ told}

\* runShortCircuitCheck: the pins of a net expect different ones.
ShortCircuit(plan) == {i \in DOMAIN plan.nets : Cardinality(ExpectedOn(plan, plan.nets[i])) >= 2}

\* runPowerConflictCheck: a power net has a pin that expects another one.
PowerConflict(plan) ==
  {i \in DOMAIN plan.nets :
    LET net == plan.nets[i] IN net.power /\ Len(net.nodes) >= 2 /\ ExpectedOn(plan, net) \ {net.name} # {}}
===============================================================================
