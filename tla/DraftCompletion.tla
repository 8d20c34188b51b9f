--------------------------- MODULE DraftCompletion ---------------------------
(***************************************************************************)
(* The support parts that normalizeDraftPlan adds to a plan: first the     *)
(* rules' (completeDraftPlanPeripherals), then those of the reference      *)
(* boards with the same main device (applyDevboardRagCompletion).  A plan  *)
(* may be completed more than once: when it is made from a prompt, and     *)
(* again by each preview and apply.                                        *)
(*                                                                         *)
(* A plan is [comps, pins, nets, required]; text is reduced to the words   *)
(* that the rules look for.                                                *)
(***************************************************************************)
EXTENDS Naturals, Sequences, FiniteSets, SequencesExt

CONSTANTS
  Rules,   \* COMPLETION_TEMPLATES: [word, parts, nets], in order
  Boards,  \* the reference boards: [model, parts], best first
  Models,  \* the devices that detectAnchorModel looks for, in order
  RoleName \* RoleName[r]: a role as canonicalizeCompletionRole writes it

Elements(list) == {list[i] : i \in DOMAIN list}
\* The first index that passes a test, 0 if none does.
First(list, Test(_)) ==
  LET hits == {i \in DOMAIN list : Test(list[i])}
  IN IF hits = {} THEN 0 ELSE CHOOSE i \in hits : \A j \in hits : i <= j

NoNet == "none"
\* A component: the words of its texts, the roles that it stands for whatever
\* its own one is (a capacitor C<n> for decoupling, a resistor R<n> of 10k for
\* a pull-up), who added it, its value ("" for none or a text that is compared
\* as it is), and the net a reference board attaches it to.
NoPart == [id |-> "", ref |-> "", words |-> {}, stands |-> {}, role |-> "", value |-> "", net |-> NoNet, by |-> "draft"]

WordsOf(list) == UNION {list[i].words : i \in DOMAIN list}
HasNet(plan, name) == \E i \in DOMAIN plan.nets : plan.nets[i].name = name
EnsureNet(plan, name) ==
  IF HasNet(plan, name) THEN plan
  ELSE [plan EXCEPT !.nets = Append(@, [id |-> "added " \o name, name |-> name, words |-> {},
                                        power |-> name \in {"GND", "VBUS", "VBAT", "3V3", "5V"}, nodes |-> <<>>])]

----------------------------------------------------------------------------
\* completeDraftPlanPeripherals.

\* hasEquivalentComponent: one with the reference, with the role, or that
\* stands for it.
RuleCovered(plan, part) == \E i \in DOMAIN plan.comps :
  LET c == plan.comps[i] IN c.ref = part.ref \/ c.role = part.role \/ c.stands \cap part.kinds # {}
AddRulePart(plan, part) ==
  IF RuleCovered(plan, part) THEN plan
  ELSE [plan EXCEPT !.comps = Append(@, [NoPart EXCEPT !.id = "rule " \o part.role, !.ref = part.ref, !.words = part.words,
                                           !.stands = part.stands, !.role = part.role, !.value = part.value, !.by = "rule"])]
AddRule(plan, rule) == FoldLeft(EnsureNet, FoldLeft(AddRulePart, plan, rule.parts), rule.nets)
\* The rules that the plan calls for when it comes; what they add may call for
\* others the next time.
CompletedByRules(plan) ==
  LET words == WordsOf(plan.comps) \cup WordsOf(plan.nets)
  IN FoldLeft(LAMBDA p, r : IF r.word \in words THEN AddRule(p, r) ELSE p, plan, Rules)

----------------------------------------------------------------------------
\* applyDevboardRagCompletion.

\* areEquivalentValues, for values in one writing.
SameValue(a, b) == a = b \/ "" \in {a, b}
\* hasEquivalentSupportPart: only parts that were added count.
RagCovered(plan, part) == \E i \in DOMAIN plan.comps :
  LET c == plan.comps[i]
  IN c.by \in {"rule", "rag"} /\ RoleName[c.role] = RoleName[part.role] /\ SameValue(c.value, part.value)
Attach(plan, part) ==
  LET wide == EnsureNet(plan, part.net)
      n == First(wide.nets, LAMBDA x : x.name = part.net)
  IN IF part.net = NoNet THEN plan
     ELSE [wide EXCEPT !.pins = Append(@, [id |-> part.id \o ".1", comp |-> part.id, labels |-> {"1", part.net},
                                           source |-> FALSE, net |-> part.net]),
                       !.nets[n].nodes = Append(@, part.id \o ".1")]
AddBoardPart(plan, part) ==
  IF RagCovered(plan, part) THEN plan
  ELSE Attach([plan EXCEPT !.comps = Append(@, [NoPart EXCEPT !.id = part.id, !.ref = part.ref, !.words = part.words,
                                                  !.role = part.role, !.value = part.value, !.by = "rag"])], part)
\* detectAnchorModel: boards of the same model are used, others at most named.
Anchor(plan) ==
  LET m == First(Models, LAMBDA x : x \in WordsOf(plan.comps)) IN IF m = 0 THEN "" ELSE Models[m]
CompletedByBoards(plan) ==
  FoldLeft(LAMBDA p, b : IF b.model = Anchor(plan) THEN FoldLeft(AddBoardPart, p, b.parts) ELSE p, plan, Boards)

Completed(plan) == CompletedByBoards(CompletedByRules(plan))

=============================================================================
