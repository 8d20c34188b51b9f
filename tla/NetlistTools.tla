---------------------------- MODULE NetlistTools ----------------------------
(***************************************************************************)
(* The path tools of the agent (schematicSummaryTools): what the model is  *)
(* told of how the parts of a sheet hang together.  Two searches run over  *)
(* the context that the host gave: from component to component over shared *)
(* nets (power, signal and control paths), and from net to net through the *)
(* parts that pass power on (the evidence of the connectivity summary).    *)
(* Both are breadth-first with a queue; an action is one turn of the loop. *)
(*                                                                         *)
(* A context is [comps, pins, nets]; of a component there are the kinds    *)
(* that the patterns find in its texts, of a net its name, the role that   *)
(* pickNet finds in it, and whether it is or looks like a power net.       *)
(***************************************************************************)
EXTENDS Naturals, Sequences, FiniteSets, SequencesExt

CONSTANTS
  Contexts,  \* the contexts of this instance
  TraceDepth, \* hops of power and control paths; 4 in the code
  BlockDepth, \* hops within a functional block; 3 in the code
  MaxNets     \* the evidence is given up once more nets were reached; 200 in the code
ASSUME NetlistAssumption == TraceDepth \in Nat /\ BlockDepth \in Nat /\ MaxNets \in Nat
\* The components and the nets of a context are lists.
IsList(s) == Len(s) \in Nat /\ DOMAIN s = 1..Len(s)
ASSUME ContextsAssumption == \A c \in Contexts : IsList(c.comps) /\ IsList(c.nets)

VARIABLES
  sheetContext, \* the context
  asked,        \* what is searched: [over, mode, from, to, depth]
  frontier,     \* the queue: paths, as sequences of components or of nets
  reached,      \* visited, visitedNets
  path          \* the answer: a path, Unknown before there is one

netlistVars == <<sheetContext, asked, frontier, reached, path>>
Unknown == <<0>>

Distinct(s) == FoldLeft(LAMBDA l, x : IF x \in {l[k] : k \in DOMAIN l} THEN l ELSE Append(l, x), <<>>, s)
FirstOf(s, Test(_)) == LET t == SelectSeq(s, Test) IN IF t = <<>> THEN 0 ELSE Head(t)
Indices(s) == [k \in 1..Len(s) |-> k]

----------------------------------------------------------------------------
\* Pins, components and nets; all of them by their index.

PinsByNode(c, n) == SelectSeq(c.nets[n].nodes, LAMBDA p : p \in DOMAIN c.pins)
PinsByName(c, names) == SelectSeq(Indices(c.pins), LAMBDA p : c.pins[p].net \in names)
\* getPinsOnNet: the nodes that are pins; if there are none, the pins that name
\* the net, or else name it with other letter cases.
PinsOnNet(c, n) ==
  LET nodes == Distinct(PinsByNode(c, n))
      named == PinsByName(c, {c.nets[n].name})
      alike == {c.pins[p].net : p \in DOMAIN c.pins}
  IN IF nodes # <<>> THEN nodes
     ELSE IF named # <<>> THEN named
     ELSE PinsByName(c, {x \in alike : x.word = c.nets[n].name.word /\ x.word # ""})
ComponentsOnNet(c, n) == Distinct([k \in DOMAIN PinsOnNet(c, n) |-> c.pins[PinsOnNet(c, n)[k]].comp])

\* isTraversalPairAllowed: one fitting end is enough.  What is said of passive
\* pins holds of bidirectional ones.
Sources == [power |-> {"power_out", "output", "passive"}, signal |-> {"output", "passive", "tri_state"}]
Targets == [power |-> {"power_in", "input", "passive"}, signal |-> {"input", "passive", "tri_state"}]
PairAllowed(s, t, mode) == {s, t} = {"none"} \/ s \in Sources[mode] \/ t \in Targets[mode]
SomePair(c, pins, a, b, mode) ==
  LET of(x) == {p \in pins : c.pins[p].comp = x}
  IN {} \in {of(a), of(b)} \/ \E p \in of(a), q \in of(b) : PairAllowed(c.pins[p].type, c.pins[q].type, mode)

\* buildComponentAdjacency: nets that are given by their nodes only, and always
\* in signal mode; hasCompatibleTraversal then asks any pins of the two.
Adjacent(c, a, b) ==
  a # b /\ \E n \in DOMAIN c.nets :
    LET pins == {PinsByNode(c, n)[k] : k \in DOMAIN PinsByNode(c, n)}
    IN {a, b} \subseteq {c.pins[p].comp : p \in pins} /\ SomePair(c, pins, a, b, "signal")
Neighbours(c, a, mode) ==
  {b \in DOMAIN c.comps : Adjacent(c, a, b) /\ SomePair(c, DOMAIN c.pins, a, b, mode)}

\* A hop of the evidence: through a part that passes power on, to a power net
\* or to the target itself.
OnNet(c, x, n) == \E k \in DOMAIN PinsOnNet(c, n) : c.pins[PinsOnNet(c, n)[k]].comp = x
NextNets(c, n, target) ==
  {m \in DOMAIN c.nets : /\ m = target \/ c.nets[m].power
                         /\ \E x \in DOMAIN c.comps : "transfer" \in c.comps[x] /\ OnNet(c, x, n) /\ OnNet(c, x, m)}

\* pickNet: of the nets that a pattern finds, a power net with the most pins.
Pick(c, role) ==
  LET having == {n \in DOMAIN c.nets : c.nets[n].role = role}
      score(n) == (IF c.nets[n].power THEN 1000 ELSE 0) + Len(PinsOnNet(c, n))
      best == {n \in having : \A m \in having : score(m) <= score(n)}
  IN IF having = {} THEN 0 ELSE Min(best)

----------------------------------------------------------------------------
\* What the tools search.

Ask(over, mode, from, to, depth) == [over |-> over, mode |-> mode, from |-> from, to |-> to, depth |-> depth]
Having(c, kind) == SelectSeq(Indices(c.comps), LAMBDA x : kind \in c.comps[x])
FirstKey(c, n) == FirstOf(ComponentsOnNet(c, n), LAMBDA x : "key" \in c.comps[x])
\* tracePowerPaths: on each power net, from the first component on it to the
\* first key component on it.
PowerAsks(c) ==
  {Ask("components", "power", Head(ComponentsOnNet(c, n)), FirstKey(c, n), TraceDepth) :
     n \in {m \in DOMAIN c.nets : c.nets[m].power /\ \E x \in DOMAIN c.comps : "key" \in c.comps[x] /\ OnNet(c, x, m)}}
\* traceControlPaths: from the first controller to each peripheral.
ControlAsks(c) ==
  LET controllers == Having(c, "controller")
      peripherals == Having(c, "peripheral")
  IN IF controllers = <<>> THEN {}
     ELSE {Ask("components", "signal", controllers[1], t, TraceDepth) :
             t \in {peripherals[k] : k \in DOMAIN peripherals} \ {controllers[1]}}
\* traceBlockPath: between the first two components of a block.
BlockAsks(c) ==
  LET block == Having(c, "block")
  IN IF Len(block) < 2 THEN {} ELSE {Ask("components", "signal", block[1], block[2], BlockDepth)}
\* buildPowerPathEvidenceNotes.
EvidenceAsks(c) ==
  {Ask("nets", "power", Pick(c, r[1]), Pick(c, r[2]), Len(c.nets)) :
     r \in {q \in {<<"5V", "3V3">>, <<"BAT", "5V">>} : 0 \notin {Pick(c, q[1]), Pick(c, q[2])}}}

Hops(c, a, x) == IF a.over = "components" THEN Neighbours(c, x, a.mode) ELSE NextNets(c, x, a.to)

NetlistInit ==
  /\ sheetContext \in Contexts
  /\ asked \in PowerAsks(sheetContext) \cup ControlAsks(sheetContext) \cup BlockAsks(sheetContext) \cup EvidenceAsks(sheetContext)
  /\ frontier = <<<<asked.from>>>> /\ reached = {asked.from} /\ path = Unknown

----------------------------------------------------------------------------
\* The loops of traceComponentPath and findPath.

\* Only the search over nets has this limit, and drops what waits, even a path
\* that has just come to the target.
TooMany(places) == asked.over = "nets" /\ Cardinality(places) > MaxNets

TakeLast == \* (seeded bug: the newest path is taken first)
  /\ path = Unknown /\ frontier # <<>>
  /\ LET here == frontier[Len(frontier)]
         rest == SubSeq(frontier, 1, Len(frontier) - 1)
         at == here[Len(here)]
     IN IF at = asked.to THEN path' = here /\ UNCHANGED <<frontier, reached>>
        ELSE \E new \in SetToSeqs(IF Len(here) > asked.depth THEN {} ELSE Hops(sheetContext, asked, at) \ reached) :
               /\ reached' = reached \cup {new[k] : k \in DOMAIN new} /\ UNCHANGED path
               /\ frontier' = IF TooMany(reached') THEN <<>>
                              ELSE rest \o [k \in DOMAIN new |-> Append(here, new[k])]
  /\ UNCHANGED <<sheetContext, asked>>
\* The oldest path is taken; if it does not end at the target, it is extended,
\* in whatever order the neighbours come, to those nobody reached before.
\* With too many reached, all that waits is dropped.
Take ==
  /\ path = Unknown /\ frontier # <<>>
  /\ LET here == Head(frontier)
         at == here[Len(here)]
     IN IF at = asked.to THEN path' = here /\ UNCHANGED <<frontier, reached>>
        ELSE \E new \in SetToSeqs(IF Len(here) > asked.depth THEN {} ELSE Hops(sheetContext, asked, at) \ reached) :
               /\ reached' = reached \cup {new[k] : k \in DOMAIN new} /\ UNCHANGED path
               /\ frontier' = IF TooMany(reached') THEN <<>>
                              ELSE Tail(frontier) \o [k \in DOMAIN new |-> Append(here, new[k])]
  /\ UNCHANGED <<sheetContext, asked>>

\* Nothing was found: a path of the first component only, or no evidence.
GiveUp ==
  /\ path = Unknown /\ frontier = <<>>
  /\ path' = IF asked.over = "components" THEN <<asked.from>> ELSE <<>>
  /\ UNCHANGED <<sheetContext, asked, frontier, reached>>

NetlistNext == Take \/ GiveUp

----------------------------------------------------------------------------
\* The reference: what can be reached in at most k hops.
Within(c, a) ==
  LET w[k \in 0..a.depth] == IF k = 0 THEN {a.from} ELSE w[k - 1] \cup UNION {Hops(c, a, x) : x \in w[k - 1]}
  IN w

\* What the model is told is so: a path with a hop leads from the start to the
\* target over nets that the components share, or parts that pass power on,
\* and no shorter one does; and a path without one is told only if the target
\* cannot be reached in the hops allowed, or is the start, or the search over
\* nets met more of them within these hops than it takes.
PathsAreTrue == path # Unknown =>
  LET within == Within(sheetContext, asked)
      hops == Len(path) - 1
  IN IF Len(path) > 1
       THEN /\ path[1] = asked.from /\ path[Len(path)] = asked.to
            /\ \A k \in 1..hops : path[k + 1] \in Hops(sheetContext, asked, path[k])
            /\ hops <= asked.depth /\ asked.to \notin within[hops - 1]
       ELSE asked.to = asked.from \/ asked.to \notin within[asked.depth] \/ TooMany(within[asked.depth])
=============================================================================
