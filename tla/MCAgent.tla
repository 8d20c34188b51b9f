------------------------------ MODULE MCAgent ------------------------------
(***************************************************************************)
(* Small instances of one run of the agent, of how it is told and shown,   *)
(* of what its draft tools do with a design, and of its path tools.  The   *)
(* run sees of a draft only that there is one, of a path only text, and of *)
(* its reports nothing, so a behaviour exercises one of them (`part'), and *)
(* the states are the sum of theirs instead of their product.              *)
(***************************************************************************)
EXTENDS ReactLoop, TurnStream, MCDraftWiring, MCNetlistTools

VARIABLE part

vars == <<part, agentVars, streamVars, wiringVars, netlistVars>>

\* A part that rests stays as it begins, with the least of what it may begin with.
AgentRests == task = [kind |-> "chat", intent |-> "none", adapter |-> FALSE, context |-> FALSE] /\ plan = None /\ AgentInit
StreamRests == StreamInit /\ ~due /\ screen.source = Source(<<>>)
WiringRests == design = NoDesign /\ WiringInit
NetlistRests == sheetContext = NoSheet /\ NetlistInit
Init ==
  \/ part = "agent" /\ AgentInit /\ StreamRests /\ WiringRests /\ NetlistRests
  \/ part = "stream" /\ AgentRests /\ StreamInit /\ WiringRests /\ NetlistRests
  \/ part = "wiring" /\ AgentRests /\ StreamRests /\ WiringInit /\ NetlistRests
  \/ part = "netlist" /\ AgentRests /\ StreamRests /\ WiringRests /\ NetlistInit

AgentTurns == part = "agent" /\ AgentNext /\ UNCHANGED <<part, streamVars, wiringVars, netlistVars>>
StreamTurns == part = "stream" /\ StreamNext /\ UNCHANGED <<part, agentVars, wiringVars, netlistVars>>
WiringTurns == part = "wiring" /\ WiringNext /\ UNCHANGED <<part, agentVars, streamVars, netlistVars>>
NetlistTurns == part = "netlist" /\ NetlistNext /\ UNCHANGED <<part, agentVars, streamVars, wiringVars>>
Next == AgentTurns \/ StreamTurns \/ WiringTurns \/ NetlistTurns

Spec == Init /\ [][Next]_vars /\ AgentFairness
=============================================================================
