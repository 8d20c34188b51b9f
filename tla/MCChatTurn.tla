----------------------------- MODULE MCChatTurn -----------------------------
(***************************************************************************)
(* Small instances of the turns of the panel, and of what the panel        *)
(* stores.  They share only the settled state, which the turns store as a  *)
(* whole, so a behaviour exercises one of them (`part'): turns that        *)
(* overtake each other, and other operations in the panel they share; one  *)
(* turn with operations and a second panel; or the storage.                *)
(***************************************************************************)
EXTENDS ChatTurn, PanelStore

VARIABLE part

vars == <<part, turnVars, panelVars>>

Init ==
  \/ part \in {"turns", "operations"} /\ TurnInit /\ PanelInit
  \/ part = "store" /\ TurnInit /\ stored = <<<<>>>> /\ PanelInit

Turning ==
  /\ part = "turns" /\ TurnNext /\ (ops' = 0 \/ Len(panels') = 1)
  /\ UNCHANGED <<part, panelVars>>
Operating ==
  /\ part = "operations" /\ TurnNext /\ \A t \in 2..MaxTurns : turn'[t].pc = "unsent"
  /\ UNCHANGED <<part, panelVars>>
Storing == part = "store" /\ PanelNext /\ UNCHANGED <<part, turnVars>>
Next == Turning \/ Operating \/ Storing

Spec == Init /\ [][Next]_vars /\ TurnFairness
=============================================================================
