-------------------------- MODULE MCPluginSession --------------------------
(***************************************************************************)
(* The two ends of a session in small instances: the flows of one plugin   *)
(* that share the stored pair, and the calls of several devices that work  *)
(* on the server's tables of pairs.  PluginSession has the server's end in *)
(* the two sets access and refreshable, so a behaviour exercises one of    *)
(* them (`end'), and the states of the run are the sum of theirs.          *)
(***************************************************************************)
EXTENDS PluginSession, TokenSessions

VARIABLE end

SessionInit ==
  /\ end \in {"plugin", "server"} /\ Init /\ TokenInit
  /\ end = "server" => stored = None /\ age[1] = "fresh"

PluginTurns == end = "plugin" /\ Next /\ UNCHANGED <<end, tokenVars>>
ServerTurns == end = "server" /\ TokenNext /\ UNCHANGED <<end, vars>>

SessionNext == PluginTurns \/ ServerTurns
SessionSpec ==
  /\ SessionInit /\ [][SessionNext]_<<end, vars, tokenVars>>
  /\ \A f \in Flows : WF_vars(Continue(f))

=============================================================================
