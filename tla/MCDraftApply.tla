---------------------------- MODULE MCDraftApply ----------------------------
(***************************************************************************)
(* Small instances of a draft's two halves: the devices it gets, and its   *)
(* way into the schematic and back.  DraftApply keeps of the devices only  *)
(* which drafts wait for them, so a behaviour exercises one of the two     *)
(* (`half'), and the states of the run are the sum of theirs.              *)
(***************************************************************************)
EXTENDS DraftApply, DraftDevices

CONSTANTS d1, d2

VARIABLE half

DraftInit ==
  /\ half \in {"devices", "apply"}
  /\ Init /\ DevicesInit
  /\ half = "devices" => pages = <<{}>>
DraftNext ==
  \/ half = "apply" /\ Next /\ UNCHANGED <<half, devVars>>
  \/ half = "devices" /\ DevicesNext /\ UNCHANGED <<half, vars>>
DraftSpec ==
  /\ DraftInit /\ [][DraftNext]_<<half, vars, devVars>>
  /\ \A o \in Ops : WF_vars(Proceed(o))

----------------------------------------------------------------------------
\* Each net joins all components.
OnAllParts == [n \in Nets |-> Parts]

\* Both pins of a draft fit the first pin of d1 best; only one fits d2's first.
Fit == [d \in {d1, d2} |-> IF d = d1 THEN <<<<100, 60>>, <<100, 60>>>> ELSE <<<<0, 60>>, <<90, 60>>>>]
\* One device may lack a detail, the other one has one, but maybe without pins.
Detail == [d \in {d1, d2} |-> IF d = d1 THEN {"none", "read"} ELSE {"bare", "read"}]
Found == {<<>>, <<d2>>}
=============================================================================
