------------------------------ MODULE MCServer ------------------------------
(***************************************************************************)
(* Small instances of the server's parts that keep a state of their own:   *)
(* the login, the credits, the relay of the model's replies, the knowledge *)
(* base and the search in it.  None reads what another one writes, so a    *)
(* behaviour exercises one of them (`part'), and the states of the run are *)
(* the sum of theirs instead of their product.                             *)
(***************************************************************************)
EXTENDS LoginFlow, CreditsLedger, ModelRelay, KnowledgeStore, RagSearch

CONSTANTS
  s1, s2, \* logins
  d1, d2, d3, b0, h0 \* documents: of the store, built-in, heuristic

VARIABLE part

vars == <<part, loginVars, ledgerVars, relayVars, storeVars, ragVars>>

Init ==
  /\ part \in {"login", "ledger", "relay", "store", "rag"}
  /\ LoginInit /\ LedgerInit /\ RelayInit /\ StoreInit /\ RagInit
  /\ part # "login" => users = {}
  /\ part # "ledger" => balance = NoAccount
  /\ part # "relay" => direct /\ streaming /\ fallback

\* The two logins are alike; s1 is the one that polls first.
LoginTurns == part = "login" /\ LoginNext /\ (active = Nobody => active' # s2)
  /\ UNCHANGED <<part, ledgerVars, relayVars, storeVars, ragVars>>
LedgerTurns == part = "ledger" /\ LedgerNext
  /\ UNCHANGED <<part, loginVars, relayVars, storeVars, ragVars>>
RelayTurns == part = "relay" /\ RelayNext
  /\ UNCHANGED <<part, loginVars, ledgerVars, storeVars, ragVars>>
StoreTurns == part = "store" /\ StoreNext
  /\ UNCHANGED <<part, loginVars, ledgerVars, relayVars, ragVars>>
RagTurns == part = "rag" /\ RagNext
  /\ UNCHANGED <<part, loginVars, ledgerVars, relayVars, storeVars>>

Next == LoginTurns \/ LedgerTurns \/ RelayTurns \/ StoreTurns \/ RagTurns

Spec == Init /\ [][Next]_vars /\ LoginFairness


----------------------------------------------------------------------------
\* The instance of the search: documents about a reset circuit, two devices
\* and a bus, and queries whose best document is not the closest one.
Asked == { {}, {"i2c", "resistor", "gpio"}, {"reset", "device"}, {"combo", "principle", "emi"} }
Fallbacks == <<b0>>
FeaturesOf == [d \in {d1, d2, d3, b0, h0} |->
  CASE d = d1 -> {"chain", "combo", "reset", "resetChain", "tokenFallback"}
    [] d = d2 -> {"bootReset", "device", "gpio", "pull", "tagReset", "tagBias"}
    [] d = d3 -> {"official", "emi", "otherDevice"}
    [] d = h0 -> {"chain", "i2c", "i2cChain", "4k7", "tagBias", "realChains"}
    [] OTHER -> {}]
SimilarityOf == [d \in {d1, d2, d3, b0, h0} |->
  CASE d = d1 -> 70 [] d = d2 -> 80 [] d = d3 -> 75 [] d = h0 -> 92 [] OTHER -> 93]
QualityOf == [d \in {d1, d2, d3, b0, h0} |-> IF d = h0 THEN 86 ELSE Unrated]
TemplatesOf == [d \in {d1, d2, d3, b0, h0} |->
  CASE d \in {d1, d2} -> {"reset"} [] d = h0 -> {"i2c"} [] OTHER -> {}]
=============================================================================
