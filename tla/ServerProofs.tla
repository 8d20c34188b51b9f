----------------------------- MODULE ServerProofs -----------------------------
(***************************************************************************)
(* The parts of the server that keep a state of their own.  No login is    *)
(* lost, for any number of logins, requests of the login page, codes,      *)
(* confirmations, failing stores and expiring copies; the ledger explains  *)
(* the balance, and what is answered is charged, for any number of         *)
(* requests and any costs; a hash that is kept stands for the chunks       *)
(* that are kept, for any number of concurrent imports and reindexings; a  *)
(* reply arrives whole, for any number of chunks, calls and events; and a  *)
(* search keeps the best of what it found, for any documents and scores.   *)
(***************************************************************************)
EXTENDS LoginFlow, CreditsLedger, KnowledgeStore, ModelRelay, RagSearch, FiniteSetTheorems, SequenceTheorems, TLAPS

Entry == [request : Requests, amount : Nat, after : Int]
Charged == {"answered", "lost"}

----------------------------------------------------------------------------
\* The inductive invariant.

\* Types; an account opens between two entries, and one that nobody opened yet
\* was never charged.
LedgerTypes ==
  /\ balance \in Int /\ entries \in Seq(Entry)
  /\ openings \subseteq 0..Len(entries)
  /\ logs \in [Requests -> SUBSET Nat]
  /\ request \in [Requests \cup Viewers -> [pc : RequestSteps, cost : Nat, seen : Int]]
Unopened == balance = NoAccount => entries = <<>>

\* The entry before n, if no account was opened since; the balance is what the
\* last one left.
Chained ==
  /\ \A n \in 1..Len(entries) :
       entries[n].after >= 0 /\ entries[n].after + entries[n].amount = Before(n)
  /\ balance \in {NoAccount, Before(Len(entries) + 1)}
LedgerInv == LedgerTypes /\ Unopened /\ Chained

\* A request has at most one entry, with its cost, and has one if and only if
\* it is charged.  What is logged of one that may still be charged is its cost.
OneEntry == \A i, j \in 1..Len(entries) : entries[i].request = entries[j].request => i = j
EntryIsCost == \A i \in 1..Len(entries) :
  /\ entries[i].amount = request[entries[i].request].cost
  /\ request[entries[i].request].pc \in Charged
ChargedHasEntry == \A r \in Requests :
  request[r].pc \in Charged => \E i \in 1..Len(entries) : entries[i].request = r
Logged(r) ==
  request[r].pc \in {"find", "open", "compare", "consume", "lost", "answered"} => logs[r] \subseteq {request[r].cost}
LoggedIsCost == \A r \in Requests : Logged(r)
ChargeInv == LedgerTypes /\ OneEntry /\ EntryIsCost /\ ChargedHasEntry /\ LoggedIsCost

----------------------------------------------------------------------------
\* Types.

\* A cost is a number.
LEMMA CostType == ASSUME NEW tokens \in Nat PROVE EstimateCredits(tokens) \in Nat
BY DEF EstimateCredits

LEMMA StepType ==
  ASSUME LedgerTypes, NEW r \in Requests \cup Viewers, NEW pc \in RequestSteps, Step(r, pc)
  PROVE  request' \in [Requests \cup Viewers -> [pc : RequestSteps, cost : Nat, seen : Int]]
BY DEF LedgerTypes, Step

\* A charge adds an entry at the end.
LEMMA ConsumeCases ==
  ASSUME LedgerTypes, LedgerAssumption, NEW r \in Requests, Consume(r)
  PROVE  \/ Step(r, "refused") /\ UNCHANGED <<balance, entries>>
         \/ \E current \in {balance, Initial}, pc \in Charged :
              /\ current = IF balance = NoAccount THEN Initial ELSE balance
              /\ current - request[r].cost >= 0
              /\ balance' = current - request[r].cost
              /\ entries' = Append(entries, [request |-> r, amount |-> request[r].cost, after |-> balance'])
              /\ request' = [request EXCEPT ![r].pc = pc]
<1> DEFINE current == IF balance = NoAccount THEN Initial ELSE balance
<1>1. current \in Int /\ request[r].cost \in Nat
  BY DEF LedgerTypes, LedgerAssumption
<1>2. CASE current - request[r].cost < 0
  BY <1>2 DEF Consume
<1>3. CASE ~(current - request[r].cost < 0)
  BY <1>1, <1>3 DEF Consume, Charged
<1> QED BY <1>2, <1>3

LEMMA TypesHold == ASSUME LedgerTypes, [LedgerNext]_ledgerVars, LedgerAssumption PROVE LedgerTypes'
<1>1. CASE UNCHANGED ledgerVars
  BY <1>1 DEF LedgerTypes, ledgerVars
<1>2. ASSUME NEW r \in Requests \cup Viewers, RequestStep(r) PROVE LedgerTypes'
  <2>1. CASE Receive(r)
    BY <2>1, StepType DEF Receive, LedgerTypes, RequestSteps
  <2>2. CASE FindBalance(r)
    <3>1. UNCHANGED <<balance, entries, logs, openings>>
      BY <2>2 DEF FindBalance
    <3>2. CASE Step(r, "open")
      BY <3>1, <3>2, StepType DEF LedgerTypes, RequestSteps
    <3>3. CASE request' = [request EXCEPT ![r].pc = "compare", ![r].seen = balance]
      BY <3>1, <3>3 DEF LedgerTypes, RequestSteps
    <3> QED BY <2>2, <3>2, <3>3 DEF FindBalance
  <2>3. CASE OpenAccount(r)
    <3>1. Len(entries) \in Nat
      BY DEF LedgerTypes
    <3> QED BY <2>3, <3>1 DEF OpenAccount, LedgerTypes, RequestSteps, LedgerAssumption
  <2>4. CASE OpenFails(r)
    BY <2>4, StepType DEF OpenFails, LedgerTypes, RequestSteps
  <2>5. CASE Compare(r)
    BY <2>5, StepType DEF Compare, LedgerTypes, RequestSteps
  <2>6. CASE r \in Requests /\ ProviderAnswers(r)
    <3>1. PICK tokens \in TokenCounts, written \in BOOLEAN :
            /\ request' = [request EXCEPT ![r].pc = "find", ![r].cost = EstimateCredits(tokens)]
            /\ logs' = [logs EXCEPT ![r] = IF written THEN {EstimateCredits(tokens)} ELSE {}]
      BY <2>6 DEF ProviderAnswers
    <3>2. EstimateCredits(tokens) \in Nat
      BY CostType DEF LedgerAssumption
    <3>3. logs' \in [Requests -> SUBSET Nat]
      <4>1. (IF written THEN {EstimateCredits(tokens)} ELSE {}) \in SUBSET Nat
        BY <3>2
      <4> QED BY <2>6, <3>1, <4>1 DEF LedgerTypes
    <3>4. request' \in [Requests \cup Viewers -> [pc : RequestSteps, cost : Nat, seen : Int]]
      BY <3>1, <3>2 DEF LedgerTypes, RequestSteps
    <3> QED BY <2>6, <3>3, <3>4 DEF ProviderAnswers, LedgerTypes
  <2>7. CASE r \in Requests /\ ProviderFails(r)
    <3>1. request' \in [Requests \cup Viewers -> [pc : RequestSteps, cost : Nat, seen : Int]]
      BY <2>7, StepType DEF ProviderFails, RequestSteps
    <3>2. logs' \in [Requests -> SUBSET Nat]
      <4>1. PICK written \in BOOLEAN : logs' = [logs EXCEPT ![r] = IF written THEN {0} ELSE {}]
        BY <2>7 DEF ProviderFails
      <4>2. (IF written THEN {0} ELSE {}) \in SUBSET Nat
        OBVIOUS
      <4> QED BY <2>7, <4>1, <4>2 DEF LedgerTypes
    <3> QED BY <2>7, <3>1, <3>2 DEF ProviderFails, LedgerTypes
  <2>8. CASE r \in Requests /\ Consume(r)
    <3>1. CASE Step(r, "refused") /\ UNCHANGED <<balance, entries>>
      BY <2>8, <3>1, StepType DEF Consume, LedgerTypes, RequestSteps
    <3>2. CASE ~(Step(r, "refused") /\ UNCHANGED <<balance, entries>>)
      <4>1. PICK current \in {balance, Initial}, pc \in Charged :
              /\ balance' = current - request[r].cost
              /\ entries' = Append(entries, [request |-> r, amount |-> request[r].cost, after |-> balance'])
              /\ request' = [request EXCEPT ![r].pc = pc]
        BY <2>8, <3>2, ConsumeCases
      <4>2. balance' \in Int
        BY <4>1 DEF LedgerTypes, LedgerAssumption
      <4>3. entries' \in Seq(Entry) /\ Len(entries') = Len(entries) + 1
        BY <2>8, <4>1, <4>2 DEF LedgerTypes, Entry
      <4>4. openings' \subseteq 0..Len(entries')
        BY <2>8, <4>3 DEF Consume, LedgerTypes
      <4>5. request' \in [Requests \cup Viewers -> [pc : RequestSteps, cost : Nat, seen : Int]]
        BY <2>8, <4>1 DEF LedgerTypes, Charged, RequestSteps
      <4> QED BY <2>8, <4>2, <4>3, <4>4, <4>5 DEF Consume, LedgerTypes
    <3> QED BY <3>1, <3>2
  <2>9. CASE r \in Requests /\ ConsumeFails(r)
    BY <2>9, StepType DEF ConsumeFails, LedgerTypes, RequestSteps
  <2> QED BY <1>2, <2>1, <2>2, <2>3, <2>4, <2>5, <2>6, <2>7, <2>8, <2>9 DEF RequestStep
<1> QED BY <1>1, <1>2 DEF LedgerNext

----------------------------------------------------------------------------
\* The chain.

\* Steps that leave account, entries and openings alone.
LedgerStays == UNCHANGED <<balance, entries, openings>>

LEMMA LedgerSteps ==
  ASSUME [LedgerNext]_ledgerVars
  PROVE  \/ LedgerStays
         \/ \E r \in Requests \cup Viewers : OpenAccount(r)
         \/ \E r \in Requests : Consume(r)
BY DEF LedgerNext, RequestStep, ledgerVars, LedgerStays, Receive, ProviderAnswers, ProviderFails,
       FindBalance, OpenFails, Compare, ConsumeFails

LEMMA ChainHolds == ASSUME LedgerInv, [LedgerNext]_ledgerVars, LedgerAssumption PROVE LedgerInv'
<1>0. LedgerTypes /\ LedgerTypes'
  BY TypesHold DEF LedgerInv
<1>1. CASE LedgerStays
  BY <1>0, <1>1 DEF LedgerInv, LedgerStays, Unopened, Chained, Before
<1>2. ASSUME NEW r \in Requests \cup Viewers, OpenAccount(r) PROVE LedgerInv'
  <2>1. balance' = Initial /\ entries' = entries /\ openings' = openings \cup {Len(entries)}
    BY <1>2 DEF OpenAccount
  <2>2. Initial # NoAccount
    BY DEF LedgerAssumption, NoAccount
  <2>3. ASSUME NEW n \in 1..Len(entries) PROVE Before(n)' = Before(n)
    <3>1. n - 1 # Len(entries)
      BY <1>0 DEF LedgerTypes
    <3> QED BY <2>1, <3>1 DEF Before
  <2>4. Before(Len(entries) + 1)' = Initial
    BY <1>0, <2>1 DEF Before, LedgerTypes
  <2>5. Chained'
    <3>1. \A n \in 1..Len(entries)' :
            entries'[n].after >= 0 /\ entries'[n].after + entries'[n].amount = Before(n)'
      BY <2>1, <2>3 DEF LedgerInv, Chained
    <3> QED BY <2>1, <2>4, <3>1 DEF Chained
  <2> QED BY <1>0, <2>1, <2>2, <2>5 DEF LedgerInv, Unopened
<1>3. ASSUME NEW r \in Requests, Consume(r) PROVE LedgerInv'
  <2>1. CASE Step(r, "refused") /\ UNCHANGED <<balance, entries>>
    BY <1>0, <1>1, <1>3, <2>1 DEF Consume, LedgerStays
  <2>2. CASE ~(Step(r, "refused") /\ UNCHANGED <<balance, entries>>)
    <3> DEFINE current == IF balance = NoAccount THEN Initial ELSE balance
               last == Len(entries) + 1
    <3>1. /\ current - request[r].cost >= 0
          /\ balance' = current - request[r].cost
          /\ entries' = Append(entries, [request |-> r, amount |-> request[r].cost, after |-> balance'])
      BY <1>0, <1>3, <2>2, ConsumeCases
    <3>2. current = Before(last)
      BY <1>0 DEF LedgerInv, Unopened, Chained, Before, LedgerTypes
    <3>3. openings' = openings /\ last \notin openings /\ last \in Nat
      BY <1>0, <1>3 DEF Consume, LedgerTypes
    <3>4. /\ Len(entries') = last
          /\ entries'[last] = [request |-> r, amount |-> request[r].cost, after |-> balance']
          /\ \A n \in 1..Len(entries) : entries'[n] = entries[n]
      BY <1>0, <3>1 DEF LedgerTypes
    <3>5. ASSUME NEW n \in 1..last PROVE Before(n)' = Before(n)
      <4>1. n = 1 \/ n - 1 \in 1..Len(entries)
        BY <1>0 DEF LedgerTypes
      <4> QED BY <3>3, <3>4, <4>1 DEF Before
    <3>6. ASSUME NEW n \in 1..last
          PROVE  entries'[n].after >= 0 /\ entries'[n].after + entries'[n].amount = Before(n)'
      <4>1. CASE n = last
        <5>1. current \in Int /\ request[r].cost \in Nat
          BY <1>0 DEF LedgerTypes, LedgerAssumption
        <5> QED BY <3>1, <3>2, <3>4, <3>5, <4>1, <5>1
      <4>2. CASE n # last
        <5>1. n \in 1..Len(entries)
          BY <1>0, <4>2 DEF LedgerTypes
        <5> QED BY <3>4, <3>5, <5>1 DEF LedgerInv, Chained
      <4> QED BY <4>1, <4>2
    <3>7. Before(Len(entries) + 1)' = balance'
      <4>1. last + 1 # 1 /\ last + 1 - 1 = last
        BY <3>3
      <4> QED BY <3>3, <3>4, <4>1 DEF Before
    <3>8. balance' # NoAccount
      BY <3>1 DEF NoAccount
    <3> QED BY <1>0, <3>4, <3>6, <3>7, <3>8 DEF LedgerInv, Unopened, Chained
  <2> QED BY <2>1, <2>2
<1> QED BY <1>1, <1>2, <1>3, LedgerSteps

\* For any number of requests, in any order of their statements and whichever
\* of them fail, the ledger explains the balance (credits/service.go and the
\* transaction of credits_repo.go).
THEOREM LedgerExplainsBalanceHolds ==
  ASSUME LedgerAssumption PROVE LedgerSpec => []LedgerExplainsBalance
<1>1. LedgerInit => LedgerInv
  <2> SUFFICES ASSUME LedgerInit PROVE LedgerInv
    OBVIOUS
  <2>1. LedgerTypes
    BY DEF LedgerInit, LedgerTypes, LedgerAssumption, NoAccount, New, RequestSteps
  <2>2. Unopened /\ Chained
    BY DEF LedgerInit, Unopened, Chained, Before
  <2> QED BY <2>1, <2>2 DEF LedgerInv
<1>2. LedgerInv /\ [LedgerNext]_ledgerVars => LedgerInv'
  BY ChainHolds
<1>3. LedgerInv => LedgerExplainsBalance
  BY DEF LedgerInv, Chained, LedgerExplainsBalance
<1> QED BY <1>1, <1>2, <1>3, PTL DEF LedgerSpec

----------------------------------------------------------------------------
\* What is charged.

LEMMA EntryType ==
  ASSUME LedgerTypes, NEW i \in 1..Len(entries) PROVE entries[i].request \in Requests
<1>1. entries[i] \in Entry
  BY DEF LedgerTypes
<1> QED BY <1>1 DEF Entry

\* A step of r that makes no entry and is not the charge of a request.
LEMMA UnchargedSteps ==
  ASSUME ChargeInv, LedgerTypes', NEW r \in Requests \cup Viewers, entries' = entries,
         \A q \in Requests : q # r => request'[q] = request[q] /\ logs'[q] = logs[q],
         r \in Requests => request[r].pc \notin Charged /\ request'[r].pc \notin Charged /\ Logged(r)'
  PROVE  ChargeInv'
<1>1. ASSUME NEW i \in 1..Len(entries)
      PROVE  entries[i].request \in Requests /\ entries[i].request # r
  <2>1. entries[i].request \in Requests
    BY EntryType DEF ChargeInv
  <2> QED BY <2>1 DEF ChargeInv, EntryIsCost
<1>2. OneEntry'
  BY DEF ChargeInv, OneEntry
<1>3. EntryIsCost'
  BY <1>1 DEF ChargeInv, EntryIsCost
<1>4. ChargedHasEntry'
  BY DEF ChargeInv, ChargedHasEntry
<1>5. LoggedIsCost'
  BY DEF ChargeInv, LoggedIsCost, Logged
<1> QED BY <1>2, <1>3, <1>4, <1>5 DEF ChargeInv

LEMMA ConsumeCharges ==
  ASSUME ChargeInv, LedgerTypes', LedgerAssumption, NEW r \in Requests, Consume(r)
  PROVE  ChargeInv'
<1>0. LedgerTypes /\ request[r].pc = "consume"
  BY DEF ChargeInv, Consume, In
<1>1. UNCHANGED logs
  BY DEF Consume
<1>2. CASE Step(r, "refused") /\ UNCHANGED <<balance, entries>>
  <2>1. request' = [request EXCEPT ![r].pc = "refused"]
    BY <1>2 DEF Step
  <2>2. request'[r].pc = "refused"
    BY <1>0, <2>1 DEF LedgerTypes
  <2>3. \A q \in Requests : q # r => request'[q] = request[q]
    BY <1>0, <2>1 DEF LedgerTypes
  <2> QED BY <1>0, <1>1, <1>2, <2>2, <2>3, UnchargedSteps DEF Charged, Logged
<1>3. CASE ~(Step(r, "refused") /\ UNCHANGED <<balance, entries>>)
  <2> DEFINE last == Len(entries) + 1
  <2>1. PICK pc \in Charged :
          /\ entries' = Append(entries, [request |-> r, amount |-> request[r].cost, after |-> balance'])
          /\ request' = [request EXCEPT ![r].pc = pc]
    BY <1>0, <1>3, ConsumeCases
  <2>2. /\ Len(entries') = last /\ Len(entries) \in Nat
        /\ entries'[last] = [request |-> r, amount |-> request[r].cost, after |-> balance']
        /\ \A i \in 1..Len(entries) : entries'[i] = entries[i]
    BY <1>0, <2>1 DEF LedgerTypes
  <2>3. /\ request'[r].pc = pc /\ request'[r].cost = request[r].cost
        /\ \A q \in Requests : q # r => request'[q] = request[q]
    BY <1>0, <2>1 DEF LedgerTypes
  <2>4. ASSUME NEW i \in 1..Len(entries)
        PROVE  entries[i].request \in Requests /\ entries[i].request # r
    <3>1. entries[i].request \in Requests
      BY <1>0, EntryType
    <3> QED BY <1>0, <3>1 DEF ChargeInv, EntryIsCost, Charged
  <2>5. \A i \in 1..last : i # last => i \in 1..Len(entries)
    BY <2>2
  <2>6. OneEntry'
    BY <2>2, <2>4, <2>5 DEF ChargeInv, OneEntry
  <2>7. EntryIsCost'
    BY <2>2, <2>3, <2>4, <2>5 DEF ChargeInv, EntryIsCost
  <2>8. ChargedHasEntry'
    <3> SUFFICES ASSUME NEW q \in Requests, request'[q].pc \in Charged
                 PROVE  \E i \in 1..Len(entries)' : entries'[i].request = q
      BY DEF ChargedHasEntry
    <3>1. CASE q = r
      BY <2>2, <3>1
    <3>2. CASE q # r
      <4>1. PICK i \in 1..Len(entries) : entries[i].request = q
        BY <2>3, <3>2 DEF ChargeInv, ChargedHasEntry
      <4>2. i \in 1..Len(entries)' /\ entries'[i].request = q
        BY <2>2, <4>1
      <4> QED BY <4>2
    <3> QED BY <3>1, <3>2
  <2>9. LoggedIsCost'
    BY <1>0, <1>1, <2>3 DEF ChargeInv, LoggedIsCost, Logged
  <2> QED BY <2>6, <2>7, <2>8, <2>9 DEF ChargeInv
<1> QED BY <1>2, <1>3

LEMMA ChargesHold == ASSUME ChargeInv, [LedgerNext]_ledgerVars, LedgerAssumption PROVE ChargeInv'
<1>0. LedgerTypes /\ LedgerTypes'
  BY TypesHold DEF ChargeInv
<1>1. CASE UNCHANGED ledgerVars
  BY <1>0, <1>1 DEF ledgerVars, ChargeInv, OneEntry, EntryIsCost, ChargedHasEntry, LoggedIsCost, Logged
<1>2. ASSUME NEW r \in Requests \cup Viewers, RequestStep(r) PROVE ChargeInv'
  <2>1. CASE r \in Requests /\ Consume(r)
    BY <1>0, <2>1, ConsumeCharges
  <2>2. CASE ~(r \in Requests /\ Consume(r))
    <3>1. entries' = entries
      BY <1>2, <2>2 DEF RequestStep, Receive, FindBalance, OpenAccount, OpenFails, Compare,
                        ProviderAnswers, ProviderFails, ConsumeFails
    <3>2. \A q \in Requests : q # r => request'[q] = request[q] /\ logs'[q] = logs[q]
      BY <1>0, <1>2, <2>2 DEF RequestStep, Receive, FindBalance, OpenAccount, OpenFails, Compare,
                        ProviderAnswers, ProviderFails, ConsumeFails, Step, LedgerTypes
    <3>3. ASSUME r \in Requests
          PROVE  request[r].pc \notin Charged /\ request'[r].pc \notin Charged /\ Logged(r)'
      <4>0. r \notin Viewers /\ Logged(r)
        BY <3>3 DEF LedgerAssumption, ChargeInv, LoggedIsCost
      <4>1. CASE Receive(r)
        BY <1>0, <3>3, <4>1 DEF Receive, In, Step, LedgerTypes, Charged, Logged
      <4>2. CASE FindBalance(r)
        BY <1>0, <4>0, <4>2 DEF FindBalance, In, Step, LedgerTypes, Charged, Logged
      <4>3. CASE OpenAccount(r)
        BY <1>0, <4>0, <4>3 DEF OpenAccount, In, Step, LedgerTypes, Charged, Logged
      <4>4. CASE OpenFails(r)
        BY <1>0, <4>4 DEF OpenFails, In, Step, LedgerTypes, Charged, Logged
      <4>5. CASE Compare(r)
        BY <1>0, <4>0, <4>5 DEF Compare, In, Step, LedgerTypes, Charged, Logged
      <4>6. CASE ProviderAnswers(r)
        <5>1. PICK tokens \in TokenCounts, written \in BOOLEAN :
                /\ request' = [request EXCEPT ![r].pc = "find", ![r].cost = EstimateCredits(tokens)]
                /\ logs' = [logs EXCEPT ![r] = IF written THEN {EstimateCredits(tokens)} ELSE {}]
          BY <4>6 DEF ProviderAnswers
        <5>2. request'[r].pc = "find" /\ request'[r].cost = EstimateCredits(tokens)
          BY <1>0, <5>1 DEF LedgerTypes
        <5>3. logs'[r] \subseteq {EstimateCredits(tokens)}
          BY <1>0, <3>3, <5>1 DEF LedgerTypes
        <5> QED BY <4>6, <5>2, <5>3 DEF ProviderAnswers, In, Charged, Logged
      <4>7. CASE ProviderFails(r)
        BY <1>0, <4>7 DEF ProviderFails, In, Step, LedgerTypes, Charged, Logged
      <4>8. CASE ConsumeFails(r)
        BY <1>0, <4>8 DEF ConsumeFails, In, Step, LedgerTypes, Charged, Logged
      <4> QED BY <1>2, <2>2, <3>3, <4>1, <4>2, <4>3, <4>4, <4>5, <4>6, <4>7, <4>8 DEF RequestStep
    <3> QED BY <1>0, <3>1, <3>2, <3>3, UnchargedSteps
  <2> QED BY <2>1, <2>2
<1> QED BY <1>1, <1>2 DEF LedgerNext

LEMMA ChargeInvSuffices == ASSUME ChargeInv PROVE AnsweredIsCharged
<1> SUFFICES ASSUME NEW r \in Requests
             PROVE  /\ Cardinality(ChargedTo(r)) = IF request[r].pc \in Charged THEN 1 ELSE 0
                    /\ \A i \in ChargedTo(r) : logs[r] \subseteq {entries[i].amount}
  BY DEF AnsweredIsCharged, Charged
<1>1. \A i \in ChargedTo(r) :
        /\ i \in 1..Len(entries) /\ entries[i].request = r
        /\ request[r].pc \in Charged /\ entries[i].amount = request[r].cost
  BY DEF ChargedTo, ChargeInv, EntryIsCost
<1>2. \A i \in ChargedTo(r) : logs[r] \subseteq {entries[i].amount}
  BY <1>1 DEF ChargeInv, LoggedIsCost, Logged, Charged
<1>3. CASE request[r].pc \in Charged
  <2>1. PICK i \in 1..Len(entries) : entries[i].request = r
    BY <1>3 DEF ChargeInv, ChargedHasEntry
  <2>2. ChargedTo(r) = {i}
    BY <1>1, <2>1 DEF ChargedTo, ChargeInv, OneEntry
  <2> QED BY <1>2, <1>3, <2>2, FS_Singleton
<1>4. CASE request[r].pc \notin Charged
  <2>1. ChargedTo(r) = {}
    BY <1>1, <1>4
  <2> QED BY <1>2, <1>4, <2>1, FS_EmptySet
<1> QED BY <1>3, <1>4

\* Likewise a request is charged once if it is answered, with the cost that was
\* logged, and not at all if it is not (llm/service.go).
THEOREM AnsweredIsChargedHolds ==
  ASSUME LedgerAssumption PROVE LedgerSpec => []AnsweredIsCharged
<1>1. LedgerInit => ChargeInv
  <2> SUFFICES ASSUME LedgerInit PROVE ChargeInv
    OBVIOUS
  <2>1. LedgerTypes
    BY DEF LedgerInit, LedgerTypes, LedgerAssumption, NoAccount, New, RequestSteps
  <2>2. Len(entries) = 0 /\ \A r \in Requests : request[r].pc = "idle"
    BY DEF LedgerInit, New
  <2> QED BY <2>1, <2>2 DEF ChargeInv, OneEntry, EntryIsCost, ChargedHasEntry, LoggedIsCost, Logged, Charged
<1>2. ChargeInv /\ [LedgerNext]_ledgerVars => ChargeInv'
  BY ChargesHold
<1>3. ChargeInv => AnsweredIsCharged
  BY ChargeInvSuffices
<1> QED BY <1>1, <1>2, <1>3, PTL DEF LedgerSpec

----------------------------------------------------------------------------
\* The knowledge base.
Filled(r) ==
  r = [kind |-> r.kind, pc |-> r.pc, content |-> r.content, doc |-> r.doc, list |-> r.list]
AtDoc == {"hash", "row", "chunks", "skip", "list", "relist", "reindexed"}
Rewriting == {"chunks", "skip", "relist"}

Shape ==
  /\ job = [c \in Calls |-> job[c]] /\ \A c \in Calls : Filled(job[c])
  /\ hash = [d \in Docs |-> hash[d]] /\ chunks = [d \in Docs |-> chunks[d]]
  /\ rows \subseteq Docs
  /\ \A c \in Calls : job[c].pc \in AtDoc => Doc(c) \in Docs

\* Between its two writes an import owns the difference of hash and chunks; a
\* skipped import and a reindexing write back what is there.
Agrees(d) ==
  /\ (\A c \in Calls : ~(job[c].pc = "chunks" /\ Doc(c) = d)) => hash[d] = chunks[d]
  /\ \A c \in Calls : Doc(c) = d =>
       /\ job[c].pc \in {"chunks", "skip"} => hash[d] = job[c].content
       /\ job[c].pc = "relist" => chunks[d] = job[c].list
StoreInv == Shape /\ \A d \in Docs \ spoiled : Agrees(d)

----------------------------------------------------------------------------
\* What a call becomes.

Becomes(c, pc, content, doc, list) ==
  /\ job' = [o \in Calls |-> job'[o]]
  /\ \A o \in Calls : Filled(job'[o])
  /\ \A o \in Calls : o # c => job'[o] = job[o]
  /\ job'[c].pc = pc /\ job'[c].content = content /\ job'[c].doc = doc /\ job'[c].list = list

LEMMA BecomesWhole ==
  ASSUME Shape, NEW c \in Calls, NEW r, Filled(r), job' = [job EXCEPT ![c] = r]
  PROVE  Becomes(c, r.pc, r.content, r.doc, r.list)
<1>1. \A o \in Calls : job'[o] = IF o = c THEN r ELSE job[o]
  BY DEF Shape
<1>2. job' = [o \in Calls |-> job'[o]]
  BY DEF Shape
<1> QED BY <1>1, <1>2 DEF Shape, Becomes

\* One field of a call changes.
Fields(r, kind, pc, content, doc, list) ==
  r = [kind |-> kind, pc |-> pc, content |-> content, doc |-> doc, list |-> list]

LEMMA FieldChanges ==
  ASSUME NEW r, Filled(r), NEW x
  PROVE  /\ Fields([r EXCEPT !.pc = x], r.kind, x, r.content, r.doc, r.list)
         /\ Fields([r EXCEPT !.doc = x], r.kind, r.pc, r.content, x, r.list)
         /\ Fields([r EXCEPT !.list = x], r.kind, r.pc, r.content, r.doc, x)
<1>1. r = [kind |-> r.kind, pc |-> r.pc, content |-> r.content, doc |-> r.doc, list |-> r.list]
  BY DEF Filled
<1> QED BY <1>1 DEF Fields

LEMMA FieldsAre ==
  ASSUME NEW r, NEW kind, NEW pc, NEW content, NEW doc, NEW list, Fields(r, kind, pc, content, doc, list)
  PROVE  Filled(r) /\ r.pc = pc /\ r.content = content /\ r.doc = doc /\ r.list = list /\ r.kind = kind
BY DEF Fields, Filled

\* A new call's record.
LEMMA NewCall ==
  ASSUME NEW kind, NEW pc, NEW x
  PROVE  /\ Fields([NoJob EXCEPT !.kind = kind, !.pc = pc, !.content = x], kind, pc, x, 0, NoContent)
         /\ Fields([NoJob EXCEPT !.kind = kind, !.pc = pc, !.doc = x], kind, pc, NoContent, x, NoContent)
<1> DEFINE r == [NoJob EXCEPT !.kind = kind]
           q == [r EXCEPT !.pc = pc]
<1>1. Fields(r, kind, "idle", NoContent, 0, NoContent)
  BY DEF NoJob, Fields
<1> HIDE DEF r
<1>2. Fields(q, kind, pc, NoContent, 0, NoContent)
  BY <1>1 DEF Fields
<1> HIDE DEF q
<1>3. Fields([q EXCEPT !.content = x], kind, pc, x, 0, NoContent)
  BY <1>2 DEF Fields
<1>4. Fields([q EXCEPT !.doc = x], kind, pc, NoContent, x, NoContent)
  BY <1>2 DEF Fields
<1> QED BY <1>3, <1>4 DEF q, r

\* A call moves on, and may take a document or a list with it.
LEMMA Moves ==
  ASSUME Shape, NEW c \in Calls, NEW pc
  PROVE  /\ Move(c, pc) => Becomes(c, pc, job[c].content, Doc(c), job[c].list)
         /\ \A d : job' = [job EXCEPT ![c].pc = pc, ![c].doc = d]
                     => Becomes(c, pc, job[c].content, d, job[c].list)
         /\ \A l : job' = [job EXCEPT ![c].pc = pc, ![c].list = l]
                     => Becomes(c, pc, job[c].content, Doc(c), l)
<1> DEFINE r == [job[c] EXCEPT !.pc = pc]
<1>1. Filled(job[c])
  BY DEF Shape
<1>2. Fields(r, job[c].kind, pc, job[c].content, Doc(c), job[c].list)
  BY <1>1, FieldChanges DEF Doc
<1> HIDE DEF r
<1>3. Filled(r) /\ r.pc = pc /\ r.content = job[c].content /\ r.doc = Doc(c) /\ r.list = job[c].list
      /\ r.kind = job[c].kind
  BY <1>2, FieldsAre
<1>4. ASSUME Move(c, pc) PROVE Becomes(c, pc, job[c].content, Doc(c), job[c].list)
  <2>1. job' = [job EXCEPT ![c] = r]
    BY <1>4 DEF Move, r
  <2>2. Becomes(c, r.pc, r.content, r.doc, r.list)
    BY <1>3, <2>1, BecomesWhole
  <2> QED BY <1>3, <2>2
<1>5. ASSUME NEW d, job' = [job EXCEPT ![c].pc = pc, ![c].doc = d]
      PROVE  Becomes(c, pc, job[c].content, d, job[c].list)
  <2> DEFINE q == [r EXCEPT !.doc = d]
  <2>1. job' = [job EXCEPT ![c] = q]
    BY <1>5 DEF Shape, r
  <2>2. Fields(q, job[c].kind, pc, job[c].content, d, job[c].list)
    BY <1>3, FieldChanges
  <2> HIDE DEF q
  <2>3. Filled(q) /\ q.pc = pc /\ q.content = job[c].content /\ q.doc = d /\ q.list = job[c].list
    BY <2>2, FieldsAre
  <2>4. Becomes(c, q.pc, q.content, q.doc, q.list)
    BY <2>1, <2>3, BecomesWhole
  <2> QED BY <2>3, <2>4
<1>6. ASSUME NEW l, job' = [job EXCEPT ![c].pc = pc, ![c].list = l]
      PROVE  Becomes(c, pc, job[c].content, Doc(c), l)
  <2> DEFINE q == [r EXCEPT !.list = l]
  <2>1. job' = [job EXCEPT ![c] = q]
    BY <1>6 DEF Shape, r
  <2>2. Fields(q, job[c].kind, pc, job[c].content, Doc(c), l)
    BY <1>3, FieldChanges
  <2> HIDE DEF q
  <2>3. Filled(q) /\ q.pc = pc /\ q.content = job[c].content /\ q.doc = Doc(c) /\ q.list = l
    BY <2>2, FieldsAre
  <2>4. Becomes(c, q.pc, q.content, q.doc, q.list)
    BY <2>1, <2>3, BecomesWhole
  <2> QED BY <2>3, <2>4
<1> QED BY <1>4, <1>5, <1>6

----------------------------------------------------------------------------
\* A step of call c, on its document or on the one it turns to.

Keeps(c) ==
  /\ hash' = [d \in Docs |-> hash'[d]] /\ chunks' = [d \in Docs |-> chunks'[d]]
  /\ \A d \in Docs : d # Doc(c) => hash'[d] = hash[d] /\ chunks'[d] = chunks[d]
  /\ rows' \subseteq Docs /\ spoiled \subseteq spoiled'

LEMMA StepHolds ==
  ASSUME StoreInv, NEW c \in Calls, Keeps(c),
         NEW pc, NEW content, NEW doc, NEW list, Becomes(c, pc, content, doc, list),
         pc \in AtDoc => doc \in Docs,
         doc # Doc(c) => pc \notin Rewriting,
         \A d \in Docs \ spoiled' : d = Doc(c) => Agrees(d)'
  PROVE  StoreInv'
<1>1. Shape'
  <2>1. ASSUME NEW o \in Calls, job'[o].pc \in AtDoc PROVE job'[o].doc \in Docs
    BY <2>1 DEF Becomes, StoreInv, Shape, Doc
  <2> QED BY <2>1 DEF Shape, Becomes, Keeps, Doc
<1>2. ASSUME NEW d \in Docs \ spoiled', d # Doc(c) PROVE Agrees(d)'
  <2>1. Agrees(d) /\ hash'[d] = hash[d] /\ chunks'[d] = chunks[d]
    BY <1>2 DEF Keeps, StoreInv
  <2>2. \A o \in Calls : job'[o].doc = d /\ job'[o].pc \in Rewriting => o # c /\ job'[o] = job[o]
    BY <1>2 DEF Becomes
  <2>3. \A o \in Calls : job[o].doc = d => o # c /\ job'[o] = job[o]
    BY <1>2 DEF Becomes, Doc
  <2>4. hash'[d] = chunks'[d] \/ \E o \in Calls : job'[o].pc = "chunks" /\ job'[o].doc = d
    BY <2>1, <2>3 DEF Agrees, Doc
  <2>5. ASSUME NEW o \in Calls, job'[o].doc = d, job'[o].pc \in {"chunks", "skip"}
        PROVE  hash'[d] = job'[o].content
    BY <2>1, <2>2, <2>5 DEF Agrees, Doc, Rewriting
  <2>6. ASSUME NEW o \in Calls, job'[o].doc = d, job'[o].pc = "relist"
        PROVE  chunks'[d] = job'[o].list
    BY <2>1, <2>2, <2>6 DEF Agrees, Doc, Rewriting
  <2> QED BY <2>4, <2>5, <2>6 DEF Agrees, Doc
<1> QED BY <1>1, <1>2 DEF StoreInv

\* A step that writes neither hashes nor chunks.
LEMMA ReadsHold ==
  ASSUME StoreInv, NEW c \in Calls, UNCHANGED <<hash, rows, chunks>>, spoiled \subseteq spoiled',
         NEW pc, NEW content, NEW doc, NEW list, Becomes(c, pc, content, doc, list),
         job[c].pc # "chunks" \/ Doc(c) \in spoiled',
         pc # "chunks",
         pc \in AtDoc => doc \in Docs,
         doc # Doc(c) => pc \notin Rewriting,
         pc = "skip" => hash[doc] = content,
         pc = "relist" => doc \in spoiled' \/ chunks[doc] = list
  PROVE  StoreInv'
<1>1. Keeps(c)
  BY DEF Keeps, StoreInv, Shape
<1>2. ASSUME NEW d \in Docs \ spoiled', d = Doc(c) PROVE Agrees(d)'
  <2>1. Agrees(d) /\ job[c].pc # "chunks"
    BY <1>2 DEF StoreInv
  <2>2. \A o \in Calls : o # c => job'[o] = job[o]
    BY DEF Becomes
  <2>3. job'[c].pc # "chunks"
    BY DEF Becomes
  <2>4. hash'[d] = chunks'[d] \/ \E o \in Calls : job'[o].pc = "chunks" /\ job'[o].doc = d
    BY <2>1, <2>2 DEF Agrees, Doc
  <2>5. ASSUME NEW o \in Calls, job'[o].doc = d, job'[o].pc \in {"chunks", "skip"}
        PROVE  hash'[d] = job'[o].content
    <3>1. CASE o = c
      BY <2>5, <3>1 DEF Becomes
    <3>2. CASE o # c
      BY <2>1, <2>2, <2>5, <3>2 DEF Agrees, Doc
    <3> QED BY <3>1, <3>2
  <2>6. ASSUME NEW o \in Calls, job'[o].doc = d, job'[o].pc = "relist"
        PROVE  chunks'[d] = job'[o].list
    <3>1. CASE o = c
      BY <1>2, <2>6, <3>1 DEF Becomes
    <3>2. CASE o # c
      BY <2>1, <2>2, <2>6, <3>2 DEF Agrees, Doc
    <3> QED BY <3>1, <3>2
  <2> QED BY <2>4, <2>5, <2>6 DEF Agrees, Doc
<1> QED BY <1>1, <1>2, StepHolds

\* A write to a document nobody else works on; a shared one is spoiled.
LEMMA Alone ==
  ASSUME NEW c \in Calls, NoteShared(c), Doc(c) \notin spoiled', NEW o \in Calls, o # c,
         Doc(o) = Doc(c)
  PROVE  job[o].pc \notin AtDoc
BY DEF NoteShared, Shared, Spoil, Busy, AtDoc

LEMMA WritesHold ==
  ASSUME StoreInv, NEW c \in Calls, NoteShared(c), Keeps(c),
         NEW pc, Becomes(c, pc, job[c].content, Doc(c), job[c].list), pc \notin {"skip", "relist"},
         pc \in AtDoc => Doc(c) \in Docs,
         Doc(c) \in Docs =>
           IF pc = "chunks" THEN hash'[Doc(c)] = job[c].content
           ELSE Doc(c) \notin spoiled' => hash'[Doc(c)] = chunks'[Doc(c)]
  PROVE  StoreInv'
<1>1. ASSUME NEW d \in Docs \ spoiled', d = Doc(c) PROVE Agrees(d)'
  <2>1. \A o \in Calls : o # c /\ job'[o].doc = d => job'[o].pc \notin AtDoc
    BY <1>1, Alone DEF Becomes, Doc
  <2>2. job'[c].pc = pc /\ job'[c].content = job[c].content /\ job'[c].doc = d
    BY <1>1 DEF Becomes
  <2> QED BY <1>1, <2>1, <2>2 DEF Agrees, Doc, AtDoc
<1> QED BY <1>1, StepHolds

----------------------------------------------------------------------------
\* The actions.

\* A call begins.
LEMMA BeginsHold ==
  ASSUME StoreInv, NEW c \in Calls, (\E content \in Contents : Import(c, content)) \/ Reindex(c)
  PROVE  StoreInv'
<1>1. UNCHANGED <<hash, rows, chunks, spoiled>> /\ job[c].pc # "chunks"
  BY DEF Import, Reindex, Busy
<1>2. ASSUME NEW r, NEW kind, NEW pc \in {"lookup", "list"}, NEW content, NEW doc,
             Fields(r, kind, pc, content, doc, NoContent), pc = "list" => doc \in Docs,
             job' = [job EXCEPT ![c] = r]
      PROVE  StoreInv'
  <2>1. Filled(r) /\ r.pc = pc /\ r.content = content /\ r.doc = doc /\ r.list = NoContent
    BY <1>2, FieldsAre
  <2>2. Becomes(c, pc, content, doc, NoContent)
    BY <1>2, <2>1, BecomesWhole DEF StoreInv
  <2> QED BY <1>1, <1>2, <2>2, ReadsHold DEF AtDoc, Rewriting
<1>3. ASSUME NEW content \in Contents, Import(c, content) PROVE StoreInv'
  <2> DEFINE r == [NoJob EXCEPT !.kind = "import", !.pc = "lookup", !.content = content]
  <2>1. Fields(r, "import", "lookup", content, 0, NoContent)
    BY NewCall
  <2>2. job' = [job EXCEPT ![c] = r]
    BY <1>3 DEF Import
  <2> HIDE DEF r
  <2> QED BY <1>2, <2>1, <2>2
<1>4. CASE Reindex(c)
  <2>1. PICK d \in rows : job' = [job EXCEPT ![c] =
                            [NoJob EXCEPT !.kind = "reindex", !.pc = "list", !.doc = d]]
    BY <1>4 DEF Reindex
  <2> DEFINE r == [NoJob EXCEPT !.kind = "reindex", !.pc = "list", !.doc = d]
  <2>2. Fields(r, "reindex", "list", NoContent, d, NoContent)
    BY NewCall
  <2>3. d \in Docs
    BY DEF StoreInv, Shape
  <2> HIDE DEF r
  <2> QED BY <1>2, <2>1, <2>2, <2>3 DEF r
<1> QED BY <1>3, <1>4

LEMMA LookupsHold ==
  ASSUME StoreInv, NEW c \in Calls, FindDocument(c) \/ NoDocument(c)
  PROVE  StoreInv'
<1>1. UNCHANGED <<hash, rows, chunks, spoiled>> /\ job[c].pc # "chunks"
  BY DEF FindDocument, NoDocument, storeHistory
<1>2. \E d \in Docs, pc \in {"hash", "row"} : job' = [job EXCEPT ![c].pc = pc, ![c].doc = d]
  BY DEF FindDocument, NoDocument, StoreInv, Shape
<1>3. \E d \in Docs, pc \in {"hash", "row"} : Becomes(c, pc, job[c].content, d, job[c].list)
  BY <1>2, Moves DEF StoreInv
<1> QED BY <1>1, <1>3, ReadsHold DEF AtDoc, Rewriting

LEMMA ComparesHold == ASSUME StoreInv, NEW c \in Calls, CompareHash(c) PROVE StoreInv'
<1>1. /\ UNCHANGED <<hash, rows, chunks, spoiled>> /\ job[c].pc = "hash"
      /\ Move(c, "row") \/ (Move(c, "skip") /\ hash[Doc(c)] = job[c].content)
  BY DEF CompareHash, storeHistory
<1>2. Doc(c) \in Docs
  BY <1>1 DEF StoreInv, Shape, AtDoc
<1>3. \/ Becomes(c, "row", job[c].content, Doc(c), job[c].list)
      \/ Becomes(c, "skip", job[c].content, Doc(c), job[c].list) /\ hash[Doc(c)] = job[c].content
  BY <1>1, Moves DEF StoreInv
<1> QED BY <1>1, <1>2, <1>3, ReadsHold DEF AtDoc, Rewriting

LEMMA ListsHold == ASSUME StoreInv, NEW c \in Calls, ListChunks(c) PROVE StoreInv'
<1>1. /\ UNCHANGED <<hash, rows, chunks>> /\ job[c].pc = "list" /\ spoiled \subseteq spoiled'
      /\ \E l : /\ job' = [job EXCEPT ![c].pc = "relist", ![c].list = l]
                /\ l = chunks[Doc(c)] \/ Doc(c) \in spoiled'
  BY DEF ListChunks, Spoil
<1>2. Doc(c) \in Docs
  BY <1>1 DEF StoreInv, Shape, AtDoc
<1>3. PICK l : /\ Becomes(c, "relist", job[c].content, Doc(c), l)
               /\ l = chunks[Doc(c)] \/ Doc(c) \in spoiled'
  BY <1>1, Moves DEF StoreInv
<1> QED BY <1>1, <1>2, <1>3, ReadsHold DEF AtDoc, Rewriting

LEMMA LeavesHold ==
  ASSUME StoreInv, NEW c \in Calls, WriteFails(c) \/ SaveRowKeepingHash(c)
  PROVE  StoreInv'
<1>1. /\ UNCHANGED <<hash, rows, chunks>> /\ spoiled \subseteq spoiled' /\ Move(c, "idle")
      /\ job[c].pc # "chunks" \/ Doc(c) \in spoiled'
  BY DEF WriteFails, SaveRowKeepingHash, storeHistory, Spoil
<1>2. Becomes(c, "idle", job[c].content, Doc(c), job[c].list)
  BY <1>1, Moves DEF StoreInv
<1> QED BY <1>1, <1>2, ReadsHold DEF AtDoc, Rewriting

LEMMA TimeoutsHold == ASSUME StoreInv, NEW c \in Calls, WriteTimesOut(c) PROVE StoreInv'
<1>1. /\ Move(c, "idle") /\ Doc(c) \in spoiled' /\ spoiled \subseteq spoiled' /\ Doc(c) \in Docs
      /\ hash' \in {hash, [hash EXCEPT ![Doc(c)] = job[c].content]}
      /\ chunks' \in {chunks, [chunks EXCEPT ![Doc(c)] = job[c].content]}
      /\ rows' \in {rows, rows \cup {Doc(c)}}
  BY DEF WriteTimesOut, Spoil, StoreInv, Shape, AtDoc
<1>2. Keeps(c)
  BY <1>1 DEF Keeps, StoreInv, Shape
<1>3. Becomes(c, "idle", job[c].content, Doc(c), job[c].list)
  BY <1>1, Moves DEF StoreInv
<1> QED BY <1>1, <1>2, <1>3, StepHolds DEF AtDoc, Rewriting

LEMMA SavesHold ==
  ASSUME StoreInv, NEW c \in Calls, SaveDocument(c) \/ SaveChunks(c) \/ Skip(c) \/ SaveList(c)
  PROVE  StoreInv'
<1>1. /\ NoteShared(c) /\ Doc(c) \in Docs /\ spoiled \subseteq spoiled'
      /\ hash' \in {hash, [hash EXCEPT ![Doc(c)] = job[c].content]}
      /\ chunks' \in {chunks, [chunks EXCEPT ![Doc(c)] = job[c].content],
                      [chunks EXCEPT ![Doc(c)] = job[c].list]}
      /\ rows' \in {rows, rows \cup {Doc(c)}}
  BY DEF SaveDocument, SaveChunks, Skip, SaveList, NoteShared, Spoil, StoreInv, Shape, AtDoc
<1>2. Keeps(c)
  BY <1>1 DEF Keeps, StoreInv, Shape
<1>3. ASSUME Doc(c) \notin spoiled'
      PROVE  /\ Agrees(Doc(c))
             /\ \A o \in Calls : o # c /\ Doc(o) = Doc(c) => job[o].pc # "chunks"
  BY <1>1, <1>3, Alone DEF StoreInv, AtDoc
<1>4. CASE SaveDocument(c)
  <2>1. Move(c, "chunks") /\ hash'[Doc(c)] = job[c].content
    BY <1>1, <1>4 DEF SaveDocument, StoreInv, Shape
  <2>2. Becomes(c, "chunks", job[c].content, Doc(c), job[c].list)
    BY <2>1, Moves DEF StoreInv
  <2> QED BY <1>1, <1>2, <2>1, <2>2, WritesHold DEF StoreInv
<1>5. CASE SaveChunks(c)
  <2>1. Move(c, "imported") /\ job[c].pc = "chunks" /\ chunks'[Doc(c)] = job[c].content /\ hash' = hash
    BY <1>1, <1>5 DEF SaveChunks, StoreInv, Shape
  <2>2. Doc(c) \notin spoiled' => hash[Doc(c)] = job[c].content
    BY <1>3, <2>1 DEF Agrees
  <2>3. Becomes(c, "imported", job[c].content, Doc(c), job[c].list)
    BY <2>1, Moves DEF StoreInv
  <2> QED BY <1>1, <1>2, <2>1, <2>2, <2>3, WritesHold DEF StoreInv
<1>6. CASE Skip(c)
  <2>1. Move(c, "skipped") /\ job[c].pc = "skip" /\ hash'[Doc(c)] = job[c].content /\ chunks' = chunks
    BY <1>1, <1>6 DEF Skip, StoreInv, Shape
  <2>2. Doc(c) \notin spoiled' => hash[Doc(c)] = job[c].content /\ hash[Doc(c)] = chunks[Doc(c)]
    BY <1>3, <2>1 DEF Agrees
  <2>3. Becomes(c, "skipped", job[c].content, Doc(c), job[c].list)
    BY <2>1, Moves DEF StoreInv
  <2> QED BY <1>1, <1>2, <2>1, <2>2, <2>3, WritesHold DEF StoreInv
<1>7. CASE SaveList(c)
  <2>1. Move(c, "reindexed") /\ job[c].pc = "relist" /\ chunks'[Doc(c)] = job[c].list /\ hash' = hash
    BY <1>1, <1>7 DEF SaveList, StoreInv, Shape
  <2>2. Doc(c) \notin spoiled' => chunks[Doc(c)] = job[c].list /\ hash[Doc(c)] = chunks[Doc(c)]
    BY <1>3, <2>1 DEF Agrees
  <2>3. Becomes(c, "reindexed", job[c].content, Doc(c), job[c].list)
    BY <2>1, Moves DEF StoreInv
  <2> QED BY <1>1, <1>2, <2>1, <2>2, <2>3, WritesHold DEF StoreInv
<1> QED BY <1>4, <1>5, <1>6, <1>7

LEMMA StoreHolds == StoreInv /\ [StoreNext]_storeVars => StoreInv'
<1> SUFFICES ASSUME StoreInv, [StoreNext]_storeVars PROVE StoreInv'
  OBVIOUS
<1>1. CASE UNCHANGED storeVars
  BY <1>1 DEF storeVars, storeHistory, StoreInv, Shape, Agrees, Doc, Filled
<1>2. ASSUME NEW c \in Calls, CallSteps(c) \/ \E content \in Contents : Import(c, content)
      PROVE  StoreInv'
  BY <1>2, BeginsHold, LookupsHold, ComparesHold, ListsHold, LeavesHold, TimeoutsHold, SavesHold
     DEF CallSteps
<1> QED BY <1>1, <1>2 DEF StoreNext

\* When nobody works on a document, its chunks are cut from the content its
\* hash stands for, so a skipped import has nothing to do (service.go, Import):
\* in any order of any number of imports and reindexings, as long as no write
\* of its chunks failed and no two of them overlapped on it.
THEOREM HashMeansChunksHolds == StoreSpec => []HashMeansChunks
<1>1. StoreInit => StoreInv
  <2> SUFFICES ASSUME StoreInit PROVE StoreInv
    OBVIOUS
  <2>1. Fields(NoJob, "none", "idle", NoContent, 0, NoContent)
    BY DEF Fields, NoJob
  <2>2. Filled(NoJob) /\ NoJob.pc = "idle"
    BY <2>1, FieldsAre
  <2>3. \A c \in Calls : job[c] = NoJob
    BY DEF StoreInit
  <2>4. Shape
    BY <2>2, <2>3 DEF StoreInit, Shape, AtDoc
  <2>5. \A d \in Docs : Agrees(d)
    BY <2>2, <2>3 DEF StoreInit, Agrees
  <2> QED BY <2>4, <2>5 DEF StoreInv
<1>2. StoreInv => HashMeansChunks
  BY DEF StoreInv, Shape, Agrees, HashMeansChunks, Busy
<1> QED BY <1>1, <1>2, StoreHolds, PTL DEF StoreSpec

----------------------------------------------------------------------------
\* The relay of a reply: pieces, and what is put together of them.
Origins == {"provider", "demo"}
Bits == Origins \X Nat
CallRecs == [id : Nat, arguments : Seq(Bits)]
Replies == [text : Seq(Bits), thought : Seq(Bits), calls : Seq(CallRecs)]
Events == [type : {"delta"}, piece : Bits] \cup [type : {"error"}]
            \cup [type : {"done", "error"}, text : Seq(Bits), calls : Seq(CallRecs)]

\* What has been put together is all that its source said, ...
Tells(seq, words, s, kind) ==
  /\ \A n \in DOMAIN seq : \E k \in DOMAIN words : words[k] = kind /\ seq[n] = <<s, k>>
  /\ \A k \in DOMAIN words : words[k] = kind => \E n \in DOMAIN seq : seq[n] = <<s, k>>
  /\ \A m, n \in DOMAIN seq : m < n => seq[m][2] < seq[n][2]

LEMMA ToldIs ==
  ASSUME NEW seq, NEW s, NEW kind
  PROVE  Told(seq, s, kind) <=> Tells(seq, said[s], s, kind)
BY Zenon DEF Told, Tells, Pieces, Range

LEMMA TellsRange ==
  ASSUME NEW seq, NEW words, NEW s, NEW kind, Tells(seq, words, s, kind)
  PROVE  /\ Range(seq) = {<<s, k>> : k \in {k \in DOMAIN words : words[k] = kind}}
         /\ \A m, n \in DOMAIN seq : m < n => seq[m][2] < seq[n][2]
BY Zenon DEF Tells, Range

LEMMA TellsMore ==
  ASSUME NEW s \in Origins, NEW kind \in Kinds, NEW words \in Seq(Kinds), NEW seq \in Seq(Bits),
         Tells(seq, words, s, kind)
  PROVE  Tells(Append(seq, <<s, Len(words) + 1>>), Append(words, kind), s, kind)
<1>1. PICK w \in Nat : w = Len(words)
  OBVIOUS
<1>2. PICK n \in Nat : n = Len(seq)
  OBVIOUS
<1>3. PICK piece : piece = <<s, w + 1>>
  OBVIOUS
<1>4. piece \in Bits
  BY <1>3 DEF Bits
<1>5. PICK longer \in Seq(Kinds) : longer = Append(words, kind)
  BY AppendProperties
<1>6. DOMAIN longer = 1..(w + 1) /\ longer[w + 1] = kind /\ \A k \in 1..w : longer[k] = words[k]
  BY <1>1, <1>5, AppendProperties
<1>7. PICK more \in Seq(Bits) : more = Append(seq, piece)
  BY <1>4, AppendProperties
<1>8. DOMAIN more = 1..(n + 1) /\ more[n + 1] = piece /\ \A k \in 1..n : more[k] = seq[k]
  BY <1>2, <1>4, <1>7, AppendProperties
<1>9. DOMAIN words = 1..w /\ DOMAIN seq = 1..n
  BY <1>1, <1>2
<1>10. \A m \in DOMAIN more : \E k \in DOMAIN longer : longer[k] = kind /\ more[m] = <<s, k>>
  <2> SUFFICES ASSUME NEW m \in 1..(n + 1)
               PROVE  \E k \in 1..(w + 1) : longer[k] = kind /\ more[m] = <<s, k>>
    BY <1>6, <1>8
  <2>1. CASE m = n + 1
    BY <1>3, <1>6, <1>8, <2>1
  <2>2. CASE m # n + 1
    <3>1. m \in 1..n
      BY <2>2
    <3>2. PICK k \in 1..w : words[k] = kind /\ seq[m] = <<s, k>>
      BY <1>9, <3>1 DEF Tells
    <3>3. k \in 1..(w + 1)
      OBVIOUS
    <3> QED BY <1>6, <1>8, <3>1, <3>2, <3>3
  <2> QED BY <2>1, <2>2
<1>11. \A k \in DOMAIN longer : longer[k] = kind => \E m \in DOMAIN more : more[m] = <<s, k>>
  <2> SUFFICES ASSUME NEW k \in 1..(w + 1), longer[k] = kind
               PROVE  \E m \in 1..(n + 1) : more[m] = <<s, k>>
    BY <1>6, <1>8
  <2>1. CASE k = w + 1
    BY <1>3, <1>8, <2>1
  <2>2. CASE k # w + 1
    <3>1. k \in 1..w
      BY <2>2
    <3>2. PICK m \in 1..n : seq[m] = <<s, k>>
      BY <1>6, <1>9, <3>1 DEF Tells
    <3>3. m \in 1..(n + 1)
      OBVIOUS
    <3> QED BY <1>8, <3>2, <3>3
  <2> QED BY <2>1, <2>2
<1>12. \A m, k \in DOMAIN more : m < k => more[m][2] < more[k][2]
  <2> SUFFICES ASSUME NEW m \in 1..(n + 1), NEW k \in 1..(n + 1), m < k
               PROVE  more[m][2] < more[k][2]
    BY <1>8
  <2>1. m \in 1..n
    OBVIOUS
  <2>2. CASE k = n + 1
    <3>1. PICK j \in 1..w : seq[m] = <<s, j>>
      BY <1>9, <2>1 DEF Tells
    <3> QED BY <1>3, <1>8, <2>1, <2>2, <3>1
  <2>3. CASE k # n + 1
    <3>1. k \in 1..n
      BY <2>3
    <3> QED BY <1>8, <1>9, <2>1, <3>1 DEF Tells
  <2> QED BY <2>2, <2>3
<1> QED BY <1>1, <1>3, <1>5, <1>7, <1>10, <1>11, <1>12 DEF Tells

LEMMA TellsStill ==
  ASSUME NEW s \in Origins, NEW kind \in Kinds, NEW other \in Kinds \ {kind}, NEW words \in Seq(Kinds),
         NEW seq \in Seq(Bits), Tells(seq, words, s, other)
  PROVE  Tells(seq, Append(words, kind), s, other)
<1>1. PICK w \in Nat : w = Len(words)
  OBVIOUS
<1>2. PICK longer \in Seq(Kinds) : longer = Append(words, kind)
  BY AppendProperties
<1>3. DOMAIN longer = 1..(w + 1) /\ longer[w + 1] = kind /\ \A k \in 1..w : longer[k] = words[k]
  BY <1>1, <1>2, AppendProperties
<1>4. DOMAIN words = 1..w
  BY <1>1
<1>5. \A k \in 1..(w + 1) : longer[k] = other => k \in 1..w
  BY <1>3
<1>6. \A k \in 1..w : k \in 1..(w + 1)
  OBVIOUS
<1> QED BY <1>2, <1>3, <1>4, <1>5, <1>6 DEF Tells

\* A piece of a call goes to the arguments of that call.
LEMMA Merged ==
  ASSUME NEW calls \in Seq(CallRecs), NEW i \in CallNumbers, NEW piece \in Bits, NEW id \in Nat
  PROVE  /\ MergeToolCalls(calls, i, piece, id) \in Seq(CallRecs)
         /\ Len(MergeToolCalls(calls, i, piece, id)) = IF i > Len(calls) THEN i ELSE Len(calls)
         /\ Arguments(MergeToolCalls(calls, i, piece, id), i) = Append(Arguments(calls, i), piece)
         /\ \A j \in CallNumbers \ {i} :
              Arguments(MergeToolCalls(calls, i, piece, id), j) = Arguments(calls, j)
<1>1. PICK n \in Nat : n = Len(calls)
  OBVIOUS
<1>2. i \in Nat /\ i > 0 /\ \A j \in CallNumbers : j \in Nat /\ j > 0
  BY RelayAssumption DEF CallNumbers
<1>3. PICK size \in Nat : size = IF i > n THEN i ELSE n
  BY <1>2
<1>4. i \in 1..size /\ \A k \in 1..n : k \in 1..size
  BY <1>2, <1>3
<1>5. PICK padded : padded = [k \in 1..size |-> IF k <= n THEN calls[k] ELSE NoCall]
  OBVIOUS
<1>6. <<>> \in Seq(Bits)
  OBVIOUS
<1>7. NoCall \in CallRecs
  BY <1>6 DEF NoCall, CallRecs
<1>8. \A k \in 1..size : padded[k] \in CallRecs
  <2> TAKE k \in 1..size
  <2>1. CASE k <= n
    BY <1>1, <1>5, <2>1
  <2>2. CASE ~(k <= n)
    BY <1>5, <1>7, <2>2
  <2> QED BY <2>1, <2>2
<1>9. PICK r : r = [id |-> IF id = 0 THEN padded[i].id ELSE id, arguments |-> Append(padded[i].arguments, piece)]
  OBVIOUS
<1>10. padded[i] \in CallRecs /\ padded[i].arguments \in Seq(Bits) /\ padded[i].id \in Nat
  BY <1>4, <1>8 DEF CallRecs
<1>11. r \in CallRecs
  <2>1. Append(padded[i].arguments, piece) \in Seq(Bits)
    BY <1>10, AppendProperties
  <2> QED BY <1>9, <1>10, <2>1 DEF CallRecs
<1>12. PICK merged : merged = [padded EXCEPT ![i] = r]
  OBVIOUS
<1>13. MergeToolCalls(calls, i, piece, id) = merged
  BY <1>1, <1>3, <1>5, <1>9, <1>12 DEF MergeToolCalls
<1>14. DOMAIN merged = 1..size /\ merged[i] = r /\ \A k \in 1..size \ {i} : merged[k] = padded[k]
  BY <1>4, <1>5, <1>12
<1>15. merged = [k \in 1..size |-> merged[k]]
  BY <1>5, <1>12
<1>16. \A k \in 1..size : merged[k] \in CallRecs
  BY <1>8, <1>11, <1>14
<1>17. merged \in Seq(CallRecs) /\ Len(merged) = size
  BY <1>14, <1>15, <1>16
<1>18. DOMAIN calls = 1..n
  BY <1>1
<1>19. Arguments(calls, i) = padded[i].arguments
  <2>1. CASE i <= n
    BY <1>2, <1>4, <1>5, <1>18, <2>1 DEF Arguments
  <2>2. CASE ~(i <= n)
    BY <1>2, <1>4, <1>5, <1>18, <2>2 DEF Arguments, NoCall
  <2> QED BY <2>1, <2>2
<1>20. Arguments(merged, i) = Append(Arguments(calls, i), piece)
  <2>1. r.arguments = Append(padded[i].arguments, piece)
    BY <1>9
  <2>2. Arguments(merged, i) = r.arguments
    BY <1>4, <1>14 DEF Arguments
  <2> QED BY <1>19, <2>1, <2>2
<1>21. ASSUME NEW j \in CallNumbers \ {i} PROVE Arguments(merged, j) = Arguments(calls, j)
  <2>1. CASE j <= n
    <3>1. j \in 1..n /\ j \in 1..size
      BY <1>2, <1>4, <2>1
    <3> QED BY <1>5, <1>14, <1>18, <2>1, <3>1 DEF Arguments
  <2>2. CASE ~(j <= n)
    <3>1. j \notin 1..n
      BY <2>2
    <3>2. CASE j \in 1..size
      BY <1>5, <1>14, <1>18, <2>2, <3>1, <3>2 DEF Arguments, NoCall
    <3>3. CASE j \notin 1..size
      BY <1>14, <1>18, <3>1, <3>3 DEF Arguments
    <3> QED BY <3>2, <3>3
  <2> QED BY <2>1, <2>2
<1> QED BY <1>1, <1>3, <1>13, <1>17, <1>20, <1>21

----------------------------------------------------------------------------
\* The inductive invariant.

\* The types, and what a source may have said.
RelayTyped ==
  /\ direct \in BOOLEAN /\ streaming \in BOOLEAN
  /\ source \in Origins /\ finished \in SUBSET Origins
  /\ attempts \in 1..RetryCount + 1
  /\ upstream \in {"none", "asks", "over"} /\ (direct <=> upstream = "none")
  /\ asker \in {"waits", "replied", "threw", "aborted"}
  /\ said \in [Origins -> Seq(Kinds)]
  /\ heard \in Replies
  /\ Len(heard.calls) <= MaxToolCalls
  /\ shown \in Seq(Bits)
  /\ wire \in Seq(Events)

\* The demo provider answers with text, after the provider, for the server.
InTurn ==
  /\ source = "provider" => said["demo"] = <<>> /\ "demo" \notin finished
  /\ source = "demo" => ~direct
  /\ direct /\ asker = "waits" => finished = {}
  /\ \A k \in DOMAIN said["demo"] : said["demo"][k] = Text
  /\ "demo" \in finished => said["demo"] # <<>>
  /\ upstream = "over" /\ source = "demo" => "demo" \in finished

\* The reader has put together what its source said.
Hears(h, words, s) ==
  /\ Tells(h.text, words, s, Text) /\ Tells(h.thought, words, s, Thought)
  /\ \A i \in CallNumbers : Tells(Arguments(h.calls, i), words, s, i)

\* The deltas on the wire, and the event that ends it.
Unread(ev, up) == IF up = "over" /\ ev # <<>> THEN Len(ev) - 1 ELSE Len(ev)
Ending(e) == e.type = "error" \/ (e = DoneEvent /\ (source \in finished \/ early))
Wired ==
  /\ \A k \in 1..Unread(wire, upstream) : wire[k].type = "delta"
  /\ upstream = "over" =>
       /\ wire # <<>> => wire[Len(wire)].type # "delta" /\ Ending(wire[Len(wire)])
       /\ wire = <<>> => Ending(final)

\* The text heard so far is on the screen or on its way there, after what the
\* provider had said when the demo provider took over.
LinedUp(sent, sh, ev, n) ==
  /\ Len(sent) = Len(sh) + n
  /\ \A k \in 1..Len(sh) : sh[k] = sent[k]
  /\ \A k \in 1..n : ev[k].piece = sent[Len(sh) + k]
Follows(before) ==
  /\ source = "provider" => before = <<>>
  /\ source = "demo" => Tells(before, said["provider"], "provider", Text)
  /\ LinedUp(before \o heard.text, shown, wire, Unread(wire, upstream))
OnScreen ==
  streaming => IF direct THEN shown = heard.text ELSE \E before \in Seq(Bits) : Follows(before)

\* After the reply nothing is read, unless the connection broke.
Over == asker = "replied" => ~Reads \/ (early /\ shown = reply.text)

RelayInv ==
  /\ RelayTyped /\ InTurn /\ Hears(heard, said[source], source)
  /\ ~direct /\ asker = "waits" => Wired
  /\ asker = "waits" => OnScreen
  /\ Over /\ ReplyIsWhole /\ ShownIsAnswer

----------------------------------------------------------------------------
\* The text on its way.
LEMMA LineSend ==
  ASSUME NEW sent \in Seq(Bits), NEW sh \in Seq(Bits), NEW ev \in Seq(Events), NEW piece \in Bits,
         LinedUp(sent, sh, ev, Len(ev))
  PROVE  LET more == Append(ev, [type |-> "delta", piece |-> piece])
         IN more \in Seq(Events) /\ LinedUp(Append(sent, piece), sh, more, Len(more))
<1>1. PICK n \in Nat : n = Len(ev)
  OBVIOUS
<1>2. PICK l \in Nat : l = Len(sh)
  OBVIOUS
<1>3. PICK e : e = [type |-> "delta", piece |-> piece]
  OBVIOUS
<1>4. e \in Events
  BY <1>3 DEF Events
<1>5. PICK more \in Seq(Events) : more = Append(ev, e)
  BY <1>4, AppendProperties
<1>6. Len(more) = n + 1 /\ more[n + 1] = e /\ \A k \in 1..n : more[k] = ev[k]
  BY <1>1, <1>4, <1>5, AppendProperties
<1>7. PICK longer \in Seq(Bits) : longer = Append(sent, piece)
  BY AppendProperties
<1>8. Len(sent) = l + n
  BY <1>1, <1>2 DEF LinedUp
<1>9. Len(longer) = l + n + 1 /\ longer[l + n + 1] = piece /\ \A k \in 1..(l + n) : longer[k] = sent[k]
  BY <1>7, <1>8, AppendProperties
<1>10. \A k \in 1..l : sh[k] = longer[k]
  <2> TAKE k \in 1..l
  <2>1. k \in 1..(l + n)
    OBVIOUS
  <2>2. sh[k] = sent[k]
    BY <1>2 DEF LinedUp
  <2> QED BY <1>9, <2>1, <2>2
<1>11. \A k \in 1..(n + 1) : more[k].piece = longer[l + k]
  <2> TAKE k \in 1..(n + 1)
  <2>1. CASE k = n + 1
    BY <1>3, <1>6, <1>9, <2>1
  <2>2. CASE k # n + 1
    <3>1. k \in 1..n /\ l + k \in 1..(l + n)
      BY <2>2
    <3> QED BY <1>1, <1>2, <1>6, <1>9, <3>1 DEF LinedUp
  <2> QED BY <2>1, <2>2
<1>12. LinedUp(longer, sh, more, n + 1)
  <2>1. Len(longer) = Len(sh) + (n + 1)
    BY <1>2, <1>9
  <2>2. \A k \in 1..Len(sh) : sh[k] = longer[k]
    BY <1>2, <1>10
  <2>3. \A k \in 1..(n + 1) : more[k].piece = longer[Len(sh) + k]
    BY <1>2, <1>11
  <2> QED BY <2>1, <2>2, <2>3 DEF LinedUp
<1> QED BY <1>3, <1>5, <1>6, <1>7, <1>12

LEMMA LineRead ==
  ASSUME NEW sent \in Seq(Bits), NEW sh \in Seq(Bits), NEW ev \in Seq(Events), NEW n \in Nat \ {0},
         n <= Len(ev), ev[1].type = "delta", LinedUp(sent, sh, ev, n)
  PROVE  /\ Append(sh, ev[1].piece) \in Seq(Bits)
         /\ LinedUp(sent, Append(sh, ev[1].piece), Tail(ev), n - 1)
<1>1. PICK l \in Nat : l = Len(sh)
  OBVIOUS
<1>2. ev # <<>> /\ 1 \in 1..Len(ev) /\ ev[1] \in Events
  OBVIOUS
<1>3. PICK piece \in Bits : piece = ev[1].piece
  BY <1>2 DEF Events
<1>4. PICK more \in Seq(Bits) : more = Append(sh, piece)
  BY AppendProperties
<1>5. Len(more) = l + 1 /\ more[l + 1] = piece /\ \A k \in 1..l : more[k] = sh[k]
  BY <1>1, <1>4, AppendProperties
<1>6. Len(Tail(ev)) = Len(ev) - 1 /\ \A k \in 1..(Len(ev) - 1) : Tail(ev)[k] = ev[k + 1]
  BY <1>2, HeadTailProperties
<1>7. Len(sent) = l + n
  BY <1>1 DEF LinedUp
<1>8. \A k \in 1..(l + 1) : more[k] = sent[k]
  <2> TAKE k \in 1..(l + 1)
  <2>1. CASE k = l + 1
    <3>1. 1 \in 1..n
      OBVIOUS
    <3> QED BY <1>1, <1>3, <1>5, <2>1, <3>1 DEF LinedUp
  <2>2. CASE k # l + 1
    <3>1. k \in 1..l
      BY <2>2
    <3> QED BY <1>1, <1>5, <3>1 DEF LinedUp
  <2> QED BY <2>1, <2>2
<1>9. \A k \in 1..(n - 1) : Tail(ev)[k].piece = sent[l + 1 + k]
  <2> TAKE k \in 1..(n - 1)
  <2>1. k + 1 \in 1..n /\ k \in 1..(Len(ev) - 1) /\ l + (k + 1) = l + 1 + k
    OBVIOUS
  <2>2. ev[k + 1].piece = sent[l + (k + 1)]
    BY <1>1, <2>1 DEF LinedUp
  <2> QED BY <1>6, <2>1, <2>2
<1> QED BY <1>3, <1>4, <1>5, <1>7, <1>8, <1>9 DEF LinedUp

LEMMA LineEnd ==
  ASSUME NEW sent \in Seq(Bits), NEW sh \in Seq(Bits), NEW ev \in Seq(Events), NEW e \in Events,
         LinedUp(sent, sh, ev, Len(ev))
  PROVE  LinedUp(sent, sh, Append(ev, e), Len(ev))
<1>1. \A k \in 1..Len(ev) : Append(ev, e)[k] = ev[k]
  BY AppendProperties
<1> QED BY <1>1 DEF LinedUp

LEMMA LineOver ==
  ASSUME NEW sent \in Seq(Bits), NEW sh \in Seq(Bits), NEW ev, LinedUp(sent, sh, ev, 0)
  PROVE  sh = sent
<1>1. Len(sent) = Len(sh) /\ \A k \in 1..Len(sh) : sh[k] = sent[k]
  BY DEF LinedUp
<1> QED BY <1>1, SeqEqual

\* The reader takes a chunk.
LEMMA Hearing ==
  ASSUME RelayTyped, Hears(heard, said[source], source), NEW kind \in Kinds,
         NEW piece, piece = <<source, Len(said[source]) + 1>>
  PROVE  /\ piece \in Bits
         /\ Hear(kind, piece) \in Replies /\ Len(Hear(kind, piece).calls) <= MaxToolCalls
         /\ Hears(Hear(kind, piece), Append(said[source], kind), source)
         /\ Hear(kind, piece).text = IF kind = Text THEN Append(heard.text, piece) ELSE heard.text
<1>1. PICK words \in Seq(Kinds) : words = said[source]
  BY DEF RelayTyped
<1>2. PICK s \in Origins : s = source
  BY DEF RelayTyped
<1>3. piece = <<s, Len(words) + 1>> /\ piece \in Bits
  BY <1>1, <1>2 DEF Bits
<1>4. PICK h \in Replies : h = heard
  BY DEF RelayTyped
<1>5. h.text \in Seq(Bits) /\ h.thought \in Seq(Bits) /\ h.calls \in Seq(CallRecs)
  BY DEF Replies
<1>6. Len(h.calls) <= MaxToolCalls
  BY <1>4 DEF RelayTyped
<1>7. Tells(h.text, words, s, Text) /\ Tells(h.thought, words, s, Thought)
      /\ \A i \in CallNumbers : Tells(Arguments(h.calls, i), words, s, i)
  BY <1>1, <1>2, <1>4 DEF Hears
<1>8. \A i \in CallNumbers : Arguments(h.calls, i) \in Seq(Bits)
  <2> TAKE i \in CallNumbers
  <2>1. CASE i \in DOMAIN h.calls
    <3>1. h.calls[i] \in CallRecs
      BY <1>5, <2>1
    <3>2. h.calls[i].arguments \in Seq(Bits)
      BY <3>1 DEF CallRecs
    <3> QED BY <2>1, <3>2 DEF Arguments
  <2>2. CASE i \notin DOMAIN h.calls
    <3>1. <<>> \in Seq(Bits)
      OBVIOUS
    <3> QED BY <2>2, <3>1 DEF Arguments
  <2> QED BY <2>1, <2>2
<1>9. Text \in Kinds /\ Thought \in Kinds /\ Text # Thought /\ CallNumbers \subseteq Kinds
      /\ Text \notin CallNumbers /\ Thought \notin CallNumbers
  BY RelayAssumption DEF Kinds, Text, Thought, CallNumbers
<1>10. PICK g : g = Hear(kind, piece)
  OBVIOUS
<1>11. PICK longer \in Seq(Kinds) : longer = Append(words, kind)
  BY AppendProperties
<1>12. CASE kind = Text
  <2>1. PICK more \in Seq(Bits) : more = Append(h.text, piece)
    BY <1>3, <1>5, AppendProperties
  <2>2. g = [text |-> more, thought |-> h.thought, calls |-> h.calls]
    BY <1>4, <1>9, <1>10, <1>12, <2>1 DEF Hear, Replies
  <2>3. Tells(more, longer, s, Text)
    BY <1>3, <1>5, <1>7, <1>9, <1>11, <1>12, <2>1, TellsMore
  <2>4. Tells(h.thought, longer, s, Thought) /\ \A i \in CallNumbers : Tells(Arguments(h.calls, i), longer, s, i)
    BY <1>5, <1>7, <1>8, <1>9, <1>11, <1>12, TellsStill
  <2>5. g \in Replies /\ g.calls = h.calls /\ g.text = more
    BY <1>5, <2>2 DEF Replies
  <2>6. Hears(g, longer, s)
    BY <2>2, <2>3, <2>4 DEF Hears
  <2> QED BY <1>1, <1>2, <1>3, <1>4, <1>6, <1>10, <1>11, <1>12, <2>1, <2>5, <2>6
<1>13. CASE kind = Thought
  <2>1. PICK more \in Seq(Bits) : more = Append(h.thought, piece)
    BY <1>3, <1>5, AppendProperties
  <2>2. g = [text |-> h.text, thought |-> more, calls |-> h.calls]
    BY <1>4, <1>9, <1>10, <1>13, <2>1 DEF Hear, Replies
  <2>3. Tells(more, longer, s, Thought)
    BY <1>3, <1>5, <1>7, <1>9, <1>11, <1>13, <2>1, TellsMore
  <2>4. Tells(h.text, longer, s, Text) /\ \A i \in CallNumbers : Tells(Arguments(h.calls, i), longer, s, i)
    BY <1>5, <1>7, <1>8, <1>9, <1>11, <1>13, TellsStill
  <2>5. g \in Replies /\ g.calls = h.calls /\ g.text = h.text
    BY <1>5, <2>2 DEF Replies
  <2>6. Hears(g, longer, s)
    BY <2>2, <2>3, <2>4 DEF Hears
  <2> QED BY <1>1, <1>2, <1>3, <1>4, <1>6, <1>9, <1>10, <1>11, <1>13, <2>5, <2>6
<1>14. CASE kind \in CallNumbers
  <2>1. kind \in Nat /\ kind <= MaxToolCalls
    BY <1>14, RelayAssumption DEF CallNumbers
  <2>2. PICK id \in Nat : id = IF kind \in Range(words) THEN 0 ELSE kind
    BY <2>1
  <2>3. PICK more : more = MergeToolCalls(h.calls, kind, piece, id)
    OBVIOUS
  <2>4. /\ more \in Seq(CallRecs) /\ Len(more) = IF kind > Len(h.calls) THEN kind ELSE Len(h.calls)
        /\ Arguments(more, kind) = Append(Arguments(h.calls, kind), piece)
        /\ \A j \in CallNumbers \ {kind} : Arguments(more, j) = Arguments(h.calls, j)
    BY <1>3, <1>5, <1>14, <2>3, Merged
  <2>5. g = [text |-> h.text, thought |-> h.thought, calls |-> more]
    BY <1>1, <1>4, <1>9, <1>10, <1>14, <2>2, <2>3 DEF Hear, Replies
  <2>6. Len(more) <= MaxToolCalls
    BY <1>6, <2>1, <2>4
  <2>7. Tells(h.text, longer, s, Text) /\ Tells(h.thought, longer, s, Thought)
    BY <1>5, <1>7, <1>9, <1>11, <1>14, TellsStill
  <2>8. ASSUME NEW i \in CallNumbers PROVE Tells(Arguments(more, i), longer, s, i)
    <3>1. PICK args \in Seq(Bits) : args = Arguments(h.calls, i)
      BY <1>8
    <3>2. Tells(args, words, s, i)
      BY <1>7, <3>1
    <3>3. CASE i = kind
      BY <1>3, <1>9, <1>11, <2>4, <3>1, <3>2, <3>3, TellsMore
    <3>4. CASE i # kind
      BY <1>9, <1>11, <1>14, <2>4, <3>1, <3>2, <3>4, TellsStill
    <3> QED BY <3>3, <3>4
  <2>9. g \in Replies /\ g.calls = more /\ g.text = h.text
    BY <1>5, <2>4, <2>5 DEF Replies
  <2>10. Hears(g, longer, s)
    BY <2>5, <2>7, <2>8 DEF Hears
  <2> QED BY <1>1, <1>2, <1>3, <1>4, <1>9, <1>10, <1>11, <1>14, <2>6, <2>9, <2>10
<1> QED BY <1>12, <1>13, <1>14 DEF Kinds, Text, Thought

----------------------------------------------------------------------------
\* Steps.
LEMMA ReplyStays ==
  ASSUME RelayInv, UNCHANGED <<setting, asker, reply>>, asker = "replied" => shown' = shown,
         early => early', Reads' => Reads, ~Reads => UNCHANGED <<source, said, finished>>
  PROVE  (Over /\ ReplyIsWhole /\ ShownIsAnswer)'
<1>1. CASE asker # "replied"
  BY <1>1 DEF Over, ReplyIsWhole, ShownIsAnswer
<1>2. CASE asker = "replied" /\ ~Reads
  <2>1. Over'
    BY <1>2 DEF Over
  <2>2. UNCHANGED <<direct, streaming, source, said, finished, reply, shown, asker>>
    BY <1>2 DEF setting
  <2>3. ReplyIsWhole'
    BY <2>2 DEF RelayInv, ReplyIsWhole, Told, Pieces
  <2>4. ShownIsAnswer'
    BY <2>2 DEF RelayInv, ShownIsAnswer, Told, Pieces
  <2> QED BY <2>1, <2>3, <2>4
<1>3. CASE asker = "replied" /\ Reads
  <2>1. early /\ shown = reply.text
    BY <1>3 DEF RelayInv, Over
  <2>2. early' /\ shown' = reply'.text
    BY <1>3, <2>1
  <2> QED BY <2>2 DEF Over, ReplyIsWhole, ShownIsAnswer
<1> QED BY <1>1, <1>2, <1>3

\* The text of a reply, or its reasoning.
LEMMA OutputTold ==
  ASSUME NEW h \in Replies, NEW words \in Seq(Kinds), NEW s \in Origins, Hears(h, words, s)
  PROVE  LET at == {k \in DOMAIN words : words[k] = Text}
         IN /\ OutputText(h) \in Seq(Bits)
            /\ h.text = <<>> <=> at = {}
            /\ Tells(OutputText(h), words, s, IF at # {} THEN Text ELSE Thought)
<1>1. h.text \in Seq(Bits) /\ h.thought \in Seq(Bits)
  BY DEF Replies
<1>2. Tells(h.text, words, s, Text) /\ Tells(h.thought, words, s, Thought)
  BY DEF Hears
<1>3. PICK at : at = {k \in DOMAIN words : words[k] = Text}
  OBVIOUS
<1>4. CASE h.text = <<>>
  <2>1. \A k \in DOMAIN words : words[k] # Text
    BY <1>2, <1>4 DEF Tells
  <2>2. at = {}
    BY <1>3, <2>1
  <2> QED BY <1>1, <1>2, <1>3, <1>4, <2>2 DEF OutputText
<1>5. CASE h.text # <<>>
  <2>1. 1 \in DOMAIN h.text
    BY <1>1, <1>5
  <2>2. PICK k \in DOMAIN words : words[k] = Text
    BY <1>2, <2>1 DEF Tells
  <2>3. at # {}
    BY <1>3, <2>2
  <2> QED BY <1>1, <1>2, <1>3, <1>5, <2>3 DEF OutputText
<1> QED BY <1>4, <1>5

\* What a step that replies has to show.
LEMMA ReplyGood ==
  ASSUME NEW h \in Replies, NEW words \in Seq(Kinds), NEW s \in Origins, Hears(h, words, s),
         s = source', words = said'[s], reply'.text = OutputText(h)
  PROVE  /\ h.text = <<>> <=> Pieces(source, Text)' = {}
         /\ source' \in finished' /\ reply'.calls = (IF streaming' /\ ~direct' THEN <<>> ELSE h.calls)
              => ReplyIsWhole'
         /\ (streaming' /\ asker' = "replied" => shown' = h.text) => ShownIsAnswer'
<1>1. PICK at : at = {k \in DOMAIN words : words[k] = Text}
  OBVIOUS
<1>2. Pieces(source, Text)' = {<<s, k>> : k \in at}
  BY <1>1 DEF Pieces
<1>3. Pieces(source, Text)' = {} <=> at = {}
  BY <1>2
<1>4. /\ h.text = <<>> <=> at = {}
      /\ Tells(OutputText(h), words, s, IF at # {} THEN Text ELSE Thought)
  BY <1>1, OutputTold
<1>5. PICK kind : kind = IF at # {} THEN Text ELSE Thought
  OBVIOUS
<1>6. Told(reply.text, source, kind)'
  <2>1. PICK seq : seq = reply'.text
    OBVIOUS
  <2>2. Tells(seq, words, s, kind)
    BY <1>4, <1>5, <2>1
  <2>3. /\ Range(seq) = {<<s, k>> : k \in {k \in DOMAIN words : words[k] = kind}}
        /\ \A m, n \in DOMAIN seq : m < n => seq[m][2] < seq[n][2]
    BY <2>2, TellsRange
  <2> QED BY <2>1, <2>3 DEF Told, Pieces
<1>7. ASSUME NEW i \in CallNumbers, reply'.calls = h.calls PROVE Told(Arguments(reply.calls, i), source, i)'
  <2>1. PICK seq : seq = Arguments(h.calls, i)
    OBVIOUS
  <2>2. Tells(seq, words, s, i)
    BY <2>1 DEF Hears
  <2>3. /\ Range(seq) = {<<s, k>> : k \in {k \in DOMAIN words : words[k] = i}}
        /\ \A m, n \in DOMAIN seq : m < n => seq[m][2] < seq[n][2]
    BY <2>2, TellsRange
  <2>4. Arguments(reply.calls, i)' = seq
    BY <1>7, <2>1 DEF Arguments
  <2> QED BY <2>3, <2>4 DEF Told, Pieces
<1>8. ASSUME source' \in finished', reply'.calls = (IF streaming' /\ ~direct' THEN <<>> ELSE h.calls)
      PROVE  ReplyIsWhole'
  <2>1. Told(reply.text, source, IF Pieces(source, Text) # {} THEN Text ELSE Thought)'
    BY <1>3, <1>5, <1>6
  <2> QED BY <1>7, <1>8, <2>1 DEF ReplyIsWhole
<1>9. ASSUME streaming' /\ asker' = "replied" => shown' = h.text PROVE ShownIsAnswer'
  <2>1. CASE h.text = <<>>
    BY <1>3, <1>4, <1>9, <2>1 DEF ShownIsAnswer
  <2>2. CASE h.text # <<>>
    BY <1>9, <2>2 DEF ShownIsAnswer, OutputText
  <2> QED BY <2>1, <2>2
<1> QED BY <1>3, <1>4, <1>8, <1>9

LEMMA DeltaTyped ==
  ASSUME NEW piece \in Bits, NEW ev \in Seq(Events)
  PROVE  LET e == [type |-> "delta", piece |-> piece]
         IN /\ e \in Events /\ Append(ev, e) \in Seq(Events) /\ Len(Append(ev, e)) = Len(ev) + 1
            /\ Append(ev, e)[Len(ev) + 1] = e /\ \A k \in 1..Len(ev) : Append(ev, e)[k] = ev[k]
<1>1. PICK e : e = [type |-> "delta", piece |-> piece]
  OBVIOUS
<1>2. e \in Events
  BY <1>1 DEF Events
<1> QED BY <1>1, <1>2, AppendProperties

LEMMA ChunkGood ==
  ASSUME RelayInv, NEW kind \in Kinds, Chunk(kind)
  PROVE  RelayInv'
<1>1. PICK piece : piece = <<source, Len(said[source]) + 1>>
  OBVIOUS
<1>2. PICK g : g = Hear(kind, piece)
  OBVIOUS
<1>3. PICK words \in Seq(Kinds) : words = said[source]
  BY DEF RelayInv, RelayTyped
<1>4. PICK longer \in Seq(Kinds) : longer = Append(words, kind)
  BY AppendProperties
<1>5. /\ piece \in Bits /\ g \in Replies /\ Len(g.calls) <= MaxToolCalls
      /\ Hears(g, longer, source)
      /\ g.text = IF kind = Text THEN Append(heard.text, piece) ELSE heard.text
  BY <1>1, <1>2, <1>3, <1>4, Hearing DEF RelayInv
<1>6. /\ streaming /\ Reads /\ source \notin finished /\ (source = "demo" => kind = Text)
      /\ said' = [said EXCEPT ![source] = Append(@, kind)] /\ heard' = g
      /\ UNCHANGED <<setting, source, finished, attempts, upstream, final, asker, reply, early>>
      /\ \/ kind # Text /\ UNCHANGED <<shown, wire>>
         \/ kind = Text /\ direct /\ shown' = Append(shown, piece) /\ wire' = wire
         \/ kind = Text /\ ~direct /\ shown' = shown /\ wire' = Append(wire, [type |-> "delta", piece |-> piece])
  BY <1>1, <1>2 DEF Chunk, Keep
<1>7. /\ source \in Origins /\ said \in [Origins -> Seq(Kinds)]
      /\ said' \in [Origins -> Seq(Kinds)] /\ said'[source] = longer
      /\ \A s \in Origins \ {source} : said'[s] = said[s]
  BY <1>3, <1>4, <1>6 DEF RelayInv, RelayTyped
<1>8. heard \in Replies /\ heard.text \in Seq(Bits) /\ shown \in Seq(Bits) /\ wire \in Seq(Events)
  BY DEF RelayInv, RelayTyped, Replies
<1>9. RelayTyped'
  <2>1. shown' \in Seq(Bits)
    <3>1. Append(shown, piece) \in Seq(Bits)
      BY <1>5, <1>8, AppendProperties
    <3> QED BY <1>6, <1>8, <3>1
  <2>2. wire' \in Seq(Events)
    BY <1>5, <1>6, <1>8, DeltaTyped
  <2> QED BY <1>5, <1>6, <1>7, <2>1, <2>2 DEF RelayInv, RelayTyped, setting
<1>10. InTurn'
  <2>1. \A k \in DOMAIN said'["demo"] : said'["demo"][k] = Text
    <3>1. CASE source = "demo"
      <4>1. \A k \in DOMAIN words : words[k] = Text
        BY <1>3, <3>1 DEF RelayInv, InTurn
      <4>2. DOMAIN longer = 1..(Len(words) + 1) /\ longer[Len(words) + 1] = kind
            /\ \A k \in 1..Len(words) : longer[k] = words[k]
        BY <1>4, AppendProperties
      <4>3. ASSUME NEW k \in DOMAIN longer PROVE longer[k] = Text
        BY <1>6, <3>1, <4>1, <4>2, <4>3
      <4> QED BY <1>7, <3>1, <4>3
    <3>2. CASE source # "demo"
      BY <1>7, <3>2 DEF Origins, RelayInv, InTurn
    <3> QED BY <3>1, <3>2
  <2>2. source = "provider" => said'["demo"] = said["demo"]
    BY <1>7 DEF Origins
  <2>3. source = "demo" => "demo" \notin finished
    BY <1>6
  <2>4. source = "provider" \/ source = "demo"
    BY <1>7 DEF Origins
  <2> QED BY <1>6, <2>1, <2>2, <2>3, <2>4 DEF RelayInv, InTurn, setting
<1>11. Hears(heard, said[source], source)'
  BY <1>5, <1>6, <1>7
<1>12. ~direct => upstream = "asks" /\ Unread(wire, upstream) = Len(wire) /\ Unread(wire, upstream)' = Len(wire')
  BY <1>6 DEF Reads, Unread
<1>13. ASSUME ~direct, asker = "waits" PROVE Wired'
  <2>1. \A k \in 1..Len(wire) : wire[k].type = "delta"
    BY <1>12, <1>13 DEF RelayInv, Wired
  <2>2. \A k \in 1..Len(wire') : wire'[k].type = "delta"
    <3>1. CASE wire' = wire
      BY <2>1, <3>1
    <3>2. CASE wire' = Append(wire, [type |-> "delta", piece |-> piece])
      BY <1>5, <1>8, <2>1, <3>2, DeltaTyped
    <3> QED BY <1>6, <3>1, <3>2
  <2> QED BY <1>6, <1>12, <1>13, <2>2 DEF Wired
<1>14. ASSUME asker = "waits" PROVE OnScreen'
  <2>1. CASE direct
    <3>1. shown = heard.text
      BY <1>6, <1>14, <2>1 DEF RelayInv, OnScreen
    <3>2. shown' = g.text
      BY <1>5, <1>6, <2>1, <3>1
    <3> QED BY <1>6, <2>1, <3>2 DEF OnScreen, setting
  <2>2. CASE ~direct
    <3>1. PICK before \in Seq(Bits) : Follows(before)
      BY <1>6, <1>14, <2>2 DEF RelayInv, OnScreen
    <3>2. PICK sent \in Seq(Bits) : sent = before \o heard.text
      BY <1>8, ConcatProperties
    <3>3. LinedUp(sent, shown, wire, Len(wire))
      BY <1>12, <2>2, <3>1, <3>2 DEF Follows
    <3>4. LinedUp(before \o g.text, shown', wire', Len(wire'))
      <4>1. CASE kind = Text
        <5>1. before \o Append(heard.text, piece) = Append(sent, piece)
          BY <1>5, <1>8, <3>2, AppendIsConcat, ConcatAssociative
        <5>2. LinedUp(Append(sent, piece), shown, wire', Len(wire'))
          BY <1>5, <1>6, <1>8, <2>2, <3>3, <4>1, LineSend
        <5> QED BY <1>5, <1>6, <2>2, <4>1, <5>1, <5>2
      <4>2. CASE kind # Text
        BY <1>5, <1>6, <3>2, <3>3, <4>2
      <4> QED BY <4>1, <4>2
    <3>5. source = "demo" => said'["provider"] = said["provider"]
      BY <1>7 DEF Origins
    <3>6. Follows(before)'
      BY <1>6, <1>12, <2>2, <3>1, <3>4, <3>5 DEF Follows
    <3> QED BY <1>6, <2>2, <3>6 DEF OnScreen, setting
  <2> QED BY <2>1, <2>2
<1>15. asker = "replied" => shown' = shown
  BY <1>6 DEF Reads, RelayInv, RelayTyped
<1>16. (Over /\ ReplyIsWhole /\ ShownIsAnswer)'
  <2>1. Reads' => Reads
    BY <1>6
  <2> QED BY <1>6, <1>15, <2>1, ReplyStays
<1> QED BY <1>6, <1>9, <1>10, <1>11, <1>13, <1>14, <1>16 DEF RelayInv, setting

LEMMA FinishGood == ASSUME RelayInv, Finish PROVE RelayInv'
<1>1. /\ streaming /\ Reads /\ source \notin finished /\ (source = "demo" => said["demo"] # <<>>)
      /\ finished' = finished \cup {source}
      /\ UNCHANGED <<setting, source, said, heard, attempts, wire, upstream, shown, final, early>>
  BY DEF Finish
<1>2. /\ source \in Origins /\ heard \in Replies /\ said[source] \in Seq(Kinds)
  BY DEF RelayInv, RelayTyped
<1>3. RelayTyped'
  <2>1. asker' \in {"waits", "replied", "threw", "aborted"}
    BY DEF Finish, Returned, RelayInv, RelayTyped
  <2> QED BY <1>1, <2>1 DEF RelayInv, RelayTyped, setting
<1>4. CASE direct
  <2>1. asker = "waits" /\ asker' = "replied" /\ upstream = "none"
        /\ reply'.text = OutputText(heard) /\ reply'.calls = heard.calls
    BY <1>1, <1>4 DEF Finish, Returned, Nothing, Reads, RelayInv, RelayTyped
  <2>2. shown = heard.text
    BY <1>1, <1>4, <2>1 DEF RelayInv, OnScreen
  <2>3. InTurn'
    BY <1>1, <1>2, <1>4, <2>1 DEF RelayInv, InTurn, setting, Origins
  <2>4. Over'
    BY <1>1, <1>4, <2>1 DEF Over, Reads, setting
  <2>5. (ReplyIsWhole /\ ShownIsAnswer)'
    <3>1. Hears(heard, said[source], source)
      BY DEF RelayInv
    <3>2. PICK words \in Seq(Kinds) : words = said[source]
      BY <1>2
    <3>3. source' \in finished'
          /\ reply'.calls = (IF streaming' /\ ~direct' THEN <<>> ELSE heard.calls)
      BY <1>1, <1>4, <2>1 DEF setting
    <3>4. streaming' /\ asker' = "replied" => shown' = heard.text
      BY <1>1, <2>2
    <3>5. source = source' /\ words = said'[source]
      BY <1>1, <3>2
    <3> QED BY <1>2, <2>1, <3>1, <3>2, <3>3, <3>4, <3>5, ReplyGood
  <2>6. Hears(heard, said[source], source)'
    BY <1>1 DEF RelayInv
  <2> QED BY <1>1, <1>3, <1>4, <2>1, <2>3, <2>4, <2>5, <2>6 DEF RelayInv, setting
<1>5. CASE ~direct
  <2>1. UNCHANGED <<asker, reply>> /\ upstream = "asks"
    BY <1>1, <1>5 DEF Finish, Reads
  <2>2. InTurn'
    BY <1>1, <1>2, <1>5, <2>1 DEF RelayInv, InTurn, setting, Origins
  <2>3. asker = "waits" => Wired'
    BY <1>1, <1>5, <2>1 DEF RelayInv, Wired, Unread
  <2>4. asker = "waits" => OnScreen'
    BY <1>1, <1>5 DEF RelayInv, OnScreen, Follows, setting
  <2>5. (Over /\ ReplyIsWhole /\ ShownIsAnswer)'
    <3>1. (Reads' => Reads) /\ (asker = "replied" => shown' = shown) /\ (early => early')
      BY <1>1
    <3> QED BY <1>1, <2>1, <3>1, ReplyStays
  <2>6. Hears(heard, said[source], source)'
    BY <1>1 DEF RelayInv
  <2> QED BY <1>1, <1>3, <1>5, <2>1, <2>2, <2>3, <2>4, <2>5, <2>6 DEF RelayInv, setting
<1> QED BY <1>4, <1>5

\* The event that ends the server's stream.
LEMMA LastEvent ==
  ASSUME RelayInv, ~direct, upstream = "asks", upstream' = "over",
         NEW e \in Events, e.type # "delta", e.type = "error" \/ (e = DoneEvent' /\ (source' \in finished' \/ early')),
         wire' = Append(wire, e), UNCHANGED <<setting, source, said, heard, shown, asker>>
  PROVE  wire' \in Seq(Events) /\ (asker = "waits" => Wired' /\ OnScreen')
<1>1. wire \in Seq(Events) /\ shown \in Seq(Bits) /\ heard.text \in Seq(Bits)
  BY DEF RelayInv, RelayTyped, Replies
<1>2. PICK n \in Nat : n = Len(wire)
  BY <1>1
<1>3. /\ wire' \in Seq(Events) /\ Len(wire') = n + 1 /\ wire'[n + 1] = e
      /\ \A k \in 1..n : wire'[k] = wire[k]
  BY <1>1, <1>2, AppendProperties
<1>4. Unread(wire, upstream) = n /\ Unread(wire, upstream)' = n /\ wire' # <<>>
  BY <1>1, <1>2, <1>3 DEF Unread
<1>5. ASSUME asker = "waits" PROVE Wired'
  <2>1. \A k \in 1..n : wire'[k].type = "delta"
    BY <1>3, <1>4, <1>5 DEF RelayInv, Wired
  <2>2. Ending(e)'
    BY DEF Ending
  <2> QED BY <1>3, <1>4, <2>1, <2>2 DEF Wired, Ending
<1>6. ASSUME asker = "waits" PROVE OnScreen'
  <2>1. CASE ~streaming
    BY <2>1 DEF OnScreen, setting
  <2>2. CASE streaming
    <3>1. PICK before \in Seq(Bits) : Follows(before)
      BY <1>6, <2>2 DEF RelayInv, OnScreen
    <3>2. PICK sent \in Seq(Bits) : sent = before \o heard.text
      BY <1>1, ConcatProperties
    <3>3. LinedUp(sent, shown, wire, n)
      BY <1>4, <3>1, <3>2 DEF Follows
    <3>4. LinedUp(sent, shown, wire', n)
      BY <1>1, <1>2, <3>3, LineEnd
    <3>5. Follows(before)'
      BY <1>4, <3>1, <3>2, <3>4 DEF Follows
    <3> QED BY <3>5 DEF OnScreen, setting
  <2> QED BY <2>1, <2>2
<1> QED BY <1>3, <1>5, <1>6

LEMMA DoneTyped ==
  ASSUME RelayInv
  PROVE  /\ DoneEvent \in Events /\ DoneEvent.type = "done"
         /\ [type |-> "error"] \in Events
<1>1. heard \in Replies /\ OutputText(heard) \in Seq(Bits) /\ heard.calls \in Seq(CallRecs)
  BY DEF RelayInv, RelayTyped, Replies, OutputText
<1> QED BY <1>1 DEF DoneEvent, Events

LEMMA EndOfStreamGood == ASSUME RelayInv, EndOfStream PROVE RelayInv'
<1>1. /\ streaming /\ Reads /\ (source = "demo" => source \in finished)
      /\ early' = (early \/ source \notin finished) /\ UNCHANGED <<setting, reading, shown, final>>
  BY DEF EndOfStream
<1>2. /\ UNCHANGED <<direct, streaming, source, said, finished, heard, attempts>>
  BY <1>1 DEF setting, reading
<1>3. Hears(heard, said[source], source)'
  BY <1>2 DEF RelayInv
<1>4. CASE direct
  <2>1. asker = "waits" /\ asker' = "replied" /\ upstream = "none" /\ UNCHANGED <<wire, upstream>>
        /\ (reply'.text = heard.text \/ reply'.text = OutputText(heard))
    BY <1>1, <1>4 DEF EndOfStream, Returned, Nothing, Reads, RelayInv, RelayTyped
  <2>2. shown = heard.text
    BY <1>1, <1>4, <2>1 DEF RelayInv, OnScreen
  <2>3. source \notin finished
    BY <1>4, <2>1 DEF RelayInv, InTurn
  <2>4. early'
    BY <1>1, <2>3
  <2>5. RelayTyped' /\ InTurn'
    BY <1>1, <1>2, <1>4, <2>1 DEF RelayInv, RelayTyped, InTurn
  <2>6. Over' /\ ReplyIsWhole'
    BY <1>2, <1>4, <2>1, <2>4 DEF Over, Reads, ReplyIsWhole
  <2>7. ShownIsAnswer'
    <3>1. CASE reply'.text = heard.text
      BY <1>1, <2>2, <3>1 DEF ShownIsAnswer
    <3>2. CASE reply'.text = OutputText(heard)
      <4>1. PICK words \in Seq(Kinds) : words = said[source]
        BY DEF RelayInv, RelayTyped
      <4>2. heard \in Replies /\ source \in Origins /\ Hears(heard, said[source], source)
        BY DEF RelayInv, RelayTyped
      <4>3. source = source' /\ words = said'[source]
        BY <1>2, <4>1
      <4>4. streaming' /\ asker' = "replied" => shown' = heard.text
        BY <1>1, <2>2
      <4> QED BY <3>2, <4>1, <4>2, <4>3, <4>4, ReplyGood
    <3> QED BY <2>1, <3>1, <3>2
  <2> QED BY <1>2, <1>3, <1>4, <2>1, <2>5, <2>6, <2>7 DEF RelayInv
<1>5. CASE ~direct
  <2>1. upstream = "asks" /\ upstream' = "over" /\ UNCHANGED <<asker, reply>>
    BY <1>1, <1>5 DEF EndOfStream, Reads, Answer
  <2>2. PICK e : e \in {DoneEvent, [type |-> "error"]} /\ wire' = Append(wire, e)
    BY <1>5 DEF EndOfStream, Answer
  <2>3. e \in Events /\ e.type # "delta" /\ (e.type = "error" \/ e = DoneEvent)
    BY <2>2, DoneTyped
  <2>4. DoneEvent' = DoneEvent
    BY <1>2 DEF DoneEvent
  <2>5. source' \in finished' \/ early'
    BY <1>1, <1>2
  <2>6. wire' \in Seq(Events) /\ (asker = "waits" => Wired' /\ OnScreen')
    BY <1>1, <1>2, <1>5, <2>1, <2>2, <2>3, <2>4, <2>5, LastEvent
  <2>7. RelayTyped' /\ InTurn'
    BY <1>1, <1>2, <1>5, <2>1, <2>6 DEF RelayInv, RelayTyped, InTurn
  <2>8. (Over /\ ReplyIsWhole /\ ShownIsAnswer)'
    <3>1. (Reads' => Reads) /\ (asker = "replied" => shown' = shown) /\ (early => early')
      BY <1>1
    <3> QED BY <1>1, <1>2, <2>1, <3>1, ReplyStays
  <2> QED BY <1>2, <1>3, <1>5, <2>1, <2>6, <2>7, <2>8 DEF RelayInv
<1> QED BY <1>4, <1>5

LEMMA SourceFailsGood == ASSUME RelayInv, SourceFails PROVE RelayInv'
<1>1. /\ Reads /\ source = "provider" /\ UNCHANGED <<setting, said, finished, attempts, shown, final, reply, early>>
  BY DEF SourceFails
<1>2. UNCHANGED <<direct, streaming>>
  BY <1>1 DEF setting
<1>3. CASE direct
  <2>1. asker' = "threw" /\ UNCHANGED <<source, heard, wire, upstream>>
    BY <1>3 DEF SourceFails
  <2>2. RelayTyped' /\ InTurn' /\ Hears(heard, said[source], source)'
    BY <1>1, <1>2, <2>1 DEF RelayInv, RelayTyped, InTurn
  <2> QED BY <1>2, <2>1, <2>2 DEF RelayInv, Over, ReplyIsWhole, ShownIsAnswer
<1>4. CASE ~direct /\ fallback
  <2>1. /\ UNCHANGED <<asker, wire, upstream>> /\ source' = "demo" /\ heard' = Nothing
        /\ upstream = "asks"
    BY <1>1, <1>4 DEF SourceFails, Reads
  <2>2. said["demo"] = <<>>
    BY <1>1 DEF RelayInv, InTurn
  <2>3. heard' \in Replies /\ Len(heard'.calls) <= MaxToolCalls /\ heard'.text = <<>>
    <3>1. <<>> \in Seq(Bits) /\ <<>> \in Seq(CallRecs) /\ Len(<<>>) = 0
      OBVIOUS
    <3> QED BY <2>1, <3>1, RelayAssumption DEF Nothing, Replies
  <2>4. RelayTyped'
    BY <1>1, <1>2, <2>1, <2>3 DEF RelayInv, RelayTyped, Origins
  <2>5. InTurn'
    BY <1>1, <1>2, <1>4, <2>1, <2>2 DEF RelayInv, InTurn
  <2>6. Hears(heard, said[source], source)'
    <3>1. \A kind : Tells(<<>>, <<>>, "demo", kind)
      BY DEF Tells
    <3>2. \A i : Arguments(<<>>, i) = <<>>
      BY DEF Arguments
    <3> QED BY <1>1, <2>1, <2>2, <3>1, <3>2 DEF Hears, Nothing
  <2>7. asker = "waits" => Wired'
    BY <1>1, <1>4, <2>1 DEF RelayInv, Wired, Unread
  <2>8. ASSUME asker = "waits" PROVE OnScreen'
    <3>1. CASE ~streaming
      BY <1>2, <3>1 DEF OnScreen
    <3>2. CASE streaming
      <4>1. PICK before \in Seq(Bits) : Follows(before)
        BY <1>4, <2>8, <3>2 DEF RelayInv, OnScreen
      <4>2. before = <<>> /\ heard.text \in Seq(Bits)
        BY <1>1, <4>1 DEF Follows, RelayInv, RelayTyped, Replies
      <4>3. before \o heard.text = heard.text /\ heard.text \o <<>> = heard.text
        BY <4>2, ConcatEmptySeq
      <4>4. Tells(heard.text, said["provider"], "provider", Text)
        BY <1>1 DEF RelayInv, Hears
      <4>5. PICK text \in Seq(Bits) : text = heard.text
        BY <4>2
      <4>6. LinedUp(text \o heard'.text, shown', wire', Unread(wire, upstream)')
        BY <1>1, <2>1, <2>3, <4>1, <4>3, <4>5 DEF Follows, Unread
      <4>7. Follows(text)'
        BY <1>1, <2>1, <4>4, <4>5, <4>6 DEF Follows
      <4> QED BY <1>2, <1>4, <4>7 DEF OnScreen
    <3> QED BY <3>1, <3>2
  <2>9. (Over /\ ReplyIsWhole /\ ShownIsAnswer)'
    <3>1. (Reads' => Reads) /\ (asker = "replied" => shown' = shown) /\ (early => early')
      BY <1>1, <1>2, <2>1 DEF Reads
    <3> QED BY <1>1, <2>1, <3>1, ReplyStays
  <2> QED BY <1>2, <1>4, <2>1, <2>4, <2>5, <2>6, <2>7, <2>8, <2>9 DEF RelayInv
<1>5. CASE ~direct /\ ~fallback
  <2>1. /\ UNCHANGED <<asker, source, heard>> /\ upstream' = "over" /\ upstream = "asks"
        /\ wire' = Append(wire, [type |-> "error"])
    BY <1>1, <1>5 DEF SourceFails, Reads
  <2>2. wire' \in Seq(Events) /\ (asker = "waits" => Wired' /\ OnScreen')
    <3>1. PICK e : e = [type |-> "error"]
      OBVIOUS
    <3>2. e \in Events /\ e.type = "error"
      BY <3>1, DoneTyped
    <3> QED BY <1>1, <1>5, <2>1, <3>1, <3>2, LastEvent
  <2>3. RelayTyped'
    BY <1>1, <1>2, <1>5, <2>1, <2>2 DEF RelayInv, RelayTyped
  <2>4. InTurn'
    BY <1>1, <1>2, <1>5, <2>1 DEF RelayInv, InTurn
  <2>5. Hears(heard, said[source], source)'
    BY <1>1, <2>1 DEF RelayInv
  <2>6. (Over /\ ReplyIsWhole /\ ShownIsAnswer)'
    <3>1. (Reads' => Reads) /\ (asker = "replied" => shown' = shown) /\ (early => early')
      BY <1>1
    <3> QED BY <1>1, <2>1, <3>1, ReplyStays
  <2> QED BY <1>2, <1>5, <2>1, <2>2, <2>3, <2>4, <2>5, <2>6 DEF RelayInv
<1> QED BY <1>3, <1>4, <1>5

LEMMA RetryGood == ASSUME RelayInv, Retry PROVE RelayInv'
<1>1. /\ attempts <= RetryCount /\ attempts' = attempts + 1 /\ ~streaming /\ ~direct
      /\ UNCHANGED <<setting, source, said, finished, heard, wire, upstream, receiving>>
  BY DEF Retry
<1>2. UNCHANGED <<direct, streaming, source, said, finished, heard, wire, upstream, shown, final, asker, reply, early>>
  BY <1>1 DEF setting, receiving
<1>3. attempts' \in 1..RetryCount + 1
  BY <1>1, RelayAssumption DEF RelayInv, RelayTyped
<1>4. RelayTyped'
  BY <1>2, <1>3 DEF RelayInv, RelayTyped
<1>5. InTurn' /\ Hears(heard, said[source], source)'
  BY <1>2 DEF RelayInv, InTurn
<1>6. asker = "waits" => Wired' /\ OnScreen'
  BY <1>1, <1>2 DEF RelayInv, Wired, Unread, Ending, DoneEvent, OnScreen
<1>7. (Over /\ ReplyIsWhole /\ ShownIsAnswer)'
  <2>1. Reads' => Reads
    BY <1>2 DEF Reads
  <2> QED BY <1>1, <1>2, <2>1, ReplyStays
<1> QED BY <1>2, <1>4, <1>5, <1>6, <1>7 DEF RelayInv

\* A whole reply has each of its parts once.
WholeReplies == {<<>>, <<Text>>, <<Thought>>, <<Text, 1>>, <<Thought, 1>>}
Part(kinds, s, kind) ==
  LET at == {k \in DOMAIN kinds : kinds[k] = kind}
  IN IF at = {} THEN <<>> ELSE <<<<s, CHOOSE k \in at : TRUE>>>>

LEMMA PartTells ==
  ASSUME NEW kinds \in WholeReplies, NEW s \in Origins, NEW kind
  PROVE  Part(kinds, s, kind) \in Seq(Bits) /\ Tells(Part(kinds, s, kind), kinds, s, kind)
<1>1. PICK at : at = {k \in DOMAIN kinds : kinds[k] = kind}
  OBVIOUS
<1>2. DOMAIN kinds \subseteq Nat /\ \A j, k \in DOMAIN kinds : kinds[j] = kinds[k] => j = k
  BY DEF WholeReplies, Text, Thought
<1>3. CASE at = {}
  <2>1. Part(kinds, s, kind) = <<>>
    BY <1>1, <1>3 DEF Part
  <2> QED BY <1>1, <1>3, <2>1 DEF Tells
<1>4. CASE at # {}
  <2>1. PICK i : i = CHOOSE k \in at : TRUE
    OBVIOUS
  <2>2. i \in at /\ \A k \in at : k = i
    BY <1>1, <1>2, <1>4, <2>1
  <2>3. Part(kinds, s, kind) = <<<<s, i>>>>
    BY <1>1, <1>4, <2>1 DEF Part
  <2>4. <<s, i>> \in Bits
    BY <1>1, <1>2, <2>2 DEF Bits
  <2> QED BY <1>1, <2>2, <2>3, <2>4 DEF Tells
<1> QED BY <1>3, <1>4

LEMMA WholeHears ==
  ASSUME NEW kinds \in WholeReplies, NEW s \in Origins, NEW calls, NEW h,
         calls = (IF 1 \in Range(kinds) THEN <<[id |-> 1, arguments |-> Part(kinds, s, 1)]>> ELSE <<>>),
         h = [text |-> Part(kinds, s, Text), thought |-> Part(kinds, s, Thought), calls |-> calls]
  PROVE  kinds \in Seq(Kinds) /\ h \in Replies /\ Len(calls) <= MaxToolCalls /\ Hears(h, kinds, s)
<1>1. Text \in Kinds /\ Thought \in Kinds /\ 1 \in Kinds /\ 1 \in CallNumbers
  BY RelayAssumption DEF Kinds, CallNumbers
<1>2. kinds \in Seq(Kinds)
  <2>1. \A a \in Kinds : <<a>> \in Seq(Kinds) /\ <<a, 1>> \in Seq(Kinds)
    BY <1>1
  <2>2. <<>> \in Seq(Kinds)
    OBVIOUS
  <2> QED BY <1>1, <2>1, <2>2 DEF WholeReplies
<1>3. Part(kinds, s, 1) \in Seq(Bits)
  BY PartTells
<1>4. PICK one : one = [id |-> 1, arguments |-> Part(kinds, s, 1)]
  OBVIOUS
<1>5. one \in CallRecs
  BY <1>3, <1>4 DEF CallRecs
<1>6. calls \in Seq(CallRecs) /\ Len(calls) <= MaxToolCalls
  <2>1. <<one>> \in Seq(CallRecs) /\ Len(<<one>>) = 1 /\ <<>> \in Seq(CallRecs) /\ Len(<<>>) = 0
    BY <1>5
  <2> QED BY <1>4, <2>1, RelayAssumption
<1>7. h \in Replies
  BY <1>6, PartTells DEF Replies
<1>8. ASSUME NEW i \in CallNumbers PROVE Tells(Arguments(calls, i), kinds, s, i)
  <2>1. i \in Nat /\ i > 0
    BY <1>8, RelayAssumption DEF CallNumbers
  <2>2. CASE i = 1 /\ 1 \in Range(kinds)
    <3>1. Arguments(calls, i) = Part(kinds, s, 1)
      BY <2>2 DEF Arguments
    <3> QED BY <2>2, <3>1, PartTells
  <2>3. CASE ~(i = 1 /\ 1 \in Range(kinds))
    <3>1. Arguments(calls, i) = <<>>
      BY <2>1, <2>3 DEF Arguments
    <3>2. \A k \in DOMAIN kinds : kinds[k] # i
      <4>1. i = 1 => \A k \in DOMAIN kinds : kinds[k] # i
        BY <2>3 DEF Range
      <4>2. i # 1 => \A k \in DOMAIN kinds : kinds[k] # i
        BY <2>1 DEF WholeReplies, Text, Thought
      <4> QED BY <4>1, <4>2
    <3> QED BY <3>1, <3>2 DEF Tells
  <2> QED BY <2>2, <2>3
<1> QED BY <1>2, <1>6, <1>7, <1>8, PartTells DEF Hears

LEMMA WholeGood == ASSUME RelayInv, NEW kinds \in WholeReplies, Whole(kinds) PROVE RelayInv'
<1>1. /\ ~streaming /\ Reads /\ (source = "demo" => kinds = <<Text>>)
      /\ said' = [said EXCEPT ![source] = kinds] /\ finished' = finished \cup {source}
      /\ UNCHANGED <<setting, source, attempts, shown, final, early>>
  BY DEF Whole
<1>2. UNCHANGED <<direct, streaming>>
  BY <1>1 DEF setting
<1>3. PICK s \in Origins : s = source
  BY DEF RelayInv, RelayTyped
<1>4. PICK calls : calls = IF 1 \in Range(kinds) THEN <<[id |-> 1, arguments |-> Part(kinds, s, 1)]>> ELSE <<>>
  OBVIOUS
<1>5. PICK h : h = [text |-> Part(kinds, s, Text), thought |-> Part(kinds, s, Thought), calls |-> calls]
  OBVIOUS
<1>6. kinds \in Seq(Kinds) /\ h \in Replies /\ Len(calls) <= MaxToolCalls /\ Hears(h, kinds, s)
  BY <1>4, <1>5, WholeHears
<1>7. /\ heard' = h
      /\ IF direct
           THEN Returned(OutputText(h), calls) /\ UNCHANGED <<wire, upstream>>
           ELSE /\ upstream' = "over" /\ UNCHANGED <<asker, reply>>
                /\ \E type \in {"done", "error"} :
                     wire' = <<[type |-> type, text |-> OutputText(h), calls |-> calls]>>
  BY <1>3, <1>4, <1>5 DEF Whole, Part
<1>8. h.calls = calls
  BY <1>5
<1>9. /\ said' \in [Origins -> Seq(Kinds)] /\ said'[s] = kinds
      /\ \A o \in Origins \ {s} : said'[o] = said[o]
  BY <1>1, <1>3, <1>6 DEF RelayInv, RelayTyped
<1>10. Hears(heard, said[source], source)'
  BY <1>1, <1>3, <1>6, <1>7, <1>9
<1>11. direct => asker = "waits" /\ upstream = "none" /\ asker' = "replied"
                 /\ reply'.text = OutputText(h) /\ reply'.calls = calls
  BY <1>1, <1>7 DEF Reads, Returned, Nothing, RelayInv, RelayTyped
<1>12. ~direct => upstream = "asks"
  BY <1>1 DEF Reads
<1>13. InTurn'
  <2>1. ASSUME s = "demo", NEW k \in DOMAIN said'["demo"]
        PROVE  said'["demo"][k] = Text
    BY <1>1, <1>3, <1>9, <2>1
  <2>2. s = "demo" => said'["demo"] # <<>>
    BY <1>1, <1>3, <1>9
  <2>3. s # "demo" => said'["demo"] = said["demo"] /\ s = "provider"
    BY <1>3, <1>9 DEF Origins
  <2> QED BY <1>1, <1>2, <1>3, <1>11, <2>1, <2>2, <2>3 DEF RelayInv, InTurn
<1>14. CASE direct
  <2>1. RelayTyped'
    BY <1>1, <1>2, <1>3, <1>6, <1>7, <1>8, <1>9, <1>11, <1>14 DEF RelayInv, RelayTyped
  <2>2. Over'
    BY <1>2, <1>7, <1>11, <1>14 DEF Over, Reads
  <2>3. (ReplyIsWhole /\ ShownIsAnswer)'
    <3>1. source' \in finished' /\ reply'.calls = (IF streaming' /\ ~direct' THEN <<>> ELSE h.calls)
      BY <1>1, <1>2, <1>8, <1>11, <1>14
    <3>2. streaming' /\ asker' = "replied" => shown' = h.text
      BY <1>1, <1>2
    <3>3. s = source' /\ kinds = said'[s]
      BY <1>1, <1>3, <1>9
    <3> QED BY <1>6, <1>11, <1>14, <3>1, <3>2, <3>3, ReplyGood
  <2> QED BY <1>2, <1>10, <1>11, <1>13, <1>14, <2>1, <2>2, <2>3 DEF RelayInv
<1>15. CASE ~direct
  <2>1. PICK type \in {"done", "error"} :
          wire' = <<[type |-> type, text |-> OutputText(h), calls |-> calls]>>
    BY <1>7, <1>15
  <2>2. PICK e : e = [type |-> type, text |-> OutputText(h), calls |-> calls]
    OBVIOUS
  <2>3. OutputText(h) \in Seq(Bits) /\ calls \in Seq(CallRecs)
    BY <1>6, <1>8 DEF Replies, OutputText
  <2>4. e \in Events
    BY <2>2, <2>3 DEF Events
  <2>5. e.type = "error" \/ (e = DoneEvent' /\ source' \in finished')
    BY <1>1, <1>7, <1>8, <2>2 DEF DoneEvent
  <2>6. wire' \in Seq(Events) /\ Len(wire') = 1 /\ wire'[1] = e /\ wire' # <<>>
    BY <2>1, <2>2, <2>4
  <2>7. RelayTyped'
    BY <1>1, <1>2, <1>3, <1>6, <1>7, <1>8, <1>9, <1>15, <2>6 DEF RelayInv, RelayTyped
  <2>8. Wired'
    <3>1. Unread(wire, upstream)' = 0
      BY <1>7, <1>15, <2>6 DEF Unread
    <3>2. e.type # "delta"
      BY <2>2
    <3> QED BY <2>5, <2>6, <3>1, <3>2 DEF Wired, Ending
  <2>9. OnScreen'
    BY <1>1, <1>2 DEF OnScreen
  <2>10. (Over /\ ReplyIsWhole /\ ShownIsAnswer)'
    <3>1. (Reads' => Reads) /\ (asker = "replied" => shown' = shown) /\ (early => early')
      BY <1>1
    <3> QED BY <1>1, <1>7, <1>15, <3>1, ReplyStays
  <2> QED BY <1>2, <1>7, <1>10, <1>13, <1>15, <2>7, <2>8, <2>9, <2>10 DEF RelayInv
<1> QED BY <1>14, <1>15

LEMMA ReadEventGood == ASSUME RelayInv, ReadEvent PROVE RelayInv'
<1>1. /\ ~direct /\ asker = "waits" /\ wire # <<>> /\ wire' = Tail(wire)
      /\ UNCHANGED <<setting, reading, upstream, asker, reply, early>>
  BY DEF ReadEvent
<1>2. UNCHANGED <<direct, streaming, source, said, finished, heard, attempts, upstream, asker, reply, early>>
  BY <1>1 DEF setting, reading
<1>3. wire \in Seq(Events) /\ shown \in Seq(Bits) /\ heard.text \in Seq(Bits) /\ upstream \in {"asks", "over"}
  BY <1>1 DEF RelayInv, RelayTyped, Replies
<1>4. PICK n \in Nat : n = Len(wire)
  BY <1>3
<1>5. /\ n > 0 /\ Head(wire) = wire[1] /\ wire[1] \in Events
      /\ wire' \in Seq(Events) /\ Len(wire') = n - 1 /\ \A k \in 1..(n - 1) : wire'[k] = wire[k + 1]
  BY <1>1, <1>3, <1>4, HeadTailProperties
<1>6. Wired /\ OnScreen
  BY <1>1 DEF RelayInv
<1>7. InTurn' /\ Hears(heard, said[source], source)'
  BY <1>2 DEF RelayInv, InTurn
<1>8. (Over /\ ReplyIsWhole /\ ShownIsAnswer)'
  BY <1>1, <1>2 DEF Over, ReplyIsWhole, ShownIsAnswer
<1>9. \A e : Ending(e)' <=> Ending(e)
  BY <1>2 DEF Ending, DoneEvent
<1>10. CASE wire[1].type = "delta"
  <2>1. shown' = Append(shown, wire[1].piece) /\ final' = final
    BY <1>5, <1>10 DEF ReadEvent, Keep
  <2>2. upstream = "over" => n > 1
    BY <1>1, <1>4, <1>5, <1>6, <1>10 DEF Wired
  <2>3. PICK m \in Nat \ {0} : m = Unread(wire, upstream)
    <3>1. Unread(wire, upstream) = IF upstream = "over" THEN n - 1 ELSE n
      BY <1>1, <1>4 DEF Unread
    <3> QED BY <1>5, <2>2, <3>1
  <2>4. m <= n /\ (m = IF upstream = "over" THEN n - 1 ELSE n)
    BY <1>1, <1>4, <2>3 DEF Unread
  <2>5. upstream = "over" => wire' # <<>>
    BY <1>5, <2>2
  <2>6. Unread(wire, upstream)' = m - 1
    <3>1. Len(wire') = n - 1
      BY <1>5
    <3> QED BY <1>2, <1>3, <2>4, <2>5, <3>1 DEF Unread
  <2>7. shown' \in Seq(Bits)
    <3>1. wire[1].piece \in Bits
      BY <1>5, <1>10 DEF Events
    <3> QED BY <1>3, <2>1, <3>1, AppendProperties
  <2>8. RelayTyped'
    BY <1>2, <1>5, <2>7 DEF RelayInv, RelayTyped
  <2>9. Wired'
    <3>1. \A k \in 1..(m - 1) : wire'[k].type = "delta"
      <4> TAKE k \in 1..(m - 1)
      <4>1. k \in 1..(n - 1) /\ k + 1 \in 1..m
        BY <2>4
      <4> QED BY <1>5, <1>6, <2>3, <4>1 DEF Wired
    <3>2. upstream = "over" => wire'[Len(wire')] = wire[n]
      <4>1. ASSUME upstream = "over" PROVE n - 1 \in 1..(n - 1) /\ (n - 1) + 1 = n
        BY <2>2, <4>1
      <4> QED BY <1>5, <4>1
    <3>3. upstream = "over" => wire[n].type # "delta" /\ Ending(wire[n])
      BY <1>1, <1>4, <1>6 DEF Wired
    <3>4. upstream = "over" => wire'[Len(wire')].type # "delta" /\ Ending(wire[Len(wire)])'
      BY <1>9, <3>2, <3>3 DEF Ending, DoneEvent
    <3> QED BY <1>2, <2>5, <2>6, <3>1, <3>4 DEF Wired
  <2>10. OnScreen'
    <3>1. CASE ~streaming
      BY <1>2, <3>1 DEF OnScreen
    <3>2. CASE streaming
      <4>1. PICK before \in Seq(Bits) : Follows(before)
        BY <1>1, <1>6, <3>2 DEF OnScreen
      <4>2. PICK sent \in Seq(Bits) : sent = before \o heard.text
        BY <1>3, ConcatProperties
      <4>3. LinedUp(sent, shown, wire, m)
        BY <2>3, <4>1, <4>2 DEF Follows
      <4>4. LinedUp(sent, shown', wire', m - 1)
        BY <1>1, <1>3, <1>4, <1>10, <2>1, <2>4, <4>3, LineRead
      <4>5. Follows(before)'
        BY <1>2, <2>6, <4>1, <4>2, <4>4 DEF Follows
      <4> QED BY <1>1, <1>2, <4>5 DEF OnScreen
    <3> QED BY <3>1, <3>2
  <2> QED BY <1>7, <1>8, <2>8, <2>9, <2>10 DEF RelayInv
<1>11. CASE wire[1].type # "delta"
  <2>1. shown' = shown /\ final' = wire[1]
    BY <1>5, <1>11 DEF ReadEvent
  <2>2. upstream = "over" /\ n = 1
    <3>1. 1 \notin 1..Unread(wire, upstream)
      BY <1>6, <1>11 DEF Wired
    <3> QED BY <1>1, <1>3, <1>4, <1>5, <3>1 DEF Unread
  <2>3. wire' = <<>> /\ Unread(wire, upstream) = 0 /\ Unread(wire, upstream)' = 0
    <3>1. wire' = <<>>
      <4>1. wire' \in Seq(Events) /\ Len(wire') = 0
        BY <1>5, <2>2
      <4> QED BY <4>1, EmptySeq
    <3>2. Len(wire') = 0
      BY <1>5, <2>2
    <3>3. Unread(wire, upstream) = 0
      BY <1>1, <1>4, <2>2 DEF Unread
    <3>4. Unread(wire, upstream)' = 0
      BY <3>1, <3>2 DEF Unread
    <3> QED BY <3>1, <3>3, <3>4
  <2>4. Ending(wire[1])
    BY <1>1, <1>4, <1>6, <2>2 DEF Wired
  <2>5. RelayTyped'
    BY <1>2, <1>5, <2>1 DEF RelayInv, RelayTyped
  <2>6. Wired'
    BY <1>2, <2>1, <2>3, <2>4 DEF Wired, Ending, DoneEvent
  <2>7. OnScreen'
    <3>1. CASE ~streaming
      BY <1>2, <3>1 DEF OnScreen
    <3>2. CASE streaming
      <4>1. PICK before \in Seq(Bits) : Follows(before)
        BY <1>1, <1>6, <3>2 DEF OnScreen
      <4>2. Follows(before)'
        BY <1>2, <2>1, <2>3, <4>1 DEF Follows, LinedUp
      <4> QED BY <1>1, <1>2, <4>2 DEF OnScreen
    <3> QED BY <3>1, <3>2
  <2> QED BY <1>7, <1>8, <2>5, <2>6, <2>7 DEF RelayInv
<1> QED BY <1>10, <1>11

LEMMA ConcludeGood == ASSUME RelayInv, Conclude PROVE RelayInv'
<1>1. /\ ~direct /\ asker = "waits" /\ upstream = "over" /\ wire = <<>>
      /\ UNCHANGED <<setting, reading, wire, upstream, shown, final, early>>
  BY DEF Conclude
<1>2. UNCHANGED <<direct, streaming, source, said, finished, heard, attempts, wire, upstream, shown, final, early>>
  BY <1>1 DEF setting, reading
<1>3. InTurn' /\ Hears(heard, said[source], source)'
  BY <1>1, <1>2 DEF RelayInv, InTurn
<1>4. RelayTyped' /\ asker' \in {"threw", "replied"}
  <2>1. asker' \in {"threw", "replied"}
    BY DEF Conclude, Returned
  <2> QED BY <1>2, <2>1 DEF RelayInv, RelayTyped
<1>5. Ending(final)
  BY <1>1 DEF RelayInv, Wired
<1>6. CASE final.type = "error"
  <2>1. asker' = "threw"
    BY <1>6 DEF Conclude
  <2> QED BY <1>2, <1>3, <1>4, <2>1 DEF RelayInv, Over, ReplyIsWhole, ShownIsAnswer
<1>7. CASE final.type # "error"
  <2>1. final = DoneEvent /\ (source \in finished \/ early)
    BY <1>5, <1>7 DEF Ending
  <2>2. /\ asker' = "replied" /\ reply'.text = OutputText(heard)
        /\ reply'.calls = IF streaming THEN <<>> ELSE heard.calls
    BY <1>7, <2>1 DEF Conclude, Returned, Nothing, DoneEvent
  <2>3. Over'
    BY <1>1, <1>2 DEF Over, Reads
  <2>4. PICK words \in Seq(Kinds) : words = said[source]
    BY DEF RelayInv, RelayTyped
  <2>5. heard \in Replies /\ heard.text \in Seq(Bits) /\ source \in Origins /\ Hears(heard, words, source)
    BY <2>4 DEF RelayInv, RelayTyped, Replies
  <2>6. /\ source' \in finished' /\ reply'.calls = (IF streaming' /\ ~direct' THEN <<>> ELSE heard.calls)
             => ReplyIsWhole'
        /\ (streaming' /\ asker' = "replied" => shown' = heard.text) => ShownIsAnswer'
    BY <1>2, <2>2, <2>4, <2>5, ReplyGood
  <2>7. ReplyIsWhole'
    BY <1>1, <1>2, <2>1, <2>2, <2>6 DEF ReplyIsWhole
  <2>8. ShownIsAnswer'
    <3>1. CASE ~streaming
      BY <1>2, <3>1 DEF ShownIsAnswer
    <3>2. CASE streaming
      <4>1. PICK before \in Seq(Bits) : Follows(before)
        BY <1>1, <3>2 DEF RelayInv, OnScreen
      <4>2. PICK sent \in Seq(Bits) : sent = before \o heard.text
        BY <2>5, ConcatProperties
      <4>3. shown = sent
        <5>1. Unread(wire, upstream) = 0
          BY <1>1 DEF Unread
        <5>2. LinedUp(sent, shown, wire, 0)
          BY <4>1, <4>2, <5>1 DEF Follows
        <5>3. shown \in Seq(Bits)
          BY DEF RelayInv, RelayTyped
        <5> QED BY <5>2, <5>3, LineOver
      <4>4. CASE source = "provider"
        <5>1. before = <<>>
          BY <4>1, <4>4 DEF Follows
        <5>2. sent = heard.text
          BY <2>5, <4>2, <5>1, ConcatEmptySeq
        <5> QED BY <1>2, <2>6, <4>3, <5>2
      <4>5. CASE source = "demo"
        <5>1. words # <<>> /\ \A k \in DOMAIN words : words[k] = Text
          BY <1>1, <2>4, <4>5 DEF RelayInv, InTurn
        <5>2. 1 \in DOMAIN words
          BY <2>4, <5>1
        <5>3. heard.text # <<>>
          BY <2>5, <5>1, <5>2 DEF Hears, Tells
        <5>4. reply'.text = heard.text
          BY <2>2, <5>3 DEF OutputText
        <5>5. PICK n \in Nat : n = Len(before)
          OBVIOUS
        <5>6. n \in 0..Len(sent) /\ SubSeq(sent, 1, n) = before
          BY <2>5, <4>2, <5>5, ConcatProperties, SubSeqOfConcat1
        <5>7. Tells(before, said["provider"], "provider", Text)
          BY <4>1, <4>5 DEF Follows
        <5>8. Told(before, "provider", Text)'
          BY <1>2, <5>7, TellsRange DEF Told, Pieces
        <5> QED BY <1>2, <4>2, <4>3, <4>5, <5>4, <5>6, <5>8 DEF ShownIsAnswer
      <4> QED BY <2>5, <4>4, <4>5 DEF Origins
    <3> QED BY <3>1, <3>2
  <2> QED BY <1>3, <1>4, <2>2, <2>3, <2>7, <2>8 DEF RelayInv
<1> QED BY <1>6, <1>7

LEMMA DisconnectedGood == ASSUME RelayInv, Disconnected PROVE RelayInv'
<1>1. /\ ~direct /\ asker = "waits" /\ UNCHANGED <<setting, reading, wire, upstream, shown, final>>
      /\ \/ asker' = "threw" /\ UNCHANGED <<reply, early>>
         \/ asker' = "replied" /\ reply'.text = shown /\ early' = TRUE
  BY DEF Disconnected, Returned, Nothing
<1>2. UNCHANGED <<direct, streaming, source, said, finished, heard, attempts, wire, upstream, shown, final>>
  BY <1>1 DEF setting, reading
<1>3. RelayTyped' /\ InTurn' /\ Hears(heard, said[source], source)'
  BY <1>1, <1>2 DEF RelayInv, RelayTyped, InTurn
<1> QED BY <1>1, <1>2, <1>3 DEF RelayInv, Over, ReplyIsWhole, ShownIsAnswer

LEMMA AbortReadGood == ASSUME RelayInv, AbortRead PROVE RelayInv'
<1>1. asker' = "aborted" /\ UNCHANGED <<setting, reading, wire, upstream, shown, final, reply, early>>
  BY DEF AbortRead
<1>2. UNCHANGED <<direct, streaming, source, said, finished, heard, attempts, wire, upstream, shown, final>>
  BY <1>1 DEF setting, reading
<1>3. RelayTyped' /\ InTurn' /\ Hears(heard, said[source], source)'
  BY <1>1, <1>2 DEF RelayInv, RelayTyped, InTurn
<1> QED BY <1>1, <1>3 DEF RelayInv, Over, ReplyIsWhole, ShownIsAnswer

LEMMA RelayStart == RelayInit => RelayInv
<1> SUFFICES ASSUME RelayInit PROVE RelayInv
  OBVIOUS
<1>1. <<>> \in Seq(Bits) /\ <<>> \in Seq(CallRecs) /\ <<>> \in Seq(Kinds) /\ <<>> \in Seq(Events) /\ Len(<<>>) = 0
  OBVIOUS
<1>2. heard \in Replies /\ heard.text = <<>> /\ Len(heard.calls) <= MaxToolCalls
  BY <1>1, RelayAssumption DEF RelayInit, Nothing, Replies
<1>3. RelayTyped
  BY <1>1, <1>2, RelayAssumption DEF RelayInit, RelayTyped, Origins
<1>4. InTurn
  BY DEF RelayInit, InTurn
<1>5. Hears(heard, said[source], source)
  <2>1. \A s, kind : Tells(<<>>, <<>>, s, kind)
    BY DEF Tells
  <2>2. \A i : Arguments(<<>>, i) = <<>>
    BY DEF Arguments
  <2> QED BY <2>1, <2>2 DEF RelayInit, Hears, Nothing
<1>6. Unread(wire, upstream) = 0 /\ upstream # "over"
  BY <1>1 DEF RelayInit, Unread
<1>7. Wired
  BY <1>6 DEF Wired
<1>8. OnScreen
  <2>1. CASE direct
    BY <1>2, <2>1 DEF RelayInit, OnScreen
  <2>2. CASE ~direct
    <3>1. <<>> \o <<>> = <<>>
      BY <1>1, ConcatEmptySeq
    <3>2. Follows(<<>>)
      BY <1>1, <1>2, <1>6, <3>1 DEF RelayInit, Follows, LinedUp
    <3> QED BY <1>1, <2>2, <3>2 DEF OnScreen
  <2> QED BY <2>1, <2>2
<1> QED BY <1>3, <1>4, <1>5, <1>7, <1>8 DEF RelayInit, RelayInv, Over, ReplyIsWhole, ShownIsAnswer

LEMMA RelayNextGood == RelayInv /\ [RelayNext]_relayVars => RelayInv'
<1> SUFFICES ASSUME RelayInv, [RelayNext]_relayVars PROVE RelayInv'
  OBVIOUS
<1>1. CASE RelayNext
  BY <1>1, ChunkGood, WholeGood, FinishGood, EndOfStreamGood, SourceFailsGood, RetryGood, ReadEventGood,
     ConcludeGood, DisconnectedGood, AbortReadGood DEF RelayNext, WholeReplies
<1>2. CASE UNCHANGED relayVars
  <2>1. UNCHANGED <<direct, streaming, source, said, finished, heard, attempts, wire, upstream, shown, final,
                    asker, reply, early>>
    BY <1>2 DEF relayVars, setting, reading, receiving
  <2>2. RelayTyped' /\ InTurn' /\ Hears(heard, said[source], source)'
    BY <2>1 DEF RelayInv, RelayTyped, InTurn
  <2>3. (asker = "waits" => OnScreen') /\ (~direct /\ asker = "waits" => Wired')
    BY <2>1 DEF RelayInv, OnScreen, Follows, Wired, Unread, Ending, DoneEvent
  <2>4. Over' /\ ReplyIsWhole' /\ ShownIsAnswer'
    <3>1. (Reads' => Reads) /\ UNCHANGED setting
      BY <1>2, <2>1 DEF Reads, relayVars
    <3> QED BY <2>1, <3>1, ReplyStays
  <2> QED BY <2>1, <2>2, <2>3, <2>4 DEF RelayInv
<1> QED BY <1>1, <1>2

\* Text, reasoning and tool calls of a reply arrive as its one source sent
\* them, for any number of chunks and calls, however they alternate.
THEOREM ReplyIsWholeHolds == RelaySpec => []ReplyIsWhole
<1>1. RelayInv => ReplyIsWhole
  BY DEF RelayInv
<1> QED BY <1>1, RelayStart, RelayNextGood, PTL DEF RelaySpec

\* What was streamed to the user is the text of the reply, but for the
\* exceptions the property states, for any number of chunks and events.
THEOREM ShownIsAnswerHolds == RelaySpec => []ShownIsAnswer
<1>1. RelayInv => ShownIsAnswer
  BY DEF RelayInv
<1> QED BY <1>1, RelayStart, RelayNextGood, PTL DEF RelaySpec

----------------------------------------------------------------------------
\* The search.

\* A score is a number.
LEMMA ClampType == ASSUME NEW v \in Int PROVE Clamp(v) \in Int
BY DEF Clamp

LEMMA WhenType == ASSUME NEW c, NEW v \in Int PROVE When(c, v) \in Int
BY DEF When

LEMMA QualityType ==
  ASSUME NEW d \in Documents PROVE ExtractStaticQualitySignal(d) \in Int
<1>1. CASE Quality[d] # Unrated
  BY <1>1, RagAssumption, ClampType DEF ExtractStaticQualitySignal
<1>2. CASE Quality[d] = Unrated
  <2> DEFINE v == 35 + When(Has(d, "chain"), 30) + When(Has(d, "combo"), 15) + When(Has(d, "realChains"), 10)
                + When(Has(d, "bootReset") /\ ~Has(d, "chain"), -22) + When(Has(d, "tokenFallback"), -25)
  <2>1. v \in Int
    BY DEF When
  <2> QED BY <1>2, <2>1, ClampType DEF ExtractStaticQualitySignal
<1> QED BY <1>1, <1>2

LEMMA IntentType == ASSUME NEW wants, NEW d PROVE ScoreQueryIntent(wants, d) \in Int
<1>1. PrincipleFit(wants, d) \in Int
  BY DEF PrincipleFit, When
<1>2. DeviceFit(d) \in Int /\ ResetFit(d) \in Int
  BY DEF DeviceFit, ResetFit, When
<1>3. GpioFit(d) \in Int /\ BusFit(d) \in Int
  BY DEF GpioFit, BusFit, When
<1>4. /\ When("principle" \in wants, PrincipleFit(wants, d)) \in Int
      /\ When("device" \in wants, DeviceFit(d)) \in Int
      /\ When("reset" \in wants, ResetFit(d)) \in Int
      /\ When("gpio" \in wants, GpioFit(d)) \in Int
      /\ When("i2c" \in wants, BusFit(d)) \in Int
  BY <1>1, <1>2, <1>3, WhenType
<1> QED BY <1>4, ClampType DEF ScoreQueryIntent

LEMMA BonusType == ASSUME NEW wants, NEW d PROVE ScoreProjectComboBonus(wants, d) \in Int
<1> DEFINE v == When("combo" \in wants, 40) + When("reset" \in wants /\ Has(d, "chain"), 30)
            + When("gpio" \in wants /\ ~HasAny(d, {"gpio", "gpioChain"}), -22)
            + When(Has(d, "tokenFallback"), -18)
<1>1. v \in Int
  BY DEF When
<1>2. Clamp(v) \in Int
  BY <1>1, ClampType
<1>3. When(Has(d, "combo"), Clamp(v)) \in Int
  BY <1>2, WhenType
<1> QED BY <1>3 DEF ScoreProjectComboBonus

LEMMA ScoreType ==
  ASSUME NEW wants, NEW d \in Documents PROVE ScoreHybridResult(wants, d) \in Int
<1>1. Clamp(Similarity[d]) \in Int
  BY RagAssumption, ClampType
<1> QED BY <1>1, QualityType, IntentType, BonusType DEF ScoreHybridResult

\* Of two results one ranks before the other, and what ranks before is never
\* scored less.
LEMMA RankOrder ==
  ASSUME NEW wants, NEW found \in Seq(Documents)
  PROVE  \A i, j, k \in 1..Len(found) :
           /\ ~RanksBefore(wants, found, i, i)
           /\ i # j => RanksBefore(wants, found, i, j) \/ RanksBefore(wants, found, j, i)
           /\ RanksBefore(wants, found, i, j) /\ RanksBefore(wants, found, j, k) => RanksBefore(wants, found, i, k)
           /\ RanksBefore(wants, found, i, j) =>
                ScoreHybridResult(wants, found[i]) >= ScoreHybridResult(wants, found[j])
<1> TAKE i, j, k \in 1..Len(found)
<1>1. \A x \in 1..Len(found) : found[x] \in Documents
  BY ElementOfSeq
<1>2. \A x \in 1..Len(found) : ScoreHybridResult(wants, found[x]) \in Int /\ Similarity[found[x]] \in Int
  BY <1>1, ScoreType, RagAssumption
<1>3. Len(found) \in Nat
  BY LenProperties
<1> QED BY <1>2, <1>3 DEF RanksBefore

\* The ranks are 0, 1, 2...: each result has one of its own.
LEMMA RankIsIndex ==
  ASSUME NEW wants, NEW found \in Seq(Documents)
  PROVE  LET n == Len(found)
             rank == [i \in DOMAIN found |-> Cardinality({j \in DOMAIN found : RanksBefore(wants, found, j, i)})]
         IN /\ rank \in Bijection(1..n, 0..(n - 1))
            /\ \A i, j \in 1..n : RanksBefore(wants, found, i, j) => rank[i] < rank[j]
<1> DEFINE n == Len(found)
           Ahead(i) == {j \in DOMAIN found : RanksBefore(wants, found, j, i)}
           rank == [i \in DOMAIN found |-> Cardinality(Ahead(i))]
<1>1. n \in Nat /\ DOMAIN found = 1..n
  BY LenProperties
<1>2. IsFiniteSet(1..n) /\ Cardinality(1..n) = n
  BY <1>1, FS_Interval
<1>3. \A i \in 1..n : IsFiniteSet(Ahead(i)) /\ Cardinality(Ahead(i)) \in Nat
  BY <1>1, <1>2, FS_Subset, FS_CardinalityType
<1>a. \A i \in 1..n : rank[i] = Cardinality(Ahead(i))
  BY <1>1
<1>b. \A i, j \in 1..n : RanksBefore(wants, found, i, j) => Ahead(i) \subseteq Ahead(j) /\ i \in Ahead(j) /\ i \notin Ahead(i)
  BY <1>1, RankOrder
<1>c. \A i \in 1..n : Ahead(i) \subseteq 1..n /\ i \notin Ahead(i)
  BY <1>1, RankOrder
<1>d. rank = [i \in 1..n |-> rank[i]]
  BY <1>1
<1> HIDE DEF Ahead, rank, n
<1>4. ASSUME NEW i \in 1..n, NEW j \in 1..n, RanksBefore(wants, found, i, j)
      PROVE  rank[i] < rank[j]
  <2>1. Ahead(i) \subseteq Ahead(j) /\ i \in Ahead(j) /\ i \notin Ahead(i)
    BY <1>4, <1>b
  <2>2. Cardinality(Ahead(i)) <= Cardinality(Ahead(j)) /\ Cardinality(Ahead(i)) # Cardinality(Ahead(j))
    BY <1>3, <2>1, FS_Subset
  <2> QED BY <1>3, <1>a, <2>2
<1>5. \A i \in 1..n : rank[i] \in 0..(n - 1)
  <2> TAKE i \in 1..n
  <2>1. Ahead(i) \subseteq 1..n /\ i \notin Ahead(i)
    BY <1>c
  <2>2. Cardinality(Ahead(i)) <= n /\ Cardinality(Ahead(i)) # n
    BY <1>2, <2>1, FS_Subset
  <2> QED BY <1>1, <1>3, <1>a, <2>2
<1>6. rank \in Injection(1..n, 0..(n - 1))
  <2>1. \A i, j \in 1..n : i # j => rank[i] # rank[j]
    <3> TAKE i, j \in 1..n
    <3>1. rank[i] \in Int /\ rank[j] \in Int
      BY <1>1, <1>5
    <3>2. i # j => RanksBefore(wants, found, i, j) \/ RanksBefore(wants, found, j, i)
      BY RankOrder DEF n
    <3> QED BY <3>1, <3>2, <1>4
  <2>2. rank \in [1..n -> 0..(n - 1)]
    BY <1>5, <1>d
  <2> QED BY <2>1, <2>2 DEF Injection, IsInjective
<1>7. rank \in Surjection(1..n, 0..(n - 1))
  <2>1. IsFiniteSet(0..(n - 1)) /\ Cardinality(0..(n - 1)) = n
    BY <1>1, FS_Interval
  <2> QED BY <1>2, <1>6, <2>1, FS_Injection
<1> QED BY <1>4, <1>6, <1>7 DEF Bijection, rank, n, Ahead

\* Ranking permutes what was found, and no result comes before a better one.
LEMMA RerankSorts ==
  ASSUME NEW wants, NEW found \in Seq(Documents)
  PROVE  LET n == Len(found)
             ranked == Rerank(wants, found)
         IN /\ ranked \in Seq(Documents) /\ Len(ranked) = n
            /\ \A i \in 1..n : \E k \in 1..n : ranked[k] = found[i]
            /\ \A k \in 1..n : \E i \in 1..n : ranked[k] = found[i]
            /\ \A k, l \in 1..n : k < l =>
                 ScoreHybridResult(wants, ranked[k]) >= ScoreHybridResult(wants, ranked[l])
<1> DEFINE n == Len(found)
           rank == [i \in DOMAIN found |-> Cardinality({j \in DOMAIN found : RanksBefore(wants, found, j, i)})]
           place(k) == CHOOSE i \in DOMAIN found : rank[i] = k - 1
           ranked == [k \in DOMAIN found |-> found[place(k)]]
<1>1. n \in Nat /\ DOMAIN found = 1..n
  BY LenProperties
<1>2. /\ rank \in Bijection(1..n, 0..(n - 1))
      /\ \A i, j \in 1..n : RanksBefore(wants, found, i, j) => rank[i] < rank[j]
  BY RankIsIndex
<1>3. \A i \in 1..n : rank[i] \in 0..(n - 1)
  BY <1>2 DEF Bijection, Injection
<1>4. \A i, j \in 1..n : rank[i] = rank[j] => i = j
  BY <1>2 DEF Bijection, Injection, IsInjective
<1>5. \A r \in 0..(n - 1) : \E i \in 1..n : rank[i] = r
  BY <1>2 DEF Bijection, Surjection
<1> HIDE DEF rank
<1>6. \A k \in 1..n : place(k) \in 1..n /\ rank[place(k)] = k - 1
  BY <1>1, <1>5
<1>7. \A i \in 1..n : rank[i] + 1 \in 1..n /\ place(rank[i] + 1) = i
  <2> TAKE i \in 1..n
  <2>1. rank[i] + 1 \in 1..n /\ (rank[i] + 1) - 1 = rank[i]
    BY <1>1, <1>3
  <2> QED BY <1>4, <1>6, <2>1
<1> HIDE DEF place
<1>8. \A k \in 1..n : ranked[k] = found[place(k)]
  BY <1>1
<1>9. ranked \in Seq(Documents) /\ Len(ranked) = n
  <2>1. ranked \in [1..n -> Documents]
    BY <1>1, <1>6, ElementOfSeq
  <2> QED BY <1>1, <2>1
<1>10. \A i \in 1..n : \E k \in 1..n : ranked[k] = found[i]
  BY <1>7, <1>8
<1>11. \A k \in 1..n : \E i \in 1..n : ranked[k] = found[i]
  BY <1>6, <1>8
<1>12. ASSUME NEW k \in 1..n, NEW l \in 1..n, k < l
       PROVE  ScoreHybridResult(wants, ranked[k]) >= ScoreHybridResult(wants, ranked[l])
  <2>1. rank[place(k)] < rank[place(l)]
    BY <1>1, <1>6, <1>12
  <2>2. RanksBefore(wants, found, place(k), place(l))
    <3>1. place(k) # place(l) /\ ~(rank[place(l)] < rank[place(k)])
      BY <1>6, <1>3, <2>1
    <3> QED BY <1>2, <1>6, <3>1, RankOrder
  <2> QED BY <1>6, <1>8, <2>2, RankOrder
<1>13. Rerank(wants, found) = ranked
  BY DEF Rerank, ranked, place, rank
<1> HIDE DEF ranked
<1> QED BY <1>9, <1>10, <1>11, <1>12, <1>13

\* What is kept of it is the best.
IsBest(wants, topK, found, results) ==
  /\ Len(results) = IF topK \in 1..Len(found) THEN topK ELSE Len(found)
  /\ Range(results) \subseteq Range(found)
  /\ \A d \in Range(results), e \in Range(found) \ Range(results) :
       ScoreHybridResult(wants, d) >= ScoreHybridResult(wants, e)
  /\ \A i \in 1..Len(results) - 1 :
       ScoreHybridResult(wants, results[i]) >= ScoreHybridResult(wants, results[i + 1])

\* The first items of a list.
LEMMA PrefixIs ==
  ASSUME NEW S, NEW s \in Seq(S), NEW k \in 1..Len(s)
  PROVE  /\ SubSeq(s, 1, k) \in Seq(S) /\ Len(SubSeq(s, 1, k)) = k
         /\ \A i \in 1..k : SubSeq(s, 1, k)[i] = s[i]
<1>1. Len(s) \in Nat
  OBVIOUS
<1>2. \A i \in 1..k : s[i] \in S
  BY ElementOfSeq
<1>3. k \in Int /\ 1 <= k
  BY <1>1
<1>4. /\ SubSeq(s, 1, k) \in Seq(S) /\ Len(SubSeq(s, 1, k)) = (IF 1 <= k THEN k - 1 + 1 ELSE 0)
      /\ \A i \in 1..(k - 1 + 1) : SubSeq(s, 1, k)[i] = s[1 + i - 1]
  BY <1>2, <1>3
<1> QED BY <1>1, <1>3, <1>4

LEMMA KeptIsBest ==
  ASSUME NEW wants, NEW topK \in Int, NEW found \in Seq(Documents)
  PROVE  Kept(wants, topK, found) \in Seq(Documents) /\ IsBest(wants, topK, found, Kept(wants, topK, found))
<1> DEFINE n == Len(found)
           ranked == Rerank(wants, found)
           results == Kept(wants, topK, found)
           score(d) == ScoreHybridResult(wants, d)
<1>1. n \in Nat /\ DOMAIN found = 1..n
  BY LenProperties
<1>2. /\ ranked \in Seq(Documents) /\ Len(ranked) = n
      /\ \A i \in 1..n : \E k \in 1..n : ranked[k] = found[i]
      /\ \A k \in 1..n : \E i \in 1..n : ranked[k] = found[i]
      /\ \A k, l \in 1..n : k < l => score(ranked[k]) >= score(ranked[l])
  BY RerankSorts
<1> HIDE DEF ranked
<1> DEFINE m == IF topK \in 1..n THEN topK ELSE n
<1>3. results \in Seq(Documents) /\ Len(results) = m /\ \A k \in 1..m : results[k] = ranked[k]
  <2>1. results = IF topK > 0 /\ n > topK THEN SubSeq(ranked, 1, topK) ELSE ranked
    BY <1>2 DEF Kept, Cut, ranked
  <2>2. CASE topK > 0 /\ n > topK
    <3>1. topK \in 1..n /\ m = topK
      <4>1. n \in Nat /\ topK \in Int /\ topK > 0 /\ n > topK
        BY <1>1, <2>2
      <4> HIDE DEF n
      <4>2. topK \in 1..n
        BY <4>1
      <4> QED BY <4>2
    <3> HIDE DEF m, results
    <3>3. results = SubSeq(ranked, 1, topK)
      BY <2>1, <2>2
    <3> HIDE DEF n
    <3>2. /\ SubSeq(ranked, 1, topK) \in Seq(Documents) /\ Len(SubSeq(ranked, 1, topK)) = topK
          /\ \A k \in 1..topK : SubSeq(ranked, 1, topK)[k] = ranked[k]
      <4>1. topK \in 1..Len(ranked)
        BY <1>2, <3>1
      <4>2. ranked \in Seq(Documents)
        BY <1>2
      <4> HIDE DEF ranked
      <4> QED BY <4>1, <4>2, PrefixIs
    <3> QED BY <3>1, <3>3, <3>2
  <2>3. CASE ~(topK > 0 /\ n > topK)
    BY <1>1, <1>2, <2>1, <2>3
  <2> QED BY <2>2, <2>3
<1>4. m \in 0..n
  BY <1>1
<1> HIDE DEF results, m, n
<1>5. DOMAIN results = 1..m
  BY <1>3, LenProperties
<1>6. Range(found) = {found[i] : i \in 1..n} /\ Range(results) = {results[k] : k \in 1..m}
  BY <1>1, <1>5 DEF Range
<1>7. Range(results) \subseteq Range(found)
  <2> SUFFICES ASSUME NEW k \in 1..m PROVE results[k] \in Range(found)
    BY <1>6
  <2>1. k \in 1..n /\ results[k] = ranked[k]
    BY <1>1, <1>3, <1>4
  <2> QED BY <1>2, <1>6, <2>1
<1>8. ASSUME NEW d \in Range(results), NEW e \in Range(found) \ Range(results)
      PROVE  score(d) >= score(e)
  <2>1. PICK k \in 1..m : d = ranked[k]
    BY <1>3, <1>6
  <2>2. PICK i \in 1..n : e = found[i]
    BY <1>6
  <2>3. PICK l \in 1..n : e = ranked[l]
    BY <1>2, <2>2
  <2>4. l \notin 1..m
    BY <1>3, <1>6, <2>3
  <2>5. k \in 1..n /\ k < l
    BY <1>1, <1>4, <2>4
  <2> QED BY <1>2, <2>1, <2>3, <2>5
<1>9. ASSUME NEW i \in 1..(m - 1) PROVE score(results[i]) >= score(results[i + 1])
  <2>1. i \in 1..n /\ i + 1 \in 1..n /\ i \in 1..m /\ i + 1 \in 1..m /\ i < i + 1
    BY <1>1, <1>4
  <2> QED BY <1>2, <1>3, <2>1
<1> QED BY <1>3, <1>7, <1>8, <1>9 DEF IsBest, results, m, n

----------------------------------------------------------------------------
\* The inductive invariant: types, and what is kept is what Kept gives.
RagSteps == {"idle", "search", "note", "corpus", "answered", "cited", "failed"}
Asking == [pc : RagSteps, wants : Queries \cup {{}}, topK : TopKs \cup {0},
           found : Seq(Documents), results : Seq(Documents),
           corpus : {<<>>} \cup {CorpusOf(results) : results \in Seq(Documents)}]
RagTypes ==
  /\ lastResults \in Seq(Documents) /\ writing \subseteq Searches
  /\ searching \in [Searches -> Asking]
KeepsBest(q) == q.pc \in {"note", "corpus", "answered", "cited"} => q.results = Kept(q.wants, q.topK, q.found)
RagInv == RagTypes /\ \A s \in Searches : KeepsBest(searching[s])

LEMMA LimitType == TopKs \cup {0} \subseteq Int
BY RagAssumption

\* Whatever the store answers, its documents are known.
LEMMA OutcomeType == ASSUME NEW topK \in Int PROVE Outcomes(topK) \subseteq Seq(Documents)
<1> DEFINE fetch == NormalizeTopK(topK)
           AtMost(n) == IF fetch < n THEN fetch ELSE n
<1>1. fetch \in Nat
  BY RagAssumption DEF NormalizeTopK
<1>2. Cardinality(StoreDocs) \in Nat /\ Len(BuiltIn) \in Nat
  BY RagAssumption, FS_CardinalityType, LenProperties
<1>3. AtMost(Cardinality(StoreDocs)) \in Nat
  BY <1>1, <1>2
<1>4. Closest(AtMost(Cardinality(StoreDocs))) \subseteq Seq(Documents)
  <2>1. StoreDocs \subseteq Documents
    BY DEF Documents
  <2> HIDE DEF AtMost
  <2> QED BY <1>3, <2>1 DEF Closest
<1>5. SubSeq(BuiltIn, 1, AtMost(Len(BuiltIn))) \in Seq(Documents)
  BY <1>1, <1>2, RagAssumption, SubSeqProperties
<1> QED BY <1>4, <1>5 DEF Outcomes

\* One search changes.
LEMMA OneChanges ==
  ASSUME RagInv, NEW s \in Searches, NEW q \in Asking, KeepsBest(q),
         searching' = [searching EXCEPT ![s] = q], lastResults' \in Seq(Documents), writing' \subseteq Searches
  PROVE  RagInv'
<1>1. searching' \in [Searches -> Asking]
  BY DEF RagInv, RagTypes
<1>2. \A r \in Searches : KeepsBest(searching'[r])
  BY DEF RagInv, RagTypes
<1> QED BY <1>1, <1>2 DEF RagInv, RagTypes, KeepsBest

LEMMA SearchHolds == ASSUME RagInv, NEW s \in Searches, Search(s) PROVE RagInv'
<1> DEFINE q == searching[s]
           heuristic == IF {"i2c", "resistor"} \subseteq q.wants THEN <<Heuristic>> ELSE <<>>
<1>1. q \in Asking
  BY DEF RagInv, RagTypes
<1>2. q.topK \in Int
  BY <1>1, LimitType DEF Asking
<1>3. PICK outcome \in Outcomes(q.topK) :
        searching' = [searching EXCEPT ![s].pc = "note", ![s].found = outcome \o heuristic,
                                       ![s].results = Kept(q.wants, q.topK, outcome \o heuristic)]
  BY DEF Search
<1>4. outcome \in Seq(Documents) /\ heuristic \in Seq(Documents)
  <2>1. Heuristic \in Documents
    BY DEF Documents
  <2>2. outcome \in Seq(Documents)
    BY <1>2, OutcomeType
  <2> QED BY <2>1, <2>2
<1> HIDE DEF heuristic
<1>5. outcome \o heuristic \in Seq(Documents)
  BY <1>4, ConcatProperties
<1>6. Kept(q.wants, q.topK, outcome \o heuristic) \in Seq(Documents)
  BY <1>2, <1>5, KeptIsBest
<1> DEFINE next == [q EXCEPT !.pc = "note", !.found = outcome \o heuristic,
                             !.results = Kept(q.wants, q.topK, outcome \o heuristic)]
<1>7. next \in Asking /\ KeepsBest(next)
  BY <1>1, <1>5, <1>6 DEF Asking, KeepsBest, RagSteps
<1>8. searching' = [searching EXCEPT ![s] = next]
  BY <1>3 DEF RagInv, RagTypes
<1>9. lastResults' \in Seq(Documents) /\ writing' \subseteq Searches
  BY DEF Search, RagInv, RagTypes
<1> QED BY <1>7, <1>8, <1>9, OneChanges

LEMMA RagNextHolds == RagInv /\ [RagNext]_ragVars => RagInv'
<1> SUFFICES ASSUME RagInv, [RagNext]_ragVars PROVE RagInv'
  OBVIOUS
<1> USE DEF RagInv, RagTypes
<1>1. ASSUME NEW s \in Searches, Ask(s) PROVE RagInv'
  <2>1. PICK wants \in Queries, topK \in TopKs :
          searching' = [searching EXCEPT ![s].pc = "search", ![s].wants = wants, ![s].topK = topK]
    BY <1>1 DEF Ask
  <2> DEFINE next == [searching[s] EXCEPT !.pc = "search", !.wants = wants, !.topK = topK]
  <2>2. next \in Asking /\ KeepsBest(next) /\ searching' = [searching EXCEPT ![s] = next]
    BY <2>1 DEF Asking, KeepsBest, RagSteps
  <2> QED BY <1>1, <2>2, OneChanges DEF Ask
<1>2. ASSUME NEW s \in Searches, Search(s) PROVE RagInv'
  BY <1>2, SearchHolds
<1>3. ASSUME NEW s \in Searches, SearchFails(s) PROVE RagInv'
  <2> DEFINE next == [searching[s] EXCEPT !.pc = "failed"]
  <2>1. next \in Asking /\ KeepsBest(next) /\ searching' = [searching EXCEPT ![s] = next]
    BY <1>3 DEF SearchFails, Asking, KeepsBest, RagSteps
  <2> QED BY <1>3, <2>1, OneChanges DEF SearchFails
<1>4. ASSUME NEW s \in Searches, Note(s) PROVE RagInv'
  <2> DEFINE next == [searching[s] EXCEPT !.pc = "corpus"]
  <2>1. next \in Asking /\ KeepsBest(next) /\ searching' = [searching EXCEPT ![s] = next]
    BY <1>4 DEF Note, Asking, KeepsBest, RagSteps
  <2>2. lastResults' \in Seq(Documents) /\ writing' \subseteq Searches
    BY <1>4 DEF Note, Asking
  <2> QED BY <2>1, <2>2, OneChanges
<1>5. ASSUME NEW s \in Searches, ReadNoted(s) PROVE RagInv'
  <2>1. PICK results \in {lastResults} \cup {searching[w].results : w \in writing} :
          searching' = [searching EXCEPT ![s].pc = "answered", ![s].corpus = CorpusOf(results)]
    BY <1>5 DEF ReadNoted
  <2>2. results \in Seq(Documents)
    BY DEF Asking
  <2> DEFINE next == [searching[s] EXCEPT !.pc = "answered", !.corpus = CorpusOf(results)]
  <2>3. next \in Asking /\ KeepsBest(next) /\ searching' = [searching EXCEPT ![s] = next]
    BY <1>5, <2>1, <2>2 DEF ReadNoted, Asking, KeepsBest, RagSteps
  <2> QED BY <1>5, <2>3, OneChanges DEF ReadNoted
<1>6. ASSUME NEW s \in Searches, Cite(s) PROVE RagInv'
  <2> DEFINE next == [searching[s] EXCEPT !.pc = "cited"]
  <2>1. next \in Asking /\ KeepsBest(next) /\ searching' = [searching EXCEPT ![s] = next]
    BY <1>6 DEF Cite, Asking, KeepsBest, RagSteps
  <2> QED BY <1>6, <2>1, OneChanges DEF Cite
<1>7. CASE UNCHANGED ragVars
  BY <1>7 DEF ragVars, KeepsBest
<1> QED BY <1>1, <1>2, <1>3, <1>4, <1>5, <1>6, <1>7 DEF RagNext

\* A search returns the best of all that was found, as many as were asked for,
\* best first (rerankGroupedTemplateResults and the cut of Search), for any
\* number of searches, documents, scores, queries and limits.
THEOREM BestAreKeptHolds == RagSpec => []BestAreKept
<1>1. RagInit => RagInv
  BY EmptySeq, RagAssumption DEF RagInit, RagInv, RagTypes, Unasked, Asking, KeepsBest, RagSteps
<1>2. RagInv => BestAreKept
  <2> SUFFICES ASSUME RagInv, NEW s \in Searches, HasFound(s)
               PROVE  IsBest(searching[s].wants, searching[s].topK, searching[s].found, searching[s].results)
    BY DEF BestAreKept, IsBest
  <2> DEFINE q == searching[s]
  <2>1. q \in Asking /\ KeepsBest(q)
    BY DEF RagInv, RagTypes
  <2>2. q.topK \in Int /\ q.found \in Seq(Documents)
    BY <2>1, LimitType DEF Asking
  <2>3. q.results = Kept(q.wants, q.topK, q.found)
    BY <2>1 DEF KeepsBest, HasFound
  <2> QED BY <2>2, <2>3, KeptIsBest
<1> QED BY <1>1, <1>2, RagNextHolds, PTL DEF RagSpec

----------------------------------------------------------------------------
\* The login.

\* What each of the callers may be doing.
Roles ==
  /\ \A s \in Logins :
       /\ call[s].kind \in PluginKinds /\ Of(s) \in {s, Nobody}
       /\ call[s].pc \in {"find", "copy", "savePg", "saveRedis", "open", "store"} => Of(s) = s
       /\ At(s, "idle") => Of(s) = Nobody
       /\ call[s].pc \in {"find", "copy"} => call[s].kind \in {"poll", "exchange"}
       /\ call[s].pc \in {"savePg", "saveRedis"} => call[s].kind \in {"create", "exchange"}
  /\ \A b \in Browsers :
       /\ call[b].kind \in PageKinds
       /\ call[b].pc \in {"idle", "find", "copy", "savePg", "saveRedis", "code"}
       /\ call[b].pc \in {"savePg", "saveRedis"} => call[b].kind \in {"send", "verify", "callback"}
       /\ Of(b) # Nobody => ~At(Of(b), "idle")
       /\ Of(b) = Nobody <=> At(b, "idle")
Typed == LoginTypeOK /\ Roles

\* What a call is about to write was made from this copy of the session.
Made(did, from) ==
  /\ did.kind = "create" => from = Absent
  /\ did.kind = "send" => did.seen = [from EXCEPT !.email = did.seen.email]
  /\ did.kind \in {"verify", "callback"} => from.status # "success"
Carries(copy, token) == copy.status = "success" /\ copy.token = token
Writing(s) == {c \in Callers : Of(c) = s /\ At(c, "saveRedis")}

\* A session nobody has disturbed: a handler between its two writes is the only
\* one, or else the next write notices, and the two copies differ only by what
\* it writes; so an exchange under way finds its token in both.
Copying(s, c) == At(c, "copy") => Seen(c) = row[s] /\ cached[s] \in {Absent, row[s]}
Saving(s, c) == At(c, "savePg") => Made(call[c], row[s]) \/ Writing(s) \ {c} # {}
Caching(s, c) ==
  At(c, "saveRedis") =>
    Seen(c) = row[s] /\ (cached[s] \in {Absent, row[s]} \/ Made(call[c], cached[s]))
Exchanging(s) ==
  call[s].kind = "exchange" /\ call[s].pc \in {"find", "copy"} =>
    Carries(row[s], call[s].want) /\ (cached[s] = Absent \/ Carries(cached[s], call[s].want))
InOrder(s) ==
  /\ \A c \in Callers : Of(c) = s => Copying(s, c) /\ Saving(s, c) /\ Caching(s, c)
  /\ Writing(s) = {} => cached[s] \in {Absent, row[s]}
  /\ Exchanging(s)
  /\ At(s, "idle") => row[s] = Absent /\ cached[s] = Absent
  /\ ~At(s, "failed")
LoginInv == Typed /\ \A s \in Logins \ disturbed : InOrder(s)

----------------------------------------------------------------------------
LEMMA SessionsAre ==
  /\ Absent \in Sessions /\ Pending \in Sessions
  /\ \A pc \in LoginSteps : NotCalling(pc) \in CallRecords
<1>1. Absent \in Sessions /\ Pending \in Sessions
  BY DEF Absent, Pending, Sessions
<1> QED BY <1>1 DEF NotCalling, Does, CallRecords, PageKinds

\* The fields of a call.
LEMMA DoesIs ==
  ASSUME NEW kind, NEW s, NEW pc, NEW seen, NEW want
  PROVE  LET r == Does(kind, s, pc, seen, want)
         IN r.kind = kind /\ r.login = s /\ r.pc = pc /\ r.seen = seen /\ r.want = want
BY DEF Does

LEMMA DoesTyped ==
  ASSUME NEW kind \in PageKinds \cup PluginKinds, NEW s \in Logins \cup {Nobody},
         NEW pc \in LoginSteps, NEW seen \in Sessions, NEW want \in Nat
  PROVE  Does(kind, s, pc, seen, want) \in CallRecords
BY DEF Does, CallRecords

LEMMA ToIs ==
  ASSUME LoginTypeOK, NEW c \in Callers, NEW pc
  PROVE  [call[c] EXCEPT !.pc = pc] = Does(call[c].kind, Of(c), pc, Seen(c), call[c].want)
BY DEF LoginTypeOK, CallRecords, Does, Of, Seen

\* A step of one caller: its new record, and what is left of the others'.
LEMMA OneCall ==
  ASSUME LoginTypeOK, NEW c \in Callers, NEW r \in CallRecords, CallIs(c, r)
  PROVE  /\ call' \in [Callers -> CallRecords] /\ call'[c] = r
         /\ \A d \in Callers \ {c} : call'[d] = call[d]
BY DEF LoginTypeOK, CallIs

LEMMA CallIsTyped ==
  ASSUME LoginTypeOK, NEW c \in Callers
  PROVE  /\ call[c].kind \in PageKinds \cup PluginKinds /\ Of(c) \in Logins \cup {Nobody}
         /\ call[c].pc \in LoginSteps /\ Seen(c) \in Sessions /\ call[c].want \in Nat
BY DEF LoginTypeOK, CallRecords, Of, Seen

----------------------------------------------------------------------------
\* Only the copy in Redis changes: it goes, or is the row once more.
LEMMA CopyKeepsOrder ==
  ASSUME NEW s, InOrder(s), UNCHANGED call, row'[s] = row[s],
         cached'[s] \in {Absent, row[s], cached[s]}
  PROVE  InOrder(s)'
<1>1. Writing(s)' = Writing(s)
  BY DEF Writing, Of, At
<1>2. ASSUME NEW c \in Callers, Of(c)' = s PROVE (Copying(s, c) /\ Saving(s, c) /\ Caching(s, c))'
  <2>1. Of(c) = s /\ Copying(s, c) /\ Saving(s, c) /\ Caching(s, c)
    BY <1>2 DEF InOrder, Of
  <2> QED BY <1>1, <2>1 DEF Copying, Saving, Caching, Made, At, Seen
<1>3. Exchanging(s)'
  BY DEF Exchanging, Carries, InOrder
<1>4. (Writing(s) = {})' => cached'[s] \in {Absent, row'[s]}
  BY <1>1 DEF InOrder
<1> QED BY <1>2, <1>3, <1>4 DEF InOrder, At

\* The address that a confirmed session notes, wherever a copy of it is kept or
\* held, is a user's.
KnownTo(them, copy) == copy.status = "success" => copy.email \in them
Known(copy) == KnownTo(users, copy)
KnownInv ==
  \A s \in Logins \ disturbed :
    /\ Known(row[s]) /\ Known(cached[s])
    /\ \A c \in Callers : Of(c) = s => Known(Seen(c))

\* What is a copy of the session already.
CopyOf(s, copy) == copy \in {Absent, row[s], cached[s]} \/ \E c \in Callers : Of(c) = s /\ copy = Seen(c)
LEMMA CopyKnown == ASSUME KnownInv, NEW s \in Logins \ disturbed, NEW copy, CopyOf(s, copy) PROVE Known(copy)
BY DEF KnownInv, CopyOf, Known, KnownTo, Absent

LEMMA FindsKnown ==
  ASSUME LoginTypeOK, NEW c \in Callers, Finds(c)
  PROVE  /\ CopyOf(Of(c), Found(c)) /\ \A s \in Logins : CopyOf(s, cached'[s])
         /\ KnownInv /\ Of(c) \in Logins \ disturbed => Known(Found(c))
<1>1. CopyOf(Of(c), Found(c))
  BY DEF Found, CopyOf
<1>2. \A s \in Logins : CopyOf(s, cached'[s])
  <2> SUFFICES ASSUME NEW s \in Logins PROVE CopyOf(s, cached'[s])
    OBVIOUS
  <2>1. cached'[s] = cached[s] \/ (Of(c) = s /\ cached'[s] = Seen(c))
    BY DEF Finds, LoginTypeOK
  <2> QED BY <2>1 DEF CopyOf
<1> QED BY <1>1, <1>2, CopyKnown

LEMMA KnownStep ==
  ASSUME LoginTypeOK, KnownInv, NEW c \in Callers, NEW r \in CallRecords, CallIs(c, r),
         users \subseteq users', disturbed \subseteq disturbed',
         \A s \in Logins \ disturbed' :
           /\ CopyOf(s, row'[s]) /\ CopyOf(s, cached'[s])
           /\ r.login = s => CopyOf(s, r.seen) \/ KnownTo(users', r.seen)
  PROVE  KnownInv'
<1>1. call'[c] = r /\ \A d \in Callers \ {c} : call'[d] = call[d]
  BY OneCall
<1>2. ASSUME NEW s \in Logins, s \notin disturbed', NEW copy, CopyOf(s, copy) PROVE KnownTo(users', copy)
  BY <1>2, CopyKnown DEF Known, KnownTo
<1>3. ASSUME NEW s \in Logins, s \notin disturbed', NEW d \in Callers, Of(d)' = s
      PROVE  KnownTo(users', Seen(d)')
  <2>1. CASE d = c
    BY <1>1, <1>2, <1>3, <2>1 DEF Of, Seen
  <2>2. CASE d # c
    <3>1. Of(d) = s /\ Seen(d)' = Seen(d)
      BY <1>1, <1>3, <2>2 DEF Of, Seen
    <3>2. CopyOf(s, Seen(d))
      BY <3>1 DEF CopyOf
    <3> QED BY <1>2, <1>3, <3>1, <3>2
  <2> QED BY <2>1, <2>2
<1> QED BY <1>2, <1>3 DEF KnownInv, Known

\* Most steps write copies that are there already.
LEMMA KnownUntouched ==
  ASSUME LoginTypeOK, KnownInv, NEW c \in Callers, NEW r \in CallRecords, CallIs(c, r),
         users \subseteq users', disturbed \subseteq disturbed', row' = row,
         cached' = cached \/ Finds(c), r.seen = Absent
  PROVE  KnownInv'
<1>1. \A s \in Logins : CopyOf(s, row'[s]) /\ CopyOf(s, cached'[s])
  BY FindsKnown DEF CopyOf
<1> QED BY <1>1, KnownStep DEF CopyOf

LEMMA EndsAre ==
  ASSUME NEW c, NEW pc \in LoginSteps, End(c, pc)
  PROVE  NotCalling(pc) \in CallRecords /\ CallIs(c, NotCalling(pc)) /\ NotCalling(pc).seen = Absent
BY SessionsAre DEF End, NotCalling, Does

\* A step of one caller that writes the session nowhere.
Harmless(s, r) ==
  /\ r.login = s =>
       /\ r.pc = "copy" => r.seen = row[s] /\ cached'[s] \in {Absent, row[s]}
       /\ r.pc = "savePg" => Made(r, row[s]) \/ Writing(s) # {}
       /\ r.pc # "saveRedis"
HarmlessLogin(s, r) ==
  /\ r.pc \notin {"idle", "failed"}
  /\ r.kind = "exchange" /\ r.pc \in {"find", "copy"} =>
       Carries(row[s], r.want) /\ (cached'[s] = Absent \/ Carries(cached'[s], r.want))

LEMMA StepKeepsOrder ==
  ASSUME LoginTypeOK, NEW s \in Logins, InOrder(s),
         NEW c \in Callers \ Writing(s), NEW r \in CallRecords, CallIs(c, r),
         row'[s] = row[s], cached'[s] \in {Absent, row[s], cached[s]},
         Harmless(s, r), c = s => HarmlessLogin(s, r)
  PROVE  InOrder(s)'
<1>1. call'[c] = r /\ \A d \in Callers \ {c} : call'[d] = call[d]
  BY OneCall
<1>2. Writing(s)' = Writing(s)
  BY <1>1 DEF Writing, Of, At, Harmless
<1>3. ASSUME NEW d \in Callers, Of(d)' = s PROVE (Copying(s, d) /\ Saving(s, d) /\ Caching(s, d))'
  <2>1. CASE d = c
    BY <1>1, <1>2, <1>3, <2>1 DEF Harmless, Copying, Saving, Caching, Of, At, Seen, Made
  <2>2. CASE d # c
    <3>1. Of(d) = s /\ Copying(s, d) /\ Saving(s, d) /\ Caching(s, d) /\ call'[d] = call[d]
      BY <1>1, <1>3, <2>2 DEF InOrder, Of
    <3> QED BY <1>2, <3>1 DEF Copying, Saving, Caching, Made, At, Seen
  <2> QED BY <2>1, <2>2
<1>4. (Writing(s) = {})' => cached'[s] \in {Absent, row'[s]}
  BY <1>2 DEF InOrder
<1>5. Exchanging(s)' /\ (At(s, "idle")' => row'[s] = Absent /\ cached'[s] = Absent) /\ ~At(s, "failed")'
  <2>1. CASE c = s
    BY <1>1, <2>1 DEF HarmlessLogin, Exchanging, Carries, At
  <2>2. CASE c # s
    <3>1. call'[s] = call[s]
      BY <1>1, <2>2 DEF Callers
    <3> QED BY <3>1 DEF InOrder, Exchanging, Carries, At
  <2> QED BY <2>1, <2>2
<1> QED BY <1>3, <1>4, <1>5 DEF InOrder

----------------------------------------------------------------------------
\* A step of a caller for session f: its new record fits its role, and no other
\* session is touched.
StoresOK ==
  /\ row \in [Logins -> Sessions] /\ cached \in [Logins -> Sessions]
  /\ codes \subseteq Logins /\ states \in [Logins -> 0..2] /\ minted \in Nat
  /\ users \subseteq Addresses \cup {Placeholder}
  /\ active \in Logins \cup {Nobody} /\ stored \in Logins \cup {Nobody}
  /\ stopped \subseteq Logins /\ requests \in Nat /\ disturbed \subseteq Logins
FitsPlugin(s, r) ==
  /\ r.kind \in PluginKinds /\ r.login \in {s, Nobody} /\ r.pc # "idle"
  /\ r.pc \in {"find", "copy", "savePg", "saveRedis", "open", "store"} => r.login = s
  /\ r.pc \in {"find", "copy"} => r.kind \in {"poll", "exchange"}
  /\ r.pc \in {"savePg", "saveRedis"} => r.kind \in {"create", "exchange"}
FitsPage(r) ==
  /\ r.kind \in PageKinds
  /\ r.pc \in {"idle", "find", "copy", "savePg", "saveRedis", "code"}
  /\ r.pc \in {"savePg", "saveRedis"} => r.kind \in {"send", "verify", "callback"}
  /\ r.login # Nobody => ~At(r.login, "idle")
  /\ r.login = Nobody <=> r.pc = "idle"
StepOf(f, c, r) ==
  /\ CallIs(c, r) /\ Of(c) \in {f, Nobody} /\ r.login \in {f, Nobody}
  /\ (c \in Logins => c = f /\ FitsPlugin(f, r)) /\ (c \in Browsers => FitsPage(r))
  /\ \A s \in Logins \ {f} : row'[s] = row[s] /\ cached'[s] = cached[s]
  /\ disturbed' \in {disturbed, disturbed \cup {f}}
  /\ StoresOK'

LEMMA LoginStepHolds ==
  ASSUME LoginInv, NEW f \in Logins, NEW c \in Callers, NEW r \in CallRecords, StepOf(f, c, r),
         f \notin disturbed' => InOrder(f)'
  PROVE  LoginInv'
<1>1. /\ call' \in [Callers -> CallRecords] /\ call'[c] = r
      /\ \A d \in Callers \ {c} : call'[d] = call[d]
  BY OneCall DEF LoginInv, Typed, StepOf
<1>2. LoginTypeOK'
  BY <1>1 DEF StepOf, StoresOK, LoginTypeOK
<1>3. Logins \cap Browsers = {} /\ Nobody \notin Logins
  BY LoginAssumption
<1>4. ASSUME NEW s \in Logins
      PROVE  /\ call'[s].kind \in PluginKinds /\ Of(s)' \in {s, Nobody}
             /\ call'[s].pc \in {"find", "copy", "savePg", "saveRedis", "open", "store"} => Of(s)' = s
             /\ At(s, "idle")' => Of(s)' = Nobody /\ At(s, "idle")
             /\ call'[s].pc \in {"find", "copy"} => call'[s].kind \in {"poll", "exchange"}
             /\ call'[s].pc \in {"savePg", "saveRedis"} => call'[s].kind \in {"create", "exchange"}
  <2>1. CASE s = c
    BY <1>1, <2>1 DEF StepOf, FitsPlugin, Of, At
  <2>2. CASE s # c
    <3>1. call'[s] = call[s]
      BY <1>1, <2>2 DEF Callers
    <3> QED BY <3>1 DEF LoginInv, Typed, Roles, Of, At
  <2> QED BY <2>1, <2>2
<1>5. ASSUME NEW b \in Browsers
      PROVE  /\ call'[b].kind \in PageKinds
             /\ call'[b].pc \in {"idle", "find", "copy", "savePg", "saveRedis", "code"}
             /\ call'[b].pc \in {"savePg", "saveRedis"} => call'[b].kind \in {"send", "verify", "callback"}
             /\ Of(b)' # Nobody => ~At(Of(b)', "idle") /\ Of(b)' \in Logins
             /\ Of(b)' = Nobody <=> At(b, "idle")'
  <2>1. CASE b = c
    BY <1>1, <2>1 DEF StepOf, FitsPage, Of, At, CallRecords
  <2>2. CASE b # c
    <3>1. call'[b] = call[b]
      BY <1>1, <2>2 DEF Callers
    <3> QED BY <3>1 DEF LoginInv, Typed, Roles, LoginTypeOK, CallRecords, Callers, Of, At
  <2> QED BY <2>1, <2>2
<1>6. \A b \in Browsers : Of(b)' # Nobody => ~(call'[Of(b)'].pc = "idle")
  BY <1>4, <1>5 DEF At
<1>7. Roles'
  BY <1>4, <1>5, <1>6 DEF Roles, At, Of
<1>8. ASSUME NEW s \in Logins \ disturbed' PROVE InOrder(s)'
  <2>1. CASE s = f
    BY <1>8, <2>1
  <2>2. CASE s # f
    <3>1. InOrder(s) /\ s # c /\ Of(c) # s /\ r.login # s
      BY <1>3, <1>8, <2>2 DEF StepOf, LoginInv
    <3>2. row'[s] = row[s] /\ cached'[s] = cached[s] /\ c \notin Writing(s) /\ Harmless(s, r)
      BY <2>2, <3>1 DEF StepOf, Writing, Harmless
    <3> QED BY <3>1, <3>2, StepKeepsOrder DEF LoginInv, Typed, StepOf
  <2> QED BY <2>1, <2>2
<1> QED BY <1>2, <1>7, <1>8 DEF LoginInv, Typed

LEMMA QuietStepHolds ==
  ASSUME LoginInv, NEW f \in Logins, NEW c \in Callers, NEW r \in CallRecords, StepOf(f, c, r),
         f \notin disturbed' =>
           /\ ~At(c, "saveRedis") /\ row'[f] = row[f] /\ cached'[f] \in {Absent, row[f], cached[f]}
           /\ Harmless(f, r) /\ (c = f => HarmlessLogin(f, r))
  PROVE  LoginInv'
<1>1. ASSUME f \notin disturbed' PROVE InOrder(f)'
  <2>1. InOrder(f) /\ c \notin Writing(f)
    BY <1>1 DEF LoginInv, StepOf, Writing
  <2> QED BY <1>1, <2>1, StepKeepsOrder DEF LoginInv, Typed, StepOf
<1> QED BY <1>1, LoginStepHolds

----------------------------------------------------------------------------
\* What a handler finds: a copy of the row, unless another one is between its
\* two writes.
LEMMA FoundIs ==
  ASSUME LoginInv, NEW c \in Callers, Of(c) \in Logins, Finds(c)
  PROVE  /\ call[c].pc \in {"find", "copy"}
         /\ Found(c) \in Sessions /\ cached' \in [Logins -> Sessions]
         /\ \A s \in Logins \ {Of(c)} : cached'[s] = cached[s]
         /\ Of(c) \notin disturbed =>
              /\ cached'[Of(c)] \in {row[Of(c)], cached[Of(c)]}
              /\ Found(c) = row[Of(c)] \/ (Writing(Of(c)) # {} /\ At(c, "find"))
              /\ At(c, "find") => Found(c) = cached[Of(c)] /\ Found(c) # Absent /\ UNCHANGED cached
              /\ At(c, "copy") => Found(c) = row[Of(c)] /\ cached[Of(c)] \in {Absent, row[Of(c)]}
<1> DEFINE f == Of(c)
<1>1. Seen(c) \in Sessions /\ cached[f] \in Sessions /\ row[f] \in Sessions
  BY CallIsTyped DEF LoginInv, Typed, LoginTypeOK
<1>2. call[c].pc \in {"find", "copy"}
  BY DEF Finds, At
<1>3. cached' = cached \/ cached' = [cached EXCEPT ![f] = Seen(c)]
  BY DEF Finds
<1>4. cached' \in [Logins -> Sessions] /\ (\A s \in Logins \ {f} : cached'[s] = cached[s])
      /\ cached'[f] \in {cached[f], Seen(c)}
  BY <1>1, <1>3 DEF LoginInv, Typed, LoginTypeOK
<1>5. CASE f \in disturbed
  BY <1>1, <1>2, <1>4, <1>5 DEF Found
<1>6. CASE f \notin disturbed
  <2>1. InOrder(f) /\ Copying(f, c)
    BY <1>6 DEF LoginInv, InOrder
  <2>2. CASE At(c, "find")
    BY <1>1, <1>2, <1>4, <2>1, <2>2 DEF Found, Finds, InOrder, At
  <2>3. CASE At(c, "copy")
    BY <1>1, <1>2, <1>4, <2>1, <2>3 DEF Found, Copying, At
  <2> QED BY <1>2, <2>2, <2>3 DEF At
<1> QED BY <1>5, <1>6

LEMMA BrowsersAre ==
  ASSUME LoginInv, NEW b \in Browsers, ~At(b, "idle")
  PROVE  b \in Callers /\ b \notin Logins /\ Of(b) \in Logins /\ ~At(Of(b), "idle")
BY LoginAssumption, CallIsTyped DEF LoginInv, Typed, Roles, Callers

LEMMA LoginsAre ==
  ASSUME LoginInv, NEW s \in Logins, call[s].pc \in {"find", "copy", "savePg", "saveRedis", "open", "store"}
  PROVE  s \in Callers /\ s \notin Browsers /\ Of(s) = s
BY LoginAssumption DEF LoginInv, Typed, Roles, Callers

\* The step of a page's handler ends its request, whatever it found.
LEMMA PageEndsHold ==
  ASSUME LoginInv, NEW b \in Browsers, ~At(b, "idle"), End(b, "idle"), StoresOK',
         \A s \in Logins \ {Of(b)} : row'[s] = row[s] /\ cached'[s] = cached[s],
         disturbed' \in {disturbed, disturbed \cup {Of(b)}},
         Of(b) \notin disturbed' =>
           ~At(b, "saveRedis") /\ row'[Of(b)] = row[Of(b)] /\ cached'[Of(b)] \in {row[Of(b)], cached[Of(b)]}
  PROVE  LoginInv'
<1> DEFINE r == NotCalling("idle")
<1>1. b \in Callers /\ b \notin Logins /\ Of(b) \in Logins
  BY BrowsersAre
<1>2. r \in CallRecords /\ r.kind = "none" /\ r.login = Nobody /\ r.pc = "idle"
  BY SessionsAre, DoesIs DEF NotCalling, LoginSteps
<1>3. CallIs(b, r)
  BY DEF End
<1> HIDE DEF r
<1>4. StepOf(Of(b), b, r)
  BY <1>1, <1>2, <1>3 DEF StepOf, FitsPage, PageKinds
<1>5. Harmless(Of(b), r)
  BY <1>1, <1>2, LoginAssumption DEF Harmless
<1> QED BY <1>1, <1>2, <1>4, <1>5, QuietStepHolds

\* A page's handler goes on to write what it made of what it found.
LEMMA PageWritesHold ==
  ASSUME LoginInv, NEW b \in Browsers, NEW kind \in {"send", "verify", "callback"},
         NEW session \in Sessions, Finds(b), Write(b, kind, session), UNCHANGED row, StoresOK',
         disturbed' \in {disturbed, disturbed \cup {Of(b)}}, ~At(b, "idle"),
         Of(b) \notin disturbed' => Made(Does(kind, Of(b), "savePg", session, 0), Found(b))
  PROVE  LoginInv'
<1> DEFINE r == Does(kind, Of(b), "savePg", session, 0)
<1>1. b \in Callers /\ b \notin Logins /\ Of(b) \in Logins /\ ~At(Of(b), "idle")
  BY BrowsersAre
<1>2. r.kind = kind /\ r.login = Of(b) /\ r.pc = "savePg" /\ r.seen = session
  BY DoesIs
<1>3. r \in CallRecords
  BY <1>1, DoesTyped DEF PageKinds, LoginSteps
<1>4. CallIs(b, r) /\ (Of(b) \notin disturbed' => Made(r, Found(b)))
  BY DEF Write
<1> HIDE DEF r
<1>5. StepOf(Of(b), b, r)
  BY <1>1, <1>2, <1>4, FoundIs, LoginAssumption DEF StepOf, FitsPage, PageKinds
<1>6. ASSUME Of(b) \notin disturbed'
      PROVE  ~At(b, "saveRedis") /\ cached'[Of(b)] \in {row[Of(b)], cached[Of(b)]} /\ Harmless(Of(b), r)
  <2>1. Of(b) \notin disturbed
    BY <1>6
  <2>2. call[b].pc \in {"find", "copy"} /\ cached'[Of(b)] \in {row[Of(b)], cached[Of(b)]}
        /\ (Found(b) = row[Of(b)] \/ Writing(Of(b)) # {})
    BY <1>1, <2>1, FoundIs
  <2>3. Made(r, row[Of(b)]) \/ Writing(Of(b)) # {}
    BY <1>4, <1>6, <2>2
  <2> QED BY <1>2, <2>2, <2>3 DEF Harmless, At
<1> QED BY <1>1, <1>3, <1>5, <1>6, QuietStepHolds

LEMMA KnownHolds == ASSUME LoginInv, KnownInv, [LoginNext]_loginVars PROVE KnownInv'
<1>0. LoginTypeOK
  BY DEF LoginInv, Typed
<1>1. CASE UNCHANGED loginVars
  BY <1>1 DEF loginVars, serverVars, pluginVars, KnownInv, Known, Of, Seen
<1>2. ASSUME NEW s \in Logins, StartLogin(s) PROVE KnownInv'
  <2> DEFINE r == Does("create", s, "savePg", Pending, 0)
  <2>1. r \in CallRecords /\ CallIs(s, r) /\ KnownTo(users', r.seen) /\ s \in Callers
    BY <1>2, DoesTyped, SessionsAre DEF StartLogin, PluginKinds, LoginSteps, Does, KnownTo, Pending, Callers
  <2> HIDE DEF r
  <2>2. UNCHANGED <<row, cached, users, disturbed>>
    BY <1>2 DEF StartLogin, serverVars
  <2> QED BY <1>0, <2>1, <2>2, KnownStep DEF CopyOf
<1>3. ASSUME NEW s \in Logins, PollBegins(s) PROVE KnownInv'
  <2> DEFINE r == Does("poll", s, "find", Absent, 0)
  <2>1. r \in CallRecords /\ CallIs(s, r) /\ r.seen = Absent /\ s \in Callers
    BY <1>3, DoesTyped, SessionsAre DEF PollBegins, PluginKinds, LoginSteps, Does, Callers
  <2> HIDE DEF r
  <2> QED BY <1>0, <1>3, <2>1, KnownUntouched DEF PollBegins, serverVars
<1>4. ASSUME NEW b \in Browsers, NEW s \in Logins, NEW kind \in {"send", "verify", "url", "callback"},
             CallIs(b, Does(kind, s, "find", Absent, 0)), UNCHANGED <<row, cached, users, disturbed>>
      PROVE  KnownInv'
  <2> DEFINE r == Does(kind, s, "find", Absent, 0)
  <2>1. r \in CallRecords /\ CallIs(b, r) /\ r.seen = Absent /\ b \in Callers
    BY <1>4, DoesTyped, SessionsAre DEF PageKinds, LoginSteps, Does, Callers
  <2> HIDE DEF r
  <2> QED BY <1>0, <1>4, <2>1, KnownUntouched
<1>5. ASSUME NEW b \in Browsers, NEW s \in Logins, NEW kind \in {"send", "verify", "url"}, Request(b, s, kind)
      PROVE  KnownInv'
  BY <1>4, <1>5 DEF Request, serverVars
<1>6. ASSUME NEW b \in Browsers, NEW s \in Logins, ConsumeWechatState(b, s) PROVE KnownInv'
  <2>1. CASE UNCHANGED call
    BY <1>6, <2>1 DEF ConsumeWechatState, KnownInv, Known, Of, Seen
  <2>2. CASE ~UNCHANGED call
    BY <1>4, <1>6, <2>2 DEF ConsumeWechatState
  <2> QED BY <2>1, <2>2
<1>7. ASSUME NEW s \in Logins, CacheExpires(s) PROVE KnownInv'
  <2>1. \A o \in Logins : cached'[o] \in {Absent, cached[o]}
    BY <1>0, <1>7 DEF CacheExpires, LoginTypeOK
  <2> QED BY <1>7, <2>1 DEF CacheExpires, KnownInv, Known, KnownTo, Of, Seen, Absent
<1>8. ASSUME NEW c \in Callers, CallStep(c) PROVE KnownInv'
  <2>1. CASE ReadRow(c)
    <3> DEFINE r == Does(call[c].kind, Of(c), "copy", row[Of(c)], call[c].want)
    <3>0. Of(c) \in Logins
      <4>1. c \in Logins \/ c \in Browsers
        BY DEF Callers
      <4>2. Of(c) # Nobody
        BY <2>1, <4>1, LoginsAre, LoginAssumption DEF ReadRow, LoginInv, Typed, Roles, At
      <4> QED BY <1>0, <4>2, CallIsTyped
    <3>1. r \in CallRecords /\ r.seen = row[Of(c)] /\ r.login = Of(c)
      <4>1. row[Of(c)] \in Sessions
        BY <1>0, <3>0 DEF LoginTypeOK
      <4> QED BY <1>0, <4>1, DoesTyped, DoesIs, CallIsTyped DEF LoginSteps
    <3>2. CallIs(c, r) /\ UNCHANGED <<row, cached, users>> /\ disturbed \subseteq disturbed'
      BY <2>1 DEF ReadRow, serverVars, Disturb
    <3> HIDE DEF r
    <3> QED BY <1>0, <3>1, <3>2, KnownStep DEF CopyOf
  <2>2. CASE FindFails(c) \/ SaveFails(c)
    <3>1. PICK pc \in LoginSteps : End(c, pc)
      BY <2>2 DEF FindFails, SaveFails, Fail, LoginSteps
    <3>2. UNCHANGED <<row, cached, users>> /\ disturbed \subseteq disturbed'
      BY <2>2 DEF FindFails, SaveFails, Disturb, serverVars
    <3> QED BY <1>0, <3>1, <3>2, EndsAre, KnownUntouched
  <2>3. CASE SaveRow(c)
    <3> DEFINE r == Does(call[c].kind, Of(c), "saveRedis", Seen(c), call[c].want)
    <3>1. r \in CallRecords /\ r.seen = Seen(c) /\ r.login = Of(c)
      BY <1>0, DoesTyped, DoesIs, CallIsTyped DEF LoginSteps
    <3>2. CallIs(c, r) /\ UNCHANGED <<cached, users>> /\ disturbed \subseteq disturbed'
          /\ row' = [row EXCEPT ![Of(c)] = Seen(c)]
      BY <1>0, <2>3, ToIs DEF SaveRow, To, NoteOverlap, Disturb
    <3> HIDE DEF r
    <3>3. \A s \in Logins : row'[s] = row[s] \/ (Of(c) = s /\ row'[s] = Seen(c))
      BY <1>0, <3>2 DEF LoginTypeOK
    <3> QED BY <1>0, <3>1, <3>2, <3>3, KnownStep DEF CopyOf
  <2>4. CASE SaveCache(c)
    <3>1. PICK pc \in LoginSteps : To(c, pc) \/ End(c, pc)
      BY <2>4 DEF SaveCache, AfterSave, LoginSteps
    <3>2. UNCHANGED <<row, users>> /\ disturbed \subseteq disturbed' /\ cached' = [cached EXCEPT ![Of(c)] = Seen(c)]
      BY <2>4 DEF SaveCache, NoteOverlap, Disturb
    <3>3. \A s \in Logins : cached'[s] = cached[s] \/ (Of(c) = s /\ cached'[s] = Seen(c))
      BY <1>0, <3>2 DEF LoginTypeOK
    <3>4. CASE To(c, pc)
      <4> DEFINE r == Does(call[c].kind, Of(c), pc, Seen(c), call[c].want)
      <4>1. r \in CallRecords /\ r.seen = Seen(c) /\ r.login = Of(c)
        BY <1>0, DoesTyped, DoesIs, CallIsTyped
      <4>2. CallIs(c, r)
        BY <1>0, <3>4, ToIs DEF To
      <4> HIDE DEF r
      <4> QED BY <1>0, <3>2, <3>3, <4>1, <4>2, KnownStep DEF CopyOf
    <3>5. CASE End(c, pc)
      BY <1>0, <3>2, <3>3, <3>5, EndsAre, KnownStep DEF CopyOf
    <3> QED BY <3>1, <3>4, <3>5
  <2> QED BY <1>8, <2>1, <2>2, <2>3, <2>4 DEF CallStep
<1>9. ASSUME NEW b \in Browsers, PageStep(b) PROVE KnownInv'
  <2>0. b \in Callers
    BY DEF Callers
  <2>1. CASE SendEmailCode(b)
    <3>1. PICK a \in Addresses :
            /\ Write(b, "send", [Found(b) EXCEPT !.email = a]) /\ NoteOtherUser(b, a)
            /\ Finds(b) /\ UNCHANGED <<row, users>>
      BY <2>1 DEF SendEmailCode
    <3> DEFINE session == [Found(b) EXCEPT !.email = a]
               r == Does("send", Of(b), "savePg", session, 0)
    <3>2. Of(b) \in Logins /\ Found(b) \in Sessions
      BY <2>0, <3>1, BrowsersAre, FoundIs DEF Finds, At
    <3>3. session \in Sessions /\ session.status = Found(b).status /\ session.email = a
      BY <3>2 DEF Sessions
    <3>4. disturbed' = IF Found(b).status = "success" /\ a \notin users THEN disturbed \cup {Of(b)} ELSE disturbed
      BY <3>1 DEF NoteOtherUser, Disturb
    <3>5. CallIs(b, r)
      BY <3>1 DEF Write
    <3> HIDE DEF session
    <3>6. r \in CallRecords /\ r.seen = session /\ r.login = Of(b)
      BY <3>2, <3>3, DoesTyped, DoesIs DEF PageKinds, LoginSteps
    <3> HIDE DEF r
    <3>7. \A s \in Logins \ disturbed' : r.login = s => KnownTo(users', r.seen)
      BY <3>1, <3>3, <3>4, <3>6 DEF KnownTo
    <3> QED BY <1>0, <2>0, <3>1, <3>4, <3>5, <3>6, <3>7, FindsKnown, KnownStep DEF CopyOf
  <2>2. CASE Confirm(b)
    <3>1. PICK a \in Proven(b) :
            /\ users' = users \cup {a} /\ UNCHANGED row /\ minted' = minted + 1
            /\ Write(b, call[b].kind, [status |-> "success", email |-> a, token |-> minted + 1]) /\ Finds(b)
            /\ disturbed \subseteq disturbed'
      BY <2>2 DEF Confirm, Disturb
    <3> DEFINE session == [status |-> "success", email |-> a, token |-> minted + 1]
               r == Does(call[b].kind, Of(b), "savePg", session, 0)
    <3>2. a \in Addresses \cup {Placeholder}
      BY <1>0, <3>1 DEF Proven, LoginTypeOK
    <3>3. session \in Sessions /\ KnownTo(users', session)
      BY <1>0, <3>1, <3>2 DEF Sessions, LoginTypeOK, KnownTo
    <3>4. CallIs(b, r)
      BY <3>1 DEF Write
    <3> HIDE DEF session
    <3>5. r \in CallRecords /\ r.seen = session
      <4>1. call[b].kind \in PageKinds \cup PluginKinds /\ Of(b) \in Logins \cup {Nobody}
        BY <1>0, <2>0, CallIsTyped
      <4>2. "savePg" \in LoginSteps /\ 0 \in Nat
        BY DEF LoginSteps
      <4>3. r \in CallRecords
        BY <3>3, <4>1, <4>2, DoesTyped
      <4> QED BY <4>3, DoesIs
    <3> HIDE DEF r
    <3> QED BY <1>0, <2>0, <3>1, <3>3, <3>4, <3>5, FindsKnown, KnownStep DEF CopyOf
  <2>3. CASE SaveEmailCode(b) \/ ConfirmFails(b) \/ BuildWechatAuthorizeURL(b)
    <3>1. End(b, "idle") /\ UNCHANGED <<row, users, disturbed>> /\ (cached' = cached \/ Finds(b)) /\ "idle" \in LoginSteps
      BY <2>3 DEF SaveEmailCode, ConfirmFails, BuildWechatAuthorizeURL, LoginSteps
    <3> QED BY <1>0, <2>0, <3>1, EndsAre, KnownUntouched
  <2> QED BY <1>8, <1>9, <2>0, <2>1, <2>2, <2>3 DEF PageStep
<1>10. ASSUME NEW s \in Logins, PluginStep(s) PROVE KnownInv'
  <2>0. s \in Callers
    BY DEF Callers
  <2>1. CASE PollGivesUp(s) \/ AnswerLost(s) \/ StoreSession(s)
    <3>1. PICK pc \in LoginSteps : End(s, pc)
      BY <2>1 DEF PollGivesUp, AnswerLost, StoreSession, Fail, LoginSteps
    <3>2. UNCHANGED <<row, cached, users>> /\ disturbed \subseteq disturbed'
      BY <2>1 DEF PollGivesUp, AnswerLost, StoreSession, Disturb, serverVars
    <3> QED BY <1>0, <2>0, <3>1, <3>2, EndsAre, KnownUntouched
  <2>2. CASE Poll(s)
    <3>1. Finds(s) /\ UNCHANGED <<row, users, disturbed>>
      BY <2>2 DEF Poll
    <3>2. Found(s) \in Sessions
      BY <2>0, <2>2, <3>1, LoginsAre, FoundIs DEF Finds, At
    <3>3. CASE End(s, "stopped")
      BY <1>0, <2>0, <3>1, <3>3, EndsAre, KnownUntouched DEF LoginSteps
    <3>4. CASE ~End(s, "stopped")
      <4> DEFINE kind == IF Found(s).status = "success" THEN "exchange" ELSE "poll"
                 r == Does(kind, s, "find", Absent, Found(s).token)
      <4>1. CallIs(s, r)
        BY <2>2, <3>4 DEF Poll
      <4>3. kind \in PageKinds \cup PluginKinds /\ "find" \in LoginSteps
        BY DEF PluginKinds, LoginSteps
      <4>4. Absent \in Sessions /\ Found(s).token \in Nat
        BY <3>2, SessionsAre DEF Sessions
      <4> HIDE DEF kind
      <4>5. r \in CallRecords
        BY <4>3, <4>4, DoesTyped
      <4>2. r \in CallRecords /\ r.seen = Absent
        BY <4>5, DoesIs
      <4> HIDE DEF r
      <4> QED BY <1>0, <2>0, <3>1, <4>1, <4>2, KnownUntouched
    <3> QED BY <3>3, <3>4
  <2>3. CASE ExchangeToken(s)
    <3>1. Finds(s) /\ UNCHANGED <<row, users, disturbed>> /\ call[s].pc \in {"find", "copy"}
      BY <2>3 DEF ExchangeToken, Finds, At
    <3>2. Of(s) = s /\ Found(s) \in Sessions
      BY <2>0, <3>1, LoginsAre, FoundIs
    <3>3. CASE Fail(s)
      BY <1>0, <2>0, <3>1, <3>3, EndsAre, KnownUntouched DEF Fail, LoginSteps
    <3>4. CASE ~Fail(s)
      <4> DEFINE session == [Found(s) EXCEPT !.token = 0]
                 r == Does("exchange", s, "savePg", session, 0)
      <4>1. CallIs(s, r)
        BY <2>3, <3>2, <3>4 DEF ExchangeToken, Write
      <4>2. session \in Sessions /\ session.status = Found(s).status /\ session.email = Found(s).email
        BY <3>2 DEF Sessions
      <4> HIDE DEF session
      <4>5. "exchange" \in PageKinds \cup PluginKinds /\ "savePg" \in LoginSteps /\ 0 \in Nat
        BY DEF PluginKinds, LoginSteps
      <4>6. r \in CallRecords
        BY <4>2, <4>5, DoesTyped
      <4>3. r \in CallRecords /\ r.seen = session /\ r.login = s
        BY <4>6, DoesIs
      <4> HIDE DEF r
      <4>4. \A o \in Logins \ disturbed' : r.login = o => KnownTo(users', r.seen)
        BY <1>0, <2>0, <3>1, <3>2, <4>2, <4>3, FindsKnown DEF Known, KnownTo
      <4> QED BY <1>0, <2>0, <3>1, <4>1, <4>3, <4>4, FindsKnown, KnownStep DEF CopyOf
    <3> QED BY <3>3, <3>4
  <2> QED BY <1>3, <1>8, <1>10, <2>0, <2>1, <2>2, <2>3 DEF PluginStep
<1> QED BY <1>1, <1>2, <1>5, <1>6, <1>7, <1>9, <1>10 DEF LoginNext

----------------------------------------------------------------------------
\* The two writes of a handler.  With no other handler about, the row it
\* replaces is what it read, and the copy in Redis is older by its own change.
LEMMA CallersAre ==
  ASSUME LoginInv, NEW c \in Callers, ~At(c, "idle"), Of(c) # Nobody
  PROVE  /\ Of(c) \in Logins /\ ~At(Of(c), "idle") /\ (c \in Logins => Of(c) = c)
         /\ c \in Logins => c \notin Browsers
BY LoginAssumption, CallIsTyped DEF LoginInv, Typed, Roles, Callers

LEMMA WritersAre ==
  ASSUME LoginInv, NEW c \in Callers, call[c].pc \in {"copy", "savePg", "saveRedis"}
  PROVE  /\ Of(c) \in Logins /\ ~At(Of(c), "idle") /\ (c \in Logins => Of(c) = c)
         /\ c \in Logins => c \notin Browsers
         /\ ~At(c, "copy") =>
              IF c \in Logins THEN call[c].kind \in {"create", "exchange"}
                              ELSE call[c].kind \in {"send", "verify", "callback"}
<1>1. c \in Logins \/ c \in Browsers
  BY DEF Callers
<1>2. CASE c \in Logins
  BY <1>2, LoginAssumption DEF LoginInv, Typed, Roles, At
<1>3. CASE c \in Browsers
  BY <1>3, LoginAssumption, BrowsersAre DEF LoginInv, Typed, Roles, At
<1> QED BY <1>1, <1>2, <1>3

LEMMA SaveRowHolds == ASSUME LoginInv, NEW c \in Callers, SaveRow(c) PROVE LoginInv'
<1>0. PICK f \in Logins : f = Of(c)
  BY WritersAre DEF SaveRow, At
<1> DEFINE r == Does(call[c].kind, f, "saveRedis", Seen(c), call[c].want)
<1>1. /\ ~At(f, "idle") /\ (c \in Logins => f = c /\ c \notin Browsers)
      /\ IF c \in Logins THEN call[c].kind \in {"create", "exchange"}
                         ELSE call[c].kind \in {"send", "verify", "callback"}
  BY <1>0, WritersAre DEF SaveRow, At
<1>2. r.kind = call[c].kind /\ r.login = f /\ r.pc = "saveRedis" /\ r.seen = Seen(c)
  BY DoesIs
<1>3. r \in CallRecords
  BY CallIsTyped, DoesTyped DEF LoginInv, Typed, LoginSteps
<1>4. CallIs(c, r)
  BY <1>0, ToIs DEF SaveRow, To, LoginInv, Typed
<1>5. row' = [row EXCEPT ![f] = Seen(c)] /\ UNCHANGED <<cached, codes, states, users, minted, pluginVars>>
      /\ disturbed' = IF Overlapped(c) THEN disturbed \cup {f} ELSE disturbed
  BY <1>0 DEF SaveRow, NoteOverlap, Disturb
<1> HIDE DEF r
<1>6. Seen(c) \in Sessions
  BY CallIsTyped DEF LoginInv, Typed
<1>7. StepOf(f, c, r)
  <2>1. StoresOK'
    BY <1>1, <1>5, <1>6 DEF LoginInv, Typed, LoginTypeOK, StoresOK, pluginVars
  <2>2. \A s \in Logins \ {f} : row'[s] = row[s] /\ cached'[s] = cached[s]
    BY <1>5 DEF LoginInv, Typed, LoginTypeOK
  <2> QED BY <1>0, <1>1, <1>2, <1>4, <1>5, <2>1, <2>2, LoginAssumption
          DEF StepOf, FitsPlugin, FitsPage, PluginKinds, PageKinds, Callers
<1>8. ASSUME f \notin disturbed' PROVE InOrder(f)'
  <2>1. InOrder(f) /\ ~Overlapped(c) /\ At(c, "savePg")
    BY <1>1, <1>5, <1>8 DEF LoginInv, SaveRow
  <2>2. \A d \in Callers \ {c} : Of(d) = f => call[d].pc \notin {"copy", "savePg", "saveRedis"}
    BY <1>0, <2>1 DEF Overlapped
  <2>3. Writing(f) = {}
    BY <2>1, <2>2 DEF Writing, At
  <2>4. Made(call[c], row[f]) /\ cached[f] \in {Absent, row[f]}
    BY <1>0, <2>1, <2>3 DEF InOrder, Saving
  <2>5. call'[c] = r /\ \A d \in Callers \ {c} : call'[d] = call[d]
    BY <1>3, <1>4, OneCall DEF LoginInv, Typed
  <2>6. row'[f] = Seen(c) /\ cached' = cached
    BY <1>1, <1>5 DEF LoginInv, Typed, LoginTypeOK
  <2>7. c \in Writing(f)'
    BY <1>2, <2>5 DEF Writing, Of, At
  <2>8. ASSUME NEW d \in Callers, Of(d)' = f PROVE (Copying(f, d) /\ Saving(f, d) /\ Caching(f, d))'
    <3>1. CASE d = c
      <4>1. Made(r, cached[f]) \/ cached[f] = Absent
        BY <1>2, <2>4 DEF Made, Seen
      <4> QED BY <1>2, <2>5, <2>6, <3>1, <4>1 DEF Copying, Saving, Caching, At, Seen, Made
    <3>2. CASE d # c
      BY <1>8, <2>2, <2>5, <2>8, <3>2 DEF Copying, Saving, Caching, Of, At
    <3> QED BY <3>1, <3>2
  <2>9. Exchanging(f)'
    <3>1. CASE c = f
      BY <1>2, <2>5, <3>1 DEF Exchanging
    <3>2. CASE c # f
      <4>1. call'[f] = call[f] /\ call[c].kind \in {"send", "verify", "callback"}
        BY <1>1, <2>5, <3>2 DEF Callers
      <4>2. row[f] \in Sessions
        BY <1>1 DEF LoginInv, Typed, LoginTypeOK
      <4>3. ASSUME call[f].kind = "exchange", call[f].pc \in {"find", "copy"}
            PROVE  Carries(Seen(c), call[f].want) /\ (cached[f] = Absent \/ Carries(cached[f], call[f].want))
        <5>1. Carries(row[f], call[f].want) /\ (cached[f] = Absent \/ Carries(cached[f], call[f].want))
          BY <2>1, <4>3 DEF InOrder, Exchanging
        <5>2. Seen(c) = [row[f] EXCEPT !.email = Seen(c).email]
          BY <2>4, <4>1, <5>1 DEF Made, Carries, Seen
        <5> QED BY <4>2, <5>1, <5>2 DEF Carries, Sessions
      <4> QED BY <2>6, <4>1, <4>3 DEF Exchanging
    <3> QED BY <3>1, <3>2
  <2>10. ~At(f, "idle")' /\ ~At(f, "failed")'
    BY <1>1, <1>2, <2>1, <2>5 DEF At, Callers, InOrder
  <2> QED BY <2>7, <2>8, <2>9, <2>10 DEF InOrder
<1> QED BY <1>1, <1>3, <1>7, <1>8, LoginStepHolds

\* The caller has left; with no one else about, the two copies agree now.
LEMMA SaveCacheHolds == ASSUME LoginInv, NEW c \in Callers, SaveCache(c) PROVE LoginInv'
<1>0. PICK f \in Logins : f = Of(c)
  BY WritersAre DEF SaveCache, At
<1>1. /\ ~At(f, "idle") /\ (c \in Logins => f = c /\ c \notin Browsers)
      /\ IF c \in Logins THEN call[c].kind \in {"create", "exchange"}
                         ELSE call[c].kind \in {"send", "verify", "callback"}
  BY <1>0, WritersAre DEF SaveCache, At
<1>2. /\ cached' = [cached EXCEPT ![f] = Seen(c)] /\ UNCHANGED <<row, codes, states, users, minted, pluginVars>>
      /\ disturbed' = IF Overlapped(c) THEN disturbed \cup {f} ELSE disturbed
  BY <1>0 DEF SaveCache, NoteOverlap, Disturb
<1>3. PICK r \in CallRecords :
        /\ CallIs(c, r) /\ r.pc \notin {"find", "copy", "savePg", "saveRedis", "failed"}
        /\ r.login \in {f, Nobody}
        /\ c \in Logins => r.kind = call[c].kind /\ r.login = f /\ r.pc \in {"open", "store"}
        /\ c \in Browsers => r.kind \in PageKinds /\ r.pc \in {"idle", "code"}
                             /\ (r.login = Nobody <=> r.pc = "idle")
  <2> DEFINE next(pc) == Does(call[c].kind, f, pc, Seen(c), call[c].want)
  <2>1. \A pc \in LoginSteps : next(pc) \in CallRecords /\ next(pc).kind = call[c].kind
                               /\ next(pc).login = f /\ next(pc).pc = pc
    BY DoesIs, DoesTyped, CallIsTyped DEF LoginInv, Typed
  <2>2. \A pc : To(c, pc) => CallIs(c, next(pc))
    BY <1>0, ToIs DEF To, LoginInv, Typed
  <2> HIDE DEF next
  <2>3. c \notin Browsers \/ c \notin Logins
    BY LoginAssumption
  <2>4. CASE call[c].kind \in {"create", "send", "exchange"}
    <3>1. PICK pc \in {"open", "code", "store"} :
            /\ To(c, pc)
            /\ pc = IF call[c].kind = "create" THEN "open" ELSE IF call[c].kind = "send" THEN "code" ELSE "store"
      BY <2>4 DEF SaveCache, AfterSave
    <3>2. CallIs(c, next(pc)) /\ next(pc) \in CallRecords /\ next(pc).kind = call[c].kind
          /\ next(pc).login = f /\ next(pc).pc = pc
      BY <2>1, <2>2, <3>1 DEF LoginSteps
    <3> QED BY <1>1, <2>3, <2>4, <3>1, <3>2, LoginAssumption DEF PageKinds, Callers
  <2>5. CASE call[c].kind \in {"verify", "callback"}
    <3> DEFINE r == NotCalling("idle")
    <3>1. r \in CallRecords /\ r.kind = "none" /\ r.login = Nobody /\ r.pc = "idle"
      BY SessionsAre, DoesIs DEF NotCalling, LoginSteps
    <3>2. CallIs(c, r) /\ c \notin Logins
      BY <1>1, <2>5 DEF SaveCache, AfterSave, End
    <3> HIDE DEF r
    <3> QED BY <3>1, <3>2 DEF PageKinds
  <2> QED BY <1>1, <2>4, <2>5
<1>4. Seen(c) \in Sessions
  BY CallIsTyped DEF LoginInv, Typed
<1>5. StepOf(f, c, r)
  <2>1. StoresOK'
    BY <1>2, <1>4 DEF LoginInv, Typed, LoginTypeOK, StoresOK, pluginVars
  <2>2. \A s \in Logins \ {f} : row'[s] = row[s] /\ cached'[s] = cached[s]
    BY <1>2 DEF LoginInv, Typed, LoginTypeOK
  <2>3. c \in Logins => FitsPlugin(f, r)
    BY <1>1, <1>3 DEF FitsPlugin, PluginKinds
  <2>4. c \in Browsers => FitsPage(r)
    BY <1>1, <1>3, LoginAssumption DEF FitsPage
  <2> QED BY <1>0, <1>1, <1>2, <1>3, <2>1, <2>2, <2>3, <2>4 DEF StepOf
<1>6. ASSUME f \notin disturbed' PROVE InOrder(f)'
  <2>1. InOrder(f) /\ ~Overlapped(c) /\ At(c, "saveRedis")
    BY <1>2, <1>6 DEF LoginInv, SaveCache
  <2>2. \A d \in Callers \ {c} : Of(d) = f => call[d].pc \notin {"copy", "savePg", "saveRedis"}
    BY <1>0, <2>1 DEF Overlapped
  <2>3. Seen(c) = row[f]
    BY <1>0, <2>1 DEF InOrder, Caching
  <2>4. call'[c] = r /\ \A d \in Callers \ {c} : call'[d] = call[d]
    BY <1>3, OneCall DEF LoginInv, Typed
  <2>5. cached'[f] = row[f] /\ row' = row
    BY <1>2, <2>3 DEF LoginInv, Typed, LoginTypeOK
  <2>6. ASSUME NEW d \in Callers, Of(d)' = f PROVE (Copying(f, d) /\ Saving(f, d) /\ Caching(f, d))'
    BY <1>3, <2>2, <2>4, <2>6 DEF Copying, Saving, Caching, Of, At
  <2>7. Exchanging(f)' /\ ~At(f, "idle")' /\ ~At(f, "failed")'
    <3>1. CASE c = f
      BY <1>3, <2>4, <3>1 DEF Exchanging, At
    <3>2. CASE c # f
      BY <1>1, <2>1, <2>4, <2>5, <3>2 DEF Exchanging, At, InOrder, Callers
    <3> QED BY <3>1, <3>2
  <2> QED BY <2>5, <2>6, <2>7 DEF InOrder
<1> QED BY <1>3, <1>5, <1>6, LoginStepHolds

\* A write that fails: not noticed only if nothing was written yet.
LEMMA SaveFailsHolds == ASSUME LoginInv, NEW c \in Callers, SaveFails(c) PROVE LoginInv'
<1>1. /\ Of(c) \in Logins /\ ~At(Of(c), "idle") /\ (c \in Logins => Of(c) = c)
      /\ (c \in Logins => c \notin Browsers)
  BY WritersAre DEF SaveFails
<1>2. /\ UNCHANGED <<serverVars, pluginVars>> /\ call[c].pc \in {"savePg", "saveRedis"}
      /\ disturbed' \in {disturbed, disturbed \cup {Of(c)}}
      /\ Of(c) \notin disturbed' => c \notin Logins /\ ~At(c, "saveRedis")
  BY DEF SaveFails, Disturb
<1>3. StoresOK'
  BY <1>1, <1>2 DEF LoginInv, Typed, LoginTypeOK, StoresOK, pluginVars, serverVars
<1>4. CASE c \in Browsers
  BY <1>1, <1>2, <1>3, <1>4, PageEndsHold, LoginAssumption DEF SaveFails, Fail, At, serverVars
<1>5. CASE c \in Logins
  <2> DEFINE r == NotCalling("failed")
  <2>1. r \in CallRecords /\ r.kind = "none" /\ r.login = Nobody /\ r.pc = "failed"
    BY SessionsAre, DoesIs DEF NotCalling, LoginSteps
  <2>2. CallIs(c, r)
    BY <1>5 DEF SaveFails, Fail, End
  <2> HIDE DEF r
  <2>3. StepOf(c, c, r)
    BY <1>1, <1>2, <1>3, <1>5, <2>1, <2>2 DEF StepOf, FitsPlugin, PluginKinds, serverVars
  <2> QED BY <1>1, <1>2, <1>5, <2>1, <2>3, LoginStepHolds
<1> QED BY <1>4, <1>5 DEF Callers

----------------------------------------------------------------------------
\* The steps of a page, one by one.
LEMMA RequestHolds ==
  ASSUME LoginInv, NEW b \in Browsers, NEW s \in Logins, NEW kind \in {"send", "verify", "url", "callback"},
         At(b, "idle"), Open(s), CallIs(b, Does(kind, s, "find", Absent, 0)),
         UNCHANGED <<row, cached, disturbed>>, StoresOK'
  PROVE  LoginInv'
<1> DEFINE r == Does(kind, s, "find", Absent, 0)
<1>1. r.kind = kind /\ r.login = s /\ r.pc = "find"
  BY DoesIs
<1>2. r \in CallRecords
  BY DoesTyped, SessionsAre DEF PageKinds, LoginSteps
<1>3. CallIs(b, r)
  OBVIOUS
<1> HIDE DEF r
<1>4. b \in Callers /\ b \notin Logins /\ Of(b) = Nobody /\ ~At(s, "idle")
  BY LoginAssumption DEF LoginInv, Typed, Roles, Callers, Open, Of
<1>5. StepOf(s, b, r)
  BY <1>1, <1>3, <1>4, LoginAssumption DEF StepOf, FitsPage, PageKinds
<1> QED BY <1>1, <1>2, <1>4, <1>5, QuietStepHolds DEF Harmless, At

LEMMA PageHolds ==
  ASSUME LoginInv, NEW b \in Browsers,
         SendEmailCode(b) \/ SaveEmailCode(b) \/ Confirm(b) \/ ConfirmFails(b) \/ BuildWechatAuthorizeURL(b)
  PROVE  LoginInv'
<1>1. ~At(b, "idle") /\ b \in Callers
  BY DEF SendEmailCode, SaveEmailCode, Confirm, ConfirmFails, BuildWechatAuthorizeURL, Finds, At, Callers
<1>2. Of(b) \in Logins
  BY <1>1, BrowsersAre
<1>3. CASE SendEmailCode(b)
  <2>1. PICK a \in Addresses :
          /\ Write(b, "send", [Found(b) EXCEPT !.email = a]) /\ NoteOtherUser(b, a)
          /\ Finds(b) /\ UNCHANGED <<row, codes, states, users, minted, pluginVars>>
    BY <1>3 DEF SendEmailCode
  <2> DEFINE session == [Found(b) EXCEPT !.email = a]
  <2>2. session \in Sessions /\ session.email = a
    BY <1>1, <1>2, <2>1, FoundIs DEF Sessions
  <2>3. disturbed' \in {disturbed, disturbed \cup {Of(b)}}
    BY <2>1 DEF NoteOtherUser, Disturb
  <2>4. StoresOK'
    BY <1>1, <1>2, <2>1, <2>3, FoundIs DEF StoresOK, LoginInv, Typed, LoginTypeOK, pluginVars
  <2>5. Made(Does("send", Of(b), "savePg", session, 0), Found(b))
    BY <2>2, DoesIs DEF Made
  <2> HIDE DEF session
  <2>6. Write(b, "send", session)
    BY <2>1 DEF session
  <2> QED BY <1>1, <2>1, <2>2, <2>3, <2>4, <2>5, <2>6, PageWritesHold
<1>4. CASE Confirm(b)
  <2>1. PICK a \in Proven(b) :
          /\ users' = users \cup {a}
          /\ Write(b, call[b].kind, [status |-> "success", email |-> a, token |-> minted + 1])
          /\ Finds(b) /\ UNCHANGED <<row, codes, states, pluginVars>> /\ minted' = minted + 1
          /\ disturbed' = IF Found(b).status = "success" THEN disturbed \cup {Of(b)} ELSE disturbed
    BY <1>4 DEF Confirm, Disturb
  <2>2. call[b].kind \in {"verify", "callback"} /\ a \in Addresses \cup {Placeholder}
    BY <2>1 DEF Proven, LoginInv, Typed, LoginTypeOK
  <2> DEFINE session == [status |-> "success", email |-> a, token |-> minted + 1]
  <2>3. session \in Sessions
    BY <1>1, <1>2, <2>1, <2>2 DEF Sessions, LoginInv, Typed, LoginTypeOK
  <2>4. StoresOK'
    BY <1>1, <1>2, <2>1, <2>2, FoundIs DEF StoresOK, LoginInv, Typed, LoginTypeOK, pluginVars
  <2>5. Of(b) \notin disturbed' => Made(Does(call[b].kind, Of(b), "savePg", session, 0), Found(b))
    BY <2>1, <2>2, DoesIs DEF Made
  <2> HIDE DEF session
  <2>6. Write(b, call[b].kind, session)
    BY <2>1 DEF session
  <2> QED BY <1>1, <2>1, <2>2, <2>3, <2>4, <2>5, <2>6, PageWritesHold
<1>5. CASE SaveEmailCode(b)
  <2>1. End(b, "idle") /\ codes' = codes \cup {Of(b)} /\ ~At(b, "saveRedis")
        /\ UNCHANGED <<row, cached, states, users, minted, pluginVars, disturbed>>
    BY <1>5 DEF SaveEmailCode, At
  <2>2. StoresOK'
    BY <1>2, <2>1 DEF StoresOK, LoginInv, Typed, LoginTypeOK, pluginVars
  <2> QED BY <1>1, <2>1, <2>2, PageEndsHold
<1>6. CASE ConfirmFails(b) \/ BuildWechatAuthorizeURL(b)
  <2>1. Finds(b) /\ End(b, "idle") /\ states' \in {states, [states EXCEPT ![Of(b)] = 2]}
        /\ UNCHANGED <<row, codes, users, minted, pluginVars, disturbed>>
    BY <1>6 DEF ConfirmFails, BuildWechatAuthorizeURL
  <2>2. states' \in [Logins -> 0..2]
    BY <2>1 DEF LoginInv, Typed, LoginTypeOK
  <2>3. StoresOK' /\ ~At(b, "saveRedis")
    BY <1>1, <1>2, <2>1, <2>2, FoundIs DEF StoresOK, LoginInv, Typed, LoginTypeOK, pluginVars, At
  <2> QED BY <1>1, <1>2, <2>1, <2>3, FoundIs, PageEndsHold
<1> QED BY <1>3, <1>4, <1>5, <1>6

\* Both the pages and the plugin read the row when Redis has no copy.
LEMMA ReadRowHolds == ASSUME LoginInv, NEW c \in Callers, ReadRow(c) PROVE LoginInv'
<1>0. Of(c) # Nobody
  <2>1. c \in Logins \/ c \in Browsers
    BY DEF Callers
  <2> QED BY <2>1, LoginsAre, LoginAssumption DEF ReadRow, LoginInv, Typed, Roles, At
<1>1. /\ Of(c) \in Logins /\ ~At(Of(c), "idle") /\ (c \in Logins => Of(c) = c)
      /\ (c \in Logins => c \notin Browsers)
  BY <1>0, CallersAre DEF ReadRow, At
<1>2. PICK f \in Logins : f = Of(c)
  BY <1>1
<1> DEFINE r == Does(call[c].kind, f, "copy", row[f], call[c].want)
<1>3. r.kind = call[c].kind /\ r.login = f /\ r.pc = "copy" /\ r.seen = row[f] /\ r.want = call[c].want
  BY DoesIs
<1>4. r \in CallRecords
  <2>1. row[f] \in Sessions
    BY DEF LoginInv, Typed, LoginTypeOK
  <2> QED BY <2>1, DoesTyped, CallIsTyped DEF LoginInv, Typed, LoginSteps
<1>5. CallIs(c, r) /\ UNCHANGED <<serverVars, pluginVars>> /\ At(c, "find")
      /\ disturbed' = IF cached[f] = Absent THEN disturbed ELSE disturbed \cup {f}
  BY <1>2 DEF ReadRow, Disturb
<1> HIDE DEF r
<1>6. StoresOK'
  BY <1>5 DEF LoginInv, Typed, LoginTypeOK, StoresOK, pluginVars, serverVars
<1>7. StepOf(f, c, r)
  <2>1. c \in Logins => FitsPlugin(f, r)
    BY <1>1, <1>2, <1>3, <1>5, LoginAssumption DEF FitsPlugin, PluginKinds, LoginInv, Typed, Roles, At
  <2>2. c \in Browsers => FitsPage(r)
    BY <1>1, <1>2, <1>3, <1>5, LoginAssumption DEF FitsPage, LoginInv, Typed, Roles
  <2> QED BY <1>1, <1>2, <1>3, <1>5, <1>6, <2>1, <2>2 DEF StepOf, serverVars
<1>8. ASSUME f \notin disturbed'
      PROVE  ~At(c, "saveRedis") /\ Harmless(f, r) /\ (c = f => HarmlessLogin(f, r))
  <2>1. cached[f] = Absent /\ InOrder(f) /\ cached' = cached
    BY <1>5, <1>8 DEF LoginInv, serverVars
  <2>2. c = f => HarmlessLogin(f, r)
    BY <1>3, <1>5, <2>1 DEF HarmlessLogin, InOrder, Exchanging, At
  <2> QED BY <1>3, <1>5, <2>1, <2>2 DEF Harmless, At
<1> QED BY <1>4, <1>5, <1>7, <1>8, QuietStepHolds DEF serverVars

----------------------------------------------------------------------------
\* The steps of the plugin.
LEMMA StartHolds == ASSUME LoginInv, NEW s \in Logins, StartLogin(s) PROVE LoginInv'
<1> DEFINE r == Does("create", s, "savePg", Pending, 0)
<1>1. r.kind = "create" /\ r.login = s /\ r.pc = "savePg"
  BY DoesIs
<1>2. r \in CallRecords
  BY DoesTyped, SessionsAre DEF PluginKinds, LoginSteps
<1>3. CallIs(s, r) /\ UNCHANGED <<serverVars, pluginVars, disturbed>> /\ At(s, "idle")
  BY DEF StartLogin
<1> HIDE DEF r
<1>4. s \in Callers /\ s \notin Browsers /\ Of(s) = Nobody
  BY <1>3, LoginAssumption DEF LoginInv, Typed, Roles, Callers
<1>5. StoresOK'
  BY <1>3 DEF LoginInv, Typed, LoginTypeOK, StoresOK, pluginVars, serverVars
<1>6. StepOf(s, s, r)
  BY <1>1, <1>3, <1>4, <1>5 DEF StepOf, FitsPlugin, PluginKinds, serverVars
<1>7. s \notin disturbed' => Harmless(s, r)
  BY <1>1, <1>3 DEF Harmless, Made, LoginInv, InOrder
<1> QED BY <1>1, <1>2, <1>3, <1>4, <1>6, <1>7, QuietStepHolds DEF HarmlessLogin, serverVars, At

\* A step of the plugin that goes on without a word to the stores, or is over.
LEMMA PluginGoesOn ==
  ASSUME LoginInv, NEW s \in Logins, call[s].pc \in {"find", "copy", "open", "store"},
         NEW r \in CallRecords, CallIs(s, r), FitsPlugin(s, r), StoresOK', UNCHANGED row,
         \A o \in Logins \ {s} : cached'[o] = cached[o],
         disturbed' \in {disturbed, disturbed \cup {s}},
         s \notin disturbed' =>
           /\ cached'[s] \in {row[s], cached[s]} /\ r.pc \notin {"copy", "savePg", "saveRedis", "failed"}
           /\ r.kind = "exchange" /\ r.pc = "find" =>
                Carries(row[s], r.want) /\ (cached'[s] = Absent \/ Carries(cached'[s], r.want))
  PROVE  LoginInv'
<1>1. s \in Callers /\ s \notin Browsers /\ Of(s) = s
  BY LoginsAre
<1>2. StepOf(s, s, r)
  BY <1>1 DEF StepOf, FitsPlugin
<1>3. s \notin disturbed' => Harmless(s, r) /\ HarmlessLogin(s, r) /\ ~At(s, "saveRedis")
  BY <1>1 DEF Harmless, HarmlessLogin, FitsPlugin, At
<1> QED BY <1>1, <1>2, <1>3, QuietStepHolds

\* A login that is over, for a reason that is on record.
LEMMA PluginEndsHold ==
  ASSUME LoginInv, NEW s \in Logins, call[s].pc \in {"find", "copy", "open", "store"},
         NEW pc \in {"done", "failed", "stopped"}, End(s, pc), StoresOK', UNCHANGED row,
         \A o \in Logins \ {s} : cached'[o] = cached[o],
         disturbed' \in {disturbed, disturbed \cup {s}},
         s \notin disturbed' => cached'[s] \in {row[s], cached[s]} /\ pc # "failed"
  PROVE  LoginInv'
<1> DEFINE r == NotCalling(pc)
<1>1. r \in CallRecords /\ r.kind = "none" /\ r.login = Nobody /\ r.pc = pc
  BY SessionsAre, DoesIs DEF NotCalling, LoginSteps
<1>2. CallIs(s, r)
  BY DEF End
<1> HIDE DEF r
<1> QED BY <1>1, <1>2, PluginGoesOn DEF FitsPlugin, PluginKinds

LEMMA PollHolds == ASSUME LoginInv, NEW s \in Logins, Poll(s) PROVE LoginInv'
<1>1. Finds(s) /\ call[s].kind = "poll" /\ call[s].pc \in {"find", "copy"}
      /\ UNCHANGED <<row, codes, states, users, minted, active, stopped, stored, requests, disturbed>>
  BY DEF Poll, Finds, At
<1>2. s \in Callers /\ s \notin Browsers /\ Of(s) = s
  BY <1>1, LoginsAre
<1>3. StoresOK' /\ Found(s) \in Sessions /\ \A o \in Logins \ {s} : cached'[o] = cached[o]
  BY <1>1, <1>2, FoundIs DEF StoresOK, LoginInv, Typed, LoginTypeOK
<1>4. CASE End(s, "stopped")
  BY <1>1, <1>2, <1>3, <1>4, FoundIs, PluginEndsHold
<1>5. CASE ~End(s, "stopped")
  <2> DEFINE kind == IF Found(s).status = "success" THEN "exchange" ELSE "poll"
             r == Does(kind, s, "find", Absent, Found(s).token)
  <2>1. r.kind = kind /\ r.login = s /\ r.pc = "find" /\ r.want = Found(s).token
    BY DoesIs
  <2>2. Found(s).token \in Nat /\ kind \in PluginKinds
    BY <1>3 DEF Sessions, PluginKinds
  <2>3. r \in CallRecords
    BY <2>2, DoesTyped, SessionsAre DEF LoginSteps
  <2>4. CallIs(s, r)
    BY <1>5 DEF Poll
  <2> HIDE DEF r
  <2>5. ASSUME s \notin disturbed', r.kind = "exchange"
        PROVE  Carries(row[s], r.want) /\ (cached'[s] = Absent \/ Carries(cached'[s], r.want))
    <3>1. Carries(Found(s), r.want) /\ InOrder(s) /\ s \notin disturbed
      BY <1>1, <2>1, <2>5 DEF Carries, LoginInv
    <3>2. CASE Found(s) = row[s]
      <4>1. CASE At(s, "copy")
        BY <1>2, <3>1, <3>2, <4>1, FoundIs, <1>1
      <4>2. CASE At(s, "find")
        BY <1>2, <3>1, <3>2, <4>2, FoundIs, <1>1
      <4> QED BY <1>1, <4>1, <4>2 DEF At
    <3>3. CASE Found(s) # row[s]
      <4>1. Writing(s) # {} /\ Found(s) = cached[s] /\ Found(s) # Absent /\ UNCHANGED cached
        BY <1>1, <1>2, <3>1, <3>3, FoundIs
      <4>2. PICK d \in Callers : Of(d) = s /\ At(d, "saveRedis")
        BY <4>1 DEF Writing
      <4>3. d \notin Logins /\ call[d].kind \in {"send", "verify", "callback"}
        BY <1>1, <4>2, WritersAre DEF At
      <4>4. Seen(d) = row[s] /\ Made(call[d], cached[s])
        BY <3>1, <3>3, <4>1, <4>2 DEF InOrder, Caching
      <4>5. row[s] = [cached[s] EXCEPT !.email = row[s].email]
        BY <3>1, <4>1, <4>3, <4>4 DEF Made, Carries, Seen
      <4> QED BY <1>3, <3>1, <4>1, <4>5 DEF Carries, Sessions
    <3> QED BY <3>2, <3>3
  <2>6. FitsPlugin(s, r)
    BY <2>1 DEF FitsPlugin, PluginKinds
  <2>7. s \notin disturbed' => cached'[s] \in {row[s], cached[s]}
    BY <1>1, <1>2, FoundIs
  <2> QED BY <1>1, <1>3, <2>1, <2>3, <2>4, <2>5, <2>6, <2>7, PluginGoesOn
<1> QED BY <1>4, <1>5

\* The exchange finds the token it was told of, and the user.
LEMMA ExchangeHolds == ASSUME LoginInv, KnownInv, NEW s \in Logins, ExchangeToken(s) PROVE LoginInv'
<1>1. Finds(s) /\ call[s].kind = "exchange" /\ call[s].pc \in {"find", "copy"}
      /\ UNCHANGED <<row, codes, states, users, minted, pluginVars, disturbed>>
  BY DEF ExchangeToken, Finds, At
<1>2. s \in Callers /\ s \notin Browsers /\ Of(s) = s
  BY <1>1, LoginsAre
<1>3. StoresOK' /\ Found(s) \in Sessions /\ \A o \in Logins \ {s} : cached'[o] = cached[o]
  BY <1>1, <1>2, FoundIs DEF StoresOK, LoginInv, Typed, LoginTypeOK, pluginVars
<1>4. s \notin disturbed => Carries(Found(s), call[s].want)
  <2> SUFFICES ASSUME s \notin disturbed PROVE Carries(Found(s), call[s].want)
    OBVIOUS
  <2>1. Exchanging(s)
    BY DEF LoginInv, InOrder
  <2>2. CASE At(s, "find")
    BY <1>1, <1>2, <2>1, <2>2, FoundIs DEF Exchanging
  <2>3. CASE At(s, "copy")
    BY <1>1, <1>2, <2>1, <2>3, FoundIs DEF Exchanging
  <2> QED BY <1>1, <2>2, <2>3 DEF At
<1>5. s \notin disturbed => cached'[s] \in {row[s], cached[s]}
  BY <1>1, <1>2, FoundIs
<1>8. s \notin disturbed => Found(s).email \in users
  <2> SUFFICES ASSUME s \notin disturbed PROVE Found(s).email \in users
    OBVIOUS
  <2>1. LoginTypeOK /\ s \in Logins \ disturbed
    BY DEF LoginInv, Typed
  <2>2. Known(Found(s))
    BY <1>1, <1>2, <2>1, FindsKnown
  <2> QED BY <1>4, <2>2 DEF Carries, Known, KnownTo
<1>6. CASE Carries(Found(s), call[s].want) /\ Found(s).email \in users
  <2> DEFINE session == [Found(s) EXCEPT !.token = 0]
             r == Does("exchange", s, "savePg", session, 0)
  <2>1. r.kind = "exchange" /\ r.login = s /\ r.pc = "savePg" /\ r.seen = session
    BY DoesIs
  <2>2. session \in Sessions
    BY <1>3 DEF Sessions
  <2>3. r \in CallRecords
    BY <2>2, DoesTyped DEF PluginKinds, LoginSteps
  <2>4. CallIs(s, r)
    BY <1>2, <1>6 DEF ExchangeToken, Carries, Write
  <2> HIDE DEF r
  <2>5. StepOf(s, s, r)
    BY <1>1, <1>2, <1>3, <2>1, <2>4 DEF StepOf, FitsPlugin, PluginKinds
  <2>6. Harmless(s, r) /\ HarmlessLogin(s, r)
    BY <2>1 DEF Harmless, HarmlessLogin, Made
  <2> QED BY <1>1, <1>2, <1>5, <2>3, <2>5, <2>6, QuietStepHolds DEF At
<1>7. CASE ~(Carries(Found(s), call[s].want) /\ Found(s).email \in users)
  <2>1. End(s, "failed")
    BY <1>7 DEF ExchangeToken, Carries, Fail
  <2> QED BY <1>1, <1>3, <1>4, <1>7, <1>8, <2>1, PluginEndsHold
<1> QED BY <1>6, <1>7

LEMMA PluginHolds ==
  ASSUME LoginInv, NEW s \in Logins, PollBegins(s) \/ PollGivesUp(s) \/ StoreSession(s) \/ AnswerLost(s)
  PROVE  LoginInv'
<1>1. CASE PollBegins(s)
  <2> DEFINE r == Does("poll", s, "find", Absent, 0)
  <2>1. r.kind = "poll" /\ r.login = s /\ r.pc = "find"
    BY DoesIs
  <2>2. r \in CallRecords
    BY DoesTyped, SessionsAre DEF PluginKinds, LoginSteps
  <2>3. CallIs(s, r) /\ At(s, "open") /\ UNCHANGED <<serverVars, stored, requests, disturbed>>
        /\ stopped' = stopped \cup ({active} \ {Nobody}) /\ active' = s
    BY <1>1 DEF PollBegins
  <2> HIDE DEF r
  <2>4. StoresOK'
    BY <2>3 DEF LoginInv, Typed, LoginTypeOK, StoresOK, serverVars
  <2> QED BY <2>1, <2>2, <2>3, <2>4, PluginGoesOn DEF FitsPlugin, PluginKinds, At, serverVars
<1>2. CASE PollGivesUp(s) \/ AnswerLost(s)
  <2>1. End(s, "failed") /\ call[s].pc \in {"find", "store"} /\ disturbed' = disturbed \cup {s}
        /\ UNCHANGED <<serverVars, pluginVars>>
    BY <1>2 DEF PollGivesUp, AnswerLost, Fail, Disturb, At
  <2>2. StoresOK'
    BY <2>1 DEF LoginInv, Typed, LoginTypeOK, StoresOK, serverVars, pluginVars
  <2> QED BY <2>1, <2>2, PluginEndsHold DEF serverVars
<1>3. CASE StoreSession(s)
  <2>1. End(s, "done") /\ call[s].pc = "store" /\ stored' = s /\ stopped' = stopped \cup {s}
        /\ UNCHANGED <<serverVars, active, requests, disturbed>>
    BY <1>3 DEF StoreSession, At
  <2>2. StoresOK'
    BY <2>1 DEF LoginInv, Typed, LoginTypeOK, StoresOK, serverVars
  <2> QED BY <2>1, <2>2, PluginEndsHold DEF serverVars
<1> QED BY <1>1, <1>2, <1>3

\* A read that fails in both stores.
LEMMA FindFailsHolds == ASSUME LoginInv, NEW c \in Callers, FindFails(c) PROVE LoginInv'
<1>1. /\ At(c, "find") /\ End(c, IF c \in Logins THEN "failed" ELSE "idle")
      /\ UNCHANGED <<serverVars, pluginVars>>
      /\ disturbed' = IF c \in Logins THEN disturbed \cup {Of(c)} ELSE disturbed
  BY DEF FindFails, Fail, Disturb
<1>2. CASE c \in Logins
  <2>1. Of(c) = c
    BY <1>1, <1>2, LoginsAre DEF At
  <2>2. StoresOK'
    BY <1>1, <1>2, <2>1 DEF LoginInv, Typed, LoginTypeOK, StoresOK, serverVars, pluginVars
  <2> QED BY <1>1, <1>2, <2>1, <2>2, PluginEndsHold DEF serverVars, At
<1>3. CASE c \notin Logins
  <2>1. StoresOK' /\ c \in Browsers
    BY <1>1, <1>3 DEF LoginInv, Typed, LoginTypeOK, StoresOK, serverVars, pluginVars, Callers
  <2> QED BY <1>1, <1>3, <2>1, PageEndsHold DEF serverVars, At
<1> QED BY <1>2, <1>3

LEMMA CacheExpiresHolds == ASSUME LoginInv, NEW s \in Logins, CacheExpires(s) PROVE LoginInv'
<1>1. UNCHANGED <<row, codes, states, users, minted, call, pluginVars, disturbed>>
      /\ cached' = [cached EXCEPT ![s] = Absent]
  BY DEF CacheExpires
<1>2. cached' \in [Logins -> Sessions] /\ \A o \in Logins : cached'[o] \in {Absent, cached[o]}
  BY <1>1, SessionsAre DEF LoginInv, Typed, LoginTypeOK
<1>3. Typed'
  BY <1>1, <1>2 DEF LoginInv, Typed, LoginTypeOK, Roles, Of, At, pluginVars
<1>4. \A o \in Logins \ disturbed' : InOrder(o)'
  BY <1>1, <1>2, CopyKeepsOrder DEF LoginInv
<1> QED BY <1>3, <1>4 DEF LoginInv

LEMMA CallersHold ==
  ASSUME LoginInv, NEW c \in Callers, CallStep(c)
  PROVE  LoginInv'
BY ReadRowHolds, FindFailsHolds, SaveRowHolds, SaveCacheHolds, SaveFailsHolds DEF CallStep

LEMMA LoginHolds == LoginInv /\ KnownInv /\ [LoginNext]_loginVars => LoginInv'
<1> SUFFICES ASSUME LoginInv, KnownInv, [LoginNext]_loginVars PROVE LoginInv'
  OBVIOUS
<1>1. CASE UNCHANGED loginVars
  <2>1. UNCHANGED <<row, cached, codes, states, users, minted, call, active, stopped, stored, requests, disturbed>>
    BY <1>1 DEF loginVars, serverVars, pluginVars
  <2>2. Typed'
    BY <2>1 DEF LoginInv, Typed, LoginTypeOK, Roles, Of, At
  <2>3. \A o \in Logins \ disturbed' : InOrder(o)'
    BY <2>1, CopyKeepsOrder DEF LoginInv
  <2> QED BY <2>2, <2>3 DEF LoginInv
<1>2. ASSUME NEW b \in Browsers, PageStep(b) PROVE LoginInv'
  BY <1>2, PageHolds, CallersHold DEF PageStep, Callers
<1>3. ASSUME NEW s \in Logins, StartLogin(s) \/ PluginStep(s) \/ CacheExpires(s) PROVE LoginInv'
  BY <1>3, StartHolds, PluginHolds, PollHolds, ExchangeHolds, CallersHold, CacheExpiresHolds
     DEF PluginStep, Callers
<1>4. ASSUME NEW b \in Browsers, NEW s \in Logins, NEW kind \in {"send", "verify", "url"}, Request(b, s, kind)
      PROVE  LoginInv'
  <2>1. StoresOK' /\ UNCHANGED <<row, cached, disturbed>>
    BY <1>4 DEF Request, LoginInv, Typed, LoginTypeOK, StoresOK, serverVars
  <2> QED BY <1>4, <2>1, RequestHolds DEF Request
<1>5. ASSUME NEW b \in Browsers, NEW s \in Logins, ConsumeWechatState(b, s) PROVE LoginInv'
  <2>1. /\ UNCHANGED <<row, cached, codes, users, minted, pluginVars, disturbed>>
        /\ states' = [states EXCEPT ![s] = @ - 1] /\ states[s] > 0
    BY <1>5 DEF ConsumeWechatState
  <2>2. states' \in [Logins -> 0..2]
    BY <2>1 DEF LoginInv, Typed, LoginTypeOK
  <2>3. StoresOK'
    BY <2>1, <2>2 DEF LoginInv, Typed, LoginTypeOK, StoresOK, pluginVars
  <2>4. CASE states[s] = 2
    BY <1>5, <2>1, <2>3, <2>4, RequestHolds DEF ConsumeWechatState
  <2>5. CASE states[s] # 2
    <3>1. UNCHANGED call
      BY <1>5, <2>5 DEF ConsumeWechatState
    <3>2. Typed'
      BY <2>1, <2>3, <3>1 DEF LoginInv, Typed, LoginTypeOK, Roles, StoresOK, Of, At
    <3>3. \A o \in Logins \ disturbed' : InOrder(o)'
      BY <2>1, <3>1, CopyKeepsOrder DEF LoginInv
    <3> QED BY <3>2, <3>3 DEF LoginInv
  <2> QED BY <2>4, <2>5
<1> QED BY <1>1, <1>2, <1>3, <1>4, <1>5 DEF LoginNext

LEMMA LoginBegins == LoginInit => LoginInv /\ KnownInv
<1> SUFFICES ASSUME LoginInit PROVE LoginInv /\ KnownInv
  OBVIOUS
<1>1. /\ row = [s \in Logins |-> Absent] /\ cached = row /\ call = [c \in Callers |-> NotCalling("idle")]
      /\ codes = {} /\ states = [s \in Logins |-> 0] /\ minted = 0 /\ active = Nobody /\ stopped = {}
      /\ stored = Nobody /\ requests = 0 /\ disturbed = {} /\ users \subseteq Addresses
  BY DEF LoginInit
<1>2. NotCalling("idle") \in CallRecords /\ NotCalling("idle").pc = "idle"
      /\ NotCalling("idle").kind = "none" /\ NotCalling("idle").login = Nobody
  BY SessionsAre, DoesIs DEF NotCalling, LoginSteps
<1>3. LoginTypeOK
  BY <1>1, <1>2, SessionsAre DEF LoginTypeOK
<1>4. \A c \in Callers : At(c, "idle") /\ Of(c) = Nobody /\ call[c].kind = "none"
  BY <1>1, <1>2 DEF At, Of
<1>5. Roles
  BY <1>4 DEF Roles, Callers, At, PluginKinds, PageKinds
<1>6. ASSUME NEW s \in Logins PROVE InOrder(s)
  BY <1>1, <1>4, LoginAssumption DEF InOrder, Exchanging, At, Callers
<1>7. KnownInv
  BY <1>1, <1>4, LoginAssumption DEF KnownInv, Known, KnownTo, Absent
<1> QED BY <1>3, <1>5, <1>6, <1>7 DEF LoginInv, Typed

\* The variables of a login keep their types.
THEOREM LoginTypeCorrect == LoginSpec => []LoginTypeOK
<1>1. LoginInv => LoginTypeOK
  BY DEF LoginInv, Typed
<1>2. LoginInv /\ KnownInv /\ [LoginNext]_loginVars => KnownInv'
  BY KnownHolds
<1> QED BY <1>1, <1>2, LoginBegins, LoginHolds, PTL DEF LoginSpec

\* A login that failed had a reason: for any number of logins, page requests,
\* codes and confirmations, no order of the handlers' reads and of their writes
\* to PostgreSQL and Redis (SaveLoginSession, FindLoginSession) lets the poll's
\* exchange meet another token than the one it was told of.
THEOREM LoginNotLostHolds == LoginSpec => []LoginNotLost
<1>1. LoginInv => LoginNotLost
  BY DEF LoginInv, InOrder, LoginNotLost
<1>2. LoginInv /\ KnownInv /\ [LoginNext]_loginVars => KnownInv'
  BY KnownHolds
<1> QED BY <1>1, <1>2, LoginBegins, LoginHolds, PTL DEF LoginSpec
=============================================================================
