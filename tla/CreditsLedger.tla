---------------------------- MODULE CreditsLedger ----------------------------
(***************************************************************************)
(* Requests to the model gateway and the credits they cost: the handler    *)
(* asks the provider first and charges after that, with the account opened *)
(* on the way, and answers only what was charged.  The account is read and *)
(* opened by statements of their own; the charge itself is one database    *)
(* transaction that locks the account.                                     *)
(*                                                                         *)
(* The credits of one user; those of another do not touch them.            *)
(***************************************************************************)
EXTENDS Integers, Sequences, FiniteSets

CONSTANTS
  Requests,   \* model requests of the user
  Viewers,    \* requests for the balance
  Initial,    \* the credits of a new account
  TokenCounts \* prompt and completion tokens a provider may report
ASSUME LedgerAssumption == Initial \in Nat /\ TokenCounts \subseteq Nat /\ Requests \cap Viewers = {}

NoAccount == -1

VARIABLES
  balance,    \* credit_accounts.balance
  entries,    \* credit_transactions, oldest first
  logs,       \* llm_request_logs: the cost noted for a request
  request,    \* what each request is doing
  openings    \* history: how many transactions there were when an account was
              \* opened with the initial credits

ledgerVars == <<balance, entries, logs, request, openings>>

New == [pc |-> "idle", cost |-> 0, seen |-> 0]
RequestSteps == {"idle", "asking", "find", "open", "compare", "consume", "lost", "answered", "refused", "failed"}

LedgerInit ==
  /\ balance \in {NoAccount, Initial} /\ entries = <<>>
  /\ logs = [r \in Requests |-> {}]
  /\ request = [r \in Requests \cup Viewers |-> New]
  /\ openings = {}

\* estimateCredits: a credit for every 32 tokens begun, one at least.
EstimateCredits(tokens) == IF tokens <= 32 THEN 1 ELSE (tokens + 31) \div 32

In(r, pc) == request[r].pc = pc
Step(r, pc) == request' = [request EXCEPT ![r].pc = pc]
ChargedTo(r) == {i \in 1..Len(entries) : entries[i].request = r}

----------------------------------------------------------------------------
\* A request that is let in asks the provider; a balance is looked up.
Receive(r) ==
  /\ In(r, "idle") /\ Step(r, IF r \in Requests THEN "asking" ELSE "find")
  /\ UNCHANGED <<balance, entries, logs, openings>>

\* The provider's answer and what it costs are logged, if the log can be
\* written; an error is logged with no cost and ends the request.
ProviderAnswers(r) ==
  /\ In(r, "asking")
  /\ \E tokens \in TokenCounts, written \in BOOLEAN :
       /\ request' = [request EXCEPT ![r].pc = "find", ![r].cost = EstimateCredits(tokens)]
       /\ logs' = [logs EXCEPT ![r] = IF written THEN {EstimateCredits(tokens)} ELSE {}]
  /\ UNCHANGED <<balance, entries, openings>>
ProviderFails(r) ==
  /\ In(r, "asking") /\ Step(r, "failed")
  /\ \E written \in BOOLEAN : logs' = [logs EXCEPT ![r] = IF written THEN {0} ELSE {}]
  /\ UNCHANGED <<balance, entries, openings>>

\* ensureAccount: no account is found, also when the read fails, ...
FindBalance(r) ==
  /\ In(r, "find")
  /\ \/ /\ balance # NoAccount
        /\ request' = [request EXCEPT ![r].pc = "compare", ![r].seen = balance]
     \/ Step(r, "open")
  /\ UNCHANGED <<balance, entries, logs, openings>>
\* ... and one with the initial credits is saved, over one there is.
OpenAccount(r) ==
  /\ In(r, "open") /\ balance' = Initial
  /\ request' = [request EXCEPT ![r].pc = "compare", ![r].seen = Initial]
  /\ openings' = openings \cup {Len(entries)}
  /\ UNCHANGED <<entries, logs>>
OpenFails(r) ==
  /\ In(r, "open") /\ Step(r, "failed") /\ UNCHANGED <<balance, entries, logs, openings>>

\* The balance that was read is shown, or compared with the cost.
Compare(r) ==
  /\ In(r, "compare")
  /\ Step(r, IF r \in Viewers THEN "answered"
             ELSE IF request[r].seen < request[r].cost THEN "refused" ELSE "consume")
  /\ UNCHANGED <<balance, entries, logs, openings>>

\* Consume of the repository: account and balance are looked at again under a
\* lock, and the entry says what is left.
ConsumeSeen(r) == \* (seeded bug: the balance read before is trusted)
  /\ In(r, "consume")
  /\ LET left == request[r].seen - request[r].cost
     IN /\ balance' = left /\ Step(r, "answered")
        /\ entries' = Append(entries, [request |-> r, amount |-> request[r].cost, after |-> left])
  /\ UNCHANGED <<logs, openings>>
AnswerFirst(r) == \* (seeded bug: a request that cannot be charged is answered)
  /\ In(r, "consume") /\ Step(r, "answered")
  /\ IF balance >= request[r].cost
       THEN /\ balance' = balance - request[r].cost
            /\ entries' = Append(entries, [request |-> r, amount |-> request[r].cost, after |-> balance'])
       ELSE UNCHANGED <<balance, entries>>
  /\ UNCHANGED <<logs, openings>>
Consume(r) ==
  /\ In(r, "consume")
  /\ LET current == IF balance = NoAccount THEN Initial ELSE balance
         left == current - request[r].cost
     IN IF left < 0
          THEN Step(r, "refused") /\ UNCHANGED <<balance, entries>>
          ELSE /\ balance' = left
               /\ entries' = Append(entries, [request |-> r, amount |-> request[r].cost, after |-> left])
               /\ request' \in {[request EXCEPT ![r].pc = pc] : pc \in {"answered", "lost"}}
  /\ UNCHANGED <<logs, openings>>
\* The transaction fails before it is committed; or the handler does not hear
\* that it was, or its client does not hear the answer (pc "lost").
ConsumeFails(r) ==
  /\ In(r, "consume") /\ Step(r, "failed") /\ UNCHANGED <<balance, entries, logs, openings>>

RequestStep(r) ==
  \/ Receive(r) \/ FindBalance(r) \/ OpenAccount(r) \/ OpenFails(r) \/ Compare(r)
  \/ r \in Requests /\ (ProviderAnswers(r) \/ ProviderFails(r) \/ Consume(r) \/ ConsumeFails(r))
LedgerNext == \E r \in Requests \cup Viewers : RequestStep(r)
LedgerSpec == LedgerInit /\ [][LedgerNext]_ledgerVars

----------------------------------------------------------------------------
\* Properties.

LedgerTypeOK ==
  /\ balance \in {NoAccount} \cup Nat /\ openings \subseteq 0..Cardinality(Requests)
  /\ \A i \in 1..Len(entries) : entries[i].request \in Requests /\ entries[i].amount \in Nat
  /\ \A r \in Requests : logs[r] \subseteq Nat
  /\ \A r \in Requests \cup Viewers : request[r].pc \in RequestSteps

\* What the account holds before entry n, or now if there is no such entry.
Before(n) ==
  IF n = 1 \/ n - 1 \in openings THEN Initial ELSE entries[n - 1].after

\* The ledger explains the balance: each entry takes its amount from what the
\* one before left, nothing is overdrawn, and what the last one left is the
\* balance.  Only an account that is opened over an existing one, after a read
\* that failed or together with the first charge, breaks the chain.
LedgerExplainsBalance ==
  /\ \A n \in 1..Len(entries) :
       /\ entries[n].after >= 0
       /\ entries[n].after + entries[n].amount = Before(n)
  /\ balance \in {NoAccount, Before(Len(entries) + 1)}

\* A request is answered (the response, or the `done' event of a stream, whose
\* deltas go out before) if and only if it was charged, once, with the cost
\* that was logged; unless the charge was made and nobody heard of it.
AnsweredIsCharged ==
  \A r \in Requests :
    /\ Cardinality(ChargedTo(r)) = IF request[r].pc \in {"answered", "lost"} THEN 1 ELSE 0
    /\ \A i \in ChargedTo(r) : logs[r] \subseteq {entries[i].amount}
=============================================================================
