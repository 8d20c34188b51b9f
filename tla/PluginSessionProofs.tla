------------------------ MODULE PluginSessionProofs ------------------------
(***************************************************************************)
(* Proofs about PluginSession for any number of flows, pairs, logins and   *)
(* lost calls: refreshInFlight stands for one refresh, and when the plugin *)
(* may drop a session that could still be refreshed; and about             *)
(* TokenSessions for any number of devices, pairs, calls and failures: a   *)
(* pair that nobody touches stays good, and one that was ended stays out.  *)
(***************************************************************************)
EXTENDS PluginSession, TokenSessions, Integers, SequenceTheorems, FiniteSetTheorems,
        FunctionTheorems, TLAPS

\* The types hold initially.
LEMMA TypeInitial == Init => TypeOK
  BY BoundAssumption DEF Init, TypeOK, Pairs, None, Labels, Refreshing

\* The steps that start a flow keep the types.
LEMMA StartType ==
  ASSUME TypeOK, NEW f \in Flows, Start(f)
  PROVE  TypeOK'
<1> USE DEF TypeOK, Labels, Refreshing, None, serverVars, flowVars
<1>1. CASE Use(f)
  BY <1>1 DEF Use, Request
<1>2. CASE OpenPanel(f)
  BY <1>2 DEF OpenPanel, Fill, End, Request, Refresh, Usable
<1>3. CASE BuildBase(f)
  BY <1>3 DEF BuildBase, Fill, Join, StartRefresh, End, Request, Refresh, Usable
<1>4. CASE Tick(f)
  BY <1>4 DEF Tick, Refresh
<1> QED BY <1>1, <1>2, <1>3, <1>4 DEF Start

\* The steps that carry a flow on keep the types.
LEMMA ContinueType ==
  ASSUME TypeOK, NEW f \in Flows, Continue(f) \/ Lose(f)
  PROVE  TypeOK'
<1> USE DEF TypeOK, Labels, Refreshing, None, serverVars, flowVars
<1>1. CASE RefreshFind(f)
  BY <1>1 DEF RefreshFind
<1>2. CASE RefreshIssue(f)
  <2>1. /\ issued' = issued + 1 /\ issued' \in 0..MaxPairs
        /\ stored' \in 0..issued'
    BY <1>2, BoundAssumption DEF RefreshIssue
  <2>2. access' \subseteq 1..issued' /\ refreshable' \subseteq 1..issued'
    <3>1. access \subseteq 1..issued /\ refreshable \subseteq 1..issued
      OBVIOUS
    <3>2. 1..issued \subseteq 1..issued' /\ issued' \in 1..issued'
      BY <2>1
    <3>3. /\ access' \subseteq access \cup {issued'}
          /\ refreshable' \subseteq refreshable \cup {issued'}
      BY <1>2 DEF RefreshIssue
    <3>4. QED BY ONLY <3>1, <3>2, <3>3
  <2>3. using' \in [Flows -> 0..issued'] /\ got' \in [Flows -> 0..issued']
    BY <1>2, <2>1 DEF RefreshIssue
  <2>4. QED BY <1>2, <2>1, <2>2, <2>3 DEF RefreshIssue
<1>3. CASE RefreshBreaks(f)
  BY <1>3 DEF RefreshBreaks
<1>4. CASE Answered(f)
  BY <1>4 DEF Answered, End
<1>5. CASE Unauthorized(f)
  BY <1>5 DEF Unauthorized, Join, StartRefresh, End, Refresh
<1>6. CASE Refreshed(f)
  BY <1>6 DEF Refreshed, FlightCleared, Sharing
<1>7. CASE RefreshFailed(f)
  BY <1>7 DEF RefreshFailed, FlightCleared, Sharing
<1>8. CASE Restored(f)
  BY <1>8 DEF Restored
<1>9. CASE Renewed(f)
  BY <1>9 DEF Renewed
<1>10. CASE Lose(f)
  BY <1>10, BoundAssumption DEF Lose
<1> QED BY <1>1, <1>2, <1>3, <1>4, <1>5, <1>6, <1>7, <1>8, <1>9, <1>10 DEF Continue

\* Every step keeps the types.
LEMMA TypeStep ==
  ASSUME TypeOK, [Next]_vars
  PROVE  TypeOK'
<1>1. CASE \E f \in Flows : Start(f)
  BY <1>1, StartType
<1>2. CASE \E f \in Flows : Continue(f) \/ Lose(f)
  BY <1>2, ContinueType
<1>3. CASE \E n \in Pairs : AccessExpires(n)
  BY <1>3 DEF AccessExpires, TypeOK, flowVars
<1>4. CASE \E n \in Pairs : Ages(n)
  BY <1>4 DEF Ages, TypeOK, flowVars
<1>5. CASE Login
  BY <1>5, BoundAssumption DEF Login, TypeOK, flowVars, None
<1>6. CASE UNCHANGED vars
  BY <1>6 DEF vars, serverVars, flowVars, TypeOK
<1> QED BY <1>1, <1>2, <1>3, <1>4, <1>5, <1>6 DEF Next

\* Every variable keeps its type, and a flow has a refresh call, for a pair,
\* exactly while it waits for one.
THEOREM TypeCorrect == Spec => []TypeOK
  BY TypeInitial, TypeStep, PTL DEF Spec

----------------------------------------------------------------------------
\* refreshInFlight.

\* Nobody starts to refresh for all, stops to, or joins.
FlightStays ==
  /\ flight' = flight
  /\ \A g \in Flows :
       /\ pc'[g] = "exchange" <=> pc[g] = "exchange"
       /\ pc'[g] = "join" => pc[g] = "join"

\* The steps outside refreshSessionIfNeeded leave it alone.
LEMMA OtherSteps ==
  ASSUME TypeOK, [Next]_vars
  PROVE  \/ FlightStays
         \/ \E f \in Flows : BuildBase(f) \/ Unauthorized(f)
                          \/ Refreshed(f) \/ RefreshFailed(f)
<1> USE DEF FlightStays, TypeOK, Labels, Refreshing, serverVars, flowVars
<1>1. ASSUME NEW f \in Flows, Use(f)
      PROVE  FlightStays
  BY <1>1 DEF Use, Request
<1>2. ASSUME NEW f \in Flows, OpenPanel(f)
      PROVE  FlightStays
  BY <1>2 DEF OpenPanel, Fill, End, Request, Refresh
<1>3. ASSUME NEW f \in Flows, Tick(f)
      PROVE  FlightStays
  BY <1>3 DEF Tick, Refresh
<1>4. ASSUME NEW f \in Flows,
             RefreshFind(f) \/ RefreshIssue(f) \/ RefreshBreaks(f) \/ Lose(f)
      PROVE  FlightStays
  BY <1>4 DEF RefreshFind, RefreshIssue, RefreshBreaks, Lose
<1>5. ASSUME NEW f \in Flows, Answered(f)
      PROVE  FlightStays
  BY <1>5 DEF Answered, End
<1>6. ASSUME NEW f \in Flows, Restored(f) \/ Renewed(f)
      PROVE  FlightStays
  BY <1>6 DEF Restored, Renewed
<1>7. ASSUME NEW n \in Pairs, AccessExpires(n) \/ Ages(n)
      PROVE  FlightStays
  BY <1>7 DEF AccessExpires, Ages
<1>8. ASSUME Login \/ UNCHANGED vars
      PROVE  FlightStays
  BY <1>8 DEF Login, vars
<1> QED BY <1>1, <1>2, <1>3, <1>4, <1>5, <1>6, <1>7, <1>8
        DEF Next, Start, Continue

\* Every step keeps FlightHasOneRunner.
LEMMA FlightStep ==
  ASSUME TypeOK, FlightHasOneRunner, [Next]_vars
  PROVE  FlightHasOneRunner'
<1> USE DEF TypeOK, FlightHasOneRunner, Labels, Refreshing
<1>1. CASE FlightStays
  BY <1>1 DEF FlightStays
<1>2. ASSUME NEW f \in Flows, BuildBase(f)
      PROVE  FlightHasOneRunner'
  BY <1>2 DEF BuildBase, Fill, Join, StartRefresh, End, Request, Refresh
<1>3. ASSUME NEW f \in Flows, Unauthorized(f)
      PROVE  FlightHasOneRunner'
  BY <1>3 DEF Unauthorized, Join, StartRefresh, End, Refresh
<1>4. ASSUME NEW f \in Flows, Refreshed(f)
      PROVE  FlightHasOneRunner'
  BY <1>4 DEF Refreshed, FlightCleared, Sharing
<1>5. ASSUME NEW f \in Flows, RefreshFailed(f)
      PROVE  FlightHasOneRunner'
  BY <1>5 DEF RefreshFailed, FlightCleared, Sharing
<1> QED BY <1>1, <1>2, <1>3, <1>4, <1>5, OtherSteps

\* refreshSessionIfNeeded never refreshes twice at once, and nobody waits for a
\* refresh that nobody performs.
THEOREM FlightHasOneRunnerHolds == Spec => []FlightHasOneRunner
<1>1. Init => FlightHasOneRunner
  BY DEF Init, FlightHasOneRunner
<1> QED BY <1>1, FlightStep, TypeCorrect, PTL DEF Spec

----------------------------------------------------------------------------
\* Dropped sessions.

\* A refusal is final: the server will not accept the refused pair later on.
RefusalIsFinal ==
  \A f \in Flows : call[f] = "refused" => using[f] \notin refreshable

\* A flow's refusal can change only when the answer comes, and what the server
\* accepts grows by pairs that nobody uses yet.
LEMMA RefusalStep ==
  ASSUME TypeOK, RefusalIsFinal, [Next]_vars
  PROVE  RefusalIsFinal'
<1> USE DEF TypeOK, RefusalIsFinal, serverVars, flowVars
<1>1. ASSUME NEW f \in Flows, Start(f)
      PROVE  RefusalIsFinal'
  BY <1>1 DEF Start, Use, OpenPanel, BuildBase, Tick, Fill, Join, StartRefresh,
              End, Request, Refresh, Refreshing
<1>2. ASSUME NEW f \in Flows, RefreshFind(f) \/ RefreshBreaks(f) \/ Lose(f)
      PROVE  RefusalIsFinal'
  BY <1>2 DEF RefreshFind, RefreshBreaks, Lose
<1>3. ASSUME NEW f \in Flows, RefreshIssue(f)
      PROVE  RefusalIsFinal'
  <2>1. \A g \in Flows : using[g] # issued + 1 /\ using'[g] = using[g]
    BY <1>3 DEF RefreshIssue
  <2>2. \A g \in Flows : call'[g] = "refused" => call[g] = "refused"
    BY <1>3 DEF RefreshIssue
  <2> QED BY <1>3, <2>1, <2>2 DEF RefreshIssue
<1>4. ASSUME NEW f \in Flows, Answered(f) \/ Unauthorized(f)
      PROVE  RefusalIsFinal'
  BY <1>4 DEF Answered, Unauthorized, Join, StartRefresh, End, Refresh, Refreshing
<1>5. ASSUME NEW f \in Flows, Refreshed(f) \/ RefreshFailed(f)
      PROVE  RefusalIsFinal'
  BY <1>5 DEF Refreshed, RefreshFailed, Sharing, Refreshing
<1>6. ASSUME NEW f \in Flows, Restored(f) \/ Renewed(f)
      PROVE  RefusalIsFinal'
  BY <1>6 DEF Restored, Renewed
<1>7. ASSUME NEW n \in Pairs, AccessExpires(n) \/ Ages(n)
      PROVE  RefusalIsFinal'
  BY <1>7 DEF AccessExpires, Ages
<1>8. CASE Login
  <2>1. \A g \in Flows : using[g] # issued + 1
    OBVIOUS
  <2> QED BY <1>8, <2>1 DEF Login
<1>9. CASE UNCHANGED vars
  BY <1>9 DEF vars
<1> QED BY <1>1, <1>2, <1>3, <1>4, <1>5, <1>6, <1>7, <1>8, <1>9 DEF Next, Continue

\* What LiveSessionKept says of one step.
LEMMA DropStep ==
  ASSUME TypeOK, RefusalIsFinal, [Next]_vars, LiveSessionDropped
  PROVE  flight = "settled" \/ \E f \in Flows : FailsFalsely(f)
<1> USE DEF TypeOK, LiveSessionDropped, None, serverVars, flowVars
<1>1. stored # None /\ stored' # stored
  OBVIOUS
<1>2. ASSUME NEW f \in Flows, Start(f)
      PROVE  FALSE
  BY <1>1, <1>2 DEF Start, Use, OpenPanel, BuildBase, Tick, Join
<1>3. ASSUME NEW f \in Flows, Continue(f) \/ Lose(f)
      PROVE  flight = "settled" \/ FailsFalsely(f)
  <2>1. CASE RefreshFind(f) \/ RefreshIssue(f) \/ RefreshBreaks(f) \/ Answered(f) \/ Lose(f)
    BY <1>1, <2>1 DEF RefreshFind, RefreshIssue, RefreshBreaks, Answered, Lose
  <2>2. CASE Unauthorized(f)
    BY <1>1, <2>2 DEF Unauthorized, Join
  <2>3. CASE Refreshed(f)
    BY <2>3 DEF Refreshed
  <2>4. CASE RefreshFailed(f)
    BY <2>4 DEF RefreshFailed, FailsFalsely, RefusalIsFinal
  <2>5. CASE Restored(f)
    BY <2>5 DEF Restored, FailsFalsely, RefusalIsFinal
  <2>6. CASE Renewed(f)
    BY <1>1, <2>6 DEF Renewed
  <2> QED BY <1>3, <2>1, <2>2, <2>3, <2>4, <2>5, <2>6 DEF Continue
<1>4. ASSUME NEW n \in Pairs, AccessExpires(n) \/ Ages(n)
      PROVE  FALSE
  BY <1>1, <1>4 DEF AccessExpires, Ages
<1>5. ~Login
  BY DEF Login
<1>6. ~UNCHANGED vars
  BY <1>1 DEF vars
<1> QED BY <1>2, <1>3, <1>4, <1>5, <1>6 DEF Next

\* The plugin drops a session that could still be refreshed only when a refresh
\* fails that does not speak against it, or when refreshInFlight is settled.
THEOREM LiveSessionKeptHolds == Spec => LiveSessionKept
<1>1. Init => RefusalIsFinal
  BY DEF Init, RefusalIsFinal
<1>2. Spec => []RefusalIsFinal
  BY <1>1, RefusalStep, TypeCorrect, PTL DEF Spec
<1>3. TypeOK /\ RefusalIsFinal /\ [Next]_vars
        => [LiveSessionDropped =>
              flight = "settled" \/ \E f \in Flows : FailsFalsely(f)]_vars
  BY DropStep
<1> QED BY <1>2, <1>3, TypeCorrect, PTL DEF Spec, LiveSessionKept

----------------------------------------------------------------------------
\* The pairs of tokens, for any number of devices, pairs and calls.

StatementNames ==
  Saving \cup {"lookAccess", "dropAccess", "revokeAccess", "lookRefresh",
               "dropRefresh", "revokeRefresh", "revokeItsAccess", "revokeRow", "revokeRowsAccess"}
Statements ==
  {x \in StatementNames \X TokenPairs \X RefreshRows :
     x[1] \in {"setRefresh", "revokeRow", "revokeRowsAccess"} \/ x[3] = First}
CallRecords ==
  [op : Ending \cup {"none", "bind"}, pc : {"ready", "find", "work", "over", "failed"},
   pair : {0} \cup TokenPairs, new : {0} \cup TokenPairs, ends : SUBSET TokenPairs,
   todo : Seq(Statements)]

\* What is on a list of statements, and in which order.
Listed(s, x) == \E i \in DOMAIN s : s[i] = x
Ahead(s, x, y) == \A j \in DOMAIN s : s[j] = y => \E i \in DOMAIN s : i < j /\ s[i] = x
Behind(s, x, y) == \A i \in DOMAIN s : s[i] = x => \E j \in DOMAIN s : i < j /\ s[j] = y
SavingLast(s) ==
  \A i, j \in DOMAIN s : i < j /\ s[i][1] \in Saving =>
    s[j][1] \in Saving /\ (s[i][1] = "setAccess" => s[j][1] # "unsetAccess")
LookFirst(s) == \A i \in DOMAIN s : s[i][1] = "lookAccess" => i = 1

Todo(c) == tokenCall[c].todo
WillRow(c, name, p, r) == Listed(Todo(c), <<name, p, r>>)
Will(c, name, p) == WillRow(c, name, p, First)
Ends(c) == tokenCall[c].ends
Works(c) == tokenCall[c].pc = "work"
Binds(c, p) == tokenCall[c].op = "bind" /\ tokenCall[c].pair = p
Makes(c, p) == Works(c) /\ (tokenCall[c].new = p \/ Binds(c, p))
Made(c) == tokenCall[c].new # 0

\* What each call may be doing, and with which pairs.
Role(c) ==
  /\ ~Works(c) => Todo(c) = <<>> /\ Ends(c) = {} /\ ~Made(c)
  /\ tokenCall[c].pc \in {"find", "work"} => tokenCall[c].pair \in delivered
  /\ tokenCall[c].op = "bind" => Ends(c) = {} /\ ~Made(c)
  /\ tokenCall[c].op = "bind" /\ tokenCall[c].pc \in {"find", "work"} => tokenCall[c].pair \in given
  /\ Ends(c) \subseteq delivered
  /\ Made(c) => tokenCall[c].new \in used \ delivered
Saves(c, p, r) == Makes(c, p) /\ (r # First => Binds(c, p))
Task(c) ==
  /\ \A name \in StatementNames, p \in TokenPairs, r \in RefreshRows :
       WillRow(c, name, p, r) =>
         IF name \in Saving THEN Saves(c, p, r)
                            ELSE p \in given /\ p \in Ends(c) \cup unsure
  /\ SavingLast(Todo(c)) /\ LookFirst(Todo(c))
Unmade(p) ==
  accessRow[p] = "none" /\ refreshRows[p] = {} /\ ~accessCopy[p] /\ ~refreshCopy[p]
SessionsTyped ==
  /\ TokenTypeOK /\ tokenCall \in [TokenCalls -> CallRecords]
  /\ given \subseteq used /\ ended \subseteq delivered
  /\ \E n \in 0..MaxTokenPairs : used = 1..n
  /\ \A p \in TokenPairs \ used : Unmade(p)
  /\ \A c \in TokenCalls : Role(c) /\ Task(c)
  /\ \A c, d \in TokenCalls : (Made(c) /\ tokenCall[d].new = tokenCall[c].new) => d = c

\* What a statement adds to the work.
Adds(name, p) ==
  CASE name = "lookAccess" /\ accessCopy[p] -> <<<<"dropRefresh", p, First>>>>
    [] name = "lookRefresh" /\ refreshCopy[p] -> <<<<"dropAccess", p, First>>>>
    [] name = "revokeAccess" /\ accessRow[p] = "active" -> <<<<"revokeRow", p, First>>>>
    [] OTHER -> <<>>

\* A pair that nobody touches has its rows, or its maker has still to set them.
Sets(c, q) ==
  /\ refreshRows[q] # {} \/ Will(c, "setRefresh", q)
  /\ accessRow[q] = "active" \/ Will(c, "setAccess", q)
  /\ Behind(Todo(c), <<"unsetRefresh", q, First>>, <<"setRefresh", q, First>>)
  /\ Behind(Todo(c), <<"unsetAccess", q, First>>, <<"setAccess", q, First>>)
KeptFor(p) ==
  /\ p \in delivered => accessRow[p] = "active" /\ refreshRows[p] # {}
  /\ \A c \in TokenCalls : tokenCall[c].new = p => Sets(c, p)
KeptInv == SessionsTyped /\ \A p \in TokenPairs \ (given \cup unsure) : KeptFor(p)

\* A pair that a client knows has its copies; when a call began to end it, it
\* is dead or some call will see to every place where it is not.
Dead(p) ==
  /\ ~accessCopy[p] /\ accessRow[p] # "active"
  /\ ~refreshCopy[p] /\ refreshRows[p] = {}
Kills(c, p) ==
  /\ p \in Ends(c)
  /\ \/ ~accessCopy[p] \/ Will(c, "dropAccess", p)
     \/ refreshCopy[p] /\ Will(c, "lookRefresh", p)
  /\ \/ accessRow[p] # "active" \/ Will(c, "revokeAccess", p)
     \/ Will(c, "revokeItsAccess", p) \/ Will(c, "revokeRowsAccess", p)
  /\ ~refreshCopy[p] \/ Will(c, "dropRefresh", p)
  /\ Will(c, "revokeRefresh", p) \/ \A r \in refreshRows[p] : WillRow(c, "revokeRow", p, r)
Dying(p) == Dead(p) \/ \E c \in TokenCalls : Kills(c, p)
Whole(p) == refreshCopy[p] /\ (accessRow[p] = "active" => accessCopy[p])
Thorough(c, p) ==
  /\ Will(c, "lookAccess", p) /\ accessCopy[p] =>
       /\ Will(c, "dropAccess", p) /\ Will(c, "revokeAccess", p)
       /\ Will(c, "dropRefresh", p) /\ Will(c, "revokeRefresh", p)
  /\ Will(c, "dropRefresh", p) /\ refreshCopy[p] => Kills(c, p)
  /\ \/ ~Will(c, "lookRefresh", p) \/ ~refreshCopy[p] \/ ~accessCopy[p]
     \/ Will(c, "dropAccess", p) \/ Ahead(Todo(c), <<"lookRefresh", p, First>>, <<"dropRefresh", p, First>>)
\* A new pair has its copies, or its maker has still to write them.
Finishes(c, p) ==
  /\ refreshCopy[p] \/ Will(c, "copyRefresh", p)
  /\ accessRow[p] # "active" \/ accessCopy[p] \/ Will(c, "copyAccess", p)
  /\ accessRow[p] # "none" \/ Will(c, "setAccess", p)
  /\ Behind(Todo(c), <<"setAccess", p, First>>, <<"copyAccess", p, First>>)
Making(c, p) ==
  /\ p \notin ended /\ \A d \in TokenCalls : p \notin Ends(d)
  /\ IF Binds(c, p) THEN Whole(p) ELSE Finishes(c, p)
  /\ \A r \in RefreshRows :
       Behind(Todo(c), <<"setRefresh", p, r>>, <<"unsetAccess", p, First>>)
\* The access row belongs to the first row of the refresh token: while it is
\* active there is no other, unless a binding is about to revoke it.
Tied(p) ==
  /\ p \notin delivered => refreshRows[p] \subseteq {First}
  /\ p \in delivered => accessRow[p] # "none"
  /\ accessRow[p] = "active" =>
       \/ refreshRows[p] \subseteq {First}
       \/ \E c \in TokenCalls : Makes(c, p) /\ Will(c, "unsetAccess", p)
OutFor(p) ==
  /\ Tied(p)
  /\ p \in delivered => Whole(p) \/ Dying(p)
  /\ p \in ended => Dying(p)
  /\ \A c \in TokenCalls : /\ p \in Ends(c) => Dying(p) /\ Thorough(c, p)
                           /\ Makes(c, p) => Making(c, p)
OutInv == SessionsTyped /\ \A p \in TokenPairs \ unsure : OutFor(p)

----------------------------------------------------------------------------
\* A list without its first statement, or with another one in its place.
LEMMA FirstGone ==
  ASSUME NEW m \in Nat, NEW s, NEW t, DOMAIN s = 1..m, DOMAIN t = 1..m - 1,
         \A i \in 1..m - 1 : t[i] = s[i + 1]
  PROVE  /\ \A x : Listed(t, x) => Listed(s, x)
         /\ \A x : Listed(s, x) /\ x # s[1] => Listed(t, x)
         /\ \A x, y : Behind(s, x, y) => Behind(t, x, y)
         /\ \A x, y : Ahead(s, x, y) /\ x # s[1] => Ahead(t, x, y)
         /\ SavingLast(s) => SavingLast(t)
         /\ LookFirst(s) => \A i \in DOMAIN t : t[i][1] # "lookAccess"
<1>1. \A i \in DOMAIN t : i \in Nat /\ i + 1 \in DOMAIN s /\ i + 1 # 1 /\ t[i] = s[i + 1]
  OBVIOUS
<1>2. \A i \in DOMAIN s : i \in Nat /\ (i # 1 => i - 1 \in DOMAIN t /\ t[i - 1] = s[i])
  <2>1. SUFFICES ASSUME NEW i \in 1..m, i # 1
                 PROVE  i - 1 \in 1..m - 1 /\ t[i - 1] = s[i]
    OBVIOUS
  <2>2. i - 1 \in 1..m - 1 /\ (i - 1) + 1 = i
    BY <2>1
  <2> QED BY <2>2
<1>3. \A x, y : Behind(s, x, y) => Behind(t, x, y)
  <2>0. SUFFICES ASSUME NEW x, NEW y, Behind(s, x, y)
                 PROVE  Behind(t, x, y)
    OBVIOUS
  <2>1. SUFFICES ASSUME NEW i \in DOMAIN t, t[i] = x
                 PROVE  \E j \in DOMAIN t : i < j /\ t[j] = y
    BY DEF Behind
  <2>2. PICK j \in DOMAIN s : i + 1 < j /\ s[j] = y
    BY ONLY <1>1, <2>0, <2>1 DEF Behind
  <2>3. j - 1 \in DOMAIN t /\ t[j - 1] = y /\ i < j - 1
    BY ONLY <1>1, <1>2, <2>0, <2>1, <2>2
  <2> QED BY ONLY <2>3
<1>4. \A x, y : Ahead(s, x, y) /\ x # s[1] => Ahead(t, x, y)
  <2>0. SUFFICES ASSUME NEW x, NEW y, Ahead(s, x, y), x # s[1]
                 PROVE  Ahead(t, x, y)
    OBVIOUS
  <2>1. SUFFICES ASSUME NEW i \in DOMAIN t, t[i] = y
                 PROVE  \E j \in DOMAIN t : j < i /\ t[j] = x
    BY DEF Ahead
  <2>2. PICK j \in DOMAIN s : j < i + 1 /\ s[j] = x
    BY ONLY <1>1, <2>0, <2>1 DEF Ahead
  <2>3. j - 1 \in DOMAIN t /\ t[j - 1] = x /\ j - 1 < i
    BY ONLY <1>1, <1>2, <2>0, <2>1, <2>2
  <2> QED BY ONLY <2>3
<1>5. SavingLast(s) => SavingLast(t)
  <2>1. \A i, j \in DOMAIN t : i < j => i + 1 < j + 1
    BY <1>1
  <2> QED BY ONLY <1>1, <2>1 DEF SavingLast
<1>6. LookFirst(s) => \A i \in DOMAIN t : t[i][1] # "lookAccess"
  BY ONLY <1>1 DEF LookFirst
<1> QED BY ONLY <1>1, <1>2, <1>3, <1>4, <1>5, <1>6 DEF Listed

\* A list with another first statement.
LEMMA FirstReplaced ==
  ASSUME NEW m \in Nat, m >= 1, NEW s, NEW t, DOMAIN s = 1..m, DOMAIN t = 1..m,
         \A i \in 2..m : t[i] = s[i]
  PROVE  /\ Listed(t, t[1])
         /\ \A x : Listed(t, x) => Listed(s, x) \/ x = t[1]
         /\ \A x : Listed(s, x) /\ x # s[1] => Listed(t, x)
         /\ \A x, y : Behind(s, x, y) /\ x # t[1] => Behind(t, x, y)
         /\ \A x, y : Ahead(s, x, y) /\ x # s[1] /\ y # t[1] => Ahead(t, x, y)
         /\ SavingLast(s) /\ t[1][1] \notin Saving => SavingLast(t)
         /\ LookFirst(s) /\ t[1][1] # "lookAccess" => \A i \in DOMAIN t : t[i][1] # "lookAccess"
<1>1. \A i \in DOMAIN s : i \in Nat /\ i >= 1 /\ i \in DOMAIN t /\ (i # 1 => t[i] = s[i])
  <2>1. SUFFICES ASSUME NEW i \in 1..m, i # 1
                 PROVE  t[i] = s[i]
    OBVIOUS
  <2>2. i \in 2..m
    BY <2>1
  <2> QED BY <2>2
<1>2. DOMAIN t = DOMAIN s /\ 1 \in DOMAIN t
  OBVIOUS
<1>3. \A x, y : Behind(s, x, y) /\ x # t[1] => Behind(t, x, y)
  <2>0. SUFFICES ASSUME NEW x, NEW y, Behind(s, x, y), x # t[1]
                 PROVE  Behind(t, x, y)
    OBVIOUS
  <2>1. SUFFICES ASSUME NEW i \in DOMAIN t, t[i] = x
                 PROVE  \E j \in DOMAIN t : i < j /\ t[j] = y
    BY DEF Behind
  <2>2. PICK j \in DOMAIN s : i < j /\ s[j] = y
    BY ONLY <1>1, <1>2, <2>0, <2>1 DEF Behind
  <2>3. j # 1
    BY ONLY <1>1, <1>2, <2>0, <2>1, <2>2
  <2> QED BY ONLY <1>1, <2>2, <2>3
<1>4. \A x, y : Ahead(s, x, y) /\ x # s[1] /\ y # t[1] => Ahead(t, x, y)
  <2>0. SUFFICES ASSUME NEW x, NEW y, Ahead(s, x, y), x # s[1], y # t[1]
                 PROVE  Ahead(t, x, y)
    OBVIOUS
  <2>1. SUFFICES ASSUME NEW i \in DOMAIN t, t[i] = y
                 PROVE  \E j \in DOMAIN t : j < i /\ t[j] = x
    BY DEF Ahead
  <2>2. PICK j \in DOMAIN s : j < i /\ s[j] = x
    BY ONLY <1>1, <1>2, <2>0, <2>1 DEF Ahead
  <2> QED BY ONLY <1>1, <2>0, <2>1, <2>2
<1>5. SavingLast(s) /\ t[1][1] \notin Saving => SavingLast(t)
  <2>1. \A i, j \in DOMAIN t : i < j => j # 1
    BY ONLY <1>1, <1>2
  <2> QED BY ONLY <1>1, <1>2, <2>1 DEF SavingLast
<1>6. LookFirst(s) /\ t[1][1] # "lookAccess" => \A i \in DOMAIN t : t[i][1] # "lookAccess"
  BY ONLY <1>1, <1>2 DEF LookFirst
<1> QED BY ONLY <1>1, <1>2, <1>3, <1>4, <1>5, <1>6 DEF Listed

\* The first statement is done, and may add one.
LEMMA ListGoesOn ==
  ASSUME NEW s \in Seq(Statements), s # <<>>, NEW first, NEW t, t = first \o Tail(s),
         first = <<>> \/ \E z \in Statements :
                           first = <<z>> /\ z[1] \notin Saving /\ z[1] # "lookAccess",
         SavingLast(s), LookFirst(s)
  PROVE  /\ t \in Seq(Statements) /\ Head(s) \in Statements /\ Listed(s, Head(s))
         /\ \A x : Listed(t, x) => Listed(s, x) \/ first = <<x>>
         /\ \A x : Listed(s, x) /\ x # Head(s) => Listed(t, x)
         /\ \A x : first = <<x>> => Listed(t, x)
         /\ \A x, y : Behind(s, x, y) /\ first # <<x>> => Behind(t, x, y)
         /\ \A x, y : Ahead(s, x, y) /\ x # Head(s) /\ first # <<y>> => Ahead(t, x, y)
         /\ SavingLast(t) /\ LookFirst(t) /\ \A p, r : ~Listed(t, <<"lookAccess", p, r>>)
         /\ Head(s)[1] \in Saving => \A x : Listed(s, x) => x[1] \in Saving
         /\ Head(s)[1] = "setAccess" => \A x : Listed(s, x) => x[1] # "unsetAccess"
<1>1. /\ Len(s) \in Nat /\ Len(s) >= 1 /\ Head(s) = s[1] /\ Head(s) \in Statements
      /\ DOMAIN s = 1..Len(s) /\ Listed(s, Head(s))
      /\ Tail(s) \in Seq(Statements) /\ Len(Tail(s)) = Len(s) - 1
      /\ \A i \in 1..Len(s) - 1 : Tail(s)[i] = s[i + 1]
  BY DEF Listed
<1>2. /\ Head(s)[1] \in Saving => \A x : Listed(s, x) => x[1] \in Saving
      /\ Head(s)[1] = "setAccess" => \A x : Listed(s, x) => x[1] # "unsetAccess"
  <2>1. 1 \in DOMAIN s /\ \A i \in DOMAIN s : i # 1 => 1 < i
    BY ONLY <1>1
  <2>2. \A i, j \in DOMAIN s : i < j /\ s[i][1] \in Saving =>
          s[j][1] \in Saving /\ (s[i][1] = "setAccess" => s[j][1] # "unsetAccess")
    BY DEF SavingLast
  <2>3. "setAccess" \in Saving
    BY DEF Saving
  <2> QED BY ONLY <1>1, <2>1, <2>2, <2>3 DEF Listed
<1>3. CASE first = <<>>
  <2>1. t = Tail(s)
    BY <1>1, <1>3
  <2>2. DOMAIN t = 1..Len(s) - 1 /\ \A i \in 1..Len(s) - 1 : t[i] = s[i + 1]
    BY ONLY <1>1, <2>1
  <2>3. \A x : first # <<x>>
    BY <1>3
  <2>4. /\ \A x : Listed(t, x) => Listed(s, x)
        /\ \A x : Listed(s, x) /\ x # s[1] => Listed(t, x)
        /\ \A x, y : Behind(s, x, y) => Behind(t, x, y)
        /\ \A x, y : Ahead(s, x, y) /\ x # s[1] => Ahead(t, x, y)
        /\ SavingLast(s) => SavingLast(t)
        /\ LookFirst(s) => \A i \in DOMAIN t : t[i][1] # "lookAccess"
    BY ONLY <1>1, <2>2, FirstGone
  <2>5. LookFirst(t) /\ \A p, r : ~Listed(t, <<"lookAccess", p, r>>)
    BY <2>4 DEF LookFirst, Listed
  <2> QED BY <1>1, <1>2, <2>1, <2>3, <2>4, <2>5
<1>4. CASE \E z \in Statements : first = <<z>> /\ z[1] \notin Saving /\ z[1] # "lookAccess"
  <2>1. PICK z \in Statements : first = <<z>> /\ z[1] \notin Saving /\ z[1] # "lookAccess"
    BY <1>4
  <2>2. first \in Seq(Statements) /\ Len(first) = 1 /\ first[1] = z
    BY <2>1
  <2>3. t = first \o Tail(s)
    OBVIOUS
  <2>4. /\ t \in Seq(Statements) /\ Len(t) = Len(first) + Len(Tail(s))
        /\ \A i \in 1..Len(first) + Len(Tail(s)) :
             t[i] = IF i <= Len(first) THEN first[i] ELSE Tail(s)[i - Len(first)]
    <3>1. Tail(s) \in Seq(Statements)
      BY <1>1
    <3>2. /\ first \o Tail(s) \in Seq(Statements)
          /\ Len(first \o Tail(s)) = Len(first) + Len(Tail(s))
          /\ \A i \in 1..Len(first) + Len(Tail(s)) :
               (first \o Tail(s))[i] = IF i <= Len(first) THEN first[i] ELSE Tail(s)[i - Len(first)]
      BY ONLY <2>2, <3>1, ConcatProperties, Zenon
    <3> QED BY ONLY <2>3, <3>2, Zenon
  <2>5. /\ DOMAIN t = 1..Len(s) /\ t[1] = z
        /\ \A i \in 2..Len(s) : t[i] = Tail(s)[i - 1] /\ i - 1 \in 1..Len(s) - 1 /\ (i - 1) + 1 = i
    BY ONLY <1>1, <2>2, <2>4
  <2>6. \A i \in 2..Len(s) : t[i] = s[i]
    BY ONLY <1>1, <2>5
  <2>7. /\ Listed(t, t[1])
        /\ \A x : Listed(t, x) => Listed(s, x) \/ x = t[1]
        /\ \A x : Listed(s, x) /\ x # s[1] => Listed(t, x)
        /\ \A x, y : Behind(s, x, y) /\ x # t[1] => Behind(t, x, y)
        /\ \A x, y : Ahead(s, x, y) /\ x # s[1] /\ y # t[1] => Ahead(t, x, y)
        /\ SavingLast(s) /\ t[1][1] \notin Saving => SavingLast(t)
        /\ LookFirst(s) /\ t[1][1] # "lookAccess" => \A i \in DOMAIN t : t[i][1] # "lookAccess"
    BY ONLY <1>1, <2>5, <2>6, FirstReplaced
  <2>8. LookFirst(t) /\ \A p, r : ~Listed(t, <<"lookAccess", p, r>>)
    BY <2>1, <2>5, <2>7 DEF LookFirst, Listed
  <2>9. \A x : first = <<x>> <=> x = t[1]
    BY <2>1, <2>5
  <2>10. /\ \A x : Listed(t, x) => Listed(s, x) \/ first = <<x>>
         /\ \A x : first = <<x>> => Listed(t, x)
         /\ \A x, y : Behind(s, x, y) /\ first # <<x>> => Behind(t, x, y)
         /\ \A x, y : Ahead(s, x, y) /\ x # Head(s) /\ first # <<y>> => Ahead(t, x, y)
    BY ONLY <1>1, <2>7, <2>9
  <2> QED BY <1>1, <1>2, <2>1, <2>4, <2>5, <2>7, <2>8, <2>10
<1> QED BY <1>3, <1>4

\* Lists one after another.
LEMMA ListsJoin ==
  ASSUME NEW S, NEW s \in Seq(S), NEW t \in Seq(S)
  PROVE  /\ s \o t \in Seq(S)
         /\ \A x : Listed(s \o t, x) <=> Listed(s, x) \/ Listed(t, x)
         /\ \A x, y : Behind(s, x, y) /\ Behind(t, x, y) => Behind(s \o t, x, y)
<1> DEFINE u == s \o t
<1>1. /\ Len(s) \in Nat /\ Len(t) \in Nat /\ DOMAIN s = 1..Len(s) /\ DOMAIN t = 1..Len(t)
      /\ u \in Seq(S) /\ DOMAIN u = 1..Len(s) + Len(t)
      /\ \A i \in 1..Len(s) + Len(t) : u[i] = IF i <= Len(s) THEN s[i] ELSE t[i - Len(s)]
  OBVIOUS
<1> HIDE DEF u
<1>2. \A i \in DOMAIN s : i \in DOMAIN u /\ u[i] = s[i]
  BY <1>1
<1>3. \A i \in DOMAIN t : i + Len(s) \in DOMAIN u /\ u[i + Len(s)] = t[i]
  BY <1>1
<1>4. \A i \in DOMAIN u : i \in DOMAIN s \/ (i - Len(s) \in DOMAIN t /\ u[i] = t[i - Len(s)])
  BY <1>1
<1>5. \A x : Listed(u, x) <=> Listed(s, x) \/ Listed(t, x)
  BY <1>2, <1>3, <1>4 DEF Listed
<1>6. \A x, y : Behind(s, x, y) /\ Behind(t, x, y) => Behind(u, x, y)
  <2>1. SUFFICES ASSUME NEW x, NEW y, Behind(s, x, y), Behind(t, x, y), NEW i \in DOMAIN u, u[i] = x
                 PROVE  \E j \in DOMAIN u : i < j /\ u[j] = y
    BY DEF Behind
  <2>2. CASE i \in DOMAIN s
    <3>1. PICK j \in DOMAIN s : i < j /\ s[j] = y
      BY <1>2, <2>1, <2>2 DEF Behind
    <3> QED BY <1>2, <3>1
  <2>3. CASE i - Len(s) \in DOMAIN t /\ u[i] = t[i - Len(s)]
    <3>1. PICK j \in DOMAIN t : i - Len(s) < j /\ t[j] = y
      BY <2>1, <2>3 DEF Behind
    <3>2. i < j + Len(s)
      BY <1>1, <3>1
    <3> QED BY <1>3, <3>1, <3>2
  <2> QED BY <1>4, <2>2, <2>3
<1> QED BY <1>1, <1>5, <1>6 DEF u

\* Lists keep the order of their statements when they follow one another.
LEMMA OrdersJoin ==
  ASSUME NEW s \in Seq(Statements), NEW t \in Seq(Statements),
         \A x : Listed(s, x) => x[1] \notin Saving,
         \A x : Listed(t, x) => x[1] # "lookAccess",
         SavingLast(t), LookFirst(s)
  PROVE  SavingLast(s \o t) /\ LookFirst(s \o t)
<1> DEFINE u == s \o t
<1>1. /\ Len(s) \in Nat /\ Len(t) \in Nat /\ DOMAIN s = 1..Len(s) /\ DOMAIN t = 1..Len(t)
      /\ u \in Seq(Statements) /\ DOMAIN u = 1..Len(s) + Len(t)
      /\ \A i \in 1..Len(s) + Len(t) : u[i] = IF i <= Len(s) THEN s[i] ELSE t[i - Len(s)]
  OBVIOUS
<1> HIDE DEF u
<1>2. \A i \in DOMAIN s : s[i][1] \notin Saving
  BY DEF Listed
<1>3. \A i \in DOMAIN t : t[i][1] # "lookAccess"
  BY DEF Listed
<1>4. LookFirst(u)
  <2>1. \A i \in DOMAIN u : (i \in DOMAIN s /\ u[i] = s[i]) \/ (i - Len(s) \in DOMAIN t /\ u[i] = t[i - Len(s)])
    BY ONLY <1>1
  <2> QED BY <1>3, <2>1 DEF LookFirst
<1>5. SavingLast(u)
  <2>1. SUFFICES ASSUME NEW i \in DOMAIN u, NEW j \in DOMAIN u, i < j, u[i][1] \in Saving
                 PROVE  u[j][1] \in Saving /\ (u[i][1] = "setAccess" => u[j][1] # "unsetAccess")
    BY DEF SavingLast
  <2>2. i > Len(s)
    BY <1>1, <1>2, <2>1
  <2>3. /\ i - Len(s) \in DOMAIN t /\ j - Len(s) \in DOMAIN t /\ i - Len(s) < j - Len(s)
        /\ u[i] = t[i - Len(s)] /\ u[j] = t[j - Len(s)]
    BY <1>1, <2>1, <2>2
  <2> QED BY <2>1, <2>3 DEF SavingLast
<1> QED BY <1>4, <1>5 DEF u

\* The lists of statements the repository works through.
LEMMA DeleteByAccessIs ==
  ASSUME NEW p \in TokenPairs
  PROVE  /\ DeleteByAccess(p) \in Seq(Statements)
         /\ \A x : Listed(DeleteByAccess(p), x) <=>
              x \in {<<"lookAccess", p, First>>, <<"dropAccess", p, First>>, <<"revokeAccess", p, First>>}
         /\ LookFirst(DeleteByAccess(p))
<1>1. /\ DeleteByAccess(p) \in Seq(Statements) /\ DOMAIN DeleteByAccess(p) = 1..3
      /\ DeleteByAccess(p)[1] = <<"lookAccess", p, First>> /\ DeleteByAccess(p)[2] = <<"dropAccess", p, First>>
      /\ DeleteByAccess(p)[3] = <<"revokeAccess", p, First>>
  BY DEF DeleteByAccess, For, Statements, StatementNames, RefreshRows
<1>2. /\ \A i \in DOMAIN DeleteByAccess(p) : i \in {1, 2, 3}
      /\ \A i \in {1, 2, 3} : i \in DOMAIN DeleteByAccess(p)
  BY <1>1
<1>3. LookFirst(DeleteByAccess(p))
  BY <1>1, <1>2 DEF LookFirst
<1> QED BY <1>1, <1>2, <1>3 DEF Listed

\* What deleting by the refresh token does.
LEMMA DeleteByRefreshIs ==
  ASSUME NEW p \in TokenPairs
  PROVE  /\ DeleteByRefresh(p) \in Seq(Statements) /\ DOMAIN DeleteByRefresh(p) = 1..4
         /\ \A x : Listed(DeleteByRefresh(p), x) <=>
              x \in {<<"lookRefresh", p, First>>, <<"dropRefresh", p, First>>, <<"revokeRefresh", p, First>>,
                     <<"revokeItsAccess", p, First>>}
         /\ DeleteByRefresh(p)[1] = <<"lookRefresh", p, First>>
         /\ DeleteByRefresh(p)[2] = <<"dropRefresh", p, First>>
         /\ DeleteByRefresh(p)[3] = <<"revokeRefresh", p, First>>
         /\ DeleteByRefresh(p)[4] = <<"revokeItsAccess", p, First>>
<1>1. /\ DeleteByRefresh(p) \in Seq(Statements) /\ DOMAIN DeleteByRefresh(p) = 1..4
      /\ DeleteByRefresh(p)[1] = <<"lookRefresh", p, First>> /\ DeleteByRefresh(p)[2] = <<"dropRefresh", p, First>>
      /\ DeleteByRefresh(p)[3] = <<"revokeRefresh", p, First>>
      /\ DeleteByRefresh(p)[4] = <<"revokeItsAccess", p, First>>
  BY DEF DeleteByRefresh, For, Statements, StatementNames, RefreshRows
<1>2. /\ \A i \in DOMAIN DeleteByRefresh(p) : i \in {1, 2, 3, 4}
      /\ \A i \in {1, 2, 3, 4} : i \in DOMAIN DeleteByRefresh(p)
  BY <1>1
<1> QED BY <1>1, <1>2 DEF Listed

\* What saving a pair does, and in which order.
LEMMA SaveAccessIs ==
  ASSUME NEW p \in TokenPairs
  PROVE  /\ SaveAccess(p) \in Seq(Statements)
         /\ \A x : Listed(SaveAccess(p), x) <=>
              x \in {<<"unsetAccess", p, First>>, <<"setAccess", p, First>>,
                     <<"copyAccess", p, First>>, <<"copyRefresh", p, First>>}
         /\ SavingLast(SaveAccess(p)) /\ LookFirst(SaveAccess(p))
         /\ Behind(SaveAccess(p), <<"unsetAccess", p, First>>, <<"setAccess", p, First>>)
         /\ Behind(SaveAccess(p), <<"setAccess", p, First>>, <<"copyAccess", p, First>>)
<1> DEFINE s == SaveAccess(p)
<1>1. /\ s \in Seq(Statements) /\ DOMAIN s = 1..4
      /\ s[1] = <<"unsetAccess", p, First>> /\ s[2] = <<"setAccess", p, First>>
      /\ s[3] = <<"copyAccess", p, First>> /\ s[4] = <<"copyRefresh", p, First>>
  BY DEF SaveAccess, For, Statements, StatementNames, Saving, RefreshRows
<1> HIDE DEF s
<1>2. \A i \in DOMAIN s : i \in {1, 2, 3, 4}
  BY <1>1
<1>3. \A i \in DOMAIN s : s[i][1] \in Saving /\ s[i][1] # "lookAccess"
  BY <1>1, <1>2 DEF Saving
<1>4. /\ \A i \in DOMAIN s : s[i][1] = "unsetAccess" => i = 1
      /\ \A i \in DOMAIN s : s[i][1] = "setAccess" => i = 2
  BY <1>1, <1>2
<1>5. 2 \in DOMAIN s /\ 3 \in DOMAIN s
  BY <1>1
<1>6. /\ Behind(s, <<"unsetAccess", p, First>>, <<"setAccess", p, First>>)
      /\ Behind(s, <<"setAccess", p, First>>, <<"copyAccess", p, First>>)
  BY <1>1, <1>4, <1>5 DEF Behind
<1>7. \A x : Listed(s, x) <=>
        x \in {<<"unsetAccess", p, First>>, <<"setAccess", p, First>>,
               <<"copyAccess", p, First>>, <<"copyRefresh", p, First>>}
  <2>1. \A i \in {1, 2, 3, 4} : i \in DOMAIN s
    BY <1>1
  <2> QED BY <1>1, <1>2, <2>1 DEF Listed
<1>8. SavingLast(s) /\ LookFirst(s)
  BY <1>1, <1>3, <1>4 DEF SavingLast, LookFirst
<1> QED BY <1>1, <1>6, <1>7, <1>8 DEF s

\* With the statements for the refresh token before it.
LEMMA SaveTokenSessionIs ==
  ASSUME NEW p \in TokenPairs, NEW r \in RefreshRows
  PROVE  /\ SaveTokenSession(p, r) \in Seq(Statements)
         /\ \A x : Listed(SaveTokenSession(p, r), x) <=>
              x \in {<<"unsetRefresh", p, First>>, <<"setRefresh", p, r>>,
                     <<"unsetAccess", p, First>>, <<"setAccess", p, First>>,
                     <<"copyAccess", p, First>>, <<"copyRefresh", p, First>>}
         /\ SavingLast(SaveTokenSession(p, r)) /\ LookFirst(SaveTokenSession(p, r))
         /\ Behind(SaveTokenSession(p, r), <<"unsetRefresh", p, First>>, <<"setRefresh", p, r>>)
         /\ Behind(SaveTokenSession(p, r), <<"setRefresh", p, r>>, <<"unsetAccess", p, First>>)
         /\ Behind(SaveTokenSession(p, r), <<"unsetAccess", p, First>>, <<"setAccess", p, First>>)
         /\ Behind(SaveTokenSession(p, r), <<"setAccess", p, First>>, <<"copyAccess", p, First>>)
<1> DEFINE s == SaveTokenSession(p, r)
<1>1. /\ s \in Seq(Statements) /\ DOMAIN s = 1..6
      /\ s[1] = <<"unsetRefresh", p, First>> /\ s[2] = <<"setRefresh", p, r>>
      /\ s[3] = <<"unsetAccess", p, First>> /\ s[4] = <<"setAccess", p, First>>
      /\ s[5] = <<"copyAccess", p, First>> /\ s[6] = <<"copyRefresh", p, First>>
  BY DEF SaveTokenSession, SaveAccess, For, Statements, StatementNames, Saving, RefreshRows
<1> HIDE DEF s
<1>2. \A i \in DOMAIN s : i \in {1, 2, 3, 4, 5, 6}
  BY <1>1
<1>3. \A i \in DOMAIN s : s[i][1] \in Saving /\ s[i][1] # "lookAccess"
  BY <1>1, <1>2 DEF Saving
<1>4. /\ \A i \in DOMAIN s : s[i][1] = "unsetRefresh" => i = 1
      /\ \A i \in DOMAIN s : s[i][1] = "setRefresh" => i = 2
      /\ \A i \in DOMAIN s : s[i][1] = "unsetAccess" => i = 3
      /\ \A i \in DOMAIN s : s[i][1] = "setAccess" => i = 4
  BY <1>1, <1>2
<1>5. 2 \in DOMAIN s /\ 3 \in DOMAIN s /\ 4 \in DOMAIN s /\ 5 \in DOMAIN s
  BY <1>1
<1>6. /\ Behind(s, <<"unsetRefresh", p, First>>, <<"setRefresh", p, r>>)
      /\ Behind(s, <<"setRefresh", p, r>>, <<"unsetAccess", p, First>>)
      /\ Behind(s, <<"unsetAccess", p, First>>, <<"setAccess", p, First>>)
      /\ Behind(s, <<"setAccess", p, First>>, <<"copyAccess", p, First>>)
  BY <1>1, <1>4, <1>5 DEF Behind
<1>7. \A x : Listed(s, x) <=>
        x \in {<<"unsetRefresh", p, First>>, <<"setRefresh", p, r>>, <<"unsetAccess", p, First>>,
               <<"setAccess", p, First>>, <<"copyAccess", p, First>>, <<"copyRefresh", p, First>>}
  <2>1. \A i \in {1, 2, 3, 4, 5, 6} : i \in DOMAIN s
    BY <1>1
  <2> QED BY <1>1, <1>2, <2>1 DEF Listed
<1>8. SavingLast(s) /\ LookFirst(s)
  BY <1>1, <1>3, <1>4 DEF SavingLast, LookFirst
<1> QED BY <1>1, <1>6, <1>7, <1>8 DEF s

\* An order of the active rows names each of them.
LEMMA OrderCovers ==
  ASSUME NEW all \in SUBSET (TokenPairs \X RefreshRows), NEW order \in SetToSeqs(all)
  PROVE  \E k \in Nat : order \in [1..k -> all] /\ \A x \in all : \E i \in 1..k : order[i] = x
<1> DEFINE k == Cardinality(all)
<1>1. IsFiniteSet(TokenPairs \X RefreshRows)
  <2>1. IsFiniteSet(TokenPairs) /\ IsFiniteSet(TokenCalls)
    BY TokenAssumption, FS_Interval DEF TokenPairs
  <2>2. IsFiniteSet(RefreshRows)
    BY <2>1, FS_AddElement DEF RefreshRows
  <2> QED BY <2>1, <2>2, FS_Product
<1>2. IsFiniteSet(all) /\ k \in Nat
  BY <1>1, FS_Subset, FS_CardinalityType
<1>3. Cardinality(1..k) = k
  BY <1>2, FS_Interval
<1>4. order \in [1..k -> all] /\ \A i, j \in 1..k : i # j => order[i] # order[j]
  BY DEF SetToSeqs
<1>5. order \in Injection(1..k, all)
  BY <1>4, Fun_IsInj
<1>6. order \in Surjection(1..k, all)
  BY <1>2, <1>3, <1>5, FS_Injection
<1> QED BY <1>2, <1>4, <1>6, Fun_SurjectionProperties

\* What deleting one row of a refresh token does.
LEMMA DeleteRowIs ==
  ASSUME NEW p \in TokenPairs, NEW r \in RefreshRows
  PROVE  /\ DeleteRow(p, r) \in Seq(Statements) /\ DOMAIN DeleteRow(p, r) = 1..4
         /\ DeleteRow(p, r)[1] = <<"lookRefresh", p, First>>
         /\ DeleteRow(p, r)[2] = <<"dropRefresh", p, First>>
         /\ DeleteRow(p, r)[3] = <<"revokeRow", p, r>>
         /\ DeleteRow(p, r)[4] = <<"revokeRowsAccess", p, r>>
  BY DEF DeleteRow, Statements, StatementNames, RefreshRows

\* What deleting every row does.
Deletes(p, r) ==
  {<<"lookRefresh", p, First>>, <<"dropRefresh", p, First>>,
   <<"revokeRow", p, r>>, <<"revokeRowsAccess", p, r>>}
LEMMA DeleteEachIs ==
  ASSUME NEW all \in SUBSET (TokenPairs \X RefreshRows), NEW order \in SetToSeqs(all)
  PROVE  /\ DeleteEach(order) \in Seq(Statements)
         /\ \A x : Listed(DeleteEach(order), x) <=>
              \E row \in all : x \in Deletes(row[1], row[2])
         /\ SavingLast(DeleteEach(order)) /\ LookFirst(DeleteEach(order))
         /\ \A p : Ahead(DeleteEach(order), <<"lookRefresh", p, First>>, <<"dropRefresh", p, First>>)
<1> DEFINE k == Len(order)
           D == DeleteEach(order)
           P(n) == order[1 + ((n - 1) \div 4)]
           Row(row) == DeleteRow(row[1], row[2])
<1>1. k \in Nat /\ order \in [1..k -> all] /\ \A x \in all : \E i \in 1..k : order[i] = x
  <2>1. PICK m \in Nat : order \in [1..m -> all] /\ \A x \in all : \E i \in 1..m : order[i] = x
    BY OrderCovers
  <2>2. order \in Seq(all) /\ Len(order) = m
    BY <2>1
  <2> QED BY <2>1, <2>2
<1>2. DOMAIN D = 1..4 * k /\ \A n \in 1..4 * k : D[n] = Row(P(n))[1 + ((n - 1) % 4)]
  BY DEF DeleteEach
<1>3. \A n \in 1..4 * k : /\ 1 + ((n - 1) \div 4) \in 1..k /\ 1 + ((n - 1) % 4) \in 1..4
                          /\ 1 + ((n - 1) % 4) = 2 => /\ n - 1 \in 1..4 * k /\ n - 1 < n
                                                       /\ (n - 2) \div 4 = (n - 1) \div 4
                                                       /\ 1 + ((n - 2) % 4) = 1
  BY ONLY <1>1
<1>0. \A row \in all :
        /\ row[1] \in TokenPairs /\ row[2] \in RefreshRows
        /\ Row(row) \in Seq(Statements) /\ DOMAIN Row(row) = 1..4
        /\ Row(row)[1] = <<"lookRefresh", row[1], First>>
        /\ Row(row)[2] = <<"dropRefresh", row[1], First>>
        /\ Row(row)[3] = <<"revokeRow", row[1], row[2]>>
        /\ Row(row)[4] = <<"revokeRowsAccess", row[1], row[2]>>
  BY DeleteRowIs
<1>4. \A n \in 1..4 * k : /\ P(n) \in all
                          /\ D[n] \in Statements /\ D[n] \in Deletes(P(n)[1], P(n)[2])
  <2>1. SUFFICES ASSUME NEW n \in 1..4 * k
                 PROVE  /\ P(n) \in all
                        /\ D[n] \in Statements /\ D[n] \in Deletes(P(n)[1], P(n)[2])
    OBVIOUS
  <2>2. P(n) \in all
    BY <1>1, <1>3, <2>1
  <2>0. /\ 1 + ((n - 1) % 4) \in {1, 2, 3, 4}
        /\ D[n] = Row(P(n))[1 + ((n - 1) % 4)]
    <3>1. D[n] = Row(P(n))[1 + ((n - 1) % 4)]
      BY <1>2, <2>1
    <3>2. 1 + ((n - 1) % 4) \in {1, 2, 3, 4}
      BY ONLY <1>3, <2>1
    <3> QED BY <3>1, <3>2
  <2> HIDE DEF D, P, Row
  <2>3. PICK i \in {1, 2, 3, 4} : D[n] = Row(P(n))[i]
    BY ONLY <2>0
  <2>4. Row(P(n)) \in Seq(Statements) /\ i \in DOMAIN Row(P(n))
    BY <1>0, <2>2, <2>3
  <2>5. D[n] \in Statements
    BY <2>3, <2>4
  <2>6. /\ Row(P(n))[1] = <<"lookRefresh", P(n)[1], First>>
        /\ Row(P(n))[2] = <<"dropRefresh", P(n)[1], First>>
        /\ Row(P(n))[3] = <<"revokeRow", P(n)[1], P(n)[2]>>
        /\ Row(P(n))[4] = <<"revokeRowsAccess", P(n)[1], P(n)[2]>>
    BY <1>0, <2>2
  <2> QED BY <2>2, <2>3, <2>5, <2>6 DEF Deletes
<1>5. D \in Seq(Statements)
  <2>1. 4 * k \in Nat /\ D = [n \in 1..4 * k |-> D[n]]
    BY <1>1, <1>2 DEF DeleteEach
  <2> QED BY <1>2, <1>4, <2>1
<1>6. ASSUME NEW row \in all, NEW i \in 1..4
      PROVE  \E n \in 1..4 * k : D[n] = Row(row)[i]
  <2>1. PICK m \in 1..k : order[m] = row
    BY <1>1
  <2>2. PICK n \in 1..4 * k : 1 + ((n - 1) \div 4) = m /\ 1 + ((n - 1) % 4) = i
    <3>1. /\ 4 * (m - 1) + i \in 1..4 * k
          /\ 1 + (((4 * (m - 1) + i) - 1) \div 4) = m /\ 1 + (((4 * (m - 1) + i) - 1) % 4) = i
      BY ONLY <1>1, <1>6, <2>1
    <3> QED BY <3>1
  <2>3. P(n) = row
    BY <2>1, <2>2
  <2>4. D[n] = Row(P(n))[1 + ((n - 1) % 4)]
    BY <1>2
  <2> QED BY ONLY <2>2, <2>3, <2>4
<1>7. \A x : Listed(D, x) <=> \E row \in all : x \in Deletes(row[1], row[2])
  <2>1. \A x : Listed(D, x) => \E row \in all : x \in Deletes(row[1], row[2])
    BY <1>2, <1>4 DEF Listed
  <2>2. ASSUME NEW row \in all, NEW x \in Deletes(row[1], row[2])
        PROVE  Listed(D, x)
    <3>1. \A i \in 1..4 : Listed(D, Row(row)[i])
      BY <1>2, <1>6, <2>2 DEF Listed
    <3>2. 1 \in 1..4 /\ 2 \in 1..4 /\ 3 \in 1..4 /\ 4 \in 1..4
      OBVIOUS
    <3>3. /\ Listed(D, Row(row)[1]) /\ Listed(D, Row(row)[2])
          /\ Listed(D, Row(row)[3]) /\ Listed(D, Row(row)[4])
      BY ONLY <3>1, <3>2
    <3> HIDE DEF D, Row
    <3> QED BY <1>0, <2>2, <3>3 DEF Deletes
  <2> QED BY <2>1, <2>2
<1>8. \A n \in DOMAIN D : D[n][1] \notin Saving /\ D[n][1] # "lookAccess"
  <2> HIDE DEF D, P
  <2> QED BY <1>2, <1>4 DEF Saving, Deletes
<1>9. \A p : Ahead(D, <<"lookRefresh", p, First>>, <<"dropRefresh", p, First>>)
  <2>1. SUFFICES ASSUME NEW p, NEW n \in 1..4 * k, D[n] = <<"dropRefresh", p, First>>
                 PROVE  n - 1 \in 1..4 * k /\ n - 1 < n /\ D[n - 1] = <<"lookRefresh", p, First>>
    BY <1>2 DEF Ahead
  <2>2. P(n) \in all /\ P(n)[1] = p
    <3> HIDE DEF D, P
    <3> QED BY <1>4, <2>1 DEF Deletes
  <2>3. 1 + ((n - 1) % 4) = 2
    <3>1. 1 + ((n - 1) % 4) \in {1, 2, 3, 4} /\ D[n] = Row(P(n))[1 + ((n - 1) % 4)]
      BY <1>2, <1>3, <2>1, <2>2
    <3> HIDE DEF D, P, Row
    <3> QED BY <1>0, <2>1, <2>2, <3>1
  <2>4. /\ n - 1 \in 1..4 * k /\ n - 1 < n /\ (n - 2) \div 4 = (n - 1) \div 4
        /\ 1 + ((n - 2) % 4) = 1 /\ (n - 1) - 1 = n - 2
    BY ONLY <1>1, <1>3, <2>1, <2>3
  <2>5. D[n - 1] = Row(P(n - 1))[1 + (((n - 1) - 1) % 4)]
    BY <1>2, <2>4
  <2>6. D[n - 1] = Row(P(n))[1]
    BY <2>2, <2>4, <2>5
  <2> HIDE DEF D, P, Row
  <2> QED BY <1>0, <2>2, <2>4, <2>6
<1> HIDE DEF D
<1> QED BY <1>5, <1>7, <1>8, <1>9 DEF D, SavingLast, LookFirst

----------------------------------------------------------------------------
\* What the steps of a call change in what it does.
OthersRest(c) == \A d \in TokenCalls : d # c => tokenCall'[d] = tokenCall[d]

\* The fields of a call's record.
LEMMA CallFields ==
  ASSUME SessionsTyped, NEW c \in TokenCalls
  PROVE  /\ tokenCall[c].op \in Ending \cup {"none", "bind"}
         /\ tokenCall[c].pc \in {"ready", "find", "work", "over", "failed"}
         /\ tokenCall[c].pair \in {0} \cup TokenPairs /\ tokenCall[c].new \in {0} \cup TokenPairs
         /\ Ends(c) \in SUBSET TokenPairs /\ Todo(c) \in Seq(Statements)
         /\ 0 \notin TokenPairs
  BY DEF SessionsTyped, CallRecords, Ends, Todo, TokenPairs

\* Nothing is on the empty list.
LEMMA EmptyList ==
  /\ <<>> \in Seq(Statements) /\ \A x : ~Listed(<<>>, x)
  /\ SavingLast(<<>>) /\ LookFirst(<<>>)
  /\ \A x, y : Behind(<<>>, x, y) /\ Ahead(<<>>, x, y)
  BY DEF Listed, SavingLast, LookFirst, Behind, Ahead

\* A call that is over, or that fails, holds nothing.
LEMMA OverIs ==
  ASSUME SessionsTyped, NEW c \in TokenCalls, Over(c) \/ Fails(c)
  PROVE  /\ tokenCall' \in [TokenCalls -> CallRecords] /\ OthersRest(c)
         /\ tokenCall'[c].pc \in {"over", "failed"} /\ tokenCall'[c].new = 0
         /\ Ends(c)' = {} /\ Todo(c)' = <<>>
<1> DEFINE r == [Ready EXCEPT !.pc = "over"]
           f == [Ready EXCEPT !.pc = "failed", !.op = tokenCall[c].op]
<1>1. /\ r.pc = "over" /\ r.new = 0 /\ r.ends = {} /\ r.todo = <<>>
      /\ f.pc = "failed" /\ f.new = 0 /\ f.ends = {} /\ f.todo = <<>>
  BY DEF Ready
<1>2. r \in CallRecords /\ f \in CallRecords
  BY EmptyList, CallFields DEF CallRecords, Ending, Ready
<1>3. tokenCall \in [TokenCalls -> CallRecords]
  BY DEF SessionsTyped
<1> QED BY <1>1, <1>2, <1>3 DEF Over, Fails, OthersRest, Ends, Todo

\* A call that found its pair has its work.
LEMMA GoIs ==
  ASSUME SessionsTyped, NEW c \in TokenCalls, NEW deleted \in SUBSET TokenPairs,
         NEW new \in {0} \cup TokenPairs, NEW todo \in Seq(Statements), Go(c, deleted, new, todo)
  PROVE  /\ tokenCall' \in [TokenCalls -> CallRecords] /\ OthersRest(c)
         /\ tokenCall'[c].pc = "work" /\ tokenCall'[c].op = tokenCall[c].op
         /\ tokenCall'[c].pair = tokenCall[c].pair /\ tokenCall'[c].new = new
         /\ Ends(c)' = deleted \cap delivered /\ Todo(c)' = todo
         /\ given' = given \cup deleted
         /\ UNCHANGED <<accessRow, refreshRows, accessCopy, refreshCopy, delivered, ended>>
<1>1. tokenCall \in [TokenCalls -> CallRecords]
  BY DEF SessionsTyped
<1>2. tokenCall' = [tokenCall EXCEPT ![c] =
         [tokenCall[c] EXCEPT !.pc = "work", !.ends = deleted \cap delivered, !.new = new, !.todo = todo]]
  BY <1>1 DEF Go, CallRecords
<1>3. [tokenCall[c] EXCEPT !.pc = "work", !.ends = deleted \cap delivered, !.new = new, !.todo = todo]
        \in CallRecords
  BY <1>1 DEF CallRecords
<1> QED BY <1>1, <1>2, <1>3 DEF Go, OthersRest, Ends, Todo, tables, CallRecords

\* A call goes on with its work.
LEMMA GoOnIs ==
  ASSUME SessionsTyped, NEW c \in TokenCalls, Todo(c) # <<>>, NEW first, GoOn(c, first),
         first = <<>> \/ \E z \in Statements :
                           first = <<z>> /\ z[1] \notin Saving /\ z[1] # "lookAccess"
  PROVE  /\ tokenCall' \in [TokenCalls -> CallRecords] /\ OthersRest(c)
         /\ tokenCall'[c].pc = tokenCall[c].pc /\ tokenCall'[c].op = tokenCall[c].op
         /\ tokenCall'[c].pair = tokenCall[c].pair /\ tokenCall'[c].new = tokenCall[c].new
         /\ Ends(c)' = Ends(c) /\ Todo(c)' = first \o Tail(Todo(c))
<1>1. tokenCall \in [TokenCalls -> CallRecords]
  BY DEF SessionsTyped
<1>2. first \o Tail(Todo(c)) \in Seq(Statements)
  <2>1. SavingLast(Todo(c)) /\ LookFirst(Todo(c)) /\ Todo(c) \in Seq(Statements)
    BY CallFields DEF SessionsTyped, Task
  <2> QED BY <2>1, ListGoesOn
<1>3. tokenCall' = [tokenCall EXCEPT ![c] = [tokenCall[c] EXCEPT !.todo = first \o Tail(Todo(c))]]
  BY <1>1 DEF GoOn, Todo, CallRecords
<1>4. [tokenCall[c] EXCEPT !.todo = first \o Tail(Todo(c))] \in CallRecords
  BY <1>1, <1>2 DEF CallRecords
<1> QED BY <1>1, <1>3, <1>4 DEF OthersRest, Ends, Todo, CallRecords

\* A call that begins holds nothing yet.
LEMMA CallIs ==
  ASSUME SessionsTyped, NEW c \in TokenCalls, NEW op \in Ending \cup {"bind"}, NEW p \in TokenPairs,
         Call(c, op, p)
  PROVE  /\ tokenCall' \in [TokenCalls -> CallRecords] /\ OthersRest(c)
         /\ tokenCall'[c].pc = "find" /\ tokenCall'[c].op = op /\ tokenCall'[c].pair = p
         /\ tokenCall'[c].new = 0 /\ Ends(c)' = {} /\ Todo(c)' = <<>>
         /\ Todo(c) = <<>> /\ Ends(c) = {} /\ tokenCall[c].new = 0 /\ tokenCall[c].pc = "ready"
<1> DEFINE r == [Ready EXCEPT !.op = op, !.pc = "find", !.pair = p]
<1>1. /\ r.op = op /\ r.pc = "find" /\ r.pair = p /\ r.new = 0
      /\ r.ends = {} /\ r.todo = <<>>
  BY DEF Ready
<1>2. r \in CallRecords
  BY EmptyList DEF CallRecords, Ready
<1>3. tokenCall \in [TokenCalls -> CallRecords] /\ Role(c)
  BY DEF SessionsTyped
<1> QED BY <1>1, <1>2, <1>3 DEF Call, OthersRest, Ends, Todo, Role, Works, Made

\* A statement is done: what it does to its pair, and that it leaves the others.
RowAfter(name, r, row) ==
  CASE name \in {"revokeAccess", "unsetAccess", "revokeItsAccess"} /\ row = "active" -> "revoked"
    [] name = "revokeRowsAccess" /\ r = First /\ row = "active" -> "revoked"
    [] name = "setAccess" -> "active"
    [] OTHER -> row
RowsAfter(name, r, rows) ==
  CASE name \in {"revokeRefresh", "unsetRefresh"} -> {}
    [] name = "revokeRow" -> rows \ {r}
    [] name = "setRefresh" -> rows \cup {r}
    [] OTHER -> rows
AccessCopyAfter(name, copy) ==
  CASE name = "dropAccess" -> FALSE [] name = "copyAccess" -> TRUE [] OTHER -> copy
RefreshCopyAfter(name, copy) ==
  CASE name = "dropRefresh" -> FALSE [] name = "copyRefresh" -> TRUE [] OTHER -> copy
Done(c, name, p, r) ==
  /\ Todo(c) # <<>> /\ Head(Todo(c)) = <<name, p, r>> /\ Works(c)
  /\ name = "setAccess" => accessRow[p] = "none"
  /\ accessRow' = [accessRow EXCEPT ![p] = RowAfter(name, r, accessRow[p])]
  /\ refreshRows' = [refreshRows EXCEPT ![p] = RowsAfter(name, r, refreshRows[p])]
  /\ accessCopy' = [accessCopy EXCEPT ![p] = AccessCopyAfter(name, accessCopy[p])]
  /\ refreshCopy' = [refreshCopy EXCEPT ![p] = RefreshCopyAfter(name, refreshCopy[p])]
  /\ GoOn(c, Adds(name, p))
  /\ UNCHANGED <<used, faults, delivered, given, ended, unsure>>

\* The next statement of a call is a statement.
LEMMA HeadIs ==
  ASSUME SessionsTyped, NEW c \in TokenCalls, Todo(c) # <<>>
  PROVE  /\ Head(Todo(c)) \in Statements /\ Listed(Todo(c), Head(Todo(c)))
         /\ Head(Todo(c))[1] \in StatementNames /\ Head(Todo(c))[2] \in TokenPairs
         /\ Head(Todo(c))[3] \in RefreshRows
         /\ Head(Todo(c)) = <<Head(Todo(c))[1], Head(Todo(c))[2], Head(Todo(c))[3]>>
         /\ \/ Head(Todo(c))[1] \in {"setRefresh", "revokeRow", "revokeRowsAccess"}
            \/ Head(Todo(c))[3] = First
<1>1. SavingLast(Todo(c)) /\ LookFirst(Todo(c)) /\ Todo(c) \in Seq(Statements)
  BY CallFields DEF SessionsTyped, Task
<1>2. Head(Todo(c)) \in Statements /\ Listed(Todo(c), Head(Todo(c)))
  BY <1>1, ListGoesOn
<1> QED BY <1>2 DEF Statements

\* A statement of the code is done, as Done says.
LEMMA StatementIs ==
  ASSUME SessionsTyped, NEW c \in TokenCalls, Statement(c)
  PROVE  \E name \in StatementNames, p \in TokenPairs, r \in RefreshRows : Done(c, name, p, r)
<1> DEFINE name == Head(Todo(c))[1]
           p == Head(Todo(c))[2]
           r == Head(Todo(c))[3]
<1>1. Todo(c) # <<>> /\ Works(c) /\ UNCHANGED <<used, faults, delivered, given, ended, unsure>>
  BY DEF Statement, Todo, Works
<1>2. /\ name \in StatementNames /\ p \in TokenPairs /\ r \in RefreshRows
      /\ Head(Todo(c)) = <<name, p, r>>
  BY <1>1, HeadIs
<1>3. /\ accessRow' = CASE name \in {"revokeAccess", "unsetAccess", "revokeItsAccess"} -> Revoke(p)
                        [] name = "revokeRowsAccess" /\ r = First -> Revoke(p)
                        [] name = "setAccess" -> Put(accessRow, p, "active")
                        [] OTHER -> accessRow
      /\ refreshRows' = CASE name \in {"revokeRefresh", "unsetRefresh"} -> Put(refreshRows, p, {})
                          [] name = "revokeRow" -> Put(refreshRows, p, refreshRows[p] \ {r})
                          [] name = "setRefresh" -> Put(refreshRows, p, refreshRows[p] \cup {r})
                          [] OTHER -> refreshRows
      /\ accessCopy' = CASE name = "dropAccess" -> Put(accessCopy, p, FALSE)
                         [] name = "copyAccess" -> Put(accessCopy, p, TRUE)
                         [] OTHER -> accessCopy
      /\ refreshCopy' = CASE name = "dropRefresh" -> Put(refreshCopy, p, FALSE)
                          [] name = "copyRefresh" -> Put(refreshCopy, p, TRUE)
                          [] OTHER -> refreshCopy
  BY DEF Statement, Todo
<1>0. GoOn(c, Adds(name, p)) /\ (name = "setAccess" => accessRow[p] = "none")
  <2>1. \A n : For(p, <<n>>) = <<<<n, p, First>>>>
    BY DEF For
  <2>2. GoOn(c, CASE name = "lookAccess" /\ accessCopy[p] -> For(p, <<"dropRefresh">>)
                  [] name = "lookRefresh" /\ refreshCopy[p] -> For(p, <<"dropAccess">>)
                  [] name = "revokeAccess" /\ accessRow[p] = "active" -> For(p, <<"revokeRow">>)
                  [] OTHER -> <<>>)
    BY DEF Statement, Todo
  <2>3. ~StoredAlready(c)
    BY DEF Statement
  <2> HIDE DEF name, p, r
  <2>4. GoOn(c, Adds(name, p))
    BY <2>1, <2>2 DEF Adds
  <2>5. name = "setAccess" => accessRow[p] = "none"
    BY <2>3 DEF StoredAlready, Todo, name, p
  <2> QED BY <2>4, <2>5
<1> HIDE DEF name, p, r
<1>4. /\ accessRow \in [TokenPairs -> AccessRows] /\ refreshRows \in [TokenPairs -> SUBSET RefreshRows]
      /\ accessCopy \in [TokenPairs -> BOOLEAN] /\ refreshCopy \in [TokenPairs -> BOOLEAN]
  BY DEF SessionsTyped, TokenTypeOK
<1>5. accessRow' = [accessRow EXCEPT ![p] = RowAfter(name, r, accessRow[p])]
  BY <1>2, <1>3, <1>4 DEF Revoke, Put, RowAfter
<1>6. refreshRows' = [refreshRows EXCEPT ![p] = RowsAfter(name, r, refreshRows[p])]
  BY <1>2, <1>3, <1>4 DEF Put, RowsAfter
<1>7. accessCopy' = [accessCopy EXCEPT ![p] = AccessCopyAfter(name, accessCopy[p])]
  BY <1>2, <1>3, <1>4 DEF Put, AccessCopyAfter
<1>8. refreshCopy' = [refreshCopy EXCEPT ![p] = RefreshCopyAfter(name, refreshCopy[p])]
  BY <1>2, <1>3, <1>4 DEF Put, RefreshCopyAfter
<1> QED BY <1>0, <1>1, <1>2, <1>5, <1>6, <1>7, <1>8 DEF Done

\* A statement adds at most one, a deletion for its own pair.
LEMMA AddsIs ==
  ASSUME NEW name \in StatementNames, NEW p \in TokenPairs
  PROVE  /\ \/ Adds(name, p) = <<>>
            \/ \E z \in Statements : Adds(name, p) = <<z>> /\ z[1] \notin Saving /\ z[1] # "lookAccess"
         /\ \A n, q, s : Adds(name, p) = <<<<n, q, s>>>> =>
              /\ q = p /\ s = First /\ n \in {"dropRefresh", "dropAccess", "revokeRow"}
              /\ name \notin Saving
         /\ name = "lookAccess" /\ accessCopy[p] => Adds(name, p) = <<<<"dropRefresh", p, First>>>>
         /\ name = "lookRefresh" /\ refreshCopy[p] => Adds(name, p) = <<<<"dropAccess", p, First>>>>
         /\ name = "revokeAccess" /\ accessRow[p] = "active" => Adds(name, p) = <<<<"revokeRow", p, First>>>>
         /\ Adds(name, p) = <<<<"dropRefresh", p, First>>>> => name = "lookAccess" /\ accessCopy[p]
<1>1. CASE name = "lookAccess" /\ accessCopy[p]
  <2>1. Adds(name, p) = <<<<"dropRefresh", p, First>>>> /\ <<"dropRefresh", p, First>> \in Statements
    BY <1>1 DEF Adds, Statements, StatementNames, RefreshRows
  <2> QED BY <1>1, <2>1 DEF Saving
<1>2. CASE name = "lookRefresh" /\ refreshCopy[p]
  <2>1. Adds(name, p) = <<<<"dropAccess", p, First>>>> /\ <<"dropAccess", p, First>> \in Statements
    BY <1>2 DEF Adds, Statements, StatementNames, RefreshRows
  <2> QED BY <1>2, <2>1 DEF Saving
<1>3. CASE name = "revokeAccess" /\ accessRow[p] = "active"
  <2>1. Adds(name, p) = <<<<"revokeRow", p, First>>>> /\ <<"revokeRow", p, First>> \in Statements
    BY <1>3 DEF Adds, Statements, StatementNames, RefreshRows
  <2> QED BY <1>3, <2>1 DEF Saving
<1>4. CASE ~(\/ name = "lookAccess" /\ accessCopy[p]
             \/ name = "lookRefresh" /\ refreshCopy[p]
             \/ name = "revokeAccess" /\ accessRow[p] = "active")
  <2>1. Adds(name, p) = <<>>
    BY <1>4 DEF Adds
  <2> QED BY <1>4, <2>1
<1> QED BY <1>1, <1>2, <1>3, <1>4

\* What is left of the work, and what the statement adds to it.
Left(c, name, p, r, first) ==
  /\ tokenCall' \in [TokenCalls -> CallRecords] /\ OthersRest(c)
  /\ tokenCall'[c].pc = tokenCall[c].pc /\ tokenCall'[c].op = tokenCall[c].op
  /\ tokenCall'[c].pair = tokenCall[c].pair /\ tokenCall'[c].new = tokenCall[c].new
  /\ Ends(c)' = Ends(c) /\ Works(c)
  /\ WillRow(c, name, p, r)
  /\ \A n, q, s : WillRow(c, n, q, s)' => WillRow(c, n, q, s) \/ first = <<<<n, q, s>>>>
  /\ \A n, q, s : WillRow(c, n, q, s) /\ ~(n = name /\ q = p /\ s = r) => WillRow(c, n, q, s)'
  /\ \A n, q, s : first = <<<<n, q, s>>>> => WillRow(c, n, q, s)'
  /\ \A x, y : Behind(Todo(c), x, y) /\ first # <<x>> => Behind(Todo(c)', x, y)
  /\ \A x, y : Ahead(Todo(c), x, y) /\ x # <<name, p, r>> /\ first # <<y>> => Ahead(Todo(c)', x, y)
  /\ SavingLast(Todo(c)') /\ LookFirst(Todo(c)') /\ \A q, s : ~WillRow(c, "lookAccess", q, s)'
  /\ name \in Saving => \A n, q, s : WillRow(c, n, q, s) => n \in Saving
  /\ name = "setAccess" => \A q, s : ~WillRow(c, "unsetAccess", q, s)

\* A call that goes on has the rest of its work left.
LEMMA LeftIs ==
  ASSUME SessionsTyped, NEW c \in TokenCalls, NEW name \in StatementNames, NEW p \in TokenPairs,
         NEW r \in RefreshRows,
         Works(c), Todo(c) # <<>>, Head(Todo(c)) = <<name, p, r>>, NEW first, GoOn(c, first),
         first = <<>> \/ \E z \in Statements :
                           first = <<z>> /\ z[1] \notin Saving /\ z[1] # "lookAccess"
  PROVE  Left(c, name, p, r, first)
<1>1. SavingLast(Todo(c)) /\ LookFirst(Todo(c)) /\ Todo(c) \in Seq(Statements)
  BY CallFields DEF SessionsTyped, Task
<1>2. /\ tokenCall' \in [TokenCalls -> CallRecords] /\ OthersRest(c)
      /\ tokenCall'[c].pc = tokenCall[c].pc /\ tokenCall'[c].op = tokenCall[c].op
      /\ tokenCall'[c].pair = tokenCall[c].pair /\ tokenCall'[c].new = tokenCall[c].new
      /\ Ends(c)' = Ends(c) /\ Todo(c)' = first \o Tail(Todo(c))
  BY GoOnIs
<1> DEFINE s == Todo(c)
           t == first \o Tail(Todo(c))
<1>3. /\ Listed(s, <<name, p, r>>)
      /\ \A x : Listed(t, x) => Listed(s, x) \/ first = <<x>>
      /\ \A x : Listed(s, x) /\ x # <<name, p, r>> => Listed(t, x)
      /\ \A x : first = <<x>> => Listed(t, x)
      /\ \A x, y : Behind(s, x, y) /\ first # <<x>> => Behind(t, x, y)
      /\ \A x, y : Ahead(s, x, y) /\ x # <<name, p, r>> /\ first # <<y>> => Ahead(t, x, y)
      /\ SavingLast(t) /\ LookFirst(t) /\ \A q, m : ~Listed(t, <<"lookAccess", q, m>>)
      /\ <<name, p, r>>[1] \in Saving => \A x : Listed(s, x) => x[1] \in Saving
      /\ <<name, p, r>>[1] = "setAccess" => \A x : Listed(s, x) => x[1] # "unsetAccess"
  <2>1. /\ Listed(s, Head(s))
        /\ \A x : Listed(t, x) => Listed(s, x) \/ first = <<x>>
        /\ \A x : Listed(s, x) /\ x # Head(s) => Listed(t, x)
        /\ \A x : first = <<x>> => Listed(t, x)
        /\ \A x, y : Behind(s, x, y) /\ first # <<x>> => Behind(t, x, y)
        /\ \A x, y : Ahead(s, x, y) /\ x # Head(s) /\ first # <<y>> => Ahead(t, x, y)
        /\ SavingLast(t) /\ LookFirst(t) /\ \A q, m : ~Listed(t, <<"lookAccess", q, m>>)
        /\ Head(s)[1] \in Saving => \A x : Listed(s, x) => x[1] \in Saving
        /\ Head(s)[1] = "setAccess" => \A x : Listed(s, x) => x[1] # "unsetAccess"
    BY <1>1, ListGoesOn
  <2>2. Head(s) = <<name, p, r>>
    OBVIOUS
  <2> QED BY ONLY <2>1, <2>2
<1>4. Todo(c)' = t /\ Todo(c) = s
  BY <1>2
<1> HIDE DEF s, t
<1>5. \A n, q, m : /\ <<n, q, m>>[1] = n
                   /\ <<n, q, m>> = <<name, p, r>> <=> n = name /\ q = p /\ m = r
  OBVIOUS
<1>6. ASSUME NEW n, NEW q, NEW m
      PROVE  /\ WillRow(c, n, q, m) /\ ~(n = name /\ q = p /\ m = r) => WillRow(c, n, q, m)'
             /\ name \in Saving => (WillRow(c, n, q, m) => n \in Saving)
             /\ name = "setAccess" => (WillRow(c, n, q, m) => n # "unsetAccess")
             /\ WillRow(c, n, q, m)' => WillRow(c, n, q, m) \/ first = <<<<n, q, m>>>>
             /\ first = <<<<n, q, m>>>> => WillRow(c, n, q, m)'
             /\ n = "lookAccess" => ~WillRow(c, n, q, m)'
  <2>1. PICK x : x = <<n, q, m>>
    OBVIOUS
  <2>2. /\ WillRow(c, n, q, m) <=> Listed(s, x)
        /\ WillRow(c, n, q, m)' <=> Listed(t, x)
    BY ONLY <1>4, <2>1 DEF WillRow
  <2>3. x[1] = n /\ (x = <<name, p, r>> <=> n = name /\ q = p /\ m = r) /\ <<name, p, r>>[1] = name
    BY ONLY <1>5, <2>1
  <2>4. n = "lookAccess" => ~Listed(t, x)
    BY ONLY <1>3, <2>1
  <2>5. first = <<x>> <=> first = <<<<n, q, m>>>>
    BY ONLY <2>1
  <2> QED BY ONLY <1>3, <2>2, <2>3, <2>4, <2>5
<1>7. WillRow(c, name, p, r)
  BY ONLY <1>3, <1>4 DEF WillRow
<1>9. /\ \A x, y : Behind(Todo(c), x, y) /\ first # <<x>> => Behind(Todo(c)', x, y)
      /\ \A x, y : Ahead(Todo(c), x, y) /\ x # <<name, p, r>> /\ first # <<y>> => Ahead(Todo(c)', x, y)
      /\ SavingLast(Todo(c)') /\ LookFirst(Todo(c)')
  BY <1>3, <1>4 DEF s
<1> QED BY <1>2, <1>6, <1>7, <1>9 DEF Left

\* Another call does not change what a call does.
LEMMA Resting ==
  ASSUME NEW c, OthersRest(c), NEW d \in TokenCalls, d # c
  PROVE  /\ tokenCall'[d] = tokenCall[d] /\ Todo(d)' = Todo(d) /\ Ends(d)' = Ends(d)
         /\ \A n, q, m : WillRow(d, n, q, m)' <=> WillRow(d, n, q, m)
         /\ \A n, q : Will(d, n, q)' <=> Will(d, n, q)
         /\ \A q : (Makes(d, q)' <=> Makes(d, q)) /\ (Binds(d, q)' <=> Binds(d, q))
         /\ (Works(d)' <=> Works(d)) /\ (Made(d)' <=> Made(d))
  BY DEF OthersRest, Todo, Ends, Will, WillRow, Works, Made, Makes, Binds

\* A step of one call leaves all calls within their roles.
LEMMA CallsTyped ==
  ASSUME SessionsTyped, NEW c \in TokenCalls, OthersRest(c),
         used \subseteq used', given \subseteq given', unsure \subseteq unsure',
         delivered \subseteq delivered',
         \A p \in delivered' \ delivered : p # 0 /\ p = tokenCall[c].new,
         tokenCall'[c].new \in {0, tokenCall[c].new} \/ tokenCall'[c].new \notin used,
         Role(c)', Task(c)'
  PROVE  /\ \A d \in TokenCalls : Role(d)' /\ Task(d)'
         /\ \A d, e \in TokenCalls : (Made(d)' /\ tokenCall'[e].new = tokenCall'[d].new) => e = d
<1>1. ASSUME NEW d \in TokenCalls, d # c
      PROVE  Role(d)' /\ Task(d)'
  <2>1. Role(d) /\ Task(d)
    BY DEF SessionsTyped
  <2>2. \A p \in delivered' \ delivered : tokenCall[d].new # p
    BY <1>1 DEF SessionsTyped, Made
  <2>3. Role(d)'
    BY <1>1, <2>1, <2>2, Resting DEF Role, Works, Made, Todo, Ends
  <2>4. Task(d)'
    BY <1>1, <2>1, Resting DEF Task, Saves
  <2> QED BY <2>3, <2>4
<1>2. \A d \in TokenCalls : Made(d) => tokenCall[d].new \in used
  BY DEF SessionsTyped, Role
<1>3. \A d \in TokenCalls : d # c => tokenCall'[d].new = tokenCall[d].new
  BY DEF OthersRest
<1>4. ASSUME NEW d \in TokenCalls, NEW e \in TokenCalls, Made(d)', tokenCall'[e].new = tokenCall'[d].new, e # d
      PROVE  FALSE
  BY <1>2, <1>3, <1>4 DEF SessionsTyped, Made
<1> QED BY <1>1, <1>4

----------------------------------------------------------------------------
\* Every step keeps what the calls may be doing.
LEMMA DoneLeft ==
  ASSUME SessionsTyped, NEW c \in TokenCalls, NEW name \in StatementNames, NEW p \in TokenPairs,
         NEW r \in RefreshRows, Done(c, name, p, r)
  PROVE  Left(c, name, p, r, Adds(name, p))
  BY AddsIs, LeftIs DEF Done

\* A call with less to do stays within what it may do.
LEMMA LeftTask ==
  ASSUME SessionsTyped, NEW c \in TokenCalls, NEW name \in StatementNames, NEW p \in TokenPairs,
         NEW r \in RefreshRows, NEW first, Left(c, name, p, r, first),
         UNCHANGED <<used, delivered, given>>, unsure \subseteq unsure',
         first = <<>> \/ first = Adds(name, p)
  PROVE  Role(c)' /\ Task(c)'
<1>1. Role(c) /\ Task(c)
  BY DEF SessionsTyped
<1>2. Role(c)'
  BY <1>1 DEF Left, Role, Works, Made
<1>3. ASSUME NEW n \in StatementNames, NEW q \in TokenPairs, NEW s \in RefreshRows, WillRow(c, n, q, s)'
      PROVE  IF n \in Saving THEN Saves(c, q, s)' ELSE q \in given' /\ q \in Ends(c)' \cup unsure'
  <2>1. WillRow(c, n, q, s) \/ first = <<<<n, q, s>>>>
    BY <1>3 DEF Left
  <2>2. CASE WillRow(c, n, q, s)
    BY <1>1, <2>2 DEF Task, Saves, Left, Makes, Works, Binds, Made
  <2>3. CASE first = <<<<n, q, s>>>>
    <3>1. first = Adds(name, p)
      BY <2>3
    <3>2. q = p /\ n \in {"dropRefresh", "dropAccess", "revokeRow"} /\ name \notin Saving
      BY <2>3, <3>1, AddsIs
    <3>3. WillRow(c, name, p, r) /\ n \notin Saving
      BY <3>2 DEF Left, Saving
    <3> QED BY <1>1, <3>2, <3>3 DEF Task, Left
  <2> QED BY <2>1, <2>2, <2>3
<1>4. SavingLast(Todo(c)') /\ LookFirst(Todo(c)')
  BY DEF Left
<1> QED BY <1>2, <1>3, <1>4 DEF Task

\* A pair that is worked on was made.
LEMMA WorkedOnIsUsed ==
  ASSUME SessionsTyped, NEW c \in TokenCalls, NEW name \in StatementNames, NEW p \in TokenPairs,
         NEW r \in RefreshRows, WillRow(c, name, p, r)
  PROVE  p \in used
<1>1. Role(c) /\ Task(c) /\ delivered \subseteq used /\ given \subseteq used
  BY DEF SessionsTyped, TokenTypeOK
<1>2. CASE name \in Saving
  <2>1. Makes(c, p)
    BY <1>1, <1>2 DEF Task, Saves
  <2>2. 0 # p
    BY DEF TokenPairs
  <2> QED BY <1>1, <2>1, <2>2 DEF Role, Makes, Works, Binds, Made
<1>3. CASE name \notin Saving
  BY <1>1, <1>3 DEF Task
<1> QED BY <1>2, <1>3

\* A statement keeps the types.
LEMMA StatementTyped ==
  ASSUME SessionsTyped, NEW c \in TokenCalls, Statement(c)
  PROVE  SessionsTyped'
<1>1. PICK name \in StatementNames, p \in TokenPairs, r \in RefreshRows : Done(c, name, p, r)
  BY StatementIs
<1>2. Left(c, name, p, r, Adds(name, p))
  BY <1>1, DoneLeft
<1>3. p \in used
  BY <1>2, WorkedOnIsUsed DEF Left
<1>4. UNCHANGED <<used, faults, delivered, given, ended, unsure>>
  BY <1>1 DEF Done
<1>5. /\ accessRow \in [TokenPairs -> AccessRows] /\ refreshRows \in [TokenPairs -> SUBSET RefreshRows]
      /\ accessCopy \in [TokenPairs -> BOOLEAN] /\ refreshCopy \in [TokenPairs -> BOOLEAN]
  BY DEF SessionsTyped, TokenTypeOK
<1>6. /\ RowAfter(name, r, accessRow[p]) \in AccessRows
      /\ RowsAfter(name, r, refreshRows[p]) \in SUBSET RefreshRows
      /\ AccessCopyAfter(name, accessCopy[p]) \in BOOLEAN
      /\ RefreshCopyAfter(name, refreshCopy[p]) \in BOOLEAN
  BY <1>5 DEF RowAfter, RowsAfter, AccessCopyAfter, RefreshCopyAfter, AccessRows
<1>7. TokenTypeOK'
  BY <1>1, <1>4, <1>5, <1>6 DEF Done, SessionsTyped, TokenTypeOK
<1>8. \A q \in TokenPairs \ used' : Unmade(q)'
  <2>1. ASSUME NEW q \in TokenPairs \ used'
        PROVE  Unmade(q)'
    <3>1. q # p /\ Unmade(q)
      BY <1>3, <1>4, <2>1 DEF SessionsTyped
    <3> QED BY <1>1, <1>5, <3>1 DEF Done, Unmade
  <2> QED BY <2>1
<1>9. Role(c)' /\ Task(c)'
  BY <1>2, <1>4, LeftTask
<1>10. /\ \A d \in TokenCalls : Role(d)' /\ Task(d)'
       /\ \A d, e \in TokenCalls : (Made(d)' /\ tokenCall'[e].new = tokenCall'[d].new) => e = d
  <2>1. OthersRest(c) /\ tokenCall'[c].new = tokenCall[c].new
    BY <1>2 DEF Left
  <2> QED BY <1>4, <1>9, <2>1, CallsTyped
<1>11. tokenCall' \in [TokenCalls -> CallRecords]
  BY <1>2 DEF Left
<1> QED BY <1>4, <1>7, <1>8, <1>10, <1>11 DEF SessionsTyped, Made

\* Steps that leave the tables alone.
LEMMA CallOverTyped ==
  ASSUME SessionsTyped, NEW c \in TokenCalls, Over(c) \/ Fails(c), TokenTypeOK',
         UNCHANGED <<accessRow, refreshRows, accessCopy, refreshCopy, used, given>>,
         unsure \subseteq unsure', delivered \subseteq delivered', ended' \subseteq delivered',
         \A p \in delivered' \ delivered : p # 0 /\ p = tokenCall[c].new
  PROVE  SessionsTyped'
<1>1. /\ tokenCall' \in [TokenCalls -> CallRecords] /\ OthersRest(c)
      /\ tokenCall'[c].pc \in {"over", "failed"} /\ tokenCall'[c].new = 0
      /\ Ends(c)' = {} /\ Todo(c)' = <<>>
  BY OverIs
<1>2. Role(c)'
  BY <1>1 DEF Role, Works, Made
<1>3. Task(c)'
  BY <1>1, EmptyList DEF Task, WillRow
<1>4. /\ \A d \in TokenCalls : Role(d)' /\ Task(d)'
      /\ \A d, e \in TokenCalls : (Made(d)' /\ tokenCall'[e].new = tokenCall'[d].new) => e = d
  BY <1>1, <1>2, <1>3, CallsTyped
<1> QED BY <1>1, <1>4 DEF SessionsTyped, Unmade, Made

\* A statement that fails keeps the types.
LEMMA StatementFailsTyped ==
  ASSUME SessionsTyped, NEW c \in TokenCalls, StatementFails(c)
  PROVE  SessionsTyped'
<1>1. /\ Todo(c) # <<>> /\ Works(c)
      /\ UNCHANGED <<accessRow, refreshRows, accessCopy, refreshCopy, used, delivered, given, ended>>
      /\ unsure \subseteq unsure' /\ faults' = faults + 1 /\ faults < MaxFaults
      /\ IF Head(Todo(c))[1] \in Saving THEN Fails(c) ELSE GoOn(c, <<>>)
  BY DEF StatementFails, tables, Todo, Works
<1>2. TokenTypeOK'
  BY <1>1, TokenAssumption DEF SessionsTyped, TokenTypeOK
<1>3. CASE Fails(c)
  <2>1. ended \subseteq delivered
    BY DEF SessionsTyped
  <2> QED BY <1>1, <1>2, <1>3, <2>1, CallOverTyped
<1>4. CASE GoOn(c, <<>>)
  <2> DEFINE name == Head(Todo(c))[1]
             p == Head(Todo(c))[2]
             r == Head(Todo(c))[3]
  <2>1. name \in StatementNames /\ p \in TokenPairs /\ r \in RefreshRows /\ Head(Todo(c)) = <<name, p, r>>
    BY <1>1, HeadIs
  <2> HIDE DEF name, p, r
  <2>2. Left(c, name, p, r, <<>>)
    BY <1>1, <1>4, <2>1, LeftIs
  <2>3. Role(c)' /\ Task(c)'
    BY <1>1, <2>1, <2>2, LeftTask
  <2>4. OthersRest(c) /\ tokenCall'[c].new = tokenCall[c].new /\ tokenCall' \in [TokenCalls -> CallRecords]
    BY <2>2 DEF Left
  <2>5. /\ \A d \in TokenCalls : Role(d)' /\ Task(d)'
        /\ \A d, e \in TokenCalls : (Made(d)' /\ tokenCall'[e].new = tokenCall'[d].new) => e = d
    BY <1>1, <2>3, <2>4, CallsTyped
  <2> QED BY <1>1, <1>2, <2>4, <2>5 DEF SessionsTyped, Unmade, Made
<1> QED BY <1>1, <1>3, <1>4

\* An access token that is stored already is not stored again.
LEMMA InsertFailsTyped ==
  ASSUME SessionsTyped, NEW c \in TokenCalls, InsertFails(c)
  PROVE  SessionsTyped'
<1>1. /\ Fails(c)
      /\ UNCHANGED <<accessRow, refreshRows, accessCopy, refreshCopy, used, faults, delivered, given, ended, unsure>>
  BY DEF InsertFails, tables
<1>2. TokenTypeOK' /\ ended \subseteq delivered
  BY <1>1 DEF SessionsTyped, TokenTypeOK
<1> QED BY <1>1, <1>2, CallOverTyped

\* The answer of a call keeps the types.
LEMMA ReportTyped ==
  ASSUME SessionsTyped, NEW c \in TokenCalls, Report(c)
  PROVE  SessionsTyped'
<1>1. /\ Over(c) /\ delivered' = delivered \cup ({tokenCall[c].new} \ {0})
      /\ ended' = ended \cup Ends(c)
      /\ UNCHANGED <<accessRow, refreshRows, accessCopy, refreshCopy, used, faults, given, unsure>>
  BY DEF Report, tables, Ends
<1>2. Ends(c) \subseteq delivered /\ tokenCall[c].new \in {0} \cup used /\ ended \subseteq delivered
  BY DEF SessionsTyped, Role, Made
<1>3. TokenTypeOK'
  BY <1>1, <1>2 DEF SessionsTyped, TokenTypeOK
<1> QED BY <1>1, <1>2, <1>3, CallOverTyped

\* A call that is turned away keeps the types.
LEMMA RefusedTyped ==
  ASSUME SessionsTyped, NEW c \in TokenCalls, Refused(c)
  PROVE  SessionsTyped'
<1>1. /\ Over(c)
      /\ UNCHANGED <<accessRow, refreshRows, accessCopy, refreshCopy, used, faults, delivered, given, ended, unsure>>
  BY DEF Refused, tables
<1>2. TokenTypeOK' /\ ended \subseteq delivered
  BY <1>1 DEF SessionsTyped, TokenTypeOK
<1> QED BY <1>1, <1>2, CallOverTyped

\* A new call keeps the types.
LEMMA CallTyped ==
  ASSUME SessionsTyped, NEW c \in TokenCalls, NEW op \in Ending \cup {"bind"}, NEW p \in TokenPairs,
         Call(c, op, p)
  PROVE  SessionsTyped'
<1>1. /\ tokenCall' \in [TokenCalls -> CallRecords] /\ OthersRest(c)
      /\ tokenCall'[c].pc = "find" /\ tokenCall'[c].op = op /\ tokenCall'[c].pair = p
      /\ tokenCall'[c].new = 0 /\ Ends(c)' = {} /\ Todo(c)' = <<>>
  BY CallIs
<1>2. /\ p \in delivered /\ given' = IF op = "bind" THEN given \cup {p} ELSE given
      /\ UNCHANGED <<accessRow, refreshRows, accessCopy, refreshCopy, used, faults, delivered, ended, unsure>>
  BY DEF Call, tables
<1>3. TokenTypeOK' /\ given' \subseteq used'
  BY <1>2 DEF SessionsTyped, TokenTypeOK
<1>4. Role(c)'
  BY <1>1, <1>2 DEF Role, Works, Made
<1>5. Task(c)'
  BY <1>1, EmptyList DEF Task, WillRow
<1>6. /\ \A d \in TokenCalls : Role(d)' /\ Task(d)'
      /\ \A d, e \in TokenCalls : (Made(d)' /\ tokenCall'[e].new = tokenCall'[d].new) => e = d
  BY <1>1, <1>2, <1>4, <1>5, CallsTyped
<1> QED BY <1>1, <1>2, <1>3, <1>6 DEF SessionsTyped, Unmade, Made

\* A lost copy and an expired token keep the types.
LEMMA PairStepTyped ==
  ASSUME SessionsTyped, NEW p \in TokenPairs, CopyLost(p) \/ RowExpires(p)
  PROVE  SessionsTyped'
<1>1. /\ UNCHANGED <<refreshRows, used, tokenCall, delivered, ended>>
      /\ unsure \subseteq unsure' /\ given \subseteq given' /\ given' \subseteq given \cup {p}
      /\ given' # given => accessRow[p] # "none"
  BY DEF CopyLost, RowExpires
<1>2. p \in used /\ given' \subseteq used'
  BY <1>1 DEF CopyLost, RowExpires, SessionsTyped, Unmade
<1>3. TokenTypeOK'
  <2>1. TokenTypeOK
    BY DEF SessionsTyped
  <2>2. CASE CopyLost(p)
    <3>1. faults' = faults + 1 /\ faults < MaxFaults /\ accessRow' = accessRow
      BY <2>2 DEF CopyLost
    <3>2. faults' \in 0..MaxFaults
      BY <2>1, <3>1, TokenAssumption DEF TokenTypeOK
    <3>3. accessCopy' \in [TokenPairs -> BOOLEAN] /\ refreshCopy' \in [TokenPairs -> BOOLEAN]
      BY <2>1, <2>2 DEF CopyLost, TokenTypeOK, Put
    <3> QED BY <1>1, <2>1, <3>1, <3>2, <3>3 DEF TokenTypeOK
  <2>3. CASE RowExpires(p)
    <3>1. faults' = faults /\ refreshCopy' = refreshCopy
      BY <2>3 DEF RowExpires
    <3>2. accessCopy' \in [TokenPairs -> BOOLEAN] /\ accessRow' \in [TokenPairs -> AccessRows]
      BY <2>1, <2>3 DEF RowExpires, TokenTypeOK, Put, AccessRows
    <3> QED BY <1>1, <2>1, <3>1, <3>2 DEF TokenTypeOK
  <2> QED BY <2>2, <2>3
<1>4. \A q \in TokenPairs \ used : Unmade(q)'
  <2>1. \A q \in TokenPairs \ used : q # p /\ Unmade(q)
    BY <1>2 DEF SessionsTyped
  <2> QED BY <1>1, <2>1 DEF CopyLost, RowExpires, Put, Unmade, SessionsTyped, TokenTypeOK
<1>5. \A d \in TokenCalls : Role(d)' /\ Task(d)'
  <2>1. \A d \in TokenCalls : /\ Todo(d)' = Todo(d) /\ Ends(d)' = Ends(d)
                              /\ (Works(d)' <=> Works(d)) /\ (Made(d)' <=> Made(d))
                              /\ \A n, q, s : WillRow(d, n, q, s)' <=> WillRow(d, n, q, s)
                              /\ \A q : (Makes(d, q)' <=> Makes(d, q)) /\ (Binds(d, q)' <=> Binds(d, q))
    BY <1>1 DEF Todo, Ends, Works, Made, WillRow, Makes, Binds
  <2>2. ASSUME NEW d \in TokenCalls
        PROVE  Role(d)' /\ Task(d)'
    <3>1. Role(d) /\ Task(d)
      BY DEF SessionsTyped
    <3>2. Role(d)'
      BY <1>1, <2>1, <3>1 DEF Role
    <3>3. Task(d)'
      BY <1>1, <2>1, <3>1 DEF Task, Saves
    <3> QED BY <3>2, <3>3
  <2> QED BY <2>2
<1> QED BY <1>1, <1>2, <1>3, <1>4, <1>5 DEF SessionsTyped, Made

\* The beginning of a call's work keeps the types.
PairOf(c) == tokenCall[c].pair
LEMMA GoTyped ==
  ASSUME SessionsTyped, NEW c \in TokenCalls, NEW deleted \in SUBSET used,
         NEW new \in {0} \cup TokenPairs, NEW todo \in Seq(Statements), Go(c, deleted, new, todo),
         tokenCall[c].pc = "find", faults' \in 0..MaxFaults, unsure \subseteq unsure',
         used \subseteq used', \E n \in 0..MaxTokenPairs : used' = 1..n,
         new = 0 \/ new \in used' \ used,
         tokenCall[c].op = "bind" => deleted = {} /\ new = 0 /\ PairOf(c) \in given,
         \A n \in StatementNames, q \in TokenPairs, r \in RefreshRows :
           Listed(todo, <<n, q, r>>) =>
             IF n \in Saving
               THEN Binds(c, q) \/ (new = q /\ r = First)
               ELSE q \in deleted /\ q \in delivered \cup unsure',
         SavingLast(todo), LookFirst(todo)
  PROVE  SessionsTyped'
<1>1. /\ tokenCall' \in [TokenCalls -> CallRecords] /\ OthersRest(c)
      /\ tokenCall'[c].pc = "work" /\ tokenCall'[c].op = tokenCall[c].op
      /\ tokenCall'[c].pair = tokenCall[c].pair /\ tokenCall'[c].new = new
      /\ Ends(c)' = deleted \cap delivered /\ Todo(c)' = todo
      /\ given' = given \cup deleted
      /\ UNCHANGED <<accessRow, refreshRows, accessCopy, refreshCopy, delivered, ended>>
  <2>1. deleted \in SUBSET TokenPairs
    BY DEF SessionsTyped, TokenTypeOK
  <2> QED BY <2>1, GoIs
<1>2. used' \subseteq TokenPairs
  BY TokenAssumption DEF TokenPairs
<1>3. TokenTypeOK' /\ given' \subseteq used' /\ ended' \subseteq delivered'
  BY <1>1, <1>2 DEF SessionsTyped, TokenTypeOK
<1>4. Role(c)'
  <2>1. Role(c) /\ delivered \subseteq used
    BY DEF SessionsTyped, TokenTypeOK
  <2>2. tokenCall[c].op = "bind" => Ends(c)' = {} /\ ~Made(c)'
    BY <1>1 DEF Made
  <2> QED BY <1>1, <2>1, <2>2 DEF Role, Works, Made, PairOf
<1>5. Task(c)'
  <2>1. ASSUME NEW n \in StatementNames, NEW q \in TokenPairs, NEW r \in RefreshRows, WillRow(c, n, q, r)'
        PROVE  IF n \in Saving THEN Saves(c, q, r)' ELSE q \in given' /\ q \in Ends(c)' \cup unsure'
    <3>1. Listed(todo, <<n, q, r>>)
      BY <1>1, <2>1 DEF WillRow
    <3>2. CASE n \in Saving
      BY <1>1, <3>1, <3>2 DEF Saves, Makes, Works, Binds, Made
    <3>3. CASE n \notin Saving
      BY <1>1, <3>1, <3>3
    <3> QED BY <3>2, <3>3
  <2> QED BY <1>1, <2>1 DEF Task
<1>6. /\ \A d \in TokenCalls : Role(d)' /\ Task(d)'
      /\ \A d, e \in TokenCalls : (Made(d)' /\ tokenCall'[e].new = tokenCall'[d].new) => e = d
  BY <1>1, <1>4, <1>5, CallsTyped
<1> QED BY <1>1, <1>3, <1>6 DEF SessionsTyped, Unmade, Made

\* What the calls find and what they set out to do.
NewPair == CHOOSE q \in TokenPairs : q \notin used /\ \A o \in TokenPairs \ used : q <= o
RefreshWork(p, q, seen) ==
  (IF seen THEN DeleteByAccess(p) ELSE <<>>) \o DeleteByRefresh(p) \o SaveTokenSession(q, First)
LogoutWork(p, seen) == DeleteByAccess(p) \o IF seen THEN DeleteByRefresh(p) ELSE <<>>
BindWork(c, p, seen) == IF seen THEN SaveTokenSession(p, c) ELSE SaveAccess(p)
Active == {p \in TokenPairs : refreshRows[p] # {}}

\* There is a next pair to make, unless all were made.
LEMMA NewPairIs ==
  ASSUME SessionsTyped, used # TokenPairs
  PROVE  NewPair \in TokenPairs \ used /\ \E n \in 0..MaxTokenPairs : used \cup {NewPair} = 1..n
<1>1. PICK n \in 0..MaxTokenPairs : used = 1..n
  BY DEF SessionsTyped
<1>2. n # MaxTokenPairs /\ n \in Nat /\ MaxTokenPairs \in Nat
  BY <1>1, TokenAssumption DEF TokenPairs
<1>3. /\ n + 1 \in TokenPairs /\ n + 1 \notin used /\ \A o \in TokenPairs \ used : n + 1 <= o
      /\ n + 1 \in 0..MaxTokenPairs /\ used \cup {n + 1} = 1..n + 1
  BY <1>1, <1>2 DEF TokenPairs
<1>4. /\ NewPair \in TokenPairs /\ NewPair \notin used
      /\ \A o \in TokenPairs \ used : NewPair <= o
  BY <1>3 DEF NewPair
<1>5. NewPair <= n + 1 /\ n + 1 <= NewPair /\ NewPair \in Nat
  BY <1>3, <1>4 DEF TokenPairs
<1>6. NewPair = n + 1
  BY <1>2, <1>5
<1> QED BY <1>3, <1>4, <1>6

\* What a refresh is to do with the pair it found and with the new one.
ForRefresh(todo, p, q, seen) ==
  /\ todo \in Seq(Statements) /\ SavingLast(todo) /\ LookFirst(todo)
  /\ \A n, o, m : Listed(todo, <<n, o, m>>) <=> m = First /\
       \/ seen = TRUE /\ o = p /\ n \in {"lookAccess", "dropAccess", "revokeAccess"}
       \/ o = p /\ n \in {"lookRefresh", "dropRefresh", "revokeRefresh", "revokeItsAccess"}
       \/ o = q /\ n \in {"unsetRefresh", "setRefresh", "unsetAccess", "setAccess",
                          "copyAccess", "copyRefresh"}
  /\ p # q =>
       /\ Behind(todo, <<"setRefresh", q, First>>, <<"unsetAccess", q, First>>)
       /\ Behind(todo, <<"unsetRefresh", q, First>>, <<"setRefresh", q, First>>)
       /\ Behind(todo, <<"unsetAccess", q, First>>, <<"setAccess", q, First>>)
       /\ Behind(todo, <<"setAccess", q, First>>, <<"copyAccess", q, First>>)

\* That is what it sets out to do.
LEMMA RefreshWorkIs ==
  ASSUME NEW p \in TokenPairs, NEW q \in TokenPairs, NEW seen \in BOOLEAN
  PROVE  ForRefresh(RefreshWork(p, q, seen), p, q, seen)
<1> DEFINE A == IF seen THEN DeleteByAccess(p) ELSE <<>>
           R == DeleteByRefresh(p)
           S == SaveTokenSession(q, First)
           AR == A \o R
<1>1. /\ A \in Seq(Statements) /\ LookFirst(A)
      /\ \A x : Listed(A, x) <=>
           seen /\ x \in {<<"lookAccess", p, First>>, <<"dropAccess", p, First>>, <<"revokeAccess", p, First>>}
  BY DeleteByAccessIs, EmptyList
<1>2. /\ R \in Seq(Statements)
      /\ \A x : Listed(R, x) <=>
           x \in {<<"lookRefresh", p, First>>, <<"dropRefresh", p, First>>, <<"revokeRefresh", p, First>>,
                  <<"revokeItsAccess", p, First>>}
  BY DeleteByRefreshIs
<1>3. /\ S \in Seq(Statements) /\ SavingLast(S) /\ LookFirst(S)
      /\ \A x : Listed(S, x) <=>
           x \in {<<"unsetRefresh", q, First>>, <<"setRefresh", q, First>>, <<"unsetAccess", q, First>>,
                  <<"setAccess", q, First>>, <<"copyAccess", q, First>>, <<"copyRefresh", q, First>>}
      /\ Behind(S, <<"unsetRefresh", q, First>>, <<"setRefresh", q, First>>)
      /\ Behind(S, <<"setRefresh", q, First>>, <<"unsetAccess", q, First>>)
      /\ Behind(S, <<"unsetAccess", q, First>>, <<"setAccess", q, First>>)
      /\ Behind(S, <<"setAccess", q, First>>, <<"copyAccess", q, First>>)
  BY SaveTokenSessionIs DEF RefreshRows
<1> HIDE DEF A, R, S
<1>4. AR \in Seq(Statements) /\ \A x : Listed(AR, x) <=> Listed(A, x) \/ Listed(R, x)
  BY <1>1, <1>2, ListsJoin
<1>5. (\A x : Listed(R, x) => x[1] \notin Saving /\ x[1] # "lookAccess") /\ SavingLast(R)
  <2>1. \A x : Listed(R, x) => x[1] \notin Saving /\ x[1] # "lookAccess"
    BY <1>2 DEF Saving
  <2> QED BY <2>1 DEF SavingLast, Listed
<1>6. \A x : Listed(A, x) => x[1] \notin Saving
  BY <1>1 DEF Saving
<1>7. LookFirst(AR) /\ \A x : Listed(AR, x) => x[1] \notin Saving
  BY <1>1, <1>2, <1>4, <1>5, <1>6, OrdersJoin
<1>8. \A x : Listed(S, x) => x[1] # "lookAccess"
  BY <1>3
<1> HIDE DEF AR
<1>9. SavingLast(AR \o S) /\ LookFirst(AR \o S)
  BY <1>3, <1>4, <1>7, <1>8, OrdersJoin
<1>10. /\ AR \o S \in Seq(Statements) /\ \A x : Listed(AR \o S, x) <=> Listed(AR, x) \/ Listed(S, x)
       /\ \A x, y : Behind(AR, x, y) /\ Behind(S, x, y) => Behind(AR \o S, x, y)
  BY <1>3, <1>4, ListsJoin
<1>11. RefreshWork(p, q, seen) = AR \o S
  BY DEF RefreshWork, A, R, S, AR
<1>12. p # q => \A n, m, y : Behind(AR, <<n, q, m>>, y)
  <2>1. \A n, m : p # q => ~Listed(AR, <<n, q, m>>)
    BY <1>1, <1>2, <1>4
  <2> QED BY <2>1 DEF Behind, Listed
<1>13. \A n, o, m : Listed(AR \o S, <<n, o, m>>) <=> m = First /\
         \/ seen = TRUE /\ o = p /\ n \in {"lookAccess", "dropAccess", "revokeAccess"}
         \/ o = p /\ n \in {"lookRefresh", "dropRefresh", "revokeRefresh", "revokeItsAccess"}
         \/ o = q /\ n \in {"unsetRefresh", "setRefresh", "unsetAccess", "setAccess",
                            "copyAccess", "copyRefresh"}
  BY <1>1, <1>2, <1>3, <1>4, <1>10
<1> QED BY <1>3, <1>9, <1>10, <1>11, <1>12, <1>13 DEF ForRefresh

\* What a logout is to do with the pair it found.
LEMMA LogoutWorkIs ==
  ASSUME NEW p \in TokenPairs, NEW seen \in BOOLEAN
  PROVE  /\ LogoutWork(p, seen) \in Seq(Statements)
         /\ \A n, o, m : Listed(LogoutWork(p, seen), <<n, o, m>>) <=> m = First /\ o = p /\
              \/ n \in {"lookAccess", "dropAccess", "revokeAccess"}
              \/ /\ seen = TRUE
                 /\ n \in {"lookRefresh", "dropRefresh", "revokeRefresh", "revokeItsAccess"}
         /\ SavingLast(LogoutWork(p, seen)) /\ LookFirst(LogoutWork(p, seen))
<1> DEFINE A == DeleteByAccess(p)
           R == IF seen THEN DeleteByRefresh(p) ELSE <<>>
<1>1. /\ A \in Seq(Statements) /\ LookFirst(A)
      /\ \A x : Listed(A, x) <=>
           x \in {<<"lookAccess", p, First>>, <<"dropAccess", p, First>>, <<"revokeAccess", p, First>>}
  BY DeleteByAccessIs
<1>2. /\ R \in Seq(Statements)
      /\ \A x : Listed(R, x) <=>
           /\ seen
           /\ x \in {<<"lookRefresh", p, First>>, <<"dropRefresh", p, First>>, <<"revokeRefresh", p, First>>,
                     <<"revokeItsAccess", p, First>>}
  BY DeleteByRefreshIs, EmptyList
<1> HIDE DEF A, R
<1>3. (\A x : Listed(R, x) => x[1] \notin Saving /\ x[1] # "lookAccess") /\ SavingLast(R)
  <2>1. \A x : Listed(R, x) => x[1] \notin Saving /\ x[1] # "lookAccess"
    BY <1>2 DEF Saving
  <2> QED BY <2>1 DEF SavingLast, Listed
<1>4. \A x : Listed(A, x) => x[1] \notin Saving
  BY <1>1 DEF Saving
<1>5. SavingLast(A \o R) /\ LookFirst(A \o R)
  BY <1>1, <1>2, <1>3, <1>4, OrdersJoin
<1>6. A \o R \in Seq(Statements) /\ \A x : Listed(A \o R, x) <=> Listed(A, x) \/ Listed(R, x)
  BY <1>1, <1>2, ListsJoin
<1>7. LogoutWork(p, seen) = A \o R
  BY DEF LogoutWork, A, R
<1>8. \A n, o, m : Listed(A \o R, <<n, o, m>>) <=> m = First /\ o = p /\
        \/ n \in {"lookAccess", "dropAccess", "revokeAccess"}
        \/ /\ seen = TRUE
           /\ n \in {"lookRefresh", "dropRefresh", "revokeRefresh", "revokeItsAccess"}
  BY <1>1, <1>2, <1>6
<1> QED BY <1>5, <1>6, <1>7, <1>8

\* What each call does when it found its pair.
LookedUp(c, there, seen, deleted, doubt) ==
  /\ unsure \subseteq unsure' /\ Meets(c, deleted) \subseteq unsure'
  /\ unsure' \subseteq unsure \cup Meets(c, deleted) \cup {PairOf(c)}
  /\ doubt => PairOf(c) \in unsure'
  /\ faults' \in 0..MaxFaults

\* A lookup may leave its pair, or pairs it meets, unsure.
LEMMA LookupIs ==
  ASSUME SessionsTyped, NEW c \in TokenCalls, NEW there, NEW seen, NEW deleted, NEW doubt \in BOOLEAN,
         Lookup(c, there, seen, deleted, doubt)
  PROVE  LookedUp(c, there, seen, deleted, doubt)
<1>1. faults' \in 0..MaxFaults
  BY TokenAssumption DEF Lookup, SessionsTyped, TokenTypeOK
<1> QED BY <1>1 DEF Lookup, LookedUp, PairOf

\* A client was told of the pair it uses.
LEMMA FoundPair ==
  ASSUME SessionsTyped, NEW c \in TokenCalls, tokenCall[c].pc = "find"
  PROVE  PairOf(c) \in delivered /\ PairOf(c) \in used /\ PairOf(c) \in TokenPairs
  BY DEF SessionsTyped, TokenTypeOK, Role, PairOf
Refreshes(c, q, seen) ==
  /\ tokenCall[c].pc = "find" /\ tokenCall[c].op = "refresh" /\ q \in TokenPairs \ used
  /\ used' = used \cup {q} /\ \E n \in 0..MaxTokenPairs : used' = 1..n
  /\ seen \in BOOLEAN /\ RefreshAccepted(PairOf(c))
  /\ LookedUp(c, refreshCopy[PairOf(c)], seen, {PairOf(c)}, seen # refreshCopy[PairOf(c)])
  /\ Go(c, {PairOf(c)}, q, RefreshWork(PairOf(c), q, seen))

\* A refresh is turned away, or sets out as Refreshes says.
LEMMA RefreshTokenIs ==
  ASSUME SessionsTyped, NEW c \in TokenCalls, RefreshToken(c)
  PROVE  Refused(c) \/ \E q, seen : Refreshes(c, q, seen)
<1>1. CASE ~RefreshAccepted(PairOf(c)) \/ used = TokenPairs
  BY <1>1 DEF RefreshToken, PairOf
<1>2. CASE RefreshAccepted(PairOf(c)) /\ used # TokenPairs
  <2>1. /\ tokenCall[c].pc = "find" /\ tokenCall[c].op = "refresh"
        /\ \E seen \in RefreshReads(PairOf(c)) :
             /\ Lookup(c, refreshCopy[PairOf(c)], seen, {PairOf(c)}, seen # refreshCopy[PairOf(c)])
             /\ Go(c, {PairOf(c)}, NewPair, RefreshWork(PairOf(c), NewPair, seen))
             /\ used' = used \cup {NewPair}
    BY <1>2 DEF RefreshToken, PairOf, NewPair, RefreshWork
  <2>2. PICK seen \in RefreshReads(PairOf(c)) :
          /\ Lookup(c, refreshCopy[PairOf(c)], seen, {PairOf(c)}, seen # refreshCopy[PairOf(c)])
          /\ Go(c, {PairOf(c)}, NewPair, RefreshWork(PairOf(c), NewPair, seen))
          /\ used' = used \cup {NewPair}
    BY <2>1
  <2>3. seen \in BOOLEAN
    BY <2>1, FoundPair DEF RefreshReads, SessionsTyped, TokenTypeOK
  <2>4. NewPair \in TokenPairs \ used /\ \E n \in 0..MaxTokenPairs : used \cup {NewPair} = 1..n
    BY <1>2, NewPairIs
  <2>5. LookedUp(c, refreshCopy[PairOf(c)], seen, {PairOf(c)}, seen # refreshCopy[PairOf(c)])
    BY <2>2, LookupIs
  <2> QED BY <1>2, <2>1, <2>2, <2>3, <2>4, <2>5 DEF Refreshes
<1> QED BY <1>1, <1>2
LogsOut(c, seen) ==
  /\ tokenCall[c].pc = "find" /\ tokenCall[c].op = "logout" /\ used' = used
  /\ seen \in BOOLEAN /\ AccessAccepted(PairOf(c))
  /\ LookedUp(c, accessCopy[PairOf(c)], seen, {PairOf(c)}, seen # accessCopy[PairOf(c)])
  /\ Go(c, {PairOf(c)}, 0, LogoutWork(PairOf(c), seen))

\* A copy is read or it is not.
LEMMA AccessReadsBoolean ==
  ASSUME SessionsTyped, NEW p \in TokenPairs, NEW seen \in AccessReads(p)
  PROVE  seen \in BOOLEAN
  BY DEF AccessReads, SessionsTyped, TokenTypeOK

\* A logout is turned away, or sets out as LogsOut says.
LEMMA LogoutIs ==
  ASSUME SessionsTyped, NEW c \in TokenCalls, Logout(c)
  PROVE  Refused(c) \/ \E seen : LogsOut(c, seen)
<1>1. CASE ~AccessAccepted(PairOf(c))
  BY <1>1 DEF Logout, PairOf
<1>2. CASE AccessAccepted(PairOf(c))
  <2>1. /\ tokenCall[c].pc = "find" /\ tokenCall[c].op = "logout"
        /\ \E seen \in AccessReads(PairOf(c)) :
             /\ Lookup(c, accessCopy[PairOf(c)], seen, {PairOf(c)}, seen # accessCopy[PairOf(c)])
             /\ Go(c, {PairOf(c)}, 0, LogoutWork(PairOf(c), seen))
             /\ UNCHANGED used
    BY <1>2 DEF Logout, PairOf, LogoutWork
  <2>2. PICK seen \in AccessReads(PairOf(c)) :
          /\ Lookup(c, accessCopy[PairOf(c)], seen, {PairOf(c)}, seen # accessCopy[PairOf(c)])
          /\ Go(c, {PairOf(c)}, 0, LogoutWork(PairOf(c), seen))
          /\ UNCHANGED used
    BY <2>1
  <2>3. LookedUp(c, accessCopy[PairOf(c)], seen, {PairOf(c)}, seen # accessCopy[PairOf(c)])
    BY <2>2, LookupIs
  <2> QED BY <1>2, <2>1, <2>2, <2>3, AccessReadsBoolean, FoundPair DEF LogsOut
<1> QED BY <1>1, <1>2
Rebinds(c, seen) ==
  /\ tokenCall[c].pc = "find" /\ tokenCall[c].op = "bind" /\ used' = used
  /\ seen \in BOOLEAN /\ AccessAccepted(PairOf(c))
  /\ LookedUp(c, accessCopy[PairOf(c)], seen, {}, FALSE)
  /\ Go(c, {}, 0, BindWork(c, PairOf(c), seen))

\* A binding is turned away, or sets out as Rebinds says.
LEMMA BindWechatIs ==
  ASSUME SessionsTyped, NEW c \in TokenCalls, BindWechat(c)
  PROVE  Refused(c) \/ \E seen : Rebinds(c, seen)
<1>1. CASE ~AccessAccepted(PairOf(c))
  BY <1>1 DEF BindWechat, PairOf
<1>2. CASE AccessAccepted(PairOf(c))
  <2>1. /\ tokenCall[c].pc = "find" /\ tokenCall[c].op = "bind"
        /\ \E seen \in AccessReads(PairOf(c)) :
             /\ Lookup(c, accessCopy[PairOf(c)], seen, {}, FALSE)
             /\ Go(c, {}, 0, BindWork(c, PairOf(c), seen))
             /\ UNCHANGED used
    BY <1>2 DEF BindWechat, PairOf, BindWork
  <2>2. PICK seen \in AccessReads(PairOf(c)) :
          /\ Lookup(c, accessCopy[PairOf(c)], seen, {}, FALSE)
          /\ Go(c, {}, 0, BindWork(c, PairOf(c), seen))
          /\ UNCHANGED used
    BY <2>1
  <2>3. LookedUp(c, accessCopy[PairOf(c)], seen, {}, FALSE)
    BY <2>2, LookupIs
  <2> QED BY <1>2, <2>1, <2>2, <2>3, AccessReadsBoolean, FoundPair DEF Rebinds
<1> QED BY <1>1, <1>2

\* The pairs that could not be listed are left alone.
LogsAllOut(c, todo) ==
  /\ tokenCall[c].pc = "find" /\ tokenCall[c].op = "logoutAll" /\ used' = used
  /\ faults' \in 0..MaxFaults /\ Active \in SUBSET used
  /\ unsure \subseteq unsure' /\ Meets(c, Active) \cup (Active \ delivered) \subseteq unsure'
  /\ Go(c, Active, 0, todo)
  /\ todo \in Seq(Statements) /\ SavingLast(todo) /\ LookFirst(todo)
  /\ \/ /\ \A n, p, r : Listed(todo, <<n, p, r>>) <=> p \in Active /\
             \/ r = First /\ n \in {"lookRefresh", "dropRefresh"}
             \/ r \in refreshRows[p] /\ n \in {"revokeRow", "revokeRowsAccess"}
        /\ \A p : Ahead(todo, <<"lookRefresh", p, First>>, <<"dropRefresh", p, First>>)
     \/ todo = <<>> /\ Active \subseteq unsure'

\* What a call other than a binding meets is among what it deletes.
LEMMA MeetsAre ==
  ASSUME NEW c, NEW ends, tokenCall[c].op # "bind"
  PROVE  Meets(c, ends) \subseteq ends
  BY DEF Meets

\* A logout on all devices is turned away, or sets out as LogsAllOut says.
LEMMA LogoutAllIs ==
  ASSUME SessionsTyped, NEW c \in TokenCalls, LogoutAll(c)
  PROVE  Refused(c) \/ \E todo : LogsAllOut(c, todo)
<1>1. CASE ~AccessAccepted(PairOf(c))
  BY <1>1 DEF LogoutAll, PairOf
<1>2. CASE AccessAccepted(PairOf(c))
  <2>1. Active \in SUBSET used /\ Active \in SUBSET TokenPairs
    BY DEF SessionsTyped, Unmade, Active
  <2>2. tokenCall[c].pc = "find" /\ tokenCall[c].op = "logoutAll"
    BY DEF LogoutAll
  <2>0. /\ ActiveRows \in SUBSET (TokenPairs \X RefreshRows)
        /\ \A p, r : <<p, r>> \in ActiveRows <=> p \in Active /\ r \in refreshRows[p]
    BY DEF ActiveRows, Active, SessionsTyped, TokenTypeOK
  <2>3. \/ /\ \E order \in SetToSeqs(ActiveRows) : Go(c, Active, 0, DeleteEach(order))
           /\ unsure' = unsure \cup Meets(c, Active) \cup (Active \ delivered)
           /\ UNCHANGED <<used, faults>>
        \/ /\ faults < MaxFaults /\ faults' = faults + 1
           /\ Go(c, Active, 0, <<>>) /\ unsure' = unsure \cup Active
           /\ UNCHANGED used
    BY <1>2 DEF LogoutAll, Active, PairOf
  <2>4. CASE /\ \E order \in SetToSeqs(ActiveRows) : Go(c, Active, 0, DeleteEach(order))
             /\ unsure' = unsure \cup Meets(c, Active) \cup (Active \ delivered)
             /\ UNCHANGED <<used, faults>>
    <3>1. PICK order \in SetToSeqs(ActiveRows) : Go(c, Active, 0, DeleteEach(order))
      BY <2>4
    <3> DEFINE todo == DeleteEach(order)
    <3>2. /\ todo \in Seq(Statements)
          /\ \A x : Listed(todo, x) <=>
               \E row \in ActiveRows : x \in Deletes(row[1], row[2])
          /\ SavingLast(todo) /\ LookFirst(todo)
          /\ \A p : Ahead(todo, <<"lookRefresh", p, First>>, <<"dropRefresh", p, First>>)
      BY <2>0, DeleteEachIs
    <3>3. Go(c, Active, 0, todo)
      BY <3>1
    <3> HIDE DEF todo
    <3>4. \A n, p, r : Listed(todo, <<n, p, r>>) <=> p \in Active /\
            \/ r = First /\ n \in {"lookRefresh", "dropRefresh"}
            \/ r \in refreshRows[p] /\ n \in {"revokeRow", "revokeRowsAccess"}
      <4>1. ASSUME NEW n, NEW p, NEW r
            PROVE  Listed(todo, <<n, p, r>>) <=> p \in Active /\
                     \/ r = First /\ n \in {"lookRefresh", "dropRefresh"}
                     \/ r \in refreshRows[p] /\ n \in {"revokeRow", "revokeRowsAccess"}
        <5>1. \A row \in ActiveRows : /\ row[1] \in Active /\ row[2] \in refreshRows[row[1]]
                                      /\ row = <<row[1], row[2]>>
          BY <2>0 DEF ActiveRows, Active
        <5>2. \A row \in ActiveRows : <<n, p, r>> \in Deletes(row[1], row[2]) <=> p = row[1] /\
                \/ r = First /\ n \in {"lookRefresh", "dropRefresh"}
                \/ r = row[2] /\ n \in {"revokeRow", "revokeRowsAccess"}
          BY DEF Deletes
        <5>3. p \in Active => \E s : <<p, s>> \in ActiveRows
          BY <2>0 DEF Active
        <5>4. \A s : <<p, s>>[1] = p /\ <<p, s>>[2] = s
          OBVIOUS
        <5> QED BY ONLY <2>0, <3>2, <5>1, <5>2, <5>3, <5>4
      <4> QED BY <4>1
    <3>5. faults' \in 0..MaxFaults
      BY <2>4 DEF SessionsTyped, TokenTypeOK
    <3>6. /\ unsure \subseteq unsure' /\ Meets(c, Active) \cup (Active \ delivered) \subseteq unsure'
          /\ used' = used
      BY <2>4
    <3>7. LogsAllOut(c, todo)
      BY <2>1, <2>2, <3>2, <3>3, <3>4, <3>5, <3>6 DEF LogsAllOut
    <3> QED BY <3>7
  <2>5. CASE /\ faults < MaxFaults /\ faults' = faults + 1
             /\ Go(c, Active, 0, <<>>) /\ unsure' = unsure \cup Active
             /\ UNCHANGED used
    <3>1. faults' \in 0..MaxFaults
      BY <2>5, TokenAssumption DEF SessionsTyped, TokenTypeOK
    <3>2. Meets(c, Active) \cup (Active \ delivered) \subseteq unsure'
      BY <2>2, <2>5, MeetsAre
    <3>3. LogsAllOut(c, <<>>)
      BY <2>1, <2>2, <2>5, <3>1, <3>2, EmptyList DEF LogsAllOut
    <3> QED BY <3>3
  <2> QED BY <2>3, <2>4, <2>5
<1> QED BY <1>1, <1>2

\* A refresh keeps the types.
LEMMA RefreshesTyped ==
  ASSUME SessionsTyped, NEW c \in TokenCalls, NEW q, NEW seen, Refreshes(c, q, seen)
  PROVE  SessionsTyped'
<1> DEFINE p == PairOf(c)
           todo == RefreshWork(p, q, seen)
<1>1. p \in delivered /\ p \in used /\ p \in TokenPairs /\ q \in TokenPairs /\ q \notin used /\ p # q
  BY FoundPair DEF Refreshes
<1>2. seen \in BOOLEAN /\ Go(c, {p}, q, todo) /\ tokenCall[c].pc = "find" /\ tokenCall[c].op # "bind"
  BY DEF Refreshes
<1>3. /\ todo \in Seq(Statements) /\ SavingLast(todo) /\ LookFirst(todo)
      /\ \A n, o, r : Listed(todo, <<n, o, r>>) <=> r = First /\
           \/ seen /\ o = p /\ n \in {"lookAccess", "dropAccess", "revokeAccess"}
           \/ o = p /\ n \in {"lookRefresh", "dropRefresh", "revokeRefresh", "revokeItsAccess"}
           \/ o = q /\ n \in {"unsetRefresh", "setRefresh", "unsetAccess", "setAccess",
                              "copyAccess", "copyRefresh"}
  <2> HIDE DEF p
  <2>1. p \in TokenPairs /\ q \in TokenPairs /\ seen \in BOOLEAN
    BY <1>1, <1>2
  <2>2. ForRefresh(todo, p, q, seen)
    BY <2>1, RefreshWorkIs
  <2> HIDE DEF todo
  <2> QED BY ONLY <2>1, <2>2 DEF ForRefresh
<1>4. /\ faults' \in 0..MaxFaults /\ unsure \subseteq unsure' /\ used \subseteq used'
      /\ \E n \in 0..MaxTokenPairs : used' = 1..n
      /\ q \in used' \ used
  BY <1>1 DEF Refreshes, LookedUp
<1> HIDE DEF todo, p
<1>5. \A n \in StatementNames, o \in TokenPairs, r \in RefreshRows :
        Listed(todo, <<n, o, r>>) =>
          IF n \in Saving
            THEN Binds(c, o) \/ (q = o /\ r = First)
            ELSE o \in {p} /\ o \in delivered \cup unsure'
  BY <1>1, <1>3 DEF Saving
<1>6. {p} \in SUBSET used /\ q \in {0} \cup TokenPairs
  BY <1>1
<1> QED BY <1>2, <1>3, <1>4, <1>5, <1>6, GoTyped

\* A logout keeps the types.
LEMMA LogsOutTyped ==
  ASSUME SessionsTyped, NEW c \in TokenCalls, NEW seen, LogsOut(c, seen)
  PROVE  SessionsTyped'
<1> DEFINE p == PairOf(c)
           todo == LogoutWork(p, seen)
<1>1. p \in delivered /\ p \in used /\ p \in TokenPairs
  BY FoundPair DEF LogsOut
<1>2. seen \in BOOLEAN /\ Go(c, {p}, 0, todo) /\ tokenCall[c].pc = "find" /\ tokenCall[c].op # "bind"
  BY DEF LogsOut
<1>3. /\ todo \in Seq(Statements) /\ SavingLast(todo) /\ LookFirst(todo)
      /\ \A n, o, r : Listed(todo, <<n, o, r>>) <=> r = First /\ o = p /\
           \/ n \in {"lookAccess", "dropAccess", "revokeAccess"}
           \/ /\ seen = TRUE
              /\ n \in {"lookRefresh", "dropRefresh", "revokeRefresh", "revokeItsAccess"}
  BY <1>1, <1>2, LogoutWorkIs
<1>4. /\ faults' \in 0..MaxFaults /\ unsure \subseteq unsure' /\ used \subseteq used'
      /\ \E n \in 0..MaxTokenPairs : used' = 1..n
  BY <1>1 DEF LogsOut, LookedUp, SessionsTyped
<1> HIDE DEF todo, p
<1>5. \A n \in StatementNames, o \in TokenPairs, r \in RefreshRows :
        Listed(todo, <<n, o, r>>) =>
          IF n \in Saving
            THEN Binds(c, o) \/ (0 = o /\ r = First)
            ELSE o \in {p} /\ o \in delivered \cup unsure'
  BY <1>1, <1>3 DEF Saving
<1>6. {p} \in SUBSET used /\ 0 \in {0} \cup TokenPairs
  BY <1>1
<1> QED BY <1>2, <1>3, <1>4, <1>5, <1>6, GoTyped

\* A logout on all devices keeps the types.
LEMMA LogsAllOutTyped ==
  ASSUME SessionsTyped, NEW c \in TokenCalls, NEW todo, LogsAllOut(c, todo)
  PROVE  SessionsTyped'
<1>1. \A n \in StatementNames, o \in TokenPairs, r \in RefreshRows :
        Listed(todo, <<n, o, r>>) =>
          IF n \in Saving
            THEN Binds(c, o) \/ (0 = o /\ r = First)
            ELSE o \in Active /\ o \in delivered \cup unsure'
  BY EmptyList DEF LogsAllOut, Saving
<1>2. /\ Active \in SUBSET used /\ 0 \in {0} \cup TokenPairs /\ todo \in Seq(Statements)
      /\ Go(c, Active, 0, todo) /\ tokenCall[c].pc = "find" /\ tokenCall[c].op # "bind"
      /\ faults' \in 0..MaxFaults /\ unsure \subseteq unsure' /\ used \subseteq used'
      /\ \E n \in 0..MaxTokenPairs : used' = 1..n
      /\ SavingLast(todo) /\ LookFirst(todo)
  BY DEF LogsAllOut, SessionsTyped
<1> QED BY <1>1, <1>2, GoTyped

\* A binding keeps the types.
LEMMA RebindsTyped ==
  ASSUME SessionsTyped, NEW c \in TokenCalls, NEW seen, Rebinds(c, seen)
  PROVE  SessionsTyped'
<1> DEFINE p == PairOf(c)
           todo == BindWork(c, p, seen)
<1>1. p \in delivered /\ p \in used /\ p \in TokenPairs /\ Binds(c, p) /\ p \in given
  BY FoundPair DEF Rebinds, Binds, PairOf, SessionsTyped, Role
<1>2. seen \in BOOLEAN /\ Go(c, {}, 0, todo) /\ tokenCall[c].pc = "find"
  BY DEF Rebinds
<1>3. /\ todo \in Seq(Statements) /\ SavingLast(todo) /\ LookFirst(todo)
      /\ \A n, o, r : Listed(todo, <<n, o, r>>) => n \in Saving /\ o = p
  <2>1. CASE seen
    <3>1. todo = SaveTokenSession(p, c)
      BY <2>1 DEF BindWork
    <3> HIDE DEF todo
    <3>0. p \in TokenPairs /\ c \in RefreshRows
      BY <1>1 DEF RefreshRows
    <3> HIDE DEF p
    <3>2. /\ todo \in Seq(Statements) /\ SavingLast(todo) /\ LookFirst(todo)
          /\ \A x : Listed(todo, x) =>
               x \in {<<"unsetRefresh", p, First>>, <<"setRefresh", p, c>>, <<"unsetAccess", p, First>>,
                      <<"setAccess", p, First>>, <<"copyAccess", p, First>>, <<"copyRefresh", p, First>>}
      BY ONLY <3>0, <3>1, SaveTokenSessionIs
    <3>3. \A n, o, r : Listed(todo, <<n, o, r>>) =>
            o = p /\ n \in {"unsetRefresh", "setRefresh", "unsetAccess", "setAccess",
                            "copyAccess", "copyRefresh"}
      BY ONLY <3>2
    <3> QED BY ONLY <3>2, <3>3 DEF Saving
  <2>2. CASE ~seen
    <3>1. todo = SaveAccess(p)
      BY <2>2 DEF BindWork
    <3> HIDE DEF todo
    <3>2. p \in TokenPairs
      BY <1>1
    <3> HIDE DEF p
    <3>3. /\ todo \in Seq(Statements) /\ SavingLast(todo) /\ LookFirst(todo)
          /\ \A x : Listed(todo, x) =>
               x \in {<<"unsetAccess", p, First>>, <<"setAccess", p, First>>,
                      <<"copyAccess", p, First>>, <<"copyRefresh", p, First>>}
      BY ONLY <3>1, <3>2, SaveAccessIs
    <3>4. \A n, o, r : Listed(todo, <<n, o, r>>) =>
            o = p /\ n \in {"unsetAccess", "setAccess", "copyAccess", "copyRefresh"}
      BY ONLY <3>3
    <3> QED BY ONLY <3>3, <3>4 DEF Saving
  <2> QED BY <2>1, <2>2
<1>4. /\ faults' \in 0..MaxFaults /\ unsure \subseteq unsure' /\ used \subseteq used'
      /\ \E n \in 0..MaxTokenPairs : used' = 1..n
  BY <1>1 DEF Rebinds, LookedUp, SessionsTyped
<1> HIDE DEF todo, p
<1>5. \A n \in StatementNames, o \in TokenPairs, r \in RefreshRows :
        Listed(todo, <<n, o, r>>) =>
          IF n \in Saving
            THEN Binds(c, o) \/ (0 = o /\ r = First)
            ELSE o \in {} /\ o \in delivered \cup unsure'
  BY <1>1, <1>3
<1>6. {} \in SUBSET used /\ 0 \in {0} \cup TokenPairs
  OBVIOUS
<1> QED BY <1>1, <1>2, <1>3, <1>4, <1>5, <1>6, GoTyped DEF p

\* The steps, one by one.
CallSteps(c) ==
  \/ \E op \in Ending \cup {"bind"}, p \in TokenPairs : Call(c, op, p)
  \/ tokenCall[c].pc = "find" /\ Refused(c)
  \/ \E q, seen : Refreshes(c, q, seen)
  \/ \E seen : LogsOut(c, seen) \/ Rebinds(c, seen)
  \/ \E todo : LogsAllOut(c, todo)
  \/ Statement(c) \/ StatementFails(c) \/ InsertFails(c) \/ Report(c)

\* Every step is one of a call, of a pair, or none.
LEMMA TokenSteps ==
  ASSUME SessionsTyped, [TokenNext]_tokenVars
  PROVE  \/ \E c \in TokenCalls : CallSteps(c)
         \/ \E p \in TokenPairs : CopyLost(p) \/ RowExpires(p)
         \/ UNCHANGED tokenVars
<1>1. CASE \E c \in TokenCalls, op \in Ending \cup {"bind"}, p \in TokenPairs : Call(c, op, p)
  BY <1>1 DEF CallSteps
<1>2. CASE \E c \in TokenCalls : \/ RefreshToken(c) \/ Logout(c) \/ LogoutAll(c) \/ BindWechat(c)
                                 \/ Statement(c) \/ StatementFails(c) \/ InsertFails(c) \/ Report(c)
  <2>1. ASSUME NEW c \in TokenCalls, RefreshToken(c) \/ Logout(c) \/ LogoutAll(c) \/ BindWechat(c)
        PROVE  CallSteps(c)
    <3>1. tokenCall[c].pc = "find"
      BY <2>1 DEF RefreshToken, Logout, LogoutAll, BindWechat
    <3> QED BY <2>1, <3>1, RefreshTokenIs, LogoutIs, LogoutAllIs, BindWechatIs DEF CallSteps
  <2>2. ASSUME NEW c \in TokenCalls,
               Statement(c) \/ StatementFails(c) \/ InsertFails(c) \/ Report(c)
        PROVE  CallSteps(c)
    BY <2>2 DEF CallSteps
  <2> QED BY <1>2, <2>1, <2>2
<1> QED BY <1>1, <1>2 DEF TokenNext

\* Every step of a call keeps the types.
LEMMA CallStepTyped ==
  ASSUME SessionsTyped, NEW c \in TokenCalls, CallSteps(c)
  PROVE  SessionsTyped'
  BY CallTyped, RefusedTyped, RefreshesTyped, LogsOutTyped, RebindsTyped, LogsAllOutTyped,
     StatementTyped, StatementFailsTyped, InsertFailsTyped, ReportTyped DEF CallSteps

\* So does no step.
LEMMA TokensRestTyped ==
  ASSUME SessionsTyped, UNCHANGED tokenVars
  PROVE  SessionsTyped'
  BY DEF tokenVars, tables, SessionsTyped, TokenTypeOK, Unmade, Role, Task, Works, Todo, Ends, Made,
         WillRow, Saves, Makes, Binds

\* The types hold initially.
LEMMA TokensInitial == TokenInit => SessionsTyped
<1> SUFFICES ASSUME TokenInit
             PROVE  SessionsTyped
  OBVIOUS
<1>1. \A p \in TokenPairs : p <= Devices <=> p \in 1..Devices
  BY TokenAssumption DEF TokenPairs
<1>2. 1..Devices \subseteq TokenPairs /\ Devices \in 0..MaxTokenPairs /\ 0 \in 0..MaxFaults
  BY TokenAssumption DEF TokenPairs
<1>3. /\ Ready \in CallRecords /\ Ready.op = "none" /\ Ready.pc = "ready" /\ Ready.new = 0
      /\ Ready.ends = {} /\ Ready.todo = <<>>
  BY EmptyList DEF Ready, CallRecords, Ending
<1>4. \A c \in TokenCalls : tokenCall[c] = Ready /\ Todo(c) = <<>> /\ Ends(c) = {} /\ ~Made(c) /\ ~Works(c)
  BY <1>3 DEF TokenInit, Todo, Ends, Made, Works
<1>5. \A c \in TokenCalls : Role(c) /\ Task(c)
  BY <1>3, <1>4, EmptyList DEF Role, Task, WillRow
<1>6. TokenTypeOK
  BY <1>2 DEF TokenInit, TokenTypeOK, AccessRows, RefreshRows
<1>7. \A p \in TokenPairs \ used : Unmade(p)
  BY <1>1 DEF TokenInit, Unmade
<1> QED BY <1>2, <1>3, <1>4, <1>5, <1>6, <1>7 DEF SessionsTyped, TokenInit

----------------------------------------------------------------------------
\* Each call works within its role: its statements concern the pair it makes and
\* pairs someone set out to end, and those that save come last.
THEOREM SessionsKeepType == TokenSpec => []SessionsTyped
<1>1. TokenInit => SessionsTyped
  BY TokensInitial
<1>2. SessionsTyped /\ [TokenNext]_tokenVars => SessionsTyped'
  BY TokenSteps, CallStepTyped, PairStepTyped, TokensRestTyped
<1> QED BY <1>1, <1>2, PTL DEF TokenSpec

\* The tables and the history always have their types (TokenTypeOK).
THEOREM TokenTypeCorrect == TokenSpec => []TokenTypeOK
<1>1. SessionsTyped => TokenTypeOK
  BY DEF SessionsTyped
<1> QED BY <1>1, SessionsKeepType, PTL

\* A step that leaves the rows of a pair, and what its maker has to do, keeps it.
LEMMA KeptBy ==
  ASSUME NEW p \in TokenPairs, KeptFor(p), NEW c \in TokenCalls, OthersRest(c),
         accessRow'[p] = accessRow[p], refreshRows'[p] = refreshRows[p],
         p \in delivered' => p \in delivered,
         tokenCall'[c].new = p => Sets(c, p)'
  PROVE  KeptFor(p)'
<1>1. ASSUME NEW d \in TokenCalls, d # c, tokenCall'[d].new = p
      PROVE  Sets(d, p)'
  BY <1>1, Resting DEF KeptFor, Sets
<1> QED BY <1>1 DEF KeptFor

\* The beginning of a call's work keeps pairs it does not delete, and new ones.
LEMMA GoKept ==
  ASSUME SessionsTyped, NEW p \in TokenPairs \ (given' \cup unsure'), KeptFor(p),
         NEW c \in TokenCalls, NEW deleted \in SUBSET TokenPairs, NEW new \in {0} \cup TokenPairs,
         NEW todo \in Seq(Statements), Go(c, deleted, new, todo),
         p = new =>
           /\ Listed(todo, <<"setRefresh", p, First>>) /\ Listed(todo, <<"setAccess", p, First>>)
           /\ Behind(todo, <<"unsetRefresh", p, First>>, <<"setRefresh", p, First>>)
           /\ Behind(todo, <<"unsetAccess", p, First>>, <<"setAccess", p, First>>)
  PROVE  KeptFor(p)'
<1>1. /\ OthersRest(c) /\ tokenCall'[c].new = new /\ Todo(c)' = todo
      /\ UNCHANGED <<accessRow, refreshRows, delivered>>
  BY GoIs
<1>2. new = p => Sets(c, p)'
  BY <1>1 DEF Sets, Will, WillRow
<1> QED BY <1>1, <1>2, KeptBy

\* A statement keeps a pair that nobody ends or binds: only its maker works on it.
LEMMA StatementKept ==
  ASSUME SessionsTyped, NEW p \in TokenPairs \ (given \cup unsure), KeptFor(p),
         NEW c \in TokenCalls, Statement(c)
  PROVE  KeptFor(p)'
<1>1. PICK name \in StatementNames, o \in TokenPairs, r \in RefreshRows : Done(c, name, o, r)
  BY StatementIs
<1>2. Left(c, name, o, r, Adds(name, o)) /\ UNCHANGED <<delivered, given, unsure>>
  BY <1>1, DoneLeft DEF Done
<1>3. /\ OthersRest(c) /\ WillRow(c, name, o, r) /\ tokenCall'[c].new = tokenCall[c].new
      /\ \A n, q : Will(c, n, q) /\ ~(n = name /\ q = o) => Will(c, n, q)'
      /\ \A n, q, y : n \in Saving /\ Behind(Todo(c), <<n, q, First>>, y)
                      => Behind(Todo(c)', <<n, q, First>>, y)
  <2>1. \A n, q, m : n \in Saving => Adds(name, o) # <<<<n, q, m>>>>
    BY AddsIs DEF Saving
  <2> QED BY <1>2, <2>1 DEF Left, Will
<1>4. accessRow \in [TokenPairs -> AccessRows] /\ refreshRows \in [TokenPairs -> SUBSET RefreshRows]
  BY DEF SessionsTyped, TokenTypeOK
<1>5. CASE o # p
  <2>1. accessRow'[p] = accessRow[p] /\ refreshRows'[p] = refreshRows[p]
    BY <1>1, <1>4, <1>5 DEF Done
  <2>2. tokenCall[c].new = p => Sets(c, p)'
    BY <1>3, <1>5, <2>1 DEF KeptFor, Sets, Saving
  <2> QED BY <1>2, <1>3, <2>1, <2>2, KeptBy
<1>6. CASE o = p
  <2>1. /\ name \in Saving /\ r = First /\ tokenCall[c].new = p /\ p \notin delivered
        /\ \A d \in TokenCalls : tokenCall[d].new = p => d = c
    <3>1. Role(c) /\ Task(c) /\ p # 0
      BY DEF SessionsTyped, TokenPairs
    <3>2. name \in Saving /\ Saves(c, p, r)
      BY <1>3, <1>6, <3>1 DEF Task
    <3>3. ~Binds(c, p) /\ tokenCall[c].new = p /\ r = First
      BY <3>1, <3>2 DEF Saves, Makes, Binds, Role, Works
    <3> QED BY <3>1, <3>2, <3>3 DEF Role, Made, SessionsTyped
  <2>2. Sets(c, p)
    BY <2>1 DEF KeptFor
  <2>3. /\ accessRow'[p] = RowAfter(name, r, accessRow[p])
        /\ refreshRows'[p] = RowsAfter(name, r, refreshRows[p])
    BY <1>1, <1>4, <1>6 DEF Done
  <2>4. /\ Behind(Todo(c)', <<"unsetRefresh", p, First>>, <<"setRefresh", p, First>>)
        /\ Behind(Todo(c)', <<"unsetAccess", p, First>>, <<"setAccess", p, First>>)
    BY <1>3, <2>2 DEF Sets, Saving
  <2>5. refreshRows'[p] # {} \/ Will(c, "setRefresh", p)'
    <3>1. CASE name = "unsetRefresh"
      <4>1. Will(c, "setRefresh", p)
        BY <1>3, <1>6, <2>1, <2>2, <3>1 DEF Sets, Behind, Will, WillRow, Listed
      <4> QED BY <1>3, <3>1, <4>1
    <3>2. CASE name = "setRefresh"
      BY <2>1, <2>3, <3>2 DEF RowsAfter
    <3>3. CASE name \notin {"unsetRefresh", "setRefresh"}
      <4>1. refreshRows'[p] = refreshRows[p]
        BY <2>1, <2>3, <3>3 DEF RowsAfter, Saving
      <4> QED BY <1>3, <2>2, <3>3, <4>1 DEF Sets
    <3> QED BY <3>1, <3>2, <3>3
  <2>6. accessRow'[p] = "active" \/ Will(c, "setAccess", p)'
    <3>1. CASE name = "unsetAccess"
      <4>1. Will(c, "setAccess", p)
        BY <1>3, <1>6, <2>1, <2>2, <3>1 DEF Sets, Behind, Will, WillRow, Listed
      <4> QED BY <1>3, <3>1, <4>1
    <3>2. CASE name = "setAccess"
      BY <2>3, <3>2 DEF RowAfter
    <3>3. CASE name \notin {"unsetAccess", "setAccess"}
      <4>1. accessRow'[p] = accessRow[p]
        BY <2>1, <2>3, <3>3 DEF RowAfter, Saving
      <4> QED BY <1>3, <2>2, <3>3, <4>1 DEF Sets
    <3> QED BY <3>1, <3>2, <3>3
  <2>7. \A d \in TokenCalls : tokenCall'[d].new = p => d = c
    BY <1>3, <2>1, Resting
  <2>8. Sets(c, p)'
    BY <2>4, <2>5, <2>6 DEF Sets
  <2> QED BY <1>2, <2>1, <2>7, <2>8 DEF KeptFor
<1> QED BY <1>5, <1>6

\* So does a statement that fails.
LEMMA StatementFailsKept ==
  ASSUME SessionsTyped, NEW p \in TokenPairs \ (given \cup unsure'), KeptFor(p),
         NEW c \in TokenCalls, StatementFails(c)
  PROVE  KeptFor(p)'
<1> DEFINE name == Head(Todo(c))[1]
           o == Head(Todo(c))[2]
           r == Head(Todo(c))[3]
<1>1. /\ Works(c) /\ Todo(c) # <<>> /\ unsure' = unsure \cup ({o} \ {tokenCall[c].new})
      /\ IF name \in Saving THEN Fails(c) ELSE GoOn(c, <<>>)
      /\ UNCHANGED <<accessRow, refreshRows, delivered>>
  BY DEF StatementFails, Todo, Works, tables
<1>2. /\ name \in StatementNames /\ o \in TokenPairs /\ r \in RefreshRows
      /\ Head(Todo(c)) = <<name, o, r>> /\ p # 0
  BY <1>1, HeadIs DEF TokenPairs
<1> HIDE DEF name, o, r
<1>3. CASE name \in Saving
  BY <1>1, <1>2, <1>3, OverIs, KeptBy
<1>4. CASE name \notin Saving
  <2>1. Left(c, name, o, r, <<>>)
    BY <1>1, <1>2, <1>4, LeftIs
  <2>2. o \in given
    <3>1. WillRow(c, name, o, r) /\ Task(c)
      BY <2>1 DEF Left, SessionsTyped
    <3> QED BY <1>2, <1>4, <3>1 DEF Task
  <2>3. /\ OthersRest(c) /\ tokenCall'[c].new = tokenCall[c].new
        /\ \A n, q : Will(c, n, q) /\ ~(n = name /\ q = o) => Will(c, n, q)'
        /\ \A x, y : Behind(Todo(c), x, y) => Behind(Todo(c)', x, y)
    BY <2>1 DEF Left, Will
  <2>4. tokenCall[c].new = p => Sets(c, p)'
    BY <1>1, <2>2, <2>3 DEF KeptFor, Sets
  <2> QED BY <1>1, <2>3, <2>4, KeptBy
<1> QED BY <1>3, <1>4

\* So does an access token that is stored already.
LEMMA InsertFailsKept ==
  ASSUME SessionsTyped, NEW p \in TokenPairs, KeptFor(p), NEW c \in TokenCalls, InsertFails(c)
  PROVE  KeptFor(p)'
<1>1. Fails(c) /\ UNCHANGED <<accessRow, refreshRows, delivered>>
  BY DEF InsertFails, tables
<1>2. OthersRest(c) /\ tokenCall'[c].new = 0 /\ p # 0
  BY <1>1, OverIs DEF TokenPairs
<1> QED BY <1>1, <1>2, KeptBy

\* A new pair is told of when its rows are set.
LEMMA ReportKept ==
  ASSUME SessionsTyped, NEW p \in TokenPairs, KeptFor(p), NEW c \in TokenCalls, Report(c)
  PROVE  KeptFor(p)'
<1>1. /\ Todo(c) = <<>> /\ delivered' \subseteq delivered \cup {tokenCall[c].new} /\ Over(c)
      /\ UNCHANGED <<accessRow, refreshRows>>
  BY DEF Report, Todo, tables
<1>2. OthersRest(c) /\ tokenCall'[c].new = 0 /\ p # 0
  BY <1>1, OverIs DEF TokenPairs
<1>3. tokenCall[c].new = p => accessRow[p] = "active" /\ refreshRows[p] # {}
  BY <1>1, EmptyList DEF KeptFor, Sets, Will, WillRow
<1>4. \A d \in TokenCalls : tokenCall'[d].new = p => Sets(d, p)'
  BY <1>1, <1>2, Resting DEF KeptFor, Sets
<1> QED BY <1>1, <1>3, <1>4 DEF KeptFor

\* Every step of a call keeps such a pair.
LEMMA CallStepKept ==
  ASSUME SessionsTyped, NEW p \in TokenPairs \ (given \cup unsure), p \notin given' \cup unsure',
         KeptFor(p), NEW c \in TokenCalls, CallSteps(c)
  PROVE  KeptFor(p)'
<1>1. CASE \E op \in Ending \cup {"bind"}, o \in TokenPairs : Call(c, op, o)
  <2>1. OthersRest(c) /\ tokenCall'[c].new = 0
    BY <1>1, CallIs
  <2>3. p # 0
    BY DEF TokenPairs
  <2>2. UNCHANGED <<accessRow, refreshRows, delivered>>
    BY <1>1 DEF Call, tables
  <2> QED BY <2>1, <2>2, <2>3, KeptBy
<1>2. CASE tokenCall[c].pc = "find" /\ Refused(c)
  <2>0. Over(c)
    BY <1>2 DEF Refused
  <2>1. OthersRest(c) /\ tokenCall'[c].new = 0
    BY <2>0, OverIs
  <2>3. p # 0
    BY DEF TokenPairs
  <2>2. UNCHANGED <<accessRow, refreshRows, delivered>>
    BY <1>2 DEF Refused, tables
  <2> QED BY <2>1, <2>2, <2>3, KeptBy
<1>3. ASSUME NEW q, NEW seen, Refreshes(c, q, seen)
      PROVE  KeptFor(p)'
  <2> DEFINE o == PairOf(c)
             todo == RefreshWork(o, q, seen)
  <2>1. /\ o \in TokenPairs /\ q \in TokenPairs /\ seen \in BOOLEAN /\ o # q /\ Go(c, {o}, q, todo)
    BY <1>3, FoundPair DEF Refreshes
  <2>2. ForRefresh(todo, o, q, seen)
    BY <2>1, RefreshWorkIs
  <2> HIDE DEF todo, o
  <2>3. /\ Listed(todo, <<"setRefresh", q, First>>) /\ Listed(todo, <<"setAccess", q, First>>)
        /\ Behind(todo, <<"unsetRefresh", q, First>>, <<"setRefresh", q, First>>)
        /\ Behind(todo, <<"unsetAccess", q, First>>, <<"setAccess", q, First>>)
        /\ todo \in Seq(Statements)
    BY <2>1, <2>2 DEF ForRefresh
  <2>4. {o} \in SUBSET TokenPairs /\ q \in {0} \cup TokenPairs
    BY <2>1
  <2> QED BY <2>1, <2>3, <2>4, GoKept
<1>4. ASSUME NEW seen, LogsOut(c, seen)
      PROVE  KeptFor(p)'
  <2>1. /\ PairOf(c) \in TokenPairs /\ LogoutWork(PairOf(c), seen) \in Seq(Statements)
        /\ Go(c, {PairOf(c)}, 0, LogoutWork(PairOf(c), seen))
    BY <1>4, FoundPair, LogoutWorkIs DEF LogsOut
  <2>2. {PairOf(c)} \in SUBSET TokenPairs /\ 0 \in {0} \cup TokenPairs /\ p # 0
    BY <2>1 DEF TokenPairs
  <2> QED BY <2>1, <2>2, GoKept
<1>5. ASSUME NEW seen, Rebinds(c, seen)
      PROVE  KeptFor(p)'
  <2>1. PairOf(c) \in TokenPairs /\ Go(c, {}, 0, BindWork(c, PairOf(c), seen))
    BY <1>5, FoundPair DEF Rebinds
  <2>2. BindWork(c, PairOf(c), seen) \in Seq(Statements)
    BY <2>1, SaveTokenSessionIs, SaveAccessIs DEF BindWork, RefreshRows
  <2>3. {} \in SUBSET TokenPairs /\ 0 \in {0} \cup TokenPairs /\ p # 0
    BY DEF TokenPairs
  <2> QED BY <2>1, <2>2, <2>3, GoKept
<1>6. ASSUME NEW todo, LogsAllOut(c, todo)
      PROVE  KeptFor(p)'
  <2>1. Go(c, Active, 0, todo) /\ todo \in Seq(Statements)
    BY <1>6 DEF LogsAllOut
  <2>2. Active \in SUBSET TokenPairs /\ 0 \in {0} \cup TokenPairs /\ p # 0
    BY DEF Active, TokenPairs
  <2> QED BY <2>1, <2>2, GoKept
<1>7. CASE Statement(c) \/ StatementFails(c) \/ InsertFails(c) \/ Report(c)
  BY <1>7, StatementKept, StatementFailsKept, InsertFailsKept, ReportKept
<1> QED BY <1>1, <1>2, <1>3, <1>4, <1>5, <1>6, <1>7 DEF CallSteps

\* A lost copy and an expired token keep the other pairs.
LEMMA PairStepKept ==
  ASSUME SessionsTyped, NEW p \in TokenPairs \ (given' \cup unsure'), KeptFor(p),
         NEW o \in TokenPairs, CopyLost(o) \/ RowExpires(o)
  PROVE  KeptFor(p)'
<1>1. p # o /\ UNCHANGED <<tokenCall, refreshRows, delivered>>
  BY DEF CopyLost, RowExpires
<1>2. accessRow'[p] = accessRow[p]
  BY <1>1 DEF CopyLost, RowExpires, Put, SessionsTyped, TokenTypeOK
<1> QED BY <1>1, <1>2 DEF KeptFor, Sets, Todo, Will, WillRow

\* What was given or unsure stays so.
LEMMA GivenStays ==
  ASSUME SessionsTyped, [TokenNext]_tokenVars
  PROVE  given \subseteq given' /\ unsure \subseteq unsure'
<1>1. ASSUME NEW c \in TokenCalls, CallSteps(c)
      PROVE  given \subseteq given' /\ unsure \subseteq unsure'
  BY <1>1 DEF CallSteps, Call, Refused, Refreshes, LogsOut, Rebinds, LogsAllOut, LookedUp, Go,
              Statement, StatementFails, InsertFails, Report
<1>2. ASSUME NEW p \in TokenPairs, CopyLost(p) \/ RowExpires(p)
      PROVE  given \subseteq given' /\ unsure \subseteq unsure'
  BY <1>2 DEF CopyLost, RowExpires
<1> QED BY <1>1, <1>2, TokenSteps DEF tokenVars

\* The first pairs are good.
LEMMA TokensInitiallyKept ==
  ASSUME TokenInit, NEW p \in TokenPairs
  PROVE  KeptFor(p)
<1>1. \A c \in TokenCalls : tokenCall[c].new = 0
  BY DEF TokenInit, Ready
<1>2. p \in 1..Devices => p <= Devices
  BY TokenAssumption
<1> QED BY <1>1, <1>2 DEF TokenInit, KeptFor, TokenPairs

\* A pair a client was told of stays good whatever happens to the other pairs
\* (PairKept), whatever the number of devices, pairs, calls and failures.
THEOREM PairKeptHolds == TokenSpec => []PairKept
<1> DEFINE Kept == \A p \in TokenPairs \ (given \cup unsure) : KeptFor(p)
<1>1. TokenInit => Kept
  BY TokensInitiallyKept
<1>2. SessionsTyped /\ Kept /\ [TokenNext]_tokenVars => Kept'
  <2> SUFFICES ASSUME SessionsTyped, Kept, [TokenNext]_tokenVars,
                      NEW p \in TokenPairs \ (given' \cup unsure')
               PROVE  KeptFor(p)'
    OBVIOUS
  <2>1. p \in TokenPairs \ (given \cup unsure) /\ KeptFor(p) /\ p \notin given' \cup unsure'
    BY GivenStays
  <2>2. CASE UNCHANGED tokenVars
    BY <2>1, <2>2 DEF tokenVars, tables, KeptFor, Sets, Todo, Will, WillRow
  <2> HIDE DEF Kept
  <2>3. CASE \E c \in TokenCalls : CallSteps(c)
    BY <2>1, <2>3, CallStepKept
  <2>4. CASE \E o \in TokenPairs : CopyLost(o) \/ RowExpires(o)
    BY <2>1, <2>4, PairStepKept
  <2> QED BY <2>2, <2>3, <2>4, TokenSteps
<1>3. SessionsTyped /\ Kept => PairKept
  BY DEF KeptFor, PairKept, SessionsTyped, TokenTypeOK, AccessAccepted, RefreshAccepted
<1> QED BY <1>1, <1>2, <1>3, SessionsKeepType, PTL DEF TokenSpec

----------------------------------------------------------------------------
\* A pair whose end was reported stays out.

\* A step leaves a pair as it is, or lets its access token expire, and leaves
\* to each call what it does with the pair.
Undisturbed(p) ==
  /\ refreshCopy'[p] = refreshCopy[p] /\ refreshRows'[p] \subseteq refreshRows[p]
  /\ accessRow'[p] \in {accessRow[p], "revoked"}
  /\ \/ accessCopy'[p] = accessCopy[p]
     \/ ~accessCopy'[p] /\ accessRow'[p] # "active"
SameFor(d, p) ==
  /\ p \in Ends(d)' <=> p \in Ends(d)
  /\ Makes(d, p)' <=> Makes(d, p)
  /\ Makes(d, p) => (Binds(d, p)' <=> Binds(d, p))
  /\ \A n, r : WillRow(d, n, p, r)' <=> WillRow(d, n, p, r)
  /\ \A n : Will(d, n, p)' <=> Will(d, n, p)
  /\ Behind(Todo(d), <<"setAccess", p, First>>, <<"copyAccess", p, First>>) =>
       Behind(Todo(d)', <<"setAccess", p, First>>, <<"copyAccess", p, First>>)
  /\ \A r : Behind(Todo(d), <<"setRefresh", p, r>>, <<"unsetAccess", p, First>>) =>
              Behind(Todo(d)', <<"setRefresh", p, r>>, <<"unsetAccess", p, First>>)
  /\ Ahead(Todo(d), <<"lookRefresh", p, First>>, <<"dropRefresh", p, First>>) =>
       Ahead(Todo(d)', <<"lookRefresh", p, First>>, <<"dropRefresh", p, First>>)

\* Such a step leaves a call that will see to all of a pair so.
LEMMA KillsQuiet ==
  ASSUME NEW p, NEW d, Undisturbed(p), SameFor(d, p), Kills(d, p)
  PROVE  Kills(d, p)'
  BY DEF Undisturbed, SameFor, Kills

\* It leaves a call that deletes thoroughly so.
LEMMA ThoroughQuiet ==
  ASSUME NEW p, NEW d, Undisturbed(p), SameFor(d, p), Thorough(d, p)
  PROVE  Thorough(d, p)'
<1>1. Will(d, "dropRefresh", p)' /\ refreshCopy'[p] => Kills(d, p)'
  BY KillsQuiet DEF Thorough, Undisturbed, SameFor
<1>2. Will(d, "lookAccess", p)' /\ accessCopy'[p] =>
        /\ Will(d, "dropAccess", p)' /\ Will(d, "revokeAccess", p)'
        /\ Will(d, "dropRefresh", p)' /\ Will(d, "revokeRefresh", p)'
  BY DEF Thorough, Undisturbed, SameFor
<1>3. \/ ~Will(d, "lookRefresh", p)' \/ ~refreshCopy'[p] \/ ~accessCopy'[p]
      \/ Will(d, "dropAccess", p)' \/ Ahead(Todo(d)', <<"lookRefresh", p, First>>, <<"dropRefresh", p, First>>)
  BY DEF Thorough, Undisturbed, SameFor
<1> QED BY <1>1, <1>2, <1>3 DEF Thorough

\* It leaves a call that makes a pair with what it has still to do for it.
LEMMA MakingQuiet ==
  ASSUME NEW p, NEW d \in TokenCalls, Undisturbed(p), \A e \in TokenCalls : SameFor(e, p),
         p \in ended' => p \in ended, Makes(d, p), Making(d, p)
  PROVE  Making(d, p)'
<1>1. p \notin ended' /\ \A e \in TokenCalls : p \notin Ends(e)'
  BY DEF Making, SameFor
<1>2. Whole(p) => Whole(p)'
  BY DEF Whole, Undisturbed
<1>3. Finishes(d, p) => Finishes(d, p)'
  BY DEF Finishes, Undisturbed, SameFor
<1>4. \A r \in RefreshRows : Behind(Todo(d)', <<"setRefresh", p, r>>, <<"unsetAccess", p, First>>)
  BY DEF Making, SameFor
<1>5. Binds(d, p)' <=> Binds(d, p)
  BY DEF SameFor
<1> QED BY <1>1, <1>2, <1>3, <1>4, <1>5 DEF Making

\* It leaves the access row tied to its refresh row.
LEMMA TiedQuiet ==
  ASSUME NEW p, Undisturbed(p), \A d \in TokenCalls : SameFor(d, p),
         p \in delivered' <=> p \in delivered, Tied(p)
  PROVE  Tied(p)'
<1>1. accessRow'[p] = "active" => accessRow[p] = "active"
  BY DEF Undisturbed
<1>2. \A c \in TokenCalls : Makes(c, p) /\ Will(c, "unsetAccess", p) =>
                             Makes(c, p)' /\ Will(c, "unsetAccess", p)'
  BY DEF SameFor
<1>3. refreshRows[p] \subseteq {First} => refreshRows'[p] \subseteq {First}
  BY DEF Undisturbed
<1>4. accessRow[p] # "none" => accessRow'[p] # "none"
  BY DEF Undisturbed
<1> QED BY <1>1, <1>2, <1>3, <1>4 DEF Tied

\* It keeps the invariant for that pair.
LEMMA OutQuiet ==
  ASSUME NEW p, OutFor(p), Undisturbed(p), \A d \in TokenCalls : SameFor(d, p),
         p \in delivered' <=> p \in delivered, p \in ended' => p \in ended
  PROVE  OutFor(p)'
<1>1. Whole(p) => Whole(p)'
  BY DEF Whole, Undisturbed
<1>2. Dying(p) => Dying(p)'
  <2>1. Dead(p) => Dead(p)'
    BY DEF Dead, Undisturbed
  <2>2. ASSUME NEW d \in TokenCalls, Kills(d, p)
        PROVE  Kills(d, p)'
    BY <2>2, KillsQuiet
  <2> QED BY <2>1, <2>2 DEF Dying
<1>3. ASSUME NEW d \in TokenCalls, p \in Ends(d)'
      PROVE  Dying(p)' /\ Thorough(d, p)'
  <2>1. p \in Ends(d)
    BY <1>3 DEF SameFor
  <2> QED BY <1>2, <2>1, ThoroughQuiet DEF OutFor
<1>4. ASSUME NEW d \in TokenCalls, Makes(d, p)'
      PROVE  Making(d, p)'
  <2>1. Makes(d, p)
    BY <1>4 DEF SameFor
  <2> QED BY <2>1, MakingQuiet DEF OutFor
<1>5. Tied(p)'
  BY TiedQuiet DEF OutFor
<1> QED BY <1>1, <1>2, <1>3, <1>4, <1>5 DEF OutFor

\* The other calls do the same as before.
LEMMA SameCalls ==
  ASSUME NEW c, OthersRest(c), NEW p, NEW d \in TokenCalls, d # c
  PROVE  SameFor(d, p)
  BY Resting DEF SameFor

\* So does a call that has nothing to do with the pair.
LEMMA IdleSame ==
  ASSUME NEW c, NEW p, p \notin Ends(c), p \notin Ends(c)', ~Makes(c, p), ~Makes(c, p)',
         \A n, r : ~WillRow(c, n, p, r) /\ ~WillRow(c, n, p, r)'
  PROVE  SameFor(c, p)
<1>1. /\ \A r : ~Listed(Todo(c)', <<"setRefresh", p, r>>)
      /\ ~Listed(Todo(c)', <<"setAccess", p, First>>) /\ ~Listed(Todo(c)', <<"dropRefresh", p, First>>)
  BY DEF WillRow
<1>2. /\ Behind(Todo(c)', <<"setAccess", p, First>>, <<"copyAccess", p, First>>)
      /\ \A r : Behind(Todo(c)', <<"setRefresh", p, r>>, <<"unsetAccess", p, First>>)
      /\ Ahead(Todo(c)', <<"lookRefresh", p, First>>, <<"dropRefresh", p, First>>)
  BY <1>1 DEF Behind, Ahead, Listed
<1> QED BY <1>2 DEF SameFor, Will

\* A call is over, or fails, when it has nothing to delete of a pair and will
\* not revoke its access row, and no client is told of the pair that it makes,
\* or it has made all of it.
LEMMA OutCallOver ==
  ASSUME SessionsTyped, NEW p \in TokenPairs, OutFor(p), NEW c \in TokenCalls, Over(c) \/ Fails(c),
         UNCHANGED <<accessRow, refreshRows, accessCopy, refreshCopy>>,
         ~Will(c, "unsetAccess", p),
         p \in Ends(c) => \A n, r : ~WillRow(c, n, p, r),
         delivered \subseteq delivered',
         p \in delivered' => \/ p \in delivered
                             \/ Makes(c, p) /\ ~Binds(c, p) /\ \A n, r : ~WillRow(c, n, p, r),
         p \in ended' => p \in ended \cup Ends(c)
  PROVE  OutFor(p)'
<1>1. /\ OthersRest(c) /\ Ends(c)' = {} /\ ~Makes(c, p)'
      /\ \A d \in TokenCalls : d # c => SameFor(d, p)
  BY OverIs, SameCalls DEF Makes, Works
<1>2. Undisturbed(p)
  BY DEF Undisturbed
<1>3. Whole(p) => Whole(p)'
  BY DEF Whole
<1>4. Dying(p) => Dying(p)'
  <2>1. Dead(p) => Dead(p)'
    BY DEF Dead
  <2>2. ASSUME NEW d \in TokenCalls, Kills(d, p)
        PROVE  Dying(p)'
    <3>1. CASE d = c
      <4>1. \A n, r : ~WillRow(c, n, p, r)
        BY <2>2, <3>1 DEF Kills
      <4>2. \A n : ~Will(c, n, p)
        BY <4>1 DEF Will
      <4>3. refreshRows[p] = {}
        BY <2>2, <3>1, <4>1, <4>2 DEF Kills
      <4>4. Dead(p)
        BY <2>2, <3>1, <4>2, <4>3 DEF Kills, Dead
      <4> QED BY <2>1, <4>4 DEF Dying
    <3>2. CASE d # c
      BY <1>1, <1>2, <2>2, <3>2, KillsQuiet DEF Dying
    <3> QED BY <3>1, <3>2
  <2> QED BY <2>1, <2>2 DEF Dying
<1>5. p \in delivered' => (Whole(p)' \/ Dying(p)') /\ accessRow'[p] # "none"
  <2>1. CASE p \in delivered
    BY <1>3, <1>4, <2>1 DEF OutFor, Tied
  <2>2. CASE Makes(c, p) /\ ~Binds(c, p) /\ \A n, r : ~WillRow(c, n, p, r)
    <3>1. Finishes(c, p) /\ \A n : ~Will(c, n, p)
      BY <2>2 DEF OutFor, Making, Will
    <3>2. Whole(p) /\ accessRow[p] # "none"
      BY <3>1 DEF Finishes, Whole
    <3> QED BY <1>3, <3>2
  <2> QED BY <2>1, <2>2
<1>6. p \in ended' => Dying(p)'
  BY <1>4 DEF OutFor
<1>7. ASSUME NEW d \in TokenCalls, p \in Ends(d)'
      PROVE  Dying(p)' /\ Thorough(d, p)'
  <2>1. d # c /\ p \in Ends(d)
    BY <1>1, <1>7 DEF SameFor
  <2> QED BY <1>1, <1>2, <1>4, <2>1, ThoroughQuiet DEF OutFor
<1>8. ASSUME NEW d \in TokenCalls, Makes(d, p)'
      PROVE  Making(d, p)'
  <2>1. d # c /\ Makes(d, p)
    BY <1>1, <1>8 DEF SameFor
  <2>2. Making(d, p) /\ SameFor(d, p)
    BY <1>1, <2>1 DEF OutFor
  <2>3. p \notin ended' /\ \A e \in TokenCalls : p \notin Ends(e)'
    BY <1>1, <2>2 DEF Making, SameFor
  <2>4. Finishes(d, p) => Finishes(d, p)'
    BY <2>2 DEF Finishes, SameFor
  <2>5. Binds(d, p)' <=> Binds(d, p)
    BY <2>1, <2>2 DEF SameFor
  <2>6. \A r \in RefreshRows : Behind(Todo(d)', <<"setRefresh", p, r>>, <<"unsetAccess", p, First>>)
    BY <2>2 DEF Making, SameFor
  <2> QED BY <1>3, <2>2, <2>3, <2>4, <2>5, <2>6 DEF Making
<1>9. Tied(p)'
  <2>1. \A d \in TokenCalls : Makes(d, p) /\ Will(d, "unsetAccess", p) =>
                               Makes(d, p)' /\ Will(d, "unsetAccess", p)'
    BY <1>1 DEF SameFor
  <2> QED BY <1>5, <2>1 DEF OutFor, Tied
<1> QED BY <1>5, <1>6, <1>7, <1>8, <1>9 DEF OutFor

\* What statements do to the places of a pair.
Falls(name, r, p) ==
  /\ refreshCopy'[p] = TRUE => refreshCopy[p] = TRUE /\ name # "dropRefresh"
  /\ refreshRows'[p] \subseteq refreshRows[p]
  /\ name = "revokeRefresh" => refreshRows'[p] = {}
  /\ name = "revokeRow" => r \notin refreshRows'[p]
  /\ accessRow'[p] = "active" =>
       /\ accessRow[p] = "active" /\ name \notin {"revokeAccess", "revokeItsAccess"}
       /\ ~(name = "revokeRowsAccess" /\ r = First)
  /\ accessRow'[p] = "none" => accessRow[p] = "none"
  /\ accessCopy'[p] = TRUE => accessCopy[p] = TRUE /\ name # "dropAccess"
  /\ name # "dropRefresh" => refreshCopy'[p] = refreshCopy[p]

\* A deletion sets no place, and clears the one it names.
LEMMA DeletionFalls ==
  ASSUME SessionsTyped, NEW c \in TokenCalls, NEW name \in StatementNames \ Saving,
         NEW p \in TokenPairs, NEW r \in RefreshRows, Done(c, name, p, r)
  PROVE  Falls(name, r, p)
<1>1. /\ accessRow \in [TokenPairs -> AccessRows] /\ refreshRows \in [TokenPairs -> SUBSET RefreshRows]
      /\ accessCopy \in [TokenPairs -> BOOLEAN] /\ refreshCopy \in [TokenPairs -> BOOLEAN]
  BY DEF SessionsTyped, TokenTypeOK
<1>2. /\ accessRow'[p] = RowAfter(name, r, accessRow[p])
      /\ refreshRows'[p] = RowsAfter(name, r, refreshRows[p])
      /\ accessCopy'[p] = AccessCopyAfter(name, accessCopy[p])
      /\ refreshCopy'[p] = RefreshCopyAfter(name, refreshCopy[p])
  BY <1>1 DEF Done
<1>3. name \notin Saving
  OBVIOUS
<1>4. /\ RowAfter(name, r, accessRow[p]) = "active" =>
           /\ accessRow[p] = "active" /\ name \notin {"revokeAccess", "revokeItsAccess"}
           /\ ~(name = "revokeRowsAccess" /\ r = First)
      /\ RowAfter(name, r, accessRow[p]) = "none" => accessRow[p] = "none"
  BY <1>3 DEF RowAfter, Saving
<1>5. /\ RowsAfter(name, r, refreshRows[p]) \subseteq refreshRows[p]
      /\ name = "revokeRefresh" => RowsAfter(name, r, refreshRows[p]) = {}
      /\ name = "revokeRow" => r \notin RowsAfter(name, r, refreshRows[p])
  BY <1>3 DEF RowsAfter, Saving
<1>6. AccessCopyAfter(name, accessCopy[p]) = TRUE => accessCopy[p] = TRUE /\ name # "dropAccess"
  BY <1>3 DEF AccessCopyAfter, Saving
<1>7. /\ RefreshCopyAfter(name, refreshCopy[p]) = TRUE => refreshCopy[p] = TRUE /\ name # "dropRefresh"
      /\ name # "dropRefresh" => RefreshCopyAfter(name, refreshCopy[p]) = refreshCopy[p]
  BY <1>3 DEF RefreshCopyAfter, Saving
<1> QED BY <1>2, <1>4, <1>5, <1>6, <1>7 DEF Falls

\* What a call has still to do with the pair it does a deletion for.
Progress(c, name, p, r) ==
  /\ Ends(c)' = Ends(c)
  /\ \A n, s : WillRow(c, n, p, s) /\ ~(n = name /\ s = r) => WillRow(c, n, p, s)'
  /\ \A n : Will(c, n, p) /\ ~(n = name /\ r = First) => Will(c, n, p)'
  /\ \A n : Will(c, n, p)' =>
       \/ Will(c, n, p)
       \/ n = "dropRefresh" /\ name = "lookAccess" /\ accessCopy[p]
       \/ n \in {"dropAccess", "revokeRow"}
  /\ name = "lookRefresh" /\ refreshCopy[p] => Will(c, "dropAccess", p)'
  /\ ~Will(c, "lookAccess", p)'
  /\ (/\ name # "lookRefresh" /\ ~(name = "lookAccess" /\ accessCopy[p])
      /\ Ahead(Todo(c), <<"lookRefresh", p, First>>, <<"dropRefresh", p, First>>)) =>
       Ahead(Todo(c)', <<"lookRefresh", p, First>>, <<"dropRefresh", p, First>>)

\* A statement takes itself off the list, and may add a deletion.
LEMMA DoneProgress ==
  ASSUME SessionsTyped, NEW c \in TokenCalls, NEW name \in StatementNames, NEW p \in TokenPairs,
         NEW r \in RefreshRows, Done(c, name, p, r)
  PROVE  Progress(c, name, p, r)
<1>1. Left(c, name, p, r, Adds(name, p))
  BY DoneLeft
<1>2. \A n, q, s : Adds(name, p) = <<<<n, q, s>>>> =>
        /\ n \in {"dropRefresh", "dropAccess", "revokeRow"}
        /\ n = "dropRefresh" => name = "lookAccess" /\ accessCopy[p]
  <2>1. ASSUME NEW n, NEW q, NEW s, Adds(name, p) = <<<<n, q, s>>>>
        PROVE  /\ n \in {"dropRefresh", "dropAccess", "revokeRow"}
               /\ n = "dropRefresh" => name = "lookAccess" /\ accessCopy[p]
    <3>1. q = p /\ s = First /\ n \in {"dropRefresh", "dropAccess", "revokeRow"}
      BY <2>1, AddsIs
    <3> QED BY <2>1, <3>1, AddsIs
  <2> QED BY <2>1
<1>3. name = "lookRefresh" /\ refreshCopy[p] => Will(c, "dropAccess", p)'
  BY <1>1, AddsIs DEF Left, Will
<1>4. \A n : Will(c, n, p)' =>
        \/ Will(c, n, p)
        \/ n = "dropRefresh" /\ name = "lookAccess" /\ accessCopy[p]
        \/ n \in {"dropAccess", "revokeRow"}
  BY <1>1, <1>2 DEF Left, Will
<1>5. ~(name = "lookAccess" /\ accessCopy[p]) => Adds(name, p) # <<<<"dropRefresh", p, First>>>>
  BY <1>2
<1>6. name # "lookRefresh" => <<"lookRefresh", p, First>> # <<name, p, r>>
  OBVIOUS
<1>7. \A n : Will(c, n, p) /\ ~(n = name /\ r = First) => Will(c, n, p)'
  BY <1>1 DEF Left, Will
<1> QED BY <1>1, <1>3, <1>4, <1>5, <1>6, <1>7 DEF Left, Progress, Will

\* A call that sees to all of a pair still does after its own deletion.
LEMMA KillsOn ==
  ASSUME NEW c \in TokenCalls, NEW p, NEW r, NEW name \in StatementNames, Kills(c, p),
         Falls(name, r, p), Progress(c, name, p, r),
         name = "dropRefresh" /\ refreshCopy[p] => ~accessCopy[p] \/ Will(c, "dropAccess", p)
  PROVE  Kills(c, p)'
<1>1. \/ ~accessCopy'[p] \/ Will(c, "dropAccess", p)'
      \/ refreshCopy'[p] /\ Will(c, "lookRefresh", p)'
  <2>1. CASE ~accessCopy[p]
    BY <2>1 DEF Falls
  <2>2. CASE Will(c, "dropAccess", p)
    BY <2>2 DEF Falls, Progress
  <2>3. CASE refreshCopy[p] /\ Will(c, "lookRefresh", p) /\ name # "dropRefresh"
    BY <2>3 DEF Falls, Progress
  <2> QED BY <2>1, <2>2, <2>3 DEF Kills
<1>2. \/ accessRow'[p] # "active" \/ Will(c, "revokeAccess", p)'
      \/ Will(c, "revokeItsAccess", p)' \/ Will(c, "revokeRowsAccess", p)'
  BY DEF Kills, Falls, Progress
<1>3. ~refreshCopy'[p] \/ Will(c, "dropRefresh", p)'
  BY DEF Kills, Falls, Progress
<1>4. Will(c, "revokeRefresh", p)' \/ \A s \in refreshRows'[p] : WillRow(c, "revokeRow", p, s)'
  <2>1. CASE name = "revokeRefresh"
    BY <2>1 DEF Falls
  <2>2. CASE name # "revokeRefresh" /\ Will(c, "revokeRefresh", p)
    BY <2>2 DEF Progress
  <2>3. CASE \A s \in refreshRows[p] : WillRow(c, "revokeRow", p, s)
    <3>1. \A s \in refreshRows'[p] : s \in refreshRows[p] /\ ~("revokeRow" = name /\ s = r)
      BY DEF Falls
    <3> QED BY <2>3, <3>1 DEF Progress
  <2> QED BY <2>1, <2>2, <2>3 DEF Kills
<1>5. p \in Ends(c)'
  BY DEF Kills, Progress
<1> QED BY <1>1, <1>2, <1>3, <1>4, <1>5 DEF Kills

\* And after one of another call, unless that call takes the copy it looks for.
LEMMA KillsBeside ==
  ASSUME NEW d, NEW p, NEW r, NEW name, Kills(d, p), Falls(name, r, p), SameFor(d, p),
         name = "dropRefresh" => ~refreshCopy[p]
  PROVE  Kills(d, p)'
<1>1. refreshCopy'[p] = TRUE <=> refreshCopy[p] = TRUE
  BY DEF Falls
<1> QED BY <1>1 DEF Kills, Falls, SameFor

\* Nothing is ahead of the first statement.
LEMMA HeadNotAfter ==
  ASSUME SessionsTyped, NEW c \in TokenCalls, NEW y, Todo(c) # <<>>, Head(Todo(c)) = y, NEW x
  PROVE  ~Ahead(Todo(c), x, y)
<1>1. Todo(c) \in Seq(Statements)
  BY CallFields
<1>2. DOMAIN Todo(c) = 1..Len(Todo(c)) /\ Len(Todo(c)) \in Nat /\ 1 \in DOMAIN Todo(c)
      /\ Todo(c)[1] = y
  BY <1>1
<1> QED BY <1>2 DEF Ahead

\* A deletion keeps the invariant for its pair.
LEMMA DeletionOut ==
  ASSUME SessionsTyped, NEW p \in TokenPairs \ unsure, OutFor(p), NEW c \in TokenCalls,
         NEW name \in StatementNames \ Saving, NEW r \in RefreshRows, Done(c, name, p, r)
  PROVE  OutFor(p)'
<1>1. Falls(name, r, p) /\ Progress(c, name, p, r)
  BY DeletionFalls, DoneProgress
<1>2. OthersRest(c) /\ WillRow(c, name, p, r)
  BY DoneLeft DEF Left
<1>3. /\ \A d \in TokenCalls : d # c => SameFor(d, p)
      /\ \A d \in TokenCalls : p \in Ends(d)' <=> p \in Ends(d)
      /\ UNCHANGED <<delivered, ended>>
  BY <1>1, <1>2, SameCalls DEF Done, Progress, SameFor
<1>4. p \in Ends(c) /\ Thorough(c, p) /\ Dying(p)
  <2>1. Task(c)
    BY DEF SessionsTyped
  <2>2. p \in Ends(c)
    BY <1>2, <2>1 DEF Task
  <2> QED BY <2>2 DEF OutFor
<1>5. \A d \in TokenCalls : ~Makes(d, p)
  BY <1>4 DEF OutFor, Making
<1>6. \A d \in TokenCalls : ~Makes(d, p)'
  <2>1. tokenCall'[c].pc = tokenCall[c].pc /\ tokenCall'[c].op = tokenCall[c].op
        /\ tokenCall'[c].pair = tokenCall[c].pair /\ tokenCall'[c].new = tokenCall[c].new
    BY DoneLeft DEF Left
  <2>2. ~Makes(c, p)'
    BY <1>5, <2>1 DEF Makes, Works, Binds
  <2> QED BY <1>3, <1>5, <2>2 DEF SameFor
<1>0. name \in {"lookAccess", "lookRefresh", "dropRefresh"} => r = First /\ Will(c, name, p)
  <2>1. name \in {"setRefresh", "revokeRow", "revokeRowsAccess"} \/ r = First
    BY HeadIs DEF Done
  <2> QED BY <1>2, <2>1 DEF Will
<1>7. name = "dropRefresh" /\ refreshCopy[p] =>
        Kills(c, p) /\ (~accessCopy[p] \/ Will(c, "dropAccess", p)
                        \/ ~Will(c, "lookRefresh", p))
  <2> SUFFICES ASSUME name = "dropRefresh", refreshCopy[p]
               PROVE  /\ Kills(c, p)
                      /\ ~accessCopy[p] \/ Will(c, "dropAccess", p) \/ ~Will(c, "lookRefresh", p)
    OBVIOUS
  <2>1. Kills(c, p)
    BY <1>0, <1>4 DEF Thorough
  <2>2. ~Ahead(Todo(c), <<"lookRefresh", p, First>>, <<"dropRefresh", p, First>>)
    BY <1>0, HeadNotAfter DEF Done
  <2> QED BY <1>4, <2>1, <2>2 DEF Thorough
<1>8. name = "dropRefresh" /\ refreshCopy[p] =>
        Kills(c, p) /\ (~accessCopy[p] \/ Will(c, "dropAccess", p))
  BY <1>7 DEF Kills
<1>9. Kills(c, p) => Kills(c, p)'
  BY <1>1, <1>8, KillsOn
<1>10. Dying(p)'
  <2>1. CASE Dead(p)
    <3>1. Dead(p)'
      BY <1>1, <2>1 DEF Dead, Falls
    <3> QED BY <3>1 DEF Dying
  <2>2. CASE Kills(c, p)
    BY <1>9, <2>2 DEF Dying
  <2>3. ASSUME NEW d \in TokenCalls, d # c, Kills(d, p), ~Kills(c, p)
        PROVE  Dying(p)'
    <3>1. Kills(d, p)'
      BY <1>1, <1>3, <1>8, <2>3, KillsBeside
    <3> QED BY <3>1 DEF Dying
  <2> QED BY <1>4, <2>1, <2>2, <2>3 DEF Dying
<1>11. Thorough(c, p)'
  <2>1. refreshCopy'[p] = TRUE => refreshCopy[p] = TRUE
    BY <1>1 DEF Falls
  <2>2. Will(c, "dropRefresh", p)' /\ refreshCopy'[p] => Kills(c, p)'
    <3>1. Will(c, "dropRefresh", p)' => Will(c, "dropRefresh", p)
      BY <1>0, <1>1, <1>4 DEF Progress, Thorough
    <3> QED BY <1>4, <1>9, <2>1, <3>1 DEF Thorough
  <2>3. \/ ~Will(c, "lookRefresh", p)' \/ ~refreshCopy'[p] \/ ~accessCopy'[p]
        \/ Will(c, "dropAccess", p)' \/ Ahead(Todo(c)', <<"lookRefresh", p, First>>, <<"dropRefresh", p, First>>)
    <3>1. CASE ~Will(c, "lookRefresh", p)
      BY <1>1, <3>1 DEF Progress
    <3>2. CASE ~refreshCopy[p]
      BY <2>1, <3>2
    <3>3. CASE ~accessCopy[p]
      BY <1>1, <3>3 DEF Falls
    <3>4. CASE Will(c, "dropAccess", p)
      BY <1>1, <3>4 DEF Falls, Progress
    <3>5. CASE name = "lookRefresh" /\ refreshCopy[p]
      BY <1>1, <3>5 DEF Progress
    <3>6. CASE name = "lookAccess" /\ accessCopy[p]
      BY <1>0, <1>4, <3>4, <3>6 DEF Thorough
    <3>7. CASE /\ name # "lookRefresh" /\ ~(name = "lookAccess" /\ accessCopy[p])
               /\ Ahead(Todo(c), <<"lookRefresh", p, First>>, <<"dropRefresh", p, First>>)
      BY <1>1, <3>7 DEF Progress
    <3> QED BY <1>4, <3>1, <3>2, <3>3, <3>4, <3>5, <3>6, <3>7 DEF Thorough
  <2> QED BY <1>1, <2>2, <2>3 DEF Thorough, Progress
<1>12. ASSUME NEW d \in TokenCalls, d # c, p \in Ends(d)
       PROVE  Thorough(d, p)'
  <2>1. Thorough(d, p) /\ SameFor(d, p)
    BY <1>3, <1>12 DEF OutFor
  <2>2. Will(d, "dropRefresh", p)' /\ refreshCopy'[p] => Kills(d, p)'
    <3>1. refreshCopy'[p] = TRUE => refreshCopy[p] = TRUE /\ name # "dropRefresh"
      BY <1>1 DEF Falls
    <3>2. Will(d, "dropRefresh", p)' /\ refreshCopy'[p] => Kills(d, p) /\ name # "dropRefresh"
      BY <2>1, <3>1 DEF Thorough, SameFor
    <3> QED BY <1>1, <2>1, <3>2, KillsBeside
  <2>3. Will(d, "lookAccess", p)' /\ accessCopy'[p] =>
          /\ Will(d, "dropAccess", p)' /\ Will(d, "revokeAccess", p)'
          /\ Will(d, "dropRefresh", p)' /\ Will(d, "revokeRefresh", p)'
    BY <1>1, <2>1 DEF Thorough, SameFor, Falls
  <2>4. \/ ~Will(d, "lookRefresh", p)' \/ ~refreshCopy'[p] \/ ~accessCopy'[p]
        \/ Will(d, "dropAccess", p)' \/ Ahead(Todo(d)', <<"lookRefresh", p, First>>, <<"dropRefresh", p, First>>)
    BY <1>1, <2>1 DEF Thorough, SameFor, Falls
  <2> QED BY <2>2, <2>3, <2>4 DEF Thorough
<1>13. Tied(p)'
  <2>1. /\ p \in delivered => accessRow[p] # "none"
        /\ p \notin delivered => refreshRows[p] \subseteq {First}
        /\ accessRow[p] = "active" => refreshRows[p] \subseteq {First}
    BY <1>5 DEF OutFor, Tied
  <2>2. /\ refreshRows'[p] \subseteq refreshRows[p]
        /\ accessRow'[p] = "active" => accessRow[p] = "active"
        /\ accessRow'[p] = "none" => accessRow[p] = "none"
    BY <1>1 DEF Falls
  <2> QED BY <1>3, <2>1, <2>2 DEF Tied
<1> QED BY <1>3, <1>6, <1>10, <1>11, <1>12, <1>13 DEF OutFor

\* A pair has one call that makes it, or calls that bind it.
LEMMA MakersOf ==
  ASSUME SessionsTyped, NEW p \in TokenPairs, NEW c \in TokenCalls, NEW d \in TokenCalls,
         Makes(c, p), Makes(d, p)
  PROVE  IF p \in delivered THEN Binds(c, p) /\ Binds(d, p)
         ELSE ~Binds(c, p) /\ d = c /\ tokenCall[c].new = p
<1>1. Role(c) /\ Role(d) /\ p # 0
  BY DEF SessionsTyped, TokenPairs
<1>2. CASE p \in delivered
  BY <1>1, <1>2 DEF Role, Made, Makes
<1>3. CASE p \notin delivered
  <2>1. ~Binds(c, p) /\ ~Binds(d, p)
    BY <1>1, <1>3 DEF Role, Makes, Works, Binds
  <2>2. tokenCall[c].new = p /\ tokenCall[d].new = p /\ Made(c)
    BY <1>1, <2>1 DEF Makes, Made
  <2> QED BY <1>3, <2>1, <2>2 DEF SessionsTyped
<1> QED BY <1>2, <1>3

\* What saving does to the places of a pair.
Fills(name, r, p) ==
  /\ refreshCopy[p] => refreshCopy'[p]
  /\ accessCopy[p] => accessCopy'[p]
  /\ name = "copyRefresh" => refreshCopy'[p]
  /\ name = "copyAccess" => accessCopy'[p]
  /\ accessRow'[p] = "active" =>
       (accessRow[p] = "active" /\ name # "unsetAccess") \/ name = "setAccess"
  /\ accessRow'[p] = "none" => accessRow[p] = "none" /\ name # "setAccess"
  /\ refreshRows'[p] \subseteq refreshRows[p] \cup {r}
  /\ name # "setRefresh" => refreshRows'[p] \subseteq refreshRows[p]

LEMMA SavingFills ==
  ASSUME SessionsTyped, NEW p \in TokenPairs, NEW c \in TokenCalls,
         NEW name \in Saving, NEW r \in RefreshRows, Done(c, name, p, r)
  PROVE  Fills(name, r, p)
<1>1. /\ accessRow'[p] = RowAfter(name, r, accessRow[p])
      /\ refreshRows'[p] = RowsAfter(name, r, refreshRows[p])
      /\ accessCopy'[p] = AccessCopyAfter(name, accessCopy[p])
      /\ refreshCopy'[p] = RefreshCopyAfter(name, refreshCopy[p])
  BY DEF SessionsTyped, TokenTypeOK, Done
<1>2. /\ refreshCopy[p] => RefreshCopyAfter(name, refreshCopy[p])
      /\ name = "copyRefresh" => RefreshCopyAfter(name, refreshCopy[p])
  BY DEF RefreshCopyAfter, Saving
<1>3. /\ accessCopy[p] => AccessCopyAfter(name, accessCopy[p])
      /\ name = "copyAccess" => AccessCopyAfter(name, accessCopy[p])
  BY DEF AccessCopyAfter, Saving
<1>4. /\ RowAfter(name, r, accessRow[p]) = "active" =>
           (accessRow[p] = "active" /\ name # "unsetAccess") \/ name = "setAccess"
      /\ RowAfter(name, r, accessRow[p]) = "none" => accessRow[p] = "none" /\ name # "setAccess"
  BY DEF RowAfter, Saving
<1>5. /\ RowsAfter(name, r, refreshRows[p]) \subseteq refreshRows[p] \cup {r}
      /\ name # "setRefresh" => RowsAfter(name, r, refreshRows[p]) \subseteq refreshRows[p]
  BY DEF RowsAfter, Saving
<1> QED BY <1>1, <1>2, <1>3, <1>4, <1>5 DEF Fills

\* A statement that saves keeps the invariant for its pair.
LEMMA SavingOut ==
  ASSUME SessionsTyped, NEW p \in TokenPairs \ unsure, OutFor(p), NEW c \in TokenCalls,
         NEW name \in Saving, NEW r \in RefreshRows, Done(c, name, p, r)
  PROVE  OutFor(p)'
<1>1. name \in StatementNames /\ Fills(name, r, p)
  BY SavingFills DEF StatementNames
<1>2. Left(c, name, p, r, Adds(name, p))
  BY <1>1, DoneLeft
<1>3. /\ OthersRest(c) /\ WillRow(c, name, p, r) /\ Ends(c)' = Ends(c)
      /\ \A n, s : WillRow(c, n, p, s) /\ ~(n = name /\ s = r) => WillRow(c, n, p, s)'
      /\ (Makes(c, p)' <=> Makes(c, p)) /\ (Binds(c, p)' <=> Binds(c, p))
      /\ \A d \in TokenCalls : d # c => SameFor(d, p)
      /\ UNCHANGED <<delivered, ended>>
      /\ name = "setAccess" => accessRow[p] = "none"
  BY <1>2, SameCalls DEF Left, Makes, Works, Binds, Done
<1>4. /\ Makes(c, p) /\ (r # First => Binds(c, p)) /\ Making(c, p) /\ p \notin ended
      /\ \A d \in TokenCalls : p \notin Ends(d)
  <2>1. Task(c)
    BY DEF SessionsTyped
  <2>2. Saves(c, p, r)
    BY <1>1, <1>3, <2>1 DEF Task
  <2> QED BY <2>2 DEF Saves, OutFor, Making
<1>5. name \in {"setRefresh"} \/ r = First
  BY HeadIs DEF Done, Saving
<1>6. \A n : Will(c, n, p) /\ n # name => Will(c, n, p)'
  BY <1>3 DEF Will
<1>7. \A d \in TokenCalls : p \notin Ends(d)' /\ (Makes(d, p)' <=> Makes(d, p))
  BY <1>3, <1>4 DEF SameFor
<1>8. /\ \A s \in RefreshRows : Behind(Todo(c)', <<"setRefresh", p, s>>, <<"unsetAccess", p, First>>)
      /\ Behind(Todo(c), <<"setAccess", p, First>>, <<"copyAccess", p, First>>) =>
           Behind(Todo(c)', <<"setAccess", p, First>>, <<"copyAccess", p, First>>)
  <2>1. \A x : Adds(name, p) # <<x>>
    <3>1. Adds(name, p) = <<>>
      BY DEF Adds, Saving
    <3> QED BY <3>1
  <2> QED BY <1>2, <1>4, <2>1 DEF Left, Making
<1>9. CASE p \in delivered
  <2>1. \A d \in TokenCalls : Makes(d, p) => Binds(d, p)
    BY <1>4, <1>9, MakersOf
  <2>2. Binds(c, p) /\ Whole(p) /\ accessRow[p] # "none" /\ name # "setAccess"
    BY <1>3, <1>4, <1>9, <2>1 DEF Making, OutFor, Tied
  <2>3. Whole(p)'
    BY <1>1, <2>2 DEF Whole, Fills
  <2>4. ASSUME NEW d \in TokenCalls, Makes(d, p)'
        PROVE  Making(d, p)'
    <3>1. Makes(d, p) /\ Binds(d, p) /\ Making(d, p)
      BY <1>7, <2>1, <2>4 DEF OutFor
    <3>2. Binds(d, p)'
      BY <1>3, <3>1 DEF SameFor
    <3>3. \A s \in RefreshRows : Behind(Todo(d)', <<"setRefresh", p, s>>, <<"unsetAccess", p, First>>)
      BY <1>3, <1>8, <3>1 DEF Making, SameFor
    <3> QED BY <1>3, <1>4, <1>7, <2>3, <3>2, <3>3 DEF Making
  <2>5. Tied(p)'
    <3>1. accessRow'[p] # "none"
      BY <1>1, <2>2 DEF Fills
    <3>2. CASE name = "setRefresh"
      <4>1. Behind(Todo(c), <<"setRefresh", p, r>>, <<"unsetAccess", p, First>>)
        BY <1>4 DEF Making
      <4>2. WillRow(c, "unsetAccess", p, First)
        BY <1>3, <3>2, <4>1 DEF Behind, WillRow, Listed
      <4>3. Will(c, "unsetAccess", p)'
        BY <1>6, <3>2, <4>2 DEF Will
      <4> QED BY <1>3, <1>4, <1>9, <3>1, <4>3 DEF Tied
    <3>3. CASE name = "unsetAccess"
      <4>1. accessRow'[p] # "active"
        BY <1>1, <3>3 DEF Fills
      <4> QED BY <1>3, <1>9, <3>1, <4>1 DEF Tied
    <3>4. CASE name \notin {"setRefresh", "unsetAccess"}
      <4>1. /\ accessRow'[p] = "active" => accessRow[p] = "active"
            /\ refreshRows'[p] \subseteq refreshRows[p]
        BY <1>1, <2>2, <3>4 DEF Fills
      <4>2. \A d \in TokenCalls : Makes(d, p) /\ Will(d, "unsetAccess", p) =>
                                   Makes(d, p)' /\ Will(d, "unsetAccess", p)'
        BY <1>3, <1>6, <1>7, <3>4 DEF SameFor
      <4> QED BY <1>3, <1>9, <3>1, <4>1, <4>2 DEF Tied, OutFor
    <3> QED BY <3>2, <3>3, <3>4
  <2> QED BY <1>3, <1>4, <1>7, <2>3, <2>4, <2>5 DEF OutFor
<1>10. CASE p \notin delivered
  <2>1. ~Binds(c, p) /\ \A d \in TokenCalls : Makes(d, p) => d = c
    BY <1>4, <1>10, MakersOf
  <2>2. Finishes(c, p) /\ r = First
    BY <1>4, <2>1 DEF Making
  <2>3. Finishes(c, p)'
    <3>1. refreshCopy'[p] \/ Will(c, "copyRefresh", p)'
      BY <1>1, <1>6, <2>2 DEF Finishes, Fills
    <3>2. accessRow'[p] # "active" \/ accessCopy'[p] \/ Will(c, "copyAccess", p)'
      <4>1. name = "setAccess" => Will(c, "copyAccess", p)
        BY <1>3, <2>2 DEF Finishes, Behind, Will, WillRow, Listed
      <4> QED BY <1>1, <1>6, <2>2, <4>1 DEF Finishes, Fills
    <3>3. accessRow'[p] # "none" \/ Will(c, "setAccess", p)'
      BY <1>1, <1>6, <2>2 DEF Finishes, Fills
    <3> QED BY <1>8, <2>2, <3>1, <3>2, <3>3 DEF Finishes
  <2>4. ASSUME NEW d \in TokenCalls, Makes(d, p)'
        PROVE  Making(d, p)'
    <3>1. d = c
      BY <1>7, <2>1, <2>4
    <3> QED BY <1>3, <1>4, <1>7, <1>8, <2>1, <2>3, <3>1 DEF Making
  <2>5. Tied(p)'
    <3>1. refreshRows'[p] \subseteq {First}
      BY <1>1, <1>10, <2>2 DEF OutFor, Tied, Fills
    <3> QED BY <1>3, <1>10, <3>1 DEF Tied
  <2> QED BY <1>3, <1>4, <1>7, <1>10, <2>4, <2>5 DEF OutFor
<1> QED BY <1>9, <1>10

\* A call that goes on with another pair does the same for this one.
LEMMA LeftSame ==
  ASSUME SessionsTyped, NEW p \in TokenPairs, NEW c \in TokenCalls, NEW name, NEW o \in TokenPairs,
         NEW r, NEW first, Left(c, name, o, r, first), o # p,
         \A n, s : first # <<<<n, p, s>>>>
  PROVE  \A d \in TokenCalls : SameFor(d, p)
<1>1. \A n, s : <<n, p, s>> # <<name, o, r>>
  OBVIOUS
<1>2. \A n, s : WillRow(c, n, p, s)' <=> WillRow(c, n, p, s)
  BY DEF Left
<1>3. p \in Ends(c)' <=> p \in Ends(c)
  BY DEF Left
<1>4. (Makes(c, p)' <=> Makes(c, p)) /\ (Binds(c, p)' <=> Binds(c, p))
  BY DEF Left, Makes, Works, Binds
<1>5. /\ Behind(Todo(c), <<"setAccess", p, First>>, <<"copyAccess", p, First>>) =>
           Behind(Todo(c)', <<"setAccess", p, First>>, <<"copyAccess", p, First>>)
      /\ \A s : Behind(Todo(c), <<"setRefresh", p, s>>, <<"unsetAccess", p, First>>) =>
                  Behind(Todo(c)', <<"setRefresh", p, s>>, <<"unsetAccess", p, First>>)
      /\ Ahead(Todo(c), <<"lookRefresh", p, First>>, <<"dropRefresh", p, First>>) =>
           Ahead(Todo(c)', <<"lookRefresh", p, First>>, <<"dropRefresh", p, First>>)
  BY <1>1 DEF Left
<1>6. SameFor(c, p)
  BY <1>2, <1>3, <1>4, <1>5 DEF SameFor, Will
<1> QED BY <1>6, SameCalls DEF Left

\* Every statement keeps the invariant.
LEMMA StatementOut ==
  ASSUME SessionsTyped, NEW p \in TokenPairs \ unsure, OutFor(p), NEW c \in TokenCalls, Statement(c)
  PROVE  OutFor(p)'
<1>1. PICK name \in StatementNames, o \in TokenPairs, r \in RefreshRows : Done(c, name, o, r)
  BY StatementIs
<1>2. CASE o = p
  BY <1>1, <1>2, DeletionOut, SavingOut
<1>3. CASE o # p
  <2>1. Left(c, name, o, r, Adds(name, o)) /\ UNCHANGED <<delivered, ended>>
    BY <1>1, DoneLeft DEF Done
  <2>2. Undisturbed(p)
    BY <1>1, <1>3 DEF Undisturbed, Done, SessionsTyped, TokenTypeOK
  <2>3. \A n, s : Adds(name, o) # <<<<n, p, s>>>>
    BY <1>3, AddsIs
  <2>4. \A d \in TokenCalls : SameFor(d, p)
    BY <1>3, <2>1, <2>3, LeftSame
  <2> QED BY <2>1, <2>2, <2>4, OutQuiet
<1> QED BY <1>2, <1>3

\* While a call saves, it has nothing but saving to do, for the pair it makes.
LEMMA SavingOnly ==
  ASSUME SessionsTyped, NEW c \in TokenCalls, Todo(c) # <<>>, Head(Todo(c))[1] \in Saving
  PROVE  /\ Makes(c, Head(Todo(c))[2])
         /\ \A n, q, r : WillRow(c, n, q, r) => n \in Saving /\ Makes(c, q) /\ q = Head(Todo(c))[2]
         /\ Head(Todo(c))[1] = "setAccess" => \A q, r : ~WillRow(c, "unsetAccess", q, r)
<1>1. /\ Todo(c) \in Seq(Statements) /\ Role(c) /\ Task(c) /\ 0 \notin TokenPairs
      /\ SavingLast(Todo(c)) /\ LookFirst(Todo(c))
  BY CallFields DEF SessionsTyped, Task
<1>2. /\ Listed(Todo(c), Head(Todo(c)))
      /\ \A x : Listed(Todo(c), x) => x[1] \in Saving
      /\ Head(Todo(c))[1] = "setAccess" => \A x : Listed(Todo(c), x) => x[1] # "unsetAccess"
  BY <1>1, ListGoesOn
<1>3. ASSUME NEW n, NEW q, NEW r, WillRow(c, n, q, r)
      PROVE  /\ n \in Saving /\ Makes(c, q) /\ q \in TokenPairs
             /\ Head(Todo(c))[1] = "setAccess" => n # "unsetAccess"
  <2>1. PICK x : x = <<n, q, r>>
    OBVIOUS
  <2>2. Listed(Todo(c), x) /\ x[1] = n
    BY <1>3, <2>1 DEF WillRow
  <2>3. x \in Statements
    BY <1>1, <2>2 DEF Listed
  <2>4. n \in StatementNames /\ q \in TokenPairs /\ r \in RefreshRows
    BY <2>1, <2>3 DEF Statements
  <2>5. n \in Saving /\ (Head(Todo(c))[1] = "setAccess" => n # "unsetAccess")
    BY <1>2, <2>2
  <2> QED BY <1>1, <1>3, <2>4, <2>5 DEF Task, Saves
<1>4. \A q, o \in TokenPairs : Makes(c, q) /\ Makes(c, o) => q = o
  BY <1>1 DEF Role, Makes, Binds, Made
<1>5. Makes(c, Head(Todo(c))[2]) /\ Head(Todo(c))[2] \in TokenPairs
  <2>1. WillRow(c, Head(Todo(c))[1], Head(Todo(c))[2], Head(Todo(c))[3])
    BY <1>2, HeadIs DEF WillRow
  <2> QED BY <1>3, <2>1
<1> QED BY <1>3, <1>4, <1>5

\* A statement that fails keeps it for the pairs that are sure.
LEMMA StatementFailsOut ==
  ASSUME SessionsTyped, NEW p \in TokenPairs \ unsure', OutFor(p), NEW c \in TokenCalls,
         StatementFails(c)
  PROVE  OutFor(p)'
<1> DEFINE name == Head(Todo(c))[1]
           o == Head(Todo(c))[2]
           r == Head(Todo(c))[3]
<1>1. /\ Works(c) /\ Todo(c) # <<>> /\ unsure' = unsure \cup ({o} \ {tokenCall[c].new})
      /\ IF name \in Saving THEN Fails(c) ELSE GoOn(c, <<>>)
      /\ UNCHANGED <<accessRow, refreshRows, accessCopy, refreshCopy, delivered, ended>>
  BY DEF StatementFails, Todo, Works, tables
<1>2. /\ name \in StatementNames /\ o \in TokenPairs /\ r \in RefreshRows
      /\ Head(Todo(c)) = <<name, o, r>> /\ WillRow(c, name, o, r)
  BY <1>1, HeadIs DEF WillRow
<1>3. Role(c) /\ Task(c) /\ 0 \notin TokenPairs /\ Todo(c) \in Seq(Statements)
  BY CallFields DEF SessionsTyped
<1>4. name \in Saving => /\ Makes(c, o)
                         /\ \A n, q, s : WillRow(c, n, q, s) => n \in Saving /\ Makes(c, q) /\ q = o
  BY <1>1, SavingOnly
<1> HIDE DEF name, o, r
<1>5. CASE name \notin Saving
  <2>1. Left(c, name, o, r, <<>>)
    BY <1>1, <1>2, <1>5, LeftIs
  <2>2. o # p
    <3>1. o \in Ends(c) \cup unsure
      BY <1>2, <1>3, <1>5 DEF Task
    <3>2. o \in delivered \cup unsure
      BY <1>3, <3>1 DEF Role
    <3>3. p = o => tokenCall[c].new = p /\ p \in delivered
      BY <1>1, <3>2
    <3> QED BY <1>3, <3>3 DEF Role, Made
  <2>4. \A d \in TokenCalls : SameFor(d, p)
    <3>1. \A x : <<>> # <<x>>
      OBVIOUS
    <3> QED BY <2>1, <2>2, <1>2, <3>1, LeftSame
  <2>5. Undisturbed(p)
    BY <1>1 DEF Undisturbed
  <2> QED BY <1>1, <2>4, <2>5, OutQuiet
<1>6. CASE name \in Saving /\ o # p
  <2>1. \A n, s : ~WillRow(c, n, p, s)
    BY <1>4, <1>6
  <2>2. ~Will(c, "unsetAccess", p)
    BY <2>1 DEF Will
  <2> QED BY <1>1, <1>6, <2>1, <2>2, OutCallOver
<1>7. CASE name \in Saving /\ o = p
  <2>1. tokenCall[c].new = p /\ p \notin delivered /\ p \notin ended /\ Makes(c, p)
    BY <1>1, <1>3, <1>4, <1>7 DEF Role, Made, SessionsTyped
  <2>2. OthersRest(c) /\ Ends(c)' = {} /\ ~Makes(c, p)'
    BY <1>1, <1>7, OverIs DEF Makes, Works
  <2>3. ASSUME NEW d \in TokenCalls
        PROVE  p \notin Ends(d)' /\ ~Makes(d, p)'
    <3>1. CASE d = c
      BY <2>2, <3>1
    <3>2. CASE d # c
      <4>1. Role(d) /\ ~Makes(d, p)
        BY <2>1, <3>2, MakersOf DEF SessionsTyped
      <4>2. p \notin Ends(d) /\ ~Makes(d, p)
        BY <2>1, <4>1 DEF Role
      <4> QED BY <2>2, <3>2, <4>2, Resting
    <3> QED BY <3>1, <3>2
  <2>4. Tied(p)'
    BY <1>1, <2>1 DEF OutFor, Tied
  <2> QED BY <1>1, <2>1, <2>3, <2>4 DEF OutFor
<1> QED BY <1>5, <1>6, <1>7

\* So does an access token that is not stored again.
LEMMA InsertFailsOut ==
  ASSUME SessionsTyped, NEW p \in TokenPairs, OutFor(p), NEW c \in TokenCalls, InsertFails(c)
  PROVE  OutFor(p)'
<1>1. /\ Todo(c) # <<>> /\ Head(Todo(c))[1] = "setAccess" /\ Fails(c)
      /\ UNCHANGED <<accessRow, refreshRows, accessCopy, refreshCopy, delivered, ended>>
  BY DEF InsertFails, StoredAlready, Todo, tables
<1>2. /\ \A n, q, r : WillRow(c, n, q, r) => Makes(c, q)
      /\ \A q, r : ~WillRow(c, "unsetAccess", q, r)
  BY <1>1, SavingOnly DEF Saving
<1>3. p \in Ends(c) => \A n, r : ~WillRow(c, n, p, r)
  BY <1>2 DEF OutFor, Making
<1>4. ~Will(c, "unsetAccess", p)
  BY <1>2 DEF Will
<1> QED BY <1>1, <1>3, <1>4, OutCallOver

\* The answer of a call keeps it: what the call ended is dead or being ended.
LEMMA ReportOut ==
  ASSUME SessionsTyped, NEW p \in TokenPairs, OutFor(p), NEW c \in TokenCalls, Report(c)
  PROVE  OutFor(p)'
<1>1. /\ Todo(c) = <<>> /\ Over(c) /\ Works(c) /\ ended' = ended \cup Ends(c)
      /\ delivered' = delivered \cup ({tokenCall[c].new} \ {0})
      /\ UNCHANGED <<accessRow, refreshRows, accessCopy, refreshCopy>>
  BY DEF Report, Todo, tables, Works, Ends
<1>2. (\A n, r : ~WillRow(c, n, p, r)) /\ ~Will(c, "unsetAccess", p)
  BY <1>1, EmptyList DEF Will, WillRow
<1>3. p \in delivered' => p \in delivered \/ (Makes(c, p) /\ ~Binds(c, p))
  <2>1. tokenCall[c].op = "bind" => tokenCall[c].new = 0
    BY DEF SessionsTyped, Role, Made
  <2> QED BY <1>1, <2>1 DEF Makes, Binds
<1> QED BY <1>1, <1>2, <1>3, OutCallOver

\* A lost copy and an expired token keep it.
LEMMA PairStepOut ==
  ASSUME SessionsTyped, NEW p \in TokenPairs \ unsure', OutFor(p),
         NEW o \in TokenPairs, CopyLost(o) \/ RowExpires(o)
  PROVE  OutFor(p)'
<1>1. UNCHANGED <<tokenCall, refreshRows, delivered, ended>>
  BY DEF CopyLost, RowExpires
<1>2. \A d \in TokenCalls : SameFor(d, p)
  BY <1>1 DEF SameFor, Ends, Makes, Works, Binds, Will, WillRow, Todo
<1>3. /\ accessRow \in [TokenPairs -> AccessRows] /\ refreshRows \in [TokenPairs -> SUBSET RefreshRows]
      /\ accessCopy \in [TokenPairs -> BOOLEAN] /\ refreshCopy \in [TokenPairs -> BOOLEAN]
  BY DEF SessionsTyped, TokenTypeOK
<1>4. CASE CopyLost(o)
  <2>1. o # p
    BY <1>4 DEF CopyLost
  <2>2. Undisturbed(p)
    BY <1>3, <1>4, <2>1 DEF CopyLost, Put, Undisturbed
  <2> QED BY <1>1, <1>2, <2>2, OutQuiet
<1>5. CASE RowExpires(o)
  <2>1. Undisturbed(p)
    BY <1>3, <1>5 DEF RowExpires, Put, Undisturbed
  <2> QED BY <1>1, <1>2, <2>1, OutQuiet
<1> QED BY <1>4, <1>5

\* A call begins its work.
Goes(c, deleted, new, todo) ==
  /\ Go(c, deleted, new, todo) /\ OthersRest(c) /\ tokenCall[c].pc = "find" /\ tokenCall'[c].pc = "work"
  /\ tokenCall'[c].op = tokenCall[c].op /\ tokenCall'[c].pair = tokenCall[c].pair
  /\ tokenCall'[c].new = new /\ Ends(c)' = deleted \cap delivered /\ Todo(c)' = todo
  /\ Ends(c) = {} /\ (\A n, q, r : ~WillRow(c, n, q, r)) /\ (\A q : ~Makes(c, q))
  /\ UNCHANGED <<accessRow, refreshRows, accessCopy, refreshCopy, delivered, ended>>

\* What a call was and what it is when it begins its work.
LEMMA GoesIs ==
  ASSUME SessionsTyped, NEW c \in TokenCalls, NEW deleted \in SUBSET TokenPairs,
         NEW new \in {0} \cup TokenPairs, NEW todo \in Seq(Statements), Go(c, deleted, new, todo),
         tokenCall[c].pc = "find"
  PROVE  Goes(c, deleted, new, todo)
<1>1. Role(c) /\ ~Works(c)
  BY DEF SessionsTyped, Works
<1>2. Ends(c) = {} /\ Todo(c) = <<>> /\ \A q : ~Makes(c, q)
  BY <1>1 DEF Role, Makes
<1>3. \A n, q, r : ~WillRow(c, n, q, r)
  BY <1>2, EmptyList DEF WillRow
<1>4. /\ tokenCall' \in [TokenCalls -> CallRecords] /\ OthersRest(c)
      /\ tokenCall'[c].pc = "work" /\ tokenCall'[c].op = tokenCall[c].op
      /\ tokenCall'[c].pair = tokenCall[c].pair /\ tokenCall'[c].new = new
      /\ Ends(c)' = deleted \cap delivered /\ Todo(c)' = todo
      /\ given' = given \cup deleted
      /\ UNCHANGED <<accessRow, refreshRows, accessCopy, refreshCopy, delivered, ended>>
  BY GoIs
<1> QED BY <1>2, <1>3, <1>4 DEF Goes

\* It has nothing to do with most pairs.
LEMMA GoBeside ==
  ASSUME SessionsTyped, SessionsTyped', NEW p \in TokenPairs \ unsure', OutFor(p),
         NEW c \in TokenCalls, NEW deleted, NEW new, NEW todo, Goes(c, deleted, new, todo),
         p \notin deleted \cap delivered, ~Makes(c, p)'
  PROVE  OutFor(p)'
<1>1. \A n, r : ~WillRow(c, n, p, r)'
  <2>1. Task(c)' /\ p \notin Ends(c)'
    BY DEF SessionsTyped, Goes
  <2>2. ASSUME NEW n, NEW r, WillRow(c, n, p, r)'
        PROVE  FALSE
    <3>1. n \in StatementNames /\ r \in RefreshRows
      <4>1. Todo(c)' \in Seq(Statements)
        BY DEF SessionsTyped, CallRecords, Todo
      <4>2. PICK x : x = <<n, p, r>>
        OBVIOUS
      <4>3. x \in Statements
        BY <2>2, <4>1, <4>2 DEF WillRow, Listed
      <4> QED BY <4>2, <4>3 DEF Statements
    <3> QED BY <2>1, <2>2, <3>1 DEF Task, Saves
  <2> QED BY <2>2
<1>2. SameFor(c, p)
  BY <1>1, IdleSame DEF Goes
<1>3. (\A d \in TokenCalls : SameFor(d, p)) /\ Undisturbed(p)
  BY <1>2, SameCalls DEF Goes, Undisturbed
<1> QED BY <1>3, OutQuiet DEF Goes

\* Who sets out to end a pair that is bound leaves it unsure.
LEMMA MetBinding ==
  ASSUME SessionsTyped, NEW p \in TokenPairs, NEW c \in TokenCalls, NEW deleted,
         p \in deleted \cap delivered, tokenCall[c].pc = "find", p \notin Meets(c, deleted),
         NEW d \in TokenCalls
  PROVE  ~Makes(d, p)
<1>1. SUFFICES ASSUME Makes(d, p) PROVE FALSE
  OBVIOUS
<1>2. Binds(d, p) /\ Works(d)
  BY <1>1, MakersOf DEF Makes
<1>3. d # c
  BY <1>2 DEF Works
<1> QED BY <1>2, <1>3 DEF Meets, Binds, Works

\* It ends a pair thoroughly, if the pair is whole and nobody makes it.
LEMMA GoEnds ==
  ASSUME SessionsTyped, SessionsTyped', NEW p \in TokenPairs \ unsure', OutFor(p),
         NEW c \in TokenCalls, NEW deleted, NEW new, NEW todo, Goes(c, deleted, new, todo),
         p \in deleted \cap delivered, tokenCall[c].op # "bind",
         Meets(c, deleted) \subseteq unsure', unsure \subseteq unsure',
         refreshCopy[p] /\ (accessRow[p] # "active" \/ accessCopy[p]) => Kills(c, p)',
         Thorough(c, p)'
  PROVE  OutFor(p)'
<1>1. \A d \in TokenCalls : d # c => SameFor(d, p) /\ (Ends(d)' = Ends(d))
  BY SameCalls, Resting DEF Goes
<1>2. \A d \in TokenCalls : ~Makes(d, p) /\ ~Makes(d, p)'
  <2>1. \A d \in TokenCalls : ~Makes(d, p)
    BY MetBinding DEF Goes
  <2>2. ~Makes(c, p)'
    <3>1. new # p /\ ~Binds(c, p)'
      BY DEF SessionsTyped, Role, Made, TokenPairs, Goes, Binds
    <3> QED BY <3>1 DEF Makes, Goes
  <2> QED BY <1>1, <2>1, <2>2 DEF SameFor
<1>3. Undisturbed(p)
  BY DEF Undisturbed, Goes
<1>4. Dying(p)'
  <2>1. CASE Whole(p)
    <3>1. Kills(c, p)'
      BY <2>1 DEF Whole
    <3> QED BY <3>1 DEF Dying
  <2>2. CASE Dead(p)
    <3>1. Dead(p)'
      BY <2>2 DEF Dead, Goes
    <3> QED BY <3>1 DEF Dying
  <2>3. ASSUME NEW d \in TokenCalls, Kills(d, p)
        PROVE  Dying(p)'
    <3>1. d # c
      BY <2>3 DEF Kills, Goes
    <3>2. Kills(d, p)'
      BY <1>1, <1>3, <2>3, <3>1, KillsQuiet
    <3> QED BY <3>2 DEF Dying
  <2> QED BY <2>1, <2>2, <2>3 DEF OutFor, Dying
<1>5. ASSUME NEW d \in TokenCalls, p \in Ends(d)'
      PROVE  Thorough(d, p)'
  <2>1. CASE d # c
    BY <1>1, <1>3, <1>5, <2>1, ThoroughQuiet DEF OutFor
  <2> QED BY <2>1
<1>6. Tied(p)'
  BY <1>2 DEF OutFor, Tied, Goes
<1> QED BY <1>2, <1>4, <1>5, <1>6 DEF OutFor

\* It makes a pair, new or bound, that nobody ends.
LEMMA GoMakes ==
  ASSUME SessionsTyped, NEW p \in TokenPairs, OutFor(p),
         NEW c \in TokenCalls, NEW deleted, NEW new, NEW todo, Goes(c, deleted, new, todo),
         p \notin deleted, p \notin ended, \A d \in TokenCalls : p \notin Ends(d),
         Makes(c, p)',
         \A r \in RefreshRows : Behind(todo, <<"setRefresh", p, r>>, <<"unsetAccess", p, First>>),
         IF Binds(c, p)
           THEN Whole(p)
           ELSE /\ Unmade(p) /\ p \notin delivered
                /\ Listed(todo, <<"copyRefresh", p, First>>) /\ Listed(todo, <<"setAccess", p, First>>)
                /\ Behind(todo, <<"setAccess", p, First>>, <<"copyAccess", p, First>>)
  PROVE  OutFor(p)'
<1>1. \A d \in TokenCalls : d # c => SameFor(d, p)
  BY SameCalls DEF Goes
<1>2. \A d \in TokenCalls : p \notin Ends(d)'
  BY <1>1 DEF Goes, SameFor
<1>3. (Whole(p) => Whole(p)') /\ p \notin ended' /\ (Binds(c, p)' <=> Binds(c, p))
  BY DEF Whole, Goes, Binds
<1>4. ASSUME ~Binds(c, p)
      PROVE  Finishes(c, p)'
  <2>1. accessRow'[p] = "none" /\ Todo(c)' = todo
    BY <1>4 DEF Unmade, Goes
  <2>2. Will(c, "copyRefresh", p)' /\ Will(c, "setAccess", p)'
    BY <1>4, <2>1 DEF Will, WillRow
  <2>3. Behind(Todo(c)', <<"setAccess", p, First>>, <<"copyAccess", p, First>>)
    BY <1>4, <2>1
  <2> QED BY <2>1, <2>2, <2>3 DEF Finishes
<1>5. ASSUME NEW d \in TokenCalls, Makes(d, p)'
      PROVE  Making(d, p)'
  <2>1. CASE d = c
    <3>1. \A r \in RefreshRows : Behind(Todo(c)', <<"setRefresh", p, r>>, <<"unsetAccess", p, First>>)
      BY DEF Goes
    <3>2. IF Binds(c, p)' THEN Whole(p)' ELSE Finishes(c, p)'
      BY <1>3, <1>4
    <3> QED BY <1>2, <1>3, <2>1, <3>1, <3>2 DEF Making
  <2>2. CASE d # c
    <3>1. Making(d, p) /\ SameFor(d, p) /\ Makes(d, p)
      BY <1>1, <1>5, <2>2 DEF OutFor, SameFor
    <3>2. Finishes(d, p) => Finishes(d, p)'
      BY <3>1 DEF Finishes, SameFor, Goes
    <3>3. IF Binds(d, p)' THEN Whole(p)' ELSE Finishes(d, p)'
      BY <1>3, <3>1, <3>2 DEF Making, SameFor
    <3>4. \A r \in RefreshRows : Behind(Todo(d)', <<"setRefresh", p, r>>, <<"unsetAccess", p, First>>)
      BY <3>1 DEF Making, SameFor
    <3> QED BY <1>2, <1>3, <3>3, <3>4 DEF Making
  <2> QED BY <2>1, <2>2
<1>6. Tied(p)'
  <2>1. \A d \in TokenCalls : Makes(d, p) /\ Will(d, "unsetAccess", p) =>
                               Makes(d, p)' /\ Will(d, "unsetAccess", p)'
    BY <1>1 DEF SameFor, Goes
  <2> QED BY <2>1 DEF OutFor, Tied, Goes
<1>7. p \in delivered' => Whole(p)' \/ Dying(p)'
  BY <1>3 DEF Goes
<1> QED BY <1>2, <1>3, <1>5, <1>6, <1>7 DEF OutFor

\* A refresh keeps the invariant, for the old pair and the new one.
LEMMA RefreshesOut ==
  ASSUME SessionsTyped, NEW p \in TokenPairs \ unsure', OutFor(p), NEW c \in TokenCalls,
         NEW q, NEW seen, Refreshes(c, q, seen)
  PROVE  OutFor(p)'
<1> DEFINE o == PairOf(c)
           todo == RefreshWork(o, q, seen)
<1>1. /\ o \in delivered /\ o \in TokenPairs /\ o \in used /\ q \in TokenPairs /\ q \notin used /\ seen \in BOOLEAN
      /\ o # q /\ Go(c, {o}, q, todo) /\ tokenCall[c].pc = "find" /\ tokenCall[c].op = "refresh"
      /\ Meets(c, {o}) \subseteq unsure' /\ unsure \subseteq unsure'
      /\ seen # refreshCopy[o] => o \in unsure'
  BY FoundPair DEF Refreshes, LookedUp
<1>2. ForRefresh(todo, o, q, seen)
  BY <1>1, RefreshWorkIs
<1>3. SessionsTyped'
  BY RefreshesTyped
<1> HIDE DEF todo, o
<1>4. Goes(c, {o}, q, todo)
  <2>1. {o} \in SUBSET TokenPairs /\ q \in {0} \cup TokenPairs /\ todo \in Seq(Statements)
    BY <1>1, <1>2 DEF ForRefresh
  <2> QED BY <1>1, <2>1, GoesIs
<1>5. \A n, x : Will(c, n, x)' <=> Listed(todo, <<n, x, First>>)
  BY <1>4 DEF Goes, Will, WillRow
<1>6. CASE p = o
  <2>1. \A n \in {"lookRefresh", "dropRefresh", "revokeRefresh", "revokeItsAccess"} : Will(c, n, p)'
    BY <1>2, <1>5, <1>6 DEF ForRefresh
  <2>2. seen = refreshCopy[p] /\ UNCHANGED <<accessRow, refreshRows, accessCopy, refreshCopy>>
        /\ p \in Ends(c)'
    BY <1>1, <1>4, <1>6 DEF Goes
  <2>3. CASE seen = TRUE
    <3>1. \A n \in {"lookAccess", "dropAccess", "revokeAccess"} : Will(c, n, p)'
      BY <1>2, <1>5, <1>6, <2>3 DEF ForRefresh
    <3>2. Kills(c, p)'
      BY <2>1, <2>2, <3>1 DEF Kills
    <3>3. Thorough(c, p)'
      BY <2>1, <3>1, <3>2 DEF Thorough
    <3> QED BY <1>1, <1>3, <1>4, <1>6, <3>2, <3>3, GoEnds
  <2>4. CASE seen = FALSE
    <3>1. ~refreshCopy[p] /\ ~refreshCopy'[p]
      BY <2>2, <2>4
    <3>2. ~Will(c, "lookAccess", p)'
      BY <1>1, <1>2, <1>5, <1>6, <2>4 DEF ForRefresh
    <3>3. Thorough(c, p)'
      BY <3>1, <3>2 DEF Thorough
    <3> QED BY <1>1, <1>3, <1>4, <1>6, <3>1, <3>3, GoEnds
  <2> QED BY <1>1, <2>3, <2>4
<1>7. CASE p = q
  <2>1. /\ Listed(todo, <<"copyRefresh", p, First>>) /\ Listed(todo, <<"setAccess", p, First>>)
        /\ Behind(todo, <<"setAccess", p, First>>, <<"copyAccess", p, First>>)
    BY <1>1, <1>2, <1>7 DEF ForRefresh
  <2>0. ASSUME NEW r \in RefreshRows
        PROVE  Behind(todo, <<"setRefresh", p, r>>, <<"unsetAccess", p, First>>)
    <3>1. CASE r = First
      BY <1>1, <1>2, <1>7, <3>1 DEF ForRefresh
    <3>2. CASE r # First
      <4>1. ~Listed(todo, <<"setRefresh", p, r>>)
        BY <1>2, <3>2 DEF ForRefresh
      <4> QED BY <4>1 DEF Listed, Behind
    <3> QED BY <3>1, <3>2
  <2>2. /\ p \notin delivered /\ p \notin ended /\ p \notin {o} /\ Unmade(p)
        /\ \A d \in TokenCalls : p \notin Ends(d)
    BY <1>1, <1>7 DEF SessionsTyped, TokenTypeOK, Role
  <2>3. Makes(c, p)' /\ ~Binds(c, p)
    BY <1>1, <1>4, <1>7 DEF Makes, Works, Binds, Goes
  <2> QED BY <1>4, <2>0, <2>1, <2>2, <2>3, GoMakes
<1>8. CASE p # o /\ p # q
  <2>1. ~Makes(c, p)'
    BY <1>1, <1>4, <1>8 DEF Makes, Binds, Goes
  <2> QED BY <1>3, <1>4, <1>8, <2>1, GoBeside
<1> QED BY <1>6, <1>7, <1>8

\* A logout keeps it.
LEMMA LogsOutOut ==
  ASSUME SessionsTyped, NEW p \in TokenPairs \ unsure', OutFor(p), NEW c \in TokenCalls,
         NEW seen, LogsOut(c, seen)
  PROVE  OutFor(p)'
<1> DEFINE o == PairOf(c)
           todo == LogoutWork(o, seen)
<1>1. /\ o \in delivered /\ o \in TokenPairs /\ seen \in BOOLEAN
      /\ Go(c, {o}, 0, todo) /\ tokenCall[c].pc = "find" /\ tokenCall[c].op = "logout"
      /\ Meets(c, {o}) \subseteq unsure' /\ unsure \subseteq unsure' /\ AccessAccepted(o)
      /\ seen # accessCopy[o] => o \in unsure'
  BY FoundPair DEF LogsOut, LookedUp
<1>2. /\ todo \in Seq(Statements)
      /\ \A n, x, m : Listed(todo, <<n, x, m>>) <=> m = First /\ x = o /\
           \/ n \in {"lookAccess", "dropAccess", "revokeAccess"}
           \/ /\ seen = TRUE
              /\ n \in {"lookRefresh", "dropRefresh", "revokeRefresh", "revokeItsAccess"}
  BY <1>1, LogoutWorkIs
<1>3. SessionsTyped'
  BY LogsOutTyped
<1> HIDE DEF todo, o
<1>4. Goes(c, {o}, 0, todo)
  <2>1. {o} \in SUBSET TokenPairs /\ 0 \in {0} \cup TokenPairs
    BY <1>1
  <2> QED BY <1>1, <1>2, <2>1, GoesIs
<1>5. \A n, x : Will(c, n, x)' <=> Listed(todo, <<n, x, First>>)
  BY <1>4 DEF Goes, Will, WillRow
<1>6. CASE p = o
  <2>1. \A n \in {"lookAccess", "dropAccess", "revokeAccess"} : Will(c, n, p)'
    BY <1>2, <1>5, <1>6
  <2>2. /\ seen = accessCopy[p]
        /\ UNCHANGED <<accessRow, refreshRows, accessCopy, refreshCopy>> /\ p \in Ends(c)'
    BY <1>1, <1>4, <1>6 DEF Goes
  <2>3. CASE seen = TRUE
    <3>2. \A n \in {"lookRefresh", "dropRefresh", "revokeRefresh", "revokeItsAccess"} : Will(c, n, p)'
      BY <1>2, <1>5, <1>6, <2>3
    <3>3. Kills(c, p)'
      BY <2>1, <2>2, <3>2 DEF Kills
    <3>4. Thorough(c, p)'
      BY <2>1, <3>2, <3>3 DEF Thorough
    <3> QED BY <1>1, <1>3, <1>4, <1>6, <3>3, <3>4, GoEnds
  <2>4. CASE seen = FALSE
    <3>1. ~accessCopy[p] /\ ~accessCopy'[p]
      BY <2>2, <2>4
    <3>2. ~Will(c, "dropRefresh", p)'
      <4>1. \A n : Listed(todo, <<n, o, First>>) => n \in {"lookAccess", "dropAccess", "revokeAccess"}
        BY <1>2, <2>4
      <4>2. ~Listed(todo, <<"dropRefresh", o, First>>)
        BY <4>1
      <4> QED BY <1>5, <1>6, <4>2
    <3>3. Thorough(c, p)'
      BY <3>1, <3>2 DEF Thorough
    <3>4. accessRow[p] = "active"
      BY <1>1, <1>6, <3>1 DEF AccessAccepted
    <3> QED BY <1>1, <1>3, <1>4, <1>6, <3>1, <3>3, <3>4, GoEnds
  <2> QED BY <1>1, <2>3, <2>4
<1>7. CASE p # o
  <2>1. ~Makes(c, p)'
    BY <1>1, <1>4 DEF Makes, Binds, Goes, TokenPairs
  <2> QED BY <1>3, <1>4, <1>7, <2>1, GoBeside
<1> QED BY <1>6, <1>7

\* A logout on all devices keeps it.
LEMMA LogsAllOutOut ==
  ASSUME SessionsTyped, NEW p \in TokenPairs \ unsure', OutFor(p), NEW c \in TokenCalls,
         NEW todo, LogsAllOut(c, todo)
  PROVE  OutFor(p)'
<1>1. /\ tokenCall[c].pc = "find" /\ tokenCall[c].op = "logoutAll" /\ todo \in Seq(Statements)
      /\ Go(c, Active, 0, todo) /\ unsure \subseteq unsure' /\ Meets(c, Active) \subseteq unsure'
      /\ Active \in SUBSET TokenPairs /\ 0 \in {0} \cup TokenPairs
  BY DEF LogsAllOut, Active
<1>2. SessionsTyped' /\ Goes(c, Active, 0, todo)
  BY <1>1, LogsAllOutTyped, GoesIs
<1>3. \A n, x, r : WillRow(c, n, x, r)' <=> Listed(todo, <<n, x, r>>)
  BY <1>2 DEF Goes, WillRow
<1>4. CASE p \in Active
  <2>1. /\ \A n, r : Listed(todo, <<n, p, r>>) <=>
             \/ r = First /\ n \in {"lookRefresh", "dropRefresh"}
             \/ r \in refreshRows[p] /\ n \in {"revokeRow", "revokeRowsAccess"}
        /\ Ahead(todo, <<"lookRefresh", p, First>>, <<"dropRefresh", p, First>>)
    BY <1>4 DEF LogsAllOut
  <2>2. /\ p \in delivered /\ p \in Ends(c)' /\ refreshRows[p] # {}
        /\ UNCHANGED <<accessRow, refreshRows, accessCopy, refreshCopy>>
    BY <1>2, <1>4 DEF LogsAllOut, Goes, Active
  <2>3. accessRow[p] = "active" => First \in refreshRows[p]
    <3>1. \A d \in TokenCalls : ~Makes(d, p)
      BY <1>1, <1>4, <2>2, MetBinding
    <3> QED BY <2>2, <3>1 DEF OutFor, Tied
  <2>4. /\ Will(c, "lookRefresh", p)' /\ Will(c, "dropRefresh", p)' /\ ~Will(c, "lookAccess", p)'
        /\ accessRow[p] = "active" => Will(c, "revokeRowsAccess", p)'
        /\ \A r \in refreshRows[p] : WillRow(c, "revokeRow", p, r)'
    <3>1. \A n, r : WillRow(c, n, p, r)' <=>
            \/ r = First /\ n \in {"lookRefresh", "dropRefresh"}
            \/ r \in refreshRows[p] /\ n \in {"revokeRow", "revokeRowsAccess"}
      BY <1>3, <2>1
    <3>2. /\ WillRow(c, "lookRefresh", p, First)' /\ WillRow(c, "dropRefresh", p, First)'
          /\ ~WillRow(c, "lookAccess", p, First)'
          /\ accessRow[p] = "active" => WillRow(c, "revokeRowsAccess", p, First)'
          /\ \A r \in refreshRows[p] : WillRow(c, "revokeRow", p, r)'
      BY ONLY <2>3, <3>1
    <3> QED BY <3>2 DEF Will
  <2>5. refreshCopy[p] => Kills(c, p)'
    BY <2>2, <2>4 DEF Kills
  <2>6. Thorough(c, p)'
    <3>1. Ahead(Todo(c)', <<"lookRefresh", p, First>>, <<"dropRefresh", p, First>>)
      BY <1>2, <2>1 DEF Goes
    <3> QED BY <2>2, <2>4, <2>5, <3>1 DEF Thorough
  <2> QED BY <1>1, <1>2, <1>4, <2>2, <2>5, <2>6, GoEnds
<1>5. CASE p \notin Active
  <2>1. ~Makes(c, p)'
    BY <1>1, <1>2 DEF Makes, Binds, Goes, TokenPairs
  <2> QED BY <1>2, <1>5, <2>1, GoBeside
<1> QED BY <1>4, <1>5

\* A binding keeps it.
LEMMA RebindsOut ==
  ASSUME SessionsTyped, NEW p \in TokenPairs \ unsure', OutFor(p), NEW c \in TokenCalls,
         NEW seen, Rebinds(c, seen)
  PROVE  OutFor(p)'
<1> DEFINE o == PairOf(c)
           todo == BindWork(c, o, seen)
<1>1. /\ o \in delivered /\ o \in TokenPairs /\ tokenCall[c].pc = "find" /\ tokenCall[c].op = "bind"
      /\ Go(c, {}, 0, todo) /\ Meets(c, {}) \subseteq unsure' /\ AccessAccepted(o) /\ seen \in BOOLEAN
  BY FoundPair DEF Rebinds, LookedUp
<1>2. /\ todo \in Seq(Statements)
      /\ \A r \in RefreshRows : Behind(todo, <<"setRefresh", o, r>>, <<"unsetAccess", o, First>>)
  <2>1. CASE seen = TRUE
    <3>1. todo = SaveTokenSession(o, c) /\ c \in RefreshRows
      BY <2>1 DEF BindWork, RefreshRows
    <3> HIDE DEF todo, o
    <3>2. /\ todo \in Seq(Statements)
          /\ \A r : Listed(todo, <<"setRefresh", o, r>>) => r = c
          /\ Behind(todo, <<"setRefresh", o, c>>, <<"unsetAccess", o, First>>)
      <4>1. /\ todo \in Seq(Statements)
            /\ \A x : Listed(todo, x) =>
                 x \in {<<"unsetRefresh", o, First>>, <<"setRefresh", o, c>>,
                        <<"unsetAccess", o, First>>, <<"setAccess", o, First>>,
                        <<"copyAccess", o, First>>, <<"copyRefresh", o, First>>}
            /\ Behind(todo, <<"setRefresh", o, c>>, <<"unsetAccess", o, First>>)
        BY <1>1, <3>1, SaveTokenSessionIs
      <4>2. \A r : <<"setRefresh", o, r>> \in
                     {<<"unsetRefresh", o, First>>, <<"setRefresh", o, c>>,
                      <<"unsetAccess", o, First>>, <<"setAccess", o, First>>,
                      <<"copyAccess", o, First>>, <<"copyRefresh", o, First>>} => r = c
        OBVIOUS
      <4> QED BY ONLY <4>1, <4>2
    <3>3. \A r : r # c => Behind(todo, <<"setRefresh", o, r>>, <<"unsetAccess", o, First>>)
      BY <3>2 DEF Listed, Behind
    <3> QED BY <3>2, <3>3
  <2>2. CASE seen = FALSE
    <3>1. todo = SaveAccess(o)
      BY <2>2 DEF BindWork
    <3> HIDE DEF todo, o
    <3>2. todo \in Seq(Statements) /\ \A r : ~Listed(todo, <<"setRefresh", o, r>>)
      <4>1. /\ todo \in Seq(Statements)
            /\ \A x : Listed(todo, x) =>
                 x \in {<<"unsetAccess", o, First>>, <<"setAccess", o, First>>,
                        <<"copyAccess", o, First>>, <<"copyRefresh", o, First>>}
        BY <1>1, <3>1, SaveAccessIs
      <4>2. \A r : <<"setRefresh", o, r>> \notin
                     {<<"unsetAccess", o, First>>, <<"setAccess", o, First>>,
                      <<"copyAccess", o, First>>, <<"copyRefresh", o, First>>}
        OBVIOUS
      <4> QED BY ONLY <4>1, <4>2
    <3> QED BY <3>2 DEF Listed, Behind
  <2> QED BY <1>1, <2>1, <2>2
<1>3. SessionsTyped'
  BY RebindsTyped
<1>4. Meets(c, {}) = {x \in TokenPairs : x = o /\ \E d \in TokenCalls \ {c} : x \in Ends(d)}
  BY <1>1 DEF Meets, Ends, PairOf
<1>6. tokenCall[c].pair = o
  BY DEF PairOf
<1> HIDE DEF todo, o
<1>5. Goes(c, {}, 0, todo)
  <2>1. {} \in SUBSET TokenPairs /\ 0 \in {0} \cup TokenPairs
    OBVIOUS
  <2> QED BY <1>1, <1>2, <2>1, GoesIs
<1>7. CASE p = o
  <2>3. \A d \in TokenCalls : p \notin Ends(d)
    BY <1>1, <1>4, <1>5, <1>7 DEF Goes
  <2>1. ~Dying(p)
    <3>1. \A d \in TokenCalls : ~Kills(d, p)
      BY <2>3 DEF Kills
    <3>2. ~Dead(p)
      BY <1>1, <1>7 DEF Dead, AccessAccepted
    <3> QED BY <3>1, <3>2 DEF Dying
  <2>4. p \notin ended /\ Whole(p)
    BY <1>1, <1>7, <2>1 DEF OutFor
  <2>5. Makes(c, p)' /\ Binds(c, p)
    BY <1>1, <1>5, <1>6, <1>7 DEF Makes, Works, Binds, Goes
  <2> QED BY <1>2, <1>5, <1>7, <2>3, <2>4, <2>5, GoMakes
<1>8. CASE p # o
  <2>1. ~Makes(c, p)'
    BY <1>5, <1>6, <1>8 DEF Makes, Binds, Goes, TokenPairs
  <2> QED BY <1>3, <1>5, <1>8, <2>1, GoBeside
<1> QED BY <1>7, <1>8

\* Every step of a call keeps it.
LEMMA CallStepOut ==
  ASSUME SessionsTyped, NEW p \in TokenPairs \ unsure, p \notin unsure', OutFor(p),
         NEW c \in TokenCalls, CallSteps(c)
  PROVE  OutFor(p)'
<1>1. CASE \E op \in Ending \cup {"bind"}, o \in TokenPairs : Call(c, op, o)
  <2>1. /\ OthersRest(c) /\ Ends(c)' = {} /\ Todo(c)' = <<>> /\ Ends(c) = {} /\ Todo(c) = <<>>
        /\ tokenCall[c].pc = "ready" /\ tokenCall'[c].pc = "find"
    BY <1>1, CallIs
  <2>2. UNCHANGED <<accessRow, refreshRows, accessCopy, refreshCopy, delivered, ended>>
    BY <1>1 DEF Call, tables
  <2>3. SameFor(c, p)
    BY <2>1, EmptyList, IdleSame DEF Makes, Works, WillRow
  <2>4. (\A d \in TokenCalls : SameFor(d, p)) /\ Undisturbed(p)
    BY <2>1, <2>2, <2>3, SameCalls DEF Undisturbed
  <2> QED BY <2>2, <2>4, OutQuiet
<1>2. CASE tokenCall[c].pc = "find" /\ Refused(c)
  <2>1. /\ Over(c)
        /\ UNCHANGED <<accessRow, refreshRows, accessCopy, refreshCopy, delivered, ended>>
    BY <1>2 DEF Refused, tables
  <2>2. \A n, r : ~WillRow(c, n, p, r)
    <3>1. Role(c) /\ ~Works(c)
      BY <1>2 DEF SessionsTyped, Works
    <3> QED BY <3>1, EmptyList DEF Role, WillRow
  <2>3. ~Will(c, "unsetAccess", p)
    BY <2>2 DEF Will
  <2> QED BY <2>1, <2>2, <2>3, OutCallOver
<1>3. CASE \E q, seen : Refreshes(c, q, seen)
  BY <1>3, RefreshesOut
<1>4. CASE \E seen : LogsOut(c, seen) \/ Rebinds(c, seen)
  BY <1>4, LogsOutOut, RebindsOut
<1>5. CASE \E todo : LogsAllOut(c, todo)
  BY <1>5, LogsAllOutOut
<1>6. CASE Statement(c) \/ StatementFails(c) \/ InsertFails(c) \/ Report(c)
  BY <1>6, StatementOut, StatementFailsOut, InsertFailsOut, ReportOut
<1> QED BY <1>1, <1>2, <1>3, <1>4, <1>5, <1>6 DEF CallSteps

\* It holds initially.
LEMMA TokensInitiallyOut ==
  ASSUME TokenInit, NEW p \in TokenPairs
  PROVE  OutFor(p)
<1>1. \A c \in TokenCalls : Ends(c) = {} /\ ~Makes(c, p)
  BY DEF TokenInit, Ready, Ends, Makes, Works
<1>2. p \in 1..Devices <=> p <= Devices
  BY TokenAssumption DEF TokenPairs
<1>3. p \in delivered => Whole(p)
  BY <1>2 DEF TokenInit, Whole
<1>4. Tied(p) /\ p \notin ended
  BY <1>2 DEF TokenInit, Tied
<1> QED BY <1>1, <1>3, <1>4 DEF OutFor

\* A pair whose end was reported is never let in again unless a call is still
\* ending it (EndedStaysOut), in whatever order the calls of any number of
\* devices meet.
THEOREM EndedStaysOutHolds == TokenSpec => []EndedStaysOut
<1> DEFINE Out == \A p \in TokenPairs \ unsure : OutFor(p)
<1>1. TokenInit => Out
  BY TokensInitiallyOut
<1>2. SessionsTyped /\ Out /\ [TokenNext]_tokenVars => Out'
  <2> SUFFICES ASSUME SessionsTyped, Out, [TokenNext]_tokenVars, NEW p \in TokenPairs \ unsure'
               PROVE  OutFor(p)'
    OBVIOUS
  <2>1. p \in TokenPairs \ unsure /\ OutFor(p) /\ p \notin unsure'
    BY GivenStays
  <2> HIDE DEF Out
  <2>2. CASE UNCHANGED tokenVars
    <3>1. UNCHANGED <<accessRow, refreshRows, accessCopy, refreshCopy, tokenCall, delivered, ended>>
      BY <2>2 DEF tokenVars, tables
    <3>2. (\A d \in TokenCalls : SameFor(d, p)) /\ Undisturbed(p)
      BY <3>1 DEF SameFor, Undisturbed, Ends, Makes, Works, Binds, Will, WillRow, Todo
    <3> QED BY <2>1, <3>1, <3>2, OutQuiet
  <2>3. CASE \E c \in TokenCalls : CallSteps(c)
    BY <2>1, <2>3, CallStepOut
  <2>4. CASE \E o \in TokenPairs : CopyLost(o) \/ RowExpires(o)
    BY <2>1, <2>4, PairStepOut
  <2> QED BY <2>2, <2>3, <2>4, TokenSteps
<1>3. SessionsTyped /\ Out => EndedStaysOut
  <2> SUFFICES ASSUME SessionsTyped, Out, NEW p \in ended \ unsure, ~StillEnding(p)
               PROVE  ~(AccessAccepted(p) \/ RefreshAccepted(p))
    BY DEF EndedStaysOut
  <2>1. p \in TokenPairs /\ OutFor(p)
    BY DEF SessionsTyped, TokenTypeOK
  <2>2. Dead(p)
    BY <2>1 DEF OutFor, Dying, Kills, StillEnding, Ends
  <2> QED BY <2>1, <2>2 DEF Dead, AccessAccepted, RefreshAccepted
<1> QED BY <1>1, <1>2, <1>3, SessionsKeepType, PTL DEF TokenSpec

============================================================================
