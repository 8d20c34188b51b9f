----------------------------- MODULE ChatTurnProofs -----------------------------
(***************************************************************************)
(* The turns of the panel, for any number of prompts, panels, stops,       *)
(* failures and restarts: their types, what is left when they are over,    *)
(* the questions they keep, and the active turn; and what the panel keeps  *)
(* in a storage whose writes may fail.                                     *)
(*                                                                         *)
(* TurnInv says what a turn holds on to; QuietInv, which of the panels     *)
(* still waits for one.  StepGood is all that a step of the panel keeps,   *)
(* and there is one lemma per action that proves it.  StoreInv does the    *)
(* same for the storage.                                                   *)
(***************************************************************************)
EXTENDS ChatTurn, PanelStore, Integers, FiniteSetTheorems, SequenceTheorems, TLAPS

\* Every set of naturals that is not empty has a smallest element.
LEMMA SmallestOf ==
  ASSUME NEW T \in SUBSET Nat, T # {}
  PROVE  \E n \in T : \A m \in T : n <= m
<1> DEFINE Below(n) == 0..(n - 1)
           F == {Below(n) : n \in T}
<1>1. F \subseteq FiniteSubsetsOf(Nat) /\ F # {}
  <2>1. \A n \in T : Below(n) \in SUBSET Nat /\ IsFiniteSet(Below(n))
    BY FS_Interval
  <2> QED BY <2>1 DEF FiniteSubsetsOf
<1>2. PICK x \in F : \A y \in F : ~(<<y, x>> \in StrictSubsetOrdering(Nat))
  <2>1. IsWellFoundedOn(StrictSubsetOrdering(Nat), FiniteSubsetsOf(Nat))
    BY FS_StrictSubsetOrderingWellFounded
  <2> HIDE DEF F
  <2> QED BY <1>1, <2>1, WFMin
<1>3. PICK n \in T : x = Below(n)
  BY <1>2
<1>4. ASSUME NEW m \in T, ~(n <= m) PROVE FALSE
  <2>1. Below(m) \subseteq Below(n) /\ m \in Below(n) /\ m \notin Below(m)
    BY <1>4
  <2>2. Below(m) \in F /\ Below(m) \in SUBSET Nat /\ Below(n) \in SUBSET Nat
    OBVIOUS
  <2>3. <<Below(m), Below(n)>> \in StrictSubsetOrdering(Nat)
    BY <2>1, <2>2 DEF StrictSubsetOrdering
  <2> QED BY <1>2, <1>3, <2>2, <2>3
<1> QED BY <1>4

\* A finite set of n numbers from 1 on has an i-th one, for each i in 1..n.
LEMMA NthExists ==
  ASSUME NEW n \in Nat, NEW S \in SUBSET (1..n), NEW i \in 1..Cardinality(S)
  PROVE  Nth(S, i) \in S
<1> DEFINE Upto(k) == {j \in S : j <= k}
           T == {k \in Nat : Cardinality(Upto(k)) >= i}
<1>1. IsFiniteSet(S) /\ Cardinality(S) \in Nat
  <2>1. IsFiniteSet(1..n)
    BY FS_Interval
  <2>2. IsFiniteSet(S)
    BY <2>1, FS_Subset
  <2> QED BY <2>2, FS_CardinalityType
<1>2. \A k \in Nat : IsFiniteSet(Upto(k)) /\ Cardinality(Upto(k)) \in Nat
  BY <1>1, FS_Subset, FS_CardinalityType
<1>3. \A j \in S : j \in Nat /\ 1 <= j /\ j <= n
  OBVIOUS
<1>4. Upto(n) = S
  BY <1>3
<1>5. Upto(0) = {}
  <2>1. \A j \in S : ~(j <= 0)
    BY <1>3
  <2> QED BY <2>1, Zenon
<1>6. i \in Nat /\ 1 <= i /\ i <= Cardinality(S)
  BY <1>1
<1>7. PICK k \in T : \A m \in T : k <= m
  <2>1. n \in T
    BY <1>4, <1>6, <1>1
  <2>2. T \in SUBSET Nat /\ T # {}
    BY <2>1
  <2> HIDE DEF T
  <2> QED BY <2>2, SmallestOf
<1>8. k \in Nat /\ Cardinality(Upto(k)) >= i
  OBVIOUS
<1>9. k # 0
  BY <1>5, <1>6, <1>8, FS_EmptySet
<1>10. k - 1 \in Nat
  BY <1>8, <1>9
<1>11. k - 1 \notin T
  <2>1. k \in Nat /\ ~(k <= k - 1)
    BY <1>8
  <2> HIDE DEF T
  <2> QED BY <1>7, <2>1
<1>12. ~(Cardinality(Upto(k - 1)) >= i)
  BY <1>10, <1>11
<1>13. \A j \in S : j <= k <=> j <= k - 1 \/ j = k
  BY <1>3, <1>8
<1>14. k \in S
  <2>1. CASE k \notin S
    <3>1. Upto(k) = Upto(k - 1)
      BY <1>13, <2>1
    <3> QED BY <1>8, <1>12, <3>1
  <2> QED BY <2>1
<1>15. Upto(k) = Upto(k - 1) \cup {k} /\ k \notin Upto(k - 1)
  <2>1. ~(k <= k - 1) /\ k <= k
    BY <1>8
  <2> QED BY <1>13, <1>14, <2>1
<1>16. Cardinality(Upto(k)) = Cardinality(Upto(k - 1)) + 1
  <2> HIDE DEF Upto
  <2> QED BY <1>2, <1>10, <1>15, FS_AddElement
<1>17. Cardinality(Upto(k)) = i
  <2> HIDE DEF Upto
  <2>1. Cardinality(Upto(k)) \in Nat /\ Cardinality(Upto(k - 1)) \in Nat
    BY <1>2, <1>8, <1>10
  <2> QED BY <1>6, <1>8, <1>12, <1>16, <2>1
<1> QED BY <1>14, <1>17 DEF Nth

----------------------------------------------------------------------------
\* What the turns do with messages.
LEMMA FinishedTyped == ASSUME NEW chat \in Seq(Messages) PROVE Finished(chat) \in Seq(Messages)
<1> DEFINE rests == {k \in 1..Len(chat) : chat[k] \notin live}
           n == Cardinality(rests)
<1>1. IsFiniteSet(rests)
  <2>1. IsFiniteSet(1..Len(chat))
    BY FS_Interval
  <2> QED BY <2>1, FS_Subset
<1>2. n \in Nat
  BY <1>1, FS_CardinalityType
<1>3. \A i \in 1..n : Nth(rests, i) \in rests
  <2> HIDE DEF rests
  <2>1. Len(chat) \in Nat
    OBVIOUS
  <2>2. rests \in SUBSET (1..Len(chat))
    BY DEF rests
  <2> QED BY <2>1, <2>2, NthExists
<1>4. \A i \in 1..n : chat[Nth(rests, i)] \in Messages
  BY <1>3
<1>5. [i \in 1..n |-> chat[Nth(rests, i)]] \in Seq(Messages)
  <2> HIDE DEF n, rests
  <2> QED BY <1>2, <1>4
<1> QED BY <1>5 DEF Finished

LEMMA UserAtFinite ==
  ASSUME NEW chat \in Seq(Messages)
  PROVE  IsFiniteSet(UserAt(chat)) /\ Cardinality(UserAt(chat)) \in Nat /\ UserAt(chat) \in SUBSET (1..Len(chat))
<1>1. IsFiniteSet(1..Len(chat))
  BY FS_Interval
<1>2. UserAt(chat) \in SUBSET (1..Len(chat))
  BY DEF UserAt
<1>3. IsFiniteSet(UserAt(chat))
  BY <1>1, <1>2, FS_Subset
<1> QED BY <1>2, <1>3, FS_CardinalityType

LEMMA RecentTyped ==
  ASSUME NEW chat \in Seq(Messages), NeedsCompaction(chat)
  PROVE  Recent(chat) \in Seq(Messages)
<1> DEFINE c == Cardinality(UserAt(chat))
<1>1. c \in Nat /\ UserAt(chat) \in SUBSET (1..Len(chat)) /\ Len(chat) \in Nat
  BY UserAtFinite
<1>2. c >= CompactAt
  BY DEF NeedsCompaction
<1>3. c - KeepRecent + 1 \in 1..c
  <2> HIDE DEF c
  <2> QED BY <1>1, <1>2, TurnAssumption
<1>4. RecentStart(chat) \in UserAt(chat)
  BY <1>1, <1>3, NthExists DEF RecentStart
<1>5. RecentStart(chat) \in 1..Len(chat)
  BY <1>1, <1>4
<1> QED BY <1>5, SubSeqProperties DEF Recent

LEMMA MessageTyped ==
  \A k \in Kinds, t \in 0..MaxTurns : Message(k, t) \in Messages /\ Message(k, t).kind = k
BY DEF Message, Messages

LEMMA NormalizedTyped ==
  ASSUME NEW chat \in Seq(Messages)
  PROVE  Normalized(chat) \in Seq(Messages)
<1> DEFINE Read(m) == IF m.kind = "user" THEN m ELSE Message("old", m.turn)
<1>1. \A m \in Messages : Read(m) \in Messages
  <2> SUFFICES ASSUME NEW m \in Messages PROVE Read(m) \in Messages
    OBVIOUS
  <2>1. m.turn \in 0..MaxTurns
    BY DEF Messages
  <2>2. Message("old", m.turn) \in Messages
    BY <2>1, MessageTyped DEF Kinds
  <2> QED BY <2>2
<1>2. \A k \in 1..Len(chat) : Read(chat[k]) \in Messages
  <2> HIDE DEF Read
  <2> QED BY <1>1
<1>3. [k \in 1..Len(chat) |-> Read(chat[k])] \in Seq(Messages)
  <2> HIDE DEF Read
  <2> QED BY <1>2
<1> QED BY <1>3 DEF Normalized

----------------------------------------------------------------------------
\* What is shown and stored.
DisplayOK ==
  /\ panels \in Seq(PanelRecords) /\ shown \in 1..Len(panels)
  /\ busy \in BOOLEAN /\ stored \in Seq(Seq(Messages)) /\ kept \in 1..Len(stored)
  /\ live \in SUBSET Messages

\* A state or message of panel p changes.
LEMMA PutTyped ==
  ASSUME TypeOK, NEW p \in 1..Len(panels), NEW run \in Runs, NEW chat \in Seq(Messages)
  PROVE  /\ Put(p, run, chat) \in Seq(PanelRecords) /\ Len(Put(p, run, chat)) = Len(panels)
         /\ Put(p, run, chat)[p].run = run /\ Put(p, run, chat)[p].chat = chat
         /\ \A q \in 1..Len(panels) \ {p} : Put(p, run, chat)[q] = panels[q]
<1> DEFINE r == [run |-> run, chat |-> chat, session |-> panels[p].session]
<1>1. panels \in Seq(PanelRecords)
  BY DEF TypeOK
<1>2. panels[p] \in PanelRecords
  BY <1>1
<1>3. r \in PanelRecords /\ r.run = run /\ r.chat = chat
  BY <1>2 DEF PanelRecords
<1>4. Put(p, run, chat) = [panels EXCEPT ![p] = r]
  BY DEF Put
<1> HIDE DEF r
<1>5. /\ [panels EXCEPT ![p] = r] \in Seq(PanelRecords) /\ Len([panels EXCEPT ![p] = r]) = Len(panels)
      /\ [panels EXCEPT ![p] = r][p] = r
      /\ \A q \in 1..Len(panels) \ {p} : [panels EXCEPT ![p] = r][q] = panels[q]
  BY <1>1, <1>3, ExceptSeq
<1> QED BY <1>3, <1>4, <1>5

LEMMA CommitTyped ==
  ASSUME TypeOK, NEW ps \in Seq(PanelRecords), NEW p \in 1..Len(ps), NEW lv \in SUBSET Messages,
         Commit(ps, p, lv)
  PROVE  /\ DisplayOK' /\ Len(stored') = Len(stored) /\ PanelRecords' = PanelRecords
         /\ panels' = ps /\ shown' = p /\ live' \subseteq lv /\ busy' = (ps[p].run # "settled")
         /\ ps[p].run = "settled" => live' \cap Elements(ps[p].chat) = {}
<1>1. panels' = ps /\ shown' = p /\ busy' = (ps[p].run # "settled")
  BY DEF Commit
<1>2. live' \subseteq lv /\ (ps[p].run = "settled" => live' \cap Elements(ps[p].chat) = {})
  BY DEF Commit
<1>3. ps[p] \in PanelRecords
  OBVIOUS
<1>4. ps[p].session \in 1..Len(stored) /\ ps[p].chat \in Seq(Messages)
  BY <1>3 DEF PanelRecords
<1>5. stored' \in Seq(Seq(Messages)) /\ Len(stored') = Len(stored) /\ kept' \in 1..Len(stored)
  <2>1. CASE ps[p].run # "settled"
    BY <2>1 DEF Commit, disk, TypeOK
  <2>2. CASE ps[p].run = "settled"
    <3>1. stored' = [stored EXCEPT ![ps[p].session] = Normalized(ps[p].chat)] /\ kept' = ps[p].session
      BY <2>2 DEF Commit
    <3>2. Normalized(ps[p].chat) \in Seq(Messages)
      BY <1>4, NormalizedTyped
    <3>3. stored \in Seq(Seq(Messages))
      BY DEF TypeOK
    <3>4. stored' \in Seq(Seq(Messages)) /\ Len(stored') = Len(stored)
      BY <1>4, <3>1, <3>2, <3>3, ExceptSeq
    <3> QED BY <1>4, <3>1, <3>4
  <2> QED BY <2>1, <2>2
<1>6. PanelRecords' = PanelRecords
  BY <1>5 DEF PanelRecords
<1>7. DisplayOK'
  BY <1>1, <1>2, <1>5, <1>6 DEF DisplayOK
<1> QED BY <1>1, <1>2, <1>5, <1>6, <1>7

----------------------------------------------------------------------------
\* A turn that has begun holds on to messages that end with its bubble, and
\* its panel is not empty.
Begun == {"delay", "context", "asking"}
Bubble(t) ==
  /\ turn[t].own # <<>> /\ turn[t].own[Len(turn[t].own)].kind = "pending"
  /\ panels[turn[t].panel].chat # <<>>
Bubbles == \A t \in Turns : turn[t].pc \in Begun => Bubble(t)
TurnInv == TypeOK /\ Bubbles

\* No panel loses all its messages.
PanelsStay ==
  \A p \in 1..Len(panels) : p \in 1..Len(panels') /\ (panels[p].chat # <<>> => panels'[p].chat # <<>>)
\* A turn under way holds on to what it held on to, or to a bubble.
TurnsStay ==
  \A t \in Turns : turn'[t].pc \in Begun =>
    \/ turn[t].pc \in Begun /\ turn'[t].own = turn[t].own /\ turn'[t].panel = turn[t].panel
    \/ Bubble(t)'
\* The rest of the state has its type after a step.
RestOK ==
  /\ active' \in 0..MaxTurns /\ ctrl' \in 0..MaxTurns /\ aborted' \in SUBSET Turns
  /\ turn' \in [Turns -> TurnRecords] /\ timers' \in SUBSET Turns
  /\ op' \in OpRecords \cup OpRecords' /\ ops' \in Nat

LEMMA TurnFacts ==
  ASSUME TypeOK, NEW t \in Turns
  PROVE  /\ turn[t] \in TurnRecords /\ turn[t].panel \in 1..Len(panels) /\ turn[t].own \in Seq(Messages)
         /\ turn[t] = [pc |-> turn[t].pc, panel |-> turn[t].panel, own |-> turn[t].own, ctl |-> turn[t].ctl]
         /\ turn[t].ctl \in 0..MaxTurns
<1>1. turn[t] \in TurnRecords
  BY DEF TypeOK
<1> QED BY <1>1 DEF TurnRecords

LEMMA PanelFacts ==
  ASSUME TypeOK, NEW p \in 1..Len(panels)
  PROVE  panels[p] \in PanelRecords /\ panels[p].run \in Runs /\ panels[p].chat \in Seq(Messages)
<1>1. panels[p] \in PanelRecords
  BY DEF TypeOK
<1> QED BY <1>1 DEF PanelRecords

LEMMA InvKept ==
  ASSUME TurnInv, DisplayOK', RestOK, PanelsStay, TurnsStay
  PROVE  TurnInv'
<1>1. panels \in Seq(PanelRecords) /\ panels' \in Seq(PanelRecords') /\ turn \in [Turns -> TurnRecords]
  BY DEF TurnInv, TypeOK, DisplayOK
<1>2. Len(panels) \in Nat /\ Len(panels') \in Nat
  BY <1>1
<1>3. 1..Len(panels) \subseteq 1..Len(panels')
  BY DEF PanelsStay
<1>4. TurnRecords \subseteq TurnRecords'
  BY <1>3 DEF TurnRecords
<1>5. turn' \in [Turns -> TurnRecords']
  BY <1>4 DEF RestOK
<1>6. TypeOK'
  <2>1. op' \in OpRecords'
    BY <1>3 DEF RestOK, OpRecords
  <2> QED BY <1>5, <2>1 DEF TypeOK, DisplayOK, RestOK
<1>7. ASSUME NEW t \in Turns, turn'[t].pc \in Begun PROVE Bubble(t)'
  <2>1. CASE turn[t].pc \in Begun /\ turn'[t].own = turn[t].own /\ turn'[t].panel = turn[t].panel
    <3>1. Bubble(t)
      BY <2>1 DEF TurnInv, Bubbles
    <3>2. turn[t].panel \in 1..Len(panels)
      BY TurnFacts DEF TurnInv
    <3> QED BY <2>1, <3>1, <3>2 DEF Bubble, PanelsStay
  <2> QED BY <1>7, <2>1 DEF TurnsStay
<1> QED BY <1>6, <1>7 DEF TurnInv, Bubbles

\* The turn of one prompt gets another record.
LEMMA TurnChanges ==
  ASSUME TypeOK, NEW t \in Turns, NEW r \in TurnRecords, turn' = [turn EXCEPT ![t] = r]
  PROVE  /\ turn' \in [Turns -> TurnRecords] /\ turn'[t] = r
         /\ \A u \in Turns \ {t} : turn'[u] = turn[u]
BY DEF TypeOK

LEMMA PcChanges ==
  ASSUME TypeOK, NEW t \in Turns, NEW pc \in {"compacting", "delay", "context", "asking", "done", "elsewhere", "lost"},
         turn' = [turn EXCEPT ![t].pc = pc]
  PROVE  /\ turn' \in [Turns -> TurnRecords] /\ turn'[t].pc = pc
         /\ turn'[t].own = turn[t].own /\ turn'[t].panel = turn[t].panel
         /\ \A u \in Turns \ {t} : turn'[u] = turn[u]
<1>1. turn[t] = [pc |-> turn[t].pc, panel |-> turn[t].panel, own |-> turn[t].own, ctl |-> turn[t].ctl]
  BY TurnFacts
<1> DEFINE r == [pc |-> pc, panel |-> turn[t].panel, own |-> turn[t].own, ctl |-> turn[t].ctl]
<1>2. [turn[t] EXCEPT !.pc = pc] = r
  BY <1>1
<1>3. r \in TurnRecords
  BY TurnFacts DEF TurnRecords
<1>4. turn' = [turn EXCEPT ![t] = r]
  BY <1>2
<1>5. r.pc = pc /\ r.own = turn[t].own /\ r.panel = turn[t].panel
  OBVIOUS
<1> HIDE DEF r
<1> QED BY <1>3, <1>4, <1>5, TurnChanges

\* Messages appended to messages.
LEMMA AppendTyped ==
  ASSUME NEW chat \in Seq(Messages), NEW m \in Messages
  PROVE  /\ Append(chat, m) \in Seq(Messages) /\ Append(chat, m) # <<>>
         /\ Elements(chat) \subseteq Elements(Append(chat, m))
<1>1. /\ Append(chat, m) \in Seq(Messages) /\ Len(Append(chat, m)) = Len(chat) + 1
      /\ \A k \in 1..Len(chat) : Append(chat, m)[k] = chat[k]
  BY AppendProperties
<1>2. Len(chat) \in Nat /\ Append(chat, m) # <<>>
  BY <1>1
<1>3. 1..Len(chat) \subseteq 1..Len(Append(chat, m))
  BY <1>1, <1>2
<1> QED BY <1>1, <1>2, <1>3 DEF Elements

\* What a turn ends with: the questions it held on to are all there.
LEMMA ReplaceTyped ==
  ASSUME TurnInv, NEW t \in Turns, turn[t].pc \in Begun, NEW msg \in Messages
  PROVE  /\ ReplacePending(t, msg) \in Seq(Messages) /\ ReplacePending(t, msg) # <<>>
         /\ Questions(turn[t].own) \subseteq Questions(ReplacePending(t, msg))
<1> DEFINE own == turn[t].own
           cut == SubSeq(own, 1, Len(own) - 1)
<1>1. own \in Seq(Messages) /\ own # <<>> /\ own[Len(own)].kind = "pending"
  BY TurnFacts DEF TurnInv, Bubbles, Bubble
<1> HIDE DEF own
<1>2. Len(own) \in Nat /\ Len(own) - 1 \in 0..Len(own) /\ Len(own) - 1 <= Len(own)
  BY <1>1, EmptySeq
<1>3. /\ cut \in Seq(Messages) /\ Len(cut) = Len(own) - 1
      /\ \A k \in 1..(Len(own) - 1) : cut[k] = own[k]
  <2> DEFINE n == Len(own) - 1
  <2>1. n \in Nat /\ n \in 1 - 1..Len(own)
    BY <1>2
  <2> HIDE DEF n
  <2>2. /\ SubSeq(own, 1, n) \in Seq(Messages) /\ Len(SubSeq(own, 1, n)) = n
        /\ \A k \in 1..n : SubSeq(own, 1, n)[k] = own[k]
    BY <1>1, <2>1, SubSeqProperties
  <2> QED BY <2>2 DEF n
<1>4. Questions(own) \subseteq Questions(cut)
  <2> SUFFICES ASSUME NEW k \in 1..Len(own), own[k].kind = "user" PROVE own[k] \in Elements(cut)
    BY DEF Questions, Elements
  <2>1. k # Len(own)
    BY <1>1
  <2>2. k \in 1..(Len(own) - 1)
    BY <1>2, <2>1
  <2> QED BY <1>3, <2>2 DEF Elements
<1>5. ReplacePending(t, msg) = Append(IF own[Len(own)] \in live THEN cut ELSE own, msg)
  BY DEF ReplacePending, own
<1>6. CASE own[Len(own)] \in live
  <2>1. ReplacePending(t, msg) = Append(cut, msg)
    BY <1>5, <1>6
  <2> HIDE DEF cut
  <2> QED BY <1>3, <1>4, <2>1, AppendTyped DEF Questions, own
<1>7. CASE own[Len(own)] \notin live
  <2>1. ReplacePending(t, msg) = Append(own, msg)
    BY <1>5, <1>7
  <2> QED BY <1>1, <2>1, AppendTyped DEF Questions, own
<1> QED BY <1>6, <1>7

----------------------------------------------------------------------------
\* The panels that are shown, or that a turn may show again.
OpPanels == IF op.kind = "none" THEN {} ELSE {op.panel}
OnScreen == {shown} \cup {turn[t].panel : t \in InFlight \cup timers} \cup OpPanels
Held == Begun \cup {"elsewhere"}
Analysing(p) == op.kind = "analysis" /\ op.panel = p
HeldBy(p) == Analysing(p) \/ \E t \in Turns : turn[t].panel = p /\ turn[t].pc \in Held
\* One that waits has a turn or an analysis that will settle it, or a turn that
\* settled another.
Waits == \A p \in OnScreen : panels[p].run # "settled" => HeldBy(p)
\* If the panel on screen has settled and streams, a commit will come.
Streams ==
  panels[shown].run = "settled" /\ live \cap Elements(panels[shown].chat) # {} =>
    timers # {} \/ op.kind = "analysis"
\* The composer is busy with the panel on screen, or with a compaction.
BusyFor == busy => panels[shown].run # "settled" \/ \E t \in Turns : turn[t].pc \in {"compacting", "lost"}
QuietInv == Waits /\ Streams /\ BusyFor

\* What SeenQuestionsStay says of one step.
Seen == \A p \in 1..Len(panels) : \A q \in Lost(p) : Forgotten(q) \/ Replaced(p)
StepGood == TurnInv' /\ (QuietInv => QuietInv') /\ Seen

LEMMA OnScreenTyped == ASSUME TypeOK PROVE OnScreen \subseteq 1..Len(panels)
<1>1. \A t \in InFlight \cup timers : t \in Turns
  BY DEF InFlight, TypeOK
<1>2. \A t \in InFlight \cup timers : turn[t].panel \in 1..Len(panels)
  BY <1>1, TurnFacts
<1>3. shown \in 1..Len(panels) /\ op.panel \in 1..Len(panels)
  BY DEF TypeOK, OpRecords
<1> QED BY <1>2, <1>3 DEF OnScreen, OpPanels

LEMMA QuietImplies == ASSUME TypeOK, QuietInv PROVE QuietIsSettled
<1> SUFFICES ASSUME InFlight = {}, timers = {}, op = NoOp, ~Abandoned
             PROVE  ~busy /\ panels[shown].run = "settled" /\ live \cap Elements(panels[shown].chat) = {}
  BY DEF QuietIsSettled
<1>1. \A t \in Turns : turn[t].pc \notin Held /\ turn[t].pc \notin {"compacting", "lost"}
  BY DEF InFlight, Abandoned, Held, Begun
<1>2. panels[shown].run = "settled"
  <2>1. op.kind # "analysis"
    BY DEF NoOp
  <2> QED BY <1>1, <2>1 DEF QuietInv, Waits, OnScreen, HeldBy, Analysing
<1>3. ~busy
  BY <1>1, <1>2 DEF QuietInv, BusyFor, TypeOK
<1>4. live \cap Elements(panels[shown].chat) = {}
  BY <1>2 DEF QuietInv, Streams, NoOp
<1> QED BY <1>2, <1>3, <1>4

\* What a commit shows is quiet, if what waits is held.
LEMMA QuietCommit ==
  ASSUME NEW ps, NEW p, panels' = ps, shown' = p, busy' = (ps[p].run # "settled"),
         ps[p].run = "settled" => live' \cap Elements(ps[p].chat) = {},
         Waits'
  PROVE  QuietInv'
<1>1. Streams'
  BY DEF Streams
<1>2. BusyFor'
  BY DEF BusyFor
<1> QED BY <1>1, <1>2 DEF QuietInv

LEMMA WaitsKept ==
  ASSUME Waits,
         \A q \in OnScreen' : panels'[q].run # "settled" =>
           (q \in OnScreen /\ panels[q].run # "settled") \/ HeldBy(q)',
         \A t \in Turns : turn[t].pc \in Held =>
           \/ turn'[t].panel = turn[t].panel /\ turn'[t].pc \in Held
           \/ panels'[turn[t].panel].run = "settled",
         op.kind = "analysis" =>
           (op'.kind = "analysis" /\ op'.panel = op.panel) \/ panels'[op.panel].run = "settled"
  PROVE  Waits'
<1> SUFFICES ASSUME NEW q \in OnScreen', panels'[q].run # "settled" PROVE HeldBy(q)'
  BY DEF Waits
<1>1. CASE q \in OnScreen /\ panels[q].run # "settled"
  <2>1. CASE Analysing(q)
    BY <2>1 DEF HeldBy, Analysing
  <2>2. CASE \E t \in Turns : turn[t].panel = q /\ turn[t].pc \in Held
    <3>1. PICK t \in Turns : turn[t].panel = q /\ turn[t].pc \in Held
      BY <2>2
    <3>2. turn'[t].panel = q /\ turn'[t].pc \in Held
      BY <3>1
    <3> QED BY <3>2 DEF HeldBy
  <2> QED BY <1>1, <2>1, <2>2 DEF Waits, HeldBy
<1> QED BY <1>1

\* A turn begins in panel p, after these messages.
LEMMA BeginGood ==
  ASSUME TurnInv, NEW t \in Turns, turn[t].pc \in {"unsent", "compacting"},
         NEW p \in 1..Len(panels), p \in OnScreen, NEW chat \in Seq(Messages),
         Begin(t, p, chat), UNCHANGED <<internals, timers, op, ops>>,
         \A q \in Questions(panels[p].chat) :
           q \in Elements(chat) \/ (t \in InFlight /\ q \notin Elements(turn[t].own))
  PROVE  StepGood
<1> DEFINE own == chat \o <<Message("user", t), Message("pending", t)>>
           r == [pc |-> "delay", panel |-> p, own |-> own, ctl |-> 0]
           ps == Put(p, "planning", own)
           lv == live \cup {Message("pending", t)}
<1>1. t \in 0..MaxTurns
  BY TurnAssumption DEF Turns
<1>2. /\ Message("user", t) \in Messages /\ Message("pending", t) \in Messages
      /\ Message("pending", t).kind = "pending"
  BY <1>1, MessageTyped DEF Kinds
<1>3. own = Append(Append(chat, Message("user", t)), Message("pending", t))
  OBVIOUS
<1>4. /\ own \in Seq(Messages) /\ own # <<>> /\ own[Len(own)].kind = "pending"
      /\ Elements(chat) \subseteq Elements(own)
  <2> DEFINE one == Append(chat, Message("user", t))
             two == Append(one, Message("pending", t))
  <2>1. one \in Seq(Messages) /\ Elements(chat) \subseteq Elements(one)
    BY <1>2, AppendTyped
  <2> HIDE DEF one
  <2>2. two \in Seq(Messages) /\ two # <<>> /\ Elements(one) \subseteq Elements(two)
    BY <1>2, <2>1, AppendTyped
  <2>3. two[Len(two)] = Message("pending", t)
    BY <1>2, <2>1, AppendProperties
  <2>4. own = two
    BY <1>3 DEF one
  <2> HIDE DEF two, own
  <2> QED BY <1>2, <2>1, <2>2, <2>3, <2>4
<1> HIDE DEF own
<1>5. r \in TurnRecords /\ r.pc = "delay" /\ r.panel = p /\ r.own = own
  BY <1>4, TurnAssumption DEF TurnRecords
<1>6. turn' = [turn EXCEPT ![t] = r] /\ Commit(ps, p, lv)
  BY DEF Begin, own
<1> HIDE DEF r
<1>7. /\ turn' \in [Turns -> TurnRecords] /\ turn'[t] = r
      /\ \A u \in Turns \ {t} : turn'[u] = turn[u]
  BY <1>5, <1>6, TurnChanges DEF TurnInv
<1>8. /\ ps \in Seq(PanelRecords) /\ Len(ps) = Len(panels) /\ ps[p].run = "planning" /\ ps[p].chat = own
      /\ \A q \in 1..Len(panels) \ {p} : ps[q] = panels[q]
  BY <1>4, PutTyped DEF TurnInv, Runs
<1>9. lv \in SUBSET Messages
  BY <1>2 DEF TurnInv, TypeOK
<1> HIDE DEF ps, lv
<1>10. /\ DisplayOK' /\ panels' = ps /\ shown' = p /\ busy' = (ps[p].run # "settled")
       /\ ps[p].run = "settled" => live' \cap Elements(ps[p].chat) = {}
  BY <1>6, <1>8, <1>9, CommitTyped DEF TurnInv
<1>11. PanelsStay
  BY <1>4, <1>8, <1>10 DEF PanelsStay
<1>12. Bubble(t)'
  BY <1>4, <1>5, <1>7, <1>8, <1>10 DEF Bubble
<1>13. TurnsStay
  BY <1>7, <1>12 DEF TurnsStay
<1>14. RestOK
  BY <1>7 DEF RestOK, internals, TurnInv, TypeOK, OpRecords
<1>15. TurnInv'
  BY <1>10, <1>11, <1>13, <1>14, InvKept
<1>16. ASSUME QuietInv PROVE QuietInv'
  <2>1. HeldBy(p)'
    BY <1>5, <1>7 DEF HeldBy, Held, Begun
  <2>2. ASSUME NEW q \in OnScreen', q # p PROVE q \in OnScreen
    <3> SUFFICES ASSUME q \notin OpPanels PROVE q \in OnScreen
      BY DEF OnScreen
    <3>1. PICK u \in InFlight' \cup timers' : q = turn'[u].panel
      BY <1>10, <2>2 DEF OnScreen, OpPanels
    <3>2. u \in Turns /\ u # t
      BY <1>5, <1>7, <1>14, <2>2, <3>1 DEF InFlight, RestOK
    <3>3. turn'[u] = turn[u] /\ u \in InFlight \cup timers
      BY <1>7, <3>1, <3>2 DEF InFlight
    <3> QED BY <3>1, <3>3 DEF OnScreen
  <2>3. \A q \in OnScreen' : q # p => q \in 1..Len(panels)
    BY <2>2, OnScreenTyped DEF TurnInv
  <2>4. Waits'
    <3>1. \A q \in OnScreen' : panels'[q].run # "settled" =>
            (q \in OnScreen /\ panels[q].run # "settled") \/ HeldBy(q)'
      BY <1>8, <1>10, <2>1, <2>2, <2>3
    <3>2. \A u \in Turns : turn[u].pc \in Held => turn'[u] = turn[u]
      BY <1>7 DEF Held, Begun
    <3> QED BY <1>16, <3>1, <3>2, WaitsKept DEF QuietInv
  <2> QED BY <1>10, <2>4, QuietCommit
<1>17. Seen
  <2> SUFFICES ASSUME NEW x \in 1..Len(panels), NEW q \in Lost(x)
               PROVE  Forgotten(q)
    BY DEF Seen
  <2>1. x = p
    BY <1>8, <1>10 DEF Lost
  <2>2. q \in Questions(panels[p].chat) /\ q \notin Questions(own)
    BY <1>8, <1>10, <2>1 DEF Lost
  <2>3. q \notin Elements(chat)
    BY <1>4, <2>2 DEF Questions
  <2>4. t \in InFlight /\ q \notin Elements(turn[t].own)
    BY <2>2, <2>3
  <2>5. turn'[t] # turn[t]
    BY <1>5, <1>7
  <2> QED BY <2>4, <2>5 DEF Forgotten
<1> QED BY <1>15, <1>16, <1>17 DEF StepGood

\* A turn ends in panel p with msg.
LEMMA EndGood ==
  ASSUME TurnInv, NEW t \in Turns, turn[t].pc \in {"context", "asking"},
         NEW p \in 1..Len(panels), NEW k \in Kinds, NEW lv \in SUBSET Messages,
         End(t, p, Message(k, t), lv), aborted' \in SUBSET Turns, timers' \in SUBSET timers,
         UNCHANGED <<op, ops>>
  PROVE  StepGood
<1> DEFINE msg == Message(k, t)
           chat == ReplacePending(t, msg)
           ps == Put(p, "settled", chat)
           pc == IF p = turn[t].panel THEN "done" ELSE "elsewhere"
<1>1. t \in 0..MaxTurns /\ MaxTurns \in Nat
  BY TurnAssumption DEF Turns
<1>2. msg \in Messages
  BY <1>1, MessageTyped
<1> HIDE DEF msg
<1>3. turn[t].pc \in Begun
  BY DEF Begun
<1>4. chat \in Seq(Messages) /\ chat # <<>> /\ Questions(turn[t].own) \subseteq Questions(chat)
  BY <1>2, <1>3, ReplaceTyped
<1>5. turn' = [turn EXCEPT ![t].pc = pc] /\ Commit(ps, p, lv)
  BY DEF End, msg
<1>6. pc \in {"done", "elsewhere"} /\ (p # turn[t].panel => pc = "elsewhere")
  OBVIOUS
<1> HIDE DEF chat, pc
<1>7. /\ turn' \in [Turns -> TurnRecords] /\ turn'[t].pc = pc
      /\ turn'[t].own = turn[t].own /\ turn'[t].panel = turn[t].panel
      /\ \A u \in Turns \ {t} : turn'[u] = turn[u]
  BY <1>5, <1>6, PcChanges DEF TurnInv
<1>8. /\ ps \in Seq(PanelRecords) /\ Len(ps) = Len(panels) /\ ps[p].run = "settled" /\ ps[p].chat = chat
      /\ \A q \in 1..Len(panels) \ {p} : ps[q] = panels[q]
  BY <1>4, PutTyped DEF TurnInv, Runs
<1> HIDE DEF ps
<1>9. /\ DisplayOK' /\ panels' = ps /\ shown' = p /\ busy' = (ps[p].run # "settled")
      /\ ps[p].run = "settled" => live' \cap Elements(ps[p].chat) = {}
  BY <1>5, <1>8, CommitTyped DEF TurnInv
<1>10. PanelsStay
  BY <1>4, <1>8, <1>9 DEF PanelsStay
<1>11. TurnsStay
  BY <1>6, <1>7 DEF TurnsStay, Begun
<1>12. RestOK
  <2>1. active' \in 0..MaxTurns /\ ctrl' \in 0..MaxTurns
    BY <1>1 DEF End, TurnInv, TypeOK
  <2> QED BY <1>7, <2>1 DEF RestOK, TurnInv, TypeOK, OpRecords
<1>13. TurnInv'
  BY <1>9, <1>10, <1>11, <1>12, InvKept
<1>14. ASSUME QuietInv PROVE QuietInv'
  <2>1. ASSUME NEW q \in OnScreen', q # p PROVE q \in OnScreen
    <3> SUFFICES ASSUME q \notin OpPanels PROVE q \in OnScreen
      BY DEF OnScreen
    <3>1. PICK u \in InFlight' \cup timers' : q = turn'[u].panel
      BY <1>9, <2>1 DEF OnScreen, OpPanels
    <3>2. u \in InFlight \cup timers
      BY <1>6, <1>7, <3>1 DEF InFlight
    <3>3. u \in Turns /\ turn'[u].panel = turn[u].panel
      BY <1>7, <3>2 DEF InFlight, TurnInv, TypeOK
    <3> QED BY <3>1, <3>2, <3>3 DEF OnScreen
  <2>2. \A q \in OnScreen' : panels'[q].run # "settled" => q \in OnScreen /\ panels[q].run # "settled"
    BY <1>8, <1>9, <2>1, OnScreenTyped DEF TurnInv
  <2>3. \A u \in Turns : turn[u].pc \in Held =>
          \/ turn'[u].panel = turn[u].panel /\ turn'[u].pc \in Held
          \/ panels'[turn[u].panel].run = "settled"
    BY <1>6, <1>7, <1>8, <1>9 DEF Held
  <2>4. Waits'
    BY <1>14, <2>2, <2>3, WaitsKept DEF QuietInv
  <2> QED BY <1>9, <2>4, QuietCommit
<1>15. Seen
  <2> SUFFICES ASSUME NEW x \in 1..Len(panels), NEW q \in Lost(x)
               PROVE  Forgotten(q)
    BY DEF Seen
  <2>1. x = p
    BY <1>8, <1>9 DEF Lost
  <2>2. q \notin Questions(chat) /\ q.kind = "user"
    BY <1>8, <1>9, <2>1 DEF Lost, Questions
  <2>3. q \notin Elements(turn[t].own)
    BY <1>4, <2>2 DEF Questions
  <2>4. t \in InFlight /\ turn'[t] # turn[t]
    BY <1>6, <1>7 DEF InFlight
  <2> QED BY <2>3, <2>4 DEF Forgotten
<1> QED BY <1>13, <1>14, <1>15 DEF StepGood

\* A commit that ends no turn.
LEMMA CommitGood ==
  ASSUME TurnInv, NEW ps \in Seq(PanelRecords), NEW p \in 1..Len(ps), NEW lv \in SUBSET Messages,
         Commit(ps, p, lv), RestOK, TurnsStay,
         \A q \in 1..Len(panels) : q \in 1..Len(ps) /\ (panels[q].chat # <<>> => ps[q].chat # <<>>),
         QuietInv => Waits',
         \A q \in 1..Len(panels) : Questions(panels[q].chat) \subseteq Questions(ps[q].chat) \/ Replaced(q)
  PROVE  StepGood
<1>1. /\ DisplayOK' /\ panels' = ps /\ shown' = p /\ busy' = (ps[p].run # "settled")
      /\ ps[p].run = "settled" => live' \cap Elements(ps[p].chat) = {}
  BY CommitTyped DEF TurnInv
<1>2. PanelsStay
  BY <1>1 DEF PanelsStay
<1>3. TurnInv'
  BY <1>1, <1>2, InvKept
<1>4. QuietInv => QuietInv'
  BY <1>1, QuietCommit
<1>5. Seen
  BY <1>1 DEF Lost, Seen
<1> QED BY <1>3, <1>4, <1>5 DEF StepGood

\* The operation goes on, or ends, an analysis by settling its panel.
OpStays(ps) ==
  /\ ops' = ops
  /\ op' = op \/ (op' = NoOp /\ (op.kind = "analysis" => ps[op.panel].run = "settled"))

\* A commit that leaves the turns alone, and shows a panel that a turn may
\* show, or that has settled.
LEMMA ShowsGood ==
  ASSUME TurnInv, NEW ps \in Seq(PanelRecords), NEW p \in 1..Len(ps), NEW lv \in SUBSET Messages,
         Commit(ps, p, lv), turn' = turn, timers' \in SUBSET timers,
         active' \in 0..MaxTurns, ctrl' \in 0..MaxTurns, aborted' \in SUBSET Turns,
         OpStays(ps), p \in OnScreen \/ ps[p].run = "settled",
         \A q \in 1..Len(panels) :
           /\ q \in 1..Len(ps) /\ (panels[q].chat # <<>> => ps[q].chat # <<>>)
           /\ ps[q].run = panels[q].run \/ ps[q].run = "settled" \/ (Analysing(q) /\ op' = op)
           /\ Questions(panels[q].chat) \subseteq Questions(ps[q].chat) \/ Replaced(q)
  PROVE  StepGood
<1>0. op' = op \/ op' = NoOp
  BY DEF OpStays
<1>1. RestOK
  <2>1. op \in OpRecords /\ ops' \in Nat /\ shown \in 1..Len(panels) /\ Len(panels) \in Nat
    BY DEF TurnInv, TypeOK, OpStays
  <2>2. NoOp \in OpRecords
    BY <2>1 DEF NoOp, OpRecords, OpKinds
  <2> QED BY <1>0, <2>1, <2>2 DEF RestOK, TurnInv, TypeOK
<1>2. TurnsStay
  BY DEF TurnsStay
<1>3. panels' = ps /\ shown' = p
  BY DEF Commit
<1>4. ASSUME QuietInv PROVE Waits'
  <2>1. InFlight' = InFlight
    BY DEF InFlight
  <2>2. OpPanels' \subseteq OpPanels
    BY <1>0 DEF OpPanels, NoOp
  <2>3. \A q \in OnScreen' : q = p \/ q \in OnScreen
    BY <1>3, <2>1, <2>2 DEF OnScreen
  <2>4. ASSUME NEW q \in OnScreen', panels'[q].run # "settled"
        PROVE  (q \in OnScreen /\ panels[q].run # "settled") \/ HeldBy(q)'
    <3>1. q \in OnScreen
      BY <1>3, <2>3, <2>4
    <3>2. q \in 1..Len(panels)
      BY <3>1, OnScreenTyped DEF TurnInv
    <3>3. CASE Analysing(q) /\ op' = op
      BY <3>3 DEF HeldBy, Analysing
    <3> QED BY <1>3, <2>4, <3>1, <3>2, <3>3
  <2>5. op.kind = "analysis" =>
          (op'.kind = "analysis" /\ op'.panel = op.panel) \/ panels'[op.panel].run = "settled"
    BY <1>3 DEF OpStays
  <2> QED BY <1>4, <2>4, <2>5, WaitsKept DEF QuietInv
<1> QED BY <1>1, <1>2, <1>4, CommitGood

LEMMA StreamGood == ASSUME TurnInv, NEW t \in Turns, Stream(t) PROVE StepGood
<1> DEFINE p == turn[t].panel
           last == panels[p].chat[Len(panels[p].chat)]
<1>1. turn[t].pc = "asking" /\ UNCHANGED <<internals, turn, op, ops>>
  BY DEF Stream
<1>2. p \in 1..Len(panels) /\ panels[p].chat # <<>> /\ panels[p].chat \in Seq(Messages)
  BY <1>1, TurnFacts, PanelFacts DEF TurnInv, Bubbles, Bubble, Begun
<1>3. last \in Messages
  <2> DEFINE chat == panels[p].chat
  <2>1. chat \in Seq(Messages) /\ chat # <<>>
    BY <1>2
  <2> HIDE DEF chat
  <2>2. chat[Len(chat)] \in Messages
    BY <2>1
  <2> QED BY <2>2 DEF chat
<1>4. t \in InFlight /\ p \in OnScreen
  BY <1>1 DEF InFlight, OnScreen
<1> DEFINE lv == live \cup {last}
<1>5. lv \in SUBSET Messages
  BY <1>3 DEF TurnInv, TypeOK
<1>6. \/ Commit(panels, p, lv) /\ UNCHANGED timers
      \/ timers' = timers \cup {t} /\ live' = lv /\ UNCHANGED <<panels, shown, busy, disk>>
  BY DEF Stream
<1>7. panels \in Seq(PanelRecords) /\ active \in 0..MaxTurns /\ ctrl \in 0..MaxTurns /\ aborted \in SUBSET Turns
  BY DEF TurnInv, TypeOK
<1> HIDE DEF lv, p
<1>8. CASE Commit(panels, p, lv) /\ UNCHANGED timers
  BY <1>1, <1>2, <1>4, <1>5, <1>7, <1>8, ShowsGood DEF internals, OpStays
<1>9. CASE timers' = timers \cup {t} /\ live' = lv /\ UNCHANGED <<panels, shown, busy, disk>>
  <2>1. TurnInv'
    BY <1>1, <1>5, <1>9 DEF TurnInv, TypeOK, Bubbles, Bubble, internals, disk, PanelRecords, TurnRecords, OpRecords
  <2>2. InFlight' = InFlight
    BY <1>1 DEF InFlight
  <2>3. OnScreen' = OnScreen
    BY <1>1, <1>4, <1>9, <2>2 DEF OnScreen, OpPanels
  <2>4. Waits => Waits'
    BY <1>1, <1>9, <2>3 DEF Waits, HeldBy, Analysing
  <2>5. QuietInv => QuietInv'
    BY <1>1, <1>9, <2>4 DEF QuietInv, Streams, BusyFor
  <2>6. \A x \in 1..Len(panels) : Lost(x) = {}
    BY <1>9 DEF Lost
  <2> QED BY <2>1, <2>5, <2>6 DEF StepGood, Seen
<1> QED BY <1>6, <1>8, <1>9

LEMMA TimerGood == ASSUME TurnInv, NEW t \in Turns, TimerFires(t) PROVE StepGood
<1>1. t \in timers /\ timers' = timers \ {t} /\ Commit(panels, turn[t].panel, live) /\ UNCHANGED <<internals, turn, op, ops>>
  BY DEF TimerFires
<1>2. turn[t].panel \in OnScreen /\ turn[t].panel \in 1..Len(panels)
  BY <1>1, TurnFacts DEF OnScreen, TurnInv
<1>3. /\ panels \in Seq(PanelRecords) /\ active \in 0..MaxTurns /\ ctrl \in 0..MaxTurns
      /\ aborted \in SUBSET Turns /\ live \in SUBSET Messages
  BY DEF TurnInv, TypeOK
<1> QED BY <1>1, <1>2, <1>3, ShowsGood DEF internals, OpStays

\* Panel p, which may be shown, gets other messages, and settles or not.
LEMMA PutGood ==
  ASSUME TurnInv, NEW p \in 1..Len(panels), p \in OnScreen, NEW run, run \in {"settled", panels[p].run},
         NEW chat \in Seq(Messages), panels[p].chat # <<>> => chat # <<>>,
         Questions(panels[p].chat) \subseteq Questions(chat) \/ Replaced(p),
         NEW lv \in SUBSET Messages, Commit(Put(p, run, chat), p, lv), UNCHANGED <<turn, timers>>,
         ops' = ops, op' = op \/ (op' = NoOp /\ (op.kind = "analysis" => op.panel = p /\ run = "settled")),
         active' \in 0..MaxTurns, ctrl' \in 0..MaxTurns, aborted' \in SUBSET Turns
  PROVE  StepGood
<1> DEFINE ps == Put(p, run, chat)
<1>1. run \in Runs
  BY PanelFacts DEF TurnInv, Runs
<1>2. /\ ps \in Seq(PanelRecords) /\ Len(ps) = Len(panels) /\ ps[p].run = run /\ ps[p].chat = chat
      /\ \A q \in 1..Len(panels) \ {p} : ps[q] = panels[q]
  BY <1>1, PutTyped DEF TurnInv
<1>3. Commit(ps, p, lv)
  OBVIOUS
<1> HIDE DEF ps
<1>4. OpStays(ps)
  BY <1>2 DEF OpStays
<1>5. \A q \in 1..Len(panels) :
        /\ q \in 1..Len(ps) /\ (panels[q].chat # <<>> => ps[q].chat # <<>>)
        /\ ps[q].run = panels[q].run \/ ps[q].run = "settled"
        /\ Questions(panels[q].chat) \subseteq Questions(ps[q].chat) \/ Replaced(q)
  BY <1>2
<1>6. p \in 1..Len(ps) /\ timers' \in SUBSET timers
  BY <1>2
<1> QED BY <1>2, <1>3, <1>4, <1>5, <1>6, ShowsGood

LEMMA StopGood == ASSUME TurnInv, Stop PROVE StepGood
<1> DEFINE chat == panels[shown].chat
           said == Append(chat, Message("stopNote", active))
           streams == chat # <<>> /\ chat[Len(chat)] \in live
<1>1. /\ chat \in Seq(Messages) /\ active \in 0..MaxTurns /\ aborted \in SUBSET Turns /\ ctrl \in 0..MaxTurns
      /\ shown \in 1..Len(panels) /\ shown \in OnScreen /\ live \in SUBSET Messages
  BY PanelFacts DEF TurnInv, TypeOK, OnScreen
<1>2. said \in Seq(Messages) /\ said # <<>> /\ Questions(chat) \subseteq Questions(said)
  <2>1. said \in Seq(Messages) /\ said # <<>> /\ Elements(chat) \subseteq Elements(said)
    BY <1>1, MessageTyped, AppendTyped DEF Kinds
  <2> QED BY <2>1 DEF Questions
<1>3. /\ active' = 0 /\ ctrl' = 0 /\ aborted' = aborted \cup ({ctrl} \ {0}) /\ UNCHANGED <<turn, timers, op, ops>>
      /\ Commit(Put(shown, "settled", IF streams THEN chat ELSE said), shown, live)
  BY DEF Stop, Abort
<1>4. active' \in 0..MaxTurns /\ ctrl' \in 0..MaxTurns /\ aborted' \in SUBSET Turns
  BY <1>1, <1>3, TurnAssumption DEF Turns
<1>5. CASE streams
  <2>1. Commit(Put(shown, "settled", chat), shown, live)
    BY <1>3, <1>5
  <2> HIDE DEF chat
  <2> QED BY <1>1, <1>3, <1>4, <2>1, PutGood DEF chat
<1>6. CASE ~streams
  <2>1. Commit(Put(shown, "settled", said), shown, live)
    BY <1>3, <1>6
  <2> HIDE DEF said
  <2> QED BY <1>1, <1>2, <1>3, <1>4, <2>1, PutGood
<1> QED BY <1>5, <1>6

\* Another operation: it is refused, it begins, it ends on its panel.
LEMMA RefusedGood == ASSUME TurnInv, OperationRefused PROVE StepGood
<1> DEFINE chat == panels[shown].chat
<1>1. PICK run \in {"settled", panels[shown].run} : Commit(Put(shown, run, chat), shown, live)
  BY DEF OperationRefused
<1>2. UNCHANGED <<internals, turn, timers, op, ops>>
  BY DEF OperationRefused
<1>3. /\ chat \in Seq(Messages) /\ active \in 0..MaxTurns /\ aborted \in SUBSET Turns /\ ctrl \in 0..MaxTurns
      /\ shown \in 1..Len(panels) /\ shown \in OnScreen /\ live \in SUBSET Messages
  BY PanelFacts DEF TurnInv, TypeOK, OnScreen
<1> QED BY <1>1, <1>2, <1>3, PutGood DEF internals

LEMMA BeginsGood ==
  ASSUME TurnInv, NEW kind \in {"rollback", "locate", "draft"}, OperationBegins(kind)
  PROVE  StepGood
<1>1. /\ op = NoOp /\ ops' = ops + 1 /\ op' = [kind |-> kind, panel |-> shown, due |-> FALSE]
      /\ UNCHANGED <<panels, shown, busy, disk, internals, turn, live, timers>>
  BY DEF OperationBegins
<1>2. TurnInv'
  BY <1>1 DEF TurnInv, TypeOK, Bubbles, Bubble, internals, disk, PanelRecords, TurnRecords, OpRecords, OpKinds
<1>3. OnScreen' = OnScreen
  BY <1>1 DEF OnScreen, OpPanels, InFlight, NoOp
<1>4. QuietInv => QuietInv'
  BY <1>1, <1>3 DEF QuietInv, Waits, HeldBy, Analysing, Streams, BusyFor, NoOp
<1>5. \A x \in 1..Len(panels) : Lost(x) = {}
  BY <1>1 DEF Lost
<1> QED BY <1>2, <1>4, <1>5 DEF StepGood, Seen

LEMMA NoteTyped == OpNote \in Messages /\ <<OpNote>> \in Seq(Messages) /\ OpBubble \in Messages
<1>1. 0 \in 0..MaxTurns
  BY TurnAssumption
<1> QED BY <1>1, MessageTyped DEF Kinds, OpNote, OpBubble

LEMMA ReportGood ==
  ASSUME TurnInv, op.kind # "none", NEW run, NEW chat \in Seq(Messages), chat # <<>>, Report(run, chat),
         run = "settled" \/ (run = panels[op.panel].run /\ op.kind = "locate"),
         \/ Questions(panels[op.panel].chat) \subseteq Questions(chat)
         \/ chat = <<OpNote>> /\ op.kind \in {"locate", "draft", "analysis"}
  PROVE  StepGood
<1> DEFINE p == op.panel
           lv == live \ {OpNote}
<1>1. Commit(Put(p, run, chat), p, lv) /\ op' = NoOp /\ UNCHANGED <<internals, turn, timers, ops>>
  BY DEF Report
<1>2. /\ p \in 1..Len(panels) /\ lv \in SUBSET Messages
      /\ active \in 0..MaxTurns /\ aborted \in SUBSET Turns /\ ctrl \in 0..MaxTurns
  BY DEF TurnInv, TypeOK, OpRecords
<1>3. p \in OnScreen
  BY DEF OnScreen, OpPanels
<1>4. run \in Runs
  BY <1>2, PanelFacts DEF TurnInv, Runs
<1>5. panels'[p].chat = chat
  <2>1. panels' = Put(p, run, chat)
    BY <1>1 DEF Commit
  <2> QED BY <1>2, <1>4, <2>1, PutTyped DEF TurnInv
<1>6. Questions(panels[p].chat) \subseteq Questions(chat) \/ Replaced(p)
  BY <1>1, <1>5 DEF Replaced
<1>7. run \in {"settled", panels[p].run}
  OBVIOUS
<1>8. op.kind = "analysis" => run = "settled"
  OBVIOUS
<1> HIDE DEF lv
<1> QED BY <1>1, <1>2, <1>3, <1>6, <1>7, <1>8, PutGood DEF internals

LEMMA OperationEndsGood == ASSUME TurnInv, OperationEnds PROVE StepGood
<1> DEFINE chat == panels[op.panel].chat
<1>1. chat \in Seq(Messages)
  BY PanelFacts DEF TurnInv, TypeOK, OpRecords
<1>2. ASSUME NEW rest \in Seq(Messages)
      PROVE  Append(rest, OpNote) \in Seq(Messages) /\ Append(rest, OpNote) # <<>>
             /\ Questions(rest) \subseteq Questions(Append(rest, OpNote))
  <2>1. /\ Append(rest, OpNote) \in Seq(Messages) /\ Append(rest, OpNote) # <<>>
        /\ Elements(rest) \subseteq Elements(Append(rest, OpNote))
    BY NoteTyped, AppendTyped
  <2> QED BY <2>1 DEF Questions
<1>3. CASE RollbackEnds
  <2>1. op.kind = "rollback" /\ Report("settled", Append(chat, OpNote))
    BY <1>3 DEF RollbackEnds
  <2> HIDE DEF chat
  <2>2. Append(chat, OpNote) \in Seq(Messages) /\ Append(chat, OpNote) # <<>>
        /\ Questions(chat) \subseteq Questions(Append(chat, OpNote))
    BY <1>1, <1>2
  <2> QED BY <2>1, <2>2, ReportGood DEF chat
<1>4. CASE LocateEnds
  <2>1. op.kind = "locate"
    BY <1>4 DEF LocateEnds
  <2>2. Report(panels[op.panel].run, <<OpNote>> \o chat) \/ Report(panels[op.panel].run, <<OpNote>>)
    BY <1>4 DEF LocateEnds
  <2>3. CASE Report(panels[op.panel].run, <<OpNote>>)
    <3>1. <<OpNote>> # <<>>
      OBVIOUS
    <3> QED BY <2>1, <2>3, <3>1, NoteTyped, ReportGood
  <2>4. CASE Report(panels[op.panel].run, <<OpNote>> \o chat)
    <3> DEFINE one == <<OpNote>>
               all == one \o chat
    <3>1. one \in Seq(Messages) /\ Len(one) = 1
      BY NoteTyped
    <3> HIDE DEF one, chat
    <3>2. /\ all \in Seq(Messages) /\ Len(all) = 1 + Len(chat)
          /\ \A k \in 1..(1 + Len(chat)) : all[k] = IF k <= 1 THEN one[k] ELSE chat[k - 1]
      <4>1. /\ one \o chat \in Seq(Messages) /\ Len(one \o chat) = Len(one) + Len(chat)
            /\ \A k \in 1..(Len(one) + Len(chat)) :
                 (one \o chat)[k] = IF k <= Len(one) THEN one[k] ELSE chat[k - Len(one)]
        BY <1>1, <3>1, ConcatProperties
      <4> QED BY <3>1, <4>1
    <3> HIDE DEF all
    <3>3. ASSUME NEW k \in 1..Len(chat) PROVE chat[k] \in Elements(all)
      <4>1. Len(chat) \in Nat /\ k \in Nat
        BY <1>1
      <4>2. k + 1 \in 1..(1 + Len(chat)) /\ ~(k + 1 <= 1) /\ (k + 1) - 1 = k
        BY <4>1
      <4>3. all[k + 1] = chat[k]
        BY <3>2, <4>2
      <4> QED BY <3>2, <4>2, <4>3 DEF Elements
    <3>4. Questions(chat) \subseteq Questions(all)
      BY <3>3 DEF Questions, Elements
    <3>5. all # <<>>
      <4>1. Len(chat) \in Nat
        BY <1>1
      <4>2. Len(all) # 0
        BY <3>2, <4>1
      <4> QED BY <4>2
    <3>6. Report(panels[op.panel].run, all)
      BY <2>4 DEF all, one
    <3> QED BY <2>1, <3>2, <3>4, <3>5, <3>6, ReportGood DEF chat
  <2> QED BY <2>2, <2>3, <2>4
<1>5. CASE Replaces
  <2>1. op.kind \in {"draft", "analysis"} /\ Report("settled", <<OpNote>>) /\ <<OpNote>> # <<>>
    BY <1>5 DEF Replaces
  <2> QED BY <2>1, NoteTyped, ReportGood
<1>6. CASE AnalysisFails
  <2> DEFINE streams == chat # <<>> /\ chat[Len(chat)].kind # "user" /\ chat[Len(chat)] \in live
             cut == SubSeq(chat, 1, Len(chat) - 1)
             rest == IF streams THEN cut ELSE chat
  <2>1. op.kind = "analysis" /\ Report("settled", Append(rest, OpNote))
    BY <1>6 DEF AnalysisFails
  <2>2. rest \in Seq(Messages) /\ Questions(chat) \subseteq Questions(rest)
    <3>1. CASE ~streams
      BY <1>1, <3>1
    <3>2. CASE streams
      <4> HIDE DEF chat
      <4>1. Len(chat) \in Nat /\ Len(chat) - 1 \in Nat /\ Len(chat) - 1 <= Len(chat)
        BY <1>1, <3>2, EmptySeq
      <4>2. /\ cut \in Seq(Messages) /\ Len(cut) = Len(chat) - 1
            /\ \A k \in 1..(Len(chat) - 1) : cut[k] = chat[k]
        <5> DEFINE n == Len(chat) - 1
        <5>1. n \in Nat /\ n \in 1 - 1..Len(chat)
          BY <4>1
        <5> HIDE DEF n
        <5>2. /\ SubSeq(chat, 1, n) \in Seq(Messages) /\ Len(SubSeq(chat, 1, n)) = n
              /\ \A k \in 1..n : SubSeq(chat, 1, n)[k] = chat[k]
          BY <1>1, <5>1, SubSeqProperties
        <5> QED BY <5>2 DEF n
      <4> HIDE DEF cut
      <4>3. ASSUME NEW k \in 1..Len(chat), chat[k].kind = "user" PROVE chat[k] \in Elements(cut)
        <5>1. k # Len(chat)
          BY <3>2, <4>3
        <5>2. k \in 1..(Len(chat) - 1)
          BY <4>1, <5>1
        <5> QED BY <4>2, <5>2 DEF Elements
      <4>4. Questions(chat) \subseteq Questions(cut)
        BY <4>3 DEF Questions, Elements
      <4> QED BY <3>2, <4>2, <4>4
    <3> QED BY <3>1, <3>2
  <2> HIDE DEF rest, chat
  <2>3. Append(rest, OpNote) \in Seq(Messages) /\ Append(rest, OpNote) # <<>>
        /\ Questions(rest) \subseteq Questions(Append(rest, OpNote))
    BY <1>2, <2>2
  <2>4. Questions(chat) \subseteq Questions(Append(rest, OpNote))
    BY <2>2, <2>3
  <2> QED BY <2>1, <2>3, <2>4, ReportGood DEF chat
<1> QED BY <1>3, <1>4, <1>5, <1>6 DEF OperationEnds

\* An analysis reports, and is committed later.
LEMMA ReportsGood == ASSUME TurnInv, AnalysisReports \/ AnalysisCommits PROVE StepGood
<1> DEFINE p == op.panel
           chat == panels[p].chat
           last == chat[Len(chat)]
           lv == live \cup {last}
           ps == Put(p, "waiting", chat)
<1>1. /\ p \in 1..Len(panels) /\ chat \in Seq(Messages) /\ live \in SUBSET Messages
      /\ panels \in Seq(PanelRecords) /\ op \in OpRecords
      /\ active \in 0..MaxTurns /\ ctrl \in 0..MaxTurns /\ aborted \in SUBSET Turns /\ ops \in Nat
  BY PanelFacts DEF TurnInv, TypeOK, OpRecords
<1>2. UNCHANGED <<internals, turn, timers, ops>>
  BY DEF AnalysisReports, AnalysisCommits
<1>3. CASE AnalysisReports
  <2>1. op.kind = "analysis" /\ chat # <<>>
    BY <1>3 DEF AnalysisReports
  <2>2. \/ op' = op /\ Commit(ps, p, lv)
        \/ op' = [op EXCEPT !.due = TRUE] /\ panels' = ps /\ live' = lv /\ UNCHANGED <<shown, busy, disk>>
    BY <1>3 DEF AnalysisReports
  <2>3. /\ ps \in Seq(PanelRecords) /\ Len(ps) = Len(panels) /\ ps[p].chat = chat
        /\ \A q \in 1..Len(panels) \ {p} : ps[q] = panels[q]
    BY <1>1, PutTyped DEF TurnInv, Runs
  <2>4. lv \in SUBSET Messages
    <3> HIDE DEF chat
    <3>1. chat[Len(chat)] \in Messages
      BY <1>1, <2>1
    <3> QED BY <1>1, <3>1
  <2>5. p \in OnScreen /\ Analysing(p)
    BY <2>1 DEF OnScreen, OpPanels, Analysing
  <2> HIDE DEF ps, lv
  <2>6. \A q \in 1..Len(panels) :
          /\ q \in 1..Len(ps) /\ (panels[q].chat # <<>> => ps[q].chat # <<>>)
          /\ ps[q].run = panels[q].run \/ Analysing(q)
          /\ ps[q].chat = panels[q].chat
    BY <2>3, <2>5
  <2>7. CASE op' = op /\ Commit(ps, p, lv)
    <3>1. p \in 1..Len(ps)
      BY <1>1, <2>3
    <3>2. OpStays(ps)
      BY <1>2, <2>7 DEF OpStays
    <3>3. UNCHANGED <<active, ctrl, aborted, turn, timers>>
      BY <1>2 DEF internals
    <3> HIDE DEF p
    <3> QED BY <1>1, <2>3, <2>4, <2>5, <2>6, <2>7, <3>1, <3>2, <3>3, ShowsGood
  <2>8. CASE op' = [op EXCEPT !.due = TRUE] /\ panels' = ps /\ live' = lv /\ UNCHANGED <<shown, busy, disk>>
    <3>1. op' \in OpRecords /\ op'.kind = "analysis" /\ op'.panel = p
      BY <1>1, <2>1, <2>8 DEF OpRecords
    <3>2. DisplayOK' /\ PanelsStay
      BY <2>3, <2>4, <2>6, <2>8 DEF DisplayOK, TurnInv, TypeOK, disk, PanelRecords, PanelsStay
    <3>3. RestOK /\ TurnsStay
      BY <1>1, <1>2, <3>1 DEF RestOK, TurnsStay, internals, TurnInv, TypeOK
    <3>4. TurnInv'
      BY <3>2, <3>3, InvKept
    <3>5. ASSUME QuietInv PROVE QuietInv'
      <4>1. OnScreen' = OnScreen
        BY <1>2, <2>1, <2>8, <3>1 DEF OnScreen, OpPanels, InFlight
      <4>2. \A q \in OnScreen' : panels'[q].run # "settled" =>
              (q \in OnScreen /\ panels[q].run # "settled") \/ HeldBy(q)'
        <5> SUFFICES ASSUME NEW q \in OnScreen, panels'[q].run # "settled", panels[q].run = "settled"
                     PROVE  HeldBy(q)'
          BY <4>1
        <5>1. q \in 1..Len(panels)
          BY OnScreenTyped DEF TurnInv
        <5>2. q = p
          BY <2>3, <2>8, <5>1
        <5> QED BY <3>1, <5>2 DEF HeldBy, Analysing
      <4>3. Waits'
        BY <1>2, <3>1, <3>5, <4>2, WaitsKept DEF QuietInv
      <4>4. Streams'
        BY <3>1 DEF Streams
      <4>5. BusyFor'
        <5>1. shown \in 1..Len(panels)
          BY DEF TurnInv, TypeOK
        <5>2. panels[shown].run # "settled" => panels'[shown].run # "settled"
          <6>1. ps[p].run = "waiting"
            BY <1>1, PutTyped DEF TurnInv, Runs, ps
          <6> QED BY <2>3, <2>8, <5>1, <6>1
        <5> QED BY <1>2, <2>8, <3>5, <5>2 DEF QuietInv, BusyFor
      <4> QED BY <4>3, <4>4, <4>5 DEF QuietInv
    <3>6. \A x \in 1..Len(panels) : Lost(x) = {}
      BY <2>6, <2>8 DEF Lost
    <3> QED BY <3>4, <3>5, <3>6 DEF StepGood, Seen
  <2> QED BY <2>2, <2>7, <2>8
<1>4. CASE AnalysisCommits
  <2>1. op.kind = "analysis" /\ op' = [op EXCEPT !.due = FALSE] /\ Commit(panels, p, live)
    BY <1>4 DEF AnalysisCommits
  <2>2. /\ DisplayOK' /\ panels' = panels /\ shown' = p /\ busy' = (panels[p].run # "settled")
        /\ panels[p].run = "settled" => live' \cap Elements(panels[p].chat) = {}
    BY <1>1, <2>1, CommitTyped DEF TurnInv
  <2>3. op' \in OpRecords /\ op'.kind = op.kind /\ op'.panel = p
    BY <1>1, <2>1 DEF OpRecords
  <2>4. RestOK /\ TurnsStay /\ PanelsStay
    BY <1>1, <1>2, <2>2, <2>3 DEF RestOK, TurnsStay, internals, TurnInv, TypeOK, PanelsStay
  <2>5. TurnInv'
    BY <2>2, <2>4, InvKept
  <2>6. ASSUME QuietInv PROVE QuietInv'
    <3>1. OnScreen' \subseteq OnScreen
      BY <1>2, <2>1, <2>2, <2>3 DEF OnScreen, OpPanels, InFlight
    <3>2. Waits'
      BY <1>2, <2>2, <2>3, <2>6, <3>1, WaitsKept DEF QuietInv
    <3> HIDE DEF p
    <3> QED BY <2>2, <3>2, QuietCommit
  <2>7. \A x \in 1..Len(panels) : Lost(x) = {}
    BY <2>2 DEF Lost
  <2> QED BY <2>5, <2>6, <2>7 DEF StepGood, Seen
<1> QED BY <1>3, <1>4

\* A new panel with a stored conversation.
LEMMA NewPanelFacts ==
  ASSUME TurnInv, NEW s \in 1..Len(stored), NEW chat \in Seq(Messages),
         NEW ps, ps = Append(panels, [run |-> "settled", chat |-> chat, session |-> s])
  PROVE  /\ ps \in Seq(PanelRecords) /\ Len(ps) = Len(panels) + 1 /\ Len(ps) \in 1..Len(ps)
         /\ ps[Len(panels) + 1].run = "settled" /\ shown # Len(panels) + 1
         /\ \A q \in 1..Len(panels) : q \in 1..Len(ps) /\ ps[q] = panels[q]
<1> DEFINE r == [run |-> "settled", chat |-> chat, session |-> s]
<1>1. panels \in Seq(PanelRecords) /\ shown \in 1..Len(panels) /\ Len(panels) \in Nat
  BY DEF TurnInv, TypeOK
<1>2. r \in PanelRecords /\ r.run = "settled"
  BY DEF PanelRecords, Runs
<1> HIDE DEF r
<1>3. /\ ps \in Seq(PanelRecords) /\ Len(ps) = Len(panels) + 1 /\ ps[Len(panels) + 1] = r
      /\ \A q \in 1..Len(panels) : ps[q] = panels[q]
  BY <1>1, <1>2, AppendProperties DEF r
<1> QED BY <1>1, <1>2, <1>3

LEMMA RestoreGood == ASSUME TurnInv, NEW s \in 1..Len(stored), Restore(s) PROVE StepGood
<1> DEFINE ps == Append(panels, [run |-> "settled", chat |-> stored[s], session |-> s])
<1>1. Commit(ps, Len(panels) + 1, live) /\ UNCHANGED <<internals, turn, timers, op, ops>>
  BY DEF Restore, NewPanel
<1>2. /\ stored[s] \in Seq(Messages) /\ live \in SUBSET Messages
      /\ active \in 0..MaxTurns /\ ctrl \in 0..MaxTurns /\ aborted \in SUBSET Turns
  BY DEF TurnInv, TypeOK
<1>3. ps = Append(panels, [run |-> "settled", chat |-> stored[s], session |-> s])
  OBVIOUS
<1> HIDE DEF ps
<1>4. /\ ps \in Seq(PanelRecords) /\ Len(ps) = Len(panels) + 1 /\ Len(ps) \in 1..Len(ps)
      /\ ps[Len(panels) + 1].run = "settled" /\ shown # Len(panels) + 1
      /\ \A q \in 1..Len(panels) : q \in 1..Len(ps) /\ ps[q] = panels[q]
  BY <1>2, <1>3, NewPanelFacts
<1> QED BY <1>1, <1>2, <1>4, ShowsGood DEF internals, OpStays

LEMMA RestartGood == ASSUME TurnInv, Restart PROVE StepGood
<1> DEFINE ps == Append(panels, [run |-> "settled", chat |-> stored[kept], session |-> kept])
           After(t) == IF turn[t].pc = "unsent" THEN turn[t] ELSE [turn[t] EXCEPT !.pc = "done"]
<1>1. /\ Commit(ps, Len(panels) + 1, live) /\ active' = 0 /\ ctrl' = 0 /\ timers' = {} /\ UNCHANGED aborted
      /\ turn' = [t \in Turns |-> After(t)] /\ op' = NoOp /\ ops' = ops
  BY DEF Restart, NewPanel
<1>2. /\ kept \in 1..Len(stored) /\ stored[kept] \in Seq(Messages) /\ live \in SUBSET Messages
      /\ aborted \in SUBSET Turns /\ 0 \in 0..MaxTurns
  BY TurnAssumption DEF TurnInv, TypeOK
<1>3. ps = Append(panels, [run |-> "settled", chat |-> stored[kept], session |-> kept])
  OBVIOUS
<1> HIDE DEF ps
<1>4. /\ ps \in Seq(PanelRecords) /\ Len(ps) = Len(panels) + 1 /\ Len(ps) \in 1..Len(ps)
      /\ ps[Len(panels) + 1].run = "settled" /\ shown # Len(panels) + 1
      /\ \A q \in 1..Len(panels) : q \in 1..Len(ps) /\ ps[q] = panels[q]
  BY <1>2, <1>3, NewPanelFacts
<1>5. \A t \in Turns : After(t) \in TurnRecords /\ After(t).pc \in {"unsent", "done"}
  <2> SUFFICES ASSUME NEW t \in Turns PROVE After(t) \in TurnRecords /\ After(t).pc \in {"unsent", "done"}
    OBVIOUS
  <2>1. turn[t] \in TurnRecords
    BY TurnFacts DEF TurnInv
  <2> QED BY <2>1 DEF TurnRecords
<1> HIDE DEF After
<1>6. turn' \in [Turns -> TurnRecords] /\ \A t \in Turns : turn'[t].pc \in {"unsent", "done"}
  BY <1>1, <1>5
<1>7. RestOK
  <2>1. shown \in 1..Len(panels) /\ Len(panels) \in Nat /\ ops \in Nat
    BY DEF TurnInv, TypeOK
  <2>2. NoOp \in OpRecords
    BY <2>1 DEF NoOp, OpRecords, OpKinds
  <2> QED BY <1>1, <1>2, <1>6, <2>1, <2>2 DEF RestOK
<1>8. TurnsStay
  BY <1>6 DEF TurnsStay, Begun
<1>9. OnScreen' = {Len(panels) + 1}
  <2>1. InFlight' \cup timers' = {}
    BY <1>1, <1>6 DEF InFlight
  <2>2. shown' = Len(panels) + 1
    BY <1>1 DEF Commit
  <2>3. OpPanels' = {}
    BY <1>1 DEF OpPanels, NoOp
  <2> QED BY <2>1, <2>2, <2>3 DEF OnScreen
<1>10. Waits'
  <2>1. panels' = ps
    BY <1>1 DEF Commit
  <2> QED BY <1>4, <1>9, <2>1 DEF Waits
<1> QED BY <1>1, <1>2, <1>4, <1>7, <1>8, <1>10, CommitGood

LEMMA ResetGood == ASSUME TurnInv, Reset PROVE StepGood
<1> DEFINE s == Len(stored) + 1
           r == [run |-> "settled", chat |-> <<>>, session |-> s]
<1>1. /\ panels' = Append(panels, r) /\ stored' = Append(stored, <<>>) /\ kept' = s
      /\ shown' = Len(panels) + 1 /\ busy' = FALSE /\ active' = 0 /\ ctrl' = 0
      /\ UNCHANGED <<aborted, turn, live, timers, op, ops>>
  BY DEF Reset
<1>2. /\ panels \in Seq(PanelRecords) /\ stored \in Seq(Seq(Messages)) /\ shown \in 1..Len(panels)
      /\ Len(panels) \in Nat /\ Len(stored) \in Nat /\ 0 \in 0..MaxTurns
  BY TurnAssumption DEF TurnInv, TypeOK
<1>3. <<>> \in Seq(Messages)
  OBVIOUS
<1>4. stored' \in Seq(Seq(Messages)) /\ Len(stored') = Len(stored) + 1
  BY <1>1, <1>2, <1>3, AppendProperties
<1>5. PanelRecords \subseteq PanelRecords' /\ r \in PanelRecords' /\ r.run = "settled" /\ r.chat = <<>>
  <2>1. 1..Len(stored) \subseteq 1..Len(stored') /\ s \in 1..Len(stored')
    BY <1>2, <1>4
  <2> HIDE DEF s
  <2> QED BY <1>3, <2>1 DEF PanelRecords, Runs
<1> HIDE DEF r
<1>6. /\ panels' \in Seq(PanelRecords') /\ Len(panels') = Len(panels) + 1 /\ panels'[Len(panels) + 1] = r
      /\ \A q \in 1..Len(panels) : panels'[q] = panels[q]
  <2>1. panels \in Seq(PanelRecords')
    <3>1. \A q \in 1..Len(panels) : panels[q] \in PanelRecords'
      BY <1>2, <1>5
    <3> QED BY <1>2, <3>1
  <2> QED BY <1>1, <1>5, <2>1, AppendProperties
<1>7. DisplayOK'
  <2>1. shown' \in 1..Len(panels') /\ kept' \in 1..Len(stored')
    BY <1>1, <1>2, <1>4, <1>6
  <2> QED BY <1>1, <1>4, <1>6, <2>1 DEF DisplayOK, TurnInv, TypeOK
<1>8. PanelsStay
  BY <1>2, <1>6 DEF PanelsStay
<1>9. RestOK /\ TurnsStay
  BY <1>1, <1>2 DEF RestOK, TurnsStay, TurnInv, TypeOK, OpRecords
<1>10. TurnInv'
  BY <1>7, <1>8, <1>9, InvKept
<1>11. ASSUME QuietInv PROVE QuietInv'
  <2>1. panels'[shown'].run = "settled" /\ panels'[shown'].chat = <<>>
    BY <1>1, <1>5, <1>6
  <2>2. Streams'
    <3>1. Elements(<<>>) = {}
      BY DEF Elements
    <3> QED BY <2>1, <3>1 DEF Streams
  <2>3. InFlight' = InFlight
    BY <1>1 DEF InFlight
  <2>4. \A q \in OnScreen' : q = shown' \/ q \in OnScreen
    BY <1>1, <2>3 DEF OnScreen, OpPanels
  <2>5. \A q \in OnScreen' : panels'[q].run # "settled" => q \in OnScreen /\ panels[q].run # "settled"
    BY <1>6, <2>1, <2>4, OnScreenTyped DEF TurnInv
  <2>6. Waits'
    BY <1>1, <1>11, <2>5, WaitsKept DEF QuietInv
  <2>7. BusyFor'
    BY <1>1 DEF BusyFor
  <2> QED BY <2>2, <2>6, <2>7 DEF QuietInv
<1>12. Seen
  BY <1>2, <1>6 DEF Seen, Lost
<1> QED BY <1>10, <1>11, <1>12 DEF StepGood

\* An analysis makes a panel of its own, which waits for it.
LEMMA AnalyseGood == ASSUME TurnInv, Analyse PROVE StepGood
<1> DEFINE s == Len(stored) + 1
           r == [run |-> "waiting", chat |-> <<OpBubble>>, session |-> s]
           n == Len(panels) + 1
<1>1. /\ panels' = Append(panels, r) /\ stored' = Append(stored, Unstored) /\ kept' = kept
      /\ shown' = n /\ busy' = TRUE /\ live' = live \cup {OpBubble}
      /\ op = NoOp /\ op' = [kind |-> "analysis", panel |-> n, due |-> FALSE] /\ ops' = ops + 1
      /\ UNCHANGED <<active, ctrl, aborted, turn, timers>>
  BY DEF Analyse, internals
<1>2. /\ panels \in Seq(PanelRecords) /\ stored \in Seq(Seq(Messages)) /\ shown \in 1..Len(panels)
      /\ Len(panels) \in Nat /\ Len(stored) \in Nat /\ kept \in 1..Len(stored) /\ ops \in Nat
  BY DEF TurnInv, TypeOK
<1>3. OpBubble \in Messages /\ <<OpBubble>> \in Seq(Messages) /\ <<OpBubble>> # <<>>
  BY NoteTyped
<1>4. stored' \in Seq(Seq(Messages)) /\ Len(stored') = Len(stored) + 1
  BY <1>1, <1>2, <1>3, AppendProperties DEF Unstored
<1>5. PanelRecords \subseteq PanelRecords' /\ r \in PanelRecords' /\ r.run = "waiting" /\ r.chat = <<OpBubble>>
  <2>1. 1..Len(stored) \subseteq 1..Len(stored') /\ s \in 1..Len(stored')
    BY <1>2, <1>4
  <2> HIDE DEF s
  <2> QED BY <1>3, <2>1 DEF PanelRecords, Runs
<1> HIDE DEF r
<1>6. /\ panels' \in Seq(PanelRecords') /\ Len(panels') = n /\ panels'[n] = r
      /\ \A q \in 1..Len(panels) : panels'[q] = panels[q]
  <2>1. panels \in Seq(PanelRecords')
    <3>1. \A q \in 1..Len(panels) : panels[q] \in PanelRecords'
      BY <1>2, <1>5
    <3> QED BY <1>2, <3>1
  <2> QED BY <1>1, <1>5, <2>1, AppendProperties
<1>7. n \in 1..Len(panels') /\ kept \in 1..Len(stored') /\ \A q \in 1..Len(panels) : q \in 1..Len(panels') /\ q # n
  BY <1>2, <1>4, <1>6
<1> HIDE DEF n
<1>8. DisplayOK'
  BY <1>1, <1>3, <1>4, <1>6, <1>7 DEF DisplayOK, TurnInv, TypeOK
<1>9. PanelsStay
  BY <1>6, <1>7 DEF PanelsStay
<1>10. RestOK /\ TurnsStay
  <2>1. op' \in OpRecords' /\ ops' \in Nat
    BY <1>1, <1>2, <1>7 DEF OpRecords, OpKinds
  <2> QED BY <1>1, <2>1 DEF RestOK, TurnsStay, TurnInv, TypeOK
<1>11. TurnInv'
  BY <1>8, <1>9, <1>10, InvKept
<1>12. ASSUME QuietInv PROVE QuietInv'
  <2>1. panels'[n].run = "waiting" /\ op'.kind = "analysis" /\ op'.panel = n
    BY <1>1, <1>5, <1>6
  <2>2. InFlight' = InFlight
    BY <1>1 DEF InFlight
  <2>3. \A q \in OnScreen' : q = n \/ q \in OnScreen
    BY <1>1, <2>1, <2>2 DEF OnScreen, OpPanels
  <2>4. ASSUME NEW q \in OnScreen', panels'[q].run # "settled"
        PROVE  (q \in OnScreen /\ panels[q].run # "settled") \/ HeldBy(q)'
    <3>1. CASE q = n
      BY <2>1, <3>1 DEF HeldBy, Analysing
    <3>2. CASE q \in OnScreen
      <4>1. q \in 1..Len(panels)
        BY <3>2, OnScreenTyped DEF TurnInv
      <4> QED BY <1>6, <2>4, <3>2, <4>1
    <3> QED BY <2>3, <3>1, <3>2
  <2>5. Waits'
    BY <1>1, <1>12, <2>1, <2>4, WaitsKept DEF QuietInv, NoOp
  <2>6. Streams' /\ BusyFor'
    BY <1>1, <2>1 DEF Streams, BusyFor
  <2> QED BY <2>5, <2>6 DEF QuietInv
<1>13. Seen
  BY <1>6 DEF Seen, Lost
<1> QED BY <1>11, <1>12, <1>13 DEF StepGood

\* A step of a turn that shows nothing.
LEMMA HiddenGood ==
  ASSUME TurnInv, NEW t \in Turns, Activate(t) \/ CompactionFails(t)
  PROVE  StepGood
<1>1. PICK pc \in {"context", "lost"} :
        /\ turn' = [turn EXCEPT ![t].pc = pc] /\ UNCHANGED <<panels, shown, busy, disk, live, timers, aborted, op, ops>>
        /\ (pc = "context" /\ turn[t].pc = "delay") \/ (pc = "lost" /\ turn[t].pc = "compacting")
  BY DEF Activate, CompactionFails, internals
<1>2. /\ turn' \in [Turns -> TurnRecords] /\ turn'[t].pc = pc
      /\ turn'[t].own = turn[t].own /\ turn'[t].panel = turn[t].panel
      /\ \A u \in Turns \ {t} : turn'[u] = turn[u]
  BY <1>1, PcChanges DEF TurnInv
<1>3. active' \in 0..MaxTurns /\ ctrl' \in 0..MaxTurns
  BY TurnAssumption DEF Activate, CompactionFails, internals, TurnInv, TypeOK, Turns
<1>4. DisplayOK' /\ PanelsStay
  BY <1>1 DEF DisplayOK, TurnInv, TypeOK, disk, PanelRecords, PanelsStay
<1>5. TurnsStay
  BY <1>1, <1>2 DEF TurnsStay, Begun
<1>6. RestOK
  BY <1>1, <1>2, <1>3 DEF RestOK, TurnInv, TypeOK, OpRecords
<1>7. TurnInv'
  BY <1>4, <1>5, <1>6, InvKept
<1>8. ASSUME QuietInv PROVE QuietInv'
  <2>1. InFlight' \subseteq InFlight
    BY <1>1, <1>2 DEF InFlight
  <2>2. OnScreen' \subseteq OnScreen
    <3>1. \A u \in Turns : turn'[u].panel = turn[u].panel
      BY <1>2
    <3>2. timers \subseteq Turns /\ InFlight \subseteq Turns
      BY DEF TurnInv, TypeOK, InFlight
    <3> QED BY <1>1, <2>1, <3>1, <3>2 DEF OnScreen, OpPanels
  <2>3. \A u \in Turns : turn[u].pc \in Held => turn'[u].panel = turn[u].panel /\ turn'[u].pc \in Held
    BY <1>1, <1>2 DEF Held, Begun
  <2>4. Waits'
    BY <1>1, <1>8, <2>2, <2>3, WaitsKept DEF QuietInv
  <2>5. Streams'
    BY <1>1, <1>8 DEF QuietInv, Streams
  <2>6. \A u \in Turns : turn[u].pc \in {"compacting", "lost"} => turn'[u].pc \in {"compacting", "lost"}
    BY <1>1, <1>2
  <2>7. BusyFor'
    BY <1>1, <1>8, <2>6 DEF QuietInv, BusyFor
  <2> QED BY <2>4, <2>5, <2>7 DEF QuietInv
<1>9. \A x \in 1..Len(panels) : Lost(x) = {}
  BY <1>1 DEF Lost
<1> QED BY <1>7, <1>8, <1>9 DEF StepGood, Seen

LEMMA ContextGood == ASSUME TurnInv, NEW t \in Turns, ContextBuilt(t) PROVE StepGood
<1> DEFINE p == turn[t].panel
           chat == panels[p].chat
           lv == IF chat[Len(chat)].kind # "user" THEN live \cup {chat[Len(chat)]} ELSE live
<1>1. turn[t].pc = "context" /\ UNCHANGED <<aborted, timers, op, ops>>
  BY DEF ContextBuilt
<1>2. p \in 1..Len(panels) /\ chat # <<>> /\ chat \in Seq(Messages)
  BY <1>1, TurnFacts, PanelFacts DEF TurnInv, Bubbles, Bubble, Begun
<1>3. lv \in SUBSET Messages
  <2> HIDE DEF chat
  <2>1. chat[Len(chat)] \in Messages
    BY <1>2
  <2> QED BY <2>1 DEF TurnInv, TypeOK
<1>4. aborted \in SUBSET Turns /\ ctrl \in 0..MaxTurns /\ active \in 0..MaxTurns
  BY DEF TurnInv, TypeOK
<1>5. CASE ctrl = 0
  <2>1. End(t, p, Message("note", t), lv)
    BY <1>5 DEF ContextBuilt
  <2> HIDE DEF lv, p
  <2> QED BY <1>1, <1>2, <1>3, <1>4, <2>1, EndGood DEF Kinds
<1>6. CASE ctrl # 0
  <2> DEFINE r == [pc |-> "asking", panel |-> p, own |-> turn[t].own, ctl |-> ctrl]
             ps == Put(p, "waiting", chat)
  <2>1. /\ turn' = [turn EXCEPT ![t] = r] /\ Commit(ps, p, lv) /\ active' = active /\ ctrl' = ctrl
    BY <1>6 DEF ContextBuilt, TurnInv, TypeOK
  <2>2. r \in TurnRecords /\ r.pc = "asking" /\ r.panel = p /\ r.own = turn[t].own
    BY <1>4, TurnFacts DEF TurnRecords, TurnInv
  <2> HIDE DEF r
  <2>3. /\ turn' \in [Turns -> TurnRecords] /\ turn'[t] = r
        /\ \A u \in Turns \ {t} : turn'[u] = turn[u]
    BY <2>1, <2>2, TurnChanges DEF TurnInv
  <2>4. /\ ps \in Seq(PanelRecords) /\ Len(ps) = Len(panels) /\ ps[p].chat = chat
        /\ \A q \in 1..Len(panels) \ {p} : ps[q] = panels[q]
    BY <1>2, PutTyped DEF TurnInv, Runs
  <2> HIDE DEF ps, lv
  <2>5. RestOK
    BY <1>1, <1>4, <2>1, <2>3 DEF RestOK, TurnInv, TypeOK, OpRecords
  <2>6. TurnsStay
    BY <1>1, <2>2, <2>3 DEF TurnsStay, Begun
  <2>7. ASSUME QuietInv PROVE Waits'
    <3>1. t \in InFlight /\ p \in OnScreen
      BY <1>1 DEF InFlight, OnScreen
    <3>2. InFlight' \subseteq InFlight /\ \A u \in Turns : turn'[u].panel = turn[u].panel
      BY <1>1, <2>2, <2>3 DEF InFlight
    <3>3. shown' = p /\ panels' = ps
      BY <2>1 DEF Commit
    <3>4. OnScreen' \subseteq OnScreen
      <4>1. timers \subseteq Turns /\ InFlight \subseteq Turns
        BY DEF TurnInv, TypeOK, InFlight
      <4> QED BY <1>1, <3>1, <3>2, <3>3, <4>1 DEF OnScreen, OpPanels
    <3>5. turn'[t].panel = p /\ turn'[t].pc \in Held
      BY <2>2, <2>3 DEF Held, Begun
    <3>6. \A q \in OnScreen' : q # p => q \in OnScreen /\ panels'[q] = panels[q]
      BY <2>4, <3>3, <3>4, OnScreenTyped DEF TurnInv
    <3>7. \A u \in Turns : turn[u].pc \in Held => turn'[u].panel = turn[u].panel /\ turn'[u].pc \in Held
      BY <2>2, <2>3 DEF Held, Begun
    <3>8. \A q \in OnScreen' : panels'[q].run # "settled" =>
            (q \in OnScreen /\ panels[q].run # "settled") \/ HeldBy(q)'
      <4> SUFFICES ASSUME NEW q \in OnScreen', panels'[q].run # "settled"
                   PROVE  (q \in OnScreen /\ panels[q].run # "settled") \/ HeldBy(q)'
        OBVIOUS
      <4>1. CASE q = p
        BY <3>5, <4>1 DEF HeldBy
      <4>2. CASE q # p
        BY <3>6, <4>2
      <4> QED BY <4>1, <4>2
    <3> QED BY <1>1, <2>7, <3>7, <3>8, WaitsKept DEF QuietInv
  <2>8. \A q \in 1..Len(panels) : Questions(panels[q].chat) \subseteq Questions(ps[q].chat)
    BY <2>4
  <2>9. \A q \in 1..Len(panels) : q \in 1..Len(ps) /\ (panels[q].chat # <<>> => ps[q].chat # <<>>)
    BY <1>2, <2>4
  <2>10. p \in 1..Len(ps)
    BY <1>2, <2>4
  <2> HIDE DEF p
  <2> QED BY <1>3, <2>1, <2>4, <2>5, <2>6, <2>7, <2>8, <2>9, <2>10, CommitGood
<1> QED BY <1>5, <1>6

LEMMA SendGood == ASSUME TurnInv, NEW t \in Turns, Send(t) PROVE StepGood
<1> DEFINE chat == panels[shown].chat
           finished == Finished(chat)
<1>1. /\ turn[t].pc = "unsent" /\ UNCHANGED <<internals, timers, op, ops>> /\ shown \in 1..Len(panels) /\ shown \in OnScreen
  BY DEF Send, TurnInv, TypeOK, OnScreen
<1>2. chat \in Seq(Messages)
  BY <1>1, PanelFacts DEF TurnInv
<1>3. CASE ~NeedsCompaction(finished)
  <2>1. Begin(t, shown, chat)
    BY <1>3 DEF Send
  <2> QED BY <1>1, <1>2, <2>1, BeginGood DEF Questions
<1>4. CASE NeedsCompaction(finished)
  <2> DEFINE r == [pc |-> "compacting", panel |-> shown, own |-> Recent(finished), ctl |-> 0]
  <2>1. /\ turn' = [turn EXCEPT ![t] = r] /\ busy' = TRUE /\ UNCHANGED <<panels, shown, disk, live>>
    BY <1>4 DEF Send
  <2>2. Recent(finished) \in Seq(Messages)
    <3>1. finished \in Seq(Messages)
      BY <1>2, FinishedTyped
    <3> HIDE DEF finished
    <3> QED BY <1>4, <3>1, RecentTyped
  <2>3. r \in TurnRecords /\ r.pc = "compacting" /\ r.panel = shown
    <3> HIDE DEF finished
    <3> QED BY <1>1, <2>2, TurnAssumption DEF TurnRecords
  <2> HIDE DEF r
  <2>4. /\ turn' \in [Turns -> TurnRecords] /\ turn'[t] = r
        /\ \A u \in Turns \ {t} : turn'[u] = turn[u]
    BY <2>1, <2>3, TurnChanges DEF TurnInv
  <2>5. DisplayOK' /\ PanelsStay
    BY <2>1 DEF DisplayOK, TurnInv, TypeOK, disk, PanelRecords, PanelsStay
  <2>6. TurnsStay
    BY <2>3, <2>4 DEF TurnsStay, Begun
  <2>7. RestOK
    BY <1>1, <2>4 DEF RestOK, TurnInv, TypeOK, internals, OpRecords
  <2>8. TurnInv'
    BY <2>5, <2>6, <2>7, InvKept
  <2>9. ASSUME QuietInv PROVE QuietInv'
    <3>1. \A u \in InFlight' \cup timers' : u = t \/ (u \in InFlight \cup timers /\ turn'[u] = turn[u])
      BY <1>1, <2>4, <2>7 DEF InFlight, RestOK
    <3>2. OnScreen' \subseteq OnScreen
      BY <1>1, <2>1, <2>3, <2>4, <3>1 DEF OnScreen, OpPanels
    <3>3. \A u \in Turns : turn[u].pc \in Held => turn'[u] = turn[u]
      BY <1>1, <2>4 DEF Held, Begun
    <3>4. Waits'
      BY <1>1, <2>1, <2>9, <3>2, <3>3, WaitsKept DEF QuietInv
    <3>5. Streams'
      BY <1>1, <2>1, <2>9 DEF QuietInv, Streams
    <3>6. BusyFor'
      BY <2>3, <2>4 DEF BusyFor
    <3> QED BY <3>4, <3>5, <3>6 DEF QuietInv
  <2>10. \A x \in 1..Len(panels) : Lost(x) = {}
    BY <2>1 DEF Lost
  <2> QED BY <2>8, <2>9, <2>10 DEF StepGood, Seen
<1> QED BY <1>3, <1>4

LEMMA CompactedGood == ASSUME TurnInv, NEW t \in Turns, Compacted(t) PROVE StepGood
<1> DEFINE p == turn[t].panel
           short == <<Message("summary", t)>> \o turn[t].own
<1>1. turn[t].pc = "compacting" /\ UNCHANGED <<internals, timers, op, ops>>
  BY DEF Compacted
<1>2. p \in 1..Len(panels) /\ turn[t].own \in Seq(Messages) /\ panels[p].chat \in Seq(Messages)
  BY TurnFacts, PanelFacts DEF TurnInv
<1>3. t \in InFlight /\ p \in OnScreen
  BY <1>1 DEF InFlight, OnScreen
<1>4. Begin(t, p, short) \/ Begin(t, p, panels[p].chat)
  BY DEF Compacted
<1>5. short \in Seq(Messages) /\ Elements(turn[t].own) \subseteq Elements(short)
  <2> DEFINE own == turn[t].own
             one == <<Message("summary", t)>>
  <2>1. t \in 0..MaxTurns
    BY TurnAssumption DEF Turns
  <2>2. Message("summary", t) \in Messages
    BY <2>1, MessageTyped DEF Kinds
  <2>3. one \in Seq(Messages) /\ Len(one) = 1
    BY <2>2
  <2>4. own \in Seq(Messages)
    BY <1>2
  <2> HIDE DEF own, one
  <2>5. /\ one \o own \in Seq(Messages) /\ Len(one \o own) = 1 + Len(own)
        /\ \A k \in 1..(1 + Len(own)) : (one \o own)[k] = IF k <= 1 THEN one[k] ELSE own[k - 1]
    BY <2>3, <2>4, ConcatProperties
  <2>6. ASSUME NEW k \in 1..Len(own) PROVE own[k] \in Elements(one \o own)
    <3>1. Len(own) \in Nat /\ k \in Nat
      BY <2>4
    <3>2. k + 1 \in 1..(1 + Len(own)) /\ ~(k + 1 <= 1) /\ (k + 1) - 1 = k
      BY <3>1
    <3>3. (one \o own)[k + 1] = own[k]
      BY <2>5, <3>2
    <3> QED BY <2>5, <3>2, <3>3 DEF Elements
  <2>7. Elements(own) \subseteq Elements(one \o own)
    BY <2>6 DEF Elements
  <2> QED BY <2>5, <2>7 DEF own, one
<1> HIDE DEF short
<1>6. CASE Begin(t, p, short)
  <2>1. \A q \in Questions(panels[p].chat) : q \in Elements(short) \/ q \notin Elements(turn[t].own)
    BY <1>5
  <2> QED BY <1>1, <1>2, <1>3, <1>5, <1>6, <2>1, BeginGood
<1>7. CASE Begin(t, p, panels[p].chat)
  <2>1. \A q \in Questions(panels[p].chat) : q \in Elements(panels[p].chat)
    BY DEF Questions
  <2> QED BY <1>1, <1>2, <1>3, <1>7, <2>1, BeginGood
<1> QED BY <1>4, <1>6, <1>7

LEMMA EndsGood == ASSUME TurnInv, NEW t \in Turns, Ends(t) PROVE StepGood
<1>1. PICK p \in 1..Len(panels), k \in {"answer", "note", "stopNote"} :
        End(t, p, Message(k, t), live)
  <2>1. turn[t].panel \in 1..Len(panels)
    BY TurnFacts DEF TurnInv
  <2> QED BY <2>1 DEF Ends, Answered, AnswerFails, TimesOut, Cancelled
<1>2. turn[t].pc = "asking"
  BY DEF Ends, Answered, AnswerFails, TimesOut, Cancelled
<1>3. aborted' \in SUBSET Turns /\ timers' \in SUBSET timers
  <2>1. aborted \in SUBSET Turns /\ ctrl \in 0..MaxTurns /\ MaxTurns \in Nat
    BY TurnAssumption DEF TurnInv, TypeOK
  <2>2. {ctrl} \ {0} \in SUBSET Turns
    BY <2>1 DEF Turns
  <2>3. aborted' = aborted \/ aborted' = aborted \cup ({ctrl} \ {0})
    BY DEF Ends, Answered, AnswerFails, TimesOut, Cancelled, Abort
  <2>4. timers' = timers \/ timers' = timers \ {t}
    BY DEF Ends, Answered, AnswerFails, TimesOut, Cancelled
  <2> QED BY <2>1, <2>2, <2>3, <2>4
<1>4. live \in SUBSET Messages /\ k \in Kinds
  BY DEF TurnInv, TypeOK, Kinds
<1>5. UNCHANGED <<op, ops>>
  BY DEF Ends, Answered, AnswerFails, TimesOut, Cancelled
<1> QED BY <1>1, <1>2, <1>3, <1>4, <1>5, EndGood

LEMMA StutterGood == ASSUME TurnInv, UNCHANGED turnVars PROVE StepGood
<1>1. TurnInv'
  BY DEF turnVars, internals, disk, TurnInv, TypeOK, Bubbles, Bubble, PanelRecords, TurnRecords, OpRecords
<1>2. QuietInv => QuietInv'
  BY DEF turnVars, internals, disk, QuietInv, Waits, Streams, BusyFor, OnScreen, OpPanels, HeldBy,
         Analysing, InFlight
<1>3. \A x \in 1..Len(panels) : Lost(x) = {}
  BY DEF Lost, turnVars
<1> QED BY <1>1, <1>2, <1>3 DEF StepGood, Seen

LEMMA EveryStepGood == TurnInv /\ [TurnNext]_turnVars => StepGood
<1> SUFFICES ASSUME TurnInv, [TurnNext]_turnVars PROVE StepGood
  OBVIOUS
<1>1. ASSUME NEW t \in Turns, Proceed(t) PROVE StepGood
  BY <1>1, CompactedGood, HiddenGood, ContextGood, EndsGood DEF Proceed
<1> QED BY <1>1, SendGood, StreamGood, TimerGood, RestoreGood, StopGood, ResetGood, RestartGood, BeginsGood,
           RefusedGood, OperationEndsGood, AnalyseGood, ReportsGood, StutterGood DEF TurnNext

LEMMA InitGood == TurnInit => TurnInv /\ QuietInv
<1> SUFFICES ASSUME TurnInit PROVE TurnInv /\ QuietInv
  OBVIOUS
<1>1. PICK chat \in {<<>>, <<Message("user", 0), Message("old", 0)>>} :
        /\ panels = <<[run |-> "settled", chat |-> chat, session |-> 1]>> /\ stored = <<chat>>
  BY DEF TurnInit
<1>2. chat \in Seq(Messages)
  <2>1. Message("user", 0) \in Messages /\ Message("old", 0) \in Messages
    BY MessageTyped, TurnAssumption DEF Kinds
  <2>2. \A a, b \in Messages : <<a, b>> \in Seq(Messages)
    OBVIOUS
  <2>3. <<>> \in Seq(Messages)
    OBVIOUS
  <2> QED BY <2>1, <2>2, <2>3
<1>3. stored \in Seq(Seq(Messages)) /\ Len(stored) = 1
  BY <1>1, <1>2
<1>4. panels \in Seq(PanelRecords) /\ Len(panels) = 1 /\ panels[1].run = "settled"
  <2> DEFINE r == [run |-> "settled", chat |-> chat, session |-> 1]
  <2>1. r \in PanelRecords /\ r.run = "settled"
    BY <1>2, <1>3 DEF PanelRecords, Runs
  <2> HIDE DEF r
  <2>2. panels = <<r>>
    BY <1>1 DEF r
  <2> QED BY <2>1, <2>2
<1>5. turn \in [Turns -> TurnRecords] /\ \A t \in Turns : turn[t].pc = "unsent"
  BY <1>4, TurnAssumption DEF TurnInit, TurnRecords
<1>6. TypeOK
  <2>1. shown = 1 /\ kept = 1 /\ busy = FALSE /\ active = 0 /\ ctrl = 0 /\ aborted = {} /\ live = {} /\ timers = {}
       /\ op = NoOp /\ ops = 0
    BY DEF TurnInit
  <2>2. shown \in 1..Len(panels) /\ kept \in 1..Len(stored) /\ 0 \in 0..MaxTurns /\ op \in OpRecords
    BY <1>3, <1>4, <2>1, TurnAssumption DEF NoOp, OpRecords, OpKinds
  <2> QED BY <1>3, <1>4, <1>5, <2>1, <2>2 DEF TypeOK
<1>7. TurnInv
  BY <1>5, <1>6 DEF TurnInv, Bubbles, Begun
<1>8. QuietInv
  <2>1. InFlight \cup timers = {} /\ shown = 1 /\ live = {} /\ busy = FALSE /\ OpPanels = {}
    BY <1>5 DEF TurnInit, InFlight, OpPanels, NoOp
  <2>2. OnScreen = {1}
    BY <2>1 DEF OnScreen
  <2> QED BY <1>4, <2>1, <2>2 DEF QuietInv, Waits, Streams, BusyFor
<1> QED BY <1>7, <1>8

----------------------------------------------------------------------------
\* Every step of the panel keeps the types: the panel shown exists, every turn
\* holds on to a panel there is and to messages, and no index into a chat is
\* out of its range, whatever is compacted, restored or restarted.
THEOREM TurnTypeCorrect == TurnInit /\ [][TurnNext]_turnVars => []TypeOK
<1>1. TurnInv /\ [TurnNext]_turnVars => TurnInv'
  BY EveryStepGood DEF StepGood
<1>2. TurnInv => TypeOK
  BY DEF TurnInv
<1> QED BY <1>1, <1>2, InitGood, PTL

\* When no turn and no operation is under way, no commit is due and no turn was
\* abandoned, the
\* panel has settled, its composer is free and nothing in it streams
\* (sendChat, stopCurrentTurn and commitState of assistantRuntime.ts).
THEOREM QuietIsSettledHolds == TurnInit /\ [][TurnNext]_turnVars => []QuietIsSettled
<1>1. TurnInv /\ QuietInv /\ [TurnNext]_turnVars => (TurnInv /\ QuietInv)'
  BY EveryStepGood DEF StepGood
<1>2. TurnInv /\ QuietInv => QuietIsSettled
  BY QuietImplies DEF TurnInv
<1> QED BY <1>1, <1>2, InitGood, PTL

\* A panel, on screen or not, loses a question only to a turn that did not see
\* or keep it when it began (replaceTrailingPendingAssistant and the
\* compaction), or to a draft, an analysis or a failed search for an issue that
\* ends there with its message in place of the others (generateDraft,
\* computeAnalysisState, locateIssue).
THEOREM SeenQuestionsStayHolds == TurnInit /\ [][TurnNext]_turnVars => SeenQuestionsStay
<1>1. TurnInv /\ [TurnNext]_turnVars => TurnInv'
  BY EveryStepGood DEF StepGood
<1>2. TurnInv /\ [TurnNext]_turnVars => [Seen]_turnVars
  BY EveryStepGood DEF StepGood
<1> QED BY <1>1, <1>2, InitGood, PTL DEF SeenQuestionsStay, Seen

----------------------------------------------------------------------------
\* The active turn is under way.
\* Turns are records with these fields.
Whole(r) == r = [pc |-> r.pc, panel |-> r.panel, own |-> r.own, ctl |-> r.ctl]
Shape == turn = [t \in Turns |-> turn[t]] /\ \A t \in Turns : Whole(turn[t])
ActiveInv == Shape /\ active \in Turns \cup {0} /\ ActiveIsRunning

Running == {"context", "asking"}

\* A step of one turn t: the others keep their records, and the turn is the
\* active one after it only if it runs.
OneTurn(t) ==
  /\ \E r : Whole(r) /\ turn' = [turn EXCEPT ![t] = r]
  /\ active' # t \/ turn'[t].pc \in Running
  /\ active' \in {0, t, active}

LEMMA OneTurnHolds == ASSUME ActiveInv, NEW t \in Turns, OneTurn(t) PROVE ActiveInv'
<1>1. PICK r : Whole(r) /\ turn' = [turn EXCEPT ![t] = r]
  BY DEF OneTurn
<1>2. \A u \in Turns : turn'[u] = IF u = t THEN r ELSE turn[u]
  BY <1>1 DEF ActiveInv, Shape
<1>3. turn' = [u \in Turns |-> turn'[u]]
  BY <1>1 DEF ActiveInv, Shape
<1>4. \A u \in Turns : Whole(turn'[u])
  BY <1>1, <1>2 DEF ActiveInv, Shape
<1>5. active' \in Turns \cup {0}
  BY DEF OneTurn, ActiveInv
<1>6. ActiveIsRunning'
  <2>1. CASE active' = t
    BY <2>1 DEF OneTurn, ActiveIsRunning, Running
  <2>2. CASE active' = 0
    BY <2>2 DEF ActiveIsRunning
  <2>3. CASE active' = active /\ active # t /\ active # 0
    <3>1. active \in Turns /\ turn[active].pc \in {"context", "asking"}
      BY <2>3 DEF ActiveInv, ActiveIsRunning
    <3> QED BY <1>2, <2>3, <3>1 DEF ActiveIsRunning
  <2> QED BY <2>1, <2>2, <2>3 DEF OneTurn
<1> QED BY <1>3, <1>4, <1>5, <1>6 DEF ActiveInv, Shape

\* A turn's field changes.
LEMMA FieldChanges ==
  ASSUME Shape, NEW t \in Turns, NEW pc
  PROVE  /\ Whole([turn[t] EXCEPT !.pc = pc]) /\ [turn[t] EXCEPT !.pc = pc].pc = pc
<1>1. turn[t] = [pc |-> turn[t].pc, panel |-> turn[t].panel, own |-> turn[t].own, ctl |-> turn[t].ctl]
  BY DEF Shape, Whole
<1>2. [turn[t] EXCEPT !.pc = pc] = [pc |-> pc, panel |-> turn[t].panel, own |-> turn[t].own, ctl |-> turn[t].ctl]
  BY <1>1
<1> QED BY <1>2 DEF Whole

\* A turn that begins, or begins after a compaction, is not the active one.
LEMMA BeginsHold ==
  ASSUME ActiveInv, NEW t \in Turns, Send(t) \/ Compacted(t) \/ CompactionFails(t)
  PROVE  ActiveInv'
<1>1. turn[t].pc \notin Running /\ active' = active
  BY DEF Send, Compacted, CompactionFails, internals, Running
<1>2. active' # t
  BY <1>1 DEF ActiveInv, ActiveIsRunning, Running, Turns
<1>3. \E r : Whole(r) /\ turn' = [turn EXCEPT ![t] = r]
  <2>1. CASE CompactionFails(t)
    BY <2>1, FieldChanges DEF CompactionFails, ActiveInv
  <2>2. ASSUME NEW p, NEW chat, Begin(t, p, chat)
        PROVE  \E r : Whole(r) /\ turn' = [turn EXCEPT ![t] = r]
    <3> DEFINE r == [pc |-> "delay", panel |-> p,
                     own |-> chat \o <<Message("user", t), Message("pending", t)>>, ctl |-> 0]
    <3>1. turn' = [turn EXCEPT ![t] = r]
      BY <2>2 DEF Begin
    <3>2. Whole(r)
      BY DEF Whole
    <3> QED BY <3>1, <3>2
  <2>3. CASE Compacted(t)
    BY <2>2, <2>3 DEF Compacted
  <2>4. CASE Send(t)
    <3>1. \/ Begin(t, shown, panels[shown].chat)
          \/ turn' = [turn EXCEPT ![t] = [pc |-> "compacting", panel |-> shown,
                                    own |-> Recent(Finished(panels[shown].chat)), ctl |-> 0]]
      BY <2>4 DEF Send
    <3> QED BY <2>2, <3>1 DEF Whole
  <2> QED BY <2>1, <2>3, <2>4
<1> QED BY <1>1, <1>2, <1>3, OneTurnHolds DEF OneTurn

\* However a turn ends, it is not the active one afterwards.
LEMMA EndsHold ==
  ASSUME ActiveInv, NEW t \in Turns, NEW p, NEW msg, NEW lv, End(t, p, msg, lv)
  PROVE  ActiveInv'
<1>1. active' = IF active = t THEN 0 ELSE active
  BY DEF End
<1>2. active' # t /\ active' \in {0, active}
  BY <1>1 DEF Turns
<1>3. turn' = [turn EXCEPT ![t].pc = IF p = turn[t].panel THEN "done" ELSE "elsewhere"]
  BY DEF End
<1>4. \E r : Whole(r) /\ turn' = [turn EXCEPT ![t] = r]
  BY <1>3, FieldChanges DEF ActiveInv
<1> QED BY <1>2, <1>4, OneTurnHolds DEF OneTurn

LEMMA StartsHold ==
  ASSUME ActiveInv, NEW t \in Turns, Activate(t) \/ ContextBuilt(t)
  PROVE  ActiveInv'
<1>1. CASE Activate(t)
  <2>1. turn' = [turn EXCEPT ![t].pc = "context"] /\ active' = t
    BY <1>1 DEF Activate
  <2>2. /\ turn' = [turn EXCEPT ![t] = [turn[t] EXCEPT !.pc = "context"]]
        /\ Whole([turn[t] EXCEPT !.pc = "context"])
        /\ [turn[t] EXCEPT !.pc = "context"].pc = "context"
    BY <2>1, FieldChanges DEF ActiveInv
  <2>3. turn'[t].pc = "context"
    BY <2>2 DEF ActiveInv, Shape
  <2> QED BY <2>1, <2>2, <2>3, OneTurnHolds DEF OneTurn, Running
<1>2. CASE ContextBuilt(t) /\ ctrl = 0
  <2>1. PICK p, msg, lv : End(t, p, msg, lv)
    BY <1>2 DEF ContextBuilt
  <2> QED BY <2>1, EndsHold
<1>3. CASE ContextBuilt(t) /\ ctrl # 0
  <2> DEFINE r == [pc |-> "asking", panel |-> turn[t].panel, own |-> turn[t].own, ctl |-> ctrl]
  <2>1. turn' = [turn EXCEPT ![t] = r] /\ active' = active
    BY <1>3 DEF ContextBuilt, ActiveInv, Shape
  <2>2. Whole(r) /\ r.pc = "asking"
    BY DEF Whole
  <2> HIDE DEF r
  <2>3. turn'[t].pc = "asking"
    BY <2>1, <2>2 DEF ActiveInv, Shape
  <2>4. active' # t \/ turn'[t].pc \in Running
    BY <2>3 DEF Running
  <2> QED BY <2>1, <2>2, <2>4, OneTurnHolds DEF OneTurn
<1> QED BY <1>1, <1>2, <1>3

LEMMA ActiveHolds == ActiveInv /\ [TurnNext]_turnVars => ActiveInv'
<1> SUFFICES ASSUME ActiveInv, [TurnNext]_turnVars PROVE ActiveInv'
  OBVIOUS
<1>1. CASE UNCHANGED <<turn, active>>
  BY <1>1 DEF ActiveInv, Shape, Whole, ActiveIsRunning
<1>2. CASE UNCHANGED turn /\ active' = 0
  BY <1>2 DEF ActiveInv, Shape, Whole, ActiveIsRunning
<1>3. CASE UNCHANGED turnVars
  BY <1>1, <1>3 DEF turnVars, internals
<1>4. ASSUME NEW t \in Turns, Send(t) \/ Proceed(t) PROVE ActiveInv'
  <2>1. CASE Send(t) \/ Compacted(t) \/ CompactionFails(t)
    BY <2>1, BeginsHold
  <2>2. CASE Activate(t) \/ ContextBuilt(t)
    BY <2>2, StartsHold
  <2>3. CASE Ends(t)
    <3>1. PICK p, msg, lv : End(t, p, msg, lv)
      BY <2>3 DEF Ends, Answered, AnswerFails, TimesOut, Cancelled
    <3> QED BY <3>1, EndsHold
  <2> QED BY <1>4, <2>1, <2>2, <2>3 DEF Proceed
<1>5. ASSUME NEW t \in Turns, Stream(t) \/ TimerFires(t) PROVE ActiveInv'
  BY <1>1, <1>5 DEF Stream, TimerFires, internals
<1>6. CASE \E s \in 1..Len(stored) : Restore(s)
  BY <1>1, <1>6 DEF Restore, internals
<1>9. CASE (\E kind \in {"rollback", "locate", "draft"} : OperationBegins(kind)) \/ OperationRefused
  BY <1>1, <1>9 DEF OperationBegins, OperationRefused, internals
<1>10. CASE OperationEnds \/ Analyse \/ AnalysisReports \/ AnalysisCommits
  BY <1>1, <1>10 DEF OperationEnds, RollbackEnds, LocateEnds, Replaces, AnalysisFails, Report, Analyse,
                     AnalysisReports, AnalysisCommits, internals
<1>7. CASE Stop \/ Reset
  BY <1>2, <1>7 DEF Stop, Reset
<1>8. CASE Restart
  <2>1. active' = 0 /\ \A t \in Turns : Whole(IF turn[t].pc = "unsent" THEN turn[t]
                                              ELSE [turn[t] EXCEPT !.pc = "done"])
    BY <1>8, FieldChanges DEF Restart, ActiveInv, Shape
  <2>2. turn' = [t \in Turns |-> IF turn[t].pc = "unsent" THEN turn[t]
                                 ELSE [turn[t] EXCEPT !.pc = "done"]]
    BY <1>8 DEF Restart
  <2> QED BY <2>1, <2>2 DEF ActiveInv, Shape, ActiveIsRunning
<1> QED BY <1>3, <1>4, <1>5, <1>6, <1>7, <1>8, <1>9, <1>10 DEF TurnNext

\* The stop button has something to stop whenever the runtime has an active
\* turn: no order of answers, failures, time limits, late ends of older turns,
\* new sessions and restarts leaves activeTurnId behind (assistantRuntime.ts).
THEOREM ActiveIsRunningHolds == TurnInit /\ [][TurnNext]_turnVars => []ActiveIsRunning
<1>1. TurnInit => ActiveInv
  BY DEF TurnInit, ActiveInv, Shape, Whole, ActiveIsRunning
<1>2. ActiveInv => ActiveIsRunning
  BY DEF ActiveInv
<1> QED BY <1>1, <1>2, ActiveHolds, PTL

----------------------------------------------------------------------------
\* What the panel stores, for any number of sessions, saves and failures.

Chats == [of : 0..MaxIds, size : 0..MaxSize]
PanelStates == [id : 0..MaxIds, chat : Chats]
Entries == [id : Ids, at : 0..MaxSaves]
Storages == [panel : PanelStates, sessions : [Ids -> Chats], index : SUBSET Entries]

PanelTypeOK ==
  /\ storage \in Storages
  /\ currentState \in PanelStates /\ opening \in PanelStates
  /\ stage \in {"closed", "opening", "open"} /\ analysis \in Chats
  /\ made \in 0..MaxIds /\ saves \in 0..MaxSaves
  /\ origin \in [Ids -> 0..MaxIds] /\ ghosts \subseteq Ids /\ misnamed \subseteq Ids

\* A number is used only when it was given.
Given ==
  /\ storage.panel.id <= made /\ currentState.id <= made /\ opening.id <= made
  /\ \A e \in storage.index : e.id <= made
  /\ \A i \in Ids : i > made => storage.sessions[i] = NoChat

\* A state that is shown, stored or about to be shown has a chat.
HasChat ==
  /\ storage.panel = NoState \/ storage.panel.chat # NoChat
  /\ currentState = NoState \/ currentState.chat # NoChat
  /\ stage = "opening" => opening.chat # NoChat

\* A state with a session's number has the chat the session was made for.
NamedIn(state, names, org) == state.id = 0 \/ state.id \in names \/ org[state.id] = state.chat.of
Named ==
  /\ NamedIn(storage.panel, misnamed, origin)
  /\ NamedIn(currentState, misnamed, origin)
  /\ NamedIn(opening, misnamed, origin)

StoreInv == PanelTypeOK /\ Given /\ HasChat /\ Named /\ HistoryIsSound

LEMMA NoStateTyped == NoState \in PanelStates /\ NoChat \in Chats /\ NoState.id = 0 /\ NoState.chat = NoChat
BY PanelAssumption DEF NoState, NoChat, PanelStates, Chats

LEMMA NewChatTyped ==
  ASSUME NEW n \in 0..MaxIds
  PROVE  NewChat(n) \in Chats /\ NewChat(n) # NoChat /\ NewChat(n).of = n
BY PanelAssumption DEF NewChat, NoChat, Chats

----------------------------------------------------------------------------
\* The three writes.

LEMMA WritePanelDoes ==
  ASSUME NEW d \in Storages, NEW state \in PanelStates, NEW far \in 0..3
  PROVE  /\ WritePanel(d, state, far) \in Storages
         /\ WritePanel(d, state, far).panel = IF far >= 1 THEN state ELSE d.panel
         /\ WritePanel(d, state, far).sessions = d.sessions
         /\ WritePanel(d, state, far).index = d.index
BY DEF WritePanel, SetItem, Storages

LEMMA WriteStateDoes ==
  ASSUME NEW d \in Storages, NEW job, job.id \in Ids, job.chat \in Chats, job.far \in 0..3
  PROVE  /\ WriteState(d, job) \in Storages
         /\ WriteState(d, job).panel = d.panel
         /\ WriteState(d, job).index = d.index
         /\ job.far < 2 => WriteState(d, job).sessions = d.sessions
         /\ job.far >= 2 => WriteState(d, job).sessions[job.id] = job.chat
         /\ \A i \in Ids \ {job.id} : WriteState(d, job).sessions[i] = d.sessions[i]
<1>1. CASE job.far >= 2
  <2>1. WriteState(d, job) = [d EXCEPT !.sessions[job.id] = job.chat]
    BY <1>1 DEF WriteState, SetItem
  <2>. QED BY <1>1, <2>1 DEF Storages
<1>2. CASE job.far < 2
  <2>1. WriteState(d, job) = d
    BY <1>2 DEF WriteState, SetItem
  <2>. QED BY <1>2, <2>1 DEF Storages
<1>. QED BY <1>1, <1>2

LEMMA WriteIndexDoes ==
  ASSUME NEW d \in Storages, NEW job, job.far = 3 => job.entries \in SUBSET Entries
  PROVE  /\ WriteIndex(d, job) \in Storages
         /\ WriteIndex(d, job).panel = d.panel
         /\ WriteIndex(d, job).sessions = d.sessions
         /\ WriteIndex(d, job).index = IF job.far = 3 THEN job.entries ELSE d.index
BY DEF WriteIndex, SetItem, Storages

LEMMA UpsertDoes ==
  ASSUME NEW d, NEW state \in PanelStates, NEW id \in Ids, NEW now \in 0..MaxSaves,
         NEW fresh, NEW far \in 0..3
  PROVE  /\ Upsert(d, state, id, now, fresh, far).id = id
         /\ Upsert(d, state, id, now, fresh, far).chat = state.chat
         /\ Upsert(d, state, id, now, fresh, far).far = far
         /\ state.chat \in Chats
         /\ \A e \in Upsert(d, state, id, now, fresh, far).entries :
              \/ e = [id |-> id, at |-> now] /\ e \in Entries /\ e.id = id
              \/ e \in Listed(d, fresh) /\ e.id # id
BY DEF Upsert, Latest, PanelStates, Entries

\* The list has what the index has; without one, the panel's session, which is
\* made up if it has no number.
LEMMA ListedHas ==
  ASSUME NEW d \in Storages, NEW fresh, NEW e \in Listed(d, fresh)
  PROVE  \/ e \in d.index /\ e \in Entries
         \/ /\ d.index = {} /\ e = [id |-> e.id, at |-> 0]
            /\ e.id = IF d.panel.id = 0 THEN fresh ELSE d.panel.id
BY DEF Listed, Storages

----------------------------------------------------------------------------
\* What a save leaves of the invariant.
StoreKept ==
  /\ storage' \in Storages /\ made' \in made..MaxIds /\ saves' \in 0..MaxSaves
  /\ origin' \in [Ids -> 0..MaxIds] /\ ghosts' \subseteq Ids /\ ghosts \subseteq ghosts'
  /\ \A i \in Ids : i <= made => origin'[i] = origin[i]
  /\ storage'.panel.id <= made'
  /\ storage'.panel = NoState \/ storage'.panel.chat # NoChat
  /\ NamedIn(storage'.panel, misnamed, origin')
  /\ \A e \in storage'.index : e.id <= made'
  /\ \A i \in Ids : i > made' => storage'.sessions[i] = NoChat
  /\ \A e \in storage'.index : e.id \in ghosts' \/ storage'.sessions[e.id] # NoChat
  /\ \A i \in Ids \ misnamed : storage'.sessions[i] = NoChat \/ storage'.sessions[i].of = origin'[i]

LEMMA SaveKeeps ==
  ASSUME StoreInv, NEW state \in PanelStates, NEW far \in 0..3, Save(state, far),
         state.id <= made, state.chat # NoChat, NamedIn(state, misnamed, origin)
  PROVE  StoreKept
<1>1. PICK nameless \in BOOLEAN : nameless = (far > 0 /\ state.id = 0)
  OBVIOUS
<1>2. PICK id \in 0..(MaxIds + 1) : id = IF nameless THEN made + 1 ELSE state.id
  BY PanelAssumption DEF PanelStates, StoreInv, PanelTypeOK
<1>3. PICK ghost : ghost = IF nameless /\ storage.index = {} THEN {made + 2} ELSE {}
  OBVIOUS
<1>4. /\ saves < MaxSaves /\ saves' = saves + 1
      /\ made' = made + (IF nameless THEN 1 ELSE 0) + Cardinality(ghost) /\ made' <= MaxIds
      /\ storage' = IF far = 0 THEN storage
                    ELSE Persisted(WritePanel(storage, state, far),
                           Upsert(WritePanel(storage, state, far), state, id, saves + 1, made + 2, far))
      /\ MadeFor(state.chat, IF nameless THEN {id} ELSE {})
      /\ ghosts' = ghosts \cup ghost
  BY <1>1, <1>2, <1>3 DEF Save
<1>5. /\ made \in Nat /\ MaxIds \in Nat /\ MaxSaves \in Nat /\ saves + 1 \in 0..MaxSaves
      /\ Cardinality(ghost) = IF ghost = {} THEN 0 ELSE 1
      /\ state.chat \in Chats /\ state.chat.of \in 0..MaxIds
  <2>1. made \in Nat /\ MaxIds \in Nat /\ MaxSaves \in Nat /\ saves \in Nat
    BY PanelAssumption DEF StoreInv, PanelTypeOK
  <2>2. saves + 1 \in 0..MaxSaves
    BY <1>4, <2>1
  <2>3. Cardinality(ghost) = IF ghost = {} THEN 0 ELSE 1
    BY <1>3, FS_EmptySet, FS_Singleton
  <2>4. state.chat \in Chats /\ state.chat.of \in 0..MaxIds
    BY DEF PanelStates, Chats
  <2>. QED BY <2>1, <2>2, <2>3, <2>4
<1>6. /\ made' \in made..MaxIds /\ saves' \in 0..MaxSaves
      /\ nameless => made + 1 <= made'
      /\ ghost \subseteq Ids /\ \A g \in ghost : g <= made'
  BY <1>3, <1>4, <1>5 DEF Ids
<1>7. /\ origin' \in [Ids -> 0..MaxIds]
      /\ \A i \in Ids : origin'[i] = IF nameless /\ i = id THEN state.chat.of ELSE origin[i]
  BY <1>4, <1>5 DEF MadeFor, StoreInv, PanelTypeOK
<1>8. \A i \in Ids : i <= made => origin'[i] = origin[i]
  BY <1>2, <1>5, <1>7 DEF Ids
<1>9. ghosts' \subseteq Ids /\ ghosts \subseteq ghosts'
  BY <1>4, <1>6 DEF StoreInv, PanelTypeOK
<1>10. NamedIn(storage.panel, misnamed, origin') /\ NamedIn(state, misnamed, origin')
  BY <1>8, <1>5 DEF StoreInv, Named, NamedIn, Given, PanelTypeOK, Storages, PanelStates, Ids
<1>11. CASE far = 0
  <2>1. storage' = storage
    BY <1>4, <1>11
  <2>2. \A i \in Ids : i > made' => i > made
    BY <1>5, <1>6 DEF Ids
  <2>3. \A i \in Ids \ misnamed : storage.sessions[i] = NoChat \/ storage.sessions[i].of = origin'[i]
    BY <1>8, <1>5 DEF StoreInv, HistoryIsSound, OwnChatIsStored, Given, Ids
  <2>4. storage.panel.id <= made' /\ \A e \in storage.index : e.id <= made'
    BY <1>5, <1>6 DEF StoreInv, Given, PanelTypeOK, Storages, PanelStates, Entries, Ids
  <2>. QED
    BY <1>6, <1>7, <1>8, <1>9, <1>10, <2>1, <2>2, <2>3, <2>4
    DEF StoreKept, StoreInv, PanelTypeOK, Given, HasChat, HistoryIsSound, ListedIsStored
<1>12. CASE far > 0
  <2>0. storage \in Storages /\ far >= 1
    BY <1>12 DEF StoreInv, PanelTypeOK
  <2>1. PICK d \in Storages : /\ d = WritePanel(storage, state, far) /\ d.panel = state
                              /\ d.sessions = storage.sessions /\ d.index = storage.index
    <3>1. WritePanel(storage, state, far) \in Storages
      BY <2>0, WritePanelDoes
    <3>2. PICK d \in Storages : d = WritePanel(storage, state, far)
      BY <3>1
    <3>3. /\ d.panel = state /\ d.sessions = storage.sessions
          /\ d.index = storage.index
      BY <2>0, <3>2, WritePanelDoes
    <3>. QED BY <3>2, <3>3
  <2>2. /\ id \in Ids /\ id <= made'
        /\ id = state.id \/ (nameless /\ id = made + 1)
    <3>1. state.id \in 0..MaxIds /\ made' \in Nat /\ made <= made' /\ made' <= MaxIds
      BY <1>5, <1>6 DEF PanelStates
    <3>2. CASE nameless
      <4>1. id = made + 1 /\ made + 1 \in 1..MaxIds
        BY <1>2, <1>5, <1>6, <3>1, <3>2
      <4>. QED BY <1>6, <3>2, <4>1 DEF Ids
    <3>3. CASE ~nameless
      <4>1. id = state.id /\ state.id # 0
        BY <1>1, <1>2, <1>12, <3>3
      <4>. QED BY <1>5, <3>1, <4>1 DEF Ids
    <3>. QED BY <3>2, <3>3
  <2>3. PICK job : job = Upsert(d, state, id, saves + 1, made + 2, far)
    OBVIOUS
  <2>4. /\ job.id = id /\ job.chat = state.chat /\ job.far = far
        /\ \A e \in job.entries :
             \/ e = [id |-> id, at |-> saves + 1] /\ e \in Entries /\ e.id = id
             \/ e \in Listed(d, made + 2) /\ e.id # id
    <3>1. id \in Ids /\ saves + 1 \in 0..MaxSaves
      BY <1>5, <2>2
    <3>2. PICK now \in 0..MaxSaves : now = saves + 1
      BY <3>1
    <3>3. PICK fresh : fresh = made + 2
      OBVIOUS
    <3>4. /\ Upsert(d, state, id, now, fresh, far).id = id
          /\ Upsert(d, state, id, now, fresh, far).chat = state.chat
          /\ Upsert(d, state, id, now, fresh, far).far = far
          /\ \A e \in Upsert(d, state, id, now, fresh, far).entries :
               \/ e = [id |-> id, at |-> now] /\ e \in Entries /\ e.id = id
               \/ e \in Listed(d, fresh) /\ e.id # id
      <4>1. id \in Ids /\ far \in 0..3 /\ now \in 0..MaxSaves /\ state \in PanelStates
        BY <3>1
      <4>. QED BY <4>1 DEF Upsert, Latest, PanelStates, Entries
    <3>. QED BY <2>3, <3>2, <3>3, <3>4
  <2>5. \A e \in job.entries :
          \/ e \in Entries /\ e.id = id
          \/ e \in storage.index /\ e \in Entries
          \/ e \in Entries /\ e.id \in ghost
    <3> SUFFICES ASSUME NEW e \in Listed(d, made + 2), e.id # id, e \notin storage.index
                 PROVE  e \in Entries /\ e.id \in ghost
      BY <2>1, <2>4, ListedHas DEF StoreInv, PanelTypeOK, Storages
    <3>1. /\ storage.index = {} /\ e = [id |-> e.id, at |-> 0]
          /\ e.id = IF state.id = 0 THEN made + 2 ELSE state.id
      BY <2>1, ListedHas
    <3>2. nameless /\ e.id = made + 2
      BY <1>1, <1>2, <1>12, <3>1
    <3>3. e.id \in ghost /\ e.id \in Ids
      BY <1>3, <1>6, <3>1, <3>2
    <3>. QED BY <1>5, <3>1, <3>3 DEF Entries
  <2>6. job.entries \in SUBSET Entries
    BY <2>5
  <2>7. PICK w \in Storages : w = WriteState(d, job)
    BY <1>5, <2>2, <2>4, WriteStateDoes
  <2>8. /\ w.panel = state /\ w.index = storage.index
        /\ far < 2 => w.sessions = storage.sessions
        /\ far >= 2 => w.sessions[id] = state.chat
        /\ \A i \in Ids \ {id} : w.sessions[i] = storage.sessions[i]
    BY <1>5, <2>1, <2>2, <2>4, <2>7, WriteStateDoes
  <2>9. storage' = WriteIndex(w, job)
    BY <1>4, <1>12, <2>1, <2>3, <2>7 DEF Persisted
  <2>10. /\ storage' \in Storages /\ storage'.panel = state
         /\ storage'.sessions = w.sessions
         /\ storage'.index = IF far = 3 THEN job.entries ELSE storage.index
    BY <2>4, <2>6, <2>8, <2>9, WriteIndexDoes
  <2>11. \A i \in Ids : i > made' => storage'.sessions[i] = NoChat
    <3>1. \A i \in Ids : i > made' => i > made /\ i # id
      BY <1>5, <1>6, <2>2 DEF Ids
    <3>. QED BY <2>8, <2>10, <3>1 DEF StoreInv, Given
  <2>12. \A e \in storage'.index : e.id <= made'
    <3>1. \A e \in storage.index : e.id <= made'
      BY <1>5, <1>6 DEF StoreInv, Given, PanelTypeOK, Storages, Entries, Ids
    <3>. QED BY <1>6, <2>2, <2>5, <2>10, <3>1
  <2>13. \A i \in Ids : storage.sessions[i] # NoChat => storage'.sessions[i] # NoChat
    BY <2>8, <2>10
  <2>14. \A e \in storage'.index : e.id \in ghosts' \/ storage'.sessions[e.id] # NoChat
    <3>1. \A e \in storage.index : e.id \in ghosts' \/ storage'.sessions[e.id] # NoChat
      BY <1>9, <2>13 DEF StoreInv, HistoryIsSound, ListedIsStored, PanelTypeOK, Storages, Entries
    <3>2. CASE far = 3
      <4>1. storage'.sessions[id] # NoChat
        BY <2>8, <2>10, <3>2
      <4>. QED BY <1>4, <2>5, <2>10, <3>1, <3>2, <4>1
    <3>. QED BY <2>10, <3>1, <3>2
  <2>15. \A i \in Ids \ misnamed : storage'.sessions[i] = NoChat \/ storage'.sessions[i].of = origin'[i]
    <3> SUFFICES ASSUME NEW i \in Ids \ misnamed, storage'.sessions[i] # NoChat
                 PROVE  storage'.sessions[i].of = origin'[i]
      OBVIOUS
    <3>1. CASE i = id /\ far >= 2
      <4>1. storage'.sessions[i] = state.chat
        BY <2>8, <2>10, <3>1
      <4>2. CASE nameless
        BY <1>7, <3>1, <4>1, <4>2
      <4>3. CASE ~nameless
        BY <1>10, <1>2, <2>2, <3>1, <4>1, <4>3, PanelAssumption DEF NamedIn, Ids
      <4>. QED BY <4>2, <4>3
    <3>2. CASE i # id \/ far < 2
      <4>1. storage'.sessions[i] = storage.sessions[i]
        BY <2>8, <2>10, <3>2
      <4>2. i <= made
        BY <1>5, <4>1 DEF StoreInv, Given, Ids
      <4>. QED BY <1>8, <4>1, <4>2 DEF StoreInv, HistoryIsSound, OwnChatIsStored
    <3>. QED BY <3>1, <3>2
  <2>16. storage'.panel.id <= made'
    BY <1>5, <1>6, <2>10 DEF PanelStates
  <2>. QED
    BY <1>6, <1>7, <1>8, <1>9, <1>10, <2>10, <2>11, <2>12, <2>14, <2>15, <2>16 DEF StoreKept
<1>. QED BY <1>11, <1>12

\* The entries of a session that is made for a state without a number: its
\* own, those of the index, or the session an empty index makes up.
LEMMA EntriesOfNew ==
  ASSUME StoreInv, NEW state \in PanelStates, state.id = 0, NEW d \in Storages,
         d.index = storage.index, NEW far \in 0..3, far = 3 => d.panel = state,
         NEW id \in Ids, NEW now \in 0..MaxSaves, NEW fresh \in Ids, NEW job,
         job = Upsert(d, state, id, now, fresh, far)
  PROVE  /\ job.id = id /\ job.chat = state.chat /\ job.chat \in Chats /\ job.far = far
         /\ far = 3 => job.entries \in SUBSET Entries
         /\ far = 3 => \A e \in job.entries :
              e.id = id \/ e \in storage.index \/ (storage.index = {} /\ e.id = fresh)
<1>1. /\ job.id = id /\ job.chat = state.chat /\ job.chat \in Chats /\ job.far = far
      /\ \A e \in job.entries :
           \/ e = [id |-> id, at |-> now] /\ e \in Entries /\ e.id = id
           \/ e \in Listed(d, fresh) /\ e.id # id
  BY DEF Upsert, Latest, PanelStates, Entries
<1>2. ASSUME far = 3, NEW e \in Listed(d, fresh)
      PROVE  e \in Entries /\ (e \in storage.index \/ (storage.index = {} /\ e.id = fresh))
  <2>1. CASE e \in d.index
    BY <2>1 DEF Storages
  <2>2. CASE e \notin d.index
    <3>1. d.index = {} /\ e = [id |-> e.id, at |-> 0] /\ e.id = fresh
      BY <1>2, <2>2, ListedHas
    <3>. QED BY <3>1, PanelAssumption DEF Entries
  <2>. QED BY <2>1, <2>2
<1>. QED BY <1>1, <1>2

LEMMA SaveTwiceKeeps ==
  ASSUME StoreInv, NEW state \in PanelStates, NEW far \in 0..3, NEW second \in 0..3,
         SaveTwice(state, far, second), state.id = 0, state.chat # NoChat
  PROVE  StoreKept
<1>1. PICK ghost : ghost = IF storage.index = {} THEN {made + 3, made + 4} ELSE {}
  OBVIOUS
<1>2. PICK d0 : d0 = WritePanel(storage, state, far)
  OBVIOUS
<1>3. PICK d : d = WritePanel(d0, state, second)
  OBVIOUS
<1>4. PICK one : one = Upsert(d, state, made + 1, saves + 1, made + 3, far)
  OBVIOUS
<1>5. PICK two : two = Upsert(d, state, made + 2, saves + 2, made + 4, second)
  OBVIOUS
<1>6. /\ saves + 1 < MaxSaves /\ saves' = saves + 2
      /\ made' = made + 2 + Cardinality(ghost) /\ made' <= MaxIds
      /\ storage' = WriteIndex(WriteIndex(WriteState(WriteState(d, one), two), one), two)
      /\ MadeFor(state.chat, {made + 1, made + 2})
      /\ ghosts' = ghosts \cup ghost
  BY <1>1, <1>2, <1>3, <1>4, <1>5 DEF SaveTwice
<1>7. /\ made \in Nat /\ MaxIds \in Nat /\ MaxSaves \in Nat /\ saves \in Nat
      /\ storage \in Storages /\ storage.index \in SUBSET Entries
      /\ state.chat \in Chats /\ state.chat.of \in 0..MaxIds
  BY PanelAssumption DEF StoreInv, PanelTypeOK, Storages, PanelStates, Chats
<1>8. Cardinality(ghost) = IF ghost = {} THEN 0 ELSE 2
  <2>1. CASE storage.index = {}
    <3>1. Cardinality({made + 3}) = 1 /\ IsFiniteSet({made + 3})
      BY FS_Singleton
    <3>2. made + 4 \notin {made + 3} /\ {made + 3} \cup {made + 4} = {made + 3, made + 4}
      BY <1>7
    <3>3. Cardinality({made + 3, made + 4}) = 2
      BY <3>1, <3>2, FS_AddElement
    <3>. QED BY <1>1, <2>1, <3>3
  <2>2. CASE storage.index # {}
    BY <1>1, <2>2, FS_EmptySet
  <2>. QED BY <2>1, <2>2
<1>9. /\ made' \in made..MaxIds /\ saves' \in 0..MaxSaves
      /\ saves + 1 \in 0..MaxSaves /\ saves + 2 \in 0..MaxSaves
      /\ made + 2 <= made' /\ made' \in Nat
      /\ made + 1 \in Ids /\ made + 2 \in Ids /\ made + 1 # made + 2
      /\ storage.index = {} => made + 3 \in Ids /\ made + 4 \in Ids /\ made + 4 <= made'
  BY <1>1, <1>6, <1>7, <1>8 DEF Ids
<1>10. /\ ghost \in SUBSET Ids /\ \A g \in ghost : g <= made'
       /\ storage.index = {} => made + 3 \in ghost /\ made + 4 \in ghost
  BY <1>1, <1>7, <1>9
<1>11. /\ origin' \in [Ids -> 0..MaxIds]
       /\ \A i \in Ids : origin'[i] = IF i \in {made + 1, made + 2} THEN state.chat.of ELSE origin[i]
  BY <1>6, <1>7 DEF MadeFor, StoreInv, PanelTypeOK
<1>12. \A i \in Ids : i <= made => origin'[i] = origin[i]
  BY <1>7, <1>11 DEF Ids
<1>13. ghosts' \subseteq Ids /\ ghosts \subseteq ghosts'
  BY <1>6, <1>10 DEF StoreInv, PanelTypeOK
<1>14. NamedIn(storage.panel, misnamed, origin') /\ NamedIn(state, misnamed, origin')
  BY <1>12, <1>7 DEF StoreInv, Named, NamedIn, Given, PanelTypeOK, Storages, PanelStates, Ids
<1>15. /\ d \in Storages /\ d.sessions = storage.sessions /\ d.index = storage.index
       /\ d.panel = state \/ d.panel = storage.panel
       /\ far = 3 \/ second = 3 => d.panel = state
  <2>1. /\ d0 \in Storages /\ d0.sessions = storage.sessions /\ d0.index = storage.index
        /\ d0.panel = IF far >= 1 THEN state ELSE storage.panel
    BY <1>2, <1>7, WritePanelDoes
  <2>2. /\ d \in Storages /\ d.sessions = d0.sessions /\ d.index = d0.index
        /\ d.panel = IF second >= 1 THEN state ELSE d0.panel
    BY <1>3, <2>1, WritePanelDoes
  <2>. QED BY <2>1, <2>2
<1>16. PICK f1 : f1 = IF storage.index = {} THEN made + 3 ELSE 1
  OBVIOUS
<1>17. PICK f2 : f2 = IF storage.index = {} THEN made + 4 ELSE 1
  OBVIOUS
<1>18. f1 \in Ids /\ f2 \in Ids
  BY <1>9, <1>16, <1>17, <1>7 DEF Ids
<1>19. \A fresh, other : storage.index # {} => Listed(d, fresh) = Listed(d, other)
  BY <1>15 DEF Listed
<1>20. one = Upsert(d, state, made + 1, saves + 1, f1, far) /\ two = Upsert(d, state, made + 2, saves + 2, f2, second)
  BY <1>4, <1>5, <1>16, <1>17, <1>19 DEF Upsert
<1>21. /\ one.id = made + 1 /\ one.chat = state.chat /\ one.chat \in Chats /\ one.far = far
       /\ far = 3 => one.entries \in SUBSET Entries
       /\ far = 3 => \A e \in one.entries : e.id = made + 1 \/ e \in storage.index \/ e.id \in ghost
  <2>1. PICK id \in Ids : id = made + 1
    BY <1>9
  <2>2. PICK now \in 0..MaxSaves : now = saves + 1
    BY <1>9
  <2>3. one = Upsert(d, state, id, now, f1, far)
    BY <1>20, <2>1, <2>2
  <2>4. /\ one.id = id /\ one.chat = state.chat /\ one.chat \in Chats /\ one.far = far
        /\ far = 3 => one.entries \in SUBSET Entries
        /\ far = 3 => \A e \in one.entries :
             e.id = id \/ e \in storage.index \/ (storage.index = {} /\ e.id = f1)
    BY <1>15, <1>18, <2>3, EntriesOfNew
  <2>. QED BY <1>10, <1>16, <2>1, <2>4
<1>22. /\ two.id = made + 2 /\ two.chat = state.chat /\ two.chat \in Chats /\ two.far = second
       /\ second = 3 => two.entries \in SUBSET Entries
       /\ second = 3 => \A e \in two.entries : e.id = made + 2 \/ e \in storage.index \/ e.id \in ghost
  <2>1. PICK id \in Ids : id = made + 2
    BY <1>9
  <2>2. PICK now \in 0..MaxSaves : now = saves + 2
    BY <1>9
  <2>3. two = Upsert(d, state, id, now, f2, second)
    BY <1>20, <2>1, <2>2
  <2>4. /\ two.id = id /\ two.chat = state.chat /\ two.chat \in Chats /\ two.far = second
        /\ second = 3 => two.entries \in SUBSET Entries
        /\ second = 3 => \A e \in two.entries :
             e.id = id \/ e \in storage.index \/ (storage.index = {} /\ e.id = f2)
    BY <1>15, <1>18, <2>3, EntriesOfNew
  <2>. QED BY <1>10, <1>17, <2>1, <2>4
<1>23. PICK w1 \in Storages :
         /\ w1 = WriteState(d, one) /\ w1.panel = d.panel /\ w1.index = storage.index
         /\ far >= 2 => w1.sessions[made + 1] = state.chat
         /\ far < 2 => w1.sessions = storage.sessions
         /\ \A i \in Ids \ {made + 1} : w1.sessions[i] = storage.sessions[i]
  BY <1>9, <1>15, <1>21, WriteStateDoes
<1>24. PICK w2 \in Storages :
         /\ w2 = WriteState(w1, two) /\ w2.panel = d.panel /\ w2.index = storage.index
         /\ second >= 2 => w2.sessions[made + 2] = state.chat
         /\ second < 2 => w2.sessions = w1.sessions
         /\ \A i \in Ids \ {made + 2} : w2.sessions[i] = w1.sessions[i]
  BY <1>9, <1>22, <1>23, WriteStateDoes
<1>25. PICK w3 \in Storages :
         /\ w3 = WriteIndex(w2, one) /\ w3.panel = d.panel /\ w3.sessions = w2.sessions
         /\ w3.index = IF far = 3 THEN one.entries ELSE storage.index
  BY <1>21, <1>24, WriteIndexDoes
<1>26. /\ storage' \in Storages /\ storage'.panel = d.panel /\ storage'.sessions = w2.sessions
       /\ storage'.index = IF second = 3 THEN two.entries ELSE w3.index
  <2>1. storage' = WriteIndex(w3, two)
    BY <1>6, <1>23, <1>24, <1>25
  <2>. QED BY <1>22, <1>25, <2>1, WriteIndexDoes
<1>27. ASSUME NEW i \in Ids, i # made + 1, i # made + 2
       PROVE  storage'.sessions[i] = storage.sessions[i]
  BY <1>23, <1>24, <1>26, <1>27
<1>28. /\ far >= 2 => storage'.sessions[made + 1] = state.chat
       /\ second >= 2 => storage'.sessions[made + 2] = state.chat
       /\ storage.sessions[made + 1] = NoChat /\ storage.sessions[made + 2] = NoChat
       /\ storage'.sessions[made + 1] \in {NoChat, state.chat}
       /\ storage'.sessions[made + 2] \in {NoChat, state.chat}
  BY <1>7, <1>9, <1>23, <1>24, <1>26 DEF StoreInv, Given
<1>29. \A i \in Ids : i > made' => storage'.sessions[i] = NoChat
  <2>1. \A i \in Ids : i > made' => i > made /\ i # made + 1 /\ i # made + 2
    BY <1>7, <1>9 DEF Ids
  <2>. QED BY <1>27, <2>1 DEF StoreInv, Given
<1>30. \A e \in storage.index : e.id <= made' /\ (e.id \in ghosts' \/ storage'.sessions[e.id] # NoChat)
  <2> SUFFICES ASSUME NEW e \in storage.index
               PROVE  e.id <= made' /\ (e.id \in ghosts' \/ storage'.sessions[e.id] # NoChat)
    OBVIOUS
  <2>1. e.id \in Ids /\ e.id <= made
    BY <1>7 DEF StoreInv, Given, Entries
  <2>2. e.id <= made' /\ e.id # made + 1 /\ e.id # made + 2
    BY <1>7, <1>9, <2>1 DEF Ids
  <2>. QED BY <1>13, <1>27, <2>1, <2>2 DEF StoreInv, HistoryIsSound, ListedIsStored
<1>31. \A e \in storage'.index : e.id <= made' /\ (e.id \in ghosts' \/ storage'.sessions[e.id] # NoChat)
  <2> SUFFICES ASSUME NEW e \in storage'.index
               PROVE  e.id <= made' /\ (e.id \in ghosts' \/ storage'.sessions[e.id] # NoChat)
    OBVIOUS
  <2>1. \/ e \in storage.index
        \/ e.id \in ghost
        \/ far = 3 /\ e.id = made + 1
        \/ second = 3 /\ e.id = made + 2
    BY <1>21, <1>22, <1>25, <1>26
  <2>2. made + 1 <= made' /\ made + 2 <= made'
    BY <1>7, <1>9
  <2>. QED BY <1>6, <1>10, <1>28, <1>30, <2>1, <2>2
<1>32. \A i \in Ids \ misnamed : storage'.sessions[i] = NoChat \/ storage'.sessions[i].of = origin'[i]
  <2> SUFFICES ASSUME NEW i \in Ids \ misnamed, storage'.sessions[i] # NoChat
               PROVE  storage'.sessions[i].of = origin'[i]
    OBVIOUS
  <2>1. CASE i \in {made + 1, made + 2}
    BY <1>11, <1>28, <2>1
  <2>2. CASE i \notin {made + 1, made + 2}
    BY <1>11, <1>27, <2>2 DEF StoreInv, HistoryIsSound, OwnChatIsStored
  <2>. QED BY <2>1, <2>2
<1>33. storage'.panel.id <= made'
  BY <1>7, <1>9, <1>15, <1>26 DEF StoreInv, Given, Storages, PanelStates
<1>34. storage'.panel = NoState \/ storage'.panel.chat # NoChat
  BY <1>15, <1>26 DEF StoreInv, HasChat
<1>. QED
  BY <1>9, <1>11, <1>12, <1>13, <1>14, <1>15, <1>26, <1>29, <1>31, <1>32, <1>33, <1>34
  DEF StoreKept

----------------------------------------------------------------------------
\* The actions.

LEMMA RestKeeps ==
  ASSUME StoreInv, UNCHANGED <<storage, saves, ghosts>>, made' \in made..MaxIds,
         origin' \in [Ids -> 0..MaxIds], \A i \in Ids : i <= made => origin'[i] = origin[i]
  PROVE  StoreKept
<1>1. made \in Nat /\ MaxIds \in Nat
  BY PanelAssumption DEF StoreInv, PanelTypeOK
<1>2. \A i \in Ids : i > made' => i > made
  BY <1>1 DEF Ids
<1>3. storage.panel.id <= made' /\ \A e \in storage.index : e.id <= made'
  BY <1>1 DEF StoreInv, Given, PanelTypeOK, Storages, PanelStates, Entries, Ids
<1>4. NamedIn(storage.panel, misnamed, origin')
  BY <1>1 DEF StoreInv, Named, NamedIn, Given, PanelTypeOK, Storages, PanelStates, Ids
<1>5. \A i \in Ids \ misnamed : storage.sessions[i] = NoChat \/ storage.sessions[i].of = origin'[i]
  BY <1>1 DEF StoreInv, HistoryIsSound, OwnChatIsStored, Given, Ids
<1>. QED
  BY <1>2, <1>3, <1>4, <1>5
  DEF StoreKept, StoreInv, PanelTypeOK, Given, HasChat, HistoryIsSound, ListedIsStored

LEMMA NamedStays ==
  ASSUME StoreInv, StoreKept, NEW state \in PanelStates, state.id <= made,
         NamedIn(state, misnamed, origin)
  PROVE  NamedIn(state, misnamed, origin') /\ state.id <= made'
<1>1. made \in Nat /\ MaxIds \in Nat /\ state.id \in 0..MaxIds
  BY PanelAssumption DEF StoreInv, PanelTypeOK, PanelStates
<1>2. state.id <= made'
  BY <1>1 DEF StoreKept
<1>. QED BY <1>1, <1>2 DEF StoreKept, NamedIn, Ids

LEMMA StoreFrom ==
  ASSUME StoreInv, StoreKept, misnamed \subseteq misnamed', misnamed' \subseteq Ids,
         currentState' \in PanelStates, opening' \in PanelStates,
         stage' \in {"closed", "opening", "open"}, analysis' \in Chats,
         currentState'.id <= made', opening'.id <= made',
         currentState' = NoState \/ currentState'.chat # NoChat,
         stage' = "opening" => opening'.chat # NoChat,
         NamedIn(currentState', misnamed', origin'), NamedIn(opening', misnamed', origin')
  PROVE  StoreInv'
<1>1. made' \in 0..MaxIds
  BY PanelAssumption DEF StoreInv, PanelTypeOK, StoreKept
<1>2. PanelTypeOK'
  BY <1>1 DEF PanelTypeOK, StoreKept
<1>3. Given' /\ HasChat'
  BY DEF Given, HasChat, StoreKept
<1>4. Named'
  BY DEF Named, NamedIn, StoreKept
<1>5. HistoryIsSound'
  BY DEF HistoryIsSound, ListedIsStored, OwnChatIsStored, StoreKept
<1>. QED BY <1>2, <1>3, <1>4, <1>5 DEF StoreInv

LEMMA StateFacts ==
  ASSUME StoreInv
  PROVE  /\ currentState \in PanelStates /\ opening \in PanelStates
         /\ currentState.id <= made /\ opening.id <= made
         /\ NamedIn(currentState, misnamed, origin) /\ NamedIn(opening, misnamed, origin)
         /\ made \in Nat /\ MaxIds \in Nat /\ made <= MaxIds
         /\ misnamed \subseteq Ids /\ analysis \in Chats
         /\ stage \in {"closed", "opening", "open"}
         /\ origin \in [Ids -> 0..MaxIds] /\ storage \in Storages
BY PanelAssumption DEF StoreInv, PanelTypeOK, Given, Named

LEMMA OpenNewKeeps == ASSUME StoreInv, OpenNew PROVE StoreInv'
<1>1. PICK new : new = NewChat(made + 1)
  OBVIOUS
<1>2. /\ stage' = "opening" /\ opening' = [id |-> made + 1, chat |-> new]
      /\ made' = made + 1 /\ MadeFor(new, {made + 1}) /\ made < MaxIds
      /\ UNCHANGED <<storage, currentState, analysis, saves, ghosts, misnamed>>
  BY <1>1 DEF OpenNew
<1>3. made + 1 \in 0..MaxIds /\ made + 1 \in Ids /\ made' \in made..MaxIds
  BY <1>2, StateFacts DEF Ids
<1>4. new \in Chats /\ new # NoChat /\ new.of = made + 1
  BY <1>1, <1>3, NewChatTyped
<1>5. /\ origin' \in [Ids -> 0..MaxIds] /\ origin'[made + 1] = made + 1
      /\ \A i \in Ids : i <= made => origin'[i] = origin[i]
  BY <1>2, <1>3, <1>4, StateFacts DEF MadeFor, Ids
<1>6. StoreKept
  BY <1>2, <1>3, <1>5, RestKeeps
<1>7. /\ opening' \in PanelStates /\ opening'.id <= made' /\ opening'.chat # NoChat
      /\ NamedIn(opening', misnamed, origin')
  BY <1>2, <1>3, <1>4, <1>5, StateFacts DEF PanelStates, NamedIn
<1>8. NamedIn(currentState, misnamed, origin') /\ currentState.id <= made'
  BY <1>6, NamedStays, StateFacts
<1>. QED BY <1>2, <1>6, <1>7, <1>8, StateFacts, StoreFrom DEF StoreInv, HasChat

\* The list has a newest entry.
LEMMA NewestExists ==
  ASSUME NEW S \in SUBSET [id : Nat, at : 0..MaxSaves], S # {}
  PROVE  \E e \in S : \A o \in S : o.at <= e.at
<1> DEFINE T == {MaxSaves - e.at : e \in S}
<1>1. MaxSaves \in Nat
  BY PanelAssumption
<1>2. \A e \in S : e.at \in 0..MaxSaves
  OBVIOUS
<1>3. \A e \in S : MaxSaves - e.at \in Nat
  BY <1>1, <1>2
<1>4. T \in SUBSET Nat /\ T # {}
  BY <1>3
<1>5. PICK n \in T : \A m \in T : n <= m
  <2> HIDE DEF T
  <2>. QED BY <1>4, SmallestOf
<1>6. PICK e \in S : n = MaxSaves - e.at
  BY <1>5
<1>7. ASSUME NEW o \in S PROVE o.at <= e.at
  <2>1. n <= MaxSaves - o.at
    BY <1>5
  <2>. QED BY <1>1, <1>2, <1>6, <2>1
<1>. QED BY <1>7

LEMMA OpenStoredKeeps == ASSUME StoreInv, OpenStored PROVE StoreInv'
<1>0. made \in Nat /\ MaxIds \in Nat /\ made <= MaxIds /\ MaxSaves \in Nat
      /\ storage.panel \in PanelStates /\ storage.panel.chat \in Chats
      /\ storage.panel.id \in 0..MaxIds
  BY PanelAssumption, StateFacts DEF Storages, PanelStates
<1>1. PICK list : list = Listed(storage, made + 1)
  OBVIOUS
<1>2. PICK own : own = {e \in list : e.id = storage.panel.id}
  OBVIOUS
<1>3. PICK meta : meta = IF own # {} THEN own ELSE list
  OBVIOUS
<1>4. PICK entry : entry = CHOOSE e \in meta : \A o \in meta : o.at <= e.at
  OBVIOUS
<1>5. PICK name : name = entry.id
  OBVIOUS
<1>6. /\ storage.panel # NoState /\ name <= MaxIds
      /\ stage' = "opening" /\ opening' = [id |-> name, chat |-> storage.panel.chat]
      /\ made' = made + (IF name = made + 1 THEN 1 ELSE 0)
      /\ MadeFor(storage.panel.chat, IF name = made + 1 THEN {name} ELSE {})
      /\ misnamed' = IF own = {} /\ name # made + 1 /\ origin[name] # storage.panel.chat.of
                       THEN misnamed \cup {name} ELSE misnamed
      /\ UNCHANGED <<storage, currentState, analysis, saves, ghosts>>
  BY <1>1, <1>2, <1>3, <1>4, <1>5 DEF OpenStored
<1>7. \A e \in list :
        \/ e \in storage.index /\ e \in Entries
        \/ /\ storage.index = {} /\ e = [id |-> e.id, at |-> 0]
           /\ e.id = IF storage.panel.id = 0 THEN made + 1 ELSE storage.panel.id
  BY <1>1, ListedHas, StateFacts
<1>8. list # {} /\ list \in SUBSET [id : Nat, at : 0..MaxSaves]
      /\ \A e \in list : e.id \in 1..made \/ e.id = made + 1
  <2>1. list # {}
    BY <1>1, <1>6 DEF Listed
  <2>2. ASSUME NEW e \in list PROVE e \in [id : Nat, at : 0..MaxSaves] /\ (e.id \in 1..made \/ e.id = made + 1)
    <3>1. CASE e \in storage.index
      <4>1. e \in Entries /\ e.id <= made
        BY <3>1, StateFacts DEF Storages, StoreInv, Given
      <4>. QED BY <1>0, <4>1 DEF Entries, Ids
    <3>2. CASE e \notin storage.index
      <4>1. /\ e = [id |-> e.id, at |-> 0]
            /\ e.id = IF storage.panel.id = 0 THEN made + 1 ELSE storage.panel.id
        BY <1>7, <3>2
      <4>2. e.id \in 1..made \/ e.id = made + 1
        BY <1>0, <4>1 DEF StoreInv, Given
      <4>3. e.id \in Nat /\ 0 \in 0..MaxSaves
        BY <1>0, <4>2
      <4>. QED BY <4>1, <4>2, <4>3
    <3>. QED BY <3>1, <3>2
  <2>. QED BY <2>1, <2>2
<1>9. meta # {} /\ meta \in SUBSET list
  BY <1>2, <1>3, <1>8
<1>10. entry \in meta
  <2>1. \E e \in meta : \A o \in meta : o.at <= e.at
    BY <1>8, <1>9, NewestExists
  <2>. QED BY <1>4, <2>1
<1>11. name \in Ids /\ (name <= made \/ name = made + 1)
  <2>1. entry.id \in 1..made \/ entry.id = made + 1
    BY <1>8, <1>9, <1>10
  <2>. QED BY <1>0, <1>5, <1>6, <2>1 DEF Ids
<1>12. /\ made' \in made..MaxIds /\ name <= made'
       /\ origin' \in [Ids -> 0..MaxIds]
       /\ \A i \in Ids : i <= made => origin'[i] = origin[i]
       /\ name = made + 1 => origin'[name] = storage.panel.chat.of
  <2>1. made' \in made..MaxIds /\ name <= made'
    BY <1>0, <1>6, <1>11
  <2>2. storage.panel.chat.of \in 0..MaxIds
    BY <1>0 DEF Chats
  <2>3. origin' = [i \in Ids |-> IF i \in (IF name = made + 1 THEN {name} ELSE {})
                                   THEN storage.panel.chat.of ELSE origin[i]]
    BY <1>6 DEF MadeFor
  <2>4. \A i \in Ids : i <= made => i # made + 1
    BY <1>0 DEF Ids
  <2>. QED BY <1>11, <2>1, <2>2, <2>3, <2>4, StateFacts
<1>13. StoreKept
  BY <1>6, <1>12, RestKeeps
<1>14. misnamed \subseteq misnamed' /\ misnamed' \subseteq Ids
  BY <1>6, <1>11, StateFacts
<1>15. NamedIn(opening', misnamed', origin')
  <2>1. opening'.id = name /\ opening'.chat.of = storage.panel.chat.of
    BY <1>6
  <2>2. CASE own # {}
    <3>1. name = storage.panel.id
      BY <1>2, <1>3, <1>5, <1>10, <2>2
    <3>2. NamedIn(storage.panel, misnamed, origin')
      BY <1>6, <1>13 DEF StoreKept
    <3>. QED BY <1>14, <1>6, <2>1, <3>1, <1>13 DEF NamedIn, StoreKept
  <2>3. CASE own = {}
    <3>1. CASE name = made + 1
      BY <1>12, <2>1, <3>1 DEF NamedIn
    <3>2. CASE name # made + 1
      <4>1. origin'[name] = origin[name]
        BY <1>11, <1>12, <3>2
      <4>. QED BY <1>6, <2>1, <2>3, <3>2, <4>1 DEF NamedIn
    <3>. QED BY <3>1, <3>2
  <2>. QED BY <2>2, <2>3
<1>16. /\ opening' \in PanelStates /\ opening'.id <= made' /\ opening'.chat # NoChat
  <2>1. storage.panel.chat # NoChat
    BY <1>6 DEF StoreInv, HasChat
  <2>2. name \in 0..MaxIds
    BY <1>11, <1>0 DEF Ids
  <2>. QED BY <1>0, <1>6, <1>12, <2>1, <2>2 DEF PanelStates
<1>17. NamedIn(currentState, misnamed', origin') /\ currentState.id <= made'
  <2>1. NamedIn(currentState, misnamed, origin') /\ currentState.id <= made'
    BY <1>13, NamedStays, StateFacts
  <2>. QED BY <1>14, <2>1 DEF NamedIn
<1>. QED BY <1>6, <1>13, <1>14, <1>15, <1>16, <1>17, StateFacts, StoreFrom DEF StoreInv, HasChat

LEMMA OpenedKeeps == ASSUME StoreInv, Opened PROVE StoreInv'
<1>1. PICK far \in 0..3 : Save(opening, far)
  BY DEF Opened
<1>2. /\ stage = "opening" /\ stage' = "open" /\ currentState' = opening /\ opening' = NoState
      /\ UNCHANGED <<analysis, misnamed>>
  BY DEF Opened
<1>3. opening.chat # NoChat
  BY <1>2 DEF StoreInv, HasChat
<1>4. StoreKept
  BY <1>1, <1>3, SaveKeeps, StateFacts
<1>5. NamedIn(opening, misnamed, origin') /\ opening.id <= made'
  BY <1>4, NamedStays, StateFacts
<1>6. NamedIn(NoState, misnamed, origin') /\ NoState.id <= made'
  BY <1>4, NoStateTyped, StateFacts DEF NamedIn, StoreKept
<1>. QED BY <1>2, <1>3, <1>4, <1>5, <1>6, NoStateTyped, StateFacts, StoreFrom

LEMMA SettlesKeeps == ASSUME StoreInv, Settles PROVE StoreInv'
<1>1. PICK size \in {currentState.chat.size, currentState.chat.size + 1}, far \in 0..3 :
        /\ Settled /\ size <= MaxSize
        /\ currentState' = [currentState EXCEPT !.chat.size = size] /\ Save(currentState', far)
        /\ UNCHANGED <<stage, opening, analysis, misnamed>>
  BY DEF Settles
<1>2. PICK state : state = currentState'
  OBVIOUS
<1>3. /\ currentState.chat \in Chats /\ currentState.chat.size \in 0..MaxSize
      /\ currentState.chat # NoChat /\ MaxSize \in Nat
  BY <1>1, StateFacts, PanelAssumption DEF Settled, PanelStates, Chats, StoreInv, HasChat
<1>4. size \in 0..MaxSize /\ size >= currentState.chat.size
  BY <1>1, <1>3
<1>5. /\ state \in PanelStates /\ state.id = currentState.id
      /\ state.chat.of = currentState.chat.of /\ state.chat.size = size
  BY <1>1, <1>2, <1>4, StateFacts DEF PanelStates, Chats
<1>6. state.chat # NoChat
  <2>1. currentState.chat.of # 0 \/ currentState.chat.size # 0
    BY <1>3 DEF Chats, NoChat
  <2>2. state.chat.of # 0 \/ state.chat.size # 0
    BY <1>3, <1>4, <1>5, <2>1
  <2>. QED BY <2>2 DEF NoChat
<1>7. NamedIn(state, misnamed, origin) /\ state.id <= made
  BY <1>5, StateFacts DEF NamedIn
<1>8. StoreKept
  BY <1>1, <1>2, <1>5, <1>6, <1>7, SaveKeeps
<1>9. NamedIn(state, misnamed, origin') /\ state.id <= made'
  BY <1>5, <1>7, <1>8, NamedStays
<1>10. NamedIn(opening, misnamed, origin') /\ opening.id <= made'
  BY <1>8, NamedStays, StateFacts
<1>. QED BY <1>1, <1>2, <1>5, <1>6, <1>8, <1>9, <1>10, StateFacts, StoreFrom DEF StoreInv, HasChat

\* The state an analysis shows has no session's number.
LEMMA AnalysisShown ==
  ASSUME StoreInv, StoreKept, NEW chat \in Chats, chat # NoChat,
         currentState' = [id |-> 0, chat |-> chat], analysis' \in Chats,
         UNCHANGED <<stage, opening, misnamed>>
  PROVE  StoreInv'
<1>1. made' \in 0..MaxIds /\ 0 \in 0..MaxIds
  BY PanelAssumption, StateFacts DEF StoreKept
<1>2. /\ currentState' \in PanelStates /\ currentState'.id <= made'
      /\ currentState'.chat # NoChat /\ NamedIn(currentState', misnamed, origin')
  BY <1>1 DEF PanelStates, NamedIn
<1>3. NamedIn(opening, misnamed, origin') /\ opening.id <= made'
  BY NamedStays, StateFacts
<1>. QED BY <1>2, <1>3, StateFacts, StoreFrom DEF StoreInv, HasChat

LEMMA AnalysisBeginsKeeps == ASSUME StoreInv, AnalysisBegins PROVE StoreInv'
<1>1. PICK new : new = NewChat(made + 1)
  OBVIOUS
<1>2. /\ made < MaxIds /\ made' = made + 1 /\ analysis' = new
      /\ currentState' = [id |-> 0, chat |-> new]
      /\ UNCHANGED <<storage, stage, opening, saves, origin, ghosts, misnamed>>
  BY <1>1 DEF AnalysisBegins
<1>3. made' \in made..MaxIds /\ made + 1 \in 0..MaxIds
  BY <1>2, StateFacts
<1>4. new \in Chats /\ new # NoChat
  BY <1>1, <1>3, NewChatTyped
<1>5. StoreKept
  BY <1>2, <1>3, RestKeeps, StateFacts
<1>. QED BY <1>2, <1>4, <1>5, AnalysisShown

LEMMA AnalysisStreamsKeeps == ASSUME StoreInv, AnalysisStreams PROVE StoreInv'
<1>1. /\ analysis # NoChat /\ currentState' = [id |-> 0, chat |-> analysis]
      /\ UNCHANGED <<storage, stage, opening, analysis, made, saves, origin, ghosts, misnamed>>
  BY DEF AnalysisStreams, panelHistory
<1>2. StoreKept
  BY <1>1, RestKeeps, StateFacts
<1>. QED BY <1>1, <1>2, AnalysisShown, StateFacts

LEMMA AnalysisEndsKeeps == ASSUME StoreInv, AnalysisEnds PROVE StoreInv'
<1>1. PICK far \in 0..3, second \in 0..3 :
        /\ analysis # NoChat /\ analysis' = NoChat
        /\ currentState' = [id |-> 0, chat |-> analysis] /\ SaveTwice(currentState', far, second)
        /\ UNCHANGED <<stage, opening, misnamed>>
  BY DEF AnalysisEnds
<1>2. PICK state : state = currentState'
  OBVIOUS
<1>3. state \in PanelStates /\ state.id = 0 /\ state.chat = analysis
  BY <1>1, <1>2, StateFacts DEF PanelStates
<1>4. StoreKept
  BY <1>1, <1>2, <1>3, SaveTwiceKeeps
<1>. QED BY <1>1, <1>4, AnalysisShown, NoStateTyped, StateFacts

\* A step that only closes, hides or changes what is shown.
LEMMA ShowsKeep ==
  ASSUME StoreInv, StoreKept, UNCHANGED <<made, origin, misnamed>>,
         currentState' \in {currentState, NoState},
         opening' \in PanelStates, opening'.id <= made, NamedIn(opening', misnamed, origin),
         stage' \in {"closed", "opening", "open"}, stage' = "opening" => opening'.chat # NoChat,
         analysis' \in Chats
  PROVE  StoreInv'
<1>1. /\ currentState' \in PanelStates /\ currentState'.id <= made
      /\ NamedIn(currentState', misnamed, origin)
      /\ currentState' = NoState \/ currentState'.chat # NoChat
  BY NoStateTyped, StateFacts DEF NamedIn, StoreInv, HasChat
<1>. QED BY <1>1, StateFacts, StoreFrom

LEMMA ResetKeeps == ASSUME StoreInv, ResetSession PROVE StoreInv'
<1>1. /\ stage' = "closed" /\ currentState' = NoState
      /\ UNCHANGED <<opening, analysis, made, saves, origin, ghosts, misnamed>>
  BY DEF ResetSession, panelHistory
<1>2. PICK after : after = storage'
  OBVIOUS
<1>3. /\ after \in Storages /\ after.panel \in {storage.panel, NoState}
      /\ after.sessions = storage.sessions /\ after.index = storage.index
  BY <1>2, StateFacts, NoStateTyped DEF ResetSession, Cleared, SetItem, Storages
<1>4. StoreKept
  <2>1. UNCHANGED storage => StoreKept
    BY <1>1, RestKeeps, StateFacts
  <2>2. after.panel.id <= made /\ NamedIn(after.panel, misnamed, origin)
        /\ (after.panel = NoState \/ after.panel.chat # NoChat)
    BY <1>3, NoStateTyped, StateFacts DEF StoreInv, Given, Named, NamedIn, HasChat
  <2>3. made' \in made..MaxIds
    BY <1>1, StateFacts
  <2>. QED
    BY <1>1, <1>2, <1>3, <2>2, <2>3, StateFacts
    DEF StoreKept, StoreInv, PanelTypeOK, Given, HistoryIsSound, ListedIsStored, OwnChatIsStored
<1>. QED BY <1>1, <1>4, ShowsKeep, StateFacts

LEMMA CloseKeeps == ASSUME StoreInv, Close PROVE StoreInv'
<1>1. /\ stage' = "closed" /\ currentState' = NoState /\ opening' = NoState /\ analysis' = NoChat
      /\ UNCHANGED <<storage, made, saves, origin, ghosts, misnamed>>
  BY DEF Close, panelHistory
<1>2. StoreKept
  BY <1>1, RestKeeps, StateFacts
<1>3. NoState.id <= made /\ NamedIn(NoState, misnamed, origin)
  BY NoStateTyped, StateFacts DEF NamedIn
<1>. QED BY <1>1, <1>2, <1>3, ShowsKeep, NoStateTyped

LEMMA RestoreSessionKeeps == ASSUME StoreInv, RestoreSession PROVE StoreInv'
<1>1. PICK e \in Listed(storage, 0) :
        /\ stage = "open" /\ e.id # 0
        /\ IF Stored(e.id) # NoChat
             THEN /\ stage' = "opening" /\ opening' = [id |-> e.id, chat |-> Stored(e.id)]
                  /\ UNCHANGED <<storage, currentState, analysis, panelHistory>>
             ELSE /\ Settled /\ \E far \in 0..3 : Save(currentState, far)
                  /\ UNCHANGED <<currentState, stage, opening, analysis, misnamed>>
  BY DEF RestoreSession
<1>2. e.id \in Ids /\ e.id <= made
  <2>1. CASE e \in storage.index /\ e \in Entries
    BY <2>1 DEF StoreInv, Given, Entries
  <2>2. CASE e.id = storage.panel.id
    BY <1>1, <2>2, StateFacts DEF StoreInv, Given, Storages, PanelStates, Ids
  <2>. QED BY <1>1, <2>1, <2>2, ListedHas, StateFacts
<1>3. CASE Stored(e.id) # NoChat
  <2>1. /\ stage' = "opening" /\ opening' = [id |-> e.id, chat |-> storage.sessions[e.id]]
        /\ UNCHANGED <<storage, currentState, analysis, made, saves, origin, ghosts, misnamed>>
        /\ storage.sessions[e.id] # NoChat
    BY <1>1, <1>3 DEF Stored, panelHistory
  <2>2. StoreKept
    BY <2>1, RestKeeps, StateFacts
  <2>3. /\ opening' \in PanelStates /\ opening'.id <= made /\ opening'.chat # NoChat
    BY <1>2, <2>1, StateFacts DEF PanelStates, Storages, Ids
  <2>4. NamedIn(opening', misnamed, origin)
    BY <1>2, <2>1 DEF NamedIn, StoreInv, HistoryIsSound, OwnChatIsStored
  <2>. QED BY <2>1, <2>2, <2>3, <2>4, ShowsKeep, StateFacts
<1>4. CASE Stored(e.id) = NoChat
  <2>1. PICK far \in 0..3 : Save(currentState, far)
    BY <1>1, <1>4
  <2>2. currentState.chat # NoChat /\ UNCHANGED <<currentState, stage, opening, analysis, misnamed>>
    BY <1>1, <1>4 DEF Settled, StoreInv, HasChat
  <2>3. StoreKept
    BY <2>1, <2>2, SaveKeeps, StateFacts
  <2>4. /\ NamedIn(currentState, misnamed, origin') /\ currentState.id <= made'
        /\ NamedIn(opening, misnamed, origin') /\ opening.id <= made'
    BY <2>3, NamedStays, StateFacts
  <2>. QED BY <2>2, <2>3, <2>4, StateFacts, StoreFrom DEF StoreInv, HasChat
<1>. QED BY <1>3, <1>4

LEMMA StoreInit == PanelInit => StoreInv
<1>. SUFFICES ASSUME PanelInit PROVE StoreInv
  OBVIOUS
<1>1. /\ storage = [panel |-> NoState, sessions |-> [i \in Ids |-> NoChat], index |-> {}]
      /\ currentState = NoState /\ stage = "closed" /\ opening = NoState /\ analysis = NoChat
      /\ made = 0 /\ saves = 0 /\ origin = [i \in Ids |-> 0] /\ ghosts = {} /\ misnamed = {}
  BY DEF PanelInit
<1>2. storage \in Storages
  BY <1>1, NoStateTyped DEF Storages
<1>3. PanelTypeOK
  BY <1>1, <1>2, NoStateTyped, PanelAssumption DEF PanelTypeOK
<1>4. Given /\ HasChat /\ Named
  BY <1>1, NoStateTyped DEF Given, HasChat, Named, NamedIn
<1>5. HistoryIsSound
  BY <1>1 DEF HistoryIsSound, ListedIsStored, OwnChatIsStored
<1>. QED BY <1>3, <1>4, <1>5 DEF StoreInv

LEMMA StoreNext == StoreInv /\ [PanelNext]_panelVars => StoreInv'
<1>. SUFFICES ASSUME StoreInv, [PanelNext]_panelVars PROVE StoreInv'
  OBVIOUS
<1>1. CASE UNCHANGED panelVars
  <2>1. UNCHANGED <<storage, currentState, stage, opening, analysis, made, saves, origin, ghosts, misnamed>>
    BY <1>1 DEF panelVars, panelHistory
  <2>2. StoreKept
    BY <2>1, RestKeeps, StateFacts
  <2>. QED BY <2>1, <2>2, ShowsKeep, StateFacts DEF StoreInv, HasChat
<1>. QED
  BY <1>1, OpenNewKeeps, OpenStoredKeeps, OpenedKeeps, SettlesKeeps, AnalysisBeginsKeeps,
     AnalysisStreamsKeeps, AnalysisEndsKeeps, ResetKeeps, RestoreSessionKeeps, CloseKeeps
  DEF PanelNext

\* The history of the sessions can be relied on, for any number of sessions,
\* saves, analyses and failing writes: what it lists is stored, and a session's
\* number leads to the chat it was made for, save the cases the property names.
THEOREM HistoryIsSoundHolds == PanelInit /\ [][PanelNext]_panelVars => []HistoryIsSound
<1>1. StoreInv => HistoryIsSound
  BY DEF StoreInv
<1>. QED BY <1>1, StoreInit, StoreNext, PTL
============================================================================
