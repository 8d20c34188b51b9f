----------------------------- MODULE WiringProofs -----------------------------
(***************************************************************************)
(* For any designs, rules, boards, names, repairs and pins that are not    *)
(* found: no wire of a design is lost on its way to the sheet, power nets  *)
(* are fed, no wire is shorted, and the rule checks tell what is so.       *)
(*                                                                         *)
(* Every step of the way folds over a list: NodesOf merges connections,    *)
(* the repair goes through the requirements and the nets, the completion   *)
(* through the rules and the boards.  FoldRule says what a fold keeps; a   *)
(* plan only grows (Grows), so that what was found in it stays what is     *)
(* found, and the wires it has it keeps.                                   *)
(***************************************************************************)
EXTENDS DraftWiring, Integers, FiniteSetTheorems, SequenceTheorems, WellFoundedInduction, TLAPS

\* A list of whatever its elements are.
IsSeq(l) == l \in Seq(Elements(l))

\* A set of numbers that is not empty has a least one.
LEMMA LeastNumber ==
  ASSUME NEW T \in SUBSET Nat, T # {}
  PROVE  \E x \in T : \A y \in T : x <= y
<1>1. PICK x \in T : \A y \in T : <<y, x>> \notin OpToRel(<, Nat)
  BY NatLessThanWellFounded, WFMin
<1>2. \A y \in T : ~(y < x)
  BY <1>1 DEF OpToRel
<1> QED BY <1>2

\* First tells of a list whose indices that pass are the set hits.
Least(hits) == CHOOSE i \in hits : \A j \in hits : i <= j
LEMMA LeastIs ==
  ASSUME NEW hits \in SUBSET Nat, hits # {}
  PROVE  Least(hits) \in hits /\ \A j \in hits : Least(hits) <= j
BY LeastNumber DEF Least

\* What comes after the first hit does not change it.
LEMMA LeastStays ==
  ASSUME NEW n \in Nat, NEW S \in SUBSET (1..n), NEW T \in SUBSET Nat, S # {}, T \cap (1..n) = S, 0 \notin T
  PROVE  Least(T) = Least(S)
<1>1. S \in SUBSET Nat /\ T # {}
  OBVIOUS
<1>2. Least(S) \in S /\ Least(T) \in T /\ (\A j \in S : Least(S) <= j) /\ (\A j \in T : Least(T) <= j)
  BY <1>1, LeastIs
<1>3. Least(T) <= Least(S) /\ Least(T) \in 1..n
  <2>1. Least(S) \in T /\ Least(S) \in 1..n /\ Least(T) \in Nat /\ Least(T) # 0
    BY <1>2
  <2> QED BY <1>2, <2>1
<1> QED BY <1>2, <1>3

----------------------------------------------------------------------------
\* Lists.

LEMMA SeqIs ==
  ASSUME NEW l, IsSeq(l)
  PROVE  /\ Len(l) \in Nat /\ DOMAIN l = 1..Len(l) /\ l = [i \in 1..Len(l) |-> l[i]]
         /\ Elements(l) = {l[i] : i \in 1..Len(l)}
BY DEF IsSeq, Elements

LEMMA SeqMade ==
  ASSUME NEW n \in Nat, NEW l, l = [i \in 1..n |-> l[i]]
  PROVE  IsSeq(l) /\ Len(l) = n
<1>1. \A i \in 1..n : l[i] \in Elements(l)
  BY DEF Elements
<1> QED BY <1>1 DEF IsSeq

LEMMA SeqIn == ASSUME NEW S, NEW l \in Seq(S) PROVE IsSeq(l)
<1>1. Len(l) \in Nat /\ l = [i \in 1..Len(l) |-> l[i]]
  OBVIOUS
<1> QED BY <1>1, SeqMade

LEMMA AppendSeq ==
  ASSUME NEW l, IsSeq(l), NEW x
  PROVE  /\ IsSeq(Append(l, x)) /\ Len(Append(l, x)) = Len(l) + 1
         /\ \A i \in 1..Len(l) : Append(l, x)[i] = l[i]
         /\ Append(l, x)[Len(l) + 1] = x
         /\ Elements(Append(l, x)) = Elements(l) \cup {x}
<1> DEFINE S == Elements(l) \cup {x}
           a == Append(l, x)
<1>1. l \in Seq(S) /\ x \in S /\ Len(l) \in Nat /\ DOMAIN l = 1..Len(l)
  BY DEF IsSeq, Elements
<1>2. a \in Seq(S) /\ Len(a) = Len(l) + 1 /\ a[Len(l) + 1] = x /\ \A i \in 1..Len(l) : a[i] = l[i]
  <2> HIDE DEF S
  <2> QED BY <1>1
<1>3. DOMAIN a = 1..(Len(l) + 1)
  BY <1>1, <1>2
<1>4. IsSeq(a)
  BY <1>2, SeqIn
<1> HIDE DEF a, S
<1>5. Elements(a) = Elements(l) \cup {x}
  <2>1. 1..(Len(l) + 1) = (1..Len(l)) \cup {Len(l) + 1}
    BY <1>1
  <2>2. Elements(a) = {a[i] : i \in 1..Len(l)} \cup {a[Len(l) + 1]}
    BY <1>3, <2>1 DEF Elements
  <2>3. {a[i] : i \in 1..Len(l)} = Elements(l)
    BY <1>1, <1>2 DEF Elements
  <2> QED BY <1>2, <2>2, <2>3
<1> QED BY <1>2, <1>4, <1>5 DEF a

LEMMA ConcatSeq ==
  ASSUME NEW l, IsSeq(l), NEW m, IsSeq(m)
  PROVE  /\ IsSeq(l \o m) /\ Len(l \o m) = Len(l) + Len(m)
         /\ \A i \in 1..Len(l) : (l \o m)[i] = l[i]
         /\ \A i \in 1..Len(m) : (l \o m)[Len(l) + i] = m[i]
         /\ Elements(l \o m) = Elements(l) \cup Elements(m)
<1> DEFINE S == Elements(l) \cup Elements(m)
           a == l \o m
<1>1. l \in Seq(S) /\ m \in Seq(S)
  <2>1. Seq(Elements(l)) \subseteq Seq(S) /\ Seq(Elements(m)) \subseteq Seq(S)
    OBVIOUS
  <2> QED BY <2>1 DEF IsSeq
<1>2. Len(l) \in Nat /\ Len(m) \in Nat /\ DOMAIN l = 1..Len(l) /\ DOMAIN m = 1..Len(m)
  BY SeqIs
<1>3. /\ a \in Seq(S) /\ Len(a) = Len(l) + Len(m)
      /\ \A i \in 1..(Len(l) + Len(m)) : a[i] = IF i <= Len(l) THEN l[i] ELSE m[i - Len(l)]
  <2> HIDE DEF S
  <2> QED BY <1>1, ConcatProperties
<1>4. IsSeq(a) /\ DOMAIN a = 1..(Len(l) + Len(m))
  <2> HIDE DEF a, S
  <2>1. IsSeq(a)
    BY <1>3, SeqIn
  <2> QED BY <1>2, <1>3, <2>1, SeqIs
<1> HIDE DEF a, S
<1>5. \A i \in 1..Len(l) : a[i] = l[i]
  BY <1>2, <1>3
<1>6. \A i \in 1..Len(m) : a[Len(l) + i] = m[i]
  <2> TAKE i \in 1..Len(m)
  <2>1. Len(l) + i \in 1..(Len(l) + Len(m)) /\ ~(Len(l) + i <= Len(l)) /\ (Len(l) + i) - Len(l) = i
    BY <1>2
  <2> QED BY <1>3, <2>1
<1>7. Elements(a) = Elements(l) \cup Elements(m)
  <2>1. \A i \in DOMAIN a : a[i] \in Elements(l) \cup Elements(m)
    <3> TAKE i \in DOMAIN a
    <3>1. CASE i <= Len(l)
      BY <1>2, <1>4, <1>5, <3>1 DEF Elements
    <3>2. CASE ~(i <= Len(l))
      <4>1. i - Len(l) \in 1..Len(m) /\ a[i] = m[i - Len(l)]
        BY <1>2, <1>3, <1>4, <3>2
      <4> QED BY <1>2, <4>1 DEF Elements
    <3> QED BY <3>1, <3>2
  <2>2. Elements(l) \subseteq Elements(a)
    <3> SUFFICES ASSUME NEW i \in 1..Len(l) PROVE l[i] \in Elements(a)
      BY <1>2 DEF Elements
    <3>1. i \in DOMAIN a
      BY <1>2, <1>4
    <3> QED BY <1>5, <3>1 DEF Elements
  <2>3. Elements(m) \subseteq Elements(a)
    <3> SUFFICES ASSUME NEW i \in 1..Len(m) PROVE m[i] \in Elements(a)
      BY <1>2 DEF Elements
    <3>1. Len(l) + i \in DOMAIN a
      BY <1>2, <1>4
    <3> QED BY <1>6, <3>1 DEF Elements
  <2> QED BY <2>1, <2>2, <2>3 DEF Elements
<1> QED BY <1>3, <1>4, <1>5, <1>6, <1>7 DEF a

----------------------------------------------------------------------------
\* The lists of pins that a design gives a name.

AddOne(c, l, x) == IF x \in Elements(l) THEN l ELSE Append(l, x)
HasAdded(c, k, l) ==
  /\ IsSeq(l) /\ Elements(l) = Elements(c[1]) \cup {c[2][i] : i \in 1..k} /\ Len(c[1]) <= Len(l)
  /\ Elements(c[2]) \subseteq Elements(c[1]) => l = c[1]
Adding == INSTANCE FoldRule WITH Op <- AddOne, Keeps <- HasAdded

LEMMA AddNewIs ==
  ASSUME NEW l, IsSeq(l), NEW items, IsSeq(items)
  PROVE  /\ IsSeq(AddNew(l, items)) /\ Elements(AddNew(l, items)) = Elements(l) \cup Elements(items)
         /\ Len(l) <= Len(AddNew(l, items))
         /\ Elements(items) \subseteq Elements(l) => AddNew(l, items) = l
<1> DEFINE c == <<l, items>>
<1>1. AddNew(l, items) = Adding!Folded(c, l, items)
  BY DEF AddNew, FoldLeft, MapThenFoldSet, Max, AddOne,
         Adding!Folded, Adding!FoldLeft, Adding!MapThenFoldSet, Adding!Max
<1>2. Len(items) \in Nat /\ DOMAIN items = 1..Len(items) /\ HasAdded(c, 0, l)
  BY SeqIs DEF HasAdded
<1>3. ASSUME NEW i \in 1..Len(items), NEW x, HasAdded(c, i - 1, x) PROVE HasAdded(c, i, AddOne(c, x, items[i]))
  <2>1. {items[j] : j \in 1..i} = {items[j] : j \in 1..(i - 1)} \cup {items[i]}
    <3>1. 1..i = (1..(i - 1)) \cup {i}
      BY <1>2
    <3> QED BY <3>1
  <2>2. items[i] \in Elements(items) /\ c[1] = l /\ c[2] = items /\ Len(l) \in Nat
    BY <1>2, SeqIs DEF Elements
  <2> DEFINE z == AddOne(c, x, items[i])
  <2>3. IsSeq(z) /\ Elements(z) = Elements(x) \cup {items[i]} /\ Len(x) <= Len(z) /\ Len(x) \in Nat /\ Len(z) \in Nat
        /\ (items[i] \in Elements(x) => z = x)
    <3>1. IsSeq(x) /\ Len(x) \in Nat
      BY <1>3, SeqIs DEF HasAdded
    <3> QED BY <3>1, AppendSeq DEF AddOne
  <2> HIDE DEF c, z
  <2>4. HasAdded(c, i, z)
    BY <1>3, <2>1, <2>2, <2>3 DEF HasAdded
  <2> QED BY <2>4 DEF z
<1> HIDE DEF c
<1>4. HasAdded(c, Len(items), Adding!Folded(c, l, items))
  BY <1>2, <1>3, Adding!FoldKeeps
<1> QED BY <1>1, <1>4, SeqIs DEF HasAdded, c

Merge(c, l, k) == IF SpecName[k.net] = c.name THEN AddNew(l, k.pins) ELSE l
HasMerged(c, n, l) ==
  /\ IsSeq(l)
  /\ \A k \in 1..n : SpecName[c.conns[k].net] = c.name => Elements(c.conns[k].pins) \subseteq Elements(l)
  /\ \A x \in Elements(l) : \E k \in 1..Len(c.conns) : SpecName[c.conns[k].net] = c.name /\ x \in Elements(c.conns[k].pins)
Merging == INSTANCE FoldRule WITH Op <- Merge, Keeps <- HasMerged

\* A net gets the pins of all connections under its name, and no other.
LEMMA NodesOfIs ==
  ASSUME NEW d \in Designs, NEW name
  PROVE  /\ IsSeq(NodesOf(d, name))
         /\ \A k \in 1..Len(d.conns) : SpecName[d.conns[k].net] = name => Elements(d.conns[k].pins) \subseteq Elements(NodesOf(d, name))
         /\ \A x \in Elements(NodesOf(d, name)) : \E k \in 1..Len(d.conns) : SpecName[d.conns[k].net] = name /\ x \in Elements(d.conns[k].pins)
<1> DEFINE hits == {i \in DOMAIN d.conns : SpecName[d.conns[i].net] = name}
           c == [conns |-> d.conns, name |-> name]
           k == Least(hits)
           base == d.conns[k].pins
<1>1. /\ Len(d.conns) \in Nat /\ DOMAIN d.conns = 1..Len(d.conns)
      /\ \A i \in 1..Len(d.conns) : IsSeq(d.conns[i].pins)
  <2>1. d.conns \in Seq([net : STRING, pins : Seq(STRING)])
    BY DesignsAssumption
  <2>2. \A i \in 1..Len(d.conns) : d.conns[i].pins \in Seq(STRING)
    <3> TAKE i \in 1..Len(d.conns)
    <3>1. d.conns[i] \in [net : STRING, pins : Seq(STRING)]
      BY <2>1, ElementOfSeq
    <3> QED BY <3>1
  <2>3. Len(d.conns) \in Nat /\ DOMAIN d.conns = 1..Len(d.conns)
    BY <2>1
  <2> QED BY <2>2, <2>3, SeqIn
<1>2. CASE hits = {}
  <2>1. NodesOf(d, name) = <<>>
    BY <1>2 DEF NodesOf, First
  <2>2. IsSeq(<<>>) /\ Elements(<<>>) = {}
    BY DEF IsSeq, Elements
  <2> QED BY <1>1, <1>2, <2>1, <2>2
<1>3. CASE hits # {}
  <2>1. k \in hits /\ k # 0
    <3>1. hits \in SUBSET Nat /\ 0 \notin hits
      BY <1>1
    <3> QED BY <1>3, <3>1, LeastIs
  <2>2. NodesOf(d, name) = Merging!Folded(c, base, d.conns)
    <3>1. NodesOf(d, name) = FoldLeft(LAMBDA l, z : IF SpecName[z.net] = name THEN AddNew(l, z.pins) ELSE l, base, d.conns)
      BY <1>3, <2>1 DEF NodesOf, First, Least
    <3> HIDE DEF base
    <3> QED BY <3>1 DEF FoldLeft, MapThenFoldSet, Max, Merge,
             Merging!Folded, Merging!FoldLeft, Merging!MapThenFoldSet, Merging!Max
  <2>3. HasMerged(c, 0, base)
    <3>1. k \in 1..Len(d.conns) /\ SpecName[d.conns[k].net] = name /\ IsSeq(base) /\ 1..0 = {}
      <4>1. k \in DOMAIN d.conns /\ SpecName[d.conns[k].net] = name
        BY <2>1
      <4> HIDE DEF k
      <4> QED BY <1>1, <4>1
    <3>2. c.conns = d.conns /\ c.name = name
      OBVIOUS
    <3> HIDE DEF c, hits
    <3> QED BY <3>1, <3>2 DEF HasMerged
  <2>4. ASSUME NEW i \in 1..Len(d.conns), NEW l, HasMerged(c, i - 1, l) PROVE HasMerged(c, i, Merge(c, l, d.conns[i]))
    <3> DEFINE m == Merge(c, l, d.conns[i])
    <3>1. IsSeq(m) /\ Elements(m) = Elements(l) \cup (IF SpecName[d.conns[i].net] = name THEN Elements(d.conns[i].pins) ELSE {})
      BY <1>1, <2>4, AddNewIs DEF HasMerged, Merge
    <3>2. 1..i = (1..(i - 1)) \cup {i}
      BY <1>1
    <3> HIDE DEF m
    <3>3. \A j \in 1..i : SpecName[d.conns[j].net] = name => Elements(d.conns[j].pins) \subseteq Elements(m)
      BY <2>4, <3>1, <3>2 DEF HasMerged
    <3>4. \A x \in Elements(m) : \E j \in 1..Len(d.conns) : SpecName[d.conns[j].net] = name /\ x \in Elements(d.conns[j].pins)
      BY <2>4, <3>1 DEF HasMerged
    <3>5. HasMerged(c, i, m)
      BY <3>1, <3>3, <3>4 DEF HasMerged
    <3> QED BY <3>5 DEF m
  <2> HIDE DEF c, base
  <2>5. HasMerged(c, Len(d.conns), Merging!Folded(c, base, d.conns))
    BY <1>1, <2>3, <2>4, Merging!FoldKeeps
  <2> QED BY <2>2, <2>5 DEF HasMerged, c
<1> QED BY <1>2, <1>3

----------------------------------------------------------------------------
\* What a plan is, and how it grows.

IsRecord(r) == r = [f \in DOMAIN r |-> r[f]]
IsPin(p) == IsRecord(p) /\ {"id", "comp", "labels", "source", "net"} \subseteq DOMAIN p
IsNet(n) == IsRecord(n) /\ {"id", "name", "power", "nodes"} \subseteq DOMAIN n /\ IsSeq(n.nodes)
PlanFields == {"comps", "expected", "pins", "nets", "required"}
IsPlan(plan) ==
  /\ IsRecord(plan) /\ DOMAIN plan = PlanFields
  /\ IsSeq(plan.comps) /\ IsSeq(plan.pins) /\ IsSeq(plan.nets) /\ IsSeq(plan.required)
  /\ (\A i \in 1..Len(plan.pins) : IsPin(plan.pins[i])) /\ (\A i \in 1..Len(plan.nets) : IsNet(plan.nets[i]))

\* Components and pins keep their places; a pin may be told another net.
SameName(m, n) == ("name" \in DOMAIN n <=> "name" \in DOMAIN m) /\ ("name" \in DOMAIN m => n.name = m.name)
SamePin(m, n) == n.id = m.id /\ n.comp = m.comp /\ n.labels = m.labels /\ n.source = m.source /\ SameName(m, n)
PartsGrow(p, q) ==
  /\ Len(p.comps) <= Len(q.comps) /\ (\A i \in 1..Len(p.comps) : q.comps[i] = p.comps[i])
  /\ Len(p.pins) <= Len(q.pins)
  /\ \A i \in 1..Len(p.pins) :
       SamePin(p.pins[i], q.pins[i])
\* Nets keep their places and names, and lose no pin.
MoreNodes(m, n) ==
  n.id = m.id /\ n.name = m.name /\ n.power = m.power /\ Len(m.nodes) <= Len(n.nodes) /\ Elements(m.nodes) \subseteq Elements(n.nodes)
NetsGrow(p, q) ==
  /\ Len(p.nets) <= Len(q.nets)
  /\ \A i \in 1..Len(p.nets) : MoreNodes(p.nets[i], q.nets[i])
Grows(p, q) == PartsGrow(p, q) /\ NetsGrow(p, q) /\ q.required = p.required

LEMMA Lengths ==
  ASSUME NEW p, IsPlan(p)
  PROVE  /\ Len(p.comps) \in Nat /\ Len(p.pins) \in Nat /\ Len(p.nets) \in Nat /\ Len(p.required) \in Nat
         /\ DOMAIN p.comps = 1..Len(p.comps) /\ DOMAIN p.pins = 1..Len(p.pins) /\ DOMAIN p.nets = 1..Len(p.nets)
         /\ DOMAIN p.required = 1..Len(p.required)
BY SeqIs DEF IsPlan

LEMMA GrowsItself == ASSUME NEW p, IsPlan(p) PROVE Grows(p, p)
<1>1. \A i \in 1..Len(p.nets) : Len(p.nets[i].nodes) \in Nat
  BY SeqIs DEF IsPlan, IsNet
<1> QED BY <1>1, Lengths DEF Grows, PartsGrow, NetsGrow, SamePin, SameName, MoreNodes

LEMMA MoreNodesOn ==
  ASSUME NEW a, NEW b, NEW c, MoreNodes(a, b), MoreNodes(b, c),
         Len(a.nodes) \in Nat, Len(b.nodes) \in Nat, Len(c.nodes) \in Nat
  PROVE  MoreNodes(a, c)
<1>1. Len(a.nodes) <= Len(c.nodes)
  BY DEF MoreNodes
<1>2. Elements(a.nodes) \subseteq Elements(c.nodes)
  BY DEF MoreNodes
<1> QED BY <1>1, <1>2 DEF MoreNodes

LEMMA GrowsOn ==
  ASSUME NEW p, NEW q, NEW r, IsPlan(p), IsPlan(q), IsPlan(r), Grows(p, q), Grows(q, r)
  PROVE  Grows(p, r)
<1>1. /\ Len(p.comps) \in Nat /\ Len(p.pins) \in Nat /\ Len(p.nets) \in Nat
      /\ Len(q.comps) \in Nat /\ Len(q.pins) \in Nat /\ Len(q.nets) \in Nat
      /\ Len(r.comps) \in Nat /\ Len(r.pins) \in Nat /\ Len(r.nets) \in Nat
  BY Lengths
<1>2. PartsGrow(p, r)
  <2>1. PartsGrow(p, q) /\ PartsGrow(q, r)
    BY DEF Grows
  <2>2. 1..Len(p.comps) \subseteq 1..Len(q.comps) /\ 1..Len(p.pins) \subseteq 1..Len(q.pins)
    BY <1>1, <2>1 DEF PartsGrow
  <2> QED BY <1>1, <2>1, <2>2 DEF PartsGrow, SamePin, SameName
<1>3. NetsGrow(p, r)
  <2>1. NetsGrow(p, q) /\ NetsGrow(q, r)
    BY DEF Grows
  <2>2. 1..Len(p.nets) \subseteq 1..Len(q.nets)
    BY <1>1, <2>1 DEF NetsGrow
  <2>3. Len(p.nets) <= Len(r.nets)
    BY <1>1, <2>1 DEF NetsGrow
  <2>4. ASSUME NEW i \in 1..Len(p.nets) PROVE MoreNodes(p.nets[i], r.nets[i])
    <3>1. i \in 1..Len(q.nets)
      BY <2>2
    <3>2. MoreNodes(p.nets[i], q.nets[i]) /\ MoreNodes(q.nets[i], r.nets[i])
      BY <2>1, <3>1 DEF NetsGrow
    <3>3. Len(p.nets[i].nodes) \in Nat /\ Len(q.nets[i].nodes) \in Nat /\ Len(r.nets[i].nodes) \in Nat
      <4>1. Len(p.nets) \in Nat /\ Len(r.nets) \in Nat /\ i \in 1..Len(r.nets)
        BY <1>1, <2>3
      <4> QED BY <3>1, <4>1, SeqIs DEF IsPlan, IsNet
    <3> QED BY <3>2, <3>3, MoreNodesOn
  <2> QED BY <2>3, <2>4 DEF NetsGrow
<1> QED BY <1>2, <1>3 DEF Grows

\* What a pin is found by.
PartsAt(plan, end) == {i \in DOMAIN plan.comps : plan.comps[i].ref = end.ref}
PinsAt(plan, id, end) == {i \in DOMAIN plan.pins : plan.pins[i].comp = id /\ end.label \in plan.pins[i].labels}
LEMMA PinOfIs ==
  ASSUME NEW plan, NEW end
  PROVE  LET c == Least(PartsAt(plan, end))
             on == PinsAt(plan, plan.comps[c].id, end)
         IN PinOf(plan, end) = IF PartsAt(plan, end) = {} \/ c = 0 \/ on = {} THEN 0 ELSE Least(on)
<1> DEFINE c == First(plan.comps, LAMBDA x : x.ref = end.ref)
           id == plan.comps[c].id
<1>1. c = IF PartsAt(plan, end) = {} THEN 0 ELSE Least(PartsAt(plan, end))
  BY DEF First, Least, PartsAt
<1>2. PinOf(plan, end) = IF c = 0 THEN 0 ELSE First(plan.pins, LAMBDA p : p.comp = id /\ end.label \in p.labels)
  BY DEF PinOf
<1>3. First(plan.pins, LAMBDA p : p.comp = id /\ end.label \in p.labels)
        = IF PinsAt(plan, id, end) = {} THEN 0 ELSE Least(PinsAt(plan, id, end))
  <2> HIDE DEF id
  <2> QED BY DEF First, Least, PinsAt
<1> HIDE DEF c
<1> QED BY <1>1, <1>2, <1>3

\* A pin that is found stays the pin that is found.
LEMMA PinOfStays ==
  ASSUME NEW p, NEW q, NEW end, IsSeq(p.comps), IsSeq(p.pins), IsSeq(q.comps), IsSeq(q.pins), PartsGrow(p, q), PinOf(p, end) # 0
  PROVE  PinOf(q, end) = PinOf(p, end) /\ PinOf(p, end) \in 1..Len(p.pins)
<1> DEFINE parts(x) == PartsAt(x, end)
           pins(x, id) == PinsAt(x, id, end)
           c == Least(parts(p))
           id == p.comps[c].id
<1>1. /\ Len(p.comps) \in Nat /\ Len(p.pins) \in Nat /\ Len(q.comps) \in Nat /\ Len(q.pins) \in Nat
      /\ DOMAIN p.comps = 1..Len(p.comps) /\ DOMAIN p.pins = 1..Len(p.pins)
      /\ DOMAIN q.comps = 1..Len(q.comps) /\ DOMAIN q.pins = 1..Len(q.pins)
  BY SeqIs
<1>3. parts(p) # {} /\ pins(p, id) # {} /\ PinOf(p, end) = Least(pins(p, id))
  BY PinOfIs
<1>4. c \in 1..Len(p.comps) /\ c # 0 /\ Least(parts(q)) = c /\ parts(q) # {}
  <2>1. parts(p) \in SUBSET (1..Len(p.comps)) /\ parts(q) \in SUBSET (1..Len(q.comps))
    BY <1>1 DEF PartsAt
  <2>2. parts(q) \cap (1..Len(p.comps)) = parts(p)
    BY <1>1 DEF PartsGrow, PartsAt
  <2>3. c \in parts(p)
    <3> HIDE DEF parts
    <3>1. parts(p) \in SUBSET Nat
      BY <2>1
    <3> QED BY <1>3, <3>1, LeastIs
  <2> HIDE DEF parts
  <2>4. 0 \notin parts(q) /\ parts(q) \in SUBSET Nat
    BY <1>1, <2>1
  <2>5. Least(parts(q)) = Least(parts(p))
    <3>1. Len(p.comps) \in Nat /\ parts(p) # {}
      BY <1>1, <1>3
    <3> HIDE DEF c
    <3> QED BY <3>1, <2>1, <2>2, <2>4, LeastStays
  <2> QED BY <1>1, <1>3, <2>1, <2>2, <2>3, <2>5
<1>5. q.comps[c].id = id
  BY <1>4 DEF PartsGrow
<1> HIDE DEF parts, id, c
<1>6. pins(q, id) # {} /\ Least(pins(q, id)) = Least(pins(p, id)) /\ Least(pins(p, id)) \in 1..Len(p.pins)
  <2>1. pins(p, id) \in SUBSET (1..Len(p.pins)) /\ pins(q, id) \in SUBSET (1..Len(q.pins))
    BY <1>1 DEF PinsAt
  <2>2. pins(q, id) \cap (1..Len(p.pins)) = pins(p, id)
    BY <1>1 DEF PartsGrow, PinsAt, SamePin
  <2> HIDE DEF pins
  <2>3. pins(p, id) \in SUBSET Nat /\ pins(q, id) \in SUBSET Nat /\ 0 \notin pins(q, id)
    BY <1>1, <2>1
  <2>4. Least(pins(p, id)) \in pins(p, id)
    BY <1>3, <2>3, LeastIs
  <2>5. Least(pins(q, id)) = Least(pins(p, id))
    BY <1>1, <1>3, <2>1, <2>2, <2>3, LeastStays
  <2> QED BY <1>3, <2>1, <2>2, <2>4, <2>5
<1> HIDE DEF pins
<1>7. PinOf(q, end) = Least(pins(q, id))
  BY <1>4, <1>5, <1>6, PinOfIs DEF parts, pins
<1> QED BY <1>3, <1>6, <1>7

----------------------------------------------------------------------------
\* The plan of a design.

LEMMA PlanOfIs ==
  ASSUME NEW d \in Designs
  PROVE  /\ IsPlan(PlanOf(d)) /\ IsSeq(d.comps) /\ IsSeq(d.pins) /\ IsSeq(d.nets) /\ PlanOf(d).expected = ExpectedNets(d)
         /\ PartsGrow(d, PlanOf(d)) /\ PlanOf(d).required = d.required
         /\ Len(PlanOf(d).nets) = Len(d.nets)
         /\ Len(PlanOf(d).pins) = Len(d.pins) /\ PlanOf(d).comps = d.comps
         /\ \A i \in 1..Len(d.nets) : PlanOf(d).nets[i].id = d.nets[i].id
         /\ \A i \in 1..Len(d.pins) : PlanOf(d).pins[i].net = NetOfPin(d, d.pins[i].id)
         /\ \A i \in 1..Len(d.nets) : PlanOf(d).nets[i].name = SpecName[d.nets[i].name]
                                      /\ PlanOf(d).nets[i].nodes = NodesOf(d, SpecName[d.nets[i].name])
<1> DEFINE p == PlanOf(d)
           Pins == [id : STRING, comp : STRING, name : STRING, labels : SUBSET STRING, source : BOOLEAN]
           Nets == [id : STRING, name : STRING, words : SUBSET STRING, power : BOOLEAN]
           pin(i) == With(d.pins[i], "net", NetOfPin(d, d.pins[i].id))
           net(i) == With([d.nets[i] EXCEPT !.name = SpecName[@]], "nodes", NodesOf(d, SpecName[d.nets[i].name]))
<1>1. d.pins \in Seq(Pins) /\ d.nets \in Seq(Nets)
  BY DesignsAssumption
<1> HIDE DEF Pins, Nets
<1>2. IsSeq(d.comps) /\ IsSeq(d.pins) /\ IsSeq(d.nets) /\ IsSeq(d.required)
  BY <1>1, DesignsAssumption, SeqIn DEF IsSeq
<1>3. /\ Len(d.comps) \in Nat /\ Len(d.pins) \in Nat /\ Len(d.nets) \in Nat
      /\ DOMAIN d.pins = 1..Len(d.pins) /\ DOMAIN d.nets = 1..Len(d.nets)
  BY <1>2, SeqIs
<1>4. /\ p.comps = d.comps /\ p.required = d.required /\ p.expected = ExpectedNets(d)
      /\ p.pins = [i \in 1..Len(d.pins) |-> pin(i)] /\ p.nets = [i \in 1..Len(d.nets) |-> net(i)]
      /\ p = [f \in PlanFields |-> p[f]]
  BY <1>3 DEF PlanOf, PlanFields
<1> HIDE DEF p
<1>5. IsSeq(p.pins) /\ Len(p.pins) = Len(d.pins) /\ IsSeq(p.nets) /\ Len(p.nets) = Len(d.nets)
  <2> HIDE DEF pin, net
  <2>1. p.pins = [i \in 1..Len(d.pins) |-> p.pins[i]] /\ p.nets = [i \in 1..Len(d.nets) |-> p.nets[i]]
    BY <1>4
  <2> QED BY <1>3, <2>1, SeqMade
<1>6. ASSUME NEW i \in 1..Len(d.pins)
      PROVE  IsPin(p.pins[i]) /\ SamePin(d.pins[i], p.pins[i]) /\ p.pins[i].net = NetOfPin(d, d.pins[i].id)
  <2>1. d.pins[i] \in Pins
    BY <1>1, ElementOfSeq
  <2>2. DOMAIN d.pins[i] = {"id", "comp", "name", "labels", "source"}
    BY <2>1 DEF Pins
  <2>3. p.pins[i] = pin(i)
    BY <1>4
  <2>4. pin(i) = [f \in DOMAIN d.pins[i] \cup {"net"} |-> IF f = "net" THEN NetOfPin(d, d.pins[i].id) ELSE d.pins[i][f]]
    BY <2>2 DEF With
  <2> QED BY <2>2, <2>3, <2>4 DEF IsPin, IsRecord, SamePin, SameName
<1>7. ASSUME NEW i \in 1..Len(d.nets)
      PROVE  IsNet(p.nets[i]) /\ p.nets[i].name = SpecName[d.nets[i].name] /\ p.nets[i].nodes = NodesOf(d, SpecName[d.nets[i].name])
             /\ p.nets[i].id = d.nets[i].id
  <2>1. d.nets[i] \in Nets
    BY <1>1, ElementOfSeq
  <2>2. DOMAIN d.nets[i] = {"id", "name", "words", "power"}
    BY <2>1 DEF Nets
  <2>3. p.nets[i] = net(i)
    BY <1>4
  <2>4. DOMAIN net(i) = {"id", "name", "words", "power", "nodes"} /\ IsRecord(net(i))
        /\ net(i).name = SpecName[d.nets[i].name] /\ net(i).nodes = NodesOf(d, SpecName[d.nets[i].name])
        /\ net(i).id = d.nets[i].id
    BY <2>2 DEF With, IsRecord
  <2>5. IsSeq(NodesOf(d, SpecName[d.nets[i].name]))
    BY NodesOfIs
  <2> QED BY <2>3, <2>4, <2>5 DEF IsNet
<1>8. PartsGrow(d, p)
  <2>1. Len(d.comps) <= Len(p.comps) /\ (\A i \in 1..Len(d.comps) : p.comps[i] = d.comps[i])
    BY <1>3, <1>4
  <2>2. Len(d.pins) <= Len(p.pins)
    BY <1>3, <1>5
  <2>3. \A i \in 1..Len(d.pins) : SamePin(d.pins[i], p.pins[i])
    BY <1>6
  <2> QED BY <2>1, <2>2, <2>3 DEF PartsGrow
<1>9. IsPlan(p)
  BY <1>2, <1>4, <1>5, <1>6, <1>7 DEF IsPlan, IsRecord
<1> QED BY <1>2, <1>4, <1>5, <1>6, <1>7, <1>8, <1>9 DEF p

----------------------------------------------------------------------------
\* The connections that the guidance requires.

Grown(p, q) == IsPlan(q) /\ Grows(p, q)
LEMMA GrownOn ==
  ASSUME NEW p, NEW q, NEW r, IsPlan(p), Grown(p, q), Grown(q, r) PROVE Grown(p, r)
BY GrowsOn DEF Grown

LEMMA GrownItself == ASSUME NEW p, IsPlan(p) PROVE Grown(p, p)
BY GrowsItself DEF Grown

\* First tells whether there is one, and which.
Named(plan, r) == {i \in DOMAIN plan.nets : RepairName[plan.nets[i].name] = RepairName[r.net]}
NetAt(plan, r) == First(plan.nets, LAMBDA x : RepairName[x.name] = RepairName[r.net])
LEMMA NetAtIs ==
  ASSUME NEW plan, NEW r, IsPlan(plan)
  PROVE  /\ NetAt(plan, r) \in {0} \cup (1..Len(plan.nets))
         /\ Named(plan, r) # {} => NetAt(plan, r) # 0
<1>1. NetAt(plan, r) = IF Named(plan, r) = {} THEN 0 ELSE Least(Named(plan, r))
  BY DEF NetAt, First, Least, Named
<1>2. Named(plan, r) \in SUBSET Nat /\ 0 \notin Named(plan, r) /\ Named(plan, r) \subseteq 1..Len(plan.nets)
  BY Lengths DEF Named
<1>3. Named(plan, r) # {} => Least(Named(plan, r)) \in Named(plan, r)
  BY <1>2, LeastIs
<1> QED BY <1>1, <1>2, <1>3

\* The other way to say what Backfill does.
LEMMA BackfillIs ==
  ASSUME NEW plan, NEW r, IsPlan(plan)
  PROVE  LET f == PinOf(plan, r.from)
             t == PinOf(plan, r.to)
             n == NetAt(plan, r)
             q == Backfill(plan, r)
         IN IF 0 \in {f, t, n} THEN q = plan
            ELSE /\ n \in 1..Len(plan.nets) /\ f \in 1..Len(plan.pins) /\ t \in 1..Len(plan.pins)
                 /\ IsRecord(q) /\ DOMAIN q = PlanFields
                 /\ q.comps = plan.comps /\ q.required = plan.required /\ q.expected = plan.expected
                 /\ q.nets = [plan.nets EXCEPT ![n].nodes = AddNew(@, <<plan.pins[f].id, plan.pins[t].id>>)]
                 /\ q.pins = [plan.pins EXCEPT ![f].net = plan.nets[n].name, ![t].net = plan.nets[n].name]
<1> DEFINE f == PinOf(plan, r.from)
           t == PinOf(plan, r.to)
           n == NetAt(plan, r)
           q == Backfill(plan, r)
<1>1. q = IF 0 \in {f, t, n} THEN plan
          ELSE [plan EXCEPT !.nets[n].nodes = AddNew(@, <<plan.pins[f].id, plan.pins[t].id>>),
                            !.pins[f].net = plan.nets[n].name, !.pins[t].net = plan.nets[n].name]
  BY DEF Backfill, NetAt
<1>2. CASE 0 \in {f, t, n}
  BY <1>1, <1>2
<1>3. CASE 0 \notin {f, t, n}
  <2>1. n \in 1..Len(plan.nets)
    BY <1>3, NetAtIs
  <2>2. f \in 1..Len(plan.pins) /\ t \in 1..Len(plan.pins)
    <3>1. PartsGrow(plan, plan) /\ IsSeq(plan.comps) /\ IsSeq(plan.pins)
      BY GrowsItself DEF Grows, IsPlan
    <3>2. f # 0 /\ t # 0
      BY <1>3
    <3> QED BY <3>1, <3>2, PinOfStays
  <2> HIDE DEF f, t, n, q
  <2>3. DOMAIN plan = PlanFields /\ IsRecord(plan)
    BY DEF IsPlan
  <2>4. q = [plan EXCEPT !.nets[n].nodes = AddNew(@, <<plan.pins[f].id, plan.pins[t].id>>),
                         !.pins[f].net = plan.nets[n].name, !.pins[t].net = plan.nets[n].name]
    BY <1>1, <1>3
  <2>5. /\ IsRecord(q) /\ DOMAIN q = PlanFields /\ q.comps = plan.comps /\ q.required = plan.required /\ q.expected = plan.expected
        /\ q.nets = [plan.nets EXCEPT ![n].nodes = AddNew(@, <<plan.pins[f].id, plan.pins[t].id>>)]
        /\ q.pins = [plan.pins EXCEPT ![f].net = plan.nets[n].name, ![t].net = plan.nets[n].name]
    <3> DEFINE A == AddNew(plan.nets[n].nodes, <<plan.pins[f].id, plan.pins[t].id>>)
               X == plan.nets[n].name
    <3>1. q = [plan EXCEPT !.nets[n].nodes = A, !.pins[f].net = X, !.pins[t].net = X]
      BY <2>4
    <3> HIDE DEF A, X
    <3>2. IsRecord(q)
      BY <3>1 DEF IsRecord
    <3>3. DOMAIN q = PlanFields /\ q.comps = plan.comps /\ q.required = plan.required /\ q.expected = plan.expected
      BY <2>3, <3>1 DEF PlanFields
    <3>4. q.nets = [plan.nets EXCEPT ![n].nodes = A]
      BY <2>3, <3>1 DEF PlanFields
    <3>5. q.pins = [plan.pins EXCEPT ![f].net = X, ![t].net = X]
      BY <2>3, <3>1 DEF PlanFields
    <3> QED BY <3>2, <3>3, <3>4, <3>5 DEF A, X
  <2> QED BY <1>3, <2>1, <2>2, <2>5 DEF f, t, n, q
<1> QED BY <1>2, <1>3

LEMMA PinTold ==
  ASSUME NEW p, IsPin(p), NEW x, NEW q, q = [p EXCEPT !.net = x]
  PROVE  IsPin(q) /\ SamePin(p, q) /\ q.net = x
<1>1. IsRecord(q)
  BY DEF IsRecord
<1>2. DOMAIN q = DOMAIN p /\ q.id = p.id /\ q.comp = p.comp /\ q.labels = p.labels /\ q.source = p.source /\ SameName(p, q)
  BY DEF SameName
<1>3. q.net = x
  BY DEF IsPin
<1> QED BY <1>1, <1>2, <1>3 DEF IsPin, SamePin

LEMMA BackfillGrows ==
  ASSUME NEW plan, NEW r, IsPlan(plan)
  PROVE  LET f == PinOf(plan, r.from)
             t == PinOf(plan, r.to)
             n == NetAt(plan, r)
             q == Backfill(plan, r)
         IN /\ Grown(plan, q)
            /\ Len(q.comps) = Len(plan.comps) /\ Len(q.pins) = Len(plan.pins) /\ Len(q.nets) = Len(plan.nets)
            /\ q.expected = plan.expected
            /\ 0 \notin {f, t, n} =>
                 /\ n \in 1..Len(q.nets) /\ f \in 1..Len(q.pins) /\ t \in 1..Len(q.pins)
                 /\ {plan.pins[f].id, plan.pins[t].id} \subseteq Elements(q.nets[n].nodes)
                 /\ q.pins[f].net = plan.nets[n].name /\ q.pins[t].net = plan.nets[n].name
                 /\ \A i \in 1..Len(plan.pins) : i \notin {f, t} => q.pins[i] = plan.pins[i]
                 /\ \A i \in 1..Len(plan.nets) : i # n => q.nets[i] = plan.nets[i]
                 /\ Elements(q.nets[n].nodes) = Elements(plan.nets[n].nodes) \cup {plan.pins[f].id, plan.pins[t].id}
<1> DEFINE f == PinOf(plan, r.from)
           t == PinOf(plan, r.to)
           n == NetAt(plan, r)
           q == Backfill(plan, r)
           two == <<plan.pins[f].id, plan.pins[t].id>>
<1>1. CASE 0 \in {f, t, n}
  BY <1>1, BackfillIs, GrownItself
<1>2. CASE 0 \notin {f, t, n}
  <2>1. /\ n \in 1..Len(plan.nets) /\ f \in 1..Len(plan.pins) /\ t \in 1..Len(plan.pins)
        /\ IsRecord(q) /\ DOMAIN q = PlanFields
        /\ q.comps = plan.comps /\ q.required = plan.required /\ q.expected = plan.expected
        /\ q.nets = [plan.nets EXCEPT ![n].nodes = AddNew(@, two)]
        /\ q.pins = [plan.pins EXCEPT ![f].net = plan.nets[n].name, ![t].net = plan.nets[n].name]
    BY <1>2, BackfillIs
  <2>2. IsSeq(two) /\ Elements(two) = {plan.pins[f].id, plan.pins[t].id}
    BY DEF IsSeq, Elements
  <2> HIDE DEF f, t, n, q, two
  <2>3. /\ Len(plan.nets) \in Nat /\ Len(plan.pins) \in Nat
        /\ plan.nets = [i \in 1..Len(plan.nets) |-> plan.nets[i]] /\ plan.pins = [i \in 1..Len(plan.pins) |-> plan.pins[i]]
        /\ (\A i \in 1..Len(plan.nets) : IsNet(plan.nets[i])) /\ (\A i \in 1..Len(plan.pins) : IsPin(plan.pins[i]))
        /\ IsSeq(plan.comps) /\ IsSeq(plan.required) /\ Len(plan.comps) \in Nat
    BY SeqIs DEF IsPlan
  <2>4. q.nets = [i \in 1..Len(plan.nets) |-> q.nets[i]] /\ q.pins = [i \in 1..Len(plan.pins) |-> q.pins[i]]
    BY <2>1, <2>3
  <2>5. IsSeq(q.nets) /\ Len(q.nets) = Len(plan.nets) /\ IsSeq(q.pins) /\ Len(q.pins) = Len(plan.pins)
    BY <2>3, <2>4, SeqMade
  <2>6. ASSUME NEW i \in 1..Len(plan.nets)
        PROVE  /\ IsNet(q.nets[i]) /\ MoreNodes(plan.nets[i], q.nets[i])
               /\ i = n => Elements(q.nets[i].nodes) = Elements(plan.nets[i].nodes) \cup Elements(two)
               /\ i # n => q.nets[i] = plan.nets[i]
    <3>1. CASE i # n
      <4>1. q.nets[i] = plan.nets[i]
        BY <2>1, <2>3, <3>1
      <4>2. Len(plan.nets[i].nodes) \in Nat
        BY <2>3, SeqIs DEF IsNet
      <4> QED BY <2>3, <3>1, <4>1, <4>2 DEF MoreNodes
    <3>2. CASE i = n
      <4>1. q.nets[i] = [plan.nets[i] EXCEPT !.nodes = AddNew(plan.nets[i].nodes, two)]
        BY <2>1, <2>3, <3>2
      <4>2. IsNet(plan.nets[i])
        BY <2>3
      <4>3. /\ IsSeq(AddNew(plan.nets[i].nodes, two))
            /\ Elements(AddNew(plan.nets[i].nodes, two)) = Elements(plan.nets[i].nodes) \cup Elements(two)
            /\ Len(plan.nets[i].nodes) <= Len(AddNew(plan.nets[i].nodes, two))
        BY <2>2, <4>2, AddNewIs DEF IsNet
      <4>4. IsRecord(q.nets[i]) /\ DOMAIN q.nets[i] = DOMAIN plan.nets[i] /\ q.nets[i].name = plan.nets[i].name
            /\ q.nets[i].id = plan.nets[i].id /\ q.nets[i].power = plan.nets[i].power
            /\ q.nets[i].nodes = AddNew(plan.nets[i].nodes, two)
        BY <4>1, <4>2 DEF IsRecord, IsNet
      <4> QED BY <3>2, <4>2, <4>3, <4>4 DEF IsNet, MoreNodes
    <3> QED BY <3>1, <3>2
  <2>7. ASSUME NEW i \in 1..Len(plan.pins)
        PROVE  /\ IsPin(q.pins[i]) /\ SamePin(plan.pins[i], q.pins[i])
               /\ IF i \in {f, t} THEN q.pins[i].net = plan.nets[n].name ELSE q.pins[i] = plan.pins[i]
    <3> DEFINE X == plan.nets[n].name
               mid == [plan.pins EXCEPT ![f].net = X]
    <3>1. IsPin(plan.pins[i]) /\ i \in DOMAIN plan.pins /\ DOMAIN mid = DOMAIN plan.pins
      BY <2>3
    <3> HIDE DEF X
    <3>2. IF i = f THEN mid[i] = [plan.pins[i] EXCEPT !.net = X] ELSE mid[i] = plan.pins[i]
      BY <3>1
    <3>3. q.pins = [mid EXCEPT ![t].net = X]
      BY <2>1 DEF X
    <3> HIDE DEF mid
    <3>4. IF i = t THEN q.pins[i] = [mid[i] EXCEPT !.net = X] ELSE q.pins[i] = mid[i]
      BY <3>1, <3>3
    <3>5. IsPin(mid[i]) /\ SamePin(plan.pins[i], mid[i]) /\ (i = f => mid[i].net = X)
      <4>1. CASE i = f
        BY <3>1, <3>2, <4>1, PinTold
      <4>2. CASE i # f
        BY <3>1, <3>2, <4>2 DEF SamePin, SameName
      <4> QED BY <4>1, <4>2
    <3>6. IsPin(q.pins[i]) /\ SamePin(mid[i], q.pins[i]) /\ (i = t => q.pins[i].net = X) /\ (i # t => q.pins[i] = mid[i])
      <4> DEFINE y == mid[i]
      <4>0. IsPin(y)
        BY <3>5
      <4>1. CASE i = t
        <5>1. q.pins[i] = [y EXCEPT !.net = X]
          BY <3>4, <4>1
        <5> HIDE DEF y
        <5>2. IsPin(q.pins[i]) /\ SamePin(y, q.pins[i]) /\ q.pins[i].net = X
          BY <4>0, <5>1, PinTold
        <5> QED BY <4>1, <5>2 DEF y
      <4>2. CASE i # t
        <5>1. q.pins[i] = y
          BY <3>4, <4>2
        <5> QED BY <4>0, <4>2, <5>1 DEF SamePin, SameName
      <4> QED BY <4>1, <4>2
    <3> QED BY <3>2, <3>5, <3>6 DEF SamePin, SameName, X
  <2>8. IsPlan(q)
    BY <2>1, <2>3, <2>5, <2>6, <2>7 DEF IsPlan
  <2>9. Grows(plan, q)
    <3>1. PartsGrow(plan, q)
      <4>1. Len(plan.comps) <= Len(q.comps) /\ Len(plan.pins) <= Len(q.pins)
        BY <2>1, <2>3, <2>5
      <4>2. \A i \in 1..Len(plan.comps) : q.comps[i] = plan.comps[i]
        BY <2>1
      <4>3. \A i \in 1..Len(plan.pins) : SamePin(plan.pins[i], q.pins[i])
        BY <2>7
      <4> QED BY <4>1, <4>2, <4>3 DEF PartsGrow
    <3>2. NetsGrow(plan, q)
      <4>1. Len(plan.nets) <= Len(q.nets)
        BY <2>3, <2>5
      <4>2. \A i \in 1..Len(plan.nets) : MoreNodes(plan.nets[i], q.nets[i])
        BY <2>6
      <4> QED BY <4>1, <4>2 DEF NetsGrow
    <3> QED BY <2>1, <3>1, <3>2 DEF Grows
  <2>10. /\ Grown(plan, q) /\ Len(q.comps) = Len(plan.comps) /\ Len(q.pins) = Len(plan.pins) /\ Len(q.nets) = Len(plan.nets)
         /\ q.expected = plan.expected
         /\ n \in 1..Len(q.nets) /\ f \in 1..Len(q.pins) /\ t \in 1..Len(q.pins)
         /\ {plan.pins[f].id, plan.pins[t].id} \subseteq Elements(q.nets[n].nodes)
         /\ q.pins[f].net = plan.nets[n].name /\ q.pins[t].net = plan.nets[n].name
         /\ \A i \in 1..Len(plan.pins) : i \notin {f, t} => q.pins[i] = plan.pins[i]
         /\ \A i \in 1..Len(plan.nets) : i # n => q.nets[i] = plan.nets[i]
         /\ Elements(q.nets[n].nodes) = Elements(plan.nets[n].nodes) \cup {plan.pins[f].id, plan.pins[t].id}
    BY <2>1, <2>2, <2>5, <2>6, <2>7, <2>8, <2>9 DEF Grown
  <2> QED BY <2>10 DEF f, t, n, q
<1> QED BY <1>1, <1>2

----------------------------------------------------------------------------
\* A required connection of pins that a plan has, on a net that it has, is
\* there in a later plan.
Met(p, q, r) ==
  LET f == PinOf(p, r.from)
      t == PinOf(p, r.to)
  IN f # 0 /\ t # 0 /\ Named(p, r) # {} =>
       \E i \in 1..Len(q.nets) : {p.pins[f].id, p.pins[t].id} \subseteq Elements(q.nets[i].nodes)

LEMMA MetStays ==
  ASSUME NEW p, NEW q, NEW z, NEW r, IsPlan(q), Grown(q, z), Met(p, q, r) PROVE Met(p, z, r)
<1>1. Len(q.nets) \in Nat /\ Len(z.nets) \in Nat
  BY Lengths DEF Grown
<1>2. \A i \in 1..Len(q.nets) : i \in 1..Len(z.nets) /\ Elements(q.nets[i].nodes) \subseteq Elements(z.nets[i].nodes)
  <2>1. NetsGrow(q, z)
    BY DEF Grown, Grows
  <2>2. 1..Len(q.nets) \subseteq 1..Len(z.nets)
    BY <1>1, <2>1 DEF NetsGrow
  <2> QED BY <2>1, <2>2 DEF NetsGrow, MoreNodes
<1> QED BY <1>2 DEF Met

LEMMA BackfillMeets ==
  ASSUME NEW p, NEW q, NEW r, IsPlan(p), Grown(p, q) PROVE Met(p, Backfill(q, r), r)
<1> DEFINE f == PinOf(p, r.from)
           t == PinOf(p, r.to)
<1> SUFFICES ASSUME f # 0, t # 0, Named(p, r) # {}
             PROVE  \E i \in 1..Len(Backfill(q, r).nets) : {p.pins[f].id, p.pins[t].id} \subseteq Elements(Backfill(q, r).nets[i].nodes)
  BY DEF Met
<1>1. IsPlan(q) /\ PartsGrow(p, q) /\ NetsGrow(p, q) /\ IsSeq(p.comps) /\ IsSeq(p.pins) /\ IsSeq(q.comps) /\ IsSeq(q.pins)
  BY DEF Grown, Grows, IsPlan
<1>2. PinOf(q, r.from) = f /\ PinOf(q, r.to) = t /\ f \in 1..Len(p.pins) /\ t \in 1..Len(p.pins)
  BY <1>1, PinOfStays
<1>3. q.pins[f].id = p.pins[f].id /\ q.pins[t].id = p.pins[t].id
  BY <1>1, <1>2 DEF PartsGrow, SamePin
<1>4. Named(q, r) # {}
  <2>1. Len(p.nets) \in Nat /\ DOMAIN p.nets = 1..Len(p.nets) /\ Len(q.nets) \in Nat /\ DOMAIN q.nets = 1..Len(q.nets)
    BY <1>1, Lengths
  <2>2. PICK i \in 1..Len(p.nets) : RepairName[p.nets[i].name] = RepairName[r.net]
    BY <2>1 DEF Named
  <2>3. i \in 1..Len(q.nets) /\ q.nets[i].name = p.nets[i].name
    BY <1>1, <2>1 DEF NetsGrow, MoreNodes
  <2> QED BY <2>1, <2>2, <2>3 DEF Named
<1>5. NetAt(q, r) # 0
  BY <1>1, <1>4, NetAtIs
<1> QED BY <1>1, <1>2, <1>3, <1>5, BackfillGrows

BackfillOne(c, a, r) == [plan |-> Backfill(a.plan, r), changed |-> a.changed \/ Backfill(a.plan, r) # a.plan]
HasFilled(c, k, a) == Grown(c, a.plan) /\ \A i \in 1..k : Met(c, a.plan, c.required[i])
Filling == INSTANCE FoldRule WITH Op <- BackfillOne, Keeps <- HasFilled

LEMMA BackfillRequiredIs ==
  ASSUME NEW plan, IsPlan(plan)
  PROVE  LET q == BackfillRequired(plan).plan
         IN Grown(plan, q) /\ \A i \in 1..Len(plan.required) : Met(plan, q, plan.required[i])
<1> DEFINE base == [plan |-> plan, changed |-> FALSE]
           list == plan.required
<1>1. BackfillRequired(plan) = Filling!Folded(plan, base, list)
  BY DEF BackfillRequired, FoldLeft, MapThenFoldSet, Max, BackfillOne,
         Filling!Folded, Filling!FoldLeft, Filling!MapThenFoldSet, Filling!Max
<1>2. Len(list) \in Nat /\ DOMAIN list = 1..Len(list)
  BY Lengths
<1>3. HasFilled(plan, 0, base)
  BY GrownItself DEF HasFilled
<1>4. ASSUME NEW i \in 1..Len(list), NEW a, HasFilled(plan, i - 1, a)
      PROVE  HasFilled(plan, i, BackfillOne(plan, a, list[i]))
  <2> DEFINE z == Backfill(a.plan, list[i])
  <2>1. IsPlan(a.plan) /\ Grown(plan, a.plan)
    BY <1>4 DEF HasFilled, Grown
  <2>2. Grown(a.plan, z) /\ Met(plan, z, list[i])
    BY <2>1, BackfillGrows, BackfillMeets
  <2>3. BackfillOne(plan, a, list[i]).plan = z
    BY DEF BackfillOne
  <2> HIDE DEF z
  <2>4. Grown(plan, z)
    BY <2>1, <2>2, GrownOn
  <2>5. \A j \in 1..(i - 1) : Met(plan, z, plan.required[j])
    BY <1>4, <2>1, <2>2, MetStays DEF HasFilled
  <2>6. 1..i = (1..(i - 1)) \cup {i}
    BY <1>2
  <2> QED BY <2>2, <2>3, <2>4, <2>5, <2>6 DEF HasFilled
<1> HIDE DEF base, list
<1>5. HasFilled(plan, Len(list), Filling!Folded(plan, base, list))
  BY <1>2, <1>3, <1>4, Filling!FoldKeeps
<1> QED BY <1>1, <1>5 DEF HasFilled, list

----------------------------------------------------------------------------
\* Steps that add parts, pins and nets.

LEMMA GrownBy ==
  ASSUME NEW p, NEW q, IsPlan(p), IsRecord(q), DOMAIN q = PlanFields, q.required = p.required,
         IsSeq(q.comps), IsSeq(q.pins), IsSeq(q.nets), \A i \in 1..Len(q.pins) : IsPin(q.pins[i]),
         \A i \in 1..Len(q.nets) : IsNet(q.nets[i]), PartsGrow(p, q), NetsGrow(p, q)
  PROVE  Grown(p, q)
BY DEF Grown, Grows, IsPlan

LEMMA PartsAdded ==
  ASSUME NEW p, NEW q, IsPlan(p),
         \/ q.comps = p.comps
         \/ \E x : q.comps = Append(p.comps, x),
         \/ q.pins = p.pins
         \/ \E x : IsPin(x) /\ q.pins = Append(p.pins, x)
         \/ \E x, y : IsPin(x) /\ IsPin(y) /\ q.pins = p.pins \o <<x, y>>
  PROVE  IsSeq(q.comps) /\ IsSeq(q.pins) /\ (\A i \in 1..Len(q.pins) : IsPin(q.pins[i])) /\ PartsGrow(p, q)
<1>1. IsSeq(p.comps) /\ IsSeq(p.pins) /\ Len(p.comps) \in Nat /\ Len(p.pins) \in Nat /\ \A i \in 1..Len(p.pins) : IsPin(p.pins[i])
  BY Lengths DEF IsPlan
<1>2. IsSeq(q.comps) /\ Len(p.comps) <= Len(q.comps) /\ \A i \in 1..Len(p.comps) : q.comps[i] = p.comps[i]
  <2>1. CASE q.comps = p.comps
    BY <1>1, <2>1
  <2>2. CASE \E x : q.comps = Append(p.comps, x)
    <3>1. PICK x : q.comps = Append(p.comps, x)
      BY <2>2
    <3> QED BY <1>1, <3>1, AppendSeq
  <2> QED BY <2>1, <2>2
<1>3. /\ IsSeq(q.pins) /\ Len(p.pins) <= Len(q.pins) /\ \A i \in 1..Len(p.pins) : q.pins[i] = p.pins[i]
      /\ \A i \in 1..Len(q.pins) : IsPin(q.pins[i])
  <2>1. CASE q.pins = p.pins
    BY <1>1, <2>1
  <2>2. CASE \E x : IsPin(x) /\ q.pins = Append(p.pins, x)
    <3>1. PICK x : IsPin(x) /\ q.pins = Append(p.pins, x)
      BY <2>2
    <3>2. /\ IsSeq(q.pins) /\ Len(q.pins) = Len(p.pins) + 1 /\ (\A i \in 1..Len(p.pins) : q.pins[i] = p.pins[i])
          /\ q.pins[Len(p.pins) + 1] = x
      BY <1>1, <3>1, AppendSeq
    <3>3. 1..Len(q.pins) = (1..Len(p.pins)) \cup {Len(p.pins) + 1}
      BY <1>1, <3>2
    <3> QED BY <1>1, <3>1, <3>2, <3>3
  <2>3. CASE \E x, y : IsPin(x) /\ IsPin(y) /\ q.pins = p.pins \o <<x, y>>
    <3>1. PICK x, y : IsPin(x) /\ IsPin(y) /\ q.pins = p.pins \o <<x, y>>
      BY <2>3
    <3> DEFINE m == <<x, y>>
    <3>2. IsSeq(m) /\ Len(m) = 2 /\ m[1] = x /\ m[2] = y
      BY DEF IsSeq, Elements
    <3> HIDE DEF m
    <3>3. /\ IsSeq(q.pins) /\ Len(q.pins) = Len(p.pins) + 2 /\ (\A i \in 1..Len(p.pins) : q.pins[i] = p.pins[i])
          /\ \A i \in 1..2 : q.pins[Len(p.pins) + i] = m[i]
      BY <1>1, <3>1, <3>2, ConcatSeq DEF m
    <3>4. q.pins[Len(p.pins) + 1] = x /\ q.pins[Len(p.pins) + 2] = y
      BY <3>2, <3>3
    <3>5. 1..Len(q.pins) = (1..Len(p.pins)) \cup {Len(p.pins) + 1, Len(p.pins) + 2}
      BY <1>1, <3>3
    <3> QED BY <1>1, <3>1, <3>3, <3>4, <3>5
  <2> QED BY <2>1, <2>2, <2>3
<1> QED BY <1>2, <1>3 DEF PartsGrow, SamePin, SameName

\* The nets of a plan, each with more pins.
Widened(p, q, more) ==
  /\ q.nets = [i \in DOMAIN p.nets |-> [p.nets[i] EXCEPT !.nodes = more[i]]]
  /\ \A i \in 1..Len(p.nets) :
       IsSeq(more[i]) /\ Len(p.nets[i].nodes) <= Len(more[i]) /\ Elements(p.nets[i].nodes) \subseteq Elements(more[i])
LEMMA NodesAdded ==
  ASSUME NEW p, NEW q, NEW more, IsPlan(p), Widened(p, q, more)
  PROVE  /\ IsSeq(q.nets) /\ (\A i \in 1..Len(q.nets) : IsNet(q.nets[i])) /\ NetsGrow(p, q)
         /\ Len(q.nets) = Len(p.nets) /\ \A i \in 1..Len(p.nets) : q.nets[i].nodes = more[i]
<1>1. /\ Len(p.nets) \in Nat /\ DOMAIN p.nets = 1..Len(p.nets)
      /\ (\A i \in 1..Len(p.nets) : IsNet(p.nets[i]))
      /\ q.nets = [i \in DOMAIN p.nets |-> [p.nets[i] EXCEPT !.nodes = more[i]]]
      /\ \A i \in 1..Len(p.nets) :
           IsSeq(more[i]) /\ Len(p.nets[i].nodes) <= Len(more[i]) /\ Elements(p.nets[i].nodes) \subseteq Elements(more[i])
  BY Lengths DEF IsPlan, Widened
<1>2. IsSeq(q.nets) /\ Len(q.nets) = Len(p.nets)
  <2>1. q.nets = [i \in 1..Len(p.nets) |-> q.nets[i]]
    BY <1>1
  <2> QED BY <1>1, <2>1, SeqMade
<1>3. ASSUME NEW i \in 1..Len(p.nets)
      PROVE  IsNet(q.nets[i]) /\ MoreNodes(p.nets[i], q.nets[i]) /\ q.nets[i].nodes = more[i]
  <2> DEFINE n == p.nets[i]
             m == more[i]
  <2>1. q.nets[i] = [n EXCEPT !.nodes = m]
    BY <1>1
  <2>2. IsNet(n) /\ IsSeq(m) /\ Len(n.nodes) <= Len(m) /\ Elements(n.nodes) \subseteq Elements(m)
    BY <1>1
  <2> HIDE DEF n, m
  <2>3. IsRecord(q.nets[i])
    BY <2>1 DEF IsRecord
  <2>4. DOMAIN q.nets[i] = DOMAIN n /\ q.nets[i].id = n.id /\ q.nets[i].name = n.name /\ q.nets[i].power = n.power
        /\ q.nets[i].nodes = m
    BY <2>1, <2>2 DEF IsNet
  <2>5. IsNet(q.nets[i]) /\ MoreNodes(n, q.nets[i]) /\ q.nets[i].nodes = m
    BY <2>2, <2>3, <2>4 DEF IsNet, MoreNodes
  <2> QED BY <2>5 DEF n, m
<1>4. NetsGrow(p, q)
  <2>1. Len(p.nets) <= Len(q.nets)
    BY <1>1, <1>2
  <2> QED BY <1>3, <2>1 DEF NetsGrow
<1> QED BY <1>2, <1>3, <1>4

\* A header for a power net.
NetById(plan, id) == First(plan.nets, LAMBDA x : x.id = id)
LEMMA AddHeaderGrows ==
  ASSUME NEW plan, NEW net, NEW ground, IsPlan(plan)
  PROVE  LET q == AddHeader(plan, net, ground)
             n == NetById(plan, net.id)
             ref == NextConnector(plan)
             new == {HeaderPin(ref, "1"), HeaderPin(ref, "2")}
         IN /\ Grown(plan, q) /\ Len(q.nets) = Len(plan.nets)
            /\ Len(q.comps) = Len(plan.comps) + 1 /\ q.comps[Len(plan.comps) + 1].id = Header(ref)
            /\ \A i \in 1..Len(plan.nets) : Elements(q.nets[i].nodes) \subseteq Elements(plan.nets[i].nodes) \cup new
            /\ \A i \in 1..Len(plan.pins) : q.pins[i] = plan.pins[i]
            /\ \A i \in 1..Len(q.pins) : i > Len(plan.pins) => q.pins[i].id \in new
            /\ n \in 1..Len(plan.nets) => \E x \in Elements(q.nets[n].nodes) : IsSource(q, x)
<1> DEFINE ref == NextConnector(plan)
           n == NetById(plan, net.id)
           name == RepairName[net.name]
           pin(no, on) == [id |-> HeaderPin(ref, no), comp |-> Header(ref), name |-> on, labels |-> {no, on}, source |-> TRUE, net |-> on]
           part == [NoPart EXCEPT !.id = Header(ref), !.ref = ref, !.by = "repair"]
           expects == {[comp |-> Header(ref), name |-> "1", net |-> name], [comp |-> Header(ref), name |-> "2", net |-> "GND"]}
           feed(i) == IF i = n THEN <<HeaderPin(ref, "1")>> ELSE <<>>
           back(i) == IF i = ground THEN <<HeaderPin(ref, "2")>> ELSE <<>>
           more == [i \in DOMAIN plan.nets |-> plan.nets[i].nodes \o feed(i) \o back(i)]
           one == pin("1", name)
           two == pin("2", "GND")
           wires == [i \in DOMAIN plan.nets |-> [plan.nets[i] EXCEPT !.nodes = @ \o feed(i) \o back(i)]]
           q == AddHeader(plan, net, ground)
<1>1. q = [plan EXCEPT !.comps = Append(@, part), !.expected = @ \cup expects, !.pins = @ \o <<one, two>>, !.nets = wires]
  BY DEF AddHeader, NetById
<1>2. IsPin(one) /\ IsPin(two)
  BY DEF IsPin, IsRecord
<1>3. \A i : IsSeq(feed(i)) /\ IsSeq(back(i))
  <2>1. \A x : IsSeq(<<x>>)
    BY DEF IsSeq, Elements
  <2>2. IsSeq(<<>>)
    BY DEF IsSeq, Elements
  <2> QED BY <2>1, <2>2
<1> HIDE DEF part, expects, one, two, feed, back, q
<1>4. /\ q.comps = Append(plan.comps, part) /\ q.pins = plan.pins \o <<one, two>> /\ q.required = plan.required
      /\ DOMAIN q = PlanFields
  BY <1>1 DEF IsPlan, PlanFields
<1>5. IsRecord(q)
  BY <1>1 DEF IsRecord
<1>6. q.nets = [i \in DOMAIN plan.nets |-> [plan.nets[i] EXCEPT !.nodes = more[i]]]
  <2>1. q.nets = wires
    <3> HIDE DEF wires
    <3> QED BY <1>1 DEF IsPlan, PlanFields
  <2> QED BY <2>1
<1>7. ASSUME NEW i \in 1..Len(plan.nets)
      PROVE  /\ IsSeq(more[i]) /\ Len(plan.nets[i].nodes) <= Len(more[i])
             /\ Elements(more[i]) = Elements(plan.nets[i].nodes) \cup Elements(feed(i)) \cup Elements(back(i))
  <2>1. more[i] = plan.nets[i].nodes \o feed(i) \o back(i) /\ IsSeq(plan.nets[i].nodes)
    BY Lengths DEF IsPlan, IsNet
  <2> DEFINE l == plan.nets[i].nodes
             fed == l \o feed(i)
  <2>2. IsSeq(fed) /\ Elements(fed) = Elements(l) \cup Elements(feed(i)) /\ Len(fed) = Len(l) + Len(feed(i))
    BY <1>3, <2>1, ConcatSeq
  <2>3. more[i] = fed \o back(i) /\ IsSeq(l) /\ Len(l) \in Nat /\ Len(feed(i)) \in Nat /\ Len(back(i)) \in Nat
    BY <1>3, <2>1, SeqIs
  <2> HIDE DEF l, fed, more
  <2>4. IsSeq(more[i]) /\ Elements(more[i]) = Elements(fed) \cup Elements(back(i)) /\ Len(more[i]) = Len(fed) + Len(back(i))
    <3> DEFINE b == back(i)
    <3>1. IsSeq(b) /\ IsSeq(fed) /\ more[i] = fed \o b
      BY <1>3, <2>2, <2>3
    <3> HIDE DEF b
    <3>2. IsSeq(fed \o b) /\ Elements(fed \o b) = Elements(fed) \cup Elements(b) /\ Len(fed \o b) = Len(fed) + Len(b)
      BY <3>1, ConcatSeq
    <3> QED BY <3>1, <3>2 DEF b
  <2>5. /\ IsSeq(more[i]) /\ Len(l) <= Len(more[i])
        /\ Elements(more[i]) = Elements(l) \cup Elements(feed(i)) \cup Elements(back(i))
    BY <2>2, <2>3, <2>4
  <2> QED BY <2>5 DEF l
<1> HIDE DEF more
<1>8. /\ IsSeq(q.nets) /\ (\A i \in 1..Len(q.nets) : IsNet(q.nets[i])) /\ NetsGrow(plan, q)
      /\ Len(q.nets) = Len(plan.nets) /\ \A i \in 1..Len(plan.nets) : q.nets[i].nodes = more[i]
  <2>1. \A i \in 1..Len(plan.nets) :
          IsSeq(more[i]) /\ Len(plan.nets[i].nodes) <= Len(more[i]) /\ Elements(plan.nets[i].nodes) \subseteq Elements(more[i])
    BY <1>7
  <2>2. Widened(plan, q, more)
    BY <1>6, <2>1 DEF Widened
  <2> QED BY <2>2, NodesAdded
<1>9. IsSeq(q.comps) /\ IsSeq(q.pins) /\ (\A i \in 1..Len(q.pins) : IsPin(q.pins[i])) /\ PartsGrow(plan, q)
  BY <1>2, <1>4, PartsAdded
<1>10. Grown(plan, q)
  BY <1>4, <1>5, <1>8, <1>9, GrownBy
<1> DEFINE ids == {HeaderPin(ref, "1"), HeaderPin(ref, "2")}
           last == Len(plan.pins) + 1
           m == <<one, two>>
<1>11. /\ one.id = HeaderPin(ref, "1") /\ two.id = HeaderPin(ref, "2") /\ one.source = TRUE
       /\ part.id = Header(ref)
  BY DEF one, two, part, NoPart
<1>12. /\ Len(q.pins) = Len(plan.pins) + 2 /\ (\A i \in 1..Len(plan.pins) : q.pins[i] = plan.pins[i])
       /\ q.pins[last] = one /\ q.pins[last + 1] = two
       /\ Len(plan.pins) \in Nat /\ DOMAIN q.pins = 1..Len(q.pins)
  <2>1. IsSeq(m) /\ Len(m) = 2 /\ m[1] = one /\ m[2] = two /\ Len(plan.pins) \in Nat /\ IsSeq(plan.pins)
    BY Lengths DEF IsSeq, Elements, IsPlan
  <2> HIDE DEF m
  <2>2. /\ Len(q.pins) = Len(plan.pins) + 2 /\ (\A i \in 1..Len(plan.pins) : q.pins[i] = plan.pins[i])
        /\ \A i \in 1..2 : q.pins[Len(plan.pins) + i] = m[i]
    BY <1>4, <2>1, ConcatSeq DEF m
  <2>3. DOMAIN q.pins = 1..Len(q.pins)
    BY <1>9, SeqIs
  <2>4. q.pins[Len(plan.pins) + 1] = m[1] /\ q.pins[Len(plan.pins) + 2] = m[2] /\ last + 1 = Len(plan.pins) + 2
    BY <2>1, <2>2
  <2> QED BY <2>1, <2>2, <2>3, <2>4
<1>13. \A i \in 1..Len(q.pins) : i > Len(plan.pins) => q.pins[i].id \in ids
  <2>1. \A i \in 1..Len(q.pins) : i > Len(plan.pins) => i = last \/ i = last + 1
    BY <1>12
  <2> QED BY <1>11, <1>12, <2>1
<1>14. ASSUME NEW i \in 1..Len(plan.nets) PROVE Elements(q.nets[i].nodes) \subseteq Elements(plan.nets[i].nodes) \cup ids
  <2>1. \A x : Elements(<<x>>) = {x}
    BY DEF Elements
  <2>2. Elements(<<>>) = {}
    BY DEF Elements
  <2>3. Elements(feed(i)) \subseteq ids /\ Elements(back(i)) \subseteq ids
    BY <2>1, <2>2 DEF feed, back
  <2> HIDE DEF ids
  <2> QED BY <1>7, <1>8, <2>3
<1>15. Len(q.comps) = Len(plan.comps) + 1 /\ q.comps[Len(plan.comps) + 1].id = Header(ref)
  <2>1. IsSeq(plan.comps)
    BY DEF IsPlan
  <2> QED BY <1>4, <1>11, <2>1, AppendSeq
<1>16. ASSUME n \in 1..Len(plan.nets) PROVE \E x \in Elements(q.nets[n].nodes) : IsSource(q, x)
  <2> DEFINE id == HeaderPin(ref, "1")
  <2>1. id \in Elements(feed(n))
    <3>1. feed(n) = <<id>>
      BY DEF feed
    <3>2. \A x : x \in Elements(<<x>>)
      BY DEF Elements
    <3> HIDE DEF id, feed
    <3> QED BY <3>1, <3>2
  <2>2. id \in Elements(q.nets[n].nodes)
    BY <1>7, <1>8, <1>16, <2>1
  <2>3. last \in DOMAIN q.pins
    BY <1>12
  <2> QED BY <1>11, <1>12, <2>2, <2>3 DEF IsSource
<1> HIDE DEF n, ref, ids
<1>17. /\ Grown(plan, q) /\ Len(q.nets) = Len(plan.nets)
       /\ Len(q.comps) = Len(plan.comps) + 1 /\ q.comps[Len(plan.comps) + 1].id = Header(ref)
       /\ \A i \in 1..Len(plan.nets) : Elements(q.nets[i].nodes) \subseteq Elements(plan.nets[i].nodes) \cup ids
       /\ \A i \in 1..Len(plan.pins) : q.pins[i] = plan.pins[i]
       /\ \A i \in 1..Len(q.pins) : i > Len(plan.pins) => q.pins[i].id \in ids
       /\ n \in 1..Len(plan.nets) => \E x \in Elements(q.nets[n].nodes) : IsSource(q, x)
  BY <1>8, <1>10, <1>12, <1>13, <1>14, <1>15, <1>16
<1> QED BY <1>17 DEF n, q, ref, ids

LEMMA ConcatEnd ==
  ASSUME NEW l, IsSeq(l), NEW m, IsSeq(m), NEW a, a = l \o m, NEW i \in 1..Len(a), i > Len(l)
  PROVE  \E k \in 1..Len(m) : a[i] = m[k]
<1>1. Len(l \o m) = Len(l) + Len(m) /\ \A k \in 1..Len(m) : (l \o m)[Len(l) + k] = m[k]
  BY ConcatSeq
<1>2. Len(l) \in Nat /\ Len(m) \in Nat
  BY SeqIs
<1>3. i - Len(l) \in 1..Len(m) /\ Len(l) + (i - Len(l)) = i
  BY <1>1, <1>2
<1> QED BY <1>1, <1>3

\* A header's pins are named after their nets, and expect them under their
\* numbers.
LEMMA AddHeaderNames ==
  ASSUME NEW plan, NEW net, NEW ground, IsPlan(plan)
  PROVE  LET q == AddHeader(plan, net, ground)
             id == Header(NextConnector(plan))
         IN /\ plan.expected \subseteq q.expected
            /\ \A e \in q.expected \ plan.expected : e.comp = id /\ e.name \in {"1", "2"}
            /\ \A i \in 1..Len(q.pins) : i > Len(plan.pins) =>
                 q.pins[i].comp = id /\ "name" \in DOMAIN q.pins[i] /\ q.pins[i].name \in {RepairName[net.name], "GND"}
<1> DEFINE ref == NextConnector(plan)
           id == Header(ref)
           n == NetById(plan, net.id)
           name == RepairName[net.name]
           pin(no, on) == [id |-> HeaderPin(ref, no), comp |-> id, name |-> on, labels |-> {no, on}, source |-> TRUE, net |-> on]
           part == [NoPart EXCEPT !.id = id, !.ref = ref, !.by = "repair"]
           expects == {[comp |-> id, name |-> "1", net |-> name], [comp |-> id, name |-> "2", net |-> "GND"]}
           one == pin("1", name)
           two == pin("2", "GND")
           wires == [i \in DOMAIN plan.nets |-> [plan.nets[i] EXCEPT !.nodes =
                       @ \o (IF i = n THEN <<HeaderPin(ref, "1")>> ELSE <<>>)
                         \o (IF i = ground THEN <<HeaderPin(ref, "2")>> ELSE <<>>)]]
           q == AddHeader(plan, net, ground)
<1>1. q = [plan EXCEPT !.comps = Append(@, part), !.expected = @ \cup expects, !.pins = @ \o <<one, two>>, !.nets = wires]
  BY DEF AddHeader, NetById
<1>2. \A e \in expects : e.comp = id /\ e.name \in {"1", "2"}
  OBVIOUS
<1>3. \A x \in {one, two} : x.comp = id /\ "name" \in DOMAIN x /\ x.name \in {name, "GND"}
  OBVIOUS
<1> DEFINE m == <<one, two>>
<1>4. IsSeq(m) /\ Len(m) = 2 /\ m[1] \in {one, two} /\ m[2] \in {one, two}
  <2> HIDE DEF one, two
  <2> QED BY DEF IsSeq, Elements
<1> HIDE DEF part, expects, one, two, wires, q, id, name
<1>5. q.expected = plan.expected \cup expects /\ q.pins = plan.pins \o m
  BY <1>1 DEF IsPlan, PlanFields
<1> HIDE DEF m
<1>6. ASSUME NEW i \in 1..Len(q.pins), i > Len(plan.pins) PROVE q.pins[i] \in {one, two}
  <2>1. IsSeq(plan.pins) /\ Len(plan.pins) \in Nat
    BY Lengths DEF IsPlan
  <2>2. \E k \in 1..Len(m) : q.pins[i] = m[k]
    <3> DEFINE l == plan.pins
               a == q.pins
    <3>1. IsSeq(l) /\ IsSeq(m) /\ a = l \o m /\ i \in 1..Len(a) /\ i > Len(l)
      BY <1>4, <1>5, <1>6, <2>1
    <3> HIDE DEF l, a
    <3>2. \A k \in 1..Len(a) : k > Len(l) => \E j \in 1..Len(m) : a[k] = m[j]
      BY <3>1, ConcatEnd
    <3>3. \E k \in 1..Len(m) : a[i] = m[k]
      BY <3>1, <3>2
    <3> QED BY <3>3 DEF a
  <2>3. q.pins[i] = m[1] \/ q.pins[i] = m[2]
    BY <1>4, <2>2
  <2> QED BY <1>4, <2>3
<1>7. /\ plan.expected \subseteq q.expected /\ \A e \in q.expected \ plan.expected : e.comp = id /\ e.name \in {"1", "2"}
      /\ \A i \in 1..Len(q.pins) : i > Len(plan.pins) =>
           q.pins[i].comp = id /\ "name" \in DOMAIN q.pins[i] /\ q.pins[i].name \in {name, "GND"}
  BY <1>2, <1>3, <1>5, <1>6
<1> QED BY <1>7 DEF q, id, name

FeedOne(c, p, n) == IF Orphan(c.plan, n) THEN AddHeader(p, n, c.ground) ELSE p
HasGrown(c, k, p) == Grown(c.plan, p)
Feeding == INSTANCE FoldRule WITH Op <- FeedOne, Keeps <- HasGrown

LEMMA RepairIs ==
  ASSUME NEW plan, IsPlan(plan)
  PROVE  LET q == Repair(plan).plan
         IN Grown(plan, q) /\ \A i \in 1..Len(plan.required) : Met(plan, q, plan.required[i])
<1> DEFINE filled == BackfillRequired(plan)
           ground == First(plan.nets, IsGround)
           feed(p, n) == IF Orphan(filled.plan, n) THEN AddHeader(p, n, ground) ELSE p
           c == [plan |-> filled.plan, ground |-> ground]
           fed == FoldLeft(feed, filled.plan, filled.plan.nets)
           q == Repair(plan).plan
<1>1. q = filled.plan \/ q = fed
  BY DEF Repair
<1>2. Grown(plan, filled.plan) /\ \A i \in 1..Len(plan.required) : Met(plan, filled.plan, plan.required[i])
  BY BackfillRequiredIs
<1>3. Grown(filled.plan, fed)
  <2>1. fed = Feeding!Folded(c, filled.plan, filled.plan.nets)
    BY DEF FoldLeft, MapThenFoldSet, Max, FeedOne,
           Feeding!Folded, Feeding!FoldLeft, Feeding!MapThenFoldSet, Feeding!Max
  <2> HIDE DEF fed, filled
  <2>2. IsPlan(filled.plan)
    BY <1>2 DEF Grown
  <2>3. Len(filled.plan.nets) \in Nat /\ DOMAIN filled.plan.nets = 1..Len(filled.plan.nets)
    BY <2>2, Lengths
  <2>4. c.plan = filled.plan
    OBVIOUS
  <2> HIDE DEF c
  <2>5. HasGrown(c, 0, filled.plan)
    BY <2>2, <2>4, GrownItself DEF HasGrown
  <2>6. ASSUME NEW i \in 1..Len(filled.plan.nets), NEW p, HasGrown(c, i - 1, p)
        PROVE  HasGrown(c, i, FeedOne(c, p, filled.plan.nets[i]))
    <3>1. IsPlan(p) /\ Grown(filled.plan, p)
      BY <2>4, <2>6 DEF HasGrown, Grown
    <3>2. Grown(filled.plan, AddHeader(p, filled.plan.nets[i], c.ground))
      BY <2>2, <3>1, AddHeaderGrows, GrownOn
    <3> QED BY <2>4, <3>1, <3>2 DEF HasGrown, FeedOne
  <2>7. HasGrown(c, Len(filled.plan.nets), Feeding!Folded(c, filled.plan, filled.plan.nets))
    BY <2>3, <2>5, <2>6, Feeding!FoldKeeps
  <2> QED BY <2>1, <2>4, <2>7 DEF HasGrown
<1> HIDE DEF filled, fed, q
<1>4. IsPlan(filled.plan)
  BY <1>2 DEF Grown
<1>5. Grown(plan, fed)
  BY <1>2, <1>3, <1>4, GrownOn
<1>6. \A i \in 1..Len(plan.required) : Met(plan, fed, plan.required[i])
  BY <1>2, <1>3, <1>4, MetStays
<1>7. Grown(plan, q) /\ \A i \in 1..Len(plan.required) : Met(plan, q, plan.required[i])
  BY <1>1, <1>2, <1>5, <1>6
<1> QED BY <1>7 DEF q

----------------------------------------------------------------------------
\* Where the pins of a design are: on nets that are asked for, and told them.

Asked(d, x) == Listed(d, x) \cup RequiredOn(d, x)
Placed(d, plan) ==
  /\ \A i \in 1..Len(plan.nets) : \A x \in Elements(plan.nets[i].nodes) \cap PinIds(d) : plan.nets[i].name \in Asked(d, x)
  /\ \A i \in 1..Len(plan.pins) : \A k \in 1..Len(plan.nets) :
       plan.pins[i].id \in Elements(plan.nets[k].nodes) \cap PinIds(d) => plan.pins[i].net = plan.nets[k].name
  /\ \A i \in 1..Len(plan.pins) : i > Len(d.pins) => plan.pins[i].id \notin PinIds(d)

\* A step that leaves them alone.
Aside(d, p, q) ==
  /\ \A i \in 1..Len(q.nets) :
       Elements(q.nets[i].nodes) \cap PinIds(d) \subseteq (IF i <= Len(p.nets) THEN Elements(p.nets[i].nodes) ELSE {})
  /\ \A i \in 1..Len(p.pins) : q.pins[i].net = p.pins[i].net
  /\ \A i \in 1..Len(q.pins) : i > Len(p.pins) => q.pins[i].id \notin PinIds(d)
LEMMA PlacedStays ==
  ASSUME NEW d, NEW p, NEW q, IsPlan(p), Grown(p, q), Placed(d, p), Aside(d, p, q) PROVE Placed(d, q)
<1>1. /\ Len(p.pins) \in Nat /\ Len(q.pins) \in Nat /\ Len(p.nets) \in Nat /\ Len(q.nets) \in Nat
      /\ \A i \in 1..Len(p.pins) : q.pins[i].id = p.pins[i].id /\ q.pins[i].net = p.pins[i].net
      /\ \A i \in 1..Len(p.nets) : q.nets[i].name = p.nets[i].name
  BY Lengths DEF Grown, Grows, PartsGrow, SamePin, NetsGrow, MoreNodes, Aside
<1>2. ASSUME NEW i \in 1..Len(q.nets), NEW x \in Elements(q.nets[i].nodes) \cap PinIds(d)
      PROVE  i \in 1..Len(p.nets) /\ x \in Elements(p.nets[i].nodes)
  <2>1. x \in (IF i <= Len(p.nets) THEN Elements(p.nets[i].nodes) ELSE {})
    BY DEF Aside
  <2> QED BY <1>1, <2>1
<1>3. \A i \in 1..Len(q.nets) : \A x \in Elements(q.nets[i].nodes) \cap PinIds(d) : q.nets[i].name \in Asked(d, x)
  BY <1>1, <1>2 DEF Placed
<1>4. ASSUME NEW i \in 1..Len(q.pins), q.pins[i].id \in PinIds(d) PROVE i \in 1..Len(p.pins)
  BY <1>1, <1>4 DEF Aside
<1>5. ASSUME NEW i \in 1..Len(q.pins), NEW k \in 1..Len(q.nets), q.pins[i].id \in Elements(q.nets[k].nodes) \cap PinIds(d)
      PROVE  q.pins[i].net = q.nets[k].name
  <2>1. i \in 1..Len(p.pins)
    BY <1>4, <1>5
  <2>2. k \in 1..Len(p.nets) /\ q.pins[i].id \in Elements(p.nets[k].nodes)
    BY <1>2, <1>5
  <2>3. p.pins[i].id \in Elements(p.nets[k].nodes) \cap PinIds(d)
    BY <1>1, <1>5, <2>1, <2>2
  <2>4. p.pins[i].net = p.nets[k].name
    BY <2>1, <2>2, <2>3 DEF Placed
  <2> QED BY <1>1, <2>1, <2>2, <2>4
<1>6. ASSUME NEW i \in 1..Len(q.pins), i > Len(d.pins) PROVE q.pins[i].id \notin PinIds(d)
  <2> SUFFICES ASSUME q.pins[i].id \in PinIds(d) PROVE FALSE
    OBVIOUS
  <2>1. i \in 1..Len(p.pins) /\ q.pins[i].id = p.pins[i].id
    BY <1>1, <1>4
  <2> QED BY <1>6, <2>1 DEF Placed
<1> QED BY <1>3, <1>5, <1>6 DEF Placed

\* What the completion does to a plan.
Follows(p, q) == Grown(p, q) /\ \A d \in Designs : Placed(d, p) => Placed(d, q)
LEMMA FollowsOn ==
  ASSUME NEW p, NEW q, NEW r, IsPlan(p), Follows(p, q), Follows(q, r) PROVE Follows(p, r)
BY GrownOn DEF Follows

LEMMA FollowsItself == ASSUME NEW p, IsPlan(p) PROVE Follows(p, p)
BY GrownItself DEF Follows

\* The id of no pin of a design.
Foreign(id) == \A d \in Designs : id \notin PinIds(d)

----------------------------------------------------------------------------
\* The support parts.

LEMMA AppendGrows ==
  ASSUME NEW plan, NEW x, IsPlan(plan), NEW q,
         \/ q = [plan EXCEPT !.comps = Append(@, x)]
         \/ q = [plan EXCEPT !.nets = Append(@, x)] /\ IsNet(x) /\ x.nodes = <<>>
  PROVE  Follows(plan, q)
<1>1. DOMAIN plan = PlanFields /\ IsSeq(plan.comps) /\ IsSeq(plan.pins) /\ IsSeq(plan.nets)
      /\ Len(plan.nets) \in Nat /\ \A i \in 1..Len(plan.nets) : IsNet(plan.nets[i])
  BY Lengths DEF IsPlan
<1>2. IsRecord(q)
  BY DEF IsRecord
<1>3. DOMAIN q = PlanFields /\ q.required = plan.required /\ q.pins = plan.pins
  BY <1>1 DEF PlanFields
<1>4. \/ q.comps = Append(plan.comps, x) /\ q.nets = plan.nets
      \/ q.comps = plan.comps /\ q.nets = Append(plan.nets, x) /\ IsNet(x) /\ x.nodes = <<>>
  BY <1>1 DEF PlanFields
<1>5. IsSeq(q.comps) /\ IsSeq(q.pins) /\ (\A i \in 1..Len(q.pins) : IsPin(q.pins[i])) /\ PartsGrow(plan, q)
  <2>1. q.comps = plan.comps \/ \E y : q.comps = Append(plan.comps, y)
    BY <1>4
  <2> QED BY <1>3, <2>1, PartsAdded
<1>6. /\ IsSeq(q.nets) /\ Len(plan.nets) <= Len(q.nets) /\ \A i \in 1..Len(plan.nets) : q.nets[i] = plan.nets[i]
      /\ \A i \in 1..Len(q.nets) : IsNet(q.nets[i]) /\ (i > Len(plan.nets) => q.nets[i].nodes = <<>>)
  <2>1. CASE q.nets = plan.nets
    BY <1>1, <2>1
  <2>2. CASE q.nets = Append(plan.nets, x) /\ IsNet(x) /\ x.nodes = <<>>
    <3>1. /\ IsSeq(q.nets) /\ Len(q.nets) = Len(plan.nets) + 1 /\ (\A i \in 1..Len(plan.nets) : q.nets[i] = plan.nets[i])
          /\ q.nets[Len(plan.nets) + 1] = x
      BY <1>1, <2>2, AppendSeq
    <3>2. 1..Len(q.nets) = (1..Len(plan.nets)) \cup {Len(plan.nets) + 1}
      BY <1>1, <3>1
    <3> QED BY <1>1, <2>2, <3>1, <3>2
  <2> QED BY <1>4, <2>1, <2>2
<1>7. NetsGrow(plan, q)
  <2>1. \A i \in 1..Len(plan.nets) : Len(plan.nets[i].nodes) \in Nat
    BY <1>1, SeqIs DEF IsNet
  <2> QED BY <1>6, <2>1 DEF NetsGrow, MoreNodes
<1>8. Grown(plan, q)
  BY <1>2, <1>3, <1>5, <1>6, <1>7, GrownBy
<1>9. \A d : Aside(d, plan, q)
  <2>1. Elements(<<>>) = {} /\ Len(plan.pins) \in Nat
    BY Lengths DEF Elements
  <2>2. \A i \in 1..Len(q.nets) : Elements(q.nets[i].nodes) \subseteq (IF i <= Len(plan.nets) THEN Elements(plan.nets[i].nodes) ELSE {})
    <3> TAKE i \in 1..Len(q.nets)
    <3>1. CASE i <= Len(plan.nets)
      <4>1. i \in 1..Len(plan.nets)
        BY <1>1, <3>1
      <4> QED BY <1>6, <3>1, <4>1
    <3>2. CASE ~(i <= Len(plan.nets))
      <4>1. i > Len(plan.nets)
        BY <1>1, <3>2
      <4> QED BY <1>6, <2>1, <3>2, <4>1
    <3> QED BY <3>1, <3>2
  <2> SUFFICES ASSUME NEW d PROVE Aside(d, plan, q)
    OBVIOUS
  <2>3. \A i \in 1..Len(q.pins) : ~(i > Len(plan.pins))
    BY <1>3, <2>1
  <2>4. \A i \in 1..Len(q.nets) :
          Elements(q.nets[i].nodes) \cap PinIds(d) \subseteq (IF i <= Len(plan.nets) THEN Elements(plan.nets[i].nodes) ELSE {})
    BY <2>2
  <2> QED BY <1>3, <2>3, <2>4 DEF Aside
<1> QED BY <1>8, <1>9, PlacedStays DEF Follows

LEMMA EnsureNetGrows ==
  ASSUME NEW plan, NEW name, IsPlan(plan) PROVE Follows(plan, EnsureNet(plan, name))
<1> DEFINE x == [id |-> "added " \o name, name |-> name, words |-> {},
                 power |-> name \in {"GND", "VBUS", "VBAT", "3V3", "5V"}, nodes |-> <<>>]
<1>1. IsNet(x) /\ x.nodes = <<>>
  <2>1. IsSeq(<<>>)
    BY DEF IsSeq, Elements
  <2> QED BY <2>1 DEF IsNet, IsRecord
<1>2. EnsureNet(plan, name) = plan \/ EnsureNet(plan, name) = [plan EXCEPT !.nets = Append(@, x)]
  BY DEF EnsureNet
<1> HIDE DEF x
<1> QED BY <1>1, <1>2, AppendGrows, FollowsItself

LEMMA AddRulePartGrows ==
  ASSUME NEW plan, NEW part, IsPlan(plan) PROVE Follows(plan, AddRulePart(plan, part))
<1> DEFINE x == [NoPart EXCEPT !.id = "rule " \o part.role, !.ref = part.ref, !.words = part.words,
                               !.stands = part.stands, !.role = part.role, !.value = part.value, !.by = "rule"]
<1>1. AddRulePart(plan, part) = plan \/ AddRulePart(plan, part) = [plan EXCEPT !.comps = Append(@, x)]
  BY DEF AddRulePart
<1> HIDE DEF x
<1> QED BY <1>1, AppendGrows, FollowsItself

\* The pin of a board's part joins its net.
LEMMA AttachGrows ==
  ASSUME NEW plan, NEW part, IsPlan(plan), Foreign(part.id \o ".1") PROVE Follows(plan, Attach(plan, part))
<1> DEFINE wide == EnsureNet(plan, part.net)
           n == First(wide.nets, LAMBDA x : x.name = part.net)
           pin == [id |-> part.id \o ".1", comp |-> part.id, labels |-> {"1", part.net}, source |-> FALSE, net |-> part.net]
           id == part.id \o ".1"
           q == [wide EXCEPT !.pins = Append(@, pin), !.nets[n].nodes = Append(@, id)]
           more == [i \in DOMAIN wide.nets |-> IF i = n THEN Append(wide.nets[i].nodes, id) ELSE wide.nets[i].nodes]
<1>1. Attach(plan, part) = plan \/ Attach(plan, part) = q
  BY DEF Attach
<1>2. Follows(plan, wide)
  BY EnsureNetGrows
<1>3. IsPin(pin) /\ pin.id = id /\ Foreign(id)
  BY DEF IsPin, IsRecord
<1> HIDE DEF wide, n, pin, id
<1>4. IsPlan(wide) /\ DOMAIN wide = PlanFields
  BY <1>2 DEF Follows, Grown, IsPlan
<1>5. IsRecord(q)
  BY DEF IsRecord
<1>6. DOMAIN q = PlanFields /\ q.required = wide.required /\ q.comps = wide.comps /\ q.pins = Append(wide.pins, pin)
  BY <1>4 DEF PlanFields
<1>7. q.nets = [wide.nets EXCEPT ![n].nodes = Append(@, id)]
  BY <1>4 DEF PlanFields
<1>8. q.nets = [i \in DOMAIN wide.nets |-> [wide.nets[i] EXCEPT !.nodes = more[i]]]
  <2>1. \A i \in DOMAIN wide.nets : i # n => wide.nets[i] = [wide.nets[i] EXCEPT !.nodes = more[i]]
    <3> TAKE i \in DOMAIN wide.nets
    <3> HAVE i # n
    <3>1. more[i] = wide.nets[i].nodes
      OBVIOUS
    <3>2. IsRecord(wide.nets[i])
      BY <1>4, Lengths DEF IsPlan, IsNet
    <3> QED BY <3>1, <3>2 DEF IsRecord
  <2>2. \A i \in DOMAIN wide.nets : i = n => more[i] = Append(wide.nets[i].nodes, id)
    OBVIOUS
  <2> HIDE DEF more, q
  <2> QED BY <1>7, <2>1, <2>2
<1>9. ASSUME NEW i \in 1..Len(wide.nets)
      PROVE  /\ IsSeq(more[i]) /\ Len(wide.nets[i].nodes) <= Len(more[i]) /\ Elements(wide.nets[i].nodes) \subseteq Elements(more[i])
             /\ Elements(more[i]) \subseteq Elements(wide.nets[i].nodes) \cup {id}
  <2>1. IsSeq(wide.nets[i].nodes) /\ i \in DOMAIN wide.nets /\ Len(wide.nets[i].nodes) \in Nat
    BY <1>4, Lengths, SeqIs DEF IsPlan, IsNet
  <2> QED BY <2>1, AppendSeq
<1> HIDE DEF more, q
<1>10. /\ IsSeq(q.nets) /\ (\A i \in 1..Len(q.nets) : IsNet(q.nets[i])) /\ NetsGrow(wide, q)
       /\ Len(q.nets) = Len(wide.nets) /\ \A i \in 1..Len(wide.nets) : q.nets[i].nodes = more[i]
  <2>1. \A i \in 1..Len(wide.nets) :
          IsSeq(more[i]) /\ Len(wide.nets[i].nodes) <= Len(more[i]) /\ Elements(wide.nets[i].nodes) \subseteq Elements(more[i])
    BY <1>9
  <2>2. Widened(wide, q, more)
    BY <1>8, <2>1 DEF Widened
  <2> QED BY <1>4, <2>2, NodesAdded
<1>11. IsSeq(q.comps) /\ IsSeq(q.pins) /\ (\A i \in 1..Len(q.pins) : IsPin(q.pins[i])) /\ PartsGrow(wide, q)
  BY <1>3, <1>4, <1>6, PartsAdded
<1>12. Grown(wide, q)
  BY <1>4, <1>5, <1>6, <1>10, <1>11, GrownBy
<1>13. ASSUME NEW d \in Designs PROVE Aside(d, wide, q)
  <2>1. id \notin PinIds(d)
    BY <1>3 DEF Foreign
  <2>2. /\ Len(q.pins) = Len(wide.pins) + 1 /\ (\A i \in 1..Len(wide.pins) : q.pins[i] = wide.pins[i])
        /\ q.pins[Len(wide.pins) + 1] = pin /\ Len(wide.pins) \in Nat /\ Len(wide.nets) \in Nat
    <3>1. IsSeq(wide.pins) /\ Len(wide.pins) \in Nat /\ Len(wide.nets) \in Nat
      BY <1>4, Lengths DEF IsPlan
    <3> QED BY <1>6, <3>1, AppendSeq
  <2>3. \A i \in 1..Len(q.pins) : i > Len(wide.pins) => q.pins[i].id = id
    <3>1. \A i \in 1..Len(q.pins) : i > Len(wide.pins) => i = Len(wide.pins) + 1
      BY <2>2
    <3> QED BY <1>3, <2>2, <3>1
  <2>4. \A i \in 1..Len(q.nets) :
          i <= Len(wide.nets) /\ Elements(q.nets[i].nodes) \cap PinIds(d) \subseteq Elements(wide.nets[i].nodes)
    <3> TAKE i \in 1..Len(q.nets)
    <3>1. i \in 1..Len(wide.nets) /\ i <= Len(wide.nets) /\ q.nets[i].nodes = more[i]
      BY <1>10, <2>2
    <3>2. Elements(more[i]) \subseteq Elements(wide.nets[i].nodes) \cup {id}
      BY <1>9, <3>1
    <3> QED BY <2>1, <3>1, <3>2
  <2> QED BY <2>1, <2>2, <2>3, <2>4 DEF Aside
<1>14. Follows(wide, q)
  BY <1>4, <1>12, <1>13, PlacedStays DEF Follows
<1>15. Follows(plan, q)
  BY <1>2, <1>14, FollowsOn
<1> QED BY <1>1, <1>15, FollowsItself

LEMMA AddBoardPartGrows ==
  ASSUME NEW plan, NEW part, IsPlan(plan), Foreign(part.id \o ".1") PROVE Follows(plan, AddBoardPart(plan, part))
<1> DEFINE x == [NoPart EXCEPT !.id = part.id, !.ref = part.ref, !.words = part.words,
                               !.role = part.role, !.value = part.value, !.by = "rag"]
           wide == [plan EXCEPT !.comps = Append(@, x)]
<1>1. AddBoardPart(plan, part) = plan \/ AddBoardPart(plan, part) = Attach(wide, part)
  BY DEF AddBoardPart
<1> HIDE DEF x
<1>2. Follows(plan, wide)
  BY AppendGrows
<1> HIDE DEF wide
<1>3. IsPlan(wide)
  BY <1>2 DEF Follows, Grown
<1> QED BY <1>1, <1>2, <1>3, AttachGrows, FollowsOn, FollowsItself

NetOne(c, p, name) == EnsureNet(p, name)
PartOne(c, p, part) == AddRulePart(p, part)
RuleOne(c, p, r) == IF r.word \in c.words THEN AddRule(p, r) ELSE p
BoardPartOne(c, p, part) == AddBoardPart(p, part)
BoardOne(c, p, b) == IF b.model = Anchor(c.plan) THEN FoldLeft(AddBoardPart, p, b.parts) ELSE p
HasFollowed(c, k, p) == Follows(c.plan, p)
NetAdding == INSTANCE FoldRule WITH Op <- NetOne, Keeps <- HasFollowed
PartAdding == INSTANCE FoldRule WITH Op <- PartOne, Keeps <- HasFollowed
RuleAdding == INSTANCE FoldRule WITH Op <- RuleOne, Keeps <- HasFollowed
BoardPartAdding == INSTANCE FoldRule WITH Op <- BoardPartOne, Keeps <- HasFollowed
BoardAdding == INSTANCE FoldRule WITH Op <- BoardOne, Keeps <- HasFollowed

LEMMA NetsAddedGrow ==
  ASSUME NEW plan, IsPlan(plan), NEW list, IsSeq(list) PROVE Follows(plan, FoldLeft(EnsureNet, plan, list))
<1> DEFINE c == [plan |-> plan]
<1>1. FoldLeft(EnsureNet, plan, list) = NetAdding!Folded(c, plan, list)
  BY DEF FoldLeft, MapThenFoldSet, Max, NetOne,
         NetAdding!Folded, NetAdding!FoldLeft, NetAdding!MapThenFoldSet, NetAdding!Max
<1>2. Len(list) \in Nat /\ DOMAIN list = 1..Len(list) /\ c.plan = plan
  BY SeqIs
<1> HIDE DEF c
<1>3. HasFollowed(c, 0, plan)
  BY <1>2, FollowsItself DEF HasFollowed
<1>4. ASSUME NEW i \in 1..Len(list), NEW p, HasFollowed(c, i - 1, p) PROVE HasFollowed(c, i, NetOne(c, p, list[i]))
  <2>1. Follows(plan, p) /\ IsPlan(p)
    BY <1>2, <1>4 DEF HasFollowed, Follows, Grown
  <2> QED BY <1>2, <2>1, EnsureNetGrows, FollowsOn DEF HasFollowed, NetOne
<1>5. HasFollowed(c, Len(list), NetAdding!Folded(c, plan, list))
  BY <1>2, <1>3, <1>4, NetAdding!FoldKeeps
<1> QED BY <1>1, <1>2, <1>5 DEF HasFollowed

LEMMA RulePartsGrow ==
  ASSUME NEW plan, IsPlan(plan), NEW list, IsSeq(list) PROVE Follows(plan, FoldLeft(AddRulePart, plan, list))
<1> DEFINE c == [plan |-> plan]
<1>1. FoldLeft(AddRulePart, plan, list) = PartAdding!Folded(c, plan, list)
  BY DEF FoldLeft, MapThenFoldSet, Max, PartOne,
         PartAdding!Folded, PartAdding!FoldLeft, PartAdding!MapThenFoldSet, PartAdding!Max
<1>2. Len(list) \in Nat /\ DOMAIN list = 1..Len(list) /\ c.plan = plan
  BY SeqIs
<1> HIDE DEF c
<1>3. HasFollowed(c, 0, plan)
  BY <1>2, FollowsItself DEF HasFollowed
<1>4. ASSUME NEW i \in 1..Len(list), NEW p, HasFollowed(c, i - 1, p) PROVE HasFollowed(c, i, PartOne(c, p, list[i]))
  <2>1. Follows(plan, p) /\ IsPlan(p)
    BY <1>2, <1>4 DEF HasFollowed, Follows, Grown
  <2> QED BY <1>2, <2>1, AddRulePartGrows, FollowsOn DEF HasFollowed, PartOne
<1>5. HasFollowed(c, Len(list), PartAdding!Folded(c, plan, list))
  BY <1>2, <1>3, <1>4, PartAdding!FoldKeeps
<1> QED BY <1>1, <1>2, <1>5 DEF HasFollowed

LEMMA BoardPartsGrow ==
  ASSUME NEW plan, IsPlan(plan), NEW list, IsSeq(list), \A i \in 1..Len(list) : Foreign(list[i].id \o ".1")
  PROVE  Follows(plan, FoldLeft(AddBoardPart, plan, list))
<1> DEFINE c == [plan |-> plan]
<1>1. FoldLeft(AddBoardPart, plan, list) = BoardPartAdding!Folded(c, plan, list)
  BY DEF FoldLeft, MapThenFoldSet, Max, BoardPartOne,
         BoardPartAdding!Folded, BoardPartAdding!FoldLeft, BoardPartAdding!MapThenFoldSet, BoardPartAdding!Max
<1>2. Len(list) \in Nat /\ DOMAIN list = 1..Len(list) /\ c.plan = plan
  BY SeqIs
<1> HIDE DEF c
<1>3. HasFollowed(c, 0, plan)
  BY <1>2, FollowsItself DEF HasFollowed
<1>4. ASSUME NEW i \in 1..Len(list), NEW p, HasFollowed(c, i - 1, p) PROVE HasFollowed(c, i, BoardPartOne(c, p, list[i]))
  <2>1. Follows(plan, p) /\ IsPlan(p)
    BY <1>2, <1>4 DEF HasFollowed, Follows, Grown
  <2> QED BY <1>2, <2>1, AddBoardPartGrows, FollowsOn DEF HasFollowed, BoardPartOne
<1>5. HasFollowed(c, Len(list), BoardPartAdding!Folded(c, plan, list))
  BY <1>2, <1>3, <1>4, BoardPartAdding!FoldKeeps
<1> QED BY <1>1, <1>2, <1>5 DEF HasFollowed

LEMMA RulesGrow == ASSUME NEW plan, IsPlan(plan) PROVE Follows(plan, CompletedByRules(plan))
<1> DEFINE c == [plan |-> plan, words |-> WordsOf(plan.comps) \cup WordsOf(plan.nets)]
<1>1. CompletedByRules(plan) = RuleAdding!Folded(c, plan, Rules)
  BY DEF CompletedByRules, FoldLeft, MapThenFoldSet, Max, RuleOne,
         RuleAdding!Folded, RuleAdding!FoldLeft, RuleAdding!MapThenFoldSet, RuleAdding!Max
<1>2. Len(Rules) \in Nat /\ DOMAIN Rules = 1..Len(Rules) /\ c.plan = plan
  BY TablesAssumption
<1> HIDE DEF c
<1>3. HasFollowed(c, 0, plan)
  BY <1>2, FollowsItself DEF HasFollowed
<1>4. ASSUME NEW i \in 1..Len(Rules), NEW p, HasFollowed(c, i - 1, p) PROVE HasFollowed(c, i, RuleOne(c, p, Rules[i]))
  <2> DEFINE mid == FoldLeft(AddRulePart, p, Rules[i].parts)
  <2>1. Follows(plan, p) /\ IsPlan(p)
    BY <1>2, <1>4 DEF HasFollowed, Follows, Grown
  <2>2. IsSeq(Rules[i].parts) /\ IsSeq(Rules[i].nets)
    BY <1>2, TablesAssumption, SeqIn DEF IsSeq
  <2>3. Follows(p, mid) /\ IsPlan(mid)
    BY <2>1, <2>2, RulePartsGrow DEF Follows, Grown
  <2>4. AddRule(p, Rules[i]) = FoldLeft(EnsureNet, mid, Rules[i].nets)
    BY DEF AddRule
  <2> HIDE DEF mid
  <2>5. Follows(mid, AddRule(p, Rules[i]))
    BY <2>2, <2>3, <2>4, NetsAddedGrow
  <2>6. Follows(plan, mid)
    BY <2>1, <2>3, FollowsOn
  <2>7. Follows(plan, AddRule(p, Rules[i]))
    BY <2>3, <2>5, <2>6, FollowsOn
  <2> QED BY <1>2, <2>1, <2>7 DEF HasFollowed, RuleOne
<1>5. HasFollowed(c, Len(Rules), RuleAdding!Folded(c, plan, Rules))
  BY <1>2, <1>3, <1>4, RuleAdding!FoldKeeps
<1> QED BY <1>1, <1>2, <1>5 DEF HasFollowed

LEMMA BoardsGrow == ASSUME NEW plan, IsPlan(plan) PROVE Follows(plan, CompletedByBoards(plan))
<1> DEFINE c == [plan |-> plan]
<1>1. CompletedByBoards(plan) = BoardAdding!Folded(c, plan, Boards)
  BY DEF CompletedByBoards, FoldLeft, MapThenFoldSet, Max, BoardOne,
         BoardAdding!Folded, BoardAdding!FoldLeft, BoardAdding!MapThenFoldSet, BoardAdding!Max
<1>2. Len(Boards) \in Nat /\ DOMAIN Boards = 1..Len(Boards) /\ c.plan = plan
  BY TablesAssumption
<1> HIDE DEF c
<1>3. HasFollowed(c, 0, plan)
  BY <1>2, FollowsItself DEF HasFollowed
<1>4. ASSUME NEW i \in 1..Len(Boards), NEW p, HasFollowed(c, i - 1, p) PROVE HasFollowed(c, i, BoardOne(c, p, Boards[i]))
  <2>1. Follows(plan, p) /\ IsPlan(p)
    BY <1>2, <1>4 DEF HasFollowed, Follows, Grown
  <2>2. IsSeq(Boards[i].parts)
    BY <1>2, TablesAssumption DEF IsSeq
  <2>3. \A k \in 1..Len(Boards[i].parts) : Foreign(Boards[i].parts[k].id \o ".1")
    <3> TAKE k \in 1..Len(Boards[i].parts)
    <3>1. Boards[i].parts[k] \in Elements(Boards[i].parts)
      BY <2>2, SeqIs
    <3> QED BY <1>2, <3>1, NewIdsAssumption DEF Foreign, PinIds
  <2>4. Follows(plan, FoldLeft(AddBoardPart, p, Boards[i].parts))
    BY <1>2, <2>1, <2>2, <2>3, BoardPartsGrow, FollowsOn
  <2> QED BY <1>2, <2>1, <2>4 DEF HasFollowed, BoardOne
<1>5. HasFollowed(c, Len(Boards), BoardAdding!Folded(c, plan, Boards))
  BY <1>2, <1>3, <1>4, BoardAdding!FoldKeeps
<1> QED BY <1>1, <1>2, <1>5 DEF HasFollowed

\* A completed plan has grown from what was completed.
LEMMA CompletedGrows == ASSUME NEW plan, IsPlan(plan) PROVE Follows(plan, Completed(plan))
<1>1. Follows(plan, CompletedByRules(plan)) /\ IsPlan(CompletedByRules(plan))
  BY RulesGrow DEF Follows, Grown
<1>2. Follows(CompletedByRules(plan), Completed(plan))
  BY <1>1, BoardsGrow DEF Completed
<1> QED BY <1>1, <1>2, FollowsOn

----------------------------------------------------------------------------
\* A draft's plan has grown from its design's, and has what was required of it;
\* and the sheet was drawn from such a plan.
Sound(d, plan) == Grown(PlanOf(d), plan) /\ \A i \in 1..Len(d.required) : Met(PlanOf(d), plan, d.required[i])
Laid(s) == s = Sheet(s.plan, s.placed, s.refused)
WiringInv ==
  /\ design \in Designs
  /\ draftPlan # <<>> => Sound(design, draftPlan)
  /\ sheet # <<>> => Laid(sheet) /\ Sound(design, sheet.plan)

\* A plan that has grown from a sound one is sound.
LEMMA SoundOn ==
  ASSUME NEW d \in Designs, NEW p, NEW q, Sound(d, p), Grown(p, q) PROVE Sound(d, q)
<1>1. IsPlan(PlanOf(d)) /\ IsPlan(p)
  BY PlanOfIs DEF Sound, Grown
<1> QED BY <1>1, GrownOn, MetStays DEF Sound

\* Generating, repairing and applying a draft keep the invariant.
LEMMA WiringStep == WiringInv /\ [WiringNext]_wiringVars => WiringInv'
<1> SUFFICES ASSUME WiringInv, [WiringNext]_wiringVars PROVE WiringInv'
  OBVIOUS
<1> USE DEF WiringInv
<1>1. CASE GeneratePlan
  <2>1. Sound(design, Repair(PlanOf(design)).plan)
    BY PlanOfIs, RepairIs DEF Sound
  <2> QED BY <1>1, <2>1 DEF GeneratePlan
<1>2. CASE RepairPlan
  <2>1. Grown(draftPlan, Repair(draftPlan).plan) /\ Sound(design, draftPlan)
    BY <1>2, RepairIs DEF RepairPlan, Sound, Grown
  <2>2. Sound(design, Repair(draftPlan).plan)
    BY <2>1, SoundOn
  <2> QED BY <1>2, <2>2 DEF RepairPlan
<1>3. CASE ApplyPlan
  <2> DEFINE plan == Completed(draftPlan)
  <2>1. Sound(design, draftPlan) /\ IsPlan(draftPlan)
    BY <1>3 DEF ApplyPlan, Sound, Grown
  <2>2. Sound(design, plan)
    BY <2>1, CompletedGrows, SoundOn DEF Follows
  <2> HIDE DEF plan
  <2>3. PICK placed, refused : sheet' = Sheet(plan, placed, refused)
    BY <1>3 DEF ApplyPlan, plan
  <2>4. sheet'.plan = plan /\ sheet'.placed = placed /\ sheet'.refused = refused
    BY <2>3 DEF Sheet
  <2>5. Laid(sheet')
    BY <2>3, <2>4 DEF Laid
  <2> QED BY <1>3, <2>2, <2>4, <2>5 DEF ApplyPlan
<1>4. CASE UNCHANGED wiringVars
  BY <1>4 DEF wiringVars
<1> QED BY <1>1, <1>2, <1>3, <1>4 DEF WiringNext

\* Two pins of one net are drawn together, or their net is told.
LEMMA JoinedIs ==
  ASSUME Laid(sheet), IsPlan(sheet.plan), NEW i \in 1..Len(sheet.plan.nets), NEW p, NEW q,
         p \in Elements(sheet.plan.nets[i].nodes), q \in Elements(sheet.plan.nets[i].nodes), p # q
  PROVE  \E j \in sheet.drawn \cup sheet.skipped \cup sheet.refused : {p, q} \subseteq Elements(sheet.plan.nets[j].nodes)
<1> DEFINE net == sheet.plan.nets[i]
<1>1. IsSeq(net.nodes) /\ i \in DOMAIN sheet.plan.nets
  BY Lengths DEF IsPlan, IsNet
<1>2. sheet.drawn = {k \in DOMAIN sheet.plan.nets \ sheet.refused : Drawable(sheet.plan.nets[k], sheet.placed)}
      /\ sheet.skipped = {k \in DOMAIN sheet.plan.nets : NotFound(sheet.plan.nets[k], sheet.placed) # {}}
  <2> DEFINE made == sheet.plan
             found == sheet.placed
             no == sheet.refused
  <2>1. sheet = Sheet(made, found, no)
    BY DEF Laid
  <2> HIDE DEF made, found, no
  <2>2. sheet.drawn = {k \in DOMAIN made.nets \ no : Drawable(made.nets[k], found)}
        /\ sheet.skipped = {k \in DOMAIN made.nets : NotFound(made.nets[k], found) # {}}
    BY <2>1 DEF Sheet
  <2> QED BY <2>2 DEF made, found, no
<1>3. Len(net.nodes) >= 2
  <2>1. Len(net.nodes) \in Nat /\ Elements(net.nodes) = {net.nodes[k] : k \in 1..Len(net.nodes)}
    BY <1>1, SeqIs
  <2>2. PICK a \in 1..Len(net.nodes), b \in 1..Len(net.nodes) : net.nodes[a] = p /\ net.nodes[b] = q
    BY <2>1
  <2>3. a # b
    BY <2>2
  <2> QED BY <2>1, <2>3
<1>4. i \in sheet.drawn \cup sheet.skipped \cup sheet.refused
  BY <1>1, <1>2, <1>3 DEF Drawable
<1> QED BY <1>4

\* Each wire of the design is on a net of its plan, hence on one of the sheet's.
LEMMA WiringInvSuffices == WiringInv => LostNothing
<1> SUFFICES ASSUME WiringInv, sheet # <<>> PROVE LostNothing
  BY DEF LostNothing
<1> DEFINE d == design
           plan == sheet.plan
           made == PlanOf(d)
           joined(p, q) == \E j \in sheet.drawn \cup sheet.skipped \cup sheet.refused : {p, q} \subseteq Elements(plan.nets[j].nodes)
<1>1. d \in Designs /\ Laid(sheet) /\ Sound(d, plan)
  BY DEF WiringInv
<1>2. /\ IsPlan(made) /\ IsPlan(plan) /\ NetsGrow(made, plan) /\ PartsGrow(d, made)
      /\ IsSeq(d.comps) /\ IsSeq(d.pins) /\ IsSeq(made.comps) /\ IsSeq(made.pins)
      /\ Len(made.nets) = Len(d.nets) /\ Len(d.nets) \in Nat /\ DOMAIN d.nets = 1..Len(d.nets)
      /\ \A i \in 1..Len(d.nets) : made.nets[i].name = SpecName[d.nets[i].name]
                                   /\ made.nets[i].nodes = NodesOf(d, SpecName[d.nets[i].name])
      /\ DOMAIN made.nets = 1..Len(made.nets) /\ Len(plan.nets) \in Nat
  BY <1>1, PlanOfIs, SeqIs, Lengths DEF Sound, Grown, Grows, IsPlan
<1>3. ASSUME NEW i \in 1..Len(made.nets) PROVE i \in 1..Len(plan.nets) /\ Elements(made.nets[i].nodes) \subseteq Elements(plan.nets[i].nodes)
  <2>1. i \in 1..Len(plan.nets)
    BY <1>2 DEF NetsGrow
  <2>2. Elements(made.nets[i].nodes) \subseteq Elements(plan.nets[i].nodes)
    BY <1>2 DEF NetsGrow, MoreNodes
  <2> QED BY <2>1, <2>2
<1>4. ASSUME NEW k \in 1..Len(plan.nets), NEW p \in Elements(plan.nets[k].nodes), NEW q \in Elements(plan.nets[k].nodes), p # q
      PROVE  joined(p, q)
  <2>1. Laid(sheet) /\ IsPlan(sheet.plan) /\ k \in 1..Len(sheet.plan.nets)
    BY <1>1, <1>2
  <2>2. p \in Elements(sheet.plan.nets[k].nodes) /\ q \in Elements(sheet.plan.nets[k].nodes)
    OBVIOUS
  <2>3. \E j \in sheet.drawn \cup sheet.skipped \cup sheet.refused : {p, q} \subseteq Elements(sheet.plan.nets[j].nodes)
    <3> HIDE DEF made, plan
    <3> QED BY <1>4, <2>1, <2>2, JoinedIs
  <2> QED BY <2>3
<1>5. ASSUME NEW i \in DOMAIN d.conns, SpecName[d.conns[i].net] \in NetNames(d),
             NEW p \in Elements(d.conns[i].pins), NEW q \in Elements(d.conns[i].pins), p # q
      PROVE  joined(p, q)
  <2>1. PICK j \in 1..Len(d.nets) : SpecName[d.nets[j].name] = SpecName[d.conns[i].net]
    BY <1>2, <1>5 DEF NetNames
  <2>2. i \in 1..Len(d.conns)
    BY <1>1, DesignsAssumption
  <2>3. Elements(d.conns[i].pins) \subseteq Elements(made.nets[j].nodes)
    <3>1. made.nets[j].nodes = NodesOf(d, SpecName[d.conns[i].net])
      BY <1>2, <2>1
    <3> HIDE DEF made
    <3> QED BY <1>1, <2>2, <3>1, NodesOfIs
  <2>4. j \in 1..Len(plan.nets) /\ Elements(made.nets[j].nodes) \subseteq Elements(plan.nets[j].nodes)
    BY <1>2, <1>3
  <2>5. p \in Elements(plan.nets[j].nodes) /\ q \in Elements(plan.nets[j].nodes)
    BY <1>5, <2>3, <2>4
  <2> HIDE DEF joined, plan, made
  <2> QED BY <1>5, <1>4, <2>4, <2>5
<1>6. ASSUME NEW i \in DOMAIN d.required
      PROVE  LET p == EndPin(d, d.required[i].from)
                 q == EndPin(d, d.required[i].to)
             IN NoNet \notin {p, q} /\ p # q /\ (\E n \in NetNames(d) : RepairName[n] = RepairName[d.required[i].net])
                  => joined(p, q)
  <2> DEFINE r == d.required[i]
             p == EndPin(d, r.from)
             q == EndPin(d, r.to)
             f == PinOf(d, r.from)
             t == PinOf(d, r.to)
  <2> SUFFICES ASSUME p # NoNet, q # NoNet, p # q, NEW n \in NetNames(d), RepairName[n] = RepairName[r.net] PROVE joined(p, q)
    BY Zenon
  <2>1. f # 0 /\ t # 0 /\ p = d.pins[f].id /\ q = d.pins[t].id
    BY DEF EndPin
  <2>2. PinOf(made, r.from) = f /\ PinOf(made, r.to) = t /\ f \in 1..Len(d.pins) /\ t \in 1..Len(d.pins)
    <3> HIDE DEF made, r
    <3> QED BY <1>2, <2>1, PinOfStays
  <2>3. made.pins[f].id = p /\ made.pins[t].id = q
    BY <1>2, <2>1, <2>2 DEF PartsGrow, SamePin
  <2>4. Named(made, r) # {}
    <3>1. PICK j \in 1..Len(d.nets) : SpecName[d.nets[j].name] = n
      BY <1>2 DEF NetNames
    <3>2. j \in DOMAIN made.nets /\ made.nets[j].name = n
      BY <1>2, <3>1
    <3> HIDE DEF made, r
    <3> QED BY <3>2 DEF Named
  <2>5. Met(made, plan, r)
    <3>1. i \in 1..Len(d.required)
      BY <1>1, DesignsAssumption
    <3> QED BY <1>1, <3>1 DEF Sound
  <2> HIDE DEF made, r, f, t, p, q
  <2>6. PICK j \in 1..Len(plan.nets) : {p, q} \subseteq Elements(plan.nets[j].nodes)
    BY <2>1, <2>2, <2>3, <2>4, <2>5 DEF Met
  <2>7. p \in Elements(plan.nets[j].nodes) /\ q \in Elements(plan.nets[j].nodes)
    BY <2>6
  <2> HIDE DEF joined, plan, d
  <2> QED BY <1>4, <2>7
<1> HIDE DEF made
<1> QED BY <1>5, <1>6 DEF LostNothing

\* Two pins that a connection or the guidance puts on a net of the design are
\* drawn together, or their net is told as left out or refused: no wire of the
\* model's design gets lost on the way from draft_generate_plan to the sheet.
THEOREM LostNothingHolds == WiringSpec => []LostNothing
<1>1. WiringInit => WiringInv
  BY DEF WiringInit, WiringInv
<1> QED BY <1>1, WiringStep, WiringInvSuffices, PTL DEF WiringSpec

----------------------------------------------------------------------------
\* Power: no net of a repaired plan is left without a source, if there is a
\* ground.

HasGround(plan) == \E i \in DOMAIN plan.nets : IsGround(plan.nets[i])
Fed(plan) == HasGround(plan) => \A i \in DOMAIN plan.nets : ~Orphan(plan, plan.nets[i])
DistinctIds(plan) == \A i, j \in 1..Len(plan.nets) : plan.nets[i].id = plan.nets[j].id => i = j

\* What a list's first hit is, for the tests that are used here.
GroundsOf(plan) == {i \in DOMAIN plan.nets : IsGround(plan.nets[i])}
OrphansOf(plan) == {i \in DOMAIN plan.nets : Orphan(plan, plan.nets[i])}
NetsWithId(plan, id) == {i \in DOMAIN plan.nets : plan.nets[i].id = id}
LEMMA GroundIs ==
  ASSUME NEW plan, IsPlan(plan) PROVE First(plan.nets, IsGround) = 0 <=> ~HasGround(plan)
<1>1. First(plan.nets, IsGround) = IF GroundsOf(plan) = {} THEN 0 ELSE Least(GroundsOf(plan))
  BY DEF First, Least, GroundsOf
<1>2. GroundsOf(plan) \in SUBSET Nat /\ 0 \notin GroundsOf(plan)
  BY Lengths DEF GroundsOf
<1>3. GroundsOf(plan) # {} => Least(GroundsOf(plan)) \in GroundsOf(plan)
  BY <1>2, LeastIs
<1> QED BY <1>1, <1>2, <1>3 DEF GroundsOf, HasGround

LEMMA OrphanIs ==
  ASSUME NEW plan, IsPlan(plan)
  PROVE  First(plan.nets, LAMBDA n : Orphan(plan, n)) = 0 <=> \A i \in DOMAIN plan.nets : ~Orphan(plan, plan.nets[i])
<1>1. First(plan.nets, LAMBDA n : Orphan(plan, n)) = IF OrphansOf(plan) = {} THEN 0 ELSE Least(OrphansOf(plan))
  BY DEF First, Least, OrphansOf
<1>2. OrphansOf(plan) \in SUBSET Nat /\ 0 \notin OrphansOf(plan)
  BY Lengths DEF OrphansOf
<1>3. OrphansOf(plan) # {} => Least(OrphansOf(plan)) \in OrphansOf(plan)
  BY <1>2, LeastIs
<1> QED BY <1>1, <1>2, <1>3 DEF OrphansOf

LEMMA NetWithId ==
  ASSUME NEW plan, IsPlan(plan), DistinctIds(plan), NEW k \in 1..Len(plan.nets)
  PROVE  NetById(plan, plan.nets[k].id) = k
<1> DEFINE id == plan.nets[k].id
           hits == NetsWithId(plan, id)
<1>1. NetById(plan, id) = IF hits = {} THEN 0 ELSE Least(hits)
  <2> HIDE DEF id
  <2> QED BY DEF First, Least, NetsWithId, NetById
<1>2. hits = {k}
  BY Lengths DEF NetsWithId, DistinctIds
<1>3. k \in Nat
  BY Lengths
<1> HIDE DEF hits
<1>4. Least(hits) \in hits
  BY <1>2, <1>3, LeastIs
<1>5. NetById(plan, id) = k
  BY <1>1, <1>2, <1>4
<1> QED BY <1>5

\* A source of a plan stays one, and a net that is fed stays fed.
LEMMA FedStays ==
  ASSUME NEW p, NEW q, IsPlan(p), Grown(p, q), NEW i \in 1..Len(p.nets), ~Orphan(p, p.nets[i])
  PROVE  ~Orphan(q, q.nets[i])
<1>1. MoreNodes(p.nets[i], q.nets[i]) /\ i \in 1..Len(q.nets)
  BY Lengths DEF Grown, Grows, NetsGrow
<1>2. Len(p.nets[i].nodes) \in Nat /\ Len(q.nets[i].nodes) \in Nat
  BY <1>1, SeqIs DEF IsPlan, IsNet, Grown
<1>3. ASSUME NEW x, IsSource(p, x) PROVE IsSource(q, x)
  <2>1. PICK k \in 1..Len(p.pins) : p.pins[k].id = x /\ p.pins[k].source
    BY <1>3, Lengths DEF IsSource
  <2>2. PartsGrow(p, q) /\ Len(p.pins) \in Nat /\ Len(q.pins) \in Nat /\ DOMAIN q.pins = 1..Len(q.pins)
    BY Lengths DEF Grown, Grows
  <2>3. k \in DOMAIN q.pins /\ SamePin(p.pins[k], q.pins[k])
    BY <2>2 DEF PartsGrow
  <2> QED BY <2>1, <2>3 DEF SamePin, IsSource
<1>4. q.nets[i].power = p.nets[i].power /\ (IsGround(q.nets[i]) <=> IsGround(p.nets[i]))
  BY <1>1 DEF MoreNodes, IsGround
<1>5. Elements(p.nets[i].nodes) \subseteq Elements(q.nets[i].nodes) /\ Len(p.nets[i].nodes) <= Len(q.nets[i].nodes)
  BY <1>1 DEF MoreNodes
<1> QED BY <1>2, <1>3, <1>4, <1>5 DEF Orphan

\* A plan that has grown without another net has its names and ids.
LEMMA SameNets ==
  ASSUME NEW p, NEW q, IsPlan(p), Grown(p, q), Len(q.nets) = Len(p.nets)
  PROVE  /\ HasGround(q) <=> HasGround(p)
         /\ DistinctIds(p) => DistinctIds(q)
         /\ \A i \in 1..Len(p.nets) : q.nets[i].id = p.nets[i].id /\ q.nets[i].name = p.nets[i].name
<1>1. \A i \in 1..Len(p.nets) : q.nets[i].id = p.nets[i].id /\ q.nets[i].name = p.nets[i].name
  BY DEF Grown, Grows, NetsGrow, MoreNodes
<1>2. DOMAIN p.nets = 1..Len(p.nets) /\ DOMAIN q.nets = 1..Len(p.nets)
  BY Lengths DEF Grown
<1> QED BY <1>1, <1>2 DEF HasGround, IsGround, DistinctIds

\* A header feeds the net that it is for, and the fold all that are orphans.
HasFed(c, k, p) == Grown(c.plan, p) /\ Len(p.nets) = Len(c.plan.nets) /\ \A i \in 1..k : ~Orphan(p, p.nets[i])
Supplying == INSTANCE FoldRule WITH Op <- FeedOne, Keeps <- HasFed

LEMMA FeedOneFeeds ==
  ASSUME NEW c, IsPlan(c.plan), DistinctIds(c.plan), NEW i \in 1..Len(c.plan.nets), NEW p, HasFed(c, i - 1, p)
  PROVE  HasFed(c, i, FeedOne(c, p, c.plan.nets[i]))
<1> DEFINE net == c.plan.nets[i]
           q == FeedOne(c, p, net)
<1>1. /\ Grown(c.plan, p) /\ IsPlan(p) /\ Len(p.nets) = Len(c.plan.nets) /\ DistinctIds(p)
      /\ p.nets[i].id = net.id /\ Len(c.plan.nets) \in Nat /\ 1..i = (1..(i - 1)) \cup {i}
  BY SameNets, Lengths DEF HasFed, Grown
<1>2. CASE ~Orphan(c.plan, net)
  <2>1. q = p
    BY <1>2 DEF FeedOne
  <2>2. ~Orphan(p, p.nets[i])
    BY <1>1, <1>2, FedStays
  <2> QED BY <1>1, <2>1, <2>2 DEF HasFed
<1>3. CASE Orphan(c.plan, net)
  <2> DEFINE n == NetById(p, net.id)
  <2>1. q = AddHeader(p, net, c.ground)
    BY <1>3 DEF FeedOne
  <2>2. n = i
    BY <1>1, NetWithId
  <2>3. Grown(p, q) /\ Len(q.nets) = Len(p.nets) /\ (n \in 1..Len(p.nets) => \E x \in Elements(q.nets[n].nodes) : IsSource(q, x))
    BY <1>1, <2>1, AddHeaderGrows
  <2> HIDE DEF n, q
  <2>4. ~Orphan(q, q.nets[i])
    BY <1>1, <2>2, <2>3 DEF Orphan
  <2>5. \A k \in 1..(i - 1) : ~Orphan(q, q.nets[k])
    <3>1. \A k \in 1..(i - 1) : k \in 1..Len(p.nets) /\ ~Orphan(p, p.nets[k])
      BY <1>1 DEF HasFed
    <3> QED BY <1>1, <2>3, <3>1, FedStays
  <2>6. Grown(c.plan, q)
    BY <1>1, <2>3, GrownOn
  <2>7. HasFed(c, i, q)
    BY <1>1, <2>3, <2>4, <2>5, <2>6 DEF HasFed
  <2> QED BY <2>7 DEF q
<1> QED BY <1>2, <1>3

----------------------------------------------------------------------------
\* What the guidance requires settles: once it is done, doing it again changes
\* nothing.

\* Parts, pins and nets keep their number.
Kin(p, q) == Grown(p, q) /\ Len(q.comps) = Len(p.comps) /\ Len(q.pins) = Len(p.pins) /\ Len(q.nets) = Len(p.nets)
Settles(plan, r) ==
  LET f == PinOf(plan, r.from)
      t == PinOf(plan, r.to)
      n == NetAt(plan, r)
  IN 0 \notin {f, t, n} =>
       /\ {plan.pins[f].id, plan.pins[t].id} \subseteq Elements(plan.nets[n].nodes)
       /\ plan.pins[f].net = plan.nets[n].name /\ plan.pins[t].net = plan.nets[n].name
NoTwo(plan) == \A x \in PinIds(plan) : AtMostOne(RequiredOn(plan, x))

LEMMA PinOfIn ==
  ASSUME NEW plan, IsPlan(plan), NEW end, PinOf(plan, end) # 0 PROVE PinOf(plan, end) \in 1..Len(plan.pins)
<1>1. PartsGrow(plan, plan) /\ IsSeq(plan.comps) /\ IsSeq(plan.pins)
  BY GrowsItself DEF Grows, IsPlan
<1> QED BY <1>1, PinOfStays

\* Such a plan finds the same pins and nets.
LEMMA KinIs ==
  ASSUME NEW p, NEW q, IsPlan(p), Kin(p, q)
  PROVE  /\ \A end : PinOf(q, end) = PinOf(p, end) /\ EndPin(q, end) = EndPin(p, end)
         /\ \A r : NetAt(q, r) = NetAt(p, r)
         /\ \A i \in 1..Len(p.pins) : q.pins[i].id = p.pins[i].id
         /\ \A i \in 1..Len(p.nets) : q.nets[i].name = p.nets[i].name
         /\ PinIds(q) = PinIds(p) /\ \A x : RequiredOn(q, x) = RequiredOn(p, x)
<1>1. /\ Grown(p, q) /\ IsPlan(q) /\ PartsGrow(p, q) /\ q.required = p.required
      /\ Len(q.comps) = Len(p.comps) /\ Len(q.pins) = Len(p.pins) /\ Len(q.nets) = Len(p.nets)
      /\ IsSeq(p.comps) /\ IsSeq(p.pins) /\ IsSeq(q.comps) /\ IsSeq(q.pins)
  BY DEF Kin, Grown, Grows, IsPlan
<1>2. PartsGrow(q, p)
  <2>1. Len(p.comps) \in Nat /\ Len(p.pins) \in Nat
    BY Lengths
  <2> QED BY <1>1, <2>1 DEF PartsGrow, SamePin, SameName
<1>3. \A i \in 1..Len(p.pins) : q.pins[i].id = p.pins[i].id
  BY <1>1 DEF PartsGrow, SamePin
<1>4. \A end : PinOf(q, end) = PinOf(p, end)
  BY <1>1, <1>2, PinOfStays
<1>5. \A end : EndPin(q, end) = EndPin(p, end)
  <2> TAKE end
  <2>1. PinOf(p, end) # 0 => PinOf(p, end) \in 1..Len(p.pins)
    BY PinOfIn
  <2> QED BY <1>3, <1>4, <2>1 DEF EndPin
<1>6. \A i \in 1..Len(p.nets) : q.nets[i].name = p.nets[i].name
  BY <1>1, SameNets
<1>7. \A r : NetAt(q, r) = NetAt(p, r)
  <2> TAKE r
  <2>1. NetAt(p, r) = IF Named(p, r) = {} THEN 0 ELSE Least(Named(p, r))
    BY DEF NetAt, First, Least, Named
  <2>2. NetAt(q, r) = IF Named(q, r) = {} THEN 0 ELSE Least(Named(q, r))
    BY DEF NetAt, First, Least, Named
  <2>3. DOMAIN p.nets = 1..Len(p.nets) /\ DOMAIN q.nets = 1..Len(p.nets)
    BY <1>1, Lengths
  <2>4. Named(q, r) = Named(p, r)
    BY <1>6, <2>3 DEF Named
  <2> QED BY <2>1, <2>2, <2>4
<1>8. PinIds(q) = PinIds(p)
  <2>1. DOMAIN p.pins = 1..Len(p.pins) /\ DOMAIN q.pins = 1..Len(p.pins)
    BY <1>1, Lengths
  <2> QED BY <1>3, <2>1 DEF PinIds
<1>9. \A x : RequiredOn(q, x) = RequiredOn(p, x)
  BY <1>1, <1>5 DEF RequiredOn
<1> QED BY <1>3, <1>4, <1>5, <1>6, <1>7, <1>8, <1>9

LEMMA KinOn ==
  ASSUME NEW p, NEW q, NEW r, IsPlan(p), Kin(p, q), Kin(q, r) PROVE Kin(p, r)
BY GrownOn DEF Kin

LEMMA BackfillKin ==
  ASSUME NEW plan, NEW r, IsPlan(plan) PROVE Kin(plan, Backfill(plan, r)) /\ Settles(Backfill(plan, r), r)
<1> DEFINE f == PinOf(plan, r.from)
           t == PinOf(plan, r.to)
           n == NetAt(plan, r)
           q == Backfill(plan, r)
<1>1. Kin(plan, q)
  BY BackfillGrows DEF Kin
<1> HIDE DEF q
<1>2. PinOf(q, r.from) = f /\ PinOf(q, r.to) = t /\ NetAt(q, r) = n
  BY <1>1, KinIs
<1>3. ASSUME 0 \notin {f, t, n}
      PROVE  /\ {q.pins[f].id, q.pins[t].id} \subseteq Elements(q.nets[n].nodes)
             /\ q.pins[f].net = q.nets[n].name /\ q.pins[t].net = q.nets[n].name
  <2>1. /\ n \in 1..Len(q.nets) /\ f \in 1..Len(q.pins) /\ t \in 1..Len(q.pins)
        /\ {plan.pins[f].id, plan.pins[t].id} \subseteq Elements(q.nets[n].nodes)
        /\ q.pins[f].net = plan.nets[n].name /\ q.pins[t].net = plan.nets[n].name
    BY <1>3, BackfillGrows DEF q
  <2>2. Len(q.nets) = Len(plan.nets) /\ Len(q.pins) = Len(plan.pins)
    BY <1>1 DEF Kin
  <2>3. q.pins[f].id = plan.pins[f].id /\ q.pins[t].id = plan.pins[t].id /\ q.nets[n].name = plan.nets[n].name
    BY <1>1, <2>1, <2>2, KinIs
  <2> QED BY <2>1, <2>3
<1>4. Settles(q, r)
  BY <1>2, <1>3 DEF Settles
<1> QED BY <1>1, <1>4 DEF q

\* The pin of a requirement is required on its net.
LEMMA RequiredHere ==
  ASSUME NEW p, IsPlan(p), NEW i \in 1..Len(p.required), NEW end \in {p.required[i].from, p.required[i].to}, PinOf(p, end) # 0
  PROVE  LET x == p.pins[PinOf(p, end)].id
         IN x \in PinIds(p) /\ RepairName[p.required[i].net] \in RequiredOn(p, x)
<1> DEFINE x == p.pins[PinOf(p, end)].id
<1>1. PinOf(p, end) \in DOMAIN p.pins /\ i \in DOMAIN p.required
  BY PinOfIn, Lengths
<1>2. EndPin(p, end) = x
  BY DEF EndPin
<1>3. x \in {EndPin(p, p.required[i].from), EndPin(p, p.required[i].to)}
  BY <1>2
<1> QED BY <1>1, <1>3 DEF PinIds, RequiredOn

\* Where the guidance asks no pin onto two nets, a requirement that is met stays
\* met while the others are.
LEMMA SettlesStays ==
  ASSUME NEW p, IsPlan(p), NoTwo(p), NEW i \in 1..Len(p.required), NEW j \in 1..Len(p.required), Settles(p, p.required[i])
  PROVE  Settles(Backfill(p, p.required[j]), p.required[i])
<1> DEFINE r == p.required[i]
           s == p.required[j]
           q == Backfill(p, s)
           f == PinOf(p, r.from)
           t == PinOf(p, r.to)
           n == NetAt(p, r)
           g == PinOf(p, s.from)
           u == PinOf(p, s.to)
           m == NetAt(p, s)
<1>1. Kin(p, q) /\ Grown(p, q)
  BY BackfillKin DEF Kin
<1>2. CASE 0 \in {g, u, m}
  BY <1>2, BackfillIs
<1>3. CASE 0 \notin {g, u, m}
  <2>1. /\ \A k \in 1..Len(p.pins) : k \notin {g, u} => q.pins[k] = p.pins[k]
        /\ q.pins[g].net = p.nets[m].name /\ q.pins[u].net = p.nets[m].name
    BY <1>3, BackfillGrows
  <2> HIDE DEF q
  <2>2. PinOf(q, r.from) = f /\ PinOf(q, r.to) = t /\ NetAt(q, r) = n
    BY <1>1, KinIs
  <2>3. ASSUME 0 \notin {f, t, n}
        PROVE  /\ {q.pins[f].id, q.pins[t].id} \subseteq Elements(q.nets[n].nodes)
               /\ q.pins[f].net = q.nets[n].name /\ q.pins[t].net = q.nets[n].name
    <3>1. f \in 1..Len(p.pins) /\ t \in 1..Len(p.pins) /\ n \in 1..Len(p.nets)
      BY <2>3, PinOfIn, NetAtIs
    <3>2. /\ q.pins[f].id = p.pins[f].id /\ q.pins[t].id = p.pins[t].id /\ q.nets[n].name = p.nets[n].name
          /\ Elements(p.nets[n].nodes) \subseteq Elements(q.nets[n].nodes)
      BY <1>1, <3>1, KinIs DEF Grown, Grows, NetsGrow, MoreNodes
    <3>3. /\ {p.pins[f].id, p.pins[t].id} \subseteq Elements(p.nets[n].nodes)
          /\ p.pins[f].net = p.nets[n].name /\ p.pins[t].net = p.nets[n].name
      BY <2>3 DEF Settles
    <3>4. {f, t} \cap {g, u} # {} => m = n
      <4>1. ASSUME NEW a \in {r.from, r.to}, NEW b \in {s.from, s.to}, PinOf(p, a) = PinOf(p, b), PinOf(p, a) # 0 PROVE m = n
        <5> DEFINE x == p.pins[PinOf(p, a)].id
        <5>1. x \in PinIds(p) /\ RepairName[r.net] \in RequiredOn(p, x)
          BY <4>1, RequiredHere
        <5>2. RepairName[s.net] \in RequiredOn(p, x)
          BY <4>1, RequiredHere
        <5>3. RepairName[r.net] = RepairName[s.net]
          <6> HIDE DEF x, r, s
          <6> QED BY <5>1, <5>2 DEF NoTwo, AtMostOne
        <5>4. m = IF Named(p, s) = {} THEN 0 ELSE Least(Named(p, s))
          BY DEF NetAt, First, Least, Named
        <5>5. n = IF Named(p, r) = {} THEN 0 ELSE Least(Named(p, r))
          BY DEF NetAt, First, Least, Named
        <5>6. Named(p, s) = Named(p, r)
          BY <5>3 DEF Named
        <5> QED BY <5>4, <5>5, <5>6
      <4> HIDE DEF r, s, m, n
      <4> QED BY <2>3, <4>1
    <3>5. q.pins[f].net = p.nets[n].name
      BY <2>1, <3>1, <3>3, <3>4
    <3>6. q.pins[t].net = p.nets[n].name
      BY <2>1, <3>1, <3>3, <3>4
    <3> QED BY <3>2, <3>3, <3>5, <3>6
  <2>4. Settles(q, r)
    BY <2>2, <2>3 DEF Settles
  <2> QED BY <2>4 DEF q
<1> QED BY <1>2, <1>3

HasSettled(c, k, a) == Kin(c, a.plan) /\ (NoTwo(c) => \A i \in 1..k : Settles(a.plan, c.required[i]))
Settling == INSTANCE FoldRule WITH Op <- BackfillOne, Keeps <- HasSettled
Settled(plan) == \A i \in 1..Len(plan.required) : Settles(plan, plan.required[i])

LEMMA BackfillRequiredSettles ==
  ASSUME NEW plan, IsPlan(plan)
  PROVE  LET q == BackfillRequired(plan).plan IN Kin(plan, q) /\ (NoTwo(plan) => Settled(q))
<1> DEFINE base == [plan |-> plan, changed |-> FALSE]
           list == plan.required
           q == BackfillRequired(plan).plan
<1>1. BackfillRequired(plan) = Settling!Folded(plan, base, list)
  BY DEF BackfillRequired, FoldLeft, MapThenFoldSet, Max, BackfillOne,
         Settling!Folded, Settling!FoldLeft, Settling!MapThenFoldSet, Settling!Max
<1>2. Len(list) \in Nat /\ DOMAIN list = 1..Len(list)
  BY Lengths
<1>3. HasSettled(plan, 0, base)
  BY GrownItself DEF HasSettled, Kin
<1>4. ASSUME NEW i \in 1..Len(list), NEW a, HasSettled(plan, i - 1, a)
      PROVE  HasSettled(plan, i, BackfillOne(plan, a, list[i]))
  <2> DEFINE m == a.plan
             z == Backfill(m, list[i])
  <2>1. Kin(plan, m) /\ IsPlan(m) /\ m.required = list
    BY <1>4 DEF HasSettled, Kin, Grown, Grows
  <2>2. BackfillOne(plan, a, list[i]).plan = z
    BY DEF BackfillOne
  <2>3. Kin(m, z) /\ Settles(z, list[i])
    BY <2>1, BackfillKin
  <2>4. NoTwo(plan) => NoTwo(m)
    BY <2>1, KinIs DEF NoTwo
  <2>5. ASSUME NoTwo(plan), NEW j \in 1..(i - 1) PROVE Settles(z, list[j])
    <3>1. j \in 1..Len(m.required) /\ i \in 1..Len(m.required) /\ Settles(m, m.required[j]) /\ NoTwo(m)
      BY <1>2, <1>4, <2>1, <2>4, <2>5 DEF HasSettled
    <3> QED BY <2>1, <3>1, SettlesStays
  <2> HIDE DEF m, z
  <2>6. Kin(plan, z)
    BY <2>1, <2>3, KinOn
  <2>7. 1..i = (1..(i - 1)) \cup {i}
    BY <1>2
  <2> QED BY <2>2, <2>3, <2>5, <2>6, <2>7 DEF HasSettled
<1> HIDE DEF base
<1>5. HasSettled(plan, Len(list), Settling!Folded(plan, base, list))
  BY <1>2, <1>3, <1>4, Settling!FoldKeeps
<1>6. Kin(plan, q) /\ (NoTwo(plan) => \A i \in 1..Len(list) : Settles(q, list[i]))
  BY <1>1, <1>5 DEF HasSettled
<1> HIDE DEF q
<1>7. q.required = list
  BY <1>6 DEF Kin, Grown, Grows
<1>8. Kin(plan, q) /\ (NoTwo(plan) => Settled(q))
  BY <1>6, <1>7 DEF Settled
<1> QED BY <1>8 DEF q

\* Doing again what is done changes nothing.
LEMMA SettledIsKept ==
  ASSUME NEW plan, NEW r, IsPlan(plan), Settles(plan, r) PROVE Backfill(plan, r) = plan
<1> DEFINE f == PinOf(plan, r.from)
           t == PinOf(plan, r.to)
           n == NetAt(plan, r)
           q == Backfill(plan, r)
           two == <<plan.pins[f].id, plan.pins[t].id>>
           X == plan.nets[n].name
<1>1. CASE 0 \in {f, t, n}
  BY <1>1, BackfillIs
<1>2. CASE 0 \notin {f, t, n}
  <2>1. /\ n \in 1..Len(plan.nets) /\ f \in 1..Len(plan.pins) /\ t \in 1..Len(plan.pins)
        /\ IsRecord(q) /\ DOMAIN q = PlanFields /\ q.comps = plan.comps /\ q.required = plan.required /\ q.expected = plan.expected
        /\ q.nets = [plan.nets EXCEPT ![n].nodes = AddNew(@, two)]
        /\ q.pins = [plan.pins EXCEPT ![f].net = X, ![t].net = X]
    BY <1>2, BackfillIs
  <2>2. /\ {plan.pins[f].id, plan.pins[t].id} \subseteq Elements(plan.nets[n].nodes)
        /\ plan.pins[f].net = X /\ plan.pins[t].net = X
    BY <1>2 DEF Settles
  <2>3. IsSeq(two) /\ Elements(two) = {plan.pins[f].id, plan.pins[t].id}
    BY DEF IsSeq, Elements
  <2>4. q.expected = plan.expected
    <3>1. q = [plan EXCEPT !.nets[n].nodes = AddNew(@, two), !.pins[f].net = X, !.pins[t].net = X]
      BY <1>2 DEF Backfill, NetAt
    <3> HIDE DEF q, two, X, n, f, t
    <3> QED BY <3>1 DEF IsPlan, PlanFields
  <2> HIDE DEF q, two, X, n, f, t
  <2>5. /\ plan.nets = [i \in 1..Len(plan.nets) |-> plan.nets[i]] /\ plan.pins = [i \in 1..Len(plan.pins) |-> plan.pins[i]]
        /\ IsNet(plan.nets[n]) /\ IsPin(plan.pins[f]) /\ IsPin(plan.pins[t])
    BY <2>1, SeqIs DEF IsPlan
  <2>6. q.nets = plan.nets
    <3> DEFINE net == plan.nets[n]
    <3>1. AddNew(net.nodes, two) = net.nodes
      BY <2>2, <2>3, <2>5, AddNewIs DEF IsNet
    <3>2. [net EXCEPT !.nodes = AddNew(net.nodes, two)] = net
      <4>1. net = [x \in DOMAIN net |-> net[x]]
        BY <2>5 DEF IsNet, IsRecord
      <4> HIDE DEF net
      <4> QED BY <3>1, <4>1
    <3>3. q.nets = [plan.nets EXCEPT ![n] = [net EXCEPT !.nodes = AddNew(net.nodes, two)]]
      BY <2>1
    <3> QED BY <2>5, <3>2, <3>3
  <2>7. q.pins = plan.pins
    <3>1. \A i \in {f, t} : [plan.pins[i] EXCEPT !.net = X] = plan.pins[i]
      <4> TAKE i \in {f, t}
      <4> DEFINE pin == plan.pins[i]
      <4>1. pin = [x \in DOMAIN pin |-> pin[x]] /\ pin.net = X
        BY <2>2, <2>5 DEF IsPin, IsRecord
      <4> HIDE DEF pin
      <4>2. [pin EXCEPT !.net = X] = pin
        BY <4>1
      <4> QED BY <4>2 DEF pin
    <3>2. [plan.pins EXCEPT ![f].net = X] = plan.pins
      BY <2>5, <3>1
    <3>3. [plan.pins EXCEPT ![t].net = X] = plan.pins
      BY <2>5, <3>1
    <3> QED BY <2>1, <3>2, <3>3
  <2>8. \A x \in PlanFields : q[x] = plan[x]
    BY <2>1, <2>4, <2>6, <2>7 DEF PlanFields
  <2>9. plan = [x \in PlanFields |-> plan[x]] /\ q = [x \in PlanFields |-> q[x]]
    BY <2>1 DEF IsPlan, IsRecord
  <2>10. q = plan
    BY <2>8, <2>9
  <2> QED BY <2>10 DEF q
<1> QED BY <1>1, <1>2

HasKept(c, k, a) == a = [plan |-> c, changed |-> FALSE]
Keeping == INSTANCE FoldRule WITH Op <- BackfillOne, Keeps <- HasKept
LEMMA SettledStays ==
  ASSUME NEW plan, IsPlan(plan), Settled(plan) PROVE BackfillRequired(plan) = [plan |-> plan, changed |-> FALSE]
<1> DEFINE base == [plan |-> plan, changed |-> FALSE]
           list == plan.required
<1>1. BackfillRequired(plan) = Keeping!Folded(plan, base, list)
  BY DEF BackfillRequired, FoldLeft, MapThenFoldSet, Max, BackfillOne,
         Keeping!Folded, Keeping!FoldLeft, Keeping!MapThenFoldSet, Keeping!Max
<1>2. Len(list) \in Nat /\ DOMAIN list = 1..Len(list)
  BY Lengths
<1>3. HasKept(plan, 0, base)
  BY DEF HasKept
<1>4. ASSUME NEW i \in 1..Len(list), NEW a, HasKept(plan, i - 1, a) PROVE HasKept(plan, i, BackfillOne(plan, a, list[i]))
  <2>1. Backfill(plan, list[i]) = plan
    BY SettledIsKept DEF Settled
  <2>2. a.plan = plan /\ a.changed = FALSE
    BY <1>4 DEF HasKept
  <2> HIDE DEF list
  <2> QED BY <2>1, <2>2 DEF HasKept, BackfillOne
<1> HIDE DEF base
<1>5. HasKept(plan, Len(list), Keeping!Folded(plan, base, list))
  BY <1>2, <1>3, <1>4, Keeping!FoldKeeps
<1> QED BY <1>1, <1>5 DEF HasKept

----------------------------------------------------------------------------
\* What a repair does to a plan.

LEMMA RepairFeeds ==
  ASSUME NEW plan, IsPlan(plan), DistinctIds(plan)
  PROVE  LET q == Repair(plan).plan
         IN /\ Grown(plan, q) /\ Len(q.nets) = Len(plan.nets) /\ DistinctIds(q) /\ Fed(q)
            /\ (HasGround(q) <=> HasGround(plan))
            /\ Fed(plan) => Repair(plan) = BackfillRequired(plan)
<1> DEFINE filled == BackfillRequired(plan)
           base == filled.plan
           ground == First(plan.nets, IsGround)
           feed(p, n) == IF Orphan(base, n) THEN AddHeader(p, n, ground) ELSE p
           c == [plan |-> base, ground |-> ground]
           fed == FoldLeft(feed, base, base.nets)
           first == First(base.nets, LAMBDA n : Orphan(base, n))
           q == Repair(plan).plan
<1>1. Repair(plan) = IF 0 \in {ground, first} THEN filled ELSE [plan |-> fed, changed |-> TRUE]
  BY DEF Repair
<1>2. fed = Supplying!Folded(c, base, base.nets)
  BY DEF FoldLeft, MapThenFoldSet, Max, FeedOne,
         Supplying!Folded, Supplying!FoldLeft, Supplying!MapThenFoldSet, Supplying!Max
<1> HIDE DEF fed
<1>3. Kin(plan, base)
  BY BackfillRequiredSettles
<1>4. ground = 0 <=> ~HasGround(plan)
  BY GroundIs
<1>5. IsPlan(base) => (first = 0 <=> \A i \in DOMAIN base.nets : ~Orphan(base, base.nets[i]))
  <2> HIDE DEF base
  <2> QED BY OrphanIs
<1> HIDE DEF base, first, ground
<1>6. /\ Grown(plan, base) /\ IsPlan(base) /\ Len(base.nets) = Len(plan.nets) /\ DistinctIds(base)
      /\ (HasGround(base) <=> HasGround(plan))
      /\ Len(base.nets) \in Nat /\ DOMAIN base.nets = 1..Len(base.nets) /\ c.plan = base
  BY <1>3, SameNets, Lengths DEF Kin, Grown
<1> HIDE DEF c
<1>7. HasFed(c, Len(base.nets), fed)
  <2>1. HasFed(c, 0, base)
    BY <1>6, GrownItself DEF HasFed
  <2>2. ASSUME NEW i \in 1..Len(base.nets), NEW p, HasFed(c, i - 1, p) PROVE HasFed(c, i, FeedOne(c, p, base.nets[i]))
    <3>1. IsPlan(c.plan) /\ DistinctIds(c.plan) /\ i \in 1..Len(c.plan.nets) /\ base.nets[i] = c.plan.nets[i]
      BY <1>6
    <3> QED BY <2>2, <3>1, FeedOneFeeds
  <2> QED BY <1>2, <1>6, <2>1, <2>2, Supplying!FoldKeeps
<1>8. Grown(base, fed) /\ Len(fed.nets) = Len(base.nets) /\ \A i \in 1..Len(fed.nets) : ~Orphan(fed, fed.nets[i])
  BY <1>6, <1>7 DEF HasFed
<1>9. Grown(plan, fed) /\ Len(fed.nets) = Len(plan.nets) /\ DistinctIds(fed) /\ Fed(fed) /\ (HasGround(fed) <=> HasGround(plan))
  <2>1. Grown(plan, fed) /\ IsPlan(fed)
    BY <1>6, <1>8, GrownOn DEF Grown
  <2>2. DOMAIN fed.nets = 1..Len(fed.nets)
    BY <2>1, Lengths
  <2> QED BY <1>6, <1>8, <2>1, <2>2, SameNets DEF Fed
<1>10. 0 \in {ground, first} => Fed(base)
  BY <1>4, <1>5, <1>6 DEF Fed
<1>11. Fed(plan) => 0 \in {ground, first}
  <2> SUFFICES ASSUME Fed(plan), ground # 0 PROVE first = 0
    OBVIOUS
  <2>1. \A i \in 1..Len(plan.nets) : ~Orphan(plan, plan.nets[i])
    BY <1>4, Lengths DEF Fed
  <2>2. \A i \in 1..Len(base.nets) : ~Orphan(base, base.nets[i])
    BY <1>6, <2>1, FedStays
  <2> QED BY <1>5, <1>6, <2>2
<1>12. /\ Grown(plan, q) /\ Len(q.nets) = Len(plan.nets) /\ DistinctIds(q) /\ Fed(q) /\ (HasGround(q) <=> HasGround(plan))
  <2>1. CASE 0 \in {ground, first}
    <3>1. q = base
      BY <1>1, <2>1 DEF base
    <3> QED BY <1>6, <1>10, <2>1, <3>1
  <2>2. CASE 0 \notin {ground, first}
    <3>1. q = fed
      BY <1>1, <2>2
    <3> QED BY <1>9, <3>1
  <2> QED BY <2>1, <2>2
<1> HIDE DEF q
<1>13. Fed(plan) => Repair(plan) = filled
  BY <1>1, <1>11
<1> QED BY <1>12, <1>13 DEF q

\* Where the guidance asks no pin onto two nets and there is a ground.
Quiet(plan) == HasGround(plan) /\ NoTwo(plan)

\* A repair of a plan that is fed settles it, and then changes nothing more.
LEMMA RepairSettles ==
  ASSUME NEW plan, IsPlan(plan), DistinctIds(plan), Fed(plan), Quiet(Repair(plan).plan)
  PROVE  LET q == Repair(plan).plan
         IN Quiet(plan) /\ Settled(q) /\ (Settled(plan) => Repair(plan).changed = FALSE)
<1> DEFINE q == Repair(plan).plan
<1>1. Repair(plan) = BackfillRequired(plan) /\ (HasGround(q) <=> HasGround(plan))
  BY RepairFeeds
<1>2. Kin(plan, q) /\ (NoTwo(plan) => Settled(q))
  BY <1>1, BackfillRequiredSettles
<1>3. Settled(plan) => Repair(plan).changed = FALSE
  <2> SUFFICES ASSUME Settled(plan) PROVE Repair(plan).changed = FALSE
    OBVIOUS
  <2>1. Repair(plan) = [plan |-> plan, changed |-> FALSE]
    BY <1>1, SettledStays
  <2> QED BY <2>1
<1> HIDE DEF q
<1>4. NoTwo(plan)
  <2>1. NoTwo(q)
    BY DEF Quiet, q
  <2> QED BY <1>2, <2>1, KinIs DEF NoTwo
<1>5. Quiet(plan)
  BY <1>1, <1>4 DEF Quiet, q
<1> QED BY <1>2, <1>3, <1>4, <1>5 DEF q

PowerInv ==
  /\ WiringInv /\ IsSeq(repairs)
  /\ draftPlan = <<>> => repairs = <<>>
  /\ draftPlan # <<>> =>
       /\ DistinctIds(draftPlan) /\ Fed(draftPlan)
       /\ Quiet(draftPlan) /\ Len(repairs) >= 1 => Settled(draftPlan)
       /\ Quiet(draftPlan) /\ Len(repairs) >= 2 => ~repairs[Len(repairs)]

LEMMA PowerStep == PowerInv /\ [WiringNext]_wiringVars => PowerInv'
<1> SUFFICES ASSUME PowerInv, [WiringNext]_wiringVars PROVE PowerInv'
  OBVIOUS
<1>0. WiringInv /\ WiringInv'
  BY WiringStep DEF PowerInv
<1>1. CASE GeneratePlan
  <2> DEFINE made == PlanOf(design)
             q == Repair(made).plan
  <2>1. design \in Designs /\ draftPlan = <<>> /\ draftPlan' = q /\ repairs' = repairs /\ repairs = <<>> /\ IsSeq(repairs)
    BY <1>0, <1>1 DEF GeneratePlan, PowerInv, WiringInv
  <2>2. IsPlan(made) /\ DistinctIds(made)
    <3>1. /\ IsPlan(made) /\ IsSeq(design.nets) /\ Len(made.nets) = Len(design.nets)
          /\ \A i \in 1..Len(design.nets) : made.nets[i].id = design.nets[i].id
      BY <2>1, PlanOfIs
    <3>2. DOMAIN design.nets = 1..Len(design.nets)
      BY <3>1, SeqIs
    <3> QED BY <2>1, <3>1, <3>2, IdsAssumption DEF DistinctIds
  <2> HIDE DEF made
  <2>3. DistinctIds(q) /\ Fed(q) /\ Grown(made, q)
    BY <2>2, RepairFeeds
  <2>4. q # <<>>
    <3>1. DOMAIN q = PlanFields /\ DOMAIN <<>> = {} /\ "nets" \in PlanFields
      BY <2>3 DEF Grown, IsPlan, PlanFields
    <3> QED BY <3>1
  <2> HIDE DEF q
  <2> QED BY <1>0, <2>1, <2>3, <2>4 DEF PowerInv
<1>2. CASE RepairPlan
  <2> DEFINE q == Repair(draftPlan).plan
             done == Repair(draftPlan).changed
             n == Len(repairs)
  <2>1. draftPlan # <<>> /\ draftPlan' = q /\ repairs' = Append(repairs, done) /\ IsSeq(repairs)
    BY <1>2 DEF RepairPlan, PowerInv
  <2>2. /\ IsPlan(draftPlan) /\ DistinctIds(draftPlan) /\ Fed(draftPlan)
        /\ (Quiet(draftPlan) /\ n >= 1 => Settled(draftPlan))
    BY <1>0, <2>1 DEF PowerInv, WiringInv, Sound, Grown
  <2>3. DistinctIds(q) /\ Fed(q) /\ Grown(draftPlan, q)
    BY <2>2, RepairFeeds
  <2>4. Quiet(q) => Quiet(draftPlan) /\ Settled(q) /\ (Settled(draftPlan) => done = FALSE)
    BY <2>2, RepairSettles
  <2>5. q # <<>>
    <3>1. DOMAIN q = PlanFields /\ DOMAIN <<>> = {} /\ "nets" \in PlanFields
      BY <2>3 DEF Grown, IsPlan, PlanFields
    <3> QED BY <3>1
  <2> HIDE DEF q, done
  <2>6. n \in Nat /\ IsSeq(repairs') /\ Len(repairs') = n + 1 /\ repairs'[n + 1] = done
    BY <2>1, SeqIs, AppendSeq
  <2>7. Quiet(q) /\ Len(repairs') >= 2 => ~repairs'[Len(repairs')]
    BY <2>2, <2>4, <2>6
  <2> QED BY <1>0, <2>1, <2>3, <2>4, <2>5, <2>6, <2>7 DEF PowerInv
<1>3. CASE ApplyPlan
  BY <1>0, <1>3 DEF ApplyPlan, PowerInv
<1>4. CASE UNCHANGED wiringVars
  BY <1>0, <1>4 DEF wiringVars, PowerInv
<1> QED BY <1>1, <1>2, <1>3, <1>4 DEF WiringNext

\* A plan with a ground net leaves no power net without a source, and the
\* repair tool settles: from its second call on it reports no change, unless the
\* guidance asks a pin onto two nets.
THEOREM PowerIsFedHolds == WiringSpec => []PowerIsFed
<1>1. WiringInit => PowerInv
  <2>1. IsSeq(<<>>)
    BY DEF IsSeq, Elements
  <2> QED BY <2>1 DEF WiringInit, WiringInv, PowerInv
<1>2. PowerInv => PowerIsFed
  BY DEF PowerInv, PowerIsFed, Fed, HasGround, Quiet, NoTwo
<1> QED BY <1>1, <1>2, PowerStep, PTL DEF WiringSpec

----------------------------------------------------------------------------
\* No short: a pin of a design that agrees with its guidance is on nets of one
\* name only, the name that is asked for.

\* What the rule checks look up: the nets that the design's pins expect, and
\* those of headers; and which pins a plan tells a net.
Checked(d, plan) ==
  /\ ExpectedNets(d) \subseteq plan.expected
  /\ \A e \in plan.expected \ ExpectedNets(d) : e.name \in {"1", "2"} /\ \E r \in Elements(Connectors) : e.comp = Header(r)
  /\ \A i \in 1..Len(plan.pins) : i > Len(d.pins) =>
       /\ "name" \in DOMAIN plan.pins[i] /\ plan.pins[i].name \in NetNames(d) \cup {"GND"}
       /\ \E r \in Elements(Connectors) : plan.pins[i].comp = Header(r)
  /\ \A i \in 1..Len(d.pins) :
       plan.pins[i].net # NoNet => Listed(d, d.pins[i].id) # {} \/ ~Unwired(plan, d.pins[i].id)

\* A plan of a design, whose further components are headers.
Rooted(d, plan) ==
  /\ Grown(PlanOf(d), plan) /\ Placed(d, plan) /\ Checked(d, plan) /\ Len(plan.nets) = Len(d.nets)
  /\ \A i \in 1..Len(plan.comps) : i > Len(d.comps) => \E r \in Elements(Connectors) : plan.comps[i].id = Header(r)

LEMMA RootedIs ==
  ASSUME NEW d \in Designs, NEW plan, Rooted(d, plan)
  PROVE  /\ IsPlan(plan) /\ plan.required = d.required /\ PartsGrow(d, plan)
         /\ IsSeq(d.comps) /\ IsSeq(d.pins) /\ IsSeq(d.nets)
         /\ Len(d.comps) \in Nat /\ Len(d.pins) \in Nat /\ Len(d.nets) \in Nat /\ DOMAIN d.pins = 1..Len(d.pins)
         /\ \A i \in 1..Len(d.pins) : i \in 1..Len(plan.pins) /\ plan.pins[i].id = d.pins[i].id
         /\ \A i \in 1..Len(plan.nets) :
              RepairName[plan.nets[i].name] = plan.nets[i].name /\ plan.nets[i].name \in NetNames(d) \ {NoNet}
<1> DEFINE made == PlanOf(d)
<1>1. /\ IsPlan(made) /\ IsSeq(d.comps) /\ IsSeq(d.pins) /\ IsSeq(d.nets) /\ PartsGrow(d, made) /\ made.required = d.required
      /\ Len(made.nets) = Len(d.nets) /\ Len(made.pins) = Len(d.pins) /\ made.comps = d.comps
      /\ \A i \in 1..Len(d.nets) : made.nets[i].name = SpecName[d.nets[i].name]
  BY PlanOfIs
<1> HIDE DEF made
<1>2. IsPlan(plan) /\ PartsGrow(made, plan) /\ NetsGrow(made, plan) /\ plan.required = made.required /\ Len(plan.nets) = Len(d.nets)
  BY DEF Rooted, Grown, Grows, made
<1>3. /\ Len(d.comps) \in Nat /\ Len(d.pins) \in Nat /\ Len(d.nets) \in Nat
      /\ DOMAIN d.pins = 1..Len(d.pins) /\ DOMAIN d.nets = 1..Len(d.nets)
      /\ Len(plan.comps) \in Nat /\ Len(plan.pins) \in Nat
  BY <1>1, <1>2, SeqIs, Lengths
<1>4. PartsGrow(d, plan)
  BY <1>1, <1>2, <1>3 DEF PartsGrow, SamePin, SameName
<1>5. \A i \in 1..Len(d.pins) : i \in 1..Len(plan.pins) /\ plan.pins[i].id = d.pins[i].id
  BY <1>3, <1>4 DEF PartsGrow, SamePin
<1>6. \A i \in 1..Len(plan.nets) :
        RepairName[plan.nets[i].name] = plan.nets[i].name /\ plan.nets[i].name \in NetNames(d) \ {NoNet}
  <2> TAKE i \in 1..Len(plan.nets)
  <2>1. plan.nets[i].name = SpecName[d.nets[i].name] /\ i \in DOMAIN d.nets
    BY <1>1, <1>2, <1>3 DEF NetsGrow, MoreNodes
  <2>2. plan.nets[i].name \in NetNames(d)
    BY <2>1 DEF NetNames
  <2> QED BY <2>1, <2>2, NamesAssumption
<1> QED BY <1>1, <1>2, <1>3, <1>4, <1>5, <1>6

\* A pin that a connection lists is told a name under which one lists it.
LEMMA NetOfPinIs ==
  ASSUME NEW d \in Designs, NEW x, NEW k \in 1..Len(d.conns), x \in Elements(d.conns[k].pins)
  PROVE  NetOfPin(d, x) \in Listed(d, x) /\ SpecName[d.conns[k].net] \in Listed(d, x)
<1> DEFINE hits == {i \in DOMAIN d.conns : x \in Elements(d.conns[i].pins)}
           c == First(d.conns, LAMBDA z : x \in Elements(z.pins))
<1>1. Len(d.conns) \in Nat /\ DOMAIN d.conns = 1..Len(d.conns)
  BY DesignsAssumption
<1>2. k \in hits /\ hits \in SUBSET Nat /\ 0 \notin hits
  BY <1>1
<1>3. c = IF hits = {} THEN 0 ELSE Least(hits)
  BY DEF First, Least
<1>4. NetOfPin(d, x) = IF c = 0 THEN NoNet ELSE SpecName[d.conns[c].net]
  BY DEF NetOfPin
<1> HIDE DEF c
<1>5. c \in hits /\ c # 0
  <2> HIDE DEF hits
  <2> QED BY <1>2, <1>3, LeastIs
<1>6. k \in DOMAIN d.conns /\ c \in DOMAIN d.conns /\ x \in Elements(d.conns[c].pins) /\ x \in Elements(d.conns[k].pins)
  BY <1>2, <1>5
<1> HIDE DEF hits
<1> QED BY <1>4, <1>5, <1>6 DEF Listed

LEMMA PlanRooted == ASSUME NEW d \in Designs, Agreed(d) PROVE Rooted(d, PlanOf(d))
<1> DEFINE plan == PlanOf(d)
<1>1. /\ IsPlan(plan) /\ IsSeq(d.comps) /\ IsSeq(d.pins) /\ IsSeq(d.nets) /\ PartsGrow(d, plan)
      /\ Len(plan.nets) = Len(d.nets) /\ Len(plan.pins) = Len(d.pins) /\ plan.comps = d.comps
      /\ plan.expected = ExpectedNets(d)
      /\ \A i \in 1..Len(d.pins) : plan.pins[i].net = NetOfPin(d, d.pins[i].id)
      /\ \A i \in 1..Len(d.nets) : plan.nets[i].name = SpecName[d.nets[i].name]
                                   /\ plan.nets[i].nodes = NodesOf(d, SpecName[d.nets[i].name])
  BY PlanOfIs
<1>2. Len(d.comps) \in Nat /\ Len(d.pins) \in Nat /\ Grown(plan, plan)
  BY <1>1, SeqIs, GrownItself
<1> HIDE DEF plan
<1>3. ASSUME NEW i \in 1..Len(plan.nets), NEW x \in Elements(plan.nets[i].nodes)
      PROVE  plan.nets[i].name \in Listed(d, x) /\ NetOfPin(d, x) \in Listed(d, x)
  <2> DEFINE name == SpecName[d.nets[i].name]
  <2>1. plan.nets[i].name = name /\ plan.nets[i].nodes = NodesOf(d, name)
    BY <1>1
  <2> HIDE DEF name
  <2>2. PICK k \in 1..Len(d.conns) : SpecName[d.conns[k].net] = name /\ x \in Elements(d.conns[k].pins)
    BY <1>3, <2>1, NodesOfIs
  <2> QED BY <2>1, <2>2, NetOfPinIs
<1>4. ASSUME NEW i \in 1..Len(plan.pins), NEW k \in 1..Len(plan.nets), plan.pins[i].id \in Elements(plan.nets[k].nodes) \cap PinIds(d)
      PROVE  plan.pins[i].net = plan.nets[k].name
  <2> DEFINE x == plan.pins[i].id
  <2>1. x = d.pins[i].id /\ plan.pins[i].net = NetOfPin(d, x)
    BY <1>1 DEF PartsGrow, SamePin
  <2>2. plan.nets[k].name \in Listed(d, x) /\ NetOfPin(d, x) \in Listed(d, x)
    BY <1>3, <1>4
  <2>3. AtMostOne(Listed(d, x) \cup RequiredOn(d, x))
    BY <1>4 DEF Agreed
  <2> HIDE DEF x
  <2> QED BY <2>1, <2>2, <2>3 DEF AtMostOne
<1>5. \A i \in 1..Len(plan.pins) : ~(i > Len(d.pins))
  BY <1>1, <1>2
<1>6. Placed(d, plan)
  BY <1>3, <1>4, <1>5 DEF Placed, Asked
<1>7. \A i \in 1..Len(plan.comps) : ~(i > Len(d.comps))
  BY <1>1, <1>2
<1>8. ASSUME NEW i \in 1..Len(d.pins), plan.pins[i].net # NoNet PROVE Listed(d, d.pins[i].id) # {}
  <2> DEFINE x == d.pins[i].id
             k == First(d.conns, LAMBDA c : x \in Elements(c.pins))
             hits == {j \in DOMAIN d.conns : x \in Elements(d.conns[j].pins)}
  <2>1. NetOfPin(d, x) = IF k = 0 THEN NoNet ELSE SpecName[d.conns[k].net]
    BY DEF NetOfPin
  <2>2. k = IF hits = {} THEN 0 ELSE Least(hits)
    BY DEF First, Least
  <2> HIDE DEF k
  <2>3. hits # {}
    BY <1>1, <1>8, <2>1, <2>2
  <2> QED BY <2>3 DEF Listed
<1>9. Checked(d, plan)
  BY <1>1, <1>5, <1>8 DEF Checked
<1> QED BY <1>1, <1>2, <1>6, <1>7, <1>9 DEF Rooted, plan

\* A pin of the design that an end stands for in such a plan is what the end
\* stands for in the design.
LEMMA PinOfDesign ==
  ASSUME NEW d \in Designs, NEW plan, Rooted(d, plan), NEW end, PinOf(plan, end) # 0,
         plan.pins[PinOf(plan, end)].id \in PinIds(d)
  PROVE  PinOf(plan, end) \in 1..Len(d.pins) /\ EndPin(d, end) = plan.pins[PinOf(plan, end)].id
<1> DEFINE f == PinOf(plan, end)
           c == Least(PartsAt(plan, end))
           on == PinsAt(plan, plan.comps[c].id, end)
<1>1. /\ IsPlan(plan) /\ PartsGrow(d, plan) /\ IsSeq(d.comps) /\ IsSeq(d.pins) /\ IsSeq(plan.comps) /\ IsSeq(plan.pins)
      /\ Len(d.comps) \in Nat /\ Len(d.pins) \in Nat /\ DOMAIN d.pins = 1..Len(d.pins)
      /\ Len(plan.comps) \in Nat /\ Len(plan.pins) \in Nat /\ DOMAIN d.comps = 1..Len(d.comps)
      /\ DOMAIN plan.comps = 1..Len(plan.comps) /\ DOMAIN plan.pins = 1..Len(plan.pins)
  BY RootedIs, Lengths, SeqIs DEF IsPlan
<1>2. f \in 1..Len(plan.pins) /\ f \in 1..Len(d.pins)
  <2>1. f \in 1..Len(plan.pins)
    BY <1>1, PinOfIn
  <2> HIDE DEF f
  <2>2. ~(f > Len(d.pins))
    BY <2>1 DEF Rooted, Placed, f
  <2> QED BY <1>1, <2>1, <2>2
<1>3. /\ PartsAt(plan, end) # {} /\ c # 0 /\ on # {} /\ f = Least(on)
  BY PinOfIs
<1>4. c \in PartsAt(plan, end) /\ f \in on
  <2>1. PartsAt(plan, end) \in SUBSET Nat
    BY <1>1 DEF PartsAt
  <2>2. on \in SUBSET Nat
    BY <1>1 DEF PinsAt
  <2> HIDE DEF on, f
  <2> QED BY <1>3, <2>1, <2>2, LeastIs
<1> HIDE DEF c
<1>5. c \in 1..Len(plan.comps) /\ plan.comps[c].ref = end.ref /\ plan.pins[f].comp = plan.comps[c].id /\ end.label \in plan.pins[f].labels
  BY <1>1, <1>4 DEF PartsAt, PinsAt
<1> HIDE DEF on, f
<1>6. d.pins[f].comp = plan.pins[f].comp /\ d.pins[f].id = plan.pins[f].id /\ d.pins[f].labels = plan.pins[f].labels
  BY <1>1, <1>2 DEF PartsGrow, SamePin
<1>7. c \in 1..Len(d.comps)
  <2> SUFFICES ASSUME c > Len(d.comps) PROVE FALSE
    BY <1>1, <1>5
  <2>1. PICK r \in Elements(Connectors) : plan.comps[c].id = Header(r)
    BY <1>5 DEF Rooted
  <2> QED BY <1>1, <1>2, <1>5, <1>6, <2>1, NewIdsAssumption
<1>8. plan.comps[c] = d.comps[c]
  BY <1>1, <1>7 DEF PartsGrow
<1>9. Least(PartsAt(d, end)) = c /\ PartsAt(d, end) # {}
  <2> DEFINE S == PartsAt(d, end)
             T == PartsAt(plan, end)
  <2>1. c \in S /\ S \in SUBSET (1..Len(d.comps)) /\ T \in SUBSET Nat /\ 0 \notin T
    BY <1>1, <1>5, <1>7, <1>8 DEF PartsAt
  <2>2. T \cap (1..Len(d.comps)) = S
    BY <1>1 DEF PartsAt, PartsGrow
  <2> HIDE DEF S, T
  <2>3. Least(T) = Least(S)
    BY <1>1, <2>1, <2>2, LeastStays
  <2> QED BY <2>1, <2>3 DEF c, S, T
<1>10. f \in PinsAt(d, d.comps[c].id, end)
  BY <1>1, <1>2, <1>5, <1>6, <1>8 DEF PinsAt
<1>11. PinOf(d, end) # 0
  <2> DEFINE at == PinsAt(d, d.comps[c].id, end)
  <2>1. at \in SUBSET Nat /\ 0 \notin at
    BY <1>1 DEF PinsAt
  <2>2. PinOf(d, end) = IF PartsAt(d, end) = {} \/ c = 0 \/ at = {} THEN 0 ELSE Least(at)
    BY <1>9, PinOfIs
  <2> HIDE DEF at
  <2>3. at # {}
    BY <1>10 DEF at
  <2>4. Least(at) \in at
    BY <2>1, <2>3, LeastIs
  <2> QED BY <1>3, <1>9, <2>1, <2>2, <2>3, <2>4
<1>12. PinOf(d, end) = f
  BY <1>1, <1>11, PinOfStays DEF f
<1> QED BY <1>2, <1>3, <1>6, <1>12 DEF EndPin, f

LEMMA NetAtName ==
  ASSUME NEW plan, NEW r, IsPlan(plan), NetAt(plan, r) # 0
  PROVE  RepairName[plan.nets[NetAt(plan, r)].name] = RepairName[r.net]
<1>1. NetAt(plan, r) = IF Named(plan, r) = {} THEN 0 ELSE Least(Named(plan, r))
  BY DEF NetAt, First, Least, Named
<1>2. Named(plan, r) \in SUBSET Nat
  BY Lengths DEF Named
<1>3. NetAt(plan, r) \in Named(plan, r)
  BY <1>1, <1>2, LeastIs
<1> QED BY <1>3 DEF Named

\* What the checks look up stays, when a step adds no part, and puts the pins
\* that it tells another net on one.
LEMMA UnwiredWas ==
  ASSUME NEW p, NEW q, NEW x, IsPlan(p), Grown(p, q), Unwired(q, x) PROVE Unwired(p, x)
<1>1. DOMAIN p.nets = 1..Len(p.nets) /\ DOMAIN q.nets = 1..Len(q.nets) /\ Len(p.nets) \in Nat /\ Len(q.nets) \in Nat
  BY Lengths DEF Grown
<1>2. \A i \in 1..Len(p.nets) : i \in 1..Len(q.nets) /\ Elements(p.nets[i].nodes) \subseteq Elements(q.nets[i].nodes)
  <2>1. Len(p.nets) <= Len(q.nets) /\ \A i \in 1..Len(p.nets) : MoreNodes(p.nets[i], q.nets[i])
    BY DEF Grown, Grows, NetsGrow
  <2>2. \A i \in 1..Len(p.nets) : Elements(p.nets[i].nodes) \subseteq Elements(q.nets[i].nodes)
    BY <2>1 DEF MoreNodes
  <2>3. \A i \in 1..Len(p.nets) : i \in 1..Len(q.nets)
    BY <1>1, <2>1
  <2> QED BY <2>2, <2>3
<1> QED BY <1>1, <1>2 DEF Unwired, HasPin

LEMMA CheckedStays ==
  ASSUME NEW d, NEW p, NEW q, IsPlan(p), Grown(p, q), Checked(d, p), q.expected = p.expected, Len(q.pins) = Len(p.pins),
         \A i \in 1..Len(d.pins) : q.pins[i].net # p.pins[i].net => ~Unwired(q, d.pins[i].id)
  PROVE  Checked(d, q)
<1>1. \A i \in 1..Len(p.pins) : SamePin(p.pins[i], q.pins[i])
  BY DEF Grown, Grows, PartsGrow
<1>2. ASSUME NEW i \in 1..Len(q.pins), i > Len(d.pins)
      PROVE  /\ "name" \in DOMAIN q.pins[i] /\ q.pins[i].name \in NetNames(d) \cup {"GND"}
             /\ \E r \in Elements(Connectors) : q.pins[i].comp = Header(r)
  BY <1>1, <1>2 DEF Checked, SamePin, SameName
<1>3. ASSUME NEW i \in 1..Len(d.pins), q.pins[i].net # NoNet
      PROVE  Listed(d, d.pins[i].id) # {} \/ ~Unwired(q, d.pins[i].id)
  <2>1. CASE q.pins[i].net # p.pins[i].net
    BY <2>1
  <2>2. CASE q.pins[i].net = p.pins[i].net
    BY <1>3, <2>2, UnwiredWas DEF Checked
  <2> QED BY <2>1, <2>2
<1> QED BY <1>2, <1>3 DEF Checked

\* What the guidance requires keeps to what is asked.
LEMMA BackfillRooted ==
  ASSUME NEW d \in Designs, Agreed(d), NEW plan, Rooted(d, plan), NEW j \in 1..Len(d.required)
  PROVE  Rooted(d, Backfill(plan, d.required[j]))
<1> DEFINE r == d.required[j]
           f == PinOf(plan, r.from)
           t == PinOf(plan, r.to)
           n == NetAt(plan, r)
           q == Backfill(plan, r)
           X == plan.nets[n].name
<1>1. /\ IsPlan(plan) /\ j \in DOMAIN d.required /\ Len(d.pins) \in Nat /\ DOMAIN d.pins = 1..Len(d.pins)
      /\ \A i \in 1..Len(plan.nets) : RepairName[plan.nets[i].name] = plan.nets[i].name
      /\ \A i \in 1..Len(d.pins) : i \in 1..Len(plan.pins) /\ plan.pins[i].id = d.pins[i].id
  BY RootedIs, DesignsAssumption
<1>2. CASE 0 \in {f, t, n}
  BY <1>1, <1>2, BackfillIs
<1>3. CASE 0 \notin {f, t, n}
  <2>1. /\ Grown(plan, q) /\ Len(q.comps) = Len(plan.comps) /\ Len(q.pins) = Len(plan.pins) /\ Len(q.nets) = Len(plan.nets)
        /\ q.expected = plan.expected
        /\ n \in 1..Len(q.nets) /\ f \in 1..Len(q.pins) /\ t \in 1..Len(q.pins)
        /\ q.pins[f].net = X /\ q.pins[t].net = X
        /\ \A i \in 1..Len(plan.pins) : i \notin {f, t} => q.pins[i] = plan.pins[i]
        /\ \A i \in 1..Len(plan.nets) : i # n => q.nets[i] = plan.nets[i]
        /\ Elements(q.nets[n].nodes) = Elements(plan.nets[n].nodes) \cup {plan.pins[f].id, plan.pins[t].id}
    <3> HIDE DEF r
    <3>1. IsPlan(plan) /\ 0 \notin {f, t, n}
      BY <1>1, <1>3
    <3> QED BY <3>1, BackfillGrows
  <2> HIDE DEF q
  <2>2. X = RepairName[r.net]
    <3>1. RepairName[X] = RepairName[r.net]
      BY <1>1, <1>3, NetAtName
    <3>2. RepairName[X] = X
      BY <1>1, <2>1
    <3> QED BY <3>1, <3>2
  <2>3. ASSUME NEW end \in {r.from, r.to}, plan.pins[PinOf(plan, end)].id \in PinIds(d)
        PROVE  PinOf(plan, end) \in 1..Len(d.pins) /\ X \in RequiredOn(d, plan.pins[PinOf(plan, end)].id)
    <3>1. PinOf(plan, end) # 0
      BY <1>3, <2>3
    <3>2. PinOf(plan, end) \in 1..Len(d.pins) /\ EndPin(d, end) = plan.pins[PinOf(plan, end)].id
      BY <2>3, <3>1, PinOfDesign
    <3>3. EndPin(d, end) \in {EndPin(d, d.required[j].from), EndPin(d, d.required[j].to)}
      BY <2>3
    <3> HIDE DEF X
    <3>4. X \in RequiredOn(d, EndPin(d, end))
      BY <1>1, <2>2, <3>3 DEF RequiredOn
    <3> QED BY <3>2, <3>4
  <2>4. \A i \in 1..Len(plan.pins) : q.pins[i].id = plan.pins[i].id
    BY <2>1 DEF Grown, Grows, PartsGrow, SamePin
  <2>5. \A i \in 1..Len(plan.nets) : q.nets[i].name = plan.nets[i].name
    BY <2>1 DEF Grown, Grows, NetsGrow, MoreNodes
  <2>6. plan.pins[f].id \in PinIds(d) => f \in 1..Len(d.pins) /\ X \in RequiredOn(d, plan.pins[f].id)
    BY <2>3
  <2>7. plan.pins[t].id \in PinIds(d) => t \in 1..Len(d.pins) /\ X \in RequiredOn(d, plan.pins[t].id)
    BY <2>3
  <2> HIDE DEF f, t, n, r
  <2>8. ASSUME NEW i \in 1..Len(q.nets), NEW x \in Elements(q.nets[i].nodes) \cap PinIds(d)
        PROVE  q.nets[i].name \in Asked(d, x)
    <3>1. CASE x \in Elements(plan.nets[i].nodes)
      BY <2>1, <2>5, <3>1 DEF Rooted, Placed
    <3>2. CASE x \notin Elements(plan.nets[i].nodes)
      <4>1. i = n /\ x \in {plan.pins[f].id, plan.pins[t].id} /\ q.nets[i].name = X
        BY <2>1, <2>5, <3>2
      <4>2. X \in RequiredOn(d, x)
        BY <2>6, <2>7, <4>1
      <4> HIDE DEF X
      <4> QED BY <4>1, <4>2 DEF Asked
    <3> QED BY <3>1, <3>2
  <2>9. ASSUME NEW i \in 1..Len(q.pins), NEW k \in 1..Len(q.nets), q.pins[i].id \in Elements(q.nets[k].nodes) \cap PinIds(d)
        PROVE  q.pins[i].net = q.nets[k].name
    <3> DEFINE x == q.pins[i].id
    <3>1. q.nets[k].name \in Asked(d, x) /\ i \in 1..Len(plan.pins) /\ k \in 1..Len(plan.nets) /\ x = plan.pins[i].id /\ x \in PinIds(d)
      BY <2>1, <2>4, <2>8, <2>9
    <3>2. CASE i \in {f, t}
      <4>1. X \in RequiredOn(d, x) /\ q.pins[i].net = X
        BY <2>1, <2>6, <2>7, <3>1, <3>2
      <4>2. AtMostOne(Asked(d, x))
        BY <3>1 DEF Agreed, Asked
      <4>3. X \in Asked(d, x)
        BY <4>1 DEF Asked
      <4> HIDE DEF x, X
      <4> QED BY <3>1, <4>1, <4>2, <4>3 DEF AtMostOne
    <3>3. CASE i \notin {f, t}
      <4>1. x \in Elements(plan.nets[k].nodes)
        <5> SUFFICES ASSUME x \notin Elements(plan.nets[k].nodes) PROVE FALSE
          OBVIOUS
        <5>1. x \in {plan.pins[f].id, plan.pins[t].id}
          BY <2>1, <2>9, <3>1
        <5>2. PICK g \in {f, t} : plan.pins[g].id = x /\ g \in 1..Len(d.pins)
          BY <2>6, <2>7, <3>1, <5>1
        <5>3. i \in 1..Len(d.pins)
          <6>1. ~(i > Len(d.pins)) /\ Len(plan.pins) \in Nat
            BY <1>1, <3>1, Lengths DEF Rooted, Placed
          <6> QED BY <1>1, <3>1, <6>1
        <5>4. d.pins[i].id = d.pins[g].id
          BY <1>1, <3>1, <5>2, <5>3
        <5> HIDE DEF x
        <5>5. i = g
          BY <1>1, <5>2, <5>3, <5>4, IdsAssumption
        <5> QED BY <3>3, <5>2, <5>5
      <4>2. plan.pins[i].net = plan.nets[k].name
        BY <3>1, <4>1 DEF Rooted, Placed
      <4> QED BY <2>1, <2>5, <3>1, <3>3, <4>2
    <3> QED BY <3>2, <3>3
  <2>10. \A i \in 1..Len(q.pins) : i > Len(d.pins) => q.pins[i].id \notin PinIds(d)
    BY <2>1, <2>4 DEF Rooted, Placed
  <2>11. Placed(d, q)
    BY <2>8, <2>9, <2>10 DEF Placed
  <2>12. \A i \in 1..Len(q.comps) : q.comps[i] = plan.comps[i]
    BY <2>1 DEF Grown, Grows, PartsGrow
  <2>13. Grown(PlanOf(d), q)
    BY <2>1, PlanOfIs, GrownOn DEF Rooted
  <2>14. Checked(d, q)
    <3>1. \A i \in 1..Len(d.pins) : q.pins[i].net # plan.pins[i].net => ~Unwired(q, d.pins[i].id)
      <4> TAKE i \in 1..Len(d.pins)
      <4> SUFFICES ASSUME q.pins[i].net # plan.pins[i].net PROVE ~Unwired(q, d.pins[i].id)
        OBVIOUS
      <4>1. i \in {f, t} /\ plan.pins[i].id = d.pins[i].id
        BY <1>1, <2>1
      <4>2. d.pins[i].id \in Elements(q.nets[n].nodes) /\ n \in DOMAIN q.nets
        BY <2>1, <4>1, Lengths DEF Grown
      <4> QED BY <4>2 DEF Unwired, HasPin
    <3> QED BY <1>1, <2>1, <3>1, CheckedStays DEF Rooted
  <2>15. Rooted(d, q)
    BY <2>1, <2>11, <2>12, <2>13, <2>14 DEF Rooted
  <2> QED BY <2>15 DEF q, r
<1> QED BY <1>2, <1>3

LEMMA UpTo == ASSUME NEW n \in Nat PROVE IsFiniteSet(1..n) /\ Cardinality(1..n) = n
<1>1. IsFiniteSet(1..n) /\ Cardinality(1..n) = IF 1 > n THEN 0 ELSE n - 1 + 1
  <2>1. 1 \in Int /\ n \in Int
    OBVIOUS
  <2> QED BY <2>1, FS_Interval
<1> QED BY <1>1

\* There is a next connector as long as there are fewer components.
LEMMA NextConnectorIs ==
  ASSUME NEW plan, IsPlan(plan), Len(plan.comps) < Len(Connectors)
  PROVE  NextConnector(plan) \in Elements(Connectors)
<1> DEFINE free(j) == \A i \in DOMAIN plan.comps : plan.comps[i].ref # j
           hits == {k \in DOMAIN Connectors : free(Connectors[k])}
           c == First(Connectors, LAMBDA j : \A i \in DOMAIN plan.comps : plan.comps[i].ref # j)
           taken == [k \in 1..Len(Connectors) |-> CHOOSE i \in 1..Len(plan.comps) : plan.comps[i].ref = Connectors[k]]
<1>1. /\ Len(Connectors) \in Nat /\ DOMAIN Connectors = 1..Len(Connectors)
      /\ Len(plan.comps) \in Nat /\ DOMAIN plan.comps = 1..Len(plan.comps)
      /\ \A i, j \in DOMAIN Connectors : Connectors[i] = Connectors[j] => i = j
  BY Lengths, ConnectorsAssumption
<1>2. c = IF hits = {} THEN 0 ELSE Least(hits)
  BY DEF First, Least
<1>3. hits # {}
  <2> SUFFICES ASSUME \A k \in 1..Len(Connectors) : \E i \in 1..Len(plan.comps) : plan.comps[i].ref = Connectors[k]
               PROVE  FALSE
    BY <1>1
  <2>1. \A k \in 1..Len(Connectors) : taken[k] \in 1..Len(plan.comps) /\ plan.comps[taken[k]].ref = Connectors[k]
    OBVIOUS
  <2>2. taken \in [1..Len(Connectors) -> 1..Len(plan.comps)]
    BY <2>1
  <2> DEFINE x == Len(Connectors)
             y == Len(plan.comps)
             S == 1..x
             T == 1..y
  <2>3. taken \in [S -> T] /\ x \in Nat /\ y \in Nat /\ y < x
    BY <1>1, <2>2
  <2> HIDE DEF taken, x, y
  <2>4. IsFiniteSet(S) /\ Cardinality(S) = x
    BY <2>3, UpTo
  <2>5. IsFiniteSet(T) /\ Cardinality(T) = y
    BY <2>3, UpTo
  <2>6. Cardinality(T) < Cardinality(S)
    BY <2>3, <2>4, <2>5
  <2> HIDE DEF S, T
  <2>7. PICK k, m \in S : k # m /\ taken[k] = taken[m]
    BY <2>3, <2>4, <2>5, <2>6, FS_PigeonHole
  <2> QED BY <1>1, <2>1, <2>7 DEF S, x
<1>4. hits \in SUBSET Nat
  BY <1>1
<1> HIDE DEF c
<1>5. c \in DOMAIN Connectors
  <2>1. hits \subseteq DOMAIN Connectors
    OBVIOUS
  <2> HIDE DEF hits
  <2> QED BY <1>2, <1>3, <1>4, <2>1, LeastIs
<1>6. NextConnector(plan) = Connectors[c]
  BY DEF NextConnector, c
<1> QED BY <1>5, <1>6 DEF Elements

\* A header touches no pin of the design.
LEMMA AddHeaderRooted ==
  ASSUME NEW d \in Designs, NEW plan, Rooted(d, plan), NEW net, RepairName[net.name] \in NetNames(d), NEW ground,
         Len(plan.comps) < Len(Connectors)
  PROVE  Rooted(d, AddHeader(plan, net, ground)) /\ Len(AddHeader(plan, net, ground).comps) = Len(plan.comps) + 1
<1> DEFINE q == AddHeader(plan, net, ground)
           ref == NextConnector(plan)
           new == {HeaderPin(ref, "1"), HeaderPin(ref, "2")}
<1>1. IsPlan(plan) /\ Len(plan.comps) \in Nat /\ Len(plan.nets) \in Nat
  BY RootedIs, Lengths
<1>2. /\ Grown(plan, q) /\ Len(q.nets) = Len(plan.nets)
      /\ Len(q.comps) = Len(plan.comps) + 1 /\ q.comps[Len(plan.comps) + 1].id = Header(ref)
      /\ \A i \in 1..Len(plan.nets) : Elements(q.nets[i].nodes) \subseteq Elements(plan.nets[i].nodes) \cup new
      /\ \A i \in 1..Len(plan.pins) : q.pins[i] = plan.pins[i]
      /\ \A i \in 1..Len(q.pins) : i > Len(plan.pins) => q.pins[i].id \in new
  <2>1. Grown(plan, q) /\ Len(q.nets) = Len(plan.nets)
        /\ Len(q.comps) = Len(plan.comps) + 1 /\ q.comps[Len(plan.comps) + 1].id = Header(ref)
    BY <1>1, AddHeaderGrows
  <2>2. \A i \in 1..Len(plan.nets) : Elements(q.nets[i].nodes) \subseteq Elements(plan.nets[i].nodes) \cup new
    BY <1>1, AddHeaderGrows
  <2>3. /\ \A i \in 1..Len(plan.pins) : q.pins[i] = plan.pins[i]
        /\ \A i \in 1..Len(q.pins) : i > Len(plan.pins) => q.pins[i].id \in new
    BY <1>1, AddHeaderGrows
  <2> HIDE DEF q, ref, new
  <2> QED BY <2>1, <2>2, <2>3
<1>3. ref \in Elements(Connectors)
  BY <1>1, NextConnectorIs
<1> DEFINE id == Header(ref)
<1>10. /\ plan.expected \subseteq q.expected
       /\ \A e \in q.expected \ plan.expected : e.comp = id /\ e.name \in {"1", "2"}
       /\ \A i \in 1..Len(q.pins) : i > Len(plan.pins) =>
            q.pins[i].comp = id /\ "name" \in DOMAIN q.pins[i] /\ q.pins[i].name \in {RepairName[net.name], "GND"}
  BY <1>1, AddHeaderNames
<1> HIDE DEF q
<1>11. Checked(d, q)
  <2>1. id = Header(ref) /\ \E r \in Elements(Connectors) : id = Header(r)
    BY <1>3
  <2> HIDE DEF id, ref, new
  <2>2. /\ Len(d.pins) \in Nat /\ Len(plan.pins) \in Nat /\ Len(q.pins) \in Nat
        /\ \A i \in 1..Len(d.pins) : i \in 1..Len(plan.pins)
    BY <1>1, <1>2, RootedIs, Lengths DEF Grown
  <2>3. \A e \in q.expected \ ExpectedNets(d) : e.name \in {"1", "2"} /\ \E r \in Elements(Connectors) : e.comp = Header(r)
    BY <1>10, <2>1 DEF Rooted, Checked
  <2>4. ASSUME NEW i \in 1..Len(q.pins), i > Len(d.pins)
        PROVE  /\ "name" \in DOMAIN q.pins[i] /\ q.pins[i].name \in NetNames(d) \cup {"GND"}
               /\ \E r \in Elements(Connectors) : q.pins[i].comp = Header(r)
    <3>1. CASE i > Len(plan.pins)
      BY <1>10, <2>1, <3>1
    <3>2. CASE ~(i > Len(plan.pins))
      <4>1. i \in 1..Len(plan.pins) /\ q.pins[i] = plan.pins[i]
        BY <1>2, <2>2, <3>2
      <4> QED BY <2>4, <4>1 DEF Rooted, Checked
    <3> QED BY <3>1, <3>2
  <2>5. ASSUME NEW i \in 1..Len(d.pins), q.pins[i].net # NoNet
        PROVE  Listed(d, d.pins[i].id) # {} \/ ~Unwired(q, d.pins[i].id)
    <3>1. q.pins[i] = plan.pins[i]
      BY <1>2, <2>2
    <3> QED BY <1>1, <1>2, <2>5, <3>1, UnwiredWas DEF Rooted, Checked
  <2> QED BY <1>10, <2>3, <2>4, <2>5 DEF Rooted, Checked
<1> HIDE DEF ref
<1>4. new \cap PinIds(d) = {}
  BY <1>3, NewIdsAssumption DEF PinIds
<1> HIDE DEF new
<1>5. Aside(d, plan, q)
  <2>1. \A i \in 1..Len(q.nets) : i <= Len(plan.nets) /\ Elements(q.nets[i].nodes) \cap PinIds(d) \subseteq Elements(plan.nets[i].nodes)
    BY <1>1, <1>2, <1>4
  <2>2. \A i \in 1..Len(q.pins) : i > Len(plan.pins) => q.pins[i].id \notin PinIds(d)
    BY <1>2, <1>4
  <2> QED BY <1>2, <2>1, <2>2 DEF Aside
<1>6. Placed(d, q)
  BY <1>1, <1>2, <1>5, PlacedStays DEF Rooted
<1>7. \A i \in 1..Len(q.comps) : i > Len(d.comps) => \E j \in Elements(Connectors) : q.comps[i].id = Header(j)
  <2> TAKE i \in 1..Len(q.comps)
  <2>1. CASE i = Len(plan.comps) + 1
    BY <1>2, <1>3, <2>1
  <2>2. CASE i # Len(plan.comps) + 1
    <3>1. i \in 1..Len(plan.comps)
      BY <1>1, <1>2, <2>2
    <3>2. q.comps[i] = plan.comps[i]
      BY <1>2, <3>1 DEF Grown, Grows, PartsGrow
    <3> QED BY <3>1, <3>2 DEF Rooted
  <2> QED BY <2>1, <2>2
<1>8. Grown(PlanOf(d), q)
  BY <1>2, PlanOfIs, GrownOn DEF Rooted
<1>9. Rooted(d, q)
  BY <1>2, <1>6, <1>7, <1>8, <1>11 DEF Rooted
<1> QED BY <1>2, <1>9 DEF q

\* So does a repair keep to what is asked: what is required ...
HasRooted(c, k, a) == Rooted(c.d, a.plan) /\ Len(a.plan.comps) = c.comps
Rooting == INSTANCE FoldRule WITH Op <- BackfillOne, Keeps <- HasRooted
LEMMA BackfillRequiredRooted ==
  ASSUME NEW d \in Designs, Agreed(d), NEW plan, Rooted(d, plan)
  PROVE  LET q == BackfillRequired(plan).plan IN Rooted(d, q) /\ Len(q.comps) = Len(plan.comps)
<1> DEFINE base == [plan |-> plan, changed |-> FALSE]
           list == plan.required
           c == [d |-> d, comps |-> Len(plan.comps)]
<1>1. BackfillRequired(plan) = Rooting!Folded(c, base, list)
  BY DEF BackfillRequired, FoldLeft, MapThenFoldSet, Max, BackfillOne,
         Rooting!Folded, Rooting!FoldLeft, Rooting!MapThenFoldSet, Rooting!Max
<1>2. Len(list) \in Nat /\ DOMAIN list = 1..Len(list) /\ list = d.required
  BY RootedIs, Lengths
<1>3. c.d = d /\ c.comps = Len(plan.comps) /\ base.plan = plan
  OBVIOUS
<1> HIDE DEF c, base
<1>4. HasRooted(c, 0, base)
  BY <1>3 DEF HasRooted
<1>5. ASSUME NEW i \in 1..Len(list), NEW a, HasRooted(c, i - 1, a) PROVE HasRooted(c, i, BackfillOne(c, a, list[i]))
  <2> DEFINE p == a.plan
             r == d.required[i]
             z == Backfill(p, r)
  <2>1. Rooted(d, p) /\ Len(p.comps) = Len(plan.comps) /\ IsPlan(p) /\ i \in 1..Len(d.required)
    BY <1>2, <1>3, <1>5, RootedIs DEF HasRooted
  <2>2. BackfillOne(c, a, list[i]).plan = z
    BY <1>2 DEF BackfillOne
  <2> HIDE DEF p
  <2>3. Rooted(d, z)
    BY <2>1, BackfillRooted
  <2>4. Len(z.comps) = Len(p.comps)
    BY <2>1, BackfillKin DEF Kin
  <2> HIDE DEF z
  <2> QED BY <1>3, <2>1, <2>2, <2>3, <2>4 DEF HasRooted
<1>6. HasRooted(c, Len(list), Rooting!Folded(c, base, list))
  BY <1>2, <1>4, <1>5, Rooting!FoldKeeps
<1> QED BY <1>1, <1>3, <1>6 DEF HasRooted

\* ... and the headers, of which the plan that is generated gets at most one
\* for each net.
HasHeaded(c, k, p) == Rooted(c.d, p) /\ Len(p.comps) <= Len(c.d.comps) + k
Heading == INSTANCE FoldRule WITH Op <- FeedOne, Keeps <- HasHeaded
LEMMA RepairRooted ==
  ASSUME NEW d \in Designs, Agreed(d) PROVE Rooted(d, Repair(PlanOf(d)).plan)
<1> DEFINE plan == PlanOf(d)
           filled == BackfillRequired(plan)
           base == filled.plan
           ground == First(plan.nets, IsGround)
           feed(p, n) == IF Orphan(base, n) THEN AddHeader(p, n, ground) ELSE p
           c == [plan |-> base, ground |-> ground, d |-> d]
           fed == FoldLeft(feed, base, base.nets)
<1>1. Repair(plan).plan = base \/ Repair(plan).plan = fed
  BY DEF Repair
<1>2. fed = Heading!Folded(c, base, base.nets)
  BY DEF FoldLeft, MapThenFoldSet, Max, FeedOne,
         Heading!Folded, Heading!FoldLeft, Heading!MapThenFoldSet, Heading!Max
<1> HIDE DEF fed
<1>3. Rooted(d, plan) /\ plan.comps = d.comps
  BY PlanRooted, PlanOfIs
<1> HIDE DEF plan
<1>4. Rooted(d, base) /\ Len(base.comps) = Len(d.comps)
  BY <1>3, BackfillRequiredRooted
<1> HIDE DEF filled
<1>5. /\ Len(d.comps) \in Nat /\ Len(d.nets) \in Nat /\ Len(Connectors) \in Nat /\ Len(base.nets) = Len(d.nets)
      /\ DOMAIN base.nets = 1..Len(base.nets) /\ Len(d.comps) + Len(d.nets) <= Len(Connectors)
  <2>1. IsPlan(base) /\ Len(d.comps) \in Nat /\ Len(d.nets) \in Nat
    BY <1>4, RootedIs
  <2> HIDE DEF base
  <2>2. DOMAIN base.nets = 1..Len(base.nets) /\ Len(base.nets) = Len(d.nets)
    BY <1>4, <2>1, Lengths DEF Rooted
  <2>3. Connectors \in Seq(Elements(Connectors)) /\ Len(d.comps) + Len(d.nets) <= Len(Connectors)
    BY ConnectorsAssumption
  <2>4. Len(Connectors) \in Nat
    BY <2>3, LenProperties
  <2> QED BY <2>1, <2>2, <2>3, <2>4
<1>6. c.d = d
  OBVIOUS
<1> HIDE DEF c, base, ground
<1>7. HasHeaded(c, 0, base)
  BY <1>4, <1>5, <1>6 DEF HasHeaded
<1>8. ASSUME NEW i \in 1..Len(base.nets), NEW p, HasHeaded(c, i - 1, p) PROVE HasHeaded(c, i, FeedOne(c, p, base.nets[i]))
  <2> DEFINE z == FeedOne(c, p, base.nets[i])
  <2>1. Rooted(d, p) /\ Len(p.comps) <= Len(d.comps) + (i - 1)
    BY <1>6, <1>8 DEF HasHeaded
  <2>2. Len(p.comps) \in Nat
    BY <2>1, RootedIs, Lengths
  <2>3. Len(p.comps) < Len(Connectors)
    <3> DEFINE m == Len(p.comps)
               x == Len(d.comps)
               y == Len(d.nets)
               w == Len(Connectors)
    <3>1. m \in Nat /\ x \in Nat /\ y \in Nat /\ w \in Nat /\ i \in 1..y /\ x + y <= w /\ m <= x + (i - 1)
      BY <1>5, <2>1, <2>2
    <3> HIDE DEF m, x, y, w
    <3>2. m < w
      BY <3>1
    <3> QED BY <3>2 DEF m, w
  <2>4. \/ z = p
        \/ z = AddHeader(p, base.nets[i], c.ground)
    BY DEF FeedOne
  <2>5. Rooted(d, z) /\ (Len(z.comps) = Len(p.comps) \/ Len(z.comps) = Len(p.comps) + 1)
    <3>1. RepairName[base.nets[i].name] \in NetNames(d)
      BY <1>4, RootedIs
    <3> QED BY <2>1, <2>3, <2>4, <3>1, AddHeaderRooted
  <2> HIDE DEF z
  <2>6. Len(z.comps) <= Len(d.comps) + i
    BY <1>5, <2>1, <2>2, <2>5
  <2> QED BY <1>6, <2>5, <2>6 DEF HasHeaded, z
<1>9. Rooted(d, fed)
  BY <1>2, <1>5, <1>6, <1>7, <1>8, Heading!FoldKeeps DEF HasHeaded
<1> QED BY <1>1, <1>4, <1>9 DEF plan

\* The plan of a draft keeps to what its design and the guidance ask for.
PlacedInv == PowerInv /\ (draftPlan # <<>> /\ Agreed(design) => Rooted(design, draftPlan))

LEMMA PlacedStep == PlacedInv /\ [WiringNext]_wiringVars => PlacedInv'
<1> SUFFICES ASSUME PlacedInv, [WiringNext]_wiringVars PROVE PlacedInv'
  OBVIOUS
<1>0. PowerInv /\ PowerInv' /\ design' = design
  BY PowerStep DEF PlacedInv, WiringNext, GeneratePlan, RepairPlan, ApplyPlan, wiringVars
<1>1. design \in Designs
  BY <1>0 DEF PowerInv, WiringInv
<1>2. CASE GeneratePlan
  <2>1. draftPlan' = Repair(PlanOf(design)).plan
    BY <1>2 DEF GeneratePlan
  <2>2. Agreed(design) => Rooted(design, draftPlan')
    BY <1>1, <2>1, RepairRooted
  <2>3. Agreed(design) => Rooted(design', draftPlan')
    BY <1>0, <2>2
  <2> QED BY <1>0, <2>3 DEF PlacedInv
<1>3. CASE RepairPlan
  <2>1. draftPlan # <<>> /\ draftPlan' = Repair(draftPlan).plan
    BY <1>3 DEF RepairPlan
  <2>2. IsPlan(draftPlan) /\ DistinctIds(draftPlan) /\ Fed(draftPlan)
    BY <1>0, <2>1 DEF PowerInv, WiringInv, Sound, Grown
  <2>3. draftPlan' = BackfillRequired(draftPlan).plan
    <3>1. Repair(draftPlan) = BackfillRequired(draftPlan)
      BY <2>2, RepairFeeds
    <3> QED BY <2>1, <3>1
  <2>4. Agreed(design) => Rooted(design, draftPlan')
    <3> SUFFICES ASSUME Agreed(design) PROVE Rooted(design, draftPlan')
      OBVIOUS
    <3>1. Rooted(design, draftPlan)
      BY <2>1 DEF PlacedInv
    <3> QED BY <1>1, <2>3, <3>1, BackfillRequiredRooted
  <2> QED BY <1>0, <2>4 DEF PlacedInv
<1>4. CASE ApplyPlan
  BY <1>0, <1>4 DEF ApplyPlan, PlacedInv
<1>5. CASE UNCHANGED wiringVars
  BY <1>0, <1>5 DEF wiringVars, PlacedInv
<1> QED BY <1>2, <1>3, <1>4, <1>5 DEF WiringNext

LEMMA PlacedInvSuffices == PlacedInv => NoShort
<1> SUFFICES ASSUME PlacedInv, draftPlan # <<>>, Agreed(design), NEW p \in PinIds(design)
             PROVE  LET plan == Completed(draftPlan)
                        on == {plan.nets[i].name : i \in {k \in DOMAIN plan.nets : p \in Elements(plan.nets[k].nodes)}}
                        told == {plan.pins[i].net : i \in {k \in DOMAIN plan.pins : plan.pins[k].id = p}}
                    IN /\ on \subseteq Listed(design, p) \cup RequiredOn(design, p)
                       /\ on # {} => told = on
  BY DEF NoShort
<1> DEFINE plan == Completed(draftPlan)
           on == {plan.nets[i].name : i \in {k \in DOMAIN plan.nets : p \in Elements(plan.nets[k].nodes)}}
           told == {plan.pins[i].net : i \in {k \in DOMAIN plan.pins : plan.pins[k].id = p}}
<1>1. design \in Designs /\ Rooted(design, draftPlan)
  BY DEF PlacedInv, PowerInv, WiringInv
<1>2. /\ IsPlan(draftPlan) /\ DOMAIN design.pins = 1..Len(design.pins) /\ Len(draftPlan.pins) \in Nat
      /\ \A i \in 1..Len(design.pins) : i \in 1..Len(draftPlan.pins) /\ draftPlan.pins[i].id = design.pins[i].id
  BY <1>1, RootedIs, Lengths
<1>3. Follows(draftPlan, plan)
  BY <1>2, CompletedGrows
<1> HIDE DEF plan
<1>4. /\ IsPlan(plan) /\ PartsGrow(draftPlan, plan) /\ Placed(design, plan)
      /\ DOMAIN plan.nets = 1..Len(plan.nets) /\ DOMAIN plan.pins = 1..Len(plan.pins) /\ Len(plan.pins) \in Nat
  BY <1>1, <1>3, Lengths DEF Follows, Grown, Grows, Rooted
<1>5. \A k \in 1..Len(plan.nets) : p \in Elements(plan.nets[k].nodes) => plan.nets[k].name \in Asked(design, p)
  BY <1>4 DEF Placed
<1>6. \A i \in 1..Len(plan.pins), k \in 1..Len(plan.nets) :
        plan.pins[i].id = p /\ p \in Elements(plan.nets[k].nodes) => plan.pins[i].net = plan.nets[k].name
  BY <1>4 DEF Placed
<1>7. PICK g \in 1..Len(design.pins) : design.pins[g].id = p
  BY <1>2 DEF PinIds
<1>8. g \in 1..Len(plan.pins) /\ plan.pins[g].id = p
  BY <1>2, <1>4, <1>7 DEF PartsGrow, SamePin
<1>9. on \subseteq Listed(design, p) \cup RequiredOn(design, p)
  BY <1>4, <1>5 DEF Asked
<1>10. on # {} => told = on
  BY <1>4, <1>6, <1>8
<1> HIDE DEF on, told
<1> QED BY <1>9, <1>10 DEF on, told, plan

\* Where the design and the guidance agree, no pin of the design gets onto two
\* nets, or onto another one than asked for, and what the plan says of a pin is
\* the net that lists it: through the merging of the names, the repairs with
\* their headers, and the parts that the completion adds.
THEOREM NoShortHolds == WiringSpec => []NoShort
<1>1. WiringInit => PlacedInv
  <2>1. IsSeq(<<>>)
    BY DEF IsSeq, Elements
  <2> QED BY <2>1 DEF WiringInit, WiringInv, PowerInv, PlacedInv
<1> QED BY <1>1, PlacedStep, PlacedInvSuffices, PTL DEF WiringSpec
----------------------------------------------------------------------------
\* The rule checks tell of the plan's wires what is so.

LEMMA GreatestIs ==
  ASSUME NEW n \in Nat, NEW hits \in SUBSET (1..n), hits # {}
  PROVE  \E i \in hits : \A j \in hits : j <= i
<1> DEFINE above == {m \in Nat : \A j \in hits : j <= m}
<1>1. n \in above /\ above \in SUBSET Nat
  OBVIOUS
<1>2. Least(above) \in above /\ \A m \in above : Least(above) <= m
  <2> HIDE DEF above
  <2> QED BY <1>1, LeastIs
<1> DEFINE g == Least(above)
<1>3. g \in Nat /\ \A j \in hits : j <= g
  BY <1>2
<1>4. \A m \in Nat : (\A j \in hits : j <= m) => g <= m
  BY <1>2
<1> HIDE DEF g
<1>5. g \in hits
  <2> SUFFICES ASSUME g \notin hits PROVE FALSE
    OBVIOUS
  <2>1. PICK x \in hits : TRUE
    OBVIOUS
  <2>2. x \in Nat /\ x # 0 /\ x <= g
    BY <1>3
  <2>3. g - 1 \in Nat
    BY <1>3, <2>2
  <2>4. \A j \in hits : j <= g - 1
    <3> TAKE j \in hits
    <3>1. j \in Nat /\ j <= g /\ j # g
      BY <1>3
    <3> QED BY <1>3, <3>1
  <2>5. g <= g - 1
    BY <1>4, <2>3, <2>4
  <2> QED BY <1>3, <2>5
<1> QED BY <1>3, <1>5

\* A pin of the design expects what its connections say, and a header's pin
\* expects nothing that the checks find.
LEMMA ExpectedIs ==
  ASSUME NEW d \in Designs, NEW plan, Rooted(d, plan), ToldApart(d), NEW i \in 1..Len(plan.pins)
  PROVE  /\ i \in 1..Len(d.pins) => Expected(plan, plan.pins[i]) \subseteq Listed(d, d.pins[i].id)
         /\ i \notin 1..Len(d.pins) => Expected(plan, plan.pins[i]) = {}
<1>1. /\ IsPlan(plan) /\ PartsGrow(d, plan) /\ Len(d.pins) \in Nat /\ DOMAIN d.pins = 1..Len(d.pins) /\ Len(plan.pins) \in Nat
      /\ Checked(d, plan)
  BY RootedIs, Lengths DEF Rooted
<1> DEFINE x == plan.pins[i]
<1>2. ASSUME NEW e \in ExpectedNets(d)
      PROVE  \E k \in 1..Len(d.pins) : /\ e.comp = d.pins[k].comp /\ e.name = PropertyName[d.pins[k].name]
                                       /\ e.net \in Listed(d, d.pins[k].id)
  <2>1. PICK y \in [pin : Elements(d.pins), by : DOMAIN d.conns] :
           /\ \E q \in Elements(d.pins) : /\ y.pin.comp = q.comp /\ PropertyName[y.pin.name] = PropertyName[q.name]
                                          /\ q.id \in Elements(d.conns[y.by].pins)
           /\ e = [comp |-> y.pin.comp, name |-> PropertyName[y.pin.name], net |-> SpecName[d.conns[y.by].net]]
    BY DEF ExpectedNets
  <2>2. PICK q \in Elements(d.pins) : /\ y.pin.comp = q.comp /\ PropertyName[y.pin.name] = PropertyName[q.name]
                                      /\ q.id \in Elements(d.conns[y.by].pins)
    BY <2>1
  <2>3. PICK k \in 1..Len(d.pins) : d.pins[k] = q
    BY <1>1 DEF Elements
  <2>4. e.comp = q.comp /\ e.name = PropertyName[q.name] /\ e.net = SpecName[d.conns[y.by].net] /\ y.by \in DOMAIN d.conns
    BY <2>1, <2>2
  <2>5. e.net \in Listed(d, q.id)
    BY <2>2, <2>4 DEF Listed
  <2> QED BY <2>3, <2>4, <2>5
<1>3. ASSUME i \in 1..Len(d.pins), NEW e \in plan.expected, e.comp = x.comp, e.name = x.name
      PROVE  e.net \in Listed(d, d.pins[i].id)
  <2>1. i \in DOMAIN d.pins /\ SamePin(d.pins[i], x)
    BY <1>1, <1>3 DEF PartsGrow
  <2>2. "name" \in DOMAIN d.pins[i] /\ d.pins[i] \in Elements(d.pins)
    <3>1. d.pins[i] \in [id : STRING, comp : STRING, name : STRING, labels : SUBSET STRING, source : BOOLEAN]
      BY <1>3, DesignsAssumption, ElementOfSeq
    <3> QED BY <2>1, <3>1 DEF Elements
  <2>3. x.comp = d.pins[i].comp /\ x.name = d.pins[i].name
    BY <2>1, <2>2 DEF SamePin, SameName
  <2>4. e \in ExpectedNets(d)
    <3> SUFFICES ASSUME e \notin ExpectedNets(d) PROVE FALSE
      OBVIOUS
    <3>1. PICK r \in Elements(Connectors) : e.comp = Header(r)
      BY <1>1, <1>3 DEF Checked
    <3> QED BY <1>3, <2>1, <2>3, <3>1, NewIdsAssumption
  <2>5. PICK k \in 1..Len(d.pins) : /\ e.comp = d.pins[k].comp /\ e.name = PropertyName[d.pins[k].name]
                                    /\ e.net \in Listed(d, d.pins[k].id)
    BY <1>2, <2>4
  <2>6. d.pins[k] \in Elements(d.pins)
    BY <1>1 DEF Elements
  <2>7. d.pins[k].comp = d.pins[i].comp /\ PropertyName[d.pins[k].name] = d.pins[i].name
    BY <1>3, <2>3, <2>5
  <2>8. Listed(d, d.pins[k].id) \subseteq Listed(d, d.pins[i].id)
    BY <2>2, <2>6, <2>7 DEF ToldApart
  <2> QED BY <2>5, <2>8
<1>4. ASSUME i \notin 1..Len(d.pins), NEW e \in plan.expected, e.comp = x.comp, e.name = x.name PROVE FALSE
  <2>1. i > Len(d.pins)
    BY <1>1, <1>4
  <2>2. x.name \in NetNames(d) \cup {"GND"} /\ \E r \in Elements(Connectors) : x.comp = Header(r)
    BY <1>1, <2>1 DEF Checked
  <2>3. PICK r \in Elements(Connectors) : x.comp = Header(r)
    BY <2>2
  <2>4. e.name \notin {"1", "2"}
    BY <1>4, <2>2 DEF ToldApart
  <2>5. e \in ExpectedNets(d)
    BY <1>1, <2>4 DEF Checked
  <2>6. PICK k \in 1..Len(d.pins) : e.comp = d.pins[k].comp
    BY <1>2, <2>5
  <2> QED BY <1>1, <1>4, <2>3, <2>6, NewIdsAssumption
<1> HIDE DEF x
<1>5. i \in 1..Len(d.pins) => Expected(plan, x) \subseteq Listed(d, d.pins[i].id)
  BY <1>3 DEF Expected
<1>6. i \notin 1..Len(d.pins) => Expected(plan, x) = {}
  BY <1>4 DEF Expected
<1> QED BY <1>5, <1>6 DEF x

\* So a pin that expects a net expects that of every list that has the pin.
LEMMA ExpectedHere ==
  ASSUME NEW d \in Designs, Agreed(d), NEW plan, Rooted(d, plan), ToldApart(d),
         NEW i \in 1..Len(plan.pins), NEW e \in Expected(plan, plan.pins[i]),
         NEW k \in 1..Len(plan.nets), plan.pins[i].id \in Elements(plan.nets[k].nodes)
  PROVE  e = plan.nets[k].name
<1> DEFINE x == plan.pins[i].id
<1>1. i \in 1..Len(d.pins) /\ e \in Listed(d, d.pins[i].id)
  BY ExpectedIs
<1>2. x = d.pins[i].id /\ x \in PinIds(d)
  BY <1>1, RootedIs DEF PinIds
<1> HIDE DEF x
<1>3. plan.nets[k].name \in Asked(d, x)
  BY <1>2 DEF Rooted, Placed, x
<1>4. AtMostOne(Asked(d, x))
  BY <1>2 DEF Agreed, Asked
<1>5. e \in Asked(d, x)
  BY <1>1, <1>2 DEF Asked
<1> QED BY <1>3, <1>4, <1>5 DEF AtMostOne

\* The net that a check takes a pin to be on lists it.
LEMMA ActualNetIs ==
  ASSUME NEW plan, IsPlan(plan), NEW x
  PROVE  /\ Unwired(plan, x) => ActualNet(plan, x) = NoNet
         /\ ~Unwired(plan, x) => \E k \in 1..Len(plan.nets) : x \in Elements(plan.nets[k].nodes) /\ ActualNet(plan, x) = plan.nets[k].name
<1> DEFINE on == {i \in DOMAIN plan.nets : HasPin(plan.nets[i], x)}
           k == CHOOSE i \in on : \A j \in on : j <= i
<1>1. ActualNet(plan, x) = IF on = {} THEN NoNet ELSE plan.nets[k].name
  BY DEF ActualNet
<1>2. on \in SUBSET (1..Len(plan.nets)) /\ Len(plan.nets) \in Nat
  BY Lengths
<1>3. on = {} <=> Unwired(plan, x)
  BY DEF Unwired
<1>4. on # {} => k \in on
  <2> HIDE DEF on
  <2> QED BY <1>2, GreatestIs
<1>5. \A i \in on : x \in Elements(plan.nets[i].nodes)
  BY DEF HasPin
<1> HIDE DEF on, k
<1> QED BY <1>1, <1>2, <1>3, <1>4, <1>5

\* A pin of the design with a name that is looked up expects a net if a
\* connection lists it.
LEMMA ExpectedSome ==
  ASSUME NEW d \in Designs, NEW plan, Rooted(d, plan), NEW i \in 1..Len(d.pins),
         Listed(d, d.pins[i].id) # {}, PropertyName[d.pins[i].name] = d.pins[i].name
  PROVE  Expected(plan, plan.pins[i]) # {}
<1> DEFINE p == d.pins[i]
           lists(k) == \E q \in Elements(d.pins) : /\ p.comp = q.comp /\ PropertyName[p.name] = PropertyName[q.name]
                                                   /\ q.id \in Elements(d.conns[k].pins)
           hits == {k \in DOMAIN d.conns : lists(k)}
<1>1. Len(d.conns) \in Nat /\ DOMAIN d.conns = 1..Len(d.conns) /\ DOMAIN d.pins = 1..Len(d.pins)
  BY DesignsAssumption, RootedIs
<1>2. hits # {} /\ hits \in SUBSET (1..Len(d.conns))
  <2>1. p \in Elements(d.pins)
    BY <1>1 DEF Elements
  <2>2. PICK k \in DOMAIN d.conns : p.id \in Elements(d.conns[k].pins)
    BY DEF Listed
  <2> QED BY <1>1, <2>1, <2>2
<1>3. PICK k \in hits : \A j \in hits : j <= k
  <2> HIDE DEF hits
  <2> QED BY <1>1, <1>2, GreatestIs
<1> DEFINE e == [comp |-> p.comp, name |-> PropertyName[p.name], net |-> SpecName[d.conns[k].net]]
           y == [pin |-> p, by |-> k]
<1>4. y \in [pin : Elements(d.pins), by : DOMAIN d.conns] /\ y.pin = p /\ y.by = k
  BY <1>1 DEF Elements
<1>5. lists(k) /\ \A j \in DOMAIN d.conns : lists(j) => j <= k
  BY <1>3
<1> HIDE DEF y
<1>6. e \in ExpectedNets(d)
  BY <1>4, <1>5 DEF ExpectedNets
<1>7. e.comp = p.comp /\ e.name = p.name
  OBVIOUS
<1>8. plan.pins[i].comp = p.comp /\ plan.pins[i].name = p.name
  <2>1. SamePin(p, plan.pins[i])
    BY RootedIs DEF PartsGrow
  <2>2. "name" \in DOMAIN p
    <3>1. p \in [id : STRING, comp : STRING, name : STRING, labels : SUBSET STRING, source : BOOLEAN]
      BY DesignsAssumption, ElementOfSeq
    <3> QED BY <3>1
  <2> QED BY <2>1, <2>2 DEF SamePin, SameName
<1>9. e \in plan.expected
  BY <1>6 DEF Rooted, Checked
<1> HIDE DEF e, p
<1> QED BY <1>7, <1>8, <1>9 DEF Expected
\* Which pins the checks tell of.
LEMMA NoFalseAlarm ==
  ASSUME NEW d \in Designs, Agreed(d), NEW plan, Rooted(d, plan), ToldApart(d)
  PROVE  WrongNet(plan) = {} /\ ShortCircuit(plan) = {} /\ PowerConflict(plan) = {}
<1>1. /\ IsPlan(plan) /\ DOMAIN plan.nets = 1..Len(plan.nets) /\ DOMAIN plan.pins = 1..Len(plan.pins)
      /\ \A k \in 1..Len(plan.nets) : plan.nets[k].name # NoNet
  BY RootedIs, Lengths
<1>2. \A i \in 1..Len(plan.pins) : \A e \in Expected(plan, plan.pins[i]) : \A k \in 1..Len(plan.nets) :
        plan.pins[i].id \in Elements(plan.nets[k].nodes) => e = plan.nets[k].name
  BY ExpectedHere
<1>3. WrongNet(plan) = {}
  <2> SUFFICES ASSUME NEW x \in Elements(plan.pins), Expected(plan, x) # {},
                      ActualNet(plan, x.id) \notin {NoNet} \cup Expected(plan, x)
               PROVE  FALSE
    BY DEF WrongNet
  <2>1. PICK i \in 1..Len(plan.pins) : plan.pins[i] = x
    BY <1>1 DEF Elements
  <2>2. PICK e \in Expected(plan, x) : TRUE
    OBVIOUS
  <2>3. ~Unwired(plan, x.id)
    BY <1>1, ActualNetIs
  <2>4. PICK k \in 1..Len(plan.nets) : x.id \in Elements(plan.nets[k].nodes) /\ ActualNet(plan, x.id) = plan.nets[k].name
    BY <1>1, <2>3, ActualNetIs
  <2>5. e = ActualNet(plan, x.id)
    BY <1>2, <2>1, <2>2, <2>4
  <2> QED BY <2>2, <2>5
<1>4. ASSUME NEW k \in DOMAIN plan.nets PROVE ExpectedOn(plan, plan.nets[k]) \subseteq {plan.nets[k].name}
  <2> SUFFICES ASSUME NEW x \in Elements(plan.pins), HasPin(plan.nets[k], x.id), NEW e \in Expected(plan, x)
               PROVE  e = plan.nets[k].name
    BY DEF ExpectedOn
  <2>1. PICK i \in 1..Len(plan.pins) : plan.pins[i] = x
    BY <1>1 DEF Elements
  <2> QED BY <1>1, <1>2, <2>1 DEF HasPin
<1>5. ASSUME NEW k \in DOMAIN plan.nets PROVE ~(Cardinality(ExpectedOn(plan, plan.nets[k])) >= 2)
  <2> DEFINE S == ExpectedOn(plan, plan.nets[k])
             T == {plan.nets[k].name}
  <2>1. S = {} \/ S = T
    BY <1>4
  <2>2. Cardinality(T) = 1
    BY FS_Singleton
  <2> HIDE DEF S, T
  <2>3. Cardinality(S) = 0 \/ Cardinality(S) = 1
    BY <2>1, <2>2, FS_EmptySet
  <2>4. ~(Cardinality(S) >= 2)
    BY <2>3
  <2> QED BY <2>4 DEF S
<1>6. ShortCircuit(plan) = {}
  BY <1>5 DEF ShortCircuit
<1>7. PowerConflict(plan) = {}
  BY <1>4 DEF PowerConflict
<1> QED BY <1>3, <1>6, <1>7

LEMMA ToldIsLost ==
  ASSUME NEW d \in Designs, NEW plan, Rooted(d, plan), NEW p \in PinIds(d), p \in MissingNet(plan) \cup FloatingPin(plan)
  PROVE  Unwired(plan, p)
<1>1. /\ IsPlan(plan) /\ DOMAIN plan.nets = 1..Len(plan.nets) /\ DOMAIN plan.pins = 1..Len(plan.pins)
      /\ \A k \in 1..Len(plan.nets) : plan.nets[k].name # NoNet
  BY RootedIs, Lengths
<1> SUFFICES ASSUME ~Unwired(plan, p) PROVE FALSE
  OBVIOUS
<1>2. ActualNet(plan, p) # NoNet
  BY <1>1, ActualNetIs
<1>3. p \notin MissingNet(plan)
  BY <1>2 DEF MissingNet
<1>4. PICK x \in Elements(plan.pins) : x.id = p /\ (Unwired(plan, p) \/ x.net = NoNet)
  BY <1>3 DEF FloatingPin
<1>5. PICK i \in 1..Len(plan.pins) : plan.pins[i] = x
  BY <1>1 DEF Elements
<1>6. PICK k \in 1..Len(plan.nets) : p \in Elements(plan.nets[k].nodes)
  BY <1>1 DEF Unwired, HasPin
<1>7. plan.pins[i].net = plan.nets[k].name
  BY <1>4, <1>5, <1>6 DEF Rooted, Placed
<1> QED BY <1>1, <1>4, <1>5, <1>7

LEMMA LostIsTold ==
  ASSUME NEW d \in Designs, NEW plan, Rooted(d, plan), NEW p \in Elements(d.pins), Unwired(plan, p.id),
         IF Listed(d, p.id) = {} THEN \E w \in PinIds(d) : ~Unwired(plan, w) ELSE PropertyName[p.name] = p.name
  PROVE  p.id \in MissingNet(plan) \cup FloatingPin(plan)
<1>1. /\ IsPlan(plan) /\ DOMAIN plan.nets = 1..Len(plan.nets) /\ DOMAIN plan.pins = 1..Len(plan.pins)
      /\ DOMAIN d.pins = 1..Len(d.pins) /\ \A k \in 1..Len(plan.nets) : plan.nets[k].name # NoNet
      /\ \A i \in 1..Len(d.pins) : i \in 1..Len(plan.pins) /\ plan.pins[i].id = d.pins[i].id
  BY RootedIs, Lengths
<1>2. PICK i \in 1..Len(d.pins) : d.pins[i] = p
  BY <1>1 DEF Elements
<1> DEFINE x == plan.pins[i]
<1>3. x \in Elements(plan.pins) /\ x.id = p.id
  BY <1>1, <1>2 DEF Elements
<1>4. CASE Listed(d, p.id) # {}
  <2>1. Expected(plan, x) # {}
    BY <1>2, <1>4, ExpectedSome
  <2>2. ActualNet(plan, x.id) = NoNet
    BY <1>1, <1>3, ActualNetIs
  <2> HIDE DEF x
  <2> QED BY <1>3, <2>1, <2>2 DEF MissingNet
<1>5. CASE Listed(d, p.id) = {}
  <2> DEFINE told == {y \in Elements(plan.pins) : y.net # NoNet}
  <2>1. x \notin told
    <3>1. x.net = NoNet
      BY <1>2, <1>5 DEF Rooted, Checked
    <3> QED BY <3>1
  <2>2. told # {}
    <3>1. PICK w \in PinIds(d) : ~Unwired(plan, w)
      BY <1>5
    <3>2. PICK j \in 1..Len(d.pins) : d.pins[j].id = w
      BY <1>1 DEF PinIds
    <3>3. PICK k \in 1..Len(plan.nets) : w \in Elements(plan.nets[k].nodes)
      BY <1>1, <3>1 DEF Unwired, HasPin
    <3>4. j \in 1..Len(plan.pins) /\ plan.pins[j].id = w
      BY <1>1, <3>2
    <3>5. plan.pins[j].net = plan.nets[k].name
      BY <3>3, <3>4 DEF Rooted, Placed
    <3>6. plan.pins[j] \in told
      BY <1>1, <3>4, <3>5 DEF Elements
    <3> QED BY <3>6
  <2> HIDE DEF x
  <2>3. x.id \in FloatingPin(plan)
    BY <1>3, <2>1, <2>2 DEF FloatingPin
  <2> QED BY <1>3, <2>3
<1> QED BY <1>4, <1>5

LEMMA PlacedInvTells == PlacedInv => ChecksTellLoss
<1> SUFFICES ASSUME PlacedInv, draftPlan # <<>>, Agreed(design), ToldApart(design)
             PROVE  LET told == MissingNet(draftPlan) \cup FloatingPin(draftPlan)
                        wired == {p \in PinIds(design) : ~Unwired(draftPlan, p)}
                    IN /\ WrongNet(draftPlan) = {} /\ ShortCircuit(draftPlan) = {} /\ PowerConflict(draftPlan) = {}
                       /\ told \cap wired = {}
                       /\ \A p \in Elements(design.pins) :
                            /\ p.id \notin wired
                            /\ IF Listed(design, p.id) = {} THEN wired # {} ELSE PropertyName[p.name] = p.name
                            => p.id \in told
  BY DEF ChecksTellLoss
<1> DEFINE told == MissingNet(draftPlan) \cup FloatingPin(draftPlan)
           wired == {p \in PinIds(design) : ~Unwired(draftPlan, p)}
<1>1. design \in Designs /\ Rooted(design, draftPlan)
  BY DEF PlacedInv, PowerInv, WiringInv
<1>2. WrongNet(draftPlan) = {} /\ ShortCircuit(draftPlan) = {} /\ PowerConflict(draftPlan) = {}
  BY <1>1, NoFalseAlarm
<1>3. told \cap wired = {}
  BY <1>1, ToldIsLost
<1>4. ASSUME NEW p \in Elements(design.pins), p.id \notin wired,
             IF Listed(design, p.id) = {} THEN wired # {} ELSE PropertyName[p.name] = p.name
      PROVE  p.id \in told
  <2>1. p.id \in PinIds(design)
    BY DEF PinIds, Elements
  <2> QED BY <1>1, <1>4, <2>1, LostIsTold
<1> QED BY <1>2, <1>3, <1>4

\* Where the design and the guidance agree, what the rule checks say of the
\* plan's wires is so: no wrong net, short or power conflict is reported, no pin
\* with a wire is called missing or floating, and those without one are.
THEOREM ChecksTellLossHolds == WiringSpec => []ChecksTellLoss
<1>1. WiringInit => PlacedInv
  <2>1. IsSeq(<<>>)
    BY DEF IsSeq, Elements
  <2> QED BY <2>1 DEF WiringInit, WiringInv, PowerInv, PlacedInv
<1> QED BY <1>1, PlacedStep, PlacedInvTells, PTL DEF WiringSpec
=============================================================================
