------------------------------ MODULE FoldRule ------------------------------
(***************************************************************************)
(* What every step of a fold over a list keeps, the fold keeps.  Op is the *)
(* step, with a context that it reads, and Keeps what is said of the       *)
(* context, of the number of items that are done, and of the value so far. *)
(*                                                                         *)
(* A proof about a fold takes an INSTANCE of this module with its own step *)
(* and its own predicate.                                                  *)
(***************************************************************************)
EXTENDS Integers, SequencesExt, WellFoundedInduction, TLAPS

CONSTANTS Op(_, _, _), Keeps(_, _, _)

Folded(c, base, list) == FoldLeft(LAMBDA x, y : Op(c, x, y), base, list)

\* A set of numbers that is not empty has a least one.
LEMMA LeastNumber ==
  ASSUME NEW T \in SUBSET Nat, T # {}
  PROVE  \E x \in T : \A y \in T : x <= y
<1>1. PICK x \in T : \A y \in T : <<y, x>> \notin OpToRel(<, Nat)
  BY NatLessThanWellFounded, WFMin
<1>2. \A y \in T : ~(y < x)
  BY <1>1 DEF OpToRel
<1> QED BY <1>2

\* The fold over the sets of indices, one index more at a time.
Next1(c, base, list, f, s) == IF s = {} THEN base ELSE Op(c, f[s \ {Max(s)}], list[Max(s)])
Fills(c, base, list, f, n) ==
  /\ f = [s \in SUBSET (1..n) |-> f[s]]
  /\ \A s \in SUBSET (1..n) : f[s] = Next1(c, base, list, f, s)

\* The last of the first n indices is n.
LEMMA MaxOfInterval == ASSUME NEW n \in Nat, n # 0 PROVE Max(1..n) = n
<1>1. \A x \in 1..n : (\A y \in 1..n : x >= y) <=> x = n
  OBVIOUS
<1>2. n \in 1..n
  OBVIOUS
<1> QED BY <1>1, <1>2 DEF Max

\* With index n + 1 in a set, it is the last one, and the others are smaller.
LEMMA MaxOfLarger ==
  ASSUME NEW n \in Nat, NEW s \in SUBSET (1..(n + 1)), n + 1 \in s
  PROVE  Max(s) = n + 1 /\ s \ {Max(s)} \in SUBSET (1..n)
<1>1. \A x \in s : (\A y \in s : x >= y) <=> x = n + 1
  OBVIOUS
<1>2. Max(s) = n + 1
  BY <1>1 DEF Max
<1> QED BY <1>2

\* A set without its last index is within the same bounds.
LEMMA MaxOfSmaller ==
  ASSUME NEW n \in Nat, NEW s \in SUBSET (1..n)
  PROVE  s \ {Max(s)} \in SUBSET (1..n)
OBVIOUS

\* There is a function that the recursion of the fold describes.
LEMMA FillsExist ==
  ASSUME NEW c, NEW base, NEW list, NEW n \in Nat
  PROVE  \E f : Fills(c, base, list, f, n)
<1> DEFINE Up == {k \in Nat : \E f : Fills(c, base, list, f, k)}
           Bad == Nat \ Up
<1>1. 0 \in Up
  <2> DEFINE f == [s \in SUBSET (1..0) |-> base]
  <2>1. SUBSET (1..0) = {{}}
    OBVIOUS
  <2>2. Fills(c, base, list, f, 0)
    BY <2>1 DEF Fills, Next1
  <2> HIDE DEF f
  <2> QED BY <2>2
<1>2. ASSUME NEW k \in Up PROVE k + 1 \in Up
  <2>1. PICK f : Fills(c, base, list, f, k)
    OBVIOUS
  <2> DEFINE g == [s \in SUBSET (1..(k + 1)) |-> IF k + 1 \in s THEN Op(c, f[s \ {k + 1}], list[k + 1]) ELSE f[s]]
  <2>0. SUBSET (1..k) \subseteq SUBSET (1..(k + 1)) /\ k + 1 \notin 1..k
    OBVIOUS
  <2>2. \A s \in SUBSET (1..k) : g[s] = f[s]
    BY <2>0
  <2>3. g = [s \in SUBSET (1..(k + 1)) |-> g[s]]
    OBVIOUS
  <2>4. \A s \in SUBSET (1..(k + 1)) : k + 1 \in s => g[s] = Op(c, f[s \ {k + 1}], list[k + 1])
    OBVIOUS
  <2> HIDE DEF g
  <2>5. ASSUME NEW s \in SUBSET (1..(k + 1)) PROVE g[s] = Next1(c, base, list, g, s)
    <3>1. CASE k + 1 \in s
      <4>1. Max(s) = k + 1 /\ s \ {k + 1} \in SUBSET (1..k) /\ s # {}
        BY <3>1, MaxOfLarger
      <4> QED BY <2>2, <2>4, <3>1, <4>1 DEF Next1
    <3>2. CASE k + 1 \notin s
      <4>1. s \in SUBSET (1..k)
        BY <3>2
      <4>2. s \ {Max(s)} \in SUBSET (1..k)
        BY <4>1
      <4>3. g[s] = f[s] /\ g[s \ {Max(s)}] = f[s \ {Max(s)}]
        BY <2>2, <4>1, <4>2
      <4>4. f[s] = Next1(c, base, list, f, s)
        BY <2>1, <4>1 DEF Fills
      <4> QED BY <4>3, <4>4 DEF Next1
    <3> QED BY <3>1, <3>2
  <2>6. Fills(c, base, list, g, k + 1)
    BY <2>3, <2>5 DEF Fills
  <2> QED BY <2>6
<1> HIDE DEF Up
<1>3. Bad = {}
  <2> SUFFICES ASSUME Bad # {} PROVE FALSE
    OBVIOUS
  <2>1. PICK m \in Bad : \A y \in Bad : m <= y
    <3>1. Bad \in SUBSET Nat
      OBVIOUS
    <3> QED BY <3>1, LeastNumber
  <2>2. m # 0 /\ m - 1 \in Nat /\ m - 1 \notin Bad /\ (m - 1) + 1 = m
    BY <1>1, <2>1
  <2> QED BY <1>2, <2>2
<1>4. n \in Up
  BY <1>3
<1> QED BY <1>4 DEF Up

\* The fold over a list is that function's value for all of its indices.
LEMMA FoldedIs ==
  ASSUME NEW c, NEW base, NEW list, NEW n \in Nat, DOMAIN list = 1..n
  PROVE  \E f : Fills(c, base, list, f, n) /\ Folded(c, base, list) = f[1..n]
<1> DEFINE iter == CHOOSE f : f = [s \in SUBSET (1..n) |-> Next1(c, base, list, f, s)]
<1>1. PICK f : Fills(c, base, list, f, n)
  BY FillsExist
<1>2. f = [s \in SUBSET (1..n) |-> Next1(c, base, list, f, s)]
  BY <1>1 DEF Fills
<1>3. iter = [s \in SUBSET (1..n) |-> Next1(c, base, list, iter, s)]
  BY <1>2
<1>4. Folded(c, base, list) = iter[1..n]
  BY DEF Folded, FoldLeft, MapThenFoldSet, Next1
<1> HIDE DEF iter
<1>5. Fills(c, base, list, iter, n)
  BY <1>3 DEF Fills
<1> QED BY <1>4, <1>5

\* What holds of the value that a fold begins with, and of its value after each
\* item if it held before it, holds of the value that it ends with.
THEOREM FoldKeeps ==
  ASSUME NEW c, NEW base, NEW list, NEW n \in Nat, DOMAIN list = 1..n, Keeps(c, 0, base),
         \A i \in 1..n : \A x : Keeps(c, i - 1, x) => Keeps(c, i, Op(c, x, list[i]))
  PROVE  Keeps(c, n, Folded(c, base, list))
<1>1. PICK f : Fills(c, base, list, f, n) /\ Folded(c, base, list) = f[1..n]
  BY FoldedIs
<1> DEFINE Bad == {k \in 0..n : ~Keeps(c, k, f[1..k])}
<1>2. f[1..0] = base
  <2>1. 1..0 = {} /\ {} \in SUBSET (1..n)
    OBVIOUS
  <2>2. f[{}] = Next1(c, base, list, f, {})
    BY <1>1, <2>1 DEF Fills
  <2> QED BY <2>1, <2>2 DEF Next1
<1>3. ASSUME NEW k \in 1..n PROVE f[1..k] = Op(c, f[1..(k - 1)], list[k])
  <2>1. Max(1..k) = k /\ (1..k) \ {k} = 1..(k - 1) /\ 1..k # {} /\ 1..k \in SUBSET (1..n)
    BY MaxOfInterval
  <2>2. f[1..k] = Next1(c, base, list, f, 1..k)
    BY <1>1, <2>1 DEF Fills
  <2> QED BY <2>1, <2>2 DEF Next1
<1>4. Bad = {}
  <2> SUFFICES ASSUME Bad # {} PROVE FALSE
    OBVIOUS
  <2>1. PICK m \in Bad : \A y \in Bad : m <= y
    <3>1. Bad \in SUBSET Nat
      OBVIOUS
    <3> HIDE DEF Bad
    <3> QED BY <3>1, LeastNumber
  <2>2. m # 0 /\ m \in 1..n
    BY <1>2, <2>1
  <2>3. Keeps(c, m - 1, f[1..(m - 1)])
    <3>1. m - 1 \in 0..n /\ m - 1 \notin Bad
      BY <2>1, <2>2
    <3> QED BY <3>1
  <2> QED BY <1>3, <2>1, <2>2, <2>3
<1>5. Keeps(c, n, f[1..n])
  BY <1>4
<1> QED BY <1>1, <1>5
=============================================================================
