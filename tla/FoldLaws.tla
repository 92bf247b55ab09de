------------------------------- MODULE FoldLaws --------------------------------
(* FoldLeft of SequencesExt: what holds of a fold by induction over its         *)
(* sequence. The step and the induction hypothesis are constants, for a module   *)
(* that proves something about a fold to instantiate; both take a context, the   *)
(* values that are the same in all steps. FoldLeft is written out, so that an    *)
(* instance does not bring the operators of SequencesExt with it.                *)
EXTENDS Integers, Folds, WellFoundedInduction

CONSTANTS
    Op(_, _, _),        \* context, what is accumulated, element
    Holds(_, _, _)      \* context, number of elements taken, what is accumulated

Largest(I) == CHOOSE i \in I : \A j \in I : i >= j
Fold(c, base, s) ==
    MapThenFoldSet(LAMBDA x, acc : Op(c, acc, x), base, LAMBDA i : s[i], LAMBDA I : Largest(I), DOMAIN s)

(* A set of numbers that is not empty has a least one. *)
LEMMA LeastNat ==
    ASSUME NEW B \in SUBSET Nat, B # {}
    PROVE  \E n \in B : \A m \in B : n <= m
<1>1. PICK n \in B : \A m \in B : ~ (<<m, n>> \in OpToRel(<, Nat))
  BY WFMin, NatLessThanWellFounded
<1>2. \A m \in B : ~ (m < n)
  BY <1>1 DEF OpToRel
<1>3. QED
  BY <1>2

(* What is accumulated, by the set of the indices taken, as FoldLeft has it. *)
Accumulates(c, base, s, h, D) ==
    h = [t \in SUBSET D |-> IF t = {} THEN base ELSE Op(c, h[t \ {Largest(t)}], s[Largest(t)])]
Accumulated(c, base, s) == CHOOSE h : Accumulates(c, base, s, h, DOMAIN s)

LEMMA Unfolded ==
    ASSUME NEW c, NEW base, NEW s
    PROVE  Fold(c, base, s) = Accumulated(c, base, s)[DOMAIN s]
BY DEF Fold, MapThenFoldSet, Accumulated, Accumulates

(* One more element, the last one, can be taken. *)
LEMMA TakesOneMore ==
    ASSUME NEW c, NEW base, NEW s, NEW m \in Nat, m # 0,
           NEW g, Accumulates(c, base, s, g, 1..m-1)
    PROVE  \E h : Accumulates(c, base, s, h, 1..m)
<1> DEFINE h == [t \in SUBSET (1..m) |-> IF m \in t THEN Op(c, g[t \ {m}], s[m]) ELSE g[t]]
<1>1. ASSUME NEW t \in SUBSET (1..m), m \in t
      PROVE  h[t] = Op(c, h[t \ {Largest(t)}], s[Largest(t)])
  <2>1. \A i \in t : (\A y \in t : i >= y) <=> i = m
    BY <1>1
  <2>2. Largest(t) = m
    BY <1>1, <2>1 DEF Largest
  <2>3. t \ {m} \in SUBSET (1..m) /\ m \notin t \ {m}
    OBVIOUS
  <2>4. h[t \ {m}] = g[t \ {m}]
    BY <2>3
  <2>5. QED
    BY <1>1, <2>2, <2>4
<1>2. ASSUME NEW t \in SUBSET (1..m), m \notin t, t # {}
      PROVE  h[t] = Op(c, h[t \ {Largest(t)}], s[Largest(t)])
  <2>1. t \in SUBSET (1..m-1)
    BY <1>2
  <2>2. g[t] = Op(c, g[t \ {Largest(t)}], s[Largest(t)])
    BY <1>2, <2>1 DEF Accumulates
  <2>3. t \ {Largest(t)} \in SUBSET (1..m) /\ m \notin t \ {Largest(t)}
    BY <1>2
  <2>4. h[t \ {Largest(t)}] = g[t \ {Largest(t)}] /\ h[t] = g[t]
    BY <1>2, <2>3
  <2>5. QED
    BY <2>2, <2>4
<1>3. h[{}] = base
  <2>1. {} \in SUBSET (1..m-1) /\ m \notin {}
    OBVIOUS
  <2>2. g[{}] = base
    BY <2>1 DEF Accumulates
  <2>3. QED
    BY <2>2
<1>4. Accumulates(c, base, s, h, 1..m)
  <2>1. \A t \in SUBSET (1..m) : h[t] = IF t = {} THEN base ELSE Op(c, h[t \ {Largest(t)}], s[Largest(t)])
    BY <1>1, <1>2, <1>3
  <2> HIDE DEF h
  <2>2. h = [t \in SUBSET (1..m) |-> h[t]]
    BY DEF h
  <2>3. QED
    BY <2>1, <2>2 DEF Accumulates
<1>5. QED
  BY <1>4

LEMMA AccumulatedExists ==
    ASSUME NEW c, NEW base, NEW s, NEW n \in Nat, DOMAIN s = 1..n
    PROVE  Accumulates(c, base, s, Accumulated(c, base, s), 1..n)
<1> DEFINE Bad == {m \in Nat : ~ \E h : Accumulates(c, base, s, h, 1..m)}
<1>1. 0 \notin Bad
  <2>1. Accumulates(c, base, s, [t \in SUBSET (1..0) |-> base], 1..0)
    <3>1. SUBSET (1..0) = {{}}
      OBVIOUS
    <3>2. QED
      BY <3>1 DEF Accumulates
  <2>2. QED
    BY <2>1
<1>2. ASSUME Bad # {} PROVE FALSE
  <2>1. PICK m \in Bad : \A i \in Bad : m <= i
    BY <1>2, LeastNat
  <2>2. m \in Nat /\ m # 0 /\ m - 1 \in Nat /\ ~(m <= m - 1)
    BY <1>1
  <2>3. \E h : Accumulates(c, base, s, h, 1..m-1)
    BY <2>1, <2>2
  <2>4. QED
    BY <2>2, <2>3, TakesOneMore
<1>3. \E h : Accumulates(c, base, s, h, 1..n)
  BY <1>2
<1>4. QED
  BY <1>3 DEF Accumulated

(* What holds of the base, and of one step when it holds before, holds of all. *)
THEOREM FoldInduction ==
    ASSUME NEW c, NEW k, NEW base, NEW s, NEW n \in Nat, DOMAIN s = 1..n,
           Holds(k, 0, base),
           \A i \in 1..n : \A acc : Holds(k, i - 1, acc) => Holds(k, i, Op(c, acc, s[i]))
    PROVE  Holds(k, n, Fold(c, base, s))
<1> DEFINE h == Accumulated(c, base, s)
           Bad == {m \in 0..n : ~Holds(k, m, h[1..m])}
<1>1. Accumulates(c, base, s, h, 1..n)
  BY AccumulatedExists
<1> HIDE DEF h
<1>2. 0 \notin Bad
  <2>1. 1..0 = {} /\ {} \in SUBSET (1..n)
    OBVIOUS
  <2>2. h[1..0] = base
    BY <1>1, <2>1 DEF Accumulates
  <2>3. QED
    BY <2>2
<1>3. ASSUME NEW m \in 1..n, m - 1 \notin Bad PROVE m \notin Bad
  <2>1. 1..m \in SUBSET (1..n) /\ m \in 1..m /\ m - 1 \in 0..n /\ m \in Nat
    OBVIOUS
  <2>6. (1..m) \ {m} = 1..m-1 /\ 1..m # {}
    BY <2>1
  <2>2. Largest(1..m) = m
    BY <2>1 DEF Largest
  <2>3. h[1..m] = Op(c, h[1..m-1], s[m])
    BY <1>1, <2>1, <2>2, <2>6 DEF Accumulates
  <2>4. Holds(k, m - 1, h[1..m-1])
    BY <1>3, <2>1
  <2>5. QED
    BY <2>3, <2>4
<1>4. ASSUME Bad # {} PROVE FALSE
  <2>1. Bad \in SUBSET Nat
    OBVIOUS
  <2>2. PICK m \in Bad : \A i \in Bad : m <= i
    BY <1>4, <2>1, LeastNat
  <2>3. m \in 1..n /\ ~(m <= m - 1)
    BY <1>2
  <2>4. QED
    BY <1>3, <2>2, <2>3
<1>5. n \notin Bad /\ n \in 0..n
  BY <1>4
<1>6. Holds(k, n, h[1..n])
  BY <1>5
<1>7. QED
  BY <1>6, Unfolded DEF h
================================================================================
