---------------------------- MODULE Profiles_proofs ----------------------------
(* Theorems about the profile package and the call graphs made of its profiles, *)
(* for any messages, texts, filters, ratios and number of operations:           *)
(*   - a profile that Parse returned is valid after every sequence of           *)
(*     operations, Merge and Copy among them, so every reference is to an entry *)
(*     of its table;                                                            *)
(*   - what was read of a text has each address in a mapping that contains it,  *)
(*     whatever regions its memory map has, or in one made up for what none of  *)
(*     them contains;                                                           *)
(*   - a filter shows nothing it hides, and Prune only cuts;                    *)
(*   - the call graphs are trees in which no node is above its parent, what     *)
(*     HTTP handlers wait for is within what all wait for, and what a report    *)
(*     shows is such a tree too.                                                *)
EXTENDS Profiles, SequenceTheorems, WellFoundedInduction, TLAPS

-------------------------------------------------------------------------------
(* Sets of indices. *)

(* A nonempty set of indices of a sequence has a smallest one. *)
LEMMA MinOfIndices ==
    ASSUME NEW n \in Nat, NEW I \in SUBSET (1..n), I # {}
    PROVE  Min(I) \in I /\ \A i \in I : Min(I) <= i
<1>1. I \subseteq Nat
  OBVIOUS
<1>2. \E d \in I : \A e \in I : ~ (<<e, d>> \in OpToRel(<, Nat))
  BY <1>1, WFMin, NatLessThanWellFounded, Zenon
<1>3. PICK d \in I : \A e \in I : ~ (<<e, d>> \in OpToRel(<, Nat))
  BY <1>2, Zenon
<1>4. \A e \in I : ~ (e < d)
  BY <1>1, <1>3 DEF OpToRel
<1>5. d \in I /\ \A e \in I : d <= e
  BY <1>1, <1>4
<1>6. QED
  BY <1>5 DEF Min

(* A nonempty set of indices of a sequence has a largest one. *)
LEMMA MaxOfIndices ==
    ASSUME NEW n \in Nat, NEW I \in SUBSET (1..n), I # {}
    PROVE  Max(I) \in I /\ \A i \in I : i <= Max(I)
<1> DEFINE D == {n - i : i \in I}
<1>1. \A d \in D : d \in Nat
  OBVIOUS
<1>2. D \subseteq Nat /\ D # {}
  BY <1>1, \E i \in I : n - i \in D
<1> HIDE DEF D
<1>3. \E d \in D : \A e \in D : ~ (<<e, d>> \in OpToRel(<, Nat))
  BY <1>2, WFMin, NatLessThanWellFounded, Zenon
<1>4. PICK d \in D : \A e \in D : ~ (<<e, d>> \in OpToRel(<, Nat))
  BY <1>3, Zenon
<1>5. \A e \in D : ~ (e < d)
  BY <1>2, <1>4 DEF OpToRel
<1> USE DEF D
<1>6. PICK m \in I : d = n - m
  OBVIOUS
<1>7. \A i \in I : i <= m
  <2>1. \A i \in I : ~ (n - i < n - m)
    BY <1>5, <1>6
  <2>2. QED
    BY <2>1
<1>8. QED
  BY <1>6, <1>7 DEF Max


-------------------------------------------------------------------------------
(* IsProfile and CheckValid by places in the tables: the invariant in the form *)
(* in which the operations are proved to keep it.                              *)
TypesFit(p) ==
    /\ {"types", "samples", "mappings", "functions", "locations"} \subseteq DOMAIN p
    /\ p.types \in Seq(STRING)
Numbered(table) ==
    /\ \A i \in 1..Len(table) : table[i].id # 0
    /\ \A i, j \in 1..Len(table) : table[i].id = table[j].id => i = j
LocationFits(p, l) ==
    /\ l \in Locations
    /\ l.mapping \in 0..Len(p.mappings)
    /\ \A j \in 1..Len(l.lines) : l.lines[j].function \in 0..Len(p.functions)
TablesFit(p) ==
    /\ p.mappings \in Seq(Mappings) /\ p.functions \in Seq(Functions) /\ p.locations \in Seq(Locations)
    /\ Numbered(p.mappings) /\ Numbered(p.functions) /\ Numbered(p.locations)
    /\ \A i \in 1..Len(p.locations) : LocationFits(p, p.locations[i])
SampleFits(p, s) ==
    /\ {"locations", "values", "labels", "numLabels"} \subseteq DOMAIN s
    /\ s.locations \in Seq(1..Len(p.locations))
    /\ s.values \in Seq(Int) /\ Len(s.values) = Len(p.types)
SamplesFit(p) ==
    /\ p.samples \in Seq(ToSet(p.samples))
    /\ p.types = <<>> => Len(p.samples) = 0
    /\ \A i \in 1..Len(p.samples) : SampleFits(p, p.samples[i])
Fits(p) == TypesFit(p) /\ TablesFit(p) /\ SamplesFit(p)

(* A profile with the fields of one is valid exactly when it fits *)
(* (CheckValid).                                                  *)
LEMMA FitsIsValid ==
    ASSUME NEW p
    PROVE  IsProfile(p) /\ CheckValid(p) <=> Fits(p)
<1>1. ASSUME IsProfile(p), CheckValid(p) PROVE Fits(p)
  <2>1. TypesFit(p)
    BY <1>1 DEF IsProfile, IsMessage, TypesFit
  <2>2. TablesFit(p)
    <3>1. p.mappings \in Seq(Mappings) /\ p.functions \in Seq(Functions) /\ p.locations \in Seq(Locations)
      BY <1>1 DEF IsProfile, IsMessage
    <3>2. ASSUME NEW T, NEW table \in Seq(T), IDsValid(table) PROVE Numbered(table)
      BY <3>2 DEF IDsValid, Numbered, ToSet
    <3>3. Numbered(p.mappings) /\ Numbered(p.functions) /\ Numbered(p.locations)
      BY <1>1, <3>1, <3>2 DEF CheckValid
    <3>4. ASSUME NEW i \in 1..Len(p.locations) PROVE LocationFits(p, p.locations[i])
      <4> DEFINE l == p.locations[i]
      <4>1. l \in Locations /\ l \in ToSet(p.locations)
        BY <3>1 DEF ToSet
      <4>2. l.mapping \in {Nil} \cup DOMAIN p.mappings
            /\ \A ln \in ToSet(l.lines) : ln.function \in {Nil} \cup DOMAIN p.functions
        BY <1>1, <4>1 DEF IsProfile
      <4>3. l.lines \in Seq(Lines)
        BY <4>1 DEF Locations
      <4>4. \A j \in 1..Len(l.lines) : l.lines[j] \in ToSet(l.lines)
        BY <4>3 DEF ToSet
      <4> HIDE DEF l
      <4>5. DOMAIN p.mappings = 1..Len(p.mappings) /\ DOMAIN p.functions = 1..Len(p.functions)
            /\ Len(p.mappings) \in Nat /\ Len(p.functions) \in Nat
        BY <3>1
      <4>6. LocationFits(p, l)
        BY <4>1, <4>2, <4>4, <4>5 DEF LocationFits, Nil
      <4>7. QED
        BY <4>6 DEF l
    <3>5. QED
      BY <3>1, <3>3, <3>4 DEF TablesFit
  <2>3. SamplesFit(p)
    <3>1. p.samples \in Seq(ToSet(p.samples)) /\ p.types \in Seq(STRING) /\ p.locations \in Seq(Locations)
      BY <1>1 DEF IsProfile, IsMessage
    <3>2. p.types = <<>> => Len(p.samples) = 0
      BY <1>1 DEF CheckValid, SamplesValid
    <3>3. ASSUME NEW i \in 1..Len(p.samples) PROVE SampleFits(p, p.samples[i])
      <4> DEFINE s == p.samples[i]
      <4>1. s \in ToSet(p.samples)
        BY <3>1 DEF ToSet
      <4>2. /\ {"locations", "values", "labels", "numLabels"} \subseteq DOMAIN s
            /\ s.locations \in Seq(Nat) /\ s.values \in Seq(Int)
            /\ ToSet(s.locations) \subseteq {Nil} \cup DOMAIN p.locations
            /\ Len(s.values) = Len(p.types) /\ Nil \notin ToSet(s.locations)
        BY <1>1, <4>1 DEF IsProfile, IsMessage, CheckValid, SamplesValid
      <4> HIDE DEF s
      <4>3. \A j \in 1..Len(s.locations) : s.locations[j] \in ToSet(s.locations)
        BY <4>2 DEF ToSet
      <4>4. DOMAIN p.locations = 1..Len(p.locations)
        BY <3>1
      <4>5. \A j \in 1..Len(s.locations) : s.locations[j] \in 1..Len(p.locations)
        BY <4>2, <4>3, <4>4
      <4>6. s.locations \in Seq(1..Len(p.locations))
        <5>1. s.locations \in Seq(Nat)
          BY <4>2
        <5>2. QED
          BY <4>5, <5>1
      <4>7. SampleFits(p, s)
        BY <4>2, <4>6 DEF SampleFits
      <4>8. QED
        BY <4>7 DEF s
    <3>4. QED
      BY <3>1, <3>2, <3>3 DEF SamplesFit
  <2>4. QED
    BY <2>1, <2>2, <2>3 DEF Fits
<1>2. ASSUME Fits(p) PROVE IsProfile(p) /\ CheckValid(p)
  <2>1. /\ {"types", "samples", "mappings", "functions", "locations"} \subseteq DOMAIN p
        /\ p.types \in Seq(STRING)
        /\ p.mappings \in Seq(Mappings) /\ p.functions \in Seq(Functions) /\ p.locations \in Seq(Locations)
    BY <1>2 DEF Fits, TypesFit, TablesFit
  <2>2. p.samples \in Seq(ToSet(p.samples)) /\ Len(p.samples) \in Nat /\ DOMAIN p.samples = 1..Len(p.samples)
        /\ (p.types = <<>> => Len(p.samples) = 0)
    BY <1>2 DEF Fits, SamplesFit
  <2>3. ASSUME NEW s \in ToSet(p.samples) PROVE SampleFits(p, s)
    BY <1>2, <2>2, <2>3 DEF ToSet, Fits, SamplesFit
  <2>4. ASSUME NEW s, SampleFits(p, s)
        PROVE  /\ {"locations", "values", "labels", "numLabels"} \subseteq DOMAIN s
               /\ s.locations \in Seq(Nat) /\ s.values \in Seq(Int)
               /\ ToSet(s.locations) \subseteq {Nil} \cup DOMAIN p.locations
               /\ Len(s.values) = Len(p.types) /\ Nil \notin ToSet(s.locations)
    <3>1. /\ {"locations", "values", "labels", "numLabels"} \subseteq DOMAIN s
          /\ s.locations \in Seq(1..Len(p.locations)) /\ s.values \in Seq(Int) /\ Len(s.values) = Len(p.types)
      BY <2>4 DEF SampleFits
    <3>2. Len(p.locations) \in Nat /\ DOMAIN p.locations = 1..Len(p.locations)
      BY <2>1
    <3>3. s.locations \in Seq(Nat)
      BY <3>1, <3>2
    <3>4. ToSet(s.locations) \subseteq 1..Len(p.locations)
      BY <3>1 DEF ToSet
    <3>5. QED
      BY <3>1, <3>2, <3>3, <3>4 DEF Nil
  <2>6. IsMessage(p)
    BY <2>1, <2>2, <2>3, <2>4 DEF IsMessage
  <2>7. ASSUME NEW T, NEW table \in Seq(T), Numbered(table) PROVE IDsValid(table)
    BY <2>7 DEF IDsValid, Numbered, ToSet
  <2>8. IDsValid(p.mappings) /\ IDsValid(p.functions) /\ IDsValid(p.locations)
    BY <1>2, <2>1, <2>7 DEF Fits, TablesFit
  <2>9. ASSUME NEW l \in ToSet(p.locations)
        PROVE  /\ l.mapping \in {Nil} \cup DOMAIN p.mappings
               /\ \A ln \in ToSet(l.lines) : ln.function \in {Nil} \cup DOMAIN p.functions
    <3>1. LocationFits(p, l)
      BY <1>2, <2>1 DEF Fits, TablesFit, ToSet
    <3>2. l.lines \in Seq(Lines) /\ DOMAIN p.mappings = 1..Len(p.mappings) /\ DOMAIN p.functions = 1..Len(p.functions)
          /\ Len(p.mappings) \in Nat /\ Len(p.functions) \in Nat
      BY <2>1, <3>1 DEF LocationFits, Locations
    <3>3. l.mapping \in {Nil} \cup DOMAIN p.mappings
      BY <3>1, <3>2 DEF LocationFits, Nil
    <3>4. \A ln \in ToSet(l.lines) : ln.function \in {Nil} \cup DOMAIN p.functions
      BY <3>1, <3>2 DEF LocationFits, Nil, ToSet
    <3>5. QED
      BY <3>3, <3>4
  <2>10. IsProfile(p)
    BY <2>3, <2>4, <2>6, <2>9 DEF IsProfile
  <2>11. SamplesValid(p)
    <3>1. p.types = <<>> => p.samples = <<>>
      BY <2>2
    <3>2. QED
      BY <2>3, <2>4, <3>1 DEF SamplesValid
  <2>12. QED
    BY <2>8, <2>9, <2>10, <2>11 DEF CheckValid, ReferencesValid
<1>3. QED
  BY <1>1, <1>2

-------------------------------------------------------------------------------
(* Among, by induction over the sequence. *)
Keep(S, kept, x) == IF x \in S THEN Append(kept, x) ELSE kept
KeptOf(T, i, kept) == kept \in Seq(T)
AmongFold == INSTANCE FoldLaws WITH Op <- Keep, Holds <- KeptOf

(* Among is a fold of Keep. *)
LEMMA AmongIsFold ==
    ASSUME NEW seq, NEW S
    PROVE  Among(seq, S) = AmongFold!Fold(S, <<>>, seq)
BY Zenon DEF Among, Keep, AmongFold!Fold, FoldLeft, MapThenFoldSet,
   AmongFold!MapThenFoldSet, AmongFold!Largest, Max

(* What is left of a sequence has its elements that are in the set. *)
LEMMA AmongIsPart ==
    ASSUME NEW T, NEW seq \in Seq(T), NEW S
    PROVE  Among(seq, S) \in Seq(T \cap S)
<1> DEFINE R == T \cap S
<1>1. Len(seq) \in Nat /\ DOMAIN seq = 1..Len(seq)
  OBVIOUS
<1>2. \A i \in 1..Len(seq) : seq[i] \in T
  OBVIOUS
<1>3. KeptOf(R, 0, <<>>)
  BY DEF KeptOf
<1> HIDE DEF R
<1>4. ASSUME NEW i \in 1..Len(seq), NEW kept, KeptOf(R, i - 1, kept)
      PROVE  KeptOf(R, i, Keep(S, kept, seq[i]))
  <2>1. seq[i] \in S => seq[i] \in R
    BY <1>2 DEF R
  <2>2. QED
    BY <1>4, <2>1 DEF KeptOf, Keep
<1>5. KeptOf(R, Len(seq), AmongFold!Fold(S, <<>>, seq))
  BY <1>1, <1>3, <1>4, AmongFold!FoldInduction
<1>6. QED
  BY <1>5, AmongIsFold DEF KeptOf, R

(* A sequence is one of any set that has its elements. *)
LEMMA Narrower ==
    ASSUME NEW T, NEW s \in Seq(T), NEW n, Len(s) = n, NEW S, \A i \in 1..n : s[i] \in S
    PROVE  s \in Seq(S)
OBVIOUS

(* The end of a sequence, from a place of it or from behind it. *)
LEMMA EndOfSequence ==
    ASSUME NEW T, NEW seq \in Seq(T), NEW a \in 1..Len(seq)+1
    PROVE  SubSeq(seq, a, Len(seq)) \in Seq(ToSet(seq))
<1>1. /\ SubSeq(seq, a, Len(seq)) \in Seq(T)
      /\ Len(SubSeq(seq, a, Len(seq))) = Len(seq) - a + 1
      /\ \A i \in 1..Len(seq)-a+1 : SubSeq(seq, a, Len(seq))[i] = seq[a+i-1]
  BY SubSeqProperties
<1>2. \A i \in 1..Len(seq)-a+1 : a+i-1 \in DOMAIN seq
  OBVIOUS
<1>3. \A i \in 1..Len(seq)-a+1 : SubSeq(seq, a, Len(seq))[i] \in ToSet(seq)
  BY <1>1, <1>2 DEF ToSet
<1>4. QED
  BY <1>1, <1>3, Narrower

(* Locations of which only lines were taken away. *)
LEMMA LinesCut ==
    ASSUME NEW p, TablesFit(p), NEW q, q.mappings = p.mappings, q.functions = p.functions,
           NEW lines, \A i \in 1..Len(p.locations) : lines[i] \in Seq(ToSet(p.locations[i].lines)),
           q.locations = [i \in DOMAIN p.locations |-> [p.locations[i] EXCEPT !.lines = lines[i]]]
    PROVE  TablesFit(q) /\ Len(q.locations) = Len(p.locations)
<1> DEFINE n == Len(p.locations)
<1>1. /\ p.mappings \in Seq(Mappings) /\ p.functions \in Seq(Functions) /\ p.locations \in Seq(Locations)
      /\ Numbered(p.mappings) /\ Numbered(p.functions) /\ Numbered(p.locations)
  BY DEF TablesFit
<1>2. n \in Nat /\ DOMAIN p.locations = 1..n
  BY <1>1
<1>3. ASSUME NEW i \in 1..n
      PROVE  LocationFits(p, [p.locations[i] EXCEPT !.lines = lines[i]])
  <2> DEFINE l == p.locations[i]
  <2>1. l \in Locations /\ l.mapping \in 0..Len(p.mappings) /\ l.lines \in Seq(Lines)
        /\ \A j \in 1..Len(l.lines) : l.lines[j].function \in 0..Len(p.functions)
    BY DEF TablesFit, LocationFits, Locations
  <2>2. lines[i] \in Seq(ToSet(l.lines))
    OBVIOUS
  <2> HIDE DEF l
  <2>3. ToSet(l.lines) \subseteq Lines /\ \A ln \in ToSet(l.lines) : ln.function \in 0..Len(p.functions)
    BY <2>1 DEF ToSet
  <2>4. lines[i] \in Seq(Lines) /\ \A j \in 1..Len(lines[i]) : lines[i][j].function \in 0..Len(p.functions)
    BY <2>2, <2>3
  <2>5. [l EXCEPT !.lines = lines[i]] \in Locations
    BY <2>1, <2>4 DEF Locations
  <2>6. /\ [l EXCEPT !.lines = lines[i]].lines = lines[i]
        /\ [l EXCEPT !.lines = lines[i]].mapping = l.mapping
    BY <2>1 DEF Locations
  <2>7. QED
    BY <2>1, <2>4, <2>5, <2>6 DEF LocationFits, l
<1>4. \A i \in 1..n : [p.locations[i] EXCEPT !.lines = lines[i]] \in Locations
  BY <1>3 DEF LocationFits
<1>5. q.locations \in Seq(Locations) /\ Len(q.locations) = n
  BY <1>2, <1>4
<1>6. \A i \in 1..n : q.locations[i] = [p.locations[i] EXCEPT !.lines = lines[i]]
  BY <1>2
<1>7. \A i \in 1..n : q.locations[i].id = p.locations[i].id
  BY <1>1, <1>6 DEF Locations
<1> HIDE DEF n
<1>8. Numbered(q.locations)
  BY <1>1, <1>5, <1>7 DEF Numbered, n
<1>9. \A i \in 1..n : LocationFits(q, q.locations[i])
  BY <1>3, <1>6 DEF LocationFits, n
<1>10. QED
  BY <1>1, <1>5, <1>8, <1>9 DEF TablesFit, n

(* A sequence made element by element. *)
LEMMA MadeOf ==
    ASSUME NEW n \in Nat, NEW s, s = [i \in 1..n |-> s[i]]
    PROVE  s \in Seq(ToSet(s)) /\ Len(s) = n
BY DEF ToSet

(* Samples of which some are left, without some locations. *)
LEMMA SamplesCut ==
    ASSUME NEW p, Fits(p), NEW q, q.types = p.types, Len(q.locations) = Len(p.locations),
           NEW left \in Seq(ToSet(p.samples)), NEW new, q.samples = [i \in DOMAIN left |-> new[i]],
           \A i \in 1..Len(left) :
                /\ DOMAIN new[i] = DOMAIN left[i] /\ new[i].values = left[i].values
                /\ new[i].locations \in Seq(ToSet(left[i].locations))
    PROVE  SamplesFit(q)
<1> DEFINE n == Len(left)
<1>1. n \in Nat /\ DOMAIN left = 1..n
  OBVIOUS
<1>2. ASSUME NEW i \in 1..n
      PROVE  SampleFits(p, left[i])
  <2>1. left[i] \in ToSet(p.samples)
    OBVIOUS
  <2>2. PICK j \in DOMAIN p.samples : left[i] = p.samples[j]
    BY <2>1 DEF ToSet
  <2>3. p.samples \in Seq(ToSet(p.samples)) /\ \A k \in 1..Len(p.samples) : SampleFits(p, p.samples[k])
    BY DEF Fits, SamplesFit
  <2>4. j \in 1..Len(p.samples)
    BY <2>2, <2>3
  <2>5. QED
    BY <2>2, <2>3, <2>4
<1>3. \A i \in 1..n : q.samples[i] = new[i]
  BY <1>1
<1>4. q.samples \in Seq(ToSet(q.samples)) /\ Len(q.samples) = n
  BY <1>1, MadeOf
<1>5. p.types = <<>> => n = 0
  <2>1. p.types = <<>> => Len(p.samples) = 0 /\ p.samples \in Seq(ToSet(p.samples))
    BY DEF Fits, SamplesFit
  <2>2. p.types = <<>> => ToSet(p.samples) = {}
    BY <2>1 DEF ToSet
  <2>3. QED
    BY <1>1, <2>2
<1>6. ASSUME NEW i \in 1..n PROVE SampleFits(q, q.samples[i])
  <2> DEFINE s == left[i]
             t == new[i]
  <2>1. /\ {"locations", "values", "labels", "numLabels"} \subseteq DOMAIN s
        /\ s.locations \in Seq(1..Len(p.locations))
        /\ s.values \in Seq(Int) /\ Len(s.values) = Len(p.types)
    BY <1>2 DEF SampleFits
  <2>2. DOMAIN t = DOMAIN s /\ t.values = s.values /\ t.locations \in Seq(ToSet(s.locations)) /\ q.samples[i] = t
    BY <1>3, <1>6
  <2> HIDE DEF s, t
  <2>3. ToSet(s.locations) \subseteq 1..Len(p.locations)
    BY <2>1 DEF ToSet
  <2>4. t.locations \in Seq(1..Len(p.locations))
    BY <2>2, <2>3
  <2>7. QED
    BY <2>1, <2>2, <2>4 DEF SampleFits
<1>7. QED
  BY <1>4, <1>5, <1>6 DEF SamplesFit

(* The last and the first of some places of a sequence, or none. *)
LEMMA LastPlace ==
    ASSUME NEW T, NEW seq \in Seq(T), NEW I, I \subseteq 1..Len(seq)
    PROVE  (IF I # {} THEN Max(I) ELSE 0) \in 0..Len(seq)
           /\ (IF I # {} THEN Min(I) ELSE 0) \in 0..Len(seq)
<1>1. Len(seq) \in Nat /\ I \in SUBSET (1..Len(seq))
  OBVIOUS
<1>2. I # {} => Max(I) \in I /\ Min(I) \in I
  BY ONLY <1>1, MaxOfIndices, MinOfIndices
<1>3. \A i \in I : i \in 0..Len(seq)
  BY <1>1
<1>4. 0 \in 0..Len(seq)
  BY <1>1
<1>5. QED
  BY <1>2, <1>3, <1>4

(* The line at which a location is cut is one of its lines, or none. *)
LEMMA OutermostInRange ==
    ASSUME NEW p, NEW l, l.lines \in Seq(Lines), NEW drop, NEW keep
    PROVE  OutermostDropped(p, l, drop, keep) \in 0..Len(l.lines)
<1> DEFINE I == {i \in 1..Len(l.lines) : Drops(p, l.lines[i], drop, keep)}
<1>1. I \subseteq 1..Len(l.lines)
  OBVIOUS
<1>2. OutermostDropped(p, l, drop, keep) = IF I # {} THEN Max(I) ELSE 0
  BY DEF OutermostDropped, SelectLastInSeq
<1> HIDE DEF I
<1>3. QED
  BY <1>1, <1>2, LastPlace

(* A sequence is one of its own elements. *)
LEMMA WholeSequence ==
    ASSUME NEW T, NEW seq \in Seq(T)
    PROVE  seq \in Seq(ToSet(seq))
BY DEF ToSet

(* The lines of a location that fits are lines. *)
LEMMA LinesOf ==
    ASSUME NEW p, TablesFit(p), NEW i \in 1..Len(p.locations)
    PROVE  p.locations[i].lines \in Seq(Lines) /\ p.locations[i] \in Locations
BY DEF TablesFit, LocationFits, Locations

(* The stack of a sample that fits is of places of locations. *)
LEMMA StacksOf ==
    ASSUME NEW p, Fits(p), NEW i \in 1..Len(p.samples)
    PROVE  p.samples[i].locations \in Seq(1..Len(p.locations))
           /\ {"locations", "values", "labels", "numLabels"} \subseteq DOMAIN p.samples[i]
BY DEF Fits, SamplesFit, SampleFits

-------------------------------------------------------------------------------
(* A location is pruned to some of its lines (Prune). *)
LEMMA PrunedLinesPart ==
    ASSUME NEW p, NEW l, l.lines \in Seq(Lines), NEW drop, NEW keep
    PROVE  PrunedLines(p, l, drop, keep) \in Seq(ToSet(l.lines))
<1> DEFINE cut == OutermostDropped(p, l, drop, keep)
<1>1. cut \in 0..Len(l.lines)
  BY OutermostInRange
<1>2. PrunedLines(p, l, drop, keep) = IF cut = Len(l.lines) THEN l.lines ELSE SubSeq(l.lines, cut + 1, Len(l.lines))
  BY DEF PrunedLines
<1> HIDE DEF cut
<1>3. cut + 1 \in 1..Len(l.lines)+1
  BY <1>1
<1>4. QED
  BY <1>2, <1>3, WholeSequence, EndOfSequence

(* A stack is pruned to some of its locations (Prune). *)
LEMMA PrunedStackPart ==
    ASSUME NEW p, NEW stack, NEW T, stack \in Seq(T), NEW drop, NEW keep
    PROVE  PrunedStack(p, stack, drop, keep) \in Seq(ToSet(stack))
<1> DEFINE Beneath(j) == OutermostDropped(p, p.locations[stack[j]], drop, keep) # 0
           Whole(j) == Beneath(j)
                /\ OutermostDropped(p, p.locations[stack[j]], drop, keep) = Len(p.locations[stack[j]].lines)
           cuts == {j \in DOMAIN stack : Beneath(j) /\ \E k \in j+1..Len(stack) : ~Beneath(k)}
           start == IF Whole(Max(cuts)) THEN Max(cuts) + 1 ELSE Max(cuts)
<1>1. Len(stack) \in Nat /\ cuts \in SUBSET (1..Len(stack))
  OBVIOUS
<1>2. cuts # {} => Max(cuts) \in cuts
  BY ONLY <1>1, MaxOfIndices
<1>3. PrunedStack(p, stack, drop, keep) = IF cuts = {} THEN stack ELSE SubSeq(stack, start, Len(stack))
  BY DEF PrunedStack
<1>4. cuts # {} => Max(cuts) \in 1..Len(stack)
  BY <1>1, <1>2
<1>5. start \in {Max(cuts), Max(cuts) + 1}
  OBVIOUS
<1> HIDE DEF cuts, start
<1>6. cuts # {} => start \in 1..Len(stack)+1
  BY <1>1, <1>4, <1>5
<1>7. QED
  BY <1>3, <1>6, WholeSequence, EndOfSequence

(* A profile that fits does so after Prune. *)
LEMMA PruneFits ==
    ASSUME NEW p, Fits(p), NEW drop, NEW keep
    PROVE  Fits(Prune(p, drop, keep))
<1> DEFINE q == Prune(p, drop, keep)
           locations == [i \in DOMAIN p.locations |-> PrunedLocation(p, p.locations[i], drop, keep)]
           newSamples == [i \in DOMAIN p.samples |-> PrunedSample(p, p.samples[i], drop, keep)]
           lines == [i \in DOMAIN p.locations |-> PrunedLines(p, p.locations[i], drop, keep)]
<1>1. TypesFit(p) /\ TablesFit(p) /\ SamplesFit(p)
  BY DEF Fits
<1>2. q = [p EXCEPT !.locations = locations, !.samples = newSamples]
  BY <1>1 DEF Prune, TypesFit
<1> HIDE DEF q, locations, newSamples
<1>3. TypesFit(q) /\ q.types = p.types /\ q.mappings = p.mappings /\ q.functions = p.functions
      /\ q.locations = locations /\ q.samples = newSamples
  BY <1>1, <1>2 DEF TypesFit
<1>4. /\ DOMAIN p.locations = 1..Len(p.locations) /\ DOMAIN p.samples = 1..Len(p.samples)
      /\ p.samples \in Seq(ToSet(p.samples))
  BY <1>1 DEF TablesFit, SamplesFit
<1>5. locations = [i \in DOMAIN p.locations |-> [p.locations[i] EXCEPT !.lines = lines[i]]]
  BY DEF locations, PrunedLocation
<1>6. \A i \in 1..Len(p.locations) : lines[i] \in Seq(ToSet(p.locations[i].lines))
  BY <1>1, <1>4, LinesOf, PrunedLinesPart
<1>7. \A i \in 1..Len(p.samples) :
        /\ DOMAIN newSamples[i] = DOMAIN p.samples[i] /\ newSamples[i].values = p.samples[i].values
        /\ newSamples[i].locations \in Seq(ToSet(p.samples[i].locations))
  <2> SUFFICES ASSUME NEW i \in 1..Len(p.samples)
               PROVE  /\ DOMAIN newSamples[i] = DOMAIN p.samples[i] /\ newSamples[i].values = p.samples[i].values
                      /\ newSamples[i].locations \in Seq(ToSet(p.samples[i].locations))
    OBVIOUS
  <2>1. newSamples[i] = PrunedSample(p, p.samples[i], drop, keep)
    BY <1>4 DEF newSamples
  <2>2. p.samples[i].locations \in Seq(1..Len(p.locations)) /\ {"locations", "values", "labels", "numLabels"} \subseteq DOMAIN p.samples[i]
    BY StacksOf
  <2>3. newSamples[i].locations = PrunedStack(p, p.samples[i].locations, drop, keep)
        /\ DOMAIN newSamples[i] = DOMAIN p.samples[i] /\ newSamples[i].values = p.samples[i].values
    BY <2>1, <2>2 DEF PrunedSample
  <2>4. QED
    BY <2>2, <2>3, PrunedStackPart
<1>8. newSamples = [i \in DOMAIN p.samples |-> newSamples[i]]
  BY DEF newSamples
<1> HIDE DEF lines
<1>9. TablesFit(q) /\ Len(q.locations) = Len(p.locations)
  BY <1>1, <1>3, <1>5, <1>6, LinesCut
<1>10. SamplesFit(q)
  BY <1>3, <1>4, <1>7, <1>8, <1>9, SamplesCut
<1>11. QED
  BY <1>3, <1>9, <1>10 DEF Fits, q

-------------------------------------------------------------------------------
(* The first line that is dropped is one of the lines, or none. *)
LEMMA FirstInRange ==
    ASSUME NEW p, NEW l, l.lines \in Seq(Lines), NEW drop
    PROVE  FirstDropped(p, l, drop) \in 0..Len(l.lines)
<1> DEFINE I == {i \in 1..Len(l.lines) : Drops(p, l.lines[i], drop, NoRegexp)}
<1>1. I \subseteq 1..Len(l.lines)
  OBVIOUS
<1>2. FirstDropped(p, l, drop) = IF I # {} THEN Min(I) ELSE 0
  BY DEF FirstDropped, SelectInSeq
<1> HIDE DEF I
<1>3. QED
  BY <1>1, <1>2, LastPlace

(* The end of a sequence from a place, or all of it. *)
LEMMA EndPart ==
    ASSUME NEW T, NEW seq, seq \in Seq(T), NEW i \in 0..Len(seq)
    PROVE  (IF i = 0 THEN seq ELSE SubSeq(seq, i, Len(seq))) \in Seq(ToSet(seq))
<1>1. i # 0 => i \in 1..Len(seq)+1
  OBVIOUS
<1>2. QED
  BY <1>1, WholeSequence, EndOfSequence

(* A profile that fits does so after PruneFrom. *)
LEMMA PruneFromFits ==
    ASSUME NEW p, Fits(p), NEW drop
    PROVE  Fits(PruneFrom(p, drop))
<1> DEFINE q == PruneFrom(p, drop)
           locations == [i \in DOMAIN p.locations |-> PrunedFrom(p, p.locations[i], drop)]
           newSamples == [i \in DOMAIN p.samples |-> SampleFrom(p, p.samples[i], drop)]
           lines == [i \in DOMAIN p.locations |->
                        LET l == p.locations[i]
                        IN IF FirstDropped(p, l, drop) = 0 THEN l.lines
                           ELSE SubSeq(l.lines, FirstDropped(p, l, drop), Len(l.lines))]
<1>1. TypesFit(p) /\ TablesFit(p) /\ SamplesFit(p)
  BY DEF Fits
<1>2. q = [p EXCEPT !.locations = locations, !.samples = newSamples]
  BY <1>1 DEF PruneFrom, TypesFit
<1> HIDE DEF q, locations, newSamples
<1>3. TypesFit(q) /\ q.types = p.types /\ q.mappings = p.mappings /\ q.functions = p.functions
      /\ q.locations = locations /\ q.samples = newSamples
  BY <1>1, <1>2 DEF TypesFit
<1>4. /\ DOMAIN p.locations = 1..Len(p.locations) /\ DOMAIN p.samples = 1..Len(p.samples)
      /\ p.samples \in Seq(ToSet(p.samples))
  BY <1>1 DEF TablesFit, SamplesFit
<1>5. locations = [i \in DOMAIN p.locations |-> [p.locations[i] EXCEPT !.lines = lines[i]]]
  BY <1>1, <1>4, LinesOf DEF locations, PrunedFrom, Locations
<1>6. \A i \in 1..Len(p.locations) : lines[i] \in Seq(ToSet(p.locations[i].lines))
  <2> SUFFICES ASSUME NEW i \in 1..Len(p.locations) PROVE lines[i] \in Seq(ToSet(p.locations[i].lines))
    OBVIOUS
  <2> DEFINE l == p.locations[i]
  <2>1. lines[i] = IF FirstDropped(p, l, drop) = 0 THEN l.lines
                   ELSE SubSeq(l.lines, FirstDropped(p, l, drop), Len(l.lines))
    BY <1>4
  <2>2. l.lines \in Seq(Lines)
    BY <1>1, LinesOf
  <2> HIDE DEF l, lines
  <2>3. lines[i] \in Seq(ToSet(l.lines))
    BY <2>1, <2>2, FirstInRange, EndPart
  <2>4. QED
    BY <2>3 DEF l
<1>7. \A i \in 1..Len(p.samples) :
        /\ DOMAIN newSamples[i] = DOMAIN p.samples[i] /\ newSamples[i].values = p.samples[i].values
        /\ newSamples[i].locations \in Seq(ToSet(p.samples[i].locations))
  <2> SUFFICES ASSUME NEW i \in 1..Len(p.samples)
               PROVE  /\ DOMAIN newSamples[i] = DOMAIN p.samples[i] /\ newSamples[i].values = p.samples[i].values
                      /\ newSamples[i].locations \in Seq(ToSet(p.samples[i].locations))
    OBVIOUS
  <2> DEFINE stack == p.samples[i].locations
             I == {j \in 1..Len(stack) : FirstDropped(p, p.locations[stack[j]], drop) # 0}
             first == IF I # {} THEN Min(I) ELSE 0
  <2>1. newSamples[i] = SampleFrom(p, p.samples[i], drop)
    BY <1>4 DEF newSamples
  <2>2. stack \in Seq(1..Len(p.locations)) /\ {"locations", "values", "labels", "numLabels"} \subseteq DOMAIN p.samples[i]
    BY StacksOf
  <2>3. newSamples[i] = [p.samples[i] EXCEPT !.locations = IF first = 0 THEN stack ELSE SubSeq(stack, first, Len(stack))]
    BY <2>1, Zenon DEF SampleFrom, SelectInSeq
  <2>4. first \in 0..Len(stack)
    BY <2>2, LastPlace
  <2> HIDE DEF first
  <2>5. newSamples[i].locations = (IF first = 0 THEN stack ELSE SubSeq(stack, first, Len(stack)))
        /\ DOMAIN newSamples[i] = DOMAIN p.samples[i] /\ newSamples[i].values = p.samples[i].values
    BY <2>2, <2>3
  <2>6. (IF first = 0 THEN stack ELSE SubSeq(stack, first, Len(stack))) \in Seq(ToSet(stack))
    <3> HIDE DEF stack
    <3>1. QED
      BY <2>2, <2>4, EndPart
  <2>7. QED
    BY <2>5, <2>6
<1>8. newSamples = [i \in DOMAIN p.samples |-> newSamples[i]]
  BY DEF newSamples
<1> HIDE DEF lines
<1>9. TablesFit(q) /\ Len(q.locations) = Len(p.locations)
  BY <1>1, <1>3, <1>5, <1>6, LinesCut
<1>10. SamplesFit(q)
  BY <1>3, <1>4, <1>7, <1>8, <1>9, SamplesCut
<1>11. QED
  BY <1>3, <1>9, <1>10 DEF Fits, q

(* A profile that fits does so after RemoveUninteresting. *)
LEMMA RemoveUninterestingFits ==
    ASSUME NEW p, Fits(p)
    PROVE  Fits(RemoveUninteresting(p))
BY PruneFits DEF RemoveUninteresting

(* What a filter shows of a location is some of its lines. *)
LEMMA ShownLinesPart ==
    ASSUME NEW p, NEW l, l.lines \in Seq(Lines), NEW hide, NEW show
    PROVE  ShownLines(p, l, hide, show) \in Seq(ToSet(l.lines))
<1> DEFINE all == ToSet(l.lines)
           rest == Unhidden(p, l, hide)
<1>1. l.lines \in Seq(all)
  BY WholeSequence
<1>2. ASSUME NEW s, s \in Seq(all), NEW S PROVE Among(s, S) \in Seq(all)
  <2> HIDE DEF all
  <2>1. Among(s, S) \in Seq(all \cap S)
    BY <1>2, AmongIsPart
  <2>2. QED
    BY <2>1
<1>3. rest \in Seq(all)
  <2>1. UnmatchedLines(p, l, hide) \in Seq(all)
    <3> HIDE DEF all
    <3>1. QED
      BY <1>1, <1>2 DEF UnmatchedLines
  <2>2. QED
    BY <1>1, <2>1 DEF Unhidden
<1>4. MatchedLines(p, rest, show) \in Seq(all)
  <2> HIDE DEF rest, all
  <2>1. QED
    BY <1>2, <1>3 DEF MatchedLines
<1>5. QED
  BY <1>3, <1>4 DEF ShownLines

(* A profile that fits does so after FilterSamplesByName. *)
LEMMA FilterSamplesByNameFits ==
    ASSUME NEW p, Fits(p), NEW focus, NEW ignore, NEW hide, NEW show
    PROVE  Fits(FilterSamplesByName(p, focus, ignore, hide, show))
<1> DEFINE q == FilterSamplesByName(p, focus, ignore, hide, show)
           visible == {l \in DOMAIN p.locations : ~Hidden(p, p.locations[l], hide, show)}
           wanted == {s \in ToSet(p.samples) :
                        /\ FocusedAndNotIgnored(p, s, focus, ignore)
                        /\ ToSet(s.locations) \cap visible # {}}
           focused == Among(p.samples, wanted)
           locations == [i \in DOMAIN p.locations |-> ShownLocation(p, p.locations[i], hide, show)]
           newSamples == [i \in DOMAIN focused |-> ShownSample(focused[i], visible)]
           lines == [i \in DOMAIN p.locations |-> ShownLines(p, p.locations[i], hide, show)]
<1>1. TypesFit(p) /\ TablesFit(p) /\ SamplesFit(p)
  BY DEF Fits
<1>2. q = [p EXCEPT !.samples = newSamples, !.locations = locations]
  BY <1>1 DEF FilterSamplesByName, TypesFit
<1>4. /\ DOMAIN p.locations = 1..Len(p.locations) /\ DOMAIN p.samples = 1..Len(p.samples)
      /\ p.samples \in Seq(ToSet(p.samples))
  BY <1>1 DEF TablesFit, SamplesFit
<1>6. focused \in Seq(ToSet(p.samples))
  <2> HIDE DEF wanted
  <2>1. focused \in Seq(ToSet(p.samples) \cap wanted)
    BY <1>4, AmongIsPart
  <2>2. QED
    BY <2>1
<1>8. newSamples = [i \in DOMAIN focused |-> newSamples[i]] /\ \A i \in DOMAIN focused : newSamples[i] = ShownSample(focused[i], visible)
  OBVIOUS
<1> HIDE DEF q, locations, newSamples, visible, focused
<1>3. TypesFit(q) /\ q.types = p.types /\ q.mappings = p.mappings /\ q.functions = p.functions
      /\ q.locations = locations /\ q.samples = newSamples
  BY <1>1, <1>2 DEF TypesFit
<1>5. locations = [i \in DOMAIN p.locations |-> [p.locations[i] EXCEPT !.lines = lines[i]]]
  BY DEF locations, ShownLocation
<1>7. \A i \in 1..Len(p.locations) : lines[i] \in Seq(ToSet(p.locations[i].lines))
  BY <1>1, <1>4, LinesOf, ShownLinesPart
<1>9. ASSUME NEW i \in 1..Len(focused)
      PROVE  /\ DOMAIN newSamples[i] = DOMAIN focused[i] /\ newSamples[i].values = focused[i].values
             /\ newSamples[i].locations \in Seq(ToSet(focused[i].locations))
  <2> DEFINE s == focused[i]
  <2>1. newSamples[i] = ShownSample(s, visible)
    BY <1>6, <1>8
  <2>2. s \in ToSet(p.samples)
    BY <1>6
  <2>3. PICK j \in 1..Len(p.samples) : s = p.samples[j]
    BY <1>4, <2>2 DEF ToSet
  <2>4. s.locations \in Seq(1..Len(p.locations)) /\ {"locations", "values", "labels", "numLabels"} \subseteq DOMAIN s
    BY <2>3, StacksOf
  <2> HIDE DEF s
  <2>5. newSamples[i].locations = Among(s.locations, visible)
        /\ DOMAIN newSamples[i] = DOMAIN s /\ newSamples[i].values = s.values
    BY <2>1, <2>4 DEF ShownSample
  <2>6. s.locations \in Seq(ToSet(s.locations))
    BY <2>4, WholeSequence
  <2>7. Among(s.locations, visible) \in Seq(ToSet(s.locations) \cap visible)
    BY <2>6, AmongIsPart
  <2>8. Among(s.locations, visible) \in Seq(ToSet(s.locations))
    BY <2>7
  <2>9. QED
    BY <2>5, <2>8 DEF s
<1> HIDE DEF lines
<1>10. TablesFit(q) /\ Len(q.locations) = Len(p.locations)
  BY <1>1, <1>3, <1>5, <1>7, LinesCut
<1>11. SamplesFit(q)
  BY <1>3, <1>6, <1>8, <1>9, <1>10, SamplesCut
<1>12. QED
  BY <1>3, <1>10, <1>11 DEF Fits, q

(* Only samples change, and of these only what CheckValid does not look at. *)
LEMMA SamplesRelabelled ==
    ASSUME NEW p, Fits(p), NEW left \in Seq(ToSet(p.samples)),
           NEW newSamples, newSamples = [i \in DOMAIN left |-> newSamples[i]],
           \A i \in 1..Len(left) :
                /\ DOMAIN newSamples[i] = DOMAIN left[i] /\ newSamples[i].values = left[i].values
                /\ newSamples[i].locations = left[i].locations,
           NEW q, DOMAIN q = DOMAIN p, q.types = p.types, q.mappings = p.mappings,
           q.functions = p.functions, q.locations = p.locations, q.samples = newSamples
    PROVE  Fits(q)
<1>1. TypesFit(q) /\ TablesFit(q)
  BY DEF Fits, TypesFit, TablesFit, LocationFits
<1>2. ASSUME NEW i \in 1..Len(left) PROVE newSamples[i].locations \in Seq(ToSet(left[i].locations))
  <2>1. left[i] \in ToSet(p.samples) /\ p.samples \in Seq(ToSet(p.samples))
    BY DEF Fits, SamplesFit
  <2>2. PICK j \in 1..Len(p.samples) : left[i] = p.samples[j]
    <3>1. DOMAIN p.samples = 1..Len(p.samples)
      BY <2>1
    <3>2. QED
      BY <2>1, <3>1 DEF ToSet
  <2>3. left[i].locations \in Seq(1..Len(p.locations))
    BY <2>2, StacksOf
  <2>4. left[i].locations \in Seq(ToSet(left[i].locations))
    BY <2>3, WholeSequence
  <2>5. QED
    BY <2>4
<1>3. SamplesFit(q)
  BY <1>2, SamplesCut
<1>4. QED
  BY <1>1, <1>3 DEF Fits

(* A profile that fits does so after FilterSamplesByTag. *)
LEMMA FilterSamplesByTagFits ==
    ASSUME NEW p, Fits(p), NEW focus, NEW ignore
    PROVE  Fits(FilterSamplesByTag(p, focus, ignore))
<1> DEFINE q == FilterSamplesByTag(p, focus, ignore)
           Tagged(s, key) == key \in DOMAIN s.labels \cup DOMAIN s.numLabels
           wanted == {s \in ToSet(p.samples) : /\ focus = NoRegexp \/ Tagged(s, focus)
                                               /\ ~(ignore # NoRegexp /\ Tagged(s, ignore))}
           left == Among(p.samples, wanted)
<1>1. TypesFit(p) /\ p.samples \in Seq(ToSet(p.samples))
  BY DEF Fits, SamplesFit
<1>2. q = [p EXCEPT !.samples = left]
  BY <1>1 DEF FilterSamplesByTag, TypesFit
<1>3. left \in Seq(ToSet(p.samples))
  <2> HIDE DEF wanted
  <2>1. left \in Seq(ToSet(p.samples) \cap wanted)
    BY <1>1, AmongIsPart
  <2>2. QED
    BY <2>1
<1> HIDE DEF q, left
<1>4. /\ DOMAIN q = DOMAIN p /\ q.types = p.types /\ q.mappings = p.mappings
      /\ q.functions = p.functions /\ q.locations = p.locations /\ q.samples = left
  BY <1>1, <1>2 DEF TypesFit
<1>5. left = [i \in DOMAIN left |-> left[i]]
  BY <1>3
<1>6. QED
  BY <1>3, <1>4, <1>5, SamplesRelabelled DEF q

(* A profile that fits does so after FilterTagsByName. *)
LEMMA FilterTagsByNameFits ==
    ASSUME NEW p, Fits(p), NEW show, NEW hide
    PROVE  Fits(FilterTagsByName(p, show, hide))
<1> DEFINE q == FilterTagsByName(p, show, hide)
           newSamples == [i \in DOMAIN p.samples |-> TaggedSample(p.samples[i], show, hide)]
<1>1. TypesFit(p) /\ p.samples \in Seq(ToSet(p.samples)) /\ DOMAIN p.samples = 1..Len(p.samples)
  BY DEF Fits, SamplesFit
<1>2. q = [p EXCEPT !.samples = newSamples]
  BY <1>1 DEF FilterTagsByName, TypesFit
<1>3. \A i \in 1..Len(p.samples) :
        /\ DOMAIN newSamples[i] = DOMAIN p.samples[i] /\ newSamples[i].values = p.samples[i].values
        /\ newSamples[i].locations = p.samples[i].locations
  <2> SUFFICES ASSUME NEW i \in 1..Len(p.samples)
               PROVE  /\ DOMAIN newSamples[i] = DOMAIN p.samples[i] /\ newSamples[i].values = p.samples[i].values
                      /\ newSamples[i].locations = p.samples[i].locations
    OBVIOUS
  <2>1. newSamples[i] = TaggedSample(p.samples[i], show, hide)
    BY <1>1
  <2>2. {"locations", "values", "labels", "numLabels"} \subseteq DOMAIN p.samples[i]
    BY StacksOf
  <2>3. QED
    BY <2>1, <2>2, Zenon DEF TaggedSample
<1>4. newSamples = [i \in DOMAIN p.samples |-> newSamples[i]]
  OBVIOUS
<1> HIDE DEF q, newSamples
<1>5. /\ DOMAIN q = DOMAIN p /\ q.types = p.types /\ q.mappings = p.mappings
      /\ q.functions = p.functions /\ q.locations = p.locations /\ q.samples = newSamples
  BY <1>1, <1>2 DEF TypesFit
<1>6. QED
  BY <1>1, <1>3, <1>4, <1>5, SamplesRelabelled DEF q

-------------------------------------------------------------------------------
(* A table whose entries keep their IDs is numbered as before. *)
LEMMA StillNumbered ==
    ASSUME NEW T, NEW table \in Seq(T), Numbered(table), NEW new,
           new = [i \in DOMAIN table |-> new[i]],
           \A i \in 1..Len(table) : new[i] \in T /\ new[i].id = table[i].id
    PROVE  new \in Seq(T) /\ Len(new) = Len(table) /\ Numbered(new)
<1>1. DOMAIN table = 1..Len(table) /\ Len(table) \in Nat
  OBVIOUS
<1>2. new \in Seq(T) /\ Len(new) = Len(table)
  BY <1>1
<1>3. QED
  BY <1>2 DEF Numbered

(* The same samples fit tables with as many locations. *)
LEMMA SamplesKept ==
    ASSUME NEW p, Fits(p), NEW q, TypesFit(q), TablesFit(q), q.types = p.types,
           Len(q.locations) = Len(p.locations), q.samples = p.samples
    PROVE  Fits(q)
<1>1. SamplesFit(q)
  BY DEF Fits, SamplesFit, SampleFits
<1>2. QED
  BY <1>1 DEF Fits

(* Aggregation leaves the IDs and references of an entry (Aggregate). *)
LEMMA AggregatedEntries ==
    ASSUME NEW keep
    PROVE  /\ \A m \in Mappings : AggregatedMapping(m, keep) \in Mappings /\ AggregatedMapping(m, keep).id = m.id
           /\ \A f \in Functions : AggregatedFunction(f, keep) \in Functions /\ AggregatedFunction(f, keep).id = f.id
           /\ \A ln \in Lines : AggregatedLine(ln, keep) \in Lines /\ AggregatedLine(ln, keep).function = ln.function
<1>1. ASSUME NEW m \in Mappings
      PROVE  AggregatedMapping(m, keep) \in Mappings /\ AggregatedMapping(m, keep).id = m.id
  <2>1. m.has \cap keep \in SUBSET STRING
    BY DEF Mappings
  <2>2. QED
    BY <2>1 DEF AggregatedMapping, Mappings
<1>2. ASSUME NEW f \in Functions
      PROVE  AggregatedFunction(f, keep) \in Functions /\ AggregatedFunction(f, keep).id = f.id
  <2> DEFINE name == IF "functions" \in keep THEN f.name ELSE ""
             file == IF "filenames" \in keep THEN f.file ELSE ""
  <2>6. f.name \in STRING /\ f.file \in STRING
    BY DEF Functions
  <2>5. "" \in STRING
    BY EmptyName, Zenon
  <2>3. f.name \in STRING /\ f.file \in STRING /\ "" \in STRING
    BY <2>6, <2>5, Zenon
  <2>1. name \in STRING /\ file \in STRING
    BY ONLY <2>3, Zenon DEF name, file
  <2>2. AggregatedFunction(f, keep) = [f EXCEPT !.name = name, !.file = file]
    BY DEF AggregatedFunction, Functions
  <2> HIDE DEF name, file
  <2>4. QED
    BY <2>1, <2>2 DEF Functions
<1>3. ASSUME NEW ln \in Lines
      PROVE  AggregatedLine(ln, keep) \in Lines /\ AggregatedLine(ln, keep).function = ln.function
  BY DEF AggregatedLine, Lines
<1>4. QED
  BY <1>1, <1>2, <1>3

(* A location fits after aggregation, and keeps its ID (Aggregate). *)
LEMMA AggregatedLocationFits ==
    ASSUME NEW p, NEW l, LocationFits(p, l), NEW keep
    PROVE  LocationFits(p, AggregatedLocation(l, keep)) /\ AggregatedLocation(l, keep).id = l.id
<1> DEFINE lines == IF "inlines" \notin keep /\ Len(l.lines) > 1 THEN <<Last(l.lines)>> ELSE l.lines
           address == IF "addresses" \in keep THEN l.address ELSE 0
           new == [j \in DOMAIN lines |-> AggregatedLine(lines[j], keep)]
<1>1. l \in Locations /\ l.lines \in Seq(Lines) /\ l.mapping \in 0..Len(p.mappings)
      /\ \A j \in 1..Len(l.lines) : l.lines[j] \in Lines /\ l.lines[j].function \in 0..Len(p.functions)
  BY DEF LocationFits, Locations
<1>2. lines \in Seq(Lines) /\ \A j \in 1..Len(lines) : lines[j].function \in 0..Len(p.functions)
  <2>1. CASE "inlines" \notin keep /\ Len(l.lines) > 1
    <3>1. Last(l.lines) = l.lines[Len(l.lines)] /\ Len(l.lines) \in 1..Len(l.lines)
      BY <1>1, <2>1 DEF Last
    <3>2. Last(l.lines) \in Lines /\ Last(l.lines).function \in 0..Len(p.functions)
      BY <1>1, <3>1
    <3>3. QED
      BY <2>1, <3>2
  <2>2. CASE ~("inlines" \notin keep /\ Len(l.lines) > 1)
    BY <1>1, <2>2
  <2>3. QED
    BY <2>1, <2>2
<1>3. AggregatedLocation(l, keep) = [l EXCEPT !.lines = new, !.address = address]
  BY DEF AggregatedLocation
<1>4. address \in Int
  BY <1>1 DEF Locations
<1> HIDE DEF lines, address
<1>5. \A j \in 1..Len(lines) : AggregatedLine(lines[j], keep) \in Lines
                               /\ AggregatedLine(lines[j], keep).function = lines[j].function
  <2>1. \A j \in 1..Len(lines) : lines[j] \in Lines
    BY <1>2
  <2>2. QED
    BY ONLY <2>1, AggregatedEntries
<1>6. new \in Seq(Lines) /\ Len(new) = Len(lines) /\ \A j \in 1..Len(new) : new[j].function \in 0..Len(p.functions)
  <2>1. DOMAIN lines = 1..Len(lines) /\ Len(lines) \in Nat
    BY <1>2
  <2>2. QED
    BY <1>2, <1>5, <2>1
<1> HIDE DEF new
<1>7. [l EXCEPT !.lines = new, !.address = address] \in Locations
  BY <1>1, <1>4, <1>6 DEF Locations
<1>8. QED
  BY <1>1, <1>3, <1>6, <1>7 DEF LocationFits, Locations

(* A profile that fits does so after Aggregate. *)
LEMMA AggregateFits ==
    ASSUME NEW p, Fits(p), NEW keep
    PROVE  Fits(Aggregate(p, keep))
<1> DEFINE q == Aggregate(p, keep)
           mappings == [i \in DOMAIN p.mappings |-> AggregatedMapping(p.mappings[i], keep)]
           functions == [i \in DOMAIN p.functions |-> AggregatedFunction(p.functions[i], keep)]
           locations == [i \in DOMAIN p.locations |-> AggregatedLocation(p.locations[i], keep)]
<1>1. TypesFit(p) /\ TablesFit(p) /\ SamplesFit(p)
  BY DEF Fits
<1>2. q = [p EXCEPT !.mappings = mappings, !.functions = functions, !.locations = locations]
  BY <1>1 DEF Aggregate, TypesFit
<1>3. mappings \in Seq(Mappings) /\ Len(mappings) = Len(p.mappings) /\ Numbered(mappings)
  <2>1. \A i \in 1..Len(p.mappings) : mappings[i] \in Mappings /\ mappings[i].id = p.mappings[i].id
    <3>1. p.mappings \in Seq(Mappings)
      BY <1>1 DEF TablesFit
    <3>4. \A i \in 1..Len(p.mappings) : p.mappings[i] \in Mappings
      BY <3>1
    <3>2. \A i \in 1..Len(p.mappings) : mappings[i] = AggregatedMapping(p.mappings[i], keep)
      BY <3>1
    <3> HIDE DEF mappings
    <3>3. \A x \in Mappings : AggregatedMapping(x, keep) \in Mappings /\ AggregatedMapping(x, keep).id = x.id
      BY AggregatedEntries
    <3>5. QED
      BY <3>2, <3>3, <3>4
  <2> mappings = [i \in DOMAIN p.mappings |-> mappings[i]]
    OBVIOUS
  <2> HIDE DEF mappings
  <2>2. QED
    BY <1>1, <2>1, StillNumbered DEF TablesFit
<1>4. functions \in Seq(Functions) /\ Len(functions) = Len(p.functions) /\ Numbered(functions)
  <2>1. \A i \in 1..Len(p.functions) : functions[i] \in Functions /\ functions[i].id = p.functions[i].id
    <3>1. p.functions \in Seq(Functions)
      BY <1>1 DEF TablesFit
    <3>4. \A i \in 1..Len(p.functions) : p.functions[i] \in Functions
      BY <3>1
    <3>2. \A i \in 1..Len(p.functions) : functions[i] = AggregatedFunction(p.functions[i], keep)
      BY <3>1
    <3> HIDE DEF functions
    <3>3. \A x \in Functions : AggregatedFunction(x, keep) \in Functions /\ AggregatedFunction(x, keep).id = x.id
      BY AggregatedEntries
    <3>5. QED
      BY <3>2, <3>3, <3>4
  <2> functions = [i \in DOMAIN p.functions |-> functions[i]]
    OBVIOUS
  <2> HIDE DEF functions
  <2>2. QED
    BY <1>1, <2>1, StillNumbered DEF TablesFit
<1>5. \A i \in 1..Len(p.locations) : LocationFits(p, locations[i]) /\ locations[i].id = p.locations[i].id
  BY <1>1, AggregatedLocationFits DEF TablesFit
<1>6. locations \in Seq(Locations) /\ Len(locations) = Len(p.locations) /\ Numbered(locations)
  <2>1. \A i \in 1..Len(p.locations) : locations[i] \in Locations /\ locations[i].id = p.locations[i].id
    BY <1>5 DEF LocationFits
  <2> locations = [i \in DOMAIN p.locations |-> locations[i]]
    OBVIOUS
  <2> HIDE DEF locations
  <2>2. QED
    BY <1>1, <2>1, StillNumbered DEF TablesFit
<1> HIDE DEF q, mappings, functions, locations
<1>7. TypesFit(q) /\ q.types = p.types /\ q.mappings = mappings /\ q.functions = functions
      /\ q.locations = locations /\ q.samples = p.samples
  BY <1>1, <1>2 DEF TypesFit
<1>8. TablesFit(q)
  BY <1>3, <1>4, <1>5, <1>6, <1>7 DEF TablesFit, LocationFits
<1>9. QED
  BY <1>6, <1>7, <1>8, SamplesKept DEF q

(* A scaled value is an integer (ScaleN). *)
LEMMA TruncatedIsInt ==
    ASSUME NEW n \in Int, NEW d \in Nat \ {0}
    PROVE  Truncated(n, d) \in Int
BY DEF Truncated

(* A profile that fits does so after ScaleN. *)
LEMMA ScaleNFits ==
    ASSUME NEW p, Fits(p), NEW ratios,
           \A j \in 1..Len(p.types) : ratios[j].num \in Int /\ ratios[j].den \in Nat \ {0}
    PROVE  Fits(ScaleN(p, ratios))
<1> DEFINE q == ScaleN(p, ratios)
           newSamples == [i \in DOMAIN p.samples |-> ScaledSample(p.samples[i], ratios)]
<1>1. TypesFit(p) /\ TablesFit(p) /\ SamplesFit(p)
  BY DEF Fits
<1>2. q = [p EXCEPT !.samples = newSamples]
  BY <1>1 DEF ScaleN, TypesFit
<1>3. p.samples \in Seq(ToSet(p.samples)) /\ DOMAIN p.samples = 1..Len(p.samples)
  BY <1>1 DEF SamplesFit
<1>4. ASSUME NEW i \in 1..Len(p.samples) PROVE SampleFits(p, newSamples[i])
  <2> DEFINE s == p.samples[i]
             values == [j \in DOMAIN s.values |-> Truncated(s.values[j] * ratios[j].num, ratios[j].den)]
  <2>1. /\ {"locations", "values", "labels", "numLabels"} \subseteq DOMAIN s
        /\ s.locations \in Seq(1..Len(p.locations))
        /\ s.values \in Seq(Int) /\ Len(s.values) = Len(p.types)
    BY <1>1 DEF SamplesFit, SampleFits
  <2>2. newSamples[i] = ScaledSample(s, ratios)
    BY <1>3
  <2> HIDE DEF s
  <2>3. newSamples[i] = [s EXCEPT !.values = values]
    BY <2>2 DEF ScaledSample
  <2>4. DOMAIN s.values = 1..Len(p.types) /\ Len(p.types) \in Nat
    BY <2>1
  <2>5. \A j \in 1..Len(p.types) : Truncated(s.values[j] * ratios[j].num, ratios[j].den) \in Int
    <3> SUFFICES ASSUME NEW j \in 1..Len(p.types)
                 PROVE  Truncated(s.values[j] * ratios[j].num, ratios[j].den) \in Int
      OBVIOUS
    <3>1. s.values[j] \in Int /\ ratios[j].num \in Int /\ ratios[j].den \in Nat \ {0}
      BY <2>1
    <3>2. s.values[j] * ratios[j].num \in Int
      BY <3>1
    <3>3. QED
      BY <3>1, <3>2, TruncatedIsInt
  <2>6. values \in Seq(Int) /\ Len(values) = Len(p.types)
    BY <2>4, <2>5
  <2> HIDE DEF values, newSamples
  <2>7. /\ DOMAIN newSamples[i] = DOMAIN s /\ newSamples[i].values = values
        /\ newSamples[i].locations = s.locations
    BY <2>1, <2>3
  <2>8. QED
    BY <2>1, <2>6, <2>7 DEF SampleFits
<1>5. newSamples \in Seq(ToSet(newSamples)) /\ Len(newSamples) = Len(p.samples)
  <2>1. newSamples = [i \in 1..Len(p.samples) |-> newSamples[i]] /\ Len(p.samples) \in Nat
    BY <1>3
  <2> HIDE DEF newSamples
  <2>2. QED
    BY <2>1, MadeOf
<1> HIDE DEF q, newSamples
<1>6. /\ DOMAIN q = DOMAIN p /\ q.types = p.types /\ q.mappings = p.mappings
      /\ q.functions = p.functions /\ q.locations = p.locations /\ q.samples = newSamples
  BY <1>1, <1>2 DEF TypesFit
<1>7. TypesFit(q) /\ TablesFit(q)
  BY <1>1, <1>6 DEF TypesFit, TablesFit, LocationFits
<1>8. SamplesFit(q)
  BY <1>1, <1>4, <1>5, <1>6 DEF SamplesFit, SampleFits
<1>9. QED
  BY <1>7, <1>8 DEF Fits, q

-------------------------------------------------------------------------------
(* Joined, by induction over the mappings. *)
JoinWith(c, acc, m) == Join(acc, m)
JoinedOf(c, i, acc) ==
    acc.kept \in Seq(Mappings) /\ acc.into \in Seq(1..Len(acc.kept)) /\ Len(acc.into) = i
JoinFold == INSTANCE FoldLaws WITH Op <- JoinWith, Holds <- JoinedOf

(* Joined is a fold of Join. *)
LEMMA JoinedIsFold ==
    ASSUME NEW mappings
    PROVE  Joined(mappings) = JoinFold!Fold(Nil, [kept |-> <<>>, into |-> <<>>], mappings)
BY Zenon DEF Joined, JoinWith, JoinFold!Fold, FoldLeft, MapThenFoldSet,
   JoinFold!MapThenFoldSet, JoinFold!Largest, Max

(* A sequence with one of its elements replaced. *)
LEMMA ReplacedAt ==
    ASSUME NEW T, NEW seq \in Seq(T), NEW i, NEW x \in T
    PROVE  [seq EXCEPT ![i] = x] \in Seq(T) /\ Len([seq EXCEPT ![i] = x]) = Len(seq)
<1> DEFINE new == [seq EXCEPT ![i] = x]
<1>1. DOMAIN seq = 1..Len(seq) /\ Len(seq) \in Nat
  OBVIOUS
<1>2. new = [j \in DOMAIN seq |-> IF j = i THEN x ELSE seq[j]]
  OBVIOUS
<1>3. \A j \in 1..Len(seq) : (IF j = i THEN x ELSE seq[j]) \in T
  OBVIOUS
<1> HIDE DEF new
<1>4. new \in Seq(T) /\ Len(new) = Len(seq)
  BY <1>1, <1>2, <1>3
<1>5. QED
  BY <1>4 DEF new

(* A mapping that is extended by the next is a mapping. *)
LEMMA ExtendedIsMapping ==
    ASSUME NEW old \in Mappings, NEW m \in Mappings
    PROVE  Extended(old, m) \in Mappings
<1> DEFINE file == Named(m.file, old.file)
           build == Named(m.build, old.build)
<1>1. file \in STRING /\ build \in STRING /\ m.limit \in Int
  BY Zenon DEF Named, Mappings
<1>2. Extended(old, m) = [old EXCEPT !.limit = m.limit, !.file = file, !.build = build]
  BY DEF Extended, Mappings
<1> HIDE DEF file, build
<1>3. QED
  BY <1>1, <1>2 DEF Mappings

(* One more mapping is kept, or joined to the last that was. *)
LEMMA JoinStep ==
    ASSUME NEW i \in Nat \ {0}, NEW acc, JoinedOf(Nil, i - 1, acc), NEW m \in Mappings
    PROVE  JoinedOf(Nil, i, Join(acc, m))
<1> DEFINE n == Len(acc.kept)
           joins == acc.kept # <<>> /\ Adjacent(Last(acc.kept), m)
<1>1. acc.kept \in Seq(Mappings) /\ acc.into \in Seq(1..n) /\ Len(acc.into) = i - 1 /\ n \in Nat
  BY DEF JoinedOf
<1>2. CASE joins
  <2> DEFINE kept == [acc.kept EXCEPT ![n] = Extended(acc.kept[n], m)]
             into == Append(acc.into, n)
  <2>1. n \in 1..n
    BY <1>1, <1>2
  <2>2. acc.kept[n] \in Mappings
    BY <1>1, <2>1
  <2>3. Extended(acc.kept[n], m) \in Mappings
    BY <2>2, ExtendedIsMapping
  <2>4. kept \in Seq(Mappings) /\ Len(kept) = n
    BY <1>1, <2>3, ReplacedAt
  <2>5. into \in Seq(1..n) /\ Len(into) = i
    BY <1>1, <2>1
  <2>6. Join(acc, m) = [kept |-> kept, into |-> into]
    BY <1>2 DEF Join
  <2> HIDE DEF kept, into, n
  <2>7. QED
    BY <2>4, <2>5, <2>6 DEF JoinedOf
<1>3. CASE ~joins
  <2> DEFINE kept == Append(acc.kept, m)
             into == Append(acc.into, n + 1)
  <2>1. kept \in Seq(Mappings) /\ Len(kept) = n + 1
    BY <1>1
  <2>2. acc.into \in Seq(1..n+1) /\ n + 1 \in 1..n+1
    BY <1>1
  <2>3. into \in Seq(1..n+1) /\ Len(into) = i
    BY <1>1, <2>2
  <2>4. Join(acc, m) = [kept |-> kept, into |-> into]
    BY <1>3 DEF Join
  <2> HIDE DEF kept, into, n
  <2>5. QED
    BY <2>1, <2>3, <2>4 DEF JoinedOf
<1>4. QED
  BY <1>2, <1>3

(* Each mapping has a place among those that are kept. *)
LEMMA JoinedFits ==
    ASSUME NEW mappings \in Seq(Mappings)
    PROVE  JoinedOf(Nil, Len(mappings), Joined(mappings))
<1>1. Len(mappings) \in Nat /\ DOMAIN mappings = 1..Len(mappings)
  OBVIOUS
<1>2. JoinedOf(Nil, 0, [kept |-> <<>>, into |-> <<>>])
  BY DEF JoinedOf
<1>3. ASSUME NEW i \in 1..Len(mappings), NEW acc, JoinedOf(Nil, i - 1, acc)
      PROVE  JoinedOf(Nil, i, JoinWith(Nil, acc, mappings[i]))
  <2>1. i \in Nat \ {0} /\ mappings[i] \in Mappings
    OBVIOUS
  <2>2. QED
    BY <1>3, <2>1, JoinStep DEF JoinWith
<1>4. JoinedOf(Nil, Len(mappings), JoinFold!Fold(Nil, [kept |-> <<>>, into |-> <<>>], mappings))
  BY <1>1, <1>2, <1>3, JoinFold!FoldInduction
<1>5. QED
  BY <1>4, JoinedIsFold

(* A profile that fits does so after massageMappings. *)
LEMMA MassageMappingsFits ==
    ASSUME NEW p, Fits(p)
    PROVE  Fits(MassageMappings(p))
<1> DEFINE q == MassageMappings(p)
           joined == Joined(p.mappings)
           n == Len(joined.kept)
           I == {i \in 1..n : joined.kept[i].file \notin Libraries \cup {""}}
           main == IF I # {} THEN Min(I) ELSE 0
           NewPlace(i) == IF main = 0 THEN i ELSE IF i = main THEN 1 ELSE IF i = 1 THEN main ELSE i
           Moved(l) == [l EXCEPT !.mapping = IF l.mapping = Nil THEN Nil ELSE NewPlace(joined.into[l.mapping])]
           mappings == [i \in DOMAIN joined.kept |-> [joined.kept[NewPlace(i)] EXCEPT !.id = i]]
           locations == [i \in DOMAIN p.locations |-> Moved(p.locations[i])]
<1>1. TypesFit(p) /\ TablesFit(p) /\ SamplesFit(p)
  BY DEF Fits
<1>2. q = [p EXCEPT !.mappings = mappings, !.locations = locations]
  BY <1>1 DEF MassageMappings, TypesFit, SelectInSeq, Nil
<1>3. joined.kept \in Seq(Mappings) /\ joined.into \in Seq(1..n) /\ Len(joined.into) = Len(p.mappings)
      /\ n \in Nat
  BY <1>1, JoinedFits DEF TablesFit, JoinedOf
<1>4. main \in 0..n
  <2> HIDE DEF joined
  <2>1. QED
    BY <1>3, LastPlace, Zenon
<1> HIDE DEF main, joined
<1>5. \A i \in 1..n : NewPlace(i) \in 1..n
  BY <1>3, <1>4
<1>6. \A i \in 1..n : joined.kept[NewPlace(i)] \in Mappings
  BY <1>3, <1>5
<1> HIDE DEF NewPlace
<1>7. \A i \in 1..n : [joined.kept[NewPlace(i)] EXCEPT !.id = i] \in Mappings
                      /\ [joined.kept[NewPlace(i)] EXCEPT !.id = i].id = i
  <2>1. ASSUME NEW m \in Mappings, NEW i \in Nat
        PROVE  [m EXCEPT !.id = i] \in Mappings /\ [m EXCEPT !.id = i].id = i
    BY DEF Mappings
  <2>2. \A i \in 1..n : i \in Nat
    BY <1>3
  <2>3. QED
    BY <1>6, <2>1, <2>2
<1>8. mappings \in Seq(Mappings) /\ Len(mappings) = n /\ \A i \in 1..n : mappings[i].id = i
  <2>1. DOMAIN joined.kept = 1..n
    BY <1>3
  <2>2. QED
    BY <1>3, <1>7, <2>1
<1> HIDE DEF mappings, n
<1>9. Numbered(mappings)
  BY <1>3, <1>8 DEF Numbered
<1>10. ASSUME NEW i \in 1..Len(p.locations)
       PROVE  /\ Moved(p.locations[i]) \in Locations /\ Moved(p.locations[i]).id = p.locations[i].id
              /\ Moved(p.locations[i]).mapping \in 0..n
              /\ Moved(p.locations[i]).lines = p.locations[i].lines
  <2> DEFINE l == p.locations[i]
             new == IF l.mapping = Nil THEN Nil ELSE NewPlace(joined.into[l.mapping])
  <2>1. l \in Locations /\ l.mapping \in 0..Len(p.mappings)
    BY <1>1 DEF TablesFit, LocationFits
  <2> HIDE DEF l
  <2>2. l.mapping # 0 => joined.into[l.mapping] \in 1..n
    BY <1>3, <2>1
  <2>3. new \in 0..n
    BY <1>3, <1>5, <2>2 DEF Nil
  <2>4. Moved(l) = [l EXCEPT !.mapping = new]
    OBVIOUS
  <2> HIDE DEF new, Moved
  <2>5. new \in Nat
    BY <1>3, <2>3
  <2>6. QED
    BY <2>1, <2>3, <2>4, <2>5 DEF Locations, l
<1> HIDE DEF Moved
<1>11. locations \in Seq(Locations) /\ Len(locations) = Len(p.locations) /\ Numbered(locations)
  <2>1. DOMAIN p.locations = 1..Len(p.locations) /\ p.locations \in Seq(Locations) /\ Numbered(p.locations)
    BY <1>1 DEF TablesFit
  <2>2. \A i \in 1..Len(p.locations) : locations[i] \in Locations /\ locations[i].id = p.locations[i].id
    BY <1>10, <2>1
  <2>3. locations = [i \in DOMAIN p.locations |-> locations[i]]
    OBVIOUS
  <2> HIDE DEF locations
  <2>4. QED
    BY <2>1, <2>2, <2>3, StillNumbered
<1>12. \A i \in 1..Len(p.locations) : locations[i] = Moved(p.locations[i])
  <2>1. DOMAIN p.locations = 1..Len(p.locations)
    BY <1>1 DEF TablesFit
  <2>2. QED
    BY <2>1
<1> HIDE DEF q, locations
<1>13. TypesFit(q) /\ q.types = p.types /\ q.mappings = mappings /\ q.functions = p.functions
       /\ q.locations = locations /\ q.samples = p.samples
  BY <1>1, <1>2 DEF TypesFit
<1>14. ASSUME NEW i \in 1..Len(q.locations) PROVE LocationFits(q, q.locations[i])
  <2>1. i \in 1..Len(p.locations) /\ q.locations[i] = Moved(p.locations[i])
    BY <1>11, <1>12, <1>13, <1>14
  <2>2. LocationFits(p, p.locations[i])
    BY <1>1, <2>1 DEF TablesFit
  <2>3. QED
    BY <1>8, <1>10, <1>13, <2>1, <2>2 DEF LocationFits
<1>15. TablesFit(q)
  BY <1>1, <1>8, <1>9, <1>11, <1>13, <1>14 DEF TablesFit
<1>16. QED
  BY <1>11, <1>13, <1>15, SamplesKept DEF q

-------------------------------------------------------------------------------
(* An ID that is in the table is found at one of its places. *)
LEMMA LookupInTable ==
    ASSUME NEW T, NEW table \in Seq(T), NEW id
    PROVE  /\ Lookup(table, id) \in 0..Len(table)
           /\ (\E i \in 1..Len(table) : table[i].id = id) => Lookup(table, id) \in 1..Len(table)
<1> DEFINE I == {i \in 1..Len(table) : table[i].id = id}
<1>1. I \in SUBSET (1..Len(table)) /\ Len(table) \in Nat
  OBVIOUS
<1>2. Lookup(table, id) = IF I # {} THEN Max(I) ELSE 0
  BY DEF Lookup, SelectLastInSeq
<1>3. (\E i \in 1..Len(table) : table[i].id = id) => I # {}
  OBVIOUS
<1> HIDE DEF I
<1>4. I # {} => Max(I) \in I
  BY ONLY <1>1, MaxOfIndices
<1>5. I # {} => Max(I) \in 1..Len(table)
  BY <1>1, <1>4
<1>6. QED
  BY <1>1, <1>2, <1>3, <1>5

(* A line is decoded to one that refers to a function, or to none. *)
LEMMA DecodedLineFits ==
    ASSUME NEW w, w.functions \in Seq(Functions), NEW ln \in Lines
    PROVE  DecodedLine(w, ln) \in Lines /\ DecodedLine(w, ln).function \in 0..Len(w.functions)
<1> DEFINE f == IF ln.function = 0 THEN Nil ELSE Lookup(w.functions, ln.function)
<1>1. f \in 0..Len(w.functions) /\ Len(w.functions) \in Nat
  <2>1. Lookup(w.functions, ln.function) \in 0..Len(w.functions)
    BY LookupInTable
  <2>2. QED
    BY <2>1 DEF Nil
<1>2. DecodedLine(w, ln) = [ln EXCEPT !.function = f]
  BY DEF DecodedLine
<1> HIDE DEF f
<1>3. f \in Nat
  BY <1>1
<1>4. QED
  BY <1>1, <1>2, <1>3 DEF Lines

(* A location is decoded to one that fits. *)
LEMMA DecodedLocationFits ==
    ASSUME NEW w, w.functions \in Seq(Functions), w.mappings \in Seq(Mappings), NEW l \in Locations
    PROVE  LocationFits(w, DecodedLocation(w, l)) /\ DecodedLocation(w, l).id = l.id
<1> DEFINE m == Lookup(w.mappings, l.mapping)
           lines == [j \in DOMAIN l.lines |-> DecodedLine(w, l.lines[j])]
<1>1. m \in 0..Len(w.mappings) /\ m \in Nat
  <2>1. Lookup(w.mappings, l.mapping) \in 0..Len(w.mappings) /\ Len(w.mappings) \in Nat
    BY LookupInTable
  <2>2. QED
    BY <2>1
<1>2. DecodedLocation(w, l) = [l EXCEPT !.mapping = m, !.lines = lines]
  BY DEF DecodedLocation, Locations
<1>3. l.lines \in Seq(Lines) /\ DOMAIN l.lines = 1..Len(l.lines) /\ Len(l.lines) \in Nat
  BY DEF Locations
<1>4. \A j \in 1..Len(l.lines) : /\ DecodedLine(w, l.lines[j]) \in Lines
                                 /\ DecodedLine(w, l.lines[j]).function \in 0..Len(w.functions)
  <2>1. \A j \in 1..Len(l.lines) : l.lines[j] \in Lines
    BY <1>3
  <2>2. QED
    BY <2>1, DecodedLineFits
<1>5. lines \in Seq(Lines) /\ Len(lines) = Len(l.lines)
      /\ \A j \in 1..Len(lines) : lines[j].function \in 0..Len(w.functions)
  BY <1>3, <1>4
<1> HIDE DEF m, lines
<1>6. QED
  BY <1>1, <1>2, <1>5 DEF LocationFits, Locations

(* What a message decodes to, piece by piece. *)
Decodes(w, q) ==
    /\ {"types", "samples", "mappings", "functions", "locations"} \subseteq DOMAIN q
    /\ q.types = w.types /\ q.mappings = w.mappings /\ q.functions = w.functions
    /\ q.locations \in Seq(Locations) /\ Len(q.locations) = Len(w.locations)
    /\ \A i \in 1..Len(w.locations) : LocationFits(q, q.locations[i]) /\ q.locations[i].id = w.locations[i].id
    /\ q.samples \in Seq(ToSet(q.samples)) /\ Len(q.samples) = Len(w.samples)
    /\ \A i \in 1..Len(w.samples) : q.samples[i] = DecodedSample(w, w.samples[i])

(* postDecode decodes so. *)
LEMMA PostDecodeDecodes ==
    ASSUME NEW w, {"types", "samples", "mappings", "functions", "locations"} \subseteq DOMAIN w,
           w.functions \in Seq(Functions), w.mappings \in Seq(Mappings), w.locations \in Seq(Locations),
           w.samples \in Seq(ToSet(w.samples))
    PROVE  Decodes(w, PostDecode(w))
<1> DEFINE q == PostDecode(w)
           locations == [i \in DOMAIN w.locations |-> DecodedLocation(w, w.locations[i])]
           newSamples == [i \in DOMAIN w.samples |-> DecodedSample(w, w.samples[i])]
<1>1. q = [w EXCEPT !.locations = locations, !.samples = newSamples]
  BY DEF PostDecode
<1>2. DOMAIN w.locations = 1..Len(w.locations) /\ Len(w.locations) \in Nat
      /\ DOMAIN w.samples = 1..Len(w.samples) /\ Len(w.samples) \in Nat
  OBVIOUS
<1>3. \A i \in 1..Len(w.locations) :
        /\ DecodedLocation(w, w.locations[i]) \in Locations
        /\ LocationFits(w, DecodedLocation(w, w.locations[i]))
        /\ DecodedLocation(w, w.locations[i]).id = w.locations[i].id
  <2>1. \A i \in 1..Len(w.locations) : w.locations[i] \in Locations
    OBVIOUS
  <2>2. QED
    BY <2>1, DecodedLocationFits DEF LocationFits
<1>4. locations \in Seq(Locations) /\ Len(locations) = Len(w.locations)
      /\ \A i \in 1..Len(w.locations) : locations[i] = DecodedLocation(w, w.locations[i])
  BY <1>2, <1>3
<1>5. \A i \in 1..Len(w.samples) : newSamples[i] = DecodedSample(w, w.samples[i])
  BY <1>2
<1>6. newSamples \in Seq(ToSet(newSamples)) /\ Len(newSamples) = Len(w.samples)
  <2>1. newSamples = [i \in 1..Len(w.samples) |-> newSamples[i]]
    BY <1>2
  <2> HIDE DEF newSamples
  <2>2. QED
    BY <1>2, <2>1, MadeOf
<1> HIDE DEF q, locations, newSamples
<1>7. /\ DOMAIN q = DOMAIN w /\ q.types = w.types /\ q.mappings = w.mappings
      /\ q.functions = w.functions /\ q.locations = locations /\ q.samples = newSamples
  BY <1>1
<1>8. \A i \in 1..Len(w.locations) : LocationFits(q, q.locations[i]) /\ q.locations[i].id = w.locations[i].id
  BY <1>3, <1>4, <1>7 DEF LocationFits
<1>9. QED
  BY <1>4, <1>5, <1>6, <1>7, <1>8 DEF Decodes, q

(* What a message is decoded to is a profile. *)
LEMMA PostDecodeIsProfile ==
    ASSUME NEW w, IsMessage(w)
    PROVE  IsProfile(PostDecode(w))
<1> DEFINE q == PostDecode(w)
<1>1. Decodes(w, q)
  BY PostDecodeDecodes DEF IsMessage
<1> HIDE DEF q
<1>2. ASSUME NEW s \in ToSet(q.samples)
      PROVE  /\ {"locations", "values", "labels", "numLabels"} \subseteq DOMAIN s
             /\ s.locations \in Seq(Nat) /\ s.values \in Seq(Int)
             /\ ToSet(s.locations) \subseteq 0..Len(q.locations)
  <2>1. q.samples \in Seq(ToSet(q.samples)) /\ w.samples \in Seq(ToSet(w.samples))
        /\ Len(q.samples) = Len(w.samples)
    BY <1>1 DEF Decodes, IsMessage
  <2>2. PICK i \in 1..Len(w.samples) : s = q.samples[i]
    <3>1. DOMAIN q.samples = 1..Len(w.samples)
      BY <2>1
    <3>2. QED
      BY <1>2, <3>1 DEF ToSet
  <2> DEFINE u == w.samples[i]
  <2>3. s = DecodedSample(w, u)
    BY <1>1, <2>2 DEF Decodes
  <2>4. u \in ToSet(w.samples)
    BY <2>1 DEF ToSet
  <2> HIDE DEF u
  <2>5. u.locations \in Seq(Nat) /\ u.values \in Seq(Int)
    BY <2>4 DEF IsMessage
  <2> DEFINE locations == [j \in DOMAIN u.locations |-> Lookup(w.locations, u.locations[j])]
  <2>6. s.locations = locations /\ s.values = u.values /\ {"locations", "values", "labels", "numLabels"} \subseteq DOMAIN s
    BY <2>3 DEF DecodedSample
  <2>7. w.locations \in Seq(Locations) /\ Len(w.locations) = Len(q.locations) /\ Len(w.locations) \in Nat
    BY <1>1 DEF IsMessage, Decodes
  <2>8. \A id : Lookup(w.locations, id) \in 0..Len(q.locations)
    BY <2>7, LookupInTable
  <2>9. locations \in Seq(0..Len(q.locations))
    <3>1. DOMAIN u.locations = 1..Len(u.locations) /\ Len(u.locations) \in Nat
      BY <2>5
    <3>2. QED
      BY <2>8, <3>1
  <2> HIDE DEF locations
  <2>10. locations \in Seq(Nat) /\ ToSet(locations) \subseteq 0..Len(q.locations)
    BY <2>7, <2>9 DEF ToSet
  <2>11. QED
    BY <2>5, <2>6, <2>10
<1>3. /\ {"types", "samples", "mappings", "functions", "locations"} \subseteq DOMAIN q
      /\ q.types \in Seq(STRING)
      /\ q.mappings \in Seq(Mappings) /\ q.functions \in Seq(Functions) /\ q.locations \in Seq(Locations)
      /\ q.samples \in Seq(ToSet(q.samples))
  BY <1>1 DEF IsMessage, Decodes
<1>4. IsMessage(q)
  BY <1>2, <1>3 DEF IsMessage
<1>5. DOMAIN q.locations = 1..Len(q.locations) /\ DOMAIN q.mappings = 1..Len(q.mappings)
      /\ DOMAIN q.functions = 1..Len(q.functions)
      /\ Len(q.locations) \in Nat /\ Len(q.mappings) \in Nat /\ Len(q.functions) \in Nat
  BY <1>3
<1>6. \A s \in ToSet(q.samples) : ToSet(s.locations) \subseteq {Nil} \cup DOMAIN q.locations
  <2>1. 0..Len(q.locations) \subseteq {Nil} \cup DOMAIN q.locations
    BY <1>5 DEF Nil
  <2>2. QED
    BY ONLY <1>2, <2>1
<1>7. \A s \in ToSet(q.samples) : "numLabels" \in DOMAIN s
  BY <1>2
<1>8. ASSUME NEW l \in ToSet(q.locations)
      PROVE  /\ l.mapping \in {Nil} \cup DOMAIN q.mappings
             /\ \A ln \in ToSet(l.lines) : ln.function \in {Nil} \cup DOMAIN q.functions
  <2>1. LocationFits(q, l)
    BY <1>1, <1>5, <1>8 DEF ToSet, Decodes
  <2>2. DOMAIN l.lines = 1..Len(l.lines)
    BY <2>1 DEF LocationFits, Locations
  <2>3. \A ln \in ToSet(l.lines) : ln.function \in {Nil} \cup DOMAIN q.functions
    BY <1>5, <2>1, <2>2 DEF LocationFits, Nil, ToSet
  <2>4. QED
    BY <1>5, <2>1, <2>3 DEF LocationFits, Nil
<1>9. QED
  BY <1>4, <1>6, <1>7, <1>8 DEF IsProfile, q

(* The ID written for a reference, or for none, is a number. *)
LEMMA IDOfIsNat ==
    ASSUME NEW T, \A x \in T : x.id \in Nat, NEW table \in Seq(T), NEW pointer \in 0..Len(table)
    PROVE  IDOf(table, pointer) \in Nat
<1>1. CASE pointer = 0
  BY <1>1 DEF IDOf, Nil
<1>2. CASE pointer # 0
  <2>1. pointer \in 1..Len(table)
    BY <1>2
  <2>2. table[pointer] \in T
    BY <2>1
  <2>3. QED
    BY <1>2, <2>2 DEF IDOf, Nil
<1>3. QED
  BY <1>1, <1>2

(* A line is encoded with the ID of its function (preEncode). *)
LEMMA EncodedLineID ==
    ASSUME NEW p, p.functions \in Seq(Functions), NEW ln \in Lines, ln.function \in 0..Len(p.functions)
    PROVE  EncodedLine(p, ln) \in Lines
<1> DEFINE id == IDOf(p.functions, ln.function)
<1>1. id \in Nat
  <2>1. \A x \in Functions : x.id \in Nat
    BY DEF Functions
  <2>2. QED
    BY <2>1, IDOfIsNat
<1>2. EncodedLine(p, ln) = [ln EXCEPT !.function = id]
  BY DEF EncodedLine
<1> HIDE DEF id
<1>3. QED
  BY <1>1, <1>2 DEF Lines

(* A location is encoded with the IDs of its mapping and functions. *)
LEMMA EncodedLocationID ==
    ASSUME NEW p, TablesFit(p), NEW l, LocationFits(p, l)
    PROVE  EncodedLocation(p, l) \in Locations /\ EncodedLocation(p, l).id = l.id
<1> DEFINE m == IDOf(p.mappings, l.mapping)
           lines == [j \in DOMAIN l.lines |-> EncodedLine(p, l.lines[j])]
<1>1. l \in Locations /\ l.lines \in Seq(Lines) /\ l.mapping \in 0..Len(p.mappings)
      /\ \A j \in 1..Len(l.lines) : l.lines[j] \in Lines /\ l.lines[j].function \in 0..Len(p.functions)
  BY DEF LocationFits, Locations
<1>2. p.mappings \in Seq(Mappings) /\ p.functions \in Seq(Functions)
  BY DEF TablesFit
<1>3. m \in Nat
  <2>1. \A x \in Mappings : x.id \in Nat
    BY DEF Mappings
  <2>2. QED
    BY <1>1, <1>2, <2>1, IDOfIsNat
<1>4. lines \in Seq(Lines)
  <2>1. \A j \in 1..Len(l.lines) : EncodedLine(p, l.lines[j]) \in Lines
    BY <1>1, <1>2, EncodedLineID
  <2>2. DOMAIN l.lines = 1..Len(l.lines) /\ Len(l.lines) \in Nat
    BY <1>1
  <2>3. QED
    BY <2>1, <2>2
<1>5. EncodedLocation(p, l) = [l EXCEPT !.mapping = m, !.lines = lines]
  BY <1>1 DEF EncodedLocation, Locations
<1> HIDE DEF m, lines
<1>6. QED
  BY <1>1, <1>3, <1>4, <1>5 DEF Locations

(* Writing a valid profile and parsing it finds every location again. *)
LEMMA CopyFits ==
    ASSUME NEW p, Fits(p)
    PROVE  Fits(Copy(p))
<1> DEFINE w == PreEncode(p)
           q == PostDecode(w)
           locations == [i \in DOMAIN p.locations |-> EncodedLocation(p, p.locations[i])]
           newSamples == [i \in DOMAIN p.samples |-> EncodedSample(p, p.samples[i])]
<1>1. TypesFit(p) /\ TablesFit(p) /\ SamplesFit(p)
  BY DEF Fits
<1>2. w = [p EXCEPT !.locations = locations, !.samples = newSamples]
  BY DEF PreEncode
<1>3. DOMAIN p.locations = 1..Len(p.locations) /\ Len(p.locations) \in Nat
      /\ DOMAIN p.samples = 1..Len(p.samples) /\ Len(p.samples) \in Nat
  BY <1>1 DEF TablesFit, SamplesFit
<1>4. locations \in Seq(Locations) /\ Len(locations) = Len(p.locations)
      /\ \A i \in 1..Len(p.locations) : locations[i].id = p.locations[i].id
  <2>1. \A i \in 1..Len(p.locations) : LocationFits(p, p.locations[i])
    BY <1>1 DEF TablesFit
  <2>2. \A i \in 1..Len(p.locations) : /\ EncodedLocation(p, p.locations[i]) \in Locations
                                       /\ EncodedLocation(p, p.locations[i]).id = p.locations[i].id
    BY <1>1, <2>1, EncodedLocationID
  <2>3. QED
    BY <1>3, <2>2
<1>5. newSamples \in Seq(ToSet(newSamples)) /\ Len(newSamples) = Len(p.samples)
      /\ \A i \in 1..Len(p.samples) : newSamples[i] = EncodedSample(p, p.samples[i])
  <2>1. newSamples = [i \in 1..Len(p.samples) |-> newSamples[i]] /\ \A i \in 1..Len(p.samples) : newSamples[i] = EncodedSample(p, p.samples[i])
    BY <1>3
  <2> HIDE DEF newSamples
  <2>2. QED
    BY <1>3, <2>1, MadeOf
<1> HIDE DEF w, locations, newSamples
<1>6. /\ DOMAIN w = DOMAIN p /\ w.types = p.types /\ w.mappings = p.mappings
      /\ w.functions = p.functions /\ w.locations = locations /\ w.samples = newSamples
  BY <1>1, <1>2 DEF TypesFit
<1>7. Decodes(w, q)
  <2>1. /\ {"types", "samples", "mappings", "functions", "locations"} \subseteq DOMAIN w
        /\ w.functions \in Seq(Functions) /\ w.mappings \in Seq(Mappings)
        /\ w.locations \in Seq(Locations) /\ w.samples \in Seq(ToSet(w.samples))
    BY <1>1, <1>4, <1>5, <1>6 DEF TypesFit, TablesFit
  <2>2. QED
    BY <2>1, PostDecodeDecodes
<1> HIDE DEF q
<1>8. TypesFit(q)
  BY <1>1, <1>6, <1>7 DEF TypesFit, Decodes
<1>9. Len(q.locations) = Len(p.locations) /\ \A i \in 1..Len(p.locations) : q.locations[i].id = p.locations[i].id
  BY <1>4, <1>6, <1>7 DEF Decodes
<1>10. TablesFit(q)
  <2>1. Numbered(q.locations)
    BY <1>1, <1>9 DEF TablesFit, Numbered
  <2>2. \A i \in 1..Len(q.locations) : LocationFits(q, q.locations[i])
    BY <1>7, <1>9, <1>6, <1>4 DEF Decodes
  <2>3. QED
    BY <1>1, <1>6, <1>7, <2>1, <2>2 DEF TablesFit, Decodes
<1>11. \A k \in 1..Len(p.locations) : Lookup(w.locations, p.locations[k].id) \in 1..Len(p.locations)
  BY <1>4, <1>6, LookupInTable
<1>12. ASSUME NEW i \in 1..Len(p.samples) PROVE SampleFits(q, q.samples[i])
  <2> DEFINE s == p.samples[i]
             u == newSamples[i]
  <2>1. /\ s.locations \in Seq(1..Len(p.locations))
        /\ s.values \in Seq(Int) /\ Len(s.values) = Len(p.types)
    BY <1>1 DEF SamplesFit, SampleFits
  <2>2. u = EncodedSample(p, s)
    BY <1>5
  <2>3. q.samples[i] = DecodedSample(w, u)
    BY <1>5, <1>6, <1>7 DEF Decodes
  <2> HIDE DEF s, u
  <2> DEFINE ids == [j \in DOMAIN s.locations |-> IDOf(p.locations, s.locations[j])]
             stack == [j \in DOMAIN ids |-> Lookup(w.locations, ids[j])]
  <2>4. u.locations = ids /\ u.values = s.values
    BY <2>2 DEF EncodedSample
  <2>5. q.samples[i].locations = stack /\ q.samples[i].values = s.values
        /\ {"locations", "values", "labels", "numLabels"} \subseteq DOMAIN q.samples[i]
    BY <2>3, <2>4 DEF DecodedSample
  <2>6. DOMAIN s.locations = 1..Len(s.locations) /\ Len(s.locations) \in Nat
        /\ \A j \in 1..Len(s.locations) : s.locations[j] \in 1..Len(p.locations)
    BY <2>1
  <2>7. \A j \in 1..Len(s.locations) : ids[j] = p.locations[s.locations[j]].id
    <3> SUFFICES ASSUME NEW j \in 1..Len(s.locations) PROVE ids[j] = p.locations[s.locations[j]].id
      OBVIOUS
    <3>1. s.locations[j] # Nil /\ ids[j] = IDOf(p.locations, s.locations[j])
      BY <1>3, <2>6 DEF Nil
    <3>2. QED
      BY <3>1 DEF IDOf
  <2>8. \A j \in 1..Len(s.locations) : Lookup(w.locations, ids[j]) \in 1..Len(p.locations)
    BY <1>11, <2>6, <2>7
  <2>9. stack \in Seq(1..Len(p.locations))
    <3>1. DOMAIN ids = 1..Len(s.locations)
      BY <2>6
    <3> HIDE DEF ids
    <3>2. QED
      BY <2>6, <2>8, <3>1
  <2> HIDE DEF stack
  <2>10. QED
    BY <1>6, <1>7, <1>9, <2>1, <2>5, <2>9 DEF SampleFits, Decodes
<1>13. SamplesFit(q)
  BY <1>1, <1>5, <1>6, <1>7, <1>12 DEF SamplesFit, Decodes
<1>14. QED
  BY <1>8, <1>10, <1>13 DEF Fits, Copy, q, w

-------------------------------------------------------------------------------
(* The tables of a profile that is being merged: an ID is a place, and what *)
(* the tables of IDs have is one too.                                       *)
Indexed(table) == \A i \in 1..Len(table) : table[i].id = i
ByIDFit(byID, n) == \A id \in DOMAIN byID : byID[id] \in 1..n
Merger(t, pm) ==
    /\ {"p", "mappingsByID", "functionsByID", "locationsByID"} \subseteq DOMAIN pm
    /\ Fits(pm.p) /\ pm.p.types = t
    /\ Indexed(pm.p.mappings) /\ Indexed(pm.p.functions) /\ Indexed(pm.p.locations)
    /\ \A id \in DOMAIN pm.mappingsByID :
        /\ pm.mappingsByID[id].m \in 1..Len(pm.p.mappings)
        /\ pm.mappingsByID[id].offset \in Int
    /\ ByIDFit(pm.functionsByID, Len(pm.p.functions))
    /\ ByIDFit(pm.locationsByID, Len(pm.p.locations))
(* What has been mapped stays mapped. *)
Keeps(pm, new) ==
    /\ DOMAIN pm.mappingsByID \subseteq DOMAIN new.mappingsByID
    /\ DOMAIN pm.functionsByID \subseteq DOMAIN new.functionsByID
    /\ DOMAIN pm.locationsByID \subseteq DOMAIN new.locationsByID

(* A table in which every entry has its place as ID is numbered. *)
LEMMA IndexedIsNumbered ==
    ASSUME NEW T, NEW table \in Seq(T), Indexed(table)
    PROVE  Numbered(table)
BY DEF Indexed, Numbered

(* A table with one more entry, with the next ID, is such a table. *)
LEMMA OneMoreEntry ==
    ASSUME NEW T, NEW table \in Seq(T), Indexed(table), NEW new \in T, new.id = Len(table) + 1
    PROVE  /\ Append(table, new) \in Seq(T) /\ Len(Append(table, new)) = Len(table) + 1
           /\ Indexed(Append(table, new))
           /\ \A i \in 1..Len(table) : Append(table, new)[i] = table[i]
           /\ Append(table, new)[Len(table) + 1] = new
<1>1. /\ Append(table, new) \in Seq(T) /\ Len(Append(table, new)) = Len(table) + 1
      /\ \A i \in 1..Len(table) : Append(table, new)[i] = table[i]
      /\ Append(table, new)[Len(table) + 1] = new
      /\ Len(table) \in Nat
  OBVIOUS
<1>2. \A i \in 1..Len(table) + 1 : i \in 1..Len(table) \/ i = Len(table) + 1
  BY <1>1
<1>3. QED
  BY <1>1, <1>2 DEF Indexed

(* A profile whose tables grow fits as before, if what was added does. *)
LEMMA GrownFits ==
    ASSUME NEW p, Fits(p), NEW q, DOMAIN q = DOMAIN p, q.types = p.types, q.samples = p.samples,
           q.mappings \in Seq(Mappings), q.functions \in Seq(Functions), q.locations \in Seq(Locations),
           Indexed(q.mappings), Indexed(q.functions), Indexed(q.locations),
           Len(q.mappings) >= Len(p.mappings), Len(q.functions) >= Len(p.functions),
           Len(q.locations) >= Len(p.locations),
           \A i \in 1..Len(p.locations) : q.locations[i] = p.locations[i],
           \A i \in 1..Len(q.locations) : i > Len(p.locations) => LocationFits(q, q.locations[i])
    PROVE  Fits(q)
<1>1. TypesFit(p) /\ TablesFit(p) /\ SamplesFit(p)
  BY DEF Fits
<1>2. /\ Len(p.mappings) \in Nat /\ Len(p.functions) \in Nat /\ Len(p.locations) \in Nat
      /\ Len(q.mappings) \in Nat /\ Len(q.functions) \in Nat /\ Len(q.locations) \in Nat
  BY <1>1 DEF TablesFit
<1>3. TypesFit(q)
  BY <1>1 DEF TypesFit
<1>4. ASSUME NEW i \in 1..Len(q.locations) PROVE LocationFits(q, q.locations[i])
  <2>1. CASE i > Len(p.locations)
    BY <2>1
  <2>2. CASE i <= Len(p.locations)
    <3> DEFINE l == p.locations[i]
    <3>1. i \in 1..Len(p.locations) /\ q.locations[i] = l
      BY <1>2, <2>2
    <3>2. LocationFits(p, l)
      BY <1>1, <3>1 DEF TablesFit
    <3> HIDE DEF l
    <3>3. 0..Len(p.mappings) \subseteq 0..Len(q.mappings) /\ 0..Len(p.functions) \subseteq 0..Len(q.functions)
      BY <1>2
    <3>4. LocationFits(q, l)
      BY <3>2, <3>3 DEF LocationFits
    <3>5. QED
      BY <3>1, <3>4
  <2>3. QED
    BY <1>2, <2>1, <2>2
<1>5. TablesFit(q)
  BY <1>4, IndexedIsNumbered DEF TablesFit
<1>6. SamplesFit(q)
  <2>1. ASSUME NEW i \in 1..Len(p.samples) PROVE SampleFits(q, p.samples[i])
    <3> DEFINE s == p.samples[i]
    <3>1. SampleFits(p, s)
      BY <1>1 DEF SamplesFit
    <3> HIDE DEF s
    <3>2. 1..Len(p.locations) \subseteq 1..Len(q.locations)
      BY <1>2
    <3>3. s.locations \in Seq(1..Len(q.locations))
      BY <3>1, <3>2 DEF SampleFits
    <3>4. SampleFits(q, s)
      BY <3>1, <3>3 DEF SampleFits
    <3>5. QED
      BY <3>4 DEF s
  <2>2. QED
    BY <1>1, <2>1 DEF SamplesFit
<1>7. QED
  BY <1>3, <1>5, <1>6 DEF Fits

(* What is looked up is a place of the table. *)
LEMMA FoundInRange ==
    ASSUME NEW T, NEW seq \in Seq(T), NEW Test(_)
    PROVE  SelectInSeq(seq, Test) \in 0..Len(seq)
<1> DEFINE I == {i \in 1..Len(seq) : Test(seq[i])}
<1>1. I \subseteq 1..Len(seq)
  OBVIOUS
<1>2. SelectInSeq(seq, Test) = IF I # {} THEN Min(I) ELSE 0
  BY DEF SelectInSeq
<1> HIDE DEF I
<1>3. QED
  BY <1>1, <1>2, LastPlace

-------------------------------------------------------------------------------
(* An entry of the table is entered under an ID, or the one after the last. *)
LEMMA EnteredKnown ==
    ASSUME NEW byID, NEW n, NEW value, NEW id, ByIDFit(byID, n), value \in 1..n
    PROVE  ByIDFit(Entered(byID, id, value), n)
<1>1. Entered(byID, id, value) = [k \in DOMAIN byID \cup {id} |-> IF k = id THEN value ELSE byID[k]]
  BY DEF Entered
<1>2. \A k \in DOMAIN byID : byID[k] \in 1..n
  BY DEF ByIDFit
<1>3. QED
  BY <1>1, <1>2 DEF ByIDFit

(* An entry for the place after the last. *)
LEMMA EnteredNew ==
    ASSUME NEW byID, NEW id, NEW n \in Nat, ByIDFit(byID, n)
    PROVE  ByIDFit(Entered(byID, id, n + 1), n + 1)
<1>1. ByIDFit(byID, n + 1) /\ n + 1 \in 1..n+1
  BY DEF ByIDFit
<1>2. QED
  BY <1>1, EnteredKnown

(* mapFunction finds the function or adds it under the next ID. *)
LEMMA MapFunctionFits ==
    ASSUME NEW t, NEW pm, Merger(t, pm), NEW f \in Functions
    PROVE  /\ Merger(t, MapFunction(pm, f)) /\ Keeps(pm, MapFunction(pm, f))
           /\ f.id \in DOMAIN MapFunction(pm, f).functionsByID
<1> DEFINE new == MapFunction(pm, f)
           n == Len(pm.p.functions)
           known == KnownFunction(pm.p.functions, f)
<1>1. CASE f.id \in DOMAIN pm.functionsByID
  BY <1>1 DEF MapFunction, Keeps
<1>2. CASE f.id \notin DOMAIN pm.functionsByID
  <2>1. Fits(pm.p) /\ pm.p.functions \in Seq(Functions) /\ n \in Nat /\ ByIDFit(pm.functionsByID, n)
    BY DEF Merger, Fits, TablesFit
  <2>2. known \in 0..n
    BY <2>1, FoundInRange DEF KnownFunction
  <2>3. new = FindFunction(pm, f, known)
    BY <1>2 DEF MapFunction
  <2> HIDE DEF new, known
  <2>4. CASE known # 0
    <3> DEFINE byID == Entered(pm.functionsByID, f.id, known)
    <3>1. ByIDFit(byID, n) /\ DOMAIN byID = DOMAIN pm.functionsByID \cup {f.id}
      <4>1. known \in 1..n
        BY <2>1, <2>2, <2>4
      <4>2. ByIDFit(byID, n)
        BY <2>1, <4>1, EnteredKnown
      <4>3. QED
        BY <4>2 DEF Entered
    <3>2. new = [pm EXCEPT !.functionsByID = byID]
      BY <2>3, <2>4 DEF FindFunction
    <3> HIDE DEF byID
    <3>3. /\ DOMAIN new = DOMAIN pm /\ new.p = pm.p /\ new.mappingsByID = pm.mappingsByID
          /\ new.locationsByID = pm.locationsByID /\ new.functionsByID = byID
      BY <3>2 DEF Merger
    <3>4. QED
      BY <3>1, <3>3 DEF Merger, Keeps, new
  <2>5. CASE known = 0
    <3> DEFINE byID == Entered(pm.functionsByID, f.id, n + 1)
               entry == [f EXCEPT !.id = NewID(pm.p.functions)]
               functions == Append(pm.p.functions, entry)
               q == [pm.p EXCEPT !.functions = functions]
    <3>1. ByIDFit(byID, n + 1) /\ DOMAIN byID = DOMAIN pm.functionsByID \cup {f.id}
      <4>1. ByIDFit(byID, n + 1)
        BY <2>1, EnteredNew
      <4>2. QED
        BY <4>1 DEF Entered
    <3>2. entry \in Functions /\ entry.id = n + 1
      BY <2>1 DEF NewID, Functions
    <3>3. new = [pm EXCEPT !.functionsByID = byID, !.p = q]
      BY <2>3, <2>5 DEF FindFunction, Merger
    <3> HIDE DEF byID, entry
    <3>4. functions \in Seq(Functions) /\ Len(functions) = n + 1 /\ Indexed(functions)
      BY <2>1, <3>2, OneMoreEntry DEF Merger
    <3> HIDE DEF functions
    <3>5. /\ DOMAIN q = DOMAIN pm.p /\ q.types = pm.p.types /\ q.samples = pm.p.samples
          /\ q.mappings = pm.p.mappings /\ q.functions = functions /\ q.locations = pm.p.locations
      BY <2>1 DEF Fits, TypesFit
    <3> HIDE DEF q
    <3>6. Fits(q)
      <4>1. /\ pm.p.mappings \in Seq(Mappings) /\ pm.p.locations \in Seq(Locations)
            /\ Indexed(pm.p.mappings) /\ Indexed(pm.p.locations)
            /\ Len(pm.p.mappings) \in Nat /\ Len(pm.p.locations) \in Nat
        BY DEF Merger, Fits, TablesFit
      <4>2. \A i \in 1..Len(q.locations) : ~(i > Len(pm.p.locations))
        BY <3>5, <4>1
      <4>3. /\ Len(q.functions) >= Len(pm.p.functions) /\ Len(q.mappings) >= Len(pm.p.mappings)
            /\ Len(q.locations) >= Len(pm.p.locations)
        BY <2>1, <3>4, <3>5, <4>1
      <4> HIDE DEF n
      <4>4. QED
        BY <2>1, <3>4, <3>5, <4>1, <4>2, <4>3, GrownFits
    <3>7. /\ DOMAIN new = DOMAIN pm /\ new.p = q /\ new.mappingsByID = pm.mappingsByID
          /\ new.locationsByID = pm.locationsByID /\ new.functionsByID = byID
      BY <3>3 DEF Merger
    <3>8. QED
      BY <3>1, <3>4, <3>5, <3>6, <3>7 DEF Merger, Keeps, new
  <2>6. QED
    BY <2>4, <2>5
<1>3. QED
  BY <1>1, <1>2

(* A mapping that is known by its key is in the table. *)
LEMMA KnownMappingInRange ==
    ASSUME NEW mappings \in Seq(Mappings), NEW m
    PROVE  KnownMapping(mappings, m) \in 0..Len(mappings)
<1>1. ByBuild(mappings, m) \in 0..Len(mappings)
  <2> DEFINE found == SelectInSeq(mappings, LAMBDA x : SameRegion(x, m) /\ x.build = m.build)
  <2>1. found \in 0..Len(mappings) /\ Len(mappings) \in Nat
    BY FoundInRange
  <2>2. ByBuild(mappings, m) \in {0, found}
    BY Zenon DEF ByBuild
  <2> HIDE DEF found
  <2>3. QED
    BY <2>1, <2>2
<1>2. ByFile(mappings, m) \in 0..Len(mappings)
  <2> DEFINE found == SelectInSeq(mappings, LAMBDA x : SameRegion(x, m) /\ x.file = m.file)
  <2>1. found \in 0..Len(mappings) /\ Len(mappings) \in Nat
    BY FoundInRange
  <2>2. ByFile(mappings, m) \in {0, found}
    BY Zenon DEF ByFile
  <2> HIDE DEF found
  <2>3. QED
    BY <2>1, <2>2
<1>3. QED
  BY <1>1, <1>2 DEF KnownMapping

(* mapMapping finds the mapping or adds it under the next ID. *)
LEMMA MapMappingFits ==
    ASSUME NEW t, NEW pm, Merger(t, pm), NEW m \in Mappings
    PROVE  /\ Merger(t, MapMapping(pm, m)) /\ Keeps(pm, MapMapping(pm, m))
           /\ m.id \in DOMAIN MapMapping(pm, m).mappingsByID
<1> DEFINE new == MapMapping(pm, m)
           n == Len(pm.p.mappings)
           known == KnownMapping(pm.p.mappings, m)
<1>1. CASE m.id \in DOMAIN pm.mappingsByID
  BY <1>1 DEF MapMapping, Keeps
<1>2. CASE m.id \notin DOMAIN pm.mappingsByID
  <2>1. Fits(pm.p) /\ pm.p.mappings \in Seq(Mappings) /\ n \in Nat
        /\ \A id \in DOMAIN pm.mappingsByID :
              pm.mappingsByID[id].m \in 1..n /\ pm.mappingsByID[id].offset \in Int
    BY DEF Merger, Fits, TablesFit
  <2>2. known \in 0..n
    BY <2>1, KnownMappingInRange
  <2>3. new = FindMapping(pm, m, known)
    BY <1>2 DEF MapMapping
  <2>4. ASSUME NEW k \in Nat, n <= k, NEW at \in 1..k, NEW offset \in Int
        PROVE  LET byID == Entered(pm.mappingsByID, m.id, [m |-> at, offset |-> offset])
               IN /\ DOMAIN byID = DOMAIN pm.mappingsByID \cup {m.id}
                  /\ \A id \in DOMAIN byID : byID[id].m \in 1..k /\ byID[id].offset \in Int
    <3> DEFINE info == [m |-> at, offset |-> offset]
               byID == Entered(pm.mappingsByID, m.id, info)
    <3>1. byID = [id \in DOMAIN pm.mappingsByID \cup {m.id} |-> IF id = m.id THEN info ELSE pm.mappingsByID[id]]
      BY DEF Entered
    <3>2. info.m \in 1..k /\ info.offset \in Int
      OBVIOUS
    <3>3. \A id \in DOMAIN pm.mappingsByID : pm.mappingsByID[id].m \in 1..k /\ pm.mappingsByID[id].offset \in Int
      BY <2>1, <2>4
    <3> HIDE DEF info, byID
    <3>4. DOMAIN byID = DOMAIN pm.mappingsByID \cup {m.id}
          /\ \A id \in DOMAIN byID : byID[id].m \in 1..k /\ byID[id].offset \in Int
      BY <3>1, <3>2, <3>3
    <3>5. QED
      BY <3>4 DEF byID, info
  <2> HIDE DEF new, known
  <2>5. CASE known # 0
    <3> DEFINE offset == pm.p.mappings[known].start - m.start
               byID == Entered(pm.mappingsByID, m.id, [m |-> known, offset |-> offset])
    <3>1. known \in 1..n
      BY <2>2, <2>5
    <3>2. pm.p.mappings[known] \in Mappings
      BY <2>1, <3>1
    <3>3. pm.p.mappings[known].start \in Int /\ m.start \in Int
      BY <3>2 DEF Mappings
    <3>4. offset \in Int
      BY <3>3
    <3>5. new = [pm EXCEPT !.mappingsByID = byID]
      BY <2>3, <2>5 DEF FindMapping, ReuseMapping
    <3>6. n <= n
      BY <2>1
    <3> HIDE DEF offset
    <3>7. DOMAIN byID = DOMAIN pm.mappingsByID \cup {m.id}
          /\ \A id \in DOMAIN byID : byID[id].m \in 1..n /\ byID[id].offset \in Int
      BY <2>1, <2>4, <3>1, <3>4, <3>6
    <3> HIDE DEF byID
    <3>8. /\ DOMAIN new = DOMAIN pm /\ new.p = pm.p /\ new.mappingsByID = byID
          /\ new.locationsByID = pm.locationsByID /\ new.functionsByID = pm.functionsByID
      BY <3>5 DEF Merger
    <3>9. QED
      BY <3>7, <3>8 DEF Merger, Keeps, new
  <2>6. CASE known = 0
    <3> DEFINE byID == Entered(pm.mappingsByID, m.id, [m |-> n + 1, offset |-> 0])
               entry == [m EXCEPT !.id = NewID(pm.p.mappings)]
               mappings == Append(pm.p.mappings, entry)
               q == [pm.p EXCEPT !.mappings = mappings]
    <3>1. n + 1 \in Nat /\ n <= n + 1 /\ n + 1 \in 1..n+1 /\ 0 \in Int
      BY <2>1
    <3>2. DOMAIN byID = DOMAIN pm.mappingsByID \cup {m.id}
          /\ \A id \in DOMAIN byID : byID[id].m \in 1..n+1 /\ byID[id].offset \in Int
      BY <2>4, <3>1
    <3>3. entry \in Mappings /\ entry.id = n + 1
      <4>1. ASSUME NEW id \in Nat
            PROVE  [m EXCEPT !.id = id] \in Mappings /\ [m EXCEPT !.id = id].id = id
        BY DEF Mappings
      <4>2. NewID(pm.p.mappings) = n + 1 /\ n + 1 \in Nat
        BY <2>1 DEF NewID
      <4>3. QED
        BY <4>1, <4>2
    <3>4. new = [pm EXCEPT !.mappingsByID = byID, !.p = q]
      BY <2>3, <2>6 DEF FindMapping, NewMapping, Merger
    <3> HIDE DEF byID, entry
    <3>5. mappings \in Seq(Mappings) /\ Len(mappings) = n + 1 /\ Indexed(mappings)
      BY <2>1, <3>3, OneMoreEntry DEF Merger
    <3> HIDE DEF mappings
    <3>6. /\ DOMAIN q = DOMAIN pm.p /\ q.types = pm.p.types /\ q.samples = pm.p.samples
          /\ q.mappings = mappings /\ q.functions = pm.p.functions /\ q.locations = pm.p.locations
      BY <2>1 DEF Fits, TypesFit
    <3> HIDE DEF q
    <3>7. Fits(q)
      <4>1. /\ pm.p.functions \in Seq(Functions) /\ pm.p.locations \in Seq(Locations)
            /\ Indexed(pm.p.functions) /\ Indexed(pm.p.locations)
            /\ Len(pm.p.functions) \in Nat /\ Len(pm.p.locations) \in Nat
        BY DEF Merger, Fits, TablesFit
      <4>2. \A i \in 1..Len(q.locations) : ~(i > Len(pm.p.locations))
        BY <3>6, <4>1
      <4>3. /\ q.mappings \in Seq(Mappings) /\ Indexed(q.mappings) /\ Len(q.mappings) >= Len(pm.p.mappings)
            /\ Len(q.functions) >= Len(pm.p.functions) /\ Len(q.locations) >= Len(pm.p.locations)
            /\ \A i \in 1..Len(pm.p.locations) : q.locations[i] = pm.p.locations[i]
        BY <2>1, <3>5, <3>6, <4>1
      <4>4. Fits(pm.p)
        BY DEF Merger
      <4>5. QED
        BY <3>6, <4>1, <4>2, <4>3, <4>4, GrownFits
    <3>8. /\ DOMAIN new = DOMAIN pm /\ new.p = q /\ new.mappingsByID = byID
          /\ new.locationsByID = pm.locationsByID /\ new.functionsByID = pm.functionsByID
      BY <3>4 DEF Merger
    <3>9. QED
      BY <3>2, <3>5, <3>6, <3>7, <3>8 DEF Merger, Keeps, new
  <2>7. QED
    BY <2>5, <2>6
<1>3. QED
  BY <1>1, <1>2

-------------------------------------------------------------------------------
(* Keeping what was merged is transitive, and reflexive. *)
LEMMA KeepsAll ==
    ASSUME NEW a, NEW b, NEW c, Keeps(a, b), Keeps(b, c)
    PROVE  Keeps(a, c) /\ Keeps(a, a)
BY DEF Keeps

(* The functions of a location's lines, by induction over the lines. *)
FunctionOf(src, acc, ln) ==
    IF ln.function = Nil THEN acc ELSE MapFunction(acc, src.functions[ln.function])
FunctionsMapped(k, n, acc) ==
    /\ Merger(k.t, acc) /\ Keeps(k.pm, acc)
    /\ \A j \in 1..n :
        k.lines[j].function # 0 => k.src.functions[k.lines[j].function].id \in DOMAIN acc.functionsByID
LinesFold == INSTANCE FoldLaws WITH Op <- FunctionOf, Holds <- FunctionsMapped

(* WithReferences maps the functions of the lines one after another. *)
LEMMA WithReferencesIsFold ==
    ASSUME NEW pm, NEW src, NEW l
    PROVE  WithReferences(pm, src, l) =
              LinesFold!Fold(src, IF l.mapping = Nil THEN pm ELSE MapMapping(pm, src.mappings[l.mapping]), l.lines)
BY Zenon DEF WithReferences, FunctionOf, LinesFold!Fold, FoldLeft, MapThenFoldSet,
   LinesFold!MapThenFoldSet, LinesFold!Largest, Max

(* The references of a location are mapped to places of the merged tables. *)
LEMMA WithReferencesFits ==
    ASSUME NEW t, NEW pm, Merger(t, pm), NEW src, Fits(src), NEW l, LocationFits(src, l)
    PROVE  LET new == WithReferences(pm, src, l)
           IN /\ Merger(t, new) /\ Keeps(pm, new)
              /\ l.mapping # 0 => src.mappings[l.mapping].id \in DOMAIN new.mappingsByID
              /\ \A j \in 1..Len(l.lines) :
                    l.lines[j].function # 0 =>
                        src.functions[l.lines[j].function].id \in DOMAIN new.functionsByID
<1> DEFINE new == WithReferences(pm, src, l)
           base == IF l.mapping = Nil THEN pm ELSE MapMapping(pm, src.mappings[l.mapping])
           k == [t |-> t, pm |-> base, src |-> src, lines |-> l.lines]
<1>1. /\ l.mapping \in 0..Len(src.mappings) /\ l.lines \in Seq(Lines)
      /\ DOMAIN l.lines = 1..Len(l.lines) /\ Len(l.lines) \in Nat
      /\ \A j \in 1..Len(l.lines) : l.lines[j].function \in 0..Len(src.functions)
  BY DEF LocationFits, Locations
<1>2. src.mappings \in Seq(Mappings) /\ src.functions \in Seq(Functions)
  BY DEF Fits, TablesFit
<1>3. /\ Merger(t, base) /\ Keeps(pm, base)
      /\ l.mapping # 0 => src.mappings[l.mapping].id \in DOMAIN base.mappingsByID
  <2>1. CASE l.mapping = 0
    BY <2>1 DEF Nil, Keeps
  <2>2. CASE l.mapping # 0
    <3>1. l.mapping \in 1..Len(src.mappings)
      BY <1>1, <2>2
    <3>2. src.mappings[l.mapping] \in Mappings
      BY <1>2, <3>1
    <3>3. base = MapMapping(pm, src.mappings[l.mapping])
      BY <2>2 DEF Nil
    <3> HIDE DEF base
    <3>4. QED
      BY <3>2, <3>3, MapMappingFits
  <2>3. QED
    BY <2>1, <2>2
<1> HIDE DEF base
<1>4. k.t = t /\ k.pm = base /\ k.src = src /\ k.lines = l.lines
  OBVIOUS
<1> HIDE DEF k
<1>5. FunctionsMapped(k, 0, base)
  BY <1>3, <1>4 DEF FunctionsMapped, Keeps
<1>6. ASSUME NEW i \in 1..Len(l.lines), NEW acc, FunctionsMapped(k, i - 1, acc)
      PROVE  FunctionsMapped(k, i, FunctionOf(src, acc, l.lines[i]))
  <2> DEFINE f == l.lines[i].function
             after == FunctionOf(src, acc, l.lines[i])
  <2>1. /\ Merger(t, acc) /\ Keeps(base, acc)
        /\ \A j \in 1..i-1 : l.lines[j].function # 0 => src.functions[l.lines[j].function].id \in DOMAIN acc.functionsByID
    BY <1>4, <1>6 DEF FunctionsMapped
  <2>2. \A j \in 1..i : j \in 1..i-1 \/ j = i
    OBVIOUS
  <2>3. CASE f = 0
    <3>1. after = acc
      BY <2>3 DEF FunctionOf, Nil
    <3>2. QED
      BY <1>4, <2>1, <2>2, <2>3, <3>1 DEF FunctionsMapped
  <2>4. CASE f # 0
    <3>1. f \in 1..Len(src.functions)
      BY <1>1, <2>4
    <3>2. src.functions[f] \in Functions
      BY <1>2, <3>1
    <3>3. after = MapFunction(acc, src.functions[f])
      BY <2>4 DEF FunctionOf, Nil
    <3> HIDE DEF after
    <3>4. /\ Merger(t, after) /\ Keeps(acc, after)
          /\ src.functions[f].id \in DOMAIN after.functionsByID
      BY <2>1, <3>2, <3>3, MapFunctionFits
    <3>5. Keeps(base, after) /\ DOMAIN acc.functionsByID \subseteq DOMAIN after.functionsByID
      BY <2>1, <3>4, KeepsAll DEF Keeps
    <3>6. \A j \in 1..i : l.lines[j].function # 0 => src.functions[l.lines[j].function].id \in DOMAIN after.functionsByID
      BY <2>1, <2>2, <3>4, <3>5
    <3>7. FunctionsMapped(k, i, after)
      BY <1>4, <3>4, <3>5, <3>6 DEF FunctionsMapped
    <3>8. QED
      BY <3>7 DEF after
  <2>5. QED
    BY <2>3, <2>4
<1>7. FunctionsMapped(k, Len(l.lines), LinesFold!Fold(src, base, l.lines))
  BY <1>1, <1>5, <1>6, LinesFold!FoldInduction
<1>8. FunctionsMapped(k, Len(l.lines), new)
  BY <1>7, WithReferencesIsFold DEF base
<1> HIDE DEF new
<1>9. Keeps(pm, new)
  BY <1>3, <1>4, <1>8, KeepsAll DEF FunctionsMapped
<1>10. l.mapping # 0 => src.mappings[l.mapping].id \in DOMAIN new.mappingsByID
  BY <1>3, <1>4, <1>8 DEF FunctionsMapped, Keeps
<1>11. QED
  BY <1>4, <1>8, <1>9, <1>10 DEF FunctionsMapped, new

(* The counterpart of a location whose references are in the merger. *)
LEMMA CounterpartFits ==
    ASSUME NEW t, NEW pm, Merger(t, pm), NEW src, Fits(src), NEW l, LocationFits(src, l),
           l.mapping # 0 => src.mappings[l.mapping].id \in DOMAIN pm.mappingsByID,
           \A j \in 1..Len(l.lines) :
              l.lines[j].function # 0 => src.functions[l.lines[j].function].id \in DOMAIN pm.functionsByID
    PROVE  /\ Counterpart(pm, src, l) \in Locations
           /\ Counterpart(pm, src, l).id = Len(pm.p.locations) + 1
           /\ LocationFits(pm.p, Counterpart(pm, src, l))
<1> DEFINE info == MapInfo(pm, src, l)
           lines == [j \in DOMAIN l.lines |-> LineCounterpart(pm, src, l.lines[j])]
<1>1. /\ l \in Locations /\ l.mapping \in 0..Len(src.mappings) /\ l.lines \in Seq(Lines)
      /\ DOMAIN l.lines = 1..Len(l.lines) /\ Len(l.lines) \in Nat /\ l.address \in Int
      /\ \A j \in 1..Len(l.lines) : l.lines[j].function \in 0..Len(src.functions)
  BY DEF LocationFits, Locations
<1>2. Len(pm.p.mappings) \in Nat /\ Len(pm.p.functions) \in Nat /\ Len(pm.p.locations) \in Nat
  BY DEF Merger, Fits, TablesFit
<1>3. info.m \in 0..Len(pm.p.mappings) /\ info.offset \in Int
  <2>1. CASE l.mapping = 0
    <3>1. info = [m |-> 0, offset |-> 0]
      BY <2>1 DEF MapInfo, Nil
    <3>2. QED
      BY <1>2, <3>1
  <2>2. CASE l.mapping # 0
    <3>1. info = pm.mappingsByID[src.mappings[l.mapping].id]
      BY <2>2 DEF MapInfo, Nil
    <3> HIDE DEF info
    <3>2. info.m \in 1..Len(pm.p.mappings) /\ info.offset \in Int
      BY <2>2, <3>1 DEF Merger
    <3>3. QED
      BY <1>2, <3>2
  <2>3. QED
    BY <2>1, <2>2
<1>4. ASSUME NEW j \in 1..Len(l.lines)
      PROVE  /\ LineCounterpart(pm, src, l.lines[j]) \in Lines
             /\ LineCounterpart(pm, src, l.lines[j]).function \in 0..Len(pm.p.functions)
  <2> DEFINE ln == l.lines[j]
             f == IF ln.function = Nil THEN Nil ELSE pm.functionsByID[src.functions[ln.function].id]
  <2>1. ln \in Lines
    BY <1>1
  <2>2. f \in 0..Len(pm.p.functions)
    <3>1. CASE ln.function = 0
      BY <1>2, <3>1 DEF Nil
    <3>2. CASE ln.function # 0
      <4>1. src.functions[ln.function].id \in DOMAIN pm.functionsByID
        BY <3>2
      <4>2. f = pm.functionsByID[src.functions[ln.function].id]
        BY <3>2 DEF Nil
      <4> HIDE DEF f
      <4>3. f \in 1..Len(pm.p.functions)
        BY <4>1, <4>2 DEF Merger, ByIDFit
      <4>4. QED
        BY <1>2, <4>3
    <3>3. QED
      BY <3>1, <3>2, Zenon
  <2>3. LineCounterpart(pm, src, ln) = [ln EXCEPT !.function = f]
    BY DEF LineCounterpart
  <2> HIDE DEF f, ln
  <2>4. f \in Nat
    BY <1>2, <2>2
  <2>5. QED
    BY <2>1, <2>2, <2>3, <2>4 DEF Lines, ln
<1>5. lines \in Seq(Lines) /\ Len(lines) = Len(l.lines)
      /\ \A j \in 1..Len(lines) : lines[j].function \in 0..Len(pm.p.functions)
  BY <1>1, <1>4
<1> DEFINE new == [id |-> Len(pm.p.locations) + 1, mapping |-> info.m,
                   address |-> l.address + info.offset, lines |-> lines]
<1>6. Counterpart(pm, src, l) = new
  BY DEF Counterpart, NewID
<1> HIDE DEF lines, info
<1>7. info.m \in Nat /\ l.address + info.offset \in Int
  BY <1>1, <1>2, <1>3
<1>8. new \in Locations
  BY <1>2, <1>5, <1>7 DEF Locations
<1>9. QED
  BY <1>3, <1>5, <1>6, <1>8 DEF LocationFits

(* A location that is added fits the merged tables, with the next ID. *)
LEMMA AddLocationFits ==
    ASSUME NEW t, NEW pm, Merger(t, pm), NEW l, NEW entry \in Locations,
           entry.id = Len(pm.p.locations) + 1, LocationFits(pm.p, entry)
    PROVE  /\ Merger(t, AddLocation(pm, l, entry)) /\ Keeps(pm, AddLocation(pm, l, entry))
           /\ l.id \in DOMAIN AddLocation(pm, l, entry).locationsByID
<1> DEFINE new == AddLocation(pm, l, entry)
           n == Len(pm.p.locations)
           known == KnownLocation(pm.p, entry)
<1>1. Fits(pm.p) /\ pm.p.locations \in Seq(Locations) /\ n \in Nat /\ ByIDFit(pm.locationsByID, n)
  BY DEF Merger, Fits, TablesFit
<1>2. known \in 0..n
  BY <1>1, FoundInRange DEF KnownLocation
<1>3. new = FindLocation(pm, l, entry, known)
  BY DEF AddLocation
<1> HIDE DEF new, known
<1>4. CASE known # 0
  <2> DEFINE byID == Entered(pm.locationsByID, l.id, known)
  <2>1. ByIDFit(byID, n) /\ DOMAIN byID = DOMAIN pm.locationsByID \cup {l.id}
    <3>1. known \in 1..n
      BY <1>1, <1>2, <1>4
    <3>2. ByIDFit(byID, n)
      BY <1>1, <3>1, EnteredKnown
    <3>3. QED
      BY <3>2 DEF Entered
  <2>2. new = [pm EXCEPT !.locationsByID = byID]
    BY <1>3, <1>4 DEF FindLocation
  <2> HIDE DEF byID
  <2>3. /\ DOMAIN new = DOMAIN pm /\ new.p = pm.p /\ new.mappingsByID = pm.mappingsByID
        /\ new.locationsByID = byID /\ new.functionsByID = pm.functionsByID
    BY <2>2 DEF Merger
  <2>4. QED
    BY <2>1, <2>3 DEF Merger, Keeps, new
<1>5. CASE known = 0
  <2> DEFINE byID == Entered(pm.locationsByID, l.id, n + 1)
             locations == Append(pm.p.locations, entry)
             q == [pm.p EXCEPT !.locations = locations]
  <2>1. ByIDFit(byID, n + 1) /\ DOMAIN byID = DOMAIN pm.locationsByID \cup {l.id}
    <3>1. ByIDFit(byID, n + 1)
      BY <1>1, EnteredNew
    <3>2. QED
      BY <3>1 DEF Entered
  <2>2. new = [pm EXCEPT !.locationsByID = byID, !.p = q]
    BY <1>3, <1>5 DEF FindLocation, Merger
  <2> HIDE DEF byID
  <2>3. /\ locations \in Seq(Locations) /\ Len(locations) = n + 1 /\ Indexed(locations)
        /\ \A i \in 1..n : locations[i] = pm.p.locations[i]
        /\ locations[n + 1] = entry
    BY <1>1, OneMoreEntry DEF Merger
  <2> HIDE DEF locations
  <2>4. /\ DOMAIN q = DOMAIN pm.p /\ q.types = pm.p.types /\ q.samples = pm.p.samples
        /\ q.mappings = pm.p.mappings /\ q.functions = pm.p.functions /\ q.locations = locations
    BY <1>1 DEF Fits, TypesFit
  <2> HIDE DEF q
  <2>5. Fits(q)
    <3>1. /\ pm.p.functions \in Seq(Functions) /\ pm.p.mappings \in Seq(Mappings)
          /\ Indexed(pm.p.functions) /\ Indexed(pm.p.mappings)
          /\ Len(pm.p.functions) \in Nat /\ Len(pm.p.mappings) \in Nat
      BY DEF Merger, Fits, TablesFit
    <3>2. LocationFits(q, entry)
      BY <2>4 DEF LocationFits
    <3>3. \A i \in 1..Len(q.locations) : i > n => i = n + 1
      BY <1>1, <2>3, <2>4
    <3>4. \A i \in 1..Len(q.locations) : i > n => LocationFits(q, q.locations[i])
      BY <2>3, <2>4, <3>2, <3>3
    <3>5. /\ Len(q.functions) >= Len(pm.p.functions) /\ Len(q.mappings) >= Len(pm.p.mappings)
          /\ Len(q.locations) >= n
      BY <1>1, <2>3, <2>4, <3>1
    <3>6. QED
      BY <1>1, <2>3, <2>4, <3>1, <3>4, <3>5, GrownFits
  <2>6. /\ DOMAIN new = DOMAIN pm /\ new.p = q /\ new.mappingsByID = pm.mappingsByID
        /\ new.locationsByID = byID /\ new.functionsByID = pm.functionsByID
    BY <2>2 DEF Merger
  <2>7. QED
    BY <2>1, <2>3, <2>4, <2>5, <2>6 DEF Merger, Keeps, new
<1>6. QED
  BY <1>2, <1>4, <1>5

(* mapLocation finds the location or adds it, with its mapping and *)
(* functions.                                                      *)
LEMMA MapLocationFits ==
    ASSUME NEW t, NEW pm, Merger(t, pm), NEW src, Fits(src), NEW l, LocationFits(src, l)
    PROVE  /\ Merger(t, MapLocation(pm, src, l)) /\ Keeps(pm, MapLocation(pm, src, l))
           /\ l.id \in DOMAIN MapLocation(pm, src, l).locationsByID
<1> DEFINE mid == WithReferences(pm, src, l)
           entry == Counterpart(mid, src, l)
<1>1. CASE l.id \in DOMAIN pm.locationsByID
  BY <1>1 DEF MapLocation, Keeps
<1>2. CASE l.id \notin DOMAIN pm.locationsByID
  <2>1. /\ Merger(t, mid) /\ Keeps(pm, mid)
        /\ l.mapping # 0 => src.mappings[l.mapping].id \in DOMAIN mid.mappingsByID
        /\ \A j \in 1..Len(l.lines) :
              l.lines[j].function # 0 => src.functions[l.lines[j].function].id \in DOMAIN mid.functionsByID
    BY WithReferencesFits
  <2>2. MapLocation(pm, src, l) = AddLocation(mid, l, entry)
    BY <1>2 DEF MapLocation, AddCounterpart
  <2> HIDE DEF mid
  <2>3. entry \in Locations /\ entry.id = Len(mid.p.locations) + 1 /\ LocationFits(mid.p, entry)
    BY <2>1, CounterpartFits
  <2> HIDE DEF entry
  <2> DEFINE new == AddLocation(mid, l, entry)
  <2>4. Merger(t, new) /\ Keeps(mid, new) /\ l.id \in DOMAIN new.locationsByID
    BY <2>1, <2>3, AddLocationFits
  <2> HIDE DEF new
  <2>5. Keeps(pm, new)
    BY <2>1, <2>4, KeepsAll
  <2>6. QED
    BY <2>2, <2>4, <2>5 DEF new
<1>3. QED
  BY <1>1, <1>2

(* The locations of a sample, by induction over its stack. *)
LocationOf(src, acc, l) == MapLocation(acc, src, src.locations[l])
StackMapped(k, n, acc) ==
    /\ Merger(k.t, acc)
    /\ \A j \in 1..n : k.src.locations[k.stack[j]].id \in DOMAIN acc.locationsByID
StackFold == INSTANCE FoldLaws WITH Op <- LocationOf, Holds <- StackMapped

(* A stack is mapped one location after another. *)
LEMMA MapSampleIsFold ==
    ASSUME NEW pm, NEW src, NEW s
    PROVE  MapSample(pm, src, s) = AddSampleOf(StackFold!Fold(src, pm, s.locations), src, s)
BY Zenon DEF MapSample, LocationOf, StackFold!Fold, FoldLeft, MapThenFoldSet,
   StackFold!MapThenFoldSet, StackFold!Largest, Max

(* A mapped stack is of places in the merged table of locations. *)
LEMMA StackIsMapped ==
    ASSUME NEW t, NEW pm, Merger(t, pm), NEW src, Fits(src), NEW stack \in Seq(1..Len(src.locations))
    PROVE  LET new == StackFold!Fold(src, pm, stack)
           IN /\ Merger(t, new)
              /\ \A j \in 1..Len(stack) : src.locations[stack[j]].id \in DOMAIN new.locationsByID
<1> DEFINE k == [t |-> t, src |-> src, stack |-> stack]
<1>1. DOMAIN stack = 1..Len(stack) /\ Len(stack) \in Nat /\ \A j \in 1..Len(stack) : stack[j] \in 1..Len(src.locations)
  OBVIOUS
<1>2. k.t = t /\ k.src = src /\ k.stack = stack
  OBVIOUS
<1> HIDE DEF k
<1>3. StackMapped(k, 0, pm)
  BY <1>2 DEF StackMapped
<1>4. ASSUME NEW i \in 1..Len(stack), NEW acc, StackMapped(k, i - 1, acc)
      PROVE  StackMapped(k, i, LocationOf(src, acc, stack[i]))
  <2> DEFINE l == src.locations[stack[i]]
             after == MapLocation(acc, src, l)
  <2>1. /\ Merger(t, acc)
        /\ \A j \in 1..i-1 : src.locations[stack[j]].id \in DOMAIN acc.locationsByID
    BY <1>2, <1>4 DEF StackMapped
  <2>2. LocationFits(src, l)
    BY <1>1 DEF Fits, TablesFit
  <2>3. Merger(t, after) /\ Keeps(acc, after) /\ l.id \in DOMAIN after.locationsByID
    <3> HIDE DEF l
    <3>1. QED
      BY <2>1, <2>2, MapLocationFits
  <2>4. LocationOf(src, acc, stack[i]) = after
    BY DEF LocationOf
  <2> HIDE DEF after
  <2>5. DOMAIN acc.locationsByID \subseteq DOMAIN after.locationsByID
    BY <2>3 DEF Keeps
  <2>6. \A j \in 1..i : j \in 1..i-1 \/ j = i
    OBVIOUS
  <2>7. \A j \in 1..i : src.locations[stack[j]].id \in DOMAIN after.locationsByID
    BY <2>1, <2>3, <2>5, <2>6
  <2>8. QED
    BY <1>2, <2>3, <2>4, <2>7 DEF StackMapped
<1>5. StackMapped(k, Len(stack), StackFold!Fold(src, pm, stack))
  BY <1>1, <1>3, <1>4, StackFold!FoldInduction
<1>6. QED
  BY <1>2, <1>5 DEF StackMapped

-------------------------------------------------------------------------------
(* A profile with other samples, each of which fits. *)
LEMMA OtherSamples ==
    ASSUME NEW p, Fits(p), NEW newSamples, NEW T, newSamples \in Seq(T), p.types # <<>>,
           \A i \in 1..Len(newSamples) : SampleFits(p, newSamples[i])
    PROVE  LET q == [p EXCEPT !.samples = newSamples]
           IN /\ Fits(q) /\ q.types = p.types /\ q.mappings = p.mappings /\ q.functions = p.functions
              /\ q.locations = p.locations
<1> DEFINE q == [p EXCEPT !.samples = newSamples]
<1>1. /\ DOMAIN q = DOMAIN p /\ q.types = p.types /\ q.mappings = p.mappings
      /\ q.functions = p.functions /\ q.locations = p.locations /\ q.samples = newSamples
  BY DEF Fits, TypesFit
<1> HIDE DEF q
<1>2. newSamples \in Seq(ToSet(newSamples))
  BY WholeSequence
<1>3. TypesFit(q) /\ TablesFit(q)
  BY <1>1 DEF Fits, TypesFit, TablesFit, LocationFits
<1>4. SamplesFit(q)
  BY <1>1, <1>2 DEF SamplesFit, SampleFits
<1>5. QED
  BY <1>1, <1>3, <1>4 DEF Fits, q

(* Adding the values of one sample to those of another (mapSample). *)
LEMMA AddedFits ==
    ASSUME NEW u \in Seq(Int), NEW v \in Seq(Int), Len(u) = Len(v)
    PROVE  Added(u, v) \in Seq(Int) /\ Len(Added(u, v)) = Len(u)
<1>1. DOMAIN u = 1..Len(u) /\ DOMAIN v = 1..Len(u) /\ Len(u) \in Nat
  OBVIOUS
<1>2. \A i \in 1..Len(u) : u[i] + v[i] \in Int
  BY <1>1
<1>3. Added(u, v) = [i \in 1..Len(u) |-> u[i] + v[i]]
  BY <1>1 DEF Added
<1>4. QED
  BY <1>1, <1>2, <1>3

(* A mapped sample is added, or added to the one with its key. *)
LEMMA AddMappedFits ==
    ASSUME NEW t, t # <<>>, NEW pm, Merger(t, pm), NEW s, SampleFits(pm.p, s)
    PROVE  Merger(t, AddMapped(pm, s))
<1> DEFINE new == AddMapped(pm, s)
           newSamples == pm.p.samples
           n == Len(newSamples)
           known == SelectInSeq(newSamples, LAMBDA x : SameKey(x, s))
<1>1. /\ Fits(pm.p) /\ pm.p.types = t /\ newSamples \in Seq(ToSet(newSamples)) /\ n \in Nat
      /\ \A i \in 1..n : SampleFits(pm.p, newSamples[i])
  BY DEF Merger, Fits, SamplesFit
<1>2. known \in 0..n
  <2> HIDE DEF newSamples
  <2>1. QED
    BY <1>1, FoundInRange
<1>3. new = FindSample(pm, s, known)
  BY Zenon DEF AddMapped
<1> HIDE DEF new, known
<1>4. ASSUME NEW T, NEW more, more \in Seq(T), \A i \in 1..Len(more) : SampleFits(pm.p, more[i]),
             new = [pm EXCEPT !.p = [pm.p EXCEPT !.samples = more]]
      PROVE  Merger(t, new)
  <2> DEFINE q == [pm.p EXCEPT !.samples = more]
  <2>1. /\ Fits(q) /\ q.types = t /\ q.mappings = pm.p.mappings /\ q.functions = pm.p.functions
        /\ q.locations = pm.p.locations
    BY <1>1, <1>4, OtherSamples
  <2> HIDE DEF q
  <2>2. /\ DOMAIN new = DOMAIN pm /\ new.p = q /\ new.mappingsByID = pm.mappingsByID
        /\ new.locationsByID = pm.locationsByID /\ new.functionsByID = pm.functionsByID
    BY <1>4 DEF Merger, q
  <2>3. QED
    BY <2>1, <2>2 DEF Merger
<1>5. CASE known = 0
  <2> DEFINE more == Append(newSamples, s)
             T == ToSet(newSamples) \cup {s}
  <2>1. more \in Seq(T) /\ Len(more) = n + 1 /\ more[n + 1] = s /\ \A i \in 1..n : more[i] = newSamples[i]
    <3>1. newSamples \in Seq(T) /\ s \in T
      BY <1>1
    <3> HIDE DEF T, newSamples
    <3>2. QED
      BY <3>1
  <2>2. new = [pm EXCEPT !.p = [pm.p EXCEPT !.samples = more]]
    BY <1>3, <1>5 DEF FindSample, Merger
  <2> HIDE DEF more, T
  <2>3. \A i \in 1..Len(more) : i \in 1..n \/ i = n + 1
    BY <1>1, <2>1
  <2>4. \A i \in 1..Len(more) : SampleFits(pm.p, more[i])
    BY <1>1, <2>1, <2>3
  <2>5. QED
    BY <1>4, <2>1, <2>2, <2>4 DEF new
<1>6. CASE known # 0
  <2> DEFINE old == newSamples[known]
             values == Added(old.values, s.values)
             sum == [old EXCEPT !.values = values]
             more == [newSamples EXCEPT ![known] = sum]
             T == ToSet(newSamples) \cup {sum}
  <2>1. known \in 1..n
    BY <1>1, <1>2, <1>6
  <2>2. SampleFits(pm.p, old) /\ SampleFits(pm.p, s)
    BY <1>1, <2>1
  <2>3. SampleFits(pm.p, sum)
    <3> HIDE DEF old
    <3>1. /\ {"locations", "values", "labels", "numLabels"} \subseteq DOMAIN old
          /\ old.locations \in Seq(1..Len(pm.p.locations))
          /\ old.values \in Seq(Int) /\ Len(old.values) = Len(pm.p.types)
          /\ s.values \in Seq(Int) /\ Len(s.values) = Len(pm.p.types)
      BY <2>2 DEF SampleFits
    <3>2. values \in Seq(Int) /\ Len(values) = Len(pm.p.types)
      BY <3>1, AddedFits
    <3> HIDE DEF values
    <3>3. DOMAIN sum = DOMAIN old /\ sum.locations = old.locations /\ sum.values = values
      BY <3>1
    <3> HIDE DEF sum
    <3>4. QED
      BY <3>1, <3>2, <3>3 DEF SampleFits
  <2>4. new = [pm EXCEPT !.p = [pm.p EXCEPT !.samples = more]]
    BY <1>3, <1>6 DEF FindSample, Merger, Fits, TypesFit
  <2> HIDE DEF sum
  <2>5. more \in Seq(T) /\ Len(more) = n /\ \A i \in 1..n : more[i] = IF i = known THEN sum ELSE newSamples[i]
    <3>1. newSamples \in Seq(T) /\ sum \in T
      BY <1>1
    <3>2. more \in Seq(T) /\ Len(more) = n
      <4> HIDE DEF T, newSamples
      <4>1. QED
        BY <3>1, ReplacedAt
    <3>3. \A i \in 1..n : more[i] = IF i = known THEN sum ELSE newSamples[i]
      BY <1>1
    <3>4. QED
      BY <3>2, <3>3
  <2> HIDE DEF more, T
  <2>6. \A i \in 1..Len(more) : SampleFits(pm.p, more[i])
    BY <1>1, <2>3, <2>5
  <2>7. QED
    BY <1>4, <2>4, <2>5, <2>6 DEF new
<1>7. QED
  BY <1>5, <1>6 DEF new

(* mapSample keeps what holds of a merged profile. *)
LEMMA MapSampleFits ==
    ASSUME NEW t, t # <<>>, NEW pm, Merger(t, pm), NEW src, Fits(src), src.types = t,
           NEW s, SampleFits(src, s)
    PROVE  Merger(t, MapSample(pm, src, s))
<1> DEFINE mid == StackFold!Fold(src, pm, s.locations)
           stack == [j \in DOMAIN s.locations |-> mid.locationsByID[src.locations[s.locations[j]].id]]
           new == [s EXCEPT !.locations = stack]
<1>1. /\ {"locations", "values", "labels", "numLabels"} \subseteq DOMAIN s
      /\ s.locations \in Seq(1..Len(src.locations))
      /\ s.values \in Seq(Int) /\ Len(s.values) = Len(t)
      /\ DOMAIN s.locations = 1..Len(s.locations) /\ Len(s.locations) \in Nat
  BY DEF SampleFits
<1>2. /\ Merger(t, mid)
      /\ \A j \in 1..Len(s.locations) : src.locations[s.locations[j]].id \in DOMAIN mid.locationsByID
  BY <1>1, StackIsMapped
<1>3. MapSample(pm, src, s) = AddMapped(mid, new)
  BY MapSampleIsFold DEF AddSampleOf
<1> HIDE DEF mid
<1>4. \A j \in 1..Len(s.locations) : mid.locationsByID[src.locations[s.locations[j]].id] \in 1..Len(mid.p.locations)
  BY <1>2 DEF Merger, ByIDFit
<1>5. stack \in Seq(1..Len(mid.p.locations))
  BY <1>1, <1>4
<1> HIDE DEF stack
<1>6. DOMAIN new = DOMAIN s /\ new.locations = stack /\ new.values = s.values
  BY <1>1
<1> HIDE DEF new
<1>7. SampleFits(mid.p, new)
  BY <1>1, <1>2, <1>5, <1>6 DEF SampleFits, Merger
<1>8. QED
  BY <1>2, <1>3, <1>7, AddMappedFits

-------------------------------------------------------------------------------
(* One pass over the samples of a source, by induction over them. *)
EachSample(src, acc, s) == IF IsZeroSample(s) THEN acc ELSE MapSample(acc, src, s)
StillMerger(t, n, acc) == Merger(t, acc)
SamplesFold == INSTANCE FoldLaws WITH Op <- EachSample, Holds <- StillMerger

(* The samples of a source are mapped one after another. *)
LEMMA MergeSourceIsFold ==
    ASSUME NEW pm, NEW srcs, NEW src
    PROVE  MergeSource(pm, srcs, src) =
              SamplesFold!Fold(src, WithMainBinary(WithFreshTables(pm), srcs, src), src.samples)
BY Zenon DEF MergeSource, EachSample, SamplesFold!Fold, FoldLeft, MapThenFoldSet,
   SamplesFold!MapThenFoldSet, SamplesFold!Largest, Max

(* Profiles of the types t that Merge takes without a panic. *)
Mergeable(t, srcs) ==
    /\ DOMAIN srcs = 1..Len(srcs) /\ Len(srcs) \in Nat \ {0}
    /\ \A i \in 1..Len(srcs) : Fits(srcs[i]) /\ srcs[i].types = t
    /\ srcs[1].mappings = <<>> => \A i \in 1..Len(srcs) : srcs[i].mappings = <<>>

(* The tables of IDs are empty for each source; the main binary of the *)
(* first is entered before any other mapping (Merge).                  *)
LEMMA WithMainBinaryFits ==
    ASSUME NEW t, NEW pm, Merger(t, pm), NEW srcs, Mergeable(t, srcs), NEW i \in 1..Len(srcs)
    PROVE  Merger(t, WithMainBinary(WithFreshTables(pm), srcs, srcs[i]))
<1> DEFINE fresh == WithFreshTables(pm)
           first == srcs[1]
<1>1. Merger(t, fresh)
  <2>1. /\ DOMAIN fresh = DOMAIN pm /\ fresh.p = pm.p /\ fresh.mappingsByID = NoIDs
        /\ fresh.functionsByID = NoIDs /\ fresh.locationsByID = NoIDs
    BY DEF WithFreshTables, Merger
  <2>2. DOMAIN NoIDs = {}
    BY DEF NoIDs
  <2> HIDE DEF fresh
  <2>3. QED
    BY <2>1, <2>2 DEF Merger, ByIDFit
<1> HIDE DEF fresh
<1>2. CASE srcs[i].mappings # <<>>
  <2>1. first.mappings # <<>> /\ Fits(first)
    BY <1>2 DEF Mergeable
  <2> HIDE DEF first
  <2>2. first.mappings \in Seq(Mappings)
    BY <2>1 DEF Fits, TablesFit
  <2>3. first.mappings[1] \in Mappings
    BY <2>1, <2>2
  <2>4. Merger(t, MapMapping(fresh, first.mappings[1]))
    BY <1>1, <2>3, MapMappingFits
  <2>5. QED
    BY <1>1, <2>4 DEF WithMainBinary, first, fresh
<1>3. CASE srcs[i].mappings = <<>>
  BY <1>1, <1>3 DEF WithMainBinary, fresh
<1>4. QED
  BY <1>2, <1>3

(* One source is merged. *)
LEMMA MergeSourceFits ==
    ASSUME NEW t, NEW pm, Merger(t, pm), NEW srcs, Mergeable(t, srcs), NEW i \in 1..Len(srcs)
    PROVE  Merger(t, MergeSource(pm, srcs, srcs[i]))
<1> DEFINE src == srcs[i]
           base == WithMainBinary(WithFreshTables(pm), srcs, src)
<1>1. Merger(t, base)
  BY WithMainBinaryFits
<1>2. Fits(src) /\ src.types = t
  BY DEF Mergeable
<1>3. MergeSource(pm, srcs, src) = SamplesFold!Fold(src, base, src.samples)
  BY MergeSourceIsFold
<1> HIDE DEF src, base
<1>4. /\ DOMAIN src.samples = 1..Len(src.samples) /\ Len(src.samples) \in Nat
      /\ (t = <<>> => Len(src.samples) = 0)
      /\ \A j \in 1..Len(src.samples) : SampleFits(src, src.samples[j])
  BY <1>2 DEF Fits, SamplesFit
<1>5. ASSUME NEW j \in 1..Len(src.samples), NEW acc, StillMerger(t, j - 1, acc)
      PROVE  StillMerger(t, j, EachSample(src, acc, src.samples[j]))
  <2> DEFINE s == src.samples[j]
  <2>1. t # <<>> /\ SampleFits(src, s) /\ Merger(t, acc)
    BY <1>4, <1>5 DEF StillMerger
  <2> HIDE DEF s
  <2>2. Merger(t, MapSample(acc, src, s))
    BY <1>2, <2>1, MapSampleFits
  <2>3. QED
    BY <2>1, <2>2 DEF StillMerger, EachSample, s
<1>6. StillMerger(t, 0, base)
  BY <1>1 DEF StillMerger
<1>7. StillMerger(t, Len(src.samples), SamplesFold!Fold(src, base, src.samples))
  BY <1>4, <1>5, <1>6, SamplesFold!FoldInduction
<1>8. QED
  BY <1>3, <1>7 DEF StillMerger, src

(* A merge, by induction over the sources. *)
EachSource(srcs, acc, src) == MergeSource(acc, srcs, src)
SourcesFold == INSTANCE FoldLaws WITH Op <- EachSource, Holds <- StillMerger

(* The sources are merged one after another. *)
LEMMA MergeOnceIsFold ==
    ASSUME NEW srcs
    PROVE  MergeOnce(srcs) = SourcesFold!Fold(srcs, NewMerger(srcs), srcs).p
BY Zenon DEF MergeOnce, EachSource, SourcesFold!Fold, FoldLeft, MapThenFoldSet,
   SourcesFold!MapThenFoldSet, SourcesFold!Largest, Max

(* A merge begins with an empty profile, which fits. *)
LEMMA NewMergerFits ==
    ASSUME NEW t, NEW srcs, Mergeable(t, srcs)
    PROVE  Merger(t, NewMerger(srcs))
<1> DEFINE p == CombineHeaders(srcs)
           pm == NewMerger(srcs)
           first == srcs[1]
<1>1. TypesFit(first) /\ first.types = t
  BY DEF Mergeable, Fits
<1>2. /\ {"types", "samples", "mappings", "functions", "locations"} \subseteq DOMAIN p
      /\ p.types = t /\ p.samples = <<>> /\ p.mappings = <<>> /\ p.locations = <<>> /\ p.functions = <<>>
  BY <1>1, Zenon DEF CombineHeaders, TypesFit
<1>3. /\ {"p", "mappingsByID", "functionsByID", "locationsByID"} \subseteq DOMAIN pm
      /\ pm.p = p /\ pm.mappingsByID = NoIDs /\ pm.functionsByID = NoIDs /\ pm.locationsByID = NoIDs
  BY DEF NewMerger
<1> HIDE DEF p, pm
<1>4. DOMAIN NoIDs = {}
  BY DEF NoIDs
<1>5. TypesFit(p) /\ TablesFit(p) /\ SamplesFit(p)
  BY <1>1, <1>2 DEF TypesFit, TablesFit, SamplesFit, Numbered
<1>6. QED
  BY <1>2, <1>3, <1>4, <1>5 DEF Merger, Fits, Indexed, ByIDFit, pm

(* So does the merge of all sources, in one pass. *)
LEMMA MergeOnceFits ==
    ASSUME NEW t, NEW srcs, Mergeable(t, srcs)
    PROVE  Fits(MergeOnce(srcs)) /\ MergeOnce(srcs).types = t
<1>1. DOMAIN srcs = 1..Len(srcs) /\ Len(srcs) \in Nat
  BY DEF Mergeable
<1>2. StillMerger(t, 0, NewMerger(srcs))
  BY NewMergerFits DEF StillMerger
<1>3. ASSUME NEW i \in 1..Len(srcs), NEW acc, StillMerger(t, i - 1, acc)
      PROVE  StillMerger(t, i, EachSource(srcs, acc, srcs[i]))
  BY <1>3, MergeSourceFits DEF StillMerger, EachSource
<1>4. StillMerger(t, Len(srcs), SourcesFold!Fold(srcs, NewMerger(srcs), srcs))
  BY <1>1, <1>2, <1>3, SourcesFold!FoldInduction
<1>5. QED
  BY <1>4, MergeOnceIsFold DEF StillMerger, Merger

(* Merge, with the second pass that drops samples of zeros. *)
LEMMA MergeFits ==
    ASSUME NEW t, NEW srcs, Mergeable(t, srcs)
    PROVE  Fits(Merge(srcs))
<1> DEFINE merged == MergeOnce(srcs)
<1>1. Fits(merged) /\ merged.types = t
  BY MergeOnceFits
<1> HIDE DEF merged
<1>2. Mergeable(t, <<merged>>)
  BY <1>1 DEF Mergeable
<1>3. Fits(MergeOnce(<<merged>>))
  BY <1>2, MergeOnceFits
<1>4. QED
  BY <1>1, <1>3 DEF Merge, WithoutZeroSamples, merged

(* Merge of two valid profiles of the same types, unless it panics. *)
LEMMA MergeOfTwoFits ==
    ASSUME NEW p, Fits(p), NEW q, Fits(q), p.types = q.types, ~MergePanics(<<p, q>>)
    PROVE  Fits(Merge(<<p, q>>))
<1> DEFINE srcs == <<p, q>>
<1>1. Len(srcs) = 2 /\ DOMAIN srcs = 1..2 /\ srcs[1] = p /\ srcs[2] = q
  OBVIOUS
<1>2. p \in ToSet(srcs) /\ q \in ToSet(srcs)
  BY <1>1 DEF ToSet
<1>3. \A i \in 1..2 : i = 1 \/ i = 2
  OBVIOUS
<1> HIDE DEF srcs
<1>4. p.mappings = <<>> => q.mappings = <<>>
  BY <1>1, <1>2 DEF MergePanics, srcs
<1>5. Mergeable(p.types, srcs)
  BY <1>1, <1>3, <1>4 DEF Mergeable
<1>6. QED
  BY <1>5, MergeFits DEF srcs

(* A profile that fits does so after Compact. *)
LEMMA CompactFits ==
    ASSUME NEW p, Fits(p)
    PROVE  Fits(Compact(p))
<1>1. Mergeable(p.types, <<p>>)
  BY DEF Mergeable
<1>2. QED
  BY <1>1, MergeFits DEF Compact

-------------------------------------------------------------------------------
(* A result is open only without an error, and if it is valid (Parse). *)
LEMMA OpenResult ==
    ASSUME NEW error, NEW p, ParseResult(error, p).status = "open"
    PROVE  ParseResult(error, p).profile = p /\ error = "" /\ CheckValid(p)
<1>1. /\ ParseResult(error, p).profile = p
      /\ ParseResult(error, p).status = IF error = "panic" THEN "panicked"
                                        ELSE IF error = "" /\ CheckValid(p) THEN "open" ELSE "rejected"
  BY Zenon DEF ParseResult
<1>2. "panicked" # "open" /\ "rejected" # "open"
  OBVIOUS
<1>3. error = "" /\ CheckValid(p)
  BY <1>1, <1>2, Zenon
<1>4. QED
  BY <1>1, <1>3, Zenon

(* What Parse returns without an error fits, of a message or of a text. *)
LEMMA ResultFits ==
    ASSUME NEW w \in Sources, Results[w].status = "open"
    PROVE  Fits(Results[w].profile)
<1>1. CASE w \in DOMAIN Wires
  <2> DEFINE p == Parse(Wires[w])
             error == IF Wires[w].malformed THEN "unrecognized" ELSE ""
  <2>1. Results[w] = ParseResult(error, p)
    BY <1>1, Zenon DEF Results
  <2>2. IsProfile(p)
    BY <1>1, OperationsAssumption, PostDecodeIsProfile, Zenon DEF Parse
  <2> HIDE DEF p, error
  <2>3. Results[w].profile = p /\ CheckValid(p)
    BY <2>1, OpenResult, Zenon
  <2>4. QED
    BY <2>2, <2>3, FitsIsValid
<1>2. CASE w \notin DOMAIN Wires
  <2> DEFINE result == ParseLegacy(Texts[w])
             p == IF result.error = "" THEN result.profile ELSE NoProfile
  <2>1. w \in DOMAIN Texts
    BY <1>2 DEF Sources
  <2>2. Results[w] = LegacyResult(result)
    BY <1>2 DEF Results
  <2>3. result.error = "" => IsProfile(result.profile)
    BY <2>1, OperationsAssumption, Zenon
  <2> HIDE DEF result
  <2>4. Results[w] = ParseResult(result.error, p)
    BY <2>2, Zenon DEF LegacyResult
  <2> HIDE DEF p
  <2>5. Results[w].profile = p /\ result.error = "" /\ CheckValid(p)
    BY <2>4, OpenResult, Zenon
  <2>6. p = result.profile
    BY <2>5, Zenon DEF p
  <2>7. QED
    BY <2>3, <2>5, <2>6, FitsIsValid, Zenon
<1>3. QED
  BY <1>1, <1>2

(* The inductive invariant: what is open has the fields of a profile and is valid. *)
OperationsInv == ProfileTypeOK /\ StaysValid

(* The profile that is open fits. *)
LEMMA OpenFits ==
    OperationsInv => (status = "open" => Fits(profile))
BY FitsIsValid DEF OperationsInv, ProfileTypeOK, StaysValid

(* An operation whose result fits keeps the invariant. *)
LEMMA BecomesValid ==
    ASSUME OperationsInv, Ready, NEW p, Fits(p), NEW operation, Becomes(p, operation)
    PROVE  OperationsInv'
<1>1. IsProfile(p) /\ CheckValid(p)
  BY FitsIsValid
<1>2. status = "open" /\ operations > 0 /\ operations \in 0..MaxOperations /\ MaxOperations \in Nat
  BY OperationsAssumption, Zenon DEF Ready, OperationsInv, ProfileTypeOK
<1>3. status' = status /\ profile' = p /\ operations' = operations - 1
  BY DEF Becomes
<1>4. operations' \in 0..MaxOperations
  BY <1>2, <1>3
<1>5. QED
  BY <1>1, <1>2, <1>3, <1>4 DEF OperationsInv, ProfileTypeOK, StaysValid

(* Every operation of the package keeps the invariant. *)
LEMMA OperationKeepsInv ==
    ASSUME OperationsInv, Ready, Operation
    PROVE  OperationsInv'
<1>1. Fits(profile)
  BY OpenFits DEF Ready
<1>2. ASSUME NEW w \in Sources, MergeParsed(w, Results[w]) PROVE OperationsInv'
  <2> DEFINE other == Results[w].profile
  <2>1. Fits(other)
    BY <1>2, ResultFits DEF MergeParsed
  <2>2. MergeWith(w, other) \/ MergeFails(w, other) \/ MergePanicking(w, other)
    BY <1>2 DEF MergeParsed
  <2> HIDE DEF other
  <2>3. CASE MergeWith(w, other)
    <3>1. Fits(Merge(<<profile, other>>))
      BY <1>1, <2>1, <2>3, MergeOfTwoFits DEF MergeWith, Compatible
    <3>2. QED
      BY <2>3, <3>1, BecomesValid DEF MergeWith
  <2>4. CASE MergeFails(w, other)
    BY <1>1, <2>4, BecomesValid, Zenon DEF MergeFails
  <2>5. CASE MergePanicking(w, other)
    BY <2>5 DEF MergePanicking, OperationsInv, ProfileTypeOK, StaysValid
  <2>6. QED
    BY <2>2, <2>3, <2>4, <2>5
<1>3. CASE CompactProfile
  BY <1>1, <1>3, CompactFits, BecomesValid DEF CompactProfile
<1>4. CASE CopyProfile
  BY <1>1, <1>4, CopyFits, BecomesValid DEF CopyProfile
<1>5. CASE RemoveUninterestingFrames
  BY <1>1, <1>5, RemoveUninterestingFits, BecomesValid, Zenon DEF RemoveUninterestingFrames
<1>6. CASE Massage
  BY <1>1, <1>6, MassageMappingsFits, BecomesValid DEF Massage
<1>7. ASSUME NEW drop, PruneProfileFrom(drop) PROVE OperationsInv'
  BY <1>1, <1>7, PruneFromFits, BecomesValid, Zenon DEF PruneProfileFrom
<1>8. ASSUME NEW drop, NEW keep, PruneProfile(drop, keep) PROVE OperationsInv'
  BY <1>1, <1>8, PruneFits, BecomesValid DEF PruneProfile
<1>9. ASSUME NEW f, FilterByName(f) PROVE OperationsInv'
  BY <1>1, <1>9, FilterSamplesByNameFits, BecomesValid DEF FilterByName
<1>10. ASSUME NEW show, NEW hide, FilterTags(show, hide) PROVE OperationsInv'
  BY <1>1, <1>10, FilterTagsByNameFits, BecomesValid, Zenon DEF FilterTags
<1>11. ASSUME NEW focus, NEW ignore, FilterByTag(focus, ignore) PROVE OperationsInv'
  BY <1>1, <1>11, FilterSamplesByTagFits, BecomesValid, Zenon DEF FilterByTag
<1>12. ASSUME NEW keep, AggregateProfile(keep) PROVE OperationsInv'
  BY <1>1, <1>12, AggregateFits, BecomesValid DEF AggregateProfile
<1>13. ASSUME NEW ratio \in Ratios, Scale(ratio) PROVE OperationsInv'
  <2> DEFINE ratios == [i \in DOMAIN profile.types |-> ratio]
  <2>1. DOMAIN profile.types = 1..Len(profile.types)
    BY <1>1 DEF Fits, TypesFit
  <2>2. \A j \in 1..Len(profile.types) : ratios[j].num \in Int /\ ratios[j].den \in Nat \ {0}
    BY <2>1, OperationsAssumption, Zenon
  <2>3. Becomes(ScaleN(profile, ratios), <<"scale">>)
    BY <1>13 DEF Scale
  <2> HIDE DEF ratios
  <2>4. QED
    BY <1>1, <2>2, <2>3, ScaleNFits, BecomesValid
<1>14. QED
  BY <1>2, <1>3, <1>4, <1>5, <1>6, <1>7, <1>8, <1>9, <1>10, <1>11, <1>12, <1>13 DEF Operation

(* So does Parse, whatever it returns. *)
LEMMA ParseKeepsInv ==
    ASSUME OperationsInv, NEW w \in Sources, ParseProfile(w)
    PROVE  OperationsInv'
<1>1. /\ status' = Results[w].status /\ operations' = operations
      /\ profile' = IF Results[w].status = "open" THEN Results[w].profile ELSE NoProfile
  BY DEF ParseProfile, Read
<1>2. Results[w].status \in {"open", "rejected", "panicked"}
  BY DEF Results, Sources, LegacyResult, ParseResult
<1>3. CASE Results[w].status = "open"
  <2>1. IsProfile(profile') /\ CheckValid(profile')
    BY <1>1, <1>3, ResultFits, FitsIsValid
  <2>2. QED
    BY <1>1, <1>3, <2>1 DEF OperationsInv, ProfileTypeOK, StaysValid
<1>4. CASE Results[w].status # "open"
  BY <1>1, <1>2, <1>4 DEF OperationsInv, ProfileTypeOK, StaysValid
<1>5. QED
  BY <1>3, <1>4

(* The invariant of the operations, which is inductive. *)
LEMMA OperationsInvariant == OperationsSpec => []OperationsInv
<1>1. ASSUME OperationsInit PROVE OperationsInv
  <2>1. MaxOperations \in Nat
    BY OperationsAssumption, Zenon
  <2>2. status = "unread" /\ profile = NoProfile /\ operations \in 0..MaxOperations
    BY <1>1, <2>1 DEF OperationsInit
  <2>3. QED
    BY <2>2 DEF OperationsInv, ProfileTypeOK, StaysValid
<1>2. OperationsInv /\ [OperationsNext]_operationVars => OperationsInv'
  <2>1. ASSUME OperationsInv, UNCHANGED operationVars PROVE OperationsInv'
    BY <2>1 DEF operationVars, OperationsInv, ProfileTypeOK, StaysValid
  <2>2. ASSUME OperationsInv, OperationsNext PROVE OperationsInv'
    BY <2>2, ParseKeepsInv, OperationKeepsInv DEF OperationsNext
  <2>3. QED
    BY <2>1, <2>2
<1>3. QED
  BY <1>1, <1>2, PTL DEF OperationsSpec

(* Type correctness: the profile that is open has the fields of one, whatever   *)
(* was read and was done to it (Parse and the operations of the package).       *)
THEOREM ProfileTypeCorrect == OperationsSpec => []ProfileTypeOK
<1>1. OperationsInv => ProfileTypeOK
  BY DEF OperationsInv
<1>2. QED
  BY <1>1, OperationsInvariant, PTL

(* A profile that was parsed without an error passes CheckValid after any       *)
(* operations, in any order: no operation leaves a sample, a location or a line *)
(* with a reference to nothing, an ID twice, or values that are not of the      *)
(* sample types (Merge, Compact, Copy, Prune, PruneFrom, FilterSamplesByName,   *)
(* FilterSamplesByTag, FilterTagsByName, Aggregate, ScaleN, massageMappings).   *)
THEOREM OperationsKeepValid == OperationsSpec => []StaysValid
<1>1. OperationsInv => StaysValid
  BY DEF OperationsInv
<1>2. QED
  BY <1>1, OperationsInvariant, PTL
-------------------------------------------------------------------------------
(* What an operation that is named "filter", "prune", "merge" or "compact" is;  *)
(* none is named like Parse.                                                    *)
LEMMA OperationNamed ==
    ASSUME Ready, Operation
    PROVE  /\ last'[1] = "filter" => \E f \in Filters : FilterByName(f)
           /\ last'[1] = "prune" => \E drop, keep : PruneProfile(drop, keep)
           /\ last'[1] = "merge" => \E w \in Sources : MergeParsed(w, Results[w])
           /\ last'[1] = "compact" => CompactProfile
           /\ last'[1] # "parse"
<1>1. \A p, operation : Becomes(p, operation) => last' = operation
  BY DEF Becomes
<1>2. ASSUME NEW w, NEW result, MergeParsed(w, result) PROVE last'[1] \in {"merge", "failed merge"}
  <2>1. CASE last' = <<"merge", w>>
    BY <2>1
  <2>2. CASE last' = <<"failed merge", w>>
    BY <2>2, Zenon
  <2>3. MergeWith(w, result.profile) => last' = <<"merge", w>>
    BY <1>1 DEF MergeWith
  <2>4. MergeFails(w, result.profile) => last' = <<"failed merge", w>>
    BY <1>1, Zenon DEF MergeFails
  <2>5. MergePanicking(w, result.profile) => last' = <<"merge", w>>
    BY DEF MergePanicking
  <2>6. QED
    BY <1>2, <2>1, <2>2, <2>3, <2>4, <2>5, Zenon DEF MergeParsed
<1>3. ASSUME CompactProfile PROVE last'[1] = "compact"
  <2>1. last' = <<"compact">>
    BY <1>1, <1>3 DEF CompactProfile
  <2>2. QED
    BY <2>1
<1>4. ASSUME CopyProfile PROVE last'[1] = "copy"
  <2>1. last' = <<"copy">>
    BY <1>1, <1>4 DEF CopyProfile
  <2>2. QED
    BY <2>1
<1>5. ASSUME RemoveUninterestingFrames PROVE last'[1] = "remove uninteresting"
  <2>1. last' = <<"remove uninteresting">>
    BY <1>1, <1>5, Zenon DEF RemoveUninterestingFrames
  <2>2. QED
    BY <2>1, Zenon
<1>6. ASSUME Massage PROVE last'[1] = "massage"
  <2>1. last' = <<"massage">>
    BY <1>1, <1>6 DEF Massage
  <2>2. QED
    BY <2>1
<1>7. ASSUME NEW drop, PruneProfileFrom(drop) PROVE last'[1] = "prune from"
  <2>1. last' = <<"prune from", drop>>
    BY <1>1, <1>7, Zenon DEF PruneProfileFrom
  <2>2. QED
    BY <2>1, Zenon
<1>8. ASSUME NEW show, NEW hide, FilterTags(show, hide) PROVE last'[1] = "filter tags"
  <2>1. last' = <<"filter tags">>
    BY <1>1, <1>8, Zenon DEF FilterTags
  <2>2. QED
    BY <2>1, Zenon
<1>9. ASSUME NEW focus, NEW ignore, FilterByTag(focus, ignore) PROVE last'[1] = "filter by tag"
  <2>1. last' = <<"filter by tag">>
    BY <1>1, <1>9, Zenon DEF FilterByTag
  <2>2. QED
    BY <2>1, Zenon
<1>10. ASSUME NEW keep, AggregateProfile(keep) PROVE last'[1] = "aggregate"
  <2>1. last' = <<"aggregate">>
    BY <1>1, <1>10 DEF AggregateProfile
  <2>2. QED
    BY <2>1
<1>11. ASSUME NEW ratio, Scale(ratio) PROVE last'[1] = "scale"
  <2>1. last' = <<"scale">>
    BY <1>1, <1>11 DEF Scale
  <2>2. QED
    BY <2>1
<1>12. ASSUME NEW f, FilterByName(f) PROVE last'[1] = "filter"
  <2>1. last' = <<"filter", f>>
    BY <1>1, <1>12 DEF FilterByName
  <2>2. QED
    BY <2>1
<1>13. ASSUME NEW drop, NEW keep, PruneProfile(drop, keep) PROVE last'[1] = "prune"
  <2>1. last' = <<"prune", drop, keep>>
    BY <1>1, <1>13 DEF PruneProfile
  <2>2. QED
    BY <2>1
<1>14. ASSUME last'[1] = "filter" PROVE \E f \in Filters : FilterByName(f)
  BY <1>2, <1>3, <1>4, <1>5, <1>6, <1>7, <1>8, <1>9, <1>10, <1>11, <1>13, <1>14 DEF Operation
<1>15. ASSUME last'[1] = "prune" PROVE \E drop, keep : PruneProfile(drop, keep)
  BY <1>2, <1>3, <1>4, <1>5, <1>6, <1>7, <1>8, <1>9, <1>10, <1>11, <1>12, <1>15 DEF Operation
<1>16. ASSUME last'[1] = "merge" PROVE \E w \in Sources : MergeParsed(w, Results[w])
  BY <1>3, <1>4, <1>5, <1>6, <1>7, <1>8, <1>9, <1>10, <1>11, <1>12, <1>13, <1>16 DEF Operation
<1>17. ASSUME last'[1] = "compact" PROVE CompactProfile
  BY <1>2, <1>4, <1>5, <1>6, <1>7, <1>8, <1>9, <1>10, <1>11, <1>12, <1>13, <1>17 DEF Operation
<1>18. last'[1] # "parse"
  BY <1>2, <1>3, <1>4, <1>5, <1>6, <1>7, <1>8, <1>9, <1>10, <1>11, <1>12, <1>13 DEF Operation
<1>19. QED
  BY <1>14, <1>15, <1>16, <1>17, <1>18

(* What matches in a location does so in every profile with the same mappings  *)
(* and functions.                                                              *)
LEMMA MatchesAlike ==
    ASSUME NEW p, NEW q, q.mappings = p.mappings, q.functions = p.functions, NEW ln, NEW l, NEW m,
           m.mapping = l.mapping, NEW regexp
    PROVE  /\ Matches(q, ln, regexp) = Matches(p, ln, regexp)
           /\ FileMatches(q, m, regexp) = FileMatches(p, l, regexp)
BY DEF Matches, FileMatches

(* A location that is not hidden shows no line that hide matches, and shows    *)
(* some line if it has one.                                                    *)
LEMMA ShownUnmatched ==
    ASSUME NEW p, NEW l, l.lines \in Seq(Lines), NEW hide, NEW show, hide # NoRegexp, ~Hidden(p, l, hide, show)
    PROVE  /\ \A ln \in ToSet(ShownLines(p, l, hide, show)) : ~Matches(p, ln, hide)
           /\ ~FileMatches(p, l, hide)
           /\ ShownLines(p, l, hide, show) = <<>> => l.lines = <<>>
<1> DEFINE unmatched == {ln \in ToSet(l.lines) : ~Matches(p, ln, hide)}
           rest == Unhidden(p, l, hide)
<1>1. l.lines \in Seq(ToSet(l.lines))
  BY WholeSequence
<1>2. ~FileMatches(p, l, hide) /\ rest \in Seq(unmatched) /\ (rest = <<>> => l.lines = <<>>)
  <2>1. CASE Hides(p, l, hide)
    <3>1. rest = UnmatchedLines(p, l, hide) /\ rest # <<>>
      BY <2>1 DEF Unhidden, Hidden
    <3>2. ~FileMatches(p, l, hide) /\ rest = Among(l.lines, unmatched)
      BY <3>1 DEF UnmatchedLines
    <3>3. Among(l.lines, unmatched) \in Seq(ToSet(l.lines) \cap unmatched)
      <4> HIDE DEF unmatched
      <4>1. QED
        BY <1>1, AmongIsPart
    <3>4. ToSet(l.lines) \cap unmatched = unmatched
      OBVIOUS
    <3>5. QED
      BY <3>1, <3>2, <3>3, <3>4
  <2>2. CASE ~Hides(p, l, hide)
    <3>1. rest = l.lines /\ ~MatchesName(p, l, hide)
      BY <2>2 DEF Unhidden, Hides
    <3>2. ~FileMatches(p, l, hide) /\ unmatched = ToSet(l.lines)
      BY <3>1 DEF MatchesName
    <3>3. QED
      BY <1>1, <3>1, <3>2
  <2>3. QED
    BY <2>1, <2>2
<1>3. ShownLines(p, l, hide, show) \in Seq(unmatched)
  <2>1. CASE show = NoRegexp
    BY <1>2, <2>1 DEF ShownLines
  <2>2. CASE show # NoRegexp
    <3> DEFINE matched == {ln \in ToSet(rest) : ln.function = Nil \/ Matches(p, ln, show)}
    <3>1. ShownLines(p, l, hide, show) = Among(rest, matched)
      BY <2>2 DEF ShownLines, MatchedLines
    <3> HIDE DEF matched, unmatched, rest
    <3>2. Among(rest, matched) \in Seq(unmatched \cap matched)
      BY <1>2, AmongIsPart
    <3>3. QED
      BY <3>1, <3>2
  <2>3. QED
    BY <2>1, <2>2
<1>4. ShownLines(p, l, hide, show) = <<>> => l.lines = <<>>
  BY <1>2 DEF Hidden, ShownLines
<1>5. \A ln \in ToSet(ShownLines(p, l, hide, show)) : ln \in unmatched
  BY <1>3 DEF ToSet
<1>6. QED
  BY <1>2, <1>4, <1>5

(* Each location left in a sample is one that is visible, with its lines cut. *)
LEMMA FilterShows ==
    ASSUME NEW p, Fits(p), NEW focus, NEW ignore, NEW hide, NEW show, NEW q,
           q = FilterSamplesByName(p, focus, ignore, hide, show),
           NEW s \in ToSet(q.samples), NEW l \in ToSet(s.locations)
    PROVE  /\ l \in 1..Len(p.locations) /\ ~Hidden(p, p.locations[l], hide, show)
           /\ q.locations[l] = ShownLocation(p, p.locations[l], hide, show)
           /\ q.mappings = p.mappings /\ q.functions = p.functions
<1> DEFINE visible == {i \in DOMAIN p.locations : ~Hidden(p, p.locations[i], hide, show)}
           wanted == {t \in ToSet(p.samples) :
                        /\ FocusedAndNotIgnored(p, t, focus, ignore)
                        /\ ToSet(t.locations) \cap visible # {}}
           focused == Among(p.samples, wanted)
           locations == [i \in DOMAIN p.locations |-> ShownLocation(p, p.locations[i], hide, show)]
           newSamples == [i \in DOMAIN focused |-> ShownSample(focused[i], visible)]
<1>1. TypesFit(p) /\ TablesFit(p) /\ SamplesFit(p)
  BY DEF Fits
<1>2. q = [p EXCEPT !.samples = newSamples, !.locations = locations]
  BY <1>1 DEF FilterSamplesByName, TypesFit
<1>3. DOMAIN p.locations = 1..Len(p.locations) /\ p.samples \in Seq(ToSet(p.samples))
  BY <1>1 DEF TablesFit, SamplesFit
<1>4. focused \in Seq(ToSet(p.samples))
  <2> HIDE DEF wanted
  <2>1. focused \in Seq(ToSet(p.samples) \cap wanted)
    BY <1>3, AmongIsPart
  <2>2. QED
    BY <2>1
<1>5. DOMAIN newSamples = DOMAIN focused /\ \A i \in DOMAIN focused : newSamples[i] = ShownSample(focused[i], visible)
  OBVIOUS
<1>6. \A i \in DOMAIN p.locations : locations[i] = ShownLocation(p, p.locations[i], hide, show)
  OBVIOUS
<1>7. \A i \in visible : i \in DOMAIN p.locations /\ ~Hidden(p, p.locations[i], hide, show)
  OBVIOUS
<1> HIDE DEF locations, newSamples, visible, focused
<1>8. q.mappings = p.mappings /\ q.functions = p.functions /\ q.locations = locations /\ q.samples = newSamples
  BY <1>1, <1>2 DEF TypesFit
<1>9. PICK i \in DOMAIN focused : s = ShownSample(focused[i], visible)
  <2>1. PICK i \in DOMAIN newSamples : s = newSamples[i]
    BY <1>8 DEF ToSet
  <2>2. QED
    BY <1>5, <2>1
<1>10. PICK j \in DOMAIN p.samples : focused[i] = p.samples[j]
  <2>1. focused[i] \in ToSet(p.samples)
    BY <1>4
  <2>2. QED
    BY <2>1 DEF ToSet
<1>11. j \in 1..Len(p.samples)
  BY <1>3
<1> DEFINE t == focused[i]
<1>12. t.locations \in Seq(1..Len(p.locations)) /\ {"locations", "values", "labels", "numLabels"} \subseteq DOMAIN t
  BY <1>10, <1>11, StacksOf
<1> HIDE DEF t
<1>13. s.locations = Among(t.locations, visible)
  BY <1>9, <1>12 DEF ShownSample, t
<1>14. Among(t.locations, visible) \in Seq((1..Len(p.locations)) \cap visible)
  BY <1>12, AmongIsPart
<1>15. l \in visible
  BY <1>13, <1>14 DEF ToSet
<1>16. QED
  BY <1>3, <1>6, <1>7, <1>8, <1>15

(* Nothing that is left matches hide, and no location was emptied. *)
HideHides(p, q, hide) ==
    \A s \in ToSet(q.samples) : \A l \in ToSet(s.locations) :
        /\ ~MatchesName(q, q.locations[l], hide)
        /\ q.locations[l].lines = <<>> => p.locations[l].lines = <<>>
LEMMA FilterHides ==
    ASSUME NEW p, Fits(p), NEW focus, NEW ignore, NEW hide, hide # NoRegexp, NEW show
    PROVE  HideHides(p, FilterSamplesByName(p, focus, ignore, hide, show), hide)
<1> DEFINE q == FilterSamplesByName(p, focus, ignore, hide, show)
<1> HIDE DEF q
<1> SUFFICES ASSUME NEW s \in ToSet(q.samples), NEW l \in ToSet(s.locations)
             PROVE  /\ ~MatchesName(q, q.locations[l], hide)
                    /\ q.locations[l].lines = <<>> => p.locations[l].lines = <<>>
  BY DEF HideHides, q
<1> DEFINE old == p.locations[l]
           new == q.locations[l]
<1>1. /\ l \in 1..Len(p.locations) /\ ~Hidden(p, old, hide, show)
      /\ new = ShownLocation(p, old, hide, show)
      /\ q.mappings = p.mappings /\ q.functions = p.functions
  BY FilterShows DEF q
<1>2. old \in Locations /\ old.lines \in Seq(Lines)
  BY <1>1, LinesOf DEF Fits
<1> HIDE DEF old, new
<1>3. new.lines = ShownLines(p, old, hide, show) /\ new.mapping = old.mapping
  BY <1>1, <1>2 DEF ShownLocation, Locations
<1>4. /\ \A ln \in ToSet(new.lines) : ~Matches(p, ln, hide)
      /\ ~FileMatches(p, old, hide)
      /\ new.lines = <<>> => old.lines = <<>>
  BY <1>1, <1>2, <1>3, ShownUnmatched
<1>5. /\ \A ln \in ToSet(new.lines) : ~Matches(q, ln, hide)
      /\ ~FileMatches(q, new, hide)
  BY <1>1, <1>3, <1>4, MatchesAlike
<1>6. QED
  BY <1>4, <1>5 DEF MatchesName, old, new

(* No sample that FilterSamplesByName leaves shows a frame or a file that hide *)
(* matches, or has a location that the filters emptied.                        *)
THEOREM NothingHiddenIsShown == OperationsSpec => HiddenIsGone
<1>1. ASSUME OperationsInv, [OperationsNext]_operationVars
      PROVE  [last'[1] = "filter" /\ last'[2].hide # NoRegexp =>
                 \A s \in ToSet(profile'.samples) : \A l \in ToSet(s.locations) :
                     /\ ~MatchesName(profile', profile'.locations[l], last'[2].hide)
                     /\ profile'.locations[l].lines = <<>> => profile.locations[l].lines = <<>>]_operationVars
  <2> SUFFICES ASSUME OperationsNext, last'[1] = "filter", last'[2].hide # NoRegexp
               PROVE  HideHides(profile, profile', last'[2].hide)
    BY <1>1 DEF HideHides
  <2>1. ~(\E w \in Sources : ParseProfile(w))
    BY DEF ParseProfile, Read
  <2>2. Ready /\ Operation
    BY <2>1 DEF OperationsNext
  <2>3. PICK f \in Filters : FilterByName(f)
    BY <2>2, OperationNamed
  <2>4. Fits(profile)
    BY <1>1, <2>2, OpenFits DEF Ready
  <2>5. profile' = FilterSamplesByName(profile, f.focus, f.ignore, f.hide, f.show) /\ last'[2] = f
    BY <2>3 DEF FilterByName, Becomes
  <2>6. f.hide # NoRegexp
    BY <2>5
  <2>7. HideHides(profile, FilterSamplesByName(profile, f.focus, f.ignore, f.hide, f.show), f.hide)
    BY <2>4, <2>6, FilterHides
  <2>8. QED
    BY <2>5, <2>7
<1>2. QED
  BY <1>1, OperationsInvariant, PTL DEF OperationsSpec, HiddenIsGone

-------------------------------------------------------------------------------
(* What comes after the last of some places. *)
LEMMA BehindLast ==
    ASSUME NEW n \in Nat, NEW I, I \subseteq 1..n, NEW o, o = IF I # {} THEN Max(I) ELSE 0
    PROVE  /\ o \in 0..n /\ (o # 0 <=> I # {})
           /\ \A i \in o+1..n : i \notin I
<1>1. I \in SUBSET (1..n)
  OBVIOUS
<1>2. I # {} => Max(I) \in I /\ \A i \in I : i <= Max(I)
  BY ONLY <1>1, MaxOfIndices, n \in Nat
<1>3. CASE I = {}
  BY <1>3
<1>4. CASE I # {}
  <2>1. o \in I /\ \A i \in I : i <= o
    BY <1>2, <1>4
  <2>2. QED
    BY <2>1, <1>4
<1>5. QED
  BY <1>3, <1>4

(* The outermost line that is dropped: there is one if any line is, and those  *)
(* above it are not.                                                           *)
DropsIn(p, l, drop, keep) == \E ln \in ToSet(l.lines) : Drops(p, ln, drop, keep)
LEMMA OutermostIsLast ==
    ASSUME NEW p, NEW l, l.lines \in Seq(Lines), NEW drop, NEW keep, NEW o,
           o = OutermostDropped(p, l, drop, keep)
    PROVE  /\ o \in 0..Len(l.lines) /\ (o # 0 <=> DropsIn(p, l, drop, keep))
           /\ \A i \in o+1..Len(l.lines) : ~Drops(p, l.lines[i], drop, keep)
<1> DEFINE I == {i \in 1..Len(l.lines) : Drops(p, l.lines[i], drop, keep)}
<1>1. Len(l.lines) \in Nat /\ I \subseteq 1..Len(l.lines) /\ DOMAIN l.lines = 1..Len(l.lines)
  OBVIOUS
<1>2. o = IF I # {} THEN Max(I) ELSE 0
  BY DEF OutermostDropped, SelectLastInSeq
<1>3. I # {} <=> DropsIn(p, l, drop, keep)
  BY <1>1 DEF DropsIn, ToSet
<1>4. \A i \in 1..Len(l.lines) : i \notin I => ~Drops(p, l.lines[i], drop, keep)
  OBVIOUS
<1> HIDE DEF I
<1>5. o \in 0..Len(l.lines) /\ (o # 0 <=> I # {}) /\ \A i \in o+1..Len(l.lines) : i \notin I
  BY <1>1, <1>2, BehindLast
<1>6. \A i \in o+1..Len(l.lines) : i \in 1..Len(l.lines)
  BY <1>1, <1>5
<1>7. QED
  BY <1>3, <1>4, <1>5, <1>6

(* The end of a sequence, element by element. *)
LEMMA EndElements ==
    ASSUME NEW T, NEW seq \in Seq(T), NEW a \in 1..Len(seq)+1
    PROVE  /\ SubSeq(seq, a, Len(seq)) \in Seq(T)
           /\ Len(SubSeq(seq, a, Len(seq))) = Len(seq) - a + 1
           /\ \A i \in 1..Len(seq)-a+1 : SubSeq(seq, a, Len(seq))[i] = seq[a+i-1]
BY SubSeqProperties

(* A pruned location has no line that is dropped, unless all would go. *)
LEMMA PrunedIsClear ==
    ASSUME NEW p, NEW l, l.lines \in Seq(Lines), NEW drop, NEW keep,
           OutermostDropped(p, l, drop, keep) = 0 \/ OutermostDropped(p, l, drop, keep) # Len(l.lines)
    PROVE  \A ln \in ToSet(PrunedLines(p, l, drop, keep)) : ~Drops(p, ln, drop, keep)
<1> DEFINE o == OutermostDropped(p, l, drop, keep)
           new == PrunedLines(p, l, drop, keep)
           n == Len(l.lines)
<1>1. /\ o \in 0..n /\ n \in Nat /\ (o = 0 \/ o # n)
      /\ \A i \in o+1..n : ~Drops(p, l.lines[i], drop, keep)
  BY OutermostIsLast
<1>2. new = IF o = n THEN l.lines ELSE SubSeq(l.lines, o + 1, n)
  BY DEF PrunedLines
<1> HIDE DEF o, new
<1>3. CASE o = n
  <2>1. n = 0 /\ new = l.lines
    BY <1>1, <1>2, <1>3
  <2>2. ToSet(new) = {}
    BY <2>1 DEF ToSet
  <2>3. QED
    BY <2>2 DEF new
<1>4. CASE o # n
  <2>1. /\ new \in Seq(Lines) /\ Len(new) = n - o
        /\ \A i \in 1..n-o : new[i] = l.lines[o+i]
    <3>1. o + 1 \in 1..n+1
      BY <1>1
    <3> DEFINE rest == SubSeq(l.lines, o + 1, n)
    <3>2. /\ rest \in Seq(Lines) /\ Len(rest) = n - (o + 1) + 1
          /\ \A i \in 1..n-(o+1)+1 : rest[i] = l.lines[(o+1)+i-1]
      BY <3>1, EndElements
    <3>3. n - (o + 1) + 1 = n - o /\ \A i \in 1..n-o : (o+1)+i-1 = o + i
      BY <1>1
    <3> HIDE DEF rest
    <3>4. new = rest
      BY <1>2, <1>4 DEF rest
    <3>5. QED
      BY <3>2, <3>3, <3>4
  <2>2. \A i \in 1..n-o : o + i \in o+1..n
    BY <1>1
  <2>3. \A i \in 1..n-o : ~Drops(p, new[i], drop, keep)
    BY <1>1, <2>1, <2>2
  <2>4. DOMAIN new = 1..n-o
    BY <2>1
  <2>5. QED
    BY <2>3, <2>4 DEF ToSet, new
<1>5. QED
  BY <1>3, <1>4

(* The end of a sequence is a suffix of it. *)
LEMMA EndIsSuffix ==
    ASSUME NEW T, NEW seq \in Seq(T), NEW a \in 1..Len(seq)+1
    PROVE  IsSuffix(SubSeq(seq, a, Len(seq)), seq)
<1> DEFINE n == Len(seq)
           m == n - a + 1
           rest == SubSeq(seq, a, n)
           r == Reverse(rest)
           t == Reverse(seq)
<1>1. n \in Nat /\ m \in 0..n /\ \A i \in 1..m : m - i + 1 \in 1..m /\ a + (m - i + 1) - 1 = n - i + 1
  OBVIOUS
<1>2. rest \in Seq(T) /\ Len(rest) = m /\ \A i \in 1..m : rest[i] = seq[a+i-1]
  BY EndElements
<1> HIDE DEF rest, m
<1>3. r = [i \in 1..m |-> rest[m - i + 1]] /\ t = [i \in 1..n |-> seq[n - i + 1]]
  BY <1>2 DEF Reverse
<1>4. ASSUME NEW i \in 1..m PROVE r[i] = t[i]
  <2>1. m - i + 1 \in 1..m /\ i \in 1..n
    BY <1>1
  <2>2. r[i] = rest[m - i + 1] /\ t[i] = seq[n - i + 1]
    BY <1>3, <2>1
  <2>3. rest[m - i + 1] = seq[a + (m - i + 1) - 1]
    BY <1>2, <2>1
  <2>4. QED
    BY <1>1, <2>2, <2>3
<1>5. /\ r \in Seq(T) /\ Len(r) = m /\ t \in Seq(T) /\ Len(t) = n
  <2>1. \A i \in 1..m : m - i + 1 \in 1..m
    BY <1>1
  <2>2. \A i \in 1..m : rest[m - i + 1] \in T
    BY <1>2, <2>1
  <2>3. \A i \in 1..n : seq[n - i + 1] \in T
    OBVIOUS
  <2>4. QED
    BY <1>1, <1>3, <2>2, <2>3
<1> HIDE DEF r, t, n
<1>6. SubSeq(r, 1, m) = [i \in 1..m |-> r[i]] /\ SubSeq(t, 1, m) = [i \in 1..m |-> t[i]]
  BY <1>1, <1>5
<1>7. IsPrefix(r, t)
  BY <1>1, <1>4, <1>5, <1>6 DEF IsPrefix
<1>8. QED
  BY <1>7 DEF IsSuffix, r, t, rest, n

(* Of the locations left of a stack, one with a frame to keep above it has no  *)
(* line that is dropped, or not all lines beneath the last that is.            *)
StackCut(p, new, stack, drop, keep) ==
    LET LastDrop(l) == OutermostDropped(p, p.locations[l], drop, keep)
    IN /\ IsSuffix(new, stack) /\ new \in Seq(1..Len(p.locations))
       /\ stack # <<>> => new # <<>>
       /\ \A j \in 1..Len(new) : (\E k \in j+1..Len(new) : LastDrop(new[k]) = 0) =>
             LastDrop(new[j]) = 0 \/ LastDrop(new[j]) # Len(p.locations[new[j]].lines)
       /\ (\A j \in 1..Len(stack) : LastDrop(stack[j]) = 0) => new = stack
LEMMA StackIsCut ==
    ASSUME NEW p, TablesFit(p), NEW stack, stack \in Seq(1..Len(p.locations)), NEW drop, NEW keep, NEW new,
           new = PrunedStack(p, stack, drop, keep)
    PROVE  StackCut(p, new, stack, drop, keep)
<1> DEFINE LastDrop(l) == OutermostDropped(p, p.locations[l], drop, keep)
           Whole(j) == LastDrop(stack[j]) # 0 /\ LastDrop(stack[j]) = Len(p.locations[stack[j]].lines)
           cuts == {j \in DOMAIN stack : LastDrop(stack[j]) # 0 /\ \E k \in j+1..Len(stack) : ~(LastDrop(stack[k]) # 0)}
           n == Len(stack)
           c == Max(cuts)
           start == IF Whole(c) THEN c + 1 ELSE c
           T == 1..Len(p.locations)
<1>1. n \in Nat /\ cuts \in SUBSET (1..n) /\ DOMAIN stack = 1..n
  OBVIOUS
<1>2. cuts # {} => c \in cuts /\ \A j \in cuts : j <= c
  BY ONLY <1>1, MaxOfIndices, Zenon
<1>3. new = IF cuts = {} THEN stack ELSE SubSeq(stack, start, n)
  BY Zenon DEF PrunedStack
<1>4. \A j \in cuts : j \in 1..n /\ LastDrop(stack[j]) # 0 /\ \E k \in j+1..n : LastDrop(stack[k]) = 0
  OBVIOUS
<1>5. \A j \in 1..n : (\E k \in j+1..n : LastDrop(stack[k]) = 0) => j \in cuts \/ LastDrop(stack[j]) = 0
  OBVIOUS
<1>6. start = c \/ start = c + 1
  OBVIOUS
<1>7. cuts # {} /\ start = c => LastDrop(stack[c]) = 0 \/ LastDrop(stack[c]) # Len(p.locations[stack[c]].lines)
  <2> HIDE DEF cuts, c, LastDrop
  <2>1. cuts # {} => c \in 1..n
    BY <1>2, <1>4
  <2>2. cuts # {} => c + 1 # c
    BY <1>1, <2>1
  <2>3. QED
    BY <2>2 DEF start, Whole
<1> HIDE DEF LastDrop, cuts, c, start, Whole
<1>8. CASE cuts = {}
  <2>1. new = stack
    BY <1>3, <1>8
  <2>2. \A j \in 1..n : (\E k \in j+1..n : LastDrop(stack[k]) = 0) => LastDrop(stack[j]) = 0
    BY <1>5, <1>8
  <2>3. IsSuffix(SubSeq(stack, 1, n), stack) /\ SubSeq(stack, 1, n) = stack
    BY <1>1, EndIsSuffix
  <2>4. QED
    BY <2>1, <2>2, <2>3 DEF LastDrop, StackCut
<1>9. CASE cuts # {}
  <2>1. c \in 1..n /\ LastDrop(stack[c]) # 0 /\ \E k \in c+1..n : LastDrop(stack[k]) = 0
    BY <1>2, <1>4, <1>9
  <2>2. start \in 1..n /\ c < n
    BY <1>1, <1>6, <2>1
  <2> DEFINE m == n - start + 1
  <2>3. m \in 1..n /\ start \in 1..n+1
    BY <1>1, <2>2
  <2> HIDE DEF T
  <2>4. /\ new \in Seq(T) /\ Len(new) = m
        /\ \A i \in 1..m : new[i] = stack[start+i-1]
        /\ IsSuffix(new, stack)
    <3>1. stack \in Seq(T) /\ new = SubSeq(stack, start, n)
      BY <1>3, <1>9 DEF T
    <3> HIDE DEF start
    <3>2. QED
      BY <2>3, <3>1, EndElements, EndIsSuffix
  <2>5. ASSUME NEW j \in 1..m, NEW k \in j+1..m, LastDrop(new[k]) = 0
        PROVE  LastDrop(new[j]) = 0 \/ LastDrop(new[j]) # Len(p.locations[new[j]].lines)
    <3> DEFINE i == start + j - 1
    <3>1. k \in 1..m /\ start + k - 1 \in i+1..n /\ i \in 1..n /\ i >= c
      BY <1>1, <1>6, <2>1, <2>2
    <3>2. new[k] = stack[start + k - 1] /\ new[j] = stack[i]
      BY <2>4, <3>1
    <3>3. i \in cuts \/ LastDrop(stack[i]) = 0
      BY <1>5, <2>5, <3>1, <3>2
    <3>4. CASE i = c
      <4>1. start = c
        BY <1>6, <2>1, <3>4
      <4>2. QED
        BY <1>7, <1>9, <3>2, <3>4, <4>1
    <3>5. CASE i # c
      <4>1. i \notin cuts
        BY <1>1, <1>2, <1>9, <2>1, <3>1, <3>5
      <4>2. QED
        BY <3>2, <3>3, <4>1
    <3>6. QED
      BY <3>4, <3>5
  <2>6. new # <<>>
    BY <2>3, <2>4
  <2>7. ~(\A j \in 1..n : LastDrop(stack[j]) = 0)
    BY <2>1
  <2> HIDE DEF m
  <2>8. QED
    BY <2>4, <2>5, <2>6, <2>7 DEF LastDrop, T, StackCut
<1>10. QED
  BY <1>8, <1>9

(* What a location drops, in any profile with the same functions. *)
LEMMA DropsAlike ==
    ASSUME NEW p, NEW q, q.functions = p.functions, NEW ln, NEW drop, NEW keep
    PROVE  Drops(q, ln, drop, keep) = Drops(p, ln, drop, keep)
BY DEF Drops, FrameName

(* What PruneCuts says of one step, of a profile and what Prune makes of it. *)
CutsOnly(p, q, drop, keep) ==
    LET Dropped(r, l) == \E ln \in ToSet(r.locations[l].lines) : Drops(r, ln, drop, keep)
    IN \A i \in DOMAIN p.samples :
        LET old == p.samples[i].locations
            new == q.samples[i].locations
        IN /\ IsSuffix(new, old)
           /\ old # <<>> => new # <<>>
           /\ \A j \in DOMAIN new :
                (\E k \in j+1..Len(new) : ~Dropped(p, new[k])) => ~Dropped(q, new[j])
           /\ (\A j \in DOMAIN old : ~Dropped(p, old[j])) => new = old
LEMMA PruneOnlyCuts ==
    ASSUME NEW p, Fits(p), NEW drop, NEW keep
    PROVE  CutsOnly(p, Prune(p, drop, keep), drop, keep)
<1> DEFINE q == Prune(p, drop, keep)
           locations == [i \in DOMAIN p.locations |-> PrunedLocation(p, p.locations[i], drop, keep)]
           newSamples == [i \in DOMAIN p.samples |-> PrunedSample(p, p.samples[i], drop, keep)]
           Dropped(r, l) == \E ln \in ToSet(r.locations[l].lines) : Drops(r, ln, drop, keep)
           LastDrop(l) == OutermostDropped(p, p.locations[l], drop, keep)
           T == 1..Len(p.locations)
<1>1. TypesFit(p) /\ TablesFit(p) /\ SamplesFit(p)
  BY DEF Fits
<1>2. q = [p EXCEPT !.locations = locations, !.samples = newSamples]
  BY <1>1 DEF Prune, TypesFit
<1>3. DOMAIN p.locations = T /\ DOMAIN p.samples = 1..Len(p.samples)
  BY <1>1 DEF TablesFit, SamplesFit
<1>4. /\ \A i \in DOMAIN p.locations : locations[i] = PrunedLocation(p, p.locations[i], drop, keep)
      /\ \A i \in DOMAIN p.samples : newSamples[i] = PrunedSample(p, p.samples[i], drop, keep)
  OBVIOUS
<1> HIDE DEF q, locations, newSamples
<1>5. q.functions = p.functions /\ q.locations = locations /\ q.samples = newSamples
  BY <1>1, <1>2 DEF TypesFit
<1>6. ASSUME NEW l \in T
      PROVE  /\ Dropped(p, l) <=> LastDrop(l) # 0
             /\ (LastDrop(l) = 0 \/ LastDrop(l) # Len(p.locations[l].lines)) => ~Dropped(q, l)
  <2> DEFINE old == p.locations[l]
  <2>1. old \in Locations /\ old.lines \in Seq(Lines)
    BY <1>1, LinesOf
  <2>2. q.locations[l] = [old EXCEPT !.lines = PrunedLines(p, old, drop, keep)]
    BY <1>3, <1>4, <1>5 DEF PrunedLocation
  <2>3. q.locations[l].lines = PrunedLines(p, old, drop, keep)
    BY <2>1, <2>2 DEF Locations
  <2>4. OutermostDropped(p, old, drop, keep) # 0 <=> DropsIn(p, old, drop, keep)
    BY <2>1, OutermostIsLast
  <2>5. LastDrop(l) = 0 \/ LastDrop(l) # Len(old.lines) =>
            \A ln \in ToSet(q.locations[l].lines) : ~Drops(p, ln, drop, keep)
    BY <2>1, <2>3, PrunedIsClear
  <2>6. \A ln : Drops(q, ln, drop, keep) = Drops(p, ln, drop, keep)
    BY <1>5, DropsAlike
  <2>7. QED
    BY <2>4, <2>5, <2>6 DEF DropsIn
<1> SUFFICES ASSUME NEW i \in DOMAIN p.samples
             PROVE  LET old == p.samples[i].locations
                        new == q.samples[i].locations
                    IN /\ IsSuffix(new, old)
                       /\ old # <<>> => new # <<>>
                       /\ \A j \in DOMAIN new :
                            (\E k \in j+1..Len(new) : ~Dropped(p, new[k])) => ~Dropped(q, new[j])
                       /\ (\A j \in DOMAIN old : ~Dropped(p, old[j])) => new = old
  BY DEF CutsOnly, q
<1> DEFINE old == p.samples[i].locations
           new == q.samples[i].locations
<1>7. old \in Seq(T) /\ {"locations", "values", "labels", "numLabels"} \subseteq DOMAIN p.samples[i]
  BY <1>3, StacksOf
<1>8. new = PrunedStack(p, old, drop, keep)
  <2>1. q.samples[i] = PrunedSample(p, p.samples[i], drop, keep)
    BY <1>4, <1>5
  <2>2. QED
    BY <1>7, <2>1 DEF PrunedSample
<1> HIDE DEF old, new, T
<1>9. /\ IsSuffix(new, old) /\ new \in Seq(T)
      /\ old # <<>> => new # <<>>
      /\ \A j \in 1..Len(new) : (\E k \in j+1..Len(new) : LastDrop(new[k]) = 0) =>
            LastDrop(new[j]) = 0 \/ LastDrop(new[j]) # Len(p.locations[new[j]].lines)
      /\ (\A j \in 1..Len(old) : LastDrop(old[j]) = 0) => new = old
  <2>1. StackCut(p, new, old, drop, keep)
    BY <1>1, <1>7, <1>8, StackIsCut DEF T
  <2>2. QED
    BY <2>1 DEF StackCut, T
<1>10. \A j \in DOMAIN new : new[j] \in T
  BY <1>9
<1>11. \A j \in DOMAIN old : old[j] \in T
  BY <1>7
<1>12. DOMAIN new = 1..Len(new) /\ DOMAIN old = 1..Len(old) /\ Len(new) \in Nat
  BY <1>7, <1>9
<1> HIDE DEF Dropped, LastDrop
<1>13. ASSUME NEW j \in DOMAIN new, NEW k \in j+1..Len(new), ~Dropped(p, new[k])
       PROVE  ~Dropped(q, new[j])
  <2>1. k \in DOMAIN new
    BY <1>12
  <2>2. LastDrop(new[k]) = 0
    BY <1>6, <1>10, <1>13, <2>1
  <2>3. LastDrop(new[j]) = 0 \/ LastDrop(new[j]) # Len(p.locations[new[j]].lines)
    BY <1>9, <1>12, <2>2
  <2>4. QED
    BY <1>6, <1>10, <2>3
<1>14. (\A j \in DOMAIN old : ~Dropped(p, old[j])) => new = old
  BY <1>6, <1>9, <1>11, <1>12
<1>15. QED
  BY <1>9, <1>13, <1>14 DEF old, new

(* Prune drops what matches from its outermost frame on, but nothing above the *)
(* first location without a match, and never the root.                         *)
THEOREM PruneOnlyBeneath == OperationsSpec => PruneCuts
<1>1. ASSUME OperationsInv, [OperationsNext]_operationVars
      PROVE  [last'[1] = "prune" => CutsOnly(profile, profile', last'[2], last'[3])]_operationVars
  <2> SUFFICES ASSUME OperationsNext, last'[1] = "prune"
               PROVE  CutsOnly(profile, profile', last'[2], last'[3])
    BY <1>1
  <2>1. ~(\E w \in Sources : ParseProfile(w))
    BY DEF ParseProfile, Read
  <2>2. Ready /\ Operation
    BY <2>1 DEF OperationsNext
  <2>3. PICK drop, keep : PruneProfile(drop, keep)
    BY <2>2, OperationNamed
  <2>4. Fits(profile)
    BY <1>1, <2>2, OpenFits DEF Ready
  <2>5. profile' = Prune(profile, drop, keep) /\ last' = <<"prune", drop, keep>>
    BY <2>3 DEF PruneProfile, Becomes
  <2>6. last'[2] = drop /\ last'[3] = keep
    BY <2>5
  <2>7. CutsOnly(profile, Prune(profile, drop, keep), drop, keep)
    BY <2>4, PruneOnlyCuts
  <2>8. QED
    BY <2>5, <2>6, <2>7
<1>2. QED
  BY <1>1, OperationsInvariant, PTL DEF OperationsSpec, PruneCuts, CutsOnly

-------------------------------------------------------------------------------
(* What holds of 0, and of the next number when it does of one, holds up to n. *)
LEMMA CountingUp ==
    ASSUME NEW n \in Nat, NEW S, 0 \in S, \A m \in 0..n-1 : m \in S => m + 1 \in S
    PROVE  \A m \in 0..n : m \in S
<1> DEFINE Bad == {m \in 0..n : m \notin S}
<1>1. ASSUME Bad # {} PROVE FALSE
  <2>1. Bad \in SUBSET Nat
    OBVIOUS
  <2>2. PICK m \in Bad : \A i \in Bad : m <= i
    BY <1>1, <2>1, AmongFold!LeastNat
  <2>3. m \in 1..n /\ m - 1 \in 0..n-1 /\ ~(m <= m - 1) /\ (m - 1) + 1 = m
    BY <2>2
  <2>4. m - 1 \in S
    BY <2>2, <2>3
  <2>5. QED
    BY <2>2, <2>3, <2>4
<1>2. QED
  BY <1>1

(* The first place of a sequence with some property, and 0 if there is none. *)
LEMMA FirstPlaceIs ==
    ASSUME NEW T, NEW seq \in Seq(T), NEW I, I \subseteq 1..Len(seq),
           NEW k, k = IF I # {} THEN Min(I) ELSE 0
    PROVE  (k = 0 <=> I = {}) /\ (k # 0 => k \in I) /\ k \in 0..Len(seq)
<1>1. Len(seq) \in Nat /\ I \in SUBSET (1..Len(seq))
  OBVIOUS
<1>2. I # {} => Min(I) \in I
  BY ONLY <1>1, MinOfIndices
<1>3. \A i \in I : i # 0 /\ i \in 0..Len(seq)
  BY <1>1
<1>4. CASE I = {}
  BY <1>1, <1>4
<1>5. CASE I # {}
  <2>1. k = Min(I) /\ k \in I
    BY <1>2, <1>5, Zenon
  <2>2. QED
    BY <1>3, <1>5, <2>1
<1>6. QED
  BY <1>4, <1>5

-------------------------------------------------------------------------------
(* What a memory map says of its regions, and the locations a parser makes. *)
Region(m) ==
    /\ {"id", "start", "limit", "offset"} \subseteq DOMAIN m
    /\ m.start \in Addressable /\ m.limit \in 0..MaxAddress - 1 /\ m.offset \in Int
    /\ m.offset # 0 => m.start <= m.limit
Found(l) ==
    {"id", "mapping", "address", "lines"} \subseteq DOMAIN l /\ l.address \in Addressable
Unplaced(l) == Found(l) /\ l.mapping = Nil

(* What remapMappingIDs has done when it has looked at the first i locations:   *)
(* all mappings are regions but the one made up, which comes last, and each of   *)
(* these locations is in its mapping, or in the one made up and in no other.    *)
RegionsBut(acc) ==
    /\ acc.p.mappings \in Seq(ToSet(acc.p.mappings))
    /\ \A m \in 1..Len(acc.p.mappings) : m # acc.fake => Region(acc.p.mappings[m])
    /\ acc.fake # Nil => acc.fake = Len(acc.p.mappings) /\ acc.p.mappings[acc.fake] = FakeMapping
       /\ acc.fake \in 1..Len(acc.p.mappings)
IsPlaced(acc, l) ==
    /\ l.mapping \in 1..Len(acc.p.mappings)
    /\ IF l.mapping = acc.fake
       THEN \A m \in 1..Len(acc.p.mappings) : InMapping(acc.p.mappings[m], l.address) => m = acc.fake
       ELSE InMapping(acc.p.mappings[l.mapping], l.address)
SomeMapped(n, i, acc) ==
    /\ {"p", "fake"} \subseteq DOMAIN acc /\ {"mappings", "locations"} \subseteq DOMAIN acc.p
    /\ DOMAIN acc.p.locations = 1..n
    /\ \A j \in 1..n : Found(acc.p.locations[j])
    /\ \A j \in 1..n : j > i => acc.p.locations[j].mapping = Nil
    /\ \A j \in 1..i : acc.p.locations[j].address # 0 => IsPlaced(acc, acc.p.locations[j])
    /\ RegionsBut(acc)
MapOne(c, acc, i) == MapAddress(acc, i)
PlacesFold == INSTANCE FoldLaws WITH Op <- MapOne, Holds <- SomeMapped

(* A sequence is one of its elements; what has one more, of those and that one. *)
LEMMA SequenceElements ==
    ASSUME NEW T, NEW seq \in Seq(T)
    PROVE  /\ seq \in Seq(ToSet(seq)) /\ ToSet(seq) \subseteq T
           /\ \A i \in 1..Len(seq) : seq[i] \in ToSet(seq)
           /\ \A x \in ToSet(seq) : \E i \in 1..Len(seq) : x = seq[i]
<1>1. DOMAIN seq = 1..Len(seq) /\ Len(seq) \in Nat
  OBVIOUS
<1>2. \A i \in 1..Len(seq) : seq[i] \in ToSet(seq)
  BY <1>1 DEF ToSet
<1>3. seq = [i \in 1..Len(seq) |-> seq[i]]
  BY <1>1
<1> DEFINE n == Len(seq)
<1>4. [i \in 1..n |-> seq[i]] \in Seq(ToSet(seq))
  <2> HIDE DEF n
  <2>1. n \in Nat /\ \A i \in 1..n : seq[i] \in ToSet(seq)
    BY <1>1, <1>2 DEF n
  <2>2. QED
    BY <2>1
<1>5. \A x \in ToSet(seq) : \E i \in 1..Len(seq) : x = seq[i]
  BY <1>1 DEF ToSet
<1>6. ToSet(seq) \subseteq T
  BY <1>1 DEF ToSet
<1>7. QED
  BY <1>2, <1>3, <1>4, <1>5, <1>6

(* The difference of two addresses is an address. *)
LEMMA MinusInRange ==
    ASSUME NEW a \in Int, NEW b \in Int
    PROVE  Minus(a, b) \in Addressable /\ (a \in Addressable => Minus(a, 0) = a)
<1>1. MaxAddress \in Nat
  BY LegacyAssumption
<1>2. \A x \in Int : x % (MaxAddress + 1) \in 0..MaxAddress
  BY <1>1
<1>3. \A x \in 0..MaxAddress : x % (MaxAddress + 1) = x
  BY <1>1
<1>4. QED
  BY <1>1, <1>2, <1>3 DEF Minus, Addressable

(* A location that gets a mapping: the others stay what they are. *)
LEMMA MappingGiven ==
    ASSUME NEW n \in Nat, NEW i \in 1..n, NEW acc, NEW new, NEW at,
           SomeMapped(n, i - 1, acc),
           {"p", "fake"} \subseteq DOMAIN new, {"mappings", "locations"} \subseteq DOMAIN new.p,
           RegionsBut(new),
           new.p.locations = [acc.p.locations EXCEPT ![i].mapping = at],
           \A j \in 1..i-1 : IsPlaced(acc, acc.p.locations[j]) => IsPlaced(new, acc.p.locations[j]),
           \A l : l.mapping = at /\ l.address = acc.p.locations[i].address => IsPlaced(new, l)
    PROVE  SomeMapped(n, i, new)
<1> DEFINE old == acc.p.locations
           l == [old[i] EXCEPT !.mapping = at]
           loc == new.p.locations
<1>1. /\ DOMAIN old = 1..n /\ \A j \in 1..n : Found(old[j])
      /\ \A j \in 1..n : j > i - 1 => old[j].mapping = Nil
      /\ \A j \in 1..i-1 : old[j].address # 0 => IsPlaced(acc, old[j])
  BY DEF SomeMapped
<1>2. /\ loc = [old EXCEPT ![i] = l] /\ DOMAIN loc = 1..n
      /\ loc[i] = l /\ \A j \in 1..n : j # i => loc[j] = old[j]
  BY <1>1
<1>3. Found(old[i])
  BY <1>1
<1>4. Found(l) /\ l.mapping = at /\ l.address = old[i].address
  BY <1>3 DEF Found
<1> HIDE DEF l, loc, old
<1>5. \A j \in 1..n : Found(loc[j])
  BY <1>1, <1>2, <1>4
<1>6. \A j \in 1..n : j > i => loc[j].mapping = Nil
  BY <1>1, <1>2
<1>7. IsPlaced(new, loc[i])
  BY <1>2, <1>4 DEF old
<1>8. \A j \in 1..i-1 : loc[j] = old[j]
  BY <1>2
<1>9. \A j \in 1..i-1 : loc[j].address # 0 => IsPlaced(new, loc[j])
  BY <1>1, <1>8, Zenon DEF old
<1>10. \A j \in 1..i : loc[j].address # 0 => IsPlaced(new, loc[j])
  <2>1. \A j \in 1..i : j = i \/ j \in 1..i-1
    OBVIOUS
  <2>2. QED
    BY <1>7, <1>9, <2>1, Zenon
<1>11. QED
  BY <1>2, <1>5, <1>6, <1>10 DEF SomeMapped, loc

(* A region that begins before what the map says from now on. *)
LEMMA RegionBeginsBefore ==
    ASSUME NEW m, Region(m) \/ m = FakeMapping, NEW a \in Addressable, BeginsBefore(m, a),
           NEW new, new = FromFirstPart(m)
    PROVE  /\ Region(m) /\ Region(new) /\ InMapping(new, a)
           /\ \A b \in Addressable : InMapping(m, b) => InMapping(new, b)
<1>1. m # FakeMapping
  <2>1. FakeMapping.offset = 0
    BY DEF FakeMapping
  <2>2. QED
    BY <2>1 DEF BeginsBefore
<1>2. Region(m)
  BY <1>1
<1>3. /\ {"id", "start", "limit", "offset"} \subseteq DOMAIN m
      /\ m.start \in 0..MaxAddress /\ m.limit \in 0..MaxAddress - 1 /\ m.offset \in Int
      /\ m.offset # 0 => m.start <= m.limit
  BY <1>2 DEF Region, Addressable
<1>4. m.offset # 0 /\ Minus(m.start, m.offset) <= a /\ a < m.start
  BY DEF BeginsBefore
<1>5. MaxAddress \in Nat /\ m.start \in Int
  BY <1>3, LegacyAssumption
<1>6. Minus(m.start, m.offset) \in 0..MaxAddress
  BY <1>3, <1>5, MinusInRange DEF Addressable
<1> DEFINE start == Minus(m.start, m.offset)
           q == [m EXCEPT !.start = start, !.offset = 0]
<1>7. q = new
  BY DEF FromFirstPart
<1> HIDE DEF start
<1>8. /\ DOMAIN q = DOMAIN m /\ q.start = start /\ q.limit = m.limit /\ q.offset = 0
  BY <1>3
<1>9. start \in 0..MaxAddress /\ start <= a /\ a < m.start
  BY <1>4, <1>6 DEF start
<1> HIDE DEF q
<1>10. Region(q)
  BY <1>3, <1>8, <1>9 DEF Region, Addressable
<1>11. \A b \in Addressable : m.start <= b /\ b < m.limit => start <= b /\ b < m.limit
  BY <1>3, <1>5, <1>9 DEF Addressable
<1>12. start <= a /\ a < m.limit
  BY <1>3, <1>4, <1>5, <1>9 DEF Addressable
<1>13. QED
  BY <1>2, <1>7, <1>8, <1>10, <1>11, <1>12 DEF InMapping

(* One location gets its mapping. *)
LEMMA MapAddressPlaces ==
    ASSUME NEW n \in Nat, NEW i \in 1..n, NEW acc, SomeMapped(n, i - 1, acc)
    PROVE  SomeMapped(n, i, MapAddress(acc, i))
<1> DEFINE a == acc.p.locations[i].address
           maps == acc.p.mappings
           Holding == {k \in 1..Len(maps) : InMapping(maps[k], a)}
           Before == {k \in 1..Len(maps) : BeginsBefore(maps[k], a)}
           within == SelectInSeq(maps, LAMBDA m : InMapping(m, a))
           before == SelectInSeq(maps, LAMBDA m : BeginsBefore(m, a))
           T == ToSet(maps)
           locs == acc.p.locations
           p == acc.p
<1>1. /\ {"p", "fake"} \subseteq DOMAIN acc /\ {"mappings", "locations"} \subseteq DOMAIN p
      /\ DOMAIN locs = 1..n
      /\ \A j \in 1..n : Found(locs[j])
      /\ \A j \in 1..n : j > i - 1 => locs[j].mapping = Nil
      /\ RegionsBut(acc)
  BY DEF SomeMapped
<1>2. /\ maps \in Seq(T)
      /\ \A m \in 1..Len(maps) : m # acc.fake => Region(maps[m])
      /\ acc.fake # Nil => /\ acc.fake = Len(maps) /\ maps[acc.fake] = FakeMapping
                            /\ acc.fake \in 1..Len(maps)
  BY <1>1 DEF RegionsBut
<1>3. a \in Addressable /\ locs[i].mapping = Nil /\ Found(locs[i]) /\ i > i - 1
  BY <1>1 DEF Found
<1>4. within = IF Holding # {} THEN Min(Holding) ELSE 0
  BY DEF SelectInSeq
<1>5. before = IF Before # {} THEN Min(Before) ELSE 0
  BY DEF SelectInSeq
<1>6. (within = 0 <=> Holding = {}) /\ (within # 0 => within \in Holding) /\ within \in 0..Len(maps)
  <2>1. Holding \subseteq 1..Len(maps)
    OBVIOUS
  <2> HIDE DEF within, Holding, maps, T
  <2>2. QED
    BY <1>2, <1>4, <2>1, FirstPlaceIs
<1>7. (before = 0 <=> Before = {}) /\ (before # 0 => before \in Before) /\ before \in 0..Len(maps)
  <2>1. Before \subseteq 1..Len(maps)
    OBVIOUS
  <2> HIDE DEF before, Before, maps, T
  <2>2. QED
    BY <1>2, <1>5, <2>1, FirstPlaceIs
<1>8. within # 0 => \A k \in Holding : within <= k
  <2>1. Holding \in SUBSET (1..Len(maps)) /\ Len(maps) \in Nat
    BY <1>2
  <2>2. Holding # {} => \A k \in Holding : Min(Holding) <= k
    BY ONLY <2>1, MinOfIndices
  <2> HIDE DEF within, Holding
  <2>3. QED
    BY <1>4, <1>6, <2>2, Zenon
<1>9. /\ within # 0 => within \in 1..Len(maps) /\ InMapping(maps[within], a)
      /\ within # 0 => \A k \in 1..Len(maps) : InMapping(maps[k], a) => within <= k
      /\ within = 0 => \A k \in 1..Len(maps) : ~InMapping(maps[k], a)
      /\ before # 0 => before \in 1..Len(maps) /\ BeginsBefore(maps[before], a)
  BY <1>6, <1>7, <1>8, Zenon
<1>10. MapAddress(acc, i) =
        IF a = 0 \/ locs[i].mapping # Nil THEN acc
        ELSE IF within # 0 THEN [acc EXCEPT !.p = [@ EXCEPT !.locations[i].mapping = within]]
        ELSE IF before # 0
        THEN [acc EXCEPT !.p = [WithFirstPart(@, before) EXCEPT !.locations[i].mapping = before]]
        ELSE IF acc.fake # Nil THEN [acc EXCEPT !.p = [@ EXCEPT !.locations[i].mapping = acc.fake]]
        ELSE [p    |-> [[p EXCEPT !.mappings = Append(@, FakeMapping)] EXCEPT
                            !.locations[i].mapping = Len(maps) + 1],
              fake |-> Len(maps) + 1]
  BY DEF MapAddress
<1> HIDE DEF within, before, Holding, Before
<1>11. a # 0 => locs[i].address = a /\ ~(a = 0 \/ locs[i].mapping # Nil)
  BY <1>3
<1> HIDE DEF within, before, Holding, Before
<1>12. /\ \A j \in 1..n : j > i => locs[j].mapping = Nil
       /\ \A j \in 1..i-1 : locs[j].address # 0 => IsPlaced(acc, locs[j])
       /\ \A j \in 1..i : j = i \/ j \in 1..i-1
  BY DEF SomeMapped
<1>13. CASE a = 0
  <2>1. MapAddress(acc, i) = acc
    BY <1>10, <1>13
  <2>2. \A j \in 1..i : locs[j].address # 0 => IsPlaced(acc, locs[j])
    BY <1>12, <1>13, Zenon DEF a
  <2>3. QED
    BY <1>1, <1>12, <2>1, <2>2 DEF SomeMapped
<1>14. ASSUME NEW at, a # 0,
              at \in 1..Len(maps),
              IF at = acc.fake THEN \A k \in 1..Len(maps) : InMapping(maps[k], a) => k = acc.fake
              ELSE InMapping(maps[at], a),
              MapAddress(acc, i) = [acc EXCEPT !.p = [@ EXCEPT !.locations[i].mapping = at]]
       PROVE  SomeMapped(n, i, MapAddress(acc, i))
  <2> DEFINE q == [p EXCEPT !.locations = [locs EXCEPT ![i].mapping = at]]
             new == [acc EXCEPT !.p = q]
  <2>1. MapAddress(acc, i) = new
    BY <1>14
  <2>2. /\ DOMAIN q = DOMAIN p /\ q.locations = [locs EXCEPT ![i].mapping = at] /\ q.mappings = maps
    BY <1>1
  <2> HIDE DEF q
  <2>3. DOMAIN new = DOMAIN acc /\ new.p = q /\ new.fake = acc.fake
    BY <1>1
  <2> HIDE DEF new
  <2>4. RegionsBut(new)
    BY <1>1, <2>2, <2>3 DEF RegionsBut
  <2>5. \A l : IsPlaced(acc, l) => IsPlaced(new, l)
    BY <2>2, <2>3, Zenon DEF IsPlaced
  <2>6. \A l : l.mapping = at /\ l.address = a => IsPlaced(new, l)
    BY <1>14, <2>2, <2>3, Zenon DEF IsPlaced
  <2> HIDE DEF maps, locs
  <2>7. new.p.locations = [acc.p.locations EXCEPT ![i].mapping = at]
    BY <2>2, <2>3 DEF locs
  <2>8. {"p", "fake"} \subseteq DOMAIN new /\ {"mappings", "locations"} \subseteq DOMAIN new.p
    BY <1>1, <2>2, <2>3
  <2>9. SomeMapped(n, i, new)
    BY <2>4, <2>5, <2>6, <2>7, <2>8, MappingGiven DEF a, locs
  <2>10. QED
    BY <2>1, <2>9
<1>15. CASE a # 0 /\ within # 0
  <2>1. MapAddress(acc, i) = [acc EXCEPT !.p = [@ EXCEPT !.locations[i].mapping = within]]
    BY <1>10, <1>11, <1>15
  <2>2. within = acc.fake => \A k \in 1..Len(maps) : InMapping(maps[k], a) => k = acc.fake
    <3>1. \A k \in 1..Len(maps) : InMapping(maps[k], a) => within <= k
      BY <1>9, <1>15
    <3>2. within = acc.fake => within = Len(maps)
      BY <1>2, <1>15 DEF Nil
    <3>3. Len(maps) \in Nat
      BY <1>2
    <3> HIDE DEF maps, a
    <3>4. QED
      BY <3>1, <3>2, <3>3
  <2>3. within \in 1..Len(maps) /\ InMapping(maps[within], a)
    BY <1>9, <1>15
  <2> HIDE DEF maps, a, p, locs
  <2>4. QED
    BY <1>14, <1>15, <2>1, <2>2, <2>3, Zenon
<1>16. CASE a # 0 /\ within = 0 /\ before # 0
  <2> DEFINE m == maps[before]
             r == [m EXCEPT !.start = Minus(m.start, m.offset), !.offset = 0]
             moved == [maps EXCEPT ![before] = r]
             cut == [p EXCEPT !.mappings = moved]
             q == [cut EXCEPT !.locations = [locs EXCEPT ![i].mapping = before]]
             new == [acc EXCEPT !.p = q]
  <2>1. before \in 1..Len(maps) /\ BeginsBefore(m, a) /\ Len(maps) \in Nat
    BY <1>2, <1>9, <1>16
  <2>2. Region(m) \/ m = FakeMapping
    BY <1>2, <2>1 DEF Nil
  <2> HIDE DEF m
  <2>3. r = FromFirstPart(m)
    BY DEF FromFirstPart
  <2> HIDE DEF r, a
  <2>4. /\ Region(m) /\ Region(r) /\ InMapping(r, a)
        /\ \A b \in Addressable : InMapping(m, b) => InMapping(r, b)
    BY <1>3, <2>1, <2>2, <2>3, RegionBeginsBefore
  <2>5. acc.fake = Nil
    <3>1. SUFFICES ASSUME acc.fake # Nil PROVE FALSE
      OBVIOUS
    <3>2. ~InMapping(FakeMapping, a)
      BY <1>2, <1>9, <1>16, <3>1
    <3>3. a \in 0..MaxAddress /\ a < m.start /\ m.start \in 0..MaxAddress /\ MaxAddress \in Nat
      BY <1>3, <2>1, <2>4, LegacyAssumption DEF Region, Addressable, BeginsBefore
    <3>4. FakeMapping.start = 0 /\ FakeMapping.limit = MaxAddress
      BY DEF FakeMapping
    <3>5. QED
      BY <3>2, <3>3, <3>4 DEF InMapping
  <2>6. MapAddress(acc, i) = new
    <3>1. MapAddress(acc, i) =
            [acc EXCEPT !.p = [WithFirstPart(@, before) EXCEPT !.locations[i].mapping = before]]
      BY <1>10, <1>11, <1>16
    <3>2. FromFirstPart(maps[before]) = r
      BY <2>3 DEF m
    <3>3. WithFirstPart(p, before) = cut
      <4>1. WithFirstPart(p, before)
            = [p EXCEPT !.mappings = [maps EXCEPT ![before] = FromFirstPart(maps[before])]]
        BY DEF WithFirstPart
      <4> HIDE DEF maps, p
      <4>2. QED
        BY <3>2, <4>1
    <3>4. MapAddress(acc, i) = [acc EXCEPT !.p = [cut EXCEPT !.locations[i].mapping = before]]
      BY <3>1, <3>3
    <3>5. cut.locations = locs
      BY <1>1
    <3> HIDE DEF cut
    <3>6. [cut EXCEPT !.locations[i].mapping = before] = q
      BY <3>5
    <3>7. QED
      BY <3>4, <3>6
  <2>7. /\ DOMAIN q = DOMAIN p /\ q.locations = [locs EXCEPT ![i].mapping = before] /\ q.mappings = moved
    BY <1>1
  <2> HIDE DEF q
  <2>8. DOMAIN new = DOMAIN acc /\ new.p = q /\ new.fake = Nil
    BY <1>1, <2>5
  <2> HIDE DEF new
  <2>9. /\ Len(moved) = Len(maps) /\ moved \in Seq(ToSet(moved))
        /\ moved[before] = r /\ \A k \in 1..Len(maps) : k # before => moved[k] = maps[k]
    <3>1. /\ maps \in Seq(T) /\ DOMAIN moved = 1..Len(maps)
          /\ moved[before] = r /\ \A k \in 1..Len(maps) : k # before => moved[k] = maps[k]
      BY <1>2, <2>1
    <3>2. moved \in Seq(T \cup {r}) /\ Len(moved) = Len(maps)
      <4> DEFINE U == T \cup {r}
      <4>1. maps \in Seq(U) /\ r \in U
        BY <3>1
      <4> HIDE DEF maps, U
      <4>2. [maps EXCEPT ![before] = r] \in Seq(U) /\ Len([maps EXCEPT ![before] = r]) = Len(maps)
        BY <4>1, ReplacedAt
      <4>3. QED
        BY <4>2 DEF U
    <3>3. moved \in Seq(ToSet(moved))
      <4> HIDE DEF moved
      <4>1. QED
        BY <3>2, SequenceElements
    <3>4. QED
      BY <3>1, <3>2, <3>3
  <2> HIDE DEF moved
  <2>10. RegionsBut(new)
    <3>1. \A k \in 1..Len(moved) : Region(moved[k])
      <4>1. ASSUME NEW k \in 1..Len(maps), k # before PROVE Region(maps[k])
        BY <1>2, <2>5 DEF Nil
      <4>2. QED
        BY <2>4, <2>9, <4>1, Zenon
    <3>2. QED
      BY <2>7, <2>8, <2>9, <3>1, Zenon DEF RegionsBut
  <2>11. ASSUME NEW l, Found(l), IsPlaced(acc, l) PROVE IsPlaced(new, l)
    <3>1. l.mapping \in 1..Len(maps) /\ InMapping(maps[l.mapping], l.address) /\ l.address \in Addressable
      BY <2>5, <2>11 DEF IsPlaced, Nil, Found
    <3>2. InMapping(moved[l.mapping], l.address)
      <4>1. CASE l.mapping = before
        BY <2>4, <2>9, <3>1, <4>1, Zenon DEF m
      <4>2. CASE l.mapping # before
        BY <2>9, <3>1, <4>2, Zenon
      <4>3. QED
        BY <4>1, <4>2
    <3>3. l.mapping \in 1..Len(moved) /\ l.mapping # Nil
      BY <2>9, <3>1 DEF Nil
    <3>4. QED
      BY <2>7, <2>8, <3>2, <3>3, Zenon DEF IsPlaced
  <2>12. ASSUME NEW l, l.mapping = before, l.address = a PROVE IsPlaced(new, l)
    <3>1. before \in 1..Len(moved) /\ before # Nil /\ InMapping(moved[before], a)
      BY <2>1, <2>4, <2>9 DEF Nil
    <3>2. QED
      BY <2>7, <2>8, <2>12, <3>1, Zenon DEF IsPlaced
  <2> HIDE DEF maps, locs
  <2>13. new.p.locations = [acc.p.locations EXCEPT ![i].mapping = before]
    BY <2>7, <2>8 DEF locs
  <2>14. {"p", "fake"} \subseteq DOMAIN new /\ {"mappings", "locations"} \subseteq DOMAIN new.p
    BY <1>1, <2>7, <2>8
  <2>15. /\ \A j \in 1..i-1 : IsPlaced(acc, acc.p.locations[j]) => IsPlaced(new, acc.p.locations[j])
         /\ \A l : l.mapping = before /\ l.address = acc.p.locations[i].address => IsPlaced(new, l)
    <3>1. \A j \in 1..i-1 : j \in 1..n
      OBVIOUS
    <3>2. QED
      BY <1>1, <2>11, <2>12, <3>1, Zenon DEF a, locs
  <2>16. SomeMapped(n, i, new)
    BY <2>10, <2>13, <2>14, <2>15, MappingGiven
  <2>17. QED
    BY <2>6, <2>16
<1>17. CASE a # 0 /\ within = 0 /\ before = 0 /\ acc.fake # Nil
  <2>1. MapAddress(acc, i) = [acc EXCEPT !.p = [@ EXCEPT !.locations[i].mapping = acc.fake]]
    BY <1>10, <1>11, <1>17
  <2>2. \A k \in 1..Len(maps) : ~InMapping(maps[k], a)
    BY <1>9, <1>17
  <2>3. acc.fake \in 1..Len(maps)
    BY <1>2, <1>17
  <2> HIDE DEF maps, a, p, locs
  <2>4. QED
    BY <1>14, <1>17, <2>1, <2>2, <2>3, Zenon
<1>18. CASE a # 0 /\ within = 0 /\ before = 0 /\ acc.fake = Nil
  <2> DEFINE more == Append(maps, FakeMapping)
             len == Len(maps) + 1
             longer == [p EXCEPT !.mappings = more]
             q == [longer EXCEPT !.locations = [locs EXCEPT ![i].mapping = len]]
             new == [p |-> q, fake |-> len]
  <2>1. MapAddress(acc, i) = [p |-> [[p EXCEPT !.mappings = Append(@, FakeMapping)] EXCEPT
                                        !.locations[i].mapping = Len(maps) + 1],
                              fake |-> Len(maps) + 1]
    BY <1>10, <1>11, <1>18
  <2>2. MapAddress(acc, i) = new
    <3>1. longer.locations = locs /\ [p EXCEPT !.mappings = Append(@, FakeMapping)] = longer
      BY <1>1
    <3> HIDE DEF longer, len
    <3>2. [longer EXCEPT !.locations[i].mapping = len] = q
      BY <3>1
    <3>3. QED
      BY <2>1, <3>1, <3>2 DEF len
  <2>3. /\ DOMAIN q = DOMAIN p /\ q.locations = [locs EXCEPT ![i].mapping = len] /\ q.mappings = more
    <3>1. longer.locations = locs /\ longer.mappings = more /\ DOMAIN longer = DOMAIN p
      BY <1>1
    <3> HIDE DEF longer
    <3>2. QED
      BY <1>1, <3>1
  <2> HIDE DEF q
  <2>4. DOMAIN new = {"p", "fake"} /\ new.p = q /\ new.fake = len
    OBVIOUS
  <2> HIDE DEF new
  <2>5. /\ Len(more) = len /\ len \in 1..len /\ more[len] = FakeMapping /\ more \in Seq(ToSet(more))
        /\ \A k \in 1..Len(maps) : more[k] = maps[k]
        /\ \A k \in 1..len : k = len \/ k \in 1..Len(maps)
        /\ \A k \in 1..Len(maps) : k \in 1..len /\ k # len
    <3> DEFINE U == T \cup {FakeMapping}
    <3>1. maps \in Seq(U) /\ FakeMapping \in U /\ Len(maps) \in Nat
      BY <1>2
    <3> HIDE DEF maps, U
    <3>2. more \in Seq(U) /\ Len(more) = len /\ more[len] = FakeMapping
          /\ \A k \in 1..Len(maps) : more[k] = maps[k]
      BY <3>1
    <3> HIDE DEF more
    <3>3. more \in Seq(ToSet(more))
      BY <3>2, SequenceElements
    <3>4. QED
      BY <3>1, <3>2, <3>3
  <2>6. len # Nil /\ Nil \notin 1..Len(maps)
    BY <1>2 DEF Nil
  <2>7. \A k \in 1..Len(maps) : Region(maps[k])
    BY <1>2, <1>18, <2>6, Zenon
  <2>8. \A k \in 1..Len(maps) : ~InMapping(maps[k], a)
    BY <1>9, <1>18
  <2> HIDE DEF more, len
  <2>9. RegionsBut(new)
    BY <2>3, <2>4, <2>5, <2>7, Zenon DEF RegionsBut
  <2>10. ASSUME NEW l, IsPlaced(acc, l) PROVE IsPlaced(new, l)
    <3>1. l.mapping \in 1..Len(maps) /\ InMapping(maps[l.mapping], l.address)
      BY <1>18, <2>6, <2>10, Zenon DEF IsPlaced
    <3>2. l.mapping \in 1..Len(more) /\ l.mapping # len /\ InMapping(more[l.mapping], l.address)
      BY <2>5, <3>1, Zenon
    <3>3. QED
      BY <2>3, <2>4, <3>2, Zenon DEF IsPlaced
  <2>11. ASSUME NEW l, l.mapping = len, l.address = a PROVE IsPlaced(new, l)
    <3>1. \A k \in 1..len : InMapping(more[k], a) => k = len
      BY <2>5, <2>8, Zenon
    <3>2. QED
      BY <2>3, <2>4, <2>5, <2>11, <3>1, Zenon DEF IsPlaced
  <2>12. /\ \A j \in 1..i-1 : IsPlaced(acc, acc.p.locations[j]) => IsPlaced(new, acc.p.locations[j])
         /\ \A l : l.mapping = len /\ l.address = acc.p.locations[i].address => IsPlaced(new, l)
    BY <2>10, <2>11, Zenon DEF a
  <2> HIDE DEF maps, locs
  <2>13. new.p.locations = [acc.p.locations EXCEPT ![i].mapping = len]
    BY <2>3, <2>4 DEF locs
  <2>14. {"p", "fake"} \subseteq DOMAIN new /\ {"mappings", "locations"} \subseteq DOMAIN new.p
    BY <1>1, <2>3, <2>4
  <2>15. SomeMapped(n, i, new)
    BY <2>9, <2>12, <2>13, <2>14, MappingGiven
  <2>16. QED
    BY <2>2, <2>15
<1>19. a = 0 \/ (a # 0 /\ within # 0) \/ (a # 0 /\ within = 0 /\ before # 0)
       \/ (a # 0 /\ within = 0 /\ before = 0 /\ acc.fake # Nil)
       \/ (a # 0 /\ within = 0 /\ before = 0 /\ acc.fake = Nil)
  OBVIOUS
<1>20. QED
  BY <1>13, <1>15, <1>16, <1>17, <1>18, <1>19, Zenon

(* The mappings of a memory map. *)
AreRegions(maps) ==
    maps \in Seq(ToSet(maps)) /\ \A m \in 1..Len(maps) : Region(maps[m])
ToBePlaced(p, n) ==
    /\ {"mappings", "locations"} \subseteq DOMAIN p
    /\ AreRegions(p.mappings)
    /\ DOMAIN p.locations = 1..n /\ \A i \in 1..n : Unplaced(p.locations[i])
(* AddressesMapped says this of the profile that was read. *)
InItsMapping(p, l) ==
    l.address # 0 =>
        /\ l.mapping # Nil
        /\ LET m == p.mappings[l.mapping]
           IN IF IsFake(m)
              THEN \A other \in ToSet(p.mappings) : InMapping(other, l.address) => IsFake(other)
              ELSE InMapping(m, l.address)
AllInMappings(p) ==
    {"mappings", "locations"} \subseteq DOMAIN p /\ \A l \in ToSet(p.locations) : InItsMapping(p, l)

(* The first mapping is left out, or begins where it is expected to. *)
LEMMA HeuristicsKeepRegions ==
    ASSUME NEW maps, AreRegions(maps)
    PROVE  AreRegions(FromExpectedStart(WithoutHugePage(maps)))
<1> DEFINE rest == WithoutHugePage(maps)
<1>1. maps \in Seq(ToSet(maps)) /\ \A m \in 1..Len(maps) : Region(maps[m])
  BY DEF AreRegions
<1>2. AreRegions(rest)
  <2>1. CASE Len(maps) > 1
    <3> DEFINE cut == Tail(maps)
    <3>1. /\ cut \in Seq(ToSet(maps)) /\ Len(cut) = Len(maps) - 1 /\ Len(maps) \in Nat
          /\ \A m \in 1..Len(cut) : cut[m] = maps[m + 1] /\ m + 1 \in 1..Len(maps)
      BY <1>1, <2>1
    <3> HIDE DEF cut
    <3>2. cut \in Seq(ToSet(cut))
      BY <3>1, SequenceElements
    <3>3. \A m \in 1..Len(cut) : Region(cut[m])
      BY <1>1, <3>1
    <3>4. AreRegions(cut)
      BY <3>2, <3>3 DEF AreRegions
    <3>5. QED
      BY <3>4 DEF WithoutHugePage, cut
  <2>2. CASE ~(Len(maps) > 1)
    BY <2>2 DEF WithoutHugePage
  <2>3. QED
    BY <2>1, <2>2
<1> HIDE DEF rest
<1>3. rest \in Seq(ToSet(rest)) /\ \A m \in 1..Len(rest) : Region(rest[m])
  BY <1>2 DEF AreRegions
<1>4. CASE rest # <<>>
  <2> DEFINE first == [rest[1] EXCEPT !.start = ExpectedStart, !.offset = 0]
             new == [rest EXCEPT ![1] = first]
             U == ToSet(rest) \cup {first}
  <2>1. 1 \in 1..Len(rest) /\ Region(rest[1])
    BY <1>3, <1>4
  <2>2. Region(first)
    <3>1. ExpectedStart \in Addressable
      BY LegacyAssumption DEF Addressable
    <3>2. QED
      BY <2>1, <3>1 DEF Region
  <2> HIDE DEF first
  <2>3. rest \in Seq(U) /\ first \in U
    BY <1>3
  <2>4. DOMAIN new = 1..Len(rest) /\ new[1] = first /\ \A m \in 1..Len(rest) : m # 1 => new[m] = rest[m]
    BY <1>3, <2>1
  <2>5. new \in Seq(U) /\ Len(new) = Len(rest)
    <3> HIDE DEF U
    <3>1. QED
      BY <2>3, ReplacedAt
  <2>6. FromExpectedStart(rest) \in {rest, new}
    BY DEF FromExpectedStart, first
  <2> HIDE DEF new, U
  <2>7. new \in Seq(ToSet(new))
    BY <2>5, SequenceElements
  <2>8. \A m \in 1..Len(new) : Region(new[m])
    BY <1>3, <2>2, <2>4, <2>5
  <2>9. AreRegions(new)
    BY <2>7, <2>8 DEF AreRegions
  <2>10. QED
    BY <1>2, <2>6, <2>9 DEF rest
<1>5. CASE rest = <<>>
  <2>1. FromExpectedStart(rest) = rest
    BY <1>5 DEF FromExpectedStart
  <2>2. QED
    BY <1>2, <2>1 DEF rest
<1>6. QED
  BY <1>4, <1>5

(* Numbering the mappings keeps what they are. *)
LEMMA RemapMappingIDsPlaces ==
    ASSUME NEW p, NEW n \in Nat, ToBePlaced(p, n)
    PROVE  AllInMappings(RemapMappingIDs(p))
<1> DEFINE prepared == [p EXCEPT !.mappings = FromExpectedStart(WithoutHugePage(@))]
           first == [p |-> prepared, fake |-> Nil]
           numbers == [i \in DOMAIN p.locations |-> i]
           acc == PlacesFold!Fold(Nil, first, numbers)
           maps == acc.p.mappings
           numbered == [i \in DOMAIN maps |-> [maps[i] EXCEPT !.id = i]]
           q == [acc.p EXCEPT !.mappings = numbered]
<1>1. /\ {"mappings", "locations"} \subseteq DOMAIN p
      /\ AreRegions(p.mappings)
      /\ DOMAIN p.locations = 1..n /\ \A i \in 1..n : Unplaced(p.locations[i])
  BY DEF ToBePlaced
<1>2. RemapMappingIDs(p) = q
  BY Zenon DEF RemapMappingIDs, MapOne, PlacesFold!Fold, FoldLeft, MapThenFoldSet,
     PlacesFold!MapThenFoldSet, PlacesFold!Largest, Max
<1>3. SomeMapped(n, 0, first)
  <2>1. /\ DOMAIN prepared = DOMAIN p /\ prepared.locations = p.locations
        /\ prepared.mappings = FromExpectedStart(WithoutHugePage(p.mappings))
    BY <1>1
  <2>2. AreRegions(prepared.mappings)
    BY <1>1, <2>1, HeuristicsKeepRegions
  <2> HIDE DEF prepared
  <2>3. DOMAIN first = {"p", "fake"} /\ first.p = prepared /\ first.fake = Nil
    OBVIOUS
  <2> HIDE DEF first
  <2>4. RegionsBut(first)
    BY <2>2, <2>3, Zenon DEF RegionsBut, AreRegions
  <2>5. \A i \in 1..n : Found(prepared.locations[i]) /\ prepared.locations[i].mapping = Nil
    BY <1>1, <2>1, Zenon DEF Unplaced
  <2>6. 1..0 = {}
    OBVIOUS
  <2>7. QED
    BY <1>1, <2>1, <2>3, <2>4, <2>5, <2>6, Zenon DEF SomeMapped
<1>4. SomeMapped(n, n, acc)
  <2>1. DOMAIN numbers = 1..n /\ \A i \in 1..n : numbers[i] = i
    BY <1>1
  <2>2. \A i \in 1..n : \A old : SomeMapped(n, i - 1, old) => SomeMapped(n, i, MapOne(Nil, old, numbers[i]))
    BY <2>1, MapAddressPlaces DEF MapOne
  <2> HIDE DEF numbers, first
  <2>3. QED
    BY <1>3, <2>1, <2>2, PlacesFold!FoldInduction
<1> HIDE DEF acc
<1>5. /\ {"mappings", "locations"} \subseteq DOMAIN acc.p
      /\ DOMAIN acc.p.locations = 1..n
      /\ \A j \in 1..n : Found(acc.p.locations[j])
      /\ \A j \in 1..n : acc.p.locations[j].address # 0 => IsPlaced(acc, acc.p.locations[j])
      /\ RegionsBut(acc)
  BY <1>4, Zenon DEF SomeMapped
<1>6. /\ maps \in Seq(ToSet(maps)) /\ DOMAIN maps = 1..Len(maps) /\ Len(maps) \in Nat
      /\ \A m \in 1..Len(maps) : m # acc.fake => Region(maps[m])
      /\ acc.fake # Nil => maps[acc.fake] = FakeMapping /\ acc.fake \in 1..Len(maps)
  <2>1. maps \in Seq(ToSet(maps))
    BY <1>5, Zenon DEF RegionsBut
  <2>2. DOMAIN maps = 1..Len(maps) /\ Len(maps) \in Nat
    BY <2>1
  <2>3. QED
    BY <1>5, <2>1, <2>2, Zenon DEF RegionsBut
<1>7. q.locations = acc.p.locations /\ q.mappings = numbered /\ DOMAIN q = DOMAIN acc.p
  BY <1>5
<1> HIDE DEF q
<1>8. ASSUME NEW k \in 1..Len(maps)
      PROVE  /\ numbered[k].start = maps[k].start /\ numbered[k].limit = maps[k].limit
             /\ IsFake(numbered[k]) <=> k = acc.fake
  <2>1. CASE k = acc.fake
    <3>1. maps[k] = FakeMapping
      BY <1>6, <2>1 DEF Nil
    <3>2. numbered[k] = [FakeMapping EXCEPT !.id = k]
      BY <1>6, <3>1
    <3> HIDE DEF numbered, maps
    <3>3. QED
      BY <2>1, <3>1, <3>2 DEF IsFake, FakeMapping
  <2>2. CASE k # acc.fake
    <3>1. Region(maps[k])
      BY <1>6, <2>2
    <3>2. numbered[k] = [maps[k] EXCEPT !.id = k]
      BY <1>6
    <3> HIDE DEF numbered, maps
    <3>3. numbered[k].start = maps[k].start /\ numbered[k].limit = maps[k].limit
      BY <3>1, <3>2 DEF Region
    <3>4. maps[k].limit # MaxAddress
      BY <3>1, LegacyAssumption DEF Region
    <3>5. QED
      BY <2>2, <3>3, <3>4 DEF IsFake
  <2>3. QED
    BY <2>1, <2>2
<1>9. DOMAIN numbered = 1..Len(maps)
  BY <1>6
<1> HIDE DEF numbered, maps
<1>10. \A k \in 1..Len(maps) : \A a : InMapping(numbered[k], a) <=> InMapping(maps[k], a)
  BY <1>8, Zenon DEF InMapping
<1>11. ASSUME NEW l, IsPlaced(acc, l) PROVE InItsMapping(q, l)
  <2> DEFINE m == l.mapping
  <2>1. m \in 1..Len(maps)
    BY <1>11 DEF IsPlaced, maps
  <2>2. m # Nil
    BY <2>1 DEF Nil
  <2>3. ASSUME IsFake(numbered[m]), NEW other \in ToSet(numbered), InMapping(other, l.address)
        PROVE  IsFake(other)
    <3>1. m = acc.fake
      BY <1>8, <2>1, <2>3
    <3>2. PICK k \in 1..Len(maps) : other = numbered[k]
      BY <1>9 DEF ToSet
    <3>3. InMapping(maps[k], l.address)
      BY <1>10, <2>3, <3>2, Zenon
    <3>4. k = acc.fake
      BY <1>11, <3>1, <3>3, Zenon DEF IsPlaced, maps
    <3>5. QED
      BY <1>8, <3>2, <3>4
  <2>4. ASSUME ~IsFake(numbered[m]) PROVE InMapping(numbered[m], l.address)
    <3>1. m # acc.fake
      BY <1>8, <2>1, <2>4
    <3>2. InMapping(maps[m], l.address)
      BY <1>11, <3>1, Zenon DEF IsPlaced, maps
    <3>3. QED
      BY <1>10, <2>1, <3>2, Zenon
  <2>5. q.mappings = numbered
    BY <1>7
  <2>6. QED
    BY <2>2, <2>3, <2>4, <2>5, Zenon DEF InItsMapping
<1>12. ASSUME NEW l \in ToSet(q.locations) PROVE InItsMapping(q, l)
  <2>1. PICK j \in 1..n : l = acc.p.locations[j]
    BY <1>5, <1>7 DEF ToSet
  <2>2. l.address # 0 => IsPlaced(acc, l)
    BY <1>5, <2>1
  <2>3. QED
    BY <1>11, <2>2 DEF InItsMapping
<1>13. QED
  BY <1>2, <1>5, <1>7, <1>12 DEF AllInMappings

-------------------------------------------------------------------------------
(* Sequences in a row: what each of the first m is with all before it. *)
InARow(seqs, m, h) == h = [i \in 1..m |-> IF i = 1 THEN seqs[i] ELSE h[i - 1] \o seqs[i]]

(* There is such a row for any sequences. *)
LEMMA RowExists ==
    ASSUME NEW seqs, NEW n \in Nat
    PROVE  \E h : InARow(seqs, n, h)
<1> DEFINE S == {m \in 0..n : \E h : InARow(seqs, m, h)}
<1>1. 0 \in S
  <2>1. InARow(seqs, 0, [i \in 1..0 |-> seqs])
    <3>1. 1..0 = {}
      OBVIOUS
    <3>2. QED
      BY <3>1 DEF InARow
  <2>2. QED
    BY <2>1
<1>2. ASSUME NEW m \in 0..n-1, m \in S PROVE m + 1 \in S
  <2>1. PICK g : InARow(seqs, m, g)
    BY <1>2
  <2> DEFINE h == [i \in 1..m+1 |-> IF i = m + 1 THEN IF i = 1 THEN seqs[i] ELSE g[i - 1] \o seqs[i] ELSE g[i]]
             f == [i \in 1..m+1 |-> IF i = 1 THEN seqs[i] ELSE h[i - 1] \o seqs[i]]
  <2>2. \A i \in 1..m : g[i] = IF i = 1 THEN seqs[i] ELSE g[i - 1] \o seqs[i]
    BY <2>1 DEF InARow
  <2>3. \A i \in 1..m+1 : i = m + 1 \/ (i \in 1..m /\ i # m + 1)
    OBVIOUS
  <2>4. \A i \in 1..m+1 : i # 1 => i - 1 \in 1..m+1 /\ i - 1 # m + 1 /\ h[i - 1] = g[i - 1]
    OBVIOUS
  <2>5. \A i \in 1..m+1 : h[i] = f[i]
    <3>1. ASSUME NEW i \in 1..m+1 PROVE h[i] = IF i = 1 THEN seqs[i] ELSE h[i - 1] \o seqs[i]
      <4>1. CASE i = m + 1
        <5>1. h[i] = IF i = 1 THEN seqs[i] ELSE g[i - 1] \o seqs[i]
          BY <4>1
        <5> HIDE DEF h
        <5>2. QED
          BY <2>4, <5>1
      <4>2. CASE i # m + 1
        <5>1. h[i] = g[i] /\ i \in 1..m
          BY <2>3, <4>2
        <5> HIDE DEF h
        <5>2. QED
          BY <2>2, <2>4, <5>1
      <4>3. QED
        BY <4>1, <4>2
    <3>2. QED
      BY <3>1
  <2>6. h = f
    BY <2>5
  <2> HIDE DEF h
  <2>7. InARow(seqs, m + 1, h)
    BY <2>6 DEF InARow
  <2>8. m + 1 \in 0..n
    OBVIOUS
  <2>9. QED
    BY <2>7, <2>8
<1>3. n \in 0..n
  OBVIOUS
<1> HIDE DEF S
<1>4. \A m \in 0..n : m \in S
  BY <1>1, <1>2, CountingUp
<1>5. n \in S
  BY <1>3, <1>4
<1>6. QED
  BY <1>5 DEF S

(* Sequences of S, in a row, have elements of S, each that one of them has. *)
HasAll(seqs, m, row) ==
    \A i \in 1..m : \A j \in 1..Len(seqs[i]) : \E k \in 1..Len(row) : row[k] = seqs[i][j]

(* FlattenSeq, by induction: the row of all of them. *)
LEMMA FlattenedElements ==
    ASSUME NEW S, NEW n \in Nat, NEW seqs, seqs \in [1..n -> Seq(S)]
    PROVE  FlattenSeq(seqs) \in Seq(S) /\ HasAll(seqs, n, FlattenSeq(seqs))
<1>1. seqs \in Seq(Seq(S)) /\ Len(seqs) = n /\ \A i \in 1..n : seqs[i] \in Seq(S)
  OBVIOUS
<1>2. CASE n = 0
  <2>1. FlattenSeq(seqs) = seqs
    BY <1>1, <1>2 DEF FlattenSeq
  <2>2. seqs \in Seq(S) /\ 1..n = {}
    BY <1>1, <1>2
  <2>3. QED
    BY <2>1, <2>2 DEF HasAll
<1>3. CASE n # 0
  <2> DEFINE h == CHOOSE f : InARow(seqs, n, f)
             Done == {m \in 0..n : m = 0 \/ (h[m] \in Seq(S) /\ HasAll(seqs, m, h[m]))}
  <2>1. InARow(seqs, n, h)
    BY RowExists
  <2>2. FlattenSeq(seqs) = h[n]
    BY <1>1, <1>3, Zenon DEF FlattenSeq, InARow
  <2> HIDE DEF h
  <2>3. \A i \in 1..n : h[i] = IF i = 1 THEN seqs[i] ELSE h[i - 1] \o seqs[i]
    BY <2>1 DEF InARow
  <2>4. 0 \in Done
    OBVIOUS
  <2>5. ASSUME NEW m \in 0..n-1, m \in Done PROVE m + 1 \in Done
    <3> DEFINE row == h[m + 1]
               x == seqs[m + 1]
    <3>1. m + 1 \in 1..n /\ m + 1 \in 0..n /\ x \in Seq(S) /\ (m + 1) - 1 = m
      BY <1>1
    <3>2. \A i \in 1..m+1 : i = m + 1 \/ i \in 1..m
      OBVIOUS
    <3>3. CASE m = 0
      <4>1. row = x
        BY <2>3, <3>1, <3>3
      <4> HIDE DEF row
      <4>2. HasAll(seqs, m + 1, row)
        BY <3>2, <3>3, <4>1 DEF HasAll
      <4>3. QED
        BY <3>1, <4>1, <4>2 DEF row
    <3>4. CASE m # 0
      <4>1. row = h[m] \o x
        <5>1. m + 1 # 1
          BY <3>4
        <5>2. h[m + 1] = h[(m + 1) - 1] \o seqs[m + 1]
          BY <2>3, <3>1, <5>1, Zenon
        <5>3. QED
          BY <3>1, <5>2, Zenon
      <4>2. h[m] \in Seq(S) /\ HasAll(seqs, m, h[m])
        BY <2>5, <3>4
      <4> DEFINE old == h[m]
      <4> HIDE DEF old, x, row
      <4>3. old \in Seq(S) /\ x \in Seq(S) /\ row = old \o x
        BY <3>1, <4>1, <4>2 DEF old
      <4>4. /\ row \in Seq(S)
            /\ \A k \in 1..Len(old) : k \in 1..Len(row) /\ row[k] = old[k]
            /\ \A k \in 1..Len(x) : Len(old) + k \in 1..Len(row) /\ row[Len(old) + k] = x[k]
        BY <4>3
      <4>5. ASSUME NEW i \in 1..m+1, NEW j \in 1..Len(seqs[i])
            PROVE  \E k \in 1..Len(row) : row[k] = seqs[i][j]
        <5>1. CASE i = m + 1
          <6>1. j \in 1..Len(x) /\ seqs[i][j] = x[j]
            BY <4>5, <5>1 DEF x
          <6>2. QED
            BY <4>4, <6>1
        <5>2. CASE i \in 1..m
          <6>1. PICK k \in 1..Len(old) : old[k] = seqs[i][j]
            BY <4>2, <4>5, <5>2, Zenon DEF HasAll, old
          <6>2. QED
            BY <4>4, <6>1
        <5>3. QED
          BY <3>2, <5>1, <5>2
      <4>6. HasAll(seqs, m + 1, row)
        BY <4>5 DEF HasAll
      <4>7. QED
        BY <3>1, <4>4, <4>6 DEF row
    <3>5. QED
      BY <3>3, <3>4
  <2> HIDE DEF Done
  <2>6. \A m \in 0..n : m \in Done
    BY <2>4, <2>5, CountingUp
  <2>7. n \in Done
    BY <2>6
  <2>8. QED
    BY <1>3, <2>2, <2>7 DEF Done
<1>4. QED
  BY <1>2, <1>3

(* Each element once, by induction over the sequence. *)
SeenOnce(c, seen, x) == IF Contains(seen, x) THEN seen ELSE Append(seen, x)
SeenOf(k, i, seen) ==
    seen \in Seq(k.T) /\ \A j \in 1..i : \E m \in 1..Len(seen) : seen[m] = k.seq[j]
SeenFold == INSTANCE FoldLaws WITH Op <- SeenOnce, Holds <- SeenOf

(* WithoutRepeats leaves elements, and a place for each. *)
LEMMA EachElementOnce ==
    ASSUME NEW T, NEW seq \in Seq(T)
    PROVE  /\ WithoutRepeats(seq) \in Seq(T)
           /\ \A j \in 1..Len(seq) : Place(WithoutRepeats(seq), seq[j]) \in 1..Len(WithoutRepeats(seq))
<1> DEFINE k == [T |-> T, seq |-> seq]
           n == Len(seq)
           all == SeenFold!Fold(Nil, <<>>, seq)
<1>1. n \in Nat /\ DOMAIN seq = 1..n /\ \A j \in 1..n : seq[j] \in T
  OBVIOUS
<1>2. k.T = T /\ k.seq = seq
  OBVIOUS
<1>3. WithoutRepeats(seq) = all
  BY Zenon DEF WithoutRepeats, SeenOnce, SeenFold!Fold, FoldLeft, MapThenFoldSet,
     SeenFold!MapThenFoldSet, SeenFold!Largest, Max
<1> HIDE DEF k, n
<1>4. SeenOf(k, 0, <<>>)
  BY <1>2 DEF SeenOf
<1>5. ASSUME NEW i \in 1..n, NEW seen, SeenOf(k, i - 1, seen)
      PROVE  SeenOf(k, i, SeenOnce(Nil, seen, seq[i]))
  <2> DEFINE new == SeenOnce(Nil, seen, seq[i])
  <2>1. seen \in Seq(T) /\ \A j \in 1..i-1 : \E m \in 1..Len(seen) : seen[m] = seq[j]
    BY <1>2, <1>5 DEF SeenOf
  <2>2. \A j \in 1..i : j = i \/ j \in 1..i-1
    BY <1>1
  <2>3. seq[i] \in T
    BY <1>1
  <2>4. CASE Contains(seen, seq[i])
    <3>1. new = seen
      BY <2>4 DEF SeenOnce
    <3>2. \E m \in 1..Len(seen) : seen[m] = seq[i]
      BY <2>4 DEF Contains
    <3>3. \A j \in 1..i : \E m \in 1..Len(seen) : seen[m] = seq[j]
      BY <2>1, <2>2, <3>2, Zenon
    <3> HIDE DEF new
    <3>4. QED
      BY <1>2, <2>1, <3>1, <3>3 DEF SeenOf, new
  <2>5. CASE ~Contains(seen, seq[i])
    <3>1. new = Append(seen, seq[i])
      BY <2>5 DEF SeenOnce
    <3> HIDE DEF new
    <3>2. /\ new \in Seq(T) /\ Len(new) \in 1..Len(new) /\ new[Len(new)] = seq[i]
          /\ \A m \in 1..Len(seen) : m \in 1..Len(new) /\ new[m] = seen[m]
      BY <2>1, <2>3, <3>1
    <3>3. \A j \in 1..i : \E m \in 1..Len(new) : new[m] = seq[j]
      BY <2>1, <2>2, <3>2, Zenon
    <3>4. QED
      BY <1>2, <3>2, <3>3 DEF SeenOf, new
  <2>6. QED
    BY <2>4, <2>5
<1>6. SeenOf(k, n, all)
  BY <1>1, <1>4, <1>5, SeenFold!FoldInduction
<1> HIDE DEF all
<1>7. all \in Seq(T) /\ \A j \in 1..n : \E m \in 1..Len(all) : all[m] = seq[j]
  BY <1>2, <1>6 DEF SeenOf
<1>8. ASSUME NEW j \in 1..n PROVE Place(all, seq[j]) \in 1..Len(all)
  <2> DEFINE I == {m \in 1..Len(all) : all[m] = seq[j]}
             at == Place(all, seq[j])
  <2>1. at = IF I # {} THEN Min(I) ELSE 0
    BY DEF Place, SelectInSeq
  <2>2. I # {} /\ I \subseteq 1..Len(all)
    BY <1>7
  <2> HIDE DEF I, at
  <2>3. at \in I
    BY <1>7, <2>1, <2>2, FirstPlaceIs
  <2>4. QED
    BY <2>2, <2>3 DEF at
<1>9. QED
  BY <1>3, <1>7, <1>8 DEF n

-------------------------------------------------------------------------------
(* The mappings of a memory map as it is read, and those that are joined: each  *)
(* ends where it begins or later.                                               *)
AreRanges(maps) == AreRegions(maps) /\ \A m \in 1..Len(maps) : maps[m].start <= maps[m].limit

(* One more range, or a change of the last, leaves ranges. *)
LEMMA OneMoreRange ==
    ASSUME NEW maps, AreRanges(maps), NEW m, Region(m), m.start <= m.limit
    PROVE  AreRanges(Append(maps, m))
<1> DEFINE U == ToSet(maps) \cup {m}
           new == Append(maps, m)
<1>1. /\ maps \in Seq(ToSet(maps)) /\ \A k \in 1..Len(maps) : Region(maps[k])
      /\ \A k \in 1..Len(maps) : maps[k].start <= maps[k].limit
  BY DEF AreRanges, AreRegions
<1>2. maps \in Seq(U) /\ m \in U
  BY <1>1
<1> HIDE DEF U
<1>3. /\ new \in Seq(U) /\ \A k \in 1..Len(new) : k \in 1..Len(maps) \/ new[k] = m
      /\ \A k \in 1..Len(maps) : new[k] = maps[k]
  BY <1>2
<1> HIDE DEF new
<1>4. new \in Seq(ToSet(new))
  BY <1>3, SequenceElements
<1>5. \A k \in 1..Len(new) : Region(new[k]) /\ new[k].start <= new[k].limit
  BY <1>1, <1>3, Zenon
<1>6. QED
  BY <1>4, <1>5 DEF AreRanges, AreRegions, new

RangesJoined(c, i, acc) == {"kept", "into"} \subseteq DOMAIN acc /\ AreRanges(acc.kept)
RangesFold == INSTANCE FoldLaws WITH Op <- JoinWith, Holds <- RangesJoined

(* Adjacent ranges are one range. *)
LEMMA RangesAreJoined ==
    ASSUME NEW maps, AreRanges(maps)
    PROVE  AreRanges(Joined(maps).kept)
<1> DEFINE base == [kept |-> <<>>, into |-> <<>>]
           n == Len(maps)
<1>1. /\ n \in Nat /\ DOMAIN maps = 1..n
      /\ \A k \in 1..n : Region(maps[k]) /\ maps[k].start <= maps[k].limit
  <2>1. maps \in Seq(ToSet(maps))
    BY DEF AreRanges, AreRegions
  <2>2. n \in Nat /\ DOMAIN maps = 1..n
    BY <2>1
  <2>3. QED
    BY <2>2, Zenon DEF AreRanges, AreRegions
<1> HIDE DEF n
<1>2. Joined(maps) = RangesFold!Fold(Nil, base, maps)
  BY Zenon DEF Joined, JoinWith, RangesFold!Fold, FoldLeft, MapThenFoldSet,
     RangesFold!MapThenFoldSet, RangesFold!Largest, Max
<1>3. RangesJoined(Nil, 0, base)
  <2>1. <<>> \in Seq(ToSet(<<>>)) /\ 1..Len(<<>>) = {}
    OBVIOUS
  <2>2. AreRanges(<<>>)
    BY <2>1, Zenon DEF AreRanges, AreRegions
  <2>3. QED
    BY <2>2 DEF RangesJoined
<1>4. ASSUME NEW i \in 1..n, NEW acc, RangesJoined(Nil, i - 1, acc)
      PROVE  RangesJoined(Nil, i, JoinWith(Nil, acc, maps[i]))
  <2> DEFINE m == maps[i]
             kept == acc.kept
             k == Len(kept)
             joins == kept # <<>> /\ Adjacent(Last(kept), m)
  <2>1. Region(m) /\ m.start <= m.limit /\ AreRanges(kept)
    BY <1>1, <1>4 DEF RangesJoined
  <2>2. /\ kept \in Seq(ToSet(kept)) /\ k \in Nat
        /\ \A j \in 1..k : Region(kept[j]) /\ kept[j].start <= kept[j].limit
    <3>1. kept \in Seq(ToSet(kept))
      BY <2>1 DEF AreRanges, AreRegions
    <3>2. QED
      BY <2>1, <3>1 DEF AreRanges, AreRegions
  <2>3. CASE joins
    <3> DEFINE old == kept[k]
               x == Extended(old, m)
               new == [kept EXCEPT ![k] = x]
               U == ToSet(kept) \cup {x}
    <3>1. k \in 1..k /\ Last(kept) = old
      BY <2>2, <2>3 DEF Last
    <3>2. Region(old) /\ old.start <= old.limit
      BY <2>2, <3>1
    <3>3. old.limit = m.start
      BY <2>3, <3>1 DEF Adjacent
    <3>4. Region(x) /\ x.start <= x.limit
      <4>1. old.start <= m.limit
        BY <2>1, <3>2, <3>3, LegacyAssumption DEF Region, Addressable
      <4> HIDE DEF old, m
      <4>2. x = [old EXCEPT !.limit = m.limit, !.file = Named(m.file, old.file), !.build = Named(m.build, old.build)]
        BY DEF Extended
      <4> HIDE DEF x
      <4>3. x.start = old.start /\ x.limit = m.limit /\ x.offset = old.offset /\ DOMAIN x = DOMAIN old
        BY <3>2, <4>2 DEF Region
      <4>4. QED
        BY <2>1, <3>2, <4>1, <4>3 DEF Region
    <3>5. Join(acc, m) = [kept |-> new, into |-> Append(acc.into, k)]
      BY <2>3 DEF Join
    <3>6. kept \in Seq(U) /\ x \in U
      BY <2>2
    <3>7. DOMAIN new = 1..k /\ new[k] = x /\ \A j \in 1..k : j # k => new[j] = kept[j]
      BY <2>2, <3>1
    <3>8. new \in Seq(U) /\ Len(new) = k
      <4> HIDE DEF U, x, k, kept
      <4>1. QED
        BY <3>6, ReplacedAt DEF k
    <3> HIDE DEF new, U, x
    <3>9. new \in Seq(ToSet(new))
      BY <3>8, SequenceElements
    <3>10. \A j \in 1..Len(new) : Region(new[j]) /\ new[j].start <= new[j].limit
      BY <2>2, <3>4, <3>7, <3>8
    <3>11. AreRanges(new)
      BY <3>9, <3>10 DEF AreRanges, AreRegions
    <3>12. QED
      BY <3>5, <3>11 DEF RangesJoined, JoinWith
  <2>4. CASE ~joins
    <3> DEFINE new == Append(kept, m)
    <3>1. Join(acc, m) = [kept |-> new, into |-> Append(acc.into, k + 1)]
      BY <2>4 DEF Join
    <3>2. AreRanges(new)
      BY <2>1, OneMoreRange
    <3> HIDE DEF new
    <3>3. QED
      BY <3>1, <3>2 DEF RangesJoined, JoinWith
  <2>5. QED
    BY <2>3, <2>4
<1> HIDE DEF base
<1>5. RangesJoined(Nil, n, RangesFold!Fold(Nil, base, maps))
  BY <1>1, <1>3, <1>4, RangesFold!FoldInduction
<1>6. QED
  BY <1>2, <1>5 DEF RangesJoined

(* The lines of a memory map, by induction over them. *)
AddMapLine(c, acc, l) ==
    IF l.kind = "map" /\ l.executable
    THEN [acc EXCEPT !.mappings = Append(@,
            [id |-> 0, start |-> l.start, limit |-> l.limit, offset |-> l.offset,
             file |-> FileOf(acc.attrs, l), build |-> l.build, has |-> {}])]
    ELSE IF l.kind = "attribute" /\ l.key \notin DOMAIN acc.attrs
    THEN [acc EXCEPT !.attrs = [k \in DOMAIN @ \cup {l.key} |-> IF k = l.key THEN l.value ELSE @[k]]]
    ELSE acc
RangesRead(c, i, acc) == {"mappings", "attrs"} \subseteq DOMAIN acc /\ AreRanges(acc.mappings)
MapLinesFold == INSTANCE FoldLaws WITH Op <- AddMapLine, Holds <- RangesRead

(* ParseProcMaps: what a memory map says of its regions. *)
LEMMA RangesAreRead ==
    ASSUME NEW lines, NEW n \in Nat, DOMAIN lines = 1..n, \A i \in 1..n : LineFits(lines[i])
    PROVE  AreRanges(ParseProcMaps(lines))
<1> DEFINE base == [mappings |-> <<>>, attrs |-> NoLabels]
<1>1. ParseProcMaps(lines) = MapLinesFold!Fold(Nil, base, lines).mappings
  BY Zenon DEF ParseProcMaps, AddMapLine, MapLinesFold!Fold, FoldLeft, MapThenFoldSet,
     MapLinesFold!MapThenFoldSet, MapLinesFold!Largest, Max
<1>2. RangesRead(Nil, 0, base)
  <2>1. <<>> \in Seq(ToSet(<<>>)) /\ 1..Len(<<>>) = {}
    OBVIOUS
  <2>2. AreRanges(<<>>)
    BY <2>1, Zenon DEF AreRanges, AreRegions
  <2>3. QED
    BY <2>2 DEF RangesRead
<1>3. ASSUME NEW i \in 1..n, NEW acc, RangesRead(Nil, i - 1, acc)
      PROVE  RangesRead(Nil, i, AddMapLine(Nil, acc, lines[i]))
  <2> DEFINE l == lines[i]
             m == [id |-> 0, start |-> l.start, limit |-> l.limit, offset |-> l.offset,
                   file |-> FileOf(acc.attrs, l), build |-> l.build, has |-> {}]
             new == AddMapLine(Nil, acc, l)
  <2>1. {"mappings", "attrs"} \subseteq DOMAIN acc /\ AreRanges(acc.mappings) /\ LineFits(l)
    BY <1>3 DEF RangesRead
  <2> HIDE DEF l
  <2>2. CASE l.kind = "map" /\ l.executable
    <3>1. Region(m) /\ m.start <= m.limit
      BY <2>1, <2>2 DEF LineFits, Region
    <3>2. new = [acc EXCEPT !.mappings = Append(acc.mappings, m)]
      BY <2>2 DEF AddMapLine
    <3> HIDE DEF m, new
    <3>3. DOMAIN new = DOMAIN acc /\ new.mappings = Append(acc.mappings, m)
      BY <2>1, <3>2
    <3>4. AreRanges(Append(acc.mappings, m))
      BY <2>1, <3>1, OneMoreRange
    <3>5. QED
      BY <2>1, <3>3, <3>4 DEF RangesRead, new, l
  <2>3. CASE ~(l.kind = "map" /\ l.executable)
    <3> DEFINE attrs == [k \in DOMAIN acc.attrs \cup {l.key} |-> IF k = l.key THEN l.value ELSE acc.attrs[k]]
    <3>1. new = acc \/ new = [acc EXCEPT !.attrs = attrs]
      BY <2>3 DEF AddMapLine
    <3> HIDE DEF attrs, new
    <3>2. DOMAIN new = DOMAIN acc /\ new.mappings = acc.mappings
      BY <2>1, <3>1
    <3>3. QED
      BY <2>1, <3>2 DEF RangesRead, new, l
  <2>4. QED
    BY <2>2, <2>3
<1> HIDE DEF base
<1>4. RangesRead(Nil, n, MapLinesFold!Fold(Nil, base, lines))
  BY <1>2, <1>3, MapLinesFold!FoldInduction
<1>5. QED
  BY <1>1, <1>4 DEF RangesRead

-------------------------------------------------------------------------------
(* A profile made of stacks: each location has an address and no mapping, and   *)
(* samples refer to locations.                                                  *)
HasTables(p) == {"mappings", "functions", "locations", "samples"} \subseteq DOMAIN p
OfStacks(p, n, c) ==
    /\ HasTables(p)
    /\ DOMAIN p.locations = 1..n /\ \A i \in 1..n : Unplaced(p.locations[i])
    /\ DOMAIN p.samples = 1..c /\ \A i \in 1..c : p.samples[i].locations \in Seq(1..n)

(* massageMappings leaves the regions regions, and no location has a mapping.   *)
LEMMA MassageKeepsUnplaced ==
    ASSUME NEW p, NEW n \in Nat, NEW c \in Nat, OfStacks(p, n, c), AreRanges(p.mappings)
    PROVE  OfStacks(MassageMappings(p), n, c) /\ AreRegions(MassageMappings(p).mappings)
<1> DEFINE q == MassageMappings(p)
           joined == Joined(p.mappings)
           kept == joined.kept
           k == Len(kept)
           I == {i \in 1..k : kept[i].file \notin Libraries \cup {""}}
           main == IF I # {} THEN Min(I) ELSE 0
           NewPlace(i) == IF main = 0 THEN i ELSE IF i = main THEN 1 ELSE IF i = 1 THEN main ELSE i
           Moved(l) == [l EXCEPT !.mapping = IF l.mapping = Nil THEN Nil ELSE NewPlace(joined.into[l.mapping])]
           mappings == [i \in DOMAIN kept |-> [kept[NewPlace(i)] EXCEPT !.id = i]]
           locations == [i \in DOMAIN p.locations |-> Moved(p.locations[i])]
<1>1. /\ HasTables(p)
      /\ DOMAIN p.locations = 1..n /\ \A i \in 1..n : Unplaced(p.locations[i])
      /\ DOMAIN p.samples = 1..c /\ \A i \in 1..c : p.samples[i].locations \in Seq(1..n)
  BY DEF OfStacks
<1>2. q = [p EXCEPT !.mappings = mappings, !.locations = locations]
  BY <1>1 DEF MassageMappings, HasTables, SelectInSeq, Nil
<1>3. AreRegions(kept)
  BY RangesAreJoined DEF AreRanges
<1>4. kept \in Seq(ToSet(kept)) /\ \A i \in 1..k : Region(kept[i])
  BY <1>3 DEF AreRegions
<1>5. k \in Nat /\ DOMAIN kept = 1..k
  BY <1>4
<1>6. main \in 0..k
  <2> DEFINE T == ToSet(kept)
  <2>1. kept \in Seq(T) /\ I \subseteq 1..k
    BY <1>4
  <2> HIDE DEF kept, T, I
  <2>2. QED
    BY <2>1, FirstPlaceIs, Zenon
<1> HIDE DEF main, joined, kept
<1>7. \A i \in 1..k : NewPlace(i) \in 1..k
  BY <1>5, <1>6
<1> HIDE DEF NewPlace
<1>8. \A i \in 1..k : Region(mappings[i])
  <2>1. ASSUME NEW m, Region(m), NEW i PROVE Region([m EXCEPT !.id = i])
    BY <2>1 DEF Region
  <2>2. \A i \in 1..k : Region([kept[NewPlace(i)] EXCEPT !.id = i])
    BY <1>4, <1>7, <2>1, Zenon
  <2>3. QED
    BY <1>5, <2>2
<1>9. mappings \in Seq(ToSet(mappings)) /\ Len(mappings) = k
  <2>1. DOMAIN mappings = 1..k
    BY <1>5
  <2>2. mappings = [i \in 1..k |-> mappings[i]] /\ \A i \in 1..k : mappings[i] \in ToSet(mappings)
    BY <2>1 DEF ToSet
  <2> HIDE DEF mappings
  <2>3. QED
    BY <1>5, <2>2
<1>10. AreRegions(mappings)
  BY <1>8, <1>9 DEF AreRegions
<1>11. DOMAIN locations = 1..n /\ \A i \in 1..n : Unplaced(locations[i])
  <2>1. ASSUME NEW l, Unplaced(l) PROVE Unplaced(Moved(l))
    <3>1. Moved(l) = [l EXCEPT !.mapping = Nil]
      BY <2>1 DEF Unplaced
    <3> HIDE DEF Moved
    <3>2. QED
      BY <2>1, <3>1 DEF Unplaced, Found
  <2> HIDE DEF Moved
  <2>2. \A i \in 1..n : Unplaced(Moved(p.locations[i]))
    BY <1>1, <2>1
  <2>3. QED
    BY <1>1, <2>2
<1> HIDE DEF mappings, locations
<1>12. HasTables(q) /\ q.mappings = mappings /\ q.locations = locations /\ q.samples = p.samples
  <2> HIDE DEF q
  <2>1. QED
    BY <1>1, <1>2 DEF HasTables
<1> HIDE DEF q
<1>13. OfStacks(q, n, c) /\ AreRegions(q.mappings)
  BY <1>1, <1>10, <1>11, <1>12 DEF OfStacks
<1>14. QED
  BY <1>13 DEF q

(* What is left of the locations is what samples refer to. *)
LEMMA RemapKeepsUnplaced ==
    ASSUME NEW p, NEW n \in Nat, NEW c \in Nat, OfStacks(p, n, c), AreRegions(p.mappings)
    PROVE  \E k \in Nat : ToBePlaced(RemapFunctionIDs(RemapLocationIDs(p)), k)
<1> DEFINE stacks == [i \in DOMAIN p.samples |-> p.samples[i].locations]
           used == WithoutRepeats(FlattenSeq(stacks))
           k == Len(used)
           q == RemapLocationIDs(p)
           locations == [i \in DOMAIN used |-> [p.locations[used[i]] EXCEPT !.id = i]]
           r == RemapFunctionIDs(q)
<1>1. /\ HasTables(p)
      /\ DOMAIN p.locations = 1..n /\ \A i \in 1..n : Unplaced(p.locations[i])
      /\ DOMAIN p.samples = 1..c /\ \A i \in 1..c : p.samples[i].locations \in Seq(1..n)
  BY DEF OfStacks
<1>2. FlattenSeq(stacks) \in Seq(1..n)
  <2>1. stacks \in [1..c -> Seq(1..n)]
    BY <1>1
  <2> HIDE DEF stacks
  <2>2. QED
    BY <2>1, FlattenedElements
<1>3. used \in Seq(1..n)
  BY <1>2, EachElementOnce
<1>4. q.mappings = p.mappings /\ q.locations = locations /\ DOMAIN q = DOMAIN p
  BY <1>1 DEF RemapLocationIDs, HasTables
<1> HIDE DEF used, q
<1>5. k \in Nat /\ DOMAIN locations = 1..k /\ \A i \in 1..k : Unplaced(locations[i])
  <2>1. k \in Nat /\ DOMAIN used = 1..k /\ \A i \in 1..k : used[i] \in 1..n
    BY <1>3
  <2>2. ASSUME NEW l, Unplaced(l), NEW i PROVE Unplaced([l EXCEPT !.id = i])
    BY <2>2 DEF Unplaced, Found
  <2>3. \A i \in 1..k : Unplaced([p.locations[used[i]] EXCEPT !.id = i])
    BY <1>1, <2>1, <2>2, Zenon
  <2>4. QED
    BY <2>1, <2>3
<1> HIDE DEF locations, k
<1> DEFINE numbers == UsedFunctions(q)
           functions == [i \in DOMAIN numbers |-> [q.functions[numbers[i]] EXCEPT !.id = i]]
           relined == [i \in DOMAIN q.locations |-> WithFunctions(q.locations[i], numbers)]
<1>6. r = [q EXCEPT !.functions = functions, !.locations = relined]
  BY <1>1, <1>4 DEF RemapFunctionIDs, HasTables
<1> HIDE DEF functions, numbers, r
<1>7. DOMAIN relined = 1..k /\ \A i \in 1..k : Unplaced(relined[i])
  <2>1. ASSUME NEW l, Unplaced(l) PROVE Unplaced(WithFunctions(l, numbers))
    <3> DEFINE x == [j \in DOMAIN l.lines |-> [l.lines[j] EXCEPT !.function = Place(numbers, @)]]
    <3>1. WithFunctions(l, numbers) = [l EXCEPT !.lines = x]
      BY DEF WithFunctions
    <3> HIDE DEF x
    <3>2. QED
      BY <2>1, <3>1 DEF Unplaced, Found
  <2>2. \A i \in 1..k : Unplaced(WithFunctions(q.locations[i], numbers))
    BY <1>4, <1>5, <2>1
  <2>3. QED
    BY <1>4, <1>5, <2>2
<1> HIDE DEF relined
<1>8. r.mappings = p.mappings /\ r.locations = relined /\ {"mappings", "locations"} \subseteq DOMAIN r
  BY <1>1, <1>4, <1>6 DEF HasTables
<1>9. ToBePlaced(r, k)
  BY <1>7, <1>8 DEF ToBePlaced
<1>10. QED
  BY <1>5, <1>9 DEF r, q

-------------------------------------------------------------------------------
(* The lines of a text, and those of a part of it. *)
AreLines(lines) == lines \in Seq(ToSet(lines)) /\ \A i \in 1..Len(lines) : LineFits(lines[i])

(* A part of a sequence has elements of it, in their places. *)
LEMMA PartOfSequence ==
    ASSUME NEW T, NEW seq \in Seq(T), NEW i \in Nat \ {0}, NEW j \in 0..Len(seq)
    PROVE  /\ SubSeq(seq, i, j) \in Seq(T)
           /\ \A k \in 1..Len(SubSeq(seq, i, j)) : i + k - 1 \in 1..Len(seq) /\ SubSeq(seq, i, j)[k] = seq[i + k - 1]
<1>1. Len(seq) \in Nat /\ j \in Nat /\ j <= Len(seq)
  OBVIOUS
<1>2. \A k \in i..j : seq[k] \in T
  BY <1>1
<1>3. CASE i <= j
  BY <1>1, <1>2, <1>3
<1>4. CASE ~(i <= j)
  <2>1. SubSeq(seq, i, j) = <<>>
    BY <1>1, <1>4
  <2>2. QED
    BY <2>1
<1>5. QED
  BY <1>3, <1>4

(* A part of a text is one, and so is its end. *)
LEMMA PartOfLines ==
    ASSUME NEW lines, AreLines(lines), NEW i \in Nat \ {0}, NEW j \in 0..Len(lines)
    PROVE  AreLines(SubSeq(lines, i, j)) /\ AreLines(From(lines, i))
<1>1. lines \in Seq(ToSet(lines)) /\ \A k \in 1..Len(lines) : LineFits(lines[k])
  BY DEF AreLines
<1>2. ASSUME NEW m \in 0..Len(lines) PROVE AreLines(SubSeq(lines, i, m))
  <2> DEFINE part == SubSeq(lines, i, m)
             T == ToSet(lines)
  <2>1. /\ part \in Seq(T)
        /\ \A k \in 1..Len(part) : i + k - 1 \in 1..Len(lines) /\ part[k] = lines[i + k - 1]
    <3> HIDE DEF T
    <3>1. lines \in Seq(T)
      BY <1>1 DEF T
    <3>2. QED
      BY <3>1, PartOfSequence
  <2> HIDE DEF part, T
  <2>2. part \in Seq(ToSet(part))
    BY <2>1, SequenceElements
  <2>3. \A k \in 1..Len(part) : LineFits(part[k])
    BY <1>1, <2>1, Zenon
  <2>4. QED
    BY <2>2, <2>3 DEF AreLines, part
<1>3. Len(lines) \in 0..Len(lines)
  BY <1>1
<1>4. QED
  BY <1>2, <1>3 DEF From

(* The first line with some property, or the place after the last. *)
LEMMA FirstOrBehind ==
    ASSUME NEW T, NEW seq \in Seq(T), NEW I, I \subseteq 1..Len(seq),
           NEW k, k = IF I # {} THEN Min(I) ELSE 0
    PROVE  (IF k = 0 THEN Len(seq) + 1 ELSE k) \in 1..Len(seq) + 1
<1>1. (k = 0 <=> I = {}) /\ (k # 0 => k \in I) /\ k \in 0..Len(seq)
  BY FirstPlaceIs
<1>2. QED
  BY <1>1

(* The memory map begins at a line of the text, or nowhere. *)
LEMMA SentinelPlace ==
    ASSUME NEW lines, AreLines(lines)
    PROVE  FirstPlace(lines, IsMemoryMapSentinel) \in 1..Len(lines) + 1
<1> DEFINE I == {i \in 1..Len(lines) : IsMemoryMapSentinel(lines[i])}
           T == ToSet(lines)
<1>1. lines \in Seq(T) /\ I \subseteq 1..Len(lines)
  BY DEF AreLines
<1>2. SelectInSeq(lines, IsMemoryMapSentinel) = IF I # {} THEN Min(I) ELSE 0
  BY DEF SelectInSeq
<1> HIDE DEF I, T
<1>3. QED
  BY <1>1, <1>2, FirstOrBehind DEF FirstPlace

(* What a memory map leaves of locations without mappings has mappings. *)
LEMMA ParseMemoryMapPlaces ==
    ASSUME NEW p, NEW n \in Nat, NEW c \in Nat, OfStacks(p, n, c), p.mappings = <<>>,
           NEW lines, AreLines(lines)
    PROVE  AllInMappings(ParseMemoryMap(p, lines))
<1> DEFINE maps == ParseProcMaps(lines)
           q == [p EXCEPT !.mappings = @ \o maps]
           r == MassageMappings(q)
           s == RemapFunctionIDs(RemapLocationIDs(r))
<1>1. AreRanges(maps)
  <2>1. Len(lines) \in Nat /\ DOMAIN lines = 1..Len(lines) /\ \A i \in 1..Len(lines) : LineFits(lines[i])
    BY DEF AreLines
  <2>2. QED
    BY <2>1, RangesAreRead
<1> HIDE DEF maps
<1>2. q.mappings = maps /\ DOMAIN q = DOMAIN p /\ q.locations = p.locations /\ q.samples = p.samples
  <2>1. maps \in Seq(ToSet(maps))
    BY <1>1 DEF AreRanges, AreRegions
  <2>2. <<>> \o maps = maps
    BY <2>1
  <2>3. QED
    BY <2>2 DEF OfStacks, HasTables
<1> HIDE DEF q
<1>3. OfStacks(q, n, c)
  BY <1>2 DEF OfStacks, HasTables
<1>4. OfStacks(r, n, c) /\ AreRegions(r.mappings)
  BY <1>1, <1>2, <1>3, MassageKeepsUnplaced
<1> HIDE DEF r
<1>5. PICK k \in Nat : ToBePlaced(s, k)
  BY <1>4, RemapKeepsUnplaced
<1> HIDE DEF s
<1>6. AllInMappings(RemapMappingIDs(s))
  BY <1>5, RemapMappingIDsPlaces
<1>7. ParseMemoryMap(p, lines) = RemapMappingIDs(s)
  BY DEF ParseMemoryMap, s, r, q, maps
<1>8. QED
  BY <1>6, <1>7

(* So does what skips the lines before the memory map. *)
LEMMA ParseAdditionalSectionsPlaces ==
    ASSUME NEW p, NEW n \in Nat, NEW c \in Nat, OfStacks(p, n, c), p.mappings = <<>>,
           NEW lines, AreLines(lines)
    PROVE  AllInMappings(ParseAdditionalSections(p, lines))
<1> DEFINE at == FirstPlace(lines, IsMemoryMapSentinel)
<1>1. Len(lines) \in Nat
  BY DEF AreLines
<1>2. at \in 1..Len(lines) + 1
  BY SentinelPlace
<1> HIDE DEF at
<1>3. at + 1 \in Nat \ {0} /\ 0 \in 0..Len(lines)
  BY <1>1, <1>2
<1>4. AreLines(From(lines, at + 1))
  BY <1>3, PartOfLines
<1>5. QED
  BY <1>4, ParseMemoryMapPlaces DEF ParseAdditionalSections, at

-------------------------------------------------------------------------------
(* Stacks of addresses make locations without mappings.  *)
HasStack(x) == "stack" \in DOMAIN x /\ x.stack \in Seq(Addressable)
AreStacks(stacks, c) == DOMAIN stacks = 1..c /\ \A i \in 1..c : HasStack(stacks[i])

(* WithStacks: one location for each address, all without a mapping. *)
LEMMA WithStacksUnplaced ==
    ASSUME NEW p, HasTables(p), p.mappings = <<>>, NEW c \in Nat, NEW stacks, AreStacks(stacks, c)
    PROVE  \E n \in Nat : OfStacks(WithStacks(p, stacks), n, c) /\ WithStacks(p, stacks).mappings = <<>>
<1> DEFINE addrs == [i \in DOMAIN stacks |-> stacks[i].stack]
           all == FlattenSeq(addrs)
           seen == WithoutRepeats(all)
           n == Len(seen)
           locations == [i \in DOMAIN seen |-> [id |-> 0, mapping |-> Nil, address |-> seen[i], lines |-> <<>>]]
           StackOf(i) == [j \in DOMAIN stacks[i].stack |-> Place(seen, stacks[i].stack[j])]
           SampleMade(i) == [locations |-> StackOf(i), values |-> stacks[i].values, labels |-> NoLabels,
                             numLabels |-> stacks[i].numLabels]
           made == [i \in DOMAIN stacks |-> SampleMade(i)]
           q == WithStacks(p, stacks)
<1>1. DOMAIN stacks = 1..c /\ \A i \in 1..c : stacks[i].stack \in Seq(Addressable)
  BY DEF AreStacks, HasStack
<1>2. addrs \in [1..c -> Seq(Addressable)] /\ \A i \in 1..c : addrs[i] = stacks[i].stack
  BY <1>1
<1>3. q = [p EXCEPT !.locations = locations, !.samples = made]
  BY DEF WithStacks
<1>4. q.locations = locations /\ q.samples = made /\ q.mappings = <<>> /\ DOMAIN q = DOMAIN p
  <2> HIDE DEF locations, made, q
  <2>1. QED
    BY <1>3 DEF HasTables
<1> HIDE DEF addrs, q
<1>5. all \in Seq(Addressable) /\ HasAll(addrs, c, all)
  BY <1>2, FlattenedElements
<1> HIDE DEF all
<1>6. seen \in Seq(Addressable) /\ \A k \in 1..Len(all) : Place(seen, all[k]) \in 1..Len(seen)
  BY <1>5, EachElementOnce
<1> HIDE DEF seen
<1>7. n \in Nat /\ DOMAIN seen = 1..n /\ \A i \in 1..n : seen[i] \in Addressable
  BY <1>6
<1>8. DOMAIN locations = 1..n /\ \A i \in 1..n : Unplaced(locations[i])
  BY <1>7 DEF Unplaced, Found
<1> HIDE DEF locations
<1>9. ASSUME NEW i \in 1..c PROVE made[i].locations \in Seq(1..n)
  <2> DEFINE stack == stacks[i].stack
             len == Len(stack)
  <2>1. made[i].locations = StackOf(i)
    BY <1>1
  <2>2. len \in Nat /\ DOMAIN stack = 1..len
    BY <1>1
  <2>3. ASSUME NEW j \in 1..len PROVE Place(seen, stack[j]) \in 1..n
    <3>1. addrs[i] = stack
      BY <1>2
    <3>2. j \in 1..Len(addrs[i])
      BY <3>1, Zenon
    <3>3. \E k \in 1..Len(all) : all[k] = addrs[i][j]
      BY <1>5, <3>2, Zenon DEF HasAll
    <3>4. PICK k \in 1..Len(all) : all[k] = stack[j]
      BY <3>1, <3>3
    <3>5. QED
      BY <1>6, <3>4
  <2>4. StackOf(i) \in [1..len -> 1..n]
    BY <2>2, <2>3
  <2> HIDE DEF len, StackOf
  <2>5. QED
    BY <2>1, <2>2, <2>4
<1>10. DOMAIN made = 1..c
  BY <1>1
<1> HIDE DEF made, n
<1>11. OfStacks(q, n, c) /\ q.mappings = <<>>
  BY <1>4, <1>8, <1>9, <1>10 DEF OfStacks, HasTables
<1>12. QED
  BY <1>7, <1>11 DEF q, n

(* A change of samples or of what to drop leaves the mappings. *)
LEMMA CleanupKeepsMappings ==
    ASSUME NEW p, AllInMappings(p)
    PROVE  AllInMappings(CleanupDuplicateLocations(p)) /\ AllInMappings(AddLegacyFrameInfo(p))
<1>1. {"mappings", "locations"} \subseteq DOMAIN p /\ \A l \in ToSet(p.locations) : InItsMapping(p, l)
  BY DEF AllInMappings
<1>2. ASSUME NEW q, DOMAIN q = DOMAIN p, q.mappings = p.mappings, q.locations = p.locations
      PROVE  AllInMappings(q)
  BY <1>1, <1>2, Zenon DEF AllInMappings, InItsMapping
<1>3. AllInMappings(CleanupDuplicateLocations(p))
  <2> DEFINE q == CleanupDuplicateLocations(p)
  <2>1. DOMAIN q = DOMAIN p /\ q.mappings = p.mappings /\ q.locations = p.locations
    BY <1>1 DEF CleanupDuplicateLocations
  <2>2. QED
    BY <1>2, <2>1
<1>4. AllInMappings(AddLegacyFrameInfo(p))
  <2> DEFINE q == AddLegacyFrameInfo(p)
  <2>1. DOMAIN q = DOMAIN p /\ q.mappings = p.mappings /\ q.locations = p.locations
    BY <1>1 DEF AddLegacyFrameInfo
  <2>2. QED
    BY <1>2, <2>1
<1>5. QED
  BY <1>3, <1>4

-------------------------------------------------------------------------------
(* The lines of a profile, by induction: comments are left out. *)
NotComment(c, rest, l) == IF IsSpaceOrComment(l) THEN rest ELSE Append(rest, l)
LinesKept(c, i, rest) == AreLines(rest)
CommentsFold == INSTANCE FoldLaws WITH Op <- NotComment, Holds <- LinesKept

(* No lines are lines. *)
LEMMA NoLines == AreLines(<<>>)
<1>1. <<>> \in Seq(ToSet(<<>>)) /\ 1..Len(<<>>) = {}
  OBVIOUS
<1>2. QED
  BY <1>1, Zenon DEF AreLines

(* Lines and one more are lines. *)
LEMMA OneMoreLine ==
    ASSUME NEW lines, AreLines(lines), NEW l, LineFits(l)
    PROVE  AreLines(Append(lines, l))
<1> DEFINE U == ToSet(lines) \cup {l}
           new == Append(lines, l)
<1>1. lines \in Seq(ToSet(lines)) /\ \A k \in 1..Len(lines) : LineFits(lines[k])
  BY DEF AreLines
<1>2. lines \in Seq(U) /\ l \in U
  BY <1>1
<1> HIDE DEF U
<1>3. /\ new \in Seq(U) /\ \A k \in 1..Len(new) : k \in 1..Len(lines) \/ new[k] = l
      /\ \A k \in 1..Len(lines) : new[k] = lines[k]
  BY <1>2
<1> HIDE DEF new
<1>4. new \in Seq(ToSet(new))
  BY <1>3, SequenceElements
<1>5. \A k \in 1..Len(new) : LineFits(new[k])
  BY <1>1, <1>3, Zenon
<1>6. QED
  BY <1>4, <1>5 DEF AreLines, new

(* What is left without comments are lines. *)
LEMMA WithoutCommentsAreLines ==
    ASSUME NEW lines, AreLines(lines)
    PROVE  AreLines(WithoutComments(lines))
<1>1. Len(lines) \in Nat /\ DOMAIN lines = 1..Len(lines) /\ \A i \in 1..Len(lines) : LineFits(lines[i])
  BY DEF AreLines
<1>2. WithoutComments(lines) = CommentsFold!Fold(Nil, <<>>, lines)
  BY Zenon DEF WithoutComments, NotComment, CommentsFold!Fold, FoldLeft, MapThenFoldSet,
     CommentsFold!MapThenFoldSet, CommentsFold!Largest, Max
<1>3. LinesKept(Nil, 0, <<>>)
  BY NoLines DEF LinesKept
<1>4. ASSUME NEW i \in 1..Len(lines), NEW rest, LinesKept(Nil, i - 1, rest)
      PROVE  LinesKept(Nil, i, NotComment(Nil, rest, lines[i]))
  <2>1. AreLines(rest) /\ LineFits(lines[i])
    BY <1>1, <1>4 DEF LinesKept
  <2>2. AreLines(Append(rest, lines[i]))
    BY <2>1, OneMoreLine
  <2>3. QED
    BY <2>1, <2>2 DEF LinesKept, NotComment
<1>5. LinesKept(Nil, Len(lines), CommentsFold!Fold(Nil, <<>>, lines))
  BY <1>1, <1>3, <1>4, CommentsFold!FoldInduction
<1>6. QED
  BY <1>2, <1>5 DEF LinesKept

(* Behind its first line a text goes on. *)
LEMMA TailOfLines ==
    ASSUME NEW lines, AreLines(lines), lines # <<>>
    PROVE  AreLines(Tail(lines)) /\ LineFits(lines[1])
<1> DEFINE part == Tail(lines)
           T == ToSet(lines)
<1>1. lines \in Seq(T) /\ \A k \in 1..Len(lines) : LineFits(lines[k])
  BY DEF AreLines
<1> HIDE DEF T
<1>2. part \in Seq(T) /\ 1 \in 1..Len(lines)
      /\ \A k \in 1..Len(part) : k + 1 \in 1..Len(lines) /\ part[k] = lines[k + 1]
  BY <1>1
<1> HIDE DEF part
<1>3. part \in Seq(ToSet(part))
  BY <1>2, SequenceElements
<1>4. \A k \in 1..Len(part) : LineFits(part[k])
  BY <1>1, <1>2, Zenon
<1>5. QED
  BY <1>1, <1>2, <1>3, <1>4 DEF AreLines, part

(* Adjusted addresses are addresses. *)
LEMMA AdjustedAddresses ==
    ASSUME NEW addrs \in Seq(Addressable)
    PROVE  OfCalls(addrs) \in Seq(Addressable) /\ OfCallers(addrs) \in Seq(Addressable)
<1> DEFINE n == Len(addrs)
<1>1. n \in Nat /\ DOMAIN addrs = 1..n /\ \A i \in 1..n : addrs[i] \in Addressable
  OBVIOUS
<1>2. \A a \in Addressable : a \in Int
  BY LegacyAssumption DEF Addressable
<1>3. \A i \in 1..n : Minus(addrs[i], 1) \in Addressable
  BY <1>1, <1>2, MinusInRange
<1>4. OfCalls(addrs) \in [1..n -> Addressable] /\ OfCallers(addrs) \in [1..n -> Addressable]
  BY <1>1, <1>3 DEF OfCalls, OfCallers
<1> HIDE DEF n
<1>5. QED
  BY <1>1, <1>4

(* What Stack makes has a stack. *)
LEMMA StackHasStack ==
    ASSUME NEW addrs \in Seq(Addressable), NEW values
    PROVE  HasStack(Stack(addrs, values))
BY DEF HasStack, Stack

(* What a parser found, with the memory map behind it. *)
LEMMA StacksParsed ==
    ASSUME NEW p, HasTables(p), p.mappings = <<>>, NEW c \in Nat, NEW stacks, AreStacks(stacks, c),
           NEW lines, AreLines(lines)
    PROVE  /\ AllInMappings(ParseAdditionalSections(WithStacks(p, stacks), lines))
           /\ AllInMappings(ParseMemoryMap(WithStacks(p, stacks), lines))
<1>1. PICK n \in Nat : OfStacks(WithStacks(p, stacks), n, c) /\ WithStacks(p, stacks).mappings = <<>>
  BY WithStacksUnplaced
<1>2. QED
  BY <1>1, ParseAdditionalSectionsPlaces, ParseMemoryMapPlaces

(* A new profile has its tables, and no mappings. *)
LEMMA NewProfileHasTables ==
    ASSUME NEW types, NEW periodType, NEW period
    PROVE  /\ HasTables(NewProfile(types, periodType, period))
           /\ NewProfile(types, periodType, period).mappings = <<>>
BY DEF NewProfile, HasTables

(* A duration changes neither. *)
LEMMA DurationKeepsTables ==
    ASSUME NEW p, HasTables(p), NEW duration, NEW q, q = [p EXCEPT !.duration = duration]
    PROVE  HasTables(q) /\ q.mappings = p.mappings
BY DEF HasTables

(* The first element with a property is one, or is behind the last. *)
LEMMA FirstElement ==
    ASSUME NEW T, NEW seq \in Seq(T), NEW I, I \subseteq 1..Len(seq), NEW first,
           first = LET i == IF I # {} THEN Min(I) ELSE 0 IN IF i = 0 THEN Len(seq) + 1 ELSE i
    PROVE  first \in 1..Len(seq) + 1 /\ Len(seq) \in Nat
<1> DEFINE k == IF I # {} THEN Min(I) ELSE 0
<1>1. first = IF k = 0 THEN Len(seq) + 1 ELSE k
  OBVIOUS
<1>2. k = IF I # {} THEN Min(I) ELSE 0
  OBVIOUS
<1>3. Len(seq) \in Nat
  OBVIOUS
<1> HIDE DEF k
<1>4. QED
  BY <1>1, <1>2, <1>3, FirstOrBehind

(* The same of the lines of a text. *)
LEMMA FirstLine ==
    ASSUME NEW lines, AreLines(lines), NEW I, I \subseteq 1..Len(lines), NEW first,
           first = LET i == IF I # {} THEN Min(I) ELSE 0 IN IF i = 0 THEN Len(lines) + 1 ELSE i
    PROVE  first \in 1..Len(lines) + 1 /\ Len(lines) \in Nat
<1> DEFINE T == ToSet(lines)
<1>1. lines \in Seq(T)
  BY DEF AreLines
<1> HIDE DEF T
<1>2. QED
  BY <1>1, FirstElement

(* A profile that was read has its addresses in mappings. *)
ReadMapped(result) == result.error = "" => AllInMappings(result.profile)

(* An error is no profile. *)
LEMMA NotParsed == ReadMapped(Unrecognized) /\ ReadMapped(Malformed) /\ ReadMapped(Panic)
BY DEF ReadMapped, Unrecognized, Malformed, Panic

(* A profile with its addresses in mappings may be returned. *)
LEMMA MappedIsParsed ==
    ASSUME NEW p, AllInMappings(p)
    PROVE  ReadMapped(Parsed(p))
BY DEF ReadMapped, Parsed

(* Profiles of goroutines (parseGoCount). *)
LEMMA GoCountMapped ==
    ASSUME NEW text, AreLines(text)
    PROVE  ReadMapped(ParseGoCount(text))
<1> DEFINE header == FirstPlace(text, LAMBDA l : ~IsSpaceOrComment(l))
           H == {i \in 1..Len(text) : ~IsSpaceOrComment(text[i])}
           rest == From(text, header + 1)
           E == {i \in 1..Len(rest) : Dashed(rest[i])}
           end == FirstPlace(rest, Dashed)
           rows == WithoutComments(SubSeq(rest, 1, end - 1))
           type == text[header].type
           stacks == [i \in DOMAIN rows |-> Stack(OfCalls(rows[i].addrs), <<rows[i].count>>)]
           empty == NewProfile(<<type>>, type, 1)
<1>1. header \in 1..Len(text) + 1 /\ Len(text) \in Nat
  <2>1. header = LET i == IF H # {} THEN Min(H) ELSE 0 IN IF i = 0 THEN Len(text) + 1 ELSE i
    BY DEF FirstPlace, SelectInSeq
  <2>2. H \subseteq 1..Len(text)
    OBVIOUS
  <2> HIDE DEF H, header
  <2>3. QED
    BY <2>1, <2>2, FirstLine
<1> HIDE DEF header
<1>2. AreLines(rest)
  <2>1. header + 1 \in Nat \ {0} /\ 0 \in 0..Len(text)
    BY <1>1
  <2>2. QED
    BY <2>1, PartOfLines
<1> HIDE DEF rest
<1>3. end \in 1..Len(rest) + 1 /\ Len(rest) \in Nat
  <2>1. end = LET i == IF E # {} THEN Min(E) ELSE 0 IN IF i = 0 THEN Len(rest) + 1 ELSE i
    BY DEF FirstPlace, SelectInSeq
  <2>2. E \subseteq 1..Len(rest)
    OBVIOUS
  <2> HIDE DEF E, end
  <2>3. QED
    BY <1>2, <2>1, <2>2, FirstLine
<1> HIDE DEF end
<1>4. AreLines(SubSeq(rest, 1, end - 1)) /\ AreLines(From(rest, end))
  <2>1. end - 1 \in 0..Len(rest) /\ 1 \in Nat \ {0} /\ end \in Nat \ {0}
    BY <1>3
  <2>2. QED
    BY <1>2, <2>1, PartOfLines
<1>5. AreLines(rows)
  BY <1>4, WithoutCommentsAreLines
<1> HIDE DEF rows
<1>6. Len(rows) \in Nat /\ DOMAIN rows = 1..Len(rows) /\ \A i \in 1..Len(rows) : LineFits(rows[i])
  BY <1>5 DEF AreLines
<1>7. CASE \A l \in ToSet(rows) : l.kind = "count"
  <2>1. ASSUME NEW i \in 1..Len(rows)
        PROVE  HasStack(Stack(OfCalls(rows[i].addrs), <<rows[i].count>>))
    <3>1. rows[i].kind = "count" /\ LineFits(rows[i])
      BY <1>6, <1>7 DEF ToSet
    <3>2. rows[i].addrs \in Seq(Addressable)
      BY <3>1 DEF LineFits
    <3>3. QED
      BY <3>2, AdjustedAddresses, StackHasStack
  <2>2. AreStacks(stacks, Len(rows))
    BY <1>6, <2>1 DEF AreStacks
  <2> HIDE DEF stacks, type
  <2>3. HasTables(empty) /\ empty.mappings = <<>>
    BY NewProfileHasTables
  <2> HIDE DEF empty
  <2>4. AllInMappings(ParseAdditionalSections(WithStacks(empty, stacks), From(rest, end)))
    BY <1>4, <1>6, <2>2, <2>3, StacksParsed
  <2>5. ParseGoCount(text) \in {Unrecognized, Malformed,
            Parsed(ParseAdditionalSections(WithStacks(empty, stacks), From(rest, end)))}
    BY Zenon DEF ParseGoCount, empty, stacks, type, rows, end, rest, header
  <2>6. QED
    BY <2>4, <2>5, NotParsed, MappedIsParsed, Zenon
<1>8. CASE \E l \in ToSet(rows) : l.kind # "count"
  <2>1. ParseGoCount(text) \in {Unrecognized, Malformed}
    BY <1>8, Zenon DEF ParseGoCount, rows, end, rest, header
  <2>2. QED
    BY <2>1, NotParsed, Zenon
<1>9. QED
  BY <1>7, <1>8

(* Heap profiles (parseHeap). *)
LEMMA HeapMapped ==
    ASSUME NEW text, AreLines(text), text # <<>>
    PROVE  ReadMapped(ParseHeap(text))
<1> DEFINE header   == text[1]
           hasAlloc == header.kind = "heap profile" /\ HasAlloc(header)
           sampling == Sampling(header)
           rest     == Tail(text)
           E        == {i \in 1..Len(rest) : IsMemoryMapSentinel(rest[i])}
           end      == FirstPlace(rest, IsMemoryMapSentinel)
           rows     == WithoutComments(SubSeq(rest, 1, end - 1))
           stacks   == [i \in DOMAIN rows |-> HeapSample(rows[i], sampling, hasAlloc)]
           types    == IF hasAlloc THEN AllocTypes ELSE <<"objects", "space">>
           empty    == NewProfile(types, "space", sampling.period)
<1>1. AreLines(rest)
  BY TailOfLines
<1> HIDE DEF rest
<1>2. end \in 1..Len(rest) + 1 /\ Len(rest) \in Nat
  <2>1. end \in 1..Len(rest) + 1
    BY <1>1, SentinelPlace
  <2>2. QED
    BY <1>1, <2>1 DEF AreLines
<1> HIDE DEF end
<1>3. AreLines(SubSeq(rest, 1, end - 1)) /\ AreLines(From(rest, end))
  <2>1. end - 1 \in 0..Len(rest) /\ 1 \in Nat \ {0} /\ end \in Nat \ {0}
    BY <1>2
  <2>2. QED
    BY <1>1, <2>1, PartOfLines
<1>4. AreLines(rows)
  BY <1>3, WithoutCommentsAreLines
<1> HIDE DEF rows, sampling, hasAlloc
<1>5. Len(rows) \in Nat /\ DOMAIN rows = 1..Len(rows) /\ \A i \in 1..Len(rows) : LineFits(rows[i])
  BY <1>4 DEF AreLines
<1>6. CASE \A l \in ToSet(rows) : HeapSampleFits(l, hasAlloc)
  <2>1. ASSUME NEW i \in 1..Len(rows)
        PROVE  HasStack(HeapSample(rows[i], sampling, hasAlloc))
    <3>1. HeapSampleFits(rows[i], hasAlloc) /\ LineFits(rows[i])
      BY <1>5, <1>6 DEF ToSet
    <3>2. rows[i].addrs \in Seq(Addressable)
      BY <3>1 DEF LineFits, HeapSampleFits
    <3>3. OfCalls(rows[i].addrs) \in Seq(Addressable)
      BY <3>2, AdjustedAddresses
    <3>4. HeapSample(rows[i], sampling, hasAlloc).stack = OfCalls(rows[i].addrs)
          /\ "stack" \in DOMAIN HeapSample(rows[i], sampling, hasAlloc)
      BY DEF HeapSample
    <3>5. QED
      BY <3>3, <3>4, Zenon DEF HasStack
  <2>2. AreStacks(stacks, Len(rows))
    BY <1>5, <2>1 DEF AreStacks
  <2> HIDE DEF stacks, types
  <2>3. HasTables(empty) /\ empty.mappings = <<>>
    BY NewProfileHasTables
  <2> HIDE DEF empty
  <2>4. AllInMappings(ParseAdditionalSections(WithStacks(empty, stacks), From(rest, end)))
    BY <1>3, <1>5, <2>2, <2>3, StacksParsed
  <2>5. ParseHeap(text) \in {Unrecognized, Malformed,
            Parsed(ParseAdditionalSections(WithStacks(empty, stacks), From(rest, end)))}
    BY Zenon DEF ParseHeap, empty, stacks, types, rows, end, rest, sampling, hasAlloc
  <2>6. QED
    BY <2>4, <2>5, NotParsed, MappedIsParsed, Zenon
<1>7. CASE \E l \in ToSet(rows) : ~HeapSampleFits(l, hasAlloc)
  <2>1. ParseHeap(text) \in {Unrecognized, Malformed}
    BY <1>7, Zenon DEF ParseHeap, rows, end, rest, hasAlloc, sampling
  <2>2. QED
    BY <2>1, NotParsed, Zenon
<1>8. QED
  BY <1>6, <1>7

(* Contention profiles (parseContention). *)
LEMMA ContentionMapped ==
    ASSUME NEW text, AreLines(text), text # <<>>
    PROVE  ReadMapped(ParseContention(text))
<1> DEFINE rest       == Tail(text)
           begin      == FirstPlace(rest, LAMBDA l : ~IsSpaceOrComment(l) /\ l.kind # "attribute")
           B          == {i \in 1..Len(rest) : ~IsSpaceOrComment(rest[i]) /\ rest[i].kind # "attribute"}
           attributes == WithoutComments(SubSeq(rest, 1, begin - 1))
           behind     == From(rest, begin)
           E          == {i \in 1..Len(behind) : Dashed(behind[i])}
           first      == FirstPlace(behind, Dashed)
           end        == begin - 1 + first
           rows       == WithoutComments(SubSeq(rest, begin, end - 1))
           period     == Value(attributes, "sampling period", 1)
           stacks     == [i \in DOMAIN rows |->
                           ContentionSample(rows[i], period, Value(attributes, "cycles/second", 0))]
           since      == Value(attributes, "ms since reset", 0) * Million
           empty      == [NewProfile(<<"contentions", "delay">>, "contentions", period) EXCEPT !.duration = since]
           found      == Parsed(ParseAdditionalSections(WithStacks(empty, stacks), From(rest, end)))
<1>1. AreLines(rest)
  BY TailOfLines
<1> HIDE DEF rest
<1>2. begin \in 1..Len(rest) + 1 /\ Len(rest) \in Nat
  <2>1. begin = LET i == IF B # {} THEN Min(B) ELSE 0 IN IF i = 0 THEN Len(rest) + 1 ELSE i
    BY DEF FirstPlace, SelectInSeq
  <2>2. B \subseteq 1..Len(rest)
    OBVIOUS
  <2> HIDE DEF B, begin
  <2>3. QED
    BY <1>1, <2>1, <2>2, FirstLine
<1> HIDE DEF begin
<1>3. AreLines(behind) /\ Len(behind) = Len(rest) - begin + 1
  <2>1. begin \in Nat \ {0} /\ 0 \in 0..Len(rest)
    BY <1>2
  <2>2. AreLines(behind)
    BY <1>1, <2>1, PartOfLines
  <2>3. rest \in Seq(ToSet(rest))
    BY <1>1 DEF AreLines
  <2>4. Len(behind) = Len(rest) - begin + 1
    BY <1>2, <2>3 DEF From
  <2>5. QED
    BY <2>2, <2>4
<1> HIDE DEF behind
<1>4. first \in 1..Len(behind) + 1
  <2>1. first = LET i == IF E # {} THEN Min(E) ELSE 0 IN IF i = 0 THEN Len(behind) + 1 ELSE i
    BY DEF FirstPlace, SelectInSeq
  <2>2. E \subseteq 1..Len(behind)
    OBVIOUS
  <2> HIDE DEF E, first
  <2>3. QED
    BY <1>3, <2>1, <2>2, FirstLine
<1> HIDE DEF first
<1>5. AreLines(SubSeq(rest, begin, end - 1)) /\ AreLines(From(rest, end))
  <2>1. end - 1 \in 0..Len(rest) /\ begin \in Nat \ {0} /\ end \in Nat \ {0}
    BY <1>2, <1>3, <1>4
  <2>2. QED
    BY <1>1, <2>1, PartOfLines
<1> HIDE DEF end
<1>6. AreLines(rows)
  BY <1>5, WithoutCommentsAreLines
<1> HIDE DEF rows, attributes, period
<1>7. Len(rows) \in Nat /\ DOMAIN rows = 1..Len(rows) /\ \A i \in 1..Len(rows) : LineFits(rows[i])
  BY <1>6 DEF AreLines
<1>8. CASE \A l \in ToSet(rows) : l.kind = "pair"
  <2>1. ASSUME NEW i \in 1..Len(rows), NEW hertz
        PROVE  HasStack(ContentionSample(rows[i], period, hertz))
    <3>1. rows[i].kind = "pair" /\ LineFits(rows[i])
      BY <1>7, <1>8 DEF ToSet
    <3>2. rows[i].addrs \in Seq(Addressable)
      BY <3>1 DEF LineFits
    <3>3. OfCalls(rows[i].addrs) \in Seq(Addressable)
      BY <3>2, AdjustedAddresses
    <3>4. QED
      BY <3>3, StackHasStack, Zenon DEF ContentionSample
  <2>2. AreStacks(stacks, Len(rows))
    BY <1>7, <2>1 DEF AreStacks
  <2> HIDE DEF stacks, since
  <2>3. HasTables(empty) /\ empty.mappings = <<>>
    <3> DEFINE new == NewProfile(<<"contentions", "delay">>, "contentions", period)
    <3>1. HasTables(new) /\ new.mappings = <<>>
      BY NewProfileHasTables
    <3> HIDE DEF new
    <3>2. empty = [new EXCEPT !.duration = since]
      BY DEF new
    <3> HIDE DEF empty
    <3>3. QED
      BY <3>1, <3>2, DurationKeepsTables
  <2> HIDE DEF empty
  <2>4. AllInMappings(ParseAdditionalSections(WithStacks(empty, stacks), From(rest, end)))
    BY <1>5, <1>7, <2>2, <2>3, StacksParsed
  <2>5. ParseContention(text) \in {Unrecognized, found}
    BY Zenon DEF ParseContention, empty, since, stacks, period, attributes, rows, end, first, behind, begin, rest
  <2>6. QED
    BY <2>4, <2>5, NotParsed, MappedIsParsed, Zenon
<1>9. CASE \E l \in ToSet(rows) : l.kind # "pair"
  <2>1. ParseContention(text) =
            IF \/ text[1].kind \notin {"contentionz", "mutex"}
               \/ \E l \in ToSet(attributes) : l.key \notin ContentionAttributes
               \/ \E l \in ToSet(rows) : l.kind # "pair"
            THEN Unrecognized ELSE found
    BY Zenon DEF ParseContention, empty, since, stacks, period, attributes, rows, end, first, behind, begin, rest
  <2> HIDE DEF found
  <2>2. ParseContention(text) = Unrecognized
    BY <1>9, <2>1
  <2>3. QED
    BY <2>2, NotParsed, Zenon
<1>10. QED
  BY <1>8, <1>9

-------------------------------------------------------------------------------
(* Binary CPU profiles. *)
LEMMA CPUSamplesAreStacks ==
    ASSUME NEW words, LineFits(words), words.kind = "words", NEW adjust \in BOOLEAN, NEW p
    PROVE  \E c \in Nat : AreStacks(ParseCPUSamples(words, adjust, p), c)
<1> DEFINE data == words.records
           end == FirstPlace(data, EndOfData)
           I == {i \in 1..Len(data) : EndOfData(data[i])}
           StackOf(r) == Stack(IF adjust THEN OfCallers(r.stack) ELSE r.stack, <<r.count, r.count * p.period>>)
           T == ToSet(data)
           stacks == [i \in 1..end - 1 |-> StackOf(data[i])]
<1>1. data \in Seq(T) /\ \A r \in T : r.stack \in Seq(Addressable)
  BY DEF LineFits
<1> HIDE DEF T, data
<1>2. end \in 1..Len(data) + 1 /\ Len(data) \in Nat
  <2>1. end = LET i == IF I # {} THEN Min(I) ELSE 0 IN IF i = 0 THEN Len(data) + 1 ELSE i
    BY DEF FirstPlace, SelectInSeq
  <2>2. I \subseteq 1..Len(data)
    OBVIOUS
  <2> HIDE DEF I, end
  <2>3. QED
    BY <1>1, <2>1, <2>2, FirstElement
<1> HIDE DEF end
<1>3. ASSUME NEW i \in 1..end - 1 PROVE HasStack(StackOf(data[i]))
  <2> DEFINE r == data[i]
  <2>1. r \in T
    BY <1>1, <1>2
  <2>2. r.stack \in Seq(Addressable)
    BY <1>1, <2>1
  <2>3. OfCallers(r.stack) \in Seq(Addressable)
    BY <2>2, AdjustedAddresses
  <2> DEFINE addrs == IF adjust THEN OfCallers(r.stack) ELSE r.stack
  <2>4. addrs \in Seq(Addressable)
    BY <2>2, <2>3
  <2> HIDE DEF addrs, r
  <2>5. HasStack(Stack(addrs, <<r.count, r.count * p.period>>))
    BY <2>4, StackHasStack
  <2>6. QED
    BY <2>5 DEF addrs, r
<1> HIDE DEF StackOf
<1>4. AreStacks(stacks, end - 1) /\ end - 1 \in Nat
  BY <1>2, <1>3 DEF AreStacks
<1>5. ParseCPUSamples(words, adjust, p) = stacks
  BY Zenon DEF ParseCPUSamples, data, end, StackOf
<1>6. QED
  BY <1>4, <1>5

(* Stacks without the frame most of them have are stacks. *)
LEMMA StrippedAreStacks ==
    ASSUME NEW c \in Nat, NEW stacks, AreStacks(stacks, c)
    PROVE  AreStacks(StripCommonFrame(stacks), c)
<1> DEFINE Second(a) == {i \in DOMAIN stacks : Len(stacks[i].stack) > 1 /\ stacks[i].stack[2] = a}
           least  == Len(stacks) - Len(stacks) \div SimilarSamples
           common == {i \in DOMAIN stacks :
                       Len(stacks[i].stack) > 1 /\ Cardinality(Second(stacks[i].stack[2])) >= least}
           Stripped(x) == [x EXCEPT !.stack = RemoveAt(@, 2)]
           new == [i \in DOMAIN stacks |-> IF i \in common THEN Stripped(stacks[i]) ELSE stacks[i]]
<1>1. StripCommonFrame(stacks) = new
  BY Zenon DEF StripCommonFrame
<1>2. DOMAIN stacks = 1..c /\ \A i \in 1..c : HasStack(stacks[i])
  BY DEF AreStacks
<1>3. \A i \in common : Len(stacks[i].stack) > 1
  OBVIOUS
<1> HIDE DEF common
<1>4. ASSUME NEW x, HasStack(x), Len(x.stack) > 1 PROVE HasStack(Stripped(x))
  <2> DEFINE s == x.stack
             t == RemoveAt(s, 2)
  <2>1. s \in Seq(Addressable) /\ "stack" \in DOMAIN x
    BY <1>4 DEF HasStack
  <2> HIDE DEF s
  <2>2. /\ Len(s) \in 0..Len(s) /\ 1 \in 0..Len(s) /\ 1 \in Nat \ {0} /\ 3 \in Nat \ {0}
    BY <1>4, <2>1 DEF s
  <2>3. SubSeq(s, 1, 1) \in Seq(Addressable) /\ SubSeq(s, 3, Len(s)) \in Seq(Addressable)
    BY <2>1, <2>2, PartOfSequence
  <2>4. t = SubSeq(s, 1, 1) \o SubSeq(s, 3, Len(s))
    BY DEF RemoveAt
  <2> HIDE DEF t
  <2>5. \A u, v \in Seq(Addressable) : u \o v \in Seq(Addressable)
    OBVIOUS
  <2>6. t \in Seq(Addressable)
    BY <2>3, <2>4, <2>5, Zenon
  <2>7. DOMAIN Stripped(x) = DOMAIN x /\ Stripped(x).stack = RemoveAt(x.stack, 2)
    BY <2>1
  <2>8. Stripped(x).stack = t
    BY <2>7 DEF t, s
  <2> HIDE DEF Stripped
  <2>9. QED
    BY <2>1, <2>6, <2>7, <2>8 DEF HasStack
<1> HIDE DEF Stripped
<1>5. \A i \in 1..c : HasStack(new[i])
  BY <1>2, <1>3, <1>4
<1>6. DOMAIN new = 1..c
  BY <1>2
<1> HIDE DEF new
<1>7. QED
  BY <1>1, <1>5, <1>6 DEF AreStacks

(* The profile with its memory map (cpuProfile). *)
LEMMA CPUMapped ==
    ASSUME NEW text, AreLines(text), text # <<>>, text[1].kind = "words", NEW microseconds
    PROVE  ReadMapped(CPUProfile(text, microseconds))
<1> DEFINE empty  == NewCPUProfile(microseconds)
           found  == ParseCPUSamples(text[1], TRUE, empty)
           once   == StripCommonFrame(found)
           stacks == StripCommonFrame(once)
           parsed == ParseMemoryMap(WithStacks(empty, stacks), Tail(text))
<1>1. AreLines(Tail(text)) /\ LineFits(text[1])
  BY TailOfLines
<1>2. HasTables(empty) /\ empty.mappings = <<>>
  BY NewProfileHasTables DEF NewCPUProfile
<1> HIDE DEF empty
<1>3. PICK c \in Nat : AreStacks(found, c)
  BY <1>1, CPUSamplesAreStacks
<1> HIDE DEF found
<1>4. AreStacks(once, c)
  BY <1>3, StrippedAreStacks
<1> HIDE DEF once
<1>5. AreStacks(stacks, c)
  BY <1>4, StrippedAreStacks
<1> HIDE DEF stacks
<1>6. AllInMappings(parsed)
  BY <1>1, <1>2, <1>5, StacksParsed
<1> HIDE DEF parsed
<1>7. AllInMappings(CleanupDuplicateLocations(parsed))
  BY <1>6, CleanupKeepsMappings
<1>8. CPUProfile(text, microseconds) \in {Unrecognized, Parsed(CleanupDuplicateLocations(parsed))}
  BY Zenon DEF CPUProfile, parsed, stacks, once, found, empty
<1>9. QED
  BY <1>7, <1>8, NotParsed, MappedIsParsed, Zenon

-------------------------------------------------------------------------------
(* Profiles of threads: where threads start, by induction. *)
StartsThread(lines, starts, i) == IF lines[i].kind = "thread" THEN Append(starts, i) ELSE starts
StartsWithin(e, i, starts) == starts \in Seq(1..e)
StartsFold == INSTANCE FoldLaws WITH Op <- StartsThread, Holds <- StartsWithin

(* A thread starts at one of the lines before the end. *)
LEMMA ThreadsStart ==
    ASSUME NEW lines, NEW end \in Nat \ {0}
    PROVE  ThreadStarts(lines, end) \in Seq(1..end - 1)
<1> DEFINE e == end - 1
           places == [i \in 1..e |-> i]
           S == 1..e
<1>1. e \in Nat /\ DOMAIN places = 1..e /\ \A i \in 1..e : places[i] = i
  OBVIOUS
<1>2. Len(places) = e
  BY <1>1
<1>3. ThreadStarts(lines, end) = StartsFold!Fold(lines, <<>>, places)
  BY Zenon DEF ThreadStarts, StartsThread, StartsFold!Fold, FoldLeft, MapThenFoldSet,
     StartsFold!MapThenFoldSet, StartsFold!Largest, Max
<1> HIDE DEF places, S
<1>4. \A starts \in Seq(S), i \in S : Append(starts, i) \in Seq(S)
  OBVIOUS
<1>5. StartsWithin(e, 0, <<>>)
  BY DEF StartsWithin
<1>6. ASSUME NEW i \in 1..Len(places), NEW starts, StartsWithin(e, i - 1, starts)
      PROVE  StartsWithin(e, i, StartsThread(lines, starts, places[i]))
  <2>1. starts \in Seq(S) /\ i \in S /\ places[i] = i
    BY <1>1, <1>2, <1>6 DEF StartsWithin, S
  <2>2. Append(starts, i) \in Seq(S)
    BY <1>4, <2>1
  <2>3. StartsThread(lines, starts, places[i]) \in Seq(S)
    BY <2>1, <2>2 DEF StartsThread
  <2>4. QED
    BY <2>3 DEF StartsWithin, S
<1>7. StartsWithin(e, Len(places), StartsFold!Fold(lines, <<>>, places))
  BY <1>1, <1>2, <1>5, <1>6, StartsFold!FoldInduction
<1>8. QED
  BY <1>3, <1>7 DEF StartsWithin

(* What is counted by thread, by induction: a thread without a stack is one     *)
(* more of the stack before.                                                    *)
CountThread(c, stacks, addrs) == AddThread(stacks, addrs)
HaveStacks(stacks) == stacks \in Seq(ToSet(stacks)) /\ \A i \in 1..Len(stacks) : HasStack(stacks[i])
ThreadsCounted(c, i, stacks) == HaveStacks(stacks)
ThreadsFold == INSTANCE FoldLaws WITH Op <- CountThread, Holds <- ThreadsCounted

(* One more thread leaves stacks. *)
LEMMA AddThreadKeepsStacks ==
    ASSUME NEW stacks, HaveStacks(stacks), NEW addrs \in Seq(Addressable)
    PROVE  HaveStacks(AddThread(stacks, addrs))
<1> DEFINE T == ToSet(stacks)
           n == Len(stacks)
<1>1. stacks \in Seq(T) /\ \A i \in 1..n : HasStack(stacks[i])
  BY DEF HaveStacks
<1> HIDE DEF T
<1>2. n \in Nat /\ DOMAIN stacks = 1..n
  BY <1>1
<1>3. CASE addrs # <<>>
  <2> DEFINE x == Stack(OfCallers(addrs), <<1>>)
             U == T \cup {x}
             new == Append(stacks, x)
  <2>1. HasStack(x)
    BY AdjustedAddresses, StackHasStack
  <2>2. AddThread(stacks, addrs) = new
    BY <1>3 DEF AddThread
  <2> HIDE DEF x
  <2>3. stacks \in Seq(U) /\ x \in U
    BY <1>1
  <2> HIDE DEF U
  <2>4. /\ new \in Seq(U) /\ \A k \in 1..Len(new) : k \in 1..n \/ new[k] = x
        /\ \A k \in 1..n : new[k] = stacks[k]
    BY <2>3
  <2> HIDE DEF new, n
  <2>5. new \in Seq(ToSet(new))
    BY <2>4, SequenceElements
  <2>6. \A k \in 1..Len(new) : HasStack(new[k])
    BY <1>1, <2>1, <2>4, Zenon
  <2>7. QED
    BY <2>2, <2>5, <2>6 DEF HaveStacks
<1>4. CASE addrs = <<>> /\ stacks = <<>>
  BY <1>4 DEF AddThread
<1>5. CASE addrs = <<>> /\ stacks # <<>>
  <2> DEFINE new == [stacks EXCEPT ![n].values[1] = @ + 1]
  <2>1. AddThread(stacks, addrs) = new
    BY <1>5 DEF AddThread
  <2>2. DOMAIN new = 1..n
    BY <1>2
  <2>3. \A k \in 1..n : DOMAIN new[k] = DOMAIN stacks[k] /\ new[k].stack = stacks[k].stack
    BY <1>2
  <2> HIDE DEF new, n
  <2>4. \A k \in 1..n : HasStack(new[k])
    BY <1>1, <2>3 DEF HasStack
  <2>5. new \in Seq(ToSet(new)) /\ Len(new) = n
    <3>1. new = [k \in 1..n |-> new[k]] /\ \A k \in 1..n : new[k] \in ToSet(new)
      BY <2>2 DEF new, ToSet
    <3>2. QED
      BY <1>2, <2>2, <3>1
  <2>6. QED
    BY <2>1, <2>4, <2>5 DEF HaveStacks
<1>6. QED
  BY <1>3, <1>4, <1>5

(* So the threads of a text make stacks. *)
LEMMA ThreadsAreStacks ==
    ASSUME NEW n \in Nat, NEW addrs \in [1..n -> Seq(Addressable)]
    PROVE  \E c \in Nat : AreStacks(FoldLeft(AddThread, <<>>, addrs), c)
<1> DEFINE stacks == FoldLeft(AddThread, <<>>, addrs)
<1>1. stacks = ThreadsFold!Fold(Nil, <<>>, addrs)
  BY Zenon DEF CountThread, ThreadsFold!Fold, FoldLeft, MapThenFoldSet,
     ThreadsFold!MapThenFoldSet, ThreadsFold!Largest, Max
<1> HIDE DEF stacks
<1>2. Len(addrs) = n /\ DOMAIN addrs = 1..n
  OBVIOUS
<1>3. HaveStacks(<<>>)
  <2>1. <<>> \in Seq(ToSet(<<>>)) /\ 1..Len(<<>>) = {}
    OBVIOUS
  <2>2. QED
    BY <2>1, Zenon DEF HaveStacks
<1>4. ThreadsCounted(Nil, 0, <<>>)
  BY <1>3 DEF ThreadsCounted
<1>5. ASSUME NEW i \in 1..Len(addrs), NEW old, ThreadsCounted(Nil, i - 1, old)
      PROVE  ThreadsCounted(Nil, i, CountThread(Nil, old, addrs[i]))
  <2>1. HaveStacks(old) /\ addrs[i] \in Seq(Addressable)
    BY <1>2, <1>5 DEF ThreadsCounted
  <2>2. QED
    BY <2>1, AddThreadKeepsStacks DEF ThreadsCounted, CountThread
<1>6. ThreadsCounted(Nil, Len(addrs), ThreadsFold!Fold(Nil, <<>>, addrs))
  BY <1>2, <1>4, <1>5, ThreadsFold!FoldInduction
<1>7. HaveStacks(stacks)
  BY <1>1, <1>6 DEF ThreadsCounted
<1>8. Len(stacks) \in Nat /\ AreStacks(stacks, Len(stacks))
  <2> DEFINE T == ToSet(stacks)
  <2>1. stacks \in Seq(T) /\ \A i \in 1..Len(stacks) : HasStack(stacks[i])
    BY <1>7 DEF HaveStacks
  <2> HIDE DEF T
  <2>2. Len(stacks) \in Nat /\ DOMAIN stacks = 1..Len(stacks)
    BY <2>1
  <2>3. QED
    BY <2>1, <2>2 DEF AreStacks
<1>9. QED
  BY <1>8 DEF stacks

(* The addresses of a thread, line by line. *)
LEMMA ThreadAddresses ==
    ASSUME NEW lines, AreLines(lines)
    PROVE  ParseThreadSample(lines) \in Seq(Addressable)
<1> DEFINE addrs == [i \in DOMAIN lines |-> Addresses(lines[i])]
           n == Len(lines)
<1>1. n \in Nat /\ DOMAIN lines = 1..n /\ \A i \in 1..n : LineFits(lines[i])
  BY DEF AreLines
<1>2. ASSUME NEW i \in 1..n PROVE Addresses(lines[i]) \in Seq(Addressable)
  <2>1. LineFits(lines[i])
    BY <1>1
  <2>2. QED
    BY <2>1 DEF LineFits, Addresses
<1>3. addrs \in [1..n -> Seq(Addressable)]
  BY <1>1, <1>2
<1> HIDE DEF addrs, n
<1>4. FlattenSeq(addrs) \in Seq(Addressable)
  BY <1>1, <1>3, FlattenedElements
<1>5. ParseThreadSample(lines) \in {<<>>, FlattenSeq(addrs)}
  BY Zenon DEF ParseThreadSample, addrs
<1>6. <<>> \in Seq(Addressable)
  OBVIOUS
<1>7. QED
  BY <1>4, <1>5, <1>6, Zenon

(* Between two borders are lines, whose addresses are a stack. *)
LEMMA BetweenBorders ==
    ASSUME NEW lines, AreLines(lines), NEW borders \in Seq(1..Len(lines) + 1)
    PROVE  \E n \in Nat : ThreadsBetween(lines, borders) \in [1..n -> Seq(Addressable)]
<1> DEFINE n == IF borders = <<>> THEN 0 ELSE Len(borders) - 1
           part(k) == SubSeq(lines, borders[k] + 1, borders[k + 1] - 1)
<1>1. Len(lines) \in Nat /\ Len(borders) \in Nat
  BY DEF AreLines
<1>2. n \in Nat /\ 1..Len(borders) - 1 = 1..n
  BY <1>1
<1>3. ASSUME NEW k \in 1..n PROVE ParseThreadSample(part(k)) \in Seq(Addressable)
  <2>1. borders[k] \in 1..Len(lines) + 1 /\ borders[k + 1] \in 1..Len(lines) + 1
    BY <1>1
  <2>2. borders[k] + 1 \in Nat \ {0} /\ borders[k + 1] - 1 \in 0..Len(lines)
    BY <1>1, <2>1
  <2>3. AreLines(part(k))
    BY <2>2, PartOfLines
  <2> HIDE DEF part
  <2>4. QED
    BY <2>3, ThreadAddresses
<1>4. ThreadsBetween(lines, borders) = [k \in 1..n |-> ParseThreadSample(part(k))]
  BY <1>2 DEF ThreadsBetween
<1> HIDE DEF n, part
<1>5. QED
  BY <1>2, <1>3, <1>4

(* The threads of these lines, with the memory map behind them. *)
LEMMA ParseThreadsMapped ==
    ASSUME NEW lines, AreLines(lines), NEW end, end \in {Nil} \cup 1..Len(lines) + 1
    PROVE  ReadMapped(ParseThreads(lines, end))
<1>1. CASE end = Nil
  <2>1. ParseThreads(lines, end) = Unrecognized
    BY <1>1 DEF ParseThreads
  <2>2. QED
    BY <2>1, NotParsed
<1>2. CASE end # Nil
  <2> DEFINE starts == ThreadStarts(lines, end)
             borders == Append(starts, end)
             addrs == ThreadsBetween(lines, borders)
             stacks == FoldLeft(AddThread, <<>>, addrs)
             empty == NewProfile(<<"thread">>, "thread", 1)
             parsed == ParseAdditionalSections(WithStacks(empty, stacks), From(lines, end))
             S == 1..Len(lines) + 1
  <2>1. Len(lines) \in Nat
    BY DEF AreLines
  <2>2. end \in S /\ end \in Nat \ {0} /\ 0 \in 0..Len(lines)
    BY <1>2, <2>1
  <2>3. starts \in Seq(1..end - 1)
    BY <2>2, ThreadsStart
  <2> HIDE DEF starts
  <2>4. starts \in Seq(S)
    BY <2>1, <2>2, <2>3
  <2>5. borders \in Seq(S)
    <3> HIDE DEF S
    <3>1. QED
      BY <2>2, <2>4
  <2> HIDE DEF borders
  <2>6. PICK n \in Nat : addrs \in [1..n -> Seq(Addressable)]
    BY <2>5, BetweenBorders
  <2> HIDE DEF addrs
  <2>7. PICK c \in Nat : AreStacks(stacks, c)
    BY <2>6, ThreadsAreStacks
  <2> HIDE DEF stacks
  <2>8. HasTables(empty) /\ empty.mappings = <<>>
    BY NewProfileHasTables
  <2> HIDE DEF empty
  <2>9. AreLines(From(lines, end))
    BY <2>2, PartOfLines
  <2>10. AllInMappings(parsed)
    BY <2>7, <2>8, <2>9, StacksParsed
  <2> HIDE DEF parsed
  <2>11. AllInMappings(CleanupDuplicateLocations(parsed))
    BY <2>10, CleanupKeepsMappings
  <2>12. ParseThreads(lines, end) \in {Unrecognized, Parsed(CleanupDuplicateLocations(parsed))}
    BY Zenon DEF ParseThreads, ThreadProfile, parsed, empty, stacks, addrs, borders, starts
  <2>13. QED
    BY <2>11, <2>12, NotParsed, MappedIsParsed, Zenon
<1>3. QED
  BY <1>1, <1>2

(* Profiles of threads (parseThread). *)
LEMMA ThreadMapped ==
    ASSUME NEW text, AreLines(text)
    PROVE  ReadMapped(ParseThread(text))
<1> DEFINE header == FirstPlace(text, LAMBDA l : ~IsSpaceOrComment(l))
           H == {i \in 1..Len(text) : ~IsSpaceOrComment(text[i])}
           rest == From(text, header + 1)
           E == {i \in 1..Len(rest) : IsMemoryMapSentinel(rest[i]) \/ Dashed(rest[i])}
           first == FirstPlace(rest, LAMBDA l : IsMemoryMapSentinel(l) \/ Dashed(l))
           lines == ThreadLines(text)
           L == {i \in 1..Len(lines) : Dashed(lines[i]) /\ lines[i].kind # "thread"}
           beyond == FirstPlace(lines, LAMBDA l : Dashed(l) /\ l.kind # "thread")
<1>1. header \in 1..Len(text) + 1 /\ Len(text) \in Nat
  <2>1. header = LET i == IF H # {} THEN Min(H) ELSE 0 IN IF i = 0 THEN Len(text) + 1 ELSE i
    BY DEF FirstPlace, SelectInSeq
  <2>2. H \subseteq 1..Len(text)
    OBVIOUS
  <2> HIDE DEF H, header
  <2>3. QED
    BY <2>1, <2>2, FirstLine
<1>2. lines \in {<<>>, From(rest, first), From(text, header)}
  BY Zenon DEF ThreadLines
<1> HIDE DEF header, lines
<1>3. AreLines(rest) /\ AreLines(From(text, header))
  <2>1. header \in Nat \ {0} /\ header + 1 \in Nat \ {0} /\ 0 \in 0..Len(text)
    BY <1>1
  <2>2. QED
    BY <2>1, PartOfLines
<1> HIDE DEF rest
<1>4. first \in 1..Len(rest) + 1 /\ Len(rest) \in Nat
  <2>1. first = LET i == IF E # {} THEN Min(E) ELSE 0 IN IF i = 0 THEN Len(rest) + 1 ELSE i
    BY DEF FirstPlace, SelectInSeq
  <2>2. E \subseteq 1..Len(rest)
    OBVIOUS
  <2> HIDE DEF E, first
  <2>3. QED
    BY <1>3, <2>1, <2>2, FirstLine
<1> HIDE DEF first
<1>5. AreLines(From(rest, first))
  <2>1. first \in Nat \ {0} /\ 0 \in 0..Len(rest)
    BY <1>4
  <2>2. QED
    BY <1>3, <2>1, PartOfLines
<1>6. AreLines(lines)
  BY <1>2, <1>3, <1>5, NoLines, Zenon
<1>7. beyond \in 1..Len(lines) + 1 /\ Len(lines) \in Nat
  <2>1. beyond = LET i == IF L # {} THEN Min(L) ELSE 0 IN IF i = 0 THEN Len(lines) + 1 ELSE i
    BY DEF FirstPlace, SelectInSeq
  <2>2. L \subseteq 1..Len(lines)
    OBVIOUS
  <2> HIDE DEF L, beyond
  <2>3. QED
    BY <1>6, <2>1, <2>2, FirstLine
<1>8. EndOfThreads(lines) \in {1, Nil, beyond}
  BY Zenon DEF EndOfThreads, beyond
<1> HIDE DEF beyond
<1>9. EndOfThreads(lines) \in {Nil} \cup 1..Len(lines) + 1
  BY <1>7, <1>8
<1>10. ReadMapped(ParseThreads(lines, EndOfThreads(lines)))
  BY <1>6, <1>9, ParseThreadsMapped
<1>11. ParseThread(text) \in {Unrecognized, ParseThreads(lines, EndOfThreads(lines))}
  BY Zenon DEF ParseThread, lines
<1>12. QED
  BY <1>10, <1>11, NotParsed, Zenon

-------------------------------------------------------------------------------
(* The parsers for Java take the addresses away, whatever they read.  *)
ReadBare(result) == result.error = "" => \E p : result.profile = WithoutAddresses(p)

(* A profile without addresses may be returned. *)
LEMMA BareIsParsed ==
    ASSUME NEW p
    PROVE  ReadBare(Parsed(WithoutAddresses(p)))
BY DEF ReadBare, Parsed

(* Both parsers for Java return such a profile, or an error. *)
LEMMA JavaIsBare ==
    ASSUME NEW text, NEW microseconds
    PROVE  ReadBare(JavaCPUProfile(text, microseconds)) /\ ReadBare(ParseJavaProfile(text))
<1>1. ReadBare(Unrecognized) /\ ReadBare(Panic)
  BY DEF ReadBare, Unrecognized, Panic
<1>2. JavaCPUProfile(text, microseconds) = Unrecognized
      \/ \E p : JavaCPUProfile(text, microseconds) = Parsed(WithoutAddresses(p))
  BY Zenon DEF JavaCPUProfile
<1>3. ParseJavaProfile(text) = Unrecognized \/ ParseJavaProfile(text) = Panic
      \/ \E p : ParseJavaProfile(text) = Parsed(WithoutAddresses(p))
  BY Zenon DEF ParseJavaProfile
<1>4. QED
  BY <1>1, <1>2, <1>3, BareIsParsed, Zenon

(* Binary CPU profiles, of whichever program (parseCPU). *)
LEMMA CPUMappedOrBare ==
    ASSUME NEW text, AreLines(text), text # <<>>
    PROVE  ReadMapped(ParseCPU(text)) \/ ReadBare(ParseCPU(text))
<1>1. CASE CPUHeader(text, 0)
  <2>1. text[1].kind = "words" /\ ParseCPU(text) = CPUProfile(text, text[1].header[4])
    BY <1>1, Zenon DEF CPUHeader, ParseCPU
  <2>2. QED
    BY <2>1, CPUMapped
<1>2. CASE ~CPUHeader(text, 0)
  <2>1. ParseCPU(text) \in {Unrecognized, JavaCPUProfile(text, text[1].header[4])}
    BY <1>2, Zenon DEF ParseCPU
  <2>2. QED
    BY <2>1, NotParsed, JavaIsBare, Zenon
<1>3. QED
  BY <1>1, <1>2

(* The frames to drop are added to what the first parser that knows a text has  *)
(* read.                                                                        *)
WasRead(result) == result.error = ""
FirstKnown(results, k, result) ==
    result = IF k = 0 THEN Unrecognized
             ELSE IF results[k].error # "" THEN results[k]
             ELSE Parsed(AddLegacyFrameInfo(results[k].profile))

(* What is returned is the profile of a parser that has read one. *)
LEMMA KnownIsRead ==
    ASSUME NEW results, NEW k, NEW result, FirstKnown(results, k, result), WasRead(result)
    PROVE  k # 0 /\ WasRead(results[k]) /\ result.profile = AddLegacyFrameInfo(results[k].profile)
<1>1. ~WasRead(Unrecognized)
  BY DEF WasRead, Unrecognized
<1>2. \A p : Parsed(p).profile = p
  BY DEF Parsed
<1>3. k # 0 /\ WasRead(results[k])
  BY <1>1, Zenon DEF FirstKnown, WasRead
<1>4. result = Parsed(AddLegacyFrameInfo(results[k].profile))
  BY <1>3, Zenon DEF FirstKnown, WasRead
<1>5. QED
  BY <1>2, <1>3, <1>4, Zenon

(* It is one of the six parsers (parseLegacy). *)
LEMMA FirstOfSix ==
    ASSUME NEW a, NEW b, NEW c, NEW d, NEW e, NEW f, NEW result, result = FirstOf(<<a, b, c, d, e, f>>),
           WasRead(result)
    PROVE  \E r \in {a, b, c, d, e, f} : WasRead(r) /\ result.profile = AddLegacyFrameInfo(r.profile)
<1> DEFINE results == <<a, b, c, d, e, f>>
           T == {a, b, c, d, e, f}
           I == {i \in 1..Len(results) : Knows(results[i])}
           k == IF I # {} THEN Min(I) ELSE 0
<1>1. results \in Seq(T) /\ Len(results) = 6 /\ \A i \in 1..6 : results[i] \in T
  <2>1. a \in T /\ b \in T /\ c \in T /\ d \in T /\ e \in T /\ f \in T
    OBVIOUS
  <2> HIDE DEF T
  <2>2. results \in Seq(T) /\ Len(results) = 6
    BY <2>1
  <2> HIDE DEF results
  <2>3. QED
    BY <2>2
<1>2. SelectInSeq(results, Knows) = k
  BY DEF SelectInSeq
<1>3. I \subseteq 1..Len(results) /\ k = IF I # {} THEN Min(I) ELSE 0
  OBVIOUS
<1>4. result = FirstOf(results)
  OBVIOUS
<1> HIDE DEF results, T, I, k
<1>5. k \in 0..6
  BY <1>1, <1>3, FirstPlaceIs
<1>6. FirstKnown(results, k, result)
  BY <1>2, <1>4, Zenon DEF FirstOf, FirstKnown
<1>7. k # 0 /\ WasRead(results[k]) /\ result.profile = AddLegacyFrameInfo(results[k].profile)
  BY <1>6, KnownIsRead
<1>8. results[k] \in T
  BY <1>1, <1>5, <1>7
<1>9. QED
  BY <1>7, <1>8, Zenon DEF T

(* Where no address is left, each is in its mapping. *)
LEMMA BareIsMapped ==
    ASSUME NEW p, NEW q, q = AddLegacyFrameInfo(WithoutAddresses(p)), IsProfile(q)
    PROVE  AllInMappings(q)
<1> DEFINE keep == {"inlines", "functions", "filenames", "lines"}
           b == WithoutAddresses(p)
           locations == [i \in DOMAIN p.locations |-> AggregatedLocation(p.locations[i], keep)]
<1>1. {"mappings", "locations"} \subseteq DOMAIN q /\ q.locations \in Seq(Locations)
  BY DEF IsProfile, IsMessage
<1>2. DOMAIN q = DOMAIN b /\ q.locations = b.locations
  BY <1>1 DEF AddLegacyFrameInfo
<1>3. DOMAIN b = DOMAIN p /\ ("locations" \in DOMAIN p => b.locations = locations)
  BY DEF WithoutAddresses, Aggregate
<1>4. q.locations = locations
  BY <1>1, <1>2, <1>3
<1>5. ASSUME NEW i \in DOMAIN p.locations PROVE locations[i].address = 0
  <2> DEFINE l == p.locations[i]
  <2>1. locations[i] \in Locations
    BY <1>1, <1>4
  <2>2. locations[i] = AggregatedLocation(l, keep)
    OBVIOUS
  <2>3. "address" \in DOMAIN AggregatedLocation(l, keep)
    BY <2>1, <2>2 DEF Locations
  <2> HIDE DEF l
  <2>4. AggregatedLocation(l, keep).address = 0
    BY <2>3 DEF AggregatedLocation
  <2>5. QED
    BY <2>2, <2>4
<1>6. \A l \in ToSet(q.locations) : l.address = 0
  BY <1>4, <1>5 DEF ToSet
<1>7. QED
  BY <1>1, <1>6 DEF AllInMappings, InItsMapping

(* Whatever parser it was, every address is in a mapping. *)
LEMMA LegacyMapped ==
    ASSUME NEW t \in DOMAIN Texts, WasRead(ParseLegacy(Texts[t]))
    PROVE  AllInMappings(ParseLegacy(Texts[t]).profile)
<1> DEFINE text == Texts[t]
           result == ParseLegacy(text)
           r1 == ParseCPU(text)
           r2 == ParseHeap(text)
           r3 == ParseGoCount(text)
           r4 == ParseThread(text)
           r5 == ParseContention(text)
           r6 == ParseJavaProfile(text)
<1>1. IsText(text) /\ IsProfile(result.profile)
  BY OperationsAssumption, Zenon DEF WasRead
<1>2. WasRead(result) /\ result = FirstOf(<<r1, r2, r3, r4, r5, r6>>)
  BY Zenon DEF ParseLegacy
<1> HIDE DEF text, result
<1>3. AreLines(text) /\ text # <<>>
  BY <1>1 DEF IsText, AreLines, ToSet
<1>4. \A r \in {r1, r2, r3, r4, r5, r6} : ReadMapped(r) \/ ReadBare(r)
  <2>1. ReadMapped(r1) \/ ReadBare(r1)
    BY <1>3, CPUMappedOrBare
  <2>2. ReadMapped(r2) /\ ReadMapped(r3) /\ ReadMapped(r4) /\ ReadMapped(r5)
    BY <1>3, HeapMapped, GoCountMapped, ThreadMapped, ContentionMapped
  <2>3. ReadBare(r6)
    BY JavaIsBare
  <2> HIDE DEF r1, r2, r3, r4, r5, r6
  <2>4. QED
    BY <2>1, <2>2, <2>3
<1> HIDE DEF r1, r2, r3, r4, r5, r6
<1>5. PICK r \in {r1, r2, r3, r4, r5, r6} : WasRead(r) /\ result.profile = AddLegacyFrameInfo(r.profile)
  BY <1>2, FirstOfSix
<1>6. ASSUME ReadMapped(r) PROVE AllInMappings(result.profile)
  BY <1>5, <1>6, CleanupKeepsMappings, Zenon DEF ReadMapped, WasRead
<1>7. ASSUME ReadBare(r) PROVE AllInMappings(result.profile)
  <2>1. PICK p : r.profile = WithoutAddresses(p)
    BY <1>5, <1>7, Zenon DEF ReadBare, WasRead
  <2>2. result.profile = AddLegacyFrameInfo(WithoutAddresses(p))
    BY <1>5, <2>1, Zenon
  <2>3. QED
    BY <1>1, <2>2, BareIsMapped, Zenon
<1>8. AllInMappings(result.profile)
  BY <1>4, <1>5, <1>6, <1>7, Zenon
<1>9. QED
  BY <1>8 DEF result, text

(* Whatever regions the memory map of a text has, and whichever parser reads it,*)
(* each address of the profile is in a mapping that contains it, or in the one  *)
(* made up for what no other contains: a mapping that had to begin before what  *)
(* the map says does so, and no later location moves it away from an earlier    *)
(* one (remapMappingIDs, after massageMappings and the two remaps of IDs).      *)
THEOREM AddressesAreMapped == OperationsSpec => []AddressesMapped
<1> DEFINE Inv == JustRead => AllInMappings(profile)
<1>1. Inv => AddressesMapped
  BY Zenon DEF AddressesMapped, AllInMappings, InItsMapping
<1>2. OperationsInit => Inv
  BY DEF OperationsInit, JustRead
<1>3. Inv /\ [OperationsNext]_operationVars => Inv'
  <2>1. ASSUME Inv, UNCHANGED operationVars PROVE Inv'
    BY <2>1 DEF operationVars, JustRead
  <2>2. ASSUME Ready, Operation PROVE Inv'
    BY <2>2, OperationNamed, Zenon DEF JustRead
  <2>3. ASSUME NEW w \in Sources, ParseProfile(w), JustRead' PROVE AllInMappings(profile)'
    <3> DEFINE result == ParseLegacy(Texts[w])
               p == IF result.error = "" THEN result.profile ELSE NoProfile
    <3>1. last' = <<"parse", w>> /\ status' = Results[w].status /\ status' = "open"
      BY <2>3 DEF ParseProfile, Read, JustRead
    <3>2. last'[2] \in DOMAIN Texts
      BY <2>3 DEF JustRead
    <3>3. w \in DOMAIN Texts
      BY <3>1, <3>2
    <3>4. w \notin DOMAIN Wires
      BY <3>3, OperationsAssumption
    <3>5. Results[w] = LegacyResult(result)
      BY <2>3, <3>4, Zenon DEF Results
    <3> HIDE DEF result
    <3>6. Results[w] = ParseResult(result.error, p)
      BY <3>5, Zenon DEF LegacyResult
    <3> HIDE DEF p
    <3>7. Results[w].profile = p /\ result.error = ""
      BY <3>1, <3>6, OpenResult, Zenon
    <3>8. profile' = result.profile
      BY <2>3, <3>1, <3>7, Zenon DEF ParseProfile, Read, p
    <3>9. AllInMappings(result.profile)
      BY <3>3, <3>7, LegacyMapped, Zenon DEF result, WasRead
    <3>10. QED
      BY <3>8, <3>9
  <2>4. ASSUME Inv, OperationsNext PROVE Inv'
    BY <2>2, <2>3, <2>4, Zenon DEF OperationsNext
  <2>5. QED
    BY <2>1, <2>4
<1>4. QED
  BY <1>1, <1>2, <1>3, PTL DEF OperationsSpec
-------------------------------------------------------------------------------
(* The two types found in a profile are places in its list of types. *)
LEMMA TypeIndexInRange ==
    ASSUME NEW kind, NEW w, w.types \in Seq(STRING), NEW name, TypeIndex(kind, w, name) # 0
    PROVE  TypeIndex(kind, w, name) \in DOMAIN w.types
<1> DEFINE I == {i \in 1..Len(w.types) : w.types[i] = name}
<1>1. TypeIndex(kind, w, name) =
        IF kind = "allocation" THEN IF I # {} THEN Min(I) ELSE 0 ELSE IF I # {} THEN Max(I) ELSE 0
  BY DEF TypeIndex, SelectInSeq, SelectLastInSeq
<1>2. I \in SUBSET (1..Len(w.types)) /\ Len(w.types) \in Nat
  OBVIOUS
<1>3. I # {} => Max(I) \in I /\ Min(I) \in I
  BY ONLY <1>2, MaxOfIndices, MinOfIndices
<1>4. QED
  BY <1>1, <1>3

(* The node at a depth of a stack is that many of its frames; its parent is    *)
(* the node one frame less deep.                                               *)
LEMMA NodeAtDepth ==
    ASSUME NEW frames \in Seq(Frame), NEW depth \in 0..Len(frames)
    PROVE  /\ Node(frames, depth) \in Seq(Frame)
           /\ depth = 0 => Node(frames, depth) = <<>>
           /\ depth > 0 => Parent(Node(frames, depth)) = Node(frames, depth - 1)
<1>1. /\ Node(frames, depth) \in Seq(Frame)
      /\ Len(Node(frames, depth)) = depth
      /\ \A i \in 1..depth : Node(frames, depth)[i] = frames[i]
  BY DEF Node
<1>2. ASSUME depth > 0 PROVE Parent(Node(frames, depth)) = Node(frames, depth - 1)
  <2> DEFINE node == Node(frames, depth)
             shorter == Node(frames, depth - 1)
  <2>1. /\ shorter \in Seq(Frame)
        /\ Len(shorter) = depth - 1
        /\ \A i \in 1..depth-1 : shorter[i] = frames[i]
    BY <1>2 DEF Node
  <2>2. /\ SubSeq(node, 1, depth - 1) \in Seq(Frame)
        /\ Len(SubSeq(node, 1, depth - 1)) = depth - 1
        /\ \A i \in 1..depth-1 : SubSeq(node, 1, depth - 1)[i] = frames[i]
    BY <1>1, <1>2, SubSeqProperties
  <2>3. SubSeq(node, 1, depth - 1) = shorter
    BY <2>1, <2>2, SeqEqual
  <2>4. QED
    BY <1>1, <2>3 DEF Parent, Front
<1>3. QED
  BY <1>1, <1>2

(* The ancestors of a node are its beginnings. *)
LEMMA ParentOfNode ==
    ASSUME NEW node \in Seq(Frame), node # <<>>
    PROVE  /\ Parent(node) \in Seq(Frame)
           /\ Len(Parent(node)) = Len(node) - 1
           /\ \A depth \in 0..Len(Parent(node)) :
                depth \in 0..Len(node) /\ SubSeq(Parent(node), 1, depth) = SubSeq(node, 1, depth)
           /\ SubSeq(node, 1, Len(node)) = node
<1>1. Len(node) \in Nat /\ Len(node) > 0
  OBVIOUS
<1>2. /\ Parent(node) \in Seq(Frame)
      /\ Len(Parent(node)) = Len(node) - 1
      /\ \A i \in 1..Len(node)-1 : Parent(node)[i] = node[i]
  <2> DEFINE final == Len(node) - 1
  <2>1. 1 \in 1..Len(node)+1 /\ final \in 1-1..Len(node) /\ final - 1 + 1 = final
    BY <1>1
  <2> HIDE DEF final
  <2>2. /\ SubSeq(node, 1, final) \in Seq(Frame)
        /\ Len(SubSeq(node, 1, final)) = final
        /\ \A i \in 1..final : SubSeq(node, 1, final)[i] = node[i]
    BY <2>1, SubSeqProperties
  <2>3. QED
    BY <2>2 DEF Parent, Front, final
<1>3. ASSUME NEW depth \in 0..Len(Parent(node))
      PROVE  SubSeq(Parent(node), 1, depth) = SubSeq(node, 1, depth)
  <2>1. /\ SubSeq(Parent(node), 1, depth) \in Seq(Frame)
        /\ Len(SubSeq(Parent(node), 1, depth)) = depth
        /\ \A i \in 1..depth : SubSeq(Parent(node), 1, depth)[i] = node[i]
    BY <1>1, <1>2, SubSeqProperties
  <2>2. /\ SubSeq(node, 1, depth) \in Seq(Frame)
        /\ Len(SubSeq(node, 1, depth)) = depth
        /\ \A i \in 1..depth : SubSeq(node, 1, depth)[i] = node[i]
    BY <1>1, <1>2, SubSeqProperties
  <2>3. QED
    BY <2>1, <2>2, SeqEqual
<1>4. SubSeq(node, 1, Len(node)) = node
  <2>1. /\ SubSeq(node, 1, Len(node)) \in Seq(Frame)
        /\ Len(SubSeq(node, 1, Len(node))) = Len(node)
        /\ \A i \in 1..Len(node) : SubSeq(node, 1, Len(node))[i] = node[i]
    BY <1>1, SubSeqProperties
  <2>2. QED
    BY <2>1, SeqEqual
<1>5. QED
  BY <1>1, <1>2, <1>3, <1>4
--------------------------------------------------------------------------------
(* Every node on the path of a stack but the root has its parent on it. *)
LEMMA PathOfStack ==
    ASSUME NEW frames \in Seq(Frame), NEW node \in NodesOf(frames)
    PROVE  node \in Seq(Frame) /\ (node # <<>> => Parent(node) \in NodesOf(frames))
<1>1. PICK depth \in 0..Len(frames) : node = Node(frames, depth)
  BY DEF NodesOf
<1>2. CASE depth = 0
  BY <1>1, <1>2, NodeAtDepth
<1>3. CASE depth > 0
  <2>1. depth - 1 \in 0..Len(frames)
    BY <1>3
  <2>2. QED
    BY <1>1, <1>3, <2>1, NodeAtDepth DEF NodesOf
<1>4. QED
  BY <1>2, <1>3

LEMMA IncrementKeepsTree ==
    ASSUME NEW t, Typed(t), Ordered(t),
           NEW s, s.frames \in Seq(Frame), s.value \in Nat, s.count \in Nat
    PROVE  Typed(IncrementStack(t, s)) /\ Ordered(IncrementStack(t, s))
<1> DEFINE new == IncrementStack(t, s)
           path == NodesOf(s.frames)
<1>1. DOMAIN new = DOMAIN t \cup path
  BY DEF IncrementStack
<1>2. \A node \in DOMAIN new : ValueAt(t, node) \in [measurement : Nat, numSamples : Nat]
  BY DEF ValueAt, Typed
<1>3. \A node \in DOMAIN new :
        /\ node \in path => new[node] = [measurement |-> ValueAt(t, node).measurement + s.value,
                                         numSamples  |-> ValueAt(t, node).numSamples + s.count]
        /\ node \notin path => new[node] = ValueAt(t, node)
  BY DEF IncrementStack
<1>4. \A node \in DOMAIN new : new[node] \in [measurement : Nat, numSamples : Nat]
  BY <1>2, <1>3
<1> HIDE DEF new, path
<1>5. \A node \in path : node \in Seq(Frame) /\ (node # <<>> => Parent(node) \in path)
  BY PathOfStack DEF path
<1>6. Typed(new)
  BY <1>1, <1>4, <1>5 DEF Typed
<1>7. ASSUME NEW node \in DOMAIN new, node # <<>>
      PROVE  /\ Parent(node) \in DOMAIN new
             /\ ValueAt(t, node).measurement <= ValueAt(t, Parent(node)).measurement
             /\ ValueAt(t, node).numSamples <= ValueAt(t, Parent(node)).numSamples
  <2>1. Parent(node) \in DOMAIN new
    BY <1>1, <1>5, <1>7 DEF Ordered
  <2>2. CASE node \in DOMAIN t
    BY <1>7, <2>1, <2>2 DEF ValueAt, Ordered
  <2>3. CASE node \notin DOMAIN t
    BY <1>2, <2>1, <2>3 DEF ValueAt
  <2>4. QED
    BY <2>1, <2>2, <2>3
<1>8. ASSUME NEW node \in DOMAIN new, node # <<>>
      PROVE  /\ Parent(node) \in DOMAIN new
             /\ new[node].measurement <= new[Parent(node)].measurement
             /\ new[node].numSamples <= new[Parent(node)].numSamples
  <2>1. Parent(node) \in DOMAIN new
    BY <1>7, <1>8
  <2>2. CASE node \in path
    BY <1>2, <1>3, <1>5, <1>7, <1>8, <2>1, <2>2
  <2>3. CASE node \notin path
    BY <1>2, <1>3, <1>7, <1>8, <2>1, <2>3
  <2>4. QED
    BY <2>1, <2>2, <2>3
<1>9. QED
  BY <1>6, <1>8 DEF Ordered, new

(* The filter keeps with a node all the nodes above it. *)
LEMMA FilterKeepsTree ==
    ASSUME NEW t, Typed(t), Ordered(t), NEW range,
           NEW node \in DOMAIN Filter(t, range), node # <<>>
    PROVE  /\ Parent(node) \in DOMAIN Filter(t, range)
           /\ Filter(t, range)[node].measurement <= Filter(t, range)[Parent(node)].measurement
           /\ Len(node) >= 2 => InRange(Filter(t, range)[node].measurement, range)
<1>1. /\ node \in DOMAIN t /\ node \in Seq(Frame)
      /\ \A depth \in 0..Len(node) : Stays(t, SubSeq(node, 1, depth), range)
  BY DEF Filter, Typed
<1>2. /\ Parent(node) \in DOMAIN t
      /\ t[node].measurement <= t[Parent(node)].measurement
  BY <1>1 DEF Ordered
<1>3. \A depth \in 0..Len(Parent(node)) : Stays(t, SubSeq(Parent(node), 1, depth), range)
  BY <1>1, ParentOfNode
<1>4. Parent(node) \in DOMAIN Filter(t, range)
  BY <1>2, <1>3 DEF Filter
<1>5. \A n \in DOMAIN Filter(t, range) : Filter(t, range)[n] = t[n]
  BY DEF Filter
<1>6. Stays(t, node, range)
  <2>1. Len(node) \in 0..Len(node) /\ SubSeq(node, 1, Len(node)) = node
    BY <1>1, ParentOfNode
  <2>2. QED
    BY <1>1, <2>1
<1>7. QED
  BY <1>2, <1>4, <1>5, <1>6 DEF Stays

(* The value of a node on the path of a stack, or beside it. *)
LEMMA IncrementedValue ==
    ASSUME NEW t, Typed(t), NEW s, s.value \in Nat, s.count \in Nat,
           NEW node \in DOMAIN t \cup NodesOf(s.frames)
    PROVE  /\ node \in DOMAIN IncrementStack(t, s)
           /\ IncrementStack(t, s)[node].measurement =
                ValueAt(t, node).measurement + (IF node \in NodesOf(s.frames) THEN s.value ELSE 0)
           /\ IncrementStack(t, s)[node].numSamples =
                ValueAt(t, node).numSamples + (IF node \in NodesOf(s.frames) THEN s.count ELSE 0)
<1>1. ValueAt(t, node) \in [measurement : Nat, numSamples : Nat]
  BY DEF ValueAt, Typed
<1>2. CASE node \in NodesOf(s.frames)
  BY <1>1, <1>2 DEF IncrementStack
<1>3. CASE node \notin NodesOf(s.frames)
  BY <1>1, <1>3 DEF IncrementStack
<1>4. QED
  BY <1>2, <1>3

(* A part of a tree stays within it when the tree grows, alone or with it. *)
LEMMA IncrementKeepsWithin ==
    ASSUME NEW part, NEW whole, Typed(part), Typed(whole), Within(part, whole),
           NEW s, s.value \in Nat, s.count \in Nat
    PROVE  /\ Within(part, IncrementStack(whole, s))
           /\ Within(IncrementStack(part, s), IncrementStack(whole, s))
<1> DEFINE path == NodesOf(s.frames)
<1>1. \A node : /\ ValueAt(part, node).measurement \in Nat /\ ValueAt(part, node).numSamples \in Nat
                /\ ValueAt(whole, node).measurement \in Nat /\ ValueAt(whole, node).numSamples \in Nat
  BY DEF ValueAt, Typed
<1>2. \A node : /\ ValueAt(part, node).measurement <= ValueAt(whole, node).measurement
                /\ ValueAt(part, node).numSamples <= ValueAt(whole, node).numSamples
  BY <1>1 DEF ValueAt, Within
<1>3. DOMAIN part \subseteq DOMAIN whole /\ DOMAIN IncrementStack(part, s) = DOMAIN part \cup path
  BY DEF Within, IncrementStack
<1>4. ASSUME NEW node \in DOMAIN part \cup path
      PROVE  /\ node \in DOMAIN IncrementStack(whole, s)
             /\ ValueAt(part, node).measurement <= IncrementStack(whole, s)[node].measurement
             /\ ValueAt(part, node).numSamples <= IncrementStack(whole, s)[node].numSamples
             /\ IncrementStack(part, s)[node].measurement <= IncrementStack(whole, s)[node].measurement
             /\ IncrementStack(part, s)[node].numSamples <= IncrementStack(whole, s)[node].numSamples
  <2>1. node \in DOMAIN whole \cup NodesOf(s.frames) /\ node \in DOMAIN part \cup NodesOf(s.frames)
    BY <1>3
  <2> DEFINE value == IF node \in NodesOf(s.frames) THEN s.value ELSE 0
             count == IF node \in NodesOf(s.frames) THEN s.count ELSE 0
  <2>2. /\ node \in DOMAIN IncrementStack(whole, s)
        /\ IncrementStack(whole, s)[node].measurement = ValueAt(whole, node).measurement + value
        /\ IncrementStack(whole, s)[node].numSamples = ValueAt(whole, node).numSamples + count
    BY <2>1, IncrementedValue
  <2>3. /\ IncrementStack(part, s)[node].measurement = ValueAt(part, node).measurement + value
        /\ IncrementStack(part, s)[node].numSamples = ValueAt(part, node).numSamples + count
    BY <2>1, IncrementedValue
  <2>4. value \in Nat /\ count \in Nat
    OBVIOUS
  <2> HIDE DEF value, count
  <2>5. QED
    BY <1>1, <1>2, <2>2, <2>3, <2>4
<1>5. \A node \in DOMAIN part : part[node] = ValueAt(part, node)
  BY DEF ValueAt
<1>6. Within(part, IncrementStack(whole, s))
  BY <1>4, <1>5 DEF Within
<1>7. Within(IncrementStack(part, s), IncrementStack(whole, s))
  BY <1>3, <1>4 DEF Within
<1>8. QED
  BY <1>6, <1>7
--------------------------------------------------------------------------------
(* The samples of the runtime's block profile that are still to be added have   *)
(* a stack each, and values that are not below those last read for it.          *)
Growing ==
    /\ DOMAIN samples \subseteq Nat
    /\ job = "block" =>
        /\ \A i, j \in DOMAIN samples : samples[i].key = samples[j].key => i = j
        /\ \A i \in DOMAIN samples : i >= next =>
            /\ Seen(samples[i].key).value <= samples[i].value
            /\ Seen(samples[i].key).count <= samples[i].count

GraphInv == GraphTypeOK /\ NoChildAbove /\ ReportedTree /\ Growing

LEMMA NewTreeIsTree ==
    Typed(NewTree) /\ Ordered(NewTree) /\ DOMAIN NewTree = {<<>>} /\ Within(NewTree, NewTree)
<1>1. DOMAIN NewTree = {<<>>} /\ NewTree[<<>>] = [measurement |-> 0, numSamples |-> 0]
  BY DEF NewTree
<1>2. [measurement |-> 0, numSamples |-> 0] \in [measurement : Nat, numSamples : Nat]
  OBVIOUS
<1>3. <<>> \in Seq(Frame)
  OBVIOUS
<1>4. Typed(NewTree)
  BY <1>1, <1>2, <1>3 DEF Typed
<1>5. Ordered(NewTree)
  BY <1>1 DEF Ordered
<1>6. Within(NewTree, NewTree)
  BY <1>1, <1>2 DEF Within
<1>7. QED
  BY <1>1, <1>4, <1>5, <1>6

LEMMA GraphInitially == GraphInit => GraphInv
<1> SUFFICES ASSUME GraphInit PROVE GraphInv
  OBVIOUS
<1>1. GraphTypeOK
  BY NewTreeIsTree, CallGraphAssumption DEF GraphInit, GraphTypeOK
<1>2. NoChildAbove
  BY NewTreeIsTree DEF GraphInit, NoChildAbove, Graphs
<1>3. ReportedTree
  BY NewTreeIsTree DEF GraphInit, ReportedTree
<1>4. Growing
  BY DEF GraphInit, Growing
<1>5. QED
  BY <1>1, <1>2, <1>3, <1>4 DEF GraphInv

(* The samples of a profile that is read and valid are well typed. *)
LEMMA SamplesTyped ==
    ASSUME NEW w \in CPUProfiles \cup BlockProfiles \cup HeapProfiles, Parses(w),
           NEW kind, Recognized(kind, w), NEW i \in DOMAIN w.samples
    PROVE  LET s == SampleOf(kind, w, SymbolizeProfile(Parse(w)), i)
           IN s.frames \in Seq(Frame) /\ s.value \in Nat /\ s.count \in Nat
<1> DEFINE p == SymbolizeProfile(Parse(w))
<1>1. FramesOf(p, p.samples[i]) \in Seq(Frame)
  BY CallGraphAssumption
<1>2. ValueIndex(kind, w) \in DOMAIN w.types /\ CountIndex(kind, w) \in DOMAIN w.types
  BY CallGraphAssumption, TypeIndexInRange DEF Recognized, ValueIndex, CountIndex
<1>3. /\ w.samples[i].values[ValueIndex(kind, w)] \in Nat
      /\ w.samples[i].values[CountIndex(kind, w)] \in Nat
  BY <1>2, CallGraphAssumption
<1> HIDE DEF p
<1>4. SampleOf(kind, w, p, i).frames \in Seq(Frame) /\ SampleOf(kind, w, p, i).value \in Nat
      /\ SampleOf(kind, w, p, i).count \in Nat
  BY <1>1, <1>3 DEF SampleOf
<1>5. QED
  BY <1>4 DEF p

(* A profile that is read changes no tree. *)
LEMMA StartKeepsInv ==
    ASSUME GraphInv, NEW kind \in {"cpu", "block", "allocation"}, NEW read,
           CanRead, StartAdding(kind, read), durations' \in [{"cpu", "block"} -> Nat],
           DOMAIN read \subseteq Nat, kind = "block" => Cumulative(read),
           \A i \in DOMAIN read :
                read[i].frames \in Seq(Frame) /\ read[i].value \in Nat /\ read[i].count \in Nat
    PROVE  GraphInv'
<1>1. /\ UNCHANGED <<trees, prevValues, reported>>
      /\ job' = kind /\ samples' = read /\ next' = 1 /\ records' \in 0..MaxRecords
  BY CallGraphAssumption DEF CanRead, StartAdding, GraphInv, GraphTypeOK
<1>2. GraphTypeOK'
  BY <1>1 DEF GraphInv, GraphTypeOK, Typed
<1>3. NoChildAbove' /\ ReportedTree'
  BY <1>1 DEF GraphInv, NoChildAbove, ReportedTree
<1>4. Growing'
  BY <1>1 DEF Growing, Cumulative, Seen
<1>5. QED
  BY <1>2, <1>3, <1>4 DEF GraphInv

(* The samples the three reporters take from a profile. *)
LEMMA SamplesOfTyped ==
    ASSUME NEW w \in CPUProfiles \cup BlockProfiles \cup HeapProfiles, Valid(w),
           NEW kind, Recognized(kind, w)
    PROVE  LET read == SamplesOf(kind, w, SymbolizeProfile(Parse(w)))
           IN /\ DOMAIN read \subseteq Nat
              /\ \A i \in DOMAIN read :
                    read[i].frames \in Seq(Frame) /\ read[i].value \in Nat /\ read[i].count \in Nat
<1> DEFINE p == SymbolizeProfile(Parse(w))
<1>1. \A i \in DOMAIN w.samples :
        /\ SampleOf(kind, w, p, i).frames \in Seq(Frame)
        /\ SampleOf(kind, w, p, i).value \in Nat /\ SampleOf(kind, w, p, i).count \in Nat
  BY SamplesTyped DEF Valid
<1>2. DOMAIN w.samples \subseteq Nat
  BY CallGraphAssumption
<1> HIDE DEF p
<1>3. /\ DOMAIN SamplesOf(kind, w, p) = DOMAIN w.samples
      /\ \A i \in DOMAIN w.samples : SamplesOf(kind, w, p)[i] = SampleOf(kind, w, p, i)
  BY DEF SamplesOf
<1>4. QED
  BY <1>1, <1>2, <1>3 DEF p

LEMMA RecordKeepsInv == GraphInv /\ ReadNext => GraphInv'
<1> SUFFICES ASSUME GraphInv, ReadNext PROVE GraphInv'
  OBVIOUS
<1>1. ASSUME NEW kind, NEW w, ReadFails(kind, w) PROVE GraphInv'
  <2>1. /\ UNCHANGED <<trees, durations, prevValues, job, samples, next, reported>>
        /\ records' \in 0..MaxRecords
    BY <1>1, CallGraphAssumption DEF ReadFails, CanRead, GraphInv, GraphTypeOK
  <2>2. GraphTypeOK' /\ NoChildAbove' /\ ReportedTree' /\ Growing'
    BY <2>1 DEF GraphInv, GraphTypeOK, Typed, NoChildAbove, ReportedTree, Growing, Seen
  <2>3. QED
    BY <2>2 DEF GraphInv
<1>2. ASSUME NEW kind \in {"cpu", "block"}, NEW d \in Durations, Lasts(kind, d)
      PROVE  durations' \in [{"cpu", "block"} -> Nat]
  BY <1>2, CallGraphAssumption DEF Lasts, GraphInv, GraphTypeOK
<1>3. ASSUME NEW w \in CPUProfiles, NEW d \in Durations, RecordCPU(w, d) PROVE GraphInv'
  <2>1. durations' \in [{"cpu", "block"} -> Nat]
    BY <1>2, <1>3 DEF RecordCPU
  <2>2. CASE Recognized("cpu", w)
    BY <1>3, <2>1, <2>2, StartKeepsInv, SamplesOfTyped DEF RecordCPU
  <2>3. CASE ~Recognized("cpu", w)
    <3>1. CanRead /\ StartAdding("cpu", <<>>)
      BY <1>3, <2>3 DEF RecordCPU
    <3>2. QED
      BY <2>1, <3>1, StartKeepsInv
  <2>4. QED
    BY <2>2, <2>3
<1>4. ASSUME NEW w \in BlockProfiles, NEW d \in Durations, RecordBlock(w, d) PROVE GraphInv'
  <2>1. durations' \in [{"cpu", "block"} -> Nat]
    BY <1>2, <1>4 DEF RecordBlock
  <2>2. QED
    BY <1>4, <2>1, StartKeepsInv, SamplesOfTyped DEF RecordBlock
<1>5. ASSUME NEW w \in HeapProfiles, ReadAllocation(w) PROVE GraphInv'
  <2>1. durations' \in [{"cpu", "block"} -> Nat]
    BY <1>5 DEF ReadAllocation, GraphInv, GraphTypeOK
  <2>2. QED
    BY <1>5, <2>1, StartKeepsInv, SamplesOfTyped DEF ReadAllocation
<1>6. QED
  BY <1>1, <1>3, <1>4, <1>5 DEF ReadNext
--------------------------------------------------------------------------------
(* A sample that is added, or not, leaves each tree a tree. *)
LEMMA IncrementedIsTree ==
    ASSUME NEW t, Typed(t), Ordered(t), NEW counts \in BOOLEAN,
           NEW s, s.frames \in Seq(Frame), s.value \in Nat, s.count \in Nat
    PROVE  Typed(Incremented(t, s, counts)) /\ Ordered(Incremented(t, s, counts))
BY IncrementKeepsTree DEF Incremented

LEMMA AddKeepsInv ==
    ASSUME GraphInv, AddCPUSample \/ AddAllocation
    PROVE  GraphInv'
<1>1. PICK g \in {"cpu", "allocation"} :
        \E counts \in BOOLEAN :
            /\ trees' = [trees EXCEPT ![g] = Incremented(@, samples[next], counts)]
            /\ Adding(g) /\ Advance /\ UNCHANGED prevValues
  <2>1. CASE AddCPUSample
    BY <2>1 DEF AddCPUSample
  <2>2. CASE AddAllocation
    BY <2>2 DEF AddAllocation
  <2>3. QED
    BY <2>1, <2>2
<1>2. PICK counts \in BOOLEAN : trees' = [trees EXCEPT ![g] = Incremented(@, samples[next], counts)]
  BY <1>1
<1>3. /\ UNCHANGED <<durations, prevValues, job, samples, reported, records>> /\ next' \in Nat
      /\ job # "block"
  BY <1>1 DEF Adding, Advance, GraphInv, GraphTypeOK
<1>4. g \in Graphs /\ DOMAIN trees = Graphs /\ \A h \in Graphs : Typed(trees[h]) /\ Ordered(trees[h])
  BY DEF Graphs, GraphInv, GraphTypeOK, NoChildAbove
<1>5. /\ samples[next].frames \in Seq(Frame)
      /\ samples[next].value \in Nat /\ samples[next].count \in Nat
  BY <1>1 DEF Adding, GraphInv, GraphTypeOK
<1>6. DOMAIN trees' = Graphs /\ \A h \in Graphs : Typed(trees'[h]) /\ Ordered(trees'[h])
  BY <1>2, <1>4, <1>5, IncrementedIsTree
<1>7. trees'.http = trees.http /\ trees'.block = trees.block
  BY <1>2, <1>4 DEF Graphs
<1>8. GraphTypeOK'
  BY <1>3, <1>6 DEF GraphInv, GraphTypeOK
<1>9. NoChildAbove'
  BY <1>6, <1>7 DEF GraphInv, NoChildAbove, Within
<1>10. ReportedTree' /\ Growing'
  BY <1>3 DEF GraphInv, ReportedTree, Growing
<1>11. QED
  BY <1>8, <1>9, <1>10 DEF GraphInv

(* Of what the runtime has counted of a stack only the change is added, which  *)
(* is not negative.                                                            *)
LEMMA AddDelayKeepsInv ==
    ASSUME GraphInv, AddDelay
    PROVE  GraphInv'
<1> DEFINE s      == samples[next]
           change == Change(s)
           counts == ~s.skipped /\ change.count # 0 /\ change.value # 0
<1>1. /\ job = "block" /\ next \in DOMAIN samples
      /\ prevValues' = IF s.skipped THEN prevValues ELSE Remembering(s)
      /\ trees' = [trees EXCEPT !.block = Incremented(@, change, counts),
                                !.http  = Incremented(@, change, counts /\ s.http)]
      /\ next' = next + 1 /\ UNCHANGED <<durations, job, samples, reported, records>>
  BY DEF AddDelay, Adding, Advance
<1>2. s.frames \in Seq(Frame) /\ s.value \in Nat /\ s.count \in Nat /\ next \in Nat
  BY <1>1 DEF GraphInv, GraphTypeOK
<1>3. \A key : Seen(key).value \in Nat /\ Seen(key).count \in Nat
  BY DEF Seen, GraphInv, GraphTypeOK
<1>4. Seen(s.key).value <= s.value /\ Seen(s.key).count <= s.count
  BY <1>1, <1>2 DEF GraphInv, Growing
<1>5. /\ change.frames \in Seq(Frame)
      /\ change.value \in Nat /\ change.count \in Nat
  BY <1>2, <1>3, <1>4 DEF Change
<1>6. DOMAIN trees = Graphs /\ \A h \in Graphs : Typed(trees[h]) /\ Ordered(trees[h])
  BY DEF GraphInv, GraphTypeOK, NoChildAbove
<1>7. "block" \in Graphs /\ "http" \in Graphs
  BY DEF Graphs
<1> DEFINE block == Incremented(trees.block, change, counts)
           http  == Incremented(trees.http, change, counts /\ s.http)
<1>8. /\ DOMAIN trees' = Graphs
      /\ trees'.block = block /\ trees'.http = http
      /\ \A h \in Graphs : h \notin {"block", "http"} => trees'[h] = trees[h]
  BY <1>1, <1>6, <1>7
<1>9. Typed(block) /\ Ordered(block) /\ Typed(http) /\ Ordered(http)
  <2>1. (block = trees.block \/ block = IncrementStack(trees.block, change))
        /\ (http = trees.http \/ http = IncrementStack(trees.http, change))
    BY DEF Incremented
  <2> HIDE DEF block, http, change
  <2>2. QED
    BY <1>5, <1>6, <1>7, <2>1, IncrementKeepsTree
<1>10. Within(http, block)
  <2>1. Within(trees.http, trees.block)
    BY DEF GraphInv, NoChildAbove
  <2>2. \/ http = trees.http /\ block = trees.block
        \/ http = trees.http /\ block = IncrementStack(trees.block, change)
        \/ http = IncrementStack(trees.http, change) /\ block = IncrementStack(trees.block, change)
    BY DEF Incremented
  <2> HIDE DEF block, http, change
  <2>3. QED
    BY <1>5, <1>6, <1>7, <2>1, <2>2, IncrementKeepsWithin
<1>11. \A key \in DOMAIN prevValues' : prevValues'[key] \in [value : Nat, count : Nat]
  BY <1>1, <1>2 DEF Remembering, GraphInv, GraphTypeOK
<1>12. GraphTypeOK'
  <2>1. \A h \in Graphs : Typed(trees'[h])
    BY <1>6, <1>8, <1>9
  <2>2. next' \in Nat
    BY <1>1, <1>2
  <2> HIDE DEF s, change, counts, block, http
  <2>3. QED
    BY <1>1, <1>8, <1>11, <2>1, <2>2 DEF GraphInv, GraphTypeOK
<1>13. NoChildAbove'
  BY <1>6, <1>8, <1>9, <1>10 DEF NoChildAbove
<1>14. ReportedTree'
  BY <1>1 DEF GraphInv, ReportedTree
<1>15. Growing'
  <2>1. ASSUME NEW i \in DOMAIN samples, i >= next + 1
        PROVE  i >= next /\ samples[i].key # s.key
    BY <1>1, <1>2, <2>1 DEF GraphInv, Growing
  <2>2. \A key : key # s.key => Seen(key)' = Seen(key)
    BY <1>1 DEF Seen, Remembering
  <2>3. ASSUME NEW i \in DOMAIN samples, i >= next + 1
        PROVE  /\ Seen(samples[i].key)'.value <= samples[i].value
               /\ Seen(samples[i].key)'.count <= samples[i].count
    BY <1>1, <2>1, <2>2, <2>3 DEF GraphInv, Growing
  <2> HIDE DEF s, change, counts, block, http
  <2>4. QED
    BY <1>1, <2>3 DEF GraphInv, Growing
<1>16. QED
  BY <1>12, <1>13, <1>14, <1>15 DEF GraphInv
--------------------------------------------------------------------------------
(* What a report shows of a tree. *)
LEMMA ShownIsTree ==
    ASSUME NEW t, Typed(t), Ordered(t), NEW range,
           NEW node \in DOMAIN Shown(t, range).tree, node # <<>>
    PROVE  LET shown == Shown(t, range)
           IN /\ Parent(node) \in DOMAIN shown.tree
              /\ shown.tree[node].measurement <= shown.tree[Parent(node)].measurement
              /\ Len(node) >= 2 => InRange(shown.tree[node].measurement, shown.range)
BY FilterKeepsTree DEF Shown

(* A report empties some trees, and shows of some what the filter keeps. *)
LEMMA ReportKeepsInv ==
    ASSUME GraphInv, ReportCPU \/ ReportBlock \/ ReportAllocation
    PROVE  GraphInv'
<1>1. /\ UNCHANGED <<prevValues, samples, next, records>>
      /\ durations' \in [{"cpu", "block"} -> Nat]
      /\ job' \in {job, "none"}
      /\ DOMAIN trees' = Graphs /\ DOMAIN reported' = Graphs
  <2>1. /\ DOMAIN trees = Graphs /\ DOMAIN reported = Graphs
        /\ durations \in [{"cpu", "block"} -> Nat]
    BY DEF GraphInv, GraphTypeOK
  <2>2. CASE ReportCPU
    BY <2>1, <2>2 DEF ReportCPU
  <2>3. CASE ReportBlock
    BY <2>1, <2>3 DEF ReportBlock
  <2>4. CASE ReportAllocation
    BY <2>1, <2>4 DEF ReportAllocation
  <2>5. QED
    BY <2>2, <2>3, <2>4
<1>2. \A g \in Graphs : trees'[g] \in {trees[g], NewTree}
  BY DEF ReportCPU, ReportBlock, ReportAllocation, GraphInv, GraphTypeOK, Graphs
<1>3. Within(trees'.http, trees'.block)
  <2>1. (trees'.http = trees.http /\ trees'.block = trees.block)
        \/ (trees'.http = NewTree /\ trees'.block = NewTree)
    BY DEF ReportCPU, ReportBlock, ReportAllocation, GraphInv, GraphTypeOK, Graphs
  <2>2. QED
    BY <2>1, NewTreeIsTree DEF GraphInv, NoChildAbove
<1>4. \A g \in Graphs : reported'[g] = reported[g] \/ \E range : reported'[g] = Shown(trees[g], range)
  <2>1. CASE ReportCPU
    BY <2>1 DEF ReportCPU, GraphInv, GraphTypeOK, Graphs
  <2>2. CASE ReportBlock
    BY <2>2 DEF ReportBlock, GraphInv, GraphTypeOK, Graphs
  <2>3. CASE ReportAllocation
    BY <2>3 DEF ReportAllocation, GraphInv, GraphTypeOK, Graphs
  <2>4. QED
    BY <2>1, <2>2, <2>3
<1>5. \A g \in Graphs : Typed(trees[g]) /\ Ordered(trees[g])
  BY DEF GraphInv, GraphTypeOK, NoChildAbove
<1>6. \A g \in Graphs : Typed(trees'[g]) /\ Ordered(trees'[g])
  BY <1>2, <1>5, NewTreeIsTree
<1>7. GraphTypeOK'
  BY <1>1, <1>6 DEF GraphInv, GraphTypeOK
<1>8. NoChildAbove'
  BY <1>3, <1>6 DEF NoChildAbove
<1>9. ReportedTree'
  <2>1. ASSUME NEW g \in Graphs, NEW node \in DOMAIN reported'[g].tree, node # <<>>
        PROVE  /\ Parent(node) \in DOMAIN reported'[g].tree
               /\ reported'[g].tree[node].measurement <= reported'[g].tree[Parent(node)].measurement
               /\ Len(node) >= 2 => InRange(reported'[g].tree[node].measurement, reported'[g].range)
    <3>1. CASE reported'[g] = reported[g]
      BY <2>1, <3>1 DEF GraphInv, ReportedTree
    <3>2. ASSUME NEW range, reported'[g] = Shown(trees[g], range)
          PROVE  /\ Parent(node) \in DOMAIN reported'[g].tree
                 /\ reported'[g].tree[node].measurement <= reported'[g].tree[Parent(node)].measurement
                 /\ Len(node) >= 2 => InRange(reported'[g].tree[node].measurement, reported'[g].range)
      BY <1>5, <2>1, <3>2, ShownIsTree
    <3>3. QED
      BY <1>4, <3>1, <3>2
  <2>2. QED
    BY <2>1 DEF ReportedTree
<1>10. Growing'
  BY <1>1 DEF GraphInv, Growing, Seen
<1>11. QED
  BY <1>7, <1>8, <1>9, <1>10 DEF GraphInv
--------------------------------------------------------------------------------
LEMMA GraphSteps == GraphInv /\ [GraphNext]_graphVars => GraphInv'
<1> SUFFICES ASSUME GraphInv, [GraphNext]_graphVars PROVE GraphInv'
  OBVIOUS
<1>1. CASE ReadNext
  BY <1>1, RecordKeepsInv
<1>2. CASE AddCPUSample \/ AddAllocation
  BY <1>2, AddKeepsInv
<1>3. CASE AddDelay
  BY <1>3, AddDelayKeepsInv
<1>4. CASE ReportCPU \/ ReportBlock \/ ReportAllocation
  BY <1>4, ReportKeepsInv
<1>5. CASE UNCHANGED graphVars
  <2>1. GraphTypeOK' /\ NoChildAbove' /\ ReportedTree' /\ Growing'
    BY <1>5 DEF graphVars, GraphInv, GraphTypeOK, Typed, NoChildAbove, ReportedTree, Growing, Seen
  <2>2. QED
    BY <2>1 DEF GraphInv
<1>6. QED
  BY <1>1, <1>2, <1>3, <1>4, <1>5 DEF GraphNext

(* Type correctness: the trees hold paths of frames with natural measurements, *)
(* whatever the runtime's profiles hold (updateCPUProfile, updateBlockProfile, *)
(* createAllocationCallGraph).                                                 *)
THEOREM TypeCorrect == GraphSpec => []GraphTypeOK
<1>1. GraphInv => GraphTypeOK
  BY DEF GraphInv
<1>2. QED
  BY <1>1, GraphInitially, GraphSteps, PTL DEF GraphSpec

(* Each call graph is a tree, what is counted in a frame is at most what is     *)
(* counted in its caller, and what HTTP handlers wait for is part of all       *)
(* waiting (increment, getValueChange).                                        *)
THEOREM NoChildAboveItsParent == GraphSpec => []NoChildAbove
<1>1. GraphInv => NoChildAbove
  BY DEF GraphInv
<1>2. QED
  BY <1>1, GraphInitially, GraphSteps, PTL DEF GraphSpec

(* What a report shows is a whole tree without a node out of the range of the  *)
(* filter (report, filterLevel).                                               *)
THEOREM ReportShowsTree == GraphSpec => []ReportedTree
<1>1. GraphInv => ReportedTree
  BY DEF GraphInv
<1>2. QED
  BY <1>1, GraphInitially, GraphSteps, PTL DEF GraphSpec
-------------------------------------------------------------------------------
(* The two machines share no variable: what holds of each alone holds of both.  *)
THEOREM MachinesApart == Spec => OperationsSpec /\ GraphSpec
<1>1. Init => OperationsInit /\ GraphInit
  BY DEF Init
<1>2. [Next]_<<operationVars, graphVars>> => [OperationsNext]_operationVars
  BY DEF Next
<1>3. [Next]_<<operationVars, graphVars>> => [GraphNext]_graphVars
  BY DEF Next
<1>4. QED
  BY <1>1, <1>2, <1>3, PTL DEF Spec, OperationsSpec, GraphSpec

(* Type correctness of both machines. *)
THEOREM ProfilesTypeCorrect == Spec => []TypeOK
<1>1. ProfileTypeOK /\ GraphTypeOK => TypeOK
  BY DEF TypeOK
<1>2. QED
  BY <1>1, MachinesApart, ProfileTypeCorrect, TypeCorrect, PTL
================================================================================
