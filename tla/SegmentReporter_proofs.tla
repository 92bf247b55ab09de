------------------------- MODULE SegmentReporter_proofs -------------------------
(* Safety of SegmentReporter for any number of recorders, names, nodes, calls,   *)
(* reports and reads, any durations, and any size of the reservoir.              *)
EXTENDS SegmentReporter, FiniteSetTheorems, SequenceTheorems, TLAPS

(* A goroutine inside updateP95 holds the read lock and has a node; one that has *)
(* not entered it yet found no node in the map.                                  *)
Holding ==
    \A t \in Recorders :
        /\ pc[t] \in Updating => t \in readers
        /\ pc[t] \in {"create", "relock"} => call[t].late
        /\ pc[t] \in Updating \cup {"relock"} => call[t].node \in NodeIds

(* The nodes the report has taken out of the map never come back to it. *)
Retired == outgoing \cup {current} \cup {r.node : r \in reported}
Retirement ==
    /\ rpc \in {"measure", "reset", "propagate"} => current \in NodeIds
    /\ \A s \in Names : segmentNodes[s] # NoNode =>
          segmentNodes[s] <= allocated /\ segmentNodes[s] \notin Retired
    /\ \A n \in Retired : n <= allocated

Counted == \A n \in NodeIds : found[n] <= numSamples[n]

(* The goroutines that are about to append to a node count against its bound. *)
Appending(n) == {t \in Recorders : pc[t] = "append" /\ call[t].node = n}
Room ==
    \A n \in NodeIds :
        Len(reservoir[n]) + Cardinality(Appending(n)) <= ReservoirSize + Cardinality(Recorders) - 1

(* A reader holds the lock until it returns, and goes on to its second load only *)
(* when the entry has no mark: one that is there then was stored between the two. *)
Watched ==
    \A r \in Readers :
        /\ dpc[r] # "idle" => r \in readers
        /\ dpc[r] = "load" /\ segmentDurations[key[r]] = ReadMark => <<"load", "mark">> \in raced[r]

(* The report measures a reservoir it found filled; only a second make, by a     *)
(* call that came late, can have emptied it.                                     *)
Measured ==
    /\ rpc = "measure" =>
          made[current] >= 1 /\ (Len(reservoir[current]) > 0 \/ made[current] > 1)
    /\ rpc = "dead" => current \in NodeIds /\ made[current] > 1

(* A reservoir is made before anything is written to it.  A goroutine that is    *)
(* about to store found it full; the others can only lengthen it, unless one of  *)
(* them makes it anew, or the report has reset it, which spares the live nodes.  *)
FilledFor(t) ==
    /\ pc[t] \in {"append", "store", "count"} => made[Node(t)] >= 1
    /\ pc[t] = "store" /\ ~call[t].late /\ made[Node(t)] <= 1
          => Len(reservoir[Node(t)]) >= ReservoirSize
    /\ pc[t] = "panicked" => Node(t) \in NodeIds /\ (made[Node(t)] > 1 \/ call[t].late)
Filled == \A t \in Recorders : FilledFor(t)

(* What a reservoir holds, and what a metric reports, was recorded. *)
Recorded == {Duration[t] : t \in Recorders}
Sampled ==
    /\ reservoir \in [NodeIds -> Seq(Recorded)]
    /\ measurement \in Recorded \cup {0}
    /\ rpc = "reset" => measurement \in Recorded
    /\ \A r \in reported : r.measurement \in Recorded \cup {0}

Inv ==
    /\ TypeOK /\ Holding /\ FoundIsLive /\ Retirement /\ Counted /\ FoundAreReported
    /\ Room /\ Filled /\ Sampled /\ Measured /\ Watched /\ TakesWhatItMarks
-------------------------------------------------------------------------------
(* The place of a sample among the sorted ones: a smaller sample, and an equal *)
(* one that stands before it, come first.                                      *)
Before(s, i) == {j \in 1..Len(s) : s[j] < s[i] \/ (s[j] = s[i] /\ j <= i)}
Rank(s) == [i \in 1..Len(s) |-> Cardinality(Before(s, i))]

LEMMA RankIsBijection ==
    ASSUME NEW s \in Seq(Int)
    PROVE  /\ Rank(s) \in Bijection(1..Len(s), 1..Len(s))
           /\ \A i, j \in 1..Len(s) : Rank(s)[i] < Rank(s)[j] => s[i] <= s[j]
<1> DEFINE D == 1..Len(s)
<1>1. IsFiniteSet(D) /\ Cardinality(D) = Len(s) /\ \A i \in D : s[i] \in Int
  <2>1. Len(s) \in Nat /\ \A i \in D : s[i] \in Int
    OBVIOUS
  <2>2. IsFiniteSet(D) /\ Cardinality(D) = IF 1 > Len(s) THEN 0 ELSE Len(s) - 1 + 1
    BY <2>1, FS_Interval
  <2>3. QED
    BY <2>1, <2>2
<1>2. ASSUME NEW i \in D
      PROVE  /\ IsFiniteSet(Before(s, i)) /\ Cardinality(Before(s, i)) \in 1..Len(s)
  <2>1. Before(s, i) \in SUBSET D /\ i \in Before(s, i)
    BY <1>1 DEF Before
  <2>2. IsFiniteSet(Before(s, i)) /\ Cardinality(Before(s, i)) <= Len(s)
    BY <1>1, <2>1, FS_Subset
  <2>3. Cardinality(Before(s, i)) \in Nat /\ Cardinality(Before(s, i)) # 0
    BY <2>1, <2>2, FS_CardinalityType, FS_EmptySet
  <2>4. QED
    BY <2>2, <2>3
<1>3. ASSUME NEW i \in D, NEW j \in D, s[i] < s[j] \/ (s[i] = s[j] /\ i < j)
      PROVE  Cardinality(Before(s, i)) < Cardinality(Before(s, j))
  <2>1. Before(s, i) \in SUBSET Before(s, j)
    BY <1>1, <1>3 DEF Before
  <2>2. j \in Before(s, j) /\ j \notin Before(s, i)
    BY <1>1, <1>3 DEF Before
  <2>3. /\ Cardinality(Before(s, i)) <= Cardinality(Before(s, j))
        /\ Cardinality(Before(s, i)) # Cardinality(Before(s, j))
    BY <1>2, <2>1, <2>2, FS_Subset
  <2>4. QED
    BY <1>2, <2>3
<1>4. Rank(s) \in [D -> D] /\ \A i \in D : Rank(s)[i] = Cardinality(Before(s, i))
  BY <1>2 DEF Rank
<1>5. ASSUME NEW i \in D, NEW j \in D, Rank(s)[i] = Rank(s)[j] PROVE i = j
  <2>1. ~(s[i] < s[j] \/ (s[i] = s[j] /\ i < j)) /\ ~(s[j] < s[i] \/ (s[j] = s[i] /\ j < i))
    BY <1>2, <1>3, <1>4, <1>5
  <2>2. QED
    BY <1>1, <2>1
<1>6. Rank(s) \in Injection(D, D)
  BY <1>4, <1>5 DEF Injection, IsInjective
<1>7. Rank(s) \in Surjection(D, D)
  BY <1>1, <1>6, FS_Injection
<1>8. ASSUME NEW i \in D, NEW j \in D, Rank(s)[i] < Rank(s)[j] PROVE s[i] <= s[j]
  <2>1. ~(s[j] < s[i])
    BY <1>2, <1>3, <1>4, <1>8
  <2>2. QED
    BY <1>1, <2>1
<1>9. QED
  BY <1>6, <1>7, <1>8 DEF Bijection

(* Some order of the samples is ascending, so Sorted keeps every sample. *)
LEMMA SortExists ==
    ASSUME NEW s \in Seq(Int)
    PROVE  \E p \in Bijection(DOMAIN s, DOMAIN s) : Ascending(s, p)
<1> DEFINE D == 1..Len(s)
           r == Rank(s)
           p == [k \in D |-> CHOOSE i \in D : r[i] = k]
<1>1. DOMAIN s = D /\ r \in [D -> D]
  BY RankIsBijection DEF Bijection, Injection
<1>2. /\ \A i, j \in D : r[i] = r[j] => i = j
      /\ \A k \in D : \E i \in D : r[i] = k
  BY RankIsBijection DEF Bijection, Injection, IsInjective, Surjection
<1>3. \A k \in D : p[k] \in D /\ r[p[k]] = k
  BY <1>2
<1>4. \A i \in D : p[r[i]] = i
  BY <1>1, <1>2, <1>3
<1>5. p \in Bijection(D, D)
  <2>1. p \in [D -> D] /\ \A i, j \in D : p[i] = p[j] => i = j
    BY <1>3
  <2>2. \A i \in D : \E k \in D : p[k] = i
    BY <1>1, <1>4
  <2>3. QED
    BY <2>1, <2>2 DEF Bijection, Injection, IsInjective, Surjection
<1>6. Ascending(s, p)
  <2> HIDE DEF p
  <2> SUFFICES ASSUME NEW k \in D, NEW l \in D, k < l PROVE s[p[k]] <= s[p[l]]
    BY <1>1 DEF Ascending
  <2>1. r[p[k]] < r[p[l]]
    BY <1>3
  <2>2. QED
    BY <1>3, <2>1, RankIsBijection
<1>7. QED
  BY <1>1, <1>5, <1>6

LEMMA SortedSamples ==
    ASSUME NEW S \in SUBSET Int, NEW s \in Seq(S)
    PROVE  /\ Sorted(s) \in Seq(S) /\ Len(Sorted(s)) = Len(s)
           /\ \A i, j \in 1..Len(s) : i < j => Sorted(s)[i] <= Sorted(s)[j]
<1>1. s \in Seq(Int) /\ DOMAIN s = 1..Len(s) /\ \A i \in 1..Len(s) : s[i] \in S
  <2>1. Len(s) \in Nat /\ s \in [1..Len(s) -> S]
    OBVIOUS
  <2>2. s \in [1..Len(s) -> Int]
    BY <2>1
  <2>3. QED
    BY <2>1, <2>2, SeqDef
<1>2. PICK p \in Bijection(DOMAIN s, DOMAIN s) :
          /\ Ascending(s, p)
          /\ Sorted(s) = [i \in 1..Len(s) |-> s[p[i]]]
  BY <1>1, SortExists DEF Sorted
<1>3. p \in [1..Len(s) -> 1..Len(s)]
  BY <1>1, <1>2 DEF Bijection, Injection
<1>4. Sorted(s) \in [1..Len(s) -> S]
  BY <1>1, <1>2, <1>3
<1>5. Sorted(s) \in Seq(S) /\ Len(Sorted(s)) = Len(s)
  BY <1>4
<1>6. \A i, j \in 1..Len(s) : i < j => s[p[i]] <= s[p[j]]
  BY <1>1, <1>2 DEF Ascending
<1>7. \A i \in 1..Len(s) : Sorted(s)[i] = s[p[i]]
  BY <1>2
<1>8. QED
  BY <1>5, <1>6, <1>7

(* What evaluateP95 reads is one of the samples. *)
LEMMA P95IsSample ==
    ASSUME NEW S \in SUBSET Int, NEW s \in Seq(S), P95InRange(s)
    PROVE  P95(s) \in S
<1>1. P95Index(Len(s)) + 1 \in 1..Len(s)
  BY DEF P95InRange, P95Index
<1>2. QED
  BY <1>1, SortedSamples DEF P95
-------------------------------------------------------------------------------
LEMMA NoCallType == NoCall \in Call /\ NoCall.name \in Names
BY SegmentAssumption DEF NoCall, Call, NoNode, NodeIds

(* Create puts the node of the map, or a new one, into the map and the call. *)
LEMMA CreateEffect ==
    ASSUME TypeOK, NEW t \in Recorders, Create(t)
    PROVE  \E n \in NodeIds :
              /\ segmentNodes' = [segmentNodes EXCEPT ![call[t].name] = n]
              /\ call' = [call EXCEPT ![t].node = n]
              /\ allocated' = IF n > allocated THEN n ELSE allocated
              /\ n = allocated + 1 \/ n = segmentNodes[call[t].name]
BY DEF Create, TypeOK

(* The types by the groups of variables the actions leave alone. *)
NodesTyped ==
    /\ segmentNodes \in [Names -> NodeIds \cup {NoNode}]
    /\ readers \subseteq Recorders \cup Readers
    /\ allocated \in 0..MaxNodes
    /\ made \in [NodeIds -> Nat]
    /\ reservoir \in [NodeIds -> Seq(Nat)]
    /\ numSamples \in [NodeIds -> Nat]
DurationsTyped == segmentDurations \in [Names -> Int]
ThreadsTyped ==
    pc \in [Recorders -> Labels] /\ call \in [Recorders -> Call] /\ calls \in [Recorders -> Nat]
ReportTyped ==
    /\ rpc \in ReportLabels /\ outgoing \subseteq NodeIds /\ current \in NodeIds \cup {NoNode}
    /\ measurement \in Nat /\ reports \in Nat
ReadingTyped ==
    /\ dpc \in [Readers -> {"idle", "next", "load", "mark"}]
    /\ unread \in [Readers -> SUBSET Names] /\ key \in [Readers -> Names]
    /\ lastRead \in [Readers -> [Names -> Int]] /\ operations \in Nat
    /\ raced \in [Readers -> SUBSET ({"load", "mark"} \X {"store", "mark"})]
HistoryTyped ==
    /\ found \in [NodeIds -> Nat]
    /\ reported \subseteq [node : NodeIds, measurement : Nat, numSamples : Nat]
Parts ==
    /\ NodesTyped /\ DurationsTyped /\ ThreadsTyped /\ ReportTyped /\ ReadingTyped
    /\ HistoryTyped

LEMMA TypeParts == (TypeOK <=> Parts) /\ (TypeOK' <=> Parts')
BY DEF TypeOK, Parts, NodesTyped, DurationsTyped, ThreadsTyped, ReportTyped, ReadingTyped,
       HistoryTyped

LEMMA TypeFrames ==
    /\ UNCHANGED records => NodesTyped' = NodesTyped
    /\ UNCHANGED segmentDurations => DurationsTyped' = DurationsTyped
    /\ UNCHANGED threads => ThreadsTyped' = ThreadsTyped
    /\ UNCHANGED report => ReportTyped' = ReportTyped
    /\ UNCHANGED reading => ReadingTyped' = ReadingTyped
    /\ UNCHANGED history => HistoryTyped' = HistoryTyped
BY DEF NodesTyped, DurationsTyped, ThreadsTyped, ReportTyped, ReadingTyped, HistoryTyped,
       records, threads, report, reading, history

(* A counter that goes up stays one; a goroutine that moves has a label. *)
LEMMA CountUp ==
    ASSUME NEW S, NEW f \in [S -> Nat], NEW x
    PROVE  [f EXCEPT ![x] = @ + 1] \in [S -> Nat]
<1>1. [f EXCEPT ![x] = f[x] + 1] = [y \in S |-> IF y = x THEN f[x] + 1 ELSE f[y]]
  OBVIOUS
<1>2. \A y \in S : (IF y = x THEN f[x] + 1 ELSE f[y]) \in Nat
  OBVIOUS
<1>3. QED
  BY <1>1, <1>2

LEMMA ResetType ==
    ASSUME NEW S, NEW T, NEW f \in [S -> Seq(T)], NEW x
    PROVE  [f EXCEPT ![x] = <<>>] \in [S -> Seq(T)]
<1>1. [f EXCEPT ![x] = <<>>] = [y \in S |-> IF y = x THEN <<>> ELSE f[y]]
  OBVIOUS
<1>2. <<>> \in Seq(T) /\ \A y \in S : f[y] \in Seq(T)
  OBVIOUS
<1>3. QED
  BY <1>1, <1>2

LEMMA GotoLabel ==
    ASSUME ThreadsTyped, NEW t \in Recorders, NEW l \in Labels, Goto(t, l)
    PROVE  pc' \in [Recorders -> Labels]
BY DEF ThreadsTyped, Goto

LEMMA NotedType ==
    ASSUME ReadingTyped, NEW event \in {"store", "mark"}, NEW s
    PROVE  NotedAs(event, s) \in [Readers -> SUBSET ({"load", "mark"} \X {"store", "mark"})]
BY DEF ReadingTyped, NotedAs

(* Every action of a recorder keeps the types. *)
LEMMA RecorderTypes ==
    ASSUME Parts, Holding, NEW t \in Recorders,
           (\E s \in Names : Begin(t, s)) \/ RecordSegment(t)
    PROVE  Parts'
<1> USE SegmentAssumption DEF Parts
<1> DEFINE n == Node(t)
<1>1. call[t] \in Call /\ call[t].name \in Names /\ (pc[t] \in Updating => n \in NodeIds)
  BY DEF ThreadsTyped, Call, Holding, Node, Updating
<1>2. ASSUME NEW s \in Names, Begin(t, s) PROVE Parts'
  <2>1. ThreadsTyped'
    <3>1. pc' \in [Recorders -> Labels]
      BY <1>2, GotoLabel DEF Begin, Labels, Updating
    <3>2. call' \in [Recorders -> Call]
      BY <1>2 DEF Begin, Call, ThreadsTyped, NodesTyped
    <3>3. calls' \in [Recorders -> Nat]
      BY <1>2, CountUp DEF Begin, ThreadsTyped
    <3>4. QED
      BY <3>1, <3>2, <3>3 DEF ThreadsTyped
  <2>2. NodesTyped' /\ ReadingTyped'
    BY <1>2 DEF Begin, NodesTyped, ReadingTyped
  <2>3. QED
    BY <1>2, <2>1, <2>2, TypeFrames DEF Begin
<1>3. CASE Create(t)
  <2>1. PICK m \in NodeIds : /\ segmentNodes' = [segmentNodes EXCEPT ![call[t].name] = m]
                             /\ call' = [call EXCEPT ![t].node = m]
                             /\ allocated' = IF m > allocated THEN m ELSE allocated
    BY <1>3, TypeParts, CreateEffect
  <2>2. ThreadsTyped'
    <3>1. pc' \in [Recorders -> Labels]
      BY <1>3, GotoLabel DEF Create, Labels, Updating
    <3>2. call' = [call EXCEPT ![t] = [call[t] EXCEPT !.node = m]]
      BY <2>1
    <3>3. [call[t] EXCEPT !.node = m] \in Call
      BY <1>1 DEF Call
    <3>4. call' \in [Recorders -> Call] /\ calls' \in [Recorders -> Nat]
      BY <1>3, <3>2, <3>3 DEF ThreadsTyped, Create
    <3>5. QED
      BY <3>1, <3>4 DEF ThreadsTyped
  <2>3. NodesTyped'
    <3>1. allocated' \in 0..MaxNodes
      BY <2>1 DEF NodeIds, NodesTyped
    <3>2. QED
      BY <1>1, <1>3, <2>1, <3>1 DEF NodesTyped, Create
  <2>4. QED
    BY <1>3, <2>2, <2>3, TypeFrames DEF Create
<1>4. CASE Relock(t)
  <2>1. ThreadsTyped'
    BY <1>4, GotoLabel DEF Relock, Labels, Updating, ThreadsTyped
  <2>2. NodesTyped'
    BY <1>4 DEF Relock, NodesTyped
  <2>3. QED
    BY <1>4, <2>1, <2>2, TypeFrames DEF Relock
<1>5. CASE ReadReservoir(t)
  <2>1. Len(reservoir[n]) \in Nat
    BY <1>1, <1>5 DEF ReadReservoir, Updating, NodesTyped
  <2>2. call' = [call EXCEPT ![t] = [call[t] EXCEPT !.rLen = Len(reservoir[n])]]
    BY <1>5 DEF ReadReservoir
  <2>3. [call[t] EXCEPT !.rLen = Len(reservoir[n])] \in Call
    BY <1>1, <2>1 DEF Call
  <2>4. pc' \in [Recorders -> Labels]
    BY <1>5, GotoLabel DEF ReadReservoir, Labels, Updating
  <2>5. ThreadsTyped'
    BY <1>5, <2>2, <2>3, <2>4 DEF ThreadsTyped, ReadReservoir
  <2>6. QED
    BY <1>5, <2>5, TypeFrames DEF ReadReservoir
<1>6. CASE Make(t)
  <2>1. ThreadsTyped'
    BY <1>6, GotoLabel DEF Make, Labels, Updating, ThreadsTyped
  <2>2. made' \in [NodeIds -> Nat]
    BY <1>6, CountUp DEF Make, NodesTyped
  <2>3. reservoir' \in [NodeIds -> Seq(Nat)]
    BY <1>6, ResetType DEF Make, NodesTyped
  <2>4. NodesTyped'
    BY <1>6, <2>2, <2>3 DEF Make, NodesTyped
  <2>5. QED
    BY <1>6, <2>1, <2>4, TypeFrames DEF Make
<1>7. CASE AppendSample(t)
  <2>1. ThreadsTyped'
    BY <1>7, GotoLabel DEF AppendSample, Labels, Updating, ThreadsTyped
  <2>2. reservoir[n] \in Seq(Nat) /\ Duration[t] \in Nat
    BY <1>1, <1>7 DEF AppendSample, Updating, NodesTyped
  <2>3. Append(reservoir[n], Duration[t]) \in Seq(Nat)
    BY <2>2
  <2>4. reservoir' \in [NodeIds -> Seq(Nat)]
    BY <1>7, <2>3 DEF AppendSample, NodesTyped
  <2>5. NodesTyped'
    BY <1>7, <2>4 DEF AppendSample, NodesTyped
  <2>6. QED
    BY <1>7, <2>1, <2>5, TypeFrames DEF AppendSample
<1>8. CASE StoreSample(t)
  <2>1. ThreadsTyped'
    <3>1. PICK l \in Labels : Goto(t, l)
      BY <1>8 DEF StoreSample, Labels, Updating
    <3>2. QED
      BY <1>8, <3>1, GotoLabel DEF StoreSample, ThreadsTyped
  <2>2. reservoir[n] \in Seq(Nat) /\ Duration[t] \in Nat /\ n \in NodeIds
    BY <1>1, <1>8 DEF StoreSample, Updating, NodesTyped
  <2>3. reservoir' \in [NodeIds -> Seq(Nat)]
    <3>1. CASE reservoir' = reservoir
      BY <3>1 DEF NodesTyped
    <3>2. ASSUME NEW i \in 1..ReservoirSize, i <= Len(reservoir[n]),
                 reservoir' = [reservoir EXCEPT ![n][i] = Duration[t]]
          PROVE  reservoir' \in [NodeIds -> Seq(Nat)]
      <4>1. [reservoir[n] EXCEPT ![i] = Duration[t]] \in Seq(Nat)
        BY <2>2, <3>2, ExceptSeq
      <4>2. reservoir' = [reservoir EXCEPT ![n] = [reservoir[n] EXCEPT ![i] = Duration[t]]]
        BY <3>2
      <4>3. QED
        BY <4>1, <4>2 DEF NodesTyped
    <3>3. QED
      BY <1>8, <3>1, <3>2 DEF StoreSample
  <2>4. NodesTyped'
    BY <1>8, <2>3 DEF StoreSample, NodesTyped
  <2>5. QED
    BY <1>8, <2>1, <2>4, TypeFrames DEF StoreSample
<1>9. CASE CountSample(t)
  <2>1. ThreadsTyped'
    BY <1>9, GotoLabel DEF CountSample, Labels, Updating, ThreadsTyped
  <2>2. numSamples' \in [NodeIds -> Nat]
    BY <1>9, CountUp DEF CountSample, NodesTyped
  <2>3. found' \in [NodeIds -> Nat]
    BY <1>9, CountUp DEF CountSample, HistoryTyped
  <2>4. NodesTyped' /\ HistoryTyped'
    BY <1>9, <2>2, <2>3 DEF CountSample, NodesTyped, HistoryTyped
  <2>5. QED
    BY <1>9, <2>1, <2>4, TypeFrames DEF CountSample
<1>10. CASE StoreDuration(t)
  <2>1. pc' \in [Recorders -> Labels]
    BY <1>10, GotoLabel DEF StoreDuration, Return, Labels, Updating
  <2>2. ThreadsTyped'
    BY <1>10, <2>1, NoCallType DEF StoreDuration, Return, ThreadsTyped
  <2>3. DurationsTyped'
    BY <1>1, <1>10 DEF StoreDuration, DurationsTyped
  <2>4. ReadingTyped'
    BY <1>10, NotedType DEF StoreDuration, ReadingTyped
  <2>5. QED
    BY <1>10, <2>2, <2>3, <2>4, TypeFrames DEF StoreDuration
<1>11. CASE NewDuration(t)
  <2>1. pc' \in [Recorders -> Labels]
    BY <1>11, GotoLabel DEF NewDuration, Return, Labels, Updating
  <2>2. ThreadsTyped'
    BY <1>11, <2>1, NoCallType DEF NewDuration, Return, ThreadsTyped
  <2>3. DurationsTyped'
    BY <1>1, <1>11 DEF NewDuration, DurationsTyped
  <2>4. QED
    BY <1>11, <2>2, <2>3, TypeFrames DEF NewDuration
<1>12. QED
  BY <1>2, <1>3, <1>4, <1>5, <1>6, <1>7, <1>8, <1>9, <1>10, <1>11 DEF RecordSegment, UpdateP95

(* Every action of the report and of readLastDurations keeps the types. *)
LEMMA ReportTypes ==
    ASSUME Parts, Retirement,
           Swap \/ EvaluateP95 \/ \E r \in Readers : ReadDurations(r) \/ ReadLastDurations(r)
    PROVE  Parts'
<1> USE SegmentAssumption DEF Parts
<1>1. CASE Swap
  <2>1. LiveNodes \subseteq NodeIds
    BY DEF LiveNodes, NodesTyped
  <2>2. ReportTyped'
    BY <1>1, <2>1 DEF Swap, ReportTyped, ReportLabels
  <2>3. NodesTyped'
    BY <1>1 DEF Swap, NodesTyped
  <2>4. QED
    BY <1>1, <2>2, <2>3, TypeFrames DEF Swap
<1>2. ASSUME NEW n \in NodeIds, CheckReservoir(n) PROVE Parts'
  <2>1. ReportTyped'
    BY <1>2 DEF CheckReservoir, ReportTyped, ReportLabels
  <2>2. QED
    BY <1>2, <2>1, TypeFrames DEF CheckReservoir
<1>3. CASE Measure
  <2>1. reservoir[current] \in Seq(Nat)
    BY <1>3 DEF Measure, Retirement, NodesTyped
  <2>2. P95InRange(reservoir[current]) => P95(reservoir[current]) \in Nat
    BY <2>1, P95IsSample
  <2>3. measurement' \in Nat /\ rpc' \in ReportLabels
    BY <1>3, <2>2 DEF Measure, ReportTyped, ReportLabels
  <2>4. ReportTyped'
    BY <1>3, <2>3 DEF Measure, ReportTyped
  <2>5. QED
    BY <1>3, <2>4, TypeFrames DEF Measure
<1>4. CASE ResetReservoir
  <2>1. reservoir' \in [NodeIds -> Seq(Nat)]
    BY <1>4, ResetType DEF ResetReservoir, NodesTyped
  <2>2. NodesTyped'
    BY <1>4, <2>1 DEF ResetReservoir, NodesTyped
  <2>3. ReportTyped'
    BY <1>4 DEF ResetReservoir, ReportTyped, ReportLabels
  <2>4. QED
    BY <1>4, <2>2, <2>3, TypeFrames DEF ResetReservoir
<1>5. CASE Propagate
  <2>1. current \in NodeIds /\ numSamples[current] \in Nat /\ measurement \in Nat
    BY <1>5 DEF Propagate, Retirement, NodesTyped, ReportTyped
  <2>2. HistoryTyped'
    BY <1>5, <2>1 DEF Propagate, HistoryTyped
  <2>3. ReportTyped'
    BY <1>5 DEF Propagate, ReportTyped, ReportLabels
  <2>4. QED
    BY <1>5, <2>2, <2>3, TypeFrames DEF Propagate
<1>6. ASSUME NEW r \in Readers, ReadDurations(r) PROVE Parts'
  <2>1. ReadingTyped'
    BY <1>6 DEF ReadDurations, GotoRead, ReadingTyped, Absent
  <2>2. NodesTyped'
    BY <1>6 DEF ReadDurations, NodesTyped
  <2>3. QED
    BY <1>6, <2>1, <2>2, TypeFrames DEF ReadDurations
<1>7. ASSUME NEW r \in Readers, NEW s \in Names, FirstLoad(r, s) PROVE Parts'
  <2>1. ReadingTyped'
    BY <1>7 DEF FirstLoad, GotoRead, ReadingTyped
  <2>2. QED
    BY <1>7, <2>1, TypeFrames DEF FirstLoad
<1>8. ASSUME NEW r \in Readers, SecondLoad(r) PROVE Parts'
  <2>1. key[r] \in Names /\ segmentDurations[key[r]] \in Int /\ lastRead[r] \in [Names -> Int]
    BY DEF ReadingTyped, DurationsTyped
  <2>2. lastRead' = [lastRead EXCEPT ![r] = [lastRead[r] EXCEPT ![key[r]] = segmentDurations[key[r]]]]
    BY <1>8 DEF SecondLoad
  <2>3. lastRead' \in [Readers -> [Names -> Int]]
    BY <2>1, <2>2 DEF ReadingTyped
  <2>4. ReadingTyped'
    BY <1>8, <2>3 DEF SecondLoad, GotoRead, ReadingTyped
  <2>5. QED
    BY <1>8, <2>4, TypeFrames DEF SecondLoad
<1>9. ASSUME NEW r \in Readers, MarkRead(r) PROVE Parts'
  <2>1. raced' \in [Readers -> SUBSET ({"load", "mark"} \X {"store", "mark"})]
    BY <1>9, NotedType DEF MarkRead
  <2>2. ReadingTyped'
    BY <1>9, <2>1 DEF MarkRead, GotoRead, ReadingTyped
  <2>3. DurationsTyped'
    <3>1. segmentDurations' = [segmentDurations EXCEPT ![key[r]] = ReadMark] /\ ReadMark \in Int
      BY <1>9 DEF MarkRead, ReadMark
    <3>2. QED
      BY <3>1 DEF DurationsTyped
  <2>4. QED
    BY <1>9, <2>2, <2>3, TypeFrames DEF MarkRead
<1>10. ASSUME NEW r \in Readers, ReadReturns(r) PROVE Parts'
  <2>1. NothingRead \in [Names -> Int]
    BY DEF NothingRead, Absent
  <2>2. ReadingTyped'
    BY <1>10, <2>1 DEF ReadReturns, GotoRead, ReadingTyped
  <2>3. NodesTyped'
    BY <1>10 DEF ReadReturns, NodesTyped
  <2>4. QED
    BY <1>10, <2>2, <2>3, TypeFrames DEF ReadReturns
<1>11. QED
  BY <1>1, <1>2, <1>3, <1>4, <1>5, <1>6, <1>7, <1>8, <1>9, <1>10
     DEF EvaluateP95, ReadLastDurations

LEMMA TypeStep == Inv /\ [Next]_vars => TypeOK'
<1> SUFFICES ASSUME Inv, [Next]_vars PROVE Parts'
  BY TypeParts
<1>1. Parts /\ Holding /\ Retirement
  BY TypeParts DEF Inv
<1>2. CASE UNCHANGED vars
  BY <1>1, <1>2, TypeFrames DEF Parts, vars
<1>3. QED
  BY <1>1, <1>2, RecorderTypes, ReportTypes DEF Next, BoundReached

(* The read lock is given back only after the sample is counted. *)
LEMMA HoldingStep == Inv /\ [Next]_vars => Holding'
<1> SUFFICES ASSUME Inv, [Next]_vars PROVE Holding'
    OBVIOUS
<1>0. /\ segmentNodes \in [Names -> NodeIds \cup {NoNode}]
      /\ pc \in [Recorders -> Labels] /\ call \in [Recorders -> Call]
      /\ current \in NodeIds \cup {NoNode} /\ outgoing \subseteq NodeIds
      /\ Holding
    BY DEF Inv, TypeOK
<1> USE SegmentAssumption, <1>0 DEF Holding, Labels, Updating, Call, NodeIds, NoNode, records, threads, report, reading, history, Goto, Return, Node
<1>1. ASSUME NEW t \in Recorders, NEW s \in Names, Begin(t, s) PROVE Holding'
  <2>1. ASSUME NEW u \in Recorders, u # t
        PROVE pc'[u] = pc[u] /\ call'[u] = call[u] /\ (u \in readers => u \in readers')
    BY <1>1, <2>1 DEF Begin
  <2>2. call'[t].node = segmentNodes[s] /\ call'[t].late = (segmentNodes[s] = NoNode)
    BY <1>1 DEF Begin
  <2>3. \/ pc'[t] = "update" /\ t \in readers' /\ segmentNodes[s] # NoNode
        \/ pc'[t] = "create" /\ segmentNodes[s] = NoNode
    BY <1>1 DEF Begin
  <2>4. QED
    BY <2>1, <2>2, <2>3
<1>2. ASSUME NEW t \in Recorders, Create(t) PROVE Holding'
    BY <1>2, NoCallType DEF Create
<1>3. ASSUME NEW t \in Recorders, Relock(t) PROVE Holding'
    BY <1>3, NoCallType DEF Relock
<1>4. ASSUME NEW t \in Recorders, ReadReservoir(t) PROVE Holding'
    BY <1>4, NoCallType DEF ReadReservoir
<1>5. ASSUME NEW t \in Recorders, Make(t) PROVE Holding'
    BY <1>5, NoCallType DEF Make
<1>6. ASSUME NEW t \in Recorders, AppendSample(t) PROVE Holding'
    BY <1>6, NoCallType DEF AppendSample
<1>7. ASSUME NEW t \in Recorders, StoreSample(t) PROVE Holding'
    BY <1>7, NoCallType DEF StoreSample
<1>8. ASSUME NEW t \in Recorders, CountSample(t) PROVE Holding'
    BY <1>8, NoCallType DEF CountSample
<1>9. ASSUME NEW t \in Recorders, StoreDuration(t) PROVE Holding'
  <2>1. ASSUME NEW u \in Recorders, u # t
        PROVE pc'[u] = pc[u] /\ call'[u] = call[u] /\ (u \in readers => u \in readers')
    BY <1>9, <2>1 DEF StoreDuration
  <2>2. pc'[t] \in {"idle", "newDuration"}
    BY <1>9 DEF StoreDuration
  <2>3. QED
    BY <2>1, <2>2
<1>10. ASSUME NEW t \in Recorders, NewDuration(t) PROVE Holding'
    BY <1>10, NoCallType DEF NewDuration
<1>11. ASSUME NEW n \in NodeIds, CheckReservoir(n) PROVE Holding'
    BY <1>11, NoCallType DEF CheckReservoir
<1>12. ASSUME NEW r \in Readers, NEW s \in Names, FirstLoad(r, s) PROVE Holding'
    BY <1>12, NoCallType DEF FirstLoad
<1>13. CASE Swap
    BY <1>13, NoCallType DEF Swap
<1>14. CASE Measure
    BY <1>14, NoCallType DEF Measure
<1>15. CASE ResetReservoir
    BY <1>15, NoCallType DEF ResetReservoir
<1>16. CASE Propagate
    BY <1>16, NoCallType DEF Propagate
<1>17. ASSUME NEW r \in Readers, ReadDurations(r) PROVE Holding'
    BY <1>17, NoCallType DEF ReadDurations
<1>18. ASSUME NEW r \in Readers, SecondLoad(r) PROVE Holding'
    BY <1>18, NoCallType DEF SecondLoad
<1>19. ASSUME NEW r \in Readers, MarkRead(r) PROVE Holding'
    BY <1>19, NoCallType DEF MarkRead
<1>20. ASSUME NEW r \in Readers, ReadReturns(r) PROVE Holding'
    BY <1>20, NoCallType DEF ReadReturns
<1>21. CASE UNCHANGED vars
    BY <1>21, NoCallType DEF vars
<1>22. QED
    BY <1>1, <1>2, <1>3, <1>4, <1>5, <1>6, <1>7, <1>8, <1>9, <1>10, <1>11, <1>12, <1>13, <1>14, <1>15, <1>16, <1>17, <1>18, <1>19, <1>20, <1>21
       DEF Next, RecordSegment, UpdateP95, EvaluateP95, ReadLastDurations, BoundReached

(* Only Swap and Create write the map: Swap waits for the readers, Create fills *)
(* a name that has no node.                                                      *)
LEMMA FoundIsLiveStep == Inv /\ [Next]_vars => FoundIsLive'
<1> SUFFICES ASSUME Inv, [Next]_vars PROVE FoundIsLive'
    OBVIOUS
<1>0. /\ segmentNodes \in [Names -> NodeIds \cup {NoNode}]
      /\ pc \in [Recorders -> Labels] /\ call \in [Recorders -> Call]
      /\ current \in NodeIds \cup {NoNode} /\ outgoing \subseteq NodeIds
      /\ Holding /\ FoundIsLive
    BY DEF Inv, TypeOK
<1> USE SegmentAssumption, <1>0 DEF Holding, FoundIsLive, Labels, Updating, Call, NodeIds, NoNode, records, threads, report, reading, history, Goto, Return, Node
<1>1. ASSUME NEW t \in Recorders, NEW s \in Names, Begin(t, s) PROVE FoundIsLive'
    BY <1>1, NoCallType DEF Begin
<1>2. ASSUME NEW t \in Recorders, Create(t) PROVE FoundIsLive'
    BY <1>2, NoCallType DEF Create
<1>3. ASSUME NEW t \in Recorders, Relock(t) PROVE FoundIsLive'
    BY <1>3, NoCallType DEF Relock
<1>4. ASSUME NEW t \in Recorders, ReadReservoir(t) PROVE FoundIsLive'
    BY <1>4, NoCallType DEF ReadReservoir
<1>5. ASSUME NEW t \in Recorders, Make(t) PROVE FoundIsLive'
    BY <1>5, NoCallType DEF Make
<1>6. ASSUME NEW t \in Recorders, AppendSample(t) PROVE FoundIsLive'
    BY <1>6, NoCallType DEF AppendSample
<1>7. ASSUME NEW t \in Recorders, StoreSample(t) PROVE FoundIsLive'
    BY <1>7, NoCallType DEF StoreSample
<1>8. ASSUME NEW t \in Recorders, CountSample(t) PROVE FoundIsLive'
    BY <1>8, NoCallType DEF CountSample
<1>9. ASSUME NEW t \in Recorders, StoreDuration(t) PROVE FoundIsLive'
  <2>1. ASSUME NEW u \in Recorders, u # t
        PROVE pc'[u] = pc[u] /\ call'[u] = call[u]
    BY <1>9, <2>1 DEF StoreDuration
  <2>2. pc'[t] \in {"idle", "newDuration"} /\ segmentNodes' = segmentNodes
    BY <1>9 DEF StoreDuration
  <2>3. QED
    BY <2>1, <2>2
<1>10. ASSUME NEW t \in Recorders, NewDuration(t) PROVE FoundIsLive'
    BY <1>10, NoCallType DEF NewDuration
<1>11. ASSUME NEW n \in NodeIds, CheckReservoir(n) PROVE FoundIsLive'
    BY <1>11, NoCallType DEF CheckReservoir
<1>12. ASSUME NEW r \in Readers, NEW s \in Names, FirstLoad(r, s) PROVE FoundIsLive'
    BY <1>12, NoCallType DEF FirstLoad
<1>13. CASE Swap
    BY <1>13, NoCallType DEF Swap
<1>14. CASE Measure
    BY <1>14, NoCallType DEF Measure
<1>15. CASE ResetReservoir
    BY <1>15, NoCallType DEF ResetReservoir
<1>16. CASE Propagate
    BY <1>16, NoCallType DEF Propagate
<1>17. ASSUME NEW r \in Readers, ReadDurations(r) PROVE FoundIsLive'
    BY <1>17, NoCallType DEF ReadDurations
<1>18. ASSUME NEW r \in Readers, SecondLoad(r) PROVE FoundIsLive'
    BY <1>18, NoCallType DEF SecondLoad
<1>19. ASSUME NEW r \in Readers, MarkRead(r) PROVE FoundIsLive'
    BY <1>19, NoCallType DEF MarkRead
<1>20. ASSUME NEW r \in Readers, ReadReturns(r) PROVE FoundIsLive'
    BY <1>20, NoCallType DEF ReadReturns
<1>21. CASE UNCHANGED vars
    BY <1>21, NoCallType DEF vars
<1>22. QED
    BY <1>1, <1>2, <1>3, <1>4, <1>5, <1>6, <1>7, <1>8, <1>9, <1>10, <1>11, <1>12, <1>13, <1>14, <1>15, <1>16, <1>17, <1>18, <1>19, <1>20, <1>21
       DEF Next, RecordSegment, UpdateP95, EvaluateP95, ReadLastDurations, BoundReached

(* A new node is numbered above every node there was, so no retired one returns. *)
LEMMA RetirementStep == Inv /\ [Next]_vars => Retirement'
<1> SUFFICES ASSUME Inv, [Next]_vars PROVE Retirement'
    OBVIOUS
<1> USE SegmentAssumption DEF Inv
<1>1. ASSUME NEW t \in Recorders, NEW s \in Names, Begin(t, s) PROVE Retirement'
    BY <1>1 DEF Begin, Retirement, Retired, TypeOK, records, threads, report, reading, history
<1>2. ASSUME NEW t \in Recorders, Create(t) PROVE Retirement'
  <2>1. PICK n \in NodeIds : /\ segmentNodes' = [segmentNodes EXCEPT ![call[t].name] = n]
                             /\ call' = [call EXCEPT ![t].node = n]
                             /\ allocated' = IF n > allocated THEN n ELSE allocated
                             /\ n = allocated + 1 \/ n = segmentNodes[call[t].name]
    BY <1>2, CreateEffect
  <2>2. call[t].name \in Names
    BY DEF TypeOK, Call
  <2>3. Retired' = Retired /\ rpc' = rpc /\ current' = current
    BY <1>2 DEF Create, Retired, report, history
  <2>4. allocated \in Nat /\ n # NoNode /\ \A m \in Retired : m <= allocated
    BY DEF TypeOK, Retirement, NodeIds, NoNode
  <2>5. allocated <= allocated' /\ n <= allocated' /\ allocated' \in Nat
    BY <2>1, <2>4 DEF NodeIds
  <2>6. n \notin Retired
    <3>1. CASE n = allocated + 1
      BY <2>4, <3>1
    <3>2. CASE n = segmentNodes[call[t].name]
      BY <2>2, <2>4, <3>2 DEF Retirement
    <3>3. QED
      BY <2>1, <3>1, <3>2
  <2>7. \A m \in Retired : m \in Int
    BY DEF TypeOK, Retired, NodeIds, NoNode
  <2>8. ASSUME NEW s \in Names, segmentNodes'[s] # NoNode
        PROVE segmentNodes'[s] <= allocated' /\ segmentNodes'[s] \notin Retired
    <3>1. CASE s = call[t].name
      BY <2>1, <2>2, <2>5, <2>6, <3>1 DEF TypeOK
    <3>2. CASE s # call[t].name
      <4>1. segmentNodes'[s] = segmentNodes[s] /\ segmentNodes[s] \in Int
        BY <2>1, <2>2, <3>2 DEF TypeOK, NodeIds, NoNode
      <4>2. QED
        BY <2>4, <2>5, <2>8, <4>1 DEF Retirement
    <3>3. QED
      BY <3>1, <3>2
  <2>9. \A m \in Retired : m <= allocated'
    BY <2>4, <2>5, <2>7
  <2>10. QED
    BY <2>3, <2>8, <2>9 DEF Retirement
<1>3. ASSUME NEW t \in Recorders, Relock(t) PROVE Retirement'
    BY <1>3 DEF Relock, Retirement, Retired, TypeOK, records, threads, report, reading, history
<1>4. ASSUME NEW t \in Recorders, ReadReservoir(t) PROVE Retirement'
    BY <1>4 DEF ReadReservoir, Retirement, Retired, TypeOK, records, threads, report, reading, history
<1>5. ASSUME NEW t \in Recorders, Make(t) PROVE Retirement'
    BY <1>5 DEF Make, Retirement, Retired, TypeOK, records, threads, report, reading, history
<1>6. ASSUME NEW t \in Recorders, AppendSample(t) PROVE Retirement'
    BY <1>6 DEF AppendSample, Retirement, Retired, TypeOK, records, threads, report, reading, history
<1>7. ASSUME NEW t \in Recorders, StoreSample(t) PROVE Retirement'
    BY <1>7 DEF StoreSample, Retirement, Retired, TypeOK, records, threads, report, reading, history
<1>8. ASSUME NEW t \in Recorders, CountSample(t) PROVE Retirement'
    BY <1>8 DEF CountSample, Retirement, Retired, TypeOK, records, threads, report, reading, history
<1>9. ASSUME NEW t \in Recorders, StoreDuration(t) PROVE Retirement'
    BY <1>9 DEF StoreDuration, Retirement, Retired, TypeOK, records, threads, report, reading, history
<1>10. ASSUME NEW t \in Recorders, NewDuration(t) PROVE Retirement'
    BY <1>10 DEF NewDuration, Retirement, Retired, TypeOK, records, threads, report, reading, history
<1>11. ASSUME NEW n \in NodeIds, CheckReservoir(n) PROVE Retirement'
  <2>1. Retired' \subseteq Retired /\ current' \in NodeIds
    BY <1>11 DEF CheckReservoir, Retired, history
  <2>2. segmentNodes' = segmentNodes /\ allocated' = allocated
    BY <1>11 DEF CheckReservoir, records
  <2>3. QED
    BY <2>1, <2>2 DEF Retirement
<1>12. ASSUME NEW r \in Readers, NEW s \in Names, FirstLoad(r, s) PROVE Retirement'
    BY <1>12 DEF FirstLoad, Retirement, Retired, TypeOK, records, threads, report, reading, history
<1>13. CASE Swap
  <2>1. Retired' \subseteq Retired \cup LiveNodes
    BY <1>13 DEF Swap, Retired, history
  <2>2. \A s \in Names : segmentNodes'[s] = NoNode
    BY <1>13 DEF Swap
  <2>3. rpc' \in {"idle", "check"} /\ allocated' = allocated
    BY <1>13 DEF Swap
  <2>4. QED
    BY <2>1, <2>2, <2>3 DEF Retirement, LiveNodes
<1>14. CASE Measure
    BY <1>14 DEF Measure, Retirement, Retired, TypeOK, records, threads, report, reading, history
<1>15. CASE ResetReservoir
    BY <1>15 DEF ResetReservoir, Retirement, Retired, TypeOK, records, threads, report, reading, history
<1>16. CASE Propagate
  <2>1. Retired' \subseteq Retired \cup {NoNode}
    BY <1>16 DEF Propagate, Retired
  <2>2. segmentNodes' = segmentNodes /\ allocated' = allocated /\ rpc' \in {"idle", "check"}
    BY <1>16 DEF Propagate, records
  <2>3. NoNode <= allocated
    BY DEF TypeOK, NoNode
  <2>4. QED
    BY <2>1, <2>2, <2>3 DEF Retirement
<1>17. ASSUME NEW r \in Readers, ReadDurations(r) PROVE Retirement'
    BY <1>17 DEF ReadDurations, Retirement, Retired, TypeOK, records, threads, report, reading, history
<1>18. ASSUME NEW r \in Readers, SecondLoad(r) PROVE Retirement'
    BY <1>18 DEF SecondLoad, Retirement, Retired, TypeOK, records, threads, report, reading, history
<1>19. ASSUME NEW r \in Readers, MarkRead(r) PROVE Retirement'
    BY <1>19 DEF MarkRead, Retirement, Retired, TypeOK, records, threads, report, reading, history
<1>20. ASSUME NEW r \in Readers, ReadReturns(r) PROVE Retirement'
    BY <1>20 DEF ReadReturns, Retirement, Retired, TypeOK, records, threads, report, reading, history
<1>21. CASE UNCHANGED vars
    BY <1>21 DEF vars, Retirement, Retired, TypeOK, records, threads, report, reading, history
<1>22. QED
    BY <1>1, <1>2, <1>3, <1>4, <1>5, <1>6, <1>7, <1>8, <1>9, <1>10, <1>11, <1>12, <1>13, <1>14, <1>15, <1>16, <1>17, <1>18, <1>19, <1>20, <1>21
       DEF Next, RecordSegment, UpdateP95, EvaluateP95, ReadLastDurations, BoundReached

(* A sample counted in found is counted in numSamples, and a retired node gets *)
(* none: its caller found it in the map.                                        *)
LEMMA CountsStep == Inv /\ [Next]_vars => (Counted /\ FoundAreReported)'
<1> SUFFICES ASSUME Inv, [Next]_vars PROVE (Counted /\ FoundAreReported)'
    OBVIOUS
<1> USE SegmentAssumption DEF Inv
<1>1. ASSUME NEW t \in Recorders, NEW s \in Names, Begin(t, s) PROVE (Counted /\ FoundAreReported)'
    BY <1>1 DEF Begin, Counted, FoundAreReported, records, threads, report, reading, history
<1>2. ASSUME NEW t \in Recorders, Create(t) PROVE (Counted /\ FoundAreReported)'
    BY <1>2 DEF Create, Counted, FoundAreReported, records, threads, report, reading, history
<1>3. ASSUME NEW t \in Recorders, Relock(t) PROVE (Counted /\ FoundAreReported)'
    BY <1>3 DEF Relock, Counted, FoundAreReported, records, threads, report, reading, history
<1>4. ASSUME NEW t \in Recorders, ReadReservoir(t) PROVE (Counted /\ FoundAreReported)'
    BY <1>4 DEF ReadReservoir, Counted, FoundAreReported, records, threads, report, reading, history
<1>5. ASSUME NEW t \in Recorders, Make(t) PROVE (Counted /\ FoundAreReported)'
    BY <1>5 DEF Make, Counted, FoundAreReported, records, threads, report, reading, history
<1>6. ASSUME NEW t \in Recorders, AppendSample(t) PROVE (Counted /\ FoundAreReported)'
    BY <1>6 DEF AppendSample, Counted, FoundAreReported, records, threads, report, reading, history
<1>7. ASSUME NEW t \in Recorders, StoreSample(t) PROVE (Counted /\ FoundAreReported)'
    BY <1>7 DEF StoreSample, Counted, FoundAreReported, records, threads, report, reading, history
<1>8. ASSUME NEW t \in Recorders, CountSample(t) PROVE (Counted /\ FoundAreReported)'
  <2>1. Node(t) \in NodeIds /\ call[t].name \in Names
    BY <1>8 DEF CountSample, Call, Node, TypeOK, Holding, Updating
  <2>2. numSamples' = [numSamples EXCEPT ![Node(t)] = @ + 1] /\ reported' = reported
    BY <1>8 DEF CountSample
  <2>3. found' = found \/ found' = [found EXCEPT ![Node(t)] = @ + 1]
    BY <1>8 DEF CountSample
  <2>4. ASSUME found' # found PROVE \A r \in reported : r.node # Node(t)
    <3>1. ~call[t].late /\ pc[t] = "count"
      BY <1>8, <2>4 DEF CountSample
    <3>2. segmentNodes[call[t].name] = Node(t)
      BY <3>1 DEF FoundIsLive, Updating, Node
    <3>3. Node(t) \notin Retired
      BY <2>1, <3>2 DEF Retirement, NodeIds, NoNode
    <3>4. QED
      BY <3>3 DEF Retired
  <2>5. Counted'
    <3>1. ASSUME NEW n \in NodeIds PROVE found'[n] <= numSamples'[n]
      <4>1. /\ numSamples \in [NodeIds -> Nat] /\ found \in [NodeIds -> Nat]
            /\ found[n] <= numSamples[n]
        BY DEF TypeOK, Counted
      <4>2. CASE n = Node(t)
        BY <2>1, <2>2, <2>3, <4>1, <4>2
      <4>3. CASE n # Node(t)
        BY <2>1, <2>2, <2>3, <4>1, <4>3
      <4>4. QED
        BY <4>2, <4>3
    <3>2. QED
      BY <3>1 DEF Counted
  <2>6. ASSUME NEW r \in reported
        PROVE found'[r.node] <= r.numSamples /\ r.numSamples <= numSamples'[r.node]
    <3>1. r.node \in NodeIds /\ r.numSamples \in Nat
      BY DEF TypeOK
    <3>2. found[r.node] <= r.numSamples /\ r.numSamples <= numSamples[r.node]
      BY DEF FoundAreReported
    <3>3. found'[r.node] = found[r.node]
      BY <2>1, <2>3, <2>4, <3>1 DEF TypeOK
    <3>4. numSamples \in [NodeIds -> Nat]
      BY DEF TypeOK
    <3>5. numSamples'[r.node] \in {numSamples[r.node], numSamples[r.node] + 1}
      BY <2>1, <2>2, <3>1, <3>4
    <3>6. QED
      BY <3>1, <3>2, <3>3, <3>4, <3>5
  <2>7. QED
    BY <2>2, <2>5, <2>6 DEF FoundAreReported
<1>9. ASSUME NEW t \in Recorders, StoreDuration(t) PROVE (Counted /\ FoundAreReported)'
    BY <1>9 DEF StoreDuration, Counted, FoundAreReported, records, threads, report, reading, history
<1>10. ASSUME NEW t \in Recorders, NewDuration(t) PROVE (Counted /\ FoundAreReported)'
    BY <1>10 DEF NewDuration, Counted, FoundAreReported, records, threads, report, reading, history
<1>11. ASSUME NEW n \in NodeIds, CheckReservoir(n) PROVE (Counted /\ FoundAreReported)'
    BY <1>11 DEF CheckReservoir, Counted, FoundAreReported, records, threads, report, reading, history
<1>12. ASSUME NEW r \in Readers, NEW s \in Names, FirstLoad(r, s) PROVE (Counted /\ FoundAreReported)'
    BY <1>12 DEF FirstLoad, Counted, FoundAreReported, records, threads, report, reading, history
<1>13. CASE Swap
    BY <1>13 DEF Swap, Counted, FoundAreReported, records, threads, report, reading, history
<1>14. CASE Measure
    BY <1>14 DEF Measure, Counted, FoundAreReported, records, threads, report, reading, history
<1>15. CASE ResetReservoir
    BY <1>15 DEF ResetReservoir, Counted, FoundAreReported, records, threads, report, reading, history
<1>16. CASE Propagate
  <2>1. current \in NodeIds /\ found' = found /\ numSamples' = numSamples
    BY <1>16 DEF Propagate, Retirement, records
  <2>2. ASSUME NEW r \in reported', r \notin reported
        PROVE r.node = current /\ r.numSamples = numSamples[current]
    BY <1>16, <2>2 DEF Propagate
  <2>3. Counted'
    BY <2>1 DEF Counted
  <2>4. \A r \in reported' : found[r.node] <= r.numSamples /\ r.numSamples <= numSamples[r.node]
    BY <2>1, <2>2 DEF TypeOK, Counted, FoundAreReported
  <2>5. QED
    BY <2>1, <2>3, <2>4 DEF FoundAreReported
<1>17. ASSUME NEW r \in Readers, ReadDurations(r) PROVE (Counted /\ FoundAreReported)'
    BY <1>17 DEF ReadDurations, Counted, FoundAreReported, records, threads, report, reading, history
<1>18. ASSUME NEW r \in Readers, SecondLoad(r) PROVE (Counted /\ FoundAreReported)'
    BY <1>18 DEF SecondLoad, Counted, FoundAreReported, records, threads, report, reading, history
<1>19. ASSUME NEW r \in Readers, MarkRead(r) PROVE (Counted /\ FoundAreReported)'
    BY <1>19 DEF MarkRead, Counted, FoundAreReported, records, threads, report, reading, history
<1>20. ASSUME NEW r \in Readers, ReadReturns(r) PROVE (Counted /\ FoundAreReported)'
    BY <1>20 DEF ReadReturns, Counted, FoundAreReported, records, threads, report, reading, history
<1>21. CASE UNCHANGED vars
    BY <1>21 DEF vars, Counted, FoundAreReported, records, threads, report, reading, history
<1>22. QED
    BY <1>1, <1>2, <1>3, <1>4, <1>5, <1>6, <1>7, <1>8, <1>9, <1>10, <1>11, <1>12, <1>13, <1>14, <1>15, <1>16, <1>17, <1>18, <1>19, <1>20, <1>21
       DEF Next, RecordSegment, UpdateP95, EvaluateP95, ReadLastDurations, BoundReached

(* The actions that touch no entry and no reader. *)
LEMMA WatchedFrame ==
    ASSUME Watched, TakesWhatItMarks, readers \cap Readers \subseteq readers',
           UNCHANGED <<dpc, key, lastRead, raced, segmentDurations>>
    PROVE  (Watched /\ TakesWhatItMarks)'
BY DEF Watched, TakesWhatItMarks

(* A step of reader r leaves the others alone; it only notes at theirs. *)
LEMMA ReaderSteps ==
    ASSUME TypeOK, NEW r \in Readers, ReadDurations(r) \/ ReadLastDurations(r),
           NEW u \in Readers, u # r
    PROVE  /\ dpc'[u] = dpc[u] /\ key'[u] = key[u] /\ lastRead'[u] = lastRead[u]
           /\ raced[u] \subseteq raced'[u] /\ (u \in readers => u \in readers')
<1> USE DEF TypeOK, GotoRead, records, reading
<1>1. CASE ReadDurations(r)
  BY <1>1 DEF ReadDurations
<1>2. ASSUME NEW s \in Names, FirstLoad(r, s)
      PROVE  /\ dpc'[u] = dpc[u] /\ key'[u] = key[u] /\ lastRead'[u] = lastRead[u]
             /\ raced[u] \subseteq raced'[u] /\ (u \in readers => u \in readers')
  BY <1>2 DEF FirstLoad
<1>3. CASE SecondLoad(r)
  BY <1>3 DEF SecondLoad
<1>4. CASE MarkRead(r)
  BY <1>4 DEF MarkRead, NotedAs
<1>5. CASE ReadReturns(r)
  BY <1>5 DEF ReadReturns
<1>6. QED
  BY <1>1, <1>2, <1>3, <1>4, <1>5 DEF ReadLastDurations

(* The mark is stored by readers alone, and every store into an entry is noted  *)
(* for the readers that are at it.                                               *)
LEMMA MarksStep == Inv /\ [Next]_vars => (Watched /\ TakesWhatItMarks)'
<1> SUFFICES ASSUME Inv, [Next]_vars PROVE (Watched /\ TakesWhatItMarks)'
  OBVIOUS
<1>1. /\ TypeOK /\ Watched /\ TakesWhatItMarks /\ Readers \cap Recorders = {}
      /\ \A t \in Recorders : Duration[t] # ReadMark
  BY SegmentAssumption DEF Inv, ReadMark
<1>2. ASSUME NEW t \in Recorders,
             \/ \E s \in Names : Begin(t, s)
             \/ Create(t) \/ Relock(t) \/ UpdateP95(t)
      PROVE  (Watched /\ TakesWhatItMarks)'
  <2>1. UNCHANGED <<dpc, key, lastRead, raced, segmentDurations>>
    BY <1>2 DEF Begin, Create, Relock, UpdateP95, ReadReservoir, Make, AppendSample, StoreSample,
                CountSample, reading
  <2>2. readers' \in {readers, readers \cup {t}, readers \ {t}}
    BY <1>2 DEF Begin, Create, Relock, UpdateP95, ReadReservoir, Make, AppendSample, StoreSample,
                CountSample, records
  <2>3. readers \cap Readers \subseteq readers'
    BY <1>1, <2>2
  <2>4. QED
    BY <1>1, <2>1, <2>3, WatchedFrame
<1>3. ASSUME NEW t \in Recorders, StoreDuration(t) PROVE (Watched /\ TakesWhatItMarks)'
  <2> DEFINE s == call[t].name
  <2>1. UNCHANGED <<readers, dpc, key, lastRead>> /\ s \in Names
    BY <1>1, <1>3 DEF StoreDuration, records, TypeOK, Call
  <2>2. CASE UNCHANGED <<segmentDurations, raced>>
    BY <1>1, <2>1, <2>2, WatchedFrame
  <2>3. CASE segmentDurations' = [segmentDurations EXCEPT ![s] = Duration[t]] /\ raced' = NotedAs("store", s)
    <3>1. ASSUME NEW r \in Readers
          PROVE  /\ raced[r] \subseteq raced'[r]
                 /\ dpc[r] \in {"load", "mark"} =>
                       \/ key[r] # s /\ segmentDurations'[key[r]] = segmentDurations[key[r]]
                       \/ segmentDurations'[key[r]] # ReadMark /\ <<dpc[r], "store">> \in raced'[r]
      BY <1>1, <2>1, <2>3 DEF NotedAs, TypeOK
    <3>2. QED
      BY <1>1, <2>1, <3>1 DEF Watched, TakesWhatItMarks
  <2>4. QED
    BY <1>3, <2>2, <2>3 DEF StoreDuration
<1>4. ASSUME NEW t \in Recorders, NewDuration(t) PROVE (Watched /\ TakesWhatItMarks)'
  <2>1. UNCHANGED <<dpc, readers>> /\ readers = {}
    BY <1>4 DEF NewDuration, reading, records
  <2>2. \A r \in Readers : dpc[r] = "idle"
    BY <1>1, <2>1 DEF Watched
  <2>3. QED
    BY <2>1, <2>2 DEF Watched, TakesWhatItMarks
<1>5. CASE Swap \/ EvaluateP95 \/ UNCHANGED vars
  <2>1. UNCHANGED <<readers, dpc, key, lastRead, raced, segmentDurations>>
    BY <1>5 DEF Swap, EvaluateP95, CheckReservoir, Measure, ResetReservoir, Propagate, vars, records,
                reading
  <2>2. QED
    BY <1>1, <2>1, WatchedFrame
<1>6. ASSUME NEW r \in Readers, ReadDurations(r) \/ ReadLastDurations(r)
      PROVE  (Watched /\ TakesWhatItMarks)'
  <2>1. /\ dpc \in [Readers -> {"idle", "next", "load", "mark"}] /\ key \in [Readers -> Names]
        /\ raced \in [Readers -> SUBSET ({"load", "mark"} \X {"store", "mark"})]
        /\ lastRead \in [Readers -> [Names -> Int]] /\ segmentDurations \in [Names -> Int]
    BY <1>1 DEF TypeOK
  <2>2. ASSUME NEW u \in Readers, u # r
        PROVE  /\ dpc'[u] # "idle" => u \in readers'
               /\ dpc'[u] \in {"load", "mark"} =>
                     \/ segmentDurations'[key'[u]] = segmentDurations[key[u]]
                     \/ segmentDurations'[key'[u]] = ReadMark /\ <<dpc[u], "mark">> \in raced'[u]
    <3>1. /\ dpc'[u] = dpc[u] /\ key'[u] = key[u]
          /\ raced[u] \subseteq raced'[u] /\ (u \in readers => u \in readers')
      BY <1>1, <1>6, <2>2, ReaderSteps
    <3>2. CASE MarkRead(r)
      <4>1. /\ segmentDurations' = [segmentDurations EXCEPT ![key[r]] = ReadMark]
            /\ key[u] = key[r] /\ dpc[u] \in {"load", "mark"} => <<dpc[u], "mark">> \in raced'[u]
        BY <2>1, <2>2, <3>2 DEF MarkRead, NotedAs
      <4>2. QED
        BY <1>1, <2>1, <3>1, <4>1 DEF Watched
    <3>3. CASE UNCHANGED segmentDurations
      BY <1>1, <3>1, <3>3 DEF Watched
    <3>4. QED
      BY <1>6, <3>1, <3>2, <3>3
         DEF ReadDurations, ReadLastDurations, FirstLoad, SecondLoad, ReadReturns, Watched
  <2>3. ASSUME NEW u \in Readers, u # r
        PROVE  /\ dpc'[u] = "load" /\ segmentDurations'[key'[u]] = ReadMark
                     => <<"load", "mark">> \in raced'[u]
               /\ dpc'[u] = "mark" =>
                     /\ lastRead'[u][key'[u]] = ReadMark => <<"load", "mark">> \in raced'[u]
                     /\ \/ segmentDurations'[key'[u]] = lastRead'[u][key'[u]]
                        \/ \E event \in {"store", "mark"} : <<"mark", event>> \in raced'[u]
    <3>1. /\ dpc'[u] = dpc[u] /\ key'[u] = key[u] /\ lastRead'[u] = lastRead[u]
          /\ raced[u] \subseteq raced'[u]
      BY <1>1, <1>6, <2>3, ReaderSteps
    <3>2. QED
      BY <1>1, <2>2, <2>3, <3>1 DEF Watched, TakesWhatItMarks
  <2>4. /\ dpc'[r] # "idle" => r \in readers'
        /\ dpc'[r] = "load" => segmentDurations'[key'[r]] # ReadMark
        /\ dpc'[r] = "mark" =>
              /\ lastRead'[r][key'[r]] = ReadMark => <<"load", "mark">> \in raced'[r]
              /\ segmentDurations'[key'[r]] = lastRead'[r][key'[r]]
    <3>1. CASE ReadDurations(r)
      BY <2>1, <3>1 DEF ReadDurations, GotoRead
    <3>2. ASSUME NEW s \in Names, FirstLoad(r, s)
          PROVE  /\ dpc'[r] # "mark" /\ r \in readers'
                 /\ dpc'[r] = "load" => segmentDurations'[key'[r]] # ReadMark
      BY <1>1, <2>1, <3>2 DEF FirstLoad, GotoRead, records, Watched
    <3>3. CASE SecondLoad(r)
      <4>1. lastRead'[r][key[r]] = segmentDurations[key[r]] /\ key[r] \in Names
        BY <2>1, <3>3 DEF SecondLoad
      <4>2. dpc[r] = "load" /\ dpc'[r] = "mark" /\ UNCHANGED <<readers, key, raced, segmentDurations>>
        BY <2>1, <3>3 DEF SecondLoad, GotoRead, records
      <4>3. QED
        BY <1>1, <4>1, <4>2 DEF Watched
    <3>4. CASE MarkRead(r)
      <4>1. dpc[r] = "mark" /\ dpc'[r] = "next" /\ UNCHANGED readers
        BY <2>1, <3>4 DEF MarkRead, GotoRead, records
      <4>2. QED
        BY <1>1, <4>1 DEF Watched
    <3>5. CASE ReadReturns(r)
      BY <2>1, <3>5 DEF ReadReturns, GotoRead
    <3>6. QED
      BY <1>6, <3>1, <3>2, <3>3, <3>4, <3>5 DEF ReadLastDurations
  <2>5. Watched'
    BY <2>2, <2>3, <2>4 DEF Watched
  <2>6. TakesWhatItMarks'
    BY <2>3, <2>4 DEF TakesWhatItMarks
  <2>7. QED
    BY <2>5, <2>6
<1>7. QED
  BY <1>2, <1>3, <1>4, <1>5, <1>6 DEF Next, RecordSegment, BoundReached
-------------------------------------------------------------------------------
(* Goroutines about to append are recorders. *)
LEMMA SubsetCard ==
    ASSUME NEW T \in SUBSET Recorders
    PROVE  /\ IsFiniteSet(T) /\ IsFiniteSet(Recorders)
           /\ Cardinality(T) \in Nat /\ Cardinality(Recorders) \in Nat
           /\ Cardinality(T) <= Cardinality(Recorders)
BY SegmentAssumption, FS_Subset, FS_CardinalityType

(* A stored sample replaces another one. *)
LEMMA StoreKeepsLength ==
    ASSUME TypeOK, Holding, NEW t \in Recorders, StoreSample(t), NEW n \in NodeIds
    PROVE  Len(reservoir'[n]) = Len(reservoir[n])
<1>1. CASE reservoir' = reservoir
  BY <1>1
<1>2. CASE reservoir' # reservoir
  <2>1. PICK i \in 1..ReservoirSize : /\ i <= Len(reservoir[Node(t)])
                                     /\ reservoir' = [reservoir EXCEPT ![Node(t)][i] = Duration[t]]
    BY <1>2 DEF StoreSample
  <2>2. reservoir' = [reservoir EXCEPT ![Node(t)] = [reservoir[Node(t)] EXCEPT ![i] = Duration[t]]]
    BY <2>1
  <2>3. reservoir[Node(t)] \in Seq(Nat) /\ Node(t) \in NodeIds /\ Duration[t] \in Nat
    BY SegmentAssumption DEF StoreSample, Node, Holding, Updating, TypeOK
  <2>4. Len([reservoir[Node(t)] EXCEPT ![i] = Duration[t]]) = Len(reservoir[Node(t)])
    BY <2>1, <2>3, ExceptSeq
  <2>5. QED
    BY <2>2, <2>3, <2>4 DEF TypeOK
<1>3. QED
  BY <1>1, <1>2

(* An action that neither lengthens a reservoir nor sends a goroutine to append *)
(* keeps the room.                                                              *)
LEMMA RoomFrame ==
    ASSUME Room, \A n \in NodeIds : Appending(n)' = Appending(n),
           \A n \in NodeIds : Len(reservoir'[n]) = Len(reservoir[n])
    PROVE  Room'
BY DEF Room

(* A goroutine goes to append when it saw less than ReservoirSize samples, so *)
(* that the others are all that can be ahead of it.                           *)
LEMMA RoomStep == Inv /\ [Next]_vars => Room'
<1> SUFFICES ASSUME Inv, [Next]_vars PROVE Room'
    OBVIOUS
<1> USE SegmentAssumption DEF Inv
<1>1. ASSUME NEW t \in Recorders, NEW s \in Names, Begin(t, s) PROVE Room'
  <2>1. \A n \in NodeIds : Appending(n)' = Appending(n)
    BY <1>1 DEF Begin, Appending, TypeOK, Goto
  <2>2. reservoir' = reservoir
    BY <1>1 DEF Begin, records
  <2>3. QED
    BY <2>1, <2>2, RoomFrame
<1>2. ASSUME NEW t \in Recorders, Create(t) PROVE Room'
  <2>1. \A n \in NodeIds : Appending(n)' = Appending(n)
    BY <1>2 DEF Create, Appending, TypeOK, Goto
  <2>2. reservoir' = reservoir
    BY <1>2 DEF Create, records
  <2>3. QED
    BY <2>1, <2>2, RoomFrame
<1>3. ASSUME NEW t \in Recorders, Relock(t) PROVE Room'
  <2>1. \A n \in NodeIds : Appending(n)' = Appending(n)
    BY <1>3 DEF Relock, Appending, TypeOK, Goto
  <2>2. reservoir' = reservoir
    BY <1>3 DEF Relock, records
  <2>3. QED
    BY <2>1, <2>2, RoomFrame
<1>4. ASSUME NEW t \in Recorders, ReadReservoir(t) PROVE Room'
  <2>1. reservoir' = reservoir /\ \A n \in NodeIds : Len(reservoir[n]) \in Nat
    BY <1>4 DEF ReadReservoir, records, TypeOK
  <2>2. ASSUME NEW n \in NodeIds, Len(reservoir[n]) >= ReservoirSize \/ n # Node(t)
        PROVE  Appending(n)' = Appending(n)
    <3>1. pc[t] = "update" /\ \E l \in Labels : pc' = [pc EXCEPT ![t] = l]
      BY <1>4 DEF ReadReservoir, Goto, Labels, Updating
    <3>2. Len(reservoir[Node(t)]) >= ReservoirSize => pc'[t] # "append"
      <4>1. pc \in [Recorders -> Labels] /\ Len(reservoir[Node(t)]) \in Nat
        BY <1>4, <2>1 DEF TypeOK, Holding, Node, Updating, ReadReservoir
      <4>2. QED
        BY <1>4, <4>1 DEF ReadReservoir, Goto
    <3>3. \A u \in Recorders : call'[u].node = call[u].node
      BY <1>4 DEF ReadReservoir, TypeOK, Call
    <3>4. pc'[t] = "append" => call[t].node # n
      BY <2>2, <3>2 DEF Node
    <3>5. \A u \in Recorders : u # t => pc'[u] = pc[u]
      BY <3>1 DEF TypeOK
    <3>6. QED
      BY <3>1, <3>3, <3>4, <3>5 DEF Appending
  <2>3. ASSUME NEW n \in NodeIds
        PROVE  Len(reservoir'[n]) + Cardinality(Appending(n)')
                   <= ReservoirSize + Cardinality(Recorders) - 1
    <3>1. CASE Len(reservoir[n]) >= ReservoirSize \/ n # Node(t)
      BY <2>1, <2>2, <3>1 DEF Room
    <3>2. CASE Len(reservoir[n]) < ReservoirSize
      <4>1. Appending(n)' \in SUBSET Recorders
        BY DEF Appending
      <4>2. /\ Cardinality(Appending(n)') \in Nat /\ Cardinality(Recorders) \in Nat
            /\ Cardinality(Appending(n)') <= Cardinality(Recorders)
        BY <4>1, SubsetCard
      <4>3. Len(reservoir'[n]) \in Nat /\ Len(reservoir'[n]) <= ReservoirSize - 1
        BY <2>1, <3>2
      <4>4. QED
        BY <4>2, <4>3
    <3>3. QED
      BY <2>1, <3>1, <3>2
  <2>4. QED
    BY <2>3 DEF Room
<1>5. ASSUME NEW t \in Recorders, Make(t) PROVE Room'
  <2>1. Node(t) \in NodeIds
    BY <1>5 DEF Make, Node, Holding, Updating
  <2>2. reservoir' = [reservoir EXCEPT ![Node(t)] = <<>>]
    BY <1>5 DEF Make
  <2>3. ASSUME NEW n \in NodeIds
        PROVE  Len(reservoir'[n]) + Cardinality(Appending(n)')
                   <= ReservoirSize + Cardinality(Recorders) - 1
    <3>1. CASE n = Node(t)
      <4>1. Appending(n)' \in SUBSET Recorders
        BY DEF Appending
      <4>2. Len(reservoir'[n]) = 0
        BY <2>1, <2>2, <3>1 DEF TypeOK
      <4>3. QED
        BY <4>1, <4>2, SubsetCard
    <3>2. CASE n # Node(t)
      <4>1. Appending(n)' = Appending(n)
        BY <1>5, <3>2 DEF Make, Appending, TypeOK, Goto, Node
      <4>2. reservoir'[n] = reservoir[n]
        BY <2>2, <3>2 DEF TypeOK
      <4>3. QED
        BY <4>1, <4>2 DEF Room
    <3>3. QED
      BY <3>1, <3>2
  <2>4. QED
    BY <2>3 DEF Room
<1>6. ASSUME NEW t \in Recorders, AppendSample(t) PROVE Room'
  <2>1. Node(t) \in NodeIds
    BY <1>6 DEF AppendSample, Node, Holding, Updating
  <2>2. reservoir' = [reservoir EXCEPT ![Node(t)] = Append(@, Duration[t])]
    BY <1>6 DEF AppendSample
  <2>3. ASSUME NEW n \in NodeIds
        PROVE  Len(reservoir'[n]) + Cardinality(Appending(n)')
                   <= ReservoirSize + Cardinality(Recorders) - 1
    <3>1. CASE n = Node(t)
      <4>1. Appending(n) \in SUBSET Recorders /\ t \in Appending(n)
        BY <1>6, <3>1 DEF Appending, AppendSample, Node
      <4>2. Appending(n)' = Appending(n) \ {t}
        BY <1>6, <3>1 DEF AppendSample, Appending, TypeOK, Goto, Node
      <4>3. Cardinality(Appending(n)') = Cardinality(Appending(n)) - 1
        BY <4>1, <4>2, SubsetCard, FS_RemoveElement
      <4>4. reservoir[n] \in Seq(Nat) /\ Duration[t] \in Nat
        BY DEF TypeOK
      <4>5. Len(reservoir'[n]) = Len(reservoir[n]) + 1 /\ Len(reservoir[n]) \in Nat
        BY <2>1, <2>2, <3>1, <4>4 DEF TypeOK
      <4>6. /\ Cardinality(Appending(n)) \in Nat /\ Cardinality(Recorders) \in Nat
            /\ Len(reservoir[n]) + Cardinality(Appending(n))
                   <= ReservoirSize + Cardinality(Recorders) - 1
        BY <4>1, SubsetCard DEF Room
      <4>7. QED
        BY <4>3, <4>5, <4>6
    <3>2. CASE n # Node(t)
      <4>1. Appending(n)' = Appending(n)
        BY <1>6, <3>2 DEF AppendSample, Appending, TypeOK, Goto, Node
      <4>2. reservoir'[n] = reservoir[n]
        BY <2>2, <3>2 DEF TypeOK
      <4>3. QED
        BY <4>1, <4>2 DEF Room
    <3>3. QED
      BY <3>1, <3>2
  <2>4. QED
    BY <2>3 DEF Room
<1>7. ASSUME NEW t \in Recorders, StoreSample(t) PROVE Room'
  <2>1. \A n \in NodeIds : Appending(n)' = Appending(n)
    BY <1>7 DEF StoreSample, Appending, TypeOK, Goto
  <2>2. \A n \in NodeIds : Len(reservoir'[n]) = Len(reservoir[n])
    BY <1>7, StoreKeepsLength
  <2>3. QED
    BY <2>1, <2>2, RoomFrame
<1>8. ASSUME NEW t \in Recorders, CountSample(t) PROVE Room'
  <2>1. \A n \in NodeIds : Appending(n)' = Appending(n)
    BY <1>8 DEF CountSample, Appending, TypeOK, Goto
  <2>2. reservoir' = reservoir
    BY <1>8 DEF CountSample, records
  <2>3. QED
    BY <2>1, <2>2, RoomFrame
<1>9. ASSUME NEW t \in Recorders, StoreDuration(t) PROVE Room'
  <2>1. \A n \in NodeIds : Appending(n)' = Appending(n)
    BY <1>9 DEF StoreDuration, Appending, TypeOK, Goto, Return
  <2>2. reservoir' = reservoir
    BY <1>9 DEF StoreDuration, records
  <2>3. QED
    BY <2>1, <2>2, RoomFrame
<1>10. ASSUME NEW t \in Recorders, NewDuration(t) PROVE Room'
  <2>1. \A n \in NodeIds : Appending(n)' = Appending(n)
    BY <1>10 DEF NewDuration, Appending, TypeOK, Goto, Return
  <2>2. reservoir' = reservoir
    BY <1>10 DEF NewDuration, records
  <2>3. QED
    BY <2>1, <2>2, RoomFrame
<1>11. CASE Swap
  <2>1. \A n \in NodeIds : Appending(n)' = Appending(n)
    BY <1>11 DEF Swap, Appending, threads
  <2>2. reservoir' = reservoir
    BY <1>11 DEF Swap, records
  <2>3. QED
    BY <2>1, <2>2, RoomFrame
<1>12. ASSUME NEW m \in NodeIds, CheckReservoir(m) PROVE Room'
  <2>1. \A n \in NodeIds : Appending(n)' = Appending(n)
    BY <1>12 DEF CheckReservoir, Appending, threads
  <2>2. reservoir' = reservoir
    BY <1>12 DEF CheckReservoir, records
  <2>3. QED
    BY <2>1, <2>2, RoomFrame
<1>13. CASE Measure
  <2>1. \A n \in NodeIds : Appending(n)' = Appending(n)
    BY <1>13 DEF Measure, Appending, threads
  <2>2. reservoir' = reservoir
    BY <1>13 DEF Measure, records
  <2>3. QED
    BY <2>1, <2>2, RoomFrame
<1>14. CASE ResetReservoir
  <2>1. \A n \in NodeIds : Appending(n)' = Appending(n)
    BY <1>14 DEF ResetReservoir, Appending, threads
  <2>2. ASSUME NEW n \in NodeIds
        PROVE  /\ Len(reservoir'[n]) \in Nat /\ Len(reservoir[n]) \in Nat
               /\ Len(reservoir'[n]) <= Len(reservoir[n])
    <3>1. reservoir[n] \in Seq(Nat) /\ reservoir'[n] \in {<<>>, reservoir[n]}
      BY <1>14 DEF ResetReservoir, TypeOK
    <3>2. QED
      BY <3>1
  <2>3. ASSUME NEW n \in NodeIds
        PROVE  Len(reservoir'[n]) + Cardinality(Appending(n)')
                   <= ReservoirSize + Cardinality(Recorders) - 1
    <3>1. Appending(n) \in SUBSET Recorders
      BY DEF Appending
    <3>2. QED
      BY <2>1, <2>2, <3>1, SubsetCard DEF Room
  <2>4. QED
    BY <2>3 DEF Room
<1>15. CASE Propagate
  <2>1. \A n \in NodeIds : Appending(n)' = Appending(n)
    BY <1>15 DEF Propagate, Appending, threads
  <2>2. reservoir' = reservoir
    BY <1>15 DEF Propagate, records
  <2>3. QED
    BY <2>1, <2>2, RoomFrame
<1>16. ASSUME NEW r \in Readers, ReadDurations(r) PROVE Room'
  <2>1. \A n \in NodeIds : Appending(n)' = Appending(n)
    BY <1>16 DEF ReadDurations, Appending, threads
  <2>2. reservoir' = reservoir
    BY <1>16 DEF ReadDurations, records
  <2>3. QED
    BY <2>1, <2>2, RoomFrame
<1>17. ASSUME NEW r \in Readers, NEW s \in Names, FirstLoad(r, s) PROVE Room'
  <2>1. \A n \in NodeIds : Appending(n)' = Appending(n)
    BY <1>17 DEF FirstLoad, Appending, threads
  <2>2. reservoir' = reservoir
    BY <1>17 DEF FirstLoad, records
  <2>3. QED
    BY <2>1, <2>2, RoomFrame
<1>18. ASSUME NEW r \in Readers, SecondLoad(r) PROVE Room'
  <2>1. \A n \in NodeIds : Appending(n)' = Appending(n)
    BY <1>18 DEF SecondLoad, Appending, threads
  <2>2. reservoir' = reservoir
    BY <1>18 DEF SecondLoad, records
  <2>3. QED
    BY <2>1, <2>2, RoomFrame
<1>19. ASSUME NEW r \in Readers, MarkRead(r) PROVE Room'
  <2>1. \A n \in NodeIds : Appending(n)' = Appending(n)
    BY <1>19 DEF MarkRead, Appending, threads
  <2>2. reservoir' = reservoir
    BY <1>19 DEF MarkRead, records
  <2>3. QED
    BY <2>1, <2>2, RoomFrame
<1>20. ASSUME NEW r \in Readers, ReadReturns(r) PROVE Room'
  <2>1. \A n \in NodeIds : Appending(n)' = Appending(n)
    BY <1>20 DEF ReadReturns, Appending, threads
  <2>2. reservoir' = reservoir
    BY <1>20 DEF ReadReturns, records
  <2>3. QED
    BY <2>1, <2>2, RoomFrame
<1>21. CASE UNCHANGED vars
    BY <1>21 DEF vars, records, threads, Room, Appending
<1>22. QED
    BY <1>1, <1>2, <1>3, <1>4, <1>5, <1>6, <1>7, <1>8, <1>9, <1>10, <1>11, <1>12, <1>13, <1>14, <1>15, <1>16, <1>17, <1>18, <1>19, <1>20, <1>21
       DEF Next, RecordSegment, UpdateP95, EvaluateP95, ReadLastDurations, BoundReached

(* A step that another goroutine takes: nothing is unmade, and a reservoir that *)
(* is not made anew does not shrink.                                            *)
LEMMA FilledFrame ==
    ASSUME TypeOK, TypeOK', Holding, NEW u \in Recorders, FilledFor(u),
           pc'[u] = pc[u], call'[u] = call[u],
           \A n \in NodeIds : made'[n] >= made[n],
           \A n \in NodeIds : pc[u] = "store" /\ ~call[u].late /\ n = Node(u) =>
               Len(reservoir'[n]) >= Len(reservoir[n]) \/ made'[n] > made[n]
    PROVE  FilledFor(u)'
<1> DEFINE n == Node(u)
<1>1. Node(u)' = n /\ (pc[u] \in Updating => n \in NodeIds)
  BY DEF Node, Holding
<1>2. n \in NodeIds => /\ made[n] \in Nat /\ made'[n] \in Nat
                       /\ Len(reservoir[n]) \in Nat /\ Len(reservoir'[n]) \in Nat
  <2>1. n \in NodeIds => /\ made[n] \in Nat /\ made'[n] \in Nat
                         /\ reservoir[n] \in Seq(Nat) /\ reservoir'[n] \in Seq(Nat)
    BY DEF TypeOK
  <2>2. QED
    BY <2>1
<1>3. n \in NodeIds => made'[n] >= made[n]
  OBVIOUS
<1>4. pc[u] \in {"append", "store", "count"} => n \in NodeIds /\ made[n] >= 1
  BY <1>1 DEF FilledFor, Updating
<1>5. pc[u] = "panicked" => n \in NodeIds /\ (made[n] > 1 \/ call[u].late)
  BY DEF FilledFor
<1>6. ASSUME pc[u] = "store", ~call[u].late, made'[n] <= 1
      PROVE  Len(reservoir'[n]) >= ReservoirSize
  <2>1. Len(reservoir'[n]) >= Len(reservoir[n]) \/ made'[n] > made[n]
    BY <1>4, <1>6
  <2>2. made[n] >= 1 /\ made[n] <= 1
    BY <1>2, <1>3, <1>4, <1>6
  <2>3. Len(reservoir[n]) >= ReservoirSize
    BY <1>6, <2>2 DEF FilledFor
  <2>4. QED
    BY <1>2, <1>4, <1>6, <2>1, <2>2, <2>3, SegmentAssumption
<1>7. QED
  BY <1>1, <1>2, <1>3, <1>4, <1>5, <1>6 DEF FilledFor

(* A recorder's actions make or lengthen reservoirs, or replace a sample. *)
LEMMA RecorderFills ==
    ASSUME Inv, TypeOK', NEW t \in Recorders,
           (\E s \in Names : Begin(t, s)) \/ RecordSegment(t)
    PROVE  /\ \A n \in NodeIds : made'[n] >= made[n]
           /\ \A n \in NodeIds : Len(reservoir'[n]) >= Len(reservoir[n]) \/ made'[n] > made[n]
           /\ \A u \in Recorders : u # t => pc'[u] = pc[u] /\ call'[u] = call[u]
<1>1. /\ made \in [NodeIds -> Nat] /\ reservoir \in [NodeIds -> Seq(Nat)]
      /\ pc \in [Recorders -> Labels] /\ call \in [Recorders -> Call]
      /\ Duration[t] \in Nat
      /\ \A n \in NodeIds : made[n] \in Nat /\ Len(reservoir[n]) \in Nat
  <2>1. /\ made \in [NodeIds -> Nat] /\ reservoir \in [NodeIds -> Seq(Nat)]
        /\ pc \in [Recorders -> Labels] /\ call \in [Recorders -> Call]
        /\ Duration[t] \in Nat
    BY SegmentAssumption DEF Inv, TypeOK
  <2>2. \A n \in NodeIds : made[n] \in Nat /\ reservoir[n] \in Seq(Nat)
    BY <2>1
  <2>3. QED
    BY <2>1, <2>2
<1>2. CASE \/ \E s \in Names : Begin(t, s)
           \/ Create(t) \/ Relock(t) \/ ReadReservoir(t) \/ CountSample(t)
           \/ StoreDuration(t) \/ NewDuration(t)
  <2>1. made' = made /\ reservoir' = reservoir
    BY <1>2 DEF Begin, Create, Relock, ReadReservoir, CountSample, StoreDuration, NewDuration, records
  <2>2. \A u \in Recorders : u # t => pc'[u] = pc[u] /\ call'[u] = call[u]
    BY <1>1, <1>2 DEF Begin, Create, Relock, ReadReservoir, CountSample, StoreDuration, NewDuration,
                      Goto, Return
  <2>3. QED
    BY <1>1, <2>1, <2>2
<1>3. CASE Make(t)
  <2>1. /\ made' = [made EXCEPT ![Node(t)] = @ + 1]
        /\ reservoir' = [reservoir EXCEPT ![Node(t)] = <<>>]
        /\ \A u \in Recorders : u # t => pc'[u] = pc[u] /\ call'[u] = call[u]
    BY <1>1, <1>3 DEF Make, Goto
  <2>2. ASSUME NEW n \in NodeIds
        PROVE  \/ made'[n] = made[n] + 1
               \/ made'[n] = made[n] /\ reservoir'[n] = reservoir[n]
    BY <1>1, <2>1
  <2>3. QED
    BY <1>1, <2>1, <2>2
<1>4. CASE AppendSample(t)
  <2>1. /\ made' = made
        /\ reservoir' = [reservoir EXCEPT ![Node(t)] = Append(@, Duration[t])]
        /\ \A u \in Recorders : u # t => pc'[u] = pc[u] /\ call'[u] = call[u]
    BY <1>1, <1>4 DEF AppendSample, Goto
  <2>2. ASSUME NEW n \in NodeIds
        PROVE  reservoir'[n] \in {reservoir[n], Append(reservoir[n], Duration[t])}
    BY <1>1, <2>1
  <2>3. ASSUME NEW n \in NodeIds PROVE Len(Append(reservoir[n], Duration[t])) = Len(reservoir[n]) + 1
    BY <1>1
  <2>4. QED
    BY <1>1, <2>1, <2>2, <2>3
<1>5. CASE StoreSample(t)
  <2>1. /\ made' = made
        /\ \A u \in Recorders : u # t => pc'[u] = pc[u] /\ call'[u] = call[u]
    BY <1>1, <1>5 DEF StoreSample, Goto
  <2>2. ASSUME NEW n \in NodeIds PROVE Len(reservoir'[n]) = Len(reservoir[n])
    BY <1>5, StoreKeepsLength DEF Inv
  <2>3. QED
    BY <1>1, <2>1, <2>2
<1>6. QED
  BY <1>2, <1>3, <1>4, <1>5 DEF RecordSegment, UpdateP95

(* A goroutine panics in a full reservoir only if it was made twice, or late. *)
LEMMA FilledStep == Inv /\ [Next]_vars => Filled'
<1> SUFFICES ASSUME Inv, [Next]_vars PROVE Filled'
  OBVIOUS
<1>1. TypeOK /\ TypeOK' /\ Holding /\ Filled
  BY TypeStep DEF Inv
<1>2. \A n \in NodeIds : made[n] \in Nat /\ Len(reservoir[n]) \in Nat
  BY <1>1 DEF TypeOK
<1>3. ASSUME NEW t \in Recorders, (\E s \in Names : Begin(t, s)) \/ RecordSegment(t) PROVE Filled'
  <2>1. ASSUME NEW u \in Recorders, u # t PROVE FilledFor(u)'
    BY <1>1, <1>3, <2>1, RecorderFills, FilledFrame DEF Filled
  <2>2. FilledFor(t)'
    <3> DEFINE n == Node(t)
    <3>1. /\ pc \in [Recorders -> Labels] /\ call \in [Recorders -> Call]
          /\ made \in [NodeIds -> Nat] /\ reservoir \in [NodeIds -> Seq(Nat)]
          /\ (pc[t] \in Updating => n \in NodeIds) /\ FilledFor(t)
      BY <1>1 DEF TypeOK, Holding, Filled, Node
    <3>2. CASE \/ \E s \in Names : Begin(t, s)
               \/ Create(t) \/ Relock(t) \/ CountSample(t) \/ StoreDuration(t) \/ NewDuration(t)
      <4>1. pc'[t] \notin {"append", "store", "count", "panicked"}
        BY <3>1, <3>2 DEF Begin, Create, Relock, CountSample, StoreDuration, NewDuration, Goto, Return
      <4>2. QED
        BY <4>1 DEF FilledFor
    <3>3. CASE ReadReservoir(t)
      <4>1. /\ n \in NodeIds /\ Node(t)' = n /\ made' = made /\ reservoir' = reservoir
            /\ pc'[t] \in {"make", "append", "store"}
            /\ pc'[t] # "make" => made[n] # 0
            /\ pc'[t] = "store" => ~(Len(reservoir[n]) < ReservoirSize)
        BY <3>1, <3>3 DEF ReadReservoir, Goto, Node, Updating, records
      <4>2. made[n] \in Nat /\ Len(reservoir[n]) \in Nat
        BY <1>2, <4>1
      <4>3. QED
        BY <4>1, <4>2, SegmentAssumption DEF FilledFor
    <3>4. CASE Make(t)
      <4>1. /\ n \in NodeIds /\ Node(t)' = n /\ pc'[t] = "append"
            /\ made'[n] = made[n] + 1
        BY <3>1, <3>4 DEF Make, Goto, Node, Updating
      <4>2. QED
        BY <1>2, <4>1 DEF FilledFor
    <3>5. CASE AppendSample(t)
      <4>1. /\ n \in NodeIds /\ Node(t)' = n /\ pc'[t] = "count" /\ made' = made
            /\ made[n] >= 1
        BY <3>1, <3>5 DEF AppendSample, Goto, Node, Updating, FilledFor
      <4>2. QED
        BY <4>1 DEF FilledFor
    <3>6. CASE StoreSample(t)
      <4>1. /\ n \in NodeIds /\ Node(t)' = n /\ made' = made /\ call' = call
            /\ made[n] >= 1 /\ pc[t] = "store"
            /\ pc'[t] \in {"count", "panicked"}
            /\ pc'[t] = "panicked" => \E i \in 1..ReservoirSize : ~(i <= Len(reservoir[n]))
        BY <3>1, <3>6 DEF StoreSample, Goto, Node, Updating, FilledFor
      <4>2. pc'[t] = "panicked" => made[n] > 1 \/ call[t].late
        BY <1>2, <3>1, <4>1, SegmentAssumption DEF FilledFor
      <4>3. QED
        BY <4>1, <4>2 DEF FilledFor
    <3>7. QED
      BY <1>3, <3>2, <3>3, <3>4, <3>5, <3>6 DEF RecordSegment, UpdateP95
  <2>3. QED
    BY <2>1, <2>2 DEF Filled
<1>4. CASE ResetReservoir
  <2>1. /\ threads' = threads /\ made' = made
        /\ \A n \in NodeIds : n # current => reservoir'[n] = reservoir[n]
    BY <1>1, <1>4 DEF ResetReservoir, TypeOK
  <2>2. ASSUME NEW u \in Recorders, pc[u] = "store", ~call[u].late PROVE Node(u) # current
    <3>1. segmentNodes[call[u].name] = Node(u) /\ Node(u) \in NodeIds /\ call[u].name \in Names
      BY <2>2 DEF Inv, FoundIsLive, Holding, Updating, Node, TypeOK, Call
    <3>2. QED
      BY <3>1 DEF Inv, Retirement, Retired, NodeIds, NoNode
  <2>3. ASSUME NEW u \in Recorders PROVE FilledFor(u)'
    <3>1. pc'[u] = pc[u] /\ call'[u] = call[u]
      BY <2>1 DEF threads
    <3>2. \A n \in NodeIds : pc[u] = "store" /\ ~call[u].late /\ n = Node(u) =>
              Len(reservoir'[n]) >= Len(reservoir[n])
      BY <1>2, <2>1, <2>2
    <3>3. QED
      BY <1>1, <1>2, <2>1, <3>1, <3>2, FilledFrame DEF Filled
  <2>4. QED
    BY <2>3 DEF Filled
<1>5. CASE Swap \/ (\E n \in NodeIds : CheckReservoir(n)) \/ Measure \/ Propagate
           \/ (\E r \in Readers : ReadDurations(r) \/ ReadLastDurations(r)) \/ UNCHANGED vars
  <2>1. pc' = pc /\ call' = call /\ made' = made /\ reservoir' = reservoir
    BY <1>5 DEF Swap, CheckReservoir, Measure, Propagate, ReadDurations, ReadLastDurations, FirstLoad,
                SecondLoad, MarkRead, ReadReturns, vars, records, threads
  <2>2. QED
    BY <1>1, <2>1 DEF Filled, FilledFor, Node
<1>6. QED
  BY <1>3, <1>4, <1>5 DEF Next, EvaluateP95, BoundReached

(* What is measured was recorded: the percentile is one of the samples. *)
LEMMA SampledStep == Inv /\ [Next]_vars => Sampled'
<1> SUFFICES ASSUME Inv, [Next]_vars PROVE Sampled'
  OBVIOUS
<1>1. /\ Sampled /\ TypeOK /\ Recorded \in SUBSET Nat
      /\ \A t \in Recorders : Duration[t] \in Recorded
      /\ \A t \in Recorders : pc[t] \in Updating => Node(t) \in NodeIds
  BY SegmentAssumption DEF Inv, Recorded, Holding, Node
<1>2. ASSUME NEW t \in Recorders, (\E s \in Names : Begin(t, s)) \/ RecordSegment(t) PROVE Sampled'
  <2>1. UNCHANGED <<report, reported>>
    BY <1>2 DEF Begin, RecordSegment, UpdateP95, Create, Relock, ReadReservoir, Make, AppendSample,
                StoreSample, CountSample, StoreDuration, NewDuration, history
  <2>2. reservoir' \in [NodeIds -> Seq(Recorded)]
    <3>1. reservoir \in [NodeIds -> Seq(Recorded)]
      BY <1>1 DEF Sampled
    <3>2. CASE reservoir' = reservoir
      BY <3>1, <3>2
    <3>3. CASE Make(t)
      BY <3>1, <3>3, ResetType DEF Make
    <3>4. CASE AppendSample(t)
      <4>1. Node(t) \in NodeIds
        BY <1>1, <3>4 DEF AppendSample, Updating
      <4>2. Append(reservoir[Node(t)], Duration[t]) \in Seq(Recorded)
        BY <1>1, <3>1, <4>1
      <4>3. QED
        BY <3>1, <3>4, <4>2 DEF AppendSample
    <3>5. CASE StoreSample(t) /\ reservoir' # reservoir
      <4>1. PICK i \in 1..ReservoirSize : /\ i <= Len(reservoir[Node(t)])
                                          /\ reservoir' = [reservoir EXCEPT ![Node(t)][i] = Duration[t]]
        BY <3>5 DEF StoreSample
      <4>2. reservoir[Node(t)] \in Seq(Recorded)
        BY <1>1, <3>1, <3>5 DEF StoreSample, Updating
      <4>3. [reservoir[Node(t)] EXCEPT ![i] = Duration[t]] \in Seq(Recorded)
        BY <1>1, <4>1, <4>2, ExceptSeq
      <4>4. reservoir' = [reservoir EXCEPT ![Node(t)] = [reservoir[Node(t)] EXCEPT ![i] = Duration[t]]]
        BY <4>1
      <4>5. QED
        BY <3>1, <4>3, <4>4
    <3>6. QED
      BY <1>2, <3>2, <3>3, <3>4, <3>5
         DEF Begin, RecordSegment, UpdateP95, Create, Relock, ReadReservoir, CountSample, StoreDuration,
             NewDuration, records
  <2>3. QED
    BY <1>1, <2>1, <2>2 DEF Sampled, report
<1>3. CASE Measure
  <2>1. reservoir[current] \in Seq(Recorded)
    BY <1>1, <1>3 DEF Inv, Measure, Retirement, Sampled
  <2>2. P95InRange(reservoir[current]) => P95(reservoir[current]) \in Recorded
    BY <1>1, <2>1, P95IsSample
  <2>3. QED
    BY <1>1, <1>3, <2>2 DEF Measure, Sampled, records, history
<1>4. CASE ResetReservoir
  <2>1. reservoir' \in [NodeIds -> Seq(Recorded)]
    BY <1>1, <1>4, ResetType DEF ResetReservoir, Sampled
  <2>2. QED
    BY <1>1, <1>4, <2>1 DEF ResetReservoir, Sampled, history
<1>5. CASE Propagate
  BY <1>1, <1>5 DEF Propagate, Sampled, records
<1>6. CASE Swap \/ (\E n \in NodeIds : CheckReservoir(n))
           \/ (\E r \in Readers : ReadDurations(r) \/ ReadLastDurations(r)) \/ UNCHANGED vars
  <2>1. /\ reservoir' = reservoir /\ reported' = reported
        /\ measurement' = 0 \/ measurement' = measurement
        /\ (rpc' = rpc /\ measurement' = measurement) \/ rpc' # "reset"
    BY <1>6 DEF Swap, CheckReservoir, ReadDurations, ReadLastDurations, FirstLoad,
                SecondLoad, MarkRead, ReadReturns, vars, records, report, history
  <2>2. QED
    BY <1>1, <2>1 DEF Sampled
<1>7. QED
  BY <1>2, <1>3, <1>4, <1>5, <1>6 DEF Next, EvaluateP95, BoundReached

(* A recorder only makes or fills the reservoir the report is about to measure. *)
LEMMA MeasuredStep == Inv /\ [Next]_vars => Measured'
<1> SUFFICES ASSUME Inv, [Next]_vars PROVE Measured'
  OBVIOUS
<1>1. TypeOK /\ TypeOK' /\ Measured /\ (rpc \in {"measure", "dead"} => current \in NodeIds)
  BY TypeStep DEF Inv, Retirement, Measured
<1>2. \A n \in NodeIds : /\ made[n] \in Nat /\ Len(reservoir[n]) \in Nat
                         /\ made'[n] \in Nat /\ Len(reservoir'[n]) \in Nat
  <2>1. \A n \in NodeIds : /\ made[n] \in Nat /\ reservoir[n] \in Seq(Nat)
                           /\ made'[n] \in Nat /\ reservoir'[n] \in Seq(Nat)
    BY <1>1 DEF TypeOK
  <2>2. QED
    BY <2>1
<1>3. ASSUME NEW t \in Recorders, (\E s \in Names : Begin(t, s)) \/ RecordSegment(t) PROVE Measured'
  <2>1. UNCHANGED <<rpc, current>>
    BY <1>3 DEF Begin, RecordSegment, UpdateP95, Create, Relock, ReadReservoir, Make, AppendSample,
                StoreSample, CountSample, StoreDuration, NewDuration, report
  <2>2. \A n \in NodeIds : /\ made'[n] >= made[n]
                           /\ Len(reservoir'[n]) >= Len(reservoir[n]) \/ made'[n] > made[n]
    BY <1>1, <1>3, RecorderFills
  <2>3. QED
    BY <1>1, <1>2, <2>1, <2>2 DEF Measured
<1>4. ASSUME NEW n \in NodeIds, CheckReservoir(n) PROVE Measured'
  <2>1. /\ current' = n /\ made' = made /\ reservoir' = reservoir
        /\ rpc' = "measure" => made[n] # 0 /\ Len(reservoir[n]) > 0
        /\ rpc' # "dead"
    BY <1>4 DEF CheckReservoir, records
  <2>2. QED
    BY <1>2, <2>1 DEF Measured
<1>5. CASE Measure
  <2>1. /\ rpc = "measure" /\ current' = current /\ made' = made /\ rpc' \in {"reset", "dead"}
        /\ rpc' = "dead" => ~P95InRange(reservoir[current])
    BY <1>5 DEF Measure, records
  <2>2. ASSUME NEW n \in Nat, n > 0 PROVE P95Index(n) < n
    BY <2>2 DEF P95Index
  <2>3. Len(reservoir[current]) > 0 => P95InRange(reservoir[current])
    BY <1>1, <1>2, <2>1, <2>2 DEF P95InRange
  <2>4. QED
    BY <1>1, <2>1, <2>3 DEF Measured
<1>6. CASE Swap \/ ResetReservoir \/ Propagate
  BY <1>6 DEF Swap, ResetReservoir, Propagate, Measured
<1>7. CASE (\E r \in Readers : ReadDurations(r) \/ ReadLastDurations(r)) \/ UNCHANGED vars
  <2>1. UNCHANGED <<rpc, current, made, reservoir>>
    BY <1>7 DEF ReadDurations, ReadLastDurations, FirstLoad, SecondLoad, MarkRead, ReadReturns, vars,
                records, report
  <2>2. QED
    BY <1>1, <2>1 DEF Measured
<1>8. QED
  BY <1>3, <1>4, <1>5, <1>6, <1>7 DEF Next, EvaluateP95, BoundReached

-------------------------------------------------------------------------------
LEMMA Initially == Init => Inv
<1> SUFFICES ASSUME Init PROVE Inv
    OBVIOUS
<1> USE SegmentAssumption DEF Init
<1>1. TypeOK
    BY NoCallType DEF TypeOK, NodeIds, NoNode, Absent, NothingRead, Labels, ReportLabels
<1>2. Holding /\ FoundIsLive /\ Counted /\ FoundAreReported
       /\ Measured /\ Watched /\ TakesWhatItMarks
    BY DEF Holding, FoundIsLive, Counted, FoundAreReported, Measured, Watched,
           TakesWhatItMarks, Updating
<1>3. Retirement
    BY DEF Retirement, Retired, NoNode
<1>4. Room
  <2>1. ASSUME NEW n \in NodeIds
        PROVE  Len(reservoir[n]) + Cardinality(Appending(n))
                   <= ReservoirSize + Cardinality(Recorders) - 1
    <3>1. Appending(n) \in SUBSET Recorders /\ Len(reservoir[n]) = 0
      BY DEF Appending
    <3>2. /\ Cardinality(Appending(n)) \in Nat /\ Cardinality(Recorders) \in Nat
          /\ Cardinality(Appending(n)) <= Cardinality(Recorders)
      BY <3>1, SubsetCard
    <3>3. QED
      BY <3>1, <3>2
  <2>2. QED
    BY <2>1 DEF Room
<1>5. Filled /\ Sampled
    BY ResetType DEF Filled, FilledFor, Sampled
<1>6. QED
    BY <1>1, <1>2, <1>3, <1>4, <1>5 DEF Inv

(* The inductive invariant of segment_reporter.go. *)
THEOREM Invariance == Spec => []Inv
<1>1. Inv /\ [Next]_vars => Inv'
    BY TypeStep, HoldingStep, FoundIsLiveStep, RetirementStep, CountsStep, MarksStep, RoomStep,
       FilledStep, SampledStep, MeasuredStep
       DEF Inv
<1>2. QED
    BY Initially, <1>1, PTL DEF Spec

(* The types of segment_reporter.go's variables, evaluateP95's result included. *)
THEOREM TypeCorrect == Spec => []TypeOK
<1>1. Inv => TypeOK
    BY DEF Inv
<1>2. QED
    BY Invariance, <1>1, PTL

(* The unlocked store is out of range only when two goroutines made the nil      *)
(* reservoir, or when the goroutine found no node and came after the report; the *)
(* reporter ends in evaluateP95 only when two goroutines made the reservoir.     *)
THEOREM PanicIsRaced == Spec => []PanicNeedsRace
<1>1. Inv => PanicNeedsRace
    BY DEF Inv, Filled, FilledFor, Measured, PanicNeedsRace
<1>2. QED
    BY Invariance, <1>1, PTL

(* The measurement of a metric is a duration that some goroutine recorded, or 0 *)
(* when its node had no sample.                                                  *)
THEOREM MeasuredWasRecorded ==
    Spec => [](\A r \in reported : r.measurement \in {Duration[t] : t \in Recorders} \cup {0})
<1>1. Inv => \A r \in reported : r.measurement \in {Duration[t] : t \in Recorders} \cup {0}
    BY DEF Inv, Sampled, Recorded
<1>2. QED
    BY Invariance, <1>1, PTL

(* A call that found its node keeps it until the sample is counted: for any     *)
(* number of recorders the swap of report waits for it.                         *)
THEOREM FoundStaysLive == Spec => []FoundIsLive
<1>1. Inv => FoundIsLive
    BY DEF Inv
<1>2. QED
    BY Invariance, <1>1, PTL

(* Every sample of such a call is in the metric of its node. *)
THEOREM FoundIsReported == Spec => []FoundAreReported
<1>1. Inv => FoundAreReported
    BY DEF Inv
<1>2. QED
    BY Invariance, <1>1, PTL

(* The reservoir overshoots ReservoirSize by less than the number of recorders. *)
THEOREM ReservoirBounded == Spec => []ReservoirBound
<1>1. Inv => ReservoirBound
  <2> SUFFICES ASSUME Inv, NEW n \in NodeIds
               PROVE Len(reservoir[n]) <= ReservoirSize + Cardinality(Recorders) - 1
      BY DEF ReservoirBound
  <2>1. Appending(n) \in SUBSET Recorders /\ Len(reservoir[n]) \in Nat
      BY DEF Appending, Inv, TypeOK
  <2>2. Cardinality(Appending(n)) \in Nat /\ Cardinality(Recorders) \in Nat
      BY <2>1, SubsetCard
  <2>3. QED
      BY <2>1, <2>2, SegmentAssumption DEF Inv, Room
<1>2. QED
    BY Invariance, <1>1, PTL

(* For any number of readers and recorders, readLastDurations returns the mark   *)
(* only when another reader stored it between the two loads, and marks as read   *)
(* what it returns, unless a store came between its second load and its mark.    *)
THEOREM ReadsWhatItMarks == Spec => []TakesWhatItMarks
<1>1. Inv => TakesWhatItMarks
    BY DEF Inv
<1>2. QED
    BY Invariance, <1>1, PTL
=============================================================================
