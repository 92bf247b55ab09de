---------------------------- MODULE SegmentReporter ----------------------------
(* internal/segment_reporter.go with updateP95 and evaluateP95 of              *)
(* internal/breakdown_node.go.                                                 *)
(*                                                                             *)
(* Goroutines of the host program record segment durations; a ticker goroutine *)
(* swaps the map of nodes for an empty one and evaluates the old nodes.        *)
(* recordLock guards the maps.  A node is updated under recordLock.RLock, its  *)
(* reservoir under updateLock except for a store into a full reservoir and for *)
(* the whole of evaluateP95.                                                   *)
EXTENDS Integers, FiniteSets, Sequences, BreakdownNode

CONSTANTS
    Recorders,      \* goroutines that call recordSegment
    Readers,        \* callers of readLastDurations
    Names,          \* nonempty segment names
    Duration,       \* the duration a goroutine records
    ReservoirSize,  \* 1000 in the source
    MaxNodes,       \* bound: nodes ever created
    MaxCalls,       \* bound: recorder -> its calls
    MaxReports,     \* bound: reports
    MaxOperations   \* bound: calls of recordSegment and readLastDurations together

ASSUME SegmentAssumption ==
    /\ IsFiniteSet(Recorders) /\ Recorders # {} /\ Readers \cap Recorders = {}
    /\ Names # {}
    /\ Duration \in [Recorders -> Nat \ {0}]
    /\ ReservoirSize \in Nat \ {0}
    /\ MaxNodes \in Nat /\ MaxCalls \in [Recorders -> Nat] /\ MaxReports \in Nat
    /\ MaxOperations \in Nat

NodeIds  == 1..MaxNodes
NoNode   == 0
Absent   == 0      \* no entry in segmentDurations
ReadMark == -1    \* a duration that was read

VARIABLES
    segmentNodes,      \* SegmentReporter.segmentNodes: name -> node
    segmentDurations,  \* SegmentReporter.segmentDurations: name -> value
    readers,           \* goroutines inside recordLock.RLock around updateP95
    allocated,         \* number of nodes created
    made,              \* node -> number of make() of its reservoir; 0: nil
    reservoir,         \* node -> BreakdownNode.reservoir
    numSamples,        \* node -> BreakdownNode.numSamples
    pc, call,          \* recorder -> label, arguments and locals of recordSegment
    calls,             \* recorder -> calls begun
    rpc,               \* the reporter's label
    outgoing,          \* the nodes report has still to evaluate
    current,           \* the node report evaluates
    measurement,       \* what evaluateP95 computed for the current node
    reports,           \* number of swaps
    dpc, unread, key,  \* reader -> label, names still to read, the one it reads
    lastRead,          \* reader -> the map readLastDurations is about to return
    operations,        \* number of calls of recordSegment and readLastDurations
    raced,             \* history: reader -> what was done to the entry it is at, and when
    found,             \* history: node -> samples by goroutines that found it in the map
    reported           \* history: metrics handed to the message queue

records == <<segmentNodes, readers, allocated, made, reservoir, numSamples>>
threads == <<pc, call, calls>>
report  == <<rpc, outgoing, current, measurement, reports>>
reading == <<dpc, unread, key, lastRead, operations, raced>>
history == <<found, reported>>
vars == <<records, segmentDurations, threads, report, reading, history>>

Call == [name : Names, node : NodeIds \cup {NoNode}, late : BOOLEAN, rLen : Nat]

NoCall == [name |-> CHOOSE s \in Names : TRUE, node |-> NoNode, late |-> FALSE, rLen |-> 0]

NothingRead == [s \in Names |-> Absent]

Init ==
    /\ segmentNodes = [s \in Names |-> NoNode]
    /\ segmentDurations = [s \in Names |-> Absent]
    /\ readers = {} /\ allocated = 0
    /\ made = [n \in NodeIds |-> 0]
    /\ reservoir = [n \in NodeIds |-> <<>>]
    /\ numSamples = [n \in NodeIds |-> 0]
    /\ pc = [t \in Recorders |-> "idle"]
    /\ call \in [Recorders -> {NoCall}]
    /\ calls = [t \in Recorders |-> 0]
    /\ rpc = "idle" /\ outgoing = {} /\ current = NoNode /\ measurement = 0 /\ reports = 0
    /\ dpc = [r \in Readers |-> "idle"]
    /\ unread = [r \in Readers |-> {}]
    /\ key = [r \in Readers |-> NoCall.name]
    /\ lastRead = [r \in Readers |-> NothingRead]
    /\ operations = 0
    /\ raced = [r \in Readers |-> {}]
    /\ found = [n \in NodeIds |-> 0]
    /\ reported = {}
-------------------------------------------------------------------------------
Goto(t, label) == pc' = [pc EXCEPT ![t] = label]
Return(t) == Goto(t, "idle") /\ call' = [call EXCEPT ![t] = NoCall]
Node(t) == call[t].node

(* Mutant: the read lock is released before updateP95. *)
BeginUnlocked(t, s) ==
    /\ pc[t] = "idle" /\ calls[t] < MaxCalls[t] /\ operations < MaxOperations
    /\ operations' = operations + 1
    /\ calls' = [calls EXCEPT ![t] = @ + 1]
    /\ call' = [call EXCEPT ![t] = [name |-> s, node |-> segmentNodes[s],
                                    late |-> segmentNodes[s] = NoNode, rLen |-> 0]]
    /\ Goto(t, IF segmentNodes[s] # NoNode THEN "update" ELSE "create")
    /\ UNCHANGED <<readers, segmentNodes, allocated, made, reservoir, numSamples,
                   segmentDurations, report, dpc, unread, key, lastRead, raced, history>>

(* The lookup under RLock.  The lock is kept for updateP95 when the segment *)
(* exists, and released when it does not.                                   *)
Begin(t, s) ==
    /\ pc[t] = "idle" /\ calls[t] < MaxCalls[t] /\ operations < MaxOperations
    /\ operations' = operations + 1
    /\ calls' = [calls EXCEPT ![t] = @ + 1]
    /\ call' = [call EXCEPT ![t] = [name |-> s, node |-> segmentNodes[s],
                                    late |-> segmentNodes[s] = NoNode, rLen |-> 0]]
    /\ IF segmentNodes[s] # NoNode
       THEN readers' = readers \cup {t} /\ Goto(t, "update")
       ELSE readers' = readers /\ Goto(t, "create")
    /\ UNCHANGED <<segmentNodes, allocated, made, reservoir, numSamples,
                   segmentDurations, report, dpc, unread, key, lastRead, raced, history>>

(* Under Lock: use the node another call created meanwhile, or create one. *)
Create(t) ==
    LET s == call[t].name
        n == IF segmentNodes[s] = NoNode THEN allocated + 1 ELSE segmentNodes[s]
    IN  /\ pc[t] = "create" /\ readers = {}
        /\ n \in NodeIds
        /\ segmentNodes' = [segmentNodes EXCEPT ![s] = n]
        /\ allocated' = IF n > allocated THEN n ELSE allocated
        /\ call' = [call EXCEPT ![t].node = n]
        /\ Goto(t, "relock")
        /\ UNCHANGED <<readers, made, reservoir, numSamples, calls,
                       segmentDurations, report, reading, history>>

(* RLock again, for updateP95 on the node found or created before. *)
Relock(t) ==
    /\ pc[t] = "relock"
    /\ readers' = readers \cup {t}
    /\ Goto(t, "update")
    /\ UNCHANGED <<segmentNodes, allocated, made, reservoir, numSamples, call, calls,
                   segmentDurations, report, reading, history>>

(* Mutants: a full reservoir takes one more; the last place is never appended. *)
ReadFull(t) ==
    /\ pc[t] = "update"
    /\ call' = [call EXCEPT ![t].rLen = Len(reservoir[Node(t)])]
    /\ Goto(t, IF made[Node(t)] = 0 THEN "make"
               ELSE IF Len(reservoir[Node(t)]) <= ReservoirSize THEN "append" ELSE "store")
    /\ UNCHANGED <<records, calls, segmentDurations, report, reading, history>>
ReadAlmostFull(t) ==
    /\ pc[t] = "update"
    /\ call' = [call EXCEPT ![t].rLen = Len(reservoir[Node(t)])]
    /\ Goto(t, IF made[Node(t)] = 0 THEN "make"
               ELSE IF Len(reservoir[Node(t)]) + 1 < ReservoirSize THEN "append" ELSE "store")
    /\ UNCHANGED <<records, calls, segmentDurations, report, reading, history>>

(* updateP95 looks at the reservoir under updateLock.RLock. *)
ReadReservoir(t) ==
    LET n == Node(t)
        rLen == Len(reservoir[n])
    IN  /\ pc[t] = "update"
        /\ call' = [call EXCEPT ![t].rLen = rLen]
        /\ Goto(t, IF made[n] = 0 THEN "make"
                   ELSE IF rLen < ReservoirSize THEN "append" ELSE "store")
        /\ UNCHANGED <<records, calls, segmentDurations, report, reading, history>>

(* A nil reservoir is made under updateLock, without looking again. *)
Make(t) ==
    /\ pc[t] = "make"
    /\ made' = [made EXCEPT ![Node(t)] = @ + 1]
    /\ reservoir' = [reservoir EXCEPT ![Node(t)] = <<>>]
    /\ Goto(t, "append")
    /\ UNCHANGED <<segmentNodes, readers, allocated, numSamples, call, calls,
                   segmentDurations, report, reading, history>>

AppendSample(t) ==
    /\ pc[t] = "append"
    /\ reservoir' = [reservoir EXCEPT ![Node(t)] = Append(@, Duration[t])]
    /\ Goto(t, "count")
    /\ UNCHANGED <<segmentNodes, readers, allocated, made, numSamples, call, calls,
                   segmentDurations, report, reading, history>>

(* Without a lock: a sample of a full reservoir is replaced.  The index was     *)
(* drawn for ReservoirSize elements; in a shorter reservoir it may be out of    *)
(* range, and the goroutine panics with recordLock.RLock held.                  *)
StoreSample(t) ==
    /\ pc[t] = "store"
    /\ \E i \in 1..ReservoirSize :
          IF i <= Len(reservoir[Node(t)])
          THEN /\ reservoir' = [reservoir EXCEPT ![Node(t)][i] = Duration[t]]
               /\ Goto(t, "count")
          ELSE /\ reservoir' = reservoir
               /\ Goto(t, "panicked")
    /\ UNCHANGED <<segmentNodes, readers, allocated, made, numSamples, call, calls,
                   segmentDurations, report, reading, history>>

(* Mutant: the count goes the wrong way. *)
CountDown(t) ==
    /\ pc[t] = "count"
    /\ numSamples' = [numSamples EXCEPT ![Node(t)] = @ - 1]
    /\ readers' = readers \ {t}
    /\ found' = found
    /\ Goto(t, "duration")
    /\ UNCHANGED <<segmentNodes, allocated, made, reservoir, call, calls,
                   segmentDurations, report, reading, reported>>


(* atomic.AddInt64 on numSamples, then recordLock.RUnlock. *)
CountSample(t) ==
    /\ pc[t] = "count"
    /\ numSamples' = [numSamples EXCEPT ![Node(t)] = @ + 1]
    /\ readers' = readers \ {t}
    /\ \/ call[t].late /\ found' = found
       \/ ~call[t].late /\ found' = [found EXCEPT ![Node(t)] = @ + 1]
    /\ Goto(t, "duration")
    /\ UNCHANGED <<segmentNodes, allocated, made, reservoir, call, calls,
                   segmentDurations, report, reading, reported>>

(* What is done to an entry is noted for every reader that is at it, with the  *)
(* label it has reached: "load" between its two loads, "mark" behind them.     *)
NotedAs(event, s) ==
    [r \in Readers |-> IF dpc[r] \in {"load", "mark"} /\ key[r] = s
                       THEN raced[r] \cup {<<dpc[r], event>>} ELSE raced[r]]

(* The last duration: stored under RLock when the segment has one. *)
StoreDuration(t) ==
    LET s == call[t].name IN
    /\ pc[t] = "duration"
    /\ IF segmentDurations[s] # Absent
       THEN /\ segmentDurations' = [segmentDurations EXCEPT ![s] = Duration[t]]
            /\ raced' = NotedAs("store", s)
            /\ Return(t)
       ELSE UNCHANGED <<segmentDurations, raced, call>> /\ Goto(t, "newDuration")
    /\ UNCHANGED <<records, calls, report, dpc, unread, key, lastRead, operations, history>>

(* Otherwise a new cell is stored under Lock, without looking again. *)
NewDuration(t) ==
    /\ pc[t] = "newDuration" /\ readers = {}
    /\ segmentDurations' = [segmentDurations EXCEPT ![call[t].name] = Duration[t]]
    /\ Return(t)
    /\ UNCHANGED <<records, calls, report, reading, history>>
-------------------------------------------------------------------------------
LiveNodes == {segmentNodes[s] : s \in Names} \ {NoNode}

(* Mutant: the map is swapped under the read lock. *)
SwapUnlocked ==
    /\ rpc = "idle" /\ reports < MaxReports
    /\ reports' = reports + 1
    /\ outgoing' = LiveNodes
    /\ segmentNodes' = [s \in Names |-> NoNode]
    /\ rpc' = IF LiveNodes = {} THEN "idle" ELSE "check"
    /\ UNCHANGED <<readers, allocated, made, reservoir, numSamples, current, measurement,
                   segmentDurations, threads, reading, history>>

(* report swaps the map for an empty one under Lock. *)
Swap ==
    /\ rpc = "idle" /\ reports < MaxReports /\ readers = {}
    /\ reports' = reports + 1
    /\ outgoing' = LiveNodes
    /\ segmentNodes' = [s \in Names |-> NoNode]
    /\ rpc' = IF LiveNodes = {} THEN "idle" ELSE "check"
    /\ UNCHANGED <<readers, allocated, made, reservoir, numSamples, current, measurement,
                   segmentDurations, threads, reading, history>>

(* The nodes come in any order.  evaluateP95 skips a nil or empty reservoir and *)
(* leaves the node's measurement at 0.                                          *)
CheckReservoir(n) ==
    /\ rpc = "check" /\ n \in outgoing
    /\ outgoing' = outgoing \ {n}
    /\ current' = n
    /\ rpc' = IF made[n] # 0 /\ Len(reservoir[n]) > 0 THEN "measure" ELSE "propagate"
    /\ measurement' = 0
    /\ UNCHANGED <<records, segmentDurations, threads, reports, reading, history>>

(* The 95th percentile of the sorted reservoir; the order the sort leaves is    *)
(* not kept, nothing else reads it.  When a late call has made the reservoir    *)
(* anew the index is out of range: the reporter's goroutine recovers outside    *)
(* its loop and ends.                                                           *)
Measure ==
    /\ rpc = "measure"
    /\ IF P95InRange(reservoir[current])
       THEN measurement' = P95(reservoir[current]) /\ rpc' = "reset"
       ELSE measurement' = measurement /\ rpc' = "dead"
    /\ UNCHANGED <<records, segmentDurations, threads, outgoing, current, reports,
                   reading, history>>

(* bn.reservoir = bn.reservoir[:0] *)
ResetReservoir ==
    /\ rpc = "reset"
    /\ reservoir' = [reservoir EXCEPT ![current] = <<>>]
    /\ rpc' = "propagate"
    /\ UNCHANGED <<segmentNodes, readers, allocated, made, numSamples, segmentDurations,
                   threads, outgoing, current, measurement, reports, reading, history>>

(* propagate sums the node into its root, and the metric goes to the queue. *)
Propagate ==
    /\ rpc = "propagate"
    /\ reported' = reported \cup {[node |-> current, measurement |-> measurement,
                                   numSamples |-> numSamples[current]]}
    /\ rpc' = IF outgoing = {} THEN "idle" ELSE "check"
    /\ current' = NoNode /\ measurement' = 0
    /\ UNCHANGED <<records, segmentDurations, threads, outgoing, reports, reading, found>>
-------------------------------------------------------------------------------
(* readLastDurations, called from outside the agent (by the tests alone), under *)
(* one RLock, which several callers may hold at once.                           *)
GotoRead(r, label) == dpc' = [dpc EXCEPT ![r] = label]

ReadDurations(r) ==
    /\ dpc[r] = "idle" /\ operations < MaxOperations
    /\ operations' = operations + 1
    /\ readers' = readers \cup {r}
    /\ unread' = [unread EXCEPT ![r] = {s \in Names : segmentDurations[s] # Absent}]
    /\ GotoRead(r, "next")
    /\ UNCHANGED <<segmentNodes, allocated, made, reservoir, numSamples, key, lastRead, raced,
                   segmentDurations, threads, report, history>>

(* The first load: a duration that was read already is skipped. *)
FirstLoad(r, s) ==
    /\ dpc[r] = "next" /\ s \in unread[r]
    /\ key' = [key EXCEPT ![r] = s]
    /\ unread' = [unread EXCEPT ![r] = @ \ {s}]
    /\ GotoRead(r, IF segmentDurations[s] = ReadMark THEN "next" ELSE "load")
    /\ UNCHANGED <<records, segmentDurations, threads, report, lastRead, operations, raced, history>>

(* Mutant: the mark is stored before the duration is loaded again. *)
LoadAfterMark(r) ==
    /\ dpc[r] = "load"
    /\ lastRead' = [lastRead EXCEPT ![r][key[r]] = ReadMark]
    /\ GotoRead(r, "mark")
    /\ UNCHANGED <<records, segmentDurations, threads, report, unread, key, operations, raced, history>>

(* The second load: the duration returned. *)
SecondLoad(r) ==
    /\ dpc[r] = "load"
    /\ lastRead' = [lastRead EXCEPT ![r][key[r]] = segmentDurations[key[r]]]
    /\ GotoRead(r, "mark")
    /\ UNCHANGED <<records, segmentDurations, threads, report, unread, key, operations, raced, history>>

(* The mark overwrites whatever was stored since. *)
MarkRead(r) ==
    /\ dpc[r] = "mark"
    /\ segmentDurations' = [segmentDurations EXCEPT ![key[r]] = ReadMark]
    /\ raced' = [NotedAs("mark", key[r]) EXCEPT ![r] = {}]
    /\ GotoRead(r, "next")
    /\ UNCHANGED <<records, threads, report, unread, key, lastRead, operations, history>>

(* The map is the caller's from here on. *)
ReadReturns(r) ==
    /\ dpc[r] = "next" /\ unread[r] = {}
    /\ readers' = readers \ {r}
    /\ lastRead' = [lastRead EXCEPT ![r] = NothingRead]
    /\ GotoRead(r, "idle")
    /\ UNCHANGED <<segmentNodes, allocated, made, reservoir, numSamples, key, raced,
                   segmentDurations, threads, report, unread, operations, history>>
-------------------------------------------------------------------------------
(* Only the bounds, and a read lock that a recovered panic left behind, stop *)
(* the model.                                                                *)
LockLeaked == \E t \in readers \cap Recorders : pc[t] = "panicked"
BoundReached ==
    /\ rpc = "dead" \/ (rpc = "idle" /\ (reports = MaxReports \/ LockLeaked))
    /\ operations = MaxOperations \/ \A t \in Recorders : calls[t] = MaxCalls[t]
    /\ \A r \in Readers : dpc[r] = "idle"
    /\ \A t \in Recorders :
          \/ pc[t] \in {"idle", "panicked"}
          \/ pc[t] \in {"create", "newDuration"} /\ LockLeaked
    /\ UNCHANGED vars

UpdateP95(t) ==
    ReadReservoir(t) \/ Make(t) \/ AppendSample(t) \/ StoreSample(t) \/ CountSample(t)
RecordSegment(t) ==
    Create(t) \/ Relock(t) \/ UpdateP95(t) \/ StoreDuration(t) \/ NewDuration(t)
EvaluateP95 ==
    (\E n \in NodeIds : CheckReservoir(n)) \/ Measure \/ ResetReservoir \/ Propagate
ReadLastDurations(r) ==
    (\E s \in Names : FirstLoad(r, s)) \/ SecondLoad(r) \/ MarkRead(r) \/ ReadReturns(r)

Next ==
    \/ \E t \in Recorders : (\E s \in Names : Begin(t, s)) \/ RecordSegment(t)
    \/ Swap \/ EvaluateP95
    \/ \E r \in Readers : ReadDurations(r) \/ ReadLastDurations(r)
    \/ BoundReached

(* A goroutine inside recordSegment is scheduled until it returns, a report   *)
(* until it is done, a read until it returns; nothing forces them to begin.   *)
Fairness ==
    /\ \A t \in Recorders : WF_vars(RecordSegment(t))
    /\ WF_vars(EvaluateP95)
    /\ \A r \in Readers : WF_vars(ReadLastDurations(r))

Spec == Init /\ [][Next]_vars
FairSpec == Spec /\ Fairness
-------------------------------------------------------------------------------
Updating == {"update", "make", "append", "store", "count"}
Labels == Updating \cup {"idle", "create", "relock", "duration", "newDuration", "panicked"}
ReportLabels == {"idle", "check", "measure", "reset", "propagate", "dead"}

(* Types of segment_reporter.go's variables. *)
TypeOK ==
    /\ segmentNodes \in [Names -> NodeIds \cup {NoNode}]
    /\ segmentDurations \in [Names -> Int]
    /\ readers \subseteq Recorders \cup Readers
    /\ allocated \in 0..MaxNodes
    /\ made \in [NodeIds -> Nat]
    /\ reservoir \in [NodeIds -> Seq(Nat)]
    /\ numSamples \in [NodeIds -> Nat]
    /\ pc \in [Recorders -> Labels]
    /\ call \in [Recorders -> Call]
    /\ calls \in [Recorders -> Nat]
    /\ rpc \in ReportLabels
    /\ outgoing \subseteq NodeIds
    /\ current \in NodeIds \cup {NoNode}
    /\ measurement \in Nat
    /\ reports \in Nat
    /\ dpc \in [Readers -> {"idle", "next", "load", "mark"}]
    /\ unread \in [Readers -> SUBSET Names]
    /\ key \in [Readers -> Names]
    /\ lastRead \in [Readers -> [Names -> Int]]
    /\ operations \in Nat
    /\ raced \in [Readers -> SUBSET ({"load", "mark"} \X {"store", "mark"})]
    /\ found \in [NodeIds -> Nat]
    /\ reported \subseteq [node : NodeIds, measurement : Nat, numSamples : Nat]

(* metric.go:123 bounds a reservoir by ReservoirSize; goroutines that all read  *)
(* the length before any of them appends overshoot it, but by less than their   *)
(* number.                                                                      *)
ReservoirBound ==
    \A n \in NodeIds : Len(reservoir[n]) <= ReservoirSize + Cardinality(Recorders) - 1

(* A call that found its node in the map works on a node of the map until it    *)
(* has counted its sample: report cannot swap the map under it.                 *)
FoundIsLive ==
    \A t \in Recorders : pc[t] \in Updating /\ ~call[t].late =>
        segmentNodes[call[t].name] = call[t].node

(* So every sample of such a call is in its node's metric; nothing is added to  *)
(* the count after the report.                                                  *)
FoundAreReported ==
    \A r \in reported : found[r.node] <= r.numSamples /\ r.numSamples <= numSamples[r.node]

(* The unlocked store is out of range only when the nil reservoir was made      *)
(* twice, or when the call came late and the report had reset the reservoir; and *)
(* evaluateP95 reads past the end of a reservoir it found filled, which ends the *)
(* reporter's goroutine, only when the reservoir was made twice.                 *)
PanicNeedsRace ==
    /\ \A t \in Recorders : pc[t] = "panicked" => made[Node(t)] > 1 \/ call[t].late
    /\ rpc = "dead" => made[current] > 1

(* readLastDurations returns the mark -1 for a duration only when another caller *)
(* stored it between its two loads, and what it is about to mark as read is what *)
(* it returns unless a recorder or another caller stored between its second load *)
(* and its mark: only such a store is lost, and only there.                      *)
TakesWhatItMarks ==
    \A r \in Readers : dpc[r] = "mark" =>
        /\ lastRead[r][key[r]] = ReadMark => <<"load", "mark">> \in raced[r]
        /\ \/ segmentDurations[key[r]] = lastRead[r][key[r]]
           \/ \E event \in {"store", "mark"} : <<"mark", event>> \in raced[r]

(* Every recordSegment ends, with a panic in updateP95 at worst, every report    *)
(* ends, with the end of the reporter's goroutine at worst, every read returns,  *)
(* and each gives its locks back.  Only a read lock that a panic has left behind *)
(* keeps the calls that want the write lock waiting.  The bounds let finitely    *)
(* many calls begin: from some step on all of them have ended.                   *)
Returned ==
    /\ \A t \in Recorders :
          \/ pc[t] = "idle" /\ t \notin readers
          \/ pc[t] = "panicked"
          \/ pc[t] \in {"create", "newDuration"} /\ t \notin readers /\ LockLeaked
    /\ \A r \in Readers : dpc[r] = "idle" /\ r \notin readers
    /\ rpc \in {"idle", "dead"}

(* agent.go:124 says that after Stop "the segment is recorded, aggregated and     *)
(* reported": once everything has returned and no node is left in the map, every  *)
(* recorded sample is in a metric.                                                *)
EverySampleReported ==
    /\ \A t \in Recorders : pc[t] = "idle"
    /\ rpc = "idle" /\ LiveNodes = {}
    => \A n \in NodeIds : numSamples[n] > 0 => \E r \in reported :
           r.node = n /\ r.numSamples = numSamples[n]
=============================================================================
