------------------------------- MODULE CallGraph -------------------------------
(* The call graphs the profilers build from the profiles they read and report  *)
(* (internal/cpu_reporter.go, block_reporter.go, allocation_reporter.go, the   *)
(* tree of internal/breakdown_node.go). A node is the path of frames from the  *)
(* root to it; a tree is a function from its nodes to their measurement and    *)
(* number of samples. Profilers has the lock and the failures around records   *)
(* and reports: here each of them is alone. Measurements and durations stay in *)
(* the unit of the profile: a percentage is compared as a fraction of the      *)
(* total, a rate as a fraction of the duration.                                *)
EXTENDS Profile

CONSTANTS
    CPUProfiles,        \* messages the Go runtime writes, of its three profiles
    BlockProfiles,
    HeapProfiles,
    Durations,          \* of a record
    NumCPU,
    Goexit,             \* "runtime.goexit"
    AgentFiles,         \* files with agentPath in their name: of another repository
    ServeHTTPNames,     \* functions named ".ServeHTTP"
    ServerFiles,        \* files named "server.go"
    ProfileAgent,
    MinAllocation,      \* bytes a node needs to be reported
    MaxRecords          \* bound

VARIABLES
    trees,      \* cr.profile, br.blockProfile, br.httpProfile and rootNode
    durations,  \* cr.profileDuration, br.profileDuration
    prevValues, \* br.prevValues: key -> the values last read
    job,        \* whose profile is being added, or was the last
    samples,    \* the samples of that profile, with its locations
    next,       \* index of the next of them
    reported,   \* graph -> tree and range of the last metric
    records     \* profiles read

graphVars == <<trees, durations, prevValues, job, samples, next, reported, records>>

Graphs == {"cpu", "block", "http", "allocation"}

(* newBreakdownNode("root") *)
NewTree == [node \in {<<>>} |-> [measurement |-> 0, numSamples |-> 0]]

(* What a filter keeps: scaled measurements from low, up to high if bounded. *)
Percent(total) == [scale |-> 100, low |-> total, high |-> total, bounded |-> TRUE]
Rate(d)        == [scale |-> 1, low |-> d, high |-> 0, bounded |-> FALSE]

GraphInit ==
    /\ trees = [g \in Graphs |-> NewTree]
    /\ durations = [r \in {"cpu", "block"} |-> 0]
    /\ prevValues = [key \in {} |-> [value |-> 0, count |-> 0]]
    /\ job = "none" /\ samples = <<>> /\ next = 1
    /\ reported = [g \in Graphs |->
                    [tree |-> NewTree, range |-> IF g \in {"cpu", "http"} THEN Percent(0) ELSE Rate(0)]]
    /\ records \in {0, MaxRecords}

(* The report of allocations is the only one that goes on after the samples. *)
Idle == next \notin DOMAIN samples /\ job # "allocation"

(* The names of the values a reporter takes from a profile, and their places:   *)
(* the allocation reporter stops at the first of a name, the others do not.    *)
ValueNames ==
    [cpu        |-> [value |-> "cpu", count |-> "samples"],
     block      |-> [value |-> "delay", count |-> "contentions"],
     allocation |-> [value |-> "inuse_space", count |-> "inuse_objects"]]
TypeIndex(kind, w, name) ==
    IF kind = "allocation" THEN SelectInSeq(w.types, LAMBDA t : t = name)
                           ELSE SelectLastInSeq(w.types, LAMBDA t : t = name)
ValueIndex(kind, w) == TypeIndex(kind, w, ValueNames[kind].value)
CountIndex(kind, w) == TypeIndex(kind, w, ValueNames[kind].count)
Recognized(kind, w) == ValueIndex(kind, w) # 0 /\ CountIndex(kind, w) # 0

(* readFuncInfo: the first line that has a function. *)
FuncInfo(p, l) ==
    LET i == SelectInSeq(p.locations[l].lines, LAMBDA ln : ln.function # Nil)
        line == p.locations[l].lines[i]
    IN IF i = 0 THEN [name |-> "", file |-> "", line |-> 0]
       ELSE [name |-> p.functions[line.function].name,
             file |-> p.functions[line.function].file, line |-> line.line]

(* The frames of a sample from the root to the leaf, without goexit; whether   *)
(* the sample is what isAgentStack takes for the agent, or of an HTTP handler. *)
FramesOf(p, s) ==
    SelectSeq(Reverse([i \in DOMAIN s.locations |-> FuncInfo(p, s.locations[i])]),
              LAMBDA f : f.name # Goexit)
IsAgentStack(p, s) == \E l \in ToSet(s.locations) : FuncInfo(p, l).file \in AgentFiles
Skipped(p, s) == ~ProfileAgent /\ IsAgentStack(p, s)
IsHTTPStack(p, s) ==
    \E l \in ToSet(s.locations) :
        FuncInfo(p, l).name \in ServeHTTPNames /\ FuncInfo(p, l).file \in ServerFiles

(* A sample as the loops over p.Sample see it; its key is that of              *)
(* generateValueKey.                                                           *)
SampleOf(kind, w, p, i) ==
    [frames  |-> FramesOf(p, p.samples[i]),
     skipped |-> Skipped(p, p.samples[i]),
     http    |-> IsHTTPStack(p, p.samples[i]),
     key     |-> [j \in DOMAIN p.samples[i].locations |->
                    p.locations[p.samples[i].locations[j]].address],
     value   |-> w.samples[i].values[ValueIndex(kind, w)],
     count   |-> w.samples[i].values[CountIndex(kind, w)]]
SamplesOf(kind, w, p) == [i \in DOMAIN w.samples |-> SampleOf(kind, w, p, i)]

(* What the agent relies on in a profile of the runtime: it is well typed, no   *)
(* value is negative, and a stack is a sequence of frames.                     *)
Frame == [name : STRING, file : STRING, line : Int]
ASSUME CallGraphAssumption ==
    /\ \A w \in CPUProfiles \cup BlockProfiles \cup HeapProfiles :
        /\ w.types \in Seq(STRING) /\ DOMAIN w.samples \subseteq Nat
        /\ \A i \in DOMAIN w.samples : \A j \in DOMAIN w.types : w.samples[i].values[j] \in Nat
        /\ Parses(w) =>
            LET p == SymbolizeProfile(Parse(w))
            IN \A i \in DOMAIN w.samples : FramesOf(p, p.samples[i]) \in Seq(Frame)
    /\ Durations \subseteq Nat \ {0} /\ NumCPU \in Nat /\ MaxRecords \in Nat

(* The values last read for a stack. *)
Seen(key) == IF key \in DOMAIN prevValues THEN prevValues[key] ELSE [value |-> 0, count |-> 0]

(* The runtime's block profile has a stack once, and its values only grow. *)
Cumulative(read) ==
    /\ \A i, j \in DOMAIN read : read[i].key = read[j].key => i = j
    /\ \A i \in DOMAIN read :
        Seen(read[i].key).value <= read[i].value /\ Seen(read[i].key).count <= read[i].count

(* A profile is read, given symbols and checked.  Its samples are added one by  *)
(* one below, before anything else can happen.                                 *)
Valid(w) == Parses(w) /\ CheckValid(SymbolizeProfile(Parse(w)))
CanRead == Idle /\ records < MaxRecords
StartAdding(kind, read) ==
    /\ records' = records + 1
    /\ job' = kind /\ samples' = read /\ next' = 1
    /\ UNCHANGED <<trees, prevValues, reported>>
Lasts(kind, d) == durations' = [durations EXCEPT ![kind] = @ + d]

(* CPUReporter.record: a profile without the types of a CPU profile adds no     *)
(* sample, but its duration.                                                   *)
RecordCPU(w, d) ==
    /\ CanRead /\ Valid(w)
    /\ StartAdding("cpu", IF Recognized("cpu", w)
                          THEN SamplesOf("cpu", w, SymbolizeProfile(Parse(w))) ELSE <<>>)
    /\ Lasts("cpu", d)

(* BlockReporter.record. *)
RecordBlock(w, d) ==
    /\ CanRead /\ Valid(w) /\ Recognized("block", w)
    /\ LET read == SamplesOf("block", w, SymbolizeProfile(Parse(w)))
       IN Cumulative(read) /\ StartAdding("block", read)
    /\ Lasts("block", d)

(* AllocationReporter.report, which keeps nothing from one to the next. *)
ReadAllocation(w) ==
    /\ CanRead /\ Valid(w) /\ Recognized("allocation", w)
    /\ StartAdding("allocation", SamplesOf("allocation", w, SymbolizeProfile(Parse(w))))
    /\ UNCHANGED durations

(* An error: not parsed, or not valid once it has symbols, since                *)
(* symbolizeProfile numbers functions by the length of their table; for two of *)
(* the reporters, not of the right types either.                               *)
ReadFails(kind, w) ==
    /\ CanRead /\ (Valid(w) => kind # "cpu" /\ ~Recognized(kind, w))
    /\ records' = records + 1
    /\ UNCHANGED <<trees, durations, prevValues, job, samples, next, reported>>

--------------------------------------------------------------------------------

(* The nodes a stack passes: the root, and one for each frame. *)
Node(frames, depth) == [i \in 1..depth |-> frames[i]]
NodesOf(frames) == {Node(frames, depth) : depth \in 0..Len(frames)}
Parent(node) == Front(node)

ValueAt(t, node) ==
    IF node \in DOMAIN t THEN t[node] ELSE [measurement |-> 0, numSamples |-> 0]

(* Mutant: only the innermost frame is incremented. *)
IncrementLeaf(t, s) ==
    [node \in DOMAIN t \cup NodesOf(s.frames) |->
        IF node = s.frames
        THEN [measurement |-> ValueAt(t, node).measurement + s.value,
              numSamples  |-> ValueAt(t, node).numSamples + s.count]
        ELSE ValueAt(t, node)]

(* findOrAddChild and increment along one stack. *)
IncrementStack(t, s) ==
    [node \in DOMAIN t \cup NodesOf(s.frames) |->
        IF node \in NodesOf(s.frames)
        THEN [measurement |-> ValueAt(t, node).measurement + s.value,
              numSamples  |-> ValueAt(t, node).numSamples + s.count]
        ELSE ValueAt(t, node)]

(* One sample of the loop over p.Sample, for each reporter. *)
Adding(kind) == job = kind /\ next \in DOMAIN samples
Incremented(t, s, counts) == IF counts THEN IncrementStack(t, s) ELSE t
Advance == next' = next + 1 /\ UNCHANGED <<durations, job, samples, reported, records>>

AddCPUSample ==
    /\ Adding("cpu")
    /\ trees' = [trees EXCEPT !.cpu = Incremented(@, samples[next], ~samples[next].skipped)]
    /\ Advance /\ UNCHANGED prevValues

AddAllocation ==
    /\ Adding("allocation")
    /\ trees' = [trees EXCEPT !.allocation =
                    Incremented(@, samples[next], ~samples[next].skipped /\ samples[next].value # 0)]
    /\ Advance /\ UNCHANGED prevValues

(* getValueChange, and the change as a sample. *)
Change(s) ==
    [frames |-> s.frames,
     value  |-> s.value - Seen(s.key).value,
     count  |-> s.count - Seen(s.key).count]
Remembering(s) ==
    [key \in DOMAIN prevValues \cup {s.key} |->
        IF key = s.key THEN [value |-> s.value, count |-> s.count] ELSE prevValues[key]]
AddDelay ==
    LET s      == samples[next]
        change == Change(s)
        counts == ~s.skipped /\ change.count # 0 /\ change.value # 0
    IN  /\ Adding("block")
        /\ prevValues' = IF s.skipped THEN prevValues ELSE Remembering(s)
        /\ trees' = [trees EXCEPT !.block = Incremented(@, change, counts),
                                  !.http  = Incremented(@, change, counts /\ s.http)]
        /\ Advance

--------------------------------------------------------------------------------

(* filter(2, min, max): the children of the root always stay, deeper nodes when *)
(* they are in the range. A percentage of zero is infinite, or not a number and *)
(* then kept; so is a rate.                                                    *)
InRange(m, range) ==
    /\ range.low <= range.scale * m
    /\ range.bounded => m <= range.high
Stays(t, node, range) == Len(node) >= 2 => InRange(t[node].measurement, range)

(* Mutant: the children of a dropped node stay. *)
FilterEachNode(t, range) ==
    [node \in {n \in DOMAIN t : Stays(t, n, range)} |-> t[node]]

Filter(t, range) ==
    [node \in {n \in DOMAIN t : \A depth \in 0..Len(n) : Stays(t, SubSeq(n, 1, depth), range)} |->
        t[node]]

Shown(t, range) == [tree |-> Filter(t, range), range |-> range]

(* CPUReporter.report, from one to a hundred percent of the time of all CPUs. *)
ReportCPU ==
    /\ Idle
    /\ reported' = [reported EXCEPT !.cpu = Shown(trees.cpu, Percent(durations.cpu * NumCPU))]
    /\ trees' = [trees EXCEPT !.cpu = NewTree]
    /\ durations' = [durations EXCEPT !.cpu = 0]
    /\ UNCHANGED <<prevValues, job, samples, next, records>>

(* BlockReporter.report: from a millisecond of every second on, and of that     *)
(* what HTTP handlers wait for from one to a hundred percent.                  *)
ReportBlock ==
    LET total  == trees.block[<<>>].measurement
        shared == total > 0 /\ trees.http[<<>>].numSamples > 0
    IN  /\ Idle
        /\ reported' = [reported EXCEPT
                !.block = Shown(trees.block, Rate(durations.block)),
                !.http  = IF shared THEN Shown(trees.http, Percent(total)) ELSE @]
        /\ trees' = [trees EXCEPT !.block = NewTree, !.http = NewTree]
        /\ durations' = [durations EXCEPT !.block = 0]
        /\ UNCHANGED <<prevValues, job, samples, next, records>>

(* The rest of AllocationReporter.report. *)
ReportAllocation ==
    /\ job = "allocation" /\ next \notin DOMAIN samples
    /\ reported' = [reported EXCEPT !.allocation = Shown(trees.allocation, Rate(MinAllocation))]
    /\ trees' = [trees EXCEPT !.allocation = NewTree]
    /\ job' = "none"
    /\ UNCHANGED <<durations, prevValues, samples, next, records>>

ReadNext ==
    \/ \E w \in CPUProfiles : ReadFails("cpu", w) \/ \E d \in Durations : RecordCPU(w, d)
    \/ \E w \in BlockProfiles : ReadFails("block", w) \/ \E d \in Durations : RecordBlock(w, d)
    \/ \E w \in HeapProfiles : ReadFails("allocation", w) \/ ReadAllocation(w)
GraphNext ==
    \/ ReadNext
    \/ AddCPUSample \/ AddDelay \/ AddAllocation
    \/ ReportCPU \/ ReportBlock \/ ReportAllocation

GraphSpec == GraphInit /\ [][GraphNext]_graphVars

--------------------------------------------------------------------------------

Typed(t) ==
    \A node \in DOMAIN t :
        node \in Seq(Frame) /\ t[node] \in [measurement : Nat, numSamples : Nat]
GraphTypeOK ==
    /\ DOMAIN trees = Graphs /\ \A g \in Graphs : Typed(trees[g])
    /\ durations \in [{"cpu", "block"} -> Nat]
    /\ \A key \in DOMAIN prevValues : prevValues[key] \in [value : Nat, count : Nat]
    /\ job \in {"none", "cpu", "block", "allocation"}
    /\ \A i \in DOMAIN samples :
        samples[i].frames \in Seq(Frame) /\ samples[i].value \in Nat /\ samples[i].count \in Nat
    /\ next \in Nat /\ records \in 0..MaxRecords
    /\ DOMAIN reported = Graphs

(* Every node but the root has its parent in the tree, with at least as much. *)
Ordered(t) ==
    \A node \in DOMAIN t : node # <<>> =>
        /\ Parent(node) \in DOMAIN t
        /\ t[node].measurement <= t[Parent(node)].measurement
        /\ t[node].numSamples <= t[Parent(node)].numSamples
Within(part, whole) ==
    \A node \in DOMAIN part :
        /\ node \in DOMAIN whole
        /\ part[node].measurement <= whole[node].measurement
        /\ part[node].numSamples <= whole[node].numSamples

(* What was spent in a frame was spent in its caller too (cpu_reporter.go:124,  *)
(* block_reporter.go:151, allocation_reporter.go:133), over records that add    *)
(* only what changed since the last; and what HTTP handlers wait for is part of *)
(* all waiting, so that its share is at most the whole.                        *)
NoChildAbove ==
    /\ \A g \in Graphs : Ordered(trees[g])
    /\ Within(trees.http, trees.block)

(* What a metric shows (cpu_reporter.go:86, block_reporter.go:94 and 103,        *)
(* allocation_reporter.go:84): a whole tree, in which no node from the second   *)
(* level on is out of the range of the filter, and none is above its parent.   *)
ReportedTree ==
    \A g \in Graphs : \A node \in DOMAIN reported[g].tree : node # <<>> =>
        /\ Parent(node) \in DOMAIN reported[g].tree
        /\ reported[g].tree[node].measurement <= reported[g].tree[Parent(node)].measurement
        /\ Len(node) >= 2 => InRange(reported[g].tree[node].measurement, reported[g].range)
================================================================================
