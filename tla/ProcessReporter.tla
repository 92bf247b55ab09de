---------------------------- MODULE ProcessReporter ----------------------------
(* internal/process_reporter.go and the metrics of internal/metric.go.         *)
(*                                                                             *)
(* start leaves one goroutine that reports the process's readings every        *)
(* minute.  The reporter keeps its metrics in a map, and each counter its last *)
(* value, with no lock around either: an agent whose parts were started twice  *)
(* has two such goroutines on one map.  A goroutine is the pair of the         *)
(* goroutine that started it and the agent.                                    *)
EXTENDS Integers, Sequences

CONSTANTS
    Starters,     \* goroutines that may start an agent's parts
    Reporting,    \* agents
    Script,       \* what report reads, in its order
    MaxActivity,  \* bound: what the process does
    MaxReports    \* bound: reports of one agent

(* A script starts with the CPU time, whose reading may fail, and the CPU usage *)
(* that is computed from its measurement; all others are counters the runtime   *)
(* has.  (A state is a counter without a last value.)                           *)
IsScript ==
    /\ Script \in Seq(STRING) /\ Len(Script) >= 2
    /\ Script[1] = "cpuTime" /\ Script[2] = "cpuUsage"
    /\ \A i \in DOMAIN Script \ {1, 2} : Script[i] \notin {"cpuTime", "cpuUsage"}

Names    == {Script[i] : i \in DOMAIN Script}
Counters == Names \ {"cpuUsage"}
MayFail  == {"cpuTime"}

Goroutines == Starters \X Reporting
NoMetric   == "no metric"

VARIABLES
    activity,     \* what a counter of the process shows
    metrics,      \* agent -> ProcessReporter.metrics: name -> who made the metric
    metric,       \* maker, agent -> name -> the Metric it made
    step, local,  \* goroutine -> label, and the locals of reportMetric
    reports,      \* agent -> reports begun
    crashed,      \* the runtime has seen an unguarded map in use
    base, total   \* history: agent -> name -> first value, and sum of the values sent

processVars == <<activity, metrics, metric, step, local, reports, crashed, base, total>>

Metric  == [hasLastValue : BOOLEAN, lastValue : Int, measured : BOOLEAN, value : Int]
Unused  == [hasLastValue |-> FALSE, lastValue |-> 0, measured |-> FALSE, value |-> 0]
Local   == [at : DOMAIN Script, value : Int, maker : Starters \cup {NoMetric}, ready : BOOLEAN]
AtStart == [at |-> 1, value |-> 0, maker |-> NoMetric, ready |-> FALSE]

ProcessInit ==
    /\ activity = 0 /\ crashed = FALSE
    /\ metrics = [a \in Reporting |-> [n \in Names |-> NoMetric]]
    /\ metric = [g \in Goroutines |-> [n \in Names |-> Unused]]
    /\ step = [g \in Goroutines |-> "idle"] /\ local = [g \in Goroutines |-> AtStart]
    /\ reports = [a \in Reporting |-> 0]
    /\ base = [a \in Reporting |-> [n \in Names |-> 0]]
    /\ total = [a \in Reporting |-> [n \in Names |-> 0]]
-------------------------------------------------------------------------------
GoStep(g, label) == step' = [step EXCEPT ![g] = label]
Name(g) == Script[local[g].at]

(* Mutant: one map for all agents. *)
SharedMap(g) == CHOOSE a \in Reporting : TRUE

(* The map a goroutine works on. *)
MapOf(g) == g[2]

(* The metric createMeasurement is called on. *)
Own(g) == <<local[g].maker, MapOf(g)>>
Current(g) == metric[Own(g)][Name(g)]

(* Another goroutine is inside an assignment to the map. *)
BeingWritten(g) ==
    \E h \in Goroutines \ {g} : MapOf(h) = MapOf(g) /\ step[h] = "inserting"

(* The timer or the ticker fires. *)
Fire(g) ==
    /\ step[g] = "idle" /\ reports[g[2]] < MaxReports
    /\ reports' = [reports EXCEPT ![g[2]] = @ + 1]
    /\ local' = [local EXCEPT ![g] = AtStart]
    /\ GoStep(g, "read")
    /\ UNCHANGED <<activity, metrics, metric, crashed, base, total>>

(* report goes on with the entry i of the script, or is done. *)
Continue(g, i) ==
    IF i \in DOMAIN Script
    THEN /\ GoStep(g, "read")
         /\ local' = [local EXCEPT ![g] = [at |-> i, value |-> 0, maker |-> local[g].maker, ready |-> FALSE]]
    ELSE GoStep(g, "idle") /\ local' = [local EXCEPT ![g] = AtStart]

(* A reading of the process; the process may have gone on since the last one. *)
Read(g) ==
    /\ step[g] = "read" /\ Name(g) \in Counters
    /\ activity' \in activity..MaxActivity
    /\ local' = [local EXCEPT ![g].value = activity']
    /\ GoStep(g, "lookup")
    /\ UNCHANGED <<metrics, metric, reports, crashed, base, total>>

(* An error is logged, and the metric and what depends on it left out. *)
ReadFails(g) ==
    /\ step[g] = "read" /\ Name(g) \in MayFail
    /\ Continue(g, local[g].at + 2)
    /\ UNCHANGED <<activity, metrics, metric, reports, crashed, base, total>>

(* The CPU usage, a fixed share of the measurement of the CPU time that        *)
(* reportMetric has returned; here the measurement itself.                     *)
ReadUsage(g) ==
    /\ step[g] = "read" /\ Name(g) = "cpuUsage"
    /\ local' = [local EXCEPT ![g].value = metric[Own(g)]["cpuTime"].value]
    /\ GoStep(g, "lookup")
    /\ UNCHANGED <<activity, metrics, metric, reports, crashed, base, total>>

(* The look into the map, *)
LookUp(g) ==
    /\ step[g] = "lookup"
    /\ local' = [local EXCEPT ![g].maker = metrics[MapOf(g)][Name(g)]]
    /\ GoStep(g, IF metrics[MapOf(g)][Name(g)] = NoMetric THEN "insert" ELSE "compute")
    /\ UNCHANGED <<activity, metrics, metric, reports, crashed, base, total>>

(* newMetric, and the assignment to the map, which takes a while. *)
BeginInsert(g) ==
    /\ step[g] = "insert"
    /\ local' = [local EXCEPT ![g].maker = g[1]]
    /\ metric' = [metric EXCEPT ![<<g[1], MapOf(g)>>][Name(g)] = Unused]
    /\ GoStep(g, "inserting")
    /\ UNCHANGED <<activity, metrics, reports, crashed, base, total>>
Insert(g) ==
    /\ step[g] = "inserting"
    /\ metrics' = [metrics EXCEPT ![MapOf(g)][Name(g)] = g[1]]
    /\ GoStep(g, "compute")
    /\ UNCHANGED <<activity, metric, local, reports, crashed, base, total>>

(* The runtime may notice who looks at a map that is being written, and ends    *)
(* the process then.                                                            *)
Crash(g) ==
    /\ step[g] \in {"lookup", "insert"} /\ BeingWritten(g)
    /\ crashed' = TRUE
    /\ UNCHANGED <<activity, metrics, metric, step, local, reports, base, total>>

(* createMeasurement reads the last value of a counter, whose first value is    *)
(* no measurement yet, *)
Compute(g) ==
    LET m == Current(g)
        counter == Name(g) \in Counters
    IN  /\ step[g] = "compute"
        /\ local' = [local EXCEPT ![g].ready = counter => m.hasLastValue]
        /\ GoStep(g, "store")
        /\ UNCHANGED <<activity, metrics, metric, reports, crashed, base, total>>

(* Mutant: the difference is always that to the first value. *)
StoreKeeping(g) ==
    LET m == Current(g)
        counter == Name(g) \in Counters
    IN  /\ step[g] = "store"
        /\ metric' = [metric EXCEPT ![Own(g)][Name(g)] =
                [hasLastValue |-> counter,
                 lastValue    |-> IF counter /\ ~local[g].ready THEN local[g].value ELSE m.lastValue,
                 measured     |-> m.measured \/ local[g].ready,
                 value        |-> IF local[g].ready THEN local[g].value - m.lastValue ELSE m.value]]
        /\ base' = IF counter /\ ~local[g].ready
                   THEN [base EXCEPT ![g[2]][Name(g)] = local[g].value] ELSE base
        /\ GoStep(g, "send")
        /\ UNCHANGED <<activity, metrics, local, reports, crashed, total>>

(* and writes the new one and, if there is one, the measurement. *)
Store(g) ==
    LET m == Current(g)
        counter == Name(g) \in Counters
    IN  /\ step[g] = "store"
        /\ metric' = [metric EXCEPT ![Own(g)][Name(g)] =
                [hasLastValue |-> counter,
                 lastValue    |-> IF counter THEN local[g].value ELSE m.lastValue,
                 measured     |-> m.measured \/ local[g].ready,
                 value        |-> IF local[g].ready THEN local[g].value - m.lastValue ELSE m.value]]
        /\ base' = IF counter /\ ~local[g].ready
                   THEN [base EXCEPT ![g[2]][Name(g)] = local[g].value] ELSE base
        /\ GoStep(g, "send")
        /\ UNCHANGED <<activity, metrics, local, reports, crashed, total>>

(* A metric that has a measurement goes to the queue.  The CPU usage is left    *)
(* out when the CPU time has none.                                              *)
Send(g) ==
    LET m == Current(g) IN
    /\ step[g] = "send"
    /\ total' = IF m.measured THEN [total EXCEPT ![g[2]][Name(g)] = @ + m.value] ELSE total
    /\ Continue(g, IF Name(g) = "cpuTime" /\ ~m.measured THEN local[g].at + 2 ELSE local[g].at + 1)
    /\ UNCHANGED <<activity, metrics, metric, reports, crashed, base>>

ReportMetric(g) ==
    LookUp(g) \/ BeginInsert(g) \/ Insert(g) \/ Crash(g) \/ Compute(g) \/ Store(g) \/ Send(g)
ReportStep(g) ==
    ~crashed /\ (Fire(g) \/ Read(g) \/ ReadFails(g) \/ ReadUsage(g) \/ ReportMetric(g))
-------------------------------------------------------------------------------
ReportSteps == {"idle", "read", "lookup", "insert", "inserting", "compute", "store", "send"}

(* A goroutine that measures has a metric to measure with, and when it comes to *)
(* the usage, that of the CPU time.                                             *)
HasMetric(g) ==
    \/ step[g] \in {"inserting", "compute", "store", "send"}
    \/ step[g] = "read" /\ Name(g) = "cpuUsage"
    => local[g].maker # NoMetric

(* Types of the process reporter and its metrics. *)
ProcessTypeOK ==
    /\ activity \in 0..MaxActivity /\ crashed \in BOOLEAN
    /\ metrics \in [Reporting -> [Names -> Starters \cup {NoMetric}]]
    /\ metric \in [Goroutines -> [Names -> Metric]]
    /\ step \in [Goroutines -> ReportSteps]
    /\ local \in [Goroutines -> Local]
    /\ \A g \in Goroutines : HasMetric(g)
    /\ reports \in [Reporting -> 0..MaxReports]
    /\ base \in [Reporting -> [Names -> Int]] /\ total \in [Reporting -> [Names -> Int]]
=============================================================================
