----------------------------- MODULE AgentReports -----------------------------
(* The lifecycle of the agents together with the process reporters their Starts *)
(* leave running: the lifecycle decides how many goroutines report on one map   *)
(* without a lock.                                                              *)
EXTENDS AgentLifecycle

CONSTANTS
    Script,       \* what a process reporter reads
    MaxActivity,  \* bound: what the process does
    MaxReports,   \* bound: reports of one agent
    CallsBefore   \* bound: calls of each goroutine when there are reports

VARIABLES activity, metrics, metric, step, local, reports, crashed, base, total

INSTANCE ProcessReporter WITH Starters <- Threads, Reporting <- Agents

ASSUME ReportsAssumption ==
    NoMetric \notin Threads /\ IsScript /\ MaxActivity \in Nat /\ MaxReports \in Nat /\ CallsBefore \in Nat

reportVars == <<activity, metrics, metric, step, local, reports, crashed, base, total>>
allVars == <<vars, reportVars>>

SystemInit == Init /\ ProcessInit

(* The process reporter's goroutine exists from StartParts on. *)
ReporterRuns(t, a) == t \in running[a] /\ ReportStep(<<t, a>>)

(* Many calls, or some calls and reports. *)
WithinBounds ==
    (\A a \in Agents : reports[a] = 0) \/ (\A t \in Threads : calls[t] <= CallsBefore)

SystemNext ==
    \/ ~crashed /\ Next /\ UNCHANGED reportVars /\ WithinBounds'
    \/ \E t \in Threads, a \in Agents : ReporterRuns(t, a) /\ UNCHANGED vars /\ WithinBounds'
    \/ crashed /\ UNCHANGED allVars

SystemSpec == SystemInit /\ [][SystemNext]_allVars
-------------------------------------------------------------------------------
SystemTypeOK == TypeOK /\ ProcessTypeOK

(* The map of metrics has no lock (process_reporter.go:50).  The runtime ends   *)
(* the process for it only where the parts of one agent were started twice; two *)
(* agents do not get in each other's way.                                       *)
CrashNeedsSecondStart == crashed => \E a \in Agents : Cardinality(running[a]) > 1

(* What an agent with one reporting goroutine has sent for a counter adds up to *)
(* the distance of its last value from its first, and the CPU usage to the CPU  *)
(* time, whichever readings have failed.                                        *)
CountersAddUp ==
    \A t \in Threads, a \in Agents :
        running[a] = {t} /\ step[<<t, a>>] = "idle" =>
            /\ \A n \in Counters : metrics[a][n] = t =>
                   base[a][n] + total[a][n] = metric[<<t, a>>][n].lastValue
            /\ total[a]["cpuUsage"] = total[a]["cpuTime"]
=============================================================================
