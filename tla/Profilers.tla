------------------------------- MODULE Profilers -------------------------------
(* internal/profiler_scheduler.go with the three profilers it runs:            *)
(* internal/cpu_reporter.go, block_reporter.go and allocation_reporter.go.     *)
(*                                                                             *)
(* Tickers start a goroutine for every record and every report; they all queue *)
(* for the agent's profilerLock, which is given back when the function returns *)
(* or panics.  A record switches a profiler of the Go runtime on, waits for    *)
(* its timer, switches it off and adds what it reads to the reporter's         *)
(* profile; a report sends the profile to the message queue and resets it.     *)
(*                                                                             *)
(* Call graphs are one number for each call stack, or the total where nothing  *)
(* depends on the stack.  The runtime's block profile is cumulative: the       *)
(* reporter adds what changed since it last read.                              *)
EXTENDS Integers, FiniteSets

CONSTANTS
    Stacks,       \* call stacks that block
    HttpStacks,   \* those with a ServeHTTP of server.go on them
    AgentStacks,  \* those of the agent itself, which are left out
    MaxTicks,     \* bound: kind of goroutine -> how many are started
    MaxSamples,   \* bound: CPU samples of a record
    MaxDelay      \* bound: stack -> its cumulative delay

Records == {"cpu record", "block record"}
Reports == {"cpu report", "block report", "allocation report"}
Kinds   == Records \cup Reports
Free    == "free"

ASSUME ProfilersAssumption ==
    /\ HttpStacks \subseteq Stacks /\ AgentStacks \subseteq Stacks
    /\ MaxTicks \in [Kinds -> Nat] /\ MaxSamples \in Nat /\ MaxDelay \in [Stacks -> Nat]

VARIABLES
    ticks,         \* kind -> goroutines started
    waiting,       \* kind -> goroutines at profilerLock.Lock
    profilerLock,  \* the kind of the goroutine that holds it, or Free
    step,          \* where that goroutine is
    cpuProfiler,   \* who switched the runtime's CPU profiler on, or "off"
    blockRate,     \* whether the runtime records blocking events
    blocked,       \* the runtime's block profile: stack -> delay, contentions
    cpu,           \* CPUReporter.profile and profileDuration
    block,         \* BlockReporter.blockProfile, httpProfile and profileDuration
    prevValues,    \* BlockReporter.prevValues; a missing key reads as zero
    sent,          \* values of the metrics the last report handed to the message queue
    reported,      \* history: stack -> delay in the metrics handed over
    dropped        \* history: stack -> delay updateBlockProfile left out

jobs    == <<ticks, waiting>>
runtime == <<cpuProfiler, blockRate, blocked>>
history == <<reported, dropped>>
vars == <<jobs, profilerLock, step, runtime, cpu, block, prevValues, sent, history>>

NoDelay  == [s \in Stacks |-> 0]
Values   == [delay : Nat, contentions : Nat]
NoValues == [s \in Stacks |-> [delay |-> 0, contentions |-> 0]]
NewCPU   == [measurement |-> 0, duration |-> 0]
NewBlock == [profile |-> NoDelay, http |-> NoDelay, duration |-> 0]

Init ==
    /\ ticks = [k \in Kinds |-> 0] /\ waiting = [k \in Kinds |-> 0]
    /\ profilerLock = Free /\ step = "none"
    /\ cpuProfiler = "off" /\ blockRate = FALSE /\ blocked = NoValues
    /\ cpu = NewCPU /\ block = NewBlock /\ prevValues = NoValues
    /\ sent = {} /\ reported = NoDelay /\ dropped = NoDelay
-------------------------------------------------------------------------------
(* A ticker starts the goroutine of a record, which its timer may have held     *)
(* back, or of a report.                                                        *)
Tick(k) ==
    /\ ticks[k] < MaxTicks[k]
    /\ ticks' = [ticks EXCEPT ![k] = @ + 1]
    /\ waiting' = [waiting EXCEPT ![k] = @ + 1]
    /\ UNCHANGED <<profilerLock, step, runtime, cpu, block, prevValues, sent, history>>

(* executeRecord or executeReport gets the lock. *)
Lock(k) ==
    /\ profilerLock = Free /\ waiting[k] > 0
    /\ waiting' = [waiting EXCEPT ![k] = @ - 1]
    /\ profilerLock' = k
    /\ step' = "begin"
    /\ UNCHANGED <<ticks, runtime, cpu, block, prevValues, sent, history>>

At(k, s) == profilerLock = k /\ step = s

(* Mutant: an error leaves the lock locked. *)
KeepLock == step' = "none" /\ UNCHANGED profilerLock

(* The deferred Unlock, on every way out of the function. *)
Unlock == profilerLock' = Free /\ step' = "none"

(* A function that fails before it has changed anything: CPU profiling is in use *)
(* by the host program, or the profile cannot be parsed.                         *)
Fail(k, s) ==
    /\ At(k, s)
    /\ Unlock
    /\ UNCHANGED <<jobs, runtime, cpu, block, prevValues, sent, history>>
-------------------------------------------------------------------------------
(* readCPUProfile: StartCPUProfile succeeds when nobody profiles. *)
StartCPUProfile ==
    /\ At("cpu record", "begin") /\ cpuProfiler = "off"
    /\ cpuProfiler' = "agent"
    /\ step' = "profiling"
    /\ UNCHANGED <<jobs, profilerLock, blockRate, blocked, cpu, block, prevValues, sent, history>>

CPUProfilerInUse == cpuProfiler = "host" /\ Fail("cpu record", "begin")

(* The goroutine of the timer stops the profiler and answers on done. *)
StopCPUProfile ==
    /\ At("cpu record", "profiling")
    /\ cpuProfiler' = "off"
    /\ step' = "read"
    /\ UNCHANGED <<jobs, profilerLock, blockRate, blocked, cpu, block, prevValues, sent, history>>

(* record adds the samples that are not the agent's; a profile without the      *)
(* right sample types adds none, but its duration counts all the same.          *)
RecordCPU(samples) ==
    /\ At("cpu record", "read")
    /\ cpu' = [measurement |-> cpu.measurement + samples, duration |-> cpu.duration + 1]
    /\ Unlock
    /\ UNCHANGED <<jobs, runtime, block, prevValues, sent, history>>

(* Division of float64: measured says whether the dividend is positive. *)
Quotient(measured, divisor) ==
    IF divisor > 0 THEN "finite" ELSE IF measured THEN "infinite" ELSE "NaN"

Metric(of, value) == [of |-> of, value |-> value]

(* Mutant: reset forgets the profile. *)
ResetDuration == cpu' = [cpu EXCEPT !.duration = 0]
Reset == cpu' = NewCPU

(* CPUReporter.report: convertToPercentage, addMessage and reset. *)
ReportCPU ==
    /\ At("cpu report", "begin")
    /\ sent' = {Metric("cpu", Quotient(cpu.measurement > 0, cpu.duration))}
    /\ Reset
    /\ Unlock
    /\ UNCHANGED <<jobs, runtime, block, prevValues, history>>

(* AllocationReporter.report keeps nothing from one report to the next.  The     *)
(* push at its end may panic, which changes nothing here.                        *)
ReportAllocation ==
    /\ At("allocation report", "begin")
    /\ sent' = {Metric("allocation", "finite")}
    /\ Unlock
    /\ UNCHANGED <<jobs, runtime, cpu, block, prevValues, history>>
-------------------------------------------------------------------------------
(* readBlockProfile switches the recording of events on, its timer off again. *)
StartBlockProfile ==
    /\ At("block record", "begin")
    /\ blockRate' = TRUE
    /\ step' = "profiling"
    /\ UNCHANGED <<jobs, profilerLock, cpuProfiler, blocked, cpu, block, prevValues, sent, history>>

(* Mutant: the rate is set again instead of being reset. *)
LeaveBlockProfile ==
    /\ At("block record", "profiling")
    /\ blockRate' = TRUE
    /\ step' = "read"
    /\ UNCHANGED <<jobs, profilerLock, cpuProfiler, blocked, cpu, block, prevValues, sent, history>>

StopBlockProfile ==
    /\ At("block record", "profiling")
    /\ blockRate' = FALSE
    /\ step' = "read"
    /\ UNCHANGED <<jobs, profilerLock, cpuProfiler, blocked, cpu, block, prevValues, sent, history>>

(* Mutant: subtracted the other way round. *)
DelayBackwards(s) == prevValues[s].delay - blocked[s].delay

(* getValueChange: the difference to what was read last. *)
Delay(s)       == blocked[s].delay - prevValues[s].delay
Contentions(s) == blocked[s].contentions - prevValues[s].contentions

(* Stacks whose change goes into the profiles. *)
Changed == {s \in Stacks \ AgentStacks : Contentions(s) # 0 /\ Delay(s) # 0}

Grown(profile, among) == [s \in Stacks |-> profile[s] + IF s \in among THEN Delay(s) ELSE 0]

(* Mutant: the new values are stored only for keys that are new. *)
SeenOnce == [s \in Stacks |-> IF s \in AgentStacks \/ prevValues[s].delay # 0
                              THEN prevValues[s] ELSE blocked[s]]
Seen == [s \in Stacks |-> IF s \in AgentStacks THEN prevValues[s] ELSE blocked[s]]

(* record: updateBlockProfile and the duration. *)
RecordBlock ==
    /\ At("block record", "read")
    /\ block' = [profile  |-> Grown(block.profile, Changed),
                 http     |-> Grown(block.http, Changed \cap HttpStacks),
                 duration |-> block.duration + 1]
    /\ dropped' = Grown(dropped, Stacks \ (AgentStacks \cup Changed))
    /\ prevValues' = Seen
    /\ Unlock
    /\ UNCHANGED <<jobs, runtime, cpu, sent, reported>>

Positive(profile) == \E s \in Stacks : profile[s] > 0

(* report: normalize, addMessage and, when there is something to relate them to, *)
(* the share of the HTTP stacks; then reset.                                     *)
ReportBlock ==
    LET measured == Positive(block.profile)
        metric   == Metric("block", Quotient(measured, block.duration))
        share    == Metric("http", IF block.duration > 0 THEN "finite" ELSE "NaN")
    IN  /\ At("block report", "begin")
        /\ sent' = {metric} \cup IF measured /\ Positive(block.http) THEN {share} ELSE {}
        /\ reported' = [s \in Stacks |-> reported[s] + block.profile[s]]
        /\ block' = NewBlock
        /\ Unlock
        /\ UNCHANGED <<jobs, runtime, cpu, prevValues, dropped>>
-------------------------------------------------------------------------------
(* The host program and the runtime.  Each of them may profile the CPU when the  *)
(* other does not.  A blocking event is counted when it ends; the runtime rounds *)
(* the number of events it has sampled, so that it may grow later than the delay.*)
HostProfilesCPU ==
    /\ \/ cpuProfiler = "off" /\ cpuProfiler' = "host"
       \/ cpuProfiler = "host" /\ cpuProfiler' = "off"
    /\ UNCHANGED <<jobs, profilerLock, step, blockRate, blocked, cpu, block, prevValues, sent, history>>

BlockingEvent(s, counted) ==
    /\ blockRate /\ blocked[s].delay < MaxDelay[s]
    /\ blocked' = [blocked EXCEPT ![s] = [delay |-> @.delay + 1, contentions |-> @.contentions + counted]]
    /\ UNCHANGED <<jobs, profilerLock, step, cpuProfiler, blockRate, cpu, block, prevValues, sent, history>>

CPURecord ==
    \/ StartCPUProfile \/ CPUProfilerInUse \/ StopCPUProfile
    \/ Fail("cpu record", "read") \/ \E n \in 0..MaxSamples : RecordCPU(n)
BlockRecord == StartBlockProfile \/ StopBlockProfile \/ Fail("block record", "read") \/ RecordBlock
Report      == ReportCPU \/ ReportBlock \/ ReportAllocation \/ Fail("allocation report", "begin")
Execute     == (\E k \in Kinds : Lock(k)) \/ CPURecord \/ BlockRecord \/ Report
Environment == HostProfilesCPU \/ \E s \in Stacks, counted \in 0..1 : BlockingEvent(s, counted)

Next == (\E k \in Kinds : Tick(k)) \/ Execute \/ Environment

Spec == Init /\ [][Next]_vars

(* Timers fire, functions return, and the mutex is handed on. *)
FairSpec == Spec /\ WF_vars(Execute)
-------------------------------------------------------------------------------
Steps == {"none", "begin", "profiling", "read"}

(* Types; a call graph never holds less than nothing. *)
TypeOK ==
    /\ ticks \in [Kinds -> Nat] /\ waiting \in [Kinds -> Nat]
    /\ profilerLock \in Kinds \cup {Free} /\ step \in Steps
    /\ cpuProfiler \in {"off", "agent", "host"} /\ blockRate \in BOOLEAN
    /\ blocked \in [Stacks -> Values] /\ prevValues \in [Stacks -> Values]
    /\ cpu \in [measurement : Nat, duration : Nat]
    /\ block \in [profile : [Stacks -> Nat], http : [Stacks -> Nat], duration : Nat]
    /\ sent \subseteq [of : {"cpu", "block", "http", "allocation"}, value : {"finite", "infinite", "NaN"}]
    /\ reported \in [Stacks -> Nat] /\ dropped \in [Stacks -> Nat]

(* The runtime's profilers are on only while a record waits for its timer; the   *)
(* ways out of record leave neither of them on (cpu_reporter.go:139,             *)
(* block_reporter.go:214).                                                       *)
OnWhileRecording ==
    /\ cpuProfiler = "agent" <=> At("cpu record", "profiling")
    /\ blockRate <=> At("block record", "profiling")

(* However many records and reports alternate, fail or find nothing new: what    *)
(* getValueChange has read of a stack's cumulative delay was reported, is in the  *)
(* profile, or was left out by updateBlockProfile for lack of a contention;      *)
(* nothing is counted twice and nothing else is lost.                            *)
DelayCountedOnce ==
    \A s \in Stacks : prevValues[s].delay = reported[s] + block.profile[s] + dropped[s]

(* A percentage or a rate may be 0/0 when nothing was recorded since the last    *)
(* report, but it is never infinite: no measurement without its duration.        *)
NeverInfinite == \A metric \in sent : metric.value # "infinite"

(* Every goroutine of the scheduler gets the lock and returns it, whatever fails. *)
JobsFinish == []<>(profilerLock = Free /\ \A k \in Kinds : waiting[k] = 0)
=============================================================================
