---------------------------- MODULE Profilers_proofs ----------------------------
(* Theorems about Profilers, for all sets of stacks and all bounds: the types,  *)
(* that the runtime's profilers are on only during a record, that block time is *)
(* counted once, and that no value sent is infinite.                            *)
EXTENDS Profilers, TLAPS

(* The lock and the place of its holder; only records reach a second place. *)
Holder ==
    /\ profilerLock = Free <=> step = "none"
    /\ step \in {"profiling", "read"} => profilerLock \in Records

(* The runtime's values grow, and stacks of the agent are never looked at. *)
Growing ==
    \A s \in Stacks :
        /\ prevValues[s].delay <= blocked[s].delay
        /\ prevValues[s].contentions <= blocked[s].contentions
        /\ s \in AgentStacks => /\ prevValues[s].delay = 0
                                /\ reported[s] = 0 /\ block.profile[s] = 0 /\ dropped[s] = 0

(* Every measurement has its duration. *)
Lasting ==
    /\ cpu.duration = 0 => cpu.measurement = 0
    /\ block.duration = 0 => \A s \in Stacks : block.profile[s] = 0

Inv ==
    TypeOK /\ Holder /\ OnWhileRecording /\ Growing /\ DelayCountedOnce /\ Lasting /\ NeverInfinite
-------------------------------------------------------------------------------
(* Init establishes the invariant. *)
LEMMA Initially == Init => Inv
<1> SUFFICES ASSUME Init PROVE Inv
    OBVIOUS
<1>1. TypeOK
    BY ProfilersAssumption
       DEF Init, TypeOK, NoDelay, NoValues, Values, NewCPU, NewBlock, Steps, Free
<1>2. Holder /\ OnWhileRecording /\ Lasting /\ NeverInfinite
    BY DEF Init, Holder, OnWhileRecording, At, Lasting, NeverInfinite, NewCPU, NewBlock, NoDelay, Free
<1>3. Growing /\ DelayCountedOnce
    BY DEF Init, Growing, DelayCountedOnce, NoDelay, NoValues, NewBlock
<1>4. QED
    BY <1>1, <1>2, <1>3 DEF Inv

(* The lock is free when no goroutine of any kind holds it. *)
LEMMA KindNames ==
    /\ Free \notin Kinds /\ Records \subseteq Kinds
    /\ "cpu record" \in Records /\ "block record" \in Records
    /\ "cpu report" \in Kinds /\ "block report" \in Kinds /\ "allocation report" \in Kinds
BY DEF Free, Kinds, Records, Reports

(* A goroutine is started. *)
LEMMA TickStep == ASSUME Inv, NEW k \in Kinds, Tick(k) PROVE Inv'
<1>1. ticks' \in [Kinds -> Nat] /\ waiting' \in [Kinds -> Nat]
    BY DEF Inv, TypeOK, Tick
<1>2. UNCHANGED <<profilerLock, step, cpuProfiler, blockRate, blocked, cpu, block, prevValues,
                  sent, reported, dropped>>
    BY DEF Tick, runtime, history
<1>3. TypeOK'
    BY <1>1, <1>2 DEF Inv, TypeOK
<1>4. QED
    BY <1>2, <1>3 DEF Inv, Holder, OnWhileRecording, At, Growing, DelayCountedOnce, Lasting, NeverInfinite

(* It gets the lock. *)
LEMMA LockStep == ASSUME Inv, NEW k \in Kinds, Lock(k) PROVE Inv'
<1>1. ticks' \in [Kinds -> Nat] /\ waiting' \in [Kinds -> Nat]
    BY DEF Inv, TypeOK, Lock
<1>2. UNCHANGED <<cpuProfiler, blockRate, blocked, cpu, block, prevValues, sent, reported, dropped>>
    BY DEF Lock, runtime, history
<1>3. profilerLock = Free /\ profilerLock' = k /\ step' = "begin" /\ k # Free
    BY KindNames DEF Lock
<1>4. TypeOK'
    BY <1>1, <1>2, <1>3 DEF Inv, TypeOK, Steps
<1>5. (Holder /\ OnWhileRecording)'
    BY <1>2, <1>3, KindNames DEF Inv, Holder, OnWhileRecording, At, Free
<1>6. QED
    BY <1>2, <1>4, <1>5 DEF Inv, Growing, DelayCountedOnce, Lasting, NeverInfinite

(* It returns early. *)
LEMMA FailStep == ASSUME Inv, NEW k \in Kinds, NEW s \in {"begin", "read"}, Fail(k, s) PROVE Inv'
<1>1. UNCHANGED <<ticks, waiting, cpuProfiler, blockRate, blocked, cpu, block, prevValues, sent,
                  reported, dropped>>
    BY DEF Fail, jobs, runtime, history
<1>2. At(k, s) /\ profilerLock' = Free /\ step' = "none"
    BY DEF Fail, Unlock
<1>3. TypeOK'
    BY <1>1, <1>2 DEF Inv, TypeOK, Steps
<1>4. (Holder /\ OnWhileRecording)'
    BY <1>1, <1>2, KindNames DEF Inv, Holder, OnWhileRecording, At
<1>5. QED
    BY <1>1, <1>3, <1>4 DEF Inv, Growing, DelayCountedOnce, Lasting, NeverInfinite

(* The runtime's CPU profiler is switched on or off. *)
LEMMA SwitchCPUStep == ASSUME Inv, StartCPUProfile \/ StopCPUProfile \/ HostProfilesCPU PROVE Inv'
<1>1. UNCHANGED <<ticks, waiting, profilerLock, blockRate, blocked, cpu, block, prevValues, sent,
                  reported, dropped>>
    BY DEF StartCPUProfile, StopCPUProfile, HostProfilesCPU, jobs, history
<1>2. \/ /\ At("cpu record", "begin") /\ cpuProfiler' = "agent" /\ step' = "profiling"
      \/ /\ At("cpu record", "profiling") /\ cpuProfiler' = "off" /\ step' = "read"
      \/ /\ cpuProfiler # "agent" /\ cpuProfiler' \in {"off", "host"} /\ step' = step
    BY DEF StartCPUProfile, StopCPUProfile, HostProfilesCPU
<1>3. TypeOK'
    BY <1>1, <1>2 DEF Inv, TypeOK, Steps
<1>4. (Holder /\ OnWhileRecording)'
    BY <1>1, <1>2, KindNames DEF Inv, Holder, OnWhileRecording, At
<1>5. QED
    BY <1>1, <1>3, <1>4 DEF Inv, Growing, DelayCountedOnce, Lasting, NeverInfinite

(* The recording of blocking events is switched on or off. *)
LEMMA SwitchBlockStep == ASSUME Inv, StartBlockProfile \/ StopBlockProfile PROVE Inv'
<1>1. UNCHANGED <<ticks, waiting, profilerLock, cpuProfiler, blocked, cpu, block, prevValues, sent,
                  reported, dropped>>
    BY DEF StartBlockProfile, StopBlockProfile, jobs, history
<1>2. \/ /\ At("block record", "begin") /\ blockRate' = TRUE /\ step' = "profiling"
      \/ /\ At("block record", "profiling") /\ blockRate' = FALSE /\ step' = "read"
    BY DEF StartBlockProfile, StopBlockProfile
<1>3. TypeOK'
    BY <1>1, <1>2 DEF Inv, TypeOK, Steps
<1>4. (Holder /\ OnWhileRecording)'
    BY <1>1, <1>2, KindNames DEF Inv, Holder, OnWhileRecording, At
<1>5. QED
    BY <1>1, <1>3, <1>4 DEF Inv, Growing, DelayCountedOnce, Lasting, NeverInfinite

(* Samples are added together with the time they were taken in. *)
LEMMA SamplesAdded ==
    ASSUME NEW c \in [measurement : Nat, duration : Nat], NEW n \in 0..MaxSamples,
           NEW d, d = [measurement |-> c.measurement + n, duration |-> c.duration + 1]
    PROVE  d \in [measurement : Nat, duration : Nat] /\ d.duration # 0
BY ProfilersAssumption

(* A record of the CPU profiler. *)
LEMMA RecordCPUStep == ASSUME Inv, NEW n \in 0..MaxSamples, RecordCPU(n) PROVE Inv'
<1>1. cpu \in [measurement : Nat, duration : Nat]
    BY DEF Inv, TypeOK
<1>2. /\ UNCHANGED <<ticks, waiting, cpuProfiler, blockRate, blocked, block, prevValues, sent,
                     reported, dropped>>
      /\ At("cpu record", "read") /\ profilerLock' = Free /\ step' = "none"
      /\ cpu' = [measurement |-> cpu.measurement + n, duration |-> cpu.duration + 1]
    BY DEF RecordCPU, Unlock, jobs, runtime, history
<1>3. cpu' \in [measurement : Nat, duration : Nat] /\ cpu'.duration # 0
    BY <1>1, <1>2, SamplesAdded
<1>4. TypeOK'
    BY <1>2, <1>3 DEF Inv, TypeOK, Steps
<1>5. (Holder /\ OnWhileRecording)'
    BY <1>2, KindNames DEF Inv, Holder, OnWhileRecording, At
<1>6. QED
    BY <1>2, <1>3, <1>4, <1>5 DEF Inv, Growing, DelayCountedOnce, Lasting, NeverInfinite

(* A report of the CPU profiler or of the allocations. *)
LEMMA ReportCPUStep == ASSUME Inv, ReportCPU \/ ReportAllocation PROVE Inv'
<1>1. cpu \in [measurement : Nat, duration : Nat]
    BY DEF Inv, TypeOK
<1>2. /\ UNCHANGED <<ticks, waiting, cpuProfiler, blockRate, blocked, block, prevValues,
                     reported, dropped>>
      /\ step = "begin" /\ profilerLock' = Free /\ step' = "none"
      /\ cpu' = cpu \/ cpu' = NewCPU
    BY DEF ReportCPU, ReportAllocation, Reset, At, Unlock, jobs, runtime, history
<1>3. sent' \subseteq [of : {"cpu", "allocation"}, value : {"finite", "NaN"}]
  <2>1. ASSUME ReportCPU, cpu.duration > 0
        PROVE  sent' = {[of |-> "cpu", value |-> "finite"]}
      BY <2>1 DEF ReportCPU, Metric, Quotient
  <2>2. ASSUME ReportCPU, ~(cpu.duration > 0)
        PROVE  sent' = {[of |-> "cpu", value |-> "NaN"]}
    <3>1. ~(cpu.measurement > 0)
        BY <1>1, <2>2 DEF Inv, Lasting
    <3>2. QED
        BY <2>2, <3>1 DEF ReportCPU, Metric, Quotient
  <2>3. ASSUME ReportAllocation PROVE sent' = {[of |-> "allocation", value |-> "finite"]}
      BY <2>3 DEF ReportAllocation, Metric
  <2>4. QED
      BY <2>1, <2>2, <2>3
<1>4. NewCPU \in [measurement : Nat, duration : Nat] /\ NewCPU.measurement = 0
    BY DEF NewCPU
<1>5. TypeOK'
    BY <1>2, <1>3, <1>4 DEF Inv, TypeOK, Steps
<1>6. NeverInfinite' /\ Lasting'
    BY <1>2, <1>3, <1>4 DEF Inv, NeverInfinite, Lasting
<1>7. (Holder /\ OnWhileRecording)'
    BY <1>2 DEF Inv, Holder, OnWhileRecording, At
<1>8. QED
    BY <1>2, <1>5, <1>6, <1>7 DEF Inv, Growing, DelayCountedOnce

(* A blocking event makes the runtime's values grow. *)
LEMMA EventStep ==
    ASSUME Inv, NEW s \in Stacks, NEW counted \in 0..1, BlockingEvent(s, counted)
    PROVE  Inv'
<1>1. blocked' \in [Stacks -> Values]
    <2>1. blocked[s].delay + 1 \in Nat /\ blocked[s].contentions + counted \in Nat
        BY DEF Inv, TypeOK, Values
    <2>2. QED
        BY <2>1 DEF Inv, TypeOK, BlockingEvent, Values
<1>2. TypeOK'
    BY <1>1 DEF Inv, TypeOK, BlockingEvent, jobs, history
<1>3. \A t \in Stacks : /\ blocked'[t].delay >= blocked[t].delay
                        /\ blocked'[t].contentions >= blocked[t].contentions
    BY DEF Inv, TypeOK, BlockingEvent, Values
<1>4. Growing'
    <2> SUFFICES ASSUME NEW t \in Stacks
                 PROVE  /\ prevValues[t].delay <= blocked'[t].delay
                        /\ prevValues[t].contentions <= blocked'[t].contentions
        BY DEF Inv, Growing, BlockingEvent, history
    <2>1. /\ blocked[t].delay \in Nat /\ blocked'[t].delay \in Nat /\ prevValues[t].delay \in Nat
          /\ blocked[t].contentions \in Nat /\ blocked'[t].contentions \in Nat
          /\ prevValues[t].contentions \in Nat
        BY <1>1 DEF Inv, TypeOK, Values
    <2>2. QED
        BY <1>3, <2>1 DEF Inv, Growing
<1>5. QED
    BY <1>2, <1>4 DEF Inv, BlockingEvent, Holder, OnWhileRecording, At, DelayCountedOnce, Lasting,
                      NeverInfinite, history

(* What the profiles of a record become, stack by stack. *)
LEMMA GrownType ==
    ASSUME Inv, NEW profile \in [Stacks -> Nat], NEW among \in SUBSET Stacks
    PROVE  /\ Grown(profile, among) \in [Stacks -> Nat]
           /\ \A s \in Stacks : Grown(profile, among)[s] =
                  profile[s] + IF s \in among THEN blocked[s].delay - prevValues[s].delay ELSE 0
<1>1. \A s \in Stacks : /\ blocked[s].delay \in Nat /\ prevValues[s].delay \in Nat
                        /\ prevValues[s].delay <= blocked[s].delay
    BY DEF Inv, TypeOK, Values, Growing
<1>2. \A s \in Stacks : Delay(s) \in Nat
    BY <1>1 DEF Delay
<1>3. QED
    BY <1>2 DEF Grown, Delay

(* A record of the block profiler. *)
LEMMA RecordStep == ASSUME Inv, RecordBlock PROVE Inv'
<1> DEFINE left == Stacks \ (AgentStacks \cup Changed)
<1>1. /\ Changed \in SUBSET Stacks /\ Changed \cap HttpStacks \in SUBSET Stacks
      /\ left \in SUBSET Stacks /\ Changed \cap AgentStacks = {}
    BY DEF Changed
<1>2. /\ block.profile \in [Stacks -> Nat] /\ block.http \in [Stacks -> Nat] /\ block.duration \in Nat
      /\ dropped \in [Stacks -> Nat] /\ reported \in [Stacks -> Nat]
      /\ \A s \in Stacks : blocked[s] \in Values /\ prevValues[s] \in Values
    BY DEF Inv, TypeOK
<1>3. /\ block' \in [profile : [Stacks -> Nat], http : [Stacks -> Nat], duration : Nat]
      /\ block'.duration # 0
      /\ block'.profile = Grown(block.profile, Changed)
    <2> DEFINE p == Grown(block.profile, Changed)
               h == Grown(block.http, Changed \cap HttpStacks)
    <2>1. p \in [Stacks -> Nat] /\ h \in [Stacks -> Nat]
        BY <1>1, <1>2, GrownType
    <2>2. block' = [profile |-> p, http |-> h, duration |-> block.duration + 1]
        BY DEF RecordBlock
    <2> HIDE DEF p, h
    <2>3. /\ block' \in [profile : [Stacks -> Nat], http : [Stacks -> Nat], duration : Nat]
          /\ block'.duration # 0 /\ block'.profile = p
        BY <1>2, <2>1, <2>2
    <2>4. QED
        BY <2>3 DEF p
<1>4. dropped' \in [Stacks -> Nat] /\ dropped' = Grown(dropped, left)
    <2>1. dropped' = Grown(dropped, left)
        BY DEF RecordBlock
    <2>2. QED
        BY <1>1, <1>2, <2>1, GrownType
<1>5. /\ prevValues' \in [Stacks -> Values]
      /\ \A s \in Stacks : prevValues'[s] = IF s \in AgentStacks THEN prevValues[s] ELSE blocked[s]
    BY <1>2 DEF RecordBlock, Seen
<1>6. blocked' = blocked /\ reported' = reported
    BY DEF RecordBlock, runtime
<1>7. \A s \in Stacks :
          /\ block'.profile[s] = block.profile[s]
                 + IF s \in Changed THEN blocked[s].delay - prevValues[s].delay ELSE 0
          /\ dropped'[s] = dropped[s]
                 + IF s \in left THEN blocked[s].delay - prevValues[s].delay ELSE 0
    BY <1>1, <1>2, <1>3, <1>4, GrownType
<1>8. (Growing /\ DelayCountedOnce)'
    <2> SUFFICES ASSUME NEW s \in Stacks
                 PROVE  /\ prevValues'[s].delay <= blocked[s].delay
                        /\ prevValues'[s].contentions <= blocked[s].contentions
                        /\ s \in AgentStacks => /\ prevValues'[s].delay = 0 /\ reported[s] = 0
                                                /\ block'.profile[s] = 0 /\ dropped'[s] = 0
                        /\ prevValues'[s].delay = reported[s] + block'.profile[s] + dropped'[s]
        BY <1>6 DEF Growing, DelayCountedOnce
    <2>1. /\ blocked[s].delay \in Nat /\ blocked[s].contentions \in Nat
          /\ prevValues[s].delay \in Nat /\ prevValues[s].contentions \in Nat
          /\ block.profile[s] \in Nat /\ dropped[s] \in Nat /\ reported[s] \in Nat
        BY <1>2 DEF Values
    <2>2. CASE s \in AgentStacks
        <3>1. s \notin Changed /\ s \notin left
            BY <1>1, <2>2
        <3>2. block'.profile[s] = block.profile[s] /\ dropped'[s] = dropped[s] /\ prevValues'[s] = prevValues[s]
            BY <1>5, <1>7, <2>1, <2>2, <3>1
        <3>3. QED
            BY <2>1, <2>2, <3>2 DEF Inv, Growing, DelayCountedOnce
    <2>3. CASE s \notin AgentStacks
        <3>1. prevValues'[s] = blocked[s]
            BY <1>5, <2>3
        <3>2. s \in left <=> s \notin Changed
            BY <2>3
        <3>3. block'.profile[s] + dropped'[s]
                  = block.profile[s] + dropped[s] + (blocked[s].delay - prevValues[s].delay)
            BY <1>7, <2>1, <3>2
        <3>4. prevValues[s].delay = reported[s] + block.profile[s] + dropped[s]
            BY DEF Inv, DelayCountedOnce
        <3>5. block'.profile[s] \in Nat /\ dropped'[s] \in Nat
            BY <1>3, <1>4
        <3>6. prevValues'[s].delay = reported[s] + block'.profile[s] + dropped'[s]
            BY <2>1, <3>1, <3>3, <3>4, <3>5
        <3>7. QED
            BY <2>1, <2>3, <3>1, <3>6
    <2>4. QED
        BY <2>2, <2>3
<1>9. TypeOK'
    BY <1>3, <1>4, <1>5 DEF Inv, TypeOK, RecordBlock, Unlock, jobs, runtime, Steps, Free
<1>10. QED
    BY <1>3, <1>8, <1>9 DEF Inv, RecordBlock, Unlock, Holder, OnWhileRecording, At, Lasting,
                            NeverInfinite, runtime, Free

(* A report of the block profiler. *)
LEMMA ReportStep == ASSUME Inv, ReportBlock PROVE Inv'
<1>1. /\ block.profile \in [Stacks -> Nat] /\ block.duration \in Nat /\ reported \in [Stacks -> Nat]
      /\ dropped \in [Stacks -> Nat]
    BY DEF Inv, TypeOK
<1>2. step = "begin" /\ profilerLock' = Free /\ step' = "none"
    BY DEF ReportBlock, At, Unlock
<1>3. sent' \subseteq [of : {"block", "http"}, value : {"finite", "NaN"}]
  <2> DEFINE Value(v) == [of |-> "block", value |-> v]
             Share == {[of |-> "http", value |-> "finite"]}
  <2>1. ASSUME block.duration > 0
        PROVE  sent' \subseteq {Value("finite")} \cup Share
      BY <2>1 DEF ReportBlock, Metric, Quotient
  <2>2. ASSUME ~(block.duration > 0)
        PROVE  sent' \subseteq {Value("NaN")}
    <3>1. ~Positive(block.profile)
        BY <1>1, <2>2 DEF Inv, Lasting, Positive
    <3>2. QED
        BY <2>2, <3>1 DEF ReportBlock, Metric, Quotient
  <2>3. QED
      BY <2>1, <2>2
<1>4. /\ block' = NewBlock /\ NewBlock.profile = NoDelay
      /\ NewBlock \in [profile : [Stacks -> Nat], http : [Stacks -> Nat], duration : Nat]
    BY DEF ReportBlock, NewBlock, NoDelay
<1>5. /\ UNCHANGED <<ticks, waiting, cpuProfiler, blockRate, blocked, cpu, prevValues, dropped>>
      /\ reported' = [s \in Stacks |-> reported[s] + block.profile[s]]
    BY DEF ReportBlock, jobs, runtime
<1>6. \A s \in Stacks : block'.profile[s] = 0
    BY <1>4 DEF NoDelay
<1>7. TypeOK'
    BY <1>1, <1>2, <1>3, <1>4, <1>5 DEF Inv, TypeOK, Steps
<1>8. (Growing /\ DelayCountedOnce)'
    BY <1>1, <1>5, <1>6 DEF Inv, Growing, DelayCountedOnce
<1>9. Lasting' /\ NeverInfinite'
    BY <1>3, <1>5, <1>6 DEF Inv, Lasting, NeverInfinite
<1>10. (Holder /\ OnWhileRecording)'
    BY <1>2, <1>5 DEF Inv, Holder, OnWhileRecording, At
<1>11. QED
    BY <1>7, <1>8, <1>9, <1>10 DEF Inv

(* A stutter changes nothing. *)
LEMMA StutterStep == ASSUME Inv, UNCHANGED vars PROVE Inv'
BY DEF Inv, TypeOK, Holder, OnWhileRecording, At, Growing, DelayCountedOnce, Lasting, NeverInfinite,
       vars, jobs, runtime, history

(* The inductive invariant of the profilers. *)
THEOREM Invariance == Spec => []Inv
<1>1. Inv /\ [Next]_vars => Inv'
  <2> SUFFICES ASSUME Inv, [Next]_vars PROVE Inv'
      OBVIOUS
  <2>1. ASSUME NEW k \in Kinds, Tick(k) \/ Lock(k) PROVE Inv'
      BY <2>1, TickStep, LockStep
  <2>2. CASE CPURecord \/ HostProfilesCPU
      BY <2>2, KindNames, FailStep, SwitchCPUStep, RecordCPUStep DEF CPURecord, CPUProfilerInUse
  <2>3. CASE BlockRecord
      BY <2>3, KindNames, FailStep, SwitchBlockStep, RecordStep DEF BlockRecord
  <2>4. CASE Report
      BY <2>4, KindNames, FailStep, ReportCPUStep, ReportStep DEF Report
  <2>5. ASSUME NEW s \in Stacks, NEW counted \in 0..1, BlockingEvent(s, counted) PROVE Inv'
      BY <2>5, EventStep
  <2>6. CASE UNCHANGED vars
      BY <2>6, StutterStep
  <2>7. QED
      BY <2>1, <2>2, <2>3, <2>4, <2>5, <2>6 DEF Next, Execute, Environment
<1>2. QED
    BY Initially, <1>1, PTL DEF Spec

(* Types, for all stacks and bounds. *)
THEOREM TypeCorrect == Spec => []TypeOK
<1>1. Inv => TypeOK
    BY DEF Inv
<1>2. QED
    BY Invariance, <1>1, PTL

(* The runtime's profilers never stay on after a record, whatever fails in it. *)
THEOREM ProfilersAreOffBetween == Spec => []OnWhileRecording
<1>1. Inv => OnWhileRecording
    BY DEF Inv
<1>2. QED
    BY Invariance, <1>1, PTL

(* The differences of getValueChange telescope: block time is counted once. *)
THEOREM BlockTimeCountedOnce == Spec => []DelayCountedOnce
<1>1. Inv => DelayCountedOnce
    BY DEF Inv
<1>2. QED
    BY Invariance, <1>1, PTL

(* No report divides a measurement by zero. *)
THEOREM NoInfiniteMetric == Spec => []NeverInfinite
<1>1. Inv => NeverInfinite
    BY DEF Inv
<1>2. QED
    BY Invariance, <1>1, PTL
=============================================================================
