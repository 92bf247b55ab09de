-------------------------- MODULE AgentReports_proofs --------------------------
(* Theorems about the agent, for any number of goroutines, agents, calls and    *)
(* reports. First of AgentLifecycle: the types, that a goroutine starts parts   *)
(* once at the most, and that nobody passes the check of agentStarted once it   *)
(* is set. Then of AgentReports: the composition behaves as the lifecycle alone *)
(* does, its types, and that the map of metrics is in danger only where parts   *)
(* were started twice.                                                          *)
EXTENDS AgentReports, FiniteSetTheorems, TLAPS

(* Whoever starts parts, or has started some, has set agentStarted before. *)
Flagged ==
    \A t \in Threads :
        /\ pc[t] = "parts" => agentStarted
        /\ \A a \in Agents : t \in running[a] => agentStarted

(* Past its look at the package's agent, the package's Start has one. *)
Serving ==
    \A t \in Threads :
        /\ pc[t] = "idle" => t \notin packageStart
        /\ pc[t] \in {"create", "receive"} => t \in packageStart
        /\ t \in packageStart /\ pc[t] # "create" => _agent # NoAgent

Inv == TypeOK /\ Flagged /\ Serving /\ EachStartsOnce
-------------------------------------------------------------------------------
(* The first agent's number is one. *)
LEMMA AgentNumbers ==
    /\ MaxAgents \in Nat /\ MaxCalls \in Nat
    /\ \A n \in 0..MaxAgents : n # NoAgent => n \in Agents
BY LifecycleAssumption DEF Agents, NoAgent

(* Init establishes the invariant. *)
LEMMA Initially == Init => Inv
<1> SUFFICES ASSUME Init PROVE Inv
    OBVIOUS
<1>1. 0 \in 0..MaxAgents /\ 0 \in 0..MaxCalls
    BY AgentNumbers
<1>2. TypeOK
  <2>1. /\ Histo \in BOOLEAN /\ agentStarted \in BOOLEAN
        /\ created = 0 /\ _agent = 0
        /\ histogram \subseteq 1..created /\ packageStart \subseteq Threads
        /\ returned \subseteq 1..created /\ recorded \subseteq 1..created
        /\ starters \subseteq Threads /\ methodStarted \subseteq 1..created
      BY DEF Init, NoAgent
  <2>2. running \in [Agents -> SUBSET Threads]
      BY DEF Init
  <2>3. 0 \in 0..created
      BY <2>1
  <2>4. pc \in [Threads -> Labels] /\ \A t \in Threads : pc[t] = "idle"
      BY DEF Init, Labels
  <2>5. receiver \in [Threads -> 0..created]
      BY <2>3 DEF Init, NoAgent
  <2>6. calls \in [Threads -> 0..MaxCalls]
      BY <1>1 DEF Init
  <2>7. QED
      BY <1>1, <2>1, <2>2, <2>3, <2>4, <2>5, <2>6 DEF TypeOK
<1>3. Flagged /\ EachStartsOnce /\ Serving
    BY DEF Init, Flagged, EachStartsOnce, Overtaken, Serving
<1>4. QED
    BY <1>2, <1>3 DEF Inv

(* A call begins, and is counted. *)
LEMMA CallsCounted ==
    ASSUME Inv, NEW t \in Threads, Begin(t)
    PROVE  pc[t] = "idle" /\ calls' \in [Threads -> 0..MaxCalls]
BY AgentNumbers DEF Begin, Inv, TypeOK

(* An agent is made: the numbers in use grow by one. *)
LEMMA AgentMade ==
    ASSUME Inv, NEW h \in BOOLEAN, Make(created + 1, h)
    PROVE  /\ created' \in 0..MaxAgents /\ created' = created + 1 /\ created' # NoAgent
           /\ histogram' \subseteq 1..created'
           /\ running' = running
           /\ 0..created \subseteq 0..created' /\ 1..created \subseteq 1..created'
<1>1. created \in Nat /\ created' = created + 1 /\ created' \in 1..MaxAgents /\ running' = running
    BY AgentNumbers DEF Make, Inv, TypeOK, Agents
<1>2. 0..created \subseteq 0..created' /\ 1..created \subseteq 1..created'
    BY <1>1
<1>3. histogram' \subseteq 1..created'
    BY <1>1, <1>2 DEF Make, Inv, TypeOK
<1>4. QED
    BY <1>1, <1>2, <1>3, AgentNumbers DEF NoAgent

(* Steps that leave the parts and the labels of Overtaken alone. *)
LEMMA Unaffected ==
    ASSUME Inv, agentStarted' = agentStarted, running' = running,
           \A t \in Threads : pc'[t] \in {"set", "parts"} => pc'[t] = pc[t]
    PROVE  (Flagged /\ EachStartsOnce)'
<1>1. Overtaken' \subseteq Overtaken
    BY DEF Overtaken
<1>2. QED
    BY <1>1 DEF Inv, Flagged, EachStartsOnce

(* NewAgent and Create. *)
LEMMA MakeStep ==
    ASSUME Inv, NEW t \in Threads, (\E h \in BOOLEAN : NewAgent(t, h)) \/ Create(t)
    PROVE  Inv'
<1>1. ASSUME NEW h \in BOOLEAN, NewAgent(t, h) PROVE Inv'
  <2>1. /\ created' \in 0..MaxAgents /\ histogram' \subseteq 1..created' /\ running' = running
        /\ 0..created \subseteq 0..created' /\ 1..created \subseteq 1..created'
      BY <1>1, AgentMade DEF NewAgent
  <2>2. calls' \in [Threads -> 0..MaxCalls] /\ Histo' \in BOOLEAN
      BY <1>1, CallsCounted DEF NewAgent
  <2>3. UNCHANGED <<_agent, agentStarted, pc, receiver, packageStart, returned, recorded, starters, methodStarted>>
      BY <1>1 DEF NewAgent, history
  <2>4. TypeOK'
      BY <2>1, <2>2, <2>3 DEF Inv, TypeOK
  <2>5. Serving'
      BY <2>3 DEF Inv, Serving
  <2>6. QED
      BY <2>1, <2>3, <2>4, <2>5, Unaffected DEF Inv
<1>2. ASSUME Create(t) PROVE Inv'
  <2>1. /\ created' \in 0..MaxAgents /\ histogram' \subseteq 1..created' /\ running' = running
        /\ created' = created + 1
        /\ 0..created \subseteq 0..created' /\ 1..created \subseteq 1..created'
      BY <1>2, AgentMade DEF Create, Inv, TypeOK
  <2>2. /\ UNCHANGED <<Histo, agentStarted, receiver, calls, packageStart, returned, recorded, starters, methodStarted>>
        /\ _agent' = created' /\ pc' = [pc EXCEPT ![t] = "receive"]
      BY <1>2, <2>1 DEF Create, Goto, history
  <2>3. _agent' \in 0..created' /\ pc' \in [Threads -> Labels]
      BY <2>1, <2>2, AgentNumbers DEF Inv, TypeOK, Labels
  <2>4. TypeOK'
      BY <2>1, <2>2, <2>3 DEF Inv, TypeOK
  <2>5. \A u \in Threads : pc'[u] \in {"set", "parts"} => pc'[u] = pc[u]
      BY <2>2 DEF Inv, TypeOK
  <2>6. Serving'
    <3>1. t \in packageStart /\ packageStart' = packageStart
        BY <1>2, <2>2 DEF Create, Inv, Serving
    <3>2. _agent' # NoAgent
        BY <1>2, <2>2, AgentMade DEF Create, Inv, TypeOK
    <3>3. QED
        BY <2>2, <3>1, <3>2 DEF Inv, Serving, TypeOK
  <2>7. QED
      BY <2>1, <2>2, <2>4, <2>5, <2>6, Unaffected DEF Inv
<1>3. QED
    BY <1>1, <1>2

(* What every step that makes no agent and starts no part has to keep. *)
LEMMA TypeFrame ==
    ASSUME Inv, NEW t \in Threads,
           UNCHANGED <<Histo, _agent, created, histogram>>,
           agentStarted' \in BOOLEAN,
           running' \in [Agents -> SUBSET Threads],
           calls' \in [Threads -> 0..MaxCalls],
           NEW l \in Labels, pc' = [pc EXCEPT ![t] = l],
           NEW r \in 0..created, receiver' = [receiver EXCEPT ![t] = r],
           l \in {"check", "set", "parts"} => r # NoAgent,
           packageStart' \subseteq Threads, starters' \subseteq Threads,
           returned' \subseteq 1..created, recorded' \subseteq 1..created,
           methodStarted' \subseteq 1..created
    PROVE  TypeOK'
<1>1. pc' \in [Threads -> Labels] /\ receiver' \in [Threads -> 0..created]
    BY DEF Inv, TypeOK
<1>2. \A u \in Threads : pc'[u] \in {"check", "set", "parts"} => receiver'[u] # NoAgent
    BY DEF Inv, TypeOK
<1>3. QED
    BY <1>1, <1>2 DEF Inv, TypeOK

(* A Start of the package begins or finds its receiver. *)
LEMMA StartStep == ASSUME Inv, NEW t \in Threads, Start(t) \/ Receive(t) PROVE Inv'
<1> USE DEF Labels
<1>1. CASE Start(t)
  <2>1. PICK l \in {"create", "receive"} :
            pc' = [pc EXCEPT ![t] = l] /\ (l = "receive" => _agent # NoAgent)
      BY <1>1 DEF Start, Goto
  <2>2. /\ UNCHANGED <<Histo, _agent, agentStarted, created, histogram, running, receiver, returned,
                       recorded, methodStarted>>
        /\ packageStart' = packageStart \cup {t} /\ starters' = starters \cup {t}
        /\ calls' \in [Threads -> 0..MaxCalls]
      BY <1>1, CallsCounted DEF Start, package, agents
  <2>3. receiver[t] \in 0..created /\ receiver' = [receiver EXCEPT ![t] = receiver[t]]
      BY <2>2 DEF Inv, TypeOK
  <2>4. TypeOK'
      BY <2>1, <2>2, <2>3, TypeFrame DEF Inv, TypeOK
  <2>5. Serving'
      BY <2>1, <2>2 DEF Inv, Serving, TypeOK
  <2>6. \A u \in Threads : pc'[u] \in {"set", "parts"} => pc'[u] = pc[u]
      BY <2>1 DEF Inv, TypeOK
  <2>7. QED
      BY <2>2, <2>4, <2>5, <2>6, Unaffected DEF Inv
<1>2. CASE Receive(t)
  <2>1. /\ UNCHANGED <<Histo, _agent, agentStarted, created, histogram, running, calls, packageStart,
                       returned, recorded, starters, methodStarted>>
        /\ receiver' = [receiver EXCEPT ![t] = _agent] /\ pc' = [pc EXCEPT ![t] = "check"]
        /\ pc[t] = "receive"
      BY <1>2 DEF Receive, Goto, package, agents, history
  <2>2. _agent \in 0..created /\ _agent # NoAgent
      BY <2>1 DEF Inv, TypeOK, Serving
  <2>3. TypeOK'
      BY <2>1, <2>2, TypeFrame DEF Inv, TypeOK
  <2>4. Serving'
      BY <2>1, <2>2 DEF Inv, Serving, TypeOK
  <2>5. \A u \in Threads : pc'[u] \in {"set", "parts"} => pc'[u] = pc[u]
      BY <2>1 DEF Inv, TypeOK
  <2>6. QED
      BY <2>1, <2>3, <2>4, <2>5, Unaffected DEF Inv
<1>3. QED
    BY <1>1, <1>2

(* The method Start begins, a Start returns, a record is made. *)
LEMMA CallStep ==
    ASSUME Inv, NEW t \in Threads, Return(t) \/ \E a \in Agents : MethodStart(t, a) \/ Record(t, a)
    PROVE  Inv'
<1> USE DEF Labels
<1>1. CASE Return(t)
  <2>1. /\ UNCHANGED <<Histo, _agent, agentStarted, created, histogram, running, calls, recorded,
                       starters, methodStarted>>
        /\ receiver' = [receiver EXCEPT ![t] = NoAgent] /\ pc' = [pc EXCEPT ![t] = "idle"]
        /\ pc[t] = "return" /\ packageStart' = packageStart \ {t}
        /\ returned' = IF t \in packageStart THEN returned \cup {_agent} ELSE returned
      BY <1>1 DEF Return, Goto, package, agents, history
  <2>2. t \in packageStart => _agent \in 1..created
      BY <2>1, AgentNumbers DEF Inv, TypeOK, Serving, NoAgent
  <2>3. NoAgent \in 0..created
      BY AgentNumbers DEF Inv, TypeOK, NoAgent
  <2>4. returned' \subseteq 1..created
      BY <2>1, <2>2 DEF Inv, TypeOK
  <2>5. TypeOK'
      BY <2>1, <2>3, <2>4, TypeFrame DEF Inv, TypeOK
  <2>6. Serving'
      BY <2>1 DEF Inv, Serving, TypeOK
  <2>7. \A u \in Threads : pc'[u] \in {"set", "parts"} => pc'[u] = pc[u]
      BY <2>1 DEF Inv, TypeOK
  <2>8. QED
      BY <2>1, <2>5, <2>6, <2>7, Unaffected DEF Inv
<1>2. ASSUME NEW a \in Agents, MethodStart(t, a) PROVE Inv'
  <2>1. /\ UNCHANGED <<Histo, _agent, agentStarted, created, histogram, running, packageStart,
                       returned, recorded>>
        /\ receiver' = [receiver EXCEPT ![t] = a] /\ pc' = [pc EXCEPT ![t] = "check"]
        /\ pc[t] = "idle" /\ starters' = starters \cup {t} /\ methodStarted' = methodStarted \cup {a}
        /\ calls' \in [Threads -> 0..MaxCalls]
      BY <1>2, CallsCounted DEF MethodStart, Goto, package, agents
  <2>2. a \in 1..created /\ a \in 0..created /\ a # NoAgent
      BY <1>2, AgentNumbers DEF MethodStart, Agents, NoAgent, Inv, TypeOK
  <2>3. TypeOK'
      BY <2>1, <2>2, TypeFrame DEF Inv, TypeOK
  <2>4. Serving'
      BY <2>1 DEF Inv, Serving, TypeOK
  <2>5. \A u \in Threads : pc'[u] \in {"set", "parts"} => pc'[u] = pc[u]
      BY <2>1 DEF Inv, TypeOK
  <2>6. QED
      BY <2>1, <2>3, <2>4, <2>5, Unaffected DEF Inv
<1>3. ASSUME NEW a \in Agents, Record(t, a) PROVE Inv'
  <2>1. /\ UNCHANGED <<Histo, _agent, agentStarted, created, histogram, running, pc, receiver,
                       packageStart, returned, starters, methodStarted>>
        /\ recorded' \subseteq recorded \cup {a} /\ calls' \in [Threads -> 0..MaxCalls]
      BY <1>3, CallsCounted DEF Record, package, agents
  <2>2. a \in 1..created
      BY <1>3, AgentNumbers DEF Record, Agents, Inv, TypeOK
  <2>3. TypeOK'
      BY <2>1, <2>2 DEF Inv, TypeOK
  <2>4. Serving'
      BY <2>1 DEF Inv, Serving
  <2>5. QED
      BY <2>1, <2>3, <2>4, Unaffected DEF Inv
<1>4. QED
    BY <1>1, <1>2, <1>3

(* The method Start: the check, the flag, the parts. *)
LEMMA PartsStep == ASSUME Inv, NEW t \in Threads, Check(t) \/ Set(t) \/ StartParts(t) PROVE Inv'
<1> USE DEF Labels
<1>1. receiver[t] \in 0..created /\ receiver = [receiver EXCEPT ![t] = receiver[t]]
    BY DEF Inv, TypeOK
<1>2. CASE Check(t)
  <2>1. PICK l \in {"set", "return"} :
            pc' = [pc EXCEPT ![t] = l] /\ (l = "set" => ~agentStarted)
      BY <1>2 DEF Check, Goto
  <2>2. /\ UNCHANGED <<Histo, _agent, agentStarted, created, histogram, running, receiver, calls,
                       packageStart, returned, recorded, starters, methodStarted>>
        /\ pc[t] = "check"
      BY <1>2 DEF Check, package, agents, history
  <2>3. TypeOK'
      BY <1>1, <2>1, <2>2, TypeFrame DEF Inv, TypeOK
  <2>4. Serving'
      BY <2>1, <2>2 DEF Inv, Serving, TypeOK
  <2>5. Flagged'
      BY <2>1, <2>2 DEF Inv, Flagged, TypeOK
  <2>6. EachStartsOnce'
    <3>1. ASSUME NEW u \in Threads, u \in Overtaken' PROVE \A a \in Agents : u \notin running[a]
        BY <2>1, <2>2, <3>1 DEF Inv, Flagged, EachStartsOnce, Overtaken, TypeOK
    <3>2. QED
        BY <2>2, <3>1 DEF Inv, EachStartsOnce, Overtaken
  <2>7. QED
      BY <2>3, <2>4, <2>5, <2>6 DEF Inv
<1>3. CASE Set(t)
  <2>1. /\ UNCHANGED <<Histo, _agent, created, histogram, running, receiver, calls,
                       packageStart, returned, recorded, starters, methodStarted>>
        /\ pc[t] = "set" /\ pc' = [pc EXCEPT ![t] = "parts"] /\ agentStarted' = TRUE
      BY <1>3 DEF Set, Goto, agents, history
  <2>2. TypeOK'
      BY <1>1, <2>1, TypeFrame DEF Inv, TypeOK
  <2>3. Serving' /\ Flagged'
      BY <2>1 DEF Inv, Serving, Flagged, TypeOK
  <2>4. Overtaken' \subseteq Overtaken
      BY <2>1 DEF Inv, TypeOK, Overtaken
  <2>5. EachStartsOnce'
      BY <2>1, <2>4 DEF Inv, EachStartsOnce
  <2>6. QED
      BY <2>2, <2>3, <2>5 DEF Inv
<1>4. CASE StartParts(t)
  <2>1. /\ UNCHANGED <<Histo, _agent, agentStarted, created, histogram, receiver, calls,
                       packageStart, returned, recorded, starters, methodStarted>>
        /\ pc[t] = "parts" /\ pc' = [pc EXCEPT ![t] = "return"]
        /\ running' = [running EXCEPT ![receiver[t]] = @ \cup {t}]
      BY <1>4 DEF StartParts, Goto, package, history
  <2>2. receiver[t] \in Agents
      BY <1>1, <2>1, AgentNumbers DEF Inv, TypeOK
  <2>3. running' \in [Agents -> SUBSET Threads]
      BY <2>1, <2>2 DEF Inv, TypeOK
  <2>4. TypeOK'
      BY <1>1, <2>1, <2>3, TypeFrame DEF Inv, TypeOK
  <2>5. Serving' /\ Flagged'
      BY <2>1, <2>2 DEF Inv, Serving, Flagged, TypeOK
  <2>6. /\ Overtaken' = Overtaken \ {t} /\ t \in Overtaken
        /\ \A a \in Agents : running'[a] = IF a = receiver[t] THEN running[a] \cup {t} ELSE running[a]
      BY <2>1, <2>2 DEF Inv, TypeOK, Overtaken
  <2>7. EachStartsOnce'
    <3>1. ASSUME NEW u \in Threads, u # t, NEW a \in Agents
          PROVE  u \in running'[a] <=> u \in running[a]
        BY <2>6, <3>1
    <3>2. ASSUME NEW a \in Agents, t \in running'[a]
          PROVE  a = receiver[t]
        BY <2>6, <3>2 DEF Inv, EachStartsOnce
    <3>3. ASSUME NEW u \in Threads
          PROVE  /\ u \in Overtaken' => \A a \in Agents : u \notin running'[a]
                 /\ \A a, b \in Agents : u \in running'[a] /\ u \in running'[b] => a = b
      <4>1. CASE u = t
          BY <2>6, <3>2, <4>1
      <4>2. CASE u # t
          BY <2>6, <3>1, <4>2 DEF Inv, EachStartsOnce
      <4>3. QED
          BY <4>1, <4>2
    <3>4. QED
        BY <3>3 DEF EachStartsOnce
  <2>8. QED
      BY <2>4, <2>5, <2>7 DEF Inv
<1>5. QED
    BY <1>2, <1>3, <1>4

(* A stutter changes nothing. *)
LEMMA StutterStep == ASSUME Inv, UNCHANGED vars PROVE Inv'
BY DEF Inv, TypeOK, Flagged, Serving, EachStartsOnce, Overtaken, vars, package, agents, threads, history

(* The inductive invariant of the lifecycle. *)
LEMMA Steps == Inv /\ [Next]_vars => Inv'
<1> SUFFICES ASSUME Inv, [Next]_vars PROVE Inv'
    OBVIOUS
<1>1. ASSUME NEW t \in Threads, Call(t) PROVE Inv'
    BY <1>1, MakeStep, StartStep, CallStep, PartsStep DEF Call, StartMethod
<1>2. CASE UNCHANGED vars
    BY <1>2, StutterStep
<1>3. QED
    BY <1>1, <1>2 DEF Next, HostRests

(* It holds for any number of goroutines, agents and calls. *)
THEOREM Invariance == Spec => []Inv
BY Initially, Steps, PTL DEF Spec

(* Types. *)
THEOREM TypeCorrect == Spec => []TypeOK
<1>1. Inv => TypeOK
    BY DEF Inv
<1>2. QED
    BY Invariance, <1>1, PTL

(* No goroutine starts parts twice: the parts of as many agents can run as       *)
(* goroutines have read agentStarted before it was set.                          *)
THEOREM StartedOnce == Spec => []EachStartsOnce
<1>1. Inv => EachStartsOnce
    BY DEF Inv
<1>2. QED
    BY Invariance, <1>1, PTL

(* Once agentStarted is set the goroutines that may start parts become fewer. *)
THEOREM NoLateStart == Spec => StaysStarted
<1>1. ASSUME Inv, [Next]_vars, agentStarted PROVE Overtaken' \subseteq Overtaken
  <2>1. ASSUME NEW t \in Threads, NEW l \in Labels \ {"set", "parts"}, pc' = [pc EXCEPT ![t] = l]
        PROVE  Overtaken' \subseteq Overtaken
      BY <1>1, <2>1 DEF Inv, TypeOK, Overtaken
  <2>2. ASSUME NEW t \in Threads, Start(t) \/ Create(t) \/ Receive(t) \/ Check(t) \/ StartParts(t) \/ Return(t)
        PROVE  Overtaken' \subseteq Overtaken
      BY <1>1, <2>1, <2>2 DEF Start, Create, Receive, Check, StartParts, Return, Goto, Labels
  <2>3. ASSUME NEW t \in Threads, NEW a \in Agents, MethodStart(t, a)
        PROVE  Overtaken' \subseteq Overtaken
      BY <2>1, <2>3 DEF MethodStart, Goto, Labels
  <2>4. ASSUME NEW t \in Threads, Set(t)
        PROVE  Overtaken' \subseteq Overtaken
      BY <1>1, <2>4 DEF Set, Goto, Inv, TypeOK, Overtaken
  <2>5. ASSUME pc' = pc PROVE Overtaken' \subseteq Overtaken
      BY <2>5 DEF Overtaken
  <2>6. QED
      BY <1>1, <2>2, <2>3, <2>4, <2>5
         DEF Next, HostRests, Call, StartMethod, NewAgent, Record, vars, threads
<1>2. QED
    BY Invariance, <1>1, PTL DEF Spec, StaysStarted
-------------------------------------------------------------------------------
(* Of a program that starts from one goroutine, and only through the package:   *)
(* whoever is inside a call is that goroutine and works on the package's agent, *)
(* which runs once agentStarted is set and that call is past its parts.         *)
Started == _agent # NoAgent /\ running[_agent] # {}
OneCaller ==
    /\ \A t \in Threads : pc[t] # "idle" => t \in starters /\ t \in packageStart
    /\ \A t \in Threads : pc[t] = "create" => ~agentStarted
    /\ \A t \in Threads : pc[t] \in {"check", "set", "parts"} => receiver[t] = _agent
    /\ \A t \in Threads : pc[t] = "return" => Started
    /\ agentStarted => Started \/ \E t \in Threads : pc[t] = "parts"
    /\ \A a \in returned : running[a] # {}
Proper == ProperUse => OneCaller

(* One goroutine at the most has called a Start. *)
LEMMA SoleStarter ==
    ASSUME NEW S, S \subseteq Threads, Cardinality(S) <= 1
    PROVE  \A t, u \in S : t = u
<1>1. IsFiniteSet(S)
    BY LifecycleAssumption, FS_Subset
<1>2. CASE Cardinality(S) = 0
    BY <1>1, <1>2, FS_EmptySet
<1>3. CASE Cardinality(S) = 1
    BY <1>1, <1>3, FS_Singleton
<1>4. QED
    BY <1>1, <1>2, <1>3, FS_CardinalityType

(* Starters and the agents started by their method only become more. *)
LEMMA UseGrows ==
    ASSUME Inv, [Next]_vars, ProperUse'
    PROVE  ProperUse /\ methodStarted' = methodStarted
<1>1. starters \subseteq starters' /\ methodStarted \subseteq methodStarted'
    BY DEF Next, Call, StartMethod, HostRests, NewAgent, Start, Create, Receive, MethodStart, Record,
           Check, Set, StartParts, Return, vars, history
<1>2. IsFiniteSet(starters')
  <2>1. starters' \subseteq Threads
      BY Steps DEF Inv, TypeOK
  <2>2. QED
      BY <2>1, LifecycleAssumption, FS_Subset
<1>3. Cardinality(starters) <= Cardinality(starters') /\ IsFiniteSet(starters)
    BY <1>1, <1>2, FS_Subset
<1>4. QED
    BY <1>1, <1>2, <1>3, FS_CardinalityType DEF ProperUse

(* In such a program a goroutine inside a call is alone. *)
LEMMA Alone ==
    ASSUME Inv, ProperUse, OneCaller, NEW t \in Threads, pc[t] # "idle"
    PROVE  \A u \in Threads \ {t} : pc[u] = "idle"
<1>1. \A u, v \in starters : u = v
    BY SoleStarter DEF Inv, TypeOK, ProperUse
<1>2. QED
    BY <1>1 DEF OneCaller

LEMMA ProperSteps == Inv /\ Proper /\ [Next]_vars => Proper'
<1> SUFFICES ASSUME Inv, Proper, [Next]_vars, ProperUse' PROVE OneCaller'
    BY DEF Proper
<1>1. ProperUse /\ OneCaller /\ methodStarted' = methodStarted /\ methodStarted = {}
    BY UseGrows DEF Proper, ProperUse
<1>2. /\ pc \in [Threads -> Labels] /\ receiver \in [Threads -> 0..created]
      /\ running \in [Agents -> SUBSET Threads]
      /\ \A n \in 0..created : n # NoAgent => n \in Agents
      /\ _agent \in 0..created /\ created \in 0..MaxAgents
    BY AgentNumbers DEF Inv, TypeOK
<1>3. ASSUME NEW t \in Threads, Start(t) PROVE OneCaller'
  <2>1. \A u, v \in starters' : u = v
    <3>1. starters' \subseteq Threads
        BY <1>3, Steps DEF Inv, TypeOK
    <3>2. QED
        BY <3>1, SoleStarter DEF ProperUse
  <2>2. \A u \in Threads : pc[u] = "idle"
      BY <1>1, <1>3, <2>1 DEF Start, Begin, OneCaller
  <2>3. agentStarted => Started
      BY <1>1, <2>2 DEF OneCaller
  <2>4. QED
      BY <1>1, <1>2, <1>3, <2>2, <2>3 DEF Start, Goto, OneCaller, Started, package, agents
<1>4. ASSUME NEW t \in Threads, Create(t) PROVE OneCaller'
  <2>1. \A u \in Threads \ {t} : pc[u] = "idle"
      BY <1>1, <1>4, Alone DEF Create
  <2>2. pc' = [pc EXCEPT ![t] = "receive"] /\ receiver' = receiver /\ running' = running
      BY <1>4 DEF Create, Goto, Make
  <2>3. ~agentStarted' /\ returned' = returned /\ starters' = starters /\ packageStart' = packageStart
      BY <1>1, <1>4 DEF Create, OneCaller, history
  <2>4. QED
      BY <1>1, <1>2, <1>4, <2>1, <2>2, <2>3 DEF Create, OneCaller
<1>5. ASSUME NEW t \in Threads, Receive(t) PROVE OneCaller'
    BY <1>1, <1>2, <1>5 DEF Receive, Goto, OneCaller, Started, package, agents, history
<1>6. ASSUME NEW t \in Threads, Check(t) PROVE OneCaller'
  <2>1. \A u \in Threads \ {t} : pc[u] = "idle"
      BY <1>1, <1>6, Alone DEF Check
  <2>2. agentStarted => Started
      BY <1>1, <1>2, <1>6, <2>1 DEF OneCaller, Check
  <2>3. QED
      BY <1>1, <1>2, <1>6, <2>2 DEF Check, Goto, OneCaller, Started, package, agents, history
<1>7. ASSUME NEW t \in Threads, Set(t) PROVE OneCaller'
  <2>1. pc'[t] = "parts" /\ \A u \in Threads \ {t} : pc'[u] = pc[u] /\ pc[u] = "idle"
      BY <1>1, <1>2, <1>7, Alone DEF Set, Goto
  <2>2. QED
      BY <1>1, <1>2, <1>7, <2>1 DEF Set, OneCaller, Started, agents, history
<1>8. ASSUME NEW t \in Threads, StartParts(t) PROVE OneCaller'
  <2>1. pc'[t] = "return" /\ \A u \in Threads \ {t} : pc'[u] = pc[u] /\ pc[u] = "idle"
      BY <1>1, <1>2, <1>8, Alone DEF StartParts, Goto
  <2>2. receiver[t] = _agent /\ _agent \in Agents /\ _agent # NoAgent
      BY <1>1, <1>2, <1>8 DEF StartParts, OneCaller, Inv, TypeOK
  <2>3. t \in running'[_agent] /\ \A a \in Agents : running[a] \subseteq running'[a]
      BY <1>2, <1>8, <2>2 DEF StartParts
  <2>4. Started'
      BY <1>8, <2>2, <2>3 DEF StartParts, Started, package
  <2>5. \A a \in returned' : running'[a] # {}
    <3>1. returned' = returned /\ returned \subseteq Agents
        BY <1>2, <1>8, AgentNumbers DEF StartParts, Inv, TypeOK, Agents
    <3>2. QED
        BY <1>1, <2>3, <3>1 DEF OneCaller
  <2>6. QED
      BY <1>1, <1>8, <2>1, <2>4, <2>5 DEF StartParts, OneCaller, history
<1>9. ASSUME NEW t \in Threads, Return(t) PROVE OneCaller'
  <2>1. pc'[t] = "idle" /\ \A u \in Threads \ {t} : pc'[u] = pc[u] /\ pc[u] = "idle"
      BY <1>1, <1>2, <1>9, Alone DEF Return, Goto
  <2>2. Started
      BY <1>1, <1>9 DEF OneCaller, Return
  <2>3. QED
      BY <1>1, <1>9, <2>1, <2>2 DEF Return, OneCaller, Started, package, agents, history
<1>10. ASSUME NEW t \in Threads, NEW h \in BOOLEAN, NewAgent(t, h) PROVE OneCaller'
    BY <1>1, <1>10 DEF NewAgent, Make, OneCaller, Started, history
<1>11. ASSUME NEW t \in Threads, NEW a \in Agents, Record(t, a) PROVE OneCaller'
    BY <1>1, <1>11 DEF Record, OneCaller, Started, package, agents
<1>12. ASSUME NEW t \in Threads, NEW a \in Agents, MethodStart(t, a) PROVE FALSE
    BY <1>1, <1>12 DEF MethodStart
<1>13. ASSUME UNCHANGED vars PROVE OneCaller'
    BY <1>1, <1>13 DEF vars, package, agents, threads, history, OneCaller, Started
<1>14. QED
    BY <1>3, <1>4, <1>5, <1>6, <1>7, <1>8, <1>9, <1>10, <1>11, <1>12, <1>13
       DEF Next, Call, StartMethod, HostRests

(* A program that starts only through the package and from one goroutine gets    *)
(* agents that run.                                                              *)
THEOREM StartReturnsRunning == Spec => []ReturnedIsRunning
<1>1. Init => Proper
    BY DEF Init, Proper, OneCaller
<1>2. Proper => ReturnedIsRunning
    BY DEF Proper, OneCaller, ReturnedIsRunning
<1>3. QED
    BY Initially, Steps, ProperSteps, <1>1, <1>2, PTL DEF Spec
-------------------------------------------------------------------------------
(* What the process reporters do changes nothing of the lifecycle: whatever is  *)
(* true of every behaviour of AgentLifecycle is true here.                      *)
THEOREM ImplementsLifecycle == SystemSpec => Spec
<1>1. SystemInit => Init
    BY DEF SystemInit
<1>2. [SystemNext]_allVars => [Next]_vars
    BY DEF SystemNext, allVars
<1>3. QED
    BY <1>1, <1>2, PTL DEF SystemSpec, Spec

(* Who reports on an agent has started it. *)
ReportersStarted ==
    \A t \in Threads, a \in Agents : step[<<t, a>>] # "idle" => t \in running[a]

(* Two goroutines have started one agent. *)
StartedTwice(a) == \E t, u \in running[a] : t # u
RacedOnly == crashed => \E a \in Agents : StartedTwice(a)

ReportInv == Inv /\ ProcessTypeOK /\ ReportersStarted /\ RacedOnly
-------------------------------------------------------------------------------
(* Goroutines are pairs, and every step is one of a goroutine that was started. *)
LEMMA Pairs ==
    /\ Goroutines = Threads \X Agents
    /\ \A t \in Threads, a \in Agents : <<t, a>> \in Goroutines
    /\ \A g \in Goroutines : g = <<g[1], g[2]>> /\ g[1] \in Threads /\ g[2] \in Agents
BY DEF Goroutines

LEMMA ScriptFacts ==
    /\ Script \in Seq(STRING) /\ Len(Script) \in Nat /\ DOMAIN Script = 1..Len(Script)
    /\ 1 \in DOMAIN Script /\ 2 \in DOMAIN Script
    /\ "cpuTime" \in Names /\ "cpuUsage" \in Names
    /\ \A i \in DOMAIN Script : Script[i] \in Names
    /\ \A i \in DOMAIN Script : Script[i] = "cpuUsage" <=> i = 2
    /\ \A i \in DOMAIN Script : Script[i] = "cpuTime" <=> i = 1
    /\ Script[1] = "cpuTime" /\ Script[2] = "cpuUsage"
BY ReportsAssumption DEF IsScript, Names

LEMMA ReportInitially == SystemInit => ReportInv
<1> SUFFICES ASSUME SystemInit PROVE ReportInv
    OBVIOUS
<1>1. Inv
    BY Initially DEF SystemInit
<1>2. ProcessTypeOK
  <2>1. 0 \in 0..MaxActivity /\ 0 \in 0..MaxReports
      BY ReportsAssumption
  <2>2. AtStart \in Local
      BY ScriptFacts DEF AtStart, Local
  <2>3. Unused \in Metric
      BY DEF Unused, Metric
  <2>4. \A g \in Goroutines : HasMetric(g)
      BY DEF SystemInit, ProcessInit, HasMetric
  <2>5. /\ metrics \in [Agents -> [Names -> Threads \cup {NoMetric}]]
        /\ metric \in [Goroutines -> [Names -> Metric]]
        /\ base \in [Agents -> [Names -> Int]] /\ total \in [Agents -> [Names -> Int]]
      BY <2>3 DEF SystemInit, ProcessInit
  <2>6. step \in [Goroutines -> ReportSteps] /\ local \in [Goroutines -> Local]
      BY <2>2 DEF SystemInit, ProcessInit, ReportSteps
  <2>7. QED
      BY <2>1, <2>4, <2>5, <2>6 DEF SystemInit, ProcessInit, ProcessTypeOK
<1>3. ReportersStarted /\ RacedOnly
    BY Pairs DEF SystemInit, ProcessInit, ReportersStarted, RacedOnly
<1>4. QED
    BY <1>1, <1>2, <1>3 DEF ReportInv

(* Where report goes on after a metric. *)
LEMMA Continuing ==
    ASSUME ReportInv, NEW g \in Goroutines, NEW i \in Nat, i > 0, Continue(g, i),
           i = 2 => local[g].maker # NoMetric
    PROVE  /\ local' \in [Goroutines -> Local] /\ step' \in [Goroutines -> ReportSteps]
           /\ \A h \in Goroutines : h # g => local'[h] = local[h] /\ step'[h] = step[h]
           /\ step'[g] \in {"read", "idle"}
           /\ HasMetric(g)'
<1>1. local \in [Goroutines -> Local] /\ step \in [Goroutines -> ReportSteps]
    BY DEF ReportInv, ProcessTypeOK
<1>2. CASE i \in DOMAIN Script
  <2>1. [at |-> i, value |-> 0, maker |-> local[g].maker, ready |-> FALSE] \in Local
    <3>1. local[g].maker \in Threads \cup {NoMetric}
        BY <1>1 DEF Local
    <3>2. QED
        BY <1>2, <3>1 DEF Local
  <2>2. /\ step' = [step EXCEPT ![g] = "read"]
        /\ local' = [local EXCEPT ![g] = [at |-> i, value |-> 0, maker |-> local[g].maker, ready |-> FALSE]]
      BY <1>2 DEF Continue, GoStep
  <2>3. local'[g].at = i /\ local'[g].maker = local[g].maker
      BY <1>1, <2>2
  <2>4. HasMetric(g)'
      BY <1>1, <1>2, <2>2, <2>3, ScriptFacts DEF HasMetric, Name
  <2>5. QED
      BY <1>1, <2>1, <2>2, <2>4 DEF ReportSteps
<1>3. CASE i \notin DOMAIN Script
  <2>1. AtStart \in Local
      BY ScriptFacts DEF AtStart, Local
  <2>2. step' = [step EXCEPT ![g] = "idle"] /\ local' = [local EXCEPT ![g] = AtStart]
      BY <1>3 DEF Continue, GoStep
  <2>3. QED
      BY <1>1, <2>1, <2>2 DEF ReportSteps, HasMetric
<1>4. QED
    BY <1>2, <1>3

(* The step of a goroutine leaves the other goroutines alone, and it was started. *)
LEMMA Others ==
    ASSUME ReportInv, NEW t \in Threads, NEW a \in Agents, t \in running[a], UNCHANGED vars,
           step' \in [Goroutines -> ReportSteps],
           \A h \in Goroutines : h # <<t, a>> => step'[h] = step[h]
    PROVE  ReportersStarted' /\ Inv'
<1>1. Inv'
    BY Steps DEF ReportInv
<1>2. running' = running
    BY DEF vars, agents
<1>3. ASSUME NEW u \in Threads, NEW b \in Agents, step'[<<u, b>>] # "idle" PROVE u \in running'[b]
  <2>1. CASE <<u, b>> = <<t, a>>
      BY <1>2, <2>1
  <2>2. CASE <<u, b>> # <<t, a>>
      BY <1>2, <1>3, <2>2, Pairs DEF ReportInv, ReportersStarted
  <2>3. QED
      BY <2>1, <2>2
<1>4. QED
    BY <1>1, <1>3 DEF ReportersStarted

(* The steps before a measurement. *)
LEMMA ReadSteps ==
    ASSUME ReportInv, NEW t \in Threads, NEW a \in Agents, t \in running[a], UNCHANGED vars,
           Fire(<<t, a>>) \/ Read(<<t, a>>) \/ ReadFails(<<t, a>>) \/ ReadUsage(<<t, a>>)
    PROVE  ReportInv'
<1> DEFINE g == <<t, a>>
<1>1. /\ g \in Goroutines /\ g[1] = t /\ g[2] = a
      /\ local \in [Goroutines -> Local] /\ step \in [Goroutines -> ReportSteps]
      /\ local[g] \in Local /\ local[g].at \in Nat /\ local[g].at > 0
    BY Pairs, ScriptFacts DEF ReportInv, ProcessTypeOK, Local
<1>2. /\ activity' \in 0..MaxActivity /\ reports' \in [Agents -> 0..MaxReports]
      /\ metrics' = metrics /\ metric' = metric /\ crashed' = crashed /\ base' = base /\ total' = total
    BY <1>1, ReportsAssumption DEF Fire, Read, ReadFails, ReadUsage, ReportInv, ProcessTypeOK
<1>3. /\ local' \in [Goroutines -> Local] /\ step' \in [Goroutines -> ReportSteps]
      /\ \A h \in Goroutines : h # g => local'[h] = local[h] /\ step'[h] = step[h]
      /\ HasMetric(g)'
  <2>1. CASE Fire(g)
    <3>1. local' = [local EXCEPT ![g] = AtStart] /\ step' = [step EXCEPT ![g] = "read"]
        BY <2>1 DEF Fire, GoStep
    <3>2. AtStart \in Local /\ AtStart.at = 1
        BY ScriptFacts DEF AtStart, Local
    <3>3. HasMetric(g)'
        BY <1>1, <3>1, <3>2, ScriptFacts DEF HasMetric, Name
    <3>4. QED
        BY <1>1, <3>1, <3>2, <3>3 DEF ReportSteps
  <2>2. CASE Read(g)
    <3>1. local' = [local EXCEPT ![g].value = activity'] /\ step' = [step EXCEPT ![g] = "lookup"]
        BY <2>2 DEF Read, GoStep
    <3>2. activity' \in Int
        BY <1>2
    <3>3. QED
        BY <1>1, <3>1, <3>2 DEF ReportSteps, Local, HasMetric
  <2>3. CASE ReadFails(g)
    <3>1. Continue(g, local[g].at + 2)
        BY <2>3 DEF ReadFails
    <3>2. local[g].at + 2 \in Nat /\ local[g].at + 2 > 0 /\ local[g].at + 2 # 2
        BY <1>1
    <3>3. QED
        BY <1>1, <3>1, <3>2, Continuing
  <2>4. CASE ReadUsage(g)
    <3>1. /\ local' = [local EXCEPT ![g].value = metric[Own(g)]["cpuTime"].value]
          /\ step' = [step EXCEPT ![g] = "lookup"]
        BY <2>4 DEF ReadUsage, GoStep
    <3>2. local[g].maker \in Threads
        BY <1>1, <2>4 DEF ReadUsage, ReportInv, ProcessTypeOK, HasMetric, Local
    <3>3. Own(g) \in Goroutines
        BY <1>1, <3>2, Pairs DEF Own, MapOf
    <3>4. metric[Own(g)]["cpuTime"].value \in Int
        BY <3>3, ScriptFacts DEF ReportInv, ProcessTypeOK, Metric
    <3>5. QED
        BY <1>1, <3>1, <3>4 DEF ReportSteps, Local, HasMetric
  <2>5. QED
      BY <2>1, <2>2, <2>3, <2>4
<1>4. \A h \in Goroutines : HasMetric(h)'
    BY <1>1, <1>3 DEF HasMetric, Name, ReportInv, ProcessTypeOK
<1>5. ProcessTypeOK'
    BY <1>2, <1>3, <1>4 DEF ReportInv, ProcessTypeOK
<1>6. RacedOnly'
    BY <1>2 DEF ReportInv, RacedOnly, StartedTwice, vars, agents
<1>7. QED
    BY <1>3, <1>5, <1>6, Others DEF ReportInv

(* The map: who meets a writer is not the only one that was started. *)
LEMMA MapSteps ==
    ASSUME ReportInv, NEW t \in Threads, NEW a \in Agents, t \in running[a], UNCHANGED vars,
           LookUp(<<t, a>>) \/ BeginInsert(<<t, a>>) \/ Insert(<<t, a>>) \/ Crash(<<t, a>>)
    PROVE  ReportInv'
<1> DEFINE g == <<t, a>>
<1>1. /\ g \in Goroutines /\ g[1] = t /\ g[2] = a /\ MapOf(g) = a
      /\ local \in [Goroutines -> Local] /\ step \in [Goroutines -> ReportSteps]
      /\ local[g] \in Local /\ Name(g) \in Names
      /\ metrics \in [Agents -> [Names -> Threads \cup {NoMetric}]]
      /\ metric \in [Goroutines -> [Names -> Metric]]
    BY Pairs, ScriptFacts DEF ReportInv, ProcessTypeOK, Local, Name, MapOf
<1>2. /\ activity' = activity /\ reports' = reports /\ base' = base /\ total' = total
    BY DEF LookUp, BeginInsert, Insert, Crash
<1>3. /\ local' \in [Goroutines -> Local] /\ step' \in [Goroutines -> ReportSteps]
      /\ \A h \in Goroutines : h # g => local'[h] = local[h] /\ step'[h] = step[h]
      /\ HasMetric(g)'
      /\ metrics' \in [Agents -> [Names -> Threads \cup {NoMetric}]]
      /\ metric' \in [Goroutines -> [Names -> Metric]] /\ crashed' \in BOOLEAN
  <2>1. CASE LookUp(g)
    <3>1. metrics[a][Name(g)] \in Threads \cup {NoMetric}
        BY <1>1
    <3>2. /\ local' = [local EXCEPT ![g].maker = metrics[a][Name(g)]]
          /\ step' = [step EXCEPT ![g] = IF metrics[a][Name(g)] = NoMetric THEN "insert" ELSE "compute"]
          /\ metrics' = metrics /\ metric' = metric /\ crashed' = crashed
        BY <1>1, <2>1 DEF LookUp, GoStep
    <3>3. local' \in [Goroutines -> Local] /\ local'[g].maker = metrics[a][Name(g)]
        BY <1>1, <3>1, <3>2 DEF Local
    <3>4. step' \in [Goroutines -> ReportSteps]
        BY <1>1, <3>2 DEF ReportSteps
    <3>5. QED
        BY <1>1, <3>2, <3>3, <3>4 DEF HasMetric, ReportInv, ProcessTypeOK
  <2>2. CASE BeginInsert(g)
    <3>1. /\ local' = [local EXCEPT ![g].maker = t] /\ step' = [step EXCEPT ![g] = "inserting"]
          /\ metric' = [metric EXCEPT ![<<t, a>>][Name(g)] = Unused]
          /\ metrics' = metrics /\ crashed' = crashed
        BY <1>1, <2>2 DEF BeginInsert, GoStep
    <3>2. Unused \in Metric
        BY DEF Unused, Metric
    <3>3. local' \in [Goroutines -> Local] /\ local'[g].maker = t
        BY <1>1, <3>1 DEF Local
    <3>4. metric' \in [Goroutines -> [Names -> Metric]]
        BY <1>1, <3>1, <3>2
    <3>5. t # NoMetric
        BY ReportsAssumption
    <3>6. QED
        BY <1>1, <3>1, <3>3, <3>4, <3>5 DEF HasMetric, ReportSteps, ReportInv, ProcessTypeOK
  <2>3. CASE Insert(g)
    <3>1. /\ local' = local /\ step' = [step EXCEPT ![g] = "compute"]
          /\ metrics' = [metrics EXCEPT ![a][Name(g)] = t]
          /\ metric' = metric /\ crashed' = crashed /\ step[g] = "inserting"
        BY <1>1, <2>3 DEF Insert, GoStep
    <3>2. metrics' \in [Agents -> [Names -> Threads \cup {NoMetric}]]
        BY <1>1, <3>1
    <3>3. local[g].maker # NoMetric
        BY <1>1, <3>1 DEF HasMetric, ReportInv, ProcessTypeOK
    <3>4. QED
        BY <1>1, <3>1, <3>2, <3>3 DEF HasMetric, ReportSteps, ReportInv, ProcessTypeOK
  <2>4. CASE Crash(g)
      BY <1>1, <2>4 DEF Crash, ReportInv, ProcessTypeOK, HasMetric, Name
  <2>5. QED
      BY <2>1, <2>2, <2>3, <2>4
<1>4. \A h \in Goroutines : HasMetric(h)'
    BY <1>1, <1>3 DEF HasMetric, Name, ReportInv, ProcessTypeOK
<1>5. ProcessTypeOK'
    BY <1>2, <1>3, <1>4 DEF ReportInv, ProcessTypeOK
<1>6. RacedOnly'
  <2>1. CASE Crash(g)
    <3>1. PICK h \in Goroutines \ {g} : MapOf(h) = MapOf(g) /\ step[h] = "inserting"
        BY <2>1 DEF Crash, BeingWritten
    <3>2. h = <<h[1], a>> /\ h[1] \in Threads /\ h[1] # t
        BY <1>1, <3>1, Pairs DEF MapOf
    <3>3. h[1] \in running[a]
        BY <3>1, <3>2 DEF ReportInv, ReportersStarted
    <3>4. StartedTwice(a)'
        BY <3>2, <3>3 DEF StartedTwice, vars, agents
    <3>5. QED
        BY <3>4 DEF RacedOnly
  <2>2. CASE ~Crash(g)
      BY <2>2 DEF LookUp, BeginInsert, Insert, ReportInv, RacedOnly, StartedTwice, vars, agents
  <2>3. QED
      BY <2>1, <2>2
<1>7. QED
    BY <1>3, <1>5, <1>6, Others DEF ReportInv

(* One sum of one agent changes. *)
LEMMA SumsUpdated ==
    ASSUME NEW f \in [Agents -> [Names -> Int]], NEW a \in Agents, NEW n \in Names, NEW v \in Int
    PROVE  [f EXCEPT ![a][n] = v] \in [Agents -> [Names -> Int]]
<1>1. [f[a] EXCEPT ![n] = v] \in [Names -> Int]
    OBVIOUS
<1>2. QED
    BY <1>1

(* createMeasurement and the message. *)
LEMMA MeasureSteps ==
    ASSUME ReportInv, NEW t \in Threads, NEW a \in Agents, t \in running[a], UNCHANGED vars,
           Compute(<<t, a>>) \/ Store(<<t, a>>) \/ Send(<<t, a>>)
    PROVE  ReportInv'
<1> DEFINE g == <<t, a>>
           m == Current(g)
<1>1. /\ g \in Goroutines /\ g[1] = t /\ g[2] = a /\ MapOf(g) = a
      /\ local \in [Goroutines -> Local] /\ step \in [Goroutines -> ReportSteps]
      /\ local[g] \in Local /\ Name(g) \in Names
      /\ local[g].at \in Nat /\ local[g].at > 0 /\ local[g].value \in Int
      /\ metric \in [Goroutines -> [Names -> Metric]]
      /\ base \in [Agents -> [Names -> Int]] /\ total \in [Agents -> [Names -> Int]]
    BY Pairs, ScriptFacts DEF ReportInv, ProcessTypeOK, Local, Name, MapOf
<1>2. local[g].maker \in Threads /\ local[g].maker # NoMetric
    BY <1>1 DEF Compute, Store, Send, ReportInv, ProcessTypeOK, HasMetric, Local
<1>3. Own(g) \in Goroutines /\ m \in Metric /\ m.lastValue \in Int /\ m.value \in Int /\ m.measured \in BOOLEAN
    BY <1>1, <1>2, Pairs DEF Own, Current, Metric
<1>4. /\ activity' = activity /\ reports' = reports /\ crashed' = crashed /\ metrics' = metrics
    BY DEF Compute, Store, Send
<1>5. /\ local' \in [Goroutines -> Local] /\ step' \in [Goroutines -> ReportSteps]
      /\ \A h \in Goroutines : h # g => local'[h] = local[h] /\ step'[h] = step[h]
      /\ HasMetric(g)'
      /\ metric' \in [Goroutines -> [Names -> Metric]]
      /\ base' \in [Agents -> [Names -> Int]] /\ total' \in [Agents -> [Names -> Int]]
  <2>1. CASE Compute(g)
    <3>1. /\ local' = [local EXCEPT ![g].ready = (Name(g) \in Counters) => m.hasLastValue]
          /\ step' = [step EXCEPT ![g] = "store"]
          /\ metric' = metric /\ base' = base /\ total' = total
        BY <2>1 DEF Compute, GoStep
    <3>2. local' \in [Goroutines -> Local] /\ local'[g].maker = local[g].maker
        BY <1>1, <1>3, <3>1 DEF Local, Metric
    <3>3. QED
        BY <1>1, <1>2, <3>1, <3>2 DEF ReportSteps, HasMetric
  <2>2. CASE Store(g)
    <3> DEFINE new == [hasLastValue |-> Name(g) \in Counters,
                       lastValue    |-> IF Name(g) \in Counters THEN local[g].value ELSE m.lastValue,
                       measured     |-> m.measured \/ local[g].ready,
                       value        |-> IF local[g].ready THEN local[g].value - m.lastValue ELSE m.value]
    <3>1. /\ local' = local /\ step' = [step EXCEPT ![g] = "send"] /\ total' = total
          /\ metric' = [metric EXCEPT ![Own(g)][Name(g)] = new]
          /\ base' = base \/ base' = [base EXCEPT ![a][Name(g)] = local[g].value]
        BY <1>1, <2>2 DEF Store, GoStep
    <3>2. new \in Metric
      <4>1. (m.measured \/ local[g].ready) \in BOOLEAN /\ (Name(g) \in Counters) \in BOOLEAN
          OBVIOUS
      <4>2. QED
          BY <1>1, <1>3, <4>1 DEF Metric
    <3>3. metric' \in [Goroutines -> [Names -> Metric]]
        BY <1>1, <1>3, <3>1, <3>2
    <3>4. base' \in [Agents -> [Names -> Int]]
      <4>1. [base EXCEPT ![a][Name(g)] = local[g].value] \in [Agents -> [Names -> Int]]
          BY <1>1, SumsUpdated
      <4>2. QED
          BY <1>1, <3>1, <4>1
    <3>5. QED
        BY <1>1, <1>2, <3>1, <3>3, <3>4 DEF ReportSteps, HasMetric
  <2>3. CASE Send(g)
    <3>1. /\ metric' = metric /\ base' = base
          /\ total' = total \/ total' = [total EXCEPT ![a][Name(g)] = @ + m.value]
        BY <1>1, <2>3 DEF Send
    <3>2. total' \in [Agents -> [Names -> Int]]
      <4>1. total[a][Name(g)] + m.value \in Int
          BY <1>1, <1>3
      <4>2. [total EXCEPT ![a][Name(g)] = total[a][Name(g)] + m.value] \in [Agents -> [Names -> Int]]
          BY <1>1, <4>1, SumsUpdated
      <4>3. QED
          BY <1>1, <3>1, <4>2
    <3>3. Continue(g, local[g].at + 1) \/ Continue(g, local[g].at + 2)
        BY <2>3 DEF Send
    <3>4. /\ local[g].at + 1 \in Nat /\ local[g].at + 1 > 0
          /\ local[g].at + 2 \in Nat /\ local[g].at + 2 > 0
        BY <1>1
    <3>5. QED
        BY <1>1, <1>2, <3>1, <3>2, <3>3, <3>4, Continuing
  <2>4. QED
      BY <2>1, <2>2, <2>3
<1>6. \A h \in Goroutines : HasMetric(h)'
    BY <1>1, <1>5 DEF HasMetric, Name, ReportInv, ProcessTypeOK
<1>7. ProcessTypeOK'
    BY <1>4, <1>5, <1>6 DEF ReportInv, ProcessTypeOK
<1>8. RacedOnly'
    BY <1>4 DEF ReportInv, RacedOnly, StartedTwice, vars, agents
<1>9. QED
    BY <1>5, <1>7, <1>8, Others DEF ReportInv

(* The lifecycle: parts that were started stay started. *)
LEMMA LifecycleSteps ==
    ASSUME ReportInv, [Next]_vars, UNCHANGED reportVars
    PROVE  ReportInv'
<1>1. Inv'
    BY Steps DEF ReportInv
<1>2. ProcessTypeOK'
    BY DEF ReportInv, ProcessTypeOK, reportVars, HasMetric, Name
<1>3. \A a \in Agents : running[a] \subseteq running'[a]
  <2>1. running \in [Agents -> SUBSET Threads]
      BY DEF ReportInv, Inv, TypeOK
  <2>2. running' = running \/ \E t \in Threads : running' = [running EXCEPT ![receiver[t]] = @ \cup {t}]
      BY DEF Next, HostRests, Call, StartMethod, NewAgent, Make, Start, Create, Receive, MethodStart,
             Record, Check, Set, StartParts, Return, vars, agents
  <2>3. QED
      BY <2>1, <2>2
<1>4. ReportersStarted' /\ RacedOnly'
    BY <1>3 DEF ReportInv, ReportersStarted, RacedOnly, StartedTwice, reportVars
<1>5. QED
    BY <1>1, <1>2, <1>4 DEF ReportInv

LEMMA ReportInductive == ReportInv /\ [SystemNext]_allVars => ReportInv'
<1> SUFFICES ASSUME ReportInv, [SystemNext]_allVars PROVE ReportInv'
    OBVIOUS
<1>1. CASE \E t \in Threads, a \in Agents : ReporterRuns(t, a) /\ UNCHANGED vars
    BY <1>1, ReadSteps, MapSteps, MeasureSteps DEF ReporterRuns, ReportStep, ReportMetric
<1>2. CASE [Next]_vars /\ UNCHANGED reportVars
    BY <1>2, LifecycleSteps
<1>3. QED
    BY <1>1, <1>2 DEF SystemNext, allVars
-------------------------------------------------------------------------------
THEOREM SystemInvariance == SystemSpec => []ReportInv
BY ReportInitially, ReportInductive, PTL DEF SystemSpec

(* Types of the lifecycle, the process reporters and their metrics. *)
THEOREM SystemTypeCorrect == SystemSpec => []SystemTypeOK
<1>1. ReportInv => SystemTypeOK
    BY DEF ReportInv, Inv, SystemTypeOK
<1>2. QED
    BY SystemInvariance, <1>1, PTL

(* A goroutine starts the parts of one agent at the most, and once, also while  *)
(* the reporters it has started run.                                            *)
THEOREM SystemStartedOnce == SystemSpec => []EachStartsOnce
BY ImplementsLifecycle, StartedOnce, PTL

(* The runtime ends the process for the map of metrics only if two goroutines   *)
(* have started the parts of one agent.                                         *)
THEOREM CrashOnlyAfterSecondStart == SystemSpec => []CrashNeedsSecondStart
<1>1. ASSUME ReportInv PROVE CrashNeedsSecondStart
  <2>1. ASSUME NEW a \in Agents, StartedTwice(a) PROVE Cardinality(running[a]) > 1
    <3>1. IsFiniteSet(running[a])
        BY <1>1, LifecycleAssumption, FS_Subset DEF ReportInv, Inv, TypeOK
    <3>2. PICK t, u \in running[a] : t # u
        BY <2>1 DEF StartedTwice
    <3>3. Cardinality(running[a]) \in Nat /\ Cardinality(running[a]) # 0 /\ Cardinality(running[a]) # 1
        BY <3>1, <3>2, FS_CardinalityType, FS_EmptySet, FS_Singleton
    <3>4. QED
        BY <3>3
  <2>2. QED
      BY <1>1, <2>1 DEF ReportInv, RacedOnly, CrashNeedsSecondStart
<1>2. QED
    BY SystemInvariance, <1>1, PTL
-------------------------------------------------------------------------------
(* An agent on which nobody but t reports.  What is in its map was made by t,   *)
(* and t measures with what is in the map. *)
Measuring == {"compute", "store", "send"}
At(t, a, n, steps) == Name(<<t, a>>) = n /\ step[<<t, a>>] \in steps
OwnMetrics(t, a) ==
    /\ \A n \in Names : metrics[a][n] \in {t, NoMetric}
    /\ step[<<t, a>>] \in {"inserting"} \cup Measuring => local[<<t, a>>].maker = t
    /\ At(t, a, "cpuUsage", {"read"}) => local[<<t, a>>].maker = t
    /\ step[<<t, a>>] \in {"insert", "inserting"} => metrics[a][Name(<<t, a>>)] = NoMetric
    /\ step[<<t, a>>] \in Measuring => metrics[a][Name(<<t, a>>)] = t

(* A counter has a last value once it was measured; its messages, with the one  *)
(* that is on its way, add up to that.                                          *)
Pending(t, a, n) ==
    IF At(t, a, n, {"send"}) /\ metric[<<t, a>>][n].measured THEN metric[<<t, a>>][n].value ELSE 0
CounterKept(t, a, n) ==
    /\ metric[<<t, a>>][n].hasLastValue =>
           /\ metrics[a][n] = t
           /\ base[a][n] + total[a][n] + Pending(t, a, n) = metric[<<t, a>>][n].lastValue
    /\ ~metric[<<t, a>>][n].hasLastValue =>
           /\ total[a][n] = 0 /\ ~metric[<<t, a>>][n].measured
           /\ metrics[a][n] = NoMetric \/ At(t, a, n, {"compute", "store"})
    /\ At(t, a, n, {"store"}) => (local[<<t, a>>].ready <=> metric[<<t, a>>][n].hasLastValue)

(* The CPU usage is due when the CPU time has been sent. *)
Due(t, a) ==
    IF At(t, a, "cpuUsage", {"read"}) THEN metric[<<t, a>>]["cpuTime"].value
    ELSE IF At(t, a, "cpuUsage", {"send"}) THEN metric[<<t, a>>]["cpuUsage"].value
    ELSE IF At(t, a, "cpuUsage", {"lookup", "insert", "inserting", "compute", "store"})
         THEN local[<<t, a>>].value ELSE 0
UsageKept(t, a) ==
    /\ total[a]["cpuUsage"] + Due(t, a) = total[a]["cpuTime"]
    /\ metric[<<t, a>>]["cpuUsage"].lastValue = 0
    /\ At(t, a, "cpuUsage", {"store"}) => local[<<t, a>>].ready
    /\ At(t, a, "cpuUsage", {"send"}) => metric[<<t, a>>]["cpuUsage"].measured

Kept(t, a) == OwnMetrics(t, a) /\ (\A n \in Counters : CounterKept(t, a, n)) /\ UsageKept(t, a)
AllKept == \A t \in Threads, a \in Agents : running[a] \subseteq {t} => Kept(t, a)

LEMMA KeptInitially == SystemInit => AllKept
<1> SUFFICES ASSUME SystemInit, NEW t \in Threads, NEW a \in Agents PROVE Kept(t, a)
    BY DEF AllKept
<1>1. /\ \A n \in Names : metrics[a][n] = NoMetric /\ total[a][n] = 0 /\ metric[<<t, a>>][n] = Unused
      /\ step[<<t, a>>] = "idle"
    BY Pairs DEF SystemInit, ProcessInit
<1>2. "cpuTime" \in Names /\ "cpuUsage" \in Names /\ Counters \subseteq Names
    BY ScriptFacts DEF Counters
<1>3. QED
    BY <1>1, <1>2 DEF Kept, OwnMetrics, CounterKept, UsageKept, Due, Pending, At, Measuring, Unused

(* An agent's reports are kept when another agent's goroutine takes a step, and *)
(* when none does.                                                              *)
Untouched(t, a) ==
    /\ metrics'[a] = metrics[a] /\ metric'[<<t, a>>] = metric[<<t, a>>]
    /\ step'[<<t, a>>] = step[<<t, a>>] /\ local'[<<t, a>>] = local[<<t, a>>]
    /\ base'[a] = base[a] /\ total'[a] = total[a]
LEMMA KeptUntouched ==
    ASSUME NEW t \in Threads, NEW a \in Agents, Kept(t, a), Untouched(t, a)
    PROVE  Kept(t, a)'
BY DEF Untouched, Kept, OwnMetrics, CounterKept, UsageKept, Due, Pending, At, Name

LEMMA ElsewhereUntouched ==
    ASSUME ReportInv, NEW t \in Threads, NEW a \in Agents, NEW u \in Threads, NEW b \in Agents,
           a # b, ReportStep(<<u, b>>)
    PROVE  Untouched(t, a)
<1> DEFINE g == <<t, a>>
           h == <<u, b>>
<1>1. g \in Goroutines /\ h \in Goroutines /\ g # h /\ h[1] = u /\ h[2] = b /\ MapOf(h) = b
    BY Pairs DEF MapOf
<1>2. /\ step \in [Goroutines -> ReportSteps] /\ local \in [Goroutines -> Local]
      /\ metrics \in [Agents -> [Names -> Threads \cup {NoMetric}]]
      /\ metric \in [Goroutines -> [Names -> Metric]]
      /\ base \in [Agents -> [Names -> Int]] /\ total \in [Agents -> [Names -> Int]]
    BY DEF ReportInv, ProcessTypeOK
<1>3. Own(h) # g /\ <<h[1], MapOf(h)>> # g
    BY <1>1 DEF Own
<1>4. step'[g] = step[g] /\ local'[g] = local[g]
    BY <1>1, <1>2 DEF ReportStep, ReportMetric, Fire, Read, ReadFails, ReadUsage, LookUp, BeginInsert,
          Insert, Crash, Compute, Store, Send, Continue, GoStep
<1>5. metrics'[a] = metrics[a] /\ base'[a] = base[a] /\ total'[a] = total[a]
    BY <1>1, <1>2 DEF ReportStep, ReportMetric, Fire, Read, ReadFails, ReadUsage, LookUp, BeginInsert,
          Insert, Crash, Compute, Store, Send
<1>6. metric'[g] = metric[g]
  <2>1. ASSUME NEW k \in Goroutines, k # g, NEW n, NEW v, metric' = [metric EXCEPT ![k][n] = v]
        PROVE  metric'[g] = metric[g]
      BY <1>1, <1>2, <2>1
  <2>2. CASE BeginInsert(h)
      BY <1>1, <1>3, <2>1, <2>2 DEF BeginInsert
  <2>3. CASE Store(h)
    <3>1. Own(h) \in Goroutines
        BY <1>1, <1>2, <2>3, Pairs DEF Store, Own, ReportInv, ProcessTypeOK, HasMetric, Local
    <3>2. QED
        BY <1>3, <2>1, <2>3, <3>1 DEF Store
  <2>4. CASE ~BeginInsert(h) /\ ~Store(h)
      BY <2>4 DEF ReportStep, ReportMetric, Fire, Read, ReadFails, ReadUsage, LookUp, Insert, Crash,
            Compute, Send
  <2>5. QED
      BY <2>2, <2>3, <2>4
<1>7. QED
    BY <1>4, <1>5, <1>6 DEF Untouched

(* What the invariant says of a goroutine that is alone on its agent. *)
LEMMA Here ==
    ASSUME ReportInv, NEW t \in Threads, NEW a \in Agents
    PROVE  /\ <<t, a>> \in Goroutines /\ MapOf(<<t, a>>) = a /\ t # NoMetric
           /\ step \in [Goroutines -> ReportSteps] /\ local \in [Goroutines -> Local]
           /\ metrics \in [Agents -> [Names -> Threads \cup {NoMetric}]]
           /\ metric \in [Goroutines -> [Names -> Metric]]
           /\ base \in [Agents -> [Names -> Int]] /\ total \in [Agents -> [Names -> Int]]
           /\ local[<<t, a>>] \in Local /\ Name(<<t, a>>) \in Names
           /\ \A n \in Names : metric[<<t, a>>][n] \in Metric
           /\ "cpuTime" \in Names /\ "cpuUsage" \in Names
           /\ Counters = Names \ {"cpuUsage"}
<1>1. <<t, a>> \in Goroutines /\ MapOf(<<t, a>>) = a /\ t # NoMetric
    BY Pairs, ReportsAssumption DEF MapOf
<1>2. /\ step \in [Goroutines -> ReportSteps] /\ local \in [Goroutines -> Local]
      /\ metrics \in [Agents -> [Names -> Threads \cup {NoMetric}]]
      /\ metric \in [Goroutines -> [Names -> Metric]]
      /\ base \in [Agents -> [Names -> Int]] /\ total \in [Agents -> [Names -> Int]]
    BY DEF ReportInv, ProcessTypeOK
<1>3. local[<<t, a>>] \in Local /\ Name(<<t, a>>) \in Names
    BY <1>1, <1>2, ScriptFacts DEF Local, Name
<1>4. \A n \in Names : metric[<<t, a>>][n] \in Metric
    BY <1>1, <1>2
<1>5. QED
    BY <1>1, <1>2, <1>3, <1>4, ScriptFacts DEF Counters

(* Where report goes on after a metric, its locals are fresh. *)
LEMMA ContinuesFresh ==
    ASSUME ReportInv, NEW t \in Threads, NEW a \in Agents, NEW i \in Nat, i > 0, Continue(<<t, a>>, i)
    PROVE  /\ step'[<<t, a>>] = IF i \in DOMAIN Script THEN "read" ELSE "idle"
           /\ step'[<<t, a>>] = "read" => /\ Name(<<t, a>>)' = Script[i]
                                          /\ local'[<<t, a>>].maker = local[<<t, a>>].maker
           /\ i = 2 => step'[<<t, a>>] = "read" /\ Name(<<t, a>>)' = "cpuUsage"
           /\ i # 2 => ~At(t, a, "cpuUsage", {"read"})'
<1>1. local \in [Goroutines -> Local] /\ step \in [Goroutines -> ReportSteps] /\ <<t, a>> \in Goroutines
    BY Here
<1>2. CASE i \in DOMAIN Script
    BY <1>1, <1>2, ScriptFacts DEF Continue, GoStep, Name, At
<1>3. CASE i \notin DOMAIN Script
    BY <1>1, <1>3, ScriptFacts DEF Continue, GoStep, Name, At
<1>4. QED
    BY <1>2, <1>3

(* Up to the map: neither a metric nor a sum changes. *)
LEMMA KeptReading ==
    ASSUME ReportInv, NEW t \in Threads, NEW a \in Agents, Kept(t, a),
           Fire(<<t, a>>) \/ Read(<<t, a>>) \/ ReadFails(<<t, a>>) \/ ReadUsage(<<t, a>>)
    PROVE  Kept(t, a)'
<1> DEFINE g == <<t, a>>
<1>1. /\ metrics' = metrics /\ metric' = metric /\ base' = base /\ total' = total
    BY DEF Fire, Read, ReadFails, ReadUsage
<1>2. CASE Fire(g)
  <2>1. step'[g] = "read" /\ Name(g)' = "cpuTime" /\ step[g] = "idle"
      BY <1>2, Here, ScriptFacts DEF Fire, GoStep, Name, AtStart
  <2>2. QED
      BY <1>1, <2>1, Here DEF Kept, OwnMetrics, CounterKept, UsageKept, Due, Pending, At, Measuring
<1>3. CASE Read(g)
  <2>1. /\ step'[g] = "lookup" /\ Name(g)' = Name(g) /\ step[g] = "read"
        /\ Name(g) # "cpuUsage"
      BY <1>3, Here DEF Read, GoStep, Name, Local
  <2>2. QED
      BY <1>1, <2>1, Here DEF Kept, OwnMetrics, CounterKept, UsageKept, Due, Pending, At, Measuring
<1>4. CASE ReadFails(g)
  <2>1. step[g] = "read" /\ Name(g) = "cpuTime" /\ local[g].at = 1
      BY <1>4, Here, ScriptFacts DEF ReadFails, MayFail, Name, Local
  <2>2. Continue(g, 3)
      BY <1>4, <2>1 DEF ReadFails
  <2>3. step'[g] \in {"read", "idle"} /\ ~At(t, a, "cpuUsage", {"read"})'
      BY <2>2, ContinuesFresh
  <2>4. QED
      BY <1>1, <2>1, <2>3, Here DEF Kept, OwnMetrics, CounterKept, UsageKept, Due, Pending, At, Measuring
<1>5. CASE ReadUsage(g)
  <2>1. /\ step'[g] = "lookup" /\ Name(g)' = Name(g) /\ Name(g) = "cpuUsage" /\ step[g] = "read"
        /\ local'[g].value = metric[Own(g)]["cpuTime"].value
      BY <1>5, Here DEF ReadUsage, GoStep, Name, Local
  <2>2. Own(g) = g
      BY <2>1, Here DEF Kept, OwnMetrics, At, Own
  <2>3. local'[g].value = metric[g]["cpuTime"].value
      BY <2>1, <2>2
  <2>4. OwnMetrics(t, a)' /\ \A n \in Counters : CounterKept(t, a, n)'
      BY <1>1, <2>1, Here DEF Kept, OwnMetrics, CounterKept, Pending, At, Measuring
  <2>5. UsageKept(t, a)'
      BY <1>1, <2>1, <2>3, Here DEF Kept, UsageKept, Due, At
  <2>6. QED
      BY <2>4, <2>5 DEF Kept
<1>6. QED
    BY <1>2, <1>3, <1>4, <1>5

(* The map: a metric that is made has sent nothing. *)
LEMMA KeptMapping ==
    ASSUME ReportInv, NEW t \in Threads, NEW a \in Agents, Kept(t, a),
           LookUp(<<t, a>>) \/ BeginInsert(<<t, a>>) \/ Insert(<<t, a>>) \/ Crash(<<t, a>>)
    PROVE  Kept(t, a)'
<1> DEFINE g == <<t, a>>
<1>1. base' = base /\ total' = total
    BY DEF LookUp, BeginInsert, Insert, Crash
<1>2. CASE LookUp(g)
  <2>1. /\ step[g] = "lookup" /\ metrics' = metrics /\ metric' = metric
        /\ step'[g] = IF metrics[a][Name(g)] = NoMetric THEN "insert" ELSE "compute"
        /\ local'[g] = [local[g] EXCEPT !.maker = metrics[a][Name(g)]]
      BY <1>2, Here DEF LookUp, GoStep
  <2>2. Name(g)' = Name(g) /\ local'[g].value = local[g].value /\ local'[g].maker = metrics[a][Name(g)]
      BY <2>1, Here DEF Name, Local
  <2>3. OwnMetrics(t, a)'
      BY <2>1, <2>2, Here DEF Kept, OwnMetrics, At, Measuring
  <2>4. \A n \in Counters : CounterKept(t, a, n)'
      BY <1>1, <2>1, <2>2, Here DEF Kept, CounterKept, Pending, At
  <2>5. UsageKept(t, a)'
      BY <1>1, <2>1, <2>2, Here DEF Kept, UsageKept, Due, At
  <2>6. QED
      BY <2>3, <2>4, <2>5 DEF Kept
<1>3. CASE BeginInsert(g)
  <2>1. /\ step[g] = "insert" /\ step'[g] = "inserting" /\ metrics' = metrics
        /\ local'[g] = [local[g] EXCEPT !.maker = t]
        /\ metric' = [metric EXCEPT ![g][Name(g)] = Unused]
      BY <1>3, Here DEF BeginInsert, GoStep
  <2>2. Name(g)' = Name(g) /\ local'[g].value = local[g].value /\ local'[g].maker = t
      BY <2>1, Here DEF Name, Local
  <2>3. metric'[g] = [metric[g] EXCEPT ![Name(g)] = Unused] /\ metrics[a][Name(g)] = NoMetric
      BY <2>1, Here DEF Kept, OwnMetrics
  <2>4. \A n \in Names : metric'[g][n] = IF n = Name(g) THEN Unused ELSE metric[g][n]
      BY <2>3, Here
  <2>5. OwnMetrics(t, a)'
      BY <2>1, <2>2, <2>3, Here DEF Kept, OwnMetrics, At, Measuring
  <2>6. ASSUME NEW n \in Counters PROVE CounterKept(t, a, n)'
    <3>1. CASE n = Name(g)
      <4>1. metric'[g][n] = Unused /\ ~metric[g][n].hasLastValue
          BY <2>3, <2>4, <3>1, Here DEF Kept, CounterKept
      <4>2. total[a][n] = 0
          BY <4>1 DEF Kept, CounterKept
      <4>3. QED
          BY <1>1, <2>1, <2>3, <3>1, <4>1, <4>2 DEF CounterKept, At, Unused
    <3>2. CASE n # Name(g)
      <4>1. metric'[g][n] = metric[g][n]
          BY <2>4, <3>2, Here
      <4>2. QED
          BY <1>1, <2>1, <2>2, <3>2, <4>1 DEF Kept, CounterKept, Pending, At
    <3>3. QED
        BY <3>1, <3>2
  <2>7. UsageKept(t, a)'
    <3>1. metric'[g]["cpuUsage"].lastValue = 0
      <4>1. metric[g]["cpuUsage"].lastValue = 0 /\ Unused.lastValue = 0
          BY DEF Kept, UsageKept, Unused
      <4>2. metric'[g]["cpuUsage"] \in {Unused, metric[g]["cpuUsage"]}
          BY <2>4, Here
      <4>3. QED
          BY <4>1, <4>2
    <3>2. QED
        BY <1>1, <2>1, <2>2, <3>1 DEF Kept, UsageKept, Due, At
  <2>8. QED
      BY <2>5, <2>6, <2>7 DEF Kept
<1>4. CASE Insert(g)
  <2>1. /\ step[g] = "inserting" /\ step'[g] = "compute" /\ metric' = metric /\ local' = local
        /\ metrics' = [metrics EXCEPT ![a][Name(g)] = t]
      BY <1>4, Here DEF Insert, GoStep
  <2>2. Name(g)' = Name(g) /\ local[g].maker = t /\ metrics[a][Name(g)] = NoMetric
      BY <2>1, Here DEF Name, Kept, OwnMetrics
  <2>3. \A n \in Names : metrics'[a][n] = IF n = Name(g) THEN t ELSE metrics[a][n]
      BY <2>1, Here
  <2>4. OwnMetrics(t, a)'
      BY <2>1, <2>2, <2>3, Here DEF Kept, OwnMetrics, At, Measuring
  <2>5. ASSUME NEW n \in Counters PROVE CounterKept(t, a, n)'
    <3>1. /\ CounterKept(t, a, n) /\ n \in Names
          /\ metrics'[a][n] = IF n = Name(g) THEN t ELSE metrics[a][n]
        BY <2>3, Here DEF Kept
    <3>2. Pending(t, a, n)' = 0 /\ Pending(t, a, n) = 0 /\ ~At(t, a, n, {"store"})'
        BY <2>1 DEF Pending, At
    <3>3. n = Name(g) => At(t, a, n, {"compute", "store"})'
        BY <2>1, <2>2 DEF At
    <3>4. ~At(t, a, n, {"compute", "store"})
        BY <2>1 DEF At
    <3>5. QED
        BY <1>1, <2>1, <3>1, <3>2, <3>3, <3>4 DEF CounterKept
  <2>6. UsageKept(t, a)'
      BY <1>1, <2>1, <2>2, Here DEF Kept, UsageKept, Due, At
  <2>7. QED
      BY <2>4, <2>5, <2>6 DEF Kept
<1>5. CASE Crash(g)
    BY <1>1, <1>5, KeptUntouched DEF Crash, Untouched
<1>6. QED
    BY <1>2, <1>3, <1>4, <1>5

(* The measurement: the difference to the last value is what is sent. *)
LEMMA KeptMeasuring ==
    ASSUME ReportInv, NEW t \in Threads, NEW a \in Agents, Kept(t, a),
           Compute(<<t, a>>) \/ Store(<<t, a>>) \/ Send(<<t, a>>)
    PROVE  Kept(t, a)'
<1> DEFINE g == <<t, a>>
           name == Name(g)
           m == metric[g][name]
<1>1. /\ metrics' = metrics /\ step[g] \in Measuring
    BY DEF Compute, Store, Send, Measuring
<1>2. local[g].maker = t /\ Own(g) = g /\ Current(g) = m /\ metrics[a][name] = t
    BY <1>1, Here DEF Kept, OwnMetrics, At, Own, Current
<1>3. /\ m \in Metric /\ m.lastValue \in Int /\ m.value \in Int
      /\ m.measured \in BOOLEAN /\ m.hasLastValue \in BOOLEAN
      /\ local[g].value \in Int /\ local[g].ready \in BOOLEAN /\ local[g].at \in DOMAIN Script
    BY Here DEF Metric, Local
<1>4. \A n \in Names : base[a][n] \in Int /\ total[a][n] \in Int
    BY Here
<1>5. CASE Compute(g)
  <2>1. /\ step[g] = "compute" /\ step'[g] = "store" /\ metric' = metric /\ base' = base /\ total' = total
        /\ local'[g] = [local[g] EXCEPT !.ready = (name \in Counters) => m.hasLastValue]
      BY <1>2, <1>5, Here DEF Compute, GoStep
  <2>2. /\ Name(g)' = name /\ local'[g].value = local[g].value /\ local'[g].maker = t
        /\ local'[g].ready = ((name \in Counters) => m.hasLastValue)
      BY <1>2, <2>1, Here DEF Name, Local
  <2>3. OwnMetrics(t, a)'
      BY <1>1, <1>2, <2>1, <2>2 DEF Kept, OwnMetrics, At, Measuring
  <2>4. ASSUME NEW n \in Counters PROVE CounterKept(t, a, n)'
    <3>1. CounterKept(t, a, n)
        BY DEF Kept
    <3>2. Pending(t, a, n)' = 0 /\ Pending(t, a, n) = 0
        BY <2>1 DEF Pending, At
    <3>3. /\ At(t, a, n, {"compute", "store"})' <=> n = name
          /\ At(t, a, n, {"compute", "store"}) <=> n = name
        BY <2>1, <2>2 DEF At
    <3>4. n = name => (local'[g].ready <=> metric[g][n].hasLastValue)
        BY <2>2
    <3>5. At(t, a, n, {"store"})' => n = name
        BY <2>2 DEF At
    <3>6. QED
        BY <1>1, <2>1, <3>1, <3>2, <3>3, <3>4, <3>5 DEF CounterKept
  <2>5. UsageKept(t, a)'
      BY <2>1, <2>2, Here DEF Kept, UsageKept, Due, At
  <2>6. QED
      BY <2>3, <2>4, <2>5 DEF Kept
<1>6. CASE Store(g)
  <2> DEFINE new == [hasLastValue |-> name \in Counters,
                     lastValue    |-> IF name \in Counters THEN local[g].value ELSE m.lastValue,
                     measured     |-> m.measured \/ local[g].ready,
                     value        |-> IF local[g].ready THEN local[g].value - m.lastValue ELSE m.value]
  <2>1. /\ step[g] = "store" /\ step'[g] = "send" /\ local' = local /\ total' = total
        /\ metric' = [metric EXCEPT ![g][name] = new]
        /\ base' = IF name \in Counters /\ ~local[g].ready THEN [base EXCEPT ![a][name] = local[g].value] ELSE base
      BY <1>2, <1>6, Here DEF Store, GoStep
  <2>2. Name(g)' = name
      BY <2>1 DEF Name
  <2>3. \A n \in Names : metric'[g][n] = IF n = name THEN new ELSE metric[g][n]
      BY <2>1, Here
  <2>4. /\ new.hasLastValue = (name \in Counters) /\ new.measured = (m.measured \/ local[g].ready)
        /\ new.lastValue = IF name \in Counters THEN local[g].value ELSE m.lastValue
        /\ new.value = IF local[g].ready THEN local[g].value - m.lastValue ELSE m.value
      OBVIOUS
  <2>5. \A n \in Names : base'[a][n] = IF n = name /\ name \in Counters /\ ~local[g].ready
                                       THEN local[g].value ELSE base[a][n]
      BY <2>1, Here
  <2> HIDE DEF new
  <2>6. OwnMetrics(t, a)'
      BY <1>1, <1>2, <2>1, <2>2 DEF Kept, OwnMetrics, At, Measuring
  <2>7. ASSUME NEW n \in Counters PROVE CounterKept(t, a, n)'
    <3>1. CASE n = name
      <4>1. /\ metric'[g][n] = new /\ new.hasLastValue /\ new.lastValue = local[g].value
            /\ n \in Names
          BY <2>3, <2>4, <3>1, Here
      <4>2. local[g].ready <=> m.hasLastValue
          BY <2>1, <3>1 DEF Kept, CounterKept, At
      <4>3. /\ Pending(t, a, n)' = IF new.measured THEN new.value ELSE 0
            /\ Pending(t, a, n) = 0
          BY <2>1, <2>2, <3>1, <4>1 DEF Pending, At
      <4>4. base'[a][n] + total[a][n] + Pending(t, a, n)' = new.lastValue
        <5>1. CASE local[g].ready
          <6>1. base[a][n] + total[a][n] + 0 = m.lastValue
              BY <3>1, <4>2, <4>3, <5>1 DEF Kept, CounterKept
          <6>2. /\ base'[a][n] = base[a][n]
                /\ Pending(t, a, n)' = local[g].value - m.lastValue
              BY <2>4, <2>5, <4>1, <4>3, <5>1
          <6>3. QED
              BY <1>3, <1>4, <4>1, <6>1, <6>2
        <5>2. CASE ~local[g].ready
          <6>1. total[a][n] = 0 /\ ~m.measured
              BY <3>1, <4>2, <5>2 DEF Kept, CounterKept
          <6>2. base'[a][n] = local[g].value /\ Pending(t, a, n)' = 0
              BY <2>4, <2>5, <3>1, <4>1, <4>3, <5>2, <6>1
          <6>3. QED
              BY <1>3, <4>1, <6>1, <6>2
        <5>3. QED
            BY <5>1, <5>2
      <4>5. QED
          BY <1>1, <1>2, <2>1, <3>1, <4>1, <4>4 DEF CounterKept, At
    <3>2. CASE n # name
      <4>1. metric'[g][n] = metric[g][n] /\ base'[a][n] = base[a][n]
          BY <2>3, <2>5, <3>2, Here
      <4>2. QED
          BY <1>1, <2>1, <2>2, <3>2, <4>1 DEF Kept, CounterKept, Pending, At
    <3>3. QED
        BY <3>1, <3>2
  <2>8. UsageKept(t, a)'
    <3>1. CASE name = "cpuUsage"
      <4>1. local[g].ready /\ m.lastValue = 0 /\ total[a]["cpuUsage"] + local[g].value = total[a]["cpuTime"]
          BY <2>1, <3>1 DEF Kept, UsageKept, Due, At
      <4>2. /\ metric'[g]["cpuUsage"] = new /\ new.lastValue = 0 /\ new.measured
            /\ new.value = local[g].value
        <5>1. name \notin Counters /\ "cpuUsage" \in Names
            BY <3>1, Here
        <5>2. metric'[g]["cpuUsage"] = new
            BY <2>3, <3>1, <5>1
        <5>3. new.lastValue = m.lastValue /\ new.measured /\ new.value = local[g].value - m.lastValue
            BY <2>4, <4>1, <5>1
        <5>4. QED
            BY <1>3, <4>1, <5>2, <5>3
      <4>3. QED
          BY <2>1, <2>2, <3>1, <4>1, <4>2 DEF UsageKept, Due, At
    <3>2. CASE name # "cpuUsage"
      <4>1. metric'[g]["cpuUsage"] = metric[g]["cpuUsage"]
          BY <2>3, <3>2, Here
      <4>2. QED
          BY <2>1, <2>2, <3>2, <4>1 DEF Kept, UsageKept, Due, At
    <3>3. QED
        BY <3>1, <3>2
  <2>9. QED
      BY <2>6, <2>7, <2>8 DEF Kept
<1>7. CASE Send(g)
  <2> DEFINE next == IF name = "cpuTime" /\ ~m.measured THEN local[g].at + 2 ELSE local[g].at + 1
  <2>1. /\ step[g] = "send" /\ metric' = metric /\ base' = base
        /\ total' = IF m.measured THEN [total EXCEPT ![a][name] = @ + m.value] ELSE total
        /\ Continue(g, next)
      BY <1>2, <1>7 DEF Send
  <2>2. next \in Nat /\ next > 0
      BY <1>3, ScriptFacts
  <2>3. next = 2 <=> name = "cpuTime" /\ m.measured
      BY <1>3, ScriptFacts DEF Name
  <2>4. \A n \in Names : total'[a][n] = IF n = name /\ m.measured THEN total[a][n] + m.value ELSE total[a][n]
      BY <2>1, Here
  <2> HIDE DEF next
  <2>5. /\ step'[g] \in {"read", "idle"}
        /\ step'[g] = "read" => local'[g].maker = t
        /\ next = 2 => step'[g] = "read" /\ Name(g)' = "cpuUsage"
        /\ next # 2 => ~At(t, a, "cpuUsage", {"read"})'
      BY <1>2, <2>1, <2>2, ContinuesFresh
  <2>6. OwnMetrics(t, a)'
      BY <1>1, <2>5 DEF Kept, OwnMetrics, At, Measuring
  <2>7. ASSUME NEW n \in Counters PROVE CounterKept(t, a, n)'
    <3>1. total'[a][n] + Pending(t, a, n)' = total[a][n] + Pending(t, a, n)
      <4>1. Pending(t, a, n)' = 0 /\ Pending(t, a, n) = IF n = name /\ m.measured THEN m.value ELSE 0
          BY <2>1, <2>5 DEF Pending, At
      <4>2. n \in Names /\ total[a][n] \in Int
          BY <1>4, Here
      <4>3. QED
          BY <1>3, <2>4, <4>1, <4>2
    <3>2. ~metric[g][n].hasLastValue => ~metric[g][n].measured /\ total'[a][n] = total[a][n]
        BY <2>4, Here DEF Kept, CounterKept
    <3>3. /\ base[a][n] \in Int /\ total[a][n] \in Int /\ total'[a][n] \in Int
          /\ Pending(t, a, n) \in Int /\ Pending(t, a, n)' \in Int
        BY <1>3, <1>4, <2>1, <2>4, <2>5, Here DEF Pending, At
    <3>4. metric[g][n].hasLastValue =>
              metrics[a][n] = t /\ base[a][n] + total'[a][n] + Pending(t, a, n)' = metric[g][n].lastValue
        BY <3>1, <3>3 DEF Kept, CounterKept
    <3>5. QED
        BY <1>1, <2>1, <2>5, <3>2, <3>4 DEF Kept, CounterKept, At
  <2>8. UsageKept(t, a)'
    <3>1. Due(t, a)' = IF next = 2 THEN metric[g]["cpuTime"].value ELSE 0
        BY <2>1, <2>5 DEF Due, At
    <3>2. total[a]["cpuUsage"] + Due(t, a) = total[a]["cpuTime"]
        BY DEF Kept, UsageKept
    <3>3. CASE name = "cpuUsage"
      <4>1. m.measured /\ Due(t, a) = m.value
          BY <2>1, <3>3 DEF Kept, UsageKept, Due, At
      <4>2. /\ total'[a]["cpuUsage"] = total[a]["cpuUsage"] + m.value
            /\ total'[a]["cpuTime"] = total[a]["cpuTime"]
          BY <2>4, <3>3, <4>1, Here
      <4>3. total'[a]["cpuUsage"] + 0 = total'[a]["cpuTime"]
          BY <1>3, <1>4, <3>2, <4>1, <4>2, Here
      <4>4. QED
          BY <2>1, <2>3, <2>5, <3>1, <3>3, <4>3 DEF Kept, UsageKept, At
    <3>4. CASE name # "cpuUsage"
      <4>1. Due(t, a) = 0
          BY <2>1, <3>4 DEF Due, At
      <4>2. /\ total'[a]["cpuUsage"] = total[a]["cpuUsage"]
            /\ total'[a]["cpuTime"] = IF next = 2 THEN total[a]["cpuTime"] + m.value ELSE total[a]["cpuTime"]
          BY <2>3, <2>4, <3>4, Here
      <4>3. next = 2 => m = metric[g]["cpuTime"]
          BY <2>3
      <4>4. total'[a]["cpuUsage"] + Due(t, a)' = total'[a]["cpuTime"]
          BY <1>3, <1>4, <3>1, <3>2, <4>1, <4>2, <4>3, Here
      <4>5. QED
          BY <2>1, <2>5, <4>4 DEF Kept, UsageKept, At
    <3>5. QED
        BY <3>3, <3>4
  <2>9. QED
      BY <2>6, <2>7, <2>8 DEF Kept
<1>8. QED
    BY <1>5, <1>6, <1>7

(* Who reports alone on an agent keeps its sums, whatever other goroutines do. *)
LEMMA KeptAlways == ReportInv /\ AllKept /\ [SystemNext]_allVars => AllKept'
<1> SUFFICES ASSUME ReportInv, AllKept, [SystemNext]_allVars,
                    NEW t \in Threads, NEW a \in Agents, running'[a] \subseteq {t}
             PROVE  Kept(t, a)'
    BY DEF AllKept
<1>1. CASE [Next]_vars /\ UNCHANGED reportVars
  <2>1. running[a] \subseteq running'[a]
    <3>1. running \in [Agents -> SUBSET Threads]
        BY DEF ReportInv, Inv, TypeOK
    <3>2. running' = running \/ \E u \in Threads : running' = [running EXCEPT ![receiver[u]] = @ \cup {u}]
        BY <1>1 DEF Next, HostRests, Call, StartMethod, NewAgent, Make, Start, Create, Receive, MethodStart,
               Record, Check, Set, StartParts, Return, vars, agents
    <3>3. QED
        BY <3>1, <3>2
  <2>2. Kept(t, a)
      BY <2>1 DEF AllKept
  <2>3. QED
      BY <1>1, <2>2, KeptUntouched DEF Untouched, reportVars
<1>2. ASSUME NEW u \in Threads, NEW b \in Agents, ReporterRuns(u, b), UNCHANGED vars
      PROVE  Kept(t, a)'
  <2>1. running' = running /\ u \in running[b] /\ ReportStep(<<u, b>>)
      BY <1>2 DEF vars, agents, ReporterRuns
  <2>2. Kept(t, a)
      BY <2>1 DEF AllKept
  <2>3. CASE a = b
    <3>1. u = t
        BY <2>1, <2>3
    <3>2. ReportStep(<<t, a>>)
        BY <2>1, <2>3, <3>1
    <3>3. QED
        BY <2>2, <3>2, KeptReading, KeptMapping, KeptMeasuring DEF ReportStep, ReportMetric
  <2>4. CASE a # b
      BY <2>1, <2>2, <2>4, ElsewhereUntouched, KeptUntouched
  <2>5. QED
      BY <2>3, <2>4
<1>3. QED
    BY <1>1, <1>2 DEF SystemNext, allVars

(* What a process reporter that is alone on its agent has sent for a counter is *)
(* the distance of its last value from its first, and the CPU usage it has sent *)
(* is the CPU time (process_reporter.go:60): for any readings, of which any     *)
(* number may fail, and whatever happens on other agents.                       *)
THEOREM CountersAlwaysAddUp == SystemSpec => []CountersAddUp
<1>1. ASSUME ReportInv, AllKept PROVE CountersAddUp
  <2> SUFFICES ASSUME NEW t \in Threads, NEW a \in Agents, running[a] = {t}, step[<<t, a>>] = "idle"
               PROVE  /\ \A n \in Counters : metrics[a][n] = t =>
                             base[a][n] + total[a][n] = metric[<<t, a>>][n].lastValue
                      /\ total[a]["cpuUsage"] = total[a]["cpuTime"]
      BY DEF CountersAddUp
  <2>1. Kept(t, a)
      BY <1>1 DEF AllKept
  <2>2. /\ \A n \in Names : base[a][n] \in Int /\ total[a][n] \in Int
        /\ t # NoMetric /\ "cpuUsage" \in Names /\ "cpuTime" \in Names /\ Counters \subseteq Names
      BY <1>1, Here
  <2>3. ASSUME NEW n \in Counters, metrics[a][n] = t
        PROVE  base[a][n] + total[a][n] = metric[<<t, a>>][n].lastValue
    <3>1. metric[<<t, a>>][n].hasLastValue /\ Pending(t, a, n) = 0
        BY <2>1, <2>2, <2>3 DEF Kept, CounterKept, Pending, At
    <3>2. QED
        BY <2>1, <2>2, <3>1 DEF Kept, CounterKept
  <2>4. total[a]["cpuUsage"] + 0 = total[a]["cpuTime"]
      BY <2>1 DEF Kept, UsageKept, Due, At
  <2>5. QED
      BY <2>2, <2>3, <2>4
<1>2. QED
    BY SystemInvariance, ReportInitially, KeptInitially, KeptAlways, <1>1, PTL DEF SystemSpec
=============================================================================
