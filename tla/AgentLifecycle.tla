----------------------------- MODULE AgentLifecycle -----------------------------
(* agent.go and internal/agent.go: how agents are made and started, and which   *)
(* of them accept records.                                                      *)
(*                                                                              *)
(* Any goroutine of the host program may call NewAgent, the package's Start,    *)
(* the method Start of an agent, and record segments or errors on an agent.     *)
(* Three package variables decide what happens, none of them guarded: Histo,    *)
(* the histogram of agents to come, _agent, the agent of the package's Start,   *)
(* and agentStarted, which makes every Start but the first return early.  An    *)
(* agent is started when the goroutines of its queue and reporters run.         *)
EXTENDS Integers, FiniteSets

CONSTANTS
    Threads,    \* goroutines of the host program
    MaxAgents,  \* bound: agents made
    MaxCalls    \* bound: calls of each goroutine

ASSUME LifecycleAssumption ==
    IsFiniteSet(Threads) /\ MaxAgents \in Nat /\ MaxCalls \in Nat

Agents  == 1..MaxAgents
NoAgent == 0

VARIABLES
    Histo,         \* the package's histogram was given
    _agent,        \* the package's agent, or NoAgent
    agentStarted,  \* internal.agentStarted
    created,       \* number of agents made
    histogram,     \* agents that have a histogram to push to
    running,       \* agent -> goroutines that have started its parts
    pc, receiver,  \* goroutine -> where it is, and the agent whose Start it is in
    calls,         \* goroutine -> calls begun
    packageStart,  \* goroutines inside the package's Start
    returned,      \* agents the package's Start has returned
    recorded,      \* history: agents that have accepted a record
    starters,      \* history: goroutines that have called a Start
    methodStarted  \* history: agents whose method Start was called by the host

package == <<Histo, _agent, agentStarted>>
agents  == <<created, histogram, running>>
threads == <<pc, receiver, calls, packageStart>>
history == <<recorded, starters, methodStarted>>
vars == <<package, agents, threads, returned, history>>

Init ==
    /\ Histo = FALSE /\ _agent = NoAgent /\ agentStarted = FALSE
    /\ created = 0 /\ histogram = {} /\ running = [a \in Agents |-> {}]
    /\ pc = [t \in Threads |-> "idle"] /\ receiver = [t \in Threads |-> NoAgent]
    /\ calls = [t \in Threads |-> 0] /\ packageStart = {}
    /\ returned = {} /\ recorded = {} /\ starters = {} /\ methodStarted = {}
-------------------------------------------------------------------------------
Goto(t, label) == pc' = [pc EXCEPT ![t] = label]
Begin(t) == pc[t] = "idle" /\ calls[t] < MaxCalls /\ calls' = [calls EXCEPT ![t] = @ + 1]

(* internal.NewAgent, with the histogram h or without. *)
Make(a, h) ==
    /\ a = created + 1 /\ a \in Agents
    /\ created' = a
    /\ histogram' = IF h THEN histogram \cup {a} ELSE histogram
    /\ UNCHANGED running

(* NewAgent leaves its histogram behind for agents made later. *)
NewAgent(t, h) ==
    /\ Begin(t)
    /\ Make(created + 1, h)
    /\ Histo' = h
    /\ UNCHANGED <<_agent, agentStarted, pc, receiver, packageStart, returned, history>>

(* Mutant: every call makes an agent. *)
StartAnew(t) ==
    /\ Begin(t)
    /\ packageStart' = packageStart \cup {t}
    /\ starters' = starters \cup {t}
    /\ Goto(t, "create")
    /\ UNCHANGED <<package, agents, receiver, returned, recorded, methodStarted>>

(* The package's Start looks whether there is an agent, *)
Start(t) ==
    /\ Begin(t)
    /\ packageStart' = packageStart \cup {t}
    /\ starters' = starters \cup {t}
    /\ Goto(t, IF _agent = NoAgent THEN "create" ELSE "receive")
    /\ UNCHANGED <<package, agents, receiver, returned, recorded, methodStarted>>

(* Mutant: the agent that is made stays local to the block. *)
CreateShadowed(t) ==
    /\ pc[t] = "create"
    /\ Make(created + 1, Histo)
    /\ Goto(t, "receive")
    /\ UNCHANGED <<package, receiver, calls, packageStart, returned, history>>

(* makes one if it saw none, *)
Create(t) ==
    /\ pc[t] = "create"
    /\ Make(created + 1, Histo)
    /\ _agent' = created + 1
    /\ Goto(t, "receive")
    /\ UNCHANGED <<Histo, agentStarted, receiver, calls, packageStart, returned, history>>

(* and starts the agent it finds now. *)
Receive(t) ==
    /\ pc[t] = "receive"
    /\ receiver' = [receiver EXCEPT ![t] = _agent]
    /\ Goto(t, "check")
    /\ UNCHANGED <<package, agents, calls, packageStart, returned, history>>

(* The host calls the method Start, or Configure, of an agent it has. *)
MethodStart(t, a) ==
    /\ Begin(t) /\ a <= created
    /\ receiver' = [receiver EXCEPT ![t] = a]
    /\ starters' = starters \cup {t}
    /\ methodStarted' = methodStarted \cup {a}
    /\ Goto(t, "check")
    /\ UNCHANGED <<package, agents, packageStart, returned, recorded>>

(* internal.Start returns early when any agent of the process was started. *)
Check(t) ==
    /\ pc[t] = "check"
    /\ Goto(t, IF agentStarted THEN "return" ELSE "set")
    /\ UNCHANGED <<package, agents, receiver, calls, packageStart, returned, history>>

(* The first sets the flag, *)
Set(t) ==
    /\ pc[t] = "set"
    /\ agentStarted' = TRUE
    /\ Goto(t, "parts")
    /\ UNCHANGED <<Histo, _agent, agents, receiver, calls, packageStart, returned, history>>

(* and calls the start functions of the queue and the reporters. *)
StartParts(t) ==
    /\ pc[t] = "parts"
    /\ running' = [running EXCEPT ![receiver[t]] = @ \cup {t}]
    /\ Goto(t, "return")
    /\ UNCHANGED <<package, created, histogram, receiver, calls, packageStart, returned, history>>

(* The package's Start reads its variable once more for the result. *)
Return(t) ==
    /\ pc[t] = "return"
    /\ returned' = IF t \in packageStart THEN returned \cup {_agent} ELSE returned
    /\ packageStart' = packageStart \ {t}
    /\ receiver' = [receiver EXCEPT ![t] = NoAgent]
    /\ Goto(t, "idle")
    /\ UNCHANGED <<package, agents, calls, history>>

(* RecordSegment and RecordError of an agent look at agentStarted only. *)
Record(t, a) ==
    /\ Begin(t) /\ a <= created
    /\ recorded' = IF agentStarted THEN recorded \cup {a} ELSE recorded
    /\ UNCHANGED <<package, agents, pc, receiver, packageStart, returned, starters, methodStarted>>

(* Nothing but the host program and the bound on agents stops the model. *)
HostRests ==
    /\ \A t \in Threads : pc[t] = "idle" \/ (pc[t] = "create" /\ created = MaxAgents)
    /\ UNCHANGED vars

StartMethod(t) == Check(t) \/ Set(t) \/ StartParts(t) \/ Return(t)
Call(t) ==
    \/ \E h \in BOOLEAN : NewAgent(t, h)
    \/ Start(t) \/ Create(t) \/ Receive(t)
    \/ \E a \in Agents : MethodStart(t, a) \/ Record(t, a)
    \/ StartMethod(t)
Next == (\E t \in Threads : Call(t)) \/ HostRests

Spec == Init /\ [][Next]_vars
-------------------------------------------------------------------------------
Labels == {"idle", "create", "receive", "check", "set", "parts", "return"}

(* Types; a Start has a receiver from the moment it has looked for one. *)
TypeOK ==
    /\ Histo \in BOOLEAN /\ agentStarted \in BOOLEAN
    /\ created \in 0..MaxAgents
    /\ _agent \in 0..created /\ histogram \subseteq 1..created
    /\ running \in [Agents -> SUBSET Threads]
    /\ pc \in [Threads -> Labels] /\ receiver \in [Threads -> 0..created]
    /\ \A t \in Threads : pc[t] \in {"check", "set", "parts"} => receiver[t] # NoAgent
    /\ calls \in [Threads -> 0..MaxCalls] /\ packageStart \subseteq Threads
    /\ returned \subseteq 1..created /\ recorded \subseteq 1..created
    /\ starters \subseteq Threads /\ methodStarted \subseteq 1..created

(* Goroutines that read agentStarted before it was set. *)
Overtaken == {t \in Threads : pc[t] \in {"set", "parts"}}

(* The check of agentStarted and its assignment are two steps: several calls may *)
(* start the parts of one agent, or of several agents.  But each goroutine does  *)
(* so once at the most, whatever it calls and on whatever agents; a program that *)
(* calls Start from one goroutine runs the parts of one agent, once.             *)
EachStartsOnce ==
    \A t \in Threads :
        /\ t \in Overtaken => \A a \in Agents : t \notin running[a]
        /\ \A a, b \in Agents : t \in running[a] \cap running[b] => a = b

(* Once agentStarted is set no further goroutine gets past the check: those that  *)
(* are about to start parts can only become fewer.                                *)
StaysStarted == [][agentStarted => Overtaken' \subseteq Overtaken]_vars

(* A program that calls the package's Start from one goroutine, as often as it    *)
(* likes, and no other Start gets agents that run, in spite of NewAgent and of    *)
(* the three reads of the package's variable.                                     *)
ProperUse == Cardinality(starters) <= 1 /\ methodStarted = {}
ReturnedIsRunning == ProperUse => \A a \in returned : running[a] # {}

(* agent.go:124: after Stop "the segment is recorded, aggregated and reported    *)
(* with regular intervals": an agent that accepts records reports them.          *)
AcceptedIsReported ==
    \A a \in recorded :
        \/ running[a] # {}
        \/ \E t \in Threads : receiver[t] = a /\ pc[t] \in {"check", "set", "parts"}
=============================================================================
