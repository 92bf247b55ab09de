----------------------------- MODULE ErrorReporter -----------------------------
(* internal/error_reporter.go with the tree operations of                      *)
(* internal/breakdown_node.go it uses.                                         *)
(*                                                                             *)
(* Goroutines of the host program record errors in one tree per group: a root, *)
(* the frames of the call stack from the outermost one, and below the last     *)
(* frame the error messages, five of them and "Other".  recordLock guards the  *)
(* map of trees as it does in SegmentReporter; inside its read lock each node  *)
(* guards its own children, one access at a time.                              *)
EXTENDS Integers, FiniteSets, Sequences, Functions

CONSTANTS
    Recorders,     \* goroutines that call recordError
    Groups,        \* names of the groups of errors
    Frames,        \* a recorder's call stack, the outermost frame first
    Messages,      \* messages an error may have
    Other,         \* the message that stands for the rest
    MaxMessages,   \* 5 in the source
    MaxNodes,      \* bound: nodes ever created
    MaxCalls,      \* bound: recorder -> its calls
    MaxReports     \* bound: reports

FrameNames == UNION {{Frames[t][i] : i \in 1..Len(Frames[t])} : t \in Recorders}

ASSUME ErrorAssumption ==
    /\ IsFiniteSet(Recorders) /\ Recorders # {} /\ Groups # {} /\ Messages # {}
    /\ \A t \in Recorders : Frames[t] \in Seq(FrameNames)
    /\ FrameNames \cap (Messages \cup {Other}) = {} /\ Other \notin Messages
    /\ MaxMessages \in Nat \ {0}
    /\ MaxNodes \in Nat /\ MaxCalls \in [Recorders -> Nat] /\ MaxReports \in Nat

NodeIds == 1..MaxNodes
NoNode  == 0
Names   == FrameNames \cup Messages \cup {Other} \cup Groups

VARIABLES
    errorGraphs,  \* ErrorReporter.errorGraphs: group -> root
    readers,      \* goroutines inside recordLock.RLock around incrementError
    abandoned,    \* node -> calls that ended below it with the read lock held
    allocated,    \* number of nodes created
    children,     \* node -> BreakdownNode.children: name -> node
    measurement,  \* node -> BreakdownNode.measurement
    pc, call,     \* recorder -> label, arguments and locals of recordError
    calls,        \* recorder -> calls begun
    rpc,          \* the reporter's label
    outgoing,     \* the trees report has still to send
    current,      \* the tree report sends, its value and the length of its children
    reports,      \* number of swaps
    found,        \* history: root -> increments by goroutines that found it in the map
    overwritten,  \* history: nodes that lost a child to another of the same name
    reported      \* history: metrics handed to the message queue

tree    == <<allocated, children>>
threads == <<pc, call, calls>>
report  == <<rpc, outgoing, current, reports>>
history == <<found, overwritten, reported>>
lock    == <<readers, abandoned>>
vars == <<errorGraphs, lock, tree, measurement, threads, report, history>>

(* node is currentNode, child the node to increment next, target the name to  *)
(* look for below node; at counts the names that were looked for.              *)
Call == [group : Groups, message : Messages, node : NodeIds \cup {NoNode},
         child : NodeIds \cup {NoNode}, target : Names, at : Nat, late : BOOLEAN]

Init ==
    /\ errorGraphs = [g \in Groups |-> NoNode]
    /\ readers = {} /\ abandoned = [n \in NodeIds |-> 0]
    /\ allocated = 0
    /\ children = [n \in NodeIds |-> [s \in Names |-> NoNode]]
    /\ measurement = [n \in NodeIds |-> 0]
    /\ pc = [t \in Recorders |-> "idle"]
    /\ call = [t \in Recorders |-> <<>>]
    /\ calls = [t \in Recorders |-> 0]
    /\ rpc = "idle" /\ outgoing = {} /\ reports = 0
    /\ current = [node |-> NoNode, value |-> 0, length |-> 0]
    /\ found = [n \in NodeIds |-> 0]
    /\ overwritten = {} /\ reported = {}
-------------------------------------------------------------------------------
Goto(t, label) == pc' = [pc EXCEPT ![t] = label]
Children(n) == {s \in Names : children[n][s] # NoNode}

(* What recordLock.Lock waits for.  A waiting Lock keeps new readers out, which  *)
(* is left out here: they may only do more.                                      *)
LockFree == readers = {} /\ \A n \in NodeIds : abandoned[n] = 0

(* newBreakdownNode *)
Allocate(n) == n = allocated + 1 /\ n \in NodeIds /\ allocated' = n

(* Mutant: the read lock is released before incrementError. *)
BeginUnlocked(t, g, m) ==
    LET root == errorGraphs[g] IN
    /\ pc[t] = "idle" /\ calls[t] < MaxCalls[t]
    /\ calls' = [calls EXCEPT ![t] = @ + 1]
    /\ call' = [call EXCEPT ![t] = [group |-> g, message |-> m, node |-> NoNode, child |-> root,
                                    target |-> g, at |-> 0, late |-> root = NoNode]]
    /\ Goto(t, IF root # NoNode THEN "increment" ELSE "create")
    /\ UNCHANGED <<lock, errorGraphs, tree, measurement, report, history>>

(* recordError looks the group up under RLock, which it keeps for incrementError *)
(* when there is a tree.  A nil error is only logged.                            *)
Begin(t, g, m) ==
    LET root == errorGraphs[g] IN
    /\ pc[t] = "idle" /\ calls[t] < MaxCalls[t]
    /\ calls' = [calls EXCEPT ![t] = @ + 1]
    /\ call' = [call EXCEPT ![t] = [group |-> g, message |-> m, node |-> NoNode, child |-> root,
                                    target |-> g, at |-> 0, late |-> root = NoNode]]
    /\ IF root # NoNode
       THEN readers' = readers \cup {t} /\ Goto(t, "increment")
       ELSE readers' = readers /\ Goto(t, "create")
    /\ UNCHANGED <<errorGraphs, abandoned, tree, measurement, report, history>>

(* Mutant: the tree that was created stays local to the block. *)
CreateShadowed(t) ==
    LET g == call[t].group IN
    /\ pc[t] = "create" /\ LockFree
    /\ \/ /\ errorGraphs[g] # NoNode
          /\ UNCHANGED <<tree, errorGraphs>>
       \/ /\ errorGraphs[g] = NoNode
          /\ Allocate(allocated + 1)
          /\ errorGraphs' = [errorGraphs EXCEPT ![g] = allocated + 1]
          /\ UNCHANGED children
    /\ call' = [call EXCEPT ![t].child = errorGraphs[g]]
    /\ Goto(t, "relock")
    /\ UNCHANGED <<lock, measurement, calls, report, history>>

(* Under Lock: use the tree another call created meanwhile, or create one. *)
Create(t) ==
    LET g == call[t].group IN
    /\ pc[t] = "create" /\ LockFree
    /\ \/ /\ errorGraphs[g] # NoNode
          /\ UNCHANGED <<tree, errorGraphs>>
       \/ /\ errorGraphs[g] = NoNode
          /\ Allocate(allocated + 1)
          /\ errorGraphs' = [errorGraphs EXCEPT ![g] = allocated + 1]
          /\ UNCHANGED children
    /\ call' = [call EXCEPT ![t].child = errorGraphs'[g]]
    /\ Goto(t, "relock")
    /\ UNCHANGED <<lock, measurement, calls, report, history>>

(* RLock again, for incrementError on the tree found or created before. *)
Relock(t) ==
    /\ pc[t] = "relock"
    /\ readers' = readers \cup {t}
    /\ Goto(t, "increment")
    /\ UNCHANGED <<errorGraphs, abandoned, tree, measurement, call, calls, report, history>>

(* Below the last frame comes the message; below the message nothing. *)
AtMessage(t) == call[t].at = Len(Frames[t])
Done(t) == call[t].at > Len(Frames[t])

(* AddFloat64, which retries until its compare-and-swap succeeds.  currentNode *)
(* becomes the child; after the message's node recordError gives the lock back. *)
Increment(t) ==
    LET n == call[t].child IN
    /\ pc[t] = "increment"
    /\ measurement' = [measurement EXCEPT ![n] = @ + 1]
    /\ IF Done(t)
       THEN readers' = readers \ {t} /\ Goto(t, "idle") /\ call' = [call EXCEPT ![t] = <<>>]
       ELSE /\ readers' = readers
            /\ Goto(t, "find")
            /\ call' = [call EXCEPT ![t].node = n,
                          ![t].target = IF AtMessage(t) THEN call[t].message ELSE Frames[t][call[t].at + 1]]
    /\ found' = IF call[t].node = NoNode /\ ~call[t].late
                THEN [found EXCEPT ![n] = @ + 1] ELSE found
    /\ UNCHANGED <<errorGraphs, abandoned, tree, calls, report, overwritten, reported>>

(* Mutant: a frame that is there already is entered without an increment. *)
FindFrameUncounted(t) ==
    LET c == children[call[t].node][call[t].target] IN
    /\ pc[t] = "find" /\ ~AtMessage(t)
    /\ call' = [call EXCEPT ![t].child = c, ![t].at = @ + 1,
                           ![t].node = IF c # NoNode THEN c ELSE @,
                           ![t].target = IF c # NoNode THEN call[t].message ELSE @]
    /\ Goto(t, IF c # NoNode THEN "find" ELSE "add")
    /\ UNCHANGED <<errorGraphs, lock, tree, measurement, calls, report, history>>

(* findChild of a frame, inside findOrAddChild. *)
FindFrame(t) ==
    LET c == children[call[t].node][call[t].target] IN
    /\ pc[t] = "find" /\ ~AtMessage(t)
    /\ call' = [call EXCEPT ![t].child = c, ![t].at = @ + 1]
    /\ Goto(t, IF c # NoNode THEN "increment" ELSE "add")
    /\ UNCHANGED <<errorGraphs, lock, tree, measurement, calls, report, history>>

(* findChild of the message, before the number of children is looked at. *)
FindMessage(t) ==
    LET c == children[call[t].node][call[t].target] IN
    /\ pc[t] = "find" /\ AtMessage(t)
    /\ call' = [call EXCEPT ![t].child = c, ![t].at = @ + 1]
    /\ Goto(t, IF c # NoNode THEN "increment" ELSE "limit")
    /\ UNCHANGED <<errorGraphs, lock, tree, measurement, calls, report, history>>

(* err.Error() is code of the program.  When it panics, which the program may    *)
(* recover from, the unlock after incrementError is skipped: the frames have     *)
(* been counted and the message has not.                                         *)
ErrorPanics(t) ==
    /\ pc[t] = "find" /\ AtMessage(t)
    /\ readers' = readers \ {t}
    /\ abandoned' = [abandoned EXCEPT ![call[t].node] = @ + 1]
    /\ call' = [call EXCEPT ![t] = <<>>]
    /\ Goto(t, "idle")
    /\ UNCHANGED <<errorGraphs, tree, measurement, calls, report, history>>

(* Mutant: the limit is off by one. *)
LimitTooLate(t) ==
    /\ pc[t] = "limit"
    /\ call' = [call EXCEPT ![t].target =
                    IF Cardinality(Children(call[t].node)) <= MaxMessages THEN @ ELSE Other]
    /\ Goto(t, "findAgain")
    /\ UNCHANGED <<errorGraphs, lock, tree, measurement, calls, report, history>>

(* len(currentNode.children) is read without the node's lock. *)
LimitMessages(t) ==
    /\ pc[t] = "limit"
    /\ call' = [call EXCEPT ![t].target =
                    IF Cardinality(Children(call[t].node)) < MaxMessages THEN @ ELSE Other]
    /\ Goto(t, "findAgain")
    /\ UNCHANGED <<errorGraphs, lock, tree, measurement, calls, report, history>>

(* findChild of the message or of "Other", inside findOrAddChild. *)
FindAgain(t) ==
    LET c == children[call[t].node][call[t].target] IN
    /\ pc[t] = "findAgain"
    /\ call' = [call EXCEPT ![t].child = c]
    /\ Goto(t, IF c # NoNode THEN "increment" ELSE "add")
    /\ UNCHANGED <<errorGraphs, lock, tree, measurement, calls, report, history>>

(* addChild under the node's lock: a child of the same name that was added *)
(* since findChild is replaced, with all it has counted.                   *)
AddChild(t) ==
    LET n == call[t].node
        s == call[t].target
    IN  /\ pc[t] = "add"
        /\ Allocate(allocated + 1)
        /\ children' = [children EXCEPT ![n][s] = allocated + 1]
        /\ call' = [call EXCEPT ![t].child = allocated + 1]
        /\ overwritten' = IF children[n][s] # NoNode THEN overwritten \cup {n} ELSE overwritten
        /\ Goto(t, "increment")
        /\ UNCHANGED <<errorGraphs, lock, measurement, calls, report, found, reported>>
-------------------------------------------------------------------------------
LiveGraphs == {errorGraphs[g] : g \in Groups} \ {NoNode}

(* report swaps the map for an empty one under Lock. *)
Swap ==
    /\ rpc = "idle" /\ reports < MaxReports /\ LockFree
    /\ reports' = reports + 1
    /\ outgoing' = LiveGraphs
    /\ errorGraphs' = [g \in Groups |-> NoNode]
    /\ rpc' = IF LiveGraphs = {} THEN "idle" ELSE "measure"
    /\ UNCHANGED <<lock, tree, measurement, threads, current, history>>

(* createMeasurement reads the root; the trees come in any order. *)
Measure(n) ==
    /\ rpc = "measure" /\ n \in outgoing
    /\ outgoing' = outgoing \ {n}
    /\ current' = [current EXCEPT !.node = n, !.value = measurement[n]]
    /\ rpc' = "size"
    /\ UNCHANGED <<errorGraphs, lock, tree, measurement, threads, reports, history>>

(* toMap makes an array for the root's children, without the node's lock. *)
SizeChildren ==
    /\ rpc = "size"
    /\ current' = [current EXCEPT !.length = Cardinality(Children(current.node))]
    /\ rpc' = "send"
    /\ UNCHANGED <<errorGraphs, lock, tree, measurement, threads, outgoing, reports, history>>

(* It fills the array and reads the root again, and the metric goes to the queue. *)
Send ==
    /\ rpc = "send"
    /\ reported' = reported \cup {[node |-> current.node, value |-> current.value,
                                   breakdown |-> measurement[current.node]]}
    /\ rpc' = IF outgoing = {} THEN "idle" ELSE "measure"
    /\ UNCHANGED <<errorGraphs, lock, tree, measurement, threads, outgoing, current,
                   reports, found, overwritten>>

(* A child that was added since makes the index run out of range, which ends the *)
(* reporter's goroutine, or is caught by the runtime as a write during the       *)
(* iteration, which ends the process.                                            *)
SendFails ==
    /\ rpc = "send"
    /\ Cardinality(Children(current.node)) > current.length
    /\ rpc' \in {"dead", "crashed"}
    /\ UNCHANGED <<errorGraphs, lock, tree, measurement, threads, outgoing, current,
                   reports, history>>

(* Only the bounds, a crash of the process and a lock that was never given back  *)
(* stop the model.                                                               *)
Abandoned == \E n \in NodeIds : abandoned[n] # 0
BoundReached ==
    /\ \/ rpc = "crashed"
       \/ /\ rpc = "dead" \/ (rpc = "idle" /\ (reports = MaxReports \/ Abandoned))
          /\ \A t \in Recorders :
                \/ pc[t] = "idle" /\ calls[t] = MaxCalls[t]
                \/ pc[t] = "create" /\ Abandoned
    /\ UNCHANGED vars

IncrementError(t) ==
    \/ Increment(t) \/ FindFrame(t)
    \/ FindMessage(t) \/ ErrorPanics(t)
    \/ LimitMessages(t) \/ FindAgain(t) \/ AddChild(t)
RecordError(t) ==
    (\E g \in Groups, m \in Messages : Begin(t, g, m)) \/ Create(t) \/ Relock(t) \/ IncrementError(t)
Report == Swap \/ (\E n \in NodeIds : Measure(n)) \/ SizeChildren \/ Send \/ SendFails

Next ==
    \/ rpc # "crashed" /\ ((\E t \in Recorders : RecordError(t)) \/ Report)
    \/ BoundReached

Spec == Init /\ [][Next]_vars
-------------------------------------------------------------------------------
Labels == {"idle", "create", "relock", "increment", "find", "limit", "findAgain", "add"}
ReportLabels == {"idle", "measure", "size", "send", "dead", "crashed"}
IncrementNeedsNode(t) == pc[t] = "increment" => call[t].child \in NodeIds

(* Types of error_reporter.go's variables; increment is called on a node. *)
TypeOK ==
    /\ errorGraphs \in [Groups -> NodeIds \cup {NoNode}]
    /\ readers \subseteq Recorders
    /\ abandoned \in [NodeIds -> Nat]
    /\ allocated \in 0..MaxNodes
    /\ children \in [NodeIds -> [Names -> NodeIds \cup {NoNode}]]
    /\ measurement \in [NodeIds -> Nat]
    /\ pc \in [Recorders -> Labels]
    /\ \A t \in Recorders : IF pc[t] = "idle" THEN call[t] = <<>> ELSE call[t] \in Call
    /\ \A t \in Recorders : IncrementNeedsNode(t)
    /\ calls \in [Recorders -> Nat]
    /\ rpc \in ReportLabels
    /\ outgoing \subseteq NodeIds
    /\ current \in [node : NodeIds \cup {NoNode}, value : Nat, length : Nat]
    /\ reports \in Nat
    /\ found \in [NodeIds -> Nat]
    /\ overwritten \subseteq NodeIds
    /\ reported \subseteq [node : NodeIds, value : Nat, breakdown : Nat]

(* error_reporter.go:79 keeps five messages below a frame and sums up the rest   *)
(* in "Other".  Goroutines that all count the children before any of them adds   *)
(* one exceed the five, but by less than their number.                           *)
MessagesBounded ==
    \A n \in NodeIds :
        Cardinality(Children(n) \cap Messages) <= MaxMessages + Cardinality(Recorders) - 1

(* The goroutines that have counted an error in a node and not below it yet. *)
Below(n) == {t \in Recorders : pc[t] # "idle" /\ call[t].node = n}
ChildrenSum(n) == SumFunction([s \in Children(n) |-> measurement[children[n][s]]])

(* A node has counted what its children have counted, the calls on their way     *)
(* from it to a child, and those that ended there because err.Error() panicked   *)
(* (error_reporter.go:73); and nothing else, unless two first calls added the    *)
(* same child and the second replaced the first with all it had counted.         *)
MeasurementsAddUp ==
    \A n \in NodeIds :
        LET below == ChildrenSum(n) + Cardinality(Below(n)) + abandoned[n]
        IN  /\ below <= measurement[n]
            /\ Children(n) # {} /\ n \notin overwritten => below = measurement[n]

(* Every error whose call found the tree in the map is in the value of the      *)
(* metric; the breakdown, read later, may hold more but never less.             *)
FoundAreReported ==
    \A r \in reported :
        found[r.node] <= r.value /\ r.value <= r.breakdown /\ r.breakdown <= measurement[r.node]

(* agent.go:155: RecordError "Aggregates and reports errors with regular         *)
(* intervals": the goroutine that reports goes on as long as the program does.   *)
KeepsReporting == rpc \notin {"dead", "crashed"}
=============================================================================
