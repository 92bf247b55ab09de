-------------------------- MODULE ErrorReporter_proofs --------------------------
(* Safety of ErrorReporter for any number of recorders, groups, frames, messages *)
(* (also infinitely many), nodes, calls and reports: first the invariant of the  *)
(* lock, the report and the limit of messages, then that of the trees and their  *)
(* sums.                                                                         *)
EXTENDS ErrorReporter, FiniteSetTheorems, TLAPS

(* The labels of incrementError, which runs with the read lock, and those at     *)
(* which it looks for a child of call.node.                                      *)
Searching == {"find", "limit", "findAgain", "add"}
Inside == Searching \cup {"increment"}

Typed ==
    /\ TypeOK
    /\ call \in [Recorders -> Call \cup {<<>>}]
    /\ \A t \in Recorders :
        /\ pc[t] \in Searching => call[t].node \in NodeIds
        /\ pc[t] \in {"relock", "increment"} => call[t].child \in NodeIds

(* A goroutine inside incrementError is a reader; one that has not entered it    *)
(* yet found no tree in the map.                                                 *)
Holding ==
    \A t \in Recorders :
        /\ pc[t] \in Inside => t \in readers
        /\ pc[t] \in {"create", "relock"} => call[t].late

(* A tree that a call found in the map stays there until the call has counted in *)
(* its root.                                                                     *)
FoundIsLive ==
    \A t \in Recorders :
        pc[t] = "increment" /\ call[t].node = NoNode /\ ~call[t].late => call[t].child \in LiveGraphs

(* The trees the report has taken out of the map never come back to it. *)
Retired == outgoing \cup {current.node} \cup {r.node : r \in reported}
Retirement ==
    /\ \A n \in LiveGraphs : n <= allocated /\ n \notin Retired
    /\ \A n \in Retired : n <= allocated
    /\ rpc \in {"size", "send"} => current.node \in NodeIds

(* No root has counted less than the errors that found it in the map. *)
Counted == \A n \in NodeIds : found[n] <= measurement[n]
Sending ==
    rpc \in {"size", "send"} =>
        found[current.node] <= current.value /\ current.value <= measurement[current.node]

(* The goroutines that are about to add a message count against its limit.      *)
Kept(n) == Children(n) \cap Messages
Pending(n) ==
    {t \in Recorders : pc[t] \in {"findAgain", "add"} /\ call[t].node = n /\ call[t].target \in Messages}
Room ==
    /\ \A t \in Recorders : pc[t] = "find" /\ ~AtMessage(t) => call[t].target \notin Messages
    /\ \A n \in NodeIds :
        /\ IsFiniteSet(Children(n))
        /\ Cardinality(Kept(n)) + Cardinality(Pending(n)) <= MaxMessages + Cardinality(Recorders) - 1

Inv ==
    /\ Typed /\ Holding /\ FoundIsLive /\ Retirement /\ Counted /\ Sending /\ FoundAreReported
    /\ Room
-------------------------------------------------------------------------------

(* A goroutine that works on its call leaves the calls of the others alone. *)
LEMMA OthersWait ==
    ASSUME Typed, NEW t \in Recorders, RecordError(t)
    PROVE  \A u \in Recorders : u # t => pc'[u] = pc[u] /\ call'[u] = call[u]
<1>1. DOMAIN pc = Recorders /\ DOMAIN call = Recorders
  BY DEF Typed, TypeOK
<1>2. ASSUME NEW g \in Groups, NEW m \in Messages, Begin(t, g, m)
      PROVE  \A u \in Recorders : u # t => pc'[u] = pc[u] /\ call'[u] = call[u]
  BY <1>1, <1>2 DEF Begin, Goto
<1>3. CASE Create(t)
  BY <1>1, <1>3 DEF Create, Goto
<1>4. CASE Relock(t)
  BY <1>1, <1>4 DEF Relock, Goto
<1>5. CASE Increment(t)
  BY <1>1, <1>5 DEF Increment, Goto
<1>6. CASE FindFrame(t)
  BY <1>1, <1>6 DEF FindFrame, Goto
<1>7. CASE FindMessage(t)
  BY <1>1, <1>7 DEF FindMessage, Goto
<1>8. CASE ErrorPanics(t)
  BY <1>1, <1>8 DEF ErrorPanics, Goto
<1>9. CASE LimitMessages(t)
  BY <1>1, <1>9 DEF LimitMessages, Goto
<1>10. CASE FindAgain(t)
  BY <1>1, <1>10 DEF FindAgain, Goto
<1>11. CASE AddChild(t)
  BY <1>1, <1>11 DEF AddChild, Goto
<1>12. QED
  BY <1>2, <1>3, <1>4, <1>5, <1>6, <1>7, <1>8, <1>9, <1>10, <1>11 DEF RecordError, IncrementError

(* What a call is after each of its steps. *)
CallFacts(t) ==
    /\ pc' \in [Recorders -> Labels]
    /\ call' \in [Recorders -> Call \cup {<<>>}]
    /\ IF pc'[t] = "idle" THEN call'[t] = <<>> ELSE call'[t] \in Call
    /\ pc'[t] \in Searching => call'[t].node \in NodeIds
    /\ pc'[t] \in {"relock", "increment"} => call'[t].child \in NodeIds

LEMMA ConstantFacts ==
    /\ NoNode \notin NodeIds /\ NodeIds \subseteq Nat
    /\ Groups \subseteq Names /\ Messages \subseteq Names /\ Other \in Names
    /\ Other \notin Messages
    /\ \A t \in Recorders : \A i \in 1..Len(Frames[t]) : Frames[t][i] \in Names /\ Frames[t][i] \notin Messages
    /\ \A t \in Recorders : Len(Frames[t]) \in Nat
<1>1. \A t \in Recorders : \A i \in 1..Len(Frames[t]) : Frames[t][i] \in FrameNames
  BY DEF FrameNames
<1>2. QED
  BY <1>1, ErrorAssumption DEF NoNode, NodeIds, Names

LEMMA CallTyped ==
    ASSUME Typed, NEW t \in Recorders, RecordError(t)
    PROVE  CallFacts(t)
<1> USE ConstantFacts DEF CallFacts, Goto, Labels, Searching
<1>0. pc \in [Recorders -> Labels] /\ call \in [Recorders -> Call \cup {<<>>}]
      /\ children \in [NodeIds -> [Names -> NodeIds \cup {NoNode}]]
      /\ errorGraphs \in [Groups -> NodeIds \cup {NoNode}]
  BY DEF Typed, TypeOK
<1>1. ASSUME NEW g \in Groups, NEW m \in Messages, Begin(t, g, m) PROVE CallFacts(t)
  <2>1. [group |-> g, message |-> m, node |-> NoNode, child |-> errorGraphs[g],
         target |-> g, at |-> 0, late |-> errorGraphs[g] = NoNode] \in Call
    BY <1>0 DEF Call
  <2>2. QED
    BY <1>0, <1>1, <2>1 DEF Begin
<1> DEFINE c == call[t]
<1>2. pc[t] # "idle" => /\ c \in Call /\ c.group \in Groups /\ c.message \in Messages
                        /\ c.node \in NodeIds \cup {NoNode} /\ c.child \in NodeIds \cup {NoNode}
                        /\ c.target \in Names /\ c.at \in Nat /\ c.late \in BOOLEAN
  BY DEF Typed, TypeOK, Call
<1>3. CASE Create(t)
  <2>1. errorGraphs'[c.group] \in NodeIds
    BY <1>0, <1>2, <1>3 DEF Create, Allocate
  <2>2. call' = [call EXCEPT ![t] = [c EXCEPT !.child = errorGraphs'[c.group]]]
    BY <1>0, <1>3 DEF Create
  <2>3. [c EXCEPT !.child = errorGraphs'[c.group]] \in Call
    BY <1>2, <1>3, <2>1 DEF Create, Call
  <2>4. [c EXCEPT !.child = errorGraphs'[c.group]].child = errorGraphs'[c.group]
    BY <1>2, <1>3 DEF Create, Call
  <2> HIDE DEF c
  <2>5. QED
    BY <1>0, <1>3, <2>1, <2>2, <2>3, <2>4 DEF Create
<1>4. CASE Relock(t)
  <2>1. c.child \in NodeIds
    BY <1>4 DEF Relock, Typed
  <2>2. QED
    BY <1>0, <1>2, <1>4, <2>1 DEF Relock
<1>5. CASE Increment(t)
  <2>1. c.child \in NodeIds
    BY <1>5 DEF Increment, Typed
  <2>2. CASE Done(t)
    BY <1>0, <1>5, <2>2 DEF Increment
  <2>3. CASE ~Done(t)
    <3> DEFINE target == IF AtMessage(t) THEN c.message ELSE Frames[t][c.at + 1]
    <3>1. target \in Names
      BY <1>2, <1>5, <2>3 DEF Increment, Done, AtMessage
    <3>2. call' = [call EXCEPT ![t] = [c EXCEPT !.node = c.child, !.target = target]]
      BY <1>0, <1>5, <2>3 DEF Increment
    <3>3. [c EXCEPT !.node = c.child, !.target = target] \in Call
      BY <1>2, <1>5, <3>1 DEF Increment, Call
    <3>4. [c EXCEPT !.node = c.child, !.target = target].node = c.child
      BY <1>2, <1>5 DEF Increment, Call
    <3>5. pc' = [pc EXCEPT ![t] = "find"]
      BY <1>5, <2>3 DEF Increment
    <3> HIDE DEF c, target
    <3>6. QED
      BY <1>0, <2>1, <3>2, <3>3, <3>4, <3>5
  <2>4. QED
    BY <2>2, <2>3
<1> DEFINE child == children[c.node][c.target]
<1>6. pc[t] \in {"find", "limit", "findAgain"} => child \in NodeIds \cup {NoNode} /\ c.node \in NodeIds
  <2>1. pc[t] \in {"find", "limit", "findAgain"} => c.node \in NodeIds /\ c.target \in Names
    BY <1>2 DEF Typed
  <2> HIDE DEF c
  <2>2. QED
    BY <1>0, <2>1
<1>7. CASE FindFrame(t)
  <2>1. call' = [call EXCEPT ![t] = [c EXCEPT !.child = child, !.at = c.at + 1]]
    BY <1>0, <1>7 DEF FindFrame
  <2>2. /\ [c EXCEPT !.child = child, !.at = c.at + 1] \in Call
        /\ [c EXCEPT !.child = child, !.at = c.at + 1].child = child
        /\ [c EXCEPT !.child = child, !.at = c.at + 1].node = c.node
    <3>1. pc[t] = "find"
      BY <1>7 DEF FindFrame
    <3>2. c \in Call /\ child \in NodeIds \cup {NoNode} /\ c.at + 1 \in Nat
      BY <1>2, <1>6, <3>1
    <3> HIDE DEF c, child
    <3>3. QED
      BY <3>2 DEF Call
  <2>3. pc' = [pc EXCEPT ![t] = IF child # NoNode THEN "increment" ELSE "add"]
    BY <1>7 DEF FindFrame
  <2>4. pc[t] = "find"
    BY <1>7 DEF FindFrame
  <2> HIDE DEF c, child
  <2>5. QED
    BY <1>0, <1>6, <2>1, <2>2, <2>3, <2>4
<1>8. CASE FindMessage(t)
  <2>1. call' = [call EXCEPT ![t] = [c EXCEPT !.child = child, !.at = c.at + 1]]
    BY <1>0, <1>8 DEF FindMessage
  <2>2. /\ [c EXCEPT !.child = child, !.at = c.at + 1] \in Call
        /\ [c EXCEPT !.child = child, !.at = c.at + 1].child = child
        /\ [c EXCEPT !.child = child, !.at = c.at + 1].node = c.node
    <3>1. pc[t] = "find"
      BY <1>8 DEF FindMessage
    <3>2. c \in Call /\ child \in NodeIds \cup {NoNode} /\ c.at + 1 \in Nat
      BY <1>2, <1>6, <3>1
    <3> HIDE DEF c, child
    <3>3. QED
      BY <3>2 DEF Call
  <2>3. pc' = [pc EXCEPT ![t] = IF child # NoNode THEN "increment" ELSE "limit"]
    BY <1>8 DEF FindMessage
  <2>4. pc[t] = "find"
    BY <1>8 DEF FindMessage
  <2> HIDE DEF c, child
  <2>5. QED
    BY <1>0, <1>6, <2>1, <2>2, <2>3, <2>4
<1>9. CASE ErrorPanics(t)
  BY <1>0, <1>9 DEF ErrorPanics
<1>10. CASE LimitMessages(t)
  <2> DEFINE target == IF Cardinality(Children(c.node)) < MaxMessages THEN c.target ELSE Other
  <2>1. call' = [call EXCEPT ![t] = [c EXCEPT !.target = target]]
    BY <1>0, <1>10 DEF LimitMessages
  <2>2. target \in Names
    BY <1>2, <1>10 DEF LimitMessages
  <2>3. [c EXCEPT !.target = target] \in Call /\ [c EXCEPT !.target = target].node = c.node
    BY <1>2, <1>10, <2>2 DEF LimitMessages, Call
  <2>4. pc' = [pc EXCEPT ![t] = "findAgain"] /\ pc[t] = "limit"
    BY <1>10 DEF LimitMessages
  <2> HIDE DEF c, target
  <2>5. QED
    BY <1>0, <1>6, <2>1, <2>3, <2>4
<1>11. CASE FindAgain(t)
  <2>1. call' = [call EXCEPT ![t] = [c EXCEPT !.child = child]]
    BY <1>0, <1>11 DEF FindAgain
  <2>2. /\ [c EXCEPT !.child = child] \in Call
        /\ [c EXCEPT !.child = child].child = child
        /\ [c EXCEPT !.child = child].node = c.node
    BY <1>2, <1>6, <1>11 DEF FindAgain, Call
  <2>3. pc' = [pc EXCEPT ![t] = IF child # NoNode THEN "increment" ELSE "add"] /\ pc[t] = "findAgain"
    BY <1>11 DEF FindAgain
  <2> HIDE DEF c, child
  <2>4. QED
    BY <1>0, <1>6, <2>1, <2>2, <2>3
<1>12. CASE AddChild(t)
  <2>1. call' = [call EXCEPT ![t] = [c EXCEPT !.child = allocated + 1]] /\ allocated + 1 \in NodeIds
    BY <1>0, <1>12 DEF AddChild, Allocate
  <2>2. /\ [c EXCEPT !.child = allocated + 1] \in Call
        /\ [c EXCEPT !.child = allocated + 1].child = allocated + 1
    BY <1>2, <1>12, <2>1 DEF AddChild, Call
  <2>3. pc' = [pc EXCEPT ![t] = "increment"]
    BY <1>12 DEF AddChild
  <2> HIDE DEF c
  <2>4. QED
    BY <1>0, <2>1, <2>2, <2>3
<1>13. QED
  BY <1>1, <1>3, <1>4, <1>5, <1>7, <1>8, <1>9, <1>10, <1>11, <1>12 DEF RecordError, IncrementError
-------------------------------------------------------------------------------
(* What a recorder leaves of the trees and the lock. *)
TreesTyped ==
    /\ errorGraphs \in [Groups -> NodeIds \cup {NoNode}]
    /\ readers \subseteq Recorders /\ abandoned \in [NodeIds -> Nat]
    /\ allocated \in 0..MaxNodes
    /\ children \in [NodeIds -> [Names -> NodeIds \cup {NoNode}]]
    /\ measurement \in [NodeIds -> Nat] /\ found \in [NodeIds -> Nat]
    /\ calls \in [Recorders -> Nat]
    /\ overwritten \subseteq NodeIds

LEMMA RecorderKeepsTrees ==
    ASSUME Typed, NEW t \in Recorders, RecordError(t)
    PROVE  TreesTyped' /\ UNCHANGED <<report, reported>>
<1>0. TreesTyped /\ MaxNodes \in Nat
  BY ErrorAssumption DEF Typed, TypeOK, TreesTyped
<1> USE <1>0, ConstantFacts DEF TreesTyped, tree, lock, threads, history
<1>1. ASSUME NEW g \in Groups, NEW m \in Messages, Begin(t, g, m)
      PROVE  TreesTyped' /\ UNCHANGED <<report, reported>>
  BY <1>1 DEF Begin
<1>2. CASE Create(t)
  <2>1. \/ UNCHANGED <<allocated, errorGraphs>>
        \/ /\ allocated + 1 \in NodeIds /\ allocated' = allocated + 1
           /\ errorGraphs' = [errorGraphs EXCEPT ![call[t].group] = allocated + 1]
    BY <1>2 DEF Create, Allocate
  <2>2. /\ allocated \in 0..MaxNodes /\ MaxNodes \in Nat
        /\ errorGraphs \in [Groups -> NodeIds \cup {NoNode}]
    OBVIOUS
  <2>3. allocated' \in 0..MaxNodes
    BY ONLY <2>1, <2>2 DEF NodeIds
  <2>4. errorGraphs' \in [Groups -> NodeIds \cup {NoNode}]
    BY ONLY <2>1, <2>2
  <2>5. QED
    BY <1>2, <2>3, <2>4 DEF Create
<1>3. CASE Relock(t)
  BY <1>3 DEF Relock
<1>4. CASE Increment(t)
  <2>1. /\ measurement' = [measurement EXCEPT ![call[t].child] = @ + 1]
        /\ found' \in {found, [found EXCEPT ![call[t].child] = @ + 1]}
    BY <1>4 DEF Increment
  <2>2. /\ call[t].child \in NodeIds
        /\ measurement \in [NodeIds -> Nat] /\ found \in [NodeIds -> Nat]
    BY <1>4 DEF Increment, Typed
  <2>3. measurement' \in [NodeIds -> Nat] /\ found' \in [NodeIds -> Nat]
    BY ONLY <2>1, <2>2
  <2>4. readers' \subseteq Recorders
    BY <1>4 DEF Increment
  <2>5. QED
    BY <1>4, <2>3, <2>4 DEF Increment
<1>5. CASE FindFrame(t)
  BY <1>5 DEF FindFrame
<1>6. CASE FindMessage(t)
  BY <1>6 DEF FindMessage
<1>7. CASE ErrorPanics(t)
  <2>1. abandoned' = [abandoned EXCEPT ![call[t].node] = @ + 1] /\ readers' = readers \ {t}
    BY <1>7 DEF ErrorPanics
  <2>2. abandoned' \in [NodeIds -> Nat] /\ readers' \subseteq Recorders
    <3>1. /\ call[t].node \in NodeIds
          /\ abandoned \in [NodeIds -> Nat] /\ readers \subseteq Recorders
      BY <1>7 DEF ErrorPanics, Typed, Searching
    <3>2. QED
      BY ONLY <2>1, <3>1
  <2>3. QED
    BY <1>7, <2>2 DEF ErrorPanics
<1>8. CASE LimitMessages(t)
  BY <1>8 DEF LimitMessages
<1>9. CASE FindAgain(t)
  BY <1>9 DEF FindAgain
<1>10. CASE AddChild(t)
  <2>1. call[t].node \in NodeIds /\ call[t].target \in Names
    BY <1>10 DEF AddChild, Searching, Call, Typed, TypeOK
  <2>2. allocated' \in 0..MaxNodes /\ allocated + 1 \in NodeIds
    BY <1>10 DEF AddChild, Allocate, NodeIds
  <2>3. children' \in [NodeIds -> [Names -> NodeIds \cup {NoNode}]]
    BY <1>10, <2>1, <2>2 DEF AddChild
  <2>4. overwritten' \subseteq NodeIds
    BY <1>10, <2>1 DEF AddChild
  <2>5. QED
    BY <1>10, <2>2, <2>3, <2>4 DEF AddChild
<1>11. QED
  BY <1>1, <1>2, <1>3, <1>4, <1>5, <1>6, <1>7, <1>8, <1>9, <1>10 DEF RecordError, IncrementError

LEMMA RecorderTyped ==
    ASSUME Typed, NEW t \in Recorders, RecordError(t)
    PROVE  Typed'
<1>1. TreesTyped' /\ UNCHANGED <<report, reported>>
  BY RecorderKeepsTrees
<1>2. CallFacts(t) /\ \A u \in Recorders : u # t => pc'[u] = pc[u] /\ call'[u] = call[u]
  BY CallTyped, OthersWait
<1>3. pc' \in [Recorders -> Labels] /\ call' \in [Recorders -> Call \cup {<<>>}]
  BY <1>2 DEF CallFacts
<1>4. ASSUME NEW u \in Recorders
      PROVE  /\ IF pc'[u] = "idle" THEN call'[u] = <<>> ELSE call'[u] \in Call
             /\ pc'[u] \in Searching => call'[u].node \in NodeIds
             /\ pc'[u] \in {"relock", "increment"} => call'[u].child \in NodeIds
  <2>1. CASE u = t
    BY <1>2, <2>1 DEF CallFacts
  <2>2. CASE u # t
    BY <1>2, <2>2 DEF Typed, TypeOK
  <2>3. QED
    BY <2>1, <2>2
<1>5. TypeOK'
  BY <1>1, <1>3, <1>4 DEF TypeOK, Typed, TreesTyped, IncrementNeedsNode, report
<1>6. QED
  BY <1>3, <1>4, <1>5 DEF Typed

(* What the report leaves of the map and its own variables. *)
ReportTypes ==
    /\ errorGraphs \in [Groups -> NodeIds \cup {NoNode}]
    /\ rpc \in ReportLabels /\ outgoing \subseteq NodeIds
    /\ current \in [node : NodeIds \cup {NoNode}, value : Nat, length : Nat]
    /\ reports \in Nat
    /\ reported \subseteq [node : NodeIds, value : Nat, breakdown : Nat]

LEMMA ReportTyped ==
    ASSUME Inv, Report
    PROVE  Typed' /\ UNCHANGED <<lock, tree, measurement, threads, found, overwritten>>
<1> USE ConstantFacts DEF tree, lock, threads, history
<1>1. UNCHANGED <<lock, tree, measurement, threads, found, overwritten>>
  BY DEF Report, Swap, Measure, SizeChildren, Send, SendFails
<1>2. ReportTypes'
  <2> USE DEF Inv, Typed, TypeOK, ReportTypes, ReportLabels
  <2>1. CASE Swap
    BY <2>1 DEF Swap, LiveGraphs
  <2>2. ASSUME NEW n \in NodeIds, Measure(n) PROVE ReportTypes'
    BY <2>2 DEF Measure
  <2>3. CASE SizeChildren
    <3>1. Cardinality(Children(current.node)) \in Nat
      BY <2>3, FS_CardinalityType DEF SizeChildren, Retirement, Room
    <3>2. QED
      BY <2>3, <3>1 DEF SizeChildren
  <2>4. CASE Send
    <3>1. /\ current.node \in NodeIds /\ current.value \in Nat
          /\ measurement[current.node] \in Nat
      BY <2>4 DEF Send, Retirement
    <3>2. reported' = reported \cup {[node |-> current.node, value |-> current.value,
                                      breakdown |-> measurement[current.node]]}
      BY <2>4 DEF Send
    <3>3. reported' \subseteq [node : NodeIds, value : Nat, breakdown : Nat]
      BY <3>1, <3>2
    <3>4. QED
      BY <2>4, <3>3 DEF Send
  <2>5. CASE SendFails
    BY <2>5 DEF SendFails
  <2>6. QED
    BY <2>1, <2>2, <2>3, <2>4, <2>5 DEF Report
<1>3. TypeOK'
  BY <1>1, <1>2 DEF Inv, Typed, TypeOK, IncrementNeedsNode, ReportTypes
<1>4. QED
  BY <1>1, <1>3 DEF Inv, Typed
-------------------------------------------------------------------------------
(* What one step of a recorder does to the lock, the map and the counts of the  *)
(* roots: it counts in a tree it found only while that tree is in the map.       *)
Entering(t) ==
    /\ \A u \in Recorders : u # t => (u \in readers' <=> u \in readers)
    /\ pc'[t] \in Inside => t \in readers'
    /\ pc'[t] \in {"create", "relock"} => call'[t].late
    /\ pc'[t] = "increment" /\ call'[t].node = NoNode /\ ~call'[t].late => call'[t].child \in LiveGraphs
Mapping ==
    /\ allocated' \in {allocated, allocated + 1}
    /\ \/ errorGraphs' = errorGraphs
       \/ /\ allocated' = allocated + 1
          /\ LiveGraphs \subseteq LiveGraphs' /\ LiveGraphs' \subseteq LiveGraphs \cup {allocated + 1}
Counting ==
    \/ UNCHANGED <<measurement, found>>
    \/ \E n \in NodeIds :
        /\ measurement' = [measurement EXCEPT ![n] = @ + 1]
        /\ found' = found \/ (n \in LiveGraphs /\ found' = [found EXCEPT ![n] = @ + 1])

LEMMA RecorderEffect ==
    ASSUME Inv, NEW t \in Recorders, RecordError(t)
    PROVE  Entering(t) /\ Mapping /\ Counting
<1>0. /\ DOMAIN pc = Recorders /\ DOMAIN call = Recorders
      /\ pc[t] \in Inside => t \in readers
      /\ pc[t] \in {"create", "relock"} => call[t].late
      /\ pc[t] = "increment" /\ call[t].node = NoNode /\ ~call[t].late => call[t].child \in LiveGraphs
      /\ pc[t] \in Searching => call[t].node # NoNode
      /\ pc[t] # "idle" => call[t] \in Call
  BY ConstantFacts DEF Inv, Typed, TypeOK, Holding, FoundIsLive
<1> USE <1>0 DEF Inside, Searching, Goto, tree, lock, threads, history
<1>1. ASSUME NEW g \in Groups, NEW m \in Messages, Begin(t, g, m)
      PROVE  Entering(t) /\ Mapping /\ Counting
  <2> DEFINE c == [group |-> g, message |-> m, node |-> NoNode, child |-> errorGraphs[g],
                   target |-> g, at |-> 0, late |-> errorGraphs[g] = NoNode]
  <2>1. /\ call'[t] = c
        /\ pc'[t] = IF errorGraphs[g] # NoNode THEN "increment" ELSE "create"
        /\ readers' = IF errorGraphs[g] # NoNode THEN readers \cup {t} ELSE readers
        /\ UNCHANGED <<errorGraphs, allocated, measurement, found>>
    BY <1>1 DEF Begin
  <2>2. ~c.late => c.child \in LiveGraphs
    BY DEF LiveGraphs
  <2>3. errorGraphs[g] = NoNode <=> c.late
    OBVIOUS
  <2> HIDE DEF c
  <2>4. Entering(t)
    BY <2>1, <2>2, <2>3 DEF Entering
  <2>5. QED
    BY <2>1, <2>4 DEF Mapping, Counting
<1>2. CASE Create(t)
  <2>1. /\ call' = [call EXCEPT ![t].child = errorGraphs'[call[t].group]]
        /\ pc' = [pc EXCEPT ![t] = "relock"] /\ pc[t] = "create"
        /\ UNCHANGED <<readers, measurement, found>>
    BY <1>2 DEF Create
  <2>2. call[t].late /\ call'[t] = [call[t] EXCEPT !.child = errorGraphs'[call[t].group]]
    BY <2>1
  <2>3. call'[t].late
    BY <2>1, <2>2 DEF Call
  <2>4. Entering(t)
    BY <2>1, <2>3 DEF Entering
  <2>5. \/ UNCHANGED <<allocated, errorGraphs>>
        \/ /\ errorGraphs[call[t].group] = NoNode /\ allocated' = allocated + 1
           /\ errorGraphs' = [errorGraphs EXCEPT ![call[t].group] = allocated + 1]
    BY <1>2 DEF Create, Allocate
  <2>6. Mapping
    <3>1. CASE UNCHANGED <<allocated, errorGraphs>>
      BY <3>1 DEF Mapping
    <3>2. CASE ~UNCHANGED <<allocated, errorGraphs>>
      <4>1. /\ DOMAIN errorGraphs = Groups /\ errorGraphs[call[t].group] = NoNode
            /\ errorGraphs' = [errorGraphs EXCEPT ![call[t].group] = allocated + 1]
        BY <2>5, <3>2 DEF Inv, Typed, TypeOK
      <4>2. \A h \in Groups : errorGraphs'[h] \in {errorGraphs[h], allocated + 1}
                              /\ (errorGraphs[h] # NoNode => errorGraphs'[h] = errorGraphs[h])
        BY <4>1
      <4>3. QED
        BY <2>5, <3>2, <4>2 DEF Mapping, LiveGraphs
    <3>3. QED
      BY <3>1, <3>2
  <2>7. QED
    BY <2>1, <2>4, <2>6 DEF Counting
<1>3. CASE Relock(t)
  <2>1. /\ pc[t] = "relock" /\ call' = call /\ readers' = readers \cup {t}
        /\ UNCHANGED <<errorGraphs, allocated, measurement, found>>
    BY <1>3 DEF Relock
  <2>2. QED
    BY <2>1 DEF Entering, Mapping, Counting
<1>4. CASE Increment(t)
  <2>1. /\ pc[t] = "increment" /\ UNCHANGED <<errorGraphs, allocated>>
        /\ measurement' = [measurement EXCEPT ![call[t].child] = @ + 1]
        /\ found' = IF call[t].node = NoNode /\ ~call[t].late
                    THEN [found EXCEPT ![call[t].child] = @ + 1] ELSE found
        /\ call[t].child \in NodeIds
    BY <1>4 DEF Increment, Inv, Typed
  <2>2. Counting /\ Mapping
    BY <2>1 DEF Counting, Mapping
  <2>3. CASE Done(t)
    BY <1>4, <2>2, <2>3 DEF Increment, Entering
  <2>4. CASE ~Done(t)
    <3>1. readers' = readers /\ pc' = [pc EXCEPT ![t] = "find"]
      BY <1>4, <2>4 DEF Increment
    <3>2. QED
      BY <2>1, <2>2, <3>1 DEF Entering
  <2>5. QED
    BY <2>3, <2>4
<1>5. ASSUME /\ pc[t] \in Searching /\ pc'[t] \in Inside \cup {"idle"}
             /\ pc'[t] = "idle" \/ call'[t].node = call[t].node
             /\ readers' = readers \/ (pc'[t] = "idle" /\ readers' = readers \ {t})
             /\ allocated' \in {allocated, allocated + 1}
             /\ UNCHANGED <<errorGraphs, measurement, found>>
      PROVE  Entering(t) /\ Mapping /\ Counting
  BY <1>5 DEF Entering, Mapping, Counting
<1>6. CASE FindFrame(t)
  <2>1. call'[t].node = call[t].node
    BY <1>6 DEF FindFrame, Call
  <2>2. QED
    BY <1>5, <1>6, <2>1 DEF FindFrame
<1>7. CASE FindMessage(t)
  <2>1. call'[t].node = call[t].node
    BY <1>7 DEF FindMessage, Call
  <2>2. QED
    BY <1>5, <1>7, <2>1 DEF FindMessage
<1>8. CASE ErrorPanics(t)
  BY <1>5, <1>8 DEF ErrorPanics
<1>9. CASE LimitMessages(t)
  <2>1. call'[t].node = call[t].node
    BY <1>9 DEF LimitMessages, Call
  <2>2. QED
    BY <1>5, <1>9, <2>1 DEF LimitMessages
<1>10. CASE FindAgain(t)
  <2>1. call'[t].node = call[t].node
    BY <1>10 DEF FindAgain, Call
  <2>2. QED
    BY <1>5, <1>10, <2>1 DEF FindAgain
<1>11. CASE AddChild(t)
  <2>1. call'[t].node = call[t].node
    BY <1>11 DEF AddChild, Call
  <2>2. QED
    BY <1>5, <1>11, <2>1 DEF AddChild, Allocate
<1>12. QED
  BY <1>1, <1>2, <1>3, <1>4, <1>6, <1>7, <1>8, <1>9, <1>10, <1>11 DEF RecordError, IncrementError
-------------------------------------------------------------------------------
(* The part of the invariant that leads to what a report is sure to contain.    *)
Reports == Holding /\ FoundIsLive /\ Retirement /\ Counted /\ Sending /\ FoundAreReported

LEMMA NumberFacts ==
    ASSUME Inv
    PROVE  /\ allocated \in Nat /\ LiveGraphs \subseteq NodeIds
           /\ Retired \subseteq Nat /\ outgoing \subseteq NodeIds
           /\ measurement \in [NodeIds -> Nat] /\ found \in [NodeIds -> Nat]
           /\ current.node \in NodeIds \cup {NoNode} /\ current.value \in Nat
           /\ \A r \in reported : r.node \in NodeIds /\ r.value \in Nat /\ r.breakdown \in Nat
<1> USE DEF Inv, Typed, TypeOK
<1>1. allocated \in Nat /\ LiveGraphs \subseteq NodeIds
  BY DEF LiveGraphs
<1>2. \A r \in reported : r.node \in NodeIds /\ r.value \in Nat /\ r.breakdown \in Nat
  OBVIOUS
<1>3. current.node \in NodeIds \cup {NoNode} /\ current.value \in Nat
  OBVIOUS
<1>4. Retired \subseteq Nat
  <2>1. /\ outgoing \subseteq NodeIds /\ NodeIds \subseteq Nat /\ NoNode \in Nat
        /\ current.node \in NodeIds \cup {NoNode} /\ \A r \in reported : r.node \in NodeIds
    BY <1>2, <1>3, ConstantFacts DEF NoNode
  <2>2. QED
    BY ONLY <2>1 DEF Retired
<1>5. QED
  BY <1>1, <1>2, <1>3, <1>4

LEMMA RecorderKeepsReports ==
    ASSUME Inv, NEW t \in Recorders, RecordError(t)
    PROVE  Reports'
<1>1. Entering(t) /\ Mapping /\ Counting
  BY RecorderEffect
<1>2. \A u \in Recorders : u # t => pc'[u] = pc[u] /\ call'[u] = call[u]
  BY OthersWait DEF Inv
<1>3. UNCHANGED <<rpc, outgoing, current, reported>> /\ Retired' = Retired
  <2>1. UNCHANGED <<report, reported>>
    BY RecorderKeepsTrees DEF Inv
  <2>2. QED
    BY <2>1 DEF report, Retired
<1>4. LiveGraphs \subseteq LiveGraphs'
  BY <1>1 DEF Mapping, LiveGraphs
<1>5. Holding'
  BY <1>1, <1>2 DEF Entering, Inv, Holding
<1>6. FoundIsLive'
  BY <1>1, <1>2, <1>4 DEF Entering, Inv, FoundIsLive
<1>7. Retirement'
  <2>1. allocated' >= allocated /\ \A n \in Retired : n \in Nat /\ n <= allocated
    BY <1>1, NumberFacts DEF Mapping, Inv, Retirement
  <2>2. LiveGraphs' = LiveGraphs \/ (allocated' = allocated + 1 /\ LiveGraphs' \subseteq LiveGraphs \cup {allocated + 1})
    BY <1>1 DEF Mapping, LiveGraphs
  <2>3. \A n \in LiveGraphs' : n <= allocated' /\ n \notin Retired
    <3>1. /\ \A n \in LiveGraphs : n \in Nat /\ n <= allocated /\ n \notin Retired
          /\ allocated \in Nat /\ allocated' \in Nat
      <4>1. \A n \in LiveGraphs : n <= allocated /\ n \notin Retired
        BY DEF Inv, Retirement
      <4>2. LiveGraphs \subseteq NodeIds /\ NodeIds \subseteq Nat /\ allocated \in Nat
        BY NumberFacts, ConstantFacts
      <4>3. allocated' \in {allocated, allocated + 1}
        BY <1>1 DEF Mapping
      <4>4. QED
        BY ONLY <4>1, <4>2, <4>3
    <3>2. \A n \in LiveGraphs : n <= allocated' /\ n \notin Retired
      BY <2>1, <3>1
    <3>3. allocated + 1 \notin Retired
      BY <2>1, <3>1
    <3>4. CASE LiveGraphs' = LiveGraphs
      BY <3>2, <3>4
    <3>5. CASE allocated' = allocated + 1 /\ LiveGraphs' \subseteq LiveGraphs \cup {allocated + 1}
      BY <3>1, <3>2, <3>3, <3>5
    <3>6. QED
      BY <2>2, <3>4, <3>5
  <2>4. \A n \in Retired : n <= allocated'
    BY <2>1, NumberFacts, <1>1 DEF Mapping
  <2>5. QED
    BY <1>3, <2>3, <2>4 DEF Inv, Retirement
<1> DEFINE Grown(n) ==
        /\ measurement'[n] \in Nat /\ found'[n] \in Nat /\ measurement[n] <= measurement'[n]
        /\ found'[n] <= measurement'[n]
        /\ n \in Retired => found'[n] = found[n]
<1>8. \A n \in NodeIds : Grown(n)
  <2>1. \A n \in NodeIds : measurement[n] \in Nat /\ found[n] \in Nat /\ found[n] <= measurement[n]
    BY NumberFacts DEF Inv, Counted
  <2>2. CASE UNCHANGED <<measurement, found>>
    BY <2>1, <2>2
  <2>3. ASSUME NEW n \in NodeIds, measurement' = [measurement EXCEPT ![n] = @ + 1],
               found' = found \/ (n \in LiveGraphs /\ found' = [found EXCEPT ![n] = @ + 1])
        PROVE  \A m \in NodeIds : Grown(m)
    BY <2>1, <2>3, NumberFacts DEF Inv, Retirement
  <2>4. QED
    BY <1>1, <2>2, <2>3 DEF Counting
<1>9. Counted'
  BY <1>8 DEF Counted
<1>10. Sending'
  <2>1. ASSUME rpc \in {"size", "send"}
        PROVE  found'[current.node] <= current.value /\ current.value <= measurement'[current.node]
    <3>1. /\ current.node \in NodeIds /\ current.node \in Retired /\ current.value \in Nat
          /\ found[current.node] <= current.value /\ current.value <= measurement[current.node]
          /\ measurement[current.node] \in Nat
      BY <2>1, NumberFacts DEF Inv, Retirement, Retired, Sending
    <3>2. QED
      BY <1>8, <3>1
  <2>2. QED
    BY <1>3, <2>1 DEF Sending
<1>11. FoundAreReported'
  <2>1. ASSUME NEW r \in reported
        PROVE  found'[r.node] <= r.value /\ r.value <= r.breakdown /\ r.breakdown <= measurement'[r.node]
    <3>1. /\ r.node \in NodeIds /\ r.node \in Retired /\ r.breakdown \in Nat
          /\ found[r.node] <= r.value /\ r.value <= r.breakdown /\ r.breakdown <= measurement[r.node]
          /\ measurement[r.node] \in Nat
      BY NumberFacts DEF Inv, Retired, FoundAreReported
    <3>2. QED
      BY <1>8, <3>1
  <2>2. QED
    BY <1>3, <2>1 DEF FoundAreReported
<1>12. QED
  BY <1>5, <1>6, <1>7, <1>9, <1>10, <1>11 DEF Reports

LEMMA ReportKeepsReports ==
    ASSUME Inv, Report
    PROVE  Reports'
<1>1. UNCHANGED <<readers, measurement, found, allocated, pc, call>>
  BY ReportTyped DEF lock, tree, threads
<1>2. Holding' /\ Counted'
  BY <1>1 DEF Inv, Holding, Counted
<1>3. CASE Swap
  <2>1. /\ outgoing' = LiveGraphs /\ errorGraphs' = [g \in Groups |-> NoNode]
        /\ UNCHANGED <<current, reported>> /\ rpc' \in {"idle", "measure"} /\ readers = {}
    BY <1>3 DEF Swap, LockFree, history
  <2>2. LiveGraphs' = {} /\ Retired' = LiveGraphs \cup {current.node} \cup {r.node : r \in reported}
    BY <2>1 DEF LiveGraphs, Retired
  <2>3. FoundIsLive'
    BY <1>1, <2>1 DEF Inv, Holding, FoundIsLive, Inside
  <2>4. Retirement'
    BY <1>1, <2>1, <2>2 DEF Inv, Retirement, Retired
  <2>5. Sending' /\ FoundAreReported'
    BY <1>1, <2>1 DEF Inv, Sending, FoundAreReported
  <2>6. QED
    BY <1>2, <2>3, <2>4, <2>5 DEF Reports
<1>4. CASE ~Swap
  <2>1. errorGraphs' = errorGraphs /\ LiveGraphs' = LiveGraphs
    BY <1>4 DEF Report, Measure, SizeChildren, Send, SendFails, LiveGraphs
  <2>2. FoundIsLive'
    BY <1>1, <2>1 DEF Inv, FoundIsLive
  <2>3. ASSUME NEW n \in NodeIds, Measure(n) PROVE Retirement' /\ Sending' /\ FoundAreReported'
    <3>1. /\ n \in outgoing /\ outgoing' = outgoing \ {n} /\ rpc' = "size" /\ reported' = reported
          /\ current'.node = n /\ current'.value = measurement[n]
      BY <2>3 DEF Measure, history, Inv, Typed, TypeOK
    <3>2. Retired' \subseteq Retired
      BY <3>1 DEF Retired
    <3>3. Retirement'
      BY <1>1, <2>1, <3>1, <3>2 DEF Inv, Retirement
    <3>4. Sending'
      BY <1>1, <3>1, NumberFacts DEF Inv, Counted, Sending
    <3>5. FoundAreReported'
      BY <1>1, <3>1 DEF Inv, FoundAreReported
    <3>6. QED
      BY <3>3, <3>4, <3>5
  <2>4. CASE SizeChildren
    <3>1. /\ rpc = "size" /\ rpc' = "send" /\ UNCHANGED <<outgoing, reported>>
          /\ current'.node = current.node /\ current'.value = current.value
      BY <2>4 DEF SizeChildren, history, Inv, Typed, TypeOK
    <3>2. Retirement' /\ Sending' /\ FoundAreReported'
      BY <1>1, <2>1, <3>1 DEF Inv, Retirement, Retired, Sending, FoundAreReported
    <3>3. QED
      BY <1>2, <2>2, <3>2 DEF Reports
  <2>5. CASE Send
    <3> DEFINE r == [node |-> current.node, value |-> current.value,
                     breakdown |-> measurement[current.node]]
    <3>1. /\ rpc = "send" /\ reported' = reported \cup {r} /\ rpc' \in {"idle", "measure"}
          /\ UNCHANGED <<outgoing, current>>
      BY <2>5 DEF Send
    <3>2. r.node = current.node /\ r.value = current.value /\ r.breakdown = measurement[current.node]
      OBVIOUS
    <3> HIDE DEF r
    <3>3. Retired' = Retired
      BY <3>1, <3>2 DEF Retired
    <3>4. Retirement'
      BY <1>1, <2>1, <3>1, <3>3 DEF Inv, Retirement
    <3>5. FoundAreReported'
      <4>1. /\ found[r.node] <= r.value /\ r.value <= r.breakdown /\ r.breakdown <= measurement[r.node]
        BY <3>1, <3>2, NumberFacts DEF Inv, Sending, Retirement
      <4>2. QED
        BY <1>1, <3>1, <4>1 DEF Inv, FoundAreReported
    <3>6. Sending'
      BY <3>1 DEF Sending
    <3>7. QED
      BY <1>2, <2>2, <3>4, <3>5, <3>6 DEF Reports
  <2>6. CASE SendFails
    <3>1. rpc' \in {"dead", "crashed"} /\ UNCHANGED <<outgoing, current, reported>>
      BY <2>6 DEF SendFails, history
    <3>2. Retirement' /\ Sending' /\ FoundAreReported'
      BY <1>1, <2>1, <3>1 DEF Inv, Retirement, Retired, Sending, FoundAreReported
    <3>3. QED
      BY <1>2, <2>2, <3>2 DEF Reports
  <2>7. QED
    BY <1>2, <1>4, <2>2, <2>3, <2>4, <2>5, <2>6 DEF Report, Reports
<1>5. QED
  BY <1>3, <1>4
-------------------------------------------------------------------------------
(* A set of goroutines is no larger than that of all of them. *)
LEMMA SubsetCard ==
    ASSUME NEW T \in SUBSET Recorders
    PROVE  /\ IsFiniteSet(T) /\ Cardinality(T) \in Nat /\ Cardinality(Recorders) \in Nat
           /\ Cardinality(T) <= Cardinality(Recorders)
BY ErrorAssumption, FS_Subset, FS_CardinalityType

(* The room below one node, and the room that is left there. *)
RoomAt(n) ==
    /\ IsFiniteSet(Children(n))
    /\ Cardinality(Kept(n)) + Cardinality(Pending(n)) <= MaxMessages + Cardinality(Recorders) - 1

LEMMA RoomNumbers ==
    ASSUME NEW n \in NodeIds, IsFiniteSet(Children(n))
    PROVE  /\ IsFiniteSet(Kept(n)) /\ Cardinality(Kept(n)) \in Nat
           /\ Cardinality(Kept(n)) <= Cardinality(Children(n)) /\ Cardinality(Children(n)) \in Nat
           /\ IsFiniteSet(Pending(n)) /\ Cardinality(Pending(n)) \in Nat
           /\ Cardinality(Pending(n)) <= Cardinality(Recorders) /\ Cardinality(Recorders) \in Nat
           /\ MaxMessages \in Nat \ {0}
<1>1. Kept(n) \subseteq Children(n) /\ Pending(n) \in SUBSET Recorders
  BY DEF Kept, Pending
<1>2. QED
  BY <1>1, SubsetCard, FS_Subset, FS_CardinalityType, ErrorAssumption

(* Nothing is added below a node and no goroutine gets ready to: there is room  *)
(* as before.                                                                    *)
LEMMA RoomFrame ==
    ASSUME NEW n \in NodeIds, RoomAt(n), children'[n] = children[n], Pending(n)' \subseteq Pending(n)
    PROVE  RoomAt(n)'
<1>1. Children(n)' = Children(n) /\ Kept(n)' = Kept(n)
  BY DEF Children, Kept
<1>2. /\ Cardinality(Kept(n)) \in Nat /\ IsFiniteSet(Pending(n))
      /\ Cardinality(Pending(n)) \in Nat /\ Cardinality(Recorders) \in Nat /\ MaxMessages \in Nat
  BY RoomNumbers DEF RoomAt
<1>3. Cardinality(Pending(n)') <= Cardinality(Pending(n)) /\ Cardinality(Pending(n)') \in Nat
  BY <1>2, FS_Subset, FS_CardinalityType
<1>4. QED
  BY <1>1, <1>2, <1>3 DEF RoomAt

(* Steps that leave the children alone and let no goroutine get ready to add a  *)
(* message.                                                                      *)
LEMMA NothingAdded ==
    ASSUME Inv, NEW t \in Recorders, children' = children,
           \A u \in Recorders : u # t => pc'[u] = pc[u] /\ call'[u] = call[u],
           pc'[t] \in {"findAgain", "add"} /\ call'[t].target \in Messages =>
               /\ pc[t] \in {"findAgain", "add"}
               /\ call'[t].node = call[t].node /\ call'[t].target = call[t].target
    PROVE  \A n \in NodeIds : RoomAt(n)'
<1> TAKE n \in NodeIds
<1>1. Pending(n)' \subseteq Pending(n)
  BY DEF Pending
<1>2. RoomAt(n)
  BY DEF Inv, Room, RoomAt
<1>3. QED
  BY <1>1, <1>2, RoomFrame

(* The first part of Room: below a frame that is not the last there is a frame. *)
LEMMA FramesAreNoMessages ==
    ASSUME Inv, NEW t \in Recorders, RecordError(t)
    PROVE  pc'[t] = "find" /\ ~AtMessage(t)' => call'[t].target \notin Messages
<1>1. CASE Increment(t)
  <2>1. CASE Done(t)
    BY <1>1, <2>1 DEF Increment, Goto, Inv, Typed, TypeOK
  <2>2. CASE ~Done(t)
    <3> DEFINE target == IF AtMessage(t) THEN call[t].message ELSE Frames[t][call[t].at + 1]
    <3>1. call[t] \in Call /\ call[t].at \in Nat /\ Len(Frames[t]) \in Nat
      BY <1>1, ConstantFacts DEF Increment, Inv, Typed, TypeOK, Call
    <3>2. call'[t] = [call[t] EXCEPT !.node = call[t].child, !.target = target]
      BY <1>1, <2>2 DEF Increment, Inv, Typed, TypeOK
    <3>3. call'[t].at = call[t].at /\ call'[t].target = target
      BY <3>1, <3>2 DEF Call
    <3>4. ~AtMessage(t) => call[t].at + 1 \in 1..Len(Frames[t])
      BY <2>2, <3>1 DEF AtMessage, Done
    <3>5. QED
      BY <3>3, <3>4, ConstantFacts DEF AtMessage
  <2>3. QED
    BY <2>1, <2>2
<1>2. CASE ~Increment(t)
  <2>1. DOMAIN pc = Recorders
    BY DEF Inv, Typed, TypeOK
  <2>2. ASSUME NEW g \in Groups, NEW m \in Messages, Begin(t, g, m) PROVE pc'[t] # "find"
    BY <2>1, <2>2 DEF Begin, Goto
  <2>3. pc'[t] # "find"
    BY <1>2, <2>1, <2>2 DEF RecordError, IncrementError, Create, Relock, FindFrame, FindMessage,
       ErrorPanics, LimitMessages, FindAgain, AddChild, Goto
  <2>4. QED
    BY <2>3
<1>3. QED
  BY <1>1, <1>2

(* AddChild: the goroutine no longer waits to add and the message is there. *)
LEMMA AddKeepsRoom ==
    ASSUME Inv, NEW t \in Recorders, AddChild(t)
    PROVE  \A n \in NodeIds : RoomAt(n)'
<1> DEFINE node == call[t].node
           s == call[t].target
<1>1. /\ pc[t] = "add" /\ node \in NodeIds /\ s \in Names /\ allocated + 1 # NoNode
      /\ children \in [NodeIds -> [Names -> NodeIds \cup {NoNode}]]
      /\ children' = [children EXCEPT ![node][s] = allocated + 1]
      /\ pc' = [pc EXCEPT ![t] = "increment"] /\ pc \in [Recorders -> Labels]
  BY ConstantFacts DEF AddChild, Allocate, Goto, Inv, Typed, TypeOK, Searching, Call
<1>2. \A u \in Recorders : u # t => pc'[u] = pc[u] /\ call'[u] = call[u]
  BY OthersWait DEF Inv, RecordError, IncrementError
<1> TAKE n \in NodeIds
<1>3. RoomAt(n)
  BY DEF Inv, Room, RoomAt
<1>4. Pending(n)' = Pending(n) \ {t}
  BY <1>1, <1>2 DEF Pending
<1>5. CASE n # node
  <2>1. children'[n] = children[n]
    BY <1>1, <1>5
  <2>2. QED
    BY <1>3, <1>4, <2>1, RoomFrame
<1>6. CASE n = node
  <2>1. Children(n)' = Children(n) \cup {s}
    <3>1. children'[n] = [children[n] EXCEPT ![s] = allocated + 1]
      BY <1>1, <1>6
    <3>2. children[n] \in [Names -> NodeIds \cup {NoNode}]
      BY <1>1
    <3>3. QED
      BY <1>1, <3>1, <3>2 DEF Children
  <2>2. IsFiniteSet(Children(n)')
    BY <1>3, <2>1, FS_AddElement DEF RoomAt
  <2>3. /\ IsFiniteSet(Kept(n)) /\ Cardinality(Kept(n)) \in Nat
        /\ IsFiniteSet(Pending(n)) /\ Cardinality(Pending(n)) \in Nat
        /\ Cardinality(Recorders) \in Nat /\ MaxMessages \in Nat
        /\ Cardinality(Kept(n)) + Cardinality(Pending(n)) <= MaxMessages + Cardinality(Recorders) - 1
    BY <1>3, RoomNumbers DEF RoomAt
  <2>4. CASE s \in Messages
    <3>1. t \in Pending(n)
      BY <1>1, <1>6, <2>4 DEF Pending
    <3>2. Cardinality(Pending(n)') = Cardinality(Pending(n)) - 1
      BY <1>4, <2>3, <3>1, FS_RemoveElement
    <3>3. Kept(n)' = Kept(n) \cup {s}
      BY <2>1, <2>4 DEF Kept
    <3>4. Cardinality(Kept(n)') \in {Cardinality(Kept(n)), Cardinality(Kept(n)) + 1}
      BY <2>3, <3>3, FS_AddElement
    <3>5. QED
      BY <2>2, <2>3, <3>2, <3>4 DEF RoomAt
  <2>5. CASE s \notin Messages
    <3>1. Kept(n)' = Kept(n)
      BY <2>1, <2>5 DEF Kept
    <3>2. t \notin Pending(n)
      BY <2>5 DEF Pending
    <3>3. Pending(n)' = Pending(n)
      BY <1>4, <3>2
    <3>4. QED
      BY <2>2, <2>3, <3>1, <3>3 DEF RoomAt
  <2>6. QED
    BY <2>4, <2>5
<1>7. QED
  BY <1>5, <1>6

(* LimitMessages: who keeps its message saw fewer children than the limit. *)
LEMMA LimitKeepsRoom ==
    ASSUME Inv, NEW t \in Recorders, LimitMessages(t)
    PROVE  \A n \in NodeIds : RoomAt(n)'
<1> DEFINE node == call[t].node
<1>1. /\ pc[t] = "limit" /\ node \in NodeIds /\ call[t] \in Call /\ children' = children
      /\ call' = [call EXCEPT ![t].target = IF Cardinality(Children(node)) < MaxMessages THEN @ ELSE Other]
      /\ DOMAIN call = Recorders
  BY DEF LimitMessages, Inv, Typed, TypeOK, Searching, tree
<1>2. \A u \in Recorders : u # t => pc'[u] = pc[u] /\ call'[u] = call[u]
  BY OthersWait DEF Inv, RecordError, IncrementError
<1>3. call'[t].node = node /\ call'[t].target =
          IF Cardinality(Children(node)) < MaxMessages THEN call[t].target ELSE Other
  BY <1>1 DEF Call
<1> TAKE n \in NodeIds
<1>4. RoomAt(n)
  BY DEF Inv, Room, RoomAt
<1>5. CASE n = node /\ Cardinality(Children(n)) < MaxMessages
  <2>1. Children(n)' = Children(n) /\ Kept(n)' = Kept(n)
    BY <1>1 DEF Children, Kept
  <2>2. Pending(n)' \in SUBSET Recorders
    BY DEF Pending
  <2>3. /\ Cardinality(Pending(n)') \in Nat /\ Cardinality(Recorders) \in Nat
        /\ Cardinality(Pending(n)') <= Cardinality(Recorders)
    BY <2>2, SubsetCard
  <2>4. /\ Cardinality(Kept(n)) \in Nat /\ Cardinality(Children(n)) \in Nat /\ MaxMessages \in Nat
        /\ Cardinality(Kept(n)) <= Cardinality(Children(n))
    BY <1>4, RoomNumbers DEF RoomAt
  <2>5. QED
    BY <1>4, <1>5, <2>1, <2>3, <2>4 DEF RoomAt
<1>6. CASE n # node \/ ~(Cardinality(Children(n)) < MaxMessages)
  <2>1. Pending(n)' \subseteq Pending(n)
    BY <1>2, <1>3, <1>6, ConstantFacts DEF Pending
  <2>2. QED
    BY <1>1, <1>4, <2>1, RoomFrame
<1>7. QED
  BY <1>5, <1>6

LEMMA RecorderKeepsRoom ==
    ASSUME Inv, NEW t \in Recorders, RecordError(t)
    PROVE  Room'
<1>1. \A u \in Recorders : u # t => pc'[u] = pc[u] /\ call'[u] = call[u]
  BY OthersWait DEF Inv
<1>2. \A u \in Recorders : pc'[u] = "find" /\ ~AtMessage(u)' => call'[u].target \notin Messages
  <2>1. ASSUME NEW u \in Recorders, u # t
        PROVE  pc'[u] = "find" /\ ~AtMessage(u)' => call'[u].target \notin Messages
    BY <1>1, <2>1 DEF Inv, Room, AtMessage
  <2>2. QED
    BY <2>1, FramesAreNoMessages
<1>3. /\ pc \in [Recorders -> Labels] /\ DOMAIN call = Recorders
      /\ pc[t] # "idle" => call[t] \in Call
  BY DEF Inv, Typed, TypeOK
<1>4. \A n \in NodeIds : RoomAt(n)'
  <2> USE <1>1, <1>3, NothingAdded DEF Goto, tree
  <2>1. ASSUME NEW g \in Groups, NEW m \in Messages, Begin(t, g, m)
        PROVE  \A n \in NodeIds : RoomAt(n)'
    <3>1. children' = children /\ pc'[t] \in {"increment", "create"}
      BY <2>1 DEF Begin
    <3>2. QED
      BY <3>1
  <2>2. CASE Create(t)
    <3>1. children' = children /\ pc'[t] = "relock"
      BY <2>2 DEF Create
    <3>2. QED
      BY <3>1
  <2>3. CASE Relock(t)
    <3>1. children' = children /\ pc'[t] = "increment"
      BY <2>3 DEF Relock
    <3>2. QED
      BY <3>1
  <2>4. CASE Increment(t)
    <3>1. children' = children /\ pc'[t] \in {"idle", "find"}
      BY <2>4 DEF Increment
    <3>2. QED
      BY <3>1
  <2>5. CASE FindFrame(t)
    <3>1. children' = children /\ pc'[t] \in {"increment", "add"} /\ call[t].target \notin Messages
      BY <2>5 DEF FindFrame, Inv, Room
    <3>2. call'[t].target = call[t].target
      BY <2>5 DEF FindFrame, Call
    <3>3. QED
      BY <3>1, <3>2
  <2>6. CASE FindMessage(t)
    <3>1. children' = children /\ pc'[t] \in {"increment", "limit"}
      BY <2>6 DEF FindMessage
    <3>2. QED
      BY <3>1
  <2>7. CASE ErrorPanics(t)
    <3>1. children' = children /\ pc'[t] = "idle"
      BY <2>7 DEF ErrorPanics
    <3>2. QED
      BY <3>1
  <2>8. CASE LimitMessages(t)
    BY <2>8, LimitKeepsRoom
  <2>9. CASE FindAgain(t)
    <3>1. children' = children /\ pc[t] = "findAgain"
      BY <2>9 DEF FindAgain
    <3>2. call'[t].node = call[t].node /\ call'[t].target = call[t].target
      BY <2>9 DEF FindAgain, Call
    <3>3. QED
      BY <3>1, <3>2
  <2>10. CASE AddChild(t)
    BY <2>10, AddKeepsRoom
  <2>11. QED
    BY <2>1, <2>2, <2>3, <2>4, <2>5, <2>6, <2>7, <2>8, <2>9, <2>10 DEF RecordError, IncrementError
<1>5. QED
  BY <1>2, <1>4 DEF Room, RoomAt
-------------------------------------------------------------------------------
LEMMA InitInv ==
    ASSUME Init
    PROVE  Inv
<1> USE ConstantFacts, ErrorAssumption DEF Init
<1>1. TypeOK /\ Typed
  BY DEF TypeOK, Typed, Labels, ReportLabels, IncrementNeedsNode, Searching
<1>2. Holding /\ FoundIsLive /\ Counted /\ Sending /\ FoundAreReported
  BY DEF Holding, FoundIsLive, Counted, Sending, FoundAreReported, Inside, Searching
<1>3. Retirement
  <2>1. LiveGraphs = {} /\ Retired = {0} /\ allocated = 0
    BY DEF LiveGraphs, Retired, NoNode
  <2>2. QED
    BY <2>1 DEF Retirement
<1>4. Room
  <2>1. \A n \in NodeIds : Children(n) = {} /\ Kept(n) = {} /\ Pending(n) = {}
    BY DEF Children, Kept, Pending
  <2>2. Cardinality(Recorders) \in Nat \ {0} /\ MaxMessages \in Nat
    BY SubsetCard, FS_EmptySet
  <2>3. IsFiniteSet({}) /\ Cardinality({}) = 0
    BY FS_EmptySet
  <2>4. ASSUME NEW n \in NodeIds PROVE RoomAt(n)
    <3>1. Children(n) = {} /\ Kept(n) = {} /\ Pending(n) = {}
      BY <2>1, <2>4
    <3>2. IsFiniteSet(Children(n)) /\ Cardinality(Kept(n)) = 0 /\ Cardinality(Pending(n)) = 0
      BY ONLY <2>3, <3>1
    <3>3. 0 + 0 <= MaxMessages + Cardinality(Recorders) - 1
      BY ONLY <2>2
    <3>4. QED
      BY <3>2, <3>3 DEF RoomAt
  <2>5. \A t \in Recorders : pc[t] # "find"
    OBVIOUS
  <2>6. QED
    BY ONLY <2>4, <2>5 DEF Room, RoomAt
<1>5. QED
  BY <1>1, <1>2, <1>3, <1>4 DEF Inv

LEMMA StepInv ==
    ASSUME Inv, [Next]_vars
    PROVE  Inv'
<1>1. ASSUME NEW t \in Recorders, RecordError(t) PROVE Inv'
  <2>1. Typed'
    BY <1>1, RecorderTyped DEF Inv
  <2>2. QED
    BY <1>1, <2>1, RecorderKeepsReports, RecorderKeepsRoom DEF Reports, Inv
<1>2. CASE Report
  <2>1. UNCHANGED <<children, pc, call>>
    BY <1>2, ReportTyped DEF tree, threads
  <2>2. Room'
    BY <2>1 DEF Inv, Room, Children, Kept, Pending, AtMessage
  <2>3. QED
    BY <1>2, <2>2, ReportTyped, ReportKeepsReports DEF Reports, Inv
<1>3. CASE UNCHANGED vars
  <2>1. Typed' /\ Holding' /\ FoundIsLive'
    BY <1>3 DEF vars, tree, threads, report, history, lock, Inv, Typed, TypeOK, IncrementNeedsNode,
       Holding, FoundIsLive, LiveGraphs
  <2>2. Retirement' /\ Counted' /\ Sending' /\ FoundAreReported'
    BY <1>3 DEF vars, tree, threads, report, history, lock, Inv, Retirement, LiveGraphs, Retired,
       Counted, Sending, FoundAreReported
  <2>3. Room'
    BY <1>3 DEF vars, tree, threads, Inv, Room, Children, Kept, Pending, AtMessage
  <2>4. QED
    BY <2>1, <2>2, <2>3 DEF Inv
<1>4. QED
  BY <1>1, <1>2, <1>3 DEF Next, BoundReached

LEMMA Invariance == Spec => []Inv
<1>1. Init => Inv
  BY InitInv
<1>2. Inv /\ [Next]_vars => Inv'
  BY StepInv
<1>3. QED
  BY <1>1, <1>2, PTL DEF Spec

(* Every variable of error_reporter.go keeps its type; in particular increment   *)
(* is never called on a nil node.                                                *)
THEOREM TypeCorrect == Spec => []TypeOK
<1>1. Inv => TypeOK
  BY DEF Inv, Typed
<1>2. QED
  BY <1>1, Invariance, PTL

(* However many goroutines record errors at once, a frame keeps fewer than      *)
(* maxErrors messages and one for every goroutine (error_reporter.go:79).       *)
THEOREM MessagesStayBounded == Spec => []MessagesBounded
<1>1. Inv => MessagesBounded
  <2> SUFFICES ASSUME Inv, NEW n \in NodeIds
               PROVE  Cardinality(Kept(n)) <= MaxMessages + Cardinality(Recorders) - 1
    BY DEF MessagesBounded, Kept
  <2>1. RoomAt(n)
    BY DEF Inv, Room, RoomAt
  <2>2. QED
    BY <2>1, RoomNumbers DEF RoomAt
<1>2. QED
  BY <1>1, Invariance, PTL

(* An error whose call found its tree in the map is in the metric that tree is  *)
(* reported with (error_reporter.go:46): the lock keeps the report from taking  *)
(* the tree before the error is counted in it.                                  *)
THEOREM FoundIsReported == Spec => []FoundAreReported
<1>1. Inv => FoundAreReported
  BY DEF Inv
<1>2. QED
  BY <1>1, Invariance, PTL
-------------------------------------------------------------------------------
(* Sums of naturals over a finite set, which SumFunction takes as a fold: an      *)
(* element can be taken out of the sum, changed or added.  The inductions over     *)
(* the number of elements look at the smallest set without the property.          *)

(* A nonempty set of naturals has a least element. *)
LEMMA LeastNat ==
    ASSUME NEW B \in SUBSET Nat, B # {}
    PROVE  \E n \in B : \A m \in B : n <= m
<1>1. PICK n \in B : \A m \in B : ~ (<<m, n>> \in OpToRel(<, Nat))
  BY WFMin, NatLessThanWellFounded, Zenon
<1>2. \A m \in B : ~ (m < n)
  BY <1>1, Zenon DEF OpToRel
<1>3. QED
  BY <1>2

(* SumFunction takes the elements one by one; these are its partial sums. *)
First(s) == CHOOSE x \in s : TRUE
Solves(f, S, h) ==
    \A s \in S : h[s] = IF s = {} THEN 0 ELSE f[First(s)] + h[s \ {First(s)}]
Partial(f) ==
    CHOOSE h : h = [s \in SUBSET DOMAIN f |->
                       IF s = {} THEN 0 ELSE f[First(s)] + h[s \ {First(s)}]]

LEMMA Unfold == ASSUME NEW f PROVE SumFunction(f) = Partial(f)[DOMAIN f]
  BY DEF SumFunction, SumFunctionOnSet, FoldFunctionOnSet, MapThenFoldSet, Partial, First

LEMMA FirstIn == \A s : s # {} => First(s) \in s
  BY DEF First

(* The partial sums exist: those of at most n elements, for every n. *)
LEMMA SolutionExists ==
    ASSUME NEW S, IsFiniteSet(S), NEW f \in [S -> Nat]
    PROVE  \E h \in [SUBSET S -> Nat] : Solves(f, SUBSET S, h)
<1> DEFINE Small(n) == {s \in SUBSET S : Cardinality(s) <= n}
           Bad == {n \in Nat : ~ \E h \in [Small(n) -> Nat] : Solves(f, Small(n), h)}
<1>1. \A s \in SUBSET S : IsFiniteSet(s) /\ Cardinality(s) \in Nat /\ Cardinality(s) <= Cardinality(S)
  BY FS_Subset, FS_CardinalityType
<1>2. 0 \notin Bad
  <2>1. \A s \in Small(0) : s = {}
    BY <1>1, FS_EmptySet
  <2> DEFINE g == [s \in Small(0) |-> 0]
  <2>2. g \in [Small(0) -> Nat] /\ Solves(f, Small(0), g)
    BY <2>1 DEF Solves
  <2>3. QED
    BY <2>2
<1>3. ASSUME NEW n \in Nat, n # 0, n - 1 \notin Bad PROVE n \notin Bad
  <2>1. n - 1 \in Nat
    BY <1>3
  <2>2. PICK h \in [Small(n - 1) -> Nat] : Solves(f, Small(n - 1), h)
    BY <1>3, <2>1
  <2> DEFINE g == [s \in Small(n) |-> IF s = {} THEN 0 ELSE f[First(s)] + h[s \ {First(s)}]]
  <2>3. ASSUME NEW s \in Small(n), s # {}
        PROVE  First(s) \in S /\ s \ {First(s)} \in Small(n - 1)
    <3>1. First(s) \in s /\ IsFiniteSet(s)
      BY <1>1, <2>3, FirstIn
    <3>2. Cardinality(s \ {First(s)}) = Cardinality(s) - 1
      BY <3>1, FS_RemoveElement
    <3>3. Cardinality(s) <= n /\ Cardinality(s) \in Nat
      BY <1>1
    <3>4. QED
      BY <3>1, <3>2, <3>3
  <2>4. g \in [Small(n) -> Nat]
    BY <2>2, <2>3
  <2>5. ASSUME NEW s \in Small(n - 1) PROVE s \in Small(n) /\ g[s] = h[s]
    <3>1. s \in Small(n)
      BY <1>1, <2>1
    <3>2. h[s] = IF s = {} THEN 0 ELSE f[First(s)] + h[s \ {First(s)}]
      BY <2>2 DEF Solves
    <3>3. QED
      BY <3>1, <3>2
  <2>6. Solves(f, Small(n), g)
    BY <2>3, <2>5 DEF Solves
  <2>7. QED
    BY <2>4, <2>6
<1>4. Bad = {}
  <2> SUFFICES ASSUME Bad # {} PROVE FALSE
    OBVIOUS
  <2>1. PICK n \in Bad : \A m \in Bad : n <= m
    BY LeastNat
  <2>2. n \in Nat /\ n # 0
    BY <1>2
  <2>3. n - 1 \in Nat /\ ~ (n <= n - 1)
    BY <2>2
  <2>4. QED
    BY <1>3, <2>1, <2>2, <2>3
<1>5. Cardinality(S) \in Nat /\ Small(Cardinality(S)) = SUBSET S
  BY <1>1, FS_CardinalityType
<1>6. Cardinality(S) \notin Bad
  BY <1>4
<1> HIDE DEF Small
<1>7. \E h \in [Small(Cardinality(S)) -> Nat] : Solves(f, Small(Cardinality(S)), h)
  BY <1>5, <1>6
<1>8. QED
  BY <1>5, <1>7

LEMMA PartialSolves ==
    ASSUME NEW S, IsFiniteSet(S), NEW f \in [S -> Nat]
    PROVE  Partial(f) \in [SUBSET S -> Nat] /\ Solves(f, SUBSET S, Partial(f))
<1> DEFINE Eq(h) == h = [s \in SUBSET S |-> IF s = {} THEN 0 ELSE f[First(s)] + h[s \ {First(s)}]]
<1>1. PICK h \in [SUBSET S -> Nat] : Solves(f, SUBSET S, h)
  BY SolutionExists
<1>2. Eq(h)
  BY <1>1 DEF Solves
<1>3. Eq(Partial(f))
  BY <1>2 DEF Partial
<1>4. Solves(f, SUBSET S, Partial(f))
  BY <1>3, FirstIn DEF Solves
<1>5. ASSUME NEW k, Solves(f, SUBSET S, k) PROVE \A s \in SUBSET S : k[s] = h[s]
  <2> DEFINE Bad == {Cardinality(s) : s \in {u \in SUBSET S : k[u] # h[u]}}
  <2> SUFFICES ASSUME Bad # {} PROVE FALSE
    OBVIOUS
  <2>1. \A s \in SUBSET S : IsFiniteSet(s) /\ Cardinality(s) \in Nat
    BY FS_Subset, FS_CardinalityType
  <2>2. PICK n \in Bad : \A m \in Bad : n <= m
    <3>1. Bad \in SUBSET Nat
      BY <2>1
    <3> HIDE DEF Bad
    <3>2. QED
      BY <3>1, LeastNat
  <2>3. PICK s \in SUBSET S : k[s] # h[s] /\ n = Cardinality(s)
    OBVIOUS
  <2>4. s # {}
    BY <1>1, <1>5, <2>3 DEF Solves
  <2>5. First(s) \in s
    BY <2>4, FirstIn
  <2>6. Cardinality(s \ {First(s)}) = n - 1
    BY <2>1, <2>3, <2>5, FS_RemoveElement
  <2>7. s \ {First(s)} \in SUBSET S /\ n - 1 \notin Bad
    BY <2>1, <2>2, <2>3, <2>6
  <2>8. k[s \ {First(s)}] = h[s \ {First(s)}]
    BY <2>6, <2>7
  <2>9. QED
    BY <1>1, <1>5, <2>3, <2>4, <2>8 DEF Solves
<1>6. Partial(f) = h
  BY <1>3, <1>4, <1>5
<1>7. QED
  BY <1>4, <1>6

(* Any element may be taken out first. *)
LEMMA PartialRemove ==
    ASSUME NEW S, IsFiniteSet(S), NEW f \in [S -> Nat]
    PROVE  \A s \in SUBSET S : \A x \in s : Partial(f)[s] = f[x] + Partial(f)[s \ {x}]
<1> DEFINE h == Partial(f)
           Holds(s) == \A x \in s : h[s] = f[x] + h[s \ {x}]
           Bad == {Cardinality(s) : s \in {u \in SUBSET S : ~Holds(u)}}
<1>1. h \in [SUBSET S -> Nat] /\ Solves(f, SUBSET S, h)
  BY PartialSolves
<1>2. \A s \in SUBSET S : IsFiniteSet(s) /\ Cardinality(s) \in Nat
  BY FS_Subset, FS_CardinalityType
<1> HIDE DEF h
<1> SUFFICES ASSUME Bad # {} PROVE FALSE
  BY DEF h
<1>3. PICK n \in Bad : \A m \in Bad : n <= m
  <2>1. Bad \in SUBSET Nat
    BY <1>2
  <2> HIDE DEF Bad
  <2>2. QED
    BY <2>1, LeastNat
<1>4. PICK s \in SUBSET S : ~Holds(s) /\ n = Cardinality(s)
  OBVIOUS
<1>5. PICK x \in s : h[s] # f[x] + h[s \ {x}]
  BY <1>4
<1> DEFINE c == First(s)
<1>6. c \in s /\ h[s] = f[c] + h[s \ {c}]
  BY <1>1, FirstIn DEF Solves
<1>7. c # x
  BY <1>5, <1>6
<1>8. ASSUME NEW y \in s PROVE Holds(s \ {y})
  <2>1. Cardinality(s \ {y}) = n - 1 /\ n \in Nat
    BY <1>2, <1>4, FS_RemoveElement
  <2>2. n - 1 \notin Bad
    BY <1>3, <2>1
  <2>3. QED
    BY <2>1, <2>2
<1>9. h[s \ {c}] = f[x] + h[(s \ {c}) \ {x}] /\ h[s \ {x}] = f[c] + h[(s \ {x}) \ {c}]
  BY <1>6, <1>7, <1>8
<1>10. (s \ {c}) \ {x} = (s \ {x}) \ {c}
  OBVIOUS
<1>11. f[x] \in Nat /\ f[c] \in Nat /\ h[(s \ {x}) \ {c}] \in Nat
  BY <1>1, <1>6
<1>12. h[s] = f[x] + h[s \ {x}]
  <2> DEFINE r == h[(s \ {x}) \ {c}]
  <2>1. h[s] = f[c] + (f[x] + r) /\ h[s \ {x}] = f[c] + r
    BY <1>6, <1>9, <1>10
  <2>2. \A i, j, k \in Nat : i + (j + k) = j + (i + k)
    OBVIOUS
  <2> HIDE DEF r
  <2>3. QED
    BY <1>11, <2>1, <2>2 DEF r
<1>13. QED
  BY <1>5, <1>12

(* A partial sum looks at its own elements only. *)
LEMMA PartialRestrict ==
    ASSUME NEW S, IsFiniteSet(S), NEW f \in [S -> Nat], NEW T \in SUBSET S
    PROVE  \A s \in SUBSET T : Partial([y \in T |-> f[y]])[s] = Partial(f)[s]
<1> DEFINE g == [y \in T |-> f[y]]
           h == Partial(f)
           k == Partial(g)
           Bad == {Cardinality(s) : s \in {u \in SUBSET T : k[u] # h[u]}}
<1>1. IsFiniteSet(T) /\ g \in [T -> Nat]
  BY FS_Subset
<1>2. Solves(f, SUBSET S, h) /\ Solves(g, SUBSET T, k)
  BY <1>1, PartialSolves
<1>3. \A s \in SUBSET T : IsFiniteSet(s) /\ Cardinality(s) \in Nat
  BY <1>1, FS_Subset, FS_CardinalityType
<1> HIDE DEF h, k
<1> SUFFICES ASSUME Bad # {} PROVE FALSE
  BY DEF h, k
<1>4. PICK n \in Bad : \A m \in Bad : n <= m
  <2>1. Bad \in SUBSET Nat
    BY <1>3
  <2> HIDE DEF Bad
  <2>2. QED
    BY <2>1, LeastNat
<1>5. PICK s \in SUBSET T : k[s] # h[s] /\ n = Cardinality(s)
  OBVIOUS
<1>6. s # {} /\ First(s) \in s
  BY <1>2, <1>5, FirstIn DEF Solves
<1>7. Cardinality(s \ {First(s)}) = n - 1 /\ n \in Nat
  BY <1>3, <1>5, <1>6, FS_RemoveElement
<1>8. k[s \ {First(s)}] = h[s \ {First(s)}]
  BY <1>4, <1>7
<1>9. QED
  BY <1>2, <1>5, <1>6, <1>8 DEF Solves

(* The sum of a function of naturals, and of what is left without one element. *)
Without(f, x) == [y \in DOMAIN f \ {x} |-> f[y]]

LEMMA SumType ==
    ASSUME NEW S, IsFiniteSet(S), NEW f \in [S -> Nat]
    PROVE  SumFunction(f) \in Nat
<1>1. DOMAIN f = S /\ S \in SUBSET S
  OBVIOUS
<1>2. Partial(f) \in [SUBSET S -> Nat]
  BY PartialSolves
<1>3. Partial(f)[S] \in Nat
  BY <1>1, <1>2
<1>4. QED
  BY <1>1, <1>3, Unfold

LEMMA SumRemove ==
    ASSUME NEW S, IsFiniteSet(S), NEW f \in [S -> Nat], NEW x \in S
    PROVE  /\ SumFunction(f) = f[x] + SumFunction(Without(f, x))
           /\ SumFunction(Without(f, x)) \in Nat
<1> DEFINE T == S \ {x}
           g == [y \in T |-> f[y]]
<1>1. DOMAIN f = S /\ DOMAIN g = T /\ T \in SUBSET S /\ g \in [T -> Nat] /\ IsFiniteSet(T)
  BY FS_Subset
<1>2. SumFunction(f) = Partial(f)[S] /\ SumFunction(g) = Partial(g)[T]
  BY <1>1, Unfold
<1>3. Partial(g)[T] = Partial(f)[T]
  BY <1>1, PartialRestrict
<1>4. Partial(f)[S] = f[x] + Partial(f)[T]
  BY PartialRemove
<1>5. SumFunction(g) \in Nat
  BY <1>1, SumType
<1>6. Without(f, x) = g
  BY <1>1 DEF Without
<1>7. QED
  BY <1>2, <1>3, <1>4, <1>5, <1>6

LEMMA SumEmpty == ASSUME NEW f \in [{} -> Nat] PROVE SumFunction(f) = 0
<1>1. DOMAIN f = {} /\ IsFiniteSet({}) /\ {} \in SUBSET {}
  BY FS_EmptySet
<1>2. Partial(f)[{}] = 0
  BY <1>1, PartialSolves DEF Solves
<1>3. QED
  BY <1>1, <1>2, Unfold

(* Changing one element changes the sum by as much. *)
LEMMA SumChange ==
    ASSUME NEW S, IsFiniteSet(S), NEW f \in [S -> Nat], NEW g \in [S -> Nat], NEW x \in S,
           \A y \in S \ {x} : f[y] = g[y]
    PROVE  SumFunction(g) - g[x] = SumFunction(f) - f[x]
<1>1. Without(f, x) = Without(g, x)
  BY DEF Without
<1>2. SumFunction(f) = f[x] + SumFunction(Without(f, x))
  BY SumRemove
<1>3. SumFunction(g) = g[x] + SumFunction(Without(g, x))
  BY SumRemove
<1>4. SumFunction(Without(f, x)) \in Nat /\ f[x] \in Nat /\ g[x] \in Nat
  BY SumRemove
<1>5. QED
  BY <1>1, <1>2, <1>3, <1>4

(* A new element adds itself. *)
LEMMA SumAdd ==
    ASSUME NEW S, IsFiniteSet(S), NEW x, x \notin S, NEW f \in [S -> Nat],
           NEW g \in [S \cup {x} -> Nat], \A y \in S : f[y] = g[y]
    PROVE  SumFunction(g) = g[x] + SumFunction(f)
<1>1. IsFiniteSet(S \cup {x})
  BY FS_AddElement
<1>2. Without(g, x) = f
  BY DEF Without
<1>3. QED
  BY <1>1, <1>2, SumRemove
-------------------------------------------------------------------------------
(* Where a node is or is about to be: the tree's root, a child of a node, or what *)
(* a goroutine is about to increment, which it took from there.                   *)
Texts == Messages \cup {Other}
Parents == NodeIds \cup {NoNode}
Held(t, n, p, s) ==
    pc[t] \in {"relock", "increment"} /\ call[t].child = n /\ call[t].node = p /\ call[t].target = s
Place(n, p, s) ==
    \/ p = NoNode /\ s \in Groups /\ errorGraphs[s] = n
    \/ p \in NodeIds /\ children[p][s] = n
    \/ \E t \in Recorders : Held(t, n, p, s)

(* What a call looks for is a message exactly below the last frame, and a child  *)
(* it has found is in the tree unless another of the same name replaced it.      *)
Target(t) ==
    LET c == call[t]
        deep == c.at > Len(Frames[t])
    IN  /\ pc[t] \in {"create", "relock"} => c.node = NoNode /\ c.target = c.group
        /\ pc[t] \in {"create", "relock"} => c.at = 0
        /\ pc[t] = "increment" /\ c.node = NoNode => c.at = 0
        /\ pc[t] = "increment" /\ c.node # NoNode =>
               children[c.node][c.target] = c.child \/ c.node \in overwritten
        /\ pc[t] \in {"limit", "findAgain", "add"} \/ (pc[t] = "increment" /\ c.node # NoNode) =>
               (deep <=> c.target \in Texts)
        /\ pc[t] = "find" => c.at <= Len(Frames[t]) /\ (AtMessage(t) <=> c.target \in Texts)
        /\ pc[t] \in {"limit", "findAgain"} => c.target \in Texts
Targets == \A t \in Recorders : Target(t)

(* A node has one place, below an older node; the messages are the leaves.       *)
Busy(n) == Children(n) # {} \/ Below(n) # {} \/ abandoned[n] # 0
Unique ==
    \A n \in NodeIds : \A p, q \in Parents : \A r, s \in Names :
        Place(n, p, r) /\ Place(n, q, s) => p = q /\ r = s
Ordered ==
    \A n \in NodeIds : \A p \in Parents : \A s \in Names : Place(n, p, s) => p < n /\ n <= allocated
Leaves ==
    \A n \in NodeIds : \A p \in NodeIds : \A s \in Texts : Place(n, p, s) => ~Busy(n)
Fresh == \A n \in NodeIds : n > allocated => ~Busy(n) /\ measurement[n] = 0

(* The frames and roots, busy or not, have counted what is below them.           *)
Inner(n) == \E p \in Parents : \E s \in Names : Place(n, p, s) /\ (p = NoNode \/ s \notin Texts)
Total(n) == ChildrenSum(n) + Cardinality(Below(n)) + abandoned[n]
AddsUp(n) ==
    /\ Total(n) <= measurement[n]
    /\ n \notin overwritten /\ (Busy(n) \/ Inner(n)) => Total(n) = measurement[n]
Sums == \A n \in NodeIds : AddsUp(n)

Shape == Targets /\ Unique /\ Ordered /\ Leaves /\ Fresh
-------------------------------------------------------------------------------
(* The locals after each step of a call. *)
CallTypes(c) ==
    /\ c.group \in Groups /\ c.message \in Messages /\ c.target \in Names /\ c.at \in Nat
    /\ c.node \in Parents /\ c.child \in Parents

LEMMA Locals ==
    ASSUME Inv, NEW t \in Recorders, pc[t] # "idle"
    PROVE  call[t] \in Call /\ CallTypes(call[t]) /\ Len(Frames[t]) \in Nat
BY ConstantFacts DEF Inv, Typed, TypeOK, Call, CallTypes, Parents

LEMMA VariableFacts ==
    ASSUME Inv
    PROVE  /\ DOMAIN pc = Recorders /\ DOMAIN call = Recorders
           /\ children \in [NodeIds -> [Names -> Parents]]
           /\ measurement \in [NodeIds -> Nat] /\ abandoned \in [NodeIds -> Nat]
           /\ errorGraphs \in [Groups -> Parents] /\ allocated \in Nat
           /\ \A n \in NodeIds : IsFiniteSet(Children(n))
BY ErrorAssumption DEF Inv, Typed, TypeOK, Room, Parents

(* The fields a step leaves alone. *)
Stays(t) == call'[t].node = call[t].node /\ call'[t].target = call[t].target

LEMMA Begins ==
    ASSUME Inv, NEW t \in Recorders, NEW g \in Groups, NEW m \in Messages, Begin(t, g, m)
    PROVE  LET c == call'[t] IN
           /\ pc[t] = "idle"
           /\ c.node = NoNode /\ c.target = g /\ c.group = g /\ c.at = 0 /\ c.child = errorGraphs[g]
           /\ pc'[t] = IF errorGraphs[g] # NoNode THEN "increment" ELSE "create"
           /\ UNCHANGED <<errorGraphs, children, allocated, measurement, abandoned, overwritten>>
BY VariableFacts DEF Begin, Goto, tree, history

LEMMA Creates ==
    ASSUME Inv, NEW t \in Recorders, Create(t)
    PROVE  /\ pc[t] = "create" /\ pc'[t] = "relock" /\ Stays(t)
           /\ call'[t].group = call[t].group /\ call'[t].at = call[t].at
           /\ call'[t].child = errorGraphs'[call[t].group]
           /\ UNCHANGED <<children, measurement, abandoned, overwritten>>
           /\ \/ errorGraphs[call[t].group] # NoNode /\ UNCHANGED <<allocated, errorGraphs>>
              \/ /\ allocated' = allocated + 1 /\ allocated + 1 \in NodeIds
                 /\ errorGraphs' = [errorGraphs EXCEPT ![call[t].group] = allocated + 1]
<1>1. pc[t] = "create" /\ call[t] \in Call /\ call' = [call EXCEPT ![t] = [call[t] EXCEPT !.child = errorGraphs'[call[t].group]]]
  BY VariableFacts, Locals DEF Create
<1>2. Stays(t) /\ call'[t].group = call[t].group /\ call'[t].at = call[t].at
      /\ call'[t].child = errorGraphs'[call[t].group]
  BY <1>1, VariableFacts DEF Call, Stays
<1>3. QED
  BY <1>1, <1>2, VariableFacts DEF Create, Goto, Allocate, tree, lock, history

LEMMA Finds ==
    ASSUME Inv, NEW t \in Recorders, FindFrame(t) \/ FindMessage(t) \/ FindAgain(t)
    PROVE  LET below == children[call[t].node][call[t].target]
           IN  /\ pc[t] \in {"find", "findAgain"} /\ call[t].node \in NodeIds /\ Stays(t)
               /\ call'[t].child = below /\ below \in Parents
               /\ pc'[t] = "increment" <=> below # NoNode
               /\ pc'[t] \in {"increment", "add", "limit"}
               /\ pc'[t] = "limit" => AtMessage(t)
               /\ call'[t].at = IF pc[t] = "find" THEN call[t].at + 1 ELSE call[t].at
               /\ UNCHANGED <<errorGraphs, children, allocated, measurement, abandoned, overwritten>>
<1> DEFINE below == children[call[t].node][call[t].target]
<1>1. pc[t] \in {"find", "findAgain"} /\ call[t] \in Call /\ call[t].node \in NodeIds /\ below \in Parents
  BY VariableFacts, Locals DEF FindFrame, FindMessage, FindAgain, Inv, Typed, Searching, CallTypes
<1>2. UNCHANGED <<errorGraphs, children, allocated, measurement, abandoned, overwritten>>
  BY DEF FindFrame, FindMessage, FindAgain, tree, lock, history
<1>3. CASE FindAgain(t)
  <2>1. pc[t] = "findAgain" /\ call' = [call EXCEPT ![t] = [call[t] EXCEPT !.child = below]]
        /\ pc' = [pc EXCEPT ![t] = IF below # NoNode THEN "increment" ELSE "add"]
    BY <1>3, VariableFacts DEF FindAgain, Goto
  <2>2. call'[t].node = call[t].node /\ call'[t].target = call[t].target
        /\ call'[t].child = below /\ call'[t].at = call[t].at
    BY <1>1, <2>1, VariableFacts DEF Call
  <2>3. QED
    BY <1>1, <1>2, <2>1, <2>2, VariableFacts DEF Stays
<1>4. CASE FindFrame(t) \/ FindMessage(t)
  <2>1. pc[t] = "find" /\ call' = [call EXCEPT ![t] = [call[t] EXCEPT !.child = below, !.at = call[t].at + 1]]
    BY <1>4, VariableFacts DEF FindFrame, FindMessage
  <2>2. call'[t].node = call[t].node /\ call'[t].target = call[t].target
        /\ call'[t].child = below /\ call'[t].at = call[t].at + 1
    BY <1>1, <2>1, VariableFacts DEF Call
  <2>3. /\ pc'[t] = "increment" <=> below # NoNode
        /\ pc'[t] \in {"increment", "add", "limit"}
        /\ pc'[t] = "limit" => AtMessage(t)
    BY <1>4, VariableFacts DEF FindFrame, FindMessage, Goto
  <2>4. QED
    BY <1>1, <1>2, <2>1, <2>2, <2>3 DEF Stays
<1>5. QED
  BY <1>3, <1>4

LEMMA Limits ==
    ASSUME Inv, NEW t \in Recorders, LimitMessages(t)
    PROVE  /\ pc[t] = "limit" /\ pc'[t] = "findAgain"
           /\ call'[t].node = call[t].node /\ call'[t].at = call[t].at
           /\ call'[t].target \in {call[t].target, Other}
           /\ UNCHANGED <<errorGraphs, children, allocated, measurement, abandoned, overwritten>>
<1>1. pc[t] = "limit" /\ call[t] \in Call
  BY Locals DEF LimitMessages
<1>2. \E s \in {call[t].target, Other} : call' = [call EXCEPT ![t] = [call[t] EXCEPT !.target = s]]
  BY VariableFacts DEF LimitMessages
<1>3. call'[t].node = call[t].node /\ call'[t].at = call[t].at /\ call'[t].target \in {call[t].target, Other}
  BY <1>1, <1>2, VariableFacts DEF Call
<1>4. QED
  BY <1>1, <1>3, VariableFacts DEF LimitMessages, Goto, tree, lock, history

LEMMA Adds ==
    ASSUME Inv, NEW t \in Recorders, AddChild(t)
    PROVE  LET n == call[t].node
               s == call[t].target
           IN  /\ pc[t] = "add" /\ pc'[t] = "increment" /\ n \in NodeIds /\ s \in Names
               /\ Stays(t) /\ call'[t].child = allocated + 1 /\ call'[t].at = call[t].at
               /\ allocated + 1 \in NodeIds /\ allocated' = allocated + 1
               /\ children' = [children EXCEPT ![n][s] = allocated + 1]
               /\ overwritten' = IF children[n][s] # NoNode THEN overwritten \cup {n} ELSE overwritten
               /\ UNCHANGED <<errorGraphs, measurement, abandoned>>
<1>1. pc[t] = "add" /\ call[t] \in Call /\ call[t].node \in NodeIds /\ call[t].target \in Names
  BY Locals DEF AddChild, Inv, Typed, Searching, CallTypes
<1>2. call' = [call EXCEPT ![t] = [call[t] EXCEPT !.child = allocated + 1]]
  BY VariableFacts DEF AddChild
<1>3. Stays(t) /\ call'[t].child = allocated + 1 /\ call'[t].at = call[t].at
  BY <1>1, <1>2, VariableFacts DEF Call, Stays
<1>4. QED
  BY <1>1, <1>3, VariableFacts DEF AddChild, Goto, Allocate, lock

LEMMA Increments ==
    ASSUME Inv, NEW t \in Recorders, Increment(t)
    PROVE  LET n == call[t].child IN
           /\ pc[t] = "increment" /\ n \in NodeIds
           /\ measurement' = [measurement EXCEPT ![n] = @ + 1]
           /\ Done(t) => pc'[t] = "idle"
           /\ ~Done(t) => /\ pc'[t] = "find" /\ call'[t].node = n /\ call'[t].at = call[t].at
                          /\ AtMessage(t) => call'[t].target = call[t].message
                          /\ ~AtMessage(t) => call'[t].target = Frames[t][call[t].at + 1]
           /\ UNCHANGED <<errorGraphs, children, allocated, abandoned, overwritten>>
<1>1. pc[t] = "increment" /\ call[t] \in Call /\ call[t].child \in NodeIds
  BY Locals DEF Increment, Inv, Typed
<1>2. UNCHANGED <<errorGraphs, children, allocated, abandoned, overwritten>>
  BY DEF Increment, tree
<1> DEFINE target == IF AtMessage(t) THEN call[t].message ELSE Frames[t][call[t].at + 1]
<1>3. ~Done(t) => call' = [call EXCEPT ![t] = [call[t] EXCEPT !.node = call[t].child, !.target = target]]
  BY VariableFacts DEF Increment
<1>4. ~Done(t) => /\ call'[t].node = call[t].child /\ call'[t].at = call[t].at
                  /\ call'[t].target = target
  <2> DEFINE d == [call[t] EXCEPT !.node = call[t].child, !.target = target]
  <2> HIDE DEF target
  <2>1. d.node = call[t].child /\ d.at = call[t].at /\ d.target = target
    BY <1>1 DEF Call
  <2> HIDE DEF d
  <2>2. ~Done(t) => call'[t] = d
    BY <1>3, VariableFacts DEF d
  <2>3. QED
    BY <2>1, <2>2
<1>5. QED
  BY <1>1, <1>2, <1>4, VariableFacts DEF Increment, Goto

LEMMA Panics ==
    ASSUME Inv, NEW t \in Recorders, ErrorPanics(t)
    PROVE  /\ pc[t] = "find" /\ pc'[t] = "idle" /\ call[t].node \in NodeIds
           /\ abandoned' = [abandoned EXCEPT ![call[t].node] = @ + 1]
           /\ UNCHANGED <<errorGraphs, children, allocated, measurement, overwritten>>
BY VariableFacts DEF ErrorPanics, Goto, Inv, Typed, Searching, tree, history

LEMMA Relocks ==
    ASSUME Inv, NEW t \in Recorders, Relock(t)
    PROVE  /\ pc[t] = "relock" /\ pc'[t] = "increment" /\ call'[t] = call[t]
           /\ UNCHANGED <<errorGraphs, children, allocated, measurement, abandoned, overwritten>>
BY VariableFacts DEF Relock, Goto, tree, history
-------------------------------------------------------------------------------
LEMMA FramesAreNoTexts ==
    \A t \in Recorders : \A i \in 1..Len(Frames[t]) : Frames[t][i] \notin Texts
<1>1. \A t \in Recorders : \A i \in 1..Len(Frames[t]) : Frames[t][i] \in FrameNames
  BY DEF FrameNames
<1>2. QED
  BY <1>1, ErrorAssumption DEF Texts

(* Each step leaves the target of its own call and of the others as it should be. *)
LEMMA OwnTarget ==
    ASSUME Inv, Targets, NEW t \in Recorders, RecordError(t)
    PROVE  Target(t)'
<1>0. Target(t) /\ (pc[t] # "idle" => CallTypes(call[t]) /\ Len(Frames[t]) \in Nat)
  BY Locals DEF Targets
<1> USE <1>0, ConstantFacts DEF Target, AtMessage
<1>1. ASSUME NEW g \in Groups, NEW m \in Messages, Begin(t, g, m) PROVE Target(t)'
  BY <1>1, Begins
<1>2. CASE Create(t)
  BY <1>2, Creates DEF Stays
<1>3. CASE Relock(t)
  BY <1>3, Relocks
<1>4. CASE Increment(t)
  <2>1. pc[t] = "increment"
    BY <1>4, Increments
  <2>2. CASE Done(t)
    BY <1>4, <2>2, Increments
  <2>3. CASE ~Done(t)
    <3>1. call[t].at \in Nat /\ call[t].at <= Len(Frames[t]) /\ call[t].message \in Texts
      BY <2>1, <2>3 DEF Done, CallTypes, Texts
    <3>2. ~AtMessage(t) => Frames[t][call[t].at + 1] \notin Texts
      <4>1. ~AtMessage(t) => call[t].at + 1 \in 1..Len(Frames[t])
        BY <2>1, <3>1
      <4>2. QED
        BY <4>1, FramesAreNoTexts
    <3>3. pc'[t] = "find" /\ call'[t].at = call[t].at
      BY <1>4, <2>3, Increments
    <3>4. AtMessage(t) <=> call'[t].target \in Texts
      BY <1>4, <2>3, <3>1, <3>2, Increments
    <3>5. QED
      BY <3>1, <3>3, <3>4
  <2>4. QED
    BY <2>2, <2>3
<1>5. CASE FindFrame(t) \/ FindMessage(t) \/ FindAgain(t)
  <2>1. /\ pc[t] \in {"find", "findAgain"} /\ call[t].node \in NodeIds /\ Stays(t)
        /\ call'[t].child = children[call[t].node][call[t].target]
        /\ pc'[t] \in {"increment", "add", "limit"}
        /\ pc'[t] = "limit" => AtMessage(t)
        /\ call'[t].at = IF pc[t] = "find" THEN call[t].at + 1 ELSE call[t].at
        /\ UNCHANGED children
    BY <1>5, Finds
  <2>2. call[t].at \in Nat /\ Len(Frames[t]) \in Nat
    BY <2>1 DEF CallTypes
  <2>3. call'[t].at > Len(Frames[t]) <=> call'[t].target \in Texts
    BY <2>1, <2>2 DEF Stays
  <2>4. pc'[t] = "limit" => pc[t] = "find"
    BY <1>5, VariableFacts DEF FindFrame, FindMessage, FindAgain, Goto
  <2>5. pc'[t] = "limit" => call'[t].target \in Texts
    BY <2>1, <2>4 DEF Stays
  <2>6. QED
    BY <2>1, <2>3, <2>5 DEF Stays
<1>6. CASE ErrorPanics(t)
  BY <1>6, Panics
<1>7. CASE LimitMessages(t)
  BY <1>7, Limits DEF Texts
<1>8. CASE AddChild(t)
  <2> DEFINE n == call[t].node
             s == call[t].target
  <2>1. /\ n \in NodeIds /\ s \in Names /\ children' = [children EXCEPT ![n][s] = allocated + 1]
        /\ pc[t] = "add" /\ pc'[t] = "increment" /\ n # NoNode
        /\ call'[t].node = n /\ call'[t].target = s /\ call'[t].at = call[t].at
        /\ call'[t].child = allocated + 1
    BY <1>8, Adds DEF Stays
  <2>2. children'[n][s] = allocated + 1
    <3> HIDE DEF n, s
    <3>1. QED
      BY <2>1, VariableFacts
  <2>3. call[t].at > Len(Frames[t]) <=> s \in Texts
    BY <2>1
  <2>4. QED
    BY ONLY <2>1, <2>2, <2>3 DEF Target
<1>9. QED
  BY <1>1, <1>2, <1>3, <1>4, <1>5, <1>6, <1>7, <1>8 DEF RecordError, IncrementError

LEMMA KeepsTargets ==
    ASSUME Inv, Targets, NEW t \in Recorders, RecordError(t)
    PROVE  Targets'
<1>1. \A u \in Recorders : u # t => pc'[u] = pc[u] /\ call'[u] = call[u]
  BY OthersWait DEF Inv
<1>2. ASSUME NEW u \in Recorders, u # t PROVE Target(u)'
  <2>1. Target(u) /\ pc'[u] = pc[u] /\ call'[u] = call[u]
    BY <1>1, <1>2 DEF Targets
  <2>2. CASE AddChild(t)
    <3>1. pc[u] = "increment" /\ call[u].node # NoNode =>
              children'[call[u].node][call[u].target] = call[u].child \/ call[u].node \in overwritten'
      <4> SUFFICES ASSUME pc[u] = "increment", call[u].node # NoNode
                   PROVE  children'[call[u].node][call[u].target] = call[u].child \/ call[u].node \in overwritten'
        OBVIOUS
      <4> DEFINE n == call[t].node
                 s == call[t].target
                 m == call[u].node
                 r == call[u].target
      <4>1. m \in NodeIds /\ r \in Names /\ call[u].child \in NodeIds
        BY Locals DEF CallTypes, Parents, Inv, Typed
      <4>2. children[m][r] = call[u].child \/ m \in overwritten
        BY <2>1 DEF Target
      <4>3. /\ n \in NodeIds /\ s \in Names /\ children' = [children EXCEPT ![n][s] = allocated + 1]
            /\ overwritten' = IF children[n][s] # NoNode THEN overwritten \cup {n} ELSE overwritten
        BY <2>2, Adds
      <4>4. CASE m = n /\ r = s
        BY <4>1, <4>2, <4>3, <4>4, ConstantFacts
      <4>5. CASE ~(m = n /\ r = s)
        <5>1. children'[m][r] = children[m][r]
          <6> HIDE DEF m, n, r, s
          <6>1. QED
            BY <4>1, <4>3, <4>5, VariableFacts
        <5>2. QED
          BY <4>2, <4>3, <5>1
      <4>6. QED
        BY <4>4, <4>5
    <3>2. QED
      BY <2>1, <3>1 DEF Target, AtMessage
  <2>3. CASE ~AddChild(t)
    <3>1. UNCHANGED <<children, overwritten>>
      BY <2>3, Begins, Creates, Relocks, Increments, Finds, Panics, Limits DEF RecordError, IncrementError
    <3>2. QED
      BY <2>1, <3>1 DEF Target, AtMessage
  <2>4. QED
    BY <2>2, <2>3
<1>3. QED
  BY <1>2, OwnTarget DEF Targets
-------------------------------------------------------------------------------
(* The only new place a step makes is that of the node it creates. *)
New(t, n, p, s) ==
    /\ n = allocated + 1 /\ allocated' = allocated + 1
    /\ p = call'[t].node /\ s = call'[t].target /\ pc[t] \in {"create", "add"}

LEMMA SamePlaces ==
    ASSUME Inv, NEW t \in Recorders, RecordError(t), UNCHANGED <<errorGraphs, children>>,
           NEW n \in NodeIds, NEW p, NEW s, Place(n, p, s)',
           pc'[t] \in {"relock", "increment"} => Place(call'[t].child, call'[t].node, call'[t].target)
    PROVE  Place(n, p, s)
<1>1. \A u \in Recorders : u # t => pc'[u] = pc[u] /\ call'[u] = call[u]
  BY OthersWait DEF Inv
<1>2. CASE \E u \in Recorders : Held(u, n, p, s)'
  <2>1. PICK u \in Recorders : Held(u, n, p, s)'
    BY <1>2
  <2>2. CASE u = t
    BY <2>1, <2>2 DEF Held
  <2>3. CASE u # t
    BY <1>1, <2>1, <2>3 DEF Held, Place
  <2>4. QED
    BY <2>2, <2>3
<1>3. CASE ~ \E u \in Recorders : Held(u, n, p, s)'
  BY <1>3 DEF Place
<1>4. QED
  BY <1>2, <1>3

LEMMA PlaceStep ==
    ASSUME Inv, Targets, NEW t \in Recorders, RecordError(t),
           NEW n \in NodeIds, NEW p \in Parents, NEW s \in Names, Place(n, p, s)'
    PROVE  Place(n, p, s) \/ New(t, n, p, s)
<1>0. Target(t) /\ (pc[t] # "idle" => CallTypes(call[t]))
  BY Locals DEF Targets
<1>1. \A u \in Recorders : u # t => pc'[u] = pc[u] /\ call'[u] = call[u]
  BY OthersWait DEF Inv
<1>2. ASSUME NEW g \in Groups, NEW m \in Messages, Begin(t, g, m) PROVE Place(n, p, s)
  <2>1. UNCHANGED <<errorGraphs, children>> /\ Place(call'[t].child, call'[t].node, call'[t].target)
    BY <1>2, Begins DEF Place
  <2>2. QED
    BY <2>1, SamePlaces
<1>3. CASE Create(t)
  <2>1. /\ pc[t] = "create" /\ call[t].node = NoNode /\ call[t].target = call[t].group /\ call[t].group \in Groups
        /\ call'[t].node = NoNode /\ call'[t].target = call[t].group
        /\ call'[t].child = errorGraphs'[call[t].group] /\ UNCHANGED children
    BY <1>0, <1>3, Creates DEF Target, CallTypes, Stays
  <2>2. CASE UNCHANGED <<allocated, errorGraphs>>
    <3>1. Place(call'[t].child, call'[t].node, call'[t].target)
      BY <2>1, <2>2 DEF Place
    <3>2. QED
      BY <2>1, <2>2, <3>1, SamePlaces
  <2>3. CASE /\ allocated' = allocated + 1 /\ allocated + 1 \in NodeIds
             /\ errorGraphs' = [errorGraphs EXCEPT ![call[t].group] = allocated + 1]
    <3>1. errorGraphs'[call[t].group] = allocated + 1
          /\ \A g \in Groups : g # call[t].group => errorGraphs'[g] = errorGraphs[g]
      BY <2>1, <2>3, VariableFacts
    <3>2. \A u \in Recorders : Held(u, n, p, s)' => Held(u, n, p, s) \/ New(t, n, p, s)
      BY <1>1, <2>1, <2>3, <3>1 DEF Held, New
    <3>3. CASE p = NoNode /\ s \in Groups /\ errorGraphs'[s] = n
      BY <2>1, <2>3, <3>1, <3>3 DEF Place, New
    <3>4. QED
      BY <2>1, <3>2, <3>3 DEF Place
  <2>4. QED
    BY <1>3, <2>2, <2>3, Creates
<1>4. CASE Relock(t)
  <2>1. UNCHANGED <<errorGraphs, children>> /\ Held(t, call'[t].child, call'[t].node, call'[t].target)
    BY <1>4, Relocks DEF Held
  <2>2. Place(call'[t].child, call'[t].node, call'[t].target)
    BY <2>1 DEF Place
  <2>3. QED
    BY <2>1, <2>2, SamePlaces
<1>5. CASE Increment(t) \/ ErrorPanics(t) \/ LimitMessages(t)
  <2>1. UNCHANGED <<errorGraphs, children>> /\ pc'[t] \notin {"relock", "increment"}
    BY <1>5, Increments, Panics, Limits
  <2>2. QED
    BY <2>1, SamePlaces
<1>6. CASE FindFrame(t) \/ FindMessage(t) \/ FindAgain(t)
  <2>1. UNCHANGED <<errorGraphs, children>> /\ Place(call'[t].child, call'[t].node, call'[t].target)
    BY <1>6, Finds DEF Place, Stays
  <2>2. QED
    BY <2>1, SamePlaces
<1>7. CASE AddChild(t)
  <2> DEFINE m == call[t].node
             r == call[t].target
  <2>1. /\ m \in NodeIds /\ r \in Names /\ children' = [children EXCEPT ![m][r] = allocated + 1]
        /\ pc[t] = "add" /\ allocated' = allocated + 1 /\ errorGraphs' = errorGraphs
        /\ call'[t].node = m /\ call'[t].target = r /\ call'[t].child = allocated + 1
    BY <1>7, Adds DEF Stays
  <2> HIDE DEF m, r
  <2>2. \A u \in Recorders : Held(u, n, p, s)' => Held(u, n, p, s) \/ New(t, n, p, s)
    BY <1>1, <2>1 DEF Held, New
  <2>3. CASE p \in NodeIds /\ children'[p][s] = n
    <3>1. CASE p = m /\ s = r
      BY <2>1, <2>3, <3>1, VariableFacts DEF New
    <3>2. CASE ~(p = m /\ s = r)
      <4>1. children'[p][s] = children[p][s]
        BY <2>1, <2>3, <3>2, VariableFacts
      <4>2. QED
        BY <2>3, <4>1 DEF Place
    <3>3. QED
      BY <3>1, <3>2
  <2>4. QED
    BY <2>1, <2>2, <2>3 DEF Place
<1>8. QED
  BY <1>2, <1>3, <1>4, <1>5, <1>6, <1>7 DEF RecordError, IncrementError
-------------------------------------------------------------------------------
(* A call moves from below a node when it counts in the child, and ends there at *)
(* the message; the other calls are where they were.                              *)
LEMMA BelowMoves ==
    ASSUME Inv, NEW t \in Recorders, RecordError(t), NEW n \in NodeIds
    PROVE  Below(n)' = IF pc'[t] # "idle" /\ call'[t].node = n THEN Below(n) \cup {t} ELSE Below(n) \ {t}
BY OthersWait DEF Inv, Below

LEMMA BelowStays ==
    ASSUME Inv, Targets, NEW t \in Recorders, RecordError(t), ~Increment(t), ~ErrorPanics(t), NEW n \in NodeIds
    PROVE  Below(n)' = Below(n)
<1>1. Target(t) /\ (pc[t] # "idle" => CallTypes(call[t])) /\ n # NoNode
  BY Locals, ConstantFacts DEF Targets
<1>2. (pc'[t] # "idle" /\ call'[t].node = n) <=> (pc[t] # "idle" /\ call[t].node = n)
  <2>1. ASSUME NEW g \in Groups, NEW m \in Messages, Begin(t, g, m)
        PROVE  pc[t] = "idle" /\ pc'[t] # "idle" /\ call'[t].node # n
    BY <1>1, <2>1, Begins
  <2>2. CASE ~ \E g \in Groups, m \in Messages : Begin(t, g, m)
    <3>1. pc[t] # "idle" /\ pc'[t] # "idle" /\ call'[t].node = call[t].node
      BY <2>2, Creates, Relocks, Finds, Limits, Adds DEF RecordError, IncrementError, Stays
    <3>2. QED
      BY <3>1
  <2>3. QED
    BY <2>1, <2>2
<1>3. t \in Below(n) <=> pc[t] # "idle" /\ call[t].node = n
  BY DEF Below
<1>4. QED
  BY <1>2, <1>3, BelowMoves

(* A node gets something below it when a call that has more to do counts in it. *)
LEMMA BusyStep ==
    ASSUME Inv, Targets, NEW t \in Recorders, RecordError(t), NEW n \in NodeIds, Busy(n)'
    PROVE  Busy(n) \/ (Increment(t) /\ n = call[t].child /\ ~Done(t))
<1>1. CASE Increment(t)
  <2>1. UNCHANGED <<children, abandoned>>
    BY <1>1, Increments
  <2>2. pc'[t] # "idle" /\ call'[t].node = n => ~Done(t) /\ n = call[t].child
    BY <1>1, Increments
  <2>3. QED
    BY <1>1, <2>1, <2>2, BelowMoves DEF Busy, Children
<1>2. CASE ErrorPanics(t)
  <2>1. /\ pc[t] = "find" /\ UNCHANGED children /\ pc'[t] = "idle" /\ call[t].node \in NodeIds
        /\ abandoned' = [abandoned EXCEPT ![call[t].node] = @ + 1]
    BY <1>2, Panics
  <2>2. t \in Below(call[t].node)
    BY <2>1 DEF Below
  <2>3. n # call[t].node => abandoned'[n] = abandoned[n]
    BY <2>1, VariableFacts
  <2>4. QED
    BY <2>1, <2>2, <2>3, BelowMoves DEF Busy, Children
<1>3. CASE AddChild(t)
  <2>1. /\ pc[t] = "add" /\ call[t].node \in NodeIds /\ UNCHANGED abandoned
        /\ children' = [children EXCEPT ![call[t].node][call[t].target] = allocated + 1]
    BY <1>3, Adds
  <2>2. t \in Below(call[t].node)
    BY <2>1 DEF Below
  <2>3. n # call[t].node => children'[n] = children[n]
    BY <2>1, VariableFacts
  <2>4. ~Increment(t) /\ ~ErrorPanics(t)
    BY <2>1, Increments, Panics
  <2>5. QED
    BY <2>1, <2>2, <2>3, <2>4, BelowStays DEF Busy, Children
<1>4. CASE ~Increment(t) /\ ~ErrorPanics(t) /\ ~AddChild(t)
  <2>1. UNCHANGED <<children, abandoned>>
    BY <1>4, Begins, Creates, Relocks, Finds, Limits DEF RecordError, IncrementError
  <2>2. QED
    BY <1>4, <2>1, BelowStays DEF Busy, Children
<1>5. QED
  BY <1>1, <1>2, <1>3, <1>4
-------------------------------------------------------------------------------
LEMMA IncrementPlace ==
    ASSUME Inv, Shape, NEW t \in Recorders, Increment(t)
    PROVE  /\ pc[t] = "increment" /\ call[t].child \in NodeIds /\ CallTypes(call[t])
           /\ Place(call[t].child, call[t].node, call[t].target)
           /\ call[t].node < call[t].child /\ call[t].child <= allocated
           /\ Done(t) <=> call[t].node # NoNode /\ call[t].target \in Texts
<1>1. pc[t] = "increment" /\ call[t].child \in NodeIds /\ CallTypes(call[t]) /\ Len(Frames[t]) \in Nat
  BY Increments, Locals
<1>2. Place(call[t].child, call[t].node, call[t].target)
  BY <1>1 DEF Place, Held
<1>3. call[t].node < call[t].child /\ call[t].child <= allocated
  BY <1>1, <1>2 DEF Shape, Ordered, CallTypes
<1>4. Done(t) <=> call[t].node # NoNode /\ call[t].target \in Texts
  <2>1. Target(t)
    BY DEF Shape, Targets
  <2>2. call[t].node = NoNode => call[t].at = 0
    BY <1>1, <2>1 DEF Target
  <2>3. call[t].node # NoNode => (call[t].at > Len(Frames[t]) <=> call[t].target \in Texts)
    BY <1>1, <2>1 DEF Target
  <2>4. QED
    BY <1>1, <2>2, <2>3 DEF Done
<1>5. QED
  BY <1>1, <1>2, <1>3, <1>4

LEMMA AllocatedGrows ==
    ASSUME Inv, NEW t \in Recorders, RecordError(t)
    PROVE  allocated' \in {allocated, allocated + 1} /\ allocated \in Nat
BY VariableFacts, Begins, Creates, Relocks, Increments, Finds, Panics, Limits, Adds
   DEF RecordError, IncrementError

LEMMA KeepsShape ==
    ASSUME Inv, Shape, NEW t \in Recorders, RecordError(t)
    PROVE  Shape'
<1>1. Targets'
  BY KeepsTargets DEF Shape
<1>2. \A n \in NodeIds : \A p \in Parents : \A s \in Names :
          Place(n, p, s)' => Place(n, p, s) \/ New(t, n, p, s)
  BY PlaceStep DEF Shape
<1>3. \A n \in NodeIds : Busy(n)' => Busy(n) \/ (Increment(t) /\ n = call[t].child /\ ~Done(t))
  BY BusyStep DEF Shape
<1>4. allocated' \in {allocated, allocated + 1} /\ allocated \in Nat /\ NodeIds \subseteq Nat /\ NoNode \notin NodeIds
  BY AllocatedGrows, ConstantFacts
<1>5. Unique'
  <2> SUFFICES ASSUME NEW n \in NodeIds, NEW p \in Parents, NEW q \in Parents, NEW r \in Names, NEW s \in Names,
                      Place(n, p, r)', Place(n, q, s)'
               PROVE  p = q /\ r = s
    BY DEF Unique
  <2>1. Place(n, p, r) \/ New(t, n, p, r)
    BY <1>2
  <2>2. Place(n, q, s) \/ New(t, n, q, s)
    BY <1>2
  <2>3. Place(n, p, r) \/ Place(n, q, s) => n <= allocated
    BY DEF Shape, Ordered
  <2>4. New(t, n, p, r) \/ New(t, n, q, s) => n = allocated + 1
    BY DEF New
  <2>5. CASE Place(n, p, r) /\ Place(n, q, s)
    BY <2>5 DEF Shape, Unique
  <2>6. CASE New(t, n, p, r) /\ New(t, n, q, s)
    BY <2>6 DEF New
  <2>7. QED
    BY <1>4, <2>1, <2>2, <2>3, <2>4, <2>5, <2>6
<1>6. Ordered'
  <2> SUFFICES ASSUME NEW n \in NodeIds, NEW p \in Parents, NEW s \in Names, Place(n, p, s)'
               PROVE  p < n /\ n <= allocated'
    BY DEF Ordered
  <2>1. CASE Place(n, p, s)
    BY <1>4, <2>1 DEF Shape, Ordered
  <2>2. CASE New(t, n, p, s)
    <3>1. n = allocated + 1 /\ allocated' = allocated + 1 /\ p = call'[t].node
      BY <2>2 DEF New
    <3>2. CASE pc[t] = "create"
      <4>1. Create(t)
        BY <3>2, Begins, Relocks, Increments, Finds, Panics, Limits, Adds DEF RecordError, IncrementError
      <4>2. call'[t].node = NoNode
        BY <3>2, <4>1, Creates DEF Shape, Targets, Target, Stays
      <4>3. QED
        BY <1>4, <3>1, <4>2 DEF NoNode
    <3>3. CASE pc[t] = "add"
      <4>1. AddChild(t)
        BY <3>3, Begins, Creates, Relocks, Increments, Finds, Panics, Limits DEF RecordError, IncrementError
      <4>2. call'[t].node = call[t].node /\ call[t].node \in NodeIds
        BY <4>1, Adds DEF Stays
      <4>3. t \in Below(call[t].node)
        BY <3>3 DEF Below
      <4>4. ~(call[t].node > allocated)
        BY <4>2, <4>3 DEF Shape, Fresh, Busy
      <4>5. QED
        BY <1>4, <3>1, <4>2, <4>4
    <3>4. QED
      BY <2>2, <3>2, <3>3 DEF New
  <2>3. QED
    BY <1>2, <2>1, <2>2
<1>7. Leaves'
  <2> SUFFICES ASSUME NEW n \in NodeIds, NEW p \in NodeIds, NEW s \in Texts, Place(n, p, s)', Busy(n)'
               PROVE  FALSE
    BY DEF Leaves
  <2>1. p \in Parents /\ s \in Names
    BY ConstantFacts DEF Parents, Texts
  <2>2. CASE New(t, n, p, s)
    <3>1. n > allocated /\ ~Increment(t)
      BY <1>4, <2>2, Increments DEF New
    <3>2. QED
      BY <1>3, <3>1 DEF Shape, Fresh
  <2>3. CASE Place(n, p, s)
    <3>1. ~Busy(n)
      BY <2>3 DEF Shape, Leaves
    <3>2. Increment(t) /\ n = call[t].child /\ ~Done(t)
      BY <1>3, <3>1
    <3>3. Place(n, call[t].node, call[t].target) /\ CallTypes(call[t])
      BY <3>2, IncrementPlace
    <3>4. call[t].node = p /\ call[t].target = s
      BY <2>1, <2>3, <3>3 DEF Shape, Unique, CallTypes
    <3>5. QED
      BY <1>4, <3>2, <3>4, IncrementPlace
  <2>4. QED
    BY <1>2, <2>1, <2>2, <2>3
<1>8. Fresh'
  <2> SUFFICES ASSUME NEW n \in NodeIds, n > allocated'
               PROVE  ~Busy(n)' /\ measurement'[n] = 0
    BY DEF Fresh
  <2>1. n > allocated
    BY <1>4
  <2>2. ~Busy(n) /\ measurement[n] = 0
    BY <2>1 DEF Shape, Fresh
  <2>3. CASE Increment(t)
    <3>1. n # call[t].child
      BY <1>4, <2>1, <2>3, IncrementPlace
    <3>2. measurement'[n] = measurement[n]
      BY <2>3, <3>1, Increments, VariableFacts
    <3>3. QED
      BY <1>3, <2>2, <3>1, <3>2
  <2>4. CASE ~Increment(t)
    <3>1. measurement' = measurement
      BY <2>4, Begins, Creates, Relocks, Finds, Panics, Limits, Adds DEF RecordError, IncrementError
    <3>2. QED
      BY <1>3, <2>2, <2>4, <3>1
  <2>5. QED
    BY <2>3, <2>4
<1>9. QED
  BY <1>1, <1>5, <1>6, <1>7, <1>8 DEF Shape
-------------------------------------------------------------------------------
(* What the children of a node have counted, and its sum. *)
Terms(n) == [s \in Children(n) |-> measurement[children[n][s]]]

LEMMA TermTypes ==
    ASSUME Inv, NEW n \in NodeIds
    PROVE  /\ IsFiniteSet(Children(n)) /\ Terms(n) \in [Children(n) -> Nat] /\ ChildrenSum(n) \in Nat
           /\ ChildrenSum(n) = SumFunction(Terms(n))
           /\ IsFiniteSet(Below(n)) /\ Cardinality(Below(n)) \in Nat
           /\ abandoned[n] \in Nat /\ measurement[n] \in Nat
<1>1. IsFiniteSet(Children(n)) /\ abandoned[n] \in Nat /\ measurement[n] \in Nat
  BY VariableFacts
<1>2. \A s \in Children(n) : children[n][s] \in NodeIds
  BY VariableFacts DEF Children, Parents
<1>3. Terms(n) \in [Children(n) -> Nat]
  BY <1>2, VariableFacts DEF Terms
<1>4. ChildrenSum(n) = SumFunction(Terms(n))
  BY DEF ChildrenSum, Terms
<1>5. Below(n) \in SUBSET Recorders
  BY DEF Below
<1>6. QED
  BY <1>1, <1>3, <1>4, <1>5, SumType, SubsetCard

LEMMA SameSum ==
    ASSUME NEW n \in NodeIds, children'[n] = children[n],
           \A s \in Children(n) : measurement'[children[n][s]] = measurement[children[n][s]]
    PROVE  ChildrenSum(n)' = ChildrenSum(n)
<1>1. Children(n)' = Children(n)
  BY DEF Children
<1>2. QED
  BY <1>1 DEF ChildrenSum

LEMMA InnerStep ==
    ASSUME Inv, Shape, NEW t \in Recorders, RecordError(t), NEW n \in NodeIds, Inner(n)'
    PROVE  Inner(n) \/ Total(n) = measurement[n]
<1>1. PICK p \in Parents, s \in Names : Place(n, p, s)' /\ (p = NoNode \/ s \notin Texts)
  BY DEF Inner
<1>2. CASE Place(n, p, s)
  BY <1>1, <1>2 DEF Inner
<1>3. CASE New(t, n, p, s)
  <2>1. n > allocated
    BY <1>3, AllocatedGrows DEF New
  <2>2. ~Busy(n) /\ measurement[n] = 0
    BY <2>1 DEF Shape, Fresh
  <2>3. Children(n) = {} /\ Below(n) = {} /\ abandoned[n] = 0
    BY <2>2 DEF Busy
  <2>4. ChildrenSum(n) = 0
    BY <2>3, TermTypes, SumEmpty
  <2>5. QED
    BY <2>2, <2>3, <2>4, FS_EmptySet DEF Total
<1>4. QED
  BY <1>1, <1>2, <1>3, PlaceStep DEF Shape

(* A step that neither counts in a node nor changes what is below it. *)
LEMMA SumsFrame ==
    ASSUME Inv, Shape, NEW t \in Recorders, RecordError(t), NEW n \in NodeIds, AddsUp(n),
           Total(n)' = Total(n), measurement'[n] = measurement[n], overwritten \subseteq overwritten',
           Busy(n)' => Busy(n)
    PROVE  AddsUp(n)'
BY InnerStep DEF AddsUp

(* What an increment changes in the sums: that of the parent, by one. *)
LEMMA IncrementSums ==
    ASSUME Inv, Shape, NEW t \in Recorders, Increment(t), NEW n \in NodeIds
    PROVE  ChildrenSum(n)' = IF n = call[t].node /\ children[n][call[t].target] = call[t].child
                             THEN ChildrenSum(n) + 1 ELSE ChildrenSum(n)
<1> DEFINE c == call[t].child
           p == call[t].node
           r == call[t].target
<1>1. /\ c \in NodeIds /\ p \in Parents /\ r \in Names /\ Place(c, p, r)
      /\ measurement' = [measurement EXCEPT ![c] = @ + 1] /\ children' = children
  BY Increments, IncrementPlace DEF CallTypes
<1> HIDE DEF c, p, r
<1>2. \A s \in Children(n) : children[n][s] = c => n = p /\ s = r
  <2> TAKE s \in Children(n)
  <2> HAVE children[n][s] = c
  <2>1. Place(c, n, s) /\ n \in Parents /\ s \in Names
    BY DEF Place, Parents, Children
  <2>2. QED
    BY <1>1, <2>1 DEF Shape, Unique
<1>3. \A m \in NodeIds : m # c => measurement'[m] = measurement[m]
  BY <1>1, VariableFacts
<1>4. \A s \in Children(n) : children[n][s] \in NodeIds
  BY VariableFacts DEF Children, Parents
<1>5. CASE ~(n = p /\ children[n][r] = c)
  <2>1. \A s \in Children(n) : measurement'[children[n][s]] = measurement[children[n][s]]
    BY <1>2, <1>3, <1>4, <1>5
  <2>2. QED
    BY <1>1, <1>5, <2>1, SameSum DEF c, p, r
<1>6. CASE n = p /\ children[n][r] = c
  <2> DEFINE f == Terms(n)
             g == [s \in Children(n) |-> measurement'[children[n][s]]]
  <2>1. r \in Children(n)
    BY <1>1, <1>6, ConstantFacts DEF Children
  <2>2. IsFiniteSet(Children(n)) /\ f \in [Children(n) -> Nat] /\ ChildrenSum(n) = SumFunction(f)
    BY TermTypes
  <2>3. f[r] = measurement[c] /\ measurement[c] \in Nat
    BY <1>1, <1>6, <2>1, VariableFacts DEF Terms
  <2>4. g[r] = f[r] + 1
    BY <1>1, <1>6, <2>1, <2>3, VariableFacts
  <2>5. \A s \in Children(n) \ {r} : f[s] = g[s]
    BY <1>2, <1>3, <1>4 DEF Terms
  <2>6. g \in [Children(n) -> Nat]
    <3>1. \A s \in Children(n) : g[s] \in Nat
      BY <2>2, <2>3, <2>4, <2>5
    <3>2. QED
      BY <3>1
  <2>7. ChildrenSum(n)' = SumFunction(g)
    BY <1>1 DEF ChildrenSum, Children
  <2> HIDE DEF f, g
  <2>8. SumFunction(g) - g[r] = SumFunction(f) - f[r]
    BY <2>1, <2>2, <2>5, <2>6, SumChange
  <2>9. SumFunction(g) \in Nat /\ SumFunction(f) \in Nat /\ f[r] \in Nat
    BY <2>2, <2>3, <2>6, SumType
  <2>10. SumFunction(g) = SumFunction(f) + 1
    BY <2>4, <2>8, <2>9
  <2>11. QED
    BY <1>6, <2>2, <2>7, <2>10 DEF c, p, r
<1>7. QED
  BY <1>5, <1>6

LEMMA IncrementAddsUp ==
    ASSUME Inv, Shape, NEW t \in Recorders, Increment(t), NEW n \in NodeIds, AddsUp(n)
    PROVE  AddsUp(n)'
<1> DEFINE c == call[t].child
           p == call[t].node
           r == call[t].target
<1>0. RecordError(t)
  BY DEF RecordError, IncrementError
<1>1. /\ pc[t] = "increment" /\ c \in NodeIds /\ p \in Parents /\ r \in Names /\ Place(c, p, r)
      /\ p < c /\ (Done(t) <=> p # NoNode /\ r \in Texts)
      /\ measurement' = [measurement EXCEPT ![c] = @ + 1] /\ children' = children
      /\ abandoned' = abandoned /\ overwritten' = overwritten
      /\ (Done(t) => pc'[t] = "idle") /\ (~Done(t) => pc'[t] = "find" /\ call'[t].node = c)
  BY Increments, IncrementPlace DEF CallTypes
<1>2. p # c
  <2>1. c \in Nat /\ p < c
    BY <1>1, ConstantFacts
  <2> HIDE DEF c, p
  <2>2. QED
    BY <2>1
<1>3. t \in Below(n) <=> n = p
  BY <1>1 DEF Below
<1>4. Below(n)' = IF ~Done(t) /\ n = c THEN Below(n) \cup {t} ELSE Below(n) \ {t}
  BY <1>0, <1>1, BelowMoves
<1>5. /\ ChildrenSum(n) \in Nat /\ IsFiniteSet(Below(n)) /\ Cardinality(Below(n)) \in Nat
      /\ abandoned[n] \in Nat /\ measurement[n] \in Nat
  BY TermTypes
<1>6. measurement'[n] = IF n = c THEN measurement[n] + 1 ELSE measurement[n]
  BY <1>1, VariableFacts
<1>7. /\ ~Busy(n)' \/ Busy(n) \/ (n = c /\ ~Done(t))
  BY <1>0, BusyStep DEF Shape
<1>8. Target(t)
  BY DEF Shape, Targets
<1>9. ChildrenSum(n)' = IF n = p /\ children[n][r] = c THEN ChildrenSum(n) + 1 ELSE ChildrenSum(n)
  BY IncrementSums
<1> HIDE DEF c, p, r
<1>10. CASE n = c
  <2>1. t \notin Below(n) /\ ChildrenSum(n)' = ChildrenSum(n) /\ measurement'[n] = measurement[n] + 1
    BY <1>2, <1>3, <1>6, <1>9, <1>10
  <2>2. CASE Done(t)
    <3>1. Total(n)' = Total(n)
      <4>1. Below(n)' = Below(n)
        BY <1>4, <2>1, <2>2
      <4>2. QED
        BY <1>1, <2>1, <4>1 DEF Total
    <3>2. p \in NodeIds /\ r \in Texts
      BY <1>1, <2>2 DEF Parents
    <3>3. ~Busy(n)'
      <4>1. ~Busy(n)
        BY <1>1, <1>10, <3>2 DEF Shape, Leaves
      <4>2. QED
        BY <1>7, <2>2, <4>1
    <3>4. ~Inner(n)'
      <4> SUFFICES ASSUME NEW q \in Parents, NEW s \in Names, Place(n, q, s)', q = NoNode \/ s \notin Texts
                   PROVE  FALSE
        BY DEF Inner
      <4>1. Place(n, q, s)
        BY <1>0, <1>1, PlaceStep DEF Shape, New
      <4>2. q = p /\ s = r
        BY <1>1, <1>10, <4>1 DEF Shape, Unique
      <4>3. QED
        BY <3>2, <4>2, ConstantFacts
    <3>5. Total(n) \in Int
      BY <1>5 DEF Total
    <3>6. Total(n)' <= measurement'[n]
      BY <1>5, <2>1, <3>1, <3>5 DEF AddsUp
    <3>7. QED
      BY <3>3, <3>4, <3>6 DEF AddsUp
  <2>3. CASE ~Done(t)
    <3>1. Total(n)' = Total(n) + 1
      <4>1. Cardinality(Below(n)') = Cardinality(Below(n)) + 1
        BY <1>4, <1>5, <1>10, <2>1, <2>3, FS_AddElement
      <4>2. QED
        BY <1>1, <1>5, <2>1, <4>1 DEF Total
    <3>2. Inner(n)
      BY <1>1, <1>10, <2>3 DEF Inner
    <3>3. Total(n) \in Int
      BY <1>5 DEF Total
    <3>4. QED
      BY <1>1, <1>5, <2>1, <3>1, <3>2, <3>3 DEF AddsUp
  <2>4. QED
    BY <2>2, <2>3
<1>11. CASE n = p /\ n # c
  <2>1. Cardinality(Below(n)') = Cardinality(Below(n)) - 1 /\ Busy(n)
    BY <1>3, <1>4, <1>5, <1>11, FS_RemoveElement DEF Busy
  <2>2. CASE children[n][r] = c
    <3>1. Total(n)' = Total(n)
      BY <1>1, <1>5, <1>9, <1>11, <2>1, <2>2 DEF Total
    <3>2. QED
      BY <1>0, <1>1, <1>6, <1>11, <2>1, <3>1, SumsFrame
  <2>3. CASE children[n][r] # c
    <3>1. Total(n)' = Total(n) - 1 /\ Total(n) \in Int
      BY <1>1, <1>5, <1>9, <1>11, <2>1, <2>3 DEF Total
    <3>2. n \in overwritten'
      BY <1>1, <1>8, <1>11, <2>3, ConstantFacts DEF Target, c, p, r
    <3>3. QED
      BY <1>5, <1>6, <1>11, <3>1, <3>2 DEF AddsUp
  <2>4. QED
    BY <2>2, <2>3
<1>12. CASE n # p /\ n # c
  <2>1. Below(n)' = Below(n)
    BY <1>3, <1>4, <1>12
  <2>2. Total(n)' = Total(n)
    BY <1>1, <1>9, <1>12, <2>1 DEF Total
  <2>3. QED
    BY <1>0, <1>1, <1>6, <1>7, <1>12, <2>2, SumsFrame
<1>13. QED
  BY <1>10, <1>11, <1>12

LEMMA AddChildAddsUp ==
    ASSUME Inv, Inv', Shape, NEW t \in Recorders, AddChild(t), NEW n \in NodeIds, AddsUp(n)
    PROVE  AddsUp(n)'
<1> DEFINE m == call[t].node
           s == call[t].target
           c == allocated + 1
<1>0. RecordError(t)
  BY DEF RecordError, IncrementError
<1>1. /\ pc[t] = "add" /\ m \in NodeIds /\ s \in Names /\ c \in NodeIds
      /\ children' = [children EXCEPT ![m][s] = c]
      /\ overwritten' = IF children[m][s] # NoNode THEN overwritten \cup {m} ELSE overwritten
      /\ UNCHANGED <<measurement, abandoned>>
  BY Adds
<1>2. Below(n)' = Below(n)
  <2>1. ~Increment(t) /\ ~ErrorPanics(t)
    BY <1>1, Increments, Panics
  <2>2. QED
    BY <1>0, <2>1, BelowStays DEF Shape
<1>3. Busy(n)' => Busy(n)
  BY <1>0, <1>1, BusyStep, Increments DEF Shape
<1>4. measurement[c] = 0
  BY <1>1, VariableFacts DEF Shape, Fresh
<1>5. /\ ChildrenSum(n) \in Nat /\ IsFiniteSet(Below(n)) /\ Cardinality(Below(n)) \in Nat
      /\ abandoned[n] \in Nat /\ measurement[n] \in Nat
  BY TermTypes
<1> HIDE DEF m, s, c
<1>6. CASE n # m
  <2>1. children'[n] = children[n]
    BY <1>1, <1>6, VariableFacts
  <2>2. ChildrenSum(n)' = ChildrenSum(n)
    BY <1>1, <2>1, SameSum
  <2>3. Total(n)' = Total(n)
    BY <1>1, <1>2, <2>2 DEF Total
  <2>4. QED
    BY <1>0, <1>1, <1>3, <2>3, SumsFrame
<1>7. CASE n = m
  <2> DEFINE f == Terms(n)
             g == [r \in Children(n)' |-> measurement[children'[n][r]]]
  <2>1. children'[n][s] = c /\ \A r \in Names : r # s => children'[n][r] = children[n][r]
    BY <1>1, <1>7, VariableFacts
  <2>2. Children(n)' = Children(n) \cup {s}
    BY <1>1, <2>1, ConstantFacts DEF Children
  <2>3. IsFiniteSet(Children(n)) /\ f \in [Children(n) -> Nat] /\ ChildrenSum(n) = SumFunction(f)
    BY TermTypes
  <2>4. g \in [Children(n)' -> Nat]
    <3>1. Children(n)' \subseteq Names /\ \A r \in Children(n)' : children'[n][r] \in NodeIds
      BY VariableFacts DEF Children, Parents, Inv, Typed, TypeOK
    <3>2. QED
      BY <3>1, VariableFacts
  <2>5. ChildrenSum(n)' = SumFunction(g)
    BY <1>1 DEF ChildrenSum
  <2>6. g[s] = 0 /\ \A r \in Children(n) \ {s} : f[r] = g[r]
    BY <1>4, <2>1, <2>2 DEF Terms, Children
  <2> HIDE DEF f, g
  <2>7. CASE s \notin Children(n)
    <3>1. SumFunction(g) = SumFunction(f)
      <4>1. SumFunction(g) = g[s] + SumFunction(f)
        BY <2>2, <2>3, <2>4, <2>6, <2>7, SumAdd
      <4>2. QED
        BY <2>3, <2>6, <4>1, SumType
    <3>2. Total(n)' = Total(n)
      BY <1>1, <1>2, <2>3, <2>5, <3>1 DEF Total
    <3>3. QED
      BY <1>0, <1>1, <1>3, <3>2, SumsFrame
  <2>8. CASE s \in Children(n)
    <3>1. Children(n)' = Children(n)
      BY <2>2, <2>8
    <3>2. SumFunction(g) - g[s] = SumFunction(f) - f[s]
      BY <2>3, <2>4, <2>6, <2>8, <3>1, SumChange
    <3>3. f[s] \in Nat /\ SumFunction(f) \in Nat /\ SumFunction(g) \in Nat
      BY <2>3, <2>4, <2>8, <3>1, SumType
    <3>4. SumFunction(g) <= SumFunction(f)
      BY <2>6, <3>2, <3>3
    <3>5. Total(n)' <= Total(n) /\ Total(n) \in Int /\ Total(n)' \in Int
      BY <1>1, <1>2, <1>5, <2>3, <2>5, <3>3, <3>4 DEF Total
    <3>6. n \in overwritten'
      BY <1>1, <1>7, <2>8 DEF Children
    <3>7. QED
      BY <1>1, <1>5, <3>5, <3>6 DEF AddsUp
  <2>9. QED
    BY <2>7, <2>8
<1>8. QED
  BY <1>6, <1>7

LEMMA PanicAddsUp ==
    ASSUME Inv, Shape, NEW t \in Recorders, ErrorPanics(t), NEW n \in NodeIds, AddsUp(n)
    PROVE  AddsUp(n)'
<1> DEFINE m == call[t].node
<1>0. RecordError(t)
  BY DEF RecordError, IncrementError
<1>1. /\ pc[t] = "find" /\ pc'[t] = "idle" /\ m \in NodeIds
      /\ abandoned' = [abandoned EXCEPT ![m] = @ + 1]
      /\ UNCHANGED <<children, measurement, overwritten>>
  BY Panics
<1>2. Below(n)' = Below(n) \ {t} /\ (t \in Below(n) <=> n = m)
  BY <1>0, <1>1, BelowMoves DEF Below
<1>3. Busy(n)' => Busy(n)
  BY <1>0, <1>1, BusyStep, Increments DEF Shape
<1>4. /\ ChildrenSum(n) \in Nat /\ IsFiniteSet(Below(n)) /\ Cardinality(Below(n)) \in Nat
      /\ abandoned[n] \in Nat
  BY TermTypes
<1>5. ChildrenSum(n)' = ChildrenSum(n)
  BY <1>1, SameSum
<1>6. Total(n)' = Total(n)
  <2>1. CASE n = m
    <3>1. Cardinality(Below(n)') = Cardinality(Below(n)) - 1
      BY <1>2, <1>4, <2>1, FS_RemoveElement
    <3>2. abandoned'[n] = abandoned[n] + 1
      BY <1>1, <2>1, VariableFacts
    <3>3. QED
      BY <1>4, <1>5, <3>1, <3>2 DEF Total
  <2>2. CASE n # m
    <3>1. Below(n)' = Below(n) /\ abandoned'[n] = abandoned[n]
      BY <1>1, <1>2, <2>2, VariableFacts
    <3>2. QED
      BY <1>5, <3>1 DEF Total
  <2>3. QED
    BY <2>1, <2>2
<1>7. QED
  BY <1>0, <1>1, <1>3, <1>6, SumsFrame

LEMMA RecorderAddsUp ==
    ASSUME Inv, Inv', Shape, NEW t \in Recorders, RecordError(t), NEW n \in NodeIds, AddsUp(n)
    PROVE  AddsUp(n)'
<1>1. CASE ~Increment(t) /\ ~AddChild(t) /\ ~ErrorPanics(t)
  <2>1. UNCHANGED <<children, measurement, abandoned, overwritten>>
    BY <1>1, Begins, Creates, Relocks, Finds, Limits DEF RecordError, IncrementError
  <2>2. Below(n)' = Below(n)
    BY <1>1, BelowStays DEF Shape
  <2>3. Total(n)' = Total(n)
    BY <2>1, <2>2, SameSum DEF Total
  <2>4. Busy(n)' => Busy(n)
    BY <1>1, BusyStep DEF Shape
  <2>5. QED
    BY <2>1, <2>3, <2>4, SumsFrame
<1>2. QED
  BY <1>1, IncrementAddsUp, AddChildAddsUp, PanicAddsUp
-------------------------------------------------------------------------------
(* The report and stuttering steps touch neither the calls nor the counts; the   *)
(* swap takes places away.                                                        *)
SameTrees ==
    UNCHANGED <<children, allocated, measurement, abandoned, pc, call, overwritten>>

LEMMA OthersKeepSums ==
    ASSUME Inv, Shape, Sums, SameTrees, errorGraphs' = errorGraphs \/ errorGraphs' = [g \in Groups |-> NoNode]
    PROVE  Shape' /\ Sums'
<1> USE DEF SameTrees
<1>1. Targets'
  BY DEF Shape, Targets, Target, AtMessage
<1>2. ASSUME NEW n \in NodeIds, NEW p, NEW s, Place(n, p, s)' PROVE Place(n, p, s)
  BY <1>2, ConstantFacts DEF Place, Held
<1>3. \A n \in NodeIds : Busy(n)' = Busy(n) /\ Total(n)' = Total(n)
  BY DEF Busy, Total, Children, Below, ChildrenSum
<1>4. Unique'
  BY <1>2 DEF Shape, Unique
<1>5. Ordered'
  BY <1>2 DEF Shape, Ordered
<1>6. Leaves'
  <2> SUFFICES ASSUME NEW n \in NodeIds, NEW p \in NodeIds, NEW s \in Texts, Place(n, p, s)'
               PROVE  ~Busy(n)'
    BY DEF Leaves
  <2>1. Place(n, p, s)
    BY <1>2
  <2>2. QED
    BY <1>3, <2>1 DEF Shape, Leaves
<1>7. Fresh'
  BY <1>3 DEF Shape, Fresh
<1>8. ASSUME NEW n \in NodeIds PROVE AddsUp(n)'
  <2>1. Inner(n)' => Inner(n)
    BY <1>2 DEF Inner
  <2>2. AddsUp(n) /\ Total(n)' = Total(n) /\ (Busy(n)' => Busy(n))
    BY <1>3 DEF Sums
  <2>3. QED
    BY <2>1, <2>2 DEF AddsUp
<1>9. QED
  BY <1>1, <1>4, <1>5, <1>6, <1>7, <1>8 DEF Shape, Sums

LEMMA StepSums ==
    ASSUME Inv, Inv', Shape, Sums, [Next]_vars
    PROVE  Shape' /\ Sums'
<1>1. ASSUME NEW t \in Recorders, RecordError(t) PROVE Shape' /\ Sums'
  BY <1>1, KeepsShape, RecorderAddsUp DEF Sums
<1>2. CASE Report
  <2>1. SameTrees
    BY <1>2, ReportTyped DEF SameTrees, tree, lock, threads
  <2>2. errorGraphs' = errorGraphs \/ errorGraphs' = [g \in Groups |-> NoNode]
    BY <1>2 DEF Report, Swap, Measure, SizeChildren, Send, SendFails
  <2>3. QED
    BY <2>1, <2>2, OthersKeepSums
<1>3. CASE UNCHANGED vars
  <2>1. SameTrees /\ errorGraphs' = errorGraphs
    BY <1>3 DEF vars, SameTrees, tree, lock, threads, history
  <2>2. QED
    BY <2>1, OthersKeepSums
<1>4. QED
  BY <1>1, <1>2, <1>3 DEF Next, BoundReached

LEMMA InitSums ==
    ASSUME Init
    PROVE  Shape /\ Sums
<1>1. /\ \A t \in Recorders : pc[t] = "idle"
      /\ \A n \in NodeIds : Children(n) = {} /\ Below(n) = {} /\ abandoned[n] = 0 /\ measurement[n] = 0
  BY DEF Init, Children, Below
<1>2. \A n \in NodeIds : \A p \in Parents : \A s \in Names : ~Place(n, p, s)
  <2> SUFFICES ASSUME NEW n \in NodeIds, NEW p \in Parents, NEW s \in Names, Place(n, p, s) PROVE FALSE
    OBVIOUS
  <2>1. n # NoNode /\ \A t \in Recorders : ~Held(t, n, p, s)
    BY <1>1, ConstantFacts DEF Held
  <2>2. QED
    BY <2>1 DEF Place, Init
<1>3. Shape
  <2>1. NodeIds \subseteq Parents /\ Texts \subseteq Names
    BY ConstantFacts DEF Parents, Texts
  <2>2. QED
    BY <1>1, <1>2, <2>1 DEF Shape, Targets, Target, Unique, Ordered, Leaves, Fresh, Busy
<1>4. ASSUME NEW n \in NodeIds PROVE AddsUp(n)
  <2>1. Inv
    BY InitInv
  <2>2. ChildrenSum(n) = 0
    BY <1>1, <2>1, TermTypes, SumEmpty
  <2>3. QED
    BY <1>1, <2>2, FS_EmptySet DEF AddsUp, Total
<1>5. QED
  BY <1>3, <1>4 DEF Sums

(* A node has counted what its children have counted, the calls on their way      *)
(* from it to a child and those that ended there because err.Error() panicked     *)
(* (error_reporter.go:73), and nothing is lost but the counts of a child that      *)
(* another of the same name replaced.                                              *)
THEOREM NothingUncounted == Spec => []MeasurementsAddUp
<1>1. Init => Shape /\ Sums
  BY InitSums
<1>2. Inv /\ Inv' /\ Shape /\ Sums /\ [Next]_vars => Shape' /\ Sums'
  BY StepSums
<1>3. Sums => MeasurementsAddUp
  BY DEF Sums, AddsUp, Total, Busy, MeasurementsAddUp
<1>4. QED
  BY <1>1, <1>2, <1>3, Invariance, PTL DEF Spec
===============================================================================
