---------------------------- MODULE MCMessageQueue ----------------------------
(* Instances of MessageQueue: one goroutine that adds metrics, the allocation  *)
(* reporter that pushes, and the ticker.                                       *)
EXTENDS MessageQueue
CONSTANTS a1, p1

TwoEach == [t \in {a1, p1} |-> 2]
OnlyAdds == [t \in {a1} |-> 2]
TwoAdds == [t \in {a1, p1} |-> IF t = a1 THEN 2 ELSE 1]
=============================================================================
