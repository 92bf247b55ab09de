---------------------------- MODULE QueueContract ----------------------------
(* What the agent's message queue promises to the reporters, whatever the      *)
(* number of goroutines that append to it and flush it: a message that was     *)
(* accepted is held until it is either delivered or discarded, both are final, *)
(* and nothing is ever delivered that is no longer held.                       *)
EXTENDS FiniteSets

CONSTANT Messages   \* every message a reporter may hand to the queue

VARIABLES held,       \* accepted, neither delivered nor discarded yet
          delivered,  \* observed by the histogram
          discarded   \* expired, or handed to push and not observed

vars == <<held, delivered, discarded>>

Init == held = {} /\ delivered = {} /\ discarded = {}

(* A reporter hands over a message that was never seen before. *)
Accept(m) ==
    /\ m \notin held \cup delivered \cup discarded
    /\ held' = held \cup {m}
    /\ UNCHANGED <<delivered, discarded>>

(* Some of the held messages leave the queue for good, each to one of the two *)
(* final places.                                                              *)
Release(obs, lost) ==
    /\ obs \subseteq held
    /\ lost \subseteq held \ obs
    /\ held' = held \ (obs \cup lost)
    /\ delivered' = delivered \cup obs
    /\ discarded' = discarded \cup lost

Next ==
    \/ \E m \in Messages : Accept(m)
    \/ \E obs, lost \in SUBSET held : Release(obs, lost)

Spec == Init /\ [][Next]_vars
=============================================================================
