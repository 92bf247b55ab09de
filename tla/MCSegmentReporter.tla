--------------------------- MODULE MCSegmentReporter ---------------------------
(* Instances of SegmentReporter: two goroutines that record one segment, the   *)
(* first of them two or three times, and a reservoir of one sample.            *)
EXTENDS SegmentReporter
CONSTANTS r1, r2

TwoThenOne == [t \in Recorders |-> IF t = r1 THEN 2 ELSE 1]
ThreeThenOne == [t \in Recorders |-> IF t = r1 THEN 3 ELSE 1]
SameDuration == [t \in Recorders |-> 1]
TwoDurations == [t \in Recorders |-> IF t = r1 THEN 1 ELSE 2]
=============================================================================
