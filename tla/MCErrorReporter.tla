---------------------------- MODULE MCErrorReporter ----------------------------
(* An instance of ErrorReporter: two goroutines with the same call stack of    *)
(* one frame, three messages and room for one of them.                         *)
EXTENDS ErrorReporter, TLC
CONSTANTS r1, r2, m1, m2, m3

OneFrame == [t \in Recorders |-> <<"frame">>]
TwoThenOne == [t \in Recorders |-> IF t = r1 THEN 2 ELSE 1]
AnyMessage == Permutations(Messages)
=============================================================================
