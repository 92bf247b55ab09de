----------------------------- MODULE BreakdownNode -----------------------------
(* The part of internal/breakdown_node.go that works on a reservoir: a         *)
(* sequence of durations, at most ReservoirSize of them by intent.             *)
EXTENDS Integers, Sequences, Functions

(* sort.Float64s: the samples, in an order in which none is above the next. *)
Ascending(reservoir, order) ==
    \A i, j \in DOMAIN reservoir : i < j => reservoir[order[i]] <= reservoir[order[j]]
Sorted(reservoir) ==
    LET places == DOMAIN reservoir
        order  == CHOOSE p \in Bijection(places, places) : Ascending(reservoir, p)
    IN  [i \in places |-> reservoir[order[i]]]

(* math.Floor(len / 100.0 * 95.0), from 0 as in Go, in exact arithmetic: the    *)
(* code's float64 product rounds to one less at 460, 820 and 920 samples, the   *)
(* only ones up to 1000 at which it differs.                                    *)
P95Index(len) == (len * 95) \div 100

(* The element evaluateP95 reads, and whether reading it is out of range. *)
P95InRange(reservoir) == P95Index(Len(reservoir)) < Len(reservoir)
P95(reservoir) == Sorted(reservoir)[P95Index(Len(reservoir)) + 1]
=============================================================================
