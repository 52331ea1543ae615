--------------------------- MODULE MCIntervalIndex ---------------------------
(* Values of the constants of IntervalIndex for TLC: every sequence of up   *)
(* to three spans whose starts and lengths are at most 3, u64::MAX being 3. *)
EXTENDS IntervalIndex

SmallSpans == [file : {0}, start : 0 .. 3, len : 0 .. 3]
UpToThreeSpans == UNION {[1 .. n -> SmallSpans] : n \in 0 .. 3}
SomeProbes == {q \in SmallSpans : q.len < 3}
=============================================================================
