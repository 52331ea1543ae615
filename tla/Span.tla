-------------------------------- MODULE Span --------------------------------
(***************************************************************************)
(* Byte ranges of a file (elfa-parse/src/span.rs).  A span is any record   *)
(* with the fields file, start and len, so a claim can stand for the span  *)
(* it carries.  The u64 arithmetic saturates, as in the code; MaxU64 is a  *)
(* constant so that TLC can put the limit within reach of small spans.     *)
(***************************************************************************)
EXTENDS Integers

CONSTANT MaxU64        \* u64::MAX

ASSUME MaxU64Assumption == MaxU64 \in Nat

U64 == 0 .. MaxU64

SatAdd(a, b) == IF a + b > MaxU64 THEN MaxU64 ELSE a + b

SpanEnd(s) == SatAdd(s.start, s.len)

IsEmpty(s) == s.len = 0

\* The byte at offset off of file f lies in s.
Contains(s, f, off) == s.file = f /\ s.start <= off /\ off < SpanEnd(s)

\* Two spans share a byte; an empty span shares none.
Overlaps(s, t) ==
    /\ s.file = t.file /\ ~IsEmpty(s) /\ ~IsEmpty(t)
    /\ s.start < SpanEnd(t) /\ t.start < SpanEnd(s)

\* t nests in s.  The range is closed: an empty span at the end of s nests.
ContainsSpan(s, t) ==
    s.file = t.file /\ s.start <= t.start /\ SpanEnd(t) <= SpanEnd(s)
=============================================================================
