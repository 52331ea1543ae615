---------------------------- MODULE IntervalIndex ----------------------------
(***************************************************************************)
(* The point and range queries over a finished claim set                   *)
(* (elfa-parse/src/index.rs): one file's entries sorted by start with a    *)
(* running maximum of their ends, and a backward walk that gives up as     *)
(* soon as that maximum shows that no earlier entry can reach.  The lists  *)
(* of different files never meet; this is the list of one file.            *)
(*                                                                         *)
(* Build and query are modelled loop by loop, so that what the walk skips  *)
(* rests on the sort and on the running maximum as they were built.  The   *)
(* answer is the set of ids found: each entry is visited at most once, and *)
(* the order the ids are returned in is the subject of module Queries.     *)
(***************************************************************************)
EXTENDS Span, Sequences

CONSTANTS
    Inputs,     \* the sequences of spans an index is built from; ids are positions
    Probes      \* the spans asked for; a point query asks for the start of one

IndexedSpan == [file : {0}, start : U64, len : U64]

ASSUME InputsAssumption == Inputs \subseteq Seq(IndexedSpan)
ASSUME ProbesAssumption == Probes \subseteq IndexedSpan

VARIABLES
    spans,      \* the input
    entries,    \* the file's list
    stage,
    scan,       \* build: the input, then the entry, the loop has reached
    running,    \* build: the running maximum
    kind,       \* the query in progress, at or overlapping
    probe,      \* and what it asks for
    i,          \* the walk: entries 1 .. i are still to be looked at
    hits        \* the ids found

buildVars == <<spans, entries, scan, running>>
queryVars == <<kind, probe, i, hits>>
vars == <<spans, entries, stage, scan, running, kind, probe, i, hits>>

Max2(a, b) == IF a > b THEN a ELSE b

Entry(s, id) == [start |-> s.start, end |-> SpanEnd(s), maxEnd |-> 0, id |-> id]

NoProbe == [file |-> 0, start |-> 0, len |-> 0]

-----------------------------------------------------------------------------
(* build.                                                                  *)

\* Empty spans are skipped.
Collect ==
    /\ stage = "collect"
    /\ scan <= Len(spans)
    /\ entries' = IF IsEmpty(spans[scan]) THEN entries
                  ELSE Append(entries, Entry(spans[scan], scan))
    /\ scan' = scan + 1
    /\ UNCHANGED <<spans, stage, running, queryVars>>

KeyLeq(d, e) == d.start < e.start \/ (d.start = e.start /\ d.end <= e.end)

Permutations == {p \in [DOMAIN entries -> DOMAIN entries] :
                    \A m \in DOMAIN entries : \E k \in DOMAIN entries : p[k] = m}

\* Mutant of SortEntries: the list is left in the order of the input.
SortNothing ==
    /\ stage = "collect"
    /\ scan > Len(spans)
    /\ stage' = "maximum"
    /\ scan' = 1
    /\ UNCHANGED <<spans, entries, running, queryVars>>

\* sort_unstable_by_key: any order in which the keys do not decrease.
SortEntries ==
    /\ stage = "collect"
    /\ scan > Len(spans)
    /\ \E p \in Permutations :
          /\ \A k, m \in DOMAIN entries :
                k < m => KeyLeq(entries[p[k]], entries[p[m]])
          /\ entries' = [k \in 1 .. Len(entries) |-> entries[p[k]]]
    /\ stage' = "maximum"
    /\ scan' = 1
    /\ UNCHANGED <<spans, running, queryVars>>

RunningMaximum ==
    /\ stage = "maximum"
    /\ scan <= Len(entries)
    /\ running' = Max2(running, entries[scan].end)
    /\ entries' = [entries EXCEPT ![scan].maxEnd = Max2(running, entries[scan].end)]
    /\ scan' = scan + 1
    /\ UNCHANGED <<spans, stage, queryVars>>

Built ==
    /\ stage = "maximum"
    /\ scan > Len(entries)
    /\ stage' = "ready"
    /\ UNCHANGED <<buildVars, queryVars>>

-----------------------------------------------------------------------------
(* The queries.  Both look at the entries that begin early enough, from    *)
(* the last one backwards, and keep those that end late enough.            *)

EarlyEnough(k, q) == {n \in DOMAIN entries :
    IF k = "at" THEN entries[n].start <= q.start ELSE entries[n].start < SpanEnd(q)}

\* partition_point: how many entries begin early enough, when these are the
\* first ones of the list; unspecified when they are not.
Ask(k, q) ==
    /\ stage = "ready"
    /\ kind' = k
    /\ probe' = q
    /\ IF k = "overlapping" /\ IsEmpty(q)
       THEN stage' = "answer" /\ i' = 0
       ELSE /\ stage' = "walk"
            /\ i' \in 0 .. Len(entries)
            /\ \A n \in 0 .. Len(entries) : EarlyEnough(k, q) = 1 .. n => i' = n
    /\ hits' = {}
    /\ UNCHANGED buildVars

WalkEntry ==
    /\ stage = "walk"
    /\ i > 0
    /\ entries[i].maxEnd > probe.start
    /\ hits' = IF entries[i].end > probe.start THEN hits \cup {entries[i].id} ELSE hits
    /\ i' = i - 1
    /\ UNCHANGED <<buildVars, stage, kind, probe>>

\* Mutant of WalkEnds: the entry's own end is taken for the running maximum.
WalkEndsOnEnd ==
    /\ stage = "walk"
    /\ i > 0 => entries[i].end <= probe.start
    /\ stage' = "answer"
    /\ UNCHANGED <<buildVars, queryVars>>

\* The list is exhausted, or nothing at or before entry i reaches the probe.
WalkEnds ==
    /\ stage = "walk"
    /\ i > 0 => entries[i].maxEnd <= probe.start
    /\ stage' = "answer"
    /\ UNCHANGED <<buildVars, queryVars>>

Return ==
    /\ stage = "answer"
    /\ stage' = "ready"
    /\ kind' = "at" /\ probe' = NoProbe /\ i' = 0 /\ hits' = {}
    /\ UNCHANGED buildVars

-----------------------------------------------------------------------------
Init ==
    /\ spans \in Inputs
    /\ entries = <<>>
    /\ stage = "collect"
    /\ scan = 1
    /\ running = 0
    /\ kind = "at" /\ probe = NoProbe /\ i = 0 /\ hits = {}

Next ==
    \/ Collect \/ SortEntries \/ RunningMaximum \/ Built
    \/ \E k \in {"at", "overlapping"}, q \in Probes : Ask(k, q)
    \/ WalkEntry \/ WalkEnds \/ Return

Spec == Init /\ [][Next]_vars

-----------------------------------------------------------------------------
(* Properties.                                                             *)

EntryType == [start : U64, end : U64, maxEnd : U64, id : Nat]

\* Every variable has its type; in particular no end passes u64::MAX.
TypeOK ==
    /\ spans \in Seq(IndexedSpan)
    /\ entries \in Seq(EntryType)
    /\ stage \in {"collect", "maximum", "ready", "walk", "answer"}
    /\ scan \in Nat \ {0}
    /\ running \in U64
    /\ kind \in {"at", "overlapping"}
    /\ probe \in IndexedSpan
    /\ i \in 0 .. Len(entries)
    /\ hits \subseteq Nat

\* What the caller asked for: the claims that cover the offset, or those that
\* share a byte with the probe.
Wanted(id) == IF kind = "at" THEN Contains(spans[id], 0, probe.start)
              ELSE Overlaps(spans[id], probe)

\* A query returns every claim it was asked for and no other, although the walk
\* stops at the first entry whose running maximum falls short.
AnswerIsExact ==
    stage = "answer" => hits = {id \in DOMAIN spans : Wanted(id)}

\* Why: the list holds every span that is not empty, in order of their starts,
\* and no entry ends after the running maximum of a later one.
Describes(e, s) == ~IsEmpty(s) /\ e.start = s.start /\ e.end = SpanEnd(s)

Lists(n) ==
    /\ \A k \in DOMAIN entries :
          entries[k].id \in 1 .. n /\ Describes(entries[k], spans[entries[k].id])
    /\ \A id \in 1 .. n : ~IsEmpty(spans[id]) => \E k \in DOMAIN entries : entries[k].id = id

Sorted == \A k, m \in DOMAIN entries : k < m => entries[k].start <= entries[m].start

Bounded(n) == \A m \in 1 .. n : \A k \in 1 .. m : entries[k].end <= entries[m].maxEnd

IndexInv ==
    /\ stage = "collect" => scan <= Len(spans) + 1 /\ Lists(scan - 1)
    /\ stage # "collect" => Lists(Len(spans)) /\ Sorted
    /\ stage = "maximum" =>
          /\ scan <= Len(entries) + 1
          /\ Bounded(scan - 1)
          /\ \A k \in 1 .. (scan - 1) : entries[k].end <= running
    /\ stage \in {"ready", "walk", "answer"} => Bounded(Len(entries))
    /\ stage = "walk" =>
          /\ kind = "overlapping" => ~IsEmpty(probe)
          /\ 1 .. i \subseteq EarlyEnough(kind, probe)
          /\ hits \subseteq {id \in DOMAIN spans : Wanted(id)}
          /\ \A k \in (i + 1) .. Len(entries) :
                Wanted(entries[k].id) => entries[k].id \in hits
    /\ AnswerIsExact
=============================================================================
