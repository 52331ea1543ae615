------------------------------- MODULE Compare -------------------------------
(***************************************************************************)
(* compare (elfa-cli), the mappings: which rows of the observed process are  *)
(* the target's, and whether they are the ones the model predicts.          *)
(* Observed is external: what the kernel and ld.so make of the target's     *)
(* segments, wherever they put it, and what else lies in the process.       *)
(***************************************************************************)
EXTENDS Session, Sequences

-----------------------------------------------------------------------------
(* The process.                                                            *)

Row(start, end, prot, offset, path) ==
    [start |-> start, end |-> end, prot |-> prot, offset |-> offset, path |-> path]

\* Page p of segment i: of the file, or anonymous behind its last byte.
IsOfFile(i, p) == p < PageUp(Segs[i].vaddr + Segs[i].filesz)
InRelro(p) ==
    \E j \in DOMAIN Segs :
        /\ Segs[j].type = "GNU_RELRO"
        /\ PageDown(Segs[j].vaddr) <= p /\ p < PageDown(MemEnd(Segs[j]))
ProtOf(i, p) == IF InRelro(p) THEN ReadOnly ELSE Segs[i].prot

\* A row is a run of pages of one segment, one kind and one protection.
Alike(i, p, q) == IsOfFile(i, p) = IsOfFile(i, q) /\ ProtOf(i, p) = ProtOf(i, q)
PagesOf(i) == {p \in PageDown(Segs[i].vaddr) .. (PageUp(MemEnd(Segs[i])) - 1) : p % Page = 0}
RunFrom(i, p) ==
    {q \in PagesOf(i) : p <= q /\ \A x \in PagesOf(i) : p <= x /\ x <= q => Alike(i, p, x)}
RowFrom(i, p, base) ==
    LET last == CHOOSE q \in RunFrom(i, p) : \A x \in RunFrom(i, p) : x <= q
    IN  IF IsOfFile(i, p)
        THEN Row(base + p, base + last + Page, ProtOf(i, p),
                 PageDown(Segs[i].offset) + (p - PageDown(Segs[i].vaddr)), "target")
        ELSE Row(base + p, base + last + Page, ProtOf(i, p), 0, "none")
Own(base) ==
    UNION {{RowFrom(i, p, base) :
               p \in {q \in PagesOf(i) : q - Page \in PagesOf(i) => ~Alike(i, q - Page, q)}}
           : i \in Loads(Segs)}

\* What lies around the target: a library, one named like the target, an anonymous
\* row with a gap between, the heap on the very next page.
Neighbours(own) ==
    LET first == CHOOSE a \in {r.start : r \in own} : \A r \in own : a <= r.start
        last == CHOOSE a \in {r.end : r \in own} : \A r \in own : r.end <= a
    IN  {{},
         {Row(first - Page, first, {"r"}, 0, "library")},
         {Row(first - Page, first, {"r"}, 0, "libtarget")},
         {Row(first - Page, first, {"r", "w"}, 0, "none")},
         {Row(last, last + Page, {"r", "w"}, 0, "heap")},
         {Row(last + Page, last + 2 * Page, {"r", "w"}, 0, "none")},
         {Row(last, last + Page, {"r"}, 0, "library"), Row(last + Page, last + 2 * Page, {"r"}, 0, "none")}}

StartsBefore(a, b) == a.start <= b.start

Observed(base, others) == Ordered(Own(base) \cup others, StartsBefore)

-----------------------------------------------------------------------------
(* The comparison.                                                         *)

\* Mutant of ContinuesMine: no row without a name is the target's.
ContinuesNothing(taken, r) == FALSE

\* A row without a name that begins where the row taken last ends.
ContinuesMine(taken, r) ==
    /\ taken.taking /\ r.path = "none"
    /\ taken.rows # <<>> /\ taken.rows[Len(taken.rows)].end = r.start

\* A path that ends in the target's file name.
NamedLike(path) == path \in {"target", "libtarget"}

\* One row: the target's by name, or one that continues the row taken last.
Take(taken, r) ==
    IF NamedLike(r.path) \/ ContinuesMine(taken, r)
    THEN [rows |-> Append(taken.rows, r), taking |-> TRUE]
    ELSE [rows |-> taken.rows, taking |-> taken.taking /\ r.path = "none"]

NothingTaken == [rows |-> <<>>, taking |-> FALSE]
Rows(observed) == SX!FoldLeft(Take, NothingTaken, observed).rows

\* Only a position-independent program has a base to take away.
Base(rows, pie) == IF pie /\ rows # <<>> THEN rows[1].start ELSE 0

Seen(rows, pie) ==
    {[start |-> Minus(r.start, Base(rows, pie)), end |-> Minus(r.end, Base(rows, pie)),
      prot |-> r.prot, offset |-> IF r.path = "none" THEN Anonymous ELSE r.offset] :
        r \in SX!ToSet(rows)}
Predicted ==
    {[start |-> v.start, end |-> v.end, prot |-> v.prot, offset |-> v.offset] : v \in Vmas(mappings)}

MappingsVerdict(observed, pie) ==
    IF Rows(observed) = <<>> THEN "not modelled"
    ELSE IF Seen(Rows(observed), pie) = Predicted THEN "match" ELSE "differ"

-----------------------------------------------------------------------------
(* Properties.                                                             *)

NoNamesake(others) == \A r \in others : ~NamedLike(r.path)

LowestPage == CHOOSE p \in Pages(mappings) : \A q \in Pages(mappings) : p <= q

\* When the program is entered, the timeline's memory is found in the process row
\* by row, wherever the target is loaded and whatever lies beside it: .bss that
\* spills into pages without a name is the target's, and nobody else's is - if no
\* other path ends in the target's file name, there is a segment, every segment has
\* bytes in the file and pages of its own, there is one RELRO at most (of several the
\* timeline seals the first only), and a target that can be moved starts at page 0,
\* as linkers have it.
RowsAreFound ==
    /\ stage = "entered"
    /\ Loads(Segs) # {} /\ HaveFileBytes /\ PagesApart /\ NotCongruent = {}
    /\ \A i, j \in RelroSegments : i = j
    =>
        /\ MappingsVerdict(Observed(0, {}), FALSE) = "match"
        /\ LowestPage = 0 => \A others \in Neighbours(Own(4 * Page)) :
              NoNamesake(others) => MappingsVerdict(Observed(4 * Page, others), TRUE) = "match"
=============================================================================
