-------------------------------- MODULE Audit --------------------------------
(***************************************************************************)
(* The audit of an accepted file (elfa-audit), as far as it reads the       *)
(* claims: what it says of the holes and of the section headers.  What it   *)
(* says of segments, entry and relocations is in module ImageAudit.         *)
(***************************************************************************)
EXTENDS Parser

CONSTANTS
    HoleWorth,      \* 256: shorter holes are alignment
    HoleLarge       \* 1024: from here on a hole is reported

ASSUME HolesAssumption == HoleLarge \in Nat \ {0} /\ HoleWorth \in 0 .. HoleLarge

\* Entropy above 7.2: the bytes are what compression leaves.
HighEntropy(i) == (claims[i].start .. (SpanEnd(claims[i]) - 1)) \subseteq elf.dense

\* Mutant of AtEnd: the last byte is taken for one past the end.
PastEnd(i) == SpanEnd(claims[i]) > Stats.total

AtEnd(i) == SpanEnd(claims[i]) >= Stats.total

\* unexplained: the holes long enough to look at.
Worth(i) == IsLeaf(i) /\ claims[i].kind = "Unclaimed" /\ claims[i].len >= HoleWorth

Finding(i, title) == [title |-> title, start |-> claims[i].start, len |-> claims[i].len]

Unexplained ==
    {IF AtEnd(i) THEN Finding(i, "appended") ELSE Finding(i, "belongs to nothing") :
        i \in {j \in Ids : Worth(j) /\ claims[j].len >= HoleLarge /\ (AtEnd(j) \/ HighEntropy(j))}}

SectionHeaders ==
    IF Shnum = 0 THEN {[title |-> "no section headers", start |-> 0, len |-> 0]} ELSE {}

FileFindings == Unexplained \cup SectionHeaders

-----------------------------------------------------------------------------
(* Properties.                                                             *)

Describes(b) ==
    \/ \E k \in Regions : InRegion(k, b)
    \/ \E k \in DOMAIN Segments :
          Segments[k].offset <= b /\ b < Segments[k].offset + Segments[k].filesz

Reported(f, b) == f.start <= b /\ b < f.start + f.len

\* An "appended" run is bytes "that no header, section or segment describes".
AppendedIsUndescribed ==
    result.kind = "Ok" =>
        \A f \in FileFindings : f.title = "appended" =>
            \A b \in 0 .. elf.len - 1 : Reported(f, b) => ~Describes(b)

\* Data appended past everything the file describes is found: when the bytes
\* after the last header, table, section and segment are many enough, one finding
\* covers them all, whatever is left over inside the structures before them.
AppendedIsReported ==
    result.kind = "Ok" =>
        LET described == {b \in 0 .. elf.len - 1 : Describes(b)}
            tail == {b \in 0 .. elf.len - 1 : \A d \in described : d < b}
        IN  Cardinality(tail) >= HoleLarge =>
                \E f \in FileFindings :
                    f.title = "appended" /\ \A b \in tail : Reported(f, b)
=============================================================================
