------------------------------- MODULE MemImage -------------------------------
(***************************************************************************)
(* What program headers become in memory (elfa-model/src/lib.rs): mappings *)
(* as exact as the segments are, the page-rounded view that /proc shows,   *)
(* the file bytes that are resident, and the address of a file offset.     *)
(*                                                                         *)
(* The code keeps its lists sorted by (vaddr, len), or by (start, len), so *)
(* a list is a set here and "the first" or "the last" is said by the key.  *)
(* A page is Page bytes; addresses are far below 2^64, where nothing       *)
(* saturates.                                                              *)
(***************************************************************************)
EXTENDS Integers, FiniteSets

CONSTANT Page       \* PAGE_SIZE

ASSUME PageAssumption == Page \in Nat \ {0}

PageDown(v) == v - (v % Page)
PageUp(v) == PageDown(v + Page - 1)
Lower(x, y) == IF x < y THEN x ELSE y
Higher(x, y) == IF x > y THEN x ELSE y

\* saturating_sub
Minus(x, y) == IF x > y THEN x - y ELSE 0

Prots == SUBSET {"r", "w", "x"}
ReadOnly == {"r"}

Segment == [type : {"LOAD", "GNU_RELRO", "other"}, prot : Prots,
            offset : Nat, vaddr : Nat, filesz : Nat, memsz : Nat]

Source == {"file", "zero"}
Mapping == [vaddr : Nat, len : Nat \ {0}, prot : Prots, source : Source, offset : Nat, segment : Nat]

End(m) == m.vaddr + m.len
In(m, a) == m.vaddr <= a /\ a < End(m)

-----------------------------------------------------------------------------
(* from_segments, for the segments segs of a file of flen bytes.           *)

Loads(segs) == {i \in DOMAIN segs : segs[i].type = "LOAD"}

FileMapping(s, i) ==
    [vaddr |-> s.vaddr, len |-> s.filesz, prot |-> s.prot,
     source |-> "file", offset |-> s.offset, segment |-> i]

\* .bss: in no file.
ZeroMapping(s, i) ==
    [vaddr |-> s.vaddr + s.filesz, len |-> Minus(s.memsz, s.filesz), prot |-> s.prot,
     source |-> "zero", offset |-> 0, segment |-> i]

Mappings(segs) ==
    {FileMapping(segs[i], i) : i \in {j \in Loads(segs) : segs[j].filesz > 0}} \cup
    {ZeroMapping(segs[i], i) : i \in {j \in Loads(segs) : segs[j].memsz > segs[j].filesz}}

\* Mutant of KernelVma: the zero-filled part is left out.
KernelVmaOfFile(s, i) ==
    [start |-> PageDown(s.vaddr), end |-> PageUp(s.vaddr + s.filesz), prot |-> s.prot,
     offset |-> PageDown(s.offset), segment |-> i]

\* MemImage::vmas: one per segment, before anything is protected.
KernelVma(s, i) ==
    [start |-> PageDown(s.vaddr), end |-> PageUp(s.vaddr + s.memsz), prot |-> s.prot,
     offset |-> PageDown(s.offset), segment |-> i]

\* The bytes after the segment in its last page are there too, unless a
\* zero-filled tail wipes them.
ResidentEnd(s, flen) ==
    LET exact == s.offset + s.filesz
        hi == IF s.memsz > s.filesz THEN exact ELSE PageUp(exact)
    IN  Lower(hi, flen)

\* Mutant of Resident: the address is that of the segment, not of its page.
ResidentAtSegment(s, flen, i) ==
    [start |-> PageDown(s.offset), end |-> ResidentEnd(s, flen),
     exactStart |-> s.offset, exactEnd |-> s.offset + s.filesz,
     vaddr |-> s.vaddr, segment |-> i]

Resident(s, flen, i) ==
    [start |-> PageDown(s.offset), end |-> ResidentEnd(s, flen),
     exactStart |-> s.offset, exactEnd |-> s.offset + s.filesz,
     vaddr |-> Minus(s.vaddr, s.offset % Page), segment |-> i]

Residents(segs, flen) ==
    {r \in {Resident(segs[i], flen, i) : i \in Loads(segs)} : r.start < r.end}

-----------------------------------------------------------------------------
(* Queries.                                                                *)

\* The first residents of a set in the order of (start, len); more than one
\* when they tie, the sort being unstable.
FirstOf(R) == {r \in R : \A q \in R : r.start < q.start \/ (r.start = q.start /\ r.end <= q.end)}

\* Mutant of VaddrOf: a page that is merely shared counts as much as the owner's.
VaddrOfPage(R, off) ==
    {r.vaddr + (off - r.start) : r \in FirstOf({r \in R : r.start <= off /\ off < r.end})}

\* vaddr_of: what it may answer, the segment that owns the byte before any whose
\* page it merely shares; nothing when the byte is not loaded.
VaddrOf(R, off) ==
    LET owners == {r \in R : r.exactStart <= off /\ off < r.exactEnd}
        sharers == {r \in R : r.start <= off /\ off < r.end}
    IN  {r.vaddr + (off - r.start) :
            r \in FirstOf(IF owners # {} THEN owners ELSE sharers)}

-----------------------------------------------------------------------------
(* State::prot_at and State::vmas, for the mappings M.                     *)

KeyLeq(m, n) == m.vaddr < n.vaddr \/ (m.vaddr = n.vaddr /\ m.len <= n.len)

\* prot_at, as a set that is empty when the answer is None.
ProtAt(M, a) ==
    LET hits == {m \in M : In(m, a)}
    IN  {m.prot : m \in {h \in hits : \A n \in hits : KeyLeq(h, n)}}

OnPage(M, p) == {m \in M : PageDown(m.vaddr) <= p /\ p < PageUp(End(m))}

\* Later mappings overwrite earlier ones, page by page.
LastOf(N) == CHOOSE m \in N : \A n \in N : KeyLeq(n, m)

Anonymous == -1

\* A zero-filled mapping keeps the file offset that the page has already.
PageOffset(N, p) ==
    LET fromFile == {m \in N : m.source = "file"}
        m == LastOf(fromFile)
    IN  IF fromFile = {} THEN Anonymous
        ELSE PageDown(m.offset) + (p - PageDown(m.vaddr))

PageAt(M, p) ==
    LET N == OnPage(M, p)
    IN  [prot |-> LastOf(N).prot, offset |-> PageOffset(N, p), segment |-> LastOf(N).segment]

Pages(M) ==
    {p \in UNION {PageDown(m.vaddr) .. (PageUp(End(m)) - 1) : m \in M} : p % Page = 0}

\* Page p belongs to the vma of the page before it.
Continues(M, p) ==
    /\ p - Page \in Pages(M)
    /\ LET last == PageAt(M, p - Page)
           next == PageAt(M, p)
       IN  /\ last.prot = next.prot
           /\ last.segment = next.segment
           /\ IF last.offset = Anonymous THEN next.offset = Anonymous
              ELSE next.offset = last.offset + Page

\* The pages of the vma that starts at page p, and the page after the last one.
Run(M, p) == {q \in Pages(M) : p <= q /\ \A x \in Pages(M) : p < x /\ x <= q => Continues(M, x)}
RunEnd(M, p) == Page + CHOOSE q \in Run(M, p) : \A x \in Run(M, p) : x <= q

Vmas(M) ==
    {[start |-> p, end |-> RunEnd(M, p), prot |-> PageAt(M, p).prot,
      offset |-> PageAt(M, p).offset, segment |-> PageAt(M, p).segment] :
        p \in {x \in Pages(M) : ~Continues(M, x)}}
=============================================================================
