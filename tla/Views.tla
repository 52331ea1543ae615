-------------------------------- MODULE Views --------------------------------
(***************************************************************************)
(* How the views of one loaded object agree: the exact mappings of the     *)
(* timeline, the page-rounded vmas derived from them and those derived     *)
(* from the headers, and the addresses of file offsets.                    *)
(***************************************************************************)
EXTENDS ImageAudit

R == Residents(object.segments, object.fileLen)

-----------------------------------------------------------------------------
(* Properties.                                                             *)

\* What a linker puts out, as far as pages are concerned: no two segments meet in
\* a page of memory, and none has more bytes in the file than in memory.
PagesApart ==
    /\ ClaimsMoreFile = {}
    /\ \A i, j \in Loads(Segs) : i # j =>
          \/ PageUp(MemEnd(Segs[i])) <= PageDown(Segs[j].vaddr)
          \/ PageUp(MemEnd(Segs[j])) <= PageDown(Segs[i].vaddr)

Holds(v, a) == v.start <= a /\ a < v.end

\* The page-rounded view and the exact one are of one memory, before and after
\* the split: a mapped address is in one vma, which has the protection that
\* prot_at gives the address - where no two segments meet in a page.
ViewsAgree ==
    LET all == Vmas(mappings)
    IN  stage # "kernel" /\ PagesApart =>
          \A m \in mappings : \A a \in m.vaddr .. (End(m) - 1) :
              LET here == {v \in all : Holds(v, a)}
              IN  Cardinality(here) = 1 /\ {v.prot : v \in here} = ProtAt(mappings, a)

Headers == {KernelVma(object.segments[i], i) : i \in Loads(object.segments)}

HaveMemory == \A i \in Loads(object.segments) : object.segments[i].memsz > 0

\* The vmas told from the headers cover the pages that are mapped before the
\* loader touches them, with the protection, for the segment and from the place
\* in the file they have - if every segment has memory: an empty one has a vma
\* where nothing is mapped.
KernelVmasAgree ==
    LET all == Vmas(mappings)
    IN  stage = "relocate" /\ PagesApart /\ HaveMemory =>
          /\ Pages(mappings) = UNION {{p \in h.start .. (h.end - 1) : p % Page = 0} : h \in Headers}
          /\ \A h \in Headers, v \in all : v.start < h.end /\ h.start < v.end =>
                /\ v.prot = h.prot /\ v.segment = h.segment
                /\ v.offset # Anonymous => v.offset - v.start = h.offset - h.start

HaveFileBytes == \A i \in Loads(object.segments) : object.segments[i].filesz > 0

\* The address given for a file offset is in a vma that shows that very byte,
\* before and after the split, if every segment has bytes in the file and lies in
\* pages of its own.
AddressesTranslate ==
    LET all == Vmas(mappings)
    IN  stage # "kernel" /\ HaveFileBytes /\ PagesApart /\ NotCongruent = {} =>
          \A off \in 0 .. (object.fileLen - 1) : \A va \in VaddrOf(R, off) :
              \E v \in all : Holds(v, va) /\ v.offset + (va - v.start) = off
==============================================================================
