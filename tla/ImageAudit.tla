------------------------------ MODULE ImageAudit ------------------------------
(***************************************************************************)
(* What the audit (elfa-audit) says of segments, entry point and            *)
(* relocations, next to the load of the same object: the audit judges the   *)
(* mappings before anything is loaded, the load is what then happens.       *)
(***************************************************************************)
EXTENDS Timeline

Segs == object.segments
MemEnd(s) == s.vaddr + s.memsz
FileEnd(s) == s.vaddr + s.filesz

\* segments: all of these are suspicious.
ClaimsMoreFile == {i \in Loads(Segs) : Segs[i].filesz > Segs[i].memsz}
NotCongruent ==
    {i \in Loads(Segs) : Segs[i].filesz > 0 /\ Segs[i].offset % Page # Segs[i].vaddr % Page}
WritableAndExecutable == {i \in Loads(Segs) : {"w", "x"} \subseteq Segs[i].prot}

\* Mutant of Overlapping: .bss is left out.
OverlappingInFile ==
    {i \in Loads(Segs) : \E j \in Loads(Segs) :
        i < j /\ Segs[i].vaddr < FileEnd(Segs[j]) /\ Segs[j].vaddr < FileEnd(Segs[i])}

Overlapping ==
    {i \in Loads(Segs) : \E j \in Loads(Segs) :
        i < j /\ Segs[i].vaddr < MemEnd(Segs[j]) /\ Segs[j].vaddr < MemEnd(Segs[i])}

\* entry_point: an entry of 0 is none.
EntryIsFine ==
    object.entry # 0 => \E p \in ProtAt(Planned, object.entry) : "x" \in p

\* writable_code: the relocations that write where nothing may be written.
Unwritable ==
    {k \in DOMAIN object.relocs : ~\E p \in ProtAt(Planned, object.relocs[k].offset) : "w" \in p}

NothingSuspicious ==
    /\ ClaimsMoreFile = {} /\ NotCongruent = {}
    /\ WritableAndExecutable = {} /\ Overlapping = {}
    /\ EntryIsFine

-----------------------------------------------------------------------------
(* Properties.                                                             *)

\* The relocations that the load writes to memory it may not write are those the
\* audit tells of: none is written too late, after RELRO is sealed, and none that
\* the audit tells of turns out well.  What is unwritten when the initialisers run
\* is a plain PLT entry of a program that has a loader to trap into.
WrittenBeforeSealed ==
    /\ applied \ writable = applied \cap Unwritable
    /\ stage \in {"init", "entered"} =>
          \A k \in DOMAIN object.relocs \ applied :
              /\ object.relocs[k].table = "JmpRel" /\ ~object.relocs[k].ifunc
              /\ object.interp /\ ~object.bindNow

Executable(a) == \E p \in ProtAt(mappings, a) : "x" \in p

\* An object of which the audit suspects nothing is loaded soundly: when the
\* program is entered no byte of memory belongs to two segments, and nothing can be
\* both written and run, after mprotect, too.  The entry point can be run, but for
\* one case: the audit does not ask where RELRO lies, and the entry of a silent
\* object cannot be run exactly if mprotect has sealed its page.
SilentAuditIsSound ==
    stage = "entered" /\ NothingSuspicious =>
        /\ \A m, n \in mappings : m # n => End(m) <= n.vaddr \/ End(n) <= m.vaddr
        /\ \A m \in mappings : ~({"w", "x"} \subseteq m.prot)
        /\ object.entry # 0 => (Executable(object.entry) <=> ~Sealed(object.entry))
=============================================================================
