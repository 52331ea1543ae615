------------------------------- MODULE Timeline -------------------------------
(***************************************************************************)
(* The load of one object, step by step (elfa-model/src/lib.rs): the steps *)
(* that Timeline::plan lists, each with the effect that state_at gives it. *)
(* The state after any number of these steps is what state_at returns for  *)
(* that number.  Steps that are narrated only change the stage.            *)
(***************************************************************************)
EXTENDS MemImage, Sequences

CONSTANT Objects    \* what may be loaded

Tables == <<"Relr", "Rela", "Rel", "JmpRel">>
\* entry is where in the file the relocation itself lies.
FileSpan == [start : Nat, len : Nat]
Reloc == [table : {"Relr", "Rela", "Rel", "JmpRel"}, offset : Nat, ifunc : BOOLEAN, entry : FileSpan]

Object == [segments : Seq(Segment), fileLen : Nat, relocs : Seq(Reloc),
           interp : BOOLEAN, dynamic : BOOLEAN, bindNow : BOOLEAN,
           entry : Nat, needed : Nat, init : BOOLEAN, initArray : Nat]

ASSUME ObjectsAssumption == Objects \subseteq Object

VARIABLES
    object,     \* the object loaded
    stage,
    mappings,   \* State::mappings
    table,      \* the relocation table being applied, an index of Tables
    applied,    \* the relocations written so far, as indices of object.relocs
    writable    \* of these, the ones that were written to a writable mapping

vars == <<object, stage, mappings, table, applied, writable>>

Planned == Mappings(object.segments)

\* is_deferred: lazy binding takes a loader, no BIND_NOW, and no ifunc.
Deferred(r) ==
    /\ r.table = "JmpRel"
    /\ object.dynamic /\ object.interp
    /\ ~object.bindNow
    /\ ~r.ifunc

\* The relocations of table t that are written during startup.
Group(t) == {k \in DOMAIN object.relocs :
                object.relocs[k].table = Tables[t] /\ ~Deferred(object.relocs[k])}

RelroSegments == {i \in DOMAIN object.segments : object.segments[i].type = "GNU_RELRO"}
Relro == object.segments[CHOOSE i \in RelroSegments : \A j \in RelroSegments : i <= j]

\* Mutant of RelroStart: the first page is split.
RelroStartExact == Relro.vaddr

\* Mutant of RelroEnd: the end is rounded up.
RelroEndUp == PageUp(Relro.vaddr + Relro.memsz)

\* Both ends are rounded down.
RelroStart == PageDown(Relro.vaddr)
RelroEnd == PageDown(Relro.vaddr + Relro.memsz)
HasRelro == RelroSegments # {} /\ RelroEnd > RelroStart

\* Mutant of Slice: the file offset stays that of the whole mapping.
SliceUnaligned(m, lo, hi, prot) ==
    [vaddr |-> lo, len |-> Minus(hi, lo), prot |-> prot, source |-> m.source,
     offset |-> m.offset, segment |-> m.segment]

Slice(m, lo, hi, prot) ==
    [vaddr |-> lo, len |-> Minus(hi, lo), prot |-> prot, source |-> m.source,
     offset |-> IF m.source = "file" THEN m.offset + Minus(lo, m.vaddr) ELSE m.offset,
     segment |-> m.segment]

\* mprotect splits a mapping.
Split(m, from, to, prot) ==
    IF End(m) <= from \/ m.vaddr >= to THEN {m}
    ELSE UNION {IF m.vaddr < from THEN {Slice(m, m.vaddr, from, m.prot)} ELSE {},
                {Slice(m, Higher(m.vaddr, from), Lower(End(m), to), prot)},
                IF End(m) > to THEN {Slice(m, to, End(m), m.prot)} ELSE {}}

-----------------------------------------------------------------------------
\* The kernel maps the segments in the order of their addresses.
Map ==
    /\ stage = "kernel"
    /\ \E m \in Planned \ mappings :
          /\ \A n \in Planned \ mappings : KeyLeq(m, n)
          /\ mappings' = mappings \cup {m}
    /\ UNCHANGED <<object, stage, table, applied, writable>>

KernelDone ==
    /\ stage = "kernel"
    /\ Planned \subseteq mappings
    /\ stage' = "relocate"
    /\ table' = 1
    /\ UNCHANGED <<object, mappings, applied, writable>>

\* One relocation, in the order of the table.
Write ==
    /\ stage = "relocate"
    /\ table <= Len(Tables)
    /\ \E k \in Group(table) \ applied :
          /\ \A j \in Group(table) \ applied : k <= j
          /\ applied' = applied \cup {k}
          /\ writable' = IF \E p \in ProtAt(mappings, object.relocs[k].offset) : "w" \in p
                         THEN writable \cup {k} ELSE writable
    /\ UNCHANGED <<object, stage, mappings, table>>

\* Mutant of NextTable: RELRO is sealed before the last table is applied.
NextTableSealsEarly ==
    /\ stage = "relocate"
    /\ table <= Len(Tables)
    /\ Group(table) \subseteq applied
    /\ table' = table + 1
    /\ mappings' = IF table' = Len(Tables) /\ HasRelro
                   THEN UNION {Split(m, RelroStart, RelroEnd, ReadOnly) : m \in mappings}
                   ELSE mappings
    /\ UNCHANGED <<object, stage, applied, writable>>

NextTable ==
    /\ stage = "relocate"
    /\ table <= Len(Tables)
    /\ Group(table) \subseteq applied
    /\ table' = table + 1
    /\ UNCHANGED <<object, stage, mappings, applied, writable>>

Protect ==
    /\ stage = "relocate"
    /\ table > Len(Tables)
    /\ HasRelro
    /\ mappings' = UNION {Split(m, RelroStart, RelroEnd, ReadOnly) : m \in mappings}
    /\ stage' = "init"
    /\ UNCHANGED <<object, table, applied, writable>>

NothingToProtect ==
    /\ stage = "relocate"
    /\ table > Len(Tables)
    /\ ~HasRelro
    /\ stage' = "init"
    /\ UNCHANGED <<object, mappings, table, applied, writable>>

\* The initialisers run, and control goes to the program.
Enter ==
    /\ stage = "init"
    /\ stage' = "entered"
    /\ UNCHANGED <<object, mappings, table, applied, writable>>

-----------------------------------------------------------------------------
Init ==
    /\ object \in Objects
    /\ stage = "kernel"
    /\ mappings = {}
    /\ table = 1
    /\ applied = {}
    /\ writable = {}

Next == Map \/ KernelDone \/ Write \/ NextTable \/ Protect \/ NothingToProtect \/ Enter

Spec == Init /\ [][Next]_vars

-----------------------------------------------------------------------------
(* Properties.                                                             *)

\* Every variable has its type.
TypeOK ==
    /\ object \in Object
    /\ stage \in {"kernel", "relocate", "init", "entered"}
    /\ mappings \subseteq Mapping
    /\ table \in 1 .. (Len(Tables) + 1)
    /\ applied \subseteq DOMAIN object.relocs
    /\ writable \subseteq applied

Extent(s) == s.vaddr .. (s.vaddr + Higher(s.filesz, s.memsz) - 1)

\* What a mapping of segment s shows at address a: the byte of the file that
\* the header promises there, or a zero where it promises no file byte.
ShowsRightByte(m, s, a) ==
    IF a < s.vaddr + s.filesz
    THEN m.source = "file" /\ m.offset + (a - m.vaddr) = s.offset + (a - s.vaddr)
    ELSE m.source = "zero"

\* Each byte of each segment is mapped once for it and shows what its header says,
\* and nothing else is mapped.
MappedAsPlanned(M) ==
    /\ \A i \in Loads(object.segments) : \A a \in Extent(object.segments[i]) :
          \E m \in M :
              /\ m.segment = i /\ In(m, a)
              /\ ShowsRightByte(m, object.segments[i], a)
              /\ \A n \in M : n.segment = i /\ In(n, a) => n = m
    /\ \A m \in M :
          /\ m.segment \in Loads(object.segments)
          /\ m.vaddr .. (End(m) - 1) \subseteq Extent(object.segments[m.segment])

\* From the end of the kernel's part on, the memory is what the headers ask for:
\* the loader splits mappings, but never changes what is mapped.
SegmentsAreMapped == stage # "kernel" => MappedAsPlanned(mappings)

\* The page of address a starts no lower than the page RELRO starts in, and ends
\* no higher than RELRO does.
Sealed(a) ==
    /\ RelroSegments # {}
    /\ PageDown(Relro.vaddr) <= PageDown(a)
    /\ PageDown(a) + Page <= Relro.vaddr + Relro.memsz

\* When the initialisers run, the pages that RELRO fills to their end are
\* read-only, and everything else has the protection of its segment: a page that
\* RELRO leaves halfway stays writable, and the split recolours nothing else.
SealedExactly ==
    stage \in {"init", "entered"} =>
        \A m \in mappings : \A a \in m.vaddr .. (End(m) - 1) :
            m.prot = IF Sealed(a) THEN ReadOnly ELSE object.segments[m.segment].prot
=============================================================================
