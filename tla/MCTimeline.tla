----------------------------- MODULE MCTimeline -----------------------------
(* Values of the constants of Timeline for TLC: what a linker puts out, on  *)
(* pages of two bytes.  Segments come in the order of their addresses, each *)
(* address congruent to its offset, no two on one page of memory, though    *)
(* they may share pages of the file; RELRO lies in the writable segment,    *)
(* and relocations write there.                                             *)
EXTENDS Compare, Residency

Load(prot, off, vaddr, filesz, memsz) ==
    [type |-> "LOAD", prot |-> prot, offset |-> off, vaddr |-> vaddr,
     filesz |-> filesz, memsz |-> memsz]
RelroSegment(vaddr, memsz) ==
    [type |-> "GNU_RELRO", prot |-> {"r"}, offset |-> 0, vaddr |-> vaddr,
     filesz |-> 0, memsz |-> memsz]

Texts == {Load({"r", "x"}, 0, 0, n, n) : n \in 1 .. 3}

NextPage(s, off) == PageUp(s.vaddr + s.memsz) + (off % Page)

\* Data, with and without a zero-filled tail, on the page after the segment s.
DataAfter(s) ==
    {Load({"r", "w"}, off, NextPage(s, off), f, n) :
        off \in s.offset + s.filesz .. 3, f \in 0 .. 3, n \in 1 .. 4}

\* RELRO starts with the data or a byte later, and ends with it at the latest.
RelroIn(data) ==
    {s \in {RelroSegment(data.vaddr + d, n) : d \in 0 .. 1, n \in 0 .. 4} :
        s.vaddr + s.memsz <= data.vaddr + data.memsz}

\* Text and data; or a third segment between them that shares their file page.
Between == Load({"r"}, 1, 3, 1, 1)
Linked ==
    UNION {{<<text, data>> : data \in {d \in DataAfter(text) : d.filesz <= d.memsz}} : text \in Texts}
    \cup {<<Load({"r", "x"}, 0, 0, 1, 1), Between, Load({"r", "w"}, 1, 5, 0, n)>> : n \in 1 .. 2}

Last(segs) == segs[Len(segs)]

\* One relocation of the first data byte, one PLT entry of the last.
RelocsIn(data, x) ==
    <<[table |-> "Rela", offset |-> data.vaddr, ifunc |-> FALSE, entry |-> [start |-> 1, len |-> 1]],
      [table |-> "JmpRel", offset |-> data.vaddr + data.memsz - 1, ifunc |-> x,
       entry |-> [start |-> 0, len |-> 1]]>>

Output(segs, relro, pad, mode, x) ==
    [segments |-> segs \o relro,
     fileLen |-> Last(segs).offset + Last(segs).filesz + pad,
     relocs |-> RelocsIn(Last(segs), x),
     interp |-> mode.interp, dynamic |-> mode.interp, bindNow |-> mode.now,
     entry |-> 0, needed |-> IF mode.interp THEN 2 ELSE 0, init |-> x, initArray |-> IF x THEN 0 ELSE 1]

RelroOf(segs) == {<<>>} \cup {<<r>> : r \in RelroIn(Last(segs))}

Static == [interp |-> FALSE, now |-> FALSE]
Lazy == [interp |-> TRUE, now |-> FALSE]
Now == [interp |-> TRUE, now |-> TRUE]

\* Every layout, with an ifunc among the PLT entries; the other ways to bind for
\* the layouts with one byte of text, the layout not mattering to them.
Outputs ==
    UNION {{Output(segs, relro, pad, Lazy, TRUE) : relro \in RelroOf(segs), pad \in {0, 2}}
              : segs \in Linked}
    \cup
    UNION {{Output(segs, relro, 0, mode, x) :
              relro \in RelroOf(segs), mode \in {Static, Lazy, Now}, x \in BOOLEAN}
              : segs \in {s \in Linked : s[1].filesz = 1}}

\* Objects no linker puts out: segments that overlap in memory, behind .bss and in
\* the middle, with more file than memory, at addresses no page can be mapped to,
\* writable code, code that is relocated, code that RELRO seals; entered in code, in
\* data or nowhere.
Malformed ==
    {[Output(<<Load(p, 0, 2, 2, n), Load({"r", "w"}, 2, v, f, 2)>>, relro, 0, Lazy, TRUE)
        EXCEPT !.entry = e,
               !.relocs = @ \o <<[table |-> "Rel", offset |-> a, ifunc |-> FALSE,
                                  entry |-> [start |-> 3, len |-> 1]]>>] :
        p \in {{"r", "x"}, {"r", "w", "x"}}, n \in 1 .. 4, v \in {4, 5}, f \in {2, 3},
        relro \in {<<>>, <<RelroSegment(4, 2)>>, <<RelroSegment(2, 2)>>}, e \in {0, 2, 4, 9}, a \in {2, 5, 9}}

Everything == Outputs \cup Malformed
=============================================================================
