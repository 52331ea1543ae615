------------------------------- MODULE Session -------------------------------
(***************************************************************************)
(* The web session (elfa-web): one loaded file, asked by the page for the   *)
(* memory at a step and for the steps that touch a byte.  Both read the     *)
(* list of steps that Timeline::plan makes, in which a step is the spans of *)
(* the file it reads and at most one effect.                                *)
(***************************************************************************)
EXTENDS Views

SX == INSTANCE SequencesExt

CONSTANTS
    IdentSpan,      \* 64: what the kernel reads first
    WordLen         \* 8: what a relocation writes

-----------------------------------------------------------------------------
(* The steps.                                                              *)

Told == [reads |-> {}, effect |-> <<"none">>]
Times(n) == [k \in 1 .. n |-> Told]
When(cond) == Times(IF cond THEN 1 ELSE 0)

\* A set of numbers or of mappings, as the code has it: in order.
Ordered(S, Leq(_, _)) ==
    LET from[T \in SUBSET S] ==
            IF T = {} THEN <<>>
            ELSE LET x == CHOOSE y \in T : \A z \in T : Leq(y, z) IN <<x>> \o from[T \ {x}]
    IN  from[S]
NatLeq(a, b) == a <= b

MapStep(m) ==
    [reads |-> IF m.source = "file" THEN {[start |-> m.offset, len |-> m.len]} ELSE {},
     effect |-> <<"map", m>>]
WriteStep(k) == [reads |-> {object.relocs[k].entry}, effect |-> <<"write", k>>]
ProtectStep == [reads |-> {}, effect |-> <<"protect">>]

Each(S, Leq(_, _), F(_)) ==
    LET ordered == Ordered(S, Leq) IN [k \in DOMAIN ordered |-> F(ordered[k])]

InTable(t) == {k \in DOMAIN object.relocs : object.relocs[k].table = Tables[t]}

TableSteps(t) == When(InTable(t) # {}) \o Each(Group(t), NatLeq, WriteStep)

Steps ==
    <<[reads |-> {[start |-> 0, len |-> IdentSpan]}, effect |-> <<"none">>]>>
        \o When(object.interp)
        \o Each(Planned, KeyLeq, MapStep)
        \o Times(1)                                         \* the stack
        \o Times(IF object.interp THEN 3 ELSE 0)
        \o Times(object.needed) \o When(object.needed > 0)  \* and the scope
        \o TableSteps(1) \o TableSteps(2) \o TableSteps(3) \o TableSteps(4)
        \o (IF HasRelro THEN <<ProtectStep>> ELSE <<>>)
        \o When(object.init) \o When(object.initArray > 0)
        \o Times(1)                                         \* the entry
        \o When(\E k \in DOMAIN object.relocs : Deferred(object.relocs[k]))

\* state_at, one effect: the mappings and what has been written.
Apply(state, one) ==
    CASE one.effect[1] = "map" -> [state EXCEPT !.mappings = @ \cup {one.effect[2]}]
      [] one.effect[1] = "write" -> [state EXCEPT !.poked = Append(@, one.effect[2])]
      [] one.effect[1] = "protect" ->
            [state EXCEPT !.mappings = UNION {Split(m, RelroStart, RelroEnd, ReadOnly) : m \in @}]
      [] OTHER -> state

Nothing == [mappings |-> {}, poked |-> <<>>]

\* Mutant of StateAt: step n itself is left out.
StateBefore(n) ==
    LET all == Steps IN SX!FoldLeft(Apply, Nothing, SubSeq(all, 1, Lower(n, Len(all))))

\* The memory once step n, counted from 0, is done.
StateAt(n) ==
    LET all == Steps IN SX!FoldLeft(Apply, Nothing, SubSeq(all, 1, Lower(n + 1, Len(all))))

\* render_step: a number past the end shows the last step.
RenderStep(n) == StateAt(Lower(n, Len(Steps) - 1))

\* inspect: the address of a byte of the file, and the numbers of the steps that
\* read it or write at its address.
Spans(s, off) == s.start <= off /\ off < s.start + s.len
WritesAt(one, va) == one.effect[1] = "write" /\ object.relocs[one.effect[2]].offset = va
TouchedBy(off) ==
    {n - 1 : n \in {k \in DOMAIN Steps : \/ \E s \in Steps[k].reads : Spans(s, off)
                                         \/ \E va \in VaddrOf(R, off) : WritesAt(Steps[k], va)}}

\* step_spans
StepSpans(n) == IF n + 1 \in DOMAIN Steps THEN Steps[n + 1].reads ELSE {}

-----------------------------------------------------------------------------
(* Properties.                                                             *)

Done == Cardinality(IF stage = "kernel" THEN mappings ELSE Planned) + Cardinality(applied)
            + (IF stage \in {"init", "entered"} /\ HasRelro THEN 1 ELSE 0)
EffectSteps == LET all == Steps IN {n \in DOMAIN all : all[n].effect[1] # "none"}

\* Every frame is made from nothing, and shows the memory that the load has after
\* as many effects when it is played from the start: jumping to a step and
\* playing up to it, or past it and back, give the same picture.  (Mappings that
\* overlap may tie in the order they are mapped in.)
ReplayIsTheLoad ==
    Done > 0 /\ (stage = "kernel" => PagesApart) =>
        LET frame == RenderStep(Ordered(EffectSteps, NatLeq)[Done] - 1)
        IN  frame.mappings = mappings /\ SX!ToSet(frame.poked) = applied

\* The bytes that mapping m shows of the file where relocation k overwrites memory.
OverwrittenIn(m, k, len) ==
    {m.offset + (a - m.vaddr) :
        a \in {b \in m.vaddr .. (End(m) - 1) :
                 object.relocs[k].offset <= b /\ b < object.relocs[k].offset + len}}

\* The bytes of the file that relocation k overwrites in memory: what a segment
\* asks for past the end of the file is none.
Overwritten(k, len) ==
    {off \in UNION {OverwrittenIn(m, k, len) : m \in {p \in Planned : p.source = "file"}} :
        off < object.fileLen}

WriteNumber(k) == (CHOOSE n \in DOMAIN Steps : Steps[n].effect = <<"write", k>>) - 1

FileRangesApart ==
    \A i, j \in Loads(Segs) : i # j =>
        \/ Segs[i].offset + Segs[i].filesz <= Segs[j].offset
        \/ Segs[j].offset + Segs[j].filesz <= Segs[i].offset

\* Asked about the byte that a relocation overwrites first, the session names the
\* step, in every page that segments share - where the file's ranges are disjoint.
WritersAreFound ==
    stage = "entered" /\ FileRangesApart /\ NotCongruent = {} =>
        \A k \in applied : \A off \in Overwritten(k, 1) : WriteNumber(k) \in TouchedBy(off)

\* inspect returns "the steps that read or write it": all the bytes of the word.
AllWritersAreListed ==
    stage = "entered" /\ FileRangesApart /\ NotCongruent = {} =>
        \A k \in applied : \A off \in Overwritten(k, WordLen) : WriteNumber(k) \in TouchedBy(off)
=============================================================================
