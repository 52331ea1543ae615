------------------------------- MODULE LdDebug -------------------------------
(***************************************************************************)
(* parse_ld_debug (elfa-trace): the log that ld.so writes under            *)
(* LD_DEBUG=all, read line by line into steps.                             *)
(*                                                                         *)
(* The writer is external.  A process tells its story, a sequence of the   *)
(* steps that Step lists, one call of its print function after the other;  *)
(* a call is a few lines that stay together, calls of several processes    *)
(* interleave, for a child inherits the environment and the pipe.          *)
(* A line is known by the pattern of the code that it matches.             *)
(***************************************************************************)
EXTENDS Integers, Sequences, SequencesExt

CONSTANTS
    \* What may be observed.  A path is a pair of a directory and a file name.
    Loads,      \* records with the stories of the processes, see Verify
    Procs,      \* processes; the target is 1 and the others are its children
    Target,
    Endings     \* pairs of file names of which the first ends in the second, a shorter one

VARIABLES
    load,       \* what is observed
    told,       \* how much of its story each process has told
    text,       \* the lines of the call that is being read
    ended,      \* the end of the text has been read
    steps,
    pendingSearch, pendingScope, pendingMap     \* empty or one element long

readerVars == <<steps, pendingSearch, pendingScope, pendingMap>>
vars == <<load, told, text, ended, steps, pendingSearch, pendingScope, pendingMap>>

-----------------------------------------------------------------------------
(* The writer.                                                             *)

Elements(s) == {s[k] : k \in DOMAIN s}
IsList(s) == s \in Seq(Elements(s))

\* Step: those that hold a list, or that are put together from several lines, have
\* these fields; a line says all there is of the others.
Plain == {"Relocate", "Init", "InitializeProgram", "TransferControl", "Fini"}
IsStep(s) ==
    \/ s.kind \in Plain \cup {"Bind", "Other"}
    \/ s.kind = "Needed" /\ s = [kind |-> "Needed", file |-> s.file, by |-> s.by]
    \/ /\ s.kind = "Search" /\ IsList(s.tried)
       /\ s = [kind |-> "Search", library |-> s.library, tried |-> s.tried]
    \/ /\ s.kind = "LinkMap"
       /\ s = [kind |-> "LinkMap", file |-> s.file, base |-> s.base, entry |-> s.entry]
    \/ /\ s.kind = "Scope" /\ IsList(s.order)
       /\ s = [kind |-> "Scope", object |-> s.object, order |-> s.order]

ASSUME LoadsAssumption ==
    /\ Target \in Procs
    /\ \A l \in Loads : \A p \in Procs :
          IsList(l.story[p]) /\ \A k \in DOMAIN l.story[p] : IsStep(l.story[p][k])

Line(is, what) == [is |-> is, what |-> what]
Blank == Line("blank", <<>>)

\* The lines of one step, as the calls that print them.
Calls(s) ==
    CASE s.kind = "Needed" -> <<<<Blank, Line("needed", <<s.file, s.by>>)>>>>
      [] s.kind = "Search" ->
            <<<<Line("find", s.library)>>>>
                \o [k \in DOMAIN s.tried |-> <<Line("tried", s.tried[k])>>] \o <<<<Blank>>>>
      [] s.kind = "LinkMap" ->
            <<<<Line("generating", s.file)>>,
              <<Line("base", s.base), Line("entry", s.entry), Blank, Blank>>>>
      [] s.kind = "Scope" ->
            <<<<Line("object", s.object)>>, <<Line("scope", s.order)>>, <<Blank>>>>
      [] s.kind \in Plain -> <<<<Blank, Line("plain", s), Blank>>>>
      [] s.kind = "Bind" -> <<<<Line("other", <<>>)>>, <<Line("plain", s)>>>>
      [] OTHER -> <<<<Line("other", <<>>), Blank>>>>

Script == [p \in Procs |-> FlattenSeq([k \in DOMAIN load.story[p] |-> Calls(load.story[p][k])])]

\* A child starts when the program runs.
HasStarted(p) ==
    p = Target \/ \E k \in 1 .. told[Target] : \E j \in DOMAIN Script[Target][k] :
                     LET line == Script[Target][k][j]
                     IN  line.is = "plain" /\ line.what.kind = "TransferControl"

Tell ==
    /\ text = <<>> /\ ~ended
    /\ \E p \in Procs :
          /\ HasStarted(p)
          /\ told[p] < Len(Script[p])
          /\ text' = Script[p][told[p] + 1]
          /\ told' = [told EXCEPT ![p] = @ + 1]
    /\ UNCHANGED <<load, ended, readerVars>>

-----------------------------------------------------------------------------
(* The reader: one line.                                                   *)

Turn(is) ==
    /\ text # <<>> /\ Head(text).is = is
    /\ text' = Tail(text)
    /\ UNCHANGED <<load, told, ended>>
What == Head(text).what

SearchStep(s) == [kind |-> "Search", library |-> s.library, tried |-> s.tried]
ScopeStep(s) == [kind |-> "Scope", object |-> s.object, order |-> s.order]
ClosedSearch == [k \in DOMAIN pendingSearch |-> SearchStep(pendingSearch[k])]
ClosedScope == [k \in DOMAIN pendingScope |-> ScopeStep(pendingScope[k])]

\* Mutant of ReadBlank: the scope stays open until the text ends.
ReadBlankOnce ==
    /\ Turn("blank")
    /\ steps' = steps \o ClosedSearch
    /\ pendingSearch' = <<>>
    /\ UNCHANGED <<pendingScope, pendingMap>>

ReadBlank ==
    /\ Turn("blank")
    /\ steps' = steps \o ClosedSearch \o ClosedScope
    /\ pendingSearch' = <<>>
    /\ pendingScope' = <<>>
    /\ UNCHANGED pendingMap

\* A search that is still open is lost.
ReadFind ==
    /\ Turn("find")
    /\ pendingSearch' = <<[library |-> What, tried |-> <<>>]>>
    /\ UNCHANGED <<steps, pendingScope, pendingMap>>

ReadTried ==
    /\ Turn("tried")
    /\ pendingSearch' = [k \in DOMAIN pendingSearch |->
                            [pendingSearch[k] EXCEPT !.tried = Append(@, What)]]
    /\ UNCHANGED <<steps, pendingScope, pendingMap>>

ReadNeeded ==
    /\ Turn("needed")
    /\ steps' = Append(steps, [kind |-> "Needed", file |-> What[1], by |-> What[2]])
    /\ UNCHANGED <<pendingSearch, pendingScope, pendingMap>>

ReadGenerating ==
    /\ Turn("generating")
    /\ pendingMap' = <<What>>
    /\ UNCHANGED <<steps, pendingSearch, pendingScope>>

ReadBase ==
    /\ Turn("base")
    /\ steps' = steps \o [k \in DOMAIN pendingMap |->
                    [kind |-> "LinkMap", file |-> pendingMap[k], base |-> What, entry |-> 0]]
    /\ UNCHANGED <<pendingSearch, pendingScope, pendingMap>>

\* The entry belongs to the link map just made, if that is the last step.
ReadEntry ==
    /\ Turn("entry")
    /\ steps' = IF steps # <<>> /\ Last(steps).kind = "LinkMap"
                THEN [steps EXCEPT ![Len(steps)].entry = What] ELSE steps
    /\ pendingMap' = <<>>
    /\ UNCHANGED <<pendingSearch, pendingScope>>

ReadObject ==
    /\ Turn("object")
    /\ pendingScope' = <<[object |-> What, order |-> <<>>]>>
    /\ UNCHANGED <<steps, pendingSearch, pendingMap>>

ReadScope ==
    /\ Turn("scope")
    /\ pendingScope' = [k \in DOMAIN pendingScope |->
                           [pendingScope[k] EXCEPT !.order = @ \o What]]
    /\ UNCHANGED <<steps, pendingSearch, pendingMap>>

\* relocation processing, binding file, calling init, initialize program,
\* transferring control and calling fini: a line is a step.
ReadPlain ==
    /\ Turn("plain")
    /\ steps' = Append(steps, What)
    /\ UNCHANGED <<pendingSearch, pendingScope, pendingMap>>

ReadOther == Turn("other") /\ UNCHANGED readerVars

EndOfText ==
    /\ text = <<>> /\ ~ended
    /\ \A p \in Procs : told[p] = Len(Script[p])
    /\ ended' = TRUE
    /\ steps' = steps \o ClosedSearch \o ClosedScope
    /\ UNCHANGED <<load, told, text, pendingSearch, pendingScope, pendingMap>>

-----------------------------------------------------------------------------
Init ==
    /\ load \in Loads
    /\ told = [p \in Procs |-> 0]
    /\ text = <<>>
    /\ ended = FALSE
    /\ steps = <<>>
    /\ pendingSearch = <<>> /\ pendingScope = <<>> /\ pendingMap = <<>>

Next ==
    \/ Tell \/ EndOfText
    \/ ReadBlank \/ ReadFind \/ ReadTried \/ ReadNeeded \/ ReadGenerating \/ ReadBase \/ ReadEntry
    \/ ReadObject \/ ReadScope \/ ReadPlain \/ ReadOther

Spec == Init /\ [][Next]_vars

-----------------------------------------------------------------------------
(* What a Trace is asked.                                                  *)

\* The places of a list are the indices of its steps.
OfKind(kinds) == {k \in DOMAIN steps : steps[k].kind \in kinds}

\* Mutant of Resolved: the first path tried, not the last.
ResolvedFirst(tried) ==
    LET real == {k \in DOMAIN tried : tried[k].absolute}
    IN  IF real = {} THEN {} ELSE {tried[Min(real)].path}

\* aliases: the last path tried that begins with a slash; the cache does not.
Resolved(tried) ==
    LET real == {k \in DOMAIN tried : tried[k].absolute}
    IN  IF real = {} THEN {} ELSE {tried[Max(real)].path}

\* A later search for a name replaces what an earlier one said.
Aliases(name) ==
    LET hits == {k \in OfKind({"Search"}) : steps[k].library = name /\ Resolved(steps[k].tried) # {}}
    IN  IF hits = {} THEN {} ELSE Resolved(steps[Max(hits)].tried)

Canonical(name) == IF Aliases(name) = {} THEN name ELSE CHOOSE p \in Aliases(name) : TRUE

Mentioned(s) ==
    CASE s.kind = "Needed" -> <<s.by, s.file>>
      [] s.kind = "LinkMap" -> <<s.file>>
      [] s.kind \in {"Scope", "Relocate", "Init", "InitializeProgram", "TransferControl"} -> <<s.object>>
      [] OTHER -> <<>>
Names == FlattenSeq([k \in DOMAIN steps |-> Mentioned(steps[k])])

\* objects: each once, in the order in which they are first mentioned.
IsFirst(k) == \A j \in 1 .. k - 1 : Canonical(Names[j]) # Canonical(Names[k])
Objects == FlattenSeq([k \in DOMAIN Names |-> IF IsFirst(k) THEN <<Canonical(Names[k])>> ELSE <<>>])

\* Objects are known by how their paths end: in this file name, or in one like it.
Is(object, name) == object[2] = name \/ <<object[2], name>> \in Endings
RelocationOrder == OfKind({"Relocate"})
InitOrder == OfKind({"Init", "InitializeProgram"})

\* The first place in an order where an object is, if it is there.
Position(order, name) ==
    LET at == {k \in order : Is(steps[k].object, name)}
    IN  IF at = {} THEN {} ELSE {Min(at)}

BindsLazily(name) == {steps[k].lazy : k \in Position(RelocationOrder, name)}
BoundSymbols(name) ==
    {steps[k].symbol : k \in {j \in OfKind({"Bind"}) : Is(steps[j].from, name)}}

-----------------------------------------------------------------------------
(* Properties.                                                             *)

Story == load.story[Target]
Alone == \A p \in Procs \ {Target} : load.story[p] = <<>>

\* What a log tells of a step: what is no step of the code's leaves nothing.
Kept(s) == IF s.kind = "Other" THEN <<>> ELSE <<s>>

\* The steps of a process that starts no other are read back as they happened:
\* each once, in their order, with what the lines around them say of them.
LogIsReadBack ==
    ended /\ Alone => steps = FlattenSeq([k \in DOMAIN Story |-> Kept(Story[k])])
=============================================================================
