------------------------------- MODULE Closure -------------------------------
(***************************************************************************)
(* The dependency closure of a program (elfa-load/src/lib.rs): load reads  *)
(* the program, queues the names it needs and works the queue off, reading *)
(* each name's file and queueing what that needs, until the queue is empty *)
(* or a file is not found or cannot be read.                               *)
(*                                                                         *)
(* The disk is external: what a name resolves to on the search path, and   *)
(* what the file found says, is chosen in Init and never changes.  Reading *)
(* and parsing fail alike here: both end the load with the path.           *)
(***************************************************************************)
EXTENDS Integers, Sequences

CONSTANTS
    Names,          \* sonames
    Elsewhere,      \* a program path that is no soname; or stands for "no name"
    Paths,          \* what the program may be called on the command line
    Interps,        \* the base names its interpreter may have, or Elsewhere
    Files,          \* what a name may resolve to
    Programs,       \* what the program's file may be
    Gap, Page       \* the space between objects, and the unit bases are rounded to

Needed == Seq(Names)
File == [kind : {"missing", "unreadable", "object"}, needed : Needed, lo : Nat, hi : Nat]

ASSUME NamesAssumption == Elsewhere \notin Names
ASSUME PathsAssumption == Paths \cup Interps \subseteq Names \cup {Elsewhere}
ASSUME FilesAssumption == Files \cup Programs \subseteq {f \in File : f.lo <= f.hi}
ASSUME ProgramsAssumption == \A f \in Programs : f.kind # "missing"
ASSUME LayoutAssumption == Gap \in Nat /\ Page \in Nat \ {0} /\ Page <= Gap

VARIABLES
    disk,       \* name -> the file found for it
    program,    \* the program's file
    path,       \* what the program was called: its `requested`
    interp,     \* the base name of its interpreter
    stage,
    objects,    \* the objects loaded; ids are positions, the program is 1
    queue,      \* names to resolve, each with the object that asked for it
    nextBase,
    error       \* the name and the asker of the failure

inputs == <<disk, program, path, interp>>
vars == <<disk, program, path, interp, stage, objects, queue, nextBase, error>>

NoError == [name |-> Elsewhere, asker |-> 0]
Finished == {"done", "notFound", "unreadable"}
Ids == 1 .. Len(objects)

Loaded(name) == \E o \in Ids : objects[o].requested = name

RoundDown(n) == n - (n % Page)

\* Mutant of Advance: the size of the object is left out.
AdvanceByGap(base, f) == RoundDown(base + Gap)

Advance(base, f) == RoundDown(base + (f.hi - f.lo) + Gap)

Requests(f, id) == [k \in 1 .. Len(f.needed) |-> [name |-> f.needed[k], asker |-> id]]

\* read_object succeeded: the object takes its place, its needs join the queue.
Place(f, requested, asker) ==
    /\ objects' = Append(objects, [requested |-> requested, neededBy |-> asker,
                                   needed |-> f.needed, lo |-> f.lo, hi |-> f.hi,
                                   base |-> nextBase])
    /\ nextBase' = Advance(nextBase, f)

Fail(kind, name, asker) ==
    /\ stage' = kind
    /\ error' = [name |-> name, asker |-> asker]
    /\ UNCHANGED <<inputs, objects, queue, nextBase>>

-----------------------------------------------------------------------------
ReadProgram ==
    /\ stage = "start"
    /\ program.kind = "object"
    /\ Place(program, path, 0)
    /\ queue' = Requests(program, 1)
    /\ stage' = "walk"
    /\ UNCHANGED <<inputs, error>>

ProgramUnreadable ==
    /\ stage = "start"
    /\ program.kind = "unreadable"
    /\ Fail("unreadable", path, 0)

Satisfied(name) == name = interp \/ Loaded(name)

\* Mutant of Skip: a name that is loaded already goes back into the queue.
SkipRequeues ==
    /\ stage = "walk"
    /\ queue # <<>>
    /\ Satisfied(Head(queue).name)
    /\ queue' = Append(Tail(queue), Head(queue))
    /\ UNCHANGED <<inputs, stage, objects, nextBase, error>>

Skip ==
    /\ stage = "walk"
    /\ queue # <<>>
    /\ Satisfied(Head(queue).name)
    /\ queue' = Tail(queue)
    /\ UNCHANGED <<inputs, stage, objects, nextBase, error>>

\* Mutant of NotFound: the file is looked for before the name is compared.
NotFoundBeforeSkip ==
    /\ stage = "walk"
    /\ queue # <<>>
    /\ disk[Head(queue).name].kind = "missing"
    /\ Fail("notFound", Head(queue).name, Head(queue).asker)

NotFound ==
    /\ stage = "walk"
    /\ queue # <<>>
    /\ ~Satisfied(Head(queue).name)
    /\ disk[Head(queue).name].kind = "missing"
    /\ Fail("notFound", Head(queue).name, Head(queue).asker)

Unreadable ==
    /\ stage = "walk"
    /\ queue # <<>>
    /\ ~Satisfied(Head(queue).name)
    /\ disk[Head(queue).name].kind = "unreadable"
    /\ Fail("unreadable", Head(queue).name, Head(queue).asker)

\* Mutant of LoadObject: what the object needs goes to the front of the queue.
LoadDepthFirst ==
    /\ stage = "walk"
    /\ queue # <<>>
    /\ ~Satisfied(Head(queue).name)
    /\ LET f == disk[Head(queue).name]
       IN  /\ f.kind = "object"
           /\ Place(f, Head(queue).name, Head(queue).asker)
           /\ queue' = Requests(f, Len(objects) + 1) \o Tail(queue)
    /\ UNCHANGED <<inputs, stage, error>>

\* Mutant of LoadObject: what the object needs is not queued.
LoadForgetsNeeds ==
    /\ stage = "walk"
    /\ queue # <<>>
    /\ ~Satisfied(Head(queue).name)
    /\ LET f == disk[Head(queue).name]
       IN  /\ f.kind = "object"
           /\ Place(f, Head(queue).name, Head(queue).asker)
           /\ queue' = Tail(queue)
    /\ UNCHANGED <<inputs, stage, error>>

LoadObject ==
    /\ stage = "walk"
    /\ queue # <<>>
    /\ ~Satisfied(Head(queue).name)
    /\ LET f == disk[Head(queue).name]
       IN  /\ f.kind = "object"
           /\ Place(f, Head(queue).name, Head(queue).asker)
           /\ queue' = Tail(queue) \o Requests(f, Len(objects) + 1)
    /\ UNCHANGED <<inputs, stage, error>>

Done ==
    /\ stage = "walk"
    /\ queue = <<>>
    /\ stage' = "done"
    /\ UNCHANGED <<inputs, objects, queue, nextBase, error>>

-----------------------------------------------------------------------------
Init ==
    /\ disk \in [Names -> Files]
    /\ program \in Programs
    /\ path \in Paths
    /\ interp \in Interps
    /\ stage = "start"
    /\ objects = <<>>
    /\ queue = <<>>
    /\ nextBase = 0
    /\ error = NoError

Next ==
    \/ ReadProgram \/ ProgramUnreadable
    \/ Skip \/ NotFound \/ Unreadable \/ LoadObject \/ Done

Spec == Init /\ [][Next]_vars

\* load is one call that nothing interrupts.
FairSpec == Spec /\ WF_vars(Next)

-----------------------------------------------------------------------------
(* Properties.                                                             *)

Request == [name : Names, asker : Nat \ {0}]
Object == [requested : Names \cup {Elsewhere}, neededBy : Nat, needed : Needed,
           lo : Nat, hi : Nat, base : Nat]

\* Every variable has its type, and every asker is an object already loaded.
TypeOK ==
    /\ disk \in [Names -> Files]
    /\ program \in Programs
    /\ path \in Names \cup {Elsewhere}
    /\ interp \in Names \cup {Elsewhere}
    /\ stage \in {"start", "walk"} \cup Finished
    /\ objects \in Seq(Object)
    /\ queue \in Seq(Request)
    /\ nextBase \in Nat
    /\ error \in [name : Names \cup {Elsewhere}, asker : Nat]
    /\ \A k \in 1 .. Len(queue) : queue[k].asker \in Ids
    /\ \A o \in Ids : objects[o].neededBy \in 0 .. (o - 1)

Listed(o) == {objects[o].needed[k] : k \in 1 .. Len(objects[o].needed)}

\* A name is loaded once, however many objects need it, and the object recorded
\* as having asked for it is the first one, in the order of loading, to need it.
AskedOnceByTheFirst ==
    /\ \A o, p \in Ids : objects[o].requested = objects[p].requested => o = p
    /\ \A o \in Ids \ {1} :
          /\ objects[o].neededBy # 0
          /\ objects[o].requested \in Listed(objects[o].neededBy)
          /\ \A p \in 1 .. (objects[o].neededBy - 1) : objects[o].requested \notin Listed(p)

\* The names the program needs, and those that these need, computed from the
\* disk alone; the program itself answers to the name it was called by.
FileOf(n) == IF n = path THEN program ELSE disk[n]
ClosedUnderNeed(S) ==
    \A n \in S \cup {path} : \A k \in 1 .. Len(FileOf(n).needed) :
        FileOf(n).needed[k] \in S \cup {interp}
Reachable == CHOOSE S \in SUBSET Names :
    ClosedUnderNeed(S) /\ \A T \in SUBSET Names : ClosedUnderNeed(T) => S \subseteq T

\* A load that succeeds has loaded exactly what the program reaches through the
\* needs of its dependencies, the interpreter excepted, and was right to: every
\* one of these files is there.
ClosureIsReachable ==
    stage = "done" =>
        /\ {objects[o].requested : o \in Ids} = {path} \cup (Reachable \ {interp})
        /\ \A n \in Reachable \ {path, interp} : disk[n].kind = "object"

\* A load that fails names a file the program cannot do without: one that some
\* object loaded needs, that nothing loaded stands for, and that is not there or
\* is no ELF file, as the error says.
FailureIsTrue ==
    stage \in {"notFound", "unreadable"} =>
        IF error.asker = 0 THEN error.name = path /\ program.kind = "unreadable"
        ELSE /\ error.name \in Listed(error.asker)
             /\ ~Satisfied(error.name)
             /\ disk[error.name].kind = (IF stage = "notFound" THEN "missing" ELSE "unreadable")

\* load returns, even when the needs of its objects go round in circles.
LoadReturns == stage = "start" ~> stage \in Finished

\* No two objects are placed over each other (the test
\* objects_do_not_overlap_in_the_address_space).
Occupied(o) == [from |-> objects[o].base + objects[o].lo, to |-> objects[o].base + objects[o].hi]
ObjectsApart ==
    \A o, p \in Ids : o < p =>
        \/ Occupied(o).to <= Occupied(p).from
        \/ Occupied(p).to <= Occupied(o).from

\* relocation_order is the objects backwards; its comment says dependencies
\* come before the objects that need them.  Where needs go in circles no order
\* does that, so the claim is read as one about programs without circles.
RelocationOrder == [k \in Ids |-> Len(objects) + 1 - k]
Needs(o, p) == objects[p].requested \in Listed(o)
Acyclic == \E rank \in [Ids -> Ids] : \A o, p \in Ids : Needs(o, p) => rank[p] < rank[o]
DependenciesFirst ==
    stage = "done" /\ Acyclic =>
        \A k, m \in Ids : Needs(RelocationOrder[k], RelocationOrder[m]) => m < k

\* Why the closure is what it should be: requests wait in the order of their
\* askers, and a need of an object is met, or it waits.
Waiting(name, o) == \E k \in 1 .. Len(queue) : queue[k].name = name /\ queue[k].asker = o
Met(name, o) == Satisfied(name) \/ Waiting(name, o)
ClosureInv ==
    /\ stage = "start" => objects = <<>> /\ queue = <<>>
    /\ stage = "done" => queue = <<>>
    /\ AskedOnceByTheFirst
    /\ stage = "walk" => objects # <<>>
    /\ \A k, m \in 1 .. Len(queue) : k < m => queue[k].asker <= queue[m].asker
    /\ \A k \in 1 .. Len(queue) : queue[k].name \in Listed(queue[k].asker)
    /\ \A o \in Ids : \A n \in Listed(o) : Met(n, o)
=============================================================================
