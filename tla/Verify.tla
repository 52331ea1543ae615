------------------------------- MODULE Verify -------------------------------
(***************************************************************************)
(* What the command line (elfa-cli) concludes from a log: compare, of the   *)
(* program alone, and process --verify, of everything the closure found.    *)
(* load.ours is what the files say: the program's needs, its BIND_NOW and   *)
(* the symbols its relocations name; for each library its path and the      *)
(* object that asked for it first.  load.links is what the file system says *)
(* of paths that are not where their files are: it maps them to those.      *)
(***************************************************************************)
EXTENDS LdDebug, FiniteSets

CONSTANT LoaderLike     \* names of directories and of files that contain "ld-linux"

Match == "match"
Differ == "differ"
NotModelled == "not modelled"

Program == load.program[2]
Loader == load.interp[2]

\* A name that ends in one with "ld-linux" has it too.
ASSUME NamesAssumption == \A e \in Endings : e[2] \in LoaderLike => e[1] \in LoaderLike

-----------------------------------------------------------------------------
(* compare.                                                                *)

\* What is needed beyond the interpreter, which is there before any search.
Wanted == {n \in load.ours.needed : n # load.interp}

NeededVerdict ==
    IF Wanted = {} THEN NotModelled
    ELSE IF \A n \in Wanted : Aliases(n) # {} THEN Match ELSE Differ

OrderVerdict ==
    LET at == Position(RelocationOrder, Program)
    IN  IF Wanted = {} \/ at = {} THEN NotModelled
        ELSE IF \A k \in at : \E j \in RelocationOrder : j < k THEN Match ELSE Differ

InitVerdict ==
    IF Position(InitOrder, Program) = {} THEN NotModelled
    ELSE IF Is(steps[Max(InitOrder)].object, Program) THEN Match ELSE Differ

BindingVerdict ==
    IF BindsLazily(Program) = {} THEN NotModelled
    ELSE IF BindsLazily(Program) = {~load.ours.bindNow} THEN Match ELSE Differ

\* Weak symbols may stay unbound, and lazy ones are bound when they are called.
MustBind == {r.symbol : r \in {q \in load.ours.relocs : ~q.weak /\ (load.ours.bindNow \/ ~q.plt)}}

SymbolsVerdict ==
    IF BoundSymbols(Program) = {} THEN NotModelled
    ELSE IF MustBind \subseteq BoundSymbols(Program) THEN Match ELSE Differ

-----------------------------------------------------------------------------
(* process --verify.                                                       *)

\* The order but for what looks like the loader.
LooksLikeLoader(path) == path[1] \in LoaderLike \/ path[2] \in LoaderLike
Theirs == {k \in RelocationOrder : ~LooksLikeLoader(steps[k].object)}

\* Mutant of Rank: where the object is last relocated.
RankLast(path) ==
    LET at == {k \in Theirs : Is(steps[k].object, path[2])} IN IF at = {} THEN {} ELSE {Max(at)}

Rank(path) == Position(Theirs, path[2])

\* canonicalize; a path it fails on stays as it is.
Canon(path) == IF path \in DOMAIN load.links THEN load.links[path] ELSE path

ResolutionVerdict(lib) ==
    IF Aliases(lib.requested) = {} THEN NotModelled
    ELSE IF \A path \in Aliases(lib.requested) : Canon(path) = Canon(lib.path)
         THEN Match ELSE Differ

AfterItsAsker ==
    {lib \in load.ours.libs : \E d \in Rank(lib.path), u \in Rank(lib.by) : d > u}

DependencyVerdict == IF AfterItsAsker = {} THEN Match ELSE Differ

-----------------------------------------------------------------------------
(* What a process that ld.so starts has to tell, external like its story.  *)

\* It starts until control goes to the program.
StartupOf(l) ==
    LET at == CHOOSE k \in DOMAIN l.story[Target] : l.story[Target][k].kind = "TransferControl"
    IN  SubSeq(l.story[Target], 1, at)
AtStart(l, kinds) == {s \in Elements(StartupOf(l)) : s.kind \in kinds}
FileOf(s) == Last(s.tried).path

EntersOnce(l) ==
    \E k \in DOMAIN l.story[Target] :
        \A j \in DOMAIN l.story[Target] : l.story[Target][j].kind = "TransferControl" <=> j = k

\* An object is relocated once, and the program is.
RelocatesOnce(l) ==
    /\ \A j, k \in DOMAIN StartupOf(l) :
          StartupOf(l)[j].kind = "Relocate" /\ StartupOf(l)[k].kind = "Relocate"
              /\ StartupOf(l)[j].object = StartupOf(l)[k].object => j = k
    /\ \E s \in AtStart(l, {"Relocate"}) : s.object = l.program

\* A search of the startup ends with the file that is opened, or the process ends;
\* what is open already is not searched for, and what is not there is not opened.
SearchesOnce(l) ==
    /\ \A s \in AtStart(l, {"Search"}) : s.tried # <<>>
    /\ \A j, k \in DOMAIN StartupOf(l) :
          StartupOf(l)[j].kind = "Search" /\ StartupOf(l)[k].kind = "Search"
              /\ StartupOf(l)[j].library = StartupOf(l)[k].library => j = k
    /\ \A s \in AtStart(l, {"Search"}) : \A k \in 1 .. Len(s.tried) - 1 :
          /\ s.tried[k].path # l.program
          /\ \A n \in AtStart(l, {"Search"}) : s.tried[k].path # FileOf(n)
          /\ \A n \in AtStart(l, {"Needed"}) : s.tried[k].path # n.file
          /\ \A o \in AtStart(l, {"Scope", "Relocate", "Init"}) : s.tried[k].path # o.object

\* A library is called by its name until it is found, and objects are called by
\* their files, which are no names that are searched for; a name with a slash is
\* not searched for, it is a file's.
CallsFilesByPath(l) ==
    LET names == {s.library : s \in AtStart(l, {"Search"})}
        needed == {s.file : s \in AtStart(l, {"Needed"})}
        files == {l.program} \cup {FileOf(s) : s \in AtStart(l, {"Search"})} \cup (needed \ names)
    IN  /\ \A s \in AtStart(l, {"Needed"}) : s.by \in files
        /\ \A s \in AtStart(l, {"LinkMap"}) : \E n \in AtStart(l, {"Needed"}) : s.file = n.file
        /\ \A s \in AtStart(l, {"Search"}) : \E n \in AtStart(l, {"Needed"}) : s.library = n.file
        /\ \A s \in AtStart(l, {"InitializeProgram", "TransferControl"}) : s.object = l.program
        /\ \A s \in AtStart(l, {"Scope", "Relocate", "Init"}) : s.object \notin names
        /\ files \cap names = {}

ASSUME StoriesAssumption ==
    \A l \in Loads : EntersOnce(l) /\ RelocatesOnce(l) /\ SearchesOnce(l) /\ CallsFilesByPath(l)

-----------------------------------------------------------------------------
(* Properties.  What really happened is in the stories.                    *)

Told(kinds) == {k \in DOMAIN Story : Story[k].kind \in kinds}
Startup == StartupOf(load)
NothingOpenedLate ==
    \A k \in (Len(Startup) + 1) .. Len(Story) : Story[k].kind \in {"Bind", "Fini"}

RelocatedObjects == {s.object : s \in AtStart(load, {"Relocate"})}
Relocated(o) == {k \in DOMAIN Startup : Startup[k].kind = "Relocate" /\ Startup[k].object = o}
Before(o, p) == \E j \in Relocated(o), k \in Relocated(p) : j < k
Named(path) == {o \in RelocatedObjects : o[2] = path[2]}

Opened(n) ==
    {FileOf(Startup[k]) :
        k \in {j \in DOMAIN Startup : Startup[j].kind = "Search" /\ Startup[j].library = n}}
FilesOf(n) == IF Opened(n) = {} THEN {n} ELSE Opened(n)

\* The code goes by how a path ends, and by what is in it.  Nothing that is not
\* the program is taken for it,
WhoIn(s) == IF s.kind = "Bind" THEN s.from ELSE s.object
ProgramIsKnown(story) ==
    \A k \in DOMAIN story : story[k].kind \in {"Relocate", "Init", "InitializeProgram", "Bind"}
        /\ Is(WhoIn(story[k]), Program) => WhoIn(story[k]) = load.program

\* nothing is taken for a library of ours but the one that is named like it, and only
\* the loader for the loader,
IsKnown(path) ==
    \E o \in RelocatedObjects :
        /\ {q \in RelocatedObjects : Is(q, path[2])} = {o}
        /\ o[2] = path[2]
        /\ ~LooksLikeLoader(o)
LibrariesAreKnown ==
    /\ Loader \in LoaderLike
    /\ \A lib \in load.ours.libs : IsKnown(lib.by) /\ (lib.path[2] = Loader \/ IsKnown(lib.path))

\* and libraries are found where a path from the root says.
HitsAreAbsolute == \A s \in AtStart(load, {"Search"}) : Last(s.tried).absolute

Says(verdict, truth) == verdict # NotModelled => (verdict = Match <=> truth)

\* A divergence is reported if, and only if, there is one: what glibc did is told
\* apart from what the file promises, whatever was tried before a library was
\* found and whichever of its paths the two sides call it by.  What the startup of
\* the program settles stays true whatever the program opens later and whatever its
\* children print in between; the searches and the initialisers are judged right if
\* it opens nothing and starts no one.  Each under what the code's guess asks for: no
\* other object whose path ends, or looks, the same, and no relative path that is found.
VerdictsAreTrue ==
    ended =>
        /\ ProgramIsKnown(Startup) =>
              /\ Says(OrderVerdict, \E o \in RelocatedObjects : Before(o, load.program))
              /\ Says(BindingVerdict,
                      \E k \in Relocated(load.program) : Startup[k].lazy = ~load.ours.bindNow)
        /\ LibrariesAreKnown =>
              Says(DependencyVerdict, \A lib \in load.ours.libs : lib.path[2] # Loader =>
                      \A o \in Named(lib.path), u \in Named(lib.by) : ~Before(u, o))
        /\ Alone /\ NothingOpenedLate =>
              /\ ProgramIsKnown(Story) =>
                    /\ Says(InitVerdict,
                            Story[Max(Told({"Init", "InitializeProgram"}))].object = load.program)
                    /\ Says(SymbolsVerdict, \A m \in MustBind : \E k \in Told({"Bind"}) :
                            Story[k].from = load.program /\ Story[k].symbol = m)
              /\ HitsAreAbsolute =>
                    /\ Says(NeededVerdict, \A n \in Wanted : Opened(n) # {})
                    /\ \A lib \in load.ours.libs :
                          Says(ResolutionVerdict(lib),
                               \E path \in Opened(lib.requested) : Canon(path) = Canon(lib.path))

Files ==
    {load.program} \cup (UNION {FilesOf(Story[k].file) : k \in Told({"Needed"})})
        \cup {Story[k].object : k \in Told({"Scope", "Relocate", "Init"})}

\* The objects of a log (Trace::objects) are the files that were loaded and no other:
\* a library that the log calls by its name until it is found and by its path from
\* then on is one object, and the program and the loader, which nobody opened,
\* are among them.  A library that is found by a relative path is the exception.
ObjectsAreFiles ==
    ended /\ Alone /\ NothingOpenedLate /\ HitsAreAbsolute => Elements(Objects) = Files
=============================================================================
