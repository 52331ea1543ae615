------------------------------- MODULE MCTrace -------------------------------
(* Loads for TLC: a program p, libraries a and b beneath it, the loader ld, *)
(* and c, which the program opens when it runs; libraries xp and ldx, one   *)
(* named like the program and one like the loader.                          *)
EXTENDS Verify

Bare(n) == <<"", n>>
In(dir, n) == <<dir, n>>
P == In("home", "p")
Lib(n) == In("lib", n)

Cache == [absolute |-> FALSE, path |-> <<"etc", "cache">>]
Tried(dir, n) == [absolute |-> dir # ".", path |-> In(dir, n)]
\* Ways to find a library: in the cache, after a search that begins elsewhere, in
\* the directory that is searched first, or where the program was started.
Ways(n) ==
    {<<Cache, Tried("lib", n)>>, <<Tried(".", n), Tried("opt", n), Cache, Tried("lib", n)>>,
     <<Tried("opt", n)>>, <<Tried(".", n)>>, <<Tried("opt", n), Tried(".", n)>>}
Where(way) == way[Len(way)].path

Needed(n, by) == [kind |-> "Needed", file |-> Bare(n), by |-> by]
Search(n, way) == [kind |-> "Search", library |-> Bare(n), tried |-> way]
LinkMap(n, base) == [kind |-> "LinkMap", file |-> Bare(n), base |-> base, entry |-> base + 1]
Scope(o, order) == [kind |-> "Scope", object |-> o, order |-> order]
Relocate(o, lazy) == [kind |-> "Relocate", object |-> o, lazy |-> lazy]
Bind(from, to, symbol) == [kind |-> "Bind", from |-> from, to |-> to, symbol |-> symbol]
On(kind, o) == [kind |-> kind, object |-> o]
Other == [kind |-> "Other"]

Opening(n, by, way, base) == <<Needed(n, by), Search(n, way), LinkMap(n, base)>>

Inits(objects) == [k \in DOMAIN objects |-> On("Init", objects[k])]

\* The startup of p with the given libraries, relocated and initialised in the
\* given order: as it should be, or the program first.
StartedWith(opened, order, lazy, symbols, inits) ==
    opened \o <<Other, Scope(P, <<P>> \o order), Scope(Lib("ld"), <<>>)>>
        \o FlattenSeq([k \in DOMAIN order |->
               <<Relocate(order[k], order[k] = P /\ lazy)>>
                   \o (IF order[k] = P THEN [j \in DOMAIN symbols |-> Bind(P, Lib("ld"), symbols[j])]
                                       ELSE <<>>)])
        \o inits \o <<On("TransferControl", P)>>
Started(opened, order, lazy, symbols, inits) ==
    StartedWith(opened, order, lazy, symbols, Inits(inits) \o <<On("InitializeProgram", P)>>)
Backwards(opened, order, lazy, symbols, inits) ==
    StartedWith(opened, order, lazy, symbols, <<On("InitializeProgram", P)>> \o Inits(inits))

Ours(needed, now, libs) ==
    [needed |-> {Bare(n) : n \in needed}, bindNow |-> now, libs |-> libs,
     relocs |-> {[symbol |-> "puts", weak |-> FALSE, plt |-> TRUE],
                 [symbol |-> "stdout", weak |-> FALSE, plt |-> FALSE],
                 [symbol |-> "gmon", weak |-> TRUE, plt |-> FALSE]}]
OurLib(n, path, by) == [requested |-> Bare(n), path |-> path, by |-> by]

\* The directory usr is lib, by another path.
Links == [path \in {In("usr", "a")} |-> Lib("a")]

A(story, child, ours) ==
    [story |-> <<story, child>>, program |-> P, interp |-> Bare("ld"), ours |-> ours, links |-> Links]

Symbols == {<<>>, <<"stdout">>, <<"puts", "debug">>, <<"stdout", "puts">>}

\* One library or none, found or not where we say; bound one way and read another.
One ==
    {A(Started(Opening("a", P, way, 7), order, lazy, symbols, <<Lib("ld"), Where(way)>>)
         \o (IF lazy THEN <<Bind(P, Where(way), "exit"), On("Fini", P)>> ELSE <<On("Fini", P)>>),
       <<>>, Ours({"a", "ld"}, now, {OurLib("a", Lib("a"), P)})) :
        way \in Ways("a"), order \in {<<Lib("a"), P>>, <<P, Lib("a")>>, <<Lib("ld"), Lib("a"), P>>},
        lazy \in BOOLEAN, now \in BOOLEAN, symbols \in Symbols}
    \cup
    {A(Started(<<>>, <<P, Lib("ld")>>, FALSE, <<>>, inits), <<>>, Ours(needed, TRUE, {})) :
        inits \in {<<>>, <<Lib("ld")>>}, needed \in {{"ld"}, {"a"}}}

\* The closure found the library by another path, or where the program was started;
\* the initialisers ran as they should, or the program's first.
Elsewhere ==
    UNION {
      {A(started, <<>>, Ours({"a"}, TRUE, {OurLib("a", In(dir, "a"), P)})) :
          dir \in {"usr", "."},
          started \in {Started(Opening("a", P, way, 7), <<Where(way), P>>, FALSE, <<"puts">>, <<Where(way)>>),
                       Backwards(Opening("a", P, way, 7), <<Where(way), P>>, FALSE, <<"puts">>, <<Where(way)>>)}}
      : way \in Ways("a")}

\* Two libraries, b asked for by p or by a, relocated in any order.
Two ==
    UNION {
      {A(Started(Opening("a", P, way, 7) \o Opening("b", by, <<Cache, Tried("lib", "b")>>, 3),
                 order, FALSE, <<"puts">>, <<Lib("b"), Where(way)>>),
         <<>>, Ours({"a", "b"}, TRUE, {OurLib("a", Lib("a"), P), OurLib("b", Lib("b"), by)})) :
          by \in {P, Where(way)},
          order \in SetToSeqs({Where(way), Lib("b"), P})}
      : way \in Ways("a")}

\* The program goes on: it opens c, in vain or not, and starts a child, which
\* loads the same library, or is the same program.
Late ==
    {A(Started(Opening("a", P, <<Cache, Tried("lib", "a")>>, 7), order, TRUE, <<"stdout">>, <<Lib("a")>>)
         \o late, child, Ours({"a"}, FALSE, {OurLib("a", Lib("a"), P)})) :
        order \in {<<Lib("a"), P>>, <<P, Lib("a")>>},
        late \in {<<Needed("c", P), Search("c", <<Tried("opt", "c"), Tried("lib", "c")>>)>>,
                  Opening("c", P, <<Cache, Tried("lib", "c")>>, 9)
                      \o <<Relocate(Lib("c"), FALSE), On("Init", Lib("c"))>>,
                  <<Bind(P, Lib("a"), "puts")>>},
        child \in {<<>>,
                   <<Search("a", <<Tried("opt", "a")>>), Relocate(Lib("a"), FALSE)>>,
                   <<Relocate(Lib("a"), FALSE), Relocate(P, FALSE)>>}}

\* A library that the code takes for the program, or for the loader.
Alike ==
    UNION {
      {A(StartedWith(Opening(n, P, <<Cache, Tried("lib", n)>>, 7)
                         \o Opening("a", P, <<Tried("lib", "a")>>, 5),
                     order, FALSE, <<"puts", "stdout">>, inits),
         <<>>, Ours({n, "a"}, TRUE, {OurLib(n, Lib(n), P), OurLib("a", Lib("a"), P)})) :
          inits \in {<<On("InitializeProgram", P), On("Init", Lib(n))>>,
                     <<On("Init", Lib(n)), On("InitializeProgram", P)>>},
          order \in SetToSeqs({Lib(n), Lib("a"), P})}
      : n \in {"xp", "ldx"}}
    \cup
    {A(Started(Opening("a", P, <<Cache, Tried("lib", "a")>>, 7), order, TRUE, <<"stdout">>, <<Lib("a")>>)
         \o Opening("xp", P, <<Cache, Tried("lib", "xp")>>, 9)
         \o <<Relocate(Lib("xp"), FALSE), On("Init", Lib("xp"))>>,
       <<>>, Ours({"a"}, FALSE, {OurLib("a", Lib("a"), P)})) :
        order \in {<<Lib("a"), P>>, <<P, Lib("a")>>}}

\* A library that is needed by a path is not searched for.
Direct ==
    {A(Started(<<[Needed("a", P) EXCEPT !.file = Lib("a")], [LinkMap("a", 7) EXCEPT !.file = Lib("a")]>>,
               order, FALSE, <<"stdout">>, <<Lib("a")>>),
       <<>>, Ours({"a"}, TRUE, {OurLib("a", Lib("a"), P)})) :
        order \in {<<Lib("a"), P>>, <<P, Lib("a")>>}}

EndsInP == {<<"xp", "p">>}
ContainsLd == {"ld", "ldx"}

Observed == One \cup Elsewhere \cup Two \cup Late \cup Alike \cup Direct
=============================================================================
