------------------------------ MODULE MCClosure ------------------------------
(* Values of the constants of Closure for TLC.                              *)
EXTENDS Closure

CONSTANTS a, b, c

NoName == {Elsewhere}
SomePaths == {Elsewhere, a}
SomeInterps == {Elsewhere, c}

Shortlists == {<<>>} \cup {<<n>> : n \in Names} \cup {<<n, m>> : n, m \in Names}

Image(needed, lo, hi) == [kind |-> "object", needed |-> needed, lo |-> lo, hi |-> hi]
Broken(kind) == [kind |-> kind, needed |-> <<>>, lo |-> 0, hi |-> 0]

\* Every need of up to two names, the program's with repeated names; images start
\* at 0 and are small or, with two needs, larger than the gap between objects.
WithoutRepeats == {s \in Shortlists : Len(s) = 2 => s[1] # s[2]}
Relocatable(s) == Image(s, 0, IF Len(s) = 2 THEN 5 ELSE 1)
AnyFile ==
    {Relocatable(s) : s \in WithoutRepeats} \cup {Broken("missing"), Broken("unreadable")}
AnyProgram == {Relocatable(s) : s \in Shortlists} \cup {Broken("unreadable")}

\* Programs linked at 4.
FixedProgram == {Image(s, 4, 5) : s \in Shortlists}
=============================================================================
