------------------------------ MODULE Residency ------------------------------
(***************************************************************************)
(* The counts of resident bytes that the user is shown.                    *)
(***************************************************************************)
EXTENDS Views

\* Mutant of Counted: bytes before the cursor are counted again.
CountedAgain(r, cursor) == r.end - r.start

\* resident_bytes, one resident: the bytes it adds behind the cursor, and the
\* cursor after it.
Counted(r, cursor) == Minus(r.end, Higher(r.start, cursor))
Moved(r, cursor) == IF r.end > Higher(r.start, cursor) THEN r.end ELSE cursor

\* The residents in order; residents that tie may come in any.
FirstIn(T) == CHOOSE r \in FirstOf(T) : TRUE
ResidentBytes ==
    LET count[T \in SUBSET R] ==
            IF T = {} THEN [cursor \in Nat |-> 0]
            ELSE [cursor \in Nat |-> Counted(FirstIn(T), cursor)
                                        + count[T \ {FirstIn(T)}][Moved(FirstIn(T), cursor)]]
    IN  count[R][0]

FX == INSTANCE FiniteSetsExt

DoubleMappedBytes == Minus(FX!MapThenSumSet(LAMBDA r : r.end - r.start, R), ResidentBytes)

-----------------------------------------------------------------------------
(* Properties.                                                             *)

Holders(off) == {r \in R : r.start <= off /\ off < r.end}

\* The counts shown to the user are those of the bytes that have an address, and
\* of those that have two, as long as no byte has three.  They are the object's
\* alone, so one look is enough.
Loaded(off) == VaddrOf(R, off) # {}
CountsAreExact ==
    LET bytes == 0 .. (object.fileLen - 1)
    IN  mappings = {} =>
          /\ ResidentBytes = Cardinality({off \in bytes : Loaded(off)})
          /\ (\A off \in bytes : Cardinality(Holders(off)) <= 2) =>
                DoubleMappedBytes = Cardinality({off \in bytes : Cardinality(Holders(off)) = 2})
=============================================================================
