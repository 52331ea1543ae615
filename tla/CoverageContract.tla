-------------------------- MODULE CoverageContract --------------------------
(***************************************************************************)
(* What the claim tree promises its users, without the scans: claims may   *)
(* be added while no verdict is out, each inside its file and inside the   *)
(* claim it names as parent, and the verdict is a true statement about the *)
(* claims.  Leaves are defined by the parent links alone.                  *)
(***************************************************************************)
EXTENDS Span, Sequences

CONSTANT Files

VARIABLES files, claims, verdict

vars == <<files, claims, verdict>>

Undeclared == -1
Ids == 1 .. Len(claims)

LeafAt(i, f, b) ==
    /\ Contains(claims[i], f, b)
    /\ \A j \in Ids : claims[j].parent # i

Byte(f, b) == files[f] # Undeclared /\ b \in 0 .. (files[f] - 1)

\* A byte is missed when the file has it or when a leaf of the file lies behind
\* it: a file declared again, shorter, keeps the claims past its end.
Expected(f, b) ==
    Byte(f, b) \/ \E j \in Ids : claims[j].file = f /\ b < claims[j].start

\* What each verdict says of the claims.
Holds(v) ==
    CASE v = "Ok" ->
           \A f \in Files, b \in U64 : Byte(f, b) =>
               \E i \in Ids : /\ LeafAt(i, f, b)
                              /\ \A j \in Ids : LeafAt(j, f, b) => j = i
      [] v = "Gap" ->
           \E f \in Files, b \in U64 : /\ Expected(f, b)
                                      /\ \A i \in Ids : ~LeafAt(i, f, b)
      [] v = "LeafOverlap" ->
           \E f \in Files, b \in U64, i, j \in Ids :
               i # j /\ LeafAt(i, f, b) /\ LeafAt(j, f, b)

Init ==
    /\ files = [f \in Files |-> Undeclared]
    /\ claims = <<>>
    /\ verdict = "none"

Declare ==
    /\ verdict = "none"
    /\ \E f \in Files, len \in U64 : files' = [files EXCEPT ![f] = len]
    /\ UNCHANGED <<claims, verdict>>

\* The claim added is the one that lengthens the list.
AddClaim ==
    /\ verdict = "none"
    /\ Len(claims') = Len(claims) + 1
    /\ claims' = Append(claims, claims'[Len(claims')])
    /\ LET c == claims'[Len(claims')]
       IN  /\ SpanEnd(c) <= files[c.file]
           /\ c.parent = 0 \/ (c.parent \in Ids /\ ContainsSpan(claims[c.parent], c))
    /\ UNCHANGED <<files, verdict>>

Decide ==
    /\ verdict = "none"
    /\ verdict' \in {"Ok", "Gap", "LeafOverlap"}
    /\ Holds(verdict')
    /\ UNCHANGED <<files, claims>>

Next == Declare \/ AddClaim \/ Decide

Spec == Init /\ [][Next]_vars
=============================================================================
