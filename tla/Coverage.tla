------------------------------ MODULE Coverage ------------------------------
(***************************************************************************)
(* The claim tree and its builder (elfa-parse/src/coverage.rs).            *)
(*                                                                         *)
(* A caller declares files and pushes claims, may ask the builder to turn  *)
(* the holes between leaf claims into Unclaimed claims, and finishes it.   *)
(* fill_unclaimed and finish scan the leaves of one file after another;    *)
(* the scans are modelled one iteration per step, because what they decide *)
(* rests on the cursor, on the order of the leaves and, for fill_unclaimed,*)
(* on claims pushed while later files are still unscanned.                 *)
(*                                                                         *)
(* Claim ids are 1-based here (index 0 of the code's vector is id 1), so   *)
(* that 0 can stand for "no parent" and for "no previous leaf".            *)
(***************************************************************************)
EXTENDS Span, Sequences, FiniteSets

CONSTANTS
    Files,      \* the FileIds a caller may use
    Lengths,    \* the lengths a file may be declared with
    Offsets,    \* the start offsets and lengths of pushed spans
    MaxClaims   \* BOUND: a caller pushes while fewer claims exist

ASSUME FilesAssumption == Files \subseteq Nat
ASSUME LengthsAssumption == Lengths \subseteq U64
ASSUME OffsetsAssumption == Offsets \subseteq U64
ASSUME MaxClaimsAssumption == MaxClaims \in Nat

VARIABLES
    files,      \* file -> declared length, or Undeclared
    claims,     \* the claims, in the order they were pushed
    children,   \* id -> the ids parented to it (the code's list is ascending)
    reply,      \* what the last push returned
    stage,      \* where the call in progress is; "open" between calls
    pending,    \* files the scan in progress has not reached
    file,       \* the file being scanned
    todo,       \* its leaves not scanned yet
    cursor,     \* the end of the bytes scanned so far
    previous,   \* finish: the leaf scanned last, or None
    holes,      \* fill_unclaimed: the holes of this file not pushed yet
    result      \* what finish returned

builderVars == <<files, claims, children>>
scanVars == <<pending, file, todo, cursor, previous, holes>>
vars == <<files, claims, children, reply, stage, scanVars, result>>

None == 0
Undeclared == -1
FillStages == {"fillFile", "fillScan", "fillPush"}
FinishStages == {"finishFile", "finishScan"}

Kinds == {"Structure", "Unclaimed"}
Claim == [file : Files, start : U64, len : U64, parent : Nat, kind : Kinds]
Refusals == {"UnknownFile", "SpanExceedsFile", "UnknownParent", "ChildEscapesParent"}
Result == [kind : {"none", "Ok", "LeafOverlap", "Gap"}, a : Nat, b : Nat,
           file : Files \cup {None}, start : U64, len : U64]
NoResult == [kind |-> "none", a |-> None, b |-> None, file |-> None, start |-> 0, len |-> 0]

Ids == 1 .. Len(claims)
Declared == {f \in Files : files[f] # Undeclared}

-----------------------------------------------------------------------------
(* Queries the operations are built from.                                  *)

IsLeaf(i) == children[i] = {}

\* sorted_leaves(f), as a set: the scan below takes the elements in order.
\* Empty spans cover no byte and are left out.
Leaves(f) == {i \in Ids : claims[i].file = f /\ ~IsEmpty(claims[i]) /\ IsLeaf(i)}

\* sort_unstable_by_key((start, end)): equal keys come in either order, so
\* any element with a least key may be the next one.
ComesFirst(i, S) ==
    /\ i \in S
    /\ \A j \in S : \/ claims[i].start < claims[j].start
                    \/ /\ claims[i].start = claims[j].start
                       /\ SpanEnd(claims[i]) <= SpanEnd(claims[j])

\* The candidates of innermost_containing, and its choice among them: the
\* shortest, and of equally short ones the first.
Containers(s) == {i \in Ids : ContainsSpan(claims[i], s) /\ ~IsEmpty(claims[i])}

InnermostContaining(s) ==
    IF Containers(s) = {} THEN None
    ELSE CHOOSE i \in Containers(s) : \A j \in Containers(s) :
            \/ claims[i].len < claims[j].len
            \/ claims[i].len = claims[j].len /\ i <= j

\* Mutant of Check: the start of the span is compared where its end should be.
CheckStartOnly(c) ==
    IF files[c.file] = Undeclared THEN "UnknownFile"
    ELSE IF c.start > files[c.file] THEN "SpanExceedsFile"
    ELSE IF c.parent = None THEN "ok"
    ELSE IF c.parent \notin Ids THEN "UnknownParent"
    ELSE IF ~ContainsSpan(claims[c.parent], c) THEN "ChildEscapesParent"
    ELSE "ok"

\* The check of push, in the order of the code; "ok" when nothing is wrong.
Check(c) ==
    IF files[c.file] = Undeclared THEN "UnknownFile"
    ELSE IF SpanEnd(c) > files[c.file] THEN "SpanExceedsFile"
    ELSE IF c.parent = None THEN "ok"
    ELSE IF c.parent \notin Ids THEN "UnknownParent"
    ELSE IF ~ContainsSpan(claims[c.parent], c) THEN "ChildEscapesParent"
    ELSE "ok"

\* What an accepted push does: register with the parent, append the claim.
Attach(c) ==
    /\ claims' = Append(claims, c)
    /\ children' = Append([i \in Ids |-> IF i = c.parent
                                         THEN children[i] \cup {Len(claims) + 1}
                                         ELSE children[i]], {})

\* Mutant of Hole: the operands of the subtraction change places.
HoleReversed(lo, hi) == [file |-> file, start |-> lo, len |-> lo - hi]

Hole(lo, hi) == [file |-> file, start |-> lo, len |-> hi - lo]

-----------------------------------------------------------------------------
(* The caller's operations.                                                *)

\* add_file: a second declaration overwrites the first.
AddFile(f, len) ==
    /\ stage = "open"
    /\ files' = [files EXCEPT ![f] = len]
    /\ UNCHANGED <<claims, children, reply, stage, scanVars, result>>

\* Mutant of Push: the child is registered with its parent before the parent's
\* span is checked, so a refused claim leaves its id behind.
PushRegistersFirst(c) ==
    /\ stage = "open"
    /\ Len(claims) < MaxClaims
    /\ reply' = Check(c)
    /\ IF Check(c) = "ok" THEN Attach(c)
       ELSE /\ UNCHANGED claims
            /\ IF Check(c) = "ChildEscapesParent"
               THEN children' = [children EXCEPT ![c.parent] = @ \cup {Len(claims) + 1}]
               ELSE UNCHANGED children
    /\ UNCHANGED <<files, stage, scanVars, result>>

Push(c) ==
    /\ stage = "open"
    /\ Len(claims) < MaxClaims
    /\ reply' = Check(c)
    /\ IF Check(c) = "ok" THEN Attach(c) ELSE UNCHANGED <<claims, children>>
    /\ UNCHANGED <<files, stage, scanVars, result>>

\* The start of a scan over every declared file, for either operation.
StartScan(next) ==
    /\ stage = "open"
    /\ stage' = next
    /\ reply' = "none"
    /\ pending' = Declared
    /\ UNCHANGED <<builderVars, file, todo, cursor, previous, holes, result>>

\* Mutant of EnterFile: the file stays among those still to scan.
EnterFileAgain(from, to) ==
    /\ stage = from
    /\ stage' = to
    /\ \E f \in pending :
          /\ \A g \in pending : f <= g
          /\ file' = f
          /\ pending' = pending
          /\ todo' = Leaves(f)
    /\ cursor' = 0
    /\ previous' = None
    /\ holes' = <<>>
    /\ UNCHANGED <<builderVars, reply, result>>

\* The next file in the order of the BTreeMap.
EnterFile(from, to) ==
    /\ stage = from
    /\ stage' = to
    /\ \E f \in pending :
          /\ \A g \in pending : f <= g
          /\ file' = f
          /\ pending' = pending \ {f}
          /\ todo' = Leaves(f)
    /\ cursor' = 0
    /\ previous' = None
    /\ holes' = <<>>
    /\ UNCHANGED <<builderVars, reply, result>>

-----------------------------------------------------------------------------
(* fill_unclaimed.                                                         *)

FillStart == StartScan("fillFile")

FillFile == EnterFile("fillFile", "fillScan")

\* Mutant of FillLeaf: the cursor follows the last leaf even when an earlier
\* one ends later.
FillLeafForgets ==
    /\ stage = "fillScan"
    /\ \E i \in todo :
          /\ ComesFirst(i, todo)
          /\ todo' = todo \ {i}
          /\ holes' = IF claims[i].start > cursor
                      THEN Append(holes, Hole(cursor, claims[i].start))
                      ELSE holes
          /\ cursor' = SpanEnd(claims[i])
    /\ UNCHANGED <<builderVars, reply, stage, pending, file, previous, result>>

FillLeaf ==
    /\ stage = "fillScan"
    /\ \E i \in todo :
          /\ ComesFirst(i, todo)
          /\ todo' = todo \ {i}
          /\ holes' = IF claims[i].start > cursor
                      THEN Append(holes, Hole(cursor, claims[i].start))
                      ELSE holes
          /\ cursor' = IF SpanEnd(claims[i]) > cursor THEN SpanEnd(claims[i]) ELSE cursor
    /\ UNCHANGED <<builderVars, reply, stage, pending, file, previous, result>>

\* Mutant of FillTail: the bytes after the last leaf are forgotten.
FillTailForgets ==
    /\ stage = "fillScan"
    /\ todo = {}
    /\ stage' = "fillPush"
    /\ UNCHANGED <<builderVars, reply, pending, file, todo, cursor, previous, holes, result>>

FillTail ==
    /\ stage = "fillScan"
    /\ todo = {}
    /\ holes' = IF cursor < files[file]
                THEN Append(holes, Hole(cursor, files[file]))
                ELSE holes
    /\ stage' = "fillPush"
    /\ UNCHANGED <<builderVars, reply, pending, file, todo, cursor, previous, result>>

\* One hole becomes a claim, parented to the innermost claim containing it.
\* A push that is refused drops the hole without a word.
HoleClaim(h) ==
    [file |-> h.file, start |-> h.start, len |-> h.len,
     parent |-> InnermostContaining(h), kind |-> "Unclaimed"]

FillHole ==
    /\ stage = "fillPush"
    /\ holes # <<>>
    /\ LET c == HoleClaim(Head(holes))
       IN  IF Check(c) = "ok" THEN Attach(c) ELSE UNCHANGED <<claims, children>>
    /\ holes' = Tail(holes)
    /\ UNCHANGED <<files, reply, stage, pending, file, todo, cursor, previous, result>>

FillNextFile ==
    /\ stage = "fillPush"
    /\ holes = <<>>
    /\ stage' = "fillFile"
    /\ UNCHANGED <<builderVars, reply, scanVars, result>>

\* The scan's locals go out of scope.
FillReturn ==
    /\ stage = "fillFile"
    /\ pending = {}
    /\ stage' = "open"
    /\ file' = None /\ todo' = {} /\ cursor' = 0 /\ previous' = None /\ holes' = <<>>
    /\ UNCHANGED <<builderVars, reply, pending, result>>

-----------------------------------------------------------------------------
(* finish, which consumes the builder.                                     *)

Return(r) ==
    /\ result' = r
    /\ stage' = "done"
    /\ UNCHANGED <<builderVars, reply, scanVars>>

GapResult(lo, hi) ==
    [kind |-> "Gap", a |-> None, b |-> None, file |-> file, start |-> lo, len |-> hi - lo]

\* Mutant of OverlapResult: `at` runs to the cursor even past the second leaf.
OverlapToCursor(i) ==
    [kind |-> "LeafOverlap", a |-> IF previous = None THEN i ELSE previous, b |-> i,
     file |-> file, start |-> claims[i].start, len |-> cursor - claims[i].start]

\* `at`: from the start of the second leaf to the end of the shorter one.
OverlapResult(i) ==
    LET stop == IF SpanEnd(claims[i]) < cursor THEN SpanEnd(claims[i]) ELSE cursor
    IN  [kind |-> "LeafOverlap", a |-> IF previous = None THEN i ELSE previous, b |-> i,
         file |-> file, start |-> claims[i].start, len |-> stop - claims[i].start]

FinishStart == StartScan("finishFile")

FinishFile == EnterFile("finishFile", "finishScan")

FinishOverlap ==
    /\ stage = "finishScan"
    /\ \E i \in todo : /\ ComesFirst(i, todo)
                       /\ claims[i].start < cursor
                       /\ Return(OverlapResult(i))

FinishGap ==
    /\ stage = "finishScan"
    /\ \E i \in todo : /\ ComesFirst(i, todo)
                       /\ claims[i].start > cursor
                       /\ Return(GapResult(cursor, claims[i].start))

FinishLeaf ==
    /\ stage = "finishScan"
    /\ \E i \in todo :
          /\ ComesFirst(i, todo)
          /\ claims[i].start = cursor
          /\ todo' = todo \ {i}
          /\ cursor' = SpanEnd(claims[i])
          /\ previous' = i
    /\ UNCHANGED <<builderVars, reply, stage, pending, file, holes, result>>

FinishTailGap ==
    /\ stage = "finishScan"
    /\ todo = {}
    /\ cursor < files[file]
    /\ Return(GapResult(cursor, files[file]))

\* Mutant of FinishNextFile: the end of the file is not compared with the cursor.
FinishNextFileEarly ==
    /\ stage = "finishScan"
    /\ todo = {}
    /\ stage' = "finishFile"
    /\ UNCHANGED <<builderVars, reply, scanVars, result>>

FinishNextFile ==
    /\ stage = "finishScan"
    /\ todo = {}
    /\ cursor >= files[file]
    /\ stage' = "finishFile"
    /\ UNCHANGED <<builderVars, reply, scanVars, result>>

FinishAccept ==
    /\ stage = "finishFile"
    /\ pending = {}
    /\ Return([NoResult EXCEPT !.kind = "Ok"])

-----------------------------------------------------------------------------
Init ==
    /\ files = [f \in Files |-> Undeclared]
    /\ claims = <<>>
    /\ children = <<>>
    /\ reply = "none"
    /\ stage = "open"
    /\ pending = {}
    /\ file = None
    /\ todo = {}
    /\ cursor = 0
    /\ previous = None
    /\ holes = <<>>
    /\ result = NoResult

CallerNext ==
    \/ \E f \in Files, len \in Lengths : AddFile(f, len)
    \/ \E f \in Files, start \in Offsets, len \in Offsets, p \in 0 .. (Len(claims) + 1) :
          Push([file |-> f, start |-> start, len |-> len, parent |-> p, kind |-> "Structure"])
    \/ FillStart
    \/ FinishStart

FillNext == FillFile \/ FillLeaf \/ FillTail \/ FillHole \/ FillNextFile \/ FillReturn

FinishNext ==
    \/ FinishFile \/ FinishOverlap \/ FinishGap \/ FinishLeaf
    \/ FinishTailGap \/ FinishNextFile \/ FinishAccept

Next == CallerNext \/ FillNext \/ FinishNext

Spec == Init /\ [][Next]_vars

-----------------------------------------------------------------------------
(* Properties.                                                             *)

HoleSpan == [file : Files, start : U64, len : U64]

\* Every variable has its type; ids in the tree and in the scans are claims.
TypeOK ==
    /\ files \in [Files -> U64 \cup {Undeclared}]
    /\ claims \in Seq(Claim)
    /\ children \in Seq(SUBSET Ids)
    /\ Len(children) = Len(claims)
    /\ reply \in Refusals \cup {"none", "ok"}
    /\ stage \in {"open", "done"} \cup FillStages \cup FinishStages
    /\ pending \subseteq Declared
    /\ file \in Files \cup {None}
    /\ stage \in {"fillScan", "fillPush", "finishScan"} => file \in Declared
    /\ todo \subseteq Ids
    /\ cursor \in U64
    /\ previous \in Ids \cup {None}
    /\ holes \in Seq(HoleSpan)
    /\ result \in Result

\* The parent links make a forest whatever the caller pushes and whichever
\* pushes are refused: a parent was pushed before its child, lies in the same
\* file and contains it, and the child lists say exactly what the parent links
\* say.  This is what ends the walk of Coverage::ancestry without its guard.
Forest ==
    /\ \A i \in Ids : claims[i].parent # None =>
          /\ claims[i].parent < i
          /\ ContainsSpan(claims[claims[i].parent], claims[i])
    /\ \A i \in Ids : children[i] = {j \in Ids : claims[j].parent = i}

LeavesAt(f, b) == {i \in Leaves(f) : Contains(claims[i], f, b)}
Claimed(f, b) == LeavesAt(f, b) # {}
ClaimedOnce(f, b) == \E i \in Leaves(f) : LeavesAt(f, b) = {i}

\* finish returns a Coverage only when every byte of every declared file is
\* claimed by exactly one leaf (the invariant of lib.rs and README).
AcceptedIsPartition ==
    result.kind = "Ok" =>
        \A f \in Declared : \A b \in 0 .. (files[f] - 1) : ClaimedOnce(f, b)

\* A refusal of finish is true of the claims: the bytes it names exist, no
\* leaf claims any byte of a Gap, and both leaves named by a LeafOverlap claim
\* every byte of `at`.
RefusalIsTrue ==
    LET named == result.start .. (result.start + result.len - 1)
    IN  /\ result.kind = "Gap" =>
              named # {} /\ \A b \in named : ~Claimed(result.file, b)
        /\ result.kind = "LeafOverlap" =>
              /\ result.a # result.b
              /\ named # {}
              /\ \A b \in named : {result.a, result.b} \subseteq LeavesAt(result.file, b)

\* What finish knows in the middle of its scan, and why its verdict is true:
\* the leaves scanned partition the bytes below the cursor, and the bytes of
\* the files it has left behind are partitioned.
Scanned == Leaves(file) \ todo

ScanInv ==
    /\ todo \subseteq Leaves(file)
    /\ \A i \in Scanned : SpanEnd(claims[i]) <= cursor
    /\ \A b \in 0 .. (cursor - 1) :
          \E i \in Scanned : {j \in Scanned : Contains(claims[j], file, b)} = {i}
    /\ \/ previous = None /\ cursor = 0
       \/ /\ previous \in Scanned
          /\ SpanEnd(claims[previous]) = cursor
          /\ \A j \in todo : claims[previous].start <= claims[j].start

PartitionOf(f) == \A b \in 0 .. (files[f] - 1) : ClaimedOnce(f, b)

FinishInv ==
    /\ stage = "finishFile" => \A f \in Declared \ pending : PartitionOf(f)
    /\ stage = "finishScan" =>
          /\ ScanInv
          /\ \A f \in Declared \ (pending \cup {file}) : PartitionOf(f)
    /\ result.kind # "none" => stage = "done"
    /\ AcceptedIsPartition
    /\ RefusalIsTrue

\* No claim runs past the length its file was declared with last.
AllFit == \A i \in Ids : SpanEnd(claims[i]) <= files[claims[i].file]

\* When fill_unclaimed returns, no byte of any file is without a leaf, unless a
\* file was declared again with a shorter length after claims were pushed.
FillLeavesNoHole ==
    [][stage = "fillFile" /\ stage' = "open" /\ AllFit =>
          \A f \in Declared : \A b \in 0 .. (files[f] - 1) : Claimed(f, b)]_vars

FillsOnlyHoles(c) ==
    /\ c.kind = "Unclaimed"
    /\ \A b \in c.start .. (SpanEnd(c) - 1) : ~Claimed(c.file, b)

AddsOnlyFiller ==
    /\ \A f \in Files : Leaves(f) \subseteq Leaves(f)'
    /\ \A i \in Ids : claims'[i] = claims[i]
    /\ \A i \in Ids' \ Ids : FillsOnlyHoles(claims'[i])

\* fill_unclaimed only adds: what was pushed stays as it was, no leaf becomes
\* interior, and a claim it adds shares no byte with any other leaf.
FillOnlyAddsFiller ==
    [][(stage \in FillStages) => AddsOnlyFiller]_vars

\* The builder implements the contract: scans are invisible, every claim that
\* appears is inside its file and its parent, and the verdict is true.
Contract == INSTANCE CoverageContract WITH verdict <- result.kind
ImplementsContract == Contract!Spec
=============================================================================
