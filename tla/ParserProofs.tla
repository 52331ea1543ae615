---------------------------- MODULE ParserProofs ----------------------------
(***************************************************************************)
(* What is proved of the claim tree and of the parser that fills it, for   *)
(* every file, however its tables, sizes and offsets are set out.          *)
(*                                                                         *)
(* The claim tree first: its types, its forest, the verdict of finish,     *)
(* that it implements the contract of module CoverageContract, and that    *)
(* fill_unclaimed only adds and leaves no hole.  The scan of a file finds  *)
(* holes before any of them is pushed, and each push is parented by a      *)
(* search through all claims; the invariant of filling says that what was  *)
(* found stays true until it is pushed, and that nothing is overlooked     *)
(* meanwhile.                                                              *)
(*                                                                         *)
(* Then the parser: no claim it makes is refused, finish refuses a file    *)
(* only for bytes that two of its own regions share, and what is accepted  *)
(* is partitioned.  Its invariant is about the claims planned: those       *)
(* pushed and those that wait.  PlacedInv puts each in the file and in its *)
(* parent, RegionInv says that claims without a parent are regions of the  *)
(* file, each another one, and that within a region claims are apart or    *)
(* one has parts, LoopInv that nothing of a region lies ahead of the loop  *)
(* over it.  What fill_unclaimed and finish do with such claims rests on   *)
(* the builder's own invariants.                                           *)
(***************************************************************************)
EXTENDS Parser, FiniteProofs, SequenceTheorems

-----------------------------------------------------------------------------
(* The claim tree.                                                         *)

USE DEF None, Undeclared

LEMMA SpanEndType ==
    ASSUME NEW a \in U64, NEW n \in U64
    PROVE  /\ SatAdd(a, n) \in U64
           /\ a <= SatAdd(a, n)
           /\ n > 0 /\ a < MaxU64 => a < SatAdd(a, n)
  BY MaxU64Assumption DEF SatAdd, U64

\* What an accepted push does to the two lists, read index by index.
LEMMA AttachEffect ==
    ASSUME TypeOK, NEW c, Attach(c)
    PROVE  /\ Len(claims') = Len(claims) + 1
           /\ Len(children') = Len(claims) + 1
           /\ Ids' = Ids \cup {Len(claims) + 1}
           /\ Len(claims) + 1 \notin Ids
           /\ \A i \in Ids : claims'[i] = claims[i]
           /\ claims'[Len(claims) + 1] = c
           /\ \A i \in Ids : children'[i] = IF i = c.parent
                                            THEN children[i] \cup {Len(claims) + 1}
                                            ELSE children[i]
           /\ children'[Len(claims) + 1] = {}
  <1> DEFINE kids == [i \in Ids |-> IF i = c.parent
                                    THEN children[i] \cup {Len(claims) + 1}
                                    ELSE children[i]]
             n == Len(claims)
  <1>1. claims \in Seq(Claim) /\ n \in Nat /\ Ids = 1 .. n
    BY DEF TypeOK, Ids
  <1>2. kids \in Seq(SUBSET (Ids \cup {n + 1})) /\ Len(kids) = n
    BY <1>1 DEF TypeOK
  <1>3. claims' = Append(claims, c) /\ children' = Append(kids, {})
    BY DEF Attach
  <1> HIDE DEF kids
  <1>4. Len(claims') = n + 1 /\ Len(children') = n + 1
    BY <1>1, <1>2, <1>3
  <1>5. \A i \in Ids : claims'[i] = claims[i] /\ children'[i] = kids[i]
    BY <1>1, <1>2, <1>3
  <1>6. claims'[n + 1] = c /\ children'[n + 1] = {}
    BY <1>1, <1>2, <1>3
  <1>7. Ids' = Ids \cup {n + 1} /\ n + 1 \notin Ids
    BY <1>1, <1>4 DEF Ids
  <1>8. QED
    BY <1>4, <1>5, <1>6, <1>7 DEF kids

LEMMA AttachType ==
    ASSUME TypeOK, NEW c \in Claim, Attach(c)
    PROVE  /\ claims' \in Seq(Claim)
           /\ children' \in Seq(SUBSET (Ids'))
           /\ Len(children') = Len(claims')
  <1> DEFINE n == Len(claims)
             kids == [i \in Ids |-> IF i = c.parent
                                    THEN children[i] \cup {n + 1}
                                    ELSE children[i]]
  <1>1. claims \in Seq(Claim) /\ n \in Nat /\ Ids = 1 .. n
    BY DEF TypeOK, Ids
  <1>2. Ids' = Ids \cup {n + 1} /\ Len(claims') = n + 1 /\ Len(children') = n + 1
    BY AttachEffect
  <1>3. kids \in Seq(SUBSET (Ids'))
    BY <1>1, <1>2 DEF TypeOK
  <1>4. claims' = Append(claims, c) /\ children' = Append(kids, {})
    BY DEF Attach
  <1> HIDE DEF kids
  <1>5. QED
    BY <1>1, <1>2, <1>3, <1>4

LEMMA ClaimFacts ==
    ASSUME TypeOK, NEW i \in Ids
    PROVE  /\ claims[i] \in Claim
           /\ claims[i].file \in Files
           /\ claims[i].start \in U64
           /\ claims[i].len \in U64
           /\ claims[i].parent \in Nat
           /\ SpanEnd(claims[i]) \in U64
           /\ claims[i].start <= SpanEnd(claims[i])
  <1>1. claims[i] \in Claim
    BY DEF TypeOK, Ids
  <1>2. QED
    BY <1>1, SpanEndType DEF Claim, SpanEnd

\* A span built between two offsets ends where it was meant to.
LEMMA HoleFacts ==
    ASSUME TypeOK, file \in Files, NEW lo \in U64, NEW hi \in U64, lo < hi
    PROVE  /\ Hole(lo, hi) \in HoleSpan
           /\ Hole(lo, hi).file = file
           /\ Hole(lo, hi).start = lo
           /\ Hole(lo, hi).len > 0
           /\ SpanEnd(Hole(lo, hi)) = hi
  BY MaxU64Assumption DEF Hole, HoleSpan, SpanEnd, SatAdd, U64

\* What the proofs rest on is a step of any caller, whatever files, lengths and
\* claims it has: the specification's own callers, and the parser.
AnyStep ==
    \/ \E f \in Files, len \in U64 : AddFile(f, len)
    \/ \E c \in Claim : Push(c)
    \/ FillStart \/ FinishStart \/ FillNext \/ FinishNext

LEMMA NextIsAnyStep == Next => AnyStep
  <1>1. ASSUME NEW f \in Files, NEW start \in Offsets, NEW len \in Offsets,
               NEW q \in 0 .. (Len(claims) + 1)
        PROVE  [file |-> f, start |-> start, len |-> len, parent |-> q,
                kind |-> "Structure"] \in Claim
    <2>1. q \in Nat
      OBVIOUS
    <2>2. QED
      BY <2>1, OffsetsAssumption DEF Claim, Kinds
  <1>2. QED
    BY <1>1, LengthsAssumption DEF Next, CallerNext, AnyStep

LEMMA TypeInit == Init => TypeOK
  BY MaxU64Assumption
  DEF Init, TypeOK, Ids, Declared, FillStages, FinishStages, Refusals, NoResult, Result, U64

LEMMA TypeNext == TypeOK /\ [AnyStep]_vars => TypeOK'
  <1> SUFFICES ASSUME TypeOK, [AnyStep]_vars PROVE TypeOK'
    OBVIOUS
  <1> USE DEF FillStages, FinishStages, Refusals
  <1>1. ASSUME NEW f \in Files, NEW len \in U64, AddFile(f, len)
        PROVE  TypeOK'
    <2>1. len \in U64 /\ len # Undeclared
      BY MaxU64Assumption DEF U64, Undeclared
    <2>2. Declared \subseteq Declared'
      BY <1>1, <2>1 DEF AddFile, TypeOK, Declared
    <2>3. QED
      BY <1>1, <2>1, <2>2 DEF AddFile, TypeOK, Ids, scanVars
  <1>2. ASSUME NEW c \in Claim, Push(c)
        PROVE  TypeOK'
    <2>2. Check(c) \in Refusals \cup {"ok"}
      BY DEF Check
    <2>3. UNCHANGED <<files, stage, scanVars, result>> /\ reply' = Check(c)
      BY <1>2 DEF Push
    <2>4. CASE Attach(c)
      <3>1. Ids \subseteq Ids'
        BY <2>4, AttachEffect
      <3>2. QED
        BY <2>2, <2>3, <2>4, <3>1, AttachType, AttachEffect
        DEF TypeOK, Declared, scanVars
    <2>5. CASE UNCHANGED <<claims, children>>
      BY <2>2, <2>3, <2>5 DEF TypeOK, Ids, Declared, scanVars
    <2>6. QED
      BY <1>2, <2>4, <2>5 DEF Push
  <1>3. ASSUME NEW next \in {"fillFile", "finishFile"}, StartScan(next)
        PROVE  TypeOK'
    BY <1>3 DEF StartScan, TypeOK, Ids, Declared, builderVars
  <1>4. ASSUME NEW to \in {"fillScan", "finishScan"}, NEW from, EnterFile(from, to)
        PROVE  TypeOK'
    BY <1>4, MaxU64Assumption
    DEF EnterFile, TypeOK, Ids, Declared, builderVars, Leaves, U64
  <1>5. CASE FillLeaf
    <2> PICK i \in todo : FillLeaf!2!(i)
      BY <1>5 DEF FillLeaf
    <2>1. i \in Ids /\ file \in Files /\ cursor \in U64
      BY <1>5 DEF FillLeaf, TypeOK, Declared
    <2>2. holes' \in Seq(HoleSpan) /\ cursor' \in U64
      BY <2>1, ClaimFacts, HoleFacts DEF TypeOK
    <2>3. QED
      BY <1>5, <2>1, <2>2 DEF FillLeaf, TypeOK, Ids, Declared, builderVars
  <1>6. CASE FillTail
    <2>1. file \in Files /\ files[file] \in U64 /\ cursor \in U64
      BY <1>6 DEF FillTail, TypeOK, Declared
    <2>2. holes' \in Seq(HoleSpan)
      BY <1>6, <2>1, HoleFacts DEF FillTail, TypeOK
    <2>3. QED
      BY <1>6, <2>2 DEF FillTail, TypeOK, Ids, Declared, builderVars
  <1>7. CASE FillHole
    <2> DEFINE c == HoleClaim(Head(holes))
    <2>1. Head(holes) \in HoleSpan /\ Tail(holes) \in Seq(HoleSpan)
      BY <1>7 DEF FillHole, TypeOK
    <2>2. ASSUME Check(c) = "ok" PROVE c \in Claim
      <3>1. c.parent \in Nat
        BY <2>2 DEF Check, HoleClaim, Ids
      <3>2. QED
        BY <2>1, <3>1 DEF HoleClaim, HoleSpan, Claim, Kinds
    <2> HIDE DEF c
    <2>3. CASE Check(c) = "ok" /\ Attach(c)
      <3>1. Ids \subseteq Ids'
        BY <2>3, AttachEffect
      <3>2. QED
        BY <1>7, <2>1, <2>2, <2>3, <3>1, AttachType, AttachEffect
        DEF FillHole, TypeOK, Declared
    <2>4. CASE UNCHANGED <<claims, children>>
      BY <1>7, <2>1, <2>4 DEF FillHole, TypeOK, Ids, Declared
    <2>5. QED
      BY <1>7, <2>3, <2>4 DEF FillHole, c
  <1>8. CASE FillNextFile
    BY <1>8 DEF FillNextFile, TypeOK, Ids, Declared, builderVars, scanVars
  <1>9. CASE FillReturn
    BY <1>9, MaxU64Assumption DEF FillReturn, TypeOK, Ids, Declared, builderVars, U64
  <1>10. ASSUME NEW r \in Result,
                Return(r)
         PROVE  TypeOK'
    BY <1>10 DEF Return, TypeOK, Ids, Declared, builderVars, scanVars
  <1>11. CASE FinishOverlap
    <2> PICK i \in todo : FinishOverlap!2!(i)
      BY <1>11 DEF FinishOverlap
    <2>1. i \in Ids /\ cursor \in U64 /\ previous \in Nat /\ file \in Files \cup {None}
      BY DEF TypeOK, Ids
    <2>2. claims[i].start \in U64 /\ SpanEnd(claims[i]) \in U64
          /\ claims[i].start <= SpanEnd(claims[i])
      BY <2>1, ClaimFacts
    <2>3. OverlapResult(i).len \in U64
      BY <2>1, <2>2, MaxU64Assumption DEF OverlapResult, U64
    <2>4. OverlapResult(i) \in Result
      BY <2>1, <2>2, <2>3 DEF OverlapResult, Result, Ids
    <2>5. QED
      BY <1>10, <2>4
  <1>12. CASE FinishGap
    <2> PICK i \in todo : FinishGap!2!(i)
      BY <1>12 DEF FinishGap
    <2>1. i \in Ids /\ cursor \in U64 /\ file \in Files \cup {None}
      BY DEF TypeOK
    <2>2. claims[i].start \in U64
      BY <2>1, ClaimFacts
    <2>3. GapResult(cursor, claims[i].start) \in Result
      BY <2>1, <2>2, MaxU64Assumption DEF GapResult, Result, U64
    <2>4. QED
      BY <1>10, <2>3
  <1>13. CASE FinishLeaf
    <2> PICK i \in todo : FinishLeaf!2!(i)
      BY <1>13 DEF FinishLeaf
    <2>1. i \in Ids
      BY DEF TypeOK
    <2>2. SpanEnd(claims[i]) \in U64
      BY <2>1, ClaimFacts
    <2>3. UNCHANGED <<builderVars, reply, stage, pending, file, holes, result>>
      BY <1>13 DEF FinishLeaf
    <2>4. QED
      BY <2>1, <2>2, <2>3 DEF TypeOK, Ids, Declared, builderVars
  <1>14. CASE FinishTailGap
    <2>1. file \in Files /\ files[file] \in U64 /\ cursor \in U64
      BY <1>14 DEF FinishTailGap, TypeOK, Declared
    <2>2. GapResult(cursor, files[file]) \in Result
      BY <1>14, <2>1, MaxU64Assumption DEF FinishTailGap, GapResult, Result, U64
    <2>3. QED
      BY <1>10, <1>14, <2>2 DEF FinishTailGap
  <1>15. CASE FinishNextFile
    BY <1>15 DEF FinishNextFile, TypeOK, Ids, Declared, builderVars, scanVars
  <1>16. CASE FinishAccept
    <2> DEFINE ok == [NoResult EXCEPT !.kind = "Ok"]
    <2>1. ok \in Result
      BY MaxU64Assumption DEF NoResult, Result, U64
    <2>2. Return(ok)
      BY <1>16 DEF FinishAccept
    <2> HIDE DEF ok
    <2>3. QED
      BY <1>10, <2>1, <2>2
  <1>17. CASE UNCHANGED vars
    BY <1>17 DEF vars, TypeOK, Ids, Declared, scanVars
  <1>18. QED
    BY <1>1, <1>2, <1>3, <1>4, <1>5, <1>6, <1>7, <1>8, <1>9, <1>11, <1>12, <1>13,
       <1>14, <1>15, <1>16, <1>17
    DEF AnyStep, FillNext, FinishNext, FillStart, FinishStart, FillFile, FinishFile

\* Every variable keeps its type, and the file a scan is in is a declared one.
THEOREM TypeCorrect == Spec => []TypeOK
  BY TypeInit, TypeNext, NextIsAnyStep, PTL DEF Spec

-----------------------------------------------------------------------------
(* The forest.                                                             *)

\* Only an accepted push, the caller's or fill_unclaimed's, changes the tree.
LEMMA TreeSteps ==
    ASSUME TypeOK, [AnyStep]_vars
    PROVE  \/ UNCHANGED <<claims, children>>
           \/ \E c \in Claim : Check(c) = "ok" /\ Attach(c) /\ UNCHANGED files
  <1>1. ASSUME NEW c \in Claim, Push(c)
        PROVE  \/ UNCHANGED <<claims, children>>
               \/ Check(c) = "ok" /\ Attach(c) /\ UNCHANGED files
    BY <1>1 DEF Push
  <1>2. CASE FillHole
    <2> DEFINE c == HoleClaim(Head(holes))
    <2>1. Head(holes) \in HoleSpan
      BY <1>2 DEF FillHole, TypeOK
    <2>2. ASSUME Check(c) = "ok" PROVE c \in Claim
      <3>1. c.parent \in Nat
        BY <2>2 DEF Check, HoleClaim, Ids
      <3>2. QED
        BY <2>1, <3>1 DEF HoleClaim, HoleSpan, Claim, Kinds
    <2> HIDE DEF c
    <2>3. QED
      BY <1>2, <2>2 DEF FillHole, c
  <1>3. QED
    BY <1>1, <1>2
    DEF AnyStep, FillNext, FinishNext, vars, builderVars, AddFile, StartScan,
        EnterFile, Return, FillStart, FinishStart, FillFile, FinishFile, FillLeaf, FillTail,
        FillNextFile, FillReturn, FinishOverlap, FinishGap, FinishLeaf, FinishTailGap,
        FinishNextFile, FinishAccept

LEMMA ForestAttach ==
    ASSUME TypeOK, Forest, NEW c \in Claim, Check(c) = "ok", Attach(c)
    PROVE  Forest'
  <1> DEFINE n == Len(claims)
  <1>1. c.parent = None \/ (c.parent \in Ids /\ ContainsSpan(claims[c.parent], c))
    BY DEF Check
  <1>2. n \in Nat /\ Ids = 1 .. n
    BY DEF TypeOK, Ids
  <1>3. /\ Ids' = Ids \cup {n + 1}
        /\ n + 1 \notin Ids
        /\ \A i \in Ids : claims'[i] = claims[i]
        /\ claims'[n + 1] = c
        /\ \A i \in Ids : children'[i] = IF i = c.parent THEN children[i] \cup {n + 1}
                                         ELSE children[i]
        /\ children'[n + 1] = {}
    BY AttachEffect
  <1>4. ASSUME NEW i \in Ids', claims'[i].parent # None
        PROVE  /\ claims'[i].parent \in Ids
               /\ claims'[i].parent < i
               /\ ContainsSpan(claims'[claims'[i].parent], claims'[i])
    <2>1. CASE i = n + 1
      BY <1>1, <1>2, <1>3, <1>4, <2>1
    <2>2. CASE i \in Ids
      <3>1. claims[i].parent \in Nat
        BY <2>2, ClaimFacts
      <3>2. /\ claims[i].parent < i
            /\ ContainsSpan(claims[claims[i].parent], claims[i])
        BY <1>3, <1>4, <2>2 DEF Forest
      <3>3. claims[i].parent \in Ids
        BY <1>2, <1>3, <1>4, <2>2, <3>1, <3>2
      <3>4. QED
        BY <1>3, <2>2, <3>2, <3>3
    <2>3. QED
      BY <1>3, <2>1, <2>2
  <1>5. ASSUME NEW i \in Ids'
        PROVE  children'[i] = {j \in Ids' : claims'[j].parent = i}
    <2>1. CASE i = n + 1
      BY <1>2, <1>3, <1>4, <2>1
    <2>2. CASE i \in Ids
      <3>1. children[i] = {j \in Ids : claims[j].parent = i}
        BY <2>2 DEF Forest
      <3>2. \A j \in Ids : claims'[j].parent = claims[j].parent
        BY <1>3
      <3>3. claims'[n + 1].parent = c.parent
        BY <1>3
      <3>4. {j \in Ids' : claims'[j].parent = i}
              = children[i] \cup (IF i = c.parent THEN {n + 1} ELSE {})
        <4> HIDE DEF n
        <4>1. QED
          BY <1>3, <3>1, <3>2, <3>3
      <3>5. QED
        BY <1>3, <2>2, <3>4
    <2>3. QED
      BY <1>3, <2>1, <2>2
  <1>6. QED
    BY <1>4, <1>5 DEF Forest

LEMMA ForestNext == TypeOK /\ Forest /\ [AnyStep]_vars => Forest'
  <1> SUFFICES ASSUME TypeOK, Forest, [AnyStep]_vars PROVE Forest'
    OBVIOUS
  <1>1. CASE UNCHANGED <<claims, children>>
    BY <1>1 DEF Forest, Ids
  <1>2. QED
    BY <1>1, TreeSteps, ForestAttach

\* Parent links and child lists agree and lead strictly backwards, whatever
\* the caller pushes: push (coverage.rs) can neither make a cycle nor leave a
\* child behind that it refused.
THEOREM ForestAlways == Spec => []Forest
  <1>1. Init => Forest
    BY DEF Init, Forest, Ids
  <1>2. QED
    BY <1>1, ForestNext, NextIsAnyStep, TypeCorrect, PTL DEF Spec

-----------------------------------------------------------------------------
(* The scan of finish.                                                     *)

LEMMA LeafFacts ==
    ASSUME TypeOK, NEW f, NEW i \in Leaves(f)
    PROVE  /\ i \in Ids
           /\ claims[i].file = f
           /\ claims[i].start \in Nat
           /\ SpanEnd(claims[i]) \in Nat
           /\ claims[i].start <= SpanEnd(claims[i])
           /\ \A b : Contains(claims[i], f, b) <=>
                      claims[i].start <= b /\ b < SpanEnd(claims[i])
  <1>1. i \in Ids /\ claims[i].file = f
    BY DEF Leaves
  <1>2. QED
    BY <1>1, ClaimFacts DEF Contains, U64

\* With the claims untouched, so are the leaves and what they claim.
LEMMA SameClaims ==
    ASSUME UNCHANGED <<claims, children, files>>
    PROVE  /\ Ids' = Ids
           /\ Declared' = Declared
           /\ \A f : Leaves(f)' = Leaves(f)
           /\ \A f, b : LeavesAt(f, b)' = LeavesAt(f, b)
           /\ \A f : PartitionOf(f)' = PartitionOf(f)
  <1>1. Ids' = Ids /\ Declared' = Declared
    BY DEF Ids, Declared
  <1>2. ASSUME NEW f PROVE Leaves(f)' = Leaves(f)
    BY <1>1 DEF Leaves, IsLeaf
  <1>3. ASSUME NEW f, NEW b PROVE LeavesAt(f, b)' = LeavesAt(f, b)
    BY <1>2 DEF LeavesAt
  <1>4. ASSUME NEW f PROVE PartitionOf(f)' = PartitionOf(f)
    BY <1>2, <1>3 DEF PartitionOf, ClaimedOnce
  <1>5. QED
    BY <1>1, <1>2, <1>3, <1>4

\* A scan that has reached the end of its file has shown a partition of it.
LEMMA ScanEnds ==
    ASSUME TypeOK, ScanInv, todo = {}, file \in Declared, cursor >= files[file]
    PROVE  PartitionOf(file)
  <1>1. Scanned = Leaves(file)
    BY DEF Scanned
  <1>2. files[file] \in Nat /\ cursor \in Nat
    BY DEF TypeOK, Declared, U64
  <1>3. ASSUME NEW b \in 0 .. (files[file] - 1)
        PROVE  ClaimedOnce(file, b)
    <2>1. b \in 0 .. (cursor - 1)
      BY <1>2
    <2>2. PICK i \in Scanned : {j \in Scanned : Contains(claims[j], file, b)} = {i}
      BY <2>1 DEF ScanInv
    <2>3. LeavesAt(file, b) = {i} /\ i \in Leaves(file)
      BY <1>1, <2>2 DEF LeavesAt
    <2>4. QED
      BY <2>3 DEF ClaimedOnce
  <1>4. QED
    BY <1>3 DEF PartitionOf

\* One more leaf, beginning where the last one ended.
LEMMA ScanAdvances ==
    ASSUME TypeOK, ScanInv, FinishLeaf
    PROVE  ScanInv'
  <1>1. PICK i \in todo :
           /\ ComesFirst(i, todo)
           /\ claims[i].start = cursor
           /\ todo' = todo \ {i}
           /\ cursor' = SpanEnd(claims[i])
           /\ previous' = i
    BY DEF FinishLeaf
  <1>2. UNCHANGED <<claims, children, files, file>>
    BY DEF FinishLeaf, builderVars
  <1>3. Leaves(file)' = Leaves(file)
    BY <1>2, SameClaims DEF Leaves, IsLeaf, Ids
  <1>4. todo \subseteq Leaves(file) /\ i \in Leaves(file)
    BY <1>1 DEF ScanInv
  <1>5. Scanned' = Scanned \cup {i} /\ i \notin Scanned
    BY <1>1, <1>3, <1>4 DEF Scanned
  <1>6. cursor \in Nat /\ SpanEnd(claims[i]) \in Nat /\ cursor <= SpanEnd(claims[i])
    BY <1>1, <1>4, LeafFacts DEF TypeOK, U64
  <1>7. \A j \in Scanned' : SpanEnd(claims'[j]) <= cursor'
    <2>1. \A j \in Scanned : SpanEnd(claims[j]) \in Nat /\ SpanEnd(claims[j]) <= cursor
      BY LeafFacts DEF ScanInv, Scanned
    <2>2. QED
      BY <1>1, <1>2, <1>5, <1>6, <2>1
  <1>8. ASSUME NEW b \in 0 .. (cursor' - 1)
        PROVE  \E k \in Scanned' : {j \in Scanned' : Contains(claims'[j], file', b)} = {k}
    <2>1. CASE b < cursor
      <3>1. PICK k \in Scanned : {j \in Scanned : Contains(claims[j], file, b)} = {k}
        BY <1>6, <2>1 DEF ScanInv
      <3>2. ~Contains(claims[i], file, b)
        BY <1>1, <1>4, <1>6, <2>1, LeafFacts
      <3>3. {j \in Scanned' : Contains(claims'[j], file', b)} = {k}
        BY <1>2, <1>5, <3>1, <3>2
      <3>4. QED
        BY <1>5, <3>1, <3>3
    <2>2. CASE ~(b < cursor)
      <3>1. Contains(claims[i], file, b)
        BY <1>1, <1>4, <1>6, <2>2, LeafFacts
      <3>2. \A j \in Scanned : ~Contains(claims[j], file, b)
        <4> SUFFICES ASSUME NEW j \in Scanned PROVE ~Contains(claims[j], file, b)
          OBVIOUS
        <4>1. j \in Leaves(file) /\ SpanEnd(claims[j]) <= cursor
          BY DEF ScanInv, Scanned
        <4>2. QED
          BY <1>6, <2>2, <4>1, LeafFacts
      <3>3. {j \in Scanned' : Contains(claims'[j], file', b)} = {i}
        BY <1>2, <1>5, <3>1, <3>2
      <3>4. QED
        BY <1>5, <3>3
    <2>3. QED
      BY <2>1, <2>2
  <1>9. \A j \in todo' : claims'[previous'].start <= claims'[j].start
    <2> SUFFICES ASSUME NEW j \in todo PROVE claims[i].start <= claims[j].start
      BY <1>1, <1>2
    <2>1. claims[i].start \in Nat /\ claims[j].start \in Nat
      BY <1>4, LeafFacts
    <2>2. QED
      BY <1>1, <2>1 DEF ComesFirst
  <1>10. todo' \subseteq Leaves(file)' /\ previous' \in Scanned'
         /\ SpanEnd(claims'[previous']) = cursor'
    BY <1>1, <1>2, <1>3, <1>4, <1>5
  <1>11. QED
    BY <1>2, <1>7, <1>8, <1>9, <1>10 DEF ScanInv

\* The two kinds of gap: before the next leaf, and after the last one.
LEMMA GapIsTrue ==
    ASSUME TypeOK, ScanInv, file \in Declared, NEW hi \in U64, cursor < hi,
           \A i \in todo : hi <= claims[i].start,
           result' = GapResult(cursor, hi), UNCHANGED <<claims, children, files>>
    PROVE  RefusalIsTrue'
  <1>1. cursor \in Nat /\ hi \in Nat
    BY DEF TypeOK, U64
  <1>2. /\ result'.kind = "Gap" /\ result'.file = file
        /\ result'.start .. (result'.start + result'.len - 1) = cursor .. (hi - 1)
    BY <1>1 DEF GapResult
  <1>3. ASSUME NEW b \in cursor .. (hi - 1), NEW i \in Leaves(file)
        PROVE  ~Contains(claims[i], file, b)
    <2>1. CASE i \in todo
      BY <1>1, <2>1, LeafFacts
    <2>2. CASE i \in Scanned
      <3>1. SpanEnd(claims[i]) <= cursor
        BY <2>2 DEF ScanInv
      <3>2. QED
        BY <1>1, <3>1, LeafFacts
    <2>3. QED
      BY <2>1, <2>2 DEF Scanned
  <1>4. \A b \in cursor .. (hi - 1) : LeavesAt(file, b) = {}
    BY <1>3 DEF LeavesAt
  <1>5. cursor \in cursor .. (hi - 1)
    BY <1>1
  <1>6. \A b \in cursor .. (hi - 1) : ~Claimed(result.file, b)'
    BY <1>2, <1>4, SameClaims DEF Claimed, LeavesAt
  <1>7. QED
    BY <1>2, <1>5, <1>6 DEF RefusalIsTrue

LEMMA OverlapIsTrue ==
    ASSUME TypeOK, ScanInv, file \in Declared, NEW i \in todo,
           claims[i].start < cursor, ComesFirst(i, todo),
           result' = OverlapResult(i), UNCHANGED <<claims, children, files>>
    PROVE  RefusalIsTrue'
  <1> DEFINE lo == claims[i].start
             hi == IF SpanEnd(claims[i]) < cursor THEN SpanEnd(claims[i]) ELSE cursor
  <1>1. i \in Leaves(file) /\ cursor \in Nat
    BY DEF ScanInv, TypeOK, U64
  <1>2. /\ lo \in Nat /\ hi \in Nat
        /\ hi <= SpanEnd(claims[i]) /\ hi <= cursor
        /\ SpanEnd(claims[i]) \in Nat
    BY <1>1, LeafFacts
  <1>3. /\ previous \in Scanned
        /\ SpanEnd(claims[previous]) = cursor
        /\ claims[previous].start <= lo
    BY <1>1, <1>2 DEF ScanInv
  <1>4. previous \in Leaves(file) /\ previous # i /\ previous # None
    BY <1>3, LeafFacts DEF Scanned, Ids
  <1>5. lo < hi
    <2>1. claims[i] \in Claim /\ claims[i].len # 0
      BY <1>1, LeafFacts, ClaimFacts DEF Leaves, IsEmpty
    <2>2. lo < MaxU64
      BY <1>2, MaxU64Assumption DEF TypeOK, U64
    <2>3. lo < SpanEnd(claims[i])
      BY <2>1, <2>2, SpanEndType DEF Claim, SpanEnd, U64
    <2>4. QED
      BY <1>2, <2>3
  <1>6. /\ result'.kind = "LeafOverlap" /\ result'.file = file
        /\ result'.a = previous /\ result'.b = i
        /\ result'.start .. (result'.start + result'.len - 1) = lo .. (hi - 1)
    BY <1>2, <1>4 DEF OverlapResult
  <1>7. ASSUME NEW b \in lo .. (hi - 1)
        PROVE  {previous, i} \subseteq LeavesAt(file, b)
    <2>1. Contains(claims[i], file, b)
      BY <1>1, <1>2, LeafFacts
    <2>2. Contains(claims[previous], file, b)
      <3>1. claims[previous].start \in Nat /\ claims[previous].start <= b
        BY <1>2, <1>3, <1>4, LeafFacts
      <3>2. b < SpanEnd(claims[previous])
        BY <1>1, <1>2, <1>3
      <3>3. QED
        BY <1>4, <3>1, <3>2, LeafFacts
    <2>3. QED
      BY <1>1, <1>4, <2>1, <2>2 DEF LeavesAt
  <1>8. lo \in lo .. (hi - 1)
    BY <1>2, <1>5
  <1> HIDE DEF lo, hi
  <1>9. \A b \in lo .. (hi - 1) :
           {result'.a, result'.b} \subseteq LeavesAt(result.file, b)'
    BY <1>6, <1>7, SameClaims DEF LeavesAt
  <1>10. QED
    BY <1>4, <1>6, <1>8, <1>9 DEF RefusalIsTrue

\* Steps that leave the claims and the verdict alone.
LEMMA VerdictStays ==
    ASSUME AcceptedIsPartition, RefusalIsTrue,
           UNCHANGED <<claims, children, files, result>>
    PROVE  AcceptedIsPartition' /\ RefusalIsTrue'
  <1>1. AcceptedIsPartition'
    BY SameClaims DEF AcceptedIsPartition, ClaimedOnce
  <1>2. RefusalIsTrue'
    BY SameClaims DEF RefusalIsTrue, Claimed
  <1>3. QED
    BY <1>1, <1>2

\* While no verdict is out, there is nothing to be true.
LEMMA NoVerdict ==
    /\ result.kind = "none" => AcceptedIsPartition /\ RefusalIsTrue
    /\ result'.kind = "none" => AcceptedIsPartition' /\ RefusalIsTrue'
  BY DEF AcceptedIsPartition, RefusalIsTrue

LEMMA FinishInvInit == Init => FinishInv
  BY NoVerdict DEF Init, FinishInv, NoResult

LEMMA FinishInvNext == TypeOK /\ FinishInv /\ [AnyStep]_vars => FinishInv'
  <1> SUFFICES ASSUME TypeOK, FinishInv, [AnyStep]_vars PROVE FinishInv'
    OBVIOUS
  <1>1. ASSUME UNCHANGED result, result.kind = "none",
               stage' \notin FinishStages
        PROVE  FinishInv'
    BY <1>1, NoVerdict DEF FinishInv, FinishStages
  <1>2. ASSUME stage # "done" PROVE result.kind = "none"
    BY <1>2 DEF FinishInv
  <1>3. ASSUME NEW f \in Files, NEW len \in U64, AddFile(f, len)
        PROVE  FinishInv'
    BY <1>1, <1>2, <1>3 DEF AddFile, FinishStages
  <1>4. ASSUME NEW c, Push(c)
        PROVE  FinishInv'
    BY <1>1, <1>2, <1>4 DEF Push, FinishStages
  <1>5. CASE FillStart
    BY <1>1, <1>2, <1>5 DEF FillStart, StartScan, FinishStages
  <1>6. CASE FillNext
    BY <1>1, <1>2, <1>6
    DEF FillNext, FillFile, EnterFile, FillLeaf, FillTail, FillHole, FillNextFile,
        FillReturn, FinishStages
  <1>7. CASE FinishStart
    <2>1. result'.kind = "none" /\ stage' = "finishFile" /\ pending' = Declared'
      BY <1>2, <1>7 DEF FinishStart, StartScan, builderVars, Declared
    <2>2. QED
      BY <2>1, NoVerdict DEF FinishInv
  <1>8. CASE FinishFile
    <2> PICK f \in pending : /\ file' = f /\ pending' = pending \ {f}
                             /\ todo' = Leaves(f)
      BY <1>8 DEF FinishFile, EnterFile
    <2>1. /\ stage = "finishFile" /\ stage' = "finishScan"
          /\ cursor' = 0 /\ previous' = None
          /\ UNCHANGED <<claims, children, files, result>>
      BY <1>8 DEF FinishFile, EnterFile, builderVars
    <2>2. todo' = Leaves(file)' /\ Scanned' = {}
      BY <2>1, SameClaims DEF Scanned, Leaves, IsLeaf, Ids
    <2>3. ScanInv'
      BY <2>1, <2>2 DEF ScanInv
    <2>4. Declared' \ (pending' \cup {file'}) \subseteq Declared \ pending
      BY <2>1 DEF Declared
    <2>5. \A g \in Declared' \ (pending' \cup {file'}) : PartitionOf(g)'
      BY <2>1, <2>4, SameClaims DEF FinishInv
    <2>6. QED
      BY <1>2, <2>1, <2>3, <2>5, NoVerdict DEF FinishInv
  <1>9. ASSUME stage = "finishScan"
        PROVE  ScanInv /\ file \in Declared /\ result.kind = "none"
    BY <1>2, <1>9 DEF FinishInv, TypeOK
  <1>10. ASSUME NEW r, Return(r), RefusalIsTrue', r.kind \in {"Gap", "LeafOverlap"}
         PROVE  FinishInv'
    BY <1>10 DEF Return, FinishInv, AcceptedIsPartition
  <1>11. CASE FinishOverlap
    <2> PICK i \in todo : FinishOverlap!2!(i)
      BY <1>11 DEF FinishOverlap
    <2>1. stage = "finishScan" /\ Return(OverlapResult(i))
          /\ ComesFirst(i, todo) /\ claims[i].start < cursor
      BY <1>11 DEF FinishOverlap
    <2>2. RefusalIsTrue'
      BY <1>9, <2>1, OverlapIsTrue DEF Return, builderVars
    <2>3. OverlapResult(i).kind = "LeafOverlap"
      BY DEF OverlapResult
    <2>4. QED
      BY <1>10, <2>1, <2>2, <2>3
  <1>12. CASE FinishGap
    <2> PICK i \in todo : FinishGap!2!(i)
      BY <1>12 DEF FinishGap
    <2>1. stage = "finishScan" /\ Return(GapResult(cursor, claims[i].start))
          /\ ComesFirst(i, todo) /\ cursor < claims[i].start
      BY <1>12, ClaimFacts DEF FinishGap, TypeOK, U64
    <2>2. /\ claims[i].start \in U64
          /\ \A j \in todo : claims[i].start <= claims[j].start
      <3>1. \A j \in todo : claims[j].start \in U64
        BY ClaimFacts DEF TypeOK
      <3>2. QED
        BY <2>1, <3>1 DEF ComesFirst, U64
    <2>3. RefusalIsTrue'
      BY <1>9, <2>1, <2>2, GapIsTrue DEF Return, builderVars
    <2>4. GapResult(cursor, claims[i].start).kind = "Gap"
      BY DEF GapResult
    <2>5. QED
      BY <1>10, <2>1, <2>3, <2>4
  <1>13. CASE FinishTailGap
    <2>1. stage = "finishScan" /\ Return(GapResult(cursor, files[file])) /\ todo = {}
          /\ cursor < files[file]
      BY <1>13 DEF FinishTailGap
    <2>2. files[file] \in U64
      BY <1>9, <2>1 DEF TypeOK, Declared
    <2>3. RefusalIsTrue'
      BY <1>9, <2>1, <2>2, GapIsTrue DEF Return, builderVars
    <2>4. GapResult(cursor, files[file]).kind = "Gap"
      BY DEF GapResult
    <2>5. QED
      BY <1>10, <2>1, <2>3, <2>4
  <1>14. CASE FinishLeaf
    <2>1. /\ stage = "finishScan" /\ stage' = stage
          /\ UNCHANGED <<claims, children, files, result, pending, file>>
      BY <1>14 DEF FinishLeaf, builderVars
    <2>2. ScanInv'
      BY <1>9, <1>14, <2>1, ScanAdvances
    <2>3. \A f \in Declared' \ (pending' \cup {file'}) : PartitionOf(f)'
      BY <2>1, SameClaims DEF FinishInv
    <2>4. QED
      BY <1>9, <2>1, <2>2, <2>3, NoVerdict DEF FinishInv
  <1>15. CASE FinishNextFile
    <2>1. /\ stage = "finishScan" /\ stage' = "finishFile" /\ todo = {}
          /\ cursor >= files[file]
          /\ UNCHANGED <<claims, children, files, result, pending, file>>
      BY <1>15 DEF FinishNextFile, builderVars, scanVars
    <2>2. PartitionOf(file)
      BY <1>9, <2>1, ScanEnds
    <2>3. \A f \in Declared' \ pending' : PartitionOf(f)'
      BY <2>1, <2>2, SameClaims DEF FinishInv
    <2>4. QED
      BY <1>9, <2>1, <2>3, NoVerdict DEF FinishInv
  <1>16. CASE FinishAccept
    <2>1. /\ stage = "finishFile" /\ pending = {} /\ stage' = "done"
          /\ UNCHANGED <<claims, children, files>>
          /\ result'.kind = "Ok"
      BY <1>16 DEF FinishAccept, Return, builderVars, NoResult
    <2>2. \A f \in Declared' : PartitionOf(f)'
      BY <2>1, SameClaims DEF FinishInv
    <2>3. AcceptedIsPartition'
      BY <2>2 DEF AcceptedIsPartition, PartitionOf
    <2>4. QED
      BY <2>1, <2>3 DEF FinishInv, RefusalIsTrue
  <1>17. CASE UNCHANGED vars
    <2>1. UNCHANGED <<claims, children, files, result, stage, pending, file, todo, cursor,
                      previous>>
      BY <1>17 DEF vars, scanVars
    <2>2. AcceptedIsPartition' /\ RefusalIsTrue'
      BY <2>1, VerdictStays DEF FinishInv
    <2>3. ScanInv => ScanInv'
      <3>1. Leaves(file)' = Leaves(file)
        BY <2>1 DEF Leaves, IsLeaf, Ids
      <3>2. Scanned' = Scanned
        BY <2>1, <3>1 DEF Scanned
      <3>3. QED
        BY <2>1, <3>1, <3>2 DEF ScanInv
    <2>4. QED
      BY <2>1, <2>2, <2>3, SameClaims DEF FinishInv
  <1>18. QED
    BY <1>3, <1>4, <1>5, <1>6, <1>7, <1>8, <1>11, <1>12, <1>13, <1>14, <1>15, <1>16, <1>17
    DEF AnyStep, FinishNext

\* The invariant of lib.rs: finish returns a Coverage only for claims whose
\* leaves partition every declared file, whatever was pushed, in any order,
\* with or without fill_unclaimed, over any number of files.
THEOREM AcceptedMeansPartition == Spec => []AcceptedIsPartition
  <1>1. Spec => []FinishInv
    BY FinishInvInit, FinishInvNext, NextIsAnyStep, TypeCorrect, PTL DEF Spec
  <1>2. FinishInv => AcceptedIsPartition
    BY DEF FinishInv
  <1>3. QED
    BY <1>1, <1>2, PTL

\* A refusal names bytes that are really unclaimed, or two leaves that really
\* share every byte of `at`.
THEOREM RefusalsAreTrue == Spec => []RefusalIsTrue
  <1>1. Spec => []FinishInv
    BY FinishInvInit, FinishInvNext, NextIsAnyStep, TypeCorrect, PTL DEF Spec
  <1>2. FinishInv => RefusalIsTrue
    BY DEF FinishInv
  <1>3. QED
    BY <1>1, <1>2, PTL

-----------------------------------------------------------------------------
(* The contract.  The scans are stutters, an accepted push (the caller's or *)
(* fill_unclaimed's) is the contract's one way of adding a claim, and       *)
(* finish decides only what holds of the claims.  The contract knows leaves *)
(* by the parent links alone: the forest is what joins the two.             *)

\* A leaf by the child lists is a leaf by the parent links.
LEMMA LeafByParentLinks ==
    ASSUME TypeOK, Forest, NEW f, NEW b \in Int, NEW i \in Ids
    PROVE  Contract!LeafAt(i, f, b) <=> i \in LeavesAt(f, b)
  <1>1. Contract!Contains(claims[i], f, b) <=> Contains(claims[i], f, b)
    BY DEF Contract!Contains, Contract!SpanEnd, Contract!SatAdd, Contains, SpanEnd, SatAdd
  <1>2. IsLeaf(i) <=> \A j \in Ids : claims[j].parent # i
    BY DEF Forest, IsLeaf
  <1>3. Contains(claims[i], f, b) => claims[i].file = f /\ ~IsEmpty(claims[i])
    <2>1. claims[i].start \in Nat /\ claims[i].len \in Nat /\ claims[i].start <= MaxU64
      BY ClaimFacts, MaxU64Assumption DEF U64
    <2>2. QED
      BY <2>1, MaxU64Assumption DEF Contains, IsEmpty, SpanEnd, SatAdd
  <1>4. Contract!Ids = Ids
    BY DEF Contract!Ids, Ids
  <1>5. QED
    BY <1>1, <1>2, <1>3, <1>4 DEF Contract!LeafAt, LeavesAt, Leaves

\* An accepted claim is inside its file and inside its parent: the contract's step.
LEMMA AttachIsAddClaim ==
    ASSUME TypeOK, NEW c \in Claim, Check(c) = "ok", Attach(c),
           UNCHANGED <<files, result>>, result.kind = "none"
    PROVE  Contract!AddClaim
  <1>1. claims' = Append(claims, c)
    BY DEF Attach
  <1>2. claims \in Seq(Claim) /\ Len(claims') = Len(claims) + 1 /\ claims'[Len(claims')] = c
    BY <1>1 DEF TypeOK
  <1>3. /\ SpanEnd(c) <= files[c.file]
        /\ c.parent = 0 \/ (c.parent \in Ids /\ ContainsSpan(claims[c.parent], c))
    <2>1. files[c.file] \in Int /\ SpanEnd(c) \in Int
      <3>1. c.file \in Files /\ c.start \in U64 /\ c.len \in U64
        BY DEF Claim
      <3>2. files[c.file] \in U64 \cup {Undeclared}
        BY <3>1 DEF TypeOK
      <3>3. SpanEnd(c) \in U64
        BY <3>1, SpanEndType DEF SpanEnd
      <3>4. QED
        BY <3>2, <3>3, MaxU64Assumption DEF U64, Undeclared
    <2>2. QED
      BY <2>1 DEF Check, None
  <1>4. QED
    BY <1>1, <1>2, <1>3
    DEF Contract!AddClaim, Contract!SpanEnd, Contract!SatAdd, Contract!Ids,
        Contract!ContainsSpan, SpanEnd, SatAdd, Ids, ContainsSpan

\* finish decides, and what it decides holds.
LEMMA FinishDecides ==
    ASSUME TypeOK, Forest, FinishInv, FinishInv',
           FinishOverlap \/ FinishGap \/ FinishTailGap \/ FinishAccept
    PROVE  Contract!Decide
  <1>1. /\ result.kind = "none" /\ UNCHANGED <<files, claims, children>>
        /\ stage \in FinishStages
    BY DEF FinishOverlap, FinishGap, FinishTailGap, FinishAccept, Return, builderVars,
           FinishInv, FinishStages
  <1>2. \A f, b : LeavesAt(f, b)' = LeavesAt(f, b)
    BY <1>1, SameClaims
  <1>3. \A f : \A b \in Int : \A i \in Ids :
           Contract!LeafAt(i, f, b) <=> i \in LeavesAt(f, b)
    BY LeafByParentLinks
  <1>4. Contract!Ids = Ids /\ Contract!U64 = U64
    BY DEF Contract!Ids, Contract!U64, Ids, U64
  <1>5. \A f, b : LeavesAt(f, b) \subseteq Ids
    BY DEF LeavesAt, Leaves
  <1>6. U64 \subseteq Int
    BY MaxU64Assumption DEF U64
  <1>7. CASE FinishAccept
    <2>1. result'.kind = "Ok"
      BY <1>7 DEF FinishAccept, Return, NoResult
    <2>2. \A f \in Declared : \A b \in 0 .. (files[f] - 1) : ClaimedOnce(f, b)
      <3>1. AcceptedIsPartition'
        BY DEF FinishInv
      <3>2. \A f \in Declared : \A b \in 0 .. (files[f] - 1) : ClaimedOnce(f, b)'
        BY <1>1, <2>1, <3>1, SameClaims DEF AcceptedIsPartition
      <3>3. \A f, b : ClaimedOnce(f, b)' <=> ClaimedOnce(f, b)
        BY <1>1, SameClaims DEF ClaimedOnce
      <3>4. QED
        BY <3>2, <3>3
    <2>3. ASSUME NEW f \in Files, NEW b \in U64, Contract!Byte(f, b)
          PROVE  \E i \in Ids : /\ Contract!LeafAt(i, f, b)
                                /\ \A j \in Ids : Contract!LeafAt(j, f, b) => j = i
      <3>1. f \in Declared /\ b \in 0 .. (files[f] - 1)
        BY <2>3 DEF Contract!Byte, Contract!Undeclared, Declared, Undeclared
      <3>2. PICK i \in Leaves(f) : LeavesAt(f, b) = {i}
        BY <2>2, <3>1 DEF ClaimedOnce
      <3>3. i \in Ids /\ b \in Int
        BY <1>6, <3>2 DEF Leaves
      <3>4. QED
        BY <1>3, <3>2, <3>3
    <2>4. Contract!Holds("Ok")
      BY <1>4, <2>3 DEF Contract!Holds
    <2>5. QED
      BY <1>1, <2>1, <2>4 DEF Contract!Decide
  <1>8. ASSUME NEW lo \in U64, file \in Files,
               (file \in Declared /\ lo < files[file]) \/ \E i \in todo : lo < claims[i].start,
               stage = "finishScan", result'.kind = "Gap",
               ~Claimed(file, lo)
        PROVE  Contract!Decide
    <2>1. Contract!Expected(file, lo)
      <3>1. CASE file \in Declared /\ lo < files[file]
        <4>1. files[file] \in Nat /\ lo \in Nat
          BY <3>1, MaxU64Assumption DEF TypeOK, Declared, U64
        <4>2. Contract!Byte(file, lo)
          BY <3>1, <4>1 DEF Contract!Byte, Contract!Undeclared
        <4>3. QED
          BY <4>2 DEF Contract!Expected
      <3>2. CASE \E i \in todo : lo < claims[i].start
        <4>1. PICK i \in todo : lo < claims[i].start
          BY <3>2
        <4>2. i \in Leaves(file)
          BY <1>8 DEF FinishInv, ScanInv
        <4>3. QED
          BY <1>4, <4>1, <4>2 DEF Contract!Expected, Leaves
      <3>3. QED
        BY <1>8, <3>1, <3>2
    <2>2. \A i \in Ids : ~Contract!LeafAt(i, file, lo)
      BY <1>3, <1>6, <1>8 DEF Claimed
    <2>3. Contract!Holds("Gap")
      BY <1>4, <1>8, <2>1, <2>2 DEF Contract!Holds
    <2>4. QED
      BY <1>1, <1>8, <2>3 DEF Contract!Decide
  <1>9. ASSUME NEW lo \in U64, NEW hi \in U64, lo < hi, file \in Files,
               Return(GapResult(lo, hi))
        PROVE  result'.kind = "Gap" /\ ~Claimed(file, lo)
    <2>1. /\ result'.kind = "Gap" /\ result'.file = file
          /\ result'.start = lo /\ result'.len = hi - lo
      BY <1>9 DEF Return, GapResult
    <2>2. lo \in lo .. (lo + (hi - lo) - 1)
      BY <1>6, <1>9
    <2>3. RefusalIsTrue'
      BY DEF FinishInv
    <2>4. \A b \in lo .. (lo + (hi - lo) - 1) : LeavesAt(file, b) = {}
      BY <1>2, <2>1, <2>3 DEF RefusalIsTrue, Claimed
    <2>5. QED
      BY <2>1, <2>2, <2>4 DEF Claimed
  <1>10. CASE FinishGap
    <2>1. PICK i \in todo : claims[i].start > cursor /\ Return(GapResult(cursor, claims[i].start))
      BY <1>10 DEF FinishGap
    <2>2. stage = "finishScan" /\ file \in Files /\ cursor \in U64 /\ claims[i].start \in U64
      BY <1>10, ClaimFacts DEF FinishGap, TypeOK, Declared
    <2>3. cursor < claims[i].start
      BY <1>6, <2>1, <2>2
    <2>4. QED
      BY <1>8, <1>9, <2>1, <2>2, <2>3
  <1>11. CASE FinishTailGap
    <2>1. stage = "finishScan" /\ cursor < files[file] /\ Return(GapResult(cursor, files[file]))
      BY <1>11 DEF FinishTailGap
    <2>2. file \in Declared /\ file \in Files /\ cursor \in U64 /\ files[file] \in U64
      BY <2>1 DEF TypeOK, Declared
    <2>3. QED
      BY <1>8, <1>9, <2>1, <2>2
  <1>12. CASE FinishOverlap
    <2>1. PICK i \in todo : Return(OverlapResult(i))
      BY <1>12 DEF FinishOverlap
    <2>2. result'.kind = "LeafOverlap" /\ result'.file = file /\ result'.start = claims[i].start
      BY <2>1 DEF Return, OverlapResult
    <2>3. stage = "finishScan" /\ file \in Files /\ i \in Ids /\ claims[i].start \in U64
      BY <1>12, ClaimFacts DEF FinishOverlap, TypeOK, Declared
    <2>4. RefusalIsTrue'
      BY DEF FinishInv
    <2>5. PICK b \in result'.start .. (result'.start + result'.len - 1) :
             {result'.a, result'.b} \subseteq LeavesAt(file, b)
      BY <1>2, <2>2, <2>4 DEF RefusalIsTrue
    <2>6. result'.a # result'.b
      BY <2>2, <2>4 DEF RefusalIsTrue
    <2>7. result'.a \in Ids /\ result'.b \in Ids
      BY <1>5, <2>5
    <2>8. b \in U64
      <3>1. /\ b \in Int /\ claims[i].start <= b
        BY <1>6, <2>2, <2>3, <2>5
      <3>2. result'.a \in Leaves(file) /\ Contains(claims[result'.a], file, b)
        BY <2>5 DEF LeavesAt
      <3>3. b < SpanEnd(claims[result'.a]) /\ SpanEnd(claims[result'.a]) \in U64
        BY <2>7, <3>2, ClaimFacts DEF Contains
      <3>4. QED
        BY <2>3, <3>1, <3>3, MaxU64Assumption DEF U64
    <2>9. Contract!LeafAt(result'.a, file, b) /\ Contract!LeafAt(result'.b, file, b)
      BY <1>3, <1>6, <2>5, <2>7, <2>8
    <2>10. Contract!Holds("LeafOverlap")
      BY <1>4, <2>3, <2>6, <2>7, <2>8, <2>9 DEF Contract!Holds
    <2>11. QED
      BY <1>1, <2>2, <2>10 DEF Contract!Decide
  <1>13. QED
    BY <1>7, <1>10, <1>11, <1>12

\* Every step of the builder is a step of the contract or invisible in it.
LEMMA ContractNext ==
    ASSUME TypeOK, Forest, FinishInv, FinishInv', [AnyStep]_vars
    PROVE  [Contract!Next]_(Contract!vars)
  <1>1. ASSUME stage # "done" PROVE result.kind = "none"
    BY <1>1 DEF FinishInv
  <1>2. ASSUME UNCHANGED <<files, claims, result>> PROVE UNCHANGED Contract!vars
    BY <1>2 DEF Contract!vars
  <1>3. ASSUME NEW f \in Files, NEW len \in U64, AddFile(f, len)
        PROVE  Contract!Next
    <2>1. len \in U64 /\ Contract!U64 = U64
      BY DEF Contract!U64, U64
    <2>2. QED
      BY <1>1, <1>3, <2>1 DEF AddFile, Contract!Next, Contract!Declare
  <1>4. ASSUME NEW c \in Claim, Push(c)
        PROVE  [Contract!Next]_(Contract!vars)
    <2>1. result.kind = "none" /\ UNCHANGED <<files, result>>
          /\ IF Check(c) = "ok" THEN Attach(c) ELSE UNCHANGED <<claims, children>>
      BY <1>1, <1>4 DEF Push
    <2>2. QED
      BY <1>2, <2>1, AttachIsAddClaim DEF Contract!Next
  <1>5. CASE FillHole
    <2>1. result.kind = "none" /\ UNCHANGED <<files, result>>
      BY <1>1, <1>5 DEF FillHole
    <2>2. \/ UNCHANGED <<claims, children>>
          \/ \E c \in Claim : Check(c) = "ok" /\ Attach(c)
      BY TreeSteps
    <2>3. QED
      BY <1>2, <2>1, <2>2, AttachIsAddClaim DEF Contract!Next
  <1>6. CASE FinishOverlap \/ FinishGap \/ FinishTailGap \/ FinishAccept
    BY <1>6, FinishDecides DEF Contract!Next
  <1>7. CASE UNCHANGED <<files, claims, result>>
    BY <1>2, <1>7
  <1>8. \/ \E f \in Files, len \in U64 : AddFile(f, len)
        \/ \E c \in Claim : Push(c)
        \/ FillHole
        \/ FinishOverlap \/ FinishGap \/ FinishTailGap \/ FinishAccept
        \/ UNCHANGED <<files, claims, result>>
    BY DEF AnyStep, FillNext, FinishNext, FillStart, FinishStart, StartScan,
           FillFile, FinishFile, EnterFile, FillLeaf, FillTail, FillNextFile, FillReturn,
           FinishLeaf, FinishNextFile, vars, builderVars
  <1>9. QED
    BY <1>3, <1>4, <1>5, <1>6, <1>7, <1>8

\* The builder implements the contract.
THEOREM BuilderImplementsContract == Spec => ImplementsContract
  <1>1. Init => Contract!Init
    BY DEF Init, Contract!Init, NoResult, Contract!Undeclared, Undeclared
  <1>2. TypeOK /\ Forest /\ FinishInv /\ FinishInv' /\ [AnyStep]_vars
        => [Contract!Next]_(Contract!vars)
    BY ContractNext
  <1>3. Spec => []FinishInv
    BY FinishInvInit, FinishInvNext, NextIsAnyStep, TypeCorrect, PTL DEF Spec
  <1>4. QED
    BY <1>1, <1>2, <1>3, NextIsAnyStep, TypeCorrect, ForestAlways, PTL
    DEF Spec, ImplementsContract, Contract!Spec

-----------------------------------------------------------------------------
(* Filling.                                                                *)

Bytes(h) == h.start .. (SpanEnd(h) - 1)
InHole(b) == \E k \in 1 .. Len(holes) : b \in Bytes(holes[k])

\* The holes found and not pushed yet hold bytes, no leaf holds any of them, and
\* they lie one behind the other.
HolesInv ==
    /\ \A k \in 1 .. Len(holes) :
          /\ holes[k].file = file
          /\ holes[k].start < SpanEnd(holes[k])
          /\ \A b \in Bytes(holes[k]) : ~Claimed(file, b)
    /\ \A k, m \in 1 .. Len(holes) : k < m => SpanEnd(holes[k]) <= holes[m].start

\* While leaves are scanned, all that is behind the cursor ends there.
CursorInv ==
    /\ todo \subseteq Leaves(file)
    /\ \A i \in Scanned : SpanEnd(claims[i]) <= cursor
    /\ \A k \in 1 .. Len(holes) : SpanEnd(holes[k]) <= cursor

\* Nothing is overlooked: every byte of a file behind the scan is claimed, and
\* of the file at hand every byte the scan has passed is claimed or in a hole.
Full(f) == \A b \in 0 .. (files[f] - 1) : Claimed(f, b)
Behind == IF stage = "fillFile" THEN Declared \ pending ELSE Declared \ (pending \cup {file})
Passed == IF stage = "fillScan" THEN cursor ELSE files[file]

NothingOverlooked ==
    /\ \A f \in Behind : Full(f)
    /\ stage # "fillFile" =>
          /\ \A k \in 1 .. Len(holes) : SpanEnd(holes[k]) <= files[file]
          /\ \A b \in 0 .. (Passed - 1) : Claimed(file, b) \/ InHole(b)

FillInv ==
    /\ stage \in {"fillScan", "fillPush"} => HolesInv
    /\ stage = "fillScan" => CursorInv
    /\ stage \in FillStages /\ AllFit => NothingOverlooked

-----------------------------------------------------------------------------
(* Holes.                                                                  *)

LEMMA HoleSpanFacts ==
    ASSUME NEW h \in HoleSpan
    PROVE  /\ h.file \in Files /\ h.start \in Nat /\ h.len \in Nat
           /\ SpanEnd(h) \in Nat
           /\ h.start < SpanEnd(h) => ~IsEmpty(h)
  <1>1. h.start \in U64 /\ h.len \in U64 /\ h.file \in Files
    BY DEF HoleSpan
  <1>2. SpanEnd(h) \in U64
    BY <1>1, SpanEndType DEF SpanEnd
  <1>3. h.len = 0 => SpanEnd(h) = h.start
    BY <1>1, MaxU64Assumption DEF SpanEnd, SatAdd, U64
  <1>4. QED
    BY <1>1, <1>2, <1>3, MaxU64Assumption DEF U64, IsEmpty

\* The claim made of a hole.
LEMMA HoleClaimFacts ==
    ASSUME TypeOK, NEW h \in HoleSpan
    PROVE  /\ HoleClaim(h).file = h.file /\ HoleClaim(h).start = h.start
           /\ HoleClaim(h).len = h.len /\ HoleClaim(h).kind = "Unclaimed"
           /\ SpanEnd(HoleClaim(h)) = SpanEnd(h)
           /\ Check(HoleClaim(h)) = "ok" => HoleClaim(h) \in Claim
  <1> DEFINE c == HoleClaim(h)
  <1>1. /\ c.file = h.file /\ c.start = h.start /\ c.len = h.len /\ c.kind = "Unclaimed"
        /\ c = [file |-> h.file, start |-> h.start, len |-> h.len, parent |-> c.parent,
                kind |-> "Unclaimed"]
    BY DEF HoleClaim
  <1>2. SpanEnd(c) = SpanEnd(h)
    BY <1>1 DEF SpanEnd
  <1>3. ASSUME Check(c) = "ok" PROVE c \in Claim
    <2>1. c.parent = None \/ c.parent \in Ids
      BY <1>3 DEF Check
    <2>4. c.parent \in Nat
      BY <2>1 DEF Ids, None, TypeOK
    <2>2. h.file \in Files /\ h.start \in U64 /\ h.len \in U64
      BY DEF HoleSpan
    <2> HIDE DEF c
    <2>3. QED
      BY <1>1, <2>2, <2>4 DEF Claim, Kinds
  <1>4. QED
    BY <1>1, <1>2, <1>3

\* A claim that holds bytes no leaf holds has no leaf for a parent.
LEMMA HoleParent ==
    ASSUME TypeOK, NEW h \in HoleSpan, h.start < SpanEnd(h),
           \A b \in Bytes(h) : ~Claimed(h.file, b),
           Check(HoleClaim(h)) = "ok"
    PROVE  \A f : HoleClaim(h).parent \notin Leaves(f)
  <1> DEFINE p == HoleClaim(h).parent
  <1> SUFFICES ASSUME NEW f, p \in Leaves(f) PROVE FALSE
    OBVIOUS
  <1>1. p \in Ids /\ p # None /\ claims[p].file = f
    BY DEF Leaves, Ids, None, TypeOK
  <1>2. ContainsSpan(claims[p], HoleClaim(h))
    BY <1>1 DEF Check
  <1>3. /\ claims[p].file = h.file /\ claims[p].start <= h.start
        /\ SpanEnd(h) <= SpanEnd(claims[p])
    BY <1>2, HoleClaimFacts DEF ContainsSpan
  <1>4. /\ h.start \in Nat /\ SpanEnd(h) \in Nat
        /\ SpanEnd(claims[p]) \in Nat
    BY HoleSpanFacts, LeafFacts
  <1>5. Contains(claims[p], h.file, h.start)
    BY <1>3, <1>4 DEF Contains
  <1>6. p \in LeavesAt(h.file, h.start)
    BY <1>1, <1>3, <1>5 DEF LeavesAt
  <1>7. h.start \in Bytes(h)
    BY <1>4 DEF Bytes
  <1>8. QED
    BY <1>6, <1>7 DEF Claimed

\* Pushed with no leaf for a parent, a claim is a leaf and all leaves stay.
LEMMA LeavesGrow ==
    ASSUME TypeOK, NEW c \in Claim, Attach(c), UNCHANGED files,
           \A f : c.parent \notin Leaves(f), ~IsEmpty(c)
    PROVE  /\ \A f : Leaves(f) \subseteq Leaves(f)'
           /\ \A f : Leaves(f)' \subseteq Leaves(f) \cup {Len(claims) + 1}
           /\ \A f, b : Claimed(f, b) => Claimed(f, b)'
           /\ \A f, b : Claimed(f, b)' => Claimed(f, b) \/ Contains(c, f, b)
           /\ \A f, b : Contains(c, f, b) => Claimed(f, b)'
  <1> DEFINE n == Len(claims)
  <1>1. /\ Ids' = Ids \cup {n + 1} /\ n + 1 \notin Ids
        /\ \A i \in Ids : claims'[i] = claims[i]
        /\ claims'[n + 1] = c
        /\ \A i \in Ids : children'[i] = IF i = c.parent THEN children[i] \cup {n + 1}
                                         ELSE children[i]
        /\ children'[n + 1] = {}
    BY AttachEffect
  <1> HIDE DEF n
  <1>2. ASSUME NEW f, NEW i \in Leaves(f) PROVE i \in Leaves(f)'
    <2>1. i \in Ids /\ claims[i].file = f /\ ~IsEmpty(claims[i]) /\ children[i] = {} /\ i # c.parent
      BY DEF Leaves, IsLeaf
    <2>2. i \in Ids' /\ claims'[i] = claims[i] /\ children'[i] = {}
      BY <1>1, <2>1
    <2>3. QED
      BY <2>1, <2>2 DEF Leaves, IsLeaf
  <1>3. ASSUME NEW f, NEW i \in Leaves(f)', i # n + 1 PROVE i \in Leaves(f)
    <2>1. i \in Ids' /\ claims'[i].file = f /\ ~IsEmpty(claims'[i]) /\ children'[i] = {}
      BY DEF Leaves, IsLeaf
    <2>2. i \in Ids /\ claims'[i] = claims[i] /\ children[i] = {}
      BY <1>1, <1>3, <2>1
    <2>3. QED
      BY <2>1, <2>2 DEF Leaves, IsLeaf
  <1>4. n + 1 \in Leaves(c.file)'
    BY <1>1 DEF Leaves, IsLeaf
  <1>5. ASSUME NEW f, NEW b, Claimed(f, b) PROVE Claimed(f, b)'
    <2>1. PICK i \in Leaves(f) : Contains(claims[i], f, b)
      BY <1>5 DEF Claimed, LeavesAt
    <2>2. i \in Leaves(f)' /\ claims'[i] = claims[i]
      BY <1>1, <1>2 DEF Leaves
    <2>3. QED
      BY <2>1, <2>2 DEF Claimed, LeavesAt
  <1>6. ASSUME NEW f, NEW b, Claimed(f, b)' PROVE Claimed(f, b) \/ Contains(c, f, b)
    <2>1. PICK i \in Leaves(f)' : Contains(claims'[i], f, b)
      BY <1>6 DEF Claimed, LeavesAt
    <2>2. CASE i = n + 1
      BY <1>1, <2>1, <2>2
    <2>3. CASE i # n + 1
      <3>1. i \in Leaves(f) /\ claims'[i] = claims[i]
        BY <1>1, <1>3, <2>3 DEF Leaves
      <3>2. QED
        BY <2>1, <3>1 DEF Claimed, LeavesAt
    <2>4. QED
      BY <2>2, <2>3
  <1>7. ASSUME NEW f, NEW b, Contains(c, f, b) PROVE Claimed(f, b)'
    BY <1>1, <1>4, <1>7 DEF Claimed, LeavesAt, Contains
  <1>8. QED
    BY <1>2, <1>3, <1>4, <1>5, <1>6, <1>7 DEF n


-----------------------------------------------------------------------------
(* The innermost claim around a hole.                                      *)

\* There always is one to choose when any claim contains the span.
LEMMA InnermostExists ==
    ASSUME TypeOK, NEW s
    PROVE  /\ Containers(s) = {} => InnermostContaining(s) = None
           /\ Containers(s) # {} => InnermostContaining(s) \in Containers(s)
  <1> DEFINE S == Containers(s)
             lens == {claims[i].len : i \in S}
  <1> SUFFICES ASSUME S # {} PROVE InnermostContaining(s) \in S
    BY DEF InnermostContaining
  <1>1. S \subseteq Ids /\ S \subseteq Nat
    BY DEF Containers, Ids, TypeOK
  <1>2. \A i \in S : claims[i].len \in Nat
    BY <1>1, ClaimFacts, MaxU64Assumption DEF U64
  <1>3. lens \in SUBSET Nat /\ lens # {}
    BY <1>2
  <1>4. PICK l \in lens : \A m \in lens : l <= m
    BY <1>3, LeastOf
  <1> DEFINE short == {i \in S : claims[i].len = l}
  <1>5. short \in SUBSET Nat /\ short # {}
    BY <1>1, <1>4
  <1>6. PICK n \in short : \A m \in short : n <= m
    BY <1>5, LeastOf
  <1>7. \A j \in S : claims[n].len < claims[j].len \/ (claims[n].len = claims[j].len /\ n <= j)
    <2> SUFFICES ASSUME NEW j \in S
                 PROVE  claims[n].len < claims[j].len \/ (claims[n].len = claims[j].len /\ n <= j)
      OBVIOUS
    <2>1. claims[n].len = l /\ l \in Nat /\ claims[j].len \in Nat /\ l <= claims[j].len
      BY <1>2, <1>4, <1>6
    <2>2. claims[j].len = l => n <= j
      BY <1>6
    <2>3. QED
      BY <2>1, <2>2
  <1> HIDE DEF S
  <1>8. (CHOOSE i \in S : \A j \in S :
            claims[i].len < claims[j].len \/ (claims[i].len = claims[j].len /\ i <= j)) \in S
    BY <1>6, <1>7
  <1>9. QED
    BY <1>8 DEF InnermostContaining, S

\* So a hole inside its file is never refused.
LEMMA HoleIsAccepted ==
    ASSUME TypeOK, NEW h \in HoleSpan, h.file \in Declared, SpanEnd(h) <= files[h.file]
    PROVE  Check(HoleClaim(h)) = "ok"
  <1> DEFINE c == HoleClaim(h)
  <1>1. /\ c.file = h.file /\ c.start = h.start /\ SpanEnd(c) = SpanEnd(h)
        /\ c.parent = InnermostContaining(h)
    BY HoleClaimFacts DEF HoleClaim
  <1> HIDE DEF c
  <1>2. files[c.file] # Undeclared
    BY <1>1 DEF Declared
  <1>3. ~(SpanEnd(c) > files[c.file])
    BY <1>1, HoleSpanFacts DEF Declared, TypeOK, U64
  <1>4. CASE c.parent = None
    BY <1>2, <1>3, <1>4 DEF Check, c
  <1>5. CASE c.parent # None
    <2>1. c.parent \in Ids /\ ContainsSpan(claims[c.parent], h)
      BY <1>1, <1>5, InnermostExists DEF Containers
    <2>2. ContainsSpan(claims[c.parent], c)
      BY <1>1, <2>1 DEF ContainsSpan
    <2>3. QED
      BY <1>2, <1>3, <2>1, <2>2 DEF Check, c
  <1>6. QED
    BY <1>4, <1>5

-----------------------------------------------------------------------------
(* One hole pushed.                                                        *)

LEMMA FillHoleFacts ==
    ASSUME TypeOK, FillInv, FillHole
    PROVE  LET h == Head(holes)
           IN  /\ h = holes[1] /\ h \in HoleSpan
               /\ h.file = file /\ h.start < SpanEnd(h)
               /\ \A b \in Bytes(h) : ~Claimed(file, b)
               /\ \A f : Leaves(f) \subseteq Leaves(f)'
               /\ \A i \in Ids : claims'[i] = claims[i]
               /\ Ids \subseteq Ids'
               /\ \A i \in Ids' \ Ids : claims'[i] = HoleClaim(h)
               /\ \A f, b : Claimed(f, b) => Claimed(f, b)'
               /\ \A f : \A b \in Int :
                     Claimed(f, b)' => Claimed(f, b) \/ (f = file /\ b \in Bytes(h))
               /\ Check(HoleClaim(h)) = "ok" => \A b \in Bytes(h) : Claimed(file, b)'
  <1> DEFINE h == Head(holes)
             c == HoleClaim(h)
  <1>1. /\ stage = "fillPush" /\ holes # <<>> /\ UNCHANGED <<files, file>>
        /\ IF Check(c) = "ok" THEN Attach(c) ELSE UNCHANGED <<claims, children>>
    BY DEF FillHole
  <1>2. h = holes[1] /\ h \in HoleSpan /\ 1 \in 1 .. Len(holes)
    BY <1>1 DEF TypeOK
  <1>3. /\ h.file = file /\ h.start < SpanEnd(h)
        /\ \A b \in Bytes(h) : ~Claimed(file, b)
    BY <1>1, <1>2 DEF FillInv, HolesInv
  <1>4. /\ h.start \in Nat /\ SpanEnd(h) \in Nat /\ ~IsEmpty(h)
    BY <1>2, <1>3, HoleSpanFacts
  <1>5. /\ c.file = file /\ c.start = h.start /\ c.len = h.len /\ SpanEnd(c) = SpanEnd(h)
        /\ Check(c) = "ok" => c \in Claim
    BY <1>2, <1>3, HoleClaimFacts
  <1>6. Check(c) = "ok" => \A f : c.parent \notin Leaves(f)
    BY <1>2, <1>3, HoleParent
  <1> HIDE DEF h, c
  <1>7. ~IsEmpty(c)
    BY <1>4, <1>5 DEF IsEmpty
  <1>8. \A f : \A b \in Int : Contains(c, f, b) <=> f = file /\ b \in Bytes(h)
    BY <1>4, <1>5 DEF Contains, Bytes
  <1>9. CASE Check(c) = "ok"
    <2>1. /\ Attach(c) /\ c \in Claim /\ UNCHANGED files
          /\ \A f : c.parent \notin Leaves(f)
      BY <1>1, <1>5, <1>6, <1>9
    <2>2. /\ \A f : Leaves(f) \subseteq Leaves(f)'
          /\ \A f, b : Claimed(f, b) => Claimed(f, b)'
          /\ \A f, b : Claimed(f, b)' => Claimed(f, b) \/ Contains(c, f, b)
          /\ \A f, b : Contains(c, f, b) => Claimed(f, b)'
      BY <1>7, <2>1, LeavesGrow
    <2>3. /\ Ids' = Ids \cup {Len(claims) + 1}
          /\ \A i \in Ids : claims'[i] = claims[i]
          /\ claims'[Len(claims) + 1] = c
      BY <2>1, AttachEffect
    <2>4. \A f : \A b \in Int :
             Claimed(f, b)' => Claimed(f, b) \/ (f = file /\ b \in Bytes(h))
      BY <1>8, <2>2
    <2>5. \A b \in Bytes(h) : b \in Int
      BY <1>4 DEF Bytes
    <2>6. \A b \in Bytes(h) : Claimed(file, b)'
      BY <1>1, <1>8, <2>2, <2>5
    <2>7. QED
      BY <1>2, <1>3, <2>2, <2>3, <2>4, <2>6 DEF h, c
  <1>10. CASE Check(c) # "ok"
    <2>1. /\ Ids' = Ids /\ claims' = claims /\ \A f : Leaves(f)' = Leaves(f)
          /\ \A f, b : Claimed(f, b)' <=> Claimed(f, b)
      BY <1>1, <1>10, SameClaims DEF Claimed
    <2>2. QED
      BY <1>2, <1>3, <1>10, <2>1 DEF h, c
  <1>11. QED
    BY <1>9, <1>10

-----------------------------------------------------------------------------
(* The scan for holes.                                                     *)

\* A hole put behind the others, from the cursor to hi.
LEMMA HoleJoins ==
    ASSUME TypeOK, HolesInv, CursorInv, file \in Files, NEW hi \in U64, cursor < hi,
           \A i \in todo : hi <= claims[i].start,
           holes' = Append(holes, Hole(cursor, hi)),
           UNCHANGED <<claims, children, files, file>>
    PROVE  /\ HolesInv'
           /\ \A b : InHole(b) => InHole(b)'
           /\ \A b \in cursor .. (hi - 1) : InHole(b)'
           /\ \A k \in 1 .. Len(holes') :
                 \/ k \in 1 .. Len(holes) /\ holes'[k] = holes[k]
                 \/ SpanEnd(holes'[k]) = hi
  <1> DEFINE h == Hole(cursor, hi)
             n == Len(holes)
  <1>1. cursor \in Nat /\ hi \in Nat /\ cursor \in U64
    BY DEF TypeOK, U64
  <1>2. h \in HoleSpan /\ h.file = file /\ h.start = cursor /\ SpanEnd(h) = hi
    BY <1>1, HoleFacts
  <1>20. Bytes(h) = cursor .. (hi - 1)
    BY <1>2 DEF Bytes
  <1> HIDE DEF h
  <1>3. /\ n \in Nat /\ Len(holes') = n + 1 /\ holes'[n + 1] = h
        /\ \A k \in 1 .. n : holes'[k] = holes[k] /\ holes[k] \in HoleSpan
    BY <1>2 DEF TypeOK, h
  <1> HIDE DEF n
  <1>4. ASSUME NEW b \in Bytes(h), Claimed(file, b) PROVE FALSE
    <2>1. PICK i \in Leaves(file) : Contains(claims[i], file, b)
      BY <1>4 DEF Claimed, LeavesAt
    <2>2. /\ claims[i].start <= b /\ b < SpanEnd(claims[i])
          /\ cursor <= b /\ b < hi /\ b \in Int
      BY <1>1, <1>20, <2>1 DEF Contains
    <2>3. claims[i].start \in Nat /\ SpanEnd(claims[i]) \in Nat
      BY <2>1, LeafFacts
    <2>4. i \in todo => hi <= claims[i].start
      OBVIOUS
    <2>5. i \notin todo => SpanEnd(claims[i]) <= cursor
      BY <2>1 DEF CursorInv, Scanned
    <2>6. QED
      BY <1>1, <2>2, <2>3, <2>4, <2>5
  <1>5. \A b : Claimed(file, b)' <=> Claimed(file, b)
    BY SameClaims DEF Claimed
  <1>6. ASSUME NEW k \in 1 .. Len(holes')
        PROVE  /\ holes'[k].file = file' /\ holes'[k].start < SpanEnd(holes'[k])
               /\ \A b \in Bytes(holes'[k]) : ~Claimed(file, b)'
    <2>1. CASE k = n + 1
      BY <1>1, <1>2, <1>3, <1>4, <1>5, <2>1
    <2>2. CASE k \in 1 .. n
      BY <1>3, <1>5, <2>2 DEF HolesInv, n
    <2>3. QED
      BY <1>3, <2>1, <2>2
  <1>7. ASSUME NEW k \in 1 .. Len(holes'), NEW m \in 1 .. Len(holes'), k < m
        PROVE  SpanEnd(holes'[k]) <= holes'[m].start
    <2>1. k \in 1 .. n
      BY <1>3, <1>7
    <2>2. CASE m = n + 1
      BY <1>2, <1>3, <2>1, <2>2 DEF CursorInv, n
    <2>3. CASE m \in 1 .. n
      BY <1>3, <1>7, <2>1, <2>3 DEF HolesInv, n
    <2>4. QED
      BY <1>3, <2>2, <2>3
  <1>8. HolesInv'
    BY <1>6, <1>7 DEF HolesInv, Bytes
  <1>9. ASSUME NEW b, InHole(b) PROVE InHole(b)'
    BY <1>3, <1>9 DEF InHole, n, Bytes
  <1>10. \A b \in cursor .. (hi - 1) : InHole(b)'
    <2>1. n + 1 \in 1 .. Len(holes') /\ Bytes(holes'[n + 1]) = cursor .. (hi - 1)
      BY <1>3, <1>20
    <2>2. QED
      BY <2>1 DEF InHole, Bytes
  <1>11. ASSUME NEW k \in 1 .. Len(holes')
         PROVE  \/ k \in 1 .. Len(holes) /\ holes'[k] = holes[k]
                \/ SpanEnd(holes'[k]) = hi
    <2>1. CASE k = n + 1
      BY <1>2, <1>3, <2>1
    <2>2. CASE k \in 1 .. n
      BY <1>3, <2>2 DEF n
    <2>3. QED
      BY <1>3, <2>1, <2>2
  <1>12. QED
    BY <1>8, <1>9, <1>10, <1>11

-----------------------------------------------------------------------------
(* The invariant of fill_unclaimed.                                        *)

\* Outside fill_unclaimed it says nothing.
LEMMA NotFilling ==
    /\ stage \notin FillStages => FillInv
    /\ stage' \notin FillStages => FillInv'
  BY DEF FillInv, FillStages

\* While claims stay, what was full stays full.
LEMMA SameFull ==
    ASSUME UNCHANGED <<claims, children, files>>
    PROVE  /\ \A f, b : Claimed(f, b)' <=> Claimed(f, b)
           /\ \A f : Full(f)' <=> Full(f)
           /\ AllFit' <=> AllFit
  BY SameClaims DEF Claimed, Full, AllFit

\* The next leaf: from the cursor to its end, hole first, nothing is overlooked.
LEMMA FillInvLeaf ==
    ASSUME TypeOK, FillInv, FillLeaf
    PROVE  FillInv'
  <1>1. PICK i \in todo :
           /\ ComesFirst(i, todo)
           /\ todo' = todo \ {i}
           /\ holes' = IF claims[i].start > cursor
                       THEN Append(holes, Hole(cursor, claims[i].start))
                       ELSE holes
           /\ cursor' = IF SpanEnd(claims[i]) > cursor THEN SpanEnd(claims[i]) ELSE cursor
    BY DEF FillLeaf
  <1>2. /\ stage = "fillScan" /\ stage' = "fillScan"
        /\ UNCHANGED <<claims, children, files, file, pending>>
        /\ file \in Declared /\ file \in Files
    BY DEF FillLeaf, TypeOK, Declared, builderVars
  <1>3. HolesInv /\ CursorInv /\ (AllFit => NothingOverlooked)
    BY <1>2 DEF FillInv, FillStages
  <1> DEFINE lo == claims[i].start
             hi == SpanEnd(claims[i])
  <1>4. /\ i \in Leaves(file) /\ i \in Ids /\ claims[i].file = file
        /\ lo \in Nat /\ hi \in Nat /\ lo \in U64 /\ hi \in U64 /\ lo <= hi
        /\ cursor \in Nat
    BY <1>1, <1>3, LeafFacts, ClaimFacts DEF CursorInv, TypeOK, U64
  <1>5. \A j \in todo : lo <= claims[j].start
    <2>1. \A j \in todo : claims[j].start \in Nat
      BY <1>3, LeafFacts DEF CursorInv
    <2>2. QED
      BY <1>1, <1>4, <2>1 DEF ComesFirst
  <1>6. \A b : Contains(claims[i], file, b) <=> lo <= b /\ b < hi
    BY <1>4, LeafFacts
  <1> HIDE DEF lo, hi
  <1>7. /\ HolesInv'
        /\ \A b : InHole(b) => InHole(b)'
        /\ lo > cursor => \A b \in cursor .. (lo - 1) : InHole(b)'
        /\ \A k \in 1 .. Len(holes') :
              \/ k \in 1 .. Len(holes) /\ holes'[k] = holes[k]
              \/ SpanEnd(holes'[k]) = lo
    <2>1. CASE lo > cursor
      <3>1. cursor < lo /\ holes' = Append(holes, Hole(cursor, lo))
        BY <1>1, <1>4, <2>1 DEF lo
      <3>2. QED
        BY <1>2, <1>3, <1>4, <1>5, <3>1, HoleJoins
    <2>2. CASE ~(lo > cursor)
      <3>1. holes' = holes
        BY <1>1, <2>2 DEF lo
      <3>2. HolesInv'
        BY <1>2, <1>3, <3>1, SameFull DEF HolesInv
      <3>3. QED
        BY <2>2, <3>1, <3>2 DEF InHole
    <2>3. QED
      BY <2>1, <2>2
  <1>8. cursor' \in Nat /\ cursor <= cursor' /\ hi <= cursor' /\ lo <= cursor'
        /\ (cursor' = cursor \/ cursor' = hi)
    BY <1>1, <1>4 DEF hi
  <1>9. CursorInv'
    <2>1. Leaves(file)' = Leaves(file)
      BY <1>2, SameClaims DEF Leaves
    <2>2. todo' \subseteq Leaves(file)'
      BY <1>1, <1>3, <2>1 DEF CursorInv
    <2>3. ASSUME NEW j \in Scanned' PROVE SpanEnd(claims'[j]) <= cursor'
      <3>1. j \in Leaves(file) /\ (j = i \/ j \in Scanned) /\ claims'[j] = claims[j]
        BY <1>1, <1>2, <2>1 DEF Scanned
      <3>2. CASE j = i
        BY <1>8, <3>1, <3>2 DEF hi
      <3>3. CASE j \in Scanned
        <4>1. SpanEnd(claims[j]) <= cursor /\ SpanEnd(claims[j]) \in Nat
          BY <1>3, <3>1, <3>3, LeafFacts DEF CursorInv
        <4>2. QED
          BY <1>4, <1>8, <3>1, <4>1
      <3>4. QED
        BY <3>1, <3>2, <3>3
    <2>4. ASSUME NEW k \in 1 .. Len(holes') PROVE SpanEnd(holes'[k]) <= cursor'
      <3>1. CASE k \in 1 .. Len(holes) /\ holes'[k] = holes[k]
        <4>1. SpanEnd(holes[k]) <= cursor /\ SpanEnd(holes[k]) \in Nat
          BY <1>3, <3>1, HoleSpanFacts DEF CursorInv, TypeOK
        <4>2. QED
          BY <1>4, <1>8, <3>1, <4>1
      <3>2. CASE SpanEnd(holes'[k]) = lo
        BY <1>8, <3>2
      <3>3. QED
        BY <1>7, <3>1, <3>2
    <2>5. QED
      BY <2>2, <2>3, <2>4 DEF CursorInv
  <1>10. ASSUME AllFit PROVE NothingOverlooked'
    <2>1. NothingOverlooked
      BY <1>3, <1>10
    <2>2. files[file] \in Nat /\ hi <= files[file]
      BY <1>2, <1>4, <1>10 DEF AllFit, TypeOK, Declared, U64, hi
    <2>3. \A f \in Behind' : Full(f)'
      BY <1>2, <2>1, SameFull, SameClaims DEF NothingOverlooked, Behind
    <2>4. ASSUME NEW k \in 1 .. Len(holes') PROVE SpanEnd(holes'[k]) <= files[file]
      <3>1. k \in 1 .. Len(holes) => SpanEnd(holes[k]) <= files[file]
        BY <1>2, <2>1 DEF NothingOverlooked
      <3>2. QED
        BY <1>4, <1>7, <2>2, <3>1
    <2>5. ASSUME NEW b \in Int, 0 <= b, b < cursor' PROVE Claimed(file, b) \/ InHole(b)'
      <3>1. CASE b < cursor
        <4>1. b \in 0 .. (Passed - 1)
          BY <1>2, <1>4, <2>5, <3>1 DEF Passed
        <4>2. QED
          BY <1>2, <1>7, <2>1, <4>1 DEF NothingOverlooked
      <3>2. CASE cursor <= b /\ b < lo
        BY <1>4, <1>7, <3>2
      <3>3. CASE cursor <= b /\ lo <= b
        <4>1. b < hi
          <5>1. cursor' = hi
            BY <1>4, <1>8, <2>5, <3>3
          <5>2. QED
            BY <2>5, <5>1
        <4>2. i \in LeavesAt(file, b)
          BY <1>4, <1>6, <3>3, <4>1 DEF LeavesAt
        <4>3. QED
          BY <4>2 DEF Claimed
      <3>4. QED
        BY <1>4, <1>8, <3>1, <3>2, <3>3
    <2>9. \A n \in Nat : \A b \in 0 .. (n - 1) : b \in Int /\ 0 <= b /\ b < n
      OBVIOUS
    <2>6. Passed' = cursor' /\ \A b \in 0 .. (cursor' - 1) : b \in Int /\ 0 <= b /\ b < cursor'
      BY <1>2, <1>8, <2>9 DEF Passed
    <2>7. \A b : Claimed(file, b) => Claimed(file, b)'
      BY <1>2, SameFull
    <2>8. QED
      BY <1>2, <2>3, <2>4, <2>5, <2>6, <2>7 DEF NothingOverlooked
  <1>11. QED
    BY <1>2, <1>7, <1>9, <1>10, SameFull DEF FillInv

\* The tail of the file: what is left behind the last leaf is a hole too.
LEMMA FillInvTail ==
    ASSUME TypeOK, FillInv, FillTail
    PROVE  FillInv'
  <1> DEFINE hi == files[file]
  <1>1. /\ stage = "fillScan" /\ stage' = "fillPush" /\ todo = {}
        /\ UNCHANGED <<claims, children, files, file, pending>>
        /\ holes' = IF cursor < hi THEN Append(holes, Hole(cursor, hi)) ELSE holes
        /\ file \in Declared /\ file \in Files
    BY DEF FillTail, TypeOK, Declared, builderVars
  <1>2. HolesInv /\ CursorInv /\ (AllFit => NothingOverlooked)
    BY <1>1 DEF FillInv, FillStages
  <1>3. hi \in U64 /\ hi \in Nat /\ cursor \in Nat
    BY <1>1 DEF TypeOK, Declared, U64
  <1> HIDE DEF hi
  <1>4. /\ HolesInv'
        /\ \A b : InHole(b) => InHole(b)'
        /\ cursor < hi => \A b \in cursor .. (hi - 1) : InHole(b)'
        /\ \A k \in 1 .. Len(holes') :
              \/ k \in 1 .. Len(holes) /\ holes'[k] = holes[k]
              \/ SpanEnd(holes'[k]) = hi
    <2>1. CASE cursor < hi
      <3>1. holes' = Append(holes, Hole(cursor, hi)) /\ \A i \in todo : hi <= claims[i].start
        BY <1>1, <2>1
      <3>2. QED
        BY <1>1, <1>2, <1>3, <2>1, <3>1, HoleJoins
    <2>2. CASE ~(cursor < hi)
      <3>1. holes' = holes
        BY <1>1, <2>2
      <3>2. HolesInv'
        BY <1>1, <1>2, <3>1, SameFull DEF HolesInv
      <3>3. QED
        BY <2>2, <3>1, <3>2 DEF InHole
    <2>3. QED
      BY <2>1, <2>2
  <1>5. ASSUME AllFit PROVE NothingOverlooked'
    <2>1. NothingOverlooked
      BY <1>2, <1>5
    <2>2. \A f \in Behind' : Full(f)'
      BY <1>1, <2>1, SameFull, SameClaims DEF NothingOverlooked, Behind
    <2>3. ASSUME NEW k \in 1 .. Len(holes') PROVE SpanEnd(holes'[k]) <= hi
      <3>1. k \in 1 .. Len(holes) => SpanEnd(holes[k]) <= hi
        BY <1>1, <2>1 DEF NothingOverlooked, hi
      <3>2. QED
        BY <1>3, <1>4, <3>1
    <2>4. ASSUME NEW b \in 0 .. (hi - 1) PROVE Claimed(file, b) \/ InHole(b)'
      <3>1. CASE b < cursor
        <4>1. b \in 0 .. (Passed - 1)
          BY <1>1, <1>3, <3>1 DEF Passed
        <4>2. QED
          BY <1>1, <1>4, <2>1, <4>1 DEF NothingOverlooked
      <3>2. CASE cursor <= b
        BY <1>3, <1>4, <2>4, <3>2
      <3>3. QED
        BY <1>3, <3>1, <3>2
    <2>5. Passed' = hi /\ files'[file'] = hi
      BY <1>1 DEF Passed, hi
    <2>6. \A b : Claimed(file, b) => Claimed(file, b)'
      BY <1>1, SameFull
    <2>7. QED
      BY <1>1, <2>2, <2>3, <2>4, <2>5, <2>6 DEF NothingOverlooked
  <1>6. QED
    BY <1>1, <1>4, <1>5, SameFull DEF FillInv

\* One hole pushed: the others are still holes, and if claims fit their files the
\* push was accepted, so the bytes of this one are claimed now.
LEMMA FillInvHole ==
    ASSUME TypeOK, FillInv, FillHole
    PROVE  FillInv'
  <1> DEFINE h == Head(holes)
             n == Len(holes)
  <1>1. /\ stage = "fillPush" /\ stage' = "fillPush" /\ holes # <<>>
        /\ holes' = Tail(holes)
        /\ UNCHANGED <<files, file, pending>>
        /\ file \in Declared /\ file \in Files
    BY DEF FillHole, TypeOK, Declared
  <1>2. HolesInv /\ (AllFit => NothingOverlooked)
    BY <1>1 DEF FillInv, FillStages
  <1>3. /\ n \in Nat /\ n > 0 /\ Len(holes') = n - 1
        /\ \A k \in 1 .. n : holes[k] \in HoleSpan
        /\ \A k \in 1 .. (n - 1) : holes'[k] = holes[k + 1]
    BY <1>1 DEF TypeOK
  <1>4. /\ h = holes[1] /\ h \in HoleSpan /\ h.file = file /\ h.start < SpanEnd(h)
        /\ \A i \in Ids : claims'[i] = claims[i]
        /\ Ids \subseteq Ids'
        /\ \A f, b : Claimed(f, b) => Claimed(f, b)'
        /\ \A f : \A b \in Int :
              Claimed(f, b)' => Claimed(f, b) \/ (f = file /\ b \in Bytes(h))
        /\ Check(HoleClaim(h)) = "ok" => \A b \in Bytes(h) : Claimed(file, b)'
    BY FillHoleFacts
  <1> HIDE DEF h, n
  <1>5. HolesInv'
    <2>1. ASSUME NEW k \in 1 .. (n - 1)
          PROVE  /\ holes'[k].file = file' /\ holes'[k].start < SpanEnd(holes'[k])
                 /\ \A b \in Bytes(holes'[k]) : ~Claimed(file, b)'
      <3> DEFINE g == holes[k + 1]
      <3>1. k + 1 \in 1 .. n /\ 1 \in 1 .. n /\ 1 < k + 1 /\ holes'[k] = g /\ g \in HoleSpan
        BY <1>3
      <3>2. /\ g.file = file /\ g.start < SpanEnd(g)
            /\ \A b \in Bytes(g) : ~Claimed(file, b)
            /\ SpanEnd(h) <= g.start
        BY <1>2, <1>4, <3>1 DEF HolesInv, n
      <3>3. g.start \in Nat /\ SpanEnd(g) \in Nat /\ SpanEnd(h) \in Nat /\ h.start \in Nat
        BY <1>4, <3>1, HoleSpanFacts
      <3> HIDE DEF g
      <3>4. \A b \in Bytes(g) : b \in Int /\ b \notin Bytes(h)
        BY <3>2, <3>3 DEF Bytes
      <3>5. \A b \in Bytes(g) : ~Claimed(file, b)'
        BY <1>1, <1>4, <3>2, <3>4
      <3>6. QED
        BY <1>1, <3>1, <3>2, <3>5
    <2>2. ASSUME NEW k \in 1 .. (n - 1), NEW m \in 1 .. (n - 1), k < m
          PROVE  SpanEnd(holes'[k]) <= holes'[m].start
      <3>1. k + 1 \in 1 .. n /\ m + 1 \in 1 .. n /\ k + 1 < m + 1
        BY <1>3, <2>2
      <3>2. SpanEnd(holes[k + 1]) <= holes[m + 1].start
        BY <1>2, <3>1 DEF HolesInv, n
      <3>3. QED
        BY <1>3, <3>2
    <2>3. QED
      BY <1>3, <2>1, <2>2 DEF HolesInv, Bytes
  <1>6. ASSUME AllFit' PROVE NothingOverlooked'
    <2>1. AllFit
      BY <1>1, <1>4, <1>6 DEF AllFit
    <2>2. NothingOverlooked
      BY <1>2, <2>1
    <2>3. \A f \in Behind' : Full(f)'
      <3>1. Behind' = Behind
        BY <1>1 DEF Behind, Declared
      <3>2. \A f \in Behind : Full(f)
        BY <2>2 DEF NothingOverlooked
      <3>3. \A f : Full(f) => Full(f)'
        BY <1>1, <1>4 DEF Full
      <3>4. QED
        BY <3>1, <3>2, <3>3
    <2>4. \A k \in 1 .. n : SpanEnd(holes[k]) <= files[file]
      BY <1>1, <2>2 DEF NothingOverlooked, n
    <2>5. \A k \in 1 .. (n - 1) : SpanEnd(holes'[k]) <= files[file]
      BY <1>3, <2>4
    <2>6. \A b \in Bytes(h) : Claimed(file, b)'
      <3>1. 1 \in 1 .. n /\ SpanEnd(h) <= files[h.file] /\ h.file \in Declared
        BY <1>1, <1>3, <1>4, <2>4
      <3>2. Check(HoleClaim(h)) = "ok"
        BY <1>4, <3>1, HoleIsAccepted
      <3>3. QED
        BY <1>4, <3>2
    <2>7. ASSUME NEW b \in 0 .. (files[file] - 1) PROVE Claimed(file, b)' \/ InHole(b)'
      <3>1. Claimed(file, b) \/ InHole(b)
        BY <1>1, <2>2 DEF NothingOverlooked, Passed
      <3>2. CASE Claimed(file, b)
        BY <1>1, <1>4, <3>2
      <3>3. CASE InHole(b)
        <4>1. PICK k \in 1 .. n : b \in Bytes(holes[k])
          BY <3>3 DEF InHole, n
        <4>2. CASE k = 1
          BY <1>4, <2>6, <4>1, <4>2
        <4>3. CASE k # 1
          <5>1. k - 1 \in 1 .. (n - 1) /\ holes'[k - 1] = holes[k]
            BY <1>3, <4>1, <4>3
          <5>2. QED
            BY <1>3, <4>1, <5>1 DEF InHole, Bytes
        <4>4. QED
          BY <4>2, <4>3
      <3>4. QED
        BY <3>1, <3>2, <3>3
    <2>8. Passed' = files[file]
      BY <1>1 DEF Passed
    <2>9. QED
      BY <1>1, <1>3, <2>3, <2>5, <2>7, <2>8 DEF NothingOverlooked
  <1>7. QED
    BY <1>1, <1>5, <1>6 DEF FillInv

\* From file to file.
LEMMA FillInvFiles ==
    ASSUME TypeOK, FillInv, FillStart \/ FillFile \/ FillNextFile
    PROVE  FillInv'
  <1>1. CASE FillStart
    <2>1. stage' = "fillFile" /\ pending' = Declared' /\ Behind' = {}
      BY <1>1 DEF FillStart, StartScan, Behind, Declared, builderVars
    <2>2. QED
      BY <2>1 DEF FillInv, NothingOverlooked
  <1>2. CASE FillFile
    <2>1. PICK f \in pending : file' = f /\ pending' = pending \ {f} /\ todo' = Leaves(f)
      BY <1>2 DEF FillFile, EnterFile
    <2>2. /\ stage = "fillFile" /\ stage' = "fillScan" /\ cursor' = 0 /\ holes' = <<>>
          /\ UNCHANGED <<claims, children, files>> /\ Len(holes') = 0
      BY <1>2 DEF FillFile, EnterFile, builderVars
    <2>3. HolesInv'
      BY <2>2 DEF HolesInv
    <2>4. Leaves(file)' = todo'
      BY <2>1, <2>2, SameClaims DEF Leaves
    <2>5. CursorInv'
      BY <2>2, <2>4 DEF CursorInv, Scanned
    <2>6. Behind' = Behind
      BY <2>1, <2>2, SameClaims DEF Behind
    <2>7. ASSUME AllFit PROVE NothingOverlooked'
      <3>1. \A g \in Behind' : Full(g)'
        BY <2>2, <2>6, <2>7, SameFull DEF FillInv, FillStages, NothingOverlooked
      <3>2. 0 .. (Passed' - 1) = {}
        BY <2>2 DEF Passed
      <3>3. QED
        BY <2>2, <3>1, <3>2 DEF NothingOverlooked
    <2>8. QED
      BY <2>2, <2>3, <2>5, <2>7, SameFull DEF FillInv
  <1>3. CASE FillNextFile
    <2>1. /\ stage = "fillPush" /\ stage' = "fillFile" /\ holes = <<>> /\ Len(holes) = 0
          /\ UNCHANGED <<claims, children, files, pending>>
      BY <1>3 DEF FillNextFile, builderVars, scanVars
    <2>2. ASSUME AllFit PROVE NothingOverlooked'
      <3>1. NothingOverlooked
        BY <2>1, <2>2 DEF FillInv, FillStages
      <3>2. \A b : ~InHole(b)
        BY <2>1 DEF InHole
      <3>3. Full(file)
        BY <2>1, <3>1, <3>2 DEF NothingOverlooked, Passed, Full
      <3>4. \A f \in Declared \ pending : Full(f)
        BY <2>1, <3>1, <3>3 DEF NothingOverlooked, Behind
      <3>5. Behind' = Declared \ pending
        BY <2>1, SameClaims DEF Behind
      <3>6. QED
        BY <2>1, <3>4, <3>5, SameFull DEF NothingOverlooked
    <2>3. QED
      BY <2>1, <2>2, SameFull DEF FillInv
  <1>4. QED
    BY <1>1, <1>2, <1>3

LEMMA FillInvInit == Init => FillInv
  BY NotFilling DEF Init, FillStages

LEMMA FillInvNext == TypeOK /\ FillInv /\ [AnyStep]_vars => FillInv'
  <1> SUFFICES ASSUME TypeOK, FillInv, [AnyStep]_vars PROVE FillInv'
    OBVIOUS
  <1>1. ASSUME NEW f \in Files, NEW len \in U64, AddFile(f, len) PROVE FillInv'
    BY <1>1, NotFilling DEF AddFile, FillStages
  <1>2. ASSUME NEW c, Push(c) PROVE FillInv'
    BY <1>2, NotFilling DEF Push, FillStages
  <1>3. CASE FinishStart
    BY <1>3, NotFilling DEF FinishStart, StartScan, FillStages
  <1>4. CASE FillStart \/ FillFile \/ FillNextFile
    BY <1>4, FillInvFiles
  <1>5. CASE FillLeaf
    BY <1>5, FillInvLeaf
  <1>6. CASE FillTail
    BY <1>6, FillInvTail
  <1>7. CASE FillHole
    BY <1>7, FillInvHole
  <1>8. CASE FillReturn
    BY <1>8, NotFilling DEF FillReturn, FillStages
  <1>9. CASE FinishNext
    BY <1>9, NotFilling
    DEF FinishNext, FinishFile, FinishOverlap, FinishGap, FinishLeaf, FinishTailGap,
        FinishNextFile, FinishAccept, EnterFile, Return, FillStages
  <1>10. CASE UNCHANGED vars
    <2>1. /\ UNCHANGED <<claims, children, files, file, pending, todo, cursor, holes, stage>>
      BY <1>10 DEF vars, scanVars
    <2>2. QED
      BY <2>1, SameFull, SameClaims
      DEF FillInv, HolesInv, CursorInv, NothingOverlooked, Behind, Passed, InHole, Bytes,
          Scanned, AllFit
  <1>11. QED
    BY <1>1, <1>2, <1>3, <1>4, <1>5, <1>6, <1>7, <1>8, <1>9, <1>10 DEF AnyStep, FillNext

-----------------------------------------------------------------------------
(* The theorems.                                                           *)

\* A step of fill_unclaimed only adds: every leaf stays a leaf, every claim stays
\* as it was, and what is new shares no byte with a leaf.
LEMMA FillAdds ==
    ASSUME TypeOK, FillInv, [AnyStep]_vars, stage \in FillStages
    PROVE  AddsOnlyFiller
  <1>1. CASE FillHole
    <2> DEFINE h == Head(holes)
               c == HoleClaim(h)
    <2>1. /\ h \in HoleSpan /\ h.file = file
          /\ \A b \in Bytes(h) : ~Claimed(file, b)
          /\ \A f : Leaves(f) \subseteq Leaves(f)'
          /\ \A i \in Ids : claims'[i] = claims[i]
          /\ \A i \in Ids' \ Ids : claims'[i] = c
      BY <1>1, FillHoleFacts
    <2>2. c.kind = "Unclaimed" /\ c.file = file /\ c.start = h.start /\ SpanEnd(c) = SpanEnd(h)
      BY <2>1, HoleClaimFacts
    <2> HIDE DEF h, c
    <2>3. FillsOnlyHoles(c)
      BY <2>1, <2>2 DEF FillsOnlyHoles, Bytes
    <2>4. QED
      BY <2>1, <2>3 DEF AddsOnlyFiller
  <1>2. CASE UNCHANGED <<claims, children, files>>
    BY <1>2, SameClaims DEF AddsOnlyFiller
  <1>3. \/ FillFile \/ FillLeaf \/ FillTail \/ FillHole \/ FillNextFile \/ FillReturn
        \/ UNCHANGED vars
    BY DEF AnyStep, FillNext, FinishNext, AddFile, Push, FillStart, FinishStart,
           StartScan, FinishFile, FinishOverlap, FinishGap, FinishLeaf, FinishTailGap,
           FinishNextFile, FinishAccept, EnterFile, FillStages
  <1>4. QED
    BY <1>1, <1>2, <1>3
    DEF FillFile, EnterFile, FillLeaf, FillTail, FillNextFile, FillReturn, vars, builderVars

\* When it returns, every byte of every file that the claims fit is claimed.
LEMMA FillReturnsFull ==
    ASSUME TypeOK, FillInv, [AnyStep]_vars, stage = "fillFile", stage' = "open", AllFit
    PROVE  \A f \in Declared : \A b \in 0 .. (files[f] - 1) : Claimed(f, b)
  <1>1. pending = {}
    BY DEF AnyStep, FillNext, FinishNext, AddFile, Push, FillStart, FinishStart,
           StartScan, FinishFile, FinishOverlap, FinishGap, FinishLeaf, FinishTailGap,
           FinishNextFile, FinishAccept, EnterFile, FillFile, FillLeaf, FillTail, FillHole,
           FillNextFile, FillReturn, vars
  <1>2. NothingOverlooked
    BY DEF FillInv, FillStages
  <1>3. Behind = Declared
    BY <1>1 DEF Behind
  <1>4. QED
    BY <1>2, <1>3 DEF NothingOverlooked, Full

LEMMA FillInvAlways == Spec => [](TypeOK /\ FillInv)
  <1>1. Init => TypeOK /\ FillInv
    BY TypeInit, FillInvInit
  <1>2. TypeOK /\ FillInv /\ [AnyStep]_vars => (TypeOK /\ FillInv)'
    BY TypeNext, FillInvNext
  <1>3. QED
    BY <1>1, <1>2, NextIsAnyStep, PTL DEF Spec

\* fill_unclaimed only adds filler, for all files, spans and numbers of claims.
THEOREM FillOnlyAdds == Spec => FillOnlyAddsFiller
  <1>1. TypeOK /\ FillInv /\ [AnyStep]_vars => [(stage \in FillStages) => AddsOnlyFiller]_vars
    BY FillAdds
  <1>2. QED
    BY <1>1, FillInvAlways, NextIsAnyStep, PTL DEF Spec, FillOnlyAddsFiller

\* fill_unclaimed leaves no hole, unless a file was declared again and shorter.
THEOREM FillClosesHoles == Spec => FillLeavesNoHole
  <1> DEFINE Closed == stage = "fillFile" /\ stage' = "open" /\ AllFit =>
                          \A f \in Declared : \A b \in 0 .. (files[f] - 1) : Claimed(f, b)
  <1>1. TypeOK /\ FillInv /\ [AnyStep]_vars => [Closed]_vars
    BY FillReturnsFull
  <1>2. QED
    BY <1>1, FillInvAlways, NextIsAnyStep, PTL DEF Spec, FillLeavesNoHole

-----------------------------------------------------------------------------
(* The parser.                                                             *)

HIDE DEF None, Undeclared

\* The file that is parsed is the least FileId.
LEMMA PrimaryIsFile == F \in Files
  <1>1. PICK f \in Files : \A g \in Files : f <= g
    BY FilesAssumption, PrimaryAssumption, LeastOf
  <1>2. QED
    BY <1>1 DEF F, PRIMARY

\* A field of a table: where it lies in the entry, and how long it is.
Part == Nat \X (Nat \ {0})

\* In a table without gaps a field ends before the next ones start.
LEMMA TableFacts ==
    ASSUME NEW t \in Seq(Part), t # <<>>, NEW from \in Nat, Tiles(t, from)
    PROVE  /\ \A j, k \in 1 .. Len(t) : j < k => t[j][1] + t[j][2] <= t[k][1]
           /\ \A j \in 1 .. Len(t) : from <= t[j][1] /\ t[j][1] + t[j][2] <= TableEnd(t)
           /\ TableEnd(t) \in Nat \ {0}
  <1>1. Len(t) \in Nat \ {0} /\ \A k \in 1 .. Len(t) : t[k][1] \in Nat /\ t[k][2] \in Nat
    <2>1. Len(t) \in Nat \ {0}
      OBVIOUS
    <2>2. \A k \in 1 .. Len(t) : t[k] \in Part
      OBVIOUS
    <2>3. QED
      BY <2>1, <2>2 DEF Part
  <1>2. \A k \in 1 .. (Len(t) - 1) : t[k][1] + t[k][2] = t[k + 1][1]
    BY DEF Tiles
  <1>3. ASSUME NEW j \in 1 .. Len(t), NEW k \in 1 .. Len(t), j < k
        PROVE  t[j][1] + t[j][2] <= t[k][1]
    <2> SUFFICES ASSUME ~(t[j][1] + t[j][2] <= t[k][1]) PROVE FALSE
      OBVIOUS
    <2> DEFINE Bad == {m \in Nat : /\ m \in (j + 1) .. Len(t)
                                   /\ ~(t[j][1] + t[j][2] <= t[m][1])}
    <2>1. k \in Bad
      BY <1>1, <1>3
    <2>2. PICK m \in Bad : \A x \in Bad : m <= x
      BY <2>1, LeastOf
    <2>3. m \in Nat /\ m \in (j + 1) .. Len(t) /\ ~(t[j][1] + t[j][2] <= t[m][1])
      BY <2>2
    <2>4. \A x \in Nat : x \in (j + 1) .. Len(t) /\ x < m => t[j][1] + t[j][2] <= t[x][1]
      <3>1. ASSUME NEW x \in Nat, x \in (j + 1) .. Len(t), x < m,
                   ~(t[j][1] + t[j][2] <= t[x][1])
            PROVE  FALSE
        <4>1. x \in Bad
          BY <3>1
        <4> HIDE DEF Bad
        <4>2. QED
          BY <2>2, <2>3, <3>1, <4>1
      <3>2. QED
        BY <3>1
    <2> HIDE DEF Bad
    <2>5. m \in 1 .. Len(t) /\ m - 1 \in 1 .. Len(t) /\ m - 1 \in 1 .. (Len(t) - 1)
      BY <1>1, <2>3
    <2>6. /\ t[m - 1][1] \in Nat /\ t[m - 1][2] \in Nat /\ t[m][1] \in Nat
          /\ t[j][1] \in Nat /\ t[j][2] \in Nat
      BY <1>1, <2>5
    <2>7. t[m - 1][1] + t[m - 1][2] = t[m][1]
      <3>1. m - 1 + 1 = m
        BY <2>5
      <3>2. t[m - 1][1] + t[m - 1][2] = t[m - 1 + 1][1]
        BY <1>2, <2>5
      <3>3. QED
        BY <3>1, <3>2
    <2>8. PICK end \in Nat : end = t[j][1] + t[j][2]
      BY SMTT(30), <2>6
    <2>9. PICK c \in Nat, d \in Nat, x \in Nat :
             /\ c = t[m - 1][1] /\ d = t[m - 1][2] /\ x = t[m][1] /\ c + d = x
      BY <2>6, <2>7
    <2>10. ~(end <= x)
      BY <2>3, <2>8, <2>9
    <2>11. CASE m - 1 = j
      <3>1. end = x
        BY <2>7, <2>8, <2>9, <2>11
      <3>2. QED
        BY <2>10, <3>1
    <2>12. CASE m - 1 # j
      <3>1. m - 1 \in Nat /\ m - 1 \in (j + 1) .. Len(t) /\ m - 1 < m
        BY <1>1, <2>3, <2>5, <2>12
      <3>2. t[j][1] + t[j][2] <= t[m - 1][1]
        BY <2>4, <3>1
      <3>3. end <= c
        BY <2>8, <2>9, <3>2
      <3>4. c + d = x
        BY <2>9
      <3>5. \A u, v, y, z \in Nat : u <= v /\ v + y = z => u <= z
        OBVIOUS
      <3>6. QED
        BY <2>10, <3>3, <3>4, <3>5
    <2>13. QED
      BY <2>11, <2>12
  <1>4. t[1][1] = from /\ TableEnd(t) = t[Len(t)][1] + t[Len(t)][2]
    BY DEF Tiles, TableEnd
  <1>5. ASSUME NEW j \in 1 .. Len(t)
        PROVE  from <= t[j][1] /\ t[j][1] + t[j][2] <= TableEnd(t)
    <2>1. 1 \in 1 .. Len(t) /\ Len(t) \in 1 .. Len(t)
      BY <1>1
    <2>2. j = 1 \/ t[1][1] + t[1][2] <= t[j][1]
      <3>1. j = 1 \/ 1 < j
        BY <1>1
      <3>2. QED
        BY <1>3, <2>1, <3>1
    <2>3. j = Len(t) \/ t[j][1] + t[j][2] <= t[Len(t)][1]
      <3>1. j = Len(t) \/ j < Len(t)
        BY <1>1
      <3>2. QED
        BY <1>3, <2>1, <3>1
    <2>4. /\ t[1][1] \in Nat /\ t[1][2] \in Nat /\ t[j][1] \in Nat /\ t[j][2] \in Nat
          /\ t[Len(t)][1] \in Nat /\ t[Len(t)][2] \in Nat
      BY <1>1, <2>1
    <2>5. PICK a \in Nat, b \in Nat, c \in Nat, d \in Nat, y \in Nat, z \in Nat :
               /\ a = t[1][1] /\ b = t[1][2] /\ c = t[j][1] /\ d = t[j][2]
               /\ y = t[Len(t)][1] /\ z = t[Len(t)][2]
      BY <2>4
    <2>6. (j = 1 \/ a + b <= c) /\ (j = Len(t) \/ c + d <= y)
      BY <2>2, <2>3, <2>5
    <2>7. (j = 1 => c = a) /\ (j = Len(t) => c = y /\ d = z)
      BY <2>5
    <2>8. a <= c /\ c + d <= y + z
      BY <2>6, <2>7
    <2>9. QED
      BY <1>4, <2>5, <2>8
  <1>6. TableEnd(t) \in Nat \ {0}
    <2>1. t[Len(t)] \in Part
      BY <1>1
    <2>2. PICK a \in Nat, b \in Nat \ {0} : a = t[Len(t)][1] /\ b = t[Len(t)][2]
      BY <2>1 DEF Part
    <2>3. QED
      BY <1>4, <2>2
  <1>7. QED
    BY <1>3, <1>5, <1>6

\* A field of a table: the claim it makes, whether the entry has room for it, and
\* whether it lies before another.
FieldClaim(t, k, base, parent) == At(base + t[k][1], t[k][2], parent)
HasRoom(t, k, size) == t[k] \in Part /\ t[k][1] + t[k][2] <= size
Precedes(t, j, k) == t[j][1] + t[j][2] <= t[k][1]

\* The fields an entry has room for are the first ones of the table.
LEMMA FieldsFacts ==
    ASSUME NEW t \in Seq(Part), t = <<>> \/ Tiles(t, 0),
           NEW base \in Nat, NEW size \in Nat, NEW parent \in Nat
    PROVE  LET f == Fields(t, base, size, parent)
           IN  /\ Len(f) \in Nat
               /\ \A k \in 1 .. Len(f) : f[k] = FieldClaim(t, k, base, parent)
               /\ \A k \in 1 .. Len(f) : HasRoom(t, k, size)
               /\ \A j, k \in 1 .. Len(f) : j < k => Precedes(t, j, k)
               /\ (\A k \in 1 .. Len(f) : f[k] \in Claim) => f \in Seq(Claim)
  <1> DEFINE Fits == {j \in DOMAIN t : t[j][1] + t[j][2] <= size}
             Out == {j \in Nat : j \in 1 .. (Len(t) + 1) /\ j \notin Fits}
  <1>1. Len(t) \in Nat /\ DOMAIN t = 1 .. Len(t)
    OBVIOUS
  <1>2. PICK m \in Out : \A x \in Out : m <= x
    <2>1. Len(t) + 1 \in Out
      BY <1>1
    <2>2. QED
      BY <2>1, LeastOf
  <1>3. m \in 1 .. (Len(t) + 1) /\ m \notin Fits
    BY <1>2
  <1>4. ASSUME NEW j \in Fits PROVE j < m
    <2>1. j \in 1 .. Len(t) /\ t[j][1] + t[j][2] <= size
      BY <1>1
    <2>2. CASE j > m
      <3>1. m \in 1 .. Len(t) /\ t # <<>>
        BY <1>1, <1>3, <2>1, <2>2
      <3>2. t[m][1] + t[m][2] <= t[j][1]
        BY <2>1, <2>2, <3>1, TableFacts
      <3>3. t[m] \in Part /\ t[j] \in Part
        BY <2>1, <3>1
      <3>4. t[m][1] + t[m][2] <= size
        <4>1. PICK a \in Nat, b \in Nat, c \in Nat, d \in Nat :
                 a = t[m][1] /\ b = t[m][2] /\ c = t[j][1] /\ d = t[j][2]
          BY <3>3 DEF Part
        <4>2. a + b <= c /\ c + d <= size
          BY <2>1, <3>2, <4>1
        <4>3. a + b <= size
          BY <4>2
        <4>4. QED
          BY <4>1, <4>3
      <3>5. QED
        BY <1>1, <1>3, <3>1, <3>4
    <2>3. QED
      BY <1>1, <1>3, <2>1, <2>2
  <1>5. Fits = 1 .. (m - 1)
    <2>1. ASSUME NEW j \in 1 .. (m - 1) PROVE j \in Fits
      <3>1. j \in Nat /\ j \in 1 .. (Len(t) + 1) /\ ~(m <= j)
        BY <1>1, <1>3
      <3>2. j \notin Out
        <4> HIDE DEF Out
        <4>1. QED
          BY <1>2, <3>1
      <3>3. QED
        BY <3>1, <3>2
    <2>2. ASSUME NEW j \in Fits PROVE j \in 1 .. (m - 1)
      BY <1>1, <1>3, <1>4
    <2> HIDE DEF Fits
    <2>3. QED
      BY <2>1, <2>2
  <1>6. m - 1 \in 0 .. Len(t)
    BY <1>1, <1>3
  <1>7. PICK n \in 0 .. Len(t) : n = m - 1
    BY <1>6
  <1> DEFINE f == [k \in 1 .. n |-> FieldClaim(t, k, base, parent)]
  <1>8. n \in Nat
    BY <1>1
  <1>9. Len(f) = n /\ \A k \in 1 .. n : f[k] = FieldClaim(t, k, base, parent)
    BY <1>8
  <1>10. (\A k \in 1 .. n : f[k] \in Claim) => f \in Seq(Claim)
    <2> SUFFICES ASSUME \A k \in 1 .. n : f[k] \in Claim PROVE f \in Seq(Claim)
      OBVIOUS
    <2>1. f \in [1 .. n -> Claim]
      BY <1>9
    <2>2. QED
      BY <1>8, <2>1
  <1>11. Fields(t, base, size, parent) = f
    <2>1. Fits = 1 .. n
      BY <1>5, <1>7
    <2> HIDE DEF Fits
    <2>2. Fields(t, base, size, parent) = [k \in Fits |-> FieldClaim(t, k, base, parent)]
      BY DEF Fields, Fits, FieldClaim
    <2>3. QED
      BY <2>1, <2>2
  <1> HIDE DEF f
  <1>12. \A k \in 1 .. n : HasRoom(t, k, size)
    <2>1. \A k \in 1 .. n : k \in Fits
      BY <1>5, <1>7
    <2>2. \A k \in 1 .. Len(t) : t[k] \in Part
      OBVIOUS
    <2>3. QED
      BY <1>1, <2>1, <2>2 DEF HasRoom
  <1>13. \A j, k \in 1 .. n : j < k => Precedes(t, j, k)
    <2>1. CASE t = <<>>
      BY <1>1, <1>7, <2>1
    <2>2. CASE t # <<>>
      <3>1. \A j, k \in 1 .. Len(t) : j < k => t[j][1] + t[j][2] <= t[k][1]
        BY <2>2, TableFacts
      <3>2. 1 .. n \subseteq 1 .. Len(t)
        BY <1>1, <1>7
      <3>3. QED
        BY <3>1, <3>2 DEF Precedes
    <2>3. QED
      BY <2>1, <2>2
  <1>14. QED
    BY <1>8, <1>9, <1>10, <1>11, <1>12, <1>13

-----------------------------------------------------------------------------
(* What has been pushed and what waits to be.                              *)

Planned == claims \o queue
Places == DOMAIN Planned

\* The claims that wait come after those that have been pushed.
LEMMA PlannedFacts ==
    ASSUME claims \in Seq(Claim), queue \in Seq(Claim)
    PROVE  /\ Planned \in Seq(Claim)
           /\ Places = 1 .. (Len(claims) + Len(queue))
           /\ \A i \in 1 .. Len(claims) : Planned[i] = claims[i]
           /\ \A k \in 1 .. Len(queue) : Planned[Len(claims) + k] = queue[k]
           /\ queue = <<>> => Planned = claims
  BY DEF Planned, Places

\* The claims of a function that has just been called come after those before.
LEMMA PlannedGrows ==
    ASSUME claims \in Seq(Claim), queue = <<>>, UNCHANGED claims, queue' \in Seq(Claim)
    PROVE  /\ Places = 1 .. Len(claims)
           /\ Places' = 1 .. (Len(claims) + Len(queue'))
           /\ \A i \in Places : Planned'[i] = Planned[i]
           /\ \A k \in 1 .. Len(queue') : Planned'[Len(claims) + k] = queue'[k]
           /\ \A i \in Places' \ Places :
                 i - Len(claims) \in 1 .. Len(queue') /\ Planned'[i] = queue'[i - Len(claims)]
  <1>1. Planned = claims /\ Places = 1 .. Len(claims)
    BY PlannedFacts
  <1>2. Planned' = claims \o queue' /\ Places' = 1 .. (Len(claims) + Len(queue'))
    BY DEF Planned, Places
  <1>3. \A i \in 1 .. Len(claims) : Planned'[i] = Planned[i]
    BY <1>1, <1>2
  <1>4. \A k \in 1 .. Len(queue') : Planned'[Len(claims) + k] = queue'[k]
    BY <1>2
  <1>5. ASSUME NEW i \in Places' \ Places
        PROVE  i - Len(claims) \in 1 .. Len(queue') /\ Planned'[i] = queue'[i - Len(claims)]
    <2>1. Len(claims) \in Nat /\ Len(queue') \in Nat /\ i \in Nat
      BY <1>2
    <2>2. i - Len(claims) \in 1 .. Len(queue') /\ Len(claims) + (i - Len(claims)) = i
      BY <1>1, <1>2, <2>1
    <2>3. QED
      BY <1>4, <2>2
  <1>6. QED
    BY <1>1, <1>2, <1>3, <1>4, <1>5

\* Every claim is in the file, and its parent comes before it and contains it.
Fits(c) == c \in Claim /\ c.file = F /\ SpanEnd(c) <= elf.len

\* A claim that is as long as it says, and holds a byte.
Solid(c) == c.len # 0 /\ c.start + c.len = SpanEnd(c)

PlacedInv ==
    \A i \in Places :
        /\ Fits(Planned[i])
        /\ Planned[i].parent # None =>
              /\ Planned[i].parent < i
              /\ ContainsSpan(Planned[Planned[i].parent], Planned[i])

\* A claim the parser makes of bytes in the file ends where it was meant to.
LEMMA AtFacts ==
    ASSUME NEW start \in Nat, NEW len \in Nat, NEW parent \in Nat,
           elf.len \in U64, start + len <= elf.len
    PROVE  LET c == At(start, len, parent)
           IN  /\ Fits(c)
               /\ c.start = start /\ SpanEnd(c) = start + len /\ c.parent = parent
               /\ c.kind = "Structure" /\ c.file = F
               /\ len # 0 => Solid(c)
  BY PrimaryIsFile, MaxU64Assumption DEF At, Fits, Solid, Claim, Kinds, U64, SpanEnd, SatAdd

\* A claim c of the len bytes at start, below parent, that the file holds.
MadeAt(c, start, len, parent) ==
    /\ Fits(c) /\ c.start = start /\ SpanEnd(c) = start + len /\ c.parent = parent
    /\ c.kind = "Structure" /\ c.file = F /\ Solid(c)

LEMMA SolidAtFacts ==
    ASSUME NEW start \in Nat, NEW len \in Nat \ {0}, NEW parent \in Nat,
           elf.len \in U64, start + len <= elf.len
    PROVE  MadeAt(At(start, len, parent), start, len, parent)
  <1>1. len \in Nat /\ len # 0
    OBVIOUS
  <1> DEFINE c == At(start, len, parent)
  <1>2. /\ Fits(c) /\ c.start = start /\ SpanEnd(c) = start + len /\ c.parent = parent
        /\ c.kind = "Structure" /\ c.file = F /\ Solid(c)
    BY <1>1, AtFacts
  <1>3. QED
    BY <1>2 DEF MadeAt

\* A claim that waits is accepted, and then nothing more or less is planned.
LEMMA PushAccepts ==
    ASSUME TypeOK, queue \in Seq(Claim), queue # <<>>, PlacedInv, files[F] = elf.len,
           elf.len \in U64, Push(Head(queue)), queue' = Tail(queue)
    PROVE  /\ Check(Head(queue)) = "ok"
           /\ Planned' = Planned /\ Places' = Places
           /\ Head(queue) \in Claim
  <1> DEFINE n == Len(claims)
             c == Head(queue)
  <1>1. claims \in Seq(Claim) /\ n \in Nat /\ Ids = 1 .. n
    BY DEF TypeOK, Ids
  <1>2. n + 1 \in Places /\ Planned[n + 1] = c /\ c \in Claim
    <2>1. Len(queue) \in Nat \ {0} /\ c = queue[1] /\ c \in Claim
      OBVIOUS
    <2>2. QED
      BY <1>1, <2>1, PlannedFacts
  <1>3. Fits(c) /\ (c.parent # None => /\ c.parent < n + 1
                                       /\ ContainsSpan(Planned[c.parent], c))
    BY <1>2 DEF PlacedInv
  <1>4. c.parent # None => c.parent \in Ids /\ Planned[c.parent] = claims[c.parent]
    <2>1. c.parent \in Nat
      BY <1>2 DEF Claim
    <2>2. c.parent # None => c.parent < n + 1 /\ n \in Nat
      BY <1>1, <1>3
    <2> HIDE DEF c, n
    <2>5. c.parent # None => c.parent \in 1 .. n
      BY <2>1, <2>2 DEF None
    <2>3. \A i \in 1 .. Len(claims) : Planned[i] = claims[i]
      BY <1>1, PlannedFacts
    <2>4. QED
      BY <1>1, <2>5, <2>3 DEF n
  <1>5. Check(c) = "ok"
    <2>1. files[c.file] = elf.len /\ elf.len # Undeclared /\ ~(SpanEnd(c) > elf.len)
      <3>1. SpanEnd(c) \in U64 /\ SpanEnd(c) <= elf.len /\ c.file = F
        BY <1>3, SpanEndType DEF Fits, Claim, SpanEnd
      <3> HIDE DEF c
      <3>2. SpanEnd(c) \in Nat /\ elf.len \in Nat
        BY <3>1, MaxU64Assumption DEF U64
      <3>3. elf.len # Undeclared /\ ~(SpanEnd(c) > elf.len)
        BY <3>1, <3>2 DEF Undeclared
      <3>4. files[c.file] = elf.len
        BY <3>1
      <3>5. QED
        BY <3>3, <3>4
    <2> HIDE DEF c
    <2>2. QED
      BY <1>3, <1>4, <2>1 DEF Check
  <1>6. claims' = Append(claims, c)
    BY <1>5 DEF Push, Attach
  <1>7. Planned' = Planned
    <2>1. Append(claims, c) \o Tail(queue) = claims \o queue
      BY <1>1
    <2>2. QED
      BY <1>6, <2>1 DEF Planned
  <1>8. QED
    BY <1>2, <1>5, <1>7 DEF Places

-----------------------------------------------------------------------------
(* What the bytes of the file can say.                                     *)

TableRead == NoTable(elf.shoff, Shnum, elf.shentsize)
             \/ elf.shoff + Shnum * elf.shentsize <= elf.len

\* Sizes and words are natural numbers.
LEMMA SizeFacts == EHDR64_SIZE \in Nat \ {0} /\ MaxU64 \in Nat /\ U64 \subseteq Nat
  <1>1. EhdrTable \in Seq(Part) /\ EhdrTable # <<>>
    BY TablesAssumption DEF Part
  <1>2. EHDR64_SIZE = EhdrTable[Len(EhdrTable)][1] + EhdrTable[Len(EhdrTable)][2]
    BY DEF EHDR64_SIZE, TableEnd
  <1>3. EhdrTable[Len(EhdrTable)] \in Part
    BY <1>1
  <1>4. EHDR64_SIZE \in Nat \ {0}
    <2>1. PICK a \in Nat, b \in Nat \ {0} :
             a = EhdrTable[Len(EhdrTable)][1] /\ b = EhdrTable[Len(EhdrTable)][2]
      BY <1>3 DEF Part
    <2>2. QED
      BY <1>2, <2>1
  <1>5. QED
    BY <1>4, MaxU64Assumption DEF U64

\* The counts are words, wherever they are read.
LEMMA CountFacts ==
    ASSUME elf \in Elfs
    PROVE  /\ {elf.len, elf.phoff, elf.phentsize, elf.shoff, elf.shentsize} \subseteq U64
           /\ Shnum \in U64 /\ Phnum \in U64
  <1>1. /\ {elf.len, elf.phoff, elf.phnum, elf.phentsize, elf.shoff, elf.shnum, elf.shentsize}
               \subseteq U64
        /\ elf.section0 \in [DOMAIN ShdrTable -> U64]
    BY ElfsAssumption
  <1>2. SizeField \in DOMAIN ShdrTable /\ InfoField \in DOMAIN ShdrTable
    BY TablesAssumption
  <1>3. \A k \in DOMAIN ShdrTable : ReadInSection0(elf, k) \in U64
    BY <1>1, MaxU64Assumption DEF ReadInSection0, U64
  <1>4. Shnum \in U64
    BY <1>1, <1>2, <1>3 DEF Shnum, ShnumOf
  <1>5. Phnum \in U64
    BY <1>1, <1>2, <1>3 DEF Phnum, PhnumOf
  <1>6. QED
    BY <1>1, <1>4, <1>5

\* Once the section table has been read, there is a header for every place in it.
LEMMA SectionFacts ==
    ASSUME elf \in Elfs, TableRead
    PROVE  /\ Len(Sections) \in Nat /\ DOMAIN Sections = 1 .. Len(Sections)
           /\ \A k \in 1 .. Len(Sections) :
                 /\ Sections[k].offset \in Nat /\ Sections[k].size \in Nat
                 /\ Sections[k].entsize \in Nat
                 /\ Sections[k].type = "NOTE" => Sections[k].entries \in Seq(U64 \X U64)
                 /\ Sections[k].type = "RELR" => Sections[k].entries \in Seq(U64)
  <1>1. CASE NoTable(elf.shoff, Shnum, elf.shentsize)
    <2>1. Sections = <<>>
      BY <1>1 DEF Sections
    <2>2. QED
      BY <2>1
  <1>2. CASE ~NoTable(elf.shoff, Shnum, elf.shentsize)
    <2>1. Sections = SubSeq(elf.sections, 1, Shnum)
      BY <1>2 DEF Sections
    <2>2. Shnum \in Nat /\ Shnum = ShnumOf(elf)
      BY CountFacts, SizeFacts DEF Shnum
    <2>3. 1 .. Shnum \subseteq DOMAIN elf.sections
      BY <1>2, <2>2, ElfsAssumption DEF TableRead
    <2> DEFINE Header == {elf.sections[k] : k \in DOMAIN elf.sections}
    <2>4. \A i \in 1 .. Shnum : elf.sections[i] \in Header
      BY <2>3
    <2>5. \A s \in Header : /\ {s.offset, s.size, s.entsize} \subseteq U64
                            /\ s.type = "NOTE" => s.entries \in Seq(U64 \X U64)
                            /\ s.type = "RELR" => s.entries \in Seq(U64)
      BY ElfsAssumption
    <2> HIDE DEF Header
    <2>6. Sections \in Seq(Header) /\ Len(Sections) \in Nat
      BY <2>1, <2>2, <2>4, SubSeqProperties
    <2>7. /\ DOMAIN Sections = 1 .. Len(Sections)
          /\ \A k \in 1 .. Len(Sections) : Sections[k] \in Header
      BY <2>6
    <2>8. QED
      BY <2>5, <2>6, <2>7, SizeFacts
  <1>3. QED
    BY <1>1, <1>2

\* The least of some numbers is one of them.
LEMMA LeastFacts ==
    ASSUME NEW S \in SUBSET Nat, S # {}
    PROVE  FX!Min(S) \in S /\ \A n \in S : FX!Min(S) <= n
  BY LeastOf DEF FX!Min

\* A text ends in the file, and not before it starts.
LEMMA TextFacts ==
    ASSUME elf \in Elfs, NEW off \in Nat, NEW max \in Nat
    PROVE  Text(off, max) \in Nat
  <1>1. CASE off > elf.len
    BY <1>1 DEF Text
  <1>2. CASE ~(off > elf.len)
    <2> DEFINE end == FX!Min({elf.len, SatAdd(off, max)})
               nuls == {p \in elf.nuls : off <= p /\ p < end}
    <2>1. elf.len \in Nat /\ SatAdd(off, max) \in Nat /\ off <= elf.len /\ elf.len <= MaxU64
      BY <1>2, CountFacts, MaxU64Assumption DEF SatAdd, U64
    <2>2. off <= SatAdd(off, max)
      BY <2>1, MaxU64Assumption DEF SatAdd
    <2>3. end \in {elf.len, SatAdd(off, max)}
      <3> DEFINE S == {elf.len, SatAdd(off, max)}
      <3>1. S \in SUBSET Nat /\ S # {}
        BY <2>1
      <3> HIDE DEF S
      <3>2. FX!Min(S) \in S
        BY <3>1, LeastFacts
      <3>3. QED
        BY <3>2 DEF S
    <2>4. end \in Nat /\ off <= end
      BY <2>1, <2>2, <2>3
    <2>5. nuls \in SUBSET Nat
      BY ElfsAssumption
    <2>6. nuls # {} => FX!Min(nuls) \in Nat /\ off <= FX!Min(nuls)
      <3>1. nuls # {} => FX!Min(nuls) \in nuls
        <4> HIDE DEF nuls
        <4>1. QED
          BY <2>5, LeastFacts
      <3>2. QED
        BY <2>5, <3>1
    <2>7. Text(off, max) = (IF nuls = {} THEN end ELSE FX!Min(nuls)) - off
      BY <1>2 DEF Text
    <2> HIDE DEF end, nuls
    <2>8. QED
      BY <2>4, <2>6, <2>7
  <1>3. QED
    BY <1>1, <1>2

\* Multiplication stays in the naturals.
LEMMA Products == \A a, b \in Nat : a * b \in Nat
  OBVIOUS

\* A padded size is a size.
LEMMA AlignFacts == \A v \in Nat : AlignNote(v) \in Nat
  <1> TAKE v \in Nat
  <1>1. NoteAlign \in Nat \ {0}
    BY SizesAssumption
  <1>2. v + NoteAlign - 1 \in Nat
    BY <1>1
  <1>3. (v + NoteAlign - 1) \div NoteAlign \in Nat
    BY <1>1, <1>2
  <1>4. QED
    BY <1>1, <1>3, Products DEF AlignNote

-----------------------------------------------------------------------------
(* The regions and what lies in them.                                      *)

Structures == {i \in Places : Planned[i].kind = "Structure"}
Up(i) == IF Planned[i].parent = None THEN i ELSE Planned[i].parent

\* The claim of the region that claim i is in: no structure lies deeper than the
\* fields of an entry.
Base(i) == Up(Up(i))
Bases == {i \in Structures : Planned[i].parent = None}
HasChild(i) == \E k \in Places : Planned[k].parent = i
Apart(i, j) ==
    SpanEnd(Planned[i]) <= Planned[j].start \/ SpanEnd(Planned[j]) <= Planned[i].start

\* Claim j is the entry or the region that claim i is part of.
Under(i, j) == j \in {Up(i), Base(i)}

\* The regions parse has come to.
Reached ==
    CASE step = "ident" -> {}
      [] step = "shdrs" -> {0}
      [] step = "phdrs" -> {0, -1}
      [] OTHER -> -2 .. sec

IsExtent(i, k) ==
    Planned[i].start = Region(k)[1] /\ SpanEnd(Planned[i]) = Region(k)[1] + Region(k)[2]

\* A claim without a parent is a region, each one another; of two structures in
\* one region one is part of the other or none reaches into the other; and none is
\* empty.
RegionInv ==
    /\ \A i \in Structures : Base(i) \in Bases
    /\ \A i \in Bases : \E k \in Reached : IsExtent(i, k)
    /\ \A i, j \in Bases : i # j =>
          \E k, m \in Reached : k # m /\ IsExtent(i, k) /\ IsExtent(j, m)
    /\ \A i, j \in Structures : i # j /\ Base(i) = Base(j) =>
          Under(i, j) \/ Under(j, i) \/ Apart(i, j)
    /\ \A i \in Structures : Solid(Planned[i])

HeaderLoop ==
    /\ loop.size = EHDR64_SIZE
    /\ loop.off = IF loop.n = 1 THEN 0
                  ELSE IF loop.n <= 1 + Len(EhdrTable) THEN EhdrTable[loop.n - 1][1]
                  ELSE EHDR64_SIZE

\* The loop is within its region, and nothing of the region lies ahead of it.
LoopInv ==
    loop.kind # "none" =>
        /\ loop.start \in Nat /\ loop.size \in Nat /\ loop.entry \in Nat
        /\ loop.n \in Nat \ {0}
        /\ loop.off \in 0 .. loop.size
        /\ loop.id \in Bases
        /\ Planned[loop.id].start = loop.start
        /\ SpanEnd(Planned[loop.id]) = loop.start + loop.size
        /\ \A i \in Structures : i # loop.id /\ Base(i) = loop.id =>
              SpanEnd(Planned[i]) <= loop.start + loop.off
        /\ loop.kind = "EHDR" => HeaderLoop
        /\ loop.kind = "NOTE" => Sections[sec].entries \in Seq(U64 \X U64)
        /\ loop.kind \notin {"EHDR", "STRTAB", "NOTE"} => loop.entry # 0

\* A turn stays in the region, whatever lengths the file states.
LEMMA TurnFits ==
    ASSUME elf \in Elfs, LoopInv, More
    PROVE  EntryLen \in Nat \ {0} /\ loop.off + EntryLen <= loop.size
  <1>1. /\ loop.kind # "none"
        /\ loop.start \in Nat /\ loop.size \in Nat /\ loop.entry \in Nat /\ loop.n \in Nat \ {0}
        /\ loop.off \in 0 .. loop.size
        /\ loop.kind = "EHDR" => HeaderLoop
        /\ loop.kind = "NOTE" => Sections[sec].entries \in Seq(U64 \X U64)
        /\ loop.kind \notin {"EHDR", "STRTAB", "NOTE"} => loop.entry # 0
    BY DEF LoopInv, More
  <1>2. CASE loop.kind = "EHDR"
    <2>1. loop.n <= 1 + Len(EhdrTable) /\ HeaderLoop
      BY <1>1, <1>2 DEF More
    <2>2. /\ EhdrTable \in Seq(Part) /\ EhdrTable # <<>> /\ Tiles(EhdrTable, TableEnd(IdentTable))
          /\ IdentTable \in Seq(Part) /\ IdentTable # <<>> /\ Tiles(IdentTable, 0)
      BY TablesAssumption DEF Part
    <2>3. TableEnd(IdentTable) \in Nat \ {0}
      BY <2>2, TableFacts
    <2>4. \A j \in 1 .. Len(EhdrTable) : /\ TableEnd(IdentTable) <= EhdrTable[j][1]
                                       /\ EhdrTable[j][1] + EhdrTable[j][2] <= EHDR64_SIZE
                                       /\ EhdrTable[j] \in Part
      <3>1. \A j \in 1 .. Len(EhdrTable) :
               /\ TableEnd(IdentTable) <= EhdrTable[j][1]
               /\ EhdrTable[j][1] + EhdrTable[j][2] <= TableEnd(EhdrTable)
        BY <2>2, <2>3, TableFacts
      <3>2. \A j \in 1 .. Len(EhdrTable) : EhdrTable[j] \in Part
        BY <2>2
      <3>3. QED
        BY <3>1, <3>2 DEF EHDR64_SIZE
    <2>5. EHDR64_SIZE \in Nat /\ Len(EhdrTable) \in Nat \ {0}
      BY <2>2, SizeFacts
    <2>6. CASE loop.n = 1
      <3>1. EntryLen = TableEnd(IdentTable) /\ loop.off = 0 /\ loop.size = EHDR64_SIZE
        BY <1>2, <2>1, <2>6 DEF EntryLen, HeaderLoop
      <3>2. TableEnd(IdentTable) <= EHDR64_SIZE
        <4>1. 1 \in 1 .. Len(EhdrTable)
          BY <2>5
        <4>2. PICK a \in Nat, b \in Nat \ {0} : a = EhdrTable[1][1] /\ b = EhdrTable[1][2]
          BY <2>4, <4>1 DEF Part
        <4>3. TableEnd(IdentTable) <= a /\ a + b <= EHDR64_SIZE
          BY <2>4, <4>1, <4>2
        <4>4. QED
          BY <2>3, <2>5, <4>2, <4>3
      <3>3. QED
        BY <2>3, <3>1, <3>2
    <2>7. CASE loop.n # 1
      <3>1. loop.n - 1 \in 1 .. Len(EhdrTable)
        BY <1>1, <2>1, <2>5, <2>7
      <3>2. EntryLen = EhdrTable[loop.n - 1][2] /\ loop.off = EhdrTable[loop.n - 1][1]
            /\ loop.size = EHDR64_SIZE
        BY <1>2, <2>1, <2>7 DEF EntryLen, HeaderLoop
      <3>3. QED
        BY <2>4, <3>1, <3>2 DEF Part
    <2>8. QED
      BY <2>6, <2>7
  <1>3. CASE loop.kind = "STRTAB"
    <2> DEFINE at == loop.start + loop.off
               left == loop.size - loop.off
    <2>1. at \in Nat /\ left \in Nat
      BY <1>1
    <2>2. EntryLen = StringLen(at, left)
      BY <1>3 DEF EntryLen
    <2>3. Text(at, left) \in Nat
      BY <2>1, TextFacts
    <2>4. EntryLen \in Nat \ {0} /\ EntryLen <= left
      <3>1. left # 0
        BY <1>1, <1>3 DEF More
      <3> HIDE DEF at, left
      <3>2. QED
        BY <2>1, <2>2, <2>3, <3>1 DEF StringLen
    <2>5. QED
      BY <1>1, <2>4
  <1>4. CASE loop.kind = "NOTE"
    <2>1. loop.off + EntryLen <= loop.size /\ EntryLen = NoteLen(Sections[sec], loop.n)
      BY <1>4 DEF More, EntryLen
    <2> DEFINE sizes == Entry(Sections[sec], loop.n, <<0, 0>>)
    <2>2. sizes[1] \in Nat /\ sizes[2] \in Nat
      <3>1. Sections[sec].entries \in Seq(U64 \X U64)
        BY <1>1, <1>4
      <3>2. loop.n \in DOMAIN Sections[sec].entries => Sections[sec].entries[loop.n] \in U64 \X U64
        BY <3>1
      <3>3. QED
        BY <3>2, SizeFacts DEF Entry
    <2>3. NoteHeader \in Nat \ {0}
      BY SizesAssumption
    <2>4. NoteLen(Sections[sec], loop.n) \in Nat \ {0}
      <3>1. NoteLen(Sections[sec], loop.n) = NoteHeader + AlignNote(sizes[1]) + AlignNote(sizes[2])
        BY DEF NoteLen
      <3> HIDE DEF sizes
      <3>2. AlignNote(sizes[1]) \in Nat /\ AlignNote(sizes[2]) \in Nat
        BY <2>2, AlignFacts
      <3>3. QED
        BY <2>3, <3>1, <3>2
    <2>5. QED
      BY <2>1, <2>4
  <1>5. CASE loop.kind \notin {"EHDR", "STRTAB", "NOTE"}
    <2>1. EntryLen = loop.entry /\ loop.entry # 0
      BY <1>1, <1>5 DEF EntryLen
    <2>2. loop.off + EntryLen <= loop.size
      BY <1>1, <1>5 DEF More
    <2>3. QED
      BY <1>1, <2>1, <2>2
  <1>6. QED
    BY <1>2, <1>3, <1>4, <1>5

\* A claim lies in its parent, and so in the claim of its region.
LEMMA UpFacts ==
    ASSUME claims \in Seq(Claim), queue \in Seq(Claim), PlacedInv
    PROVE  /\ \A i \in Places : /\ i \in Nat \ {0}
                               /\ Planned[i].start \in Nat /\ SpanEnd(Planned[i]) \in Nat
                               /\ Planned[i].start <= SpanEnd(Planned[i])
                               /\ Up(i) \in Places /\ Base(i) \in Places
                               /\ Planned[Up(i)].start <= Planned[i].start
                               /\ SpanEnd(Planned[i]) <= SpanEnd(Planned[Up(i)])
                               /\ Planned[Base(i)].start <= Planned[i].start
                               /\ SpanEnd(Planned[i]) <= SpanEnd(Planned[Base(i)])
           /\ \A i \in Bases : i \in Places /\ Up(i) = i /\ Base(i) = i
  <1>1. Places = 1 .. (Len(claims) + Len(queue)) /\ Len(claims) + Len(queue) \in Nat
    BY PlannedFacts
  <1>2. \A i \in Places : /\ i \in Nat \ {0}
                          /\ Planned[i].start \in Nat /\ SpanEnd(Planned[i]) \in Nat
                          /\ Planned[i].start <= SpanEnd(Planned[i])
                          /\ Planned[i].parent \in Nat
    <2>1. \A i \in Places : i \in Nat \ {0} /\ Planned[i] \in Claim
      BY <1>1 DEF PlacedInv, Fits
    <2>2. \A c \in Claim : c.start \in U64 /\ c.len \in U64 /\ c.parent \in Nat
      BY DEF Claim
    <2>3. \A i \in Places : Planned[i].start <= SpanEnd(Planned[i]) /\ SpanEnd(Planned[i]) \in U64
      BY <2>1, <2>2, SpanEndType DEF SpanEnd
    <2>4. QED
      BY <2>1, <2>2, <2>3, SizeFacts
  <1>3. \A i \in Places : /\ Up(i) \in Places
                          /\ Planned[Up(i)].start <= Planned[i].start
                          /\ SpanEnd(Planned[i]) <= SpanEnd(Planned[Up(i)])
    <2> TAKE i \in Places
    <2>1. CASE Planned[i].parent = None
      BY <1>2, <2>1 DEF Up
    <2>2. CASE Planned[i].parent # None
      <3>1. Planned[i].parent < i /\ ContainsSpan(Planned[Planned[i].parent], Planned[i])
        BY <2>2 DEF PlacedInv
      <3>2. Up(i) = Planned[i].parent
        BY <2>2 DEF Up
      <3>3. Up(i) \in Places
        BY <1>1, <1>2, <2>2, <3>1, <3>2 DEF None
      <3>4. QED
        BY <3>1, <3>2, <3>3 DEF ContainsSpan
    <2>3. QED
      BY <2>1, <2>2
  <1>4. \A i \in Places : /\ Base(i) \in Places
                          /\ Planned[Base(i)].start <= Planned[i].start
                          /\ SpanEnd(Planned[i]) <= SpanEnd(Planned[Base(i)])
    <2> TAKE i \in Places
    <2>1. Up(i) \in Places /\ Base(i) = Up(Up(i))
      BY <1>3 DEF Base
    <2> DEFINE u == Up(i)
               b == Up(u)
    <2>2. u \in Places /\ b \in Places /\ Base(i) = b
      BY <1>3, <2>1
    <2>3. /\ Planned[u].start <= Planned[i].start /\ SpanEnd(Planned[i]) <= SpanEnd(Planned[u])
          /\ Planned[b].start <= Planned[u].start /\ SpanEnd(Planned[u]) <= SpanEnd(Planned[b])
      BY <1>3, <2>2
    <2> HIDE DEF u, b
    <2>4. QED
      BY <1>2, <2>2, <2>3
  <1>5. \A i \in Bases : i \in Places /\ Up(i) = i /\ Base(i) = i
    BY DEF Bases, Structures, Up, Base
  <1>6. QED
    BY <1>2, <1>3, <1>4, <1>5

\* What was planned stays, and more may come after it.
Grown == Places \subseteq Places' /\ \A i \in Places : Planned'[i] = Planned[i]

\* What is said of claims that were planned before stays true when more are.
LEMMA GrownFacts ==
    ASSUME claims \in Seq(Claim), queue \in Seq(Claim), PlacedInv, Grown
    PROVE  /\ \A i \in Places : Up(i)' = Up(i) /\ Base(i)' = Base(i)
           /\ \A i, j \in Places : Under(i, j)' <=> Under(i, j)
           /\ \A i, j \in Places : Apart(i, j)' <=> Apart(i, j)
           /\ Structures = Structures' \cap Places /\ Bases = Bases' \cap Places
  <1>1. \A i \in Places : i \in Places' /\ Planned'[i] = Planned[i]
    BY DEF Grown
  <1>2. \A i \in Places : Up(i)' = Up(i)
    BY <1>1 DEF Up
  <1>3. \A i \in Places : Base(i)' = Base(i)
    <2> TAKE i \in Places
    <2>1. Up(i) \in Places
      BY UpFacts
    <2>2. QED
      BY <1>1, <2>1 DEF Base, Up
  <1>4. \A i, j \in Places : Under(i, j)' <=> Under(i, j)
    BY <1>2, <1>3 DEF Under
  <1>5. \A i, j \in Places : Apart(i, j)' <=> Apart(i, j)
    BY <1>1 DEF Apart, SpanEnd
  <1>6. Structures = Structures' \cap Places /\ Bases = Bases' \cap Places
    BY <1>1 DEF Structures, Bases
  <1>7. QED
    BY <1>2, <1>3, <1>4, <1>5, <1>6

\* The file does not change, so neither do the regions it sets out.
LEMMA SameRegions ==
    ASSUME UNCHANGED elf
    PROVE  /\ Sections' = Sections /\ TableRead' = TableRead
           /\ \A k : Region(k)' = Region(k)
  <1>1. Shnum' = Shnum /\ Phnum' = Phnum
    BY DEF Shnum, Phnum, ShnumOf, PhnumOf
  <1>2. Sections' = Sections /\ TableRead' = TableRead
    BY <1>1 DEF Sections, TableRead
  <1>3. \A k : Region(k)' = Region(k)
    BY <1>1, <1>2 DEF Region, HasBody, InFile
  <1>4. QED
    BY <1>2, <1>3

-----------------------------------------------------------------------------
(* A function is called: it plans the claim of a region that is new.       *)

\* The claim of a new region leaves the invariant as it was.
LEMMA RegionPlanned ==
    ASSUME claims \in Seq(Claim), queue = <<>>, PlacedInv, RegionInv, elf \in Elfs,
           UNCHANGED <<claims, elf>>,
           NEW start \in Nat, NEW len \in Nat \ {0}, start + len <= elf.len,
           queue' = <<At(start, len, None)>>,
           Reached \subseteq Reached',
           NEW k \in Reached', k \notin Reached, Region(k) = <<start, len>>,
           NEW m, m = NextId
    PROVE  /\ queue' \in Seq(Claim) /\ PlacedInv' /\ RegionInv'
           /\ (\A i \in Places : Planned[i].kind = "Structure")
                 => (\A i \in Places : Planned[i].kind = "Structure")'
           /\ m \in Bases'
           /\ Planned'[m].start = start /\ SpanEnd(Planned'[m]) = start + len
           /\ \A i \in Structures' : Base(i)' = m => i = m
  <1> DEFINE c == At(start, len, None)
  <1>1. /\ Fits(c) /\ c.start = start /\ SpanEnd(c) = start + len /\ c.parent = None
        /\ c.kind = "Structure" /\ c \in Claim /\ Solid(c)
    <2>1. elf.len \in U64 /\ None \in Nat
      BY CountFacts DEF None
    <2>2. QED
      BY <2>1, AtFacts DEF Fits
  <1>2. queue' \in Seq(Claim) /\ Len(queue') = 1 /\ queue'[1] = c /\ queue \in Seq(Claim)
    BY <1>1
  <1>3. /\ Places = 1 .. Len(claims) /\ Len(claims) \in Nat /\ m = Len(claims) + 1
        /\ Places' = Places \cup {m} /\ m \notin Places /\ Planned'[m] = c
        /\ \A i \in Places : Planned'[i] = Planned[i]
    <2>1. /\ Places = 1 .. Len(claims) /\ Places' = 1 .. (Len(claims) + 1)
          /\ \A i \in Places : Planned'[i] = Planned[i]
          /\ Planned'[Len(claims) + 1] = queue'[1]
      BY <1>2, PlannedGrows
    <2>2. QED
      BY <1>2, <2>1 DEF NextId
  <1>4. Grown
    BY <1>3 DEF Grown
  <1> HIDE DEF c
  <1>5. PlacedInv'
    <2> SUFFICES ASSUME NEW i \in Places'
                 PROVE  /\ Fits(Planned[i])'
                        /\ Planned'[i].parent # None =>
                              /\ Planned'[i].parent < i
                              /\ ContainsSpan(Planned'[Planned'[i].parent], Planned'[i])
      BY DEF PlacedInv
    <2>1. CASE i = m
      BY <1>1, <1>3, <2>1 DEF Fits
    <2>2. CASE i \in Places
      <3>1. Fits(Planned[i]) /\ Planned'[i] = Planned[i]
        BY <1>3, <2>2 DEF PlacedInv
      <3>2. Fits(Planned[i])'
        BY <3>1 DEF Fits
      <3>3. Planned[i].parent # None => Up(i) = Planned[i].parent /\ Up(i) \in Places
        BY <1>2, <2>2, UpFacts DEF Up
      <3>4. QED
        BY <1>3, <2>2, <3>1, <3>2, <3>3 DEF PlacedInv
    <2>3. QED
      BY <1>3, <2>1, <2>2
  <1>6. /\ \A i \in Places : /\ Up(i)' = Up(i) /\ Base(i)' = Base(i) /\ Base(i) \in Places
        /\ \A i, j \in Places : (Apart(i, j)' <=> Apart(i, j)) /\ (Under(i, j)' <=> Under(i, j))
        /\ Structures = Structures' \cap Places /\ Bases = Bases' \cap Places
    BY <1>2, <1>4, GrownFacts, UpFacts
  <1>7. m \in Bases' /\ Base(m)' = m /\ m \in Structures'
    <2>1. m \in Bases' /\ m \in Structures'
      BY <1>1, <1>3 DEF Bases, Structures
    <2>2. Base(m)' = m
      BY <1>1, <1>3 DEF Base, Up
    <2>3. QED
      BY <2>1, <2>2
  <1>8. \A i \in Structures' : i \in Structures \/ i = m
    BY <1>3, <1>6 DEF Structures
  <1>9. \A i \in Structures' : Base(i)' = m => i = m
    BY <1>3, <1>6, <1>8 DEF Structures
  <1>10. \A i \in Places : \A q : IsExtent(i, q)' <=> IsExtent(i, q)
    BY <1>3, SameRegions DEF IsExtent, SpanEnd
  <1>11. IsExtent(m, k)'
    BY <1>1, <1>3, SameRegions DEF IsExtent, SpanEnd
  <1>12. \A i \in Bases' : i = m \/ i \in Bases
    BY <1>3, <1>6, <1>8 DEF Bases, Structures
  <1>13. RegionInv'
    <2>1. \A i \in Structures' : Base(i)' \in Bases'
      <3> TAKE i \in Structures'
      <3>1. i \in Structures => Base(i)' \in Bases'
        BY <1>6 DEF RegionInv, Structures
      <3>2. QED
        BY <1>7, <1>8, <3>1
    <2>2. \A i \in Bases' : \E q \in Reached' : IsExtent(i, q)'
      <3> TAKE i \in Bases'
      <3>1. CASE i \in Bases
        BY <1>10, <3>1 DEF RegionInv, Bases, Structures
      <3>2. QED
        BY <1>11, <1>12, <3>1
    <2>3. \A i, j \in Bases' : i # j =>
             \E q, r \in Reached' : q # r /\ IsExtent(i, q)' /\ IsExtent(j, r)'
      <3> SUFFICES ASSUME NEW i \in Bases', NEW j \in Bases', i # j
                   PROVE  \E q, r \in Reached' : q # r /\ IsExtent(i, q)' /\ IsExtent(j, r)'
        OBVIOUS
      <3>1. \A b \in Bases : b \in Places /\ \E q \in Reached' : q # k /\ IsExtent(b, q)'
        <4> TAKE b \in Bases
        <4>1. b \in Places
          BY DEF Bases, Structures
        <4>2. PICK q \in Reached : IsExtent(b, q)
          BY DEF RegionInv
        <4>3. q \in Reached' /\ q # k /\ IsExtent(b, q)'
          BY <1>10, <4>1, <4>2
        <4>4. QED
          BY <4>1, <4>3
      <3>2. CASE i \in Bases /\ j \in Bases
        <4>1. PICK q \in Reached, r \in Reached : q # r /\ IsExtent(i, q) /\ IsExtent(j, r)
          BY <3>2 DEF RegionInv
        <4>2. QED
          BY <1>10, <3>1, <3>2, <4>1
      <3>3. CASE i = m /\ j \in Bases
        BY <1>11, <3>1, <3>3
      <3>4. CASE i \in Bases /\ j = m
        BY <1>11, <3>1, <3>4
      <3>5. QED
        BY <1>12, <3>2, <3>3, <3>4
    <2>4. \A i, j \in Structures' : i # j /\ Base(i)' = Base(j)' =>
             Under(i, j)' \/ Under(j, i)' \/ Apart(i, j)'
      <3> SUFFICES ASSUME NEW i \in Structures', NEW j \in Structures', i # j, Base(i)' = Base(j)'
                   PROVE  Under(i, j)' \/ Under(j, i)' \/ Apart(i, j)'
        OBVIOUS
      <3>1. i \in Structures /\ j \in Structures
        BY <1>7, <1>8, <1>9
      <3>2. i \in Places /\ j \in Places
        BY <3>1 DEF Structures
      <3>3. Under(i, j) \/ Under(j, i) \/ Apart(i, j)
        BY <1>6, <3>1, <3>2 DEF RegionInv
      <3>4. QED
        BY <1>6, <3>2, <3>3
    <2>5. \A i \in Structures' : Solid(Planned[i])'
      <3> TAKE i \in Structures'
      <3>1. CASE i \in Structures
        BY <1>3, <3>1 DEF RegionInv, Structures, Solid, SpanEnd
      <3>2. CASE i = m
        BY <1>1, <1>3, <3>2 DEF Solid
      <3>3. QED
        BY <1>8, <3>1, <3>2
    <2>6. QED
      BY <2>1, <2>2, <2>3, <2>4, <2>5 DEF RegionInv
  <1>14. QED
    BY <1>1, <1>2, <1>3, <1>5, <1>7, <1>9, <1>13

-----------------------------------------------------------------------------
(* A turn of a loop: it plans an entry behind those before it, and its      *)
(* fields, one behind the other.                                            *)

\* The fields of an entry, one behind the other from its start.
LEMMA PartsFacts ==
    ASSUME NEW at \in Nat, NEW e \in Nat, NEW m \in Nat
    PROVE  \E t \in Seq(Part) :
              LET f == Fields(EntryFields, at, e, m)
              IN  /\ Len(f) \in Nat
                  /\ \A k \in 1 .. Len(f) : f[k] = FieldClaim(t, k, at, m)
                  /\ \A k \in 1 .. Len(f) : HasRoom(t, k, e)
                  /\ \A j, k \in 1 .. Len(f) : j < k => Precedes(t, j, k)
                  /\ (\A k \in 1 .. Len(f) : f[k] \in Claim) => f \in Seq(Claim)
  <1>1. PICK t \in Seq(Part) : t = EntryFields /\ (t = <<>> \/ Tiles(t, 0))
    <2>1. /\ IdentTable \in Seq(Part) /\ PhdrTable \in Seq(Part)
          /\ ShdrTable \in Seq(Part)
          /\ Tiles(IdentTable, 0) /\ Tiles(PhdrTable, 0) /\ Tiles(ShdrTable, 0)
      BY TablesAssumption DEF Part
    <2>2. EntryFields \in {IdentTable, PhdrTable, ShdrTable, <<>>}
      BY DEF EntryFields
    <2>3. <<>> \in Seq(Part)
      OBVIOUS
    <2>4. EntryFields \in Seq(Part) /\ (EntryFields = <<>> \/ Tiles(EntryFields, 0))
      BY <2>1, <2>2, <2>3
    <2>5. QED
      BY <2>4
  <1>2. t \in Seq(Part) /\ (t = <<>> \/ Tiles(t, 0))
    BY <1>1
  <1>3. QED
    BY <1>1, <1>2, FieldsFacts

\* A sequence put together from its first element and the rest.
LEMMA FirstAndRest ==
    ASSUME NEW S, NEW c \in S, NEW q \in Seq(S), NEW all, all = <<c>> \o q
    PROVE  /\ all \in Seq(S) /\ Len(all) = 1 + Len(q) /\ all[1] = c
           /\ \A k \in 1 .. Len(q) : all[1 + k] = q[k]
  OBVIOUS

\* A turn in numbers: the entry is m, of e bytes from at, and the n fields that
\* fit are m + 1 to m + n, as the table t places them.
Turn(t, n, m, id, at, e) ==
    /\ queue' \in Seq(Claim)
    /\ Places' = Places \cup (m .. (m + n)) /\ Places = 1 .. (m - 1) /\ id \in Nat \ {0}
    /\ at + e <= elf.len
    /\ \A i \in Places : Planned'[i] = Planned[i]
    /\ Planned'[m] = At(at, e, id)
    /\ \A k \in 1 .. n : Planned'[m + k] = FieldClaim(t, k, at, m)
    /\ \A k \in 1 .. n : HasRoom(t, k, e)
    /\ \A j, k \in 1 .. n : j < k => Precedes(t, j, k)

\* Every turn of a loop plans an entry and the fields it has room for.
LEMMA TurnFacts ==
    ASSUME claims \in Seq(Claim), queue = <<>>, PlacedInv, elf \in Elfs, UNCHANGED <<claims, elf>>,
           NEW m \in Nat, Len(claims) = m - 1,
           NEW id \in Places, NEW at \in Nat, NEW e \in Nat,
           Planned[id].start <= at, at + e <= SpanEnd(Planned[id]),
           queue' = <<At(at, e, id)>> \o Fields(EntryFields, at, e, m)
    PROVE  \E t \in Seq(Part), n \in Nat : Turn(t, n, m, id, at, e)
  <1>4. Fits(Planned[id])
    BY DEF PlacedInv
  <1>5. elf.len \in U64 /\ elf.len \in Nat
    BY CountFacts, SizeFacts
  <1>6. at + e <= elf.len
    <2>1. SpanEnd(Planned[id]) <= elf.len /\ SpanEnd(Planned[id]) \in Nat
      BY <1>4, UpFacts, <1>5 DEF Fits
    <2>2. QED
      BY <1>5, <2>1
  <1>7. Len(claims) \in Nat /\ m = Len(claims) + 1 /\ queue \in Seq(Claim)
    OBVIOUS
  <1>8. Places = 1 .. Len(claims) /\ id \in Nat \ {0}
    BY <1>7, PlannedFacts
  <1>9. PICK fields : fields = Fields(EntryFields, at, e, m)
    OBVIOUS
  <1> DEFINE n == Len(fields)
  <1>10. PICK t \in Seq(Part) :
            /\ n \in Nat
            /\ \A k \in 1 .. n : fields[k] = FieldClaim(t, k, at, m)
            /\ \A k \in 1 .. n : HasRoom(t, k, e)
            /\ \A j, k \in 1 .. n : j < k => Precedes(t, j, k)
            /\ (\A k \in 1 .. n : fields[k] \in Claim) => fields \in Seq(Claim)
    BY <1>9, PartsFacts
  <1>11. \A k \in 1 .. n : HasRoom(t, k, e)
    BY <1>10
  <1>12. \A j, k \in 1 .. n : j < k => Precedes(t, j, k)
    BY <1>10
  <1>13. \A k \in 1 .. n : fields[k] = FieldClaim(t, k, at, m)
    BY <1>10
  <1>14. (\A k \in 1 .. n : fields[k] \in Claim) => fields \in Seq(Claim)
    BY <1>10
  <1>15. queue' = <<At(at, e, id)>> \o fields
    BY <1>9
  <1> HIDE DEF n
  <1>16. fields \in Seq(Claim) /\ Len(fields) = n
    <2>1. \A k \in 1 .. n : FieldClaim(t, k, at, m) \in Claim
      <3> TAKE k \in 1 .. n
      <3>1. t[k][1] \in Nat /\ t[k][2] \in Nat /\ t[k][1] + t[k][2] <= e
        BY <1>11 DEF HasRoom, Part
      <3>2. at + t[k][1] \in Nat /\ at + t[k][1] + t[k][2] <= elf.len
        <4>1. \A a, b, x, y, l \in Nat : a + b <= l /\ x + y <= b =>
                 a + x \in Nat /\ a + x + y <= l
          OBVIOUS
        <4> DEFINE x == t[k][1]
                   y == t[k][2]
        <4>2. x \in Nat /\ y \in Nat /\ x + y <= e
          BY <3>1
        <4> HIDE DEF x, y
        <4>3. at + x \in Nat /\ at + x + y <= elf.len
          BY <1>5, <1>6, <4>1, <4>2
        <4>4. QED
          BY <4>3 DEF x, y
      <3>3. Fits(At(at + t[k][1], t[k][2], m))
        BY <1>5, <3>1, <3>2, AtFacts, Zenon
      <3>4. QED
        BY <3>3 DEF Fits, FieldClaim
    <2>2. QED
      BY <1>13, <1>14, <2>1 DEF n
  <1>17. /\ queue' \in Seq(Claim) /\ Len(queue') = 1 + n
         /\ queue'[1] = At(at, e, id)
         /\ \A k \in 1 .. n : queue'[1 + k] = fields[k]
    <2>1. At(at, e, id) \in Claim
      BY <1>5, <1>6, <1>8, AtFacts DEF Fits
    <2> DEFINE c == At(at, e, id)
    <2> HIDE DEF c
    <2>2. c \in Claim /\ queue' = <<c>> \o fields
      BY <1>15, <2>1 DEF c
    <2>3. PICK q : q = queue'
      OBVIOUS
    <2>4. fields \in Seq(Claim) /\ q = <<c>> \o fields
      BY <1>16, <2>2, <2>3
    <2>5. /\ q \in Seq(Claim) /\ Len(q) = 1 + Len(fields) /\ q[1] = c
          /\ \A k \in 1 .. Len(fields) : q[1 + k] = fields[k]
      BY SMTT(30), <2>2, <2>4, FirstAndRest
    <2>6. QED
      BY <1>16, <2>3, <2>5 DEF c
  <1>18. /\ Places' = 1 .. (Len(claims) + Len(queue'))
         /\ \A i \in Places : Planned'[i] = Planned[i]
         /\ \A k \in 1 .. Len(queue') : Planned'[Len(claims) + k] = queue'[k]
    BY <1>7, <1>17, PlannedGrows
  <1>19. Places' = Places \cup (m .. (m + n)) /\ Places = 1 .. (m - 1)
    BY SMTT(30), <1>7, <1>8, <1>10, <1>17, <1>18
  <1>20. Planned'[m] = At(at, e, id)
    <2>1. 1 \in 1 .. Len(queue')
      BY <1>10, <1>17
    <2>2. QED
      BY <1>7, <1>17, <1>18, <2>1
  <1>21. \A k \in 1 .. n : Planned'[m + k] = FieldClaim(t, k, at, m)
    <2> TAKE k \in 1 .. n
    <2>1. 1 + k \in 1 .. Len(queue') /\ Len(claims) + (1 + k) = m + k
      BY <1>7, <1>10, <1>17
    <2>2. Planned'[Len(claims) + (1 + k)] = queue'[1 + k]
      BY <1>18, <2>1
    <2>3. queue'[1 + k] = fields[k]
      BY <1>17
    <2>4. QED
      BY <1>13, <2>1, <2>2, <2>3
  <1>22. n \in Nat
    BY <1>10
  <1>23. Turn(t, n, m, id, at, e)
    BY <1>6, <1>8, <1>11, <1>12, <1>17, <1>18, <1>19, <1>20, <1>21 DEF Turn
  <1>24. QED
    BY <1>22, <1>23

\* An entry behind all others of its region, with its fields, keeps the invariant.
LEMMA TurnPlanned ==
    ASSUME claims \in Seq(Claim), queue = <<>>, PlacedInv, RegionInv, elf \in Elfs,
           UNCHANGED <<claims, elf>>, Reached' = Reached,
           NEW m \in Nat, Len(claims) = m - 1,
           NEW id \in Bases, NEW at \in Nat, NEW e \in Nat \ {0},
           Planned[id].start <= at, at + e <= SpanEnd(Planned[id]),
           \A i \in Structures : i # id /\ Base(i) = id => SpanEnd(Planned[i]) <= at,
           queue' = <<At(at, e, id)>> \o Fields(EntryFields, at, e, m)
    PROVE  /\ queue' \in Seq(Claim) /\ PlacedInv' /\ RegionInv'
           /\ (\A i \in Places : Planned[i].kind = "Structure")
                 => (\A i \in Places : Planned[i].kind = "Structure")'
           /\ id \in Bases' /\ Planned'[id] = Planned[id]
           /\ \A i \in Structures' : i # id /\ Base(i)' = id => SpanEnd(Planned'[i]) <= at + e
  <1>1. id \in Places /\ id \in Structures /\ Planned[id].parent = None
    BY DEF Bases, Structures
  <1>2. PICK t \in Seq(Part), n \in Nat : Turn(t, n, m, id, at, e)
    BY <1>1, TurnFacts
  <1>3. /\ queue' \in Seq(Claim)
        /\ Places' = Places \cup (m .. (m + n)) /\ Places = 1 .. (m - 1) /\ id \in Nat \ {0}
        /\ at + e <= elf.len
        /\ \A i \in Places : Planned'[i] = Planned[i]
        /\ Planned'[m] = At(at, e, id)
        /\ \A k \in 1 .. n : Planned'[m + k] = FieldClaim(t, k, at, m)
        /\ \A k \in 1 .. n : HasRoom(t, k, e)
        /\ \A j, k \in 1 .. n : j < k => Precedes(t, j, k)
    BY <1>2 DEF Turn
  <1>4. elf.len \in U64 /\ elf.len \in Nat /\ queue \in Seq(Claim)
    <2>1. queue \in Seq(Claim)
      OBVIOUS
    <2>2. QED
      BY <2>1, CountFacts, SizeFacts
  <1>5. Grown
    BY <1>3 DEF Grown
  <1>6. /\ \A i \in Places : /\ Up(i)' = Up(i) /\ Base(i)' = Base(i) /\ Base(i) \in Places
        /\ \A i, j \in Places : (Apart(i, j)' <=> Apart(i, j)) /\ (Under(i, j)' <=> Under(i, j))
        /\ Structures = Structures' \cap Places /\ Bases = Bases' \cap Places
    BY <1>4, <1>5, GrownFacts, UpFacts
  <1> DEFINE Field(i) == i \in (m + 1) .. (m + n)
  <1>7. \A i \in Places' : i \in Places \/ i = m \/ Field(i)
    BY SMTT(30), <1>3
  \* The entry.
  <1>8. /\ m \in Places' /\ m \notin Places
        /\ Fits(Planned'[m]) /\ Planned'[m].start = at /\ SpanEnd(Planned'[m]) = at + e
        /\ Planned'[m].parent = id /\ Planned'[m].kind = "Structure" /\ Planned'[m].file = F
        /\ Solid(Planned'[m])
    <2>1. m \in Places' /\ m \notin Places
      BY <1>3
    <2>2. at + e <= elf.len /\ id \in Nat
      BY <1>3
    <2>3. MadeAt(At(at, e, id), at, e, id)
      BY <1>4, <2>2, SolidAtFacts, Zenon
    <2>4. Planned'[m] = At(at, e, id)
      BY <1>3
    <2>5. QED
      BY <2>1, <2>3, <2>4 DEF MadeAt
  \* Its fields.
  <1>9. \A i \in Places' : Field(i) =>
           /\ i - m \in 1 .. n
           /\ Planned'[i] = FieldClaim(t, i - m, at, m) /\ HasRoom(t, i - m, e)
    <2> TAKE i \in Places'
    <2> HAVE Field(i)
    <2>1. i - m \in 1 .. n /\ m + (i - m) = i
      OBVIOUS
    <2>2. Planned'[m + (i - m)] = FieldClaim(t, i - m, at, m) /\ HasRoom(t, i - m, e)
      BY <1>3, <2>1
    <2>3. QED
      BY <2>1, <2>2
  <1>10. \A k \in 1 .. n :
           LET c == FieldClaim(t, k, at, m)
           IN  /\ Fits(c) /\ c.start = at + t[k][1] /\ SpanEnd(c) = at + t[k][1] + t[k][2]
               /\ c.parent = m /\ c.kind = "Structure" /\ c.file = F
               /\ t[k][1] \in Nat /\ t[k][2] \in Nat /\ SpanEnd(c) <= at + e /\ at <= c.start
               /\ Solid(c)
    <2> TAKE k \in 1 .. n
    <2>1. t[k][1] \in Nat /\ t[k][2] \in Nat \ {0} /\ t[k][1] + t[k][2] <= e
      BY <1>3 DEF HasRoom, Part
    <2> DEFINE x == t[k][1]
               y == t[k][2]
    <2>2. x \in Nat /\ y \in Nat \ {0} /\ x + y <= e
      BY <2>1
    <2> HIDE DEF x, y
    <2>3. at + x \in Nat /\ at + x + y <= elf.len /\ at + x + y <= at + e /\ at <= at + x
      <3>1. at + e <= elf.len /\ elf.len \in Nat
        BY <1>3, <1>4
      <3>2. \A l \in Nat : at + e <= l =>
               at + x \in Nat /\ at + x + y <= l /\ at + x + y <= at + e /\ at <= at + x
        BY <2>2
      <3>3. QED
        BY <3>1, <3>2
    <2>4. PICK b \in Nat : b = at + x
      BY <2>3
    <2>5. b + y <= elf.len
      BY <2>3, <2>4
    <2>6. MadeAt(At(b, y, m), b, y, m)
      BY <1>4, <2>2, <2>5, SolidAtFacts, Zenon
    <2>7. FieldClaim(t, k, at, m) = At(b, y, m)
      BY <2>4 DEF FieldClaim, x, y
    <2>8. QED
      BY <2>1, <2>3, <2>4, <2>6, <2>7 DEF x, y, MadeAt
  <1>11. \A i \in Places' : Field(i) =>
            /\ i \notin Places /\ Fits(Planned'[i]) /\ Planned'[i].parent = m /\ m < i
            /\ Planned'[i].kind = "Structure" /\ Planned'[i].file = F
            /\ at <= Planned'[i].start /\ SpanEnd(Planned'[i]) <= at + e
            /\ Solid(Planned'[i])
    <2> TAKE i \in Places'
    <2> HAVE Field(i)
    <2>1. i \notin Places /\ m < i
      BY <1>3
    <2>2. i - m \in 1 .. n /\ Planned'[i] = FieldClaim(t, i - m, at, m)
      BY <1>9
    <2> HIDE DEF Field
    <2>3. QED
      BY <1>10, <2>1, <2>2
  <1> HIDE DEF Field
  <1>12. PlacedInv'
    <2> SUFFICES ASSUME NEW i \in Places'
                 PROVE  /\ Fits(Planned[i])'
                        /\ Planned'[i].parent # None =>
                              /\ Planned'[i].parent < i
                              /\ ContainsSpan(Planned'[Planned'[i].parent], Planned'[i])
      BY DEF PlacedInv
    <2>1. CASE i = m
      <3>1. Fits(Planned[i])'
        BY <1>8, <2>1 DEF Fits
      <3>2. id < m /\ Planned'[id] = Planned[id] /\ Planned[id].file = F
        BY <1>1, <1>3 DEF PlacedInv, Fits
      <3>3. ContainsSpan(Planned'[id], Planned'[m])
        BY <1>8, <3>2 DEF ContainsSpan
      <3>4. QED
        BY <1>8, <2>1, <3>1, <3>2, <3>3
    <2>2. CASE Field(i)
      <3>1. Fits(Planned[i])'
        BY <1>11, <2>2 DEF Fits
      <3>2. ContainsSpan(Planned'[m], Planned'[i])
        BY <1>8, <1>11, <2>2 DEF ContainsSpan
      <3>3. QED
        BY <1>11, <2>2, <3>1, <3>2
    <2>3. CASE i \in Places
      <3>1. Fits(Planned[i]) /\ Planned'[i] = Planned[i]
        BY <1>3, <2>3 DEF PlacedInv
      <3>2. Fits(Planned[i])'
        BY <3>1 DEF Fits
      <3>3. Planned[i].parent # None => Up(i) = Planned[i].parent /\ Up(i) \in Places
        BY <1>4, <2>3, UpFacts DEF Up
      <3>4. QED
        BY <1>3, <2>3, <3>1, <3>2, <3>3 DEF PlacedInv
    <2>4. QED
      BY <1>7, <2>1, <2>2, <2>3
  <1>13. id \in Bases' /\ Planned'[id] = Planned[id] /\ Base(id) = id
    BY <1>1, <1>3, <1>6 DEF Base, Up
  <1>14. m \in Structures' /\ \A i \in Places' : Field(i) => i \in Structures'
    BY <1>8, <1>11 DEF Structures
  <1>15. id # None /\ m # None
    BY <1>3 DEF None
  <1>16. m \notin Bases' /\ \A i \in Places' : Field(i) => i \notin Bases'
    BY <1>8, <1>11, <1>15 DEF Bases
  <1>17. Base(id)' = id
    BY <1>1, <1>6, <1>13
  <1>18. \A i \in Places' : (i = m => Base(i)' = id) /\ (Field(i) => Base(i)' = id)
    <2> TAKE i \in Places'
    <2>1. ASSUME i = m PROVE Base(i)' = id
      BY <1>1, <1>8, <1>13, <1>15, <2>1 DEF Base, Up
    <2>2. ASSUME Field(i) PROVE Base(i)' = id
      BY <1>8, <1>11, <1>15, <2>2 DEF Base, Up
    <2>3. QED
      BY <2>1, <2>2
  <1>19. \A i \in Structures' : i \in Places' /\ (i \in Structures \/ i = m \/ Field(i))
    BY <1>6, <1>7 DEF Structures
  <1>20. \A i \in Structures' : i # id /\ Base(i)' = id => SpanEnd(Planned'[i]) <= at + e
    <2> TAKE i \in Structures'
    <2> HAVE i # id /\ Base(i)' = id
    <2>1. CASE i = m
      BY <1>8, <2>1
    <2>2. CASE Field(i)
      BY <1>11, <1>19, <2>2
    <2>3. CASE i \in Structures
      <3>1. i \in Places /\ Base(i) = id /\ Planned'[i] = Planned[i] /\ SpanEnd(Planned[i]) \in Nat
        BY <1>3, <1>4, <1>6, <2>3, UpFacts DEF Structures
      <3>2. SpanEnd(Planned[i]) <= at
        BY <2>3, <3>1
      <3>3. QED
        BY <3>1, <3>2
    <2>4. QED
      BY <1>19, <2>1, <2>2, <2>3
  <1>21. \A i \in Places : \A q : IsExtent(i, q)' <=> IsExtent(i, q)
    BY <1>3, SameRegions DEF IsExtent, SpanEnd
  <1>22. \A i \in Bases' : i \in Bases
    BY <1>6, <1>16, <1>19 DEF Bases, Structures
  <1>23. RegionInv'
    <2>1. \A i \in Structures' : Base(i)' \in Bases'
      <3> TAKE i \in Structures'
      <3>1. i \in Structures => Base(i)' \in Bases'
        BY <1>6 DEF RegionInv, Structures
      <3>2. QED
        BY <1>13, <1>18, <1>19, <3>1
    <2>2. \A i \in Bases' : \E q \in Reached' : IsExtent(i, q)'
      BY <1>21, <1>22 DEF RegionInv, Bases, Structures
    <2>3. \A i, j \in Bases' : i # j =>
             \E q, r \in Reached' : q # r /\ IsExtent(i, q)' /\ IsExtent(j, r)'
      <3> SUFFICES ASSUME NEW i \in Bases', NEW j \in Bases', i # j
                   PROVE  \E q, r \in Reached' : q # r /\ IsExtent(i, q)' /\ IsExtent(j, r)'
        OBVIOUS
      <3>1. i \in Bases /\ j \in Bases /\ i \in Places /\ j \in Places
        BY <1>22 DEF Bases, Structures
      <3>2. PICK q \in Reached, r \in Reached : q # r /\ IsExtent(i, q) /\ IsExtent(j, r)
        BY <3>1 DEF RegionInv
      <3>3. QED
        BY <1>21, <3>1, <3>2
    <2>4. \A i, j \in Structures' : i # j /\ Base(i)' = Base(j)' =>
             Under(i, j)' \/ Under(j, i)' \/ Apart(i, j)'
      <3> SUFFICES ASSUME NEW i \in Structures', NEW j \in Structures', i # j, Base(i)' = Base(j)'
                   PROVE  Under(i, j)' \/ Under(j, i)' \/ Apart(i, j)'
        OBVIOUS
      <3>1. CASE i \in Structures /\ j \in Structures
        <4>1. i \in Places /\ j \in Places
          BY <3>1 DEF Structures
        <4>2. Under(i, j) \/ Under(j, i) \/ Apart(i, j)
          BY <1>6, <3>1, <4>1 DEF RegionInv
        <4>3. QED
          BY <1>6, <4>1, <4>2
      <3>2. ASSUME NEW x \in Structures', NEW y \in Structures', x \in Structures,
                   y = m \/ Field(y), Base(x)' = Base(y)'
            PROVE  Under(y, x)' \/ SpanEnd(Planned'[x]) <= Planned'[y].start
        <4>1. Base(x)' = id /\ Base(x) = id /\ x \in Places
          BY <1>6, <1>18, <1>19, <3>2 DEF Structures
        <4>2. CASE x = id
          BY <1>17, <3>2, <4>2 DEF Under
        <4>3. CASE x # id
          <5>1. SpanEnd(Planned[x]) <= at /\ Planned'[x] = Planned[x] /\ SpanEnd(Planned[x]) \in Nat
            BY <1>3, <1>4, <3>2, <4>1, <4>3, UpFacts
          <5>2. at <= Planned'[y].start /\ Planned'[y] \in Claim
            <6>1. y \in Places'
              BY <1>19, <3>2
            <6>2. Fits(Planned'[y]) /\ at <= Planned'[y].start
              BY <1>8, <1>11, <3>2, <6>1
            <6>3. QED
              BY <6>2 DEF Fits
          <5>3. Planned'[y].start \in Nat
            BY <5>2, SizeFacts DEF Claim
          <5>4. QED
            BY <5>1, <5>2, <5>3
        <4>4. QED
          BY <4>2, <4>3
      <3>3. \A y \in Places' : Field(y) => Under(y, m)'
        BY <1>11, <1>15 DEF Under, Up
      <3>4. ASSUME NEW x \in Places', NEW y \in Places', Field(x), Field(y), x < y
            PROVE  SpanEnd(Planned'[x]) <= Planned'[y].start
        <4>1. /\ x - m \in 1 .. n /\ Planned'[x] = FieldClaim(t, x - m, at, m)
              /\ y - m \in 1 .. n /\ Planned'[y] = FieldClaim(t, y - m, at, m)
          BY <1>9, <3>4
        <4>2. PICK j1 \in 1 .. n, k1 \in 1 .. n : j1 = x - m /\ k1 = y - m
          BY <4>1
        <4>3. j1 < k1
          BY <1>3, <3>4, <4>2
        <4>4. Precedes(t, j1, k1)
          BY <1>3, <4>3
        <4>5. t[j1][1] \in Nat /\ t[j1][2] \in Nat /\ t[k1][1] \in Nat
          BY <1>10
        <4>6. SpanEnd(FieldClaim(t, j1, at, m)) = at + t[j1][1] + t[j1][2]
              /\ FieldClaim(t, k1, at, m).start = at + t[k1][1]
          BY <1>10
        <4>7. PICK b \in Nat, c \in Nat, d \in Nat : b = t[j1][1] /\ c = t[j1][2] /\ d = t[k1][1]
          BY <4>5
        <4>8. at + t[j1][1] + t[j1][2] <= at + t[k1][1]
          <5>1. b + c <= d
            BY <4>4, <4>7 DEF Precedes
          <5>2. at + b + c <= at + d
            BY <5>1
          <5>3. QED
            BY <4>7, <5>2
        <4>9. QED
          BY <4>1, <4>2, <4>6, <4>8
      <3>5. CASE i \in Structures /\ j \notin Structures
        BY <1>19, <3>2, <3>5 DEF Apart
      <3>6. CASE i \notin Structures /\ j \in Structures
        BY <1>19, <3>2, <3>6 DEF Apart
      <3>7. CASE i \notin Structures /\ j \notin Structures
        <4>1. i \in Places' /\ j \in Places' /\ (i = m \/ Field(i)) /\ (j = m \/ Field(j))
          BY <1>19, <3>7
        <4>2. CASE i = m \/ j = m
          <5>1. i # m \/ j # m
            OBVIOUS
          <5>2. QED
            BY <3>3, <4>1, <4>2, <5>1
        <4>3. CASE Field(i) /\ Field(j)
          <5>1. i < j \/ j < i
            BY <1>3, <4>3 DEF Field
          <5>2. QED
            BY <3>4, <4>1, <4>3, <5>1 DEF Apart
        <4>4. QED
          BY <4>1, <4>2, <4>3
      <3>8. QED
        BY <3>1, <3>5, <3>6, <3>7
    <2>5. \A i \in Structures' : Solid(Planned[i])'
      <3> TAKE i \in Structures'
      <3>1. CASE i \in Structures
        BY <1>3, <3>1 DEF RegionInv, Structures, Solid, SpanEnd
      <3>2. CASE i \notin Structures
        BY <1>8, <1>11, <1>19, <3>2 DEF Solid
      <3>3. QED
        BY <3>1, <3>2
    <2>6. QED
      BY <2>1, <2>2, <2>3, <2>4, <2>5 DEF RegionInv
  <1>24. (\A i \in Places : Planned[i].kind = "Structure")
            => (\A i \in Places : Planned[i].kind = "Structure")'
    BY <1>3, <1>7, <1>8, <1>11
  <1>25. QED
    BY <1>3, <1>12, <1>13, <1>20, <1>23, <1>24

-----------------------------------------------------------------------------
(* The steps of parse keep the plan.                                       *)

PlanInv == queue \in Seq(Claim) /\ PlacedInv /\ RegionInv /\ LoopInv

\* While nothing is planned, at most a loop ends.
LEMMA SamePlan ==
    ASSUME PlanInv, queue' \in Seq(Claim), Planned' = Planned, UNCHANGED elf,
           Reached \subseteq Reached',
           loop'.kind = "none" \/ UNCHANGED <<loop, sec>>
    PROVE  PlanInv'
  <1>1. /\ Places' = Places /\ Structures' = Structures /\ Bases' = Bases
        /\ \A i : /\ Up(i)' = Up(i) /\ Base(i)' = Base(i)
                  /\ \A j : Apart(i, j)' = Apart(i, j) /\ Under(i, j)' = Under(i, j)
                  /\ \A k : IsExtent(i, k)' = IsExtent(i, k)
    BY SameRegions DEF Places, Structures, Bases, Up, Base, Under, Apart, IsExtent
  <1>2. PlacedInv'
    BY <1>1 DEF PlanInv, PlacedInv, Fits
  <1>3. RegionInv'
    <2>1. \A i \in Bases : \E k \in Reached' : IsExtent(i, k)
      BY DEF PlanInv, RegionInv
    <2>2. \A i, j \in Bases : i # j => \E k, m \in Reached' : k # m /\ IsExtent(i, k) /\ IsExtent(j, m)
      <3> SUFFICES ASSUME NEW i \in Bases, NEW j \in Bases, i # j
                   PROVE  \E k, m \in Reached' : k # m /\ IsExtent(i, k) /\ IsExtent(j, m)
        OBVIOUS
      <3>1. PICK k \in Reached, m \in Reached : k # m /\ IsExtent(i, k) /\ IsExtent(j, m)
        BY DEF PlanInv, RegionInv
      <3>2. QED
        BY <3>1
    <2>3. /\ \A i \in Structures : Base(i) \in Bases
          /\ \A i, j \in Structures : i # j /\ Base(i) = Base(j) =>
                Under(i, j) \/ Under(j, i) \/ Apart(i, j)
          /\ \A i \in Structures : Solid(Planned[i])
      BY DEF PlanInv, RegionInv
    <2>4. QED
      BY <1>1, <2>1, <2>2, <2>3 DEF RegionInv, Solid
  <1>4. LoopInv'
    <2>1. CASE loop'.kind = "none"
      BY <2>1 DEF LoopInv
    <2>2. CASE UNCHANGED <<loop, sec>>
      <3>1. Sections' = Sections /\ HeaderLoop' = HeaderLoop
        BY <2>2, SameRegions DEF HeaderLoop
      <3>2. QED
        BY <1>1, <2>2, <3>1 DEF PlanInv, LoopInv
    <2>3. QED
      BY <2>1, <2>2
  <1>5. QED
    BY <1>2, <1>3, <1>4 DEF PlanInv

\* A loop that has just begun.
LEMMA LoopFields ==
    ASSUME NEW kind, NEW id, NEW start, NEW size, NEW entry
    PROVE  LET l == Loop(kind, id, start, size, entry)
           IN  /\ l.kind = kind /\ l.id = id /\ l.start = start /\ l.size = size
               /\ l.entry = entry /\ l.off = 0 /\ l.n = 1
  BY DEF Loop, NoLoop

AllStructures == \A i \in Places : Planned[i].kind = "Structure"

\* A function is called for a new region, and may begin a loop over it.
LEMMA Called ==
    ASSUME claims \in Seq(Claim), queue = <<>>, PlanInv, elf \in Elfs, UNCHANGED <<claims, elf>>,
           NEW start \in Nat, NEW len \in Nat \ {0}, start + len <= elf.len,
           queue' = <<At(start, len, None)>>,
           Reached \subseteq Reached',
           NEW k \in Reached', k \notin Reached, Region(k) = <<start, len>>,
           NEW kind, NEW entry \in Nat,
           loop' = NoLoop \/ loop' = Loop(kind, NextId, start, len, entry),
           kind = "EHDR" => len = EHDR64_SIZE,
           kind \notin {"EHDR", "STRTAB", "NOTE"} => entry # 0,
           kind = "NOTE" => Sections'[sec'].entries \in Seq(U64 \X U64)
    PROVE  PlanInv' /\ (AllStructures => AllStructures')
  <1>1. PICK m : m = NextId
    OBVIOUS
  <1>2. /\ queue' \in Seq(Claim) /\ PlacedInv' /\ RegionInv' /\ (AllStructures => AllStructures')
        /\ m \in Bases' /\ Planned'[m].start = start /\ SpanEnd(Planned'[m]) = start + len
        /\ \A i \in Structures' : Base(i)' = m => i = m
    BY <1>1, RegionPlanned DEF PlanInv, AllStructures
  <1>3. LoopInv'
    <2>1. CASE loop' = NoLoop
      BY <2>1 DEF LoopInv, NoLoop
    <2>2. CASE loop' = Loop(kind, m, start, len, entry)
      <3>1. /\ loop'.kind = kind /\ loop'.id = m /\ loop'.start = start /\ loop'.size = len
            /\ loop'.entry = entry /\ loop'.off = 0 /\ loop'.n = 1
        BY <2>2, LoopFields
      <3>2. kind = "EHDR" => HeaderLoop'
        BY <3>1 DEF HeaderLoop
      <3>3. 0 \in 0 .. len
        OBVIOUS
      <3>4. QED
        BY <1>2, <3>1, <3>2, <3>3 DEF LoopInv
    <2>3. QED
      BY <1>1, <2>1, <2>2
  <1>4. QED
    BY <1>2, <1>3 DEF PlanInv

\* The fields of the header follow one another.
LEMMA HeaderTurn ==
    ASSUME LoopInv, More, loop.kind = "EHDR", loop'.size = loop.size,
           loop'.n = loop.n + 1, loop'.off = loop.off + EntryLen
    PROVE  HeaderLoop'
  <1>1. HeaderLoop /\ loop.n \in Nat \ {0} /\ loop.n <= 1 + Len(EhdrTable)
    BY DEF LoopInv, More
  <1>2. /\ EhdrTable \in Seq(Part) /\ EhdrTable # <<>> /\ Tiles(EhdrTable, TableEnd(IdentTable))
        /\ Len(EhdrTable) \in Nat \ {0}
    BY TablesAssumption DEF Part
  <1>3. CASE loop.n = 1
    <2>1. loop.off = 0 /\ EntryLen = TableEnd(IdentTable)
      BY <1>1, <1>3 DEF HeaderLoop, EntryLen
    <2>2. EhdrTable[1][1] = TableEnd(IdentTable) /\ TableEnd(IdentTable) \in Nat
      <3>1. EhdrTable[1] \in Part
        BY <1>2
      <3>2. QED
        BY <1>2, <3>1 DEF Tiles, Part
    <2>3. loop'.n = 2 /\ loop'.off = EhdrTable[1][1]
      BY <1>3, <2>1, <2>2
    <2>4. loop'.n # 1 /\ loop'.n <= 1 + Len(EhdrTable) /\ loop'.n - 1 = 1
      BY <1>2, <2>3
    <2>5. loop'.size = EHDR64_SIZE
      BY <1>1 DEF HeaderLoop
    <2>6. loop'.off = EhdrTable[loop'.n - 1][1]
      BY <2>3, <2>4
    <2>7. QED
      BY <2>4, <2>5, <2>6 DEF HeaderLoop
  <1>4. CASE loop.n # 1
    <2>1. PICK j \in 1 .. Len(EhdrTable) : j = loop.n - 1
      BY SMTT(30), <1>1, <1>2, <1>4
    <2>2. loop.off = EhdrTable[j][1] /\ EntryLen = EhdrTable[j][2]
      BY <1>1, <1>4, <2>1 DEF HeaderLoop, EntryLen
    <2>3. loop'.off = EhdrTable[j][1] + EhdrTable[j][2] /\ loop'.n = j + 2 /\ loop'.n - 1 = j + 1
      BY <1>1, <2>1, <2>2
    <2>4. CASE j = Len(EhdrTable)
      <3>1. EHDR64_SIZE = EhdrTable[j][1] + EhdrTable[j][2]
        BY <2>4 DEF EHDR64_SIZE, TableEnd
      <3>2. loop'.n # 1 /\ ~(loop'.n <= 1 + Len(EhdrTable))
        BY <1>2, <2>3, <2>4
      <3>3. loop'.size = EHDR64_SIZE /\ loop'.off = EHDR64_SIZE
        BY <1>1, <2>3, <3>1 DEF HeaderLoop
      <3>4. QED
        BY <3>2, <3>3 DEF HeaderLoop
    <2>5. CASE j # Len(EhdrTable)
      <3>1. EhdrTable[j][1] + EhdrTable[j][2] = EhdrTable[j + 1][1]
        BY <1>2, <2>5 DEF Tiles
      <3>2. loop'.n # 1 /\ loop'.n <= 1 + Len(EhdrTable)
        BY SMTT(30), <1>2, <2>3, <2>5
      <3>3. loop'.size = EHDR64_SIZE /\ loop'.off = EhdrTable[loop'.n - 1][1]
        BY <1>1, <2>3, <3>1 DEF HeaderLoop
      <3>4. QED
        BY <3>2, <3>3 DEF HeaderLoop
    <2>6. QED
      BY <2>4, <2>5
  <1>5. QED
    BY <1>3, <1>4

\* A turn of the loop keeps the plan.
LEMMA TurnTaken ==
    ASSUME claims \in Seq(Claim), PlanInv, elf \in Elfs, Reached' = Reached, NextEntry
    PROVE  PlanInv' /\ (AllStructures => AllStructures')
  <1>1. /\ queue = <<>> /\ More /\ queue' = EntryClaims
        /\ UNCHANGED <<elf, sec, claims>>
    BY DEF NextEntry, vars
  <1>2. /\ loop'.kind = loop.kind /\ loop'.id = loop.id /\ loop'.start = loop.start
        /\ loop'.size = loop.size /\ loop'.entry = loop.entry
        /\ loop'.off = loop.off + EntryLen /\ loop'.n = loop.n + 1
    BY DEF NextEntry
  <1>3. EntryLen \in Nat \ {0} /\ loop.off + EntryLen <= loop.size
    BY <1>1, TurnFits DEF PlanInv
  <1>4. /\ loop.kind # "none"
        /\ loop.start \in Nat /\ loop.size \in Nat /\ loop.entry \in Nat
        /\ loop.n \in Nat \ {0}
        /\ loop.off \in 0 .. loop.size
        /\ loop.id \in Bases
        /\ Planned[loop.id].start = loop.start
        /\ SpanEnd(Planned[loop.id]) = loop.start + loop.size
        /\ \A i \in Structures : i # loop.id /\ Base(i) = loop.id =>
              SpanEnd(Planned[i]) <= loop.start + loop.off
        /\ loop.kind = "NOTE" => Sections[sec].entries \in Seq(U64 \X U64)
        /\ loop.kind \notin {"EHDR", "STRTAB", "NOTE"} => loop.entry # 0
    BY <1>1 DEF PlanInv, LoopInv, More
  <1>5. PICK at \in Nat, e \in Nat \ {0}, id \in Bases, m \in Nat :
           /\ at = loop.start + loop.off /\ e = EntryLen /\ id = loop.id /\ m = NextId
    <2>1. loop.start + loop.off \in Nat /\ NextId \in Nat
      BY <1>4 DEF NextId
    <2>2. QED
      BY <1>3, <1>4, <2>1
  <1>6. /\ Planned[id].start <= at /\ at + e <= SpanEnd(Planned[id])
        /\ \A i \in Structures : i # id /\ Base(i) = id => SpanEnd(Planned[i]) <= at
        /\ Len(claims) = m - 1
        /\ queue' = <<At(at, e, id)>> \o Fields(EntryFields, at, e, m)
    <2>1. Planned[id].start <= at /\ at + e <= SpanEnd(Planned[id])
      BY <1>3, <1>4, <1>5
    <2>2. \A i \in Structures : i # id /\ Base(i) = id => SpanEnd(Planned[i]) <= at
      BY <1>4, <1>5
    <2>3. Len(claims) = m - 1
      BY <1>5 DEF NextId
    <2>4. queue' = <<At(at, e, id)>> \o Fields(EntryFields, at, e, m)
      BY <1>1, <1>5 DEF EntryClaims
    <2>5. QED
      BY <2>1, <2>2, <2>3, <2>4
  <1>7. /\ queue' \in Seq(Claim) /\ PlacedInv' /\ RegionInv'
        /\ AllStructures => AllStructures'
        /\ id \in Bases' /\ Planned'[id] = Planned[id]
        /\ \A i \in Structures' : i # id /\ Base(i)' = id => SpanEnd(Planned'[i]) <= at + e
    BY <1>1, <1>6, TurnPlanned DEF PlanInv, AllStructures
  <1>8. LoopInv'
    <2>1. /\ loop'.start \in Nat /\ loop'.size \in Nat /\ loop'.entry \in Nat
          /\ loop'.n \in Nat \ {0} /\ loop'.off \in 0 .. loop'.size
      <3>1. loop'.start \in Nat /\ loop'.size \in Nat /\ loop'.entry \in Nat
        BY <1>2, <1>4
      <3>2. loop'.n \in Nat \ {0}
        BY <1>2, <1>4
      <3>3. loop.off + EntryLen \in Nat
        BY <1>3, <1>4
      <3>4. loop'.off \in 0 .. loop'.size
        BY <1>2, <1>3, <1>4, <3>3
      <3>5. QED
        BY <3>1, <3>2, <3>4
    <2>2. /\ loop'.id \in Bases' /\ Planned'[loop'.id].start = loop'.start
          /\ SpanEnd(Planned'[loop'.id]) = loop'.start + loop'.size
      BY <1>2, <1>4, <1>5, <1>7
    <2>3. loop'.start + loop'.off = at + e
      BY <1>2, <1>3, <1>4, <1>5
    <2>4. \A i \in Structures' : i # loop'.id /\ Base(i)' = loop'.id =>
             SpanEnd(Planned'[i]) <= loop'.start + loop'.off
      BY <1>2, <1>5, <1>7, <2>3
    <2>5. loop'.kind = "EHDR" => HeaderLoop'
      BY <1>1, <1>2, HeaderTurn DEF PlanInv
    <2>6. Sections' = Sections
      BY <1>1, SameRegions
    <2>7. loop'.kind = "NOTE" => Sections'[sec'].entries \in Seq(U64 \X U64)
      BY <1>1, <1>2, <1>4, <2>6
    <2>8. QED
      BY <1>2, <1>4, <2>1, <2>2, <2>4, <2>5, <2>7 DEF LoopInv
  <1>9. QED
    BY <1>7, <1>8 DEF PlanInv

\* What parse is doing, and what it has seen of the file by then.
Steps == {"ident", "shdrs", "phdrs", "bodies", "finish", "finished", "stopped"}

StepInv ==
    /\ elf \in Elfs /\ step \in Steps /\ sec \in Nat
    /\ step = "ident" => claims = <<>> /\ queue = <<>> /\ loop = NoLoop /\ Declared = {}
    /\ step \in {"ident", "shdrs", "phdrs"} => sec = 0
    /\ step \in {"phdrs", "bodies", "finish", "finished"} => TableRead
    /\ step = "bodies" => sec <= Len(Sections)
    /\ step \in {"finish", "finished"} => sec = Len(Sections) /\ queue = <<>> /\ ~More
    /\ step \notin {"ident", "stopped"} => files[F] = elf.len /\ Declared = {F}
    /\ step \notin {"finish", "finished"} => stage = "open" /\ AllStructures
    /\ step = "finish" => stage \in FillStages \cup {"open"}
    /\ step = "finished" => stage \in FinishStages \cup {"done"}
    /\ NoClaimIsRefused

\* A table in the file is not cut short where its length is computed.
LEMMA TableLength ==
    ASSUME elf \in Elfs, NEW off \in U64, NEW num \in U64, NEW size \in U64,
           ~NoTable(off, num, size), InFile(off, SatMul(num, size))
    PROVE  /\ SatMul(num, size) = num * size /\ num * size \in Nat \ {0}
           /\ off + num * size <= elf.len
  <1>1. off \in Nat \ {0} /\ num \in Nat \ {0} /\ size \in Nat \ {0} /\ elf.len \in Nat /\ elf.len <= MaxU64
    BY CountFacts, SizeFacts DEF NoTable, U64
  <1>2. PICK p \in Nat \ {0} : p = num * size
    <2>1. num * size # 0
      BY SMTT(30), <1>1
    <2>2. QED
      BY <1>1, <2>1, Products
  <1>3. SatMul(num, size) = IF p > MaxU64 THEN MaxU64 ELSE p
    BY <1>2 DEF SatMul
  <1>4. off + SatMul(num, size) <= elf.len
    BY DEF InFile
  <1>5. SatMul(num, size) = p
    BY <1>1, <1>3, <1>4, SizeFacts
  <1>6. QED
    BY <1>2, <1>4, <1>5

BuilderInv == TypeOK /\ Forest /\ FinishInv /\ FillInv

\* The header is claimed, and the loop over its fields begins.
LEMMA EhdrStep ==
    ASSUME TypeOK, PlanInv, StepInv, ParseEhdr
    PROVE  PlanInv' /\ StepInv'
  <1>1. /\ step = "ident" /\ queue = <<>> /\ stage = "open" /\ Identify = "none"
        /\ AddFile(F, elf.len)
        /\ queue' = <<At(0, EHDR64_SIZE, None)>>
        /\ loop' = Loop("EHDR", NextId, 0, EHDR64_SIZE, 0)
        /\ step' = "shdrs"
        /\ UNCHANGED <<elf, sec, summary, error>>
    BY DEF ParseEhdr, Ready
  <1>2. /\ elf \in Elfs /\ sec = 0 /\ claims = <<>> /\ claims \in Seq(Claim) /\ Declared = {}
        /\ AllStructures /\ NoClaimIsRefused
    BY <1>1 DEF StepInv, TypeOK
  <1>3. /\ files' = [files EXCEPT ![F] = elf.len]
        /\ UNCHANGED <<claims, reply, stage>>
    BY <1>1 DEF AddFile
  <1>4. Reached = {} /\ Reached' = {0}
    BY <1>1 DEF Reached
  <1>5. EHDR64_SIZE \in Nat \ {0} /\ 0 + EHDR64_SIZE <= elf.len /\ elf.len \in Nat
    <2>1. EHDR64_SIZE \in Nat \ {0} /\ elf.len \in Nat
      BY <1>2, SizeFacts, CountFacts
    <2>2. ~(elf.len < EHDR64_SIZE)
      BY <1>1 DEF Identify
    <2>3. QED
      BY <2>1, <2>2
  <1>6. Region(0) = <<0, EHDR64_SIZE>>
    BY DEF Region
  <1>7. PlanInv' /\ AllStructures'
    <2>1. PICK k \in Reached' : k = 0 /\ k \notin Reached /\ Region(k) = <<0, EHDR64_SIZE>>
      BY <1>4, <1>6
    <2>2. Reached \subseteq Reached' /\ 0 \in Nat
      BY <1>4
    <2>3. PICK kind : kind = "EHDR"
      OBVIOUS
    <2>4. kind \in {"EHDR", "STRTAB", "NOTE"} /\ 0 \in Nat
      BY <2>3
    <2>7. kind = "NOTE" => Sections'[sec'].entries \in Seq(U64 \X U64)
      BY <2>3
    <2>5. loop' = Loop(kind, NextId, 0, EHDR64_SIZE, 0)
      BY <1>1, <2>3
    <2>6. QED
      BY <1>1, <1>2, <1>3, <1>5, <2>1, <2>2, <2>3, <2>4, <2>5, <2>7, Called
  <1>8. files'[F] = elf.len /\ Declared' = {F}
    <2>1. F \in Files /\ files \in [Files -> U64 \cup {Undeclared}] /\ elf.len # Undeclared
      BY <1>5, PrimaryIsFile DEF TypeOK, Undeclared
    <2>2. QED
      BY <1>2, <1>3, <2>1 DEF Declared
  <1>9. StepInv'
    BY <1>1, <1>2, <1>3, <1>7, <1>8 DEF StepInv, Steps, NoClaimIsRefused
  <1>10. QED
    BY <1>7, <1>9

\* A table is absent, cut off by the end of the file, or claimed.
LEMMA TableStep ==
    ASSUME TypeOK, PlanInv, StepInv,
           NEW here, NEW next, NEW kind, NEW off \in U64, NEW num \in U64, NEW size \in U64,
           NEW k \in {-1, -2},
           \/ here = "shdrs" /\ next = "phdrs" /\ k = -1
              /\ off = elf.shoff /\ num = Shnum /\ size = elf.shentsize
           \/ here = "phdrs" /\ next = "bodies" /\ k = -2
              /\ off = elf.phoff /\ num = Phnum /\ size = elf.phentsize,
           kind \in {"SHDR", "PHDR"},
           ParseTable(here, next, kind, off, num, size)
    PROVE  PlanInv' /\ StepInv'
  <1>1. /\ step = here /\ queue = <<>> /\ stage = "open" /\ step \in {"shdrs", "phdrs"}
        /\ elf \in Elfs /\ sec = 0 /\ files[F] = elf.len /\ Declared = {F}
        /\ AllStructures /\ NoClaimIsRefused
        /\ claims \in Seq(Claim)
    BY DEF ParseTable, Ready, StepInv, TypeOK
  <1>2. /\ here = "shdrs" => Reached = {0}
        /\ here = "phdrs" => Reached = {0, -1}
        /\ step' = "stopped" => (sec' = 0 => Reached' = -2 .. 0)
        /\ step' = "phdrs" => Reached' = {0, -1}
        /\ step' = "bodies" => (sec' = 0 => Reached' = -2 .. 0)
    BY <1>1 DEF Reached
  <1>3. CASE ~NoTable(off, num, size) /\ ~InFile(off, SatMul(num, size))
    <2>1. /\ step' = "stopped" /\ error' = "Truncated"
          /\ UNCHANGED <<elf, queue, loop, sec, summary, vars>>
      BY <1>3 DEF ParseTable, Fail
    <2>2. Planned' = Planned /\ Reached \subseteq Reached' /\ queue' \in Seq(Claim)
      BY <1>1, <1>2, <2>1 DEF Planned, vars, PlanInv
    <2>3. PlanInv'
      BY <2>1, <2>2, SamePlan
    <2>4. AllStructures'
      BY <1>1, <2>2 DEF AllStructures, Places
    <2>5. StepInv'
      BY <1>1, <2>1, <2>4 DEF StepInv, Steps, NoClaimIsRefused, vars
    <2>6. QED
      BY <2>3, <2>5
  <1>4. CASE NoTable(off, num, size) \/ InFile(off, SatMul(num, size))
    <2>1. /\ IF NoTable(off, num, size) THEN queue' = queue /\ loop' = NoLoop
             ELSE /\ queue' = <<At(off, SatMul(num, size), None)>>
                  /\ loop' = Loop(kind, NextId, off, SatMul(num, size), size)
          /\ step' = next
          /\ UNCHANGED <<elf, sec, summary, error, vars>>
      BY <1>4 DEF ParseTable
    <2>2. UNCHANGED <<claims, files, reply, stage>> /\ Declared' = Declared
      BY <2>1 DEF vars, Declared
    <2>3. /\ Reached \subseteq Reached' /\ k \in Reached' /\ k \notin Reached
      BY <1>1, <1>2, <2>1
    <2>4. ~NoTable(off, num, size) =>
             SatMul(num, size) = num * size /\ num * size \in Nat \ {0} /\ off + num * size <= elf.len
      BY <1>1, <1>4, TableLength
    <2>5. PlanInv' /\ AllStructures'
      <3>1. CASE NoTable(off, num, size)
        <4>1. Planned' = Planned /\ queue' \in Seq(Claim) /\ loop'.kind = "none"
          BY <2>1, <2>2, <3>1 DEF Planned, NoLoop, PlanInv
        <4>2. PlanInv'
          BY <2>1, <2>3, <4>1, SamePlan
        <4>3. QED
          BY <1>1, <4>1, <4>2 DEF AllStructures, Places
      <3>2. CASE ~NoTable(off, num, size)
        <4>1. PICK len \in Nat \ {0} : len = num * size
          BY <2>4, <3>2
        <4>2. /\ queue' = <<At(off, len, None)>> /\ loop' = Loop(kind, NextId, off, len, size)
              /\ off + len <= elf.len
          BY <2>1, <2>4, <3>2, <4>1
        <4>3. Region(k) = <<off, len>>
          BY <3>2, <4>1 DEF Region, TableExtent
        <4>4. off \in Nat /\ size \in Nat \ {0}
          BY <3>2, SizeFacts DEF NoTable
        <4>5. (kind = "EHDR" => len = EHDR64_SIZE)
              /\ (kind = "NOTE" => Sections'[sec'].entries \in Seq(U64 \X U64))
          OBVIOUS
        <4>6. QED
          BY <1>1, <2>1, <2>2, <2>3, <4>2, <4>3, <4>4, <4>5, Called
      <3>3. QED
        BY <3>1, <3>2
    <2>6. TableRead' = TableRead /\ (next = "phdrs" => TableRead)
      <3>1. next = "phdrs" => TableRead
        BY <2>4 DEF TableRead
      <3>2. QED
        BY <2>1, <3>1, SameRegions
    <2>7. next = "bodies" => TableRead /\ 0 <= Len(Sections')
      <3>1. next = "bodies" => TableRead
        BY <1>1 DEF StepInv
      <3>2. QED
        BY <1>1, <2>1, <3>1, SectionFacts, SameRegions
    <2>8. StepInv'
      BY <1>1, <2>1, <2>2, <2>5, <2>6, <2>7 DEF StepInv, Steps, NoClaimIsRefused
    <2>9. QED
      BY <2>5, <2>8
  <1>5. QED
    BY <1>3, <1>4

\* The body of the next section is claimed, if it has one in the file.
LEMMA BodyStep ==
    ASSUME TypeOK, PlanInv, StepInv, ParseBody
    PROVE  PlanInv' /\ StepInv'
  <1>1. /\ step = "bodies" /\ queue = <<>> /\ stage = "open"
        /\ sec < Len(Sections) /\ sec' = sec + 1
        /\ UNCHANGED <<elf, step, error, vars>>
    BY DEF ParseBody, Ready
  <1>2. /\ elf \in Elfs /\ sec \in Nat /\ files[F] = elf.len /\ Declared = {F} /\ TableRead
        /\ AllStructures /\ NoClaimIsRefused /\ claims \in Seq(Claim)
    BY <1>1 DEF StepInv, TypeOK
  <1>3. UNCHANGED <<claims, files, reply, stage>> /\ Declared' = Declared
    BY <1>1 DEF vars, Declared
  <1>4. Sections' = Sections /\ TableRead' = TableRead /\ Len(Sections) \in Nat
    BY <1>1, <1>2, SameRegions, SectionFacts
  <1>5. PICK k \in 1 .. Len(Sections) : k = sec + 1
    BY <1>1, <1>2, <1>4
  <1>6. PICK s : s = Sections[k]
    OBVIOUS
  <1>7. /\ s.offset \in Nat /\ s.size \in Nat /\ s.entsize \in Nat
        /\ s.type = "NOTE" => s.entries \in Seq(U64 \X U64)
    BY <1>2, <1>6, SectionFacts
  <1>8. Reached \subseteq Reached' /\ k \in Reached' /\ k \notin Reached
    <2>1. Reached = -2 .. sec /\ Reached' = -2 .. (sec + 1)
      BY <1>1 DEF Reached
    <2>2. QED
      BY <1>2, <1>5, <2>1
  <1>9. PlanInv' /\ AllStructures'
    <2>1. CASE ~HasBody(s)
      <3>1. queue' = queue /\ loop' = NoLoop
        BY <1>5, <1>6, <2>1 DEF ParseBody
      <3>2. Planned' = Planned /\ queue' \in Seq(Claim) /\ loop'.kind = "none"
        BY <1>3, <3>1 DEF Planned, NoLoop, PlanInv
      <3>3. PlanInv'
        BY <1>1, <1>8, <3>2, SamePlan
      <3>4. QED
        BY <1>2, <3>2, <3>3 DEF AllStructures, Places
    <2>2. CASE HasBody(s)
      <3>1. /\ queue' = <<At(s.offset, s.size, None)>>
            /\ loop' = CASE s.type \in EntryTypes -> Loop(s.type, NextId, s.offset, s.size, SizeOf(s))
                         [] s.type \in {"STRTAB", "NOTE"} -> Loop(s.type, NextId, s.offset, s.size, 0)
                         [] OTHER -> NoLoop
        BY <1>5, <1>6, <2>2 DEF ParseBody
      <3>2. s.offset + s.size <= elf.len /\ s.size \in Nat \ {0}
        BY <1>7, <2>2 DEF HasBody, InFile
      <3>3. Region(k) = <<s.offset, s.size>>
        BY <1>5, <1>6, <2>2 DEF Region
      <3>4. s.type \in EntryTypes => SizeOf(s) \in Nat \ {0}
        BY <1>7, SizesAssumption DEF SizeOf, EntryTypes
      <3>5. PICK entry \in Nat :
               /\ loop' = NoLoop \/ loop' = Loop(s.type, NextId, s.offset, s.size, entry)
               /\ s.type \in {"STRTAB", "NOTE"} \/ entry # 0
        <4>1. CASE s.type \in EntryTypes
          BY <3>1, <3>4, <4>1
        <4>2. CASE s.type \notin EntryTypes /\ s.type \in {"STRTAB", "NOTE"}
          BY <3>1, <4>2
        <4>3. CASE s.type \notin EntryTypes /\ s.type \notin {"STRTAB", "NOTE"}
          BY <3>1, <4>3
        <4>4. QED
          BY <4>1, <4>2, <4>3
      <3>6. PICK kind : kind \in {s.type, "none"} /\ kind # "EHDR"
                        /\ (kind \in {"STRTAB", "NOTE"} \/ entry # 0)
                        /\ (loop' = NoLoop \/ loop' = Loop(kind, NextId, s.offset, s.size, entry))
        <4>1. CASE s.type \in EntryTypes \cup {"STRTAB", "NOTE"}
          <5>1. s.type # "EHDR"
            BY <4>1 DEF EntryTypes
          <5>2. QED
            BY <3>5, <5>1
        <4>2. CASE s.type \notin EntryTypes \cup {"STRTAB", "NOTE"}
          <5>1. loop' = NoLoop /\ entry # 0
            BY <3>1, <3>5, <4>2
          <5>2. QED
            BY <5>1
        <4>3. QED
          BY <4>1, <4>2
      <3>7. kind = "NOTE" => Sections'[sec'].entries \in Seq(U64 \X U64)
        BY <1>1, <1>4, <1>5, <1>6, <1>7, <3>6
      <3>8. PlanInv' /\ (AllStructures => AllStructures')
        BY <1>1, <1>2, <1>3, <1>7, <1>8, <3>1, <3>2, <3>3, <3>6, <3>7, Called
      <3>9. QED
        BY <1>2, <3>8
    <2>3. QED
      BY <2>1, <2>2
  <1>10. StepInv'
    <2>1. sec' \in Nat /\ sec' <= Len(Sections') /\ step' = "bodies"
      BY <1>1, <1>2, <1>4
    <2>2. QED
      BY <1>1, <1>2, <1>3, <1>4, <1>9, <2>1 DEF StepInv, Steps, NoClaimIsRefused
  <1>11. QED
    BY <1>9, <1>10

\* A turn comes while the functions that read the file are at work.
LEMMA EntryStep ==
    ASSUME TypeOK, PlanInv, StepInv, NextEntry
    PROVE  PlanInv' /\ StepInv'
  <1>1. /\ step # "stopped" /\ stage = "open" /\ More
        /\ UNCHANGED <<elf, step, sec, error, vars>>
    BY DEF NextEntry
  <1>2. step \in {"shdrs", "phdrs", "bodies"}
    <2>1. step # "ident"
      BY <1>1 DEF StepInv, More, NoLoop
    <2>2. step \notin {"finish", "finished"}
      BY <1>1 DEF StepInv
    <2>3. QED
      BY <1>1, <2>1, <2>2 DEF StepInv, Steps
  <1>3. /\ elf \in Elfs /\ claims \in Seq(Claim) /\ AllStructures /\ NoClaimIsRefused
    BY <1>2 DEF StepInv, TypeOK
  <1>4. UNCHANGED <<claims, files, reply, stage>> /\ Declared' = Declared
    BY <1>1 DEF vars, Declared
  <1>5. Reached' = Reached
    BY <1>1 DEF Reached
  <1>6. Sections' = Sections /\ TableRead' = TableRead
    BY <1>1, SameRegions
  <1>7. PlanInv' /\ (AllStructures => AllStructures')
    BY <1>3, <1>5, TurnTaken
  <1>8. StepInv'
    BY <1>1, <1>2, <1>3, <1>4, <1>6, <1>7 DEF StepInv, Steps, NoClaimIsRefused
  <1>9. QED
    BY <1>7, <1>8

\* Whether a loop goes on depends on the file and the loop alone.
LEMMA SameMore ==
    ASSUME UNCHANGED <<elf, loop, sec>>
    PROVE  More' = More
  <1>1. Sections' = Sections
    BY SameRegions
  <1>2. EntryLen' = EntryLen
    <2>1. \A at, left : StringLen(at, left)' = StringLen(at, left)
      BY DEF StringLen, Text
    <2>2. QED
      BY <1>1, <2>1 DEF EntryLen, NoteLen, Entry, AlignNote
  <1>3. QED
    BY <1>2 DEF More

\* A file that is no ELF64 file is rejected before anything is claimed.
LEMMA RejectStep ==
    ASSUME TypeOK, PlanInv, StepInv, Reject
    PROVE  PlanInv' /\ StepInv'
  <1>1. /\ step = "ident" /\ stage = "open" /\ Identify # "none"
        /\ error' = Identify /\ step' = "stopped"
        /\ UNCHANGED <<elf, queue, loop, sec, summary, vars>>
    BY DEF Reject, Ready, Fail
  <1>2. elf \in Elfs /\ AllStructures /\ NoClaimIsRefused /\ sec = 0
    BY <1>1 DEF StepInv
  <1>3. Reached = {} /\ UNCHANGED <<claims, reply, stage>>
    BY <1>1 DEF Reached, vars
  <1>4. Planned' = Planned /\ queue' \in Seq(Claim)
    BY <1>1, <1>3 DEF Planned, PlanInv
  <1>5. PlanInv'
    BY <1>1, <1>3, <1>4, SamePlan
  <1>6. Identify # "Coverage"
    BY ElfsAssumption, <1>2 DEF Identify, Idents
  <1>7. AllStructures'
    BY <1>2, <1>4 DEF AllStructures, Places
  <1>8. StepInv'
    BY <1>1, <1>2, <1>3, <1>6, <1>7 DEF StepInv, Steps, NoClaimIsRefused
  <1>9. QED
    BY <1>5, <1>8

\* The claim that waits longest is accepted.
LEMMA PushStep ==
    ASSUME TypeOK, PlanInv, StepInv, PushClaim
    PROVE  PlanInv' /\ StepInv'
  <1>1. /\ queue # <<>> /\ step # "stopped" /\ Push(Head(queue)) /\ queue' = Tail(queue)
        /\ UNCHANGED <<elf, loop, sec, summary>>
    BY DEF PushClaim
  <1>2. step \in {"shdrs", "phdrs", "bodies"}
    BY <1>1 DEF StepInv, Steps
  <1>3. /\ elf \in Elfs /\ files[F] = elf.len /\ Declared = {F} /\ AllStructures
        /\ NoClaimIsRefused /\ queue \in Seq(Claim)
    BY <1>2 DEF StepInv, PlanInv
  <1>4. elf.len \in U64
    BY <1>3, CountFacts
  <1>5. Check(Head(queue)) = "ok" /\ Planned' = Planned /\ Places' = Places
    BY <1>1, <1>3, <1>4, PushAccepts DEF PlanInv
  <1>6. UNCHANGED <<step, error>>
    BY <1>5 DEF PushClaim
  <1>7. reply' = "ok" /\ UNCHANGED <<files, stage>>
    BY <1>1, <1>5 DEF Push
  <1>8. queue' \in Seq(Claim)
    BY <1>1, <1>3
  <1>9. Reached' = Reached /\ Sections' = Sections /\ TableRead' = TableRead
    BY <1>1, <1>6, SameRegions DEF Reached
  <1>10. PlanInv'
    BY <1>1, <1>5, <1>8, <1>9, SamePlan
  <1>11. AllStructures' /\ Declared' = Declared
    BY <1>3, <1>5, <1>7 DEF AllStructures, Declared
  <1>12. StepInv'
    BY <1>1, <1>2, <1>3, <1>6, <1>7, <1>9, <1>11 DEF StepInv, Steps, NoClaimIsRefused, Refusals
  <1>13. QED
    BY <1>10, <1>12

-----------------------------------------------------------------------------
(* fill_unclaimed and finish.                                              *)

\* Every step of parse is one the builder's invariants allow for.
LEMMA StepsAreAnySteps ==
    ASSUME PlanInv, StepInv, [ParserNext]_allVars
    PROVE  [AnyStep]_vars
  <1>1. CASE ParseEhdr
    <2>1. AddFile(F, elf.len) /\ F \in Files /\ elf.len \in U64
      BY <1>1, PrimaryIsFile, CountFacts DEF ParseEhdr, StepInv
    <2>2. QED
      BY <2>1 DEF AnyStep
  <1>2. CASE PushClaim
    <2>1. queue \in Seq(Claim) /\ queue # <<>> /\ Push(Head(queue))
      BY <1>2 DEF PushClaim, PlanInv
    <2>2. Head(queue) \in Claim
      BY <2>1
    <2>3. QED
      BY <2>1, <2>2 DEF AnyStep
  <1>3. CASE Reject \/ ParseShdrs \/ ParsePhdrs \/ ParseBody \/ NextEntry \/ UNCHANGED allVars
    BY <1>3 DEF Reject, Fail, ParseShdrs, ParsePhdrs, ParseTable, ParseBody, NextEntry, allVars
  <1>4. CASE FillUnclaimed \/ Finish \/ Scan
    BY <1>4 DEF FillUnclaimed, Finish, Scan, AnyStep
  <1>5. QED
    BY <1>1, <1>2, <1>3, <1>4 DEF ParserNext

\* The scans read the claims as they were planned; only fill_unclaimed adds to them.
LEMMA ScanStarts ==
    ASSUME TypeOK, PlanInv, StepInv, FillUnclaimed \/ Finish
    PROVE  PlanInv' /\ StepInv'
  <1>1. /\ queue = <<>> /\ ~More /\ stage = "open" /\ step \in {"bodies", "finish"}
        /\ UNCHANGED <<elf, queue, loop, sec, summary, error>>
        /\ UNCHANGED builderVars /\ reply' = "none"
    BY DEF FillUnclaimed, Finish, Ready, FillStart, FinishStart, StartScan
  <1>2. sec = Len(Sections) /\ TableRead /\ elf \in Elfs /\ sec \in Nat
        /\ files[F] = elf.len /\ Declared = {F} /\ NoClaimIsRefused
    <2>1. CASE FillUnclaimed
      BY <1>1, <2>1 DEF StepInv, FillUnclaimed, Ready
    <2>2. CASE Finish
      BY <1>1, <2>2 DEF StepInv, Finish, Ready
    <2>3. QED
      BY <2>1, <2>2
  <1>3. \/ step' = "finish" /\ stage' = "fillFile"
        \/ step' = "finished" /\ stage' = "finishFile"
    BY DEF FillUnclaimed, Finish, FillStart, FinishStart, StartScan
  <1>4. UNCHANGED <<claims, files>> /\ Planned' = Planned /\ Declared' = Declared
    BY <1>1 DEF builderVars, Planned, Declared
  <1>5. Reached' = Reached
    BY <1>1, <1>3 DEF Reached
  <1>6. PlanInv'
    BY <1>1, <1>4, <1>5, SamePlan DEF PlanInv
  <1>7. Sections' = Sections /\ TableRead' = TableRead /\ More' = More
    BY <1>1, SameRegions, SameMore
  <1>8. StepInv'
    BY <1>1, <1>2, <1>3, <1>4, <1>7
    DEF StepInv, Steps, NoClaimIsRefused, Refusals, FillStages, FinishStages
  <1>9. QED
    BY <1>6, <1>8

\* A hole that becomes a claim changes nothing about the regions.
LEMMA FillerPlanned ==
    ASSUME TypeOK, PlanInv, queue = <<>>, elf \in Elfs, files[F] = elf.len, Declared = {F},
           UNCHANGED parserVars,
           NEW c \in Claim, Check(c) = "ok", Attach(c), c.kind = "Unclaimed"
    PROVE  PlanInv'
  <1> DEFINE n == Len(claims) + 1
  <1>1. /\ queue \in Seq(Claim) /\ claims \in Seq(Claim) /\ Places = Ids /\ Planned = claims
        /\ PlacedInv /\ RegionInv /\ LoopInv /\ Ids = 1 .. Len(claims)
    BY PlannedFacts DEF PlanInv, TypeOK, Ids
  <1>2. /\ Ids' = Ids \cup {n} /\ n \notin Ids /\ claims'[n] = c
        /\ \A i \in Ids : claims'[i] = claims[i]
    BY AttachEffect
  <1>3. claims' \in Seq(Claim)
    BY AttachType
  <1>4. queue' = <<>> /\ UNCHANGED <<elf, step, loop, sec>>
    BY DEF parserVars
  <1>5. Planned' = claims' /\ Places' = Ids'
    BY <1>3, <1>4 DEF Planned, Places, Ids
  <1> HIDE DEF n
  <1>6. /\ Places' = Places \cup {n} /\ n \notin Places /\ Planned'[n] = c
        /\ \A i \in Places : Planned'[i] = Planned[i]
    BY <1>1, <1>2, <1>5
  <1>7. Grown
    BY <1>6 DEF Grown
  <1>8. /\ \A i \in Places : /\ Up(i)' = Up(i) /\ Base(i)' = Base(i) /\ Up(i) \in Places
        /\ \A i, j \in Places : (Apart(i, j)' <=> Apart(i, j)) /\ (Under(i, j)' <=> Under(i, j))
        /\ Structures = Structures' \cap Places /\ Bases = Bases' \cap Places
    BY <1>1, <1>7, GrownFacts, UpFacts
  <1>9. Structures' = Structures /\ Bases' = Bases
    BY <1>6, <1>8 DEF Structures, Bases
  <1>10. c.file = F /\ SpanEnd(c) <= elf.len
         /\ (c.parent # None => c.parent \in Ids /\ ContainsSpan(claims[c.parent], c))
    <2>1. files[c.file] # Undeclared /\ ~(SpanEnd(c) > files[c.file])
          /\ (c.parent # None => c.parent \in Ids /\ ContainsSpan(claims[c.parent], c))
      BY DEF Check
    <2>2. c.file \in Declared
      BY <2>1 DEF Declared, Claim
    <2>3. c.file = F
      BY <2>2
    <2>4. SpanEnd(c) \in U64 /\ elf.len \in U64
      BY SpanEndType, CountFacts DEF Claim, SpanEnd
    <2>5. ~(SpanEnd(c) > elf.len)
      BY <2>1, <2>3
    <2>6. SpanEnd(c) \in Nat /\ elf.len \in Nat
      BY <2>4, SizeFacts
    <2>7. SpanEnd(c) <= elf.len
      BY <2>5, <2>6
    <2>8. QED
      BY <2>1, <2>3, <2>7
  <1>11. PlacedInv'
    <2> SUFFICES ASSUME NEW i \in Places'
                 PROVE  /\ Fits(Planned[i])'
                        /\ Planned'[i].parent # None =>
                              /\ Planned'[i].parent < i
                              /\ ContainsSpan(Planned'[Planned'[i].parent], Planned'[i])
      BY DEF PlacedInv
    <2>1. CASE i = n
      <3>1. Fits(Planned[i])'
        BY <1>4, <1>6, <1>10, <2>1 DEF Fits
      <3>2. c.parent # None => c.parent < n /\ ContainsSpan(Planned'[c.parent], c)
        BY <1>1, <1>6, <1>10 DEF n
      <3>3. QED
        BY <1>6, <2>1, <3>1, <3>2
    <2>2. CASE i \in Places
      <3>1. Fits(Planned[i]) /\ Planned'[i] = Planned[i]
        BY <1>1, <1>6, <2>2 DEF PlacedInv
      <3>2. Fits(Planned[i])'
        BY <1>4, <3>1 DEF Fits
      <3>3. Planned[i].parent # None => Up(i) = Planned[i].parent /\ Up(i) \in Places
        BY <1>8, <2>2 DEF Up
      <3>4. QED
        BY <1>1, <1>6, <2>2, <3>1, <3>2, <3>3 DEF PlacedInv
    <2>3. QED
      BY <1>6, <2>1, <2>2
  <1>12. Reached' = Reached /\ Sections' = Sections
    BY <1>4, SameRegions DEF Reached
  <1>13. \A i \in Places : \A q : IsExtent(i, q)' <=> IsExtent(i, q)
    BY <1>4, <1>6, SameRegions DEF IsExtent, SpanEnd
  <1>14. \A i \in Structures : i \in Places
    BY DEF Structures
  <1>15. RegionInv'
    <2>1. \A i \in Structures' : Base(i)' \in Bases'
      BY <1>1, <1>8, <1>9, <1>14 DEF RegionInv
    <2>2. \A i \in Bases' : \E q \in Reached' : IsExtent(i, q)'
      BY <1>1, <1>9, <1>12, <1>13, <1>14 DEF RegionInv, Bases
    <2>3. \A i, j \in Bases' : i # j =>
             \E q, r \in Reached' : q # r /\ IsExtent(i, q)' /\ IsExtent(j, r)'
      <3> SUFFICES ASSUME NEW i \in Bases', NEW j \in Bases', i # j
                   PROVE  \E q, r \in Reached' : q # r /\ IsExtent(i, q)' /\ IsExtent(j, r)'
        OBVIOUS
      <3>1. i \in Bases /\ j \in Bases /\ i \in Places /\ j \in Places
        BY <1>9, <1>14 DEF Bases
      <3>2. PICK q \in Reached, r \in Reached : q # r /\ IsExtent(i, q) /\ IsExtent(j, r)
        BY <1>1, <3>1 DEF RegionInv
      <3>3. QED
        BY <1>12, <1>13, <3>1, <3>2
    <2>4. \A i, j \in Structures' : i # j /\ Base(i)' = Base(j)' =>
             Under(i, j)' \/ Under(j, i)' \/ Apart(i, j)'
      <3> SUFFICES ASSUME NEW i \in Structures', NEW j \in Structures', i # j, Base(i)' = Base(j)'
                   PROVE  Under(i, j)' \/ Under(j, i)' \/ Apart(i, j)'
        OBVIOUS
      <3>1. i \in Structures /\ j \in Structures /\ i \in Places /\ j \in Places
        BY <1>9, <1>14
      <3>2. Under(i, j) \/ Under(j, i) \/ Apart(i, j)
        BY <1>1, <1>8, <3>1 DEF RegionInv
      <3>3. QED
        BY <1>8, <3>1, <3>2
    <2>5. \A i \in Structures' : Solid(Planned[i])'
      BY <1>1, <1>6, <1>9, <1>14 DEF RegionInv, Solid, SpanEnd
    <2>6. QED
      BY <2>1, <2>2, <2>3, <2>4, <2>5 DEF RegionInv
  <1>16. LoopInv'
    <2>1. CASE loop.kind = "none"
      BY <1>4, <2>1 DEF LoopInv
    <2>2. CASE loop.kind # "none"
      <3>1. HeaderLoop' = HeaderLoop
        BY <1>4 DEF HeaderLoop
      <3>2. loop.id \in Bases /\ loop.id \in Places /\ Planned'[loop.id] = Planned[loop.id]
        BY <1>1, <1>6, <1>14, <2>2 DEF LoopInv, Bases
      <3>3. \A i \in Structures' : i # loop'.id /\ Base(i)' = loop'.id =>
               SpanEnd(Planned'[i]) <= loop'.start + loop'.off
        BY <1>1, <1>4, <1>6, <1>8, <1>9, <1>14, <2>2 DEF LoopInv
      <3>4. QED
        BY <1>1, <1>4, <1>9, <1>12, <2>2, <3>1, <3>2, <3>3 DEF LoopInv
    <2>3. QED
      BY <2>1, <2>2
  <1>17. QED
    BY <1>4, <1>11, <1>15, <1>16 DEF PlanInv

\* Which operation a scan belongs to, and what it leaves alone.
LEMMA ScanStages ==
    ASSUME StepInv, Scan
    PROVE  /\ UNCHANGED <<reply, files, parserVars>> /\ Declared' = Declared
           /\ \/ FillNext /\ step = "finish" /\ stage \in FillStages
                 /\ stage' \in FillStages \cup {"open"} /\ UNCHANGED result
                 /\ (stage' = "open" => stage = "fillFile")
              \/ FinishNext /\ step = "finished" /\ stage \in FinishStages
                 /\ stage' \in FinishStages \cup {"done"} /\ UNCHANGED <<claims, children>>
  <1>1. CASE FillNext
    <2>1. /\ stage \in FillStages /\ stage' \in FillStages \cup {"open"}
          /\ UNCHANGED <<reply, files, result>> /\ (stage' = "open" => stage = "fillFile")
      BY <1>1 DEF FillNext, FillFile, EnterFile, FillLeaf, FillTail, FillHole, FillNextFile,
                  FillReturn, FillStages, builderVars
    <2>2. step = "finish"
      BY <2>1 DEF StepInv, Steps, FillStages, FinishStages
    <2>3. QED
      BY <1>1, <2>1, <2>2 DEF Scan, Declared
  <1>2. CASE FinishNext
    <2>1. /\ stage \in FinishStages /\ stage' \in FinishStages \cup {"done"}
          /\ UNCHANGED <<reply, builderVars>>
      BY <1>2 DEF FinishNext, FinishFile, EnterFile, FinishOverlap, FinishGap, FinishLeaf,
                  FinishTailGap, FinishNextFile, FinishAccept, Return, FinishStages
    <2>2. step = "finished"
      BY <2>1 DEF StepInv, Steps, FillStages, FinishStages
    <2>3. QED
      BY <1>2, <2>1, <2>2 DEF Scan, Declared, builderVars
  <1>3. QED
    BY <1>1, <1>2 DEF Scan

\* The scans keep the plan.
LEMMA ScanStep ==
    ASSUME BuilderInv, PlanInv, StepInv, Scan
    PROVE  PlanInv' /\ StepInv'
  <1>1. /\ UNCHANGED <<reply, files, parserVars>> /\ Declared' = Declared
        /\ \/ FillNext /\ step = "finish" /\ stage \in FillStages
              /\ stage' \in FillStages \cup {"open"} /\ UNCHANGED result
           \/ FinishNext /\ step = "finished" /\ stage \in FinishStages
              /\ stage' \in FinishStages \cup {"done"} /\ UNCHANGED <<claims, children>>
    BY ScanStages
  <1>2. UNCHANGED <<elf, step, queue, loop, sec, error>>
    BY <1>1 DEF parserVars
  <1>3. /\ queue = <<>> /\ elf \in Elfs /\ files[F] = elf.len /\ Declared = {F} /\ TypeOK
    BY <1>1 DEF StepInv, BuilderInv
  <1>4. CASE UNCHANGED claims
    <2>1. Planned' = Planned /\ Reached' = Reached /\ queue' \in Seq(Claim)
      BY <1>2, <1>4 DEF Planned, Reached, PlanInv
    <2>2. PlanInv'
      BY <1>2, <2>1, SamePlan
    <2>3. QED
      <3>1. Sections' = Sections /\ TableRead' = TableRead /\ More' = More
        BY <1>2, SameRegions, SameMore
      <3>2. StepInv'
        BY <1>1, <1>2, <3>1 DEF StepInv, NoClaimIsRefused
      <3>3. QED
        BY <2>2, <3>2
  <1>5. CASE FillNext /\ step = "finish" /\ stage \in FillStages
             /\ stage' \in FillStages \cup {"open"}
    <2>1. AnyStep /\ stage \in FillStages
      BY <1>5 DEF AnyStep
    <2>2. AddsOnlyFiller
      BY <2>1, FillAdds DEF BuilderInv
    <2>3. CASE ~UNCHANGED <<claims, children>>
      <3>1. PICK c \in Claim : Check(c) = "ok" /\ Attach(c) /\ UNCHANGED files
        BY <1>3, <2>1, <2>3, TreeSteps
      <3>2. c.kind = "Unclaimed"
        <4>1. /\ Ids' = Ids \cup {Len(claims) + 1} /\ Len(claims) + 1 \notin Ids
              /\ claims'[Len(claims) + 1] = c
          BY <1>3, <3>1, AttachEffect
        <4>2. FillsOnlyHoles(c)
          BY <2>2, <4>1 DEF AddsOnlyFiller
        <4>3. QED
          BY <4>2 DEF FillsOnlyHoles
      <3>3. PlanInv'
        BY <1>1, <1>3, <3>1, <3>2, FillerPlanned
      <3>4. Sections' = Sections /\ TableRead' = TableRead /\ More' = More
        BY <1>2, SameRegions, SameMore
      <3>5. StepInv'
        BY <1>1, <1>2, <1>5, <3>4 DEF StepInv, NoClaimIsRefused
      <3>6. QED
        BY <3>3, <3>5
    <2>4. QED
      BY <1>4, <2>3
  <1>6. QED
    BY <1>1, <1>4, <1>5

\* So does every step of parse.
LEMMA PlanNext ==
    ASSUME BuilderInv, PlanInv, StepInv, [ParserNext]_allVars
    PROVE  PlanInv' /\ StepInv'
  <1>1. TypeOK
    BY DEF BuilderInv
  <1>2. CASE ParseShdrs \/ ParsePhdrs
    <2>1. /\ Shnum \in U64 /\ Phnum \in U64
          /\ {elf.phoff, elf.phentsize, elf.shoff, elf.shentsize} \subseteq U64
      BY CountFacts DEF StepInv
    <2>2. CASE ParseShdrs
      <3>1. ParseTable("shdrs", "phdrs", "SHDR", elf.shoff, Shnum, elf.shentsize)
        BY <2>2 DEF ParseShdrs
      <3>2. QED
        BY <1>1, <2>1, <3>1, TableStep
    <2>3. CASE ParsePhdrs
      <3>1. ParseTable("phdrs", "bodies", "PHDR", elf.phoff, Phnum, elf.phentsize)
        BY <2>3 DEF ParsePhdrs
      <3>2. QED
        BY <1>1, <2>1, <3>1, TableStep
    <2>4. QED
      BY <1>2, <2>2, <2>3
  <1>3. CASE UNCHANGED allVars
    <2>1. UNCHANGED <<elf, step, queue, loop, sec, error, claims, files, reply, stage>>
      BY <1>3 DEF allVars, vars, parserVars
    <2>2. Planned' = Planned /\ Reached' = Reached /\ queue' \in Seq(Claim) /\ Declared' = Declared
      BY <2>1 DEF Planned, Reached, PlanInv, Declared
    <2>3. PlanInv'
      BY <2>1, <2>2, SamePlan
    <2>4. Sections' = Sections /\ TableRead' = TableRead /\ More' = More
      BY <2>1, SameRegions, SameMore
    <2>5. AllStructures' = AllStructures
      BY <2>2 DEF AllStructures, Places
    <2>6. StepInv'
      BY <2>1, <2>2, <2>4, <2>5 DEF StepInv, NoClaimIsRefused
    <2>7. QED
      BY <2>3, <2>6
  <1>4. QED
    BY <1>1, <1>2, <1>3, RejectStep, EhdrStep, BodyStep, EntryStep, PushStep, ScanStarts, ScanStep
    DEF ParserNext

-----------------------------------------------------------------------------
(* What finish is given: no byte without a leaf, and no filler over a leaf. *)

FillerApart ==
    \A i, j \in Ids : i # j /\ claims[i].kind = "Unclaimed" =>
        \A b \in Nat : ~(i \in LeavesAt(F, b) /\ j \in LeavesAt(F, b))

FilledInv ==
    step = "finished" \/ (step = "finish" /\ stage = "open") => \A f \in Declared : Full(f)

VerdictInv == FillerApart /\ FilledInv /\ result.kind # "Gap"

\* Filler stays apart from every other leaf.
LEMMA FillerStep ==
    ASSUME BuilderInv, PlanInv, StepInv, FillerApart, [ParserNext]_allVars
    PROVE  FillerApart'
  <1>1. TypeOK /\ PlanInv' /\ StepInv' /\ [AnyStep]_vars
    BY PlanNext, StepsAreAnySteps DEF BuilderInv
  <1>2. TypeOK'
    BY <1>1, TypeNext
  <1>3. CASE step' \notin {"finish", "finished"}
    <2>1. AllStructures' /\ queue' \in Seq(Claim) /\ claims' \in Seq(Claim)
      BY <1>1, <1>2, <1>3 DEF StepInv, PlanInv, TypeOK
    <2>2. \A i \in Ids' : i \in Places' /\ Planned'[i] = claims'[i]
      BY <2>1 DEF Ids, Places, Planned
    <2>3. \A i \in Ids' : claims'[i].kind = "Structure"
      BY <2>1, <2>2 DEF AllStructures
    <2>4. QED
      BY <2>3 DEF FillerApart
  <1>4. CASE UNCHANGED <<claims, children>>
    <2>1. Ids' = Ids /\ \A f : Leaves(f)' = Leaves(f)
      BY <1>4 DEF Ids, Leaves, IsLeaf
    <2>2. \A b : LeavesAt(F, b)' = LeavesAt(F, b)
      BY <1>4, <2>1 DEF LeavesAt
    <2>3. QED
      BY <1>4, <2>1, <2>2 DEF FillerApart
  <1>5. CASE Scan /\ ~UNCHANGED <<claims, children>>
    <2>1. stage \in FillStages
      BY <1>5, ScanStages
    <2>2. AddsOnlyFiller
      BY <1>1, <2>1, FillAdds DEF BuilderInv
    <2>3. PICK c \in Claim : Check(c) = "ok" /\ Attach(c)
      BY <1>1, <1>5, TreeSteps
    <2> DEFINE n == Len(claims) + 1
    <2>4. /\ Ids' = Ids \cup {n} /\ n \notin Ids
          /\ \A i \in Ids : claims'[i] = claims[i] /\ children[i] \subseteq children'[i]
          /\ claims'[n] = c
      BY <1>1, <2>3, AttachEffect
    <2> HIDE DEF n
    <2>5. c.kind = "Unclaimed" /\ \A b \in c.start .. (SpanEnd(c) - 1) : ~Claimed(c.file, b)
      BY <2>2, <2>4 DEF AddsOnlyFiller, FillsOnlyHoles
    <2>6. \A i \in Ids : \A b : i \in LeavesAt(F, b)' => i \in LeavesAt(F, b)
      BY <2>4 DEF LeavesAt, Leaves, IsLeaf
    <2>7. \A i \in Ids : \A b \in Nat : ~(i \in LeavesAt(F, b)' /\ n \in LeavesAt(F, b)')
      <3> SUFFICES ASSUME NEW i \in Ids, NEW b \in Nat, i \in LeavesAt(F, b)', n \in LeavesAt(F, b)'
                   PROVE  FALSE
        OBVIOUS
      <3>1. c.file = F /\ c.start <= b /\ b < SpanEnd(c)
        BY <2>4 DEF LeavesAt, Contains, SpanEnd
      <3>2. i \in LeavesAt(F, b)
        BY <2>6
      <3>3. c.start \in Nat /\ SpanEnd(c) \in Nat
        BY SpanEndType, SizeFacts DEF Claim, SpanEnd
      <3>4. b \in c.start .. (SpanEnd(c) - 1)
        BY <3>1, <3>3
      <3>5. QED
        BY <2>5, <3>1, <3>2, <3>4 DEF Claimed
    <2>8. QED
      BY <2>4, <2>6, <2>7 DEF FillerApart
  <1>6. \/ step' \notin {"finish", "finished"} \/ Scan \/ UNCHANGED <<claims, children>>
    <2>1. CASE PushClaim
      <3>1. queue # <<>>
        BY <2>1 DEF PushClaim
      <3>2. step \notin {"finish", "finished"}
        BY <3>1 DEF StepInv
      <3>3. QED
        BY <2>1, <3>2 DEF PushClaim
    <2>2. CASE FillUnclaimed \/ Finish
      BY <2>2 DEF FillUnclaimed, Finish, FillStart, FinishStart, StartScan, builderVars
    <2>3. CASE ParseEhdr
      BY <2>3 DEF ParseEhdr, AddFile
    <2>4. CASE Reject \/ ParseShdrs \/ ParsePhdrs \/ ParseBody \/ NextEntry \/ UNCHANGED allVars
      BY <2>4 DEF Reject, Fail, ParseShdrs, ParsePhdrs, ParseTable, ParseBody, NextEntry, allVars, vars
    <2>5. QED
      BY <2>1, <2>2, <2>3, <2>4 DEF ParserNext
  <1>7. QED
    BY <1>3, <1>4, <1>5, <1>6

\* No claim is longer than the file.
LEMMA ClaimsFit ==
    ASSUME TypeOK, PlanInv, StepInv, step \in {"finish", "finished"}
    PROVE  /\ Places = Ids /\ Planned = claims
           /\ \A i \in Ids : claims[i].file = F /\ SpanEnd(claims[i]) <= files[F]
           /\ AllFit
  <1>1. queue = <<>> /\ queue \in Seq(Claim) /\ claims \in Seq(Claim) /\ files[F] = elf.len
    BY DEF StepInv, PlanInv, TypeOK
  <1>2. Places = Ids /\ Planned = claims
    BY <1>1, PlannedFacts DEF Ids, Places
  <1>3. \A i \in Ids : claims[i].file = F /\ SpanEnd(claims[i]) <= files[F]
    BY <1>1, <1>2 DEF PlanInv, PlacedInv, Fits
  <1>4. QED
    BY <1>2, <1>3 DEF AllFit

\* What fill_unclaimed has closed stays closed until the verdict.
LEMMA FilledStep ==
    ASSUME BuilderInv, PlanInv, StepInv, FilledInv, [ParserNext]_allVars
    PROVE  FilledInv'
  <1>1. TypeOK /\ FillInv /\ [AnyStep]_vars
    BY StepsAreAnySteps DEF BuilderInv
  <1>2. CASE UNCHANGED <<claims, children, files>> /\ (step = "finished" \/ (step = "finish" /\ stage = "open"))
    <2>1. \A f \in Declared : Full(f)
      BY <1>2 DEF FilledInv
    <2>2. Declared' = Declared /\ \A f : Full(f)' <=> Full(f)
      BY <1>2, SameFull DEF Declared
    <2>3. QED
      BY <2>1, <2>2 DEF FilledInv
  <1>3. CASE Scan
    <2>1. CASE FillNext /\ step = "finish" /\ stage \in FillStages
               /\ stage' \in FillStages \cup {"open"} /\ (stage' = "open" => stage = "fillFile")
      <3>1. step' = step /\ Declared' = Declared /\ UNCHANGED files
        BY <1>3, ScanStages DEF parserVars
      <3>2. CASE stage' = "open"
        <4>1. AllFit
          BY <1>1, <2>1, ClaimsFit
        <4>2. \A f \in Declared : Full(f)
          BY <1>1, <2>1, <3>2, <4>1, FillReturnsFull DEF Full
        <4>3. UNCHANGED <<claims, children>>
          BY <2>1, <3>2 DEF FillNext, FillFile, EnterFile, FillLeaf, FillTail, FillHole, FillNextFile,
                            FillReturn, FillStages, builderVars
        <4>4. \A f : Full(f)' <=> Full(f)
          BY <3>1, <4>3, SameFull
        <4>5. QED
          BY <3>1, <4>2, <4>4 DEF FilledInv
      <3>3. CASE stage' # "open"
        BY <2>1, <3>1, <3>3 DEF FilledInv
      <3>4. QED
        BY <3>2, <3>3
    <2>2. QED
      BY <1>2, <1>3, <2>1, ScanStages
  <1>4. CASE Finish
    <2>1. step = "finish" /\ stage = "open" /\ UNCHANGED <<claims, children, files>>
      BY <1>4 DEF Finish, Ready, FinishStart, StartScan, builderVars
    <2>2. QED
      BY <1>2, <2>1
  <1>5. CASE FillUnclaimed
    BY <1>5 DEF FillUnclaimed, FillStart, StartScan, FilledInv
  <1>6. CASE UNCHANGED allVars
    <2>1. UNCHANGED <<claims, children, files, step, stage>>
      BY <1>6 DEF allVars, parserVars, vars, builderVars
    <2>2. QED
      BY <1>2, <2>1 DEF FilledInv
  <1>7. CASE Reject \/ ParseEhdr \/ ParseShdrs \/ ParsePhdrs \/ ParseBody \/ NextEntry \/ PushClaim
    <2>1. step' \notin {"finish", "finished"}
      <3>1. CASE Reject \/ ParseEhdr \/ ParseShdrs \/ ParsePhdrs \/ ParseBody
        BY <3>1 DEF Reject, Fail, ParseEhdr, ParseShdrs, ParsePhdrs, ParseTable, ParseBody, Ready
      <3>2. CASE NextEntry
        <4>1. More /\ step' = step
          BY <3>2 DEF NextEntry
        <4>2. QED
          BY <4>1 DEF StepInv
      <3>3. CASE PushClaim
        <4>1. queue # <<>> /\ (step' = step \/ step' = "stopped")
          BY <3>3 DEF PushClaim
        <4>2. QED
          BY <4>1 DEF StepInv
      <3>4. QED
        BY <1>7, <3>1, <3>2, <3>3
    <2>2. QED
      BY <2>1 DEF FilledInv
  <1>8. QED
    BY <1>3, <1>4, <1>5, <1>6, <1>7 DEF ParserNext

\* finish meets no gap: there is no byte without a leaf.
LEMMA NoGapStep ==
    ASSUME BuilderInv, PlanInv, StepInv, VerdictInv, [ParserNext]_allVars
    PROVE  result'.kind # "Gap"
  <1> SUFFICES ASSUME result'.kind = "Gap" PROVE FALSE
    OBVIOUS
  <1>1. TypeOK /\ FinishInv /\ [AnyStep]_vars /\ result.kind # "Gap"
    BY StepsAreAnySteps DEF BuilderInv, VerdictInv
  <1>2. RefusalIsTrue'
    BY <1>1, FinishInvNext DEF FinishInv
  <1>3. FinishGap \/ FinishTailGap
    <2>1. result' # result
      BY <1>1
    <2>2. CASE FinishOverlap
      BY <2>2 DEF FinishOverlap, Return, OverlapResult
    <2>3. CASE FinishAccept
      BY <2>3 DEF FinishAccept, Return, NoResult
    <2>4. QED
      BY <1>1, <2>1, <2>2, <2>3
      DEF AnyStep, FillNext, FinishNext, vars, AddFile, Push, StartScan, EnterFile, FillStart,
          FinishStart, FillFile, FinishFile, FillLeaf, FillTail, FillHole, FillNextFile, FillReturn,
          FinishLeaf, FinishNextFile
  <1>4. stage = "finishScan" /\ step = "finished" /\ file \in Declared /\ todo \subseteq Leaves(file)
    <2>1. stage = "finishScan"
      BY <1>3 DEF FinishGap, FinishTailGap
    <2>2. step = "finished"
      BY <2>1 DEF StepInv, Steps, FillStages
    <2>3. QED
      BY <1>1, <2>1, <2>2 DEF TypeOK, FinishInv, ScanInv
  <1>5. /\ Full(file) /\ file = F /\ cursor \in Nat /\ files[F] \in Nat
        /\ \A i \in Ids : claims[i].file = F /\ SpanEnd(claims[i]) <= files[F]
    <2>1. Full(file)
      BY <1>4 DEF VerdictInv, FilledInv
    <2>2. file = F
      BY <1>4 DEF StepInv
    <2>3. cursor \in Nat /\ files[F] \in Nat
      BY <1>1, <1>4, <2>2, SizeFacts, PrimaryIsFile DEF TypeOK, Declared
    <2>4. QED
      BY <1>1, <1>4, <2>1, <2>2, <2>3, ClaimsFit
  <1>6. PICK hi \in Nat : /\ cursor < hi /\ hi <= files[F]
                          /\ result' = GapResult(cursor, hi)
                          /\ UNCHANGED <<claims, children, files>>
    <2>1. CASE FinishGap
      <3>1. PICK i \in todo : /\ claims[i].start > cursor
                              /\ result' = GapResult(cursor, claims[i].start)
                              /\ UNCHANGED <<claims, children, files>>
        BY <2>1 DEF FinishGap, Return, builderVars, ComesFirst
      <3>2. i \in Leaves(file)
        BY <1>4
      <3>3. i \in Ids /\ claims[i].start \in Nat /\ SpanEnd(claims[i]) \in Nat
            /\ claims[i].start <= SpanEnd(claims[i])
        BY <1>1, <3>2, LeafFacts
      <3>4. cursor < claims[i].start /\ claims[i].start <= files[F]
        BY <1>5, <3>1, <3>3
      <3>5. QED
        BY <3>1, <3>3, <3>4
    <2>2. CASE FinishTailGap
      BY <1>5, <2>2 DEF FinishTailGap, Return, builderVars
    <2>3. QED
      BY <1>3, <2>1, <2>2
  <1>7. Claimed(file, cursor)
    <2>1. cursor \in 0 .. (files[file] - 1)
      BY <1>5, <1>6
    <2>2. QED
      BY <1>5, <2>1 DEF Full
  <1>8. PICK f, c : f = file /\ c = cursor
    OBVIOUS
  <1>9. ~Claimed(f, c)'
    <2>1. /\ result'.kind = "Gap" /\ result'.file = f /\ result'.start = c
          /\ result'.len = hi - c /\ c \in Nat /\ c < hi
      BY <1>5, <1>6, <1>8 DEF GapResult
    <2>2. c \in result'.start .. (result'.start + result'.len - 1)
      BY <2>1
    <2>3. ~Claimed(result.file, c)'
      BY <1>2, <2>1, <2>2 DEF RefusalIsTrue
    <2>4. QED
      BY <2>1, <2>3 DEF Claimed, LeavesAt
  <1>10. QED
    BY <1>6, <1>7, <1>8, <1>9, SameClaims DEF Claimed

\* Two leaves that share a byte are in two regions that share it.
LEMMA OverlapsAreShared ==
    ASSUME BuilderInv, PlanInv, StepInv, FillerApart, step \in {"finish", "finished"},
           NEW b \in Nat, NEW i \in LeavesAt(F, b), NEW j \in LeavesAt(F, b), i # j
    PROVE  Shared(b)
  <1>1. TypeOK /\ Forest /\ elf \in Elfs /\ TableRead /\ sec = Len(Sections)
    BY DEF BuilderInv, StepInv
  <1>2. /\ Places = Ids /\ Planned = claims /\ claims \in Seq(Claim) /\ queue \in Seq(Claim)
        /\ PlacedInv /\ RegionInv
    BY <1>1, ClaimsFit DEF PlanInv, TypeOK
  <1>3. i \in Leaves(F) /\ j \in Leaves(F) /\ i \in Ids /\ j \in Ids
    BY DEF LeavesAt, Leaves
  <1>4. /\ claims[i].start <= b /\ b < SpanEnd(claims[i])
        /\ claims[j].start <= b /\ b < SpanEnd(claims[j])
    BY DEF LeavesAt, Contains
  <1>5. i \in Structures /\ j \in Structures
    <2>1. claims[i].kind # "Unclaimed" /\ claims[j].kind # "Unclaimed"
      BY <1>3 DEF FillerApart
    <2>2. claims[i] \in Claim /\ claims[j] \in Claim
      BY <1>1, <1>3, ClaimFacts
    <2>3. QED
      BY <1>2, <1>3, <2>1, <2>2 DEF Structures, Claim, Kinds
  <1>6. ~HasChild(i) /\ ~HasChild(j)
    <2>1. children[i] = {} /\ children[j] = {}
      BY <1>3 DEF Leaves, IsLeaf
    <2>2. \A k \in Ids : claims[k].parent # i /\ claims[k].parent # j
      BY <1>1, <1>3, <2>1 DEF Forest
    <2>3. QED
      BY <1>2, <2>2 DEF HasChild
  <1>7. /\ claims[i].start \in Nat /\ SpanEnd(claims[i]) \in Nat
        /\ claims[j].start \in Nat /\ SpanEnd(claims[j]) \in Nat
    BY <1>1, <1>3, LeafFacts
  <1>8. ~Apart(i, j)
    BY <1>2, <1>4, <1>7 DEF Apart
  <1>9. Base(i) # Base(j) /\ Base(i) \in Bases /\ Base(j) \in Bases
    <2>1. ~Under(i, j) /\ ~Under(j, i)
      <3>1. \A x, y \in Places : x # y /\ Under(x, y) => HasChild(y)
        <4> SUFFICES ASSUME NEW x \in Places, NEW y \in Places, x # y, Under(x, y)
                     PROVE  HasChild(y)
          OBVIOUS
        <4>1. Up(x) \in Places /\ (y = Up(x) \/ (y # Up(x) /\ y = Up(Up(x))))
          BY <1>2, UpFacts DEF Under, Base
        <4>2. QED
          BY <4>1 DEF Up, HasChild
      <3>2. QED
        BY <1>2, <1>3, <1>6, <3>1
    <2>2. QED
      BY <1>2, <1>5, <1>8, <2>1 DEF RegionInv
  <1>10. PICK k \in Reached, m \in Reached :
            k # m /\ IsExtent(Base(i), k) /\ IsExtent(Base(j), m)
    BY <1>2, <1>9 DEF RegionInv
  <1>11. Reached = Regions
    BY <1>1 DEF Reached, Regions
  <1>12. /\ \A x \in Places : /\ Planned[Base(x)].start <= Planned[x].start
                              /\ SpanEnd(Planned[x]) <= SpanEnd(Planned[Base(x)])
                              /\ Base(x) \in Places
         /\ \A x \in Places : Planned[x].start \in Nat /\ SpanEnd(Planned[x]) \in Nat
    BY <1>2, UpFacts
  <1>13. \A x \in {i, j} : Planned[Base(x)].start <= b /\ b < SpanEnd(Planned[Base(x)])
    <2> TAKE x \in {i, j}
    <2>1. x \in Places /\ Planned[x].start <= b /\ b < SpanEnd(Planned[x])
      BY <1>2, <1>3, <1>4
    <2>2. PICK y \in Places : y = Base(x)
      BY <1>12, <2>1
    <2>3. /\ Planned[y].start <= Planned[x].start /\ SpanEnd(Planned[x]) <= SpanEnd(Planned[y])
          /\ Planned[x].start \in Nat /\ SpanEnd(Planned[x]) \in Nat
          /\ Planned[y].start \in Nat /\ SpanEnd(Planned[y]) \in Nat
      BY <1>12, <2>1, <2>2
    <2>4. Planned[y].start <= b /\ b < SpanEnd(Planned[y])
      BY <2>1, <2>3
    <2>5. QED
      BY <2>2, <2>4
  <1>14. InRegion(k, b) /\ InRegion(m, b)
    BY <1>10, <1>13 DEF IsExtent, InRegion
  <1>15. QED
    BY <1>10, <1>11, <1>14 DEF Shared

-----------------------------------------------------------------------------
(* The theorems.                                                           *)

ParserInv == BuilderInv /\ PlanInv /\ StepInv /\ VerdictInv

\* The invariant holds before the file is read,
LEMMA ParserInvInit == ParserInit => ParserInv
  <1> SUFFICES ASSUME ParserInit PROVE ParserInv
    OBVIOUS
  <1>1. Init /\ elf \in Elfs /\ step = "ident" /\ queue = <<>> /\ loop = NoLoop /\ sec = 0
        /\ error = "none"
    BY DEF ParserInit
  <1>2. BuilderInv
    BY <1>1, TypeInit, FinishInvInit, FillInvInit DEF BuilderInv, Init, Forest, Ids
  <1>3. claims = <<>> /\ reply = "none" /\ stage = "open" /\ Declared = {} /\ result.kind = "none"
    BY <1>1 DEF Init, Declared, NoResult
  <1>4. Places = {} /\ Ids = {}
    BY <1>1, <1>3 DEF Places, Planned, Ids
  <1>5. PlanInv
    BY <1>1, <1>4 DEF PlanInv, PlacedInv, RegionInv, LoopInv, NoLoop, Structures, Bases
  <1>6. StepInv
    BY <1>1, <1>3, <1>4 DEF StepInv, Steps, AllStructures, NoClaimIsRefused, Refusals
  <1>7. VerdictInv
    BY <1>1, <1>3, <1>4 DEF VerdictInv, FillerApart, FilledInv
  <1>8. QED
    BY <1>2, <1>5, <1>6, <1>7 DEF ParserInv

\* is kept by every step,
LEMMA ParserInvNext == ParserInv /\ [ParserNext]_allVars => ParserInv'
  <1> SUFFICES ASSUME ParserInv, [ParserNext]_allVars PROVE ParserInv'
    OBVIOUS
  <1>1. BuilderInv /\ PlanInv /\ StepInv /\ VerdictInv /\ TypeOK
    BY DEF ParserInv, BuilderInv
  <1>2. [AnyStep]_vars
    BY <1>1, StepsAreAnySteps
  <1>3. BuilderInv'
    BY <1>1, <1>2, TypeNext, ForestNext, FinishInvNext, FillInvNext DEF BuilderInv
  <1>4. PlanInv' /\ StepInv'
    BY <1>1, PlanNext
  <1>5. VerdictInv'
    BY <1>1, FillerStep, FilledStep, NoGapStep DEF VerdictInv
  <1>6. QED
    BY <1>3, <1>4, <1>5 DEF ParserInv

\* and so holds throughout.
LEMMA ParserInvAlways == ParserSpec => []ParserInv
  BY ParserInvInit, ParserInvNext, PTL DEF ParserSpec

\* Whatever a file says, no claim of the parser is refused.
THEOREM ParserIsNeverRefused == ParserSpec => []NoClaimIsRefused
  <1>1. ParserInv => NoClaimIsRefused
    BY DEF ParserInv, StepInv
  <1>2. QED
    BY <1>1, ParserInvAlways, PTL

\* What finish refuses a file for is in the file: no byte is left without a leaf,
\* and bytes with two are in two of the regions the file sets out.
THEOREM OverlapsAreTheFiles == ParserSpec => []OverlapIsTheFiles
  <1>1. ParserInv => OverlapIsTheFiles
    <2> SUFFICES ASSUME ParserInv, result.kind = "LeafOverlap",
                        NEW b \in result.start .. (result.start + result.len - 1)
                 PROVE  Shared(b)
      BY DEF ParserInv, VerdictInv, OverlapIsTheFiles
    <2>1. BuilderInv /\ PlanInv /\ StepInv /\ FillerApart /\ TypeOK /\ FinishInv
      BY DEF ParserInv, BuilderInv, VerdictInv
    <2>2. stage = "done" /\ RefusalIsTrue
      BY <2>1 DEF FinishInv
    <2>3. step = "finished"
      BY <2>1, <2>2 DEF StepInv, Steps, FillStages
    <2>4. result.a # result.b /\ {result.a, result.b} \subseteq LeavesAt(result.file, b)
      BY <2>2 DEF RefusalIsTrue
    <2>5. result.file = F
      <3>1. result.a \in Ids /\ claims[result.a].file = result.file
        BY <2>4 DEF LeavesAt, Leaves
      <3>2. QED
        BY <2>1, <2>3, <3>1, ClaimsFit
    <2>6. b \in Nat
      <3>1. result.start \in U64 /\ result.len \in U64
        BY <2>1 DEF TypeOK, Result
      <3>2. result.start \in Nat /\ result.len \in Nat
        BY <3>1, SizeFacts
      <3>3. QED
        BY <3>2
    <2>7. QED
      BY <2>1, <2>3, <2>4, <2>5, <2>6, OverlapsAreShared
  <1>2. QED
    BY <1>1, ParserInvAlways, PTL

\* A file the parser accepts is partitioned by the leaves.
THEOREM ParsedIsPartition == ParserSpec => []AcceptedIsPartition
  <1>1. ParserInv => AcceptedIsPartition
    BY DEF ParserInv, BuilderInv, FinishInv
  <1>2. QED
    BY <1>1, ParserInvAlways, PTL

\* What the parser makes of the builder is what the contract allows: claims only
\* appear, each in its file and its parent, and the one verdict is true of them.
THEOREM ParserImplementsContract == ParserSpec => ImplementsContract
  <1>1. ParserInit => Contract!Init
    BY DEF ParserInit, Init, Contract!Init, NoResult, Contract!Undeclared, Undeclared
  <1>2. ParserInv /\ ParserInv' /\ [ParserNext]_allVars => [Contract!Next]_(Contract!vars)
    <2> SUFFICES ASSUME ParserInv, ParserInv', [ParserNext]_allVars
                 PROVE  [Contract!Next]_(Contract!vars)
      OBVIOUS
    <2>1. TypeOK /\ Forest /\ FinishInv /\ FinishInv' /\ [AnyStep]_vars
      BY StepsAreAnySteps DEF ParserInv, BuilderInv
    <2>2. QED
      BY <2>1, ContractNext
  <1>3. QED
    BY <1>1, <1>2, ParserInvAlways, PTL DEF ParserSpec, ImplementsContract, Contract!Spec
=============================================================================
