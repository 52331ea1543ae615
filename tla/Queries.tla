------------------------------- MODULE Queries -------------------------------
(***************************************************************************)
(* What an accepted Coverage is asked: the claim under the cursor          *)
(* (coverage.rs, by way of index.rs), the way up to its root, the          *)
(* statistics, the bands of the picture (runs in elfa-render) and the      *)
(* words the command line finds for a hole.  They are read when finish has *)
(* said Ok; a Coverage does not change after that.                         *)
(***************************************************************************)
EXTENDS Coverage

SX == INSTANCE SequencesExt
FX == INSTANCE FiniteSetsExt

ASSUME PrimaryAssumption == Files # {}

PRIMARY == CHOOSE f \in Files : \A g \in Files : f <= g

-----------------------------------------------------------------------------
(* Hover.  The index finds exactly the claims that cover the offset (module *)
(* IntervalIndex); hits.sort_unstable orders them by (end - start, id).     *)

Covering(f, b) == {i \in Ids : Contains(claims[i], f, b)}

Extent(i) == SpanEnd(claims[i]) - claims[i].start
Before(i, j) == Extent(i) < Extent(j) \/ (Extent(i) = Extent(j) /\ i <= j)

\* Mutant of InnermostAt: the longest claim comes first.
OutermostAt(f, b) ==
    IF Covering(f, b) = {} THEN None
    ELSE CHOOSE i \in Covering(f, b) : \A j \in Covering(f, b) : Before(j, i)

InnermostAt(f, b) ==
    IF Covering(f, b) = {} THEN None
    ELSE CHOOSE i \in Covering(f, b) : \A j \in Covering(f, b) : Before(i, j)

-----------------------------------------------------------------------------
(* The way up.  ancestry(id) is the sequence from the claim to its root.    *)

Ancestry == [i \in Ids |->
    LET up[j \in Ids] == IF claims[j].parent = None THEN <<j>>
                         ELSE <<j>> \o up[claims[j].parent]
    IN  up[i]]

Top(i) == SX!Last(Ancestry[i])
Roots == {i \in Ids : claims[i].parent = None}

-----------------------------------------------------------------------------
(* CoverageStats.                                                          *)

LeafIds == {i \in Ids : IsLeaf(i)}
Filler == {i \in Ids : claims[i].kind = "Unclaimed"}
BytesOf(S) == FX!MapThenSumSet(LAMBDA i : claims[i].len, S)

\* Mutant of Stats: what the roots span counts as explained, so a hole inside
\* a structure does too.
StatsOfRoots ==
    [total      |-> FX!MapThenSumSet(LAMBDA f : files[f], Declared),
     filler     |-> BytesOf(Roots \cap Filler),
     claimCount |-> Len(claims),
     leafCount  |-> Cardinality(LeafIds),
     maxDepth   |-> FX!Max({0} \cup {Len(Ancestry[i]) : i \in Ids})]

Stats ==
    [total      |-> FX!MapThenSumSet(LAMBDA f : files[f], Declared),
     filler     |-> BytesOf(LeafIds \cap Filler),
     claimCount |-> Len(claims),
     leafCount  |-> Cardinality(LeafIds),
     maxDepth   |-> FX!Max({0} \cup {Len(Ancestry[i]) : i \in Ids})]

Explained == IF Stats.filler > Stats.total THEN 0 ELSE Stats.total - Stats.filler

-----------------------------------------------------------------------------
(* Bands: leaves in file order, joined while they touch and have one root.  *)

\* Leaves of an accepted Coverage share no byte, so no two start together.
LeavesInOrder ==
    LET before(i) == {j \in Leaves(PRIMARY) : claims[j].start < claims[i].start}
    IN  [k \in 1 .. Cardinality(Leaves(PRIMARY)) |->
            CHOOSE i \in Leaves(PRIMARY) : Cardinality(before(i)) = k - 1]

Band(i) == [top |-> Top(i), start |-> claims[i].start, len |-> claims[i].len]
BandEnd(r) == SatAdd(r.start, r.len)

Extends(r, i) == r.top = Top(i) /\ BandEnd(r) = claims[i].start

Join(bands, i) ==
    IF bands # <<>> /\ Extends(SX!Last(bands), i)
    THEN SX!Front(bands) \o <<[SX!Last(bands) EXCEPT !.len = SatAdd(@, claims[i].len)]>>
    ELSE Append(bands, Band(i))

\* Mutant of Bands: the band still open when the leaves run out is not kept.
BandsClosed ==
    LET all == SX!FoldLeft(Join, <<>>, LeavesInOrder)
    IN  IF Len(all) > 1 THEN SX!Front(all) ELSE all

Bands == SX!FoldLeft(Join, <<>>, LeavesInOrder)

-----------------------------------------------------------------------------
(* A hole in words: inside its root, else after and before its neighbours'. *)
(* A root is known by its note.  Of what the parser makes of a file, every *)
(* structure has one that is not empty, and filler is no hole's parent or  *)
(* neighbour, so none is passed over for the want of a note.               *)

Neighbour(b) == IF InnermostAt(PRIMARY, b) = None THEN None ELSE Top(InnermostAt(PRIMARY, b))

Context(i) ==
    IF claims[i].parent # None
    THEN [inside |-> Top(claims[i].parent), after |-> None, before |-> None]
    ELSE [inside |-> None,
          after  |-> IF claims[i].start = 0 THEN None ELSE Neighbour(claims[i].start - 1),
          before |-> Neighbour(SpanEnd(claims[i]))]

-----------------------------------------------------------------------------
(* Properties.                                                             *)

\* The picture loses no byte and shows none twice: the bands of an accepted
\* file follow one another without a gap from its first byte to its last, and
\* two that touch belong to different structures.
BandsTile ==
    result.kind = "Ok" /\ files[PRIMARY] > 0 =>
        LET bands == Bands
        IN  /\ Head(bands).start = 0
            /\ BandEnd(SX!Last(bands)) = files[PRIMARY]
            /\ \A k \in 1 .. Len(bands) - 1 :
                  /\ BandEnd(bands[k]) = bands[k + 1].start
                  /\ bands[k].top # bands[k + 1].top

\* What verify prints as explained is the number of bytes whose one leaf is a
\* structure, counted byte by byte.
StatsCountBytes ==
    result.kind = "Ok" =>
        Explained = FX!MapThenSumSet(
            LAMBDA f : Cardinality({b \in 0 .. (files[f] - 1) :
                                      \E i \in LeavesAt(f, b) : claims[i].kind = "Structure"}),
            Declared)
=============================================================================
